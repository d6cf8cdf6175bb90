CONSTANTS
  z1 = z1
  z2 = z2
  Zones <- MCZones
  VehicleType <- MCVehicleType
  Configs <- MCConfigs
  Thresholds <- MCThresholds
  MaxEvents = 2
  MaxFaults = 2
SPECIFICATION FairSpec
INVARIANTS CountersAgree StatusIsTold RankingFollowsZones
PROPERTY FiguresFollowZones
CHECK_DEADLOCK FALSE
