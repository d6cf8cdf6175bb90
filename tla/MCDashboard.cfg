CONSTANTS
  z1 = z1
  Zones <- MCZones
  Alerts <- NoAlerts
  Simulator = sim
  MaxVersion = 2
  MaxReloads = 2
  MaxDisturbances = 2
SPECIFICATION FairSpec
INVARIANT BehindOnlyIfLost
PROPERTY LiveViewHolds
CHECK_DEADLOCK FALSE
