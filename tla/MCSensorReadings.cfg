\* Two or three spaces; three ticks, one command, one stop.
CONSTANTS
  Capacities = {2, 3}
  Percents = {50}
  Schedule <- ThreeProfiles
  StartTime = 480
  DayStart = 360
  DayEnd = 960
  PerTick = 240
  WallStart = 1439
  Minute = 1
  MaxNow = 2
  MaxMoves = 1
  MaxTicks = 3
  MaxCommands = 1
  MaxStops = 1
SPECIFICATION Spec
INVARIANTS EveryReadingCounts WindowBalances PlanFollowsSchedule
PROPERTY SimulatedTimeMovesOn
CHECK_DEADLOCK FALSE
