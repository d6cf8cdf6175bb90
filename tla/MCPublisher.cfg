\* Two commands at most, with one crash, one task that fails or one save
\* that is skipped.
CONSTANTS
  Config <- SmallConfig
  MaxMoves = 1
  Zones <- OneZone
  Capacity <- TwoSpaces
  Initial <- NoneTaken
  Commands <- SomeCommands
  MaxCommands = 2
  Faults <- AnyFault
  MaxFaults = 1
SPECIFICATION FairSpec
INVARIANTS PlanIsKept SavedWhenSettled ScenarioAnnounced
PROPERTIES ReadingsContinuous BurstEnds
CHECK_DEADLOCK FALSE
