\* Every fault once; pages of two entries, so that a catch-up takes several.
CONSTANTS
  MaxStream = 3
  StreamMaxLength = 2
  PageSize = 2
  MaxDerived = 1
  MaxFaults <- EachFaultOnce
SPECIFICATION FairSpec
INVARIANTS ProcessedInOrder OvertakenOnlyIfLost CatchUpIsComplete
PROPERTIES DeliveredIsSettled Refinement
CHECK_DEADLOCK FALSE
