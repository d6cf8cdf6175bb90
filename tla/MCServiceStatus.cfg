CONSTANTS
  Services <- MCServices
  TTL = 3
  Push = 1
  MaxChanges = 2
SPECIFICATION StatusFairSpec
INVARIANT ShownInTime
PROPERTY DetectorHolds
CHECK_DEADLOCK FALSE
