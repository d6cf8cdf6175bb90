\* One restart of the Processor, no other fault, nothing trimmed.
CONSTANTS
  MaxStream = 4
  StreamMaxLength = 10
  PageSize = 2
  MaxDerived = 0
  MaxFaults <- OneCrash
SPECIFICATION Spec
INVARIANT NothingMissing
CHECK_DEADLOCK FALSE
