\* Every fault once, batches of two entries per stream.
CONSTANTS
  Batch = 2
  MaxEntries = 3
  MaxAlerts = 2
  MaxFaults <- EveryFault
SPECIFICATION FairSpec
INVARIANTS AckedIsArchived AlertRowsCurrent OpenAlertsAreActive
PROPERTY EveryEntryIsArchived
CHECK_DEADLOCK FALSE
