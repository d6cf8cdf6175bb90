\* Readings at every threshold and hysteresis band, both kinds of fault.
CONSTANTS
  Warning = 8000
  Critical = 9000
  Full = 10000
  AlertHysteresis = 200
  LowAvailability = 5
  Capacity = 50
  Readings <- AroundThresholds
  MaxFaults <- OneOfEach
SPECIFICATION FairSpec
INVARIANTS HistoryMatchesActive AlertsFitZone RecoveryAnnounced
PROPERTY HeldBackWarningIsRaised
