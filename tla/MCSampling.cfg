CONSTANTS
  Counts <- MCCounts
  Lengths <- MCLengths
  WindowTTL = 3
  HistoryAge = 3
  TrendWindow = 1
  TrendThreshold = 1
  IncreaseWindow = 2
  TimeseriesMaxLength = 4
  MaxTime = 5
  MaxEvents = 2
  MaxStops = 1
SPECIFICATION SamplingSpec
INVARIANTS WindowCountsExact HistoryAnswersAsTimeseries QuietZoneIsStable GrowthIsOverReadings
CHECK_DEADLOCK FALSE
