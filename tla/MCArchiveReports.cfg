\* A retention of a day, two days of the clock.
CONSTANTS
  CarsA = CarsA
  Motos01 = Motos01
  Zones <- TwoZones
  DayTicks = 2
  RetentionDays = 1
  MaxNow = 3
  MaxRecords = 2
  MaxRequests = 2
  MaxFailures = 2
SPECIFICATION ReportsSpec
SYMMETRY Symmetry
INVARIANTS ReadyMeansSchema ReportsAreComplete ShownAsItIs
CHECK_DEADLOCK FALSE
