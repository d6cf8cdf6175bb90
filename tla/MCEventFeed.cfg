\* Entries of two zones; batches of one entry; one snapshot at a time. A reading
\* and what is derived from it may fill the feed.
CONSTANTS
  CarsA = CarsA
  Motos01 = Motos01
  Zones <- TwoZones
  MaxFeed = 3
  SnapshotLimit = 3
  HistoryLimit = 2
  DrawerLimit = 3
  BatchSize = 1
  ScanLimit = 3
  StreamMaxLength = 2
  MaxDerived = 2
  MaxEntries <- EntriesBound
  MaxSystem <- SystemBound
  MaxReloads = 1
  MaxFaults = 1
SPECIFICATION Spec
SYMMETRY ZoneSymmetry
INVARIANTS FeedInOrder DrawerIsOfZone HistoryIsNewest
CHECK_DEADLOCK FALSE
