\* Two cursors share a cache that holds one argument's rows at a time.
SPECIFICATION MCSpec
CONSTANTS
  Operations = {"near"}
  a1 = a1
  a2 = a2
  k1 = k1
  k2 = k2
  Adapters = {a1, a2}
  Callers = {}
  Cursors = {k1, k2}
  Arguments = {"pair", "grown"}
  Outcome <- MCOutcome
  SnapshotOf <- MCSnapshotOf
  Cacheable <- MCCacheable
  SizeOf <- MCSizeOf
  Pending = Pending
  MaxEntries = 2
  MaxBytes = 5
  MaxRows = 2
  MaxBatch = 1
  MaxPage = 2
  MaxPages = 2
  MaxRevision = 2
  MaxGeneration = 2
  SnapshotsUseRegistry = FALSE
PROPERTIES RowsSpec ScansEnd
CHECK_DEADLOCK FALSE
