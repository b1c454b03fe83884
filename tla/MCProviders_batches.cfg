\* Three rows of two arguments: one is a duplicate, and two batches are needed.
SPECIFICATION Spec
CONSTANTS
  Operations = {"distance"}
  a1 = a1
  a2 = a2
  c1 = c1
  c2 = c2
  Adapters = {a1, a2}
  Callers = {c1, c2}
  Arguments = {"x", "y"}
  Outcome <- MCOutcome
  SnapshotOf <- MCSnapshotOf
  Cacheable <- MCCacheable
  SizeOf <- MCSizeOf
  Pending = Pending
  MaxEntries = 2
  MaxBytes = 4
  MaxRows = 3
  MaxBatch = 2
  MaxRevision = 2
  MaxGeneration = 2
SYMMETRY Symmetry
INVARIANTS CacheIsExact
PROPERTY ReadSpec
CHECK_DEADLOCK FALSE
