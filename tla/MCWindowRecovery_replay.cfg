SPECIFICATION RecoverySpec
CONSTANTS
  Width = 3
  Lateness = 2
  MaxEvents = 3
  MaxKeys = 2
  MaxBytes = 14
  EventBytes = 4
  TombstoneBytes = 2
  SourceBytes = 1
  MaxSources = 2
  RetainPredecessor = TRUE
  AllowOffsetGaps = FALSE
  Inputs <- MCInputs
  Removals <- MCRemovals
  Sources = {"a", "b"}
  MaxTime = 6
  MaxRevision = 6
  Inside = {"in"}
  Log <- MCLog
INVARIANTS
  Restorable
  ActiveIsReplay
CHECK_DEADLOCK FALSE
