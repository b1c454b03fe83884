SPECIFICATION MCSpec
CONSTANTS
  Width = 3
  Lateness = 2
  MaxEvents = 4
  MaxKeys = 2
  MaxBytes = 16
  EventBytes = 4
  TombstoneBytes = 2
  SourceBytes = 1
  MaxSources = 2
  RetainPredecessor = TRUE
  AllowOffsetGaps = FALSE
  Inputs <- MCInputs
  Removals <- MCRemovals
  Sources <- MCSources
  NativeInputs <- MCNativeInputs
  Clocks = {0, 3, 5}
  MaxOffset = 1
  PythonKey <- MCPythonKey
  PythonValue <- MCPythonValue
  MaxTime = 7
  MaxRevision = 6
  Inside = {"in"}
  s1 = s1
  s2 = s2
  s3 = s3
  Scans = {s1, s2, s3}
  RowsPerScan = 1
  MaxCursors = 2
  MaxDatasets = 2
SYMMETRY Symmetry
INVARIANTS
  ActiveIsExact
  HistoryIsSound
  ReadersAgree
  NativeAgrees
  RowsAreOwn
  LeaksNeedLoss
PROPERTIES
  RevisionsAdvance
CHECK_DEADLOCK FALSE
