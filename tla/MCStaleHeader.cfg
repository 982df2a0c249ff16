SPECIFICATION Spec
CONSTANTS
  RingSizes = {2}
  MaxSequence <- LateMaxSequence
  MaxCells <- LateMaxCells
  CrashAt <- LateCrashAt
  FailAt <- LateFailAt
  Embedded = {}
  MaxBatch = 1
  MaxGeneration = 2
  RefreshAfterFailure = TRUE
INVARIANTS
  PendingPutsReopen
