SPECIFICATION Spec
CONSTANTS
  RingSizes = {2, 4}
  MaxSequence <- MCMaxSequence
  MaxCells <- MCMaxCells
  CrashAt <- MCCrashAt
  FailAt <- MCFailAt
  Embedded = {1}
  MaxBatch = 2
  MaxGeneration = 2
  RefreshAfterFailure = TRUE
INVARIANTS
  AlwaysReopens
  NeverPoisoned
  MemoryMatchesFile
PROPERTIES
  Durable
  ClosePublishes
