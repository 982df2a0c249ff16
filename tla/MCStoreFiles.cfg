SPECIFICATION Spec
CONSTANTS
  KeyOrder <- MCKeyOrder
  Size <- MCSize
  LabelsOf <- MCLabelsOf
  MaxString = 1
  MaxCount = 3
  Inputs <- MCInputs
  TornAt = {2, 7}
  BatchSize = 2
  MaxFrames = 3
  MaxCells = 7
  MaxGeneration = 2
  MaxDeletes = 1
  MaxRuns = 1
  MaxDeaths = 2
INVARIANTS
  ReadsBack
  VacuumCopiesOnce
  BackupHolds
CHECK_DEADLOCK FALSE
