SPECIFICATION MCFairSpec
CONSTANTS
  c1 = c1
  c2 = c2
  w1 = w1
  w2 = w2
  None = None
  Client = {c1, c2}
  First = c1
  Slot = {w1, w2}
  NumChunks = 3
  Blueprints = {2}
  FlushEvery = 2
  BatchSize = 1
  ChunkCap = 0
  TornFiles = TRUE
  Editable = {1}
  EditsUnfinished = FALSE
INVARIANTS
  ManifestIsIndexed
  CheckpointIsBacked
  JobHasWorker
  JoinedOnce
PROPERTIES
  CallsReturn
  JobsEnd
