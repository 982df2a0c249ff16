SPECIFICATION Spec
CONSTANTS
  a = a
  b = b
  w1 = w1
  w2 = w2
  Blank = Blank
  None = None
  Content <- MCContent
  Query <- MCQuery
  Config <- MCConfig
  Env <- MCEnv
  BatchSize = 2
  Worker = {w1, w2}
  MaxRetries = 1
  Capacity = 2
  MemoCapacity = 2
  MaxFrames = 4
INVARIANTS
  OwnVectors
  ChunksCover
PROPERTIES
  CachesAreLru
  CallsReturn
