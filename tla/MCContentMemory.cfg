SPECIFICATION Spec
CONSTANTS
  city = city
  e1 = e1
  e2 = e2
  None = None
  Key = {city}
  Embedder = {e1, e2}
  Tag <- MCTag
  Dims <- MCDims
  Hierarchical = TRUE
  Overwrite = {TRUE, FALSE}
  CommitEvery = 1
  Rewrites = TRUE
  KeepLatest = 1
  MinDead = 1
  Facts = TRUE
  CallsFail = TRUE
  CommitsFail = TRUE
  Deaths = TRUE
  MaxFrames = 4
  MaxPending = 4
  MaxCandidates = 1
SYMMETRY MCSymmetry
INVARIANTS
  IndexesMatchStore
  VectorsComparable
  CommitRetryableUnlessSuperseded
  CandidatesKeepLiveSet
