SPECIFICATION Spec
CONSTANTS
  None = None
  NoText = NoText
  Gone = Gone
  RrfUnit = 60
  BlankWord = 0
  FrameWord = 100
  StopWord = {1}
  Frames <- MCFrames
  Facts <- MCFacts
  Surrogates <- MCSurrogates
  Tiers <- MCTiers
  Request <- MCRequest
  Candidates <- MCCandidates
  Score = {1, 2}
  Bonus = {0, 2}
  Weights <- MCWeights
  Vectors <- MCVectors
  Segments <- MCSegments
  VectorFrames = {1, 3}
  Dimensions = 2
  Similarity = "cosine"
  NoSegment = NoSegment
INVARIANTS
  SegmentsRestore
  CopyFindsDocs
  OrderFree
  ContextFits
  MissedOnlyForRoom
