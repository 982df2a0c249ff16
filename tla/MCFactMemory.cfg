SPECIFICATION Spec
CONSTANTS
  None = None
  Key <- MCKey
  Text <- MCText
  KeyOrder <- MCKeyOrder
  Size <- MCSize
  MaxField = 4194304
  MaxPairs = 16384
  MaxPayload = 8388608
  MaxRead = 32768
  CallsFail = TRUE
  CommitsFail = TRUE
  Deaths = TRUE
  MaxFrames = 3
  MaxPending = 4
INVARIANTS
  MemoryIsReplay
  CommitRetryableUnlessUpset
  HistoryLinked
  NoOlderRevisionReturns
