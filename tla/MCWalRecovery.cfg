SPECIFICATION Spec
CONSTANTS
  small = small
  medium = medium
  opaque = opaque
  Padding = Padding
  HeaderSize = 3
  WalSize = 11
  MaxSequence = 8
  MaxBatch = 2
  Payload <- MCPayload
  PayloadLen <- MCPayloadLen
  Decodable = {small, medium}
INVARIANTS
  AdmittedBatchFits
  RecoveryExactUnlessOverrun
  ScanRestoresCursors
PROPERTIES
  PendingCellsKept
  RingSpec
