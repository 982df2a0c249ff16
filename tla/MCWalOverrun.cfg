SPECIFICATION Spec
CONSTANTS
  small = small
  medium = medium
  opaque = opaque
  Padding = Padding
  HeaderSize = 2
  WalSize = 10
  MaxSequence = 6
  MaxBatch = 1
  Payload <- MCPayload
  PayloadLen <- MCPayloadLen
  Decodable = {small, medium, opaque}
INVARIANTS
  RecoveryExact
