CONSTANTS
  BufferSize = 4
  PacketLength = 2
  MaxLength = 15
  ReadSizes = {1, 3, 4}
  Deltas <- MCDeltas
  ChunkSizes = {2, 3}
  StreamEnd = 6
  PlainReplies = TRUE
  ErrorReplies = TRUE
  ErrorBodies = TRUE
SPECIFICATION Spec
INVARIANT ErrorsReported
CHECK_DEADLOCK FALSE
