CONSTANTS
  BufferSize = 4
  PacketLength = 2
  MaxLength = 15
  ReadSizes = {1, 3, 4}
  Deltas <- MCDeltas
  ChunkSizes = {2, 3}
  StreamEnd = 6
  PlainReplies = TRUE
  ErrorReplies = TRUE
  ErrorBodies = FALSE
SPECIFICATION FairSpec
INVARIANTS UnreadMatches EndMeansEnd
PROPERTIES ImplementsReader CallsReturn
CHECK_DEADLOCK FALSE
