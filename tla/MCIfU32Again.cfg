CONSTANTS
  W = 6
  ByteBits = 2
  ByteShift = 1
  PacketBits = 12
  Roots = {0, 1}
  AutoBase = 2
  MaxTokens = 1
  Buckets = {1, 2, 3}
  Full = {}
  Overflows <- MCOverflows
  ClassMask = 3
  MetaRoot = 1
  ProtocolAt = 0
  MarkAt = 1
  MarkSize = 4
  IndexAt = 5
  MaxKeys = 5
  Cases <- MCAgain
SPECIFICATION Spec
INVARIANT TablesExist
CHECK_DEADLOCK FALSE
