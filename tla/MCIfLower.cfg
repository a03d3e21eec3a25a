CONSTANTS
  W = 3
  Narrow = 2
  ByteBits = 2
  PacketBits = 6
  Roots = {0, 1}
  MaxTokens = 1
  Buckets = {"p"}
  Sources <- MCSources
SPECIFICATION Spec
INVARIANT MeaningKept
INVARIANT OnlyMatches
INVARIANT OffsetsConstant
CHECK_DEADLOCK FALSE
