CONSTANTS
  W = 3
  ByteBits = 2
  ByteShift = 1
  PacketBits = 4
  Roots = {0, 1}
  AutoBase = 2
  MaxTokens = 1
  Buckets = {1, 2}
  ClassMask = 3
  OffsetBits = 3
  TagBit = 8
  Cases <- MCCases
SPECIFICATION Spec
INVARIANT Decides
INVARIANT ActionsDefined
INVARIANT WellFormed
PROPERTY Shrinks
CHECK_DEADLOCK FALSE
