\* A 64-bit target, scaled: size_t (8 bits) is wider than uint32_t (5 bits).
CONSTANTS
  SizeBits = 8
  U32Bits = 5
  PtrSize = 8
  StateSize = 112
  PoolAddrs = {4, 16}
  StateSizes = {112}
  PoolSizes <- MCPoolSizes
  BlockSizes <- MCBlockSizes
  Alignments = {0, 1, 2, 3, 4, 8, 16}
SPECIFICATION Spec
INVARIANT
  BlockSizeRoundedUp
