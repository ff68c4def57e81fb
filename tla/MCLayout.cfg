\* A 32-bit target, scaled: size_t and uint32_t have the same width.
CONSTANTS
  SizeBits = 8
  U32Bits = 8
  PtrSize = 4
  StateSize = 80
  PoolAddrs = {4, 16}
  StateSizes = {79, 80}
  PoolSizes <- MCPoolSizes
  BlockSizes <- MCBlockSizes
  Alignments = {0, 1, 2, 3, 4, 8, 16}
SPECIFICATION Spec
INVARIANTS
  LayoutIsLargestFit
  LayoutWellFormed
  BlockSizeRoundedUp
