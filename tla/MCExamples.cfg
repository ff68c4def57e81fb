\* The three example programs and the seven single-threaded gtest cases,
\* with their own sizes, on a target whose
\* size_t and uint32_t have 16 bits; every buffer at address 8.
CONSTANTS
  SizeBits = 16
  U32Bits = 16
  PtrSize = 8
  StateSize = 1
  MaxBlocks = 127
  BufferAddr = 8
  BasicN = 63
  BasicBlockSize = 64
  EmbeddedN = 15
  EmbeddedBlockSize = 264
  StressN = 127
  StressBlockSize = 64
  SmallN = 31
  SmallBlockSize = 64
  Garbage = Garbage
SPECIFICATION Spec
\* Every program returns from main and stops there; its loops are bounded.
CHECK_DEADLOCK FALSE
INVARIANTS
  TypeOK
  CallsSucceed
  FreeListSound
  ReportedStats
  TestsPass
PROPERTIES
  RefinesAbstractPool
