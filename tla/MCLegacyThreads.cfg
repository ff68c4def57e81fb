\* ConcurrentAllocFree and ContainsUnderConcurrency: three workers, two
\* rounds each, on a pool of two blocks, with the hook.
\* A scaled 32-bit target: size_t and uint32_t of 8 bits.
CONSTANTS
  SizeBits = 8
  U32Bits = 8
  PtrSize = 4
  StateSize = 1
  Tests = {"ConcurrentAllocFree", "ContainsUnderConcurrency"}
  Call <- MCCall
  LegacyN = 2
  MaxBlocks = 2
  BlockSize = 4
  Threads = {t1, t2, t3}
  Iters = 2
  Hooked = TRUE
  NoThread = NoThread
SPECIFICATION Spec
\* The test program ends; a state where it is stuck instead violates
\* Termination, which is checked in place of deadlock.
CHECK_DEADLOCK FALSE
INVARIANTS
  TypeOK
  NoFailures
  FreeListSound
  FinalStatsClean
  BlocksNeverShared
PROPERTY
  Termination
