\* ConcurrentAllocFree and ContainsUnderConcurrency: three workers, two rounds each, on a pool of two
\* blocks, with the mutex hook.  A scaled 32-bit target: size_t and
\* uint32_t of 8 bits.
CONSTANTS
  SizeBits = 8
  U32Bits = 8
  PtrSize = 4
  StateSize = 1
  Clients <- MCClients
  InitCalls <- MCInitCalls
  ExternalPtr = 40
  Misuse = FALSE
  Tests = {"ConcurrentAllocFree", "ContainsUnderConcurrency"}
  Call <- MCCall
  Threads = {t1, t2, t3}
  Iters = 2
  NoThread = NoThread
SPECIFICATION ThreadsSpec
\* The test program ends; a state where it is stuck instead violates
\* Termination, which is checked in place of deadlock.
CHECK_DEADLOCK FALSE
INVARIANTS
  TypeOK
  NoFailures
  FinalStatsClean
PROPERTY
  Termination
