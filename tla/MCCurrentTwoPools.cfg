\* The single-threaded gtest cases of the current API, the example program
\* and test_mempool.c, each on its own buffers.
CONSTANTS
  SizeBits = 16
  U32Bits = 16
  PtrSize = 8
  StateSize = 112
  Clients = {"main"}
  InitCalls <- MCInitCalls
  InitOutcome <- [Mempool] MCInitOutcome
  ExternalPtr = 8192
  Misuse = FALSE
  BufferAddr = 16
  Buffer2Addr = 4112
SPECIFICATION TwoPoolsSpec
\* A program that has returned takes no more steps.
CHECK_DEADLOCK FALSE
INVARIANTS
  TypeOK
  TestsPass
  NoLeakAtExit
PROPERTIES
  Termination
