\* Callers that also free pointers they no longer own: released ones (double
\* frees) and ones revoked by reset or a new init.
CONSTANTS
  SizeBits = 6
  U32Bits = 3
  PtrSize = 4
  StateSize = 40
  Clients = {c1, c2}
  InitCalls <- MCInitCallsOneLayout
  ExternalPtr = 40
  Misuse = TRUE
SPECIFICATION Spec
SYMMETRY MCSymmetry
INVARIANTS
  TypeOK
  FreeListMatchesBitmap
  StatsConsistent
  DoubleFreeDetected
PROPERTY
  RefinesAbstractPool
