\* Contract-abiding callers: they free only what they own (plus invalid pointers).
CONSTANTS
  SizeBits = 6
  U32Bits = 4
  PtrSize = 4
  StateSize = 40
  Clients = {c1, c2}
  InitCalls <- MCInitCalls
  ExternalPtr = 40
  Misuse = FALSE
SPECIFICATION Spec
SYMMETRY MCSymmetry
PROPERTY
  FailedCallsLeavePoolUnchanged
