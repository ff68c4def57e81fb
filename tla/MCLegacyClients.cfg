\* Two clients, five init calls, 6-bit size_t and 3-bit uint32_t.
CONSTANTS
  SizeBits = 6
  U32Bits = 3
  PtrSize = 4
  StateSize = 1
  MaxBlocks = 3
  Clients = {c1, c2}
  Calls <- MCCalls
SYMMETRY MCSymmetry
SPECIFICATION Spec
INVARIANTS
  TypeOK
  FreeListSound
  StatsConsistent
  OwnershipSound
PROPERTIES
  RefinesAbstractPool
