SPECIFICATION Spec
CONSTANTS
  b1 = b1
  b2 = b2
  b3 = b3
  b4 = b4
  Buf = {b1, b2, b3}
  vq_nentries = 2
  IdxMod = 4
INVARIANTS
  TypeOK
  OnePlaceEach
  ChainTerminated
  FreeIsClean
PROPERTY
  Implements
