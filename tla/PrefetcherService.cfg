SPECIFICATION Spec
CONSTANTS
  k1 = k1
  k2 = k2
  b1 = b1
  b2 = b2
  b3 = b3
  Key <- MCKey
  Batch <- MCBatch
SYMMETRY Symmetry
INVARIANTS
  TypeOK
  HeldIsKept
  ToldWhenAllEnded
