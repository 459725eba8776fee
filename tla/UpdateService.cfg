SPECIFICATION Spec
CONSTANTS
  u1 = u1
  u2 = u2
  Updatable <- MCUpdatable
  None = None
  Modes = {0, 3}
  Deeps = {1, 2}
  MaxProxies = 2
  MaxReplaces = 2
SYMMETRY Symmetry
INVARIANTS
  TypeOK
  IdsAreOwned
PROPERTIES
  EveryFrame
CHECK_DEADLOCK FALSE
