SPECIFICATION Spec
CONSTANTS
  s1 = s1
  s2 = s2
  x = x
  None = None
  Nodes <- MCNodes
  Root <- MCRoot
  MaxNested = 1
SYMMETRY Symmetry
INVARIANTS
  TypeOK
  OneScene
PROPERTIES
  DestroyedIsInactive
