SPECIFICATION NodeSpec
CONSTANTS
  scene = scene
  x = x
  y = y
  None = None
  Nodes <- MCNodes
  Root = {scene}
  MaxNested = 1
SYMMETRY Symmetry
INVARIANTS
  ActiveIffReached
PROPERTIES
  HooksAlternate
