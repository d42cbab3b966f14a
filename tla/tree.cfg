CONSTANTS
  NULL = NULL  Nodes = {1, 2, 3, 4, 5, 6, 7, 8}  Key <- EqualKeys
SPECIFICATION Spec
INVARIANTS Balanced WellLinked BoundsFound
PROPERTIES Implements
