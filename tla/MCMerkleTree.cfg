SPECIFICATION Spec
CONSTANTS
  Depth = 3
  Commitments = {c1, c2}
  Zero = Zero
SYMMETRY Symmetry
CHECK_DEADLOCK FALSE
INVARIANTS
  RootIsReference
  PathsReproduceRoot
