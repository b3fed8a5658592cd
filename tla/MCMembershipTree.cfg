SPECIFICATION MCSpec
CONSTANTS
  Members = {m1, m2}
  Commitments = {c1, c2, c3}
  Salts = {k1}
  Zero = Zero
  None = None
  Capacity = 2
  MaxRootsRange = {2, 3}
  DefaultMaxRoots = 3
  MaxPublished = 5
SYMMETRY Symmetry
INVARIANTS
  TypeOK
  EligibleRootsAreCurrent
  LiveLeafHasOneOwner
  CommitmentKeepsItsSlot
  CurrentRootEligible
