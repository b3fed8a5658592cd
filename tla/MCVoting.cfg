SPECIFICATION Spec
CONSTANTS
  m1 = m1
  m2 = m2
  s1 = s1
  s2 = s2
  c1 = c1
  c2 = c2
  c3 = c3
  Members <- MCMembers
  Commitments <- MCCommitments
  Secrets <- MCSecrets
  SecretOf <- MCSecretOf
  Salts = {}
  Zero = Zero
  None = None
  Capacity = 3
  MaxRootsRange = {3}
  DefaultMaxRoots = 3
  MaxPublished = 4
  Proposers <- MCMembers
  CreatedIn = {"Active"}
  Modes = {"Fixed", "Trailing"}
  MaxProposals = 1
  MaxBatch = 2
SYMMETRY Symmetry
CONSTRAINT Focused
INVARIANTS
  FixedOneBallotPerMember
  ActiveSnapshotIndexed
PROPERTIES
  OnlyRemovalNarrowsFixed
  ImplementsElection
