SPECIFICATION Spec
CONSTANTS
  m1 = m1
  m2 = m2
  s1 = s1
  s2 = s2
  c1 = c1
  c2 = c2
  c3 = c3
  Members <- MCMembers
  Commitments <- MCCommitments
  Secrets <- MCSecrets
  SecretOf <- MCSecretOf
  Salts = {}
  Zero = Zero
  None = None
  Capacity = 2
  MaxRootsRange = {2}
  DefaultMaxRoots = 2
  MaxPublished = 2
  Proposers <- MCMembers
  CreatedIn = {"Registration"}
  Modes = {"Fixed", "Trailing"}
  MaxProposals = 1
  MaxBatch = 2
SYMMETRY Symmetry
CONSTRAINT InvitedOnly
INVARIANTS
  TypeOK
  TallyMatchesNullifiers
PROPERTIES
  ImplementsElection
