------------------------------- MODULE Voting -------------------------------
(***************************************************************************)
(* The anonymous voting contract composed with the membership of one DAO.  *)
(* The two call each other: create_proposal reads the root and its index,  *)
(* vote asks root_eligibility, and the tree asks root_pin before it evicts *)
(* a root.  A transaction is one step whichever contract it enters first.  *)
(*                                                                         *)
(* A proof is valid exactly when the voter knows a commitment that is a    *)
(* leaf of the root it is made for; its nullifier is a function of the     *)
(* secret and the proposal, so a voter who registers again with the same   *)
(* secret and another salt has the same nullifier.                         *)
(***************************************************************************)
EXTENDS Integers, Sequences, FiniteSets

CONSTANTS
  Members, Commitments, Salts, Zero, None, Capacity, MaxRootsRange,
  DefaultMaxRoots, MaxPublished, \* of MembershipTree
  Secrets, SecretOf, \* the secret a commitment was made from
  Proposers,         \* members that members_can_propose and get_admin let create
  CreatedIn,         \* states that the creation entry points in use leave
  Modes,             \* vote modes in use, of Fixed and Trailing
  MaxProposals,      \* bound of the exploration: proposals of the DAO
  MaxBatch           \* MAX_VOTE_BATCH

Pids == 1 .. MaxProposals

ASSUME VotingAssumption ==
  /\ IsFiniteSet(Secrets)
  /\ SecretOf \in [Commitments -> Secrets]
  /\ Proposers \subseteq Members
  /\ CreatedIn \subseteq {"Registration", "Active"}
  /\ Modes \subseteq {"Fixed", "Trailing"}
  /\ MaxProposals \in Nat
  /\ MaxBatch \in Nat

VARIABLES
  sbt, membershipOpen, leafValue, nextLeafIndex, memberLeafIndex,
  commitmentUsed, lastRegistration, pending, thisLedger, roots, rootIndex,
  nextRootIndex, minValidRootIdx, maxRoots, \* of MembershipTree
  proposals,      \* Proposal entries, in the order of their ids
  nullifierUsed,  \* NullifierUsed entries of each proposal
  accumulator,    \* NullifierAccumulator: the hash chain as its inputs
  paused,         \* is_paused
  slotOwner,      \* history: the member that registered the leaf of a slot
  ballots         \* history: the slots whose leaf has voted on a proposal

treeVars == <<sbt, membershipOpen, leafValue, nextLeafIndex, memberLeafIndex,
  commitmentUsed, lastRegistration, pending, thisLedger, roots, rootIndex,
  nextRootIndex, minValidRootIdx, maxRoots>>
votingVars == <<proposals, nullifierUsed, accumulator, paused>>
history == <<slotOwner, ballots>>

Exists(p) == p \in 1 .. Len(proposals)
Active(p) == Exists(p) /\ proposals[p].state = "Active"

\* Mutant: the snapshots of the proposals that are not open yet
PinnedBeforeActivation ==
  {proposals[p].root : p \in {q \in DOMAIN proposals :
     proposals[q].state = "Registration" /\ proposals[q].mode = "Fixed"}}

\* root_pin: the snapshots of the Active Fixed proposals
PinnedRoots ==
  {proposals[p].root : p \in {q \in DOMAIN proposals :
     Active(q) /\ proposals[q].mode = "Fixed"}}

Tree == INSTANCE MembershipTree WITH pinned <- PinnedRoots

\* The assumptions of MembershipTree, which an instance does not bring along
ASSUME MembershipAssumption ==
  /\ Capacity \in Nat \ {0}
  /\ Zero \notin Commitments
  /\ None \notin Tree!Slots
  /\ None \notin Tree!RegistrationHashes
  /\ MaxRootsRange \subseteq Nat \ {0, 1}
  /\ DefaultMaxRoots \in MaxRootsRange
  /\ MaxPublished \in Nat

vars == <<treeVars, votingVars, history>>

\* ProposalInfo: the fields that the checks read or write
ProposalInfo ==
  [state : {"Registration", "Active", "Closed", "Archived"},
   mode : Modes, deadline : {"none", "ahead", "past"},
   root : Tree!Trees, snapshot : Tree!Trees,
   earliest : Nat, yes : Nat, no : Nat]

Init ==
  /\ Tree!Init
  /\ proposals = <<>>
  /\ nullifierUsed = [p \in Pids |-> {}]
  /\ accumulator = [p \in Pids |-> <<>>]
  /\ paused = FALSE
  /\ slotOwner = [s \in Tree!Slots |-> None]
  /\ ballots = [p \in Pids |-> {}]

-----------------------------------------------------------------------------
(* Proposals *)

\* create_proposal and create_proposal_in_registration; curr_idx panics
\* when the current root has no RootIndex entry
CreateProposal(m, mode, state, deadline) ==
  /\ ~paused
  /\ Len(proposals) < MaxProposals
  /\ Tree!HasSbt(m)
  /\ Tree!TreeInitialized
  /\ Tree!CurrentRoot \in DOMAIN rootIndex
  /\ proposals' = Append(proposals,
       [state |-> state, mode |-> mode, deadline |-> deadline,
        root |-> Tree!CurrentRoot, snapshot |-> Tree!CurrentRoot,
        earliest |-> rootIndex[Tree!CurrentRoot],
        yes |-> 0, no |-> 0])
  /\ UNCHANGED <<treeVars, nullifierUsed, accumulator, paused, history>>

\* Mutant: the state is not checked
SetMerkleRootAnyTime(p, i) ==
  /\ ~paused
  /\ proposals' = [proposals EXCEPT ![p].root = roots[i]]
  /\ UNCHANGED <<treeVars, nullifierUsed, accumulator, paused, history>>

\* set_merkle_root: any retained root, and only eligible_root changes.  The
\* commitment window is no constraint: set_commitment_window lets any caller
\* change it at any time.
SetMerkleRoot(p, i) ==
  /\ ~paused
  /\ proposals[p].state = "Registration"
  /\ proposals' = [proposals EXCEPT ![p].root = roots[i]]
  /\ UNCHANGED <<treeVars, nullifierUsed, accumulator, paused, history>>

\* activate_proposal, close_proposal and archive_proposal: one step of the
\* state machine ProposalState (closing or archiving again changes nothing)
Transition(p, from, to) ==
  /\ ~paused
  /\ proposals[p].state = from
  /\ proposals' = [proposals EXCEPT ![p].state = to]
  /\ UNCHANGED <<treeVars, nullifierUsed, accumulator, paused, history>>

ActivateProposal(p) == Transition(p, "Registration", "Active")
CloseProposal(p) == Transition(p, "Active", "Closed")
ArchiveProposal(p) == Transition(p, "Closed", "Archived")

\* The ledger time passes end_time
DeadlinePasses(p) ==
  /\ proposals[p].deadline = "ahead"
  /\ proposals' = [proposals EXCEPT ![p].deadline = "past"]
  /\ UNCHANGED <<treeVars, nullifierUsed, accumulator, paused, history>>

\* pause by a guardian; the pause ends by unpause or after MAX_PAUSE_DURATION
SetPaused(b) ==
  /\ paused # b
  /\ paused' = b
  /\ UNCHANGED <<treeVars, proposals, nullifierUsed, accumulator, history>>

-----------------------------------------------------------------------------
(* Votes *)

\* Mutant: Fixed mode does not consult the revocation floor (audit H3)
AssertRootEligibleWithoutFloor(p, r) ==
  CASE proposals[p].mode = "Fixed" -> r = proposals[p].root
    [] proposals[p].mode = "Trailing" ->
         Tree!RootEligible(r, proposals[p].earliest)

\* Mutant: both modes are checked like Trailing
AssertRootEligibleByIndex(p, r) ==
  Tree!RootEligible(r, proposals[p].earliest)

\* assert_root_eligible with assert_root_not_revoked
AssertRootEligible(p, r) ==
  CASE proposals[p].mode = "Fixed" ->
         r = proposals[p].root /\ Tree!RootEligible(r, 0)
    [] proposals[p].mode = "Trailing" ->
         Tree!RootEligible(r, proposals[p].earliest)

\* Mutant: the nullifier is made from the commitment
NullifierOfCommitment(b) == b.root[b.slot]

\* The nullifier that the circuit derives from the secret and the proposal
Nullifier(b) == SecretOf[b.root[b.slot]]

\* A ballot that passes the checks vote and cast_votes make of each vote
AcceptableBallot(p, b) ==
  /\ b.root[b.slot] # Zero
  /\ Nullifier(b) \notin nullifierUsed[p]
  /\ AssertRootEligible(p, b.root)

VotingOpen(p) == Active(p) /\ proposals[p].deadline # "past"

Count(bs, choice) == Cardinality({i \in DOMAIN bs : bs[i].choice = choice})

\* Spend the nullifiers of the ballots bs and add them to the tally
Record(p, bs) ==
  /\ nullifierUsed' = [nullifierUsed EXCEPT ![p] =
       @ \cup {Nullifier(bs[i]) : i \in DOMAIN bs}]
  /\ proposals' = [proposals EXCEPT ![p].yes = @ + Count(bs, TRUE),
                                    ![p].no = @ + Count(bs, FALSE)]
  /\ ballots' = [ballots EXCEPT ![p] =
       @ \cup {bs[i].slot : i \in DOMAIN bs}]
  /\ UNCHANGED <<treeVars, paused, slotOwner>>

\* accumulate_nullifier
AccumulateNullifier(p, n) ==
  accumulator' = [accumulator EXCEPT ![p] = Append(@, n)]

Vote(p, b) ==
  /\ ~paused
  /\ VotingOpen(p)
  /\ AcceptableBallot(p, b)
  /\ Record(p, <<b>>)
  /\ AccumulateNullifier(p, Nullifier(b))

\* Mutant: the leaves of a batch differ
DistinctLeaves(bs) ==
  \A i, j \in DOMAIN bs : i # j => bs[i].slot # bs[j].slot

\* The list `seen` of cast_votes
DistinctNullifiers(bs) ==
  \A i, j \in DOMAIN bs : i # j => Nullifier(bs[i]) # Nullifier(bs[j])

\* cast_votes: all or nothing.  It does not call accumulate_nullifier.
CastVotes(p, bs) ==
  /\ ~paused
  /\ Len(bs) \in 1 .. MaxBatch
  /\ VotingOpen(p)
  /\ \A i \in DOMAIN bs : AcceptableBallot(p, bs[i])
  /\ DistinctNullifiers(bs)
  /\ Record(p, bs)
  /\ UNCHANGED accumulator

\* What voters can prove: one ballot per live leaf of an indexed root
Ballots ==
  {b \in [slot : Tree!Slots, root : DOMAIN rootIndex, choice : BOOLEAN] :
     b.root[b.slot] # Zero}

-----------------------------------------------------------------------------
\* A transaction of the other two contracts
MembershipStep ==
  /\ Tree!TreeNext
  /\ slotOwner' = [s \in Tree!Slots |->
       IF \E m \in Members : memberLeafIndex'[m] = s
         THEN CHOOSE m \in Members : memberLeafIndex'[m] = s
         ELSE slotOwner[s]]
  /\ UNCHANGED <<votingVars, ballots>>

ProposalStep(p) ==
  \/ \E i \in 1 .. Len(roots) : SetMerkleRoot(p, i)
  \/ ActivateProposal(p)
  \/ CloseProposal(p)
  \/ ArchiveProposal(p)
  \/ DeadlinePasses(p)

VoteStep(p) ==
  \/ \E b \in Ballots : Vote(p, b)
  \/ \E n \in 1 .. MaxBatch : \E bs \in [1 .. n -> Ballots] : CastVotes(p, bs)

Next ==
  \/ MembershipStep
  \/ \E m \in Proposers, mode \in Modes, state \in CreatedIn,
        deadline \in {"none", "ahead"} : CreateProposal(m, mode, state, deadline)
  \/ \E p \in DOMAIN proposals : ProposalStep(p) \/ VoteStep(p)
  \/ \E b \in BOOLEAN : SetPaused(b)

Spec == Init /\ [][Next]_vars

-----------------------------------------------------------------------------
(* Properties *)

\* Every entry of the voting contract has its type.
TypeOK ==
  /\ proposals \in Seq(ProposalInfo)
  /\ Len(proposals) <= MaxProposals
  /\ nullifierUsed \in [Pids -> SUBSET Secrets]
  /\ accumulator \in [Pids -> Seq(Secrets)]
  /\ paused \in BOOLEAN
  /\ slotOwner \in [Tree!Slots -> Members \cup {None}]
  /\ ballots \in [Pids -> SUBSET Tree!Slots]

\* One vote per spent nullifier: neither a batch that carries a secret twice
\* nor a vote after a batch counts a voter again.
TallyMatchesNullifiers ==
  \A p \in DOMAIN proposals :
    proposals[p].yes + proposals[p].no = Cardinality(nullifierUsed[p])

\* On a Fixed proposal no member casts two ballots, even one that is removed,
\* reinstated and registered again with a fresh secret while it is open.
FixedOneBallotPerMember ==
  \A p \in DOMAIN proposals : proposals[p].mode = "Fixed" =>
    \A s, u \in ballots[p] : slotOwner[s] = slotOwner[u] => s = u

\* assert_root_not_revoked relies on it: the snapshot of an Active Fixed
\* proposal is in the history, because root_pin blocks its eviction.
ActiveSnapshotIndexed ==
  \A p \in DOMAIN proposals :
    Active(p) /\ proposals[p].mode = "Fixed"
      => proposals[p].root \in DOMAIN rootIndex

\* Only a removal narrows an open Fixed election: while the floor stands, the
\* voters of its snapshot keep a root they can vote with.
OnlyRemovalNarrowsFixed ==
  [][\A p \in DOMAIN proposals :
       /\ Active(p) /\ proposals[p].mode = "Fixed" /\ Active(p)'
       /\ AssertRootEligible(p, proposals[p].root)
       /\ minValidRootIdx' = minValidRootIdx
       => Tree!RootEligible(proposals[p].root, 0)']_vars

\* The voting contract implements the promise of Election: the root checks by
\* index amount to being a live leaf of the electorate.
Electorate(p) ==
  IF proposals[p].mode = "Trailing" THEN Commitments
  ELSE {proposals[p].root[s] : s \in Tree!Slots} \ {Zero}

Phase(p) ==
  CASE ~Exists(p) -> "absent"
    [] Exists(p) /\ proposals[p].state = "Registration" -> "registration"
    [] VotingOpen(p) -> "open"
    [] Active(p) /\ ~VotingOpen(p) -> "ended"
    [] Exists(p) /\ proposals[p].state = "Closed" -> "closed"
    [] OTHER -> "archived"

E == INSTANCE Election WITH
  phase <- [p \in Pids |-> Phase(p)],
  electorate <- [p \in Pids |-> IF Exists(p) THEN Electorate(p) ELSE {}],
  voted <- nullifierUsed,
  yes <- [p \in Pids |-> IF Exists(p) THEN proposals[p].yes ELSE 0],
  no <- [p \in Pids |-> IF Exists(p) THEN proposals[p].no ELSE 0],
  live <- {leafValue[s] : s \in Tree!Slots} \ {Zero}

ImplementsElection == E!Spec

=============================================================================
