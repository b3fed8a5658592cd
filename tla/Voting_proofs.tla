---------------------------- MODULE Voting_proofs ----------------------------
(***************************************************************************)
(* The voting contract counts one ballot per secret, and per member on     *)
(* Fixed proposals, and implements Election, for every number of members,  *)
(* commitments, slots, proposals and ballots of a batch.  What it needs of *)
(* the membership tree are the theorems of MembershipTree_proofs, with the *)
(* snapshots of the open Fixed proposals as the pinned roots.              *)
(***************************************************************************)
EXTENDS Voting, FiniteSetTheorems, SequenceTheorems, TLAPS

M == INSTANCE MembershipTree_proofs WITH pinned <- PinnedRoots

\* The history variable slotOwner knows the members that hold a slot.
OwnersRecorded ==
  \A m \in Members : memberLeafIndex[m] # None
                        => slotOwner[memberLeafIndex[m]] = m

\* Nobody votes with a slot that insert_leaf has not given out.
BallotsInTree == \A p \in Pids : \A s \in ballots[p] : s < nextLeafIndex

\* The ballots of a Fixed proposal are of leaves of its root: the root cannot
\* change once there is a ballot.
BallotsOfRoot ==
  \A p \in DOMAIN proposals : proposals[p].mode = "Fixed" =>
    \A s \in ballots[p] : proposals[p].root[s] # Zero

\* There are no votes before a proposal is Active.
NoEarlyVotes ==
  \A p \in Pids :
    (p \in DOMAIN proposals => proposals[p].state = "Registration")
      => nullifierUsed[p] = {} /\ ballots[p] = {}

VInv ==
  /\ M!IInv
  /\ TypeOK
  /\ OwnersRecorded
  /\ BallotsInTree
  /\ BallotsOfRoot
  /\ NoEarlyVotes
  /\ TallyMatchesNullifiers
  /\ FixedOneBallotPerMember

-----------------------------------------------------------------------------
(* The tree, as Voting sees it *)

\* The instance of Voting and the instance of the proofs are the same.
LEMMA SameTree ==
  /\ Tree!Slots = M!Slots
  /\ Tree!Trees = M!Trees
  /\ \A r, e : Tree!RootEligible(r, e) <=> M!RootEligible(r, e)
  /\ Tree!Init => M!Init
  /\ Tree!TreeNext => M!TreeNext
BY Zenon
   DEF Tree!Slots, Tree!Leaves, Tree!Trees, Tree!EmptyTree,
       Tree!RegistrationHashes, Tree!sbtVars, Tree!leafVars, Tree!pendingVars,
       Tree!rootVars, Tree!floorVars, Tree!treeVars, Tree!Init,
       Tree!TreeInitialized, Tree!RootEligible, Tree!Reindexed, Tree!MayEvict,
       Tree!PublishRoot, Tree!HasSbt, Tree!Mint, Tree!SelfJoin, Tree!Revoke,
       Tree!Leave, Tree!SetMembershipOpen, Tree!InitTree,
       Tree!ReserveCommitment, Tree!SlotFree, Tree!InsertCommitment,
       Tree!RegisterWithCaller, Tree!SelfRegister, Tree!FounderTree,
       Tree!CreateAndInitDao, Tree!CommitRegistration, Tree!RevealRegistration,
       Tree!CloseLedger, Tree!CooldownElapses, Tree!RaiseFloor,
       Tree!RemoveMember, Tree!Removed, Tree!ForgetMember, Tree!ReinstateMember,
       Tree!SetMaxRoots, Tree!SbtNext, Tree!RegistrationNext, Tree!AdminNext,
       Tree!TreeNext, M!Slots, M!Leaves, M!Trees, M!EmptyTree,
       M!RegistrationHashes, M!sbtVars, M!leafVars, M!pendingVars, M!rootVars,
       M!floorVars, M!treeVars, M!Init, M!TreeInitialized, M!RootEligible,
       M!Reindexed, M!MayEvict, M!PublishRoot, M!HasSbt, M!Mint, M!SelfJoin,
       M!Revoke, M!Leave, M!SetMembershipOpen, M!InitTree, M!ReserveCommitment,
       M!SlotFree, M!InsertCommitment, M!RegisterWithCaller, M!SelfRegister,
       M!FounderTree, M!CreateAndInitDao, M!CommitRegistration,
       M!RevealRegistration, M!CloseLedger, M!CooldownElapses, M!RaiseFloor,
       M!RemoveMember, M!Removed, M!ForgetMember, M!ReinstateMember,
       M!SetMaxRoots, M!SbtNext, M!RegistrationNext, M!AdminNext, M!TreeNext

\* The assumptions of the instance are those of Voting.
LEMMA SameAssumption ==
  /\ Capacity \in Nat \ {0}
  /\ Zero \notin Commitments
  /\ None \notin M!Slots
  /\ None \notin M!RegistrationHashes
  /\ MaxRootsRange \subseteq Nat \ {0, 1}
  /\ DefaultMaxRoots \in MaxRootsRange
  /\ MaxPublished \in Nat
BY MembershipAssumption
   DEF Tree!Slots, M!Slots, Tree!RegistrationHashes, M!RegistrationHashes

\* The invariant of the tree starts and is kept, whatever the round does.
LEMMA TreeStep ==
  /\ Tree!Init => M!IInv
  /\ M!IInv /\ (Tree!TreeNext \/ UNCHANGED treeVars) => M!IInv'
<1>1. Tree!Init => M!IInv
  BY SameTree, SameAssumption, M!InitInvariant
<1>2. UNCHANGED treeVars => UNCHANGED M!treeVars
  BY DEF treeVars, M!treeVars, M!sbtVars, M!leafVars, M!pendingVars,
         M!rootVars, M!floorVars
<1>3. M!IInv /\ [M!TreeNext]_(M!treeVars) => M!IInv'
  BY SameAssumption, M!InvariantInductive
<1> QED BY <1>1, <1>2, <1>3, SameTree

\* What Voting uses of that invariant.
LEMMA TreeFacts ==
  ASSUME M!IInv
  PROVE  /\ leafValue \in Tree!Trees
         /\ nextLeafIndex \in 0 .. Capacity
         /\ memberLeafIndex \in [Members -> Tree!Slots \cup {None}]
         /\ roots \in Seq(Tree!Trees)
         /\ DOMAIN rootIndex \subseteq Tree!Trees
         /\ rootIndex \in [DOMAIN rootIndex -> Nat]
         /\ nextRootIndex \in Nat /\ minValidRootIdx \in Nat
         /\ \A r : Tree!RootEligible(r, 0) =>
              \A s \in Tree!Slots : r[s] \in {Zero, leafValue[s]}
         /\ \A s \in Tree!Slots : leafValue[s] # Zero =>
              /\ s < nextLeafIndex
              /\ \E m \in Members : memberLeafIndex[m] = s
         /\ \A m \in Members : memberLeafIndex[m] # None
              => memberLeafIndex[m] < nextLeafIndex
<1> USE SameTree
<1>1. /\ leafValue \in Tree!Trees
      /\ nextLeafIndex \in 0 .. Capacity
      /\ memberLeafIndex \in [Members -> Tree!Slots \cup {None}]
      /\ roots \in Seq(Tree!Trees)
      /\ DOMAIN rootIndex \subseteq Tree!Trees
      /\ rootIndex \in [DOMAIN rootIndex -> Nat]
      /\ nextRootIndex \in Nat /\ minValidRootIdx \in Nat
  BY DEF M!IInv, M!TypeOK
<1>2. ASSUME NEW r, Tree!RootEligible(r, 0), NEW s \in Tree!Slots
      PROVE  r[s] \in {Zero, leafValue[s]}
  BY <1>2 DEF M!IInv, M!EligibleRootsAreCurrent, M!RootEligible
<1>3. ASSUME NEW s \in Tree!Slots, leafValue[s] # Zero
      PROVE  /\ s < nextLeafIndex
             /\ \E m \in Members : memberLeafIndex[m] = s
  BY <1>1, <1>3, MembershipAssumption
     DEF M!IInv, M!SlotsInOrder, M!LiveLeafHasOneOwner, Tree!Slots, M!Slots
<1>4. \A m \in Members : memberLeafIndex[m] # None
              => memberLeafIndex[m] < nextLeafIndex
  BY DEF M!IInv, M!SlotsInOrder
<1> QED BY <1>1, <1>2, <1>3, <1>4

\* The transactions of the tree by what they do to its leaves and roots.
LEMMA TreeCases ==
  ASSUME Tree!TreeNext
  PROVE  \/ UNCHANGED <<leafValue, nextLeafIndex, memberLeafIndex, rootIndex,
                        minValidRootIdx>>
         \/ Tree!InitTree
         \/ \E m \in Members, c \in Commitments : Tree!CreateAndInitDao(m, c)
         \/ \E m \in Members, c \in Commitments : Tree!InsertCommitment(m, c)
         \/ \E m \in Members : Tree!RemoveMember(m)
         \/ \E m \in Members : Tree!ReinstateMember(m)
BY DEF Tree!TreeNext, Tree!SbtNext, Tree!RegistrationNext, Tree!AdminNext,
       Tree!SelfJoin, Tree!Leave, Tree!SelfRegister, Tree!RegisterWithCaller,
       Tree!RevealRegistration, Tree!Mint, Tree!Revoke, Tree!SetMembershipOpen,
       Tree!CommitRegistration, Tree!CloseLedger, Tree!CooldownElapses,
       Tree!SetMaxRoots, Tree!leafVars, Tree!rootVars, Tree!floorVars

\* A tree that was not started has no leaf, no owner and no root.
LEMMA BeforeInit ==
  ASSUME M!IInv, roots = <<>>
  PROVE  /\ nextLeafIndex = 0
         /\ memberLeafIndex = [m \in Members |-> None]
         /\ DOMAIN rootIndex = {}
<1>1. ASSUME NEW r \in DOMAIN rootIndex
      PROVE  FALSE
  <2>1. \E i \in 1 .. Len(roots) : roots[i] = r
    BY DEF M!IInv, M!IndexedRootsRetained, M!RootOk
  <2> QED BY <2>1
<1> QED BY <1>1 DEF M!IInv, M!UntouchedBeforeInit

\* A member keeps its slot, loses it, or gets the next one, alone.
LEMMA SlotsStep ==
  ASSUME M!IInv, Tree!TreeNext
  PROVE  /\ nextLeafIndex' >= nextLeafIndex
         /\ \A m \in Members :
              memberLeafIndex'[m] \in {memberLeafIndex[m], None, nextLeafIndex}
         /\ \A m, x \in Members :
              (/\ nextLeafIndex # None
               /\ memberLeafIndex'[m] = nextLeafIndex
               /\ memberLeafIndex'[x] = nextLeafIndex) => m = x
<1> DEFINE Goal ==
      /\ nextLeafIndex' >= nextLeafIndex
      /\ \A m \in Members :
           memberLeafIndex'[m] \in {memberLeafIndex[m], None, nextLeafIndex}
      /\ \A m, x \in Members :
           (/\ nextLeafIndex # None
            /\ memberLeafIndex'[m] = nextLeafIndex
            /\ memberLeafIndex'[x] = nextLeafIndex) => m = x
<1>1. /\ nextLeafIndex \in Nat
      /\ memberLeafIndex \in [Members -> Tree!Slots \cup {None}]
      /\ \A m \in Members : memberLeafIndex[m] # None
           => memberLeafIndex[m] # nextLeafIndex
  <2>1. Tree!Slots \subseteq Int
    BY DEF Tree!Slots
  <2> QED BY <2>1, TreeFacts
<1>2. CASE UNCHANGED <<nextLeafIndex, memberLeafIndex>>
  BY <1>1, <1>2
<1>3. CASE Tree!InitTree
  BY <1>1, <1>3 DEF Tree!InitTree, Tree!leafVars
<1>4. ASSUME NEW m \in Members, NEW c \in Commitments,
             Tree!CreateAndInitDao(m, c)
      PROVE  Goal
  BY <1>1, <1>4, BeforeInit DEF Tree!CreateAndInitDao, Tree!TreeInitialized
<1>5. ASSUME NEW m \in Members, NEW c \in Commitments,
             Tree!InsertCommitment(m, c)
      PROVE  Goal
  BY <1>1, <1>5 DEF Tree!InsertCommitment
<1>6. ASSUME NEW m \in Members, Tree!RemoveMember(m)
      PROVE  Goal
  BY <1>1, <1>6 DEF Tree!RemoveMember
<1>7. ASSUME NEW m \in Members, Tree!ReinstateMember(m)
      PROVE  Goal
  BY <1>1, <1>7 DEF Tree!ReinstateMember, Tree!ForgetMember
<1> HIDE DEF Goal
<1> QED BY <1>2, <1>3, <1>4, <1>5, <1>6, <1>7, TreeCases DEF Goal

\* root_pin protects a snapshot: publishing a root does not evict it, and its
\* index does not fall.
LEMMA PublishKeepsPinned ==
  ASSUME M!IInv, NEW t, Tree!PublishRoot(t),
         NEW r \in PinnedRoots, r \in DOMAIN rootIndex
  PROVE  r \in DOMAIN rootIndex' /\ rootIndex'[r] >= rootIndex[r]
<1>1. /\ nextRootIndex \in Nat
      /\ rootIndex[r] \in Nat
  BY TreeFacts
<1>2. nextRootIndex >= rootIndex[r]
  BY <1>1 DEF M!IInv, M!IndexedRootsRetained
<1>3. PICK gone : /\ r \notin gone
                  /\ rootIndex' = Tree!Reindexed(gone, t, nextRootIndex)
  <2> DEFINE pushed == Append(roots, t)
             over == Len(pushed) > maxRoots
  <2>1. /\ over => Head(pushed) # r
        /\ rootIndex' = Tree!Reindexed(IF over THEN {Head(pushed)} ELSE {},
                                       t, nextRootIndex)
    BY DEF Tree!PublishRoot, Tree!MayEvict
  <2> HIDE DEF over, pushed
  <2> QED BY <2>1
<1> QED BY <1>1, <1>2, <1>3 DEF Tree!Reindexed

LEMMA PinnedStep ==
  ASSUME M!IInv, Tree!TreeNext \/ UNCHANGED treeVars,
         NEW r \in PinnedRoots, r \in DOMAIN rootIndex
  PROVE  r \in DOMAIN rootIndex' /\ rootIndex'[r] >= rootIndex[r]
<1> DEFINE Goal == r \in DOMAIN rootIndex' /\ rootIndex'[r] >= rootIndex[r]
<1>1. rootIndex[r] \in Nat
  BY TreeFacts
<1>2. CASE UNCHANGED rootIndex
  BY <1>1, <1>2
<1>3. ASSUME roots = <<>>
      PROVE  FALSE
  BY <1>3, BeforeInit
<1>4. ASSUME NEW m \in Members, NEW c \in Commitments,
             Tree!InsertCommitment(m, c)
      PROVE  Goal
  BY <1>4, PublishKeepsPinned DEF Tree!InsertCommitment
<1>5. ASSUME NEW m \in Members, Tree!RemoveMember(m)
      PROVE  Goal
  BY <1>5, PublishKeepsPinned DEF Tree!RemoveMember
<1>6. CASE UNCHANGED treeVars
  BY <1>6, <1>2 DEF treeVars
<1>7. CASE Tree!TreeNext
  <2>1. ASSUME Tree!InitTree \/ \E m \in Members, c \in Commitments :
                                   Tree!CreateAndInitDao(m, c)
        PROVE  roots = <<>>
    BY <2>1 DEF Tree!InitTree, Tree!CreateAndInitDao, Tree!TreeInitialized
  <2>2. ASSUME NEW m \in Members, Tree!ReinstateMember(m)
        PROVE  UNCHANGED rootIndex
    BY <2>2 DEF Tree!ReinstateMember, Tree!rootVars
  <2> HIDE DEF Goal
  <2>3. Goal
    BY <1>7, <1>2, <1>3, <1>4, <1>5, <2>1, <2>2, TreeCases DEF Goal
  <2> QED BY <2>3 DEF Goal
<1> QED BY <1>6, <1>7

-----------------------------------------------------------------------------
(* Proposals and ballots *)

\* A proposal is replaced in place.
LEMMA UpdateProposal ==
  ASSUME TypeOK, NEW p \in DOMAIN proposals, NEW q \in ProposalInfo,
         proposals' = [proposals EXCEPT ![p] = q]
  PROVE  /\ proposals' \in Seq(ProposalInfo)
         /\ Len(proposals') = Len(proposals)
         /\ DOMAIN proposals' = DOMAIN proposals
         /\ proposals'[p] = q
         /\ \A o \in DOMAIN proposals : o # p => proposals'[o] = proposals[o]
<1>1. proposals \in Seq(ProposalInfo) /\ DOMAIN proposals = 1 .. Len(proposals)
  BY LenProperties DEF TypeOK
<1>2. /\ proposals' \in Seq(ProposalInfo)
      /\ Len(proposals') = Len(proposals)
      /\ \A j \in 1 .. Len(proposals) :
           proposals'[j] = IF j = p THEN q ELSE proposals[j]
  BY <1>1, ExceptSeq
<1> QED BY <1>1, <1>2, LenProperties

\* Proposals are proposals, and there are no more than their bound.
LEMMA ProposalFacts ==
  ASSUME TypeOK
  PROVE  /\ Len(proposals) \in Nat
         /\ DOMAIN proposals = 1 .. Len(proposals)
         /\ DOMAIN proposals \subseteq Pids
         /\ \A p \in DOMAIN proposals :
              /\ Exists(p)
              /\ proposals[p] \in ProposalInfo
              /\ nullifierUsed[p] \subseteq Secrets
              /\ ballots[p] \subseteq Tree!Slots
<1>1. /\ proposals \in Seq(ProposalInfo)
      /\ Len(proposals) <= MaxProposals
      /\ nullifierUsed \in [Pids -> SUBSET Secrets]
      /\ ballots \in [Pids -> SUBSET Tree!Slots]
  BY DEF TypeOK
<1>2. /\ Len(proposals) \in Nat
      /\ DOMAIN proposals = 1 .. Len(proposals)
      /\ \A p \in DOMAIN proposals : proposals[p] \in ProposalInfo
  BY <1>1, LenProperties, ElementOfSeq
<1>3. DOMAIN proposals \subseteq Pids
  BY <1>1, <1>2, VotingAssumption DEF Pids
<1> QED BY <1>1, <1>2, <1>3 DEF Exists

\* Ballots with distinct nullifiers: as many nullifiers are spent as votes are
\* counted, for or against.
LEMMA CountBallots ==
  ASSUME NEW n \in Nat, NEW bs, DOMAIN bs = 1 .. n,
         \A i \in 1 .. n : bs[i].choice \in BOOLEAN,
         DistinctNullifiers(bs)
  PROVE  /\ IsFiniteSet({Nullifier(bs[i]) : i \in DOMAIN bs})
         /\ Cardinality({Nullifier(bs[i]) : i \in DOMAIN bs}) = n
         /\ Count(bs, TRUE) \in Nat
         /\ Count(bs, FALSE) \in Nat
         /\ Count(bs, TRUE) + Count(bs, FALSE) = n
<1> DEFINE I == 1 .. n
           S == {Nullifier(bs[i]) : i \in I}
           f == [i \in I |-> Nullifier(bs[i])]
           Y == {i \in I : bs[i].choice = TRUE}
           N == {i \in I : bs[i].choice = FALSE}
<1>1. IsFiniteSet(I) /\ Cardinality(I) = n
  BY FS_Interval
<1>2. IsFiniteSet(S) /\ Cardinality(S) = n
  <2>1. f \in [I -> S] /\ \A x \in S : \E i \in I : f[i] = x
    OBVIOUS
  <2>2. \A i, j \in I : f[i] = f[j] => i = j
    BY DEF DistinctNullifiers
  <2>3. f \in Bijection(I, S)
    BY <2>1, <2>2, Zenon DEF Bijection, Injection, Surjection, IsInjective
  <2>4. ExistsBijection(I, S)
    BY <2>3 DEF ExistsBijection
  <2> HIDE DEF I, S, f
  <2> QED BY <1>1, <2>4, FS_Bijection
<1>3. /\ IsFiniteSet(Y) /\ Cardinality(Y) \in Nat
      /\ IsFiniteSet(N) /\ Cardinality(N) \in Nat
  <2>1. Y \subseteq I /\ N \subseteq I
    OBVIOUS
  <2> HIDE DEF Y, N, I
  <2> QED BY <1>1, <2>1, FS_Subset, FS_CardinalityType
<1>4. Y \cup N = I /\ Y \cap N = {}
  OBVIOUS
<1>5. Cardinality(Y) + Cardinality(N) = n
  <2> HIDE DEF Y, N, I
  <2>1. Cardinality(Y \cup N)
          = Cardinality(Y) + Cardinality(N) - Cardinality(Y \cap N)
    BY <1>3, FS_Union
  <2>2. Cardinality(Y \cap N) = 0
    BY <1>4, FS_EmptySet
  <2>3. Cardinality(Y \cup N) = n
    BY <1>1, <1>4, Zenon
  <2> QED BY <1>3, <2>1, <2>2, <2>3
<1>6. Count(bs, TRUE) = Cardinality(Y) /\ Count(bs, FALSE) = Cardinality(N)
  BY DEF Count
<1> QED BY <1>2, <1>3, <1>5, <1>6

\* Transactions that touch neither tree nor votes: a new proposal starts at
\* zero, and an old one changes its root in the registration phase only.
LEMMA NoVotesKeepInvariant ==
  ASSUME VInv, TypeOK',
         UNCHANGED <<treeVars, nullifierUsed, history>>,
         DOMAIN proposals \subseteq DOMAIN proposals',
         \A p \in DOMAIN proposals' \ DOMAIN proposals :
           proposals'[p].yes = 0 /\ proposals'[p].no = 0,
         \A p \in DOMAIN proposals :
           /\ proposals'[p].mode = proposals[p].mode
           /\ proposals'[p].yes = proposals[p].yes
           /\ proposals'[p].no = proposals[p].no
           /\ proposals'[p].state = "Registration"
                => proposals[p].state = "Registration"
           /\ proposals'[p].root # proposals[p].root
                => proposals[p].state = "Registration"
  PROVE  VInv'
<1>1. M!IInv'
  BY TreeStep DEF VInv
<1>2. /\ UNCHANGED <<nullifierUsed, slotOwner, ballots, memberLeafIndex,
                     nextLeafIndex>>
      /\ DOMAIN proposals' \subseteq Pids
      /\ DOMAIN proposals \subseteq Pids
  <2>1. \A p \in DOMAIN proposals' : p \in 1 .. Len(proposals')
    BY LenProperties DEF TypeOK
  <2>2. Len(proposals') \in Nat /\ Len(proposals') <= MaxProposals
    BY LenProperties DEF TypeOK
  <2> QED BY <2>1, <2>2, VotingAssumption DEF history, treeVars, Pids
<1>3. OwnersRecorded' /\ BallotsInTree'
  BY <1>2 DEF VInv, OwnersRecorded, BallotsInTree
<1>4. NoEarlyVotes'
  BY <1>2 DEF VInv, NoEarlyVotes
<1>5. ASSUME NEW p \in DOMAIN proposals'
      PROVE  /\ proposals'[p].yes + proposals'[p].no
                  = Cardinality(nullifierUsed'[p])
             /\ proposals'[p].mode = "Fixed" =>
                  \A s \in ballots'[p] : proposals'[p].root[s] # Zero
             /\ proposals'[p].mode = "Fixed" =>
                  \A s, u \in ballots'[p] :
                    slotOwner'[s] = slotOwner'[u] => s = u
  <2>1. CASE p \in DOMAIN proposals
    <3>1. proposals'[p].root = proposals[p].root \/ ballots[p] = {}
      BY <2>1, <1>2 DEF VInv, NoEarlyVotes
    <3> QED
      BY <2>1, <3>1, <1>2
         DEF VInv, TallyMatchesNullifiers, BallotsOfRoot, FixedOneBallotPerMember
  <2>2. CASE p \notin DOMAIN proposals
    <3>1. nullifierUsed[p] = {} /\ ballots[p] = {}
      BY <2>2, <1>2 DEF VInv, NoEarlyVotes
    <3>2. proposals'[p].yes = 0 /\ proposals'[p].no = 0
      BY <2>2
    <3> QED BY <3>1, <3>2, <1>2, FS_EmptySet
  <2> QED BY <2>1, <2>2
<1>6. TallyMatchesNullifiers' /\ BallotsOfRoot' /\ FixedOneBallotPerMember'
  BY <1>5 DEF TallyMatchesNullifiers, BallotsOfRoot, FixedOneBallotPerMember
<1> QED BY <1>1, <1>3, <1>4, <1>6 DEF VInv

\* One proposal changes in place, without votes.
LEMMA ProposalStepKeepsInvariant ==
  ASSUME VInv, NEW p \in DOMAIN proposals, ProposalStep(p)
  PROVE  VInv'
<1>0. /\ TypeOK
      /\ proposals[p] \in ProposalInfo
      /\ roots \in Seq(Tree!Trees)
  BY ProposalFacts, TreeFacts DEF VInv
<1>1. PICK q \in ProposalInfo :
        /\ proposals' = [proposals EXCEPT ![p] = q]
        /\ q.mode = proposals[p].mode
        /\ q.yes = proposals[p].yes
        /\ q.no = proposals[p].no
        /\ q.state = "Registration" => proposals[p].state = "Registration"
        /\ q.root # proposals[p].root => proposals[p].state = "Registration"
  <2>1. ASSUME NEW i \in 1 .. Len(roots), SetMerkleRoot(p, i)
        PROVE  /\ proposals' = [proposals EXCEPT ![p] =
                                  [proposals[p] EXCEPT !.root = roots[i]]]
               /\ proposals[p].state = "Registration"
               /\ roots[i] \in Tree!Trees
    BY <2>1, <1>0, ElementOfSeq DEF SetMerkleRoot
  <2>2. ASSUME NEW to \in {"Active", "Closed", "Archived"}, NEW from,
               Transition(p, from, to)
        PROVE  proposals' = [proposals EXCEPT ![p] =
                               [proposals[p] EXCEPT !.state = to]]
    BY <2>2 DEF Transition
  <2>3. ASSUME DeadlinePasses(p)
        PROVE  proposals' = [proposals EXCEPT ![p] =
                               [proposals[p] EXCEPT !.deadline = "past"]]
    BY <2>3 DEF DeadlinePasses
  <2>4. /\ \A t \in Tree!Trees :
             [proposals[p] EXCEPT !.root = t] \in ProposalInfo
        /\ \A to \in {"Active", "Closed", "Archived"} :
             [proposals[p] EXCEPT !.state = to] \in ProposalInfo
        /\ [proposals[p] EXCEPT !.deadline = "past"] \in ProposalInfo
    BY <1>0 DEF ProposalInfo
  <2> DEFINE Fits(q) ==
        /\ proposals' = [proposals EXCEPT ![p] = q]
        /\ q.mode = proposals[p].mode
        /\ q.yes = proposals[p].yes
        /\ q.no = proposals[p].no
        /\ q.state = "Registration" => proposals[p].state = "Registration"
        /\ q.root # proposals[p].root => proposals[p].state = "Registration"
  <2>5. ASSUME NEW i \in 1 .. Len(roots), SetMerkleRoot(p, i)
        PROVE  Fits([proposals[p] EXCEPT !.root = roots[i]])
    BY <2>5, <2>1, <1>0 DEF ProposalInfo
  <2>6. ASSUME NEW to \in {"Active", "Closed", "Archived"}, NEW from,
               Transition(p, from, to)
        PROVE  Fits([proposals[p] EXCEPT !.state = to])
    BY <2>6, <2>2, <1>0 DEF ProposalInfo
  <2>7. ASSUME DeadlinePasses(p)
        PROVE  Fits([proposals[p] EXCEPT !.deadline = "past"])
    BY <2>7, <2>3, <1>0 DEF ProposalInfo
  <2> HIDE DEF Fits
  <2>8. \E q \in ProposalInfo : Fits(q)
    <3>1. CASE \E i \in 1 .. Len(roots) : SetMerkleRoot(p, i)
      BY <3>1, <2>1, <2>4, <2>5
    <3>2. CASE ActivateProposal(p) \/ CloseProposal(p) \/ ArchiveProposal(p)
      BY <3>2, <2>4, <2>6 DEF ActivateProposal, CloseProposal, ArchiveProposal
    <3>3. CASE DeadlinePasses(p)
      BY <3>3, <2>4, <2>7
    <3> QED BY <3>1, <3>2, <3>3 DEF ProposalStep
  <2> QED BY <2>8 DEF Fits
<1>2. /\ proposals' \in Seq(ProposalInfo)
      /\ Len(proposals') = Len(proposals)
      /\ DOMAIN proposals' = DOMAIN proposals
      /\ proposals'[p] = q
      /\ \A o \in DOMAIN proposals : o # p => proposals'[o] = proposals[o]
  BY <1>0, <1>1, UpdateProposal
<1>3. UNCHANGED <<treeVars, nullifierUsed, accumulator, paused, history>>
  BY DEF ProposalStep, ActivateProposal, CloseProposal, ArchiveProposal,
         SetMerkleRoot, Transition, DeadlinePasses
<1>4. TypeOK'
  BY <1>0, <1>2, <1>3 DEF TypeOK, history
<1> QED BY <1>1, <1>2, <1>3, <1>4, NoVotesKeepInvariant

LEMMA CreateKeepsInvariant ==
  ASSUME VInv, NEW m \in Proposers, NEW mode \in Modes, NEW state \in CreatedIn,
         NEW deadline \in {"none", "ahead"},
         CreateProposal(m, mode, state, deadline)
  PROVE  VInv'
<1> DEFINE q == [state |-> state, mode |-> mode, deadline |-> deadline,
                 root |-> Tree!CurrentRoot, snapshot |-> Tree!CurrentRoot,
                 earliest |-> rootIndex[Tree!CurrentRoot], yes |-> 0, no |-> 0]
<1>1. TypeOK /\ Len(proposals) \in Nat
      /\ DOMAIN proposals = 1 .. Len(proposals)
  BY ProposalFacts DEF VInv
<1>2. q \in ProposalInfo
  <2>1. /\ Tree!CurrentRoot \in Tree!Trees
        /\ rootIndex[Tree!CurrentRoot] \in Nat
    BY TreeFacts DEF VInv, CreateProposal
  <2> QED BY <2>1, VotingAssumption DEF ProposalInfo
<1>3. proposals' = Append(proposals, q)
  BY DEF CreateProposal
<1> HIDE DEF q
<1>4. /\ proposals' \in Seq(ProposalInfo)
      /\ Len(proposals') = Len(proposals) + 1
      /\ DOMAIN proposals' = 1 .. Len(proposals) + 1
      /\ proposals'[Len(proposals) + 1] = q
      /\ \A o \in DOMAIN proposals : proposals'[o] = proposals[o]
  BY <1>1, <1>2, <1>3, AppendProperties, LenProperties DEF TypeOK
<1>5. UNCHANGED <<treeVars, nullifierUsed, accumulator, paused, history>>
  BY DEF CreateProposal
<1>6. TypeOK'
  BY <1>1, <1>4, <1>5, VotingAssumption DEF TypeOK, history, CreateProposal
<1>7. \A p \in DOMAIN proposals' \ DOMAIN proposals : proposals'[p] = q
  BY <1>1, <1>4
<1>8. q.yes = 0 /\ q.no = 0
  BY DEF q
<1> QED BY <1>1, <1>4, <1>5, <1>6, <1>7, <1>8, NoVotesKeepInvariant

\* The tree changes under an open proposal: the slots that have voted keep the
\* owners they had, because insert_leaf never gives out a slot again.
LEMMA MembershipStepKeepsInvariant ==
  ASSUME VInv, MembershipStep
  PROVE  VInv'
<1>1. /\ M!IInv /\ TypeOK /\ Tree!TreeNext
      /\ UNCHANGED <<proposals, nullifierUsed, accumulator, paused, ballots>>
  BY DEF VInv, MembershipStep, votingVars
<1>2. M!IInv'
  BY <1>1, TreeStep
<1>3. /\ nextLeafIndex \in Nat /\ nextLeafIndex' \in Nat
      /\ nextLeafIndex' >= nextLeafIndex
      /\ memberLeafIndex' \in [Members -> Tree!Slots \cup {None}]
      /\ Tree!Slots \subseteq Int /\ None \notin Tree!Slots
  <2>1. /\ nextLeafIndex' \in 0 .. Capacity
        /\ memberLeafIndex' \in [Members -> Tree!Slots \cup {None}]
    BY <1>2, SameTree DEF M!IInv, M!TypeOK
  <2> QED BY <1>1, <2>1, TreeFacts, SlotsStep, MembershipAssumption
          DEF Tree!Slots
<1>4. ASSUME NEW m \in Members, memberLeafIndex'[m] # None
      PROVE  /\ memberLeafIndex'[m] \in Tree!Slots
             /\ memberLeafIndex'[m] \in {memberLeafIndex[m], nextLeafIndex}
             /\ memberLeafIndex'[m] # nextLeafIndex
                  => slotOwner[memberLeafIndex'[m]] = m
  BY <1>1, <1>3, <1>4, SlotsStep DEF VInv, OwnersRecorded
<1>5. \A s \in Tree!Slots :
        slotOwner'[s] = IF \E m \in Members : memberLeafIndex'[m] = s
                          THEN CHOOSE m \in Members : memberLeafIndex'[m] = s
                          ELSE slotOwner[s]
  BY DEF MembershipStep
<1>6. slotOwner' \in [Tree!Slots -> Members \cup {None}]
  BY <1>1 DEF MembershipStep, TypeOK
<1>7. ASSUME NEW s \in Tree!Slots, s # nextLeafIndex
      PROVE  slotOwner'[s] = slotOwner[s]
  <2>1. CASE \E m \in Members : memberLeafIndex'[m] = s
    <3>1. PICK m \in Members : m = slotOwner'[s] /\ memberLeafIndex'[m] = s
      BY <2>1, <1>5
    <3> QED BY <3>1, <1>3, <1>4, <1>7
  <2> QED BY <2>1, <1>5
<1>8. OwnersRecorded'
  <2> SUFFICES ASSUME NEW m \in Members, memberLeafIndex'[m] # None
               PROVE  slotOwner'[memberLeafIndex'[m]] = m
    BY DEF OwnersRecorded
  <2>1. PICK x \in Members : /\ x = slotOwner'[memberLeafIndex'[m]]
                             /\ memberLeafIndex'[x] = memberLeafIndex'[m]
    BY <1>4, <1>5
  <2>2. CASE memberLeafIndex'[m] = nextLeafIndex
    BY <2>1, <2>2, <1>1, SlotsStep
  <2>3. CASE memberLeafIndex'[m] # nextLeafIndex
    BY <2>1, <2>3, <1>4
  <2> QED BY <2>2, <2>3
<1>9. TypeOK'
  BY <1>1, <1>6 DEF TypeOK
<1>10. BallotsInTree'
  <2> SUFFICES ASSUME NEW p \in Pids, NEW s \in ballots[p]
               PROVE  s < nextLeafIndex'
    BY <1>1 DEF BallotsInTree
  <2>1. s \in Int
    BY <1>1, <1>3 DEF TypeOK
  <2>2. s < nextLeafIndex
    BY DEF VInv, BallotsInTree
  <2> QED BY <1>3, <2>1, <2>2
<1>11. BallotsOfRoot' /\ NoEarlyVotes' /\ TallyMatchesNullifiers'
  BY <1>1 DEF VInv, BallotsOfRoot, NoEarlyVotes, TallyMatchesNullifiers
<1>12. FixedOneBallotPerMember'
  <2> SUFFICES ASSUME NEW p \in DOMAIN proposals, proposals[p].mode = "Fixed",
                      NEW s \in ballots[p], NEW u \in ballots[p],
                      slotOwner'[s] = slotOwner'[u]
               PROVE  s = u
    BY <1>1 DEF FixedOneBallotPerMember
  <2>1. /\ s \in Tree!Slots /\ s < nextLeafIndex
        /\ u \in Tree!Slots /\ u < nextLeafIndex
    BY <1>1, ProposalFacts DEF VInv, BallotsInTree
  <2>2. slotOwner'[s] = slotOwner[s] /\ slotOwner'[u] = slotOwner[u]
    BY <2>1, <1>3, <1>7
  <2> QED BY <2>2 DEF VInv, FixedOneBallotPerMember
<1> QED BY <1>2, <1>8, <1>9, <1>10, <1>11, <1>12 DEF VInv

-----------------------------------------------------------------------------
(* Votes *)

\* A root that assert_root_eligible lets a Fixed proposal use holds live leaves
\* only, and distinct live leaves have distinct owners.
LEMMA RootOwners ==
  ASSUME VInv, NEW r, Tree!RootEligible(r, 0),
         NEW s \in Tree!Slots, NEW u \in Tree!Slots,
         r[s] # Zero, r[u] # Zero, slotOwner[s] = slotOwner[u]
  PROVE  s = u
<1>1. leafValue[s] # Zero /\ leafValue[u] # Zero
  BY TreeFacts DEF VInv
<1>2. PICK m \in Members : memberLeafIndex[m] = s
  BY <1>1, TreeFacts DEF VInv
<1>3. PICK x \in Members : memberLeafIndex[x] = u
  BY <1>1, TreeFacts DEF VInv
<1> QED BY <1>2, <1>3, MembershipAssumption DEF VInv, OwnersRecorded

\* An accepted ballot has the type of a ballot and is of a live leaf, which on
\* a Fixed proposal is a leaf of its root.
LEMMA AcceptedBallot ==
  ASSUME VInv, NEW p \in DOMAIN proposals, NEW b \in Ballots,
         AcceptableBallot(p, b)
  PROVE  /\ b.slot \in Tree!Slots
         /\ b.choice \in BOOLEAN
         /\ b.slot < nextLeafIndex
         /\ b.root[b.slot] \in Commitments
         /\ b.root[b.slot] = leafValue[b.slot]
         /\ Nullifier(b) \in Secrets \ nullifierUsed[p]
         /\ proposals[p].mode = "Fixed" =>
              /\ b.root = proposals[p].root
              /\ Tree!RootEligible(b.root, 0)
<1>1. /\ b.slot \in Tree!Slots /\ b.choice \in BOOLEAN
      /\ b.root \in DOMAIN rootIndex
      /\ b.root[b.slot] # Zero
  BY DEF Ballots
<1>2. b.root \in Tree!Trees /\ b.root[b.slot] \in Commitments
  BY <1>1, TreeFacts DEF VInv, Tree!Trees, Tree!Leaves
<1>3. proposals[p].mode \in {"Fixed", "Trailing"} /\ proposals[p].earliest \in Nat
  BY ProposalFacts, VotingAssumption DEF VInv, ProposalInfo
<1>4. /\ Tree!RootEligible(b.root, 0)
      /\ proposals[p].mode = "Fixed" => b.root = proposals[p].root
  <2>1. rootIndex[b.root] \in Nat
    BY <1>1, TreeFacts DEF VInv
  <2>2. CASE proposals[p].mode = "Fixed"
    BY <2>2 DEF AcceptableBallot, AssertRootEligible
  <2>3. CASE proposals[p].mode = "Trailing"
    <3>1. Tree!RootEligible(b.root, proposals[p].earliest)
      BY <2>3 DEF AcceptableBallot, AssertRootEligible
    <3> QED BY <3>1, <2>1, <2>3, <1>3 DEF Tree!RootEligible
  <2> QED BY <1>3, <2>2, <2>3
<1>5. b.root[b.slot] = leafValue[b.slot] /\ b.slot < nextLeafIndex
  BY <1>1, <1>4, TreeFacts DEF VInv
<1>6. Nullifier(b) \in Secrets \ nullifierUsed[p]
  BY <1>2, VotingAssumption DEF AcceptableBallot, Nullifier
<1> QED BY <1>1, <1>2, <1>4, <1>5, <1>6

\* Setting the tally of a proposal changes its tally only.
WithTally(r, a, b) == [r EXCEPT !.yes = a, !.no = b]

LEMMA SetTally ==
  ASSUME NEW r \in ProposalInfo, NEW a \in Nat, NEW b \in Nat
  PROVE  /\ WithTally(r, a, b) \in ProposalInfo
         /\ WithTally(r, a, b).yes = a /\ WithTally(r, a, b).no = b
         /\ WithTally(r, a, b).state = r.state
         /\ WithTally(r, a, b).mode = r.mode
         /\ WithTally(r, a, b).root = r.root
         /\ WithTally(r, a, b).deadline = r.deadline
BY DEF ProposalInfo, WithTally

\* What vote and cast_votes have checked before they record the ballots bs.
Accepted(p, n, bs) ==
  /\ n \in Nat /\ bs \in [1 .. n -> Ballots]
  /\ VotingOpen(p)
  /\ \A i \in DOMAIN bs : AcceptableBallot(p, bs[i])
  /\ DistinctNullifiers(bs)
  /\ Record(p, bs)

Spent(bs) == {Nullifier(bs[i]) : i \in DOMAIN bs}

\* The ballots spend as many fresh nullifiers as they are votes.
LEMMA NullifierEffect ==
  ASSUME VInv, NEW p \in DOMAIN proposals,
         NEW n, NEW bs, Accepted(p, n, bs)
  PROVE  /\ IsFiniteSet(Spent(bs)) /\ Cardinality(Spent(bs)) = n
         /\ n \in Nat
         /\ Count(bs, TRUE) \in Nat /\ Count(bs, FALSE) \in Nat
         /\ Count(bs, TRUE) + Count(bs, FALSE) = n
         /\ Spent(bs) \in SUBSET Secrets
         /\ Spent(bs) \cap nullifierUsed[p] = {}
         /\ nullifierUsed' = [nullifierUsed EXCEPT ![p] = @ \cup Spent(bs)]
<1>1. n \in Nat /\ DOMAIN bs = 1 .. n /\ \A i \in 1 .. n : bs[i] \in Ballots
  BY DEF Accepted
<1>2. \A i \in 1 .. n : /\ bs[i].choice \in BOOLEAN
                        /\ Nullifier(bs[i]) \in Secrets \ nullifierUsed[p]
  BY <1>1, AcceptedBallot DEF Accepted
<1>3. /\ IsFiniteSet(Spent(bs)) /\ Cardinality(Spent(bs)) = n
      /\ Count(bs, TRUE) \in Nat /\ Count(bs, FALSE) \in Nat
      /\ Count(bs, TRUE) + Count(bs, FALSE) = n
  BY <1>1, <1>2, CountBallots DEF Accepted, Spent
<1>4. /\ Spent(bs) \in SUBSET Secrets
      /\ Spent(bs) \cap nullifierUsed[p] = {}
  BY <1>1, <1>2 DEF Spent
<1>5. nullifierUsed' = [nullifierUsed EXCEPT ![p] = @ \cup Spent(bs)]
  BY DEF Accepted, Record, Spent
<1> QED BY <1>1, <1>3, <1>4, <1>5

\* They are added to the tally of their proposal, and nothing else changes.
LEMMA TallyEffect ==
  ASSUME VInv, NEW p \in DOMAIN proposals,
         NEW n, NEW bs, Accepted(p, n, bs)
  PROVE  /\ proposals' \in Seq(ProposalInfo)
         /\ Len(proposals') = Len(proposals)
         /\ DOMAIN proposals' = DOMAIN proposals
         /\ proposals'[p].yes = proposals[p].yes + Count(bs, TRUE)
         /\ proposals'[p].no = proposals[p].no + Count(bs, FALSE)
         /\ proposals'[p].state = proposals[p].state
         /\ proposals'[p].mode = proposals[p].mode
         /\ proposals'[p].root = proposals[p].root
         /\ proposals'[p].deadline = proposals[p].deadline
         /\ \A o \in DOMAIN proposals : o # p => proposals'[o] = proposals[o]
<1> DEFINE Y == Count(bs, TRUE)
           N == Count(bs, FALSE)
           a == proposals[p].yes + Y
           b == proposals[p].no + N
           q == WithTally(proposals[p], a, b)
<1>1. TypeOK /\ proposals[p] \in ProposalInfo
  BY ProposalFacts DEF VInv
<1>2. Y \in Nat /\ N \in Nat
  BY NullifierEffect
<1>3. proposals' = [proposals EXCEPT ![p].yes = @ + Y, ![p].no = @ + N]
  BY DEF Accepted, Record
<1> HIDE DEF Y, N
<1>4. a \in Nat /\ b \in Nat
  BY <1>1, <1>2 DEF ProposalInfo
<1>5. proposals' = [proposals EXCEPT ![p] = q]
  BY <1>1, <1>3 DEF ProposalInfo, TypeOK, WithTally
<1> HIDE DEF a, b
<1>6. /\ q \in ProposalInfo
      /\ q.yes = a /\ q.no = b
      /\ q.state = proposals[p].state /\ q.mode = proposals[p].mode
      /\ q.root = proposals[p].root /\ q.deadline = proposals[p].deadline
  BY <1>1, <1>4, SetTally
<1> HIDE DEF q
<1>7. /\ proposals' \in Seq(ProposalInfo)
      /\ Len(proposals') = Len(proposals)
      /\ DOMAIN proposals' = DOMAIN proposals
      /\ proposals'[p] = q
      /\ \A o \in DOMAIN proposals : o # p => proposals'[o] = proposals[o]
  BY <1>1, <1>5, <1>6, UpdateProposal
<1> QED BY <1>6, <1>7 DEF a, b, Y, N

\* The tally grows by the number of ballots.
LEMMA TallyGrows ==
  ASSUME VInv, NEW p \in DOMAIN proposals,
         NEW n, NEW bs, Accepted(p, n, bs)
  PROVE  proposals'[p].yes + proposals'[p].no
           = proposals[p].yes + proposals[p].no + n
<1> DEFINE Y == Count(bs, TRUE)
           N == Count(bs, FALSE)
<1>1. proposals[p].yes \in Nat /\ proposals[p].no \in Nat
  BY ProposalFacts DEF VInv, ProposalInfo
<1>2. n \in Nat /\ Y \in Nat /\ N \in Nat /\ Y + N = n
  BY NullifierEffect
<1>3. /\ proposals'[p].yes = proposals[p].yes + Y
      /\ proposals'[p].no = proposals[p].no + N
  BY TallyEffect, ZenonT(60)
<1> HIDE DEF Y, N
<1> QED BY <1>1, <1>2, <1>3

LEMMA RecordKeepsInvariant ==
  ASSUME VInv, NEW p \in DOMAIN proposals,
         NEW n, NEW bs, Accepted(p, n, bs),
         accumulator' \in [Pids -> Seq(Secrets)]
  PROVE  VInv'
<1> DEFINE S == Spent(bs)
           B == {bs[i].slot : i \in DOMAIN bs}
<1>1. /\ TypeOK /\ p \in Pids /\ proposals[p] \in ProposalInfo
      /\ DOMAIN proposals \subseteq Pids
      /\ n \in Nat /\ DOMAIN bs = 1 .. n
  BY ProposalFacts DEF VInv, Accepted
<1>2. /\ IsFiniteSet(S) /\ Cardinality(S) = n
      /\ S \in SUBSET Secrets /\ S \cap nullifierUsed[p] = {}
      /\ nullifierUsed' = [nullifierUsed EXCEPT ![p] = @ \cup S]
      /\ proposals' \in Seq(ProposalInfo)
      /\ Len(proposals') = Len(proposals)
      /\ DOMAIN proposals' = DOMAIN proposals
      /\ \A o \in DOMAIN proposals : o # p => proposals'[o] = proposals[o]
  <2>1. /\ IsFiniteSet(S) /\ Cardinality(S) = n
        /\ S \in SUBSET Secrets /\ S \cap nullifierUsed[p] = {}
        /\ nullifierUsed' = [nullifierUsed EXCEPT ![p] = @ \cup S]
    BY NullifierEffect
  <2>2. /\ proposals' \in Seq(ProposalInfo)
        /\ Len(proposals') = Len(proposals)
        /\ DOMAIN proposals' = DOMAIN proposals
        /\ \A o \in DOMAIN proposals : o # p => proposals'[o] = proposals[o]
    BY TallyEffect
  <2> QED BY <2>1, <2>2
<1>3. /\ ballots' = [ballots EXCEPT ![p] = @ \cup B]
      /\ UNCHANGED <<treeVars, paused, slotOwner>>
      /\ UNCHANGED <<memberLeafIndex, nextLeafIndex>>
  BY DEF Accepted, Record, treeVars
<1>4. /\ proposals'[p].state = proposals[p].state
      /\ proposals'[p].mode = proposals[p].mode
      /\ proposals'[p].root = proposals[p].root
  BY TallyEffect
<1>5. \A s \in B :
        /\ s \in Tree!Slots /\ s < nextLeafIndex
        /\ proposals[p].mode = "Fixed" =>
             /\ proposals[p].root[s] # Zero
             /\ Tree!RootEligible(proposals[p].root, 0)
  <2> SUFFICES ASSUME NEW i \in 1 .. n
               PROVE  /\ bs[i].slot \in Tree!Slots
                      /\ bs[i].slot < nextLeafIndex
                      /\ proposals[p].mode = "Fixed" =>
                           /\ proposals[p].root[bs[i].slot] # Zero
                           /\ Tree!RootEligible(proposals[p].root, 0)
    BY <1>1
  <2>1. bs[i] \in Ballots /\ AcceptableBallot(p, bs[i])
    BY DEF Accepted
  <2>2. bs[i].root[bs[i].slot] # Zero
    BY <2>1 DEF AcceptableBallot
  <2> QED BY <2>1, <2>2, AcceptedBallot
<1>6. proposals[p].state = "Active"
  BY DEF Accepted, VotingOpen, Active
<1> HIDE DEF S, B
<1>7. M!IInv'
  BY <1>3, TreeStep DEF VInv
<1>8. TypeOK'
  BY <1>1, <1>2, <1>3, <1>5 DEF TypeOK
<1>9. OwnersRecorded'
  BY <1>3 DEF VInv, OwnersRecorded
<1>10. ballots \in [Pids -> SUBSET Tree!Slots]
       /\ nullifierUsed \in [Pids -> SUBSET Secrets]
  BY <1>1 DEF TypeOK
<1>11. BallotsInTree'
  BY <1>1, <1>3, <1>5, <1>10 DEF VInv, BallotsInTree
<1>12. BallotsOfRoot'
  BY <1>1, <1>2, <1>3, <1>4, <1>5, <1>10 DEF VInv, BallotsOfRoot
<1>13. NoEarlyVotes'
  BY <1>1, <1>2, <1>3, <1>4, <1>6, <1>10 DEF VInv, NoEarlyVotes
<1>14. TallyMatchesNullifiers'
  <2> SUFFICES ASSUME NEW o \in DOMAIN proposals
               PROVE  proposals'[o].yes + proposals'[o].no
                        = Cardinality(nullifierUsed'[o])
    BY <1>2 DEF TallyMatchesNullifiers
  <2>1. CASE o # p
    BY <2>1, <1>1, <1>2, <1>10 DEF VInv, TallyMatchesNullifiers
  <2>2. CASE o = p
    <3>1. proposals[p].yes + proposals[p].no = Cardinality(nullifierUsed[p])
      BY DEF VInv, TallyMatchesNullifiers
    <3>2. IsFiniteSet(nullifierUsed[p])
      BY <1>1, <1>10, VotingAssumption, FS_Subset
    <3>3. Cardinality(nullifierUsed[p] \cap S) = 0
      BY <1>2, FS_EmptySet
    <3>4. Cardinality(nullifierUsed[p] \cup S)
            = Cardinality(nullifierUsed[p]) + n
      <4>1. Cardinality(nullifierUsed[p] \cup S)
              = Cardinality(nullifierUsed[p]) + Cardinality(S)
                  - Cardinality(nullifierUsed[p] \cap S)
        BY <1>2, <3>2, FS_Union
      <4>2. Cardinality(nullifierUsed[p]) \in Nat
        BY <3>2, FS_CardinalityType
      <4> QED BY <4>1, <4>2, <1>1, <1>2, <3>3
    <3>5. nullifierUsed'[p] = nullifierUsed[p] \cup S
      BY <1>1, <1>2, <1>10
    <3>6. proposals'[p].yes + proposals'[p].no
            = proposals[p].yes + proposals[p].no + n
      BY TallyGrows
    <3> QED BY <2>2, <3>1, <3>4, <3>5, <3>6
  <2> QED BY <2>1, <2>2
<1>15. FixedOneBallotPerMember'
  <2> SUFFICES ASSUME NEW o \in DOMAIN proposals, proposals'[o].mode = "Fixed",
                      NEW s \in ballots'[o], NEW u \in ballots'[o],
                      slotOwner'[s] = slotOwner'[u]
               PROVE  s = u
    BY <1>2 DEF FixedOneBallotPerMember
  <2>1. CASE o # p \/ B = {}
    BY <2>1, <1>1, <1>2, <1>3, <1>4, <1>10 DEF VInv, FixedOneBallotPerMember
  <2>2. CASE o = p /\ B # {}
    <3>1. proposals[p].mode = "Fixed" /\ Tree!RootEligible(proposals[p].root, 0)
      BY <2>2, <1>2, <1>4, <1>5
    <3>2. \A x \in ballots'[p] :
            x \in Tree!Slots /\ proposals[p].root[x] # Zero
      BY <3>1, <1>1, <1>3, <1>5, <1>10 DEF VInv, BallotsOfRoot
    <3> QED BY <2>2, <3>1, <3>2, <1>3, RootOwners
  <2> QED BY <2>1, <2>2
<1> QED
  BY <1>7, <1>8, <1>9, <1>11, <1>12, <1>13, <1>14, <1>15 DEF VInv

\* A vote is a batch of one.
LEMMA VoteIsAccepted ==
  ASSUME NEW p, NEW b \in Ballots, Vote(p, b)
  PROVE  Accepted(p, 1, <<b>>)
<1>1. <<b>> \in [1 .. 1 -> Ballots] /\ DOMAIN <<b>> = {1} /\ <<b>>[1] = b
  OBVIOUS
<1>2. DistinctNullifiers(<<b>>)
  BY <1>1 DEF DistinctNullifiers
<1>3. \A i \in DOMAIN <<b>> : AcceptableBallot(p, <<b>>[i])
  BY <1>1 DEF Vote
<1> QED BY <1>1, <1>2, <1>3 DEF Vote, Accepted

\* So every step of VoteStep records accepted ballots.
LEMMA VoteStepAccepts ==
  ASSUME TypeOK, M!IInv, NEW p \in DOMAIN proposals, VoteStep(p)
  PROVE  /\ \E n \in Nat \ {0} : \E bs : Accepted(p, n, bs)
         /\ accumulator' \in [Pids -> Seq(Secrets)]
<1>1. CASE \E b \in Ballots : Vote(p, b)
  <2>1. PICK b \in Ballots : Vote(p, b)
    BY <1>1
  <2>2. Accepted(p, 1, <<b>>)
    BY <2>1, VoteIsAccepted
  <2>3. b.root[b.slot] \in Commitments
    <3>1. /\ b.slot \in Tree!Slots /\ b.root \in DOMAIN rootIndex
          /\ b.root[b.slot] # Zero
      BY DEF Ballots
    <3> QED BY <3>1, TreeFacts DEF Tree!Trees, Tree!Leaves
  <2>4. Nullifier(b) \in Secrets
    BY <2>3, VotingAssumption DEF Nullifier
  <2>5. accumulator' = [accumulator EXCEPT ![p] = Append(@, Nullifier(b))]
    BY <2>1 DEF Vote, AccumulateNullifier
  <2>6. accumulator \in [Pids -> Seq(Secrets)]
    BY DEF TypeOK
  <2>7. accumulator' \in [Pids -> Seq(Secrets)]
    <3>1. Append(accumulator[p], Nullifier(b)) \in Seq(Secrets)
      BY <2>4, <2>6, ProposalFacts, AppendProperties
    <3> QED BY <2>5, <2>6, <3>1
  <2> QED BY <2>2, <2>7
<1>2. CASE \E n \in 1 .. MaxBatch : \E bs \in [1 .. n -> Ballots] :
             CastVotes(p, bs)
  <2>0. PICK n \in 1 .. MaxBatch :
          \E bs \in [1 .. n -> Ballots] : CastVotes(p, bs)
    BY <1>2
  <2>1. PICK bs \in [1 .. n -> Ballots] : CastVotes(p, bs)
    BY <2>0
  <2>2. Accepted(p, n, bs) /\ n \in Nat \ {0}
    BY <2>1, VotingAssumption DEF CastVotes, Accepted
  <2>3. accumulator' \in [Pids -> Seq(Secrets)]
    BY <2>1 DEF CastVotes, TypeOK
  <2> QED BY <2>2, <2>3
<1> QED BY <1>1, <1>2 DEF VoteStep

LEMMA VotingInvariantInductive ==
  ASSUME VInv, [Next]_vars
  PROVE  VInv'
<1>1. CASE MembershipStep
  BY <1>1, MembershipStepKeepsInvariant
<1>2. ASSUME NEW m \in Proposers, NEW mode \in Modes, NEW state \in CreatedIn,
             NEW deadline \in {"none", "ahead"},
             CreateProposal(m, mode, state, deadline)
      PROVE  VInv'
  BY <1>2, CreateKeepsInvariant
<1>3. ASSUME NEW p \in DOMAIN proposals, ProposalStep(p)
      PROVE  VInv'
  BY <1>3, ProposalStepKeepsInvariant
<1>4. ASSUME NEW p \in DOMAIN proposals, VoteStep(p)
      PROVE  VInv'
  BY <1>4, VoteStepAccepts, RecordKeepsInvariant DEF VInv
<1>5. ASSUME UNCHANGED <<treeVars, proposals, nullifierUsed, accumulator,
                         history>>,
             paused' \in BOOLEAN
      PROVE  VInv'
  <2>1. TypeOK'
    BY <1>5 DEF VInv, TypeOK, history
  <2> QED BY <1>5, <2>1, NoVotesKeepInvariant
<1>6. ASSUME NEW b \in BOOLEAN, SetPaused(b)
      PROVE  VInv'
  BY <1>5, <1>6 DEF SetPaused
<1>7. CASE UNCHANGED vars
  BY <1>5, <1>7 DEF vars, votingVars, VInv, TypeOK
<1> QED BY <1>1, <1>2, <1>3, <1>4, <1>6, <1>7 DEF Next

LEMMA InitVotingInvariant == Init => VInv
<1> SUFFICES ASSUME Init
             PROVE  VInv
  OBVIOUS
<1>1. M!IInv
  BY TreeStep DEF Init
<1>2. /\ proposals = <<>> /\ DOMAIN proposals = {} /\ Len(proposals) = 0
      /\ proposals \in Seq(ProposalInfo)
  BY DEF Init
<1>3. TypeOK
  <2>1. /\ nullifierUsed \in [Pids -> SUBSET Secrets]
        /\ paused \in BOOLEAN
        /\ slotOwner \in [Tree!Slots -> Members \cup {None}]
        /\ ballots \in [Pids -> SUBSET Tree!Slots]
    BY DEF Init
  <2>2. <<>> \in Seq(Secrets)
    BY EmptySeq
  <2>3. accumulator \in [Pids -> Seq(Secrets)]
    BY <2>2, Zenon DEF Init
  <2>4. Len(proposals) <= MaxProposals
    BY <1>2, VotingAssumption
  <2> QED BY <1>2, <2>1, <2>3, <2>4 DEF TypeOK
<1>4. \A m \in Members : memberLeafIndex[m] = None
  BY DEF Init, Tree!Init
<1>5. OwnersRecorded /\ BallotsInTree /\ NoEarlyVotes
  BY <1>4 DEF Init, OwnersRecorded, BallotsInTree, NoEarlyVotes
<1> QED
  BY <1>1, <1>2, <1>3, <1>5
     DEF VInv, BallotsOfRoot, TallyMatchesNullifiers, FixedOneBallotPerMember

-----------------------------------------------------------------------------
(* Theorems *)

\* The invariant: whatever transactions the contracts accept, owners are
\* recorded, ballots lie in the tree and belong to the proposal's root, and
\* nothing is counted before a proposal is Active.
THEOREM VotingInvariantHolds == Spec => []VInv
<1>1. VInv /\ [Next]_vars => VInv'
  BY VotingInvariantInductive
<1> QED BY InitVotingInvariant, <1>1, PTL DEF Spec

\* Storage of the voting contract has its types.
THEOREM VotingTypeCorrect == Spec => []TypeOK
<1>1. VInv => TypeOK
  BY DEF VInv
<1> QED BY <1>1, VotingInvariantHolds, PTL

\* A tally counts every spent nullifier once, through votes and batches.
THEOREM TallyIsNullifiers == Spec => []TallyMatchesNullifiers
<1>1. VInv => TallyMatchesNullifiers
  BY DEF VInv
<1> QED BY <1>1, VotingInvariantHolds, PTL

\* Whatever a member does, a Fixed proposal has one ballot of it at most.
THEOREM OneBallotPerMember == Spec => []FixedOneBallotPerMember
<1>1. VInv => FixedOneBallotPerMember
  BY DEF VInv
<1> QED BY <1>1, VotingInvariantHolds, PTL

-----------------------------------------------------------------------------
(* Snapshots of the Fixed proposals *)

\* What one step does to a proposal that exists: its mode stays, its root
\* changes in the registration phase only, nobody returns to that phase and an
\* Active proposal was Active or being registered for.
LEMMA ProposalsPersist ==
  ASSUME VInv, [Next]_vars, NEW p \in DOMAIN proposals
  PROVE  /\ p \in DOMAIN proposals'
         /\ proposals'[p].mode = proposals[p].mode
         /\ proposals[p].state # "Registration" =>
              /\ proposals'[p].root = proposals[p].root
              /\ proposals'[p].state # "Registration"
              /\ proposals'[p].state = "Active" => proposals[p].state = "Active"
<1> DEFINE Kept ==
      /\ p \in DOMAIN proposals'
      /\ proposals'[p].mode = proposals[p].mode
      /\ proposals[p].state # "Registration" =>
           /\ proposals'[p].root = proposals[p].root
           /\ proposals'[p].state # "Registration"
           /\ proposals'[p].state = "Active" => proposals[p].state = "Active"
<1>1. /\ TypeOK /\ proposals \in Seq(ProposalInfo)
      /\ DOMAIN proposals = 1 .. Len(proposals)
      /\ \A o \in DOMAIN proposals : proposals[o] \in ProposalInfo
  BY ProposalFacts DEF VInv, TypeOK
<1>2. ASSUME UNCHANGED proposals
      PROVE  Kept
  BY <1>2
<1>3. ASSUME NEW q, proposals' = Append(proposals, q)
      PROVE  Kept
  <2>1. proposals'[p] = proposals[p] /\ p \in DOMAIN proposals'
    BY <1>1, <1>3
  <2> QED BY <2>1
<1>4. ASSUME NEW o \in DOMAIN proposals, ProposalStep(o)
      PROVE  Kept
  <2>1. ASSUME NEW i \in 1 .. Len(roots), SetMerkleRoot(o, i)
        PROVE  Kept
    BY <1>1, <2>1 DEF SetMerkleRoot, ProposalInfo
  <2>2. ASSUME NEW from \in {"Registration", "Active", "Closed"},
               NEW to \in {"Active", "Closed", "Archived"},
               to = "Active" => from = "Registration",
               Transition(o, from, to)
        PROVE  Kept
    BY <1>1, <2>2 DEF Transition, ProposalInfo
  <2>3. ASSUME DeadlinePasses(o)
        PROVE  Kept
    BY <1>1, <2>3 DEF DeadlinePasses, ProposalInfo
  <2> HIDE DEF Kept
  <2> QED
    BY <1>4, <2>1, <2>2, <2>3
       DEF ProposalStep, ActivateProposal, CloseProposal, ArchiveProposal
<1>5. ASSUME NEW o \in DOMAIN proposals, VoteStep(o)
      PROVE  Kept
  <2>1. PICK n, bs : Accepted(o, n, bs)
    BY <1>5, VoteStepAccepts DEF VInv
  <2>2. /\ DOMAIN proposals' = DOMAIN proposals
        /\ proposals'[o].state = proposals[o].state
        /\ proposals'[o].mode = proposals[o].mode
        /\ proposals'[o].root = proposals[o].root
        /\ \A x \in DOMAIN proposals : x # o => proposals'[x] = proposals[x]
    BY <2>1, TallyEffect
  <2> QED BY <2>2
<1> HIDE DEF Kept
<1>6. ASSUME NEW m \in Proposers, NEW mode \in Modes, NEW state \in CreatedIn,
             NEW deadline \in {"none", "ahead"},
             CreateProposal(m, mode, state, deadline)
      PROVE  Kept
  BY <1>3, <1>6 DEF CreateProposal
<1>7. ASSUME \/ MembershipStep
             \/ \E b \in BOOLEAN : SetPaused(b)
             \/ UNCHANGED vars
      PROVE  Kept
  BY <1>2, <1>7 DEF MembershipStep, SetPaused, vars, votingVars
<1>8. Kept
  BY <1>4, <1>5, <1>6, <1>7 DEF Next
<1> QED BY <1>8 DEF Kept

\* A step keeps the history that the tree keeps, whoever makes it.
LEMMA TreeOrNot ==
  ASSUME [Next]_vars
  PROVE  Tree!TreeNext \/ UNCHANGED treeVars
BY DEF Next, vars, MembershipStep, CreateProposal, ProposalStep, SetMerkleRoot,
       ActivateProposal, CloseProposal, ArchiveProposal, Transition,
       DeadlinePasses, VoteStep, Vote, CastVotes, Record, SetPaused

\* Nothing but a removal narrows an open Fixed election: neither new members
\* nor any step of the round takes its snapshot from the voters.
THEOREM SnapshotNarrowsByRemoval == Spec => OnlyRemovalNarrowsFixed
<1> DEFINE A == \A p \in DOMAIN proposals :
                  /\ Active(p) /\ proposals[p].mode = "Fixed" /\ Active(p)'
                  /\ AssertRootEligible(p, proposals[p].root)
                  /\ minValidRootIdx' = minValidRootIdx
                  => Tree!RootEligible(proposals[p].root, 0)'
<1>1. VInv /\ [Next]_vars => A
  <2> SUFFICES ASSUME VInv, [Next]_vars, NEW p \in DOMAIN proposals,
                      Active(p), proposals[p].mode = "Fixed",
                      AssertRootEligible(p, proposals[p].root),
                      minValidRootIdx' = minValidRootIdx
               PROVE  Tree!RootEligible(proposals[p].root, 0)'
    OBVIOUS
  <2>1. Tree!RootEligible(proposals[p].root, 0)
    BY DEF AssertRootEligible
  <2>2. proposals'[p].root = proposals[p].root
    BY ProposalsPersist DEF Active
  <2>3. proposals[p].root \in PinnedRoots
    BY DEF PinnedRoots
  <2>4. /\ proposals[p].root \in DOMAIN rootIndex'
        /\ rootIndex'[proposals[p].root] >= rootIndex[proposals[p].root]
    BY <2>1, <2>3, TreeOrNot, PinnedStep DEF VInv, Tree!RootEligible
  <2>5. /\ rootIndex[proposals[p].root] \in Nat
        /\ rootIndex'[proposals[p].root] \in Nat
        /\ minValidRootIdx \in Nat
    <3>1. M!IInv /\ M!IInv'
      BY VotingInvariantInductive DEF VInv
    <3>2. rootIndex' \in [DOMAIN rootIndex' -> Nat]
      BY <3>1 DEF M!IInv, M!TypeOK
    <3> QED BY <2>1, <2>4, <3>1, <3>2, TreeFacts DEF Tree!RootEligible
  <2> QED BY <2>1, <2>2, <2>4, <2>5 DEF Tree!RootEligible
<1>2. VInv /\ [Next]_vars => [A]_vars
  BY <1>1
<1> QED BY <1>2, VotingInvariantHolds, PTL DEF Spec, OnlyRemovalNarrowsFixed

\* No proposal waits for its activation.
NoneRegistering ==
  \A p \in DOMAIN proposals : proposals[p].state # "Registration"

\* create_proposal opens a proposal with an indexed root, and root_pin keeps
\* it: where every proposal is created Active, the snapshot of an Active Fixed
\* proposal is always in the history.
THEOREM SnapshotStaysIndexed ==
  ASSUME "Registration" \notin CreatedIn
  PROVE  Spec => []ActiveSnapshotIndexed
<1> DEFINE Inv == ActiveSnapshotIndexed /\ NoneRegistering
<1>1. Init => Inv
  BY DEF Init, ActiveSnapshotIndexed, NoneRegistering
<1>2. VInv /\ Inv /\ [Next]_vars => Inv'
  <2> SUFFICES ASSUME VInv, Inv, [Next]_vars, NEW p \in DOMAIN proposals'
               PROVE  /\ proposals'[p].state # "Registration"
                      /\ proposals'[p].state = "Active"
                           /\ proposals'[p].mode = "Fixed"
                         => proposals'[p].root \in DOMAIN rootIndex'
    BY DEF ActiveSnapshotIndexed, NoneRegistering, Active
  <2>1. CASE p \in DOMAIN proposals
    <3>1. /\ proposals'[p].mode = proposals[p].mode
          /\ proposals'[p].root = proposals[p].root
          /\ proposals'[p].state # "Registration"
          /\ proposals'[p].state = "Active" => proposals[p].state = "Active"
      BY <2>1, ProposalsPersist DEF NoneRegistering
    <3>2. ASSUME proposals[p].state = "Active", proposals[p].mode = "Fixed"
          PROVE  proposals[p].root \in DOMAIN rootIndex'
      <4>1. Active(p)
        BY <2>1, <3>2, ProposalFacts DEF Active, VInv
      <4>2. proposals[p].root \in PinnedRoots
        BY <2>1, <3>2, <4>1 DEF PinnedRoots
      <4>3. proposals[p].root \in DOMAIN rootIndex
        BY <2>1, <3>2, <4>1 DEF ActiveSnapshotIndexed
      <4> QED BY <4>2, <4>3, TreeOrNot, PinnedStep DEF VInv
    <3> QED BY <3>1, <3>2
  <2>2. CASE p \notin DOMAIN proposals
    <3>1. DOMAIN proposals' # DOMAIN proposals
      BY <2>2
    <3>2. PICK m \in Proposers, mode \in Modes, state \in CreatedIn,
               deadline \in {"none", "ahead"} :
                 CreateProposal(m, mode, state, deadline)
      <4>1. ASSUME NEW o \in DOMAIN proposals, ProposalStep(o) \/ VoteStep(o)
            PROVE  DOMAIN proposals' = DOMAIN proposals
        BY <4>1 DEF ProposalStep, SetMerkleRoot, ActivateProposal,
                    CloseProposal, ArchiveProposal, Transition, DeadlinePasses,
                    VoteStep, Vote, CastVotes, Record
      <4> QED
        BY <3>1, <4>1 DEF Next, vars, votingVars, MembershipStep, SetPaused
    <3>3. /\ Len(proposals) \in Nat /\ DOMAIN proposals = 1 .. Len(proposals)
          /\ proposals \in Seq(ProposalInfo)
      BY ProposalFacts DEF VInv, TypeOK
    <3>4. /\ proposals'[p].state = state
          /\ proposals'[p].root = Tree!CurrentRoot
      BY <2>2, <3>2, <3>3 DEF CreateProposal
    <3>5. Tree!CurrentRoot \in DOMAIN rootIndex /\ rootIndex' = rootIndex
      BY <3>2 DEF CreateProposal, treeVars
    <3> QED BY <3>4, <3>5
  <2> QED BY <2>1, <2>2
<1>3. Inv => ActiveSnapshotIndexed
  OBVIOUS
<1> QED BY <1>1, <1>2, <1>3, VotingInvariantHolds, PTL DEF Spec

-----------------------------------------------------------------------------
(* The round implements Election *)

\* The variables of Election in a state of the voting contract.
phases == [p \in Pids |-> Phase(p)]
electorates == [p \in Pids |-> IF Exists(p) THEN Electorate(p) ELSE {}]
yesVotes == [p \in Pids |-> IF Exists(p) THEN proposals[p].yes ELSE 0]
noVotes == [p \in Pids |-> IF Exists(p) THEN proposals[p].no ELSE 0]
liveLeaves == {leafValue[s] : s \in Tree!Slots} \ {Zero}

\* An electorate is a set of commitments.
LEMMA ElectorateType ==
  ASSUME NEW p, proposals[p].root \in Tree!Trees
  PROVE  Electorate(p) \in SUBSET Commitments
BY DEF Electorate, Tree!Trees, Tree!Leaves

\* A phase is what the state and the deadline say.
LEMMA PhaseIs ==
  ASSUME TypeOK, NEW p \in Pids
  PROVE  /\ p \notin DOMAIN proposals => Phase(p) = "absent"
         /\ p \in DOMAIN proposals =>
              /\ proposals[p].state = "Registration" => Phase(p) = "registration"
              /\ proposals[p].state = "Active" =>
                   Phase(p) = IF proposals[p].deadline = "past"
                                THEN "ended" ELSE "open"
              /\ proposals[p].state = "Closed" => Phase(p) = "closed"
              /\ proposals[p].state = "Archived" => Phase(p) = "archived"
<1>1. DOMAIN proposals = 1 .. Len(proposals)
  BY ProposalFacts
<1> QED BY <1>1 DEF Phase, Exists, VotingOpen, Active

\* A step that changes one proposal in place changes nothing of Election but
\* the phase, the electorate and the tally of that proposal.
LEMMA OneProposalChanges ==
  ASSUME TypeOK, TypeOK', NEW p \in DOMAIN proposals,
         DOMAIN proposals' = DOMAIN proposals,
         \A o \in DOMAIN proposals : o # p => proposals'[o] = proposals[o]
  PROVE  /\ phases' = [phases EXCEPT ![p] = Phase(p)']
         /\ electorates' = [electorates EXCEPT ![p] = Electorate(p)']
         /\ yesVotes' = [yesVotes EXCEPT ![p] = proposals'[p].yes]
         /\ noVotes' = [noVotes EXCEPT ![p] = proposals'[p].no]
<1>1. /\ DOMAIN proposals = 1 .. Len(proposals)
      /\ DOMAIN proposals' = 1 .. Len(proposals')
      /\ p \in Pids
  BY ProposalFacts, LenProperties DEF TypeOK
<1>2. \A o \in Pids : Exists(o)' <=> Exists(o)
  BY <1>1 DEF Exists
<1>3. \A o \in Pids : Exists(o) <=> o \in DOMAIN proposals
  BY <1>1 DEF Exists
<1>4. ASSUME NEW o \in Pids, o # p
      PROVE  /\ Phase(o)' = Phase(o)
             /\ Exists(o) => Electorate(o)' = Electorate(o)
             /\ Exists(o) => proposals'[o] = proposals[o]
  <2>1. Exists(o) => proposals'[o] = proposals[o]
    BY <1>3, <1>4
  <2>2. Phase(o)' = Phase(o)
    BY <1>2, <2>1 DEF Phase, VotingOpen, Active
  <2> QED BY <2>1, <2>2 DEF Electorate
<1>5. Exists(p) /\ Exists(p)'
  BY <1>1, <1>2, <1>3
<1>6. phases' = [phases EXCEPT ![p] = Phase(p)']
  BY <1>1, <1>4 DEF phases
<1>7. electorates' = [electorates EXCEPT ![p] = Electorate(p)']
  BY <1>1, <1>2, <1>4, <1>5 DEF electorates
<1>8. /\ yesVotes' = [yesVotes EXCEPT ![p] = proposals'[p].yes]
      /\ noVotes' = [noVotes EXCEPT ![p] = proposals'[p].no]
  BY <1>1, <1>2, <1>4, <1>5 DEF yesVotes, noVotes
<1> QED BY <1>6, <1>7, <1>8

\* The actions of Election, in terms of those variables.
LEMMA ElectionSteps ==
  /\ E!Init <=> /\ phases = [p \in Pids |-> "absent"]
                /\ electorates = [p \in Pids |-> {}]
                /\ nullifierUsed = [p \in Pids |-> {}]
                /\ yesVotes = [p \in Pids |-> 0]
                /\ noVotes = [p \in Pids |-> 0]
  /\ \A p, C : E!Create(p, C) <=>
       /\ \E to \in {"registration", "open"} :
            /\ phases[p] \in {"absent"}
            /\ phases' = [phases EXCEPT ![p] = to]
       /\ electorates' = [electorates EXCEPT ![p] = C]
       /\ UNCHANGED <<nullifierUsed, yesVotes, noVotes>>
  /\ \A p, C : E!ChangeElectorate(p, C) <=>
       /\ phases[p] = "registration"
       /\ electorates' = [electorates EXCEPT ![p] = C]
       /\ UNCHANGED <<phases, nullifierUsed, yesVotes, noVotes>>
  /\ \A p, from, to : E!Move(p, from, to) <=>
       /\ phases[p] \in from
       /\ phases' = [phases EXCEPT ![p] = to]
  /\ UNCHANGED <<phases, electorates, nullifierUsed, yesVotes, noVotes>>
       => UNCHANGED E!electionVars
<1> USE DEF phases, electorates, yesVotes, noVotes, liveLeaves
<1>1. E!Init <=> /\ phases = [p \in Pids |-> "absent"]
                 /\ electorates = [p \in Pids |-> {}]
                 /\ nullifierUsed = [p \in Pids |-> {}]
                 /\ yesVotes = [p \in Pids |-> 0]
                 /\ noVotes = [p \in Pids |-> 0]
  BY Zenon DEF E!Init
<1>2. ASSUME NEW p, NEW C
      PROVE  E!Create(p, C) <=>
               /\ \E to \in {"registration", "open"} :
                    /\ phases[p] \in {"absent"}
                    /\ phases' = [phases EXCEPT ![p] = to]
               /\ electorates' = [electorates EXCEPT ![p] = C]
               /\ UNCHANGED <<nullifierUsed, yesVotes, noVotes>>
  BY Zenon DEF E!Create, E!Move
<1>3. ASSUME NEW p, NEW C
      PROVE  E!ChangeElectorate(p, C) <=>
               /\ phases[p] = "registration"
               /\ electorates' = [electorates EXCEPT ![p] = C]
               /\ UNCHANGED <<phases, nullifierUsed, yesVotes, noVotes>>
  BY Zenon DEF E!ChangeElectorate
<1>4. ASSUME NEW p, NEW from, NEW to
      PROVE  E!Move(p, from, to) <=>
               /\ phases[p] \in from
               /\ phases' = [phases EXCEPT ![p] = to]
  BY Zenon DEF E!Move
<1>5. UNCHANGED <<phases, electorates, nullifierUsed, yesVotes, noVotes>>
        => UNCHANGED E!electionVars
  BY Zenon DEF E!electionVars
<1> HIDE DEF phases, electorates, yesVotes, noVotes, liveLeaves
<1> QED BY <1>1, <1>2, <1>3, <1>4, <1>5, Zenon

\* Election counts the ballots as the contract does.
LEMMA SameCardinality == \A S : E!Cardinality(S) = Cardinality(S)
BY Zenon DEF E!Cardinality, Cardinality, E!IsFiniteSet, IsFiniteSet

LEMMA ElectionCast ==
  ASSUME NEW p, NEW S \in (SUBSET Secrets) \ {{}},
         NEW y \in 0 .. Cardinality(Secrets),
         phases[p] = "open",
         S \cap nullifierUsed[p] = {},
         \A x \in S : \E c \in electorates[p] \cap liveLeaves : SecretOf[c] = x,
         y <= Cardinality(S),
         nullifierUsed' = [nullifierUsed EXCEPT ![p] = @ \cup S],
         yesVotes' = [yesVotes EXCEPT ![p] = @ + y],
         noVotes' = [noVotes EXCEPT ![p] = @ + Cardinality(S) - y],
         UNCHANGED <<phases, electorates>>
  PROVE  E!Cast(p)
<1>1. /\ y \in 0 .. E!Cardinality(Secrets)
      /\ y <= E!Cardinality(S)
      /\ noVotes' = [noVotes EXCEPT ![p] = @ + E!Cardinality(S) - y]
  <2>1. /\ E!Cardinality(S) = Cardinality(S)
        /\ E!Cardinality(Secrets) = Cardinality(Secrets)
    BY SameCardinality, Zenon
  <2> QED BY <2>1, Zenon
<1>2. S \in (SUBSET Secrets) \ {{}}
  OBVIOUS
<1> QED
  BY <1>1, <1>2, Zenon
     DEF phases, electorates, yesVotes, noVotes, liveLeaves, E!Cast

\* Election starts where the contract starts.
LEMMA ElectionInit == Init => E!Init
<1> SUFFICES ASSUME Init
             PROVE  E!Init
  OBVIOUS
<1>1. \A p \in Pids : ~Exists(p) /\ Phase(p) = "absent"
  <2>1. TypeOK /\ DOMAIN proposals = {} /\ Len(proposals) = 0
    BY InitVotingInvariant DEF VInv, Init
  <2> QED BY <2>1, PhaseIs DEF Exists
<1>2. /\ phases = [p \in Pids |-> "absent"]
      /\ electorates = [p \in Pids |-> {}]
      /\ yesVotes = [p \in Pids |-> 0]
      /\ noVotes = [p \in Pids |-> 0]
  BY <1>1 DEF phases, electorates, yesVotes, noVotes
<1> QED BY <1>2, ElectionSteps DEF Init

\* Steps that leave the proposals and the nullifiers alone are stutters.
LEMMA ElectionStutters ==
  ASSUME UNCHANGED <<proposals, nullifierUsed>>
  PROVE  UNCHANGED E!electionVars
<1>1. UNCHANGED <<phases, electorates, yesVotes, noVotes>>
  BY DEF phases, electorates, yesVotes, noVotes, Phase, Exists, VotingOpen,
         Active, Electorate
<1> QED BY <1>1, ElectionSteps

\* create_proposal is Create.
LEMMA CreateRefines ==
  ASSUME VInv, VInv', NEW m \in Proposers, NEW mode \in Modes,
         NEW state \in CreatedIn, NEW deadline \in {"none", "ahead"},
         CreateProposal(m, mode, state, deadline)
  PROVE  E!Next
<1>0. PICK p : p = Len(proposals) + 1
  OBVIOUS
<1> DEFINE q == [state |-> state, mode |-> mode, deadline |-> deadline,
                 root |-> Tree!CurrentRoot, snapshot |-> Tree!CurrentRoot,
                 earliest |-> rootIndex[Tree!CurrentRoot], yes |-> 0, no |-> 0]
<1>1. /\ TypeOK /\ TypeOK' /\ Len(proposals) \in Nat
      /\ proposals \in Seq(ProposalInfo)
      /\ DOMAIN proposals = 1 .. Len(proposals)
      /\ p \in Pids /\ p \notin DOMAIN proposals
  BY <1>0, ProposalFacts, VotingAssumption
     DEF VInv, TypeOK, CreateProposal, Pids
<1>2. /\ proposals' = Append(proposals, q)
      /\ UNCHANGED nullifierUsed
  BY DEF CreateProposal
<1>3. /\ q.state = state /\ q.deadline = deadline /\ q.yes = 0 /\ q.no = 0
  OBVIOUS
<1> HIDE DEF q
<1>4. /\ Len(proposals') = p
      /\ DOMAIN proposals' = 1 .. p
      /\ proposals'[p] = q
      /\ \A o \in DOMAIN proposals : proposals'[o] = proposals[o]
  <2>1. q \in ProposalInfo
    <3>1. proposals'[p] \in ProposalInfo /\ proposals'[p] = q
      BY <1>0, <1>1, <1>2 DEF TypeOK
    <3> QED BY <3>1
  <2> QED BY <1>0, <1>1, <1>2, <2>1, AppendProperties, LenProperties
<1>5. ASSUME NEW o \in Pids, o # p
      PROVE  /\ Exists(o)' <=> Exists(o)
             /\ Exists(o) => proposals'[o] = proposals[o]
             /\ Phase(o)' = Phase(o)
             /\ Exists(o) => Electorate(o)' = Electorate(o)
  <2>1. Exists(o)' <=> Exists(o)
    BY <1>0, <1>1, <1>4, <1>5 DEF Exists, Pids
  <2>2. Exists(o) => proposals'[o] = proposals[o]
    BY <1>1, <1>4 DEF Exists
  <2>3. Phase(o)' = Phase(o)
    BY <2>1, <2>2 DEF Phase, VotingOpen, Active
  <2> QED BY <2>1, <2>2, <2>3 DEF Electorate
<1>6. ~Exists(p) /\ Exists(p)'
  BY <1>0, <1>1, <1>4 DEF Exists
<1>7. phases[p] = "absent"
  BY <1>1, PhaseIs DEF phases
<1>8. PICK to \in {"registration", "open"} : Phase(p)' = to
  BY <1>3, <1>4, <1>6, VotingAssumption DEF Phase, VotingOpen, Active
<1>9. phases' = [phases EXCEPT ![p] = to]
  BY <1>1, <1>5, <1>8 DEF phases
<1>10. electorates' = [electorates EXCEPT ![p] = Electorate(p)']
  BY <1>1, <1>5, <1>6 DEF electorates
<1>11. yesVotes' = yesVotes /\ noVotes' = noVotes
  BY <1>1, <1>3, <1>4, <1>5, <1>6 DEF yesVotes, noVotes
<1>12. (Electorate(p) \in SUBSET Commitments)'
  <2>1. proposals'[p].root \in Tree!Trees
    <3>1. p \in 1 .. Len(proposals') /\ proposals' \in Seq(ProposalInfo)
      BY <1>0, <1>1, <1>4 DEF TypeOK
    <3>2. proposals'[p] \in ProposalInfo
      BY <3>1, ElementOfSeq
    <3> QED BY <3>2 DEF ProposalInfo
  <2> QED BY <2>1 DEF Electorate, Tree!Trees, Tree!Leaves
<1>13. E!Create(p, Electorate(p)')
  BY <1>2, <1>7, <1>9, <1>10, <1>11, ElectionSteps
<1> QED BY <1>1, <1>12, <1>13 DEF E!Next

\* The steps of one proposal without votes: a new root is ChangeElectorate, the
\* state machine and the passing of the end time are Advance.
LEMMA ProposalStepRefines ==
  ASSUME VInv, VInv', NEW p \in DOMAIN proposals, ProposalStep(p)
  PROVE  E!Next \/ UNCHANGED E!electionVars
<1>1. /\ TypeOK /\ TypeOK' /\ p \in Pids /\ Exists(p)
      /\ proposals \in Seq(ProposalInfo)
      /\ proposals[p] \in ProposalInfo
      /\ DOMAIN proposals = 1 .. Len(proposals)
  BY ProposalFacts DEF VInv, TypeOK
<1>2. /\ DOMAIN proposals' = DOMAIN proposals
      /\ \A o \in DOMAIN proposals : o # p => proposals'[o] = proposals[o]
      /\ UNCHANGED nullifierUsed
  BY <1>1 DEF ProposalStep, SetMerkleRoot, ActivateProposal, CloseProposal,
              ArchiveProposal, Transition, DeadlinePasses
<1>3. /\ phases' = [phases EXCEPT ![p] = Phase(p)']
      /\ electorates' = [electorates EXCEPT ![p] = Electorate(p)']
      /\ yesVotes' = [yesVotes EXCEPT ![p] = proposals'[p].yes]
      /\ noVotes' = [noVotes EXCEPT ![p] = proposals'[p].no]
  BY <1>1, <1>2, OneProposalChanges
<1>4. /\ phases[p] = Phase(p)
      /\ electorates[p] = Electorate(p)
      /\ yesVotes[p] = proposals[p].yes
      /\ noVotes[p] = proposals[p].no
  BY <1>1 DEF phases, electorates, yesVotes, noVotes
<1>5. /\ proposals'[p].yes = proposals[p].yes => yesVotes' = yesVotes
      /\ proposals'[p].no = proposals[p].no => noVotes' = noVotes
      /\ Phase(p)' = Phase(p) => phases' = phases
      /\ Electorate(p)' = Electorate(p) => electorates' = electorates
  <2>1. [phases EXCEPT ![p] = phases[p]] = phases
    BY DEF phases
  <2>2. [electorates EXCEPT ![p] = electorates[p]] = electorates
    BY DEF electorates
  <2>3. [yesVotes EXCEPT ![p] = yesVotes[p]] = yesVotes
    BY DEF yesVotes
  <2>4. [noVotes EXCEPT ![p] = noVotes[p]] = noVotes
    BY DEF noVotes
  <2> QED BY <1>3, <1>4, <2>1, <2>2, <2>3, <2>4, Zenon
<1>6. ASSUME NEW i \in 1 .. Len(roots), SetMerkleRoot(p, i)
      PROVE  E!Next
  <2>1. /\ proposals[p].state = "Registration"
        /\ proposals'[p] = [proposals[p] EXCEPT !.root = roots[i]]
    BY <1>1, <1>6 DEF SetMerkleRoot
  <2>2. /\ proposals'[p].state = "Registration"
        /\ proposals'[p].yes = proposals[p].yes
        /\ proposals'[p].no = proposals[p].no
    BY <1>1, <2>1 DEF ProposalInfo
  <2>3. Phase(p) = "registration" /\ Phase(p)' = "registration"
    <3>1. Exists(p)'
      BY <1>1, <1>2 DEF Exists, TypeOK
    <3> QED BY <1>1, <2>1, <2>2, <3>1 DEF Phase, VotingOpen, Active
  <2>4. (Electorate(p) \in SUBSET Commitments)'
    <3>1. p \in 1 .. Len(proposals') /\ proposals' \in Seq(ProposalInfo)
      BY <1>1, <1>2 DEF TypeOK
    <3>2. proposals'[p].root \in Tree!Trees
      <4>1. proposals'[p] \in ProposalInfo
        BY <3>1, ElementOfSeq
      <4> QED BY <4>1 DEF ProposalInfo
    <3> QED BY <3>2 DEF Electorate, Tree!Trees, Tree!Leaves
  <2>5. E!ChangeElectorate(p, Electorate(p)')
    BY <1>2, <1>3, <1>4, <1>5, <2>2, <2>3, ElectionSteps
  <2> QED BY <1>1, <2>4, <2>5 DEF E!Next
<1>7. ASSUME NEW from \in {"Registration", "Active", "Closed"}, NEW to,
             \/ from = "Registration" /\ to = "Active"
             \/ from = "Active" /\ to = "Closed"
             \/ from = "Closed" /\ to = "Archived",
             Transition(p, from, to)
      PROVE  E!Next
  <2>1. /\ proposals[p].state = from
        /\ proposals'[p] = [proposals[p] EXCEPT !.state = to]
    BY <1>1, <1>7 DEF Transition
  <2>2. /\ proposals'[p].state = to
        /\ proposals'[p].mode = proposals[p].mode
        /\ proposals'[p].root = proposals[p].root
        /\ proposals'[p].deadline = proposals[p].deadline
        /\ proposals'[p].yes = proposals[p].yes
        /\ proposals'[p].no = proposals[p].no
    BY <1>1, <2>1 DEF ProposalInfo
  <2>3. Electorate(p)' = Electorate(p)
    BY <2>2 DEF Electorate
  <2>4. \/ Phase(p) = "registration" /\ Phase(p)' \in {"open", "ended"}
        \/ Phase(p) \in {"open", "ended"} /\ Phase(p)' = "closed"
        \/ Phase(p) = "closed" /\ Phase(p)' = "archived"
    <3>1. Exists(p)'
      BY <1>1, <1>2 DEF Exists, TypeOK
    <3> QED BY <1>1, <1>7, <2>1, <2>2, <3>1 DEF Phase, VotingOpen, Active
  <2>5. UNCHANGED <<electorates, nullifierUsed, yesVotes, noVotes>>
    BY <1>2, <1>5, <2>2, <2>3
  <2>6. E!Advance(p)
    <3>1. \/ E!Move(p, {"registration"}, "open")
          \/ E!Move(p, {"registration"}, "ended")
          \/ E!Move(p, {"open", "ended"}, "closed")
          \/ E!Move(p, {"closed"}, "archived")
      <4>1. CASE Phase(p) = "registration" /\ Phase(p)' = "open"
        BY <1>3, <1>4, <4>1, ElectionSteps
      <4>2. CASE Phase(p) = "registration" /\ Phase(p)' = "ended"
        BY <1>3, <1>4, <4>2, ElectionSteps
      <4>3. CASE Phase(p) \in {"open", "ended"} /\ Phase(p)' = "closed"
        <5>1. /\ phases[p] \in {"open", "ended"}
              /\ phases' = [phases EXCEPT ![p] = "closed"]
          BY <1>3, <1>4, <4>3
        <5>2. E!Move(p, {"open", "ended"}, "closed")
          BY <5>1, ElectionSteps, Zenon
        <5> QED BY <5>2
      <4>4. CASE Phase(p) = "closed" /\ Phase(p)' = "archived"
        BY <1>3, <1>4, <4>4, ElectionSteps
      <4> QED BY <2>4, <4>1, <4>2, <4>3, <4>4
    <3> QED
      BY <2>5, <3>1 DEF E!Advance, electorates, yesVotes, noVotes
  <2> QED BY <1>1, <2>6 DEF E!Next
<1>8. ASSUME DeadlinePasses(p)
      PROVE  E!Next \/ UNCHANGED E!electionVars
  <2>1. /\ proposals[p].deadline = "ahead"
        /\ proposals'[p] = [proposals[p] EXCEPT !.deadline = "past"]
    BY <1>1, <1>8 DEF DeadlinePasses
  <2>2. /\ proposals'[p].state = proposals[p].state
        /\ proposals'[p].mode = proposals[p].mode
        /\ proposals'[p].root = proposals[p].root
        /\ proposals'[p].deadline = "past"
        /\ proposals'[p].yes = proposals[p].yes
        /\ proposals'[p].no = proposals[p].no
    BY <1>1, <2>1 DEF ProposalInfo
  <2>3. Electorate(p)' = Electorate(p)
    BY <2>2 DEF Electorate
  <2>4. (Phase(p) = "open" /\ Phase(p)' = "ended") \/ Phase(p)' = Phase(p)
    <3>1. Exists(p)'
      BY <1>1, <1>2 DEF Exists, TypeOK
    <3> QED BY <1>1, <2>1, <2>2, <3>1 DEF Phase, VotingOpen, Active
  <2>5. UNCHANGED <<electorates, nullifierUsed, yesVotes, noVotes>>
    BY <1>2, <1>5, <2>2, <2>3
  <2>6. CASE Phase(p) = "open" /\ Phase(p)' = "ended"
    <3>1. E!Move(p, {"open"}, "ended")
      BY <1>3, <1>4, <2>6, ElectionSteps
    <3>2. E!Advance(p)
      BY <2>5, <3>1 DEF E!Advance, electorates, yesVotes, noVotes
    <3> QED BY <1>1, <3>2 DEF E!Next
  <2>7. CASE Phase(p)' = Phase(p)
    BY <1>5, <2>5, <2>7, ElectionSteps
  <2> QED BY <2>4, <2>6, <2>7
<1>9. CASE ActivateProposal(p) \/ CloseProposal(p) \/ ArchiveProposal(p)
  BY <1>7, <1>9 DEF ActivateProposal, CloseProposal, ArchiveProposal
<1> QED BY <1>6, <1>8, <1>9 DEF ProposalStep

\* vote and cast_votes are Cast: an accepted ballot is of a commitment that is
\* a live leaf now and belongs to the electorate of the proposal.
LEMMA VoteStepRefines ==
  ASSUME VInv, VInv', NEW p \in DOMAIN proposals,
         NEW n \in Nat \ {0}, NEW bs, Accepted(p, n, bs)
  PROVE  E!Next
<1> DEFINE S == Spent(bs)
           Y == Count(bs, TRUE)
           N == Count(bs, FALSE)
<1>1. /\ TypeOK /\ TypeOK' /\ p \in Pids /\ Exists(p)
      /\ proposals[p] \in ProposalInfo
      /\ DOMAIN proposals = 1 .. Len(proposals)
  BY ProposalFacts DEF VInv
<1>2. /\ IsFiniteSet(S) /\ Cardinality(S) = n
      /\ Y \in Nat /\ N \in Nat /\ Y + N = n
      /\ S \in SUBSET Secrets /\ S \cap nullifierUsed[p] = {}
      /\ nullifierUsed' = [nullifierUsed EXCEPT ![p] = @ \cup S]
  BY NullifierEffect
<1>3. /\ DOMAIN proposals' = DOMAIN proposals
      /\ \A o \in DOMAIN proposals : o # p => proposals'[o] = proposals[o]
  BY TallyEffect
<1>4. /\ proposals'[p].yes = proposals[p].yes + Y
      /\ proposals'[p].no = proposals[p].no + N
      /\ proposals'[p].state = proposals[p].state
      /\ proposals'[p].mode = proposals[p].mode
      /\ proposals'[p].root = proposals[p].root
      /\ proposals'[p].deadline = proposals[p].deadline
  BY TallyEffect, ZenonT(60)
<1>5. VotingOpen(p)
  BY DEF Accepted
<1>6. ASSUME NEW i \in DOMAIN bs
      PROVE  \E c \in Electorate(p) \cap liveLeaves :
               SecretOf[c] = Nullifier(bs[i])
  <2> DEFINE c == bs[i].root[bs[i].slot]
  <2>1. bs[i] \in Ballots /\ AcceptableBallot(p, bs[i])
    BY <1>6 DEF Accepted
  <2>2. /\ bs[i].slot \in Tree!Slots
        /\ c \in Commitments
        /\ c = leafValue[bs[i].slot]
        /\ proposals[p].mode = "Fixed" => bs[i].root = proposals[p].root
    BY <2>1, AcceptedBallot
  <2>3. c # Zero
    BY <2>2, MembershipAssumption
  <2>4. c \in liveLeaves
    BY <2>2, <2>3 DEF liveLeaves
  <2>5. c \in Electorate(p)
    <3>1. proposals[p].mode \in {"Fixed", "Trailing"}
      BY <1>1, VotingAssumption DEF ProposalInfo
    <3> QED BY <2>2, <2>3, <3>1 DEF Electorate
  <2> QED BY <2>4, <2>5 DEF Nullifier
<1>7. \A x \in S : \E c \in Electorate(p) \cap liveLeaves : SecretOf[c] = x
  BY <1>6 DEF Spent
<1> HIDE DEF S, Y, N
<1>8. /\ phases' = [phases EXCEPT ![p] = Phase(p)']
      /\ electorates' = [electorates EXCEPT ![p] = Electorate(p)']
      /\ yesVotes' = [yesVotes EXCEPT ![p] = proposals'[p].yes]
      /\ noVotes' = [noVotes EXCEPT ![p] = proposals'[p].no]
  BY <1>1, <1>3, OneProposalChanges
<1>9. /\ phases[p] = Phase(p)
      /\ electorates[p] = Electorate(p)
      /\ yesVotes[p] = proposals[p].yes
      /\ noVotes[p] = proposals[p].no
  BY <1>1 DEF phases, electorates, yesVotes, noVotes
<1>10. Phase(p) = "open" /\ Phase(p)' = "open"
  <2>1. Exists(p)'
    BY <1>1, <1>3 DEF Exists, TypeOK
  <2> QED BY <1>4, <1>5, <2>1 DEF Phase, VotingOpen, Active
<1>11. UNCHANGED <<phases, electorates>>
  <2>1. Electorate(p)' = Electorate(p)
    BY <1>4 DEF Electorate
  <2>2. [phases EXCEPT ![p] = phases[p]] = phases
    BY DEF phases
  <2>3. [electorates EXCEPT ![p] = electorates[p]] = electorates
    BY DEF electorates
  <2>4. Phase(p)' = phases[p] /\ Electorate(p)' = electorates[p]
    BY <1>9, <1>10, <2>1
  <2> QED BY <1>8, <2>2, <2>3, <2>4, Zenon
<1>12. yesVotes' = [yesVotes EXCEPT ![p] = @ + Y]
  BY <1>4, <1>8, <1>9
<1>13. noVotes' = [noVotes EXCEPT ![p] = @ + Cardinality(S) - Y]
  <2>1. noVotes[p] + Cardinality(S) - Y = proposals'[p].no
    <3>1. proposals[p].no \in Nat
      BY <1>1 DEF ProposalInfo
    <3> QED BY <1>2, <1>4, <1>9, <3>1
  <2> QED BY <1>8, <2>1, Zenon
<1>14. S # {}
  BY <1>2, FS_EmptySet
<1>15. Y \in 0 .. Cardinality(Secrets) /\ Y <= Cardinality(S)
  <2>1. /\ Cardinality(S) <= Cardinality(Secrets)
        /\ Cardinality(Secrets) \in Nat
    BY <1>2, VotingAssumption, FS_Subset, FS_CardinalityType
  <2> QED BY <1>2, <2>1
<1>16. E!Cast(p)
  <2>1. S \in (SUBSET Secrets) \ {{}} /\ phases[p] = "open"
    BY <1>2, <1>9, <1>10, <1>14
  <2>2. \A x \in S : \E c \in electorates[p] \cap liveLeaves : SecretOf[c] = x
    BY <1>7, <1>9
  <2> QED
    BY <2>1, <2>2, <1>2, <1>11, <1>12, <1>13, <1>15, ElectionCast
<1> QED BY <1>1, <1>16 DEF E!Next

\* The voting contract does what Election promises: a ballot counts only while
\* the round is open, only for a commitment that is both a live leaf now and of
\* the electorate, and once for each secret.
THEOREM VotingImplementsElection == Spec => ImplementsElection
<1>1. Init => E!Init
  BY ElectionInit
<1>2. VInv /\ VInv' /\ [Next]_vars => [E!Next]_(E!electionVars)
  <2> SUFFICES ASSUME VInv, VInv', [Next]_vars
               PROVE  E!Next \/ UNCHANGED E!electionVars
    OBVIOUS
  <2>1. ASSUME \/ MembershipStep
               \/ \E b \in BOOLEAN : SetPaused(b)
               \/ UNCHANGED vars
        PROVE  UNCHANGED E!electionVars
    <3>1. UNCHANGED <<proposals, nullifierUsed>>
      BY <2>1 DEF MembershipStep, SetPaused, vars, votingVars
    <3> QED BY <3>1, ElectionStutters
  <2>2. ASSUME NEW m \in Proposers, NEW mode \in Modes, NEW state \in CreatedIn,
               NEW deadline \in {"none", "ahead"},
               CreateProposal(m, mode, state, deadline)
        PROVE  E!Next
    BY <2>2, CreateRefines
  <2>3. ASSUME NEW p \in DOMAIN proposals, ProposalStep(p)
        PROVE  E!Next \/ UNCHANGED E!electionVars
    BY <2>3, ProposalStepRefines
  <2>4. ASSUME NEW p \in DOMAIN proposals, VoteStep(p)
        PROVE  E!Next
    <3>1. PICK n \in Nat \ {0} : \E bs : Accepted(p, n, bs)
      BY <2>4, VoteStepAccepts DEF VInv
    <3> QED BY <3>1, VoteStepRefines
  <2> QED BY <2>1, <2>2, <2>3, <2>4 DEF Next
<1> QED
  BY <1>1, <1>2, VotingInvariantHolds, PTL
     DEF Spec, ImplementsElection, E!Spec

=============================================================================
