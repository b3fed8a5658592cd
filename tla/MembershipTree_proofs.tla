------------------------ MODULE MembershipTree_proofs ------------------------
(***************************************************************************)
(* The invariants of MembershipTree hold for every number of members,      *)
(* commitments and slots, every cap of the window and every behaviour of   *)
(* the voting contract that pins roots.                                    *)
(***************************************************************************)
EXTENDS MembershipTree, TLAPS

\* Only init_tree and create_and_init_dao start a tree.
UntouchedBeforeInit ==
  roots = <<>> =>
    /\ leafValue = EmptyTree
    /\ nextLeafIndex = 0
    /\ memberLeafIndex = [m \in Members |-> None]
    /\ pending = [m \in Members |-> None]
    /\ nextRootIndex = 0
    /\ minValidRootIdx = 0

\* insert_leaf hands out slots in order and never one twice.
SlotsInOrder ==
  /\ \A s \in Slots : s >= nextLeafIndex => leafValue[s] = Zero
  /\ \A m \in Members : memberLeafIndex[m] # None
                          => memberLeafIndex[m] < nextLeafIndex

\* A live leaf is a reserved commitment, and no other leaf equals it.
LeavesReserved ==
  \A s, u \in Slots : leafValue[s] # Zero =>
    /\ leafValue[s] \in commitmentUsed
    /\ leafValue[u] = leafValue[s] => s = u

\* The revocation floor is an index given out, or the next one.
FloorBelowNext == minValidRootIdx <= nextRootIndex

IInv ==
  /\ TypeOK
  /\ UntouchedBeforeInit
  /\ SlotsInOrder
  /\ LeavesReserved
  /\ FloorBelowNext
  /\ EligibleRootsAreCurrent
  /\ LiveLeafHasOneOwner
  /\ CommitmentKeepsItsSlot
  /\ IndexedRootsRetained
  /\ CurrentRootEligible
  /\ CooldownCoversRegistered

-----------------------------------------------------------------------------
\* What publishing a root does to the window and to RootIndex (the tail of
\* insert_leaf and update_leaf): the root becomes the newest, with the next
\* index, and the other entries that remain are unchanged and still retained.
LEMMA PublishRootLemma ==
  ASSUME NEW t \in Trees, TypeOK, IndexedRootsRetained, PublishRoot(t)
  PROVE  /\ roots' \in Seq(Trees)
         /\ roots' # <<>>
         /\ roots'[Len(roots')] = t
         /\ t \in DOMAIN rootIndex'
         /\ rootIndex'[t] = nextRootIndex
         /\ DOMAIN rootIndex' \subseteq DOMAIN rootIndex \cup {t}
         /\ \A r \in DOMAIN rootIndex' : r # t => rootIndex'[r] = rootIndex[r]
         /\ rootIndex' \in [DOMAIN rootIndex' -> Nat]
         /\ \A r \in DOMAIN rootIndex' : RootOk(r)'
         /\ nextRootIndex' = nextRootIndex + 1
         /\ IndexedRootsRetained'
<1> DEFINE pushed == Append(roots, t)
           over == Len(pushed) > maxRoots
           gone == IF over THEN {Head(pushed)} ELSE {}
<1>1. /\ roots \in Seq(Trees)
      /\ maxRoots \in Nat /\ maxRoots >= 2
      /\ nextRootIndex \in Nat
      /\ DOMAIN rootIndex \subseteq Trees
      /\ rootIndex \in [DOMAIN rootIndex -> Nat]
  BY TreeAssumption DEF TypeOK
<1>2. /\ pushed \in Seq(Trees)
      /\ Len(pushed) = Len(roots) + 1
      /\ \A i \in 1 .. Len(roots) : pushed[i] = roots[i]
      /\ pushed[Len(pushed)] = t
      /\ Len(roots) \in Nat
  BY <1>1
<1>3. /\ roots' = IF over THEN Tail(pushed) ELSE pushed
      /\ rootIndex' = [r \in (DOMAIN rootIndex \ gone) \cup {t} |->
                         IF r = t THEN nextRootIndex ELSE rootIndex[r]]
      /\ nextRootIndex' = nextRootIndex + 1
  BY DEF PublishRoot, Reindexed
<1>4. /\ roots' \in Seq(Trees)
      /\ Len(roots') > 0
      /\ roots'[Len(roots')] = t
  <2>1. CASE over
    <3>1. Len(pushed) > 2
      BY <2>1, <1>1, <1>2
    <3> HIDE DEF pushed
    <3>2. /\ Tail(pushed) \in Seq(Trees)
          /\ Len(Tail(pushed)) = Len(pushed) - 1
          /\ \A i \in 1 .. Len(pushed) - 1 : Tail(pushed)[i] = pushed[i + 1]
      BY <3>1, <1>2
    <3> QED BY <3>1, <3>2, <2>1, <1>2, <1>3
  <2>2. CASE ~over
    BY <2>2, <1>2, <1>3
  <2> QED BY <2>1, <2>2
<1>5. /\ DOMAIN rootIndex' = (DOMAIN rootIndex \ gone) \cup {t}
      /\ rootIndex'[t] = nextRootIndex
      /\ \A r \in DOMAIN rootIndex' : r # t => rootIndex'[r] = rootIndex[r]
      /\ rootIndex' \in [DOMAIN rootIndex' -> Nat]
  <2> HIDE DEF gone
  <2> QED BY <1>1, <1>3
<1>6. ASSUME NEW r \in DOMAIN rootIndex'
      PROVE  \E i \in 1 .. Len(roots') : roots'[i] = r
  <2>1. CASE r = t
    BY <2>1, <1>4
  <2>2. CASE r # t
    <3>1. r \in DOMAIN rootIndex /\ r \notin gone
      BY <2>2, <1>5
    <3>2. PICK i \in 1 .. Len(roots) : roots[i] = r
      BY <3>1 DEF IndexedRootsRetained, RootOk
    <3>3. pushed[i] = r
      BY <3>2, <1>2
    <3>4. CASE over
      <4>1. i # 1
        BY <3>1, <3>3, <3>4, <1>2
      <4> HIDE DEF pushed
      <4>2. /\ i - 1 \in 1 .. Len(Tail(pushed))
            /\ Tail(pushed)[i - 1] = pushed[i]
        BY <4>1, <3>2, <1>2
      <4> QED BY <4>2, <3>3, <3>4, <1>3
    <3>5. CASE ~over
      BY <3>2, <3>3, <3>5, <1>2, <1>3
    <3> QED BY <3>4, <3>5
  <2> QED BY <2>1, <2>2
<1>7. \A r \in DOMAIN rootIndex' :
        rootIndex'[r] < nextRootIndex' \/ (r = EmptyTree /\ rootIndex'[r] = 0)
  BY <1>1, <1>3, <1>5 DEF IndexedRootsRetained
<1>8. \A r \in DOMAIN rootIndex' : RootOk(r)'
  BY <1>6 DEF RootOk
<1>9. IndexedRootsRetained'
  BY <1>7, <1>8 DEF IndexedRootsRetained
<1>10. roots' # <<>>
  BY <1>4
<1> HIDE DEF pushed, over, gone
<1> QED BY <1>3, <1>4, <1>5, <1>8, <1>9, <1>10

-----------------------------------------------------------------------------
(* Type correctness *)

\* The typing of the window and of RootIndex after a root was published.
LEMMA PublishRootTypes ==
  ASSUME NEW t \in Trees, TypeOK, PublishRoot(t)
  PROVE  /\ roots' \in Seq(Trees)
         /\ DOMAIN rootIndex' \subseteq Trees
         /\ rootIndex' \in [DOMAIN rootIndex' -> Nat]
         /\ nextRootIndex' \in Nat
<1> DEFINE pushed == Append(roots, t)
           gone == IF Len(pushed) > maxRoots THEN {Head(pushed)} ELSE {}
<1>1. /\ roots' = IF Len(pushed) > maxRoots THEN Tail(pushed) ELSE pushed
      /\ rootIndex' = [r \in (DOMAIN rootIndex \ gone) \cup {t} |->
                         IF r = t THEN nextRootIndex ELSE rootIndex[r]]
      /\ nextRootIndex' = nextRootIndex + 1
  BY DEF PublishRoot, Reindexed
<1>2. pushed \in Seq(Trees) /\ pushed # <<>>
  BY DEF TypeOK
<1>3. roots' \in Seq(Trees)
  <2> HIDE DEF pushed
  <2> QED BY <1>1, <1>2
<1>4. rootIndex' \in [DOMAIN rootIndex' -> Nat] /\ DOMAIN rootIndex' \subseteq Trees
  <2> HIDE DEF gone
  <2> QED BY <1>1 DEF TypeOK
<1> QED BY <1>1, <1>3, <1>4 DEF TypeOK

\* A registration writes a leaf, a slot, a commitment and a root of their types.
LEMMA InsertCommitmentTypes ==
  ASSUME NEW m \in Members, NEW c \in Commitments,
         TypeOK, InsertCommitment(m, c)
  PROVE  /\ leafValue' \in Trees
         /\ nextLeafIndex' \in 0 .. Capacity
         /\ memberLeafIndex' \in [Members -> Slots \cup {None}]
         /\ commitmentUsed' \subseteq Commitments
         /\ lastRegistration' \subseteq Members
         /\ roots' \in Seq(Trees)
         /\ DOMAIN rootIndex' \subseteq Trees
         /\ rootIndex' \in [DOMAIN rootIndex' -> Nat]
         /\ nextRootIndex' \in Nat
         /\ minValidRootIdx' = minValidRootIdx
         /\ maxRoots' = maxRoots
<1> DEFINE t == [leafValue EXCEPT ![nextLeafIndex] = c]
<1>1. /\ nextLeafIndex \in Slots
      /\ nextLeafIndex + 1 \in 0 .. Capacity
  BY TreeAssumption DEF TypeOK, InsertCommitment, SlotFree, Slots
<1>2. t \in Trees
  BY DEF TypeOK, Trees, Leaves
<1>3. PublishRoot(t) /\ leafValue' = t
  BY DEF InsertCommitment
<1>4. /\ roots' \in Seq(Trees)
      /\ DOMAIN rootIndex' \subseteq Trees
      /\ rootIndex' \in [DOMAIN rootIndex' -> Nat]
      /\ nextRootIndex' \in Nat
  <2> HIDE DEF t
  <2> QED BY <1>2, <1>3, PublishRootTypes
<1>5. /\ nextLeafIndex' = nextLeafIndex + 1
      /\ memberLeafIndex' = [memberLeafIndex EXCEPT ![m] = nextLeafIndex]
      /\ commitmentUsed' = commitmentUsed \cup {c}
      /\ lastRegistration' = lastRegistration \cup {m}
      /\ UNCHANGED floorVars
  BY DEF InsertCommitment, ReserveCommitment
<1> HIDE DEF t
<1> QED BY <1>1, <1>2, <1>3, <1>4, <1>5 DEF TypeOK, floorVars

\* The tree of a DAO before its first commitment, and the founder's.
LEMMA FirstTrees ==
  /\ 0 \in Slots
  /\ EmptyTree \in Trees
  /\ \A c \in Commitments : [EmptyTree EXCEPT ![0] = c] \in Trees
BY TreeAssumption DEF Slots, Trees, Leaves, EmptyTree

\* Storage has its types in every state of the two contracts.
LEMMA TypeInductive ==
  ASSUME TypeOK, [TreeNext]_treeVars
  PROVE  TypeOK'
<1> USE DEF treeVars, sbtVars, leafVars, pendingVars, rootVars, floorVars
<1>1. ASSUME NEW m \in Members, Mint(m)
      PROVE  TypeOK'
  BY <1>1 DEF Mint, TypeOK
<1>2. ASSUME NEW m \in Members, Revoke(m)
      PROVE  TypeOK'
  BY <1>2 DEF Revoke, TypeOK
<1>3. CASE SetMembershipOpen
  BY <1>3 DEF SetMembershipOpen, TypeOK
<1>4. CASE InitTree
  BY <1>4, FirstTrees DEF InitTree, TypeOK
<1>5. ASSUME NEW m \in Members, NEW c \in Commitments, CreateAndInitDao(m, c)
      PROVE  TypeOK'
  <2> DEFINE t == [EmptyTree EXCEPT ![0] = c]
  <2>1. t \in Trees
    BY FirstTrees
  <2>2. /\ sbt' = [sbt EXCEPT ![m] = "active"]
        /\ leafValue' = t
        /\ nextLeafIndex' = 1
        /\ memberLeafIndex' = [memberLeafIndex EXCEPT ![m] = 0]
        /\ commitmentUsed' = {c}
        /\ lastRegistration' = {m}
        /\ roots' = <<EmptyTree, t>>
        /\ rootIndex' = [r \in {EmptyTree, t} |-> 0]
        /\ nextRootIndex' = 1
        /\ UNCHANGED <<membershipOpen, pendingVars, floorVars>>
    BY <1>5 DEF CreateAndInitDao, FounderTree
  <2> HIDE DEF t
  <2>3. 1 \in 0 .. Capacity
    BY TreeAssumption
  <2>4. roots' \in Seq(Trees)
    BY <2>1, <2>2, FirstTrees
  <2> QED BY <2>1, <2>2, <2>3, <2>4, FirstTrees DEF TypeOK
<1>6. ASSUME NEW m \in Members, NEW c \in Commitments, RegisterWithCaller(m, c)
      PROVE  TypeOK'
  <2>1. InsertCommitment(m, c) /\ UNCHANGED <<sbtVars, pendingVars>>
    BY <1>6 DEF RegisterWithCaller
  <2> QED BY <2>1, InsertCommitmentTypes DEF TypeOK
<1>7. ASSUME NEW m \in Members, NEW h \in RegistrationHashes,
             CommitRegistration(m, h)
      PROVE  TypeOK'
  BY <1>7 DEF CommitRegistration, TypeOK
<1>8. ASSUME NEW m \in Members, NEW c \in Commitments, NEW salt \in Salts,
             RevealRegistration(m, c, salt)
      PROVE  TypeOK'
  <2>1. /\ InsertCommitment(m, c)
        /\ pending' = [pending EXCEPT ![m] = None]
        /\ UNCHANGED <<sbtVars, thisLedger>>
    BY <1>8 DEF RevealRegistration
  <2> QED BY <2>1, InsertCommitmentTypes DEF TypeOK
<1>9. CASE CloseLedger
  BY <1>9 DEF CloseLedger, TypeOK
<1>10. ASSUME NEW m \in Members, CooldownElapses(m)
       PROVE  TypeOK'
  BY <1>10 DEF CooldownElapses, TypeOK
<1>11. ASSUME NEW m \in Members, RemoveMember(m)
       PROVE  TypeOK'
  <2> DEFINE t == [leafValue EXCEPT ![memberLeafIndex[m]] = Zero]
  <2>1. t \in Trees
    BY DEF TypeOK, Trees, Leaves
  <2>2. /\ leafValue' = t
        /\ PublishRoot(t)
        /\ minValidRootIdx' = nextRootIndex
        /\ sbt' = [sbt EXCEPT ![m] = "revoked"]
        /\ UNCHANGED <<membershipOpen, nextLeafIndex, memberLeafIndex,
                       commitmentUsed, lastRegistration, pendingVars, maxRoots>>
    BY <1>11 DEF RemoveMember, RaiseFloor
  <2> HIDE DEF t
  <2> QED BY <2>1, <2>2, PublishRootTypes DEF TypeOK
<1>12. ASSUME NEW m \in Members, ReinstateMember(m)
       PROVE  TypeOK'
  BY <1>12 DEF ReinstateMember, ForgetMember, TypeOK
<1>13. ASSUME NEW n \in MaxRootsRange, SetMaxRoots(n)
       PROVE  TypeOK'
  BY <1>13 DEF SetMaxRoots, TypeOK
<1>14. CASE UNCHANGED treeVars
  BY <1>14 DEF TypeOK
<1> QED BY <1>1, <1>2, <1>3, <1>4, <1>5, <1>6, <1>7, <1>8, <1>9, <1>10, <1>11,
           <1>12, <1>13, <1>14
        DEF TreeNext, SbtNext, RegistrationNext, AdminNext, SelfJoin, Leave,
            SelfRegister

\* THEOREM: every storage entry of the two contracts keeps its type.
THEOREM TypeCorrect == Spec => []TypeOK
<1>1. Init => TypeOK
  BY TreeAssumption, FirstTrees DEF Init, TypeOK
<1>2. TypeOK /\ [TreeNext]_treeVars => TypeOK'
  BY TypeInductive
<1> QED BY <1>1, <1>2, PTL DEF Spec

-----------------------------------------------------------------------------
(* The inductive invariant *)

\* The initial storage satisfies the inductive invariant.
LEMMA InitInvariant == Init => IInv
<1> SUFFICES ASSUME Init
             PROVE  IInv
  OBVIOUS
<1>1. TypeOK
  BY TreeAssumption, FirstTrees DEF Init, TypeOK
<1>2. /\ roots = <<>>
      /\ leafValue = EmptyTree
      /\ DOMAIN rootIndex = {}
      /\ lastRegistration = {}
      /\ memberLeafIndex = [m \in Members |-> None]
      /\ minValidRootIdx = 0 /\ nextRootIndex = 0 /\ nextLeafIndex = 0
      /\ pending = [m \in Members |-> None]
  BY DEF Init
<1>3. \A s \in Slots : leafValue[s] = Zero
  BY <1>2 DEF EmptyTree
<1>4. ~TreeInitialized
  BY <1>2 DEF TreeInitialized
<1> QED
  BY <1>1, <1>2, <1>3, <1>4
     DEF IInv, UntouchedBeforeInit, SlotsInOrder, LeavesReserved, FloorBelowNext,
         EligibleRootsAreCurrent, LiveLeafHasOneOwner, CommitmentKeepsItsSlot,
         IndexedRootsRetained, CurrentRootEligible, CooldownCoversRegistered

\* A step that leaves the leaves, the window and the floor alone.
LEMMA OtherStepsKeepInvariant ==
  ASSUME IInv, TypeOK',
         UNCHANGED <<leafValue, nextLeafIndex, memberLeafIndex, commitmentUsed>>,
         UNCHANGED <<roots, rootIndex, nextRootIndex, minValidRootIdx>>,
         lastRegistration' \subseteq lastRegistration,
         roots = <<>> => pending' = pending
  PROVE  IInv'
<1> USE DEF IInv
<1>1. UntouchedBeforeInit'
  BY DEF UntouchedBeforeInit
<1>2. SlotsInOrder' /\ LeavesReserved' /\ FloorBelowNext'
  BY DEF SlotsInOrder, LeavesReserved, FloorBelowNext
<1>3. EligibleRootsAreCurrent' /\ CurrentRootEligible'
  BY DEF EligibleRootsAreCurrent, CurrentRootEligible, RootEligible, CurrentRoot,
         TreeInitialized
<1>4. LiveLeafHasOneOwner' /\ CommitmentKeepsItsSlot'
  BY DEF LiveLeafHasOneOwner, CommitmentKeepsItsSlot
<1>5. IndexedRootsRetained'
  BY DEF IndexedRootsRetained, RootOk
<1>6. CooldownCoversRegistered'
  BY DEF CooldownCoversRegistered
<1> QED BY <1>1, <1>2, <1>3, <1>4, <1>5, <1>6

\* A published root passes root_eligibility, and the roots that were eligible
\* before are the only others that can be.
LEMMA PublishedRootEligible ==
  ASSUME NEW t \in Trees, TypeOK, IndexedRootsRetained, PublishRoot(t),
         minValidRootIdx' \in Nat, minValidRootIdx' <= nextRootIndex
  PROVE  /\ CurrentRootEligible'
         /\ FloorBelowNext'
         /\ \A r \in DOMAIN rootIndex' : r # t =>
              r \in DOMAIN rootIndex /\ rootIndex'[r] = rootIndex[r]
<1>1. /\ roots' # <<>>
      /\ roots'[Len(roots')] = t
      /\ t \in DOMAIN rootIndex'
      /\ rootIndex'[t] = nextRootIndex
      /\ DOMAIN rootIndex' \subseteq DOMAIN rootIndex \cup {t}
      /\ \A r \in DOMAIN rootIndex' : r # t => rootIndex'[r] = rootIndex[r]
      /\ nextRootIndex' = nextRootIndex + 1
  BY PublishRootLemma
<1>2. nextRootIndex \in Nat
  BY DEF TypeOK
<1>3. CurrentRootEligible'
  BY <1>1, <1>2 DEF CurrentRootEligible, CurrentRoot, RootEligible
<1>4. FloorBelowNext'
  BY <1>1, <1>2 DEF FloorBelowNext
<1> QED BY <1>1, <1>3, <1>4

\* A registration, through any of its entry points.
LEMMA InsertCommitmentKeepsInvariant ==
  ASSUME NEW m \in Members, NEW c \in Commitments,
         IInv, TypeOK', InsertCommitment(m, c)
  PROVE  IInv'
<1> DEFINE n == nextLeafIndex
           t == [leafValue EXCEPT ![n] = c]
<1>1. /\ leafValue' = t
      /\ PublishRoot(t)
      /\ nextLeafIndex' = n + 1
      /\ memberLeafIndex[m] = None
      /\ memberLeafIndex' = [memberLeafIndex EXCEPT ![m] = n]
      /\ c \notin commitmentUsed
      /\ commitmentUsed' = commitmentUsed \cup {c}
      /\ lastRegistration' = lastRegistration \cup {m}
      /\ minValidRootIdx' = minValidRootIdx
  BY DEF InsertCommitment, ReserveCommitment, floorVars
<1>2. /\ n \in Slots
      /\ t \in Trees
      /\ t[n] = c
      /\ \A s \in Slots \ {n} : t[s] = leafValue[s]
      /\ c # Zero
  BY TreeAssumption DEF IInv, TypeOK, InsertCommitment, SlotFree, Slots, Trees, Leaves
<1>3. /\ TypeOK
      /\ leafValue[n] = Zero
      /\ \A x \in Members : memberLeafIndex[x] # n
  BY <1>2, TreeAssumption DEF IInv, TypeOK, SlotsInOrder, Slots
<1> HIDE DEF t
<1>4. /\ roots' # <<>>
      /\ IndexedRootsRetained'
      /\ CurrentRootEligible'
      /\ FloorBelowNext'
      /\ \A r \in DOMAIN rootIndex' : r # t =>
           r \in DOMAIN rootIndex /\ rootIndex'[r] = rootIndex[r]
  <2>1. minValidRootIdx' \in Nat /\ minValidRootIdx' <= nextRootIndex
    BY <1>1 DEF IInv, TypeOK, FloorBelowNext
  <2> QED BY <1>1, <1>2, <2>1, PublishRootLemma, PublishedRootEligible DEF IInv
<1>5. UntouchedBeforeInit'
  BY <1>4 DEF UntouchedBeforeInit
<1>6. SlotsInOrder'
  <2>1. \A s \in Slots : s >= n + 1 => s >= n /\ s # n
    BY <1>2 DEF Slots
  <2>2. \A x \in Members : memberLeafIndex'[x] = IF x = m THEN n ELSE memberLeafIndex[x]
    BY <1>1, <1>3 DEF TypeOK
  <2>3. \A x \in Members : memberLeafIndex'[x] # None => memberLeafIndex'[x] < n + 1
    <3> SUFFICES ASSUME NEW x \in Members, memberLeafIndex'[x] # None
                 PROVE  memberLeafIndex'[x] < n + 1
      OBVIOUS
    <3>1. CASE x = m
      BY <3>1, <2>2, <1>2 DEF Slots
    <3>2. CASE x # m
      <4>1. memberLeafIndex[x] \in Slots /\ memberLeafIndex[x] < n
        BY <3>2, <2>2, <1>3 DEF IInv, SlotsInOrder, TypeOK
      <4> QED BY <4>1, <3>2, <2>2, <1>2 DEF Slots
    <3> QED BY <3>1, <3>2
  <2> QED BY <2>1, <2>3, <1>1, <1>2 DEF IInv, SlotsInOrder
<1>7. LeavesReserved'
  BY <1>1, <1>2, <1>3 DEF IInv, LeavesReserved
<1>8. EligibleRootsAreCurrent'
  <2> SUFFICES ASSUME NEW r \in DOMAIN rootIndex', RootEligible(r, 0)', NEW s \in Slots
               PROVE  r[s] \in {Zero, t[s]}
    BY <1>1 DEF EligibleRootsAreCurrent
  <2>1. CASE r = t
    BY <2>1
  <2>2. CASE r # t
    <3>1. RootEligible(r, 0)
      BY <2>2, <1>1, <1>4 DEF RootEligible
    <3>2. r[s] \in {Zero, leafValue[s]}
      BY <3>1 DEF IInv, EligibleRootsAreCurrent, RootEligible
    <3> QED BY <3>2, <1>2, <1>3
  <2> QED BY <2>1, <2>2
<1>9. LiveLeafHasOneOwner'
  <2>1. \A x \in Members : memberLeafIndex'[x] = IF x = m THEN n ELSE memberLeafIndex[x]
    BY <1>1, <1>3 DEF TypeOK
  <2> SUFFICES ASSUME NEW s \in Slots, t[s] # Zero
               PROVE  \E x \in Members :
                        /\ memberLeafIndex'[x] = s
                        /\ \A y \in Members \ {x} : memberLeafIndex'[y] # s
    BY <1>1 DEF LiveLeafHasOneOwner
  <2>2. CASE s = n
    BY <2>1, <2>2, <1>3
  <2>3. CASE s # n
    <3>1. PICK o \in Members :
            /\ memberLeafIndex[o] = s
            /\ \A y \in Members \ {o} : memberLeafIndex[y] # s
      BY <2>3, <1>2 DEF IInv, LiveLeafHasOneOwner
    <3>2. o # m
      BY <3>1, <1>1, TreeAssumption
    <3> QED BY <3>1, <3>2, <2>1, <2>3
  <2> QED BY <2>2, <2>3
<1>10. CommitmentKeepsItsSlot'
  <2> SUFFICES ASSUME NEW r \in DOMAIN rootIndex', NEW s \in Slots, NEW u \in Slots
               PROVE  /\ r[s] # Zero => r[s] \in commitmentUsed'
                      /\ (r[s] # Zero /\ r[s] = t[u]) => s = u
    BY <1>1 DEF CommitmentKeepsItsSlot
  <2>1. CASE r = t
    BY <2>1, <1>1, <1>2, <1>3 DEF IInv, LeavesReserved
  <2>2. CASE r # t
    <3>1. /\ r[s] # Zero => r[s] \in commitmentUsed
          /\ (r[s] # Zero /\ r[s] = leafValue[u]) => s = u
      BY <2>2, <1>4 DEF IInv, CommitmentKeepsItsSlot
    <3> QED BY <3>1, <1>1, <1>2
  <2> QED BY <2>1, <2>2
<1>11. CooldownCoversRegistered'
  BY <1>1, <1>2, <1>3, TreeAssumption
     DEF IInv, TypeOK, CooldownCoversRegistered
<1> QED BY <1>4, <1>5, <1>6, <1>7, <1>8, <1>9, <1>10, <1>11 DEF IInv

\* init_tree: the empty root is eligible, since nothing raised the floor yet.
LEMMA InitTreeKeepsInvariant ==
  ASSUME IInv, TypeOK', InitTree
  PROVE  IInv'
<1>1. /\ roots = <<>>
      /\ roots' = <<EmptyTree>>
      /\ rootIndex' = [r \in {EmptyTree} |-> 0]
      /\ UNCHANGED <<leafValue, nextLeafIndex, memberLeafIndex, commitmentUsed,
                     lastRegistration, nextRootIndex, minValidRootIdx>>
  BY DEF InitTree, TreeInitialized, leafVars, floorVars
<1>2. minValidRootIdx = 0
  BY <1>1 DEF IInv, UntouchedBeforeInit
<1>3. \A s \in Slots : EmptyTree[s] = Zero
  BY DEF EmptyTree
<1>4. /\ roots' # <<>> /\ Len(roots') = 1 /\ roots'[1] = EmptyTree
      /\ DOMAIN rootIndex' = {EmptyTree} /\ rootIndex'[EmptyTree] = 0
  BY <1>1
<1>5. UntouchedBeforeInit'
  BY <1>4 DEF UntouchedBeforeInit
<1>6. SlotsInOrder' /\ LeavesReserved' /\ FloorBelowNext' /\ LiveLeafHasOneOwner'
  BY <1>1 DEF IInv, SlotsInOrder, LeavesReserved, FloorBelowNext,
              LiveLeafHasOneOwner
<1>7. EligibleRootsAreCurrent' /\ CommitmentKeepsItsSlot'
  BY <1>3, <1>4 DEF EligibleRootsAreCurrent, CommitmentKeepsItsSlot
<1>8. IndexedRootsRetained' /\ CurrentRootEligible'
  BY <1>1, <1>2, <1>4 DEF IndexedRootsRetained, RootOk, CurrentRootEligible,
                          CurrentRoot, RootEligible
<1>9. CooldownCoversRegistered'
  BY <1>1 DEF IInv, CooldownCoversRegistered
<1> QED BY <1>5, <1>6, <1>7, <1>8, <1>9 DEF IInv

\* create_and_init_dao: the founder's root takes index 0, next to the empty one.
LEMMA CreateAndInitDaoKeepsInvariant ==
  ASSUME NEW m \in Members, NEW c \in Commitments,
         IInv, TypeOK', CreateAndInitDao(m, c)
  PROVE  IInv'
<1> DEFINE t == [EmptyTree EXCEPT ![0] = c]
<1>1. /\ roots = <<>>
      /\ leafValue' = t
      /\ nextLeafIndex' = 1
      /\ memberLeafIndex' = [memberLeafIndex EXCEPT ![m] = 0]
      /\ commitmentUsed' = {c}
      /\ lastRegistration' = {m}
      /\ roots' = <<EmptyTree, t>>
      /\ rootIndex' = [r \in {EmptyTree, t} |-> 0]
      /\ nextRootIndex' = 1
      /\ minValidRootIdx' = minValidRootIdx
  BY DEF CreateAndInitDao, FounderTree, TreeInitialized, floorVars
<1>2. /\ minValidRootIdx = 0
      /\ memberLeafIndex = [x \in Members |-> None]
  BY <1>1 DEF IInv, UntouchedBeforeInit
<1>3. /\ 0 \in Slots
      /\ t[0] = c
      /\ \A s \in Slots \ {0} : t[s] = Zero
      /\ \A s \in Slots : EmptyTree[s] = Zero
      /\ \A s \in Slots : s >= 1 => s # 0
      /\ c # Zero
  BY TreeAssumption, FirstTrees DEF EmptyTree, Slots
<1>4. \A x \in Members : memberLeafIndex'[x] = IF x = m THEN 0 ELSE None
  BY <1>1, <1>2
<1>5. None # 0 /\ \A s \in Slots : s # None
  BY <1>3, TreeAssumption
<1> HIDE DEF t
<1>6. /\ roots' # <<>> /\ Len(roots') = 2
      /\ roots'[1] = EmptyTree /\ roots'[2] = t
      /\ DOMAIN rootIndex' = {EmptyTree, t}
      /\ \A r \in {EmptyTree, t} : rootIndex'[r] = 0
  BY <1>1
<1>7. UntouchedBeforeInit' /\ FloorBelowNext'
  BY <1>1, <1>2, <1>6 DEF UntouchedBeforeInit, FloorBelowNext
<1>8. SlotsInOrder'
  BY <1>1, <1>3, <1>4 DEF SlotsInOrder
<1>9. LeavesReserved' /\ EligibleRootsAreCurrent' /\ CommitmentKeepsItsSlot'
  BY <1>1, <1>3, <1>6
     DEF LeavesReserved, EligibleRootsAreCurrent, CommitmentKeepsItsSlot
<1>10. LiveLeafHasOneOwner'
  BY <1>1, <1>3, <1>4, <1>5 DEF LiveLeafHasOneOwner
<1>11. IndexedRootsRetained'
  BY <1>1, <1>6 DEF IndexedRootsRetained, RootOk
<1>12. CurrentRootEligible'
  BY <1>1, <1>2, <1>6 DEF CurrentRootEligible, CurrentRoot, RootEligible
<1>13. CooldownCoversRegistered'
  BY <1>1, <1>4, <1>5 DEF CooldownCoversRegistered
<1> QED BY <1>7, <1>8, <1>9, <1>10, <1>11, <1>12, <1>13 DEF IInv

\* remove_member: every other root falls below the floor, except an empty one
\* that still has index 0, which holds no leaf.
LEMMA RemoveMemberKeepsInvariant ==
  ASSUME NEW m \in Members, IInv, TypeOK', RemoveMember(m)
  PROVE  IInv'
<1> DEFINE z == memberLeafIndex[m]
           t == [leafValue EXCEPT ![z] = Zero]
<1>1. /\ z # None
      /\ leafValue' = t
      /\ PublishRoot(t)
      /\ minValidRootIdx' = nextRootIndex
      /\ UNCHANGED <<nextLeafIndex, memberLeafIndex, commitmentUsed,
                     lastRegistration>>
  BY DEF RemoveMember, RaiseFloor
<1>2. /\ z \in Slots
      /\ t \in Trees
      /\ \A s \in Slots : t[s] = IF s = z THEN Zero ELSE leafValue[s]
  BY <1>1 DEF IInv, TypeOK, Trees, Leaves
<1> HIDE DEF t, z
<1>3. /\ roots' # <<>>
      /\ IndexedRootsRetained'
      /\ CurrentRootEligible'
      /\ FloorBelowNext'
      /\ \A r \in DOMAIN rootIndex' : r # t =>
           r \in DOMAIN rootIndex /\ rootIndex'[r] = rootIndex[r]
  <2>1. TypeOK /\ nextRootIndex \in Nat
    BY DEF IInv, TypeOK
  <2>2. minValidRootIdx' \in Nat /\ minValidRootIdx' <= nextRootIndex
    BY <1>1, <2>1
  <2> QED BY <1>1, <1>2, <2>1, <2>2, PublishRootLemma, PublishedRootEligible DEF IInv
<1>4. UntouchedBeforeInit'
  BY <1>3 DEF UntouchedBeforeInit
<1>5. SlotsInOrder' /\ LeavesReserved'
  BY <1>1, <1>2 DEF IInv, SlotsInOrder, LeavesReserved
<1>6. EligibleRootsAreCurrent'
  <2> SUFFICES ASSUME NEW r \in DOMAIN rootIndex', RootEligible(r, 0)', NEW s \in Slots
               PROVE  r[s] \in {Zero, t[s]}
    BY <1>1 DEF EligibleRootsAreCurrent
  <2>1. CASE r = t
    BY <2>1
  <2>2. CASE r # t
    <3>1. rootIndex[r] >= nextRootIndex /\ r \in DOMAIN rootIndex
      BY <2>2, <1>1, <1>3 DEF RootEligible
    <3>2. rootIndex[r] \in Nat /\ nextRootIndex \in Nat
      BY <3>1 DEF IInv, TypeOK
    <3>3. r = EmptyTree
      BY <3>1, <3>2 DEF IInv, IndexedRootsRetained
    <3> QED BY <3>3 DEF EmptyTree
  <2> QED BY <2>1, <2>2
<1>7. LiveLeafHasOneOwner'
  BY <1>1, <1>2 DEF IInv, LiveLeafHasOneOwner
<1>8. CommitmentKeepsItsSlot'
  <2> SUFFICES ASSUME NEW r \in DOMAIN rootIndex', NEW s \in Slots, NEW u \in Slots
               PROVE  /\ r[s] # Zero => r[s] \in commitmentUsed
                      /\ (r[s] # Zero /\ r[s] = t[u]) => s = u
    BY <1>1 DEF CommitmentKeepsItsSlot
  <2>1. CASE r = t
    BY <2>1, <1>2 DEF IInv, LeavesReserved
  <2>2. CASE r # t
    BY <2>2, <1>2, <1>3 DEF IInv, CommitmentKeepsItsSlot
  <2> QED BY <2>1, <2>2
<1>9. CooldownCoversRegistered'
  BY <1>1 DEF IInv, CooldownCoversRegistered
<1> QED BY <1>3, <1>4, <1>5, <1>6, <1>7, <1>8, <1>9 DEF IInv

\* reinstate_member: the freed slot holds the zero leaf, so no leaf loses its
\* owner, and the cooldown of the member goes with the slot.
LEMMA ReinstateMemberKeepsInvariant ==
  ASSUME NEW m \in Members, IInv, TypeOK', ReinstateMember(m)
  PROVE  IInv'
<1>1. /\ leafValue[memberLeafIndex[m]] = Zero
      /\ memberLeafIndex' = [memberLeafIndex EXCEPT ![m] = None]
      /\ lastRegistration' = lastRegistration \ {m}
      /\ UNCHANGED <<leafValue, nextLeafIndex, commitmentUsed, pending,
                     roots, rootIndex, nextRootIndex, minValidRootIdx>>
  BY DEF ReinstateMember, Removed, ForgetMember, pendingVars, rootVars, floorVars
<1>2. \A x \in Members :
        memberLeafIndex'[x] = IF x = m THEN None ELSE memberLeafIndex[x]
  BY <1>1 DEF IInv, TypeOK
<1>3. \A s \in Slots : s # None
  BY TreeAssumption
<1>4. UntouchedBeforeInit'
  BY <1>1, <1>2 DEF IInv, UntouchedBeforeInit
<1>5. SlotsInOrder' /\ LeavesReserved' /\ FloorBelowNext'
  BY <1>1, <1>2 DEF IInv, SlotsInOrder, LeavesReserved, FloorBelowNext
<1>6. EligibleRootsAreCurrent' /\ CurrentRootEligible'
  BY <1>1 DEF IInv, EligibleRootsAreCurrent, CurrentRootEligible, RootEligible,
              CurrentRoot, TreeInitialized
<1>7. LiveLeafHasOneOwner'
  <2> SUFFICES ASSUME NEW s \in Slots, leafValue[s] # Zero
               PROVE  \E x \in Members :
                        /\ memberLeafIndex'[x] = s
                        /\ \A y \in Members \ {x} : memberLeafIndex'[y] # s
    BY <1>1 DEF LiveLeafHasOneOwner
  <2>1. PICK o \in Members :
          /\ memberLeafIndex[o] = s
          /\ \A y \in Members \ {o} : memberLeafIndex[y] # s
    BY DEF IInv, LiveLeafHasOneOwner
  <2>2. o # m
    BY <2>1, <1>1
  <2> QED BY <2>1, <2>2, <1>2, <1>3
<1>8. CommitmentKeepsItsSlot' /\ IndexedRootsRetained'
  BY <1>1 DEF IInv, CommitmentKeepsItsSlot, IndexedRootsRetained, RootOk
<1>9. CooldownCoversRegistered'
  BY <1>1, <1>2 DEF IInv, CooldownCoversRegistered
<1> QED BY <1>4, <1>5, <1>6, <1>7, <1>8, <1>9 DEF IInv

-----------------------------------------------------------------------------
(* The theorems *)

\* Every entry point of the two contracts keeps the invariant.
LEMMA InvariantInductive ==
  ASSUME IInv, [TreeNext]_treeVars
  PROVE  IInv'
<1>1. TypeOK'
  BY TypeInductive DEF IInv
<1> USE <1>1
<1> USE DEF treeVars, sbtVars, leafVars, pendingVars, rootVars, floorVars
<1>2. ASSUME NEW m \in Members, Mint(m) \/ Revoke(m)
      PROVE  IInv'
  BY <1>2, OtherStepsKeepInvariant DEF Mint, Revoke
<1>3. CASE SetMembershipOpen
  BY <1>3, OtherStepsKeepInvariant DEF SetMembershipOpen
<1>4. CASE InitTree
  BY <1>4, InitTreeKeepsInvariant
<1>5. ASSUME NEW m \in Members, NEW c \in Commitments, CreateAndInitDao(m, c)
      PROVE  IInv'
  BY <1>5, CreateAndInitDaoKeepsInvariant
<1>6. ASSUME NEW m \in Members, NEW c \in Commitments, InsertCommitment(m, c)
      PROVE  IInv'
  BY <1>6, InsertCommitmentKeepsInvariant
<1>7. ASSUME NEW m \in Members, NEW h \in RegistrationHashes,
             CommitRegistration(m, h)
      PROVE  IInv'
  <2>1. roots # <<>>
    BY <1>7 DEF CommitRegistration, TreeInitialized
  <2> QED BY <1>7, <2>1, OtherStepsKeepInvariant DEF CommitRegistration
<1>8. CASE CloseLedger
  BY <1>8, OtherStepsKeepInvariant DEF CloseLedger
<1>9. ASSUME NEW m \in Members, CooldownElapses(m)
      PROVE  IInv'
  BY <1>9, OtherStepsKeepInvariant DEF CooldownElapses
<1>10. ASSUME NEW m \in Members, RemoveMember(m)
       PROVE  IInv'
  BY <1>10, RemoveMemberKeepsInvariant
<1>11. ASSUME NEW m \in Members, ReinstateMember(m)
       PROVE  IInv'
  BY <1>11, ReinstateMemberKeepsInvariant
<1>12. ASSUME NEW n \in MaxRootsRange, SetMaxRoots(n)
       PROVE  IInv'
  BY <1>12, OtherStepsKeepInvariant DEF SetMaxRoots
<1>13. CASE UNCHANGED treeVars
  BY <1>13, OtherStepsKeepInvariant
<1> QED BY <1>2, <1>3, <1>4, <1>5, <1>6, <1>7, <1>8, <1>9, <1>10, <1>11, <1>12,
           <1>13
        DEF TreeNext, SbtNext, RegistrationNext, AdminNext, SelfJoin, Leave,
            SelfRegister, RegisterWithCaller, RevealRegistration

\* The inductive invariant holds in every reachable state.
THEOREM InvariantHolds == Spec => []IInv
<1>1. IInv /\ [TreeNext]_treeVars => IInv'
  BY InvariantInductive
<1> QED BY InitInvariant, <1>1, PTL DEF Spec

\* A removal is effective at once and for ever: no root that root_eligibility
\* accepts contains a leaf that remove_member zeroed.
THEOREM RevocationIsEffective == Spec => []EligibleRootsAreCurrent
<1>1. IInv => EligibleRootsAreCurrent
  BY DEF IInv
<1> QED BY <1>1, InvariantHolds, PTL

\* Every live leaf can be removed: it belongs to exactly one member.
THEOREM EveryLeafHasOneOwner == Spec => []LiveLeafHasOneOwner
<1>1. IInv => LiveLeafHasOneOwner
  BY DEF IInv
<1> QED BY <1>1, InvariantHolds, PTL

\* A commitment never moves to another slot and never comes back.
THEOREM CommitmentsKeepTheirSlots == Spec => []CommitmentKeepsItsSlot
<1>1. IInv => CommitmentKeepsItsSlot
  BY DEF IInv
<1> QED BY <1>1, InvariantHolds, PTL

\* RootIndex never points outside the retained window.
THEOREM IndexWithinWindow == Spec => []IndexedRootsRetained
<1>1. IInv => IndexedRootsRetained
  BY DEF IInv
<1> QED BY <1>1, InvariantHolds, PTL

\* curr_idx finds the newest root, so a proposal can be created.
THEOREM CurrentRootIsIndexed == Spec => []CurrentRootIndexed
<1>1. IInv => CurrentRootIndexed
  BY DEF IInv, CurrentRootEligible, CurrentRootIndexed, RootEligible
<1> QED BY <1>1, InvariantHolds, PTL

\* The members that stay can always vote against the newest root.
THEOREM CurrentRootIsEligible == Spec => []CurrentRootEligible
<1>1. IInv => CurrentRootEligible
  BY DEF IInv
<1> QED BY <1>1, InvariantHolds, PTL

\* The registration cooldown never decides: the slot check already did.
THEOREM CooldownIsSubsumed == Spec => []CooldownCoversRegistered
<1>1. IInv => CooldownCoversRegistered
  BY DEF IInv
<1> QED BY <1>1, InvariantHolds, PTL

\* A published root gets an index at least as high as one it had.
LEMMA PublishedIndexRises ==
  ASSUME NEW t \in Trees, TypeOK, IndexedRootsRetained, PublishRoot(t)
  PROVE  \A r \in DOMAIN rootIndex \cap DOMAIN rootIndex' :
           rootIndex'[r] >= rootIndex[r]
<1>1. /\ rootIndex'[t] = nextRootIndex
      /\ \A r \in DOMAIN rootIndex' : r # t => rootIndex'[r] = rootIndex[r]
  BY PublishRootLemma
<1>2. nextRootIndex \in Nat /\ \A r \in DOMAIN rootIndex : rootIndex[r] \in Nat
  BY DEF TypeOK
<1>3. \A r \in DOMAIN rootIndex : nextRootIndex >= rootIndex[r]
  BY <1>2 DEF IndexedRootsRetained
<1> QED BY <1>1, <1>2, <1>3

\* No transaction makes a root acceptable again that was too old: neither the
\* floor nor the index of a retained root ever falls.
THEOREM FloorAndIndicesNeverFall == Spec => FloorAndIndicesRise
<1> DEFINE Rise == /\ minValidRootIdx' >= minValidRootIdx
                   /\ \A r \in DOMAIN rootIndex \cap DOMAIN rootIndex' :
                        rootIndex'[r] >= rootIndex[r]
<1>1. ASSUME IInv, TreeNext
      PROVE  Rise
  <2>1. /\ TypeOK /\ IndexedRootsRetained /\ FloorBelowNext
        /\ minValidRootIdx \in Nat /\ nextRootIndex \in Nat
        /\ \A r \in DOMAIN rootIndex : rootIndex[r] \in Nat
    BY <1>1 DEF IInv, TypeOK
  <2>2. roots = <<>> => DOMAIN rootIndex = {}
    <3> SUFFICES ASSUME roots = <<>>, NEW r \in DOMAIN rootIndex
                 PROVE  FALSE
      OBVIOUS
    <3>1. \E i \in 1 .. Len(roots) : roots[i] = r
      BY <2>1 DEF IndexedRootsRetained, RootOk
    <3> QED BY <3>1
  <2>3. CASE UNCHANGED <<rootIndex, minValidRootIdx>>
    BY <2>1, <2>3
  <2>4. CASE InitTree
    <3>1. roots = <<>> /\ minValidRootIdx' = minValidRootIdx
      BY <2>4 DEF InitTree, TreeInitialized, floorVars
    <3> QED BY <3>1, <2>1, <2>2
  <2>5. ASSUME NEW m \in Members, NEW c \in Commitments, CreateAndInitDao(m, c)
        PROVE  Rise
    <3>1. roots = <<>> /\ minValidRootIdx' = minValidRootIdx
      BY <2>5 DEF CreateAndInitDao, FounderTree, TreeInitialized, floorVars
    <3> QED BY <3>1, <2>1, <2>2
  <2>6. ASSUME NEW m \in Members, NEW c \in Commitments, InsertCommitment(m, c)
        PROVE  Rise
    <3>1. [leafValue EXCEPT ![nextLeafIndex] = c] \in Trees
      BY <2>1 DEF TypeOK, Trees, Leaves
    <3>2. /\ PublishRoot([leafValue EXCEPT ![nextLeafIndex] = c])
          /\ minValidRootIdx' = minValidRootIdx
      BY <2>6 DEF InsertCommitment, floorVars
    <3> QED BY <3>1, <3>2, <2>1, PublishedIndexRises
  <2>7. ASSUME NEW m \in Members, RemoveMember(m)
        PROVE  Rise
    <3>1. [leafValue EXCEPT ![memberLeafIndex[m]] = Zero] \in Trees
      BY <2>1 DEF TypeOK, Trees, Leaves
    <3>2. /\ PublishRoot([leafValue EXCEPT ![memberLeafIndex[m]] = Zero])
          /\ minValidRootIdx' = nextRootIndex
      BY <2>7 DEF RemoveMember, RaiseFloor
    <3> QED BY <3>1, <3>2, <2>1, PublishedIndexRises DEF FloorBelowNext
  <2> HIDE DEF Rise
  <2> QED
    BY <1>1, <2>3, <2>4, <2>5, <2>6, <2>7
       DEF TreeNext, SbtNext, RegistrationNext, AdminNext, SelfJoin, Leave,
           SelfRegister, RegisterWithCaller, RevealRegistration, Mint, Revoke,
           SetMembershipOpen, CommitRegistration, CloseLedger, CooldownElapses,
           ReinstateMember, SetMaxRoots, rootVars, floorVars
<1>2. IInv /\ [TreeNext]_treeVars => [Rise]_treeVars
  BY <1>1
<1> QED BY <1>2, InvariantHolds, PTL DEF Spec, FloorAndIndicesRise

=============================================================================
