--------------------------- MODULE MembershipTree ---------------------------
(***************************************************************************)
(* The membership of one DAO: the soulbound tokens of membership-sbt and   *)
(* the commitment tree of membership-tree, which call each other inside    *)
(* one transaction.  Storage is keyed by DAO, so one DAO is enough.        *)
(*                                                                         *)
(* A transaction runs alone and a panic reverts it, so every entry point   *)
(* is one action whose guard is the conjunction of its checks.             *)
(*                                                                         *)
(* The root of a tree is modelled by the tree itself, a function from      *)
(* slots to leaves: the hash is taken to be collision free.  A slot never  *)
(* written and a slot zeroed by remove_member hash alike (zeros[0] is      *)
(* hash_leaf(0)), so a removal can publish a root published before.  That  *)
(* no commitment is zero is an assumption on the hash that makes them:     *)
(* no entry point checks it.                                               *)
(***************************************************************************)
EXTENDS Integers, Sequences

CONSTANTS
  Members,       \* addresses that may hold a token
  Commitments,   \* identity commitments Poseidon(secret, salt)
  Salts,         \* salts of the commit-reveal registration
  Zero,          \* the zero leaf
  None,          \* an absent storage entry
  Capacity,      \* 2^depth, the number of slots
  MaxRootsRange, \* MIN_MAX_ROOTS..MAX_MAX_ROOTS
  DefaultMaxRoots,
  MaxPublished   \* bound of the exploration: roots published in a run

Slots == 0 .. Capacity - 1
Leaves == Commitments \cup {Zero}
Trees == [Slots -> Leaves]
EmptyTree == [s \in Slots |-> Zero]
RegistrationHashes == Commitments \X Salts

ASSUME TreeAssumption ==
  /\ Capacity \in Nat \ {0}
  /\ Zero \notin Commitments
  /\ None \notin Slots
  /\ None \notin RegistrationHashes
  /\ MaxRootsRange \subseteq Nat \ {0, 1}
  /\ DefaultMaxRoots \in MaxRootsRange
  /\ MaxPublished \in Nat

VARIABLES
  sbt,              \* Member and Revoked entries of membership-sbt
  membershipOpen,   \* DaoInfo.membership_open of the registry
  leafValue,        \* LeafValue: the current tree
  nextLeafIndex,    \* NextLeafIndex
  memberLeafIndex,  \* MemberLeafIndex
  commitmentUsed,   \* CommitmentUsed
  lastRegistration, \* members whose LastRegistrationAt is inside the cooldown
  pending,          \* PendingRegistration: the salted hash a member committed
  thisLedger,       \* members whose pending hash is of the current ledger
  roots,            \* Roots: the retained history, oldest first
  rootIndex,        \* RootIndex: partial map from roots to indices
  nextRootIndex,    \* NextRootIndex
  minValidRootIdx,  \* MinValidRootIdx: the revocation floor
  maxRoots,         \* MaxRoots
  pinned            \* input: the roots for which voting.root_pin is true

sbtVars == <<sbt, membershipOpen>>
leafVars == <<leafValue, nextLeafIndex, memberLeafIndex, commitmentUsed,
              lastRegistration>>
pendingVars == <<pending, thisLedger>>
rootVars == <<roots, rootIndex, nextRootIndex>>
floorVars == <<minValidRootIdx, maxRoots>>
treeVars == <<sbtVars, leafVars, pendingVars, rootVars, floorVars>>

Init ==
  /\ sbt = [m \in Members |-> "none"]
  /\ membershipOpen \in BOOLEAN
  /\ leafValue = EmptyTree
  /\ nextLeafIndex = 0
  /\ memberLeafIndex = [m \in Members |-> None]
  /\ commitmentUsed = {}
  /\ lastRegistration = {}
  /\ pending = [m \in Members |-> None]
  /\ thisLedger = {}
  /\ roots = <<>>
  /\ rootIndex = [r \in {} |-> 0]
  /\ nextRootIndex = 0
  /\ minValidRootIdx = 0
  /\ maxRoots = DefaultMaxRoots

-----------------------------------------------------------------------------
(* The root history *)

TreeInitialized == roots # <<>>
CurrentRoot == roots[Len(roots)]

\* root_ok: the linear scan of the retained window
RootOk(r) == \E i \in 1 .. Len(roots) : roots[i] = r

\* root_eligibility = 0: presence of RootIndex is the history test
RootEligible(r, earliest) ==
  /\ r \in DOMAIN rootIndex
  /\ rootIndex[r] >= earliest
  /\ rootIndex[r] >= minValidRootIdx

\* The RootIndex entries left once `evicted` roots lost theirs and t has index n
Reindexed(evicted, t, n) ==
  [r \in (DOMAIN rootIndex \ evicted) \cup {t} |->
     IF r = t THEN n ELSE rootIndex[r]]

\* Mutant: no voting contract is set, so nothing is asked
MayEvictAny(r) == TRUE

\* check_root_eviction_safety: the voting contract does not pin r
MayEvict(r) == r \notin pinned

\* The tail of insert_leaf and update_leaf: push the root, evict the oldest
\* one when the window is over the cap (the transaction panics if the voting
\* contract pins it), take the next index, and only then store RootIndex.
PublishRoot(t) ==
  LET pushed == Append(roots, t)
      over == Len(pushed) > maxRoots
  IN  /\ nextRootIndex < MaxPublished
      /\ over => MayEvict(Head(pushed))
      /\ roots' = IF over THEN Tail(pushed) ELSE pushed
      /\ rootIndex' = Reindexed(IF over THEN {Head(pushed)} ELSE {},
                                t, nextRootIndex)
      /\ nextRootIndex' = nextRootIndex + 1

-----------------------------------------------------------------------------
(* Soulbound tokens *)

HasSbt(m) == sbt[m] = "active"

\* mint, by the DAO admin; clears Revoked
Mint(m) ==
  /\ ~HasSbt(m)
  /\ sbt' = [sbt EXCEPT ![m] = "active"]
  /\ UNCHANGED <<membershipOpen, leafVars, pendingVars, rootVars, floorVars>>

\* self_join: a mint by the member while membership is open
SelfJoin(m) == membershipOpen /\ Mint(m)

\* revoke by the admin: the leaf stays in the tree
Revoke(m) ==
  /\ sbt[m] # "none"
  /\ sbt' = [sbt EXCEPT ![m] = "revoked"]
  /\ UNCHANGED <<membershipOpen, leafVars, pendingVars, rootVars, floorVars>>

\* leave: Revoke by the member; the election cooldown can only delay it
Leave(m) == Revoke(m)

SetMembershipOpen ==
  /\ membershipOpen' = ~membershipOpen
  /\ UNCHANGED <<sbt, leafVars, pendingVars, rootVars, floorVars>>

-----------------------------------------------------------------------------
(* Registration *)

\* init_tree: NextRootIndex starts at 0 although the empty root has index 0
InitTree ==
  /\ ~TreeInitialized
  /\ roots' = <<EmptyTree>>
  /\ rootIndex' = [r \in {EmptyTree} |-> 0]
  /\ UNCHANGED <<sbtVars, leafVars, pendingVars, nextRootIndex, floorVars>>

\* Mutant: the commitment is compared with the live leaves only
ReserveUnlessLive(c) ==
  /\ \A s \in Slots : leafValue[s] # c
  /\ commitmentUsed' = commitmentUsed \cup {c}

\* reserve_commitment: a commitment is used once in the life of the DAO
ReserveCommitment(c) ==
  /\ c \notin commitmentUsed
  /\ commitmentUsed' = commitmentUsed \cup {c}

\* Mutant: off by one
SlotFreeOrLast == nextLeafIndex <= Capacity

\* insert_leaf: the tree is not full
SlotFree == nextLeafIndex < Capacity

\* What the registration entry points do once their callers are checked
InsertCommitment(m, c) ==
  LET t == [leafValue EXCEPT ![nextLeafIndex] = c] IN
  /\ m \notin lastRegistration
  /\ ReserveCommitment(c)
  /\ memberLeafIndex[m] = None
  /\ SlotFree
  /\ leafValue' = t
  /\ PublishRoot(t)
  /\ nextLeafIndex' = nextLeafIndex + 1
  /\ memberLeafIndex' = [memberLeafIndex EXCEPT ![m] = nextLeafIndex]
  /\ lastRegistration' = lastRegistration \cup {m}
  /\ UNCHANGED floorVars

RegisterWithCaller(m, c) ==
  /\ HasSbt(m)
  /\ TreeInitialized
  /\ InsertCommitment(m, c)
  /\ UNCHANGED <<sbtVars, pendingVars>>

SelfRegister(m, c) == membershipOpen /\ RegisterWithCaller(m, c)

\* register_from_registry: the commitment of the founder takes slot 0
FounderTree(c) == [EmptyTree EXCEPT ![0] = c]

\* create_and_init_dao: mint_from_registry, init_tree_from_registry and
\* register_from_registry for the founder, in one transaction
CreateAndInitDao(m, c) ==
  LET t == FounderTree(c) IN
  /\ ~TreeInitialized
  /\ \A x \in Members : sbt[x] = "none"
  /\ maxRoots = DefaultMaxRoots
  /\ nextRootIndex < MaxPublished
  /\ sbt' = [sbt EXCEPT ![m] = "active"]
  /\ leafValue' = t
  /\ nextLeafIndex' = 1
  /\ memberLeafIndex' = [memberLeafIndex EXCEPT ![m] = 0]
  /\ commitmentUsed' = {c}
  /\ lastRegistration' = {m}
  /\ roots' = <<EmptyTree, t>>
  /\ rootIndex' = [r \in {EmptyTree, t} |-> 0]
  /\ nextRootIndex' = 1
  /\ UNCHANGED <<membershipOpen, pendingVars, floorVars>>

\* commit_registration.  CommitmentSaltHash is set and removed together with
\* PendingRegistration, so it is the set of hashes now pending.
CommitRegistration(m, h) ==
  /\ HasSbt(m)
  /\ TreeInitialized
  /\ pending[m] = None
  /\ \A x \in Members : pending[x] # h
  /\ pending' = [pending EXCEPT ![m] = h]
  /\ thisLedger' = thisLedger \cup {m}
  /\ UNCHANGED <<sbtVars, leafVars, rootVars, floorVars>>

\* reveal_registration, in a later ledger, then register_with_caller_internal
RevealRegistration(m, c, salt) ==
  /\ pending[m] = <<c, salt>>
  /\ m \notin thisLedger
  /\ pending' = [pending EXCEPT ![m] = None]
  /\ HasSbt(m)
  /\ InsertCommitment(m, c)
  /\ UNCHANGED <<sbtVars, thisLedger>>

CloseLedger ==
  /\ thisLedger # {}
  /\ thisLedger' = {}
  /\ UNCHANGED <<sbtVars, leafVars, pending, rootVars, floorVars>>

\* MIN_REGISTRATION_INTERVAL_SECS pass since m registered
CooldownElapses(m) ==
  /\ m \in lastRegistration
  /\ lastRegistration' = lastRegistration \ {m}
  /\ UNCHANGED <<sbtVars, leafValue, nextLeafIndex, memberLeafIndex,
                 commitmentUsed, pendingVars, rootVars, floorVars>>

-----------------------------------------------------------------------------
(* Removal and configuration, by the DAO admin *)

\* Mutant: the floor is the newest root of before the removal
FloorAtPreviousRoot == minValidRootIdx' = nextRootIndex - 1

\* Mutant: the floor is the root after the removal
FloorPastNewRoot == minValidRootIdx' = nextRootIndex + 1

\* The floor becomes the index of the root that the removal publishes
RaiseFloor == minValidRootIdx' = nextRootIndex

\* remove_member: zero the leaf, publish the root, raise the floor to its
\* index and revoke the token (sbt.revoke panics when there is no Member entry)
RemoveMember(m) ==
  LET s == memberLeafIndex[m]
      t == [leafValue EXCEPT ![s] = Zero]
  IN  /\ s # None
      /\ leafValue[s] # Zero
      /\ sbt[m] # "none"
      /\ leafValue' = t
      /\ PublishRoot(t)
      /\ RaiseFloor
      /\ sbt' = [sbt EXCEPT ![m] = "revoked"]
      /\ UNCHANGED <<membershipOpen, nextLeafIndex, memberLeafIndex,
                     commitmentUsed, lastRegistration, pendingVars, maxRoots>>

\* Mutant: a live leaf is not looked at
Registered(m) == memberLeafIndex[m] # None

\* m has a slot and its leaf was zeroed
Removed(m) ==
  /\ memberLeafIndex[m] # None
  /\ leafValue[memberLeafIndex[m]] = Zero

\* Delete MemberLeafIndex and LastRegistrationAt of m
ForgetMember(m) ==
  /\ memberLeafIndex' = [memberLeafIndex EXCEPT ![m] = None]
  /\ lastRegistration' = lastRegistration \ {m}

\* reinstate_member: only forgets the slot, so that m may register again
ReinstateMember(m) ==
  /\ Removed(m)
  /\ ForgetMember(m)
  /\ UNCHANGED <<sbtVars, leafValue, nextLeafIndex, commitmentUsed,
                 pendingVars, rootVars, floorVars>>

\* set_max_roots: the retained window is not trimmed
SetMaxRoots(n) ==
  /\ n # maxRoots
  /\ maxRoots' = n
  /\ UNCHANGED <<sbtVars, leafVars, pendingVars, rootVars, minValidRootIdx>>

-----------------------------------------------------------------------------
SbtNext ==
  \/ \E m \in Members : Mint(m)
  \/ \E m \in Members : SelfJoin(m)
  \/ \E m \in Members : Revoke(m)
  \/ \E m \in Members : Leave(m)
  \/ SetMembershipOpen

RegistrationNext ==
  \/ InitTree
  \/ \E m \in Members, c \in Commitments : CreateAndInitDao(m, c)
  \/ \E m \in Members, c \in Commitments : RegisterWithCaller(m, c)
  \/ \E m \in Members, c \in Commitments : SelfRegister(m, c)
  \/ \E m \in Members, h \in RegistrationHashes : CommitRegistration(m, h)
  \/ \E m \in Members, c \in Commitments, salt \in Salts :
       RevealRegistration(m, c, salt)
  \/ CloseLedger
  \/ \E m \in Members : CooldownElapses(m)

AdminNext ==
  \/ \E m \in Members : RemoveMember(m)
  \/ \E m \in Members : ReinstateMember(m)
  \/ \E n \in MaxRootsRange : SetMaxRoots(n)

TreeNext == SbtNext \/ RegistrationNext \/ AdminNext

(***************************************************************************)
(* `pinned` is an input: it may change at any step and in any way, so it   *)
(* is not among treeVars.                                                  *)
(***************************************************************************)
Spec == Init /\ [][TreeNext]_treeVars
-----------------------------------------------------------------------------
(* Properties *)

\* Every storage entry has its type.
TypeOK ==
  /\ sbt \in [Members -> {"none", "active", "revoked"}]
  /\ membershipOpen \in BOOLEAN
  /\ leafValue \in Trees
  /\ nextLeafIndex \in 0 .. Capacity
  /\ memberLeafIndex \in [Members -> Slots \cup {None}]
  /\ commitmentUsed \subseteq Commitments
  /\ lastRegistration \subseteq Members
  /\ pending \in [Members -> RegistrationHashes \cup {None}]
  /\ thisLedger \subseteq Members
  /\ roots \in Seq(Trees)
  /\ DOMAIN rootIndex \subseteq Trees
  /\ rootIndex \in [DOMAIN rootIndex -> Nat]
  /\ nextRootIndex \in Nat
  /\ minValidRootIdx \in Nat
  /\ maxRoots \in MaxRootsRange

\* Revocation is effective: a root that passes root_eligibility holds no leaf
\* that the current tree has not, so no commitment zeroed by remove_member can
\* be proved against it, however old the root or often it was republished.
EligibleRootsAreCurrent ==
  \A r \in DOMAIN rootIndex : RootEligible(r, 0) =>
    \A s \in Slots : r[s] \in {Zero, leafValue[s]}

\* No orphan leaf: every live leaf is the registered leaf of exactly one
\* member, so the admin can remove it; reinstate_member never frees a member
\* whose leaf is still live.
LiveLeafHasOneOwner ==
  \A s \in Slots : leafValue[s] # Zero =>
    \E m \in Members : /\ memberLeafIndex[m] = s
                       /\ \A x \in Members \ {m} : memberLeafIndex[x] # s

\* A commitment sits in at most one slot, and in the same slot of every root
\* that is still indexed: reserve_commitment never lets one come back, even
\* after its leaf was zeroed.
CommitmentKeepsItsSlot ==
  \A r \in DOMAIN rootIndex, s, u \in Slots :
    /\ r[s] # Zero => r[s] \in commitmentUsed
    /\ (r[s] # Zero /\ r[s] = leafValue[u]) => s = u

\* curr_idx never panics: the newest root always has a RootIndex entry, also
\* when it equals the root its own publication evicted.
CurrentRootIndexed == TreeInitialized => CurrentRoot \in DOMAIN rootIndex

\* A root found through RootIndex is in the retained window, and its index is
\* one that was given out.
IndexedRootsRetained ==
  \A r \in DOMAIN rootIndex :
    /\ RootOk(r)
    /\ rootIndex[r] < nextRootIndex \/ (r = EmptyTree /\ rootIndex[r] = 0)

\* The newest root is never below the revocation floor: a removal leaves the
\* remaining members a root to prove against.
CurrentRootEligible ==
  TreeInitialized => RootEligible(CurrentRoot, 0)

\* The revocation floor only rises and an entry of RootIndex only rises while
\* it exists, so no step makes an index that was too old acceptable again.
FloorAndIndicesRise ==
  [][/\ minValidRootIdx' >= minValidRootIdx
     /\ \A r \in DOMAIN rootIndex \cap DOMAIN rootIndex' :
          rootIndex'[r] >= rootIndex[r]]_treeVars

\* The cooldown is subsumed: a member inside it still holds a slot, because
\* reinstate_member forgets LastRegistrationAt together with MemberLeafIndex.
CooldownCoversRegistered ==
  \A m \in lastRegistration : memberLeafIndex[m] # None

=============================================================================
