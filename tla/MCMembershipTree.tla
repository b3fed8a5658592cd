-------------------------- MODULE MCMembershipTree --------------------------
(***************************************************************************)
(* MembershipTree on a small instance, closed with a voting contract that  *)
(* pins and releases any set of retained roots between two transactions.   *)
(***************************************************************************)
EXTENDS MembershipTree, TLC

\* The voting contract answers root_pin for one retained root, or for none.
VotingPins ==
  /\ pinned' \in {{}} \cup {{roots[i]} : i \in 1 .. Len(roots)}
  /\ pinned' # pinned
  /\ UNCHANGED treeVars

MCInit == Init /\ pinned = {}
MCNext == (TreeNext /\ UNCHANGED pinned) \/ VotingPins
MCSpec == MCInit /\ [][MCNext]_<<treeVars, pinned>>

Symmetry == Permutations(Members) \cup Permutations(Commitments)
=============================================================================
