------------------------------ MODULE MCVoting ------------------------------
(***************************************************************************)
(* Voting on a small instance.  Two secrets make three commitments: with   *)
(* another salt the first secret has a second one.                         *)
(***************************************************************************)
EXTENDS Voting, TLC

CONSTANTS m1, m2, s1, s2, c1, c2, c3

MCMembers == {m1, m2}
MCSecrets == {s1, s2}
MCCommitments == {c1, c2, c3}
MCSecretOf == c1 :> s1 @@ c2 :> s2 @@ c3 :> s1

\* c1 and c3 come from the same secret
Symmetry == Permutations(MCMembers) \cup Permutations({c1, c3})

\* Explore no further once an orthogonal switch is thrown: the round is paused,
\* closed or past its end, or anybody may join.  The other runs explore these.
Focused ==
  /\ ~paused
  /\ ~membershipOpen
  /\ \A p \in DOMAIN proposals :
       Active(p) /\ proposals[p].deadline = "none"

\* Nobody joins by itself
InvitedOnly == ~membershipOpen
=============================================================================
