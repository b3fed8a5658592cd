------------------------------ MODULE Election ------------------------------
(***************************************************************************)
(* What a voting round promises, without Merkle roots: a ballot is cast by *)
(* a commitment that is live in the membership now and that belongs to the *)
(* electorate of the proposal; a secret casts at most one; the tally moves *)
(* only while the proposal is open, one per ballot; phases only go forward.*)
(***************************************************************************)
EXTENDS Integers, FiniteSets

\* Constants of Voting, with its assumptions
CONSTANTS Pids, Commitments, Secrets, SecretOf

VARIABLES
  phase,      \* absent, registration, open, ended (past its end time), ...
  electorate, \* the commitments that may vote on a proposal
  voted,      \* the secrets that have
  yes, no,    \* the tally
  live        \* input: the commitments that are leaves of the tree now

electionVars == <<phase, electorate, voted, yes, no>>

Init ==
  /\ phase = [p \in Pids |-> "absent"]
  /\ electorate = [p \in Pids |-> {}]
  /\ voted = [p \in Pids |-> {}]
  /\ yes = [p \in Pids |-> 0]
  /\ no = [p \in Pids |-> 0]

Move(p, from, to) ==
  /\ phase[p] \in from
  /\ phase' = [phase EXCEPT ![p] = to]

\* A proposal appears with the electorate it will keep once it is open.
Create(p, E) ==
  /\ \E to \in {"registration", "open"} : Move(p, {"absent"}, to)
  /\ electorate' = [electorate EXCEPT ![p] = E]
  /\ UNCHANGED <<voted, yes, no>>

\* The electorate can change only before voting starts.
ChangeElectorate(p, E) ==
  /\ phase[p] = "registration"
  /\ electorate' = [electorate EXCEPT ![p] = E]
  /\ UNCHANGED <<phase, voted, yes, no>>

Advance(p) ==
  /\ \/ Move(p, {"registration"}, "open")
     \/ Move(p, {"registration"}, "ended")
     \/ Move(p, {"open"}, "ended")
     \/ Move(p, {"open", "ended"}, "closed")
     \/ Move(p, {"closed"}, "archived")
  /\ UNCHANGED <<electorate, voted, yes, no>>

\* One or several ballots, each of a secret that has not voted.
Cast(p) ==
  /\ phase[p] = "open"
  /\ \E S \in (SUBSET Secrets) \ {{}}, y \in 0 .. Cardinality(Secrets) :
       /\ S \cap voted[p] = {}
       /\ \A x \in S : \E c \in electorate[p] \cap live : SecretOf[c] = x
       /\ y <= Cardinality(S)
       /\ voted' = [voted EXCEPT ![p] = @ \cup S]
       /\ yes' = [yes EXCEPT ![p] = @ + y]
       /\ no' = [no EXCEPT ![p] = @ + Cardinality(S) - y]
  /\ UNCHANGED <<phase, electorate>>

Next == \E p \in Pids :
  \/ \E E \in SUBSET Commitments : Create(p, E) \/ ChangeElectorate(p, E)
  \/ Advance(p)
  \/ Cast(p)

Spec == Init /\ [][Next]_electionVars
=============================================================================
