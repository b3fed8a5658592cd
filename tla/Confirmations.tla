---------------------------- MODULE Confirmations ----------------------------
(***************************************************************************)
(* What waitForTransaction promises its callers, without a queue, a worker *)
(* or polls: callers of one transaction are answered together, by the one  *)
(* outcome that later callers are given until it is forgotten.             *)
(***************************************************************************)

CONSTANTS
  Hash,   \* transaction hashes
  Caller  \* callers of waitForTransaction

VARIABLES
  awaited, \* which caller waits for which hash, as a set of pairs
  known    \* the hashes whose outcome is remembered

confirmationVars == <<awaited, known>>

Init == awaited = {} /\ known = {}

Waits(c) == \E h \in Hash : <<c, h>> \in awaited

\* A caller starts to wait, for what is not (or no longer) remembered.
Await(c, h) ==
  /\ ~Waits(c)
  /\ awaited' = awaited \cup {<<c, h>>}
  /\ known' \subseteq known \ {h}

\* A caller's own time is up.
GiveUp(c) ==
  /\ Waits(c)
  /\ awaited' = awaited \ ({c} \X Hash)
  /\ UNCHANGED known

\* The outcomes of some transactions are found: everybody who waits for one is
\* told, and no outcome is found while another is remembered.
Answer(hs) ==
  /\ hs # {} /\ hs \cap known = {}
  /\ awaited' = awaited \ (Caller \X hs)
  /\ known' = known \cup hs

Forget ==
  /\ known' \subseteq known
  /\ UNCHANGED awaited

Next ==
  \/ \E c \in Caller, h \in Hash : Await(c, h)
  \/ \E c \in Caller : GiveUp(c)
  \/ \E hs \in SUBSET Hash : Answer(hs)
  \/ Forget

Spec == Init /\ [][Next]_confirmationVars
=============================================================================
