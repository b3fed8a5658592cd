---------------------------- MODULE SequenceLock ----------------------------
(***************************************************************************)
(* What withSequenceLock promises its callers, without processes, messages *)
(* or a holder: one call at a time runs its function; a call runs it once  *)
(* at most, and never after it was told that the lock could not be had.    *)
(***************************************************************************)

CONSTANT Call

VARIABLES
  waiting, \* calls that were made and did not run yet
  running, \* calls inside their function
  over     \* calls that ended, failed, or died with their process

lockVars == <<waiting, running, over>>

Init == waiting = {} /\ running = {} /\ over = {}

Ask(c) ==
  /\ c \notin waiting \cup running \cup over
  /\ waiting' = waiting \cup {c}
  /\ UNCHANGED <<running, over>>

Enter(c) ==
  /\ c \in waiting
  /\ running = {}
  /\ waiting' = waiting \ {c}
  /\ running' = {c}
  /\ UNCHANGED over

\* One call ends or gives up, or a process ends with all of its calls.
End(C) ==
  /\ C # {} /\ C \subseteq waiting \cup running
  /\ waiting' = waiting \ C
  /\ running' = running \ C
  /\ over' = over \cup C

Next ==
  \/ \E c \in Call : Ask(c) \/ Enter(c)
  \/ \E C \in SUBSET Call : End(C)

Spec == Init /\ [][Next]_lockVars
=============================================================================
