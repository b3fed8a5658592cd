---------------------------- MODULE EventArchive ----------------------------
(***************************************************************************)
(* What the indexer promises the readers of its tables, without cycles,    *)
(* windows, pages or failures: rows of events that were published, none of *)
(* them ever taken back, and a watermark that only moves up, to a ledger   *)
(* up to which nothing is missing but what the source denied to have.      *)
(***************************************************************************)
EXTENDS Naturals

VARIABLES
  tip,       \* the last ledger that closed
  published, \* the rows its events call for, each a tuple that starts with a ledger
  denied,    \* the rows the source answered "not found" for
  archived,  \* the rows that are stored
  watermark  \* the ledger up to which they are complete

archiveVars == <<tip, published, denied, archived, watermark>>

Init ==
  /\ tip = 0
  /\ published = {}
  /\ denied = {}
  /\ archived = {}
  /\ watermark = 0

Publish ==
  /\ tip' = tip + 1
  /\ published \subseteq published'
  /\ \A row \in published' \ published : row[1] = tip'
  /\ UNCHANGED <<denied, archived, watermark>>

\* Rows are stored; above the watermark the source may deny some,
\* or take that back.
Archive ==
  /\ archived \subseteq archived' /\ archived' \subseteq published
  /\ \A row \in (denied \ denied') \cup (denied' \ denied) : row[1] > watermark
  /\ UNCHANGED <<tip, published, watermark>>

MoveUp ==
  /\ watermark' > watermark /\ watermark' <= tip
  /\ \A row \in published : row[1] <= watermark' => row \in archived \cup denied
  /\ UNCHANGED <<tip, published, denied, archived>>

Next == Publish \/ Archive \/ MoveUp

Spec == Init /\ [][Next]_archiveVars
=============================================================================
