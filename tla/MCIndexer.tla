----------------------------- MODULE MCIndexer -----------------------------
(* Two contracts, windows of two ledgers, pages of one event. *)
EXTENDS Indexer
=============================================================================
