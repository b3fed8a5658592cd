-------------------------- MODULE MCVoteSubmission --------------------------
(* One ballot, sent up to three times under one key. *)
EXTENDS VoteSubmission
=============================================================================
