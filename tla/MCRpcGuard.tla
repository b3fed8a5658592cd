----------------------------- MODULE MCRpcGuard -----------------------------
(* One slot, two places in the queue, four calls. *)
EXTENDS RpcGuard
=============================================================================
