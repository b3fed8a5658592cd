----------------------------- MODULE MCCluster -----------------------------
(* Cluster with small bounds: two workers, one replacement, two requests. *)
EXTENDS Cluster
=============================================================================
