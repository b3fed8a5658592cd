---------------------------- MODULE MCMerkleTree ----------------------------
(* MerkleTree with eight slots; two leaves are enough to tell slots apart. *)
EXTENDS MerkleTree, TLC

Symmetry == Permutations(Commitments)
=============================================================================
