--------------------------- MODULE MCRaftDeployed ---------------------------
(* An instance of RaftDeployed for TLC. *)
EXTENDS RaftDeployed, TLC

CONSTANTS n1, n2, n3, v1

Symmetry == Permutations(Server)
=============================================================================
