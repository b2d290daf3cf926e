------------------------- MODULE MCRuntimeLiveness -------------------------
(* Small instances of RuntimeLiveness for TLC. *)
EXTENDS RuntimeLiveness, TLC

Symmetry == Permutations(Replicas)
=============================================================================
