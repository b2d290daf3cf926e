---------------------------- MODULE MCEmptyClaim ----------------------------
(* Small instances of EmptyClaim for TLC. *)
EXTENDS EmptyClaim, TLC

Symmetry == Permutations(Rows) \cup Permutations(Claimers)
=============================================================================
