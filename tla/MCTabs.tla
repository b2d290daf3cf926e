------------------------------- MODULE MCTabs -------------------------------
(* Small instances of Tabs for TLC. *)
EXTENDS Tabs

Symmetry == Permutations(Slugs)
=============================================================================
