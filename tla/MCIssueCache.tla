---------------------------- MODULE MCIssueCache ----------------------------
(* Small instances of IssueCache for TLC. *)
EXTENDS IssueCache, TLC

CONSTANTS todo, done
MCColumns == <<todo, done>>
Symmetry  == Permutations(Muts)
=============================================================================
