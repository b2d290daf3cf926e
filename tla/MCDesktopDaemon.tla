-------------------------- MODULE MCDesktopDaemon --------------------------
(* Small instances of DesktopDaemon for TLC. *)
EXTENDS DesktopDaemon, TLC

Symmetry == Permutations(Users)
=============================================================================
