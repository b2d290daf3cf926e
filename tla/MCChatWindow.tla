---------------------------- MODULE MCChatWindow ----------------------------
(* Small instances of ChatWindow for TLC. *)
EXTENDS ChatWindow

=============================================================================
