------------------------ MODULE MCControlConnection ------------------------
(* Small instances of ControlConnection for TLC. *)
EXTENDS ControlConnection
==============================================================================
