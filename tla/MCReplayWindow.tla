--------------------------- MODULE MCReplayWindow ---------------------------
(* A window of two short words, checked over every arrival order. *)
EXTENDS ReplayWindow
==============================================================================
