--------------------------- MODULE MCVoiceSession ---------------------------
(* Small instances of VoiceSession for TLC. *)
EXTENDS VoiceSession

\* The two kinds of stop request that take different paths.
Orderly == {"Close"}
BothStops == {"Close", "Revoke"}
==============================================================================
