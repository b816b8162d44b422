------------------------ MODULE MCCredentialRefresh ------------------------
(* Small instances of CredentialRefresh for TLC. *)
EXTENDS CredentialRefresh
==============================================================================
