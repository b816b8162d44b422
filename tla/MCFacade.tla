------------------------------ MODULE MCFacade ------------------------------
(* Small instances of Facade for TLC. *)
EXTENDS Facade
==============================================================================
