-------------------------- MODULE MCUdsDispatcher --------------------------
(* Small instances of UdsDispatcher for TLC. *)
EXTENDS UdsDispatcher
=============================================================================
