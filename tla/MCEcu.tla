-------------------------------- MODULE MCEcu --------------------------------
(* Small instances of Ecu for TLC. *)
EXTENDS Ecu
=============================================================================
