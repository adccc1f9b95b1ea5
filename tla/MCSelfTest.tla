----------------------------- MODULE MCSelfTest -----------------------------
(* Small instances of SelfTest for TLC. *)
EXTENDS SelfTest
=============================================================================
