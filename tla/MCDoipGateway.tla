--------------------------- MODULE MCDoipGateway ---------------------------
(* Small instances of DoipGateway for TLC. *)
EXTENDS DoipGateway
=============================================================================
