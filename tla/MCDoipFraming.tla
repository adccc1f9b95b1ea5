--------------------------- MODULE MCDoipFraming ---------------------------
(* Small instances of DoipFraming for TLC. *)
EXTENDS DoipFraming
=============================================================================
