--------------------------- MODULE MCDoipExchange ---------------------------
(* Small instances of DoipExchange for TLC. *)
EXTENDS DoipExchange

MCVin == [i \in 1 .. 17 |-> 64 + i]
OtherVin == [i \in 1 .. 17 |-> 48]
MCEid == <<184, 39, 235, 1, 2, 3>>

(* Trouble codes: too short, one group, all groups, masks that select      *)
(* both, one or none, another report; the VIN read and written; the rest.  *)
MCRequest == { <<>>, <<62, 128>>,
               <<20, 255>>, <<20, 1, 226, 64>>, <<20, 255, 255, 255>>,
               <<25>>, <<25, 1>>, <<25, 2>>, <<25, 2, 4>>, <<25, 2, 1>>, <<25, 2, 16>>,
               <<34, 241, 144>>, <<34, 241, 134>>, <<46>>, <<46, 241, 144, 48>>, <<46, 241, 144>> \o OtherVin }
=============================================================================
