--------------------------- MODULE Identification ---------------------------
(***************************************************************************)
(* What a tester may expect of vehicle identification behind the relay:    *)
(* each datagram gets one announcement at most, each announcement was      *)
(* asked for by some identification request, and none is used twice.  It   *)
(* need not be the answer to one's own request, since all look the same.   *)
(***************************************************************************)
CONSTANTS Datagram, \* datagrams of testers
          Ident,    \* those that are identification requests
          Nobody

VARIABLES asked, \* datagrams that were sent
          reply  \* for each datagram the request whose answer it got

Init == /\ asked = {}
        /\ reply = [d \in Datagram |-> Nobody]

Ask(d) == /\ d \notin asked
          /\ asked' = asked \cup {d}
          /\ UNCHANGED reply

Announce(d, a) == /\ d \in asked /\ reply[d] = Nobody
                  /\ a \in asked \cap Ident
                  /\ \A e \in Datagram : reply[e] # a
                  /\ reply' = [reply EXCEPT ![d] = a]
                  /\ UNCHANGED asked

Next == \E d \in Datagram : Ask(d) \/ \E a \in Datagram : Announce(d, a)

Spec == Init /\ [][Next]_<<asked, reply>>
=============================================================================
