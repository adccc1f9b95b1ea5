----------------------------- MODULE DoipRelay -----------------------------
(***************************************************************************)
(* Vehicle identification through the development relay                    *)
(* (scripts/doip-udp-relay.py): testers broadcast, the relay forwards one  *)
(* datagram at a time to the UDP task of the ECU (run_udp_server) and      *)
(* waits up to two seconds.  A datagram is its identity, and an answer the *)
(* identity of the request it answers: the bytes of all announcements are  *)
(* the same (DoipExchange).                                                *)
(***************************************************************************)
EXTENDS Naturals, FiniteSets

CONSTANTS Datagram, \* what may arrive at the relay
          Ident,    \* the identification requests among them
          Ignored,  \* those whose source is ecu_ip or 127.0.0.1
          Echo,     \* a reply of the relay that comes back to its own port
          Nobody

ASSUME RelayAssumption == /\ Ident \subseteq Datagram
                          /\ Ignored \subseteq Datagram
                          /\ Echo \in Ignored
                          /\ Nobody \notin Datagram

VARIABLES
  asked,  \* datagrams that testers sent
  rx,     \* in the sockets rx and tx; both are read, in no particular order
  phase,  \* "select", "wait" for the ECU, or "ended" by an exception
  asker,  \* the datagram the relay waits for
  toEcu, transit, inbox, \* requests on the way to the ECU, its answers on
                         \* the way back, and in the socket fwd
  udp,    \* the UDP task of the ECU: "up", or "down" after an error
  reply,  \* for each datagram the request whose answer was sent to its sender
  gaveUp  \* datagrams whose wait timed out

ecuVars == <<toEcu, transit, udp>>
vars == <<asked, rx, phase, asker, inbox, ecuVars, reply, gaveUp>>

TypeOK == /\ asked \subseteq Datagram \ {Echo}
          /\ rx \subseteq Datagram
          /\ phase \in {"select", "wait", "ended"}
          /\ asker \in (Datagram \ Ignored) \cup {Nobody}
          /\ toEcu \subseteq Datagram
          /\ transit \subseteq Ident /\ inbox \subseteq Ident
          /\ udp \in {"up", "down"}
          /\ reply \in [Datagram -> Ident \cup {Nobody}]
          /\ gaveUp \subseteq Datagram

Init == /\ asked = {} /\ rx = {}
        /\ phase = "select" /\ asker = Nobody
        /\ toEcu = {} /\ transit = {} /\ inbox = {}
        /\ udp = "up"
        /\ reply = [d \in Datagram |-> Nobody]
        /\ gaveUp = {}

-----------------------------------------------------------------------------
(* Testers and the network.  UDP may lose what is not yet in fwd.          *)

Ask(d) == /\ d \notin asked \cup {Echo}
          /\ asked' = asked \cup {d}
          /\ rx' = rx \cup {d}
          /\ UNCHANGED <<phase, asker, inbox, ecuVars, reply, gaveUp>>

Arrive(a) == /\ a \in transit
             /\ transit' = transit \ {a}
             /\ inbox' = inbox \cup {a}
             /\ UNCHANGED <<asked, rx, phase, asker, toEcu, udp, reply, gaveUp>>

Lose(d) == /\ d \in rx \cup toEcu \cup transit
           /\ rx' = rx \ {d}
           /\ toEcu' = toEcu \ {d}
           /\ transit' = transit \ {d}
           /\ UNCHANGED <<asked, phase, asker, inbox, udp, reply, gaveUp>>

-----------------------------------------------------------------------------
(* run_udp_server                                                          *)

(* Only identification requests are answered.                              *)
EcuServes(d) == /\ udp = "up"
                /\ d \in toEcu
                /\ toEcu' = toEcu \ {d}
                /\ transit' = transit \cup ({d} \cap Ident)
                /\ UNCHANGED <<asked, rx, phase, asker, inbox, udp, reply, gaveUp>>

(* An error of recv_from ends the task; the TCP server goes on.            *)
EcuFails == /\ udp = "up"
            /\ udp' = "down"
            /\ UNCHANGED <<asked, rx, phase, asker, inbox, toEcu, transit, reply, gaveUp>>

(* A reset of the ECU.                                                     *)
EcuRestarts == /\ udp' = "up"
               /\ toEcu' = {}
               /\ UNCHANGED <<asked, rx, phase, asker, inbox, transit, reply, gaveUp>>

-----------------------------------------------------------------------------
(* The relay.  A failing sendto is not caught and ends it.                 *)

Forward(d) ==
  /\ rx' = rx \ {d}
  /\ \/ phase' = "wait" /\ asker' = d /\ toEcu' = toEcu \cup {d}
     \/ phase' = "ended" /\ asker' = Nobody /\ UNCHANGED toEcu
  /\ UNCHANGED <<asked, inbox, transit, udp, reply, gaveUp>>

(* Fault: the relay forwards its own replies.                              *)
ReceiveFromAnyone(d) == phase = "select" /\ d \in rx /\ Forward(d)

(* Fault: a datagram is forwarded while another one is waited for.         *)
ReceiveEagerly(d) == phase # "ended" /\ d \in rx \ Ignored /\ Forward(d)

Receive(d) == phase = "select" /\ d \in rx \ Ignored /\ Forward(d)

Ignore(d) == /\ phase = "select" /\ d \in rx \cap Ignored
             /\ rx' = rx \ {d}
             /\ UNCHANGED <<asked, phase, asker, inbox, ecuVars, reply, gaveUp>>

(* Fault: the answer is sent to whoever asked last.                        *)
RespondToAnother(a) ==
  /\ phase = "wait" /\ a \in inbox
  /\ inbox' = inbox \ {a}
  /\ \E d \in asked \ Ignored : reply[d] = Nobody /\ reply' = [reply EXCEPT ![d] = a]
  /\ phase' = "select" /\ asker' = Nobody
  /\ UNCHANGED <<rx, asked, ecuVars, gaveUp>>

(* Fault: the answer stays in the socket.                                  *)
RespondByPeeking(a) ==
  /\ phase = "wait" /\ a \in inbox
  /\ reply' = [reply EXCEPT ![asker] = a]
  /\ phase' = "select" /\ asker' = Nobody
  /\ UNCHANGED <<rx, asked, inbox, ecuVars, gaveUp>>

(* The first answer in fwd, whatever it answers.  The reply may reach the  *)
(* relay itself, which shares the port.                                    *)
Respond(a) ==
  /\ phase = "wait" /\ a \in inbox
  /\ inbox' = inbox \ {a}
  /\ \/ /\ reply' = [reply EXCEPT ![asker] = a]
        /\ rx' \in {rx, rx \cup {Echo}}
        /\ phase' = "select"
     \/ phase' = "ended" /\ UNCHANGED <<reply, rx>>
  /\ asker' = Nobody
  /\ UNCHANGED <<asked, ecuVars, gaveUp>>

(* Fault: the two seconds are given to select and not to recvfrom.         *)
TimeoutOfSelect == phase = "select" /\ UNCHANGED vars

(* socket.timeout: only if nothing is there to be received.                *)
Timeout == /\ phase = "wait" /\ inbox = {}
           /\ gaveUp' = gaveUp \cup {asker}
           /\ phase' = "select" /\ asker' = Nobody
           /\ UNCHANGED <<asked, rx, inbox, ecuVars, reply>>

Relay == Timeout \/ \E d \in Datagram : Receive(d) \/ Ignore(d) \/ Respond(d)

Next == \/ Relay
        \/ EcuFails \/ EcuRestarts
        \/ \E d \in Datagram : Ask(d) \/ Arrive(d) \/ Lose(d) \/ EcuServes(d)

Spec == Init /\ [][Next]_vars

(* The relay is scheduled, and its two seconds pass.                       *)
FairSpec == Spec /\ WF_vars(Relay)

-----------------------------------------------------------------------------
(* Properties.                                                             *)

(* The relay and the ECU together implement Identification: no tester gets *)
(* two announcements for one datagram, none is passed on twice, and none   *)
(* that nobody asked for.                                                  *)
Service == INSTANCE Identification
             WITH Datagram <- Datagram, Ident <- Ident, Nobody <- Nobody,
                  asked <- asked, reply <- reply
IdentificationSpec == Service!Spec

(* As long as no wait has timed out, every reply is the answer to the      *)
(* datagram of the sender it goes to.                                      *)
OwnAnswer == gaveUp = {} => \A d \in Datagram : reply[d] \in {d, Nobody}

(* There are never more late answers and late requests than waits that     *)
(* have timed out: only a timeout can add one.                             *)
Outstanding == toEcu \cup transit \cup inbox
Backlog == Cardinality(Outstanding \ {asker}) <= Cardinality(gaveUp)

(* A datagram does not stay in the sockets of the relay for ever, whatever *)
(* the ECU does with those before it, and one that was passed on is        *)
(* answered or reported as unanswered, unless an exception ends the relay. *)
Settles ==
  \A d \in Datagram \ Ignored :
    /\ d \in rx ~> (d \notin rx \/ phase = "ended")
    /\ asker = d ~> (reply[d] # Nobody \/ d \in gaveUp \/ phase = "ended")

(* The inductive invariant: where a datagram can be at a time, and which   *)
(* requests can still be answered.                                         *)
Used == {reply[d] : d \in Datagram} \ {Nobody}
Places ==
  /\ phase = "wait" <=> asker # Nobody
  /\ rx \subseteq asked \cup {Echo}
  /\ Outstanding \subseteq asked \ Ignored
  /\ Used \subseteq asked
  /\ asker \in asked \cup {Nobody}
  /\ asker \notin rx
  /\ rx \cap (Outstanding \cup Used) = {}
  /\ Outstanding \cap Used = {}
  /\ toEcu \cap transit = {} /\ toEcu \cap inbox = {} /\ transit \cap inbox = {}
  /\ gaveUp \subseteq asked \ (rx \cup {asker})
  /\ \A d \in Datagram : reply[d] # Nobody => d \in asked \ (rx \cup {asker})
Bounded == IsFiniteSet(Outstanding) /\ IsFiniteSet(gaveUp)

IndInv == TypeOK /\ Places /\ Bounded /\ OwnAnswer /\ Backlog
=============================================================================
