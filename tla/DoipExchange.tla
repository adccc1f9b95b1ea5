---------------------------- MODULE DoipExchange ----------------------------
(***************************************************************************)
(* The bytes one tester gets from the application image: routing           *)
(* activation, diagnostic messages and alive checks on a TCP connection,   *)
(* vehicle identification over UDP, and the data behind the services that  *)
(* the application answers itself (trouble codes, VIN).  DoipFraming has   *)
(* cut the incoming stream into frames; DoipGateway has the tasks between  *)
(* a request and its answer, which are one step here.                      *)
(*                                                                         *)
(* Two histories of the connection are kept side by side: the bytes that   *)
(* were written, and what was meant by them.                               *)
(***************************************************************************)
EXTENDS DoipMessages

CONSTANTS Tester,     \* logical addresses of testers
          Elsewhere,  \* a target address that is not this ECU's
          Request,    \* UDS requests (user data of diagnostic messages)
          Vin,        \* the VIN the image is built with
          Eid,        \* MAC address of the interface
          None,       \* no activation
          MaxReplies  \* bound: messages written on one connection

ECU_ADDRESS == 4096
BROADCAST == 65535
GID == <<0, 0, 0, 0, 0, 0>>
Address == 0 .. BROADCAST
Byte == 0 .. 255

ASSUME ExchangeAssumption == /\ Tester \subseteq Address
                             /\ Elsewhere \in Address \ {ECU_ADDRESS, BROADCAST}
                             /\ Request \subseteq Seq(Byte)
                             /\ Vin \in Seq(Byte) /\ Len(Vin) = 17
                             /\ Eid \in Seq(Byte) /\ Len(Eid) = 6
                             /\ None \notin Address
                             /\ MaxReplies \in Nat

VARIABLES
  tester,    \* ConnectionState: None, or the activated address
  pc,        \* "open", or "waiting" for the answer to a request
  request,   \* user data of that request
  stream,    \* history: the bytes written since the connection was accepted
  meant,     \* history: the messages they stand for
  vin,       \* SharedState.vin
  dtcs,      \* SharedState.dtcs
  announced  \* the last datagram written in answer to an identification

connVars == <<tester, pc, request, stream, meant>>
dataVars == <<vin, dtcs>>
vars == <<connVars, dataVars, announced>>

(* The two hardcoded trouble codes.                                        *)
FirstDtcs == << [code |-> <<1, 226, 64>>, status |-> 47],
                [code |-> <<3, 148, 71>>, status |-> 36] >>

Kinds == {"activation", "ack", "nack", "answer", "alive"}
Message == [kind : Kinds, from : Address, to : Address, body : Seq(Byte)]

TypeOK == /\ tester \in Address \cup {None}
          /\ pc \in {"open", "waiting"}
          /\ request \in Seq(Byte)
          /\ stream \in Seq(Nat)
          /\ meant \in Seq(Message)
          /\ vin \in Seq(Byte) /\ Len(vin) = 17
          /\ dtcs \in {FirstDtcs, <<>>}
          /\ announced \in Seq(Nat)

Init == /\ tester = None
        /\ pc = "open"
        /\ request = <<>>
        /\ stream = <<>>
        /\ meant = <<>>
        /\ vin = Vin
        /\ dtcs = FirstDtcs
        /\ announced = <<>>

-----------------------------------------------------------------------------
(* Writing.                                                                *)

Encode(m) ==
  CASE m.kind = "activation" -> EncodeActivation(m.to, m.from, m.body[1])
    [] m.kind = "ack"        -> EncodeAck(m.from, m.to, m.body[1])
    [] m.kind = "nack"       -> EncodeNack(m.from, m.to, m.body[1])
    [] m.kind = "answer"     -> EncodeDiagnostic(m.from, m.to, m.body)
    [] m.kind = "alive"      -> EncodeAlive(m.from)

Reply(kind, to, body) == [kind |-> kind, from |-> ECU_ADDRESS, to |-> to, body |-> body]

Write(m) == /\ stream' = stream \o Encode(m)
            /\ meant' = Append(meant, m)

(* The connection is closed; the next one starts afresh.                   *)
Drop == /\ tester' = None
        /\ pc' = "open"
        /\ request' = <<>>
        /\ stream' = <<>>
        /\ meant' = <<>>

Room(n) == Len(meant) + n <= MaxReplies

-----------------------------------------------------------------------------
(* A frame of the tester.  Unsupported types, and diagnostic messages      *)
(* before the activation, change nothing and are left out.                 *)

(* Fault: a connection that is active already keeps its address.           *)
ActivateOnce(payload) ==
  /\ pc = "open" /\ Room(1)
  /\ IsRoutingActivation(payload)
  /\ tester' = IF tester = None THEN SourceOf(payload) ELSE tester
  /\ Write(Reply("activation", SourceOf(payload), <<16, 0, 0, 0, 0>>))
  /\ UNCHANGED <<pc, request, dataVars, announced>>

(* handle_routing_activation: any source address, any number of times.     *)
Activate(payload) ==
  /\ pc = "open" /\ Room(1)
  /\ IsRoutingActivation(payload)
  /\ tester' = SourceOf(payload)
  /\ Write(Reply("activation", SourceOf(payload), <<16, 0, 0, 0, 0>>))
  /\ UNCHANGED <<pc, request, dataVars, announced>>

Alive == /\ pc = "open" /\ Room(1)
         /\ Write(Reply("alive", 0, <<>>))
         /\ UNCHANGED <<tester, pc, request, dataVars, announced>>

(* Fault: the activation is looked at when the answer is sent only.        *)
DiagnoseAnyTime(payload) ==
  /\ pc = "open" /\ Room(2)
  /\ IsDiagnosticMessage(payload)
  /\ IF TargetOf(payload) \in {ECU_ADDRESS, BROADCAST}
       THEN /\ Write(Reply("ack", SourceOf(payload), <<0>>))
            /\ pc' = IF tester = None THEN "open" ELSE "waiting"
            /\ request' = IF tester = None THEN <<>> ELSE UserDataOf(payload)
       ELSE /\ Write(Reply("nack", SourceOf(payload), <<3>>))
            /\ UNCHANGED <<pc, request>>
  /\ UNCHANGED <<tester, dataVars, announced>>

(* handle_diagnostic_message: nack for another target, ack and hand over   *)
(* for this one.  The source is not compared with the activation.          *)
Diagnose(payload) ==
  /\ pc = "open" /\ Room(2)
  /\ tester # None
  /\ IsDiagnosticMessage(payload)
  /\ IF TargetOf(payload) \in {ECU_ADDRESS, BROADCAST}
       THEN /\ Write(Reply("ack", SourceOf(payload), <<0>>))
            /\ pc' = "waiting"
            /\ request' = UserDataOf(payload)
       ELSE /\ Write(Reply("nack", SourceOf(payload), <<3>>))
            /\ UNCHANGED <<pc, request>>
  /\ UNCHANGED <<tester, dataVars, announced>>

(* A payload that is too short, the inactivity timeout, the tester closes. *)
Close == /\ pc = "open"
         /\ Drop
         /\ UNCHANGED <<dataVars, announced>>

-----------------------------------------------------------------------------
(* The answer.                                                             *)

(* An empty answer is not sent.  The tester may be gone when it is.        *)
Answer(body) ==
  \/ /\ IF body = <<>>
          THEN UNCHANGED <<stream, meant>>
          ELSE Write(Reply("answer", tester, body))
     /\ pc' = "open"
     /\ request' = <<>>
     /\ UNCHANGED tester
  \/ body # <<>> /\ Drop

Negative(sid, nrc) == <<127, sid, nrc>>
Asked(sid) == pc = "waiting" /\ request # <<>> /\ request[1] = sid

AnswerEmpty == /\ pc = "waiting"
               /\ request = <<>>
               /\ Answer(Negative(0, 19))
               /\ UNCHANGED <<dataVars, announced>>

(* Fault: the request is acknowledged without the list being cleared when  *)
(* the group is not the group of all codes.                                *)
ClearDtcByGroup ==
  /\ Asked(20)
  /\ IF Len(request) < 4
       THEN Answer(Negative(20, 19)) /\ UNCHANGED dtcs
       ELSE /\ Answer(<<84>>)
            /\ dtcs' = IF SubSeq(request, 2, 4) = <<255, 255, 255>> THEN <<>> ELSE dtcs
  /\ UNCHANGED <<vin, announced>>

(* handle_clear_dtc: the group is logged, and all codes are cleared.       *)
ClearDtc == /\ Asked(20)
            /\ IF Len(request) < 4
                 THEN Answer(Negative(20, 19)) /\ UNCHANGED dtcs
                 ELSE Answer(<<84>>) /\ dtcs' = <<>>
            /\ UNCHANGED <<vin, announced>>

(* status & status_mask # 0.                                               *)
Overlap(a, b) ==
  \E i \in 0 .. 7 : (a \div 2 ^ i) % 2 = 1 /\ (b \div 2 ^ i) % 2 = 1

(* There are two codes at most.                                            *)
Record(i, mask) == IF i <= Len(dtcs) /\ Overlap(dtcs[i].status, mask)
                     THEN dtcs[i].code \o <<dtcs[i].status>>
                     ELSE <<>>
Records(mask) == Record(1, mask) \o Record(2, mask)

(* handle_read_dtc                                                         *)
ReadDtc ==
  /\ Asked(25)
  /\ \/ Len(request) < 2 /\ Answer(Negative(25, 19))
     \/ Len(request) >= 2 /\ request[2] # 2 /\ Answer(Negative(25, 18))
     \/ Len(request) = 2 /\ request[2] = 2 /\ Answer(Negative(25, 19))
     \/ /\ Len(request) >= 3 /\ request[2] = 2
        /\ Answer(<<89, 2, 255>> \o Records(request[3]))
  /\ UNCHANGED <<dataVars, announced>>

VinDid == <<241, 144>>
ReadsVin == Asked(34) /\ Tail(request) = VinDid
WritesVin == Asked(46) /\ Len(request) >= 3 /\ SubSeq(request, 2, 3) = VinDid

ReadVin == /\ ReadsVin
           /\ Answer(<<98>> \o VinDid \o vin)
           /\ UNCHANGED <<dataVars, announced>>

(* Fault: a shorter VIN is copied over the old one.                        *)
WriteVinShort == /\ WritesVin
                 /\ \/ Answer(Negative(46, 127)) /\ UNCHANGED vin
                    \/ /\ Answer(<<110>> \o VinDid)
                       /\ vin' = SubSeq(request, 4, Len(request))
                 /\ UNCHANGED <<dtcs, announced>>

(* write_did of 0xF190, where ace-server lets it through (the session).    *)
WriteVin == /\ WritesVin
            /\ LET data == SubSeq(request, 4, Len(request))
               IN \/ Answer(Negative(46, 127)) /\ UNCHANGED vin
                  \/ Len(data) # 17 /\ Answer(Negative(46, 19)) /\ UNCHANGED vin
                  \/ Len(data) = 17 /\ Answer(<<110>> \o VinDid) /\ vin' = data
            /\ UNCHANGED <<dtcs, announced>>

(* Any other request: ace-server answers, or suppresses the answer.        *)
AnswerOther == /\ pc = "waiting"
               /\ request # <<>> /\ request[1] \notin {20, 25}
               /\ ~ReadsVin /\ ~WritesVin
               /\ \E body \in {<<>>, <<(request[1] + 64) % 256>>, Negative(request[1], 17)} :
                    Answer(body)
               /\ UNCHANGED <<dataVars, announced>>

-----------------------------------------------------------------------------
(* run_udp_server: datagrams that are too short or of another type are     *)
(* ignored.  Version and length are not looked at.                         *)
Identify(datagram) ==
  /\ Len(datagram) >= SIZE
  /\ TypeOf(datagram) \in IdentificationRequests
  /\ announced' = EncodeAnnouncement(Vin, ECU_ADDRESS, Eid, GID)
  /\ UNCHANGED <<connVars, dataVars>>

(* A power cycle: the application starts anew.                             *)
Restart == /\ Drop
           /\ vin' = Vin
           /\ dtcs' = FirstDtcs
           /\ announced' = <<>>

-----------------------------------------------------------------------------
(* What testers send: activations of 7 and 11 bytes, requests to this ECU  *)
(* and to others, in their own and in another tester's name.               *)
ActivationPayload(t, n) == BE16(t) \o [i \in 1 .. n |-> 0]
DiagnosticPayload(s, t, r) == BE16(s) \o BE16(t) \o r
Datagrams == {Header(1, 0), <<1, 254>> \o BE16(2) \o BE32(6), Header(8, 0), <<2, 253, 0>>}

Frame == \/ \E t \in Tester, n \in {5, 9} : Activate(ActivationPayload(t, n))
         \/ \E s \in Tester, t \in {ECU_ADDRESS, BROADCAST, Elsewhere}, r \in Request :
              Diagnose(DiagnosticPayload(s, t, r))
         \/ Alive
         \/ Close

Served == AnswerEmpty \/ ClearDtc \/ ReadDtc \/ ReadVin \/ WriteVin \/ AnswerOther

Next == Frame \/ Served \/ Restart \/ \E d \in Datagrams : Identify(d)

Spec == Init /\ [][Next]_vars

-----------------------------------------------------------------------------
(* Properties.                                                             *)

(* How a tester reads a message, by the field offsets of ISO 13400-2.      *)
Meaning(type, payload) ==
  LET Two(i) == U16(payload, i)
      Rest(i) == SubSeq(payload, i, Len(payload))
      As(kind, from, to, body) == [kind |-> kind, from |-> from, to |-> to, body |-> body]
      whole == Len(payload) >= IF type = 8 THEN 2 ELSE 4
  IN CASE whole /\ type = 6     -> As("activation", Two(3), Two(1), Rest(5))
       [] whole /\ type = 8     -> As("alive", Two(1), 0, Rest(3))
       [] whole /\ type = 32769 -> As("answer", Two(1), Two(3), Rest(5))
       [] whole /\ type = 32770 -> As("ack", Two(1), Two(3), Rest(5))
       [] whole /\ type = 32771 -> As("nack", Two(1), Two(3), Rest(5))
       [] OTHER                 -> As("unknown", 0, 0, payload)

(* How a tester cuts the stream: header by header.                         *)
HeadAt(bytes, i) == SubSeq(bytes, i + 1, i + SIZE)
NextCut(bytes, i) == i + SIZE + LengthOf(HeadAt(bytes, i))
MessageAt(bytes, i) ==
  Meaning(TypeOf(HeadAt(bytes, i)), SubSeq(bytes, i + SIZE + 1, NextCut(bytes, i)))

Decoded(bytes) ==
  LET from[i \in 0 .. Len(bytes)] ==
        IF i + SIZE > Len(bytes) \/ NextCut(bytes, i) > Len(bytes) THEN <<>>
        ELSE <<MessageAt(bytes, i)>> \o from[NextCut(bytes, i)]
  IN from[0]

(* A tester that reads the whole stream of a connection with nothing but   *)
(* the header lengths finds exactly the messages that were meant, in order *)
(* and with their fields: no encoder gets a length or an offset wrong.     *)
TesterReads == Decoded(stream) = meant

(* The announcement, read by field offsets, is the configuration of the    *)
(* image: VIN, address, EID, GID (also after the VIN was overwritten).     *)
AnnouncementReads ==
  announced # <<>> =>
    /\ Len(announced) = SIZE + LengthOf(announced)
    /\ SubSeq(announced, 9, 25) = Vin
    /\ U16(announced, 26) = ECU_ADDRESS
    /\ SubSeq(announced, 28, 33) = Eid
    /\ SubSeq(announced, 34, 39) = GID

(* On every connection: no ack, nack or answer before an activation, each  *)
(* answer directly after the ack of its request, and a request in the      *)
(* server has been acknowledged and not yet answered.                      *)
ReplyOrder ==
  /\ tester = None => \A i \in 1 .. Len(meant) : meant[i].kind = "alive"
  /\ \A i \in 1 .. Len(meant) :
       /\ meant[i].kind \in {"ack", "nack", "answer"} =>
            \E j \in 1 .. i - 1 : meant[j].kind = "activation"
       /\ meant[i].kind = "answer" => i > 1 /\ meant[i - 1].kind = "ack"
  /\ pc = "waiting" => Len(meant) > 0 /\ meant[Len(meant)].kind = "ack"

(* Each answer goes to the address that was activated last before it, also *)
(* after several activations, and whatever source its request named (the   *)
(* ack goes to that one).                                                  *)
LastActivation(j, i) == /\ meant[j].kind = "activation"
                        /\ \A k \in j + 1 .. i - 1 : meant[k].kind # "activation"
AnswersToActivated ==
  \A i \in 1 .. Len(meant) : meant[i].kind = "answer" =>
    \E j \in 1 .. i - 1 : LastActivation(j, i) /\ meant[j].to = meant[i].to

(* A tester that was told that the trouble codes are cleared (0x54) is     *)
(* shown none afterwards on this connection, however they are asked for.   *)
(* The next process has them again.                                        *)
ToldCleared(i) == meant[i].kind = "answer" /\ meant[i].body = <<84>>
IsReport(m) == m.kind = "answer" /\ m.body[1] = 89
ClearedStaysCleared ==
  \A i, j \in 1 .. Len(meant) :
    i < j /\ ToldCleared(i) /\ IsReport(meant[j])
      => Len(meant[j].body) = 3

(* The inductive invariant behind these: the list of trouble codes is      *)
(* empty once a tester was told so, the state is that of the activation    *)
(* that came last, and a request is served for an activated connection     *)
(* only.                                                                   *)
ClearedIsEmpty == (\E i \in 1 .. Len(meant) : ToldCleared(i)) => dtcs = <<>>
ActivatedBefore ==
  tester # None => \E j \in 1 .. Len(meant) :
                     LastActivation(j, Len(meant) + 1) /\ meant[j].to = tester
ServedIsActive == pc = "waiting" => tester # None

IndInv == /\ TypeOK
          /\ ReplyOrder
          /\ AnswersToActivated
          /\ ClearedStaysCleared
          /\ ClearedIsEmpty
          /\ ActivatedBefore
          /\ ServedIsActive
=============================================================================
