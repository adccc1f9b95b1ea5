---------------------------- MODULE DoipMessages ----------------------------
(***************************************************************************)
(* The codecs of flxc1000-doip: byte layouts of the DoIP header and of the *)
(* messages the entity parses and writes (header.rs, message.rs).  Bytes   *)
(* are numbers below 256, addresses numbers below 65536.  Each encoder     *)
(* states the payload length of its own, as the code does, so that length  *)
(* and content could disagree.                                             *)
(***************************************************************************)
EXTENDS Naturals, Sequences

BE16(n) == <<n \div 256, n % 256>>
BE32(n) == BE16(n \div 65536) \o BE16(n % 65536)
U16(s, i) == s[i] * 256 + s[i + 1]

SIZE == 8
PROTOCOL_VERSION == 2
INVERSE_VERSION == 255 - PROTOCOL_VERSION

(* The payload types, with the numbers they have on the wire.              *)
IdentificationRequests == {1, 2, 3} \* plain, by EID, by VIN
VehicleAnnouncementMessage == 4
RoutingActivationRequest == 5
RoutingActivationResponse == 6
AliveCheckResponse == 8
DiagnosticMessage == 32769
DiagnosticMessagePositiveAck == 32770
DiagnosticMessageNegativeAck == 32771

Header(type, length) ==
  <<PROTOCOL_VERSION, INVERSE_VERSION>> \o BE16(type) \o BE32(length)

(* DoipHeader::parse; the caller has made sure of SIZE bytes.              *)
TypeOf(data) == U16(data, 3)
LengthOf(data) == U16(data, 5) * 65536 + U16(data, 7)

-----------------------------------------------------------------------------
(* Parsers: which payloads they accept, and the fields they are asked for. *)

IsRoutingActivation(payload) == Len(payload) >= 7
IsDiagnosticMessage(payload) == Len(payload) >= 4
SourceOf(payload) == U16(payload, 1)
TargetOf(payload) == U16(payload, 3)
UserDataOf(payload) == SubSeq(payload, 5, Len(payload))

-----------------------------------------------------------------------------
(* Encoders.                                                               *)

(* Fault: the length of the group ID is forgotten.                         *)
EncodeAnnouncementShort(vin, address, eid, gid) ==
  Header(VehicleAnnouncementMessage, 17 + 2 + 6 + 1 + 1)
    \o vin \o BE16(address) \o eid \o gid \o <<0, 0>>

(* No further action required, VIN and GID synchronized.                   *)
EncodeAnnouncement(vin, address, eid, gid) ==
  Header(VehicleAnnouncementMessage, 17 + 2 + 6 + 6 + 1 + 1)
    \o vin \o BE16(address) \o eid \o gid \o <<0, 0>>

(* The reserved field is a u32 of zero.                                    *)
EncodeActivation(tester, entity, code) ==
  Header(RoutingActivationResponse, 2 + 2 + 1 + 4)
    \o BE16(tester) \o BE16(entity) \o <<code>> \o BE32(0)

(* Fault: the length counts the user data only.                            *)
EncodeDiagnosticShort(source, target, data) ==
  Header(DiagnosticMessage, Len(data)) \o BE16(source) \o BE16(target) \o data

(* The code casts the length to u32, of which no answer comes near.        *)
EncodeDiagnostic(source, target, data) ==
  Header(DiagnosticMessage, 4 + Len(data)) \o BE16(source) \o BE16(target) \o data

EncodeAck(source, target, code) ==
  Header(DiagnosticMessagePositiveAck, 5) \o BE16(source) \o BE16(target) \o <<code>>

EncodeNack(source, target, code) ==
  Header(DiagnosticMessageNegativeAck, 5) \o BE16(source) \o BE16(target) \o <<code>>

EncodeAlive(source) == Header(AliveCheckResponse, 2) \o BE16(source)
=============================================================================
