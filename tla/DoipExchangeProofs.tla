------------------------- MODULE DoipExchangeProofs -------------------------
(***************************************************************************)
(* Proofs about DoipExchange: type correctness, the order of the replies   *)
(* on a connection, and what a tester may conclude from a cleared list of  *)
(* trouble codes.  DoipDecodingProofs has what the bytes say.              *)
(***************************************************************************)
EXTENDS DoipExchange, SequenceTheorems, TLAPS

-----------------------------------------------------------------------------
(* Bytes.                                                                  *)

LEMMA BytesAreNumbers == Seq(Byte) \subseteq Seq(Nat)
<1>1. Byte \subseteq Nat
  BY DEF Byte
<1>2. ASSUME NEW s \in Seq(Byte) PROVE s \in Seq(Nat)
  BY <1>1, <1>2, SeqMonotonic
<1> QED  BY <1>2

(* An address is written as two bytes.                                     *)
LEMMA BigEndian ==
  ASSUME NEW n \in Address
  PROVE  BE16(n) \in Seq(Byte) /\ Len(BE16(n)) = 2
<1>1. n \div 256 \in Byte
  <2>1. n \in Nat /\ n <= 65535
    BY DEF Address, BROADCAST
  <2>2. n \div 256 \in Nat
    BY <2>1, SMT
  <2>3. n \div 256 <= 255
    BY <2>1, SMT
  <2> QED  BY <2>2, <2>3 DEF Byte
<1>2. n % 256 \in 0 .. 255
  <2>1. n \in Nat /\ n <= 65535
    BY DEF Address, BROADCAST
  <2> QED  BY <2>1, SMT
<1> QED  BY <1>1, <1>2 DEF BE16, Byte

LEMMA EcuAddress == ECU_ADDRESS \in Address /\ BROADCAST \in Address /\ 0 \in Address
<1>1. /\ ECU_ADDRESS \in Nat /\ BROADCAST \in Nat
      /\ ECU_ADDRESS <= BROADCAST
  BY DEF ECU_ADDRESS, BROADCAST
<1> QED  BY <1>1 DEF Address

(* Two bytes are read as an address.                                       *)
LEMMA TwoBytes ==
  ASSUME NEW a \in Byte, NEW b \in Byte PROVE a * 256 + b \in Address
<1> DEFINE n == a * 256 + b
<1>1. a \in 0 .. 255 /\ b \in 0 .. 255
  BY DEF Byte
<1>2. n \in Nat
  BY <1>1, SMT
<1>3. n <= BROADCAST
  BY <1>1, SMT DEF BROADCAST
<1> HIDE DEF n
<1>4. n \in Address
  <2>1. BROADCAST \in Nat
    BY DEF BROADCAST
  <2> QED  BY <1>2, <1>3, <2>1 DEF Address
<1> QED  BY <1>4 DEF n

LEMMA Reading ==
  ASSUME NEW s \in Seq(Byte), NEW i \in 1 .. Len(s), i < Len(s)
  PROVE  U16(s, i) \in Address
<1>1. Len(s) \in Nat
  OBVIOUS
<1>2. i + 1 \in 1 .. Len(s)
  BY <1>1
<1>3. s[i] \in Byte /\ s[i + 1] \in Byte
  BY <1>2, ElementOfSeq
<1> QED  BY <1>3, TwoBytes, Zenon DEF U16

LEMMA ShortIsBytes ==
  ASSUME NEW n \in Nat PROVE BE16(n) \in Seq(Nat)
<1>1. n \div 256 \in Nat /\ n % 256 \in Nat
  BY SMT
<1> QED  BY <1>1 DEF BE16

LEMMA LongIsBytes ==
  ASSUME NEW n \in Nat PROVE BE32(n) \in Seq(Nat)
<1>1. n \div 65536 \in Nat /\ n % 65536 \in Nat
  BY SMT
<1> QED  BY <1>1, ShortIsBytes DEF BE32

LEMMA HeaderIsBytes ==
  ASSUME NEW type \in Nat, NEW length \in Nat
  PROVE  Header(type, length) \in Seq(Nat)
<1>2. BE16(type) \in Seq(Nat)
  BY ShortIsBytes
<1>4. BE32(length) \in Seq(Nat)
  BY LongIsBytes
<1>5. <<PROTOCOL_VERSION, INVERSE_VERSION>> \in Seq(Nat)
  BY DEF PROTOCOL_VERSION, INVERSE_VERSION
<1> QED  BY <1>2, <1>4, <1>5 DEF Header

(* The messages with a code have one.                                      *)
HasCode(m) == m.kind \in {"activation", "ack", "nack"} => Len(m.body) > 0

(* Every message has an encoding.                                          *)
LEMMA Encodes ==
  ASSUME NEW m \in Message, HasCode(m) PROVE Encode(m) \in Seq(Nat)
<1>1. /\ m.kind \in Kinds /\ m.from \in Address /\ m.to \in Address
      /\ m.body \in Seq(Byte)
  BY DEF Message
<1>2. BE16(m.from) \in Seq(Nat) /\ BE16(m.to) \in Seq(Nat)
  BY <1>1, BigEndian, BytesAreNumbers
<1>3. m.body \in Seq(Nat)
  BY <1>1, BytesAreNumbers
<1>4. CASE m.kind = "activation"
  <2>1. <<m.body[1]>> \in Seq(Nat)
    BY <1>3, <1>4 DEF HasCode
  <2>3. BE32(0) \in Seq(Nat)
    BY LongIsBytes
  <2>2. Header(RoutingActivationResponse, 2 + 2 + 1 + 4) \in Seq(Nat)
    BY HeaderIsBytes DEF RoutingActivationResponse
  <2> QED  BY <1>2, <1>4, <2>1, <2>2, <2>3 DEF Encode, EncodeActivation
<1>5. CASE m.kind \in {"ack", "nack"}
  <2>1. <<m.body[1]>> \in Seq(Nat)
    BY <1>1, <1>3, <1>5 DEF HasCode
  <2>2. /\ Header(DiagnosticMessagePositiveAck, 5) \in Seq(Nat)
        /\ Header(DiagnosticMessageNegativeAck, 5) \in Seq(Nat)
    BY HeaderIsBytes DEF DiagnosticMessagePositiveAck, DiagnosticMessageNegativeAck
  <2> QED  BY <1>2, <1>5, <2>1, <2>2 DEF Encode, EncodeAck, EncodeNack
<1>6. CASE m.kind = "answer"
  <2>1. Header(DiagnosticMessage, 4 + Len(m.body)) \in Seq(Nat)
    <3>1. 4 + Len(m.body) \in Nat
      BY <1>3, LenProperties
    <3>2. DiagnosticMessage \in Nat
      BY DEF DiagnosticMessage
    <3> QED  BY <3>1, <3>2, HeaderIsBytes
  <2> QED  BY <1>2, <1>3, <1>6, <2>1 DEF Encode, EncodeDiagnostic
<1>7. CASE m.kind = "alive"
  <2>1. Header(AliveCheckResponse, 2) \in Seq(Nat)
    BY HeaderIsBytes DEF AliveCheckResponse
  <2> QED  BY <1>2, <1>7, <2>1 DEF Encode, EncodeAlive
<1> QED  BY <1>1, <1>4, <1>5, <1>6, <1>7 DEF Kinds

-----------------------------------------------------------------------------
(* What testers send.                                                      *)

LEMMA SentActivation ==
  ASSUME NEW t \in Tester, NEW n \in {5, 9}
  PROVE  SourceOf(ActivationPayload(t, n)) \in Address
<1> DEFINE p == ActivationPayload(t, n)
<1>1. BE16(t) \in Seq(Byte) /\ Len(BE16(t)) = 2
  BY BigEndian, ExchangeAssumption
<1>2. [i \in 1 .. n |-> 0] \in Seq(Byte)
  BY DEF Byte
<1>3. p \in Seq(Byte) /\ Len(p) >= 2
  BY <1>1, <1>2 DEF ActivationPayload
<1> QED  BY <1>3, Reading DEF SourceOf

LEMMA SentRequest ==
  ASSUME NEW s \in Tester, NEW t \in {ECU_ADDRESS, BROADCAST, Elsewhere}, NEW r \in Request
  PROVE  /\ SourceOf(DiagnosticPayload(s, t, r)) \in Address
         /\ UserDataOf(DiagnosticPayload(s, t, r)) \in Seq(Byte)
<1> DEFINE p == DiagnosticPayload(s, t, r)
           h == BE16(s) \o BE16(t)
<1>1. s \in Address /\ t \in Address /\ r \in Seq(Byte)
  <2>1. ECU_ADDRESS \in Address /\ BROADCAST \in Address
    BY EcuAddress
  <2> QED  BY <2>1, ExchangeAssumption
<1>2. h \in Seq(Byte) /\ Len(h) = 4
  <2>1. BE16(s) \in Seq(Byte) /\ Len(BE16(s)) = 2
    BY <1>1, BigEndian
  <2>2. BE16(t) \in Seq(Byte) /\ Len(BE16(t)) = 2
    BY <1>1, BigEndian
  <2>3. /\ h \in Seq(Byte)
        /\ Len(h) = Len(BE16(s)) + Len(BE16(t))
    BY <2>1, <2>2, ConcatProperties, Zenon
  <2> QED  BY <2>1, <2>2, <2>3
<1> HIDE DEF h
<1>3. p \in Seq(Byte) /\ Len(p) >= 4
  <2>1. p = h \o r
    BY DEF DiagnosticPayload, h
  <2>2. Len(r) \in Nat
    BY <1>1
  <2>3. p \in Seq(Byte) /\ Len(p) = Len(h) + Len(r)
    BY <1>1, <1>2, <2>1, ConcatProperties, Zenon
  <2> QED  BY <1>2, <2>2, <2>3
<1> HIDE DEF p
<1>4. SourceOf(p) \in Address
  BY <1>3, Reading DEF SourceOf
<1>5. UserDataOf(p) \in Seq(Byte)
  BY <1>3 DEF UserDataOf
<1> QED  BY <1>4, <1>5 DEF p

-----------------------------------------------------------------------------
(* A step writes at most one message.                                      *)

LEMMA Written ==
  ASSUME IndInv, NEW m \in Message, HasCode(m), Write(m)
  PROVE  /\ stream' \in Seq(Nat)
         /\ meant' \in Seq(Message)
         /\ Len(meant) \in Nat
         /\ Len(meant') = Len(meant) + 1
         /\ \A i \in 1 .. Len(meant) : meant'[i] = meant[i]
         /\ meant'[Len(meant) + 1] = m
<1>1. stream \in Seq(Nat) /\ meant \in Seq(Message)
  BY DEF IndInv, TypeOK
<1>2. stream' \in Seq(Nat)
  BY <1>1, Encodes DEF Write
<1> QED  BY <1>1, <1>2, AppendProperties DEF Write

(* What has to be said of a message for the histories to stay in order.    *)
InOrder(m) ==
  /\ m.kind \in {"ack", "nack", "answer"} => tester # None
  /\ m.kind = "answer" => pc = "waiting"
  /\ IsReport(m) /\ dtcs = <<>> => Len(m.body) = 3
  /\ m.kind = "answer" /\ m.body = << 84 >> => dtcs' = <<>>
  /\ tester' = None => tester = None /\ m.kind = "alive"
  /\ tester' # None => IF m.kind = "activation" THEN m.to = tester'
                                               ELSE tester # None /\ tester' = tester
  /\ m.kind = "answer" => m.to = tester
  /\ pc' = "waiting" => m.kind = "ack" /\ tester # None /\ tester' = tester
  /\ dtcs' \in {dtcs, <<>>}

LEMMA WrittenInOrder ==
  ASSUME IndInv, NEW m \in Message, HasCode(m), Write(m), InOrder(m), TypeOK'
  PROVE  IndInv'
<1> DEFINE n == Len(meant)
<1>1. /\ n \in Nat /\ Len(meant') = n + 1
      /\ \A i \in 1 .. n : meant'[i] = meant[i]
      /\ meant'[n + 1] = m
  BY Written
<1> HIDE DEF n
<1>2. \A i \in 1 .. n + 1 : i \in 1 .. n \/ i = n + 1
  BY <1>1
<1>3. 1 .. n \subseteq 1 .. n + 1 /\ n + 1 \in 1 .. n + 1
  BY <1>1
<1>4. ActivatedBefore'
  <2> SUFFICES ASSUME tester' # None
               PROVE  \E j \in 1 .. n + 1 : /\ meant'[j].kind = "activation"
                                            /\ meant'[j].to = tester'
                                            /\ \A k \in j + 1 .. n + 1 :
                                                 meant'[k].kind # "activation"
    BY <1>1 DEF ActivatedBefore, LastActivation
  <2>1. CASE m.kind = "activation"
    BY <1>1, <1>3, <2>1 DEF InOrder
  <2>2. CASE m.kind # "activation"
    <3>1. tester # None /\ tester' = tester
      BY <2>2 DEF InOrder
    <3>2. PICK j \in 1 .. n : LastActivation(j, n + 1) /\ meant[j].to = tester
      BY <3>1 DEF IndInv, ActivatedBefore, n
    <3>3. \A k \in j + 1 .. n : meant'[k].kind # "activation"
      BY <1>1, <3>2 DEF LastActivation
    <3>4. \A k \in j + 1 .. n + 1 : k \in j + 1 .. n \/ k = n + 1
      BY <1>1
    <3>5. meant'[n + 1].kind # "activation"
      BY <1>1, <2>2
    <3>6. j \in 1 .. n + 1 /\ meant'[j].kind = "activation" /\ meant'[j].to = tester'
      BY <1>1, <1>3, <3>1, <3>2 DEF LastActivation
    <3> QED  BY <3>3, <3>4, <3>5, <3>6
  <2> QED  BY <2>1, <2>2
<1>9. AnswersToActivated'
  <2> SUFFICES ASSUME NEW i \in 1 .. n + 1, meant'[i].kind = "answer"
               PROVE  \E j \in 1 .. i - 1 : /\ meant'[j].kind = "activation"
                                            /\ meant'[j].to = meant'[i].to
                                            /\ \A k \in j + 1 .. i - 1 :
                                                 meant'[k].kind # "activation"
    BY <1>1 DEF AnswersToActivated, LastActivation
  <2>1. meant'[i] = IF i = n + 1 THEN m ELSE meant[i]
    BY <1>1, <1>2
  <2>2. PICK j \in 1 .. i - 1 : LastActivation(j, i) /\ meant[j].to = meant'[i].to
    <3>1. CASE i \in 1 .. n
      BY <1>1, <3>1 DEF IndInv, AnswersToActivated, n
    <3>2. CASE i = n + 1
      <4>1. tester # None /\ m.to = tester
        BY <1>1, <3>2 DEF InOrder
      <4>2. PICK j \in 1 .. n : LastActivation(j, n + 1) /\ meant[j].to = tester
        BY <4>1 DEF IndInv, ActivatedBefore, n
      <4>3. n = i - 1 /\ meant'[i].to = tester
        BY <1>1, <3>2, <4>1
      <4> QED  BY <3>2, <4>2, <4>3
    <3> QED  BY <1>2, <3>1, <3>2
  <2>3. 1 .. i - 1 \subseteq 1 .. n /\ j + 1 .. i - 1 \subseteq 1 .. n
    BY <1>1
  <2>4. \A k \in 1 .. i - 1 : meant'[k] = meant[k]
    BY <1>1, <2>3
  <2>5. j + 1 .. i - 1 \subseteq 1 .. i - 1
    BY <1>1
  <2> QED  BY <2>2, <2>4, <2>5 DEF LastActivation
<1>5. ReplyOrder'
  <2>1. ASSUME tester' = None, NEW i \in 1 .. n + 1
        PROVE  meant'[i].kind = "alive"
    BY <1>1, <1>2, <2>1 DEF IndInv, ReplyOrder, InOrder, n
  <2>2. ASSUME NEW i \in 1 .. n + 1, meant'[i].kind \in {"ack", "nack", "answer"}
        PROVE  \E j \in 1 .. i - 1 : meant'[j].kind = "activation"
    <3>1. CASE i \in 1 .. n
      <4>1. PICK j \in 1 .. i - 1 : meant[j].kind = "activation"
        BY <1>1, <2>2, <3>1 DEF IndInv, ReplyOrder, n
      <4>2. j \in 1 .. n
        BY <1>1, <3>1
      <4> QED  BY <1>1, <4>1, <4>2
    <3>2. CASE i = n + 1
      <4>1. tester # None
        BY <1>1, <2>2, <3>2 DEF InOrder
      <4>2. PICK j \in 1 .. n : meant[j].kind = "activation"
        BY <4>1 DEF IndInv, ActivatedBefore, LastActivation, n
      <4>3. j \in 1 .. i - 1
        BY <1>1, <3>2
      <4> QED  BY <1>1, <4>2, <4>3
    <3> QED  BY <1>2, <3>1, <3>2
  <2>3. ASSUME NEW i \in 1 .. n + 1, meant'[i].kind = "answer"
        PROVE  i > 1 /\ meant'[i - 1].kind = "ack"
    <3>1. CASE i \in 1 .. n
      <4>1. i > 1 /\ meant[i - 1].kind = "ack"
        BY <1>1, <2>3, <3>1 DEF IndInv, ReplyOrder, n
      <4>2. i - 1 \in 1 .. n
        BY <1>1, <3>1, <4>1
      <4> QED  BY <1>1, <4>1, <4>2
    <3>2. CASE i = n + 1
      <4>1. pc = "waiting"
        BY <1>1, <2>3, <3>2 DEF InOrder
      <4>2. n > 0 /\ meant[n].kind = "ack"
        BY <4>1 DEF IndInv, ReplyOrder, n
      <4>3. n \in 1 .. n /\ i - 1 = n /\ i > 1
        BY <1>1, <3>2, <4>2
      <4> QED  BY <1>1, <4>2, <4>3
    <3> QED  BY <1>2, <3>1, <3>2
  <2>4. ASSUME pc' = "waiting" PROVE n + 1 > 0 /\ meant'[n + 1].kind = "ack"
    BY <1>1, <2>4 DEF InOrder
  <2> QED  BY <1>1, <2>1, <2>2, <2>3, <2>4 DEF ReplyOrder
<1>6. ClearedIsEmpty'
  <2> SUFFICES ASSUME NEW i \in 1 .. n + 1, meant'[i].kind = "answer", meant'[i].body = << 84 >>
               PROVE  dtcs' = <<>>
    BY <1>1 DEF ClearedIsEmpty, ToldCleared
  <2>1. CASE i \in 1 .. n
    <3>1. dtcs = <<>>
      BY <1>1, <2>1 DEF IndInv, ClearedIsEmpty, ToldCleared, n
    <3> QED  BY <3>1 DEF InOrder
  <2>2. CASE i = n + 1
    BY <1>1, <2>2 DEF InOrder
  <2> QED  BY <1>2, <2>1, <2>2
<1>7. ClearedStaysCleared'
  <2> SUFFICES ASSUME NEW i \in 1 .. n + 1, NEW j \in 1 .. n + 1, i < j,
                      meant'[i].kind = "answer", meant'[i].body = << 84 >>, IsReport(meant'[j])
               PROVE  Len(meant'[j].body) = 3
    BY <1>1 DEF ClearedStaysCleared, ToldCleared, IsReport
  <2>1. i \in 1 .. n
    BY <1>1
  <2>2. CASE j \in 1 .. n
    BY <1>1, <2>1, <2>2 DEF IndInv, ClearedStaysCleared, ToldCleared, n
  <2>3. CASE j = n + 1
    <3>1. dtcs = <<>>
      BY <1>1, <2>1 DEF IndInv, ClearedIsEmpty, ToldCleared, n
    <3> QED  BY <1>1, <2>3, <3>1 DEF InOrder
  <2> QED  BY <1>2, <2>2, <2>3
<1>8. ServedIsActive'
  BY DEF ServedIsActive, InOrder
<1> QED  BY <1>4, <1>5, <1>6, <1>7, <1>8, <1>9 DEF IndInv

(* A closed connection leaves no history.                                  *)
LEMMA Dropped ==
  ASSUME Drop, vin' \in Seq(Byte), Len(vin') = 17, dtcs' \in {FirstDtcs, <<>>},
         announced' \in Seq(Nat)
  PROVE  IndInv'
<1>1. /\ tester' = None /\ pc' = "open" /\ request' = <<>>
      /\ stream' = <<>> /\ meant' = <<>>
  BY DEF Drop
<1>2. Len(meant') = 0 /\ \A i \in 1 .. Len(meant') : FALSE
  BY <1>1
<1>3. TypeOK'
  BY <1>1 DEF TypeOK
<1>4. ReplyOrder' /\ AnswersToActivated' /\ ClearedStaysCleared' /\ ClearedIsEmpty'
  BY <1>1, <1>2 DEF ReplyOrder, AnswersToActivated, ClearedStaysCleared, ClearedIsEmpty
<1>5. ActivatedBefore' /\ ServedIsActive'
  BY <1>1 DEF ActivatedBefore, ServedIsActive
<1> QED  BY <1>3, <1>4, <1>5 DEF IndInv

LEMMA ReplyIsMessage ==
  ASSUME NEW kind \in Kinds, NEW to \in Address, NEW body \in Seq(Byte)
  PROVE  /\ Reply(kind, to, body) \in Message
         /\ Reply(kind, to, body).kind = kind
         /\ Reply(kind, to, body).to = to
         /\ Reply(kind, to, body).body = body
  BY EcuAddress DEF Reply, Message

-----------------------------------------------------------------------------
(* The answers.                                                            *)

LEMMA Answered ==
  ASSUME IndInv, pc = "waiting", NEW body \in Seq(Byte), Answer(body),
         body # <<>> /\ body[1] = 89 /\ dtcs = <<>> => Len(body) = 3,
         body = << 84 >> => dtcs' = <<>>,
         vin' \in Seq(Byte), Len(vin') = 17, dtcs' \in {dtcs, <<>>},
         announced' = announced
  PROVE  IndInv'
<1>1. dtcs' \in {FirstDtcs, <<>>} /\ announced' \in Seq(Nat)
  BY DEF IndInv, TypeOK
<1>2. CASE Drop
  BY <1>1, <1>2, Dropped
<1>3. CASE /\ IF body = <<>>
                THEN UNCHANGED <<stream, meant>>
                ELSE Write(Reply("answer", tester, body))
           /\ pc' = "open" /\ request' = <<>> /\ UNCHANGED tester
  <2>1. tester # None /\ tester \in Address
    BY DEF IndInv, TypeOK, ServedIsActive
  <2>2. CASE body = <<>>
    <3>1. TypeOK'
      BY <1>1, <1>3, <2>2 DEF IndInv, TypeOK
    <3>2. ReplyOrder' /\ AnswersToActivated' /\ ActivatedBefore' /\ ServedIsActive'
      BY <1>3, <2>1, <2>2 DEF IndInv, ReplyOrder, AnswersToActivated, ActivatedBefore,
                              LastActivation, ServedIsActive
    <3>3. ClearedStaysCleared' /\ ClearedIsEmpty'
      BY <1>3, <2>2 DEF IndInv, ClearedStaysCleared, ClearedIsEmpty, ToldCleared
    <3> QED  BY <3>1, <3>2, <3>3 DEF IndInv
  <2>3. CASE body # <<>>
    <3> DEFINE m == Reply("answer", tester, body)
    <3>1. m \in Message /\ m.kind = "answer" /\ m.to = tester /\ m.body = body
      BY <2>1, ReplyIsMessage DEF Kinds
    <3>2. Write(m)
      BY <1>3, <2>3
    <3> HIDE DEF m
    <3>3. HasCode(m)
      BY <3>1 DEF HasCode
    <3>4. InOrder(m)
      BY <1>3, <2>1, <2>3, <3>1 DEF InOrder, IsReport
    <3>5. TypeOK'
      BY <1>1, <1>3, <3>1, <3>2, <3>3, Written DEF IndInv, TypeOK
    <3> QED  BY <3>1, <3>2, <3>3, <3>4, <3>5, WrittenInOrder
  <2> QED  BY <2>2, <2>3
<1> QED  BY <1>2, <1>3 DEF Answer

(* Answers of which one sees that they report nothing.                     *)
Plain(body) == body \in Seq(Byte) /\ body # << 84 >> /\ (body # <<>> => body[1] # 89)

LEMMA PlainlyAnswered ==
  ASSUME IndInv, pc = "waiting", NEW body, Plain(body), Answer(body),
         vin' \in Seq(Byte), Len(vin') = 17, dtcs' = dtcs, announced' = announced
  PROVE  IndInv'
  BY Answered DEF Plain

LEMMA NegativeIsPlain ==
  ASSUME NEW sid \in Byte, NEW nrc \in Byte PROVE Plain(Negative(sid, nrc))
<1>1. Negative(sid, nrc) \in Seq(Byte) /\ Len(Negative(sid, nrc)) = 3
  BY DEF Negative, Byte
<1>2. Negative(sid, nrc)[1] = 127
  BY DEF Negative
<1>3. Len(<< 84 >>) = 1
  OBVIOUS
<1> QED  BY <1>1, <1>2, <1>3 DEF Plain

LEMMA AnswerEmptyKeeps ==
  ASSUME IndInv, AnswerEmpty PROVE IndInv'
<1>1. Plain(Negative(0, 19))
  <2>1. 0 \in Byte /\ 19 \in Byte
    BY DEF Byte
  <2> QED  BY <2>1, NegativeIsPlain
<1> QED  BY <1>1, PlainlyAnswered DEF AnswerEmpty, dataVars, IndInv, TypeOK

LEMMA ClearDtcKeeps ==
  ASSUME IndInv, ClearDtc PROVE IndInv'
<1>1. /\ pc = "waiting" /\ vin' = vin /\ announced' = announced
      /\ vin \in Seq(Byte) /\ Len(vin) = 17
  BY DEF ClearDtc, Asked, IndInv, TypeOK
<1>2. CASE Answer(Negative(20, 19)) /\ UNCHANGED dtcs
  <2>1. Plain(Negative(20, 19))
    <3>1. 20 \in Byte /\ 19 \in Byte
      BY DEF Byte
    <3> QED  BY <3>1, NegativeIsPlain
  <2> QED  BY <1>1, <1>2, <2>1, PlainlyAnswered
<1>3. CASE Answer(<< 84 >>) /\ dtcs' = <<>>
  <2>1. << 84 >> \in Seq(Byte) /\ << 84 >>[1] # 89
    BY DEF Byte
  <2> QED  BY <1>1, <1>3, <2>1, Answered
<1> QED  BY <1>2, <1>3 DEF ClearDtc

(* A report holds records of codes that are there.                         *)
LEMMA RecordsOfNone ==
  ASSUME dtcs \in {FirstDtcs, <<>>}, NEW mask
  PROVE  Records(mask) \in Seq(Byte) /\ (dtcs = <<>> => Records(mask) = <<>>)
<1>1. CASE dtcs = <<>>
  <2>1. Len(dtcs) = 0
    BY <1>1
  <2>2. Record(1, mask) = <<>> /\ Record(2, mask) = <<>>
    BY <2>1 DEF Record
  <2>3. <<>> \o <<>> = <<>> /\ <<>> \in Seq(Byte)
    OBVIOUS
  <2> QED  BY <2>2, <2>3 DEF Records
<1>2. CASE dtcs = FirstDtcs
  <2>1. /\ <<1, 226, 64>> \in Seq(Byte) /\ <<47>> \in Seq(Byte)
        /\ <<3, 148, 71>> \in Seq(Byte) /\ <<36>> \in Seq(Byte)
    BY DEF Byte
  <2>2. /\ dtcs[1].code = <<1, 226, 64>> /\ dtcs[1].status = 47
        /\ dtcs[2].code = <<3, 148, 71>> /\ dtcs[2].status = 36
        /\ Len(dtcs) = 2
    BY <1>2 DEF FirstDtcs
  <2>5. dtcs # <<>>
    <3>1. Len(<<>>) # 2
      OBVIOUS
    <3>2. Len(dtcs) = 2
      BY <2>2
    <3> QED  BY <3>1, <3>2, Zenon
  <2>3. Record(1, mask) \in Seq(Byte)
    BY <2>1, <2>2, ConcatProperties DEF Record
  <2>4. Record(2, mask) \in Seq(Byte)
    BY <2>1, <2>2, ConcatProperties DEF Record
  <2> QED  BY <2>3, <2>4, <2>5, ConcatProperties DEF Records
<1> QED  BY <1>1, <1>2

LEMMA ReadDtcKeeps ==
  ASSUME IndInv, ReadDtc PROVE IndInv'
<1>1. /\ pc = "waiting" /\ vin' = vin /\ dtcs' = dtcs /\ announced' = announced
      /\ vin \in Seq(Byte) /\ Len(vin) = 17 /\ dtcs \in {FirstDtcs, <<>>}
  BY DEF ReadDtc, Asked, dataVars, IndInv, TypeOK
<1>2. CASE Answer(Negative(25, 19)) \/ Answer(Negative(25, 18))
  <2>1. Plain(Negative(25, 19)) /\ Plain(Negative(25, 18))
    <3>1. 25 \in Byte /\ 19 \in Byte /\ 18 \in Byte
      BY DEF Byte
    <3> QED  BY <3>1, NegativeIsPlain
  <2> QED  BY <1>1, <1>2, <2>1, PlainlyAnswered
<1>3. CASE Answer(<<89, 2, 255>> \o Records(request[3]))
  <2> DEFINE r == Records(request[3])
             body == <<89, 2, 255>> \o r
  <2>1. r \in Seq(Byte) /\ (dtcs = <<>> => r = <<>>)
    BY <1>1, RecordsOfNone
  <2> HIDE DEF r
  <2>2. <<89, 2, 255>> \in Seq(Byte)
    BY DEF Byte
  <2>3. body \in Seq(Byte) /\ Len(body) = 3 + Len(r) /\ body[1] = 89
    BY <2>1, <2>2, ConcatProperties
  <2>4. dtcs = <<>> => Len(body) = 3
    BY <2>1, <2>3
  <2>5. body # << 84 >>
    BY <2>3
  <2>6. Answer(body)
    BY <1>3 DEF r
  <2> HIDE DEF body
  <2> QED  BY <1>1, <2>3, <2>4, <2>5, <2>6, Answered
<1> QED  BY <1>2, <1>3 DEF ReadDtc

LEMMA ReadVinKeeps ==
  ASSUME IndInv, ReadVin PROVE IndInv'
<1>1. /\ pc = "waiting" /\ vin' = vin /\ dtcs' = dtcs /\ announced' = announced
      /\ vin \in Seq(Byte) /\ Len(vin) = 17
  BY DEF ReadVin, ReadsVin, Asked, dataVars, IndInv, TypeOK
<1> DEFINE body == <<98>> \o VinDid \o vin
<1>2. body \in Seq(Byte) /\ body[1] = 98
  <2>1. <<98>> \o VinDid \in Seq(Byte) /\ Len(<<98>> \o VinDid) = 3 /\ (<<98>> \o VinDid)[1] = 98
    BY DEF VinDid, Byte
  <2> QED  BY <1>1, <2>1, ConcatProperties
<1>4. Answer(body)
  BY DEF ReadVin
<1> HIDE DEF body
<1>3. Plain(body)
  <2>1. << 84 >>[1] = 84
    OBVIOUS
  <2> QED  BY <1>2, <2>1 DEF Plain
<1> QED  BY <1>1, <1>3, <1>4, PlainlyAnswered

LEMMA WriteVinKeeps ==
  ASSUME IndInv, WriteVin PROVE IndInv'
<1> DEFINE data == SubSeq(request, 4, Len(request))
<1>1. /\ pc = "waiting" /\ dtcs' = dtcs /\ announced' = announced
      /\ vin \in Seq(Byte) /\ Len(vin) = 17 /\ request \in Seq(Byte)
  BY DEF WriteVin, WritesVin, Asked, IndInv, TypeOK
<1>2. /\ Plain(Negative(46, 127)) /\ Plain(Negative(46, 19))
  <2>1. 46 \in Byte /\ 19 \in Byte /\ 127 \in Byte
    BY DEF Byte
  <2> QED  BY <2>1, NegativeIsPlain
<1>3. Plain(<<110>> \o VinDid)
  BY DEF Plain, VinDid, Byte
<1>4. CASE Answer(Negative(46, 127)) /\ UNCHANGED vin
  BY <1>1, <1>2, <1>4, PlainlyAnswered
<1>5. CASE Answer(Negative(46, 19)) /\ UNCHANGED vin
  BY <1>1, <1>2, <1>5, PlainlyAnswered
<1>6. CASE Len(data) = 17 /\ Answer(<<110>> \o VinDid) /\ vin' = data
  <2>1. data \in Seq(Byte)
    BY <1>1
  <2> HIDE DEF data
  <2> QED  BY <1>1, <1>3, <1>6, <2>1, PlainlyAnswered
<1> QED  BY <1>4, <1>5, <1>6 DEF WriteVin

LEMMA AnswerOtherKeeps ==
  ASSUME IndInv, AnswerOther PROVE IndInv'
<1>1. /\ pc = "waiting" /\ vin' = vin /\ dtcs' = dtcs /\ announced' = announced
      /\ vin \in Seq(Byte) /\ Len(vin) = 17 /\ request \in Seq(Byte) /\ request # <<>>
      /\ request[1] # 20 /\ request[1] # 25
  BY DEF AnswerOther, dataVars, IndInv, TypeOK
<1> DEFINE sid == request[1]
           positive == (sid + 64) % 256
<1>2. sid \in 0 .. 255
  <2>1. Len(request) \in Nat \ {0}
    BY <1>1, EmptySeq
  <2>2. 1 \in 1 .. Len(request)
    BY <2>1
  <2>3. request[1] \in Byte
    BY <1>1, <2>2, ElementOfSeq
  <2> QED  BY <2>3 DEF Byte
<1>3. PICK body \in {<<>>, <<positive>>, Negative(sid, 17)} : Answer(body)
  BY DEF AnswerOther
<1>4. Plain(body)
  <2>1. CASE body = <<>>
    BY <2>1 DEF Plain
  <2>2. CASE body = <<positive>>
    <3> HIDE DEF sid
    <3>1. positive \in 0 .. 255
      BY <1>2, SMT
    <3>2. positive # 84 /\ positive # 89
      <4>1. sid # 20 /\ sid # 25
        BY <1>1 DEF sid
      <4> QED  BY <1>2, <4>1, SMT
    <3> HIDE DEF positive
    <3> QED  BY <2>2, <3>1, <3>2 DEF Plain, Byte
  <2>3. CASE body = Negative(sid, 17)
    <3>1. sid \in Byte /\ 17 \in Byte
      BY <1>2 DEF Byte
    <3> QED  BY <2>3, <3>1, NegativeIsPlain
  <2> QED  BY <1>3, <2>1, <2>2, <2>3
<1> QED  BY <1>1, <1>3, <1>4, PlainlyAnswered

-----------------------------------------------------------------------------
(* The frames.                                                             *)

LEMMA ActivateKeeps ==
  ASSUME IndInv, NEW t \in Tester, NEW n \in {5, 9}, Activate(ActivationPayload(t, n))
  PROVE  IndInv'
<1> DEFINE to == SourceOf(ActivationPayload(t, n))
           code == <<16, 0, 0, 0, 0>>
           m == Reply("activation", to, code)
<1>1. /\ Write(m) /\ tester' = to
      /\ pc = "open" /\ pc' = pc /\ request' = request
      /\ vin' = vin /\ dtcs' = dtcs /\ announced' = announced
  BY DEF Activate, dataVars
<1>2. to \in Address
  BY SentActivation
<1>3. code \in Seq(Byte) /\ Len(code) = 5
  BY DEF Byte
<1> HIDE DEF to, code
<1>4. m \in Message /\ m.kind = "activation" /\ m.to = to /\ m.body = code
  BY <1>2, <1>3, ReplyIsMessage DEF Kinds
<1> HIDE DEF m
<1>5. HasCode(m)
  <2>1. Len(m.body) = 5
    BY <1>3, <1>4, Zenon
  <2> QED  BY <2>1 DEF HasCode
<1>6. InOrder(m)
  BY <1>1, <1>2, <1>4, ExchangeAssumption DEF InOrder, IsReport
<1>7. TypeOK'
  BY <1>1, <1>2, <1>4, <1>5, Written DEF IndInv, TypeOK
<1> QED  BY <1>1, <1>4, <1>5, <1>6, <1>7, WrittenInOrder

LEMMA AliveKeeps ==
  ASSUME IndInv, Alive PROVE IndInv'
<1> DEFINE m == Reply("alive", 0, <<>>)
<1>1. /\ Write(m) /\ tester' = tester
      /\ pc = "open" /\ pc' = pc /\ request' = request
      /\ vin' = vin /\ dtcs' = dtcs /\ announced' = announced
  BY DEF Alive, dataVars
<1>2. m \in Message /\ m.kind = "alive"
  <2>1. <<>> \in Seq(Byte)
    OBVIOUS
  <2>2. "alive" \in Kinds
    BY DEF Kinds
  <2>3. 0 \in Address
    BY DEF Address, BROADCAST
  <2>4. \A to \in Address, body \in Seq(Byte) :
          Reply("alive", to, body) \in Message /\ Reply("alive", to, body).kind = "alive"
    BY <2>2, ReplyIsMessage
  <2>5. Reply("alive", 0, <<>>) \in Message /\ Reply("alive", 0, <<>>).kind = "alive"
    BY <2>1, <2>3, <2>4, Zenon
  <2> QED  BY <2>5
<1> HIDE DEF m
<1>3. HasCode(m)
  BY <1>2 DEF HasCode
<1>4. InOrder(m)
  BY <1>1, <1>2 DEF InOrder, IsReport
<1>5. TypeOK'
  BY <1>1, <1>2, <1>3, Written DEF IndInv, TypeOK
<1> QED  BY <1>1, <1>2, <1>3, <1>4, <1>5, WrittenInOrder

LEMMA DiagnoseKeeps ==
  ASSUME IndInv, NEW s \in Tester, NEW t \in {ECU_ADDRESS, BROADCAST, Elsewhere},
         NEW r \in Request, Diagnose(DiagnosticPayload(s, t, r))
  PROVE  IndInv'
<1> DEFINE p == DiagnosticPayload(s, t, r)
           to == SourceOf(p)
           data == UserDataOf(p)
<1>1. to \in Address /\ data \in Seq(Byte)
  BY SentRequest
<1>2. /\ pc = "open" /\ tester # None /\ tester' = tester
      /\ vin' = vin /\ dtcs' = dtcs /\ announced' = announced
  BY DEF Diagnose, dataVars
<1>3. \/ Write(Reply("ack", to, <<0>>)) /\ pc' = "waiting" /\ request' = data
      \/ Write(Reply("nack", to, <<3>>)) /\ pc' = pc /\ request' = request
  BY DEF Diagnose
<1> HIDE DEF to, data
<1>4. PICK kind \in {"ack", "nack"}, body \in {<<0>>, <<3>>} :
        /\ Write(Reply(kind, to, body))
        /\ \/ kind = "ack" /\ pc' = "waiting" /\ request' = data
           \/ kind = "nack" /\ pc' = pc /\ request' = request
  BY <1>3
<1> DEFINE m == Reply(kind, to, body)
<1>5. body \in Seq(Byte) /\ Len(body) = 1
  <2>1. /\ <<0>> \in Seq(Byte) /\ Len(<<0>>) = 1
        /\ <<3>> \in Seq(Byte) /\ Len(<<3>>) = 1
    BY DEF Byte
  <2> QED  BY <1>4, <2>1, Zenon
<1>6. m \in Message /\ m.kind = kind /\ m.body = body
  BY <1>1, <1>5, ReplyIsMessage DEF Kinds
<1>7. Write(m)
  BY <1>4
<1> HIDE DEF m
<1>8. HasCode(m)
  <2>1. Len(m.body) = 1
    BY <1>5, <1>6, Zenon
  <2> QED  BY <2>1 DEF HasCode
<1>9. InOrder(m)
  BY <1>2, <1>4, <1>6 DEF InOrder, IsReport
<1>10. TypeOK'
  BY <1>1, <1>2, <1>4, <1>6, <1>7, <1>8, Written DEF IndInv, TypeOK
<1> QED  BY <1>6, <1>7, <1>8, <1>9, <1>10, WrittenInOrder

LEMMA CloseKeeps ==
  ASSUME IndInv, Close PROVE IndInv'
  BY Dropped DEF Close, dataVars, IndInv, TypeOK

LEMMA AnnouncementIsBytes ==
  EncodeAnnouncement(Vin, ECU_ADDRESS, Eid, GID) \in Seq(Nat)
<1>1. Vin \in Seq(Nat) /\ Eid \in Seq(Nat)
  BY ExchangeAssumption, BytesAreNumbers
<1>2. GID \in Seq(Nat) /\ <<0, 0>> \in Seq(Nat)
  BY DEF GID
<1>3. BE16(ECU_ADDRESS) \in Seq(Nat)
  BY ShortIsBytes DEF ECU_ADDRESS
<1>4. Header(VehicleAnnouncementMessage, 17 + 2 + 6 + 6 + 1 + 1) \in Seq(Nat)
  BY HeaderIsBytes DEF VehicleAnnouncementMessage
<1> QED  BY <1>1, <1>2, <1>3, <1>4 DEF EncodeAnnouncement

LEMMA IdentifyKeeps ==
  ASSUME IndInv, NEW d, Identify(d) PROVE IndInv'
<1>1. /\ announced' \in Seq(Nat)
      /\ UNCHANGED <<connVars, dataVars>>
  BY AnnouncementIsBytes DEF Identify
<1>2. TypeOK'
  BY <1>1 DEF IndInv, TypeOK, connVars, dataVars
<1>3. ReplyOrder' /\ ServedIsActive'
  BY <1>1 DEF IndInv, ReplyOrder, ServedIsActive, connVars
<1>5. AnswersToActivated'
  BY <1>1 DEF IndInv, AnswersToActivated, LastActivation, connVars
<1>6. ActivatedBefore'
  BY <1>1 DEF IndInv, ActivatedBefore, LastActivation, connVars
<1>4. ClearedStaysCleared' /\ ClearedIsEmpty'
  BY <1>1 DEF IndInv, ClearedStaysCleared, ClearedIsEmpty, ToldCleared, connVars, dataVars
<1> QED  BY <1>2, <1>3, <1>4, <1>5, <1>6 DEF IndInv

LEMMA RestartKeeps ==
  ASSUME Restart PROVE IndInv'
<1>1. <<>> \in Seq(Nat)
  OBVIOUS
<1> QED  BY <1>1, Dropped, ExchangeAssumption DEF Restart

LEMMA StutterKeeps ==
  ASSUME IndInv, UNCHANGED vars PROVE IndInv'
<1>1. TypeOK'
  BY DEF IndInv, TypeOK, vars, connVars, dataVars
<1>2. ReplyOrder' /\ AnswersToActivated' /\ ActivatedBefore' /\ ServedIsActive'
  BY DEF IndInv, ReplyOrder, AnswersToActivated, ActivatedBefore, LastActivation,
         ServedIsActive, vars, connVars
<1>3. ClearedStaysCleared' /\ ClearedIsEmpty'
  BY DEF IndInv, ClearedStaysCleared, ClearedIsEmpty, ToldCleared, vars, connVars, dataVars
<1> QED  BY <1>1, <1>2, <1>3 DEF IndInv

-----------------------------------------------------------------------------
(* The theorems.                                                           *)

(* The inductive invariant holds for every set of testers, every set of    *)
(* requests, every VIN and any number of messages.                         *)
THEOREM Invariance == Spec => []IndInv
<1>1. Init => IndInv
  <2> SUFFICES ASSUME Init PROVE IndInv
    OBVIOUS
  <2>1. TypeOK
    BY ExchangeAssumption DEF Init, TypeOK
  <2>2. Len(meant) = 0 /\ \A i \in 1 .. Len(meant) : FALSE
    BY DEF Init
  <2>3. tester = None /\ pc = "open" /\ dtcs = FirstDtcs
    BY DEF Init
  <2>4. ReplyOrder /\ AnswersToActivated /\ ClearedStaysCleared /\ ClearedIsEmpty
    BY <2>2, <2>3 DEF ReplyOrder, AnswersToActivated, ClearedStaysCleared, ClearedIsEmpty
  <2>5. ActivatedBefore /\ ServedIsActive
    BY <2>3 DEF ActivatedBefore, ServedIsActive
  <2> QED  BY <2>1, <2>4, <2>5 DEF IndInv
<1>2. IndInv /\ [Next]_vars => IndInv'
  <2> SUFFICES ASSUME IndInv, [Next]_vars PROVE IndInv'
    OBVIOUS
  <2>1. ASSUME Frame PROVE IndInv'
    BY <2>1, ActivateKeeps, DiagnoseKeeps, AliveKeeps, CloseKeeps DEF Frame
  <2>2. ASSUME Served PROVE IndInv'
    BY <2>2, AnswerEmptyKeeps, ClearDtcKeeps, ReadDtcKeeps, ReadVinKeeps,
       WriteVinKeeps, AnswerOtherKeeps DEF Served
  <2>3. ASSUME Restart PROVE IndInv'
    BY <2>3, RestartKeeps
  <2>4. ASSUME NEW d \in Datagrams, Identify(d) PROVE IndInv'
    BY <2>4, IdentifyKeeps
  <2>5. ASSUME UNCHANGED vars PROVE IndInv'
    BY <2>5, StutterKeeps
  <2> QED  BY <2>1, <2>2, <2>3, <2>4, <2>5 DEF Next
<1> QED  BY <1>1, <1>2, PTL DEF Spec

(* Every variable keeps its type: in particular every message is well      *)
(* formed, and the VIN keeps its 17 bytes whatever is written to it.       *)
THEOREM TypeCorrect == Spec => []TypeOK
  BY Invariance, PTL DEF IndInv

(* No ack, nack or answer before an activation, and each answer directly   *)
(* after the ack of its request.                                           *)
THEOREM RepliesInOrder == Spec => []ReplyOrder
  BY Invariance, PTL DEF IndInv

(* Each answer goes to the address that was activated last before it.      *)
THEOREM AnswersGoHome == Spec => []AnswersToActivated
  BY Invariance, PTL DEF IndInv

(* A tester that was told that the codes are cleared is shown none.        *)
THEOREM ClearedForGood == Spec => []ClearedStaysCleared
  BY Invariance, PTL DEF IndInv
=============================================================================
