------------------------- MODULE DoipDecodingProofs -------------------------
(***************************************************************************)
(* Proofs about the bytes of DoipExchange: every message that is written   *)
(* decodes to what was meant, and so do the stream of a connection,        *)
(* however long it is, and the announcement.                               *)
(*                                                                         *)
(* DoipExchange!Decoded is a recursive function.  That it has a value for  *)
(* every stream, and that this value is what was meant, is proved by       *)
(* taking the least number of bytes, or of messages, that are left where   *)
(* it would fail first.                                                    *)
(***************************************************************************)
EXTENDS DoipExchangeProofs, WellFoundedInduction

-----------------------------------------------------------------------------
(* Numbers in bytes.                                                       *)

(* A field of n bytes.  (Two inequalities: the solver would replace the    *)
(* length everywhere if it were given as an equality.)                     *)
Field(s, n) == s \in Seq(Nat) /\ Len(s) <= n /\ n <= Len(s)

LEMMA ShortRead ==
  ASSUME NEW n \in Nat
  PROVE  Field(BE16(n), 2) /\ U16(BE16(n), 1) = n
<1>1. ((n \div 256) * 256) + (n % 256) = n
  BY SMT
<1>2. BE16(n) \in Seq(Nat)
  BY ShortIsBytes
<1> QED  BY <1>1, <1>2 DEF BE16, U16, Field

LEMMA TwoFields ==
  ASSUME NEW a, Field(a, 2), NEW b, Field(b, 2)
  PROVE  /\ Field(a \o b, 4)
         /\ U16(a \o b, 1) = U16(a, 1) /\ U16(a \o b, 3) = U16(b, 1)
  BY DEF U16, Field

LEMMA LongRead ==
  ASSUME NEW n \in Nat
  PROVE  Field(BE32(n), 4) /\ U16(BE32(n), 1) * 65536 + U16(BE32(n), 3) = n
<1> DEFINE high == n \div 65536
           low == n % 65536
           a == BE16(high)
           b == BE16(low)
<1>1. high \in Nat /\ low \in Nat /\ (high * 65536) + low = n
  BY SMT
<1> HIDE DEF high, low
<1>2. Field(a, 2) /\ U16(a, 1) = high
  BY <1>1, ShortRead
<1>3. Field(b, 2) /\ U16(b, 1) = low
  BY <1>1, ShortRead
<1>4. BE32(n) = a \o b
  BY DEF BE32, high, low
<1> HIDE DEF a, b
<1>5. Field(a \o b, 4) /\ U16(a \o b, 1) = U16(a, 1) /\ U16(a \o b, 3) = U16(b, 1)
  BY <1>2, <1>3, TwoFields, Zenon
<1>6. Field(BE32(n), 4) /\ U16(BE32(n), 1) = high /\ U16(BE32(n), 3) = low
  BY <1>2, <1>3, <1>4, <1>5, Zenon
<1> QED  BY <1>1, <1>6

LEMMA TwoLongFields ==
  ASSUME NEW a, Field(a, 4), NEW b, Field(b, 4)
  PROVE  /\ Field(a \o b, 8)
         /\ U16(a \o b, 3) = U16(a, 3)
         /\ U16(a \o b, 5) = U16(b, 1) /\ U16(a \o b, 7) = U16(b, 3)
<1>1. Field(a \o b, 8)
  BY DEF Field
<1> DEFINE r == a \o b
<1>2. r[3] = a[3] /\ r[4] = a[4]
  BY DEF Field
<1>3. r[5] = b[1] /\ r[6] = b[2] /\ r[7] = b[3] /\ r[8] = b[4]
  BY DEF Field
<1> HIDE DEF r
<1>4. U16(r, 3) = U16(a, 3) /\ U16(r, 5) = U16(b, 1) /\ U16(r, 7) = U16(b, 3)
  BY <1>2, <1>3 DEF U16
<1> QED  BY <1>1, <1>4, Zenon DEF r

(* A header is read as it was written.                                     *)
LEMMA HeaderRead ==
  ASSUME NEW type \in Nat, NEW length \in Nat
  PROVE  /\ Field(Header(type, length), 8)
         /\ TypeOf(Header(type, length)) = type
         /\ LengthOf(Header(type, length)) = length
<1> DEFINE v == <<PROTOCOL_VERSION, INVERSE_VERSION>>
           t == BE16(type)
           l == BE32(length)
<1>1. Field(v, 2)
  BY DEF PROTOCOL_VERSION, INVERSE_VERSION, Field
<1>2. Field(t, 2) /\ U16(t, 1) = type
  BY ShortRead
<1>3. Field(l, 4) /\ U16(l, 1) * 65536 + U16(l, 3) = length
  BY LongRead
<1> DEFINE vt == v \o t
<1>4. Header(type, length) = vt \o l
  BY DEF Header
<1> HIDE DEF v, t, l
<1>5. Field(vt, 4) /\ U16(vt, 3) = U16(t, 1)
  BY <1>1, <1>2, TwoFields, Zenon
<1> HIDE DEF vt
<1>6. /\ Field(vt \o l, 8) /\ U16(vt \o l, 3) = U16(vt, 3)
      /\ U16(vt \o l, 5) = U16(l, 1) /\ U16(vt \o l, 7) = U16(l, 3)
  BY <1>3, <1>5, TwoLongFields
<1> DEFINE h == Header(type, length)
<1> HIDE DEF h
<1>7. Field(h, 8) /\ U16(h, 3) = type /\ U16(h, 5) = U16(l, 1) /\ U16(h, 7) = U16(l, 3)
  BY <1>2, <1>4, <1>5, <1>6 DEF h
<1>8. TypeOf(h) = type /\ LengthOf(h) = length
  BY <1>3, <1>7 DEF TypeOf, LengthOf
<1> QED  BY <1>7, <1>8 DEF h

LEMMA Squeezed == \A n, m \in Nat : n <= m /\ m <= n => n = m
  OBVIOUS

LEMMA HeadAndRest ==
  ASSUME NEW h, Field(h, 8), NEW p \in Seq(Nat)
  PROVE  /\ h \o p \in Seq(Nat) /\ Len(h \o p) = 8 + Len(p)
         /\ SubSeq(h \o p, 1, 8) = h
         /\ SubSeq(h \o p, 9, Len(h \o p)) = p
<1>1. h \in Seq(Nat) /\ Len(h) = 8
  <2>1. 8 \in Nat
    OBVIOUS
  <2>2. h \in Seq(Nat) /\ Len(h) <= 8 /\ 8 <= Len(h)
    BY DEF Field
  <2>3. Len(h) \in Nat
    BY <2>2, LenProperties
  <2> QED  BY <2>1, <2>2, <2>3, Squeezed, Zenon
<1>2. h \o p \in Seq(Nat) /\ Len(h \o p) = 8 + Len(p)
  BY DEF Field
<1>3. SubSeq(h \o p, 1, 8) = h
  <2>1. ASSUME NEW x \in Seq(Nat) PROVE SubSeq(x \o p, 1, Len(x)) = x
    OBVIOUS
  <2> QED  BY <1>1, <2>1, Zenon
<1>4. SubSeq(h \o p, 9, Len(h \o p)) = p
  BY DEF Field
<1> QED  BY <1>2, <1>3, <1>4

IsFrame(bytes, type, payload) ==
  /\ bytes \in Seq(Nat) /\ Len(bytes) = 8 + Len(payload)
  /\ NextCut(bytes, 0) = Len(bytes)
  /\ MessageAt(bytes, 0) = Meaning(type, payload)

(* What follows a header that states its length is one message.            *)
LEMMA Framed ==
  ASSUME NEW type \in Nat, NEW payload \in Seq(Nat), NEW bytes,
         bytes = Header(type, Len(payload)) \o payload
  PROVE  IsFrame(bytes, type, payload)
<1> DEFINE n == Len(payload)
           h == Header(type, n)
<1>1. n \in Nat
  OBVIOUS
<1>2. Field(h, 8) /\ TypeOf(h) = type /\ LengthOf(h) = n
  BY <1>1, HeaderRead
<1>3. bytes = h \o payload
  OBVIOUS
<1> HIDE DEF n, h
<1>4. /\ h \o payload \in Seq(Nat) /\ Len(h \o payload) = 8 + Len(payload)
      /\ SubSeq(h \o payload, 1, 8) = h
      /\ SubSeq(h \o payload, 9, Len(h \o payload)) = payload
  BY <1>2, HeadAndRest, Zenon
<1>5. HeadAt(bytes, 0) = h
  <2>1. 0 + 1 = 1 /\ 0 + SIZE = 8
    BY DEF SIZE
  <2> QED  BY <1>3, <1>4, <2>1, Zenon DEF HeadAt
<1>6. NextCut(bytes, 0) = Len(bytes)
  <2>1. 0 + SIZE + n = 8 + n
    BY <1>1 DEF SIZE
  <2> QED  BY <1>2, <1>3, <1>4, <1>5, <2>1, Zenon DEF NextCut, n
<1>7. MessageAt(bytes, 0) = Meaning(type, payload)
  <2>1. 0 + SIZE + 1 = 9
    BY DEF SIZE
  <2> QED  BY <1>2, <1>3, <1>4, <1>5, <1>6, <2>1, Zenon DEF MessageAt
<1> QED  BY <1>3, <1>4, <1>6, <1>7, Zenon DEF IsFrame

(* Payloads of two addresses and what follows them.                        *)
LEMMA AddressesRead ==
  ASSUME NEW a, Field(a, 2), NEW b, Field(b, 2), NEW d \in Seq(Nat)
  PROVE  /\ a \o b \o d \in Seq(Nat) /\ Len(a \o b \o d) = 4 + Len(d)
         /\ U16(a \o b \o d, 1) = U16(a, 1) /\ U16(a \o b \o d, 3) = U16(b, 1)
         /\ SubSeq(a \o b \o d, 5, Len(a \o b \o d)) = d
  BY DEF U16, Field

LEMMA Associative ==
  ASSUME NEW s \in Seq(Nat), NEW t \in Seq(Nat), NEW u \in Seq(Nat)
  PROVE  (s \o t) \o u = s \o (t \o u)
  BY ConcatAssociative

Regroups(h, a, b, d) == h \o a \o b \o d = h \o (a \o b \o d)

LEMMA Regrouped ==
  ASSUME NEW h \in Seq(Nat), NEW a \in Seq(Nat), NEW b \in Seq(Nat), NEW d \in Seq(Nat)
  PROVE  Regroups(h, a, b, d)
<1>2. a \o b \in Seq(Nat)
  OBVIOUS
<1>3. (h \o a) \o b = h \o (a \o b)
  BY Associative
<1>4. (h \o (a \o b)) \o d = h \o ((a \o b) \o d)
  BY <1>2, Associative
<1> QED  BY <1>3, <1>4, Zenon DEF Regroups

(* A message with two addresses is read field by field.                    *)
Layout(type, n, x, y, d) == Header(type, n) \o BE16(x) \o BE16(y) \o d

IsAddressed(bytes, type, x, y, d) ==
  \E payload \in Seq(Nat) :
    /\ IsFrame(bytes, type, payload)
    /\ Len(payload) = 4 + Len(d) /\ U16(payload, 1) = x /\ U16(payload, 3) = y
    /\ SubSeq(payload, 5, Len(payload)) = d

LEMMA AddressedRead ==
  ASSUME NEW type \in Nat, NEW x \in Nat, NEW y \in Nat, NEW d \in Seq(Nat), NEW n \in Nat,
         n = 4 + Len(d)
  PROVE  IsAddressed(Layout(type, n, x, y, d), type, x, y, d)
<1> DEFINE a == BE16(x)
           b == BE16(y)
           h == Header(type, n)
           payload == a \o b \o d
           bytes == h \o a \o b \o d
<1>1. Field(a, 2) /\ U16(a, 1) = x
  BY ShortRead
<1>2. Field(b, 2) /\ U16(b, 1) = y
  BY ShortRead
<1>3. a \in Seq(Nat) /\ b \in Seq(Nat) /\ h \in Seq(Nat)
  BY <1>1, <1>2, HeaderRead DEF Field
<1> HIDE DEF a, b
<1>4. /\ payload \in Seq(Nat) /\ Len(payload) = 4 + Len(d)
      /\ U16(payload, 1) = U16(a, 1) /\ U16(payload, 3) = U16(b, 1)
      /\ SubSeq(payload, 5, Len(payload)) = d
  BY <1>1, <1>2, AddressesRead
<1>5. bytes = h \o payload
  <2> HIDE DEF h
  <2>1. Regroups(h, a, b, d)
    BY <1>3, Regrouped
  <2> QED  BY <2>1, Zenon DEF Regroups
<1> HIDE DEF payload
<1>6. Len(payload) = n
  BY <1>4, Zenon
<1>7. bytes = Header(type, Len(payload)) \o payload
  BY <1>5, <1>6, Zenon
<1> HIDE DEF bytes, h, payload
<1>8. IsFrame(bytes, type, payload)
  BY <1>4, <1>7, Framed
<1>9. IsAddressed(bytes, type, x, y, d)
  BY <1>1, <1>2, <1>4, <1>8 DEF IsAddressed
<1> QED  BY <1>9 DEF Layout, a, b, h, bytes

-----------------------------------------------------------------------------
(* The messages.                                                           *)

(* What the application puts into the body of each kind.                   *)
Shaped(m) ==
  /\ m \in Message
  /\ m.kind = "activation" => m.body = <<m.body[1], 0, 0, 0, 0>>
  /\ m.kind \in {"ack", "nack"} => m.body = <<m.body[1]>>
  /\ m.kind = "alive" => m.to = 0 /\ m.body = <<>>

(* The bytes are one frame, read as the message it stands for.             *)
Reads(bytes, m) ==
  /\ bytes \in Seq(Nat) /\ Len(bytes) >= SIZE
  /\ NextCut(bytes, 0) = Len(bytes)
  /\ MessageAt(bytes, 0) = m

LEMMA MessageFields ==
  ASSUME NEW m \in Message
  PROVE  /\ m.from \in Nat /\ m.to \in Nat /\ m.body \in Seq(Nat) /\ m.kind \in Kinds
         /\ m = [kind |-> m.kind, from |-> m.from, to |-> m.to, body |-> m.body]
<1>1. Address \subseteq Nat
  BY DEF Address, BROADCAST
<1>2. m.from \in Address /\ m.to \in Address /\ m.body \in Seq(Byte) /\ m.kind \in Kinds
  BY DEF Message
<1>3. m = [kind |-> m.kind, from |-> m.from, to |-> m.to, body |-> m.body]
  BY DEF Message
<1> QED  BY <1>1, <1>2, <1>3, BytesAreNumbers

(* Kinds that state the source and then the target.                        *)
LEMMA FromToRead ==
  ASSUME NEW m \in Message, NEW type \in Nat, NEW n \in Nat, n = 4 + Len(m.body),
         Encode(m) = Layout(type, n, m.from, m.to, m.body),
         \/ type = DiagnosticMessage /\ m.kind = "answer"
         \/ type = DiagnosticMessagePositiveAck /\ m.kind = "ack"
         \/ type = DiagnosticMessageNegativeAck /\ m.kind = "nack"
  PROVE  Reads(Encode(m), m)
<1>1. /\ m.from \in Nat /\ m.to \in Nat /\ m.body \in Seq(Nat)
      /\ m = [kind |-> m.kind, from |-> m.from, to |-> m.to, body |-> m.body]
  BY MessageFields
<1>2. IsAddressed(Encode(m), type, m.from, m.to, m.body)
  BY <1>1, AddressedRead
<1>3. PICK payload \in Seq(Nat) :
        /\ IsFrame(Encode(m), type, payload)
        /\ Len(payload) = 4 + Len(m.body)
        /\ U16(payload, 1) = m.from /\ U16(payload, 3) = m.to
        /\ SubSeq(payload, 5, Len(payload)) = m.body
  BY <1>2 DEF IsAddressed
<1>4. Len(m.body) \in Nat /\ Len(payload) \in Nat /\ Len(payload) >= 4
  BY <1>1, <1>3
<1>5. Meaning(type, payload) = m
  <2>1. \/ type = 32769 /\ m.kind = "answer"
        \/ type = 32770 /\ m.kind = "ack"
        \/ type = 32771 /\ m.kind = "nack"
    BY DEF DiagnosticMessage, DiagnosticMessagePositiveAck, DiagnosticMessageNegativeAck
  <2> QED  BY <1>1, <1>3, <1>4, <2>1 DEF Meaning
<1>6. Encode(m) \in Seq(Nat) /\ Len(Encode(m)) >= SIZE
  BY <1>3, <1>4 DEF IsFrame, SIZE
<1> QED  BY <1>3, <1>5, <1>6 DEF Reads, IsFrame

LEMMA Zeros ==
  /\ <<0, 0>> \o <<0, 0>> = <<0, 0, 0, 0>>
  /\ \A code \in Nat : <<code>> \o <<0, 0, 0, 0>> = <<code, 0, 0, 0, 0>>
<1>1. ASSUME NEW a \in Seq(Nat), NEW b \in Seq(Nat), NEW c \in Seq(Nat),
             Len(c) = Len(a) + Len(b),
             \A i \in 1 .. Len(a) : c[i] = a[i],
             \A i \in 1 .. Len(b) : c[Len(a) + i] = b[i]
      PROVE  a \o b = c
  <2>1. a \o b \in Seq(Nat) /\ Len(a \o b) = Len(c)
    BY <1>1
  <2>2. ASSUME NEW i \in 1 .. Len(a \o b) PROVE (a \o b)[i] = c[i]
    <3>1. CASE i <= Len(a)
      BY <1>1, <3>1
    <3>2. CASE i > Len(a)
      <4> DEFINE j == i - Len(a)
      <4>1. j \in 1 .. Len(b) /\ i = Len(a) + j
        BY <3>2
      <4> HIDE DEF j
      <4> QED  BY <1>1, <4>1
    <3> QED  BY <3>1, <3>2
  <2> QED  BY <2>1, <2>2, SeqEqual
<1>2. <<0, 0>> \o <<0, 0>> = <<0, 0, 0, 0>>
  <2> DEFINE a == <<0, 0>>
             c == <<0, 0, 0, 0>>
  <2>1. /\ a \in Seq(Nat) /\ c \in Seq(Nat) /\ Len(c) = Len(a) + Len(a)
        /\ \A i \in 1 .. Len(a) : c[i] = a[i]
        /\ \A i \in 1 .. Len(a) : c[Len(a) + i] = a[i]
    OBVIOUS
  <2> HIDE DEF a, c
  <2>2. a \o a = c
    BY <1>1, <2>1, Zenon
  <2> QED  BY <2>2 DEF a, c
<1>3. ASSUME NEW code \in Nat PROVE <<code>> \o <<0, 0, 0, 0>> = <<code, 0, 0, 0, 0>>
  <2> DEFINE a == <<code>>
             b == <<0, 0, 0, 0>>
             c == <<code, 0, 0, 0, 0>>
  <2>1. /\ a \in Seq(Nat) /\ b \in Seq(Nat) /\ c \in Seq(Nat)
        /\ Len(c) = Len(a) + Len(b)
        /\ \A i \in 1 .. Len(a) : c[i] = a[i]
        /\ \A i \in 1 .. Len(b) : c[Len(a) + i] = b[i]
    OBVIOUS
  <2> HIDE DEF a, b, c
  <2>2. a \o b = c
    BY <1>1, <2>1, Zenon
  <2> QED  BY <2>2 DEF a, b, c
<1> QED  BY <1>2, <1>3

(* The activation states the target first, and a reserved field of zeros.  *)
LEMMA ActivationRead ==
  ASSUME NEW m, Shaped(m), m.kind = "activation"
  PROVE  Reads(Encode(m), m)
<1> DEFINE code == m.body[1]
<1>1. /\ m.from \in Nat /\ m.to \in Nat /\ m.body \in Seq(Nat)
      /\ m = [kind |-> m.kind, from |-> m.from, to |-> m.to, body |-> m.body]
  BY MessageFields DEF Shaped
<1>2. m.body = <<code, 0, 0, 0, 0>> /\ Len(m.body) = 5 /\ code \in Nat
  <2>1. m.body = <<code, 0, 0, 0, 0>>
    BY DEF Shaped
  <2>2. Len(<<code, 0, 0, 0, 0>>) = 5
    OBVIOUS
  <2>3. Len(m.body) = 5
    BY <2>1, <2>2, Zenon
  <2>4. 1 \in 1 .. Len(m.body)
    BY <2>3
  <2>5. m.body[1] \in Nat
    BY <1>1, <2>4, ElementOfSeq
  <2> QED  BY <2>1, <2>3, <2>5
<1> HIDE DEF code
<1>3. <<code>> \o BE32(0) = m.body
  <2>1. BE32(0) = <<0, 0, 0, 0>>
    <3>1. 0 \div 65536 = 0 /\ 0 % 65536 = 0 /\ 0 \div 256 = 0 /\ 0 % 256 = 0
      BY SMT
    <3>2. <<0, 0>> \o <<0, 0>> = <<0, 0, 0, 0>>
      BY Zeros
    <3> QED  BY <3>1, <3>2 DEF BE32, BE16
  <2>2. <<code>> \o <<0, 0, 0, 0>> = <<code, 0, 0, 0, 0>>
    BY <1>2, Zeros
  <2> QED  BY <1>2, <2>1, <2>2, Zenon
<1>4. Encode(m) = Layout(6, 9, m.to, m.from, m.body)
  <2> DEFINE h == Header(RoutingActivationResponse, 2 + 2 + 1 + 4)
             front == h \o BE16(m.to) \o BE16(m.from)
  <2>1. Encode(m) = front \o <<m.body[1]>> \o BE32(0)
    BY DEF Shaped, Encode, EncodeActivation
  <2>2. front \in Seq(Nat)
    <3>1. BE16(m.to) \in Seq(Nat) /\ BE16(m.from) \in Seq(Nat)
      BY <1>1, ShortRead DEF Field
    <3>2. h \in Seq(Nat)
      BY HeaderIsBytes DEF RoutingActivationResponse
    <3> HIDE DEF h
    <3> QED  BY <3>1, <3>2
  <2>3. <<code>> \in Seq(Nat) /\ BE32(0) \in Seq(Nat)
    BY <1>2, LongIsBytes
  <2>4. 2 + 2 + 1 + 4 = 9 /\ RoutingActivationResponse = 6
    BY DEF RoutingActivationResponse
  <2>5. front = Header(6, 9) \o BE16(m.to) \o BE16(m.from)
    BY <2>4
  <2> HIDE DEF front, h
  <2>6. (front \o <<code>>) \o BE32(0) = front \o (<<code>> \o BE32(0))
    BY <2>2, <2>3, Associative
  <2> QED  BY <1>3, <2>1, <2>5, <2>6, Zenon DEF Layout, code
<1>5. IsAddressed(Encode(m), 6, m.to, m.from, m.body)
  <2>1. 6 \in Nat /\ 9 \in Nat /\ 9 = 4 + Len(m.body)
    BY <1>2
  <2> QED  BY <1>1, <1>4, <2>1, AddressedRead
<1>6. PICK payload \in Seq(Nat) :
        /\ IsFrame(Encode(m), 6, payload)
        /\ Len(payload) = 4 + Len(m.body)
        /\ U16(payload, 1) = m.to /\ U16(payload, 3) = m.from
        /\ SubSeq(payload, 5, Len(payload)) = m.body
  BY <1>5 DEF IsAddressed
<1>7. Len(payload) \in Nat /\ Len(payload) >= 4
  BY <1>2, <1>6
<1>8. Meaning(6, payload) = m
  BY <1>1, <1>6, <1>7 DEF Meaning
<1>9. Encode(m) \in Seq(Nat) /\ Len(Encode(m)) >= SIZE
  BY <1>6, <1>7 DEF IsFrame, SIZE
<1> QED  BY <1>6, <1>8, <1>9 DEF Reads, IsFrame

(* The answer to an alive check has the source only.                       *)
LEMMA AliveRead ==
  ASSUME NEW m, Shaped(m), m.kind = "alive"
  PROVE  Reads(Encode(m), m)
<1> DEFINE payload == BE16(m.from)
<1>1. /\ m.from \in Nat /\ m.to = 0 /\ m.body = <<>>
      /\ m = [kind |-> m.kind, from |-> m.from, to |-> m.to, body |-> m.body]
  BY MessageFields DEF Shaped
<1>2. payload \in Seq(Nat) /\ Len(payload) = 2 /\ U16(payload, 1) = m.from
  BY <1>1, ShortRead DEF BE16, Field
<1>3. Encode(m) = Header(8, 2) \o payload
  BY DEF Encode, EncodeAlive, AliveCheckResponse
<1> HIDE DEF payload
<1>4. IsFrame(Encode(m), 8, payload)
  BY <1>2, <1>3, Framed
<1>5. SubSeq(payload, 3, Len(payload)) = <<>>
  BY <1>2, SubSeqEmpty
<1>6. Meaning(8, payload) = m
  <2>1. Len(payload) \in Nat /\ Len(payload) >= 2
    BY <1>2
  <2>2. Meaning(8, payload) = [kind |-> "alive", from |-> U16(payload, 1), to |-> 0,
                               body |-> SubSeq(payload, 3, Len(payload))]
    BY <2>1 DEF Meaning
  <2> QED  BY <1>1, <1>2, <1>5, <2>2
<1>7. Encode(m) \in Seq(Nat) /\ Len(Encode(m)) >= SIZE
  BY <1>2, <1>4 DEF IsFrame, SIZE
<1> QED  BY <1>4, <1>6, <1>7 DEF Reads, IsFrame

(* Every message the application writes, whatever its addresses and user   *)
(* data are, is one frame whose header states its length, and is read      *)
(* field by field as what was meant.                                       *)
THEOREM MessagesRead ==
  ASSUME NEW m, Shaped(m) PROVE Reads(Encode(m), m)
<1>1. /\ m \in Message /\ m.kind \in Kinds
      /\ m.body \in Seq(Nat) /\ Len(m.body) \in Nat
  BY MessageFields DEF Shaped
<1>2. CASE m.kind = "answer"
  <2>1. Encode(m) = EncodeDiagnostic(m.from, m.to, m.body)
    BY <1>2 DEF Encode
  <2>2. Encode(m) = Layout(DiagnosticMessage, 4 + Len(m.body), m.from, m.to, m.body)
    BY <2>1, Zenon DEF EncodeDiagnostic, Layout
  <2>3. DiagnosticMessage \in Nat /\ 4 + Len(m.body) \in Nat
    BY <1>1 DEF DiagnosticMessage
  <2> QED  BY <1>1, <1>2, <2>2, <2>3, FromToRead
<1>3. CASE m.kind \in {"ack", "nack"}
  <2> DEFINE tail == <<m.body[1]>>
  <2>1. m.body = tail
    BY <1>3 DEF Shaped
  <2>2. Len(tail) = 1
    OBVIOUS
  <2> HIDE DEF tail
  <2>3. 5 \in Nat /\ 5 = 4 + Len(m.body)
    BY <2>1, <2>2
  <2>4. CASE m.kind = "ack"
    <3>1. Encode(m) = EncodeAck(m.from, m.to, m.body[1])
      BY <2>4 DEF Encode
    <3>2. Encode(m) = Layout(DiagnosticMessagePositiveAck, 5, m.from, m.to, tail)
      BY <3>1, Zenon DEF EncodeAck, Layout, tail
    <3>3. DiagnosticMessagePositiveAck \in Nat
      BY DEF DiagnosticMessagePositiveAck
    <3> QED  BY <1>1, <2>1, <2>3, <2>4, <3>2, <3>3, FromToRead
  <2>5. CASE m.kind = "nack"
    <3>1. Encode(m) = EncodeNack(m.from, m.to, m.body[1])
      BY <2>5 DEF Encode
    <3>2. Encode(m) = Layout(DiagnosticMessageNegativeAck, 5, m.from, m.to, tail)
      BY <3>1, Zenon DEF EncodeNack, Layout, tail
    <3>3. DiagnosticMessageNegativeAck \in Nat
      BY DEF DiagnosticMessageNegativeAck
    <3> QED  BY <1>1, <2>1, <2>3, <2>5, <3>2, <3>3, FromToRead
  <2> QED  BY <1>3, <2>4, <2>5
<1> QED  BY <1>1, <1>2, <1>3, ActivationRead, AliveRead DEF Kinds

-----------------------------------------------------------------------------
(* Induction, in the form of a least counterexample.                       *)

LEMMA LeastNumber ==
  ASSUME NEW T, T \subseteq Nat, T # {}
  PROVE  \E m \in T : \A k \in T : m <= k
<1> DEFINE R == {ss \in Nat \X Nat : ss[1] < ss[2]}
<1>1. IsWellFoundedOn(R, Nat)
  BY NatLessThanWellFounded DEF OpToRel
<1>2. \A k, m \in Nat : k < m => <<k, m>> \in R
  OBVIOUS
<1> HIDE DEF R
<1>3. PICK m \in T : \A k \in T : ~ (<<k, m>> \in R)
  BY <1>1, WFMin
<1>4. ASSUME NEW k \in T PROVE m <= k
  <2>1. k \in Nat /\ m \in Nat
    OBVIOUS
  <2>2. ~ (k < m)
    BY <1>2, <1>3, <2>1
  <2> QED  BY <2>1, <2>2
<1> QED  BY <1>4

-----------------------------------------------------------------------------
(* The stream.                                                             *)

LEMMA CutMovesOn ==
  ASSUME NEW s \in Seq(Nat), NEW i \in Nat, i + SIZE <= Len(s)
  PROVE  /\ NextCut(s, i) \in Nat /\ i + SIZE <= NextCut(s, i)
         /\ LengthOf(HeadAt(s, i)) \in Nat
<1> DEFINE h == HeadAt(s, i)
<1>1. ASSUME NEW j \in 5 .. 8 PROVE h[j] \in Nat
  BY DEF HeadAt, SIZE
<1> HIDE DEF h
<1> DEFINE n == LengthOf(h)
<1>2. n \in Nat
  <2>1. \A a, b \in Nat : a * 256 + b \in Nat
    OBVIOUS
  <2>2. 5 + 1 = 6 /\ 7 + 1 = 8 /\ 5 \in 5 .. 8 /\ 6 \in 5 .. 8 /\ 7 \in 5 .. 8 /\ 8 \in 5 .. 8
    OBVIOUS
  <2>3. U16(h, 5) \in Nat /\ U16(h, 7) \in Nat
    BY <1>1, <2>1, <2>2 DEF U16
  <2>4. \A a, b \in Nat : a * 65536 + b \in Nat
    OBVIOUS
  <2> QED  BY <2>3, <2>4 DEF LengthOf
<1> HIDE DEF n
<1>3. NextCut(s, i) = i + SIZE + n
  BY DEF NextCut, n, h
<1> QED  BY <1>2, <1>3 DEF SIZE, n, h

(* x holds y from the offset k on.                                         *)
Holds(x, k, y) ==
  /\ x \in Seq(Nat) /\ y \in Seq(Nat) /\ k \in Nat
  /\ k + Len(y) <= Len(x)
  /\ \A i \in 1 .. Len(y) : x[k + i] = y[i]

LEMMA Parts ==
  ASSUME NEW s \in Seq(Nat), NEW e \in Seq(Nat)
  PROVE  Holds(s \o e, 0, s) /\ Holds(s \o e, Len(s), e)
  BY DEF Holds

Agree(x, k, y, m, n) == SubSeq(x, k + m, k + n) = SubSeq(y, m, n)

IsPart(part, s, p, q) ==
  /\ part \in Seq(Nat)
  /\ Len(part) = IF p <= q THEN q - p + 1 ELSE 0
  /\ \A i \in 1 .. q - p + 1 : part[i] = s[p + i - 1]

LEMMA PartIsPart ==
  ASSUME NEW s \in Seq(Nat), NEW p \in Nat, 1 <= p, NEW q \in Nat, q <= Len(s)
  PROVE  IsPart(SubSeq(s, p, q), s, p, q)
<1>1. \A i \in p .. q : s[i] \in Nat
  OBVIOUS
<1>2. p \in Int /\ q \in Int
  OBVIOUS
<1>3. /\ SubSeq(s, p, q) \in Seq(Nat)
      /\ Len(SubSeq(s, p, q)) = IF p <= q THEN q - p + 1 ELSE 0
  BY <1>1, <1>2, SubSeqProperties, SMTT(30)
<1>4. \A i \in 1 .. q - p + 1 : SubSeq(s, p, q)[i] = s[p + i - 1]
  BY <1>1, <1>2, SubSeqProperties, SMTT(30)
<1> QED  BY <1>3, <1>4, Zenon DEF IsPart

LEMMA SamePart ==
  ASSUME NEW x, NEW k, NEW y, Holds(x, k, y), NEW m \in Nat, 1 <= m, NEW n \in Nat, n <= Len(y)
  PROVE  Agree(x, k, y, m, n)
<1> USE DEF Holds
<1>1. /\ SubSeq(y, m, n) \in Seq(Nat)
      /\ Len(SubSeq(y, m, n)) = IF m <= n THEN n - m + 1 ELSE 0
      /\ \A i \in 1 .. n - m + 1 : SubSeq(y, m, n)[i] = y[m + i - 1]
  <2>1. y \in Seq(Nat)
    OBVIOUS
  <2> QED  BY <2>1, PartIsPart DEF IsPart
<1>2. /\ SubSeq(x, k + m, k + n) \in Seq(Nat)
      /\ Len(SubSeq(x, k + m, k + n)) = IF k + m <= k + n THEN (k + n) - (k + m) + 1 ELSE 0
      /\ \A i \in 1 .. (k + n) - (k + m) + 1 : SubSeq(x, k + m, k + n)[i] = x[(k + m) + i - 1]
  <2> DEFINE p == k + m
             q == k + n
  <2>1. x \in Seq(Nat) /\ p \in Nat /\ 1 <= p /\ q \in Nat /\ q <= Len(x)
    OBVIOUS
  <2> HIDE DEF p, q
  <2>2. IsPart(SubSeq(x, p, q), x, p, q)
    BY <2>1, PartIsPart
  <2> QED  BY <2>2, Zenon DEF IsPart, p, q
<1> DEFINE a == SubSeq(x, k + m, k + n)
           b == SubSeq(y, m, n)
           l == IF m <= n THEN n - m + 1 ELSE 0
<1>3. Len(a) = l /\ Len(b) = l /\ l \in Nat
  BY <1>1, <1>2
<1>4. ASSUME NEW i \in 1 .. l PROVE a[i] = b[i]
  <2>1. /\ i \in 1 .. n - m + 1 /\ i \in 1 .. (k + n) - (k + m) + 1
        /\ m + i - 1 \in 1 .. Len(y) /\ (k + m) + i - 1 = k + (m + i - 1)
    OBVIOUS
  <2>2. a[i] = x[k + (m + i - 1)]
    BY <1>2, <2>1
  <2>3. b[i] = y[m + i - 1]
    BY <1>1, <2>1
  <2> QED  BY <2>1, <2>2, <2>3
<1>5. a \in Seq(Nat) /\ b \in Seq(Nat)
  BY <1>1, <1>2
<1> HIDE DEF a, b, l
<1>6. a = b
  BY <1>3, <1>4, <1>5, SeqEqual
<1> QED  BY <1>6 DEF a, b, Agree

(* A part is cut and read like the sequence it is.                         *)
LEMMA PartRead ==
  ASSUME NEW x, NEW k, NEW y, Holds(x, k, y), NEW i \in Nat, i + SIZE <= Len(y),
         NextCut(y, i) <= Len(y)
  PROVE  /\ NextCut(x, k + i) = k + NextCut(y, i)
         /\ MessageAt(x, k + i) = MessageAt(y, i)
<1> DEFINE h == HeadAt(y, i)
           next == NextCut(y, i)
<1>1. k \in Nat /\ y \in Seq(Nat)
  BY DEF Holds
<1>2. next \in Nat /\ i + SIZE <= next /\ LengthOf(h) \in Nat
  BY <1>1, CutMovesOn
<1>3. HeadAt(x, k + i) = h
  <2> DEFINE m == i + 1
             n == i + SIZE
  <2>1. /\ m \in Nat /\ 1 <= m /\ n \in Nat /\ n <= Len(y)
        /\ k + m = k + i + 1 /\ k + n = k + i + SIZE
    BY <1>1 DEF SIZE
  <2> HIDE DEF m, n
  <2>2. Agree(x, k, y, m, n)
    BY <2>1, SamePart
  <2> QED  BY <2>1, <2>2, Zenon DEF Agree, HeadAt, h, m, n
<1>4. next = i + SIZE + LengthOf(h)
  BY DEF NextCut
<1>5. NextCut(x, k + i) = (k + i) + SIZE + LengthOf(h)
  BY <1>3, Zenon DEF NextCut
<1> HIDE DEF h, next
<1>6. NextCut(x, k + i) = k + next
  BY <1>1, <1>2, <1>4, <1>5 DEF SIZE
<1>7. MessageAt(x, k + i) = MessageAt(y, i)
  <2> DEFINE m == i + SIZE + 1
  <2>1. /\ m \in Nat /\ 1 <= m /\ next <= Len(y)
        /\ k + m = k + i + SIZE + 1
    BY <1>1 DEF SIZE, next
  <2> HIDE DEF m
  <2>2. Agree(x, k, y, m, next)
    BY <1>2, <2>1, SamePart
  <2> QED  BY <1>3, <1>6, <2>1, <2>2, Zenon DEF Agree, MessageAt, h, next, m
<1> QED  BY <1>6, <1>7 DEF next

-----------------------------------------------------------------------------
(* The recursive definition of Decoded.                                    *)

From(bytes, f, i) ==
  IF i + SIZE > Len(bytes) \/ NextCut(bytes, i) > Len(bytes) THEN <<>>
  ELSE <<MessageAt(bytes, i)>> \o f[NextCut(bytes, i)]

Solves(bytes, f, first) == f = [i \in first .. Len(bytes) |-> From(bytes, f, i)]

LEMMA DecodedUnfolds ==
  ASSUME NEW bytes
  PROVE  Decoded(bytes) = (CHOOSE f : Solves(bytes, f, 0))[0]
  BY DEF Decoded, Solves, From

(* A solution from one offset on is a solution from the offset before: the *)
(* next cut lies further on.                                               *)
LEMMA SolutionGrows ==
  ASSUME NEW bytes \in Seq(Nat), NEW first \in Nat, first < Len(bytes),
         NEW f, Solves(bytes, f, first + 1)
  PROVE  \E g : Solves(bytes, g, first)
<1> DEFINE n == Len(bytes)
           g == [i \in first .. n |-> IF i = first THEN From(bytes, f, first) ELSE f[i]]
<1>1. n \in Nat
  OBVIOUS
<1>2. ASSUME NEW i \in first .. n PROVE From(bytes, g, i) = From(bytes, f, i)
  <2>1. CASE i + SIZE > n \/ NextCut(bytes, i) > n
    BY <2>1 DEF From
  <2>2. CASE ~ (i + SIZE > n) /\ ~ (NextCut(bytes, i) > n)
    <3> DEFINE next == NextCut(bytes, i)
    <3>1. next \in Nat /\ i + SIZE <= next
      BY <1>1, <2>2, CutMovesOn DEF SIZE
    <3>2. next \in first .. n /\ next # first
      BY <1>1, <2>2, <3>1 DEF SIZE
    <3> HIDE DEF next
    <3>3. g[next] = f[next]
      BY <3>2
    <3> QED  BY <3>3 DEF From, next
  <2> QED  BY <2>1, <2>2
<1>3. ASSUME NEW i \in first .. n PROVE g[i] = From(bytes, f, i)
  <2>1. CASE i = first
    BY <2>1
  <2>2. CASE i # first
    <3>1. i \in first + 1 .. n
      BY <1>1, <2>2
    <3>2. f[i] = From(bytes, f, i)
      BY <3>1 DEF Solves
    <3> QED  BY <2>2, <3>2
  <2> QED  BY <2>1, <2>2
<1>4. g = [i \in first .. n |-> From(bytes, g, i)]
  BY <1>2, <1>3
<1> QED  BY <1>4 DEF Solves

LEMMA DecodedExists ==
  ASSUME NEW bytes \in Seq(Nat)
  PROVE  \E f : Solves(bytes, f, 0)
<1> DEFINE n == Len(bytes)
           T == {d \in 0 .. n : ~ \E f : Solves(bytes, f, n - d)}
<1>1. n \in Nat
  OBVIOUS
<1>2. \E f : Solves(bytes, f, n)
  <2> DEFINE f == [i \in n .. n |-> <<>>]
  <2>1. \A i \in n .. n : From(bytes, f, i) = <<>>
    BY <1>1 DEF From, SIZE
  <2>2. f = [i \in n .. n |-> From(bytes, f, i)]
    BY <2>1
  <2> QED  BY <2>2 DEF Solves
<1>3. ASSUME T # {} PROVE FALSE
  <2>1. T \subseteq Nat
    BY <1>1
  <2>2. PICK d \in T : \A k \in T : d <= k
    BY <1>3, <2>1, LeastNumber
  <2>3. d \in 0 .. n /\ ~ \E f : Solves(bytes, f, n - d)
    OBVIOUS
  <2>4. d # 0
    BY <1>1, <1>2, <2>3
  <2>5. d - 1 \in 0 .. n /\ ~ (d <= d - 1) /\ n - (d - 1) = (n - d) + 1
        /\ n - d \in Nat /\ n - d < n
    BY <1>1, <2>3, <2>4
  <2>6. d - 1 \notin T
    BY <2>2, <2>5
  <2>7. PICK f : Solves(bytes, f, n - (d - 1))
    BY <2>5, <2>6
  <2>8. \E g : Solves(bytes, g, n - d)
    BY <2>5, <2>7, SolutionGrows
  <2> QED  BY <2>3, <2>8
<1>4. n \in 0 .. n /\ n - n = 0
  BY <1>1
<1> QED  BY <1>3, <1>4

-----------------------------------------------------------------------------
(* Where a stream has to be cut for its messages to be found.              *)

IsCut(bytes, messages, cut) ==
  /\ cut \in [0 .. Len(messages) -> Nat]
  /\ cut[0] = 0 /\ cut[Len(messages)] = Len(bytes)
  /\ \A k \in 1 .. Len(messages) :
       /\ cut[k - 1] + SIZE <= cut[k] /\ cut[k] <= Len(bytes)
       /\ NextCut(bytes, cut[k - 1]) = cut[k]
       /\ MessageAt(bytes, cut[k - 1]) = messages[k]

Whole(bytes, messages) == \E cut : IsCut(bytes, messages, cut)

(* A tester that reads header by header finds these messages: from the     *)
(* last cut backwards, what is found is the rest of the messages.          *)
LEMMA WholeDecodes ==
  ASSUME NEW bytes \in Seq(Nat), NEW messages \in Seq(Message), Whole(bytes, messages)
  PROVE  Decoded(bytes) = messages
<1> DEFINE n == Len(messages)
<1>1. n \in Nat /\ Len(bytes) \in Nat
  OBVIOUS
<1>2. PICK cut : IsCut(bytes, messages, cut)
  BY DEF Whole
<1>3. PICK f : Solves(bytes, f, 0) /\ Decoded(bytes) = f[0]
  BY DecodedExists, DecodedUnfolds
<1> DEFINE Found(k) == f[cut[k]] = SubSeq(messages, k + 1, n)
           T == {d \in 0 .. n : ~ Found(n - d)}
<1>4. \A k \in 0 .. n : cut[k] \in 0 .. Len(bytes)
  <2>1. \A k \in 0 .. n : cut[k] \in Nat
    BY <1>2 DEF IsCut
  <2>2. \A k \in 1 .. n : cut[k] <= Len(bytes)
    BY <1>2 DEF IsCut
  <2>3. cut[0] = 0
    BY <1>2 DEF IsCut
  <2> QED  BY <1>1, <2>1, <2>2, <2>3
<1>5. \A i \in 0 .. Len(bytes) : f[i] = From(bytes, f, i)
  BY <1>3 DEF Solves
<1>6. Found(n)
  <2>1. cut[n] = Len(bytes)
    BY <1>2 DEF IsCut
  <2>2. f[Len(bytes)] = From(bytes, f, Len(bytes))
    BY <1>1, <1>5
  <2>3. From(bytes, f, Len(bytes)) = <<>>
    BY <1>1 DEF From, SIZE
  <2>4. SubSeq(messages, n + 1, n) = <<>>
    BY <1>1, SubSeqEmpty
  <2> QED  BY <2>1, <2>2, <2>3, <2>4
<1>7. ASSUME NEW k \in 1 .. n, Found(k) PROVE Found(k - 1)
  <2>1. /\ cut[k - 1] + SIZE <= cut[k] /\ cut[k] <= Len(bytes)
        /\ NextCut(bytes, cut[k - 1]) = cut[k]
        /\ MessageAt(bytes, cut[k - 1]) = messages[k]
    BY <1>2 DEF IsCut
  <2>2. cut[k - 1] \in 0 .. Len(bytes) /\ cut[k] \in 0 .. Len(bytes)
    BY <1>1, <1>4
  <2>3. ~ (cut[k - 1] + SIZE > Len(bytes)) /\ ~ (cut[k] > Len(bytes))
    BY <1>1, <2>1, <2>2 DEF SIZE
  <2>4. From(bytes, f, cut[k - 1]) = <<messages[k]>> \o f[cut[k]]
    BY <2>1, <2>3, Zenon DEF From
  <2>5. f[cut[k - 1]] = <<messages[k]>> \o f[cut[k]]
    BY <1>5, <2>2, <2>4
  <2>6. SubSeq(messages, k, n) = <<messages[k]>> \o SubSeq(messages, k + 1, n)
    <3>1. k \in 1 .. Len(messages) /\ n \in k .. Len(messages)
      BY <1>1
    <3> QED  BY <3>1, SubSeqRecursiveFirst
  <2>7. k - 1 + 1 = k
    OBVIOUS
  <2> QED  BY <1>7, <2>5, <2>6, <2>7, Zenon
<1> HIDE DEF Found
<1>8. ASSUME T # {} PROVE FALSE
  <2>1. T \subseteq Nat
    BY <1>1
  <2>2. PICK d \in T : \A k \in T : d <= k
    BY <1>8, <2>1, LeastNumber
  <2>3. d \in 0 .. n /\ ~ Found(n - d)
    OBVIOUS
  <2>4. d # 0
    <3>1. n - 0 = n
      BY <1>1
    <3> QED  BY <1>6, <2>3, <3>1
  <2>5. d - 1 \in 0 .. n /\ ~ (d <= d - 1) /\ n - (d - 1) \in 1 .. n
        /\ n - (d - 1) - 1 = n - d
    BY <1>1, <2>3, <2>4
  <2>6. Found(n - (d - 1))
    BY <2>2, <2>5
  <2> QED  BY <1>7, <2>3, <2>5, <2>6
<1>9. Found(0)
  <2>1. n \in 0 .. n /\ n - n = 0
    BY <1>1
  <2> QED  BY <1>8, <2>1
<1>10. cut[0] = 0 /\ SubSeq(messages, 0 + 1, n) = messages
  <2>1. cut[0] = 0
    BY <1>2 DEF IsCut
  <2>2. 0 + 1 = 1
    OBVIOUS
  <2> QED  BY <2>1, <2>2, SubSeqFull, Zenon
<1> QED  BY <1>3, <1>9, <1>10 DEF Found

(* A frame written behind a whole stream leaves a whole stream.            *)
LEMMA WholeExtended ==
  ASSUME NEW bytes \in Seq(Nat), NEW messages \in Seq(Message), Whole(bytes, messages),
         NEW e, NEW m \in Message, Reads(e, m)
  PROVE  Whole(bytes \o e, Append(messages, m))
<1> DEFINE n == Len(messages)
           all == bytes \o e
           after == Append(messages, m)
<1>1. PICK cut : IsCut(bytes, messages, cut)
  BY DEF Whole
<1>2. /\ e \in Seq(Nat) /\ Len(e) >= SIZE
      /\ NextCut(e, 0) = Len(e) /\ MessageAt(e, 0) = m
  BY DEF Reads
<1>3. /\ n \in Nat /\ Len(bytes) \in Nat /\ Len(e) \in Nat
      /\ Len(all) = Len(bytes) + Len(e)
  BY <1>2
<1>4. /\ Len(after) = n + 1 /\ after[n + 1] = m
      /\ \A k \in 1 .. n : after[k] = messages[k]
  BY AppendProperties
<1>5. Holds(all, 0, bytes) /\ Holds(all, Len(bytes), e)
  BY <1>2, Parts
<1> HIDE DEF all, after
<1> DEFINE longer == [k \in 0 .. n + 1 |-> IF k = n + 1 THEN Len(all) ELSE cut[k]]
<1>6. /\ longer \in [0 .. n + 1 -> Nat] /\ longer[n + 1] = Len(all)
      /\ \A k \in 0 .. n : longer[k] = cut[k]
  BY <1>1, <1>3 DEF IsCut
<1>7. cut[0] = 0 /\ cut[n] = Len(bytes)
  BY <1>1 DEF IsCut
<1> HIDE DEF longer
<1>8. ASSUME NEW k \in 1 .. n
      PROVE  /\ longer[k - 1] + SIZE <= longer[k] /\ longer[k] <= Len(all)
             /\ NextCut(all, longer[k - 1]) = longer[k]
             /\ MessageAt(all, longer[k - 1]) = after[k]
  <2> DEFINE i == cut[k - 1]
  <2>1. k - 1 \in 0 .. n /\ k \in 0 .. n
    BY <1>3
  <2>2. i \in Nat /\ cut[k] \in Nat
    BY <1>1, <2>1 DEF IsCut
  <2>3. /\ i + SIZE <= cut[k] /\ cut[k] <= Len(bytes)
        /\ NextCut(bytes, i) = cut[k] /\ MessageAt(bytes, i) = messages[k]
    BY <1>1 DEF IsCut
  <2> HIDE DEF i
  <2>4. i + SIZE <= Len(bytes) /\ NextCut(bytes, i) <= Len(bytes) /\ 0 + i = i
    BY <1>3, <2>2, <2>3 DEF SIZE
  <2>5. NextCut(all, 0 + i) = 0 + NextCut(bytes, i) /\ MessageAt(all, 0 + i) = MessageAt(bytes, i)
    BY <1>5, <2>2, <2>4, PartRead
  <2>6. 0 + NextCut(bytes, i) = cut[k]
    BY <2>2, <2>3
  <2>7. NextCut(all, i) = cut[k] /\ MessageAt(all, i) = messages[k]
    BY <2>3, <2>4, <2>5, <2>6, Zenon
  <2>8. cut[k] <= Len(all)
    BY <1>3, <2>2, <2>3
  <2>9. longer[k - 1] = i /\ longer[k] = cut[k]
    BY <1>6, <2>1 DEF i
  <2> QED  BY <1>4, <2>3, <2>7, <2>8, <2>9, Zenon
<1>9. /\ longer[n] + SIZE <= longer[n + 1]
      /\ NextCut(all, longer[n]) = longer[n + 1]
      /\ MessageAt(all, longer[n]) = m
  <2>1. longer[n] = Len(bytes) /\ longer[n + 1] = Len(bytes) + Len(e)
    BY <1>3, <1>6, <1>7
  <2> DEFINE l == Len(bytes)
             start == 0
  <2>2. /\ l + start = l /\ start + SIZE <= Len(e) /\ start \in Nat
        /\ NextCut(e, start) = Len(e) /\ NextCut(e, start) <= Len(e)
        /\ MessageAt(e, start) = m /\ Holds(all, l, e)
    BY <1>2, <1>3, <1>5 DEF SIZE
  <2> HIDE DEF l, start
  <2>3. /\ NextCut(all, l + start) = l + NextCut(e, start)
        /\ MessageAt(all, l + start) = MessageAt(e, start)
    BY <2>2, PartRead
  <2>4. NextCut(all, Len(bytes)) = Len(bytes) + Len(e) /\ MessageAt(all, Len(bytes)) = m
    BY <2>2, <2>3, Zenon DEF l
  <2>5. Len(bytes) + SIZE <= Len(bytes) + Len(e)
    BY <1>2, <1>3 DEF SIZE
  <2> QED  BY <2>1, <2>4, <2>5, Zenon
<1>10. ASSUME NEW k \in 1 .. n + 1
       PROVE  /\ longer[k - 1] + SIZE <= longer[k] /\ longer[k] <= Len(all)
              /\ NextCut(all, longer[k - 1]) = longer[k]
              /\ MessageAt(all, longer[k - 1]) = after[k]
  <2>1. CASE k \in 1 .. n
    BY <1>8, <2>1
  <2>2. CASE k = n + 1
    <3>1. k - 1 = n /\ Len(all) <= Len(all)
      BY <1>3, <2>2
    <3> QED  BY <1>4, <1>6, <1>9, <2>2, <3>1, Zenon
  <2>3. k \in 1 .. n \/ k = n + 1
    BY <1>3
  <2> QED  BY <2>1, <2>2, <2>3
<1>11. longer[0] = 0
  BY <1>3, <1>6, <1>7
<1>12. IsCut(all, after, longer)
  BY <1>4, <1>6, <1>10, <1>11 DEF IsCut
<1> QED  BY <1>12 DEF Whole, all, after

-----------------------------------------------------------------------------
(* What a step does to the histories of the connection.                    *)

Writes == \/ UNCHANGED <<stream, meant>>
          \/ stream' = <<>> /\ meant' = <<>>
          \/ \E m : Shaped(m) /\ Write(m)

LEMMA AnswerWrites ==
  ASSUME IndInv, pc = "waiting", NEW body \in Seq(Byte), Answer(body)
  PROVE  Writes
<1> DEFINE m == Reply("answer", tester, body)
<1>1. tester \in Address
  BY DEF IndInv, TypeOK, ServedIsActive
<1>2. m \in Message /\ m.kind = "answer"
  BY <1>1, ReplyIsMessage DEF Kinds
<1>3. \/ UNCHANGED <<stream, meant>>
      \/ stream' = <<>> /\ meant' = <<>>
      \/ Write(m)
  BY DEF Answer, Drop
<1> HIDE DEF m
<1>4. Shaped(m)
  BY <1>2 DEF Shaped
<1> QED  BY <1>3, <1>4 DEF Writes

LEMMA NegativeIsBytes ==
  ASSUME NEW sid \in Byte, NEW nrc \in Byte
  PROVE  Negative(sid, nrc) \in Seq(Byte)
  BY NegativeIsPlain DEF Plain

LEMMA ServedWrites ==
  ASSUME IndInv, Served PROVE Writes
<1>1. /\ pc = "waiting" /\ request \in Seq(Byte) /\ vin \in Seq(Byte)
      /\ dtcs \in {FirstDtcs, <<>>}
  BY DEF Served, AnswerEmpty, ClearDtc, ReadDtc, ReadVin, ReadsVin, WriteVin, WritesVin,
         AnswerOther, Asked, IndInv, TypeOK
<1>2. /\ 0 \in Byte /\ 17 \in Byte /\ 18 \in Byte /\ 19 \in Byte /\ 20 \in Byte
      /\ 25 \in Byte /\ 46 \in Byte /\ 127 \in Byte
  BY DEF Byte
<1>3. /\ Negative(0, 19) \in Seq(Byte) /\ Negative(20, 19) \in Seq(Byte)
      /\ Negative(25, 19) \in Seq(Byte) /\ Negative(25, 18) \in Seq(Byte)
      /\ Negative(46, 127) \in Seq(Byte) /\ Negative(46, 19) \in Seq(Byte)
  BY <1>2, NegativeIsBytes
<1>4. CASE AnswerEmpty
  BY <1>1, <1>3, <1>4, AnswerWrites DEF AnswerEmpty
<1>5. CASE ClearDtc
  <2>1. << 84 >> \in Seq(Byte)
    BY DEF Byte
  <2>2. Answer(Negative(20, 19)) \/ Answer(<< 84 >>)
    BY <1>5 DEF ClearDtc
  <2> QED  BY <1>1, <1>3, <2>1, <2>2, AnswerWrites
<1>6. CASE ReadDtc
  <2> DEFINE report == <<89, 2, 255>> \o Records(request[3])
  <2>1. report \in Seq(Byte)
    <3>1. <<89, 2, 255>> \in Seq(Byte)
      BY DEF Byte
    <3>2. Records(request[3]) \in Seq(Byte)
      BY <1>1, RecordsOfNone
    <3> QED  BY <3>1, <3>2, ConcatProperties
  <2>2. Answer(Negative(25, 19)) \/ Answer(Negative(25, 18)) \/ Answer(report)
    BY <1>6 DEF ReadDtc
  <2> HIDE DEF report
  <2> QED  BY <1>1, <1>3, <2>1, <2>2, AnswerWrites
<1>7. CASE ReadVin
  <2> DEFINE body == <<98>> \o VinDid \o vin
  <2>1. body \in Seq(Byte)
    <3>1. <<98>> \o VinDid \in Seq(Byte)
      BY DEF VinDid, Byte
    <3> QED  BY <1>1, <3>1, ConcatProperties
  <2>2. Answer(body)
    BY <1>7 DEF ReadVin
  <2> HIDE DEF body
  <2> QED  BY <1>1, <2>1, <2>2, AnswerWrites
<1>8. CASE WriteVin
  <2>1. <<110>> \o VinDid \in Seq(Byte)
    BY DEF VinDid, Byte
  <2>2. Answer(Negative(46, 127)) \/ Answer(Negative(46, 19)) \/ Answer(<<110>> \o VinDid)
    BY <1>8 DEF WriteVin
  <2> QED  BY <1>1, <1>3, <2>1, <2>2, AnswerWrites
<1>9. CASE AnswerOther
  <2> DEFINE sid == request[1]
             positive == (sid + 64) % 256
  <2>1. sid \in Byte
    <3>1. Len(request) \in Nat \ {0}
      BY <1>1, <1>9, EmptySeq DEF AnswerOther
    <3>2. 1 \in 1 .. Len(request)
      BY <3>1
    <3> QED  BY <1>1, <3>2, ElementOfSeq
  <2>2. PICK body \in {<<>>, <<positive>>, Negative(sid, 17)} : Answer(body)
    BY <1>9 DEF AnswerOther
  <2>3. <<positive>> \in Seq(Byte)
    <3>1. sid \in 0 .. 255
      BY <2>1 DEF Byte
    <3> HIDE DEF sid
    <3>2. positive \in 0 .. 255
      BY <3>1, SMT
    <3> HIDE DEF positive
    <3> QED  BY <3>2 DEF Byte
  <2>4. Negative(sid, 17) \in Seq(Byte)
    BY <1>2, <2>1, NegativeIsBytes
  <2>5. <<>> \in Seq(Byte)
    OBVIOUS
  <2> HIDE DEF positive
  <2>6. body \in Seq(Byte)
    BY <2>2, <2>3, <2>4, <2>5
  <2> QED  BY <1>1, <2>2, <2>6, AnswerWrites
<1> QED  BY <1>4, <1>5, <1>6, <1>7, <1>8, <1>9 DEF Served

LEMMA FrameWrites ==
  ASSUME IndInv, Frame PROVE Writes
<1>1. ASSUME NEW t \in Tester, NEW n \in {5, 9}, Activate(ActivationPayload(t, n))
      PROVE  Writes
  <2> DEFINE code == <<16, 0, 0, 0, 0>>
             to == SourceOf(ActivationPayload(t, n))
             m == Reply("activation", to, code)
  <2>1. to \in Address /\ Write(m)
    BY <1>1, SentActivation DEF Activate
  <2>2. code \in Seq(Byte) /\ code = <<code[1], 0, 0, 0, 0>>
    BY DEF Byte
  <2> HIDE DEF to, code
  <2>3. m \in Message /\ m.kind = "activation" /\ m.body = code
    BY <2>1, <2>2, ReplyIsMessage DEF Kinds
  <2> HIDE DEF m
  <2>4. Shaped(m)
    BY <2>2, <2>3 DEF Shaped
  <2> QED  BY <2>1, <2>4 DEF Writes
<1>2. ASSUME NEW s \in Tester, NEW t \in {ECU_ADDRESS, BROADCAST, Elsewhere},
             NEW r \in Request, Diagnose(DiagnosticPayload(s, t, r))
      PROVE  Writes
  <2> DEFINE to == SourceOf(DiagnosticPayload(s, t, r))
  <2>1. to \in Address
    BY SentRequest
  <2>2. Write(Reply("ack", to, <<0>>)) \/ Write(Reply("nack", to, <<3>>))
    BY <1>2 DEF Diagnose
  <2> HIDE DEF to
  <2>3. ASSUME NEW kind \in {"ack", "nack"}, NEW c \in {0, 3} PROVE Shaped(Reply(kind, to, <<c>>))
    <3> DEFINE body == <<c>>
               m == Reply(kind, to, body)
    <3>1. body \in Seq(Byte) /\ body = <<body[1]>>
      BY DEF Byte
    <3> HIDE DEF body
    <3>2. m \in Message /\ m.kind = kind /\ m.body = body
      BY <2>1, <3>1, ReplyIsMessage DEF Kinds
    <3> HIDE DEF m
    <3>3. Shaped(m)
      BY <3>1, <3>2 DEF Shaped
    <3> QED  BY <3>3 DEF m, body
  <2> QED  BY <2>2, <2>3 DEF Writes
<1>3. ASSUME Alive PROVE Writes
  <2> DEFINE m == Reply("alive", 0, <<>>)
  <2>1. Write(m)
    BY <1>3 DEF Alive
  <2>2. m \in Message /\ m.kind = "alive" /\ m.to = 0 /\ m.body = <<>>
    <3>1. <<>> \in Seq(Byte)
      OBVIOUS
    <3> QED  BY <3>1, EcuAddress DEF Reply, Message, Kinds
  <2> HIDE DEF m
  <2>3. Shaped(m)
    BY <2>2 DEF Shaped
  <2> QED  BY <2>1, <2>3 DEF Writes
<1>4. ASSUME Close PROVE Writes
  BY <1>4 DEF Close, Drop, Writes
<1> QED  BY <1>1, <1>2, <1>3, <1>4 DEF Frame

LEMMA StepWrites ==
  ASSUME IndInv, [Next]_vars PROVE Writes
<1>1. ASSUME Restart PROVE Writes
  BY <1>1 DEF Restart, Drop, Writes
<1>2. ASSUME NEW d \in Datagrams, Identify(d) PROVE Writes
  BY <1>2 DEF Identify, connVars, Writes
<1>3. ASSUME UNCHANGED vars PROVE Writes
  BY <1>3 DEF vars, connVars, Writes
<1> QED  BY <1>1, <1>2, <1>3, FrameWrites, ServedWrites DEF Next

-----------------------------------------------------------------------------
(* The theorems.                                                           *)

LEMMA NothingIsWhole ==
  Whole(<<>>, <<>>)
<1> DEFINE cut == [k \in 0 .. 0 |-> 0]
<1>1. Len(<<>>) = 0 /\ \A k \in 1 .. 0 : FALSE
  OBVIOUS
<1>2. cut \in [0 .. 0 -> Nat] /\ cut[0] = 0
  OBVIOUS
<1> HIDE DEF cut
<1>3. IsCut(<<>>, <<>>, cut)
  BY <1>1, <1>2 DEF IsCut
<1> QED  BY <1>3 DEF Whole

(* On every connection, whatever testers ask in whatever order and for     *)
(* however long, the bytes written are whole frames, and a tester that     *)
(* goes by the header lengths reads exactly the messages that were meant.  *)
THEOREM StreamDecodes == Spec => []TesterReads
<1> DEFINE Inv == IndInv /\ Whole(stream, meant)
<1>1. Init => Whole(stream, meant)
  BY NothingIsWhole DEF Init
<1>2. Whole(stream, meant) /\ IndInv /\ [Next]_vars => Whole(stream, meant)'
  <2> SUFFICES ASSUME Whole(stream, meant), IndInv, [Next]_vars PROVE Whole(stream', meant')
    OBVIOUS
  <2>1. Writes
    BY StepWrites
  <2>2. stream \in Seq(Nat) /\ meant \in Seq(Message)
    BY DEF IndInv, TypeOK
  <2>3. CASE UNCHANGED <<stream, meant>>
    BY <2>3
  <2>4. CASE stream' = <<>> /\ meant' = <<>>
    BY <2>4, NothingIsWhole
  <2>5. ASSUME NEW m, Shaped(m), Write(m) PROVE Whole(stream', meant')
    <3>1. Reads(Encode(m), m) /\ m \in Message
      BY <2>5, MessagesRead DEF Shaped
    <3>2. Whole(stream \o Encode(m), Append(meant, m))
      BY <2>2, <3>1, WholeExtended
    <3> QED  BY <2>5, <3>2 DEF Write
  <2> QED  BY <2>1, <2>3, <2>4, <2>5 DEF Writes
<1>3. Whole(stream, meant) /\ IndInv => TesterReads
  BY WholeDecodes DEF IndInv, TypeOK, TesterReads
<1> QED  BY <1>1, <1>2, <1>3, Invariance, PTL DEF Spec

-----------------------------------------------------------------------------
(* The announcement.                                                       *)

LEMMA StillHolds ==
  ASSUME NEW s, NEW k, NEW f, Holds(s, k, f), NEW t \in Seq(Nat)
  PROVE  Holds(s \o t, k, f)
<1> DEFINE r == s \o t
<1>1. s \in Seq(Nat) /\ f \in Seq(Nat) /\ k \in Nat /\ k + Len(f) <= Len(s)
  BY DEF Holds
<1>2. r \in Seq(Nat) /\ Len(r) = Len(s) + Len(t)
  BY <1>1
<1>3. \A j \in 1 .. Len(s) : r[j] = s[j]
  BY <1>1
<1> HIDE DEF r
<1>4. \A i \in 1 .. Len(f) : r[k + i] = f[i]
  BY <1>1, <1>3 DEF Holds
<1>5. k + Len(f) <= Len(r)
  BY <1>1, <1>2
<1> QED  BY <1>1, <1>2, <1>4, <1>5 DEF Holds, r

LEMMA Appended ==
  ASSUME NEW n \in Nat, NEW s, Field(s, n), NEW m \in Nat, NEW f, Field(f, m),
         NEW l, l = n + m
  PROVE  Field(s \o f, l) /\ Holds(s \o f, n, f)
<1>1. s \in Seq(Nat) /\ f \in Seq(Nat)
  BY DEF Field
<1>2. Len(s) = n
  <2>1. Len(s) \in Nat /\ Len(s) <= n /\ n <= Len(s)
    BY <1>1 DEF Field
  <2> QED  BY <2>1, Squeezed
<1>3. Holds(s \o f, Len(s), f)
  BY <1>1, Parts
<1> QED  BY <1>2, <1>3 DEF Field

(* A field that is held at an offset is read there.                        *)
LEMMA FieldRead ==
  ASSUME NEW r, NEW k, NEW n \in Nat, NEW f, Holds(r, k, f), Field(f, n)
  PROVE  SubSeq(r, k + 1, k + n) = f
<1>1. f \in Seq(Nat) /\ Len(f) = n
  <2>1. f \in Seq(Nat) /\ Len(f) \in Nat /\ Len(f) <= n /\ n <= Len(f)
    BY DEF Field
  <2> QED  BY <2>1, Squeezed
<1>2. Agree(r, k, f, 1, n)
  BY <1>1, SamePart
<1>3. SubSeq(f, 1, Len(f)) = f
  BY <1>1
<1> QED  BY <1>1, <1>2, <1>3, Zenon DEF Agree

LEMMA NumberRead ==
  ASSUME NEW r, NEW k, NEW f, Holds(r, k, f), NEW i \in Nat, 1 <= i, i + 1 <= Len(f)
  PROVE  U16(r, k + i) = U16(f, i)
<1>1. k \in Nat /\ f \in Seq(Nat) /\ Len(f) \in Nat
  BY DEF Holds
<1>2. i \in 1 .. Len(f) /\ i + 1 \in 1 .. Len(f) /\ k + (i + 1) = k + i + 1
  BY <1>1
<1>3. r[k + i] = f[i] /\ r[k + i + 1] = f[i + 1]
  BY <1>2 DEF Holds
<1> QED  BY <1>3, Zenon DEF U16

Announced == EncodeAnnouncement(Vin, ECU_ADDRESS, Eid, GID)

(* The fields of the announcement, each behind the ones before it.         *)
AnnouncementLayout(r, h, a) ==
  /\ Field(r, 41)
  /\ Holds(r, 0, h) /\ Holds(r, 8, Vin) /\ Holds(r, 25, a)
  /\ Holds(r, 27, Eid) /\ Holds(r, 33, GID)

LEMMA AnnouncementLaidOut ==
  AnnouncementLayout(Announced, Header(VehicleAnnouncementMessage, 33), BE16(ECU_ADDRESS))
<1> DEFINE h == Header(VehicleAnnouncementMessage, 33)
           a == BE16(ECU_ADDRESS)
           z == <<0, 0>>
           hv == h \o Vin
           ha == hv \o a
           he == ha \o Eid
           hg == he \o GID
           r == hg \o z
<1>1. Announced = r
  <2>1. 17 + 2 + 6 + 6 + 1 + 1 = 33
    OBVIOUS
  <2> QED  BY <2>1, Zenon DEF Announced, EncodeAnnouncement
<1>2. Field(h, 8)
  <2>1. VehicleAnnouncementMessage \in Nat /\ 33 \in Nat
    BY DEF VehicleAnnouncementMessage
  <2> QED  BY <2>1, HeaderRead
<1>3. Field(a, 2)
  <2>1. ECU_ADDRESS \in Nat
    BY DEF ECU_ADDRESS
  <2> QED  BY <2>1, ShortRead
<1>4. Field(Vin, 17) /\ Field(Eid, 6)
  BY ExchangeAssumption, BytesAreNumbers DEF Field
<1>5. Field(GID, 6) /\ Field(z, 2)
  BY DEF GID, Field
<1> HIDE DEF h, a, z
<1>6. h \in Seq(Nat) /\ a \in Seq(Nat) /\ z \in Seq(Nat) /\ Vin \in Seq(Nat)
      /\ Eid \in Seq(Nat) /\ GID \in Seq(Nat)
  BY <1>2, <1>3, <1>4, <1>5 DEF Field
<1>7. Field(hv, 25) /\ Holds(hv, 8, Vin)
  <2>1. 8 \in Nat /\ 17 \in Nat /\ 25 = 8 + 17
    OBVIOUS
  <2> QED  BY <1>2, <1>4, <2>1, Appended
<1>8. Holds(hv, 0, h)
  BY <1>6, Parts
<1> HIDE DEF hv
<1>9. Field(ha, 27) /\ Holds(ha, 25, a)
  <2>1. 25 \in Nat /\ 2 \in Nat /\ 27 = 25 + 2
    OBVIOUS
  <2> QED  BY <1>3, <1>7, <2>1, Appended
<1>10. Holds(ha, 0, h) /\ Holds(ha, 8, Vin)
  BY <1>6, <1>7, <1>8, StillHolds
<1> HIDE DEF ha
<1>11. Field(he, 33) /\ Holds(he, 27, Eid)
  <2>1. 27 \in Nat /\ 6 \in Nat /\ 33 = 27 + 6
    OBVIOUS
  <2> QED  BY <1>4, <1>9, <2>1, Appended
<1>12. Holds(he, 0, h) /\ Holds(he, 8, Vin) /\ Holds(he, 25, a)
  BY <1>6, <1>9, <1>10, StillHolds
<1> HIDE DEF he
<1>13. Field(hg, 39) /\ Holds(hg, 33, GID)
  <2>1. 33 \in Nat /\ 6 \in Nat /\ 39 = 33 + 6
    OBVIOUS
  <2> QED  BY <1>5, <1>11, <2>1, Appended
<1>14. Holds(hg, 0, h) /\ Holds(hg, 8, Vin) /\ Holds(hg, 25, a) /\ Holds(hg, 27, Eid)
  BY <1>6, <1>11, <1>12, StillHolds
<1> HIDE DEF hg
<1>15. Field(r, 41)
  <2>1. 39 \in Nat /\ 2 \in Nat /\ 41 = 39 + 2
    OBVIOUS
  <2> QED  BY <1>5, <1>13, <2>1, Appended
<1>16. /\ Holds(r, 0, h) /\ Holds(r, 8, Vin) /\ Holds(r, 25, a) /\ Holds(r, 27, Eid)
       /\ Holds(r, 33, GID)
  BY <1>6, <1>13, <1>14, StillHolds
<1> HIDE DEF r
<1>17. AnnouncementLayout(r, h, a)
  BY <1>15, <1>16, Zenon DEF AnnouncementLayout
<1> QED  BY <1>1, <1>17, Zenon DEF h, a

LEMMA AnnouncementFields ==
  /\ Len(Announced) = SIZE + LengthOf(Announced)
  /\ SubSeq(Announced, 9, 25) = Vin
  /\ U16(Announced, 26) = ECU_ADDRESS
  /\ SubSeq(Announced, 28, 33) = Eid
  /\ SubSeq(Announced, 34, 39) = GID
<1> DEFINE r == Announced
           h == Header(VehicleAnnouncementMessage, 33)
           a == BE16(ECU_ADDRESS)
<1>1. AnnouncementLayout(r, h, a)
  BY AnnouncementLaidOut
<1>2. Field(h, 8) /\ LengthOf(h) = 33
  <2>1. VehicleAnnouncementMessage \in Nat /\ 33 \in Nat
    BY DEF VehicleAnnouncementMessage
  <2> QED  BY <2>1, HeaderRead
<1>3. Field(a, 2) /\ U16(a, 1) = ECU_ADDRESS
  <2>1. ECU_ADDRESS \in Nat
    BY DEF ECU_ADDRESS
  <2> QED  BY <2>1, ShortRead
<1> HIDE DEF r, h, a
<1>4. Field(Vin, 17) /\ Field(Eid, 6) /\ Field(GID, 6)
  BY ExchangeAssumption, BytesAreNumbers DEF Field, GID
<1>5. /\ Field(r, 41) /\ Holds(r, 0, h) /\ Holds(r, 8, Vin) /\ Holds(r, 25, a)
      /\ Holds(r, 27, Eid) /\ Holds(r, 33, GID)
  BY <1>1, Zenon DEF AnnouncementLayout
<1>6. Len(r) = SIZE + LengthOf(r)
  <2>1. U16(r, 0 + 5) = U16(h, 5) /\ U16(r, 0 + 7) = U16(h, 7)
    <3>1. 5 + 1 <= Len(h) /\ 7 + 1 <= Len(h)
      BY <1>2 DEF Field
    <3> QED  BY <1>5, <3>1, NumberRead
  <2>2. 0 + 5 = 5 /\ 0 + 7 = 7
    OBVIOUS
  <2>3. LengthOf(r) = 33
    <3>1. U16(r, 5) = U16(h, 5) /\ U16(r, 7) = U16(h, 7)
      BY <2>1, <2>2
    <3>2. LengthOf(r) = LengthOf(h)
      BY <3>1 DEF LengthOf
    <3> QED  BY <1>2, <3>2
  <2>4. SIZE + 33 = 41
    BY DEF SIZE
  <2>5. Len(r) = 41
    <3>1. Len(r) \in Nat /\ 41 \in Nat /\ Len(r) <= 41 /\ 41 <= Len(r)
      BY <1>5 DEF Field
    <3> QED  BY <3>1, Squeezed
  <2> QED  BY <2>3, <2>4, <2>5
<1>7. SubSeq(r, 9, 25) = Vin
  <2>1. 17 \in Nat /\ 8 + 1 = 9 /\ 8 + 17 = 25
    OBVIOUS
  <2>2. SubSeq(r, 8 + 1, 8 + 17) = Vin
    BY <1>4, <1>5, <2>1, FieldRead, Zenon
  <2> QED  BY <2>1, <2>2
<1>8. U16(r, 26) = ECU_ADDRESS
  <2>1. 1 \in Nat /\ 1 <= 1 /\ 25 + 1 = 26 /\ 1 + 1 <= Len(a)
    BY <1>3 DEF Field
  <2>2. U16(r, 25 + 1) = U16(a, 1)
    BY <1>5, <2>1, NumberRead
  <2> QED  BY <1>3, <2>1, <2>2, Zenon
<1>9. SubSeq(r, 28, 33) = Eid
  <2>1. 6 \in Nat /\ 27 + 1 = 28 /\ 27 + 6 = 33
    OBVIOUS
  <2>2. SubSeq(r, 27 + 1, 27 + 6) = Eid
    BY <1>4, <1>5, <2>1, FieldRead, Zenon
  <2> QED  BY <2>1, <2>2
<1>10. SubSeq(r, 34, 39) = GID
  <2>1. 6 \in Nat /\ 33 + 1 = 34 /\ 33 + 6 = 39
    OBVIOUS
  <2>2. SubSeq(r, 33 + 1, 33 + 6) = GID
    BY <1>4, <1>5, <2>1, FieldRead, Zenon
  <2> QED  BY <2>1, <2>2
<1> QED  BY <1>6, <1>7, <1>8, <1>9, <1>10, Zenon DEF r

(* An identification is only ever answered with the configuration of the   *)
(* image, whatever testers wrote into the VIN in the meantime, and each    *)
(* field of the announcement stands where a tester looks for it.           *)
THEOREM AnnouncementRead == Spec => []AnnouncementReads
<1> DEFINE Inv == announced \in {<<>>, Announced}
<1>1. Init => Inv
  BY DEF Init
<1>2. Inv /\ [Next]_vars => Inv'
  <2> SUFFICES ASSUME Inv, [Next]_vars
               PROVE  announced' \in {announced, <<>>, Announced}
    OBVIOUS
  <2>1. CASE UNCHANGED vars
    BY <2>1 DEF vars
  <2>2. CASE Frame
    BY <2>2 DEF Frame, Activate, Diagnose, Alive, Close
  <2>3. CASE Served
    BY <2>3 DEF Served, AnswerEmpty, ClearDtc, ReadDtc, ReadVin, WriteVin, AnswerOther, dataVars
  <2>4. CASE Restart
    BY <2>4 DEF Restart
  <2>5. ASSUME NEW d \in Datagrams, Identify(d) PROVE announced' = Announced
    BY <2>5 DEF Identify, Announced
  <2> QED  BY <2>1, <2>2, <2>3, <2>4, <2>5 DEF Next
<1>3. Inv => AnnouncementReads
  BY AnnouncementFields DEF AnnouncementReads
<1> QED  BY <1>1, <1>2, <1>3, PTL DEF Spec
=============================================================================
