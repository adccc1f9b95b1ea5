--------------------------- MODULE DoipFramingProofs ---------------------------
(***************************************************************************)
(* Theorems about DoipFraming, for any sizes of header, buffer and frames. *)
(***************************************************************************)
EXTENDS DoipFraming, TLAPS

USE FramingAssumption DEF FramingAssumption, Frame

LEMMA InitIndInv == Init => IndInv
BY DEF Init, IndInv, TypeOK, Contiguous, NoByteTwice, WholeFramesHandled, Starts

(* What SizesAt returns: the size of the frame that starts there, and      *)
(* never less than a header.                                               *)
LEMMA SizesThere ==
  ASSUME IndInv, NEW p \in Nat, NEW size \in SizesAt(p)
  PROVE  /\ size \in Nat
         /\ size >= Header
         /\ Starts(p) => [at |-> p, size |-> size] \in sent
<1>1. CASE Starts(p)
  <2>1. PICK f \in sent : f.at = p /\ size = f.size
    BY <1>1 DEF SizesAt, Starts
  <2>2. f = [at |-> p, size |-> size]
    BY <2>1 DEF IndInv, TypeOK
  <2> QED
    BY <2>1, <2>2 DEF IndInv, TypeOK, Contiguous
<1>2. CASE ~Starts(p)
  <2>1. size \in Header .. Buffer + 1
    BY <1>2 DEF SizesAt, Starts
  <2> QED
    BY <1>2, <2>1
<1> QED
  BY <1>1, <1>2

LEMMA SendIndInv == IndInv /\ Send => IndInv'
<1> SUFFICES ASSUME IndInv, Send PROVE IndInv'
  OBVIOUS
<1>1. PICK n \in Payloads :
        /\ sent' = sent \cup {[at |-> written, size |-> Header + n]}
        /\ written' = written + Header + n
  BY DEF Send
<1> DEFINE new == [at |-> written, size |-> Header + n]
<1>2. UNCHANGED <<phase, from, to, pos, handled>>
  BY DEF Send
<1>3. n \in Nat /\ new \in Frame /\ new.at = written /\ new.size = Header + n
  BY DEF IndInv, TypeOK
<1>4. TypeOK'
  BY <1>1, <1>2, <1>3 DEF IndInv, TypeOK
<1>5. Contiguous'
  <2> SUFFICES ASSUME NEW f \in sent'
               PROVE  /\ f.size >= Header
                      /\ f.at + f.size <= written'
                      /\ f.at + f.size = written' \/ Starts(f.at + f.size)'
                      /\ \A g \in sent' : f # g => Apart(f, g)
    BY DEF Contiguous
  <2>1. f \in Frame
    BY <1>4 DEF TypeOK
  <2>2. CASE f \in sent
    <3>1. f.size >= Header /\ f.at + f.size <= written
      BY <2>2 DEF IndInv, Contiguous
    <3>2. f.at + f.size = written' \/ Starts(f.at + f.size)'
      <4>1. f.at + f.size = written \/ Starts(f.at + f.size)
        BY <2>2 DEF IndInv, Contiguous
      <4> QED
        BY <1>1, <1>3, <4>1 DEF Starts
    <3>3. \A g \in sent : f # g => Apart(f, g)
      BY <2>2 DEF IndInv, Contiguous
    <3>4. Apart(f, new)
      BY <1>3, <3>1 DEF Apart
    <3>5. written <= written'
      BY <1>1, <1>3 DEF IndInv, TypeOK
    <3> QED
      BY <1>1, <1>4, <2>1, <3>1, <3>2, <3>3, <3>4, <3>5 DEF IndInv, TypeOK
  <2>3. CASE f = new
    BY <1>1, <1>3, <2>3 DEF IndInv, TypeOK, Contiguous, Apart
  <2> QED
    BY <1>1, <2>2, <2>3
<1>6. \A p \in Nat : Starts(p)' => Starts(p) \/ p = written
  BY <1>1, <1>3 DEF Starts
<1>8. {f \in sent' : f.at >= from /\ f.at + f.size <= to}
        = {f \in sent : f.at >= from /\ f.at + f.size <= to}
  BY <1>1, <1>3 DEF IndInv, TypeOK
<1>9. WholeFramesHandled'
  <2> SUFFICES ASSUME phase = "read", Starts(from)'
               PROVE  {h \in handled : h.at >= from}
                        = {f \in sent : f.at >= from /\ f.at + f.size <= to}
    BY <1>2, <1>8 DEF WholeFramesHandled
  <2>1. CASE Starts(from)
    BY <2>1 DEF IndInv, WholeFramesHandled
  <2>2. CASE from = written
    <3>1. from = to /\ from = pos
      BY <2>2 DEF IndInv, TypeOK
    <3>2. {h \in handled : h.at >= from} = {}
      BY <3>1 DEF IndInv, TypeOK
    <3>3. {f \in sent : f.at >= from /\ f.at + f.size <= to} = {}
      BY <3>1 DEF IndInv, TypeOK, Contiguous
    <3> QED
      BY <3>2, <3>3
  <2>3. Starts(from) \/ from = written
    BY <1>2, <1>6 DEF IndInv, TypeOK, Starts
  <2> QED
    BY <2>1, <2>2, <2>3
<1>10. ASSUME phase = "parse", Starts(from)'
       PROVE  HandledSoFar' /\ (Starts(pos)' \/ pos' = written')
  <2>1. from # written
    BY <1>10 DEF IndInv, TypeOK
  <2>2. Starts(from)
    BY <1>2, <1>6, <1>10, <2>1 DEF IndInv, TypeOK, Starts
  <2>3. HandledSoFar /\ (Starts(pos) \/ pos = written)
    BY <1>10, <2>2 DEF IndInv
  <2>4. {f \in sent' : f.at >= from /\ f.at + f.size <= pos}
          = {f \in sent : f.at >= from /\ f.at + f.size <= pos}
    BY <1>1, <1>3 DEF IndInv, TypeOK
  <2>5. HandledSoFar'
    BY <1>2, <2>3, <2>4 DEF HandledSoFar
  <2>6. Starts(pos)'
    BY <1>1, <1>2, <1>3, <2>3 DEF Starts
  <2> QED
    BY <2>5, <2>6
<1> QED
  BY <1>2, <1>4, <1>5, <1>9, <1>10 DEF IndInv, NoByteTwice

LEMMA ReadIndInv == IndInv /\ Read => IndInv'
<1> SUFFICES ASSUME IndInv, Read PROVE IndInv'
  OBVIOUS
<1>1. PICK n \in 1 .. Buffer : to + n <= written /\ to' = to + n
  BY DEF Read
<1>2. /\ from' = to /\ pos' = to /\ phase' = "parse"
      /\ UNCHANGED <<sent, written, handled>>
  BY DEF Read
<1>3. TypeOK'
  BY <1>1, <1>2 DEF IndInv, TypeOK
<1>4. HandledSoFar'
  <2>1. {h \in handled : h.at >= to} = {}
    BY DEF IndInv, TypeOK
  <2>2. {f \in sent : f.at >= to /\ f.at + f.size <= to} = {}
    BY DEF IndInv, TypeOK, Contiguous
  <2> QED
    BY <1>2, <2>1, <2>2 DEF HandledSoFar
<1>5. \A h \in handled : h.at + h.size <= to
  BY DEF IndInv, TypeOK
<1>6. Contiguous' /\ NoByteTwice' /\ WholeFramesHandled'
  BY <1>2 DEF IndInv, Contiguous, NoByteTwice, WholeFramesHandled, Starts
<1>7. from' < to' /\ (Starts(from)' => Starts(pos)')
  BY <1>1, <1>2 DEF IndInv, TypeOK, Starts
<1> QED
  BY <1>2, <1>3, <1>4, <1>5, <1>6, <1>7 DEF IndInv

LEMMA HandleIndInv == IndInv /\ HandleFrame => IndInv'
<1> SUFFICES ASSUME IndInv, HandleFrame PROVE IndInv'
  OBVIOUS
<1>1. PICK size \in SizesAt(pos) :
        /\ pos + size <= to
        /\ handled' = handled \cup {[at |-> pos, size |-> size]}
        /\ pos' = pos + size
  BY DEF HandleFrame
<1> DEFINE new == [at |-> pos, size |-> size]
<1>2. phase = "parse" /\ UNCHANGED <<sent, written, phase, from, to>>
  BY DEF HandleFrame
<1>3. pos \in Nat
  BY DEF IndInv, TypeOK
<1>4. size \in Nat /\ size >= Header /\ (Starts(pos) => new \in sent)
  BY <1>3, SizesThere
<1>5. new \in Frame /\ new.at = pos /\ new.size = size
  BY <1>3, <1>4
<1>6. TypeOK'
  BY <1>1, <1>2, <1>4 DEF IndInv, TypeOK
<1>7. Contiguous' /\ WholeFramesHandled'
  BY <1>2 DEF IndInv, Contiguous, WholeFramesHandled, Starts
<1>8. \A h \in handled' : h.size >= Header /\ h.at + h.size <= pos'
  BY <1>1, <1>4, <1>5 DEF IndInv, TypeOK
<1>9. NoByteTwice'
  BY <1>1, <1>5 DEF IndInv, TypeOK, NoByteTwice, Apart
<1>10. ASSUME Starts(from)
       PROVE  HandledSoFar' /\ (Starts(pos)' \/ pos' = written')
  <2>1. HandledSoFar /\ (Starts(pos) \/ pos = written)
    BY <1>2, <1>10 DEF IndInv
  <2>2. pos # written
    BY <1>1, <1>4 DEF IndInv, TypeOK
  <2>3. new \in sent
    BY <1>4, <2>1, <2>2
  <2>4. \A f \in sent : f.at + f.size <= pos + size <=> f.at + f.size <= pos \/ f = new
    <3> SUFFICES ASSUME NEW f \in sent
                 PROVE  f.at + f.size <= pos + size <=> f.at + f.size <= pos \/ f = new
      OBVIOUS
    <3>1. f = new \/ Apart(f, new)
      BY <2>3 DEF IndInv, Contiguous
    <3>2. f \in Frame /\ f.size >= Header
      BY DEF IndInv, TypeOK, Contiguous
    <3> QED
      BY <1>3, <1>4, <1>5, <3>1, <3>2 DEF Apart
  <2>5. new.at >= from
    BY <1>5 DEF IndInv, TypeOK
  <2>6. HandledSoFar'
    BY <1>1, <1>2, <2>1, <2>3, <2>4, <2>5 DEF HandledSoFar
  <2>7. pos + size = written \/ Starts(pos + size)
    BY <1>5, <2>3 DEF IndInv, Contiguous
  <2> QED
    BY <1>1, <1>2, <2>6, <2>7 DEF Starts
<1> QED
  BY <1>2, <1>6, <1>7, <1>8, <1>9, <1>10 DEF IndInv, Starts

LEMMA DropIndInv == IndInv /\ DropRest => IndInv'
<1> SUFFICES ASSUME IndInv, DropRest PROVE IndInv'
  OBVIOUS
<1>1. phase = "parse" /\ phase' = "read" /\ UNCHANGED <<sent, written, from, to, pos, handled>>
  BY DEF DropRest
<1>2. ASSUME Starts(from), NEW f \in sent, f.at >= from
      PROVE  f.at + f.size <= to <=> f.at + f.size <= pos
  <2>1. f \in Frame /\ f.size >= Header /\ f.at + f.size <= written
    BY DEF IndInv, TypeOK, Contiguous
  <2>2. pos <= to /\ to <= written /\ {pos, to, written} \subseteq Nat
    BY DEF IndInv, TypeOK
  <2>3. CASE pos = written
    BY <2>1, <2>2, <2>3
  <2>4. CASE Starts(pos)
    <3>1. PICK g \in sent : g.at = pos
      BY <2>4 DEF Starts
    <3>2. g \in Frame /\ g.size >= Header
      BY DEF IndInv, TypeOK, Contiguous
    <3>3. pos + g.size > to
      <4>1. CASE ~HeaderIsThere
        BY <2>2, <3>2, <4>1 DEF HeaderIsThere
      <4>2. CASE HeaderIsThere
        <5>1. PICK size \in SizesAt(pos) : pos + size > to
          BY <4>2 DEF DropRest
        <5>2. [at |-> pos, size |-> size] \in sent /\ size \in Nat /\ size >= Header
          BY <2>2, <2>4, SizesThere
        <5>3. g = [at |-> pos, size |-> size]
          <6> DEFINE k == [at |-> pos, size |-> size]
          <6>1. k.at = pos /\ k.size = size
            OBVIOUS
          <6>2. k = g \/ Apart(g, k)
            BY <5>2 DEF IndInv, Contiguous
          <6> QED
            BY <2>2, <3>1, <3>2, <5>2, <6>1, <6>2 DEF Apart
        <5> QED
          BY <5>1, <5>3
      <4> QED
        BY <4>1, <4>2
    <3>4. f = g \/ Apart(f, g)
      BY DEF IndInv, Contiguous
    <3> QED
      BY <2>1, <2>2, <3>1, <3>2, <3>3, <3>4 DEF Apart
  <2> QED
    BY <1>1, <1>2, <2>3, <2>4 DEF IndInv
<1>3. WholeFramesHandled'
  <2> SUFFICES ASSUME Starts(from)
               PROVE  {h \in handled : h.at >= from}
                        = {f \in sent : f.at >= from /\ f.at + f.size <= to}
    BY <1>1 DEF WholeFramesHandled, Starts
  <2>1. HandledSoFar
    BY <1>1 DEF IndInv
  <2> QED
    BY <1>2, <2>1 DEF HandledSoFar
<1> QED
  BY <1>1, <1>3 DEF IndInv, TypeOK, Contiguous, NoByteTwice, Starts

LEMMA NextIndInv == IndInv /\ [Next]_vars => IndInv'
<1> SUFFICES ASSUME IndInv, [Next]_vars PROVE IndInv'
  OBVIOUS
<1>1. CASE Fail \/ Close
  BY <1>1 DEF Fail, Close, IndInv, TypeOK, Contiguous, NoByteTwice, WholeFramesHandled, Starts
<1>2. CASE UNCHANGED vars
  BY <1>2 DEF vars, IndInv, TypeOK, Contiguous, NoByteTwice, WholeFramesHandled, HandledSoFar, Starts
<1> QED
  BY <1>1, <1>2, SendIndInv, ReadIndInv, HandleIndInv, DropIndInv DEF Next, Parse

(* The strengthened invariant of the framing loop (connection.rs:93-142).  *)
THEOREM Invariance == Spec => []IndInv
BY InitIndInv, NextIndInv, PTL DEF Spec

(* The offset never leaves the bytes that were read.                       *)
THEOREM TypeCorrect == Spec => []TypeOK
<1>1. IndInv => TypeOK
  BY DEF IndInv
<1> QED
  BY <1>1, Invariance, PTL

(* A read that begins at a frame is parsed into exactly the frames in it.  *)
THEOREM AlignedReadParsed == Spec => []WholeFramesHandled
<1>1. IndInv => WholeFramesHandled
  BY DEF IndInv
<1> QED
  BY <1>1, Invariance, PTL

(* No byte is handled as part of two frames.                               *)
THEOREM BytesHandledOnce == Spec => []NoByteTwice
<1>1. IndInv => NoByteTwice
  BY DEF IndInv
<1> QED
  BY <1>1, Invariance, PTL

(* The parsing loop ends: each round leaves it or moves forward in the     *)
(* bytes of the read.  (That it is scheduled is for the model checker.)    *)
THEOREM ParsingMovesOn == Spec => RoundsMoveOn
<1> DEFINE Moves == \/ UNCHANGED <<phase, from, to, pos>>
                    \/ phase' \in {"read", "closed"}
                    \/ /\ UNCHANGED <<phase, from, to>>
                       /\ pos + Header <= pos' /\ pos' <= to
<1>1. IndInv /\ [Next]_vars => [phase = "parse" => Moves]_vars
  <2> SUFFICES ASSUME IndInv, Next, phase = "parse" PROVE Moves
    BY DEF vars
  <2>1. CASE HandleFrame
    <3>1. PICK size \in SizesAt(pos) : pos + size <= to /\ pos' = pos + size
      BY <2>1 DEF HandleFrame
    <3>2. pos \in Nat /\ to \in Nat /\ size \in Nat /\ size >= Header
      BY SizesThere DEF IndInv, TypeOK
    <3>3. UNCHANGED <<phase, from, to>>
      BY <2>1 DEF HandleFrame
    <3> QED
      BY <3>1, <3>2, <3>3
  <2>2. CASE Send
    BY <2>2 DEF Send
  <2>3. CASE DropRest \/ Fail
    BY <2>3 DEF DropRest, Fail
  <2> QED
    BY <2>1, <2>2, <2>3 DEF Next, Parse, Read, Close
<1> QED
  BY <1>1, Invariance, PTL DEF Spec, RoundsMoveOn

(* The loop is never without a next round.                                 *)
THEOREM ParsingCanMove == Spec => []RoundPossible
<1>1. IndInv => RoundPossible
  <2> SUFFICES ASSUME IndInv PROVE \E size \in SizesAt(pos) : size \in Nat
    BY DEF IndInv, TypeOK, RoundPossible
  <2>1. pos \in Nat
    BY DEF IndInv, TypeOK
  <2>2. CASE Starts(pos)
    <3>1. PICK f \in sent : f.at = pos
      BY <2>2 DEF Starts
    <3>2. f.size \in SizesAt(pos)
      BY <3>1 DEF SizesAt
    <3>3. f.size \in Nat
      BY DEF IndInv, TypeOK
    <3> QED
      BY <3>2, <3>3
  <2>3. CASE ~Starts(pos)
    <3>1. SizesAt(pos) = Header .. Buffer + 1
      BY <2>3 DEF Starts, SizesAt
    <3>2. Header \in Header .. Buffer + 1
      OBVIOUS
    <3> QED
      BY <3>1, <3>2
  <2> QED
    BY <2>2, <2>3
<1> QED
  BY <1>1, Invariance, PTL
=============================================================================
