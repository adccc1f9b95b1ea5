----------------------------- MODULE DoipFraming -----------------------------
(***************************************************************************)
(* How one DoIP connection cuts the byte stream of a tester into frames.   *)
(* TCP delivers the stream in pieces that know nothing of frames, and      *)
(* process_tcp_data parses the bytes of each read on their own: what is    *)
(* left over at the end of a read is dropped, and the next read is taken   *)
(* to begin with a header.                                                 *)
(*                                                                         *)
(* A byte is named by its position in the stream.  A frame is its position *)
(* and its size, header included.  Bytes that are taken for a header but   *)
(* are none announce an arbitrary size.                                    *)
(***************************************************************************)
EXTENDS Naturals

CONSTANTS Header,   \* DoipHeader::SIZE (8)
          Payloads, \* lengths of the payloads that testers send
          Buffer,   \* size of the read buffer (8 + MAX_PAYLOAD_SIZE)
          MaxBytes  \* bound: bytes a tester sends

ASSUME FramingAssumption == /\ Header \in Nat \ {0}
                            /\ Payloads \subseteq Nat
                            /\ Buffer \in Nat
                            /\ Buffer >= Header
                            /\ MaxBytes \in Nat

VARIABLES
  sent,    \* frames the tester has sent
  written, \* number of bytes they have
  phase,   \* "read" (in select!), "parse" (process_tcp_data) or "closed"
  from,    \* the last read returned the bytes from here ...
  to,      \* ... up to here
  pos,     \* offset, as a position in the stream
  handled  \* what has been handled as a frame

vars == <<sent, written, phase, from, to, pos, handled>>

Frame == [at : Nat, size : Nat]

TypeOK == /\ sent \subseteq Frame
          /\ written \in Nat
          /\ phase \in {"read", "parse", "closed"}
          /\ {from, to, pos} \subseteq Nat
          /\ from <= pos /\ pos <= to /\ to <= written
          /\ to <= from + Buffer
          /\ handled \subseteq Frame

Init == /\ sent = {}
        /\ written = 0
        /\ phase = "read"
        /\ from = 0
        /\ to = 0
        /\ pos = 0
        /\ handled = {}

-----------------------------------------------------------------------------
(* The tester.                                                             *)

Send == \E n \in Payloads :
          /\ written + Header + n <= MaxBytes
          /\ sent' = sent \cup {[at |-> written, size |-> Header + n]}
          /\ written' = written + Header + n
          /\ UNCHANGED <<phase, from, to, pos, handled>>

-----------------------------------------------------------------------------
(* The connection.                                                         *)

(* stream.read(): some of the bytes that have been sent, at most a buffer. *)
Read == /\ phase = "read"
        /\ \E n \in 1 .. Buffer : to + n <= written /\ to' = to + n
        /\ from' = to
        /\ pos' = to
        /\ phase' = "parse"
        /\ UNCHANGED <<sent, written, handled>>

(* Header and payload_length of what stands at pos.  A size beyond the     *)
(* buffer is never complete, so garbage need not announce larger ones.     *)
SizesAt(p) == IF \E f \in sent : f.at = p
                THEN {f.size : f \in {g \in sent : g.at = p}}
                ELSE Header .. Buffer + 1

(* Fault: the loop wants a byte beyond the header.                         *)
HeaderAndMore == pos + Header < to

(* The condition of the loop.                                              *)
HeaderIsThere == pos + Header <= to

(* Fault: the frame is not compared with the bytes that were read.         *)
HandleUnchecked == /\ phase = "parse"
                   /\ HeaderIsThere
                   /\ \E size \in SizesAt(pos) :
                        /\ handled' = handled \cup {[at |-> pos, size |-> size]}
                        /\ pos' = pos + size
                   /\ UNCHANGED <<sent, written, phase, from, to>>

(* Fault: the offset advances by the payload only.                         *)
HandlePayload == /\ phase = "parse"
                 /\ HeaderIsThere
                 /\ \E size \in SizesAt(pos) :
                      /\ pos + size <= to
                      /\ handled' = handled \cup {[at |-> pos, size |-> size]}
                      /\ pos' = pos + size - Header
                 /\ UNCHANGED <<sent, written, phase, from, to>>

HandleFrame == /\ phase = "parse"
               /\ HeaderIsThere
               /\ \E size \in SizesAt(pos) :
                    /\ pos + size <= to
                    /\ handled' = handled \cup {[at |-> pos, size |-> size]}
                    /\ pos' = pos + size
               /\ UNCHANGED <<sent, written, phase, from, to>>

(* Less than a header, or less than a frame, is left: it is dropped.       *)
DropRest == /\ phase = "parse"
            /\ HeaderIsThere => \E size \in SizesAt(pos) : pos + size > to
            /\ phase' = "read"
            /\ UNCHANGED <<sent, written, from, to, pos, handled>>

(* The frame is malformed, or an answer to it cannot be written.           *)
Fail == /\ phase = "parse"
        /\ HeaderIsThere
        /\ \E size \in SizesAt(pos) : pos + size <= to
        /\ phase' = "closed"
        /\ UNCHANGED <<sent, written, from, to, pos, handled>>

(* End of stream, read error or inactivity timeout.                        *)
Close == /\ phase = "read"
         /\ phase' = "closed"
         /\ UNCHANGED <<sent, written, from, to, pos, handled>>

-----------------------------------------------------------------------------
Parse == HandleFrame \/ DropRest \/ Fail

Next == Send \/ Read \/ Parse \/ Close

Spec == Init /\ [][Next]_vars

(* The task runs while it has bytes to parse.  Nothing need be sent, and   *)
(* no frame need fail.                                                     *)
FairSpec == Spec /\ WF_vars(HandleFrame \/ DropRest)

-----------------------------------------------------------------------------
(* Properties.                                                             *)

(* Two frames without a common byte.                                      *)
Apart(f, g) == f.at + f.size <= g.at \/ g.at + g.size <= f.at

(* A frame starts at p.                                                    *)
Starts(p) == \E f \in sent : f.at = p

(* A read that begins where a frame begins is parsed into exactly the      *)
(* frames it holds completely, however many, with a cut one at its end     *)
(* (connection.rs:102-139).                                                *)
WholeFramesHandled ==
  phase = "read" /\ Starts(from) =>
    {h \in handled : h.at >= from} = {f \in sent : f.at >= from /\ f.at + f.size <= to}

(* No byte is part of two handled frames, even where alignment is lost and *)
(* payload is taken for headers.                                           *)
NoByteTwice == \A g, h \in handled : g # h => Apart(g, h)

(* The inductive invariant behind both.  The frames follow each other      *)
(* without gaps, and parsing keeps to their starts once it is at one.      *)
Contiguous == \A f \in sent : /\ f.size >= Header
                              /\ f.at + f.size <= written
                              /\ f.at + f.size = written \/ Starts(f.at + f.size)
                              /\ \A g \in sent : f # g => Apart(f, g)
HandledSoFar == {h \in handled : h.at >= from} =
                  {f \in sent : f.at >= from /\ f.at + f.size <= pos}
IndInv == /\ TypeOK
          /\ Contiguous
          /\ \A h \in handled : h.size >= Header /\ h.at + h.size <= pos
          /\ NoByteTwice
          /\ WholeFramesHandled
          /\ phase = "parse" => /\ from < to
                                /\ Starts(from) => /\ HandledSoFar
                                                   /\ Starts(pos) \/ pos = written

(* The loop over the frames of a read ends, whatever the bytes say, also   *)
(* for frames without payload.                                             *)
ParsingEnds == phase = "parse" ~> phase # "parse"

(* The safety half of that.  Each round leaves the loop or moves at least  *)
(* a header forward in the bytes of this read, which do not change; and as *)
(* long as the loop lasts a round is possible, whatever the bytes are.     *)
RoundsMoveOn ==
  [][phase = "parse" => \/ UNCHANGED <<phase, from, to, pos>>
                        \/ phase' \in {"read", "closed"}
                        \/ /\ UNCHANGED <<phase, from, to>>
                           /\ pos + Header <= pos' /\ pos' <= to]_vars
RoundPossible ==
  phase = "parse" => \/ HeaderIsThere /\ \E size \in SizesAt(pos) : pos + size <= to
                     \/ HeaderIsThere => \E size \in SizesAt(pos) : pos + size > to

(* The log at connection.rs:110, "Incomplete DoIP message, waiting for     *)
(* more data": once the rest has arrived and is parsed, the frame has been *)
(* handled.                                                                *)
NothingLost == phase = "read" => \A f \in sent : f.at + f.size <= to => f \in handled
=============================================================================
