------------------------- MODULE DoipGatewayProofs -------------------------
(***************************************************************************)
(* Theorems about DoipGateway, for any number of connections, testers and  *)
(* places in the request channel.                                          *)
(***************************************************************************)
EXTENDS DoipGateway, FiniteSetTheorems, TLAPS

USE GatewayAssumption DEF GatewayAssumption

LEMMA QueueElements == TypeOK => \A i \in 1 .. Len(queue) : queue[i] \in Conn
  BY DEF TypeOK

(* A process without connections and requests satisfies the invariant.     *)
Idle == /\ pc = [c \in Conn |-> "none"]
        /\ tester = Nobody
        /\ batch = [c \in Conn |-> 0]
        /\ source = Nobody
        /\ slot = [c \in Conn |-> "none"]
        /\ queue = <<>>
        /\ current = None
        /\ pending = FALSE
        /\ mainpc \in {"recv", "exited"}
        /\ listener \in {"up", "failed"}

LEMMA IdleIndInv == Idle => IndInv
<1> SUFFICES ASSUME Idle PROVE IndInv
  OBVIOUS
<1> USE DEF Idle
<1>1. queue \in Seq(Conn) /\ Len(queue) = 0
  OBVIOUS
<1>2. batch \in [Conn -> 0 .. MaxBatch] /\ Len(queue) <= Capacity
  BY <1>1
<1>3. TypeOK
  BY <1>1, <1>2 DEF TypeOK, Nobody
<1>4. RequestersWait
  BY <1>1 DEF RequestersWait
<1> QED
  BY <1>3, <1>4 DEF IndInv, NoOrphan, Waiting, InFlight

LEMMA InitIndInv == Init => IndInv
  BY IdleIndInv DEF Init, Idle

(* What Drop does to the invariant when the connection has no request in   *)
(* the channel or in execution.                                            *)
LEMMA DropIndInv ==
  ASSUME IndInv, NEW c \in Conn, Drop(c), ~Waiting(c)
  PROVE  IndInv'
<1>1. TypeOK'
  BY DEF IndInv, TypeOK, Drop, mainVars
<1>2. \A d \in Conn : Waiting(d)' <=> Waiting(d)
  BY DEF IndInv, TypeOK, Drop, Waiting
<1>3. RequestersWait'
  <2>1. \A i \in 1 .. Len(queue) : Waiting(queue[i])'
    BY <1>2, QueueElements DEF IndInv, RequestersWait, Drop
  <2>2. mainpc' = "serve" => Waiting(current)'
    BY <1>2 DEF IndInv, TypeOK, RequestersWait, Drop, mainVars
  <2> QED
    BY <2>1, <2>2 DEF IndInv, RequestersWait, Drop, mainVars
<1>4. NoOrphan'
  BY <1>2 DEF IndInv, NoOrphan, Queued, Drop, mainVars
<1> QED
  BY <1>1, <1>3, <1>4 DEF IndInv, TypeOK, Drop, mainVars, InFlight

(* A step of a connection that touches neither a request nor the channel.  *)
LEMMA LocalIndInv ==
  ASSUME IndInv, NEW c \in Conn, pc[c] = "none" \/ pc[c] = "open",
         TypeOK', UNCHANGED <<slot, queue, mainVars>>,
         \A d \in Conn \ {c} : pc'[d] = pc[d] /\ tester'[d] = tester[d],
         pc'[c] \in {"open", "send"}, pc'[c] = "send" => tester'[c] # None
  PROVE  IndInv'
<1>1. \A d \in Conn : Waiting(d)' <=> Waiting(d)
  BY DEF Waiting
<1>2. RequestersWait'
  <2>1. \A i \in 1 .. Len(queue) : Waiting(queue[i])'
    BY <1>1, QueueElements DEF IndInv, RequestersWait
  <2>2. mainpc' = "serve" => Waiting(current)'
    BY <1>1 DEF IndInv, TypeOK, RequestersWait, mainVars
  <2> QED
    BY <2>1, <2>2 DEF IndInv, RequestersWait, mainVars
<1>3. NoOrphan'
  BY <1>1 DEF IndInv, NoOrphan, Queued, mainVars
<1> QED
  BY <1>2, <1>3 DEF IndInv, InFlight, mainVars

LEMMA NextIndInv == IndInv /\ [Next]_vars => IndInv'
<1> SUFFICES ASSUME IndInv, [Next]_vars
             PROVE  IndInv'
  OBVIOUS
<1> USE DEF IndInv
<1>1. ASSUME NEW c \in Conn, Connect(c)
      PROVE  IndInv'
  <2>1. TypeOK'
    BY <1>1 DEF TypeOK, Connect, mainVars
  <2> QED
    BY <1>1, <2>1, LocalIndInv DEF TypeOK, Connect
<1>2. ASSUME NEW c \in Conn, Read(c)
      PROVE  IndInv'
  <2>1. TypeOK'
    BY <1>2 DEF TypeOK, Read, mainVars
  <2> QED
    BY <1>2, <2>1, LocalIndInv DEF Read, Reading
<1>3. ASSUME NEW c \in Conn, Disconnect(c) \/ FrameFails(c) \/ ReplyFails(c)
      PROVE  IndInv'
  BY <1>3, DropIndInv DEF Disconnect, FrameFails, ReplyFails, Reading, Parsing, Waiting
<1>4. ASSUME NEW c \in Conn, NEW t \in Tester, RoutingActivation(c, t)
      PROVE  IndInv'
  <2>1. TypeOK'
    BY <1>4 DEF TypeOK, RoutingActivation, Parsing, mainVars
  <2> QED
    BY <1>4, <2>1, LocalIndInv DEF RoutingActivation, Parsing
<1>5. ASSUME NEW c \in Conn, SkipFrame(c)
      PROVE  IndInv'
  <2>1. TypeOK'
    BY <1>5 DEF TypeOK, SkipFrame, Parsing, mainVars
  <2> QED
    BY <1>5, <2>1, LocalIndInv DEF SkipFrame, Parsing
<1>6. ASSUME NEW c \in Conn, NEW s \in Tester, Acknowledge(c, s)
      PROVE  IndInv'
  <2>1. TypeOK'
    BY <1>6 DEF TypeOK, Acknowledge, Parsing, mainVars
  <2> QED
    BY <1>6, <2>1, LocalIndInv DEF TypeOK, Acknowledge, Parsing
<1>7. ASSUME NEW c \in Conn, Enqueue(c)
      PROVE  IndInv'
  <2> USE <1>7 DEF Enqueue
  <2>1. TypeOK'
    BY DEF TypeOK, mainVars
  <2>2. /\ Len(queue') = Len(queue) + 1
        /\ queue'[Len(queue) + 1] = c
        /\ \A i \in 1 .. Len(queue) : queue'[i] = queue[i]
    BY DEF TypeOK
  <2>3. \A i \in 1 .. Len(queue) : queue[i] \in Conn /\ queue[i] # c
    BY QueueElements DEF RequestersWait, Waiting
  <2>4. Waiting(c)' /\ \A d \in Conn \ {c} : Waiting(d)' <=> Waiting(d)
    BY DEF TypeOK, Waiting
  <2>5. c # current
    BY DEF TypeOK, RequestersWait, Waiting
  <2>6. RequestersWait'
    <3>1. \A i \in 1 .. Len(queue') : Waiting(queue[i])' /\ queue'[i] # current'
      BY <2>2, <2>3, <2>4, <2>5 DEF TypeOK, RequestersWait, mainVars
    <3>2. \A i, j \in 1 .. Len(queue') : queue'[i] = queue'[j] => i = j
      BY <2>2, <2>3 DEF TypeOK, RequestersWait
    <3>3. mainpc' = "serve" => current' # None /\ Waiting(current)'
      BY <2>4, <2>5 DEF TypeOK, RequestersWait, mainVars
    <3> QED
      BY <3>1, <3>2, <3>3 DEF RequestersWait, Waiting
  <2>7. NoOrphan'
    BY <2>2, <2>4 DEF TypeOK, NoOrphan, Queued, mainVars
  <2> QED
    BY <2>1, <2>6, <2>7 DEF TypeOK, InFlight, mainVars
<1>8. ASSUME NEW c \in Conn, Reply(c)
      PROVE  IndInv'
  <2> USE <1>8 DEF Reply
  <2>1. TypeOK'
    BY DEF TypeOK, mainVars
  <2>2. \A d \in Conn : Waiting(d)' <=> Waiting(d)
    BY DEF TypeOK, Waiting
  <2>3. RequestersWait' /\ NoOrphan'
    BY <2>2 DEF TypeOK, RequestersWait, NoOrphan, Queued, mainVars
  <2> QED
    BY <2>1, <2>3 DEF TypeOK, InFlight, mainVars
<1>9. CASE Dequeue
  <2> USE <1>9 DEF Dequeue
  <2>1. /\ Head(queue) = queue[1]
        /\ Len(queue') = Len(queue) - 1
        /\ \A i \in 1 .. Len(queue') : queue'[i] = queue[i + 1]
        /\ Len(queue) >= 1
    BY DEF TypeOK
  <2>2. TypeOK'
    BY <2>1 DEF TypeOK, connVars
  <2>3. \A d \in Conn : Waiting(d)' <=> Waiting(d)
    BY DEF Waiting, connVars
  <2>4. RequestersWait'
    <3>1. \A i \in 1 .. Len(queue') : i + 1 \in 1 .. Len(queue) /\ queue'[i] = queue[i + 1]
      BY <2>1 DEF TypeOK
    <3>2. \A i \in 1 .. Len(queue') : queue'[i] \in Conn /\ queue'[i] # current'
      BY <2>1, <3>1, QueueElements DEF RequestersWait
    <3>3. \A i \in 1 .. Len(queue') : Waiting(queue[i])'
      BY <2>3, <3>1, <3>2 DEF RequestersWait
    <3>4. \A i, j \in 1 .. Len(queue') : queue'[i] = queue'[j] => i = j
      BY <3>1 DEF RequestersWait
    <3>5. current' # None /\ Waiting(current)'
      BY <2>1, <2>3, QueueElements DEF RequestersWait
    <3> QED
      BY <3>2, <3>3, <3>4, <3>5 DEF RequestersWait
  <2>5. NoOrphan'
    <3> SUFFICES ASSUME NEW d \in Conn, Waiting(d)', current' # d
                 PROVE  Queued(d)'
      BY DEF NoOrphan
    <3>1. PICK i \in 1 .. Len(queue) : queue[i] = d
      BY <2>3 DEF TypeOK, NoOrphan, Queued
    <3>2. i - 1 \in 1 .. Len(queue') /\ queue'[i - 1] = d
      BY <2>1, <3>1 DEF TypeOK
    <3> QED
      BY <3>2 DEF Queued
  <2> QED
    BY <2>2, <2>4, <2>5 DEF TypeOK, InFlight, connVars
<1>10. CASE Serve
  <2> USE <1>10 DEF Serve
  <2>1. current \in Conn /\ pc[current] = "recv" /\ slot[current] = "none"
    BY DEF TypeOK, RequestersWait, Waiting
  <2>2. PICK answer \in {"empty", "data"} : slot' = [slot EXCEPT ![current] = answer]
    BY <2>1
  <2>3. TypeOK'
    BY <2>2 DEF TypeOK
  <2>4. \A d \in Conn : Waiting(d)' <=> Waiting(d) /\ d # current
    BY <2>1, <2>2 DEF TypeOK, Waiting
  <2>5. RequestersWait'
    BY <2>4, QueueElements DEF RequestersWait
  <2>6. NoOrphan'
    BY <2>4 DEF NoOrphan, Queued
  <2> QED
    BY <2>1, <2>2, <2>3, <2>5, <2>6 DEF TypeOK, InFlight
<1>11. CASE Check
  BY <1>11 DEF TypeOK, RequestersWait, NoOrphan, Waiting, Queued, InFlight, Check, connVars
<1>12. CASE Exec \/ ExecFails
  <2>1. current = None /\ pending = FALSE
    BY <1>12 DEF TypeOK, Exec, ExecFails, Replace
  <2> QED
    <3>1. Idle'
      BY <1>12, <2>1 DEF Idle, Exec, ExecFails, Replace, Nobody
    <3>2. Idle' => IndInv'
      BY IdleIndInv, PTL
    <3> QED
      BY <3>1, <3>2
<1>13. CASE MainEnds
  BY <1>13 DEF TypeOK, RequestersWait, NoOrphan, Waiting, Queued, InFlight, MainEnds, connVars
<1>14. CASE AcceptFails
  BY <1>14 DEF TypeOK, RequestersWait, NoOrphan, Waiting, Queued, InFlight,
               AcceptFails, connVars, mainVars
<1>15. CASE UNCHANGED vars
  BY <1>15 DEF TypeOK, RequestersWait, NoOrphan, Waiting, Queued, InFlight,
               vars, connVars, mainVars
<1> QED
  BY <1>1, <1>2, <1>3, <1>4, <1>5, <1>6, <1>7, <1>8, <1>9, <1>10, <1>11, <1>12,
     <1>13, <1>14, <1>15 DEF Next, Main, Connection

(* The inductive invariant holds in every reachable state.                 *)
THEOREM Invariance == Spec => []IndInv
  BY InitIndInv, NextIndInv, PTL DEF Spec

(* The type invariant of the gateway.                                      *)
THEOREM TypeCorrect == Spec => []TypeOK
<1>1. IndInv => TypeOK
  BY DEF IndInv
<1> QED
  BY <1>1, Invariance, PTL

(* Every request in the channel or in execution belongs to a connection    *)
(* that waits for it.                                                      *)
THEOREM RequestsAreAwaited == Spec => []RequestersWait
<1>1. IndInv => RequestersWait
  BY DEF IndInv
<1> QED
  BY <1>1, Invariance, PTL

(* Every connection that waits has its request in the channel or in        *)
(* execution, however many connections close around it.                    *)
THEOREM NoneWaitsInVain == Spec => []NoOrphan
<1>1. IndInv => NoOrphan
  BY DEF IndInv
<1> QED
  BY <1>1, Invariance, PTL

(* The channel holds each connection at most once and never a connection   *)
(* that still has to send, so enough places for all connections are never  *)
(* all taken.                                                              *)
THEOREM ChannelLargeEnough ==
  ASSUME IsFiniteSet(Conn), Cardinality(Conn) <= Capacity
  PROVE  Spec => []SendNeverBlocks
<1>1. ASSUME IndInv, NEW c \in Conn, pc[c] = "send"
      PROVE  Len(queue) < Capacity
  <2> DEFINE others == Conn \ {c}
  <2>1. /\ IsFiniteSet(others)
        /\ Cardinality(others) = Cardinality(Conn) - 1
        /\ Cardinality(Conn) \in Nat
    BY FS_RemoveElement, FS_CardinalityType
  <2>2. Len(queue) \in Nat /\ queue \in [1 .. Len(queue) -> Conn]
    BY <1>1 DEF IndInv, TypeOK
  <2>3. \A i \in 1 .. Len(queue) : queue[i] \in others
    BY <1>1, <2>2 DEF IndInv, RequestersWait, Waiting
  <2>4. queue \in Injection(1 .. Len(queue), others)
    BY <1>1, <2>2, <2>3 DEF IndInv, RequestersWait, Injection, IsInjective
  <2>5. Cardinality(1 .. Len(queue)) <= Cardinality(others)
    BY <2>1, <2>4, FS_Injection
  <2>6. Cardinality(1 .. Len(queue)) = Len(queue)
    <3>1. \A n \in Nat : Cardinality(1 .. n) = IF 1 > n THEN 0 ELSE n - 1 + 1
      BY FS_Interval
    <3> QED
      BY <2>2, <3>1
  <2> QED
    BY <2>1, <2>2, <2>5, <2>6
<1>2. IndInv => SendNeverBlocks
  BY <1>1 DEF SendNeverBlocks
<1> QED
  BY <1>2, Invariance, PTL

-----------------------------------------------------------------------------
(* The gateway implements DiagnosticService.                               *)

(* No request is overtaken in the channel.                                 *)
THEOREM NoneOvertaken == Spec => FirstComeFirstServed
<1> DEFINE Kept(i) == \/ i <= Len(queue') /\ queue'[i] = queue[i]
                      \/ i > 1 /\ i - 1 <= Len(queue') /\ queue'[i - 1] = queue[i]
                      \/ i = 1 /\ current' = queue[1]
                      \/ queue' = <<>> /\ mainpc = "grace"
<1>1. IndInv /\ [Next]_vars => [\A i \in 1 .. Len(queue) : Kept(i)]_vars
  <2> SUFFICES ASSUME IndInv, Next, NEW i \in 1 .. Len(queue) PROVE Kept(i)
    OBVIOUS
  <2>1. queue \in Seq(Conn) /\ queue[i] \in Conn
    BY QueueElements DEF IndInv, TypeOK
  <2>2. CASE Dequeue
    <3>1. queue' = Tail(queue) /\ current' = Head(queue) /\ queue # <<>>
      BY <2>2 DEF Dequeue
    <3>2. CASE i = 1
      BY <2>1, <3>1, <3>2
    <3>3. CASE i # 1
      BY <2>1, <3>1, <3>3
    <3> QED
      BY <3>2, <3>3
  <2>3. ASSUME NEW c \in Conn, Enqueue(c) PROVE Kept(i)
    <3>1. queue' = Append(queue, c)
      BY <2>3 DEF Enqueue
    <3> QED
      BY <2>1, <3>1
  <2>4. CASE Exec \/ ExecFails
    BY <2>1, <2>4 DEF Exec, ExecFails, Replace
  <2>5. CASE UNCHANGED queue
    BY <2>5
  <2> QED
    BY <2>2, <2>3, <2>4, <2>5
       DEF Next, Main, Connection, Serve, Check, MainEnds, AcceptFails, Connect, Read, Disconnect,
           RoutingActivation, SkipFrame, FrameFails, Acknowledge, Reply, ReplyFails, Drop
<1> QED
  BY <1>1, Invariance, PTL DEF Spec, FirstComeFirstServed

LEMMA StageType == TypeOK => stage \in [Conn -> Service!Stages]
  BY DEF TypeOK, stage, StageOf, Service!Stages

(* A step of one connection moves that connection only.                    *)
LEMMA StageMove ==
  ASSUME NEW c \in Conn, NEW to,
         \A d \in Conn \ {c} : StageOf(d)' = StageOf(d),
         StageOf(c)' = to
  PROVE  stage' = [stage EXCEPT ![c] = to]
  BY DEF stage

LEMMA StepSimulation == IndInv /\ [Next]_vars => [Service!Next]_Service!vars
<1> SUFFICES ASSUME IndInv, [Next]_vars
             PROVE  [Service!Next]_Service!vars
  OBVIOUS
<1> USE DEF IndInv, TypeOK
<1> DEFINE Others(c) == \A d \in Conn \ {c} : StageOf(d)' = StageOf(d)
<1>s. ASSUME UNCHANGED <<stage, resetting>>
      PROVE  [Service!Next]_Service!vars
  BY <1>s DEF Service!vars
<1>m. ASSUME NEW c \in Conn, UNCHANGED resetting, Others(c),
             \/ StageOf(c) = "closed" /\ StageOf(c)' = "open"
             \/ StageOf(c) \in {"open", "active"} /\ StageOf(c)' = "active"
             \/ StageOf(c) = "active" /\ StageOf(c)' = "asked"
             \/ StageOf(c) = "answered" /\ StageOf(c)' = "active"
             \/ StageOf(c) \in {"open", "active", "answered"} /\ StageOf(c)' = "closed"
      PROVE  [Service!Next]_Service!vars
  <2>1. stage[c] = StageOf(c) /\ stage' = [stage EXCEPT ![c] = StageOf(c)']
    BY <1>m, StageMove DEF stage
  <2> QED
    BY <1>m, <2>1 DEF Service!Next, Service!Open, Service!Activate, Service!Ask,
                      Service!Answer, Service!Close, Service!Move
<1>1. ASSUME NEW c \in Conn, Connect(c)
      PROVE  [Service!Next]_Service!vars
  <2>1. UNCHANGED resetting /\ Others(c)
    BY <1>1 DEF Connect, mainVars, resetting, StageOf
  <2>2. StageOf(c) = "closed" /\ StageOf(c)' = "open"
    BY <1>1 DEF Connect, StageOf
  <2> QED
    BY <1>m, <2>1, <2>2
<1>2. ASSUME NEW c \in Conn, Read(c)
      PROVE  [Service!Next]_Service!vars
  BY <1>s, <1>2 DEF Read, mainVars, resetting, stage, StageOf
<1>3. ASSUME NEW c \in Conn, Disconnect(c) \/ FrameFails(c) \/ ReplyFails(c)
      PROVE  [Service!Next]_Service!vars
  <2>1. UNCHANGED resetting /\ Others(c)
    BY <1>3 DEF Disconnect, FrameFails, ReplyFails, Drop, mainVars, resetting, StageOf
  <2>2. StageOf(c) \in {"open", "active", "answered"} /\ StageOf(c)' = "closed"
    BY <1>3 DEF Disconnect, FrameFails, ReplyFails, Reading, Parsing, Drop, StageOf
  <2> QED
    BY <1>m, <2>1, <2>2
<1>4. ASSUME NEW c \in Conn, NEW t \in Tester, RoutingActivation(c, t)
      PROVE  [Service!Next]_Service!vars
  <2>1. UNCHANGED resetting /\ Others(c)
    BY <1>4 DEF RoutingActivation, mainVars, resetting, StageOf
  <2>2. StageOf(c) \in {"open", "active"} /\ StageOf(c)' = "active"
    BY <1>4 DEF RoutingActivation, Parsing, StageOf
  <2> QED
    BY <1>m, <2>1, <2>2
<1>5. ASSUME NEW c \in Conn, SkipFrame(c)
      PROVE  [Service!Next]_Service!vars
  BY <1>s, <1>5 DEF SkipFrame, mainVars, resetting, stage, StageOf
<1>6. ASSUME NEW c \in Conn, NEW s \in Tester, Acknowledge(c, s)
      PROVE  [Service!Next]_Service!vars
  <2>1. UNCHANGED resetting /\ Others(c)
    BY <1>6 DEF Acknowledge, mainVars, resetting, StageOf
  <2>2. StageOf(c) = "active" /\ StageOf(c)' = "asked"
    BY <1>6 DEF Acknowledge, Parsing, StageOf
  <2> QED
    BY <1>m, <2>1, <2>2
<1>7. ASSUME NEW c \in Conn, Enqueue(c)
      PROVE  [Service!Next]_Service!vars
  <2>1. \A d \in Conn : StageOf(d)' = StageOf(d)
    BY <1>7 DEF Enqueue, StageOf
  <2> QED
    BY <1>s, <1>7, <2>1 DEF Enqueue, mainVars, resetting, stage
<1>8. ASSUME NEW c \in Conn, Reply(c)
      PROVE  [Service!Next]_Service!vars
  <2>1. UNCHANGED resetting /\ Others(c)
    BY <1>8 DEF Reply, mainVars, resetting, StageOf
  <2>2. StageOf(c) = "answered" /\ StageOf(c)' = "active"
    BY <1>8 DEF Reply, StageOf, InFlight
  <2> QED
    BY <1>m, <2>1, <2>2
<1>9. CASE Dequeue \/ Check \/ MainEnds \/ AcceptFails \/ UNCHANGED vars
  <2>1. UNCHANGED resetting
    BY <1>9 DEF Dequeue, Check, MainEnds, AcceptFails, vars, mainVars, resetting
  <2>2. UNCHANGED stage
    BY <1>9 DEF Dequeue, Check, MainEnds, AcceptFails, vars, connVars, stage, StageOf
  <2> QED
    BY <1>s, <2>1, <2>2
<1>10. CASE Serve
  <2>1. current \in Conn /\ pc[current] = "recv" /\ slot[current] = "none"
    BY <1>10 DEF Serve, RequestersWait, Waiting
  <2>2. PICK answer \in {"empty", "data"} : slot' = [slot EXCEPT ![current] = answer]
    BY <1>10, <2>1 DEF Serve
  <2>3. ~resetting /\ resetting' \in BOOLEAN
    BY <1>10 DEF Serve, resetting
  <2>4. \A d \in Conn : StageOf(d)' = IF d = current THEN "answered" ELSE StageOf(d)
    BY <1>10, <2>1, <2>2 DEF Serve, StageOf
  <2>5. StageOf(current) = "asked"
    BY <2>1 DEF StageOf
  <2>6. stage[current] = "asked" /\ stage' = [stage EXCEPT ![current] = "answered"]
    BY <2>1, <2>4, <2>5 DEF stage
  <2> QED
    BY <2>1, <2>3, <2>6 DEF Service!Next, Service!Execute, Service!Move
<1>11. CASE Exec \/ ExecFails
  <2>1. resetting /\ ~resetting'
    BY <1>11 DEF Exec, ExecFails, Replace, resetting
  <2>2. stage' = [c \in Conn |-> "closed"]
    BY <1>11 DEF Exec, ExecFails, Replace, stage, StageOf
  <2> QED
    BY <2>1, <2>2 DEF Service!Next, Service!Restart, resetting
<1> QED
  BY <1>1, <1>2, <1>3, <1>4, <1>5, <1>6, <1>7, <1>8, <1>9, <1>10, <1>11
     DEF Next, Main, Connection

(* The gateway implements the service: a request is executed once, for the *)
(* connection that asked, nothing is executed once a reset is due, and a   *)
(* connection is never dropped between acknowledgement and execution.      *)
THEOREM GatewayImplementsService == Spec => ServiceSpec
<1>1. Init => Service!Init
  BY DEF Init, Service!Init, stage, StageOf, resetting
<1> QED
  BY <1>1, StepSimulation, Invariance, PTL DEF Spec, ServiceSpec, Service!Spec
=============================================================================
