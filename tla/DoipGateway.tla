----------------------------- MODULE DoipGateway -----------------------------
(***************************************************************************)
(* The DoIP server of one ECU image (flxc1000-doip) together with the      *)
(* main loop of the image that serves it (flxc1000-boot, flxc1000-app).    *)
(*                                                                         *)
(* Every TCP connection is a task.  It parses the frames of one read one   *)
(* after the other, acknowledges a diagnostic message, sends the request   *)
(* over a bounded channel shared by all connections, and waits for the     *)
(* answer in a channel of capacity one made for that request.  The main    *)
(* task takes one request at a time, executes it, puts the answer in its   *)
(* channel, and then looks whether the request asked for an ECU reset.  A  *)
(* reset sleeps 50 ms, while the connections keep running, and re-executes *)
(* the process: all connections are gone and the server starts afresh.     *)
(*                                                                         *)
(* A frame is abstracted to what the server does with it, chosen when the  *)
(* frame is reached.  The inactivity clock is abstracted to its expiry,    *)
(* which is possible whenever the task waits for data.                     *)
(***************************************************************************)
EXTENDS Naturals, Sequences

CONSTANTS Conn,      \* TCP connections (slots for them, reused after a close)
          Tester,    \* logical addresses of testers
          None,      \* no tester address, no request
          Capacity,  \* capacity of the request channel (32 in server.rs)
          MaxBatch   \* bound: complete frames in one read of a connection

ASSUME GatewayAssumption == /\ None \notin Conn
                            /\ None \notin Tester
                            /\ Capacity \in Nat \ {0}
                            /\ MaxBatch \in Nat \ {0}

VARIABLES
  listener,  \* "up", or "failed" once bind or accept returned an error
  pc,        \* "none", "open" (reading or parsing), "send" (request not yet in
             \* the channel) or "recv" (waiting for or writing the answer)
  tester,    \* ConnectionState: None is AwaitingActivation, t is Active{t}
  batch,     \* complete frames of the current read that are still to be handled
  source,    \* source_address of the request in flight
  slot,      \* answer channel of the request in flight: "none" (nothing in it),
             \* "empty" (a zero-length answer) or "data"
  queue,     \* request channel; a request is named by its connection
  mainpc,    \* "recv", "serve", "check", "grace" (the 50 ms) or "exited"
  current,   \* the request the main task executes
  pending    \* SharedState.pending_reset is not RESET_NONE

connVars == <<pc, tester, batch, source, slot>>
mainVars == <<mainpc, current, pending>>
vars == <<listener, connVars, queue, mainVars>>

TypeOK == /\ listener \in {"up", "failed"}
          /\ pc \in [Conn -> {"none", "open", "send", "recv"}]
          /\ tester \in [Conn -> Tester \cup {None}]
          /\ batch \in [Conn -> 0 .. MaxBatch]
          /\ source \in [Conn -> Tester \cup {None}]
          /\ slot \in [Conn -> {"none", "empty", "data"}]
          /\ queue \in Seq(Conn)
          /\ Len(queue) <= Capacity
          /\ mainpc \in {"recv", "serve", "check", "grace", "exited"}
          /\ current \in Conn \cup {None}
          /\ pending \in BOOLEAN

(* No connection, nothing queued: how every process of an image begins.    *)
(* The bind of the listener may fail; it is logged and the image goes on.  *)
Nobody == [c \in Conn |-> None]
Init == /\ listener \in {"up", "failed"}
        /\ pc = [c \in Conn |-> "none"]
        /\ tester = Nobody
        /\ batch = [c \in Conn |-> 0]
        /\ source = Nobody
        /\ slot = [c \in Conn |-> "none"]
        /\ queue = <<>>
        /\ mainpc = "recv"
        /\ current = None
        /\ pending = FALSE

Running == mainpc # "exited"

-----------------------------------------------------------------------------
(* The acceptor task.                                                      *)

Connect(c) == /\ Running
              /\ listener = "up"
              /\ pc[c] = "none"
              /\ pc' = [pc EXCEPT ![c] = "open"]
              /\ tester' = [tester EXCEPT ![c] = None]
              /\ UNCHANGED <<listener, batch, source, slot, queue, mainVars>>

(* One failing accept() ends the acceptor for the life of the process.     *)
AcceptFails == /\ Running
               /\ listener = "up"
               /\ listener' = "failed"
               /\ UNCHANGED <<connVars, queue, mainVars>>

-----------------------------------------------------------------------------
(* A connection task.                                                      *)

(* The loop breaks: the stream, the parser's rest and the state are gone.  *)
Drop(c) == /\ pc' = [pc EXCEPT ![c] = "none"]
           /\ tester' = [tester EXCEPT ![c] = None]
           /\ batch' = [batch EXCEPT ![c] = 0]
           /\ source' = [source EXCEPT ![c] = None]
           /\ slot' = [slot EXCEPT ![c] = "none"]
           /\ UNCHANGED <<listener, queue, mainVars>>

Reading(c) == pc[c] = "open" /\ batch[c] = 0
Parsing(c) == pc[c] = "open" /\ batch[c] > 0

Read(c) == /\ Reading(c)
           /\ \E n \in 1 .. MaxBatch : batch' = [batch EXCEPT ![c] = n]
           /\ UNCHANGED <<listener, pc, tester, source, slot, queue, mainVars>>

(* Fault: the timeout is raced against the handling of a request as well.  *)
DisconnectAnyTime(c) == pc[c] # "none" /\ Drop(c)

(* Inactivity timeout, end of stream or read error.                        *)
Disconnect(c) == Reading(c) /\ Drop(c)

(* Repeated activation, also for another address, replaces the first.      *)
RoutingActivation(c, t) ==
  /\ Parsing(c)
  /\ tester' = [tester EXCEPT ![c] = t]
  /\ batch' = [batch EXCEPT ![c] = @ - 1]
  /\ UNCHANGED <<listener, pc, source, slot, queue, mainVars>>

(* A frame without consequence: an alive check, an unsupported type, a     *)
(* diagnostic message before activation or to an unknown target.           *)
SkipFrame(c) == /\ Parsing(c)
                /\ batch' = [batch EXCEPT ![c] = @ - 1]
                /\ UNCHANGED <<listener, pc, tester, source, slot, queue, mainVars>>

(* A malformed frame, or a reply that cannot be written.                   *)
FrameFails(c) == Parsing(c) /\ Drop(c)

(* Fault: the activation state is not looked at.                           *)
AcknowledgeAlways(c, s) ==
  /\ Parsing(c)
  /\ pc' = [pc EXCEPT ![c] = "send"]
  /\ source' = [source EXCEPT ![c] = s]
  /\ batch' = [batch EXCEPT ![c] = @ - 1]
  /\ UNCHANGED <<listener, tester, slot, queue, mainVars>>

(* A diagnostic message for this ECU is acknowledged.  Its source address  *)
(* is whatever the frame says.                                             *)
Acknowledge(c, s) ==
  /\ Parsing(c)
  /\ tester[c] # None
  /\ pc' = [pc EXCEPT ![c] = "send"]
  /\ source' = [source EXCEPT ![c] = s]
  /\ batch' = [batch EXCEPT ![c] = @ - 1]
  /\ UNCHANGED <<listener, tester, slot, queue, mainVars>>

(* Fault: the channel has no bound.                                        *)
EnqueueUnbounded(c) == /\ pc[c] = "send"
                       /\ queue' = Append(queue, c)
                       /\ pc' = [pc EXCEPT ![c] = "recv"]
                       /\ UNCHANGED <<listener, tester, batch, source, slot, mainVars>>

(* Fault: a full channel is not waited for and the error is swallowed,     *)
(* with the sender of the answer channel still held by the task.           *)
EnqueueOrForget(c) ==
  /\ pc[c] = "send"
  /\ queue' = IF Len(queue) < Capacity THEN Append(queue, c) ELSE queue
  /\ pc' = [pc EXCEPT ![c] = "recv"]
  /\ UNCHANGED <<listener, tester, batch, source, slot, mainVars>>

Enqueue(c) == /\ pc[c] = "send"
              /\ Len(queue) < Capacity
              /\ queue' = Append(queue, c)
              /\ pc' = [pc EXCEPT ![c] = "recv"]
              /\ UNCHANGED <<listener, tester, batch, source, slot, mainVars>>

(* The answer arrived; it is written to the tester unless it is empty.     *)
Reply(c) == /\ pc[c] = "recv"
            /\ slot[c] # "none"
            /\ pc' = [pc EXCEPT ![c] = "open"]
            /\ source' = [source EXCEPT ![c] = None]
            /\ slot' = [slot EXCEPT ![c] = "none"]
            /\ UNCHANGED <<listener, tester, batch, queue, mainVars>>

ReplyFails(c) == pc[c] = "recv" /\ slot[c] = "data" /\ Drop(c)

-----------------------------------------------------------------------------
(* The main task.                                                          *)

Dequeue == /\ mainpc = "recv"
           /\ queue # <<>>
           /\ current' = Head(queue)
           /\ queue' = Tail(queue)
           /\ mainpc' = "serve"
           /\ UNCHANGED <<listener, connVars, pending>>

(* Fault: the answer goes to a connection activated for the address the    *)
(* request names as its source.                                            *)
ServeByAddress == /\ mainpc = "serve"
                  /\ \E answer \in {"empty", "data"}, d \in Conn :
                       /\ tester[d] = source[current]
                       /\ slot' = [slot EXCEPT ![d] = answer]
                  /\ pending' \in {pending, TRUE}
                  /\ mainpc' = "check"
                  /\ current' = None
                  /\ UNCHANGED <<listener, pc, tester, batch, source, queue>>

(* The request is handled, which may ask for a reset, and the answer is    *)
(* sent; it is lost (and that is logged) if nobody waits for it any more.  *)
(* The main task would wait, and all testers with it, as long as there is  *)
(* something in the answer channel.                                        *)
Serve == /\ mainpc = "serve"
         /\ slot[current] = "none"
         /\ \E answer \in {"empty", "data"} :
              slot' = IF pc[current] = "recv"
                        THEN [slot EXCEPT ![current] = answer]
                        ELSE slot
         /\ pending' \in {pending, TRUE}
         /\ mainpc' = "check"
         /\ current' = None
         /\ UNCHANGED <<listener, pc, tester, batch, source, queue>>

(* Fault: a reset waits until no request is queued.                        *)
CheckWhenIdle == /\ mainpc = "check"
                 /\ IF pending /\ queue = <<>>
                      THEN mainpc' = "grace" /\ pending' = FALSE
                      ELSE mainpc' = "recv" /\ UNCHANGED pending
                 /\ UNCHANGED <<listener, connVars, queue, current>>

(* pending_reset.swap(RESET_NONE).                                         *)
Check == /\ mainpc = "check"
         /\ mainpc' = IF pending THEN "grace" ELSE "recv"
         /\ pending' = FALSE
         /\ UNCHANGED <<listener, connVars, queue, current>>

(* The process image is gone, and with it all connections and requests.    *)
Replace == /\ mainpc = "grace"
           /\ pc' = [c \in Conn |-> "none"]
           /\ tester' = Nobody
           /\ batch' = [c \in Conn |-> 0]
           /\ source' = Nobody
           /\ slot' = [c \in Conn |-> "none"]
           /\ queue' = <<>>
           /\ UNCHANGED <<current, pending>>

(* execve() after the 50 ms.  Whatever it starts begins afresh.            *)
Exec == Replace /\ mainpc' = "recv" /\ listener' \in {"up", "failed"}

(* execve() failed: process::exit(1).                                      *)
ExecFails == Replace /\ mainpc' = "exited" /\ listener' = "failed"

(* recv() returns None once the acceptor and all connections are gone.     *)
MainEnds == /\ mainpc = "recv"
            /\ queue = <<>>
            /\ listener = "failed"
            /\ \A c \in Conn : pc[c] = "none"
            /\ mainpc' = "exited"
            /\ UNCHANGED <<listener, connVars, queue, current, pending>>

-----------------------------------------------------------------------------
Main == Dequeue \/ Serve \/ Check \/ Exec \/ ExecFails \/ MainEnds

Connection(c) == \/ Connect(c)
                 \/ Read(c)
                 \/ Disconnect(c)
                 \/ \E t \in Tester : RoutingActivation(c, t)
                 \/ SkipFrame(c)
                 \/ FrameFails(c)
                 \/ \E s \in Tester : Acknowledge(c, s)
                 \/ Enqueue(c)
                 \/ Reply(c)
                 \/ ReplyFails(c)

Next == Main \/ AcceptFails \/ \E c \in Conn : Connection(c)

Spec == Init /\ [][Next]_vars

(* The runtime schedules the main task and hands free places of the        *)
(* channel to its waiters in order.  Nothing is assumed of the testers:    *)
(* no frame need arrive, no write to a tester need ever finish.            *)
Fairness == /\ WF_vars(Main)
            /\ \A c \in Conn : SF_vars(Enqueue(c))

FairSpec == Spec /\ Fairness

-----------------------------------------------------------------------------
(* Properties.                                                             *)

Queued(c) == \E i \in 1 .. Len(queue) : queue[i] = c
Waiting(c) == pc[c] = "recv" /\ slot[c] = "none"

(* A request in the channel or in execution belongs to a connection that   *)
(* is waiting for exactly that request: no connection was closed, timed    *)
(* out or went on to its next frame, and no request is in there twice      *)
(* (connection.rs:222-237 runs to its end before the select! is reached).  *)
(* Hence the answer channel of the request in execution has room, and the  *)
(* main task never waits for a tester.                                     *)
RequestersWait ==
  /\ \A i \in 1 .. Len(queue) : Waiting(queue[i]) /\ queue[i] # current
  /\ \A i, j \in 1 .. Len(queue) : queue[i] = queue[j] => i = j
  /\ mainpc = "serve" => current # None /\ Waiting(current)

(* A connection that waits for an answer waits for a request that is still *)
(* in the channel or in execution: none waits on resp_rx for ever.         *)
NoOrphan == \A c \in Conn : Waiting(c) => Queued(c) \/ current = c

(* The inductive invariant behind both, and behind the refinement below.   *)
InFlight(c) == pc[c] \in {"send", "recv"}
IndInv == /\ TypeOK
          /\ RequestersWait
          /\ NoOrphan
          /\ \A c \in Conn : /\ InFlight(c) => tester[c] # None
                             /\ slot[c] # "none" => pc[c] = "recv"
          /\ mainpc # "serve" => current = None
          /\ pending => mainpc = "check"

(* With at least as many places in the channel as there are connections    *)
(* uds_tx.send never has to wait: no tester can hold up another's request. *)
SendNeverBlocks == \A c \in Conn : pc[c] = "send" => Len(queue) < Capacity

(* Requests are taken in the order they were sent: one in the channel      *)
(* keeps its place or moves up, until it is executed or the process is     *)
(* replaced.  No tester overtakes another, whatever it sends.              *)
FirstComeFirstServed ==
  [][\A i \in 1 .. Len(queue) :
       \/ i <= Len(queue') /\ queue'[i] = queue[i]
       \/ i > 1 /\ i - 1 <= Len(queue') /\ queue'[i - 1] = queue[i]
       \/ i = 1 /\ current' = queue[1]
       \/ queue' = <<>> /\ mainpc = "grace"]_vars

(* An acknowledged request gets its answer, or its connection is gone      *)
(* because of a reset, even if other testers never read theirs.            *)
AcknowledgedIsAnswered ==
  \A c \in Conn : pc[c] = "send" ~> (slot[c] # "none" \/ pc[c] = "none")

(* The gateway keeps the promise of DiagnosticService.                     *)
StageOf(c) == CASE pc[c] = "none" -> "closed"
                [] pc[c] = "open" -> IF tester[c] = None THEN "open" ELSE "active"
                [] pc[c] \in {"send", "recv"} ->
                     IF slot[c] = "none" THEN "asked" ELSE "answered"
stage == [c \in Conn |-> StageOf(c)]
resetting == pending \/ mainpc = "grace"

Service == INSTANCE DiagnosticService WITH stage <- stage, resetting <- resetting
ServiceSpec == Service!Spec

(* A reset that was asked for is carried out, however many requests keep   *)
(* coming (the swap after every request, boot main.rs:348, app 601).       *)
ResetHappens == resetting ~> ~resetting
=============================================================================
