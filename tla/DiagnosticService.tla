-------------------------- MODULE DiagnosticService --------------------------
(***************************************************************************)
(* What the DoIP entity promises the testers connected to it, without the  *)
(* tasks, channels and loops that keep the promise (DoipGateway does that  *)
(* and is shown to implement this module).                                 *)
(*                                                                         *)
(* A connection is closed, open (no routing activation yet), active, has   *)
(* asked (its diagnostic message was acknowledged and is not executed yet) *)
(* or is answered (executed, the answer is on its way to the tester).      *)
(***************************************************************************)
CONSTANT Conn

VARIABLES stage,      \* stage of each connection
          resetting   \* an executed request asked for an ECU reset

vars == <<stage, resetting>>

Stages == {"closed", "open", "active", "asked", "answered"}

TypeOK == /\ stage \in [Conn -> Stages]
          /\ resetting \in BOOLEAN

Init == /\ stage = [c \in Conn |-> "closed"]
        /\ resetting = FALSE

Move(c, from, to) == /\ stage[c] \in from
                     /\ stage' = [stage EXCEPT ![c] = to]

Open(c) == Move(c, {"closed"}, "open") /\ UNCHANGED resetting

Activate(c) == Move(c, {"open", "active"}, "active") /\ UNCHANGED resetting

(* Only an activated connection without an unanswered request may ask. *)
Ask(c) == Move(c, {"active"}, "asked") /\ UNCHANGED resetting

(* A request is executed once, and none is executed once a reset is due. *)
Execute(c) == /\ ~resetting
              /\ Move(c, {"asked"}, "answered")
              /\ resetting' \in BOOLEAN

Answer(c) == Move(c, {"answered"}, "active") /\ UNCHANGED resetting

(* A connection is never dropped between the acknowledgement of a request  *)
(* and its execution.                                                      *)
Close(c) == Move(c, {"open", "active", "answered"}, "closed") /\ UNCHANGED resetting

(* Only a reset that an executed request asked for drops everything.       *)
Restart == /\ resetting
           /\ stage' = [c \in Conn |-> "closed"]
           /\ resetting' = FALSE

Next == \/ Restart
        \/ \E c \in Conn : \/ Open(c)
                           \/ Activate(c)
                           \/ Ask(c)
                           \/ Execute(c)
                           \/ Answer(c)
                           \/ Close(c)

Spec == Init /\ [][Next]_vars
=============================================================================
