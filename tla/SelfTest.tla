------------------------------ MODULE SelfTest ------------------------------
(***************************************************************************)
(* The self-test routine of the application image (flxc1000-app): the UDS  *)
(* handler starts and stops LED cascades, each a thread of its own, and    *)
(* talks to them through the atomic routine_status only.  Handler and      *)
(* threads share the LED pins.  A pin can be held by one of them at a      *)
(* time: gpio.get() of a pin that is held fails, and both set_led and the  *)
(* cascade then go on without it.                                          *)
(***************************************************************************)
EXTENDS Naturals

CONSTANTS Thread,     \* bound: cascades that can be alive at the same time
          LEDs,       \* number of LEDs (5 in the code)
          PowerReads, \* whether testers read DID 0xF200, which toggles LED1
          Handler,    \* the UDS handler, as holder of a pin
          Free        \* no holder

ASSUME SelfTestAssumption == /\ LEDs \in Nat \ {0}
                             /\ PowerReads \in BOOLEAN
                             /\ Handler \notin Thread
                             /\ Free \notin Thread
                             /\ Handler # Free

LED == 1 .. LEDs

VARIABLES
  status,   \* SharedState.routine_status
  pc,       \* phase of each thread, see Phases
  led,      \* loop variable of the thread's current loop
  quitting, \* the thread has seen the abort
  holder,   \* who holds the OutputPin of each LED
  lit,      \* the LEDs that are driven high or by PWM
  main      \* phase of the handler: "idle", "stop" (between load and store of
            \* Stop), "on", "off" (in the two set_led calls of DID 0xF200);
            \* "gone" after an ECU reset, "cut" after one during a cascade

vars == <<status, pc, led, quitting, holder, lit, main>>

Phases == {"none",   \* not started, or returned
           "begin",  \* spawned
           "first",  \* the all_leds_off at the start
           "check",  \* about to look for an abort
           "light",  \* about to light LED led
           "hold",   \* all LEDs are on for 500 ms
           "drop",   \* releasing the pins, one after the other
           "last",   \* the all_leds_off at the end
           "finish"} \* about to store COMPLETED

TypeOK == /\ status \in {"idle", "running", "completed", "aborted"}
          /\ pc \in [Thread -> Phases]
          /\ led \in [Thread -> LED]
          /\ quitting \in [Thread -> BOOLEAN]
          /\ holder \in [LED -> Thread \cup {Handler, Free}]
          /\ lit \in SUBSET LED
          /\ main \in {"idle", "stop", "on", "off", "gone", "cut"}

(* Power-on, after boot_blink.                                             *)
Init == /\ status = "idle"
        /\ pc = [t \in Thread |-> "none"]
        /\ led = [t \in Thread |-> 1]
        /\ quitting = [t \in Thread |-> FALSE]
        /\ holder = [p \in LED |-> Free]
        /\ lit = {}
        /\ main = "idle"

-----------------------------------------------------------------------------
(* set_led: get the pin, then drive it and let go of it.                   *)

Get(a, p) == holder[p] = Free /\ holder' = [holder EXCEPT ![p] = a] /\ UNCHANGED lit

LetGo(a, p) == holder[p] = a /\ holder' = [holder EXCEPT ![p] = Free]

SwitchOn(a, p) == LetGo(a, p) /\ lit' = lit \cup {p}
SwitchOff(a, p) == LetGo(a, p) /\ lit' = lit \ {p}

-----------------------------------------------------------------------------
(* The handler, one request at a time.                                     *)

(* RoutineControl Start is refused while the status is RUNNING.            *)
Start(t) == /\ main = "idle"
            /\ status # "running"
            /\ pc[t] = "none"
            /\ pc' = [pc EXCEPT ![t] = "begin"]
            /\ quitting' = [quitting EXCEPT ![t] = FALSE]
            /\ UNCHANGED <<status, led, holder, lit, main>>

(* RoutineControl Stop loads the status and, in a step of its own, stores. *)
Stop == /\ main = "idle"
        /\ status = "running"
        /\ main' = "stop"
        /\ UNCHANGED <<status, pc, led, quitting, holder, lit>>

StopStore == /\ main = "stop"
             /\ status' = "aborted"
             /\ main' = "idle"
             /\ UNCHANGED <<pc, led, quitting, holder, lit>>

(* ReadDataByIdentifier 0xF200: set_led(0, true), then set_led(0, false).  *)
ReadPower == /\ PowerReads
             /\ main = "idle"
             /\ main' = "on"
             /\ UNCHANGED <<status, pc, led, quitting, holder, lit>>

HandlerOn == /\ main = "on"
             /\ \/ Get(Handler, 1) /\ UNCHANGED main
                \/ SwitchOn(Handler, 1) /\ main' = "off"
                \/ holder[1] \in Thread /\ main' = "off" /\ UNCHANGED <<holder, lit>>
             /\ UNCHANGED <<status, pc, led, quitting>>

HandlerOff == /\ main = "off"
              /\ \/ Get(Handler, 1) /\ UNCHANGED main
                 \/ SwitchOff(Handler, 1) /\ main' = "idle"
                 \/ holder[1] \in Thread /\ main' = "idle" /\ UNCHANGED <<holder, lit>>
              /\ UNCHANGED <<status, pc, led, quitting>>

-----------------------------------------------------------------------------
(* A cascade thread: led_cascade_test.                                     *)

Begin(t) == /\ pc[t] = "begin"
            /\ status' = "running"
            /\ pc' = [pc EXCEPT ![t] = "first"]
            /\ led' = [led EXCEPT ![t] = 1]
            /\ UNCHANGED <<quitting, holder, lit, main>>

(* Fault: the loop runs to LEDs inclusive, counting from zero.             *)
EndOfLoopTooFar(t, after) ==
  IF led[t] <= LEDs
    THEN led' = [led EXCEPT ![t] = @ + 1] /\ UNCHANGED pc
    ELSE led' = [led EXCEPT ![t] = 1] /\ pc' = [pc EXCEPT ![t] = after]

(* The end of the body of a loop over the LEDs.                            *)
EndOfLoop(t, after) ==
  IF led[t] < LEDs
    THEN led' = [led EXCEPT ![t] = @ + 1] /\ UNCHANGED pc
    ELSE led' = [led EXCEPT ![t] = 1] /\ pc' = [pc EXCEPT ![t] = after]

(* all_leds_off; the last one of a cascade that saw the abort is followed  *)
(* by the return.                                                          *)
Darken(t) ==
  LET p == led[t]
      after == IF pc[t] = "first" THEN "check"
               ELSE IF quitting[t] THEN "none" ELSE "finish"
  IN /\ pc[t] \in {"first", "last"}
     /\ \/ Get(t, p) /\ UNCHANGED <<pc, led>>
        \/ SwitchOff(t, p) /\ EndOfLoop(t, after)
        \/ /\ holder[p] \notin {t, Free}
           /\ EndOfLoop(t, after)
           /\ UNCHANGED <<holder, lit>>
     /\ UNCHANGED <<status, quitting, main>>

CheckAbort(t) ==
  /\ pc[t] = "check"
  /\ quitting' = [quitting EXCEPT ![t] = status = "aborted"]
  /\ pc' = [pc EXCEPT ![t] = IF status = "aborted" THEN "drop" ELSE "light"]
  /\ UNCHANGED <<status, led, holder, lit, main>>

(* The pin is kept in active_pins; a pin somebody else holds is skipped.   *)
Light(t) ==
  /\ pc[t] = "light"
  /\ LET gets == holder[led[t]] = Free
     IN /\ holder' = IF gets THEN [holder EXCEPT ![led[t]] = t] ELSE holder
        /\ lit' = IF gets THEN lit \cup {led[t]} ELSE lit
  /\ IF led[t] < LEDs
       THEN led' = [led EXCEPT ![t] = @ + 1] /\ pc' = [pc EXCEPT ![t] = "check"]
       ELSE led' = [led EXCEPT ![t] = 1] /\ pc' = [pc EXCEPT ![t] = "hold"]
  /\ UNCHANGED <<status, quitting, main>>

Hold(t) == /\ pc[t] = "hold"
           /\ pc' = [pc EXCEPT ![t] = "drop"]
           /\ UNCHANGED <<status, led, quitting, holder, lit, main>>

(* drop(active_pins), in order.  Stopping the PWM leaves either level.     *)
DropPin(t, p) == /\ pc[t] = "drop"
                 /\ \A q \in LED : holder[q] = t => p <= q
                 /\ SwitchOn(t, p) \/ SwitchOff(t, p)
                 /\ UNCHANGED <<status, pc, led, quitting, main>>

(* Fault: an aborted cascade returns without the final all_leds_off.       *)
DroppedAndReturned(t) ==
  /\ pc[t] = "drop"
  /\ \A p \in LED : holder[p] # t
  /\ pc' = [pc EXCEPT ![t] = IF quitting[t] THEN "none" ELSE "last"]
  /\ led' = [led EXCEPT ![t] = 1]
  /\ UNCHANGED <<status, quitting, holder, lit, main>>

Dropped(t) == /\ pc[t] = "drop"
              /\ \A p \in LED : holder[p] # t
              /\ pc' = [pc EXCEPT ![t] = "last"]
              /\ led' = [led EXCEPT ![t] = 1]
              /\ UNCHANGED <<status, quitting, holder, lit, main>>

(* Fault: COMPLETED is stored only if all_leds_off met no taken pin.       *)
FinishIfDark(t) ==
  /\ pc[t] = "finish"
  /\ status' = IF lit = {} /\ \A p \in LED : holder[p] = Free THEN "completed" ELSE status
  /\ pc' = [pc EXCEPT ![t] = "none"]
  /\ UNCHANGED <<led, quitting, holder, lit, main>>

Finish(t) == /\ pc[t] = "finish"
             /\ status' = "completed"
             /\ pc' = [pc EXCEPT ![t] = "none"]
             /\ UNCHANGED <<led, quitting, holder, lit, main>>

-----------------------------------------------------------------------------
(* The reset that follows an accepted ECUReset: execve of /init ends the   *)
(* cascades and the software PWM of their pins where they are.  Neither    *)
(* /init nor the bootloader touches the pins, so they keep their level.    *)

Alive(t) == pc[t] \notin {"none", "finish"}
PwmPins == {p \in LED : \E t \in Thread : /\ holder[p] = t
                                         /\ pc[t] \in {"check", "light", "hold", "drop"}}

Replace == /\ main = "idle"
           /\ main' = IF \E t \in Thread : Alive(t) THEN "cut" ELSE "gone"
           /\ \E off \in SUBSET PwmPins : lit' = lit \ off
           /\ status' = "idle"
           /\ pc' = [t \in Thread |-> "none"]
           /\ quitting' = [t \in Thread |-> FALSE]
           /\ holder' = [p \in LED |-> Free]
           /\ UNCHANGED led

(* The power is lost, comes back, and the card still says app_valid.       *)
PowerCycle == /\ status' = "idle"
              /\ pc' = [t \in Thread |-> "none"]
              /\ led' = [t \in Thread |-> 1]
              /\ quitting' = [t \in Thread |-> FALSE]
              /\ holder' = [p \in LED |-> Free]
              /\ lit' = {}
              /\ main' = "idle"

-----------------------------------------------------------------------------
Cascade(t) == \/ Begin(t)
              \/ Darken(t)
              \/ CheckAbort(t)
              \/ Light(t)
              \/ Hold(t)
              \/ \E p \in LED : DropPin(t, p)
              \/ Dropped(t)
              \/ Finish(t)

Handle == Stop \/ StopStore \/ ReadPower \/ HandlerOn \/ HandlerOff \/ \E t \in Thread : Start(t)

Next == Handle \/ Replace \/ PowerCycle \/ \E t \in Thread : Cascade(t)

Spec == Init /\ [][Next]_vars

(* The operating system schedules every thread; no request need arrive.    *)
FairSpec == Spec /\ \A t \in Thread : WF_vars(Cascade(t))

-----------------------------------------------------------------------------
(* Properties.                                                             *)

(* A cascade that has announced itself and will still store COMPLETED.     *)
Backing(t) == /\ pc[t] \in {"first", "check", "light", "hold", "drop", "last", "finish"}
              /\ ~quitting[t]

(* RUNNING is never a leftover: a cascade is alive that will replace it,   *)
(* so the refusal of Start (main.rs:303) never lasts for ever, although    *)
(* several cascades and the handler overwrite one status byte.             *)
RunningIsBacked == status = "running" => \E t \in Thread : Backing(t)

(* Actor a will still switch LED p off, or try to.                         *)
WillDarken(t, p) == \/ pc[t] \in {"begin", "first", "check", "light", "hold", "drop"}
                    \/ pc[t] = "last" /\ led[t] <= p
HandlerWillDarken(p) == p = 1 /\ main \in {"on", "off"}

Quiet == main \notin {"on", "off"} /\ \A t \in Thread : ~Alive(t)

(* When no cascade and no read of 0xF200 is under way, all LEDs are off    *)
(* and no pin is left held, however often set_led found its pin taken.     *)
(* Only a reset during a cascade leaves LEDs on behind it.                 *)
DarkWhenQuiet == Quiet => /\ \A p \in LED : holder[p] = Free
                          /\ lit = {} \/ main = "cut"

(* An LED that a cascade has lit stays lit until the cascade lets go of it *)
(* whatever all_leds_off of another one and reads of 0xF200 do.            *)
HeldIsLit == \A t \in Thread, p \in LED :
               holder[p] = t /\ pc[t] \in {"check", "light", "hold", "drop"} => p \in lit

(* The inductive invariant behind these.                                   *)
IndInv ==
  /\ TypeOK
  /\ RunningIsBacked
  /\ \A t \in Thread : pc[t] = "begin" => ~quitting[t]
  /\ HeldIsLit
  /\ \A p \in lit : \/ main = "cut"
                    \/ HandlerWillDarken(p)
                    \/ \E t \in Thread : WillDarken(t, p)
  /\ \A p \in LED : holder[p] = Handler => HandlerWillDarken(p)
  /\ \A t \in Thread, p \in LED :
       holder[p] = t => /\ WillDarken(t, p)
                        /\ pc[t] # "begin"
                        /\ pc[t] \in {"first", "last"} => p = led[t]

(* Every announced cascade comes to an end that the tester can see.        *)
RunningEnds == status = "running" ~> status # "running"

(* README.md:309-316 describes one cascade, and main.rs:301-305 refuses a   *)
(* Start while the routine runs: two never run at the same time.           *)
OneCascade == \A t, u \in Thread :
                pc[t] \notin {"none", "begin"} /\ pc[u] \notin {"none", "begin"} => t = u

(* main.rs:317, "abort running routine": a routine whose abort the tester  *)
(* was told about does not complete.                                       *)
AbortStands == [][status = "aborted" => status' # "completed"]_vars
=============================================================================
