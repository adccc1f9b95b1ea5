--------------------------- MODULE SelfTestProofs ---------------------------
(***************************************************************************)
(* Theorems about SelfTest, for any number of LEDs and of cascades that    *)
(* are alive at the same time.                                             *)
(***************************************************************************)
EXTENDS SelfTest, TLAPS

USE SelfTestAssumption DEF SelfTestAssumption, LED

LEMMA InitIndInv == Init => IndInv
  BY DEF Init, IndInv, TypeOK, Phases, RunningIsBacked, HeldIsLit

(* The end of a loop body stays in range.                                  *)
LEMMA EndOfLoopType ==
  ASSUME TypeOK, NEW t \in Thread, NEW after \in Phases, EndOfLoop(t, after)
  PROVE  /\ led' \in [Thread -> LED]
         /\ pc' \in [Thread -> Phases]
<1>1. 1 \in LED
  OBVIOUS
<1>2. CASE led[t] < LEDs
  <2>1. led[t] + 1 \in LED
    BY <1>2 DEF TypeOK
  <2> QED
    BY <1>2, <2>1 DEF TypeOK, EndOfLoop
<1>3. CASE ~(led[t] < LEDs)
  BY <1>1, <1>3 DEF TypeOK, EndOfLoop
<1> QED
  BY <1>2, <1>3

(* The parts of IndInv about the pins, named for the proof.                *)
LitIsSeenTo == \A p \in lit : \/ main = "cut"
                              \/ HandlerWillDarken(p)
                              \/ \E t \in Thread : WillDarken(t, p)
HeldByHandler == \A p \in LED : holder[p] = Handler => HandlerWillDarken(p)
HeldByThread == \A t \in Thread, p \in LED :
                  holder[p] = t => /\ WillDarken(t, p)
                                   /\ pc[t] # "begin"
                                   /\ pc[t] \in {"first", "last"} => p = led[t]

Begins == \A t \in Thread : pc[t] = "begin" => ~quitting[t]

LEMMA Parts == IndInv <=> /\ TypeOK
                          /\ RunningIsBacked
                          /\ Begins
                          /\ HeldIsLit
                          /\ LitIsSeenTo
                          /\ HeldByHandler
                          /\ HeldByThread
  BY DEF IndInv, Begins, LitIsSeenTo, HeldByHandler, HeldByThread

LEMMA NextTypeOK == TypeOK /\ [Next]_vars => TypeOK'
<1> SUFFICES ASSUME TypeOK, [Next]_vars PROVE TypeOK'
  OBVIOUS
<1> USE DEF TypeOK, Phases
<1>1. ASSUME NEW t \in Thread, Start(t) PROVE TypeOK'
  BY <1>1 DEF Start
<1>2. CASE Stop \/ StopStore \/ ReadPower
  BY <1>2 DEF Stop, StopStore, ReadPower
<1>3. CASE HandlerOn \/ HandlerOff
  <2>1. 1 \in LED
    OBVIOUS
  <2> QED
    BY <1>3, <2>1 DEF HandlerOn, HandlerOff, Get, LetGo, SwitchOn, SwitchOff
<1>4. ASSUME NEW t \in Thread, Begin(t) PROVE TypeOK'
  BY <1>4 DEF Begin
<1>5. ASSUME NEW t \in Thread, Darken(t) PROVE TypeOK'
  <2>1. CASE Get(t, led[t]) /\ UNCHANGED <<pc, led>>
    BY <1>5, <2>1 DEF Darken, Get
  <2>2. ASSUME NEW after \in Phases, EndOfLoop(t, after),
               SwitchOff(t, led[t]) \/ UNCHANGED <<holder, lit>>
        PROVE  TypeOK'
    <3>1. led' \in [Thread -> LED] /\ pc' \in [Thread -> Phases]
      BY <2>2, EndOfLoopType
    <3> QED
      BY <1>5, <2>2, <3>1 DEF Darken, LetGo, SwitchOff
  <2>3. {"check", "none", "finish"} \subseteq Phases
    OBVIOUS
  <2> QED
    BY <1>5, <2>1, <2>2, <2>3 DEF Darken
<1>6. ASSUME NEW t \in Thread, CheckAbort(t) PROVE TypeOK'
  BY <1>6 DEF CheckAbort
<1>7. ASSUME NEW t \in Thread, Light(t) PROVE TypeOK'
  <2>1. \/ EndOfLoop(t, "hold")
        \/ led[t] < LEDs /\ led' = [led EXCEPT ![t] = @ + 1] /\ pc' = [pc EXCEPT ![t] = "check"]
    BY <1>7 DEF Light, EndOfLoop
  <2>2. led' \in [Thread -> LED] /\ pc' \in [Thread -> Phases]
    <3>1. led[t] < LEDs => led[t] + 1 \in LED
      OBVIOUS
    <3> QED
      BY <2>1, <3>1, EndOfLoopType
  <2>3. holder' \in [LED -> Thread \cup {Handler, Free}] /\ lit' \in SUBSET LED
    BY <1>7 DEF Light
  <2> QED
    BY <1>7, <2>2, <2>3 DEF Light
<1>8. ASSUME NEW t \in Thread, Hold(t) \/ Dropped(t) \/ Finish(t) PROVE TypeOK'
  <2>1. 1 \in LED
    OBVIOUS
  <2> QED
    BY <1>8, <2>1 DEF Hold, Dropped, Finish
<1>9. ASSUME NEW t \in Thread, NEW p \in LED, DropPin(t, p) PROVE TypeOK'
  BY <1>9 DEF DropPin, LetGo, SwitchOn, SwitchOff
<1>10. CASE Replace \/ PowerCycle
  <2>1. 1 \in LED
    OBVIOUS
  <2> QED
    BY <1>10, <2>1 DEF Replace, PowerCycle
<1>11. CASE UNCHANGED vars
  BY <1>11 DEF vars
<1> QED
  BY <1>1, <1>2, <1>3, <1>4, <1>5, <1>6, <1>7, <1>8, <1>9, <1>10, <1>11
     DEF Next, Handle, Cascade

(* RUNNING is backed: only Begin stores RUNNING, a cascade that finishes   *)
(* stores COMPLETED, and one that quits has seen ABORTED.                  *)
LEMMA NextBacked == TypeOK /\ RunningIsBacked /\ Begins /\ [Next]_vars => (RunningIsBacked /\ Begins)'
<1> SUFFICES ASSUME TypeOK, RunningIsBacked, Begins, [Next]_vars
             PROVE  (RunningIsBacked /\ Begins)'
  OBVIOUS
<1> USE DEF TypeOK, RunningIsBacked, Begins, Backing
<1>1. ASSUME NEW t \in Thread, Start(t) PROVE (RunningIsBacked /\ Begins)'
  BY <1>1 DEF Start
<1>2. CASE Stop \/ StopStore \/ ReadPower \/ HandlerOn \/ HandlerOff
  BY <1>2 DEF Stop, StopStore, ReadPower, HandlerOn, HandlerOff
<1>3. ASSUME NEW t \in Thread, Begin(t) PROVE (RunningIsBacked /\ Begins)'
  BY <1>3 DEF Begin
<1>4. ASSUME NEW t \in Thread, Darken(t) PROVE (RunningIsBacked /\ Begins)'
  BY <1>4 DEF Darken, EndOfLoop
<1>5. ASSUME NEW t \in Thread, CheckAbort(t) PROVE (RunningIsBacked /\ Begins)'
  BY <1>5 DEF CheckAbort
<1>6. ASSUME NEW t \in Thread, Light(t) PROVE (RunningIsBacked /\ Begins)'
  BY <1>6 DEF Light
<1>7. ASSUME NEW t \in Thread, Hold(t) \/ Dropped(t) \/ Finish(t) PROVE (RunningIsBacked /\ Begins)'
  BY <1>7 DEF Hold, Dropped, Finish
<1>8. ASSUME NEW t \in Thread, NEW p \in LED, DropPin(t, p) PROVE (RunningIsBacked /\ Begins)'
  BY <1>8 DEF DropPin
<1>9. CASE Replace \/ PowerCycle
  BY <1>9 DEF Replace, PowerCycle
<1>10. CASE UNCHANGED vars
  BY <1>10 DEF vars
<1> QED
  BY <1>1, <1>2, <1>3, <1>4, <1>5, <1>6, <1>7, <1>8, <1>9, <1>10 DEF Next, Handle, Cascade

(* The invariant of the pins.                                              *)
Pins == HeldIsLit /\ LitIsSeenTo /\ HeldByHandler /\ HeldByThread

(* Leaving LED led[t], or the loop, a thread misses no other LED.          *)
LEMMA EndOfLoopKeeps ==
  ASSUME TypeOK, NEW t \in Thread, pc[t] \in {"first", "last"}, NEW after,
         pc[t] = "first" => after = "check", EndOfLoop(t, after)
  PROVE  \A q \in LED, u \in Thread :
            WillDarken(u, q) /\ (u # t \/ q # led[t]) => WillDarken(u, q)'
<1> SUFFICES ASSUME NEW q \in LED, NEW u \in Thread, WillDarken(u, q), u # t \/ q # led[t]
             PROVE  WillDarken(u, q)'
  OBVIOUS
<1>1. CASE u # t
  BY <1>1 DEF TypeOK, EndOfLoop, WillDarken
<1>2. CASE u = t /\ led[t] < LEDs
  BY <1>2 DEF TypeOK, EndOfLoop, WillDarken
<1>3. CASE u = t /\ led[t] >= LEDs
  BY <1>3 DEF TypeOK, EndOfLoop, WillDarken
<1> QED
  BY <1>1, <1>2, <1>3 DEF TypeOK

(* One LED of all_leds_off, with the pin obtained or skipped: a skipped    *)
(* LED is left to its holder.                                              *)
LEMMA DarkenPins ==
  ASSUME TypeOK, Pins, NEW t \in Thread, Darken(t)
  PROVE  Pins'
<1> DEFINE p == led[t]
<1>1. /\ p \in LED
      /\ pc[t] \in {"first", "last"}
      /\ UNCHANGED main
      /\ \A q \in LED : holder[q] = t => q = p
  BY DEF Darken, TypeOK, Pins, HeldByThread
<1>2. CASE Get(t, p) /\ UNCHANGED <<pc, led>>
  <2>1. UNCHANGED lit /\ \A q \in LED : holder'[q] = IF q = p THEN t ELSE holder[q]
    BY <1>1, <1>2 DEF Get, TypeOK
  <2>2. WillDarken(t, p)
    BY <1>1 DEF WillDarken, TypeOK
  <2>3. LitIsSeenTo'
    BY <1>1, <1>2, <2>1 DEF TypeOK, Pins, LitIsSeenTo, WillDarken, HandlerWillDarken
  <2>4. HeldByHandler' /\ HeldIsLit'
    BY <1>1, <1>2, <2>1
       DEF TypeOK, Pins, HeldIsLit, HeldByHandler, WillDarken, HandlerWillDarken
  <2>5. HeldByThread'
    BY <1>1, <1>2, <2>1, <2>2 DEF TypeOK, Pins, HeldByThread, WillDarken
  <2> QED
    BY <2>3, <2>4, <2>5 DEF Pins
<1>3. ASSUME NEW after, EndOfLoop(t, after), after \in {"check", "none", "finish"},
             pc[t] = "first" => after = "check",
             SwitchOff(t, p) \/ (holder[p] \notin {t, Free} /\ UNCHANGED <<holder, lit>>)
      PROVE  Pins'
  <2>1. \A u \in Thread \ {t} : pc'[u] = pc[u] /\ led'[u] = led[u]
    BY <1>3 DEF EndOfLoop, TypeOK
  <2>2. \A q \in LED, u \in Thread :
          WillDarken(u, q) /\ (u # t \/ q # p) => WillDarken(u, q)'
    BY <1>1, <1>3, EndOfLoopKeeps
  <2>3. /\ \A q \in LED \ {p} : holder'[q] = holder[q] /\ (q \in lit' <=> q \in lit)
        /\ \/ holder'[p] = Free /\ p \notin lit'
           \/ holder'[p] = holder[p] /\ holder[p] \notin {t, Free}
    <3>1. CASE SwitchOff(t, p)
      BY <1>1, <3>1 DEF SwitchOff, LetGo, TypeOK
    <3>2. CASE holder[p] \notin {t, Free} /\ UNCHANGED <<holder, lit>>
      BY <3>2
    <3> QED
      BY <1>3, <3>1, <3>2
  <2>4. \A q \in LED : /\ holder'[q] # t
                       /\ holder'[q] = holder[q] \/ holder'[q] = Free
    BY <1>1, <2>3
  <2>5. \A q \in LED : q \in lit' => q \in lit \/ q = p
    BY <2>3
  <2>6. HeldByHandler'
    BY <1>1, <2>4 DEF Pins, HeldByHandler, HandlerWillDarken
  <2>7. HeldByThread'
    <3> SUFFICES ASSUME NEW u \in Thread, NEW q \in LED, holder'[q] = u
                 PROVE  /\ WillDarken(u, q)'
                        /\ pc'[u] # "begin"
                        /\ pc'[u] \in {"first", "last"} => q = led'[u]
      BY DEF HeldByThread
    <3>1. u # t /\ holder[q] = u
      BY <2>4
    <3> QED
      BY <2>1, <2>2, <3>1 DEF Pins, HeldByThread
  <2>8. HeldIsLit'
    <3> SUFFICES ASSUME NEW u \in Thread, NEW q \in LED, holder'[q] = u,
                        pc'[u] \in {"check", "light", "hold", "drop"}
                 PROVE  q \in lit'
      BY DEF HeldIsLit
    <3>1. u # t /\ holder[q] = u /\ pc[u] \in {"check", "light", "hold", "drop"}
      BY <2>1, <2>4
    <3>2. q \in lit
      BY <3>1 DEF Pins, HeldIsLit
    <3>3. CASE q = p
      BY <1>3, <2>3, <3>1, <3>2, <3>3 DEF SwitchOff, LetGo
    <3> QED
      BY <2>3, <3>2, <3>3
  <2>9. LitIsSeenTo'
    <3> SUFFICES ASSUME NEW q \in LED, q \in lit'
                 PROVE  \/ main' = "cut"
                        \/ HandlerWillDarken(q)'
                        \/ \E u \in Thread : WillDarken(u, q)'
      <4>1. lit' \subseteq LED
        BY <1>3 DEF SwitchOff, TypeOK
      <4> QED
        BY <4>1 DEF LitIsSeenTo
    <3>1. CASE q # p
      <4>1. \/ main = "cut"
            \/ HandlerWillDarken(q)
            \/ \E u \in Thread : WillDarken(u, q)
        BY <2>3, <3>1 DEF Pins, LitIsSeenTo
      <4> QED
        BY <1>1, <2>2, <3>1, <4>1 DEF HandlerWillDarken
    <3>2. CASE q = p
      <4>1. holder[p] \notin {t, Free}
        BY <2>3, <3>2
      <4>2. CASE holder[p] = Handler
        BY <1>1, <3>2, <4>2 DEF Pins, HeldByHandler, HandlerWillDarken
      <4>3. CASE holder[p] \in Thread
        BY <1>1, <2>2, <3>2, <4>1, <4>3 DEF Pins, HeldByThread
      <4> QED
        BY <1>1, <4>1, <4>2, <4>3 DEF TypeOK
    <3> QED
      BY <3>1, <3>2
  <2> QED
    BY <2>6, <2>7, <2>8, <2>9 DEF Pins
<1>4. CASE ~(Get(t, p) /\ UNCHANGED <<pc, led>>)
  <2> DEFINE after == IF pc[t] = "first" THEN "check"
                      ELSE IF quitting[t] THEN "none" ELSE "finish"
  <2>1. /\ EndOfLoop(t, after)
        /\ SwitchOff(t, p) \/ (holder[p] \notin {t, Free} /\ UNCHANGED <<holder, lit>>)
    BY <1>4 DEF Darken
  <2>2. after \in {"check", "none", "finish"} /\ (pc[t] = "first" => after = "check")
    OBVIOUS
  <2> HIDE DEF after
  <2> QED
    BY <1>3, <2>1, <2>2
<1> QED
  BY <1>2, <1>4

LEMMA NextPins == TypeOK /\ TypeOK' /\ Pins /\ [Next]_vars => Pins'
<1> SUFFICES ASSUME TypeOK, TypeOK', Pins, [Next]_vars PROVE Pins'
  OBVIOUS
<1> USE DEF TypeOK, Phases, Pins, HeldIsLit, LitIsSeenTo, HeldByHandler, HeldByThread,
            WillDarken, HandlerWillDarken
<1>1. ASSUME NEW t \in Thread, Start(t) PROVE Pins'
  BY <1>1 DEF Start
<1>2. CASE Stop \/ StopStore \/ ReadPower
  BY <1>2 DEF Stop, StopStore, ReadPower
<1>3. CASE HandlerOn
  BY <1>3 DEF HandlerOn, Get, LetGo, SwitchOn
<1>3a. CASE HandlerOff
  BY <1>3a DEF HandlerOff, Get, LetGo, SwitchOff
<1>4. ASSUME NEW t \in Thread, Begin(t) PROVE Pins'
  BY <1>4 DEF Begin
<1>5. ASSUME NEW t \in Thread, Darken(t) PROVE Pins'
  BY <1>5, DarkenPins
<1>6. ASSUME NEW t \in Thread, CheckAbort(t) PROVE Pins'
  BY <1>6 DEF CheckAbort
<1>7. ASSUME NEW t \in Thread, Light(t) PROVE Pins'
  BY <1>7 DEF Light
<1>8. ASSUME NEW t \in Thread, Hold(t) \/ Dropped(t) \/ Finish(t) PROVE Pins'
  <2>1. CASE Hold(t)
    BY <1>8, <2>1 DEF Hold
  <2>2. CASE Dropped(t)
    <3>1. pc'[t] = "last" /\ led'[t] = 1 /\ \A p \in LED : led'[t] <= p
      BY <2>2 DEF Dropped
    <3>2. \A u \in Thread \ {t} : pc'[u] = pc[u] /\ led'[u] = led[u]
      BY <2>2 DEF Dropped
    <3>3. UNCHANGED <<holder, lit, main>> /\ \A p \in LED : holder[p] # t
      BY <2>2 DEF Dropped
    <3>4. \A p \in LED, u \in Thread : WillDarken(u, p) => WillDarken(u, p)'
      BY <3>1, <3>2
    <3>5. LitIsSeenTo'
      BY <3>3, <3>4
    <3>6. HeldIsLit' /\ HeldByHandler' /\ HeldByThread'
      BY <3>2, <3>3, <3>4
    <3> QED
      BY <3>5, <3>6
  <2>3. CASE Finish(t)
    <3>1. pc[t] = "finish" /\ pc'[t] = "none" /\ UNCHANGED <<led, holder, lit, main>>
      BY <2>3 DEF Finish
    <3>2. \A u \in Thread \ {t} : pc'[u] = pc[u]
      BY <2>3 DEF Finish
    <3>3. \A p \in LED, u \in Thread : WillDarken(u, p) => WillDarken(u, p)'
      BY <3>1, <3>2
    <3>4. LitIsSeenTo'
      BY <3>1, <3>3
    <3>5. HeldIsLit' /\ HeldByHandler' /\ HeldByThread'
      BY <3>1, <3>2, <3>3
    <3> QED
      BY <3>4, <3>5
  <2> QED
    BY <1>8, <2>1, <2>2, <2>3
<1>9. ASSUME NEW t \in Thread, NEW p \in LED, DropPin(t, p) PROVE Pins'
  BY <1>9 DEF DropPin, LetGo, SwitchOn, SwitchOff
<1>10. CASE Replace
  <2>1. \A t \in Thread : pc'[t] = "none"
    BY <1>10 DEF Replace
  <2>2. \A p \in LED : holder'[p] = Free
    BY <1>10 DEF Replace
  <2>3. lit' \subseteq lit /\ main = "idle" /\ main' \in {"gone", "cut"}
    BY <1>10 DEF Replace
  <2>4. main' # "cut" => lit' = {}
    <3>1. main' # "cut" => \A t \in Thread : pc[t] \in {"none", "finish"}
      BY <1>10 DEF Replace, Alive
    <3> SUFFICES ASSUME main' # "cut" PROVE lit = {}
      BY <2>3
    <3>2. \A p \in LED : ~HandlerWillDarken(p) /\ \A t \in Thread : ~WillDarken(t, p)
      BY <2>3, <3>1
    <3> QED
      BY <2>3, <3>2
  <2>5. LitIsSeenTo'
    BY <2>4
  <2> QED
    BY <2>1, <2>2, <2>5
<1>11. CASE PowerCycle
  BY <1>11 DEF PowerCycle
<1>12. CASE UNCHANGED vars
  BY <1>12 DEF vars
<1> QED
  BY <1>11, <1>12, <1>1, <1>2, <1>3, <1>3a, <1>4, <1>5, <1>6, <1>7, <1>8, <1>9, <1>10
     DEF Next, Handle, Cascade

(* The inductive invariant holds in every reachable state.                 *)
THEOREM Invariance == Spec => []IndInv
<1>1. IndInv /\ [Next]_vars => IndInv'
  <2>1. IndInv <=> TypeOK /\ RunningIsBacked /\ Begins /\ Pins
    BY Parts DEF Pins
  <2>2. (IndInv <=> TypeOK /\ RunningIsBacked /\ Begins /\ Pins)'
    BY Parts, PTL DEF Pins
  <2> QED
    BY <2>1, <2>2, NextTypeOK, NextBacked, NextPins
<1> QED
  BY <1>1, InitIndInv, PTL DEF Spec

(* Type correctness: no loop variable of a cascade leaves the LEDs.        *)
THEOREM TypeCorrect == Spec => []TypeOK
<1>1. IndInv => TypeOK
  BY DEF IndInv
<1> QED
  BY <1>1, Invariance, PTL

(* Whenever the status byte says RUNNING, a cascade is alive that will     *)
(* replace it.                                                             *)
THEOREM RunningBacked == Spec => []RunningIsBacked
<1>1. IndInv => RunningIsBacked
  BY DEF IndInv
<1> QED
  BY <1>1, Invariance, PTL

(* An LED lit by a cascade stays lit until the cascade releases it.        *)
THEOREM HeldStaysLit == Spec => []HeldIsLit
<1>1. IndInv => HeldIsLit
  BY DEF IndInv
<1> QED
  BY <1>1, Invariance, PTL

(* Once all cascades and reads are over, all pins are free and all LEDs    *)
(* off, unless a reset has cut a cascade short.                            *)
THEOREM DarkAfterwards == Spec => []DarkWhenQuiet
<1>1. IndInv => DarkWhenQuiet
  <2> SUFFICES ASSUME IndInv, Quiet, NEW p \in LED
               PROVE  holder[p] = Free /\ (p \notin lit \/ main = "cut")
    BY DEF DarkWhenQuiet, IndInv, TypeOK
  <2>1. ~HandlerWillDarken(p) /\ \A t \in Thread : ~WillDarken(t, p)
    BY DEF Quiet, Alive, HandlerWillDarken, WillDarken
  <2> QED
    BY <2>1 DEF IndInv, TypeOK
<1> QED
  BY <1>1, Invariance, PTL
=============================================================================
