--------------------------- MODULE SecurityAccess ---------------------------
(***************************************************************************)
(* What security access promises a tester, without sessions, timers and    *)
(* clocks: a key is judged only for a seed that was given and not used     *)
(* since, and after a number of wrong keys in a row no seed is given and   *)
(* no key is judged until the lockout is over.  UdsDispatcher is shown to  *)
(* implement this module.                                                  *)
(***************************************************************************)
EXTENDS Naturals

CONSTANTS Bits,     \* what can be unlocked
          Attempts, \* wrong keys in a row that lead to a lockout
          None      \* no seed given

VARIABLES open,   \* what is unlocked
          seed,   \* the bit for which a seed was given and not used, or None
          left,   \* attempts left
          barred  \* a lockout lasts

vars == <<open, seed, left, barred>>

Init == /\ open = {}
        /\ seed = None
        /\ left = Attempts
        /\ barred = FALSE

(* A lockout that is over gives all attempts back.                         *)
Ask(b) == /\ ~barred
          /\ seed' = IF b \in open THEN None ELSE b
          /\ left' = IF left = 0 THEN Attempts ELSE left
          /\ UNCHANGED <<open, barred>>

(* Each seed is good for one key.                                          *)
Judge == /\ seed # None /\ left > 0 /\ ~barred
         /\ seed' = None

Right == /\ Judge
         /\ open' = open \cup {seed}
         /\ left' = Attempts
         /\ UNCHANGED barred

Wrong == /\ Judge
         /\ left' = left - 1
         /\ barred' = (left = 1)
         /\ UNCHANGED open

(* A key that is not judged uses the seed up all the same.                 *)
Waste == seed # None /\ seed' = None /\ UNCHANGED <<open, left, barred>>

(* Attempts and lockout outlive the session in which they were counted.    *)
Relock == open' = {} /\ seed' = None /\ UNCHANGED <<left, barred>>

(* The lockout is over; the attempts come back with the next seed.         *)
Release == /\ barred /\ left = 0
           /\ barred' = FALSE
           /\ UNCHANGED <<open, seed, left>>

Next == Right \/ Wrong \/ Waste \/ Relock \/ Release \/ \E b \in Bits : Ask(b)

Spec == Init /\ [][Next]_vars
=============================================================================
