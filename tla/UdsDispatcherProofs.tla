------------------------- MODULE UdsDispatcherProofs -------------------------
(***************************************************************************)
(* Theorems about UdsDispatcher, for any sessions, levels and durations.   *)
(***************************************************************************)
EXTENDS UdsDispatcher, TLAPS

USE DispatcherAssumption DEF DispatcherAssumption, Sessions

LEMMA InitIndInv == Init => IndInv
BY DEF Init, IndInv, TypeOK, AttemptsMatchLockout, PendingIsLocked, Locked

LEMMA LevelsAreBits == \A level \in Levels : level \in Nat /\ Bit(level) \in 0 .. 7
BY DEF Bit

(* A key for the pending level: unlocked, counted, or locked out.          *)
LEMMA SubmitKeyIndInv ==
  ASSUME IndInv, NEW level \in Levels, SubmitKey(level)
  PROVE  IndInv'
<1>1. pending # None /\ pending' = None /\ UNCHANGED session /\ idle' = 0
  BY DEF SubmitKey, Touch
<1>2. lockout = None /\ failed \in 0 .. MaxAttempts - 1
  BY <1>1 DEF IndInv, TypeOK, AttemptsMatchLockout
<1>3. CASE pending = level /\ RightKey
  <2>1. UNCHANGED lockout /\ failed' = 0 /\ unlocked' = unlocked \cup {Bit(level)}
    BY <1>3 DEF RightKey
  <2>2. unlocked' \subseteq 0 .. 7
    BY <2>1, LevelsAreBits DEF IndInv, TypeOK
  <2> QED
    BY <1>1, <1>2, <2>1, <2>2 DEF IndInv, TypeOK, AttemptsMatchLockout, PendingIsLocked
<1>4. CASE pending = level /\ WrongKey
  <2>1. /\ failed' = failed + 1
        /\ lockout' = IF failed + 1 >= MaxAttempts THEN Lockout ELSE lockout
        /\ UNCHANGED unlocked
    BY <1>4 DEF WrongKey
  <2>2. failed' \in 0 .. MaxAttempts /\ (failed' = MaxAttempts <=> failed + 1 >= MaxAttempts)
    BY <1>2, <2>1
  <2> QED
    BY <1>1, <1>2, <2>1, <2>2 DEF IndInv, TypeOK, AttemptsMatchLockout, PendingIsLocked
<1>5. CASE UNCHANGED <<unlocked, failed, lockout>>
  BY <1>1, <1>5 DEF IndInv, TypeOK, AttemptsMatchLockout, PendingIsLocked
<1> QED
  BY <1>3, <1>4, <1>5 DEF SubmitKey

LEMMA NextIndInv == IndInv /\ [Next]_vars => IndInv'
<1> SUFFICES ASSUME IndInv, [Next]_vars PROVE IndInv'
  OBVIOUS
<1> USE DEF IndInv, TypeOK, AttemptsMatchLockout, PendingIsLocked, Locked
<1>1. CASE OtherRequest
  BY <1>1 DEF OtherRequest, Touch, securityVars
<1>2. ASSUME NEW s \in Allowed, SwitchSession(s) PROVE IndInv'
  <2>1. session' \in Sessions /\ idle' = 0 /\ UNCHANGED <<failed, lockout>>
    BY <1>2 DEF SwitchSession, Touch
  <2>2. \/ unlocked' = {} /\ pending' = None
        \/ UNCHANGED <<unlocked, pending>>
    BY <1>2 DEF SwitchSession
  <2>3. CASE unlocked' = {} /\ pending' = None
    BY <2>1, <2>3
  <2>4. CASE UNCHANGED <<unlocked, pending>>
    BY <2>1, <2>4
  <2> QED
    BY <2>2, <2>3, <2>4
<1>3. ASSUME NEW level \in Levels, RequestSeed(level) PROVE IndInv'
  BY <1>3 DEF RequestSeed, Touch
<1>4. ASSUME NEW level \in Levels, SubmitKey(level) PROVE IndInv'
  BY <1>4, SubmitKeyIndInv
<1>5. CASE Tick
  BY <1>5 DEF Tick, securityVars
<1>6. CASE TimePasses
  BY <1>6 DEF TimePasses
<1>7. CASE UNCHANGED vars
  BY <1>7 DEF vars, sessionVars, securityVars
<1> QED
  BY <1>1, <1>2, <1>3, <1>4, <1>5, <1>6, <1>7 DEF Next, Request

(* The strengthened invariant of security access (security.rs:49-127).     *)
THEOREM Invariance == Spec => []IndInv
BY InitIndInv, NextIndInv, PTL DEF Spec

(* Type correctness; the attempts counter never passes MAX_ATTEMPTS.       *)
THEOREM TypeCorrect == Spec => []TypeOK
<1>1. IndInv => TypeOK
  BY DEF IndInv
<1> QED
  BY <1>1, Invariance, PTL

(* The counter is at its maximum exactly while a lockout is set.           *)
THEOREM LockedOutAtMaximum == Spec => []AttemptsMatchLockout
<1>1. IndInv => AttemptsMatchLockout
  BY DEF IndInv
<1> QED
  BY <1>1, Invariance, PTL

(* A seed is pending only for a locked level.                              *)
THEOREM SeedsAreForLockedLevels == Spec => []PendingIsLocked
<1>1. IndInv => PendingIsLocked
  BY DEF IndInv
<1> QED
  BY <1>1, Invariance, PTL

(* While a lockout lasts nothing is unlocked, no attempt is counted, and   *)
(* no request of a tester prolongs or ends it.                             *)
THEOREM NoKeyDuringLockout == Spec => LockoutHolds
<1> DEFINE Kept == /\ unlocked' \subseteq unlocked
                   /\ failed' = failed
                   /\ lockout' \in {lockout, lockout - 1}
<1>1. IndInv /\ [Next]_vars => [Locked => Kept]_vars
  <2> SUFFICES ASSUME IndInv, Next, Locked PROVE Kept
    BY DEF vars, sessionVars, securityVars
  <2>1. pending = None
    BY DEF IndInv, Locked
  <2>2. CASE OtherRequest \/ Tick \/ TimePasses
    BY <2>2 DEF OtherRequest, Tick, TimePasses, securityVars
  <2>3. ASSUME NEW s \in Allowed, SwitchSession(s) PROVE Kept
    BY <2>3 DEF SwitchSession
  <2>4. \A level \in Levels : ~RequestSeed(level) /\ ~SubmitKey(level)
    BY <2>1 DEF RequestSeed, SubmitKey
  <2> QED
    BY <2>2, <2>3, <2>4 DEF Next, Request
<1> QED
  BY <1>1, Invariance, PTL DEF Spec, LockoutHolds

-----------------------------------------------------------------------------
(* The dispatcher implements SecurityAccess.                               *)

(* A key is judged at most once for each seed, and a lockout is in the way *)
(* of none: the seed is gone before the lockout is set.                    *)
LEMMA SubmitKeyIsAccess ==
  ASSUME IndInv, NEW level \in Levels, SubmitKey(level)
  PROVE  Access!Right \/ Access!Wrong \/ Access!Waste
<1>1. /\ pending # None /\ pending' = None /\ pending \in Levels
      /\ lockout = None /\ ~Locked
  BY DEF SubmitKey, IndInv, TypeOK, Locked
<1>2. Bit(pending) # None
  BY <1>1, LevelsAreBits
<1>3. failed \in 0 .. MaxAttempts - 1
  BY <1>1 DEF IndInv, TypeOK, AttemptsMatchLockout
<1>4. Access!Judge
  BY <1>1, <1>2, <1>3 DEF Access!Judge
<1>5. CASE RightKey
  <2>1. unlocked' = unlocked \cup {Bit(pending)} /\ MaxAttempts - failed' = MaxAttempts
    BY <1>5 DEF RightKey
  <2>2. UNCHANGED Locked
    BY <1>5 DEF RightKey, Locked
  <2> QED
    BY <1>1, <1>4, <2>1, <2>2 DEF Access!Right
<1>6. CASE WrongKey
  <2>1. UNCHANGED unlocked /\ MaxAttempts - failed' = (MaxAttempts - failed) - 1
    BY <1>3, <1>6 DEF WrongKey
  <2>2. Locked' <=> MaxAttempts - failed = 1
    <3>1. CASE failed + 1 >= MaxAttempts
      <4>1. lockout' = Lockout /\ MaxAttempts - failed = 1
        BY <1>3, <1>6, <3>1 DEF WrongKey
      <4> QED
        BY <4>1 DEF Locked
    <3>2. CASE ~(failed + 1 >= MaxAttempts)
      <4>1. lockout' = None /\ MaxAttempts - failed # 1
        BY <1>1, <1>3, <1>6, <3>2 DEF WrongKey
      <4> QED
        BY <4>1 DEF Locked
    <3> QED
      BY <3>1, <3>2
  <2>3. Locked' = (MaxAttempts - failed = 1)
    BY <2>2 DEF Locked
  <2> QED
    BY <1>4, <2>1, <2>3 DEF Access!Wrong
<1>7. CASE UNCHANGED <<unlocked, failed, lockout>>
  BY <1>1, <1>2, <1>7 DEF Access!Waste, Locked
<1> QED
  BY <1>5, <1>6, <1>7 DEF SubmitKey

LEMMA RequestSeedIsAccess ==
  ASSUME IndInv, NEW level \in Levels, RequestSeed(level)
  PROVE  Access!Ask(Bit(level))
<1>1. Bit(level) # None /\ level # None
  BY LevelsAreBits
<1>2. ~Locked /\ lockout' = None /\ UNCHANGED unlocked
  BY DEF RequestSeed
<1>3. ~Locked' /\ (Locked' = Locked)
  BY <1>2 DEF Locked
<1>4. MaxAttempts - failed' =
        IF MaxAttempts - failed = 0 THEN MaxAttempts ELSE MaxAttempts - failed
  BY DEF RequestSeed, IndInv, TypeOK, AttemptsMatchLockout
<1>5. (IF pending' = None THEN None ELSE Bit(pending')) =
        IF Bit(level) \in unlocked THEN None ELSE Bit(level)
  BY <1>1 DEF RequestSeed
<1> QED
  BY <1>2, <1>3, <1>4, <1>5 DEF Access!Ask

(* Whatever testers, sessions and clock do, the dispatcher takes no step   *)
(* that SecurityAccess forbids.                                            *)
THEOREM DispatcherImplementsAccess == Spec => AccessSpec
<1>1. Init => Access!Init
  BY DEF Init, Access!Init, Locked
<1>2. IndInv /\ [Next]_vars => [Access!Next]_(Access!vars)
  <2> SUFFICES ASSUME IndInv, [Next]_vars PROVE Access!Next \/ UNCHANGED Access!vars
    OBVIOUS
  <2>1. CASE OtherRequest \/ Tick \/ UNCHANGED vars
    BY <2>1 DEF OtherRequest, Tick, vars, sessionVars, securityVars, Access!vars, Locked
  <2>2. ASSUME NEW s \in Allowed, SwitchSession(s)
        PROVE  Access!Relock \/ UNCHANGED Access!vars
    BY <2>2 DEF SwitchSession, Access!Relock, Access!vars, Locked
  <2>3. ASSUME NEW level \in Levels, RequestSeed(level) PROVE Access!Next
    <3>1. Bit(level) \in 0 .. 7 /\ Access!Ask(Bit(level))
      BY <2>3, LevelsAreBits, RequestSeedIsAccess
    <3> QED
      BY <3>1 DEF Access!Next
  <2>4. ASSUME NEW level \in Levels, SubmitKey(level) PROVE Access!Next
    BY <2>4, SubmitKeyIsAccess DEF Access!Next
  <2>5. CASE TimePasses
    <3>1. UNCHANGED <<unlocked, pending, failed>>
      BY <2>5 DEF TimePasses
    <3>2. CASE Locked /\ lockout = 1
      <4>1. Locked = TRUE /\ Locked' = FALSE
        BY <2>5, <3>2 DEF TimePasses, Locked
      <4>2. MaxAttempts - failed = 0
        BY <3>2 DEF IndInv, TypeOK, AttemptsMatchLockout, Locked
      <4> QED
        BY <3>1, <4>1, <4>2 DEF Access!Next, Access!Release
    <3>3. CASE ~(Locked /\ lockout = 1)
      <4>1. Locked' = Locked
        BY <2>5, <3>3 DEF TimePasses, Locked, IndInv, TypeOK
      <4> QED
        BY <3>1, <4>1 DEF Access!vars
    <3> QED
      BY <3>2, <3>3
  <2> QED
    BY <2>1, <2>2, <2>3, <2>4, <2>5 DEF Next, Request, Access!Next
<1> QED
  BY <1>1, <1>2, Invariance, PTL DEF Spec, AccessSpec, Access!Spec
=============================================================================
