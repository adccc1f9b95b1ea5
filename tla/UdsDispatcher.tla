---------------------------- MODULE UdsDispatcher ----------------------------
(***************************************************************************)
(* The legacy UDS dispatcher (flxc1000-uds): diagnostic session with its   *)
(* S3 timer, and security access with seed, key and lockout.  The binary   *)
(* that embeds it hands it one request after the other and calls tick()    *)
(* from time to time.                                                      *)
(*                                                                         *)
(* Instants are abstracted to the time since the last activity and the     *)
(* time left of a lockout.  Seed and key are abstracted to whether the key *)
(* fits the seed.  A level is a bit of a u8: `1 << level` shifts by        *)
(* level % 8 in a release build.                                           *)
(***************************************************************************)
EXTENDS Naturals

CONSTANTS Allowed,        \* sessions the embedding binary allows
          AccessSessions, \* sessions in which it allows service 0x27
          Levels,         \* levels that testers ask seeds for
          MaxAttempts,    \* MAX_ATTEMPTS (3)
          S3,             \* s3_timeout (5 s)
          Lockout,        \* LOCKOUT_DURATION_MS (10 s)
          None            \* no seed pending, no lockout

Sessions == {"default", "programming", "extended"}

ASSUME DispatcherAssumption == /\ Allowed \subseteq Sessions
                               /\ AccessSessions \subseteq Sessions
                               /\ Levels \subseteq {l \in 1 .. 255 : l % 2 = 1}
                               /\ MaxAttempts \in Nat \ {0}
                               /\ S3 \in Nat
                               /\ Lockout \in Nat \ {0}
                               /\ None \notin Nat

VARIABLES
  session,  \* SessionState.current
  idle,     \* time since last_activity, up to S3 + 1
  unlocked, \* bits of unlocked_levels
  pending,  \* level of pending_seed, or None
  failed,   \* failed_attempts
  lockout   \* time left until lockout_until, or None

sessionVars == <<session, idle>>
securityVars == <<unlocked, pending, failed, lockout>>
vars == <<sessionVars, securityVars>>

TypeOK == /\ session \in Sessions
          /\ idle \in 0 .. S3 + 1
          /\ unlocked \subseteq 0 .. 7
          /\ pending \in Levels \cup {None}
          /\ failed \in 0 .. MaxAttempts
          /\ lockout \in 0 .. Lockout \cup {None}

Init == /\ session = "default"
        /\ idle = 0
        /\ unlocked = {}
        /\ pending = None
        /\ failed = 0
        /\ lockout = None

Bit(level) == level % 8

Locked == lockout # None /\ lockout > 0

-----------------------------------------------------------------------------
(* process().  It begins with touch(), so that the tick() that follows     *)
(* never finds the timer expired.                                          *)
Touch == idle' = 0

(* A request that only touches the timer: tester present, a request that   *)
(* is refused, a service of the embedding binary.  Its handler could reach *)
(* session and security; it is taken to leave them alone.                  *)
OtherRequest == Touch /\ UNCHANGED <<session, securityVars>>

(* DiagnosticSessionControl.                                               *)
SwitchSession(s) ==
  /\ Touch
  /\ session' = s
  /\ IF session # s /\ s = "default"
       THEN unlocked' = {} /\ pending' = None
       ELSE UNCHANGED <<unlocked, pending>>
  /\ UNCHANGED <<failed, lockout>>

(* Fault: the attempts are not counted afresh after a lockout.             *)
RequestSeedOldCount(level) ==
  /\ session \in AccessSessions
  /\ Touch
  /\ ~Locked
  /\ lockout' = None
  /\ pending' = IF Bit(level) \in unlocked THEN None ELSE level
  /\ UNCHANGED <<session, unlocked, failed>>

(* Fault: asking for a seed during a lockout prolongs it.                  *)
RequestSeedProlongs(level) ==
  /\ session \in AccessSessions
  /\ Touch
  /\ lockout' = IF Locked THEN Lockout ELSE None
  /\ failed' = IF lockout # None /\ ~Locked THEN 0 ELSE failed
  /\ pending' = IF Locked \/ Bit(level) \in unlocked THEN None ELSE level
  /\ UNCHANGED <<session, unlocked>>

(* SecurityAccess, odd subfunction.  Nothing but the timer changes during  *)
(* a lockout, see OtherRequest.  For an unlocked level the seed is zero.   *)
RequestSeed(level) ==
  /\ session \in AccessSessions
  /\ Touch
  /\ ~Locked
  /\ lockout' = None
  /\ failed' = IF lockout # None THEN 0 ELSE failed
  /\ pending' = IF Bit(level) \in unlocked THEN None ELSE level
  /\ UNCHANGED <<session, unlocked>>

RightKey == /\ unlocked' = unlocked \cup {Bit(pending)}
            /\ failed' = 0
            /\ UNCHANGED lockout

(* Fault: the lockout comes one attempt late.                              *)
WrongKeyLate == /\ failed' = failed + 1
                /\ lockout' = IF failed + 1 > MaxAttempts THEN Lockout ELSE lockout
                /\ UNCHANGED unlocked

WrongKey == /\ failed' = failed + 1
            /\ lockout' = IF failed + 1 >= MaxAttempts THEN Lockout ELSE lockout
            /\ UNCHANGED unlocked

(* Fault: the seed survives the attempt (clone instead of take).           *)
SubmitKeyAgain(level) ==
  /\ session \in AccessSessions
  /\ Touch
  /\ pending # None
  /\ UNCHANGED pending
  /\ \/ pending = level /\ (RightKey \/ WrongKey)
     \/ UNCHANGED <<unlocked, failed, lockout>>
  /\ UNCHANGED session

(* SecurityAccess, even subfunction, for the seed of a level.  The seed is *)
(* used up even if it was for another level or the key has a wrong length. *)
SubmitKey(level) ==
  /\ session \in AccessSessions
  /\ Touch
  /\ pending # None
  /\ pending' = None
  /\ \/ pending = level /\ (RightKey \/ WrongKey)
     \/ UNCHANGED <<unlocked, failed, lockout>>
  /\ UNCHANGED session

-----------------------------------------------------------------------------
(* tick(): the security state stays.                                       *)
Tick == /\ session # "default"
        /\ idle > S3
        /\ session' = "default"
        /\ UNCHANGED <<idle, securityVars>>

TimePasses == /\ idle' = IF idle <= S3 THEN idle + 1 ELSE idle
              /\ lockout' = IF Locked THEN lockout - 1 ELSE lockout
              /\ UNCHANGED <<session, unlocked, pending, failed>>

-----------------------------------------------------------------------------
Request == \/ OtherRequest
           \/ \E s \in Allowed : SwitchSession(s)
           \/ \E level \in Levels : RequestSeed(level) \/ SubmitKey(level)

Next == Request \/ Tick \/ TimePasses

Spec == Init /\ [][Next]_vars

(* Time passes.  No request need arrive, and tick() need not be called.    *)
FairSpec == Spec /\ WF_vars(TimePasses)

-----------------------------------------------------------------------------
(* Properties.                                                             *)

(* While a lockout lasts no key is judged, although submit_key itself does *)
(* not look at lockout_until: there is no seed to submit a key for.  And   *)
(* nothing a tester sends prolongs it, or ends it early.                   *)
LockoutHolds == [][Locked => /\ unlocked' \subseteq unlocked
                             /\ failed' = failed
                             /\ lockout' \in {lockout, lockout - 1}]_vars

(* The counter stands at its maximum exactly while a lockout is set, so    *)
(* that a tester has MAX_ATTEMPTS attempts again after every lockout.      *)
AttemptsMatchLockout == failed = MaxAttempts <=> lockout # None

(* A seed is pending only for a level that is still locked; an unlocked    *)
(* level has the zero seed, for which no key is judged.                    *)
PendingIsLocked == pending # None => Bit(pending) \notin unlocked

(* The inductive invariant behind these: a seed is given only after a      *)
(* lockout was cleared, and a lockout is set only when the seed is used.   *)
IndInv == /\ TypeOK
          /\ AttemptsMatchLockout
          /\ PendingIsLocked
          /\ pending # None => lockout = None

(* The dispatcher keeps the promise of SecurityAccess.                     *)
Access == INSTANCE SecurityAccess
            WITH Bits <- 0 .. 7,
                 Attempts <- MaxAttempts,
                 open <- unlocked,
                 seed <- IF pending = None THEN None ELSE Bit(pending),
                 left <- MaxAttempts - failed,
                 barred <- Locked
AccessSpec == Access!Spec

(* A lockout ends, whatever the tester sends meanwhile.                    *)
LockoutEnds == Locked ~> ~Locked

(* The comment at dispatcher.rs:132, "Reset security when switching        *)
(* sessions (except staying in same session)".                             *)
SwitchRelocks ==
  [][\A s \in Allowed : SwitchSession(s) /\ session # s => unlocked' = {}]_vars
=============================================================================
