------------------------------ MODULE EcuProofs ------------------------------
(***************************************************************************)
(* Theorems about Ecu and the boot chain in it, for any number of          *)
(* connections and power losses.                                           *)
(***************************************************************************)
EXTENDS Ecu, TLAPS

-----------------------------------------------------------------------------
(* The boot chain.                                                         *)

USE BootAssumption DEF BootAssumption, Content, At, Become, RunImage

LEMMA InitIndInv == Init => IndInv
<1>1. 0 \in 0 .. PowerLosses
  OBVIOUS
<1> QED
  BY <1>1 DEF Init, IndInv, TypeOK, AppHasData

LEMMA NextIndInv == IndInv /\ [Next]_vars => IndInv'
<1> SUFFICES ASSUME IndInv, [Next]_vars PROVE IndInv'
  OBVIOUS
<1> USE DEF IndInv, TypeOK, AppHasData
<1>1. CASE FindMmc
  BY <1>1 DEF FindMmc
<1>2. CASE Mount("data", "app")
  <2>1. CASE "data" \notin mounted /\ mounted' = mounted \cup {"data"}
    <3>1. mounted' = {"data"}
      BY <2>1
    <3> QED
      BY <1>2, <2>1, <3>1 DEF Mount
  <2>2. CASE image' # "init" /\ UNCHANGED mounted
    BY <1>2, <2>2 DEF Mount
  <2> QED
    BY <1>2, <2>1, <2>2 DEF Mount
<1>3. CASE Mount("app", "read")
  BY <1>3 DEF Mount
<1>4. CASE Decide
  BY <1>4 DEF Decide
<1>5. CASE HardReset \/ SoftReset
  BY <1>5 DEF HardReset, SoftReset
<1>6. CASE Truncate \/ BootReset
  BY <1>6 DEF Truncate, BootReset
<1>7. CASE WriteFails \/ Write
  BY <1>7 DEF WriteFails, Write
<1>8. CASE ServerEnds \/ WriteBack
  BY <1>8 DEF ServerEnds, WriteBack
<1>9. CASE PowerCycle
  <2>1. losses' \in 0 .. PowerLosses
    BY <1>9 DEF PowerCycle
  <2> QED
    BY <1>9, <2>1 DEF PowerCycle
<1>10. CASE UNCHANGED vars
  BY <1>10 DEF vars
<1> QED
  BY <1>1, <1>2, <1>3, <1>4, <1>5, <1>6, <1>7, <1>8, <1>9, <1>10
     DEF Next, InitProcess, Resets, Requests, Writing

(* The inductive invariant of the boot chain.                              *)
THEOREM BootInvariance == Spec => []IndInv
  BY InitIndInv, NextIndInv, PTL DEF Spec

(* Type correctness: process 1 is always at a place the code has.          *)
THEOREM BootTypeCorrect == Spec => []TypeOK
<1>1. IndInv => TypeOK
  BY DEF IndInv
<1> QED
  BY <1>1, BootInvariance, PTL

(* The application never runs without its data partition.                  *)
THEOREM AppRunsWithData == Spec => []AppHasData
<1>1. IndInv => AppHasData
  BY DEF IndInv
<1> QED
  BY <1>1, BootInvariance, PTL

(* Once the card no longer says app_valid, the application is not started. *)
THEOREM AppIsNotStartedAgain == Spec => NoWayBack
<1>1. IndInv /\ [Next]_vars => [disk # "valid" /\ image = "init" => image' # "app"]_vars
  <2> SUFFICES ASSUME IndInv, Next, disk # "valid", image = "init", image' = "app"
               PROVE  FALSE
    BY DEF vars
  <2>1. cache # "valid"
    BY DEF IndInv
  <2>2. Decide
    BY DEF Next, InitProcess, Resets, Requests, Writing, FindMmc, Mount, Truncate, BootReset,
           WriteFails, Write, HardReset, SoftReset, ServerEnds, WriteBack, PowerCycle
  <2> QED
    BY <2>1, <2>2 DEF Decide
<1> QED
  BY <1>1, BootInvariance, PTL DEF Spec, NoWayBack

-----------------------------------------------------------------------------
(* The whole ECU.                                                          *)

(* The composition takes no step of the boot chain that BootChain forbids. *)
THEOREM EcuImplementsBoot == EcuSpec => Spec
<1>1. EcuInit => Init
  BY DEF EcuInit
<1>2. [EcuNext]_ecuVars => [Next]_vars
  <2> SUFFICES ASSUME [EcuNext]_ecuVars PROVE [Next]_vars
    OBVIOUS
  <2> USE DEF Next
  <2>1. CASE InitStep
    BY <2>1 DEF InitStep
  <2>2. CASE ResetStep \/ ServerEndsStep \/ PowerStep
    BY <2>2 DEF ResetStep, ServerEndsStep, PowerStep
  <2>3. CASE WriteBackStep \/ Enumerate
    BY <2>3 DEF WriteBackStep, Enumerate
  <2>4. CASE BringUp
    BY <2>4 DEF BringUp, WaitForInterface, LinkUp, AddAddress, ReadMac
  <2>5. CASE AppResetAnswered
    BY <2>5 DEF AppResetAnswered, Writing
  <2>6. ASSUME NEW c \in Conn, Connect(c) \/ Talk(c) \/ Execute(c) PROVE [Next]_vars
    BY <2>6 DEF Connect, Talk, Execute, Unmoved
  <2>7. ASSUME NEW c \in Conn, AppReset(c) \/ BootResetAnswered(c) PROVE [Next]_vars
    BY <2>7 DEF AppReset, BootResetAnswered, Requests
  <2>8. CASE UNCHANGED ecuVars
    BY <2>8 DEF ecuVars
  <2> QED
    BY <2>1, <2>2, <2>3, <2>4, <2>5, <2>6, <2>7, <2>8 DEF EcuNext, Serve
<1> QED
  BY <1>1, <1>2, PTL DEF EcuSpec, Spec

LEMMA EcuInitInd == EcuInit => EcuInd
<1> SUFFICES ASSUME EcuInit PROVE EcuInd
  OBVIOUS
<1>1. TypeOK
  BY InitIndInv DEF EcuInit, IndInv
<1> QED
  BY <1>1, EcuAssumption
     DEF EcuInit, EcuInd, EcuTypeOK, Init, At, ResetInherits, ResetIsDue, EcuAssumption,
         Service!Init, Service!TypeOK, Service!Stages

(* The types of the connections' stages are those of DiagnosticService.    *)
LEMMA StageTypes ==
  ASSUME EcuInd, EcuNext
  PROVE  Service!TypeOK'
<1> USE DEF EcuInd, EcuTypeOK, Service!TypeOK, Service!Stages, Service!Move
<1>1. CASE Service!Restart \/ UNCHANGED <<stage, resetting>>
  BY <1>1 DEF Service!Restart
<1>2. ASSUME NEW c \in Conn,
             \/ Service!Open(c) \/ Service!Activate(c) \/ Service!Ask(c)
             \/ Service!Execute(c) \/ Service!Answer(c) \/ Service!Close(c)
      PROVE  Service!TypeOK'
  BY <1>2 DEF Service!Open, Service!Activate, Service!Ask, Service!Execute,
              Service!Answer, Service!Close
<1>3. CASE PowerStep
  BY <1>3 DEF PowerStep
<1> QED
  BY <1>1, <1>2, <1>3
     DEF EcuNext, InitStep, ResetStep, ServerEndsStep, WriteBackStep, Enumerate, BringUp,
         WaitForInterface, LinkUp, AddAddress, ReadMac, AppResetAnswered, Connect, Talk,
         Serve, Execute, AppReset, BootResetAnswered, serviceVars, Unmoved

(* An image that was just executed is before its request loop.             *)
Begun == /\ bringup \in {"off", "wait", "mac"}
         /\ bringup = "off" <=> image \notin {"app", "boot"}
         /\ eid = "zero"
         /\ misread = FALSE

LEMMA NewProcessBegins ==
  ASSUME NewProcess PROVE Begun'
<1>1. CASE image' = "app"
  BY <1>1 DEF NewProcess, Begun
<1>2. CASE image' = "boot"
  BY <1>2 DEF NewProcess, Begun
<1>3. CASE image' \notin {"app", "boot"}
  BY <1>3 DEF NewProcess, Begun
<1> QED
  BY <1>1, <1>2, <1>3

LEMMA EcuNextInd == TypeOK' /\ AppHasData /\ EcuInd /\ [EcuNext]_ecuVars => EcuInd'
<1> SUFFICES ASSUME TypeOK', AppHasData, EcuInd, [EcuNext]_ecuVars PROVE EcuInd'
  OBVIOUS
<1> USE EcuAssumption DEF EcuAssumption, EcuInd, EcuTypeOK, TypeOK, Reachable,
                          ResetInherits, ResetIsDue, At, Become, serviceVars, netVars
<1>1. EcuNext => Service!TypeOK'
  BY StageTypes
<1>2. CASE InitStep
  <2>1. Service!TypeOK'
    BY <1>1, <1>2 DEF EcuNext
  <2>2. /\ Begun'
        /\ UNCHANGED <<serviceVars, netVars, asked, losses>>
        /\ image = "init"
    BY <1>2, NewProcessBegins
       DEF InitStep, InitProcess, FindMmc, Mount, Decide
  <2>3. \A c \in Conn : stage[c] = "closed"
    BY <2>2
  <2>4. ResetInherits'
    <3> SUFFICES ASSUME asked, losses = 0
                 PROVE  Reachable' /\ mounted' = {"data", "app"} /\ image' # "app"
                        /\ (image' = "init" => step' \in {"mmc", "data", "asleep"})
      BY <2>2
    <3>1. CASE FindMmc
      BY <2>2, <3>1 DEF FindMmc, RunImage
    <3>2. CASE Mount("data", "app")
      BY <2>2, <3>2 DEF Mount, RunImage
    <3>3. CASE Mount("app", "read") \/ Decide
      BY <3>3 DEF Mount, Decide
    <3> QED
      BY <1>2, <3>1, <3>2, <3>3 DEF InitStep, InitProcess
  <2>5. {step, step'} \cap {"reset", "hard", "soft", "truncated"} = {}
    <3>1. CASE FindMmc
      BY <3>1 DEF FindMmc, RunImage
    <3>2. CASE Mount("data", "app") \/ Mount("app", "read")
      BY <3>2 DEF Mount, RunImage
    <3>3. CASE Decide
      BY <3>3 DEF Decide, RunImage
    <3> QED
      BY <1>2, <3>1, <3>2, <3>3 DEF InitStep, InitProcess
  <2> HIDE DEF ResetInherits
  <2> QED
    BY <2>1, <2>2, <2>3, <2>4, <2>5 DEF Begun
<1>3. CASE ResetStep
  <2>1. Begun' /\ Service!Restart /\ UNCHANGED <<by, netVars>>
    BY <1>3, NewProcessBegins DEF ResetStep
  <2>2. /\ UNCHANGED <<mounted, asked, losses>>
        /\ step \in {"reset", "hard", "soft"}
        /\ \/ At("init", "mmc")'
           \/ At("boot", "idle")'
           \/ At("dead", "idle")'
    <3>1. CASE HardReset
      BY <3>1 DEF HardReset
    <3>2. CASE SoftReset
      BY <3>2 DEF SoftReset
    <3> QED
      BY <1>3, <3>1, <3>2 DEF ResetStep, Resets
  <2>3. Service!TypeOK'
    BY <1>1, <1>3 DEF EcuNext
  <2>4. ResetInherits' /\ ResetIsDue'
    BY <2>1, <2>2 DEF Service!Restart
  <2>5. by = None
    BY <2>2
  <2> HIDE DEF ResetInherits, ResetIsDue
  <2> QED
    BY <2>1, <2>2, <2>3, <2>4, <2>5 DEF Begun, Service!Restart
<1>4. CASE ServerEndsStep
  BY <1>1, <1>4 DEF EcuNext, ServerEndsStep, NewProcess, ServerEnds
<1>5. CASE PowerStep
  <2>1. Service!TypeOK'
    BY <1>1, <1>5 DEF EcuNext
  <2>2. losses' # 0
    BY <1>5, BootAssumption DEF PowerStep, PowerCycle, BootAssumption
  <2> QED
    BY <2>1, <2>2, <1>5 DEF PowerStep, NewProcess, PowerCycle
<1>6. CASE WriteBackStep \/ Enumerate
  <2>1. Service!TypeOK'
    BY <1>1, <1>6 DEF EcuNext
  <2>2. CASE WriteBackStep
    BY <2>1, <2>2 DEF WriteBackStep, WriteBack
  <2>3. CASE Enumerate
    BY <2>1, <2>3 DEF Enumerate, vars
  <2> QED
    BY <1>6, <2>2, <2>3
<1>7. CASE BringUp
  <2>1. Service!TypeOK'
    BY <1>1, <1>7 DEF EcuNext
  <2>2. CASE WaitForInterface
    BY <2>1, <2>2 DEF WaitForInterface, vars
  <2>5. CASE ReadMac
    <3> USE DEF ReadMac, vars
    <3>1. CASE iface /\ eid' = "mac" /\ UNCHANGED misread
      BY <2>1, <2>5, <3>1
    <3>2. CASE eid' = "zero" /\ misread' = TRUE
      BY <2>1, <2>5, <3>2
    <3>3. CASE ~iface /\ eid' = "zero" /\ UNCHANGED misread
      BY <2>1, <2>5, <3>3
    <3> QED
      BY <2>5, <3>1, <3>2, <3>3
  <2>3. CASE LinkUp
    <3>1. CASE iface /\ up' = TRUE
      <4>1. Reachable => Reachable'
        BY <2>3, <3>1 DEF LinkUp
      <4>2. ResetInherits'
        BY <2>3, <4>1 DEF LinkUp, vars
      <4>3. \A c \in Conn : stage'[c] = "closed"
        BY <2>3 DEF LinkUp
      <4> QED
        BY <2>1, <2>3, <3>1, <4>2, <4>3 DEF LinkUp, vars
    <3>2. CASE UNCHANGED up
      BY <2>1, <2>3, <3>2 DEF LinkUp, vars
    <3> QED
      BY <2>3, <3>1, <3>2 DEF LinkUp
  <2>4. CASE AddAddress
    BY <2>1, <2>4 DEF AddAddress, vars
  <2> QED
    BY <1>7, <2>2, <2>3, <2>4, <2>5 DEF BringUp
<1>8. CASE AppResetAnswered
  BY <1>1, <1>8 DEF EcuNext, AppResetAnswered, Service!Execute, Service!Move,
                    Service!TypeOK, Write, WriteFails, AppHasData
<1>9. ASSUME NEW c \in Conn, Connect(c) PROVE EcuInd'
  BY <1>1, <1>9 DEF EcuNext, Connect, Unmoved, vars, Service!Open, Service!Move, Service!TypeOK
<1>10. ASSUME NEW c \in Conn, Talk(c) PROVE EcuInd'
  BY <1>1, <1>10 DEF EcuNext, Talk, Unmoved, vars, Service!Activate, Service!Ask,
                     Service!Answer, Service!Close, Service!Move, Service!TypeOK
<1>11. ASSUME NEW c \in Conn, Execute(c) PROVE EcuInd'
  <2>1. Service!TypeOK'
    BY <1>1, <1>11 DEF EcuNext, Serve
  <2> QED
    BY <2>1, <1>11 DEF Execute, Idle, Unmoved, vars, Service!Execute, Service!Move,
                       Service!TypeOK
<1>12. ASSUME NEW c \in Conn, AppReset(c) PROVE EcuInd'
  <2>1. Service!TypeOK'
    BY <1>1, <1>12 DEF EcuNext, Serve
  <2> QED
    BY <2>1, <1>12 DEF AppReset, Idle, Truncate
<1>13. ASSUME NEW c \in Conn, BootResetAnswered(c) PROVE EcuInd'
  <2>1. Service!TypeOK'
    BY <1>1, <1>13 DEF EcuNext, Serve
  <2> QED
    BY <2>1, <1>13 DEF BootResetAnswered, Idle, BootReset, Service!Execute, Service!Move,
                       Service!TypeOK
<1>14. CASE UNCHANGED ecuVars
  BY <1>14 DEF ecuVars, vars, Service!TypeOK
<1> QED
  BY <1>2, <1>3, <1>4, <1>5, <1>6, <1>7, <1>8, <1>9, <1>10, <1>11, <1>12, <1>13, <1>14
     DEF EcuNext, Serve

(* The inductive invariant of the composition.                             *)
THEOREM EcuInvariance == EcuSpec => []EcuInd
<1>1. EcuSpec => []TypeOK /\ []AppHasData
  BY EcuImplementsBoot, BootTypeCorrect, AppRunsWithData, PTL
<1> QED
  BY <1>1, EcuInitInd, EcuNextInd, PTL DEF EcuSpec

(* Type correctness of the composition.                                    *)
THEOREM EcuTypeCorrect == EcuSpec => []EcuTypeOK
<1>1. EcuInd => EcuTypeOK
  BY DEF EcuInd
<1> QED
  BY <1>1, EcuInvariance, PTL

(* An entity that can be reached announces the MAC address as its EID,     *)
(* unless reading the address failed.                                      *)
THEOREM EidIsMac == EcuSpec => []AnnouncesMac
<1>1. EcuInd => AnnouncesMac
  BY DEF EcuInd, AnnouncesMac, Reachable
<1> QED
  BY <1>1, EcuInvariance, PTL

(* After an accepted HardReset nothing but the bootloader serves testers,  *)
(* and it is on the network, as long as the power stays on.                *)
THEOREM ContactKept == EcuSpec => []BootAfterReset
<1>1. EcuInd => BootAfterReset
  BY DEF EcuInd, ResetInherits, BootAfterReset
<1> QED
  BY <1>1, EcuInvariance, PTL

(* A reset is due exactly when process 1 is about to carry it out.         *)
THEOREM DueResetsAreAsked == EcuSpec => []ResetIsDue
<1>1. EcuInd => ResetIsDue
  BY DEF EcuInd
<1> QED
  BY <1>1, EcuInvariance, PTL

(* An acknowledged request is lost to a requested reset or a power loss    *)
(* only.                                                                   *)
THEOREM OnlyResetsLose == EcuSpec => NothingElseLost
<1> DEFINE Kept == \A c \in Conn : stage[c] = "asked" /\ stage'[c] # "asked" =>
                     stage'[c] = "answered" \/ resetting \/ losses' > losses
<1>1. EcuInd /\ [EcuNext]_ecuVars => [Kept]_ecuVars
  <2> SUFFICES ASSUME EcuInd, EcuNext, NEW c \in Conn,
                      stage[c] = "asked", stage'[c] # "asked",
                      ~resetting, ~(losses' > losses)
               PROVE  stage'[c] = "answered"
    OBVIOUS
  <2> USE DEF EcuInd, EcuTypeOK, Service!TypeOK, Service!Move
  <2>1. ~ResetStep
    BY DEF ResetStep, Service!Restart
  <2>2. ~PowerStep
    BY BootAssumption DEF PowerStep, PowerCycle, TypeOK, BootAssumption
  <2>3. stage' # stage
    OBVIOUS
  <2>4. CASE AppResetAnswered
    BY <2>4 DEF AppResetAnswered, Service!Execute
  <2>5. ASSUME NEW d \in Conn, Connect(d) \/ Talk(d) PROVE stage'[c] = "answered"
    BY <2>5 DEF Connect, Talk, Service!Open, Service!Activate, Service!Ask,
                Service!Answer, Service!Close
  <2>6. ASSUME NEW d \in Conn, Serve(d) PROVE stage'[c] = "answered"
    BY <2>3, <2>6 DEF Serve, Execute, AppReset, BootResetAnswered, Service!Execute
  <2> QED
    BY <2>1, <2>2, <2>3, <2>4, <2>5, <2>6
       DEF EcuNext, InitStep, ServerEndsStep, WriteBackStep, Enumerate, BringUp,
           WaitForInterface, LinkUp, AddAddress, ReadMac, serviceVars
<1> QED
  BY <1>1, EcuInvariance, PTL DEF EcuSpec, NothingElseLost

(* But for losses of power, the ECU implements DiagnosticService: requests *)
(* that are executed by the application, refused resets, resets of either  *)
(* image and an image that ends are all steps of it, or none.              *)
THEOREM EcuImplementsService == EcuSpec => ServiceKept
<1> DEFINE Step == Service!Next \/ losses' > losses
<1>1. EcuInit => Service!Init
  BY DEF EcuInit
<1>2. EcuInd /\ [EcuNext]_ecuVars => [Step]_<<stage, resetting>>
  <2> SUFFICES ASSUME EcuInd, [EcuNext]_ecuVars PROVE Step \/ UNCHANGED <<stage, resetting>>
    OBVIOUS
  <2>1. CASE PowerStep
    BY <2>1, BootAssumption DEF PowerStep, PowerCycle, EcuInd, EcuTypeOK, TypeOK, BootAssumption
  <2>2. CASE ResetStep
    BY <2>2 DEF ResetStep, Service!Next
  <2>3. CASE AppResetAnswered
    <3>1. by \in Conn
      BY <2>3, EcuAssumption DEF AppResetAnswered, EcuInd, EcuTypeOK
    <3> QED
      BY <2>3, <3>1 DEF AppResetAnswered, Service!Next
  <2>4. ASSUME NEW c \in Conn, Connect(c) \/ Talk(c) PROVE Step
    BY <2>4 DEF Connect, Talk, Service!Next
  <2>5. ASSUME NEW c \in Conn, Serve(c) PROVE Step \/ UNCHANGED <<stage, resetting>>
    BY <2>5 DEF Serve, Execute, AppReset, BootResetAnswered, Service!Next
  <2>6. CASE InitStep \/ ServerEndsStep \/ WriteBackStep \/ Enumerate \/ BringUp
             \/ UNCHANGED ecuVars
    BY <2>6 DEF InitStep, ServerEndsStep, WriteBackStep, Enumerate, BringUp, WaitForInterface,
                LinkUp, AddAddress, ReadMac, serviceVars, ecuVars
  <2> QED
    BY <2>1, <2>2, <2>3, <2>4, <2>5, <2>6 DEF EcuNext
<1> QED
  BY <1>1, <1>2, EcuInvariance, PTL DEF EcuSpec, ServiceKept

(* What was shown of the boot chain holds of the whole ECU.                *)
THEOREM EcuAppHasData == EcuSpec => []AppHasData
  BY EcuImplementsBoot, AppRunsWithData, PTL

(* So does the promise that the application is not started again.          *)
THEOREM EcuNoWayBack == EcuSpec => NoWayBack
  BY EcuImplementsBoot, AppIsNotStartedAgain, PTL
=============================================================================
