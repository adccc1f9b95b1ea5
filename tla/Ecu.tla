--------------------------------- MODULE Ecu ---------------------------------
(***************************************************************************)
(* The whole ECU: the boot chain, the network bring-up of the application, *)
(* and the diagnostic service either image offers.  The service is taken   *)
(* in its abstract form, which DoipGateway implements.                     *)
(*                                                                         *)
(* The USB-Ethernet interface appears some time after power-on.  What is   *)
(* configured on it belongs to the kernel: it survives execve and is gone  *)
(* after a power loss.  Only the application configures it; both images    *)
(* read the interface's MAC address once, for the EID they announce.       *)
(***************************************************************************)
EXTENDS BootChain

CONSTANTS Conn, \* TCP connections
          None  \* no connection

ASSUME EcuAssumption == None \notin Conn

VARIABLES
  stage,     \* DiagnosticService: stage of each connection
  resetting, \* DiagnosticService: an executed request asked for a reset
  by,        \* the connection whose ECUReset the application is executing
  iface,     \* the interface has appeared in /sys/class/net
  up,        \* it was set up
  address,   \* it has 169.254.16.1/16
  bringup,   \* where main is before its request loop: "off" (no image runs),
             \* "wait", "link", "addr", "mac"; "done" in the loop
  eid,       \* the EID the entity announces: "mac" or "zero"
  misread    \* history: the interface was there, and its address was not read

netVars == <<iface, up, address>>
serviceVars == <<stage, resetting, by>>
ecuVars == <<vars, serviceVars, netVars, bringup, eid, misread>>

Service == INSTANCE DiagnosticService WITH stage <- stage, resetting <- resetting

EcuTypeOK == /\ TypeOK
             /\ Service!TypeOK
             /\ by \in Conn \cup {None}
             /\ iface \in BOOLEAN /\ up \in BOOLEAN /\ address \in BOOLEAN
             /\ bringup \in {"off", "wait", "link", "addr", "mac", "done"}
             /\ eid \in {"mac", "zero"}
             /\ misread \in BOOLEAN

EcuInit == /\ Init
           /\ Service!Init
           /\ by = None
           /\ iface = FALSE /\ up = FALSE /\ address = FALSE
           /\ bringup = "off"
           /\ eid = "zero"
           /\ misread = FALSE

Reachable == iface /\ up /\ address

-----------------------------------------------------------------------------
(* Processes.                                                              *)

(* Where the image that was just executed begins.                          *)
NewProcess == /\ bringup' = CASE image' = "app" -> "wait"
                              [] image' = "boot" -> "mac"
                              [] OTHER -> "off"
              /\ eid' = "zero"
              /\ misread' = FALSE

InitStep == InitProcess /\ NewProcess /\ UNCHANGED <<serviceVars, netVars>>

(* Fault: the interface is taken down on the way.                          *)
ResetLosesNetwork == /\ Resets
                     /\ Service!Restart
                     /\ NewProcess
                     /\ up' = FALSE
                     /\ UNCHANGED <<by, iface, address>>

(* 50 ms after the answer, the reset.                                      *)
ResetStep == /\ Resets
             /\ Service!Restart
             /\ NewProcess
             /\ UNCHANGED <<by, netVars>>

(* Fault: main returns when the acceptor fails, with connections open.     *)
ServerEndsEarly == /\ bringup = "done"
                   /\ ~resetting
                   /\ ServerEnds
                   /\ NewProcess
                   /\ stage' = [c \in Conn |-> "closed"]
                   /\ UNCHANGED <<resetting, by, netVars>>

(* recv() returned None: the acceptor failed and the last connection is    *)
(* closed.                                                                 *)
ServerEndsStep == /\ bringup = "done"
                  /\ ~resetting
                  /\ \A c \in Conn : stage[c] = "closed"
                  /\ ServerEnds
                  /\ NewProcess
                  /\ UNCHANGED <<serviceVars, netVars>>

PowerStep == /\ PowerCycle
             /\ NewProcess
             /\ stage' = [c \in Conn |-> "closed"]
             /\ resetting' = FALSE
             /\ by' = None
             /\ iface' = FALSE /\ up' = FALSE /\ address' = FALSE

WriteBackStep == WriteBack /\ UNCHANGED <<serviceVars, netVars, bringup, eid, misread>>

Enumerate == /\ image # "dead"
             /\ ~iface
             /\ iface' = TRUE
             /\ UNCHANGED <<vars, serviceVars, up, address, bringup, eid, misread>>

-----------------------------------------------------------------------------
(* configure_network and get_mac_address.                                  *)

(* The interface was found, or it was not within ten seconds: then eth0 is *)
(* tried all the same.                                                     *)
WaitForInterface == /\ bringup = "wait"
                    /\ iface \/ Faults
                    /\ bringup' = "link"
                    /\ UNCHANGED <<vars, serviceVars, netVars, eid, misread>>

(* A command that fails is logged and the next one is run.                 *)
LinkUp == /\ bringup = "link"
          /\ bringup' = "addr"
          /\ \/ iface /\ up' = TRUE
             \/ (~iface \/ Faults) /\ UNCHANGED up
          /\ UNCHANGED <<vars, serviceVars, iface, address, eid, misread>>

AddAddress == /\ bringup = "addr"
              /\ bringup' = "mac"
              /\ \/ iface /\ address' = TRUE
                 \/ (~iface \/ Faults) /\ UNCHANGED address
              /\ UNCHANGED <<vars, serviceVars, iface, up, eid, misread>>

(* Fault: the bootloader keeps the EID of DoipConfig::new, zeros.          *)
ReadMacInApp == /\ bringup = "mac"
                /\ bringup' = "done"
                /\ eid' = IF iface /\ image = "app" THEN "mac" ELSE "zero"
                /\ UNCHANGED <<vars, serviceVars, netVars, misread>>

(* Zeros if there is no interface, or if its address cannot be read, does  *)
(* not have six parts or is all zeros.  It is not tried again.             *)
ReadMac == /\ bringup = "mac"
           /\ bringup' = "done"
           /\ \/ iface /\ eid' = "mac" /\ UNCHANGED misread
              \/ iface /\ Faults /\ eid' = "zero" /\ misread' = TRUE
              \/ ~iface /\ eid' = "zero" /\ UNCHANGED misread
           /\ UNCHANGED <<vars, serviceVars, netVars>>

BringUp == WaitForInterface \/ LinkUp \/ AddAddress \/ ReadMac

-----------------------------------------------------------------------------
(* The diagnostic service of the image in its request loop.                *)

Unmoved == UNCHANGED <<vars, by, netVars, bringup, eid, misread>>

Connect(c) == bringup = "done" /\ Reachable /\ Service!Open(c) /\ Unmoved

Talk(c) == /\ Service!Activate(c) \/ Service!Ask(c) \/ Service!Answer(c) \/ Service!Close(c)
           /\ Unmoved

Idle == bringup = "done" /\ by = None

(* A request that is no reset, or a reset that is refused at once.         *)
Execute(c) == Idle /\ Service!Execute(c) /\ ~resetting' /\ Unmoved

(* ECUReset in the application: boot_state is being written.               *)
AppReset(c) == /\ Idle
               /\ ~resetting
               /\ stage[c] = "asked"
               /\ Truncate
               /\ by' = c
               /\ UNCHANGED <<stage, resetting, netVars, bringup, eid, misread>>

(* Fault: a write that failed is tried again instead of answered.          *)
AppResetRetried == /\ by # None
                   /\ \/ Service!Execute(by) /\ Write /\ resetting'
                      \/ UNCHANGED <<stage, resetting>> /\ WriteFails
                   /\ by' = None
                   /\ UNCHANGED <<netVars, bringup, eid, misread>>

AppResetAnswered == /\ by # None
                    /\ Service!Execute(by)
                    /\ \/ Write /\ resetting'
                       \/ WriteFails /\ ~resetting'
                    /\ by' = None
                    /\ UNCHANGED <<netVars, bringup, eid, misread>>

BootResetAnswered(c) == /\ Idle
                        /\ Service!Execute(c)
                        /\ BootReset
                        /\ resetting'
                        /\ UNCHANGED <<by, netVars, bringup, eid, misread>>

Serve(c) == Execute(c) \/ AppReset(c) \/ BootResetAnswered(c)

-----------------------------------------------------------------------------
EcuNext == \/ InitStep \/ ResetStep \/ ServerEndsStep \/ PowerStep
           \/ WriteBackStep \/ Enumerate
           \/ BringUp
           \/ AppResetAnswered
           \/ \E c \in Conn : Connect(c) \/ Talk(c) \/ Serve(c)

EcuSpec == EcuInit /\ [][EcuNext]_ecuVars

(* Process 1 keeps running, and takes the requests of all connections in   *)
(* turn.  No request need arrive, no interface, and no power loss.         *)
EcuFairSpec == /\ EcuSpec
               /\ WF_ecuVars(InitStep)
               /\ WF_ecuVars(ResetStep)
               /\ WF_ecuVars(BringUp)
               /\ WF_ecuVars(AppResetAnswered)
               /\ \A c \in Conn : SF_ecuVars(Serve(c))

-----------------------------------------------------------------------------
(* Properties.                                                             *)

(* An entity that can be reached announces zeros as its EID only if        *)
(* reading the address failed.  It never read too early, although the      *)
(* interface may come late, each command may fail and the bootloader does  *)
(* not even look for the interface.                                        *)
AnnouncesMac == bringup = "done" /\ Reachable /\ ~misread => eid = "mac"

(* After an accepted HardReset, and as long as the power stays on, no      *)
(* image but the bootloader serves testers, and it is on the network: the  *)
(* mounts that /init finds keep it from the application whatever           *)
(* boot_state says, and the bootloader inherits the network, although it   *)
(* configures none.                                                        *)
BootAfterReset ==
  asked /\ losses = 0 /\ image \in {"app", "boot"} =>
    Reachable /\ (image = "boot" \/ step = "reset")

(* And the tester gets there: the bootloader comes to its request loop, on *)
(* the network, unless an exec fails, the image ends or the power is lost. *)
ResetKeepsContact ==
  asked /\ losses = 0 ~>
    \/ image = "boot" /\ bringup = "done" /\ Reachable
    \/ Stopped \/ losses > 0

(* A reset is due exactly when process 1 is about to carry it out: none is *)
(* forgotten, and none is carried out that no executed request asked for.  *)
ResetIsDue == resetting <=> step \in {"reset", "hard", "soft"}

(* What a pass through /init inherits after an accepted HardReset.         *)
ResetInherits ==
  asked /\ losses = 0 =>
    /\ Reachable
    /\ mounted = {"data", "app"}
    /\ image = "app" => step = "reset"
    /\ image = "init" => step \in {"mmc", "data", "asleep"}

(* The inductive invariant behind them.                                    *)
EcuInd ==
  /\ EcuTypeOK
  /\ bringup = "off" <=> image \notin {"app", "boot"}
  /\ up => iface
  /\ bringup = "done" /\ up /\ ~misread => eid = "mac"
  /\ by # None <=> At("app", "truncated")
  /\ by # None => stage[by] = "asked"
  /\ (\E c \in Conn : stage[c] # "closed") => bringup = "done" /\ Reachable
  /\ ResetInherits
  /\ ResetIsDue

(* A request that was acknowledged is lost only to a reset that another    *)
(* request asked for, or to a loss of power.                               *)
NothingElseLost ==
  [][\A c \in Conn : stage[c] = "asked" /\ stage'[c] # "asked" =>
       stage'[c] = "answered" \/ resetting \/ losses' > losses]_ecuVars

(* But for losses of power, testers see one diagnostic service, through    *)
(* all changes of the image that runs.                                     *)
ServiceKept == /\ Service!Init
               /\ [][Service!Next \/ losses' > losses]_<<stage, resetting>>

(* An acknowledged request is executed, or its process is replaced, also   *)
(* while other testers' resets are written, refused and carried out.       *)
RequestsSettle == \A c \in Conn : stage[c] = "asked" ~> stage[c] # "asked"

(* flxc1000_rpi3_defconfig:49, "iproute2 for network configuration         *)
(* (minimal, needed by init for ip commands)", and README.md:46 and        *)
(* 183-184: with the Ethernet connected, DoIP is there on the Pi's IP.     *)
BootloaderReachable == image = "boot" /\ bringup = "done" /\ iface => Reachable
=============================================================================
