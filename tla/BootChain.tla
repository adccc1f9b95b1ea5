------------------------------ MODULE BootChain ------------------------------
(***************************************************************************)
(* Which image runs: /init (flxc1000-init) as process 1 mounts the         *)
(* partitions, reads /data/boot_state and execs the application or the     *)
(* bootloader; an ECU reset in either image execs /init again, or the      *)
(* bootloader itself.  Mounts survive an exec, and a partition cannot be   *)
(* mounted twice in the same place.                                        *)
(*                                                                         *)
(* The file boot_state is written by the application through the page      *)
(* cache.  The kernel copies it to the card later; a power loss in between *)
(* brings the old content back.                                            *)
(***************************************************************************)
EXTENDS Naturals

CONSTANTS PowerLosses, \* bound: number of power losses
          Faults       \* whether devices, mounts, execve and sockets may fail

ASSUME BootAssumption == PowerLosses \in Nat /\ Faults \in BOOLEAN

VARIABLES
  image,     \* what process 1 executes; "dead" is the panic after its exit
  step,      \* where it is: "mmc", "data", "app", "read" in /init, and "asleep"
             \* for ever once its exec failed; "idle" in the images, and during
             \* a reset "truncated" and "reset" in the application, "hard" and
             \* "soft" in the bootloader
  mounted,   \* mounted partitions
  cache,     \* boot_state as a read of the file returns it
  disk,      \* boot_state on the card
  installed, \* /app/flxc1000-app exists
  asked,     \* history: a HardReset of the application was accepted
  losses     \* power losses so far

vars == <<image, step, mounted, cache, disk, installed, asked, losses>>

Content == {"valid", "requested", "empty"}

TypeOK == /\ \/ image = "init" /\ step \in {"mmc", "data", "app", "read", "asleep"}
             \/ image = "app" /\ step \in {"idle", "truncated", "reset"}
             \/ image = "boot" /\ step \in {"idle", "hard", "soft"}
             \/ image = "dead" /\ step = "idle"
          /\ mounted \in SUBSET {"data", "app"}
          /\ cache \in Content
          /\ disk \in Content
          /\ installed \in BOOLEAN
          /\ asked \in BOOLEAN
          /\ losses \in 0 .. PowerLosses

(* First power-on with the card image as it is built.                      *)
Init == /\ image = "init"
        /\ step = "mmc"
        /\ mounted = {}
        /\ cache = "valid"
        /\ disk = "valid"
        /\ installed \in BOOLEAN
        /\ asked = FALSE
        /\ losses = 0

At(i, s) == image = i /\ step = s
Become(i, s) == image' = i /\ step' = s

-----------------------------------------------------------------------------
(* /init                                                                   *)

(* exec_binary: the image runs, or /init stays and sleeps for ever.        *)
RunImage(i) == Become(i, "idle") \/ (Faults /\ Become("init", "asleep"))

(* The partitions appear in /dev, or do not within ten seconds.            *)
FindMmc == /\ At("init", "mmc")
           /\ Become("init", "data") \/ (Faults /\ RunImage("boot"))
           /\ UNCHANGED <<mounted, cache, disk, installed, asked, losses>>

(* Fault: a mount that fails is logged and otherwise ignored.              *)
MountOrIgnore(part, next) ==
  /\ At("init", part)
  /\ Become("init", next)
  /\ mounted' = mounted \cup {part} \/ (Faults /\ UNCHANGED mounted)
  /\ UNCHANGED <<cache, disk, installed, asked, losses>>

(* Fault: a mount is repeated until it succeeds.                           *)
MountOrRetry(part, next) ==
  /\ At("init", part)
  /\ part \notin mounted
  /\ Become("init", next)
  /\ mounted' = mounted \cup {part}
  /\ UNCHANGED <<cache, disk, installed, asked, losses>>

(* A partition that is still mounted from before the exec cannot be        *)
(* mounted again (EBUSY); any failure leads to the bootloader.             *)
Mount(part, next) ==
  /\ At("init", part)
  /\ \/ /\ part \notin mounted
        /\ mounted' = mounted \cup {part}
        /\ Become("init", next)
     \/ /\ part \in mounted \/ Faults
        /\ RunImage("boot")
        /\ UNCHANGED mounted
  /\ UNCHANGED <<cache, disk, installed, asked, losses>>

(* Fault: anything but an explicit request runs the application.           *)
DecideByRequest ==
  /\ At("init", "read")
  /\ RunImage(IF cache # "requested" /\ installed THEN "app" ELSE "boot")
  /\ UNCHANGED <<mounted, cache, disk, installed, asked, losses>>

(* A file that cannot be read counts as empty.                             *)
Decide == /\ At("init", "read")
          /\ \/ RunImage(IF cache = "valid" /\ installed THEN "app" ELSE "boot")
             \/ Faults /\ RunImage("boot")
          /\ UNCHANGED <<mounted, cache, disk, installed, asked, losses>>

-----------------------------------------------------------------------------
(* ECUReset in the application.  fs::write truncates the file, then writes *)
(* it.  If the file cannot even be opened the request is refused and       *)
(* nothing changes.                                                        *)

Truncate == /\ At("app", "idle")
            /\ cache' = "empty"
            /\ Become("app", "truncated")
            /\ UNCHANGED <<mounted, disk, installed, asked, losses>>

(* The request is refused (conditionsNotCorrect), the file stays empty.    *)
WriteFails == /\ At("app", "truncated")
              /\ Faults
              /\ Become("app", "idle")
              /\ UNCHANGED <<mounted, cache, disk, installed, asked, losses>>

(* Fault: pending_reset is not set.                                        *)
WriteAndStay == /\ At("app", "truncated")
                /\ cache' = "requested"
                /\ asked' = TRUE
                /\ Become("app", "idle")
                /\ UNCHANGED <<mounted, disk, installed, losses>>

(* The request is accepted; the reset follows the answer.                  *)
Write == /\ At("app", "truncated")
         /\ cache' = "requested"
         /\ asked' = TRUE
         /\ Become("app", "reset")
         /\ UNCHANGED <<mounted, disk, installed, losses>>

(* ECUReset in the bootloader, hard or soft.                               *)
BootReset == /\ At("boot", "idle")
             /\ \E kind \in {"hard", "soft"} : Become("boot", kind)
             /\ UNCHANGED <<mounted, cache, disk, installed, asked, losses>>

(* Fault: /init is entered where the last pass through it ended.           *)
HardResetAgain == /\ At("app", "reset") \/ At("boot", "hard")
                  /\ Become("init", "idle")
                  /\ UNCHANGED <<mounted, cache, disk, installed, asked, losses>>

(* do_hard_reset: exec /init; process 1 exits if that fails.               *)
HardReset == /\ At("app", "reset") \/ At("boot", "hard")
             /\ Become("init", "mmc") \/ (Faults /\ Become("dead", "idle"))
             /\ UNCHANGED <<mounted, cache, disk, installed, asked, losses>>

(* do_soft_reset: exec the bootloader itself.                              *)
SoftReset == /\ At("boot", "soft")
             /\ Become("boot", "idle") \/ (Faults /\ Become("dead", "idle"))
             /\ UNCHANGED <<mounted, cache, disk, installed, asked, losses>>

(* The DoIP server is gone and main returns: DoipGateway's MainEnds.       *)
ServerEnds == /\ Faults
              /\ At("app", "idle") \/ At("boot", "idle")
              /\ Become("dead", "idle")
              /\ UNCHANGED <<mounted, cache, disk, installed, asked, losses>>

-----------------------------------------------------------------------------
(* The kernel and the power supply.                                        *)

WriteBack == /\ image # "dead"
             /\ cache # disk
             /\ disk' = cache
             /\ UNCHANGED <<image, step, mounted, cache, installed, asked, losses>>

PowerCycle == /\ losses < PowerLosses
              /\ losses' = losses + 1
              /\ Become("init", "mmc")
              /\ mounted' = {}
              /\ cache' = disk
              /\ UNCHANGED <<disk, installed, asked>>

-----------------------------------------------------------------------------
InitProcess == FindMmc \/ Mount("data", "app") \/ Mount("app", "read") \/ Decide
Resets == HardReset \/ SoftReset
Requests == Truncate \/ BootReset
Writing == WriteFails \/ Write

Next == InitProcess \/ Resets \/ Requests \/ Writing \/ ServerEnds \/ WriteBack \/ PowerCycle

Spec == Init /\ [][Next]_vars

-----------------------------------------------------------------------------
(* Properties.                                                             *)

(* The application runs only with both partitions mounted, so that         *)
(* boot_state is written to the card and not to the root file system, on   *)
(* every path through /init, resets and power losses.                      *)
AppHasData == image = "app" => mounted = {"data", "app"} /\ installed

(* Once the card holds anything but app_valid, even the empty file of an   *)
(* interrupted or refused reset, the application is not started again.     *)
NoWayBack == [][disk # "valid" /\ image = "init" => image' # "app"]_vars

(* The inductive invariant behind both.                                    *)
IndInv == /\ TypeOK
          /\ AppHasData
          /\ "app" \in mounted => "data" \in mounted
          /\ At("init", "app") => mounted = {"data"}
          /\ At("init", "read") => mounted = {"data", "app"}
          /\ disk # "valid" => cache # "valid"

(* Only a power cycle ends these.                                          *)
Stopped == At("init", "asleep") \/ image = "dead"

(* However devices, mounts and reads fail, /init comes to the exec of an   *)
(* image; it does not leave /init only if that exec itself fails.          *)
InitDecides == image = "init" ~> image \in {"app", "boot"} \/ At("init", "asleep")

(* An accepted HardReset that reached the card ends in the bootloader, or  *)
(* in a state only a power cycle ends.                                     *)
ResetReachesBoot == asked /\ disk = "requested" ~> image = "boot" \/ Stopped
=============================================================================
