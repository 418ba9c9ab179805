------------------------------ MODULE Routine -------------------------------
(***************************************************************************)
(* main and eemount_routine (src/src/main.c, src/src/eemount.c): stop      *)
(* Samba, unmount, reload, provide /storage/roms, the overlay of           *)
(* ports_scripts, the systems, and start Samba again.                      *)
(*                                                                         *)
(* The mounting of systems is MountSystems, step by step.  The other parts *)
(* are steps that do what UmountRoms, UnitCalls and MountRoot promise of   *)
(* them; a job the program gives up on while it provides /storage/roms     *)
(* runs on among the steps of MountSystems.  /storage/roms is the          *)
(* directory of the system "", in which all others lie.                    *)
(***************************************************************************)
EXTENDS MountSystems

CONSTANT Overlay   \* "ports_scripts"

VARIABLES
  stage,     \* where main is
  verdict,   \* what eemount_routine returned, 2 while it has not
  rootBy,    \* history: what eemount_mount_root took for a success
  smbd       \* the last thing that was asked of Samba: "stop", "start"

mainVars == <<stage, verdict, rootBy, smbd>>
routineVars == <<allVars, mainVars>>

(* The system whose directory is /storage/roms itself. *)
Roms == ""

ASSUME OverlayAssumption == {Roms, Overlay} \subseteq System /\ Overlay # Roms
ASSUME RootInsideAssumption == \A s \in System \ {Roms} : <<s, Roms>> \in Inside

(* Nothing is around /storage/roms, and only that is around ports_scripts. *)
ASSUME OutermostAssumption ==
  \A s \in System : <<Roms, s>> \notin Inside /\ (<<Overlay, s>> \in Inside => s = Roms)

Go(from, to) == stage = from /\ stage' = to
SystemsIdle == UNCHANGED <<vars, phase, driveVars>>
RestIdle == UNCHANGED <<link, rqueue, foreign, pc, localVars, shelper, layer,
                        mhelper, lost, phase, driveVars>>
NoJob == UNCHANGED <<running, nextJob>>

-----------------------------------------------------------------------------
(* main, before and after the routine *)

InitBusFails ==
  /\ Go("begin", "ended")
  /\ SystemsIdle /\ UNCHANGED <<verdict, rootBy, smbd>>

StopSmbd ==
  /\ Go("begin", "umount")
  /\ smbd' = "stop"
  /\ SystemsIdle /\ UNCHANGED <<verdict, rootBy>>

StartSmbd ==
  /\ Go("start", "restart")
  /\ smbd' = "start"
  /\ SystemsIdle /\ UNCHANGED <<verdict, rootBy>>

(* EmulationStation is restarted if an argument asks for it. *)
Release ==
  /\ Go("restart", "ended")
  /\ link' = "closed"
  /\ UNCHANGED <<rqueue, running, nextJob, foreign, mtab, localVars, pc, shelper,
                 layer, mhelper, lost, phase, driveVars, verdict, rootBy, smbd>>

-----------------------------------------------------------------------------
(* eemount_routine *)

Cancel(from) ==
  /\ Go(from, "start")
  /\ verdict' = 1
  /\ SystemsIdle /\ UNCHANGED <<rootBy, smbd>>

(* Nothing is mounted under /storage/roms, or the routine ends. *)
Umount ==
  /\ Go("umount", "reload")
  /\ SystemsIdle /\ UNCHANGED <<verdict, rootBy, smbd>>

(* The units are reloaded if there are any; the result is not looked at.   *)
(* Then the directory is made, and without it the routine ends.            *)
Reload ==
  /\ Go("reload", IF shelper.root = 0 THEN "drives" ELSE "unit")
  /\ SystemsIdle /\ UNCHANGED <<verdict, rootBy, smbd>>

RootUnitStartedMutant ==
  /\ Go("unit", "drives") /\ link = "up"
  /\ PutMount(Roms, "unit")
  /\ nextJob' = nextJob + 1 /\ UNCHANGED running
  /\ rootBy' = rootBy \cup {"unit"}
  /\ RestIdle /\ UNCHANGED <<verdict, smbd>>
RootUnitStarted ==
  /\ Go("unit", "ports") /\ link = "up"
  /\ PutMount(Roms, "unit")
  /\ nextJob' = nextJob + 1 /\ UNCHANGED running
  /\ rootBy' = rootBy \cup {"unit"}
  /\ RestIdle /\ UNCHANGED <<verdict, smbd>>

(* The job failed, or is given up on and may exist all the same. *)
RootUnitFails ==
  /\ Go("unit", "drives")
  /\ Reject(Roms)
  /\ RestIdle /\ UNCHANGED <<mtab, verdict, rootBy, smbd>>

WholeDrive == \E e \in 1..Len(dhelper) : dhelper[e] = <<>>

RootDrive ==
  /\ Go("drives", "ports") /\ WholeDrive
  /\ PutMount(Roms, "drive")
  /\ rootBy' = rootBy \cup {"drive"}
  /\ NoJob /\ RestIdle /\ UNCHANGED <<verdict, smbd>>

(* The last resort, taken for done if something is mounted there already.  *)
RootEEROMS ==
  /\ Go("drives", "ports")
  /\ PutMount(Roms, "EEROMS") \/ (IsMounted(Roms) /\ UNCHANGED mtab)
  /\ rootBy' = rootBy \cup {"EEROMS"}
  /\ NoJob /\ RestIdle /\ UNCHANGED <<verdict, smbd>>

(* eemount_mount_root returns 1, which is not less than 0. *)
RootByNobodyMutant == Cancel("drives")
RootByNobody ==
  /\ Go("drives", "ports")
  /\ SystemsIdle /\ UNCHANGED <<verdict, rootBy, smbd>>

(* Directories, a mount context and a mount: what it returns is not used.  *)
MountPortsScripts ==
  /\ Go("ports", "systems")
  /\ PutMount(Overlay, "overlay") \/ UNCHANGED mtab
  /\ NoJob /\ RestIdle /\ UNCHANGED <<verdict, rootBy, smbd>>

MountSystemsStep ==
  /\ stage = "systems"
  /\ Program
  /\ UNCHANGED mainVars

RoutineReturns ==
  /\ Go("systems", "start") /\ phase = "finished"
  /\ verdict' = 0
  /\ SystemsIdle /\ UNCHANGED <<rootBy, smbd>>

MainProgram ==
  \/ InitBusFails \/ StopSmbd
  \/ Umount \/ Cancel("umount") \/ Reload \/ Cancel("reload")
  \/ RootUnitStarted \/ RootUnitFails \/ RootDrive \/ RootEEROMS \/ RootByNobody
  \/ MountPortsScripts \/ MountSystemsStep \/ RoutineReturns
  \/ StartSmbd \/ Release

(* The manager goes on when the program has ended. *)
MainManager == ManagerStep /\ UNCHANGED mainVars

MainInit ==
  /\ MSInit
  /\ stage = "begin" /\ verdict = 2 /\ rootBy = {} /\ smbd = "start"

MainNext == MainProgram \/ MainManager

MainSpec == MainInit /\ [][MainNext]_routineVars

MainFairSpec == MainSpec /\ WF_routineVars(MainProgram)

-----------------------------------------------------------------------------
(* Properties *)

MainTypeOK ==
  /\ MSTypeOK
  /\ stage \in {"begin", "umount", "reload", "unit", "drives", "ports", "systems",
                "start", "restart", "ended"}
  /\ verdict \in {0, 1, 2}
  /\ rootBy \subseteq {"unit", "drive", "EEROMS"}
  /\ smbd \in {"stop", "start"}

(* A mount made over the directories that others were mounted on hides     *)
(* them.  Through the whole routine only the root unit's job, if it was    *)
(* given up on, can do that (eemount.c:376, 497-511).                      *)
HiddenOnlyByLateRoot ==
  \A p, q \in 1..Len(mtab) :
    p < q /\ <<mtab[p].at, mtab[q].at>> \in Inside =>
      mtab[q] = [at |-> Roms, by |-> "unit"] /\ "unit" \notin rootBy

(* "All mount operations cancelled" (eemount.c:372): when the routine      *)
(* returns 1 the program has mounted nothing, nor asked for a unit to be.  *)
CancelledMountsNothing == verdict = 1 => mtab = <<>> /\ running = {}

(* If one provider of /storage/roms "is mounted successfully, the          *)
(* remaining steps are ignored" (README.md:13): it is mounted at most      *)
(* once, but for the root unit's job that was given up on.                 *)
RootProvidedOnce ==
  \A p, q \in 1..Len(mtab) :
    p < q /\ mtab[p].at = Roms /\ mtab[q].at = Roms =>
      "unit" \notin rootBy /\ "unit" \in {mtab[p].by, mtab[q].by}

(* Whatever the parts return and however long the manager takes, main gets *)
(* to its end, and if Samba was stopped it is started again                *)
(* (main.c:26-38).                                                         *)
MainEnds == <>(stage = "ended" /\ smbd = "start")

(* "0 if success" (eemount.h:203), which main calls "all mount successful" *)
(* (main.c:30): when the routine returns 0, /storage/roms is mounted.      *)
SuccessMeansRoms == verdict = 0 => IsMounted(Roms)
=============================================================================
