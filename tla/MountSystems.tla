---------------------------- MODULE MountSystems ----------------------------
(***************************************************************************)
(* eemount_mount_systems (src/src/eemount.c): the systems of layer 1 from  *)
(* mount units, then those of the external drives, then the layers above   *)
(* from mount units.  The calls to systemd_start_unit_systems are those of *)
(* StartUnits; the record they share with the drives, mhelper, is all that *)
(* tells one step what the others mounted.                                 *)
(***************************************************************************)
EXTENDS StartUnits

CONSTANT DriveHelpers   \* what drive_get_mounts may return

VARIABLES
  phase,    \* "first" and "later": unit calls, "drives", "finished"
  dhelper,  \* for each drive, by name, the systems it offers, by name
  d, n,     \* the drive and the system of it the binding loop considers
  failures  \* history: pairs <<drive, system>> whose bind failed

driveVars == <<dhelper, d, n, failures>>
allVars == <<vars, phase, driveVars>>

(* NULL: drive_get_mounts returns no helper without a drive. *)
NoDrives == <<>>
NoUnits == [mounts |-> <<>>, root |-> 0]

ASSUME DriveHelpersAssumption == DriveHelpers \subseteq Seq(Seq(System))

(* No two units of a helper provide one system, for systemd loads a mount  *)
(* unit under the one name its path has.  The units are sorted, so that a  *)
(* system comes before what lies inside of it, and that has a higher       *)
(* layer (systemd.c:177-193).                                              *)
InOrder(h) ==
  \A j, k \in 1..Len(h.mounts) :
    /\ h.mounts[j].system = h.mounts[k].system => j = k
    /\ <<h.mounts[j].system, h.mounts[k].system>> \in Inside =>
         k < j /\ h.mounts[k].layer < h.mounts[j].layer

(* What drives offer are names without a slash (drive.c:72-84): none lies  *)
(* inside another, and a unit that provides such a system is of layer 1,   *)
(* one inside it of a higher layer, and only the root unit is around it.   *)
Offered(drives) ==
  UNION {{drives[e][k] : k \in 1..Len(drives[e])} : e \in 1..Len(drives)}

OfFirstLayer(s, h) ==
  \A k \in 1..Len(h.mounts) :
    /\ h.mounts[k].system = s => h.mounts[k].layer = 1
    /\ <<h.mounts[k].system, s>> \in Inside => h.mounts[k].layer > 1
    /\ <<s, h.mounts[k].system>> \in Inside => h.mounts[k].layer = 0

ASSUME OrderAssumption == \A h \in Helpers : InOrder(h)
ASSUME OffersAssumption ==
  \A g \in DriveHelpers : \A s \in Offered(g) :
    /\ \A t \in Offered(g) : <<s, t>> \notin Inside
    /\ \A h \in Helpers : OfFirstLayer(s, h)

-----------------------------------------------------------------------------

FirstLayerMutant == "all"
FirstLayer == IF dhelper = NoDrives THEN "all" ELSE "1"

EnterDrives ==
  /\ phase' = IF dhelper = NoDrives THEN "finished" ELSE "drives"
  /\ d' = 1 /\ n' = 1

(* The units of the first layer, or all of them when there are no drives.  *)
FirstCall ==
  /\ phase = "first" /\ pc = "ready" /\ shelper # NoUnits
  /\ Call(FirstLayer)
  /\ UNCHANGED <<phase, driveVars>>

NoFirstCall ==
  /\ phase = "first" /\ shelper = NoUnits
  /\ EnterDrives
  /\ UNCHANGED <<vars, dhelper, failures>>

FirstCallReturned ==
  /\ phase = "first" /\ pc = "returned"
  /\ EnterDrives
  /\ UNCHANGED <<vars, dhelper, failures>>

-----------------------------------------------------------------------------
(* eemount_mount_drive_systems *)

Considered == dhelper[d][n]

AtSystem == phase = "drives" /\ d <= Len(dhelper) /\ n <= Len(dhelper[d])

IsUniqueMutant(s) == \A k \in 2..Len(mhelper.systems) : mhelper.systems[k] # s
IsUnique(s) == \A k \in 1..Len(mhelper.systems) : mhelper.systems[k] # s

NextSystem == n' = n + 1 /\ UNCHANGED <<d, dhelper>>

UnitsIdle == UNCHANGED <<link, rqueue, running, nextJob, foreign, localVars,
                         shelper, layer>>

(* Someone provides the system already. *)
Omit ==
  /\ AtSystem /\ ~IsUnique(Considered)
  /\ NextSystem
  /\ UNCHANGED <<vars, phase, failures>>

(* The target directory cannot be made, or the bind fails. *)
BindFails ==
  /\ AtSystem /\ IsUnique(Considered)
  /\ failures' = failures \cup {<<d, Considered>>}
  /\ NextSystem
  /\ UNCHANGED <<vars, phase>>

Bind ==
  /\ AtSystem /\ IsUnique(Considered)
  /\ PutMount(Considered, "drive")
  /\ mhelper' = Extend(mhelper, Considered)
  /\ NextSystem
  /\ UnitsIdle
  /\ UNCHANGED <<pc, lost, phase, failures>>

LeaveDrives ==
  /\ phase' = IF shelper = NoUnits THEN "finished" ELSE "later"
  /\ pc' = "ready"

(* The system is bound and cannot be recorded: the record is freed, and    *)
(* the systems and drives that follow are not considered.                  *)
BindOutOfMemory ==
  /\ OutOfMemory
  /\ AtSystem /\ IsUnique(Considered) /\ NeedsMemory(mhelper)
  /\ PutMount(Considered, "drive")
  /\ mhelper' = Null
  /\ lost' = lost \cup Recorded \cup {Considered}
  /\ LeaveDrives
  /\ UnitsIdle
  /\ UNCHANGED driveVars

NextDrive ==
  /\ phase = "drives" /\ d <= Len(dhelper) /\ n > Len(dhelper[d])
  /\ d' = d + 1 /\ n' = 1
  /\ UNCHANGED <<vars, phase, dhelper, failures>>

DrivesDoneMutant ==
  /\ phase = "drives" /\ d >= Len(dhelper)
  /\ LeaveDrives
  /\ UNCHANGED <<busVars, localVars, shelper, layer, mhelper, lost, driveVars>>

DrivesDone ==
  /\ phase = "drives" /\ d > Len(dhelper)
  /\ LeaveDrives
  /\ UNCHANGED <<busVars, localVars, shelper, layer, mhelper, lost, driveVars>>

-----------------------------------------------------------------------------

(* The units of the layers above the first. *)
LaterCall ==
  /\ phase = "later" /\ pc = "ready"
  /\ Call("2+")
  /\ UNCHANGED <<phase, driveVars>>

LaterCallReturned ==
  /\ phase = "later" /\ pc = "returned"
  /\ phase' = "finished"
  /\ UNCHANGED <<vars, driveVars>>

UnitCall == InCall /\ UNCHANGED <<phase, driveVars>>

Program ==
  \/ FirstCall \/ NoFirstCall \/ FirstCallReturned
  \/ Omit \/ BindFails \/ Bind \/ BindOutOfMemory \/ NextDrive \/ DrivesDone
  \/ LaterCall \/ LaterCallReturned
  \/ UnitCall

ManagerStep == Manager /\ UNCHANGED <<phase, driveVars>>

MSInit ==
  /\ Init
  /\ mhelper = Null
  /\ phase = "first"
  /\ dhelper \in DriveHelpers
  /\ d = 1 /\ n = 1
  /\ failures = {}

MSNext == Program \/ ManagerStep

MSSpec == MSInit /\ [][MSNext]_allVars

(* The program always takes its next step; the manager owes it nothing. *)
MSFairSpec == MSSpec /\ WF_allVars(Program)

-----------------------------------------------------------------------------
(* Properties *)

MSTypeOK ==
  /\ TypeOK
  /\ phase \in {"first", "drives", "later", "finished"}
  /\ dhelper \in DriveHelpers
  /\ d \in Nat \ {0} /\ n \in Nat \ {0}
  /\ failures \subseteq (Nat \X System)

(* No system is recorded twice, by units of two calls, by two drives, by   *)
(* a drive that lists it twice, or by a report that comes late             *)
(* (eemount.c:436-445, systemd.c:449-456).                                 *)
RecordedOnce ==
  \A k, m \in 1..Len(mhelper.systems) :
    mhelper.systems[k] = mhelper.systems[m] => k = m

(* Two mounts on one system's directory come only of a job or a record the *)
(* program lost track of: a batch it gave up on, an answer it did not get, *)
(* a record it could not extend (eemount.c:436-486, systemd.c:417-493).    *)
DoubleMountOnlyIfLost ==
  \A p, q \in 1..Len(mtab) : p # q /\ mtab[p].at = mtab[q].at => mtab[p].at \in lost

(* A mount is never covered by a later one on the directory it lies in: an *)
(* inner mount waits until everything that may provide the outer one is    *)
(* through, which is what the layers are for (eemount.c:497-511).          *)
NeverCovered ==
  \A p, q \in 1..Len(mtab) : <<mtab[p].at, mtab[q].at>> \in Inside => q < p

(* No system a drive offers is left out: it is mounted, by a unit or a     *)
(* drive, unless the bind of this very offer failed.  Only a bind that     *)
(* could not be recorded ends the drives early, and then those before it   *)
(* were served (eemount.c:430-486).                                        *)
OffersServed ==
  phase = "later" \/ phase = "finished" =>
    /\ d <= Len(dhelper) => dhelper[d][n] \in lost
    /\ \A e \in 1..Len(dhelper) : \A k \in 1..Len(dhelper[e]) :
         e < d \/ (e = d /\ k <= n) =>
           IsMounted(dhelper[e][k]) \/ <<e, dhelper[e][k]>> \in failures

(* What the README says of the systems: "If any system is already mounted, *)
(* it won't be mounted again in the remaining steps".                      *)
NotMountedAgain ==
  \A p, q \in 1..Len(mtab) :
    p < q /\ mtab[p].at = mtab[q].at => mtab[q].by # "drive"

(* The routine is an implementation of Provision, with the record as the   *)
(* claims: every step claims a mounted system, binds a drive to an         *)
(* unclaimed one, forgets, or changes nothing one can tell.                *)
Abstract == INSTANCE Provision WITH claimed <- Recorded
ImplementsProvision == Abstract!Spec

(* The routine gets through, whatever the manager does (eemount.c:493-521). *)
Finishes == <>(phase = "finished")
=============================================================================
