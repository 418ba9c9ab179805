---------------------------- MODULE RoutineProofs ---------------------------
(***************************************************************************)
(* What is proved of the whole program for every set of units and drives:  *)
(* the record names mounted systems only, a cancelled routine has mounted  *)
(* nothing, /storage/roms has one provider, and only a root unit that was  *)
(* given up on can hide what was mounted before it.                        *)
(***************************************************************************)
EXTENDS Routine, MountSystemsProofs

MainInv == MSInv

(* Nothing is mounted or asked for before the routine is past the steps    *)
(* that may cancel it.                                                     *)
Untouched == mtab = <<>> /\ running = {}

Cancelling ==
  /\ stage \in {"begin", "umount", "reload"} => Untouched /\ verdict = 2
  /\ verdict = 1 => stage \in {"start", "restart", "ended"} /\ Untouched

(* How /storage/roms has come to be mounted, place by place.               *)
OneRoot ==
  /\ stage \in {"begin", "umount", "reload", "unit"} => Untouched /\ rootBy = {}
  /\ stage = "drives" => rootBy = {} /\ \A p \in 1..Len(mtab) : mtab[p].at = Roms => mtab[p].by = "unit"
  /\ "unit" \in rootBy => \A j \in running : j.system # Roms

(* The steps of main that leave the bus and the systems alone. *)
Idle ==
  /\ SystemsIdle
  /\ UNCHANGED rootBy
  /\ \/ InitBusFails \/ StopSmbd \/ Umount \/ Cancel("umount") \/ Reload
     \/ Cancel("reload") \/ RootByNobody \/ RoutineReturns \/ StartSmbd

(* Only the root unit and whole drives are about /storage/roms itself.     *)
OthersElsewhere ==
  /\ \A h \in Helpers : \A k \in 1..Len(h.mounts) : h.mounts[k].system = Roms => k = h.root
  /\ \A h \in DriveHelpers : \A e \in 1..Len(h) : \A k \in 1..Len(h[e]) : h[e][k] # Roms

-----------------------------------------------------------------------------
(* The invariant of the mounting of systems, through the whole program     *)

LEMMA IdsAreNat ==
  ASSUME IInv
  PROVE  /\ \A j \in running : j.id \in Nat
         /\ \A k \in 1..Len(jobs) : jobs[k].id \in Nat
         /\ \A q \in 1..Len(rqueue) : rqueue[q].member = "JobRemoved" => rqueue[q].id \in Nat
<1>1. /\ running \in SUBSET Job
      /\ jobs \in Seq(StartedJob)
      /\ rqueue \in Seq(Message)
  BY DEF IInv, TypeOK, BusTypeOK
<1>2. \A k \in 1..Len(jobs) : jobs[k] \in StartedJob
  BY <1>1, ElementOfSeq
<1>3. \A q \in 1..Len(rqueue) : rqueue[q] \in Message
  BY <1>1, ElementOfSeq
<1> QED BY <1>1, <1>2, <1>3 DEF Job, StartedJob, Message

(* A step beside it that mounts something. *)
LEMMA MountKeeps ==
  ASSUME MSInv, NEW s \in System, NEW by \in Provider, PutMount(s, by),
         nextJob' \in {nextJob, nextJob + 1},
         UNCHANGED <<link, rqueue, running, foreign, pc, localVars, shelper, layer,
                     mhelper, lost, phase, driveVars>>
  PROVE  MSInv'
<1> USE DEF localVars, driveVars
<1>1. nextJob \in Nat \ {0} /\ nextJob' \in Nat \ {0} /\ nextJob <= nextJob'
  BY DEF MSInv, IInv, TypeOK, BusTypeOK
<1>2. mtab' \in Seq(Mount) /\ \A x : IsMounted(x) => IsMounted(x)'
  <2> DEFINE m == [at |-> s, by |-> by]
  <2>1. m \in Mount /\ mtab' = Append(mtab, m) /\ mtab \in Seq(Mount)
    BY DEF Mount, PutMount, MSInv, IInv, TypeOK, BusTypeOK
  <2> HIDE DEF m
  <2> QED BY <2>1, MountStays
<1>3. TypeOK' /\ Counting'
  BY <1>1, <1>2 DEF MSInv, IInv, TypeOK, BusTypeOK, Counting
<1>4. FreshIds'
  <2>1. /\ \A j \in running : j.id \in Nat
        /\ \A k \in 1..Len(jobs) : jobs[k].id \in Nat
        /\ \A q \in 1..Len(rqueue) : rqueue[q].member = "JobRemoved" => rqueue[q].id \in Nat
    BY IdsAreNat DEF MSInv
  <2>2. \A x \in Nat : x < nextJob => x < nextJob'
    BY <1>1
  <2>3. UNCHANGED <<running, jobs, rqueue>>
    OBVIOUS
  <2>4. FreshIds
    BY DEF MSInv, IInv
  <2> QED BY <2>1, <2>2, <2>3, <2>4 DEF FreshIds
<1>5. SameJob' /\ DoneIsMounted'
  BY <1>2 DEF MSInv, IInv, SameJob, DoneIsMounted, IsMounted
<1>6. RecordedIsMounted' /\ Allocated' /\ RecordFits'
  BY <1>2 DEF MSInv, IInv, RecordedIsMounted, Recorded, IsMounted, Allocated, RecordFits
<1> QED BY <1>3, <1>4, <1>5, <1>6 DEF MSInv, MSTypeOK, IInv

LEMMA IdleKeeps == MSInv /\ UNCHANGED allVars => MSInv'
BY PassingOnKeeps

LEMMA ReleaseKeeps == MSInv /\ Release => MSInv'
<1> SUFFICES ASSUME MSInv, Release PROVE MSInv'
  OBVIOUS
<1> USE DEF Release, localVars, driveVars
<1>1. TypeOK' /\ Counting'
  BY DEF MSInv, IInv, TypeOK, BusTypeOK, Counting
<1> QED BY <1>1, QuietStep DEF MSInv, MSTypeOK

LEMMA RootUnitFailsKeeps == MSInv /\ RootUnitFails => MSInv'
<1> SUFFICES ASSUME MSInv, RootUnitFails PROVE MSInv'
  OBVIOUS
<1> USE DEF RootUnitFails, RestIdle, localVars, driveVars
<1>1. CASE UNCHANGED <<running, nextJob>>
  BY <1>1, IdleKeeps DEF allVars, vars, busVars
<1>2. CASE /\ running' = running \cup {[id |-> nextJob, system |-> Roms]}
           /\ nextJob' = nextJob + 1
  <2>1. /\ Roms \in System
        /\ FreshIds' /\ SameJob' /\ DoneIsMounted' /\ running' \in SUBSET Job
    BY <1>2, NewJobKeeps, OverlayAssumption DEF MSInv
  <2>2. TypeOK' /\ Counting'
    <3>1. nextJob' \in Nat \ {0}
      BY <1>2 DEF MSInv, IInv, TypeOK, BusTypeOK
    <3> QED BY <2>1, <3>1 DEF MSInv, IInv, TypeOK, BusTypeOK, Counting
  <2>3. UNCHANGED <<mtab, mhelper>> /\ RecordedIsMounted /\ Allocated /\ RecordFits
    BY DEF MSInv, IInv
  <2>4. RecordedIsMounted' /\ Allocated' /\ RecordFits'
    BY <2>3 DEF RecordedIsMounted, Recorded, IsMounted, Allocated, RecordFits
  <2> QED BY <2>4, <2>1, <2>2, <2>3 DEF MSInv, MSTypeOK, IInv
<1> QED BY <1>1, <1>2 DEF Reject

(* What a step of the whole program is. *)
LEMMA MainSteps ==
  ASSUME [MainNext]_routineVars
  PROVE  \/ UNCHANGED routineVars
         \/ Idle
         \/ RootUnitStarted \/ RootUnitFails \/ RootDrive
         \/ RootEEROMS /\ (PutMount(Roms, "EEROMS") \/ UNCHANGED mtab)
         \/ MountPortsScripts /\ (PutMount(Overlay, "overlay") \/ UNCHANGED mtab)
         \/ MountSystemsStep \/ MainManager \/ Release
<1>1. ASSUME InitBusFails \/ StopSmbd \/ Umount \/ Cancel("umount") \/ Reload
               \/ Cancel("reload") \/ RootByNobody \/ RoutineReturns \/ StartSmbd
      PROVE  Idle
  BY <1>1 DEF Idle, InitBusFails, StopSmbd, Umount, Cancel, Reload, RootByNobody,
              RoutineReturns, StartSmbd
<1>2. RootEEROMS => PutMount(Roms, "EEROMS") \/ UNCHANGED mtab
  BY DEF RootEEROMS
<1>3. MountPortsScripts => PutMount(Overlay, "overlay") \/ UNCHANGED mtab
  BY DEF MountPortsScripts
<1> QED BY <1>1, <1>2, <1>3 DEF MainNext, MainProgram

LEMMA MountSystemsNextKeeps == MSInv /\ (MountSystemsStep \/ MainManager) => MSInv'
BY MSNextKeeps DEF MountSystemsStep, MainManager, MSNext

LEMMA MainNextKeeps == MSInv /\ [MainNext]_routineVars => MSInv'
<1> SUFFICES ASSUME MSInv, [MainNext]_routineVars PROVE MSInv'
  OBVIOUS
<1>1. Roms \in System /\ Overlay \in System
  BY OverlayAssumption
<1>2. CASE UNCHANGED allVars
  BY <1>2, IdleKeeps
<1>3. CASE RootUnitStarted
  BY <1>1, <1>3, MountKeeps DEF RootUnitStarted, RestIdle, Provider
<1>4. CASE RootDrive
  BY <1>1, <1>4, MountKeeps DEF RootDrive, RestIdle, NoJob, Provider
<1>5. CASE RootEEROMS /\ PutMount(Roms, "EEROMS")
  BY <1>1, <1>5, MountKeeps DEF RootEEROMS, RestIdle, NoJob, Provider
<1>6. CASE MountPortsScripts /\ PutMount(Overlay, "overlay")
  BY <1>1, <1>6, MountKeeps DEF MountPortsScripts, RestIdle, NoJob, Provider
<1>7. CASE (RootEEROMS \/ MountPortsScripts) /\ UNCHANGED mtab
  <2>1. UNCHANGED allVars
    BY <1>7 DEF RootEEROMS, MountPortsScripts, RestIdle, NoJob, allVars, vars, busVars
  <2> QED BY <2>1, <1>2
<1>8. CASE Idle
  BY <1>2, <1>8 DEF Idle, SystemsIdle, allVars
<1> QED
  BY <1>2, <1>3, <1>4, <1>5, <1>6, <1>7, <1>8, RootUnitFailsKeeps, ReleaseKeeps,
     MountSystemsNextKeeps, MainSteps DEF routineVars

LEMMA MainInitInv == MainInit => MSInv
BY MSInitInv DEF MainInit

(* Whatever /storage/roms is provided by, what the record names is mounted *)
(* throughout main, after the jobs that were given up on before too        *)
(* (eemount.c:523-565).                                                    *)
THEOREM MainRecordsMounted == MainSpec => []RecordedIsMounted
<1>1. MSInv => RecordedIsMounted
  BY DEF MSInv, IInv
<1> QED BY <1>1, MainInitInv, MainNextKeeps, PTL DEF MainSpec

-----------------------------------------------------------------------------
(* What a step does to the mounts and the jobs *)

LEMMA ManagerMounts ==
  ASSUME MainManager
  PROVE  /\ running' \subseteq running
         /\ \/ UNCHANGED mtab
            \/ \E j \in running : PutMount(j.system, "unit")
BY DEF MainManager, ManagerStep, Manager, Environment, RemoveJob, RemoveJobAs,
       ForeignJobRemoved, Hangup

LEMMA CancellingKeeps == MSInv /\ Cancelling /\ [MainNext]_routineVars => Cancelling'
<1> SUFFICES ASSUME MSInv, Cancelling, [MainNext]_routineVars PROVE Cancelling'
  OBVIOUS
<1> USE DEF Cancelling
<1>1. ASSUME UNCHANGED <<stage, verdict>>, Untouched => Untouched' PROVE Cancelling'
  BY <1>1
<1>2. CASE UNCHANGED routineVars
  BY <1>2, <1>1 DEF routineVars, mainVars, allVars, vars, busVars, Untouched
<1>3. CASE Idle
  <2>1. UNCHANGED <<mtab, running>>
    BY <1>3 DEF Idle, SystemsIdle, vars, busVars
  <2> QED BY <1>3, <2>1 DEF Idle, Untouched, InitBusFails, StopSmbd, Umount, Cancel,
             Reload, RootByNobody, RoutineReturns, StartSmbd, Go
<1>4. CASE RootUnitStarted \/ RootUnitFails \/ RootDrive \/ RootEEROMS \/ MountPortsScripts
  BY <1>4 DEF RootUnitStarted, RootUnitFails, RootDrive, RootEEROMS,
              MountPortsScripts, Go
<1>5. CASE Release
  BY <1>5 DEF Release, Go, Untouched
<1>6. CASE MountSystemsStep
  BY <1>6 DEF MountSystemsStep, mainVars
<1>7. CASE MainManager
  <2>1. Untouched => Untouched'
    BY <1>7, ManagerMounts DEF Untouched
  <2> QED BY <1>7, <2>1, <1>1 DEF MainManager, mainVars
<1> QED BY <1>2, <1>3, <1>4, <1>5, <1>6, <1>7, MainSteps

(* At first nothing is mounted. *)
LEMMA InitUntouched == MainInit => Untouched
<1> SUFFICES ASSUME MainInit PROVE Untouched
  OBVIOUS
<1>1. /\ mhelper = Null /\ running = {}
  BY DEF MainInit, MSInit, Init, BusInit
<1>2. PICK g \in Given :
        /\ mhelper = IF g = <<>> THEN Null ELSE [systems |-> g, alloc |-> AllocBase]
        /\ mtab = [k \in 1..Len(g) |-> [at |-> g[k], by |-> "drive"]]
  BY DEF MainInit, MSInit, Init
<1>3. g = <<>>
  BY <1>1, <1>2, AllocAssumption DEF Null
<1>4. mtab = <<>>
  <2>1. g \in Seq(System) /\ Len(g) = 0
    BY <1>3, GivenAssumption
  <2>2. /\ mtab = [k \in 1..0 |-> [at |-> g[k], by |-> "drive"]]
        /\ 1..0 = {}
    BY <1>2, <2>1
  <2>3. mtab \in Seq(Mount)
    BY <1>2, <2>1, <2>2 DEF Mount
  <2>4. Len(mtab) = 0
    BY <2>2, <2>3, LenProperties
  <2> QED BY <2>3, <2>4, EmptySeq
<1> QED BY <1>1, <1>4 DEF Untouched

(* When the routine gives up it leaves nothing behind: what it calls       *)
(* cancelled has neither mounted nor asked for anything                    *)
(* (eemount.c:528-552).                                                    *)
THEOREM CancelledLeavesNothing == MainSpec => []CancelledMountsNothing
<1>1. MainInit => Cancelling
  BY InitUntouched DEF MainInit, Cancelling
<1>2. Cancelling => CancelledMountsNothing
  BY DEF Cancelling, Untouched, CancelledMountsNothing
<1> QED BY <1>1, <1>2, MainInitInv, MainNextKeeps, CancellingKeeps, PTL DEF MainSpec

-----------------------------------------------------------------------------
(* One provider of /storage/roms *)

(* A unit that is selected is not the root unit, nor is the system a drive *)
(* offers.                                                                 *)
LEMMA SelectedElsewhere ==
  ASSUME MSInv, OthersElsewhere, i <= Len(shelper.mounts), Selected(i)
  PROVE  shelper.mounts[i].system # Roms
<1>1. shelper \in Helpers /\ i \in Nat \ {0}
  BY DEF MSInv, IInv, TypeOK
<1>2. i \in 1..Len(shelper.mounts)
  <2>1. shelper.mounts \in Seq(Unit)
    BY <1>1, HelpersAssumption DEF IsHelper
  <2> QED BY <2>1, <1>1, LenProperties
<1> QED BY <1>1, <1>2 DEF OthersElsewhere, Selected

LEMMA ConsideredElsewhere ==
  ASSUME MSInv, OthersElsewhere, AtSystem
  PROVE  Considered \in System /\ Considered # Roms
<1>1. /\ dhelper \in DriveHelpers
      /\ dhelper \in Seq(Seq(System)) /\ d \in Nat \ {0} /\ n \in Nat \ {0}
  BY DriveHelpersAssumption DEF MSInv, MSTypeOK
<1>2. d \in 1..Len(dhelper)
  BY <1>1, LenProperties DEF AtSystem
<1>3. dhelper[d] \in Seq(System)
  BY <1>1, <1>2, ElementOfSeq
<1>4. n \in 1..Len(dhelper[d])
  BY <1>1, <1>3, LenProperties DEF AtSystem
<1> QED BY <1>1, <1>2, <1>4, ConsideredType DEF OthersElsewhere, Considered

(* So the mounting of systems asks for and makes mounts elsewhere only. *)
LEMMA SystemsElsewhere ==
  ASSUME MSInv, OthersElsewhere, Program
  PROVE  /\ \A j \in running' : j \in running \/ j.system # Roms
         /\ \/ UNCHANGED mtab
            \/ \E s \in System \ {Roms} : PutMount(s, "drive")
<1>1. CASE UnitCall
  <2>1. UNCHANGED mtab
    BY <1>1 DEF UnitCall, InCall, SkipUnit, StartUnit, StartUnitFails, StartedAll,
       Receive, ReceiveUnreadable, RereadDisconnected, ReceiveOther, ReceiveOurs,
       OutOfMemoryOnOurs, Wait, busVars
  <2>2. CASE StartUnit \/ StartUnitFails
    <3>1. shelper.mounts[i].system # Roms
      BY <2>2, SelectedElsewhere DEF StartUnit, StartUnitFails
    <3>2. \/ running' = running
          \/ running' = running \cup {[id |-> nextJob, system |-> shelper.mounts[i].system]}
      BY <2>2 DEF StartUnit, StartUnitFails, Accept, Reject
    <3> QED BY <2>1, <3>1, <3>2
  <2>3. CASE ~(StartUnit \/ StartUnitFails)
    <3>1. UNCHANGED running
      BY <1>1, <2>3 DEF UnitCall, InCall, SkipUnit, StartedAll, Receive,
         ReceiveUnreadable, RereadDisconnected, ReceiveOther, ReceiveOurs,
         OutOfMemoryOnOurs, Wait, busVars
    <3> QED BY <2>1, <3>1
  <2> QED BY <2>2, <2>3
<1>2. CASE Bind \/ BindOutOfMemory
  BY <1>2, ConsideredElsewhere DEF Bind, BindOutOfMemory, UnitsIdle
<1>3. CASE ~(UnitCall \/ Bind \/ BindOutOfMemory)
  BY <1>3 DEF Program, FirstCall, NoFirstCall, FirstCallReturned, Omit, BindFails,
     NextDrive, DrivesDone, LaterCall, LaterCallReturned, Call, vars, busVars
<1> QED BY <1>1, <1>2, <1>3

(* One more mount at the end leaves one provider if it lies elsewhere, or  *)
(* if the root unit's job was given up on and it or all others are its.    *)
LEMMA OneMoreRoot ==
  ASSUME MSInv, RootProvidedOnce, NEW s, NEW by, PutMount(s, by),
         "unit" \in rootBy' => "unit" \in rootBy,
         s = Roms =>
           /\ "unit" \notin rootBy
           /\ by = "unit" \/ \A p \in 1..Len(mtab) : mtab[p].at = Roms => mtab[p].by = "unit"
  PROVE  RootProvidedOnce'
<1> DEFINE m == [at |-> s, by |-> by]
<1>1. mtab \in Seq(Mount) /\ mtab' = Append(mtab, m) /\ m.at = s /\ m.by = by
  BY DEF PutMount, MSInv, IInv, TypeOK, BusTypeOK
<1> HIDE DEF m
<1>2. /\ Len(mtab) \in Nat /\ Len(mtab') = Len(mtab) + 1
      /\ \A p \in 1..Len(mtab) : mtab'[p] = mtab[p]
      /\ mtab'[Len(mtab) + 1] = m
  BY <1>1
<1> SUFFICES ASSUME NEW p \in 1..Len(mtab'), NEW q \in 1..Len(mtab'),
                    p < q, mtab'[p].at = Roms, mtab'[q].at = Roms
             PROVE  /\ "unit" \notin rootBy'
                    /\ "unit" \in {mtab'[p].by, mtab'[q].by}
  BY DEF RootProvidedOnce
<1>3. p \in 1..Len(mtab) /\ mtab[p].at = Roms /\ mtab'[p].by = mtab[p].by
  BY <1>2
<1>4. CASE q \in 1..Len(mtab)
  BY <1>2, <1>3, <1>4 DEF RootProvidedOnce
<1>5. CASE q = Len(mtab) + 1
  BY <1>1, <1>2, <1>3, <1>5
<1> QED BY <1>2, <1>4, <1>5

RootInv == OneRoot /\ RootProvidedOnce

LEMMA MainIdleKeepsRoot ==
  ASSUME RootInv, Idle \/ Release \/ UNCHANGED routineVars
  PROVE  RootInv'
<1>1. UNCHANGED <<mtab, running, rootBy>>
  BY DEF Idle, SystemsIdle, Release, routineVars, mainVars, allVars, vars, busVars
<1>2. RootProvidedOnce'
  BY <1>1 DEF RootInv, RootProvidedOnce
<1>3. \/ stage' = stage
      \/ stage' \in {"umount", "reload", "unit"} /\ stage \in {"begin", "umount", "reload"}
      \/ stage' = "drives" /\ stage \in {"reload"}
      \/ stage' \notin {"begin", "umount", "reload", "unit", "drives"}
  BY DEF Idle, InitBusFails, StopSmbd, Umount, Cancel, Reload, RootByNobody,
         RoutineReturns, StartSmbd, Release, Go, routineVars, mainVars
<1>4. Untouched => Untouched' /\ Len(mtab') = 0
  BY <1>1 DEF Untouched
<1>5. OneRoot'
  BY <1>1, <1>3, <1>4 DEF RootInv, OneRoot
<1> QED BY <1>2, <1>5 DEF RootInv

(* The unit is the first to be tried. *)
LEMMA UnitKeepsRoot ==
  ASSUME MSInv, RootInv, RootUnitStarted \/ RootUnitFails
  PROVE  RootInv'
<1>1. mtab = <<>> /\ running = {} /\ rootBy = {}
  BY DEF RootUnitStarted, RootUnitFails, Go, RootInv, OneRoot, Untouched
<1>2. CASE RootUnitStarted
  <2>1. /\ stage' = "ports" /\ running' = {}
        /\ mtab' = Append(mtab, [at |-> Roms, by |-> "unit"])
    BY <1>1, <1>2 DEF RootUnitStarted, Go, PutMount
  <2>2. Len(mtab') = 1
    BY <1>1, <2>1
  <2> QED BY <2>1, <2>2 DEF RootInv, OneRoot, RootProvidedOnce
<1>3. CASE RootUnitFails
  <2>1. stage' = "drives" /\ rootBy' = {} /\ Len(mtab') = 0
    BY <1>1, <1>3 DEF RootUnitFails, Go
  <2> QED BY <2>1 DEF RootInv, OneRoot, RootProvidedOnce
<1> QED BY <1>2, <1>3

(* Drives and EEROMS are tried when there was no success. *)
LEMMA DrivesKeepRoot ==
  ASSUME MSInv, RootInv, RootDrive \/ RootEEROMS
  PROVE  RootInv'
<1>1. /\ rootBy = {} /\ "unit" \notin rootBy' /\ stage' = "ports"
      /\ \A p \in 1..Len(mtab) : mtab[p].at = Roms => mtab[p].by = "unit"
  BY DEF RootDrive, RootEEROMS, Go, RootInv, OneRoot
<1>2. OneRoot'
  BY <1>1 DEF OneRoot
<1>3. CASE UNCHANGED mtab
  BY <1>1, <1>2, <1>3 DEF RootInv, RootProvidedOnce
<1>4. ASSUME NEW by \in Provider, PutMount(Roms, by) PROVE RootProvidedOnce'
  BY <1>1, <1>4, OneMoreRoot DEF RootInv
<1>5. \/ UNCHANGED mtab
      \/ PutMount(Roms, "drive")
      \/ PutMount(Roms, "EEROMS")
  BY DEF RootDrive, RootEEROMS
<1>6. "drive" \in Provider /\ "EEROMS" \in Provider
  BY DEF Provider
<1> QED BY <1>2, <1>3, <1>4, <1>5, <1>6 DEF RootInv

(* Later nothing but the root unit's job, if it was given up on, is about  *)
(* /storage/roms.                                                          *)
LEMMA LaterKeepRoot ==
  ASSUME MSInv, RootInv, OthersElsewhere, MountPortsScripts \/ MountSystemsStep
  PROVE  RootInv'
<1>1. /\ UNCHANGED rootBy /\ stage' = "systems"
      /\ \A j \in running' : j \in running \/ j.system # Roms
      /\ \/ UNCHANGED mtab
         \/ \E s \in System \ {Roms}, by \in Provider : PutMount(s, by)
  <2>1. CASE MountPortsScripts
    BY <2>1, OverlayAssumption DEF MountPortsScripts, Go, NoJob, Provider
  <2>2. CASE MountSystemsStep
    BY <2>2, SystemsElsewhere DEF MountSystemsStep, mainVars, Provider
  <2> QED BY <2>1, <2>2
<1>2. OneRoot'
  BY <1>1 DEF RootInv, OneRoot
<1>3. RootProvidedOnce'
  <2>1. CASE UNCHANGED mtab
    BY <1>1, <2>1 DEF RootInv, RootProvidedOnce
  <2>2. CASE \E s \in System \ {Roms}, by \in Provider : PutMount(s, by)
    BY <1>1, <2>2, OneMoreRoot DEF RootInv
  <2> QED BY <1>1, <2>1, <2>2
<1> QED BY <1>2, <1>3 DEF RootInv

(* The manager mounts what it was asked to. *)
LEMMA ManagerKeepsRoot == ASSUME MSInv, RootInv, MainManager PROVE RootInv'
<1>1. UNCHANGED <<stage, rootBy>> /\ running' \subseteq running
  BY ManagerMounts DEF MainManager, mainVars
<1>2. CASE UNCHANGED mtab
  BY <1>1, <1>2 DEF RootInv, OneRoot, RootProvidedOnce, Untouched
<1>3. CASE \E j \in running : PutMount(j.system, "unit")
  <2>1. PICK j \in running : PutMount(j.system, "unit")
    BY <1>3
  <2>2. RootProvidedOnce'
    BY <1>1, <2>1, OneMoreRoot DEF RootInv, OneRoot
  <2>3. \A p \in 1..Len(mtab') :
          mtab'[p].by = "unit" \/ (p \in 1..Len(mtab) /\ mtab'[p] = mtab[p])
    <3> DEFINE m == [at |-> j.system, by |-> "unit"]
    <3>1. mtab \in Seq(Mount) /\ mtab' = Append(mtab, m) /\ m.by = "unit"
      BY <2>1 DEF PutMount, MSInv, IInv, TypeOK, BusTypeOK
    <3> HIDE DEF m
    <3> QED BY <3>1
  <2>4. OneRoot'
    BY <1>1, <2>1, <2>3 DEF RootInv, OneRoot, Untouched
  <2> QED BY <2>2, <2>4 DEF RootInv
<1> QED BY <1>2, <1>3, ManagerMounts

LEMMA RootInvKeeps ==
  ASSUME OthersElsewhere, MSInv, RootInv, [MainNext]_routineVars
  PROVE  RootInv'
BY MainSteps, MainIdleKeepsRoot, UnitKeepsRoot, DrivesKeepRoot, LaterKeepRoot,
   ManagerKeepsRoot

(* The ways of providing /storage/roms are tried in their order and the    *)
(* first success ends the search: whatever the systems are and however     *)
(* late a job is, a second mount there is the root unit's, whose job was   *)
(* given up on (eemount.c:355-417).                                        *)
THEOREM OneProvider ==
  ASSUME OthersElsewhere
  PROVE  MainSpec => []RootProvidedOnce
<1>1. MainInit => RootInv
  BY InitUntouched DEF MainInit, RootInv, OneRoot, RootProvidedOnce, Untouched
<1>2. MSInv /\ RootInv /\ [MainNext]_routineVars => RootInv'
  BY RootInvKeeps
<1>3. RootInv => RootProvidedOnce
  BY DEF RootInv
<1> QED BY <1>1, <1>2, <1>3, MainInitInv, MainNextKeeps, PTL DEF MainSpec

-----------------------------------------------------------------------------
(* What is hidden *)

Reached(s) == IsMounted(s) \/ \E j \in running : j.system = s

RootStages == {"begin", "umount", "reload", "unit", "drives", "ports"}

(* Before the systems, only /storage/roms itself was mounted or asked for, *)
(* and before their first call ports_scripts at most.                      *)
RootOnly ==
  /\ stage \in RootStages =>
       phase = "first" /\ pc = "ready" /\ \A s : Reached(s) => s = Roms
  /\ phase = "first" /\ pc = "ready" =>
       /\ \A s : IsMounted(s) => s \in {Roms, Overlay}
       /\ \A j \in running : j.system = Roms

(* With drives, only systems of the first layer come before the last call. *)
AskedEarly ==
  dhelper # NoDrives /\ BeforeLater =>
    /\ \A s : IsMounted(s) => s \in Early \cup {Roms, Overlay}
    /\ \A j \in running : j.system \in Early \cup {Roms}

(* Nothing was reached inside of the units the starting loop has not come  *)
(* to, and nothing is mounted inside of what the manager works on.         *)
AheadOpen ==
  pc = "starting" =>
    \A u \in 1..Len(shelper.mounts) : u >= i /\ Selected(u) =>
      \A s : Reached(s) => <<s, shelper.mounts[u].system>> \notin Inside

RunningOpen ==
  \A j \in running : j.system # Roms =>
    \A s : IsMounted(s) => <<s, j.system>> \notin Inside

HideInv ==
  /\ CallPhases /\ RootOnly /\ AskedEarly /\ AheadOpen /\ RunningOpen
  /\ HiddenOnlyByLateRoot


(* /storage/roms and ports_scripts lie inside of nothing else. *)
LEMMA AroundOpen ==
  ASSUME MSInv, OthersElsewhere
  PROVE  /\ \A u \in 1..Len(shelper.mounts) : Selected(u) =>
              /\ shelper.mounts[u].system \in System \ {Roms}
              /\ \A s \in {Roms, Overlay} : <<s, shelper.mounts[u].system>> \notin Inside
         /\ AtSystem =>
              \A s \in {Roms, Overlay} : <<s, Considered>> \notin Inside
<1>1. \A t \in System \ {Roms} : \A s \in {Roms, Overlay} : <<s, t>> \notin Inside
  BY OutermostAssumption
<1>2. ASSUME NEW u \in 1..Len(shelper.mounts), Selected(u)
      PROVE  shelper.mounts[u].system \in System \ {Roms}
  <2>1. shelper \in Helpers /\ shelper.mounts \in Seq(Unit)
    BY HelperType DEF MSInv, IInv, TypeOK
  <2>2. shelper.mounts[u] \in Unit
    BY <2>1, ElementOfSeq
  <2> QED BY <1>2, <2>1, <2>2 DEF OthersElsewhere, Selected, Unit
<1> QED BY <1>1, <1>2, ConsideredElsewhere

(* What is mounted is a system. *)
LEMMA ReachedType == MSInv => \A s : Reached(s) => s \in System
<1> SUFFICES ASSUME MSInv, NEW s, Reached(s) PROVE s \in System
  OBVIOUS
<1>1. \A p \in 1..Len(mtab) : mtab[p].at \in System
  <2> SUFFICES ASSUME NEW p \in 1..Len(mtab) PROVE mtab[p].at \in System
    OBVIOUS
  <2>1. mtab \in Seq(Mount)
    BY DEF MSInv, IInv, TypeOK, BusTypeOK
  <2>2. mtab[p] \in Mount
    BY <2>1, ElementOfSeq
  <2> QED BY <2>2 DEF Mount
<1>2. \A j \in running : j.system \in System
  BY IdTypes DEF MSInv
<1> QED BY <1>1, <1>2 DEF Reached, IsMounted

(* One mount more, by anyone: what it makes reached, and what it hides.    *)
LEMMA OneMoreReached ==
  ASSUME MSInv, NEW t \in System, NEW by \in Provider, PutMount(t, by)
  PROVE  \A s : IsMounted(s)' => IsMounted(s) \/ s = t
<1> DEFINE m == [at |-> t, by |-> by]
<1>1. m \in Mount /\ m.at = t /\ mtab' = Append(mtab, m) /\ mtab \in Seq(Mount)
  BY DEF Mount, PutMount, MSInv, IInv, TypeOK, BusTypeOK
<1> HIDE DEF m
<1> QED BY <1>1, MountStays

LEMMA OneMoreHides ==
  ASSUME MSInv, HiddenOnlyByLateRoot, NEW t \in System, NEW by \in Provider,
         PutMount(t, by), "unit" \in rootBy' => "unit" \in rootBy,
         \/ \A s : IsMounted(s) => <<s, t>> \notin Inside
         \/ t = Roms /\ by = "unit" /\ "unit" \notin rootBy
  PROVE  HiddenOnlyByLateRoot'
<1> DEFINE m == [at |-> t, by |-> by]
<1>1. m \in Mount /\ mtab' = Append(mtab, m) /\ mtab \in Seq(Mount)
  BY DEF Mount, PutMount, MSInv, IInv, TypeOK, BusTypeOK
<1>2. m.at = t
  OBVIOUS
<1>3. t = Roms /\ by = "unit" => m = [at |-> Roms, by |-> "unit"]
  OBVIOUS
<1> HIDE DEF m
<1>4. /\ Len(mtab) \in Nat /\ Len(mtab') = Len(mtab) + 1
      /\ mtab'[Len(mtab) + 1] = m
      /\ \A p \in 1..Len(mtab) : mtab'[p] = mtab[p]
  BY <1>1, AppendProperties, LenProperties
<1> SUFFICES ASSUME NEW p \in 1..Len(mtab'), NEW q \in 1..Len(mtab'),
                    p < q, <<mtab'[p].at, mtab'[q].at>> \in Inside
             PROVE  mtab'[q] = [at |-> Roms, by |-> "unit"] /\ "unit" \notin rootBy'
  BY DEF HiddenOnlyByLateRoot
<1>5. p \in 1..Len(mtab) /\ mtab'[p] = mtab[p] /\ IsMounted(mtab[p].at)
  BY <1>4 DEF IsMounted
<1>6. CASE q \in 1..Len(mtab)
  BY <1>4, <1>5, <1>6 DEF HiddenOnlyByLateRoot
<1>7. CASE q = Len(mtab) + 1
  BY <1>2, <1>3, <1>4, <1>5, <1>7
<1> QED BY <1>4, <1>6, <1>7

(* Steps that mount nothing and ask for nothing. *)
LEMMA QuietHide ==
  ASSUME HideInv, CallPhases', UNCHANGED <<mtab, running, shelper, dhelper>>,
         "unit" \in rootBy' => "unit" \in rootBy,
         stage' \in RootStages => stage \in RootStages /\ UNCHANGED <<phase, pc>>,
         phase' = "first" /\ pc' = "ready" => phase = "first" /\ pc = "ready",
         BeforeLater' => BeforeLater,
         pc' = "starting" =>
           pc = "starting" /\ layer' = layer /\ i \in Nat /\ (i' = i \/ i' = i + 1)
  PROVE  HideInv'
<1> USE DEF HideInv
<1>1. \A s : Reached(s)' = Reached(s) /\ IsMounted(s)' = IsMounted(s)
  BY DEF Reached, IsMounted
<1>2. RootOnly'
  BY <1>1 DEF RootOnly
<1>3. AskedEarly'
  <2>1. Early' = Early
    BY DEF Early, Offered
  <2> QED BY <1>1, <2>1 DEF AskedEarly
<1>4. AheadOpen'
  <2> SUFFICES ASSUME pc' = "starting" PROVE AheadOpen'
    BY DEF AheadOpen
  <2>1. \A u : Selected(u)' = Selected(u)
    BY DEF Selected, Matches
  <2>2. \A u \in 1..Len(shelper.mounts) : u >= i' => u >= i
    OBVIOUS
  <2> QED BY <1>1, <2>1, <2>2 DEF AheadOpen
<1>5. RunningOpen' /\ HiddenOnlyByLateRoot'
  BY <1>1 DEF RunningOpen, HiddenOnlyByLateRoot
<1> QED BY <1>2, <1>3, <1>4, <1>5


(* The first mounts, of /storage/roms and ports_scripts. *)
LEMMA FirstHide ==
  ASSUME HideInv, CallPhases', stage \in RootStages,
         UNCHANGED <<phase, pc, shelper, dhelper>>, HiddenOnlyByLateRoot',
         \A j \in running' : j \in running \/ j.system = Roms,
         \A s : IsMounted(s)' =>
           IsMounted(s) \/ s = Roms \/ (s = Overlay /\ stage' \notin RootStages)
  PROVE  HideInv'
<1> USE DEF HideInv
<1>1. phase = "first" /\ pc = "ready" /\ \A s : Reached(s) => s = Roms
  BY DEF RootOnly
<1>2. /\ \A s : IsMounted(s) => s = Roms
      /\ \A j \in running' : j.system = Roms
  BY <1>1 DEF Reached
<1>3. RootOnly'
  BY <1>1, <1>2 DEF RootOnly, Reached
<1>4. AskedEarly' /\ AheadOpen' /\ RunningOpen'
  BY <1>1, <1>2 DEF AskedEarly, AheadOpen, RunningOpen
<1> QED BY <1>3, <1>4

LEMMA MainFirstHide ==
  ASSUME MSInv, RootInv, HideInv, CallPhases',
         RootUnitStarted \/ RootUnitFails \/ RootDrive
           \/ (RootEEROMS /\ PutMount(Roms, "EEROMS"))
           \/ (MountPortsScripts /\ PutMount(Overlay, "overlay"))
  PROVE  HideInv'
<1>1. /\ Roms \in System /\ Overlay \in System
      /\ <<Roms, Roms>> \notin Inside /\ <<Roms, Overlay>> \notin Inside
  BY OverlayAssumption, OutermostAssumption
<1>2. stage \in RootStages /\ UNCHANGED <<phase, pc, shelper, dhelper>>
  BY DEF RootUnitStarted, RootUnitFails, RootDrive, RootEEROMS, MountPortsScripts,
         RestIdle, Go, RootStages, driveVars
<1>3. \A s : IsMounted(s) => s = Roms
  BY <1>2 DEF HideInv, RootOnly, Reached
<1>4. \A j \in running' : j \in running \/ j.system = Roms
  BY DEF RootUnitStarted, RootUnitFails, RootDrive, RootEEROMS, MountPortsScripts,
         NoJob, Reject
<1>5. CASE RootUnitFails
  <2>1. mtab' = mtab /\ rootBy' = rootBy
    BY <1>5 DEF RootUnitFails
  <2>2. HiddenOnlyByLateRoot' /\ \A s : IsMounted(s)' = IsMounted(s)
    BY <2>1 DEF HideInv, HiddenOnlyByLateRoot, IsMounted
  <2> QED BY <1>2, <1>4, <2>2, FirstHide
<1>6. CASE RootUnitStarted
  <2>1. PutMount(Roms, "unit") /\ "unit" \in Provider /\ mtab = <<>>
    BY <1>6 DEF RootUnitStarted, Go, Provider, RootInv, OneRoot, Untouched
  <2>2. Len(mtab') = 1
    BY <2>1 DEF PutMount
  <2>3. HiddenOnlyByLateRoot'
    BY <2>2 DEF HiddenOnlyByLateRoot
  <2>4. \A s : IsMounted(s)' => IsMounted(s) \/ s = Roms
    BY <1>1, <2>1, OneMoreReached
  <2> QED BY <1>2, <1>4, <2>3, <2>4, FirstHide
<1>7. CASE RootDrive \/ (RootEEROMS /\ PutMount(Roms, "EEROMS"))
  <2>1. PICK by \in Provider : PutMount(Roms, by)
    BY <1>7 DEF RootDrive, Provider
  <2>2. "unit" \in rootBy' => "unit" \in rootBy
    BY <1>7 DEF RootDrive, RootEEROMS
  <2>3. HiddenOnlyByLateRoot'
    BY <1>1, <1>3, <2>1, <2>2, OneMoreHides DEF HideInv
  <2>4. \A s : IsMounted(s)' => IsMounted(s) \/ s = Roms
    BY <1>1, <2>1, OneMoreReached
  <2> QED BY <1>2, <1>4, <2>3, <2>4, FirstHide
<1>8. CASE MountPortsScripts /\ PutMount(Overlay, "overlay")
  <2>1. "overlay" \in Provider /\ rootBy' = rootBy /\ stage' \notin RootStages
    BY <1>8 DEF Provider, MountPortsScripts, Go, RootStages
  <2>2. HiddenOnlyByLateRoot'
    BY <1>1, <1>3, <1>8, <2>1, OneMoreHides DEF HideInv
  <2>3. \A s : IsMounted(s)' => IsMounted(s) \/ s = Overlay
    BY <1>1, <1>8, <2>1, OneMoreReached
  <2> QED BY <1>2, <1>4, <2>1, <2>2, <2>3, FirstHide
<1> QED BY <1>5, <1>6, <1>7, <1>8

LEMMA MainQuietHide ==
  ASSUME MSInv, HideInv, CallPhases',
         Idle \/ Release \/ UNCHANGED routineVars
           \/ (RootEEROMS /\ UNCHANGED mtab) \/ (MountPortsScripts /\ UNCHANGED mtab)
  PROVE  HideInv'
<1> USE DEF Idle, Release, RootEEROMS, MountPortsScripts, SystemsIdle, RestIdle, NoJob,
            routineVars, mainVars, allVars, vars, busVars, localVars, driveVars
<1>1. UNCHANGED <<mtab, running, shelper, dhelper, phase, pc, layer, i>>
  OBVIOUS
<1>2. "unit" \in rootBy' => "unit" \in rootBy
  OBVIOUS
<1>3. stage' \in RootStages => stage \in RootStages
  BY DEF RootStages, InitBusFails, StopSmbd, Umount, Cancel, Reload, RootByNobody,
         RoutineReturns, StartSmbd, Go
<1>4. BeforeLater' = BeforeLater
  BY <1>1 DEF BeforeLater
<1>5. i \in Nat
  BY DEF MSInv, IInv, TypeOK
<1> QED BY <1>1, <1>2, <1>3, <1>4, <1>5, QuietHide


(* The steps of the systems that mount nothing and ask for nothing. *)
LEMMA SystemsQuietHide ==
  ASSUME MSInv, HideInv, CallPhases', stage \notin RootStages, UNCHANGED mainVars,
         \/ UnitCall /\ ~StartUnit /\ ~StartUnitFails
         \/ NoFirstCall \/ FirstCallReturned \/ Omit \/ BindFails \/ NextDrive
         \/ DrivesDone \/ LaterCallReturned
  PROVE  HideInv'
<1>1. UNCHANGED <<stage, rootBy>>
  BY DEF mainVars
<1>2. i \in Nat
  BY DEF MSInv, IInv, TypeOK
<1>3. CASE UnitCall /\ ~StartUnit /\ ~StartUnitFails
  <2>1. UNCHANGED <<phase, dhelper>> /\ InCall
    BY <1>3 DEF UnitCall, driveVars
  <2>2. /\ UNCHANGED <<mtab, running, shelper, layer>>
        /\ pc' = "starting" => pc = "starting" /\ (i' = i \/ i' = i + 1)
    BY <1>3, <2>1 DEF InCall, SkipUnit, StartedAll, Receive, Wait, Return,
       ReceiveUnreadable, RereadDisconnected, ReceiveOther, ReceiveOurs,
       OutOfMemoryOnOurs, CountUnreadable, busVars, localVars
  <2>3. pc' # "ready"
    BY <2>1, InCallQuiet
  <2>4. BeforeLater' => BeforeLater
    BY <2>1, <2>3 DEF BeforeLater
  <2> QED BY <1>1, <1>2, <2>1, <2>2, <2>3, <2>4, QuietHide
<1>4. CASE NoFirstCall \/ FirstCallReturned \/ Omit \/ BindFails \/ NextDrive
             \/ DrivesDone \/ LaterCallReturned
  <2>1. /\ UNCHANGED <<mtab, running, shelper, layer, i, dhelper>>
        /\ phase' = "first" /\ pc' = "ready" => phase = "first" /\ pc = "ready"
        /\ BeforeLater' => BeforeLater
        /\ pc' = "starting" => pc = "starting"
    BY <1>4 DEF NoFirstCall, FirstCallReturned, Omit, BindFails, NextDrive, DrivesDone,
       AtSystem, LaterCallReturned, EnterDrives, LeaveDrives, NextSystem, vars,
       busVars, localVars, driveVars, BeforeLater
  <2> QED BY <1>1, <1>2, <2>1, QuietHide
<1> QED BY <1>3, <1>4

(* A call finds nothing inside of the units it is to start. *)
LEMMA CallHides ==
  ASSUME MSInv, HideInv, CallPhases', OthersElsewhere, stage \notin RootStages,
         UNCHANGED mainVars, FirstCall \/ LaterCall
  PROVE  HideInv'
<1> USE DEF HideInv
<1>1. /\ pc = "ready" /\ pc' \in {"starting", "returned"} /\ i' = 1
      /\ UNCHANGED <<mtab, running, shelper, dhelper, phase, stage, rootBy>>
      /\ \/ phase = "first"
         \/ phase = "later" /\ layer' = "2+" /\ dhelper # NoDrives
  BY DEF FirstCall, LaterCall, Call, busVars, driveVars, mainVars, CallPhases
<1>2. \A s : Reached(s)' = Reached(s) /\ IsMounted(s)' = IsMounted(s)
  BY <1>1 DEF Reached, IsMounted
<1>3. RootOnly' /\ RunningOpen' /\ HiddenOnlyByLateRoot'
  BY <1>1, <1>2 DEF RootOnly, RunningOpen, HiddenOnlyByLateRoot
<1>4. AskedEarly'
  <2>1. Early' = Early
    BY <1>1 DEF Early, Offered
  <2> QED BY <1>1, <1>2, <2>1 DEF AskedEarly, BeforeLater
<1>5. AheadOpen'
  <2> SUFFICES ASSUME NEW u \in 1..Len(shelper.mounts), Selected(u)', NEW s, Reached(s)
               PROVE  <<s, shelper.mounts[u].system>> \notin Inside
    BY <1>1, <1>2 DEF AheadOpen
  <2>1. s \in {Roms, Overlay} => <<s, shelper.mounts[u].system>> \notin Inside
    <3>1. u # shelper.root /\ shelper \in Helpers /\ shelper.mounts \in Seq(Unit)
      BY <1>1, HelperType DEF Selected, MSInv, IInv, TypeOK
    <3>2. shelper.mounts[u] \in Unit
      BY <3>1, ElementOfSeq
    <3>3. shelper.mounts[u].system \in System \ {Roms}
      BY <3>1, <3>2 DEF OthersElsewhere, Unit
    <3> QED BY <3>3, OutermostAssumption
  <2>2. CASE phase = "first"
    BY <1>1, <2>1, <2>2 DEF RootOnly, Reached
  <2>3. CASE phase = "later" /\ layer' = "2+" /\ dhelper # NoDrives
    <3>1. s \in Early \/ s \in {Roms, Overlay}
      BY <1>1, <2>3 DEF AskedEarly, BeforeLater, Reached
    <3>2. shelper.mounts[u].layer > 1 /\ shelper.mounts[u].layer \in Nat
      <4>1. Matches("2+", shelper.mounts[u])
        BY <1>1, <2>3 DEF Selected
      <4> QED BY <4>1, HelperType DEF Matches, MSInv
    <3>3. s \in Early => OfFirstLayer(s, shelper)
      BY EarlyOrder
    <3>4. s \in Early /\ <<s, shelper.mounts[u].system>> \in Inside
            => shelper.mounts[u].layer = 0
      BY <3>3 DEF OfFirstLayer
    <3> QED BY <2>1, <3>1, <3>2, <3>4
  <2> QED BY <1>1, <2>2, <2>3
<1> QED BY <1>3, <1>4, <1>5

LEMMA StartHides ==
  ASSUME MSInv, HideInv, CallPhases', stage \notin RootStages, UNCHANGED mainVars,
         StartUnit \/ StartUnitFails, UNCHANGED <<phase, dhelper>>
  PROVE  HideInv'
<1> USE DEF HideInv
<1> DEFINE t == shelper.mounts[i].system
<1> DEFINE new == [id |-> nextJob, system |-> t]
<1>1. /\ pc = "starting" /\ Selected(i) /\ i \in 1..Len(shelper.mounts)
      /\ running' \subseteq running \cup {new}
      /\ UNCHANGED <<mtab, shelper, layer, stage, rootBy>>
      /\ pc' = "returned" \/ (pc' = "starting" /\ i' = i + 1)
  BY HelperType DEF StartUnit, StartUnitFails, Accept, Reject, Return, mainVars,
     MSInv, IInv, TypeOK
<1>2. new.system = t
  OBVIOUS
<1> HIDE DEF new, t
<1>3. \A j \in running' : j \in running \/ j.system = t
  BY <1>1, <1>2
<1>4. /\ \A s : IsMounted(s)' = IsMounted(s)
      /\ \A s : Reached(s)' => Reached(s) \/ s = t
  BY <1>1, <1>3 DEF Reached, IsMounted
<1>5. \A s : Reached(s) => <<s, t>> \notin Inside
  BY <1>1 DEF AheadOpen, t
<1>6. RootOnly' /\ HiddenOnlyByLateRoot'
  BY <1>1 DEF RootOnly, HiddenOnlyByLateRoot
<1>7. AskedEarly'
  <2> SUFFICES ASSUME dhelper # NoDrives, phase \in {"first", "drives"}
               PROVE  AskedEarly'
    BY <1>1 DEF AskedEarly, BeforeLater
  <2>1. phase = "first" /\ layer = "1"
    BY <1>1 DEF CallPhases, InUnitCall, FirstLayer
  <2>2. shelper.mounts[i].layer = 1
    BY <1>1, <2>1 DEF Selected, Matches
  <2>3. t \in Early /\ Early' = Early
    BY <1>1, <2>2 DEF Early, Offered, t
  <2> QED BY <1>3, <1>4, <2>1, <2>3 DEF AskedEarly, BeforeLater
<1>8. AheadOpen'
  <2> SUFFICES ASSUME NEW u \in 1..Len(shelper.mounts), u >= i + 1, Selected(u),
                      NEW s, Reached(s)'
               PROVE  <<s, shelper.mounts[u].system>> \notin Inside
    BY <1>1 DEF AheadOpen, Selected, Matches
  <2>1. u >= i /\ ~(u < i)
    BY <1>1
  <2>2. CASE Reached(s)
    BY <1>1, <2>1, <2>2 DEF AheadOpen
  <2>3. <<t, shelper.mounts[u].system>> \notin Inside
    BY <1>1, <2>1, UnitOrder DEF InOrder, t
  <2> QED BY <1>4, <2>2, <2>3
<1>9. RunningOpen'
  BY <1>3, <1>4, <1>5 DEF RunningOpen, Reached
<1> QED BY <1>6, <1>7, <1>8, <1>9


LEMMA BindHides ==
  ASSUME MSInv, HideInv, CallPhases', OthersElsewhere, stage \notin RootStages,
         UNCHANGED mainVars, Bind \/ BindOutOfMemory
  PROVE  HideInv'
<1> USE DEF HideInv
<1>1. /\ Considered \in System /\ PutMount(Considered, "drive") /\ "drive" \in Provider
      /\ \A s : IsMounted(s)' => IsMounted(s) \/ s = Considered
      /\ UNCHANGED <<running, shelper, dhelper, stage, rootBy>>
      /\ phase = "drives" /\ AtSystem /\ ~InUnitCall'
  BY BindEffect DEF mainVars, Provider
<1>2. dhelper # NoDrives
  BY <1>1 DEF CallPhases
<1>3. /\ \A s : IsMounted(s) => s \in Early \cup {Roms, Overlay}
      /\ \A j \in running : j.system \in Early \cup {Roms}
  BY <1>1, <1>2 DEF AskedEarly, BeforeLater
<1>4. Considered \in Early
  <2>1. d \in 1..Len(dhelper) /\ n \in 1..Len(dhelper[d])
    BY <1>1, LoopTypes DEF AtSystem
  <2> QED BY <2>1 DEF Early, Offered, Considered
<1>5. /\ \A x, y \in Early : <<x, y>> \notin Inside
      /\ \A s \in {Roms, Overlay} : <<s, Considered>> \notin Inside
  BY <1>1, EarlyOrder, AroundOpen
<1>6. HiddenOnlyByLateRoot'
  <2>1. \A s : IsMounted(s) => <<s, Considered>> \notin Inside
    BY <1>3, <1>4, <1>5
  <2> QED BY <1>1, <2>1, OneMoreHides
<1>7. RunningOpen'
  <2> SUFFICES ASSUME NEW j \in running, j.system # Roms, NEW s, IsMounted(s)'
               PROVE  <<s, j.system>> \notin Inside
    BY <1>1 DEF RunningOpen
  <2>1. CASE IsMounted(s)
    BY <2>1 DEF RunningOpen
  <2>2. CASE s = Considered
    BY <1>3, <1>4, <1>5, <2>2
  <2> QED BY <1>1, <2>1, <2>2
<1>8. AskedEarly'
  <2>1. Early' = Early
    BY <1>1 DEF Early, Offered
  <2> QED BY <1>1, <1>3, <1>4, <2>1 DEF AskedEarly
<1>9. RootOnly' /\ AheadOpen'
  <2>1. phase' # "first"
    BY DEF Bind, BindOutOfMemory, LeaveDrives, AtSystem
  <2> QED BY <1>1, <2>1 DEF RootOnly, AheadOpen, InUnitCall
<1> QED BY <1>6, <1>7, <1>8, <1>9

LEMMA ManagerHides ==
  ASSUME MSInv, RootInv, HideInv, CallPhases', MainManager
  PROVE  HideInv'
<1> USE DEF HideInv
<1>1. UNCHANGED <<localVars, pc, shelper, layer, phase, dhelper, stage, rootBy>>
  BY DEF MainManager, ManagerStep, Manager, driveVars, mainVars
<1>2. UNCHANGED i /\ i \in Nat
  BY <1>1 DEF localVars, MSInv, IInv, TypeOK
<1>3. CASE ForeignJobRemoved(Heard) \/ Hangup
  <2>1. UNCHANGED <<running, mtab>>
    BY <1>3, OthersReportNothing DEF MSInv
  <2>2. BeforeLater' = BeforeLater
    BY <1>1 DEF BeforeLater
  <2> QED BY <1>1, <1>2, <2>1, <2>2, QuietHide
<1>4. CASE RemoveJob(Heard)
  <2>1. PICK j \in running :
          /\ running' = running \ {j}
          /\ mtab' = mtab \/ (PutMount(j.system, "unit") /\ IsDue(j.system))
    BY <1>4 DEF RemoveJob, RemoveJobAs
  <2>2. j.system \in System /\ "unit" \in Provider
    BY IdTypes DEF MSInv, Provider
  <2>3. \A s : IsMounted(s)' => IsMounted(s) \/ (s = j.system /\ IsDue(j.system))
    <3>1. CASE mtab' = mtab
      BY <3>1 DEF IsMounted
    <3>2. CASE PutMount(j.system, "unit") /\ IsDue(j.system)
      BY <2>2, <3>2, OneMoreReached
    <3> QED BY <2>1, <3>1, <3>2
  <2>4. \A s : Reached(s)' => Reached(s)
    BY <2>1, <2>3 DEF Reached
  <2>5. RootOnly'
    BY <1>1, <2>1, <2>3, <2>4 DEF RootOnly
  <2>6. AskedEarly'
    <3>1. Early' = Early /\ BeforeLater' = BeforeLater
      BY <1>1 DEF Early, Offered, BeforeLater
    <3> QED BY <1>1, <2>1, <2>3, <3>1 DEF AskedEarly
  <2>7. AheadOpen'
    <3>1. \A u : Selected(u)' = Selected(u)
      BY <1>1 DEF Selected, Matches
    <3> QED BY <1>1, <1>2, <2>4, <3>1 DEF AheadOpen
  <2>8. RunningOpen'
    <3> SUFFICES ASSUME NEW a \in running', a.system # Roms, NEW s, IsMounted(s)'
                 PROVE  <<s, a.system>> \notin Inside
      BY DEF RunningOpen
    <3>1. CASE IsMounted(s)
      BY <2>1, <3>1 DEF RunningOpen
    <3>2. CASE s = j.system /\ IsDue(j.system)
      BY <2>1, <3>2 DEF IsDue
    <3> QED BY <2>3, <3>1, <3>2
  <2>9. HiddenOnlyByLateRoot'
    <3>1. CASE mtab' = mtab
      BY <1>1, <3>1 DEF HiddenOnlyByLateRoot
    <3>2. CASE PutMount(j.system, "unit")
      <4>1. j.system = Roms => "unit" \notin rootBy
        BY DEF RootInv, OneRoot
      <4>2. j.system # Roms => \A s : IsMounted(s) => <<s, j.system>> \notin Inside
        BY DEF RunningOpen
      <4> QED BY <1>1, <2>2, <3>2, <4>1, <4>2, OneMoreHides
    <3> QED BY <2>1, <3>1, <3>2
  <2> QED BY <2>5, <2>6, <2>7, <2>8, <2>9
<1> QED BY <1>3, <1>4 DEF MainManager, ManagerStep, Manager, Environment

LEMMA MainCallPhases ==
  ASSUME MSInv, CallPhases, [MainNext]_routineVars
  PROVE  CallPhases'
<1>1. CASE MountSystemsStep \/ MainManager
  BY <1>1, CallPhasesKeep DEF MountSystemsStep, MainManager, MSNext
<1>2. CASE ~(MountSystemsStep \/ MainManager)
  <2>1. UNCHANGED <<phase, pc, shelper, dhelper, layer>>
    BY <1>2 DEF MainNext, MainProgram, InitBusFails, StopSmbd, Umount, Cancel, Reload,
       RootUnitStarted, RootUnitFails, RootDrive, RootEEROMS, RootByNobody,
       MountPortsScripts, RoutineReturns, StartSmbd, Release, SystemsIdle, RestIdle,
       routineVars, allVars, vars, driveVars
  <2> QED BY <2>1 DEF CallPhases, InUnitCall, FirstLayer
<1> QED BY <1>1, <1>2

LEMMA HideKeeps ==
  ASSUME OthersElsewhere, MSInv, RootInv, HideInv, [MainNext]_routineVars
  PROVE  HideInv'
<1>1. CallPhases'
  BY MainCallPhases DEF HideInv
<1>2. CASE MountSystemsStep
  <2>1. Program /\ UNCHANGED mainVars /\ stage \notin RootStages
    BY <1>2 DEF MountSystemsStep, RootStages
  <2>2. CASE FirstCall \/ LaterCall
    BY <1>1, <2>1, <2>2, CallHides
  <2>3. CASE Bind \/ BindOutOfMemory
    BY <1>1, <2>1, <2>3, BindHides
  <2>4. CASE UnitCall /\ (StartUnit \/ StartUnitFails)
    <3>1. UNCHANGED <<phase, dhelper>>
      BY <2>4 DEF UnitCall, driveVars
    <3> QED BY <1>1, <2>1, <2>4, <3>1, StartHides
  <2>5. CASE \/ UnitCall /\ ~StartUnit /\ ~StartUnitFails
             \/ NoFirstCall \/ FirstCallReturned \/ Omit \/ BindFails \/ NextDrive
             \/ DrivesDone \/ LaterCallReturned
    BY <1>1, <2>1, <2>5, SystemsQuietHide
  <2> QED BY <2>1, <2>2, <2>3, <2>4, <2>5 DEF Program
<1>3. CASE MainManager
  BY <1>1, <1>3, ManagerHides
<1>4. CASE \/ RootUnitStarted \/ RootUnitFails \/ RootDrive
           \/ RootEEROMS /\ PutMount(Roms, "EEROMS")
           \/ MountPortsScripts /\ PutMount(Overlay, "overlay")
  BY <1>1, <1>4, MainFirstHide
<1>5. CASE \/ Idle \/ Release \/ UNCHANGED routineVars
           \/ RootEEROMS /\ UNCHANGED mtab
           \/ MountPortsScripts /\ UNCHANGED mtab
  BY <1>1, <1>5, MainQuietHide
<1> QED BY <1>2, <1>3, <1>4, <1>5, MainSteps

LEMMA InitHide == MainInit => RootInv /\ HideInv
<1> SUFFICES ASSUME MainInit PROVE RootInv /\ HideInv
  OBVIOUS
<1>1. Untouched /\ Len(mtab) = 0
  BY InitUntouched DEF Untouched
<1>2. pc = "ready" /\ phase = "first" /\ stage = "begin" /\ rootBy = {}
  BY DEF MainInit, MSInit, Init
<1>3. RootInv
  BY <1>1, <1>2 DEF RootInv, OneRoot, RootProvidedOnce
<1>4. \A s : ~Reached(s) /\ ~IsMounted(s)
  BY <1>1 DEF Reached, IsMounted, Untouched
<1>5. CallPhases /\ RootOnly
  BY <1>1, <1>2, <1>4 DEF CallPhases, InUnitCall, RootOnly, Untouched
<1>6. AskedEarly /\ AheadOpen /\ RunningOpen /\ HiddenOnlyByLateRoot
  BY <1>1, <1>2, <1>4 DEF AskedEarly, AheadOpen, RunningOpen, HiddenOnlyByLateRoot, Untouched
<1> QED BY <1>3, <1>5, <1>6 DEF HideInv

(* Through the whole program a mount hides others in one case only: the    *)
(* root unit's job was given up on, something else provided /storage/roms, *)
(* and the job mounted after all (eemount.c:376, 497-511).                 *)
THEOREM OnlyLateRootHides ==
  ASSUME OthersElsewhere
  PROVE  MainSpec => []HiddenOnlyByLateRoot
<1>1. MSInv /\ RootInv /\ HideInv /\ [MainNext]_routineVars => RootInv' /\ HideInv'
  BY RootInvKeeps, HideKeeps
<1>2. HideInv => HiddenOnlyByLateRoot
  BY DEF HideInv
<1> QED BY <1>1, <1>2, InitHide, MainInitInv, MainNextKeeps, PTL DEF MainSpec


=============================================================================
