------------------------------ MODULE MountRoot ------------------------------
(***************************************************************************)
(* eemount_mount_root (src/src/eemount.c): /storage/roms is provided by    *)
(* the root unit, or by the first drive that offers all of itself, or by   *)
(* the EEROMS partition, which otherwise goes to /var/media/EEROMS; then   *)
(* the .update directory of EEROMS is bound to /storage/.update.           *)
(*                                                                         *)
(* The call on the root unit is that of UnitCalls: it may return while the *)
(* manager still works on its job.  Each test of the mount table and each  *)
(* mount is one step, and the job may end between any two.                 *)
(***************************************************************************)
EXTENDS Integers, Sequences

CONSTANTS
  Starts,      \* the mount tables the routine may begin with
  Partitions,  \* the partitions there are
  Labelled,    \* those with the label EEROMS
  MaxDrives    \* bound: drives

(* A block device, by its disk and the number its name ends with; 0 stands *)
(* for a name that ends otherwise, like /dev/data or a network share.      *)
Device == [disk : STRING, part : Nat]
NoDevice == [disk |-> "", part |-> 0]

Place == {"flash", "storage", "update", "eeroms", "roms"}
Maker == {"init", "unit", "drive", "EEROMS", "bind"}
Entry == [at : Place, by : Maker, dev : Device \cup {NoDevice}]

ASSUME StartsAssumption ==
  \A t \in Starts :
    t \in Seq(Entry) /\ \A k \in 1..Len(t) : t[k].at # "roms" /\ t[k].by = "init"
ASSUME PartitionsAssumption == Labelled \subseteq Partitions /\ Partitions \subseteq Device
ASSUME DrivesAssumption == MaxDrives \in Nat

VARIABLES
  mtab,      \* the mount table
  rootUnit,  \* whether there is a root unit
  rootJob,   \* its job, once given up on: "none", "running", "over"
  drives,    \* for each drive, whether it offers all of itself (count is 0)
  pc,        \* where the program is
  d,         \* the drive it considers
  target,    \* where EEROMS is to be mounted
  table,     \* the snapshot the sources of EEROMS are looked up in
  ret,       \* what the call returned; 2 while it has not
  fault      \* history: a system call or an allocation failed, but the bind
             \* of a drive, or EEROMS could not be mounted from a partition
             \* that is there

vars == <<mtab, rootUnit, rootJob, drives, pc, d, target, table, ret, fault>>

-----------------------------------------------------------------------------

IsMountPoint(t, at) == \E k \in 1..Len(t) : t[k].at = at

(* The first entry at a mount point, as the table lists them. *)
FindEntry(t, at) ==
  t[CHOOSE k \in 1..Len(t) : t[k].at = at /\ \A m \in 1..(k - 1) : t[m].at # at]

(* What a path at a mount point leads to: the last mount made there. *)
OnTop(at) ==
  mtab[CHOOSE k \in 1..Len(mtab) :
         mtab[k].at = at /\ \A m \in (k + 1)..Len(mtab) : mtab[m].at # at]

Put(at, by, dev) == mtab' = Append(mtab, [at |-> at, by |-> by, dev |-> dev])

GoTo(where) == pc' = where
Step(from, to) == pc = from /\ GoTo(to)
Return(value) == GoTo("returned") /\ ret' = value
Configuration == <<rootUnit, drives>>

-----------------------------------------------------------------------------
(* Who provides /storage/roms *)

Mkdir ==
  /\ pc = "begin"
  /\ \/ GoTo(IF rootUnit THEN "unit" ELSE "drives") /\ UNCHANGED <<ret, fault>>
     \/ Return(-1) /\ fault' = TRUE
  /\ UNCHANGED <<mtab, Configuration, rootJob, d, target, table>>

UnitStartedMutant ==
  /\ Step("unit", "mkdir")
  /\ Put("roms", "unit", NoDevice)
  /\ UNCHANGED <<Configuration, rootJob, d, target, table, ret, fault>>

UnitStarted ==
  /\ Step("unit", "mkdir")
  /\ Put("roms", "unit", NoDevice)
  /\ target' = "eeroms"
  /\ UNCHANGED <<Configuration, rootJob, d, table, ret, fault>>

(* The job failed, or the program gave up on it. *)
UnitNotStarted ==
  /\ Step("unit", "drives")
  /\ rootJob' \in {"none", "running"}
  /\ UNCHANGED <<mtab, Configuration, d, target, table, ret, fault>>

(* It does not offer all of itself, or it could not be bound.              *)
NextDrive ==
  /\ pc = "drives" /\ d <= Len(drives)
  /\ d' = d + 1
  /\ UNCHANGED <<mtab, Configuration, rootJob, pc, target, table, ret, fault>>

BindDrive ==
  /\ Step("drives", "mkdir") /\ d <= Len(drives) /\ drives[d]
  /\ Put("roms", "drive", NoDevice)
  /\ target' = "eeroms"
  /\ UNCHANGED <<Configuration, rootJob, d, table, ret, fault>>

NoDriveLeft ==
  /\ Step("drives", "mkdir") /\ d > Len(drives)
  /\ target' = "roms"
  /\ UNCHANGED <<mtab, Configuration, rootJob, d, table, ret, fault>>

-----------------------------------------------------------------------------
(* eemount_mount_partition_eeroms *)

(* In the place of /storage/roms EEROMS is the last resort; in its own it  *)
(* is wanted, and nothing is lost without it.                              *)
EEROMSFailsMutant == Return(0)
EEROMSFails == Return(IF target = "roms" THEN 1 ELSE 0)

EEROMSMkdir ==
  /\ pc = "mkdir"
  /\ \/ GoTo("check") /\ UNCHANGED <<ret, fault>>
     \/ EEROMSFails /\ fault' = TRUE
  /\ UNCHANGED <<mtab, Configuration, rootJob, d, target, table>>

AlreadyMountedMutant == FALSE
AlreadyMounted == IsMountPoint(mtab, target)

(* A table that cannot be read has no mount points. *)
CheckTarget ==
  /\ pc = "check"
  /\ \/ GoTo(IF AlreadyMounted THEN "updateCheck" ELSE "context") /\ UNCHANGED fault
     \/ GoTo("context") /\ fault' = TRUE
  /\ UNCHANGED <<mtab, Configuration, rootJob, d, target, table, ret>>

(* The context and the table the partition is looked up in. *)
Prepare ==
  /\ pc = "context"
  /\ \/ GoTo("update") /\ table' = mtab /\ UNCHANGED <<ret, fault>>
     \/ GoTo("label") /\ fault' = TRUE /\ UNCHANGED <<table, ret>>
     \/ EEROMSFails /\ fault' = TRUE /\ UNCHANGED table
  /\ UNCHANGED <<mtab, Configuration, rootJob, d, target>>

(* One try: device dev is mounted; or it is not, the context is made fit   *)
(* for the next try, and that may fail too.                                *)
TryMount(dev, next) ==
  /\ \/ dev \in Partitions /\ Put(target, "EEROMS", dev)
        /\ GoTo("updateCheck") /\ UNCHANGED <<ret, fault>>
     \/ GoTo(next) /\ fault' = (fault \/ dev \in Partitions) /\ UNCHANGED <<mtab, ret>>
     \/ EEROMSFails /\ fault' = TRUE /\ UNCHANGED mtab
  /\ UNCHANGED <<Configuration, rootJob, d, target, table>>

Skip(next) ==
  /\ GoTo(next)
  /\ UNCHANGED <<mtab, Configuration, rootJob, d, target, table, ret, fault>>

(* The partition that provides /storage/.update. *)
TryUpdate ==
  /\ pc = "update"
  /\ IF IsMountPoint(table, "update")
     THEN TryMount(FindEntry(table, "update").dev, "flash")
     ELSE Skip("flash")

(* The last digit of the name is made 3. *)
ThirdMutant(dev) == dev
Third(dev) == [dev EXCEPT !.part = (dev.part \div 10) * 10 + 3]
EndsWithDigit(dev) == dev.part % 10 # 0

(* The drive that /flash or /storage is on. *)
TryBootDrive(at, next) ==
  /\ pc = at
  /\ IF IsMountPoint(table, at) /\ EndsWithDigit(FindEntry(table, at).dev)
     THEN \/ TryMount(Third(FindEntry(table, at).dev), next)
          \/ GoTo(next) /\ fault' = TRUE   \* no memory for the name
             /\ UNCHANGED <<mtab, Configuration, rootJob, d, target, table, ret>>
     ELSE Skip(next)

TryLabel ==
  /\ pc = "label"
  /\ \/ \E dev \in Labelled : Put(target, "EEROMS", dev)
        /\ GoTo("updateCheck") /\ UNCHANGED <<ret, fault>>
     \/ EEROMSFails /\ fault' = (fault \/ Labelled # {}) /\ UNCHANGED mtab
  /\ UNCHANGED <<Configuration, rootJob, d, target, table>>

-----------------------------------------------------------------------------
(* eemount_mount_dir_update; what it returns is not used *)

UpdateCheck ==
  /\ pc = "updateCheck"
  /\ \/ IsMountPoint(mtab, "update") /\ Return(0) /\ UNCHANGED fault
     \/ ~IsMountPoint(mtab, "update") /\ GoTo("updateBind") /\ UNCHANGED <<ret, fault>>
     \/ GoTo("updateBind") /\ fault' = TRUE /\ UNCHANGED ret
  /\ UNCHANGED <<mtab, Configuration, rootJob, d, target, table>>

UpdateBind ==
  /\ pc = "updateBind"
  /\ \/ Put("update", "bind", OnTop(target).dev) /\ UNCHANGED fault
     \/ fault' = TRUE /\ UNCHANGED mtab
  /\ Return(0)
  /\ UNCHANGED <<Configuration, rootJob, d, target, table>>

-----------------------------------------------------------------------------

Program ==
  \/ Mkdir \/ UnitStarted \/ UnitNotStarted
  \/ NextDrive \/ BindDrive \/ NoDriveLeft
  \/ EEROMSMkdir \/ CheckTarget \/ Prepare
  \/ TryUpdate \/ TryBootDrive("flash", "storage") \/ TryBootDrive("storage", "label")
  \/ TryLabel
  \/ UpdateCheck \/ UpdateBind

(* The job the program gave up on ends. *)
RootJobEnds ==
  /\ rootJob = "running"
  /\ rootJob' = "over"
  /\ Put("roms", "unit", NoDevice) \/ UNCHANGED mtab
  /\ UNCHANGED <<Configuration, pc, d, target, table, ret, fault>>

Init ==
  /\ mtab \in Starts
  /\ rootUnit \in BOOLEAN /\ rootJob = "none"
  /\ drives \in UNION {[1..n -> BOOLEAN] : n \in 0..MaxDrives}
  /\ pc = "begin" /\ d = 1 /\ target = "roms" /\ table = <<>>
  /\ ret = 2 /\ fault = FALSE

Next == Program \/ RootJobEnds

Spec == Init /\ [][Next]_vars

-----------------------------------------------------------------------------
(* Properties *)

TypeOK ==
  /\ mtab \in Seq(Entry) /\ table \in Seq(Entry)
  /\ rootUnit \in BOOLEAN /\ rootJob \in {"none", "running", "over"}
  /\ drives \in Seq(BOOLEAN) /\ d \in 1..(Len(drives) + 1)
  /\ pc \in {"begin", "unit", "drives", "mkdir", "check", "context", "update",
             "flash", "storage", "label", "updateCheck", "updateBind", "returned"}
  /\ target \in {"roms", "eeroms"}
  /\ ret \in {0, 1, 2, -1} /\ fault \in BOOLEAN

(* The call returns 0 if and only if something provides /storage/roms,     *)
(* through all of its fallbacks; only the end of a job it gave up on can   *)
(* make that untrue (eemount.c:369-409).                                   *)
RootAsReturned ==
  pc = "returned" /\ rootJob = "none" => (ret = 0 <=> IsMountPoint(mtab, "roms"))

(* Nothing is mounted where something is mounted already: /storage/roms is *)
(* not provided twice, EEROMS and .update are not stacked on what an       *)
(* earlier run or init left, but for the job the program gave up on and a  *)
(* table that could not be read (eemount.c:221-224, 244-247, 376-407).     *)
NothingStacked ==
  \A p, q \in 1..Len(mtab) :
    p # q /\ mtab[p].at = mtab[q].at =>
      fault \/ (mtab[p].at = "roms" /\ rootJob # "none")

(* The README's choice of EEROMS: the partition behind /storage/.update,   *)
(* "the 3rd partition on the boot drive", that of /flash first, then any   *)
(* with the label; a partition that is not there is passed over.           *)
Behind(t, at) == IF IsMountPoint(t, at) THEN {FindEntry(t, at).dev} ELSE {}
ThirdBehind(t, at) ==
  {[dev EXCEPT !.part = 3] : dev \in {e \in Behind(t, at) : EndsWithDigit(e)}}

Documented(t) ==
  LET update == Behind(t, "update") \cap Partitions
      flash == ThirdBehind(t, "flash") \cap Partitions
      storage == ThirdBehind(t, "storage") \cap Partitions
  IN CASE update # {} -> update
       [] update = {} /\ flash # {} -> flash
       [] update = {} /\ flash = {} /\ storage # {} -> storage
       [] OTHER -> Labelled

(* Unless something failed that need not have, EEROMS is mounted from the  *)
(* partition the README names (README.md:17-20, eemount.c:254-314).        *)
EEROMSAsDocumented ==
  ~fault =>
    \A k \in 1..Len(mtab) :
      mtab[k].by = "EEROMS" => mtab[k].dev \in Documented(table)

(* "ONLY call this after EEROMS is successfully mounted" (eemount.c:217):  *)
(* what is bound to .update lies in EEROMS, whichever way the routine came *)
(* there.  Only a root unit that was given up on and mounts /storage/roms  *)
(* after all can be taken for EEROMS (eemount.c:244-247, 403-405).         *)
UpdateFromEEROMS ==
  pc = "updateBind" /\ ~fault =>
    \/ OnTop(target).by \in {"EEROMS", "init"}
    \/ target = "roms" /\ rootJob = "over" /\ OnTop(target).by = "unit"
=============================================================================
