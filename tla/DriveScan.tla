----------------------------- MODULE DriveScan ------------------------------
(***************************************************************************)
(* drive_get_mounts and drive_scan (src/src/drive.c): look for external    *)
(* drives with a mark file, again and again until there is one, and read   *)
(* from each mark the systems the drive provides.  A drive whose mark      *)
(* names none provides /storage/roms as a whole.                           *)
(*                                                                         *)
(* One step begins or ends a try, looks at one directory of /var/media, or *)
(* reads one line of a mark; drives are plugged in at any time in between. *)
(* Names are abstracted to their ranks in the order of strcmp.             *)
(***************************************************************************)
EXTENDS Integers, SequencesExt

CONSTANTS
  Entries,    \* the directories that may be under /var/media
  Targets,    \* what the setting of the drive to use may be, 0 if not set
  Retries,    \* what the setting of the retries may be
  IntMax,     \* INT_MAX
  AllocBase,  \* ALLOC_BASE_SIZE
  Faults      \* what may fail: "mkdir", "memory", "opendir", "read"

VARIABLES
  pc,         \* "try", "dir", "mark" or "returned"
  plugged,    \* the directories that are there
  target,     \* the configured drive
  limit,      \* retry + 1, as an int
  try,        \* the number of this try
  must,       \* the directories that were there when this try began
  seen,       \* those looked at in this try
  drives,     \* drive_helper->drives
  alloc,      \* drive_helper->alloc_drives, 0 while there is no helper
  line,       \* the line of the mark read next
  ret,        \* "none", then "helper" and "freed", or "null"
  skipped,    \* history: drives this try had no memory to check
  faulty      \* history: drives hit by a fault; 0 for one of no drive

Configuration == <<target, limit>>
vars == <<pc, plugged, Configuration, try, must, seen, drives, alloc, line, ret, skipped,
          faulty>>

(* Lines that are passed over: empty ones, those longer than a name can    *)
(* be, those with a slash, and the names ports_scripts and emuelecroms     *)
(* (paths.h:21, 24).  The README reserves ports_script and emuelec.        *)
Ignored == {"empty", "long", "slash", "ports_scripts", "emuelecroms"}
Provided == {"system", "ports_script", "emuelec"}
Line == [kind : Ignored \cup Provided, system : Nat]

(* "marked" is false for what drive_is_name_invalid or drive_check refuse: *)
(* ., .., EEROMS, no directory, no mark file that can be opened.           *)
Entry == [name : Nat \ {0}, marked : BOOLEAN, mark : Seq(Line)]

ASSUME EntriesAssumption == Entries \subseteq Entry
ASSUME NamesAssumption == \A e, f \in Entries : e.name = f.name => e = f
ASSUME RetriesAssumption ==
  /\ IntMax \in Nat /\ Retries \subseteq (-IntMax - 1)..IntMax
ASSUME AllocAssumption == AllocBase \in Nat /\ AllocBase >= 2
ASSUME FaultsAssumption == Faults \subseteq {"mkdir", "memory", "opendir", "read"}

(* A dangling drive has its systems freed and their count left. *)
Drive == [of : Entries, systems : Seq(Nat), alloc : Nat, dangling : BOOLEAN]

(* retry + 1; the largest int either wraps or makes no bound at all.       *)
LimitsMutant(retry) == IF retry < IntMax THEN {retry} ELSE {0}
Limits(retry) ==
  IF retry < 0 THEN {1}
  ELSE IF retry < IntMax THEN {retry + 1} ELSE {-IntMax - 1, IntMax + 1}

(* What qsort may leave of s, whose elements compare by their keys. *)
Sorts(p, key) == \A j, k \in DOMAIN key : j < k => key[p[j]] <= key[p[k]]
Sortings(s, key) ==
  {[k \in DOMAIN s |-> s[p[k]]] :
     p \in {q \in Bijection(DOMAIN s, DOMAIN s) : Sorts(q, key)}}

Return(result) == pc' = "returned" /\ ret' = result

Fault(kind, name) == kind \in Faults /\ faulty' = faulty \cup {name}

-----------------------------------------------------------------------------
(* drive_get_mounts *)

BeginTry ==
  /\ pc = "try" /\ try < limit
  /\ \/ pc' = "dir" /\ UNCHANGED <<ret, faulty>>
     \/ Fault("opendir", 0) /\ Return("null")
  /\ must' = plugged /\ seen' = {} /\ skipped' = {}
  /\ UNCHANGED <<plugged, Configuration, try, drives, alloc, line>>

NoTryLeft ==
  /\ pc = "try" /\ try >= limit
  /\ Return("null")
  /\ UNCHANGED <<plugged, Configuration, try, must, seen, drives, alloc, line, skipped, faulty>>

(* An array that is too small for one more is made, or grows by half. *)
RoomMutant(count, size) == IF count > size THEN (size * 3) \div 2 ELSE size
Room(count, size) ==
  IF count <= size THEN size ELSE IF size = 0 THEN AllocBase ELSE (size * 3) \div 2

IsTarget(e) == target \in {0, e.name}
IsUsable(e) == e.marked /\ IsTarget(e)

(* drive_check returns NULL as well when it has no memory for the path of  *)
(* the mark, or to open it: the drive is passed over like any other entry. *)
CheckFails(e) == IsUsable(e) /\ "memory" \in Faults /\ skipped' = skipped \cup {e}

Skip(e) ==
  /\ \/ ~IsUsable(e) /\ UNCHANGED skipped
     \/ CheckFails(e)
  /\ UNCHANGED <<pc, drives, alloc, line, ret, faulty>>

NewDrive(e) == [of |-> e, systems |-> <<>>, alloc |-> 0, dangling |-> FALSE]

OpenMark(e) ==
  /\ IsUsable(e)
  /\ \/ /\ drives' = Append(drives, NewDrive(e))
        /\ alloc' = Room(Len(drives) + 1, alloc)
        /\ pc' = "mark" /\ line' = 1
        /\ UNCHANGED <<ret, faulty>>
     \/ Fault("memory", 0) /\ Return("null") /\ UNCHANGED <<drives, alloc, line>>
  /\ UNCHANGED skipped

LookAt ==
  /\ pc = "dir"
  /\ \E e \in plugged \ seen :
       /\ seen' = seen \cup {e}
       /\ Skip(e) \/ OpenMark(e)
  /\ UNCHANGED <<plugged, Configuration, try, must>>

NextTryMutant == pc' = "try" /\ UNCHANGED try
NextTry == pc' = "try" /\ try' = try + 1

(* readdir may miss what was plugged in since, and nothing else. *)
EndTry ==
  /\ pc = "dir" /\ must \subseteq seen
  /\ IF drives = <<>>
     THEN NextTry /\ UNCHANGED <<drives, ret>>
     ELSE /\ drives' \in Sortings(drives, [k \in DOMAIN drives |-> drives[k].of.name])
          /\ Return("helper")
          /\ UNCHANGED try
  /\ UNCHANGED <<plugged, Configuration, must, seen, alloc, line, skipped, faulty>>

-----------------------------------------------------------------------------
(* drive_scan *)

Last1 == Len(drives)
Mark == drives[Last1].of.mark
Name == drives[Last1].of.name
Found == drives[Last1].systems

ReadOn == line' = line + 1 /\ UNCHANGED pc
Close == pc' = "dir" /\ UNCHANGED line

IgnoresMutant(l) == l.kind \in Ignored \ {"slash"}
Ignores(l) == l.kind \in Ignored

IgnoreLine ==
  /\ line <= Len(Mark) /\ Ignores(Mark[line])
  /\ ReadOn
  /\ UNCHANGED <<drives, faulty>>

MkdirFails ==
  /\ line <= Len(Mark) /\ ~Ignores(Mark[line])
  /\ Fault("mkdir", Name)
  /\ ReadOn
  /\ UNCHANGED drives

AddSystem ==
  /\ line <= Len(Mark) /\ ~Ignores(Mark[line])
  /\ drives' = [drives EXCEPT ![Last1].systems = Append(@, Mark[line].system),
                              ![Last1].alloc = Room(Len(Found) + 1, @)]
  /\ ReadOn
  /\ UNCHANGED faulty

(* The scan of this drive ends, that of the others goes on.  The drive's   *)
(* systems are freed, if there is an array already.                        *)
NoMemory ==
  /\ line <= Len(Mark) /\ ~Ignores(Mark[line])
  /\ Fault("memory", Name)
  /\ \E dangling \in {Found # <<>>, TRUE} :
       drives' = [drives EXCEPT ![Last1].dangling = dangling]
  /\ Close

(* getline says no more of a failed read than of the end of the file.      *)
EndOfMark ==
  /\ \/ line > Len(Mark) /\ UNCHANGED faulty
     \/ line <= Len(Mark) /\ Fault("read", Name)
  /\ \E sorted \in Sortings(Found, Found) :
       drives' = [drives EXCEPT ![Last1].systems = sorted]
  /\ Close

ScanMark ==
  /\ pc = "mark"
  /\ IgnoreLine \/ MkdirFails \/ AddSystem \/ NoMemory \/ EndOfMark
  /\ UNCHANGED <<plugged, Configuration, try, must, seen, alloc, ret, skipped>>

-----------------------------------------------------------------------------

Program == BeginTry \/ NoTryLeft \/ LookAt \/ EndTry \/ ScanMark

PlugIn ==
  /\ pc # "returned"
  /\ \E e \in Entries \ plugged : plugged' = plugged \cup {e}
  /\ UNCHANGED <<pc, Configuration, try, must, seen, drives, alloc, line, ret, skipped, faulty>>

Init ==
  /\ plugged \in SUBSET Entries
  /\ target \in Targets /\ limit \in UNION {Limits(r) : r \in Retries}
  /\ pc = "try" /\ try = 0 /\ must = {} /\ seen = {}
  /\ drives = <<>> /\ alloc = 0 /\ line = 1 /\ ret = "none" /\ skipped = {} /\ faulty = {}

(* drive_helper_free, when the routine is through.  The systems of a       *)
(* dangling drive are freed a second time here.                            *)
FreeHelper ==
  /\ pc = "returned" /\ ret = "helper"
  /\ ret' = "freed" /\ drives' = <<>> /\ alloc' = 0
  /\ UNCHANGED <<pc, plugged, Configuration, try, must, seen, line, skipped, faulty>>

Next == Program \/ PlugIn \/ FreeHelper

Spec == Init /\ [][Next]_vars

(* The program goes on; it does not wait for something to fail. *)
FairSpec == Spec /\ WF_vars(Program /\ UNCHANGED faulty)

-----------------------------------------------------------------------------
(* Properties *)

TypeOK ==
  /\ pc \in {"try", "dir", "mark", "returned"} /\ ret \in {"none", "helper", "freed", "null"}
  /\ plugged \subseteq Entries /\ must \subseteq plugged /\ seen \subseteq plugged
  /\ target \in Targets /\ limit \in Int /\ try \in Nat /\ line \in Nat \ {0}
  /\ drives \in Seq(Drive) /\ alloc \in Nat /\ skipped \subseteq seen
  /\ pc = "mark" => drives # <<>>

(* Every drive, and every system of a drive, that is counted lies in its   *)
(* array (drive.c:104-126, 255-267).                                       *)
ArraysFit ==
  /\ Len(drives) <= alloc
  /\ \A k \in DOMAIN drives : Len(drives[k].systems) <= drives[k].alloc

(* The lines that name a system. *)
Named(e) == {l \in DOMAIN e.mark : e.mark[l].kind \in Provided}

Ascending(s) == \A j, k \in DOMAIN s : j < k => s[j] <= s[k]

(* These systems are those the lines L of e's mark name, each as often. *)
Lists(systems, e, L) ==
  \E p \in Bijection(DOMAIN systems, L) :
    \A k \in DOMAIN systems : systems[k] = e.mark[p[k]].system

(* A drive that was not freed has systems its mark names, in order, none   *)
(* of them twice for one line; one that no fault has hit has them all.     *)
IsRead(d) ==
  /\ ~d.dangling =>
       Ascending(d.systems) /\ \E L \in SUBSET Named(d.of) : Lists(d.systems, d.of, L)
  /\ d.of.name \notin faulty => ~d.dangling /\ Lists(d.systems, d.of, Named(d.of))

(* A drive provides exactly the names of its mark that are neither         *)
(* reserved nor invalid (MultpleDrives.md:117), whatever the order of the  *)
(* lines and whatever happens to other drives; a fault takes names away    *)
(* and never makes one up, unless the drive's systems were freed.  Drives  *)
(* and systems are in alphabetical order (README.md:34, drive.c:58-138).   *)
ProvidesItsMark ==
  ret = "helper" =>
    \A k \in DOMAIN drives :
      /\ \A j \in 1..(k - 1) : drives[j].of.name < drives[k].of.name
      /\ IsRead(drives[k])

(* No drive that can be used is left out but for lack of memory: what was  *)
(* there when the try began that found a drive, or when the last one       *)
(* began, is in the result, unless drive_check had no memory for it in     *)
(* this very try or the scan was abandoned for a fault (drive.c:215-294).  *)
UsableFound ==
  ret \in {"helper", "null"} /\ 0 \notin faulty =>
    \A e \in (IF seen = {} /\ try = 0 THEN plugged ELSE must) \ skipped :
      IsUsable(e) => \E k \in DOMAIN drives : drives[k].of = e

(* The scan ends however few drives there are, and at once when there is   *)
(* one (drive.c:215-294).                                                  *)
ScanEnds == <>(pc = "returned")

(* A drive is "used as a whole" when no valid system is found in its mark  *)
(* (drive.h:38, README.md:16).                                             *)
WholeIfNoneNamed ==
  ret = "helper" =>
    \A k \in DOMAIN drives : drives[k].systems = <<>> => Named(drives[k].of) = {}

(* "We straightly abandon the scan" when "Memory allocation failed"        *)
(* (drive.c:219-221): no drive is returned with its systems freed, nor     *)
(* any at all when another was passed over for lack of memory.             *)
AbandonedIfNoMemory ==
  ret = "helper" => skipped = {} /\ \A k \in DOMAIN drives : ~drives[k].dangling

(* "Reserved names (emuelec, ports_script) are ignored" (README.md:34).    *)
ReservedAsDocumented ==
  ret = "helper" =>
    \A k \in DOMAIN drives : \A j \in DOMAIN drives[k].systems :
      \E l \in Named(drives[k].of) :
        /\ drives[k].of.mark[l].kind = "system"
        /\ drives[k].of.mark[l].system = drives[k].systems[j]
=============================================================================
