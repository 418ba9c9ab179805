------------------------------ MODULE UnitScan ------------------------------
(***************************************************************************)
(* systemd_get_units (src/src/systemd.c): read the directory of units and  *)
(* return the mount units under /storage/roms, sorted by the systems they  *)
(* provide, with a pointer to the one for /storage/roms itself.            *)
(*                                                                         *)
(* One step reads one entry.  Names are abstracted to their rank in the    *)
(* order of strcmp; the name of the root unit's system, "", has rank 0.    *)
(***************************************************************************)
EXTENDS Integers, SequencesExt

CONSTANTS
  Directories,  \* what the directory of units may hold: sets of entries
  AllocBase     \* ALLOC_BASE_SIZE

VARIABLES
  unread,       \* entries readdir has not returned yet, in any order
  units,        \* the slots of helper->mounts up to helper->count
  alloc,        \* helper->alloc_mounts, 0 while there is no helper
  block,        \* where the array lies: the times realloc has moved it
  root,         \* helper->root, the block and the slot it points into
  freed,        \* the slots whose strings were freed
  ret           \* "none", then "helper" and "freed", "null" or "crashed"

vars == <<unread, units, alloc, block, root, freed, ret>>

(* An entry is passed over for its type or name ("unrelated"), or counted  *)
(* and then left alone ("omitted": no system behind the dash, or one that  *)
(* is reserved), or taken.  "dashes" are those of the escaped system name. *)
Entry == [kind : {"unrelated", "omitted", "unit"}, system : Nat, dashes : Nat]

ASSUME DirectoriesAssumption == \A d \in Directories : d \subseteq Entry
ASSUME AllocAssumption == AllocBase \in Nat /\ AllocBase >= 2

Unit == [system : Nat, layer : Nat]
UnitOf(e) ==
  [system |-> e.system, layer |-> IF e.system = 0 THEN 0 ELSE e.dashes + 1]
Unwritten == [system |-> -1, layer |-> 0]

NoRoot == [block |-> 0, slot |-> 0]

-----------------------------------------------------------------------------
(* The directory *)

IsOmitted(e) == e.kind = "omitted" \/ (e.system = 0 /\ root # NoRoot)

(* ++count comes before the checks that omit an entry. *)
IsFullMutant == Len(units) > alloc
IsFull == Len(units) + 1 > alloc

MakeRoom ==
  IF alloc = 0 THEN alloc' = AllocBase /\ UNCHANGED block
  ELSE IF IsFull
  THEN alloc' = (alloc * 3) \div 2 /\ block' \in {block, block + 1}
  ELSE UNCHANGED <<alloc, block>>

PassOver(e) ==
  /\ e.kind = "unrelated"
  /\ UNCHANGED <<units, alloc, block, root, freed, ret>>

Omit(e) ==
  /\ e.kind # "unrelated" /\ IsOmitted(e)
  /\ MakeRoom
  /\ units' = Append(units, Unwritten)
  /\ UNCHANGED <<root, freed, ret>>

Take(e) ==
  /\ e.kind = "unit" /\ ~IsOmitted(e)
  /\ MakeRoom
  /\ units' = Append(units, UnitOf(e))
  /\ root' = IF e.system = 0
             THEN [block |-> block', slot |-> Len(units) + 1] ELSE root
  /\ UNCHANGED <<freed, ret>>

(* No memory for the helper or the array, to grow it, or for the strings:  *)
(* the slots before the current one are freed.                             *)
OutOfMemory(e) ==
  /\ e.kind # "unrelated"
  /\ alloc = 0 \/ IsFull \/ ~IsOmitted(e)
  /\ freed' = 1..Len(units)
  /\ ret' = "null"
  /\ UNCHANGED <<units, alloc, block, root>>

ReadEntry ==
  /\ ret = "none"
  /\ \E e \in unread :
       /\ unread' = unread \ {e}
       /\ PassOver(e) \/ Omit(e) \/ Take(e) \/ OutOfMemory(e)

-----------------------------------------------------------------------------
(* The end of the directory *)

(* What qsort may leave; an unwritten slot compares as anything. *)
Sortings(us) ==
  {t \in {[k \in DOMAIN us |-> us[p[k]]] : p \in Bijection(DOMAIN us, DOMAIN us)} :
     Unwritten \in ToSet(us) \/ \A j, k \in DOMAIN t : j < k => t[j].system <= t[k].system}

(* Where the search may find the root. *)
Found(us) ==
  {[block |-> block, slot |-> k] :
     k \in {n \in DOMAIN us : /\ us[n].system <= 0
                              /\ \A j \in 1..(n - 1) : us[j].system # 0}}

(* What the root pointer now points to is read, from an array that may     *)
(* have been freed; the root is searched again if that has a system.       *)
RootsMutant(us) == {root}
Roots(us) ==
  IF root = NoRoot THEN {NoRoot}
  ELSE IF root.block # block \/ us[root.slot] = Unwritten THEN {root} \cup Found(us)
  ELSE IF us[root.slot].system = 0 THEN {root} ELSE Found(us)

Sort ==
  /\ units' \in Sortings(units)
  /\ root' \in Roots(units')
  /\ ret' \in {"helper"} \cup (IF Unwritten \in ToSet(units) THEN {"crashed"} ELSE {})

Finish ==
  /\ ret = "none" /\ unread = {}
  /\ \/ Len(units) = 0 /\ ret' = "null" /\ UNCHANGED <<units, root>>
     \/ Len(units) = 1 /\ ret' = "helper" /\ UNCHANGED <<units, root>>
     \/ Len(units) > 1 /\ Sort
  /\ UNCHANGED <<unread, alloc, block, freed>>

(* systemd_mount_unit_helper_free, when the routine is through. *)
FreeHelper ==
  /\ ret = "helper"
  /\ ret' = "freed" /\ freed' = DOMAIN units
  /\ UNCHANGED <<unread, units, alloc, block, root>>

(* A directory that cannot be opened is as one with nothing in it. *)
Init ==
  /\ unread \in Directories
  /\ units = <<>> /\ alloc = 0 /\ block = 0 /\ root = NoRoot
  /\ freed = {} /\ ret = "none"

Next == ReadEntry \/ Finish \/ FreeHelper

Spec == Init /\ [][Next]_vars

-----------------------------------------------------------------------------
(* Properties *)

TypeOK ==
  /\ unread \subseteq Entry
  /\ units \in Seq(Unit \cup {Unwritten})
  /\ alloc \in Nat /\ block \in Nat
  /\ root = NoRoot \/ (root.block \in 0..block /\ root.slot \in DOMAIN units)
  /\ freed \subseteq DOMAIN units
  /\ ret \in {"none", "helper", "freed", "null", "crashed"}

(* Every slot that is counted lies in the array, however often it grew     *)
(* (systemd.c:116-138).                                                    *)
SlotsFit == Len(units) <= alloc

(* What the batch of units relies on: if no entry was omitted the units    *)
(* are sorted, so that a system comes before what lies inside of it, and   *)
(* if the array did not move once the root was found, root is the unit of  *)
(* layer 0, wherever sorting has put it (systemd.c:156-203).               *)
ReadyForBatch ==
  ret = "helper" /\ Unwritten \notin ToSet(units) =>
    /\ \A j, k \in DOMAIN units : j < k => units[j].system <= units[k].system
    /\ root.block = block \/ root = NoRoot =>
         \A k \in DOMAIN units : units[k].layer = 0 <=> k = root.slot

(* The helper holds "all systemd mount units under /storage/roms"          *)
(* (systemd.h:142) and counts the mount units (systemd.h:86): no slot it   *)
(* hands to the batch, sorts or frees is one that no unit was written to.  *)
OnlyUnitsCounted ==
  /\ ret \in {"helper", "crashed"} => Unwritten \notin ToSet(units)
  /\ \A k \in freed : units[k] # Unwritten

(* root is "the mount unit for roms root" (systemd.h:81), in the array     *)
(* the helper holds.                                                       *)
RootInArray == ret = "helper" /\ root # NoRoot => root.block = block
=============================================================================
