----------------------------- MODULE UmountRoms -----------------------------
(***************************************************************************)
(* eemount_umount_roms (src/src/eemount.c): before anything is mounted,    *)
(* everything mounted at or under /storage/roms is unmounted.  The program *)
(* works from snapshots of the kernel's mount table, by path; the kernel   *)
(* resolves a path to the mount on top, which need not be the one the      *)
(* entry was about.  Mounts may be stacked on one directory, and one may   *)
(* hide what was mounted below it before.                                  *)
(*                                                                         *)
(* The kernel and the other processes that mount are external; each        *)
(* umount2 call is one step.                                               *)
(***************************************************************************)
EXTENDS Naturals, Sequences

CONSTANTS
  Paths,       \* directories, as sequences of names below /storage
  Roms,        \* /storage/roms, one of them
  MaxMounts,   \* bound: mounts ever made
  MaxOthers    \* bound: mounts and unmounts by others while the program runs

ASSUME PathsAssumption == Paths \subseteq Seq(STRING) /\ Roms \in Paths /\ Roms # <<>>
ASSUME RomsAssumption == Len(Roms) = 1   \* a directory of /storage itself
ASSUME BoundsAssumption == MaxMounts \in Nat /\ MaxOthers \in Nat

VARIABLES
  kernel,    \* the mount table: entries in the order they were made
  nextId,    \* the id of the next mount
  others,    \* how often others interfered with the running program
  pc,        \* "before", "reading", "looking", "unmounting", "failed", "clean"
  pass,      \* 0: /storage/roms itself, 1: what is below it
  table,     \* the snapshot eemount_get_table took last
  stack,     \* the calls of eemount_umount_entry_recursive, innermost last
  ret,       \* umounts that failed since the outermost of them
  before,    \* history: the mount table when the program started
  excused    \* history: the table was not readable, a mount was busy, or
             \* others interfered

programVars == <<pc, pass, table, stack, ret>>
vars == <<kernel, nextId, others, programVars, before, excused>>

-----------------------------------------------------------------------------
(* The kernel *)

Entry == [id : Nat, parent : Nat, at : Seq(STRING)]

(* /storage itself, which nothing here unmounts. *)
Base == [id |-> 1, parent |-> 0, at |-> <<>>]

IsAbove(p, q) == Len(p) <= Len(q) /\ SubSeq(q, 1, Len(p)) = p

IsRoms(p) == IsAbove(Roms, p)

Entries(t) == {t[k] : k \in 1..Len(t)}

(* Something mounted on the same mount, at or above its directory, is in   *)
(* the way of every path to e.                                             *)
IsOvermounted(t, e) ==
  \E f \in Entries(t) : f # e /\ f.parent = e.parent /\ IsAbove(f.at, e.at)

(* A mount is visible when nothing is in the way of it and what it is      *)
(* mounted on is visible, down to /storage.                                *)
Visible(t) ==
  LET open == {e \in Entries(t) : e = Base \/ ~IsOvermounted(t, e)}
  IN UNION {S \in SUBSET open : \A e \in S : e = Base \/ \E f \in S : f.id = e.parent}

(* What a path is resolved to: the visible mount that the path lies in     *)
(* with nothing mounted between.                                           *)
Resolved(t, p) ==
  CHOOSE e \in Visible(t) :
    /\ IsAbove(e.at, p)
    /\ ~\E f \in Entries(t) : f.parent = e.id /\ IsAbove(f.at, p)

Mounted(t, p, id) ==
  Append(t, [id |-> id, parent |-> Resolved(t, p).id, at |-> p])

HasChildren(t, e) == \E f \in Entries(t) : f.parent = e.id

(* umount2 succeeds on a mount point whose top mount carries no other.     *)
CanUmount(t, p) == Resolved(t, p).at = p /\ ~HasChildren(t, Resolved(t, p))

Without(t, e) ==
  LET k == CHOOSE k \in 1..Len(t) : t[k] = e
  IN SubSeq(t, 1, k - 1) \o SubSeq(t, k + 1, Len(t))

-----------------------------------------------------------------------------
(* Other processes *)

(* Earlier runs, systemd and users mount as they like before the program   *)
(* starts, below /storage/roms and elsewhere.                              *)
Mount ==
  /\ pc = "before" /\ nextId <= MaxMounts + 1
  /\ \E p \in Paths \ {<<>>} : kernel' = Mounted(kernel, p, nextId)
  /\ nextId' = nextId + 1
  /\ UNCHANGED <<others, programVars, before, excused>>

Running == pc \in {"reading", "looking", "unmounting"}

Interfere ==
  /\ Running /\ others < MaxOthers
  /\ others' = others + 1
  /\ excused' = TRUE
  /\ \/ /\ nextId <= MaxMounts + 1
        /\ \E p \in {q \in Paths : IsRoms(q)} : kernel' = Mounted(kernel, p, nextId)
        /\ nextId' = nextId + 1
     \/ /\ \E p \in {q \in Paths : IsRoms(q) /\ CanUmount(kernel, q)} :
             kernel' = Without(kernel, Resolved(kernel, p))
        /\ UNCHANGED nextId
  /\ UNCHANGED <<programVars, before>>

-----------------------------------------------------------------------------
(* The program *)

Start ==
  /\ pc = "before"
  /\ pc' = "reading"
  /\ before' = kernel
  /\ UNCHANGED <<kernel, nextId, others, pass, table, stack, ret, excused>>

GetTable ==
  /\ pc = "reading"
  /\ table' = kernel
  /\ pc' = "looking"
  /\ UNCHANGED <<kernel, nextId, others, pass, stack, ret, before, excused>>

GetTableFails ==
  /\ pc = "reading"
  /\ pc' = "failed"
  /\ excused' = TRUE
  /\ UNCHANGED <<kernel, nextId, others, pass, table, stack, ret, before>>

(* What a pass looks for in the snapshot, the first entry of it. *)
IsSought(e) == IF pass = 0 THEN e.at = Roms ELSE IsRoms(e.at) /\ e.at # Roms

Sought == {k \in 1..Len(table) : IsSought(table[k])}

First(S) == CHOOSE k \in S : \A m \in S : k <= m

(* The outermost call; it looks for children in the whole table. *)
Found ==
  /\ pc = "looking" /\ Sought # {}
  /\ stack' = << [entry |-> First(Sought), next |-> 2] >>
  /\ ret' = 0
  /\ pc' = "unmounting"
  /\ UNCHANGED <<kernel, nextId, others, pass, table, before, excused>>

NoneFoundMutant ==
  /\ pc = "looking" /\ Sought = {}
  /\ pc' = "clean"
  /\ UNCHANGED <<kernel, nextId, others, pass, table, stack, ret, before, excused>>

NoneFound ==
  /\ pc = "looking" /\ Sought = {}
  /\ IF pass = 0
     THEN pass' = 1 /\ UNCHANGED pc
     ELSE pc' = "clean" /\ UNCHANGED pass
  /\ UNCHANGED <<kernel, nextId, others, table, stack, ret, before, excused>>

Top == stack[Len(stack)]

ChildrenMutant == {k \in Top.next..Len(table) : table[k].parent # Base.id}
NoChildrenMutant == {}
Children ==
  {k \in Top.next..Len(table) : table[k].parent = table[Top.entry].id}

ChildCall(k) == [entry |-> k, next |-> k + 1]

(* Children first.  A call for one looks for its own children after it.    *)
Descend ==
  /\ pc = "unmounting" /\ Children # {}
  /\ LET k == First(Children) IN
       stack' = Append([stack EXCEPT ![Len(stack)].next = k + 1],
                       ChildCall(k))
  /\ UNCHANGED <<kernel, nextId, others, pc, pass, table, ret, before, excused>>

ReturnWithMutant(failures) ==
  /\ ret' = failures
  /\ stack' = SubSeq(stack, 1, Len(stack) - 1)
  /\ pc' = IF Len(stack) > 1 THEN "unmounting" ELSE "reading"

(* The call returns, to its caller or to the loop, which reads the table   *)
(* again unless something failed.                                          *)
ReturnWith(failures) ==
  /\ ret' = failures
  /\ stack' = SubSeq(stack, 1, Len(stack) - 1)
  /\ pc' = IF Len(stack) > 1 THEN "unmounting"
           ELSE IF failures = 0 THEN "reading" ELSE "failed"

Umount ==
  /\ pc = "unmounting" /\ Children = {}
  /\ LET p == table[Top.entry].at IN
       \/ /\ CanUmount(kernel, p)
          /\ kernel' = Without(kernel, Resolved(kernel, p))
          /\ ReturnWith(ret)
          /\ UNCHANGED excused
       \/ /\ ~CanUmount(kernel, p)
          /\ ReturnWith(ret + 1)
          /\ UNCHANGED <<kernel, excused>>
       \/ /\ ReturnWith(ret + 1)   \* it is busy
          /\ excused' = TRUE
          /\ UNCHANGED kernel
  /\ UNCHANGED <<nextId, others, pass, table, before>>

Program ==
  Start \/ GetTable \/ GetTableFails \/ Found \/ NoneFound \/ Descend \/ Umount

Init ==
  /\ kernel = <<Base>> /\ nextId = 2 /\ others = 0
  /\ pc = "before" /\ pass = 0 /\ table = <<>> /\ stack = <<>> /\ ret = 0
  /\ before = <<>> /\ excused = FALSE

Next == Program \/ Mount \/ Interfere

Spec == Init /\ [][Next]_vars

FairSpec == Spec /\ WF_vars(Program)

-----------------------------------------------------------------------------
(* Properties *)

TypeOK ==
  /\ Entries(kernel) \subseteq Entry /\ kernel[1] = Base
  /\ nextId \in 2..(MaxMounts + 2) /\ others \in 0..MaxOthers
  /\ pc \in {"before", "reading", "looking", "unmounting", "failed", "clean"}
  /\ pass \in {0, 1}
  /\ Entries(table) \subseteq Entry
  /\ \A k \in 1..Len(stack) :
       stack[k].entry \in 1..Len(table) /\ stack[k].next \in 2..(Len(table) + 1)
  /\ ret \in 0..Len(table)
  /\ Entries(before) \subseteq Entry /\ excused \in BOOLEAN

(* When the program is told everything is unmounted, it is: what is left   *)
(* at or below /storage/roms came while it ran (eemount.c:325-363).        *)
CleanOnSuccess ==
  pc = "clean" =>
    \A e \in Entries(kernel) : IsRoms(e.at) => e \notin Entries(before)

(* Nothing else is ever unmounted, whatever the table looks like           *)
(* (eemount.c:123-167).                                                    *)
OnlyRomsUnmounted ==
  [][\A e \in Entries(kernel) : e \in Entries(kernel') \/ IsRoms(e.at)]_vars

(* A run that fails without excuse failed over a mount hidden by a later   *)
(* one, and only then: stacked mounts and mounts in mounts are no reason   *)
(* (eemount.c:133-142, 337-361).                                           *)
FailsOnlyOverHidden ==
  pc = "failed" /\ ~excused =>
    \E e \in Entries(before) : IsRoms(e.at) /\ e \notin Visible(before)

(* A run that fails over mounts hidden by /storage/roms itself unmounted   *)
(* something all the same, so that a later run gets further and in the end *)
(* through.  It is otherwise with a system mounted over a directory in it, *)
(* which is why MountSystems must never do that: the first entry is then   *)
(* one that no path leads to, and every run fails (eemount.c:133-142).     *)
CoveredInside(t) ==
  \E e, f \in Entries(t) :
    /\ IsRoms(f.at) /\ f.at # Roms
    /\ e # f /\ e.parent = f.parent /\ IsAbove(f.at, e.at)

FailureMakesProgress ==
  pc = "failed" /\ ~excused /\ ~CoveredInside(before) => Len(kernel) < Len(before)

(* The loops end (eemount.c:337-361). *)
RunEnds == (pc = "reading") ~> (pc \in {"failed", "clean"})
=============================================================================
