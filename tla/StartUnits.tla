----------------------------- MODULE StartUnits -----------------------------
(***************************************************************************)
(* systemd_start_unit_systems (src/src/systemd.c): start every mount unit  *)
(* of a layer at once, then read JobRemoved signals until each of the jobs *)
(* was reported, recording in mhelper the systems whose jobs were done.    *)
(*                                                                         *)
(* One step starts one unit, processes one message, or ends one round of   *)
(* waiting; the manager and the connection move in between.                *)
(***************************************************************************)
EXTENDS Bus, FiniteSets

CONSTANTS
  Helpers,     \* the unit helpers systemd_get_units may return
  Given,       \* the systems recorded before the call, each bound by a drive
  AllocBase,   \* ALLOC_BASE_SIZE
  Loops,       \* SYSTEMD_START_TIMEOUT_LOOP, the rounds of waiting
  OutOfMemory  \* whether allocations may fail

VARIABLES
  pc,          \* "ready", "starting", "waiting" or "returned"
  shelper,     \* the units, and which of them is the root unit
  layer,       \* the layer specifier
  i,           \* the unit the starting loop considers
  jobs,        \* the jobs started, in the order they were started
  finished,    \* how many of them were reported
  failed,      \* how many messages could not be read
  tick,        \* rounds of waiting so far
  mhelper,     \* the record of mounted systems
  lost         \* history: systems whose mounts the program lost track of

localVars == <<i, jobs, finished, failed, tick>>
vars == <<busVars, localVars, pc, shelper, layer, mhelper, lost>>

-----------------------------------------------------------------------------
(* Data *)

Layers == {"all", "1", "2+"}

(* The root unit is the one of layer 0; "root" is its index, 0 for NULL.   *)
Unit == [system : System, layer : Nat]
IsHelper(h) ==
  /\ h.mounts \in Seq(Unit)
  /\ h.root \in 0..Len(h.mounts)
  /\ \A k \in 1..Len(h.mounts) : h.mounts[k].layer = 0 <=> k = h.root

StartedJob == [id : Nat \ {0}, system : System, finished : BOOLEAN]

(* A NULL record has nothing allocated. *)
Null == [systems |-> <<>>, alloc |-> 0]
Record == [systems : Seq(System), alloc : Nat]

ASSUME HelpersAssumption ==
  \A h \in Helpers : h = [mounts |-> h.mounts, root |-> h.root] /\ IsHelper(h)
ASSUME AllocAssumption == AllocBase \in Nat /\ AllocBase >= 2
ASSUME GivenAssumption == \A g \in Given : g \in Seq(System) /\ Len(g) <= AllocBase
ASSUME LoopsAssumption == Loops \in Nat \ {0}
ASSUME OutOfMemoryAssumption == OutOfMemory \in BOOLEAN

(* ALLOC_MULTIPLIER is 1.5 and the product is truncated. *)
Grow(alloc) == (alloc * 3) \div 2

IsFullMutant(record) == Len(record.systems) > record.alloc
IsFull(record) == Len(record.systems) + 1 > record.alloc

(* The record with one system more; room is made when there is none. *)
Extend(record, s) ==
  [systems |-> Append(record.systems, s),
   alloc   |-> IF record = Null THEN AllocBase
               ELSE IF IsFull(record) THEN Grow(record.alloc) ELSE record.alloc]

NeedsMemory(record) == record = Null \/ IsFull(record)

Recorded == {mhelper.systems[k] : k \in 1..Len(mhelper.systems)}

(* The two matchers; the root unit's layer, 0, matches neither. *)
Matches(l, unit) ==
  CASE l = "1"   -> unit.layer = 1
    [] l = "2+"  -> unit.layer > 1
    [] l = "all" -> TRUE

JobsCount(l) ==
  IF l = "all"
  THEN Len(shelper.mounts) - (IF shelper.root = 0 THEN 0 ELSE 1)
  ELSE Cardinality({k \in 1..Len(shelper.mounts) : Matches(l, shelper.mounts[k])})

SelectedMutant(k) == Matches(layer, shelper.mounts[k])
Selected(k) == k # shelper.root /\ Matches(layer, shelper.mounts[k])

(* The call holds its match from the first unit to its return. *)
Heard == IF pc \in {"starting", "waiting"} THEN Always ELSE Maybe

IsJobSuccessMutant(result) == result \in Result
IsJobSuccess(result) == result = "done"

(* Systems the call is still waiting to hear of. *)
Unreported == {jobs[k].system : k \in {n \in 1..Len(jobs) : ~jobs[n].finished}}

-----------------------------------------------------------------------------
(* The call *)

Return(record) ==
  /\ pc' = "returned"
  /\ mhelper' = record

(* Entry: nothing to start, the match refused, or the loop entered. *)
Call(l) ==
  /\ layer' = l
  /\ i' = 1 /\ jobs' = <<>>
  /\ finished' = 0 /\ failed' = 0 /\ tick' = 0
  /\ \/ JobsCount(l) > 0 /\ link = "up" /\ pc' = "starting"
     \/ pc' = "returned"        \* also when there is no job or no connection
  /\ UNCHANGED <<busVars, shelper, mhelper, lost>>

SkipUnit ==
  /\ pc = "starting" /\ i <= Len(shelper.mounts)
  /\ ~Selected(i)
  /\ i' = i + 1
  /\ UNCHANGED <<busVars, jobs, finished, failed, tick, pc, shelper, layer, mhelper, lost>>

StartUnit ==
  /\ pc = "starting" /\ i <= Len(shelper.mounts)
  /\ Selected(i)
  /\ LET s == shelper.mounts[i].system IN
       /\ Accept(s)
       /\ jobs' = Append(jobs, [id |-> nextJob, system |-> s, finished |-> FALSE])
  /\ i' = i + 1
  /\ UNCHANGED <<link, rqueue, foreign, mtab, finished, failed, tick,
                 pc, shelper, layer, mhelper, lost>>

(* A unit that cannot be started ends the call at once: the jobs started   *)
(* before it run on, and nobody waits for them.                            *)
StartUnitFails ==
  /\ pc = "starting" /\ i <= Len(shelper.mounts)
  /\ Selected(i)
  /\ Reject(shelper.mounts[i].system)
  /\ Return(mhelper)
  /\ lost' = lost \cup Unreported \cup {shelper.mounts[i].system}
  /\ UNCHANGED <<link, rqueue, foreign, mtab, localVars, shelper, layer>>

StartedAll ==
  /\ pc = "starting" /\ i > Len(shelper.mounts)
  /\ IF Len(jobs) = JobsCount(layer)
     THEN pc' = "waiting" /\ UNCHANGED <<mhelper, lost>>
     ELSE Return(mhelper) /\ lost' = lost \cup Unreported
  /\ UNCHANGED <<busVars, localVars, shelper, layer>>

CountUnreadableMutant ==
  /\ failed' = failed + 1
  /\ IF failed = 3
     THEN Return(mhelper) /\ lost' = lost \cup Unreported
     ELSE UNCHANGED <<pc, mhelper, lost>>

(* A message that cannot be read; the third one ends the call. *)
CountUnreadable ==
  /\ failed' = failed + 1
  /\ IF failed + 1 = 3
     THEN Return(mhelper) /\ lost' = lost \cup Unreported
     ELSE UNCHANGED <<pc, mhelper, lost>>

ReceiveUnreadable ==
  /\ pc = "waiting" /\ rqueue # <<>>
  /\ Head(rqueue).member # "JobRemoved"
  /\ rqueue' = Tail(rqueue)
  /\ CountUnreadable
  /\ UNCHANGED <<link, running, nextJob, foreign, mtab,
                 i, jobs, finished, tick, shelper, layer>>

RereadDisconnectedMutant ==
  /\ pc = "waiting" /\ rqueue = <<>> /\ link = "closed"
  /\ UNCHANGED vars

(* A closed connection makes sd_bus_process fail, which the loop takes for *)
(* another message: it reads the last one, Disconnected, again.            *)
RereadDisconnected ==
  /\ pc = "waiting" /\ rqueue = <<>> /\ link = "closed"
  /\ CountUnreadable
  /\ UNCHANGED <<busVars, i, jobs, finished, tick, shelper, layer>>

IsOurs(k) == ~jobs[k].finished /\ jobs[k].id = Head(rqueue).id

ReceiveOther ==
  /\ pc = "waiting" /\ rqueue # <<>>
  /\ Head(rqueue).member = "JobRemoved"
  /\ \A k \in 1..Len(jobs) : ~IsOurs(k)
  /\ rqueue' = Tail(rqueue)
  /\ UNCHANGED <<link, running, nextJob, foreign, mtab, localVars,
                 pc, shelper, layer, mhelper, lost>>

IsLastReportMutant == finished + 2 >= JobsCount(layer)
IsLastReport == finished + 1 = JobsCount(layer)

(* One of the jobs was removed.  A job that is done is recorded, and the   *)
(* call returns with the last job.                                         *)
ReceiveOurs(k) ==
  /\ pc = "waiting" /\ rqueue # <<>>
  /\ Head(rqueue).member = "JobRemoved"
  /\ IsOurs(k)
  /\ rqueue' = Tail(rqueue)
  /\ jobs' = [jobs EXCEPT ![k].finished = TRUE]
  /\ finished' = finished + 1
  /\ mhelper' = IF IsJobSuccess(Head(rqueue).result)
                THEN Extend(mhelper, jobs[k].system) ELSE mhelper
  /\ pc' = IF IsLastReport THEN "returned" ELSE "waiting"
  /\ UNCHANGED <<link, running, nextJob, foreign, mtab,
                 i, failed, tick, shelper, layer, lost>>

(* The record cannot be allocated or grown: all of it is freed, and the    *)
(* call returns NULL, as if nothing had been mounted.                      *)
OutOfMemoryOnOurs(k) ==
  /\ OutOfMemory
  /\ pc = "waiting" /\ rqueue # <<>>
  /\ Head(rqueue).member = "JobRemoved" /\ IsJobSuccess(Head(rqueue).result)
  /\ IsOurs(k)
  /\ NeedsMemory(mhelper)
  /\ rqueue' = Tail(rqueue)
  /\ jobs' = [jobs EXCEPT ![k].finished = TRUE]
  /\ Return(Null)
  /\ lost' = lost \cup Unreported \cup Recorded
  /\ UNCHANGED <<link, running, nextJob, foreign, mtab,
                 i, finished, failed, tick, shelper, layer>>

(* Nothing to process: wait, and give up after the last round. *)
Wait ==
  /\ pc = "waiting" /\ rqueue = <<>> /\ link = "up"
  /\ tick' = tick + 1
  /\ IF tick + 1 = Loops
     THEN Return(mhelper) /\ lost' = lost \cup Unreported
     ELSE UNCHANGED <<pc, mhelper, lost>>
  /\ UNCHANGED <<busVars, i, jobs, finished, failed, shelper, layer>>

Receive ==
  \/ ReceiveUnreadable \/ RereadDisconnected \/ ReceiveOther
  \/ \E k \in 1..Len(jobs) : ReceiveOurs(k) \/ OutOfMemoryOnOurs(k)

InCall ==
  SkipUnit \/ StartUnit \/ StartUnitFails \/ StartedAll \/ Receive \/ Wait

-----------------------------------------------------------------------------
(* One call, with any helper, layer and record *)

Init ==
  /\ BusInit
  /\ pc = "ready"
  /\ shelper \in Helpers
  /\ layer = "all"
  /\ i = 1 /\ jobs = <<>> /\ finished = 0 /\ failed = 0 /\ tick = 0
  /\ lost = {}
  /\ \E g \in Given :
       /\ mhelper = IF g = <<>> THEN Null ELSE [systems |-> g, alloc |-> AllocBase]
       /\ mtab = [k \in 1..Len(g) |-> [at |-> g[k], by |-> "drive"]]

Begin == pc = "ready" /\ \E l \in Layers : Call(l)

Manager ==
  /\ Environment(Heard)
  /\ UNCHANGED <<localVars, pc, shelper, layer, mhelper, lost>>

Next == Begin \/ InCall \/ Manager

Spec == Init /\ [][Next]_vars

(* The program is never kept from its next step; the manager owes nothing. *)
FairSpec == Spec /\ WF_vars(Begin) /\ WF_vars(InCall)

-----------------------------------------------------------------------------
(* Properties *)

TypeOK ==
  /\ BusTypeOK
  /\ pc \in {"ready", "starting", "waiting", "returned"}
  /\ shelper \in Helpers
  /\ layer \in Layers
  /\ i \in Nat \ {0}
  /\ jobs \in Seq(StartedJob)
  /\ finished \in Nat /\ failed \in 0..3 /\ tick \in 0..Loops
  /\ mhelper \in Record
  /\ lost \in SUBSET System

(* The invariant the safety properties rest on.  The two counters stop the *)
(* loops before their limits; ids are fresh, so that a job, the manager's  *)
(* and the program's view of it and its report are about one unit; and a   *)
(* job that was reported done and not yet recorded is mounted.             *)
Counting ==
  pc \in {"starting", "waiting"} => failed < 3 /\ tick < Loops

FreshIds ==
  /\ \A j \in running : j.id < nextJob
  /\ \A k \in 1..Len(jobs) : jobs[k].id < nextJob
  /\ \A q \in 1..Len(rqueue) :
        rqueue[q].member = "JobRemoved" => rqueue[q].id < nextJob

SameJob ==
  \A j \in running : \A k \in 1..Len(jobs) :
    j.id = jobs[k].id => j.system = jobs[k].system

DoneIsMounted ==
  \A q \in 1..Len(rqueue) : \A k \in 1..Len(jobs) :
    /\ rqueue[q].member = "JobRemoved"
    /\ rqueue[q].id = jobs[k].id
    /\ rqueue[q].result = "done"
    => IsMounted(jobs[k].system)

Allocated == mhelper # Null => mhelper.alloc >= AllocBase

(* What the record names is mounted: a system is never kept from the       *)
(* drives on the word of a job that mounted nothing (systemd.c:456-481).   *)
RecordedIsMounted == \A s \in Recorded : IsMounted(s)

(* The record's array holds what is written to it, for every growth by     *)
(* ALLOC_MULTIPLIER (systemd.c:471-481).                                   *)
RecordFits == Len(mhelper.systems) <= mhelper.alloc

IInv ==
  /\ TypeOK /\ Counting /\ FreshIds /\ SameJob /\ DoneIsMounted
  /\ RecordedIsMounted /\ Allocated /\ RecordFits

(* Conversely, when the call returns, what a unit mounted is recorded,     *)
(* unless the call gave up on it: a failed batch forgets jobs, a completed *)
(* one does not (systemd.c:449-485).                                       *)
MountedIsRecorded ==
  pc = "returned" =>
    \A s \in System : IsMounted(s) => s \in Recorded \cup lost

(* The array of jobs is exactly large enough: it is never written past its *)
(* end, and the mismatch branch is never taken (systemd.c:402-428).        *)
JobsFit ==
  pc \in {"starting", "waiting"} =>
    /\ Len(jobs) <= JobsCount(layer)
    /\ i > Len(shelper.mounts) => Len(jobs) = JobsCount(layer)

(* The call returns whatever the manager and the connection do: hung jobs, *)
(* foreign signals, unreadable messages, a lost connection                 *)
(* (systemd.c:436-493).                                                    *)
CallReturns == <>(pc = "returned")
=============================================================================
