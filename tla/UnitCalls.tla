----------------------------- MODULE UnitCalls -----------------------------
(***************************************************************************)
(* The calls that wait for one answer: systemd_start_stop_unit, behind     *)
(* systemd_start_unit, systemd_stop_unit and systemd_restart_unit, and     *)
(* systemd_reload (src/src/systemd.c).  The program makes them one after   *)
(* the other on the one connection, so that what one call leaves in the    *)
(* receive queue is read by the next.                                      *)
(*                                                                         *)
(* A job of this module stands for any job on a unit; Bus's mtab then logs *)
(* the units whose jobs took effect.                                       *)
(***************************************************************************)
EXTENDS Bus

CONSTANTS
  Scripts,   \* the sequences of calls the program may make
  Loops      \* SYSTEMD_START_TIMEOUT_LOOP

(* A call on a unit, or the reload. *)
UnitCall(u) == [op |-> "unit", unit |-> u]
ReloadCall == [op |-> "reload"]

ASSUME ScriptsAssumption ==
  Scripts \subseteq Seq({UnitCall(u) : u \in System} \cup {ReloadCall})
(* The routine reloads once (eemount.c:549-553). *)
ASSUME OneReloadAssumption ==
  \A s \in Scripts : \A j, k \in 1..Len(s) :
    s[j].op = "reload" /\ s[k].op = "reload" => j = k
ASSUME LoopsAssumption == Loops \in Nat \ {0}

VARIABLES
  script,     \* the calls to make
  c,          \* the call being made, or to be made next
  pc,         \* "idle" or "waiting"
  jobId,      \* the job the call waits for
  pending,    \* the reload was seen to begin
  failed,     \* messages that could not be read
  tick,       \* rounds of waiting so far
  verdicts,   \* what the calls returned
  reload,     \* the manager's reload: "never", "requested", "active", "over"
  doneJobs    \* history: ids of the jobs that were done

localVars == <<jobId, pending, failed, tick>>
vars == <<busVars, localVars, script, c, pc, verdicts, reload, doneJobs>>

(* The call with what became of it: its value, and how it came to it. *)
Verdict ==
  [value : {0, 1}, job : Nat,
   how : {"report", "refused", "unreadable", "timeout"}]

Current == script[c]
InUnitCall == pc = "waiting" /\ Current.op = "unit"
InReload == pc = "waiting" /\ Current.op = "reload"

-----------------------------------------------------------------------------

Finish(value, job, how) ==
  /\ pc' = "idle"
  /\ c' = c + 1
  /\ verdicts' = Append(verdicts, [value |-> value, job |-> job, how |-> how])

StartWaitingMutant ==
  /\ pc' = "waiting"
  /\ tick' = 0 /\ pending' = FALSE
  /\ UNCHANGED <<failed, c, verdicts>>

StartWaiting ==
  /\ pc' = "waiting"
  /\ failed' = 0 /\ tick' = 0 /\ pending' = FALSE
  /\ UNCHANGED <<c, verdicts>>

CanBegin(op) == pc = "idle" /\ c <= Len(script) /\ Current.op = op

BeginUnit ==
  /\ CanBegin("unit")
  /\ Accept(Current.unit)
  /\ jobId' = nextJob
  /\ StartWaiting
  /\ UNCHANGED <<link, rqueue, foreign, mtab, script, reload, doneJobs>>

(* The match or the method is refused, or its answer lost. *)
BeginUnitRefused ==
  /\ CanBegin("unit")
  /\ Reject(Current.unit)
  /\ Finish(1, 0, "refused")
  /\ UNCHANGED <<link, rqueue, foreign, mtab, localVars, script, reload, doneJobs>>

BeginReload ==
  /\ CanBegin("reload") /\ link = "up"
  /\ reload' = "requested"
  /\ StartWaiting
  /\ UNCHANGED <<busVars, jobId, script, doneJobs>>

BeginReloadRefused ==
  /\ CanBegin("reload")
  /\ reload' \in {reload, "requested"}
  /\ Finish(1, 0, "refused")
  /\ UNCHANGED <<busVars, localVars, script, doneJobs>>

-----------------------------------------------------------------------------
(* The waiting loops, which are alike *)

CountUnreadable ==
  /\ failed' = failed + 1
  /\ IF failed + 1 = 3
     THEN Finish(1, jobId, "unreadable")
     ELSE UNCHANGED <<pc, c, verdicts>>

CanRead == IF Current.op = "unit" THEN "JobRemoved" ELSE "Reloading"

Take == pc = "waiting" /\ rqueue # <<>> /\ rqueue' = Tail(rqueue)

ReceiveUnreadable ==
  /\ Take
  /\ Head(rqueue).member # CanRead
  /\ CountUnreadable
  /\ UNCHANGED <<link, running, nextJob, foreign, mtab, jobId, pending, tick,
                 script, reload, doneJobs>>

(* A closed connection: the last message, Disconnected, is read again. *)
RereadDisconnected ==
  /\ pc = "waiting" /\ rqueue = <<>> /\ link = "closed"
  /\ CountUnreadable
  /\ UNCHANGED <<busVars, jobId, pending, tick, script, reload, doneJobs>>

IsOursMutant(m) == m.id # ForeignId
IsOurs(m) == m.id = jobId

ReceiveJobRemoved ==
  /\ Take
  /\ InUnitCall /\ Head(rqueue).member = "JobRemoved"
  /\ IF IsOurs(Head(rqueue))
     THEN Finish(IF Head(rqueue).result = "done" THEN 0 ELSE 1, jobId, "report")
     ELSE UNCHANGED <<pc, c, verdicts>>
  /\ UNCHANGED <<link, running, nextJob, foreign, mtab, localVars,
                 script, reload, doneJobs>>

IsReloadOverMutant(active) == ~pending /\ active
IsReloadOver(active) == pending /\ ~active

ReceiveReloading ==
  /\ Take
  /\ InReload /\ Head(rqueue).member = "Reloading"
  /\ LET active == Head(rqueue).active IN
       /\ pending' = (pending \/ active)
       /\ IF IsReloadOver(active)
          THEN Finish(0, 0, "report")
          ELSE UNCHANGED <<pc, c, verdicts>>
  /\ UNCHANGED <<link, running, nextJob, foreign, mtab, jobId, failed, tick,
                 script, reload, doneJobs>>

WaitMutant ==
  /\ pc = "waiting" /\ rqueue = <<>> /\ link = "up"
  /\ UNCHANGED vars

Wait ==
  /\ pc = "waiting" /\ rqueue = <<>> /\ link = "up"
  /\ tick' = tick + 1
  /\ IF tick + 1 = Loops
     THEN Finish(1, jobId, "timeout")
     ELSE UNCHANGED <<pc, c, verdicts>>
  /\ UNCHANGED <<busVars, jobId, pending, failed, script, reload, doneJobs>>

Program ==
  \/ BeginUnit \/ BeginUnitRefused \/ BeginReload \/ BeginReloadRefused
  \/ ReceiveUnreadable \/ RereadDisconnected
  \/ ReceiveJobRemoved \/ ReceiveReloading \/ Wait

-----------------------------------------------------------------------------
(* The manager *)

(* Signals are heard during the calls they are meant for, and maybe        *)
(* between such a call and the next one.                                   *)
Hears(op) ==
  IF pc = "waiting"
  THEN IF Current.op = op THEN Always ELSE Never
  ELSE IF c > 1 /\ script[c - 1].op = op THEN Maybe ELSE Never

FinishJob ==
  \E j \in running, result \in Result :
    /\ RemoveJobAs(j, result, Hears("unit"))
    /\ doneJobs' = IF result = "done" THEN doneJobs \cup {j.id} ELSE doneJobs
    /\ UNCHANGED reload

(* A reload tells when it begins and when it is over. *)
StepReload ==
  /\ \/ reload = "requested" /\ reload' = "active" /\ Emit(Reloading(TRUE), Hears("reload"))
     \/ reload = "active" /\ reload' = "over" /\ Emit(Reloading(FALSE), Hears("reload"))
  /\ UNCHANGED <<link, running, nextJob, foreign, mtab, doneJobs>>

Manager ==
  /\ \/ FinishJob \/ StepReload
     \/ (ForeignJobRemoved(Hears("unit")) \/ Hangup) /\ UNCHANGED <<reload, doneJobs>>
  /\ UNCHANGED <<localVars, script, c, pc, verdicts>>

Init ==
  /\ BusInit /\ mtab = <<>>
  /\ script \in Scripts
  /\ c = 1 /\ pc = "idle" /\ verdicts = <<>>
  /\ jobId = 0 /\ pending = FALSE /\ failed = 0 /\ tick = 0
  /\ reload = "never"
  /\ doneJobs = {}

Next == Program \/ Manager

Spec == Init /\ [][Next]_vars

FairSpec == Spec /\ WF_vars(Program)

-----------------------------------------------------------------------------
(* Properties *)

TypeOK ==
  /\ BusTypeOK
  /\ script \in Scripts
  /\ c \in 1..(Len(script) + 1) /\ pc \in {"idle", "waiting"}
  /\ jobId \in Nat /\ pending \in BOOLEAN
  /\ failed \in 0..3 /\ tick \in 0..Loops
  /\ verdicts \in Seq(Verdict) /\ Len(verdicts) = c - 1
  /\ reload \in {"never", "requested", "active", "over"}
  /\ doneJobs \in SUBSET Nat

(* A unit call returns 0 only on the report of its own job, whatever late  *)
(* reports of earlier calls' jobs it meets in the queue                    *)
(* (systemd.c:304-330).                                                    *)
OwnVerdict ==
  \A k \in 1..Len(verdicts) :
    script[k].op = "unit" /\ verdicts[k].value = 0 => verdicts[k].job \in doneJobs

(* systemd_reload returns 0 only when the manager is through with the      *)
(* reload, so that units started next are the ones on disk                 *)
(* (systemd.c:53-82).                                                      *)
ReloadIsOver ==
  \A k \in 1..Len(verdicts) :
    script[k].op = "reload" /\ verdicts[k].value = 0 => reload = "over"

(* What a fresh connection and a reload that was answered leave in the     *)
(* queue is never enough to make a later unit call give up: while the      *)
(* connection holds, no unit call fails over unreadable messages           *)
(* (systemd.c:312-322).                                                    *)
UnitCallsHear ==
  link = "up"
  /\ (\A k \in 1..Len(verdicts) :
        script[k].op = "reload" => verdicts[k].how # "refused") =>
    \A k \in 1..Len(verdicts) :
      script[k].op = "unit" => verdicts[k].how # "unreadable"

(* systemd.h says of systemd_reload: "0 for success, 1 for failed".  A     *)
(* reload the manager is through with is no failure, unless it came too    *)
(* late or the connection was lost.                                        *)
FailedReloadFailed ==
  \A k \in 1..Len(verdicts) :
    /\ script[k].op = "reload" /\ verdicts[k].value = 1
    /\ reload = "over" /\ link = "up"
    => verdicts[k].how # "unreadable"

(* Every call returns: the program gets through its calls, with hung jobs, *)
(* foreign signals and a lost connection (systemd.c:53-84, 312-334).       *)
ScriptEnds == <>(c > Len(script))
=============================================================================
