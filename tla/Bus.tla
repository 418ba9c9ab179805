-------------------------------- MODULE Bus --------------------------------
(***************************************************************************)
(* What eemount sees of systemd, through its one sd-bus connection.        *)
(*                                                                         *)
(* Everything here is outside src/: the manager that runs the jobs, the    *)
(* mount stacks its jobs produce, and the connection that carries method   *)
(* calls and signals.  It is modelled from the calls made in               *)
(* src/src/systemd.c.  The modules that extend this one add the program.   *)
(*                                                                         *)
(* What a mount provides is called a system, as in the code; a job is the  *)
(* manager's work on one mount unit.  A job outlives the call that asked   *)
(* for it: nothing in the program cancels it.                              *)
(***************************************************************************)
EXTENDS Naturals, Sequences

CONSTANTS
  System,      \* what units and drives provide: names of game systems
  Inside,      \* pairs <<s, t>>: the directory of s lies inside that of t
  MaxForeign,  \* bound: JobRemoved signals of other programs' jobs
  MaxLeftover  \* bound: unreadable messages earlier calls left in the queue

ASSUME BoundsAssumption == MaxForeign \in Nat /\ MaxLeftover \in Nat

VARIABLES
  link,        \* the connection, "up" or "closed"
  rqueue,      \* messages received and not yet processed, oldest first
  running,     \* jobs the manager accepted and has not removed
  nextJob,     \* the id of the manager's next job
  foreign,     \* how many foreign JobRemoved signals were emitted
  mtab         \* the mounts under /storage/roms, in the order they were made

busVars == <<link, rqueue, running, nextJob, foreign, mtab>>

Result   == {"done", "failed"}   \* "failed": any result other than "done"
Provider == {"unit", "drive", "EEROMS", "overlay"}
Mount    == [at : System, by : Provider]
Job      == [id : Nat \ {0}, system : System]

(* Foreign jobs have ids of their own; they are all represented by 0. *)
ForeignId == 0

JobRemoved(id, result) == [member |-> "JobRemoved", id |-> id, result |-> result]

Reloading(active) == [member |-> "Reloading", active |-> active]

(* A message that can be read neither as the "uoss" of JobRemoved nor as   *)
(* the "b" of Reloading: the NameAcquired signal every new connection      *)
(* gets, and the Disconnected message sd-bus delivers when the connection  *)
(* is lost.                                                                *)
Unreadable == [member |-> "Unreadable"]

Message == [member : {"JobRemoved"}, id : Nat, result : Result]
             \cup [member : {"Reloading"}, active : BOOLEAN]
             \cup [member : {"Unreadable"}]

BusTypeOK ==
  /\ link \in {"up", "closed"}
  /\ rqueue \in Seq(Message)
  /\ running \in SUBSET Job
  /\ nextJob \in Nat \ {0}
  /\ foreign \in Nat
  /\ mtab \in Seq(Mount)

(* A connection that was just opened, or one that was already used. *)
BusInit ==
  /\ link = "up"
  /\ rqueue \in {[k \in 1..n |-> Unreadable] : n \in 0..MaxLeftover}
  /\ running = {}
  /\ nextJob = 1
  /\ foreign = 0

PutMount(s, provider) == mtab' = Append(mtab, [at |-> s, by |-> provider])

IsMounted(s) == \E p \in 1..Len(mtab) : mtab[p].at = s

-----------------------------------------------------------------------------
(* The manager and the connection *)

(* A signal reaches the queue when the program holds a match for it.  Once *)
(* the match is released the signal may still come, for RemoveMatch is     *)
(* sent without waiting for an answer, until the next call the program     *)
(* makes is answered.  "heard" says which of the two may happen.           *)
Always == {TRUE}
Maybe == BOOLEAN
Never == {FALSE}

Emit(message, heard) ==
  \/ TRUE \in heard /\ link = "up" /\ rqueue' = Append(rqueue, message)
  \/ (FALSE \in heard \/ link = "closed") /\ rqueue' = rqueue

(* A mount unit is ordered after the one its directory lies inside of. *)
IsDue(s) == \A j \in running : <<s, j.system>> \notin Inside

(* The manager finishes job j.  One that is done has mounted its unit; if  *)
(* something is mounted there already the manager may take the unit for    *)
(* active and mount nothing.                                               *)
RemoveJobAs(j, result, heard) ==
  /\ running' = running \ {j}
  /\ result = "done" => IsDue(j.system)
  /\ \/ result = "done" /\ PutMount(j.system, "unit")
     \/ /\ result = "done" => IsMounted(j.system)
        /\ UNCHANGED mtab
  /\ Emit(JobRemoved(j.id, result), heard)
  /\ UNCHANGED <<link, nextJob, foreign>>

RemoveJob(heard) ==
  \E j \in running, result \in Result : RemoveJobAs(j, result, heard)

ForeignJobRemoved(heard) ==
  /\ foreign < MaxForeign
  /\ foreign' = foreign + 1
  /\ \E result \in Result : Emit(JobRemoved(ForeignId, result), heard)
  /\ UNCHANGED <<link, running, nextJob, mtab>>

(* The connection is lost.  sd-bus delivers Disconnected last; what was    *)
(* queued before it is lost too when a method call notices the loss.       *)
Hangup ==
  /\ link = "up"
  /\ link' = "closed"
  /\ rqueue' \in {Append(rqueue, Unreadable), <<Unreadable>>}
  /\ UNCHANGED <<running, nextJob, foreign, mtab>>

Environment(heard) ==
  RemoveJob(heard) \/ ForeignJobRemoved(heard) \/ Hangup

-----------------------------------------------------------------------------
(* Method calls the program makes *)

(* StartUnit is answered with the id of a new job. *)
Accept(s) ==
  /\ link = "up"
  /\ running' = running \cup {[id |-> nextJob, system |-> s]}
  /\ nextJob' = nextJob + 1

(* StartUnit fails for the caller.  Its answer may have been lost, or late *)
(* beyond the call's own timeout: the job may exist all the same.          *)
Reject(s) ==
  \/ UNCHANGED <<running, nextJob>>
  \/ /\ running' = running \cup {[id |-> nextJob, system |-> s]}
     /\ nextJob' = nextJob + 1
=============================================================================
