-------------------------- MODULE UnitCallsProofs ---------------------------
(***************************************************************************)
(* What is proved of UnitCalls for every sequence of calls with one reload *)
(* in it: a call returns success only on the report of its own job, a      *)
(* reload only when the manager is through with it, and what the calls     *)
(* leave in the queue makes no later one give up.                          *)
(***************************************************************************)
EXTENDS UnitCalls, SequenceTheorems, TLAPS

Queued == {rqueue[q] : q \in 1..Len(rqueue)}

(* While a call waits its counters are below their limits, and the job a   *)
(* unit call waits for is one of the program's own.                        *)
Waiting ==
  pc = "waiting" =>
    /\ c <= Len(script) /\ failed < 3 /\ tick < Loops
    /\ Current.op = "unit" => jobId # ForeignId

(* What the queue tells of jobs and of the reload is so. *)
ToldTruth ==
  \A m \in Queued :
    /\ m.member = "JobRemoved" /\ m.id # ForeignId /\ m.result = "done" => m.id \in doneJobs
    /\ m.member = "Reloading" => reload \in {"active", "over"}
    /\ m.member = "Reloading" /\ ~m.active => reload = "over"

(* The manager knows of a reload only after the program has asked for it.  *)
AskedFor ==
  reload # "never" =>
    \E k \in 1..Len(script) :
      script[k].op = "reload" /\ (k < c \/ (k = c /\ pc = "waiting"))

CallsInv ==
  TypeOK /\ Waiting /\ ToldTruth /\ AskedFor /\ OwnVerdict /\ ReloadIsOver

-----------------------------------------------------------------------------
(* The queue *)

LEMMA TailQueued ==
  ASSUME rqueue \in Seq(Message), rqueue # <<>>, rqueue' = Tail(rqueue)
  PROVE  /\ rqueue' \in Seq(Message) /\ Queued' \subseteq Queued
         /\ Head(rqueue) \in Queued /\ Head(rqueue) \in Message
<1>1. /\ Len(rqueue) \in Nat \ {0}
      /\ Head(rqueue) = rqueue[1]
      /\ rqueue' \in Seq(Message) /\ Len(rqueue') = Len(rqueue) - 1
      /\ \A q \in 1..Len(rqueue') : rqueue'[q] = rqueue[q + 1]
  BY EmptySeq, HeadTailProperties
<1>2. \A q \in 1..Len(rqueue') : q + 1 \in 1..Len(rqueue)
  BY <1>1
<1>3. rqueue[1] \in Message
  BY <1>1, ElementOfSeq
<1> QED BY <1>1, <1>2, <1>3 DEF Queued

LEMMA EmitQueued ==
  ASSUME rqueue \in Seq(Message), NEW m \in Message, NEW heard, Emit(m, heard)
  PROVE  rqueue' \in Seq(Message) /\ Queued' \subseteq Queued \cup {m}
<1>1. CASE rqueue' = rqueue
  BY <1>1 DEF Queued
<1>2. CASE rqueue' = Append(rqueue, m)
  <2>1. /\ rqueue' \in Seq(Message) /\ Len(rqueue) \in Nat /\ Len(rqueue') = Len(rqueue) + 1
        /\ \A q \in 1..Len(rqueue) : rqueue'[q] = rqueue[q]
        /\ rqueue'[Len(rqueue) + 1] = m
    BY <1>2, AppendProperties, LenProperties
  <2> QED BY <2>1 DEF Queued
<1> QED BY <1>1, <1>2 DEF Emit

-----------------------------------------------------------------------------
(* The script and the verdicts *)

LEMMA ScriptType ==
  ASSUME TypeOK
  PROVE  /\ Len(script) \in Nat
         /\ \A k \in 1..Len(script) : script[k].op \in {"unit", "reload"}
         /\ \A k \in 1..Len(script) : script[k].op = "unit" => script[k].unit \in System
         /\ \A j, k \in 1..Len(script) :
              script[j].op = "reload" /\ script[k].op = "reload" => j = k
<1>1. script \in Scripts /\ script \in Seq({UnitCall(u) : u \in System} \cup {ReloadCall})
  BY ScriptsAssumption DEF TypeOK
<1>2. \A k \in 1..Len(script) : script[k] \in {UnitCall(u) : u \in System} \cup {ReloadCall}
  BY <1>1, ElementOfSeq
<1> QED BY <1>1, <1>2, LenProperties, OneReloadAssumption DEF UnitCall, ReloadCall

(* A call that ends adds its verdict and leaves the earlier ones. *)
LEMMA FinishVerdicts ==
  ASSUME TypeOK, c <= Len(script), NEW value \in {0, 1}, NEW job \in Nat,
         NEW how \in {"report", "refused", "unreadable", "timeout"},
         Finish(value, job, how)
  PROVE  /\ verdicts' \in Seq(Verdict) /\ Len(verdicts') = c /\ c' = c + 1 /\ pc' = "idle"
         /\ Len(verdicts) = c - 1 /\ c \in 1..Len(script) /\ c' \in 1..(Len(script) + 1)
         /\ \A k \in 1..Len(verdicts) : verdicts'[k] = verdicts[k]
         /\ verdicts'[c].value = value /\ verdicts'[c].job = job /\ verdicts'[c].how = how
         /\ \A k \in 1..Len(verdicts') : k \in 1..Len(verdicts) \/ k = c
<1> DEFINE v == [value |-> value, job |-> job, how |-> how]
<1>1. /\ v \in Verdict /\ verdicts \in Seq(Verdict) /\ verdicts' = Append(verdicts, v)
      /\ v.value = value /\ v.job = job /\ v.how = how
  BY DEF Finish, Verdict, TypeOK
<1> HIDE DEF v
<1>2. /\ Len(script) \in Nat /\ c \in 1..(Len(script) + 1) /\ Len(verdicts) = c - 1
      /\ c' = c + 1 /\ pc' = "idle"
  BY ScriptType DEF TypeOK, Finish
<1>3. /\ verdicts' \in Seq(Verdict) /\ Len(verdicts') = Len(verdicts) + 1
      /\ \A k \in 1..Len(verdicts) : verdicts'[k] = verdicts[k]
      /\ verdicts'[Len(verdicts) + 1] = v
  BY <1>1, AppendProperties
<1>4. Len(verdicts) + 1 = c
  BY <1>2
<1> QED BY <1>1, <1>2, <1>3, <1>4

(* What a verdict must be for the two properties to survive it. *)
LEMMA VerdictKeeps ==
  ASSUME CallsInv, c <= Len(script), NEW value \in {0, 1}, NEW job \in Nat,
         NEW how \in {"report", "refused", "unreadable", "timeout"},
         Finish(value, job, how), UNCHANGED script,
         doneJobs \subseteq doneJobs', reload = "over" => reload' = "over",
         value = 0 /\ script[c].op = "unit" => job \in doneJobs',
         value = 0 /\ script[c].op = "reload" => reload' = "over"
  PROVE  OwnVerdict' /\ ReloadIsOver'
<1>1. /\ \A k \in 1..Len(verdicts) : verdicts'[k] = verdicts[k]
      /\ verdicts'[c].value = value /\ verdicts'[c].job = job
      /\ \A k \in 1..Len(verdicts') : k \in 1..Len(verdicts) \/ k = c
  BY FinishVerdicts DEF CallsInv
<1>2. OwnVerdict'
  BY <1>1 DEF CallsInv, OwnVerdict
<1>3. ReloadIsOver'
  BY <1>1 DEF CallsInv, ReloadIsOver
<1> QED BY <1>2, <1>3

LEMMA NoVerdictKeeps ==
  ASSUME CallsInv, UNCHANGED <<verdicts, script>>,
         doneJobs \subseteq doneJobs', reload = "over" => reload' = "over"
  PROVE  OwnVerdict' /\ ReloadIsOver'
BY DEF CallsInv, OwnVerdict, ReloadIsOver

(* The call that has just ended, if it is the reload, still is one the     *)
(* program has made.                                                       *)
LEMMA AskedForKeeps ==
  ASSUME CallsInv, UNCHANGED script,
         reload' = "never" \/ reload # "never",
         \/ UNCHANGED <<pc, c>>
         \/ pc = "waiting" /\ c' = c + 1
         \/ pc = "idle" /\ c' \in {c, c + 1}
  PROVE  AskedFor'
<1> SUFFICES ASSUME reload' # "never" PROVE AskedFor'
  BY DEF AskedFor
<1>1. PICK k \in 1..Len(script) :
        script[k].op = "reload" /\ (k < c \/ (k = c /\ pc = "waiting"))
  BY DEF CallsInv, AskedFor
<1>2. Len(script) \in Nat /\ c \in Nat
  BY ScriptType DEF CallsInv, TypeOK
<1>3. k < c' \/ (k = c' /\ pc' = "waiting")
  BY <1>1, <1>2
<1> QED BY <1>1, <1>3 DEF AskedFor

(* No reload was asked for before the only one begins. *)
LEMMA FirstReload ==
  ASSUME CallsInv, CanBegin("reload")
  PROVE  reload = "never" /\ c \in 1..Len(script)
<1>1. /\ c \in 1..Len(script) /\ script[c].op = "reload" /\ pc = "idle"
      /\ \A j, k \in 1..Len(script) :
           script[j].op = "reload" /\ script[k].op = "reload" => j = k
  BY ScriptType DEF CallsInv, TypeOK, CanBegin, Current
<1> QED BY <1>1 DEF CallsInv, AskedFor

-----------------------------------------------------------------------------
(* The steps *)

LEMMA UnitCallsInit == Init => CallsInv
<1> SUFFICES ASSUME Init PROVE CallsInv
  OBVIOUS
<1>1. PICK n \in 0..MaxLeftover : rqueue = [k \in 1..n |-> Unreadable]
  BY DEF Init, BusInit
<1>2. n \in Nat /\ rqueue \in Seq(Message) /\ Len(rqueue) = n
  BY <1>1, BoundsAssumption DEF Message, Unreadable
<1>3. \A m \in Queued : m = Unreadable
  BY <1>1, <1>2 DEF Queued
<1>4. Len(script) \in Nat
  BY ScriptsAssumption, LenProperties DEF Init
<1>5. TypeOK
  <2>1. BusTypeOK
    BY <1>2 DEF Init, BusInit, BusTypeOK
  <2>2. c \in 1..(Len(script) + 1) /\ tick \in 0..Loops /\ failed \in 0..3
    BY <1>4, LoopsAssumption DEF Init
  <2>3. verdicts \in Seq(Verdict) /\ Len(verdicts) = c - 1
    BY EmptySeq DEF Init
  <2> QED BY <2>1, <2>2, <2>3 DEF Init, TypeOK
<1> QED BY <1>3, <1>5 DEF Init, CallsInv, Waiting, ToldTruth, AskedFor, OwnVerdict,
                         ReloadIsOver, Unreadable

LEMMA BeginUnitKeeps == CallsInv /\ BeginUnit => CallsInv'
<1> SUFFICES ASSUME CallsInv, BeginUnit PROVE CallsInv'
  OBVIOUS
<1> USE DEF BeginUnit, StartWaiting, Accept, CanBegin, Current
<1>1. /\ Len(script) \in Nat /\ c \in 1..Len(script)
      /\ script[c].unit \in System
  BY ScriptType DEF CallsInv, TypeOK
<1>2. nextJob \in Nat \ {0} /\ nextJob' \in Nat \ {0}
  BY DEF CallsInv, TypeOK, BusTypeOK
<1>3. running' \in SUBSET Job
  BY <1>1, <1>2 DEF CallsInv, TypeOK, BusTypeOK, Job
<1>4. TypeOK'
  <2>1. BusTypeOK'
    BY <1>2, <1>3 DEF CallsInv, TypeOK, BusTypeOK
  <2>2. tick' \in 0..Loops /\ failed' \in 0..3 /\ jobId' \in Nat
    BY <1>2, LoopsAssumption
  <2> QED BY <2>1, <2>2 DEF CallsInv, TypeOK
<1>5. Waiting'
  BY <1>1, <1>2, LoopsAssumption DEF Waiting, ForeignId
<1>6. ToldTruth'
  BY DEF CallsInv, ToldTruth, Queued
<1>7. AskedFor'
  BY AskedForKeeps
<1> QED BY <1>4, <1>5, <1>6, <1>7, NoVerdictKeeps DEF CallsInv

LEMMA BeginUnitRefusedKeeps == CallsInv /\ BeginUnitRefused => CallsInv'
<1> SUFFICES ASSUME CallsInv, BeginUnitRefused PROVE CallsInv'
  OBVIOUS
<1> USE DEF BeginUnitRefused, CanBegin, Current, localVars
<1>1. /\ Len(script) \in Nat /\ c \in 1..Len(script)
      /\ script[c].unit \in System
  BY ScriptType DEF CallsInv, TypeOK
<1>2. nextJob \in Nat \ {0} /\ nextJob' \in Nat \ {0}
  BY DEF CallsInv, TypeOK, BusTypeOK, Reject
<1>3. running' \in SUBSET Job
  BY <1>1, <1>2 DEF CallsInv, TypeOK, BusTypeOK, Job, Reject
<1>4. /\ verdicts' \in Seq(Verdict) /\ Len(verdicts') = c' - 1 /\ c' = c + 1
      /\ pc' = "idle" /\ c' \in 1..(Len(script) + 1)
  BY <1>1, FinishVerdicts DEF CallsInv
<1>5. TypeOK'
  BY <1>2, <1>3, <1>4 DEF CallsInv, TypeOK, BusTypeOK
<1>6. Waiting' /\ ToldTruth'
  BY <1>4 DEF CallsInv, Waiting, ToldTruth, Queued
<1>7. AskedFor'
  BY <1>4, AskedForKeeps
<1>8. OwnVerdict' /\ ReloadIsOver'
  BY <1>1, VerdictKeeps
<1> QED BY <1>5, <1>6, <1>7, <1>8 DEF CallsInv

LEMMA BeginReloadKeeps == CallsInv /\ BeginReload => CallsInv'
<1> SUFFICES ASSUME CallsInv, BeginReload PROVE CallsInv'
  OBVIOUS
<1> USE DEF BeginReload, StartWaiting, CanBegin, Current, busVars
<1>1. reload = "never" /\ c \in 1..Len(script) /\ script[c].op = "reload"
  BY FirstReload
<1>2. TypeOK'
  <2>1. tick' \in 0..Loops /\ failed' \in 0..3
    BY LoopsAssumption
  <2> QED BY <2>1 DEF CallsInv, TypeOK, BusTypeOK
<1>3. Waiting'
  BY <1>1, LoopsAssumption DEF Waiting
<1>4. ToldTruth'
  BY <1>1 DEF CallsInv, ToldTruth, Queued
<1>5. AskedFor'
  BY <1>1 DEF AskedFor
<1>6. OwnVerdict' /\ ReloadIsOver'
  BY <1>1, NoVerdictKeeps
<1> QED BY <1>2, <1>3, <1>4, <1>5, <1>6 DEF CallsInv

LEMMA BeginReloadRefusedKeeps == CallsInv /\ BeginReloadRefused => CallsInv'
<1> SUFFICES ASSUME CallsInv, BeginReloadRefused PROVE CallsInv'
  OBVIOUS
<1> USE DEF BeginReloadRefused, CanBegin, Current, busVars, localVars
<1>1. reload = "never" /\ c \in 1..Len(script) /\ script[c].op = "reload"
  BY FirstReload
<1>2. /\ verdicts' \in Seq(Verdict) /\ Len(verdicts') = c' - 1 /\ c' = c + 1
      /\ pc' = "idle" /\ c' \in 1..(Len(script) + 1) /\ Len(script) \in Nat
  BY <1>1, FinishVerdicts, ScriptType DEF CallsInv
<1>3. TypeOK'
  BY <1>2 DEF CallsInv, TypeOK, BusTypeOK
<1>4. Waiting' /\ ToldTruth'
  BY <1>1, <1>2 DEF CallsInv, Waiting, ToldTruth, Queued
<1>5. AskedFor'
  BY <1>1, <1>2 DEF AskedFor
<1>6. OwnVerdict' /\ ReloadIsOver'
  BY <1>1, VerdictKeeps
<1> QED BY <1>3, <1>4, <1>5, <1>6 DEF CallsInv

(* The two ways a waiting call takes a step: it ends, or it does not. *)
LEMMA WaitingStep ==
  ASSUME CallsInv, pc = "waiting", NEW value \in {0, 1}, NEW job \in Nat,
         NEW how \in {"report", "refused", "unreadable", "timeout"},
         \/ Finish(value, job, how)
         \/ UNCHANGED <<pc, c, verdicts>>,
         BusTypeOK', UNCHANGED <<script, jobId, reload, doneJobs>>,
         pending' \in BOOLEAN, failed' \in 0..3, tick' \in 0..Loops,
         pc' = "waiting" => failed' < 3 /\ tick' < Loops,
         Queued' \subseteq Queued,
         Finish(value, job, how) /\ value = 0 /\ Current.op = "unit" => job \in doneJobs,
         Finish(value, job, how) /\ value = 0 /\ Current.op = "reload" => reload = "over"
  PROVE  CallsInv'
<1>1. /\ Len(script) \in Nat /\ c \in 1..Len(script)
  BY ScriptType DEF CallsInv, TypeOK, Waiting
<1>2. ToldTruth'
  BY DEF CallsInv, ToldTruth
<1>3. CASE Finish(value, job, how)
  <2>1. /\ verdicts' \in Seq(Verdict) /\ Len(verdicts') = c' - 1 /\ c' = c + 1
        /\ pc' = "idle" /\ c' \in 1..(Len(script) + 1)
    BY <1>1, <1>3, FinishVerdicts DEF CallsInv
  <2>2. TypeOK'
    BY <2>1 DEF CallsInv, TypeOK
  <2>3. Waiting' /\ AskedFor'
    BY <2>1, AskedForKeeps DEF Waiting
  <2>4. OwnVerdict' /\ ReloadIsOver'
    BY <1>1, <1>3, VerdictKeeps DEF Current
  <2> QED BY <1>2, <2>2, <2>3, <2>4 DEF CallsInv
<1>4. CASE UNCHANGED <<pc, c, verdicts>>
  <2>1. TypeOK'
    BY <1>4 DEF CallsInv, TypeOK
  <2>2. Waiting' /\ AskedFor'
    BY <1>4, AskedForKeeps DEF CallsInv, Waiting, Current
  <2> QED BY <1>2, <1>4, <2>1, <2>2, NoVerdictKeeps DEF CallsInv
<1> QED BY <1>3, <1>4

LEMMA CountUnreadableKeeps ==
  ASSUME CallsInv, pc = "waiting", CountUnreadable, BusTypeOK',
         Queued' \subseteq Queued,
         UNCHANGED <<jobId, pending, tick, script, reload, doneJobs>>
  PROVE  CallsInv'
<1>1. failed \in 0..2 /\ tick < Loops /\ jobId \in Nat /\ tick \in 0..Loops /\ pending \in BOOLEAN
  BY DEF CallsInv, Waiting, TypeOK
<1>2. \/ Finish(1, jobId, "unreadable")
      \/ UNCHANGED <<pc, c, verdicts>>
  BY DEF CountUnreadable
<1>3. failed' \in 0..3 /\ (pc' = "waiting" => failed' < 3 /\ tick' < Loops)
  BY <1>1 DEF CountUnreadable, Finish
<1> QED BY <1>1, <1>2, <1>3, WaitingStep

LEMMA ReceiveUnreadableKeeps == CallsInv /\ ReceiveUnreadable => CallsInv'
<1> SUFFICES ASSUME CallsInv, ReceiveUnreadable PROVE CallsInv'
  OBVIOUS
<1>1. rqueue' \in Seq(Message) /\ Queued' \subseteq Queued
  BY TailQueued DEF ReceiveUnreadable, Take, CallsInv, TypeOK, BusTypeOK
<1>2. BusTypeOK'
  BY <1>1 DEF ReceiveUnreadable, CallsInv, TypeOK, BusTypeOK
<1> QED BY <1>1, <1>2, CountUnreadableKeeps DEF ReceiveUnreadable, Take

LEMMA RereadKeeps == CallsInv /\ RereadDisconnected => CallsInv'
<1> SUFFICES ASSUME CallsInv, RereadDisconnected PROVE CallsInv'
  OBVIOUS
<1>1. BusTypeOK' /\ Queued' \subseteq Queued
  BY DEF RereadDisconnected, busVars, CallsInv, TypeOK, BusTypeOK, Queued
<1> QED BY <1>1, CountUnreadableKeeps DEF RereadDisconnected

(* Success only on the report of the call's own job. *)
LEMMA ReceiveJobRemovedKeeps == CallsInv /\ ReceiveJobRemoved => CallsInv'
<1> SUFFICES ASSUME CallsInv, ReceiveJobRemoved PROVE CallsInv'
  OBVIOUS
<1> DEFINE m == Head(rqueue)
           value == IF m.result = "done" THEN 0 ELSE 1
<1>1. /\ rqueue' \in Seq(Message) /\ Queued' \subseteq Queued /\ m \in Queued
  BY TailQueued DEF ReceiveJobRemoved, Take, CallsInv, TypeOK, BusTypeOK
<1>2. BusTypeOK'
  BY <1>1 DEF ReceiveJobRemoved, CallsInv, TypeOK, BusTypeOK
<1>3. /\ pc = "waiting" /\ Current.op = "unit" /\ m.member = "JobRemoved"
      /\ jobId # ForeignId /\ jobId \in Nat
      /\ failed \in 0..3 /\ tick \in 0..Loops /\ pending \in BOOLEAN
      /\ failed < 3 /\ tick < Loops
  BY DEF ReceiveJobRemoved, InUnitCall, CallsInv, Waiting, TypeOK
<1>4. UNCHANGED <<script, jobId, reload, doneJobs, failed, tick, pending>>
  BY DEF ReceiveJobRemoved, localVars
<1>5. CASE IsOurs(m)
  <2>1. Finish(value, jobId, "report") /\ value \in {0, 1}
    BY <1>5 DEF ReceiveJobRemoved
  <2>2. value = 0 => jobId \in doneJobs
    BY <1>1, <1>3, <1>5 DEF CallsInv, ToldTruth, IsOurs
  <2> HIDE DEF value
  <2> QED BY <1>1, <1>2, <1>3, <1>4, <2>1, <2>2, WaitingStep
<1>6. CASE ~IsOurs(m)
  <2>1. UNCHANGED <<pc, c, verdicts>>
    BY <1>6 DEF ReceiveJobRemoved
  <2>2. ~Finish(1, jobId, "report")
    BY <2>1, <1>3 DEF Finish
  <2> QED BY <1>1, <1>2, <1>3, <1>4, <2>1, <2>2, WaitingStep
<1> QED BY <1>5, <1>6

(* Success only on the signal that the reload is over. *)
LEMMA ReceiveReloadingKeeps == CallsInv /\ ReceiveReloading => CallsInv'
<1> SUFFICES ASSUME CallsInv, ReceiveReloading PROVE CallsInv'
  OBVIOUS
<1> DEFINE m == Head(rqueue)
<1>1. /\ rqueue' \in Seq(Message) /\ Queued' \subseteq Queued /\ m \in Queued /\ m \in Message
  BY TailQueued DEF ReceiveReloading, Take, CallsInv, TypeOK, BusTypeOK
<1>2. BusTypeOK'
  BY <1>1 DEF ReceiveReloading, CallsInv, TypeOK, BusTypeOK
<1>3. /\ pc = "waiting" /\ Current.op = "reload" /\ m.member = "Reloading" /\ m.active \in BOOLEAN
      /\ failed \in 0..3 /\ tick \in 0..Loops
      /\ failed < 3 /\ tick < Loops
  BY <1>1 DEF ReceiveReloading, InReload, CallsInv, Waiting, TypeOK, Message
<1>4. /\ UNCHANGED <<script, jobId, reload, doneJobs, failed, tick>>
      /\ pending' \in BOOLEAN
  BY <1>3 DEF ReceiveReloading, CallsInv, TypeOK
<1>5. CASE IsReloadOver(m.active)
  <2>1. Finish(0, 0, "report")
    BY <1>5 DEF ReceiveReloading
  <2>2. reload = "over"
    BY <1>1, <1>3, <1>5 DEF CallsInv, ToldTruth, IsReloadOver
  <2> QED BY <1>1, <1>2, <1>3, <1>4, <2>1, <2>2, WaitingStep
<1>6. CASE ~IsReloadOver(m.active)
  <2>1. UNCHANGED <<pc, c, verdicts>>
    BY <1>6 DEF ReceiveReloading
  <2>2. ~Finish(0, 0, "report")
    BY <2>1, <1>3 DEF Finish
  <2> QED BY <1>1, <1>2, <1>3, <1>4, <2>1, <2>2, WaitingStep
<1> QED BY <1>5, <1>6

LEMMA WaitKeeps == CallsInv /\ Wait => CallsInv'
<1> SUFFICES ASSUME CallsInv, Wait PROVE CallsInv'
  OBVIOUS
<1>1. BusTypeOK' /\ Queued' \subseteq Queued
  BY DEF Wait, busVars, CallsInv, TypeOK, BusTypeOK, Queued
<1>2. /\ failed \in 0..2 /\ tick < Loops /\ tick \in 0..Loops /\ jobId \in Nat
      /\ pending \in BOOLEAN /\ Loops \in Nat
  BY LoopsAssumption DEF CallsInv, Waiting, TypeOK, Wait
<1>3. \/ Finish(1, jobId, "timeout")
      \/ UNCHANGED <<pc, c, verdicts>>
  BY DEF Wait
<1>4. tick' \in 0..Loops /\ (pc' = "waiting" => failed' < 3 /\ tick' < Loops)
  BY <1>2 DEF Wait, Finish
<1> QED BY <1>1, <1>2, <1>3, <1>4, WaitingStep DEF Wait

(* The manager tells of what it has done. *)
LEMMA ManagerKeeps == CallsInv /\ Manager => CallsInv'
<1> SUFFICES ASSUME CallsInv, Manager PROVE CallsInv'
  OBVIOUS
<1>1. UNCHANGED <<localVars, script, c, pc, verdicts>>
  BY DEF Manager
<1>2. ASSUME BusTypeOK', ToldTruth', doneJobs' \in SUBSET Nat, doneJobs \subseteq doneJobs',
             reload' = reload \/ (reload # "never" /\ reload' \in {"active", "over"}),
             reload = "over" => reload' = "over"
      PROVE  CallsInv'
  <2>1. TypeOK'
    BY <1>1, <1>2 DEF CallsInv, TypeOK, localVars
  <2>2. Waiting'
    BY <1>1 DEF CallsInv, Waiting, Current, localVars
  <2>3. AskedFor'
    BY <1>1, <1>2, AskedForKeeps
  <2> QED BY <1>1, <1>2, <2>1, <2>2, <2>3, NoVerdictKeeps DEF CallsInv
<1>3. rqueue \in Seq(Message)
  BY DEF CallsInv, TypeOK, BusTypeOK
<1>4. CASE FinishJob
  <2>1. PICK j \in running, result \in Result :
          /\ RemoveJobAs(j, result, Hears("unit"))
          /\ doneJobs' = IF result = "done" THEN doneJobs \cup {j.id} ELSE doneJobs
          /\ UNCHANGED reload
    BY <1>4 DEF FinishJob
  <2>2. j \in Job /\ j.id \in Nat /\ j.system \in System
    BY DEF CallsInv, TypeOK, BusTypeOK, Job
  <2> DEFINE m == JobRemoved(j.id, result)
  <2>3. m \in Message /\ m.member = "JobRemoved" /\ m.id = j.id /\ m.result = result
    BY <2>2 DEF JobRemoved, Message
  <2> HIDE DEF m
  <2>4. rqueue' \in Seq(Message) /\ Queued' \subseteq Queued \cup {m}
    BY <1>3, <2>1, <2>3, EmitQueued DEF RemoveJobAs, m
  <2>5. mtab' \in Seq(Mount)
    <3> DEFINE e == [at |-> j.system, by |-> "unit"]
    <3>1. mtab \in Seq(Mount) /\ e \in Mount /\ mtab' \in {mtab, Append(mtab, e)}
      BY <2>1, <2>2 DEF RemoveJobAs, PutMount, Mount, Provider, CallsInv, TypeOK, BusTypeOK
    <3> HIDE DEF e
    <3> QED BY <3>1, AppendProperties
  <2>6. BusTypeOK'
    BY <2>1, <2>4, <2>5 DEF RemoveJobAs, CallsInv, TypeOK, BusTypeOK
  <2>7. doneJobs' \in SUBSET Nat /\ doneJobs \subseteq doneJobs'
    BY <2>1, <2>2 DEF CallsInv, TypeOK
  <2>8. ToldTruth'
    BY <2>1, <2>3, <2>4, <2>7 DEF CallsInv, ToldTruth
  <2> QED BY <1>2, <2>1, <2>6, <2>7, <2>8
<1>5. CASE StepReload
  <2>1. PICK active \in BOOLEAN :
          /\ Emit(Reloading(active), Hears("reload"))
          /\ active => reload = "requested" /\ reload' = "active"
          /\ ~active => reload = "active" /\ reload' = "over"
    BY <1>5 DEF StepReload
  <2> DEFINE m == Reloading(active)
  <2>2. m \in Message /\ m.member = "Reloading" /\ m.active = active
    BY DEF Reloading, Message
  <2> HIDE DEF m
  <2>3. rqueue' \in Seq(Message) /\ Queued' \subseteq Queued \cup {m}
    BY <1>3, <2>1, <2>2, EmitQueued DEF m
  <2>4. BusTypeOK' /\ UNCHANGED doneJobs
    BY <1>5, <2>3 DEF StepReload, CallsInv, TypeOK, BusTypeOK
  <2>5. ToldTruth'
    BY <2>1, <2>2, <2>3, <2>4 DEF CallsInv, ToldTruth
  <2> QED BY <1>2, <2>1, <2>4, <2>5 DEF CallsInv, TypeOK
<1>6. CASE ForeignJobRemoved(Hears("unit")) /\ UNCHANGED <<reload, doneJobs>>
  <2>1. PICK result \in Result : Emit(JobRemoved(ForeignId, result), Hears("unit"))
    BY <1>6 DEF ForeignJobRemoved
  <2> DEFINE m == JobRemoved(ForeignId, result)
  <2>2. m \in Message /\ m.member = "JobRemoved" /\ m.id = ForeignId
    BY DEF JobRemoved, Message, ForeignId
  <2> HIDE DEF m
  <2>3. rqueue' \in Seq(Message) /\ Queued' \subseteq Queued \cup {m}
    BY <1>3, <2>1, <2>2, EmitQueued DEF m
  <2>4. BusTypeOK'
    BY <1>6, <2>3 DEF ForeignJobRemoved, CallsInv, TypeOK, BusTypeOK
  <2>5. ToldTruth'
    BY <1>6, <2>2, <2>3 DEF CallsInv, ToldTruth
  <2> QED BY <1>2, <1>6, <2>4, <2>5 DEF CallsInv, TypeOK
<1>7. CASE Hangup /\ UNCHANGED <<reload, doneJobs>>
  <2>1. /\ Unreadable \in Message /\ Unreadable.member = "Unreadable"
    BY DEF Unreadable, Message
  <2>2. rqueue' \in Seq(Message) /\ Queued' \subseteq Queued \cup {Unreadable}
    <3>1. CASE rqueue' = Append(rqueue, Unreadable)
      <4>1. link = "up" /\ Emit(Unreadable, Always)
        BY <1>7, <3>1 DEF Hangup, Emit, Always
      <4> QED BY <1>3, <2>1, <4>1, EmitQueued
    <3>2. CASE rqueue' = <<Unreadable>>
      BY <2>1, <3>2 DEF Queued
    <3> QED BY <1>7, <3>1, <3>2 DEF Hangup
  <2>3. BusTypeOK'
    BY <1>7, <2>2 DEF Hangup, CallsInv, TypeOK, BusTypeOK
  <2>4. ToldTruth'
    BY <1>7, <2>1, <2>2 DEF CallsInv, ToldTruth
  <2> QED BY <1>2, <1>7, <2>3, <2>4 DEF CallsInv, TypeOK
<1> QED BY <1>4, <1>5, <1>6, <1>7 DEF Manager

LEMMA CallsInvNext == CallsInv /\ [Next]_vars => CallsInv'
<1> SUFFICES ASSUME CallsInv, [Next]_vars PROVE CallsInv'
  OBVIOUS
<1>1. CASE UNCHANGED vars
  BY <1>1 DEF vars, busVars, localVars, CallsInv, TypeOK, BusTypeOK, Waiting, Current,
     ToldTruth, Queued, AskedFor, OwnVerdict, ReloadIsOver
<1> QED BY <1>1, BeginUnitKeeps, BeginUnitRefusedKeeps, BeginReloadKeeps,
     BeginReloadRefusedKeeps, ReceiveUnreadableKeeps, RereadKeeps,
     ReceiveJobRemovedKeeps, ReceiveReloadingKeeps, WaitKeeps, ManagerKeeps
     DEF Next, Program

(* Every variable of the calls keeps its type (systemd.c:33-84, 283-350).  *)
THEOREM CallsTypeCorrect == Spec => []TypeOK
<1>1. CallsInv => TypeOK
  BY DEF CallsInv
<1> QED BY <1>1, UnitCallsInit, CallsInvNext, PTL DEF Spec

(* However many calls there are and whatever earlier ones have left in the *)
(* queue, a call on a unit returns 0 only if its own job was done          *)
(* (systemd.c:304-330).                                                    *)
THEOREM SuccessIsOwn == Spec => []OwnVerdict
<1>1. CallsInv => OwnVerdict
  BY DEF CallsInv
<1> QED BY <1>1, UnitCallsInit, CallsInvNext, PTL DEF Spec

(* When the reload returns 0 the manager is through with it, and stays so, *)
(* since there is no other (systemd.c:53-82).                              *)
THEOREM SuccessIsReloaded == Spec => []ReloadIsOver
<1>1. CallsInv => ReloadIsOver
  BY DEF CallsInv
<1> QED BY <1>1, UnitCallsInit, CallsInvNext, PTL DEF Spec

-----------------------------------------------------------------------------
(* What a unit call can meet that it cannot read *)

Undisturbed ==
  /\ link = "up"
  /\ \A k \in 1..Len(verdicts) : script[k].op = "reload" => verdicts[k].how # "refused"

UnitsHeard ==
  \A k \in 1..Len(verdicts) : script[k].op = "unit" => verdicts[k].how # "unreadable"

(* Where they stand in the queue. *)
Unreadables == {q \in 1..Len(rqueue) : rqueue[q].member = "Unreadable"}
Reloads == {q \in 1..Len(rqueue) : rqueue[q].member = "Reloading"}

Few(S, n) ==
  \/ S = {}
  \/ n >= 1 /\ \E a \in Nat : S \subseteq {a}
  \/ n >= 2 /\ \E a, b \in Nat : S \subseteq {a, b}

(* How many signals of the reload there have been. *)
Told == IF reload = "active" THEN 1 ELSE IF reload = "over" THEN 2 ELSE 0

(* The reload has been called and has returned. *)
Made == \E k \in 1..Len(script) : k < c /\ script[k].op = "reload"

FailedHere == IF pc = "waiting" THEN failed ELSE 0

(* A unit call reads what the connection was opened with or what the       *)
(* reload has left, never both: each is too little.                        *)
Hearing ==
  /\ \A q \in Unreadables : \A p \in 1..q : p \in Unreadables
  /\ \A q \in Unreadables : q + FailedHere <= 2
  /\ Few(Reloads, Told)
  /\ Made => Unreadables = {}
  /\ Made /\ pc = "waiting" => Few(Reloads, 2 - failed)

HearInv == CallsInv /\ (Undisturbed => UnitsHeard /\ Hearing)

LEMMA FewMore ==
  ASSUME NEW S, NEW n \in Nat, NEW m \in Nat, n <= m, Few(S, n)
  PROVE  Few(S, m)
BY DEF Few

LEMMA FewShift ==
  ASSUME NEW S \in SUBSET Nat, NEW T \in SUBSET Nat, NEW n \in Nat, Few(S, n),
         \A q \in T : q >= 1 /\ q + 1 \in S
  PROVE  Few(T, n) /\ (1 \in S => n >= 1 /\ Few(T, n - 1))
<1>1. CASE S = {}
  BY <1>1 DEF Few
<1>2. ASSUME n >= 1, NEW a \in Nat, S \subseteq {a}
      PROVE  Few(T, n) /\ (1 \in S => n >= 1 /\ Few(T, n - 1))
  <2>1. T \subseteq {a - 1} /\ (a \in S => a - 1 \in Nat \/ T = {})
    BY <1>2
  <2>2. T = {} \/ a - 1 \in Nat
    BY <1>2, <2>1
  <2>3. 1 \in S => T = {}
    BY <1>2, <2>1
  <2> QED BY <1>2, <2>1, <2>2, <2>3 DEF Few
<1>3. ASSUME n >= 2, NEW a \in Nat, NEW b \in Nat, S \subseteq {a, b}
      PROVE  Few(T, n) /\ (1 \in S => n >= 1 /\ Few(T, n - 1))
  <2>1. T \subseteq {a - 1, b - 1}
    BY <1>3
  <2>2. CASE a = 0
    <3>1. T \subseteq {b - 1} /\ (T = {} \/ b - 1 \in Nat) /\ (b = 1 => T = {})
      BY <1>3, <2>1, <2>2
    <3> QED BY <1>3, <3>1, <2>2 DEF Few
  <2>3. CASE b = 0
    <3>1. T \subseteq {a - 1} /\ (T = {} \/ a - 1 \in Nat) /\ (a = 1 => T = {})
      BY <1>3, <2>1, <2>3
    <3> QED BY <1>3, <3>1, <2>3 DEF Few
  <2>4. CASE a # 0 /\ b # 0
    <3>1. a - 1 \in Nat /\ b - 1 \in Nat
      BY <2>4
    <3>2. Few(T, n)
      <4>1. \E x, y \in Nat : T \subseteq {x, y}
        BY <2>1, <3>1
      <4> QED BY <1>3, <4>1 DEF Few
    <3>3. ASSUME 1 \in S PROVE Few(T, n - 1)
      <4>1. T \subseteq {a - 1} \/ T \subseteq {b - 1}
        BY <1>3, <2>1, <3>3
      <4> QED BY <1>3, <3>1, <4>1 DEF Few
    <3> QED BY <1>3, <3>2, <3>3
  <2> QED BY <2>2, <2>3, <2>4
<1> QED BY <1>1, <1>2, <1>3 DEF Few

LEMMA FewOneMore ==
  ASSUME NEW S, NEW T, NEW n \in {0, 1}, NEW x \in Nat, Few(S, n), T \subseteq S \cup {x}
  PROVE  Few(T, n + 1)
BY DEF Few

(* The head is taken. *)
LEMMA TailPlaces ==
  ASSUME rqueue \in Seq(Message), rqueue # <<>>, rqueue' = Tail(rqueue)
  PROVE  /\ Unreadables \in SUBSET Nat /\ Reloads \in SUBSET Nat
         /\ Unreadables' \in SUBSET Nat /\ Reloads' \in SUBSET Nat
         /\ \A q \in Unreadables' : q >= 1 /\ q + 1 \in Unreadables
         /\ \A q \in Reloads' : q >= 1 /\ q + 1 \in Reloads
         /\ \A q \in Nat : q >= 1 /\ q + 1 \in Unreadables => q \in Unreadables'
         /\ Head(rqueue).member = "Unreadable" <=> 1 \in Unreadables
         /\ Head(rqueue).member = "Reloading" <=> 1 \in Reloads
<1>1. /\ Len(rqueue) \in Nat \ {0}
      /\ Head(rqueue) = rqueue[1]
      /\ rqueue' \in Seq(Message) /\ Len(rqueue') = Len(rqueue) - 1
      /\ \A q \in 1..Len(rqueue') : rqueue'[q] = rqueue[q + 1]
  BY EmptySeq, HeadTailProperties
<1> QED BY <1>1 DEF Unreadables, Reloads

(* A message other than an unreadable one is added. *)
LEMMA EmitPlaces ==
  ASSUME rqueue \in Seq(Message), NEW m \in Message, NEW heard, Emit(m, heard),
         m.member # "Unreadable"
  PROVE  /\ Unreadables' = Unreadables
         /\ \E x \in Nat : Reloads' \subseteq Reloads \cup {x}
         /\ m.member # "Reloading" \/ (TRUE \notin heard) => Reloads' = Reloads
<1>1. CASE rqueue' = rqueue
  BY <1>1 DEF Unreadables, Reloads
<1>2. CASE rqueue' = Append(rqueue, m) /\ TRUE \in heard
  <2>1. /\ Len(rqueue) \in Nat /\ Len(rqueue') = Len(rqueue) + 1
        /\ \A q \in 1..Len(rqueue) : rqueue'[q] = rqueue[q]
        /\ rqueue'[Len(rqueue) + 1] = m
    BY <1>2, AppendProperties, LenProperties
  <2>2. 1..Len(rqueue') = 1..Len(rqueue) \cup {Len(rqueue) + 1}
    BY <2>1
  <2>3. Unreadables' = Unreadables
    BY <2>1, <2>2 DEF Unreadables
  <2>4. /\ Reloads' \subseteq Reloads \cup {Len(rqueue) + 1}
        /\ m.member # "Reloading" => Reloads' = Reloads
    BY <2>1, <2>2 DEF Reloads
  <2>5. \E x \in Nat : Reloads' \subseteq Reloads \cup {x}
    <3>1. Len(rqueue) + 1 \in Nat
      BY <2>1
    <3> QED BY <3>1, <2>4
  <2> QED BY <1>2, <2>3, <2>4, <2>5
<1> QED BY <1>1, <1>2 DEF Emit

-----------------------------------------------------------------------------

LEMMA HeardFinish ==
  ASSUME CallsInv, c <= Len(script), NEW value \in {0, 1}, NEW job \in Nat,
         NEW how \in {"report", "refused", "unreadable", "timeout"},
         Finish(value, job, how), UNCHANGED script, UnitsHeard,
         script[c].op = "unit" => how # "unreadable"
  PROVE  UnitsHeard'
<1>1. /\ \A k \in 1..Len(verdicts) : verdicts'[k] = verdicts[k]
      /\ verdicts'[c].how = how
      /\ \A k \in 1..Len(verdicts') : k \in 1..Len(verdicts) \/ k = c
  BY FinishVerdicts DEF CallsInv
<1> QED BY <1>1 DEF UnitsHeard

LEMMA MadeStep ==
  ASSUME CallsInv, UNCHANGED script
  PROVE  /\ c' = c => (Made' <=> Made)
         /\ c' = c + 1 /\ c \in 1..Len(script) =>
              (Made' <=> Made \/ script[c].op = "reload")
         /\ c \in 1..Len(script) /\ script[c].op = "reload" => ~Made
         /\ pc = "waiting" /\ Current.op = "unit" /\ ~Made => reload = "never" /\ Told = 0
         /\ Told \in 0..2
<1>1. /\ Len(script) \in Nat /\ c \in Nat
      /\ \A j, k \in 1..Len(script) :
           script[j].op = "reload" /\ script[k].op = "reload" => j = k
  BY ScriptType DEF CallsInv, TypeOK
<1>2. c' = c => (Made' <=> Made)
  BY DEF Made
<1>3. c' = c + 1 /\ c \in 1..Len(script) => (Made' <=> Made \/ script[c].op = "reload")
  <2> SUFFICES ASSUME c' = c + 1, c \in 1..Len(script)
               PROVE  Made' <=> Made \/ script[c].op = "reload"
    OBVIOUS
  <2>1. \A k \in 1..Len(script) : k < c' <=> k < c \/ k = c
    BY <1>1
  <2> QED BY <2>1 DEF Made
<1>4. c \in 1..Len(script) /\ script[c].op = "reload" => ~Made
  BY <1>1 DEF Made
<1>5. pc = "waiting" /\ Current.op = "unit" /\ ~Made => reload = "never" /\ Told = 0
  BY DEF CallsInv, AskedFor, Made, Current, Told
<1> QED BY <1>2, <1>3, <1>4, <1>5 DEF Told

(* The head was taken and not, or not only, counted. *)
LEMMA TailHearing ==
  ASSUME CallsInv, Hearing, Take, UNCHANGED <<script, reload>>,
         pc' = "waiting" => c' = c /\ failed' \in {failed, failed + 1},
         pc' # "waiting" => c' = c + 1,
         pc' = "waiting" /\ failed' = failed + 1 /\ Current.op = "unit" =>
           Head(rqueue).member \in {"Unreadable", "Reloading"},
         failed' = failed + 1 \/ Head(rqueue).member # "Unreadable",
         pc' # "waiting" /\ Current.op = "reload" =>
           failed = 2 \/ Head(rqueue).member # "Unreadable"
  PROVE  Hearing'
<1>1. /\ rqueue \in Seq(Message) /\ rqueue # <<>> /\ rqueue' = Tail(rqueue)
      /\ pc = "waiting" /\ failed \in 0..2 /\ c \in 1..Len(script) /\ c \in Nat
      /\ FailedHere = failed
  BY ScriptType DEF CallsInv, TypeOK, BusTypeOK, Take, Waiting, FailedHere
<1>2. /\ Unreadables \in SUBSET Nat /\ Reloads \in SUBSET Nat
      /\ Unreadables' \in SUBSET Nat /\ Reloads' \in SUBSET Nat
      /\ \A q \in Unreadables' : q >= 1 /\ q + 1 \in Unreadables
      /\ \A q \in Reloads' : q >= 1 /\ q + 1 \in Reloads
      /\ \A q \in Nat : q >= 1 /\ q + 1 \in Unreadables => q \in Unreadables'
      /\ Head(rqueue).member = "Unreadable" <=> 1 \in Unreadables
      /\ Head(rqueue).member = "Reloading" <=> 1 \in Reloads
  BY <1>1, TailPlaces
<1>3. /\ \A q \in Unreadables : \A p \in 1..q : p \in Unreadables
      /\ \A q \in Unreadables : q + failed <= 2
      /\ Few(Reloads, Told)
      /\ Made => Unreadables = {}
      /\ Made => Few(Reloads, 2 - failed)
  BY <1>1 DEF Hearing
<1>4. Told' = Told /\ Told \in Nat /\ Few(Reloads', Told')
  <2>1. Told' = Told /\ Told \in Nat
    BY DEF Told
  <2> QED BY <2>1, <1>2, <1>3, FewShift
<1>5. \A q \in Unreadables' : \A p \in 1..q : p \in Unreadables'
  <2> SUFFICES ASSUME NEW q \in Unreadables', NEW p \in 1..q PROVE p \in Unreadables'
    OBVIOUS
  <2>1. q + 1 \in Unreadables /\ q \in Nat /\ p \in Nat /\ p >= 1 /\ p + 1 \in 1..(q + 1)
    BY <1>2
  <2> QED BY <2>1, <1>2, <1>3
<1>6. \A q \in Unreadables' : q + FailedHere' <= 2
  <2> SUFFICES ASSUME NEW q \in Unreadables' PROVE q + FailedHere' <= 2
    OBVIOUS
  <2>1. q \in Nat /\ q + 1 \in Unreadables /\ q + 1 + failed <= 2
    BY <1>2, <1>3
  <2>2. FailedHere' \in {0, failed, failed + 1}
    BY DEF FailedHere
  <2>3. failed \in Nat
    BY <1>1
  <2>4. \A n \in {0, failed, failed + 1} : q + n <= 2
    BY <2>1, <2>3
  <2> QED BY <2>2, <2>4
<1>7. 1 \notin Unreadables => Unreadables = {} /\ Unreadables' = {}
  <2>1. \A q \in Unreadables : q >= 1
    BY DEF Unreadables
  <2>2. \A q \in Unreadables : 1 \in 1..q
    BY <2>1, <1>2
  <2> QED BY <2>2, <1>2, <1>3
<1>8. Made' => Unreadables' = {}
  <2>1. CASE Made
    BY <2>1, <1>2, <1>3
  <2>2. CASE ~Made /\ Made'
    <3>1. pc' # "waiting" /\ Current.op = "reload"
      BY <2>2, <1>1, MadeStep DEF Current
    <3>2. CASE failed = 2
      BY <3>2, <1>2, <1>3
    <3>3. CASE Head(rqueue).member # "Unreadable"
      BY <3>3, <1>2, <1>7
    <3> QED BY <3>1, <3>2, <3>3
  <2> QED BY <2>1, <2>2
<1>9. Made' /\ pc' = "waiting" => Few(Reloads', 2 - failed')
  <2> SUFFICES ASSUME Made', pc' = "waiting" PROVE Few(Reloads', 2 - failed')
    OBVIOUS
  <2>1. Made /\ Current.op = "unit"
    BY <1>1, MadeStep, ScriptType DEF Current, CallsInv
  <2>2. /\ 2 - failed \in Nat /\ Few(Reloads', 2 - failed)
        /\ 1 \in Reloads => 2 - failed >= 1 /\ Few(Reloads', (2 - failed) - 1)
    <3>1. 2 - failed \in Nat
      BY <1>1
    <3> QED BY <2>1, <3>1, <1>2, <1>3, FewShift
  <2>3. CASE failed' = failed
    BY <2>2, <2>3
  <2>4. CASE failed' = failed + 1
    <3>1. 1 \in Reloads
      BY <2>1, <2>4, <1>2, <1>3
    <3>2. 2 - failed' = (2 - failed) - 1
      BY <2>4, <1>1
    <3> QED BY <2>2, <3>1, <3>2
  <2> QED BY <2>3, <2>4
<1> QED BY <1>4, <1>5, <1>6, <1>8, <1>9 DEF Hearing

(* What disturbs the calls is not undone. *)
LEMMA UndisturbedBefore ==
  ASSUME CallsInv, UNCHANGED script, link' = link, Undisturbed',
         \/ UNCHANGED verdicts
         \/ /\ c <= Len(script)
            /\ \E value \in {0, 1}, job \in Nat,
                  how \in {"report", "refused", "unreadable", "timeout"} :
                 Finish(value, job, how)
  PROVE  Undisturbed
<1>1. CASE UNCHANGED verdicts
  BY <1>1 DEF Undisturbed
<1>2. ASSUME c <= Len(script), NEW value \in {0, 1}, NEW job \in Nat,
             NEW how \in {"report", "refused", "unreadable", "timeout"},
             Finish(value, job, how)
      PROVE  Undisturbed
  <2>1. /\ \A k \in 1..Len(verdicts) : verdicts'[k] = verdicts[k]
        /\ Len(verdicts') = c /\ Len(verdicts) = c - 1 /\ c \in 1..Len(script)
    BY <1>2, FinishVerdicts DEF CallsInv
  <2>2. \A k \in 1..Len(verdicts) : k \in 1..Len(verdicts')
    BY <2>1
  <2> QED BY <2>1, <2>2 DEF Undisturbed
<1> QED BY <1>1, <1>2

LEMMA BeginUnitHears ==
  CallsInv /\ BeginUnit /\ UnitsHeard /\ Hearing => UnitsHeard' /\ Hearing'
<1> SUFFICES ASSUME CallsInv, BeginUnit, UnitsHeard, Hearing PROVE UnitsHeard' /\ Hearing'
  OBVIOUS
<1>1. /\ pc' = "waiting" /\ pc = "idle" /\ failed' = 0
      /\ UNCHANGED <<c, verdicts, script, rqueue, reload>>
  BY DEF BeginUnit, StartWaiting, CanBegin
<1>2. UNCHANGED <<Unreadables, Reloads, Told>> /\ (Made' <=> Made) /\ Told \in 0..2
  BY <1>1, MadeStep DEF Unreadables, Reloads, Told
<1>3. FailedHere' = 0 /\ FailedHere = 0
  BY <1>1 DEF FailedHere
<1>4. Few(Reloads, 2)
  <2>1. Told \in Nat /\ Told <= 2 /\ Few(Reloads, Told)
    BY <1>2 DEF Hearing
  <2> QED BY <2>1, FewMore
<1>5. Few(Reloads', 2 - failed')
  <2>1. 2 - failed' = 2
    BY <1>1
  <2> QED BY <1>2, <1>4, <2>1
<1> QED BY <1>1, <1>2, <1>3, <1>5 DEF Hearing, UnitsHeard

LEMMA BeginUnitRefusedHears ==
  CallsInv /\ BeginUnitRefused /\ UnitsHeard /\ Hearing => UnitsHeard' /\ Hearing'
<1> SUFFICES ASSUME CallsInv, BeginUnitRefused, UnitsHeard, Hearing
             PROVE  UnitsHeard' /\ Hearing'
  OBVIOUS
<1>1. /\ pc' = "idle" /\ pc = "idle" /\ c' = c + 1 /\ Finish(1, 0, "refused")
      /\ UNCHANGED <<script, rqueue, reload>>
      /\ c \in 1..Len(script) /\ c <= Len(script) /\ script[c].op = "unit"
  BY ScriptType DEF BeginUnitRefused, Finish, CanBegin, Current, CallsInv, TypeOK
<1>2. UNCHANGED <<Unreadables, Reloads, Told>> /\ (Made' <=> Made)
  BY <1>1, MadeStep DEF Unreadables, Reloads, Told
<1>3. FailedHere' = FailedHere
  BY <1>1 DEF FailedHere
<1>4. UnitsHeard'
  BY <1>1, HeardFinish
<1> QED BY <1>1, <1>2, <1>3, <1>4 DEF Hearing

LEMMA BeginReloadHears ==
  CallsInv /\ BeginReload /\ UnitsHeard /\ Hearing => UnitsHeard' /\ Hearing'
<1> SUFFICES ASSUME CallsInv, BeginReload, UnitsHeard, Hearing PROVE UnitsHeard' /\ Hearing'
  OBVIOUS
<1>1. /\ pc' = "waiting" /\ pc = "idle" /\ failed' = 0 /\ reload = "never"
      /\ reload' = "requested"
      /\ UNCHANGED <<c, verdicts, script, rqueue>>
      /\ c \in 1..Len(script) /\ script[c].op = "reload"
  BY FirstReload DEF BeginReload, StartWaiting, CanBegin, Current, busVars
<1>2. /\ UNCHANGED <<Unreadables, Reloads, Told>>
      /\ ~Made /\ ~Made'
  BY <1>1, MadeStep DEF Unreadables, Reloads, Told
<1>3. FailedHere' = 0 /\ FailedHere = 0
  BY <1>1 DEF FailedHere
<1> QED BY <1>1, <1>2, <1>3 DEF Hearing, UnitsHeard

LEMMA RefusedReloadDisturbs ==
  ASSUME CallsInv, BeginReloadRefused
  PROVE  ~Undisturbed'
<1>1. /\ Finish(1, 0, "refused") /\ UNCHANGED script
      /\ c \in 1..Len(script) /\ c <= Len(script) /\ script[c].op = "reload"
  BY ScriptType DEF BeginReloadRefused, CanBegin, Current, CallsInv, TypeOK
<1>2. Len(verdicts') = c /\ verdicts'[c].how = "refused"
  BY <1>1, FinishVerdicts DEF CallsInv
<1> QED BY <1>1, <1>2 DEF Undisturbed

(* A third unreadable message does not come to a unit call. *)
LEMMA ReceiveUnreadableHears ==
  CallsInv /\ ReceiveUnreadable /\ UnitsHeard /\ Hearing => UnitsHeard' /\ Hearing'
<1> SUFFICES ASSUME CallsInv, ReceiveUnreadable, UnitsHeard, Hearing
             PROVE  UnitsHeard' /\ Hearing'
  OBVIOUS
<1> DEFINE m == Head(rqueue)
<1>1. /\ pc = "waiting" /\ rqueue \in Seq(Message) /\ rqueue # <<>> /\ rqueue' = Tail(rqueue)
      /\ failed' = failed + 1 /\ failed \in 0..2 /\ jobId \in Nat
      /\ UNCHANGED <<script, reload>> /\ Take
      /\ c \in 1..Len(script) /\ c <= Len(script)
      /\ m.member # CanRead
  BY ScriptType DEF ReceiveUnreadable, Take, CountUnreadable, CallsInv, Waiting, TypeOK, BusTypeOK
<1>2. m \in Message
  BY <1>1, TailQueued
<1>3. m.member \in {"JobRemoved", "Reloading", "Unreadable"}
  BY <1>2 DEF Message
<1>4. Current.op = "unit" => m.member \in {"Reloading", "Unreadable"}
  BY <1>1, <1>3 DEF CanRead
<1>5. CASE failed = 2
  <2>1. Finish(1, jobId, "unreadable")
    BY <1>1, <1>5 DEF ReceiveUnreadable, CountUnreadable
  <2>2. pc' # "waiting" /\ c' = c + 1
    BY <2>1 DEF Finish
  <2>3. Hearing'
    BY <1>1, <1>4, <1>5, <2>2, TailHearing
  <2>4. ASSUME Current.op = "unit" PROVE FALSE
    <3>1. /\ m.member = "Unreadable" <=> 1 \in Unreadables
          /\ m.member = "Reloading" <=> 1 \in Reloads
      BY <1>1, TailPlaces
    <3>2. 1 \notin Unreadables
      <4>1. FailedHere = 2
        BY <1>1, <1>5 DEF FailedHere
      <4>2. ~(1 + 2 <= 2)
        OBVIOUS
      <4> QED BY <4>1, <4>2 DEF Hearing
    <3>3. Few(Reloads, 0)
      <4>1. CASE Made
        <5>1. 2 - failed = 0
          BY <1>5
        <5> QED BY <4>1, <5>1, <1>1 DEF Hearing
      <4>2. CASE ~Made
        BY <4>2, <1>1, <2>4, MadeStep DEF Hearing
      <4> QED BY <4>1, <4>2
    <3> QED BY <1>4, <2>4, <3>1, <3>2, <3>3 DEF Few
  <2>5. UnitsHeard'
    <3>1. script[c].op = "unit" => FALSE
      BY <2>4 DEF Current
    <3> QED BY <1>1, <2>1, <3>1, HeardFinish
  <2> QED BY <2>3, <2>5
<1>6. CASE failed # 2
  <2>1. UNCHANGED <<pc, c, verdicts>>
    BY <1>1, <1>6 DEF ReceiveUnreadable, CountUnreadable
  <2>2. Hearing'
    BY <1>1, <1>4, <2>1, TailHearing
  <2> QED BY <1>1, <2>1, <2>2 DEF UnitsHeard
<1> QED BY <1>5, <1>6

LEMMA ReceiveJobRemovedHears ==
  CallsInv /\ ReceiveJobRemoved /\ UnitsHeard /\ Hearing => UnitsHeard' /\ Hearing'
<1> SUFFICES ASSUME CallsInv, ReceiveJobRemoved, UnitsHeard, Hearing
             PROVE  UnitsHeard' /\ Hearing'
  OBVIOUS
<1> DEFINE m == Head(rqueue)
           value == IF m.result = "done" THEN 0 ELSE 1
<1>1. /\ pc = "waiting" /\ Take /\ Current.op = "unit" /\ m.member = "JobRemoved"
      /\ failed' = failed /\ failed \in Nat /\ jobId \in Nat
      /\ UNCHANGED <<script, reload>>
      /\ c \in 1..Len(script) /\ c <= Len(script)
  BY ScriptType DEF ReceiveJobRemoved, InUnitCall, localVars, CallsInv, Waiting, TypeOK
<1>2. CASE IsOurs(m)
  <2>1. Finish(value, jobId, "report") /\ value \in {0, 1}
    BY <1>2 DEF ReceiveJobRemoved
  <2>2. pc' # "waiting" /\ c' = c + 1
    BY <2>1 DEF Finish
  <2>3. Hearing'
    BY <1>1, <2>2, TailHearing
  <2> HIDE DEF value
  <2>4. UnitsHeard'
    BY <1>1, <2>1, HeardFinish
  <2> QED BY <2>3, <2>4
<1>3. CASE ~IsOurs(m)
  <2>1. UNCHANGED <<pc, c, verdicts>>
    BY <1>3 DEF ReceiveJobRemoved
  <2>2. failed' # failed + 1
    BY <1>1
  <2>3. Hearing'
    BY <1>1, <2>1, <2>2, TailHearing
  <2> QED BY <1>1, <2>1, <2>3 DEF UnitsHeard
<1> QED BY <1>2, <1>3

LEMMA ReceiveReloadingHears ==
  CallsInv /\ ReceiveReloading /\ UnitsHeard /\ Hearing => UnitsHeard' /\ Hearing'
<1> SUFFICES ASSUME CallsInv, ReceiveReloading, UnitsHeard, Hearing
             PROVE  UnitsHeard' /\ Hearing'
  OBVIOUS
<1> DEFINE m == Head(rqueue)
<1>1. /\ pc = "waiting" /\ Take /\ Current.op = "reload" /\ m.member = "Reloading"
      /\ failed' = failed /\ failed \in Nat
      /\ UNCHANGED <<script, reload>>
      /\ c \in 1..Len(script) /\ c <= Len(script)
  BY ScriptType DEF ReceiveReloading, InReload, CallsInv, Waiting, TypeOK
<1>2. CASE IsReloadOver(m.active)
  <2>1. Finish(0, 0, "report")
    BY <1>2 DEF ReceiveReloading
  <2>2. pc' # "waiting" /\ c' = c + 1
    BY <2>1 DEF Finish
  <2>3. Hearing'
    BY <1>1, <2>2, TailHearing
  <2>4. UnitsHeard'
    BY <1>1, <2>1, HeardFinish
  <2> QED BY <2>3, <2>4
<1>3. CASE ~IsReloadOver(m.active)
  <2>1. UNCHANGED <<pc, c, verdicts>>
    BY <1>3 DEF ReceiveReloading
  <2>2. Hearing'
    BY <1>1, <2>1, TailHearing
  <2> QED BY <1>1, <2>1, <2>2 DEF UnitsHeard
<1> QED BY <1>2, <1>3

LEMMA WaitHears ==
  CallsInv /\ Wait /\ UnitsHeard /\ Hearing => UnitsHeard' /\ Hearing'
<1> SUFFICES ASSUME CallsInv, Wait, UnitsHeard, Hearing PROVE UnitsHeard' /\ Hearing'
  OBVIOUS
<1>1. /\ pc = "waiting" /\ rqueue = <<>> /\ rqueue' = <<>> /\ jobId \in Nat
      /\ UNCHANGED <<script, reload, failed>>
      /\ c \in 1..Len(script) /\ c <= Len(script)
  BY ScriptType DEF Wait, busVars, CallsInv, Waiting, TypeOK
<1>2. Unreadables' = {} /\ Reloads' = {}
  BY <1>1, EmptySeq DEF Unreadables, Reloads
<1>3. Hearing'
  BY <1>2 DEF Hearing, Few
<1>4. CASE Finish(1, jobId, "timeout")
  BY <1>1, <1>3, <1>4, HeardFinish
<1>5. CASE UNCHANGED <<pc, c, verdicts>>
  BY <1>1, <1>3, <1>5 DEF UnitsHeard
<1> QED BY <1>4, <1>5 DEF Wait

(* What the manager tells of the reload a waiting unit call does not hear. *)
LEMMA ManagerHears ==
  CallsInv /\ Manager /\ link' = link /\ UnitsHeard /\ Hearing => UnitsHeard' /\ Hearing'
<1> SUFFICES ASSUME CallsInv, Manager, link' = link, UnitsHeard, Hearing
             PROVE  UnitsHeard' /\ Hearing'
  OBVIOUS
<1>1. /\ UNCHANGED <<script, c, pc, verdicts, failed>> /\ rqueue \in Seq(Message)
  BY DEF Manager, localVars, CallsInv, TypeOK, BusTypeOK
<1>2. UnitsHeard'
  BY <1>1 DEF UnitsHeard
<1>3. FailedHere' = FailedHere /\ (Made' <=> Made)
  BY <1>1, MadeStep DEF FailedHere
<1>4. ASSUME UNCHANGED <<Unreadables, Reloads, reload>> PROVE Hearing'
  <2>1. Told' = Told
    BY <1>4 DEF Told
  <2> QED BY <1>1, <1>3, <1>4, <2>1 DEF Hearing
<1>5. CASE FinishJob
  <2>1. PICK j \in running, result \in Result :
          RemoveJobAs(j, result, Hears("unit")) /\ UNCHANGED reload
    BY <1>5 DEF FinishJob
  <2> DEFINE m == JobRemoved(j.id, result)
  <2>2. m \in Message /\ m.member = "JobRemoved" /\ Emit(m, Hears("unit"))
    BY <2>1 DEF JobRemoved, Message, RemoveJobAs, CallsInv, TypeOK, BusTypeOK, Job
  <2> HIDE DEF m
  <2>3. UNCHANGED <<Unreadables, Reloads>>
    BY <1>1, <2>2, EmitPlaces
  <2> QED BY <1>2, <1>4, <2>1, <2>3
<1>6. CASE ForeignJobRemoved(Hears("unit")) /\ UNCHANGED <<reload, doneJobs>>
  <2>1. PICK result \in Result : Emit(JobRemoved(ForeignId, result), Hears("unit"))
    BY <1>6 DEF ForeignJobRemoved
  <2> DEFINE m == JobRemoved(ForeignId, result)
  <2>2. m \in Message /\ m.member = "JobRemoved" /\ Emit(m, Hears("unit"))
    BY <2>1 DEF JobRemoved, Message, ForeignId
  <2> HIDE DEF m
  <2>3. UNCHANGED <<Unreadables, Reloads>>
    BY <1>1, <2>2, EmitPlaces
  <2> QED BY <1>2, <1>4, <1>6, <2>3
<1>7. CASE StepReload
  <2>1. PICK active \in BOOLEAN :
          /\ Emit(Reloading(active), Hears("reload"))
          /\ active => reload = "requested" /\ reload' = "active"
          /\ ~active => reload = "active" /\ reload' = "over"
    BY <1>7 DEF StepReload
  <2> DEFINE m == Reloading(active)
  <2>2. m \in Message /\ m.member # "Unreadable" /\ Emit(m, Hears("reload"))
    BY <2>1 DEF Reloading, Message
  <2> HIDE DEF m
  <2>3. /\ Unreadables' = Unreadables
        /\ \E x \in Nat : Reloads' \subseteq Reloads \cup {x}
        /\ TRUE \notin Hears("reload") => Reloads' = Reloads
    BY <1>1, <2>2, EmitPlaces
  <2>4. Told \in {0, 1} /\ Told' = Told + 1
    BY <2>1 DEF Told
  <2>5. Few(Reloads', Told')
    BY <2>3, <2>4, FewOneMore DEF Hearing
  <2>6. Made /\ pc = "waiting" => Reloads' = Reloads
    <3>1. c \in 1..Len(script) /\ script[c].op = "reload" => ~Made
      BY <1>1, MadeStep
    <3>2. pc = "waiting" => c \in 1..Len(script)
      BY ScriptType DEF CallsInv, Waiting, TypeOK
    <3>3. Made /\ pc = "waiting" => Current.op # "reload"
      BY <3>1, <3>2 DEF Current
    <3>4. Made /\ pc = "waiting" => TRUE \notin Hears("reload")
      BY <3>3 DEF Hears, Never
    <3> QED BY <2>3, <3>4
  <2> QED BY <1>1, <1>2, <1>3, <2>3, <2>5, <2>6 DEF Hearing
<1>8. ~Hangup
  BY DEF Hangup
<1> QED BY <1>2, <1>5, <1>6, <1>7, <1>8 DEF Manager

LEMMA HearInit == MaxLeftover <= 2 /\ Init => HearInv
<1> SUFFICES ASSUME MaxLeftover <= 2, Init PROVE HearInv
  OBVIOUS
<1>1. PICK n \in 0..MaxLeftover : rqueue = [k \in 1..n |-> Unreadable]
  BY DEF Init, BusInit
<1>2. n \in 0..2 /\ Len(rqueue) = n /\ \A q \in 1..n : rqueue[q].member = "Unreadable"
  BY <1>1, BoundsAssumption DEF Unreadable
<1>3. Unreadables = 1..n /\ Reloads = {}
  BY <1>2 DEF Unreadables, Reloads
<1>4. ~Made /\ FailedHere = 0
  <2>1. Len(script) \in Nat /\ c = 1
    BY ScriptsAssumption, LenProperties DEF Init
  <2> QED BY <2>1 DEF Made, FailedHere, Init
<1>5. Hearing
  BY <1>2, <1>3, <1>4 DEF Hearing, Few
<1>6. UnitsHeard
  BY DEF Init, UnitsHeard
<1> QED BY <1>5, <1>6, UnitCallsInit DEF HearInv

LEMMA HearNext == HearInv /\ [Next]_vars => HearInv'
<1> SUFFICES ASSUME HearInv, [Next]_vars, Undisturbed' PROVE UnitsHeard' /\ Hearing'
  BY CallsInvNext DEF HearInv
<1>1. CallsInv /\ (Undisturbed => UnitsHeard /\ Hearing)
  BY DEF HearInv
<1>2. UNCHANGED script /\ link' = link
  <2>1. UNCHANGED script
    BY DEF Next, vars, Program, BeginUnit, BeginUnitRefused, BeginReload, BeginReloadRefused,
       ReceiveUnreadable, RereadDisconnected, ReceiveJobRemoved, ReceiveReloading, Wait, Manager
  <2>2. link' = "up"
    BY DEF Undisturbed
  <2>3. link' = link \/ link' = "closed"
    BY DEF Next, vars, busVars, Program, BeginUnit, BeginUnitRefused, BeginReload,
       BeginReloadRefused, ReceiveUnreadable, RereadDisconnected, ReceiveJobRemoved,
       ReceiveReloading, Wait, Manager, FinishJob, StepReload, RemoveJobAs,
       ForeignJobRemoved, Hangup
  <2> QED BY <2>1, <2>2, <2>3
<1>3. jobId \in Nat /\ (pc = "waiting" => c <= Len(script))
  BY <1>1 DEF CallsInv, TypeOK, Waiting
<1>4. \/ UNCHANGED verdicts
      \/ /\ c <= Len(script)
         /\ \E value \in {0, 1}, job \in Nat,
               how \in {"report", "refused", "unreadable", "timeout"} :
              Finish(value, job, how)
  <2>1. CASE UNCHANGED vars \/ BeginUnit \/ BeginReload \/ Manager
    BY <2>1 DEF vars, BeginUnit, BeginReload, StartWaiting, Manager
  <2>2. CASE BeginUnitRefused \/ BeginReloadRefused
    <3>1. c <= Len(script) /\ Finish(1, 0, "refused")
      BY <2>2 DEF BeginUnitRefused, BeginReloadRefused, CanBegin
    <3> QED BY <3>1
  <2>3. CASE ReceiveUnreadable \/ RereadDisconnected
    <3>1. UNCHANGED verdicts \/ (c <= Len(script) /\ Finish(1, jobId, "unreadable"))
      BY <2>3, <1>3 DEF ReceiveUnreadable, RereadDisconnected, Take, CountUnreadable
    <3> QED BY <3>1, <1>3
  <2>4. CASE ReceiveJobRemoved
    <3>1. \/ UNCHANGED verdicts
          \/ c <= Len(script) /\ \E value \in {0, 1} : Finish(value, jobId, "report")
      BY <2>4, <1>3 DEF ReceiveJobRemoved, Take
    <3> QED BY <3>1, <1>3
  <2>5. CASE ReceiveReloading
    <3>1. UNCHANGED verdicts \/ (c <= Len(script) /\ Finish(0, 0, "report"))
      BY <2>5, <1>3 DEF ReceiveReloading, Take
    <3> QED BY <3>1
  <2>6. CASE Wait
    <3>1. UNCHANGED verdicts \/ (c <= Len(script) /\ Finish(1, jobId, "timeout"))
      BY <2>6, <1>3 DEF Wait
    <3> QED BY <3>1, <1>3
  <2> QED BY <2>1, <2>2, <2>3, <2>4, <2>5, <2>6 DEF Next, Program
<1>5. UnitsHeard /\ Hearing
  BY <1>1, <1>2, <1>4, UndisturbedBefore
<1>6. ~RereadDisconnected
  BY <1>2 DEF RereadDisconnected, Undisturbed
<1>7. CASE UNCHANGED vars
  BY <1>5, <1>7 DEF vars, busVars, localVars, UnitsHeard, Hearing, Unreadables, Reloads,
     FailedHere, Made, Told
<1> QED BY <1>1, <1>2, <1>5, <1>6, <1>7, BeginUnitHears, BeginUnitRefusedHears,
     BeginReloadHears, RefusedReloadDisturbs, ReceiveUnreadableHears,
     ReceiveJobRemovedHears, ReceiveReloadingHears, WaitHears, ManagerHears
     DEF Next, Program

(* On a connection opened for the program, which starts with no more than  *)
(* NameAcquired in the queue, no unit call fails over unreadable messages  *)
(* while the connection holds, whether it comes before the reload or after *)
(* it (systemd.c:312-322, eemount.c:549-553).                              *)
THEOREM UnitCallsAreHeard == MaxLeftover <= 2 /\ Spec => []UnitCallsHear
<1>1. HearInv => UnitCallsHear
  BY DEF HearInv, Undisturbed, UnitsHeard, UnitCallsHear
<1> QED BY <1>1, HearInit, HearNext, PTL DEF Spec

=============================================================================
