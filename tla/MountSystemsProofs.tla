------------------------- MODULE MountSystemsProofs -------------------------
(***************************************************************************)
(* What is proved of a batch of units (StartUnits) for every set of        *)
(* helpers, every number of units and rounds, and every behaviour of the   *)
(* manager and connection: the record names mounted systems only and every *)
(* one that the batch did not lose, and neither it nor the array of jobs   *)
(* is overrun.  IInv is inductive: one lemma for each action says that a   *)
(* step of it keeps IInv.  The lemmas do not mention Spec.                 *)
(*                                                                         *)
(* Then of MountSystems for every set of units and drives: the invariant   *)
(* of the unit calls survives the drives, the whole implements Provision,  *)
(* every offer of a drive is served, no system is recorded twice or        *)
(* mounted twice but one that was lost, and none is mounted over what lies *)
(* inside it.                                                              *)
(***************************************************************************)
EXTENDS MountSystems, SequenceTheorems, FiniteSetTheorems, TLAPS

-----------------------------------------------------------------------------
(* Lemmas on sequences of mounts and on the record *)

(* What is mounted stays mounted when another mount is made. *)
LEMMA MountStays ==
  ASSUME mtab \in Seq(Mount), NEW m \in Mount, mtab' = Append(mtab, m)
  PROVE  /\ mtab' \in Seq(Mount)
         /\ \A s : IsMounted(s) => IsMounted(s)'
         /\ IsMounted(m.at)'
         /\ \A s : IsMounted(s)' => IsMounted(s) \/ s = m.at
<1>1. /\ mtab' \in Seq(Mount)
      /\ Len(mtab') = Len(mtab) + 1
      /\ \A p \in 1..Len(mtab) : mtab'[p] = mtab[p]
      /\ mtab'[Len(mtab) + 1] = m
  BY AppendProperties
<1>2. Len(mtab) \in Nat
  BY LenProperties
<1>3. ASSUME NEW s, IsMounted(s) PROVE IsMounted(s)'
  <2>1. PICK p \in 1..Len(mtab) : mtab[p].at = s
    BY <1>3 DEF IsMounted
  <2>2. p \in 1..Len(mtab') /\ mtab'[p].at = s
    BY <1>1, <1>2, <2>1
  <2> QED BY <2>2 DEF IsMounted
<1>4. IsMounted(m.at)'
  <2>1. Len(mtab) + 1 \in 1..Len(mtab')
    BY <1>1, <1>2
  <2> QED BY <1>1, <2>1 DEF IsMounted
<1>5. ASSUME NEW s, IsMounted(s)' PROVE IsMounted(s) \/ s = m.at
  <2>1. PICK p \in 1..Len(mtab') : mtab'[p].at = s
    BY <1>5 DEF IsMounted
  <2>2. p \in 1..Len(mtab) \/ p = Len(mtab) + 1
    BY <1>1, <1>2
  <2> QED BY <1>1, <2>1, <2>2 DEF IsMounted
<1> QED BY <1>1, <1>3, <1>4, <1>5

(* Extending a record keeps it a record whose systems fit, and adds one.   *)
LEMMA ExtendFits ==
  ASSUME NEW r \in Record, NEW s \in System,
         r # Null => r.alloc >= AllocBase,
         Len(r.systems) <= r.alloc
  PROVE  /\ Extend(r, s) \in Record
         /\ Extend(r, s).alloc >= AllocBase
         /\ Len(Extend(r, s).systems) <= Extend(r, s).alloc
         /\ Extend(r, s).systems = Append(r.systems, s)
<1> USE AllocAssumption
<1>1. r.systems \in Seq(System) /\ r.alloc \in Nat
  BY DEF Record
<1>2. /\ Append(r.systems, s) \in Seq(System)
      /\ Len(Append(r.systems, s)) = Len(r.systems) + 1
      /\ Len(r.systems) \in Nat
  BY <1>1, AppendProperties, LenProperties
<1>3. Extend(r, s).systems = Append(r.systems, s)
  BY DEF Extend
<1>4. CASE r = Null
  <2>1. Len(r.systems) = 0
    BY <1>4 DEF Null
  <2>2. Extend(r, s) = [systems |-> Append(r.systems, s), alloc |-> AllocBase]
    BY <1>4 DEF Extend
  <2> QED BY <1>2, <2>1, <2>2 DEF Record
<1>5. CASE r # Null /\ IsFull(r)
  <2>1. Extend(r, s) = [systems |-> Append(r.systems, s), alloc |-> Grow(r.alloc)]
    BY <1>5 DEF Extend
  <2>2. Grow(r.alloc) \in Nat /\ Grow(r.alloc) >= r.alloc + 1
    BY <1>1, <1>5 DEF Grow
  <2> QED BY <1>1, <1>2, <1>5, <2>1, <2>2 DEF Record
<1>6. CASE r # Null /\ ~IsFull(r)
  <2>1. Extend(r, s) = [systems |-> Append(r.systems, s), alloc |-> r.alloc]
    BY <1>6 DEF Extend
  <2> QED BY <1>1, <1>2, <1>6, <2>1 DEF Record, IsFull
<1> QED BY <1>4, <1>5, <1>6

(* The systems an extended record names. *)
LEMMA ExtendRecorded ==
  ASSUME mhelper \in Record, NEW s \in System, mhelper' = Extend(mhelper, s)
  PROVE  Recorded' = Recorded \cup {s}
<1>1. mhelper.systems \in Seq(System)
  BY DEF Record
<1>2. /\ Len(mhelper.systems) \in Nat
      /\ Len(mhelper'.systems) = Len(mhelper.systems) + 1
      /\ \A k \in 1..Len(mhelper.systems) : mhelper'.systems[k] = mhelper.systems[k]
      /\ mhelper'.systems[Len(mhelper.systems) + 1] = s
  BY <1>1, AppendProperties, LenProperties DEF Extend
<1>3. 1..Len(mhelper'.systems) = 1..Len(mhelper.systems) \cup {Len(mhelper.systems) + 1}
  <2>1. \A last \in Nat : 1..(last + 1) = 1..last \cup {last + 1}
    OBVIOUS
  <2> QED
    BY <2>1, <1>2
<1>4. ASSUME NEW x PROVE x \in Recorded' <=> x \in Recorded \cup {s}
  <2>1. x \in Recorded' <=> \E k \in 1..Len(mhelper'.systems) : x = mhelper'.systems[k]
    BY DEF Recorded
  <2>2. x \in Recorded <=> \E k \in 1..Len(mhelper.systems) : x = mhelper.systems[k]
    BY DEF Recorded
  <2> QED
    BY <2>1, <2>2, <1>2, <1>3
<1> QED
  BY <1>4

-----------------------------------------------------------------------------
(* The initial states *)

LEMMA InitIInv == Init => IInv
<1> SUFFICES ASSUME Init PROVE IInv
  OBVIOUS
<1> USE DEF Init, BusInit
<1>1. PICK z \in 0..MaxLeftover : rqueue = [k \in 1..z |-> Unreadable]
  OBVIOUS
<1>2. z \in Nat
  BY BoundsAssumption
<1>3. /\ rqueue \in Seq(Message)
      /\ Len(rqueue) = z
      /\ \A q \in 1..Len(rqueue) : rqueue[q].member = "Unreadable"
  BY <1>1, <1>2 DEF Unreadable, Message
<1>4. PICK g \in Given :
        /\ mhelper = IF g = <<>> THEN Null ELSE [systems |-> g, alloc |-> AllocBase]
        /\ mtab = [k \in 1..Len(g) |-> [at |-> g[k], by |-> "drive"]]
  OBVIOUS
<1>5. g \in Seq(System) /\ Len(g) \in Nat /\ Len(g) <= AllocBase
  BY GivenAssumption, LenProperties
<1>6. /\ mtab \in Seq(Mount)
      /\ Len(mtab) = Len(g)
      /\ \A k \in 1..Len(g) : mtab[k].at = g[k]
  BY <1>4, <1>5 DEF Mount, Provider
<1>7. mhelper \in Record /\ mhelper.systems = g
  BY <1>4, <1>5, AllocAssumption DEF Record, Null
<1>8. TypeOK
  BY <1>3, <1>6, <1>7, LoopsAssumption DEF TypeOK, BusTypeOK, Layers
<1>9. Counting /\ FreshIds /\ SameJob /\ DoneIsMounted
  BY <1>3 DEF Counting, FreshIds, SameJob, DoneIsMounted
<1>10. RecordedIsMounted
  BY <1>6, <1>7 DEF RecordedIsMounted, Recorded, IsMounted
<1>11. Allocated /\ RecordFits
  BY <1>4, <1>5, <1>7, AllocAssumption DEF Allocated, RecordFits, Null
<1> QED BY <1>8, <1>9, <1>10, <1>11 DEF IInv

-----------------------------------------------------------------------------
(* The manager and the connection *)

(* A message appended to the queue, or not. *)
LEMMA EmitQueue ==
  ASSUME rqueue \in Seq(Message), NEW m \in Message, NEW b, Emit(m, b)
  PROVE  /\ rqueue' \in Seq(Message)
         /\ \A q \in 1..Len(rqueue') :
              (q \in 1..Len(rqueue) /\ rqueue'[q] = rqueue[q]) \/ rqueue'[q] = m
<1>1. CASE rqueue' = rqueue
  BY <1>1
<1>2. CASE rqueue' = Append(rqueue, m)
  <2>1. /\ rqueue' \in Seq(Message)
        /\ Len(rqueue') = Len(rqueue) + 1 /\ Len(rqueue) \in Nat
        /\ \A q \in 1..Len(rqueue) : rqueue'[q] = rqueue[q]
        /\ rqueue'[Len(rqueue) + 1] = m
    BY <1>2, AppendProperties, LenProperties
  <2> QED BY <2>1
<1> QED BY <1>1, <1>2 DEF Emit

(* A removed job that was done is mounted when its report is queued. *)
LEMMA RemoveJobKeeps ==
  ASSUME IInv, NEW b, RemoveJob(b),
         UNCHANGED <<localVars, pc, shelper, layer, mhelper, lost>>
  PROVE  IInv'
<1> USE DEF IInv
<1>1. PICK j \in running, result \in Result :
        /\ running' = running \ {j}
        /\ result = "done" => IsDue(j.system)
        /\ \/ result = "done" /\ PutMount(j.system, "unit")
           \/ /\ result = "done" => IsMounted(j.system)
              /\ UNCHANGED mtab
        /\ Emit(JobRemoved(j.id, result), b)
        /\ UNCHANGED <<link, nextJob, foreign>>
  BY DEF RemoveJob, RemoveJobAs
<1>2. j \in Job /\ j.id \in Nat \ {0} /\ j.system \in System /\ j.id < nextJob
  BY DEF TypeOK, BusTypeOK, FreshIds, Job
<1>3. mtab \in Seq(Mount) /\ rqueue \in Seq(Message)
  BY DEF TypeOK, BusTypeOK
<1>4. /\ mtab' \in Seq(Mount)
      /\ \A s : IsMounted(s) => IsMounted(s)'
      /\ result = "done" => IsMounted(j.system)'
  <2>1. CASE result = "done" /\ PutMount(j.system, "unit")
    <3> DEFINE m == [at |-> j.system, by |-> "unit"]
    <3>1. m \in Mount /\ m.at = j.system /\ mtab' = Append(mtab, m)
      BY <1>2, <2>1 DEF Mount, Provider, PutMount
    <3> HIDE DEF m
    <3> QED BY <1>3, <3>1, MountStays
  <2>2. CASE UNCHANGED mtab /\ (result = "done" => IsMounted(j.system))
    BY <1>3, <2>2 DEF IsMounted
  <2> QED BY <1>1, <2>1, <2>2
<1>5. DEFINE m == JobRemoved(j.id, result)
<1>6. m \in Message /\ m.id = j.id /\ m.result = result
  BY <1>2 DEF JobRemoved, Message
<1>7. /\ rqueue' \in Seq(Message)
      /\ \A q \in 1..Len(rqueue') :
           (q \in 1..Len(rqueue) /\ rqueue'[q] = rqueue[q]) \/ rqueue'[q] = m
  BY <1>1, <1>3, <1>6, EmitQueue
<1> HIDE DEF m
<1>8. TypeOK'
  BY <1>1, <1>4, <1>7 DEF TypeOK, BusTypeOK, localVars
<1>9. Counting' /\ Allocated' /\ RecordFits'
  BY DEF Counting, Allocated, RecordFits, localVars
<1>10. FreshIds' /\ SameJob'
  BY <1>1, <1>2, <1>6, <1>7 DEF FreshIds, SameJob, localVars
<1>11. DoneIsMounted'
  <2> SUFFICES ASSUME NEW q \in 1..Len(rqueue'), NEW k \in 1..Len(jobs),
                      rqueue'[q].member = "JobRemoved",
                      rqueue'[q].id = jobs[k].id, rqueue'[q].result = "done"
               PROVE  IsMounted(jobs[k].system)'
    BY DEF DoneIsMounted, localVars
  <2>0. jobs' = jobs
    BY DEF localVars
  <2>1. CASE q \in 1..Len(rqueue) /\ rqueue'[q] = rqueue[q]
    BY <1>4, <2>0, <2>1 DEF DoneIsMounted, IsMounted
  <2>2. CASE rqueue'[q] = m
    <3>1. j.system = jobs[k].system
      BY <1>6, <2>2 DEF SameJob
    <3> QED BY <1>4, <1>6, <2>0, <2>2, <3>1 DEF IsMounted
  <2> QED BY <1>7, <2>1, <2>2
<1>12. RecordedIsMounted'
  BY <1>4 DEF RecordedIsMounted, Recorded
<1> QED BY <1>8, <1>9, <1>10, <1>11, <1>12

(* Foreign signals and a lost connection touch the queue only. *)
LEMMA OthersKeep ==
  ASSUME IInv, NEW b, ForeignJobRemoved(b) \/ Hangup,
         UNCHANGED <<localVars, pc, shelper, layer, mhelper, lost>>
  PROVE  IInv'
<1> USE DEF IInv
<1>1. rqueue \in Seq(Message) /\ foreign \in Nat
  BY DEF TypeOK, BusTypeOK
<1>2. /\ UNCHANGED <<running, nextJob, mtab>>
      /\ link' \in {"up", "closed"} /\ foreign' \in Nat
  BY <1>1 DEF ForeignJobRemoved, Hangup, TypeOK, BusTypeOK
<1>3. /\ rqueue' \in Seq(Message)
      /\ \A q \in 1..Len(rqueue') :
           \/ q \in 1..Len(rqueue) /\ rqueue'[q] = rqueue[q]
           \/ rqueue'[q] = Unreadable
           \/ rqueue'[q].id = 0
  <2>1. CASE ForeignJobRemoved(b)
    <3>1. PICK result \in Result : Emit(JobRemoved(ForeignId, result), b)
      BY <2>1 DEF ForeignJobRemoved
    <3> DEFINE m == JobRemoved(ForeignId, result)
    <3>2. m \in Message /\ m.id = 0 /\ Emit(m, b)
      BY <3>1 DEF JobRemoved, Message, ForeignId
    <3> HIDE DEF m
    <3> QED BY <1>1, <3>2, EmitQueue
  <2>2. CASE Hangup
    <3>1. Unreadable \in Message
      BY DEF Unreadable, Message
    <3>2. CASE rqueue' = Append(rqueue, Unreadable)
      BY <1>1, <3>1, <3>2, AppendProperties, LenProperties
    <3>3. CASE rqueue' = <<Unreadable>>
      BY <3>1, <3>3
    <3> QED BY <2>2, <3>2, <3>3 DEF Hangup
  <2> QED BY <2>1, <2>2
<1>4. Unreadable.member = "Unreadable"
  BY DEF Unreadable
<1>5. TypeOK'
  BY <1>2, <1>3 DEF TypeOK, BusTypeOK, localVars
<1>6. Counting' /\ Allocated' /\ RecordFits' /\ SameJob' /\ RecordedIsMounted'
  BY <1>2 DEF Counting, Allocated, RecordFits, SameJob, RecordedIsMounted,
              Recorded, IsMounted, localVars
<1>7. FreshIds'
  <2>1. 0 < nextJob
    BY DEF TypeOK, BusTypeOK
  <2>2. \A q \in 1..Len(rqueue') :
          rqueue'[q].member = "JobRemoved" => rqueue'[q].id < nextJob
    BY <1>3, <1>4, <2>1 DEF FreshIds
  <2> QED BY <1>2, <2>2 DEF FreshIds, localVars
<1>8. DoneIsMounted'
  <2>1. \A k \in 1..Len(jobs) : jobs[k].id # 0
    <3>1. jobs \in Seq(StartedJob)
      BY DEF TypeOK
    <3>2. \A k \in 1..Len(jobs) : jobs[k] \in StartedJob
      BY <3>1, ElementOfSeq
    <3> QED BY <3>2 DEF StartedJob
  <2> QED BY <1>2, <1>3, <1>4, <2>1 DEF DoneIsMounted, IsMounted, localVars
<1> QED BY <1>5, <1>6, <1>7, <1>8

LEMMA ManagerKeeps == IInv /\ Manager => IInv'
<1> SUFFICES ASSUME IInv, Manager PROVE IInv'
  OBVIOUS
<1> QED BY RemoveJobKeeps, OthersKeep DEF Manager, Environment

-----------------------------------------------------------------------------
(* The program *)

(* Steps that leave the jobs, their reports and the record alone. *)
LEMMA QuietStep ==
  ASSUME IInv, TypeOK', Counting',
         UNCHANGED <<running, nextJob, mtab, jobs, rqueue>>,
         mhelper' = mhelper
  PROVE  IInv'
BY DEF IInv, FreshIds, SameJob, DoneIsMounted, RecordedIsMounted, Recorded,
       IsMounted, Allocated, RecordFits

LEMMA CallKeeps ==
  ASSUME IInv, NEW l \in Layers, Call(l)
  PROVE  IInv'
<1> USE DEF IInv
<1>1. /\ UNCHANGED <<busVars, shelper, mhelper, lost>>
      /\ layer' = l /\ i' = 1 /\ jobs' = <<>>
      /\ finished' = 0 /\ failed' = 0 /\ tick' = 0
      /\ pc' \in {"starting", "returned"}
  BY DEF Call
<1>2. jobs' \in Seq(StartedJob) /\ Len(jobs') = 0
  BY <1>1
<1>3. TypeOK'
  BY <1>1, <1>2, LoopsAssumption DEF TypeOK, BusTypeOK, busVars
<1>4. Counting'
  BY <1>1, LoopsAssumption DEF Counting
<1>5. FreshIds' /\ SameJob' /\ DoneIsMounted'
  BY <1>1, <1>2 DEF FreshIds, SameJob, DoneIsMounted, busVars
<1>6. RecordedIsMounted' /\ Allocated' /\ RecordFits'
  BY <1>1 DEF RecordedIsMounted, Recorded, IsMounted, Allocated, RecordFits, busVars
<1> QED BY <1>3, <1>4, <1>5, <1>6

LEMMA SkipUnitKeeps == IInv /\ SkipUnit => IInv'
<1> SUFFICES ASSUME IInv, SkipUnit PROVE IInv'
  OBVIOUS
<1>1. TypeOK' /\ Counting'
  BY DEF IInv, SkipUnit, TypeOK, BusTypeOK, Counting, busVars
<1> QED BY <1>1, QuietStep DEF SkipUnit, busVars

LEMMA UnreportedType == IInv => Unreported \subseteq System
<1> SUFFICES ASSUME IInv PROVE Unreported \subseteq System
  OBVIOUS
<1>1. \A k \in 1..Len(jobs) : jobs[k] \in StartedJob
  BY ElementOfSeq DEF IInv, TypeOK
<1> QED BY <1>1 DEF Unreported, StartedJob

LEMMA StartedAllKeeps == IInv /\ StartedAll => IInv'
<1> SUFFICES ASSUME IInv, StartedAll PROVE IInv'
  OBVIOUS
<1>1. /\ pc' \in {"waiting", "returned"} /\ mhelper' = mhelper
      /\ UNCHANGED <<busVars, localVars, shelper, layer>>
  BY DEF StartedAll, Return
<1>2. Unreported \subseteq System
  BY UnreportedType
<1>3. lost' \in SUBSET System
  BY <1>2 DEF StartedAll, Return, IInv, TypeOK
<1>4. TypeOK' /\ Counting'
  BY <1>1, <1>3 DEF IInv, TypeOK, BusTypeOK, Counting, busVars, localVars, StartedAll
<1> QED BY <1>1, <1>4, QuietStep DEF busVars, localVars

LEMMA CountUnreadableKeeps ==
  ASSUME IInv, pc = "waiting", CountUnreadable
  PROVE  /\ failed' \in 0..3 /\ mhelper' = mhelper
         /\ pc' \in {"waiting", "returned"} /\ lost' \in SUBSET System
         /\ pc' = "waiting" => failed' < 3
<1>1. failed \in 0..2 /\ lost \in SUBSET System
  BY DEF IInv, Counting, TypeOK
<1>2. CASE failed + 1 = 3
  BY <1>1, <1>2, UnreportedType DEF CountUnreadable, Return
<1>3. CASE failed + 1 # 3
  BY <1>1, <1>3 DEF CountUnreadable
<1> QED BY <1>2, <1>3

LEMMA RereadKeeps == IInv /\ RereadDisconnected => IInv'
<1> SUFFICES ASSUME IInv, RereadDisconnected PROVE IInv'
  OBVIOUS
<1>1. /\ failed' \in 0..3 /\ mhelper' = mhelper
      /\ pc' \in {"waiting", "returned"} /\ lost' \in SUBSET System
      /\ pc' = "waiting" => failed' < 3
  BY CountUnreadableKeeps DEF RereadDisconnected
<1>2. TypeOK' /\ Counting'
  BY <1>1 DEF RereadDisconnected, IInv, TypeOK, BusTypeOK, Counting, busVars
<1> QED BY <1>1, <1>2, QuietStep DEF RereadDisconnected, busVars

LEMMA WaitKeeps == IInv /\ Wait => IInv'
<1> SUFFICES ASSUME IInv, Wait PROVE IInv'
  OBVIOUS
<1>1. tick \in Nat /\ tick < Loops /\ lost \in SUBSET System
  BY LoopsAssumption DEF Wait, IInv, TypeOK, Counting
<1>2. /\ tick' \in 0..Loops /\ mhelper' = mhelper
      /\ pc' \in {"waiting", "returned"} /\ lost' \in SUBSET System
      /\ pc' = "waiting" => tick' < Loops
  <2>1. CASE tick + 1 = Loops
    BY <1>1, <2>1, LoopsAssumption, UnreportedType DEF Wait, Return
  <2>2. CASE tick + 1 # Loops
    BY <1>1, <2>2, LoopsAssumption DEF Wait
  <2> QED BY <2>1, <2>2
<1>3. TypeOK' /\ Counting'
  BY <1>2 DEF Wait, IInv, TypeOK, BusTypeOK, Counting, busVars
<1> QED BY <1>2, <1>3, QuietStep DEF Wait, busVars

(* Taking the first message off the queue keeps what is known of the rest. *)
LEMMA TailKeeps ==
  ASSUME IInv, rqueue # <<>>, rqueue' = Tail(rqueue),
         UNCHANGED <<running, nextJob, mtab>>,
         Len(jobs') = Len(jobs),
         \A k \in 1..Len(jobs) :
           jobs'[k].id = jobs[k].id /\ jobs'[k].system = jobs[k].system
  PROVE  rqueue' \in Seq(Message) /\ FreshIds' /\ SameJob' /\ DoneIsMounted'
<1>1. rqueue \in Seq(Message)
  BY DEF IInv, TypeOK, BusTypeOK
<1>2. /\ rqueue' \in Seq(Message)
      /\ Len(rqueue) \in Nat /\ Len(rqueue') = Len(rqueue) - 1
      /\ \A q \in 1..Len(rqueue') : rqueue'[q] = rqueue[q + 1]
  BY <1>1, HeadTailProperties, LenProperties
<1>3. \A q \in 1..Len(rqueue') : q + 1 \in 1..Len(rqueue)
  BY <1>2
<1>4. FreshIds'
  BY <1>2, <1>3 DEF IInv, FreshIds
<1>5. SameJob'
  BY DEF IInv, SameJob
<1>6. DoneIsMounted'
  BY <1>2, <1>3 DEF IInv, DoneIsMounted, IsMounted
<1> QED BY <1>2, <1>4, <1>5, <1>6

LEMMA ReceiveUnreadableKeeps == IInv /\ ReceiveUnreadable => IInv'
<1> SUFFICES ASSUME IInv, ReceiveUnreadable PROVE IInv'
  OBVIOUS
<1> USE DEF ReceiveUnreadable
<1>1. rqueue' \in Seq(Message) /\ FreshIds' /\ SameJob' /\ DoneIsMounted'
  BY TailKeeps
<1>2. /\ failed' \in 0..3 /\ mhelper' = mhelper
      /\ pc' \in {"waiting", "returned"} /\ lost' \in SUBSET System
      /\ pc' = "waiting" => failed' < 3
  BY CountUnreadableKeeps
<1>3. TypeOK' /\ Counting'
  BY <1>1, <1>2 DEF IInv, TypeOK, BusTypeOK, Counting
<1>4. RecordedIsMounted' /\ Allocated' /\ RecordFits'
  BY <1>2 DEF IInv, RecordedIsMounted, Recorded, IsMounted, Allocated, RecordFits
<1> QED BY <1>1, <1>3, <1>4 DEF IInv

LEMMA ReceiveOtherKeeps == IInv /\ ReceiveOther => IInv'
<1> SUFFICES ASSUME IInv, ReceiveOther PROVE IInv'
  OBVIOUS
<1> USE DEF ReceiveOther, localVars
<1>1. rqueue' \in Seq(Message) /\ FreshIds' /\ SameJob' /\ DoneIsMounted'
  BY TailKeeps
<1>2. TypeOK' /\ Counting'
  BY <1>1 DEF IInv, TypeOK, BusTypeOK, Counting
<1>3. RecordedIsMounted' /\ Allocated' /\ RecordFits'
  BY DEF IInv, RecordedIsMounted, Recorded, IsMounted, Allocated, RecordFits
<1> QED BY <1>1, <1>2, <1>3 DEF IInv

(* The unit the starting loop considers provides a system. *)
LEMMA ConsideredUnit ==
  ASSUME IInv, i <= Len(shelper.mounts)
  PROVE  shelper.mounts[i].system \in System
<1>1. shelper.mounts \in Seq(Unit)
  BY HelpersAssumption DEF IInv, TypeOK, IsHelper
<1>2. i \in 1..Len(shelper.mounts)
  BY <1>1, LenProperties DEF IInv, TypeOK
<1>3. shelper.mounts[i] \in Unit
  BY <1>1, <1>2, ElementOfSeq
<1> QED BY <1>3 DEF Unit

(* A job more, with an id nobody has seen. *)
LEMMA NewJobKeeps ==
  ASSUME IInv, NEW s \in System,
         running' = running \cup {[id |-> nextJob, system |-> s]},
         nextJob' = nextJob + 1,
         UNCHANGED <<rqueue, mtab>>,
         \/ jobs' = jobs
         \/ jobs' = Append(jobs, [id |-> nextJob, system |-> s, finished |-> FALSE])
  PROVE  /\ running' \in SUBSET Job /\ nextJob' \in Nat \ {0}
         /\ jobs' \in Seq(StartedJob)
         /\ FreshIds' /\ SameJob' /\ DoneIsMounted'
<1> DEFINE j == [id |-> nextJob, system |-> s]
           t == [id |-> nextJob, system |-> s, finished |-> FALSE]
<1> USE DEF IInv
<1>1. nextJob \in Nat \ {0} /\ running \in SUBSET Job /\ jobs \in Seq(StartedJob)
  BY DEF TypeOK, BusTypeOK
<1>2. j \in Job /\ t \in StartedJob /\ j.id = nextJob /\ j.system = s
      /\ t.id = nextJob /\ t.system = s
  BY <1>1 DEF Job, StartedJob
<1>3. /\ jobs' \in Seq(StartedJob)
      /\ \A k \in 1..Len(jobs') :
           (k \in 1..Len(jobs) /\ jobs'[k] = jobs[k]) \/ jobs'[k] = t
  <2>1. CASE jobs' = jobs
    BY <1>1, <2>1
  <2>2. CASE jobs' = Append(jobs, t)
    <3>1. /\ jobs' \in Seq(StartedJob)
          /\ Len(jobs) \in Nat /\ Len(jobs') = Len(jobs) + 1
          /\ \A k \in 1..Len(jobs) : jobs'[k] = jobs[k]
          /\ jobs'[Len(jobs) + 1] = t
      BY <1>1, <1>2, <2>2, AppendProperties, LenProperties
    <3> QED BY <3>1
  <2> QED BY <2>1, <2>2
<1>4. \A e \in running : e.id \in Nat
  BY <1>1 DEF Job
<1>5. \A k \in 1..Len(jobs) : jobs[k] \in StartedJob /\ jobs[k].id \in Nat
  <2>1. \A k \in 1..Len(jobs) : jobs[k] \in StartedJob
    BY <1>1, ElementOfSeq
  <2> QED BY <2>1 DEF StartedJob
<1>6. \A q \in 1..Len(rqueue) :
        rqueue[q].member = "JobRemoved" => rqueue[q].id \in Nat
  <2>1. \A q \in 1..Len(rqueue) : rqueue[q] \in Message
    BY ElementOfSeq DEF TypeOK, BusTypeOK
  <2> QED BY <2>1 DEF Message
<1> HIDE DEF j, t
<1>7. running' = running \cup {j}
  BY DEF j
<1>8. FreshIds'
  BY <1>1, <1>2, <1>3, <1>4, <1>5, <1>6, <1>7 DEF FreshIds
<1>9. SameJob'
  <2> SUFFICES ASSUME NEW e \in running', NEW k \in 1..Len(jobs'), e.id = jobs'[k].id
               PROVE  e.system = jobs'[k].system
    BY DEF SameJob
  <2>1. (e \in running /\ e.id < nextJob) \/ e = j
    BY <1>7 DEF FreshIds
  <2>2. \/ k \in 1..Len(jobs) /\ jobs'[k] = jobs[k] /\ jobs[k].id < nextJob
        \/ jobs'[k] = t
    BY <1>3 DEF FreshIds
  <2>3. SameJob
    OBVIOUS
  <2> HIDE DEF IInv
  <2>4. CASE e \in running /\ jobs'[k] = jobs[k] /\ k \in 1..Len(jobs)
    BY <2>3, <2>4 DEF SameJob
  <2>5. CASE e \in running /\ e.id < nextJob /\ jobs'[k] = t
    BY <2>5, <1>1, <1>2
  <2>6. CASE e = j /\ jobs'[k] = jobs[k] /\ jobs[k].id < nextJob
    BY <2>6, <1>1, <1>2
  <2>7. CASE e = j /\ jobs'[k] = t
    BY <2>7, <1>2
  <2> QED
    BY <1>7, <2>1, <2>2, <2>4, <2>5, <2>6, <2>7
<1>10. DoneIsMounted'
  <2> SUFFICES ASSUME NEW q \in 1..Len(rqueue), NEW k \in 1..Len(jobs'),
                      rqueue[q].member = "JobRemoved",
                      rqueue[q].id = jobs'[k].id, rqueue[q].result = "done"
               PROVE  \E p \in 1..Len(mtab) : mtab[p].at = jobs'[k].system
    BY DEF DoneIsMounted, IsMounted
  <2>1. rqueue[q].id \in Nat /\ rqueue[q].id < nextJob
    BY <1>6 DEF FreshIds
  <2>2. jobs'[k] # t
    BY <1>1, <1>2, <2>1
  <2> QED BY <1>3, <2>2 DEF DoneIsMounted, IsMounted
<1> QED BY <1>1, <1>2, <1>3, <1>7, <1>8, <1>9, <1>10

LEMMA StartUnitKeeps == IInv /\ StartUnit => IInv'
<1> SUFFICES ASSUME IInv, StartUnit PROVE IInv'
  OBVIOUS
<1> USE DEF StartUnit
<1>1. shelper.mounts[i].system \in System
  BY ConsideredUnit
<1>2. /\ running' \in SUBSET Job /\ nextJob' \in Nat \ {0}
      /\ jobs' \in Seq(StartedJob)
      /\ FreshIds' /\ SameJob' /\ DoneIsMounted'
  BY <1>1, NewJobKeeps DEF Accept
<1>3. TypeOK' /\ Counting'
  BY <1>2 DEF IInv, TypeOK, BusTypeOK, Counting
<1>4. RecordedIsMounted' /\ Allocated' /\ RecordFits'
  BY DEF IInv, RecordedIsMounted, Recorded, IsMounted, Allocated, RecordFits
<1> QED BY <1>2, <1>3, <1>4 DEF IInv

LEMMA StartUnitFailsKeeps == IInv /\ StartUnitFails => IInv'
<1> SUFFICES ASSUME IInv, StartUnitFails PROVE IInv'
  OBVIOUS
<1> USE DEF StartUnitFails, Return, localVars
<1>1. shelper.mounts[i].system \in System
  BY ConsideredUnit
<1>2. /\ running' \in SUBSET Job /\ nextJob' \in Nat \ {0}
      /\ FreshIds' /\ SameJob' /\ DoneIsMounted'
  <2>1. CASE UNCHANGED <<running, nextJob>>
    BY <2>1 DEF IInv, TypeOK, BusTypeOK, FreshIds, SameJob, DoneIsMounted, IsMounted
  <2>2. CASE /\ running' = running \cup {[id |-> nextJob, system |-> shelper.mounts[i].system]}
             /\ nextJob' = nextJob + 1
    BY <1>1, <2>2, NewJobKeeps
  <2> QED BY <2>1, <2>2 DEF Reject
<1>3. TypeOK' /\ Counting'
  BY <1>1, <1>2, UnreportedType DEF IInv, TypeOK, BusTypeOK, Counting
<1>4. RecordedIsMounted' /\ Allocated' /\ RecordFits'
  BY DEF IInv, RecordedIsMounted, Recorded, IsMounted, Allocated, RecordFits
<1> QED BY <1>2, <1>3, <1>4 DEF IInv

(* Marking a job as finished touches nothing else. *)
LEMMA FinishJob ==
  ASSUME jobs \in Seq(StartedJob), NEW k \in 1..Len(jobs),
         jobs' = [jobs EXCEPT ![k].finished = TRUE]
  PROVE  /\ jobs' \in Seq(StartedJob) /\ Len(jobs') = Len(jobs)
         /\ \A m \in 1..Len(jobs) :
              /\ jobs'[m].id = jobs[m].id /\ jobs'[m].system = jobs[m].system
              /\ jobs'[m].finished = IF m = k THEN TRUE ELSE jobs[m].finished
<1> DEFINE t == [jobs[k] EXCEPT !.finished = TRUE]
<1>1. jobs[k] \in StartedJob
  BY ElementOfSeq
<1>2. /\ t \in StartedJob
      /\ t.id = jobs[k].id /\ t.system = jobs[k].system /\ t.finished = TRUE
  BY <1>1 DEF StartedJob
<1>3. jobs' = [jobs EXCEPT ![k] = t]
  OBVIOUS
<1> HIDE DEF t
<1>4. /\ [jobs EXCEPT ![k] = t] \in Seq(StartedJob)
      /\ Len([jobs EXCEPT ![k] = t]) = Len(jobs)
      /\ \A m \in 1..Len(jobs) :
           [jobs EXCEPT ![k] = t][m] = IF m = k THEN t ELSE jobs[m]
  BY <1>2, ExceptSeq
<1> QED BY <1>2, <1>3, <1>4

(* A report of one of the jobs: the job is marked, the message taken. *)
LEMMA ReportKeeps ==
  ASSUME IInv, NEW k \in 1..Len(jobs), rqueue # <<>>, rqueue' = Tail(rqueue),
         Head(rqueue).member = "JobRemoved", IsOurs(k),
         jobs' = [jobs EXCEPT ![k].finished = TRUE],
         UNCHANGED <<running, nextJob, mtab>>
  PROVE  /\ rqueue' \in Seq(Message) /\ jobs' \in Seq(StartedJob)
         /\ FreshIds' /\ SameJob' /\ DoneIsMounted'
         /\ jobs[k].system \in System
         /\ IsJobSuccess(Head(rqueue).result) => IsMounted(jobs[k].system)
<1>1. jobs \in Seq(StartedJob) /\ rqueue \in Seq(Message)
  BY DEF IInv, TypeOK, BusTypeOK
<1>2. jobs[k] \in StartedJob
  BY <1>1, ElementOfSeq
<1>3. /\ jobs' \in Seq(StartedJob) /\ Len(jobs') = Len(jobs)
      /\ \A m \in 1..Len(jobs) :
           jobs'[m].id = jobs[m].id /\ jobs'[m].system = jobs[m].system
  BY <1>1, FinishJob
<1>4. rqueue' \in Seq(Message) /\ FreshIds' /\ SameJob' /\ DoneIsMounted'
  BY <1>3, TailKeeps
<1>5. Head(rqueue) = rqueue[1] /\ 1 \in 1..Len(rqueue)
  BY <1>1, EmptySeq
<1>6. IsJobSuccess(Head(rqueue).result) => IsMounted(jobs[k].system)
  BY <1>5 DEF IInv, DoneIsMounted, IsJobSuccess, IsOurs
<1> QED BY <1>2, <1>3, <1>4, <1>6 DEF StartedJob

LEMMA ReceiveOursKeeps ==
  ASSUME IInv, NEW k \in 1..Len(jobs), ReceiveOurs(k)
  PROVE  IInv'
<1> USE DEF ReceiveOurs
<1>1. /\ rqueue' \in Seq(Message) /\ jobs' \in Seq(StartedJob)
      /\ FreshIds' /\ SameJob' /\ DoneIsMounted'
      /\ jobs[k].system \in System
      /\ IsJobSuccess(Head(rqueue).result) => IsMounted(jobs[k].system)
  BY ReportKeeps
<1>2. mhelper \in Record /\ RecordedIsMounted /\ Allocated /\ RecordFits
  BY DEF IInv, TypeOK
<1>3. mhelper' \in Record /\ RecordedIsMounted' /\ Allocated' /\ RecordFits'
  <2>1. CASE IsJobSuccess(Head(rqueue).result)
    <3>1. mhelper' = Extend(mhelper, jobs[k].system)
      BY <2>1
    <3>2. /\ mhelper' \in Record /\ mhelper'.alloc >= AllocBase
          /\ Len(mhelper'.systems) <= mhelper'.alloc
      BY <1>1, <1>2, <3>1, ExtendFits DEF Allocated, RecordFits
    <3>3. Recorded' = Recorded \cup {jobs[k].system}
      BY <1>1, <1>2, <3>1, ExtendRecorded
    <3>4. RecordedIsMounted'
      BY <1>1, <1>2, <2>1, <3>3 DEF RecordedIsMounted, IsMounted
    <3> QED BY <3>2, <3>4 DEF Allocated, RecordFits
  <2>2. CASE ~IsJobSuccess(Head(rqueue).result)
    BY <1>2, <2>2 DEF RecordedIsMounted, Recorded, IsMounted, Allocated, RecordFits
  <2> QED BY <2>1, <2>2
<1>4. TypeOK' /\ Counting'
  BY <1>1, <1>3 DEF IInv, TypeOK, BusTypeOK, Counting
<1> QED BY <1>1, <1>3, <1>4 DEF IInv

(* An empty record is a record of mounted systems. *)
LEMMA NullRecord ==
  ASSUME mhelper' = Null
  PROVE  /\ mhelper' \in Record /\ Recorded' = {}
         /\ RecordedIsMounted' /\ Allocated' /\ RecordFits'
<1>1. Null \in Record /\ Len(Null.systems) = 0 /\ Null.alloc = 0
  BY DEF Null, Record
<1>2. Recorded' = {}
  BY <1>1 DEF Recorded
<1> QED BY <1>1, <1>2 DEF RecordedIsMounted, Allocated, RecordFits

LEMMA RecordedType == IInv => Recorded \subseteq System
<1> SUFFICES ASSUME IInv PROVE Recorded \subseteq System
  OBVIOUS
<1>1. mhelper.systems \in Seq(System)
  BY DEF IInv, TypeOK, Record
<1> QED BY <1>1, ElementOfSeq DEF Recorded

LEMMA OutOfMemoryOnOursKeeps ==
  ASSUME IInv, NEW k \in 1..Len(jobs), OutOfMemoryOnOurs(k)
  PROVE  IInv'
<1> USE DEF OutOfMemoryOnOurs, Return
<1>1. /\ rqueue' \in Seq(Message) /\ jobs' \in Seq(StartedJob)
      /\ FreshIds' /\ SameJob' /\ DoneIsMounted'
  BY ReportKeeps
<1>2. /\ mhelper' \in Record
      /\ RecordedIsMounted' /\ Allocated' /\ RecordFits'
  BY NullRecord
<1>3. TypeOK' /\ Counting'
  BY <1>1, <1>2, UnreportedType, RecordedType DEF IInv, TypeOK, BusTypeOK, Counting
<1> QED BY <1>1, <1>2, <1>3 DEF IInv

(* Every step of the call keeps the invariant. *)
LEMMA InCallKeeps == IInv /\ InCall => IInv'
<1> SUFFICES ASSUME IInv, InCall PROVE IInv'
  OBVIOUS
<1>1. CASE SkipUnit BY <1>1, SkipUnitKeeps
<1>2. CASE StartUnit BY <1>2, StartUnitKeeps
<1>3. CASE StartUnitFails BY <1>3, StartUnitFailsKeeps
<1>4. CASE StartedAll BY <1>4, StartedAllKeeps
<1>5. CASE Wait BY <1>5, WaitKeeps
<1>6. CASE ReceiveUnreadable BY <1>6, ReceiveUnreadableKeeps
<1>7. CASE RereadDisconnected BY <1>7, RereadKeeps
<1>8. CASE ReceiveOther BY <1>8, ReceiveOtherKeeps
<1>9. CASE \E k \in 1..Len(jobs) : ReceiveOurs(k)
  BY <1>9, ReceiveOursKeeps
<1>10. CASE \E k \in 1..Len(jobs) : OutOfMemoryOnOurs(k)
  BY <1>10, OutOfMemoryOnOursKeeps
<1> QED BY <1>1, <1>2, <1>3, <1>4, <1>5, <1>6, <1>7, <1>8, <1>9, <1>10
           DEF InCall, Receive

LEMMA StutterKeeps == IInv /\ UNCHANGED vars => IInv'
<1> SUFFICES ASSUME IInv, UNCHANGED vars PROVE IInv'
  OBVIOUS
<1>1. TypeOK' /\ Counting'
  BY DEF IInv, TypeOK, BusTypeOK, Counting, vars, busVars, localVars
<1> QED BY <1>1, QuietStep DEF vars, busVars, localVars

-----------------------------------------------------------------------------
(* The theorems *)

(* The invariant holds throughout a call, whatever the manager, the        *)
(* connection and the allocator do (systemd.c:368-494).                    *)
THEOREM CallInvariant == Spec => []IInv
<1>1. Init => IInv
  BY InitIInv
<1>2. IInv /\ [Next]_vars => IInv'
  BY CallKeeps, InCallKeeps, ManagerKeeps, StutterKeeps DEF Next, Begin
<1> QED BY <1>1, <1>2, PTL DEF Spec

(* Every variable keeps its type; in particular no counter passes the      *)
(* limit its loop stops at (systemd.c:436-447).                            *)
THEOREM TypeCorrect == Spec => []TypeOK
<1>1. IInv => TypeOK
  BY DEF IInv
<1> QED BY <1>1, CallInvariant, PTL

(* A system is in the record only when it is mounted: no failed, foreign   *)
(* or unreadable message puts it there (systemd.c:449-481).                *)
THEOREM OnlyMountedRecorded == Spec => []RecordedIsMounted
<1>1. IInv => RecordedIsMounted
  BY DEF IInv
<1> QED BY <1>1, CallInvariant, PTL

(* The record never outgrows its array, for every ALLOC_BASE_SIZE of two   *)
(* or more (systemd.c:471-481).                                            *)
THEOREM RecordNeverOverflows == Spec => []RecordFits
<1>1. IInv => RecordFits
  BY DEF IInv
<1> QED BY <1>1, CallInvariant, PTL
-----------------------------------------------------------------------------
(* The array of jobs *)

(* The units among the first n that the call starts. *)
SelectedUpTo(z) == {k \in 1..z : Selected(k)}

(* So far one job was started for each selected unit the loop has passed.  *)
JobsInv ==
  /\ pc = "starting" =>
       /\ i <= Len(shelper.mounts) + 1
       /\ Len(jobs) = Cardinality(SelectedUpTo(i - 1))
  /\ pc = "waiting" =>
       /\ i > Len(shelper.mounts)
       /\ Len(jobs) = JobsCount(layer)

LEMMA HelperType ==
  ASSUME IInv
  PROVE  /\ shelper.mounts \in Seq(Unit) /\ Len(shelper.mounts) \in Nat
         /\ shelper.root \in 0..Len(shelper.mounts)
         /\ \A k \in 1..Len(shelper.mounts) :
              /\ shelper.mounts[k].layer \in Nat
              /\ shelper.mounts[k].layer = 0 <=> k = shelper.root
<1>1. shelper.mounts \in Seq(Unit) /\ IsHelper(shelper)
  BY HelpersAssumption DEF IInv, TypeOK, IsHelper
<1>2. \A k \in 1..Len(shelper.mounts) : shelper.mounts[k] \in Unit
  BY <1>1, ElementOfSeq
<1> QED BY <1>1, <1>2, LenProperties DEF IsHelper, Unit

LEMMA SelectedFinite ==
  ASSUME NEW z \in Nat
  PROVE  /\ IsFiniteSet(SelectedUpTo(z)) /\ Cardinality(SelectedUpTo(z)) \in Nat
<1>1. IsFiniteSet(1..z)
  BY FS_Interval
<1>2. SelectedUpTo(z) \subseteq 1..z
  BY DEF SelectedUpTo
<1>3. IsFiniteSet(SelectedUpTo(z))
  BY <1>1, <1>2, FS_Subset
<1> QED BY <1>3, FS_CardinalityType

(* The array is made for the selected units: the root unit is counted out  *)
(* of all of them, and is of no layer.                                     *)
LEMMA CountIsSelected ==
  ASSUME IInv
  PROVE  JobsCount(layer) = Cardinality(SelectedUpTo(Len(shelper.mounts)))
<1> DEFINE z == Len(shelper.mounts)
<1>1. z \in Nat /\ shelper.root \in 0..z
  BY HelperType
<1>2. layer \in Layers
  BY DEF IInv, TypeOK
<1>3. CASE layer = "all"
  <2>1. SelectedUpTo(z) = 1..z \ {shelper.root}
    BY <1>3 DEF SelectedUpTo, Selected, Matches
  <2>2. JobsCount(layer) = z - (IF shelper.root = 0 THEN 0 ELSE 1)
    BY <1>3 DEF JobsCount
  <2> HIDE DEF z
  <2>3. IsFiniteSet(1..z) /\ Cardinality(1..z) = z
    <3>1. 1 \in Int /\ z \in Int
      BY <1>1
    <3>2. /\ IsFiniteSet(1..z)
          /\ Cardinality(1..z) = IF 1 > z THEN 0 ELSE z - 1 + 1
      BY ONLY <3>1, FS_Interval
    <3> QED BY <1>1, <3>2
  <2>4. Cardinality(1..z \ {shelper.root})
          = IF shelper.root \in 1..z THEN z - 1 ELSE z
    BY <2>3, FS_RemoveElement
  <2>5. shelper.root \in 1..z <=> shelper.root # 0
    BY <1>1
  <2>6. JobsCount(layer) = Cardinality(SelectedUpTo(z))
    BY <1>1, <2>1, <2>2, <2>4, <2>5
  <2> QED BY <2>6 DEF z
<1>4. CASE layer # "all"
  <2>1. SelectedUpTo(z) = {k \in 1..z : Matches(layer, shelper.mounts[k])}
    <3>1. ASSUME NEW k \in 1..z, Matches(layer, shelper.mounts[k])
          PROVE  k # shelper.root
      <4>1. /\ shelper.mounts[k].layer \in Nat
            /\ shelper.mounts[k].layer = 0 <=> k = shelper.root
        BY HelperType
      <4>2. layer = "1" \/ layer = "2+"
        BY <1>2, <1>4 DEF Layers
      <4>3. CASE layer = "1"
        BY <3>1, <4>1, <4>3 DEF Matches
      <4>4. CASE layer = "2+"
        BY <3>1, <4>1, <4>4 DEF Matches
      <4> QED BY <4>2, <4>3, <4>4
    <3> QED BY <3>1 DEF SelectedUpTo, Selected
  <2> QED BY <1>4, <2>1 DEF JobsCount
<1> QED BY <1>3, <1>4

(* The loop passes one unit more. *)
LEMMA SelectedNext ==
  ASSUME NEW z \in Nat \ {0}
  PROVE  Cardinality(SelectedUpTo(z))
           = Cardinality(SelectedUpTo(z - 1)) + (IF Selected(z) THEN 1 ELSE 0)
<1>1. z - 1 \in Nat /\ 1..z = 1..(z - 1) \cup {z} /\ z \notin 1..(z - 1)
  OBVIOUS
<1>2. IsFiniteSet(SelectedUpTo(z - 1)) /\ Cardinality(SelectedUpTo(z - 1)) \in Nat
  BY <1>1, SelectedFinite
<1>3. CASE Selected(z)
  <2>1. SelectedUpTo(z) = SelectedUpTo(z - 1) \cup {z} /\ z \notin SelectedUpTo(z - 1)
    BY <1>1, <1>3 DEF SelectedUpTo
  <2> QED BY <1>2, <1>3, <2>1, FS_AddElement
<1>4. CASE ~Selected(z)
  <2>1. SelectedUpTo(z) = SelectedUpTo(z - 1)
    BY <1>1, <1>4 DEF SelectedUpTo
  <2> QED BY <1>2, <1>4, <2>1
<1> QED BY <1>3, <1>4

LEMMA InitJobs == Init => JobsInv
BY DEF Init, JobsInv

LEMMA JobsKept ==
  ASSUME JobsInv, UNCHANGED <<shelper, layer, i>>, Len(jobs') = Len(jobs),
         pc' = pc \/ pc' \notin {"starting", "waiting"}
  PROVE  JobsInv'
BY DEF JobsInv, SelectedUpTo, Selected, JobsCount

LEMMA CallJobs ==
  ASSUME IInv, NEW l \in Layers, Call(l)
  PROVE  JobsInv'
<1>1. /\ i' = 1 /\ jobs' = <<>> /\ shelper' = shelper
      /\ pc' \in {"starting", "returned"}
  BY DEF Call
<1>2. SelectedUpTo(i - 1)' = {}
  BY <1>1 DEF SelectedUpTo
<1>3. Cardinality({}) = 0
  BY FS_EmptySet
<1>4. Len(jobs') = 0 /\ i' <= Len(shelper'.mounts) + 1
  BY <1>1, HelperType
<1> QED BY <1>1, <1>2, <1>3, <1>4 DEF JobsInv

LEMMA ManagerJobs == JobsInv /\ Manager => JobsInv'
BY JobsKept DEF Manager, localVars

LEMMA CallStepJobs == IInv /\ JobsInv /\ InCall => JobsInv'
<1> SUFFICES ASSUME IInv, JobsInv, InCall PROVE JobsInv'
  OBVIOUS
<1>0. i \in Nat \ {0} /\ jobs \in Seq(StartedJob) /\ Len(shelper.mounts) \in Nat
  BY HelperType DEF IInv, TypeOK
<1>2. CASE SkipUnit
  <2>1. Cardinality(SelectedUpTo(i)) = Cardinality(SelectedUpTo(i - 1))
    <3>1. Cardinality(SelectedUpTo(i - 1)) \in Nat
      BY <1>0, SelectedFinite
    <3> QED BY <1>0, <1>2, <3>1, SelectedNext DEF SkipUnit
  <2>2. SelectedUpTo(i - 1)' = SelectedUpTo(i)
    BY <1>0, <1>2 DEF SkipUnit, SelectedUpTo, Selected
  <2>3. i' - 1 = i /\ pc' = "starting" /\ UNCHANGED <<jobs, shelper>>
    BY <1>0, <1>2 DEF SkipUnit
  <2>4. Len(jobs) = Cardinality(SelectedUpTo(i - 1))
    BY <1>2 DEF SkipUnit, JobsInv
  <2>5. Len(jobs') = Cardinality(SelectedUpTo(i))
    BY <2>1, <2>3, <2>4
  <2>6. i' <= Len(shelper'.mounts) + 1
    BY <1>0, <1>2 DEF SkipUnit
  <2> QED BY <2>2, <2>3, <2>5, <2>6 DEF JobsInv
<1>3. CASE StartUnit
  <2> DEFINE t == [id |-> nextJob, system |-> shelper.mounts[i].system, finished |-> FALSE]
  <2>1. Cardinality(SelectedUpTo(i)) = Cardinality(SelectedUpTo(i - 1)) + 1
    BY <1>0, <1>3, SelectedNext DEF StartUnit
  <2>2. SelectedUpTo(i - 1)' = SelectedUpTo(i)
    BY <1>0, <1>3 DEF StartUnit, SelectedUpTo, Selected
  <2>3. i' - 1 = i /\ pc' = "starting" /\ UNCHANGED shelper
    BY <1>0, <1>3 DEF StartUnit
  <2>4. Len(jobs) = Cardinality(SelectedUpTo(i - 1))
    BY <1>3 DEF StartUnit, JobsInv
  <2>5. Len(jobs') = Len(jobs) + 1
    <3>1. t \in StartedJob
      BY <1>3, ConsideredUnit DEF StartUnit, StartedJob, IInv, TypeOK, BusTypeOK
    <3>2. jobs' = Append(jobs, t)
      BY <1>3 DEF StartUnit
    <3> HIDE DEF t
    <3> QED BY <1>0, <3>1, <3>2, AppendProperties
  <2>6. i' <= Len(shelper'.mounts) + 1
    BY <1>0, <1>3 DEF StartUnit
  <2> QED BY <2>1, <2>2, <2>3, <2>4, <2>5, <2>6 DEF JobsInv
<1>4. CASE StartUnitFails
  BY <1>4 DEF StartUnitFails, Return, JobsInv
<1>5. CASE StartedAll
  <2>1. /\ pc' \in {"waiting", "returned"} /\ UNCHANGED <<i, jobs, shelper, layer>>
        /\ pc' = "waiting" => i > Len(shelper.mounts) /\ Len(jobs) = JobsCount(layer)
    BY <1>5 DEF StartedAll, Return, localVars
  <2> QED BY <2>1 DEF JobsInv, JobsCount
<1>6. CASE Wait
  <2>1. pc' \in {"waiting", "returned"}
    BY <1>6 DEF Wait, Return
  <2> QED BY <1>6, <2>1, JobsKept DEF Wait
<1>7. CASE ReceiveUnreadable \/ RereadDisconnected
  <2>1. pc = "waiting" /\ pc' \in {"waiting", "returned"}
    BY <1>7 DEF ReceiveUnreadable, RereadDisconnected, CountUnreadable, Return
  <2> QED BY <1>7, <2>1, JobsKept DEF ReceiveUnreadable, RereadDisconnected
<1>8. CASE ReceiveOther
  BY <1>8, JobsKept DEF ReceiveOther, localVars
<1>9. ASSUME NEW k \in 1..Len(jobs), ReceiveOurs(k) \/ OutOfMemoryOnOurs(k)
      PROVE  JobsInv'
  <2>1. Len(jobs') = Len(jobs) /\ pc = "waiting" /\ pc' \in {"waiting", "returned"}
    BY <1>0, <1>9, FinishJob DEF ReceiveOurs, OutOfMemoryOnOurs, Return
  <2> QED BY <1>9, <2>1, JobsKept DEF ReceiveOurs, OutOfMemoryOnOurs
<1> QED BY <1>2, <1>3, <1>4, <1>5, <1>6, <1>7, <1>8, <1>9 DEF InCall, Receive

LEMMA JobsInvariant == Spec => [](IInv /\ JobsInv)
<1>1. Init => IInv /\ JobsInv
  BY InitIInv, InitJobs
<1>2. IInv /\ JobsInv /\ [Next]_vars => IInv' /\ JobsInv'
  <2>1. IInv /\ [Next]_vars => IInv'
    BY CallKeeps, InCallKeeps, ManagerKeeps, StutterKeeps DEF Next, Begin
  <2>2. JobsInv /\ UNCHANGED vars => JobsInv'
    BY JobsKept DEF vars, localVars
  <2> QED BY <2>1, <2>2, CallJobs, CallStepJobs, ManagerJobs DEF Next, Begin
<1> QED BY <1>1, <1>2, PTL DEF Spec

(* The array of jobs is exactly large enough, for every helper and layer:  *)
(* it is never written past its end, and when the loop ends every element  *)
(* was written (systemd.c:402-428).                                        *)
THEOREM JobsFillTheirArray == Spec => []JobsFit
<1>1. IInv /\ JobsInv => JobsFit
  <2> SUFFICES ASSUME IInv, JobsInv, pc = "starting" \/ pc = "waiting"
               PROVE  /\ Len(jobs) <= JobsCount(layer)
                      /\ i > Len(shelper.mounts) => Len(jobs) = JobsCount(layer)
    BY DEF JobsFit
  <2>1. Len(jobs) \in Nat /\ Len(shelper.mounts) \in Nat /\ i \in Nat \ {0}
    BY HelperType, LenProperties DEF IInv, TypeOK
  <2>2. CASE pc = "waiting"
    BY <2>1, <2>2 DEF JobsInv
  <2>3. CASE pc = "starting"
    <3> DEFINE z == Len(shelper.mounts)
    <3>1. i - 1 \in 0..z /\ Len(jobs) = Cardinality(SelectedUpTo(i - 1))
      BY <2>1, <2>3 DEF JobsInv
    <3>2. SelectedUpTo(i - 1) \subseteq SelectedUpTo(z)
      BY <2>1, <3>1 DEF SelectedUpTo
    <3>3. Len(jobs) <= Cardinality(SelectedUpTo(z))
      <4>1. IsFiniteSet(SelectedUpTo(z))
        BY <2>1, SelectedFinite
      <4>2. Cardinality(SelectedUpTo(i - 1)) <= Cardinality(SelectedUpTo(z))
        BY <3>2, <4>1, FS_Subset
      <4> QED BY <3>1, <4>2
    <3>4. i > z => i - 1 = z
      BY <2>1, <3>1
    <3> QED BY <3>1, <3>3, <3>4, CountIsSelected
  <2> QED BY <2>2, <2>3
<1> QED BY <1>1, JobsInvariant, PTL

-----------------------------------------------------------------------------
(* Every mounted system is accounted for *)

FinishedJobs == {k \in 1..Len(jobs) : jobs[k].finished}

IsReport(q, id) == rqueue[q].member = "JobRemoved" /\ rqueue[q].id = id
HasReport(id) == \E q \in 1..Len(rqueue) : IsReport(q, id)

(* The program still waits for the report of j. *)
IsAwaited(j) ==
  \E k \in 1..Len(jobs) :
    jobs[k].id = j.id /\ jobs[k].system = j.system /\ ~jobs[k].finished

(* A job of system s was done, and the program did not read of it yet: it  *)
(* can read of it only that it was done.                                   *)
DoneUnread(s) ==
  \E k \in 1..Len(jobs) :
    /\ jobs[k].system = s /\ ~jobs[k].finished
    /\ \A j \in running : j.id # jobs[k].id
    /\ \A q \in 1..Len(rqueue) :
         IsReport(q, jobs[k].id) => rqueue[q].result = "done"

OneJobPerId == \A a \in running, b \in running : a.id = b.id => a = b

(* What the manager still works on is awaited, or the program gave it up.  *)
RunningAwaited ==
  \A j \in running : j.system \in lost \/ (IsAwaited(j) /\ ~HasReport(j.id))

MountedAccounted ==
  \A s \in System :
    IsMounted(s) => s \in Recorded \/ s \in lost \/ DoneUnread(s)

FinishedCounted ==
  pc \in {"starting", "waiting"} => finished = Cardinality(FinishedJobs)

(* Out of a call nothing is awaited: what is unfinished was given up.      *)
IdleForgets == pc \in {"ready", "returned"} => Unreported \subseteq lost

AccountInv ==
  /\ OneJobPerId /\ RunningAwaited /\ MountedAccounted
  /\ FinishedCounted /\ IdleForgets

(* The queue got no report of a job of this manager's program. *)
NoNewReport ==
  \A q \in 1..Len(rqueue') :
    rqueue'[q].member = "JobRemoved" /\ rqueue'[q].id # 0
      => \E p \in 1..Len(rqueue) : rqueue[p] = rqueue'[q]

LEMMA NewReports ==
  ASSUME NoNewReport, NEW id, id # 0
  PROVE  /\ HasReport(id)' => HasReport(id)
         /\ (\A p \in 1..Len(rqueue) : IsReport(p, id) => rqueue[p].result = "done")
              => (\A q \in 1..Len(rqueue') : IsReport(q, id)' => rqueue'[q].result = "done")
BY DEF NoNewReport, HasReport, IsReport

LEMMA TailReports ==
  ASSUME IInv, rqueue # <<>>, rqueue' = Tail(rqueue)
  PROVE  NoNewReport
<1>1. rqueue \in Seq(Message)
  BY DEF IInv, TypeOK, BusTypeOK
<1>2. /\ Len(rqueue) \in Nat /\ Len(rqueue') = Len(rqueue) - 1
      /\ \A q \in 1..Len(rqueue') : rqueue'[q] = rqueue[q + 1]
  BY <1>1, HeadTailProperties, LenProperties
<1>3. \A q \in 1..Len(rqueue') : q + 1 \in 1..Len(rqueue)
  BY <1>2
<1> QED BY <1>2, <1>3 DEF NoNewReport

LEMMA IdTypes ==
  ASSUME IInv
  PROVE  /\ \A k \in 1..Len(jobs) :
              jobs[k].id \in Nat \ {0} /\ jobs[k].system \in System
         /\ \A j \in running : j.id \in Nat \ {0} /\ j.system \in System
         /\ Len(jobs) \in Nat /\ nextJob \in Nat \ {0}
<1>1. \A k \in 1..Len(jobs) : jobs[k] \in StartedJob
  BY ElementOfSeq DEF IInv, TypeOK
<1>2. running \subseteq Job
  BY DEF IInv, TypeOK, BusTypeOK
<1> QED BY <1>1, <1>2, LenProperties DEF IInv, TypeOK, BusTypeOK, StartedJob, Job

(* Steps that start no job, remove none and read of none; one that ends    *)
(* the call gives the unfinished jobs up.                                  *)
LEMMA AccountKept ==
  ASSUME IInv, AccountInv, UNCHANGED <<running, mtab, jobs, finished>>,
         mhelper' = mhelper, NoNewReport, lost \subseteq lost',
         pc' \in {"starting", "waiting"} => pc \in {"starting", "waiting"},
         pc' \in {"ready", "returned"} => Unreported \subseteq lost'
  PROVE  AccountInv'
<1> USE DEF AccountInv
<1>1. OneJobPerId' /\ FinishedCounted'
  BY DEF OneJobPerId, FinishedCounted, FinishedJobs
<1>2. IdleForgets'
  BY DEF IdleForgets, Unreported
<1>3. RunningAwaited'
  <2> SUFFICES ASSUME NEW j \in running
               PROVE  j.system \in lost' \/ (IsAwaited(j)' /\ ~HasReport(j.id)')
    BY DEF RunningAwaited
  <2>1. j.id # 0
    BY IdTypes
  <2>2. IsAwaited(j) => IsAwaited(j)'
    BY DEF IsAwaited
  <2> QED BY <2>1, <2>2, NewReports DEF RunningAwaited
<1>4. MountedAccounted'
  <2> SUFFICES ASSUME NEW s \in System, IsMounted(s)'
               PROVE  s \in Recorded' \/ s \in lost' \/ DoneUnread(s)'
    BY DEF MountedAccounted
  <2>1. s \in Recorded \/ s \in lost \/ DoneUnread(s)
    BY DEF MountedAccounted, IsMounted
  <2>2. Recorded' = Recorded
    BY DEF Recorded
  <2>3. ASSUME DoneUnread(s) PROVE DoneUnread(s)'
    <3>1. PICK k \in 1..Len(jobs) :
            /\ jobs[k].system = s /\ ~jobs[k].finished
            /\ \A j \in running : j.id # jobs[k].id
            /\ \A q \in 1..Len(rqueue) :
                 IsReport(q, jobs[k].id) => rqueue[q].result = "done"
      BY <2>3 DEF DoneUnread
    <3>2. jobs[k].id # 0
      BY IdTypes
    <3>3. \A q \in 1..Len(rqueue') :
            IsReport(q, jobs[k].id)' => rqueue'[q].result = "done"
      BY <3>1, <3>2 DEF NoNewReport, IsReport
    <3> QED BY <3>1, <3>3 DEF DoneUnread
  <2> QED BY <2>1, <2>2, <2>3
<1> QED BY <1>1, <1>2, <1>3, <1>4

LEMMA InitAccount == Init => AccountInv
<1> SUFFICES ASSUME Init PROVE AccountInv
  OBVIOUS
<1>1. OneJobPerId /\ RunningAwaited /\ FinishedCounted /\ IdleForgets
  BY DEF Init, BusInit, OneJobPerId, RunningAwaited, FinishedCounted, IdleForgets,
         Unreported
<1>2. MountedAccounted
  <2> SUFFICES ASSUME NEW s \in System, IsMounted(s) PROVE s \in Recorded
    BY DEF MountedAccounted
  <2>1. PICK g \in Given :
          /\ mhelper = IF g = <<>> THEN Null ELSE [systems |-> g, alloc |-> AllocBase]
          /\ mtab = [k \in 1..Len(g) |-> [at |-> g[k], by |-> "drive"]]
    BY DEF Init
  <2>2. g \in Seq(System) /\ Len(g) \in Nat
    BY GivenAssumption, LenProperties
  <2>3. mhelper.systems = g
    BY <2>1 DEF Null
  <2>4. PICK p \in 1..Len(mtab) : mtab[p].at = s
    BY DEF IsMounted
  <2>5. p \in 1..Len(g) /\ g[p] = s
    BY <2>1, <2>2, <2>4
  <2> QED BY <2>3, <2>5 DEF Recorded
<1> QED BY <1>1, <1>2 DEF AccountInv

LEMMA RemoveJobAccounted ==
  ASSUME IInv, AccountInv, NEW b, RemoveJob(b),
         UNCHANGED <<localVars, pc, shelper, layer, mhelper, lost>>
  PROVE  AccountInv'
<1> USE DEF AccountInv
<1>1. PICK j \in running, result \in Result :
        /\ running' = running \ {j}
        /\ \/ result = "done" /\ PutMount(j.system, "unit")
           \/ UNCHANGED mtab
        /\ Emit(JobRemoved(j.id, result), b)
  BY DEF RemoveJob, RemoveJobAs
<1>2. j.id \in Nat \ {0} /\ j.system \in System
  BY IdTypes
<1>3. mtab \in Seq(Mount) /\ rqueue \in Seq(Message)
  BY DEF IInv, TypeOK, BusTypeOK
<1>4. \A s : IsMounted(s)' => IsMounted(s) \/ (s = j.system /\ result = "done")
  <2>1. CASE result = "done" /\ PutMount(j.system, "unit")
    <3> DEFINE m == [at |-> j.system, by |-> "unit"]
    <3>1. m \in Mount /\ m.at = j.system /\ mtab' = Append(mtab, m)
      BY <1>2, <2>1 DEF Mount, Provider, PutMount
    <3> HIDE DEF m
    <3> QED BY <1>3, <2>1, <3>1, MountStays
  <2>2. CASE UNCHANGED mtab
    BY <2>2 DEF IsMounted
  <2> QED BY <1>1, <2>1, <2>2
<1>5. DEFINE m == JobRemoved(j.id, result)
<1>6. m \in Message /\ m.member = "JobRemoved" /\ m.id = j.id /\ m.result = result
  BY <1>2 DEF JobRemoved, Message
<1>7. \A q \in 1..Len(rqueue') :
        (q \in 1..Len(rqueue) /\ rqueue'[q] = rqueue[q]) \/ rqueue'[q] = m
  BY <1>1, <1>3, <1>6, EmitQueue
<1> HIDE DEF m
<1>8. UNCHANGED <<jobs, finished, mhelper, lost, pc>>
  BY DEF localVars
<1>10. FinishedCounted' /\ IdleForgets'
  BY <1>8 DEF FinishedCounted, FinishedJobs, IdleForgets, Unreported
<1>11. OneJobPerId' /\ \A a \in running' : a \in running /\ a.id # j.id
  BY <1>1 DEF OneJobPerId
<1>12. RunningAwaited'
  <2> SUFFICES ASSUME NEW a \in running'
               PROVE  a.system \in lost' \/ (IsAwaited(a)' /\ ~HasReport(a.id)')
    BY DEF RunningAwaited
  <2>1. a.system \in lost \/ (IsAwaited(a) /\ ~HasReport(a.id))
    BY <1>11 DEF RunningAwaited
  <2>2. IsAwaited(a) => IsAwaited(a)'
    BY <1>8 DEF IsAwaited
  <2>3. HasReport(a.id)' => HasReport(a.id)
    BY <1>6, <1>7, <1>11 DEF HasReport, IsReport
  <2> QED BY <1>8, <2>1, <2>2, <2>3
<1>13. MountedAccounted'
  <2> SUFFICES ASSUME NEW s \in System, IsMounted(s)', s \notin Recorded, s \notin lost
               PROVE  DoneUnread(s)'
    BY <1>8 DEF MountedAccounted, Recorded
  <2>1. CASE IsMounted(s)
    <3>1. PICK k \in 1..Len(jobs) :
            /\ jobs[k].system = s /\ ~jobs[k].finished
            /\ \A a \in running : a.id # jobs[k].id
            /\ \A q \in 1..Len(rqueue) :
                 IsReport(q, jobs[k].id) => rqueue[q].result = "done"
      BY <2>1 DEF MountedAccounted, DoneUnread
    <3>2. \A q \in 1..Len(rqueue') :
            IsReport(q, jobs[k].id)' => rqueue'[q].result = "done"
      BY <1>6, <1>7, <1>8, <3>1 DEF IsReport
    <3> QED BY <1>8, <1>11, <3>1, <3>2 DEF DoneUnread
  <2>2. CASE s = j.system /\ result = "done"
    <3>1. IsAwaited(j) /\ ~HasReport(j.id)
      BY <2>2 DEF RunningAwaited
    <3>2. PICK k \in 1..Len(jobs) :
            jobs[k].id = j.id /\ jobs[k].system = j.system /\ ~jobs[k].finished
      BY <3>1 DEF IsAwaited
    <3>3. \A q \in 1..Len(rqueue') :
            IsReport(q, jobs[k].id)' => rqueue'[q].result = "done"
      BY <1>6, <1>7, <1>8, <2>2, <3>1, <3>2 DEF IsReport, HasReport
    <3> QED BY <1>8, <1>11, <2>2, <3>2, <3>3 DEF DoneUnread
  <2> QED BY <1>4, <2>1, <2>2
<1> QED BY <1>10, <1>11, <1>12, <1>13

LEMMA OthersReportNothing ==
  ASSUME IInv, NEW b, ForeignJobRemoved(b) \/ Hangup
  PROVE  NoNewReport /\ UNCHANGED <<running, mtab>>
<1>1. rqueue \in Seq(Message)
  BY DEF IInv, TypeOK, BusTypeOK
<1>2. CASE ForeignJobRemoved(b)
  <2>1. PICK result \in Result : Emit(JobRemoved(ForeignId, result), b)
    BY <1>2 DEF ForeignJobRemoved
  <2> DEFINE m == JobRemoved(ForeignId, result)
  <2>2. m \in Message /\ m.id = 0 /\ Emit(m, b)
    BY <2>1 DEF JobRemoved, Message, ForeignId
  <2> HIDE DEF m
  <2>3. \A q \in 1..Len(rqueue') :
          (q \in 1..Len(rqueue) /\ rqueue'[q] = rqueue[q]) \/ rqueue'[q] = m
    BY <1>1, <2>2, EmitQueue
  <2> QED BY <1>2, <2>2, <2>3 DEF NoNewReport, ForeignJobRemoved
<1>3. CASE Hangup
  <2>1. Unreadable \in Message /\ Unreadable.member = "Unreadable"
    BY DEF Unreadable, Message
  <2>2. \A q \in 1..Len(rqueue') :
          (q \in 1..Len(rqueue) /\ rqueue'[q] = rqueue[q]) \/ rqueue'[q] = Unreadable
    <3>1. CASE rqueue' = Append(rqueue, Unreadable)
      BY <1>1, <2>1, <3>1, AppendProperties, LenProperties
    <3>2. CASE rqueue' = <<Unreadable>>
      BY <2>1, <3>2
    <3> QED BY <1>3, <3>1, <3>2 DEF Hangup
  <2> QED BY <1>3, <2>1, <2>2 DEF NoNewReport, Hangup
<1> QED BY <1>2, <1>3

LEMMA SameQueue == rqueue' = rqueue => NoNewReport
BY DEF NoNewReport

LEMMA ManagerAccounted == IInv /\ AccountInv /\ Manager => AccountInv'
<1> SUFFICES ASSUME IInv, AccountInv, Manager PROVE AccountInv'
  OBVIOUS
<1>1. CASE RemoveJob(Heard)
  BY <1>1, RemoveJobAccounted DEF Manager
<1>2. CASE ForeignJobRemoved(Heard) \/ Hangup
  <2>1. NoNewReport /\ UNCHANGED <<running, mtab>>
    BY <1>2, OthersReportNothing
  <2>2. UNCHANGED <<localVars, pc, shelper, layer, mhelper, lost>>
    BY DEF Manager
  <2> QED BY <2>1, <2>2, AccountKept DEF localVars, AccountInv, IdleForgets
<1> QED BY <1>1, <1>2 DEF Manager, Environment

(* What is awaited and what was done and not read of is unreported. *)
LEMMA AwaitedUnreported ==
  /\ \A j : IsAwaited(j) => j.system \in Unreported
  /\ \A s : DoneUnread(s) => s \in Unreported
BY DEF IsAwaited, DoneUnread, Unreported

LEMMA CallAccounted ==
  ASSUME IInv, AccountInv, pc = "ready", NEW l \in Layers, Call(l)
  PROVE  AccountInv'
<1> USE DEF AccountInv
<1>1. /\ UNCHANGED <<link, rqueue, running, nextJob, foreign, mtab, mhelper, lost>>
      /\ jobs' = <<>> /\ finished' = 0 /\ pc' \in {"starting", "returned"}
  BY DEF Call, busVars
<1>2. Len(jobs') = 0
  BY <1>1
<1>3. FinishedJobs' = {} /\ Cardinality({}) = 0
  BY <1>2, FS_EmptySet DEF FinishedJobs
<1>4. Unreported' = {} /\ Unreported \subseteq lost
  BY <1>2 DEF Unreported, IdleForgets
<1>5. RunningAwaited'
  BY <1>1, <1>4, AwaitedUnreported DEF RunningAwaited
<1>6. MountedAccounted'
  BY <1>1, <1>4, AwaitedUnreported DEF MountedAccounted, IsMounted, Recorded
<1> QED BY <1>1, <1>3, <1>4, <1>5, <1>6 DEF OneJobPerId, FinishedCounted, IdleForgets

(* A job more, with an id that is nowhere in use. *)
LEMMA NewJobAccounted ==
  ASSUME IInv, AccountInv,
         running' = running \cup {[id |-> nextJob, system |-> shelper.mounts[i].system]}
  PROVE  /\ OneJobPerId'
         /\ \A j \in running' :
              j \in running \/ (j.id = nextJob /\ j.system = shelper.mounts[i].system)
         /\ ~HasReport(nextJob)
         /\ \A k \in 1..Len(jobs) : jobs[k].id # nextJob
<1>1. FreshIds
  BY DEF IInv
<1>2. /\ \A j \in running : j.id \in Nat
      /\ \A k \in 1..Len(jobs) : jobs[k].id \in Nat
      /\ nextJob \in Nat
  BY IdTypes
<1>3. ~HasReport(nextJob)
  BY <1>1, <1>2 DEF FreshIds, HasReport, IsReport
<1>4. \A k \in 1..Len(jobs) : jobs[k].id # nextJob
  BY <1>1, <1>2 DEF FreshIds
<1>5. \A j \in running : j.id # nextJob
  BY <1>1, <1>2 DEF FreshIds
<1>6. OneJobPerId'
  BY <1>5 DEF AccountInv, OneJobPerId
<1> QED BY <1>3, <1>4, <1>6

LEMMA StartUnitAccounted == IInv /\ AccountInv /\ StartUnit => AccountInv'
<1> SUFFICES ASSUME IInv, AccountInv, StartUnit PROVE AccountInv'
  OBVIOUS
<1> DEFINE s == shelper.mounts[i].system
           t == [id |-> nextJob, system |-> s, finished |-> FALSE]
<1> USE DEF AccountInv
<1>1. /\ running' = running \cup {[id |-> nextJob, system |-> s]}
      /\ jobs' = Append(jobs, t)
      /\ pc = "starting"
      /\ UNCHANGED <<rqueue, mtab, finished, pc, mhelper, lost>>
  BY DEF StartUnit, Accept
<1>2. /\ OneJobPerId'
      /\ \A j \in running' : j \in running \/ (j.id = nextJob /\ j.system = s)
      /\ ~HasReport(nextJob)
      /\ \A k \in 1..Len(jobs) : jobs[k].id # nextJob
  BY <1>1, NewJobAccounted
<1>3. t \in StartedJob /\ t.id = nextJob /\ t.system = s /\ t.finished = FALSE
  BY ConsideredUnit DEF StartUnit, StartedJob, IInv, TypeOK, BusTypeOK
<1> HIDE DEF s, t
<1>4. /\ Len(jobs) \in Nat /\ Len(jobs') = Len(jobs) + 1
      /\ \A k \in 1..Len(jobs) : jobs'[k] = jobs[k]
      /\ jobs'[Len(jobs) + 1] = t
  <2>1. jobs \in Seq(StartedJob)
    BY DEF IInv, TypeOK
  <2> QED BY <1>1, <1>3, <2>1, AppendProperties, LenProperties
<1>5. IdleForgets'
  BY <1>1 DEF IdleForgets
<1>6. FinishedCounted'
  <2>1. FinishedJobs' = FinishedJobs
    BY <1>3, <1>4 DEF FinishedJobs
  <2> QED BY <1>1, <2>1 DEF FinishedCounted
<1>7. RunningAwaited'
  <2> SUFFICES ASSUME NEW j \in running'
               PROVE  j.system \in lost \/ (IsAwaited(j)' /\ ~HasReport(j.id))
    BY <1>1 DEF RunningAwaited, HasReport, IsReport
  <2>1. CASE j \in running
    <3>1. IsAwaited(j) => IsAwaited(j)'
      BY <1>4 DEF IsAwaited
    <3> QED BY <2>1, <3>1 DEF RunningAwaited
  <2>2. CASE j.id = nextJob /\ j.system = s
    <3>1. Len(jobs) + 1 \in 1..Len(jobs')
      BY <1>4
    <3>2. IsAwaited(j)'
      BY <1>3, <1>4, <2>2, <3>1 DEF IsAwaited
    <3> QED BY <1>2, <2>2, <3>2
  <2> QED BY <1>2, <2>1, <2>2
<1>8. MountedAccounted'
  <2> SUFFICES ASSUME NEW x \in System, DoneUnread(x)
               PROVE  DoneUnread(x)'
    BY <1>1 DEF MountedAccounted, IsMounted, Recorded
  <2>1. PICK k \in 1..Len(jobs) :
          /\ jobs[k].system = x /\ ~jobs[k].finished
          /\ \A j \in running : j.id # jobs[k].id
          /\ \A q \in 1..Len(rqueue) :
               IsReport(q, jobs[k].id) => rqueue[q].result = "done"
    BY DEF DoneUnread
  <2>2. k \in 1..Len(jobs') /\ jobs'[k] = jobs[k]
    BY <1>4
  <2>3. \A j \in running' : j.id # jobs[k].id
    BY <1>2, <2>1
  <2>4. \A q \in 1..Len(rqueue') :
          IsReport(q, jobs[k].id)' => rqueue'[q].result = "done"
    BY <1>1, <2>1, <2>2 DEF IsReport
  <2> QED BY <2>1, <2>2, <2>3, <2>4 DEF DoneUnread
<1> QED BY <1>2, <1>5, <1>6, <1>7, <1>8

LEMMA StartUnitFailsAccounted == IInv /\ AccountInv /\ StartUnitFails => AccountInv'
<1> SUFFICES ASSUME IInv, AccountInv, StartUnitFails PROVE AccountInv'
  OBVIOUS
<1> DEFINE s == shelper.mounts[i].system
<1> USE DEF AccountInv
<1>1. /\ pc' = "returned" /\ mhelper' = mhelper /\ UNCHANGED <<rqueue, mtab, jobs>>
      /\ lost' = lost \cup Unreported \cup {s}
      /\ Reject(s)
  BY DEF StartUnitFails, Return, localVars
<1>2. /\ OneJobPerId'
      /\ \A j \in running' : j \in running \/ j.system = s
  <2>1. CASE running' = running
    BY <2>1 DEF OneJobPerId
  <2>2. CASE running' = running \cup {[id |-> nextJob, system |-> s]}
    BY <2>2, NewJobAccounted
  <2> QED BY <1>1, <2>1, <2>2 DEF Reject
<1> HIDE DEF s
<1>3. RunningAwaited'
  <2> SUFFICES ASSUME NEW j \in running' PROVE j.system \in lost'
    BY DEF RunningAwaited
  <2> QED BY <1>1, <1>2, AwaitedUnreported DEF RunningAwaited
<1>4. MountedAccounted'
  BY <1>1, AwaitedUnreported DEF MountedAccounted, IsMounted, Recorded
<1>5. FinishedCounted' /\ IdleForgets'
  BY <1>1 DEF FinishedCounted, IdleForgets, Unreported
<1> QED BY <1>2, <1>3, <1>4, <1>5

(* The last report finishes the last job. *)
LEMMA LastReport ==
  ASSUME IInv, AccountInv, JobsInv, pc = "waiting",
         NEW k \in 1..Len(jobs), ~jobs[k].finished,
         jobs' = [jobs EXCEPT ![k].finished = TRUE], finished' = finished + 1
  PROVE  /\ finished' = Cardinality(FinishedJobs')
         /\ IsLastReport => \A z \in 1..Len(jobs) : z = k \/ jobs[z].finished
<1>1. /\ Len(jobs') = Len(jobs)
      /\ \A z \in 1..Len(jobs) :
           jobs'[z].finished = IF z = k THEN TRUE ELSE jobs[z].finished
  BY FinishJob DEF IInv, TypeOK
<1>2. /\ FinishedJobs' = FinishedJobs \cup {k} /\ k \notin FinishedJobs
      /\ FinishedJobs' \subseteq 1..Len(jobs)
  BY <1>1 DEF FinishedJobs
<1>3. Len(jobs) \in Nat
  BY IdTypes
<1>4. IsFiniteSet(1..Len(jobs)) /\ Cardinality(1..Len(jobs)) = Len(jobs)
  <2> DEFINE z == Len(jobs)
  <2>1. z \in Nat
    BY <1>3
  <2> HIDE DEF z
  <2>2. 1 \in Int /\ z \in Int
    BY <2>1
  <2>3. IsFiniteSet(1..z) /\ Cardinality(1..z) = IF 1 > z THEN 0 ELSE z - 1 + 1
    BY ONLY <2>2, FS_Interval
  <2>4. IsFiniteSet(1..z) /\ Cardinality(1..z) = z
    BY <2>1, <2>3
  <2> QED BY <2>4 DEF z
<1>5. IsFiniteSet(FinishedJobs)
  BY <1>2, <1>4, FS_Subset
<1>6. Cardinality(FinishedJobs') = Cardinality(FinishedJobs) + 1
  BY <1>2, <1>5, FS_AddElement
<1>7. finished' = Cardinality(FinishedJobs')
  BY <1>6 DEF AccountInv, FinishedCounted
<1>8. ASSUME IsLastReport PROVE FinishedJobs' = 1..Len(jobs)
  <2>1. finished' = Len(jobs)
    BY <1>8 DEF IsLastReport, JobsInv
  <2> QED BY <1>2, <1>4, <1>7, <2>1, FS_Subset
<1> QED BY <1>1, <1>7, <1>8 DEF FinishedJobs

LEMMA ReceiveOursAccounted ==
  ASSUME IInv, AccountInv, JobsInv, NEW k \in 1..Len(jobs), ReceiveOurs(k)
  PROVE  AccountInv'
<1> USE DEF AccountInv
<1>1. /\ pc = "waiting" /\ rqueue # <<>> /\ rqueue' = Tail(rqueue)
      /\ Head(rqueue).member = "JobRemoved"
      /\ ~jobs[k].finished /\ jobs[k].id = Head(rqueue).id
      /\ jobs' = [jobs EXCEPT ![k].finished = TRUE]
      /\ finished' = finished + 1
      /\ pc' = IF IsLastReport THEN "returned" ELSE "waiting"
      /\ UNCHANGED <<running, mtab, lost>>
  BY DEF ReceiveOurs, IsOurs
<1>2. /\ Len(jobs') = Len(jobs)
      /\ \A z \in 1..Len(jobs) :
           /\ jobs'[z].id = jobs[z].id /\ jobs'[z].system = jobs[z].system
           /\ jobs'[z].finished = IF z = k THEN TRUE ELSE jobs[z].finished
  BY <1>1, FinishJob DEF IInv, TypeOK
<1>3. /\ finished' = Cardinality(FinishedJobs')
      /\ IsLastReport => \A z \in 1..Len(jobs) : z = k \/ jobs[z].finished
  BY <1>1, LastReport
<1>4. NoNewReport
  BY <1>1, TailReports
<1>5. 1 \in 1..Len(rqueue) /\ IsReport(1, jobs[k].id) /\ Head(rqueue) = rqueue[1]
  BY <1>1, EmptySeq DEF IInv, TypeOK, BusTypeOK, IsReport
<1>6. OneJobPerId' /\ FinishedCounted'
  BY <1>1, <1>3 DEF OneJobPerId, FinishedCounted
<1>7. IdleForgets'
  <2>1. IsLastReport => Unreported' = {}
    BY <1>2, <1>3 DEF Unreported
  <2> QED BY <1>1, <2>1 DEF IdleForgets
<1>8. RunningAwaited'
  <2> SUFFICES ASSUME NEW j \in running, j.system \notin lost
               PROVE  IsAwaited(j)' /\ ~HasReport(j.id)'
    BY <1>1 DEF RunningAwaited
  <2>1. IsAwaited(j) /\ ~HasReport(j.id)
    BY DEF RunningAwaited
  <2>2. PICK z \in 1..Len(jobs) :
          jobs[z].id = j.id /\ jobs[z].system = j.system /\ ~jobs[z].finished
    BY <2>1 DEF IsAwaited
  <2>3. z # k
    BY <1>5, <2>1, <2>2 DEF HasReport
  <2>4. IsAwaited(j)'
    BY <1>2, <2>2, <2>3 DEF IsAwaited
  <2>5. ~HasReport(j.id)'
    BY <1>4, <2>1, IdTypes, NewReports
  <2> QED BY <2>4, <2>5
<1>9. MountedAccounted'
  <2> SUFFICES ASSUME NEW s \in System, IsMounted(s), s \notin lost
               PROVE  s \in Recorded' \/ DoneUnread(s)'
    BY <1>1 DEF MountedAccounted, IsMounted
  <2>1. jobs[k].system \in System /\ mhelper \in Record
    BY IdTypes DEF IInv, TypeOK
  <2>2. /\ Recorded \subseteq Recorded'
        /\ IsJobSuccess(Head(rqueue).result) => jobs[k].system \in Recorded'
    <3>1. CASE IsJobSuccess(Head(rqueue).result)
      <4>1. mhelper' = Extend(mhelper, jobs[k].system)
        BY <3>1 DEF ReceiveOurs
      <4>2. Recorded' = Recorded \cup {jobs[k].system}
        BY <2>1, <4>1, ExtendRecorded
      <4> QED BY <4>2
    <3>2. CASE ~IsJobSuccess(Head(rqueue).result)
      BY <3>2 DEF ReceiveOurs, Recorded
    <3> QED BY <3>1, <3>2
  <2>3. CASE s \in Recorded
    BY <2>2, <2>3
  <2>4. CASE DoneUnread(s)
    <3>1. PICK z \in 1..Len(jobs) :
            /\ jobs[z].system = s /\ ~jobs[z].finished
            /\ \A j \in running : j.id # jobs[z].id
            /\ \A q \in 1..Len(rqueue) :
                 IsReport(q, jobs[z].id) => rqueue[q].result = "done"
      BY <2>4 DEF DoneUnread
    <3>2. CASE z = k
      BY <1>5, <2>2, <3>1, <3>2 DEF IsJobSuccess
    <3>3. CASE z # k
      <4>1. jobs[z].id # 0
        BY IdTypes
      <4>2. \A q \in 1..Len(rqueue') :
              IsReport(q, jobs[z].id)' => rqueue'[q].result = "done"
        <5> SUFFICES ASSUME NEW q \in 1..Len(rqueue'),
                            rqueue'[q].member = "JobRemoved",
                            rqueue'[q].id = jobs'[z].id
                     PROVE  rqueue'[q].result = "done"
          BY DEF IsReport
        <5>1. jobs'[z].id = jobs[z].id
          BY <1>2
        <5>2. PICK p \in 1..Len(rqueue) : rqueue[p] = rqueue'[q]
          BY <1>4, <4>1, <5>1 DEF NoNewReport
        <5> QED BY <3>1, <5>1, <5>2 DEF IsReport
      <4> QED BY <1>1, <1>2, <3>1, <3>3, <4>2 DEF DoneUnread
    <3> QED BY <3>2, <3>3
  <2> QED BY <2>3, <2>4 DEF MountedAccounted
<1> QED BY <1>6, <1>7, <1>8, <1>9

LEMMA OutOfMemoryOnOursAccounted ==
  ASSUME IInv, AccountInv, NEW k \in 1..Len(jobs), OutOfMemoryOnOurs(k)
  PROVE  AccountInv'
<1> USE DEF AccountInv
<1>1. /\ pc' = "returned" /\ lost' = lost \cup Unreported \cup Recorded
      /\ jobs' = [jobs EXCEPT ![k].finished = TRUE]
      /\ UNCHANGED <<running, mtab>>
  BY DEF OutOfMemoryOnOurs, Return
<1>2. /\ Len(jobs') = Len(jobs)
      /\ \A z \in 1..Len(jobs) :
           /\ jobs'[z].system = jobs[z].system
           /\ jobs[z].finished => jobs'[z].finished
  BY <1>1, FinishJob DEF IInv, TypeOK
<1>3. Unreported' \subseteq Unreported
  BY <1>2 DEF Unreported
<1>4. RunningAwaited'
  BY <1>1, AwaitedUnreported DEF RunningAwaited
<1>5. MountedAccounted'
  BY <1>1, AwaitedUnreported DEF MountedAccounted, IsMounted
<1>6. OneJobPerId' /\ FinishedCounted' /\ IdleForgets'
  BY <1>1, <1>3 DEF OneJobPerId, FinishedCounted, IdleForgets
<1> QED BY <1>4, <1>5, <1>6

LEMMA CallStepAccounted ==
  IInv /\ AccountInv /\ JobsInv /\ InCall => AccountInv'
<1> SUFFICES ASSUME IInv, AccountInv, JobsInv, InCall PROVE AccountInv'
  OBVIOUS
<1>1. CASE SkipUnit
  BY <1>1, SameQueue, AccountKept DEF SkipUnit, busVars
<1>2. CASE StartUnit BY <1>2, StartUnitAccounted
<1>3. CASE StartUnitFails BY <1>3, StartUnitFailsAccounted
<1>4. CASE StartedAll
  BY <1>4, SameQueue, AccountKept DEF StartedAll, Return, busVars, localVars
<1>5. CASE Wait
  BY <1>5, SameQueue, AccountKept DEF Wait, Return, busVars
<1>6. CASE ReceiveUnreadable
  BY <1>6, TailReports, AccountKept DEF ReceiveUnreadable, CountUnreadable, Return
<1>7. CASE RereadDisconnected
  BY <1>7, SameQueue, AccountKept DEF RereadDisconnected, CountUnreadable, Return, busVars
<1>8. CASE ReceiveOther
  BY <1>8, TailReports, AccountKept DEF ReceiveOther, localVars
<1>9. CASE \E k \in 1..Len(jobs) : ReceiveOurs(k)
  BY <1>9, ReceiveOursAccounted
<1>10. CASE \E k \in 1..Len(jobs) : OutOfMemoryOnOurs(k)
  BY <1>10, OutOfMemoryOnOursAccounted
<1> QED BY <1>1, <1>2, <1>3, <1>4, <1>5, <1>6, <1>7, <1>8, <1>9, <1>10
           DEF InCall, Receive

LEMMA StutterAccounted == IInv /\ AccountInv /\ UNCHANGED vars => AccountInv'
<1> SUFFICES ASSUME IInv, AccountInv, UNCHANGED vars PROVE AccountInv'
  OBVIOUS
<1>1. /\ UNCHANGED <<rqueue, running, mtab, jobs, finished>>
      /\ UNCHANGED <<mhelper, lost, pc>>
  BY DEF vars, localVars, busVars
<1>2. pc' \in {"ready", "returned"} => Unreported \subseteq lost'
  BY <1>1 DEF AccountInv, IdleForgets
<1> QED BY <1>1, <1>2, SameQueue, AccountKept

(* When the call returns, and ever after, what is mounted is recorded,     *)
(* except what the call gave up on (systemd.c:449-485).                    *)
THEOREM NothingForgotten == Spec => []MountedIsRecorded
<1>1. Init => AccountInv
  BY InitAccount
<1>2. IInv /\ JobsInv /\ AccountInv /\ [Next]_vars => AccountInv'
  BY CallAccounted, CallStepAccounted, ManagerAccounted, StutterAccounted DEF Next, Begin
<1>3. AccountInv => MountedIsRecorded
  BY AwaitedUnreported
     DEF AccountInv, MountedAccounted, IdleForgets, MountedIsRecorded
<1> QED BY <1>1, <1>2, <1>3, JobsInvariant, PTL DEF Spec

-----------------------------------------------------------------------------
(* MountSystems *)

MSInv == IInv /\ MSTypeOK

-----------------------------------------------------------------------------
(* The invariant *)

LEMMA MSInitInv == MSInit => MSInv
<1> SUFFICES ASSUME MSInit PROVE MSInv
  OBVIOUS
<1>1. IInv
  BY InitIInv DEF MSInit
<1> QED BY <1>1 DEF MSInit, MSInv, MSTypeOK, IInv

(* The system the binding loop considers is one. *)
LEMMA ConsideredType == MSInv /\ AtSystem => Considered \in System
<1> SUFFICES ASSUME MSInv, AtSystem PROVE Considered \in System
  OBVIOUS
<1>1. dhelper \in Seq(Seq(System)) /\ d \in Nat \ {0} /\ n \in Nat \ {0}
  BY DriveHelpersAssumption DEF MSInv, MSTypeOK
<1>2. d \in 1..Len(dhelper)
  BY <1>1, LenProperties DEF AtSystem
<1>3. dhelper[d] \in Seq(System)
  BY <1>1, <1>2, ElementOfSeq
<1>4. n \in 1..Len(dhelper[d])
  BY <1>1, <1>3, LenProperties DEF AtSystem
<1> QED BY <1>3, <1>4, ElementOfSeq DEF Considered

(* Binding a drive: what was mounted stays so, the bound system joins.     *)
LEMMA BindMounts ==
  ASSUME MSInv, AtSystem, PutMount(Considered, "drive")
  PROVE  /\ mtab' \in Seq(Mount)
         /\ \A s : IsMounted(s) => IsMounted(s)'
         /\ \E p \in 1..Len(mtab') : mtab'[p].at = Considered
<1> DEFINE m == [at |-> Considered, by |-> "drive"]
<1>1. m \in Mount /\ m.at = Considered /\ mtab' = Append(mtab, m)
  BY ConsideredType DEF Mount, Provider, PutMount
<1>2. mtab \in Seq(Mount)
  BY DEF MSInv, IInv, TypeOK, BusTypeOK
<1> HIDE DEF m
<1>3. /\ mtab' \in Seq(Mount)
      /\ Len(mtab) \in Nat /\ Len(mtab') = Len(mtab) + 1
      /\ mtab'[Len(mtab) + 1] = m
  BY <1>1, <1>2, AppendProperties, LenProperties
<1>4. \A s : IsMounted(s) => IsMounted(s)'
  BY <1>1, <1>2, MountStays
<1> QED BY <1>1, <1>3, <1>4

(* More mounts, and nothing else the unit calls look at. *)
LEMMA MoreMountsKeep ==
  ASSUME IInv, \A s : IsMounted(s) => IsMounted(s)',
         UNCHANGED <<rqueue, running, nextJob, jobs>>
  PROVE  FreshIds' /\ SameJob' /\ DoneIsMounted'
<1>1. FreshIds' /\ SameJob'
  BY DEF IInv, FreshIds, SameJob
<1>2. DoneIsMounted'
  BY DEF IInv, DoneIsMounted, IsMounted
<1> QED BY <1>1, <1>2

LEMMA BindKeeps == MSInv /\ Bind => MSInv'
<1> SUFFICES ASSUME MSInv, Bind PROVE MSInv'
  OBVIOUS
<1> USE DEF Bind, UnitsIdle, NextSystem, localVars
<1>1. Considered \in System
  BY ConsideredType
<1>2. /\ mtab' \in Seq(Mount)
      /\ \A s : IsMounted(s) => IsMounted(s)'
      /\ \E p \in 1..Len(mtab') : mtab'[p].at = Considered
  BY BindMounts
<1>3. mhelper \in Record /\ RecordedIsMounted /\ Allocated /\ RecordFits
  BY DEF MSInv, IInv, TypeOK
<1>4. /\ mhelper' \in Record /\ mhelper'.alloc >= AllocBase
      /\ Len(mhelper'.systems) <= mhelper'.alloc
  BY <1>1, <1>3, ExtendFits DEF Allocated, RecordFits
<1>5. Recorded' = Recorded \cup {Considered}
  BY <1>1, <1>3, ExtendRecorded
<1>6. RecordedIsMounted' /\ Allocated' /\ RecordFits'
  <2>1. RecordedIsMounted'
    BY <1>2, <1>3, <1>5 DEF RecordedIsMounted, IsMounted
  <2> QED BY <1>4, <2>1 DEF Allocated, RecordFits
<1>7. FreshIds' /\ SameJob' /\ DoneIsMounted'
  BY <1>2, MoreMountsKeep DEF MSInv
<1>8. TypeOK' /\ Counting'
  BY <1>2, <1>4 DEF MSInv, IInv, TypeOK, BusTypeOK, Counting
<1>9. n' \in Nat \ {0}
  BY DEF MSInv, MSTypeOK
<1> QED BY <1>6, <1>7, <1>8, <1>9 DEF MSInv, MSTypeOK, IInv

LEMMA BindOutOfMemoryKeeps == MSInv /\ BindOutOfMemory => MSInv'
<1> SUFFICES ASSUME MSInv, BindOutOfMemory PROVE MSInv'
  OBVIOUS
<1> USE DEF BindOutOfMemory, UnitsIdle, LeaveDrives, localVars, driveVars
<1>1. Considered \in System
  BY ConsideredType
<1>2. mtab' \in Seq(Mount) /\ \A s : IsMounted(s) => IsMounted(s)'
  BY BindMounts
<1>3. /\ mhelper' \in Record
      /\ RecordedIsMounted' /\ Allocated' /\ RecordFits'
  BY NullRecord
<1>4. FreshIds' /\ SameJob' /\ DoneIsMounted'
  BY <1>2, MoreMountsKeep DEF MSInv
<1>5. TypeOK' /\ Counting'
  BY <1>1, <1>2, <1>3, RecordedType DEF MSInv, IInv, TypeOK, BusTypeOK, Counting
<1> QED BY <1>3, <1>4, <1>5 DEF MSInv, MSTypeOK, IInv

(* Steps of the routine between calls and binds. *)
LEMMA PassingOnKeeps ==
  ASSUME MSInv,
         NoFirstCall \/ FirstCallReturned \/ Omit \/ BindFails \/ NextDrive
           \/ DrivesDone \/ LaterCallReturned \/ UNCHANGED allVars
  PROVE  MSInv' /\ UNCHANGED <<mtab, mhelper>>
<1> USE DEF NoFirstCall, FirstCallReturned, Omit, BindFails, NextDrive, DrivesDone,
            LaterCallReturned, EnterDrives, LeaveDrives, NextSystem, allVars, vars,
            driveVars, busVars, localVars
<1>1. /\ UNCHANGED <<busVars, localVars, shelper, layer, mhelper, lost, dhelper>>
      /\ pc' \in {pc, "ready"}
  OBVIOUS
<1>2. TypeOK' /\ Counting'
  BY <1>1 DEF MSInv, IInv, TypeOK, BusTypeOK, Counting
<1>3. IInv'
  BY <1>1, <1>2, QuietStep DEF MSInv
<1>4. failures' \subseteq (Nat \X System)
  <2>1. CASE BindFails
    <3>1. Considered \in System /\ d \in Nat
      BY <2>1, ConsideredType DEF MSInv, MSTypeOK
    <3> QED BY <2>1, <3>1 DEF MSInv, MSTypeOK
  <2>2. CASE ~BindFails
    BY <2>2 DEF MSInv, MSTypeOK
  <2> QED BY <2>1, <2>2
<1>5. phase' \in {"first", "drives", "later", "finished"}
  BY DEF MSInv, MSTypeOK
<1>6. d' \in Nat \ {0} /\ n' \in Nat \ {0}
  BY DEF MSInv, MSTypeOK
<1> QED BY <1>1, <1>2, <1>3, <1>4, <1>5, <1>6 DEF MSInv, MSTypeOK

LEMMA UnitCallsKeep ==
  ASSUME MSInv, FirstCall \/ LaterCall \/ UnitCall \/ ManagerStep
  PROVE  MSInv'
<1>1. UNCHANGED <<phase, driveVars>>
  BY DEF FirstCall, LaterCall, UnitCall, ManagerStep
<1>2. IInv'
  <2>1. FirstLayer \in Layers /\ "2+" \in Layers
    BY DEF FirstLayer, Layers
  <2>2. CASE FirstCall
    BY <2>1, <2>2, CallKeeps DEF FirstCall, MSInv
  <2>3. CASE LaterCall
    BY <2>1, <2>3, CallKeeps DEF LaterCall, MSInv
  <2>4. CASE UnitCall
    BY <2>4, InCallKeeps DEF UnitCall, MSInv
  <2>5. CASE ManagerStep
    BY <2>5, ManagerKeeps DEF ManagerStep, MSInv
  <2> QED BY <2>2, <2>3, <2>4, <2>5
<1> QED BY <1>1, <1>2 DEF MSInv, MSTypeOK, driveVars, IInv

LEMMA MSNextKeeps == MSInv /\ [MSNext]_allVars => MSInv'
BY BindKeeps, BindOutOfMemoryKeeps, PassingOnKeeps, UnitCallsKeep
   DEF MSNext, Program

(* The invariant of the calls holds throughout the routine: units and      *)
(* drives share the record safely (eemount.c:493-521).                     *)
THEOREM RoutineInvariant == MSSpec => []MSInv
<1> QED BY MSInitInv, MSNextKeeps, PTL DEF MSSpec

(* Every variable of the routine keeps its type (eemount.c:421-521).       *)
THEOREM RoutineTypeCorrect == MSSpec => []MSTypeOK
<1>1. MSInv => MSTypeOK
  BY DEF MSInv
<1> QED BY <1>1, RoutineInvariant, PTL

(* The record names mounted systems only, whoever mounted them, so that a  *)
(* drive is passed over only for a system that is there                    *)
(* (eemount.c:436-445, 464-486; systemd.c:456-481).                        *)
THEOREM RoutineRecordsMounted == MSSpec => []RecordedIsMounted
<1>1. MSInv => RecordedIsMounted
  BY DEF MSInv, IInv
<1> QED BY <1>1, RoutineInvariant, PTL

-----------------------------------------------------------------------------
(* The refinement of Provision *)

LEMMA InitImplements == MSInit => Abstract!Init
<1> SUFFICES ASSUME MSInit PROVE Abstract!Init
  OBVIOUS
<1>1. PICK g \in Given :
        /\ mhelper = IF g = <<>> THEN Null ELSE [systems |-> g, alloc |-> AllocBase]
        /\ mtab = [k \in 1..Len(g) |-> [at |-> g[k], by |-> "drive"]]
  BY DEF MSInit, Init
<1>2. mhelper = Null /\ Null.alloc = 0
  BY DEF MSInit, Null
<1>3. g = <<>>
  BY <1>1, <1>2, AllocAssumption
<1>4. mtab = <<>>
  BY <1>1, <1>3
<1>5. Recorded = {}
  BY <1>2 DEF Recorded, Null
<1> QED BY <1>4, <1>5 DEF Abstract!Init

(* A step of a unit call claims a mounted system, forgets, or stutters.    *)
LEMMA InCallImplements ==
  ASSUME MSInv, InCall
  PROVE  Abstract!Next \/ UNCHANGED <<mtab, Recorded>>
<1>1. mtab' = mtab
  BY DEF InCall, SkipUnit, StartUnit, StartUnitFails, StartedAll, Receive, Wait,
         ReceiveUnreadable, RereadDisconnected, ReceiveOther, ReceiveOurs,
         OutOfMemoryOnOurs, busVars
<1>2. CASE mhelper' = mhelper
  BY <1>1, <1>2 DEF Recorded
<1>3. CASE mhelper' = Null
  BY <1>1, <1>3, NullRecord DEF Abstract!Next, Abstract!Forget
<1>4. CASE \E k \in 1..Len(jobs) : ReceiveOurs(k) /\ IsJobSuccess(Head(rqueue).result)
  <2>1. PICK k \in 1..Len(jobs) : ReceiveOurs(k) /\ IsJobSuccess(Head(rqueue).result)
    BY <1>4
  <2>2. jobs[k].system \in System /\ IsMounted(jobs[k].system)
    BY <2>1, ReportKeeps DEF ReceiveOurs, MSInv
  <2>3. Recorded' = Recorded \cup {jobs[k].system}
    BY <2>1, <2>2, ExtendRecorded DEF ReceiveOurs, MSInv, IInv, TypeOK
  <2>4. CASE jobs[k].system \in Recorded
    BY <1>1, <2>3, <2>4
  <2>5. CASE jobs[k].system \notin Recorded
    BY <1>1, <2>2, <2>3, <2>5
       DEF Abstract!Next, Abstract!ClaimUnit, Abstract!IsProvided, IsMounted
  <2> QED BY <2>4, <2>5
<1>5. \/ mhelper' = mhelper \/ mhelper' = Null
      \/ \E k \in 1..Len(jobs) : ReceiveOurs(k) /\ IsJobSuccess(Head(rqueue).result)
  BY DEF InCall, SkipUnit, StartUnit, StartUnitFails, StartedAll, Receive, Wait,
         ReceiveUnreadable, RereadDisconnected, ReceiveOther, ReceiveOurs,
         OutOfMemoryOnOurs, CountUnreadable, Return
<1> QED BY <1>2, <1>3, <1>4, <1>5

(* The manager mounts a unit, or stutters. *)
LEMMA ManagerImplements ==
  ASSUME MSInv, Manager
  PROVE  Abstract!Next \/ UNCHANGED <<mtab, Recorded>>
<1>1. Recorded' = Recorded
  BY DEF Manager, Recorded
<1>2. CASE mtab' = mtab
  BY <1>1, <1>2
<1>3. CASE \E j \in running : PutMount(j.system, "unit")
  <2>1. PICK j \in running : PutMount(j.system, "unit")
    BY <1>3
  <2>2. j.system \in System
    BY DEF MSInv, IInv, TypeOK, BusTypeOK, Job
  <2> QED BY <1>1, <2>1, <2>2
             DEF PutMount, Abstract!Next, Abstract!UnitMounted, Abstract!Put
<1> QED BY <1>2, <1>3 DEF Manager, Environment, RemoveJob, RemoveJobAs,
                            ForeignJobRemoved, Hangup

(* A drive is bound to an unclaimed system, which it claims unless there   *)
(* is no memory left to say so.                                            *)
LEMMA BindImplements ==
  ASSUME MSInv, Bind \/ BindOutOfMemory
  PROVE  Abstract!Next
<1>1. Considered \in System
  BY ConsideredType DEF Bind, BindOutOfMemory
<1>2. Considered \notin Recorded
  BY DEF Bind, BindOutOfMemory, IsUnique, Recorded
<1>3. Recorded' \in {Recorded \cup {Considered}, {}}
  <2>1. CASE Bind
    BY <1>1, <2>1, ExtendRecorded DEF Bind, MSInv, IInv, TypeOK
  <2>2. CASE BindOutOfMemory
    BY <2>2, NullRecord DEF BindOutOfMemory
  <2> QED BY <2>1, <2>2
<1>4. PutMount(Considered, "drive")
  BY DEF Bind, BindOutOfMemory
<1> QED BY <1>1, <1>2, <1>3, <1>4
           DEF PutMount, Abstract!Next, Abstract!BindDrive, Abstract!Put

LEMMA StepImplements ==
  MSInv /\ [MSNext]_allVars => [Abstract!Next]_<<mtab, Recorded>>
<1> SUFFICES ASSUME MSInv, [MSNext]_allVars
             PROVE  Abstract!Next \/ UNCHANGED <<mtab, Recorded>>
  OBVIOUS
<1>1. CASE Bind \/ BindOutOfMemory
  BY <1>1, BindImplements
<1>2. CASE UnitCall
  BY <1>2, InCallImplements DEF UnitCall
<1>3. CASE ManagerStep
  BY <1>3, ManagerImplements DEF ManagerStep
<1>4. CASE FirstCall \/ LaterCall
  BY <1>4 DEF FirstCall, LaterCall, Call, busVars, Recorded
<1>5. CASE NoFirstCall \/ FirstCallReturned \/ Omit \/ BindFails \/ NextDrive
             \/ DrivesDone \/ LaterCallReturned \/ UNCHANGED allVars
  BY <1>5, PassingOnKeeps DEF Recorded
<1> QED BY <1>1, <1>2, <1>3, <1>4, <1>5 DEF MSNext, Program

(* The routine keeps the promise Provision states: only mounted systems    *)
(* are claimed, and no drive is ever bound over a claimed one              *)
(* (eemount.c:421-521, systemd.c:368-494).                                 *)
THEOREM RoutineImplements == MSSpec => ImplementsProvision
<1> QED BY InitImplements, StepImplements, RoutineInvariant, PTL
           DEF MSSpec, ImplementsProvision, Abstract!Spec
-----------------------------------------------------------------------------
(* Offers are served *)

Served(e, k) == IsMounted(dhelper[e][k]) \/ <<e, dhelper[e][k]>> \in failures

OfferInv ==
  /\ phase = "drives" =>
       \A e \in 1..Len(dhelper) : \A k \in 1..Len(dhelper[e]) :
         e < d \/ (e = d /\ k < n) => Served(e, k)
  /\ OffersServed

(* Steps only add mounts. *)
LEMMA MountsStay ==
  MSInv /\ [MSNext]_allVars => \A s : IsMounted(s) => IsMounted(s)'
<1> SUFFICES ASSUME MSInv, [MSNext]_allVars, NEW s, IsMounted(s)
             PROVE  IsMounted(s)'
  OBVIOUS
<1>1. mtab' = mtab \/ \E x \in System, by \in Provider : PutMount(x, by)
  BY StepImplements
     DEF Abstract!Next, Abstract!UnitMounted, Abstract!ClaimUnit, Abstract!BindDrive,
         Abstract!Forget, Abstract!Put, PutMount, Provider
<1>2. CASE mtab' = mtab
  BY <1>2 DEF IsMounted
<1>3. CASE \E x \in System, by \in Provider : PutMount(x, by)
  <2>1. PICK x \in System, by \in Provider : PutMount(x, by)
    BY <1>3
  <2> DEFINE m == [at |-> x, by |-> by]
  <2>2. m \in Mount /\ mtab' = Append(mtab, m) /\ mtab \in Seq(Mount)
    BY <2>1 DEF Mount, PutMount, MSInv, IInv, TypeOK, BusTypeOK
  <2> HIDE DEF m
  <2> QED BY <2>2, MountStays
<1> QED BY <1>1, <1>2, <1>3

LEMMA ServedStays ==
  ASSUME MSInv, [MSNext]_allVars, dhelper' = dhelper, failures \subseteq failures'
  PROVE  \A e, k : Served(e, k) => Served(e, k)'
BY MountsStay DEF Served

LEMMA FailuresStay ==
  [MSNext]_allVars => dhelper' = dhelper /\ failures \subseteq failures'
BY DEF MSNext, Program, FirstCall, NoFirstCall, FirstCallReturned, Omit, BindFails,
       Bind, BindOutOfMemory, NextDrive, DrivesDone, LaterCall, LaterCallReturned,
       UnitCall, ManagerStep, NextSystem, driveVars, allVars

(* What becomes of the offer the loop considers. *)
LEMMA ConsideredServed ==
  ASSUME MSInv, AtSystem, [MSNext]_allVars, NEW e, NEW k, e = d, k = n,
         Omit \/ BindFails \/ Bind \/ BindOutOfMemory
  PROVE  Served(e, k)'
<1>1. dhelper' = dhelper /\ Considered = dhelper[e][k]
  BY FailuresStay DEF Considered
<1>2. CASE Omit
  <2>1. Considered \in Recorded
    BY <1>2 DEF Omit, IsUnique, Recorded
  <2>2. IsMounted(Considered)
    BY <2>1 DEF MSInv, IInv, RecordedIsMounted
  <2> QED BY <1>1, <2>2, MountsStay DEF Served
<1>3. CASE BindFails
  BY <1>1, <1>3 DEF BindFails, Served
<1>4. CASE Bind \/ BindOutOfMemory
  <2>1. PutMount(Considered, "drive")
    BY <1>4 DEF Bind, BindOutOfMemory
  <2>2. \E p \in 1..Len(mtab') : mtab'[p].at = Considered
    BY <2>1, BindMounts
  <2> QED BY <1>1, <2>2 DEF Served, IsMounted
<1> QED BY <1>2, <1>3, <1>4

(* The loops are over sequences, with counters that are numbers. *)
LEMMA LoopTypes ==
  ASSUME MSInv
  PROVE  /\ d \in Nat \ {0} /\ n \in Nat \ {0} /\ Len(dhelper) \in Nat
         /\ \A e \in 1..Len(dhelper) : Len(dhelper[e]) \in Nat
<1>1. dhelper \in Seq(Seq(System))
  BY DriveHelpersAssumption DEF MSInv, MSTypeOK
<1>2. \A e \in 1..Len(dhelper) : dhelper[e] \in Seq(System)
  BY <1>1, ElementOfSeq
<1> QED BY <1>1, <1>2, LenProperties DEF MSInv, MSTypeOK

LEMMA OffersKeep == MSInv /\ OfferInv /\ [MSNext]_allVars => OfferInv'
<1> SUFFICES ASSUME MSInv, OfferInv, [MSNext]_allVars PROVE OfferInv'
  OBVIOUS
<1> USE DEF OfferInv
<1>1. dhelper' = dhelper /\ \A e, k : Served(e, k) => Served(e, k)'
  BY FailuresStay, ServedStays
<1>2. /\ d \in Nat \ {0} /\ n \in Nat \ {0} /\ Len(dhelper) \in Nat
      /\ \A e \in 1..Len(dhelper) : Len(dhelper[e]) \in Nat
  BY LoopTypes
<1>3. ASSUME UNCHANGED <<phase, d, n>>, lost \subseteq lost'
      PROVE  OfferInv'
  BY <1>1, <1>3 DEF OffersServed, Served
<1>4. CASE Omit \/ BindFails \/ Bind
  <2>1. phase = "drives" /\ phase' = "drives" /\ d' = d /\ n' = n + 1 /\ AtSystem
    BY <1>4 DEF Omit, BindFails, Bind, AtSystem, NextSystem
  <2>2. \A e, k : e = d /\ k = n => Served(e, k)'
    BY <1>4, <2>1, ConsideredServed
  <2>3. ASSUME NEW e \in 1..Len(dhelper), NEW k \in 1..Len(dhelper[e]),
               e < d \/ (e = d /\ k < n + 1)
        PROVE  Served(e, k)'
    <3>1. e < d \/ (e = d /\ k < n) \/ (e = d /\ k = n)
      BY <1>2, <2>3
    <3> QED BY <1>1, <2>1, <2>2, <3>1
  <2> QED BY <1>1, <2>1, <2>3 DEF OffersServed
<1>5. CASE BindOutOfMemory
  <2>1. /\ phase = "drives" /\ UNCHANGED <<d, n>> /\ AtSystem /\ Considered \in lost'
    BY <1>5 DEF BindOutOfMemory, AtSystem, driveVars
  <2>2. \A e, k : e = d /\ k = n => Served(e, k)'
    BY <1>5, <2>1, ConsideredServed
  <2>3. \A e \in 1..Len(dhelper) : \A k \in 1..Len(dhelper[e]) :
          e < d \/ (e = d /\ k <= n) => Served(e, k)'
    BY <1>1, <1>2, <2>1, <2>2
  <2>4. phase' # "drives"
    BY <1>5 DEF BindOutOfMemory, LeaveDrives
  <2> QED BY <1>1, <2>1, <2>3, <2>4 DEF OffersServed, Considered, Served
<1>6. CASE NextDrive
  <2>1. /\ phase = "drives" /\ phase' = "drives" /\ d' = d + 1 /\ n' = 1
        /\ d \in 1..Len(dhelper) /\ n > Len(dhelper[d])
    BY <1>2, <1>6 DEF NextDrive
  <2>2. ASSUME NEW e \in 1..Len(dhelper), NEW k \in 1..Len(dhelper[e]),
               e < d + 1 \/ (e = d + 1 /\ k < 1)
        PROVE  Served(e, k)'
    <3>1. e < d \/ (e = d /\ k < n)
      BY <1>2, <2>1, <2>2
    <3> QED BY <1>1, <2>1, <3>1
  <2> QED BY <1>1, <2>1, <2>2 DEF OffersServed
<1>7. CASE DrivesDone
  <2>1. /\ phase = "drives" /\ phase' # "drives" /\ UNCHANGED <<d, n>>
        /\ d > Len(dhelper)
    BY <1>7 DEF DrivesDone, LeaveDrives, driveVars
  <2>2. ASSUME NEW e \in 1..Len(dhelper), NEW k \in 1..Len(dhelper[e])
        PROVE  Served(e, k)'
    BY <1>1, <1>2, <2>1
  <2>3. ~(d <= Len(dhelper))
    BY <1>2, <2>1
  <2> QED BY <1>1, <2>1, <2>2, <2>3 DEF OffersServed, Served
<1>8. CASE NoFirstCall \/ FirstCallReturned
  <2>1. /\ d' = 1 /\ n' = 1
        /\ phase' = IF dhelper = NoDrives THEN "finished" ELSE "drives"
    BY <1>8 DEF NoFirstCall, FirstCallReturned, EnterDrives
  <2>2. CASE dhelper = NoDrives
    <3>1. Len(dhelper) = 0
      BY <2>2 DEF NoDrives
    <3> QED BY <1>1, <2>1, <2>2, <3>1 DEF OffersServed
  <2>3. CASE dhelper # NoDrives
    <3>1. ~\E e \in 1..Len(dhelper) : \E k \in 1..Len(dhelper[e]) :
             e < 1 \/ (e = 1 /\ k < 1)
      BY <1>2
    <3> QED BY <1>1, <2>1, <2>3, <3>1 DEF OffersServed
  <2> QED BY <2>2, <2>3
<1>9. CASE LaterCallReturned
  <2>1. phase = "later" /\ phase' = "finished" /\ UNCHANGED <<d, n, lost>>
    BY <1>9 DEF LaterCallReturned, driveVars, vars
  <2> QED BY <1>1, <2>1 DEF OffersServed, Served
<1>10. CASE FirstCall \/ LaterCall \/ UnitCall \/ ManagerStep \/ UNCHANGED allVars
  <2>1. UNCHANGED <<phase, d, n>>
    BY <1>10 DEF FirstCall, LaterCall, UnitCall, ManagerStep, driveVars, allVars
  <2>2. lost \subseteq lost'
    BY <1>10 DEF FirstCall, LaterCall, UnitCall, ManagerStep, Call, Manager, allVars,
       vars, InCall, SkipUnit, StartUnit, StartUnitFails, StartedAll, Receive,
       ReceiveUnreadable, RereadDisconnected, ReceiveOther, ReceiveOurs,
       OutOfMemoryOnOurs, CountUnreadable, Wait
  <2> QED BY <1>3, <2>1, <2>2
<1> QED BY <1>4, <1>5, <1>6, <1>7, <1>8, <1>9, <1>10 DEF MSNext, Program

(* Whatever the units and drives are, no offer of a drive is passed over   *)
(* for nothing: its system is mounted, or its own bind failed              *)
(* (eemount.c:430-486).                                                    *)
THEOREM EveryOfferServed == MSSpec => []OffersServed
<1>1. MSInit => OfferInv
  BY DEF MSInit, OfferInv, OffersServed
<1>2. OfferInv => OffersServed
  BY DEF OfferInv
<1> QED BY <1>1, <1>2, OffersKeep, RoutineInvariant, PTL DEF MSSpec

-----------------------------------------------------------------------------
(* The jobs, the mounts and the record of both calls, and the drives       *)

InUnitCall == pc \in {"starting", "waiting"}

(* Where the routine is, what was asked of the manager before, and of      *)
(* which layer the units of the call are.                                  *)
CallPhases ==
  /\ InUnitCall => phase \in {"first", "later"}
  /\ phase \in {"drives", "later"} => dhelper # NoDrives
  /\ InUnitCall \/ phase = "later" => shelper # NoUnits
  /\ phase = "first" /\ pc # "ready" => layer = FirstLayer

StartsClean ==
  phase = "first" /\ pc = "ready" => Len(mtab) = 0 /\ running = {} /\ Recorded = {}

Phases == CallPhases /\ StartsClean

(* The systems of the first layer, from units and drives. *)
Early ==
  Offered(dhelper)
    \cup {shelper.mounts[k].system :
            k \in {u \in 1..Len(shelper.mounts) : shelper.mounts[u].layer = 1}}

Touched(s) ==
  s \in Recorded \/ IsMounted(s) \/ \E j \in running : j.system = s

(* With drives, nothing of a higher layer is touched before the last call. *)
EarlyFirst ==
  dhelper # NoDrives /\ (phase \in {"first", "drives"} \/ (phase = "later" /\ pc = "ready"))
    => \A s : Touched(s) => s \in Early

(* The units the starting loop has not come to: neither they nor anything  *)
(* inside of them was touched.                                             *)
Ahead ==
  pc = "starting" =>
    \A u \in 1..Len(shelper.mounts) : u >= i /\ Selected(u) =>
      \A s : Touched(s) =>
        /\ s # shelper.mounts[u].system
        /\ <<s, shelper.mounts[u].system>> \notin Inside

(* The jobs of a call are of units it has passed, each of another system;  *)
(* what is unfinished is not recorded.                                     *)
JobsApart ==
  InUnitCall =>
    /\ \A k \in 1..Len(jobs) : \E u \in 1..Len(shelper.mounts) :
         u < i /\ Selected(u) /\ jobs[k].system = shelper.mounts[u].system
    /\ \A k, m \in 1..Len(jobs) : jobs[k].system = jobs[m].system => k = m
    /\ \A k \in 1..Len(jobs) : jobs[k].system \in Recorded => jobs[k].finished

(* What the manager still works on is mounted already, or worked on twice, *)
(* only if the program has given it up; nothing inside of it is mounted.   *)
JobsMountNew ==
  \A j \in running :
    /\ IsMounted(j.system) => j.system \in lost
    /\ \A b \in running : b.system = j.system /\ b # j => j.system \in lost
    /\ \A s : IsMounted(s) => <<s, j.system>> \notin Inside

OrderInv ==
  /\ Phases /\ EarlyFirst /\ Ahead /\ JobsApart /\ JobsMountNew
  /\ RecordedOnce /\ DoubleMountOnlyIfLost /\ NeverCovered

LEMMA InitOrder == MSInit => JobsInv /\ AccountInv /\ OrderInv
<1> SUFFICES ASSUME MSInit PROVE JobsInv /\ AccountInv /\ OrderInv
  OBVIOUS
<1>1. JobsInv /\ AccountInv
  BY InitJobs, InitAccount DEF MSInit
<1>2. /\ pc = "ready" /\ phase = "first" /\ running = {}
      /\ mhelper.systems = <<>>
  BY DEF MSInit, Init, BusInit, Null
<1>3. Len(mhelper.systems) = 0 /\ Recorded = {}
  BY <1>2 DEF Recorded
<1>4. mtab = <<>> /\ Recorded = {}
  BY InitImplements DEF MSInit, Abstract!Init
<1>5. Len(mtab) = 0 /\ \A s : ~IsMounted(s)
  BY <1>4 DEF IsMounted
<1>6. Phases
  BY <1>2, <1>3, <1>5 DEF Phases, CallPhases, StartsClean, InUnitCall
<1>7. EarlyFirst /\ Ahead /\ JobsApart /\ JobsMountNew
  BY <1>2, <1>3, <1>5 DEF EarlyFirst, Touched, Ahead, JobsApart, InUnitCall, JobsMountNew
<1>8. RecordedOnce /\ DoubleMountOnlyIfLost /\ NeverCovered
  BY <1>3, <1>5 DEF RecordedOnce, DoubleMountOnlyIfLost, NeverCovered
<1> QED BY <1>1, <1>6, <1>7, <1>8 DEF OrderInv

(* A step of a unit call leaves the mounts and the units alone. *)
LEMMA InCallQuiet ==
  ASSUME InCall
  PROVE  /\ InUnitCall /\ pc' \in {"starting", "waiting", "returned"}
         /\ UNCHANGED <<shelper, layer, mtab>>
         /\ lost \subseteq lost'
BY DEF InCall, SkipUnit, StartUnit, StartUnitFails, StartedAll, Receive, Wait,
       ReceiveUnreadable, RereadDisconnected, ReceiveOther, ReceiveOurs, Return,
       OutOfMemoryOnOurs, CountUnreadable, busVars, InUnitCall

LEMMA CallPhasesKeep == MSInv /\ CallPhases /\ [MSNext]_allVars => CallPhases'
<1> SUFFICES ASSUME MSInv, CallPhases, [MSNext]_allVars PROVE CallPhases'
  OBVIOUS
<1> USE DEF CallPhases, FirstLayer
<1>1. CASE FirstCall \/ LaterCall
  BY <1>1 DEF FirstCall, LaterCall, Call, driveVars, InUnitCall
<1>2. CASE UnitCall
  BY <1>2, InCallQuiet DEF UnitCall, driveVars, InUnitCall
<1>3. CASE ManagerStep
  BY <1>3 DEF ManagerStep, Manager, driveVars, InUnitCall
<1>4. CASE Bind \/ BindOutOfMemory
  BY <1>4 DEF Bind, BindOutOfMemory, LeaveDrives, AtSystem, NextSystem, UnitsIdle,
              driveVars, InUnitCall
<1>5. CASE NoFirstCall \/ FirstCallReturned \/ Omit \/ BindFails \/ NextDrive
             \/ DrivesDone \/ LaterCallReturned \/ UNCHANGED allVars
  BY <1>5 DEF NoFirstCall, FirstCallReturned, Omit, BindFails, NextDrive, DrivesDone,
              LaterCallReturned, EnterDrives, LeaveDrives, AtSystem, NextSystem,
              allVars, vars, driveVars, InUnitCall
<1> QED BY <1>1, <1>2, <1>3, <1>4, <1>5 DEF MSNext, Program

LEMMA PhasesKeep == MSInv /\ Phases /\ [MSNext]_allVars => Phases'
<1> SUFFICES ASSUME MSInv, Phases, [MSNext]_allVars,
                    phase' = "first", pc' = "ready"
             PROVE  Len(mtab') = 0 /\ running' = {} /\ Recorded' = {}
  BY CallPhasesKeep DEF Phases, StartsClean
<1> USE DEF Phases, StartsClean
<1>1. CASE FirstCall \/ LaterCall
  BY <1>1 DEF FirstCall, LaterCall, Call, driveVars, busVars, Recorded
<1>2. CASE UnitCall
  BY <1>2, InCallQuiet DEF UnitCall
<1>3. CASE ManagerStep
  <2>1. UNCHANGED <<phase, pc, mhelper>>
    BY <1>3 DEF ManagerStep, Manager
  <2>2. running = {} => UNCHANGED <<running, mtab>>
    BY <1>3 DEF ManagerStep, Manager, Environment, RemoveJob, RemoveJobAs,
            ForeignJobRemoved, Hangup
  <2> QED BY <2>1, <2>2 DEF Recorded
<1>4. CASE Bind \/ BindOutOfMemory
  BY <1>4 DEF Bind, BindOutOfMemory, LeaveDrives, AtSystem
<1>5. CASE NoFirstCall \/ FirstCallReturned \/ Omit \/ BindFails \/ NextDrive
             \/ DrivesDone \/ LaterCallReturned \/ UNCHANGED allVars
  BY <1>5 DEF NoFirstCall, FirstCallReturned, Omit, BindFails, NextDrive, DrivesDone,
              LaterCallReturned, EnterDrives, LeaveDrives, AtSystem, NextSystem,
              allVars, vars, busVars, Recorded
<1> QED BY <1>1, <1>2, <1>3, <1>4, <1>5 DEF MSNext, Program

(* Outside of the calls what the manager works on, and what is mounted and *)
(* not recorded, was given up.                                             *)
LEMMA IdleLost ==
  ASSUME MSInv, AccountInv, ~InUnitCall
  PROVE  /\ \A j \in running : j.system \in lost
         /\ \A s : IsMounted(s) => s \in Recorded \cup lost
<1>1. pc \in {"ready", "returned"}
  BY DEF MSInv, IInv, TypeOK, InUnitCall
<1>2. Unreported \subseteq lost
  BY <1>1 DEF AccountInv, IdleForgets
<1>3. \A j \in running : j.system \in lost
  BY <1>2, AwaitedUnreported DEF AccountInv, RunningAwaited
<1>4. \A s : IsMounted(s) => s \in System
  <2> SUFFICES ASSUME NEW p \in 1..Len(mtab) PROVE mtab[p].at \in System
    BY DEF IsMounted
  <2>1. mtab \in Seq(Mount)
    BY DEF MSInv, IInv, TypeOK, BusTypeOK
  <2>2. mtab[p] \in Mount
    BY <2>1, ElementOfSeq
  <2> QED BY <2>2 DEF Mount
<1>5. \A s : IsMounted(s) => s \in Recorded \cup lost
  BY <1>2, <1>4, AwaitedUnreported DEF AccountInv, MountedAccounted
<1> QED BY <1>3, <1>5

(* What a bind changes of the mounts, the record and what was given up.    *)
LEMMA BindEffect ==
  ASSUME MSInv, CallPhases, Bind \/ BindOutOfMemory
  PROVE  /\ Considered \in System /\ Considered \notin Recorded
         /\ PutMount(Considered, "drive")
         /\ \A s : IsMounted(s)' => IsMounted(s) \/ s = Considered
         /\ \/ Recorded' = Recorded \cup {Considered} /\ lost' = lost
            \/ Recorded' = {} /\ lost' = lost \cup Recorded \cup {Considered}
         /\ UNCHANGED <<rqueue, running, nextJob, jobs, finished, shelper, layer, i, dhelper>>
         /\ phase = "drives" /\ AtSystem /\ ~InUnitCall /\ ~InUnitCall'
<1>1. Considered \in System /\ AtSystem /\ PutMount(Considered, "drive")
  BY ConsideredType DEF Bind, BindOutOfMemory
<1>2. Considered \notin Recorded
  BY DEF Bind, BindOutOfMemory, IsUnique, Recorded
<1>3. \A s : IsMounted(s)' => IsMounted(s) \/ s = Considered
  <2> DEFINE m == [at |-> Considered, by |-> "drive"]
  <2>1. m \in Mount /\ m.at = Considered /\ mtab' = Append(mtab, m) /\ mtab \in Seq(Mount)
    BY <1>1 DEF Mount, Provider, PutMount, MSInv, IInv, TypeOK, BusTypeOK
  <2> HIDE DEF m
  <2> QED BY <2>1, MountStays
<1>4. \/ Recorded' = Recorded \cup {Considered} /\ lost' = lost
      \/ Recorded' = {} /\ lost' = lost \cup Recorded \cup {Considered}
  <2>1. CASE Bind
    BY <1>1, <2>1, ExtendRecorded DEF Bind, MSInv, IInv, TypeOK
  <2>2. CASE BindOutOfMemory
    BY <2>2, NullRecord DEF BindOutOfMemory
  <2> QED BY <2>1, <2>2
<1>5. /\ UNCHANGED <<rqueue, running, nextJob, jobs, finished, shelper, layer, i, dhelper>>
      /\ pc' \in {pc, "ready"}
  BY DEF Bind, BindOutOfMemory, UnitsIdle, LeaveDrives, localVars, NextSystem, driveVars
<1>6. phase = "drives" /\ ~InUnitCall
  BY <1>1 DEF AtSystem, CallPhases
<1> QED BY <1>1, <1>2, <1>3, <1>4, <1>5, <1>6 DEF InUnitCall

LEMMA BindAccounted ==
  ASSUME MSInv, CallPhases, AccountInv, Bind \/ BindOutOfMemory
  PROVE  AccountInv'
<1> USE DEF AccountInv
<1>1. OneJobPerId'
  BY BindEffect DEF OneJobPerId
<1>2. lost \subseteq lost'
  BY BindEffect
<1>3. \A j, id : HasReport(id)' = HasReport(id) /\ IsAwaited(j)' = IsAwaited(j)
  BY BindEffect DEF HasReport, IsReport, IsAwaited
<1>4. RunningAwaited'
  BY <1>2, <1>3, BindEffect DEF RunningAwaited
<1>5. MountedAccounted'
  <2> SUFFICES ASSUME NEW s \in System, IsMounted(s)'
               PROVE  s \in Recorded' \/ s \in lost'
    BY DEF MountedAccounted
  <2>1. s \in Recorded \cup lost \/ s = Considered
    BY BindEffect, IdleLost
  <2> QED BY <2>1, BindEffect
<1>6. FinishedCounted' /\ IdleForgets'
  <2>1. Unreported \subseteq lost /\ Unreported' = Unreported
    BY BindEffect DEF IdleForgets, InUnitCall, MSInv, IInv, TypeOK, Unreported
  <2> QED BY <1>2, <2>1, BindEffect DEF FinishedCounted, IdleForgets, InUnitCall
<1> QED BY <1>1, <1>4, <1>5, <1>6

LEMMA JobsAndAccountKeep ==
  ASSUME MSInv, CallPhases, JobsInv, AccountInv, [MSNext]_allVars
  PROVE  JobsInv' /\ AccountInv'
<1>1. CASE FirstCall \/ LaterCall
  <2>1. FirstLayer \in Layers /\ "2+" \in Layers
    BY DEF FirstLayer, Layers
  <2>2. CASE FirstCall
    BY <2>1, <2>2, CallJobs, CallAccounted DEF FirstCall, MSInv
  <2>3. CASE LaterCall
    BY <2>1, <2>3, CallJobs, CallAccounted DEF LaterCall, MSInv
  <2> QED BY <1>1, <2>2, <2>3
<1>2. CASE UnitCall
  BY <1>2, CallStepJobs, CallStepAccounted DEF UnitCall, MSInv
<1>3. CASE ManagerStep
  BY <1>3, ManagerJobs, ManagerAccounted DEF ManagerStep, MSInv
<1>4. CASE Bind \/ BindOutOfMemory
  BY <1>4, BindAccounted, BindEffect DEF JobsInv, InUnitCall
<1>5. CASE NoFirstCall \/ FirstCallReturned \/ Omit \/ BindFails \/ NextDrive
             \/ DrivesDone \/ LaterCallReturned \/ UNCHANGED allVars
  <2>1. /\ UNCHANGED <<busVars, localVars, shelper, layer, mhelper, lost>>
        /\ pc' = pc \/ (phase = "drives" /\ pc' = "ready")
    BY <1>5 DEF NoFirstCall, FirstCallReturned, Omit, BindFails, NextDrive, DrivesDone,
                LaterCallReturned, EnterDrives, LeaveDrives, NextSystem, allVars, vars
  <2>2. UNCHANGED <<running, mtab, jobs, finished, rqueue, i>> /\ lost' = lost
    BY <2>1 DEF busVars, localVars
  <2>3. pc' = pc \/ (pc \in {"ready", "returned"} /\ pc' = "ready")
    BY <2>1 DEF CallPhases, InUnitCall, MSInv, IInv, TypeOK
  <2>4. JobsInv'
    BY <2>1, <2>2, <2>3, JobsKept
  <2>5. pc' \in {"ready", "returned"} => Unreported \subseteq lost'
    BY <2>2, <2>3 DEF AccountInv, IdleForgets
  <2>6. AccountInv'
    BY <2>1, <2>2, <2>3, <2>5, AccountKept, SameQueue DEF MSInv
  <2> QED BY <2>4, <2>6
<1> QED BY <1>1, <1>2, <1>3, <1>4, <1>5 DEF MSNext, Program


LEMMA UnitOrder ==
  ASSUME MSInv
  PROVE  /\ InOrder(shelper)
         /\ \A s \in Offered(dhelper) :
              /\ \A t \in Offered(dhelper) : <<s, t>> \notin Inside
              /\ OfFirstLayer(s, shelper)
BY OrderAssumption, OffersAssumption DEF MSInv, MSTypeOK, IInv, TypeOK

(* No early system lies inside another one; a unit inside one is later.    *)
LEMMA EarlyOrder ==
  ASSUME MSInv
  PROVE  /\ \A x \in Early : OfFirstLayer(x, shelper)
         /\ \A x, y \in Early : <<x, y>> \notin Inside
<1> DEFINE FirstUnits == {u \in 1..Len(shelper.mounts) : shelper.mounts[u].layer = 1}
<1>1. ASSUME NEW k \in FirstUnits
      PROVE  OfFirstLayer(shelper.mounts[k].system, shelper)
  <2> SUFFICES ASSUME NEW j \in 1..Len(shelper.mounts)
      PROVE /\ shelper.mounts[j].system = shelper.mounts[k].system
                 => shelper.mounts[j].layer = 1
            /\ <<shelper.mounts[j].system, shelper.mounts[k].system>> \in Inside
                 => shelper.mounts[j].layer > 1
            /\ <<shelper.mounts[k].system, shelper.mounts[j].system>> \in Inside
                 => shelper.mounts[j].layer = 0
    BY DEF OfFirstLayer
  <2>1. shelper.mounts[k].layer = 1 /\ k \in 1..Len(shelper.mounts)
    BY <1>1
  <2>2. shelper.mounts[j].layer \in Nat
    BY HelperType DEF MSInv
  <2> QED BY <2>1, <2>2, UnitOrder DEF InOrder
<1>2. \A x \in Early : OfFirstLayer(x, shelper)
  BY <1>1, UnitOrder DEF Early
<1>3. ASSUME NEW x \in Early, NEW y \in Early, <<x, y>> \in Inside
      PROVE  FALSE
  <2>1. CASE x \in Offered(dhelper) /\ y \in Offered(dhelper)
    BY <1>3, <2>1, UnitOrder
  <2>2. CASE \E k \in FirstUnits : y = shelper.mounts[k].system
    <3>1. PICK k \in FirstUnits : y = shelper.mounts[k].system
      BY <2>2
    <3>2. k \in 1..Len(shelper.mounts) /\ shelper.mounts[k].layer = 1
      BY <3>1
    <3>3. OfFirstLayer(x, shelper)
      BY <1>2
    <3>4. <<x, shelper.mounts[k].system>> \in Inside
      BY <1>3, <3>1
    <3>5. shelper.mounts[k].layer = 0
      BY <3>2, <3>3, <3>4 DEF OfFirstLayer
    <3> QED BY <3>2, <3>5
  <2>3. CASE \E k \in FirstUnits : x = shelper.mounts[k].system
    <3>1. PICK k \in FirstUnits : x = shelper.mounts[k].system
      BY <2>3
    <3>2. k \in 1..Len(shelper.mounts) /\ shelper.mounts[k].layer = 1
      BY <3>1
    <3>3. OfFirstLayer(y, shelper)
      BY <1>2
    <3>4. <<shelper.mounts[k].system, y>> \in Inside
      BY <1>3, <3>1
    <3>5. shelper.mounts[k].layer > 1
      BY <3>2, <3>3, <3>4 DEF OfFirstLayer
    <3> QED BY <3>2, <3>5
  <2> QED BY <2>1, <2>2, <2>3 DEF Early
<1> QED BY <1>2, <1>3

(* A mount that is new, or of a system that was given up, and that no      *)
(* mount lies inside of.                                                   *)
LEMMA OneMoreMount ==
  ASSUME MSInv, DoubleMountOnlyIfLost, NeverCovered,
         NEW t \in System, NEW by \in Provider, PutMount(t, by),
         lost \subseteq lost', IsMounted(t) => t \in lost',
         \A s : IsMounted(s) => <<s, t>> \notin Inside, <<t, t>> \notin Inside
  PROVE  DoubleMountOnlyIfLost' /\ NeverCovered'
<1> DEFINE m == [at |-> t, by |-> by]
<1>1. m \in Mount /\ m.at = t /\ mtab' = Append(mtab, m) /\ mtab \in Seq(Mount)
  BY DEF Mount, PutMount, MSInv, IInv, TypeOK, BusTypeOK
<1> HIDE DEF m
<1>2. /\ Len(mtab) \in Nat /\ Len(mtab') = Len(mtab) + 1
      /\ mtab'[Len(mtab) + 1].at = t
      /\ \A p \in 1..Len(mtab) : mtab'[p] = mtab[p]
  BY <1>1, AppendProperties, LenProperties
<1>3. \A p \in 1..Len(mtab) : IsMounted(mtab[p].at)
  BY DEF IsMounted
<1>4. \A p \in 1..Len(mtab') : p \in 1..Len(mtab) \/ p = Len(mtab) + 1
  BY <1>2
<1>5. DoubleMountOnlyIfLost'
  <2> SUFFICES ASSUME NEW p \in 1..Len(mtab'), NEW q \in 1..Len(mtab'),
                      p # q, mtab'[p].at = mtab'[q].at
               PROVE  mtab'[p].at \in lost'
    BY DEF DoubleMountOnlyIfLost
  <2>1. CASE p \in 1..Len(mtab) /\ q \in 1..Len(mtab)
    BY <1>2, <2>1 DEF DoubleMountOnlyIfLost
  <2>2. CASE p = Len(mtab) + 1 /\ q \in 1..Len(mtab)
    BY <1>2, <1>3, <2>2
  <2>3. CASE q = Len(mtab) + 1 /\ p \in 1..Len(mtab)
    BY <1>2, <1>3, <2>3
  <2> QED BY <1>4, <2>1, <2>2, <2>3
<1>6. NeverCovered'
  <2> SUFFICES ASSUME NEW p \in 1..Len(mtab'), NEW q \in 1..Len(mtab'),
                      <<mtab'[p].at, mtab'[q].at>> \in Inside
               PROVE  q < p
    BY DEF NeverCovered
  <2>1. CASE p \in 1..Len(mtab) /\ q \in 1..Len(mtab)
    BY <1>2, <2>1 DEF NeverCovered
  <2>2. CASE p = Len(mtab) + 1 /\ q \in 1..Len(mtab)
    BY <1>2, <2>2
  <2>3. CASE q = Len(mtab) + 1
    BY <1>2, <1>3, <1>4, <2>3
  <2> QED BY <1>4, <2>1, <2>2, <2>3
<1> QED BY <1>5, <1>6

(* A system that was not recorded is recorded once. *)
LEMMA ExtendOnce ==
  ASSUME MSInv, RecordedOnce, NEW s \in System, s \notin Recorded,
         mhelper' = Extend(mhelper, s)
  PROVE  RecordedOnce'
<1>1. mhelper \in Record /\ mhelper.systems \in Seq(System)
  BY DEF MSInv, IInv, TypeOK, Record
<1>2. mhelper'.systems = Append(mhelper.systems, s)
  BY <1>1, ExtendFits DEF MSInv, IInv, Allocated, RecordFits
<1>3. /\ Len(mhelper.systems) \in Nat
      /\ Len(mhelper'.systems) = Len(mhelper.systems) + 1
      /\ mhelper'.systems[Len(mhelper.systems) + 1] = s
      /\ \A k \in 1..Len(mhelper.systems) : mhelper'.systems[k] = mhelper.systems[k]
  BY <1>1, <1>2, AppendProperties, LenProperties
<1>4. \A k \in 1..Len(mhelper.systems) : mhelper.systems[k] # s
  BY DEF Recorded
<1>5. \A k \in 1..Len(mhelper'.systems) :
        k \in 1..Len(mhelper.systems) \/ k = Len(mhelper.systems) + 1
  BY <1>3
<1> SUFFICES ASSUME NEW k \in 1..Len(mhelper'.systems), NEW m \in 1..Len(mhelper'.systems),
                    mhelper'.systems[k] = mhelper'.systems[m]
             PROVE  k = m
  BY DEF RecordedOnce
<1>6. CASE k \in 1..Len(mhelper.systems) /\ m \in 1..Len(mhelper.systems)
  BY <1>3, <1>6 DEF RecordedOnce
<1>7. CASE k = Len(mhelper.systems) + 1 \/ m = Len(mhelper.systems) + 1
  BY <1>3, <1>4, <1>5, <1>7
<1> QED BY <1>5, <1>6, <1>7


(* Whether units of higher layers are yet to be asked for. *)
BeforeLater ==
  phase \in {"first", "drives"} \/ (phase = "later" /\ pc = "ready")

(* Steps that start, mount and record nothing. *)
LEMMA QuietOrder ==
  ASSUME OrderInv, Phases', mhelper' = mhelper \/ mhelper' = Null,
         UNCHANGED <<mtab, running, shelper, layer, dhelper>>, lost \subseteq lost',
         BeforeLater' => BeforeLater,
         InUnitCall' => InUnitCall /\ jobs' = jobs /\ i \in Nat /\ (i' = i \/ i' = i + 1),
         pc' = "starting" => pc = "starting"
  PROVE  OrderInv'
<1> USE DEF OrderInv
<1>1. Recorded' \subseteq Recorded
  BY NullRecord DEF Recorded
<1>2. \A s : (Touched(s)' => Touched(s)) /\ IsMounted(s)' = IsMounted(s)
  BY <1>1 DEF Touched, IsMounted
<1>3. EarlyFirst'
  BY <1>2 DEF EarlyFirst, BeforeLater, Early, Offered
<1>4. Ahead'
  <2> SUFFICES ASSUME pc' = "starting" PROVE Ahead'
    BY DEF Ahead
  <2>1. pc = "starting" /\ i \in Nat /\ (i' = i \/ i' = i + 1)
    BY DEF InUnitCall
  <2>2. \A u : Selected(u)' = Selected(u)
    BY DEF Selected, Matches
  <2>3. \A u \in 1..Len(shelper.mounts) : u >= i' => u >= i
    BY <2>1
  <2> QED BY <1>2, <2>1, <2>2, <2>3 DEF Ahead
<1>5. JobsApart'
  <2> SUFFICES ASSUME InUnitCall' PROVE JobsApart'
    BY DEF JobsApart
  <2>1. InUnitCall /\ jobs' = jobs /\ \A u \in Nat : u < i => u < i'
    OBVIOUS
  <2>2. \A u : Selected(u)' = Selected(u)
    BY DEF Selected, Matches
  <2>3. \A k \in 1..Len(jobs) : \E u \in 1..Len(shelper.mounts) :
          u < i' /\ Selected(u) /\ jobs[k].system = shelper.mounts[u].system
    BY <2>1 DEF JobsApart
  <2> QED BY <1>1, <2>1, <2>2, <2>3 DEF JobsApart
<1>6. JobsMountNew'
  BY <1>2 DEF JobsMountNew
<1>7. RecordedOnce'
  <2>1. CASE mhelper' = mhelper
    BY <2>1 DEF RecordedOnce
  <2>2. CASE mhelper' = Null
    <3>1. Len(mhelper'.systems) = 0
      BY <2>2 DEF Null
    <3> QED BY <3>1 DEF RecordedOnce
  <2> QED BY <2>1, <2>2
<1>8. DoubleMountOnlyIfLost' /\ NeverCovered'
  BY DEF DoubleMountOnlyIfLost, NeverCovered
<1> QED BY <1>3, <1>4, <1>5, <1>6, <1>7, <1>8

LEMMA PassingOrder ==
  ASSUME MSInv, OrderInv, Phases',
         NoFirstCall \/ FirstCallReturned \/ Omit \/ BindFails \/ NextDrive
           \/ DrivesDone \/ LaterCallReturned \/ UNCHANGED allVars
  PROVE  OrderInv'
<1>1. /\ UNCHANGED <<busVars, localVars, shelper, layer, mhelper, lost, dhelper>>
      /\ pc' = pc \/ pc' = "ready"
      /\ BeforeLater' => BeforeLater
  BY DEF NoFirstCall, FirstCallReturned, Omit, BindFails, NextDrive, DrivesDone, AtSystem,
         LaterCallReturned, EnterDrives, LeaveDrives, NextSystem, allVars, vars,
         driveVars, BeforeLater
<1>2. UNCHANGED <<mtab, running, shelper, layer, dhelper, mhelper, lost, jobs, i>>
  BY <1>1 DEF busVars, localVars
<1>3. i \in Nat
  BY DEF MSInv, IInv, TypeOK
<1>4. pc' = "starting" => pc = "starting"
  BY <1>1
<1>5. InUnitCall' => InUnitCall
  BY <1>1 DEF InUnitCall
<1> QED BY <1>1, <1>2, <1>3, <1>4, <1>5, QuietOrder

(* The steps of a call that neither start a unit nor record a system. *)
LEMMA QuietCallOrder ==
  ASSUME MSInv, OrderInv, Phases', UNCHANGED <<phase, dhelper>>,
         SkipUnit \/ StartedAll \/ ReceiveUnreadable \/ RereadDisconnected
           \/ ReceiveOther \/ Wait \/ \E k \in 1..Len(jobs) : OutOfMemoryOnOurs(k)
  PROVE  OrderInv'
<1>1. InCall
  BY DEF InCall, Receive
<1>2. /\ UNCHANGED <<mtab, running, shelper, layer>> /\ lost \subseteq lost'
      /\ mhelper' = mhelper \/ mhelper' = Null
      /\ pc' = "returned" \/ (jobs' = jobs /\ (i' = i \/ i' = i + 1))
      /\ pc' = "starting" => pc = "starting"
  BY DEF SkipUnit, StartedAll, ReceiveUnreadable, RereadDisconnected, Return,
         ReceiveOther, OutOfMemoryOnOurs, Wait, CountUnreadable, busVars, localVars
<1>3. InUnitCall /\ (pc' \in {"starting", "waiting", "returned"})
  BY <1>1, InCallQuiet
<1>4. BeforeLater' => BeforeLater
  BY <1>3 DEF BeforeLater, InUnitCall
<1>5. i \in Nat
  BY DEF MSInv, IInv, TypeOK
<1>6. InUnitCall' => jobs' = jobs /\ (i' = i \/ i' = i + 1)
  BY <1>2 DEF InUnitCall
<1> QED BY <1>2, <1>3, <1>4, <1>5, <1>6, QuietOrder

(* The first call finds nothing done; the second one units of the first    *)
(* layer and drives, which its own units are behind.                       *)
LEMMA CallOrder ==
  ASSUME MSInv, OrderInv, Phases', FirstCall \/ LaterCall
  PROVE  OrderInv'
<1> USE DEF OrderInv
<1>1. /\ pc = "ready" /\ pc' \in {"starting", "returned"} /\ i' = 1
      /\ jobs' = <<>>
      /\ UNCHANGED <<mtab, running, shelper, dhelper, mhelper, lost, phase>>
      /\ \/ phase = "first"
         \/ phase = "later" /\ layer' = "2+" /\ dhelper # NoDrives
  BY DEF FirstCall, LaterCall, Call, busVars, driveVars, Phases, CallPhases
<1>2. \A s : Touched(s)' = Touched(s) /\ IsMounted(s)' = IsMounted(s)
  BY <1>1 DEF Touched, IsMounted, Recorded
<1>3. phase = "first" => \A s : ~Touched(s)
  BY <1>1 DEF Phases, StartsClean, Touched, IsMounted
<1>4. EarlyFirst'
  BY <1>1, <1>2, <1>3 DEF EarlyFirst
<1>5. Ahead'
  <2> SUFFICES ASSUME NEW u \in 1..Len(shelper.mounts), Selected(u)', NEW s, Touched(s)
               PROVE  /\ s # shelper.mounts[u].system
                      /\ <<s, shelper.mounts[u].system>> \notin Inside
    BY <1>1, <1>2 DEF Ahead
  <2>1. phase = "later" /\ layer' = "2+" /\ s \in Early
    BY <1>1, <1>3 DEF EarlyFirst
  <2>2. shelper.mounts[u].layer > 1 /\ shelper.mounts[u].layer \in Nat
    <3>1. Matches("2+", shelper.mounts[u])
      BY <1>1, <2>1 DEF Selected
    <3> QED BY <3>1, HelperType DEF Matches, MSInv
  <2>3. OfFirstLayer(s, shelper)
    BY <2>1, EarlyOrder
  <2>4. /\ shelper.mounts[u].system = s => shelper.mounts[u].layer = 1
        /\ <<s, shelper.mounts[u].system>> \in Inside => shelper.mounts[u].layer = 0
    BY <2>3 DEF OfFirstLayer
  <2> QED BY <2>2, <2>4
<1>6. JobsApart'
  <2>1. Len(jobs') = 0
    BY <1>1
  <2> QED BY <2>1 DEF JobsApart
<1>7. JobsMountNew' /\ RecordedOnce' /\ DoubleMountOnlyIfLost' /\ NeverCovered'
  BY <1>1, <1>2 DEF JobsMountNew, RecordedOnce, DoubleMountOnlyIfLost, NeverCovered
<1> QED BY <1>4, <1>5, <1>6, <1>7


(* The unit the loop starts: it and what lies inside of it are untouched.  *)
LEMMA NewUnit ==
  ASSUME MSInv, OrderInv, pc = "starting", i <= Len(shelper.mounts), Selected(i),
         running' \subseteq
           running \cup {[id |-> nextJob, system |-> shelper.mounts[i].system]},
         mtab' = mtab, mhelper' = mhelper, lost \subseteq lost'
  PROVE  /\ i \in 1..Len(shelper.mounts)
         /\ \A s : Touched(s)' => Touched(s) \/ s = shelper.mounts[i].system
         /\ ~Touched(shelper.mounts[i].system)
         /\ JobsMountNew'
<1> DEFINE t == shelper.mounts[i].system
<1> DEFINE new == [id |-> nextJob, system |-> t]
<1>1. i \in 1..Len(shelper.mounts)
  BY HelperType DEF MSInv, IInv, TypeOK
<1>2. \A s : Touched(s) => s # t /\ <<s, t>> \notin Inside
  BY <1>1 DEF OrderInv, Ahead
<1>3. new.system = t
  OBVIOUS
<1> HIDE DEF new, t
<1>4. \A j \in running' : j \in running \/ j = new
  BY DEF new, t
<1>5. \A s : IsMounted(s)' = IsMounted(s)
  BY DEF IsMounted
<1>6. \A s : Touched(s)' => Touched(s) \/ s = t
  BY <1>3, <1>4, <1>5 DEF Touched, Recorded
<1>7. /\ \A s : IsMounted(s) => Touched(s)
      /\ \A j \in running : Touched(j.system)
  BY DEF Touched
<1>8. ASSUME NEW j \in running' PROVE IsMounted(j.system)' => j.system \in lost'
  BY <1>2, <1>3, <1>4, <1>5, <1>7, <1>8 DEF OrderInv, JobsMountNew
<1>9. ASSUME NEW j \in running', NEW b \in running', b.system = j.system, b # j
      PROVE  j.system \in lost'
  <2>1. j \in running /\ b \in running
    BY <1>2, <1>3, <1>4, <1>7, <1>9
  <2> QED BY <1>9, <2>1 DEF OrderInv, JobsMountNew
<1>10. ASSUME NEW j \in running', NEW s, IsMounted(s)' PROVE <<s, j.system>> \notin Inside
  BY <1>2, <1>3, <1>4, <1>5, <1>7, <1>10 DEF OrderInv, JobsMountNew
<1>11. JobsMountNew'
  BY <1>8, <1>9, <1>10 DEF JobsMountNew
<1> QED BY <1>1, <1>2, <1>6, <1>11 DEF t

LEMMA NewUnitEarly ==
  ASSUME OrderInv, pc = "starting", i \in 1..Len(shelper.mounts), Selected(i),
         pc' # "ready", UNCHANGED <<phase, dhelper, shelper>>,
         \A s : Touched(s)' => Touched(s) \/ s = shelper.mounts[i].system
  PROVE  EarlyFirst'
<1> SUFFICES ASSUME dhelper # NoDrives, phase \in {"first", "drives"}
             PROVE  \A s : Touched(s)' => s \in Early'
  BY DEF EarlyFirst
<1>1. phase = "first" /\ layer = "1"
  BY DEF OrderInv, Phases, CallPhases, InUnitCall, FirstLayer
<1>2. shelper.mounts[i].layer = 1
  BY <1>1 DEF Selected, Matches
<1>3. shelper.mounts[i].system \in Early /\ Early' = Early
  BY <1>2 DEF Early, Offered
<1>4. \A s : Touched(s) => s \in Early
  BY <1>1 DEF OrderInv, EarlyFirst
<1> QED BY <1>3, <1>4

LEMMA StartUnitOrder ==
  ASSUME MSInv, OrderInv, Phases', StartUnit, UNCHANGED <<phase, dhelper>>
  PROVE  OrderInv'
<1> DEFINE t == shelper.mounts[i].system
<1> DEFINE new == [id |-> nextJob, system |-> t, finished |-> FALSE]
<1>1. /\ pc = "starting" /\ Selected(i) /\ i <= Len(shelper.mounts)
      /\ running' = running \cup {[id |-> nextJob, system |-> t]}
      /\ jobs' = Append(jobs, new) /\ i' = i + 1
      /\ UNCHANGED <<mtab, mhelper, lost, shelper, layer, pc>>
  BY DEF StartUnit, Accept
<1>2. new.system = t /\ new.finished = FALSE /\ new \in StartedJob
  <2>1. t \in System
    BY <1>1, ConsideredUnit DEF MSInv
  <2> QED BY <2>1 DEF StartedJob, MSInv, IInv, TypeOK, BusTypeOK
<1>3. /\ i \in 1..Len(shelper.mounts)
      /\ \A s : Touched(s)' => Touched(s) \/ s = t
      /\ ~Touched(t)
      /\ JobsMountNew'
  BY <1>1, NewUnit
<1>4. /\ Len(jobs) \in Nat /\ Len(jobs') = Len(jobs) + 1
      /\ jobs'[Len(jobs) + 1] = new
      /\ \A k \in 1..Len(jobs) : jobs'[k] = jobs[k]
  <2> HIDE DEF new
  <2>1. jobs \in Seq(StartedJob)
    BY DEF MSInv, IInv, TypeOK
  <2> QED BY <1>1, <1>2, <2>1, AppendProperties, LenProperties
<1> HIDE DEF new
<1>5. \A u : Selected(u)' = Selected(u)
  BY <1>1 DEF Selected, Matches
<1>6. InOrder(shelper)
  BY UnitOrder
<1>7. EarlyFirst'
  BY <1>1, <1>3, NewUnitEarly
<1>8. Ahead'
  <2> SUFFICES ASSUME NEW u \in 1..Len(shelper.mounts), u >= i + 1, Selected(u),
                      NEW s, Touched(s)'
               PROVE  /\ s # shelper.mounts[u].system
                      /\ <<s, shelper.mounts[u].system>> \notin Inside
    BY <1>1, <1>5 DEF Ahead
  <2>1. u >= i /\ u # i /\ ~(u < i)
    BY <1>3
  <2>2. CASE Touched(s)
    BY <1>1, <2>1, <2>2 DEF OrderInv, Ahead
  <2>3. CASE s = t
    <3>1. t # shelper.mounts[u].system
      BY <1>3, <1>6, <2>1 DEF InOrder
    <3>2. <<t, shelper.mounts[u].system>> \notin Inside
      BY <1>3, <1>6, <2>1 DEF InOrder
    <3> QED BY <2>3, <3>1, <3>2
  <2> QED BY <1>3, <2>2, <2>3
<1>9. JobsApart'
  <2>1. \A k \in 1..Len(jobs) : \E u \in 1..Len(shelper.mounts) :
          u < i /\ Selected(u) /\ jobs[k].system = shelper.mounts[u].system
    BY <1>1 DEF OrderInv, JobsApart, InUnitCall
  <2>2. \A k \in 1..Len(jobs) : jobs[k].system # t
    <3> SUFFICES ASSUME NEW k \in 1..Len(jobs), jobs[k].system = t PROVE FALSE
      OBVIOUS
    <3>1. PICK u \in 1..Len(shelper.mounts) :
            u < i /\ jobs[k].system = shelper.mounts[u].system
      BY <2>1
    <3>2. u = i
      BY <1>3, <1>6, <3>1 DEF InOrder
    <3> QED BY <1>3, <3>1, <3>2
  <2>3. \A k \in 1..Len(jobs') : k \in 1..Len(jobs) \/ k = Len(jobs) + 1
    BY <1>4
  <2>4. \A k \in 1..Len(jobs') : \E u \in 1..Len(shelper.mounts) :
          u < i + 1 /\ Selected(u) /\ jobs'[k].system = shelper.mounts[u].system
    <3> SUFFICES ASSUME NEW k \in 1..Len(jobs')
                 PROVE  \E u \in 1..Len(shelper.mounts) :
                          /\ u < i + 1 /\ Selected(u)
                          /\ jobs'[k].system = shelper.mounts[u].system
      OBVIOUS
    <3>1. CASE k \in 1..Len(jobs)
      <4>1. PICK u \in 1..Len(shelper.mounts) :
              u < i /\ Selected(u) /\ jobs[k].system = shelper.mounts[u].system
        BY <2>1, <3>1
      <4> QED BY <1>3, <1>4, <3>1, <4>1
    <3>2. CASE k = Len(jobs) + 1
      BY <1>1, <1>2, <1>3, <1>4, <3>2
    <3> QED BY <2>3, <3>1, <3>2
  <2>5. ASSUME NEW k \in 1..Len(jobs'), NEW m \in 1..Len(jobs'),
               jobs'[k].system = jobs'[m].system
        PROVE  k = m
    <3>1. CASE k \in 1..Len(jobs) /\ m \in 1..Len(jobs)
      BY <1>1, <1>4, <2>5, <3>1 DEF OrderInv, JobsApart, InUnitCall
    <3>2. CASE k = Len(jobs) + 1 /\ m \in 1..Len(jobs)
      BY <1>2, <1>4, <2>2, <2>5, <3>2
    <3>3. CASE m = Len(jobs) + 1 /\ k \in 1..Len(jobs)
      BY <1>2, <1>4, <2>2, <2>5, <3>3
    <3> QED BY <2>3, <3>1, <3>2, <3>3
  <2>6. ASSUME NEW k \in 1..Len(jobs'), jobs'[k].system \in Recorded
        PROVE  jobs'[k].finished
    <3>1. CASE k \in 1..Len(jobs)
      BY <1>1, <1>4, <2>6, <3>1 DEF OrderInv, JobsApart, InUnitCall
    <3>2. CASE k = Len(jobs) + 1
      BY <1>2, <1>3, <1>4, <2>6, <3>2 DEF Touched
    <3> QED BY <2>3, <3>1, <3>2
  <2>7. Recorded' = Recorded
    BY <1>1 DEF Recorded
  <2> QED BY <1>1, <1>5, <2>4, <2>5, <2>6, <2>7 DEF JobsApart
<1>10. RecordedOnce' /\ DoubleMountOnlyIfLost' /\ NeverCovered'
  BY <1>1 DEF OrderInv, RecordedOnce, DoubleMountOnlyIfLost, NeverCovered
<1> QED BY <1>3, <1>7, <1>8, <1>9, <1>10 DEF OrderInv

LEMMA StartUnitFailsOrder ==
  ASSUME MSInv, OrderInv, Phases', StartUnitFails, UNCHANGED <<phase, dhelper>>
  PROVE  OrderInv'
<1> DEFINE t == shelper.mounts[i].system
<1>1. /\ pc = "starting" /\ Selected(i) /\ i <= Len(shelper.mounts)
      /\ running' \subseteq running \cup {[id |-> nextJob, system |-> t]}
      /\ UNCHANGED <<mtab, mhelper, shelper, layer>> /\ lost \subseteq lost'
      /\ pc' = "returned"
  BY DEF StartUnitFails, Reject, Return
<1>2. /\ i \in 1..Len(shelper.mounts)
      /\ \A s : Touched(s)' => Touched(s) \/ s = t
      /\ JobsMountNew'
  BY <1>1, NewUnit
<1>3. EarlyFirst'
  BY <1>1, <1>2, NewUnitEarly
<1>4. Ahead' /\ JobsApart'
  BY <1>1 DEF Ahead, JobsApart, InUnitCall
<1>5. RecordedOnce' /\ DoubleMountOnlyIfLost' /\ NeverCovered'
  BY <1>1 DEF OrderInv, RecordedOnce, DoubleMountOnlyIfLost, NeverCovered
<1> QED BY <1>2, <1>3, <1>4, <1>5 DEF OrderInv


LEMMA ReceiveOursOrder ==
  ASSUME MSInv, OrderInv, Phases', NEW k \in 1..Len(jobs), ReceiveOurs(k),
         UNCHANGED <<phase, dhelper>>
  PROVE  OrderInv'
<1> DEFINE t == jobs[k].system
<1>1. /\ pc = "waiting" /\ pc' \in {"waiting", "returned"} /\ rqueue # <<>>
      /\ Head(rqueue).member = "JobRemoved" /\ rqueue' = Tail(rqueue)
      /\ ~jobs[k].finished /\ IsOurs(k)
      /\ jobs' = [jobs EXCEPT ![k].finished = TRUE]
      /\ UNCHANGED <<running, nextJob, mtab, shelper, layer, i, lost>>
      /\ \/ mhelper' = mhelper
         \/ IsJobSuccess(Head(rqueue).result) /\ mhelper' = Extend(mhelper, t)
  BY DEF ReceiveOurs, IsOurs
<1>2. t \in System /\ (IsJobSuccess(Head(rqueue).result) => IsMounted(t))
  BY <1>1, ReportKeeps DEF MSInv
<1>3. /\ Len(jobs') = Len(jobs)
      /\ \A m \in 1..Len(jobs) :
           /\ jobs'[m].system = jobs[m].system
           /\ jobs'[m].finished = IF m = k THEN TRUE ELSE jobs[m].finished
  BY <1>1, FinishJob DEF MSInv, IInv, TypeOK
<1>4. JobsApart /\ InUnitCall
  BY <1>1 DEF OrderInv, InUnitCall
<1>5. t \notin Recorded
  BY <1>1, <1>4 DEF JobsApart
<1>6. mhelper \in Record
  BY DEF MSInv, IInv, TypeOK
<1> HIDE DEF t
<1>7. \/ mhelper' = mhelper /\ Recorded' = Recorded
      \/ /\ mhelper' = Extend(mhelper, t) /\ Recorded' = Recorded \cup {t}
         /\ IsMounted(t)
  <2>1. CASE mhelper' = mhelper
    BY <2>1 DEF Recorded
  <2>2. CASE IsJobSuccess(Head(rqueue).result) /\ mhelper' = Extend(mhelper, t)
    BY <1>2, <1>6, <2>2, ExtendRecorded
  <2> QED BY <1>1, <2>1, <2>2
<1>8. \A s : IsMounted(s)' = IsMounted(s)
  BY <1>1 DEF IsMounted
<1>9. \A s : Touched(s)' => Touched(s)
  BY <1>1, <1>7, <1>8 DEF Touched
<1>10. EarlyFirst'
  <2>1. Early' = Early
    BY <1>1 DEF Early, Offered
  <2>2. pc' # "ready"
    BY <1>1
  <2> QED BY <1>9, <2>1, <2>2 DEF OrderInv, EarlyFirst
<1>11. Ahead'
  BY <1>1 DEF Ahead
<1>12. JobsApart'
  <2>1. \A u : Selected(u)' = Selected(u)
    BY <1>1 DEF Selected, Matches
  <2>2. ASSUME NEW m \in 1..Len(jobs), jobs[m].system \in Recorded'
        PROVE  jobs'[m].finished
    <3>1. m # k => jobs[m].system # t
      BY <1>4 DEF JobsApart, t
    <3>2. m = k \/ jobs[m].system \in Recorded
      BY <1>7, <2>2, <3>1
    <3> QED BY <1>3, <1>4, <3>2 DEF JobsApart
  <2>3. \A m \in 1..Len(jobs') : \E u \in 1..Len(shelper.mounts) :
          u < i /\ Selected(u) /\ jobs'[m].system = shelper.mounts[u].system
    <3> TAKE m \in 1..Len(jobs')
    <3>1. m \in 1..Len(jobs) /\ jobs'[m].system = jobs[m].system
      BY <1>3
    <3>2. PICK u \in 1..Len(shelper.mounts) :
            u < i /\ Selected(u) /\ jobs[m].system = shelper.mounts[u].system
      BY <1>4, <3>1 DEF JobsApart
    <3> QED BY <3>1, <3>2
  <2>4. \A m, o \in 1..Len(jobs') : jobs'[m].system = jobs'[o].system => m = o
    <3> TAKE m, o \in 1..Len(jobs')
    <3>1. /\ m \in 1..Len(jobs) /\ jobs'[m].system = jobs[m].system
          /\ o \in 1..Len(jobs) /\ jobs'[o].system = jobs[o].system
      BY <1>3
    <3> QED BY <1>4, <3>1 DEF JobsApart
  <2> QED BY <1>1, <1>3, <2>1, <2>2, <2>3, <2>4 DEF JobsApart
<1>13. JobsMountNew'
  BY <1>1, <1>8 DEF OrderInv, JobsMountNew
<1>14. RecordedOnce'
  BY <1>2, <1>5, <1>7, ExtendOnce DEF OrderInv, RecordedOnce, t
<1>15. DoubleMountOnlyIfLost' /\ NeverCovered'
  BY <1>1 DEF OrderInv, DoubleMountOnlyIfLost, NeverCovered
<1> QED BY <1>10, <1>11, <1>12, <1>13, <1>14, <1>15 DEF OrderInv

LEMMA RemoveJobOrder ==
  ASSUME MSInv, OrderInv, Phases', NEW b, RemoveJob(b),
         UNCHANGED <<localVars, pc, shelper, layer, mhelper, lost, phase, dhelper>>
  PROVE  OrderInv'
<1>1. PICK j \in running :
        /\ running' = running \ {j}
        /\ mtab' = mtab \/ (PutMount(j.system, "unit") /\ IsDue(j.system))
  BY DEF RemoveJob, RemoveJobAs
<1>2. j.system \in System
  BY IdTypes DEF MSInv
<1>3. \A s : IsMounted(s)' => IsMounted(s) \/ s = j.system
  <2>1. CASE mtab' = mtab
    BY <2>1 DEF IsMounted
  <2>2. CASE PutMount(j.system, "unit")
    <3> DEFINE m == [at |-> j.system, by |-> "unit"]
    <3>1. /\ m \in Mount /\ m.at = j.system
          /\ mtab' = Append(mtab, m) /\ mtab \in Seq(Mount)
      BY <1>2, <2>2 DEF Mount, Provider, PutMount, MSInv, IInv, TypeOK, BusTypeOK
    <3> HIDE DEF m
    <3> QED BY <3>1, MountStays
  <2> QED BY <1>1, <2>1, <2>2
<1>4. Recorded' = Recorded
  BY DEF Recorded
<1>5. \A s : Touched(s)' => Touched(s)
  BY <1>1, <1>3, <1>4 DEF Touched
<1>6. UNCHANGED <<i, jobs>> /\ \A u : Selected(u)' = Selected(u)
  BY DEF localVars, Selected, Matches
<1>7. EarlyFirst'
  <2>1. Early' = Early
    BY DEF Early, Offered
  <2> QED BY <1>5, <2>1 DEF OrderInv, EarlyFirst
<1>8. Ahead'
  BY <1>5, <1>6 DEF OrderInv, Ahead
<1>9. JobsApart' /\ RecordedOnce'
  BY <1>4, <1>6 DEF OrderInv, JobsApart, InUnitCall, RecordedOnce
<1>10. CASE mtab' = mtab
  <2>1. JobsMountNew'
    BY <1>1, <1>10 DEF OrderInv, JobsMountNew, IsMounted
  <2>2. DoubleMountOnlyIfLost' /\ NeverCovered'
    BY <1>10 DEF OrderInv, DoubleMountOnlyIfLost, NeverCovered
  <2> QED BY <1>7, <1>8, <1>9, <2>1, <2>2 DEF OrderInv
<1>11. CASE PutMount(j.system, "unit") /\ IsDue(j.system)
  <2>1. \A a \in running : <<j.system, a.system>> \notin Inside
    BY <1>11 DEF IsDue
  <2>2. /\ IsMounted(j.system) => j.system \in lost
        /\ \A a \in running : j.system = a.system /\ j # a => a.system \in lost
        /\ \A s : IsMounted(s) => <<s, j.system>> \notin Inside
    BY DEF OrderInv, JobsMountNew
  <2>3. JobsMountNew'
    <3>1. ASSUME NEW a \in running' PROVE IsMounted(a.system)' => a.system \in lost'
      <4>1. a \in running /\ a # j
        BY <1>1
      <4>2. CASE a.system = j.system
        BY <2>2, <4>1, <4>2
      <4>3. CASE a.system # j.system
        BY <1>3, <4>1, <4>3 DEF OrderInv, JobsMountNew
      <4> QED BY <4>2, <4>3
    <3>2. ASSUME NEW a \in running', NEW c \in running', c.system = a.system, c # a
          PROVE  a.system \in lost'
      BY <1>1, <3>2 DEF OrderInv, JobsMountNew
    <3>3. ASSUME NEW a \in running', NEW s, IsMounted(s)' PROVE <<s, a.system>> \notin Inside
      BY <1>1, <1>3, <2>1, <3>3 DEF OrderInv, JobsMountNew
    <3> QED BY <3>1, <3>2, <3>3 DEF JobsMountNew
  <2>4. DoubleMountOnlyIfLost' /\ NeverCovered'
    <3>1. "unit" \in Provider
      BY DEF Provider
    <3> QED BY <1>2, <1>11, <2>1, <2>2, <3>1, OneMoreMount DEF OrderInv
  <2> QED BY <1>7, <1>8, <1>9, <2>3, <2>4 DEF OrderInv
<1> QED BY <1>1, <1>10, <1>11

LEMMA ManagerOrder ==
  ASSUME MSInv, OrderInv, Phases', ManagerStep
  PROVE  OrderInv'
<1>1. UNCHANGED <<localVars, pc, shelper, layer, mhelper, lost, phase, dhelper>>
  BY DEF ManagerStep, Manager, driveVars
<1>2. CASE RemoveJob(Heard)
  BY <1>1, <1>2, RemoveJobOrder
<1>3. CASE ForeignJobRemoved(Heard) \/ Hangup
  <2>1. UNCHANGED <<running, mtab>>
    BY <1>3, OthersReportNothing DEF MSInv
  <2>2. UNCHANGED <<i, jobs>> /\ i \in Nat
    BY <1>1 DEF localVars, MSInv, IInv, TypeOK
  <2>3. (InUnitCall' => InUnitCall) /\ (BeforeLater' => BeforeLater)
    BY <1>1 DEF InUnitCall, BeforeLater
  <2> QED BY <1>1, <2>1, <2>2, <2>3, QuietOrder
<1> QED BY <1>2, <1>3 DEF ManagerStep, Manager, Environment

LEMMA BindOrder ==
  ASSUME MSInv, OrderInv, AccountInv, Phases', Bind \/ BindOutOfMemory
  PROVE  OrderInv'
<1>1. /\ Considered \in System /\ Considered \notin Recorded
      /\ PutMount(Considered, "drive")
      /\ \A s : IsMounted(s)' => IsMounted(s) \/ s = Considered
      /\ Recorded' \subseteq Recorded \cup {Considered} /\ lost \subseteq lost'
      /\ UNCHANGED <<running, shelper, dhelper>>
      /\ phase = "drives" /\ AtSystem /\ ~InUnitCall /\ ~InUnitCall'
  BY BindEffect DEF OrderInv, Phases
<1>2. dhelper # NoDrives
  BY <1>1 DEF OrderInv, Phases, CallPhases
<1>3. \A s : Touched(s) => s \in Early
  BY <1>1, <1>2 DEF OrderInv, EarlyFirst
<1>4. Considered \in Early
  <2>1. d \in 1..Len(dhelper) /\ n \in 1..Len(dhelper[d])
    BY <1>1, LoopTypes DEF AtSystem
  <2> QED BY <2>1 DEF Early, Offered, Considered
<1>5. /\ \A s : IsMounted(s) => Touched(s)
      /\ \A j \in running : Touched(j.system) /\ j.system \in lost
      /\ IsMounted(Considered) => Considered \in lost
  BY <1>1, IdleLost DEF Touched
<1>6. \A x, y \in Early : <<x, y>> \notin Inside
  BY EarlyOrder
<1>7. EarlyFirst'
  <2>1. \A s : Touched(s)' => Touched(s) \/ s = Considered
    BY <1>1 DEF Touched
  <2>2. Early' = Early
    BY <1>1 DEF Early, Offered
  <2> QED BY <1>3, <1>4, <2>1, <2>2 DEF EarlyFirst
<1>8. Ahead' /\ JobsApart'
  BY <1>1 DEF Ahead, JobsApart, InUnitCall
<1>9. JobsMountNew'
  <2>1. \A j \in running : \A s : IsMounted(s)' => <<s, j.system>> \notin Inside
    BY <1>1, <1>3, <1>4, <1>5, <1>6
  <2> QED BY <1>1, <1>5, <2>1 DEF JobsMountNew
<1>10. RecordedOnce'
  <2>1. CASE Bind
    BY <1>1, <2>1, ExtendOnce DEF Bind, OrderInv
  <2>2. CASE BindOutOfMemory
    <3>1. Len(mhelper'.systems) = 0
      BY <2>2 DEF BindOutOfMemory, Null
    <3> QED BY <3>1 DEF RecordedOnce
  <2> QED BY <2>1, <2>2
<1>11. DoubleMountOnlyIfLost' /\ NeverCovered'
  <2>1. "drive" \in Provider
    BY DEF Provider
  <2>2. /\ \A s : IsMounted(s) => <<s, Considered>> \notin Inside
        /\ <<Considered, Considered>> \notin Inside
        /\ IsMounted(Considered) => Considered \in lost'
    BY <1>1, <1>3, <1>4, <1>5, <1>6
  <2> QED BY <1>1, <2>1, <2>2, OneMoreMount DEF OrderInv
<1> QED BY <1>7, <1>8, <1>9, <1>10, <1>11 DEF OrderInv


LEMMA OrderKeeps ==
  ASSUME MSInv, AccountInv, OrderInv, [MSNext]_allVars
  PROVE  OrderInv'
<1>1. Phases'
  BY PhasesKeep DEF OrderInv
<1>2. CASE FirstCall \/ LaterCall
  BY <1>1, <1>2, CallOrder
<1>3. CASE UnitCall
  <2>1. UNCHANGED <<phase, dhelper>>
    BY <1>3 DEF UnitCall, driveVars
  <2>2. CASE StartUnit \/ StartUnitFails
    BY <1>1, <2>1, <2>2, StartUnitOrder, StartUnitFailsOrder
  <2>3. CASE \E k \in 1..Len(jobs) : ReceiveOurs(k)
    BY <1>1, <2>1, <2>3, ReceiveOursOrder
  <2>4. CASE SkipUnit \/ StartedAll \/ ReceiveUnreadable \/ RereadDisconnected
               \/ ReceiveOther \/ Wait \/ \E k \in 1..Len(jobs) : OutOfMemoryOnOurs(k)
    BY <1>1, <2>1, <2>4, QuietCallOrder
  <2> QED BY <1>3, <2>2, <2>3, <2>4 DEF UnitCall, InCall, Receive
<1>4. CASE ManagerStep
  BY <1>1, <1>4, ManagerOrder
<1>5. CASE Bind \/ BindOutOfMemory
  BY <1>1, <1>5, BindOrder
<1>6. CASE NoFirstCall \/ FirstCallReturned \/ Omit \/ BindFails \/ NextDrive
             \/ DrivesDone \/ LaterCallReturned \/ UNCHANGED allVars
  BY <1>1, <1>6, PassingOrder
<1> QED BY <1>2, <1>3, <1>4, <1>5, <1>6 DEF MSNext, Program

LEMMA OrderInvariant == MSSpec => [](MSInv /\ JobsInv /\ AccountInv /\ OrderInv)
<1>1. MSInit => MSInv /\ JobsInv /\ AccountInv /\ OrderInv
  BY MSInitInv, InitOrder
<1>2. MSInv /\ JobsInv /\ AccountInv /\ OrderInv /\ [MSNext]_allVars
        => (MSInv /\ JobsInv /\ AccountInv /\ OrderInv)'
  <2> SUFFICES ASSUME MSInv, JobsInv, AccountInv, OrderInv, [MSNext]_allVars
               PROVE  (MSInv /\ JobsInv /\ AccountInv /\ OrderInv)'
    OBVIOUS
  <2>1. CallPhases
    BY DEF OrderInv, Phases
  <2> QED BY <2>1, MSNextKeeps, JobsAndAccountKeep, OrderKeeps
<1> QED BY <1>1, <1>2, PTL DEF MSSpec

(* For every set of units and drives, no system is recorded twice, by the  *)
(* units of two calls, by drives, or by a late report                      *)
(* (eemount.c:436-445, systemd.c:449-456).                                 *)
THEOREM NoSystemRecordedTwice == MSSpec => []RecordedOnce
<1>1. OrderInv => RecordedOnce
  BY DEF OrderInv
<1> QED BY <1>1, OrderInvariant, PTL

(* Two mounts are on one directory only if the program had lost track of   *)
(* the system: as long as no batch was given up, no unit failed to start   *)
(* and no record was freed, a system is mounted at most once               *)
(* (eemount.c:436-486, systemd.c:417-493).                                 *)
THEOREM OnlyTheLostMountedTwice == MSSpec => []DoubleMountOnlyIfLost
<1>1. OrderInv => DoubleMountOnlyIfLost
  BY DEF OrderInv
<1> QED BY <1>1, OrderInvariant, PTL

(* No mount ever hides one that was made before it below its directory,    *)
(* though jobs of an abandoned first batch may still run during the second *)
(* one: the order of the units, the layers and the manager's own ordering  *)
(* of nested mounts suffice (eemount.c:497-511, systemd.c:177-193).        *)
THEOREM NoMountIsCovered == MSSpec => []NeverCovered
<1>1. OrderInv => NeverCovered
  BY DEF OrderInv
<1> QED BY <1>1, OrderInvariant, PTL


=============================================================================
