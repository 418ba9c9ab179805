--------------------------- MODULE MountRootProofs --------------------------
(***************************************************************************)
(* What is proved of MountRoot for all mount tables, partitions and        *)
(* drives: the value returned tells whether /storage/roms is provided,     *)
(* nothing is mounted over another mount, .update is mounted from EEROMS,  *)
(* and EEROMS is the documented partition.                                 *)
(***************************************************************************)
EXTENDS MountRoot, SequenceTheorems, WellFoundedInduction, TLAPS

InEEROMS == {"mkdir", "check", "context", "update", "flash", "storage", "label"}

(* While no job was given up on, the place the program has come to tells   *)
(* whether /storage/roms is mounted.                                       *)
Knows ==
  /\ pc \in {"begin", "unit"} => rootJob = "none"
  /\ pc \in {"begin", "unit", "drives"} => target = "roms"
  /\ rootJob = "none" =>
       /\ pc \in {"begin", "unit", "drives"} => ~IsMountPoint(mtab, "roms")
       /\ pc \in InEEROMS => (IsMountPoint(mtab, "roms") <=> target = "eeroms")
       /\ pc \in {"updateCheck", "updateBind"} => IsMountPoint(mtab, "roms")
       /\ pc = "returned" => (ret = 0 <=> IsMountPoint(mtab, "roms"))

AnyDevice == Device \cup {NoDevice}

Typed ==
  /\ mtab \in Seq(Entry)
  /\ target \in {"roms", "eeroms"}
  /\ rootJob \in {"none", "running", "over"}

(* Who has made the mounts that may be taken for EEROMS.                   *)
Sources ==
  /\ pc \in {"updateCheck", "updateBind"} => IsMountPoint(mtab, target)
  /\ \A k \in 1..Len(mtab) :
       /\ mtab[k].at = "eeroms" => mtab[k].by \in {"init", "EEROMS"}
       /\ mtab[k].at = "roms" /\ target = "roms" =>
            \/ mtab[k].by = "unit" /\ rootJob = "over"
            \/ mtab[k].by = "EEROMS" /\ pc \in {"updateCheck", "updateBind", "returned"}

RootInv == Typed /\ Knows /\ Sources

(* Where the program is about to mount, nothing is mounted, as far as it   *)
(* can tell.                                                               *)
MayMount(at) == ~IsMountPoint(mtab, at) \/ (at = "roms" /\ rootJob # "none")

Clear ==
  ~fault =>
    /\ pc \in {"context", "update", "flash", "storage", "label"} => MayMount(target)
    /\ pc = "updateBind" => MayMount("update")

Flat(t) == \A p, q \in 1..Len(t) : p # q => t[p].at # t[q].at

StackInv == RootInv /\ Clear /\ NothingStacked

-----------------------------------------------------------------------------

(* One mount is added to the table. *)
LEMMA PutTable ==
  ASSUME mtab \in Seq(Entry), NEW at \in Place, NEW by \in Maker, NEW dev \in AnyDevice,
         Put(at, by, dev)
  PROVE  /\ mtab' \in Seq(Entry)
         /\ Len(mtab) \in Nat /\ Len(mtab') = Len(mtab) + 1
         /\ mtab'[Len(mtab) + 1].at = at /\ mtab'[Len(mtab) + 1].by = by
         /\ \A k \in 1..Len(mtab) : mtab'[k] = mtab[k]
<1> DEFINE e == [at |-> at, by |-> by, dev |-> dev]
<1>1. e \in Entry /\ mtab' = Append(mtab, e)
  BY DEF AnyDevice, Entry, Put
<1> HIDE DEF e
<1>2. /\ mtab' \in Seq(Entry) /\ Len(mtab) \in Nat /\ Len(mtab') = Len(mtab) + 1
      /\ mtab'[Len(mtab) + 1] = e
      /\ \A k \in 1..Len(mtab) : mtab'[k] = mtab[k]
  BY <1>1, AppendProperties, LenProperties
<1> QED BY <1>2 DEF e

LEMMA PutPoints ==
  ASSUME mtab \in Seq(Entry), NEW at \in Place, NEW by \in Maker, NEW dev \in AnyDevice,
         Put(at, by, dev)
  PROVE  \A x : IsMountPoint(mtab', x) <=> IsMountPoint(mtab, x) \/ x = at
<1>1. /\ Len(mtab) \in Nat /\ Len(mtab') = Len(mtab) + 1
      /\ mtab'[Len(mtab) + 1].at = at
      /\ \A k \in 1..Len(mtab) : mtab'[k] = mtab[k]
  BY PutTable
<1> TAKE x
<1>2. IsMountPoint(mtab, x) => IsMountPoint(mtab', x)
  BY <1>1 DEF IsMountPoint
<1>3. IsMountPoint(mtab', at)
  BY <1>1 DEF IsMountPoint
<1>4. IsMountPoint(mtab', x) => IsMountPoint(mtab, x) \/ x = at
  <2> SUFFICES ASSUME NEW k \in 1..Len(mtab'), mtab'[k].at = x
               PROVE  IsMountPoint(mtab, x) \/ x = at
    BY DEF IsMountPoint
  <2>1. k \in 1..Len(mtab) \/ k = Len(mtab) + 1
    BY <1>1
  <2> QED BY <1>1, <2>1 DEF IsMountPoint
<1> QED BY <1>2, <1>3, <1>4

LEMMA Devices ==
  NoDevice \in AnyDevice /\ Partitions \subseteq AnyDevice /\ Labelled \subseteq AnyDevice
BY PartitionsAssumption DEF AnyDevice

(* There is a last one of some numbers. *)
LEMMA Greatest ==
  ASSUME NEW n \in Nat, NEW T \in SUBSET (1..n), T # {}
  PROVE  \E k \in T : \A m \in T : m <= k
<1> DEFINE Offsets == {n - k : k \in T}
<1>1. \A k \in T : k \in Int /\ n - k \in Nat
  OBVIOUS
<1>2. Offsets \subseteq Nat /\ Offsets # {}
  BY <1>1
<1>3. PICK x \in Offsets : \A y \in Offsets : ~(<<y, x>> \in OpToRel(<, Nat))
  <2> HIDE DEF Offsets
  <2> QED BY <1>2, NatLessThanWellFounded, WFMin
<1>4. \A y \in Offsets : ~(y < x)
  BY <1>2, <1>3 DEF OpToRel
<1>5. PICK k \in T : x = n - k
  OBVIOUS
<1>6. ASSUME NEW m \in T PROVE m <= k
  <2>1. n - m \in Offsets
    OBVIOUS
  <2>2. ~(n - m < n - k)
    BY <1>4, <1>5, <2>1
  <2>3. m \in Int /\ k \in Int
    BY <1>1
  <2> HIDE DEF Offsets
  <2> QED BY <2>2, <2>3
<1> QED BY <1>6

LEMMA OnTopEntry ==
  ASSUME mtab \in Seq(Entry), NEW at, IsMountPoint(mtab, at)
  PROVE  /\ OnTop(at) \in Entry
         /\ \E k \in 1..Len(mtab) :
              /\ OnTop(at) = mtab[k] /\ mtab[k].at = at
              /\ \A m \in (k + 1)..Len(mtab) : mtab[m].at # at
<1> DEFINE T == {k \in 1..Len(mtab) : mtab[k].at = at}
<1>1. Len(mtab) \in Nat
  BY LenProperties
<1>2. T \in SUBSET (1..Len(mtab)) /\ T # {}
  BY DEF IsMountPoint
<1>3. PICK k \in T : \A m \in T : m <= k
  <2> HIDE DEF T
  <2> QED BY <1>1, <1>2, Greatest
<1> DEFINE Top(n) == mtab[n].at = at /\ \A m \in (n + 1)..Len(mtab) : mtab[m].at # at
<1>4. Top(k) /\ k \in 1..Len(mtab)
  <2>1. ASSUME NEW m \in (k + 1)..Len(mtab) PROVE mtab[m].at # at
    <3>1. m \in 1..Len(mtab) /\ ~(m <= k)
      BY <1>1, <1>3, <2>1
    <3> QED BY <1>3, <3>1
  <2> QED BY <1>3, <2>1
<1> DEFINE t == CHOOSE n \in 1..Len(mtab) : Top(n)
<1>5. t \in 1..Len(mtab) /\ Top(t)
  BY <1>4
<1>6. OnTop(at) = mtab[t]
  BY DEF OnTop
<1>7. mtab[t] \in Entry
  BY <1>5, ElementOfSeq
<1> QED BY <1>5, <1>6, <1>7

-----------------------------------------------------------------------------
(* The value returned, and the source of .update *)

LEMMA RootInit == Init => RootInv
<1> SUFFICES ASSUME Init PROVE RootInv
  OBVIOUS
<1>1. mtab \in Seq(Entry) /\ \A k \in 1..Len(mtab) : mtab[k].at # "roms" /\ mtab[k].by = "init"
  BY StartsAssumption DEF Init
<1> QED BY <1>1 DEF Init, RootInv, Typed, Knows, Sources, IsMountPoint, InEEROMS

(* EEROMS is mounted on its target. *)
LEMMA EEROMSMounted ==
  ASSUME RootInv, NEW dev \in AnyDevice, pc \in InEEROMS,
         Put(target, "EEROMS", dev), pc' = "updateCheck",
         UNCHANGED <<rootJob, target>>
  PROVE  RootInv'
<1>1. target \in Place /\ "EEROMS" \in Maker /\ mtab \in Seq(Entry)
  BY DEF RootInv, Typed, Place, Maker
<1>2. Typed' /\ \A x : IsMountPoint(mtab', x) <=> IsMountPoint(mtab, x) \/ x = target
  BY <1>1, PutTable, PutPoints DEF RootInv, Typed
<1>3. Knows'
  BY <1>2 DEF RootInv, Typed, Knows, InEEROMS
<1>4. Sources'
  <2>1. /\ Len(mtab) \in Nat /\ Len(mtab') = Len(mtab) + 1
        /\ mtab'[Len(mtab) + 1].by = "EEROMS"
        /\ \A k \in 1..Len(mtab) : mtab'[k] = mtab[k]
    BY <1>1, PutTable
  <2>2. ASSUME NEW k \in 1..Len(mtab')
        PROVE  /\ mtab'[k].at = "eeroms" => mtab'[k].by \in {"init", "EEROMS"}
               /\ mtab'[k].at = "roms" /\ target' = "roms" =>
                    (mtab'[k].by = "unit" /\ rootJob' = "over") \/ mtab'[k].by = "EEROMS"
    <3>1. CASE k \in 1..Len(mtab)
      BY <2>1, <3>1 DEF RootInv, Sources
    <3>2. CASE k = Len(mtab) + 1
      BY <2>1, <3>2
    <3> QED BY <2>1, <3>1, <3>2
  <2> QED BY <1>2, <2>2 DEF Sources
<1> QED BY <1>2, <1>3, <1>4 DEF RootInv

(* What provides /storage/roms in its own right: EEROMS goes elsewhere. *)
LEMMA RootMounted ==
  ASSUME RootInv, NEW by \in {"unit", "drive"}, pc \in {"unit", "drives"},
         Put("roms", by, NoDevice), pc' = "mkdir", target' = "eeroms", UNCHANGED rootJob
  PROVE  RootInv'
<1>1. by \in Maker /\ "roms" \in Place /\ NoDevice \in AnyDevice /\ mtab \in Seq(Entry)
  BY Devices DEF RootInv, Typed, Place, Maker
<1>2. /\ Typed'
      /\ \A x : IsMountPoint(mtab', x) <=> IsMountPoint(mtab, x) \/ x = "roms"
  BY <1>1, PutTable, PutPoints DEF RootInv, Typed
<1>3. Knows'
  BY <1>2 DEF Knows, InEEROMS
<1>4. Sources'
  <2>1. /\ Len(mtab) \in Nat /\ Len(mtab') = Len(mtab) + 1
        /\ mtab'[Len(mtab) + 1].at = "roms"
        /\ \A k \in 1..Len(mtab) : mtab'[k] = mtab[k]
    BY <1>1, PutTable
  <2>2. ASSUME NEW k \in 1..Len(mtab'), mtab'[k].at = "eeroms"
        PROVE  mtab'[k].by \in {"init", "EEROMS"}
    <3>1. k \in 1..Len(mtab)
      BY <2>1, <2>2
    <3> QED BY <2>1, <2>2, <3>1 DEF RootInv, Sources
  <2> QED BY <2>2 DEF Sources
<1> QED BY <1>2, <1>3, <1>4 DEF RootInv

LEMMA RootJobKeeps == RootInv /\ RootJobEnds => RootInv'
<1> SUFFICES ASSUME RootInv, RootJobEnds PROVE RootInv'
  OBVIOUS
<1>1. /\ rootJob = "running" /\ rootJob' = "over" /\ mtab \in Seq(Entry)
      /\ UNCHANGED <<pc, target, ret>>
  BY DEF RootJobEnds, RootInv, Typed
<1>2. CASE UNCHANGED mtab
  BY <1>1, <1>2 DEF RootInv, Typed, Knows, Sources
<1>3. CASE Put("roms", "unit", NoDevice)
  <2>1. "unit" \in Maker /\ "roms" \in Place /\ NoDevice \in AnyDevice
    BY Devices DEF Place, Maker
  <2>2. /\ mtab' \in Seq(Entry) /\ Len(mtab) \in Nat /\ Len(mtab') = Len(mtab) + 1
        /\ mtab'[Len(mtab) + 1].at = "roms" /\ mtab'[Len(mtab) + 1].by = "unit"
        /\ \A k \in 1..Len(mtab) : mtab'[k] = mtab[k]
        /\ \A x : IsMountPoint(mtab', x) <=> IsMountPoint(mtab, x) \/ x = "roms"
    BY <1>1, <1>3, <2>1, PutTable, PutPoints
  <2>3. ASSUME NEW k \in 1..Len(mtab')
        PROVE  /\ mtab'[k].at = "eeroms" => mtab'[k].by \in {"init", "EEROMS"}
               /\ mtab'[k].at = "roms" /\ target' = "roms" =>
                    \/ mtab'[k].by = "unit" /\ rootJob' = "over"
                    \/ mtab'[k].by = "EEROMS" /\ pc' \in {"updateCheck", "updateBind", "returned"}
    <3>1. CASE k \in 1..Len(mtab)
      BY <1>1, <2>2, <3>1 DEF RootInv, Sources
    <3>2. CASE k = Len(mtab) + 1
      BY <1>1, <2>2, <3>2
    <3> QED BY <2>2, <3>1, <3>2
  <2>4. Sources'
    BY <1>1, <2>2, <2>3 DEF RootInv, Sources
  <2> QED BY <1>1, <2>2, <2>4 DEF RootInv, Typed, Knows
<1> QED BY <1>2, <1>3 DEF RootJobEnds

(* A step that mounts nothing: the program goes on to try for EEROMS, or   *)
(* returns without it.                                                     *)
LEMMA EEROMSGoesOn ==
  ASSUME RootInv, pc \in InEEROMS, UNCHANGED <<mtab, rootJob, target>>,
         \/ pc' \in InEEROMS
         \/ pc' = "updateCheck" /\ IsMountPoint(mtab, target)
         \/ pc' = "returned" /\ ret' = (IF target = "roms" THEN 1 ELSE 0)
  PROVE  RootInv'
<1>1. pc' \in InEEROMS \cup {"updateCheck", "returned"} /\ pc' \notin {"begin", "unit", "drives"}
  BY DEF InEEROMS
<1>2. Typed'
  BY DEF RootInv, Typed
<1>3. Knows'
  BY <1>1 DEF RootInv, Typed, Knows, InEEROMS
<1>4. Sources'
  BY <1>1 DEF RootInv, Sources, InEEROMS
<1> QED BY <1>2, <1>3, <1>4 DEF RootInv

LEMMA TryMountKeeps ==
  ASSUME RootInv, NEW dev, NEW next \in InEEROMS, pc \in InEEROMS, TryMount(dev, next)
  PROVE  RootInv'
<1>1. UNCHANGED <<rootJob, target>>
  BY DEF TryMount
<1>2. CASE dev \in Partitions /\ Put(target, "EEROMS", dev) /\ GoTo("updateCheck")
  BY <1>1, <1>2, Devices, EEROMSMounted DEF GoTo
<1>3. CASE GoTo(next) /\ UNCHANGED mtab
  BY <1>1, <1>3, EEROMSGoesOn DEF GoTo
<1>4. CASE EEROMSFails /\ UNCHANGED mtab
  BY <1>1, <1>4, EEROMSGoesOn DEF EEROMSFails, Return, GoTo
<1> QED BY <1>2, <1>3, <1>4 DEF TryMount

LEMMA TryBootDriveKeeps ==
  ASSUME RootInv, NEW at \in InEEROMS, NEW next \in InEEROMS, TryBootDrive(at, next)
  PROVE  RootInv'
<1>1. pc \in InEEROMS
  BY DEF TryBootDrive
<1>2. CASE TryMount(Third(FindEntry(table, at).dev), next)
  BY <1>1, <1>2, TryMountKeeps
<1>3. CASE GoTo(next) /\ UNCHANGED <<mtab, rootJob, target>>
  BY <1>1, <1>3, EEROMSGoesOn DEF GoTo
<1> QED BY <1>2, <1>3 DEF TryBootDrive, Skip, Configuration

LEMMA UpdateBindKeeps == RootInv /\ UpdateBind => RootInv'
<1> SUFFICES ASSUME RootInv, UpdateBind PROVE RootInv'
  OBVIOUS
<1>1. /\ pc = "updateBind" /\ pc' = "returned" /\ ret' = 0 /\ UNCHANGED <<rootJob, target>>
      /\ mtab \in Seq(Entry) /\ IsMountPoint(mtab, target)
  BY DEF UpdateBind, Return, GoTo, RootInv, Typed, Sources
<1>2. CASE UNCHANGED mtab
  BY <1>1, <1>2 DEF RootInv, Typed, Knows, Sources, InEEROMS
<1>3. CASE Put("update", "bind", OnTop(target).dev)
  <2>1. OnTop(target) \in Entry
    BY <1>1, OnTopEntry
  <2>2. "bind" \in Maker /\ "update" \in Place /\ OnTop(target).dev \in AnyDevice
    BY <2>1 DEF Place, Maker, Entry, AnyDevice
  <2>3. /\ mtab' \in Seq(Entry) /\ Len(mtab) \in Nat /\ Len(mtab') = Len(mtab) + 1
        /\ mtab'[Len(mtab) + 1].at = "update"
        /\ \A k \in 1..Len(mtab) : mtab'[k] = mtab[k]
        /\ \A x : IsMountPoint(mtab', x) <=> IsMountPoint(mtab, x) \/ x = "update"
    BY <1>1, <1>3, <2>2, PutTable, PutPoints
  <2>4. ASSUME NEW k \in 1..Len(mtab'), mtab'[k].at # "update"
        PROVE  k \in 1..Len(mtab) /\ mtab'[k] = mtab[k]
    BY <2>3, <2>4
  <2>5. Sources'
    BY <1>1, <2>4 DEF RootInv, Sources
  <2> QED BY <1>1, <2>3, <2>5 DEF RootInv, Typed, Knows, InEEROMS
<1> QED BY <1>2, <1>3 DEF UpdateBind

LEMMA RootNext == RootInv /\ [Next]_vars => RootInv'
<1> SUFFICES ASSUME RootInv, [Next]_vars PROVE RootInv'
  OBVIOUS
<1>1. CASE Mkdir
  BY <1>1 DEF Mkdir, GoTo, Return, RootInv, Typed, Knows, Sources, InEEROMS
<1>2. CASE UnitStarted
  BY <1>2, RootMounted DEF UnitStarted, Step, GoTo
<1>3. CASE UnitNotStarted
  BY <1>3 DEF UnitNotStarted, Step, GoTo, RootInv, Typed, Knows, Sources, InEEROMS
<1>4. CASE NextDrive
  BY <1>4 DEF NextDrive, RootInv, Typed, Knows, Sources, InEEROMS
<1>5. CASE BindDrive
  BY <1>5, RootMounted DEF BindDrive, Step, GoTo
<1>6. CASE NoDriveLeft
  BY <1>6 DEF NoDriveLeft, Step, GoTo, RootInv, Typed, Knows, Sources, InEEROMS
<1>7. CASE EEROMSMkdir
  BY <1>7, EEROMSGoesOn DEF EEROMSMkdir, EEROMSFails, Return, GoTo, InEEROMS
<1>8. CASE CheckTarget
  BY <1>8, EEROMSGoesOn DEF CheckTarget, AlreadyMounted, GoTo, InEEROMS
<1>9. CASE Prepare
  BY <1>9, EEROMSGoesOn DEF Prepare, EEROMSFails, Return, GoTo, InEEROMS
<1>10. CASE TryUpdate
  <2>1. pc \in InEEROMS /\ "flash" \in InEEROMS
    BY <1>10 DEF TryUpdate, InEEROMS
  <2>2. CASE TryMount(FindEntry(table, "update").dev, "flash")
    BY <2>1, <2>2, TryMountKeeps
  <2>3. CASE Skip("flash")
    BY <2>1, <2>3, EEROMSGoesOn DEF Skip, GoTo
  <2> QED BY <1>10, <2>2, <2>3 DEF TryUpdate
<1>11. CASE TryBootDrive("flash", "storage") \/ TryBootDrive("storage", "label")
  BY <1>11, TryBootDriveKeeps DEF InEEROMS
<1>12. CASE TryLabel
  <2>1. pc \in InEEROMS /\ UNCHANGED <<rootJob, target>>
    BY <1>12 DEF TryLabel, InEEROMS
  <2>2. CASE EEROMSFails /\ UNCHANGED mtab
    BY <2>1, <2>2, EEROMSGoesOn DEF EEROMSFails, Return, GoTo
  <2>3. CASE \E dev \in Labelled : Put(target, "EEROMS", dev) /\ GoTo("updateCheck")
    BY <2>1, <2>3, Devices, EEROMSMounted DEF GoTo
  <2> QED BY <1>12, <2>2, <2>3 DEF TryLabel
<1>13. CASE UpdateCheck
  BY <1>13 DEF UpdateCheck, Return, GoTo, RootInv, Typed, Knows, Sources, InEEROMS
<1>14. CASE UNCHANGED vars
  BY <1>14 DEF vars, RootInv, Typed, Knows, Sources, InEEROMS
<1> QED BY <1>1, <1>2, <1>3, <1>4, <1>5, <1>6, <1>7, <1>8, <1>9, <1>10, <1>11, <1>12, <1>13,
           <1>14, UpdateBindKeeps, RootJobKeeps DEF Next, Program

LEMMA RootInvariant == Spec => []RootInv
BY RootInit, RootNext, PTL DEF Spec

(* Through every fallback the value returned tells whether /storage/roms   *)
(* is provided, however many drives and partitions there are               *)
(* (eemount.c:369-409).                                                    *)
THEOREM ReturnsRoot == Spec => []RootAsReturned
<1>1. RootInv => RootAsReturned
  BY DEF RootInv, Knows, RootAsReturned
<1> QED BY <1>1, RootInvariant, PTL

(* What is bound to .update lies in EEROMS, or in what a root unit that    *)
(* was given up on has mounted where EEROMS was to go (eemount.c:217-247). *)
THEOREM UpdateIsOfEEROMS == Spec => []UpdateFromEEROMS
<1>1. RootInv => UpdateFromEEROMS
  <2> SUFFICES ASSUME RootInv, pc = "updateBind"
               PROVE  \/ OnTop(target).by \in {"EEROMS", "init"}
                      \/ target = "roms" /\ rootJob = "over" /\ OnTop(target).by = "unit"
    BY DEF UpdateFromEEROMS
  <2>1. PICK k \in 1..Len(mtab) : OnTop(target) = mtab[k] /\ mtab[k].at = target
    BY OnTopEntry DEF RootInv, Typed, Sources
  <2> QED BY <2>1 DEF RootInv, Typed, Sources
<1> QED BY <1>1, RootInvariant, PTL

-----------------------------------------------------------------------------
(* Nothing is stacked *)

LEMMA StackInit ==
  ASSUME \A t \in Starts : Flat(t)
  PROVE  Init => StackInv
<1> SUFFICES ASSUME Init PROVE StackInv
  OBVIOUS
<1>1. Flat(mtab)
  BY DEF Init
<1> QED BY <1>1, RootInit DEF Init, StackInv, Clear, NothingStacked, Flat

(* A mount where nothing was mounted, or one that is excused. *)
LEMMA PutStacks ==
  ASSUME RootInv, NothingStacked,
         NEW at \in Place, NEW by \in Maker, NEW dev \in AnyDevice, Put(at, by, dev),
         fault \/ MayMount(at) \/ (at = "roms" /\ rootJob' # "none"),
         rootJob # "none" => rootJob' # "none", UNCHANGED fault
  PROVE  NothingStacked'
<1>1. /\ Len(mtab) \in Nat /\ Len(mtab') = Len(mtab) + 1
      /\ mtab'[Len(mtab) + 1].at = at
      /\ \A k \in 1..Len(mtab) : mtab'[k] = mtab[k]
  BY PutTable DEF RootInv, Typed
<1>2. CASE fault
  BY <1>2 DEF NothingStacked
<1>3. CASE at = "roms" /\ rootJob' # "none"
  <2> SUFFICES ASSUME NEW p \in 1..Len(mtab'), NEW q \in 1..Len(mtab'),
                      p # q, mtab'[p].at = mtab'[q].at
               PROVE  fault \/ mtab'[p].at = "roms"
    BY <1>3 DEF NothingStacked
  <2>1. CASE p \in 1..Len(mtab) /\ q \in 1..Len(mtab)
    BY <1>1, <2>1 DEF NothingStacked
  <2>2. CASE p = Len(mtab) + 1 \/ q = Len(mtab) + 1
    BY <1>1, <1>3, <2>2
  <2> QED BY <1>1, <2>1, <2>2
<1>4. CASE ~IsMountPoint(mtab, at)
  <2> SUFFICES ASSUME NEW p \in 1..Len(mtab'), NEW q \in 1..Len(mtab'),
                      p # q, mtab'[p].at = mtab'[q].at
               PROVE  fault \/ (mtab'[p].at = "roms" /\ rootJob' # "none")
    BY DEF NothingStacked
  <2>1. p \in 1..Len(mtab) /\ q \in 1..Len(mtab)
    <3>1. \A k \in 1..Len(mtab) : mtab'[k].at # at
      BY <1>1, <1>4 DEF IsMountPoint
    <3>2. p \in 1..Len(mtab) \/ p = Len(mtab) + 1
      BY <1>1
    <3>3. q \in 1..Len(mtab) \/ q = Len(mtab) + 1
      BY <1>1
    <3> QED BY <1>1, <3>1, <3>2, <3>3
  <2> QED BY <1>1, <2>1 DEF NothingStacked
<1> QED BY <1>2, <1>3, <1>4 DEF MayMount

(* What a step of EEROMS does to the table of mounts and what it may       *)
(* expect next.                                                            *)
LEMMA TryStacks ==
  ASSUME StackInv, NEW dev, pc \in {"update", "flash", "storage"},
         NEW next \in {"flash", "storage", "label"}, TryMount(dev, next)
  PROVE  Clear' /\ NothingStacked'
<1>1. UNCHANGED <<rootJob, target>> /\ target \in Place /\ "EEROMS" \in Maker
  BY DEF TryMount, StackInv, RootInv, Typed, Place, Maker
<1>2. CASE dev \in Partitions /\ Put(target, "EEROMS", dev) /\ pc' = "updateCheck" /\ UNCHANGED fault
  <2>1. fault \/ MayMount(target)
    BY DEF StackInv, Clear
  <2>2. NothingStacked'
    BY <1>1, <1>2, <2>1, Devices, PutStacks DEF StackInv
  <2> QED BY <1>2, <2>2 DEF Clear
<1>3. CASE UNCHANGED mtab /\ (fault => fault') /\ pc' \in {next, "returned"}
  BY <1>1, <1>3 DEF StackInv, Clear, NothingStacked, MayMount, TryMount, GoTo, EEROMSFails, Return
<1>4. GoTo(next) /\ fault' = (fault \/ dev \in Partitions) => (fault => fault') /\ pc' = next
  BY DEF GoTo
<1>5. EEROMSFails /\ fault' = TRUE => (fault => fault') /\ pc' = "returned"
  BY DEF EEROMSFails, Return, GoTo
<1> QED BY <1>2, <1>3, <1>4, <1>5 DEF TryMount, GoTo

LEMMA StackNext == StackInv /\ [Next]_vars => StackInv'
<1> SUFFICES ASSUME StackInv, [Next]_vars PROVE Clear' /\ NothingStacked'
  BY RootNext DEF StackInv
<1> USE DEF StackInv
<1>1. ASSUME UNCHANGED <<mtab, rootJob>>, fault => fault',
             pc' \notin {"context", "update", "flash", "storage", "label", "updateBind"}
      PROVE  Clear' /\ NothingStacked'
  BY <1>1 DEF Clear, NothingStacked
<1>2. ASSUME UNCHANGED <<mtab, rootJob, target>>, fault => fault',
             pc \in {"context", "update", "flash", "storage", "label"},
             pc' \in {"context", "update", "flash", "storage", "label", "returned"}
      PROVE  Clear' /\ NothingStacked'
  BY <1>2 DEF Clear, NothingStacked, MayMount
<1>3. CASE Mkdir
  BY <1>1, <1>3 DEF Mkdir, GoTo, Return
<1>4. CASE UnitStarted
  <2>1. /\ MayMount("roms") /\ Put("roms", "unit", NoDevice)
        /\ pc' = "mkdir" /\ UNCHANGED <<rootJob, fault>>
    BY <1>4 DEF UnitStarted, Step, GoTo, RootInv, Knows, MayMount
  <2>2. "unit" \in Maker /\ "roms" \in Place /\ NoDevice \in AnyDevice
    BY Devices DEF Maker, Place
  <2> QED BY <2>1, <2>2, PutStacks DEF Clear
<1>5. CASE UnitNotStarted
  BY <1>5 DEF UnitNotStarted, Step, GoTo, RootInv, Knows, Clear, NothingStacked
<1>6. CASE NextDrive
  <2>1. fault => fault'
    BY <1>6 DEF NextDrive
  <2> QED BY <1>1, <1>6, <2>1 DEF NextDrive
<1>7. CASE BindDrive
  <2>1. /\ MayMount("roms") /\ Put("roms", "drive", NoDevice)
        /\ pc' = "mkdir" /\ UNCHANGED <<rootJob, fault>>
    BY <1>7 DEF BindDrive, Step, GoTo, RootInv, Knows, MayMount
  <2>2. "drive" \in Maker /\ "roms" \in Place /\ NoDevice \in AnyDevice
    BY Devices DEF Maker, Place
  <2> QED BY <2>1, <2>2, PutStacks DEF Clear
<1>8. CASE NoDriveLeft
  BY <1>1, <1>8 DEF NoDriveLeft, Step, GoTo
<1>9. CASE EEROMSMkdir
  BY <1>1, <1>9 DEF EEROMSMkdir, EEROMSFails, Return, GoTo
<1>10. CASE CheckTarget
  BY <1>10 DEF CheckTarget, AlreadyMounted, GoTo, Clear, NothingStacked, MayMount
<1>11. CASE Prepare
  BY <1>2, <1>11 DEF Prepare, EEROMSFails, Return, GoTo
<1>12. CASE TryUpdate
  <2>1. pc = "update"
    BY <1>12 DEF TryUpdate
  <2>2. CASE TryMount(FindEntry(table, "update").dev, "flash")
    BY <2>1, <2>2, TryStacks
  <2>3. CASE Skip("flash")
    BY <1>2, <2>1, <2>3 DEF Skip, GoTo
  <2> QED BY <1>12, <2>2, <2>3 DEF TryUpdate
<1>13. ASSUME NEW at \in {"flash", "storage"}, NEW next \in {"storage", "label"},
              TryBootDrive(at, next)
       PROVE  Clear' /\ NothingStacked'
  <2>1. pc = at
    BY <1>13 DEF TryBootDrive
  <2>2. CASE TryMount(Third(FindEntry(table, at).dev), next)
    BY <2>1, <2>2, TryStacks
  <2>3. CASE GoTo(next) /\ (fault => fault') /\ UNCHANGED <<mtab, rootJob, target>>
    BY <1>2, <2>1, <2>3 DEF GoTo
  <2> QED BY <1>13, <2>2, <2>3 DEF TryBootDrive, Skip
<1>14. CASE TryLabel
  <2>1. /\ UNCHANGED <<rootJob, target>> /\ pc = "label"
        /\ target \in Place /\ "EEROMS" \in Maker
    BY <1>14 DEF TryLabel, RootInv, Typed, Place, Maker
  <2>2. CASE EEROMSFails /\ (fault => fault') /\ UNCHANGED mtab
    BY <1>2, <2>1, <2>2 DEF EEROMSFails, Return, GoTo
  <2>3. ASSUME NEW dev \in Labelled, Put(target, "EEROMS", dev), pc' = "updateCheck",
               UNCHANGED fault
        PROVE  Clear' /\ NothingStacked'
    <3>1. fault \/ MayMount(target)
      BY <2>1 DEF Clear
    <3>2. NothingStacked'
      BY <2>1, <2>3, <3>1, Devices, PutStacks
    <3> QED BY <2>3, <3>2 DEF Clear
  <2>4. (fault' = (fault \/ Labelled # {})) => (fault => fault')
    OBVIOUS
  <2> QED BY <1>14, <2>2, <2>3, <2>4 DEF TryLabel, GoTo
<1>15. CASE UpdateCheck
  BY <1>15 DEF UpdateCheck, Return, GoTo, Clear, NothingStacked, MayMount
<1>16. CASE UpdateBind
  <2>1. /\ pc = "updateBind" /\ pc' = "returned" /\ UNCHANGED <<rootJob, target>>
        /\ mtab \in Seq(Entry) /\ IsMountPoint(mtab, target)
    BY <1>16 DEF UpdateBind, Return, GoTo, RootInv, Typed, Sources
  <2>2. CASE UNCHANGED mtab /\ fault'
    BY <1>1, <2>1, <2>2
  <2>3. CASE Put("update", "bind", OnTop(target).dev) /\ UNCHANGED fault
    <3>1. "bind" \in Maker /\ "update" \in Place /\ OnTop(target).dev \in AnyDevice
      BY <2>1, OnTopEntry DEF Place, Maker, Entry, AnyDevice
    <3>2. fault \/ MayMount("update")
      BY <2>1 DEF Clear
    <3> QED BY <2>1, <2>3, <3>1, <3>2, PutStacks DEF Clear
  <2> QED BY <1>16, <2>2, <2>3 DEF UpdateBind
<1>17. CASE RootJobEnds
  <2>1. rootJob = "running" /\ rootJob' = "over" /\ UNCHANGED <<pc, target, fault>>
    BY <1>17 DEF RootJobEnds
  <2>2. CASE UNCHANGED mtab
    BY <2>1, <2>2 DEF Clear, NothingStacked, MayMount
  <2>3. CASE Put("roms", "unit", NoDevice)
    <3>1. "unit" \in Maker /\ "roms" \in Place /\ NoDevice \in AnyDevice
      BY Devices DEF Maker, Place
    <3>2. NothingStacked'
      BY <2>1, <2>3, <3>1, PutStacks
    <3>3. \A x : IsMountPoint(mtab', x) <=> IsMountPoint(mtab, x) \/ x = "roms"
      BY <2>3, <3>1, PutPoints DEF RootInv, Typed
    <3> QED BY <2>1, <3>2, <3>3 DEF Clear, MayMount
  <2> QED BY <1>17, <2>2, <2>3 DEF RootJobEnds
<1>18. CASE UNCHANGED vars
  BY <1>18 DEF vars, Clear, NothingStacked, MayMount
<1> QED BY <1>3, <1>4, <1>5, <1>6, <1>7, <1>8, <1>9, <1>10, <1>11, <1>12, <1>13, <1>14, <1>15,
           <1>16, <1>17, <1>18 DEF Next, Program

(* If init has stacked nothing, neither does the routine: /storage/roms is *)
(* not provided twice, and neither EEROMS nor .update covers what was      *)
(* there, but for the job the program gave up on and a table that could    *)
(* not be read (eemount.c:221-224, 244-247, 376-407).                      *)
THEOREM RootStacksNothing ==
  ASSUME \A t \in Starts : Flat(t)
  PROVE  Spec => []NothingStacked
<1>1. StackInv => NothingStacked
  BY DEF StackInv
<1> QED BY <1>1, StackInit, StackNext, PTL DEF Spec
-----------------------------------------------------------------------------
(* EEROMS is the partition the README names *)

(* The names of the partitions /flash and /storage are on end with one     *)
(* digit: with more of them the third one is not what the code tries.      *)
OneDigit(t) ==
  \A k \in 1..Len(t) : t[k].at \in {"flash", "storage"} => t[k].dev.part < 10

(* There is no mount of EEROMS before one was made. *)
NoEEROMS == \A k \in 1..Len(mtab) : mtab[k].by # "EEROMS"

(* What was tried before is not there. *)
TriedInVain ==
  ~fault =>
    /\ pc \in {"flash", "storage", "label"} => Behind(table, "update") \cap Partitions = {}
    /\ pc \in {"storage", "label"} => ThirdBehind(table, "flash") \cap Partitions = {}
    /\ pc = "label" => ThirdBehind(table, "storage") \cap Partitions = {}

ChoiceInv ==
  /\ RootInv /\ table \in Seq(Entry)
  /\ OneDigit(mtab) /\ OneDigit(table)
  /\ pc \in {"begin", "unit", "drives"} \cup InEEROMS => NoEEROMS
  /\ TriedInVain /\ EEROMSAsDocumented

(* The first entry at a mount point is one. *)
LEMMA FindEntryEntry ==
  ASSUME NEW t \in Seq(Entry), NEW at, IsMountPoint(t, at)
  PROVE  /\ FindEntry(t, at) \in Entry
         /\ \E k \in 1..Len(t) : FindEntry(t, at) = t[k] /\ t[k].at = at
<1> DEFINE T == {k \in 1..Len(t) : t[k].at = at}
<1>1. Len(t) \in Nat /\ T \subseteq Nat /\ T # {}
  BY LenProperties DEF IsMountPoint
<1>2. PICK k \in T : \A m \in T : ~(<<m, k>> \in OpToRel(<, Nat))
  <2> HIDE DEF T
  <2> QED BY <1>1, NatLessThanWellFounded, WFMin
<1>3. \A m \in T : ~(m < k)
  BY <1>1, <1>2 DEF OpToRel
<1> DEFINE First(n) == t[n].at = at /\ \A m \in 1..(n - 1) : t[m].at # at
<1>4. First(k) /\ k \in 1..Len(t)
  <2>1. ASSUME NEW m \in 1..(k - 1) PROVE t[m].at # at
    <3>1. k \in 1..Len(t)
      BY <1>2
    <3>2. m \in 1..Len(t) /\ m < k
      BY <1>1, <2>1, <3>1
    <3> QED BY <1>3, <3>2
  <2> QED BY <1>2, <2>1
<1> DEFINE f == CHOOSE n \in 1..Len(t) : First(n)
<1>5. f \in 1..Len(t) /\ First(f)
  BY <1>4
<1>6. FindEntry(t, at) = t[f]
  BY DEF FindEntry
<1>7. t[f] \in Entry
  BY <1>5, ElementOfSeq
<1> QED BY <1>5, <1>6, <1>7

(* What the code tries is what the README calls the third partition. *)
LEMMA ThirdAsDocumented ==
  ASSUME NEW t \in Seq(Entry), OneDigit(t), NEW at \in {"flash", "storage"}
  PROVE  ThirdBehind(t, at) =
           IF IsMountPoint(t, at) /\ EndsWithDigit(FindEntry(t, at).dev)
           THEN {Third(FindEntry(t, at).dev)} ELSE {}
<1>1. CASE ~IsMountPoint(t, at)
  BY <1>1 DEF ThirdBehind, Behind
<1>2. CASE IsMountPoint(t, at)
  <2> DEFINE dev == FindEntry(t, at).dev
  <2>1. dev.part \in Nat /\ dev.part < 10
    <3>1. PICK k \in 1..Len(t) : FindEntry(t, at) = t[k] /\ t[k].at = at
      BY <1>2, FindEntryEntry
    <3>2. dev.part < 10
      BY <3>1 DEF OneDigit
    <3>3. dev \in Device \cup {NoDevice}
      BY <1>2, FindEntryEntry DEF Entry
    <3>4. NoDevice.part = 0
      BY Zenon DEF NoDevice
    <3>5. dev.part \in Nat
      BY <3>3, <3>4 DEF Device
    <3> QED BY <3>2, <3>5
  <2>2. Behind(t, at) = {dev}
    BY <1>2 DEF Behind
  <2> HIDE DEF dev
  <2>3. (dev.part \div 10) * 10 + 3 = 3
    BY <2>1
  <2>4. Third(dev) = [dev EXCEPT !.part = 3]
    BY <2>3 DEF Third
  <2>5. ThirdBehind(t, at) = IF EndsWithDigit(dev) THEN {Third(dev)} ELSE {}
    BY <2>2, <2>4 DEF ThirdBehind
  <2> QED BY <1>2, <2>5 DEF dev
<1> QED BY <1>1, <1>2

LEMMA DocumentedIs ==
  ASSUME NEW t
  PROVE  /\ Behind(t, "update") \cap Partitions # {}
              => Documented(t) = Behind(t, "update") \cap Partitions
         /\ Behind(t, "update") \cap Partitions = {} =>
              /\ ThirdBehind(t, "flash") \cap Partitions # {}
                   => Documented(t) = ThirdBehind(t, "flash") \cap Partitions
              /\ ThirdBehind(t, "flash") \cap Partitions = {} =>
                   /\ ThirdBehind(t, "storage") \cap Partitions # {}
                        => Documented(t) = ThirdBehind(t, "storage") \cap Partitions
                   /\ ThirdBehind(t, "storage") \cap Partitions = {}
                        => Documented(t) = Labelled
BY DEF Documented

(* A mount by EEROMS, of a device the README names. *)
LEMMA DocumentedMount ==
  ASSUME ChoiceInv, NEW dev \in AnyDevice, Put(target, "EEROMS", dev),
         pc \in InEEROMS, pc' = "updateCheck", UNCHANGED <<table, fault>>,
         fault \/ dev \in Documented(table)
  PROVE  /\ OneDigit(mtab') /\ OneDigit(table') /\ table' \in Seq(Entry)
         /\ TriedInVain' /\ EEROMSAsDocumented'
<1> DEFINE e == [at |-> target, by |-> "EEROMS", dev |-> dev]
<1>1. e \in Entry /\ mtab' = Append(mtab, e) /\ mtab \in Seq(Entry)
  BY DEF AnyDevice, Entry, Maker, Place, Put, ChoiceInv, RootInv, Typed
<1>2. e.at \notin {"flash", "storage"} /\ e.dev = dev
  BY DEF ChoiceInv, RootInv, Typed
<1> HIDE DEF e
<1>3. /\ Len(mtab) \in Nat /\ Len(mtab') = Len(mtab) + 1
      /\ mtab'[Len(mtab) + 1] = e
      /\ \A k \in 1..Len(mtab) : mtab'[k] = mtab[k]
  BY <1>1, AppendProperties, LenProperties
<1>4. \A k \in 1..Len(mtab') : k \in 1..Len(mtab) \/ k = Len(mtab) + 1
  BY <1>3
<1>5. OneDigit(mtab')
  BY <1>2, <1>3, <1>4 DEF OneDigit, ChoiceInv
<1>6. EEROMSAsDocumented'
  <2>1. NoEEROMS
    BY DEF ChoiceInv
  <2>2. Documented(table)' = Documented(table)
    BY DEF Documented, ThirdBehind, Behind
  <2>3. CASE fault
    BY <2>3 DEF EEROMSAsDocumented
  <2>4. CASE ~fault
    BY <1>2, <1>3, <1>4, <2>1, <2>2, <2>4 DEF EEROMSAsDocumented, NoEEROMS
  <2> QED BY <2>3, <2>4
<1>7. TriedInVain'
  BY DEF TriedInVain
<1> QED BY <1>5, <1>6, <1>7 DEF ChoiceInv, OneDigit

Early == {"begin", "unit", "drives"} \cup InEEROMS

(* A step that mounts nothing and looks nothing up. *)
LEMMA ChoiceGoesOn ==
  ASSUME ChoiceInv, RootInv', UNCHANGED <<mtab, table>>, fault => fault',
         pc' \in Early => pc \in Early, TriedInVain'
  PROVE  ChoiceInv'
<1>1. OneDigit(mtab') /\ OneDigit(table') /\ (pc' \in Early => NoEEROMS')
  BY DEF ChoiceInv, OneDigit, NoEEROMS, Early
<1>2. EEROMSAsDocumented'
  BY DEF ChoiceInv, EEROMSAsDocumented, Documented, ThirdBehind, Behind
<1> QED BY <1>1, <1>2 DEF ChoiceInv, Early

(* A mount by another than EEROMS. *)
LEMMA ChoiceOther ==
  ASSUME ChoiceInv, RootInv', NEW at \in Place \ {"flash", "storage"},
         NEW by \in Maker \ {"EEROMS"}, NEW dev \in AnyDevice, Put(at, by, dev),
         UNCHANGED <<table, fault>>, pc' \in Early => pc \in Early, TriedInVain'
  PROVE  ChoiceInv'
<1>1. /\ Len(mtab) \in Nat /\ Len(mtab') = Len(mtab) + 1
      /\ mtab'[Len(mtab) + 1].at = at /\ mtab'[Len(mtab) + 1].by = by
      /\ \A k \in 1..Len(mtab) : mtab'[k] = mtab[k]
  BY PutTable DEF ChoiceInv, RootInv, Typed
<1>2. \A k \in 1..Len(mtab') : k \in 1..Len(mtab) \/ k = Len(mtab) + 1
  BY <1>1
<1>3. OneDigit(mtab') /\ OneDigit(table')
  BY <1>1, <1>2 DEF ChoiceInv, OneDigit
<1>4. pc' \in Early => NoEEROMS'
  BY <1>1, <1>2 DEF ChoiceInv, NoEEROMS, Early
<1>5. EEROMSAsDocumented'
  <2>1. Documented(table)' = Documented(table)
    BY DEF Documented, ThirdBehind, Behind
  <2> QED BY <1>1, <1>2, <2>1 DEF ChoiceInv, EEROMSAsDocumented
<1> QED BY <1>3, <1>4, <1>5 DEF ChoiceInv, Early

(* One try: what is mounted is the device tried; what is not is not there, *)
(* and the next try may go on from that.                                   *)
LEMMA ChoiceTry ==
  ASSUME ChoiceInv, RootInv', NEW dev, pc \in {"update", "flash", "storage"},
         NEW next \in {"flash", "storage", "label"}, TryMount(dev, next),
         dev \in Partitions => fault \/ dev \in Documented(table),
         ~fault' /\ dev \notin Partitions /\ pc' = next => TriedInVain'
  PROVE  ChoiceInv'
<1>1. pc \in Early /\ pc \in InEEROMS /\ UNCHANGED table
  BY DEF TryMount, Early, InEEROMS
<1>2. CASE dev \in Partitions /\ Put(target, "EEROMS", dev) /\ pc' = "updateCheck" /\ UNCHANGED fault
  <2>1. /\ OneDigit(mtab') /\ OneDigit(table') /\ table' \in Seq(Entry)
        /\ TriedInVain' /\ EEROMSAsDocumented'
    BY <1>1, <1>2, Devices, DocumentedMount
  <2> QED BY <1>2, <2>1 DEF ChoiceInv, InEEROMS
<1>3. CASE pc' = next /\ fault' = (fault \/ dev \in Partitions) /\ UNCHANGED mtab
  <2>1. TriedInVain'
    BY <1>3 DEF TriedInVain
  <2>2. fault => fault'
    BY <1>3
  <2> QED BY <1>1, <1>3, <2>1, <2>2, ChoiceGoesOn
<1>4. CASE EEROMSFails /\ fault' = TRUE /\ UNCHANGED mtab
  <2>1. TriedInVain'
    BY <1>4 DEF TriedInVain
  <2> QED BY <1>1, <1>4, <2>1, ChoiceGoesOn
<1> QED BY <1>2, <1>3, <1>4 DEF TryMount, GoTo

LEMMA ChoiceUpdate == ChoiceInv /\ RootInv' /\ TryUpdate => ChoiceInv'
<1> SUFFICES ASSUME ChoiceInv, RootInv', TryUpdate PROVE ChoiceInv'
  OBVIOUS
<1>1. pc = "update" /\ pc \in Early
  BY DEF TryUpdate, Early, InEEROMS
<1>2. CASE IsMountPoint(table, "update")
  <2> DEFINE dev == FindEntry(table, "update").dev
  <2>1. TryMount(dev, "flash") /\ UNCHANGED table /\ Behind(table, "update") = {dev}
    BY <1>2 DEF TryUpdate, TryMount, Behind
  <2> HIDE DEF dev
  <2>2. dev \in Partitions => dev \in Documented(table)
    BY <2>1, DocumentedIs
  <2>3. dev \notin Partitions /\ pc' = "flash" => TriedInVain'
    BY <2>1 DEF TriedInVain, Behind
  <2> QED BY <1>1, <2>1, <2>2, <2>3, ChoiceTry
<1>3. CASE ~IsMountPoint(table, "update")
  <2>1. Skip("flash")
    BY <1>3 DEF TryUpdate
  <2>2. TriedInVain'
    BY <1>3, <2>1 DEF Skip, GoTo, TriedInVain, Behind
  <2> QED BY <1>1, <2>1, <2>2, ChoiceGoesOn DEF Skip
<1> QED BY <1>2, <1>3

LEMMA ChoiceBoot ==
  ASSUME ChoiceInv, RootInv', NEW at \in {"flash", "storage"},
         TryBootDrive(at, IF at = "flash" THEN "storage" ELSE "label")
  PROVE  ChoiceInv'
<1> DEFINE next == IF at = "flash" THEN "storage" ELSE "label"
           dev == Third(FindEntry(table, at).dev)
           Is == IsMountPoint(table, at) /\ EndsWithDigit(FindEntry(table, at).dev)
<1>1. /\ pc = at /\ pc \in Early /\ next \in {"flash", "storage", "label"}
      /\ TryBootDrive(at, next)
  BY DEF TryBootDrive, Early, InEEROMS
<1>2. ThirdBehind(table, at) = IF Is THEN {dev} ELSE {}
  BY ThirdAsDocumented DEF ChoiceInv
<1>3. /\ Is => \/ TryMount(dev, next)
               \/ GoTo(next) /\ fault' = TRUE /\ UNCHANGED <<mtab, table>>
      /\ ~Is => Skip(next)
  BY <1>1 DEF TryBootDrive
<1>4. UNCHANGED table
  BY <1>1 DEF TryBootDrive, TryMount, Skip
<1>5. ThirdBehind(table, at)' = ThirdBehind(table, at)
      /\ ThirdBehind(table, "flash")' = ThirdBehind(table, "flash")
      /\ Behind(table, "update")' = Behind(table, "update")
  BY <1>4 DEF ThirdBehind, Behind
<1>6. (next = "storage" /\ at = "flash") \/ (next = "label" /\ at = "storage")
  OBVIOUS
<1> HIDE DEF Is, dev, next
<1>7. ASSUME pc' = next, fault => fault', ThirdBehind(table, at) \cap Partitions = {}
      PROVE  TriedInVain'
  BY <1>1, <1>5, <1>6, <1>7 DEF TriedInVain, ChoiceInv
<1>8. CASE Is /\ TryMount(dev, next)
  <2>1. fault \/ Behind(table, "update") \cap Partitions = {}
    BY <1>1 DEF ChoiceInv, TriedInVain
  <2>2. fault \/ at = "flash" \/ ThirdBehind(table, "flash") \cap Partitions = {}
    BY <1>1 DEF ChoiceInv, TriedInVain
  <2>3. ThirdBehind(table, at) = {dev}
    BY <1>2, <1>8
  <2>4. dev \in Partitions => fault \/ dev \in Documented(table)
    BY <1>6, <2>1, <2>2, <2>3, DocumentedIs
  <2>5. (fault => fault')
    BY <1>8 DEF TryMount
  <2>6. ~fault' /\ dev \notin Partitions /\ pc' = next => TriedInVain'
    BY <1>7, <2>3, <2>5
  <2> QED BY <1>1, <1>8, <2>4, <2>6, ChoiceTry
<1>9. CASE Is /\ GoTo(next) /\ fault' = TRUE /\ UNCHANGED <<mtab, table>>
  <2>1. TriedInVain'
    BY <1>9 DEF TriedInVain
  <2> QED BY <1>1, <1>9, <2>1, ChoiceGoesOn
<1>10. CASE ~Is /\ Skip(next)
  <2>1. pc' = next /\ UNCHANGED <<mtab, table, fault>>
    BY <1>10 DEF Skip, GoTo
  <2>2. TriedInVain'
    BY <1>2, <1>7, <1>10, <2>1
  <2> QED BY <1>1, <2>1, <2>2, ChoiceGoesOn
<1> QED BY <1>3, <1>8, <1>9, <1>10

LEMMA ChoiceLabel == ChoiceInv /\ RootInv' /\ TryLabel => ChoiceInv'
<1> SUFFICES ASSUME ChoiceInv, RootInv', TryLabel PROVE ChoiceInv'
  OBVIOUS
<1>1. pc = "label" /\ pc \in Early /\ pc \in InEEROMS /\ UNCHANGED table
  BY DEF TryLabel, Early, InEEROMS
<1>2. ASSUME NEW dev \in Labelled, Put(target, "EEROMS", dev), pc' = "updateCheck",
             UNCHANGED fault
      PROVE  ChoiceInv'
  <2>1. fault \/ Documented(table) = Labelled
    BY <1>1, DocumentedIs DEF ChoiceInv, TriedInVain
  <2>2. /\ OneDigit(mtab') /\ OneDigit(table') /\ table' \in Seq(Entry)
        /\ TriedInVain' /\ EEROMSAsDocumented'
    BY <1>1, <1>2, <2>1, Devices, DocumentedMount
  <2> QED BY <1>2, <2>2 DEF ChoiceInv, InEEROMS
<1>3. CASE EEROMSFails /\ fault' = (fault \/ Labelled # {}) /\ UNCHANGED mtab
  <2>1. pc' = "returned" /\ (fault => fault')
    BY <1>3 DEF EEROMSFails, Return, GoTo
  <2>2. TriedInVain'
    BY <2>1 DEF TriedInVain
  <2> QED BY <1>1, <1>3, <2>1, <2>2, ChoiceGoesOn
<1> QED BY <1>1, <1>2, <1>3 DEF TryLabel, GoTo

LEMMA ChoicePrepare == ChoiceInv /\ RootInv' /\ Prepare => ChoiceInv'
<1> SUFFICES ASSUME ChoiceInv, RootInv', Prepare PROVE ChoiceInv'
  OBVIOUS
<1>1. pc = "context" /\ pc \in Early /\ UNCHANGED mtab /\ NoEEROMS /\ mtab \in Seq(Entry)
  BY DEF Prepare, Early, InEEROMS, ChoiceInv, RootInv, Typed
<1>2. CASE pc' = "update" /\ table' = mtab
  <2>1. TriedInVain' /\ EEROMSAsDocumented'
    BY <1>1, <1>2 DEF TriedInVain, EEROMSAsDocumented, NoEEROMS
  <2>2. OneDigit(mtab') /\ OneDigit(table') /\ NoEEROMS'
    BY <1>1, <1>2 DEF ChoiceInv, OneDigit, NoEEROMS
  <2> QED BY <1>1, <1>2, <2>1, <2>2 DEF ChoiceInv
<1>3. CASE fault' = TRUE /\ UNCHANGED table
  <2>1. TriedInVain'
    BY <1>3 DEF TriedInVain
  <2> QED BY <1>1, <1>3, <2>1, ChoiceGoesOn
<1> QED BY <1>2, <1>3 DEF Prepare, GoTo

LEMMA ChoiceNext == ChoiceInv /\ [Next]_vars => ChoiceInv'
<1> SUFFICES ASSUME ChoiceInv, [Next]_vars PROVE ChoiceInv'
  OBVIOUS
<1>1. RootInv'
  BY RootNext DEF ChoiceInv
<1>2. ASSUME UNCHANGED <<mtab, table>>, fault => fault', pc' \in Early => pc \in Early,
             pc' \notin {"flash", "storage", "label"}
      PROVE  ChoiceInv'
  <2>1. TriedInVain'
    BY <1>2 DEF TriedInVain
  <2> QED BY <1>1, <1>2, <2>1, ChoiceGoesOn
<1>3. ASSUME NEW by \in {"unit", "drive"}, pc \in Early, pc' = "mkdir",
             Put("roms", by, NoDevice), UNCHANGED <<table, fault>>
      PROVE  ChoiceInv'
  <2>1. TriedInVain'
    BY <1>3 DEF TriedInVain
  <2>2. "roms" \in Place \ {"flash", "storage"} /\ by \in Maker \ {"EEROMS"}
    BY DEF Place, Maker
  <2> QED BY <1>1, <1>3, <2>1, <2>2, Devices, ChoiceOther
<1>4. CASE Mkdir
  BY <1>2, <1>4 DEF Mkdir, GoTo, Return, Early
<1>5. CASE UnitStarted
  BY <1>3, <1>5 DEF UnitStarted, Step, GoTo, Early
<1>6. CASE UnitNotStarted
  BY <1>2, <1>6 DEF UnitNotStarted, Step, GoTo, Early
<1>7. CASE NextDrive
  <2>1. (fault => fault') /\ pc = "drives" /\ UNCHANGED <<mtab, table, pc>>
    BY <1>7 DEF NextDrive
  <2> QED BY <1>2, <2>1
<1>8. CASE BindDrive
  BY <1>3, <1>8 DEF BindDrive, Step, GoTo, Early
<1>9. CASE NoDriveLeft
  BY <1>2, <1>9 DEF NoDriveLeft, Step, GoTo, Early
<1>10. CASE EEROMSMkdir
  BY <1>2, <1>10 DEF EEROMSMkdir, EEROMSFails, Return, GoTo, Early, InEEROMS
<1>11. CASE CheckTarget
  BY <1>2, <1>11 DEF CheckTarget, GoTo, Early, InEEROMS
<1>12. CASE TryBootDrive("flash", "storage") \/ TryBootDrive("storage", "label")
  BY <1>1, <1>12, ChoiceBoot
<1>13. CASE UpdateCheck
  BY <1>2, <1>13 DEF UpdateCheck, Return, GoTo, Early, InEEROMS
<1>14. CASE UpdateBind
  <2>1. /\ pc = "updateBind" /\ pc' = "returned" /\ UNCHANGED table
        /\ mtab \in Seq(Entry) /\ IsMountPoint(mtab, target) /\ pc' \notin Early
    BY <1>14 DEF UpdateBind, Return, GoTo, ChoiceInv, RootInv, Typed, Sources, Early, InEEROMS
  <2>2. CASE UNCHANGED mtab /\ fault' = TRUE
    BY <1>2, <2>1, <2>2
  <2>3. CASE Put("update", "bind", OnTop(target).dev) /\ UNCHANGED fault
    <3>1. /\ "update" \in Place \ {"flash", "storage"} /\ "bind" \in Maker \ {"EEROMS"}
          /\ OnTop(target).dev \in AnyDevice
      BY <2>1, OnTopEntry DEF Place, Maker, Entry, AnyDevice
    <3>2. TriedInVain'
      BY <2>1 DEF TriedInVain
    <3> QED BY <1>1, <2>1, <2>3, <3>1, <3>2, ChoiceOther
  <2> QED BY <1>14, <2>2, <2>3 DEF UpdateBind
<1>15. CASE RootJobEnds
  <2>1. UNCHANGED <<pc, table, fault>>
    BY <1>15 DEF RootJobEnds
  <2>2. TriedInVain'
    BY <2>1 DEF ChoiceInv, TriedInVain, Behind, ThirdBehind
  <2>3. CASE UNCHANGED mtab
    BY <1>1, <2>1, <2>2, <2>3, ChoiceGoesOn
  <2>4. CASE Put("roms", "unit", NoDevice)
    <3>1. "roms" \in Place \ {"flash", "storage"} /\ "unit" \in Maker \ {"EEROMS"}
      BY DEF Place, Maker
    <3> QED BY <1>1, <2>1, <2>2, <2>4, <3>1, Devices, ChoiceOther
  <2> QED BY <1>15, <2>3, <2>4 DEF RootJobEnds
<1>16. CASE UNCHANGED vars
  <2>1. TriedInVain'
    BY <1>16 DEF vars, ChoiceInv, TriedInVain, Behind, ThirdBehind
  <2> QED BY <1>1, <1>16, <2>1, ChoiceGoesOn DEF vars
<1> QED BY <1>1, <1>4, <1>5, <1>6, <1>7, <1>8, <1>9, <1>10, <1>11, <1>12, <1>13, <1>14,
           <1>15, <1>16, ChoicePrepare, ChoiceUpdate, ChoiceLabel DEF Next, Program

LEMMA ChoiceInit ==
  ASSUME \A t \in Starts : OneDigit(t)
  PROVE  Init => ChoiceInv
<1> SUFFICES ASSUME Init PROVE ChoiceInv
  OBVIOUS
<1>1. RootInv /\ OneDigit(mtab) /\ table = <<>> /\ pc = "begin"
  BY RootInit DEF Init
<1>2. NoEEROMS
  BY StartsAssumption DEF Init, NoEEROMS
<1>3. OneDigit(table) /\ table \in Seq(Entry)
  BY <1>1 DEF OneDigit
<1> QED BY <1>1, <1>2, <1>3 DEF ChoiceInv, TriedInVain, EEROMSAsDocumented, NoEEROMS

(* When the names of the partitions of /flash and /storage end with one    *)
(* digit, EEROMS is mounted from the partition the README names, unless    *)
(* something failed that need not have (README.md:17-20,                   *)
(* eemount.c:254-314).  With two digits it is not: MCMountRootThird.       *)
THEOREM EEROMSIsTheDocumented ==
  ASSUME \A t \in Starts : OneDigit(t)
  PROVE  Spec => []EEROMSAsDocumented
<1>1. ChoiceInv => EEROMSAsDocumented
  BY DEF ChoiceInv
<1> QED BY <1>1, ChoiceInit, ChoiceNext, PTL DEF Spec
=============================================================================
