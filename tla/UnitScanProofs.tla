--------------------------- MODULE UnitScanProofs ---------------------------
(***************************************************************************)
(* What is proved of UnitScan for every directory and every AllocBase of   *)
(* at least two: the array of units is never overrun, and what the batch   *)
(* of units gets is sorted and has the right root, under the conditions    *)
(* ReadyForBatch names.                                                    *)
(***************************************************************************)
EXTENDS UnitScan, FunctionTheorems, SequenceTheorems, TLAPS

(* While the directory is read: an array grows only if it has two slots,   *)
(* layer 0 is that of the root unit and of unwritten slots, and root tells *)
(* where the root unit was written.                                        *)
Growing == alloc = 0 \/ alloc >= 2

LayerTells ==
  \A k \in DOMAIN units : units[k].layer = 0 <=> units[k].system \in {0, -1}

RootTracked ==
  /\ root = NoRoot => \A k \in DOMAIN units : units[k].system # 0
  /\ root # NoRoot => /\ units[root.slot].system = 0
                      /\ \A k \in DOMAIN units : units[k].system = 0 => k = root.slot

Reading == ret = "none" => LayerTells /\ RootTracked

ScanInv == TypeOK /\ SlotsFit /\ Growing /\ Reading /\ ReadyForBatch

Slot == Unit \cup {Unwritten}

-----------------------------------------------------------------------------

LEMMA ScanInit == Init => ScanInv
<1> SUFFICES ASSUME Init PROVE ScanInv
  OBVIOUS
<1>1. unread \subseteq Entry
  BY DirectoriesAssumption DEF Init
<1>2. units \in Seq(Slot) /\ Len(units) = 0 /\ DOMAIN units = {}
  BY EmptySeq DEF Init
<1>3. TypeOK
  BY <1>1, <1>2 DEF Init, TypeOK, Slot
<1>4. SlotsFit /\ Growing /\ ReadyForBatch
  BY <1>2 DEF Init, SlotsFit, Growing, ReadyForBatch
<1>5. Reading
  BY <1>2 DEF Init, Reading, LayerTells, RootTracked, NoRoot
<1> QED BY <1>3, <1>4, <1>5 DEF ScanInv

(* There is room for one slot more, wherever the array lies then. *)
LEMMA RoomMade ==
  ASSUME ScanInv, MakeRoom
  PROVE  /\ Len(units) + 1 <= alloc'
         /\ alloc' \in Nat /\ Growing'
         /\ block' \in Nat /\ block <= block'
<1>1. Len(units) \in Nat /\ alloc \in Nat /\ block \in Nat
  BY LenProperties DEF ScanInv, TypeOK
<1>2. Len(units) <= alloc /\ Growing
  BY DEF ScanInv, SlotsFit
<1>3. CASE alloc = 0
  BY <1>1, <1>2, <1>3, AllocAssumption DEF MakeRoom, Growing
<1>4. CASE alloc # 0 /\ IsFull
  <2>1. alloc >= 2 /\ alloc' = (alloc * 3) \div 2 /\ block' \in {block, block + 1}
    BY <1>1, <1>2, <1>4 DEF MakeRoom, Growing
  <2>2. (alloc * 3) \div 2 \in Nat /\ (alloc * 3) \div 2 >= alloc + 1
    BY <1>1, <2>1
  <2> QED BY <1>1, <1>2, <2>1, <2>2 DEF Growing
<1>5. CASE alloc # 0 /\ ~IsFull
  BY <1>1, <1>2, <1>5 DEF MakeRoom, IsFull, Growing
<1> QED BY <1>3, <1>4, <1>5

(* What an appended slot leaves as it was. *)
LEMMA SlotAppended ==
  ASSUME units \in Seq(Slot), NEW u \in Slot, units' = Append(units, u)
  PROVE  /\ units' \in Seq(Slot)
         /\ Len(units) \in Nat /\ Len(units') = Len(units) + 1
         /\ DOMAIN units = 1..Len(units)
         /\ DOMAIN units' = DOMAIN units \cup {Len(units) + 1}
         /\ Len(units) + 1 \notin DOMAIN units
         /\ units'[Len(units) + 1] = u
         /\ \A k \in DOMAIN units : units'[k] = units[k]
<1>1. Len(units) \in Nat /\ DOMAIN units = 1..Len(units)
  BY LenProperties
<1>2. /\ units' \in Seq(Slot)
      /\ Len(units') = Len(units) + 1
      /\ \A k \in 1..Len(units) : units'[k] = units[k]
      /\ units'[Len(units) + 1] = u
  BY AppendProperties
<1>3. DOMAIN units' = 1..(Len(units) + 1)
  BY <1>2, LenProperties
<1> QED BY <1>1, <1>2, <1>3

LEMMA OmitKeeps ==
  ASSUME ScanInv, ret = "none", NEW e \in Entry, Omit(e), unread' \subseteq Entry
  PROVE  ScanInv'
<1>1. units \in Seq(Slot) /\ Unwritten \in Slot
  BY DEF ScanInv, TypeOK, Slot
<1>2. MakeRoom /\ units' = Append(units, Unwritten) /\ UNCHANGED <<root, freed, ret>>
  BY DEF Omit
<1>3. TypeOK'
  BY <1>1, <1>2, SlotAppended, RoomMade DEF ScanInv, TypeOK, Slot, NoRoot
<1>4. SlotsFit' /\ Growing'
  BY <1>1, <1>2, SlotAppended, RoomMade DEF SlotsFit
<1>5. Unwritten.system = -1 /\ Unwritten.layer = 0
  BY DEF Unwritten
<1>6. Reading'
  <2>1. LayerTells /\ RootTracked
    BY DEF ScanInv, Reading
  <2>2. LayerTells'
    BY <1>1, <1>2, <1>5, <2>1, SlotAppended DEF LayerTells
  <2>3. root # NoRoot => root.slot \in DOMAIN units
    BY DEF ScanInv, TypeOK
  <2>4. RootTracked'
    BY <1>1, <1>2, <1>5, <2>1, <2>3, SlotAppended DEF RootTracked, NoRoot
  <2> QED BY <2>2, <2>4 DEF Reading
<1>7. ReadyForBatch'
  BY <1>2 DEF ReadyForBatch
<1> QED BY <1>3, <1>4, <1>6, <1>7 DEF ScanInv

LEMMA TakeKeeps ==
  ASSUME ScanInv, ret = "none", NEW e \in Entry, Take(e), unread' \subseteq Entry
  PROVE  ScanInv'
<1> DEFINE u == UnitOf(e)
<1>1. /\ units \in Seq(Slot) /\ u \in Slot
      /\ u.system = e.system /\ e.system \in Nat
      /\ u.layer = 0 <=> e.system = 0
  BY DEF ScanInv, TypeOK, Slot, UnitOf, Unit, Entry
<1>2. /\ MakeRoom /\ units' = Append(units, u) /\ UNCHANGED <<freed, ret>>
      /\ e.system = 0 => root = NoRoot
      /\ root' = IF e.system = 0
                 THEN [block |-> block', slot |-> Len(units) + 1] ELSE root
  BY DEF Take, IsOmitted
<1> HIDE DEF u
<1>3. /\ units' \in Seq(Slot)
      /\ Len(units) \in Nat /\ Len(units') = Len(units) + 1
      /\ DOMAIN units = 1..Len(units)
      /\ DOMAIN units' = DOMAIN units \cup {Len(units) + 1}
      /\ Len(units) + 1 \notin DOMAIN units
      /\ units'[Len(units) + 1] = u
      /\ \A k \in DOMAIN units : units'[k] = units[k]
  BY <1>1, <1>2, SlotAppended
<1>4. TypeOK'
  BY <1>2, <1>3, RoomMade DEF ScanInv, TypeOK, Slot, NoRoot
<1>5. SlotsFit' /\ Growing'
  BY <1>2, <1>3, RoomMade DEF SlotsFit
<1>6. Reading'
  <2>1. LayerTells /\ RootTracked
    BY DEF ScanInv, Reading
  <2>2. LayerTells'
    BY <1>1, <1>3, <2>1 DEF LayerTells
  <2>3. root # NoRoot => root.slot \in DOMAIN units
    BY DEF ScanInv, TypeOK
  <2>4. CASE e.system = 0
    <3>1. root' # NoRoot /\ root'.slot = Len(units) + 1
      BY <1>2, <1>3, <2>4 DEF NoRoot
    <3> QED BY <1>1, <1>2, <1>3, <2>1, <2>2, <2>4, <3>1 DEF RootTracked, Reading
  <2>5. CASE e.system # 0
    BY <1>1, <1>2, <1>3, <2>1, <2>2, <2>3, <2>5 DEF RootTracked, Reading, NoRoot
  <2> QED BY <2>4, <2>5
<1>7. ReadyForBatch'
  BY <1>2 DEF ReadyForBatch
<1> QED BY <1>4, <1>5, <1>6, <1>7 DEF ScanInv

LEMMA ReadEntryKeeps == ScanInv /\ ReadEntry => ScanInv'
<1> SUFFICES ASSUME ScanInv, ReadEntry PROVE ScanInv'
  OBVIOUS
<1>1. PICK e \in unread :
        /\ unread' = unread \ {e}
        /\ PassOver(e) \/ Omit(e) \/ Take(e) \/ OutOfMemory(e)
  BY DEF ReadEntry
<1>2. ret = "none" /\ e \in Entry /\ unread' \subseteq Entry
  BY <1>1 DEF ReadEntry, ScanInv, TypeOK
<1>3. CASE PassOver(e)
  BY <1>2, <1>3 DEF PassOver, ScanInv, TypeOK, SlotsFit, Growing, Reading, LayerTells,
                    RootTracked, ReadyForBatch
<1>4. CASE OutOfMemory(e)
  <2>1. DOMAIN units = 1..Len(units)
    BY LenProperties DEF ScanInv, TypeOK
  <2> QED BY <1>2, <1>4, <2>1 DEF OutOfMemory, ScanInv, TypeOK, SlotsFit, Growing, Reading,
                                  ReadyForBatch
<1> QED BY <1>1, <1>2, <1>3, <1>4, OmitKeeps, TakeKeeps

-----------------------------------------------------------------------------
(* The end of the directory *)

(* A sorted array has the slots it had, each once. *)
LEMMA SortingsPermute ==
  ASSUME NEW us \in Seq(Slot), NEW t \in Sortings(us)
  PROVE  /\ t \in Seq(Slot) /\ Len(t) = Len(us) /\ DOMAIN t = DOMAIN us
         /\ \E p \in Bijection(DOMAIN us, DOMAIN us) : \A k \in DOMAIN us : t[k] = us[p[k]]
<1>1. PICK p \in Bijection(DOMAIN us, DOMAIN us) : t = [k \in DOMAIN us |-> us[p[k]]]
  BY DEF Sortings
<1>2. p \in [DOMAIN us -> DOMAIN us]
  BY <1>1 DEF Bijection, Injection
<1>3. Len(us) \in Nat /\ DOMAIN us = 1..Len(us) /\ us \in [1..Len(us) -> Slot]
  BY LenProperties
<1>4. t \in [1..Len(us) -> Slot]
  BY <1>1, <1>2, <1>3
<1>5. t \in Seq(Slot) /\ Len(t) = Len(us)
  BY <1>3, <1>4, SeqDef, LenProperties
<1> QED BY <1>1, <1>3, <1>4, <1>5

LEMMA SortKeeps ==
  ASSUME ScanInv, ret = "none", Len(units) > 1, Sort, UNCHANGED <<unread, alloc, block, freed>>
  PROVE  ScanInv'
<1>1. units \in Seq(Slot) /\ units' \in Sortings(units) /\ root' \in Roots(units')
  BY DEF Sort, ScanInv, TypeOK, Slot
<1>2. /\ units' \in Seq(Slot) /\ Len(units') = Len(units) /\ DOMAIN units' = DOMAIN units
  BY <1>1, SortingsPermute
<1>3. PICK p \in Bijection(DOMAIN units, DOMAIN units) :
        \A k \in DOMAIN units : units'[k] = units[p[k]]
  BY <1>1, SortingsPermute
<1>4. ret' \in {"helper", "crashed"}
  BY DEF Sort
<1>5. root = NoRoot \/ (root.block \in 0..block /\ root.slot \in DOMAIN units)
  BY DEF ScanInv, TypeOK
<1>6. root' = NoRoot \/ (root'.block \in 0..block /\ root'.slot \in DOMAIN units)
  <2>1. \A f \in Found(units') : f.block = block /\ f.slot \in DOMAIN units
    BY <1>2 DEF Found
  <2>2. root' \in {NoRoot, root} \cup Found(units')
    BY <1>1 DEF Roots
  <2> QED BY <1>5, <2>1, <2>2 DEF ScanInv, TypeOK
<1>7. TypeOK' /\ SlotsFit' /\ Growing' /\ Reading'
  BY <1>2, <1>4, <1>6 DEF ScanInv, TypeOK, SlotsFit, Growing, Reading, Slot
<1>8. ReadyForBatch'
  <2> SUFFICES ASSUME Unwritten \notin ToSet(units')
               PROVE  /\ \A j, k \in DOMAIN units' : j < k => units'[j].system <= units'[k].system
                      /\ root'.block = block \/ root' = NoRoot =>
                           \A k \in DOMAIN units' : units'[k].layer = 0 <=> k = root'.slot
    BY DEF ReadyForBatch
  <2>1. /\ \A k \in DOMAIN units : p[k] \in DOMAIN units
        /\ \A j, k \in DOMAIN units : p[j] = p[k] => j = k
        /\ \A k \in DOMAIN units : \E j \in DOMAIN units : p[j] = k
    BY <1>3 DEF Bijection, Injection, Surjection, IsInjective
  <2>2. \A k \in DOMAIN units : units'[k] # Unwritten
    BY <1>2 DEF ToSet
  <2>3. \A k \in DOMAIN units : units[k] # Unwritten
    <3> TAKE k \in DOMAIN units
    <3>1. PICK j \in DOMAIN units : p[j] = k
      BY <2>1
    <3>2. units'[j] = units[k]
      BY <1>3, <3>1
    <3> QED BY <2>2, <3>2
  <2>4. \A k \in DOMAIN units : units[k] \in Unit /\ units[k].system \in Nat
    BY <1>1, <2>3, LenProperties, ElementOfSeq DEF Slot, Unit
  <2>5. LayerTells /\ RootTracked
    BY DEF ScanInv, Reading
  <2>6. \A j, k \in DOMAIN units' : j < k => units'[j].system <= units'[k].system
    <3>1. Unwritten \notin ToSet(units)
      BY <2>3 DEF ToSet
    <3>2. ASSUME NEW t \in Sortings(units)
          PROVE  \A j, k \in DOMAIN t : j < k => t[j].system <= t[k].system
      <4>1. \/ Unwritten \in ToSet(units)
            \/ \A j, k \in DOMAIN t : j < k => t[j].system <= t[k].system
        BY DEF Sortings
      <4> QED BY <3>1, <4>1
    <3> QED BY <1>1, <3>2
  <2>7. \A k \in DOMAIN units' : units'[k].layer = 0 <=> units'[k].system = 0
    <3> TAKE k \in DOMAIN units'
    <3>1. p[k] \in DOMAIN units /\ units'[k] = units[p[k]]
      BY <1>2, <1>3, <2>1
    <3> QED BY <2>4, <2>5, <3>1 DEF LayerTells
  <2>8. \A j, k \in DOMAIN units' : units'[j].system = 0 /\ units'[k].system = 0 => j = k
    <3>1. root = NoRoot => \A k \in DOMAIN units : units[k].system # 0
      BY <2>5 DEF RootTracked
    <3>2. \A j, k \in DOMAIN units : units[j].system = 0 /\ units[k].system = 0 => j = k
      BY <2>5, <3>1 DEF RootTracked
    <3> SUFFICES ASSUME NEW j \in DOMAIN units, NEW k \in DOMAIN units,
                        units'[j].system = 0, units'[k].system = 0
                 PROVE  j = k
      BY <1>2
    <3>3. units[p[j]].system = 0 /\ units[p[k]].system = 0
      BY <1>3
    <3>4. p[j] = p[k]
      BY <2>1, <3>2, <3>3
    <3> QED BY <2>1, <3>4
  <2>9. CASE root = NoRoot
    <3>1. root' = NoRoot
      BY <1>1, <2>9 DEF Roots
    <3>2. \A k \in DOMAIN units' : units'[k].system # 0 /\ k # 0
      BY <1>2, <1>3, <2>1, <2>5, <2>9, LenProperties DEF RootTracked
    <3> QED BY <2>6, <2>7, <3>1, <3>2 DEF NoRoot
  <2>10. CASE root # NoRoot
    <3>1. root' \in {root} \cup Found(units')
      BY <1>1, <2>10 DEF Roots
    <3>2. ASSUME root' \in Found(units')
          PROVE  \A k \in DOMAIN units' : units'[k].system = 0 <=> k = root'.slot
      <4>1. root'.slot \in DOMAIN units' /\ units'[root'.slot].system <= 0
        BY <3>2 DEF Found
      <4>2. units'[root'.slot].system = 0
        <5> DEFINE s == root'.slot
        <5>1. s \in DOMAIN units /\ p[s] \in DOMAIN units /\ units'[s] = units[p[s]]
          BY <1>2, <1>3, <2>1, <4>1
        <5>2. units[p[s]].system \in Nat
          BY <2>4, <5>1
        <5> QED BY <4>1, <5>1, <5>2
      <4> QED BY <2>8, <4>1, <4>2
    <3>3. ASSUME root' \notin Found(units'), root'.block = block
          PROVE  \A k \in DOMAIN units' : units'[k].system = 0 <=> k = root'.slot
      <4>1. root' = root /\ root.block = block /\ root.slot \in DOMAIN units
        BY <1>5, <2>10, <3>1, <3>3
      <4>2. units'[root.slot].system = 0
        BY <1>1, <1>2, <2>2, <2>10, <3>3, <4>1 DEF Roots
      <4> QED BY <1>2, <2>8, <4>1, <4>2
    <3>4. root' # NoRoot
      BY <1>2, <2>10, <3>1, LenProperties DEF Found, NoRoot
    <3> QED BY <2>6, <2>7, <3>2, <3>3, <3>4
  <2> QED BY <2>9, <2>10
<1> QED BY <1>7, <1>8 DEF ScanInv

LEMMA FinishKeeps == ScanInv /\ Finish => ScanInv'
<1> SUFFICES ASSUME ScanInv, Finish PROVE ScanInv'
  OBVIOUS
<1>1. ret = "none" /\ UNCHANGED <<unread, alloc, block, freed>>
  BY DEF Finish
<1>2. CASE Len(units) > 1 /\ Sort
  BY <1>1, <1>2, SortKeeps
<1>3. CASE UNCHANGED <<units, root>> /\ ret' = "null"
  BY <1>1, <1>3 DEF ScanInv, TypeOK, SlotsFit, Growing, Reading, ReadyForBatch
<1>4. CASE UNCHANGED <<units, root>> /\ ret' = "helper" /\ Len(units) = 1
  <2>1. TypeOK' /\ SlotsFit' /\ Growing' /\ Reading'
    BY <1>1, <1>4 DEF ScanInv, TypeOK, SlotsFit, Growing, Reading
  <2>2. units \in Seq(Slot) /\ DOMAIN units = {1} /\ LayerTells /\ RootTracked
    BY <1>1, <1>4, LenProperties DEF ScanInv, TypeOK, Slot, Reading
  <2>3. units[1] = Unwritten \/ units[1].system \in Nat
    <3>1. units[1] \in Slot
      BY <1>4, <2>2, ElementOfSeq
    <3> QED BY <3>1 DEF Slot, Unit
  <2>4. ReadyForBatch'
    <3> SUFFICES ASSUME Unwritten \notin ToSet(units)
                 PROVE  /\ \A j, k \in DOMAIN units : j < k => units[j].system <= units[k].system
                        /\ \A k \in DOMAIN units : units[k].layer = 0 <=> k = root.slot
      BY <1>1, <1>4 DEF ReadyForBatch
    <3>1. units[1] # Unwritten
      BY <2>2 DEF ToSet
    <3>2. units[1].layer = 0 <=> units[1].system = 0
      BY <2>2, <2>3, <3>1 DEF LayerTells
    <3>3. units[1].system = 0 <=> 1 = root.slot
      BY <2>2 DEF RootTracked, NoRoot, ScanInv, TypeOK
    <3> QED BY <2>2, <3>2, <3>3
  <2> QED BY <2>1, <2>4 DEF ScanInv
<1> QED BY <1>2, <1>3, <1>4 DEF Finish

(* The invariant of systemd_get_units.                                     *)
THEOREM ScanInvariant == Spec => []ScanInv
<1>1. ScanInv /\ [Next]_vars => ScanInv'
  <2> SUFFICES ASSUME ScanInv, [Next]_vars PROVE ScanInv'
    OBVIOUS
  <2>1. CASE FreeHelper
    BY <2>1 DEF FreeHelper, ScanInv, TypeOK, SlotsFit, Growing, Reading, ReadyForBatch
  <2>2. CASE UNCHANGED vars
    BY <2>2 DEF vars, ScanInv, TypeOK, SlotsFit, Growing, Reading, LayerTells, RootTracked,
                ReadyForBatch
  <2> QED BY <2>1, <2>2, ReadEntryKeeps, FinishKeeps DEF Next
<1> QED BY <1>1, ScanInit, PTL DEF Spec

(* systemd_get_units writes no unit past its array, however many entries   *)
(* there are and in whatever order they are read (systemd.c:116-138).      *)
THEOREM UnitSlotsFit == Spec => []SlotsFit
<1>1. ScanInv => SlotsFit
  BY DEF ScanInv
<1> QED BY <1>1, ScanInvariant, PTL

(* The batch of units gets the units in order and the right root, if no    *)
(* entry was omitted and the array did not move (systemd.c:156-203).       *)
THEOREM UnitsReady == Spec => []ReadyForBatch
<1>1. ScanInv => ReadyForBatch
  BY DEF ScanInv
<1> QED BY <1>1, ScanInvariant, PTL
=============================================================================
