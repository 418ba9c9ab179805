--------------------------- MODULE DriveScanProofs --------------------------
(***************************************************************************)
(* What is proved of DriveScan for every set of directories, every mark    *)
(* and every AllocBase of at least two: the arrays of drives and systems   *)
(* are never overrun, a drive provides what its mark names, and no drive   *)
(* that can be used is left out but for lack of memory, for every number   *)
(* of retries but the largest int.                                         *)
(***************************************************************************)
EXTENDS DriveScan, FunctionTheorems, SequenceTheorems, TLAPS

Returns == pc = "returned" <=> ret # "none"

(* An array grows only if it has two slots. *)
Fits ==
  /\ Len(drives) <= alloc /\ (alloc = 0 \/ alloc >= 2)
  /\ \A k \in DOMAIN drives :
       /\ Len(drives[k].systems) <= drives[k].alloc
       /\ drives[k].alloc = 0 \/ drives[k].alloc >= 2

IsFound(e) == \E k \in DOMAIN drives : drives[k].of = e

(* What a try has seen is in the array, unless there was no memory for it; *)
(* a try that is over with nothing found has seen all there was when it    *)
(* began.                                                                  *)
Seeing ==
  /\ pc = "try" => drives = <<>> /\ (try > 0 => must \subseteq seen)
  /\ drives # <<>> => seen # {}
  /\ ret # "freed" /\ 0 \notin faulty => \A e \in seen \ skipped : IsUsable(e) => IsFound(e)

FitInv == TypeOK /\ Fits

DriveInv == FitInv /\ Returns /\ limit >= 1 /\ Seeing /\ UsableFound

-----------------------------------------------------------------------------
(* Drives and their order *)

LEMMA SortedDrives ==
  ASSUME drives \in Seq(Drive), NEW key, NEW t \in Sortings(drives, key)
  PROVE  /\ t \in Seq(Drive) /\ DOMAIN t = DOMAIN drives /\ Len(t) = Len(drives)
         /\ \A k \in DOMAIN t : \E j \in DOMAIN drives : t[k] = drives[j]
         /\ \A j \in DOMAIN drives : \E k \in DOMAIN t : t[k] = drives[j]
<1>1. PICK p \in Bijection(DOMAIN drives, DOMAIN drives) :
        t = [k \in DOMAIN drives |-> drives[p[k]]]
  BY DEF Sortings
<1>2. /\ p \in [DOMAIN drives -> DOMAIN drives]
      /\ \A j \in DOMAIN drives : \E k \in DOMAIN drives : p[k] = j
  BY <1>1 DEF Bijection, Surjection
<1>3. Len(drives) \in Nat /\ DOMAIN drives = 1..Len(drives) /\ drives \in [1..Len(drives) -> Drive]
  BY LenProperties
<1>4. t \in [1..Len(drives) -> Drive]
  BY <1>1, <1>2, <1>3
<1>5. t \in Seq(Drive)
  BY <1>3, <1>4, SeqDef
<1>6. DOMAIN t = DOMAIN drives /\ Len(t) = Len(drives)
  BY <1>3, <1>4, <1>5, LenProperties
<1> QED BY <1>1, <1>2, <1>5, <1>6

LEMMA SortedSystems ==
  ASSUME NEW s \in Seq(Nat), NEW t \in Sortings(s, s)
  PROVE  t \in Seq(Nat) /\ Len(t) = Len(s)
<1>1. PICK p \in Bijection(DOMAIN s, DOMAIN s) : t = [k \in DOMAIN s |-> s[p[k]]]
  BY DEF Sortings
<1>2. p \in [DOMAIN s -> DOMAIN s]
  BY <1>1 DEF Bijection, Surjection
<1>3. Len(s) \in Nat /\ DOMAIN s = 1..Len(s) /\ s \in [1..Len(s) -> Nat]
  BY LenProperties
<1>4. t \in [1..Len(s) -> Nat]
  BY <1>1, <1>2, <1>3
<1> QED BY <1>3, <1>4, SeqDef, LenProperties

(* The drive whose mark is read. *)
LEMMA LastDrive ==
  ASSUME TypeOK, pc = "mark"
  PROVE  /\ Last1 \in DOMAIN drives /\ drives[Last1] \in Drive
         /\ Found \in Seq(Nat) /\ Mark \in Seq(Line) /\ line \in Nat \ {0}
<1>1. drives \in Seq(Drive) /\ drives # <<>>
  BY DEF TypeOK
<1>2. Last1 \in DOMAIN drives /\ drives[Last1] \in Drive
  BY <1>1, EmptySeq, LenProperties DEF Last1
<1>3. drives[Last1].of \in Entry
  BY <1>2, EntriesAssumption DEF Drive
<1> QED BY <1>2, <1>3 DEF Found, Mark, Drive, Entry, TypeOK

(* A drive that changes in its systems only is the same drive. *)
LEMMA DriveChanged ==
  ASSUME TypeOK, pc = "mark", NEW v \in Drive, v.of = drives[Last1].of,
         drives' = [drives EXCEPT ![Last1] = v]
  PROVE  /\ drives' \in Seq(Drive) /\ drives' # <<>>
         /\ DOMAIN drives' = DOMAIN drives /\ Len(drives') = Len(drives)
         /\ \A k \in DOMAIN drives : drives'[k] = IF k = Last1 THEN v ELSE drives[k]
         /\ \A k \in DOMAIN drives : drives'[k].of = drives[k].of
<1>1. Last1 \in DOMAIN drives /\ drives \in Seq(Drive)
  BY LastDrive DEF TypeOK
<1>2. DOMAIN drives = 1..Len(drives) /\ Len(drives) \in Nat
  BY <1>1, LenProperties
<1>3. drives' \in Seq(Drive) /\ Len(drives') = Len(drives)
  BY <1>1, <1>2, ExceptSeq
<1>4. /\ DOMAIN drives' = DOMAIN drives
      /\ \A k \in DOMAIN drives : drives'[k] = IF k = Last1 THEN v ELSE drives[k]
  BY <1>1
<1>5. drives' # <<>>
  BY <1>1, <1>4
<1> QED BY <1>3, <1>4, <1>5

(* Room is made for one system more. *)
LEMMA RoomFits ==
  ASSUME NEW count \in Nat, NEW size \in Nat, count <= size, size = 0 \/ size >= 2
  PROVE  /\ Room(count + 1, size) \in Nat
         /\ count + 1 <= Room(count + 1, size) /\ Room(count + 1, size) >= 2
<1>1. CASE count + 1 <= size
  BY <1>1 DEF Room
<1>2. CASE count = size /\ size = 0
  BY <1>2, AllocAssumption DEF Room
<1>3. CASE count = size /\ size >= 2
  <2>1. (size * 3) \div 2 \in Nat /\ (size * 3) \div 2 >= size + 1
    BY <1>3
  <2>2. Room(count + 1, size) = (size * 3) \div 2
    <3>1. ~(count + 1 <= size) /\ size # 0
      BY <1>3
    <3> QED BY <3>1, Zenon DEF Room
  <2> QED BY <1>3, <2>1, <2>2
<1> QED BY <1>1, <1>2, <1>3

-----------------------------------------------------------------------------
(* The arrays *)

LEMMA InitFit == Init => FitInv
<1> SUFFICES ASSUME Init PROVE FitInv
  OBVIOUS
<1>1. limit \in Int
  BY RetriesAssumption DEF Init, Limits
<1>2. drives \in Seq(Drive) /\ DOMAIN drives = {} /\ Len(drives) = 0
  BY EmptySeq DEF Init
<1> QED BY <1>1, <1>2 DEF Init, FitInv, TypeOK, Fits

LEMMA LookAtFit == FitInv /\ LookAt => FitInv'
<1> SUFFICES ASSUME FitInv, LookAt PROVE FitInv'
  OBVIOUS
<1>1. PICK e \in plugged \ seen : seen' = seen \cup {e} /\ (Skip(e) \/ OpenMark(e))
  BY DEF LookAt
<1>2. /\ pc = "dir" /\ UNCHANGED <<plugged, target, limit, try, must>>
      /\ e \in Entries /\ seen' \subseteq plugged /\ skipped' \subseteq seen'
  BY <1>1 DEF LookAt, Skip, CheckFails, OpenMark, FitInv, TypeOK, Configuration
<1>3. CASE /\ UNCHANGED <<drives, alloc, line>> /\ pc' \in {"dir", "returned"}
           /\ ret' \in {"none", "helper", "freed", "null"}
  BY <1>2, <1>3 DEF FitInv, TypeOK, Fits
<1>4. CASE /\ drives' = Append(drives, NewDrive(e)) /\ alloc' = Room(Len(drives) + 1, alloc)
           /\ pc' = "mark" /\ line' = 1 /\ UNCHANGED ret
  <2>1. /\ drives \in Seq(Drive) /\ NewDrive(e) \in Drive
        /\ Len(NewDrive(e).systems) = 0 /\ NewDrive(e).alloc = 0
    BY <1>2, EmptySeq DEF NewDrive, Drive, FitInv, TypeOK
  <2>2. /\ drives' \in Seq(Drive) /\ drives' # <<>>
        /\ DOMAIN drives' = DOMAIN drives \cup {Len(drives) + 1}
        /\ drives'[Len(drives) + 1] = NewDrive(e)
        /\ \A k \in DOMAIN drives : drives'[k] = drives[k]
        /\ Len(drives) \in Nat /\ Len(drives') = Len(drives) + 1
    BY <1>4, <2>1, AppendProperties, LenProperties
  <2>3. alloc' \in Nat /\ Len(drives') <= alloc' /\ alloc' >= 2
    BY <1>4, <2>2, RoomFits DEF FitInv, TypeOK, Fits
  <2>4. Fits'
    <3> SUFFICES ASSUME NEW k \in DOMAIN drives'
                 PROVE  /\ Len(drives'[k].systems) <= drives'[k].alloc
                        /\ drives'[k].alloc = 0 \/ drives'[k].alloc >= 2
      BY <2>3 DEF Fits
    <3>1. CASE k \in DOMAIN drives
      BY <2>2, <3>1 DEF FitInv, Fits
    <3>2. CASE k = Len(drives) + 1
      BY <2>1, <2>2, <3>2
    <3> QED BY <2>2, <3>1, <3>2
  <2> QED BY <1>2, <1>4, <2>2, <2>3, <2>4 DEF FitInv, TypeOK
<1> QED BY <1>1, <1>2, <1>3, <1>4 DEF Skip, OpenMark, Return, FitInv, TypeOK

LEMMA EndTryFit == FitInv /\ EndTry => FitInv'
<1> SUFFICES ASSUME FitInv, EndTry PROVE FitInv'
  OBVIOUS
<1>1. CASE drives = <<>>
  BY <1>1 DEF EndTry, NextTry, Configuration, FitInv, TypeOK, Fits
<1>2. CASE drives # <<>>
  <2>1. /\ drives' \in Seq(Drive)
        /\ \A k \in DOMAIN drives' : \E j \in DOMAIN drives : drives'[k] = drives[j]
        /\ Len(drives') = Len(drives) /\ alloc' = alloc
    <3>1. drives' \in Sortings(drives, [k \in DOMAIN drives |-> drives[k].of.name])
      BY <1>2 DEF EndTry, NextTry
    <3> QED BY <1>2, <3>1, SortedDrives DEF EndTry, NextTry, FitInv, TypeOK
  <2>2. Fits'
    BY <2>1 DEF FitInv, Fits
  <2> QED BY <1>2, <2>1, <2>2 DEF EndTry, NextTry, Return, Configuration, FitInv, TypeOK
<1> QED BY <1>1, <1>2

(* A step of drive_scan leaves the drives what they are; it changes the    *)
(* systems of the last one, if any.                                        *)
LEMMA ScanMarkFit ==
  ASSUME FitInv, ScanMark
  PROVE  /\ FitInv'
         /\ DOMAIN drives' = DOMAIN drives
         /\ \A k \in DOMAIN drives : drives'[k].of = drives[k].of
<1> DEFINE v == drives[Last1]
<1>1. /\ pc = "mark" /\ pc' \in {"mark", "dir"} /\ line' \in Nat \ {0}
      /\ UNCHANGED <<plugged, target, limit, try, must, seen, alloc, ret, skipped>>
  <2>1. pc = "mark" /\ line \in Nat \ {0}
    BY DEF ScanMark, FitInv, TypeOK
  <2>2. ReadOn \/ Close
    BY DEF ScanMark, IgnoreLine, MkdirFails, AddSystem, NoMemory, EndOfMark
  <2>3. UNCHANGED <<plugged, target, limit, try, must, seen, alloc, ret, skipped>>
    BY DEF ScanMark, Configuration
  <2> QED BY <2>1, <2>2, <2>3 DEF ReadOn, Close
<1>2. /\ Last1 \in DOMAIN drives /\ v \in Drive /\ Found = v.systems /\ Found \in Seq(Nat)
      /\ Len(Found) \in Nat /\ drives \in Seq(Drive)
      /\ Len(Found) <= v.alloc /\ (v.alloc = 0 \/ v.alloc >= 2)
  BY <1>1, LastDrive, LenProperties DEF FitInv, Found, Fits, TypeOK
<1>3. ASSUME NEW w \in Drive, w.of = v.of, drives' = [drives EXCEPT ![Last1] = w],
             Len(w.systems) <= w.alloc, w.alloc = 0 \/ w.alloc >= 2
      PROVE  /\ FitInv'
             /\ DOMAIN drives' = DOMAIN drives
             /\ \A k \in DOMAIN drives : drives'[k].of = drives[k].of
  <2>1. /\ drives' \in Seq(Drive) /\ drives' # <<>>
        /\ DOMAIN drives' = DOMAIN drives /\ Len(drives') = Len(drives)
        /\ \A k \in DOMAIN drives : drives'[k] = IF k = Last1 THEN w ELSE drives[k]
        /\ \A k \in DOMAIN drives : drives'[k].of = drives[k].of
    BY <1>1, <1>3, DriveChanged DEF FitInv
  <2>2. Fits'
    BY <1>1, <1>3, <2>1 DEF FitInv, Fits
  <2> QED BY <1>1, <2>1, <2>2 DEF FitInv, TypeOK
<1>4. CASE UNCHANGED drives
  BY <1>1, <1>4 DEF FitInv, TypeOK, Fits
<1>5. CASE AddSystem
  <2> DEFINE w == [v EXCEPT !.systems = Append(@, Mark[line].system),
                            !.alloc = Room(Len(Found) + 1, @)]
  <2>1. Mark[line].system \in Nat
    <3>1. line \in 1..Len(Mark)
      <4>1. Mark \in Seq(Line) /\ line \in Nat \ {0} /\ line <= Len(Mark)
        BY <1>1, <1>5, LastDrive DEF AddSystem, FitInv
      <4>2. Len(Mark) \in Nat
        BY <4>1, LenProperties
      <4> QED BY <4>1, <4>2
    <3>2. Mark[line] \in Line
      BY <1>1, <3>1, LastDrive, ElementOfSeq DEF FitInv
    <3> QED BY <3>2 DEF Line
  <2>2. /\ Append(Found, Mark[line].system) \in Seq(Nat)
        /\ Len(Append(Found, Mark[line].system)) = Len(Found) + 1
    BY <1>2, <2>1, AppendProperties
  <2>3. v.alloc \in Nat
    BY <1>2 DEF Drive
  <2>4. /\ Room(Len(Found) + 1, v.alloc) \in Nat
        /\ Len(Found) + 1 <= Room(Len(Found) + 1, v.alloc)
        /\ Room(Len(Found) + 1, v.alloc) >= 2
    BY <1>2, <2>3, RoomFits
  <2>5. w \in Drive /\ w.of = v.of /\ Len(w.systems) <= w.alloc /\ w.alloc >= 2
    BY <1>2, <2>2, <2>4 DEF Drive
  <2>6. drives' = [drives EXCEPT ![Last1] = w]
    BY <1>2, <1>5 DEF AddSystem
  <2> QED BY <1>3, <2>5, <2>6
<1>6. CASE NoMemory
  <2>1. PICK dangling \in BOOLEAN : drives' = [drives EXCEPT ![Last1].dangling = dangling]
    BY <1>6 DEF NoMemory
  <2> DEFINE w == [v EXCEPT !.dangling = dangling]
  <2>2. w \in Drive /\ w.of = v.of /\ w.systems = v.systems /\ w.alloc = v.alloc
    BY <1>2 DEF Drive
  <2>3. drives' = [drives EXCEPT ![Last1] = w]
    BY <1>2, <2>1
  <2> QED BY <1>2, <1>3, <2>2, <2>3
<1>7. CASE EndOfMark
  <2>1. PICK sorted \in Sortings(Found, Found) :
          drives' = [drives EXCEPT ![Last1].systems = sorted]
    BY <1>7 DEF EndOfMark
  <2>2. sorted \in Seq(Nat) /\ Len(sorted) = Len(Found)
    BY <1>2, <2>1, SortedSystems
  <2> DEFINE w == [v EXCEPT !.systems = sorted]
  <2>3. w \in Drive /\ w.of = v.of /\ w.systems = sorted /\ w.alloc = v.alloc
    BY <1>2, <2>2 DEF Drive
  <2>4. drives' = [drives EXCEPT ![Last1] = w]
    BY <1>2, <2>1
  <2> QED BY <1>2, <1>3, <2>2, <2>3, <2>4
<1>8. ScanMark => UNCHANGED drives \/ AddSystem \/ NoMemory \/ EndOfMark
  BY DEF ScanMark, IgnoreLine, MkdirFails
<1> QED BY <1>4, <1>5, <1>6, <1>7, <1>8

LEMMA NextFit == FitInv /\ [Next]_vars => FitInv'
<1> SUFFICES ASSUME FitInv, [Next]_vars PROVE FitInv'
  OBVIOUS
<1>1. CASE BeginTry
  BY <1>1 DEF BeginTry, Return, Configuration, FitInv, TypeOK, Fits
<1>2. CASE NoTryLeft
  BY <1>2 DEF NoTryLeft, Return, Configuration, FitInv, TypeOK, Fits
<1>3. CASE PlugIn
  BY <1>3 DEF PlugIn, Configuration, FitInv, TypeOK, Fits
<1>4. CASE UNCHANGED vars
  BY <1>4 DEF vars, Configuration, FitInv, TypeOK, Fits
<1>5. CASE FreeHelper
  <2>1. drives' \in Seq(Drive) /\ DOMAIN drives' = {} /\ Len(drives') = 0
    BY <1>5, EmptySeq DEF FreeHelper
  <2> QED BY <1>5, <2>1 DEF FreeHelper, Configuration, FitInv, TypeOK, Fits
<1> QED BY <1>1, <1>2, <1>3, <1>4, <1>5, LookAtFit, EndTryFit, ScanMarkFit DEF Next, Program

(* drive_scan writes no system past the array of its drive, nor            *)
(* drive_get_mounts a drive past that of the helper, whatever directories  *)
(* and marks there are (drive.c:104-126, 255-267).                         *)
THEOREM DriveScanArraysFit == Spec => []ArraysFit
<1>1. FitInv => ArraysFit
  BY DEF FitInv, Fits, ArraysFit
<1> QED BY <1>1, InitFit, NextFit, PTL DEF Spec

-----------------------------------------------------------------------------
(* The drives that are found.  All of this is for a number of retries that *)
(* can be increased by one, so that there is a first try.                  *)

LEMMA InitDrive ==
  ASSUME IntMax \notin Retries
  PROVE  Init => DriveInv
<1> SUFFICES ASSUME Init PROVE DriveInv
  OBVIOUS
<1>1. PICK retry \in Retries : limit \in Limits(retry)
  BY DEF Init
<1>2. retry \in Int /\ IntMax \in Nat /\ retry < IntMax
  <2>1. retry \in (-IntMax - 1)..IntMax /\ IntMax \in Nat /\ retry # IntMax
    BY <1>1, RetriesAssumption
  <2> QED BY <2>1
<1>3. limit >= 1
  BY <1>1, <1>2 DEF Limits
<1> QED BY <1>3, InitFit DEF Init, DriveInv, Returns, Seeing, UsableFound

LEMMA BeginTryKeeps == DriveInv /\ BeginTry => DriveInv'
<1> SUFFICES ASSUME DriveInv, BeginTry PROVE DriveInv'
  OBVIOUS
<1>1. FitInv'
  BY NextFit DEF DriveInv, Next, Program
<1>2. /\ pc = "try" /\ drives' = <<>> /\ seen' = {} /\ limit' >= 1 /\ ret = "none"
      /\ (pc' = "dir" /\ ret' = ret) \/ (0 \in faulty' /\ pc' = "returned" /\ ret' = "null")
  BY DEF BeginTry, Fault, Return, Configuration, DriveInv, Seeing, Returns
<1> QED BY <1>1, <1>2 DEF DriveInv, Returns, Seeing, UsableFound

LEMMA NoTryLeftKeeps == DriveInv /\ NoTryLeft => DriveInv'
<1> SUFFICES ASSUME DriveInv, NoTryLeft PROVE DriveInv'
  OBVIOUS
<1>1. FitInv'
  BY NextFit DEF DriveInv, Next, Program
<1>2. /\ pc = "try" /\ try >= limit /\ limit >= 1 /\ try \in Nat /\ limit \in Int
      /\ drives = <<>> /\ pc' = "returned" /\ ret' = "null"
      /\ UNCHANGED <<plugged, target, limit, try, must, seen, drives, skipped, faulty>>
  BY DEF NoTryLeft, Return, Configuration, DriveInv, FitInv, TypeOK, Seeing
<1>3. must \subseteq seen /\ try # 0 /\ ret = "none"
  BY <1>2 DEF DriveInv, Returns, Seeing
<1>4. UsableFound'
  BY <1>2, <1>3 DEF DriveInv, Seeing, UsableFound, IsFound, IsUsable, IsTarget
<1> QED BY <1>1, <1>2, <1>4 DEF DriveInv, Returns, Seeing, IsUsable, IsTarget, IsFound

LEMMA LookAtKeeps == DriveInv /\ LookAt => DriveInv'
<1> SUFFICES ASSUME DriveInv, LookAt PROVE DriveInv'
  OBVIOUS
<1>1. FitInv'
  BY NextFit DEF DriveInv, Next, Program
<1>2. PICK e \in plugged \ seen : seen' = seen \cup {e} /\ (Skip(e) \/ OpenMark(e))
  BY DEF LookAt
<1>3. /\ pc = "dir" /\ ret = "none" /\ limit' = limit /\ target' = target
      /\ drives \in Seq(Drive) /\ e \in Entries
  BY <1>2 DEF LookAt, Configuration, DriveInv, Returns, FitInv, TypeOK
<1>4. CASE Skip(e)
  BY <1>1, <1>2, <1>3, <1>4 DEF Skip, CheckFails, DriveInv, Returns, Seeing, UsableFound,
                                IsFound, IsUsable, IsTarget
<1>5. CASE drives' = Append(drives, NewDrive(e)) /\ pc' = "mark"
           /\ UNCHANGED <<ret, skipped, faulty>>
  <2>1. NewDrive(e) \in Drive /\ NewDrive(e).of = e
    BY <1>3, EmptySeq DEF NewDrive, Drive
  <2>2. /\ DOMAIN drives' = DOMAIN drives \cup {Len(drives) + 1}
        /\ drives'[Len(drives) + 1].of = e
        /\ \A k \in DOMAIN drives : drives'[k] = drives[k]
    BY <1>3, <1>5, <2>1, AppendProperties, LenProperties
  <2>3. IsFound(e)' /\ \A f : IsFound(f) => IsFound(f)'
    BY <2>2 DEF IsFound
  <2>4. Seeing'
    BY <1>2, <1>3, <1>5, <2>3 DEF DriveInv, Seeing, IsUsable, IsTarget
  <2> QED BY <1>1, <1>3, <1>5, <2>4 DEF DriveInv, Returns, UsableFound
<1>6. CASE 0 \in faulty' /\ pc' = "returned" /\ ret' = "null"
  BY <1>1, <1>2, <1>3, <1>6 DEF DriveInv, Returns, Seeing, UsableFound
<1> QED BY <1>2, <1>4, <1>5, <1>6 DEF OpenMark, Fault, Return

LEMMA EndTryKeeps == DriveInv /\ EndTry => DriveInv'
<1> SUFFICES ASSUME DriveInv, EndTry PROVE DriveInv'
  OBVIOUS
<1>1. FitInv'
  BY NextFit DEF DriveInv, Next, Program
<1>2. /\ pc = "dir" /\ ret = "none" /\ must \subseteq seen
      /\ must \subseteq Entries /\ drives \in Seq(Drive)
      /\ UNCHANGED <<plugged, target, limit, must, seen, skipped, faulty>>
  BY DEF EndTry, NextTry, Configuration, DriveInv, Returns, FitInv, TypeOK
<1>3. CASE drives = <<>>
  BY <1>1, <1>2, <1>3 DEF EndTry, NextTry, DriveInv, Returns, Seeing, UsableFound, IsFound,
                          IsUsable, IsTarget
<1>4. CASE drives # <<>>
  <2>1. /\ drives' \in Sortings(drives, [k \in DOMAIN drives |-> drives[k].of.name])
        /\ pc' = "returned" /\ ret' = "helper" /\ try' = try
    BY <1>4 DEF EndTry, NextTry, Return
  <2>2. \A f : IsFound(f) => IsFound(f)'
    <3>1. \A j \in DOMAIN drives : \E k \in DOMAIN drives' : drives'[k] = drives[j]
      BY <1>2, <2>1, SortedDrives
    <3> TAKE f
    <3> SUFFICES ASSUME NEW j \in DOMAIN drives, drives[j].of = f PROVE IsFound(f)'
      BY DEF IsFound
    <3>2. PICK k \in DOMAIN drives' : drives'[k] = drives[j]
      BY <3>1
    <3> QED BY <3>2 DEF IsFound
  <2>3. seen # {}
    BY <1>4 DEF DriveInv, Seeing
  <2>4. Seeing'
    BY <1>2, <2>1, <2>2, <2>3 DEF DriveInv, Seeing, IsUsable, IsTarget
  <2>5. UsableFound'
    BY <1>2, <2>1, <2>3, <2>4 DEF Seeing, UsableFound, IsFound
  <2> QED BY <1>1, <1>2, <2>1, <2>4, <2>5 DEF DriveInv, Returns
<1> QED BY <1>3, <1>4

LEMMA ScanMarkKeeps == DriveInv /\ ScanMark => DriveInv'
<1> SUFFICES ASSUME DriveInv, ScanMark PROVE DriveInv'
  OBVIOUS
<1>1. /\ FitInv' /\ DOMAIN drives' = DOMAIN drives
      /\ \A k \in DOMAIN drives : drives'[k].of = drives[k].of
  BY ScanMarkFit DEF DriveInv
<1>2. /\ pc = "mark" /\ pc' \in {"mark", "dir"} /\ ret = "none"
      /\ UNCHANGED <<plugged, target, limit, try, must, seen, ret, skipped>>
      /\ faulty \subseteq faulty' /\ drives # <<>>
  BY DEF ScanMark, IgnoreLine, MkdirFails, AddSystem, NoMemory, EndOfMark, ReadOn, Close,
         Fault, Configuration, DriveInv, Returns, FitInv, TypeOK
<1>3. \A f : IsFound(f) => IsFound(f)'
  BY <1>1 DEF IsFound
<1>4. Seeing'
  BY <1>2, <1>3 DEF DriveInv, Seeing, IsUsable, IsTarget
<1> QED BY <1>1, <1>2, <1>4 DEF DriveInv, Returns, UsableFound

(* No drive that was there when the deciding try began is left out unless  *)
(* drive_check had no memory for it in that try: not by the retries, not   *)
(* by the order in which directories are read and drives appear, nor by    *)
(* what other marks hold or fail to be read for (drive.c:215-294).         *)
THEOREM DrivesUsable ==
  ASSUME IntMax \notin Retries
  PROVE  Spec => []UsableFound
<1>1. Init => DriveInv
  BY InitDrive
<1>2. DriveInv /\ [Next]_vars => DriveInv'
  <2> SUFFICES ASSUME DriveInv, [Next]_vars PROVE DriveInv'
    OBVIOUS
  <2>1. FitInv'
    BY NextFit DEF DriveInv
  <2>2. CASE PlugIn
    BY <2>1, <2>2 DEF PlugIn, Configuration, DriveInv, Returns, Seeing, UsableFound,
                      IsFound, IsUsable, IsTarget
  <2>3. CASE UNCHANGED vars
    BY <2>1, <2>3 DEF vars, Configuration, DriveInv, Returns, Seeing, UsableFound,
                      IsFound, IsUsable, IsTarget
  <2>4. CASE FreeHelper
    BY <2>1, <2>4 DEF FreeHelper, Configuration, DriveInv, Returns, Seeing, UsableFound
  <2> QED BY <2>2, <2>3, <2>4, BeginTryKeeps, NoTryLeftKeeps, LookAtKeeps, EndTryKeeps,
             ScanMarkKeeps DEF Next, Program
<1>3. DriveInv => UsableFound
  BY DEF DriveInv
<1> QED BY <1>1, <1>2, <1>3, PTL DEF Spec

-----------------------------------------------------------------------------
(* What a drive provides *)

NamedBefore(e, l) == {m \in Named(e) : m < l}

(* The drive whose mark is read has the systems of lines read so far, of   *)
(* all of them if no fault has hit it.                                     *)
IsReadSoFar(d) ==
  /\ ~d.dangling /\ \E L \in SUBSET NamedBefore(d.of, line) : Lists(d.systems, d.of, L)
  /\ d.of.name \notin faulty => Lists(d.systems, d.of, NamedBefore(d.of, line))

(* Each drive is another one of those seen in this try. *)
Apart ==
  /\ \A k \in DOMAIN drives : drives[k].of \in seen
  /\ \A j, k \in DOMAIN drives : drives[j].of = drives[k].of => j = k
  /\ pc = "try" => drives = <<>>

(* Every drive but the last one is through with its mark. *)
ReadRight ==
  \A k \in DOMAIN drives :
    IF pc = "mark" /\ k = Last1 THEN IsReadSoFar(drives[k]) ELSE IsRead(drives[k])

InNameOrder ==
  \A j, k \in DOMAIN drives : j < k => drives[j].of.name < drives[k].of.name

MarkInv == FitInv /\ Returns /\ Apart /\ ReadRight /\ (ret = "helper" => InNameOrder)

LEMMA NothingListed ==
  ASSUME NEW e \in Entry
  PROVE  Lists(<<>>, e, {}) /\ NamedBefore(e, 1) = {}
<1>1. DOMAIN <<>> = {}
  OBVIOUS
<1>2. [k \in {} |-> k] \in Bijection({}, {})
  BY DEF Bijection, Injection, Surjection, IsInjective
<1>3. NamedBefore(e, 1) = {}
  <2>1. e.mark \in Seq(Line)
    BY DEF Entry
  <2>2. \A m \in Named(e) : m \in Nat /\ m >= 1
    BY <2>1, LenProperties DEF Named
  <2> QED BY <2>2 DEF NamedBefore
<1> QED BY <1>1, <1>2, <1>3 DEF Lists

LEMMA OneMoreListed ==
  ASSUME NEW s \in Seq(Nat), NEW e, NEW L, NEW l, l \notin L, Lists(s, e, L),
         e.mark[l].system \in Nat
  PROVE  Lists(Append(s, e.mark[l].system), e, L \cup {l})
<1> DEFINE n == Len(s)
           t == Append(s, e.mark[l].system)
<1>1. PICK p \in Bijection(DOMAIN s, L) : \A k \in DOMAIN s : s[k] = e.mark[p[k]].system
  BY DEF Lists
<1>2. /\ p \in [DOMAIN s -> L]
      /\ \A j, k \in DOMAIN s : p[j] = p[k] => j = k
      /\ \A m \in L : \E k \in DOMAIN s : p[k] = m
  BY <1>1, Fun_BijectionProperties
<1>3. /\ n \in Nat /\ DOMAIN s = 1..n /\ DOMAIN t = 1..(n + 1)
      /\ t[n + 1] = e.mark[l].system /\ \A k \in 1..n : t[k] = s[k]
  BY AppendProperties, LenProperties
<1> DEFINE q == [k \in 1..(n + 1) |-> IF k = n + 1 THEN l ELSE p[k]]
<1> HIDE DEF n, t
<1>4. \A k \in 1..(n + 1) : k = n + 1 \/ k \in 1..n
  BY <1>3
<1>5. /\ \A k \in 1..n : k \in 1..(n + 1) /\ k # n + 1
      /\ n + 1 \in 1..(n + 1)
  BY <1>3
<1>6. /\ q \in [1..(n + 1) -> L \cup {l}] /\ q[n + 1] = l
      /\ \A k \in 1..n : q[k] = p[k] /\ q[k] \in L
  BY <1>2, <1>3, <1>4, <1>5
<1>7. \A j, k \in 1..(n + 1) : q[j] = q[k] => j = k
  <2> HIDE DEF q
  <2> SUFFICES ASSUME NEW j \in 1..(n + 1), NEW k \in 1..(n + 1), q[j] = q[k]
               PROVE  j = k
    OBVIOUS
  <2>1. CASE j \in 1..n /\ k \in 1..n
    BY <1>2, <1>3, <1>6, <2>1
  <2>2. CASE j = n + 1 \/ k = n + 1
    BY <1>4, <1>6, <2>2
  <2> QED BY <1>4, <2>1, <2>2
<1>8. \A m \in L \cup {l} : \E k \in 1..(n + 1) : q[k] = m
  BY <1>2, <1>3, <1>5
<1>9. q \in Bijection(1..(n + 1), L \cup {l})
  BY <1>6, <1>7, <1>8 DEF Bijection, Injection, Surjection, IsInjective
<1>10. \A k \in 1..(n + 1) : t[k] = e.mark[q[k]].system
  BY <1>1, <1>3, <1>4, <1>5
<1> HIDE DEF q
<1> QED BY <1>3, <1>9, <1>10 DEF Lists, t

LEMMA SortedListed ==
  ASSUME NEW s \in Seq(Nat), NEW t \in Sortings(s, s), NEW e, NEW L, Lists(s, e, L)
  PROVE  Ascending(t) /\ Lists(t, e, L)
<1>1. PICK p \in Bijection(DOMAIN s, DOMAIN s) :
        Sorts(p, s) /\ t = [k \in DOMAIN s |-> s[p[k]]]
  BY DEF Sortings
<1>2. PICK q \in Bijection(DOMAIN s, L) : \A k \in DOMAIN s : s[k] = e.mark[q[k]].system
  BY DEF Lists
<1>3. p \in [DOMAIN s -> DOMAIN s] /\ DOMAIN t = DOMAIN s
  BY <1>1, Fun_BijectionProperties
<1>4. Ascending(t)
  BY <1>1, <1>3 DEF Ascending, Sorts
<1> DEFINE r == [k \in DOMAIN s |-> q[p[k]]]
<1>5. r \in Bijection(DOMAIN s, L)
  BY <1>1, <1>2, Fun_BijTransitive
<1>6. \A k \in DOMAIN s : t[k] = e.mark[r[k]].system
  <2>1. \A k \in DOMAIN s : t[k] = s[p[k]]
    BY <1>1
  <2> TAKE k \in DOMAIN s
  <2>2. p[k] \in DOMAIN s
    BY <1>3
  <2>3. s[p[k]] = e.mark[q[p[k]]].system
    BY <1>2, <2>2
  <2> QED BY <2>1, <2>3
<1> HIDE DEF r
<1> QED BY <1>3, <1>4, <1>5, <1>6 DEF Lists

(* Two drives are told apart by their names. *)
LEMMA NamesApart ==
  ASSUME MarkInv
  PROVE  \A j, k \in DOMAIN drives :
           /\ drives[j].of.name = drives[k].of.name => j = k
           /\ drives[k].of \in Entries /\ drives[k].of.name \in Nat
<1>1. seen \subseteq Entries
  BY DEF MarkInv, FitInv, TypeOK
<1>2. \A k \in DOMAIN drives : drives[k].of \in Entries /\ drives[k].of.name \in Nat
  BY <1>1, EntriesAssumption DEF MarkInv, Apart, Entry
<1> QED BY <1>2, NamesAssumption DEF MarkInv, Apart

LEMMA LookAtReads == MarkInv /\ LookAt => MarkInv'
<1> SUFFICES ASSUME MarkInv, LookAt PROVE MarkInv'
  OBVIOUS
<1>1. FitInv'
  BY NextFit DEF MarkInv, Next, Program
<1>2. PICK e \in plugged \ seen : seen' = seen \cup {e} /\ (Skip(e) \/ OpenMark(e))
  BY DEF LookAt
<1>3. pc = "dir" /\ ret = "none" /\ drives \in Seq(Drive) /\ e \in Entries
  BY <1>2 DEF LookAt, MarkInv, Returns, FitInv, TypeOK
<1>4. CASE /\ UNCHANGED drives /\ faulty \subseteq faulty' /\ pc' \in {"dir", "returned"}
           /\ ret' # "helper" /\ (pc' = "returned" <=> ret' # "none")
  <2>1. ReadRight'
    BY <1>3, <1>4 DEF MarkInv, ReadRight, IsRead
  <2> QED BY <1>1, <1>2, <1>3, <1>4, <2>1 DEF MarkInv, Returns, Apart
<1>5. CASE /\ drives' = Append(drives, NewDrive(e)) /\ pc' = "mark" /\ line' = 1
           /\ UNCHANGED <<ret, faulty>>
  <2>1. NewDrive(e) \in Drive /\ NewDrive(e).of = e /\ NewDrive(e).systems = <<>>
    BY <1>3, EmptySeq DEF NewDrive, Drive
  <2>2. /\ Len(drives) \in Nat /\ DOMAIN drives = 1..Len(drives)
        /\ DOMAIN drives' = DOMAIN drives \cup {Len(drives) + 1}
        /\ drives'[Len(drives) + 1] = NewDrive(e) /\ Last1' = Len(drives) + 1
        /\ \A k \in DOMAIN drives : drives'[k] = drives[k] /\ k # Len(drives) + 1
    BY <1>3, <1>5, <2>1, AppendProperties, LenProperties DEF Last1
  <2>3. Apart'
    <3>1. \A k \in DOMAIN drives : drives[k].of \in seen /\ drives[k].of # e
      BY <1>2 DEF MarkInv, Apart
    <3> QED BY <1>2, <1>5, <2>1, <2>2, <3>1 DEF MarkInv, Apart
  <2>4. Lists(<<>>, e, NamedBefore(e, 1)) /\ NewDrive(e).dangling = FALSE
    BY <1>3, NothingListed, EntriesAssumption DEF NewDrive
  <2>5. ReadRight'
    <3> SUFFICES ASSUME NEW k \in DOMAIN drives'
                 PROVE  IF k = Len(drives) + 1
                        THEN IsReadSoFar(drives[k])' ELSE IsRead(drives[k])'
      BY <1>5, <2>2 DEF ReadRight
    <3>1. CASE k = Len(drives) + 1
      BY <1>5, <2>1, <2>2, <2>4, <3>1 DEF IsReadSoFar
    <3>2. CASE k \in DOMAIN drives
      BY <1>3, <1>5, <2>2, <3>2 DEF MarkInv, ReadRight, IsRead
    <3> QED BY <2>2, <3>1, <3>2
  <2> QED BY <1>1, <1>3, <1>5, <2>3, <2>5 DEF MarkInv, Returns
<1> QED BY <1>2, <1>3, <1>4, <1>5 DEF Skip, OpenMark, Fault, Return

LEMMA EndTryReads == MarkInv /\ EndTry => MarkInv'
<1> SUFFICES ASSUME MarkInv, EndTry PROVE MarkInv'
  OBVIOUS
<1>1. FitInv'
  BY NextFit DEF MarkInv, Next, Program
<1>2. pc = "dir" /\ ret = "none" /\ drives \in Seq(Drive) /\ UNCHANGED <<seen, faulty>>
  BY DEF EndTry, NextTry, MarkInv, Returns, FitInv, TypeOK
<1>3. CASE drives = <<>>
  BY <1>1, <1>2, <1>3 DEF EndTry, NextTry, MarkInv, Returns, Apart, ReadRight
<1>4. CASE drives # <<>>
  <2> DEFINE key == [k \in DOMAIN drives |-> drives[k].of.name]
  <2>1. drives' \in Sortings(drives, key) /\ pc' = "returned" /\ ret' = "helper"
    BY <1>4 DEF EndTry, NextTry, Return
  <2>2. PICK p \in Bijection(DOMAIN drives, DOMAIN drives) :
          Sorts(p, key) /\ drives' = [k \in DOMAIN drives |-> drives[p[k]]]
    BY <2>1 DEF Sortings
  <2>3. /\ p \in [DOMAIN drives -> DOMAIN drives]
        /\ \A j, k \in DOMAIN drives : p[j] = p[k] => j = k
    BY <2>2, Fun_BijectionProperties
  <2>4. DOMAIN drives' = DOMAIN drives /\ \A k \in DOMAIN drives : drives'[k] = drives[p[k]]
    BY <2>2
  <2>5. Apart'
    BY <1>2, <2>1, <2>3, <2>4 DEF MarkInv, Apart
  <2>6. ReadRight'
    BY <1>2, <2>1, <2>3, <2>4 DEF MarkInv, ReadRight, IsRead
  <2>7. InNameOrder'
    <3> SUFFICES ASSUME NEW j \in DOMAIN drives, NEW k \in DOMAIN drives, j < k
                 PROVE  drives[p[j]].of.name < drives[p[k]].of.name
      BY <2>4 DEF InNameOrder
    <3>1. p[j] \in DOMAIN drives /\ p[k] \in DOMAIN drives
      BY <2>3
    <3>2. drives[p[j]].of.name <= drives[p[k]].of.name
      BY <2>2, <3>1 DEF Sorts
    <3>3. j # k
      <4>1. j \in Nat /\ k \in Nat
        BY <1>2, LenProperties
      <4> QED BY <4>1
    <3>4. drives[p[j]].of.name # drives[p[k]].of.name
      BY <2>3, <3>1, <3>3, NamesApart
    <3>5. drives[p[j]].of.name \in Nat /\ drives[p[k]].of.name \in Nat
      BY <3>1, NamesApart
    <3> QED BY <3>2, <3>4, <3>5
  <2> QED BY <1>1, <2>1, <2>5, <2>6, <2>7 DEF MarkInv, Returns
<1> QED BY <1>3, <1>4

LEMMA ScanMarkReads == MarkInv /\ ScanMark => MarkInv'
<1> SUFFICES ASSUME MarkInv, ScanMark PROVE MarkInv'
  OBVIOUS
<1> DEFINE v == drives[Last1]
<1>1. /\ FitInv' /\ DOMAIN drives' = DOMAIN drives
      /\ \A k \in DOMAIN drives : drives'[k].of = drives[k].of
  BY ScanMarkFit DEF MarkInv
<1>2. /\ pc = "mark" /\ pc' \in {"mark", "dir"} /\ ret = "none" /\ UNCHANGED <<seen, ret>>
      /\ faulty \subseteq faulty'
  BY DEF ScanMark, IgnoreLine, MkdirFails, AddSystem, NoMemory, EndOfMark, ReadOn, Close,
         Fault, MarkInv, Returns
<1>3. /\ drives \in Seq(Drive) /\ drives' \in Seq(Drive) /\ Last1' = Last1
      /\ Last1 \in DOMAIN drives /\ v \in Drive /\ v.of \in Entry
      /\ Found = v.systems /\ Found \in Seq(Nat) /\ Mark = v.of.mark /\ Mark \in Seq(Line)
      /\ Name = v.of.name /\ line \in Nat \ {0} /\ Len(Mark) \in Nat /\ DOMAIN Mark = 1..Len(Mark)
  <2>1. drives \in Seq(Drive) /\ drives' \in Seq(Drive)
    BY <1>1 DEF MarkInv, FitInv, TypeOK
  <2>2. Last1' = Last1
    BY <1>1, <2>1, LenProperties DEF Last1
  <2>3. /\ Last1 \in DOMAIN drives /\ v \in Drive
        /\ Found \in Seq(Nat) /\ Mark \in Seq(Line) /\ line \in Nat \ {0}
    BY <1>2, LastDrive DEF MarkInv, FitInv
  <2>4. v.of \in Entry
    BY <2>3, EntriesAssumption DEF Drive
  <2> QED BY <2>1, <2>2, <2>3, <2>4, LenProperties DEF Found, Mark, Name
<1>4. Apart'
  BY <1>1, <1>2 DEF MarkInv, Apart
<1>5. \A k \in DOMAIN drives : drives[k].of.name = Name => k = Last1
  BY <1>3, NamesApart
<1>6. /\ \A m \in Named(v.of) : m \in 1..Len(Mark) /\ m \in Nat /\ Mark[m].kind \in Provided
      /\ \A m \in 1..Len(Mark) : Mark[m].kind \in Provided => m \in Named(v.of)
  BY <1>3 DEF Named
<1>7. \A k \in DOMAIN drives : k # Last1 => drives'[k] = drives[k]
  BY <1>3 DEF ScanMark, IgnoreLine, MkdirFails, AddSystem, NoMemory, EndOfMark
<1>8. IsReadSoFar(v)
  BY <1>2, <1>3 DEF MarkInv, ReadRight
<1>9. PICK M \in SUBSET NamedBefore(v.of, line) : Lists(Found, v.of, M)
  BY <1>3, <1>8 DEF IsReadSoFar
<1>10. ~v.dangling /\ (Name \notin faulty => Lists(Found, v.of, NamedBefore(v.of, line)))
  BY <1>3, <1>8 DEF IsReadSoFar
<1> HIDE DEF v
<1>11. IF pc' = "mark" THEN IsReadSoFar(drives[Last1])' ELSE IsRead(drives[Last1])'
  <2>1. ASSUME line <= Len(Mark)
        PROVE  line \in 1..Len(Mark) /\ Mark[line] \in Line
    BY <1>3, <2>1, ElementOfSeq
  <2>2. drives'[Last1].of = v.of /\ NamedBefore(v.of, line) \subseteq NamedBefore(v.of, line + 1)
    BY <1>1, <1>3, <1>6 DEF NamedBefore, v
  <2>3. CASE IgnoreLine
    <3>1. /\ Mark[line].kind \notin Provided /\ line' = line + 1 /\ pc' = "mark"
          /\ drives'[Last1] = v /\ faulty' = faulty
      BY <1>2, <1>3, <2>3 DEF IgnoreLine, Ignores, Ignored, Provided, ReadOn, v
    <3>2. NamedBefore(v.of, line + 1) = NamedBefore(v.of, line)
      BY <1>3, <1>6, <3>1 DEF NamedBefore
    <3> QED BY <1>3, <1>9, <1>10, <3>1, <3>2 DEF IsReadSoFar
  <2>4. CASE MkdirFails
    <3>1. /\ line' = line + 1 /\ pc' = "mark" /\ drives'[Last1] = v /\ v.of.name \in faulty'
      BY <1>2, <1>3, <2>4 DEF MkdirFails, Fault, ReadOn, v
    <3> QED BY <1>3, <1>9, <1>10, <2>2, <3>1 DEF IsReadSoFar
  <2>5. CASE AddSystem
    <3>1. Mark[line] \in Line /\ line \in 1..Len(Mark) /\ Mark[line].kind \in Provided
      BY <2>1, <2>5 DEF AddSystem, Ignores, Line
    <3>2. /\ line' = line + 1 /\ pc' = "mark" /\ faulty' = faulty
          /\ drives'[Last1].systems = Append(Found, v.of.mark[line].system)
          /\ drives'[Last1].dangling = v.dangling
      BY <1>2, <1>3, <2>5 DEF AddSystem, ReadOn, v, Drive
    <3>3. NamedBefore(v.of, line + 1) = NamedBefore(v.of, line) \cup {line}
      BY <1>3, <1>6, <3>1 DEF NamedBefore
    <3>4. line \notin NamedBefore(v.of, line) /\ v.of.mark[line].system \in Nat
      BY <1>3, <3>1 DEF NamedBefore, Line
    <3>5. Lists(Append(Found, v.of.mark[line].system), v.of, M \cup {line})
      BY <1>3, <1>9, <3>4, OneMoreListed
    <3>6. Name \notin faulty =>
            Lists(Append(Found, v.of.mark[line].system), v.of, NamedBefore(v.of, line + 1))
      <4> SUFFICES ASSUME Name \notin faulty
                   PROVE  Lists(Append(Found, v.of.mark[line].system), v.of,
                                NamedBefore(v.of, line) \cup {line})
        BY <3>3
      <4>1. Lists(Found, v.of, NamedBefore(v.of, line))
        BY <1>10
      <4> QED BY <1>3, <3>4, <4>1, OneMoreListed
    <3>7. M \cup {line} \in SUBSET NamedBefore(v.of, line + 1)
      BY <1>9, <3>3
    <3> QED BY <1>3, <1>10, <2>2, <3>2, <3>5, <3>6, <3>7 DEF IsReadSoFar
  <2>6. CASE NoMemory
    <3>1. PICK dangling \in {Found # <<>>, TRUE} :
            drives' = [drives EXCEPT ![Last1].dangling = dangling]
      BY <2>6 DEF NoMemory
    <3>2. /\ pc' = "dir" /\ v.of.name \in faulty'
          /\ drives'[Last1].systems = Found /\ drives'[Last1].dangling = dangling
      BY <1>3, <2>6, <3>1 DEF NoMemory, Fault, Close, v, Drive
    <3>3. ASSUME ~dangling
          PROVE  Ascending(Found) /\ Lists(Found, v.of, {}) /\ {} \in SUBSET Named(v.of)
      <4>1. Found = <<>>
        BY <3>1, <3>3
      <4> QED BY <1>3, <4>1, NothingListed DEF Ascending
    <3>4. IsRead(drives[Last1])'
      <4>1. ~drives'[Last1].dangling =>
              /\ Ascending(drives'[Last1].systems)
              /\ \E L \in SUBSET Named(drives'[Last1].of) :
                   Lists(drives'[Last1].systems, drives'[Last1].of, L)
        BY <2>2, <3>2, <3>3, Zenon
      <4>2. drives'[Last1].of.name \in faulty'
        BY <2>2, <3>2
      <4> QED BY <1>3, <4>1, <4>2, Zenon DEF IsRead
    <3> QED BY <3>2, <3>4
  <2>7. CASE EndOfMark
    <3>1. PICK sorted \in Sortings(Found, Found) :
            drives' = [drives EXCEPT ![Last1].systems = sorted]
      BY <2>7 DEF EndOfMark
    <3>2. /\ pc' = "dir" /\ drives'[Last1].systems = sorted
          /\ drives'[Last1].dangling = v.dangling
      BY <1>3, <2>7, <3>1 DEF EndOfMark, Close, v, Drive
    <3>3. Ascending(sorted) /\ Lists(sorted, v.of, M) /\ M \in SUBSET Named(v.of)
      BY <1>3, <1>9, <3>1, SortedListed DEF NamedBefore
    <3>4. ASSUME v.of.name \notin faulty' PROVE Lists(sorted, v.of, Named(v.of))
      <4>1. line > Len(Mark) /\ Name \notin faulty
        BY <1>2, <1>3, <2>7, <3>4 DEF EndOfMark, Fault
      <4>2. NamedBefore(v.of, line) = Named(v.of)
        BY <1>3, <1>6, <4>1 DEF NamedBefore
      <4>3. Lists(Found, v.of, Named(v.of))
        BY <1>10, <4>1, <4>2
      <4> QED BY <1>3, <3>1, <4>3, SortedListed
    <3> QED BY <1>3, <1>10, <2>2, <3>2, <3>3, <3>4 DEF IsRead
  <2> QED BY <1>2, <1>3, <2>3, <2>4, <2>5, <2>6, <2>7 DEF ScanMark
<1>12. ReadRight'
  <2> SUFFICES ASSUME NEW k \in DOMAIN drives
               PROVE  IF pc' = "mark" /\ k = Last1
                      THEN IsReadSoFar(drives[k])' ELSE IsRead(drives[k])'
    BY <1>1, <1>3 DEF ReadRight
  <2>1. CASE k = Last1
    BY <1>3, <1>11, <2>1
  <2>2. CASE k # Last1
    <3>1. IsRead(drives[k]) /\ drives'[k] = drives[k]
      BY <1>2, <1>7, <2>2 DEF MarkInv, ReadRight
    <3> QED BY <1>2, <2>2, <3>1 DEF IsRead
  <2> QED BY <2>1, <2>2
<1> QED BY <1>1, <1>2, <1>4, <1>12 DEF MarkInv, Returns

(* A mark means what MultpleDrives.md:117 says: the drives come in the     *)
(* order of their names, and a drive that no fault has hit has exactly the *)
(* systems its mark names, in their order, whatever is plugged in between  *)
(* and whatever happens to other drives; one that was hit and not freed    *)
(* has nothing its mark does not name (drive.c:58-138, 283-289).           *)
THEOREM MarksAreProvided == Spec => []ProvidesItsMark
<1>1. Init => MarkInv
  BY InitFit DEF Init, MarkInv, Returns, Apart, ReadRight
<1>2. MarkInv /\ [Next]_vars => MarkInv'
  <2> SUFFICES ASSUME MarkInv, [Next]_vars PROVE MarkInv'
    OBVIOUS
  <2>1. FitInv'
    BY NextFit DEF MarkInv
  <2>2. CASE BeginTry
    BY <2>1, <2>2 DEF BeginTry, Fault, Return, MarkInv, Returns, Apart, ReadRight
  <2>3. CASE NoTryLeft
    BY <2>1, <2>3 DEF NoTryLeft, Return, MarkInv, Returns, Apart, ReadRight
  <2>4. CASE PlugIn
    BY <2>1, <2>4 DEF PlugIn, MarkInv, Returns, Apart, ReadRight, IsRead, IsReadSoFar,
                      Last1, InNameOrder
  <2>5. CASE UNCHANGED vars
    BY <2>1, <2>5 DEF vars, MarkInv, Returns, Apart, ReadRight, IsRead, IsReadSoFar,
                      Last1, InNameOrder
  <2>6. CASE FreeHelper
    BY <2>1, <2>6 DEF FreeHelper, MarkInv, Returns, Apart, ReadRight
  <2> QED BY <2>2, <2>3, <2>4, <2>5, <2>6, LookAtReads, EndTryReads, ScanMarkReads
          DEF Next, Program
<1>3. MarkInv => ProvidesItsMark
  <2> SUFFICES ASSUME MarkInv, ret = "helper" PROVE ProvidesItsMark
    BY DEF ProvidesItsMark
  <2>1. pc # "mark"
    BY DEF MarkInv, Returns
  <2>2. \A k \in DOMAIN drives : \A j \in 1..(k - 1) : j \in DOMAIN drives /\ j < k
    <3>1. DOMAIN drives = 1..Len(drives) /\ Len(drives) \in Nat
      BY LenProperties DEF MarkInv, FitInv, TypeOK
    <3> QED BY <3>1
  <2> QED BY <2>1, <2>2 DEF MarkInv, ReadRight, IsRead, InNameOrder, ProvidesItsMark
<1> QED BY <1>1, <1>2, <1>3, PTL DEF Spec
=============================================================================
