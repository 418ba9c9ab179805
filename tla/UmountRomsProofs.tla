-------------------------- MODULE UmountRomsProofs --------------------------
(***************************************************************************)
(* What is proved of UmountRoms for every tree of directories and every    *)
(* mount table: nothing but what lies at or below /storage/roms is         *)
(* unmounted, success means that all of it is, the only thing that makes a *)
(* run fail of itself is a mount that another one hides, and a run that    *)
(* fails all the same has unmounted something.                             *)
(***************************************************************************)
EXTENDS UmountRoms, SequenceTheorems, WellFoundedInduction, TLAPS

(* What holds of every mount table: the mounts stand in the order of their *)
(* ids, each on one made before it and at or below its directory, and no   *)
(* two are on the same directory of the same mount.                        *)
InOrder(t) ==
  /\ t \in Seq(Entry) /\ Len(t) >= 1 /\ t[1] = Base
  /\ \A j, k \in 1..Len(t) : j < k => t[j].id < t[k].id

IsTree(t) ==
  /\ Entries(t) \subseteq Entry /\ Base \in Entries(t)
  /\ \E n \in Nat : \A e \in Entries(t) : e.id \in 1..n
  /\ \A e, f \in Entries(t) : e.id = f.id => e = f
  /\ \A e \in Entries(t) : e = Base \/ \E f \in Entries(t) : f.id = e.parent
  /\ \A e, f \in Entries(t) : f.id = e.parent => f.id < e.id /\ IsAbove(f.at, e.at)
  /\ \A e, f \in Entries(t) : e.parent = f.parent /\ e.at = f.at => e = f

TableOK(t) == InOrder(t) /\ IsTree(t)

-----------------------------------------------------------------------------
(* Numbers *)

LEMMA Least ==
  ASSUME NEW T \in SUBSET Nat, T # {}
  PROVE  \E k \in T : \A m \in T : k <= m
<1>1. PICK k \in T : \A m \in T : ~(<<m, k>> \in OpToRel(<, Nat))
  BY NatLessThanWellFounded, WFMin
<1>2. \A m \in T : ~(m < k)
  BY <1>1 DEF OpToRel
<1> QED BY <1>2

LEMMA Greatest ==
  ASSUME NEW n \in Nat, NEW T \in SUBSET (1..n), T # {}
  PROVE  \E k \in T : \A m \in T : m <= k
<1> DEFINE Offsets == {n - k : k \in T}
<1>0. \A k \in T : k \in Int /\ n - k \in Nat
  OBVIOUS
<1>1. Offsets \subseteq Nat /\ Offsets # {}
  BY <1>0
<1>2. PICK x \in Offsets : \A y \in Offsets : x <= y
  <2> HIDE DEF Offsets
  <2> QED BY <1>1, Least
<1>3. PICK k \in T : x = n - k
  OBVIOUS
<1>4. ASSUME NEW m \in T PROVE m <= k
  <2>1. n - m \in Offsets /\ n - k <= n - m
    BY <1>2, <1>3
  <2> HIDE DEF Offsets
  <2> QED BY <1>0, <2>1
<1> QED BY <1>4

LEMMA FirstIs ==
  ASSUME NEW T \in SUBSET Nat, T # {}
  PROVE  First(T) \in T /\ \A m \in T : First(T) <= m
BY Least DEF First

-----------------------------------------------------------------------------
(* Paths *)

LEMMA AboveElements ==
  ASSUME NEW S, NEW p \in Seq(S), NEW q \in Seq(S)
  PROVE  IsAbove(p, q) <=> Len(p) <= Len(q) /\ \A i \in 1..Len(p) : p[i] = q[i]
<1>1. Len(p) \in Nat /\ Len(q) \in Nat
  BY LenProperties
<1>2. ASSUME Len(p) <= Len(q)
      PROVE  SubSeq(q, 1, Len(p)) = p <=> \A i \in 1..Len(p) : p[i] = q[i]
  <2> DEFINE s == SubSeq(q, 1, Len(p))
  <2>1. \A i \in 1..Len(p) : q[i] \in S
    BY <1>1, <1>2, ElementOfSeq
  <2>2. /\ s \in Seq(S) /\ Len(s) = IF 1 <= Len(p) THEN Len(p) - 1 + 1 ELSE 0
        /\ \A i \in 1..(Len(p) - 1 + 1) : s[i] = q[1 + i - 1]
    BY <1>1, <2>1, SubSeqProperties
  <2> HIDE DEF s
  <2>3. Len(s) = Len(p) /\ \A i \in 1..Len(p) : s[i] = q[i]
    BY <1>1, <2>2
  <2>4. ASSUME \A i \in 1..Len(p) : p[i] = q[i] PROVE s = p
    BY <2>2, <2>3, <2>4, SeqEqual
  <2>5. s = p => \A i \in 1..Len(p) : p[i] = q[i]
    BY <2>3
  <2> QED BY <2>4, <2>5 DEF s
<1> QED BY <1>2 DEF IsAbove

LEMMA AboveOrder ==
  ASSUME NEW p \in Seq(STRING), NEW q \in Seq(STRING), NEW r \in Seq(STRING)
  PROVE  /\ IsAbove(p, p)
         /\ IsAbove(p, q) /\ IsAbove(q, r) => IsAbove(p, r)
         /\ IsAbove(p, q) /\ IsAbove(q, p) => p = q
         /\ IsAbove(p, q) /\ Len(q) <= Len(p) => p = q
         /\ IsAbove(p, r) /\ IsAbove(q, r) => IsAbove(p, q) \/ IsAbove(q, p)
<1>1. Len(p) \in Nat /\ Len(q) \in Nat /\ Len(r) \in Nat
  BY LenProperties
<1>2. IsAbove(p, p)
  BY <1>1, AboveElements
<1>3. IsAbove(p, q) /\ IsAbove(q, r) => IsAbove(p, r)
  BY <1>1, AboveElements
<1>4. IsAbove(p, q) /\ Len(q) <= Len(p) => p = q
  <2> SUFFICES ASSUME IsAbove(p, q), Len(q) <= Len(p) PROVE p = q
    OBVIOUS
  <2>1. Len(p) = Len(q) /\ \A i \in 1..Len(p) : p[i] = q[i]
    BY <1>1, AboveElements
  <2> QED BY <2>1, SeqEqual
<1>5. IsAbove(q, p) => Len(q) <= Len(p)
  BY DEF IsAbove
<1>6. IsAbove(p, r) /\ IsAbove(q, r) => IsAbove(p, q) \/ IsAbove(q, p)
  BY <1>1, AboveElements
<1> QED BY <1>2, <1>3, <1>4, <1>5, <1>6

LEMMA RootAbove ==
  /\ \A p \in Seq(STRING) : IsAbove(<<>>, p)
  /\ <<>> \in Seq(STRING) /\ ~IsRoms(<<>>)
  /\ Roms \in Seq(STRING)
<1>1. <<>> \in Seq(STRING) /\ Len(<<>>) = 0
  BY EmptySeq
<1>2. ASSUME NEW p \in Seq(STRING) PROVE IsAbove(<<>>, p)
  <2>1. Len(p) \in Nat
    BY LenProperties
  <2>2. SubSeq(p, 1, 0) = <<>>
    BY SubSeqEmpty
  <2> QED BY <1>1, <2>1, <2>2 DEF IsAbove
<1>3. Roms \in Seq(STRING) /\ Len(Roms) \in Nat \ {0}
  BY PathsAssumption, EmptySeq
<1>4. ~IsRoms(<<>>)
  BY <1>1, <1>3 DEF IsRoms, IsAbove
<1> QED BY <1>1, <1>2, <1>3, <1>4

-----------------------------------------------------------------------------
(* What is visible *)

LEMMA VisibleIs ==
  ASSUME NEW t, Base \in Entries(t)
  PROVE  /\ Visible(t) \subseteq Entries(t) /\ Base \in Visible(t)
         /\ \A e \in Visible(t) :
              e = Base \/ (~IsOvermounted(t, e) /\ \E f \in Visible(t) : f.id = e.parent)
         /\ \A e \in Entries(t) :
              ~IsOvermounted(t, e) /\ (\E f \in Visible(t) : f.id = e.parent) =>
                e \in Visible(t)
<1> DEFINE open == {e \in Entries(t) : e = Base \/ ~IsOvermounted(t, e)}
           IsGrounded(S) == \A e \in S : e = Base \/ \E f \in S : f.id = e.parent
<1>1. Visible(t) = UNION {S \in SUBSET open : IsGrounded(S)}
  BY DEF Visible
<1>2. \A e : e \in Visible(t) <=> \E S \in SUBSET open : IsGrounded(S) /\ e \in S
  BY <1>1
<1>3. Base \in Visible(t)
  <2>1. {Base} \in SUBSET open /\ IsGrounded({Base})
    OBVIOUS
  <2> QED BY <1>2, <2>1
<1>4. \A e \in Visible(t) :
        e = Base \/ (~IsOvermounted(t, e) /\ \E f \in Visible(t) : f.id = e.parent)
  <2> TAKE e \in Visible(t)
  <2>1. PICK S \in SUBSET open : IsGrounded(S) /\ e \in S
    BY <1>2
  <2>2. \A f \in S : f \in Visible(t)
    BY <1>2, <2>1
  <2> QED BY <2>1, <2>2
<1>5. ASSUME NEW e \in Entries(t), ~IsOvermounted(t, e),
             NEW f \in Visible(t), f.id = e.parent
      PROVE  e \in Visible(t)
  <2>1. PICK S \in SUBSET open : IsGrounded(S) /\ f \in S
    BY <1>2
  <2>2. S \cup {e} \in SUBSET open /\ IsGrounded(S \cup {e})
    BY <1>5, <2>1
  <2> QED BY <1>2, <2>2
<1>6. Visible(t) \subseteq Entries(t)
  BY <1>2
<1> QED BY <1>3, <1>4, <1>5, <1>6

(* The visible mounts a path lies in are a chain, each mounted on the one  *)
(* before it: of two on one mount, one would be in the way of the other.   *)
Along(t, p) == {e \in Visible(t) : IsAbove(e.at, p)}

LEMMA AlongIs ==
  ASSUME NEW t, IsTree(t), NEW p \in Seq(STRING)
  PROVE  /\ Along(t, p) \subseteq Entries(t) /\ Base \in Along(t, p)
         /\ \A e \in Along(t, p) : e \in Entry /\ e.id \in Nat /\ e.id >= 1
         /\ \A v \in Along(t, p) : v = Base \/ \E u \in Along(t, p) : u.id = v.parent
         /\ \A v, w \in Along(t, p) : v.parent = w.parent => v = w
<1>1. /\ Visible(t) \subseteq Entries(t) /\ Base \in Visible(t)
      /\ \A e \in Visible(t) :
           e = Base \/ (~IsOvermounted(t, e) /\ \E f \in Visible(t) : f.id = e.parent)
  BY VisibleIs DEF IsTree
<1>2. \A e \in Entries(t) :
        /\ e \in Entry /\ e.id \in Nat /\ e.id >= 1 /\ e.parent \in Nat /\ e.at \in Seq(STRING)
  BY DEF IsTree, Entry
<1>3. Base \in Along(t, p)
  BY <1>1, RootAbove DEF Along, Base
<1>4. ASSUME NEW v \in Along(t, p), v # Base
      PROVE  \E u \in Along(t, p) : u.id = v.parent
  <2>1. v \in Visible(t) /\ v \in Entries(t) /\ IsAbove(v.at, p)
    BY <1>1 DEF Along
  <2>2. PICK u \in Visible(t) : u.id = v.parent
    BY <1>1, <1>4, <2>1
  <2>3. IsAbove(u.at, v.at) /\ u.at \in Seq(STRING) /\ v.at \in Seq(STRING)
    BY <1>1, <1>2, <2>1, <2>2 DEF IsTree
  <2>4. IsAbove(u.at, p)
    BY <2>1, <2>3, AboveOrder
  <2> QED BY <2>2, <2>4 DEF Along
<1>5. ASSUME NEW v \in Along(t, p), NEW w \in Along(t, p), v.parent = w.parent, v # w
      PROVE  FALSE
  <2>1. /\ v \in Entries(t) /\ w \in Entries(t) /\ v \in Visible(t) /\ w \in Visible(t)
        /\ IsAbove(v.at, p) /\ IsAbove(w.at, p)
    BY <1>1 DEF Along
  <2>2. IsAbove(v.at, w.at) \/ IsAbove(w.at, v.at)
    BY <1>2, <2>1, AboveOrder
  <2>3. IsOvermounted(t, v) \/ IsOvermounted(t, w)
    BY <1>5, <2>1, <2>2 DEF IsOvermounted
  <2>4. v = Base \/ w = Base
    BY <1>1, <2>1, <2>3
  <2>5. \A e \in Entries(t) : e.parent = 0 => e = Base
    <3> TAKE e \in Entries(t)
    <3> HAVE e.parent = 0
    <3>1. e = Base \/ \E f \in Entries(t) : f.id = 0
      BY DEF IsTree
    <3>2. \A f \in Entries(t) : f.id # 0
      BY <1>2
    <3> QED BY <3>1, <3>2
  <2>6. v.parent = 0 /\ w.parent = 0
    BY <1>5, <2>4 DEF Base
  <2> QED BY <1>5, <2>1, <2>5, <2>6
<1>6. Along(t, p) \subseteq Entries(t)
  BY <1>1 DEF Along
<1>7. \A v, w \in Along(t, p) : v.parent = w.parent => v = w
  BY <1>5
<1> QED BY <1>2, <1>3, <1>4, <1>6, <1>7

LEMMA AlongChain ==
  ASSUME NEW t, IsTree(t), NEW p \in Seq(STRING)
  PROVE  \A u, v, w \in Along(t, p) :
           u.id = v.parent /\ w.id < v.id => w.id <= u.id
<1> DEFINE Between(v, w) ==
             \E u \in Along(t, p) : u.id = v.parent /\ u.id < w.id /\ w.id < v.id
           Bad == {v \in Along(t, p) : \E w \in Along(t, p) : Between(v, w)}
<1>1. /\ \A e \in Along(t, p) : e \in Entries(t) /\ e.id \in Nat /\ e.id >= 1
      /\ \A v \in Along(t, p) : v = Base \/ \E u \in Along(t, p) : u.id = v.parent
      /\ \A v, w \in Along(t, p) : v.parent = w.parent => v = w
  BY AlongIs
<1>2. \A u, v \in Along(t, p) : u.id = v.parent => u.id < v.id
  BY <1>1 DEF IsTree
<1> SUFFICES ASSUME Bad # {} PROVE FALSE
  <2> SUFFICES ASSUME NEW u \in Along(t, p), NEW v \in Along(t, p), NEW w \in Along(t, p),
                      u.id = v.parent, w.id < v.id, ~(w.id <= u.id)
               PROVE  FALSE
    OBVIOUS
  <2>1. u.id < w.id
    BY <1>1
  <2> QED BY <2>1
<1>3. PICK v \in Bad : \A x \in Bad : v.id <= x.id
  <2> DEFINE T == {x.id : x \in Bad}
  <2>1. T \in SUBSET Nat /\ T # {}
    BY <1>1
  <2>2. PICK k \in T : \A m \in T : k <= m
    <3> HIDE DEF T
    <3> QED BY <2>1, Least
  <2> QED BY <2>2
<1>4. PICK u \in Along(t, p) : u.id = v.parent /\ \E w \in Along(t, p) : u.id < w.id /\ w.id < v.id
  BY <1>3
<1>5. PICK w \in Along(t, p) :
        /\ u.id < w.id /\ w.id < v.id
        /\ \A x \in Along(t, p) : u.id < x.id /\ x.id < v.id => w.id <= x.id
  <2> DEFINE T == {x.id : x \in {y \in Along(t, p) : u.id < y.id /\ y.id < v.id}}
  <2>1. T \in SUBSET Nat /\ T # {}
    BY <1>1, <1>4
  <2>2. PICK k \in T : \A m \in T : k <= m
    <3> HIDE DEF T
    <3> QED BY <2>1, Least
  <2> QED BY <2>2
<1>6. w # Base
  BY <1>1, <1>5 DEF Base
<1>7. PICK x \in Along(t, p) : x.id = w.parent
  BY <1>1, <1>6
<1>8. x.id < w.id
  BY <1>2, <1>7
<1>9. x.id <= u.id
  BY <1>1, <1>3, <1>4, <1>5, <1>8
<1>10. CASE x.id = u.id
  <2>1. w = v
    BY <1>1, <1>3, <1>4, <1>7, <1>10
  <2> QED BY <1>1, <1>5, <2>1
<1>11. CASE x.id < u.id
  <2>1. w \in Bad
    BY <1>4, <1>5, <1>7, <1>11
  <2> QED BY <1>1, <1>3, <1>5, <2>1
<1> QED BY <1>1, <1>9, <1>10, <1>11

(* What a path is resolved to: the last of the mounts along it. *)
IsEnd(t, p, e) ==
  /\ e \in Along(t, p)
  /\ ~\E f \in Entries(t) : f.parent = e.id /\ IsAbove(f.at, p)

LEMMA EndExists ==
  ASSUME NEW t, IsTree(t), NEW p \in Seq(STRING)
  PROVE  \E e : IsEnd(t, p, e)
<1>1. /\ \A e \in Along(t, p) : e \in Entries(t) /\ e.id \in Nat
      /\ Base \in Along(t, p)
  BY AlongIs
<1>2. \A e \in Entries(t) :
        /\ e.id \in Nat /\ e.id >= 1 /\ e.parent \in Nat /\ e.at \in Seq(STRING)
        /\ Len(e.at) \in Nat
  BY LenProperties DEF IsTree, Entry
<1>3. PICK e \in Along(t, p) : \A f \in Along(t, p) : f.id <= e.id
  <2>1. PICK n \in Nat : \A f \in Entries(t) : f.id \in 1..n
    BY DEF IsTree
  <2> DEFINE T == {f.id : f \in Along(t, p)}
  <2>2. T \in SUBSET (1..n) /\ T # {}
    BY <1>1, <2>1
  <2>3. PICK k \in T : \A m \in T : m <= k
    <3> HIDE DEF T
    <3> QED BY <2>1, <2>2, Greatest
  <2> QED BY <2>3
<1>4. ASSUME NEW f \in Entries(t), f.parent = e.id, IsAbove(f.at, p) PROVE FALSE
  <2> DEFINE C == {g \in Entries(t) : g.parent = e.id /\ IsAbove(g.at, p)}
             L == {Len(g.at) : g \in C}
  <2>1. PICK g \in C : \A h \in C : Len(g.at) <= Len(h.at)
    <3>1. L \in SUBSET Nat /\ L # {}
      BY <1>2, <1>4
    <3>2. PICK k \in L : \A m \in L : k <= m
      <4> HIDE DEF L
      <4> QED BY <3>1, Least
    <3> QED BY <3>2
  <2>2. ASSUME NEW h \in Entries(t), h # g, h.parent = g.parent, IsAbove(h.at, g.at)
        PROVE  FALSE
    <3>1. IsAbove(h.at, p)
      BY <1>2, <2>1, <2>2, AboveOrder
    <3>2. Len(g.at) <= Len(h.at)
      BY <2>1, <2>2, <3>1
    <3>3. h.at = g.at
      BY <1>2, <2>1, <2>2, <3>2, AboveOrder
    <3> QED BY <2>1, <2>2, <3>3 DEF IsTree
  <2>3. ~IsOvermounted(t, g)
    BY <2>2 DEF IsOvermounted
  <2>4. g \in Visible(t)
    BY <1>3, <2>1, <2>3, VisibleIs DEF IsTree, Along
  <2>5. g \in Along(t, p)
    BY <2>1, <2>4 DEF Along
  <2>6. e.id < g.id
    BY <1>1, <1>3, <2>1 DEF IsTree
  <2> QED BY <1>1, <1>3, <2>5, <2>6
<1> QED BY <1>3, <1>4 DEF IsEnd

LEMMA EndUnique ==
  ASSUME NEW t, IsTree(t), NEW p \in Seq(STRING),
         NEW e, IsEnd(t, p, e), NEW f, IsEnd(t, p, f)
  PROVE  e = f
<1>1. /\ \A v \in Along(t, p) : v \in Entries(t) /\ v.id \in Nat /\ v.id >= 1
      /\ \A v \in Along(t, p) : v = Base \/ \E u \in Along(t, p) : u.id = v.parent
  BY AlongIs
<1>2. ASSUME NEW r, IsEnd(t, p, r), NEW s \in Along(t, p), r.id < s.id PROVE FALSE
  <2> DEFINE T == {v.id : v \in {x \in Along(t, p) : r.id < x.id}}
  <2>1. T \in SUBSET Nat /\ T # {}
    BY <1>1, <1>2
  <2>2. PICK k \in T : \A m \in T : k <= m
    <3> HIDE DEF T
    <3> QED BY <2>1, Least
  <2>3. PICK v \in Along(t, p) :
          r.id < v.id /\ \A x \in Along(t, p) : r.id < x.id => v.id <= x.id
    BY <2>2
  <2>4. r \in Along(t, p) /\ v # Base
    BY <1>1, <1>2, <2>3 DEF IsEnd, Base
  <2>5. PICK u \in Along(t, p) : u.id = v.parent
    BY <1>1, <2>4
  <2>6. u.id < v.id
    BY <1>1, <2>5 DEF IsTree
  <2>7. u.id <= r.id /\ r.id <= u.id
    BY <1>1, <2>3, <2>4, <2>5, <2>6, AlongChain
  <2>8. v.parent = r.id /\ IsAbove(v.at, p) /\ v \in Entries(t)
    BY <1>1, <2>4, <2>5, <2>7 DEF Along
  <2> QED BY <1>2, <2>8 DEF IsEnd
<1>3. e \in Along(t, p) /\ f \in Along(t, p)
  BY DEF IsEnd
<1>4. ~(e.id < f.id) /\ ~(f.id < e.id)
  BY <1>2, <1>3
<1>5. e.id = f.id
  BY <1>1, <1>3, <1>4
<1> QED BY <1>1, <1>3, <1>5 DEF IsTree

LEMMA ResolvedIs ==
  ASSUME NEW t, IsTree(t), NEW p \in Seq(STRING)
  PROVE  /\ IsEnd(t, p, Resolved(t, p))
         /\ Resolved(t, p) \in Entries(t) /\ IsAbove(Resolved(t, p).at, p)
         /\ \A e : IsEnd(t, p, e) => Resolved(t, p) = e
<1>1. \A e : IsEnd(t, p, e) <=>
               /\ e \in Visible(t) /\ IsAbove(e.at, p)
               /\ ~\E f \in Entries(t) : f.parent = e.id /\ IsAbove(f.at, p)
  BY DEF IsEnd, Along
<1>2. IsEnd(t, p, Resolved(t, p))
  BY <1>1, EndExists DEF Resolved
<1>3. Resolved(t, p) \in Entries(t) /\ IsAbove(Resolved(t, p).at, p)
  BY <1>2, AlongIs DEF IsEnd, Along
<1> QED BY <1>2, <1>3, EndUnique

-----------------------------------------------------------------------------
(* How a mount table changes *)

LEMMA MountedTable ==
  ASSUME NEW t, TableOK(t), NEW p \in Seq(STRING), NEW n \in Nat,
         \A e \in Entries(t) : e.id < n
  PROVE  /\ TableOK(Mounted(t, p, n))
         /\ \E e : e.id = n /\ e.at = p /\ Entries(Mounted(t, p, n)) = Entries(t) \cup {e}
<1> DEFINE r == Resolved(t, p)
           e == [id |-> n, parent |-> r.id, at |-> p]
           s == Mounted(t, p, n)
<1>1. /\ r \in Entries(t) /\ r \in Entry /\ IsAbove(r.at, p)
      /\ \A f \in Entries(t) : ~(f.parent = r.id /\ IsAbove(f.at, p))
      /\ r.id \in Nat /\ r.id >= 1
  <2>1. r \in Entries(t) /\ IsAbove(r.at, p) /\ IsEnd(t, p, r)
    BY ResolvedIs DEF TableOK
  <2>2. r \in Entry /\ r.id \in Nat /\ r.id >= 1
    BY <2>1 DEF TableOK, IsTree, Entry
  <2> QED BY <2>1, <2>2 DEF IsEnd
<1>2. e \in Entry /\ e.id = n /\ e.parent = r.id /\ e.at = p /\ s = Append(t, e)
  BY <1>1 DEF Entry, Mounted
<1> HIDE DEF e, s, r
<1>3. /\ t \in Seq(Entry) /\ Len(t) \in Nat /\ Len(t) >= 1 /\ t[1] = Base
      /\ \A k \in 1..Len(t) : t[k] \in Entries(t)
  BY LenProperties DEF TableOK, InOrder, Entries
<1>4. /\ s \in Seq(Entry) /\ Len(s) = Len(t) + 1
      /\ \A k \in 1..Len(t) : s[k] = t[k]
      /\ s[Len(t) + 1] = e
  BY <1>2, <1>3, AppendProperties
<1>5. Entries(s) = Entries(t) \cup {e}
  <2>1. 1..Len(s) = 1..Len(t) \cup {Len(t) + 1}
    BY <1>3, <1>4
  <2> QED BY <1>4, <2>1 DEF Entries
<1>6. InOrder(s)
  <2>1. ASSUME NEW j \in 1..Len(s), NEW k \in 1..Len(s), j < k PROVE s[j].id < s[k].id
    <3>1. j \in 1..Len(t)
      BY <1>3, <1>4, <2>1
    <3>2. CASE k \in 1..Len(t)
      BY <1>4, <2>1, <3>1, <3>2 DEF TableOK, InOrder
    <3>3. CASE k = Len(t) + 1
      BY <1>2, <1>3, <1>4, <3>1, <3>3
    <3> QED BY <1>3, <1>4, <3>2, <3>3
  <2> QED BY <1>3, <1>4, <2>1 DEF InOrder
<1>7. IsTree(s)
  <2>1. \A f \in Entries(t) : f \in Entry /\ f.id \in Nat /\ f.id < n /\ f.parent \in Nat
    BY DEF TableOK, IsTree, Entry
  <2>2. Entries(s) \subseteq Entry /\ Base \in Entries(s)
    BY <1>2, <1>5 DEF TableOK, IsTree
  <2>3. \E m \in Nat : \A f \in Entries(s) : f.id \in 1..m
    <3>1. \A f \in Entries(t) : f.id >= 1
      BY DEF TableOK, IsTree
    <3>2. n >= 1
      BY <1>1, <2>1
    <3>3. \A f \in Entries(s) : f.id \in 1..n
      BY <1>2, <1>5, <2>1, <3>1, <3>2
    <3> QED BY <3>3
  <2>4. \A f, g \in Entries(s) : f.id = g.id => f = g
    BY <1>2, <1>5, <2>1 DEF TableOK, IsTree
  <2>5. \A f \in Entries(s) : f = Base \/ \E g \in Entries(s) : g.id = f.parent
    BY <1>1, <1>2, <1>5 DEF TableOK, IsTree
  <2>6. \A f, g \in Entries(s) : g.id = f.parent => g.id < f.id /\ IsAbove(g.at, f.at)
    <3> SUFFICES ASSUME NEW f \in Entries(s), NEW g \in Entries(s), g.id = f.parent
                 PROVE  g.id < f.id /\ IsAbove(g.at, f.at)
      OBVIOUS
    <3>1. CASE f \in Entries(t) /\ g \in Entries(t)
      BY <3>1 DEF TableOK, IsTree
    <3>2. CASE f = e
      <4>1. g = r
        BY <1>1, <1>2, <1>5, <2>4, <3>2
      <4> QED BY <1>1, <1>2, <2>1, <3>2, <4>1
    <3>3. CASE f \in Entries(t) /\ g = e
      <4>1. f = Base \/ \E h \in Entries(t) : h.id = f.parent
        BY <3>3 DEF TableOK, IsTree
      <4>2. f.parent < n
        BY <1>1, <2>1, <4>1 DEF Base
      <4> QED BY <1>2, <3>3, <4>2
    <3> QED BY <1>5, <3>1, <3>2, <3>3
  <2>7. \A f, g \in Entries(s) : f.parent = g.parent /\ f.at = g.at => f = g
    <3>1. \A f \in Entries(t) : ~(f.parent = e.parent /\ f.at = e.at)
      BY <1>1, <1>2, AboveOrder
    <3> QED BY <1>5, <3>1 DEF TableOK, IsTree
  <2> QED BY <2>2, <2>3, <2>4, <2>5, <2>6, <2>7 DEF IsTree
<1> QED BY <1>2, <1>5, <1>6, <1>7 DEF TableOK, s

LEMMA WithoutTable ==
  ASSUME NEW t, TableOK(t), NEW e \in Entries(t), e # Base, ~HasChildren(t, e)
  PROVE  /\ TableOK(Without(t, e)) /\ Entries(Without(t, e)) = Entries(t) \ {e}
         /\ Len(Without(t, e)) = Len(t) - 1
<1> DEFINE k == CHOOSE k \in 1..Len(t) : t[k] = e
           left == SubSeq(t, 1, k - 1)
           right == SubSeq(t, k + 1, Len(t))
           s == Without(t, e)
<1>1. /\ t \in Seq(Entry) /\ Len(t) \in Nat /\ t[1] = Base
      /\ \A j \in 1..Len(t) : t[j] \in Entry /\ t[j].id \in Nat
      /\ \A i, j \in 1..Len(t) : i < j => t[i].id < t[j].id
  <2>1. \A j \in 1..Len(t) : t[j] \in Entry
    BY ElementOfSeq DEF TableOK, InOrder
  <2>2. \A f \in Entry : f.id \in Nat
    BY DEF Entry
  <2> QED BY <2>1, <2>2, LenProperties DEF TableOK, InOrder
<1>2. k \in 1..Len(t) /\ t[k] = e /\ k # 1
  BY <1>1 DEF Entries
<1>3. s = left \o right
  BY DEF Without
<1> HIDE DEF k, s
<1>4. /\ left \in Seq(Entry) /\ Len(left) = k - 1
      /\ \A i \in 1..(k - 1) : left[i] = t[i]
  <2>1. \A i \in 1..(k - 1) : t[i] \in Entry
    BY <1>1, <1>2
  <2>2. /\ left \in Seq(Entry) /\ Len(left) = IF 1 <= k - 1 THEN (k - 1) - 1 + 1 ELSE 0
        /\ \A i \in 1..((k - 1) - 1 + 1) : left[i] = t[1 + i - 1]
    BY <1>1, <1>2, <2>1, SubSeqProperties
  <2> HIDE DEF left
  <2> QED BY <1>1, <1>2, <2>2
<1>5. /\ right \in Seq(Entry) /\ Len(right) = Len(t) - k
      /\ \A i \in 1..(Len(t) - k) : right[i] = t[k + i]
  <2>1. \A i \in (k + 1)..Len(t) : t[i] \in Entry
    BY <1>1, <1>2
  <2>2. /\ right \in Seq(Entry)
        /\ Len(right) = IF k + 1 <= Len(t) THEN Len(t) - (k + 1) + 1 ELSE 0
        /\ \A i \in 1..(Len(t) - (k + 1) + 1) : right[i] = t[(k + 1) + i - 1]
    BY <1>1, <1>2, <2>1, SubSeqProperties
  <2> HIDE DEF right
  <2> QED BY <1>1, <1>2, <2>2
<1> HIDE DEF left, right
<1>6. /\ s \in Seq(Entry) /\ Len(s) = Len(t) - 1
      /\ \A i \in 1..Len(s) : s[i] = IF i < k THEN t[i] ELSE t[i + 1]
  <2>1. /\ s \in Seq(Entry) /\ Len(s) = Len(left) + Len(right)
        /\ \A i \in 1..(Len(left) + Len(right)) :
             s[i] = IF i <= Len(left) THEN left[i] ELSE right[i - Len(left)]
    BY <1>3, <1>4, <1>5, ConcatProperties
  <2>2. Len(s) = Len(t) - 1
    BY <1>1, <1>2, <1>4, <1>5, <2>1
  <2>3. ASSUME NEW i \in 1..Len(s) PROVE s[i] = IF i < k THEN t[i] ELSE t[i + 1]
    <3>1. CASE i < k
      BY <1>1, <1>2, <1>4, <2>1, <2>2, <3>1
    <3>2. CASE ~(i < k)
      <4>1. s[i] = right[i - (k - 1)] /\ i - (k - 1) \in 1..(Len(t) - k)
        BY <1>1, <1>2, <1>4, <1>5, <2>1, <2>2, <3>2
      <4>2. s[i] = t[k + (i - (k - 1))] /\ k + (i - (k - 1)) = i + 1
        BY <1>1, <1>2, <1>5, <4>1
      <4> QED BY <3>2, <4>2
    <3> QED BY <3>1, <3>2
  <2> QED BY <2>1, <2>2, <2>3
<1> DEFINE At(i) == IF i < k THEN i ELSE i + 1
<1>7. \A i \in 1..Len(s) : At(i) \in 1..Len(t) /\ At(i) # k /\ s[i] = t[At(i)]
  <2> TAKE i \in 1..Len(s)
  <2>1. CASE i < k
    BY <1>1, <1>2, <1>6, <2>1
  <2>2. CASE ~(i < k)
    BY <1>1, <1>2, <1>6, <2>2
  <2> QED BY <2>1, <2>2
<1>8. \A i, j \in 1..Len(s) : i < j => At(i) < At(j)
  BY <1>1, <1>2, <1>6
<1> HIDE DEF At
<1>9. Entries(s) = Entries(t) \ {e}
  <2>1. ASSUME NEW i \in 1..Len(s) PROVE s[i] \in Entries(t) /\ s[i] # e
    <3>1. At(i) < k \/ k < At(i)
      BY <1>1, <1>2, <1>7
    <3>2. t[At(i)].id # t[k].id
      BY <1>1, <1>2, <1>7, <3>1
    <3> QED BY <1>2, <1>7, <3>2 DEF Entries
  <2>2. ASSUME NEW j \in 1..Len(t), t[j] # e PROVE t[j] \in Entries(s)
    <3>1. CASE j < k
      <4>1. j \in 1..Len(s) /\ s[j] = t[j]
        BY <1>1, <1>2, <1>6, <3>1
      <4> QED BY <4>1 DEF Entries
    <3>2. CASE j > k
      <4>1. j - 1 \in 1..Len(s) /\ s[j - 1] = t[j]
        BY <1>1, <1>2, <1>6, <3>2
      <4> QED BY <4>1 DEF Entries
    <3> QED BY <1>1, <1>2, <2>2, <3>1, <3>2
  <2>3. \A f \in Entries(s) : f \in Entries(t) /\ f # e
    BY <2>1 DEF Entries
  <2>4. \A f \in Entries(t) : f # e => f \in Entries(s)
    BY <2>2 DEF Entries
  <2> QED BY <2>3, <2>4
<1>10. InOrder(s)
  <2>1. Len(s) >= 1 /\ s[1] = Base
    BY <1>1, <1>2, <1>6
  <2>2. ASSUME NEW i \in 1..Len(s), NEW j \in 1..Len(s), i < j PROVE s[i].id < s[j].id
    <3>1. At(i) < At(j) /\ At(i) \in 1..Len(t) /\ At(j) \in 1..Len(t)
      BY <1>7, <1>8, <2>2
    <3>2. s[i] = t[At(i)] /\ s[j] = t[At(j)]
      BY <1>7
    <3> QED BY <1>1, <3>1, <3>2
  <2> QED BY <1>6, <2>1, <2>2 DEF InOrder
<1>11. IsTree(s)
  <2>1. \A f \in Entries(t) : f.parent # e.id
    BY DEF HasChildren
  <2>2. \A f \in Entries(s) : f = Base \/ \E g \in Entries(s) : g.id = f.parent
    BY <1>9, <2>1 DEF TableOK, IsTree
  <2>3. \E n \in Nat : \A f \in Entries(s) : f.id \in 1..n
    BY <1>9 DEF TableOK, IsTree
  <2> QED BY <1>9, <2>2, <2>3 DEF TableOK, IsTree
<1> QED BY <1>6, <1>9, <1>10, <1>11 DEF TableOK, s

(* umount2 takes away the mount the path leads to, a leaf, and not /storage. *)
LEMMA UmountedTable ==
  ASSUME NEW t, TableOK(t), NEW p \in Seq(STRING), IsRoms(p), CanUmount(t, p)
  PROVE  /\ Resolved(t, p) \in Entries(t) /\ Resolved(t, p).at = p
         /\ Resolved(t, p) # Base /\ ~HasChildren(t, Resolved(t, p))
         /\ TableOK(Without(t, Resolved(t, p)))
         /\ Entries(Without(t, Resolved(t, p))) = Entries(t) \ {Resolved(t, p)}
         /\ Len(Without(t, Resolved(t, p))) = Len(t) - 1
<1>1. Resolved(t, p) \in Entries(t)
  BY ResolvedIs DEF TableOK
<1>2. Resolved(t, p).at = p /\ ~HasChildren(t, Resolved(t, p))
  BY DEF CanUmount
<1>3. Resolved(t, p) # Base
  BY <1>2, RootAbove DEF Base
<1> QED BY <1>1, <1>2, <1>3, WithoutTable

-----------------------------------------------------------------------------
(* What is left, and what is taken away *)

Frame == [entry : Nat, next : Nat \ {0}]

Reading == pc \in {"looking", "unmounting"}

Types ==
  /\ nextId \in Nat /\ pass \in {0, 1} /\ ret \in Nat
  /\ pc \in {"before", "reading", "looking", "unmounting", "failed", "clean"}
  /\ pc = "before" => pass = 0
  /\ TableOK(kernel)
  /\ Reading => TableOK(table)

(* Ids are not used twice. *)
FreshIds ==
  /\ \A e \in Entries(kernel) : e.id < nextId
  /\ \A e \in Entries(before) : e.id \in Nat /\ e.id < nextId
  /\ pc = "before" => Entries(before) = {}

(* Every call is about an entry at or below /storage/roms. *)
Calls ==
  pc = "unmounting" =>
    /\ stack \in Seq(Frame) /\ Len(stack) >= 1
    /\ \A i \in 1..Len(stack) :
         stack[i].entry \in 1..Len(table) /\ IsRoms(table[stack[i].entry].at)

(* Those mounts of the beginning that are left. *)
Left == Entries(kernel) \cap Entries(before)

(* The snapshot has all of them, and the pass over /storage/roms itself    *)
(* has left none there.                                                    *)
Covered ==
  /\ Reading => Left \subseteq Entries(table)
  /\ pass = 1 => \A e \in Left : e.at # Roms

UmountInv == Types /\ FreshIds /\ Calls /\ Covered /\ CleanOnSuccess

LEMMA TableEntries ==
  ASSUME NEW t, TableOK(t)
  PROVE  /\ t \in Seq(Entry) /\ Len(t) \in Nat /\ Len(t) >= 1 /\ t[1] = Base
         /\ \A k \in 1..Len(t) : t[k] \in Entries(t) /\ t[k] \in Entry
         /\ \A e \in Entries(t) :
              /\ e \in Entry /\ e.id \in Nat /\ e.id >= 1
              /\ e.parent \in Nat /\ e.at \in Seq(STRING)
         /\ \A j, k \in 1..Len(t) : j < k => t[j].id < t[k].id
<1>1. t \in Seq(Entry) /\ Len(t) \in Nat /\ Len(t) >= 1 /\ t[1] = Base
  BY LenProperties DEF TableOK, InOrder
<1>2. \A k \in 1..Len(t) : t[k] \in Entries(t) /\ t[k] \in Entry
  BY <1>1, ElementOfSeq DEF Entries
<1>3. \A e \in Entries(t) :
        /\ e \in Entry /\ e.id \in Nat /\ e.id >= 1
        /\ e.parent \in Nat /\ e.at \in Seq(STRING)
  BY DEF TableOK, IsTree, Entry
<1> QED BY <1>1, <1>2, <1>3 DEF TableOK, InOrder

LEMMA UmountInit == Init => UmountInv
<1> SUFFICES ASSUME Init PROVE UmountInv
  OBVIOUS
<1>1. /\ Base \in Entry /\ kernel = <<Base>> /\ Base.id = 1 /\ Base.parent = 0
      /\ Base.at = <<>>
  BY RootAbove DEF Init, Base, Entry
<1> DEFINE b == Base
<1> HIDE DEF b
<1>2. kernel \in Seq(Entry) /\ Len(kernel) = 1 /\ kernel[1] = Base
  <2>1. b \in Entry /\ kernel = <<b>>
    BY <1>1 DEF b
  <2> QED BY <2>1 DEF b
<1>3. Entries(kernel) = {Base}
  BY <1>2 DEF Entries
<1>4. InOrder(kernel)
  BY <1>2 DEF InOrder
<1>5. IsTree(kernel)
  <2>1. \E n \in Nat : \A e \in {Base} : e.id \in 1..n
    <3>1. Base.id \in 1..1 /\ 1 \in Nat
      BY <1>1
    <3> QED BY <3>1
  <2> QED BY <1>1, <1>3, <2>1 DEF IsTree
<1>6. Entries(before) = {}
  BY EmptySeq DEF Init, Entries
<1> QED BY <1>1, <1>3, <1>4, <1>5, <1>6
     DEF Init, UmountInv, Types, FreshIds, Calls, Covered, Left, Reading, TableOK, CleanOnSuccess

(* Nobody who mounts or unmounts brings back what was there before. *)
LEMMA LeftShrinks ==
  ASSUME UmountInv, UNCHANGED before, pc' = "before" => pc = "before",
         \/ \E e : /\ e.id = nextId /\ nextId' = nextId + 1
                   /\ Entries(kernel') = Entries(kernel) \cup {e}
         \/ Entries(kernel') \subseteq Entries(kernel) /\ nextId' = nextId
  PROVE  Left' \subseteq Left /\ nextId' \in Nat /\ FreshIds'
<1>1. /\ nextId \in Nat
      /\ \A e \in Entries(kernel) : e.id < nextId /\ e.id \in Nat
      /\ \A e \in Entries(before) : e.id \in Nat /\ e.id < nextId
      /\ pc = "before" => Entries(before) = {}
  BY TableEntries DEF UmountInv, Types, FreshIds
<1>2. Entries(before') = Entries(before)
  BY DEF Entries
<1>3. CASE Entries(kernel') \subseteq Entries(kernel) /\ nextId' = nextId
  BY <1>1, <1>2, <1>3 DEF Left, FreshIds
<1>4. ASSUME NEW e, e.id = nextId, nextId' = nextId + 1,
             Entries(kernel') = Entries(kernel) \cup {e}
      PROVE  Left' \subseteq Left /\ nextId' \in Nat /\ FreshIds'
  <2>1. e \notin Entries(before)
    BY <1>1, <1>4
  <2>2. Left' \subseteq Left
    BY <1>2, <1>4, <2>1 DEF Left
  <2>3. \A f \in Entries(before) \cup Entries(kernel) \cup {e} : f.id < nextId + 1
    BY <1>1, <1>4
  <2> QED BY <1>1, <1>2, <1>4, <2>2, <2>3 DEF FreshIds
<1> QED BY <1>3, <1>4

LEMMA OthersKeep == UmountInv /\ (Mount \/ Interfere) => UmountInv'
<1> SUFFICES ASSUME UmountInv, Mount \/ Interfere PROVE UmountInv'
  OBVIOUS
<1>1. UNCHANGED <<pc, pass, table, stack, ret, before>> /\ pc # "clean"
  BY DEF Mount, Interfere, programVars, Running
<1>2. /\ TableOK(kernel')
      /\ \/ \E e : /\ e.id = nextId /\ nextId' = nextId + 1
                   /\ Entries(kernel') = Entries(kernel) \cup {e}
         \/ Entries(kernel') \subseteq Entries(kernel) /\ nextId' = nextId
  <2>1. TableOK(kernel) /\ nextId \in Nat /\ \A e \in Entries(kernel) : e.id < nextId
    BY DEF UmountInv, Types, FreshIds
  <2>2. ASSUME NEW p \in Paths, kernel' = Mounted(kernel, p, nextId), nextId' = nextId + 1
        PROVE  /\ TableOK(kernel')
               /\ \E e : /\ e.id = nextId /\ nextId' = nextId + 1
                         /\ Entries(kernel') = Entries(kernel) \cup {e}
    <3>1. p \in Seq(STRING)
      BY PathsAssumption
    <3> QED BY <2>1, <2>2, <3>1, MountedTable
  <2>3. ASSUME NEW p \in Paths, IsRoms(p), CanUmount(kernel, p),
               kernel' = Without(kernel, Resolved(kernel, p)), nextId' = nextId
        PROVE  TableOK(kernel') /\ Entries(kernel') \subseteq Entries(kernel)
    <3>1. p \in Seq(STRING)
      BY PathsAssumption
    <3> QED BY <2>1, <2>3, <3>1, UmountedTable
  <2> QED BY <2>2, <2>3 DEF Mount, Interfere
<1>3. Left' \subseteq Left /\ nextId' \in Nat /\ FreshIds'
  BY <1>1, <1>2, LeftShrinks
<1>4. Types'
  BY <1>1, <1>2, <1>3 DEF UmountInv, Types, Reading
<1>5. Calls'
  BY <1>1 DEF UmountInv, Calls
<1>6. Covered'
  BY <1>1, <1>3 DEF UmountInv, Covered, Reading
<1>7. CleanOnSuccess'
  BY <1>1 DEF CleanOnSuccess
<1> QED BY <1>3, <1>4, <1>5, <1>6, <1>7 DEF UmountInv

LEMMA ReadingKeeps == UmountInv /\ (Start \/ GetTable \/ GetTableFails) => UmountInv'
<1> SUFFICES ASSUME UmountInv, Start \/ GetTable \/ GetTableFails PROVE UmountInv'
  OBVIOUS
<1>1. CASE Start
  <2>1. \A e \in Entries(kernel) : e.id \in Nat
    BY TableEntries DEF UmountInv, Types
  <2> QED BY <1>1, <2>1 DEF Start, UmountInv, Types, FreshIds, Calls, Covered, Reading,
          CleanOnSuccess
<1>2. CASE GetTable
  BY <1>2 DEF GetTable, UmountInv, Types, FreshIds, Calls, Covered, Left, Reading,
     CleanOnSuccess
<1>3. CASE GetTableFails
  BY <1>3 DEF GetTableFails, UmountInv, Types, FreshIds, Calls, Covered, Left, Reading,
     CleanOnSuccess
<1> QED BY <1>1, <1>2, <1>3

LEMMA SoughtIs ==
  ASSUME UmountInv, pc = "looking"
  PROVE  /\ Sought \in SUBSET (1..Len(table))
         /\ Sought # {} => /\ First(Sought) \in 1..Len(table)
                           /\ IsRoms(table[First(Sought)].at)
         /\ Sought = {} => \A e \in Entries(table) : ~IsSought(e)
<1>1. Sought \in SUBSET (1..Len(table)) /\ Sought \in SUBSET Nat
  BY DEF Sought
<1>2. ASSUME Sought # {}
      PROVE  First(Sought) \in 1..Len(table) /\ IsRoms(table[First(Sought)].at)
  <2>1. First(Sought) \in Sought
    BY <1>1, <1>2, FirstIs
  <2>2. First(Sought) \in 1..Len(table) /\ IsSought(table[First(Sought)])
    BY <2>1 DEF Sought
  <2>3. IsRoms(Roms)
    BY RootAbove, AboveOrder DEF IsRoms
  <2> QED BY <2>2, <2>3 DEF IsSought
<1>3. Sought = {} => \A e \in Entries(table) : ~IsSought(e)
  BY DEF Sought, Entries
<1> QED BY <1>1, <1>2, <1>3

LEMMA LookingKeeps == UmountInv /\ (Found \/ NoneFound) => UmountInv'
<1> SUFFICES ASSUME UmountInv, Found \/ NoneFound PROVE UmountInv'
  OBVIOUS
<1>1. pc = "looking" /\ UNCHANGED <<kernel, nextId, table, before>> /\ Left' = Left
  BY DEF Found, NoneFound, Left
<1>2. CASE Found
  <2> DEFINE f == [entry |-> First(Sought), next |-> 2]
  <2>1. First(Sought) \in 1..Len(table) /\ IsRoms(table[First(Sought)].at)
    BY <1>1, <1>2, SoughtIs DEF Found
  <2>2. f \in Frame /\ f.entry = First(Sought) /\ stack' = <<f>>
    BY <1>2, <2>1 DEF Found, Frame
  <2> HIDE DEF f
  <2>3. stack' \in Seq(Frame) /\ Len(stack') = 1 /\ stack'[1] = f
    BY <2>2
  <2>4. Calls'
    BY <1>1, <2>1, <2>2, <2>3 DEF Calls
  <2> QED BY <1>1, <1>2, <2>4 DEF Found, UmountInv, Types, FreshIds, Covered, Reading,
          CleanOnSuccess
<1>3. CASE NoneFound
  <2>1. \A e \in Left : ~IsSought(e)
    BY <1>1, <1>3, SoughtIs DEF NoneFound, UmountInv, Covered, Reading
  <2>2. Types' /\ FreshIds'
    BY <1>1, <1>3 DEF NoneFound, UmountInv, Types, FreshIds, Reading
  <2>3. Calls'
    BY <1>1, <1>3 DEF NoneFound, Calls
  <2>4. Covered'
    BY <1>1, <1>3, <2>1 DEF NoneFound, UmountInv, Covered, Reading, IsSought
  <2>5. CleanOnSuccess'
    BY <1>1, <1>3, <2>1 DEF NoneFound, UmountInv, Types, Covered, Left, IsSought, CleanOnSuccess
  <2> QED BY <2>2, <2>3, <2>4, <2>5 DEF UmountInv
<1> QED BY <1>2, <1>3

LEMMA CallsIs ==
  ASSUME UmountInv, pc = "unmounting"
  PROVE  /\ stack \in Seq(Frame) /\ Len(stack) \in Nat /\ Len(stack) >= 1
         /\ \A i \in 1..Len(stack) :
              /\ stack[i] \in Frame /\ stack[i].entry \in 1..Len(table)
              /\ stack[i].next \in Nat \ {0} /\ IsRoms(table[stack[i].entry].at)
         /\ Len(stack) \in 1..Len(stack) /\ TableOK(table)
<1>1. /\ stack \in Seq(Frame) /\ Len(stack) \in Nat /\ Len(stack) >= 1 /\ TableOK(table)
      /\ \A i \in 1..Len(stack) :
           stack[i].entry \in 1..Len(table) /\ IsRoms(table[stack[i].entry].at)
  BY LenProperties DEF UmountInv, Calls, Types, Reading
<1>2. \A i \in 1..Len(stack) : stack[i] \in Frame
  BY <1>1, ElementOfSeq
<1>3. \A f \in Frame : f.next \in Nat \ {0}
  BY DEF Frame
<1> QED BY <1>1, <1>2, <1>3

(* A child lies below what it is mounted on. *)
LEMMA ChildrenIs ==
  ASSUME UmountInv, pc = "unmounting"
  PROVE  /\ Children \in SUBSET Nat
         /\ \A k \in Children :
              /\ k \in 1..Len(table) /\ k >= Top.next
              /\ table[k].parent = table[Top.entry].id
              /\ IsRoms(table[k].at)
<1>1. /\ Top \in Frame /\ Top.entry \in 1..Len(table) /\ Top.next \in Nat \ {0}
      /\ IsRoms(table[Top.entry].at) /\ TableOK(table)
  BY CallsIs DEF Top
<1>2. ASSUME NEW k \in Children
      PROVE  /\ k \in Nat /\ k >= Top.next
             /\ k \in 1..Len(table) /\ table[k].parent = table[Top.entry].id
             /\ IsRoms(table[k].at)
  <2>1. Len(table) \in Nat
    BY <1>1, TableEntries
  <2>2. k \in Top.next..Len(table) /\ table[k].parent = table[Top.entry].id
    BY DEF Children
  <2>3. k \in 1..Len(table) /\ k >= Top.next
    BY <1>1, <2>1, <2>2
  <2>4. IsAbove(table[Top.entry].at, table[k].at)
    BY <1>1, <2>2, <2>3, TableEntries DEF TableOK, IsTree
  <2>5. table[Top.entry].at \in Seq(STRING) /\ table[k].at \in Seq(STRING)
    BY <1>1, <2>3, TableEntries
  <2>6. IsRoms(table[k].at)
    BY <1>1, <2>4, <2>5, RootAbove, AboveOrder DEF IsRoms
  <2> QED BY <2>2, <2>3, <2>6
<1> QED BY <1>2

LEMMA Descends ==
  ASSUME UmountInv, Descend
  PROVE  /\ pc = "unmounting" /\ Children # {} /\ First(Children) \in Children
         /\ \A m \in Children : First(Children) <= m
         /\ stack' \in Seq(Frame) /\ Len(stack') = Len(stack) + 1
         /\ \A i \in 1..(Len(stack) - 1) : stack'[i] = stack[i]
         /\ stack'[Len(stack)].entry = Top.entry
         /\ stack'[Len(stack)].next = First(Children) + 1
         /\ stack'[Len(stack) + 1].entry = First(Children)
         /\ stack'[Len(stack) + 1].next = First(Children) + 1
<1> DEFINE k == First(Children)
           n == Len(stack)
           f == [entry |-> Top.entry, next |-> k + 1]
           s == [stack EXCEPT ![n].next = k + 1]
<1>1. /\ pc = "unmounting" /\ Children # {} /\ k \in Children
      /\ (\A m \in Children : k <= m) /\ k \in Nat
  BY ChildrenIs, FirstIs DEF Descend
<1>2. /\ stack \in Seq(Frame) /\ n \in Nat /\ n >= 1 /\ n \in 1..n
      /\ \A i \in 1..n : stack[i] \in Frame
      /\ stack[n].entry = Top.entry /\ Top.entry \in Nat
  BY <1>1, CallsIs DEF Top, Frame
<1>3. stack' = Append(s, ChildCall(k))
  BY DEF Descend
<1> HIDE DEF k
<1>4. f \in Frame /\ f.entry = Top.entry /\ f.next = k + 1
  BY <1>1, <1>2 DEF Frame
<1>5. s = [stack EXCEPT ![n] = f]
  <2>1. [stack[n] EXCEPT !.next = k + 1] = f
    BY <1>2 DEF Frame
  <2> QED BY <2>1
<1> HIDE DEF f
<1>6. s \in Seq(Frame) /\ Len(s) = n /\ \A j \in 1..n : s[j] = IF j = n THEN f ELSE stack[j]
  BY <1>2, <1>4, <1>5, ExceptSeq
<1> HIDE DEF s
<1>7. ChildCall(k) \in Frame /\ ChildCall(k).entry = k /\ ChildCall(k).next = k + 1
  BY <1>1 DEF ChildCall, Frame
<1>8. /\ stack' \in Seq(Frame) /\ Len(stack') = n + 1
      /\ \A j \in 1..n : stack'[j] = s[j]
      /\ stack'[n + 1] = ChildCall(k)
  BY <1>3, <1>6, <1>7, AppendProperties
<1> QED BY <1>1, <1>2, <1>4, <1>6, <1>7, <1>8 DEF k

LEMMA DescendKeeps == UmountInv /\ Descend => UmountInv'
<1> SUFFICES ASSUME UmountInv, Descend PROVE UmountInv'
  OBVIOUS
<1>1. UNCHANGED <<kernel, nextId, pc, pass, table, ret, before>>
  BY DEF Descend
<1>2. Types' /\ FreshIds' /\ Covered' /\ CleanOnSuccess'
  BY <1>1 DEF UmountInv, Types, FreshIds, Covered, Left, Reading, CleanOnSuccess
<1>3. Calls'
  <2>1. pc = "unmounting"
    BY DEF Descend
  <2>2. /\ stack' \in Seq(Frame) /\ Len(stack') = Len(stack) + 1
        /\ Len(stack) \in Nat /\ Len(stack) >= 1
    BY <2>1, CallsIs, Descends
  <2>3. ASSUME NEW i \in 1..Len(stack')
        PROVE  stack'[i].entry \in 1..Len(table) /\ IsRoms(table[stack'[i].entry].at)
    <3>1. CASE i \in 1..(Len(stack) - 1)
      BY <2>1, <2>2, <3>1, CallsIs, Descends
    <3>2. CASE i = Len(stack)
      BY <2>1, <2>2, <3>2, CallsIs, Descends DEF Top
    <3>3. CASE i = Len(stack) + 1
      BY <2>1, <3>3, ChildrenIs, Descends
    <3> QED BY <2>2, <3>1, <3>2, <3>3
  <2> QED BY <1>1, <2>2, <2>3 DEF Calls
<1> QED BY <1>2, <1>3 DEF UmountInv

LEMMA Returns ==
  ASSUME UmountInv, pc = "unmounting", NEW failures, ReturnWith(failures)
  PROVE  /\ stack' \in Seq(Frame) /\ Len(stack') = Len(stack) - 1
         /\ \A i \in 1..(Len(stack) - 1) : stack'[i] = stack[i]
<1>1. /\ stack \in Seq(Frame) /\ Len(stack) \in Nat /\ Len(stack) >= 1
      /\ \A i \in 1..Len(stack) : stack[i] \in Frame
  BY CallsIs
<1>2. \A i \in 1..(Len(stack) - 1) : stack[i] \in Frame
  BY <1>1
<1> DEFINE n == Len(stack) - 1
           s == SubSeq(stack, 1, n)
<1>3. n \in Int /\ n \in Nat /\ \A i \in 1..n : stack[i] \in Frame
  BY <1>1, <1>2
<1> HIDE DEF n
<1>4. /\ s \in Seq(Frame) /\ Len(s) = IF 1 <= n THEN n - 1 + 1 ELSE 0
      /\ \A i \in 1..(n - 1 + 1) : s[i] = stack[1 + i - 1]
  BY <1>3, SubSeqProperties
<1> HIDE DEF s
<1>5. Len(s) = n /\ \A i \in 1..n : s[i] = stack[i]
  BY <1>3, <1>4
<1>6. stack' = s
  BY DEF ReturnWith, s, n
<1> QED BY <1>4, <1>5, <1>6 DEF n

(* What umount2 is called for is at or below /storage/roms. *)
LEMMA Umounts ==
  ASSUME UmountInv, Umount
  PROVE  \/ UNCHANGED kernel
         \/ \E r \in Entries(kernel) :
              /\ IsRoms(r.at) /\ TableOK(kernel')
              /\ r = Resolved(kernel, table[Top.entry].at)
              /\ ~HasChildren(kernel, r)
              /\ Entries(kernel') = Entries(kernel) \ {r}
<1> DEFINE p == table[Top.entry].at
<1>1. IsRoms(p) /\ p \in Seq(STRING) /\ TableOK(kernel)
  <2>1. pc = "unmounting"
    BY DEF Umount
  <2>2. Top.entry \in 1..Len(table) /\ IsRoms(table[Top.entry].at) /\ TableOK(table)
    BY <2>1, CallsIs DEF Top
  <2> QED BY <2>2, TableEntries DEF UmountInv, Types
<1>2. CASE CanUmount(kernel, p) /\ kernel' = Without(kernel, Resolved(kernel, p))
  <2> HIDE DEF p
  <2> QED BY <1>1, <1>2, UmountedTable DEF p
<1> QED BY <1>2 DEF Umount

LEMMA UmountKeeps == UmountInv /\ Umount => UmountInv'
<1> SUFFICES ASSUME UmountInv, Umount PROVE UmountInv'
  OBVIOUS
<1>1. /\ pc = "unmounting" /\ UNCHANGED <<nextId, pass, table, before>>
      /\ ret \in Nat /\ nextId \in Nat /\ pass \in {0, 1}
  BY DEF Umount, UmountInv, Types
<1>2. PICK failures \in Nat : ReturnWith(failures)
  BY <1>1 DEF Umount
<1>3. /\ pc' \in {"unmounting", "reading", "failed"} /\ ret' = failures
      /\ pc' = "unmounting" => Len(stack) > 1
  BY <1>2 DEF ReturnWith
<1>4. TableOK(kernel') /\ Entries(kernel') \subseteq Entries(kernel)
  BY Umounts DEF UmountInv, Types, Entries
<1>5. Left' \subseteq Left /\ FreshIds'
  BY <1>1, <1>3, <1>4, LeftShrinks
<1>6. Types'
  BY <1>1, <1>2, <1>3, <1>4 DEF UmountInv, Types, Reading
<1>7. Calls'
  <2> SUFFICES ASSUME pc' = "unmounting"
               PROVE  /\ stack' \in Seq(Frame) /\ Len(stack') >= 1
                      /\ \A i \in 1..Len(stack') :
                           /\ stack'[i].entry \in 1..Len(table)
                           /\ IsRoms(table[stack'[i].entry].at)
    BY <1>1 DEF Calls
  <2>1. /\ stack' \in Seq(Frame) /\ Len(stack') = Len(stack) - 1
        /\ \A i \in 1..(Len(stack) - 1) : stack'[i] = stack[i]
        /\ Len(stack) \in Nat
    BY <1>1, <1>2, Returns, CallsIs
  <2>2. \A i \in 1..Len(stack') : i \in 1..Len(stack)
    BY <2>1
  <2> QED BY <1>1, <1>3, <2>1, <2>2, CallsIs
<1>8. Covered' /\ CleanOnSuccess'
  BY <1>1, <1>3, <1>5 DEF UmountInv, Covered, Reading, CleanOnSuccess
<1> QED BY <1>5, <1>6, <1>7, <1>8 DEF UmountInv

LEMMA UmountNext == UmountInv /\ [Next]_vars => UmountInv'
<1> SUFFICES ASSUME UmountInv, [Next]_vars PROVE UmountInv'
  OBVIOUS
<1>1. CASE UNCHANGED vars
  BY <1>1 DEF vars, programVars, UmountInv, Types, FreshIds, Calls, Covered, Left, Reading,
     CleanOnSuccess
<1> QED BY <1>1, OthersKeep, ReadingKeeps, LookingKeeps, DescendKeeps, UmountKeeps
     DEF Next, Program

(* When eemount_umount_roms returns 0 nothing of what was mounted at or    *)
(* below /storage/roms when it began is left, however the mounts were      *)
(* stacked and whoever mounts meanwhile (eemount.c:325-363).               *)
THEOREM SuccessIsClean == Spec => []CleanOnSuccess
<1>1. UmountInv => CleanOnSuccess
  BY DEF UmountInv
<1> QED BY <1>1, UmountInit, UmountNext, PTL DEF Spec

(* No step takes away a mount that is not at or below /storage/roms, for   *)
(* the children in the table lie below what they are mounted on            *)
(* (eemount.c:123-142).                                                    *)
THEOREM OthersAreLeft == Spec => OnlyRomsUnmounted
<1>1. UmountInv /\ [Next]_vars =>
        [\A e \in Entries(kernel) : e \in Entries(kernel') \/ IsRoms(e.at)]_vars
  <2> SUFFICES ASSUME UmountInv, Next, NEW e \in Entries(kernel), ~IsRoms(e.at)
               PROVE  e \in Entries(kernel')
    OBVIOUS
  <2>1. CASE Umount
    BY <2>1, Umounts
  <2>2. CASE Mount
    <3>1. PICK p \in Paths : kernel' = Mounted(kernel, p, nextId)
      BY <2>2 DEF Mount
    <3>2. p \in Seq(STRING)
      BY PathsAssumption
    <3> QED BY <3>1, <3>2, MountedTable DEF UmountInv, Types, FreshIds
  <2>3. CASE Interfere
    <3>1. \/ \E p \in Paths : kernel' = Mounted(kernel, p, nextId)
          \/ \E p \in Paths : /\ IsRoms(p) /\ CanUmount(kernel, p)
                              /\ kernel' = Without(kernel, Resolved(kernel, p))
      BY <2>3 DEF Interfere
    <3>2. \A p \in Paths : p \in Seq(STRING)
      BY PathsAssumption
    <3> QED BY <3>1, <3>2, MountedTable, UmountedTable DEF UmountInv, Types, FreshIds
  <2>4. CASE Start \/ GetTable \/ GetTableFails \/ Found \/ NoneFound \/ Descend
    BY <2>4 DEF Start, GetTable, GetTableFails, Found, NoneFound, Descend
  <2> QED BY <2>1, <2>2, <2>3, <2>4 DEF Next, Program
<1> QED BY <1>1, UmountInit, UmountNext, PTL DEF Spec, OnlyRomsUnmounted

-----------------------------------------------------------------------------
(* Why a run fails *)

AllVisible == \A e \in Entries(before) : IsRoms(e.at) => e \in Visible(before)

IsChild(t, k, j) == t[k].parent = t[j].id

(* How far the calls, of whose mounts those of K are there still, have     *)
(* come with the table t: what each of them is about is there, of its      *)
(* children those that it has not come to, and every child of what has not *)
(* been reached at all.                                                    *)
Reached(K, t, calls) ==
  /\ \A i \in 1..Len(calls) : t[calls[i].entry] \in K
  /\ \A i, j \in 1..Len(calls) : i < j => calls[i].entry < calls[j].entry
  /\ \A i, j \in 1..Len(calls) : j = i + 1 =>
       /\ IsChild(t, calls[j].entry, calls[i].entry)
       /\ calls[i].next = calls[j].entry + 1
  /\ \A i \in 1..Len(calls), k \in 1..Len(t) :
       IsChild(t, k, calls[i].entry) =>
         (t[k] \in K <=>
            k >= calls[i].next \/ (i < Len(calls) /\ k + 1 = calls[i].next))
  /\ \A j, k \in 1..Len(t) :
       /\ t[j] \in K /\ IsChild(t, k, j)
       /\ \A i \in 1..Len(calls) : calls[i].entry # j
       => t[k] \in K

Going == ret = 0 /\ Reached(Entries(kernel), table, stack)

Unhindered ==
  /\ pc # "failed"
  /\ Entries(kernel) \subseteq Entries(before)
  /\ \A e \in Entries(kernel) : IsRoms(e.at) => e \in Visible(kernel)
  /\ pc = "looking" => kernel = table
  /\ pc = "unmounting" => Entries(kernel) \subseteq Entries(table) /\ Going

HiddenInv ==
  UmountInv /\ (pc # "before" /\ ~excused /\ AllVisible => Unhindered)

(* The rest stays visible when a leaf is taken away. *)
LEMMA VisibleLargest ==
  ASSUME NEW t, NEW S \in SUBSET Entries(t),
         \A e \in S : e = Base \/ (~IsOvermounted(t, e) /\ \E f \in S : f.id = e.parent)
  PROVE  S \subseteq Visible(t)
BY DEF Visible

LEMMA VisibleStays ==
  ASSUME NEW t, IsTree(t), NEW s, NEW r \in Entries(t), ~HasChildren(t, r),
         Entries(s) = Entries(t) \ {r}
  PROVE  Visible(t) \ {r} \subseteq Visible(s)
<1>1. /\ Visible(t) \subseteq Entries(t)
      /\ \A e \in Visible(t) :
           e = Base \/ (~IsOvermounted(t, e) /\ \E f \in Visible(t) : f.id = e.parent)
  BY VisibleIs DEF IsTree
<1> DEFINE S == Visible(t) \ {r}
<1>2. S \in SUBSET Entries(s)
  BY <1>1
<1>3. ASSUME NEW e \in S
      PROVE  e = Base \/ (~IsOvermounted(s, e) /\ \E f \in S : f.id = e.parent)
  <2>1. ~IsOvermounted(t, e) => ~IsOvermounted(s, e)
    BY DEF IsOvermounted
  <2>2. \A f : f.id = e.parent => f # r
    BY <1>1 DEF HasChildren
  <2> QED BY <1>1, <2>1, <2>2
<1> HIDE DEF S
<1>4. S \subseteq Visible(s)
  BY <1>2, <1>3, VisibleLargest
<1> QED BY <1>4 DEF S

(* In a table a child stands after what it is on, and a place is one entry. *)
LEMMA Places ==
  ASSUME NEW t, TableOK(t)
  PROVE  /\ Len(t) \in Nat
         /\ \A j, k \in 1..Len(t) : IsChild(t, k, j) => j < k
         /\ \A j, k \in 1..Len(t) : t[j].id = t[k].id => j = k
         /\ \A j, k \in 1..Len(t) : t[j] = t[k] => j = k
         /\ \A e \in Entries(t) : \E k \in 1..Len(t) : e = t[k]
<1>1. /\ Len(t) \in Nat
      /\ \A k \in 1..Len(t) : t[k] \in Entries(t)
      /\ \A e \in Entries(t) : e.id \in Nat
      /\ \A j, k \in 1..Len(t) : j < k => t[j].id < t[k].id
  BY TableEntries
<1>2. \A j, k \in 1..Len(t) : t[j].id = t[k].id => j = k
  <2> SUFFICES ASSUME NEW j \in 1..Len(t), NEW k \in 1..Len(t), j # k
               PROVE  t[j].id # t[k].id
    OBVIOUS
  <2>1. t[j].id \in Nat /\ t[k].id \in Nat
    BY <1>1
  <2>2. t[j].id < t[k].id \/ t[k].id < t[j].id
    BY <1>1
  <2> QED BY <2>1, <2>2
<1>3. \A j, k \in 1..Len(t) : IsChild(t, k, j) => j < k
  <2> SUFFICES ASSUME NEW j \in 1..Len(t), NEW k \in 1..Len(t), IsChild(t, k, j)
               PROVE  j < k
    OBVIOUS
  <2>1. t[j].id < t[k].id
    BY <1>1 DEF IsChild, TableOK, IsTree
  <2>2. t[j].id \in Nat /\ t[k].id \in Nat
    BY <1>1
  <2>3. ~(k < j) /\ k # j
    BY <1>1, <2>1, <2>2
  <2> QED BY <1>1, <2>3
<1>4. \A j, k \in 1..Len(t) : t[j] = t[k] => j = k
  BY <1>2
<1> QED BY <1>1, <1>2, <1>3, <1>4 DEF Entries

(* The calls are about entries of the table. *)
AreCalls(t, calls) ==
  \A i \in 1..Len(calls) : calls[i].entry \in 1..Len(t) /\ calls[i].next \in Nat

LEMMA FirstReached ==
  ASSUME NEW t, TableOK(t), NEW calls, Len(calls) = 1, AreCalls(t, calls), calls[1].next = 2
  PROVE  Reached(Entries(t), t, calls)
<1>1. /\ \A k \in 1..Len(t) : t[k] \in Entries(t)
      /\ \A j, k \in 1..Len(t) : IsChild(t, k, j) => j < k
      /\ Len(t) \in Nat
  BY Places DEF Entries
<1>2. \A i \in 1..1 : calls[i].entry \in 1..Len(t) /\ i = 1
  BY DEF AreCalls
<1>3. \A k \in 1..Len(t) : IsChild(t, k, calls[1].entry) => k >= 2
  BY <1>1, <1>2
<1> QED BY <1>1, <1>2, <1>3 DEF Reached

LEMMA PushReached ==
  ASSUME NEW K, NEW t, TableOK(t), NEW calls, NEW more, NEW n \in Nat \ {0},
         Len(calls) = n, Len(more) = n + 1, AreCalls(t, calls), Reached(K, t, calls),
         NEW k \in 1..Len(t), k >= calls[n].next, IsChild(t, k, calls[n].entry),
         \A m \in 1..Len(t) :
           IsChild(t, m, calls[n].entry) /\ m >= calls[n].next => k <= m,
         \A i \in 1..(n - 1) : more[i] = calls[i],
         more[n].entry = calls[n].entry, more[n].next = k + 1,
         more[n + 1].entry = k, more[n + 1].next = k + 1
  PROVE  Reached(K, t, more)
<1>1. /\ Len(t) \in Nat /\ k \in Nat /\ n \in 1..n
      /\ \A j, m \in 1..Len(t) : IsChild(t, m, j) => j < m
      /\ \A i \in 1..n : calls[i].entry \in 1..Len(t) /\ calls[i].entry \in Nat
                         /\ calls[i].next \in Nat
  BY Places DEF AreCalls
<1>2. /\ \A i \in 1..n : more[i].entry = calls[i].entry
      /\ \A i \in 1..n : i < n => more[i].next = calls[i].next
      /\ \A i \in 1..(n + 1) : i \in 1..n \/ i = n + 1
  OBVIOUS
<1>3. \A i, j \in 1..n : i < j => calls[i].entry < calls[j].entry
  BY DEF Reached
<1>4. \A i, j \in 1..n : j = i + 1 =>
        /\ IsChild(t, calls[j].entry, calls[i].entry)
        /\ calls[i].next = calls[j].entry + 1
  BY DEF Reached
<1>5. \A i \in 1..n, m \in 1..Len(t) :
        IsChild(t, m, calls[i].entry) =>
          (t[m] \in K <=> m >= calls[i].next \/ (i < n /\ m + 1 = calls[i].next))
  BY DEF Reached
<1>6. \A j, m \in 1..Len(t) :
        t[j] \in K /\ IsChild(t, m, j) /\ (\A i \in 1..n : calls[i].entry # j) => t[m] \in K
  BY DEF Reached
<1>7. \A i \in 1..n : t[calls[i].entry] \in K
  BY DEF Reached
<1>8. t[k] \in K
  BY <1>1, <1>5
<1>9. \A i \in 1..n : calls[i].entry < k
  <2>1. calls[n].entry < k
    BY <1>1
  <2> TAKE i \in 1..n
  <2>2. i = n \/ calls[i].entry < calls[n].entry
    BY <1>1, <1>3
  <2> QED BY <1>1, <2>1, <2>2
<1>10. \A i \in 1..(n + 1) : t[more[i].entry] \in K
  BY <1>2, <1>7, <1>8
<1>11. \A i, j \in 1..(n + 1) : i < j => more[i].entry < more[j].entry
  <2> SUFFICES ASSUME NEW i \in 1..(n + 1), NEW j \in 1..(n + 1), i < j
               PROVE  more[i].entry < more[j].entry
    OBVIOUS
  <2>1. i \in 1..n
    BY <1>2
  <2>2. CASE j = n + 1
    BY <1>2, <1>9, <2>1, <2>2
  <2>3. CASE j \in 1..n
    BY <1>2, <1>3, <2>1, <2>3
  <2> QED BY <1>2, <2>2, <2>3
<1>12. \A i, j \in 1..(n + 1) : j = i + 1 =>
         /\ IsChild(t, more[j].entry, more[i].entry)
         /\ more[i].next = more[j].entry + 1
  <2> SUFFICES ASSUME NEW i \in 1..(n + 1), NEW j \in 1..(n + 1), j = i + 1
               PROVE  /\ IsChild(t, more[j].entry, more[i].entry)
                      /\ more[i].next = more[j].entry + 1
    OBVIOUS
  <2>1. CASE i = n
    <3>1. more[j].entry = k /\ more[i].entry = calls[n].entry /\ more[i].next = k + 1
      BY <2>1
    <3> QED BY <3>1
  <2>2. CASE i # n
    <3>1. i \in 1..n /\ j \in 1..n /\ i < n
      BY <2>2
    <3>2. /\ IsChild(t, calls[j].entry, calls[i].entry)
          /\ calls[i].next = calls[j].entry + 1
      BY <1>4, <3>1
    <3>3. /\ more[j].entry = calls[j].entry /\ more[i].entry = calls[i].entry
          /\ more[i].next = calls[i].next
      BY <1>2, <3>1
    <3> QED BY <3>2, <3>3
  <2> QED BY <2>1, <2>2
<1>13. \A i \in 1..(n + 1), m \in 1..Len(t) :
         IsChild(t, m, more[i].entry) =>
           (t[m] \in K <=> m >= more[i].next \/ (i < n + 1 /\ m + 1 = more[i].next))
  <2> SUFFICES ASSUME NEW i \in 1..(n + 1), NEW m \in 1..Len(t),
                      IsChild(t, m, more[i].entry)
               PROVE  t[m] \in K <=>
                        m >= more[i].next \/ (i < n + 1 /\ m + 1 = more[i].next)
    OBVIOUS
  <2>1. CASE i = n + 1
    <3>1. k < m /\ IsChild(t, m, k)
      BY <1>1, <2>1
    <3>2. \A l \in 1..n : calls[l].entry # k
      BY <1>1, <1>9
    <3>3. t[m] \in K
      BY <1>6, <1>8, <3>1, <3>2
    <3> QED BY <1>1, <2>1, <3>1, <3>3
  <2>2. CASE i = n
    <3>1. IsChild(t, m, calls[n].entry)
      BY <2>2
    <3>2. t[m] \in K <=> m >= calls[n].next
      BY <1>1, <1>5, <3>1
    <3>3. m >= calls[n].next <=> m >= k
      BY <1>1, <3>1
    <3> QED BY <1>1, <2>2, <3>2, <3>3
  <2>3. CASE i \in 1..n /\ i < n
    <3>1. IsChild(t, m, calls[i].entry) /\ more[i].next = calls[i].next
      BY <1>2, <2>3
    <3> QED BY <1>5, <2>3, <3>1
  <2> QED BY <1>2, <2>1, <2>2, <2>3
<1>14. \A j, m \in 1..Len(t) :
         /\ t[j] \in K /\ IsChild(t, m, j)
         /\ \A i \in 1..(n + 1) : more[i].entry # j
         => t[m] \in K
  <2> SUFFICES ASSUME NEW j \in 1..Len(t), NEW m \in 1..Len(t), t[j] \in K,
                      IsChild(t, m, j), \A i \in 1..(n + 1) : more[i].entry # j
               PROVE  t[m] \in K
    OBVIOUS
  <2>1. \A i \in 1..n : calls[i].entry # j
    <3> TAKE i \in 1..n
    <3>1. i \in 1..(n + 1)
      OBVIOUS
    <3> QED BY <1>2, <3>1
  <2> QED BY <1>6, <2>1
<1> QED BY <1>10, <1>11, <1>12, <1>13, <1>14 DEF Reached

LEMMA PopReached ==
  ASSUME NEW K, NEW t, TableOK(t), NEW calls, NEW less, NEW n \in Nat, n > 1,
         Len(calls) = n, Len(less) = n - 1, AreCalls(t, calls), Reached(K, t, calls),
         \A i \in 1..(n - 1) : less[i] = calls[i]
  PROVE  Reached(K \ {t[calls[n].entry]}, t, less)
<1> DEFINE top == calls[n].entry
           rest == K \ {t[top]}
<1>1. /\ Len(t) \in Nat /\ n \in 1..n /\ n - 1 \in 1..n /\ n - 1 \in 1..(n - 1)
      /\ \A j, m \in 1..Len(t) : IsChild(t, m, j) => j < m
      /\ \A i \in 1..n : calls[i].entry \in 1..Len(t) /\ calls[i].entry \in Nat
                         /\ calls[i].next \in Nat
      /\ top \in 1..Len(t)
  BY Places DEF AreCalls
<1>2. /\ \A j, m \in 1..Len(t) : t[j].id = t[m].id => j = m
      /\ \A j, m \in 1..Len(t) : t[j] = t[m] => j = m
      /\ \A i \in 1..(n - 1) : i \in 1..n /\ i < n
  BY <1>1, Places
<1>3. \A i, j \in 1..n : i < j => calls[i].entry < calls[j].entry
  BY DEF Reached
<1>4. \A i, j \in 1..n : j = i + 1 =>
        /\ IsChild(t, calls[j].entry, calls[i].entry)
        /\ calls[i].next = calls[j].entry + 1
  BY DEF Reached
<1>5. \A i \in 1..n, m \in 1..Len(t) :
        IsChild(t, m, calls[i].entry) =>
          (t[m] \in K <=> m >= calls[i].next \/ (i < n /\ m + 1 = calls[i].next))
  BY DEF Reached
<1>6. \A j, m \in 1..Len(t) :
        t[j] \in K /\ IsChild(t, m, j) /\ (\A i \in 1..n : calls[i].entry # j) => t[m] \in K
  BY DEF Reached
<1>7. \A i \in 1..n : t[calls[i].entry] \in K
  BY DEF Reached
<1>8. \A m \in 1..Len(t) : t[m] \in rest <=> t[m] \in K /\ m # top
  BY <1>1, <1>2
<1>9. IsChild(t, top, calls[n - 1].entry) /\ calls[n - 1].next = top + 1
  <2>1. n = (n - 1) + 1
    OBVIOUS
  <2> QED BY <1>1, <1>4, <2>1
<1>10. \A i \in 1..(n - 1) : calls[i].entry < top
  BY <1>1, <1>2, <1>3
<1> HIDE DEF top, rest
<1>11. \A i \in 1..(n - 1) : t[less[i].entry] \in rest
  <2> TAKE i \in 1..(n - 1)
  <2>1. t[calls[i].entry] \in K /\ calls[i].entry # top /\ calls[i].entry \in 1..Len(t)
    BY <1>1, <1>2, <1>7, <1>10
  <2> QED BY <1>8, <2>1
<1>12. \A i, j \in 1..(n - 1) : i < j => less[i].entry < less[j].entry
  BY <1>2, <1>3
<1>13. \A i, j \in 1..(n - 1) : j = i + 1 =>
         /\ IsChild(t, less[j].entry, less[i].entry)
         /\ less[i].next = less[j].entry + 1
  BY <1>2, <1>4
<1>14. \A i \in 1..(n - 1), m \in 1..Len(t) :
         IsChild(t, m, less[i].entry) =>
           (t[m] \in rest <=> m >= less[i].next \/ (i < n - 1 /\ m + 1 = less[i].next))
  <2> SUFFICES ASSUME NEW i \in 1..(n - 1), NEW m \in 1..Len(t),
                      IsChild(t, m, calls[i].entry)
               PROVE  t[m] \in rest <=>
                        m >= calls[i].next \/ (i < n - 1 /\ m + 1 = calls[i].next)
    OBVIOUS
  <2>1. i \in 1..n /\ i < n /\ calls[i].next \in Nat
    BY <1>1, <1>2
  <2>2. t[m] \in K <=> m >= calls[i].next \/ m + 1 = calls[i].next
    BY <1>5, <2>1
  <2>3. CASE i = n - 1
    <3>1. t[m] \in K <=> m >= top + 1 \/ m = top
      BY <1>1, <1>9, <2>2, <2>3
    <3> QED BY <1>1, <1>8, <1>9, <2>3, <3>1
  <2>4. CASE i < n - 1
    <3>1. calls[i].entry < calls[n - 1].entry
      BY <1>1, <1>3, <2>1, <2>4
    <3>2. calls[i].entry # calls[n - 1].entry
      BY <1>1, <2>1, <3>1
    <3>3. t[calls[i].entry].id # t[calls[n - 1].entry].id
      BY <1>1, <1>2, <2>1, <3>2
    <3>4. m # top
      BY <1>9, <3>3 DEF IsChild
    <3> QED BY <1>8, <2>2, <2>4, <3>4
  <2> QED BY <2>1, <2>3, <2>4
<1>15. \A j, m \in 1..Len(t) :
         /\ t[j] \in rest /\ IsChild(t, m, j)
         /\ \A i \in 1..(n - 1) : less[i].entry # j
         => t[m] \in rest
  <2> SUFFICES ASSUME NEW j \in 1..Len(t), NEW m \in 1..Len(t), t[j] \in rest,
                      IsChild(t, m, j), \A i \in 1..(n - 1) : less[i].entry # j
               PROVE  t[m] \in rest
    OBVIOUS
  <2>1. t[j] \in K /\ j # top
    BY <1>8
  <2>2. \A i \in 1..n : calls[i].entry # j
    <3> TAKE i \in 1..n
    <3>1. i = n \/ i \in 1..(n - 1)
      OBVIOUS
    <3> QED BY <2>1, <3>1 DEF top
  <2>3. t[m] \in K
    BY <1>6, <2>1, <2>2
  <2>4. t[calls[n - 1].entry].id # t[j].id
    BY <1>1, <1>2, <2>2
  <2>5. m # top
    BY <1>9, <2>4 DEF IsChild
  <2> QED BY <1>8, <2>3, <2>5
<1>16. Reached(rest, t, less)
  BY <1>11, <1>12, <1>13, <1>14, <1>15 DEF Reached
<1> QED BY <1>16 DEF rest, top

LEMMA CallsAreCalls ==
  ASSUME UmountInv, pc = "unmounting"
  PROVE  AreCalls(table, stack)
BY CallsIs DEF AreCalls

LEMMA FoundGoes ==
  ASSUME UmountInv, Found, Unhindered
  PROVE  Unhindered'
<1> DEFINE f == [entry |-> First(Sought), next |-> 2]
<1>1. /\ pc = "looking" /\ pc' = "unmounting" /\ ret' = 0 /\ stack' = <<f>>
      /\ UNCHANGED <<kernel, table, before>> /\ kernel = table
      /\ f.entry = First(Sought) /\ f.next = 2
  BY DEF Found, Unhindered
<1>2. First(Sought) \in 1..Len(table) /\ TableOK(table)
  BY <1>1, SoughtIs DEF Found, UmountInv, Types, Reading
<1> HIDE DEF f
<1>3. Len(stack') = 1 /\ stack'[1] = f
  BY <1>1
<1>4. AreCalls(table, stack')
  BY <1>1, <1>2, <1>3 DEF AreCalls
<1>5. Reached(Entries(table), table, stack')
  BY <1>1, <1>2, <1>3, <1>4, FirstReached
<1>6. Going'
  BY <1>1, <1>5 DEF Going
<1> QED BY <1>1, <1>6 DEF Unhindered

LEMMA DescendGoes ==
  ASSUME UmountInv, Descend, Unhindered
  PROVE  Unhindered'
<1> DEFINE k == First(Children)
           n == Len(stack)
<1>1. /\ pc = "unmounting" /\ UNCHANGED <<kernel, pc, table, ret, before>>
      /\ Going
  BY DEF Descend, Unhindered
<1>2. /\ k \in Children /\ \A m \in Children : k <= m
      /\ Len(stack') = n + 1
      /\ \A i \in 1..(n - 1) : stack'[i] = stack[i]
      /\ stack'[n].entry = stack[n].entry /\ stack'[n].next = k + 1
      /\ stack'[n + 1].entry = k /\ stack'[n + 1].next = k + 1
  BY Descends DEF Top
<1>3. /\ k \in 1..Len(table) /\ k >= stack[n].next
      /\ IsChild(table, k, stack[n].entry)
  BY <1>1, <1>2, ChildrenIs DEF Top, IsChild
<1>4. /\ n \in Nat \ {0} /\ stack[n].next \in Nat \ {0}
      /\ TableOK(table) /\ Len(table) \in Nat /\ AreCalls(table, stack)
  BY <1>1, CallsIs, CallsAreCalls, Places
<1>5. \A m \in 1..Len(table) :
        IsChild(table, m, stack[n].entry) /\ m >= stack[n].next => k <= m
  <2> TAKE m \in 1..Len(table)
  <2> HAVE IsChild(table, m, stack[n].entry) /\ m >= stack[n].next
  <2>1. m \in stack[n].next..Len(table)
    BY <1>4
  <2>2. m \in Children
    BY <2>1 DEF Children, Top, IsChild
  <2> QED BY <1>2, <2>2
<1>6. Len(stack) = n /\ Reached(Entries(kernel), table, stack)
  BY <1>1 DEF Going
<1> HIDE DEF k, n
<1>7. Reached(Entries(kernel), table, stack')
  BY <1>2, <1>3, <1>4, <1>5, <1>6, PushReached
<1>8. Going'
  BY <1>1, <1>7 DEF Going
<1> QED BY <1>1, <1>8 DEF Unhindered

(* A call that is through with its children finds its mount visible and    *)
(* nothing on it.                                                          *)
LEMMA TopGives ==
  ASSUME UmountInv, pc = "unmounting", Unhindered, Children = {}
  PROVE  /\ table[Top.entry] \in Entries(kernel)
         /\ Resolved(kernel, table[Top.entry].at) = table[Top.entry]
         /\ CanUmount(kernel, table[Top.entry].at)
<1> DEFINE e == table[Top.entry]
<1>1. /\ Top.entry \in 1..Len(table) /\ Top.next \in Nat /\ IsRoms(e.at) /\ TableOK(table)
      /\ Len(table) \in Nat /\ Len(stack) \in 1..Len(stack)
      /\ \A f \in Entries(table) : \E m \in 1..Len(table) : f = table[m]
  BY CallsIs, Places DEF Top
<1>2. e \in Entries(kernel) /\ Entries(kernel) \subseteq Entries(table)
  BY <1>1 DEF Unhindered, Going, Reached, Top
<1>3. e \in Entries(kernel) /\ e \in Visible(kernel) /\ e.at \in Seq(STRING)
  BY <1>1, <1>2, TableEntries DEF Unhindered, UmountInv, Types
<1>4. ~HasChildren(kernel, e)
  <2> SUFFICES ASSUME NEW f \in Entries(kernel), f.parent = e.id PROVE FALSE
    BY DEF HasChildren
  <2>1. PICK m \in 1..Len(table) : f = table[m]
    BY <1>1, <1>2
  <2>2. IsChild(table, m, Top.entry) /\ table[m] \in Entries(kernel)
    BY <2>1 DEF IsChild
  <2>3. m >= Top.next
    BY <1>1, <2>2 DEF Unhindered, Going, Reached, Top
  <2>4. m \in Children
    BY <1>1, <2>2, <2>3 DEF Children, IsChild
  <2> QED BY <2>4
<1>5. IsEnd(kernel, e.at, e)
  BY <1>3, <1>4, AboveOrder DEF IsEnd, Along, HasChildren
<1>6. Resolved(kernel, e.at) = e
  BY <1>3, <1>5, ResolvedIs DEF UmountInv, Types, TableOK
<1> QED BY <1>3, <1>4, <1>6 DEF CanUmount

LEMMA UmountGoes ==
  ASSUME UmountInv, Umount, Unhindered, ~excused'
  PROVE  Unhindered'
<1> DEFINE e == table[Top.entry]
           n == Len(stack)
<1>1. /\ pc = "unmounting" /\ Children = {} /\ UNCHANGED <<table, before>> /\ Going
      /\ ret = 0
  BY DEF Umount, Unhindered, Going
<1>2. /\ e \in Entries(kernel) /\ Resolved(kernel, e.at) = e /\ CanUmount(kernel, e.at)
  BY <1>1, TopGives
<1>3. kernel' = Without(kernel, e) /\ ReturnWith(0)
  BY <1>1, <1>2 DEF Umount
<1>4. /\ Top = stack[n] /\ Top.entry \in 1..Len(table) /\ e.at \in Seq(STRING) /\ IsRoms(e.at)
      /\ n \in Nat /\ n >= 1 /\ Len(table) \in Nat
      /\ \A i \in 1..n : stack[i].entry \in 1..Len(table)
      /\ \A i \in 1..n : stack[i].next \in Nat \ {0}
      /\ TableOK(table)
  BY <1>1, CallsIs, TableEntries DEF Top
<1>5. /\ TableOK(kernel) /\ ~HasChildren(kernel, e) /\ TableOK(kernel')
      /\ Entries(kernel') = Entries(kernel) \ {e}
  BY <1>2, <1>3, <1>4, UmountedTable DEF UmountInv, Types
<1>6. \A f \in Entries(kernel') : IsRoms(f.at) => f \in Visible(kernel')
  BY <1>2, <1>5, VisibleStays DEF Unhindered, TableOK
<1>7. /\ pc' = IF n > 1 THEN "unmounting" ELSE "reading"
      /\ ret' = 0 /\ Len(stack') = n - 1
      /\ \A i \in 1..(n - 1) : stack'[i] = stack[i]
  BY <1>1, <1>3, Returns DEF ReturnWith
<1>8. CASE n = 1
  BY <1>1, <1>5, <1>6, <1>7, <1>8 DEF Unhindered
<1>9. CASE n > 1
  <2>1. AreCalls(table, stack) /\ Reached(Entries(kernel), table, stack) /\ Len(stack) = n
    BY <1>1, CallsAreCalls DEF Going
  <2>2. e = table[stack[n].entry]
    BY <1>4
  <2> HIDE DEF e, n
  <2>3. Reached(Entries(kernel) \ {e}, table, stack')
    BY <1>4, <1>7, <1>9, <2>1, <2>2, PopReached
  <2>4. Going'
    BY <1>1, <1>5, <1>7, <2>3 DEF Going
  <2> QED BY <1>1, <1>5, <1>6, <1>7, <1>9, <2>4 DEF Unhindered
<1>10. n = 1 \/ n > 1
  <2> HIDE DEF n
  <2> QED BY <1>4
<1> QED BY <1>8, <1>9, <1>10, Zenon

LEMMA HiddenInit == Init => HiddenInv
BY UmountInit DEF HiddenInv, Init

LEMMA HiddenNext == HiddenInv /\ [Next]_vars => HiddenInv'
<1> SUFFICES ASSUME HiddenInv, [Next]_vars, pc' # "before", ~excused', AllVisible'
             PROVE  Unhindered'
  BY UmountNext DEF HiddenInv
<1>1. UmountInv
  BY DEF HiddenInv
<1>2. CASE Start
  <2>1. Entries(before') = Entries(kernel) /\ kernel' = kernel /\ pc' = "reading"
    BY <1>2 DEF Start, Entries
  <2> QED BY <2>1, <1>2 DEF Start, Unhindered, AllVisible
<1>3. ASSUME ~Start, ~Mount PROVE Unhindered'
  <2>1. /\ UNCHANGED before /\ (AllVisible' <=> AllVisible)
        /\ pc # "before" /\ ~excused
    BY <1>3 DEF Next, Program, vars, programVars, GetTable, GetTableFails, Found, NoneFound,
       Descend, Umount, Interfere, Running, AllVisible
  <2>2. Unhindered
    BY <2>1 DEF HiddenInv
  <2>3. CASE GetTable
    BY <2>2, <2>3 DEF GetTable, Unhindered
  <2>4. CASE NoneFound
    BY <2>2, <2>4 DEF NoneFound, Unhindered
  <2>5. ~GetTableFails /\ ~Interfere
    BY DEF GetTableFails, Interfere
  <2>6. CASE UNCHANGED vars
    BY <2>2, <2>6 DEF vars, programVars, Unhindered, Going
  <2> QED BY <1>1, <1>3, <2>2, <2>3, <2>4, <2>5, <2>6, FoundGoes, DescendGoes, UmountGoes
          DEF Next, Program
<1>4. ~Mount
  BY DEF Mount, programVars
<1> QED BY <1>2, <1>3, <1>4

(* A run that nobody interferes with, that can read the table and finds no *)
(* mount busy fails only if it began with a mount at or below              *)
(* /storage/roms that another one hid: stacked mounts and mounts in mounts *)
(* are all unmounted in the order the recursion takes, each at the moment  *)
(* its path leads to it (eemount.c:133-142, 337-361).                      *)
THEOREM HiddenMakesFail == Spec => []FailsOnlyOverHidden
<1>1. HiddenInv => FailsOnlyOverHidden
  BY DEF HiddenInv, Unhindered, AllVisible, FailsOnlyOverHidden
<1> QED BY <1>1, HiddenInit, HiddenNext, PTL DEF Spec

-----------------------------------------------------------------------------
(* What a failed run has achieved *)

(* Nothing but /storage is mounted on its directory. *)
OnlyBase(t) == \A e \in Entries(t) : e.at = <<>> => e = Base

Rising == \A i, j \in 1..Len(stack) : i < j => stack[i].entry < stack[j].entry

(* From the entry the outermost call is about a path of children leads to  *)
(* one that is visible and carries no other, and what of the path is not   *)
(* being worked on is still to come.                                       *)
LeadsTo(k, path) ==
  /\ k \in path /\ stack[1].entry \in path
  /\ table[k] \in Visible(table) /\ ~HasChildren(table, table[k])
  /\ \A j \in path \ {k} : \E m \in path : IsChild(table, m, j)
  /\ \A j \in path, i \in 1..Len(stack) :
       IsChild(table, j, stack[i].entry) /\ (\A q \in 1..Len(stack) : stack[q].entry # j) =>
         j >= stack[i].next

Awaits ==
  Rising /\ \E path \in SUBSET (1..Len(table)) : \E k \in path : LeadsTo(k, path)

(* As long as nothing was unmounted the program works on the table of the  *)
(* beginning, and towards a mount it will unmount.                         *)
ProgressMade ==
  \/ Len(kernel) < Len(before)
  \/ /\ kernel = before /\ pc # "failed"
     /\ Reading => table = kernel
     /\ pc = "unmounting" => Awaits

ProgressInv ==
  /\ UmountInv /\ OnlyBase(kernel)
  /\ pc # "before" /\ ~excused /\ ~CoveredInside(before) => ProgressMade

(* What lies at or below /storage/roms is not /storage, and the other way  *)
(* round what a path from below leads through is, or is /storage.          *)
LEMMA RomsPlaces ==
  ASSUME NEW p \in Seq(STRING), NEW q \in Seq(STRING)
  PROVE  /\ IsRoms(q) /\ IsAbove(q, p) => IsRoms(p)
         /\ IsRoms(p) /\ IsAbove(q, p) => IsRoms(q) \/ q = <<>>
         /\ IsRoms(q) /\ IsAbove(q, Roms) => q = Roms
         /\ IsRoms(Roms)
<1>1. Roms \in Seq(STRING) /\ Len(q) \in Nat /\ Len(Roms) = 1
  BY RootAbove, RomsAssumption, LenProperties
<1>2. IsRoms(p) /\ IsAbove(q, p) => IsAbove(Roms, q) \/ IsAbove(q, Roms)
  BY <1>1, AboveOrder DEF IsRoms
<1>3. ASSUME IsAbove(q, Roms) PROVE q = Roms \/ q = <<>>
  <2>1. Len(q) <= 1
    BY <1>1, <1>3 DEF IsAbove
  <2>2. Len(q) = 0 => q = <<>>
    BY EmptySeq
  <2>3. Len(Roms) <= Len(q) => q = Roms
    BY <1>1, <1>3, AboveOrder
  <2> QED BY <1>1, <2>1, <2>2, <2>3
<1>4. IsRoms(Roms)
  BY <1>1, AboveOrder DEF IsRoms
<1>5. IsRoms(q) /\ IsAbove(q, p) => IsRoms(p)
  BY <1>1, AboveOrder DEF IsRoms
<1>6. IsRoms(q) /\ IsAbove(q, Roms) => q = Roms
  BY <1>1, AboveOrder DEF IsRoms
<1> QED BY <1>2, <1>3, <1>4, <1>5, <1>6 DEF IsRoms

(* The first mount a pass comes to is visible. *)
LEMMA FirstVisible ==
  ASSUME NEW t, TableOK(t), OnlyBase(t), ~CoveredInside(t),
         NEW e \in Entries(t), IsRoms(e.at),
         e.at = Roms \/ \A f \in Entries(t) : f.at # Roms,
         \A f \in Entries(t) : f.id < e.id /\ IsRoms(f.at) => e.at = Roms /\ f.at # Roms
  PROVE  e \in Visible(t)
<1>1. \A f \in Entries(t) : f.at \in Seq(STRING) /\ f.id \in Nat /\ f.id >= 1
  BY TableEntries
<1>2. Base \in Entries(t) /\ Base \in Visible(t) /\ Base.parent = 0 /\ Base.id = 1 /\ e # Base
  BY VisibleIs, RootAbove DEF TableOK, IsTree, Base
<1>3. PICK f \in Entries(t) : f.id = e.parent
  BY <1>2 DEF TableOK, IsTree
<1>4. f.id < e.id /\ IsAbove(f.at, e.at)
  BY <1>3 DEF TableOK, IsTree
<1>5. ~IsRoms(f.at)
  <2> SUFFICES ASSUME IsRoms(f.at) PROVE FALSE
    OBVIOUS
  <2>1. e.at = Roms /\ f.at # Roms
    BY <1>4
  <2> QED BY <1>1, <1>4, <2>1, RomsPlaces
<1>6. f = Base
  BY <1>1, <1>4, <1>5, RomsPlaces DEF OnlyBase
<1>7. ~IsOvermounted(t, e)
  <2> SUFFICES ASSUME NEW g \in Entries(t), g # e, g.parent = e.parent, IsAbove(g.at, e.at)
               PROVE  FALSE
    BY DEF IsOvermounted
  <2>1. g # Base
    BY <1>2, <1>3, <1>6
  <2>2. IsRoms(g.at)
    BY <1>1, <2>1, RomsPlaces DEF OnlyBase
  <2>3. g.at # e.at
    BY DEF TableOK, IsTree
  <2>4. e.at # Roms
    BY <1>1, <2>2, <2>3, RomsPlaces
  <2>5. g.at # Roms
    BY <2>4
  <2> QED BY <2>2, <2>5 DEF CoveredInside
<1> QED BY <1>2, <1>3, <1>6, <1>7, VisibleIs

(* A visible mount there that carries another carries a visible one. *)
LEMMA ChildVisible ==
  ASSUME NEW t, TableOK(t), ~CoveredInside(t),
         NEW e \in Visible(t), IsRoms(e.at), HasChildren(t, e)
  PROVE  \E c \in Visible(t) : c.parent = e.id /\ IsRoms(c.at)
<1>1. \A f \in Entries(t) : f.at \in Seq(STRING)
  BY TableEntries
<1>2. Base \in Entries(t) /\ e \in Entries(t)
  BY VisibleIs DEF TableOK, IsTree
<1>3. \A c \in Entries(t) : c.parent = e.id => IsRoms(c.at)
  <2> TAKE c \in Entries(t)
  <2> HAVE c.parent = e.id
  <2>1. IsAbove(e.at, c.at)
    BY <1>2 DEF TableOK, IsTree
  <2> QED BY <1>1, <1>2, <2>1, RomsPlaces
<1>4. ASSUME NEW c \in Entries(t), c.parent = e.id, ~IsOvermounted(t, c)
      PROVE  c \in Visible(t) /\ IsRoms(c.at)
  BY <1>2, <1>3, <1>4, VisibleIs
<1>5. CASE \E c \in Entries(t) : c.parent = e.id /\ c.at = Roms
  <2>1. PICK c \in Entries(t) : c.parent = e.id /\ c.at = Roms
    BY <1>5
  <2>2. ~IsOvermounted(t, c)
    <3> SUFFICES ASSUME NEW f \in Entries(t), f # c, f.parent = e.id, IsAbove(f.at, Roms)
                 PROVE  FALSE
      BY <2>1 DEF IsOvermounted
    <3>1. f.at = Roms
      BY <1>1, <1>3, RomsPlaces
    <3> QED BY <2>1, <3>1 DEF TableOK, IsTree
  <2> QED BY <1>4, <2>1, <2>2
<1>6. CASE \A c \in Entries(t) : c.parent = e.id => c.at # Roms
  <2>1. PICK c \in Entries(t) : c.parent = e.id
    BY DEF HasChildren
  <2>2. ~IsOvermounted(t, c)
    <3> SUFFICES ASSUME NEW f \in Entries(t), f # c, f.parent = c.parent, IsAbove(f.at, c.at)
                 PROVE  FALSE
      BY DEF IsOvermounted
    <3>1. IsRoms(f.at) /\ f.at # Roms
      BY <1>3, <1>6, <2>1
    <3> QED BY <3>1 DEF CoveredInside
  <2> QED BY <1>4, <2>1, <2>2
<1> QED BY <1>5, <1>6

(* A path of visible mounts, each on the one before, that ends at k. *)
IsPath(t, e, k, path) ==
  /\ path \in SUBSET (1..Len(t)) /\ e \in path /\ k \in path
  /\ \A j \in path \ {k} : \E m \in path : IsChild(t, m, j)

LEMMA PathToLeaf ==
  ASSUME NEW t, TableOK(t), ~CoveredInside(t),
         NEW e \in 1..Len(t), t[e] \in Visible(t), IsRoms(t[e].at)
  PROVE  \E path, k : /\ IsPath(t, e, k, path)
                      /\ t[k] \in Visible(t) /\ ~HasChildren(t, t[k])
<1> DEFINE Ends(k) == /\ \E path : IsPath(t, e, k, path)
                      /\ t[k] \in Visible(t) /\ IsRoms(t[k].at)
           T == {k \in 1..Len(t) : Ends(k)}
<1>1. Len(t) \in Nat
  BY TableEntries
<1>2. IsPath(t, e, e, {e})
  BY DEF IsPath
<1>3. Ends(e)
  BY <1>2
<1>4. T \in SUBSET (1..Len(t)) /\ T # {}
  BY <1>3
<1>5. PICK k \in T : \A m \in T : m <= k
  <2> HIDE DEF T
  <2> QED BY <1>1, <1>4, Greatest
<1>6. PICK path : IsPath(t, e, k, path)
  BY <1>5
<1>7. ~HasChildren(t, t[k])
  <2> SUFFICES ASSUME HasChildren(t, t[k]) PROVE FALSE
    OBVIOUS
  <2>1. PICK c \in Visible(t) : c.parent = t[k].id /\ IsRoms(c.at)
    BY <1>5, ChildVisible
  <2>2. c \in Entries(t)
    BY VisibleIs DEF TableOK, IsTree
  <2>3. PICK m \in 1..Len(t) : c = t[m]
    BY <2>2, Places
  <2>4. IsChild(t, m, k) /\ k < m
    BY <1>5, <2>1, <2>3, Places DEF IsChild
  <2>5. IsPath(t, e, m, path \cup {m})
    BY <1>6, <2>3, <2>4 DEF IsPath
  <2>6. Ends(m)
    BY <2>1, <2>3, <2>5
  <2>7. m <= k
    BY <1>5, <2>3, <2>6
  <2>8. k \in Nat /\ m \in Nat
    BY <1>1, <1>5, <2>3
  <2> HIDE DEF T
  <2> QED BY <2>4, <2>7, <2>8
<1> QED BY <1>5, <1>6, <1>7

LEMMA FoundAwaits ==
  ASSUME UmountInv, Found, kernel = before, table = kernel, OnlyBase(kernel),
         ~CoveredInside(before)
  PROVE  Awaits'
<1> DEFINE f == [entry |-> First(Sought), next |-> 2]
           e == First(Sought)
<1>1. /\ pc = "looking" /\ stack' = <<f>> /\ UNCHANGED <<table, kernel>>
      /\ f.entry = e /\ f.next = 2 /\ Sought # {}
  BY DEF Found
<1>2. /\ TableOK(table) /\ Left = Entries(table) /\ pass \in {0, 1}
  BY DEF UmountInv, Types, Left
<1>3. Sought \in SUBSET Nat
  BY DEF Sought
<1>4. /\ e \in Sought /\ \A m \in Sought : e <= m
  BY <1>1, <1>3, FirstIs
<1> HIDE DEF f, e
<1>5. e \in 1..Len(table) /\ IsSought(table[e])
  BY <1>4 DEF Sought
<1>6. /\ Len(table) \in Nat
      /\ \A g \in Entries(table) : \E k \in 1..Len(table) : g = table[k]
      /\ \A j, k \in 1..Len(table) : j < k => table[j].id < table[k].id
      /\ \A g \in Entries(table) : g.id \in Nat
      /\ \A k \in 1..Len(table) : table[k] \in Entries(table)
      /\ \A j, k \in 1..Len(table) : IsChild(table, k, j) => j < k
  BY <1>2, Places, TableEntries
<1>7. IsRoms(table[e].at)
  BY <1>5, RomsPlaces, RootAbove DEF IsSought
<1>8. \A g \in Entries(table) : g.id < table[e].id => ~IsSought(g)
  <2> SUFFICES ASSUME NEW g \in Entries(table), g.id < table[e].id, IsSought(g) PROVE FALSE
    OBVIOUS
  <2>1. PICK k \in 1..Len(table) : g = table[k]
    BY <1>6
  <2>2. k \in Sought
    BY <2>1 DEF Sought
  <2>3. e <= k
    BY <1>4, <2>2
  <2>4. e = k \/ table[e].id < table[k].id
    BY <1>5, <1>6, <2>1, <2>3
  <2>5. table[e].id \in Nat /\ table[k].id \in Nat
    BY <1>5, <1>6, <2>1
  <2> QED BY <2>1, <2>4, <2>5
<1>9. pass = 1 => \A g \in Entries(table) : g.at # Roms
  BY <1>2 DEF UmountInv, Covered
<1>10. table[e] \in Visible(table)
  <2>1. table[e].at = Roms \/ \A g \in Entries(table) : g.at # Roms
    BY <1>2, <1>5, <1>9 DEF IsSought
  <2>2. \A g \in Entries(table) :
          g.id < table[e].id /\ IsRoms(g.at) => table[e].at = Roms /\ g.at # Roms
    BY <1>2, <1>5, <1>8, <1>9 DEF IsSought
  <2> QED BY <1>2, <1>5, <1>6, <1>7, <2>1, <2>2, FirstVisible
<1>11. PICK path, k : /\ IsPath(table, e, k, path)
                      /\ table[k] \in Visible(table) /\ ~HasChildren(table, table[k])
  BY <1>2, <1>5, <1>7, <1>10, PathToLeaf
<1>12. Len(stack') = 1 /\ stack'[1] = f
  BY <1>1
<1>13. LeadsTo(k, path)'
  <2>1. \A j \in path : IsChild(table, j, e) => j >= 2
    BY <1>5, <1>6, <1>11 DEF IsPath
  <2>2. \A i \in 1..1 : i = 1
    OBVIOUS
  <2> QED BY <1>1, <1>11, <1>12, <2>1, <2>2 DEF LeadsTo, IsPath
<1>14. Rising'
  BY <1>12 DEF Rising
<1> QED BY <1>1, <1>11, <1>13, <1>14 DEF Awaits, IsPath

LEMMA DescendAwaits ==
  ASSUME UmountInv, Descend, Awaits
  PROVE  Awaits'
<1> DEFINE k == First(Children)
           n == Len(stack)
<1>1. pc = "unmounting" /\ UNCHANGED table
  BY DEF Descend
<1>2. /\ k \in Children /\ \A m \in Children : k <= m
      /\ Len(stack') = n + 1
      /\ \A i \in 1..(n - 1) : stack'[i] = stack[i]
      /\ stack'[n].entry = stack[n].entry /\ stack'[n].next = k + 1
      /\ stack'[n + 1].entry = k /\ stack'[n + 1].next = k + 1
  BY Descends DEF Top
<1>3. /\ k \in 1..Len(table) /\ IsChild(table, k, stack[n].entry)
  BY <1>1, <1>2, ChildrenIs DEF Top, IsChild
<1>4. /\ n \in Nat /\ n >= 1 /\ n \in 1..n /\ Len(table) \in Nat /\ TableOK(table)
      /\ \A i \in 1..n : stack[i].entry \in 1..Len(table) /\ stack[i].next \in Nat \ {0}
      /\ \A j, m \in 1..Len(table) : IsChild(table, m, j) => j < m
  BY <1>1, CallsIs, Places
<1>5. \A m \in 1..Len(table) :
        IsChild(table, m, stack[n].entry) /\ m >= stack[n].next => k <= m
  <2> TAKE m \in 1..Len(table)
  <2> HAVE IsChild(table, m, stack[n].entry) /\ m >= stack[n].next
  <2>1. m \in stack[n].next..Len(table)
    BY <1>4
  <2>2. m \in Children
    BY <2>1 DEF Children, Top, IsChild
  <2> QED BY <1>2, <2>2
<1>6. PICK path \in SUBSET (1..Len(table)) : \E end \in path : LeadsTo(end, path)
  BY DEF Awaits
<1>6a. PICK end \in path : LeadsTo(end, path)
  BY <1>6
<1>7. /\ \A i, j \in 1..n : i < j => stack[i].entry < stack[j].entry
      /\ \A j \in path, i \in 1..n :
           IsChild(table, j, stack[i].entry) /\ (\A q \in 1..n : stack[q].entry # j) =>
             j >= stack[i].next
  BY <1>6a DEF Awaits, Rising, LeadsTo
<1> HIDE DEF k, n
<1>8. /\ \A i \in 1..n : stack'[i].entry = stack[i].entry
      /\ \A i \in 1..n : i < n => stack'[i].next = stack[i].next
      /\ \A i \in 1..(n + 1) : i \in 1..n \/ i = n + 1
      /\ \A i \in 1..n : i \in 1..(n + 1)
  BY <1>2, <1>4
<1>9. \A i \in 1..n : stack[i].entry < k
  <2>1. stack[n].entry < k
    BY <1>3, <1>4
  <2> TAKE i \in 1..n
  <2>2. i = n \/ stack[i].entry < stack[n].entry
    BY <1>4, <1>7
  <2> QED BY <1>3, <1>4, <2>1, <2>2
<1>10. \A i, j \in 1..(n + 1) : i < j => stack'[i].entry < stack'[j].entry
  <2> SUFFICES ASSUME NEW i \in 1..(n + 1), NEW j \in 1..(n + 1), i < j
               PROVE  stack'[i].entry < stack'[j].entry
    OBVIOUS
  <2>1. i \in 1..n
    BY <1>4, <1>8
  <2>2. CASE j = n + 1
    BY <1>2, <1>8, <1>9, <2>1, <2>2
  <2>3. CASE j \in 1..n
    BY <1>7, <1>8, <2>1, <2>3
  <2> QED BY <1>8, <2>2, <2>3
<1>11. ASSUME NEW j \in path, NEW i \in 1..(n + 1), IsChild(table, j, stack'[i].entry),
              \A q \in 1..(n + 1) : stack'[q].entry # j
       PROVE  j >= stack'[i].next
  <2>1. \A q \in 1..n : stack[q].entry # j
    BY <1>8, <1>11
  <2>2. j # k /\ j \in 1..Len(table) /\ j \in Nat /\ k \in Nat
    <3>1. n + 1 \in 1..(n + 1)
      BY <1>4
    <3> QED BY <1>2, <1>3, <1>4, <1>6, <1>11, <3>1
  <2>3. CASE i = n + 1
    <3>1. IsChild(table, j, k) /\ stack'[i].next = k + 1
      BY <1>2, <1>11, <2>3
    <3>2. k < j
      BY <1>3, <1>4, <2>2, <3>1
    <3> QED BY <2>2, <3>1, <3>2
  <2>4. CASE i = n
    <3>1. IsChild(table, j, stack[n].entry) /\ stack'[i].next = k + 1
      BY <1>2, <1>11, <2>4
    <3>2. j >= stack[n].next
      BY <1>4, <1>7, <2>1, <3>1
    <3>3. k <= j
      BY <1>5, <2>2, <3>1, <3>2
    <3> QED BY <2>2, <3>1, <3>3
  <2>5. CASE i \in 1..n /\ i < n
    BY <1>7, <1>8, <1>11, <2>1, <2>5
  <2> QED BY <1>4, <1>8, <2>3, <2>4, <2>5
<1>12. stack'[1].entry = stack[1].entry
  <2>1. 1 \in 1..n
    BY <1>4
  <2> QED BY <1>8, <2>1
<1>13. LeadsTo(end, path)'
  BY <1>1, <1>2, <1>6, <1>6a, <1>11, <1>12 DEF LeadsTo
<1>14. Rising'
  BY <1>2, <1>10 DEF Rising
<1> QED BY <1>1, <1>6, <1>6a, <1>13, <1>14 DEF Awaits

(* When a call returns the path is still ahead, or the call was about its  *)
(* end, and that is unmounted.                                             *)
LEMMA UmountAwaits ==
  ASSUME UmountInv, Umount, Awaits, kernel = table, ~excused', UNCHANGED kernel
  PROVE  pc' = "unmounting" /\ Awaits'
<1> DEFINE n == Len(stack)
           top == stack[n].entry
<1>1. /\ pc = "unmounting" /\ Children = {} /\ UNCHANGED table
  BY DEF Umount
<1>2. /\ n \in Nat /\ n >= 1 /\ n \in 1..n /\ Len(table) \in Nat /\ TableOK(table)
      /\ \A i \in 1..n : stack[i].entry \in 1..Len(table) /\ stack[i].entry \in Nat
                         /\ stack[i].next \in Nat \ {0}
      /\ \A j, m \in 1..Len(table) : IsChild(table, m, j) => j < m
      /\ top \in 1..Len(table) /\ Top.entry = top /\ Top = stack[n]
  BY <1>1, CallsIs, Places DEF Top
<1>3. PICK path \in SUBSET (1..Len(table)) : \E end \in path : LeadsTo(end, path)
  BY DEF Awaits
<1>3a. PICK end \in path : LeadsTo(end, path)
  BY <1>3
<1>4. /\ \A i, j \in 1..n : i < j => stack[i].entry < stack[j].entry
      /\ \A j \in path, i \in 1..n :
           IsChild(table, j, stack[i].entry) /\ (\A q \in 1..n : stack[q].entry # j) =>
             j >= stack[i].next
      /\ \A j \in path \ {end} : \E m \in path : IsChild(table, m, j)
      /\ stack[1].entry \in path
      /\ table[end] \in Visible(table) /\ ~HasChildren(table, table[end])
  BY <1>3a DEF Awaits, Rising, LeadsTo
<1>5. ~CanUmount(kernel, table[top].at)
  <2> SUFFICES ASSUME CanUmount(kernel, table[top].at) PROVE FALSE
    OBVIOUS
  <2>1. CanUmount(kernel, table[Top.entry].at) /\ ~excused'
    BY <1>2
  <2>2. kernel' = Without(kernel, Resolved(kernel, table[Top.entry].at))
    BY <2>1 DEF Umount
  <2>3. table[top].at \in Seq(STRING) /\ IsRoms(table[top].at)
    BY <1>1, <1>2, CallsIs, TableEntries
  <2>4. /\ Resolved(kernel, table[top].at) \in Entries(kernel)
        /\ Entries(kernel') = Entries(kernel) \ {Resolved(kernel, table[top].at)}
    BY <1>2, <2>1, <2>2, <2>3, UmountedTable
  <2> QED BY <2>4
<1>6. ReturnWith(ret + 1)
  BY <1>2, <1>5 DEF Umount
<1> HIDE DEF n
<1>7. top \notin path
  <2> SUFFICES ASSUME top \in path PROVE FALSE
    OBVIOUS
  <2>1. CASE top = end
    <3>1. table[top] \in Visible(table) /\ ~HasChildren(table, table[top])
      BY <1>4, <2>1
    <3>2. table[top].at \in Seq(STRING)
      BY <1>2, TableEntries
    <3>3. IsEnd(table, table[top].at, table[top])
      BY <3>1, <3>2, AboveOrder DEF IsEnd, Along, HasChildren
    <3>4. Resolved(table, table[top].at) = table[top]
      BY <1>2, <3>2, <3>3, ResolvedIs DEF TableOK
    <3> QED BY <1>5, <3>1, <3>4 DEF CanUmount
  <2>2. CASE top # end
    <3>1. PICK m \in path : IsChild(table, m, top)
      BY <1>4, <2>2
    <3>2. m \in 1..Len(table) /\ top < m
      BY <1>2, <3>1
    <3>3. \A q \in 1..n : stack[q].entry # m
      <4> TAKE q \in 1..n
      <4>1. q = n \/ stack[q].entry < top
        <5>1. \A i, j \in 1..n : i < j => stack[i].entry < stack[j].entry
          BY <1>4
        <5>2. n \in 1..n /\ (q = n \/ q < n)
          BY <1>2
        <5> QED BY <5>1, <5>2
      <4> QED BY <1>2, <3>2, <4>1
    <3>4. m >= stack[n].next
      <4>1. IsChild(table, m, stack[n].entry) /\ n \in 1..n
        BY <1>2, <3>1
      <4>2. \A j \in path, q \in 1..n :
              IsChild(table, j, stack[q].entry) /\ (\A r \in 1..n : stack[r].entry # j)
                => j >= stack[q].next
        BY <1>4
      <4> QED BY <3>1, <3>3, <4>1, <4>2
    <3>5. m \in Children
      BY <1>2, <3>1, <3>2, <3>4 DEF Children, IsChild
    <3> QED BY <1>1, <3>5
  <2> QED BY <2>1, <2>2
<1>8. n > 1
  <2>1. n # 1
    BY <1>4, <1>7
  <2> QED BY <1>2, <2>1
<1>9. /\ pc' = "unmounting" /\ Len(stack') = n - 1
      /\ \A i \in 1..(n - 1) : stack'[i] = stack[i] /\ i \in 1..n
  BY <1>1, <1>2, <1>6, <1>8, Returns DEF ReturnWith, n
<1>10. Rising'
  BY <1>4, <1>9 DEF Rising
<1>11. ASSUME NEW j \in path, NEW i \in 1..(n - 1), IsChild(table, j, stack'[i].entry),
              \A q \in 1..(n - 1) : stack'[q].entry # j
       PROVE  j >= stack'[i].next
  <2>1. \A q \in 1..n : stack[q].entry # j
    <3> TAKE q \in 1..n
    <3>1. q = n \/ q \in 1..(n - 1)
      BY <1>2
    <3> QED BY <1>7, <1>9, <1>11, <3>1
  <2> QED BY <1>4, <1>9, <1>11, <2>1
<1>12. stack'[1].entry = stack[1].entry
  <2>1. 1 \in 1..(n - 1)
    BY <1>2, <1>8
  <2> QED BY <1>9, <2>1
<1>13. LeadsTo(end, path)'
  BY <1>1, <1>3, <1>3a, <1>4, <1>9, <1>11, <1>12 DEF LeadsTo
<1> QED BY <1>1, <1>3, <1>3a, <1>9, <1>10, <1>13 DEF Awaits

LEMMA OnlyBaseKeeps == UmountInv /\ OnlyBase(kernel) /\ [Next]_vars => OnlyBase(kernel')
<1> SUFFICES ASSUME UmountInv, OnlyBase(kernel), [Next]_vars PROVE OnlyBase(kernel')
  OBVIOUS
<1>1. TableOK(kernel) /\ nextId \in Nat /\ \A e \in Entries(kernel) : e.id < nextId
  BY DEF UmountInv, Types, FreshIds
<1>2. ASSUME NEW p \in Paths, p # <<>>, kernel' = Mounted(kernel, p, nextId)
      PROVE  OnlyBase(kernel')
  <2>1. p \in Seq(STRING)
    BY PathsAssumption
  <2>2. PICK e : e.at = p /\ Entries(kernel') = Entries(kernel) \cup {e}
    BY <1>1, <1>2, <2>1, MountedTable
  <2> QED BY <1>2, <2>2 DEF OnlyBase
<1>3. ASSUME NEW p \in Paths, IsRoms(p), CanUmount(kernel, p),
             kernel' = Without(kernel, Resolved(kernel, p))
      PROVE  OnlyBase(kernel')
  <2>1. p \in Seq(STRING)
    BY PathsAssumption
  <2>2. Entries(kernel') \subseteq Entries(kernel)
    BY <1>1, <1>3, <2>1, UmountedTable
  <2> QED BY <2>2 DEF OnlyBase
<1>4. CASE Mount
  BY <1>2, <1>4 DEF Mount
<1>5. CASE Interfere
  <2>1. \A p \in Paths : IsRoms(p) => p # <<>>
    BY RootAbove
  <2> QED BY <1>2, <1>3, <1>5, <2>1 DEF Interfere
<1>6. CASE Umount
  <2>1. Entries(kernel') \subseteq Entries(kernel)
    BY <1>6, Umounts DEF Entries
  <2> QED BY <2>1 DEF OnlyBase
<1>7. CASE UNCHANGED kernel
  BY <1>7
<1> QED BY <1>4, <1>5, <1>6, <1>7 DEF Next, Program, vars, Start, GetTable, GetTableFails,
       Found, NoneFound, Descend

(* No umount2 makes the table longer, and one that succeeds makes it       *)
(* shorter.                                                                *)
LEMMA UmountShortens ==
  ASSUME UmountInv, Umount
  PROVE  UNCHANGED kernel \/ Len(kernel') = Len(kernel) - 1
<1> DEFINE p == table[Top.entry].at
<1>1. IsRoms(p) /\ p \in Seq(STRING) /\ TableOK(kernel)
  <2>1. pc = "unmounting"
    BY DEF Umount
  <2>2. Top.entry \in 1..Len(table) /\ IsRoms(table[Top.entry].at) /\ TableOK(table)
    BY <2>1, CallsIs DEF Top
  <2> QED BY <2>2, TableEntries DEF UmountInv, Types
<1>2. CASE CanUmount(kernel, p) /\ kernel' = Without(kernel, Resolved(kernel, p))
  <2> HIDE DEF p
  <2> QED BY <1>1, <1>2, UmountedTable DEF p
<1> QED BY <1>2 DEF Umount

LEMMA ProgressInit == Init => ProgressInv
<1> SUFFICES ASSUME Init PROVE ProgressInv
  OBVIOUS
<1>1. Entries(kernel) = {Base}
  <2>1. kernel = <<Base>>
    BY DEF Init
  <2> QED BY <2>1 DEF Entries
<1> QED BY <1>1, UmountInit DEF Init, ProgressInv, OnlyBase

LEMMA ProgressNext == ProgressInv /\ [Next]_vars => ProgressInv'
<1> SUFFICES ASSUME ProgressInv, [Next]_vars,
                    pc' # "before", ~excused', ~CoveredInside(before')
             PROVE  ProgressMade'
  BY UmountNext, OnlyBaseKeeps DEF ProgressInv
<1>1. UmountInv /\ OnlyBase(kernel)
  BY DEF ProgressInv
<1>2. Len(kernel) \in Nat
  BY <1>1, TableEntries DEF UmountInv, Types
<1>3. CASE Start
  BY <1>3 DEF Start, ProgressMade, Reading
<1>4. ASSUME ~Start PROVE ProgressMade'
  <2>1. ~Mount /\ ~GetTableFails /\ ~Interfere
    BY DEF Mount, programVars, GetTableFails, Interfere
  <2>2. UNCHANGED before /\ pc # "before" /\ ~excused
    BY <1>4, <2>1 DEF Next, Program, vars, programVars, GetTable, Found, NoneFound,
       Descend, Umount
  <2>3. ProgressMade
    BY <2>2 DEF ProgressInv
  <2>4. CASE UNCHANGED vars
    BY <2>3, <2>4 DEF vars, programVars, ProgressMade, Reading, Awaits, Rising, LeadsTo
  <2>5. CASE Umount
    <3>1. CASE Len(kernel) < Len(before)
      <4>1. Len(kernel') <= Len(kernel) /\ Len(kernel') \in Int
        BY <1>1, <1>2, <2>5, UmountShortens
      <4>2. Len(before) \in Nat \/ Len(before) \notin Nat
        OBVIOUS
      <4> QED BY <1>2, <2>2, <3>1, <4>1 DEF ProgressMade
    <3>2. CASE kernel = before /\ (Reading => table = kernel) /\ (pc = "unmounting" => Awaits)
      <4>1. pc = "unmounting" /\ UNCHANGED table /\ table = kernel /\ Awaits
        BY <2>5, <3>2 DEF Umount, Reading
      <4>2. CASE UNCHANGED kernel
        <5>1. pc' = "unmounting" /\ Awaits'
          BY <1>1, <2>5, <4>1, <4>2, UmountAwaits
        <5> QED BY <2>2, <3>2, <4>1, <4>2, <5>1 DEF ProgressMade
      <4>3. CASE Len(kernel') = Len(kernel) - 1
        BY <1>2, <2>2, <3>2, <4>3 DEF ProgressMade
      <4> QED BY <1>1, <2>5, <4>2, <4>3, UmountShortens
    <3> QED BY <2>3, <3>1, <3>2 DEF ProgressMade
  <2>6. ASSUME GetTable \/ Found \/ NoneFound \/ Descend PROVE ProgressMade'
    <3>1. UNCHANGED <<kernel, before>>
      BY <2>6 DEF GetTable, Found, NoneFound, Descend
    <3>2. CASE Len(kernel) < Len(before)
      BY <3>1, <3>2 DEF ProgressMade
    <3>3. CASE ~(Len(kernel) < Len(before))
      <4>1. /\ kernel = before /\ (Reading => table = kernel)
            /\ (pc = "unmounting" => Awaits)
        BY <2>3, <3>3 DEF ProgressMade
      <4>2. CASE GetTable
        BY <3>1, <4>1, <4>2 DEF GetTable, ProgressMade, Reading
      <4>3. CASE Found
        <5>1. table = kernel /\ UNCHANGED table /\ pc' = "unmounting"
          BY <4>1, <4>3 DEF Found, Reading
        <5>2. Awaits'
          BY <1>1, <2>2, <4>1, <4>3, <5>1, FoundAwaits
        <5> QED BY <3>1, <4>1, <5>1, <5>2 DEF ProgressMade
      <4>4. CASE NoneFound
        BY <3>1, <4>1, <4>4 DEF NoneFound, ProgressMade, Reading
      <4>5. CASE Descend
        <5>1. table = kernel /\ UNCHANGED <<table, pc>> /\ pc = "unmounting" /\ Awaits
          BY <4>1, <4>5 DEF Descend, Reading
        <5>2. Awaits'
          BY <1>1, <4>5, <5>1, DescendAwaits
        <5> QED BY <3>1, <4>1, <5>1, <5>2 DEF ProgressMade
      <4> QED BY <2>6, <4>2, <4>3, <4>4, <4>5
    <3> QED BY <3>2, <3>3
  <2> QED BY <1>4, <2>1, <2>4, <2>5, <2>6 DEF Next, Program
<1> QED BY <1>3, <1>4

(* A run that fails without excuse has unmounted something, unless a       *)
(* system is mounted over a directory in it: what hides mounts otherwise   *)
(* is /storage/roms itself, and the last mount there can be reached        *)
(* (eemount.c:133-142).                                                    *)
THEOREM FailuresProgress == Spec => []FailureMakesProgress
<1>1. ProgressInv => FailureMakesProgress
  BY DEF ProgressInv, ProgressMade, FailureMakesProgress
<1> QED BY <1>1, ProgressInit, ProgressNext, PTL DEF Spec
=============================================================================
