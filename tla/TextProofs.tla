----------------------------- MODULE TextProofs -----------------------------
(***************************************************************************)
(* Theorems about what the program makes of text: the settings it finds in *)
(* its configuration file, then the paths it unescapes.                    *)
(***************************************************************************)
EXTENDS EEConfig, Unescape, SequenceTheorems, FiniteSetTheorems, TLAPS

(* Those of the first b of the lines s that set g at each level.           *)
RomLines(g, s, b) == {n \in 1..b : IsRom(g, s[n])}
PlatformLines(g, s, b) == {n \in 1..b : IsPlatform(g, s[n])}
GlobalLines(g, s, b) == {n \in 1..b : IsGlobal(g, s[n])}
RawLines(g, s, b) == {n \in 1..b : IsRaw(g, s[n])}

IsLast(set, n) == n \in set /\ \A o \in set : o <= n
IsFirst(set, n) == n \in set /\ \A o \in set : n <= o
Holds(f, level, l) == level \in f.at /\ f[level] = l.value

(* What was found says what the first b lines set: of a level, nothing if  *)
(* one above has the setting.                                              *)
RomSummary(g, f, s, b) ==
  IF "rom" \in f.at
  THEN \E n \in 1..b : IsLast(RomLines(g, s, b), n) /\ Holds(f, "rom", s[n])
  ELSE RomLines(g, s, b) = {}
PlatformSummary(g, f, s, b) ==
  IF "platform" \in f.at
  THEN \E n \in 1..b : IsLast(PlatformLines(g, s, b), n) /\ Holds(f, "platform", s[n])
  ELSE PlatformLines(g, s, b) = {}
GlobalSummary(g, f, s, b) ==
  IF "global" \in f.at
  THEN \/ \E n \in 1..b : IsLast(GlobalLines(g, s, b), n) /\ Holds(f, "global", s[n])
       \/ /\ GlobalLines(g, s, b) = {}
          /\ \E n \in 1..b : IsFirst(RawLines(g, s, b), n) /\ Holds(f, "global", s[n])
  ELSE GlobalLines(g, s, b) = {} /\ RawLines(g, s, b) = {}

Summary(g, f, s, b) ==
  /\ RomSummary(g, f, s, b)
  /\ "rom" \notin f.at => PlatformSummary(g, f, s, b)
  /\ f.at \cap {"rom", "platform"} = {} => GlobalSummary(g, f, s, b)

Found == [rom : Value, platform : Value, global : Value,
          at : SUBSET {"rom", "platform", "global"}]

(* What may be reported. *)
Answers == {Unset} \cup {Report(type, value) : type \in {"string", "long", "int", "bool"}, value \in Value}

Missing(s) == {n \in DOMAIN s : s[n] = Unset}

TypesInv ==
  /\ file \in Files /\ call \in Calls
  /\ pc \in {"reading", "getting", "returned", "crashed"}
  /\ buffer \in {"unwritten", "unread", "read"}
  /\ answers \in Seq(Answers) /\ k = Len(answers) + 1 /\ k <= Len(Getters) + 1
  /\ line \in 1..(Len(Lines) + 1) /\ found \in Found

(* What the call returns, while it runs as when it has returned.           *)
CountInv ==
  /\ pc = "reading" => answers = <<>> /\ rtr = 0 /\ buffer = "unwritten"
  /\ pc = "getting" => rtr = Cardinality(Missing(answers))
  /\ pc \in {"returned", "crashed"} =>
       \/ rtr = Cardinality(Missing(answers)) /\ k = Len(Getters) + 1
       \/ /\ rtr \in {-2, -1, 1} /\ answers = <<>> /\ (rtr = 1 => Len(Getters) # 0)
          /\ buffer = "unwritten"

(* A getter that makes no sense is not looked up.                          *)
InsaneInv == \A n \in DOMAIN answers : ~IsSane(Getters[n]) => answers[n] = Unset

(* What was found for the setting that is looked up.                       *)
SearchInv ==
  /\ pc = "reading" => line = 1 /\ found = NothingFound
  /\ pc = "getting" /\ k <= Len(Getters) =>
       IF IsSearched THEN Summary(Getters[k], found, Lines, line - 1)
       ELSE found = NothingFound

-----------------------------------------------------------------------------
(* Finding a setting *)

(* The lines are lines of the file. *)
LEMMA LinesType ==
  ASSUME file \in Files
  PROVE  /\ Lines \in Seq(Line)
         /\ \A n \in 1..Len(Lines) : n \in DOMAIN file.lines /\ Lines[n] = file.lines[n]
<1>1. file.lines \in Seq(Line)
  BY FilesAssumption
<1>2. CASE file.ended \/ file.lines = <<>>
  <2>1. Lines = file.lines
    BY <1>2 DEF Lines
  <2> QED
    BY <1>1, <2>1
<1>3. CASE ~(file.ended \/ file.lines = <<>>)
  <2>1. Lines = SubSeq(file.lines, 1, Len(file.lines) - 1)
    BY <1>3 DEF Lines, Front
  <2>2. Len(file.lines) \in Nat \ {0}
    BY <1>1, <1>3, EmptySeq
  <2> QED
    BY <1>1, <2>1, <2>2
<1> QED
  BY <1>2, <1>3

LEMMA ConsiderType ==
  ASSUME NEW g \in Getter, NEW f \in Found, NEW l \in Line
  PROVE  Consider(g, f, l) \in Found
<1>1. ValueOf(g, l) \in Value
  <2>1. Garbled \in Value
    BY DEF Garbled, Value
  <2>2. l.value \in Value
    BY DEF Line
  <2> QED
    BY <2>1, <2>2 DEF ValueOf
<1>2. \A level \in {"rom", "platform", "global"} : Put(f, level, ValueOf(g, l)) \in Found
  BY <1>1 DEF Put, Found
<1> QED
  BY <1>2 DEF Consider

LEMMA PutHolds ==
  ASSUME NEW g \in Getter, NEW f \in Found, NEW l \in Line, l.setting = g.setting,
         NEW level \in {"rom", "platform", "global"}
  PROVE  LET p == Put(f, level, ValueOf(g, l))
         IN  /\ Holds(p, level, l)
             /\ p.at = f.at \cup {level}
             /\ \A other \in {"rom", "platform", "global"} : other # level => p[other] = f[other]
BY DEF Put, ValueOf, Holds, Found

(* A line sets at one level at most. *)
LEMMA OneLevel ==
  ASSUME NEW g, NEW l
  PROVE  /\ IsRom(g, l) => ~IsPlatform(g, l) /\ ~IsGlobal(g, l) /\ ~IsRaw(g, l)
         /\ IsPlatform(g, l) => ~IsGlobal(g, l) /\ ~IsRaw(g, l)
         /\ IsGlobal(g, l) => ~IsRaw(g, l)
BY DEF IsRom, IsPlatform, IsGlobal, IsRaw

(* One line more, of each level. *)
LEMMA OneLineMore ==
  ASSUME NEW g, NEW s, NEW b \in Nat
  PROVE  /\ RomLines(g, s, b + 1) =
              RomLines(g, s, b) \cup (IF IsRom(g, s[b + 1]) THEN {b + 1} ELSE {})
         /\ PlatformLines(g, s, b + 1) =
              PlatformLines(g, s, b) \cup (IF IsPlatform(g, s[b + 1]) THEN {b + 1} ELSE {})
         /\ GlobalLines(g, s, b + 1) =
              GlobalLines(g, s, b) \cup (IF IsGlobal(g, s[b + 1]) THEN {b + 1} ELSE {})
         /\ RawLines(g, s, b + 1) =
              RawLines(g, s, b) \cup (IF IsRaw(g, s[b + 1]) THEN {b + 1} ELSE {})
<1>1. 1..(b + 1) = (1..b) \cup {b + 1}
  OBVIOUS
<1>2. RomLines(g, s, b + 1) =
        RomLines(g, s, b) \cup (IF IsRom(g, s[b + 1]) THEN {b + 1} ELSE {})
  BY <1>1 DEF RomLines
<1>3. PlatformLines(g, s, b + 1) =
        PlatformLines(g, s, b) \cup (IF IsPlatform(g, s[b + 1]) THEN {b + 1} ELSE {})
  BY <1>1 DEF PlatformLines
<1>4. GlobalLines(g, s, b + 1) =
        GlobalLines(g, s, b) \cup (IF IsGlobal(g, s[b + 1]) THEN {b + 1} ELSE {})
  BY <1>1 DEF GlobalLines
<1>5. RawLines(g, s, b + 1) =
        RawLines(g, s, b) \cup (IF IsRaw(g, s[b + 1]) THEN {b + 1} ELSE {})
  BY <1>1 DEF RawLines
<1> QED
  BY <1>2, <1>3, <1>4, <1>5

(* Considering one line more keeps the summary, if the line sets what is   *)
(* looked for and not a longer name at the level of a platform.            *)
LEMMA ConsiderKeepsSummary ==
  ASSUME NEW g \in Getter, NEW f \in Found, NEW s \in Seq(Line), NEW b \in Nat,
         b + 1 \in 1..Len(s), Summary(g, f, s, b),
         IsPlatform(g, s[b + 1]) => s[b + 1].setting = g.setting
  PROVE  Summary(g, Consider(g, f, s[b + 1]), s, b + 1)
<1> DEFINE l == s[b + 1]
           p == Consider(g, f, l)
           Levels == {"rom", "platform", "global"}
<1>1. l \in Line
  OBVIOUS
<1>2. \A level \in Levels : l.setting = g.setting =>
        LET q == Put(f, level, ValueOf(g, l))
        IN  /\ Holds(q, level, l)
            /\ q.at = f.at \cup {level}
            /\ \A other \in Levels : other # level => q[other] = f[other]
  BY <1>1, PutHolds
<1>3. /\ RomLines(g, s, b + 1) = RomLines(g, s, b) \cup (IF IsRom(g, l) THEN {b + 1} ELSE {})
      /\ PlatformLines(g, s, b + 1) =
            PlatformLines(g, s, b) \cup (IF IsPlatform(g, l) THEN {b + 1} ELSE {})
      /\ GlobalLines(g, s, b + 1) =
            GlobalLines(g, s, b) \cup (IF IsGlobal(g, l) THEN {b + 1} ELSE {})
      /\ RawLines(g, s, b + 1) = RawLines(g, s, b) \cup (IF IsRaw(g, l) THEN {b + 1} ELSE {})
  BY OneLineMore
<1>4. /\ IsRom(g, l) => ~IsPlatform(g, l) /\ ~IsGlobal(g, l) /\ ~IsRaw(g, l)
      /\ IsPlatform(g, l) => ~IsGlobal(g, l) /\ ~IsRaw(g, l)
      /\ IsGlobal(g, l) => ~IsRaw(g, l)
  BY OneLevel
<1>5. /\ RomLines(g, s, b) \subseteq 1..b /\ PlatformLines(g, s, b) \subseteq 1..b
      /\ GlobalLines(g, s, b) \subseteq 1..b /\ RawLines(g, s, b) \subseteq 1..b
  BY DEF RomLines, PlatformLines, GlobalLines, RawLines
<1>6. /\ b \in Int /\ b + 1 \in 1..(b + 1) /\ 1..b \subseteq 1..(b + 1)
      /\ \A n \in 1..b : n <= b + 1
      /\ \A n \in 1..(b + 1) : n <= b + 1
  OBVIOUS
<1>7. f.at \subseteq Levels
  BY DEF Found
<1> HIDE DEF l, p
<1>8. CASE IsRom(g, l)
  <2>1. p = Put(f, "rom", ValueOf(g, l)) /\ l.setting = g.setting
    BY <1>8, <1>4 DEF Consider, IsRom, p
  <2>2. Holds(p, "rom", l) /\ "rom" \in p.at
    BY <2>1, <1>2
  <2>3. IsLast(RomLines(g, s, b + 1), b + 1)
    BY <1>3, <1>5, <1>6, <1>8 DEF IsLast
  <2>4. RomSummary(g, p, s, b + 1)
    BY <2>2, <2>3, <1>6 DEF RomSummary, l
  <2> QED
    BY <2>2, <2>4 DEF Summary, p, l
<1>9. CASE IsPlatform(g, l)
  <2>1. l.setting = g.setting
    BY <1>9 DEF l
  <2>2. RomLines(g, s, b + 1) = RomLines(g, s, b)
    BY <1>9, <1>3, <1>4
  <2>3. CASE "rom" \in f.at
    <3>1. p = f
      BY <2>3, <1>4, <1>9 DEF Consider, p
    <3>2. RomSummary(g, p, s, b + 1)
      BY <3>1, <2>3, <2>2, <1>6 DEF Summary, RomSummary
    <3> QED
      BY <3>1, <3>2, <2>3 DEF Summary, p, l
  <2>4. CASE "rom" \notin f.at
    <3>1. p = Put(f, "platform", ValueOf(g, l))
      BY <2>4, <1>4, <1>9 DEF Consider, p
    <3>2. Holds(p, "platform", l) /\ p.at = f.at \cup {"platform"}
      BY <3>1, <2>1, <1>2
    <3>3. IsLast(PlatformLines(g, s, b + 1), b + 1)
      BY <1>3, <1>5, <1>6, <1>9 DEF IsLast
    <3>4. PlatformSummary(g, p, s, b + 1)
      BY <3>2, <3>3, <1>6 DEF PlatformSummary, l
    <3>5. "rom" \notin p.at /\ RomSummary(g, p, s, b + 1)
      BY <3>2, <2>2, <2>4 DEF RomSummary, Summary
    <3>6. p.at \cap {"rom", "platform"} # {}
      BY <3>2
    <3> QED
      BY <3>4, <3>5, <3>6 DEF Summary, p, l
  <2> QED
    BY <2>3, <2>4
<1>10. CASE ~IsRom(g, l) /\ ~IsPlatform(g, l)
  <2>1. /\ RomLines(g, s, b + 1) = RomLines(g, s, b)
        /\ PlatformLines(g, s, b + 1) = PlatformLines(g, s, b)
    BY <1>10, <1>3
  <2>2. \A q \in Found :
          /\ q.at \cap {"rom", "platform"} = f.at \cap {"rom", "platform"}
          /\ q.rom = f.rom /\ q.platform = f.platform
          => /\ RomSummary(g, q, s, b + 1)
             /\ "rom" \notin q.at => PlatformSummary(g, q, s, b + 1)
    <3> TAKE q \in Found
    <3> HAVE /\ q.at \cap {"rom", "platform"} = f.at \cap {"rom", "platform"}
             /\ q.rom = f.rom /\ q.platform = f.platform
    <3>1. /\ "rom" \in q.at <=> "rom" \in f.at
          /\ "platform" \in q.at <=> "platform" \in f.at
      OBVIOUS
    <3>2. RomSummary(g, q, s, b + 1)
      BY <3>1, <2>1, <1>6 DEF Summary, RomSummary, Holds
    <3>3. "rom" \notin q.at => PlatformSummary(g, q, s, b + 1)
      BY <3>1, <2>1, <1>6 DEF Summary, PlatformSummary, Holds
    <3> QED
      BY <3>2, <3>3
  <2>3. p \in Found
    BY <1>1, ConsiderType DEF p, l
  <2>4. CASE f.at \cap {"rom", "platform"} # {}
    <3>1. p = f
      BY <2>4, <1>4, <1>10 DEF Consider, p
    <3> QED
      BY <3>1, <2>2, <2>3, <2>4 DEF Summary, p, l
  <2>5. CASE f.at \cap {"rom", "platform"} = {} /\ IsGlobal(g, l)
    <3>1. p = Put(f, "global", ValueOf(g, l)) /\ l.setting = g.setting
      BY <2>5, <1>4, <1>10 DEF Consider, IsGlobal, p
    <3>2. /\ Holds(p, "global", l) /\ p.at = f.at \cup {"global"}
          /\ p.rom = f.rom /\ p.platform = f.platform
      BY <3>1, <1>2
    <3>3. IsLast(GlobalLines(g, s, b + 1), b + 1)
      BY <1>3, <1>5, <1>6, <2>5 DEF IsLast
    <3>4. GlobalSummary(g, p, s, b + 1)
      BY <3>2, <3>3, <1>6 DEF GlobalSummary, l
    <3>5. p.at \cap {"rom", "platform"} = f.at \cap {"rom", "platform"}
      BY <3>2
    <3> QED
      BY <3>2, <3>4, <3>5, <2>2, <2>3 DEF Summary, p, l
  <2>6. CASE f.at \cap {"rom", "platform"} = {} /\ IsRaw(g, l)
    <3>1. GlobalLines(g, s, b + 1) = GlobalLines(g, s, b)
      BY <1>3, <1>4, <2>6
    <3>2. CASE "global" \in f.at
      <4>1. p = f
        BY <3>2, <2>6, <1>4, <1>10 DEF Consider, p
      <4>2. RawLines(g, s, b + 1) = RawLines(g, s, b) \cup {b + 1}
        BY <2>6, <1>3
      <4>3. GlobalSummary(g, f, s, b)
        BY <2>6 DEF Summary
      <4>4. GlobalSummary(g, p, s, b + 1)
        <5>1. CASE \E n \in 1..b : IsLast(GlobalLines(g, s, b), n) /\ Holds(f, "global", s[n])
          <6>1. PICK n \in 1..b : IsLast(GlobalLines(g, s, b), n) /\ Holds(f, "global", s[n])
            BY <5>1
          <6>2. IsLast(GlobalLines(g, s, b + 1), n) /\ n \in 1..(b + 1)
            BY <6>1, <3>1, <1>6
          <6> QED
            BY <6>1, <6>2, <4>1, <3>2 DEF GlobalSummary
        <5>2. CASE /\ GlobalLines(g, s, b) = {}
                   /\ \E n \in 1..b : IsFirst(RawLines(g, s, b), n) /\ Holds(f, "global", s[n])
          <6>1. PICK n \in 1..b : IsFirst(RawLines(g, s, b), n) /\ Holds(f, "global", s[n])
            BY <5>2
          <6>2. IsFirst(RawLines(g, s, b + 1), n) /\ n \in 1..(b + 1)
            BY <6>1, <4>2, <1>6 DEF IsFirst
          <6> QED
            BY <6>1, <6>2, <4>1, <5>2, <3>1, <3>2 DEF GlobalSummary
        <5> QED
          BY <4>3, <5>1, <5>2, <3>2 DEF GlobalSummary
      <4> QED
        BY <4>1, <4>4, <2>2, <2>3 DEF Summary, p, l
    <3>3. CASE "global" \notin f.at
      <4>1. f.at = {}
        BY <3>3, <2>6, <1>7
      <4>2. p = Put(f, "global", ValueOf(g, l)) /\ l.setting = g.setting
        BY <4>1, <2>6, <1>4, <1>10 DEF Consider, IsRaw, p
      <4>3. /\ Holds(p, "global", l) /\ p.at = f.at \cup {"global"}
            /\ p.rom = f.rom /\ p.platform = f.platform
        BY <4>2, <1>2
      <4>4. GlobalLines(g, s, b) = {} /\ RawLines(g, s, b) = {}
        BY <3>3, <2>6 DEF Summary, GlobalSummary
      <4>5. IsFirst(RawLines(g, s, b + 1), b + 1)
        BY <4>4, <1>3, <1>6, <2>6 DEF IsFirst
      <4>6. GlobalSummary(g, p, s, b + 1)
        BY <4>3, <4>4, <4>5, <3>1, <1>6 DEF GlobalSummary, l
      <4>7. p.at \cap {"rom", "platform"} = f.at \cap {"rom", "platform"}
        BY <4>3
      <4> QED
        BY <4>3, <4>6, <4>7, <2>2, <2>3 DEF Summary, p, l
    <3> QED
      BY <3>2, <3>3
  <2>7. CASE f.at \cap {"rom", "platform"} = {} /\ ~IsGlobal(g, l) /\ ~IsRaw(g, l)
    <3>1. p = f
      BY <2>7, <1>10 DEF Consider, p
    <3>2. /\ GlobalLines(g, s, b + 1) = GlobalLines(g, s, b)
          /\ RawLines(g, s, b + 1) = RawLines(g, s, b)
      BY <2>7, <1>3
    <3>3. GlobalSummary(g, f, s, b)
      BY <2>7 DEF Summary
    <3>4. GlobalSummary(g, p, s, b + 1)
      BY <3>1, <3>2, <3>3, <1>6 DEF GlobalSummary
    <3> QED
      BY <3>1, <3>4, <2>2, <2>3 DEF Summary, p, l
  <2> QED
    BY <2>4, <2>5, <2>6, <2>7
<1> QED
  BY <1>8, <1>9, <1>10

-----------------------------------------------------------------------------
(* The call *)

LEMMA NothingFoundType == NothingFound \in Found
<1>1. Garbled \in Value
  BY DEF Garbled, Value
<1> QED
  BY <1>1 DEF NothingFound, Found

LEMMA AnswerType ==
  ASSUME NEW g \in Getter, found \in Found
  PROVE  Answer(g) \in Answers
<1>1. g.type \in {"string", "long", "int", "bool"}
  BY DEF Getter
<1>2. found.rom \in Value /\ found.platform \in Value /\ found.global \in Value
  BY DEF Found
<1>3. \A value \in Value : Report(g.type, value) \in Answers
  BY <1>1 DEF Answers
<1> QED
  BY <1>2, <1>3 DEF Answer, Answers

LEMMA NoAnswer ==
  ASSUME NEW g, found = NothingFound
  PROVE  Answer(g) = Unset
BY DEF Answer, NothingFound

(* An answer more counts if it is missing. *)
LEMMA OneAnswerMore ==
  ASSUME NEW s \in Seq(Answers), NEW a \in Answers
  PROVE  /\ Missing(Append(s, a)) =
              Missing(s) \cup (IF a = Unset THEN {Len(s) + 1} ELSE {})
         /\ Cardinality(Missing(s)) \in 0..Len(s)
         /\ Cardinality(Missing(Append(s, a))) = Count(Cardinality(Missing(s)), a)
<1> DEFINE t == Append(s, a)
<1>1. /\ Len(s) \in Nat /\ DOMAIN s = 1..Len(s) /\ DOMAIN t = 1..(Len(s) + 1)
      /\ t[Len(s) + 1] = a /\ \A n \in 1..Len(s) : t[n] = s[n]
  OBVIOUS
<1> HIDE DEF t
<1>2. Missing(t) = Missing(s) \cup (IF a = Unset THEN {Len(s) + 1} ELSE {})
  <2>1. 1..(Len(s) + 1) = (1..Len(s)) \cup {Len(s) + 1}
    BY <1>1
  <2> QED
    BY <1>1, <2>1 DEF Missing
<1>3. IsFiniteSet(1..Len(s)) /\ Cardinality(1..Len(s)) = Len(s)
  BY <1>1, FS_Interval
<1>4. Missing(s) \subseteq 1..Len(s)
  BY <1>1 DEF Missing
<1>5. IsFiniteSet(Missing(s)) /\ Cardinality(Missing(s)) <= Len(s)
  BY <1>3, <1>4, FS_Subset
<1>6. Cardinality(Missing(s)) \in Nat
  BY <1>5, FS_CardinalityType
<1>7. Len(s) + 1 \notin Missing(s)
  BY <1>1, <1>4
<1>8. Cardinality(Missing(s) \cup {Len(s) + 1}) = Cardinality(Missing(s)) + 1
  BY <1>5, <1>7, FS_AddElement
<1>9. Cardinality(Missing(t)) = Count(Cardinality(Missing(s)), a)
  <2>1. CASE a = Unset
    BY <2>1, <1>2, <1>8 DEF Count
  <2>2. CASE a # Unset
    BY <2>2, <1>2 DEF Count
  <2> QED
    BY <2>1, <2>2
<1> QED
  BY <1>1, <1>2, <1>5, <1>6, <1>9 DEF t

LEMMA GettersType ==
  ASSUME call \in Calls
  PROVE  Getters \in Seq(Getter)
BY CallsAssumption DEF Getters

LEMMA TypesInit == Init => TypesInv /\ CountInv /\ SearchInv
<1> SUFFICES ASSUME Init PROVE TypesInv /\ CountInv /\ SearchInv
  OBVIOUS
<1>1. Lines \in Seq(Line) /\ Getters \in Seq(Getter)
  BY LinesType, GettersType DEF Init
<1>2. TypesInv
  BY <1>1, NothingFoundType DEF Init, TypesInv
<1>3. CountInv
  BY DEF Init, CountInv
<1>4. SearchInv
  BY DEF Init, SearchInv
<1> QED
  BY <1>2, <1>3, <1>4

LEMMA TypesStep ==
  ASSUME TypesInv, CountInv, [Next]_vars
  PROVE  TypesInv'
<1>1. CASE UNCHANGED vars
  BY <1>1 DEF vars, search, TypesInv, Lines, Getters
<1>2. CASE Next
  <2>1. file' = file /\ call' = call /\ Lines' = Lines /\ Getters' = Getters
    BY <1>2 DEF Next, Lines, Getters
  <2>2. Lines \in Seq(Line) /\ Getters \in Seq(Getter)
    BY LinesType, GettersType DEF TypesInv
  <2>3. CASE NoGetters \/ CannotOpen \/ ReadConfig \/ Finish
    <3>1. UNCHANGED search
      BY <2>3 DEF NoGetters, CannotOpen, ReadConfig, Finish
    <3>2. /\ pc' \in {"reading", "getting", "returned", "crashed"}
          /\ buffer' \in {"unwritten", "unread", "read"}
      BY <2>3 DEF NoGetters, CannotOpen, ReadConfig, Finish, TypesInv
    <3> QED
      BY <3>1, <3>2, <2>1 DEF search, TypesInv
  <2>4. CASE ConsiderLine
    <3>1. Getters[k] \in Getter /\ Lines[line] \in Line /\ line' \in 1..(Len(Lines) + 1)
      BY <2>4, <2>2 DEF ConsiderLine, TypesInv
    <3>2. found' \in Found
      BY <2>4, <3>1, ConsiderType DEF ConsiderLine, TypesInv
    <3> QED
      BY <2>1, <2>4, <3>1, <3>2 DEF ConsiderLine, TypesInv
  <2>5. CASE Get
    <3>1. Getters[k] \in Getter
      BY <2>5, <2>2 DEF Get, TypesInv
    <3>2. Answer(Getters[k]) \in Answers
      BY <3>1, AnswerType DEF TypesInv
    <3>3. answers' \in Seq(Answers) /\ Len(answers') = Len(answers) + 1
      BY <3>2, <2>5 DEF Get, TypesInv
    <3>4. k' = Len(answers') + 1 /\ k' <= Len(Getters) + 1
      BY <3>3, <2>2, <2>5 DEF Get, TypesInv
    <3>5. line' \in 1..(Len(Lines) + 1) /\ found' \in Found
      BY <2>2, <2>5, NothingFoundType DEF Get
    <3> QED
      BY <2>1, <2>5, <3>3, <3>4, <3>5 DEF Get, TypesInv
  <2> QED
    BY <1>2, <2>3, <2>4, <2>5 DEF Next
<1> QED
  BY <1>1, <1>2

LEMMA CountStep ==
  ASSUME TypesInv, CountInv, [Next]_vars
  PROVE  CountInv'
<1>1. CASE UNCHANGED vars
  BY <1>1 DEF vars, search, CountInv, Getters
<1>2. CASE Next
  <2>1. Getters' = Getters
    BY <1>2 DEF Next, Getters
  <2>2. Getters \in Seq(Getter)
    BY GettersType DEF TypesInv
  <2>3. Len(Getters) = 0 <=> Getters = <<>>
    BY <2>2, EmptySeq
  <2>4. Missing(<<>>) = {} /\ Cardinality({}) = 0
    BY FS_EmptySet DEF Missing
  <2>5. CASE NoGetters
    BY <2>1, <2>5 DEF NoGetters, search, CountInv
  <2>6. CASE CannotOpen
    BY <2>1, <2>3, <2>6 DEF CannotOpen, search, CountInv
  <2>7. CASE ReadConfig
    BY <2>1, <2>4, <2>7 DEF ReadConfig, search, CountInv, Missing
  <2>8. CASE ConsiderLine
    BY <2>1, <2>8 DEF ConsiderLine, IsSearched, CountInv
  <2>9. CASE Get
    <3>1. Getters[k] \in Getter
      BY <2>2, <2>9 DEF Get, TypesInv
    <3>2. Answer(Getters[k]) \in Answers
      BY <3>1, AnswerType DEF TypesInv
    <3>3. /\ answers \in Seq(Answers) /\ answers' = Append(answers, Answer(Getters[k]))
          /\ pc = "getting" /\ pc' = "getting" /\ buffer' = buffer
          /\ found' = NothingFound /\ rtr' = Count(rtr, Answer(Getters[k]))
      BY <2>9 DEF Get, TypesInv
    <3>4. rtr' = Cardinality(Missing(answers'))
      BY <3>2, <3>3, OneAnswerMore DEF CountInv
    <3> QED
      BY <3>3, <3>4 DEF CountInv
  <2>10. CASE Finish
    <3>1. k = Len(Getters) + 1
      BY <2>2, <2>10 DEF Finish, TypesInv
    <3>2. /\ pc = "getting" /\ pc' \in {"returned", "crashed"}
          /\ UNCHANGED <<buffer, search, rtr>>
      BY <2>10 DEF Finish
    <3> QED
      BY <3>1, <3>2, <2>1 DEF search, CountInv
  <2> QED
    BY <1>2, <2>5, <2>6, <2>7, <2>8, <2>9, <2>10 DEF Next
<1> QED
  BY <1>1, <1>2

(* The variables of the reader have their types: the getter that is looked *)
(* up and the line considered for it are within their arrays, and the      *)
(* value returned is never more than the number of getters                 *)
(* (eeconfig.c:284-300).                                                   *)
THEOREM SettingsTyped == Spec => []TypeOK
<1>1. TypesInv /\ CountInv /\ [Next]_vars => (TypesInv /\ CountInv)'
  BY TypesStep, CountStep
<1>2. TypesInv /\ CountInv => TypeOK
  <2> SUFFICES ASSUME TypesInv, CountInv PROVE TypeOK
    OBVIOUS
  <2>1. Cardinality(Missing(answers)) \in 0..Len(answers)
    <3>1. Unset \in Answers /\ answers \in Seq(Answers)
      BY DEF TypesInv, Answers
    <3> QED
      BY <3>1, OneAnswerMore
  <2>2. Len(Getters) \in Nat /\ Len(answers) \in Nat
    BY GettersType DEF TypesInv
  <2>3. rtr \in -2..Len(Getters)
    <3>1. rtr = 0 \/ rtr = Cardinality(Missing(answers)) \/ rtr = -2 \/ rtr = -1 \/ (rtr = 1 /\ Len(Getters) # 0)
      BY DEF TypesInv, CountInv
    <3>2. Len(answers) <= Len(Getters)
      BY <2>2 DEF TypesInv
    <3> QED
      BY <3>1, <3>2, <2>1, <2>2
  <2>4. found.at \subseteq {"rom", "platform", "global"}
    BY DEF TypesInv, Found
  <2> QED
    BY <2>3, <2>4 DEF TypesInv, TypeOK
<1> QED
  BY TypesInit, <1>1, <1>2, PTL DEF Spec

-----------------------------------------------------------------------------
(* The most specific level *)

(* No line that sets a longer name at the level of a platform is taken for *)
(* a setting of the call: what the missing comparison of eeconfig.c:193    *)
(* would have ensured.                                                     *)
SettingsApart ==
  \A f \in Files, d \in Calls : \A n \in DOMAIN f.lines, m \in DOMAIN d.getters :
    IsSane(d.getters[m]) /\ IsPlatform(d.getters[m], f.lines[n]) =>
      f.lines[n].setting = d.getters[m].setting

LEMMA NothingSummary ==
  ASSUME NEW g, NEW s
  PROVE  Summary(g, NothingFound, s, 0)
<1>1. NothingFound.at = {}
  BY DEF NothingFound
<1>2. 1..0 = {}
  OBVIOUS
<1>3. /\ RomLines(g, s, 0) = {} /\ PlatformLines(g, s, 0) = {}
      /\ GlobalLines(g, s, 0) = {} /\ RawLines(g, s, 0) = {}
  BY <1>2 DEF RomLines, PlatformLines, GlobalLines, RawLines
<1> QED
  BY <1>1, <1>3 DEF Summary, RomSummary, PlatformSummary, GlobalSummary

LEMMA SearchStep ==
  ASSUME SettingsApart, TypesInv, CountInv, SearchInv, [Next]_vars
  PROVE  SearchInv'
<1>1. CASE UNCHANGED vars
  BY <1>1 DEF vars, search, SearchInv, Lines, Getters, IsSearched
<1>2. CASE Next
  <2>1. file' = file /\ call' = call /\ Lines' = Lines /\ Getters' = Getters
    BY <1>2 DEF Next, Lines, Getters
  <2>2. Lines \in Seq(Line) /\ Getters \in Seq(Getter)
    BY LinesType, GettersType DEF TypesInv
  <2>3. CASE NoGetters \/ CannotOpen \/ Finish
    <3>1. pc' \in {"returned", "crashed"}
      BY <2>3 DEF NoGetters, CannotOpen, Finish
    <3> QED
      BY <3>1 DEF SearchInv
  <2>4. CASE ReadConfig
    <3>1. pc' = "getting" /\ line' = 1 /\ found' = NothingFound /\ line' - 1 = 0
      BY <2>4 DEF ReadConfig, search, SearchInv
    <3> QED
      BY <3>1, NothingSummary DEF SearchInv
  <2>5. CASE ConsiderLine
    <3> DEFINE g == Getters[k]
    <3>1. /\ pc = "getting" /\ pc' = "getting" /\ k <= Len(Getters) /\ k' = k /\ buffer' = buffer
          /\ IsSearched /\ line' = line + 1 /\ found' = Consider(g, found, Lines[line])
      BY <2>5 DEF ConsiderLine
    <3>2. line - 1 \in Nat /\ (line - 1) + 1 = line /\ line \in 1..Len(Lines) /\ line' - 1 = line
      BY <2>2, <2>5 DEF ConsiderLine, TypesInv
    <3>3. k \in 1..Len(Getters) /\ g \in Getter
      BY <2>2, <3>1 DEF TypesInv
    <3>4. Summary(g, found, Lines, line - 1)
      BY <3>1 DEF SearchInv
    <3>5. IsPlatform(g, Lines[line]) => Lines[line].setting = g.setting
      <4>1. line \in DOMAIN file.lines /\ Lines[line] = file.lines[line]
        BY <3>2, LinesType DEF TypesInv
      <4>2. k \in DOMAIN call.getters /\ g = call.getters[k]
        BY <2>2, <3>3 DEF Getters
      <4>3. IsSane(call.getters[k])
        BY <3>1, <4>2 DEF IsSearched
      <4> QED
        BY <4>1, <4>2, <4>3 DEF SettingsApart, TypesInv
    <3>6. found \in Found
      BY DEF TypesInv
    <3> HIDE DEF g
    <3>7. Summary(g, Consider(g, found, Lines[line]), Lines, line)
      BY <2>2, <3>2, <3>3, <3>4, <3>5, <3>6, ConsiderKeepsSummary
    <3>8. Summary(g, found', Lines', line' - 1)
      BY <2>1, <3>1, <3>2, <3>7
    <3>9. IsSearched' <=> IsSearched
      BY <2>1, <3>1 DEF IsSearched
    <3> QED
      BY <2>1, <3>1, <3>8, <3>9 DEF SearchInv, g
  <2>6. CASE Get
    <3>1. pc' = "getting" /\ found' = NothingFound /\ line' - 1 = 0
      BY <2>6 DEF Get
    <3> QED
      BY <3>1, NothingSummary DEF SearchInv
  <2> QED
    BY <1>2, <2>3, <2>4, <2>5, <2>6 DEF Next
<1> QED
  BY <1>1, <1>2

LEMMA TheLast ==
  ASSUME NEW set \in SUBSET Int, NEW n, IsLast(set, n)
  PROVE  set # {} /\ LastOf(set) = Lines[n].value
<1>1. n \in set /\ \A o \in set : o <= n
  BY DEF IsLast
<1>2. \A m \in set : (\A o \in set : o <= m) => m = n
  BY <1>1
<1>3. (CHOOSE m \in set : \A o \in set : o <= m) = n
  BY <1>1, <1>2
<1> QED
  BY <1>1, <1>3 DEF LastOf

LEMMA TheFirst ==
  ASSUME NEW set \in SUBSET Int, NEW n, IsFirst(set, n)
  PROVE  set # {} /\ FirstOf(set) = Lines[n].value
<1>1. n \in set /\ \A o \in set : n <= o
  BY DEF IsFirst
<1>2. \A m \in set : (\A o \in set : m <= o) => m = n
  BY <1>1
<1>3. (CHOOSE m \in set : \A o \in set : m <= o) = n
  BY <1>1, <1>2
<1> QED
  BY <1>1, <1>3 DEF FirstOf

(* What is answered after the last line is what the reference says. *)
LEMMA AnswerIsReference ==
  ASSUME file \in Files, found \in Found, NEW g, Summary(g, found, Lines, Len(Lines)),
         \A n \in 1..Len(Lines) : IsPlatform(g, Lines[n]) => Lines[n].setting = g.setting
  PROVE  Answer(g) = Reference(g)
<1> DEFINE s == Lines
           b == Len(Lines)
           set == Setting(g)
<1>1. s \in Seq(Line) /\ b \in Nat /\ DOMAIN s = 1..b
  BY LinesType
<1>2. set.rom = RomLines(g, s, b) /\ set.rom \in SUBSET Int
  BY <1>1 DEF Setting, RomLines
<1>3. set.platform = PlatformLines(g, s, b) /\ set.platform \in SUBSET Int
  BY <1>1 DEF Setting, PlatformLines
<1>4. set.global = GlobalLines(g, s, b) /\ set.global \in SUBSET Int
  BY <1>1 DEF Setting, GlobalLines
<1>5. set.raw = RawLines(g, s, b) /\ set.raw \in SUBSET Int
  BY <1>1 DEF Setting, RawLines
<1>6. Reference(g) =
        IF set.rom # {} THEN Report(g.type, LastOf(set.rom))
        ELSE IF set.platform # {} THEN Report(g.type, LastOf(set.platform))
        ELSE IF set.global # {} THEN Report(g.type, LastOf(set.global))
        ELSE IF set.raw # {} THEN Report(g.type, FirstOf(set.raw)) ELSE Unset
  BY DEF Reference
<1>7. found.at \subseteq {"rom", "platform", "global"}
  BY DEF Found
<1>8. Summary(g, found, s, b)
  OBVIOUS
<1> HIDE DEF s, b, set
<1>9. CASE "rom" \in found.at
  <2>1. PICK n \in 1..b : IsLast(set.rom, n) /\ Holds(found, "rom", s[n])
    BY <1>2, <1>8, <1>9 DEF Summary, RomSummary
  <2>2. set.rom # {} /\ LastOf(set.rom) = found.rom
    BY <2>1, <1>2, TheLast DEF Holds, s
  <2> QED
    BY <2>2, <1>6, <1>9 DEF Answer
<1>10. CASE "rom" \notin found.at /\ "platform" \in found.at
  <2>1. set.rom = {}
    BY <1>2, <1>8, <1>10 DEF Summary, RomSummary
  <2>2. PICK n \in 1..b : IsLast(set.platform, n) /\ Holds(found, "platform", s[n])
    BY <1>3, <1>8, <1>10 DEF Summary, PlatformSummary
  <2>3. set.platform # {} /\ LastOf(set.platform) = found.platform
    BY <2>2, <1>3, TheLast DEF Holds, s
  <2> QED
    BY <2>1, <2>3, <1>6, <1>10 DEF Answer
<1>11. CASE found.at \cap {"rom", "platform"} = {}
  <2>1. set.rom = {} /\ set.platform = {}
    BY <1>2, <1>3, <1>8, <1>11 DEF Summary, RomSummary, PlatformSummary
  <2>2. GlobalSummary(g, found, s, b)
    BY <1>8, <1>11 DEF Summary
  <2>3. CASE "global" \notin found.at
    <3>1. set.global = {} /\ set.raw = {}
      BY <1>4, <1>5, <2>2, <2>3 DEF GlobalSummary
    <3> QED
      BY <2>1, <2>3, <3>1, <1>6, <1>11 DEF Answer
  <2>4. ASSUME "global" \in found.at, NEW n \in 1..b,
               IsLast(set.global, n), Holds(found, "global", s[n])
        PROVE  Answer(g) = Reference(g)
    <3>1. set.global # {} /\ LastOf(set.global) = found.global
      BY <2>4, <1>4, TheLast DEF Holds, s
    <3> QED
      BY <2>1, <2>4, <3>1, <1>6, <1>11 DEF Answer
  <2>5. ASSUME "global" \in found.at, set.global = {}, NEW n \in 1..b,
               IsFirst(set.raw, n), Holds(found, "global", s[n])
        PROVE  Answer(g) = Reference(g)
    <3>1. set.raw # {} /\ FirstOf(set.raw) = found.global
      BY <2>5, <1>5, TheFirst DEF Holds, s
    <3> QED
      BY <2>1, <2>5, <3>1, <1>6, <1>11 DEF Answer
  <2> QED
    BY <2>2, <2>3, <2>4, <2>5, <1>4, <1>5 DEF GlobalSummary
<1> QED
  BY <1>9, <1>10, <1>11

LEMMA MostSpecificStep ==
  ASSUME SettingsApart, TypesInv, CountInv, SearchInv, MostSpecific, [Next]_vars
  PROVE  MostSpecific'
<1>1. CASE UNCHANGED vars
  <2>1. Lines' = Lines /\ Getters' = Getters /\ answers' = answers /\ buffer' = buffer
    BY <1>1 DEF vars, search, Lines, Getters
  <2>2. \A g : Reference(g)' = Reference(g)
    BY <2>1 DEF Reference, Setting, LastOf, FirstOf
  <2> QED
    BY <2>1, <2>2 DEF MostSpecific
<1>2. CASE Next
  <2>1. file' = file /\ call' = call /\ Lines' = Lines /\ Getters' = Getters
    BY <1>2 DEF Next, Lines, Getters
  <2>2. Lines \in Seq(Line) /\ Getters \in Seq(Getter)
    BY LinesType, GettersType DEF TypesInv
  <2>3. \A g : Reference(g)' = Reference(g)
    BY <2>1 DEF Reference, Setting, LastOf, FirstOf
  <2>4. CASE NoGetters \/ CannotOpen \/ Finish \/ ConsiderLine
    <3>1. answers' = answers /\ buffer' = buffer
      BY <2>4 DEF NoGetters, CannotOpen, Finish, ConsiderLine, search
    <3> QED
      BY <2>1, <2>3, <3>1 DEF MostSpecific
  <2>5. CASE ReadConfig
    <3>1. answers' = <<>>
      BY <2>5 DEF ReadConfig, search, CountInv
    <3> QED
      BY <3>1 DEF MostSpecific
  <2>6. CASE Get
    <3> DEFINE g == Getters[k]
    <3>1. g \in Getter /\ k \in 1..Len(Getters)
      BY <2>2, <2>6 DEF Get, TypesInv
    <3>2. Answer(g) \in Answers
      BY <3>1, AnswerType DEF TypesInv
    <3>3. /\ answers \in Seq(Answers) /\ answers' = Append(answers, Answer(g))
          /\ k = Len(answers) + 1 /\ buffer' = buffer /\ pc = "getting"
      BY <2>6 DEF Get, TypesInv
    <3>4. /\ DOMAIN answers' = 1..k /\ DOMAIN answers = 1..(k - 1)
          /\ answers'[k] = Answer(g) /\ \A n \in 1..(k - 1) : answers'[n] = answers[n]
      BY <3>2, <3>3
    <3>5. ASSUME buffer = "read", IsSane(g) PROVE Answer(g) = Reference(g)
      <4>1. IsSearched
        BY <3>5 DEF IsSearched
      <4>2. line - 1 = Len(Lines)
        BY <4>1, <2>2, <2>6 DEF Get, TypesInv
      <4>3. Summary(g, found, Lines, Len(Lines))
        BY <4>1, <4>2, <3>1, <3>3, <2>2 DEF SearchInv
      <4>4. \A n \in 1..Len(Lines) : IsPlatform(g, Lines[n]) => Lines[n].setting = g.setting
        <5> TAKE n \in 1..Len(Lines)
        <5>1. n \in DOMAIN file.lines /\ Lines[n] = file.lines[n]
          BY LinesType DEF TypesInv
        <5>2. k \in DOMAIN call.getters /\ g = call.getters[k]
          BY <2>2, <3>1 DEF Getters
        <5> QED
          BY <3>5, <5>1, <5>2 DEF SettingsApart, TypesInv
      <4> HIDE DEF g
      <4> QED
        BY <4>3, <4>4, AnswerIsReference DEF TypesInv
    <3>6. ASSUME NEW n \in DOMAIN answers', buffer' = "read", IsSane(Getters'[n])
          PROVE  answers'[n] = Reference(Getters[n])
      <4>1. CASE n = k
        BY <4>1, <3>3, <3>4, <3>5, <3>6, <2>1
      <4>2. CASE n # k
        <5>1. n \in DOMAIN answers
          BY <4>2, <3>4, <3>3, <3>6
        <5> QED
          BY <5>1, <3>3, <3>4, <3>6, <2>1 DEF MostSpecific
      <4> QED
        BY <4>1, <4>2
    <3> QED
      BY <3>6, <2>1, <2>3 DEF MostSpecific
  <2> QED
    BY <1>2, <2>4, <2>5, <2>6 DEF Next
<1> QED
  BY <1>1, <1>2

(* A setting is answered from the most specific level that has it, and at  *)
(* each level from the line that counts, whatever the order of the lines   *)
(* and however many settings were looked up before: unless the name of     *)
(* another setting of the platform begins with the one sought              *)
(* (eeconfig.c:166-257).                                                   *)
THEOREM SettingsMostSpecific ==
  ASSUME SettingsApart
  PROVE  Spec => []MostSpecific
<1> DEFINE Inv == TypesInv /\ CountInv /\ SearchInv /\ MostSpecific
<1>1. Init => Inv
  BY TypesInit DEF Init, MostSpecific
<1>2. Inv /\ [Next]_vars => Inv'
  BY TypesStep, CountStep, SearchStep, MostSpecificStep
<1> QED
  BY <1>1, <1>2, PTL DEF Spec

LEMMA InsaneStep ==
  ASSUME TypesInv, CountInv, SearchInv, InsaneInv, [Next]_vars
  PROVE  InsaneInv'
<1>1. CASE UNCHANGED vars
  BY <1>1 DEF vars, search, InsaneInv, Getters
<1>2. CASE Next
  <2>1. Getters' = Getters /\ Getters \in Seq(Getter)
    BY <1>2, GettersType DEF Next, Getters, TypesInv
  <2>2. CASE NoGetters \/ CannotOpen \/ ReadConfig \/ ConsiderLine \/ Finish
    <3>1. answers' = answers
      BY <2>2 DEF NoGetters, CannotOpen, ReadConfig, ConsiderLine, Finish, search
    <3>2. \A n \in DOMAIN answers : Getters'[n] = Getters[n]
      BY <2>1
    <3> QED
      BY <3>1, <3>2 DEF InsaneInv, IsSane
  <2>3. CASE Get
    <3>1. /\ answers \in Seq(Answers) /\ answers' = Append(answers, Answer(Getters[k]))
          /\ k = Len(answers) + 1 /\ pc = "getting" /\ k <= Len(Getters)
      BY <2>3 DEF Get, TypesInv
    <3>2. Answer(Getters[k]) \in Answers
      BY <2>1, <3>1, AnswerType DEF TypesInv
    <3>3. /\ DOMAIN answers' = 1..k /\ DOMAIN answers = 1..(k - 1)
          /\ answers'[k] = Answer(Getters[k])
          /\ \A n \in 1..(k - 1) : answers'[n] = answers[n]
      BY <3>1, <3>2
    <3>4. ~IsSane(Getters[k]) => Answer(Getters[k]) = Unset
      BY <3>1, NoAnswer DEF IsSearched, SearchInv
    <3>5. ASSUME NEW n \in DOMAIN answers', ~IsSane(Getters[n]) PROVE answers'[n] = Unset
      <4>1. CASE n = k
        BY <3>3, <3>4, <3>5, <4>1
      <4>2. CASE n # k
        <5>1. n \in DOMAIN answers
          BY <3>1, <3>3, <3>5, <4>2
        <5> QED
          BY <3>3, <3>5, <5>1 DEF InsaneInv
      <4> QED
        BY <4>1, <4>2
    <3> QED
      BY <2>1, <3>5 DEF InsaneInv
  <2> QED
    BY <1>2, <2>2, <2>3 DEF Next
<1> QED
  BY <1>1, <1>2

(* Of a file that was read, the value returned is the number of the        *)
(* settings the file has at no level or that make no sense: what the lines *)
(* hold, in whatever order, and not only what was answered                 *)
(* (eeconfig.h:95, eeconfig.c:284-300).                                    *)
THEOREM MissingAreCounted ==
  ASSUME SettingsApart
  PROVE  Spec => []MissingCounted
<1> DEFINE Inv == TypesInv /\ CountInv /\ SearchInv /\ MostSpecific /\ InsaneInv
<1>1. Init => Inv
  BY TypesInit DEF Init, MostSpecific, InsaneInv
<1>2. Inv /\ [Next]_vars => Inv'
  BY TypesStep, CountStep, SearchStep, MostSpecificStep, InsaneStep
<1>3. Inv => MissingCounted
  <2> SUFFICES ASSUME Inv, pc = "returned", buffer = "read" PROVE rtr = Cardinality(Absent)
    BY DEF MissingCounted
  <2>1. rtr = Cardinality(Missing(answers)) /\ k = Len(Getters) + 1
    BY DEF CountInv
  <2>2. DOMAIN answers = DOMAIN Getters
    <3>1. DOMAIN Getters = 1..Len(Getters) /\ DOMAIN answers = 1..Len(answers)
      BY GettersType DEF TypesInv
    <3>2. Len(answers) \in Nat /\ Len(Getters) \in Nat
      BY GettersType DEF TypesInv
    <3>3. Len(answers) + 1 = Len(Getters) + 1
      BY <2>1 DEF TypesInv
    <3>4. Len(answers) = Len(Getters)
      BY <3>2, <3>3
    <3> QED
      BY <3>1, <3>4
  <2>3. Absent = Missing(answers)
    <3>1. \A n \in DOMAIN Getters :
            answers[n] = IF IsSane(Getters[n]) THEN Reference(Getters[n]) ELSE Unset
      BY <2>2 DEF MostSpecific, InsaneInv
    <3> QED
      BY <2>2, <3>1 DEF Absent, Missing
  <2> QED
    BY <2>1, <2>3
<1> QED
  BY <1>1, <1>2, <1>3, PTL DEF Spec

-----------------------------------------------------------------------------
(* The functions that unescape *)

(* Characters, as a set the provers take apart no further. *)
Chars == Characters \cup {NUL, "other"}

LEMMA OneLong ==
  ASSUME NEW S, NEW x \in S
  PROVE  <<x>> \in Seq(S) /\ Len(<<x>>) = 1 /\ <<x>>[1] = x
<1>1. <<x>> \in Seq(S)
  OBVIOUS
<1> QED
  BY <1>1

LEMMA FourLong ==
  ASSUME NEW S, NEW w \in S, NEW x \in S, NEW y \in S, NEW z \in S
  PROVE  LET e == <<w, x, y, z>>
         IN  /\ e \in Seq(S) /\ Len(e) = 4
             /\ e[1] = w /\ e[2] = x /\ e[3] = y /\ e[4] = z
<1>1. <<w, x, y, z>> \in Seq(S)
  OBVIOUS
<1> QED
  BY <1>1

LEMMA ThreeOf ==
  ASSUME NEW S, NEW s \in Seq(S), NEW n \in Nat, n + 3 <= Len(s)
  PROVE  SubSeq(s, n + 1, n + 3) = <<s[n + 1], s[n + 2], s[n + 3]>>
<1> DEFINE t == SubSeq(s, n + 1, n + 3)
           u == <<s[n + 1], s[n + 2], s[n + 3]>>
<1>1. s[n + 1] \in S /\ s[n + 2] \in S /\ s[n + 3] \in S
  OBVIOUS
<1>2. u \in Seq(S) /\ Len(u) = 3 /\ u[1] = s[n + 1] /\ u[2] = s[n + 2] /\ u[3] = s[n + 3]
  BY <1>1
<1>3. t \in Seq(S) /\ Len(t) = 3 /\ t[1] = s[n + 1] /\ t[2] = s[n + 2] /\ t[3] = s[n + 3]
  OBVIOUS
<1>4. \A d \in 1..3 : d = 1 \/ d = 2 \/ d = 3
  OBVIOUS
<1> HIDE DEF t, u
<1>5. \A d \in 1..Len(t) : t[d] = u[d]
  BY <1>2, <1>3, <1>4
<1>6. t = u
  BY <1>2, <1>3, <1>5, SeqEqual
<1> QED
  BY <1>6 DEF t, u

LEMMA OctalCases ==
  /\ DOMAIN Octal = {<<"0", "4", "0">>, <<"0", "1", "1">>, <<"0", "1", "2">>, <<"1", "3", "4">>}
  /\ Octal[<<"0", "4", "0">>] = " " /\ Octal[<<"0", "1", "1">>] = "tab"
  /\ Octal[<<"0", "1", "2">>] = "newline" /\ Octal[<<"1", "3", "4">>] = "\\"
BY DEF Octal

(* The digits systemd writes are read as what they stand for. *)
LEMMA DigitsDecode ==
  ASSUME NEW n \in 0..15
  PROVE  HexDigit(n) \in Hex /\ Unhex(HexDigit(n)) = n /\ HexDigit(n) # "-"
<1> DEFINE ch == HexDigit(n)
<1>1. ch \in Characters /\ Byte[ch] = DigitByte(n)
  BY ByteAssumption DEF HexDigit
<1> HIDE DEF ch
<1>2. DigitByte(n) = IF n < 10 THEN 48 + n ELSE 87 + n
  BY DEF DigitByte
<1>3. Unhex(ch) = n
  <2>1. CASE n < 10
    <3>1. Byte[ch] = 48 + n /\ Byte[ch] \in 48..57
      BY <1>1, <1>2, <2>1
    <3> QED
      BY <3>1 DEF Unhex
  <2>2. CASE ~(n < 10)
    <3>1. Byte[ch] = 87 + n /\ Byte[ch] \in 97..102 /\ Byte[ch] \notin 48..57
      BY <1>1, <1>2, <2>2
    <3> QED
      BY <3>1 DEF Unhex
  <2> QED
    BY <2>1, <2>2
<1>4. ch \in Hex
  BY <1>1, <1>3 DEF Hex
<1>5. DigitByte(n) # 45
  BY <1>2
<1>6. ch # "-"
  BY <1>1, <1>5, ByteAssumption
<1> QED
  BY <1>3, <1>4, <1>6 DEF ch

LEMMA TwoDigits ==
  ASSUME NEW b \in 1..255
  PROVE  b \div 16 \in 0..15 /\ b % 16 \in 0..15 /\ 16 * (b \div 16) + (b % 16) = b
OBVIOUS

LEMMA HexCharOfByte ==
  ASSUME NEW ch \in Characters
  PROVE  LET up == HexDigit(Byte[ch] \div 16)
             low == HexDigit(Byte[ch] % 16)
         IN  /\ up \in Hex /\ low \in Hex /\ up # "-" /\ low # "-"
             /\ HexChar(<<up, low>>) = ch
<1> DEFINE up == HexDigit(Byte[ch] \div 16)
           low == HexDigit(Byte[ch] % 16)
           digits == <<up, low>>
<1>1. Byte[ch] \in 1..255
  BY ByteAssumption
<1>2. /\ Byte[ch] \div 16 \in 0..15 /\ Byte[ch] % 16 \in 0..15
      /\ 16 * (Byte[ch] \div 16) + (Byte[ch] % 16) = Byte[ch]
  BY <1>1, TwoDigits
<1>3. up \in Hex /\ Unhex(up) = Byte[ch] \div 16 /\ up # "-"
  BY <1>2, DigitsDecode
<1>4. low \in Hex /\ Unhex(low) = Byte[ch] % 16 /\ low # "-"
  BY <1>2, DigitsDecode
<1> HIDE DEF up, low
<1>5. digits[1] = up /\ digits[2] = low
  OBVIOUS
<1> HIDE DEF digits
<1>6. 16 * Unhex(digits[1]) + Unhex(digits[2]) = Byte[ch] /\ Byte[ch] # 0
  BY <1>1, <1>2, <1>3, <1>4, <1>5
<1>7. \A o \in Characters : Byte[o] = Byte[ch] => o = ch
  BY ByteAssumption
<1>8. (CHOOSE o \in Characters : Byte[o] = Byte[ch]) = ch
  BY <1>7
<1>9. HexChar(digits) = ch
  BY <1>6, <1>8 DEF HexChar
<1> QED
  BY <1>3, <1>4, <1>9 DEF up, low, digits

LEMMA OctalIsText ==
  ASSUME NEW o \in DOMAIN Octal
  PROVE  o = <<o[1], o[2], o[3]>> /\ {o[1], o[2], o[3]} \subseteq {"0", "1", "2", "3", "4"}
<1> DEFINE IsText(s) == /\ s = <<s[1], s[2], s[3]>>
                        /\ {s[1], s[2], s[3]} \subseteq {"0", "1", "2", "3", "4"}
<1>1. IsText(<<"0", "4", "0">>)
  OBVIOUS
<1>2. IsText(<<"0", "1", "1">>)
  OBVIOUS
<1>3. IsText(<<"0", "1", "2">>)
  OBVIOUS
<1>4. IsText(<<"1", "3", "4">>)
  OBVIOUS
<1> HIDE DEF IsText
<1>5. IsText(o)
  BY <1>1, <1>2, <1>3, <1>4, OctalCases
<1> QED
  BY <1>5 DEF IsText

(* What systemd writes for a character. *)
LEMMA SystemdWrites ==
  ASSUME NEW ch, NEW e \in SystemdEscapes(ch)
  PROVE  \/ ch = "/" /\ e = <<"-">>
         \/ ch # "/" /\ e = HexEscape(ch)
         \/ ch \notin {"/", "-", "\\"} /\ e = <<ch>>
BY DEF SystemdEscapes

(* An escape with two digits, a character at a time. *)
LEMMA HexEscapeIs ==
  ASSUME NEW ch \in Characters
  PROVE  LET e == HexEscape(ch)
         IN  /\ e \in Seq(Characters) /\ Len(e) = 4 /\ e[1] = "\\" /\ e[2] = "x"
             /\ e[3] = HexDigit(Byte[ch] \div 16) /\ e[4] = HexDigit(Byte[ch] % 16)
<1> DEFINE up == HexDigit(Byte[ch] \div 16)
           low == HexDigit(Byte[ch] % 16)
<1>1. up \in Characters /\ low \in Characters
  BY HexCharOfByte DEF Hex
<1>2. HexEscape(ch) = <<"\\", "x", up, low>>
  BY DEF HexEscape
<1>3. "\\" \in Characters /\ "x" \in Characters
  BY CharactersAssumption
<1> HIDE DEF up, low
<1>4. LET e == <<"\\", "x", up, low>>
      IN  /\ e \in Seq(Characters) /\ Len(e) = 4
          /\ e[1] = "\\" /\ e[2] = "x" /\ e[3] = up /\ e[4] = low
  BY <1>1, <1>3, FourLong
<1> QED
  BY <1>2, <1>4 DEF up, low

(* What the kernel writes for a character. *)
LEMMA KernelEscapes ==
  ASSUME NEW ch \in Characters
  PROVE  \/ \E o \in DOMAIN Octal :
              Octal[o] = ch /\ KernelEscape(ch) = <<"\\", o[1], o[2], o[3]>>
         \/ ch # "\\" /\ KernelEscape(ch) = <<ch>>
<1>1. CASE \E o \in DOMAIN Octal : Octal[o] = ch
  BY <1>1 DEF KernelEscape
<1>2. CASE ~\E o \in DOMAIN Octal : Octal[o] = ch
  <2>1. ch # "\\"
    BY <1>2, OctalCases
  <2> QED
    BY <1>2, <2>1 DEF KernelEscape
<1> QED
  BY <1>1, <1>2

(* Where a path is laid out in a text: at[m] is where the escape of its    *)
(* m-th character begins.                                                  *)
EscapesIn(kd, ch) == IF kd = "unit" THEN SystemdEscapes(ch) ELSE {KernelEscape(ch)}

IsAt(t, p, kd, at, m) ==
  \E e \in EscapesIn(kd, p[m]) :
    /\ at[m + 1] = at[m] + Len(e)
    /\ \A d \in 1..Len(e) : t[at[m] + d - 1] = e[d]

(* The positions of the first n characters, the text being len long.       *)
IsLayout(at, n, len) ==
  /\ at \in [1..(n + 1) -> Nat]
  /\ at[1] = 1 /\ at[n + 1] = len + 1
  /\ \A m \in 1..(n + 1) : m <= at[m] /\ at[m] <= len + 1
  /\ \A m \in 1..n : at[m] < at[m + 1]

EscapingInv ==
  ret = 3 =>
    /\ c = 1 /\ diff = 0
    /\ path # <<>> => \E at : /\ IsLayout(at, escaped, Len(text))
                             /\ \A m \in 1..escaped : IsAt(text, path, kind, at, m)

(* How far the path came back: the character written next is the one whose *)
(* escape is read next.                                                    *)
Unescaping(at) ==
  LET n == Len(path)
      j == c - diff
  IN  /\ IsLayout(at, n, Len(text) - 1)
      /\ j \in 1..(n + 1) /\ c = at[j] /\ diff \in Nat
      /\ \A m \in j..n : IsAt(text, path, kind, at, m)
      /\ \A m \in 1..(j - 1) : text[m] = path[m]
      /\ text[Len(text)] = NUL

UnescapingInv ==
  path # <<>> =>
    /\ ret = 2 => \E at : Unescaping(at)
    /\ ret = 0 => /\ Len(text) > Len(path) /\ text[Len(path) + 1] = NUL
                  /\ \A m \in 1..Len(path) : text[m] = path[m]
    /\ ret # -1

LayerInv ==
  path # <<>> /\ kind = "unit" =>
    /\ ret = 3 => Cardinality(Positions(text, "-"))
                    = Cardinality({n \in 1..escaped : path[n] = "/"})
    /\ ret # 3 => layer = 1 + Cardinality(Positions(path, "/"))

(* While the function runs the last character is the NUL, and it reads no  *)
(* further.                                                                *)
TextInv ==
  /\ path \in Paths \cup {<<>>} /\ path \in Seq(Characters) /\ kind \in {"mountinfo", "unit"}
  /\ escaped \in 0..Len(path) /\ text \in Seq(Chars)
  /\ c \in 1..(Len(text) + 1) /\ diff \in 0..(c - 1)
  /\ layer \in Nat /\ ret \in {3, 2, 0, -1}
  /\ ret = 3 => c = 1 /\ diff = 0
  /\ ret = 2 => c <= Len(text) /\ text[Len(text)] = NUL

IsEscape(e) ==
  e \in Seq(Chars) /\ Len(e) \in {1, 4} /\ e[1] # NUL /\ (Len(e) = 1 => e = <<e[1]>>)

LEMMA EscapeShape ==
  ASSUME NEW kd, NEW ch \in Characters, NEW e \in EscapesIn(kd, ch)
  PROVE  IsEscape(e)
<1> "\\" \in Chars /\ "\\" # NUL /\ Characters \subseteq Chars
  BY CharactersAssumption DEF Chars
<1>1. ASSUME NEW x \in Characters, NEW y \in Characters, NEW z \in Characters
      PROVE  IsEscape(<<"\\", x, y, z>>)
  <2> DEFINE f == <<"\\", x, y, z>>
  <2>1. "\\" \in Chars /\ x \in Chars /\ y \in Chars /\ z \in Chars
    OBVIOUS
  <2>2. f \in Seq(Chars) /\ Len(f) = 4 /\ f[1] = "\\"
    BY <2>1, FourLong
  <2> HIDE DEF f
  <2>4. IsEscape(f)
    BY <2>2 DEF IsEscape
  <2> QED
    BY <2>4 DEF f
<1>2. ASSUME NEW x \in Characters
      PROVE  IsEscape(<<x>>)
  <2> DEFINE f == <<x>>
  <2>1. x \in Chars /\ x # NUL
    BY CharactersAssumption
  <2>2. f \in Seq(Chars) /\ Len(f) = 1 /\ f[1] = x
    BY <2>1, OneLong
  <2>3. f = <<f[1]>>
    BY <2>2
  <2> HIDE DEF f
  <2>4. IsEscape(f)
    BY <2>1, <2>2, <2>3 DEF IsEscape
  <2> QED
    BY <2>4 DEF f
<1>3. "-" \in Characters
  BY CharactersAssumption
<1> HIDE DEF IsEscape
<1>4. CASE kd = "unit"
  <2>1. e \in SystemdEscapes(ch)
    BY <1>4 DEF EscapesIn
  <2>2. CASE e = <<"-">>
    BY <2>2, <1>2, <1>3
  <2>3. CASE e = HexEscape(ch)
    <3>1. /\ "x" \in Characters /\ HexDigit(Byte[ch] \div 16) \in Characters
          /\ HexDigit(Byte[ch] % 16) \in Characters
      BY HexCharOfByte, CharactersAssumption DEF Hex
    <3> QED
      BY <2>3, <3>1, <1>1 DEF HexEscape
  <2>4. CASE e = <<ch>>
    BY <2>4, <1>2
  <2> QED
    BY <2>1, <2>2, <2>3, <2>4, SystemdWrites
<1>5. CASE kd # "unit"
  <2>1. e = KernelEscape(ch)
    BY <1>5 DEF EscapesIn
  <2>2. ASSUME NEW o \in DOMAIN Octal PROVE IsEscape(<<"\\", o[1], o[2], o[3]>>)
    <3>1. {"0", "1", "2", "3", "4"} \subseteq Characters
      BY CharactersAssumption
    <3> QED
      BY <3>1, OctalIsText, <1>1
  <2> QED
    BY <2>1, <2>2, <1>2, KernelEscapes
<1> QED
  BY <1>4, <1>5

(* What is decoded from a text in which three characters follow. *)
LEMMA NextThree ==
  ASSUME text \in Seq(Chars), c \in Nat, c + 3 <= Len(text)
  PROVE  Next3 = <<text[c + 1], text[c + 2], text[c + 3]>>
BY ThreeOf DEF Next3

LEMMA ThreeLong ==
  ASSUME NEW x, NEW y, NEW z
  PROVE  /\ Len(<<x, y, z>>) = 3 /\ Tail(<<x, y, z>>) = <<y, z>>
         /\ <<x, y, z>>[1] = x /\ <<x, y, z>>[2] = y /\ <<x, y, z>>[3] = z
OBVIOUS

(* A turn of the loop at the escape of a character writes that character.  *)
LEMMA TurnDecodes ==
  ASSUME path \in Seq(Characters), text \in Seq(Chars), kind \in {"mountinfo", "unit"},
         NEW at, Unescaping(at), c - diff <= Len(path), Turn
  PROVE  LET j == c - diff
             len == at[j + 1] - at[j]
         IN  /\ text' = [text EXCEPT ![j] = path[j]]
             /\ c' = c + len /\ diff' = diff + len - 1 /\ ret' = 2
<1> DEFINE j == c - diff
           ch == path[j]
<1>1. j \in 1..Len(path) /\ ch \in Characters /\ c = at[j]
  BY DEF Unescaping
<1>3. PICK e \in EscapesIn(kind, ch) :
        /\ at[j + 1] = at[j] + Len(e)
        /\ \A d \in 1..Len(e) : text[at[j] + d - 1] = e[d]
  <2>1. IsAt(text, path, kind, at, j)
    BY <1>1 DEF Unescaping
  <2> QED
    BY <2>1 DEF IsAt
<1>2. IsEscape(e)
  BY <1>1, EscapeShape
<1>4. c \in Nat /\ Len(text) \in Nat /\ c + Len(e) <= Len(text)
  <2>1. IsLayout(at, Len(path), Len(text) - 1)
    BY DEF Unescaping
  <2>2. Len(path) \in Nat /\ Len(text) \in Nat /\ j \in 1..(Len(path) + 1) /\ j + 1 \in 1..(Len(path) + 1)
    BY <1>1
  <2>3. at[j] \in Nat /\ at[j + 1] <= (Len(text) - 1) + 1
    BY <2>1, <2>2 DEF IsLayout
  <2> QED
    BY <2>2, <2>3, <1>1, <1>3
<1>5. Len(e) \in {1, 4} /\ e[1] # NUL
  BY <1>2 DEF IsEscape
<1>6. text[c] = e[1]
  <2>1. 1 \in 1..Len(e) /\ at[j] + 1 - 1 = c
    BY <1>1, <1>4, <1>5
  <2> QED
    BY <2>1, <1>3
<1>7. ASSUME Len(e) = 4
      PROVE  Next3 = <<e[2], e[3], e[4]>>
  <2>1. text[c + 1] = e[2] /\ text[c + 2] = e[3] /\ text[c + 3] = e[4]
    <3>1. \A d \in 1..4 : text[c + d - 1] = e[d]
      BY <1>1, <1>3, <1>7
    <3>2. c + 2 - 1 = c + 1 /\ c + 3 - 1 = c + 2 /\ c + 4 - 1 = c + 3
      BY <1>4
    <3> QED
      BY <3>1, <3>2
  <2>2. c + 3 <= Len(text)
    BY <1>4, <1>7
  <2> QED
    BY <2>1, <2>2, <1>4, NextThree
<1>8. ret = 2 /\ (MountinfoTurn \/ UnitTurn)
  BY <1>5, <1>6 DEF Turn
<1>9. ASSUME Copy(ch), Len(e) = 1
      PROVE  text' = [text EXCEPT ![j] = ch] /\ c' = c + Len(e) /\ diff' = diff + Len(e) - 1 /\ ret' = 2
  <2>1. diff \in Nat
    BY DEF Unescaping
  <2> QED
    BY <1>8, <1>9, <2>1 DEF Copy, Write
<1>10. ASSUME Decode(ch), Len(e) = 4
       PROVE  text' = [text EXCEPT ![j] = ch] /\ c' = c + Len(e) /\ diff' = diff + Len(e) - 1 /\ ret' = 2
  <2>1. diff \in Nat
    BY DEF Unescaping
  <2> QED
    BY <1>8, <1>10, <2>1 DEF Decode, Write
<1>14. at[j + 1] - at[j] = Len(e)
  BY <1>1, <1>3, <1>4
<1>11. CASE kind = "unit"
  <2>1. UnitTurn
    BY <1>8, <1>11 DEF MountinfoTurn
  <2>2. e \in SystemdEscapes(ch)
    BY <1>11, <1>3 DEF EscapesIn
  <2>3. CASE ch = "/" /\ e = <<"-">>
    <3>2. Len(e) = 1 /\ e[1] = "-"
      BY <2>3
    <3>3. text[c] = "-"
      BY <3>2, <1>6
    <3>4. Copy("/")
      BY <2>1, <3>3 DEF UnitTurn
    <3> QED
      BY <2>3, <3>2, <3>4, <1>9, <1>14
  <2>4. CASE e = HexEscape(ch)
    <3> DEFINE up == HexDigit(Byte[ch] \div 16)
               low == HexDigit(Byte[ch] % 16)
    <3>1. up \in Hex /\ low \in Hex /\ HexChar(<<up, low>>) = ch
      BY <1>1, HexCharOfByte
    <3>2. Len(e) = 4 /\ e[1] = "\\" /\ e[2] = "x" /\ e[3] = up /\ e[4] = low
      BY <2>4, <1>1, HexEscapeIs
    <3> HIDE DEF up, low
    <3>3. Next3 = <<"x", up, low>>
      BY <3>2, <1>7
    <3>5. /\ Len(Next3) = 3 /\ Next3[1] = "x" /\ Next3[2] = up /\ Next3[3] = low
          /\ Tail(Next3) = <<up, low>>
      BY <3>3, ThreeLong
    <3>6. IsHex
      BY <3>1, <3>5 DEF IsHex
    <3>7. HexChar(Tail(Next3)) = ch
      BY <3>1, <3>5
    <3>8. text[c] = "\\"
      BY <3>2, <1>6
    <3>9. Decode(ch)
      BY <2>1, <3>6, <3>7, <3>8 DEF UnitTurn
    <3> QED
      BY <3>2, <3>9, <1>10, <1>14
  <2>5. CASE ch \notin {"/", "-", "\\"} /\ e = <<ch>>
    <3>2. Len(e) = 1 /\ e[1] = ch
      BY <2>5
    <3>3. text[c] = ch
      BY <3>2, <1>6
    <3>4. Copy(ch)
      BY <2>1, <2>5, <3>3 DEF UnitTurn
    <3> QED
      BY <3>2, <3>4, <1>9, <1>14
  <2> QED
    BY <2>2, <2>3, <2>4, <2>5, <1>14, SystemdWrites
<1>12. CASE kind = "mountinfo"
  <2>1. MountinfoTurn
    BY <1>8, <1>12 DEF UnitTurn
  <2>2. e = KernelEscape(ch)
    BY <1>12, <1>3 DEF EscapesIn
  <2>3. ASSUME NEW o \in DOMAIN Octal, Octal[o] = ch, e = <<"\\", o[1], o[2], o[3]>>
        PROVE  text' = [text EXCEPT ![j] = ch] /\ c' = c + Len(e) /\ diff' = diff + Len(e) - 1 /\ ret' = 2
    <3>1. Len(e) = 4 /\ e[1] = "\\" /\ e[2] = o[1] /\ e[3] = o[2] /\ e[4] = o[3]
      BY <2>3
    <3>2. Next3 = o
      BY <3>1, <1>7, OctalIsText
    <3>3. text[c] = "\\"
      BY <3>1, <1>6
    <3>4. Decode(ch)
      BY <2>1, <2>3, <3>2, <3>3 DEF MountinfoTurn, IsOctal
    <3> QED
      BY <3>1, <3>4, <1>10, <1>14
  <2>4. CASE ch # "\\" /\ e = <<ch>>
    <3>1. Len(e) = 1 /\ e[1] = ch
      BY <2>4
    <3>2. text[c] = ch
      BY <3>1, <1>6
    <3>3. Copy(ch)
      BY <2>1, <2>4, <3>2 DEF MountinfoTurn, IsOctal
    <3> QED
      BY <3>1, <3>3, <1>9, <1>14
  <2> QED
    BY <1>1, <2>2, <2>3, <2>4, <1>14, KernelEscapes
<1> QED
  BY <1>11, <1>12

LEMMA TextInvInit == TextInit => TextInv
<1> SUFFICES ASSUME TextInit PROVE TextInv
  OBVIOUS
<1>1. path \in Paths \cup {<<>>} /\ kind \in {"mountinfo", "unit"}
  BY DEF TextInit
<1>2. path \in Seq(Characters)
  BY <1>1, PathsAssumption, EmptySeq
<1>3. text \in Seq(Chars)
  <2>1. CASE text = <<>>
    BY <2>1, EmptySeq
  <2>2. CASE text \in Names
    <3>1. text \in Seq(Characters) /\ Characters \subseteq Chars
      BY <2>2, PathsAssumption DEF Chars
    <3> QED
      BY <3>1, SeqMonotonic
  <2> QED
    BY <2>1, <2>2 DEF TextInit
<1> QED
  BY <1>1, <1>2, <1>3 DEF TextInit, TextInv

(* A turn that decodes an escape has its three characters before the NUL.  *)
LEMMA DecodesBeforeEnd ==
  ASSUME TextInv, ret = 2, IsOctal \/ IsHex
  PROVE  c + 4 <= Len(text)
<1>1. text \in Seq(Chars) /\ c \in Nat /\ Len(text) \in Nat /\ text[Len(text)] = NUL
  BY DEF TextInv
<1>2. Next3 # <<>>
  <2>1. CASE IsOctal
    <3>1. Next3 = <<Next3[1], Next3[2], Next3[3]>>
      BY <2>1, OctalIsText DEF IsOctal
    <3>2. Len(Next3) = 3 /\ Len(<<>>) = 0
      BY <3>1
    <3> QED
      BY <3>2
  <2>2. CASE IsHex
    <3>1. Len(Next3) = 3 /\ Len(<<>>) = 0
      BY <2>2 DEF IsHex
    <3> QED
      BY <3>1
  <2> QED
    BY <2>1, <2>2
<1>3. c + 3 <= Len(text)
  BY <1>2 DEF Next3
<1>4. Next3[3] = text[c + 3]
  BY <1>1, <1>3, NextThree, ThreeLong
<1>5. Next3[3] # NUL
  <2>1. CASE IsOctal
    <3>1. Next3[3] \in {"0", "1", "2", "3", "4"}
      BY <2>1, OctalIsText DEF IsOctal
    <3> QED
      BY <3>1 DEF NUL
  <2>2. CASE IsHex
    BY <2>2, CharactersAssumption DEF IsHex, Hex
  <2> QED
    BY <2>1, <2>2
<1>6. c + 3 # Len(text)
  BY <1>1, <1>4, <1>5
<1> QED
  BY <1>1, <1>3, <1>6

LEMMA HexCharType ==
  ASSUME NEW digits
  PROVE  HexChar(digits) \in Chars
<1> DEFINE value == 16 * Unhex(digits[1]) + Unhex(digits[2])
<1>1. HexChar(digits) = IF value = 0 THEN NUL
                        ELSE IF \E ch \in Characters : Byte[ch] = value
                        THEN CHOOSE ch \in Characters : Byte[ch] = value ELSE "other"
  BY DEF HexChar
<1> HIDE DEF value
<1> QED
  BY <1>1 DEF Chars

LEMMA OctalType ==
  ASSUME NEW o \in DOMAIN Octal
  PROVE  Octal[o] \in Chars
<1>1. {" ", "tab", "newline", "\\"} \subseteq Chars
  BY CharactersAssumption DEF Chars
<1> QED
  BY <1>1, OctalCases

LEMMA WriteType ==
  ASSUME TextInv, ret = 2, NEW ch \in Chars, Write(ch)
  PROVE  /\ text' \in Seq(Chars) /\ Len(text') = Len(text)
         /\ \A n \in 1..Len(text) : text'[n] = IF n = c - diff THEN ch ELSE text[n]
<1>1. text \in Seq(Chars) /\ c - diff \in 1..Len(text)
  BY DEF TextInv
<1>2. text' = [text EXCEPT ![c - diff] = ch]
  BY DEF Write
<1> QED
  BY <1>1, <1>2

LEMMA TextInvStep ==
  ASSUME TextInv, [TextNext]_textVars
  PROVE  TextInv'
<1>1. CASE UNCHANGED textVars
  BY <1>1 DEF textVars, TextInv
<1>2. CASE Escape /\ UNCHANGED <<path, kind>>
  <2>1. PICK e \in Seq(Chars) : text' = text \o e
    <3>1. path[escaped + 1] \in Characters
      BY <1>2 DEF Escape, TextInv
    <3>2. PICK e \in EscapesIn(kind, path[escaped + 1]) : text' = text \o e
      BY <1>2 DEF Escape, EscapesOf, EscapesIn
    <3>3. IsEscape(e)
      BY <3>1, EscapeShape
    <3> QED
      BY <3>2, <3>3 DEF IsEscape
  <2>2. /\ text' \in Seq(Chars) /\ Len(text') \in Nat /\ Len(text') >= Len(text)
        /\ escaped' \in 0..Len(path)
    <3>1. text \in Seq(Chars) /\ escaped \in 0..Len(path) /\ path \in Seq(Characters)
      BY DEF TextInv
    <3>2. escaped < Len(path) /\ escaped' = escaped + 1
      BY <1>2 DEF Escape
    <3>3. text' \in Seq(Chars) /\ Len(text') = Len(text) + Len(e)
      BY <2>1, <3>1
    <3>4. Len(text) \in Nat /\ Len(e) \in Nat /\ Len(path) \in Nat
      BY <2>1, <3>1
    <3> QED
      BY <3>1, <3>2, <3>3, <3>4
  <2>3. ret = 3 /\ c = 1 /\ diff = 0 /\ UNCHANGED <<c, diff, layer, ret, path, kind>>
    BY <1>2 DEF Escape, TextInv
  <2> QED
    BY <2>2, <2>3 DEF TextInv
<1>3. CASE Begin /\ UNCHANGED <<path, kind>>
  <2>1. NUL \in Chars
    BY DEF Chars
  <2>2. /\ text \in Seq(Chars) /\ text' \in Seq(Chars) /\ Len(text') = Len(text) + 1
        /\ text'[Len(text')] = NUL
    BY <2>1, <1>3 DEF Begin, TextInv
  <2>3. layer' \in Nat
    <3>1. IsFiniteSet(1..Len(text)) /\ IsFiniteSet(1..(Len(text) + 1))
      BY <2>2, FS_Interval
    <3>2. Positions(text, "-") \subseteq 1..Len(text)
      BY <2>2 DEF Positions
    <3>3. Cardinality(Positions(text, "-")) \in Nat
      BY <3>1, <3>2, FS_Subset, FS_CardinalityType
    <3> QED
      BY <3>3, <1>3 DEF Begin, LayerOf
  <2> QED
    BY <1>3, <2>2, <2>3 DEF Begin, TextInv
<1>4. CASE Turn /\ UNCHANGED <<path, kind>>
  <2>1. ret = 2 /\ UNCHANGED <<escaped, layer, path, kind>>
    BY <1>4 DEF Turn
  <2>2. /\ text \in Seq(Chars) /\ Len(text) \in Nat /\ c \in 1..Len(text) /\ diff \in 0..(c - 1)
        /\ text[Len(text)] = NUL
    BY <2>1 DEF TextInv
  <2>3. CASE text[c] = NUL /\ Terminate
    <3>1. text' \in Seq(Chars) /\ Len(text') = Len(text)
      <4>1. NUL \in Chars
        BY DEF Chars
      <4> QED
        BY <4>1, <2>1, <2>3, WriteType DEF Terminate
    <3> QED
      BY <2>1, <2>2, <2>3, <3>1 DEF Terminate, TextInv
  <2>4. ASSUME NEW ch \in Chars, Copy(ch), text[c] # NUL PROVE TextInv'
    <3>1. c # Len(text)
      BY <2>2, <2>4
    <3>2. /\ text' \in Seq(Chars) /\ Len(text') = Len(text)
          /\ \A n \in 1..Len(text) : text'[n] = IF n = c - diff THEN ch ELSE text[n]
      BY <2>1, <2>4, WriteType DEF Copy
    <3>3. text'[Len(text')] = NUL
      BY <2>2, <3>1, <3>2
    <3>4. c' = c + 1 /\ UNCHANGED <<diff, ret>>
      BY <2>4 DEF Copy
    <3> QED
      BY <2>1, <2>2, <3>1, <3>2, <3>3, <3>4 DEF TextInv
  <2>5. ASSUME NEW ch \in Chars, Decode(ch), IsOctal \/ IsHex PROVE TextInv'
    <3>1. c + 4 <= Len(text)
      BY <2>1, <2>5, DecodesBeforeEnd
    <3>2. /\ text' \in Seq(Chars) /\ Len(text') = Len(text)
          /\ \A n \in 1..Len(text) : text'[n] = IF n = c - diff THEN ch ELSE text[n]
      BY <2>1, <2>5, WriteType DEF Decode
    <3>3. text'[Len(text')] = NUL
      BY <2>2, <3>1, <3>2
    <3>4. c' = c + 4 /\ diff' = diff + 3 /\ ret' = ret
      BY <2>5 DEF Decode
    <3> QED
      BY <2>1, <2>2, <3>1, <3>2, <3>3, <3>4 DEF TextInv
  <2>6. CASE ret' = -1 /\ UNCHANGED <<text, c, diff>>
    <3>1. ret' \in {3, 2, 0, -1} /\ ret' # 2 /\ ret' # 3
      BY <2>6
    <3> QED
      BY <2>1, <2>2, <2>6, <3>1 DEF TextInv
  <2>7. text[c] \in Chars /\ "/" \in Chars
    <3>1. text[c] \in Chars
      BY <2>2
    <3>2. "/" \in Chars
      BY CharactersAssumption DEF Chars
    <3> QED
      BY <3>1, <3>2
  <2>8. CASE text[c] # NUL /\ MountinfoTurn
    <3>1. CASE IsOctal /\ Decode(Octal[Next3])
      BY <3>1, <2>5, OctalType DEF IsOctal
    <3>2. CASE ~IsOctal /\ Copy(text[c])
      BY <3>2, <2>4, <2>7, <2>8
    <3> QED
      BY <2>8, <3>1, <3>2 DEF MountinfoTurn
  <2>9. CASE text[c] # NUL /\ UnitTurn
    <3>1. CASE text[c] = "-" /\ Copy("/")
      BY <3>1, <2>4, <2>7, <2>9
    <3>2. CASE text[c] = "\\" /\ IsHex /\ Decode(HexChar(Tail(Next3)))
      BY <3>2, <2>5, HexCharType
    <3>3. CASE text[c] = "\\" /\ ~IsHex /\ ret' = -1 /\ UNCHANGED <<text, c, diff>>
      BY <3>3, <2>6
    <3>4. CASE text[c] \notin {"-", "\\"} /\ Copy(text[c])
      BY <3>4, <2>4, <2>7, <2>9
    <3> QED
      BY <2>9, <3>1, <3>2, <3>3, <3>4 DEF UnitTurn
  <2> QED
    BY <1>4, <2>3, <2>8, <2>9 DEF Turn
<1> QED
  BY <1>1, <1>2, <1>3, <1>4 DEF TextNext

(* The variables of the two functions have their types, for every path and *)
(* every name, the escapes in it valid or not: they read within the        *)
(* buffer, whatever it ends in, and write no further than they read        *)
(* (util.c:35-82, 84-117).                                                 *)
THEOREM TextTyped == TextSpec => []TextTypeOK
<1>1. TextInv => TextTypeOK
  BY DEF TextInv, TextTypeOK, Chars
<1> QED
  BY TextInvInit, TextInvStep, <1>1, PTL DEF TextSpec

-----------------------------------------------------------------------------
(* The path comes back *)

(* A character more, behind those that are laid out already. *)
LEMMA LaysMore ==
  ASSUME NEW kd, NEW p \in Seq(Characters), NEW n \in Nat, n < Len(p), NEW t \in Seq(Chars),
         NEW at, IsLayout(at, n, Len(t)), \A m \in 1..n : IsAt(t, p, kd, at, m),
         NEW e \in EscapesIn(kd, p[n + 1])
  PROVE  LET u == t \o e
         IN  \E b : IsLayout(b, n + 1, Len(u)) /\ \A m \in 1..(n + 1) : IsAt(u, p, kd, b, m)
<1> DEFINE u == t \o e
           b == [m \in 1..(n + 2) |-> IF m <= n + 1 THEN at[m] ELSE at[n + 1] + Len(e)]
<1>1. e \in Seq(Chars) /\ Len(e) \in {1, 4}
  <2>1. IsEscape(e)
    BY EscapeShape
  <2> QED
    BY <2>1 DEF IsEscape
<1>1a. Len(e) \in Nat /\ 1 <= Len(e)
  <2>1. CASE Len(e) = 1
    BY <2>1
  <2>2. CASE Len(e) = 4
    BY <2>2
  <2> QED
    BY <2>1, <2>2, <1>1
<1>2. /\ u \in Seq(Chars) /\ Len(u) = Len(t) + Len(e) /\ Len(t) \in Nat
      /\ \A i \in 1..Len(t) : u[i] = t[i]
      /\ \A d \in 1..Len(e) : u[Len(t) + d] = e[d]
  BY <1>1
<1>3. /\ at \in [1..(n + 1) -> Nat] /\ at[1] = 1 /\ at[n + 1] = Len(t) + 1
      /\ \A m \in 1..(n + 1) : at[m] \in Nat /\ m <= at[m] /\ at[m] <= Len(t) + 1
      /\ \A m \in 1..n : at[m] < at[m + 1]
  BY DEF IsLayout
<1> HIDE DEF u
<1>4. /\ b \in [1..(n + 2) -> Nat] /\ \A m \in 1..(n + 1) : b[m] = at[m]
      /\ b[n + 2] = Len(t) + 1 + Len(e)
  <2>1. n + 1 \in 1..(n + 1) /\ n + 2 \in 1..(n + 2) /\ ~(n + 2 <= n + 1) /\ 1..(n + 1) \subseteq 1..(n + 2)
    OBVIOUS
  <2>2. \A m \in 1..(n + 2) : (IF m <= n + 1 THEN at[m] ELSE at[n + 1] + Len(e)) \in Nat
    BY <1>1, <1>3
  <2> QED
    BY <1>3, <2>1, <2>2
<1> HIDE DEF b
<1>5. IsLayout(b, n + 1, Len(u))
  <2>1. (n + 1) + 1 = n + 2 /\ 1 \in 1..(n + 1)
    OBVIOUS
  <2>2. b[1] = 1 /\ b[n + 2] = Len(u) + 1
    BY <1>1, <1>2, <1>3, <1>4, <2>1
  <2>3. ASSUME NEW m \in 1..(n + 2) PROVE m <= b[m] /\ b[m] <= Len(u) + 1
    <3>1. CASE m \in 1..(n + 1)
      BY <3>1, <1>1, <1>2, <1>3, <1>4
    <3>2. CASE m = n + 2
      <4>1. n + 1 <= Len(t) + 1
        <5>1. n + 1 \in 1..(n + 1)
          OBVIOUS
        <5> QED
          BY <5>1, <1>3
      <4>2. b[m] = Len(t) + 1 + Len(e)
        BY <3>2, <1>4
      <4>3. Len(t) \in Nat /\ Len(u) = Len(t) + Len(e)
        BY <1>2
      <4> QED
        BY <3>2, <4>1, <4>2, <4>3, <1>1a
    <3> QED
      BY <3>1, <3>2
  <2>4. ASSUME NEW m \in 1..(n + 1) PROVE b[m] < b[m + 1]
    <3>1. CASE m \in 1..n
      <4>1. m + 1 \in 1..(n + 1)
        BY <3>1
      <4> QED
        BY <3>1, <4>1, <1>3, <1>4
    <3>2. CASE m = n + 1
      <4>1. m + 1 = n + 2
        BY <3>2
      <4>2. b[m + 1] = Len(t) + 1 + Len(e)
        BY <4>1, <1>4
      <4>3. n + 1 \in 1..(n + 1)
        OBVIOUS
      <4>4. b[m] = Len(t) + 1
        BY <3>2, <4>3, <1>3, <1>4
      <4>5. Len(t) \in Nat
        BY <1>2
      <4> QED
        BY <4>2, <4>4, <4>5, <1>1a
    <3> QED
      BY <3>1, <3>2
  <2> QED
    BY <1>4, <2>1, <2>2, <2>3, <2>4 DEF IsLayout
<1>6. ASSUME NEW m \in 1..(n + 1) PROVE IsAt(u, p, kd, b, m)
  <2>1. CASE m \in 1..n
    <3>1. m + 1 \in 1..(n + 1) /\ p[m] \in Characters
      BY <2>1
    <3>3. PICK f \in EscapesIn(kd, p[m]) :
            /\ at[m + 1] = at[m] + Len(f)
            /\ \A d \in 1..Len(f) : t[at[m] + d - 1] = f[d]
      BY <2>1 DEF IsAt
    <3>2. Len(f) \in Nat
      <4>1. IsEscape(f)
        BY <3>1, EscapeShape
      <4> QED
        BY <4>1 DEF IsEscape
    <3>4. b[m + 1] = b[m] + Len(f)
      BY <3>1, <3>3, <1>4
    <3>5. ASSUME NEW d \in 1..Len(f) PROVE u[b[m] + d - 1] = f[d]
      <4>1. at[m] + d - 1 \in 1..Len(t)
        <5>1. at[m] \in Nat /\ 1 <= at[m] /\ at[m + 1] <= Len(t) + 1
          BY <3>1, <1>3
        <5>2. at[m + 1] = at[m] + Len(f)
          BY <3>3
        <5>3. Len(t) \in Nat
          BY <1>2
        <5> QED
          BY <5>1, <5>2, <5>3, <3>2
      <4> QED
        BY <4>1, <3>3, <1>2, <1>4
    <3> QED
      BY <3>4, <3>5 DEF IsAt
  <2>2. CASE m = n + 1
    <3>1. m + 1 = n + 2 /\ b[m] = Len(t) + 1
      BY <2>2, <1>3, <1>4
    <3>2. b[m + 1] = b[m] + Len(e)
      BY <3>1, <1>4
    <3>3. ASSUME NEW d \in 1..Len(e) PROVE u[b[m] + d - 1] = e[d]
      <4>1. b[m] + d - 1 = Len(t) + d
        BY <3>1, <1>1, <1>2
      <4> QED
        BY <4>1, <1>2
    <3> QED
      BY <2>2, <3>2, <3>3 DEF IsAt
  <2> QED
    BY <2>1, <2>2
<1> QED
  BY <1>5, <1>6 DEF u

LEMMA EscapingStep ==
  ASSUME TextInv, EscapingInv, [TextNext]_textVars
  PROVE  EscapingInv'
<1>1. CASE UNCHANGED textVars
  BY <1>1 DEF textVars, EscapingInv
<1>2. CASE Escape /\ UNCHANGED <<path, kind>>
  <2>1. /\ ret = 3 /\ escaped < Len(path) /\ escaped \in Nat /\ escaped' = escaped + 1
        /\ UNCHANGED <<c, diff, path, kind>>
    BY <1>2 DEF Escape, TextInv
  <2>6. PICK e \in EscapesIn(kind, path[escaped + 1]) : text' = text \o e
    BY <1>2 DEF Escape, EscapesOf, EscapesIn
  <2>2. path \in Seq(Characters) /\ text \in Seq(Chars)
    BY DEF TextInv
  <2>3. path # <<>>
    BY <2>1, <2>2
  <2>4. PICK at : IsLayout(at, escaped, Len(text)) /\ \A m \in 1..escaped : IsAt(text, path, kind, at, m)
    BY <2>1, <2>3 DEF EscapingInv
  <2>5. \E b : IsLayout(b, escaped', Len(text')) /\ \A m \in 1..escaped' : IsAt(text', path, kind, b, m)
    BY <2>1, <2>2, <2>4, <2>6, LaysMore
  <2> QED
    BY <2>1, <2>5 DEF EscapingInv
<1>3. CASE Begin \/ Turn
  <2>1. ret' # 3
    <3>1. CASE Begin
      BY <3>1 DEF Begin
    <3>2. CASE Turn
      BY <3>2 DEF Turn, Terminate, MountinfoTurn, UnitTurn, Copy, Decode
    <3> QED
      BY <1>3, <3>1, <3>2
  <2> QED
    BY <2>1 DEF EscapingInv
<1> QED
  BY <1>1, <1>2, <1>3 DEF TextNext

LEMMA EscapeLength ==
  ASSUME NEW kd, NEW ch \in Characters, NEW e \in EscapesIn(kd, ch)
  PROVE  Len(e) \in Nat /\ 1 <= Len(e)
<1>1. IsEscape(e)
  BY EscapeShape
<1>2. CASE Len(e) = 1
  BY <1>2
<1>3. CASE Len(e) = 4
  BY <1>3
<1> QED
  BY <1>1, <1>2, <1>3 DEF IsEscape

(* An escape stays where it is as long as its characters do. *)
LEMMA StaysAt ==
  ASSUME NEW kd, NEW p, NEW m, p[m] \in Characters, NEW at, at[m] \in Nat,
         NEW t, IsAt(t, p, kd, at, m),
         NEW u, \A n \in at[m]..(at[m + 1] - 1) : u[n] = t[n]
  PROVE  IsAt(u, p, kd, at, m)
<1>2. PICK e \in EscapesIn(kd, p[m]) :
        at[m + 1] = at[m] + Len(e) /\ \A d \in 1..Len(e) : t[at[m] + d - 1] = e[d]
  BY DEF IsAt
<1>1. Len(e) \in Nat
  BY EscapeLength
<1>3. ASSUME NEW d \in 1..Len(e) PROVE u[at[m] + d - 1] = e[d]
  <2>1. at[m] + d - 1 \in at[m]..(at[m + 1] - 1)
    BY <1>1, <1>2
  <2> QED
    BY <2>1, <1>2
<1> QED
  BY <1>2, <1>3 DEF IsAt

(* When the function begins, the whole path is laid out before the NUL. *)
LEMMA BeginLays ==
  ASSUME TextInv, EscapingInv, Begin, UNCHANGED <<path, kind>>, path # <<>>
  PROVE  \E at : Unescaping(at)'
<1>1. /\ ret = 3 /\ escaped = Len(path) /\ text' = Append(text, NUL)
      /\ c' = 1 /\ diff' = 0 /\ path' = path /\ kind' = kind
  BY DEF Begin, EscapingInv
<1>2. path \in Seq(Characters) /\ text \in Seq(Chars) /\ Len(path) \in Nat /\ Len(text) \in Nat
  BY DEF TextInv
<1>3. PICK at : /\ IsLayout(at, Len(path), Len(text))
                /\ \A m \in 1..Len(path) : IsAt(text, path, kind, at, m)
  BY <1>1 DEF EscapingInv
<1>4. /\ Len(text') = Len(text) + 1 /\ text'[Len(text')] = NUL
      /\ \A n \in 1..Len(text) : text'[n] = text[n]
  BY <1>1, <1>2
<1>5. Len(text') - 1 = Len(text) /\ c' - diff' = 1
  BY <1>1, <1>2, <1>4
<1>6. ASSUME NEW m \in 1..Len(path) PROVE IsAt(text', path, kind, at, m)
  <2>1. m + 1 \in 1..(Len(path) + 1) /\ m \in 1..(Len(path) + 1)
    BY <1>2
  <2>2. /\ at[m] \in Nat /\ at[m + 1] \in Nat /\ m <= at[m] /\ at[m + 1] <= Len(text) + 1
    BY <2>1, <1>3 DEF IsLayout
  <2>3. \A n \in at[m]..(at[m + 1] - 1) : text'[n] = text[n]
    BY <2>2, <1>2, <1>4
  <2>4. IsAt(text, path, kind, at, m) /\ path[m] \in Characters
    BY <1>2, <1>3
  <2> QED
    BY <2>2, <2>3, <2>4, StaysAt
<1>7. IsLayout(at, Len(path'), Len(text') - 1)
  BY <1>1, <1>3, <1>5
<1>8. 1 = at[1] /\ 1 \in 1..(Len(path) + 1)
  BY <1>2, <1>3 DEF IsLayout
<1>9. \A m \in 1..(1 - 1) : text'[m] = path'[m]
  OBVIOUS
<1>10. \A m \in 1..Len(path') : IsAt(text', path', kind', at, m)
  BY <1>1, <1>6
<1>11. Unescaping(at)'
  BY <1>1, <1>4, <1>5, <1>7, <1>8, <1>9, <1>10 DEF Unescaping
<1> QED
  BY <1>11

(* A turn brings a character back and leaves the escapes behind it where   *)
(* they are: it writes no further than it reads.                           *)
LEMMA TurnKeeps ==
  ASSUME TextInv, NEW at, Unescaping(at), c - diff <= Len(path), Turn, UNCHANGED <<path, kind>>
  PROVE  Unescaping(at)' /\ ret' = 2
<1> DEFINE j == c - diff
           len == at[j + 1] - at[j]
<1>1. path \in Seq(Characters) /\ text \in Seq(Chars) /\ kind \in {"mountinfo", "unit"}
  BY DEF TextInv
<1>2. /\ text' = [text EXCEPT ![j] = path[j]]
      /\ c' = c + len /\ diff' = diff + len - 1 /\ ret' = 2
  BY <1>1, TurnDecodes
<1>3. /\ IsLayout(at, Len(path), Len(text) - 1) /\ j \in 1..Len(path) /\ c = at[j] /\ diff \in Nat
      /\ \A m \in j..Len(path) : IsAt(text, path, kind, at, m)
      /\ \A m \in 1..(j - 1) : text[m] = path[m]
      /\ text[Len(text)] = NUL
  BY DEF Unescaping
<1>4. Len(path) \in Nat /\ Len(text) \in Nat /\ path[j] \in Characters
  BY <1>1, <1>3
<1>5. len \in Nat /\ 1 <= len /\ at[j + 1] = at[j] + len
  <2>1. IsAt(text, path, kind, at, j)
    BY <1>3, <1>4
  <2>2. PICK e \in EscapesIn(kind, path[j]) : at[j + 1] = at[j] + Len(e)
    BY <2>1 DEF IsAt
  <2>3. Len(e) \in Nat /\ 1 <= Len(e)
    BY <2>2, <1>4, EscapeLength
  <2>4. at[j] \in Nat
    BY <1>3, <1>4 DEF IsLayout
  <2> QED
    BY <2>2, <2>3, <2>4
<1> HIDE DEF j, len
<1>6. ASSUME NEW m \in 1..(Len(path) + 1)
      PROVE  at[m] \in Nat /\ m <= at[m] /\ at[m] <= Len(text)
  <2>1. at[m] \in Nat /\ m <= at[m] /\ at[m] <= (Len(text) - 1) + 1
    BY <1>3 DEF IsLayout
  <2> QED
    BY <2>1, <1>4
<1>7. j \in 1..(Len(path) + 1) /\ j + 1 \in 1..(Len(path) + 1) /\ j < Len(text)
  <2>1. j \in 1..(Len(path) + 1) /\ j + 1 \in 1..(Len(path) + 1)
    BY <1>3, <1>4
  <2>2. at[j + 1] \in Nat /\ j + 1 <= at[j + 1] /\ at[j + 1] <= Len(text)
    BY <2>1, <1>6
  <2> QED
    BY <2>1, <2>2, <1>3, <1>4
<1>8. /\ Len(text') = Len(text)
      /\ \A n \in 1..Len(text) : text'[n] = IF n = j THEN path[j] ELSE text[n]
  <2>1. j \in 1..Len(text)
    BY <1>4, <1>7
  <2> QED
    BY <2>1, <1>1, <1>2
<1>9. text'[Len(text')] = NUL
  <2>1. Len(text) \in 1..Len(text) /\ Len(text) # j
    BY <1>4, <1>7
  <2> QED
    BY <2>1, <1>3, <1>8
<1>10. c' - diff' = j + 1 /\ c' = at[j + 1] /\ diff' \in Nat
  <2>1. c \in Nat /\ j = c - diff
    BY DEF TextInv, j
  <2>2. c' = c + len /\ diff' = diff + len - 1
    BY <1>2
  <2>3. c = at[j] /\ diff \in Nat
    BY <1>3
  <2> QED
    BY <2>1, <2>2, <2>3, <1>5
<1>11. ASSUME NEW m \in (j + 1)..Len(path) PROVE IsAt(text', path, kind, at, m)
  <2>1. m \in j..Len(path) /\ m \in 1..Len(path) /\ m \in 1..(Len(path) + 1) /\ m + 1 \in 1..(Len(path) + 1)
    BY <1>3, <1>4
  <2>2. at[m] \in Nat /\ m <= at[m] /\ at[m + 1] \in Nat /\ at[m + 1] <= Len(text)
    BY <2>1, <1>6
  <2>3. ASSUME NEW n \in at[m]..(at[m + 1] - 1) PROVE text'[n] = text[n]
    <3>1. n \in 1..Len(text) /\ n # j
      BY <2>1, <2>2, <1>3, <1>4
    <3> QED
      BY <3>1, <1>8
  <2>4. IsAt(text, path, kind, at, m) /\ path[m] \in Characters
    BY <2>1, <1>1, <1>3
  <2> QED
    BY <2>2, <2>3, <2>4, StaysAt
<1>12. ASSUME NEW m \in 1..j PROVE text'[m] = path[m]
  <2>1. m \in 1..Len(text)
    BY <1>3, <1>4, <1>7
  <2>2. m # j => m \in 1..(j - 1)
    BY <1>3
  <2> QED
    BY <2>1, <2>2, <1>3, <1>8
<1>13. (j + 1) - 1 = j
  BY <1>3
<1>14. Len(path') = Len(path) /\ path' = path /\ kind' = kind
  OBVIOUS
<1>15. Unescaping(at)'
  BY <1>3, <1>7, <1>8, <1>9, <1>10, <1>11, <1>12, <1>13, <1>14 DEF Unescaping
<1> QED
  BY <1>2, <1>15

(* With all of it read, what is read is the NUL. *)
LEMMA TurnEnds ==
  ASSUME TextInv, NEW at, Unescaping(at), c - diff = Len(path) + 1, Turn, UNCHANGED <<path, kind>>
  PROVE  /\ ret' = 0 /\ Len(text') > Len(path') /\ text'[Len(path') + 1] = NUL
         /\ \A m \in 1..Len(path') : text'[m] = path'[m]
<1>1. path \in Seq(Characters) /\ text \in Seq(Chars) /\ Len(path) \in Nat /\ Len(text) \in Nat
  BY DEF TextInv
<1>2. /\ IsLayout(at, Len(path), Len(text) - 1) /\ c = at[Len(path) + 1]
      /\ text[Len(text)] = NUL
  BY DEF Unescaping
<1>3. \A m \in 1..Len(path) : text[m] = path[m]
  <2>1. (Len(path) + 1) - 1 = Len(path)
    BY <1>1
  <2> QED
    BY <2>1 DEF Unescaping
<1>4. c = Len(text) /\ Len(path) + 1 <= Len(text)
  <2>1. Len(path) + 1 \in 1..(Len(path) + 1)
    BY <1>1
  <2>2. at[Len(path) + 1] = (Len(text) - 1) + 1 /\ Len(path) + 1 <= at[Len(path) + 1]
    BY <2>1, <1>2 DEF IsLayout
  <2> QED
    BY <2>2, <1>1, <1>2
<1>5. Terminate
  BY <1>2, <1>4 DEF Turn
<1>6. text' = [text EXCEPT ![Len(path) + 1] = NUL] /\ ret' = 0
  BY <1>5 DEF Terminate, Write
<1>7. /\ Len(text') = Len(text) /\ Len(path) + 1 \in 1..Len(text)
      /\ \A n \in 1..Len(text) : text'[n] = IF n = Len(path) + 1 THEN NUL ELSE text[n]
  BY <1>1, <1>4, <1>6
<1>8. ASSUME NEW m \in 1..Len(path) PROVE text'[m] = path[m]
  <2>1. m \in 1..Len(text) /\ m # Len(path) + 1
    BY <1>1, <1>4
  <2> QED
    BY <2>1, <1>3, <1>7
<1> QED
  BY <1>1, <1>4, <1>6, <1>7, <1>8

LEMMA UnescapingStep ==
  ASSUME TextInv, EscapingInv, UnescapingInv, [TextNext]_textVars
  PROVE  UnescapingInv'
<1>1. CASE UNCHANGED textVars
  <2>1. \A at : Unescaping(at) => Unescaping(at)'
    BY <1>1 DEF textVars, Unescaping
  <2> QED
    BY <1>1, <2>1 DEF textVars, UnescapingInv
<1> SUFFICES ASSUME TextNext, path' # <<>>, path' = path, kind' = kind
             PROVE  UnescapingInv'
  BY <1>1 DEF TextNext, UnescapingInv
<1>2. CASE Escape
  <2>1. ret' = 3
    BY <1>2 DEF Escape
  <2> QED
    BY <2>1 DEF UnescapingInv
<1>3. CASE Begin
  <2>1. ret' = 2
    BY <1>3 DEF Begin
  <2>2. \E at : Unescaping(at)'
    BY <1>3, BeginLays
  <2> QED
    BY <2>1, <2>2 DEF UnescapingInv
<1>4. CASE Turn
  <2>1. ret = 2
    BY <1>4 DEF Turn
  <2>2. PICK at : Unescaping(at)
    BY <2>1 DEF UnescapingInv
  <2>3. c - diff \in 1..(Len(path) + 1) /\ Len(path) \in Nat
    BY <2>2 DEF Unescaping, TextInv
  <2>4. CASE c - diff <= Len(path)
    <3>1. Unescaping(at)' /\ ret' = 2
      BY <1>4, <2>2, <2>4, TurnKeeps
    <3>2. \E b : Unescaping(b)'
      BY <3>1
    <3> QED
      BY <3>1, <3>2 DEF UnescapingInv
  <2>5. CASE c - diff = Len(path) + 1
    <3>1. /\ ret' = 0 /\ Len(text') > Len(path') /\ text'[Len(path') + 1] = NUL
          /\ \A m \in 1..Len(path') : text'[m] = path'[m]
      BY <1>4, <2>2, <2>5, TurnEnds
    <3> QED
      BY <3>1 DEF UnescapingInv
  <2> QED
    BY <2>3, <2>4, <2>5
<1> QED
  BY <1>2, <1>3, <1>4 DEF TextNext

(* What stands before the first NUL is what was written. *)
LEMMA ResultIsPath ==
  ASSUME TextInv, Len(text) > Len(path), text[Len(path) + 1] = NUL,
         \A m \in 1..Len(path) : text[m] = path[m]
  PROVE  Result = path
<1> DEFINE IsEnd(n) == text[n] = NUL /\ \A m \in 1..(n - 1) : text[m] # NUL
           end == CHOOSE n \in DOMAIN text : IsEnd(n)
<1>1. path \in Seq(Characters) /\ text \in Seq(Chars) /\ Len(path) \in Nat /\ Len(text) \in Nat
  BY DEF TextInv
<1>2. ASSUME NEW m \in 1..Len(path) PROVE text[m] # NUL
  <2>1. text[m] = path[m] /\ path[m] \in Characters
    BY <1>1
  <2> QED
    BY <2>1, CharactersAssumption
<1>3. Len(path) + 1 \in DOMAIN text /\ DOMAIN text = 1..Len(text)
  BY <1>1
<1>4. IsEnd(Len(path) + 1)
  BY <1>1, <1>2
<1>5. ASSUME NEW n \in DOMAIN text, IsEnd(n) PROVE n = Len(path) + 1
  <2>1. ~(n <= Len(path))
    BY <1>2, <1>3, <1>5
  <2>2. ~(n > Len(path) + 1)
    <3>1. n > Len(path) + 1 => Len(path) + 1 \in 1..(n - 1)
      BY <1>1, <1>3
    <3> QED
      BY <3>1, <1>5
  <2> QED
    BY <2>1, <2>2, <1>1, <1>3
<1> HIDE DEF IsEnd
<1>6. end = Len(path) + 1
  BY <1>3, <1>4, <1>5
<1> HIDE DEF end
<1>7. end - 1 = Len(path)
  BY <1>1, <1>6
<1>8. SubSeq(text, 1, Len(path)) = path
  <2> DEFINE s == SubSeq(text, 1, Len(path))
  <2>1. Len(path) \in 0..Len(text)
    BY <1>1
  <2>2. s \in Seq(Chars) /\ Len(s) = Len(path) /\ \A m \in 1..Len(path) : s[m] = text[m]
    BY <1>1, <2>1
  <2> HIDE DEF s
  <2>3. \A m \in 1..Len(s) : s[m] = path[m]
    BY <2>2
  <2>4. s = path
    BY <1>1, <2>2, <2>3, SeqEqual
  <2> QED
    BY <2>4 DEF s
<1>9. Result = SubSeq(text, 1, end - 1)
  BY DEF Result, IsEnd, end
<1> QED
  BY <1>7, <1>8, <1>9

LEMMA LayoutInit == TextInit => EscapingInv /\ UnescapingInv
<1> SUFFICES ASSUME TextInit PROVE EscapingInv /\ UnescapingInv
  OBVIOUS
<1>1. ret = 3 /\ escaped = 0 /\ c = 1 /\ diff = 0
  BY DEF TextInit
<1>2. ASSUME path # <<>>
      PROVE  \E at : /\ IsLayout(at, escaped, Len(text))
                     /\ \A m \in 1..escaped : IsAt(text, path, kind, at, m)
  <2> DEFINE b == [m \in 1..1 |-> 1]
  <2>1. text = <<>> /\ Len(text) = 0
    BY <1>2 DEF TextInit
  <2>2. b \in [1..(0 + 1) -> Nat] /\ b[1] = 1
    OBVIOUS
  <2> HIDE DEF b
  <2>3. IsLayout(b, 0, 0)
    BY <2>2 DEF IsLayout
  <2>4. IsLayout(b, escaped, Len(text))
    BY <2>1, <2>3, <1>1
  <2>5. \A m \in 1..escaped : IsAt(text, path, kind, b, m)
    BY <1>1
  <2> QED
    BY <2>4, <2>5
<1> QED
  BY <1>1, <1>2 DEF EscapingInv, UnescapingInv

(* The path comes back, whatever it is made of: each turn decodes the      *)
(* escape of one character, and writes no further than it has read         *)
(* (util.c:35-82, 97-117).                                                 *)
THEOREM PathsComeBack == TextSpec => []RoundTrip
<1>1. TextInv /\ UnescapingInv => RoundTrip
  <2> SUFFICES ASSUME TextInv, UnescapingInv, ret \in {0, -1}, path # <<>>
               PROVE  ret = 0 /\ Result = path
    BY DEF RoundTrip
  <2>1. ret = 0
    BY DEF UnescapingInv
  <2> QED
    BY <2>1, ResultIsPath DEF UnescapingInv
<1>2. TextInv /\ EscapingInv /\ UnescapingInv /\ [TextNext]_textVars
        => (TextInv /\ EscapingInv /\ UnescapingInv)'
  BY TextInvStep, EscapingStep, UnescapingStep
<1> QED
  BY TextInvInit, LayoutInit, <1>1, <1>2, PTL DEF TextSpec

-----------------------------------------------------------------------------
(* The layer of a unit *)

(* Of what systemd writes for a character, only the slash is a dash. *)
LEMMA EscapeDashes ==
  ASSUME NEW ch \in Characters, NEW e \in SystemdEscapes(ch)
  PROVE  /\ ch = "/" => e = <<"-">>
         /\ ch # "/" => \A d \in 1..Len(e) : e[d] # "-"
<1>1. CASE ch = "/" /\ e = <<"-">>
  BY <1>1
<1>2. CASE ch # "/" /\ e = HexEscape(ch)
  <2>1. /\ Len(e) = 4 /\ e[1] = "\\" /\ e[2] = "x"
        /\ e[3] = HexDigit(Byte[ch] \div 16) /\ e[4] = HexDigit(Byte[ch] % 16)
    BY <1>2, HexEscapeIs
  <2>2. e[3] # "-" /\ e[4] # "-"
    BY <2>1, HexCharOfByte
  <2>3. \A d \in 1..4 : d = 1 \/ d = 2 \/ d = 3 \/ d = 4
    OBVIOUS
  <2>4. \A d \in 1..Len(e) : e[d] # "-"
    BY <2>1, <2>2, <2>3
  <2> QED
    BY <1>2, <2>4
<1>3. CASE ch \notin {"/", "-", "\\"} /\ e = <<ch>>
  <2>1. Len(e) = 1 /\ e[1] = ch /\ ch # "-"
    BY <1>3
  <2>2. \A d \in 1..1 : d = 1
    OBVIOUS
  <2>3. \A d \in 1..Len(e) : e[d] # "-"
    BY <2>1, <2>2
  <2> QED
    BY <1>3, <2>3
<1> QED
  BY <1>1, <1>2, <1>3, SystemdWrites

LEMMA PositionsFinite ==
  ASSUME NEW s \in Seq(Chars), NEW ch
  PROVE  IsFiniteSet(Positions(s, ch)) /\ Positions(s, ch) \subseteq 1..Len(s)
<1>1. Len(s) \in Nat /\ DOMAIN s = 1..Len(s)
  OBVIOUS
<1>2. Positions(s, ch) \subseteq 1..Len(s)
  BY <1>1 DEF Positions
<1>3. IsFiniteSet(1..Len(s))
  BY <1>1, FS_Interval
<1> QED
  BY <1>2, <1>3, FS_Subset

LEMMA LayerInit == TextInit => LayerInv
<1> SUFFICES ASSUME TextInit, path # <<>> PROVE LayerInv
  BY DEF LayerInv
<1>1. text = <<>> /\ escaped = 0 /\ ret = 3
  BY DEF TextInit
<1>2. Positions(text, "-") = {} /\ {n \in 1..escaped : path[n] = "/"} = {}
  <2>1. DOMAIN text = {}
    BY <1>1
  <2>2. 1..escaped = {}
    BY <1>1
  <2> QED
    BY <2>1, <2>2 DEF Positions
<1> QED
  BY <1>1, <1>2 DEF LayerInv

LEMMA LayerStep ==
  ASSUME TextInv, LayerInv, [TextNext]_textVars
  PROVE  LayerInv'
<1>1. CASE UNCHANGED textVars
  BY <1>1 DEF textVars, LayerInv
<1> SUFFICES ASSUME TextNext, path # <<>>, kind = "unit", path' = path, kind' = kind
             PROVE  LayerInv'
  BY <1>1 DEF TextNext, LayerInv
<1> DEFINE Slashes(n) == {m \in 1..n : path[m] = "/"}
<1>2. path \in Seq(Characters) /\ text \in Seq(Chars) /\ escaped \in Nat
  BY DEF TextInv
<1>3. CASE Escape
  <2> DEFINE ch == path[escaped + 1]
  <2>0. PICK e \in SystemdEscapes(ch) : text' = text \o e
    BY <1>3 DEF Escape, EscapesOf
  <2>1. /\ ret = 3 /\ ret' = 3 /\ escaped' = escaped + 1 /\ text' = text \o e
    BY <2>0, <1>3 DEF Escape
  <2>2. escaped + 1 \in 1..Len(path) /\ ch \in Characters
    BY <1>2, <1>3 DEF Escape
  <2>3. e \in Seq(Chars)
    <3>1. e \in EscapesIn("unit", ch)
      BY <2>0 DEF EscapesIn
    <3>2. IsEscape(e)
      BY <3>1, <2>2, EscapeShape
    <3> QED
      BY <3>2 DEF IsEscape
  <2>4. Cardinality(Positions(text, "-")) = Cardinality(Slashes(escaped))
    BY <2>1 DEF LayerInv
  <2>5. /\ ch = "/" => e = <<"-">>
        /\ ch # "/" => \A d \in 1..Len(e) : e[d] # "-"
    BY <2>0, <2>2, EscapeDashes
  <2> HIDE DEF ch
  <2>6. /\ Len(text) \in Nat /\ Len(e) \in Nat /\ DOMAIN text' = 1..(Len(text) + Len(e))
        /\ DOMAIN text = 1..Len(text)
        /\ \A n \in 1..Len(text) : text'[n] = text[n]
        /\ \A d \in 1..Len(e) : text'[Len(text) + d] = e[d]
    BY <1>2, <2>1, <2>3
  <2>7. \A n \in 1..(escaped + 1) : n \in 1..escaped \/ n = escaped + 1
    BY <1>2
  <2>8. \A n \in 1..(Len(text) + Len(e)) :
          n \in 1..Len(text) \/ (n - Len(text) \in 1..Len(e) /\ n = Len(text) + (n - Len(text)))
    BY <2>6
  <2>9. 1..escaped \subseteq 1..(escaped + 1) /\ escaped + 1 \in 1..(escaped + 1)
    BY <1>2
  <2>10. 1..Len(text) \subseteq 1..(Len(text) + Len(e))
    BY <2>6
  <2>11. CASE ch = "/"
    <3>1. Len(e) = 1 /\ e[1] = "-"
      BY <2>5, <2>11
    <3>2. Slashes(escaped + 1) = Slashes(escaped) \cup {escaped + 1}
      BY <2>7, <2>9, <2>11 DEF ch
    <3>3. Positions(text', "-") = Positions(text, "-") \cup {Len(text) + 1}
      <4>1. text'[Len(text) + 1] = "-" /\ Len(text) + 1 \in DOMAIN text'
        BY <2>6, <3>1
      <4>2. \A n \in DOMAIN text' : n \in DOMAIN text \/ n = Len(text) + 1
        BY <2>6, <3>1
      <4>3. DOMAIN text \subseteq DOMAIN text'
        BY <2>6, <2>10
      <4>4. \A n \in DOMAIN text : text'[n] = text[n]
        BY <2>6
      <4> QED
        BY <4>1, <4>2, <4>3, <4>4 DEF Positions
    <3>4. escaped + 1 \notin Slashes(escaped)
      BY <1>2
    <3>5. Len(text) + 1 \notin Positions(text, "-")
      BY <2>6 DEF Positions
    <3>6. IsFiniteSet(Slashes(escaped))
      <4>1. IsFiniteSet(1..escaped)
        BY <1>2, FS_Interval
      <4> QED
        BY <4>1, FS_Subset
    <3>7. IsFiniteSet(Positions(text, "-"))
      BY <1>2, PositionsFinite
    <3>8. Cardinality(Slashes(escaped + 1)) = Cardinality(Slashes(escaped)) + 1
      BY <3>2, <3>4, <3>6, FS_AddElement
    <3>9. Cardinality(Positions(text', "-")) = Cardinality(Positions(text, "-")) + 1
      BY <3>3, <3>5, <3>7, FS_AddElement
    <3>10. Cardinality(Positions(text', "-")) = Cardinality(Slashes(escaped'))
      BY <2>1, <2>4, <3>8, <3>9
    <3> QED
      BY <2>1, <3>10 DEF LayerInv
  <2>12. CASE ch # "/"
    <3>1. Slashes(escaped + 1) = Slashes(escaped)
      BY <2>7, <2>9, <2>12 DEF ch
    <3>2. Positions(text', "-") = Positions(text, "-")
      <4>1. \A n \in DOMAIN text' : text'[n] = "-" => n \in DOMAIN text
        BY <2>5, <2>6, <2>8, <2>12
      <4>2. DOMAIN text \subseteq DOMAIN text'
        BY <2>6, <2>10
      <4>3. \A n \in DOMAIN text : text'[n] = text[n]
        BY <2>6
      <4> QED
        BY <4>1, <4>2, <4>3 DEF Positions
    <3>3. Cardinality(Positions(text', "-")) = Cardinality(Slashes(escaped'))
      BY <2>1, <2>4, <3>1, <3>2
    <3> QED
      BY <2>1, <3>3 DEF LayerInv
  <2> QED
    BY <2>11, <2>12
<1>4. CASE Begin
  <2>1. ret = 3 /\ ret' = 2 /\ escaped = Len(path) /\ layer' = 1 + Cardinality(Positions(text, "-"))
    BY <1>4 DEF Begin, LayerOf
  <2>2. Cardinality(Positions(text, "-")) = Cardinality({n \in 1..escaped : path[n] = "/"})
    BY <2>1 DEF LayerInv
  <2>3. {n \in 1..escaped : path[n] = "/"} = Positions(path, "/")
    BY <1>2, <2>1 DEF Positions
  <2>4. layer' = 1 + Cardinality(Positions(path', "/"))
    BY <2>1, <2>2, <2>3
  <2> QED
    BY <2>1, <2>4 DEF LayerInv
<1>5. CASE Turn
  <2>1. ret = 2 /\ layer' = layer
    BY <1>5 DEF Turn
  <2>2. ret' # 3
    BY <1>5 DEF Turn, Terminate, MountinfoTurn, UnitTurn, Copy, Decode
  <2>3. layer' = 1 + Cardinality(Positions(path', "/"))
    BY <2>1 DEF LayerInv
  <2> QED
    BY <2>2, <2>3 DEF LayerInv
<1> QED
  BY <1>3, <1>4, <1>5 DEF TextNext

(* The layer counted in the escaped name of a unit is the depth of the     *)
(* directory it mounts: every slash is written as a dash, and a dash of    *)
(* the path is not (systemd.c:177-182).                                    *)
THEOREM LayersAreDepths == TextSpec => []LayerIsDepth
<1>1. LayerInv => LayerIsDepth
  BY DEF LayerInv, LayerIsDepth
<1>2. TextInv /\ LayerInv /\ [TextNext]_textVars => (TextInv /\ LayerInv)'
  BY TextInvStep, LayerStep
<1> QED
  BY TextInvInit, LayerInit, <1>1, <1>2, PTL DEF TextSpec
=============================================================================
