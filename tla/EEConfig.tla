------------------------------ MODULE EEConfig ------------------------------
(***************************************************************************)
(* eeconfig_get_setting_one and eeconfig_get_setting_many (src/src/        *)
(* eeconfig.c): read the configuration file once and look settings up in   *)
(* it, at four levels: that of a ROM, of a platform, the global one, and   *)
(* the bare name.                                                          *)
(*                                                                         *)
(* One step reads the file, considers one line of it, answers one setting, *)
(* or frees the buffer.  A line is what it sets; names of settings are     *)
(* sequences, for one may begin with another.                              *)
(***************************************************************************)
EXTENDS Integers, SequencesExt

CONSTANTS
  Files,    \* what the configuration file may hold
  Calls,    \* the calls the program may make
  IntMax,   \* INT_MAX
  LongMax   \* LONG_MAX

VARIABLES
  file,     \* the file
  call,     \* the call
  pc,       \* "reading", "getting", "returned" or "crashed"
  buffer,   \* "unwritten" until malloc succeeds, "unread" until fread does
  k,        \* the getter that is looked up
  line,     \* the line considered next for it
  found,    \* what the lines before that one set
  answers,  \* what was reported for the getters before
  rtr       \* what the call returns

search == <<k, line, found, answers>>
vars == <<file, call, pc, buffer, search, rtr>>

None == "none"     \* NULL
Empty == ""

(* A value is a number, and a word where it is not: "", "true", "false".   *)
Value == [word : {"", "true", "false", "other"}, num : Int]

(* "scope" tells platform["rom"].setting, platform.setting, global.setting *)
(* and setting apart; '-' may stand for the last dot.                      *)
Line == [scope : {"comment", "rom", "platform", "global", "raw"},
         platform : STRING, rom : STRING, setting : Seq(STRING), value : Value]
Getter == [setting : Seq(STRING), platform : STRING, rom : STRING,
           type : {"string", "long", "int", "bool"}]

ASSUME FilesAssumption ==
  \A f \in Files : f.lines \in Seq(Line) /\ f.ended \in BOOLEAN
ASSUME CallsAssumption ==
  \A c \in Calls : c.getters \in Seq(Getter) /\ (~c.many => Len(c.getters) = 1)
ASSUME WidthAssumption == IntMax \in Nat /\ LongMax \in Nat /\ IntMax <= LongMax

(* The last line is looked at only if a line break ends it. *)
Lines == IF file.ended \/ file.lines = <<>> THEN file.lines ELSE Front(file.lines)

-----------------------------------------------------------------------------
(* One setting *)

IsRom(g, l) ==
  /\ g.rom # None /\ l.scope = "rom"
  /\ l.platform = g.platform /\ l.rom = g.rom /\ l.setting = g.setting

(* line[len_platform_key == '='] is the first character of the line: that  *)
(* the key ends here is not checked, as it is at the other levels.         *)
IsPlatform(g, l) ==
  /\ g.platform # None /\ l.scope = "platform"
  /\ l.platform = g.platform /\ IsPrefix(g.setting, l.setting)

IsGlobal(g, l) == l.scope = "global" /\ l.setting = g.setting
IsRaw(g, l) == l.scope = "raw" /\ l.setting = g.setting

(* What follows the name sought and one character more. *)
Garbled == [word |-> "other", num |-> 0]
ValueOf(g, l) == IF l.setting = g.setting THEN l.value ELSE Garbled

NothingFound == [rom |-> Garbled, platform |-> Garbled, global |-> Garbled, at |-> {}]
Put(f, level, value) ==
  [f EXCEPT ![level] = value, !.at = @ \cup {level}]

ConsiderMutant(g, f, l) ==
  CASE IsRom(g, l)      -> Put(f, "rom", ValueOf(g, l))
    [] IsPlatform(g, l) -> Put(f, "platform", ValueOf(g, l))
    [] IsGlobal(g, l) \/ IsRaw(g, l) -> Put(f, "global", ValueOf(g, l))
    [] OTHER -> f

(* A line counts at its level unless a level above was found before; a     *)
(* bare name only while there is no global one either.                     *)
Consider(g, f, l) ==
  CASE IsRom(g, l) -> Put(f, "rom", ValueOf(g, l))
    [] IsPlatform(g, l) /\ "rom" \notin f.at
         -> Put(f, "platform", ValueOf(g, l))
    [] IsGlobal(g, l) /\ f.at \cap {"rom", "platform"} = {}
         -> Put(f, "global", ValueOf(g, l))
    [] IsRaw(g, l) /\ f.at = {} -> Put(f, "global", ValueOf(g, l))
    [] OTHER -> f

Clamp(n, max) == IF n > max THEN max ELSE IF n < -max - 1 THEN -max - 1 ELSE n
Truth(value) ==
  value.word = "true" \/ (value.word = "other" /\ Clamp(value.num, LongMax) > 0)

Report(type, value) ==
  CASE type = "string" -> [string |-> IF value.word = "" THEN None ELSE value]
    [] type = "long"   -> [long |-> Clamp(value.num, LongMax)]
    [] type = "int"    -> [int |-> Clamp(Clamp(value.num, LongMax), IntMax)]
    [] type = "bool"   -> [bool |-> Truth(value)]

IsSane(g) ==
  /\ g.setting # <<>>
  /\ g.rom # None => g.rom # Empty /\ g.platform # None
  /\ g.platform # Empty

(* Nothing is written to the result of a setting that is not found. *)
Unset == [unset |-> TRUE]

Answer(g) ==
  IF "rom" \in found.at THEN Report(g.type, found.rom)
  ELSE IF "platform" \in found.at THEN Report(g.type, found.platform)
  ELSE IF "global" \in found.at THEN Report(g.type, found.global)
  ELSE Unset

-----------------------------------------------------------------------------
(* The call *)

Getters == call.getters

NoGetters ==
  /\ pc = "reading" /\ Getters = <<>>
  /\ pc' = "returned" /\ rtr' = -1
  /\ UNCHANGED <<buffer, search>>

CannotOpen ==
  /\ pc = "reading" /\ Getters # <<>>
  /\ pc' = "returned" /\ rtr' = IF call.many THEN -2 ELSE 1
  /\ UNCHANGED <<buffer, search>>

(* An empty file, no memory or a failed read return 0, which is not < 0. *)
ReadConfig ==
  /\ pc = "reading" /\ Getters # <<>>
  /\ pc' = "getting"
  /\ buffer' \in IF file.lines = <<>> THEN {"unwritten"}
                 ELSE {"unwritten", "unread", "read"}
  /\ UNCHANGED <<search, rtr>>

IsSearched == buffer = "read" /\ IsSane(Getters[k])

ConsiderLine ==
  /\ pc = "getting" /\ k <= Len(Getters)
  /\ IsSearched /\ line <= Len(Lines)
  /\ found' = Consider(Getters[k], found, Lines[line])
  /\ line' = line + 1
  /\ UNCHANGED <<pc, buffer, k, answers, rtr>>

CountOneMutant(n, answer) == IF answer = Unset THEN 1 ELSE 0
Count(n, answer) == IF answer = Unset THEN n + 1 ELSE n

Get ==
  /\ pc = "getting" /\ k <= Len(Getters)
  /\ IsSearched => line > Len(Lines)
  /\ answers' = Append(answers, Answer(Getters[k]))
  /\ rtr' = Count(rtr, Answer(Getters[k]))
  /\ k' = k + 1 /\ line' = 1 /\ found' = NothingFound
  /\ UNCHANGED <<pc, buffer>>

(* The buffer is freed, also if it is a pointer nobody has set. *)
Finish ==
  /\ pc = "getting" /\ k > Len(Getters)
  /\ pc' \in {"returned"} \cup (IF buffer = "unwritten" THEN {"crashed"} ELSE {})
  /\ UNCHANGED <<buffer, search, rtr>>

Init ==
  /\ file \in Files /\ call \in Calls
  /\ pc = "reading" /\ buffer = "unwritten"
  /\ k = 1 /\ line = 1 /\ found = NothingFound /\ answers = <<>> /\ rtr = 0

Next ==
  /\ NoGetters \/ CannotOpen \/ ReadConfig \/ ConsiderLine \/ Get \/ Finish
  /\ UNCHANGED <<file, call>>

Spec == Init /\ [][Next]_vars

-----------------------------------------------------------------------------
(* Properties *)

TypeOK ==
  /\ file \in Files /\ call \in Calls
  /\ pc \in {"reading", "getting", "returned", "crashed"}
  /\ buffer \in {"unwritten", "unread", "read"}
  /\ k = Len(answers) + 1 /\ k <= Len(Getters) + 1
  /\ line \in 1..(Len(Lines) + 1)
  /\ found.at \subseteq {"rom", "platform", "global"}
  /\ rtr \in -2..Len(Getters)

(* The reference: of the lines that set g at one level, the last one, but  *)
(* the first of the bare ones.                                             *)
Setting(g) ==
  [rom |-> {n \in DOMAIN Lines : IsRom(g, Lines[n])},
   platform |-> {n \in DOMAIN Lines : IsPlatform(g, Lines[n]) /\ Lines[n].setting = g.setting},
   global |-> {n \in DOMAIN Lines : IsGlobal(g, Lines[n])},
   raw |-> {n \in DOMAIN Lines : IsRaw(g, Lines[n])}]
LastOf(s) == Lines[CHOOSE n \in s : \A o \in s : o <= n].value
FirstOf(s) == Lines[CHOOSE n \in s : \A o \in s : n <= o].value

Reference(g) ==
  LET set == Setting(g)
  IN IF set.rom # {} THEN Report(g.type, LastOf(set.rom))
     ELSE IF set.platform # {} THEN Report(g.type, LastOf(set.platform))
     ELSE IF set.global # {} THEN Report(g.type, LastOf(set.global))
     ELSE IF set.raw # {} THEN Report(g.type, FirstOf(set.raw)) ELSE Unset

(* A setting is answered from the most specific level that has it, in      *)
(* whatever order the levels come in the file (eeconfig.c:166-257), "the   *)
(* setting itself" (eeconfig.h:52, 81) being what is looked for.           *)
MostSpecific ==
  \A n \in DOMAIN answers :
    buffer = "read" /\ IsSane(Getters[n]) => answers[n] = Reference(Getters[n])

(* The settings that cannot be found in the file, or make no sense.        *)
Absent == {n \in DOMAIN Getters : ~IsSane(Getters[n]) \/ Reference(Getters[n]) = Unset}

(* "0 for success, positive for failure in getting settings"               *)
(* (eeconfig.h:95): of a file that was read, the value returned is the     *)
(* number of the settings it has at no level, none forgotten while the     *)
(* next ones are looked up (eeconfig.c:284-300).                           *)
MissingCounted == pc = "returned" /\ buffer = "read" => rtr = Cardinality(Absent)

(* "Positive for failure in getting settings, negative for failure in      *)
(* initialization" (eeconfig.h:95): a file that cannot be read is the      *)
(* latter, and the call returns.                                           *)
FailuresTold ==
  /\ pc # "crashed"
  /\ pc = "returned" /\ call.many /\ buffer # "read" => rtr < 0
=============================================================================
