------------------------------ MODULE Unescape ------------------------------
(***************************************************************************)
(* util_unesacpe_mountinfo_in_place and                                    *)
(* util_unescape_systemd_unit_name_in_place (src/src/util.c): undo, in the *)
(* buffer itself, what the kernel did to a path in mountinfo and systemd   *)
(* to a path in the name of a mount unit.                                  *)
(*                                                                         *)
(* The text is escaped a character a step, then unescaped: one step is one *)
(* turn of the loop, which reads at c and writes diff before.              *)
(***************************************************************************)
EXTENDS Integers, SequencesExt

CONSTANTS
  Characters,  \* what a file name is made of
  Byte,        \* the byte each of them is
  Paths,       \* the paths that were escaped
  Names        \* unit names nobody escaped, as a user may have written them

VARIABLES
  path,    \* what was escaped; <<>> for one of Names
  kind,    \* "mountinfo" or "unit"
  escaped, \* how many characters of path were
  text,    \* the buffer; its NUL comes when it is escaped
  c, diff, \* where it is read, and how far behind it is written
  layer,   \* of a unit: one more than the dashes in the escaped name
  ret      \* 0 and -1, 3 before the function runs, 2 while it does

textVars == <<path, kind, escaped, text, c, diff, layer, ret>>

NUL == "nul"

(* The escapes of mountinfo that are known; the kernel writes no other.    *)
Octal == [digits \in {<<"0", "4", "0">>, <<"0", "1", "1">>, <<"0", "1", "2">>,
                      <<"1", "3", "4">>} |->
            CASE digits = <<"0", "4", "0">> -> " "
              [] digits = <<"0", "1", "1">> -> "tab"
              [] digits = <<"0", "1", "2">> -> "newline"
              [] digits = <<"1", "3", "4">> -> "\\"]

(* The value of a hexadecimal digit, -1 of another character.              *)
Unhex(ch) ==
  LET b == Byte[ch]
  IN  IF b \in 48..57 THEN b - 48
      ELSE IF b \in 97..102 THEN b - 87
      ELSE IF b \in 65..70 THEN b - 55 ELSE -1

Hex == {ch \in Characters : Unhex(ch) >= 0}

(* What two digits stand for, "other" if it is none of Characters.         *)
HexChar(digits) ==
  LET value == 16 * Unhex(digits[1]) + Unhex(digits[2])
  IN  IF value = 0 THEN NUL
      ELSE IF \E ch \in Characters : Byte[ch] = value
      THEN CHOOSE ch \in Characters : Byte[ch] = value ELSE "other"

(* The digits systemd writes, those of "0123456789abcdef".                 *)
DigitByte(n) == IF n < 10 THEN 48 + n ELSE 87 + n
HexDigit(n) == CHOOSE ch \in Characters : Byte[ch] = DigitByte(n)

ASSUME CharactersAssumption ==
  /\ {"/", "-", "\\", " ", "tab", "newline", "x", "0", "1", "2", "3", "4"} \subseteq Characters
  /\ NUL \notin Characters
ASSUME PathsAssumption == Paths \cup Names \subseteq Seq(Characters)
ASSUME ByteAssumption ==
  /\ Byte \in [Characters -> 1..255]
  /\ \A ch, other \in Characters : Byte[ch] = Byte[other] => ch = other
  /\ \A n \in 0..15 : \E ch \in Characters : Byte[ch] = DigitByte(n)
  /\ Byte["-"] = 45

-----------------------------------------------------------------------------
(* What the kernel and systemd do to a path *)

KernelEscape(ch) ==
  IF \E o \in DOMAIN Octal : Octal[o] = ch
  THEN LET o == CHOOSE o \in DOMAIN Octal : Octal[o] = ch IN <<"\\", o[1], o[2], o[3]>>
  ELSE <<ch>>

HexEscape(ch) == <<"\\", "x", HexDigit(Byte[ch] \div 16), HexDigit(Byte[ch] % 16)>>

(* Which characters but the slash, the dash and the backslash systemd      *)
(* leaves as they are is its own choice, as a dot's at the beginning.      *)
SystemdEscapes(ch) ==
  IF ch = "/" THEN {<<"-">>}
  ELSE IF ch \in {"-", "\\"} THEN {HexEscape(ch)} ELSE {<<ch>>, HexEscape(ch)}

EscapesOf(ch) == IF kind = "unit" THEN SystemdEscapes(ch) ELSE {KernelEscape(ch)}

Escape ==
  /\ ret = 3 /\ escaped < Len(path)
  /\ \E e \in EscapesOf(path[escaped + 1]) : text' = text \o e
  /\ escaped' = escaped + 1
  /\ UNCHANGED <<c, diff, layer, ret>>

-----------------------------------------------------------------------------

Next3 == IF c + 3 <= Len(text) THEN SubSeq(text, c + 1, c + 3) ELSE <<>>
Write(ch) == text' = [text EXCEPT ![c - diff] = ch]

Decode(ch) == Write(ch) /\ c' = c + 4 /\ diff' = diff + 3 /\ UNCHANGED ret
CopyMutant(ch) ==
  /\ IF diff = 0 THEN Write(ch) ELSE UNCHANGED text
  /\ c' = c + 1 /\ UNCHANGED <<diff, ret>>
Copy(ch) == Write(ch) /\ c' = c + 1 /\ UNCHANGED <<diff, ret>>

Terminate == Write(NUL) /\ ret' = 0 /\ UNCHANGED <<c, diff>>

IsOctal == text[c] = "\\" /\ Next3 \in DOMAIN Octal

(* "\x" and two hexadecimal digits *)
IsHex == Len(Next3) = 3 /\ Next3[1] = "x" /\ {Next3[2], Next3[3]} \subseteq Hex

MountinfoTurn ==
  /\ kind = "mountinfo"
  /\ \/ IsOctal /\ Decode(Octal[Next3])
     \/ ~IsOctal /\ Copy(text[c])

(* An invalid escape ends the function; the text is left as it is, with    *)
(* what was decoded so far before the rest.                                *)
UnitTurn ==
  /\ kind = "unit"
  /\ \/ text[c] = "-" /\ Copy("/")
     \/ text[c] = "\\" /\ IsHex /\ Decode(HexChar(Tail(Next3)))
     \/ text[c] = "\\" /\ ~IsHex /\ ret' = -1 /\ UNCHANGED <<text, c, diff>>
     \/ text[c] \notin {"-", "\\"} /\ Copy(text[c])

Positions(t, ch) == {n \in DOMAIN t : t[n] = ch}

LayerOfMutant(t) == Cardinality(Positions(t, "-"))
LayerOf(t) == 1 + Cardinality(Positions(t, "-"))

Begin ==
  /\ ret = 3 /\ escaped = Len(path)
  /\ text' = Append(text, NUL) /\ layer' = LayerOf(text) /\ ret' = 2
  /\ UNCHANGED <<escaped, c, diff>>

Turn ==
  /\ ret = 2
  /\ \/ text[c] = NUL /\ Terminate
     \/ text[c] # NUL /\ (MountinfoTurn \/ UnitTurn)
  /\ UNCHANGED <<escaped, layer>>

TextInit ==
  /\ \/ path \in Paths /\ kind \in {"mountinfo", "unit"} /\ text = <<>>
     \/ path = <<>> /\ kind = "unit" /\ text \in Names
  /\ escaped = 0 /\ c = 1 /\ diff = 0 /\ layer = 0 /\ ret = 3

TextNext == (Escape \/ Begin \/ Turn) /\ UNCHANGED <<path, kind>>

TextSpec == TextInit /\ [][TextNext]_textVars

-----------------------------------------------------------------------------
(* Properties *)

TextTypeOK ==
  /\ path \in Paths \cup {<<>>} /\ kind \in {"mountinfo", "unit"}
  /\ escaped \in 0..Len(path) /\ text \in Seq(Characters \cup {NUL, "other"})
  /\ c \in 1..(Len(text) + 1) /\ diff \in 0..(c - 1)
  /\ layer \in Nat /\ ret \in {3, 2, 0, -1}

Result ==
  SubSeq(text, 1, (CHOOSE n \in DOMAIN text :
                     text[n] = NUL /\ \A m \in 1..(n - 1) : text[m] # NUL) - 1)

(* The path comes back, escapes in the path itself included, although the  *)
(* buffer that is read is the one that is written (util.c:35-82, 97-117).  *)
RoundTrip == ret \in {0, -1} /\ path # <<>> => ret = 0 /\ Result = path

(* The layer of a unit, counted before its name is unescaped, is the depth *)
(* of the directory it mounts: what the order of the batches rests on      *)
(* (systemd.c:177-182).                                                    *)
LayerIsDepth ==
  kind = "unit" /\ path # <<>> /\ ret # 3 =>
    layer = 1 + Cardinality(Positions(path, "/"))

(* "0 for success, 1 for failure" (util.h:45). *)
ReturnsAsDocumented == ret \notin {3, 2} => ret \in {0, 1}
=============================================================================
