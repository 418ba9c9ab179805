----------------------------- MODULE MCUnescape -----------------------------
(***************************************************************************)
(* Unescape on every path of up to four characters, among them ones that   *)
(* look like an escape, and on names that are no escaped paths.            *)
(***************************************************************************)
EXTENDS Unescape

MCByte ==
  [ch \in {"0", "1", "2", "3", "4", "5", "6", "7", "8", "9"} |->
     48 + CHOOSE n \in 0..9 : ToString(n) = ch]
  @@ "a" :> 97 @@ "b" :> 98 @@ "c" :> 99 @@ "d" :> 100 @@ "e" :> 101 @@ "f" :> 102
  @@ "A" :> 65 @@ "B" :> 66 @@ "C" :> 67 @@ "D" :> 68 @@ "E" :> 69 @@ "F" :> 70
  @@ "/" :> 47 @@ "-" :> 45 @@ "\\" :> 92 @@ " " :> 32 @@ "tab" :> 9 @@ "newline" :> 10
  @@ "x" :> 120 @@ "q" :> 113
MCCharacters == DOMAIN MCByte

Telling == {"/", "-", "\\", " ", "tab", "x", "2", "d"}
MCPaths == UNION {[1..n -> Telling] : n \in 1..4}
             \cup {<<"\\", "1", "3", "4">>, <<"\\", "x", "5", "C">>}

(* Escapes of a digit, of a byte that is none of Characters, of the NUL,   *)
(* in upper case, and two names that are no escapes.                       *)
MCNames ==
  { <<"\\", "x", "3", "1", "a">>, <<"a", "\\", "x", "3", "a">>, <<"a", "\\", "x", "0", "0", "q">>,
    <<"\\", "x", "2", "D", "-", "\\", "x", "2", "q">>, <<"a", "-", "\\", "q">>, <<"a", "\\">> }
=============================================================================
