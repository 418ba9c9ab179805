----------------------------- MODULE MCEEConfig -----------------------------
(***************************************************************************)
(* EEConfig on every file of up to three lines out of nine, with the calls *)
(* drive_get_mounts makes and ones at every level.                         *)
(***************************************************************************)
EXTENDS EEConfig

Retry == <<"retry">>
RetryMore == <<"retry", "more">>

V(n) == [word |-> "other", num |-> n]
W(w) == [word |-> w, num |-> 0]
L(scope, platform, rom, setting, value) ==
  [scope |-> scope, platform |-> platform, rom |-> rom, setting |-> setting, value |-> value]
G(setting, platform, rom, type) ==
  [setting |-> setting, platform |-> platform, rom |-> rom, type |-> type]

MCLines ==
  { L("comment", "", "", <<>>, W("")),
    L("rom", "nes", "mario", Retry, V(1)),
    L("rom", "nes", "zelda", Retry, V(2)),
    L("platform", "nes", "", Retry, V(3)),
    L("platform", "nes", "", Retry, V(4)),
    L("global", "", "", Retry, V(9)),
    L("global", "", "", RetryMore, V(-9)),
    L("raw", "", "", Retry, V(5)),
    L("raw", "", "", Retry, W("")),
    L("raw", "", "", Retry, W("true")) }

FilesOf(lines) ==
  [lines : UNION {[1..n -> lines] : n \in 0..3}, ended : BOOLEAN]

MCFiles == FilesOf(MCLines)
MCFilesPrefix == FilesOf(MCLines \cup {L("platform", "nes", "", RetryMore, V(7))})

Many(getters) == [many |-> TRUE, getters |-> getters]
One(g) == [many |-> FALSE, getters |-> <<g>>]

MCCalls ==
  { Many(<<G(Retry, None, None, "int"), G(RetryMore, None, None, "string")>>),
    Many(<<G(Retry, None, None, "long"), G(Retry, None, "mario", "int"),
           G(Retry, "nes", None, "bool")>>),
    Many(<<>>),
    One(G(Retry, "nes", "mario", "int")),
    One(G(Retry, None, None, "string")),
    One(G(<<>>, "nes", None, "int")) }
=============================================================================
