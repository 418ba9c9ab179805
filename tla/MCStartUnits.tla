---------------------------- MODULE MCStartUnits ----------------------------
(***************************************************************************)
(* StartUnits on small helpers: with and without a root unit, units of one *)
(* layer and of several, sorted as systemd_get_units sorts them; and a     *)
(* record that is empty or exactly full when the call begins.              *)
(***************************************************************************)
EXTENDS StartUnits

U(s, l) == [system |-> s, layer |-> l]

MCSystem == {"", "nes", "nes/images", "psx", "snes", "n64", "gba"}

MCInside == {<<"nes/images", "nes">>}

MCHelpers ==
  { [mounts |-> <<U("", 0), U("nes", 1), U("nes/images", 2)>>, root |-> 1],
    [mounts |-> <<U("nes", 1), U("psx", 1), U("snes", 1)>>, root |-> 0],
    [mounts |-> <<U("", 0)>>, root |-> 1],
    [mounts |-> <<U("", 0), U("nes", 1), U("psx", 1)>>, root |-> 1] }

MCGiven == {<<>>, <<"gba", "n64">>}
=============================================================================
