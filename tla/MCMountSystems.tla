--------------------------- MODULE MCMountSystems ---------------------------
(***************************************************************************)
(* MountSystems on small helpers: units and drives that provide the same   *)
(* systems, a unit for a directory inside a system's, a drive with no      *)
(* system of its own, one that lists a system twice, and no units or no    *)
(* drives at all.                                                          *)
(***************************************************************************)
EXTENDS MountSystems

U(s, l) == [system |-> s, layer |-> l]

MCSystem == {"", "nes", "nes/images", "psx"}

MCInside == {<<"nes/images", "nes">>}

MCHelpers ==
  { NoUnits,
    [mounts |-> <<U("nes", 1), U("nes/images", 2)>>, root |-> 0],
    [mounts |-> <<U("", 0), U("nes", 1), U("psx", 1)>>, root |-> 1] }

MCDriveHelpers ==
  { NoDrives,
    << <<>>, <<"nes", "psx">> >>,
    << <<"nes">>, <<"nes", "nes", "psx">> >> }

MCGiven == {<<>>}
=============================================================================
