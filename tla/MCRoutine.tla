----------------------------- MODULE MCRoutine ------------------------------
(***************************************************************************)
(* Routine with a root unit and units of two layers or with no units, and  *)
(* with no drives or one that offers all of itself and one that offers a   *)
(* system a unit provides as well.                                         *)
(***************************************************************************)
EXTENDS Routine

U(s, l) == [system |-> s, layer |-> l]

MCSystem == {"", "nes", "nes/images", "ports_scripts"}

MCInside == {<<s, "">> : s \in MCSystem \ {""}} \cup {<<"nes/images", "nes">>}

MCHelpers ==
  { NoUnits, [mounts |-> <<U("", 0), U("nes", 1), U("nes/images", 2)>>, root |-> 1] }

MCDriveHelpers == { NoDrives, << <<>>, <<"nes">> >> }

MCGiven == {<<>>}
=============================================================================
