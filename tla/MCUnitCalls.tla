---------------------------- MODULE MCUnitCalls ----------------------------
(***************************************************************************)
(* UnitCalls with the calls main and eemount_routine make, in their order: *)
(* smbd is stopped, the units reloaded, the root unit started and smbd     *)
(* started again.  A script ends where the next call would meet nothing    *)
(* new: three calls let each kind of call follow each other kind.          *)
(***************************************************************************)
EXTENDS UnitCalls

MCSystem == {"smbd", "roms"}

MCScripts ==
  { <<UnitCall("smbd"), ReloadCall, UnitCall("roms")>>,
    <<UnitCall("roms"), UnitCall("smbd")>> }
=============================================================================
