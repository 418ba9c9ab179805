---------------------------- MODULE MCUmountRoms ----------------------------
(***************************************************************************)
(* UmountRoms over a small tree: /storage/roms, a system in it, another,   *)
(* a directory in the first, and one beside /storage/roms whose name       *)
(* begins alike.  Every table of up to MaxMounts mounts is tried.          *)
(***************************************************************************)
EXTENDS UmountRoms

MCRoms == <<"roms">>

MCPaths ==
  { MCRoms, <<"roms", "nes">>, <<"roms", "nes", "images">>, <<"roms", "psx">>,
    <<"roms2">> }
=============================================================================
