----------------------------- MODULE MCUnitScan -----------------------------
(***************************************************************************)
(* UnitScan on directories of up to five entries, so that an array of two  *)
(* slots grows twice: with and without the root unit, units of layers one  *)
(* and two, two units whose names unescape to the same, omitted entries.   *)
(***************************************************************************)
EXTENDS UnitScan

U(s, d) == [kind |-> "unit", system |-> s, dashes |-> d]

Units == {U(0, 0), U(1, 0), U(1, 1), U(2, 1), U(3, 0)}
Others == {[kind |-> "omitted", system |-> 4, dashes |-> 0],
           [kind |-> "unrelated", system |-> 5, dashes |-> 0]}

MCDirectories == {d \in SUBSET (Units \cup Others) : Cardinality(d) <= 5}
MCDirectoriesClean == {d \in SUBSET Units : U(0, 0) \in d}
=============================================================================
