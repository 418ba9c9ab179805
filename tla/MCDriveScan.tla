----------------------------- MODULE MCDriveScan -----------------------------
(***************************************************************************)
(* DriveScan with a drive whose mark is empty, one that names systems      *)
(* among lines that are passed over, one twice, one whose mark names       *)
(* nothing valid, and a directory that is no drive.                        *)
(***************************************************************************)
EXTENDS DriveScan

No(kind) == [kind |-> kind, system |-> 0]
S(rank) == [kind |-> "system", system |-> rank]
Emuelec == [kind |-> "emuelec", system |-> 1]
PortsScript == [kind |-> "ports_script", system |-> 4]
E(name, marked, mark) == [name |-> name, marked |-> marked, mark |-> mark]

MCEntries ==
  { E(1, TRUE, <<>>),
    E(2, TRUE, <<S(3), No("empty"), PortsScript, No("emuelecroms"), Emuelec, S(3)>>),
    E(3, TRUE, <<No("slash"), No("ports_scripts"), No("long")>>),
    E(4, FALSE, <<>>) }

MCRetries == {-1, 0, 2}
=============================================================================
