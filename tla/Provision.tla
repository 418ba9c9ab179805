------------------------------ MODULE Provision ------------------------------
(***************************************************************************)
(* What eemount_mount_systems promises, whatever the number of calls,      *)
(* drives and signals it takes: systems are claimed one by one, only       *)
(* mounted systems are claimed, and a drive is bound only to a system that *)
(* is not claimed, claiming it in the same step.  Units may be mounted by  *)
(* the manager at any time, and running out of memory voids all claims.    *)
(***************************************************************************)
EXTENDS Naturals, Sequences

CONSTANT System

VARIABLES
  mtab,     \* the mounts made, in their order
  claimed   \* the systems known to be provided

Put(s, provider) == mtab' = Append(mtab, [at |-> s, by |-> provider])

IsProvided(s) == \E p \in 1..Len(mtab) : mtab[p].at = s

Init == mtab = <<>> /\ claimed = {}

UnitMounted == \E s \in System : Put(s, "unit") /\ UNCHANGED claimed

ClaimUnit ==
  \E s \in System \ claimed :
    IsProvided(s) /\ claimed' = claimed \cup {s} /\ UNCHANGED mtab

BindDrive ==
  \E s \in System \ claimed : Put(s, "drive") /\ claimed' \in {claimed \cup {s}, {}}

Forget == claimed' = {} /\ UNCHANGED mtab

Next == UnitMounted \/ ClaimUnit \/ BindDrive \/ Forget

Spec == Init /\ [][Next]_<<mtab, claimed>>
=============================================================================
