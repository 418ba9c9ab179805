----------------------------- MODULE MCMountRoot -----------------------------
(***************************************************************************)
(* MountRoot on the mount tables init may leave: .update mounted or not,   *)
(* EEROMS mounted at its own place by an earlier run or not, /flash and    *)
(* /storage on partitions of one drive or of two, or on devices whose      *)
(* names do not end with a number.                                         *)
(***************************************************************************)
EXTENDS MountRoot

On(disk, part) == [disk |-> disk, part |-> part]

InitMount(at, dev) == [at |-> at, by |-> "init", dev |-> dev]

MCLabelled == {On("sd", 3), On("usb", 1)}

MCPartitions == MCLabelled \cup {On("sd", p) : p \in {1, 2}} \cup {On("emmc", 3)}

MCBoots ==
  { <<InitMount("flash", On("sd", 1)), InitMount("storage", On("sd", 2))>>,
    <<InitMount("flash", On("usb", 1)), InitMount("storage", On("emmc", 2))>>,
    <<InitMount("flash", On("sd", 1)), InitMount("storage", On("emmc", 2))>>,
    <<InitMount("storage", On("data", 0))>>,
    <<>> }

MCMore ==
  { <<>>,
    <<InitMount("update", On("sd", 3))>>,
    <<InitMount("update", On("gone", 3))>>,
    <<InitMount("eeroms", On("usb", 1))>> }

MCStarts == {boot \o more : boot \in MCBoots, more \in MCMore}

(* A drive with so many partitions that its name for one has two digits. *)
MCManyParts ==
  { <<InitMount("flash", On("sd", 12)), InitMount("storage", On("sd", 12))>> }

MCManyPartitions == MCPartitions \cup {On("sd", p) : p \in 4..13}
=============================================================================
