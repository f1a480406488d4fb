----------------------------- MODULE MCHotplug -----------------------------
(***************************************************************************)
(* Hotplug handling with two displays and as many slots, or fewer.          *)
(***************************************************************************)
EXTENDS Hotplug

MCDisplays == 1..2
=============================================================================
