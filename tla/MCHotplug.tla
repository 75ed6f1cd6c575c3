----------------------------- MODULE MCHotplug -----------------------------
(* A constellation of Hotplug for TLC. *)
EXTENDS Hotplug, TLC

CONSTANTS u1, u2
=============================================================================
