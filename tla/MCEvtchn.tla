------------------------------ MODULE MCEvtchn ------------------------------
(* Two words of two bits, so three ports; two slots for a driver whose     *)
(* port is given (the xenstore's) and one that opens its own.              *)
EXTENDS Evtchn, TLC

CONSTANTS store, blk

StorePort == store :> 1
=============================================================================
