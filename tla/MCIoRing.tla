------------------------------ MODULE MCIoRing ------------------------------
(* A ring of a few entries whose indices wrap after a few times its size.   *)
EXTENDS IoRing
=============================================================================
