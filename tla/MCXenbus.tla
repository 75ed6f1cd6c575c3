------------------------------ MODULE MCXenbus ------------------------------
(* A small instance of Xenbus.                                             *)
EXTENDS Xenbus

CONSTANTS c1, w1
=============================================================================
