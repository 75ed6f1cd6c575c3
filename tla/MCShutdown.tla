----------------------------- MODULE MCShutdown -----------------------------
(* A small instance of Shutdown.                                           *)
EXTENDS Shutdown

CONSTANTS t1, t2, p1, p2
=============================================================================
