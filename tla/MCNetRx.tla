------------------------------ MODULE MCNetRx -------------------------------
(* A small ring with an adaptive target of 4 or 5 buffers.                  *)
EXTENDS NetRx
=============================================================================
