------------------------------ MODULE MCNetTx -------------------------------
(* A ring of four slots and packets of up to two.                           *)
EXTENDS NetTx
=============================================================================
