------------------------------ MODULE MCGnttab ------------------------------
(* A small grant table for TLC: two frames of two entries, of which the     *)
(* first is reserved, and drivers that use the calls of blkfront and        *)
(* netfront.                                                                *)
EXTENDS Gnttab, TLC

CONSTANTS blk, net

BlkCalls  == {"single", "pool", "callback"}
NetCalls  == {"permit", "accept", "batch"}

(* A block driver and a network driver that also has pages transferred to   *)
(* it share the table.                                                      *)
TwoDrivers == blk :> BlkCalls @@ net :> NetCalls
=============================================================================
