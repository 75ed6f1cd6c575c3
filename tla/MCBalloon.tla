------------------------------ MODULE MCBalloon ------------------------------
(* A guest of six pages, which may be asked for any size, also for one that *)
(* is below its minimum or more than it can have.                           *)
EXTENDS Balloon

CONSTANTS u1
=============================================================================
