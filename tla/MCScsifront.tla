---------------------------- MODULE MCScsifront ----------------------------
(* Two commands, one of them long; a process and the error handler reset;  *)
(* hosts with a ring of two entries and of one, the second without         *)
(* indirect requests.                                                      *)
EXTENDS Scsifront, TLC

CONSTANTS c1, c2, process, errors

TwoHosts == {[ring |-> 2, indirect |-> TRUE], [ring |-> 1, indirect |-> FALSE]}
=============================================================================
