----------------------------- MODULE MCBlkfront -----------------------------
(* Small instances of Blkfront.                                            *)
EXTENDS Blkfront

CONSTANTS r1, r2, r3

(* One long request and short ones.                                        *)
Chunks2 == [r \in Reqs |-> IF r = r1 THEN 2 ELSE 1]

Host(n, b) == [ring |-> n, indirect |-> b]

(* Hosts with and without indirect requests, and one with a shorter ring.  *)
SameRings == {Host(2, TRUE), Host(2, FALSE)}
Hosts     == SameRings \cup {Host(1, TRUE)}
=============================================================================
