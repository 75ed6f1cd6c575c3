------------------------------ MODULE BlkDevice ------------------------------
(***************************************************************************)
(* What a virtual block device promises to the block layer above it: a     *)
(* submitted request is ended exactly once, and it is ended with success   *)
(* only if every part of it has been written to the disk since it was      *)
(* submitted.  Suspend, migration and the ring are not visible here.       *)
(***************************************************************************)
EXTENDS Integers

CONSTANTS
    Reqs,       \* the block layer's requests
    Chunks      \* how many parts each of them has

VARIABLES
    result,     \* what became of each request
    written     \* the parts of requests that reached the disk

Parts(r) == {r} \X (1 .. Chunks[r])

Init ==
    /\ result = [r \in Reqs |-> "new"]
    /\ written = {}

Submit(r) ==
    /\ result[r] = "new"
    /\ result' = [result EXCEPT ![r] = "pending"]
    /\ UNCHANGED written

Write(r) ==
    /\ result[r] = "pending"
    /\ \E parts \in SUBSET Parts(r) : written' = written \cup parts
    /\ UNCHANGED result

(* An error says nothing of what reached the disk.                         *)
End(r) ==
    /\ result[r] = "pending"
    /\ \/ result' = [result EXCEPT ![r] = "error"]
       \/ /\ Parts(r) \subseteq written
          /\ result' = [result EXCEPT ![r] = "ok"]
    /\ UNCHANGED written

Next == \E r \in Reqs : Submit(r) \/ Write(r) \/ End(r)

Spec == Init /\ [][Next]_<<result, written>>
=============================================================================
