------------------------------- MODULE Balloon -------------------------------
(***************************************************************************)
(* The memory balloon, xen-balloon/balloon.c and sysfs.c.                  *)
(*                                                                         *)
(* The host asks for a size in the node memory/target, users ask through   *)
(* /proc and sysfs.  All of them come to balloon_set_new_target, which     *)
(* takes no lock; a work item then takes pages from the kernel and gives   *)
(* them to Xen, or the other way round, batch after batch.  It does not    *)
(* try again by itself: if it did not get there, it writes what there is   *)
(* to memory/target, and so asks itself for that.                          *)
(*                                                                         *)
(* A step is an access to target_pages, flag or xenstore, or the locked    *)
(* part of a batch.  Pages are counted; only the work item moves them, as  *)
(* no driver of an HVM guest does.  BalloonState has the variables.        *)
(***************************************************************************)
EXTENDS BalloonState

request == <<target_pages, flag, set, work>>
pages   == <<current_pages, ballooned, reserved>>
store   == <<node, events, uvp>>
bounds  == <<writes, failures>>
vars    == <<request, pages, store, at, credit, bounds>>

Greatest(a, b) == IF a > b THEN a ELSE b

(* "racing": target_pages changes after the last look of the loop, before  *)
(* balloon_process decides whether to write the size to memory/target, or  *)
(* writes it.                                                              *)
Apart(cond) == "racing" \in When \/ cond

(* Mutant: the minimum of the pages that are there.                        *)
MinimumOfPresent == Least((Floor * current_pages) \div Total, current_target)

(* "Don't enforce growth".  The pages present are those of the nodes, which *)
(* a balloon leaves as they are (it counts in the zones).                  *)
balloon_minimum_target == Least(Floor, current_target)
-----------------------------------------------------------------------------
(* balloon_init; a watch that is registered has an event.                  *)
Init ==
    /\ node \in Targets /\ events = 1 /\ uvp = 0
    /\ target_pages = Total /\ flag = FALSE
    /\ current_pages = Total /\ ballooned = 0 /\ reserved = Total
    /\ set = [s \in Setters |-> NoSet] /\ work = FALSE
    /\ at = "idle" /\ credit = 0
    /\ writes = 0 /\ failures = 0

HostAsks(n) ==
    /\ writes < Writes
    /\ writes' = writes + 1
    /\ node' = n /\ events' = events + 1
    /\ UNCHANGED <<request, pages, uvp, at, credit, failures>>

Asked(s, n) ==
    /\ set[s] = NoSet
    /\ set' = [set EXCEPT ![s] = [at |-> "minimum", new |-> n, pages |-> 0]]
    /\ UNCHANGED <<target_pages, flag, work>>

(* balloon_write, store_target, store_target_kb                            *)
UserAsks(u, n) ==
    /\ writes < Writes
    /\ writes' = writes + 1
    /\ Asked(u, n)
    /\ UNCHANGED <<pages, store, at, credit, failures>>

(* Whatever the event was for, the node is read now.                       *)
WatchTarget ==
    /\ events > 0
    /\ Asked(Watch, node)
    /\ events' = events - 1
    /\ UNCHANGED <<pages, node, uvp, at, credit, bounds>>
-----------------------------------------------------------------------------
(* balloon_set_new_target: "No need for lock."                             *)
TakesMinimum(s) ==
    /\ set[s].at = "minimum"
    /\ set' = [set EXCEPT ![s].at = "target",
                          ![s].pages = Greatest(set[s].new, balloon_minimum_target)]
    /\ UNCHANGED <<target_pages, flag, work, pages, store, at, credit, bounds>>

SetsTarget(s) ==
    /\ set[s].at = "target"
    /\ Apart(at \notin {"check", "write"})
    /\ target_pages' = set[s].pages
    /\ set' = [set EXCEPT ![s].at = "flag"]
    /\ UNCHANGED <<flag, work, pages, store, at, credit, bounds>>

(* target_pages is read again.                                             *)
SetsFlag(s) ==
    /\ set[s].at = "flag"
    /\ flag' = (target_pages # set[s].new)
    /\ set' = [set EXCEPT ![s].at = "schedule"]
    /\ UNCHANGED <<target_pages, work, pages, store, at, credit, bounds>>

(* Mutant: the work is only scheduled if there is something to do already. *)
SchedulesIfDue(s) ==
    /\ set[s].at = "schedule"
    /\ set' = [set EXCEPT ![s] = NoSet]
    /\ work' = (work \/ (at = "idle" /\ current_target # current_pages))
    /\ UNCHANGED <<target_pages, flag, pages, store, at, credit, bounds>>

Schedules(s) ==
    /\ set[s].at = "schedule"
    /\ set' = [set EXCEPT ![s] = NoSet]
    /\ work' = TRUE
    /\ UNCHANGED <<target_pages, flag, pages, store, at, credit, bounds>>
-----------------------------------------------------------------------------
(* balloon_process.  An item may be scheduled again once it has started.   *)
Starts ==
    /\ work /\ at = "idle"
    /\ work' = FALSE
    /\ at' = IF current_target = current_pages THEN "idle" ELSE "announce"
    /\ UNCHANGED <<target_pages, flag, set, pages, store, credit, bounds>>

Announces ==
    /\ at = "announce"
    /\ uvp' = 1
    /\ at' = "credit"
    /\ UNCHANGED <<request, pages, node, events, credit, bounds>>

(* Outside the lock; without credit the loop ends.                         *)
TakesCredit ==
    /\ at = "credit"
    /\ credit' = current_target - current_pages
    /\ at' = IF credit' = 0 THEN "check" ELSE "move"
    /\ UNCHANGED <<request, pages, store, bounds>>

(* How many of n pages there are: all, or fewer as the kernel has none to  *)
(* spare or Xen has.                                                       *)
Gets(n, k) ==
    /\ k \in 0 .. n
    /\ failures' = IF k = n THEN failures ELSE failures + 1
    /\ failures' <= Failures
    /\ at' = IF k = n THEN "credit" ELSE "check"

(* increase_reservation, k of the first pages of the balloon populated.    *)
Increase ==
    /\ at = "move" /\ credit > 0
    /\ LET n == Least(credit, Batch)
       IN  /\ n <= ballooned
           /\ \E k \in 0 .. n :
                 /\ Gets(n, k)
                 /\ reserved' = reserved + k
                 /\ ballooned' = ballooned - k
                 /\ current_pages' = current_pages + k
    /\ UNCHANGED <<request, store, credit, writes>>

(* Mutant: those that could not be allocated are counted too.              *)
DecreaseAll ==
    /\ at = "move" /\ credit < 0
    /\ LET n == Least(-credit, Batch)
       IN  \E k \in 0 .. n :
              /\ Gets(n, k)
              /\ ballooned' = ballooned + k
              /\ reserved' = reserved - k
              /\ current_pages' = current_pages - n
    /\ UNCHANGED <<request, store, credit, writes>>

(* decrease_reservation, with k pages allocated                            *)
Decrease ==
    /\ at = "move" /\ credit < 0
    /\ LET n == Least(-credit, Batch)
       IN  \E k \in 0 .. n :
              /\ Gets(n, k)
              /\ ballooned' = ballooned + k
              /\ reserved' = reserved - k
              /\ current_pages' = current_pages - k
    /\ UNCHANGED <<request, store, credit, writes>>

(* Mutant: a batch cut short is tried again by nobody.                     *)
ChecksFlagOnly ==
    /\ at = "check"
    /\ at' = IF flag THEN "write" ELSE "retract"
    /\ UNCHANGED <<request, pages, store, credit, bounds>>

Checks ==
    /\ at = "check"
    /\ at' = IF current_target # current_pages \/ flag THEN "write" ELSE "retract"
    /\ UNCHANGED <<request, pages, store, credit, bounds>>

WritesTarget ==
    /\ at = "write"
    /\ node' = current_pages /\ events' = events + 1
    /\ at' = "retract"
    /\ UNCHANGED <<request, pages, uvp, credit, bounds>>

Retracts ==
    /\ at = "retract"
    /\ uvp' = 0
    /\ at' = "idle"
    /\ UNCHANGED <<request, pages, node, events, credit, bounds>>
-----------------------------------------------------------------------------
SetStep(s)     == TakesMinimum(s) \/ SetsTarget(s) \/ SetsFlag(s) \/ Schedules(s)
BalloonProcess == Starts \/ Announces \/ TakesCredit \/ Increase \/ Decrease
                  \/ Checks \/ WritesTarget \/ Retracts

Next ==
    \/ \E n \in Targets : HostAsks(n) \/ \E u \in Users : UserAsks(u, n)
    \/ WatchTarget
    \/ \E s \in Setters : SetStep(s)
    \/ BalloonProcess

Spec == Init /\ [][Next]_vars

(* Threads run on; nobody has to ask.                                      *)
FairSpec ==
    /\ Spec
    /\ WF_vars(WatchTarget) /\ WF_vars(BalloonProcess)
    /\ \A s \in Setters : WF_vars(SetStep(s))
-----------------------------------------------------------------------------
(* "We aim for 'current allocation' == 'target allocation'" (common.h): it *)
(* comes to that once nobody asks any more, if need be by giving in.  What *)
(* the loop writes to memory/target is a request of its own; where it may  *)
(* race another ("racing" in When), the two can chase each other for ever. *)
Settles == <>[](at = "idle" /\ current_pages = current_target)

=============================================================================
