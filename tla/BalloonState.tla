---------------------------- MODULE BalloonState ----------------------------
(***************************************************************************)
(* The state of the memory balloon (xen-balloon/balloon.c and sysfs.c) and *)
(* the invariants that it promises.  Balloon has what it does.             *)
(***************************************************************************)
EXTENDS Integers

CONSTANTS
    Total,      \* the pages of the guest
    Floor,      \* what balloon_minimum_target makes of the pages of the guest
    Batch,      \* entries of frame_list
    Users,      \* processes that write /proc/xen/balloon or target_kb
    Targets,    \* what may be asked for
    Writes,     \* bound on what the host and the users ask
    Failures,   \* bound on batches which the kernel or Xen cuts short
    When,       \* what may meet, see Apart
    Watch       \* the xenwatch thread, in watch_target

Setters == Users \cup {Watch}

ASSUME BalloonAssumption ==
    /\ Total \in Nat /\ Batch \in Nat \ {0} /\ Writes \in Nat /\ Failures \in Nat
    /\ Floor \in Nat /\ Targets \subseteq Nat /\ Watch \notin Users
    /\ When \subseteq {"racing"}

VARIABLES
    node, events,       \* memory/target, and its watch events to come
    target_pages, flag,
    current_pages, ballooned,   \* ... and balloon_low + balloon_high
    reserved,           \* the pages which Xen has for the guest
    set,                \* where each caller of balloon_set_new_target is
    work,               \* balloon_worker is scheduled
    at,                 \* where balloon_process is
    credit,
    uvp,                \* control/uvp/Balloon_flag
    writes, failures

Least(a, b)    == IF a < b THEN a ELSE b
NoSet == [at |-> "none", new |-> 0, pages |-> 0]

current_target == Least(target_pages, current_pages + ballooned)
-----------------------------------------------------------------------------
(* The variables have their types.                                         *)
BalloonTypes ==
    /\ node \in Nat /\ events \in Nat /\ uvp \in {0, 1}
    /\ target_pages \in Nat /\ flag \in BOOLEAN /\ work \in BOOLEAN
    /\ current_pages \in 0 .. Total /\ ballooned \in 0 .. Total /\ reserved \in 0 .. Total
    /\ set \in [Setters -> [at : {"none", "minimum", "target", "flag", "schedule"},
                            new : Nat, pages : Nat]]
    /\ at \in {"idle", "announce", "credit", "move", "check", "write", "retract"}
    /\ credit \in -Total .. Total
    /\ writes \in 0 .. Writes /\ failures \in 0 .. Failures

(* The books agree with Xen's, the loop has the pages which it is going to *)
(* move (or increase_reservation meets its BUG_ON), and the host sees that *)
(* the balloon is at work.                                                 *)
Accounted ==
    /\ reserved = current_pages /\ current_pages + ballooned = Total
    /\ at = "move" => credit # 0 /\ credit <= ballooned /\ -credit <= current_pages
    /\ uvp = 1 <=> at \notin {"idle", "announce"}

(* Whatever requests meet, the guest is never shrunk below the minimum.    *)
Bounded == current_pages >= Least(Floor, Total)

(* No request is forgotten, though target_pages changes under the loop, a  *)
(* batch may be cut short, and nothing tries again: where the size is not  *)
(* what is asked for, someone is still to act on it.  It includes the two  *)
(* above.                                                                  *)
NotForgotten ==
    /\ BalloonTypes /\ Accounted /\ Bounded
    /\ current_pages # current_target =>
          \/ work \/ events > 0 \/ \E s \in Setters : set[s] # NoSet
          \/ at \in {"announce", "credit", "move", "check", "write"}
=============================================================================
