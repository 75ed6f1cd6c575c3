--------------------------- MODULE ShutdownState ---------------------------
(***************************************************************************)
(* The state of shutdown and suspend requests (reboot.c, machine_reboot.c) *)
(* and the safety properties that they promise.  Shutdown has what happens *)
(* to it.                                                                  *)
(***************************************************************************)
EXTENDS Integers, FiniteSets

CONSTANTS
    Threads,    \* threads that shutdown_work may have running
    APs,        \* the processors other than the one that suspends
    Requests,   \* bound on what the host writes to control/shutdown
    Signals,    \* bound on its signals on the suspend event channel
    Again       \* bound on failures of kthread_run

ASSUME ShutdownAssumption ==
    /\ Threads # {} /\ IsFiniteSet(APs)
    /\ Requests \in Nat /\ Signals \in Nat /\ Again \in Nat

Actions == {"POWEROFF", "SUSPEND", "HALT"}      \* what a request drives it into
Down    == {"POWEROFF", "HALT"}
States  == Actions \cup {"INVALID", "RESUMING"}
Callers == {"watch", "int"}                     \* of switch_shutdown_state

VARIABLES
    shutting_down, suspend_cancelled,
    call,       \* switch_shutdown_state in shutdown_handler and suspend_int
    work,       \* shutdown_work is scheduled
    handler,    \* __shutdown_handler: the thread it is about to start
    thread,     \* where each thread is
    store,      \* control/shutdown
    writes,     \* how often it was written, which is what a transaction notices
    events,     \* watch events not yet handled
    txn,        \* shutdown_handler's transaction: what it read and when
    frozen,     \* xs_suspend holds its locks
    irq,        \* the platform device's interrupt is enabled
    listening,  \* the suspend event channel is bound
    mapped,     \* the grant table is mapped
    do_spin, nr_spinning,   \* struct ap_suspend_info
    ap,         \* what the other processors do
    requests, signals, again
-----------------------------------------------------------------------------
(* Whoever answers for the state: a caller that has still to schedule the  *)
(* work, the work, its handler, or a thread.                               *)
Owners ==
    {<<"call", c>> : c \in {d \in Callers : call[d].at = "kick"}}
    \cup (IF work THEN {<<"work", "work">>} ELSE {})
    \cup (IF handler # "idle" THEN {<<"handler", "handler">>} ELSE {})
    \cup {<<"thread", t>> : t \in {u \in Threads : thread[u] # "idle"}}

(* "Ignore multiple shutdown requests" (reboot.c:28): while the state is   *)
(* INVALID nobody acts on it, and otherwise exactly one does.              *)
OneOwner ==
    /\ shutting_down = "INVALID" => Owners = {}
    /\ shutting_down # "INVALID" => \E o \in Owners : Owners = {o}

(* The thread that runs is the one the state asks for.  With OneOwner this *)
(* is what the BUG and BUG_ON statements of reboot.c assert: the notifier  *)
(* and the failure path find SUSPEND, the loop ends in neither INVALID.    *)
RightThread ==
    \A t \in Threads :
        /\ thread[t] \in {"shutdown", "helped", "kick"} => shutting_down \in Down
        /\ thread[t] # "clear"
        /\ thread[t] \in {"pin", "fail", "freeze", "gather", "wait", "suspend", "cancelled",
                          "woken", "resumed"} => shutting_down = "SUSPEND"
        /\ thread[t] \in {"notified", "drain", "thaw", "listen", "settle"} =>
               shutting_down \in {"RESUMING", "SUSPEND"} \cup Down

(* "Spinning prevents, for example, APs touching grant table entries while *)
(* the shared grant table is not mapped" (machine_reboot.c:16): the other  *)
(* processors wait while the machine is the host's or the table is not     *)
(* mapped; and they look at ap_suspend_info, which is on the stack of      *)
(* __xen_suspend, neither before nor after it runs.                        *)
ApsHeld ==
    /\ (\E t \in Threads : thread[t] \in {"suspend", "cancelled", "woken", "resumed"}) \/ ~mapped
       => (\A p \in APs : ap[p] = "spin") /\ ~irq
    /\ (\E p \in APs : ap[p] # "run")
       => \E t \in Threads : thread[t] \in {"wait", "suspend", "cancelled", "woken", "resumed",
                                            "notified", "drain"}

(* A power-off that was taken up is not forgotten, even when it came while *)
(* the suspend thread was resuming: /sbin/poweroff is called.              *)
PowerOffKept ==
    [][shutting_down' # shutting_down /\ shutting_down \in Down
       => \E t \in Threads : thread[t] = "helped"]_shutting_down
=============================================================================
