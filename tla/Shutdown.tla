------------------------------ MODULE Shutdown ------------------------------
(***************************************************************************)
(* Shutdown and suspend requests: 3.12.49/reboot.c and machine_reboot.c.   *)
(*                                                                         *)
(* The host asks through the xenstore node control/shutdown, which         *)
(* shutdown_handler watches, or by an event channel (suspend_int).  Both   *)
(* move shutting_down with a compare-and-exchange.  Whoever takes it out   *)
(* of INVALID schedules shutdown_work, which starts a thread for it; a     *)
(* request that comes while the suspend thread is RESUMING is left to that *)
(* thread.  __xen_suspend gathers the other processors before it gives the *)
(* machine to the host, and lets them go after it.  ShutdownState has the  *)
(* variables and the safety properties.                                    *)
(***************************************************************************)
EXTENDS ShutdownState

Asked == {"poweroff", "halt", "suspend", "reboot"}

choice == <<shutting_down, call>>
job    == <<work, handler, thread, suspend_cancelled>>
xs     == <<store, writes, events, txn>>
cpu    == <<do_spin, nr_spinning, ap>>
hw     == <<frozen, irq, listening, mapped>>
bound  == <<requests, signals, again>>
vars   == <<choice, job, xs, cpu, hw, bound>>

NoCall == [at |-> "idle", old |-> "INVALID", new |-> "INVALID"]
NoTxn  == [open |-> FALSE, str |-> "", seen |-> 0]

Init ==
    /\ shutting_down = "INVALID" /\ suspend_cancelled = FALSE
    /\ call = [c \in Callers |-> NoCall]
    /\ work = FALSE /\ handler = "idle" /\ thread = [t \in Threads |-> "idle"]
    /\ store = "" /\ writes = 0 /\ events = 0 /\ txn = NoTxn
    /\ frozen = FALSE /\ irq = TRUE /\ listening = TRUE /\ mapped = TRUE
    /\ do_spin = FALSE /\ nr_spinning = 0 /\ ap = [p \in APs |-> "run"]
    /\ requests = 0 /\ signals = 0 /\ again = 0
-----------------------------------------------------------------------------
(* The host.                                                               *)

HostAsks(req) ==
    /\ requests < Requests
    /\ requests' = requests + 1
    /\ store' = req /\ writes' = writes + 1 /\ events' = events + 1
    /\ UNCHANGED <<choice, job, txn, cpu, hw, signals, again>>

(* suspend_int, which drives the state to SUSPEND.                         *)
SuspendInt ==
    /\ irq /\ listening /\ call["int"].at = "idle"
    /\ signals < Signals
    /\ signals' = signals + 1
    /\ call' = [call EXCEPT !["int"] = [at |-> "try", old |-> "INVALID", new |-> "SUSPEND"]]
    /\ UNCHANGED <<shutting_down, job, xs, cpu, hw, requests, again>>
-----------------------------------------------------------------------------
(* shutdown_handler, in the xenwatch thread.                               *)
Idle == shutting_down \in {"INVALID", "RESUMING"}

(* A request is under way: this one stays where it is.                     *)
HandlerReturns ==
    /\ events > 0 /\ ~txn.open /\ call["watch"].at = "idle"
    /\ ~Idle
    /\ events' = events - 1
    /\ UNCHANGED <<choice, job, store, writes, txn, cpu, hw, bound>>

(* The transaction starts once the suspend is over, after the test of      *)
(* shutting_down.                                                          *)
HandlerStarts ==
    /\ events > 0 /\ ~txn.open /\ call["watch"].at = "idle"
    /\ Idle
    /\ events' = events - 1
    /\ call' = [call EXCEPT !["watch"].at = "start"]
    /\ UNCHANGED <<shutting_down, job, store, writes, txn, cpu, hw, bound>>

HandlerReads ==
    /\ call["watch"].at = "start" /\ ~frozen
    /\ txn' = [open |-> store # "", str |-> store, seen |-> writes]
    /\ call' = [call EXCEPT !["watch"] = IF store = "" THEN NoCall
                                         ELSE [NoCall EXCEPT !.at = "end"]]
    /\ UNCHANGED <<shutting_down, job, store, writes, events, cpu, hw, bound>>

(* -EAGAIN: the node was written meanwhile.                                *)
HandlerRetries ==
    /\ call["watch"].at = "end" /\ txn.seen # writes
    /\ txn' = NoTxn
    /\ call' = [call EXCEPT !["watch"].at = "start"]
    /\ UNCHANGED <<shutting_down, job, store, writes, events, cpu, hw, bound>>

State(str) == CASE str = "poweroff" -> "POWEROFF" [] str = "suspend" -> "SUSPEND"
                [] str = "halt" -> "HALT"         [] OTHER -> "INVALID"

(* The node is cleared, which is an event of its own.  A reboot calls      *)
(* ctrl_alt_del and no more.                                               *)
HandlerEnds ==
    /\ call["watch"].at = "end" /\ txn.seen = writes
    /\ store' = "" /\ writes' = writes + 1 /\ events' = events + 1
    /\ txn' = NoTxn
    /\ LET s == State(txn.str)
       IN  call' = [call EXCEPT !["watch"] =
                      IF s = "INVALID" THEN NoCall
                      ELSE [at |-> "try", old |-> "INVALID", new |-> s]]
    /\ UNCHANGED <<shutting_down, job, cpu, hw, bound>>
-----------------------------------------------------------------------------
(* switch_shutdown_state: one compare-and-exchange.  It is tried again     *)
(* with what was found, if that may be left; if it succeeds from INVALID,  *)
(* the work is still to be scheduled.                                      *)
Switch(c) ==
    /\ call[c].at = "try"
    /\ LET old == call[c].old
       IN  \/ /\ shutting_down = old
              /\ shutting_down' = call[c].new
              /\ call' = [call EXCEPT ![c] = IF old = "INVALID" THEN [@ EXCEPT !.at = "kick"]
                                             ELSE NoCall]
           \/ /\ shutting_down # old
              /\ call' = [call EXCEPT ![c] = IF Idle THEN [@ EXCEPT !.old = shutting_down]
                                             ELSE NoCall]
              /\ UNCHANGED shutting_down
    /\ UNCHANGED <<job, xs, cpu, hw, bound>>

SwitchKicks(c) ==
    /\ call[c].at = "kick"
    /\ work' = TRUE
    /\ call' = [call EXCEPT ![c] = NoCall]
    /\ UNCHANGED <<shutting_down, handler, thread, suspend_cancelled, xs, cpu, hw, bound>>
-----------------------------------------------------------------------------
(* shutdown_work and its threads.                                          *)

HandlerWorks ==
    /\ work /\ handler = "idle"
    /\ work' = FALSE
    /\ handler' = IF shutting_down = "SUSPEND" THEN "suspend" ELSE "shutdown"
    /\ UNCHANGED <<choice, thread, suspend_cancelled, xs, cpu, hw, bound>>

Spawn(t) ==
    /\ handler # "idle" /\ thread[t] = "idle"
    /\ thread' = [thread EXCEPT ![t] = IF handler = "suspend" THEN "pin" ELSE "shutdown"]
    /\ handler' = "idle"
    /\ UNCHANGED <<choice, work, suspend_cancelled, xs, cpu, hw, bound>>

(* Mutant: that is all.                                                    *)
SpawnFailsForGood ==
    /\ handler # "idle" /\ again < Again
    /\ again' = again + 1
    /\ handler' = "idle"
    /\ UNCHANGED <<choice, work, thread, suspend_cancelled, xs, cpu, hw, requests, signals>>

(* kthread_run fails: the work is scheduled again.                         *)
SpawnFails ==
    /\ handler # "idle" /\ again < Again
    /\ again' = again + 1
    /\ work' = TRUE /\ handler' = "idle"
    /\ UNCHANGED <<choice, thread, suspend_cancelled, xs, cpu, hw, requests, signals>>

(* shutdown_process: /sbin/poweroff, if that is what was asked for, ...    *)
PowersOff(t) ==
    /\ thread[t] = "shutdown"
    /\ thread' = [thread EXCEPT ![t] = IF shutting_down \in Down THEN "helped" ELSE "clear"]
    /\ UNCHANGED <<choice, work, handler, suspend_cancelled, xs, cpu, hw, bound>>

(* ... and "could try again".                                              *)
Clear(t) ==
    /\ thread[t] \in {"helped", "clear"}
    /\ shutting_down' = "INVALID"
    /\ thread' = [thread EXCEPT ![t] = "idle"]
    /\ UNCHANGED <<call, work, handler, suspend_cancelled, xs, cpu, hw, bound>>
-----------------------------------------------------------------------------
(* xen_suspend.                                                            *)
Goes(t, from, to) == thread[t] = from /\ thread' = [thread EXCEPT ![t] = to]

(* set_cpus_allowed_ptr may fail.                                          *)
Pin(t) ==
    /\ \E to \in {"freeze", "fail"} : Goes(t, "pin", to)
    /\ UNCHANGED <<choice, work, handler, suspend_cancelled, xs, cpu, hw, bound>>

Fail(t) ==
    /\ Goes(t, "fail", "idle")
    /\ shutting_down' = "INVALID"
    /\ UNCHANGED <<call, work, handler, suspend_cancelled, xs, cpu, hw, bound>>

(* __xen_suspend: xenbus_suspend waits for the transactions under way.     *)
Freeze(t) ==
    /\ Goes(t, "freeze", "gather") /\ ~txn.open
    /\ frozen' = TRUE
    /\ UNCHANGED <<choice, work, handler, suspend_cancelled, xs, cpu, irq, listening,
                   mapped, bound>>

(* disable_irq waits for the handler; smp_call_function does not wait.     *)
Gather(t) ==
    /\ Goes(t, "gather", "wait") /\ call["int"].at = "idle"
    /\ irq' = FALSE
    /\ do_spin' = TRUE /\ nr_spinning' = 0
    /\ ap' = [p \in APs |-> IF ap[p] = "run" THEN "called" ELSE "called twice"]
    /\ UNCHANGED <<choice, work, handler, suspend_cancelled, xs, frozen, listening,
                   mapped, bound>>

(* ap_suspend.                                                             *)
ApSpins(p) ==
    /\ ap[p] = "called"
    /\ nr_spinning' = nr_spinning + 1
    /\ ap' = [ap EXCEPT ![p] = "spin"]
    /\ UNCHANGED <<choice, job, xs, do_spin, hw, bound>>

(* Mutant: the processor does not say that it left.                        *)
ApLeavesQuietly(p) ==
    /\ ap[p] = "spin" /\ ~do_spin
    /\ ap' = [ap EXCEPT ![p] = "run"]
    /\ UNCHANGED <<choice, job, xs, do_spin, nr_spinning, hw, bound>>

ApLeaves(p) ==
    /\ ap[p] = "spin" /\ ~do_spin
    /\ nr_spinning' = nr_spinning - 1
    /\ ap' = [ap EXCEPT ![p] = "run"]
    /\ UNCHANGED <<choice, job, xs, do_spin, hw, bound>>

(* Mutant: nobody is waited for.                                           *)
GatheredEarly(t) ==
    /\ Goes(t, "wait", "suspend")
    /\ UNCHANGED <<choice, work, handler, suspend_cancelled, xs, cpu, hw, bound>>

Gathered(t) ==
    /\ Goes(t, "wait", "suspend") /\ nr_spinning = Cardinality(APs)
    /\ UNCHANGED <<choice, work, handler, suspend_cancelled, xs, cpu, hw, bound>>

(* HYPERVISOR_suspend: the host cancels it, or the machine wakes up with   *)
(* its grant table unmapped and its event channels closed, ...             *)
Suspend(t) ==
    /\ \/ /\ Goes(t, "suspend", "cancelled")
          /\ UNCHANGED <<mapped, listening>>
       \/ /\ Goes(t, "suspend", "woken")
          /\ mapped' = FALSE /\ listening' = FALSE
    /\ UNCHANGED <<choice, work, handler, suspend_cancelled, xs, cpu, frozen, irq, bound>>

(* ... until platform_pci_resume, gnttab_resume and irq_resume.            *)
Remap(t) ==
    /\ Goes(t, "woken", "resumed")
    /\ mapped' = TRUE
    /\ UNCHANGED <<choice, work, handler, suspend_cancelled, xs, cpu, frozen, irq,
                   listening, bound>>

(* xen_resume_notifier.                                                    *)
Notify(t) ==
    /\ \/ Goes(t, "cancelled", "notified") /\ suspend_cancelled' = TRUE
       \/ Goes(t, "resumed", "notified") /\ suspend_cancelled' = FALSE
    /\ shutting_down' = "RESUMING"
    /\ UNCHANGED <<call, work, handler, xs, cpu, hw, bound>>

Let(t) ==
    /\ Goes(t, "notified", "drain")
    /\ do_spin' = FALSE
    /\ UNCHANGED <<choice, work, handler, suspend_cancelled, xs, nr_spinning, ap, hw, bound>>

Drained(t) ==
    /\ Goes(t, "drain", "thaw") /\ nr_spinning = 0
    /\ irq' = TRUE
    /\ UNCHANGED <<choice, work, handler, suspend_cancelled, xs, cpu, frozen, listening,
                   mapped, bound>>

(* xenbus_suspend_cancel, or xenbus_resume: the watches fire again and,    *)
(* unlike after a cancelled suspend, the event channel is bound again.     *)
Thaw(t) ==
    /\ \/ /\ suspend_cancelled /\ Goes(t, "thaw", "settle")
          /\ UNCHANGED events
       \/ /\ ~suspend_cancelled /\ Goes(t, "thaw", "listen")
          /\ events' = events + 1
    /\ frozen' = FALSE
    /\ UNCHANGED <<choice, work, handler, suspend_cancelled, store, writes, txn, cpu, irq,
                   listening, mapped, bound>>

(* setup_suspend_evtchn, which may fail to bind.                           *)
Listen(t) ==
    /\ Goes(t, "listen", "settle")
    /\ listening' \in BOOLEAN
    /\ UNCHANGED <<choice, work, handler, suspend_cancelled, xs, cpu, frozen, irq,
                   mapped, bound>>

(* The end of the loop in xen_suspend.  Mutant: a plain store.             *)
SettleStores(t) ==
    /\ Goes(t, "settle", "idle")
    /\ shutting_down' = "INVALID"
    /\ UNCHANGED <<call, work, handler, suspend_cancelled, xs, cpu, hw, bound>>

Settle(t) ==
    /\ \/ /\ shutting_down = "SUSPEND" /\ Goes(t, "settle", "freeze")
          /\ UNCHANGED shutting_down
       \/ /\ shutting_down = "RESUMING" /\ Goes(t, "settle", "idle")
          /\ shutting_down' = "INVALID"
       \/ /\ shutting_down \notin {"SUSPEND", "RESUMING"} /\ Goes(t, "settle", "kick")
          /\ UNCHANGED shutting_down
    /\ UNCHANGED <<call, work, handler, suspend_cancelled, xs, cpu, hw, bound>>

ThreadKicks(t) ==
    /\ Goes(t, "kick", "idle")
    /\ work' = TRUE
    /\ UNCHANGED <<choice, handler, suspend_cancelled, xs, cpu, hw, bound>>
-----------------------------------------------------------------------------
Watch == HandlerReturns \/ HandlerStarts \/ HandlerReads \/ HandlerRetries \/ HandlerEnds

Step(t) ==
    \/ PowersOff(t) \/ Clear(t)
    \/ Pin(t) \/ Fail(t) \/ Gather(t) \/ Gathered(t) \/ Suspend(t)
    \/ Remap(t) \/ Notify(t) \/ Let(t) \/ Drained(t) \/ Thaw(t) \/ Listen(t)
    \/ Settle(t) \/ ThreadKicks(t)

Next ==
    \/ \E req \in Asked : HostAsks(req)
    \/ SuspendInt
    \/ Watch
    \/ \E c \in Callers : Switch(c) \/ SwitchKicks(c)
    \/ HandlerWorks \/ SpawnFails
    \/ \E t \in Threads : Spawn(t) \/ Step(t) \/ Freeze(t)
    \/ \E p \in APs : ApSpins(p) \/ ApLeaves(p)

Spec == Init /\ [][Next]_vars

(* Threads, the workqueue and interrupt handlers run, kthread_run does not *)
(* fail for ever, processors take their interrupts, and the mutex in       *)
(* xenbus_suspend is not lost for ever to new transactions.                *)
FairSpec ==
    /\ Spec
    /\ WF_vars(Watch) /\ WF_vars(HandlerWorks)
    /\ \A c \in Callers : WF_vars(Switch(c) \/ SwitchKicks(c))
    /\ WF_vars(\E t \in Threads : Spawn(t))
    /\ \A t \in Threads : WF_vars(Step(t)) /\ SF_vars(Freeze(t))
    /\ \A p \in APs : WF_vars(ApSpins(p) \/ ApLeaves(p))
-----------------------------------------------------------------------------
Suspending == {"gather", "wait", "suspend", "cancelled", "woken", "resumed", "notified",
               "drain", "thaw", "listen", "settle"}
Places     == {"idle", "shutdown", "helped", "clear", "pin", "fail", "freeze", "kick"}
              \cup Suspending

Types ==
    /\ shutting_down \in States /\ suspend_cancelled \in BOOLEAN
    /\ call \in [Callers -> [at : {"idle", "start", "end", "try", "kick"},
                             old : {"INVALID", "RESUMING"}, new : Actions \cup {"INVALID"}]]
    /\ work \in BOOLEAN /\ handler \in {"idle", "suspend", "shutdown"}
    /\ thread \in [Threads -> Places]
    /\ store \in Asked \cup {""} /\ writes \in Nat /\ events \in Nat
    /\ txn \in [open : BOOLEAN, str : Asked \cup {""}, seen : Nat]
    /\ frozen \in BOOLEAN /\ irq \in BOOLEAN /\ listening \in BOOLEAN /\ mapped \in BOOLEAN
    /\ do_spin \in BOOLEAN /\ nr_spinning \in Nat
    /\ ap \in [APs -> {"run", "called", "spin"}]
    /\ requests \in 0 .. Requests /\ signals \in 0 .. Signals /\ again \in 0 .. Again

(* What was taken up is carried out: no state but INVALID lasts.           *)
CarriedOut == \A s \in States \ {"INVALID"} : shutting_down = s ~> shutting_down # s
=============================================================================
