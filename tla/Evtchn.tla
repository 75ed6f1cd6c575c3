-------------------------------- MODULE Evtchn --------------------------------
(***************************************************************************)
(* Event channels of the platform driver, xen-platform-pci/evtchn.c: the   *)
(* table irq_evtchn of slots, the interrupt handler that scans two levels  *)
(* of bits for pending ports and calls the slots' handlers, and the        *)
(* drivers that bind and unbind slots on other processors meanwhile.       *)
(*                                                                         *)
(* A step of the interrupt handler is one access to what others write: the *)
(* bits shared with Xen, evtchn_to_irq, or a slot under its lock.          *)
(***************************************************************************)
EXTENDS Integers, FiniteSets

CONSTANTS
    Bits,           \* BITS_PER_LONG
    Words,          \* words of evtchn_pending in use
    NIrqs,          \* ARRAY_SIZE(irq_evtchn)
    Drivers,        \* each binds one slot at a time
    Callers,        \* those whose port is given, bind_caller_port_to_irqhandler
    CallerPort,     \* the ports given to them
    MaxResumes,     \* bound on the number of resumes
    None

Ports == 1 .. Words * Bits - 1      \* port 0 is not valid
Irqs  == 1 .. NIrqs

ASSUME EvtchnAssumption ==
    /\ Bits \in Nat \ {0} /\ Words \in 1 .. Bits /\ NIrqs \in Nat /\ MaxResumes \in Nat
    /\ Callers \subseteq Drivers /\ None \notin Drivers
    /\ CallerPort \in [Callers -> Ports]
    /\ \A d, e \in Callers : CallerPort[d] = CallerPort[e] => d = e

VARIABLES
    pending, mask,      \* evtchn_pending and evtchn_mask, as sets of ports
    sel, upcall,        \* evtchn_pending_sel as a set of words, evtchn_upcall_pending
    open,               \* ports which Xen delivers to
    raising,            \* Xen has set a selector bit and is to set upcall
    to_irq,             \* evtchn_to_irq
    handler, dev_id, evtchn,    \* fields of irq_evtchn[irq]
    close, inuse, in_handler,   \* its flags, as sets of slots
    locked,             \* slots whose lock a driver holds
    pc, l1, l1i, l2i,   \* evtchn_interrupt
    port, irq,
    last1, last2,       \* last_processed_l1i, last_processed_l2i
    running,            \* whose dev_id a handler was called with
    dpc, dirq,          \* where a driver is, and its slot
    owed,               \* ports with an event for a handler that is bound to them
    resumes

xen       == <<pending, mask, sel, upcall, open, raising>>
slots     == <<handler, dev_id, evtchn, close, inuse, in_handler, locked>>
interrupt == <<pc, l1, l1i, l2i, port, irq, last1, last2, running>>
drivers   == <<dpc, dirq>>
vars      == <<xen, to_irq, slots, interrupt, drivers, owed, resumes>>

Word(p) == p \div Bits
Bit(p)  == p % Bits

GivenPorts == {CallerPort[d] : d \in Callers}

(* active_evtchns                                                          *)
Active(w) == {p \in pending \ mask : Word(p) = w}
-----------------------------------------------------------------------------
Init ==
    /\ pending = {} /\ mask = {} /\ sel = {} /\ upcall = FALSE
    /\ open = GivenPorts /\ raising = FALSE
    /\ to_irq = [p \in Ports |-> -1]
    /\ handler = [i \in Irqs |-> None] /\ dev_id = [i \in Irqs |-> None]
    /\ evtchn = [i \in Irqs |-> 0]
    /\ close = {} /\ inuse = {} /\ in_handler = {} /\ locked = {}
    /\ pc = "idle" /\ l1 = {} /\ l1i = Bits - 1 /\ l2i = Bits - 1
    /\ port = 0 /\ irq = -1 /\ last1 = Bits - 1 /\ last2 = Bits - 1 /\ running = None
    /\ dpc = [d \in Drivers |-> "unbound"] /\ dirq = [d \in Drivers |-> 0]
    /\ owed = {} /\ resumes = 0
-----------------------------------------------------------------------------
(* evtchn_interrupt.                                                       *)

(* v->evtchn_upcall_pending = 0                                            *)
Enter ==
    /\ pc = "idle" /\ upcall
    /\ upcall' = FALSE
    /\ pc' = "entered"
    /\ UNCHANGED <<pending, mask, sel, open, raising, to_irq, slots, l1, l1i, l2i,
                   port, irq, last1, last2, running, drivers, owed, resumes>>

(* xchg(&v->evtchn_pending_sel, 0)                                         *)
Exchange ==
    /\ pc = "entered"
    /\ l1' = sel /\ sel' = {}
    /\ \/ /\ sel = {}
          /\ pc' = "idle"
          /\ UNCHANGED <<l1i, l2i>>
       \/ /\ sel # {}
          /\ pc' = "words" /\ l1i' = last1 /\ l2i' = last2
    /\ UNCHANGED <<pending, mask, upcall, open, raising, to_irq, slots,
                   port, irq, last1, last2, running, drivers, owed, resumes>>

(* Mutant: always the first active port of the word.                       *)
PickFirst(w, after) ==
    LET ahead == Active(w)
    IN  /\ l1i' = w
        /\ \/ /\ ahead = {}
              /\ l2i' = Bits - 1 /\ pc' = "recheck"
              /\ UNCHANGED port
           \/ \E p \in ahead :
                 /\ \A q \in ahead : p <= q
                 /\ port' = p /\ l2i' = Bit(p) /\ pc' = "clear"

(* The first active port of word w from bit (after + 1) % Bits on, if any. *)
Pick(w, after) ==
    LET ahead == {p \in Active(w) : Bit(p) >= (after + 1) % Bits}
    IN  /\ l1i' = w
        /\ \/ /\ ahead = {}
              /\ l2i' = Bits - 1 /\ pc' = "recheck"
              /\ UNCHANGED port
           \/ \E p \in ahead :
                 /\ \A q \in ahead : p <= q
                 /\ port' = p /\ l2i' = Bit(p) /\ pc' = "clear"

(* The next word in l1, round robin.                                       *)
NextWord ==
    /\ pc = "words"
    /\ LET ahead == {w \in l1 : w >= (l1i + 1) % Bits}
       IN  \/ \E w \in ahead :
                 /\ \A x \in ahead : w <= x
                 /\ Pick(w, l2i)
           \/ /\ ahead = {}
              /\ \E w \in l1 :
                    /\ \A x \in l1 : w <= x
                    /\ Pick(w, Bits - 1)
    /\ UNCHANGED <<xen, to_irq, slots, l1, irq, last1, last2, running, drivers, owed, resumes>>

(* Once more round the inner loop, unless the last bit of the word was     *)
(* reached.  (Locals that are not used again are reset.)                   *)
Continue ==
    /\ pc' = IF l2i # Bits - 1 THEN "inner" ELSE "recheck"
    /\ port' = 0 /\ irq' = -1

NextPort ==
    /\ pc = "inner"
    /\ Pick(l1i, l2i)
    /\ UNCHANGED <<xen, to_irq, slots, l1, irq, last1, last2, running, drivers, owed, resumes>>

ClearBit ==
    /\ pc = "clear"
    /\ pending' = pending \ {port}
    /\ pc' = "lookup"
    /\ UNCHANGED <<mask, sel, upcall, open, raising, to_irq, slots, l1, l1i, l2i,
                   port, irq, last1, last2, running, drivers, owed, resumes>>

(* irq = evtchn_to_irq[port]                                               *)
Lookup ==
    /\ pc = "lookup"
    /\ \/ /\ to_irq[port] < 0
          /\ Continue
       \/ /\ to_irq[port] >= 0
          /\ irq' = to_irq[port] /\ pc' = "lock"
          /\ UNCHANGED port
    /\ UNCHANGED <<xen, to_irq, slots, l1, l1i, l2i, last1, last2, running, drivers,
                   owed, resumes>>

(* Under the slot's lock: is there still a handler?                        *)
NoHandler ==
    /\ pc = "lock" /\ irq \notin locked /\ handler[irq] = None
    /\ Continue
    /\ UNCHANGED <<xen, to_irq, slots, l1, l1i, l2i, last1, last2, running,
                   drivers, owed, resumes>>

SetInHandler ==
    /\ pc = "lock" /\ irq \notin locked /\ handler[irq] # None
    /\ in_handler' = in_handler \cup {irq}
    /\ owed' = IF to_irq[port] = irq THEN owed \ {port} ELSE owed
    /\ pc' = "call"
    /\ UNCHANGED <<xen, to_irq, handler, dev_id, evtchn, close, inuse, locked, l1, l1i, l2i,
                   port, irq, last1, last2, running, drivers, resumes>>

(* The handler is called without the lock, with the dev_id of the slot.    *)
CallHandler ==
    /\ pc = "call"
    /\ running' = dev_id[irq]
    /\ pc' = "handler"
    /\ UNCHANGED <<xen, to_irq, slots, l1, l1i, l2i, port, irq, last1, last2, drivers, owed,
                   resumes>>

HandlerReturns ==
    /\ pc = "handler" /\ irq \notin locked
    /\ in_handler' = in_handler \ {irq}
    /\ running' = None
    /\ last1' = l1i /\ last2' = l2i
    /\ Continue
    /\ UNCHANGED <<xen, to_irq, handler, dev_id, evtchn, close, inuse, locked, l1, l1i, l2i,
                   drivers, owed, resumes>>

(* Mutant: a word is left after one pass.                                  *)
RecheckNot ==
    /\ pc = "recheck"
    /\ l1' = l1 \ {l1i}
    /\ \/ /\ l1' = {}
          /\ pc' = "idle" /\ l1i' = Bits - 1 /\ l2i' = Bits - 1
       \/ /\ l1' # {}
          /\ pc' = "words"
          /\ UNCHANGED <<l1i, l2i>>
    /\ UNCHANGED <<xen, to_irq, slots, port, irq, last1, last2, running, drivers, owed, resumes>>

(* A word is left when none of its ports is active.                        *)
Recheck ==
    /\ pc = "recheck"
    /\ l1' = IF Active(l1i) = {} THEN l1 \ {l1i} ELSE l1
    /\ \/ /\ l1' = {}
          /\ pc' = "idle" /\ l1i' = Bits - 1 /\ l2i' = Bits - 1
       \/ /\ l1' # {}
          /\ pc' = "words"
          /\ UNCHANGED <<l1i, l2i>>
    /\ UNCHANGED <<xen, to_irq, slots, port, irq, last1, last2, running, drivers,
                   owed, resumes>>
-----------------------------------------------------------------------------
(* Drivers.                                                                *)

(* alloc_xen_irq; without a free slot the bind fails and nothing changes.  *)
AllocXenIrq(d) ==
    /\ dpc[d] = "unbound"
    /\ \E i \in Irqs \ inuse :
          /\ \A j \in Irqs \ inuse : i <= j
          /\ inuse' = inuse \cup {i}
          /\ dirq' = [dirq EXCEPT ![d] = i]
    /\ dpc' = [dpc EXCEPT ![d] = "allocated"]
    /\ UNCHANGED <<xen, to_irq, handler, dev_id, evtchn, close, in_handler, locked,
                   interrupt, owed, resumes>>

(* EVTCHNOP_alloc_unbound returned an error                                *)
BindFails(d) ==
    /\ dpc[d] = "allocated" /\ d \notin Callers
    /\ inuse' = inuse \ {dirq[d]}
    /\ dirq' = [dirq EXCEPT ![d] = 0]
    /\ dpc' = [dpc EXCEPT ![d] = "unbound"]
    /\ UNCHANGED <<xen, to_irq, handler, dev_id, evtchn, close, in_handler, locked,
                   interrupt, owed, resumes>>

(* Both functions that bind take the slot's lock, fill the slot in ...     *)
Bind(d) ==
    LET i == dirq[d] IN
    /\ dpc[d] = "allocated" /\ i \notin locked
    /\ \E p \in IF d \in Callers THEN {CallerPort[d]} ELSE Ports \ open :
          /\ open' = open \cup {p}
          /\ evtchn' = [evtchn EXCEPT ![i] = p]
          /\ to_irq' = [to_irq EXCEPT ![p] = i]
    /\ handler' = [handler EXCEPT ![i] = d]
    /\ dev_id' = [dev_id EXCEPT ![i] = d]
    /\ close' = IF d \in Callers THEN close \ {i} ELSE close \cup {i}
    /\ locked' = locked \cup {i}
    /\ dpc' = [dpc EXCEPT ![d] = "unmask"]
    /\ UNCHANGED <<pending, mask, sel, upcall, raising, inuse, in_handler,
                   interrupt, dirq, owed, resumes>>

(* ... and unmask the port, a hypercall that raises what is pending.       *)
Unmask(d) ==
    LET i == dirq[d]
        p == evtchn[i]
        due == p \in pending \cap mask /\ Word(p) \notin sel
    IN  /\ dpc[d] = "unmask"
        /\ mask' = mask \ {p}
        /\ sel' = IF due THEN sel \cup {Word(p)} ELSE sel
        /\ upcall' = (upcall \/ due)
        /\ locked' = locked \ {i}
        /\ dpc' = [dpc EXCEPT ![d] = "bound"]
        /\ UNCHANGED <<pending, open, raising, to_irq, handler, dev_id, evtchn, close,
                       inuse, in_handler, interrupt, dirq, owed, resumes>>

(* unbind_from_irqhandler: the port is unmapped and masked, ...  (A port   *)
(* that was given is the xenstore's, which is only bound anew after a      *)
(* resume, xenbus_comms.c:263.)                                            *)
Unbind(d) ==
    LET i == dirq[d] IN
    /\ dpc[d] = "bound" /\ i \notin locked
    /\ d \in Callers => evtchn[i] = 0
    /\ locked' = locked \cup {i}
    /\ \/ /\ evtchn[i] # 0
          /\ to_irq' = [to_irq EXCEPT ![evtchn[i]] = -1]
          /\ mask' = mask \cup {evtchn[i]}
          /\ owed' = owed \ {evtchn[i]}
       \/ /\ evtchn[i] = 0
          /\ UNCHANGED <<to_irq, mask, owed>>
    /\ dpc' = [dpc EXCEPT ![d] = "clear"]
    /\ UNCHANGED <<pending, sel, upcall, open, raising, handler, dev_id, evtchn, close,
                   inuse, in_handler, interrupt, dirq, resumes>>

(* ... the port is closed if it was opened here, the slot cleared, ...     *)
UnbindClears(d) ==
    LET i == dirq[d]
        closed == IF i \in close THEN {evtchn[i]} ELSE {}
    IN  /\ dpc[d] = "clear"
        /\ open' = open \ closed /\ pending' = pending \ closed
        /\ handler' = [handler EXCEPT ![i] = None]
        /\ evtchn' = [evtchn EXCEPT ![i] = 0]
        /\ locked' = locked \ {i}
        /\ dpc' = [dpc EXCEPT ![d] = "spin"]
        /\ UNCHANGED <<mask, sel, upcall, raising, to_irq, dev_id, close, inuse,
                       in_handler, interrupt, dirq, owed, resumes>>

(* Mutant: the slot is freed at once.                                      *)
FreeAtOnce(d) ==
    /\ dpc[d] = "spin"
    /\ inuse' = inuse \ {dirq[d]}
    /\ dirq' = [dirq EXCEPT ![d] = 0]
    /\ dpc' = [dpc EXCEPT ![d] = "unbound"]
    /\ UNCHANGED <<xen, to_irq, handler, dev_id, evtchn, close, in_handler, locked,
                   interrupt, owed, resumes>>

(* ... and freed when no handler runs.                                     *)
FreeXenIrq(d) ==
    /\ dpc[d] = "spin" /\ dirq[d] \notin in_handler
    /\ inuse' = inuse \ {dirq[d]}
    /\ dirq' = [dirq EXCEPT ![d] = 0]
    /\ dpc' = [dpc EXCEPT ![d] = "unbound"]
    /\ UNCHANGED <<xen, to_irq, handler, dev_id, evtchn, close, in_handler, locked,
                   interrupt, owed, resumes>>

(* irq_resume, with every processor stopped outside interrupts and         *)
(* spinlocks, in a domain whose event channels are gone.                   *)
IrqResume ==
    /\ resumes < MaxResumes /\ pc = "idle" /\ locked = {}
    /\ resumes' = resumes + 1
    /\ pending' = {} /\ mask' = Ports /\ sel' = {} /\ upcall' = FALSE
    /\ open' = GivenPorts /\ raising' = FALSE
    /\ to_irq' = [p \in Ports |-> -1]
    /\ evtchn' = [i \in Irqs |-> 0]
    /\ owed' = {}
    /\ UNCHANGED <<handler, dev_id, close, inuse, in_handler, locked, interrupt, drivers>>
-----------------------------------------------------------------------------
(* Xen (external) delivers an event: it sets the pending bit; if that was  *)
(* not set and the port is not masked, the selector bit; and if that was   *)
(* not set, the upcall flag, a little later.                               *)
Send(p) ==
    LET new == p \notin pending \cup mask
    IN  /\ p \in open
        /\ pending' = pending \cup {p}
        /\ sel' = IF new THEN sel \cup {Word(p)} ELSE sel
        /\ raising' = (raising \/ (new /\ Word(p) \notin sel))
        /\ owed' = IF to_irq[p] # -1 THEN owed \cup {p} ELSE owed
        /\ UNCHANGED <<mask, upcall, open, to_irq, slots, interrupt, drivers, resumes>>

Raise ==
    /\ raising
    /\ raising' = FALSE /\ upcall' = TRUE
    /\ UNCHANGED <<pending, mask, sel, open, to_irq, slots, interrupt, drivers, owed, resumes>>
-----------------------------------------------------------------------------
Interrupt ==
    \/ Enter \/ Exchange \/ NextWord \/ NextPort \/ ClearBit \/ Lookup
    \/ NoHandler \/ SetInHandler \/ CallHandler \/ HandlerReturns \/ Recheck

(* What a driver does once it holds a lock, or has begun to unbind.        *)
Proceeds(d) == Unmask(d) \/ UnbindClears(d) \/ FreeXenIrq(d)

Next ==
    \/ Interrupt
    \/ \E d \in Drivers : AllocXenIrq(d) \/ BindFails(d) \/ Bind(d) \/ Unbind(d) \/ Proceeds(d)
    \/ IrqResume
    \/ \E p \in Ports : Send(p)
    \/ Raise

Spec == Init /\ [][Next]_vars

(* The interrupt handler runs on, gets a slot's lock at last (spinlocks    *)
(* queue those who wait), and Xen finishes what it began.                  *)
FairSpec ==
    /\ Spec
    /\ WF_vars(Interrupt)
    /\ SF_vars(NoHandler \/ SetInHandler) /\ SF_vars(HandlerReturns)
    /\ \A d \in Drivers : WF_vars(Proceeds(d))
    /\ WF_vars(Raise)
-----------------------------------------------------------------------------
PortWords == {Word(p) : p \in Ports}

(* The variables have their types.                                         *)
Types ==
    /\ pending \subseteq Ports /\ mask \subseteq Ports /\ open \subseteq Ports
    /\ owed \subseteq Ports /\ raising \in BOOLEAN
    /\ sel \subseteq PortWords /\ l1 \subseteq PortWords /\ upcall \in BOOLEAN
    /\ to_irq \in [Ports -> Irqs \cup {-1}]
    /\ handler \in [Irqs -> Drivers \cup {None}] /\ dev_id \in [Irqs -> Drivers \cup {None}]
    /\ evtchn \in [Irqs -> Ports \cup {0}]
    /\ close \subseteq Irqs /\ inuse \subseteq Irqs /\ in_handler \subseteq Irqs
    /\ locked \subseteq Irqs
    /\ pc \in {"idle", "entered", "words", "inner", "clear", "lookup", "lock", "call",
               "handler", "recheck"}
    /\ {l1i, last1} \subseteq PortWords \cup {Bits - 1}
    /\ {l2i, last2} \subseteq {Bit(p) : p \in Ports} \cup {Bits - 1}
    /\ port \in Ports \cup {0} /\ irq \in Irqs \cup {-1} /\ running \in Drivers \cup {None}
    /\ pc \in {"clear", "lookup", "lock", "call", "handler"} => port \in Ports
    /\ pc \in {"lock", "call", "handler"} => irq \in Irqs
    /\ dpc \in [Drivers -> {"unbound", "allocated", "unmask", "bound", "clear", "spin"}]
    /\ dirq \in [Drivers -> Irqs \cup {0}]
    /\ resumes \in Nat

(* A handler only runs for a driver that has bound it and whose call of    *)
(* unbind_from_irqhandler has not returned, though the interrupt handler   *)
(* uses what it read of a slot after it has left the lock.                 *)
NoCallAfterUnbind ==
    pc = "handler" => running \in Drivers /\ dpc[running] \notin {"unbound", "allocated"}

(* No event is lost: one for a handler that is bound is being delivered,   *)
(* has its selector bit set, or is before the interrupt handler, and the   *)
(* upcall flag shows every selector bit.                                   *)
NoEventLost ==
    /\ Types
    /\ \A p \in owed :
          \/ p \in pending
          \/ p = port /\ pc \in {"lookup", "lock"}
    /\ \A p \in pending \ mask :
          \/ Word(p) \in sel
          \/ pc \notin {"idle", "entered"} /\ Word(p) \in l1
    /\ sel # {} => upcall \/ pc = "entered" \/ raising
    /\ \A p \in owed \cap mask : to_irq[p] # -1 /\ dpc[handler[to_irq[p]]] = "unmask"

(* The scan is fair to the ports it has before it, even if some of them    *)
(* never fall silent: an event only waits for ever while a scan goes on    *)
(* for ever that began before the port's word had one.                     *)
Served ==
    \A p \in Ports : <>[](p \in owed) => <>[](l1 # {} /\ Word(p) \notin l1)
=============================================================================
