------------------------------- MODULE NetRx --------------------------------
(***************************************************************************)
(* The receive path of xen-vnif/3.12.49/netfront.c: the buffers posted on  *)
(* the receive ring, netif_int and netif_poll (NAPI) which take the        *)
(* packets, the refill with its adaptive target and its timer, opening and *)
(* closing the interface, and the reconnection after a migration.          *)
(*                                                                         *)
(* netif_poll, network_open and the reconnection hold rx_lock, netif_int   *)
(* holds tx_lock: it runs beside the poll.  The backend shares no lock, so *)
(* a step that runs beside it touches one shared index, except that the    *)
(* refill publishes after it reads rsp_prod.  The backend's own sleep is   *)
(* the matter of module IoRing: here it sees what is published.            *)
(*                                                                         *)
(* A buffer is an sk_buff with its page and its grant reference, which     *)
(* move together; which one it is does not matter.  Packets are passed up  *)
(* within the step that takes them.  The accelerator is absent, and the    *)
(* receiver copies (copying_receiver).                                     *)
(***************************************************************************)
EXTENDS Integers, FiniteSets

CONSTANTS
    Size,        \* NET_RX_RING_SIZE: a power of two, which matters to no step
    Wrap,        \* 2^32: RING_IDX is a 32-bit unsigned int
    MinTarget,   \* rx_min_target
    MaxTarget,   \* rx_max_target
    Weight,      \* the weight netif_napi_add is given: a poll's budget
    OtherCpu,    \* another processor than the poll's takes interrupts and timers
    When,        \* further situations that are allowed: "off", "wrap"
    Mishaps      \* bound: suspends, closes, failed allocations and buffers put back

ASSUME NetRxAssumption ==
    /\ {Size, MinTarget, MaxTarget, Weight} \subseteq Nat \ {0}
    /\ Wrap \in Nat /\ Wrap > Size /\ Wrap % Size = 0
    /\ MinTarget >= 2 /\ MinTarget <= MaxTarget /\ MaxTarget <= Size
    /\ OtherCpu \in BOOLEAN
    /\ Mishaps \in Nat

Idx == 0 .. Wrap - 1

(* RING_IDX arithmetic and xennet_rxidx.                                   *)
Minus(a, b) == (a - b + Wrap) % Wrap
Plus(a, n)  == (a + n) % Wrap
Slot(i)     == i % Size

VARIABLES
    req_prod, rsp_prod, rsp_event,   \* the shared ring
    req_prod_pvt, rsp_cons,          \* the front end's indices
    rx_skbs,     \* the slots that hold a buffer (and a grant_rx_ref)
    rx_batch,    \* the number of buffers waiting to be posted
    rx_target,
    timer,       \* rx_refill_timer is pending
    conn,        \* network_connect: "off", "talked", "requeued", "on" (carrier)
    dev,         \* the interface: "down", "opening", "looking", "up", "closing"
    napi,        \* NAPI_STATE_SCHED: "off" (disabled), "idle", "sched"
    poll,        \* where netif_poll is: [pc, rp, work]
    irq,         \* an event is pending for netif_int
    back,        \* the backend has published responses: [pushed, old]
    mishaps      \* how many of Mishaps have happened

ring  == <<req_prod, rsp_prod, rsp_event>>
bufs  == <<req_prod_pvt, rx_skbs, rx_batch, rx_target, timer>>
vars  == <<ring, rsp_cons, bufs, conn, dev, napi, poll, irq, back, mishaps>>

NoPoll == [pc |-> "none", rp |-> 0, work |-> 0]
Quiet  == [pushed |-> FALSE, old |-> 0]

Outstanding == Minus(req_prod_pvt, rsp_cons)
Unconsumed  == rsp_prod # rsp_cons          \* RING_HAS_UNCONSUMED_RESPONSES

(* rx_lock: netif_poll and network_open hold it over several steps.        *)
Unlocked == poll.pc = "none" /\ dev \notin {"opening", "looking"}

Larger(a, b)  == IF a > b THEN a ELSE b
Smaller(a, b) == IF a < b THEN a ELSE b
-----------------------------------------------------------------------------
(* create_netdev                                                           *)
Init ==
    /\ req_prod = 0 /\ rsp_prod = 0 /\ rsp_event = 1
    /\ req_prod_pvt = 0 /\ rsp_cons = 0
    /\ rx_skbs = {} /\ rx_batch = 0 /\ rx_target = MinTarget
    /\ timer = FALSE
    /\ conn = "off"
    /\ dev = "down" /\ napi = "off" /\ poll = NoPoll
    /\ irq = FALSE /\ back = Quiet
    /\ mishaps = 0
-----------------------------------------------------------------------------
(* network_alloc_rx_buffers, which every caller enters with rx_lock held.   *)

(* refill: post the n buffers of rx_batch, and push.                       *)
Refill(n) ==
    /\ req_prod_pvt' = Plus(req_prod_pvt, n)
    /\ rx_skbs' = rx_skbs \cup {Slot(req_prod_pvt + k) : k \in 0 .. n - 1}
    /\ req_prod' = Plus(req_prod_pvt, n)
    /\ rx_batch' = 0

(* Too few to be worthwhile: push only what the poll put back or           *)
(* network_connect requeued.  The indices themselves are compared.         *)
KeepBatch(n) ==
    /\ rx_batch' = n
    /\ req_prod' = Larger(req_prod_pvt, req_prod)
    /\ UNCHANGED <<req_prod_pvt, rx_skbs, rx_target>>

(* Mutant: no timer for an allocation that failed.                         *)
AllocFailsForGood ==
    \E n \in rx_batch .. rx_target - Outstanding - 1 :
        /\ mishaps < Mishaps
        /\ mishaps' = mishaps + 1
        /\ UNCHANGED timer
        /\ IF n # 0 THEN Refill(n) /\ UNCHANGED rx_target ELSE KeepBatch(n)

(* An allocation fails when n buffers wait: try again later, and force     *)
(* those out.                                                              *)
AllocFails ==
    \E n \in rx_batch .. rx_target - Outstanding - 1 :
        /\ mishaps < Mishaps
        /\ mishaps' = mishaps + 1
        /\ timer' = TRUE
        /\ IF n # 0 THEN Refill(n) /\ UNCHANGED rx_target ELSE KeepBatch(n)

(* All buffers up to rx_target are there; the target doubles when the      *)
(* backend was about to run out.                                           *)
AllocSucceeds ==
    LET n == Larger(rx_batch, rx_target - Outstanding) IN
    /\ UNCHANGED <<timer, mishaps>>
    /\ IF n < rx_target \div 2
       THEN KeepBatch(n)
       ELSE /\ Refill(n)
            /\ rx_target' = IF Minus(req_prod_pvt, rsp_prod) < rx_target \div 4
                            THEN Smaller(2 * rx_target, MaxTarget)
                            ELSE rx_target

AllocRxBuffers == AllocFails \/ AllocSucceeds

(* napi_schedule does nothing for a NAPI that is scheduled, disabled, or   *)
(* about to be (napi_disable_pending).                                     *)
Scheduled == IF napi = "idle" /\ dev # "closing" THEN "sched" ELSE napi
-----------------------------------------------------------------------------
(* netif_int and the timer.  On the poll's own processor the interrupt     *)
(* comes between any two of its steps but those with interrupts off, and   *)
(* the timer when it has returned.                                         *)
IrqsOff == poll.pc \in {"check", "ask", "recheck", "complete"}

Interrupt ==
    /\ irq /\ conn # "requeued"
    /\ OtherCpu \/ ~IrqsOff
    /\ irq' = FALSE
    /\ napi' = IF conn = "on" /\ Unconsumed THEN Scheduled ELSE napi
    /\ UNCHANGED <<ring, rsp_cons, bufs, conn, dev, poll, back, mishaps>>

(* rx_refill_timeout                                                       *)
RefillTimeout ==
    /\ timer
    /\ OtherCpu \/ poll.pc = "none"
    /\ timer' = FALSE
    /\ napi' = Scheduled
    /\ UNCHANGED <<ring, rsp_cons, req_prod_pvt, rx_skbs, rx_batch, rx_target,
                   conn, dev, poll, irq, back, mishaps>>
-----------------------------------------------------------------------------
(* netif_poll.  Without a carrier it returns at once, and stays scheduled: *)
(* such a poll changes nothing.                                            *)
PollEnters ==
    /\ napi = "sched" /\ poll.pc = "none" /\ Unlocked /\ conn = "on"
    /\ poll' = [pc |-> "packets", rp |-> rsp_prod, work |-> 0]
    /\ UNCHANGED <<ring, rsp_cons, bufs, conn, dev, napi, irq, back, mishaps>>

(* xennet_move_rx_slot, for m of the n buffers taken.                      *)
TakeAndPutBack(n, m) ==
    /\ rx_skbs' = (rx_skbs \ {Slot(rsp_cons + k) : k \in 0 .. n - 1})
                      \cup {Slot(req_prod_pvt + k) : k \in 0 .. m - 1}
    /\ req_prod_pvt' = Plus(req_prod_pvt, m)

(* A packet of n responses.  The buffers of m of them, which bring extra   *)
(* information or an error, are put back; a packet with an error is not    *)
(* counted as work.                                                        *)
PollPacket ==
    /\ poll.pc = "packets" /\ rsp_cons # poll.rp /\ poll.work < Weight
    /\ \E n \in 1 .. Minus(poll.rp, rsp_cons), counted \in BOOLEAN :
       \E m \in 0 .. n :
        /\ mishaps + m <= Mishaps
        /\ m > 0 => req_prod_pvt + m < Wrap \/ "wrap" \in When
        /\ TakeAndPutBack(n, m)
        /\ rsp_cons' = Plus(rsp_cons, n)
        /\ poll' = [poll EXCEPT !.work = IF counted THEN @ + 1 ELSE @]
        /\ mishaps' = mishaps + m
    /\ UNCHANGED <<ring, rx_batch, rx_target, timer, conn, dev, napi, irq, back>>

(* Exponential increase, linear decrease.                                  *)
Reduced(target) == Larger(target - 1, MinTarget)

(* The packets are passed up (one whose checksum cannot be set up is not   *)
(* counted after all); after few responses the fill target is reduced.     *)
PollAdjusts ==
    /\ poll.pc = "packets" /\ (rsp_cons = poll.rp \/ poll.work = Weight)
    /\ rx_target' = IF Minus(req_prod_pvt, rsp_prod) > (3 * rx_target) \div 4
                    THEN Reduced(rx_target) ELSE rx_target
    /\ \E w \in 0 .. poll.work : poll' = [pc |-> "refill", rp |-> 0, work |-> w]
    /\ UNCHANGED <<ring, rsp_cons, req_prod_pvt, rx_skbs, rx_batch, timer, conn,
                   dev, napi, irq, back, mishaps>>

(* Refill.  With the budget used up the poll returns and stays scheduled,  *)
(* or net_rx_action completes it for a napi_disable that waits.            *)
PollRefills ==
    /\ poll.pc = "refill"
    /\ AllocRxBuffers
    /\ poll' = IF poll.work < Weight THEN [NoPoll EXCEPT !.pc = "check"] ELSE NoPoll
    /\ napi' = IF poll.work = Weight /\ dev = "closing" THEN "idle" ELSE "sched"
    /\ UNCHANGED <<rsp_prod, rsp_event, rsp_cons, conn, dev, irq, back>>

(* RING_FINAL_CHECK_FOR_RESPONSES: look, ask for an event, look again.     *)
PollChecks ==
    /\ poll.pc = "check"
    /\ poll' = IF Unconsumed THEN NoPoll ELSE [poll EXCEPT !.pc = "ask"]
    /\ UNCHANGED <<ring, rsp_cons, bufs, conn, dev, napi, irq, back, mishaps>>

PollAsks ==
    /\ poll.pc = "ask"
    /\ rsp_event' = Plus(rsp_cons, 1)
    /\ poll' = [poll EXCEPT !.pc = "recheck"]
    /\ UNCHANGED <<req_prod, rsp_prod, rsp_cons, bufs, conn, dev, napi, irq, back, mishaps>>

(* Mutant: no second look.                                                 *)
PollRechecksNot ==
    /\ poll.pc = "recheck"
    /\ poll' = [poll EXCEPT !.pc = "complete"]
    /\ UNCHANGED <<ring, rsp_cons, bufs, conn, dev, napi, irq, back, mishaps>>

PollRechecks ==
    /\ poll.pc = "recheck"
    /\ poll' = IF Unconsumed THEN NoPoll ELSE [poll EXCEPT !.pc = "complete"]
    /\ UNCHANGED <<ring, rsp_cons, bufs, conn, dev, napi, irq, back, mishaps>>

(* __napi_complete                                                         *)
PollCompletes ==
    /\ poll.pc = "complete"
    /\ napi' = "idle"
    /\ poll' = NoPoll
    /\ UNCHANGED <<ring, rsp_cons, bufs, conn, dev, irq, back, mishaps>>
-----------------------------------------------------------------------------
(* network_open: enable NAPI and, with a carrier, refill, ...              *)
Open ==
    /\ dev = "down" /\ conn # "requeued"
    /\ napi' = "idle"
    /\ \/ conn = "on" /\ AllocRxBuffers /\ dev' = "opening"
       \/ conn # "on" /\ dev' = "up" /\ UNCHANGED <<req_prod, bufs, mishaps>>
    /\ UNCHANGED <<rsp_prod, rsp_event, rsp_cons, conn, poll, irq, back>>

(* ... ask for an event ...                                                *)
OpenAsks ==
    /\ dev = "opening"
    /\ rsp_event' = Plus(rsp_cons, 1)
    /\ dev' = "looking"
    /\ UNCHANGED <<req_prod, rsp_prod, rsp_cons, bufs, conn, napi, poll, irq, back, mishaps>>

(* ... and look.                                                           *)
OpenLooks ==
    /\ dev = "looking"
    /\ napi' = IF Unconsumed THEN Scheduled ELSE napi
    /\ dev' = "up"
    /\ UNCHANGED <<ring, rsp_cons, bufs, conn, poll, irq, back, mishaps>>

(* network_close: napi_disable waits, under rtnl_lock, for NAPI to be idle.*)
Close ==
    /\ dev = "up" /\ mishaps < Mishaps
    /\ conn = "on" \/ "off" \in When
    /\ dev' = "closing"
    /\ mishaps' = mishaps + 1
    /\ UNCHANGED <<ring, rsp_cons, bufs, conn, napi, poll, irq, back>>

CloseEnds ==
    /\ dev = "closing" /\ napi = "idle"
    /\ napi' = "off"
    /\ dev' = "down"
    /\ UNCHANGED <<ring, rsp_cons, bufs, conn, poll, irq, back, mishaps>>
-----------------------------------------------------------------------------
(* netfront_resume: netif_disconnect_backend.  The old backend is gone.    *)
Resume ==
    /\ conn # "requeued" /\ mishaps < Mishaps
    /\ Unlocked
    /\ dev # "closing" \/ "off" \in When
    /\ conn' = "off"
    /\ irq' = FALSE
    /\ back' = Quiet
    /\ mishaps' = mishaps + 1
    /\ UNCHANGED <<ring, rsp_cons, bufs, dev, napi, poll>>

(* network_connect, called when the backend is in InitWait: setup_device   *)
(* makes new rings, ...                                                    *)
Talk ==
    /\ conn = "off"
    /\ req_prod' = 0 /\ rsp_prod' = 0 /\ rsp_event' = 1
    /\ req_prod_pvt' = 0 /\ rsp_cons' = 0
    /\ conn' = "talked"
    /\ UNCHANGED <<rx_skbs, rx_batch, rx_target, timer, dev, napi, poll, irq, back, mishaps>>

(* Mutant: the buffers stay in their slots.                                *)
RequeueInPlace ==
    /\ conn = "talked" /\ dev # "closing" /\ Unlocked
    /\ req_prod_pvt' = Cardinality(rx_skbs)
    /\ conn' = "requeued"
    /\ UNCHANGED <<ring, rsp_cons, rx_skbs, rx_batch, rx_target, timer, dev, napi, poll,
                   irq, back, mishaps>>

(* ... netdev_update_features needs rtnl_lock, which a close holds; the    *)
(* buffers are moved to the first slots, ...                               *)
Requeue ==
    /\ conn = "talked" /\ dev # "closing" /\ Unlocked
    /\ rx_skbs' = 0 .. Cardinality(rx_skbs) - 1
    /\ req_prod_pvt' = Cardinality(rx_skbs)
    /\ conn' = "requeued"
    /\ UNCHANGED <<ring, rsp_cons, rx_batch, rx_target, timer, dev, napi, poll,
                   irq, back, mishaps>>

(* ... the carrier is on, and the ring is refilled.                        *)
Connect ==
    /\ conn = "requeued"
    /\ AllocRxBuffers
    /\ conn' = "on"
    /\ UNCHANGED <<rsp_prod, rsp_event, rsp_cons, dev, napi, poll, irq, back>>
-----------------------------------------------------------------------------
(* The backend fills buffers and publishes the responses, then notifies if *)
(* rsp_event says so.  A transmit response interrupts as well.             *)
Respond ==
    /\ conn = "on" /\ ~back.pushed
    /\ \E n \in 1 .. Minus(req_prod, rsp_prod) : rsp_prod' = Plus(rsp_prod, n)
    /\ back' = [pushed |-> TRUE, old |-> rsp_prod]
    /\ UNCHANGED <<req_prod, rsp_event, rsp_cons, bufs, conn, dev, napi, poll, irq, mishaps>>

Notify ==
    /\ back.pushed
    /\ irq' = (irq \/ Minus(rsp_prod, rsp_event) < Minus(rsp_prod, back.old))
    /\ back' = Quiet
    /\ UNCHANGED <<ring, rsp_cons, bufs, conn, dev, napi, poll, mishaps>>
-----------------------------------------------------------------------------
PollStep == PollEnters \/ PollPacket \/ PollAdjusts \/ PollRefills \/ PollChecks
            \/ PollAsks \/ PollRechecks \/ PollCompletes
OpenStep == OpenAsks \/ OpenLooks
ConnStep == Talk \/ Requeue \/ Connect

Next == PollStep \/ OpenStep \/ ConnStep \/ Interrupt \/ RefillTimeout
        \/ Open \/ Close \/ CloseEnds \/ Resume \/ Respond \/ Notify

Spec == Init /\ [][Next]_vars
-----------------------------------------------------------------------------
Types ==
    /\ {req_prod, rsp_prod, rsp_event, req_prod_pvt, rsp_cons, poll.rp, back.old} \subseteq Idx
    /\ rx_skbs \subseteq 0 .. Size - 1
    /\ rx_batch \in 0 .. MaxTarget
    /\ rx_target \in MinTarget .. MaxTarget
    /\ timer \in BOOLEAN /\ irq \in BOOLEAN
    /\ conn \in {"off", "talked", "requeued", "on"}
    /\ dev \in {"down", "opening", "looking", "up", "closing"}
    /\ napi \in {"off", "idle", "sched"}
    /\ poll \in [pc : {"none", "packets", "refill", "check", "ask", "recheck", "complete"},
                 rp : Idx, work : 0 .. Weight]
    /\ back \in [pushed : BOOLEAN, old : Idx]
    /\ mishaps \in 0 .. Mishaps

(* Every response finds its buffer and every new buffer an empty slot      *)
(* (the BUG_ONs of network_alloc_rx_buffers and xennet_move_rx_slot): the  *)
(* buffers are exactly in the slots from rsp_cons to req_prod_pvt, across  *)
(* the wrap, buffers put back, and the requeueing after a migration.       *)
BuffersInWindow ==
    /\ Types
    /\ conn # "off" /\ conn # "talked" =>
        /\ rx_skbs = {Slot(rsp_cons + k) : k \in 0 .. Outstanding - 1}
        /\ Cardinality(rx_skbs) = Outstanding
        /\ Outstanding + rx_batch <= MaxTarget

(* No packet is forgotten: while the interface is up, responses on the     *)
(* ring are known to a poll, an interrupt, or a backend about to notify.   *)
ResponsesSeen ==
    dev = "up" /\ conn = "on" /\ Unconsumed /\ ~IrqsOff
        => napi = "sched" \/ irq \/ back.pushed

(* A backend without buffers gets new ones: once it has used up all that   *)
(* were posted, a poll is scheduled or running, or the interrupt, the      *)
(* notification or the timer that schedules it is to come.                 *)
StarvedIsWatched ==
    dev = "up" /\ conn = "on" /\ req_prod = rsp_prod
        => napi = "sched" \/ irq \/ back.pushed \/ timer

(* napi_disable and network_connect do not wait for each other: a close    *)
(* holds rtnl_lock until the poll completes, which needs the carrier, and  *)
(* Requeue needs rtnl_lock.  (No run checks it: see "off" in When.)        *)
CloseNotStuck == ~(dev = "closing" /\ napi = "sched" /\ conn = "talked")
=============================================================================
