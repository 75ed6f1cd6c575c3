------------------------------- MODULE NetTx --------------------------------
(***************************************************************************)
(* The transmit path of xen-vnif/3.12.49/netfront.c: network_start_xmit    *)
(* puts a packet on the ring and stops the queue when the next one might   *)
(* not fit, network_tx_buf_gc frees what the backend has sent, asks for an *)
(* interrupt when half of the rest will be, and wakes the queue; closing,  *)
(* opening, and the reconnection after a migration, which drops what was   *)
(* on the ring.                                                            *)
(*                                                                         *)
(* All of it runs under tx_lock, beside the backend, which shares no lock: *)
(* a step touches one shared index.  An entry of tx_skbs is an sk_buff     *)
(* with its grant reference, which are taken and given back together.      *)
(***************************************************************************)
EXTENDS Integers, FiniteSets, SequencesExt

CONSTANTS
    Size,       \* NET_TX_RING_SIZE, which is also TX_MAX_TARGET
    Wrap,       \* 2^32: RING_IDX is a 32-bit unsigned int
    MaxSlots,   \* MAX_SKB_FRAGS + 2, the most slots a packet takes
    When,       \* further situations that are allowed: "full"
    Migrations  \* bound: suspends

ASSUME NetTxAssumption ==
    /\ {Size, Wrap, MaxSlots, Migrations} \subseteq Nat
    /\ Wrap > Size /\ Wrap % Size = 0
    /\ MaxSlots >= 2 /\ MaxSlots < Size

Idx == 0 .. Wrap - 1
Ids == 1 .. Size

(* RING_IDX arithmetic.                                                     *)
Minus(a, b) == (a - b + Wrap) % Wrap
Plus(a, n)  == (a + n) % Wrap
Slot(i)     == i % Size

VARIABLES
    req_prod, rsp_prod, rsp_event,   \* the shared ring's indices
    ring,      \* the id a slot's request or response names; 0: extra information
    rsp_cons,
    tx_skbs,   \* the ids that hold a packet; the others are on the freelist
    stopped,   \* netif_queue_stopped
    up,        \* netif_running
    conn,      \* network_connect: "off", "talked", "on" (carrier)
    lock,      \* who holds tx_lock: "free", "xmit", "int", "connect"
    gc,        \* where its network_tx_buf_gc is: [pc, prod]
    irq,       \* an event is pending for netif_int
    back,      \* the backend: responses written up to pvt; published, not notified
    migrations \* how many of Migrations have happened

shared == <<req_prod, rsp_prod, rsp_event, ring>>
vars   == <<shared, rsp_cons, tx_skbs, stopped, up, conn, lock, gc, irq, back, migrations>>

NoGc   == [pc |-> "none", prod |-> 0]
Quiet  == [pvt |-> 0, pushed |-> FALSE, old |-> 0]

Outstanding == Minus(req_prod, rsp_cons)

(* Mutant: only the next packet's head has to fit.                         *)
SlotAvailableTight == Outstanding < Size

(* netfront_tx_slot_available                                              *)
SlotAvailable == Outstanding < Size - MaxSlots
-----------------------------------------------------------------------------
(* create_netdev                                                           *)
Init ==
    /\ req_prod = 0 /\ rsp_prod = 0 /\ rsp_event = 1
    /\ ring = [s \in 0 .. Size - 1 |-> 0]
    /\ rsp_cons = 0
    /\ tx_skbs = {}
    /\ stopped = TRUE /\ up = FALSE /\ conn = "off"
    /\ lock = "free" /\ gc = NoGc
    /\ irq = FALSE /\ back = Quiet
    /\ migrations = 0
-----------------------------------------------------------------------------
(* network_start_xmit: a packet takes one slot for its head, one for every *)
(* further page (xennet_make_frags), and one for extra information if it   *)
(* is to be segmented.  Without a carrier it is dropped: nothing changes.  *)
Xmit ==
    /\ up /\ ~stopped /\ lock = "free" /\ conn = "on"
    /\ \E frags \in 0 .. MaxSlots - 1, extra \in 0 .. 1 :
        LET ids == CHOOSE s \in kSubset(frags + 1, Ids \ tx_skbs) : TRUE
            id  == SetToSeq(ids)
            n   == frags + 1 + extra
        IN
        /\ n <= MaxSlots
        /\ tx_skbs' = tx_skbs \cup ids
        /\ ring' = [s \in 0 .. Size - 1 |->
                       LET k == Minus(s, Slot(req_prod)) % Size IN
                       CASE k = 0                    -> id[1]
                         [] k \in 1 .. extra         -> 0
                         [] k \in extra + 1 .. n - 1 -> id[k - extra + 1]
                         [] OTHER                    -> ring[s]]
        /\ req_prod' = Plus(req_prod, n)
    /\ lock' = "xmit" /\ gc' = [NoGc EXCEPT !.pc = "read"]
    /\ UNCHANGED <<rsp_prod, rsp_event, rsp_cons, stopped, up, conn, irq, back, migrations>>

(* netif_int.  (Its look at the receive ring is in module NetRx.)          *)
Interrupt ==
    /\ irq /\ lock = "free"
    /\ irq' = FALSE
    /\ IF conn = "on" THEN lock' = "int" /\ gc' = [NoGc EXCEPT !.pc = "read"]
                      ELSE UNCHANGED <<lock, gc>>
    /\ UNCHANGED <<shared, rsp_cons, tx_skbs, stopped, up, conn, back, migrations>>
-----------------------------------------------------------------------------
(* network_tx_buf_gc, under tx_lock: read rsp_prod, ...                    *)
GcReads ==
    /\ gc.pc = "read"
    /\ gc' = [pc |-> "clean", prod |-> rsp_prod]
    /\ UNCHANGED <<shared, rsp_cons, tx_skbs, stopped, up, conn, lock, irq, back, migrations>>

(* Mutant: only the first response is handled.                             *)
GcCleansFirst ==
    /\ gc.pc = "clean"
    /\ tx_skbs' = IF rsp_cons = gc.prod THEN tx_skbs ELSE tx_skbs \ {ring[Slot(rsp_cons)]}
    /\ rsp_cons' = gc.prod
    /\ gc' = [gc EXCEPT !.pc = "ask"]
    /\ UNCHANGED <<shared, stopped, up, conn, lock, irq, back, migrations>>

(* ... free what the responses up to there name, ...                       *)
GcCleans ==
    /\ gc.pc = "clean"
    /\ tx_skbs' = tx_skbs \ {ring[Slot(rsp_cons + k)] : k \in 0 .. Minus(gc.prod, rsp_cons) - 1}
    /\ rsp_cons' = gc.prod
    /\ gc' = [gc EXCEPT !.pc = "ask"]
    /\ UNCHANGED <<shared, stopped, up, conn, lock, irq, back, migrations>>

(* Mutant: one response too late.                                          *)
HalfwayLate(prod) == Plus(prod, Minus(req_prod, prod) \div 2 + 2)

(* Half of what is pending, rounded up.                                    *)
Halfway(prod) == Plus(prod, Minus(req_prod, prod) \div 2 + 1)

(* ... set a new event ...                                                 *)
GcAsks ==
    /\ gc.pc = "ask"
    /\ rsp_event' = Halfway(gc.prod)
    /\ gc' = [gc EXCEPT !.pc = "look"]
    /\ UNCHANGED <<req_prod, rsp_prod, ring, rsp_cons, tx_skbs, stopped, up, conn,
                   lock, irq, back, migrations>>

(* network_maybe_wake_tx                                                   *)
Woken == IF stopped /\ SlotAvailable /\ up THEN FALSE ELSE stopped

(* ... and look again.  Then the queue may be woken; network_start_xmit    *)
(* stops it if the ring is nearly full.                                    *)
GcLooks ==
    /\ gc.pc = "look"
    /\ \/ /\ gc.prod # rsp_prod
          /\ gc' = [NoGc EXCEPT !.pc = "read"]
          /\ UNCHANGED <<stopped, lock, conn>>
       \/ /\ gc.prod = rsp_prod
          /\ stopped' = (Woken \/ (lock = "xmit" /\ ~SlotAvailable))
          /\ gc' = NoGc /\ lock' = "free"
          /\ conn' = IF lock = "connect" THEN "on" ELSE conn
    /\ UNCHANGED <<shared, rsp_cons, tx_skbs, up, irq, back, migrations>>
-----------------------------------------------------------------------------
(* network_open ends with netif_start_queue, whatever is on the ring.      *)
Open ==
    /\ ~up
    /\ SlotAvailable \/ conn # "on" \/ "full" \in When
    /\ up' = TRUE /\ stopped' = FALSE
    /\ UNCHANGED <<shared, rsp_cons, tx_skbs, conn, lock, gc, irq, back, migrations>>

(* network_close                                                           *)
Close ==
    /\ up /\ lock # "xmit"
    /\ up' = FALSE /\ stopped' = TRUE
    /\ UNCHANGED <<shared, rsp_cons, tx_skbs, conn, lock, gc, irq, back, migrations>>

(* netfront_resume: netif_disconnect_backend.  The old backend is gone.    *)
Resume ==
    /\ lock = "free" /\ migrations < Migrations
    /\ conn' = "off"
    /\ irq' = FALSE /\ back' = Quiet
    /\ migrations' = migrations + 1
    /\ UNCHANGED <<shared, rsp_cons, tx_skbs, stopped, up, lock, gc>>

(* network_connect: setup_device makes a new ring, ...                     *)
Talk ==
    /\ conn = "off"
    /\ req_prod' = 0 /\ rsp_prod' = 0 /\ rsp_event' = 1 /\ rsp_cons' = 0
    /\ ring' = [s \in 0 .. Size - 1 |-> 0]
    /\ conn' = "talked"
    /\ UNCHANGED <<tx_skbs, stopped, up, lock, gc, irq, back, migrations>>

(* Mutant: nothing wakes the queue after a reconnection.                   *)
ConnectQuietly ==
    /\ conn = "talked" /\ lock = "free"
    /\ tx_skbs' = {}
    /\ conn' = "on"
    /\ UNCHANGED <<shared, rsp_cons, stopped, up, lock, gc, irq, back, migrations>>

(* ... and what was pending is discarded (netif_release_tx_bufs) before    *)
(* the carrier is on and the queue is woken by network_tx_buf_gc.          *)
Connect ==
    /\ conn = "talked" /\ lock = "free"
    /\ tx_skbs' = {}
    /\ lock' = "connect" /\ gc' = [NoGc EXCEPT !.pc = "read"]
    /\ UNCHANGED <<shared, rsp_cons, stopped, up, conn, irq, back, migrations>>
-----------------------------------------------------------------------------
(* The backend answers the requests it has taken in any order: a response  *)
(* overwrites the oldest entry, which it has read.  It publishes what it   *)
(* has written, then notifies if rsp_event says so.                        *)
Respond ==
    /\ conn = "on"
    /\ \E k \in 0 .. Minus(req_prod, back.pvt) - 1 :
        ring' = [ring EXCEPT ![Slot(back.pvt)] = ring[Slot(back.pvt + k)],
                             ![Slot(back.pvt + k)] = ring[Slot(back.pvt)]]
    /\ back' = [back EXCEPT !.pvt = Plus(@, 1)]
    /\ UNCHANGED <<req_prod, rsp_prod, rsp_event, rsp_cons, tx_skbs, stopped, up, conn,
                   lock, gc, irq, migrations>>

Publish ==
    /\ conn = "on" /\ ~back.pushed /\ rsp_prod # back.pvt
    /\ rsp_prod' = back.pvt
    /\ back' = [back EXCEPT !.pushed = TRUE, !.old = rsp_prod]
    /\ UNCHANGED <<req_prod, rsp_event, ring, rsp_cons, tx_skbs, stopped, up, conn,
                   lock, gc, irq, migrations>>

Notify ==
    /\ back.pushed
    /\ irq' = (irq \/ Minus(rsp_prod, rsp_event) < Minus(rsp_prod, back.old))
    /\ back' = [back EXCEPT !.pushed = FALSE, !.old = 0]
    /\ UNCHANGED <<shared, rsp_cons, tx_skbs, stopped, up, conn, lock, gc, migrations>>
-----------------------------------------------------------------------------
GcStep   == GcReads \/ GcCleans \/ GcAsks \/ GcLooks
ConnStep == Talk \/ Connect
BackStep == Respond \/ Publish \/ Notify

Next == Xmit \/ Interrupt \/ GcStep \/ Open \/ Close \/ Resume \/ ConnStep \/ BackStep

Spec == Init /\ [][Next]_vars

(* Interrupts are served, what holds the lock goes on, the reconnection    *)
(* takes place, and the backend sends what is on the ring, publishes it    *)
(* and notifies.  Nobody has to send, open or close.                       *)
FairSpec == Spec /\ WF_vars(GcStep) /\ WF_vars(Interrupt) /\ WF_vars(ConnStep)
                 /\ WF_vars(Respond) /\ WF_vars(Publish) /\ WF_vars(Notify)
-----------------------------------------------------------------------------
Types ==
    /\ {req_prod, rsp_prod, rsp_event, rsp_cons} \subseteq Idx
    /\ ring \in [0 .. Size - 1 -> {0} \cup Ids]
    /\ tx_skbs \subseteq Ids
    /\ stopped \in BOOLEAN /\ up \in BOOLEAN /\ irq \in BOOLEAN
    /\ conn \in {"off", "talked", "on"}
    /\ lock \in {"free", "xmit", "int", "connect"}
    /\ gc \in [pc : {"none", "read", "clean", "ask", "look"}, prod : Idx]
    /\ back \in [pvt : Idx, pushed : BOOLEAN, old : Idx]
    /\ migrations \in 0 .. Migrations

Window == {Slot(rsp_cons + k) : k \in 0 .. Outstanding - 1}

(* No packet is lost, freed twice or sent twice: the ids in use are each   *)
(* named by exactly one request or unhandled response, whatever order the  *)
(* backend answers in, and after a migration.                              *)
EachOnRingOnce ==
    /\ Types
    /\ conn = "on" =>
        /\ \A id \in tx_skbs : Cardinality({s \in Window : ring[s] = id}) = 1
        /\ \A s \in Window : ring[s] = 0 \/ ring[s] \in tx_skbs

(* Whenever the network stack may hand over a packet, the largest one fits *)
(* the ring, the freelist and the grant references (the BUG_ONs on claims).*)
RoomForPacket ==
    up /\ ~stopped /\ lock = "free" /\ conn = "on" =>
        /\ Outstanding + MaxSlots <= Size
        /\ Cardinality(Ids \ tx_skbs) >= MaxSlots

(* What the backend has sent is freed: if all requests are answered, and   *)
(* some not handled, an interrupt or the notification is to come.  Higher  *)
(* layers may wait for just that.                                          *)
AnsweredIsCollected ==
    lock = "free" /\ conn = "on" /\ rsp_prod = req_prod /\ rsp_cons # rsp_prod
        => irq \/ back.pushed

(* A stopped queue starts again, if the interface stays up.                *)
QueueStarts == (up /\ stopped) ~> (~up \/ ~stopped)
=============================================================================
