------------------------------- MODULE IoRing -------------------------------
(***************************************************************************)
(* The shared ring between a front end and its backend,                    *)
(* include/xen/interface/io/ring.h, as xen-vbd's blkfront.c drives the     *)
(* front side: do_blkif_request fills and flushes, blkif_int takes the     *)
(* responses, both under info->io_lock, so that one of them runs at a      *)
(* time.  The backend uses the BACK macros of the same header.             *)
(*                                                                         *)
(* The two domains share no lock.  A step is one access to a shared index  *)
(* or event field together with the private work before it; the barriers   *)
(* of the macros are what makes such steps take effect in program order.   *)
(***************************************************************************)
EXTENDS Integers

CONSTANTS
    Size,   \* RING_SIZE, a power of two
    Wrap    \* 2^32: RING_IDX is a 32-bit unsigned int

(* Indices are masked with Size - 1 only when the ring is accessed, so     *)
(* Size has to divide Wrap.                                                *)
ASSUME RingAssumption ==
    /\ Size \in Nat \ {0}
    /\ Wrap \in Nat
    /\ Wrap > 2 * Size
    /\ Wrap % Size = 0

Idx == 0 .. Wrap - 1

(* RING_IDX arithmetic: a - b, a + 1 and a comparison of distances.        *)
Minus(a, b) == IF a >= b THEN a - b ELSE a - b + Wrap
Succ(a)     == IF a + 1 = Wrap THEN 0 ELSE a + 1

VARIABLES
    req_prod, rsp_prod, req_event, rsp_event,   \* the shared header
    ring,                                       \* the shared entries
    req_prod_pvt, rsp_cons,                     \* the front's own indices
    rsp_prod_pvt, req_cons,                     \* the back's own indices
    front,      \* where the front end is: [pc, old, rp]
    back,       \* where the backend's request loop is
    resp,       \* where the backend's response side is: [pc, old]
    irq,        \* an event is pending for the front end
    kick        \* an event is pending for the backend

header == <<req_prod, rsp_prod, req_event, rsp_event, ring>>
fvars  == <<req_prod_pvt, rsp_cons, front>>
bvars  == <<rsp_prod_pvt, req_cons, back, resp>>
vars   == <<header, fvars, bvars, irq, kick>>

FrontPc == {"idle", "fill", "pushed", "again", "handle", "check", "ask",
            "recheck"}
BackPc  == {"asleep", "work", "ask", "recheck"}

(* An entry records what was last written to it, and for which index.      *)
Entry == [kind : {"req", "rsp"}, at : Idx]

Slot(i) == i % Size
-----------------------------------------------------------------------------
(* SHARED_RING_INIT, FRONT_RING_INIT and BACK_RING_INIT                    *)
Init ==
    /\ req_prod = 0 /\ rsp_prod = 0
    /\ req_event = 1 /\ rsp_event = 1
    /\ ring = [s \in 0 .. Size - 1 |-> [kind |-> "rsp", at |-> 0]]
    /\ req_prod_pvt = 0 /\ rsp_cons = 0
    /\ rsp_prod_pvt = 0 /\ req_cons = 0
    /\ front = [pc |-> "idle", old |-> 0, rp |-> 0]
    /\ back = "asleep"
    /\ resp = [pc |-> "idle", old |-> 0]
    /\ irq = FALSE
    /\ kick = FALSE
-----------------------------------------------------------------------------
(* The front end.                                                          *)

(* Mutant: one slot too many.                                              *)
RingFullLate == Minus(req_prod_pvt, rsp_cons) > Size

(* RING_FULL                                                               *)
RingFull == Minus(req_prod_pvt, rsp_cons) >= Size

(* One request of do_blkif_request's loop: RING_GET_REQUEST and            *)
(* req_prod_pvt++.                                                         *)
PutRequest ==
    /\ front.pc \in {"idle", "fill"}
    /\ ~RingFull
    /\ ring' = [ring EXCEPT ![Slot(req_prod_pvt)] = [kind |-> "req", at |-> req_prod_pvt]]
    /\ req_prod_pvt' = Succ(req_prod_pvt)
    /\ front' = [front EXCEPT !.pc = "fill"]
    /\ UNCHANGED <<req_prod, rsp_prod, req_event, rsp_event, rsp_cons, bvars, irq, kick>>

(* Mutant: the old producer index is read after the new one is published.  *)
PushRequestsLateOld ==
    /\ front.pc = "fill"
    /\ front' = [front EXCEPT !.pc = "pushed", !.old = req_prod_pvt]
    /\ req_prod' = req_prod_pvt
    /\ UNCHANGED <<rsp_prod, req_event, rsp_event, ring, req_prod_pvt, rsp_cons,
                   bvars, irq, kick>>

(* RING_PUSH_REQUESTS_AND_CHECK_NOTIFY: publish, ...                       *)
PushRequests ==
    /\ front.pc = "fill"
    /\ front' = [front EXCEPT !.pc = "pushed", !.old = req_prod]
    /\ req_prod' = req_prod_pvt
    /\ UNCHANGED <<rsp_prod, req_event, rsp_event, ring, req_prod_pvt, rsp_cons,
                   bvars, irq, kick>>

(* ... then look whether the backend asked for a notification.             *)
NotifyBackend ==
    /\ front.pc = "pushed"
    /\ kick' = (kick \/ Minus(req_prod_pvt, req_event) < Minus(req_prod_pvt, front.old))
    /\ front' = [front EXCEPT !.pc = "idle", !.old = 0]
    /\ UNCHANGED <<header, req_prod_pvt, rsp_cons, bvars, irq>>

(* blkif_int is called, or goes "again": read rsp_prod.                    *)
Interrupt ==
    /\ \/ front.pc = "idle" /\ irq /\ irq' = FALSE
       \/ front.pc = "again" /\ UNCHANGED irq
    /\ front' = [front EXCEPT !.pc = "handle", !.rp = rsp_prod]
    /\ UNCHANGED <<header, req_prod_pvt, rsp_cons, bvars, kick>>

(* Complete the responses up to rp.  With no request outstanding, set      *)
(* rsp_event and be done; otherwise a final check follows.                 *)
HandleResponses ==
    /\ front.pc = "handle"
    /\ rsp_cons' = front.rp
    /\ \/ /\ front.rp # req_prod_pvt
          /\ front' = [front EXCEPT !.pc = "check", !.rp = 0]
          /\ UNCHANGED rsp_event
       \/ /\ front.rp = req_prod_pvt
          /\ rsp_event' = Succ(front.rp)
          /\ front' = [front EXCEPT !.pc = "idle", !.rp = 0]
    /\ UNCHANGED <<req_prod, rsp_prod, req_event, ring, req_prod_pvt, bvars, irq, kick>>

(* RING_FINAL_CHECK_FOR_RESPONSES: look, ...                               *)
CheckResponses ==
    /\ front.pc = "check"
    /\ front' = [front EXCEPT !.pc = IF rsp_prod # rsp_cons THEN "again" ELSE "ask"]
    /\ UNCHANGED <<header, req_prod_pvt, rsp_cons, bvars, irq, kick>>

(* ... ask for an event, ...                                               *)
AskForResponses ==
    /\ front.pc = "ask"
    /\ rsp_event' = Succ(rsp_cons)
    /\ front' = [front EXCEPT !.pc = "recheck"]
    /\ UNCHANGED <<req_prod, rsp_prod, req_event, ring, req_prod_pvt, rsp_cons,
                   bvars, irq, kick>>

(* ... and look again before the handler returns.                          *)
RecheckResponses ==
    /\ front.pc = "recheck"
    /\ front' = [front EXCEPT !.pc = IF rsp_prod # rsp_cons THEN "again" ELSE "idle"]
    /\ UNCHANGED <<header, req_prod_pvt, rsp_cons, bvars, irq, kick>>
-----------------------------------------------------------------------------
(* The backend: a loop that takes requests, and a response side that runs  *)
(* when I/O completes.                                                     *)

(* RING_HAS_UNCONSUMED_REQUESTS                                            *)
HasRequests ==
    /\ req_prod # req_cons
    /\ Minus(req_cons, rsp_prod_pvt) < Size

BackendWakes ==
    /\ back = "asleep" /\ kick
    /\ kick' = FALSE
    /\ back' = "work"
    /\ UNCHANGED <<header, fvars, rsp_prod_pvt, req_cons, resp, irq>>

TakeRequest ==
    /\ back = "work" /\ HasRequests
    /\ req_cons' = Succ(req_cons)
    /\ UNCHANGED <<header, fvars, rsp_prod_pvt, back, resp, irq, kick>>

(* RING_FINAL_CHECK_FOR_REQUESTS: look, ...                                *)
CheckRequests ==
    /\ back = "work" /\ ~HasRequests
    /\ back' = "ask"
    /\ UNCHANGED <<header, fvars, rsp_prod_pvt, req_cons, resp, irq, kick>>

(* Mutant: ask for an event one request too early.                         *)
AskForRequestsEarly ==
    /\ back = "ask"
    /\ req_event' = req_cons
    /\ back' = "recheck"
    /\ UNCHANGED <<req_prod, rsp_prod, rsp_event, ring, fvars, rsp_prod_pvt,
                   req_cons, resp, irq, kick>>

(* ... ask for an event, ...                                               *)
AskForRequests ==
    /\ back = "ask"
    /\ req_event' = Succ(req_cons)
    /\ back' = "recheck"
    /\ UNCHANGED <<req_prod, rsp_prod, rsp_event, ring, fvars, rsp_prod_pvt,
                   req_cons, resp, irq, kick>>

(* ... and look again before sleeping.                                     *)
RecheckRequests ==
    /\ back = "recheck"
    /\ back' = IF HasRequests THEN "work" ELSE "asleep"
    /\ UNCHANGED <<header, fvars, rsp_prod_pvt, req_cons, resp, irq, kick>>

(* A response goes where a request was taken from: RING_GET_RESPONSE.      *)
PutResponse ==
    /\ resp.pc = "idle"
    /\ rsp_prod_pvt # req_cons
    /\ ring' = [ring EXCEPT ![Slot(rsp_prod_pvt)] = [kind |-> "rsp", at |-> rsp_prod_pvt]]
    /\ rsp_prod_pvt' = Succ(rsp_prod_pvt)
    /\ UNCHANGED <<req_prod, rsp_prod, req_event, rsp_event, fvars, req_cons,
                   back, resp, irq, kick>>

(* RING_PUSH_RESPONSES_AND_CHECK_NOTIFY                                    *)
PushResponses ==
    /\ resp.pc = "idle"
    /\ rsp_prod # rsp_prod_pvt
    /\ rsp_prod' = rsp_prod_pvt
    /\ resp' = [pc |-> "pushed", old |-> rsp_prod]
    /\ UNCHANGED <<req_prod, req_event, rsp_event, ring, fvars, rsp_prod_pvt,
                   req_cons, back, irq, kick>>

NotifyFrontend ==
    /\ resp.pc = "pushed"
    /\ irq' = (irq \/ Minus(rsp_prod, rsp_event) < Minus(rsp_prod, resp.old))
    /\ resp' = [pc |-> "idle", old |-> 0]
    /\ UNCHANGED <<header, fvars, rsp_prod_pvt, req_cons, back, kick>>
-----------------------------------------------------------------------------
FrontStep == PushRequests \/ NotifyBackend \/ Interrupt \/ HandleResponses
             \/ CheckResponses \/ AskForResponses \/ RecheckResponses
BackLoop  == BackendWakes \/ TakeRequest \/ CheckRequests \/ AskForRequests
             \/ RecheckRequests
Respond   == PutResponse \/ PushResponses \/ NotifyFrontend

Next == PutRequest \/ FrontStep \/ BackLoop \/ Respond

Spec == Init /\ [][Next]_vars

(* The event channel interrupts the front end, whose handler and flushes   *)
(* run to their end; the backend serves the ring it is woken for.  Nobody  *)
(* has to send requests.                                                   *)
FairSpec == Spec /\ WF_vars(FrontStep) /\ WF_vars(BackLoop)
                 /\ WF_vars(PutResponse) /\ WF_vars(PushResponses \/ NotifyFrontend)
-----------------------------------------------------------------------------
Types ==
    /\ req_prod \in Idx /\ rsp_prod \in Idx
    /\ req_event \in Idx /\ rsp_event \in Idx
    /\ req_prod_pvt \in Idx /\ rsp_cons \in Idx
    /\ rsp_prod_pvt \in Idx /\ req_cons \in Idx
    /\ ring \in [0 .. Size - 1 -> Entry]
    /\ front \in [pc : FrontPc, old : Idx, rp : Idx]
    /\ back \in BackPc
    /\ resp \in [pc : {"idle", "pushed"}, old : Idx]
    /\ irq \in BOOLEAN
    /\ kick \in BOOLEAN

(* The distance of an index from the first response not yet taken.         *)
Ahead(i) == Minus(i, rsp_cons)

(* Responses follow the requests they answer and the ring is never         *)
(* overrun, however the 32-bit indices wrap: nobody runs past the index    *)
(* that limits it.                                                         *)
IndicesOrdered ==
    /\ Ahead(rsp_prod) <= Ahead(rsp_prod_pvt)
    /\ Ahead(rsp_prod_pvt) <= Ahead(req_cons)
    /\ Ahead(req_cons) <= Ahead(req_prod)
    /\ Ahead(req_prod) <= Ahead(req_prod_pvt)
    /\ Ahead(req_prod_pvt) <= Size

(* Every entry the other side may still read is the one written for that   *)
(* index: the requests the backend has not taken, and the responses that   *)
(* share their slots and that blkif_int has not handled.                   *)
EntriesIntact ==
    \A i \in Idx :
        /\ Ahead(i) >= Ahead(req_cons) /\ Ahead(i) < Ahead(req_prod) =>
               ring[Slot(i)] = [kind |-> "req", at |-> i]
        /\ Ahead(i) < Ahead(rsp_prod) =>
               ring[Slot(i)] = [kind |-> "rsp", at |-> i]

(* The hold-off of notifications never leaves a request behind: if the     *)
(* backend sleeps with requests published, an event is pending for it or   *)
(* flush_requests is about to send one.                                    *)
BackendNotLost ==
    back = "asleep" /\ req_prod # req_cons => kick \/ front.pc = "pushed"

(* Nor a response: if blkif_int is not running and responses are there, an *)
(* event is pending or about to be sent.  This includes the exit of        *)
(* blkif_int that sets rsp_event and looks no more.                        *)
FrontendNotLost ==
    front.pc \in {"idle", "fill", "pushed"} /\ rsp_prod # rsp_cons
        => irq \/ resp.pc = "pushed"

(* The two together: of two ends that announce their work only to one that *)
(* asked for it, none ever sleeps on work of the other.                    *)
NobodySleepsOnWork == BackendNotLost /\ FrontendNotLost

(* Every published request is answered and its response handled.           *)
AllAnswered ==
    \A i \in Idx : rsp_cons = i /\ req_prod # i ~> rsp_cons # i
=============================================================================
