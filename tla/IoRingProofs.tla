---------------------------- MODULE IoRingProofs ----------------------------
(***************************************************************************)
(* The shared ring for every size and every index width.                   *)
(*                                                                         *)
(* BackEvents and FrontEvents are what the notification hold-off keeps     *)
(* true between the steps of both sides; together with the order of the    *)
(* indices they are inductive.                                             *)
(***************************************************************************)
EXTENDS IoRing, TLAPS

(* What the front end's response side relies on while it is not looking.   *)
Asking == {"idle", "fill", "pushed", "recheck"}
Resting == {"idle", "fill", "pushed"}

(* A sleeping backend asked for the request after the last one it took,    *)
(* and, with no event pending, took all that was published before the      *)
(* flush under way.                                                        *)
BackEvents ==
    /\ back \in {"asleep", "recheck"} => req_event = Succ(req_cons)
    /\ back = "asleep" /\ ~kick =>
          req_cons = req_prod \/ (front.pc = "pushed" /\ req_cons = front.old)
    /\ front.pc = "pushed" => req_prod = req_prod_pvt

(* The same for the front end and the responses.                           *)
FrontEvents ==
    /\ front.pc \in Asking => rsp_event = Succ(rsp_cons)
    /\ front.pc \in Resting /\ ~irq =>
          rsp_cons = rsp_prod \/ (resp.pc = "pushed" /\ rsp_cons = resp.old)
    /\ front.pc = "handle" => Ahead(front.rp) <= Ahead(rsp_prod)

IInv == Types /\ IndicesOrdered /\ BackEvents /\ FrontEvents

USE RingAssumption

(* Distances on the circle of indices.                                     *)
LEMMA MinusType == \A a, b \in Idx : Minus(a, b) \in Idx
BY DEF Minus, Idx

LEMMA SuccType == \A a \in Idx : Succ(a) \in Idx
BY DEF Succ, Idx

LEMMA SuccAhead ==
    ASSUME NEW a \in Idx, NEW b \in Idx, Minus(a, b) < Wrap - 1
    PROVE  Minus(Succ(a), b) = Minus(a, b) + 1
BY DEF Succ, Minus, Idx

LEMMA MinusSelf == \A a \in Idx : Minus(a, a) = 0
BY DEF Minus, Idx

LEMMA MinusInjective ==
    ASSUME NEW a \in Idx, NEW b \in Idx, NEW c \in Idx, Minus(a, c) = Minus(b, c)
    PROVE  a = b
BY DEF Minus, Idx

LEMMA MinusShift ==
    ASSUME NEW a \in Idx, NEW b \in Idx, NEW c \in Idx, Minus(b, c) <= Minus(a, c)
    PROVE  Minus(a, b) = Minus(a, c) - Minus(b, c)
BY DEF Minus, Idx

(* The notification test: an event asked for after a is due when the       *)
(* producer moves from a to another index.                                 *)
LEMMA EventDue ==
    ASSUME NEW a \in Idx, NEW b \in Idx, a # b
    PROVE  Minus(b, Succ(a)) < Minus(b, a)
BY DEF Minus, Succ, Idx

LEMMA ZeroType == 0 \in Idx
BY DEF Idx

(* Distances are numbers that can be compared.                             *)
LEMMA AheadType ==
    ASSUME Types
    PROVE  /\ Ahead(rsp_prod) \in Nat /\ Ahead(rsp_prod_pvt) \in Nat
           /\ Ahead(req_cons) \in Nat /\ Ahead(req_prod) \in Nat
           /\ Ahead(req_prod_pvt) \in Nat /\ Ahead(front.rp) \in Nat
<1>1. \A a \in Idx : Ahead(a) \in Nat
  <2>1. rsp_cons \in Idx /\ \A i \in Idx : i \in Nat
    BY DEF Types, Idx
  <2> QED
    BY <2>1, MinusType DEF Ahead
<1> QED
  BY <1>1 DEF Types

LEMMA InitIInv == Init => IInv
<1> SUFFICES ASSUME Init PROVE IInv
  OBVIOUS
<1>1. Types
  <2>1. 0 \in Idx /\ 1 \in Idx
    BY DEF Idx
  <2>2. ring \in [0 .. Size - 1 -> Entry]
    BY <2>1 DEF Init, Entry
  <2> QED
    BY <2>1, <2>2 DEF Init, Types, FrontPc, BackPc
<1>2. IndicesOrdered
  BY DEF Init, IndicesOrdered, Ahead, Minus
<1>3. BackEvents /\ FrontEvents
  BY DEF Init, BackEvents, FrontEvents, Succ, Asking, Resting
<1> QED
  BY <1>1, <1>2, <1>3 DEF IInv

LEMMA PutRequestStep == IInv /\ PutRequest => IInv'
<1> SUFFICES ASSUME IInv, PutRequest PROVE IInv'
  OBVIOUS
<1> USE DEF PutRequest, IInv, RingFull
<1>1. Types'
  BY MinusType, SuccType DEF Types, FrontPc, BackPc, Entry, header, fvars, bvars
<1>2. IndicesOrdered'
  <2>1. Ahead(req_prod_pvt)' = Ahead(req_prod_pvt) + 1
    <3>1. Minus(req_prod_pvt, rsp_cons) < Wrap - 1
      BY AheadType DEF Ahead
    <3>2. req_prod_pvt' = Succ(req_prod_pvt) /\ rsp_cons' = rsp_cons
      OBVIOUS
    <3>3. Minus(Succ(req_prod_pvt), rsp_cons) = Minus(req_prod_pvt, rsp_cons) + 1
      BY <3>1, SuccAhead DEF Types
    <3> QED
      BY <3>2, <3>3 DEF Ahead
  <2>2. /\ Ahead(rsp_prod)' = Ahead(rsp_prod)
        /\ Ahead(rsp_prod_pvt)' = Ahead(rsp_prod_pvt)
        /\ Ahead(req_cons)' = Ahead(req_cons)
        /\ Ahead(req_prod)' = Ahead(req_prod)
    BY DEF Ahead, bvars
  <2>3. Ahead(req_prod_pvt) < Size
    BY AheadType DEF Ahead
  <2> QED
    BY <2>1, <2>2, <2>3, AheadType DEF IndicesOrdered
<1>3. BackEvents'
  BY DEF Types, BackEvents, IndicesOrdered, Ahead, Minus, Succ, Idx, header, fvars, bvars
<1>4. FrontEvents'
  BY DEF Types, FrontEvents, BackEvents, IndicesOrdered, Ahead, Minus, Succ, Idx, header, fvars, bvars, Asking, Resting
<1> QED
  BY <1>1, <1>2, <1>3, <1>4

LEMMA PushRequestsStep == IInv /\ PushRequests => IInv'
<1> SUFFICES ASSUME IInv, PushRequests PROVE IInv'
  OBVIOUS
<1> USE DEF PushRequests, IInv
<1>1. Types'
  BY MinusType, SuccType DEF Types, FrontPc, BackPc, Entry, header, fvars, bvars
<1>2. IndicesOrdered'
  <2>1. /\ Ahead(rsp_prod)' = Ahead(rsp_prod)
        /\ Ahead(rsp_prod_pvt)' = Ahead(rsp_prod_pvt)
        /\ Ahead(req_cons)' = Ahead(req_cons)
        /\ Ahead(req_prod)' = Ahead(req_prod_pvt)
        /\ Ahead(req_prod_pvt)' = Ahead(req_prod_pvt)
    BY DEF Ahead, bvars
  <2> QED
    BY <2>1, AheadType DEF IndicesOrdered
<1>3. BackEvents'
  BY DEF Types, BackEvents, IndicesOrdered, Ahead, Minus, Succ, Idx, header, fvars, bvars
<1>4. FrontEvents'
  BY DEF Types, FrontEvents, BackEvents, IndicesOrdered, Ahead, Minus, Succ, Idx, header, fvars, bvars, Asking, Resting
<1> QED
  BY <1>1, <1>2, <1>3, <1>4

LEMMA NotifyBackendStep == IInv /\ NotifyBackend => IInv'
<1> SUFFICES ASSUME IInv, NotifyBackend PROVE IInv'
  OBVIOUS
<1> USE DEF NotifyBackend, IInv
<1>1. Types'
  <2>1. kick' \in BOOLEAN
    OBVIOUS
  <2>2. front' \in [pc : FrontPc, old : Idx, rp : Idx]
    BY ZeroType DEF Types, FrontPc
  <2> QED
    BY <2>1, <2>2 DEF Types, header, bvars
<1>2. IndicesOrdered'
  BY DEF Types, IndicesOrdered, Ahead, Minus, Succ, Idx, FrontEvents, BackEvents, header, fvars, bvars
<1>3. BackEvents'
  <2>1. CASE back = "asleep" /\ ~kick'
    <3>1. ~kick /\ req_prod = req_prod_pvt /\ req_event = Succ(req_cons)
      BY <2>1 DEF BackEvents, bvars
    <3>2. CASE req_cons = req_prod
      BY <3>1, <3>2, <2>1 DEF BackEvents, header, bvars
    <3>3. CASE req_cons # req_prod
      <4>1. req_cons = front.old
        BY <3>1, <3>3, <2>1 DEF BackEvents
      <4>2. Minus(req_prod_pvt, req_event) < Minus(req_prod_pvt, front.old)
        BY <3>1, <3>3, <4>1, EventDue DEF Types
      <4> QED
        BY <4>2, <2>1
    <3> QED
      BY <3>2, <3>3
  <2>2. CASE ~(back = "asleep" /\ ~kick')
    BY <2>2 DEF Types, BackEvents, header, bvars
  <2> QED
    BY <2>1, <2>2
<1>4. FrontEvents'
  BY DEF Types, FrontEvents, BackEvents, IndicesOrdered, Ahead, Minus, Succ, Idx, header, fvars, bvars, Asking, Resting
<1> QED
  BY <1>1, <1>2, <1>3, <1>4

LEMMA InterruptStep == IInv /\ Interrupt => IInv'
<1> SUFFICES ASSUME IInv, Interrupt PROVE IInv'
  OBVIOUS
<1> USE DEF Interrupt, IInv
<1>1. Types'
  BY MinusType, SuccType DEF Types, FrontPc, BackPc, Entry, header, fvars, bvars
<1>2. IndicesOrdered'
  BY DEF Types, IndicesOrdered, Ahead, Minus, Succ, Idx, FrontEvents, BackEvents, header, fvars, bvars
<1>3. BackEvents'
  BY DEF Types, BackEvents, IndicesOrdered, Ahead, Minus, Succ, Idx, header, fvars, bvars
<1>4. FrontEvents'
  <2>1. front'.pc = "handle" /\ front'.rp = rsp_prod
    BY DEF Types
  <2> QED
    BY <2>1, MinusType DEF Types, FrontEvents, Ahead, Asking, Resting, header, Idx
<1> QED
  BY <1>1, <1>2, <1>3, <1>4

LEMMA HandleResponsesStep == IInv /\ HandleResponses => IInv'
<1> SUFFICES ASSUME IInv, HandleResponses PROVE IInv'
  OBVIOUS
<1> USE DEF HandleResponses, IInv
<1>1. Types'
  BY ZeroType, SuccType DEF Types, FrontPc, bvars
<1>2. IndicesOrdered'
  <2> DEFINE r == front.rp
  <2>1. r \in Idx /\ Ahead(r) <= Ahead(rsp_prod)
    BY DEF Types, FrontEvents
  <2>2. \A a \in Idx : Ahead(r) <= Ahead(a) => Minus(a, r) = Ahead(a) - Ahead(r)
    BY <2>1, MinusShift DEF Types, Ahead
  <2>3. /\ Ahead(r) <= Ahead(rsp_prod_pvt) /\ Ahead(r) <= Ahead(req_cons)
        /\ Ahead(r) <= Ahead(req_prod) /\ Ahead(r) <= Ahead(req_prod_pvt)
    BY <2>1, AheadType DEF IndicesOrdered
  <2>4. /\ Ahead(rsp_prod)' = Ahead(rsp_prod) - Ahead(r)
        /\ Ahead(rsp_prod_pvt)' = Ahead(rsp_prod_pvt) - Ahead(r)
        /\ Ahead(req_cons)' = Ahead(req_cons) - Ahead(r)
        /\ Ahead(req_prod)' = Ahead(req_prod) - Ahead(r)
        /\ Ahead(req_prod_pvt)' = Ahead(req_prod_pvt) - Ahead(r)
    <3>1. \A a : Minus(a, rsp_cons)' = Minus(a', r)
      BY DEF Minus
    <3> QED
      BY <2>1, <2>2, <2>3 DEF Types, Ahead, bvars
  <2> QED
    BY <2>3, <2>4, AheadType DEF IndicesOrdered
<1>3. BackEvents'
  BY DEF Types, BackEvents, IndicesOrdered, Ahead, Minus, Succ, Idx, header, fvars, bvars
<1>4. FrontEvents'
  <2>1. CASE front.rp # req_prod_pvt
    BY <2>1 DEF Types, FrontEvents, Asking, Resting
  <2>2. CASE front.rp = req_prod_pvt
    <3>1. Ahead(rsp_prod) = Ahead(req_prod_pvt)
      BY <2>2, AheadType DEF FrontEvents, IndicesOrdered
    <3>2. rsp_prod = req_prod_pvt
      BY <3>1, MinusInjective DEF Types, Ahead
    <3> QED
      BY <2>2, <3>2 DEF Types, FrontEvents, Asking, Resting, bvars
  <2> QED
    BY <2>1, <2>2
<1> QED
  BY <1>1, <1>2, <1>3, <1>4

LEMMA CheckResponsesStep == IInv /\ CheckResponses => IInv'
<1> SUFFICES ASSUME IInv, CheckResponses PROVE IInv'
  OBVIOUS
<1> USE DEF CheckResponses, IInv
<1>1. Types'
  BY MinusType, SuccType DEF Types, FrontPc, BackPc, Entry, header, fvars, bvars
<1>2. IndicesOrdered'
  BY DEF Types, IndicesOrdered, Ahead, Minus, Succ, Idx, FrontEvents, BackEvents, header, fvars, bvars
<1>3. BackEvents'
  BY DEF Types, BackEvents, IndicesOrdered, Ahead, Minus, Succ, Idx, header, fvars, bvars
<1>4. FrontEvents'
  BY DEF Types, FrontEvents, BackEvents, IndicesOrdered, Ahead, Minus, Succ, Idx, header, fvars, bvars, Asking, Resting
<1> QED
  BY <1>1, <1>2, <1>3, <1>4

LEMMA AskForResponsesStep == IInv /\ AskForResponses => IInv'
<1> SUFFICES ASSUME IInv, AskForResponses PROVE IInv'
  OBVIOUS
<1> USE DEF AskForResponses, IInv
<1>1. Types'
  BY MinusType, SuccType DEF Types, FrontPc, BackPc, Entry, header, fvars, bvars
<1>2. IndicesOrdered'
  BY DEF Types, IndicesOrdered, Ahead, Minus, Succ, Idx, FrontEvents, BackEvents, header, fvars, bvars
<1>3. BackEvents'
  BY DEF Types, BackEvents, IndicesOrdered, Ahead, Minus, Succ, Idx, header, fvars, bvars
<1>4. FrontEvents'
  BY DEF Types, FrontEvents, BackEvents, IndicesOrdered, Ahead, Minus, Succ, Idx, header, fvars, bvars, Asking, Resting
<1> QED
  BY <1>1, <1>2, <1>3, <1>4

LEMMA RecheckResponsesStep == IInv /\ RecheckResponses => IInv'
<1> SUFFICES ASSUME IInv, RecheckResponses PROVE IInv'
  OBVIOUS
<1> USE DEF RecheckResponses, IInv
<1>1. Types'
  BY MinusType, SuccType DEF Types, FrontPc, BackPc, Entry, header, fvars, bvars
<1>2. IndicesOrdered'
  BY DEF Types, IndicesOrdered, Ahead, Minus, Succ, Idx, FrontEvents, BackEvents, header, fvars, bvars
<1>3. BackEvents'
  BY DEF Types, BackEvents, IndicesOrdered, Ahead, Minus, Succ, Idx, header, fvars, bvars
<1>4. FrontEvents'
  BY DEF Types, FrontEvents, BackEvents, IndicesOrdered, Ahead, Minus, Succ, Idx, header, fvars, bvars, Asking, Resting
<1> QED
  BY <1>1, <1>2, <1>3, <1>4

LEMMA BackendWakesStep == IInv /\ BackendWakes => IInv'
<1> SUFFICES ASSUME IInv, BackendWakes PROVE IInv'
  OBVIOUS
<1> USE DEF BackendWakes, IInv
<1>1. Types'
  BY MinusType, SuccType DEF Types, FrontPc, BackPc, Entry, header, fvars, bvars
<1>2. IndicesOrdered'
  BY DEF Types, IndicesOrdered, Ahead, Minus, Succ, Idx, FrontEvents, BackEvents, header, fvars, bvars
<1>3. BackEvents'
  BY DEF Types, BackEvents, IndicesOrdered, Ahead, Minus, Succ, Idx, header, fvars, bvars
<1>4. FrontEvents'
  BY DEF Types, FrontEvents, BackEvents, IndicesOrdered, Ahead, Minus, Succ, Idx, header, fvars, bvars, Asking, Resting
<1> QED
  BY <1>1, <1>2, <1>3, <1>4

LEMMA TakeRequestStep == IInv /\ TakeRequest => IInv'
<1> SUFFICES ASSUME IInv, TakeRequest PROVE IInv'
  OBVIOUS
<1> USE DEF TakeRequest, IInv, HasRequests
<1>1. Types'
  BY MinusType, SuccType DEF Types, FrontPc, BackPc, Entry, header, fvars, bvars
<1>2. IndicesOrdered'
  BY DEF Types, IndicesOrdered, Ahead, Minus, Succ, Idx, FrontEvents, BackEvents, header, fvars, bvars
<1>3. BackEvents'
  BY DEF Types, BackEvents, IndicesOrdered, Ahead, Minus, Succ, Idx, header, fvars, bvars
<1>4. FrontEvents'
  BY DEF Types, FrontEvents, BackEvents, IndicesOrdered, Ahead, Minus, Succ, Idx, header, fvars, bvars, Asking, Resting
<1> QED
  BY <1>1, <1>2, <1>3, <1>4

LEMMA CheckRequestsStep == IInv /\ CheckRequests => IInv'
<1> SUFFICES ASSUME IInv, CheckRequests PROVE IInv'
  OBVIOUS
<1> USE DEF CheckRequests, IInv, HasRequests
<1>1. Types'
  BY MinusType, SuccType DEF Types, FrontPc, BackPc, Entry, header, fvars, bvars
<1>2. IndicesOrdered'
  BY DEF Types, IndicesOrdered, Ahead, Minus, Succ, Idx, FrontEvents, BackEvents, header, fvars, bvars
<1>3. BackEvents'
  BY DEF Types, BackEvents, IndicesOrdered, Ahead, Minus, Succ, Idx, header, fvars, bvars
<1>4. FrontEvents'
  BY DEF Types, FrontEvents, BackEvents, IndicesOrdered, Ahead, Minus, Succ, Idx, header, fvars, bvars, Asking, Resting
<1> QED
  BY <1>1, <1>2, <1>3, <1>4

LEMMA AskForRequestsStep == IInv /\ AskForRequests => IInv'
<1> SUFFICES ASSUME IInv, AskForRequests PROVE IInv'
  OBVIOUS
<1> USE DEF AskForRequests, IInv, HasRequests
<1>1. Types'
  BY MinusType, SuccType DEF Types, FrontPc, BackPc, Entry, header, fvars, bvars
<1>2. IndicesOrdered'
  BY DEF Types, IndicesOrdered, Ahead, Minus, Succ, Idx, FrontEvents, BackEvents, header, fvars, bvars
<1>3. BackEvents'
  BY DEF Types, BackEvents, IndicesOrdered, Ahead, Minus, Succ, Idx, header, fvars, bvars
<1>4. FrontEvents'
  BY DEF Types, FrontEvents, BackEvents, IndicesOrdered, Ahead, Minus, Succ, Idx, header, fvars, bvars, Asking, Resting
<1> QED
  BY <1>1, <1>2, <1>3, <1>4

LEMMA RecheckRequestsStep == IInv /\ RecheckRequests => IInv'
<1> SUFFICES ASSUME IInv, RecheckRequests PROVE IInv'
  OBVIOUS
<1> USE DEF RecheckRequests, IInv, HasRequests
<1>1. Types'
  BY MinusType, SuccType DEF Types, FrontPc, BackPc, Entry, header, fvars, bvars
<1>2. IndicesOrdered'
  BY DEF Types, IndicesOrdered, Ahead, Minus, Succ, Idx, FrontEvents, BackEvents, header, fvars, bvars
<1>3. BackEvents'
  BY DEF Types, BackEvents, IndicesOrdered, Ahead, Minus, Succ, Idx, header, fvars, bvars
<1>4. FrontEvents'
  BY DEF Types, FrontEvents, BackEvents, IndicesOrdered, Ahead, Minus, Succ, Idx, header, fvars, bvars, Asking, Resting
<1> QED
  BY <1>1, <1>2, <1>3, <1>4

LEMMA PutResponseStep == IInv /\ PutResponse => IInv'
<1> SUFFICES ASSUME IInv, PutResponse PROVE IInv'
  OBVIOUS
<1> USE DEF PutResponse, IInv
<1>1. Types'
  BY MinusType, SuccType DEF Types, FrontPc, BackPc, Entry, header, fvars, bvars
<1>2. IndicesOrdered'
  BY DEF Types, IndicesOrdered, Ahead, Minus, Succ, Idx, FrontEvents, BackEvents, header, fvars, bvars
<1>3. BackEvents'
  BY DEF Types, BackEvents, IndicesOrdered, Ahead, Minus, Succ, Idx, header, fvars, bvars
<1>4. FrontEvents'
  BY DEF Types, FrontEvents, BackEvents, IndicesOrdered, Ahead, Minus, Succ, Idx, header, fvars, bvars, Asking, Resting
<1> QED
  BY <1>1, <1>2, <1>3, <1>4

LEMMA PushResponsesStep == IInv /\ PushResponses => IInv'
<1> SUFFICES ASSUME IInv, PushResponses PROVE IInv'
  OBVIOUS
<1> USE DEF PushResponses, IInv
<1>1. Types'
  BY MinusType, SuccType DEF Types, FrontPc, BackPc, Entry, header, fvars, bvars
<1>2. IndicesOrdered'
  BY DEF Types, IndicesOrdered, Ahead, Minus, Succ, Idx, FrontEvents, BackEvents, header, fvars, bvars
<1>3. BackEvents'
  BY DEF Types, BackEvents, IndicesOrdered, Ahead, Minus, Succ, Idx, header, fvars, bvars
<1>4. FrontEvents'
  <2>1. front.pc = "handle" => Ahead(front.rp) <= Ahead(rsp_prod_pvt)
    BY AheadType DEF FrontEvents, IndicesOrdered
  <2>2. resp'.pc = "pushed" /\ resp'.old = rsp_prod
    OBVIOUS
  <2>3. front.pc \in Resting /\ ~irq => rsp_cons = rsp_prod
    BY DEF FrontEvents
  <2> QED
    BY <2>1, <2>2, <2>3 DEF Types, FrontEvents, Ahead, fvars
<1> QED
  BY <1>1, <1>2, <1>3, <1>4

LEMMA NotifyFrontendStep == IInv /\ NotifyFrontend => IInv'
<1> SUFFICES ASSUME IInv, NotifyFrontend PROVE IInv'
  OBVIOUS
<1> USE DEF NotifyFrontend, IInv
<1>1. Types'
  <2>1. irq' \in BOOLEAN
    OBVIOUS
  <2>2. resp' \in [pc : {"idle", "pushed"}, old : Idx]
    BY ZeroType DEF Types
  <2> QED
    BY <2>1, <2>2 DEF Types, header, fvars
<1>2. IndicesOrdered'
  BY DEF Types, IndicesOrdered, Ahead, Minus, Succ, Idx, FrontEvents, BackEvents, header, fvars, bvars
<1>3. BackEvents'
  BY DEF Types, BackEvents, IndicesOrdered, Ahead, Minus, Succ, Idx, header, fvars, bvars
<1>4. FrontEvents'
  <2>1. CASE front.pc \in Resting /\ ~irq'
    <3>1. ~irq /\ rsp_event = Succ(rsp_cons)
      BY <2>1 DEF FrontEvents, Asking, Resting
    <3>2. CASE rsp_cons = rsp_prod
      BY <3>1, <3>2, <2>1 DEF FrontEvents, Ahead, header, fvars, Asking, Resting
    <3>3. CASE rsp_cons # rsp_prod
      <4>1. rsp_cons = resp.old
        BY <3>1, <3>3, <2>1 DEF FrontEvents
      <4>2. Minus(rsp_prod, rsp_event) < Minus(rsp_prod, resp.old)
        BY <3>1, <3>3, <4>1, EventDue DEF Types
      <4> QED
        BY <4>2, <2>1
    <3> QED
      BY <3>2, <3>3
  <2>2. CASE ~(front.pc \in Resting /\ ~irq')
    BY <2>2 DEF Types, FrontEvents, Ahead, header, fvars
  <2> QED
    BY <2>1, <2>2
<1> QED
  BY <1>1, <1>2, <1>3, <1>4

(* Every step of the ring keeps the invariant.                             *)
LEMMA NextIInv == IInv /\ [Next]_vars => IInv'
<1> SUFFICES ASSUME IInv, [Next]_vars PROVE IInv'
  OBVIOUS
<1>1. CASE UNCHANGED vars
  BY <1>1 DEF IInv, Types, IndicesOrdered, BackEvents, FrontEvents, Ahead, Minus,
     Asking, Resting, vars, header, fvars, bvars
<1>2. CASE PutRequest \/ FrontStep
  BY <1>2, PutRequestStep, PushRequestsStep, NotifyBackendStep, InterruptStep,
     HandleResponsesStep, CheckResponsesStep,
     AskForResponsesStep, RecheckResponsesStep DEF FrontStep
<1>3. CASE BackLoop
  BY <1>3, BackendWakesStep, TakeRequestStep, CheckRequestsStep,
     AskForRequestsStep, RecheckRequestsStep
     DEF BackLoop
<1>4. CASE Respond
  BY <1>4, PutResponseStep, PushResponsesStep, NotifyFrontendStep DEF Respond
<1> QED
  BY <1>1, <1>2, <1>3, <1>4 DEF Next

THEOREM Invariance == Spec => []IInv
BY InitIInv, NextIInv, PTL DEF Spec

(* The entries: every one the other side may still read, or that has been  *)
(* written but not published, is the one for its index.                    *)
Entries ==
    \A i \in Idx :
        /\ Ahead(i) >= Ahead(req_cons) /\ Ahead(i) < Ahead(req_prod_pvt) =>
               ring[Slot(i)] = [kind |-> "req", at |-> i]
        /\ Ahead(i) < Ahead(rsp_prod_pvt) =>
               ring[Slot(i)] = [kind |-> "rsp", at |-> i]

LEMMA DivMod ==
    ASSUME NEW n \in Nat, NEW m \in Nat \ {0}
    PROVE  \E q \in Nat, r \in Nat : r = n % m /\ n = m * q + r
<1> DEFINE q == n \div m
           r == n % m
<1>1. n = q * m + r
  <2>1. \A k, d \in Int : d > 0 => k = (k \div d) * d + (k % d)
    OBVIOUS
  <2> QED
    BY <2>1
<1>2. r \in Nat /\ q \in Nat /\ r = n % m
  OBVIOUS
<1> HIDE DEF q, r
<1>3. q * m = m * q
  BY <1>2
<1>4. n = m * q + r
  BY <1>1, <1>3
<1> QED
  BY <1>2, <1>4

(* A multiple of m that is less than m in size is zero.                    *)
LEMMA SmallMultiple ==
    ASSUME NEW m \in Nat \ {0}, NEW a \in Int, m * a < m, -(m * a) < m
    PROVE  a = 0
<1>1. CASE a >= 1
  <2>1. m * a >= m * 1
    BY <1>1
  <2> QED
    BY <2>1
<1>2. CASE a <= -1
  <2>1. m * a <= m * (-1)
    BY <1>2
  <2> QED
    BY <2>1
<1> QED
  BY <1>1, <1>2

(* Indices that are less than a ring apart and share a slot are the same: *)
(* Size divides Wrap, so that the slots go on where the indices wrap.      *)
LEMMA SameSlot ==
    ASSUME NEW i \in Idx, NEW j \in Idx, NEW c \in Idx,
           Minus(i, c) < Size, Minus(j, c) < Size, Slot(i) = Slot(j)
    PROVE  i = j
<1>1. PICK a \in Nat, b \in Nat, w \in Nat, r \in Nat :
         i = Size * a + r /\ j = Size * b + r /\ Wrap = Size * w
  <2> i \in Nat /\ j \in Nat /\ Size \in Nat \ {0}
    BY DEF Idx
  <2>1. PICK a \in Nat, r \in Nat : r = i % Size /\ i = Size * a + r
    BY DivMod, Zenon
  <2>2. PICK b \in Nat, s \in Nat : s = j % Size /\ j = Size * b + s
    BY DivMod, Zenon
  <2>3. PICK w \in Nat : Wrap = Size * w
    <3>1. PICK w \in Nat, t \in Nat : t = Wrap % Size /\ Wrap = Size * w + t
      BY DivMod, Zenon
    <3>2. t = 0 /\ Size * w \in Nat
      BY <3>1
    <3>3. Wrap = Size * w
      BY <3>1, <3>2
    <3> QED
      BY <3>3
  <2> QED
    BY <2>1, <2>2, <2>3 DEF Slot
<1>2. PICK e \in {-1, 0, 1} : i - j - e * Wrap < Size /\ j - i + e * Wrap < Size
  BY DEF Minus, Idx
<1>3. i - j - e * Wrap = Size * (a - b - e * w)
  BY <1>1
<1>4. a - b - e * w = 0
  <2>1. a - b - e * w \in Int
    BY <1>1
  <2>2. Size * (a - b - e * w) < Size /\ -(Size * (a - b - e * w)) < Size
    <3> DEFINE x == Size * (a - b - e * w)
    <3>1. x = i - j - e * Wrap
      BY <1>3
    <3> HIDE DEF x
    <3>2. x < Size /\ -x < Size
      BY <1>2, <3>1 DEF Idx
    <3> QED
      BY <3>2 DEF x
  <2> QED
    BY <2>1, <2>2, SmallMultiple
<1>5. i - j = e * Wrap
  BY <1>3, <1>4 DEF Idx
<1> QED
  BY <1>5 DEF Idx

LEMMA MinusAdd ==
    ASSUME NEW i \in Idx, NEW r \in Idx, NEW c \in Idx, Minus(i, r) + Minus(r, c) < Wrap
    PROVE  Minus(i, c) = Minus(i, r) + Minus(r, c)
BY DEF Minus, Idx

LEMMA AheadNat == Types => \A i \in Idx : Ahead(i) \in Nat
<1> SUFFICES ASSUME Types, NEW i \in Idx PROVE Ahead(i) \in Nat
  OBVIOUS
<1>1. Minus(i, rsp_cons) \in Idx
  BY MinusType DEF Types
<1> QED
  BY <1>1 DEF Ahead, Idx

LEMMA InitEntries == Init => Entries
<1> SUFFICES ASSUME Init PROVE Entries
  OBVIOUS
<1>1. \A i \in Idx : Ahead(i) \in Nat
  BY DEF Init, Ahead, Minus, Idx
<1>2. Ahead(req_cons) = 0 /\ Ahead(req_prod_pvt) = 0 /\ Ahead(rsp_prod_pvt) = 0
  BY DEF Init, Ahead, Minus
<1> QED
  BY <1>1, <1>2 DEF Entries

(* An entry written at p leaves the others in the window alone.            *)
LEMMA OtherSlot ==
    ASSUME Types, NEW p \in Idx, NEW i \in Idx, Ahead(p) < Size, Ahead(i) < Size, i # p
    PROVE  Slot(i) # Slot(p)
BY SameSlot DEF Ahead, Types

LEMMA RingEntry == Types => \A i \in Idx : Slot(i) \in DOMAIN ring
BY DEF Types, Slot, Idx

LEMMA PutRequestEntries ==
    ASSUME IInv, Entries, PutRequest
    PROVE  Entries'
<1> DEFINE p == req_prod_pvt
<1>1. /\ p \in Idx /\ Ahead(p) \in Nat /\ Ahead(p) < Size /\ Ahead(req_cons) \in Nat
      /\ Ahead(req_cons) <= Ahead(p) /\ Ahead(rsp_prod_pvt) \in Nat /\ Ahead(rsp_prod_pvt) <= Ahead(p)
  BY AheadType DEF IInv, Types, IndicesOrdered, PutRequest, RingFull, Ahead
<1>2. /\ ring' = [ring EXCEPT ![Slot(p)] = [kind |-> "req", at |-> p]]
      /\ Slot(p) \in DOMAIN ring
      /\ UNCHANGED <<rsp_cons, req_cons, rsp_prod_pvt>> /\ req_prod_pvt' = Succ(p)
  BY SMTT(60) DEF PutRequest, bvars, IInv, Types, Slot, Idx
<1>3. Minus(Succ(p), rsp_cons) = Ahead(p) + 1
  BY <1>1, SuccAhead DEF Ahead, IInv, Types
<1> SUFFICES ASSUME NEW i \in Idx
             PROVE  /\ Ahead(i) >= Ahead(req_cons) /\ Ahead(i) < Ahead(p) + 1 =>
                           ring'[Slot(i)] = [kind |-> "req", at |-> i]
                    /\ Ahead(i) < Ahead(rsp_prod_pvt) =>
                           ring'[Slot(i)] = [kind |-> "rsp", at |-> i]
  BY <1>2, <1>3 DEF Entries, Ahead, Slot
<1>4. CASE i = p
  BY <1>1, <1>2, <1>4
<1>5. CASE i # p
  <2>1. Ahead(i) \in Nat /\ Ahead(i) # Ahead(p)
    BY <1>1, <1>5, AheadNat, MinusInjective DEF IInv, Types, Ahead
  <2>2. Ahead(i) < Ahead(p) => Slot(i) # Slot(p)
    BY <1>1, <1>5, <2>1, OtherSlot DEF IInv
  <2>3. Ahead(i) < Ahead(p) => ring'[Slot(i)] = ring[Slot(i)]
    BY <1>2, <2>2, RingEntry DEF IInv
  <2> QED
    BY <1>1, <2>1, <2>3 DEF Entries
<1> QED
  BY <1>4, <1>5

LEMMA PutResponseEntries ==
    ASSUME IInv, Entries, PutResponse
    PROVE  Entries'
<1> DEFINE p == rsp_prod_pvt
<1>1. /\ p \in Idx /\ Ahead(p) \in Nat /\ Ahead(req_cons) \in Nat /\ Ahead(p) < Ahead(req_cons)
      /\ Ahead(req_cons) <= Ahead(req_prod_pvt) /\ Ahead(req_prod_pvt) \in Nat
      /\ Ahead(req_prod_pvt) <= Size
  <2>1. Ahead(p) # Ahead(req_cons)
    BY MinusInjective DEF IInv, Types, PutResponse, Ahead
  <2> QED
    BY <2>1, AheadType DEF IInv, Types, IndicesOrdered
<1>2. /\ ring' = [ring EXCEPT ![Slot(p)] = [kind |-> "rsp", at |-> p]]
      /\ Slot(p) \in DOMAIN ring
      /\ UNCHANGED <<rsp_cons, req_cons, req_prod_pvt>> /\ rsp_prod_pvt' = Succ(p)
  BY DEF PutResponse, fvars, IInv, Types, Slot, Idx
<1>3. Minus(Succ(p), rsp_cons) = Ahead(p) + 1
  BY <1>1, SuccAhead DEF Ahead, IInv, Types
<1> SUFFICES ASSUME NEW i \in Idx
             PROVE  /\ Ahead(i) >= Ahead(req_cons) /\ Ahead(i) < Ahead(req_prod_pvt) =>
                           ring'[Slot(i)] = [kind |-> "req", at |-> i]
                    /\ Ahead(i) < Ahead(p) + 1 =>
                           ring'[Slot(i)] = [kind |-> "rsp", at |-> i]
  BY <1>2, <1>3 DEF Entries, Ahead, Slot
<1>4. CASE i = p
  BY <1>1, <1>2, <1>4
<1>5. CASE i # p
  <2>1. Ahead(i) \in Nat /\ Ahead(i) # Ahead(p)
    BY <1>1, <1>5, AheadNat, MinusInjective DEF IInv, Types, Ahead
  <2>2. Ahead(i) < Size => Slot(i) # Slot(p)
    BY <1>1, <1>5, <2>1, OtherSlot DEF IInv
  <2>3. Ahead(i) < Size => ring'[Slot(i)] = ring[Slot(i)]
    BY <1>2, <2>2, RingEntry DEF IInv
  <2> QED
    BY <1>1, <2>1, <2>3 DEF Entries
<1> QED
  BY <1>4, <1>5

LEMMA HandleResponsesEntries ==
    ASSUME IInv, Entries, HandleResponses
    PROVE  Entries'
<1> DEFINE r == front.rp
           d == Ahead(r)
<1>1. /\ r \in Idx /\ d \in Nat /\ d <= Ahead(rsp_prod)
      /\ rsp_cons \in Idx /\ req_cons \in Idx /\ req_prod_pvt \in Idx /\ rsp_prod_pvt \in Idx
  BY AheadType DEF IInv, Types, FrontEvents, HandleResponses
<1>2. /\ d <= Ahead(rsp_prod_pvt) /\ d <= Ahead(req_cons) /\ d <= Ahead(req_prod_pvt)
      /\ Ahead(req_prod_pvt) <= Size /\ Ahead(rsp_prod_pvt) <= Size
      /\ Ahead(rsp_prod_pvt) \in Nat /\ Ahead(req_cons) \in Nat /\ Ahead(req_prod_pvt) \in Nat
  BY <1>1, AheadType DEF IInv, IndicesOrdered
<1>3. /\ Minus(rsp_prod_pvt, r) = Ahead(rsp_prod_pvt) - d
      /\ Minus(req_cons, r) = Ahead(req_cons) - d
      /\ Minus(req_prod_pvt, r) = Ahead(req_prod_pvt) - d
  BY <1>1, <1>2, MinusShift DEF Ahead
<1>4. UNCHANGED <<ring, req_cons, req_prod_pvt, rsp_prod_pvt>> /\ rsp_cons' = r
  BY DEF HandleResponses, bvars
<1> SUFFICES ASSUME NEW i \in Idx
             PROVE  /\ Minus(i, r) >= Minus(req_cons, r) /\ Minus(i, r) < Minus(req_prod_pvt, r) =>
                           ring[Slot(i)] = [kind |-> "req", at |-> i]
                    /\ Minus(i, r) < Minus(rsp_prod_pvt, r) =>
                           ring[Slot(i)] = [kind |-> "rsp", at |-> i]
  BY <1>4 DEF Entries, Ahead, Slot
<1>5. Minus(i, r) \in Nat
  <2>1. Minus(i, r) \in Idx
    BY <1>1, MinusType
  <2> QED
    BY <2>1 DEF Idx
<1>6. Minus(i, r) + d < Wrap => Ahead(i) = Minus(i, r) + d
  BY <1>1, MinusAdd DEF Ahead
<1> HIDE DEF r, d
<1> QED
  BY <1>2, <1>3, <1>5, <1>6, <1>1 DEF Entries

LEMMA NextEntries == IInv /\ Entries /\ [Next]_vars => Entries'
<1> SUFFICES ASSUME IInv, Entries, [Next]_vars PROVE Entries'
  OBVIOUS
<1>1. CASE PutRequest \/ HandleResponses \/ PutResponse
  BY <1>1, PutRequestEntries, HandleResponsesEntries, PutResponseEntries
<1>2. CASE TakeRequest
  <2>1. UNCHANGED <<ring, rsp_cons, req_prod_pvt, rsp_prod_pvt>> /\ req_cons' = Succ(req_cons)
    BY <1>2 DEF TakeRequest, header, fvars
  <2>2. Ahead(req_cons) \in Nat /\ Ahead(req_cons) <= Size
    BY AheadType DEF IInv, IndicesOrdered
  <2>3. Minus(Succ(req_cons), rsp_cons) = Ahead(req_cons) + 1
    BY <2>2, SuccAhead DEF Ahead, IInv, Types
  <2>4. \A i \in Idx : Ahead(i) \in Nat
    BY AheadNat DEF IInv
  <2>5. \A i \in Idx : Minus(i, rsp_cons) >= Ahead(req_cons) + 1 => Ahead(i) >= Ahead(req_cons)
    BY <2>2, <2>4 DEF Ahead
  <2> QED
    BY <2>1, <2>3, <2>5 DEF Entries, Ahead, Slot
<1>3. CASE UNCHANGED <<ring, rsp_cons, req_cons, req_prod_pvt, rsp_prod_pvt>>
  BY <1>3 DEF Entries, Ahead, Slot, Minus
<1> QED
  BY <1>1, <1>2, <1>3 DEF Next, FrontStep, BackLoop, Respond, PushRequests, NotifyBackend,
     Interrupt, CheckResponses, AskForResponses, RecheckResponses, BackendWakes,
     CheckRequests, AskForRequests, RecheckRequests, PushResponses, NotifyFrontend,
     vars, header, fvars, bvars

(* ring.h:184, RING_FULL: no request is written over a response that the   *)
(* front end has not handled, and no response over a request that the      *)
(* backend has not taken, for every ring size and index width.             *)
THEOREM NothingOverwritten == Spec => []EntriesIntact
<1>1. IInv /\ Entries => EntriesIntact
  <2> SUFFICES ASSUME IInv, Entries PROVE EntriesIntact
    OBVIOUS
  <2>1. /\ Ahead(req_prod) <= Ahead(req_prod_pvt) /\ Ahead(rsp_prod) <= Ahead(rsp_prod_pvt)
        /\ Ahead(req_prod) \in Nat /\ Ahead(req_prod_pvt) \in Nat
        /\ Ahead(rsp_prod) \in Nat /\ Ahead(rsp_prod_pvt) \in Nat
    BY AheadType DEF IInv, IndicesOrdered
  <2>2. ASSUME NEW i \in Idx
        PROVE  /\ Ahead(i) < Ahead(req_prod) => Ahead(i) < Ahead(req_prod_pvt)
               /\ Ahead(i) < Ahead(rsp_prod) => Ahead(i) < Ahead(rsp_prod_pvt)
    <3>1. Ahead(i) \in Nat
      BY AheadNat DEF IInv
    <3> QED
      BY <2>1, <3>1
  <2> QED
    BY <2>2 DEF Entries, EntriesIntact
<1> QED
  BY Invariance, InitEntries, NextEntries, <1>1, PTL DEF Spec

(* All indices stay within the width of RING_IDX.                          *)
THEOREM TypesCorrect == Spec => []Types
BY Invariance, PTL DEF IInv

(* No side overruns the other, for every ring size and index width: the    *)
(* ring never holds more than RING_SIZE requests without response.         *)
THEOREM NeverOverrun == Spec => []IndicesOrdered
BY Invariance, PTL DEF IInv

LEMMA IInvNotLost == IInv => NobodySleepsOnWork
BY DEF IInv, BackEvents, FrontEvents, NobodySleepsOnWork, BackendNotLost, FrontendNotLost,
       Resting

(* The backend never sleeps on published requests, and the front end not   *)
(* on published responses, without an event that is pending or about to be *)
(* sent.                                                                   *)
THEOREM NoEventIsMissed == Spec => []NobodySleepsOnWork
BY Invariance, IInvNotLost, PTL
=============================================================================
