---------------------------- MODULE EvtchnProofs ----------------------------
(***************************************************************************)
(* Proofs about Evtchn: that no handler is called for a driver which has   *)
(* unbound it, and that no event is lost, for any number of ports, slots   *)
(* and drivers.                                                            *)
(***************************************************************************)
EXTENDS Evtchn, TLAPS

Holds(d) == dpc[d] \in {"unmask", "clear"}

(* Who has a slot: each driver that is not "unbound" one of its own, which *)
(* names the driver while that is bound; a slot's lock is held by it.      *)
SlotsApart ==
    /\ \A d \in Drivers : dpc[d] # "unbound" => dirq[d] \in inuse
    /\ \A d \in Drivers : dpc[d] = "unbound" => dirq[d] = 0
    /\ \A d, e \in Drivers : dirq[d] = dirq[e] /\ dirq[d] # 0 => d = e
    /\ \A d \in Drivers : dpc[d] \in {"unmask", "bound", "clear"} => handler[dirq[d]] = d
    /\ \A d \in Drivers : dpc[d] \in {"unmask", "bound", "clear", "spin"} => dev_id[dirq[d]] = d
    /\ \A i \in Irqs : handler[i] # None =>
          dirq[handler[i]] = i /\ dpc[handler[i]] \in {"unmask", "bound", "clear"}
    /\ \A d \in Drivers : Holds(d) => dirq[d] \in locked
    /\ \A i \in locked : handler[i] # None /\ Holds(handler[i])

(* The one handler that runs, and its driver, which waits for it if it     *)
(* unbinds.                                                                *)
HandlerHeld ==
    /\ in_handler = IF pc \in {"call", "handler"} THEN {irq} ELSE {}
    /\ pc \in {"call", "handler"} =>
          /\ dev_id[irq] \in Drivers /\ dirq[dev_id[irq]] = irq
          /\ dpc[dev_id[irq]] \in {"unmask", "bound", "clear", "spin"}
    /\ pc = "handler" => running = dev_id[irq]

SafeInv == Types /\ SlotsApart /\ HandlerHeld

(* What the ports are mapped to.                                           *)
PortsMapped ==
    /\ \A p \in Ports : to_irq[p] # -1 =>
          /\ evtchn[to_irq[p]] = p /\ handler[to_irq[p]] # None
          /\ dpc[handler[to_irq[p]]] \in {"unmask", "bound"}
    /\ \A i \in Irqs : evtchn[i] # 0 =>
          /\ handler[i] # None /\ evtchn[i] \in open
          /\ dpc[handler[i]] # "clear" => to_irq[evtchn[i]] = i
          /\ handler[i] \in Callers => evtchn[i] = CallerPort[handler[i]] /\ i \notin close
          /\ handler[i] \notin Callers => evtchn[i] \notin GivenPorts /\ i \in close
    /\ \A i, j \in Irqs : evtchn[i] = evtchn[j] /\ evtchn[i] # 0 => i = j
    /\ GivenPorts \subseteq open
    /\ \A d \in Drivers : dpc[d] = "unmask" => evtchn[dirq[d]] # 0
-----------------------------------------------------------------------------
(* Types.                                                                  *)

LEMMA PortFacts == /\ \A p \in Ports : p \in Nat /\ p # 0 /\ p >= 0
                   /\ \A i \in Irqs : i \in Nat /\ i # 0 /\ i # -1 /\ i >= 0
                   /\ GivenPorts \subseteq Ports
                   /\ 0 \notin Ports /\ 0 \notin Irqs
BY EvtchnAssumption DEF Ports, Irqs, GivenPorts

LEMMA InitTypes == Init => Types
<1> SUFFICES ASSUME Init PROVE Types
  OBVIOUS
<1>1. GivenPorts \subseteq Ports
  BY PortFacts
<1>2. /\ {l1i, last1} \subseteq PortWords \cup {Bits - 1}
      /\ {l2i, last2} \subseteq {Bit(p) : p \in Ports} \cup {Bits - 1}
  BY DEF Init
<1>3. QED
  BY <1>1, <1>2 DEF Init, Types

(* What the scan finds has its types.                                      *)
LEMMA PickTypes ==
    ASSUME Types, NEW w \in PortWords, NEW a, Pick(w, a)
    PROVE  /\ l1i' \in PortWords
           /\ l2i' \in {Bit(p) : p \in Ports} \cup {Bits - 1}
           /\ pc' \in {"recheck", "clear"}
           /\ port' \in Ports \cup {0}
           /\ pc' = "clear" => port' \in Ports
BY DEF Types, Pick, Active, PortWords

LEMMA InterruptTypes == Types /\ Interrupt => Types'
<1> SUFFICES ASSUME Types, Interrupt PROVE Types'
  OBVIOUS
<1> USE PortFacts
<1>1. CASE Enter
  BY <1>1 DEF Types, Enter, slots, drivers
<1>2. CASE Exchange
  BY <1>2 DEF Types, Exchange, slots, drivers
<1>3. CASE NextWord
  <2>1. \E w \in PortWords : Pick(w, l2i) \/ Pick(w, Bits - 1)
    BY <1>3 DEF Types, NextWord
  <2>2. QED
    BY <1>3, <2>1, PickTypes DEF Types, NextWord, xen, slots, drivers
<1>4. CASE NextPort
  BY <1>4 DEF Types, NextPort, Pick, Active, PortWords, xen, slots, drivers
<1>5. CASE ClearBit
  BY <1>5 DEF Types, ClearBit, slots, drivers
<1>6. CASE Lookup
  BY <1>6 DEF Types, Lookup, Continue, xen, slots, drivers
<1>7. CASE NoHandler
  BY <1>7 DEF Types, NoHandler, Continue, xen, slots, drivers
<1>8. CASE SetInHandler
  BY <1>8 DEF Types, SetInHandler, xen, drivers
<1>9. CASE CallHandler
  BY <1>9 DEF Types, CallHandler, xen, slots, drivers
<1>10. CASE HandlerReturns
  BY <1>10 DEF Types, HandlerReturns, Continue, xen, drivers
<1>11. CASE Recheck
  BY <1>11 DEF Types, Recheck, xen, slots, drivers
<1>12. QED
  BY <1>1, <1>2, <1>3, <1>4, <1>5, <1>6, <1>7, <1>8, <1>9, <1>10, <1>11 DEF Interrupt

LEMMA DriverTypes ==
    ASSUME Types, SlotsApart, NEW d \in Drivers,
           AllocXenIrq(d) \/ BindFails(d) \/ Bind(d) \/ Unbind(d) \/ Proceeds(d)
    PROVE  Types'
<1> USE PortFacts
<1>0. dpc[d] # "unbound" => dirq[d] \in Irqs
  BY DEF Types, SlotsApart
<1>1. CASE AllocXenIrq(d)
  BY <1>1, EvtchnAssumption DEF Types, AllocXenIrq, xen, interrupt
<1>2. CASE BindFails(d)
  BY <1>2, EvtchnAssumption DEF Types, BindFails, xen, interrupt
<1>3. CASE Bind(d)
  <2>1. PICK p \in Ports : /\ open' = open \cup {p}
                           /\ evtchn' = [evtchn EXCEPT ![dirq[d]] = p]
                           /\ to_irq' = [to_irq EXCEPT ![p] = dirq[d]]
    BY <1>3, EvtchnAssumption DEF Bind
  <2>2. dirq[d] \in Irqs
    BY <1>0, <1>3 DEF Bind
  <2>3. QED
    BY <1>3, <2>1, <2>2 DEF Types, Bind, interrupt
<1>4. CASE Unmask(d)
  <2>1. sel' \subseteq PortWords /\ upcall' \in BOOLEAN
    BY <1>4 DEF Types, Unmask, PortWords
  <2>2. QED
    BY <1>4, <2>1 DEF Types, Unmask, interrupt
<1>5. CASE Unbind(d)
  <2>1. dirq[d] \in Irqs /\ evtchn[dirq[d]] \in Ports \cup {0}
    BY <1>0, <1>5 DEF Types, Unbind
  <2>2. to_irq' \in [Ports -> Irqs \cup {-1}] /\ mask' \subseteq Ports /\ owed' \subseteq Ports
    BY <1>5, <2>1 DEF Types, Unbind
  <2>3. QED
    BY <1>5, <2>1, <2>2 DEF Types, Unbind, interrupt
<1>6. CASE UnbindClears(d)
  BY <1>6, EvtchnAssumption DEF Types, UnbindClears, xen, interrupt
<1>7. CASE FreeXenIrq(d)
  BY <1>7, EvtchnAssumption DEF Types, FreeXenIrq, xen, interrupt
<1>8. QED
  BY <1>1, <1>2, <1>3, <1>4, <1>5, <1>6, <1>7 DEF Proceeds

LEMMA TypesStep == Types /\ SlotsApart /\ [Next]_vars => Types'
<1> SUFFICES ASSUME Types, SlotsApart, [Next]_vars PROVE Types'
  OBVIOUS
<1>1. CASE Interrupt
  BY <1>1, InterruptTypes
<1>2. CASE \E d \in Drivers : AllocXenIrq(d) \/ BindFails(d) \/ Bind(d) \/ Unbind(d) \/ Proceeds(d)
  BY <1>2, DriverTypes
<1>3. CASE IrqResume
  <2>1. GivenPorts \subseteq Ports /\ resumes' \in Nat
    BY <1>3, PortFacts DEF Types, IrqResume
  <2>2. QED
    BY <1>3, <2>1 DEF Types, IrqResume, interrupt, drivers
<1>4. CASE \E p \in Ports : Send(p)
  BY <1>4 DEF Types, Send, slots, interrupt, drivers, PortWords
<1>5. CASE Raise
  BY <1>5 DEF Types, Raise, slots, interrupt, drivers
<1>6. CASE UNCHANGED vars
  BY <1>6 DEF Types, vars, xen, slots, interrupt, drivers
<1>7. QED
  BY <1>1, <1>2, <1>3, <1>4, <1>5, <1>6 DEF Next
-----------------------------------------------------------------------------
(* Slots.                                                                  *)

(* A driver takes a free slot and gives it back as it found it.            *)
LEMMA DriverSlots ==
    ASSUME Types, SlotsApart, NEW d \in Drivers,
           AllocXenIrq(d) \/ BindFails(d) \/ Bind(d) \/ Unbind(d) \/ Proceeds(d)
    PROVE  SlotsApart'
<1> USE PortFacts
<1>1. CASE AllocXenIrq(d)
  BY <1>1, EvtchnAssumption DEF SlotsApart, Holds, Types, AllocXenIrq, xen, interrupt
<1>2. CASE BindFails(d)
  BY <1>2, EvtchnAssumption DEF SlotsApart, Holds, Types, BindFails, xen, interrupt
<1>3. CASE Bind(d)
  BY <1>3, EvtchnAssumption DEF SlotsApart, Holds, Types, Bind, xen, interrupt
<1>4. CASE Unmask(d)
  BY <1>4, EvtchnAssumption DEF SlotsApart, Holds, Types, Unmask, xen, interrupt
<1>5. CASE Unbind(d)
  BY <1>5, EvtchnAssumption DEF SlotsApart, Holds, Types, Unbind, xen, interrupt
<1>6. CASE UnbindClears(d)
  BY <1>6, EvtchnAssumption DEF SlotsApart, Holds, Types, UnbindClears, xen, interrupt
<1>7. CASE FreeXenIrq(d)
  BY <1>7, EvtchnAssumption DEF SlotsApart, Holds, Types, FreeXenIrq, xen, interrupt
<1>8. QED
  BY <1>1, <1>2, <1>3, <1>4, <1>5, <1>6, <1>7 DEF Proceeds

LEMMA SlotsStep == Types /\ SlotsApart /\ [Next]_vars => SlotsApart'
<1> SUFFICES ASSUME Types, SlotsApart, [Next]_vars PROVE SlotsApart'
  OBVIOUS
<1>1. CASE \E d \in Drivers : AllocXenIrq(d) \/ BindFails(d) \/ Bind(d) \/ Unbind(d) \/ Proceeds(d)
  BY <1>1, DriverSlots
<1>2. CASE UNCHANGED <<handler, dev_id, inuse, locked, dpc, dirq>>
  BY <1>2 DEF SlotsApart, Holds
<1>3. Interrupt => UNCHANGED <<handler, dev_id, inuse, locked, dpc, dirq>>
  BY DEF Interrupt, Enter, Exchange, NextWord, NextPort, ClearBit, Lookup, NoHandler,
         SetInHandler, CallHandler, HandlerReturns, Recheck, slots, drivers
<1>4. IrqResume \/ Raise \/ (\E p \in Ports : Send(p)) \/ UNCHANGED vars
         => UNCHANGED <<handler, dev_id, inuse, locked, dpc, dirq>>
  BY DEF IrqResume, Raise, Send, vars, slots, drivers
<1>5. QED
  BY <1>1, <1>2, <1>3, <1>4 DEF Next

(* The interrupt handler sets in_handler under the lock while the slot has *)
(* a handler, so its driver has yet to unbind or will wait.                *)
LEMMA HeldStep == SafeInv /\ [Next]_vars => HandlerHeld'
<1> SUFFICES ASSUME SafeInv, [Next]_vars PROVE HandlerHeld'
  OBVIOUS
<1> USE PortFacts DEF SafeInv
<1>1. CASE Enter \/ Exchange \/ NextWord \/ NextPort \/ ClearBit \/ Lookup \/ NoHandler \/ Recheck
  <2>1. pc \notin {"call", "handler"} /\ pc' \notin {"call", "handler"}
    BY <1>1 DEF Enter, Exchange, NextWord, NextPort, Pick, ClearBit, Lookup, NoHandler, Recheck,
                Continue
  <2>2. in_handler' = in_handler
    BY <1>1 DEF Enter, Exchange, NextWord, NextPort, ClearBit, Lookup, NoHandler, Recheck, slots
  <2>3. QED
    BY <2>1, <2>2 DEF HandlerHeld
<1>2. CASE SetInHandler
  BY <1>2 DEF HandlerHeld, SlotsApart, Types, SetInHandler, drivers
<1>3. CASE CallHandler
  BY <1>3 DEF HandlerHeld, CallHandler, slots, drivers
<1>4. CASE HandlerReturns
  BY <1>4 DEF HandlerHeld, HandlerReturns, Continue, drivers
<1>5. ASSUME NEW d \in Drivers,
             AllocXenIrq(d) \/ BindFails(d) \/ Bind(d) \/ Unbind(d) \/ Proceeds(d)
      PROVE  HandlerHeld'
  <2>1. CASE AllocXenIrq(d)
    BY <2>1 DEF HandlerHeld, SlotsApart, Types, AllocXenIrq, interrupt
  <2>2. CASE BindFails(d)
    BY <2>2 DEF HandlerHeld, SlotsApart, Types, BindFails, interrupt
  <2>3. CASE Bind(d)
    BY <2>3 DEF HandlerHeld, SlotsApart, Types, Bind, interrupt
  <2>4. CASE Unmask(d)
    BY <2>4 DEF HandlerHeld, SlotsApart, Types, Unmask, interrupt
  <2>5. CASE Unbind(d)
    BY <2>5 DEF HandlerHeld, SlotsApart, Types, Unbind, interrupt
  <2>6. CASE UnbindClears(d)
    BY <2>6 DEF HandlerHeld, SlotsApart, Types, UnbindClears, interrupt
  <2>7. CASE FreeXenIrq(d)
    BY <2>7 DEF HandlerHeld, SlotsApart, Types, FreeXenIrq, interrupt
  <2>8. QED
    BY <1>5, <2>1, <2>2, <2>3, <2>4, <2>5, <2>6, <2>7 DEF Proceeds
<1>6. CASE IrqResume \/ Raise \/ (\E p \in Ports : Send(p)) \/ UNCHANGED vars
  <2>1. UNCHANGED <<in_handler, pc, irq, running, dev_id, dpc, dirq>>
    BY <1>6 DEF IrqResume, Raise, Send, vars, slots, interrupt, drivers
  <2>2. QED
    BY <2>1 DEF HandlerHeld
<1>7. QED
  BY <1>1, <1>2, <1>3, <1>4, <1>5, <1>6 DEF Next, Interrupt

(* A handler is only called for a driver that has bound it and whose call  *)
(* of unbind_from_irqhandler has not returned (evtchn.c:209 spins).        *)
THEOREM HandlersAreBound == Spec => []NoCallAfterUnbind
<1>1. Init => SafeInv
  <2>1. Init => SlotsApart /\ HandlerHeld
    BY DEF Init, SlotsApart, HandlerHeld, Holds
  <2>2. QED
    BY <2>1, InitTypes DEF SafeInv
<1>2. SafeInv /\ [Next]_vars => SafeInv'
  BY TypesStep, SlotsStep, HeldStep DEF SafeInv
<1>3. SafeInv => NoCallAfterUnbind
  BY DEF SafeInv, SlotsApart, HandlerHeld, NoCallAfterUnbind
<1>4. QED
  BY <1>1, <1>2, <1>3, PTL DEF Spec
-----------------------------------------------------------------------------
(* Events.                                                                 *)

(* What the scan owes: the events of bound ports, the selector bits.       *)
EventsKept ==
    /\ \A p \in owed : to_irq[p] # -1
    /\ \A p \in owed \ pending :
          p = port /\ (pc = "lookup" \/ (pc = "lock" /\ irq = to_irq[p]))
    /\ \A p \in pending \ mask :
          Word(p) \in sel \/ (pc \notin {"idle", "entered"} /\ Word(p) \in l1)
    /\ sel # {} => upcall \/ pc = "entered" \/ raising
    /\ \A p \in mask : to_irq[p] # -1 => dpc[handler[to_irq[p]]] = "unmask"
    /\ pc \notin {"idle", "entered", "words"} => l1i \in l1

FullInv == SafeInv /\ PortsMapped /\ EventsKept

(* Ports are mapped while their slot is bound, and only one slot has a     *)
(* port: Xen gives away what is closed, and given ports differ.            *)
LEMMA DriverPorts ==
    ASSUME SafeInv, PortsMapped, NEW d \in Drivers,
           AllocXenIrq(d) \/ BindFails(d) \/ Bind(d) \/ Unbind(d) \/ Proceeds(d)
    PROVE  PortsMapped'
<1> USE PortFacts DEF SafeInv
<1>0. dpc[d] # "unbound" => dirq[d] \in Irqs
  BY DEF Types, SlotsApart
<1>1. CASE AllocXenIrq(d)
  BY <1>0, <1>1 DEF PortsMapped, SlotsApart, Holds, Types, AllocXenIrq, xen, interrupt, GivenPorts
<1>2. CASE BindFails(d)
  BY <1>0, <1>2 DEF PortsMapped, SlotsApart, Holds, Types, BindFails, xen, interrupt, GivenPorts
<1>3. CASE Bind(d)
  <2>1. PICK p \in Ports : /\ open' = open \cup {p}
                           /\ evtchn' = [evtchn EXCEPT ![dirq[d]] = p]
                           /\ to_irq' = [to_irq EXCEPT ![p] = dirq[d]]
                           /\ d \in Callers => p = CallerPort[d]
                           /\ d \notin Callers => p \notin open
    BY <1>3, EvtchnAssumption DEF Bind
  <2>2. dirq[d] \in Irqs /\ handler[dirq[d]] = None /\ evtchn[dirq[d]] = 0
    BY <1>0, <1>3 DEF Bind, SlotsApart, PortsMapped, Types
  <2>3. \A i \in Irqs : evtchn[i] # p
    <3>1. CASE d \in Callers
      BY <1>3, <2>1, <3>1, EvtchnAssumption DEF Bind, SlotsApart, PortsMapped, Types, GivenPorts
    <3>2. CASE d \notin Callers
      BY <2>1, <3>2 DEF PortsMapped
    <3>3. QED
      BY <3>1, <3>2
  <2>4. d \notin Callers => p \notin GivenPorts
    BY <2>1 DEF PortsMapped
  <2>5. to_irq[p] = -1
    BY <2>3 DEF PortsMapped, Types
  <2>6. d # None
    BY EvtchnAssumption
  <2>7. /\ handler' = [handler EXCEPT ![dirq[d]] = d]
        /\ dpc' = [dpc EXCEPT ![d] = "unmask"]
        /\ dirq' = dirq
        /\ close' = IF d \in Callers THEN close \ {dirq[d]} ELSE close \cup {dirq[d]}
    BY <1>3 DEF Bind
  <2>8. \A q \in Ports : to_irq'[q] # -1 =>
          /\ evtchn'[to_irq'[q]] = q /\ handler'[to_irq'[q]] # None
          /\ dpc'[handler'[to_irq'[q]]] \in {"unmask", "bound"}
    BY <2>1, <2>2, <2>6, <2>7 DEF PortsMapped, Types
  <2>9. \A i \in Irqs : evtchn'[i] # 0 =>
          /\ handler'[i] # None /\ evtchn'[i] \in open'
          /\ dpc'[handler'[i]] # "clear" => to_irq'[evtchn'[i]] = i
          /\ handler'[i] \in Callers => evtchn'[i] = CallerPort[handler'[i]] /\ i \notin close'
          /\ handler'[i] \notin Callers => evtchn'[i] \notin GivenPorts /\ i \in close'
    BY <1>3, <2>1, <2>2, <2>3, <2>4, <2>6, <2>7 DEF PortsMapped, SlotsApart, Types, Bind
  <2>10. QED
    BY <2>1, <2>2, <2>3, <2>7, <2>8, <2>9 DEF PortsMapped, SlotsApart, Types
<1>4. CASE Unmask(d)
  BY <1>0, <1>4 DEF PortsMapped, SlotsApart, Holds, Types, Unmask, xen, interrupt, GivenPorts
<1>5. CASE Unbind(d)
  BY <1>0, <1>5 DEF PortsMapped, SlotsApart, Holds, Types, Unbind, xen, interrupt, GivenPorts
<1>6. CASE UnbindClears(d)
  BY <1>0, <1>6 DEF PortsMapped, SlotsApart, Holds, Types, UnbindClears, xen, interrupt, GivenPorts
<1>7. CASE FreeXenIrq(d)
  BY <1>0, <1>7 DEF PortsMapped, SlotsApart, Holds, Types, FreeXenIrq, xen, interrupt, GivenPorts
<1>8. QED
  BY <1>1, <1>2, <1>3, <1>4, <1>5, <1>6, <1>7 DEF Proceeds

LEMMA PortsStep == SafeInv /\ PortsMapped /\ [Next]_vars => PortsMapped'
<1> SUFFICES ASSUME SafeInv, PortsMapped, [Next]_vars PROVE PortsMapped'
  OBVIOUS
<1>1. CASE \E d \in Drivers : AllocXenIrq(d) \/ BindFails(d) \/ Bind(d) \/ Unbind(d) \/ Proceeds(d)
  BY <1>1, DriverPorts
<1>2. CASE UNCHANGED <<to_irq, evtchn, handler, close, open, dpc, dirq>>
  BY <1>2 DEF PortsMapped
<1>3. Interrupt => UNCHANGED <<to_irq, evtchn, handler, close, open, dpc, dirq>>
  BY DEF Interrupt, Enter, Exchange, NextWord, NextPort, ClearBit, Lookup, NoHandler,
         SetInHandler, CallHandler, HandlerReturns, Recheck, slots, drivers, xen
<1>4. Raise \/ (\E p \in Ports : Send(p)) \/ UNCHANGED vars
         => UNCHANGED <<to_irq, evtchn, handler, close, open, dpc, dirq>>
  BY DEF Raise, Send, vars, slots, drivers, xen
<1>5. CASE IrqResume
  BY <1>5, PortFacts DEF IrqResume, PortsMapped, SafeInv, SlotsApart, Types, Holds, drivers
<1>6. QED
  BY <1>1, <1>2, <1>3, <1>4, <1>5 DEF Next

(* What the interrupt handler takes it keeps in mind: selector bits in l1  *)
(* until no port of the word is active, a port until its handler is called.*)
LEMMA InterruptEvents == FullInv /\ Interrupt => EventsKept'
<1> SUFFICES ASSUME FullInv, Interrupt PROVE EventsKept'
  OBVIOUS
<1> USE PortFacts DEF FullInv, SafeInv, EventsKept
<1>1. CASE Enter
  BY <1>1 DEF Types, Enter, slots, drivers
<1>2. CASE Exchange
  <2>1. /\ pc = "entered" /\ l1' = sel /\ sel' = {}
        /\ sel # {} => pc' = "words"
        /\ pc' \in {"idle", "words"}
        /\ UNCHANGED <<pending, mask, owed, to_irq, port, irq, handler, dpc>>
    BY <1>2 DEF Exchange, slots, drivers
  <2>2. QED
    BY <2>1 DEF Types
<1>3. CASE NextWord
  <2>1. /\ pc = "words" /\ pc' \in {"recheck", "clear"} /\ l1i' \in l1
        /\ UNCHANGED <<pending, mask, sel, upcall, raising, owed, to_irq, irq, handler, dpc, l1>>
    BY <1>3 DEF NextWord, Pick, xen, slots, drivers
  <2>2. QED
    BY <2>1 DEF Types
<1>4. CASE NextPort
  <2>1. /\ pc = "inner" /\ pc' \in {"recheck", "clear"} /\ l1i' = l1i
        /\ UNCHANGED <<pending, mask, sel, upcall, raising, owed, to_irq, irq, handler, dpc, l1>>
    BY <1>4 DEF NextPort, Pick, xen, slots, drivers
  <2>2. QED
    BY <2>1 DEF Types
<1>5. CASE ClearBit
  BY <1>5 DEF Types, ClearBit, slots, drivers
<1>6. CASE Lookup
  <2>1. /\ pc = "lookup" /\ pc' \in {"inner", "recheck", "lock"}
        /\ l1i' = l1i
        /\ pc' = "lock" => irq' = to_irq[port] /\ port' = port
        /\ pc' # "lock" => to_irq[port] < 0
        /\ UNCHANGED <<pending, mask, sel, upcall, raising, owed, to_irq, handler, dpc, l1>>
    BY <1>6 DEF Lookup, Continue, xen, slots, drivers
  <2>2. port \in owed => to_irq[port] >= 0
    BY DEF Types
  <2>3. QED
    BY <2>1, <2>2 DEF Types
<1>7. CASE NoHandler
  <2>1. /\ pc = "lock" /\ handler[irq] = None /\ pc' \in {"inner", "recheck"} /\ l1i' = l1i
        /\ UNCHANGED <<pending, mask, sel, upcall, raising, owed, to_irq, handler, dpc, l1>>
    BY <1>7 DEF NoHandler, Continue, xen, slots, drivers
  <2>2. owed \subseteq pending
    BY <2>1 DEF PortsMapped, Types
  <2>3. QED
    BY <2>1, <2>2 DEF Types
<1>8. CASE SetInHandler
  <2>1. /\ pc = "lock" /\ pc' = "call"
        /\ owed' = IF to_irq[port] = irq THEN owed \ {port} ELSE owed
        /\ UNCHANGED <<pending, mask, sel, upcall, raising, to_irq, handler, dpc, l1, l1i, port, irq>>
    BY <1>8 DEF SetInHandler, xen, drivers
  <2>2. QED
    BY <2>1 DEF Types
<1>9. CASE CallHandler
  BY <1>9 DEF Types, CallHandler, xen, slots, drivers
<1>10. CASE HandlerReturns
  <2>1. /\ pc = "handler" /\ pc' \in {"inner", "recheck"} /\ l1i' = l1i
        /\ UNCHANGED <<pending, mask, sel, upcall, raising, owed, to_irq, handler, dpc, l1>>
    BY <1>10 DEF HandlerReturns, Continue, xen, drivers
  <2>2. QED
    BY <2>1 DEF Types
<1>11. CASE Recheck
  <2>1. /\ pc = "recheck" /\ pc' \in {"idle", "words"}
        /\ l1' = IF Active(l1i) = {} THEN l1 \ {l1i} ELSE l1
        /\ l1' # {} => pc' = "words"
        /\ UNCHANGED <<pending, mask, sel, upcall, raising, owed, to_irq, handler, dpc, port, irq>>
    BY <1>11 DEF Recheck, xen, slots, drivers
  <2>2. \A p \in pending \ mask : Word(p) \in sel \/ Word(p) \in l1'
    BY <2>1 DEF Active, Types
  <2>3. QED
    BY <2>1, <2>2 DEF Types
<1>12. QED
  BY <1>1, <1>2, <1>3, <1>4, <1>5, <1>6, <1>7, <1>8, <1>9, <1>10, <1>11 DEF Interrupt

LEMMA DriverEvents ==
    ASSUME FullInv, NEW d \in Drivers,
           AllocXenIrq(d) \/ BindFails(d) \/ Bind(d) \/ Unbind(d) \/ Proceeds(d)
    PROVE  EventsKept'
<1> USE PortFacts DEF FullInv, SafeInv, EventsKept
<1>0. dpc[d] # "unbound" => dirq[d] \in Irqs
  BY DEF Types, SlotsApart
<1>1. CASE AllocXenIrq(d)
  BY <1>1 DEF AllocXenIrq, PortsMapped, Types, xen, interrupt
<1>2. CASE BindFails(d)
  BY <1>2 DEF BindFails, PortsMapped, Types, xen, interrupt
<1>3. CASE Bind(d)
  <2>1. PICK p \in Ports : /\ to_irq' = [to_irq EXCEPT ![p] = dirq[d]]
                           /\ evtchn' = [evtchn EXCEPT ![dirq[d]] = p]
    BY <1>3, EvtchnAssumption DEF Bind
  <2>2. dirq[d] \in Irqs /\ handler[dirq[d]] = None
    BY <1>0, <1>3 DEF Bind, SlotsApart, Types
  <2>3. PortsMapped'
    BY <1>3, DriverPorts
  <2>4. to_irq[p] = -1
    <3>1. to_irq[p] # -1 => evtchn'[to_irq[p]] = p /\ to_irq[p] # dirq[d] /\ to_irq[p] \in Irqs
      BY <2>1, <2>2 DEF PortsMapped, Types
    <3>2. evtchn'[dirq[d]] = p
      BY <2>1, <2>2 DEF Types
    <3>3. QED
      BY <2>2, <2>3, <3>1, <3>2 DEF PortsMapped
  <2>5. /\ handler' = [handler EXCEPT ![dirq[d]] = d] /\ dpc' = [dpc EXCEPT ![d] = "unmask"]
        /\ UNCHANGED <<pending, mask, sel, upcall, raising, owed, pc, l1, l1i, port, irq>>
    BY <1>3 DEF Bind, interrupt
  <2>6. p \notin owed
    BY <2>4
  <2>7. QED
    BY <2>1, <2>2, <2>5, <2>6 DEF PortsMapped, Types
<1>4. CASE Unmask(d)
  <2>1. dirq[d] \in Irqs /\ evtchn[dirq[d]] \in Ports /\ to_irq[evtchn[dirq[d]]] = dirq[d]
    BY <1>0, <1>4 DEF Unmask, SlotsApart, PortsMapped, Types
  <2>2. \A p \in mask' : to_irq[p] # -1 => dpc'[handler[to_irq[p]]] = "unmask"
    BY <1>4, <2>1 DEF Unmask, SlotsApart, PortsMapped, Types
  <2>3. QED
    BY <1>4, <2>1, <2>2, ZenonT(60) DEF Unmask, Types, interrupt
<1>5. CASE Unbind(d)
  <2>1. dirq[d] \in Irqs
    BY <1>0, <1>5 DEF Unbind
  <2>2. CASE evtchn[dirq[d]] # 0
    BY <1>5, <2>1, <2>2 DEF Unbind, PortsMapped, SlotsApart, Types, interrupt
  <2>3. CASE evtchn[dirq[d]] = 0
    BY <1>5, <2>1, <2>3 DEF Unbind, PortsMapped, SlotsApart, Types, interrupt
  <2>4. QED
    BY <2>2, <2>3
<1>6. CASE UnbindClears(d)
  <2>1. dirq[d] \in Irqs /\ handler[dirq[d]] = d
    BY <1>0, <1>6 DEF UnbindClears, SlotsApart
  <2>2. \A p \in Ports : to_irq[p] # dirq[d]
    BY <1>6, <2>1 DEF UnbindClears, PortsMapped, Types
  <2>3. evtchn[dirq[d]] \notin owed
    BY <1>6, <2>1, <2>2 DEF UnbindClears, PortsMapped, Types
  <2>4. /\ pending' = pending \ (IF dirq[d] \in close THEN {evtchn[dirq[d]]} ELSE {})
        /\ handler' = [handler EXCEPT ![dirq[d]] = None] /\ dpc' = [dpc EXCEPT ![d] = "spin"]
        /\ UNCHANGED <<mask, sel, upcall, raising, owed, to_irq, pc, l1, l1i, port, irq>>
    BY <1>6 DEF UnbindClears, interrupt
  <2>5. QED
    BY <2>1, <2>2, <2>3, <2>4 DEF PortsMapped, Types
<1>7. CASE FreeXenIrq(d)
  BY <1>7 DEF FreeXenIrq, PortsMapped, Types, xen, interrupt
<1>8. QED
  BY <1>1, <1>2, <1>3, <1>4, <1>5, <1>6, <1>7 DEF Proceeds

LEMMA EventsStep == FullInv /\ [Next]_vars => EventsKept'
<1> SUFFICES ASSUME FullInv, [Next]_vars PROVE EventsKept'
  OBVIOUS
<1>1. CASE Interrupt
  BY <1>1, InterruptEvents
<1>2. CASE \E d \in Drivers : AllocXenIrq(d) \/ BindFails(d) \/ Bind(d) \/ Unbind(d) \/ Proceeds(d)
  BY <1>2, DriverEvents
<1>3. CASE IrqResume
  BY <1>3 DEF IrqResume, EventsKept, interrupt, drivers
<1>4. ASSUME NEW p \in Ports, Send(p) PROVE EventsKept'
  <2>1. /\ sel \subseteq sel'
        /\ p \in mask \/ p \in pending \/ Word(p) \in sel'
        /\ sel' # sel => raising'
    BY <1>4 DEF FullInv, SafeInv, Types, Send
  <2>2. QED
    BY <1>4, <2>1 DEF FullInv, SafeInv, Types, EventsKept, Send, slots, interrupt, drivers
<1>5. CASE Raise
  BY <1>5 DEF FullInv, EventsKept, Raise, slots, interrupt, drivers
<1>6. CASE UNCHANGED vars
  BY <1>6 DEF FullInv, EventsKept, vars, xen, slots, interrupt, drivers
<1>7. QED
  BY <1>1, <1>2, <1>3, <1>4, <1>5, <1>6 DEF Next

(* No event is lost: evtchn_interrupt comes to every event for a handler   *)
(* that stays bound, whatever arrives, is bound or unbound meanwhile.      *)
THEOREM EventsAreKept == Spec => []NoEventLost
<1>1. Init => FullInv
  <2>1. Init => SlotsApart /\ HandlerHeld
    BY DEF Init, SlotsApart, HandlerHeld, Holds
  <2>2. Init => PortsMapped
    BY PortFacts DEF Init, PortsMapped
  <2>3. Init => EventsKept
    BY DEF Init, EventsKept
  <2>4. QED
    BY <2>1, <2>2, <2>3, InitTypes DEF FullInv, SafeInv
<1>2. FullInv /\ [Next]_vars => FullInv'
  BY TypesStep, SlotsStep, HeldStep, PortsStep, EventsStep DEF FullInv, SafeInv
<1>3. FullInv => NoEventLost
  BY DEF FullInv, SafeInv, EventsKept, NoEventLost
<1>4. QED
  BY <1>1, <1>2, <1>3, PTL DEF Spec
=============================================================================
