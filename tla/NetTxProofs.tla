----------------------------- MODULE NetTxProofs ----------------------------
(***************************************************************************)
(* The transmit path for every ring size, index width and packet size:     *)
(* that each packet is on the ring once, that there is room whenever the   *)
(* queue runs, and that what the backend has answered is collected.        *)
(*                                                                         *)
(* Everything is counted from rsp_cons, where the window of unhandled      *)
(* requests and responses begins.                                          *)
(***************************************************************************)
EXTENDS NetTx, TLAPS, FiniteSetTheorems

GcType   == [pc : {"none", "read", "clean", "ask", "look"}, prod : Idx]
BackType == [pvt : Idx, pushed : BOOLEAN, old : Idx]

Ahead(i) == Minus(i, rsp_cons)

(* What the k-th slot of the window names.                                 *)
Named(k) == ring[Slot(rsp_cons + k)]
Places   == 0 .. Outstanding - 1

(* Where the lifecycle and the holder of tx_lock are.                      *)
Staged ==
    /\ lock = "free" <=> gc.pc = "none"
    /\ lock \in {"xmit", "int"} => conn = "on"
    /\ lock = "connect" => conn = "talked" /\ tx_skbs = {}
    /\ conn # "on" => back = Quiet /\ ~irq
    /\ conn = "talked" => req_prod = 0 /\ rsp_prod = 0 /\ rsp_cons = 0

(* The order of the indices, which the collector may only follow.          *)
Ordered ==
    /\ conn = "on" => /\ Ahead(rsp_prod) <= Ahead(back.pvt)
                      /\ Ahead(back.pvt) <= Outstanding
                      /\ Outstanding < Size
    /\ gc.pc = "clean" => Ahead(gc.prod) <= Ahead(rsp_prod)
    /\ gc.pc \in {"ask", "look"} => gc.prod = rsp_cons

(* The window names each packet in one place, and nothing else.            *)
OnRing ==
    conn = "on" =>
        /\ \A k \in Places : Named(k) \in {0} \cup tx_skbs
        /\ \A id \in tx_skbs : \E k \in Places : Named(k) = id
        /\ \A j, k \in Places : Named(j) = Named(k) /\ Named(k) # 0 => j = k

(* The queue runs only while the largest packet fits.                      *)
Room == up /\ ~stopped /\ conn = "on" /\ lock # "xmit" => SlotAvailable

(* The event is asked for halfway through what was pending, and while      *)
(* nobody collects, whoever passes it will notify.                         *)
Asked ==
    /\ lock = "free" \/ gc.pc = "look" => conn = "off" \/ rsp_event = Halfway(rsp_cons)
    /\ lock = "free" /\ conn = "on" /\ ~irq =>
          \/ Ahead(rsp_prod) <= Outstanding \div 2
          \/ /\ back.pushed
             /\ Ahead(rsp_prod) - Minus(rsp_prod, back.old) <= Outstanding \div 2

TInv == Types /\ Staged /\ Ordered /\ OnRing /\ Room /\ Asked
-----------------------------------------------------------------------------
USE NetTxAssumption

(* Distances on the circle of indices.                                     *)
LEMMA MinusType == \A a, b \in Idx : Minus(a, b) \in Idx
BY DEF Minus, Idx

LEMMA PlusType == \A a \in Idx, n \in Nat : Plus(a, n) \in Idx
BY DEF Plus, Idx

LEMMA Once ==
    \A v \in 0 .. 2 * Wrap - 1 : v % Wrap = IF v < Wrap THEN v ELSE v - Wrap
OBVIOUS

LEMMA MinusIs ==
    ASSUME NEW a \in Idx, NEW c \in Idx
    PROVE  Minus(a, c) = IF a < c THEN a - c + Wrap ELSE a - c
<1>1. PICK v \in 0 .. 2 * Wrap - 1 : v = a - c + Wrap
  BY DEF Idx
<1>2. v % Wrap = IF v < Wrap THEN v ELSE v - Wrap
  BY Once
<1> QED
  BY <1>1, <1>2 DEF Minus, Idx

LEMMA MinusSelf == \A a \in Idx : Minus(a, a) = 0
BY DEF Minus, Idx

LEMMA MinusShift ==
    ASSUME NEW a \in Idx, NEW b \in Idx, NEW c \in Idx, Minus(b, c) <= Minus(a, c)
    PROVE  Minus(a, b) = Minus(a, c) - Minus(b, c)
<1>1. /\ Minus(a, b) = IF a < b THEN a - b + Wrap ELSE a - b
      /\ Minus(a, c) = IF a < c THEN a - c + Wrap ELSE a - c
      /\ Minus(b, c) = IF b < c THEN b - c + Wrap ELSE b - c
  BY MinusIs
<1> QED
  BY <1>1 DEF Idx

LEMMA MinusPlus ==
    ASSUME NEW a \in Idx, NEW c \in Idx, NEW n \in Nat, Minus(a, c) + n < Wrap
    PROVE  Minus(Plus(a, n), c) = Minus(a, c) + n
<1>1. n < Wrap /\ a + n \in 0 .. 2 * Wrap - 1
  <2>1. Minus(a, c) = IF a < c THEN a - c + Wrap ELSE a - c
    BY MinusIs
  <2> QED
    BY <2>1 DEF Idx
<1>2. Plus(a, n) = IF a + n < Wrap THEN a + n ELSE a + n - Wrap
  <2>1. PICK v \in 0 .. 2 * Wrap - 1 : v = a + n
    BY <1>1
  <2>2. v % Wrap = IF v < Wrap THEN v ELSE v - Wrap
    BY Once
  <2>3. Plus(a, n) = v % Wrap
    BY <2>1 DEF Plus
  <2>4. Plus(a, n) = IF v < Wrap THEN v ELSE v - Wrap
    BY <2>2, <2>3, Zenon
  <2> QED
    BY <2>1, <2>4 DEF Idx
<1>3. Plus(a, n) \in Idx
  BY PlusType
<1>4. /\ Minus(a, c) = IF a < c THEN a - c + Wrap ELSE a - c
      /\ Minus(Plus(a, n), c) = IF Plus(a, n) < c THEN Plus(a, n) - c + Wrap
                                                  ELSE Plus(a, n) - c
  BY <1>3, MinusIs
<1> QED
  BY <1>1, <1>2, <1>3, <1>4 DEF Idx

LEMMA MinusInjective ==
    ASSUME NEW a \in Idx, NEW b \in Idx, NEW c \in Idx, Minus(a, c) = Minus(b, c)
    PROVE  a = b
BY DEF Minus, Idx

(* Quotients and remainders.                                               *)
LEMMA DivMod ==
    ASSUME NEW n \in Nat, NEW m \in Nat \ {0}
    PROVE  \E q \in Nat, r \in Nat : r = n % m /\ r < m /\ n = m * q + r
<1> DEFINE q == n \div m
           r == n % m
<1>1. n = q * m + r
  <2>1. \A k, d \in Int : d > 0 => k = (k \div d) * d + (k % d)
    OBVIOUS
  <2> QED
    BY <2>1
<1>2. r \in Nat /\ q \in Nat /\ r = n % m /\ r < m
  OBVIOUS
<1> HIDE DEF q, r
<1>3. q * m = m * q
  BY <1>2
<1>4. n = m * q + r
  BY <1>1, <1>3
<1> QED
  BY <1>2, <1>4

LEMMA SmallMultiple ==
    ASSUME NEW m \in Nat \ {0}, NEW a \in Int, m * a < m, -(m * a) < m
    PROVE  a = 0
<1>1. CASE a >= 1
  <2>1. m * a >= m * 1
    BY <1>1
  <2> QED
    BY <2>1
<1>2. CASE a <= -1
  <2>1. m * a <= m * (-1)
    BY <1>2
  <2> QED
    BY <2>1
<1> QED
  BY <1>1, <1>2

LEMMA Remainder ==
    ASSUME NEW m \in Nat \ {0}, NEW q \in Nat, NEW r \in 0 .. m - 1
    PROVE  (m * q + r) % m = r
<1> DEFINE n == m * q + r
<1>0. m * q \in Nat
  OBVIOUS
<1>1. n \in Nat
  BY <1>0
<1>2. PICK p \in Nat, t \in Nat : t = n % m /\ t < m /\ n = m * p + t
  BY <1>1, DivMod, Zenon
<1>3. m * (q - p) = m * q - m * p
  OBVIOUS
<1>4. m * q - m * p = t - r
  <2> DEFINE u == m * p
             v == m * q
  <2>1. u \in Nat /\ v \in Nat
    OBVIOUS
  <2>2. v + r = u + t
    BY <1>2
  <2>3. r \in Nat
    OBVIOUS
  <2> HIDE DEF u, v
  <2>4. v - u = t - r
    BY <2>1, <2>2, <2>3
  <2> QED
    BY <2>4 DEF u, v
<1>5. q - p = 0
  <2> DEFINE d == q - p
             x == m * d
  <2>1. x = t - r
    BY <1>3, <1>4
  <2> HIDE DEF x
  <2>2. x < m /\ -x < m
    BY <1>2, <2>1
  <2>3. d \in Int
    OBVIOUS
  <2> HIDE DEF d
  <2> QED
    BY <2>2, <2>3, SmallMultiple DEF x, d
<1>6. t = r
  BY <1>3, <1>4, <1>5, <1>2
<1> QED
  BY <1>2, <1>6

LEMMA SizeDivMod ==
    \A n \in Nat : \E q \in Nat, r \in Nat : r = n % Size /\ r < Size /\ n = Size * q + r
<1>1. Size \in Nat \ {0}
  OBVIOUS
<1> QED
  BY <1>1, DivMod, Zenon

LEMMA SizeRemainder ==
    \A q \in Nat : \A r \in 0 .. Size - 1 : (Size * q + r) % Size = r
<1>1. Size \in Nat \ {0}
  OBVIOUS
<1> QED
  BY <1>1, Remainder, Zenon

(* Slots repeat after Size entries, also across the wrap.                  *)
LEMMA SlotAhead ==
    ASSUME NEW x \in Nat, NEW i \in 0 .. Size - 1
    PROVE  /\ Slot(x) \in 0 .. Size - 1
           /\ Slot(x + i) = IF Slot(x) + i < Size THEN Slot(x) + i ELSE Slot(x) + i - Size
<1>1. PICK q \in Nat, r \in Nat : r = x % Size /\ r < Size /\ x = Size * q + r
  BY SizeDivMod, Zenon
<1>2. CASE r + i < Size
  <2>1. x + i = Size * q + (r + i)
    BY <1>1
  <2>2. r + i \in 0 .. Size - 1
    BY <1>2
  <2>3. (Size * q + (r + i)) % Size = r + i
    BY <2>2, SizeRemainder, Zenon
  <2> QED
    BY <1>1, <1>2, <2>1, <2>3 DEF Slot
<1>3. CASE r + i >= Size
  <2>1. x + i = Size * (q + 1) + (r + i - Size)
    <3>1. Size * (q + 1) = Size * q + Size
      OBVIOUS
    <3>2. Size * q \in Nat
      OBVIOUS
    <3> QED
      BY <1>1, <3>1, <3>2
  <2>2. r + i - Size \in 0 .. Size - 1
    BY <1>1, <1>3
  <2>3. q + 1 \in Nat
    OBVIOUS
  <2>4. (Size * (q + 1) + (r + i - Size)) % Size = r + i - Size
    BY <2>2, <2>3, SizeRemainder, Zenon
  <2> QED
    BY <1>1, <1>3, <2>1, <2>4 DEF Slot
<1> QED
  BY <1>1, <1>2, <1>3

LEMMA SlotApart ==
    ASSUME NEW x \in Nat, NEW j \in 0 .. Size - 1, NEW k \in 0 .. Size - 1,
           Slot(x + j) = Slot(x + k)
    PROVE  j = k
<1>1. /\ Slot(x) \in Nat
      /\ Slot(x + j) = IF Slot(x) + j < Size THEN Slot(x) + j ELSE Slot(x) + j - Size
      /\ Slot(x + k) = IF Slot(x) + k < Size THEN Slot(x) + k ELSE Slot(x) + k - Size
  <2>1. Slot(x) \in 0 .. Size - 1
    BY SlotAhead, Zenon
  <2> QED
    BY <2>1, SlotAhead
<1> QED
  BY <1>1

LEMMA SlotWraps == \A x \in Nat : Slot(x + Wrap) = Slot(x) /\ Slot(x + Size) = Slot(x)
<1> SUFFICES ASSUME NEW x \in Nat
             PROVE  Slot(x + Wrap) = Slot(x) /\ Slot(x + Size) = Slot(x)
  OBVIOUS
<1>1. PICK q \in Nat, r \in Nat : r = x % Size /\ r < Size /\ x = Size * q + r
  BY SizeDivMod, Zenon
<1>2. PICK w \in Nat : Wrap = Size * w
  <2>1. PICK w \in Nat, t \in Nat : t = Wrap % Size /\ t < Size /\ Wrap = Size * w + t
    <3>1. Wrap \in Nat
      OBVIOUS
    <3> QED
      BY <3>1, SizeDivMod, Zenon
  <2>2. t = 0 /\ Size * w \in Nat
    BY <2>1
  <2>3. Wrap = Size * w
    BY <2>1, <2>2
  <2> QED
    BY <2>3
<1>3. Size * (q + w) = Size * q + Size * w /\ Size * (q + 1) = Size * q + Size
  OBVIOUS
<1>4. Size * q \in Nat /\ q + w \in Nat /\ q + 1 \in Nat /\ r \in 0 .. Size - 1
  BY <1>1
<1>5. x + Wrap = Size * (q + w) + r /\ x + Size = Size * (q + 1) + r
  BY <1>1, <1>2, <1>3, <1>4
<1>6. (Size * (q + w) + r) % Size = r /\ (Size * (q + 1) + r) % Size = r
  BY <1>4, SizeRemainder
<1> QED
  BY <1>1, <1>5, <1>6 DEF Slot

(* The entries after p, counted from c.                                    *)
LEMMA SlotFrom ==
    ASSUME NEW c \in Idx, NEW p \in Idx, NEW k \in Nat
    PROVE  Slot(c + (Minus(p, c) + k)) = Slot(p + k)
<1>1. c + (Minus(p, c) + k) = p + k \/ c + (Minus(p, c) + k) = (p + k) + Wrap
  <2>1. c \in Nat /\ p \in Nat /\ c < Wrap /\ p < Wrap
    BY DEF Idx
  <2>2. Minus(p, c) = p - c \/ Minus(p, c) = p - c + Wrap
    BY <2>1 DEF Minus
  <2> QED
    BY <2>1, <2>2
<1>2. p + k \in Nat
  BY DEF Idx
<1> QED
  BY <1>1, <1>2, SlotWraps

(* Where network_start_xmit finds itself in the ring.                      *)
LEMMA SlotBack ==
    ASSUME NEW x \in Nat, NEW i \in 0 .. Size - 1
    PROVE  Minus(Slot(x + i), Slot(x)) % Size = i
<1>1. /\ Slot(x) \in 0 .. Size - 1
      /\ Slot(x + i) = IF Slot(x) + i < Size THEN Slot(x) + i ELSE Slot(x) + i - Size
  BY SlotAhead
<1>2. CASE Slot(x) + i < Size
  <2>1. Minus(Slot(x + i), Slot(x)) = i
    BY <1>1, <1>2 DEF Minus
  <2> QED
    BY <2>1
<1>3. CASE Slot(x) + i >= Size
  <2>1. PICK w \in Nat, t \in Nat : t = Wrap % Size /\ t < Size /\ Wrap = Size * w + t
    <3>1. Wrap \in Nat
      OBVIOUS
    <3> QED
      BY <3>1, SizeDivMod, Zenon
  <2>2. t = 0 /\ Size * w \in Nat
    BY <2>1
  <2>3. Minus(Slot(x + i), Slot(x)) = Wrap + i - Size
    BY <1>1, <1>3 DEF Minus
  <2>4. Size * (w - 1) = Size * w - Size
    OBVIOUS
  <2>5. Wrap + i - Size = Size * (w - 1) + i
    BY <2>1, <2>2, <2>4
  <2>6. w - 1 \in Nat
    <3>1. CASE w = 0
      BY <2>1, <2>2, <3>1
    <3> QED
      BY <3>1
  <2>7. (Size * (w - 1) + i) % Size = i
    BY <2>6, SizeRemainder, Zenon
  <2> QED
    BY <2>3, <2>5, <2>7
<1> QED
  BY <1>1, <1>2, <1>3
-----------------------------------------------------------------------------
LEMMA Distances ==
    ASSUME Types
    PROVE  /\ Outstanding \in Nat /\ Outstanding < Wrap
           /\ Ahead(rsp_prod) \in Nat /\ Ahead(back.pvt) \in Nat /\ Ahead(gc.prod) \in Nat
           /\ Minus(rsp_prod, back.old) \in Nat
<1>1. /\ req_prod \in Idx /\ rsp_cons \in Idx /\ rsp_prod \in Idx
      /\ back.pvt \in Idx /\ back.old \in Idx /\ gc.prod \in Idx
  BY DEF Types
<1>2. \A a, b \in Idx : Minus(a, b) \in Nat /\ Minus(a, b) < Wrap
  <2>1. \A i \in Idx : i \in Nat /\ i < Wrap
    BY DEF Idx
  <2> QED
    BY <2>1, MinusType
<1> QED
  BY <1>1, <1>2 DEF Outstanding, Ahead

LEMMA GcTypes ==
    /\ NoGc \in GcType /\ NoGc.pc = "none"
    /\ [NoGc EXCEPT !.pc = "read"] \in GcType /\ [NoGc EXCEPT !.pc = "read"].pc = "read"
    /\ Quiet \in BackType /\ Quiet.pvt = 0 /\ Quiet.pushed = FALSE
<1>1. 0 \in Idx
  BY DEF Idx
<1> QED
  BY <1>1 DEF NoGc, Quiet, GcType, BackType

LEMMA NInit == Init => TInv
<1> SUFFICES ASSUME Init PROVE TInv
  OBVIOUS
<1>1. 0 \in Idx /\ 1 \in Idx
  BY DEF Idx
<1>2. Types
  <2>1. ring \in [0 .. Size - 1 -> {0} \cup Ids] /\ migrations \in 0 .. Migrations
    BY DEF Init
  <2> QED
    BY <1>1, <2>1, GcTypes DEF Init, Types, GcType, BackType
<1>3. Staged /\ Ordered /\ OnRing /\ Room
  BY GcTypes DEF Init, Staged, Ordered, OnRing, Room
<1>4. Asked
  BY DEF Init, Asked
<1> QED
  BY <1>2, <1>3, <1>4 DEF TInv

(* Steps that leave the ring and the packets on it alone.                  *)
LEMMA SameRing ==
    ASSUME OnRing, UNCHANGED <<req_prod, ring, rsp_cons, tx_skbs, conn>>
    PROVE  OnRing'
BY DEF OnRing, Places, Named, Outstanding, Slot, Minus

LEMMA InterruptStep ==
    ASSUME TInv, Interrupt
    PROVE  TInv'
<1> USE DEF Interrupt, TInv, shared
<1>1. Types'
  BY GcTypes DEF Types, GcType
<1>2. Staged' /\ Ordered'
  BY GcTypes DEF Staged, Ordered, Ahead, Outstanding
<1>3. OnRing'
  BY SameRing
<1>4. Room'
  BY GcTypes DEF Staged, Room, SlotAvailable, Outstanding
<1>5. Asked'
  BY GcTypes DEF Staged, Asked, Halfway
<1> QED
  BY <1>1, <1>2, <1>3, <1>4, <1>5

LEMMA GcReadsStep ==
    ASSUME TInv, GcReads
    PROVE  TInv'
<1> USE DEF GcReads, TInv, shared
<1>1. Types'
  BY DEF Types
<1>2. Staged'
  BY DEF Staged
<1>3. Ordered'
  BY Distances DEF Ordered, Ahead, Outstanding
<1>4. OnRing'
  BY SameRing
<1>5. Room' /\ Asked'
  BY DEF Staged, Room, Asked, Ahead, Outstanding, SlotAvailable
<1> QED
  BY <1>1, <1>2, <1>3, <1>4, <1>5

LEMMA GcAsksStep ==
    ASSUME TInv, GcAsks
    PROVE  TInv'
<1> USE DEF GcAsks, TInv
<1>1. Types'
  <2>1. Minus(req_prod, gc.prod) \in Nat /\ gc.prod \in Idx
    BY MinusType DEF Types, Idx
  <2>2. Minus(req_prod, gc.prod) \div 2 + 1 \in Nat
    BY <2>1
  <2>3. Halfway(gc.prod) \in Idx
    BY <2>1, <2>2, PlusType DEF Halfway
  <2> QED
    BY <2>3 DEF Types
<1>2. Staged' /\ Ordered'
  BY DEF Staged, Ordered, Ahead, Outstanding
<1>3. OnRing'
  BY SameRing
<1>4. Room'
  BY DEF Room, SlotAvailable, Outstanding
<1>5. Asked'
  BY DEF Ordered, Staged, Asked, Halfway
<1> QED
  BY <1>1, <1>2, <1>3, <1>4, <1>5

LEMMA GcLooksStep ==
    ASSUME TInv, GcLooks
    PROVE  TInv'
<1> USE DEF GcLooks, TInv, shared
<1>1. Types'
  <2>1. stopped' \in BOOLEAN
    BY Zenon DEF Types, Woken
  <2>2. gc' \in GcType /\ lock' \in {"free", "xmit", "int", "connect"}
        /\ conn' \in {"off", "talked", "on"}
    BY GcTypes DEF Types
  <2> QED
    BY <2>1, <2>2 DEF Types, GcType
<1>2. Staged'
  BY GcTypes DEF Staged
<1>3. conn' = "on" /\ conn # "on" =>
        /\ Outstanding = 0 /\ Ahead(rsp_prod) = 0 /\ Ahead(back.pvt) = 0 /\ tx_skbs = {}
  <2>1. 0 \in Idx
    BY DEF Idx
  <2> QED
    BY <2>1, MinusSelf DEF Staged, Outstanding, Ahead, Quiet
<1>4. Ordered'
  <2>1. gc'.pc \notin {"clean", "ask", "look"}
    BY GcTypes
  <2>2. conn' = "on" => /\ Ahead(rsp_prod) <= Ahead(back.pvt)
                        /\ Ahead(back.pvt) <= Outstanding
                        /\ Outstanding < Size
    BY <1>3 DEF Ordered
  <2> QED
    BY <2>1, <2>2 DEF Ordered, Ahead, Outstanding
<1>5. OnRing'
  <2>1. CASE conn' = conn
    BY <2>1, SameRing
  <2>2. CASE conn' = "on" /\ conn # "on"
    BY <1>3, <2>2 DEF OnRing, Places, Outstanding
  <2> QED
    BY <2>1, <2>2
<1>6. Room'
  <2>1. CASE gc.prod # rsp_prod
    BY <2>1 DEF Room, SlotAvailable, Outstanding
  <2>2. CASE gc.prod = rsp_prod
    <3>1. stopped' = (Woken \/ (lock = "xmit" /\ ~SlotAvailable))
      BY <2>2
    <3>2. ~stopped' => (lock = "xmit" => SlotAvailable) /\ (stopped => SlotAvailable)
      BY <3>1, Zenon DEF Types, Woken
    <3>3. conn' = "on" /\ conn # "on" => SlotAvailable
      BY <1>3 DEF SlotAvailable
    <3> QED
      BY <3>2, <3>3 DEF Room, SlotAvailable, Outstanding
  <2> QED
    BY <2>1, <2>2
<1>7. Asked'
  <2>1. CASE gc.prod # rsp_prod
    BY <2>1, GcTypes DEF Asked, Staged
  <2>2. CASE gc.prod = rsp_prod
    <3>1. Ahead(rsp_prod) = 0
      BY <2>2, MinusSelf DEF Ordered, Ahead, Types
    <3>2. conn' = "off" \/ rsp_event = Halfway(rsp_cons)
      BY DEF Asked, Staged
    <3>3. 0 <= Outstanding \div 2
      BY Distances
    <3> QED
      BY <2>2, <3>1, <3>2, <3>3 DEF Asked, Halfway, Ahead, Outstanding
  <2> QED
    BY <2>1, <2>2
<1> QED
  BY <1>1, <1>2, <1>4, <1>5, <1>6, <1>7

LEMMA OpenStep ==
    ASSUME TInv, Open, "full" \notin When
    PROVE  TInv'
<1> USE DEF Open, TInv, shared
<1>1. Types'
  BY DEF Types
<1>2. Staged' /\ Ordered' /\ Asked'
  BY DEF Staged, Ordered, Asked, Ahead, Outstanding, Halfway
<1>3. OnRing'
  BY SameRing
<1>4. Room'
  BY DEF Room, SlotAvailable, Outstanding
<1> QED
  BY <1>1, <1>2, <1>3, <1>4

LEMMA CloseStep ==
    ASSUME TInv, Close
    PROVE  TInv'
<1> USE DEF Close, TInv, shared
<1>1. Types'
  BY DEF Types
<1>2. Staged' /\ Ordered' /\ Asked'
  BY DEF Staged, Ordered, Asked, Ahead, Outstanding, Halfway
<1>3. OnRing' /\ Room'
  BY SameRing DEF Room
<1> QED
  BY <1>1, <1>2, <1>3

LEMMA ResumeStep ==
    ASSUME TInv, Resume
    PROVE  TInv'
<1> USE DEF Resume, TInv, shared
<1>1. Types'
  <2>1. migrations' \in 0 .. Migrations
    BY DEF Types
  <2> QED
    BY <2>1, GcTypes DEF Types, BackType
<1>2. Staged' /\ Ordered' /\ Asked'
  BY DEF Staged, Ordered, Asked, Ahead
<1>3. OnRing' /\ Room'
  BY DEF OnRing, Room
<1> QED
  BY <1>1, <1>2, <1>3

LEMMA TalkStep ==
    ASSUME TInv, Talk
    PROVE  TInv'
<1> USE DEF Talk, TInv
<1>1. 0 \in Idx /\ 1 \in Idx
  BY DEF Idx
<1>2. Types'
  BY <1>1 DEF Types
<1>5. lock = "free" /\ gc.pc = "none"
  BY DEF Types, Staged
<1>3. Staged' /\ Ordered' /\ OnRing' /\ Room'
  BY <1>5 DEF Staged, Ordered, OnRing, Room
<1>4. Asked'
  <2>1. Minus(0, 0) = 0
    BY <1>1, MinusSelf
  <2>2. Plus(0, 1) = 1
    BY <1>1 DEF Plus, Idx
  <2> QED
    BY <2>1, <2>2 DEF Asked, Halfway
<1> QED
  BY <1>2, <1>3, <1>4

LEMMA ConnectStep ==
    ASSUME TInv, Connect
    PROVE  TInv'
<1> USE DEF Connect, TInv, shared
<1>1. Types'
  BY GcTypes DEF Types, GcType
<1>2. Staged' /\ Ordered' /\ OnRing' /\ Room' /\ Asked'
  BY GcTypes DEF Staged, Ordered, OnRing, Room, Asked
<1> QED
  BY <1>1, <1>2

LEMMA PublishStep ==
    ASSUME TInv, Publish
    PROVE  TInv'
<1> USE DEF Publish, TInv
<1>1. Types'
  BY DEF Types
<1>2. Staged'
  BY DEF Staged
<1>3. Ordered'
  BY Distances DEF Ordered, Ahead, Outstanding
<1>4. OnRing'
  BY SameRing
<1>5. Room'
  BY DEF Room, SlotAvailable, Outstanding
<1>6. Asked'
  <2>1. Ahead(back.pvt) - Minus(back.pvt, rsp_prod) = Ahead(rsp_prod)
    <3>1. Minus(back.pvt, rsp_prod) = Ahead(back.pvt) - Ahead(rsp_prod)
      BY MinusShift DEF Ahead, Types, Ordered
    <3> QED
      BY <3>1, Distances
  <2>2. /\ rsp_prod' = back.pvt /\ back'.pushed /\ back'.old = rsp_prod
        /\ UNCHANGED <<lock, conn, irq, gc, rsp_event, rsp_cons, req_prod>> /\ ~back.pushed
    BY DEF Types
  <2>3. Asked
    OBVIOUS
  <2> QED
    BY <2>1, <2>2, <2>3 DEF Asked, Halfway, Ahead, Outstanding
<1> QED
  BY <1>1, <1>2, <1>3, <1>4, <1>5, <1>6

LEMMA NotifyStep ==
    ASSUME TInv, Notify
    PROVE  TInv'
<1> USE DEF Notify, TInv, shared
<1>1. Types'
  <2>1. 0 \in Idx
    BY DEF Idx
  <2> QED
    BY <2>1 DEF Types
<1>2. Staged'
  BY GcTypes DEF Staged
<1>3. Ordered'
  BY DEF Ordered, Ahead, Outstanding, Types
<1>4. OnRing'
  BY SameRing
<1>5. Room'
  BY DEF Room, SlotAvailable, Outstanding
<1>6. Asked'
  <2> DEFINE half == Outstanding \div 2
             p    == Ahead(rsp_prod)
             m    == Minus(rsp_prod, back.old)
  <2>1. half \in Nat /\ p \in Nat /\ m \in Nat /\ Outstanding \in Nat /\ p < Wrap
    <3>1. p < Wrap
      BY MinusType DEF Ahead, Types, Idx
    <3> QED
      BY <3>1, Distances
  <2>2. CASE lock = "free" /\ conn = "on" /\ ~irq /\ p > half
    <3>1. p - m <= half /\ rsp_event = Plus(rsp_cons, half + 1)
      BY <2>1, <2>2 DEF Asked, Halfway, Outstanding
    <3>2. Ahead(rsp_event) = half + 1
      <4>1. Minus(rsp_cons, rsp_cons) = 0 /\ rsp_cons \in Idx
        BY MinusSelf DEF Types
      <4>2. half + 1 \in Nat /\ 0 + (half + 1) < Wrap
        BY <2>1, <2>2
      <4> HIDE DEF half
      <4> QED
        BY <3>1, <4>1, <4>2, MinusPlus DEF Ahead
    <3>3. Minus(rsp_prod, rsp_event) = p - (half + 1)
      BY <2>1, <2>2, <3>2, MinusShift DEF Ahead, Types
    <3>4. Minus(rsp_prod, rsp_event) < m
      <4> HIDE DEF half, p, m
      <4> QED
        BY <2>1, <2>2, <3>1, <3>3
    <3>5. irq'
      BY <3>4
    <3>6. UNCHANGED <<lock, conn, gc, rsp_event, rsp_cons, req_prod>>
      OBVIOUS
    <3> QED
      BY <3>5, <3>6 DEF Asked, Halfway
  <2>3. CASE ~(lock = "free" /\ conn = "on" /\ ~irq /\ p > half)
    <3>1. /\ UNCHANGED <<lock, conn, gc, rsp_event, rsp_cons, req_prod, rsp_prod>>
          /\ irq => irq'
      OBVIOUS
    <3>2. lock = "free" /\ conn = "on" /\ ~irq' => p <= half
      BY <2>1, <2>3, <3>1
    <3> QED
      BY <3>1, <3>2 DEF Asked, Halfway, Ahead, Outstanding
  <2> QED
    BY <2>2, <2>3
<1> QED
  BY <1>1, <1>2, <1>3, <1>4, <1>5, <1>6

LEMMA GcCleansStep ==
    ASSUME TInv, GcCleans
    PROVE  TInv'
<1> USE DEF GcCleans, TInv, shared
<1> DEFINE n == Minus(gc.prod, rsp_cons)
           gone == {Named(k) : k \in 0 .. n - 1}
<1>1. /\ n \in Nat /\ Outstanding \in Nat /\ Outstanding < Wrap /\ n = Ahead(gc.prod)
      /\ n <= Ahead(rsp_prod) /\ Ahead(rsp_prod) \in Nat /\ Ahead(back.pvt) \in Nat
      /\ gc.prod \in Idx /\ rsp_cons \in Idx /\ req_prod \in Idx /\ rsp_prod \in Idx
      /\ back.pvt \in Idx
  BY Distances DEF Ahead, Ordered, Types
<1>2. conn # "off" /\ lock # "free"
  BY DEF Staged, Types
<1>3. /\ tx_skbs' = tx_skbs \ gone
      /\ rsp_cons' = gc.prod /\ gc'.pc = "ask" /\ gc'.prod = gc.prod
      /\ UNCHANGED <<req_prod, rsp_prod, back, ring, conn, lock>>
  BY DEF Named, Types
<1>4. conn = "on" => n <= Outstanding
  BY <1>1 DEF Ordered
<1>5. conn = "on" => /\ Outstanding' = Outstanding - n
                     /\ Ahead(rsp_prod)' = Ahead(rsp_prod) - n
                     /\ Ahead(back.pvt)' = Ahead(back.pvt) - n
  <2> SUFFICES ASSUME conn = "on"
               PROVE  /\ Minus(req_prod, gc.prod) = Minus(req_prod, rsp_cons) - n
                      /\ Minus(rsp_prod, gc.prod) = Minus(rsp_prod, rsp_cons) - n
                      /\ Minus(back.pvt, gc.prod) = Minus(back.pvt, rsp_cons) - n
    BY <1>3 DEF Outstanding, Ahead
  <2>1. n <= Minus(req_prod, rsp_cons) /\ n <= Minus(rsp_prod, rsp_cons)
        /\ n <= Minus(back.pvt, rsp_cons)
    BY <1>1, <1>4 DEF Ordered, Outstanding, Ahead
  <2> HIDE DEF GcCleans, TInv
  <2> QED
    BY <1>1, <2>1, MinusShift
<1>6. conn = "talked" => n = 0 /\ Outstanding' = 0
  <2> SUFFICES ASSUME conn = "talked" PROVE n = 0 /\ Outstanding' = 0
    OBVIOUS
  <2>1. Ahead(rsp_prod) = 0
    BY <1>1, MinusSelf DEF Staged, Ahead
  <2>2. n = 0
    BY <1>1, <2>1
  <2>3. gc.prod = req_prod
    BY <1>1, <2>2, MinusInjective, MinusSelf DEF Staged
  <2> QED
    BY <1>1, <1>3, <2>2, <2>3, MinusSelf DEF Outstanding
<1>7. Types'
  BY <1>1 DEF Types
<1>8. Staged'
  <2>1. conn = "talked" => gc.prod = 0
    <3>1. conn = "talked" => Minus(gc.prod, rsp_cons) = Minus(rsp_cons, rsp_cons)
      BY <1>1, <1>6, MinusSelf
    <3> QED
      BY <1>1, <3>1, MinusInjective DEF Staged
  <2> QED
    BY <1>2, <1>3, <2>1 DEF Staged
<1>9. Ordered'
  BY <1>1, <1>2, <1>3, <1>4, <1>5 DEF Ordered
<1>10. OnRing'
  <2> SUFFICES ASSUME conn = "on" PROVE OnRing'
    BY <1>3 DEF OnRing
  <2>1. Places' = 0 .. Outstanding - n - 1 /\ Places = 0 .. Outstanding - 1
    BY <1>5 DEF Places
  <2>2. \A k \in Nat : Named(k)' = Named(n + k)
    <3>1. \A k \in Nat : Slot(rsp_cons + (n + k)) = Slot(gc.prod + k)
      BY <1>1, SlotFrom
    <3> QED
      BY <1>3, <3>1 DEF Named, Slot
  <2>3. /\ \A k \in Places : Named(k) \in {0} \cup tx_skbs
        /\ \A id \in tx_skbs : \E k \in Places : Named(k) = id
        /\ \A j, k \in Places : Named(j) = Named(k) /\ Named(k) # 0 => j = k
    BY DEF OnRing
  <2>4. \A k \in Places' : k \in Nat /\ n + k \in Places /\ n + k \notin 0 .. n - 1
    <3> HIDE DEF Places, GcCleans, TInv, n
    <3> QED
      BY <1>1, <1>4, <2>1
  <2>5. \A k \in 0 .. n - 1 : k \in Places
    BY <1>1, <1>4 DEF Places
  <2> HIDE DEF GcCleans, TInv, n
  <2>6. \A k \in Places' : Named(k)' \in {0} \cup tx_skbs'
    <3> SUFFICES ASSUME NEW k \in Places', Named(n + k) # 0
                 PROVE  Named(n + k) \in tx_skbs'
      BY <2>2, <2>4
    <3>1. n + k \in Places /\ Named(n + k) \in tx_skbs /\ n + k \notin 0 .. n - 1
      BY <2>3, <2>4
    <3>2. \A j \in 0 .. n - 1 : Named(j) # Named(n + k)
      BY <2>3, <2>5, <3>1
    <3> QED
      BY <1>3, <3>1, <3>2
  <2>7. \A id \in tx_skbs' : \E k \in Places' : Named(k)' = id
    <3> SUFFICES ASSUME NEW id \in tx_skbs' PROVE \E k \in Places' : Named(k)' = id
      OBVIOUS
    <3>1. id \in tx_skbs /\ \A k \in 0 .. n - 1 : Named(k) # id
      BY <1>3
    <3>2. PICK k \in Places : Named(k) = id
      BY <2>3, <3>1
    <3>3. k \in Nat /\ k >= n
      BY <1>1, <2>1, <3>1, <3>2
    <3>4. k - n \in Places' /\ k - n \in Nat /\ n + (k - n) = k
      BY <1>1, <2>1, <3>2, <3>3
    <3> QED
      BY <2>2, <3>2, <3>4
  <2>8. \A j, k \in Places' : Named(j)' = Named(k)' /\ Named(k)' # 0 => j = k
    <3> SUFFICES ASSUME NEW j \in Places', NEW k \in Places', Named(n + j) = Named(n + k),
                        Named(n + k) # 0
                 PROVE  j = k
      BY <2>2, <2>4
    <3>1. n + j = n + k
      BY <2>3, <2>4
    <3> QED
      BY <1>1, <2>4, <3>1
  <2> QED
    BY <1>3, <2>6, <2>7, <2>8 DEF OnRing
<1>11. Room'
  <2> SUFFICES ASSUME conn = "on", Outstanding < Size - MaxSlots
               PROVE  Outstanding' < Size - MaxSlots
    BY <1>3 DEF Room, SlotAvailable
  <2> QED
    BY <1>1, <1>4, <1>5
<1>12. Asked'
  BY <1>2, <1>3 DEF Asked
<1> QED
  BY <1>7, <1>8, <1>9, <1>10, <1>11, <1>12

LEMMA RespondStep ==
    ASSUME TInv, Respond
    PROVE  TInv'
<1> USE DEF Respond, TInv
<1> DEFINE p == Ahead(back.pvt)
<1>1. PICK k \in 0 .. Minus(req_prod, back.pvt) - 1 :
          ring' = [ring EXCEPT ![Slot(back.pvt)] = ring[Slot(back.pvt + k)],
                               ![Slot(back.pvt + k)] = ring[Slot(back.pvt)]]
  OBVIOUS
<1>2. /\ p \in Nat /\ Outstanding \in Nat /\ Outstanding < Size /\ p <= Outstanding
      /\ Minus(req_prod, back.pvt) = Outstanding - p /\ Ahead(rsp_prod) \in Nat
      /\ Ahead(rsp_prod) <= p
      /\ back.pvt \in Idx /\ rsp_cons \in Idx /\ req_prod \in Idx /\ rsp_prod \in Idx
  <2>1. p \in Nat /\ Outstanding \in Nat /\ Outstanding < Size /\ p <= Outstanding
        /\ Ahead(rsp_prod) \in Nat /\ Ahead(rsp_prod) <= p
    BY Distances DEF Ordered
  <2>2. back.pvt \in Idx /\ rsp_cons \in Idx /\ req_prod \in Idx /\ rsp_prod \in Idx
    BY DEF Types
  <2>3. Minus(req_prod, back.pvt) = Outstanding - p
    BY <2>1, <2>2, MinusShift DEF Ahead, Outstanding
  <2> QED
    BY <2>1, <2>2, <2>3
<1>3. k \in Nat /\ p + k \in Places /\ p \in Places /\ p + k < Size
  <2> HIDE DEF p, Respond, TInv
  <2> QED
    BY <1>1, <1>2 DEF Places
<1>4. Slot(back.pvt) = Slot(rsp_cons + p) /\ Slot(back.pvt + k) = Slot(rsp_cons + (p + k))
  <2>1. Slot(rsp_cons + (p + 0)) = Slot(back.pvt + 0)
    BY <1>2, SlotFrom, SMTT(60) DEF Ahead
  <2>2. Slot(rsp_cons + (p + k)) = Slot(back.pvt + k)
    BY <1>2, <1>3, SlotFrom DEF Ahead
  <2>3. p + 0 = p /\ back.pvt + 0 = back.pvt
    BY <1>2 DEF Idx
  <2> QED
    BY <2>1, <2>2, <2>3
<1>5. /\ conn = "on" /\ back' = [back EXCEPT !.pvt = Plus(@, 1)]
      /\ UNCHANGED <<req_prod, rsp_prod, rsp_event, rsp_cons, tx_skbs, stopped, up, conn,
                     lock, gc, irq, migrations>>
  OBVIOUS
<1>6. back'.pvt = Plus(back.pvt, 1) /\ Plus(back.pvt, 1) \in Idx
      /\ back'.old = back.old /\ back'.pushed = back.pushed /\ back' \in BackType
  <2>1. back \in BackType
    BY DEF Types, BackType
  <2>2. Plus(back.pvt, 1) \in Idx
    BY <1>2, PlusType
  <2> HIDE DEF Respond, TInv
  <2> QED
    BY <1>5, <2>1, <2>2 DEF BackType
<1>7. Minus(Plus(back.pvt, 1), rsp_cons) = p + 1
  <2> HIDE DEF Respond, TInv
  <2>1. Minus(back.pvt, rsp_cons) + 1 < Wrap
    BY <1>2 DEF Ahead
  <2> QED
    BY <1>2, <2>1, MinusPlus DEF Ahead
<1>8. Types'
  <2>1. \A x \in Nat : Slot(x) \in 0 .. Size - 1
    BY DEF Slot
  <2>2. Slot(back.pvt) \in 0 .. Size - 1 /\ Slot(back.pvt + k) \in 0 .. Size - 1
    BY <1>2, <1>3, <2>1 DEF Idx
  <2>3. ring' \in [0 .. Size - 1 -> {0} \cup Ids]
    BY <1>1, <2>2 DEF Types
  <2> QED
    BY <1>5, <1>6, <2>3 DEF Types, BackType
<1>9. Staged'
  BY <1>5 DEF Staged
<1>10. Ordered'
  <2>1. /\ Ahead(back.pvt)' = p + 1 /\ Ahead(rsp_prod)' = Ahead(rsp_prod)
        /\ Outstanding' = Outstanding /\ Ahead(gc.prod)' = Ahead(gc.prod)
    BY <1>5, <1>6, <1>7 DEF Ahead, Outstanding
  <2>2. p + 1 <= Outstanding /\ Ahead(rsp_prod) <= p + 1
    <3> HIDE DEF p, Respond, TInv
    <3> QED
      BY <1>1, <1>2
  <2>3. Ordered
    OBVIOUS
  <2> HIDE DEF p, Respond, TInv
  <2> QED
    BY <1>2, <1>5, <2>1, <2>2, <2>3 DEF Ordered
<1>11. OnRing'
  <2> DEFINE swap(j) == IF j = p THEN p + k ELSE IF j = p + k THEN p ELSE j
  <2>1. \A j \in Places : Named(j)' = Named(swap(j))
    <3> SUFFICES ASSUME NEW j \in Places PROVE Named(j)' = Named(swap(j))
      OBVIOUS
    <3>1. /\ j \in 0 .. Size - 1 /\ p \in 0 .. Size - 1 /\ p + k \in 0 .. Size - 1
          /\ rsp_cons \in Nat
      <4> HIDE DEF p, Respond, TInv
      <4> QED
        BY <1>2, <1>3 DEF Places, Idx
    <3>2. /\ j # p => Slot(rsp_cons + j) # Slot(rsp_cons + p)
          /\ j # p + k => Slot(rsp_cons + j) # Slot(rsp_cons + (p + k))
      <4> HIDE DEF p, Respond, TInv
      <4> QED
        BY <3>1, SlotApart
    <3>3. Slot(rsp_cons + j) \in DOMAIN ring
      <4>1. rsp_cons + j \in Nat
        BY <3>1
      <4> QED
        BY <4>1 DEF Slot, Types
    <3>4. Named(j)' = ring'[Slot(rsp_cons + j)]
      BY <1>5 DEF Named, Slot
    <3> HIDE DEF p, Respond, TInv
    <3> QED
      BY <1>1, <1>4, <3>2, <3>3, <3>4 DEF Named
  <2>2. Places' = Places
    BY <1>5 DEF Places, Outstanding
  <2>3. /\ \A j \in Places : Named(j) \in {0} \cup tx_skbs
        /\ \A id \in tx_skbs : \E j \in Places : Named(j) = id
        /\ \A i, j \in Places : Named(i) = Named(j) /\ Named(j) # 0 => i = j
    BY <1>5 DEF OnRing
  <2> HIDE DEF p, Respond, TInv
  <2>4. \A j \in Places : swap(j) \in Places /\ swap(swap(j)) = j
    BY <1>3
  <2> HIDE DEF swap
  <2>5. /\ \A j \in Places : Named(j)' \in {0} \cup tx_skbs
        /\ \A id \in tx_skbs : \E j \in Places : Named(j)' = id
        /\ \A i, j \in Places : Named(i)' = Named(j)' /\ Named(j)' # 0 => i = j
    <3>1. \A j \in Places : Named(j)' \in {0} \cup tx_skbs
      BY <2>1, <2>3, <2>4
    <3>2. \A id \in tx_skbs : \E j \in Places : Named(j)' = id
      <4> SUFFICES ASSUME NEW id \in tx_skbs PROVE \E j \in Places : Named(j)' = id
        OBVIOUS
      <4>1. PICK j \in Places : Named(j) = id
        BY <2>3
      <4>2. PICK i \in Places : swap(i) = j
        BY <2>4
      <4>3. Named(i)' = id
        BY <2>1, <4>1, <4>2
      <4> QED
        BY <4>2, <4>3
    <3>3. \A i, j \in Places : Named(i)' = Named(j)' /\ Named(j)' # 0 => i = j
      <4> SUFFICES ASSUME NEW i \in Places, NEW j \in Places, Named(i)' = Named(j)', Named(j)' # 0
                   PROVE  i = j
        OBVIOUS
      <4>1. swap(i) = swap(j)
        BY <2>1, <2>3, <2>4
      <4>2. swap(swap(i)) = i /\ swap(swap(j)) = j
        BY <2>4
      <4> QED
        BY <4>1, <4>2
    <3> QED
      BY <3>1, <3>2, <3>3
  <2> QED
    BY <1>5, <2>2, <2>5 DEF OnRing
<1>12. Room'
  BY <1>5 DEF Room, SlotAvailable, Outstanding
<1>13. Asked'
  BY <1>5, <1>6 DEF Asked, Halfway, Ahead, Outstanding
<1> QED
  BY <1>8, <1>9, <1>10, <1>11, <1>12, <1>13
-----------------------------------------------------------------------------
(* A set has subsets of every size up to its own, and SetToSeq lists it.   *)
LEMMA SomeSubset ==
    ASSUME NEW S, IsFiniteSet(S), NEW k \in Nat, k <= Cardinality(S)
    PROVE  \E T \in kSubset(k, S) : TRUE
<1>1. Cardinality(S) \in Nat /\ \E f : f \in Bijection(1 .. Cardinality(S), S)
  BY FS_CardinalityType DEF ExistsBijection
<1>2. PICK f : f \in Bijection(1 .. Cardinality(S), S)
  BY <1>1
<1> DEFINE T == {f[i] : i \in 1 .. k}
           g == [i \in 1 .. k |-> f[i]]
<1>3. /\ f \in [1 .. Cardinality(S) -> S]
      /\ \A i, j \in 1 .. Cardinality(S) : f[i] = f[j] => i = j
  BY <1>2 DEF Bijection, Injection, IsInjective
<1>4. T \in SUBSET S
  BY <1>1, <1>3
<1>5. g \in Bijection(1 .. k, T)
  <2>1. g \in [1 .. k -> T]
    OBVIOUS
  <2>2. \A i, j \in 1 .. k : g[i] = g[j] => i = j
    BY <1>1, <1>3
  <2>3. \A t \in T : \E i \in 1 .. k : g[i] = t
    OBVIOUS
  <2> HIDE DEF g, T
  <2>4. DOMAIN g = 1 .. k
    BY <2>1
  <2> QED
    BY <2>1, <2>2, <2>3, <2>4 DEF Bijection, Injection, Surjection, IsInjective
<1>6. IsFiniteSet(1 .. k) /\ Cardinality(1 .. k) = k
  BY FS_Interval
<1>7. Cardinality(T) = k
  <2> HIDE DEF g, T
  <2> QED
    BY <1>5, <1>6, FS_Bijection DEF ExistsBijection
<1> QED
  BY <1>4, <1>7 DEF kSubset

LEMMA Listed ==
    ASSUME NEW S, IsFiniteSet(S)
    PROVE  /\ SetToSeq(S) \in [1 .. Cardinality(S) -> S]
           /\ \A i, j \in 1 .. Cardinality(S) : SetToSeq(S)[i] = SetToSeq(S)[j] => i = j
           /\ \A x \in S : \E i \in 1 .. Cardinality(S) : SetToSeq(S)[i] = x
<1>1. Cardinality(S) \in Nat /\ \E f : f \in Bijection(1 .. Cardinality(S), S)
  BY FS_CardinalityType DEF ExistsBijection
<1>2. \E f \in [1 .. Cardinality(S) -> S] : IsInjective(f)
  BY <1>1 DEF Bijection, Injection
<1>3. SetToSeq(S) \in [1 .. Cardinality(S) -> S] /\ IsInjective(SetToSeq(S))
  BY <1>2 DEF SetToSeq
<1>4. SetToSeq(S) \in Injection(1 .. Cardinality(S), S)
  BY <1>3 DEF Injection
<1>5. IsFiniteSet(1 .. Cardinality(S)) /\ Cardinality(1 .. Cardinality(S)) = Cardinality(S)
  BY <1>1, FS_Interval
<1>6. SetToSeq(S) \in Surjection(1 .. Cardinality(S), S)
  BY <1>4, <1>5, FS_Injection
<1> QED
  BY <1>3, <1>6 DEF IsInjective, Surjection

(* There are no more packets than places in the window.                    *)
LEMMA HeldIds ==
    ASSUME TInv, conn = "on"
    PROVE  /\ IsFiniteSet(Ids \ tx_skbs)
           /\ Cardinality(Ids \ tx_skbs) \in Nat
           /\ Cardinality(Ids \ tx_skbs) >= Size - Outstanding
<1> DEFINE f == [id \in tx_skbs |-> CHOOSE k \in Places : Named(k) = id]
<1>1. Outstanding \in Nat
  BY Distances DEF TInv
<1>2. \A id \in tx_skbs : f[id] \in Places /\ Named(f[id]) = id
  BY DEF TInv, OnRing
<1>3. f \in Injection(tx_skbs, Places)
  <2>1. f \in [tx_skbs -> Places] /\ DOMAIN f = tx_skbs
    BY <1>2
  <2>2. \A a, b \in tx_skbs : f[a] = f[b] => a = b
    <3> HIDE DEF f
    <3> QED
      BY <1>2
  <2> HIDE DEF f
  <2> QED
    BY <2>1, <2>2 DEF Injection, IsInjective
<1>4. IsFiniteSet(Places) /\ Cardinality(Places) = Outstanding
  <2>1. 0 \in Int /\ Outstanding - 1 \in Int
    BY <1>1
  <2>2. /\ IsFiniteSet(0 .. Outstanding - 1)
        /\ Cardinality(0 .. Outstanding - 1) = IF 0 > Outstanding - 1 THEN 0
                                               ELSE (Outstanding - 1) - 0 + 1
    BY <2>1, FS_Interval, Zenon
  <2> QED
    BY <1>1, <2>2 DEF Places
<1>5. IsFiniteSet(tx_skbs) /\ Cardinality(tx_skbs) <= Outstanding
  BY <1>3, <1>4, FS_Injection
<1>6. IsFiniteSet(Ids) /\ Cardinality(Ids) = Size
  BY FS_Interval DEF Ids
<1>7. Ids \cap tx_skbs = tx_skbs
  BY DEF TInv, Types
<1>8. IsFiniteSet(Ids \ tx_skbs) /\ Cardinality(Ids \ tx_skbs) = Size - Cardinality(tx_skbs)
  BY <1>6, <1>7, FS_Difference, ZenonT(60)
<1>9. Cardinality(tx_skbs) \in Nat /\ Cardinality(Ids \ tx_skbs) \in Nat
  BY <1>5, <1>8, FS_CardinalityType
<1> QED
  BY <1>1, <1>5, <1>8, <1>9

LEMMA XmitStep ==
    ASSUME TInv, Xmit
    PROVE  TInv'
<1> DEFINE o == Outstanding
<1>1. PICK frags \in 0 .. MaxSlots - 1, extra \in 0 .. 1 :
        LET ids == CHOOSE s \in kSubset(frags + 1, Ids \ tx_skbs) : TRUE
            id  == SetToSeq(ids)
            n   == frags + 1 + extra
        IN
        /\ n <= MaxSlots
        /\ tx_skbs' = tx_skbs \cup ids
        /\ ring' = [s \in 0 .. Size - 1 |->
                       LET k == Minus(s, Slot(req_prod)) % Size IN
                       CASE k = 0                    -> id[1]
                         [] k \in 1 .. extra         -> 0
                         [] k \in extra + 1 .. n - 1 -> id[k - extra + 1]
                         [] OTHER                    -> ring[s]]
        /\ req_prod' = Plus(req_prod, n)
  BY DEF Xmit
<1> DEFINE ids == CHOOSE s \in kSubset(frags + 1, Ids \ tx_skbs) : TRUE
           id  == SetToSeq(ids)
           n   == frags + 1 + extra
           put(k, s) == CASE k = 0                    -> id[1]
                          [] k \in 1 .. extra         -> 0
                          [] k \in extra + 1 .. n - 1 -> id[k - extra + 1]
                          [] OTHER                    -> ring[s]
<1>2. /\ n <= MaxSlots /\ tx_skbs' = tx_skbs \cup ids /\ req_prod' = Plus(req_prod, n)
      /\ ring' = [s \in 0 .. Size - 1 |-> put(Minus(s, Slot(req_prod)) % Size, s)]
  BY <1>1, Zenon
<1>3. /\ lock' = "xmit" /\ gc' = [NoGc EXCEPT !.pc = "read"] /\ lock = "free" /\ conn = "on"
      /\ up /\ ~stopped
      /\ UNCHANGED <<rsp_prod, rsp_event, rsp_cons, stopped, up, conn, irq, back, migrations>>
  BY DEF Xmit
<1>4. /\ o \in Nat /\ o + MaxSlots < Size /\ req_prod \in Idx /\ rsp_cons \in Idx
      /\ n \in Nat /\ o + n < Size
  <2>1. o \in Nat /\ o < Size - MaxSlots
    BY <1>3, Distances DEF TInv, Room, SlotAvailable
  <2> QED
    BY <1>2, <2>1 DEF TInv, Types
<1>5. /\ ids \subseteq Ids /\ ids \cap tx_skbs = {} /\ IsFiniteSet(ids)
      /\ Cardinality(ids) = frags + 1
  <2>1. frags + 1 \in Nat /\ frags + 1 <= Size - o
    BY <1>4
  <2>2. IsFiniteSet(Ids \ tx_skbs) /\ frags + 1 <= Cardinality(Ids \ tx_skbs)
    BY <1>3, <1>4, <2>1, HeldIds
  <2>3. \E s \in kSubset(frags + 1, Ids \ tx_skbs) : TRUE
    BY <2>1, <2>2, SomeSubset
  <2>4. ids \in kSubset(frags + 1, Ids \ tx_skbs)
    BY <2>3
  <2>5. ids \in SUBSET (Ids \ tx_skbs) /\ Cardinality(ids) = frags + 1
    BY <2>4 DEF kSubset
  <2> HIDE DEF ids
  <2> QED
    BY <2>2, <2>5, FS_Subset
<1>6. /\ id \in [1 .. frags + 1 -> ids]
      /\ \A i, j \in 1 .. frags + 1 : id[i] = id[j] => i = j
      /\ \A x \in ids : \E i \in 1 .. frags + 1 : id[i] = x
  <2> HIDE DEF ids
  <2> QED
    BY <1>5, Listed, SMTT(60)
<1> HIDE DEF ids, id
<1>7. o' = o + n /\ Plus(req_prod, n) \in Idx
  <2>1. Minus(req_prod, rsp_cons) + n < Wrap
    BY <1>4 DEF Outstanding
  <2>2. Minus(Plus(req_prod, n), rsp_cons) = Minus(req_prod, rsp_cons) + n
    BY <1>4, <2>1, MinusPlus
  <2> QED
    BY <1>2, <1>3, <1>4, <2>2, PlusType DEF Outstanding
(* What the window names now.                                              *)
<1>8. \A i \in 0 .. Size - 1 :
         /\ Slot(req_prod + i) \in 0 .. Size - 1
         /\ ring'[Slot(req_prod + i)] = put(i, Slot(req_prod + i))
  <2> SUFFICES ASSUME NEW i \in 0 .. Size - 1
               PROVE  /\ Slot(req_prod + i) \in 0 .. Size - 1
                      /\ ring'[Slot(req_prod + i)] = put(i, Slot(req_prod + i))
    OBVIOUS
  <2>1. req_prod \in Nat /\ req_prod + i \in Nat
    BY <1>4 DEF Idx
  <2>2. Slot(req_prod + i) \in 0 .. Size - 1
    BY <2>1 DEF Slot
  <2>3. Minus(Slot(req_prod + i), Slot(req_prod)) % Size = i
    BY <2>1, SlotBack
  <2> HIDE DEF put
  <2> QED
    BY <1>2, <2>2, <2>3
<1>9. \A j \in 0 .. o - 1 : Named(j)' = Named(j)
  <2> SUFFICES ASSUME NEW j \in 0 .. o - 1 PROVE Named(j)' = Named(j)
    OBVIOUS
  <2>1. j + Size - o \in n .. Size - 1 /\ rsp_cons + j \in Nat
    BY <1>4 DEF Idx
  <2>2. Slot(rsp_cons + (o + (j + Size - o))) = Slot(req_prod + (j + Size - o))
    <3>1. j + Size - o \in Nat
      BY <1>4, <2>1
    <3> QED
      BY <1>4, <3>1, SlotFrom DEF Outstanding
  <2>3. Slot(rsp_cons + j + Size) = Slot(rsp_cons + j)
    BY <2>1, SlotWraps
  <2>4. rsp_cons + (o + (j + Size - o)) = rsp_cons + j + Size
    BY <1>4 DEF Idx
  <2>5. Slot(req_prod + (j + Size - o)) = Slot(rsp_cons + j)
    BY <2>2, <2>3, <2>4
  <2>6. put(j + Size - o, Slot(rsp_cons + j)) = ring[Slot(rsp_cons + j)]
    BY <1>4, <2>1
  <2>7. ring'[Slot(rsp_cons + j)] = ring[Slot(rsp_cons + j)]
    <3>1. j + Size - o \in 0 .. Size - 1
      BY <1>4, <2>1
    <3> HIDE DEF put
    <3> QED
      BY <1>8, <2>5, <2>6, <3>1
  <2> QED
    BY <1>3, <2>7 DEF Named, Slot
<1>10. \A i \in 0 .. n - 1, k \in Nat : k = o + i =>
          Named(k)' = IF i = 0 THEN id[1] ELSE IF i <= extra THEN 0 ELSE id[i - extra + 1]
  <2> SUFFICES ASSUME NEW i \in 0 .. n - 1, NEW k \in Nat, k = o + i
               PROVE  Named(k)' = IF i = 0 THEN id[1]
                                  ELSE IF i <= extra THEN 0 ELSE id[i - extra + 1]
    OBVIOUS
  <2>1. i \in 0 .. Size - 1 /\ i \in Nat
    BY <1>4
  <2>2. Slot(rsp_cons + (o + i)) = Slot(req_prod + i)
    BY <1>4, <2>1, SlotFrom DEF Outstanding
  <2>3. Named(k)' = put(i, Slot(req_prod + i))
    <3>1. Named(k)' = ring'[Slot(rsp_cons + (o + i))]
      BY <1>3 DEF Named, Slot
    <3> HIDE DEF put
    <3> QED
      BY <1>8, <2>1, <2>2, <3>1
  <2> QED
    BY <2>1, <2>3
<1> HIDE DEF put
<1>11. Types'
  <2>1. tx_skbs' \subseteq Ids
    BY <1>2, <1>5 DEF TInv, Types
  <2>2. ring' \in [0 .. Size - 1 -> {0} \cup Ids]
    <3>1. \A s \in 0 .. Size - 1, k \in 0 .. Size - 1 : put(k, s) \in {0} \cup Ids
      <4> SUFFICES ASSUME NEW s \in 0 .. Size - 1, NEW k \in 0 .. Size - 1
                   PROVE  put(k, s) \in {0} \cup Ids
        OBVIOUS
      <4>1. ring[s] \in {0} \cup Ids
        BY DEF TInv, Types
      <4>2. \A m \in 1 .. frags + 1 : id[m] \in Ids
        BY <1>5, <1>6
      <4>3. 1 \in 1 .. frags + 1 /\ (k \in extra + 1 .. n - 1 => k - extra + 1 \in 1 .. frags + 1)
        OBVIOUS
      <4> QED
        BY <4>1, <4>2, <4>3 DEF put
    <3>2. \A s \in 0 .. Size - 1 : Minus(s, Slot(req_prod)) % Size \in 0 .. Size - 1
      <4>1. \A s \in 0 .. Size - 1 : Minus(s, Slot(req_prod)) \in Nat
        <5>1. Slot(req_prod) \in 0 .. Size - 1
          BY <1>4 DEF Slot, Idx
        <5> QED
          BY <5>1 DEF Minus
      <4> QED
        BY <4>1
    <3> QED
      BY <1>2, <3>1, <3>2
  <2> QED
    BY <1>2, <1>3, <1>7, <2>1, <2>2, GcTypes DEF TInv, Types, GcType
<1>12. Staged'
  BY <1>3, GcTypes DEF TInv, Staged
<1>13. Ordered'
  <2>1. Ahead(rsp_prod) <= Ahead(back.pvt) /\ Ahead(back.pvt) <= o
    BY <1>3 DEF TInv, Ordered
  <2>2. Ahead(rsp_prod) \in Nat /\ Ahead(back.pvt) \in Nat
    BY Distances DEF TInv
  <2>3. Ahead(rsp_prod)' = Ahead(rsp_prod) /\ Ahead(back.pvt)' = Ahead(back.pvt)
    BY <1>3 DEF Ahead
  <2>4. Outstanding' = o + n
    BY <1>7
  <2> HIDE DEF o, n
  <2> QED
    BY <1>3, <1>4, <2>1, <2>2, <2>3, <2>4, GcTypes DEF Ordered
<1>14. OnRing'
  <2> DEFINE name(j) == IF j < o THEN Named(j)
                        ELSE IF j = o THEN id[1]
                        ELSE IF j <= o + extra THEN 0 ELSE id[j - o - extra + 1]
  <2>0. Places' = 0 .. o + n - 1 /\ Places = 0 .. o - 1
    <3>1. Places' = 0 .. Outstanding' - 1 /\ Places = 0 .. o - 1
      BY DEF Places
    <3>2. Outstanding' = o + n
      BY <1>7
    <3>3. o \in Nat /\ n \in Nat
      BY <1>4
    <3> HIDE DEF o, n
    <3>4. (o + n) - 1 = o + n - 1
      BY <3>3
    <3> QED
      BY <3>1, <3>2, <3>4
  <2>1. \A j \in Places' : Named(j)' = name(j)
    <3> SUFFICES ASSUME NEW j \in Places' PROVE Named(j)' = name(j)
      OBVIOUS
    <3>1. j \in 0 .. o + n - 1
      BY <2>0
    <3>2. CASE j < o
      BY <1>4, <1>9, <3>1, <3>2
    <3>3. CASE j >= o
      <4>1. PICK i \in 0 .. n - 1 : j = o + i
        <5>1. j - o \in 0 .. n - 1 /\ j = o + (j - o)
          BY <1>4, <3>1, <3>3
        <5> QED
          BY <5>1
      <4>2. j \in Nat
        BY <1>4, <3>1
      <4>3. Named(j)' = IF i = 0 THEN id[1]
                        ELSE IF i <= extra THEN 0 ELSE id[i - extra + 1]
        BY <1>10, <4>1, <4>2
      <4> QED
        BY <1>4, <4>1, <4>3
    <3> QED
      BY <1>4, <3>1, <3>2, <3>3
  <2>3. /\ \A k \in Places : Named(k) \in {0} \cup tx_skbs
        /\ \A x \in tx_skbs : \E k \in Places : Named(k) = x
        /\ \A j, k \in Places : Named(j) = Named(k) /\ Named(k) # 0 => j = k
    BY <1>3 DEF TInv, OnRing
  <2>4. \A j \in Places' : \/ j \in Places /\ name(j) = Named(j)
                           \/ j = o /\ name(j) = id[1]
                           \/ name(j) = 0
                           \/ /\ j - o - extra + 1 \in 2 .. frags + 1
                              /\ name(j) = id[j - o - extra + 1]
    <3> HIDE DEF Places
    <3> QED
      BY <1>4, <2>0
  <2>5. name(o) = id[1]
    BY <1>4
  <2>6. \A m \in 2 .. frags + 1 : /\ o + extra + m - 1 \in Places'
                                  /\ name(o + extra + m - 1) = id[m]
    <3> HIDE DEF Places
    <3> SUFFICES ASSUME NEW m \in 2 .. frags + 1
                 PROVE  /\ o + extra + m - 1 \in 0 .. o + n - 1
                        /\ name(o + extra + m - 1) = id[m]
      BY <2>0
    <3>1. o + extra + m - 1 > o + extra /\ (o + extra + m - 1) - o - extra + 1 = m
      BY <1>4
    <3> QED
      BY <1>4, <3>1
  <2>7. \A j \in Places : name(j) = Named(j) /\ j \in Places' /\ o \in Places'
    <3> HIDE DEF Places
    <3> QED
      BY <1>4, <2>0, SMTT(60)
  <2>8. /\ o \in Places' /\ 1 \in 1 .. frags + 1
        /\ \A m \in 2 .. frags + 1 : m \in 1 .. frags + 1 /\ m # 1
    <3> HIDE DEF Places
    <3> QED
      BY <1>4, <2>0
  <2>9. \A j, k \in Places' : j - o - extra + 1 = k - o - extra + 1 => j = k
    <3> HIDE DEF Places
    <3> QED
      BY <1>4, <2>0
  <2>10. \A m \in 1 .. frags + 1 : id[m] \in ids /\ id[m] \notin tx_skbs /\ id[m] # 0
    BY <1>5, <1>6 DEF Ids
  <2>11. \A m \in 1 .. frags + 1 : m = 1 \/ m \in 2 .. frags + 1
    OBVIOUS
  <2> HIDE DEF name, n, o
  <2>12. \A j \in Places' : name(j) \in {0} \cup tx_skbs'
    BY <1>2, <2>3, <2>4, <2>8, <2>10
  <2>13. \A x \in tx_skbs' : \E j \in Places' : name(j) = x
    <3> SUFFICES ASSUME NEW x \in tx_skbs' PROVE \E j \in Places' : name(j) = x
      OBVIOUS
    <3>1. CASE x \in tx_skbs
      BY <2>3, <2>7, <3>1
    <3>2. CASE x \in ids
      <4>1. PICK m \in 1 .. frags + 1 : id[m] = x
        BY <1>6, <3>2
      <4>2. m = 1 \/ m \in 2 .. frags + 1
        BY <2>11
      <4> QED
        BY <2>5, <2>6, <2>8, <4>1, <4>2
    <3> QED
      BY <1>2, <3>1, <3>2
  <2>14. \A j, k \in Places' : name(j) = name(k) /\ name(k) # 0 => j = k
    <3> SUFFICES ASSUME NEW j \in Places', NEW k \in Places', name(j) = name(k), name(k) # 0
                 PROVE  j = k
      OBVIOUS
    <3>1. CASE j \in Places /\ name(j) = Named(j)
      <4>1. name(k) \in tx_skbs
        BY <2>3, <3>1
      <4>2. k \in Places /\ name(k) = Named(k)
        BY <2>4, <2>8, <2>10, <4>1
      <4> QED
        BY <2>3, <3>1, <4>2
    <3>2. CASE k \in Places /\ name(k) = Named(k)
      <4>1. name(j) \in tx_skbs
        BY <2>3, <3>2
      <4>2. j \in Places /\ name(j) = Named(j)
        BY <2>4, <2>8, <2>10, <4>1
      <4> QED
        BY <2>3, <3>2, <4>2
    <3>3. CASE /\ ~(j \in Places /\ name(j) = Named(j))
               /\ ~(k \in Places /\ name(k) = Named(k))
      <4>1. \/ j = o /\ name(j) = id[1]
            \/ /\ j - o - extra + 1 \in 2 .. frags + 1
               /\ name(j) = id[j - o - extra + 1]
        BY <2>4, <3>3
      <4>2. \/ k = o /\ name(k) = id[1]
            \/ /\ k - o - extra + 1 \in 2 .. frags + 1
               /\ name(k) = id[k - o - extra + 1]
        BY <2>4, <3>3
      <4> QED
        BY <1>6, <2>8, <2>9, <4>1, <4>2
    <3> QED
      BY <3>1, <3>2, <3>3
  <2> QED
    BY <1>3, <2>1, <2>12, <2>13, <2>14 DEF OnRing
<1>15. Room' /\ Asked'
  BY <1>3, GcTypes DEF Room, Asked
<1> QED
  BY <1>11, <1>12, <1>13, <1>14, <1>15 DEF TInv

LEMMA TNext ==
    ASSUME TInv, [Next]_vars, "full" \notin When
    PROVE  TInv'
<1>1. CASE UNCHANGED vars
  <2>1. Types' /\ Staged' /\ OnRing' /\ Room'
    BY <1>1, SameRing DEF vars, shared, TInv, Types, Staged, Room, SlotAvailable, Outstanding
  <2>2. Ordered' /\ Asked'
    BY <1>1 DEF vars, shared, TInv, Ordered, Asked, Halfway, Ahead, Outstanding
  <2> QED
    BY <2>1, <2>2 DEF TInv
<1> QED
  BY <1>1, XmitStep, InterruptStep, GcReadsStep, GcCleansStep, GcAsksStep, GcLooksStep, OpenStep,
     CloseStep, ResumeStep, TalkStep, ConnectStep, RespondStep, PublishStep, NotifyStep, Zenon
  DEF Next, GcStep, ConnStep, BackStep

LEMMA Invariant ==
    ASSUME "full" \notin When
    PROVE  Spec => []TInv
<1>1. TInv /\ [Next]_vars => TInv'
  BY TNext
<1> QED
  BY <1>1, NInit, PTL DEF Spec

LEMMA InvOnce == TInv => EachOnRingOnce
<1> SUFFICES ASSUME TInv, conn = "on"
             PROVE  /\ \A id \in tx_skbs : Cardinality({s \in Window : ring[s] = id}) = 1
                    /\ \A s \in Window : ring[s] = 0 \/ ring[s] \in tx_skbs
  BY DEF TInv, EachOnRingOnce
<1>1. /\ \A k \in Places : Named(k) \in {0} \cup tx_skbs
      /\ \A id \in tx_skbs : \E k \in Places : Named(k) = id
      /\ \A j, k \in Places : Named(j) = Named(k) /\ Named(k) # 0 => j = k
  BY DEF TInv, OnRing
<1>2. Window = {Slot(rsp_cons + k) : k \in Places}
  BY DEF Window, Places
<1>3. \A s \in Window : ring[s] = 0 \/ ring[s] \in tx_skbs
  BY <1>1, <1>2 DEF Named
<1>4. ASSUME NEW id \in tx_skbs
      PROVE  Cardinality({s \in Window : ring[s] = id}) = 1
  <2>1. PICK k \in Places : Named(k) = id
    BY <1>1
  <2>2. id # 0
    BY DEF TInv, Types, Ids
  <2>3. {s \in Window : ring[s] = id} = {Slot(rsp_cons + k)}
    BY <1>1, <1>2, <2>1, <2>2 DEF Named
  <2> QED
    BY <2>3, FS_Singleton
<1> QED
  BY <1>3, <1>4

(* EachOnRingOnce, of network_start_xmit, network_tx_buf_gc and            *)
(* network_connect: no packet is lost, freed twice or sent twice, for      *)
(* every ring size, packet size and number of migrations, when no open     *)
(* starts the queue over a nearly full ring.                               *)
THEOREM OnRingOnce ==
    ASSUME "full" \notin When
    PROVE  Spec => []EachOnRingOnce
BY Invariant, InvOnce, PTL

LEMMA InvRoom == TInv => RoomForPacket
<1> SUFFICES ASSUME TInv, up, ~stopped, lock = "free", conn = "on"
             PROVE  /\ Outstanding + MaxSlots <= Size
                    /\ Cardinality(Ids \ tx_skbs) >= MaxSlots
  BY DEF RoomForPacket
<1>1. Outstanding \in Nat /\ Outstanding < Size - MaxSlots
  BY Distances DEF TInv, Room, SlotAvailable
<1>2. Cardinality(Ids \ tx_skbs) \in Nat /\ Cardinality(Ids \ tx_skbs) >= Size - Outstanding
  BY HeldIds
<1> QED
  BY <1>1, <1>2

(* RoomForPacket, of netfront_tx_slot_available: a packet that the stack   *)
(* may hand over fits the ring, the freelist and the grant references, so  *)
(* that the BUG_ONs of network_start_xmit are not reached.                 *)
THEOREM PacketsFit ==
    ASSUME "full" \notin When
    PROVE  Spec => []RoomForPacket
BY Invariant, InvRoom, PTL

LEMMA InvCollected == TInv => AnsweredIsCollected
<1> SUFFICES ASSUME TInv, lock = "free", conn = "on", rsp_prod = req_prod, rsp_cons # rsp_prod,
                    ~irq
             PROVE  back.pushed
  BY DEF AnsweredIsCollected
<1>1. Outstanding \in Nat /\ Ahead(rsp_prod) = Outstanding
  BY Distances DEF TInv, Ahead, Outstanding
<1>2. Outstanding # 0
  BY MinusSelf, MinusInjective DEF TInv, Types, Outstanding
<1>3. ~(Outstanding <= Outstanding \div 2)
  BY <1>1, <1>2
<1> QED
  BY <1>1, <1>3 DEF TInv, Asked

(* AnsweredIsCollected, of network_tx_buf_gc and RING_PUSH_RESPONSES_AND_  *)
(* CHECK_NOTIFY: whenever all requests are answered and some not handled,  *)
(* an interrupt is pending or about to be sent.                            *)
THEOREM NoneLeftUncollected ==
    ASSUME "full" \notin When
    PROVE  Spec => []AnsweredIsCollected
BY Invariant, InvCollected, PTL
=============================================================================
