----------------------------- MODULE NetRxProofs ----------------------------
(***************************************************************************)
(* The receive path for every ring size, index width, target and budget:   *)
(* that each response finds its buffer, that no response goes unseen, and  *)
(* that a backend without buffers gets new ones.                           *)
(*                                                                         *)
(* Everything is counted from rsp_cons.  The three invariants build on     *)
(* each other: BInv is about the buffers, SInv about the event that a      *)
(* resting poll has asked for, WInv about what was published to whom.      *)
(***************************************************************************)
EXTENDS NetRx, TLAPS, FiniteSetTheorems

PollType == [pc : {"none", "packets", "refill", "check", "ask", "recheck", "complete"},
             rp : Idx, work : 0 .. Weight]
BackType == [pushed : BOOLEAN, old : Idx]

Ahead(i) == Minus(i, rsp_cons)

Connected == conn \in {"requeued", "on"}

(* Where the lifecycle, NAPI and the holder of rx_lock are.                *)
Staged ==
    /\ poll.pc # "none" => conn = "on" /\ napi = "sched" /\ dev \in {"up", "closing"}
    /\ dev \in {"opening", "looking"} => conn = "on"
    /\ napi = "off" <=> dev = "down"
    /\ conn # "on" => back = Quiet /\ ~irq
    /\ conn \in {"talked", "requeued"} =>
          req_prod = 0 /\ rsp_prod = 0 /\ rsp_cons = 0 /\ rsp_event = 1

(* The order of the indices, which the poll may only follow.               *)
Ordered ==
    /\ Connected => Ahead(rsp_prod) <= Ahead(req_prod) /\ Ahead(req_prod) <= Outstanding
    /\ poll.pc = "packets" => Ahead(poll.rp) <= Ahead(rsp_prod)

(* The buffers fill the window, and with those that wait, no more than the *)
(* target.                                                                 *)
Filled ==
    /\ IsFiniteSet(rx_skbs)
    /\ Cardinality(rx_skbs) + rx_batch <= MaxTarget
    /\ Connected => /\ rx_skbs = {Slot(rsp_cons + k) : k \in 0 .. Outstanding - 1}
                    /\ Cardinality(rx_skbs) = Outstanding

BInv == Types /\ Staged /\ Ordered /\ Filled

(* A resting poll has asked for the next response, and has taken all that  *)
(* were there, but those about which the backend is going to notify.       *)
Rests == dev = "up" /\ conn = "on" /\ (napi = "idle" \/ poll.pc = "complete")

SInv ==
    /\ Rests \/ poll.pc = "recheck" \/ (dev = "looking" /\ conn = "on")
          => rsp_event = Plus(rsp_cons, 1)
    /\ Rests /\ ~irq => rsp_cons = rsp_prod \/ (back.pushed /\ rsp_cons = back.old)

(* What is posted is published when the poll is done with its refill, and  *)
(* then there is something posted, or the timer runs.                      *)
WInv ==
    /\ conn = "on" => IF poll.pc \in {"packets", "refill"} THEN req_prod <= req_prod_pvt
                                                          ELSE req_prod = req_prod_pvt
    /\ conn = "on" /\ dev \in {"opening", "looking", "up"} /\ (napi = "idle" \/ IrqsOff)
          => Outstanding > 0 \/ timer
-----------------------------------------------------------------------------
USE NetRxAssumption

(* Distances on the circle of indices.                                     *)
LEMMA MinusType == \A a, b \in Idx : Minus(a, b) \in Idx
BY DEF Minus, Idx

LEMMA IdxNat == \A i \in Idx : i \in Nat /\ i < Wrap
BY DEF Idx

LEMMA PlusType == \A a \in Idx, n \in Nat : Plus(a, n) \in Idx
BY DEF Plus, Idx

LEMMA Once ==
    \A v \in 0 .. 2 * Wrap - 1 : v % Wrap = IF v < Wrap THEN v ELSE v - Wrap
OBVIOUS

LEMMA MinusIs ==
    ASSUME NEW a \in Idx, NEW c \in Idx
    PROVE  Minus(a, c) = IF a < c THEN a - c + Wrap ELSE a - c
<1>1. PICK v \in 0 .. 2 * Wrap - 1 : v = a - c + Wrap
  BY DEF Idx
<1>2. v % Wrap = IF v < Wrap THEN v ELSE v - Wrap
  BY Once
<1> QED
  BY <1>1, <1>2 DEF Minus, Idx

LEMMA MinusSelf == \A a \in Idx : Minus(a, a) = 0
BY DEF Minus, Idx

LEMMA MinusShift ==
    ASSUME NEW a \in Idx, NEW b \in Idx, NEW c \in Idx, Minus(b, c) <= Minus(a, c)
    PROVE  Minus(a, b) = Minus(a, c) - Minus(b, c)
<1>1. /\ Minus(a, b) = IF a < b THEN a - b + Wrap ELSE a - b
      /\ Minus(a, c) = IF a < c THEN a - c + Wrap ELSE a - c
      /\ Minus(b, c) = IF b < c THEN b - c + Wrap ELSE b - c
  BY MinusIs
<1> QED
  BY <1>1 DEF Idx

LEMMA MinusPlus ==
    ASSUME NEW a \in Idx, NEW c \in Idx, NEW n \in Nat, Minus(a, c) + n < Wrap
    PROVE  Minus(Plus(a, n), c) = Minus(a, c) + n
<1>1. n < Wrap /\ a + n \in 0 .. 2 * Wrap - 1
  <2>1. Minus(a, c) = IF a < c THEN a - c + Wrap ELSE a - c
    BY MinusIs
  <2> QED
    BY <2>1 DEF Idx
<1>2. Plus(a, n) = IF a + n < Wrap THEN a + n ELSE a + n - Wrap
  <2>1. PICK v \in 0 .. 2 * Wrap - 1 : v = a + n
    BY <1>1
  <2>2. v % Wrap = IF v < Wrap THEN v ELSE v - Wrap
    BY Once
  <2>3. Plus(a, n) = v % Wrap
    BY <2>1 DEF Plus
  <2>4. Plus(a, n) = IF v < Wrap THEN v ELSE v - Wrap
    BY <2>2, <2>3, Zenon
  <2> QED
    BY <2>1, <2>4 DEF Idx
<1>3. Plus(a, n) \in Idx
  BY PlusType
<1>4. /\ Minus(a, c) = IF a < c THEN a - c + Wrap ELSE a - c
      /\ Minus(Plus(a, n), c) = IF Plus(a, n) < c THEN Plus(a, n) - c + Wrap
                                                  ELSE Plus(a, n) - c
  BY <1>3, MinusIs
<1> QED
  BY <1>1, <1>2, <1>3, <1>4 DEF Idx

LEMMA MinusInjective ==
    ASSUME NEW a \in Idx, NEW b \in Idx, NEW c \in Idx, Minus(a, c) = Minus(b, c)
    PROVE  a = b
BY DEF Minus, Idx

(* Quotients and remainders.                                               *)
LEMMA DivMod ==
    ASSUME NEW n \in Nat, NEW m \in Nat \ {0}
    PROVE  \E q \in Nat, r \in Nat : r = n % m /\ r < m /\ n = m * q + r
<1> DEFINE q == n \div m
           r == n % m
<1>1. n = q * m + r
  <2>1. \A k, d \in Int : d > 0 => k = (k \div d) * d + (k % d)
    OBVIOUS
  <2> QED
    BY <2>1
<1>2. r \in Nat /\ q \in Nat /\ r = n % m /\ r < m
  OBVIOUS
<1> HIDE DEF q, r
<1>3. q * m = m * q
  BY <1>2
<1>4. n = m * q + r
  BY <1>1, <1>3
<1> QED
  BY <1>2, <1>4

LEMMA SmallMultiple ==
    ASSUME NEW m \in Nat \ {0}, NEW a \in Int, m * a < m, -(m * a) < m
    PROVE  a = 0
<1>1. CASE a >= 1
  <2>1. m * a >= m * 1
    BY <1>1
  <2> QED
    BY <2>1
<1>2. CASE a <= -1
  <2>1. m * a <= m * (-1)
    BY <1>2
  <2> QED
    BY <2>1
<1> QED
  BY <1>1, <1>2

LEMMA Remainder ==
    ASSUME NEW m \in Nat \ {0}, NEW q \in Nat, NEW r \in 0 .. m - 1
    PROVE  (m * q + r) % m = r
<1> DEFINE n == m * q + r
<1>0. m * q \in Nat
  OBVIOUS
<1>1. n \in Nat
  BY <1>0
<1>2. PICK p \in Nat, t \in Nat : t = n % m /\ t < m /\ n = m * p + t
  BY <1>1, DivMod, Zenon
<1>3. m * (q - p) = m * q - m * p
  OBVIOUS
<1>4. m * q - m * p = t - r
  <2> DEFINE u == m * p
             v == m * q
  <2>1. u \in Nat /\ v \in Nat
    OBVIOUS
  <2>2. v + r = u + t
    BY <1>2
  <2>3. r \in Nat
    OBVIOUS
  <2> HIDE DEF u, v
  <2>4. v - u = t - r
    BY <2>1, <2>2, <2>3
  <2> QED
    BY <2>4 DEF u, v
<1>5. q - p = 0
  <2> DEFINE d == q - p
             x == m * d
  <2>1. x = t - r
    BY <1>3, <1>4
  <2> HIDE DEF x
  <2>2. x < m /\ -x < m
    BY <1>2, <2>1
  <2>3. d \in Int
    OBVIOUS
  <2> HIDE DEF d
  <2> QED
    BY <2>2, <2>3, SmallMultiple DEF x, d
<1>6. t = r
  BY <1>3, <1>4, <1>5, <1>2
<1> QED
  BY <1>2, <1>6

LEMMA SizeDivMod ==
    \A n \in Nat : \E q \in Nat, r \in Nat : r = n % Size /\ r < Size /\ n = Size * q + r
<1>1. Size \in Nat \ {0}
  OBVIOUS
<1> QED
  BY <1>1, DivMod, Zenon

LEMMA SizeRemainder ==
    \A q \in Nat : \A r \in 0 .. Size - 1 : (Size * q + r) % Size = r
<1>1. Size \in Nat \ {0}
  OBVIOUS
<1> QED
  BY <1>1, Remainder, Zenon

(* Slots repeat after Size entries, also across the wrap.                  *)
LEMMA SlotAhead ==
    ASSUME NEW x \in Nat, NEW i \in 0 .. Size - 1
    PROVE  /\ Slot(x) \in 0 .. Size - 1
           /\ Slot(x + i) = IF Slot(x) + i < Size THEN Slot(x) + i ELSE Slot(x) + i - Size
<1>1. PICK q \in Nat, r \in Nat : r = x % Size /\ r < Size /\ x = Size * q + r
  BY SizeDivMod, Zenon
<1>2. CASE r + i < Size
  <2>1. x + i = Size * q + (r + i)
    BY <1>1
  <2>2. r + i \in 0 .. Size - 1
    BY <1>2
  <2>3. (Size * q + (r + i)) % Size = r + i
    BY <2>2, SizeRemainder, Zenon
  <2> QED
    BY <1>1, <1>2, <2>1, <2>3 DEF Slot
<1>3. CASE r + i >= Size
  <2>1. x + i = Size * (q + 1) + (r + i - Size)
    <3>1. Size * (q + 1) = Size * q + Size
      OBVIOUS
    <3>2. Size * q \in Nat
      OBVIOUS
    <3> QED
      BY <1>1, <3>1, <3>2
  <2>2. r + i - Size \in 0 .. Size - 1
    BY <1>1, <1>3
  <2>3. q + 1 \in Nat
    OBVIOUS
  <2>4. (Size * (q + 1) + (r + i - Size)) % Size = r + i - Size
    BY <2>2, <2>3, SizeRemainder, Zenon
  <2> QED
    BY <1>1, <1>3, <2>1, <2>4 DEF Slot
<1> QED
  BY <1>1, <1>2, <1>3

LEMMA SlotApart ==
    ASSUME NEW x \in Nat, NEW j \in 0 .. Size - 1, NEW k \in 0 .. Size - 1,
           Slot(x + j) = Slot(x + k)
    PROVE  j = k
<1>1. /\ Slot(x) \in Nat
      /\ Slot(x + j) = IF Slot(x) + j < Size THEN Slot(x) + j ELSE Slot(x) + j - Size
      /\ Slot(x + k) = IF Slot(x) + k < Size THEN Slot(x) + k ELSE Slot(x) + k - Size
  <2>1. Slot(x) \in 0 .. Size - 1
    BY SlotAhead, Zenon
  <2> QED
    BY <2>1, SlotAhead
<1> QED
  BY <1>1

LEMMA SlotWraps == \A x \in Nat : Slot(x + Wrap) = Slot(x) /\ Slot(x + Size) = Slot(x)
<1> SUFFICES ASSUME NEW x \in Nat
             PROVE  Slot(x + Wrap) = Slot(x) /\ Slot(x + Size) = Slot(x)
  OBVIOUS
<1>1. PICK q \in Nat, r \in Nat : r = x % Size /\ r < Size /\ x = Size * q + r
  BY SizeDivMod, Zenon
<1>2. PICK w \in Nat : Wrap = Size * w
  <2>1. PICK w \in Nat, t \in Nat : t = Wrap % Size /\ t < Size /\ Wrap = Size * w + t
    <3>1. Wrap \in Nat
      OBVIOUS
    <3> QED
      BY <3>1, SizeDivMod, Zenon
  <2>2. t = 0 /\ Size * w \in Nat
    BY <2>1
  <2>3. Wrap = Size * w
    BY <2>1, <2>2
  <2> QED
    BY <2>3
<1>3. Size * (q + w) = Size * q + Size * w /\ Size * (q + 1) = Size * q + Size
  OBVIOUS
<1>4. Size * q \in Nat /\ q + w \in Nat /\ q + 1 \in Nat /\ r \in 0 .. Size - 1
  BY <1>1
<1>5. x + Wrap = Size * (q + w) + r /\ x + Size = Size * (q + 1) + r
  BY <1>1, <1>2, <1>3, <1>4
<1>6. (Size * (q + w) + r) % Size = r /\ (Size * (q + 1) + r) % Size = r
  BY <1>4, SizeRemainder
<1> QED
  BY <1>1, <1>5, <1>6 DEF Slot

(* The entries after p, counted from c.                                    *)
LEMMA SlotFrom ==
    ASSUME NEW c \in Idx, NEW p \in Idx, NEW k \in Nat
    PROVE  Slot(c + (Minus(p, c) + k)) = Slot(p + k)
<1>1. c + (Minus(p, c) + k) = p + k \/ c + (Minus(p, c) + k) = (p + k) + Wrap
  <2>1. c \in Nat /\ p \in Nat /\ c < Wrap /\ p < Wrap
    BY DEF Idx
  <2>2. Minus(p, c) = p - c \/ Minus(p, c) = p - c + Wrap
    BY <2>1 DEF Minus
  <2> QED
    BY <2>1, <2>2
<1>2. p + k \in Nat
  BY DEF Idx
<1> QED
  BY <1>1, <1>2, SlotWraps

-----------------------------------------------------------------------------
(* Both ends of the window move.                                           *)
LEMMA MinusMove ==
    ASSUME NEW a \in Idx, NEW c \in Idx, NEW m \in 0 .. Size, NEW n \in 0 .. Size,
           n <= Minus(a, c) + m, Minus(a, c) + m - n < Wrap
    PROVE  Minus(Plus(a, m), Plus(c, n)) = Minus(a, c) + m - n
<1>1. /\ Plus(a, m) = IF a + m < Wrap THEN a + m ELSE a + m - Wrap
      /\ Plus(c, n) = IF c + n < Wrap THEN c + n ELSE c + n - Wrap
  <2>1. PICK v \in 0 .. 2 * Wrap - 1, w \in 0 .. 2 * Wrap - 1 : v = a + m /\ w = c + n
    BY DEF Idx
  <2>2. /\ v % Wrap = IF v < Wrap THEN v ELSE v - Wrap
        /\ w % Wrap = IF w < Wrap THEN w ELSE w - Wrap
    BY Once
  <2>3. Plus(a, m) = v % Wrap /\ Plus(c, n) = w % Wrap
    BY <2>1 DEF Plus
  <2>4. /\ Plus(a, m) = IF v < Wrap THEN v ELSE v - Wrap
        /\ Plus(c, n) = IF w < Wrap THEN w ELSE w - Wrap
    BY <2>2, <2>3, Zenon
  <2> QED
    BY <2>1, <2>4 DEF Idx
<1>2. Plus(a, m) \in Idx /\ Plus(c, n) \in Idx
  BY PlusType
<1>3. /\ Minus(a, c) = IF a < c THEN a - c + Wrap ELSE a - c
      /\ Minus(Plus(a, m), Plus(c, n)) = IF Plus(a, m) < Plus(c, n)
                                         THEN Plus(a, m) - Plus(c, n) + Wrap
                                         ELSE Plus(a, m) - Plus(c, n)
  BY <1>2, MinusIs
<1> QED
  BY <1>1, <1>3 DEF Idx

LEMMA PlusZero == \A a \in Idx : Plus(a, 0) = a
BY DEF Plus, Idx

(* The part of the ring from c on, of length o.                            *)
Part(c, o) == {Slot(c + k) : k \in 0 .. o - 1}

LEMMA PartSize ==
    ASSUME NEW c \in Idx, NEW o \in 0 .. Size
    PROVE  /\ Part(c, o) \subseteq 0 .. Size - 1
           /\ IsFiniteSet(Part(c, o)) /\ Cardinality(Part(c, o)) = o
<1> DEFINE f == [k \in 0 .. o - 1 |-> Slot(c + k)]
<1>1. \A k \in 0 .. o - 1 : Slot(c + k) \in 0 .. Size - 1
  <2>1. \A x \in Nat : Slot(x) \in 0 .. Size - 1
    BY DEF Slot
  <2>2. \A k \in 0 .. o - 1 : c + k \in Nat
    BY DEF Idx
  <2> QED
    BY <2>1, <2>2
<1>2. f \in Bijection(0 .. o - 1, Part(c, o))
  <2>1. f \in [0 .. o - 1 -> Part(c, o)]
    BY DEF Part
  <2>2. \A j, k \in 0 .. o - 1 : f[j] = f[k] => j = k
    <3> SUFFICES ASSUME NEW j \in 0 .. o - 1, NEW k \in 0 .. o - 1, Slot(c + j) = Slot(c + k)
                 PROVE  j = k
      OBVIOUS
    <3>1. c \in Nat /\ j \in 0 .. Size - 1 /\ k \in 0 .. Size - 1
      BY DEF Idx
    <3> QED
      BY <3>1, SlotApart
  <2>3. \A t \in Part(c, o) : \E k \in 0 .. o - 1 : f[k] = t
    BY DEF Part
  <2> HIDE DEF f
  <2>4. DOMAIN f = 0 .. o - 1
    BY <2>1
  <2> QED
    BY <2>1, <2>2, <2>3, <2>4 DEF Bijection, Injection, Surjection, IsInjective
<1>3. IsFiniteSet(0 .. o - 1) /\ Cardinality(0 .. o - 1) = o
  <2>1. 0 \in Int /\ o - 1 \in Int
    OBVIOUS
  <2>2. /\ IsFiniteSet(0 .. o - 1)
        /\ Cardinality(0 .. o - 1) = IF 0 > o - 1 THEN 0 ELSE (o - 1) - 0 + 1
    BY <2>1, FS_Interval, Zenon
  <2> QED
    BY <2>2
<1>4. Part(c, o) \subseteq 0 .. Size - 1
  BY <1>1 DEF Part
<1> HIDE DEF f
<1> QED
  BY <1>2, <1>3, <1>4, FS_Bijection DEF ExistsBijection

(* It grows at its end, ...                                                *)
LEMMA PartGrows ==
    ASSUME NEW c \in Idx, NEW p \in Idx, NEW n \in Nat
    PROVE  Part(c, Minus(p, c)) \cup {Slot(p + k) : k \in 0 .. n - 1}
             = Part(c, Minus(p, c) + n)
<1> DEFINE o == Minus(p, c)
<1>1. o \in Nat
  BY MinusType, IdxNat
<1>2. \A k \in Nat : Slot(c + (o + k)) = Slot(p + k)
  BY SlotFrom
<1> HIDE DEF o
<1>3. \A k \in 0 .. (o + n) - 1 : k \in 0 .. o - 1 \/ (k - o \in 0 .. n - 1 /\ k = o + (k - o))
  BY <1>1
<1>4. \A k \in 0 .. n - 1 : o + k \in 0 .. (o + n) - 1 /\ k \in Nat
  BY <1>1
<1>5. \A k \in 0 .. o - 1 : k \in 0 .. (o + n) - 1
  BY <1>1
<1>6. ASSUME NEW s PROVE s \in Part(c, o + n) =>
                             s \in Part(c, o) \/ s \in {Slot(p + k) : k \in 0 .. n - 1}
  <2> SUFFICES ASSUME NEW k \in 0 .. (o + n) - 1, s = Slot(c + k)
               PROVE  s \in Part(c, o) \/ s \in {Slot(p + i) : i \in 0 .. n - 1}
    BY DEF Part
  <2>1. CASE k \in 0 .. o - 1
    BY <2>1 DEF Part
  <2>2. CASE k \notin 0 .. o - 1
    <3>1. PICK i \in 0 .. n - 1 : k = o + i
      BY <1>3, <2>2
    <3>2. s = Slot(p + i)
      BY <1>2, <1>4, <3>1
    <3> QED
      BY <3>2
  <2> QED
    BY <2>1, <2>2
<1>7. ASSUME NEW s, s \in Part(c, o) \/ s \in {Slot(p + k) : k \in 0 .. n - 1}
      PROVE  s \in Part(c, o + n)
  <2>1. CASE s \in Part(c, o)
    BY <1>5, <2>1 DEF Part
  <2>2. CASE s \in {Slot(p + k) : k \in 0 .. n - 1}
    <3>1. PICK k \in 0 .. n - 1 : s = Slot(p + k)
      BY <2>2
    <3>2. s = Slot(c + (o + k))
      BY <1>2, <1>4, <3>1
    <3> QED
      BY <1>4, <3>2 DEF Part
  <2> QED
    BY <1>7, <2>1, <2>2
<1> QED
  BY <1>6, <1>7 DEF o

(* ... and shrinks at its beginning.                                       *)
LEMMA PartShrinks ==
    ASSUME NEW c \in Idx, NEW o \in 0 .. Size, NEW n \in 0 .. Size, n <= o
    PROVE  Part(c, o) \ {Slot(c + k) : k \in 0 .. n - 1} = Part(Plus(c, n), o - n)
<1>1. \A k \in Nat : Slot(Plus(c, n) + k) = Slot(c + (n + k))
  <2>1. PICK v \in 0 .. 2 * Wrap - 1 : v = c + n
    BY DEF Idx
  <2>2. Plus(c, n) = v \/ Plus(c, n) = v - Wrap
    BY <2>1, Once DEF Plus
  <2>3. \A k \in Nat : \/ Plus(c, n) + k = c + (n + k)
                       \/ (Plus(c, n) + k) + Wrap = c + (n + k)
    BY <2>1, <2>2 DEF Idx
  <2>4. \A k \in Nat : Plus(c, n) + k \in Nat
    <3>1. Plus(c, n) \in Nat
      BY PlusType, IdxNat
    <3> QED
      BY <3>1
  <2> QED
    BY <2>3, <2>4, SlotWraps
<1>2. \A j, k \in 0 .. o - 1 : Slot(c + j) = Slot(c + k) => j = k
  <2> SUFFICES ASSUME NEW j \in 0 .. o - 1, NEW k \in 0 .. o - 1, Slot(c + j) = Slot(c + k)
               PROVE  j = k
    OBVIOUS
  <2>1. c \in Nat /\ j \in 0 .. Size - 1 /\ k \in 0 .. Size - 1
    BY DEF Idx
  <2> QED
    BY <2>1, SlotApart
<1>3. \A k \in 0 .. o - 1 : k \in 0 .. n - 1 \/ (k - n \in 0 .. o - n - 1 /\ k = n + (k - n))
  OBVIOUS
<1>4. \A k \in 0 .. o - n - 1 : n + k \in 0 .. o - 1 /\ n + k \notin 0 .. n - 1 /\ k \in Nat
  OBVIOUS
<1>5. \A k \in 0 .. n - 1 : k \in 0 .. o - 1
  OBVIOUS
<1>6. ASSUME NEW s \in Part(c, o), s \notin {Slot(c + k) : k \in 0 .. n - 1}
      PROVE  s \in Part(Plus(c, n), o - n)
  <2>1. PICK k \in 0 .. o - 1 : s = Slot(c + k)
    BY DEF Part
  <2>2. PICK i \in 0 .. o - n - 1 : k = n + i
    BY <1>3, <1>6, <2>1
  <2>3. s = Slot(Plus(c, n) + i)
    BY <1>1, <1>4, <2>1, <2>2
  <2> QED
    BY <2>3 DEF Part
<1>7. ASSUME NEW s \in Part(Plus(c, n), o - n)
      PROVE  s \in Part(c, o) /\ s \notin {Slot(c + k) : k \in 0 .. n - 1}
  <2>1. PICK i \in 0 .. o - n - 1 : s = Slot(Plus(c, n) + i)
    BY DEF Part
  <2>2. s = Slot(c + (n + i))
    BY <1>1, <1>4, <2>1
  <2>3. s \in Part(c, o)
    BY <1>4, <2>2 DEF Part
  <2>4. ASSUME NEW k \in 0 .. n - 1, s = Slot(c + k) PROVE FALSE
    BY <1>2, <1>4, <1>5, <2>2, <2>4
  <2> QED
    BY <2>3, <2>4
<1> QED
  BY <1>6, <1>7
-----------------------------------------------------------------------------
LEMMA Distances == Types => /\ Outstanding \in Nat /\ Outstanding < Wrap
                            /\ Ahead(rsp_prod) \in Nat /\ Ahead(rsp_prod) < Wrap
                            /\ Ahead(req_prod) \in Nat /\ Ahead(req_prod) < Wrap
                            /\ Ahead(poll.rp) \in Nat /\ Ahead(poll.rp) < Wrap
<1> SUFFICES ASSUME Types PROVE /\ Outstanding \in Idx /\ Ahead(rsp_prod) \in Idx
                                /\ Ahead(req_prod) \in Idx /\ Ahead(poll.rp) \in Idx
  BY IdxNat
<1>1. /\ req_prod_pvt \in Idx /\ rsp_cons \in Idx /\ rsp_prod \in Idx /\ req_prod \in Idx
      /\ poll.rp \in Idx
  BY DEF Types
<1> QED
  BY <1>1, MinusType DEF Outstanding, Ahead

LEMMA PollTypes ==
    /\ NoPoll \in PollType /\ NoPoll.pc = "none" /\ NoPoll.rp \in Idx
    /\ [NoPoll EXCEPT !.pc = "check"] \in PollType
    /\ [NoPoll EXCEPT !.pc = "check"].pc = "check"
    /\ [NoPoll EXCEPT !.pc = "check"].rp \in Idx
    /\ Quiet \in BackType /\ Quiet.old \in Idx /\ ~Quiet.pushed
BY DEF NoPoll, Quiet, PollType, BackType, Idx

(* What network_alloc_rx_buffers does, however many allocations succeed:   *)
(* it posts m buffers, and leaves b waiting.                               *)
Allocated(m, b) ==
    /\ req_prod_pvt' = Plus(req_prod_pvt, m)
    /\ rx_skbs' = rx_skbs \cup {Slot(req_prod_pvt + k) : k \in 0 .. m - 1}
    /\ rx_batch' = b
    /\ Outstanding + m + b <= MaxTarget
    /\ m + b >= rx_batch
    /\ req_prod' = IF m > 0 THEN Plus(req_prod_pvt, m) ELSE Larger(req_prod_pvt, req_prod)
    /\ rx_target' \in MinTarget .. MaxTarget
    /\ timer' \in BOOLEAN /\ (timer => timer')
    /\ mishaps' \in 0 .. Mishaps
    /\ m > 0 \/ timer' \/ Outstanding > 0

LEMMA AllocOutcome ==
    ASSUME Types, Outstanding + rx_batch <= MaxTarget, AllocRxBuffers
    PROVE  \E m \in 0 .. MaxTarget, b \in 0 .. MaxTarget : Allocated(m, b)
<1>0. /\ Outstanding \in Nat /\ rx_batch \in Nat /\ rx_target \in MinTarget .. MaxTarget
      /\ req_prod_pvt \in Idx /\ mishaps \in 0 .. Mishaps /\ timer \in BOOLEAN
      /\ rx_target \in Nat
  BY Distances DEF Types
<1>1. ASSUME NEW n \in Nat, Refill(n), n > 0, Outstanding + n <= MaxTarget, n >= rx_batch,
             rx_target' \in MinTarget .. MaxTarget, timer' \in BOOLEAN, timer => timer',
             mishaps' \in 0 .. Mishaps
      PROVE  Allocated(n, 0) /\ n \in 0 .. MaxTarget /\ 0 \in 0 .. MaxTarget
  <2>1. n \in 0 .. MaxTarget /\ 0 \in 0 .. MaxTarget
    BY <1>0, <1>1
  <2>2. Outstanding + n + 0 <= MaxTarget /\ n + 0 >= rx_batch
    BY <1>0, <1>1
  <2> HIDE DEF Outstanding
  <2> QED
    BY <1>1, <2>1, <2>2 DEF Allocated, Refill
<1>2. ASSUME NEW n \in Nat, KeepBatch(n), Outstanding + n <= MaxTarget, n >= rx_batch,
             timer' \in BOOLEAN, timer => timer', mishaps' \in 0 .. Mishaps,
             timer' \/ Outstanding > 0
      PROVE  Allocated(0, n) /\ n \in 0 .. MaxTarget /\ 0 \in 0 .. MaxTarget
  <2>1. n \in 0 .. MaxTarget /\ 0 \in 0 .. MaxTarget
    BY <1>0, <1>2
  <2>2. Outstanding + 0 + n <= MaxTarget /\ 0 + n >= rx_batch
    BY <1>0, <1>2
  <2>3. Plus(req_prod_pvt, 0) = req_prod_pvt
    BY <1>0, PlusZero
  <2>4. {Slot(req_prod_pvt + k) : k \in 0 .. 0 - 1} = {}
    OBVIOUS
  <2>5. /\ req_prod_pvt' = req_prod_pvt /\ rx_skbs' = rx_skbs /\ rx_target' = rx_target
        /\ rx_batch' = n /\ req_prod' = Larger(req_prod_pvt, req_prod)
    BY <1>2 DEF KeepBatch
  <2>6. ~(0 > 0)
    OBVIOUS
  <2> QED
    BY <1>0, <1>2, <2>1, <2>2, <2>3, <2>4, <2>5, <2>6 DEF Allocated
<1>3. CASE AllocFails
  <2>1. PICK n \in rx_batch .. rx_target - Outstanding - 1 :
            /\ mishaps < Mishaps /\ mishaps' = mishaps + 1 /\ timer' = TRUE
            /\ IF n # 0 THEN Refill(n) /\ UNCHANGED rx_target ELSE KeepBatch(n)
    BY <1>3 DEF AllocFails
  <2>2. /\ n \in Nat /\ Outstanding + n <= MaxTarget /\ n >= rx_batch
        /\ mishaps' \in 0 .. Mishaps
    BY <1>0, <2>1
  <2>3. CASE n # 0
    <3>1. n > 0 /\ Refill(n) /\ rx_target' \in MinTarget .. MaxTarget
      BY <1>0, <2>1, <2>2, <2>3
    <3>2. Allocated(n, 0) /\ n \in 0 .. MaxTarget /\ 0 \in 0 .. MaxTarget
      BY <1>1, <2>1, <2>2, <3>1
    <3> QED
      BY <3>2
  <2>4. CASE n = 0
    <3>1. KeepBatch(n)
      BY <2>1, <2>4
    <3>2. Allocated(0, n) /\ n \in 0 .. MaxTarget /\ 0 \in 0 .. MaxTarget
      BY <1>2, <2>1, <2>2, <3>1
    <3> QED
      BY <3>2
  <2> QED
    BY <2>3, <2>4
<1>4. CASE AllocSucceeds
  <2> DEFINE n == Larger(rx_batch, rx_target - Outstanding)
  <2>1. /\ n \in Nat /\ Outstanding + n <= MaxTarget /\ n >= rx_batch
        /\ n >= rx_target - Outstanding
    BY <1>0 DEF Larger
  <2>2. /\ timer' = timer /\ mishaps' = mishaps
        /\ IF n < rx_target \div 2
           THEN KeepBatch(n)
           ELSE /\ Refill(n)
                /\ rx_target' = IF Minus(req_prod_pvt, rsp_prod) < rx_target \div 4
                                THEN Smaller(2 * rx_target, MaxTarget)
                                ELSE rx_target
    BY <1>4 DEF AllocSucceeds
  <2> HIDE DEF n
  <2>3. CASE n < rx_target \div 2
    <3>1. Outstanding > 0
      BY <1>0, <2>1, <2>3
    <3>2. Allocated(0, n) /\ n \in 0 .. MaxTarget /\ 0 \in 0 .. MaxTarget
      BY <1>0, <1>2, <2>1, <2>2, <2>3, <3>1
    <3> QED
      BY <3>2
  <2>4. CASE ~(n < rx_target \div 2)
    <3>1. n > 0
      BY <1>0, <2>1, <2>4
    <3>2. rx_target' \in MinTarget .. MaxTarget
      <4>1. rx_target' = Smaller(2 * rx_target, MaxTarget) \/ rx_target' = rx_target
        BY <2>2, <2>4
      <4> QED
        BY <1>0, <4>1 DEF Smaller
    <3>3. Allocated(n, 0) /\ n \in 0 .. MaxTarget /\ 0 \in 0 .. MaxTarget
      BY <1>0, <1>1, <2>1, <2>2, <2>4, <3>1, <3>2
    <3> QED
      BY <3>3
  <2> QED
    BY <2>3, <2>4
<1> QED
  BY <1>3, <1>4 DEF AllocRxBuffers

(* What that means for the window.                                         *)
LEMMA AllocKeeps ==
    ASSUME Types, Connected, Ordered, Filled, AllocRxBuffers,
           UNCHANGED <<rsp_prod, rsp_cons>>
    PROVE  /\ req_prod' \in Idx /\ req_prod_pvt' \in Idx /\ rx_skbs' \subseteq 0 .. Size - 1
           /\ rx_batch' \in 0 .. MaxTarget /\ rx_target' \in MinTarget .. MaxTarget
           /\ timer' \in BOOLEAN /\ (timer => timer') /\ mishaps' \in 0 .. Mishaps
           /\ IsFiniteSet(rx_skbs') /\ Cardinality(rx_skbs') = Outstanding'
           /\ rx_skbs' = Part(rsp_cons, Outstanding')
           /\ Outstanding' + rx_batch' <= MaxTarget
           /\ Minus(rsp_prod, rsp_cons) <= Minus(req_prod', rsp_cons)
           /\ Minus(req_prod', rsp_cons) <= Outstanding'
           /\ Outstanding' > 0 \/ timer'
           /\ req_prod <= req_prod_pvt => req_prod' = req_prod_pvt'
<1>0. /\ req_prod_pvt \in Idx /\ rsp_cons \in Idx /\ rsp_prod \in Idx /\ req_prod \in Idx
      /\ rx_skbs \subseteq 0 .. Size - 1 /\ rx_batch \in Nat
  BY DEF Types
<1>1. /\ Outstanding \in Nat /\ Minus(rsp_prod, rsp_cons) \in Nat
      /\ Minus(req_prod, rsp_cons) \in Nat
  BY Distances DEF Ahead
<1>2. /\ rx_skbs = Part(rsp_cons, Outstanding) /\ Outstanding + rx_batch <= MaxTarget
      /\ Minus(rsp_prod, rsp_cons) <= Minus(req_prod, rsp_cons)
      /\ Minus(req_prod, rsp_cons) <= Outstanding
  BY DEF Filled, Ordered, Part, Ahead
<1>3. PICK m \in 0 .. MaxTarget, b \in 0 .. MaxTarget : Allocated(m, b)
  BY <1>2, AllocOutcome
<1>4. m \in Nat /\ b \in Nat /\ Outstanding + m + b <= MaxTarget
  BY <1>3 DEF Allocated
<1>5. Outstanding' = Outstanding + m /\ req_prod_pvt' \in Idx
  <2>1. Minus(req_prod_pvt, rsp_cons) + m < Wrap
    BY <1>1, <1>4 DEF Outstanding
  <2>2. Minus(Plus(req_prod_pvt, m), rsp_cons) = Minus(req_prod_pvt, rsp_cons) + m
    BY <1>0, <1>4, <2>1, MinusPlus
  <2>3. req_prod_pvt' = Plus(req_prod_pvt, m) /\ rsp_cons' = rsp_cons
    BY <1>3 DEF Allocated
  <2> QED
    BY <1>0, <1>4, <2>2, <2>3, PlusType DEF Outstanding
<1>6. rx_skbs' = Part(rsp_cons, Outstanding')
  <2>1. Part(rsp_cons, Minus(req_prod_pvt, rsp_cons))
            \cup {Slot(req_prod_pvt + k) : k \in 0 .. m - 1}
          = Part(rsp_cons, Minus(req_prod_pvt, rsp_cons) + m)
    BY <1>0, <1>4, PartGrows
  <2>2. rx_skbs' = rx_skbs \cup {Slot(req_prod_pvt + k) : k \in 0 .. m - 1}
    BY <1>3 DEF Allocated
  <2>3. Outstanding = Minus(req_prod_pvt, rsp_cons)
    BY DEF Outstanding
  <2> HIDE DEF Outstanding
  <2> QED
    BY <1>2, <1>5, <2>1, <2>2, <2>3
<1>7. Outstanding' \in 0 .. Size
  BY <1>1, <1>4, <1>5
<1>8. /\ rx_skbs' \subseteq 0 .. Size - 1
      /\ IsFiniteSet(rx_skbs') /\ Cardinality(rx_skbs') = Outstanding'
  BY <1>0, <1>6, <1>7, PartSize
<1>9. rx_batch' = b /\ Outstanding' + rx_batch' <= MaxTarget
  BY <1>1, <1>3, <1>4, <1>5 DEF Allocated
<1>10. req_prod' \in {req_prod, req_prod_pvt'} /\ (req_prod <= req_prod_pvt => req_prod' = req_prod_pvt')
  <2>1. CASE m > 0
    BY <1>3, <2>1 DEF Allocated
  <2>2. CASE m = 0
    <3>1. req_prod_pvt' = req_prod_pvt /\ req_prod' = Larger(req_prod_pvt, req_prod)
      <4>1. ~(m > 0)
        BY <2>2
      <4> QED
        BY <1>0, <1>3, <2>2, <4>1, PlusZero DEF Allocated
    <3> QED
      BY <1>0, <3>1 DEF Larger, Idx
  <2> QED
    BY <1>4, <2>1, <2>2
<1>11. Outstanding' = Minus(req_prod_pvt', rsp_cons)
  BY DEF Outstanding
<1>12. /\ Minus(rsp_prod, rsp_cons) <= Minus(req_prod', rsp_cons)
       /\ Minus(req_prod', rsp_cons) <= Outstanding'
  <2>1. CASE req_prod' = req_prod
    BY <1>1, <1>2, <1>4, <1>5, <2>1
  <2>2. CASE req_prod' = req_prod_pvt'
    <3>1. Minus(req_prod', rsp_cons) = Outstanding'
      BY <1>11, <2>2
    <3> QED
      BY <1>1, <1>2, <1>4, <1>5, <3>1
  <2> QED
    BY <1>10, <2>1, <2>2
<1>13. Outstanding' > 0 \/ timer'
  BY <1>1, <1>3, <1>4, <1>5 DEF Allocated
<1>14. req_prod' \in Idx
  BY <1>0, <1>5, <1>10
<1> QED
  BY <1>3, <1>5, <1>6, <1>8, <1>9, <1>10, <1>12, <1>13, <1>14 DEF Allocated
-----------------------------------------------------------------------------
(* The steps that leave the ring and the buffers alone.                    *)
LEMMA FilledStays ==
    ASSUME Filled, UNCHANGED <<rsp_cons, req_prod_pvt, rx_skbs, rx_batch, conn>>
    PROVE  Filled'
BY DEF Filled, Connected, Outstanding

LEMMA OrderedStays ==
    ASSUME Ordered, UNCHANGED <<req_prod, rsp_prod, rsp_cons, req_prod_pvt, conn>>,
           poll'.pc = "packets" => poll.pc = "packets" /\ poll'.rp = poll.rp
    PROVE  Ordered'
BY DEF Ordered, Connected, Outstanding, Ahead

LEMMA PollEntersKeeps == ASSUME BInv, PollEnters PROVE BInv'
<1>1. Types'
  BY DEF BInv, PollEnters, Types, ring, bufs
<1>2. Staged'
  BY DEF BInv, PollEnters, Types, Staged, Unlocked, ring, bufs
<1>3. Ordered'
  <2>1. poll'.rp = rsp_prod
    BY DEF PollEnters
  <2>2. Ahead(rsp_prod) \in Nat
    BY Distances DEF BInv
  <2> QED
    BY <2>1, <2>2 DEF BInv, PollEnters, Ordered, Connected, Outstanding, Ahead, ring, bufs
<1>4. Filled'
  BY FilledStays DEF BInv, PollEnters, bufs
<1> QED
  BY <1>1, <1>2, <1>3, <1>4 DEF BInv

LEMMA PollChecksKeeps ==
    ASSUME BInv, PollChecks \/ PollRechecks \/ PollCompletes
    PROVE  BInv'
<1>1. Types' /\ poll'.pc \in {"none", "ask", "complete"}
  <2>1. \/ poll' = NoPoll \/ poll' = [poll EXCEPT !.pc = "ask"]
        \/ poll' = [poll EXCEPT !.pc = "complete"]
    BY DEF PollChecks, PollRechecks, PollCompletes
  <2>2. poll' \in PollType /\ poll'.rp \in Idx /\ poll'.pc \in {"none", "ask", "complete"}
    <3>1. poll \in PollType /\ poll.rp \in Idx
      BY DEF BInv, Types, PollType
    <3> QED
      BY <2>1, <3>1, PollTypes DEF PollType
  <2> QED
    BY <2>2 DEF BInv, PollChecks, PollRechecks, PollCompletes, Types, PollType, ring, bufs
<1>2. Staged'
  BY <1>1 DEF BInv, PollChecks, PollRechecks, PollCompletes, Staged, NoPoll, ring, bufs
<1>3. Ordered'
  BY <1>1, OrderedStays DEF BInv, PollChecks, PollRechecks, PollCompletes, ring, bufs
<1>4. Filled'
  BY FilledStays DEF BInv, PollChecks, PollRechecks, PollCompletes, bufs
<1> QED
  BY <1>1, <1>2, <1>3, <1>4 DEF BInv

LEMMA PollAsksKeeps == ASSUME BInv, PollAsks PROVE BInv'
<1>1. Types' /\ poll'.pc = "recheck"
  <2>1. Plus(rsp_cons, 1) \in Idx
    BY PlusType DEF BInv, Types
  <2>2. poll' \in PollType /\ poll'.rp \in Idx /\ poll'.pc = "recheck"
    BY DEF BInv, PollAsks, Types, PollType
  <2> QED
    BY <2>1, <2>2 DEF BInv, PollAsks, Types, PollType, bufs
<1>2. Staged'
  BY <1>1 DEF BInv, PollAsks, Staged, bufs
<1>3. Ordered'
  BY <1>1, OrderedStays DEF BInv, PollAsks, bufs
<1>4. Filled'
  BY FilledStays DEF BInv, PollAsks, bufs
<1> QED
  BY <1>1, <1>2, <1>3, <1>4 DEF BInv

LEMMA PollAdjustsKeeps == ASSUME BInv, PollAdjusts PROVE BInv'
<1>1. Types' /\ poll'.pc = "refill"
  <2>1. PICK w \in 0 .. poll.work : poll' = [pc |-> "refill", rp |-> 0, work |-> w]
    BY DEF PollAdjusts
  <2>2. poll' \in PollType /\ poll'.rp \in Idx /\ poll'.pc = "refill"
    <3>1. w \in 0 .. Weight
      BY DEF BInv, Types
    <3> QED
      BY <2>1, <3>1 DEF PollType, Idx
  <2>3. rx_target' \in MinTarget .. MaxTarget
    BY DEF BInv, PollAdjusts, Types, Reduced, Larger
  <2> QED
    BY <2>2, <2>3 DEF BInv, PollAdjusts, Types, PollType, ring
<1>2. Staged'
  BY <1>1 DEF BInv, PollAdjusts, Staged, ring
<1>3. Ordered'
  BY <1>1, OrderedStays DEF BInv, PollAdjusts, ring
<1>4. Filled'
  BY FilledStays DEF BInv, PollAdjusts
<1> QED
  BY <1>1, <1>2, <1>3, <1>4 DEF BInv

(* A poll takes n responses and puts m of their buffers back: the window   *)
(* moves, and its order stays.                                             *)
LEMMA PollPacketMoves ==
    ASSUME BInv, PollPacket
    PROVE  \E n \in 1 .. Ahead(poll.rp) : \E m \in 0 .. n :
              /\ n \in 0 .. Size /\ m \in 0 .. Size
              /\ m > 0 => req_prod_pvt + m < Wrap \/ "wrap" \in When
              /\ TakeAndPutBack(n, m) /\ rsp_cons' = Plus(rsp_cons, n)
              /\ mishaps' \in 0 .. Mishaps
              /\ Outstanding' = Outstanding + m - n
              /\ n <= Ahead(rsp_prod)
              /\ Outstanding \in 0 .. Size /\ Outstanding + rx_batch <= MaxTarget
              /\ Minus(rsp_prod, rsp_cons') = Ahead(rsp_prod) - n
              /\ Minus(req_prod, rsp_cons') = Ahead(req_prod) - n
              /\ Minus(poll.rp, rsp_cons') = Ahead(poll.rp) - n
<1>0. /\ req_prod_pvt \in Idx /\ rsp_cons \in Idx /\ rsp_prod \in Idx /\ req_prod \in Idx
      /\ poll.rp \in Idx /\ mishaps \in 0 .. Mishaps /\ rx_batch \in Nat
  BY DEF BInv, Types
<1>1. /\ Ahead(rsp_prod) \in Nat /\ Ahead(req_prod) \in Nat /\ Ahead(poll.rp) \in Nat
      /\ Outstanding \in Nat
  BY Distances DEF BInv
<1>2. Connected
  BY DEF BInv, PollPacket, Staged, Connected
<1>3. /\ Ahead(poll.rp) <= Ahead(rsp_prod) /\ Ahead(rsp_prod) <= Ahead(req_prod)
      /\ Ahead(req_prod) <= Outstanding
  BY <1>2 DEF BInv, PollPacket, Ordered
<1>4. Outstanding + rx_batch <= MaxTarget
  BY <1>2 DEF BInv, Filled
<1>5. PICK n \in 1 .. Ahead(poll.rp) : \E m \in 0 .. n :
          /\ mishaps + m <= Mishaps
          /\ m > 0 => req_prod_pvt + m < Wrap \/ "wrap" \in When
          /\ TakeAndPutBack(n, m) /\ rsp_cons' = Plus(rsp_cons, n)
          /\ mishaps' = mishaps + m
  BY DEF PollPacket, Ahead
<1>6. PICK m \in 0 .. n :
          /\ mishaps + m <= Mishaps
          /\ m > 0 => req_prod_pvt + m < Wrap \/ "wrap" \in When
          /\ TakeAndPutBack(n, m) /\ rsp_cons' = Plus(rsp_cons, n)
          /\ mishaps' = mishaps + m
  BY <1>5
<1>7. n \in 0 .. Size /\ m \in 0 .. Size /\ n \in Nat /\ m \in Nat /\ Outstanding \in 0 .. Size
  BY <1>0, <1>1, <1>3, <1>4
<1>8. mishaps' \in 0 .. Mishaps
  BY <1>0, <1>6, <1>7
<1>9. Outstanding' = Outstanding + m - n
  <2>1. req_prod_pvt' = Plus(req_prod_pvt, m) /\ rsp_cons' = Plus(rsp_cons, n)
    BY <1>6 DEF TakeAndPutBack
  <2>2. /\ n <= Minus(req_prod_pvt, rsp_cons) + m
        /\ Minus(req_prod_pvt, rsp_cons) + m - n < Wrap
    <3>1. Minus(req_prod_pvt, rsp_cons) = Outstanding
      BY DEF Outstanding
    <3>2. n <= Outstanding /\ m <= n
      BY <1>1, <1>3
    <3> HIDE DEF Outstanding
    <3> QED
      BY <1>7, <3>1, <3>2
  <2>3. Minus(Plus(req_prod_pvt, m), Plus(rsp_cons, n))
          = Minus(req_prod_pvt, rsp_cons) + m - n
    BY <1>0, <1>7, <2>2, MinusMove
  <2> QED
    BY <2>1, <2>3 DEF Outstanding
<1>10. ASSUME NEW i \in Idx, n <= Minus(i, rsp_cons), Minus(i, rsp_cons) <= Outstanding
       PROVE  Minus(i, rsp_cons') = Minus(i, rsp_cons) - n
  <2>1. 0 \in 0 .. Size
    OBVIOUS
  <2>2. Minus(i, rsp_cons) \in Nat
    BY <1>0, MinusType, IdxNat
  <2>3. n <= Minus(i, rsp_cons) + 0 /\ Minus(i, rsp_cons) + 0 - n < Wrap
    BY <1>7, <1>10, <2>2
  <2>4. Minus(Plus(i, 0), Plus(rsp_cons, n)) = Minus(i, rsp_cons) + 0 - n
    BY <1>0, <1>7, <2>1, <2>3, MinusMove
  <2>5. Plus(i, 0) = i /\ rsp_cons' = Plus(rsp_cons, n)
    BY <1>6, PlusZero
  <2> QED
    BY <1>7, <2>2, <2>4, <2>5
<1>11. /\ n <= Ahead(rsp_prod) /\ n <= Ahead(req_prod) /\ n <= Ahead(poll.rp)
       /\ Ahead(rsp_prod) <= Outstanding /\ Ahead(poll.rp) <= Outstanding
  BY <1>1, <1>3
<1>12. /\ Minus(rsp_prod, rsp_cons') = Minus(rsp_prod, rsp_cons) - n
       /\ Minus(req_prod, rsp_cons') = Minus(req_prod, rsp_cons) - n
       /\ Minus(poll.rp, rsp_cons') = Minus(poll.rp, rsp_cons) - n
  BY <1>0, <1>3, <1>10, <1>11 DEF Ahead
<1> QED
  BY <1>4, <1>6, <1>7, <1>8, <1>9, <1>11, <1>12 DEF Ahead

LEMMA PollPacketKeeps == ASSUME BInv, PollPacket PROVE BInv'
<1>0. /\ req_prod_pvt \in Idx /\ rsp_cons \in Idx /\ rsp_prod \in Idx /\ req_prod \in Idx
      /\ poll.rp \in Idx /\ rx_batch \in Nat
  BY DEF BInv, Types
<1>1. PICK n \in 1 .. Ahead(poll.rp) : \E m \in 0 .. n :
          /\ n \in 0 .. Size /\ m \in 0 .. Size
          /\ TakeAndPutBack(n, m) /\ rsp_cons' = Plus(rsp_cons, n)
          /\ mishaps' \in 0 .. Mishaps
          /\ Outstanding' = Outstanding + m - n
          /\ n <= Ahead(rsp_prod)
          /\ Outstanding \in 0 .. Size /\ Outstanding + rx_batch <= MaxTarget
          /\ Minus(rsp_prod, rsp_cons') = Ahead(rsp_prod) - n
          /\ Minus(req_prod, rsp_cons') = Ahead(req_prod) - n
          /\ Minus(poll.rp, rsp_cons') = Ahead(poll.rp) - n
  BY PollPacketMoves
<1>2. PICK m \in 0 .. n :
          /\ n \in 0 .. Size /\ m \in 0 .. Size
          /\ TakeAndPutBack(n, m) /\ rsp_cons' = Plus(rsp_cons, n)
          /\ mishaps' \in 0 .. Mishaps
          /\ Outstanding' = Outstanding + m - n
          /\ n <= Ahead(rsp_prod)
          /\ Outstanding \in 0 .. Size /\ Outstanding + rx_batch <= MaxTarget
          /\ Minus(rsp_prod, rsp_cons') = Ahead(rsp_prod) - n
          /\ Minus(req_prod, rsp_cons') = Ahead(req_prod) - n
          /\ Minus(poll.rp, rsp_cons') = Ahead(poll.rp) - n
  BY <1>1
<1>3. PICK counted \in BOOLEAN : poll' = [poll EXCEPT !.work = IF counted THEN @ + 1 ELSE @]
  BY DEF PollPacket
<1>4. poll' \in PollType /\ poll'.pc = "packets" /\ poll'.rp = poll.rp
  <2>1. poll \in PollType /\ poll.work < Weight /\ poll.pc = "packets"
    BY DEF BInv, PollPacket, Types, PollType
  <2>2. poll.work + 1 \in 0 .. Weight
    BY <2>1 DEF PollType
  <2> QED
    BY <1>3, <2>1, <2>2 DEF PollType
<1>5. Connected /\ conn' = conn
  BY DEF BInv, PollPacket, Staged, Connected
<1>6. /\ Ahead(poll.rp) <= Ahead(rsp_prod) /\ Ahead(rsp_prod) <= Ahead(req_prod)
      /\ Ahead(req_prod) <= Outstanding
      /\ Ahead(rsp_prod) \in Nat /\ Ahead(req_prod) \in Nat /\ Ahead(poll.rp) \in Nat
      /\ Outstanding \in Nat
  BY <1>5, Distances DEF BInv, PollPacket, Ordered
<1>7. Outstanding' \in 0 .. Size /\ Outstanding' + rx_batch <= MaxTarget
  <2> HIDE DEF Outstanding
  <2>1. PICK o \in Nat : o = Outstanding
    BY <1>6
  <2>2. Outstanding' = o + m - n /\ o + rx_batch <= MaxTarget /\ n <= o /\ m <= n
    BY <1>2, <1>6, <2>1
  <2> QED
    BY <1>0, <1>2, <2>1, <2>2
<1>8. rx_skbs' = Part(rsp_cons', Outstanding')
  <2> DEFINE o == Minus(req_prod_pvt, rsp_cons)
  <2>1. o = Outstanding /\ o \in 0 .. Size /\ n <= o
    BY <1>2, <1>6 DEF Outstanding
  <2>2. rx_skbs = Part(rsp_cons, o)
    BY <1>5 DEF BInv, Filled, Part, Outstanding
  <2>3. rx_skbs \ {Slot(rsp_cons + k) : k \in 0 .. n - 1} = Part(rsp_cons', o - n)
    <3>1. Part(rsp_cons, o) \ {Slot(rsp_cons + k) : k \in 0 .. n - 1}
            = Part(Plus(rsp_cons, n), o - n)
      BY <1>0, <1>2, <2>1, PartShrinks
    <3>2. rsp_cons' = Plus(rsp_cons, n)
      BY <1>2
    <3> HIDE DEF o
    <3> QED
      BY <2>2, <3>1, <3>2
  <2>4. Minus(req_prod_pvt, rsp_cons') = o - n
    <3>1. 0 \in 0 .. Size /\ n <= o + 0 /\ o + 0 - n < Wrap
      BY <1>2, <2>1
    <3>2. Minus(Plus(req_prod_pvt, 0), Plus(rsp_cons, n)) = o + 0 - n
      BY <1>0, <1>2, <3>1, MinusMove
    <3> QED
      BY <1>0, <1>2, <2>1, <3>2, PlusZero
  <2>5. rsp_cons' \in Idx
    BY <1>0, <1>2, PlusType
  <2>6. Part(rsp_cons', Minus(req_prod_pvt, rsp_cons'))
            \cup {Slot(req_prod_pvt + k) : k \in 0 .. m - 1}
          = Part(rsp_cons', Minus(req_prod_pvt, rsp_cons') + m)
    <3>1. PICK c \in Idx : c = rsp_cons'
      BY <2>5
    <3>2. m \in Nat
      BY <1>2
    <3>3. Part(c, Minus(req_prod_pvt, c)) \cup {Slot(req_prod_pvt + k) : k \in 0 .. m - 1}
            = Part(c, Minus(req_prod_pvt, c) + m)
      BY <1>0, <3>1, <3>2, PartGrows
    <3> QED
      BY <3>1, <3>3
  <2>7. (o - n) + m = Outstanding'
    <3>1. Outstanding' = Outstanding + m - n
      BY <1>2
    <3> QED
      BY <1>2, <2>1, <3>1
  <2>8. rx_skbs' = (rx_skbs \ {Slot(rsp_cons + k) : k \in 0 .. n - 1})
                      \cup {Slot(req_prod_pvt + k) : k \in 0 .. m - 1}
    BY <1>2 DEF TakeAndPutBack
  <2> HIDE DEF o
  <2> QED
    BY <2>3, <2>4, <2>6, <2>7, <2>8
<1>9. rsp_cons' \in Idx /\ req_prod_pvt' \in Idx
  <2>1. m \in Nat /\ n \in Nat
    BY <1>2
  <2> QED
    BY <1>0, <1>2, <2>1, PlusType DEF TakeAndPutBack
<1>10. /\ rx_skbs' \subseteq 0 .. Size - 1 /\ IsFiniteSet(rx_skbs')
       /\ Cardinality(rx_skbs') = Outstanding'
  BY <1>7, <1>8, <1>9, PartSize
<1>11. Types'
  BY <1>2, <1>4, <1>9, <1>10 DEF BInv, PollPacket, Types, PollType, ring
<1>12. Staged'
  BY <1>4 DEF BInv, PollPacket, Staged, ring
<1>13. Ordered'
  <2>1. /\ Ahead(rsp_prod)' = Ahead(rsp_prod) - n /\ Ahead(req_prod)' = Ahead(req_prod) - n
        /\ Ahead(poll.rp)' = Ahead(poll.rp) - n
    BY <1>2, <1>4 DEF Ahead, PollPacket, ring
  <2>2. Ahead(req_prod) - n <= Outstanding + m - n
    BY <1>2, <1>6
  <2> QED
    BY <1>2, <1>6, <2>1, <2>2 DEF Ordered
<1>14. Filled'
  BY <1>7, <1>8, <1>10 DEF Filled, Part, PollPacket
<1> QED
  BY <1>11, <1>12, <1>13, <1>14 DEF BInv
-----------------------------------------------------------------------------
(* The three callers of network_alloc_rx_buffers.                          *)
LEMMA AllocBuffers ==
    ASSUME BInv, Connected, AllocRxBuffers, UNCHANGED <<rsp_prod, rsp_cons>>,
           poll'.pc # "packets", Connected'
    PROVE  Ordered' /\ Filled'
<1>0. Types /\ Ordered /\ Filled
  BY DEF BInv
<1>1. /\ IsFiniteSet(rx_skbs') /\ Cardinality(rx_skbs') = Outstanding'
      /\ rx_skbs' = Part(rsp_cons, Outstanding')
      /\ Outstanding' + rx_batch' <= MaxTarget
      /\ Minus(rsp_prod, rsp_cons) <= Minus(req_prod', rsp_cons)
      /\ Minus(req_prod', rsp_cons) <= Outstanding'
  BY <1>0, AllocKeeps
<1>2. rx_skbs' = Part(rsp_cons', Outstanding')
  BY <1>1
<1> QED
  BY <1>1, <1>2 DEF Ordered, Filled, Ahead, Part

LEMMA AllocTypes ==
    ASSUME BInv, Connected, AllocRxBuffers, UNCHANGED <<rsp_prod, rsp_cons>>,
           rsp_event' \in Idx, back' = back, irq' = irq,
           conn' \in {"requeued", "on"},
           dev' \in {"down", "opening", "looking", "up", "closing"},
           napi' \in {"off", "idle", "sched"},
           poll' \in PollType, poll'.rp \in Idx
    PROVE  Types'
<1>0. Types /\ Ordered /\ Filled
  BY DEF BInv
<1>1. /\ req_prod' \in Idx /\ req_prod_pvt' \in Idx /\ rx_skbs' \subseteq 0 .. Size - 1
      /\ rx_batch' \in 0 .. MaxTarget /\ rx_target' \in MinTarget .. MaxTarget
      /\ timer' \in BOOLEAN /\ mishaps' \in 0 .. Mishaps
  BY <1>0, AllocKeeps
<1> QED
  BY <1>0, <1>1 DEF Types, PollType

LEMMA PollRefillsKeeps == ASSUME BInv, PollRefills PROVE BInv'
<1>1. /\ AllocRxBuffers /\ UNCHANGED <<rsp_prod, rsp_event, rsp_cons, conn, dev, irq, back>>
      /\ poll' = IF poll.work < Weight THEN [NoPoll EXCEPT !.pc = "check"] ELSE NoPoll
      /\ napi' = IF poll.work = Weight /\ dev = "closing" THEN "idle" ELSE "sched"
      /\ poll.pc = "refill"
  BY DEF PollRefills
<1>2. conn = "on" /\ dev \in {"up", "closing"} /\ Connected /\ Connected'
  BY <1>1 DEF BInv, Staged, Connected
<1>3. poll' \in PollType /\ poll'.rp \in Idx /\ poll'.pc \in {"none", "check"}
  BY <1>1, PollTypes
<1>4. poll'.pc = "check" => napi' = "sched"
  <2>1. poll.work \in 0 .. Weight
    BY DEF BInv, Types
  <2> QED
    BY <1>1, <2>1, PollTypes
<1>5. Types'
  <2>1. rsp_event' \in Idx /\ conn' \in {"requeued", "on"} /\ napi' \in {"off", "idle", "sched"}
        /\ dev' \in {"down", "opening", "looking", "up", "closing"}
    BY <1>1, <1>2 DEF BInv, Types
  <2> QED
    BY <1>1, <1>2, <1>3, <2>1, AllocTypes
<1>6. Staged'
  BY <1>1, <1>2, <1>3, <1>4 DEF BInv, Staged
<1>7. Ordered' /\ Filled'
  BY <1>1, <1>2, <1>3, AllocBuffers
<1> QED
  BY <1>5, <1>6, <1>7 DEF BInv

LEMMA ConnectKeeps == ASSUME BInv, Connect PROVE BInv'
<1>1. /\ AllocRxBuffers /\ UNCHANGED <<rsp_prod, rsp_event, rsp_cons, dev, napi, poll, irq, back>>
      /\ conn = "requeued" /\ conn' = "on" /\ Connected /\ Connected'
  BY DEF Connect, Connected
<1>2. poll.pc = "none" /\ dev \notin {"opening", "looking"}
  <2>1. poll \in PollType
    BY DEF BInv, Types, PollType
  <2> QED
    BY <1>1, <2>1 DEF BInv, Staged
<1>3. Types'
  <2>1. /\ rsp_event' \in Idx /\ conn' \in {"requeued", "on"} /\ napi' \in {"off", "idle", "sched"}
        /\ dev' \in {"down", "opening", "looking", "up", "closing"}
        /\ poll' \in PollType /\ poll'.rp \in Idx
    BY <1>1 DEF BInv, Types, PollType
  <2> QED
    BY <1>1, <2>1, AllocTypes
<1>4. Staged'
  BY <1>1, <1>2 DEF BInv, Staged
<1>5. Ordered' /\ Filled'
  BY <1>1, <1>2, AllocBuffers
<1> QED
  BY <1>3, <1>4, <1>5 DEF BInv

LEMMA OpenKeeps == ASSUME BInv, Open PROVE BInv'
<1>1. /\ dev = "down" /\ conn # "requeued" /\ napi' = "idle"
      /\ UNCHANGED <<rsp_prod, rsp_event, rsp_cons, conn, poll, irq, back>>
  BY DEF Open
<1>2. poll.pc = "none" /\ poll'.pc = "none" /\ dev' \in {"opening", "up"}
  <2>1. poll \in PollType
    BY DEF BInv, Types, PollType
  <2> QED
    BY <1>1, <2>1 DEF BInv, Staged, Open
<1>3. CASE conn = "on" /\ AllocRxBuffers /\ dev' = "opening"
  <2>1. Connected /\ Connected'
    BY <1>1, <1>3 DEF Connected
  <2>2. Types'
    <3>1. /\ rsp_event' \in Idx /\ conn' \in {"requeued", "on"}
          /\ napi' \in {"off", "idle", "sched"}
          /\ dev' \in {"down", "opening", "looking", "up", "closing"}
          /\ poll' \in PollType /\ poll'.rp \in Idx
      BY <1>1, <1>2, <1>3 DEF BInv, Types, PollType
    <3> QED
      BY <1>1, <1>3, <2>1, <3>1, AllocTypes
  <2>3. Staged'
    BY <1>1, <1>2, <1>3 DEF BInv, Staged
  <2>4. Ordered' /\ Filled'
    BY <1>1, <1>2, <1>3, <2>1, AllocBuffers
  <2> QED
    BY <2>2, <2>3, <2>4 DEF BInv
<1>4. CASE conn # "on" /\ dev' = "up" /\ UNCHANGED <<req_prod, bufs, mishaps>>
  <2>1. Types'
    BY <1>1, <1>4 DEF BInv, Types, bufs
  <2>2. Staged'
    BY <1>1, <1>2, <1>4 DEF BInv, Staged
  <2>3. Ordered' /\ Filled'
    BY <1>1, <1>2, <1>4, OrderedStays, FilledStays DEF BInv, bufs
  <2> QED
    BY <2>1, <2>2, <2>3 DEF BInv
<1> QED
  BY <1>3, <1>4 DEF Open
-----------------------------------------------------------------------------
LEMMA OpenStepKeeps == ASSUME BInv, OpenStep PROVE BInv'
<1>1. Types'
  <2>1. Plus(rsp_cons, 1) \in Idx
    BY PlusType DEF BInv, Types
  <2> QED
    BY <2>1 DEF BInv, OpenStep, OpenAsks, OpenLooks, Scheduled, Types, ring, bufs
<1>2. Staged'
  BY DEF BInv, OpenStep, OpenAsks, OpenLooks, Scheduled, Staged, ring, bufs
<1>3. Ordered'
  BY OrderedStays DEF BInv, OpenStep, OpenAsks, OpenLooks, ring, bufs
<1>4. Filled'
  BY FilledStays DEF BInv, OpenStep, OpenAsks, OpenLooks, bufs
<1> QED
  BY <1>1, <1>2, <1>3, <1>4 DEF BInv

LEMMA InterruptKeeps == ASSUME BInv, Interrupt \/ RefillTimeout PROVE BInv'
<1>1. Types'
  BY DEF BInv, Interrupt, RefillTimeout, Scheduled, Types, ring, bufs
<1>2. Staged'
  BY DEF BInv, Interrupt, RefillTimeout, Scheduled, Staged, ring, bufs
<1>3. Ordered'
  BY OrderedStays DEF BInv, Interrupt, RefillTimeout, ring, bufs
<1>4. Filled'
  BY FilledStays DEF BInv, Interrupt, RefillTimeout, bufs
<1> QED
  BY <1>1, <1>2, <1>3, <1>4 DEF BInv

LEMMA CloseKeeps == ASSUME BInv, Close \/ CloseEnds PROVE BInv'
<1>1. Types'
  <2>1. mishaps' \in 0 .. Mishaps
    BY DEF BInv, Close, CloseEnds, Types
  <2> QED
    BY <2>1 DEF BInv, Close, CloseEnds, Types, ring, bufs
<1>2. Staged'
  BY DEF BInv, Close, CloseEnds, Staged, ring, bufs
<1>3. Ordered'
  BY OrderedStays DEF BInv, Close, CloseEnds, ring, bufs
<1>4. Filled'
  BY FilledStays DEF BInv, Close, CloseEnds, bufs
<1> QED
  BY <1>1, <1>2, <1>3, <1>4 DEF BInv

LEMMA ResumeKeeps == ASSUME BInv, Resume PROVE BInv'
<1>1. Types'
  <2>1. mishaps' \in 0 .. Mishaps
    BY DEF BInv, Resume, Types
  <2> QED
    BY <2>1, PollTypes, ZenonT(60) DEF BInv, Resume, Types, BackType, ring, bufs
<1>2. Staged'
  BY DEF BInv, Resume, Unlocked, Staged, ring, bufs
<1>3. Ordered'
  BY DEF BInv, Resume, Unlocked, Ordered, Connected, ring, bufs
<1>4. Filled'
  BY DEF BInv, Resume, Filled, Connected, ring, bufs
<1> QED
  BY <1>1, <1>2, <1>3, <1>4 DEF BInv

LEMMA TalkKeeps == ASSUME BInv, Talk PROVE BInv'
<1>0. poll.pc = "none"
  <2>1. poll \in PollType
    BY DEF BInv, Types, PollType
  <2> QED
    BY <2>1 DEF BInv, Talk, Staged
<1>1. Types'
  <2>1. 0 \in Idx /\ 1 \in Idx
    BY DEF Idx
  <2> QED
    BY <2>1 DEF BInv, Talk, Types
<1>2. Staged'
  BY DEF BInv, Talk, Staged
<1>3. Ordered'
  BY <1>0 DEF BInv, Talk, Ordered, Connected
<1>4. Filled'
  BY DEF BInv, Talk, Filled, Connected
<1> QED
  BY <1>1, <1>2, <1>3, <1>4 DEF BInv

(* The buffers moved to the first slots are as many as there were.         *)
LEMMA RequeueKeeps == ASSUME BInv, Requeue PROVE BInv'
<1> DEFINE n == Cardinality(rx_skbs)
<1>0. /\ poll.pc = "none" /\ rsp_cons = 0 /\ req_prod = 0 /\ rsp_prod = 0
      /\ rsp_cons' = 0 /\ req_prod' = 0 /\ rsp_prod' = 0
  BY DEF BInv, Requeue, Unlocked, Staged, ring
<1>1. n \in Nat /\ n + rx_batch <= MaxTarget /\ rx_batch \in Nat /\ rx_batch' = rx_batch
  BY FS_CardinalityType DEF BInv, Requeue, Filled, Types
<1>2. rx_skbs' = 0 .. n - 1 /\ req_prod_pvt' = n
  BY DEF Requeue
<1> HIDE DEF n
<1>3. n \in 0 .. Size /\ n \in Idx /\ 0 \in Idx
  BY <1>1 DEF Idx
<1>4. Outstanding' = n
  <2>1. Minus(n, 0) = n
    BY <1>3, MinusIs DEF Idx
  <2> QED
    BY <1>0, <1>2, <2>1 DEF Outstanding
<1>5. 0 .. n - 1 = Part(0, n)
  <2>1. \A k \in 0 .. n - 1 : Slot(0 + k) = k
    <3> SUFFICES ASSUME NEW k \in 0 .. n - 1 PROVE Slot(0 + k) = k
      OBVIOUS
    <3>1. k \in 0 .. Size - 1 /\ 0 \in Nat
      BY <1>3
    <3>2. (Size * 0 + k) % Size = k
      BY <3>1, SizeRemainder, Zenon
    <3>3. Size * 0 + k = k /\ 0 + k = k
      BY <3>1
    <3> QED
      BY <3>2, <3>3 DEF Slot
  <2> QED
    BY <2>1 DEF Part
<1>6. /\ Part(0, n) \subseteq 0 .. Size - 1
      /\ IsFiniteSet(Part(0, n)) /\ Cardinality(Part(0, n)) = n
  BY <1>3, PartSize
<1>7. Types'
  <2>1. rx_skbs' \subseteq 0 .. Size - 1 /\ req_prod_pvt' \in Idx
    BY <1>2, <1>3, <1>5, <1>6
  <2> QED
    BY <2>1 DEF BInv, Requeue, Types, ring
<1>8. Staged'
  BY DEF BInv, Requeue, Staged, ring
<1>9. Ordered'
  <2>1. Ahead(rsp_prod)' = 0 /\ Ahead(req_prod)' = 0
    BY <1>0, <1>3, MinusSelf DEF Ahead
  <2> QED
    BY <1>0, <1>1, <1>4, <2>1 DEF Ordered, Requeue
<1>10. Filled'
  <2>1. rx_skbs' = Part(rsp_cons', Outstanding')
    BY <1>0, <1>2, <1>4, <1>5
  <2>2. IsFiniteSet(rx_skbs') /\ Cardinality(rx_skbs') = Outstanding'
    BY <1>2, <1>4, <1>5, <1>6
  <2>3. Cardinality(rx_skbs') + rx_batch' <= MaxTarget
    BY <1>1, <1>4, <2>2
  <2> QED
    BY <2>1, <2>2, <2>3 DEF Filled, Part
<1> QED
  BY <1>7, <1>8, <1>9, <1>10 DEF BInv

(* The backend answers at most what is published.                          *)
LEMMA RespondMoves ==
    ASSUME BInv, Respond
    PROVE  \E n \in Nat \ {0} :
              /\ rsp_prod' = Plus(rsp_prod, n) /\ rsp_prod' \in Idx
              /\ n <= Minus(req_prod, rsp_prod)
              /\ Minus(rsp_prod', rsp_cons) = Ahead(rsp_prod) + n
              /\ Ahead(rsp_prod) + n <= Ahead(req_prod)
<1>0. /\ rsp_cons \in Idx /\ rsp_prod \in Idx /\ req_prod \in Idx
  BY DEF BInv, Types
<1>1. /\ Ahead(rsp_prod) \in Nat /\ Ahead(req_prod) \in Nat /\ Ahead(req_prod) < Wrap
  BY Distances DEF BInv
<1>2. Ahead(rsp_prod) <= Ahead(req_prod)
  BY DEF BInv, Respond, Ordered, Connected
<1>3. Minus(req_prod, rsp_prod) = Ahead(req_prod) - Ahead(rsp_prod)
  BY <1>0, <1>2, MinusShift DEF Ahead
<1>4. PICK n \in 1 .. Minus(req_prod, rsp_prod) : rsp_prod' = Plus(rsp_prod, n)
  BY DEF Respond
<1>5. n \in Nat \ {0} /\ n <= Minus(req_prod, rsp_prod) /\ Ahead(rsp_prod) + n <= Ahead(req_prod)
  BY <1>1, <1>3, <1>4
<1>6. Minus(rsp_prod, rsp_cons) + n < Wrap
  BY <1>1, <1>5 DEF Ahead
<1>7. Minus(Plus(rsp_prod, n), rsp_cons) = Minus(rsp_prod, rsp_cons) + n
  BY <1>0, <1>5, <1>6, MinusPlus
<1> QED
  BY <1>0, <1>4, <1>5, <1>7, PlusType DEF Ahead

LEMMA RespondKeeps == ASSUME BInv, Respond PROVE BInv'
<1>1. PICK n \in Nat \ {0} :
          /\ rsp_prod' \in Idx
          /\ Minus(rsp_prod', rsp_cons) = Ahead(rsp_prod) + n
          /\ Ahead(rsp_prod) + n <= Ahead(req_prod)
  BY RespondMoves
<1>2. Types'
  <2>1. back' \in BackType /\ back'.old \in Idx
    BY DEF BInv, Respond, BackType, Types
  <2> QED
    BY <1>1, <2>1 DEF BInv, Respond, Types, BackType, bufs
<1>3. Staged'
  BY DEF BInv, Respond, Staged, bufs
<1>4. Ordered'
  <2>1. /\ Ahead(rsp_prod)' = Ahead(rsp_prod) + n /\ Ahead(req_prod)' = Ahead(req_prod)
        /\ Ahead(poll.rp)' = Ahead(poll.rp) /\ Outstanding' = Outstanding
    BY <1>1 DEF Respond, Ahead, Outstanding, bufs
  <2>2. Ahead(rsp_prod) \in Nat /\ Ahead(poll.rp) \in Nat
    BY Distances DEF BInv
  <2>3. conn = "on" /\ conn' = "on" /\ poll' = poll /\ Connected
    BY DEF Respond, Connected
  <2>4. Ahead(poll.rp) <= Ahead(rsp_prod) => Ahead(poll.rp) <= Ahead(rsp_prod) + n
    BY <2>2
  <2> QED
    BY <1>1, <2>1, <2>3, <2>4 DEF BInv, Ordered
<1>5. Filled'
  BY FilledStays DEF BInv, Respond, bufs
<1> QED
  BY <1>2, <1>3, <1>4, <1>5 DEF BInv

LEMMA NotifyKeeps == ASSUME BInv, Notify PROVE BInv'
<1>1. Types'
  <2>1. irq' \in BOOLEAN
    <3>1. irq' = (irq \/ Minus(rsp_prod, rsp_event) < Minus(rsp_prod, back.old))
      BY DEF Notify
    <3> QED
      BY <3>1, Zenon
  <2> QED
    BY <2>1, PollTypes DEF BInv, Notify, Types, BackType, ring, bufs
<1>2. Staged'
  <2>1. conn = "on" /\ conn' = conn
    BY DEF BInv, Staged, Notify, Quiet
  <2> QED
    BY <2>1 DEF BInv, Notify, Staged, ring, bufs
<1>3. Ordered'
  BY OrderedStays DEF BInv, Notify, ring, bufs
<1>4. Filled'
  BY FilledStays DEF BInv, Notify, bufs
<1> QED
  BY <1>1, <1>2, <1>3, <1>4 DEF BInv
-----------------------------------------------------------------------------
LEMMA BInvInit == Init => BInv
<1> SUFFICES ASSUME Init PROVE BInv
  OBVIOUS
<1>1. Types
  <2>1. 0 \in Idx /\ 1 \in Idx
    BY DEF Idx
  <2>2. 0 \in 0 .. MaxTarget /\ 0 \in 0 .. Mishaps /\ MinTarget \in MinTarget .. MaxTarget
    OBVIOUS
  <2>3. poll \in PollType /\ poll.rp \in Idx /\ back \in BackType /\ back.old \in Idx
    BY PollTypes DEF Init
  <2> QED
    BY <2>1, <2>2, <2>3 DEF Init, Types, PollType, BackType
<1>2. Staged /\ Ordered
  BY PollTypes DEF Init, Staged, Ordered, Connected
<1>3. Filled
  BY FS_EmptySet DEF Init, Filled, Connected
<1> QED
  BY <1>1, <1>2, <1>3 DEF BInv

LEMMA BInvNext == BInv /\ [Next]_vars => BInv'
<1> SUFFICES ASSUME BInv, [Next]_vars PROVE BInv'
  OBVIOUS
<1>1. CASE PollStep
  BY <1>1, PollEntersKeeps, PollPacketKeeps, PollAdjustsKeeps, PollRefillsKeeps,
     PollChecksKeeps, PollAsksKeeps DEF PollStep
<1>2. CASE OpenStep
  BY <1>2, OpenStepKeeps
<1>3. CASE ConnStep
  BY <1>3, TalkKeeps, RequeueKeeps, ConnectKeeps DEF ConnStep
<1>4. CASE Interrupt \/ RefillTimeout
  BY <1>4, InterruptKeeps
<1>5. CASE Open \/ Close \/ CloseEnds \/ Resume
  BY <1>5, OpenKeeps, CloseKeeps, ResumeKeeps
<1>6. CASE Respond \/ Notify
  BY <1>6, RespondKeeps, NotifyKeeps
<1>7. CASE UNCHANGED vars
  BY <1>7 DEF BInv, vars, ring, bufs, Types, Staged, Ordered, Filled, Connected, Outstanding,
              Ahead
<1> QED
  BY <1>1, <1>2, <1>3, <1>4, <1>5, <1>6, <1>7 DEF Next

LEMMA BInvHolds == Spec => []BInv
BY BInvInit, BInvNext, PTL DEF Spec

(* Every response finds its buffer and every new buffer an empty slot:     *)
(* BUG_ON(np->rx_skbs[id]) in network_alloc_rx_buffers and                 *)
(* xennet_move_rx_slot, through refills that post what they have, buffers  *)
(* put back, and the requeueing in network_connect.                        *)
THEOREM BuffersFound == Spec => []BuffersInWindow
<1>1. BInv => BuffersInWindow
  <2> SUFFICES ASSUME BInv PROVE BuffersInWindow
    OBVIOUS
  <2>1. conn # "off" /\ conn # "talked" => Connected
    BY DEF BInv, Types, Connected
  <2> QED
    BY <2>1 DEF BInv, Filled, BuffersInWindow
<1> QED
  BY <1>1, BInvHolds, PTL
-----------------------------------------------------------------------------
(* The event that was asked for comes, whatever the distance.              *)
LEMMA EventComes ==
    ASSUME NEW a \in Idx, NEW b \in Idx, a # b
    PROVE  Minus(b, Plus(a, 1)) < Minus(b, a)
<1>1. Minus(b, a) \in Nat /\ Minus(b, a) # 0 /\ 1 \in Nat
  <2>1. Minus(b, a) = IF b < a THEN b - a + Wrap ELSE b - a
    BY MinusIs
  <2> QED
    BY <2>1 DEF Idx
<1>2. Minus(Plus(b, 0), Plus(a, 1)) = Minus(b, a) + 0 - 1
  <2>1. 1 <= Minus(b, a) + 0 /\ Minus(b, a) + 0 - 1 < Wrap
    BY <1>1, MinusType, IdxNat
  <2>2. 0 \in 0 .. Size /\ 1 \in 0 .. Size
    OBVIOUS
  <2> QED
    BY <2>1, <2>2, MinusMove
<1>3. Plus(b, 0) = b
  BY PlusZero
<1> QED
  BY <1>1, <1>2, <1>3

LEMMA SInvInit == Init => SInv
BY PollTypes DEF Init, SInv, Rests

(* The poll, which stays scheduled until it has looked twice.              *)
LEMMA PollAsksFor == ASSUME BInv, SInv, PollStep PROVE SInv'
<1>0. poll.pc # "none" => conn = "on" /\ napi = "sched" /\ dev \in {"up", "closing"}
  BY DEF BInv, Staged
<1>1. CASE PollEnters \/ PollPacket \/ PollAdjusts
  <2>1. /\ poll'.pc \in {"packets", "refill"} /\ napi' = napi /\ dev' = dev
        /\ napi = "sched" /\ dev \notin {"opening", "looking"}
    <3>1. CASE PollEnters
      BY <3>1 DEF PollEnters, Unlocked
    <3>2. CASE PollPacket
      <4>1. poll.pc = "packets" /\ poll'.pc = poll.pc
        BY <3>2 DEF PollPacket, BInv, Types
      <4> QED
        BY <1>0, <3>2, <4>1 DEF PollPacket
    <3>3. CASE PollAdjusts
      BY <1>0, <3>3 DEF PollAdjusts
    <3> QED
      BY <1>1, <3>1, <3>2, <3>3
  <2> QED
    BY <2>1 DEF SInv, Rests
<1>2. CASE PollRefills
  <2>1. poll'.pc \in {"none", "check"}
    BY <1>2, PollTypes DEF PollRefills
  <2>2. napi' = "idle" => dev' = "closing"
    BY <1>2 DEF PollRefills
  <2>3. dev' \notin {"opening", "looking"}
    BY <1>0, <1>2 DEF PollRefills
  <2> QED
    BY <2>1, <2>2, <2>3 DEF SInv, Rests
<1>3. CASE PollChecks
  <2>1. poll'.pc \in {"none", "ask"}
    BY <1>3, PollTypes DEF PollChecks, BInv, Types
  <2> QED
    BY <1>0, <1>3, <2>1 DEF SInv, Rests, PollChecks
<1>4. CASE PollAsks
  <2>1. poll'.pc = "recheck" /\ rsp_event' = Plus(rsp_cons', 1) /\ napi' = "sched"
    BY <1>0, <1>4 DEF PollAsks, BInv, Types
  <2> QED
    BY <2>1 DEF SInv, Rests
<1>5. CASE PollRechecks
  <2>1. /\ rsp_event' = rsp_event /\ rsp_cons' = rsp_cons /\ rsp_prod' = rsp_prod
        /\ rsp_event = Plus(rsp_cons, 1) /\ napi' = "sched"
    BY <1>0, <1>5 DEF SInv, PollRechecks, ring
  <2>2. poll'.pc = "none" \/ (poll'.pc = "complete" /\ rsp_cons = rsp_prod)
    BY <1>5, PollTypes DEF PollRechecks, Unconsumed, BInv, Types
  <2> QED
    BY <2>1, <2>2 DEF SInv, Rests
<1>6. CASE PollCompletes
  <2>1. poll'.pc = "none" /\ poll.pc = "complete"
    BY <1>6, PollTypes DEF PollCompletes
  <2> QED
    BY <1>0, <1>6, <2>1 DEF SInv, Rests, PollCompletes, ring
<1> QED
  BY <1>1, <1>2, <1>3, <1>4, <1>5, <1>6 DEF PollStep

(* Opening, closing and connecting.                                        *)
LEMMA LifeAsksFor ==
    ASSUME BInv, SInv, OpenStep \/ ConnStep \/ Open \/ Close \/ CloseEnds \/ Resume
    PROVE  SInv'
<1>0. /\ poll \in PollType
      /\ poll.pc # "none" => conn = "on" /\ napi = "sched" /\ dev \in {"up", "closing"}
  BY DEF BInv, Staged, Types, PollType
<1>1. CASE OpenAsks
  <2>1. poll'.pc = "none" /\ dev' = "looking" /\ rsp_event' = Plus(rsp_cons', 1)
    BY <1>0, <1>1 DEF OpenAsks
  <2> QED
    BY <2>1 DEF SInv, Rests
<1>2. CASE OpenLooks
  <2>1. poll'.pc = "none" /\ dev' = "up" /\ conn = "on"
    BY <1>0, <1>2 DEF OpenLooks, BInv, Staged
  <2>2. rsp_event' = Plus(rsp_cons', 1) /\ rsp_cons' = rsp_cons /\ rsp_prod' = rsp_prod
    BY <1>2, <2>1 DEF SInv, OpenLooks, ring
  <2>3. Unconsumed => napi' # "idle"
    BY <1>2 DEF OpenLooks, Scheduled
  <2> QED
    BY <2>1, <2>2, <2>3 DEF SInv, Rests, Unconsumed
<1>3. CASE Talk \/ Requeue \/ Resume
  <2>1. poll'.pc = "none" /\ conn' # "on"
    BY <1>0, <1>3 DEF Talk, Requeue, Resume, Unlocked
  <2> QED
    BY <2>1 DEF SInv, Rests
<1>4. CASE Connect
  <2>1. rsp_event' = 1 /\ rsp_cons' = 0 /\ rsp_prod' = 0 /\ poll'.pc = "none"
    BY <1>0, <1>4 DEF Connect, BInv, Staged
  <2>2. Plus(0, 1) = 1
    BY DEF Plus
  <2> QED
    BY <2>1, <2>2 DEF SInv
<1>5. CASE Open
  <2>1. poll'.pc = "none" /\ (dev' = "opening" \/ conn' # "on")
    BY <1>0, <1>5 DEF Open
  <2> QED
    BY <2>1 DEF SInv, Rests
<1>6. CASE Close \/ CloseEnds
  <2>1. dev' \in {"closing", "down"} /\ poll' = poll /\ UNCHANGED <<rsp_event, rsp_cons>>
    BY <1>6 DEF Close, CloseEnds, ring
  <2> QED
    BY <2>1 DEF SInv, Rests
<1> QED
  BY <1>1, <1>2, <1>3, <1>4, <1>5, <1>6 DEF OpenStep, ConnStep

LEMMA EventsAsksFor ==
    ASSUME BInv, SInv, OtherCpu = FALSE, Interrupt \/ RefillTimeout \/ Respond \/ Notify
    PROVE  SInv'
<1>1. CASE Interrupt
  <2>1. UNCHANGED <<rsp_event, rsp_cons, rsp_prod, conn, dev, poll, back>>
    BY <1>1 DEF Interrupt, ring
  <2>2. napi' = "idle" => napi = "idle" /\ (dev = "up" /\ conn = "on" => ~Unconsumed)
    BY <1>1 DEF Interrupt, Scheduled
  <2>3. poll.pc # "complete"
    BY <1>1 DEF Interrupt, IrqsOff
  <2> QED
    BY <2>1, <2>2, <2>3 DEF SInv, Rests, Unconsumed
<1>2. CASE RefillTimeout
  <2>1. UNCHANGED <<rsp_event, rsp_cons, rsp_prod, conn, dev, poll, back, irq>>
    BY <1>2 DEF RefillTimeout, ring
  <2>2. napi' = "idle" => dev = "closing"
    BY <1>2 DEF RefillTimeout, Scheduled
  <2>3. poll.pc = "none"
    BY <1>2 DEF RefillTimeout
  <2> QED
    BY <2>1, <2>2, <2>3 DEF SInv, Rests
<1>3. CASE Respond
  <2>1. /\ UNCHANGED <<rsp_event, rsp_cons, conn, dev, poll, napi, irq>>
        /\ ~back.pushed /\ back' = [pushed |-> TRUE, old |-> rsp_prod]
    BY <1>3 DEF Respond
  <2> QED
    BY <2>1 DEF SInv, Rests
<1>4. CASE Notify
  <2>1. /\ UNCHANGED <<rsp_event, rsp_cons, rsp_prod, conn, dev, poll, napi>>
        /\ irq' = (irq \/ Minus(rsp_prod, rsp_event) < Minus(rsp_prod, back.old))
    BY <1>4 DEF Notify, ring
  <2>2. ASSUME Rests, ~irq', rsp_cons # rsp_prod PROVE FALSE
    <3>1. ~irq /\ ~(Minus(rsp_prod, rsp_event) < Minus(rsp_prod, back.old))
      BY <2>1, <2>2, Zenon
    <3>2. rsp_cons = back.old /\ rsp_event = Plus(rsp_cons, 1)
      BY <2>2, <3>1 DEF SInv
    <3>3. rsp_cons \in Idx /\ rsp_prod \in Idx
      BY DEF BInv, Types
    <3> QED
      BY <2>2, <3>1, <3>2, <3>3, EventComes
  <2> QED
    BY <2>1, <2>2 DEF SInv, Rests
<1> QED
  BY <1>1, <1>2, <1>3, <1>4

LEMMA SInvHolds == ASSUME OtherCpu = FALSE PROVE Spec => []SInv
<1>1. BInv /\ SInv /\ [Next]_vars => SInv'
  <2> SUFFICES ASSUME BInv, SInv, [Next]_vars PROVE SInv'
    OBVIOUS
  <2>1. CASE UNCHANGED vars
    BY <2>1 DEF vars, ring, bufs, SInv, Rests
  <2>2. CASE Next
    BY <2>2, PollAsksFor, LifeAsksFor, EventsAsksFor DEF Next
  <2> QED
    BY <2>1, <2>2
<1> QED
  BY <1>1, SInvInit, BInvHolds, PTL DEF Spec

(* No packet is forgotten: the last look of netif_poll (and of             *)
(* network_open), with the event that it has asked for before, leaves no   *)
(* response that neither the poll nor an interrupt will take, as long as   *)
(* netif_int runs on the poll's processor.                                 *)
THEOREM ResponsesAreSeen == ASSUME OtherCpu = FALSE PROVE Spec => []ResponsesSeen
<1>1. BInv /\ SInv => ResponsesSeen
  <2> SUFFICES ASSUME BInv, SInv, dev = "up", conn = "on", Unconsumed, ~IrqsOff,
                      napi # "sched"
               PROVE  irq \/ back.pushed
    BY DEF ResponsesSeen
  <2>1. napi = "idle"
    BY DEF BInv, Staged, Types
  <2> QED
    BY <2>1 DEF SInv, Rests, Unconsumed
<1> QED
  BY <1>1, BInvHolds, SInvHolds, PTL
-----------------------------------------------------------------------------
LEMMA WInvInit == Init => WInv
BY DEF Init, WInv

LEMMA PollPublishes == ASSUME BInv, WInv, PollStep, "wrap" \notin When PROVE WInv'
<1>0. /\ poll.pc # "none" => conn = "on" /\ napi = "sched" /\ dev \in {"up", "closing"}
      /\ req_prod \in Idx /\ req_prod_pvt \in Idx /\ Types /\ Ordered /\ Filled
  BY DEF BInv, Staged, Types
<1>1. CASE PollEnters
  <2>1. poll'.pc = "packets" /\ napi' = "sched" /\ UNCHANGED <<req_prod, req_prod_pvt, conn>>
    BY <1>1 DEF PollEnters, ring, bufs
  <2>2. conn = "on" => req_prod <= req_prod_pvt
    BY <1>0 DEF WInv, Idx
  <2> QED
    BY <2>1, <2>2 DEF WInv, IrqsOff
<1>2. CASE PollPacket
  <2>1. PICK n \in 1 .. Ahead(poll.rp) : \E m \in 0 .. n :
            /\ m \in 0 .. Size /\ (m > 0 => req_prod_pvt + m < Wrap \/ "wrap" \in When)
            /\ TakeAndPutBack(n, m)
    BY <1>2, PollPacketMoves
  <2>2. PICK m \in 0 .. Size : /\ m > 0 => req_prod_pvt + m < Wrap
                               /\ req_prod_pvt' = Plus(req_prod_pvt, m)
    BY <2>1 DEF TakeAndPutBack
  <2>3. req_prod_pvt <= req_prod_pvt'
    <3>1. CASE m = 0
      BY <1>0, <2>2, <3>1, PlusZero DEF Idx
    <3>2. CASE m > 0
      <4>1. PICK v \in 0 .. Wrap - 1 : v = req_prod_pvt + m
        BY <1>0, <2>2, <3>2 DEF Idx
      <4>2. v % Wrap = v
        BY <4>1
      <4> QED
        BY <1>0, <2>2, <4>1, <4>2 DEF Plus, Idx
    <3> QED
      BY <3>1, <3>2
  <2>4. req_prod_pvt' \in Idx
    <3>1. m \in Nat
      BY <2>2
    <3> QED
      BY <1>0, <2>2, <3>1, PlusType
  <2>5. /\ poll.pc = "packets" /\ poll'.pc = "packets" /\ napi' = "sched"
        /\ conn = "on" /\ req_prod' = req_prod
    BY <1>0, <1>2 DEF PollPacket, BInv, Types, ring
  <2>6. req_prod <= req_prod_pvt
    BY <2>5 DEF WInv
  <2>7. req_prod' <= req_prod_pvt'
    BY <1>0, <2>3, <2>4, <2>5, <2>6 DEF Idx
  <2> QED
    BY <2>5, <2>7 DEF WInv, IrqsOff
<1>3. CASE PollAdjusts
  <2>1. /\ poll.pc = "packets" /\ poll'.pc = "refill" /\ napi' = "sched"
        /\ UNCHANGED <<req_prod, req_prod_pvt, conn>>
    BY <1>0, <1>3 DEF PollAdjusts, ring
  <2> QED
    BY <2>1 DEF WInv, IrqsOff
<1>4. CASE PollRefills
  <2>1. poll.pc = "refill" /\ conn = "on" /\ AllocRxBuffers /\ UNCHANGED <<rsp_prod, rsp_cons>>
    BY <1>0, <1>4 DEF PollRefills
  <2>2. (Outstanding' > 0 \/ timer') /\ req_prod' = req_prod_pvt'
    BY <1>0, <2>1, AllocKeeps DEF WInv, Connected
  <2>3. poll'.pc \in {"none", "check"}
    BY <1>4, PollTypes DEF PollRefills
  <2> QED
    BY <2>2, <2>3 DEF WInv
<1>5. CASE PollChecks \/ PollAsks \/ PollRechecks \/ PollCompletes
  <2>1. /\ IrqsOff /\ poll.pc # "none" /\ poll.pc \notin {"packets", "refill"}
        /\ UNCHANGED <<req_prod, req_prod_pvt, rsp_cons, conn, dev, timer>>
    BY <1>5 DEF PollChecks, PollAsks, PollRechecks, PollCompletes, IrqsOff, ring, bufs
  <2>2. poll'.pc \notin {"packets", "refill"}
    BY <1>5, PollTypes DEF PollChecks, PollAsks, PollRechecks, PollCompletes, BInv, Types
  <2> QED
    BY <1>0, <2>1, <2>2 DEF WInv, Outstanding
<1> QED
  BY <1>1, <1>2, <1>3, <1>4, <1>5 DEF PollStep

LEMMA LifePublishes ==
    ASSUME BInv, WInv, OpenStep \/ ConnStep \/ Open \/ Close \/ CloseEnds \/ Resume
    PROVE  WInv'
<1>0. /\ poll \in PollType /\ Types /\ Ordered /\ Filled
      /\ poll.pc # "none" => conn = "on" /\ napi = "sched" /\ dev \in {"up", "closing"}
  BY DEF BInv, Staged, Types, PollType
<1>1. CASE OpenStep
  <2>1. /\ UNCHANGED <<req_prod, req_prod_pvt, rsp_cons, conn, poll, timer>>
        /\ dev \in {"opening", "looking"} /\ (napi' = "idle" => napi = "idle")
    BY <1>1 DEF OpenStep, OpenAsks, OpenLooks, Scheduled, ring, bufs
  <2>2. poll.pc = "none"
    BY <1>0, <2>1
  <2> QED
    BY <2>1, <2>2 DEF WInv, Outstanding, IrqsOff
<1>2. CASE Talk \/ Requeue \/ Resume
  BY <1>2 DEF WInv, Talk, Requeue, Resume
<1>3. CASE Connect
  <2>1. /\ poll'.pc = "none" /\ req_prod = 0 /\ AllocRxBuffers /\ Connected
        /\ UNCHANGED <<rsp_prod, rsp_cons>>
    BY <1>0, <1>3 DEF Connect, Connected, BInv, Staged
  <2>2. req_prod <= req_prod_pvt
    BY <1>0, <2>1 DEF Types, Idx
  <2>3. (Outstanding' > 0 \/ timer') /\ req_prod' = req_prod_pvt'
    BY <1>0, <2>1, <2>2, AllocKeeps
  <2> QED
    BY <2>1, <2>3 DEF WInv
<1>4. CASE Open
  <2>1. poll'.pc = "none" /\ poll.pc = "none" /\ conn' = conn /\ UNCHANGED <<rsp_prod, rsp_cons>>
    BY <1>0, <1>4 DEF Open
  <2>2. CASE conn # "on"
    BY <2>1, <2>2 DEF WInv
  <2>3. CASE conn = "on"
    <3>1. AllocRxBuffers /\ Connected /\ req_prod = req_prod_pvt
      BY <1>4, <2>1, <2>3 DEF Open, Connected, WInv
    <3>2. req_prod <= req_prod_pvt
      BY <1>0, <3>1 DEF Types, Idx
    <3>3. (Outstanding' > 0 \/ timer') /\ req_prod' = req_prod_pvt'
      BY <1>0, <2>1, <3>1, <3>2, AllocKeeps
    <3> QED
      BY <2>1, <3>3 DEF WInv
  <2> QED
    BY <2>2, <2>3
<1>5. CASE Close \/ CloseEnds
  <2>1. dev' \in {"closing", "down"} /\ UNCHANGED <<poll, conn, req_prod, req_prod_pvt>>
    BY <1>5 DEF Close, CloseEnds, ring, bufs
  <2> QED
    BY <2>1 DEF WInv
<1> QED
  BY <1>1, <1>2, <1>3, <1>4, <1>5 DEF ConnStep

LEMMA EventsPublish ==
    ASSUME WInv, OtherCpu = FALSE, Interrupt \/ RefillTimeout \/ Respond \/ Notify
    PROVE  WInv'
<1>1. UNCHANGED <<req_prod, req_prod_pvt, rsp_cons, conn, dev, poll>>
  BY DEF Interrupt, RefillTimeout, Respond, Notify, ring, bufs
<1>2. CASE Interrupt \/ Respond \/ Notify
  <2>1. timer' = timer /\ (napi' = "idle" => napi = "idle")
    BY <1>2 DEF Interrupt, Respond, Notify, Scheduled, bufs
  <2> QED
    BY <1>1, <2>1 DEF WInv, Outstanding, IrqsOff
<1>3. CASE RefillTimeout
  <2>1. poll.pc = "none" /\ (napi' = "idle" => dev = "closing")
    BY <1>3 DEF RefillTimeout, Scheduled
  <2> QED
    BY <1>1, <2>1 DEF WInv, IrqsOff
<1> QED
  BY <1>2, <1>3

LEMMA WInvHolds == ASSUME OtherCpu = FALSE, "wrap" \notin When PROVE Spec => []WInv
<1>1. BInv /\ WInv /\ [Next]_vars => WInv'
  <2> SUFFICES ASSUME BInv, WInv, [Next]_vars PROVE WInv'
    OBVIOUS
  <2>1. CASE UNCHANGED vars
    BY <2>1 DEF vars, ring, bufs, WInv, IrqsOff, Outstanding
  <2>2. CASE Next
    BY <2>2, PollPublishes, LifePublishes, EventsPublish DEF Next
  <2> QED
    BY <2>1, <2>2
<1> QED
  BY <1>1, WInvInit, BInvHolds, PTL DEF Spec

(* A backend that has used up what was posted gets new buffers: when       *)
(* network_alloc_rx_buffers leaves the ring empty it has started           *)
(* rx_refill_timer, and all it posts it publishes, but for buffers put     *)
(* back across the wrap (its comparison of the indices themselves).        *)
THEOREM StarvedBackendWatched ==
    ASSUME OtherCpu = FALSE, "wrap" \notin When
    PROVE  Spec => []StarvedIsWatched
<1>1. BInv /\ SInv /\ WInv => StarvedIsWatched
  <2> SUFFICES ASSUME BInv, SInv, WInv, dev = "up", conn = "on", req_prod = rsp_prod,
                      napi # "sched", ~irq, ~back.pushed
               PROVE  timer
    BY DEF StarvedIsWatched
  <2>1. napi = "idle"
    BY DEF BInv, Staged, Types
  <2>2. rsp_cons = rsp_prod
    BY <2>1 DEF SInv, Rests
  <2>3. poll.pc = "none"
    BY <2>1 DEF BInv, Staged
  <2>4. req_prod_pvt = rsp_cons
    BY <2>2, <2>3 DEF WInv
  <2>5. Outstanding = 0
    <3>1. rsp_cons \in Idx
      BY DEF BInv, Types
    <3> QED
      BY <2>4, <3>1, MinusSelf DEF Outstanding
  <2> HIDE DEF Outstanding
  <2> QED
    BY <2>1, <2>5 DEF WInv
<1> QED
  BY <1>1, BInvHolds, SInvHolds, WInvHolds, PTL
=============================================================================
