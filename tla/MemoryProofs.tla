---------------------------- MODULE MemoryProofs ----------------------------
(***************************************************************************)
(* What the two parts that hand out the guest's memory promise: the grant  *)
(* table (Gnttab), for every table, every set of drivers and every use     *)
(* they make of it, and, at the end, the balloon (BalloonState, of which   *)
(* B! is what Balloon says it does).                                       *)
(*                                                                         *)
(* Of the grant table: the free list and the private chains are paths of   *)
(* entries that end (Linked), so taking, cutting and joining them are      *)
(* facts about paths.  Where a reference can be, the lists, a driver's     *)
(* chain, its grants, the one it ends, is a place of Spots, and Located    *)
(* puts each reference of the frames in use in just one (Apart): a step    *)
(* moves some from one place to another, or new ones to one.  GInv says    *)
(* so and is inductive; Shut adds that only what somebody has in hand is   *)
(* open to the backend.                                                    *)
(***************************************************************************)
EXTENDS Gnttab, BalloonState, TLAPS, FiniteSetTheorems, NaturalsInduction,
        WellFoundedInduction

USE TableAssumption

(* Frames and entries.                                                     *)
N == MaxFrames * EntriesPerFrame

(* Arithmetic on frames, which the provers are given as facts.             *)
LEMMA FrameSizes ==
    \A a, b \in Nat :
        /\ a * EntriesPerFrame \in Nat /\ EntriesPerFrame * a = a * EntriesPerFrame
        /\ (a + b) * EntriesPerFrame = a * EntriesPerFrame + b * EntriesPerFrame
        /\ a <= b => a * EntriesPerFrame <= b * EntriesPerFrame
        /\ a <= a * EntriesPerFrame
<1> SUFFICES ASSUME NEW a \in Nat, NEW b \in Nat
             PROVE  /\ a * EntriesPerFrame \in Nat /\ EntriesPerFrame * a = a * EntriesPerFrame
                    /\ (a + b) * EntriesPerFrame = a * EntriesPerFrame + b * EntriesPerFrame
                    /\ a <= b => a * EntriesPerFrame <= b * EntriesPerFrame
                    /\ a <= a * EntriesPerFrame
  OBVIOUS
<1>1. a * EntriesPerFrame \in Nat /\ EntriesPerFrame * a = a * EntriesPerFrame
  OBVIOUS
<1>2. (a + b) * EntriesPerFrame = a * EntriesPerFrame + b * EntriesPerFrame
  OBVIOUS
<1>3. a <= b => a * EntriesPerFrame <= b * EntriesPerFrame
  <2> SUFFICES ASSUME a <= b PROVE a * EntriesPerFrame <= b * EntriesPerFrame
    OBVIOUS
  <2>1. PICK d \in Nat : b = a + d
    <3>1. b - a \in Nat /\ b = a + (b - a)
      OBVIOUS
    <3> QED
      BY <3>1
  <2>2. (a + d) * EntriesPerFrame = a * EntriesPerFrame + d * EntriesPerFrame
    OBVIOUS
  <2>3. d * EntriesPerFrame \in Nat
    OBVIOUS
  <2> QED
    BY <1>1, <2>1, <2>2, <2>3
<1>4. a <= a * EntriesPerFrame
  <2>1. PICK k \in Nat : EntriesPerFrame = 1 + k
    <3>1. EntriesPerFrame - 1 \in Nat /\ EntriesPerFrame = 1 + (EntriesPerFrame - 1)
      OBVIOUS
    <3> QED
      BY <3>1
  <2>2. a * (1 + k) = a + a * k
    OBVIOUS
  <2>3. a * k \in Nat
    OBVIOUS
  <2> QED
    BY <2>1, <2>2, <2>3
<1> QED
  BY <1>1, <1>2, <1>3, <1>4

(* The references are 0 .. N - 1; NoRef and LIST_END are none of them.     *)
LEMMA RefsSize ==
    /\ N \in Nat /\ N > 0 /\ Refs = 0 .. N - 1
    /\ IsFiniteSet(Refs) /\ Cardinality(Refs) = N
    /\ NoRef \notin Refs /\ LIST_END \notin Refs
    /\ EntriesPerFrame <= N
<1>1. N \in Nat /\ N > 0 /\ EntriesPerFrame <= N
  <2>1. MaxFrames \in Nat /\ 1 \in Nat /\ 1 <= MaxFrames
    OBVIOUS
  <2>2. 1 * EntriesPerFrame <= MaxFrames * EntriesPerFrame /\ MaxFrames * EntriesPerFrame \in Nat
    BY <2>1, FrameSizes
  <2> QED
    BY <2>2 DEF N
<1>2. Refs = 0 .. N - 1
  BY DEF Refs, N
<1>3. IsFiniteSet(0 .. N - 1) /\ Cardinality(0 .. N - 1) = N
  <2>1. 0 \in Int /\ N - 1 \in Int
    BY <1>1
  <2>2. /\ IsFiniteSet(0 .. N - 1)
        /\ Cardinality(0 .. N - 1) = IF 0 > N - 1 THEN 0 ELSE (N - 1) - 0 + 1
    BY <2>1, FS_Interval, Zenon
  <2> QED
    BY <1>1, <2>2
<1>4. NoRef \notin Refs /\ LIST_END \notin Refs
  <2>1. \A r \in Refs : r \in Int /\ r >= 0
    BY <1>1, <1>2
  <2> QED
    BY <2>1 DEF LIST_END
<1> QED
  BY <1>1, <1>2, <1>3, <1>4

(* A set of numbers that has one has a least one.                          *)
LEMMA LeastOne ==
    ASSUME NEW T, T \subseteq Nat, T # {}
    PROVE  \E n \in T : \A m \in T : n <= m
<1>1. PICK x \in T : \A y \in T : ~(<<y, x>> \in OpToRel(<,Nat))
  BY NatLessThanWellFounded, WFMin, Zenon
<1>2. ASSUME NEW y \in T, y < x PROVE <<y, x>> \in OpToRel(<,Nat)
  <2> DEFINE p == <<y, x>>
  <2>1. p \in Nat \X Nat /\ p[1] < p[2]
    BY <1>2, SMT
  <2>2. p \in {ss \in Nat \X Nat : ss[1] < ss[2]}
    BY <2>1
  <2> QED
    BY <2>2, Zenon DEF OpToRel
<1>3. \A y \in T : ~(y < x)
  BY <1>1, <1>2, Zenon
<1>4. \A y \in T : x <= y
  BY <1>3, SMT
<1> QED
  BY <1>4
-----------------------------------------------------------------------------
(* A chain of n entries: f is the way along it.                            *)
Path(e, h, n, f) ==
    /\ f \in [1 .. n -> Refs]
    /\ \A i, j \in 1 .. n : f[i] = f[j] => i = j
    /\ h = IF n = 0 THEN LIST_END ELSE f[1]
    /\ \A i \in 1 .. n : e[f[i]] = IF i = n THEN LIST_END ELSE f[i + 1]

Places(f, n) == {f[i] : i \in 1 .. n}

Linked(e, h, n) == n \in Nat /\ \E f \in [1 .. n -> Refs] : Path(e, h, n, f)

ChainOf(e, h) == {Walk(e, h)[i] : i \in 1 .. Cardinality(Refs) + 1} \ {LIST_END}

(* A path has as many entries as it is long, and fits the table.           *)
LEMMA PlacesSize ==
    ASSUME NEW n \in Nat, NEW f \in [1 .. n -> Refs],
           \A i, j \in 1 .. n : f[i] = f[j] => i = j
    PROVE  /\ Places(f, n) \subseteq Refs /\ IsFiniteSet(Places(f, n))
           /\ Cardinality(Places(f, n)) = n /\ n <= N
<1>1. Places(f, n) \subseteq Refs
  BY DEF Places
<1>2. f \in Bijection(1 .. n, Places(f, n))
  <2>1. f \in [1 .. n -> Places(f, n)]
    BY DEF Places
  <2>2. \A t \in Places(f, n) : \E i \in 1 .. n : f[i] = t
    BY DEF Places
  <2>3. DOMAIN f = 1 .. n
    OBVIOUS
  <2> QED
    BY <2>1, <2>2, <2>3 DEF Bijection, Injection, Surjection, IsInjective
<1>3. IsFiniteSet(1 .. n) /\ Cardinality(1 .. n) = n
  <2>1. 1 \in Int /\ n \in Int
    OBVIOUS
  <2>2. /\ IsFiniteSet(1 .. n)
        /\ Cardinality(1 .. n) = IF 1 > n THEN 0 ELSE n - 1 + 1
    BY <2>1, FS_Interval, Zenon
  <2> QED
    BY <2>2
<1>4. IsFiniteSet(Places(f, n)) /\ Cardinality(Places(f, n)) = n
  BY <1>2, <1>3, FS_Bijection DEF ExistsBijection
<1>5. n <= N
  <2>1. Cardinality(Places(f, n)) <= Cardinality(Refs)
    BY <1>1, RefsSize, FS_Subset
  <2> QED
    BY <1>4, <2>1, RefsSize
<1> QED
  BY <1>1, <1>4, <1>5

(* What a loop over the chain visits.                                      *)
LEMMA WalkAlong ==
    ASSUME NEW e, NEW h, NEW n \in 0 .. N, NEW f, Path(e, h, n, f)
    PROVE  \A i \in 1 .. N + 1 : Walk(e, h)[i] = IF i <= n THEN f[i] ELSE LIST_END
<1> DEFINE S == 1 .. Cardinality(Refs) + 1
           Step(w) == [i \in S |-> IF i = 1 THEN h
                                   ELSE IF w[i - 1] = LIST_END THEN LIST_END ELSE e[w[i - 1]]]
           g == [i \in S |-> IF i <= n THEN f[i] ELSE LIST_END]
           v == Walk(e, h)
<1>1. S = 1 .. N + 1 /\ n \in Nat /\ n <= N /\ N \in Nat
  BY RefsSize
<1>0. \A i \in S : i # 1 => i - 1 \in S /\ i \in Nat /\ i - 1 \in Nat /\ i - 1 >= 1 /\ i - 1 < i
  <2> HIDE DEF S
  <2> QED
    BY <1>1
<1>2. g = Step(g)
  <2> SUFFICES ASSUME NEW i \in S PROVE g[i] = Step(g)[i]
    OBVIOUS
  <2>1. CASE i = 1
    BY <1>1, <2>1 DEF Path
  <2>2. CASE i # 1
    <3>1. i - 1 \in S /\ i \in Nat /\ i - 1 \in Nat /\ i - 1 >= 1
      BY <1>0, <2>2
    <3>2. CASE i - 1 <= n
      <4>1. i - 1 \in 1 .. n /\ g[i - 1] = f[i - 1] /\ f[i - 1] \in Refs
        BY <3>1, <3>2 DEF Path
      <4>2. g[i - 1] # LIST_END
        BY <4>1, RefsSize
      <4>3. e[f[i - 1]] = IF i - 1 = n THEN LIST_END ELSE f[(i - 1) + 1]
        BY <4>1 DEF Path
      <4>4. (i - 1) + 1 = i
        BY <3>1
      <4>5. Step(g)[i] = e[f[i - 1]]
        BY <2>2, <4>1, <4>2
      <4>6. g[i] = IF i - 1 = n THEN LIST_END ELSE f[i]
        BY <1>1, <3>1, <3>2
      <4> QED
        BY <4>3, <4>4, <4>5, <4>6
    <3>3. CASE ~(i - 1 <= n)
      <4>1. g[i - 1] = LIST_END /\ g[i] = LIST_END
        BY <1>1, <3>1, <3>3
      <4> QED
        BY <2>2, <4>1
    <3> QED
      BY <3>2, <3>3
  <2> QED
    BY <2>1, <2>2
<1>3. v = Step(v)
  <2>1. v = CHOOSE w : w = Step(w)
    BY DEF Walk
  <2> HIDE DEF Step, v
  <2>2. \E w : w = Step(w)
    BY <1>2
  <2> QED
    BY <2>1, <2>2
<1>4. ASSUME NEW i \in S, v[i] # g[i] PROVE FALSE
  <2> DEFINE T == {j \in S : v[j] # g[j]}
  <2>1. T \subseteq Nat /\ T # {}
    BY <1>1, <1>4
  <2>2. PICK j \in T : \A k \in T : j <= k
    BY <2>1, LeastOne, Zenon
  <2>3. j \in S /\ v[j] # g[j] /\ j \in Nat
    BY <2>1, <2>2
  <2>4. \A w : Step(w)[j] = IF j = 1 THEN h ELSE IF w[j - 1] = LIST_END THEN LIST_END
                                                 ELSE e[w[j - 1]]
    BY <2>3
  <2>5. v[j] = Step(v)[j] /\ g[j] = Step(g)[j]
    BY <1>2, <1>3
  <2> HIDE DEF v, g, Step
  <2>6. j # 1
    BY <2>3, <2>4, <2>5
  <2>7. j - 1 \in S /\ j - 1 < j
    BY <1>0, <2>3, <2>6
  <2>8. j - 1 \notin T
    BY <2>2, <2>3, <2>7
  <2>9. v[j - 1] = g[j - 1]
    BY <2>7, <2>8
  <2> QED
    BY <2>3, <2>4, <2>5, <2>9
<1>5. \A i \in S : v[i] = IF i <= n THEN f[i] ELSE LIST_END
  <2>1. \A i \in S : g[i] = IF i <= n THEN f[i] ELSE LIST_END
    OBVIOUS
  <2> HIDE DEF g, v, S
  <2> QED
    BY <1>4, <2>1
<1> QED
  BY <1>1, <1>5

(* A path is what the walk visits.                                         *)
LEMMA PathChain ==
    ASSUME NEW e, NEW h, NEW n \in Nat, NEW f \in [1 .. n -> Refs], Path(e, h, n, f)
    PROVE  /\ Linked(e, h, n) /\ ChainOf(e, h) = Places(f, n)
           /\ Walk(e, h)[Cardinality(Refs) + 1] = LIST_END
           /\ \A i \in 1 .. n : Walk(e, h)[i] = f[i]
           /\ \A i \in 1 .. Cardinality(Refs) + 1 : Walk(e, h)[i] # LIST_END => i <= n
           /\ n <= N /\ Places(f, n) \subseteq Refs
           /\ IsFiniteSet(Places(f, n)) /\ Cardinality(Places(f, n)) = n
<1>1. /\ n \in Nat /\ n <= N /\ Places(f, n) \subseteq Refs /\ N \in Nat
      /\ IsFiniteSet(Places(f, n)) /\ Cardinality(Places(f, n)) = n
  BY PlacesSize, RefsSize DEF Path
<1>2. \A i \in 1 .. N + 1 : Walk(e, h)[i] = IF i <= n THEN f[i] ELSE LIST_END
  <2>1. n \in 0 .. N
    BY <1>1
  <2> QED
    BY <2>1, WalkAlong
<1>3. \A i \in 1 .. n : i \in 1 .. N + 1 /\ i <= n /\ f[i] \in Refs /\ f[i] # LIST_END
  BY <1>1, RefsSize
<1>4. ChainOf(e, h) = Places(f, n)
  <2>1. ASSUME NEW r \in ChainOf(e, h) PROVE r \in Places(f, n)
    <3>1. PICK i \in 1 .. N + 1 : r = Walk(e, h)[i] /\ r # LIST_END
      BY RefsSize DEF ChainOf
    <3>2. i <= n /\ r = f[i]
      BY <1>2, <3>1
    <3>3. i \in 1 .. n
      BY <1>1, <3>2
    <3> QED
      BY <3>2, <3>3 DEF Places
  <2>2. ASSUME NEW r \in Places(f, n) PROVE r \in ChainOf(e, h)
    <3>1. PICK i \in 1 .. n : r = f[i]
      BY DEF Places
    <3>2. i \in 1 .. N + 1 /\ r = Walk(e, h)[i] /\ r # LIST_END
      BY <1>2, <1>3, <3>1
    <3> QED
      BY <3>2, RefsSize DEF ChainOf
  <2> QED
    BY <2>1, <2>2
<1>5. N + 1 \in 1 .. N + 1 /\ ~(N + 1 <= n)
  BY <1>1
<1>6. Walk(e, h)[N + 1] = LIST_END
  BY <1>2, <1>5
<1>7. \A i \in 1 .. n : Walk(e, h)[i] = f[i]
  BY <1>2, <1>3
<1>8. \A i \in 1 .. N + 1 : Walk(e, h)[i] # LIST_END => i <= n
  BY <1>2
<1>9. Linked(e, h, n)
  BY DEF Linked
<1> QED
  BY <1>1, <1>4, <1>6, <1>7, <1>8, <1>9, RefsSize

(* The same, for use where no path is at hand yet.                         *)
LEMMA PathLinks ==
    \A e, h, f : \A n \in Nat :
        f \in [1 .. n -> Refs] /\ Path(e, h, n, f)
            => Linked(e, h, n) /\ ChainOf(e, h) = Places(f, n)
<1> SUFFICES ASSUME NEW e, NEW h, NEW f, NEW n \in Nat,
                    f \in [1 .. n -> Refs], Path(e, h, n, f)
             PROVE  Linked(e, h, n) /\ ChainOf(e, h) = Places(f, n)
  OBVIOUS
<1> QED
  BY PathChain

(* The chain of a list that ends: its size, its head, its end.             *)
LEMMA LinkedChain ==
    ASSUME NEW e, NEW h, NEW n, Linked(e, h, n)
    PROVE  /\ n \in Nat /\ n <= N
           /\ ChainOf(e, h) \subseteq Refs /\ IsFiniteSet(ChainOf(e, h))
           /\ Cardinality(ChainOf(e, h)) = n
           /\ Walk(e, h)[Cardinality(Refs) + 1] = LIST_END
           /\ h = LIST_END <=> n = 0
           /\ h # LIST_END => h \in ChainOf(e, h)
           /\ ChainOf(e, LIST_END) = {} /\ Linked(e, LIST_END, 0)
<1>1. PICK f \in [1 .. n -> Refs] : Path(e, h, n, f)
  BY DEF Linked
<1>2. n \in Nat
  BY DEF Linked
<1>3. /\ ChainOf(e, h) = Places(f, n) /\ n <= N /\ Places(f, n) \subseteq Refs
      /\ IsFiniteSet(Places(f, n)) /\ Cardinality(Places(f, n)) = n
      /\ Walk(e, h)[Cardinality(Refs) + 1] = LIST_END
  BY <1>1, <1>2, PathChain
<1>4. n # 0 => h \in Places(f, n) /\ h # LIST_END
  <2> SUFFICES ASSUME n # 0 PROVE h \in Places(f, n) /\ h # LIST_END
    OBVIOUS
  <2>1. 1 \in 1 .. n /\ h = f[1]
    BY <1>1, <1>2 DEF Path
  <2> QED
    BY <2>1, RefsSize DEF Places
<1>5. n = 0 => h = LIST_END
  BY <1>1 DEF Path
<1>6. ChainOf(e, LIST_END) = {} /\ Linked(e, LIST_END, 0)
  <2> DEFINE none == [i \in 1 .. 0 |-> 0]
  <2>1. none \in [1 .. 0 -> Refs] /\ 0 \in Nat
    OBVIOUS
  <2>2. Path(e, LIST_END, 0, none)
    BY DEF Path
  <2>3. Places(none, 0) = {}
    BY DEF Places
  <2> HIDE DEF none
  <2>4. ChainOf(e, LIST_END) = Places(none, 0) /\ Linked(e, LIST_END, 0)
    BY <2>1, <2>2, PathChain
  <2> QED
    BY <2>3, <2>4
<1> QED
  BY <1>2, <1>3, <1>4, <1>5, <1>6

(* A chain is as it was when none of its entries has changed.              *)
LEMMA ChainStays ==
    ASSUME NEW e, NEW h, NEW n, Linked(e, h, n), NEW e2,
           \A r \in ChainOf(e, h) : e2[r] = e[r]
    PROVE  Linked(e2, h, n) /\ ChainOf(e2, h) = ChainOf(e, h)
<1>1. PICK f \in [1 .. n -> Refs] : Path(e, h, n, f)
  BY DEF Linked
<1>2. n \in Nat /\ ChainOf(e, h) = Places(f, n)
  BY <1>1, PathChain DEF Linked
<1>3. \A i \in 1 .. n : e2[f[i]] = e[f[i]]
  BY <1>2 DEF Places
<1>4. Path(e2, h, n, f)
  BY <1>1, <1>3 DEF Path
<1> QED
  BY <1>2, <1>4, PathChain

(* ref is put before the chain, ...                                        *)
LEMMA ChainPush ==
    ASSUME NEW e, NEW h, NEW n, Linked(e, h, n), NEW ref \in Refs, ref \notin ChainOf(e, h),
           NEW e2, e2[ref] = h, \A r \in ChainOf(e, h) : e2[r] = e[r]
    PROVE  Linked(e2, ref, n + 1) /\ ChainOf(e2, ref) = ChainOf(e, h) \cup {ref}
<1>1. PICK f \in [1 .. n -> Refs] : Path(e, h, n, f)
  BY DEF Linked
<1>2. n \in Nat /\ ChainOf(e, h) = Places(f, n)
  BY <1>1, PathChain DEF Linked
<1> DEFINE g == [i \in 1 .. n + 1 |-> IF i = 1 THEN ref ELSE f[i - 1]]
<1>3. \A i \in 1 .. n + 1 : i # 1 => i - 1 \in 1 .. n /\ (i - 1) + 1 = i /\ (i = n + 1 <=> i - 1 = n)
  BY <1>2
<1>4. g \in [1 .. n + 1 -> Refs] /\ n + 1 \in Nat /\ 1 \in 1 .. n + 1
  BY <1>2, <1>3
<1>5. \A i \in 1 .. n : f[i] \in Places(f, n) /\ f[i] # ref /\ e2[f[i]] = e[f[i]]
                        /\ i + 1 \in 1 .. n + 1 /\ i + 1 # 1 /\ (i + 1) - 1 = i
  BY <1>2 DEF Places
<1>6. Path(e2, ref, n + 1, g)
  <2>1. \A i, j \in 1 .. n + 1 : g[i] = g[j] => i = j
    <3> SUFFICES ASSUME NEW i \in 1 .. n + 1, NEW j \in 1 .. n + 1, g[i] = g[j] PROVE i = j
      OBVIOUS
    <3>1. CASE i = 1
      BY <1>3, <1>5, <3>1
    <3>2. CASE j = 1
      BY <1>3, <1>5, <3>2
    <3>3. CASE i # 1 /\ j # 1
      <4>1. f[i - 1] = f[j - 1] /\ i - 1 \in 1 .. n /\ j - 1 \in 1 .. n
        BY <1>3, <3>3
      <4>2. i - 1 = j - 1
        BY <1>1, <4>1 DEF Path
      <4> QED
        BY <1>3, <3>3, <4>2
    <3> QED
      BY <3>1, <3>2, <3>3
  <2>2. n + 1 # 0 /\ g[1] = ref
    BY <1>2, <1>4
  <2>3. ASSUME NEW i \in 1 .. n + 1
        PROVE  e2[g[i]] = IF i = n + 1 THEN LIST_END ELSE g[i + 1]
    <3>1. i # n + 1 => i + 1 \in 1 .. n + 1 /\ i + 1 # 1 /\ (i + 1) - 1 = i
      BY <1>2
    <3>2. CASE i = 1
      <4>1. n = 0 <=> i = n + 1
        BY <1>2, <3>2
      <4>2. h = IF n = 0 THEN LIST_END ELSE f[1]
        BY <1>1 DEF Path
      <4>3. i # n + 1 => g[i + 1] = f[i]
        BY <3>1
      <4>4. g[i] = ref
        BY <3>2
      <4> HIDE DEF g
      <4> QED
        BY <3>2, <4>1, <4>2, <4>3, <4>4
    <3>3. CASE i # 1
      <4>1. e2[f[i - 1]] = e[f[i - 1]]
        BY <1>3, <1>5, <3>3
      <4>2. e[f[i - 1]] = IF i - 1 = n THEN LIST_END ELSE f[(i - 1) + 1]
        BY <1>1, <1>3, <3>3 DEF Path
      <4>3. i # n + 1 => g[i + 1] = f[i]
        BY <3>1
      <4>4. g[i] = f[i - 1]
        BY <3>3
      <4> HIDE DEF g
      <4> QED
        BY <1>3, <3>3, <4>1, <4>2, <4>3, <4>4
    <3> QED
      BY <3>2, <3>3
  <2> HIDE DEF g
  <2> QED
    BY <1>4, <2>1, <2>2, <2>3 DEF Path
<1>7. Places(g, n + 1) = Places(f, n) \cup {ref}
  <2>1. ASSUME NEW r \in Places(g, n + 1) PROVE r \in Places(f, n) \cup {ref}
    <3>1. PICK i \in 1 .. n + 1 : r = g[i]
      BY DEF Places
    <3> QED
      BY <1>3, <3>1 DEF Places
  <2>2. ASSUME NEW i \in 1 .. n PROVE f[i] \in Places(g, n + 1)
    <3>1. g[i + 1] = f[i] /\ i + 1 \in 1 .. n + 1
      BY <1>5
    <3> QED
      BY <3>1 DEF Places
  <2>3. ref \in Places(g, n + 1)
    BY <1>4 DEF Places
  <2> QED
    BY <2>1, <2>2, <2>3 DEF Places
<1> HIDE DEF g
<1>8. Linked(e2, ref, n + 1) /\ ChainOf(e2, ref) = Places(g, n + 1)
  BY <1>4, <1>6, PathChain
<1> QED
  BY <1>2, <1>7, <1>8

(* A chain is cut behind its k-th entry, ...                               *)
LEMMA ChainCut ==
    ASSUME NEW e, NEW h, NEW n, Linked(e, h, n), NEW k \in 1 .. n,
           NEW last, last = Walk(e, h)[k], NEW e2, e2[last] = LIST_END,
           \A r \in ChainOf(e, h) : r # last => e2[r] = e[r]
    PROVE  /\ Linked(e2, h, k) /\ Linked(e2, e[last], n - k)
           /\ ChainOf(e2, h) \cup ChainOf(e2, e[last]) = ChainOf(e, h)
           /\ ChainOf(e2, h) \cap ChainOf(e2, e[last]) = {}
           /\ h \in Refs /\ last \in ChainOf(e, h)
<1>1. PICK f \in [1 .. n -> Refs] : Path(e, h, n, f)
  BY DEF Linked
<1>2. n \in Nat /\ ChainOf(e, h) = Places(f, n) /\ k \in 1 .. n /\ last = f[k]
  BY <1>1, PathChain DEF Linked
<1> DEFINE a == [i \in 1 .. k |-> f[i]]
           b == [i \in 1 .. n - k |-> f[k + i]]
<1>3. /\ k \in Nat /\ n - k \in Nat /\ k # 0
      /\ \A i \in 1 .. k : i \in 1 .. n
      /\ \A i \in 1 .. n - k : k + i \in 1 .. n /\ k + i # k /\ k + (i + 1) = (k + i) + 1
                               /\ (k + i = n <=> i = n - k) /\ (i # n - k => i + 1 \in 1 .. n - k)
      /\ \A i \in 1 .. k : i # k => i + 1 \in 1 .. k /\ i # n
      /\ \A i \in 1 .. n : i \in 1 .. k \/ (i - k \in 1 .. n - k /\ k + (i - k) = i)
  BY <1>2
<1>4. a \in [1 .. k -> Refs] /\ b \in [1 .. n - k -> Refs]
  BY <1>3
<1>5. \A i \in 1 .. n : i # k => f[i] # last /\ e2[f[i]] = IF i = n THEN LIST_END ELSE f[i + 1]
  <2> SUFFICES ASSUME NEW i \in 1 .. n, i # k
               PROVE  f[i] # last /\ e2[f[i]] = IF i = n THEN LIST_END ELSE f[i + 1]
    OBVIOUS
  <2>1. f[i] # f[k] /\ e[f[i]] = IF i = n THEN LIST_END ELSE f[i + 1]
    BY <1>1, <1>2 DEF Path
  <2>2. f[i] \in ChainOf(e, h)
    BY <1>2 DEF Places
  <2> QED
    BY <1>2, <2>1, <2>2
<1>6. \A i, j \in 1 .. n : f[i] = f[j] => i = j
  BY <1>1 DEF Path
<1>7. Path(e2, h, k, a)
  <2>1. \A i, j \in 1 .. k : a[i] = a[j] => i = j
    BY <1>3, <1>6
  <2>2. a[1] = h
    BY <1>1, <1>2, <1>3 DEF Path
  <2>3. \A i \in 1 .. k : e2[a[i]] = IF i = k THEN LIST_END ELSE a[i + 1]
    BY <1>2, <1>3, <1>5
  <2> HIDE DEF a
  <2> QED
    BY <1>3, <1>4, <2>1, <2>2, <2>3 DEF Path
<1>8. Path(e2, e[last], n - k, b)
  <2>1. \A i, j \in 1 .. n - k : b[i] = b[j] => i = j
    <3> SUFFICES ASSUME NEW i \in 1 .. n - k, NEW j \in 1 .. n - k, f[k + i] = f[k + j]
                 PROVE  i = j
      OBVIOUS
    <3>1. k + i = k + j
      BY <1>3, <1>6
    <3> QED
      BY <1>3, <3>1
  <2>2. e[last] = IF n - k = 0 THEN LIST_END ELSE b[1]
    <3>1. e[f[k]] = IF k = n THEN LIST_END ELSE f[k + 1]
      BY <1>1, <1>2 DEF Path
    <3>2. n - k # 0 => 1 \in 1 .. n - k
      BY <1>3
    <3>3. n - k = 0 <=> k = n
      BY <1>2
    <3> QED
      BY <1>2, <3>1, <3>2, <3>3
  <2>3. \A i \in 1 .. n - k : e2[b[i]] = IF i = n - k THEN LIST_END ELSE b[i + 1]
    BY <1>3, <1>5
  <2> HIDE DEF b
  <2> QED
    BY <1>3, <1>4, <2>1, <2>2, <2>3 DEF Path
<1>9. Places(a, k) \cup Places(b, n - k) = Places(f, n) /\ Places(a, k) \cap Places(b, n - k) = {}
  <2>1. \A i \in 1 .. k : a[i] \in Places(f, n)
    BY <1>3 DEF Places
  <2>2. \A i \in 1 .. n - k : b[i] \in Places(f, n)
    BY <1>3 DEF Places
  <2>3. ASSUME NEW i \in 1 .. n PROVE f[i] \in Places(a, k) \cup Places(b, n - k)
    <3>1. CASE i \in 1 .. k
      <4>1. f[i] = a[i]
        BY <3>1
      <4> QED
        BY <3>1, <4>1 DEF Places
    <3>2. CASE i \notin 1 .. k
      <4>1. i - k \in 1 .. n - k /\ f[i] = b[i - k]
        BY <1>3, <3>2
      <4> QED
        BY <4>1 DEF Places
    <3> QED
      BY <3>1, <3>2
  <2>4. \A i \in 1 .. k, j \in 1 .. n - k : a[i] # b[j]
    <3> SUFFICES ASSUME NEW i \in 1 .. k, NEW j \in 1 .. n - k, f[i] = f[k + j] PROVE FALSE
      OBVIOUS
    <3>1. i = k + j
      BY <1>3, <1>6
    <3> QED
      BY <1>3, <3>1
  <2> HIDE DEF a, b
  <2> QED
    BY <2>1, <2>2, <2>3, <2>4 DEF Places
<1> HIDE DEF a, b
<1>10. Linked(e2, h, k) /\ ChainOf(e2, h) = Places(a, k)
  BY <1>3, <1>4, <1>7, PathChain
<1>11. Linked(e2, e[last], n - k) /\ ChainOf(e2, e[last]) = Places(b, n - k)
  <2>1. PICK g : g = e[last]
    OBVIOUS
  <2>2. PICK q \in Nat : q = n - k
    BY <1>3
  <2>3. b \in [1 .. q -> Refs] /\ Path(e2, g, q, b)
    BY <1>4, <1>8, <2>1, <2>2
  <2>4. Linked(e2, g, q) /\ ChainOf(e2, g) = Places(b, q)
    BY <2>3, PathChain
  <2> QED
    BY <2>1, <2>2, <2>4
<1>12. h \in Refs /\ last \in ChainOf(e, h)
  BY <1>1, <1>2, <1>3 DEF Path, Places
<1> QED
  BY <1>2, <1>9, <1>10, <1>11, <1>12

(* ... loses its first entry, ...                                          *)
LEMMA ChainPop ==
    ASSUME NEW e, NEW h, NEW n, Linked(e, h, n), h # LIST_END
    PROVE  /\ n - 1 \in Nat /\ Linked(e, e[h], n - 1) /\ h \in Refs
           /\ ChainOf(e, e[h]) = ChainOf(e, h) \ {h}
           /\ h \in ChainOf(e, h)
<1>1. PICK f \in [1 .. n -> Refs] : Path(e, h, n, f)
  BY DEF Linked
<1>2. n \in Nat /\ ChainOf(e, h) = Places(f, n)
  BY <1>1, PathChain DEF Linked
<1>3. n # 0 /\ h = f[1] /\ 1 \in 1 .. n
  BY <1>1, <1>2 DEF Path
<1> DEFINE g == [i \in 1 .. n - 1 |-> f[i + 1]]
<1>4. /\ n - 1 \in Nat
      /\ \A i \in 1 .. n - 1 : i + 1 \in 1 .. n /\ i + 1 # 1 /\ (i + 1 = n <=> i = n - 1)
                               /\ (i # n - 1 => i + 1 \in 1 .. n - 1)
      /\ \A i \in 1 .. n : i # 1 => i - 1 \in 1 .. n - 1 /\ (i - 1) + 1 = i
  BY <1>2, <1>3
<1>5. g \in [1 .. n - 1 -> Refs]
  BY <1>4
<1>6. Path(e, e[h], n - 1, g)
  <2>1. \A i, j \in 1 .. n - 1 : g[i] = g[j] => i = j
    <3> SUFFICES ASSUME NEW i \in 1 .. n - 1, NEW j \in 1 .. n - 1, f[i + 1] = f[j + 1]
                 PROVE  i = j
      OBVIOUS
    <3>1. i + 1 = j + 1
      BY <1>1, <1>4 DEF Path
    <3> QED
      BY <3>1
  <2>2. e[h] = IF n - 1 = 0 THEN LIST_END ELSE g[1]
    <3>1. e[f[1]] = IF 1 = n THEN LIST_END ELSE f[1 + 1]
      BY <1>1, <1>3 DEF Path
    <3>2. (n - 1 = 0 <=> 1 = n) /\ (n - 1 # 0 => 1 \in 1 .. n - 1)
      BY <1>2, <1>4
    <3> QED
      BY <1>3, <3>1, <3>2
  <2>3. \A i \in 1 .. n - 1 : e[g[i]] = IF i = n - 1 THEN LIST_END ELSE g[i + 1]
    BY <1>1, <1>4 DEF Path
  <2> HIDE DEF g
  <2> QED
    BY <1>4, <1>5, <2>1, <2>2, <2>3 DEF Path
<1>7. Places(g, n - 1) = Places(f, n) \ {h}
  <2>1. \A i \in 1 .. n - 1 : g[i] \in Places(f, n) /\ g[i] # h
    <3> SUFFICES ASSUME NEW i \in 1 .. n - 1 PROVE f[i + 1] \in Places(f, n) /\ f[i + 1] # f[1]
      BY <1>3
    <3> QED
      BY <1>1, <1>3, <1>4 DEF Path, Places
  <2>2. ASSUME NEW i \in 1 .. n, f[i] # h PROVE f[i] \in Places(g, n - 1)
    <3>1. i - 1 \in 1 .. n - 1 /\ f[i] = g[i - 1]
      BY <1>3, <1>4, <2>2
    <3> QED
      BY <3>1 DEF Places
  <2> HIDE DEF g
  <2> QED
    BY <2>1, <2>2 DEF Places
<1> HIDE DEF g
<1>8. Linked(e, e[h], n - 1) /\ ChainOf(e, e[h]) = Places(g, n - 1)
  <2>1. PICK t : t = e[h]
    OBVIOUS
  <2>2. PICK q \in Nat : q = n - 1
    BY <1>4
  <2>3. g \in [1 .. q -> Refs] /\ Path(e, t, q, g)
    BY <1>5, <1>6, <2>1, <2>2
  <2>4. Linked(e, t, q) /\ ChainOf(e, t) = Places(g, q)
    BY <2>3, PathChain
  <2> QED
    BY <2>1, <2>2, <2>4
<1> QED
  BY <1>2, <1>3, <1>4, <1>7, <1>8 DEF Places

(* ... and is put before another one.                                      *)
LEMMA ChainJoin ==
    ASSUME NEW e, NEW h, NEW n, Linked(e, h, n), NEW t, NEW m, Linked(e, t, m),
           ChainOf(e, h) \cap ChainOf(e, t) = {},
           NEW k \in 1 .. Cardinality(Refs), NEW last, last = Walk(e, h)[k], last # LIST_END,
           e[last] = LIST_END,
           NEW e2, e2[last] = t,
           \A r \in ChainOf(e, h) \cup ChainOf(e, t) : r # last => e2[r] = e[r]
    PROVE  /\ k = n /\ Linked(e2, h, n + m) /\ h # LIST_END
           /\ ChainOf(e2, h) = ChainOf(e, h) \cup ChainOf(e, t)
           /\ last \in ChainOf(e, h)
<1>1. PICK f \in [1 .. n -> Refs], g \in [1 .. m -> Refs] : Path(e, h, n, f) /\ Path(e, t, m, g)
  BY DEF Linked
<1>2. n \in Nat /\ ChainOf(e, h) = Places(f, n) /\ m \in Nat /\ ChainOf(e, t) = Places(g, m)
  <2>1. n \in Nat /\ m \in Nat
    BY DEF Linked
  <2>2. ChainOf(e, h) = Places(f, n)
    BY <1>1, <2>1, PathLinks
  <2>3. ChainOf(e, t) = Places(g, m)
    BY <1>1, <2>1, PathLinks
  <2> QED
    BY <2>1, <2>2, <2>3
<1>3. k \in 1 .. n /\ last = f[k]
  <2>1. /\ \A i \in 1 .. Cardinality(Refs) + 1 : Walk(e, h)[i] # LIST_END => i <= n
        /\ \A i \in 1 .. n : Walk(e, h)[i] = f[i]
    BY <1>1, <1>2, PathChain
  <2>2. k \in 1 .. Cardinality(Refs) + 1 /\ k \in Nat /\ k >= 1
    BY RefsSize
  <2>3. k <= n
    BY <2>1, <2>2
  <2>4. k \in 1 .. n
    BY <1>2, <2>2, <2>3
  <2> QED
    BY <2>1, <2>4
<1>4. k = n
  <2> SUFFICES ASSUME k # n PROVE FALSE
    OBVIOUS
  <2>1. k + 1 \in 1 .. n /\ e[f[k]] = f[k + 1]
    BY <1>1, <1>2, <1>3 DEF Path
  <2> QED
    BY <1>3, <2>1, RefsSize
<1> DEFINE b == [i \in 1 .. n + m |-> IF i <= n THEN f[i] ELSE g[i - n]]
<1>5. /\ n + m \in Nat /\ n >= 1 /\ n + m # 0 /\ 1 <= n
      /\ \A i \in 1 .. n + m : /\ i <= n => i \in 1 .. n
                               /\ ~(i <= n) => i - n \in 1 .. m
                               /\ i < n => i + 1 <= n /\ i # n + m /\ i + 1 \in 1 .. n + m
                               /\ ~(i <= n) => ((i - n) + 1 = (i + 1) - n /\ ~(i + 1 <= n))
                               /\ i = n \/ i < n \/ ~(i <= n)
                               /\ i = n + m => (i <= n <=> m = 0)
                               /\ i # n + m => i + 1 \in 1 .. n + m
                               /\ ~(i <= n) => (i - n = m <=> i = n + m)
      /\ \A i \in 1 .. n : i \in 1 .. n + m /\ i <= n
      /\ \A i \in 1 .. m : n + i \in 1 .. n + m /\ ~(n + i <= n) /\ (n + i) - n = i
  BY <1>2, <1>3, SMTT(60)
<1>6. b \in [1 .. n + m -> Refs]
  BY <1>5
<1>7. \A i \in 1 .. n, j \in 1 .. m : f[i] # g[j]
  BY <1>2 DEF Places
<1>8. Path(e2, h, n + m, b)
  <2>1. \A i, j \in 1 .. n + m : b[i] = b[j] => i = j
    <3> SUFFICES ASSUME NEW i \in 1 .. n + m, NEW j \in 1 .. n + m, b[i] = b[j] PROVE i = j
      OBVIOUS
    <3>0. i \in Nat /\ j \in Nat
      OBVIOUS
    <3>1. CASE i <= n /\ j <= n
      BY <1>1, <1>5, <3>1 DEF Path
    <3>2. CASE ~(i <= n) /\ ~(j <= n)
      <4>1. i - n = j - n
        BY <1>1, <1>5, <3>2 DEF Path
      <4> QED
        BY <1>2, <3>0, <4>1
    <3>3. CASE i <= n /\ ~(j <= n)
      BY <1>5, <1>7, <3>3
    <3>4. CASE ~(i <= n) /\ j <= n
      BY <1>5, <1>7, <3>4
    <3> QED
      BY <3>1, <3>2, <3>3, <3>4
  <2>2. h = b[1]
    <3>1. 1 \in 1 .. n + m
      BY <1>5
    <3> QED
      BY <1>1, <1>5, <3>1 DEF Path
  <2>3. ASSUME NEW i \in 1 .. n + m
        PROVE  e2[b[i]] = IF i = n + m THEN LIST_END ELSE b[i + 1]
    <3>1. CASE i < n
      <4>1. i \in 1 .. n /\ i # n /\ f[i] # last
        BY <1>1, <1>2, <1>3, <1>4, <1>5, <3>1 DEF Path
      <4>2. e2[f[i]] = e[f[i]] /\ e[f[i]] = f[i + 1]
        BY <1>1, <1>2, <4>1 DEF Path, Places
      <4> QED
        BY <1>5, <3>1, <4>1, <4>2
    <3>2. CASE i = n
      <4>1. b[i] = last
        BY <1>3, <1>4, <1>5, <3>2
      <4>2. t = IF m = 0 THEN LIST_END ELSE g[1]
        BY <1>1 DEF Path
      <4>3. (i = n + m <=> m = 0) /\ (m # 0 => ~(i + 1 <= n) /\ (i + 1) - n = 1 /\ i + 1 \in 1 .. n + m)
        BY <1>2, <3>2
      <4>4. m # 0 => b[i + 1] = g[1]
        BY <4>3
      <4> HIDE DEF b
      <4> QED
        BY <4>1, <4>2, <4>3, <4>4
    <3>3. CASE ~(i <= n)
      <4>1. i - n \in 1 .. m /\ b[i] = g[i - n]
        BY <1>5, <3>3
      <4>2. g[i - n] # last
        BY <1>3, <1>7, <4>1
      <4>3. e2[g[i - n]] = e[g[i - n]]
        BY <1>2, <4>1, <4>2 DEF Places
      <4>4. e[g[i - n]] = IF i - n = m THEN LIST_END ELSE g[(i - n) + 1]
        BY <1>1, <4>1 DEF Path
      <4>5. i # n + m => b[i + 1] = g[(i - n) + 1]
        BY <1>5, <3>3
      <4> HIDE DEF b
      <4> QED
        BY <1>5, <3>3, <4>1, <4>3, <4>4, <4>5
    <3> QED
      BY <1>5, <3>1, <3>2, <3>3
  <2> HIDE DEF b
  <2> QED
    BY <1>5, <1>6, <2>1, <2>2, <2>3 DEF Path
<1>9. Places(b, n + m) = Places(f, n) \cup Places(g, m)
  <2>1. \A i \in 1 .. n + m : b[i] \in Places(f, n) \cup Places(g, m)
    BY <1>5 DEF Places
  <2>2. ASSUME NEW i \in 1 .. n PROVE f[i] \in Places(b, n + m)
    <3>1. i \in 1 .. n + m /\ f[i] = b[i]
      BY <1>5
    <3> QED
      BY <3>1 DEF Places
  <2>3. ASSUME NEW i \in 1 .. m PROVE g[i] \in Places(b, n + m)
    <3>1. n + i \in 1 .. n + m /\ g[i] = b[n + i]
      BY <1>5
    <3> QED
      BY <3>1 DEF Places
  <2> HIDE DEF b
  <2> QED
    BY <2>1, <2>2, <2>3 DEF Places
<1> HIDE DEF b
<1>10. Linked(e2, h, n + m) /\ ChainOf(e2, h) = Places(b, n + m)
  <2>1. PICK q \in Nat : q = n + m
    BY <1>5
  <2>2. b \in [1 .. q -> Refs] /\ Path(e2, h, q, b)
    BY <1>6, <1>8, <2>1
  <2>3. PICK c \in [1 .. q -> Refs] : c = b
    BY <2>2
  <2>4. Path(e2, h, q, c)
    BY <2>2, <2>3
  <2>5. Linked(e2, h, q) /\ ChainOf(e2, h) = Places(c, q)
    BY <2>4, PathChain
  <2> QED
    BY <2>1, <2>3, <2>5
<1>11. last \in ChainOf(e, h) /\ h # LIST_END
  BY <1>2, <1>3, <1>5, LinkedChain DEF Places
<1> QED
  BY <1>2, <1>4, <1>9, <1>10, <1>11

(* Entries chained in order.                                               *)
LEMMA ChainInOrder ==
    ASSUME NEW e, NEW lo \in Refs, NEW hi \in Refs, lo <= hi, e[hi] = LIST_END,
           \A r \in lo .. hi - 1 : e[r] = r + 1
    PROVE  /\ Linked(e, lo, hi - lo + 1) /\ ChainOf(e, lo) = lo .. hi
           /\ Walk(e, lo)[hi - lo + 1] = hi
<1>1. lo \in Nat /\ hi \in Nat /\ \A r \in lo .. hi : r \in Refs
  BY RefsSize
<1> DEFINE n == hi - lo + 1
           f == [i \in 1 .. n |-> lo + i - 1]
<1>2. /\ n \in Nat /\ n # 0
      /\ \A i \in 1 .. n : /\ lo + i - 1 \in lo .. hi
                           /\ (lo + i - 1 = hi <=> i = n)
                           /\ i # n => lo + i - 1 \in lo .. hi - 1 /\ i + 1 \in 1 .. n
                                       /\ (lo + i - 1) + 1 = lo + (i + 1) - 1
      /\ \A r \in lo .. hi : r - lo + 1 \in 1 .. n /\ lo + (r - lo + 1) - 1 = r
      /\ lo + 1 - 1 = lo /\ 1 \in 1 .. n
      /\ \A i, j \in 1 .. n : lo + i - 1 = lo + j - 1 => i = j
  BY <1>1
<1> HIDE DEF n
<1>3. f \in [1 .. n -> Refs]
  BY <1>1, <1>2
<1>4. Path(e, lo, n, f)
  <2>1. \A i \in 1 .. n : e[f[i]] = IF i = n THEN LIST_END ELSE f[i + 1]
    BY <1>2
  <2>2. (\A i, j \in 1 .. n : f[i] = f[j] => i = j) /\ f[1] = lo
    BY <1>2
  <2> HIDE DEF f
  <2> QED
    BY <1>2, <1>3, <2>1, <2>2 DEF Path
<1>5. Places(f, n) = lo .. hi
  <2>1. ASSUME NEW r \in lo .. hi PROVE r \in Places(f, n)
    <3>1. r - lo + 1 \in 1 .. n /\ f[r - lo + 1] = r
      BY <1>2
    <3> QED
      BY <3>1 DEF Places
  <2>2. \A i \in 1 .. n : f[i] \in lo .. hi
    BY <1>2
  <2> HIDE DEF f
  <2> QED
    BY <2>1, <2>2 DEF Places
<1> HIDE DEF f
<1>6. Linked(e, lo, n) /\ ChainOf(e, lo) = lo .. hi /\ Walk(e, lo)[n] = hi
  <2>1. PICK q \in Nat : q = n
    BY <1>2
  <2>2. f \in [1 .. q -> Refs] /\ Path(e, lo, q, f) /\ f[q] = hi /\ q \in 1 .. q
    <3>1. n \in 1 .. n /\ lo + n - 1 = hi
      BY <1>2
    <3>2. f[n] = lo + n - 1
      BY <3>1 DEF f
    <3> QED
      BY <1>3, <1>4, <2>1, <3>1, <3>2
  <2>3. Linked(e, lo, q) /\ ChainOf(e, lo) = Places(f, q) /\ \A i \in 1 .. q : Walk(e, lo)[i] = f[i]
    BY <2>2, PathChain, SMTT(60)
  <2> QED
    BY <1>5, <2>1, <2>2, <2>3
<1> QED
  BY <1>6 DEF n
-----------------------------------------------------------------------------
(* The entries of x more frames.                                           *)
Fresh(x) == EntriesPerFrame * nrFrames .. EntriesPerFrame * (nrFrames + x) - 1

(* The frames in use are within the table.                                 *)
LEMMA UsableRefs ==
    ASSUME nrFrames \in 1 .. MaxFrames
    PROVE  Usable \subseteq Refs /\ IsFiniteSet(Usable)
<1>1. /\ nrFrames * EntriesPerFrame <= N /\ nrFrames * EntriesPerFrame \in Nat
  <2>1. nrFrames \in Nat /\ MaxFrames \in Nat /\ nrFrames <= MaxFrames
    OBVIOUS
  <2> QED
    BY <2>1, FrameSizes DEF N
<1>2. Usable \subseteq Refs
  <2>1. PICK q \in Nat : q = nrFrames * EntriesPerFrame
    BY <1>1
  <2>2. Usable = NReserved .. q - 1
    BY <2>1 DEF Usable
  <2> QED
    BY <1>1, <2>1, <2>2, RefsSize
<1> QED
  BY <1>2, RefsSize, FS_Subset

(* The entries of new frames are new.                                      *)
LEMMA FreshRefs ==
    ASSUME nrFrames \in 1 .. MaxFrames, NEW x \in Nat \ {0}, nrFrames + x <= MaxFrames
    PROVE  \E lo, hi \in Refs :
               /\ lo = EntriesPerFrame * nrFrames /\ hi = EntriesPerFrame * (nrFrames + x) - 1
               /\ lo <= hi /\ hi - lo + 1 = x * EntriesPerFrame
               /\ Fresh(x) = lo .. hi
               /\ Usable \cap Fresh(x) = {}
               /\ Usable \cup Fresh(x) = NReserved .. (nrFrames + x) * EntriesPerFrame - 1
<1>1. nrFrames \in Nat /\ x \in Nat /\ MaxFrames \in Nat /\ nrFrames + x \in Nat /\ 1 \in Nat
      /\ 1 <= nrFrames /\ 1 <= x /\ nrFrames + x <= MaxFrames
  OBVIOUS
<1>2. PICK p \in Nat : p = nrFrames * EntriesPerFrame
  BY <1>1, FrameSizes
<1>3. PICK q \in Nat : q = x * EntriesPerFrame
  BY <1>1, FrameSizes
<1>4. (nrFrames + x) * EntriesPerFrame = p + q
  BY <1>1, <1>2, <1>3, FrameSizes
<1>5. EntriesPerFrame * nrFrames = p /\ EntriesPerFrame * (nrFrames + x) = p + q
  BY <1>1, <1>2, <1>4, FrameSizes
<1>6. p + q <= N
  <2>1. (nrFrames + x) * EntriesPerFrame <= MaxFrames * EntriesPerFrame
    BY <1>1, FrameSizes
  <2> QED
    BY <1>4, <2>1 DEF N
<1>7. NReserved < p /\ 1 <= q
  <2>1. 1 * EntriesPerFrame <= nrFrames * EntriesPerFrame
    BY <1>1, FrameSizes
  <2>2. 1 * EntriesPerFrame <= x * EntriesPerFrame
    BY <1>1, FrameSizes
  <2> QED
    BY <1>2, <1>3, <2>1, <2>2
<1>8. p \in Refs /\ p + q - 1 \in Refs /\ p <= p + q - 1 /\ (p + q - 1) - p + 1 = q
  BY <1>6, <1>7, RefsSize
<1>9. Fresh(x) = p .. p + q - 1 /\ Usable = NReserved .. p - 1
  BY <1>2, <1>5 DEF Fresh, Usable
<1>10. /\ (NReserved .. p - 1) \cap (p .. p + q - 1) = {}
       /\ (NReserved .. p - 1) \cup (p .. p + q - 1) = NReserved .. p + q - 1
  BY <1>7
<1>11. PICK z \in Refs : z = p + q - 1
  BY <1>8
<1>12. /\ z - p + 1 = x * EntriesPerFrame /\ Fresh(x) = p .. z
       /\ Usable \cap Fresh(x) = {}
       /\ Usable \cup Fresh(x) = NReserved .. (nrFrames + x) * EntriesPerFrame - 1
  BY <1>3, <1>4, <1>8, <1>9, <1>10, <1>11
<1> QED
  BY <1>5, <1>8, <1>11, <1>12

(* grow_gnttab_list                                                        *)
LEMMA ChainGrow ==
    ASSUME nrFrames \in 1 .. MaxFrames, NEW x \in Nat \ {0}, nrFrames + x <= MaxFrames,
           entry \in [Refs -> Links], freeHead \in Links,
           Linked(entry, freeHead, freeCount), ChainOf(entry, freeHead) \subseteq Usable
    PROVE  /\ Grown(x) \in [Refs -> Links] /\ EntriesPerFrame * nrFrames \in Refs
           /\ Linked(Grown(x), EntriesPerFrame * nrFrames, freeCount + x * EntriesPerFrame)
           /\ ChainOf(Grown(x), EntriesPerFrame * nrFrames) = ChainOf(entry, freeHead) \cup Fresh(x)
           /\ \A r \in Refs \ Fresh(x) : Grown(x)[r] = entry[r]
<1>1. PICK lo, hi \in Refs :
               /\ lo = EntriesPerFrame * nrFrames /\ hi = EntriesPerFrame * (nrFrames + x) - 1
               /\ lo <= hi /\ hi - lo + 1 = x * EntriesPerFrame
               /\ Fresh(x) = lo .. hi /\ Usable \cap Fresh(x) = {}
  BY FreshRefs
<1>2. lo \in Nat /\ hi \in Nat /\ N \in Nat /\ hi < N /\ \A r \in Refs : r \in Nat
  BY RefsSize
<1>3. \A r \in lo .. hi : r \in Refs /\ (r # hi => r \in lo .. hi - 1 /\ r + 1 \in Refs)
  BY <1>2, RefsSize
<1>4. Grown(x) = [r \in Refs |-> IF r \in lo .. hi - 1 THEN r + 1
                                 ELSE IF r = hi THEN freeHead ELSE entry[r]]
  BY <1>1 DEF Grown
<1> DEFINE e2 == Grown(x)
           e == [e2 EXCEPT ![hi] = LIST_END]
<1>5. /\ \A r \in Refs : e2[r] = IF r \in lo .. hi - 1 THEN r + 1
                                  ELSE IF r = hi THEN freeHead ELSE entry[r]
      /\ e2[hi] = freeHead
  <2>1. hi \notin lo .. hi - 1
    BY <1>2
  <2> QED
    BY <1>4, <2>1
<1>6. e2 \in [Refs -> Links]
  <2>1. \A r \in Refs : r \in lo .. hi - 1 => r + 1 \in Refs
    BY <1>2, RefsSize
  <2> QED
    BY <1>4, <2>1 DEF Links
<1>7. e[hi] = LIST_END /\ \A r \in Refs : r # hi => e[r] = e2[r]
  BY <1>6
<1> HIDE DEF e, e2
<1>8. \A r \in lo .. hi - 1 : r \in Refs /\ r # hi /\ e[r] = r + 1
  <2>1. \A r \in lo .. hi - 1 : r \in lo .. hi /\ r # hi
    BY <1>2
  <2> QED
    BY <1>3, <1>5, <1>7, <2>1
<1>9. PICK n \in Nat : n = hi - lo + 1
  BY <1>1, <1>2
<1>10. Linked(e, lo, n) /\ ChainOf(e, lo) = lo .. hi /\ Walk(e, lo)[n] = hi
  BY <1>1, <1>7, <1>8, <1>9, ChainInOrder
<1>11. \A r \in ChainOf(entry, freeHead) : r \in Refs /\ r \notin lo .. hi /\ e2[r] = entry[r] /\ e[r] = entry[r]
  <2> SUFFICES ASSUME NEW r \in ChainOf(entry, freeHead)
               PROVE  r \in Refs /\ r \notin lo .. hi /\ e2[r] = entry[r] /\ e[r] = entry[r]
    OBVIOUS
  <2>1. r \in Refs /\ r \notin lo .. hi
    BY <1>1, UsableRefs
  <2>2. r \notin lo .. hi - 1 /\ r # hi
    BY <1>1, <1>2, <2>1
  <2> QED
    BY <1>5, <1>7, <2>1, <2>2
<1>12. Linked(e, freeHead, freeCount) /\ ChainOf(e, freeHead) = ChainOf(entry, freeHead)
  BY <1>11, ChainStays
<1>13. n \in 1 .. Cardinality(Refs)
  BY <1>1, <1>2, <1>9, RefsSize
<1>14. ChainOf(e, lo) \cap ChainOf(e, freeHead) = {}
  BY <1>10, <1>11, <1>12
<1>15. \A r \in ChainOf(e, lo) \cup ChainOf(e, freeHead) : r # hi => e2[r] = e[r]
  BY <1>3, <1>7, <1>10, <1>11, <1>12
<1>16. hi # LIST_END
  BY RefsSize
<1>17. Linked(e2, lo, n + freeCount) /\ ChainOf(e2, lo) = ChainOf(e, lo) \cup ChainOf(e, freeHead)
  <2>1. PICK a : a = e
    OBVIOUS
  <2>2. PICK b : b = e2
    OBVIOUS
  <2>3. /\ Linked(a, lo, n) /\ Linked(a, freeHead, freeCount)
        /\ ChainOf(a, lo) \cap ChainOf(a, freeHead) = {} /\ hi = Walk(a, lo)[n]
        /\ a[hi] = LIST_END /\ b[hi] = freeHead
        /\ \A r \in ChainOf(a, lo) \cup ChainOf(a, freeHead) : r # hi => b[r] = a[r]
    BY <1>5, <1>7, <1>10, <1>12, <1>14, <1>15, <2>1, <2>2
  <2>4. Linked(b, lo, n + freeCount) /\ ChainOf(b, lo) = ChainOf(a, lo) \cup ChainOf(a, freeHead)
    BY <1>13, <1>16, <2>3, ChainJoin
  <2> QED
    BY <2>1, <2>2, <2>4
<1>18. n + freeCount = freeCount + x * EntriesPerFrame
  <2>1. freeCount \in Nat
    BY DEF Linked
  <2>2. n = x * EntriesPerFrame
    BY <1>1, <1>9
  <2> QED
    BY <1>9, <2>1, <2>2
<1>19. \A r \in Refs \ Fresh(x) : e2[r] = entry[r]
  <2>1. \A r \in Refs : r \notin lo .. hi => r \notin lo .. hi - 1 /\ r # hi
    BY <1>1, <1>2
  <2> QED
    BY <1>1, <1>5, <2>1
<1> QED
  BY <1>1, <1>6, <1>10, <1>12, <1>17, <1>18, <1>19 DEF e2
-----------------------------------------------------------------------------
(* Where a reference is, and what is there.                                *)
Spots == ({"free", "queue", "hand", "leaked"} \X {"all"})
         \cup ({"chain", "held", "ending"} \X Clients)

Elements(q) == {q[i] : i \in 1 .. Len(q)}
Distinct(q) == \A i, j \in 1 .. Len(q) : q[i] = q[j] => i = j

Queued == Elements(deferred)

Located ==
    [s \in Spots |->
        CASE s[1] = "free"   -> ChainOf(entry, freeHead)
          [] s[1] = "queue"  -> Queued
          [] s[1] = "hand"   -> {dh.ref} \ {NoRef}
          [] s[1] = "leaked" -> leaked
          [] s[1] = "chain"  -> ChainOf(entry, priv[s[2]])
          [] s[1] = "held"   -> held[s[2]]
          [] s[1] = "ending" -> {op[s[2]].ref} \ {NoRef}]

(* L puts each element of all in one place.                                *)
Parts(L, all) ==
    /\ \A s, t \in Spots : s # t => L[s] \cap L[t] = {}
    /\ UNION {L[s] : s \in Spots} = all

Apart == Parts(Located, Usable)

(* The free list and the private chains end.                               *)
Chained ==
    /\ Linked(entry, freeHead, freeCount)
    /\ \A c \in Clients : \E n \in Nat : Linked(entry, priv[c], n)

(* Who has a reference in hand.                                            *)
InHand ==
    /\ Distinct(deferred)
    /\ (dh.ref = NoRef <=> dh.pc \in {"idle", "next"})
    /\ \A c \in Clients : op[c].ref = NoRef <=> op[c].pc = "idle"

(* Only what somebody holds, is about to close or has given up is open.    *)
MayBeOpen(r) ==
    \/ \E c \in Clients : r \in held[c] \/ (op[c].ref = r /\ op[c].pc = "cas")
    \/ r \in leaked \/ r \in Queued
    \/ dh.ref = r /\ dh.pc # "put"

Shut ==
    /\ \A r \in mapped : flags[r] = "busy"
    /\ \A r \in Refs : flags[r] \in Open => MayBeOpen(r)
    /\ \A c \in Clients : op[c].pc = "cas" /\ op[c].seen = "completed"
                              => flags[op[c].ref] \in {"clear", "completed"}
    /\ dh.pc = "cas" => dh.seen # "busy"

GInv == Types /\ Chained /\ Apart /\ InHand
-----------------------------------------------------------------------------
(* The places there are.                                                   *)
LEMMA SpotsAre ==
    /\ \A k \in {"free", "queue", "hand", "leaked"} : <<k, "all">> \in Spots
    /\ \A k \in {"chain", "held", "ending"}, c \in Clients : <<k, c>> \in Spots
    /\ \A s \in Spots : \/ s \in {<<"free", "all">>, <<"queue", "all">>, <<"hand", "all">>,
                                  <<"leaked", "all">>}
                        \/ \E c \in Clients : s \in {<<"chain", c>>, <<"held", c>>, <<"ending", c>>}
BY DEF Spots

(* What is in each of them.                                                *)
LEMMA LocatedAt ==
    /\ Located[<<"free", "all">>] = ChainOf(entry, freeHead)
    /\ Located[<<"queue", "all">>] = Queued
    /\ Located[<<"hand", "all">>] = {dh.ref} \ {NoRef}
    /\ Located[<<"leaked", "all">>] = leaked
    /\ \A c \in Clients : /\ Located[<<"chain", c>>] = ChainOf(entry, priv[c])
                          /\ Located[<<"held", c>>] = held[c]
                          /\ Located[<<"ending", c>>] = {op[c].ref} \ {NoRef}
<1>1. \A s \in Spots :
          Located[s] = CASE s[1] = "free"   -> ChainOf(entry, freeHead)
                         [] s[1] = "queue"  -> Queued
                         [] s[1] = "hand"   -> {dh.ref} \ {NoRef}
                         [] s[1] = "leaked" -> leaked
                         [] s[1] = "chain"  -> ChainOf(entry, priv[s[2]])
                         [] s[1] = "held"   -> held[s[2]]
                         [] s[1] = "ending" -> {op[s[2]].ref} \ {NoRef}
  BY DEF Located
<1>2. /\ <<"free", "all">> \in Spots /\ <<"queue", "all">> \in Spots
      /\ <<"hand", "all">> \in Spots /\ <<"leaked", "all">> \in Spots
  BY SpotsAre
<1>3. /\ Located[<<"free", "all">>] = ChainOf(entry, freeHead)
      /\ Located[<<"queue", "all">>] = Queued
      /\ Located[<<"hand", "all">>] = {dh.ref} \ {NoRef}
      /\ Located[<<"leaked", "all">>] = leaked
  BY <1>1, <1>2
<1>4. ASSUME NEW c \in Clients
      PROVE  /\ Located[<<"chain", c>>] = ChainOf(entry, priv[c])
             /\ Located[<<"held", c>>] = held[c]
             /\ Located[<<"ending", c>>] = {op[c].ref} \ {NoRef}
  <2>1. <<"chain", c>> \in Spots /\ <<"held", c>> \in Spots /\ <<"ending", c>> \in Spots
    BY SpotsAre
  <2> QED
    BY <1>1, <2>1
<1> QED
  BY <1>3, <1>4

(* Moving some references from p to q.                                     *)
Moved(L, M, p, q, X) ==
    /\ X \subseteq L[p] /\ M[p] = L[p] \ X /\ M[q] = L[q] \cup X
    /\ \A s \in Spots \ {p, q} : M[s] = L[s]

(* A move keeps each reference in one place.                               *)
LEMMA Moves ==
    ASSUME NEW L, NEW M, NEW all, NEW p \in Spots, NEW q \in Spots, p # q, NEW X,
           Parts(L, all), Moved(L, M, p, q, X)
    PROVE  Parts(M, all)
<1>1. \A s \in Spots : M[s] = IF s = p THEN L[p] \ X ELSE IF s = q THEN L[q] \cup X ELSE L[s]
  BY DEF Moved
<1>2. X \subseteq L[p]
  BY DEF Moved
<1>3. ASSUME NEW s \in Spots, NEW t \in Spots, s # t PROVE M[s] \cap M[t] = {}
  <2>1. L[s] \cap L[t] = {}
    BY <1>3 DEF Parts
  <2>2. (s # p => L[s] \cap L[p] = {}) /\ (t # p => L[t] \cap L[p] = {})
    BY DEF Parts
  <2> QED
    BY <1>1, <1>2, <1>3, <2>1, <2>2
<1>4. UNION {M[s] : s \in Spots} = UNION {L[s] : s \in Spots}
  <2>1. ASSUME NEW s \in Spots, NEW r \in M[s] PROVE \E t \in Spots : r \in L[t]
    BY <1>1, <1>2
  <2>2. ASSUME NEW s \in Spots, NEW r \in L[s] PROVE \E t \in Spots : r \in M[t]
    <3>1. CASE s = p /\ r \in X
      BY <1>1, <3>1
    <3>2. CASE ~(s = p /\ r \in X)
      BY <1>1, <3>2
    <3> QED
      BY <3>1, <3>2
  <2> QED
    BY <2>1, <2>2
<1> QED
  BY <1>3, <1>4 DEF Parts
-----------------------------------------------------------------------------
(* gnttab_expand asks for enough frames, and for one at least.             *)
LEMMA EnoughFrames ==
    ASSUME freeCount \in Nat, NEW n \in Nat, freeCount < n
    PROVE  /\ ExtraFrames(n) \in Nat \ {0}
           /\ n <= freeCount + ExtraFrames(n) * EntriesPerFrame
<1>1. \A a \in Nat, b \in Nat \ {0} :
          a \div b \in Nat /\ b * (a \div b) <= a /\ a < b * (a \div b) + b
  BY SMTT(30)
<1>2. PICK a \in Nat : a = n - freeCount + (EntriesPerFrame - 1)
  OBVIOUS
<1>3. PICK x \in Nat : x = a \div EntriesPerFrame
  BY <1>1
<1>4. PICK m \in Nat : m = EntriesPerFrame * x
  OBVIOUS
<1>5. m <= a /\ a < m + EntriesPerFrame
  BY <1>1, <1>3, <1>4
<1>6. x # 0
  <2> SUFFICES ASSUME x = 0 PROVE FALSE
    OBVIOUS
  <2>1. m = 0
    BY <1>4
  <2> QED
    BY <1>2, <1>5, <2>1
<1>7. ExtraFrames(n) = x /\ x * EntriesPerFrame = m
  BY <1>2, <1>3, <1>4, FrameSizes DEF ExtraFrames
<1> QED
  BY <1>2, <1>5, <1>6, <1>7

(* Running callbacks keeps their types.                                    *)
LEMMA CallbackTypes ==
    ASSUME NEW list \in SUBSET Clients, NEW want \in [Clients -> Nat], NEW count,
           queued \in [Clients -> BOOLEAN], RunCallbacks(list, want, count)
    PROVE  waiting' \in SUBSET Clients /\ queued' \in [Clients -> BOOLEAN]
           /\ need' \in [Clients -> Nat]
<1>1. queued' \in [Clients -> BOOLEAN]
  <2> DEFINE s == {c \in list : count >= want[c]}
  <2>1. queued' = [c \in Clients |-> IF c \in s THEN FALSE ELSE c \in list \/ queued[c]]
    BY DEF RunCallbacks
  <2> HIDE DEF s
  <2>2. \A c \in Clients : (IF c \in s THEN FALSE ELSE c \in list \/ queued[c]) \in BOOLEAN
    BY Zenon
  <2> QED
    BY <2>1, <2>2, Zenon
<1> QED
  BY <1>1 DEF RunCallbacks

(* get_free_entries takes the first n of the chain from h.                 *)
LEMMA Detached ==
    ASSUME NEW e \in [Refs -> Links], NEW h, NEW count, Linked(e, h, count),
           NEW n \in 1 .. count, NEW ref, Detach(e, h, count, n, ref)
    PROVE  /\ ref = h /\ ref \in Refs
           /\ entry' \in [Refs -> Links] /\ freeHead' \in Links
           /\ freeCount' = count - n /\ freeCount' \in Nat
           /\ Linked(entry', freeHead', freeCount') /\ Linked(entry', ref, n)
           /\ ChainOf(entry', ref) \cup ChainOf(entry', freeHead') = ChainOf(e, h)
           /\ ChainOf(entry', ref) \cap ChainOf(entry', freeHead') = {}
           /\ \A r \in Refs \ ChainOf(e, h) : entry'[r] = e[r]
<1>1. PICK last : last = Walk(e, h)[n]
  OBVIOUS
<1>2. /\ ref = h /\ freeHead' = e[last] /\ entry' = [e EXCEPT ![last] = LIST_END]
      /\ freeCount' = count - n
  BY <1>1 DEF Detach
<1>3. count \in Nat /\ ChainOf(e, h) \subseteq Refs
  BY LinkedChain
<1>4. last \in ChainOf(e, h)
  <2>1. PICK f \in [1 .. count -> Refs] : Path(e, h, count, f)
    BY DEF Linked
  <2>2. last = f[n] /\ ChainOf(e, h) = Places(f, count)
    BY <1>1, <1>3, <2>1, PathChain
  <2> QED
    BY <2>2 DEF Places
<1>5. entry'[last] = LIST_END /\ \A r \in Refs : r # last => entry'[r] = e[r]
  BY <1>2, <1>3, <1>4
<1>6. /\ Linked(entry', h, n) /\ Linked(entry', e[last], count - n)
      /\ ChainOf(entry', h) \cup ChainOf(entry', e[last]) = ChainOf(e, h)
      /\ ChainOf(entry', h) \cap ChainOf(entry', e[last]) = {}
      /\ h \in Refs
  <2>1. PICK e2 : e2 = entry'
    OBVIOUS
  <2>2. e2[last] = LIST_END /\ \A r \in ChainOf(e, h) : r # last => e2[r] = e[r]
    BY <1>3, <1>5, <2>1
  <2>3. /\ Linked(e2, h, n) /\ Linked(e2, e[last], count - n)
        /\ ChainOf(e2, h) \cup ChainOf(e2, e[last]) = ChainOf(e, h)
        /\ ChainOf(e2, h) \cap ChainOf(e2, e[last]) = {}
        /\ h \in Refs
    BY <1>1, <2>2, ChainCut
  <2> QED
    BY <2>1, <2>3
<1>7. freeCount' \in Nat /\ freeCount' = count - n
  BY <1>2, <1>3
<1>8. freeHead' \in Links
  BY <1>2, <1>3, <1>4
<1>9. entry' \in [Refs -> Links]
  BY <1>2 DEF Links
<1> QED
  BY <1>2, <1>3, <1>4, <1>5, <1>6, <1>7, <1>8, <1>9

(* get_free_entries, with or without growing the table by new entries.     *)
LEMMA Taken ==
    ASSUME Types, Chained, ChainOf(entry, freeHead) \subseteq Usable,
           NEW n \in Nat \ {0}, NEW ref, GetFreeEntries(n, ref)
    PROVE  \E new \in SUBSET Refs :
               /\ entry' \in [Refs -> Links] /\ freeHead' \in Links /\ freeCount' \in Nat
               /\ nrFrames' \in 1 .. MaxFrames /\ ref \in Refs
               /\ waiting' \in SUBSET Clients /\ queued' \in [Clients -> BOOLEAN]
               /\ need' \in [Clients -> Nat]
               /\ Linked(entry', freeHead', freeCount') /\ Linked(entry', ref, n)
               /\ ChainOf(entry', ref) \cup ChainOf(entry', freeHead')
                      = ChainOf(entry, freeHead) \cup new
               /\ ChainOf(entry', ref) \cap ChainOf(entry', freeHead') = {}
               /\ Usable' = Usable \cup new /\ Usable \cap new = {}
               /\ \A r \in Refs \ (ChainOf(entry, freeHead) \cup new) : entry'[r] = entry[r]
<1>0. Linked(entry, freeHead, freeCount)
  BY DEF Chained
<1>1. CASE /\ freeCount >= n
           /\ Detach(entry, freeHead, freeCount, n, ref)
           /\ UNCHANGED <<nrFrames, cbs>>
  <2>1. n \in 1 .. freeCount
    BY <1>1 DEF Types
  <2>2. /\ ref = freeHead /\ ref \in Refs
        /\ entry' \in [Refs -> Links] /\ freeHead' \in Links /\ freeCount' \in Nat
        /\ Linked(entry', freeHead', freeCount') /\ Linked(entry', ref, n)
        /\ ChainOf(entry', ref) \cup ChainOf(entry', freeHead') = ChainOf(entry, freeHead)
        /\ ChainOf(entry', ref) \cap ChainOf(entry', freeHead') = {}
        /\ \A r \in Refs \ ChainOf(entry, freeHead) : entry'[r] = entry[r]
    <3>1. entry \in [Refs -> Links]
      BY DEF Types
    <3> QED
      BY <1>0, <1>1, <2>1, <3>1, Detached
  <2>3. Usable' = Usable
    BY <1>1 DEF Usable
  <2>4. /\ waiting' \in SUBSET Clients /\ queued' \in [Clients -> BOOLEAN]
        /\ need' \in [Clients -> Nat] /\ nrFrames' \in 1 .. MaxFrames
    BY <1>1 DEF Types, cbs
  <2>5. {} \in SUBSET Refs
    OBVIOUS
  <2> QED
    BY <2>2, <2>3, <2>4, <2>5
<1>2. CASE ~(freeCount >= n)
  <2>1. PICK x : x = ExtraFrames(n)
    OBVIOUS
  <2>2. PICK count : count = freeCount + x * EntriesPerFrame
    OBVIOUS
  <2>3. PICK lo : lo = EntriesPerFrame * nrFrames
    OBVIOUS
  <2>4. /\ freeCount < n /\ nrFrames + x <= MaxFrames
        /\ Detach(Grown(x), lo, count, n, ref)
        /\ nrFrames' = nrFrames + x /\ RunCallbacks(waiting, need, count)
    BY <1>2, <2>1, <2>2, <2>3 DEF GetFreeEntries
  <2>5. x \in Nat \ {0} /\ n <= count
    BY <2>1, <2>2, <2>4, EnoughFrames DEF Types
  <2>6. PICK e : e = Grown(x)
    OBVIOUS
  <2>7. /\ e \in [Refs -> Links] /\ lo \in Refs /\ Linked(e, lo, count)
        /\ ChainOf(e, lo) = ChainOf(entry, freeHead) \cup Fresh(x)
        /\ \A r \in Refs \ Fresh(x) : e[r] = entry[r]
    <3>1. nrFrames \in 1 .. MaxFrames /\ entry \in [Refs -> Links] /\ freeHead \in Links
      BY DEF Types
    <3> QED
      BY <1>0, <2>2, <2>3, <2>4, <2>5, <2>6, <3>1, ChainGrow
  <2>8. n \in 1 .. count
    BY <2>5, <2>7 DEF Linked
  <2>9. /\ ref = lo /\ ref \in Refs
        /\ entry' \in [Refs -> Links] /\ freeHead' \in Links /\ freeCount' \in Nat
        /\ Linked(entry', freeHead', freeCount') /\ Linked(entry', ref, n)
        /\ ChainOf(entry', ref) \cup ChainOf(entry', freeHead') = ChainOf(e, lo)
        /\ ChainOf(entry', ref) \cap ChainOf(entry', freeHead') = {}
        /\ \A r \in Refs \ ChainOf(e, lo) : entry'[r] = e[r]
    BY <2>4, <2>6, <2>7, <2>8, Detached
  <2>10. Usable' = Usable \cup Fresh(x) /\ Usable \cap Fresh(x) = {} /\ Fresh(x) \subseteq Refs
    <3>1. nrFrames \in 1 .. MaxFrames
      BY DEF Types
    <3>2. PICK l, hi \in Refs :
              /\ l = EntriesPerFrame * nrFrames /\ hi = EntriesPerFrame * (nrFrames + x) - 1
              /\ l <= hi /\ hi - l + 1 = x * EntriesPerFrame
              /\ Fresh(x) = l .. hi /\ Usable \cap Fresh(x) = {}
              /\ Usable \cup Fresh(x) = NReserved .. (nrFrames + x) * EntriesPerFrame - 1
      <4>1. nrFrames + x <= MaxFrames
        BY <2>4
      <4> QED
        BY <2>5, <3>1, <4>1, FreshRefs
    <3>3. Usable' = NReserved .. (nrFrames + x) * EntriesPerFrame - 1
      BY <2>4 DEF Usable
    <3>4. l .. hi \subseteq Refs
      BY RefsSize
    <3> QED
      BY <3>2, <3>3, <3>4
  <2>11. nrFrames' \in 1 .. MaxFrames
    BY <2>4, <2>5 DEF Types
  <2>12. /\ waiting' \in SUBSET Clients /\ queued' \in [Clients -> BOOLEAN]
         /\ need' \in [Clients -> Nat]
    BY <2>4, CallbackTypes DEF Types
  <2>13. \A r \in Refs \ (ChainOf(entry, freeHead) \cup Fresh(x)) : entry'[r] = entry[r]
    BY <2>7, <2>9
  <2>14. PICK new \in SUBSET Refs : new = Fresh(x)
    BY <2>10
  <2> QED
    BY <2>7, <2>9, <2>10, <2>11, <2>12, <2>13, <2>14
<1>3. freeCount >= n => /\ Detach(entry, freeHead, freeCount, n, ref)
                        /\ UNCHANGED <<nrFrames, cbs>>
  <2> SUFFICES ASSUME freeCount >= n
               PROVE  Detach(entry, freeHead, freeCount, n, ref) /\ UNCHANGED <<nrFrames, cbs>>
    OBVIOUS
  <2>1. ~(freeCount < n)
    BY DEF Types
  <2> QED
    BY <2>1 DEF GetFreeEntries
<1> QED
  BY <1>1, <1>2, <1>3
-----------------------------------------------------------------------------
(* The places again, in the next state.                                    *)
LEMMA LocatedNext ==
   (/\ Located[<<"free", "all">>] = ChainOf(entry, freeHead)
    /\ Located[<<"queue", "all">>] = Queued
    /\ Located[<<"hand", "all">>] = {dh.ref} \ {NoRef}
    /\ Located[<<"leaked", "all">>] = leaked
    /\ \A c \in Clients : /\ Located[<<"chain", c>>] = ChainOf(entry, priv[c])
                          /\ Located[<<"held", c>>] = held[c]
                          /\ Located[<<"ending", c>>] = {op[c].ref} \ {NoRef})'
BY LocatedAt, PTL

(* Each reference has one place.                                           *)
LEMMA OnePlace ==
    ASSUME Apart
    PROVE  /\ ChainOf(entry, freeHead) \subseteq Usable /\ Queued \subseteq Usable
           /\ leaked \subseteq Usable /\ dh.ref \in Usable \cup {NoRef}
           /\ \A c \in Clients : /\ ChainOf(entry, priv[c]) \subseteq Usable
                                 /\ held[c] \subseteq Usable /\ op[c].ref \in Usable \cup {NoRef}
           /\ \A c \in Clients : ChainOf(entry, priv[c]) \cap ChainOf(entry, freeHead) = {}
           /\ \A c, d \in Clients :
                 c # d => ChainOf(entry, priv[c]) \cap ChainOf(entry, priv[d]) = {}
<1>1. \A s \in Spots : Located[s] \subseteq Usable
  BY DEF Apart, Parts
<1>2. \A s, t \in Spots : s # t => Located[s] \cap Located[t] = {}
  BY DEF Apart, Parts
<1>3. /\ ChainOf(entry, freeHead) \subseteq Usable /\ Queued \subseteq Usable
      /\ leaked \subseteq Usable /\ {dh.ref} \ {NoRef} \subseteq Usable
  BY <1>1, LocatedAt, SpotsAre
<1>4. ASSUME NEW c \in Clients
      PROVE  /\ ChainOf(entry, priv[c]) \subseteq Usable
             /\ held[c] \subseteq Usable /\ {op[c].ref} \ {NoRef} \subseteq Usable
             /\ ChainOf(entry, priv[c]) \cap ChainOf(entry, freeHead) = {}
  <2>1. /\ <<"chain", c>> \in Spots /\ <<"held", c>> \in Spots /\ <<"ending", c>> \in Spots
        /\ <<"free", "all">> \in Spots /\ <<"chain", c>> # <<"free", "all">>
    BY SpotsAre
  <2> QED
    BY <1>1, <1>2, <2>1, LocatedAt
<1>5. ASSUME NEW c \in Clients, NEW d \in Clients, c # d
      PROVE  ChainOf(entry, priv[c]) \cap ChainOf(entry, priv[d]) = {}
  <2>1. <<"chain", c>> \in Spots /\ <<"chain", d>> \in Spots /\ <<"chain", c>> # <<"chain", d>>
    BY <1>5, SpotsAre
  <2> QED
    BY <1>2, <2>1, LocatedAt, ZenonT(60)
<1> QED
  BY <1>3, <1>4, <1>5

(* What is in a place is nowhere else.                                     *)
LEMMA NotElsewhere ==
    ASSUME Apart, NEW s \in Spots, NEW r \in Located[s]
    PROVE  /\ s # <<"free", "all">> => r \notin ChainOf(entry, freeHead)
           /\ s # <<"queue", "all">> => r \notin Queued
           /\ s # <<"hand", "all">> => r = NoRef \/ r # dh.ref
           /\ s # <<"leaked", "all">> => r \notin leaked
           /\ \A c \in Clients : /\ s # <<"chain", c>> => r \notin ChainOf(entry, priv[c])
                                 /\ s # <<"held", c>> => r \notin held[c]
                                 /\ s # <<"ending", c>> => r = NoRef \/ r # op[c].ref
<1>1. \A t \in Spots : s # t => r \notin Located[t]
  BY DEF Apart, Parts
<1>2. /\ s # <<"free", "all">> => r \notin ChainOf(entry, freeHead)
      /\ s # <<"queue", "all">> => r \notin Queued
      /\ s # <<"hand", "all">> => r = NoRef \/ r # dh.ref
      /\ s # <<"leaked", "all">> => r \notin leaked
  <2>1. /\ <<"free", "all">> \in Spots /\ <<"queue", "all">> \in Spots
        /\ <<"hand", "all">> \in Spots /\ <<"leaked", "all">> \in Spots
    BY SpotsAre
  <2> QED
    BY <1>1, <2>1, LocatedAt
<1>3. ASSUME NEW c \in Clients
      PROVE  /\ s # <<"chain", c>> => r \notin ChainOf(entry, priv[c])
             /\ s # <<"held", c>> => r \notin held[c]
             /\ s # <<"ending", c>> => r = NoRef \/ r # op[c].ref
  <2>1. <<"chain", c>> \in Spots /\ <<"held", c>> \in Spots /\ <<"ending", c>> \in Spots
    BY SpotsAre
  <2> QED
    BY <1>1, <2>1, LocatedAt
<1> QED
  BY <1>2, <1>3

(* Which places a step leaves as they are: all but those in D.             *)
LEMMA SamePlaces ==
    ASSUME NEW D,
           <<"free", "all">> \in D \/ ChainOf(entry, freeHead)' = ChainOf(entry, freeHead),
           <<"queue", "all">> \in D \/ Queued' = Queued,
           <<"hand", "all">> \in D \/ dh.ref' = dh.ref,
           <<"leaked", "all">> \in D \/ leaked' = leaked,
           \A c \in Clients :
               /\ <<"chain", c>> \in D \/ ChainOf(entry, priv[c])' = ChainOf(entry, priv[c])
               /\ <<"held", c>> \in D \/ held'[c] = held[c]
               /\ <<"ending", c>> \in D \/ op'[c].ref = op[c].ref
    PROVE  \A s \in Spots \ D : Located'[s] = Located[s]
<1> SUFFICES ASSUME NEW s \in Spots, s \notin D PROVE Located'[s] = Located[s]
  OBVIOUS
<1>1. CASE s \in {<<"free", "all">>, <<"queue", "all">>, <<"hand", "all">>, <<"leaked", "all">>}
  BY <1>1, LocatedAt, LocatedNext
<1>2. CASE \E c \in Clients : s \in {<<"chain", c>>, <<"held", c>>, <<"ending", c>>}
  <2>1. PICK c \in Clients : s \in {<<"chain", c>>, <<"held", c>>, <<"ending", c>>}
    BY <1>2
  <2>2. /\ Located[<<"chain", c>>] = ChainOf(entry, priv[c])
        /\ Located[<<"held", c>>] = held[c]
        /\ Located[<<"ending", c>>] = {op[c].ref} \ {NoRef}
    BY LocatedAt
  <2>3. /\ Located'[<<"chain", c>>] = ChainOf(entry, priv[c])'
        /\ Located'[<<"held", c>>] = held'[c]
        /\ Located'[<<"ending", c>>] = {op'[c].ref} \ {NoRef}
    BY LocatedNext
  <2>4. CASE s = <<"chain", c>>
    BY <2>2, <2>3, <2>4
  <2>5. CASE s = <<"held", c>>
    BY <2>2, <2>3, <2>5
  <2>6. CASE s = <<"ending", c>>
    BY <2>2, <2>3, <2>6
  <2> QED
    BY <2>1, <2>4, <2>5, <2>6
<1> QED
  BY <1>1, <1>2, SpotsAre

(* The same of the places of the state.                                    *)
LEMMA MovedApart ==
    ASSUME Apart, NEW p \in Spots, NEW q \in Spots, p # q, NEW X,
           Moved(Located, Located', p, q, X), Usable' = Usable
    PROVE  Apart'
<1>1. Parts(Located, Usable)
  BY DEF Apart
<1>2. PICK L : L = Located
  OBVIOUS
<1>3. PICK M : M = Located'
  OBVIOUS
<1>4. PICK all : all = Usable
  OBVIOUS
<1>5. Parts(L, all) /\ Moved(L, M, p, q, X)
  BY <1>1, <1>2, <1>3, <1>4
<1>6. Parts(M, all)
  BY <1>5, Moves
<1>7. Parts(Located', Usable')
  BY <1>3, <1>4, <1>6
<1> QED
  BY <1>7 DEF Apart, Parts, Spots

(* Nothing moves.                                                          *)
LEMMA StayApart ==
    ASSUME Apart, \A s \in Spots : Located'[s] = Located[s], Usable' = Usable
    PROVE  Apart'
BY DEF Apart, Parts, Spots
-----------------------------------------------------------------------------
(* A step that leaves the entries and the heads alone leaves the chains.   *)
LEMMA SamePool ==
    ASSUME UNCHANGED <<pool, priv>>
    PROVE  /\ Chained => Chained'
           /\ ChainOf(entry, freeHead)' = ChainOf(entry, freeHead) /\ Usable' = Usable
           /\ \A c \in Clients : ChainOf(entry, priv[c])' = ChainOf(entry, priv[c])
<1>1. UNCHANGED <<entry, freeHead, freeCount, nrFrames, priv>>
  BY DEF pool
<1> QED
  BY <1>1 DEF Chained, Usable

(* Steps in which no reference moves.                                      *)
LEMMA NoMove ==
    ASSUME GInv, UNCHANGED <<pool, priv, held, leaked>>, Queued' = Queued,
           dh'.ref = dh.ref, \A c \in Clients : op'[c].ref = op[c].ref
    PROVE  Chained' /\ Apart'
<1>1. \A s \in Spots \ {} : Located'[s] = Located[s]
  BY SamePool, SamePlaces
<1> QED
  BY <1>1, SamePool, StayApart DEF GInv

(* The calls of a driver that leave the list alone.                        *)
LEMMA ClaimStep ==
    ASSUME GInv, NEW c \in Clients, NEW how \in {"permit", "accept"}, ClaimAndGrant(c, how)
    PROVE  GInv'
<1>1. PICK ref : ref = priv[c]
  OBVIOUS
<1>2. /\ priv[c] # LIST_END /\ priv' = [priv EXCEPT ![c] = entry[ref]]
      /\ flags' = [flags EXCEPT ![ref] = how] /\ held' = [held EXCEPT ![c] = @ \cup {ref}]
      /\ UNCHANGED <<mapped, pool, op, cbs, defer>>
  BY <1>1 DEF ClaimAndGrant
<1>3. Types
  BY DEF GInv
<1>4. PICK n \in Nat : Linked(entry, ref, n)
  BY <1>1 DEF GInv, Chained
<1>5. /\ n - 1 \in Nat /\ Linked(entry, entry[ref], n - 1) /\ ref \in Refs
      /\ ChainOf(entry, entry[ref]) = ChainOf(entry, ref) \ {ref} /\ ref \in ChainOf(entry, ref)
  BY <1>1, <1>2, <1>4, ChainPop
<1>6. /\ priv'[c] = entry[ref] /\ \A d \in Clients : d # c => priv'[d] = priv[d]
      /\ held'[c] = held[c] \cup {ref} /\ \A d \in Clients : d # c => held'[d] = held[d]
  BY <1>2, <1>3 DEF Types
<1>7. UNCHANGED <<entry, freeHead, freeCount, nrFrames, mapped, op, waiting, queued, need,
                  deferred, timer, dh, leaked, oops>>
  BY <1>2 DEF pool, cbs, defer
<1>8. Types'
  <2>1. flags' \in [Refs -> Flags]
    BY <1>2, <1>3 DEF Types, Flags
  <2>2. priv' \in [Clients -> Links]
    BY <1>2, <1>3, <1>5 DEF Types
  <2>3. held' \in [Clients -> SUBSET Refs]
    BY <1>2, <1>3, <1>5 DEF Types
  <2> QED
    BY <1>3, <1>7, <2>1, <2>2, <2>3 DEF Types
<1>9. Chained'
  <2>1. Linked(entry', freeHead', freeCount')
    BY <1>7 DEF GInv, Chained
  <2>2. ASSUME NEW d \in Clients PROVE \E k \in Nat : Linked(entry', priv'[d], k)
    <3>1. CASE d = c
      BY <1>5, <1>6, <1>7, <3>1
    <3>2. CASE d # c
      BY <1>6, <1>7, <3>2 DEF GInv, Chained
    <3> QED
      BY <3>1, <3>2
  <2> QED
    BY <2>1, <2>2 DEF Chained
<1>10. Apart'
  <2>1. Usable' = Usable
    BY <1>7 DEF Usable
  <2> DEFINE p == <<"chain", c>>
             q == <<"held", c>>
  <2>2. p \in Spots /\ q \in Spots /\ p # q
    BY SpotsAre
  <2>3. /\ Located[p] = ChainOf(entry, ref) /\ Located[q] = held[c]
        /\ Located'[p] = ChainOf(entry, ref) \ {ref} /\ Located'[q] = held[c] \cup {ref}
    <3>1. Located'[p] = ChainOf(entry', priv'[c]) /\ Located'[q] = held'[c]
      BY LocatedNext
    <3> QED
      BY <1>1, <1>5, <1>6, <1>7, <3>1, LocatedAt
  <2>4. \A s \in Spots \ {p, q} : Located'[s] = Located[s]
    <3>1. \A d \in Clients : /\ <<"chain", d>> \in {p, q} \/ d # c
                             /\ <<"held", d>> \in {p, q} \/ d # c
      OBVIOUS
    <3>2. \A d \in Clients : d # c => ChainOf(entry, priv[d])' = ChainOf(entry, priv[d])
      BY <1>6, <1>7
    <3>3. ChainOf(entry, freeHead)' = ChainOf(entry, freeHead) /\ Queued' = Queued
      BY <1>7 DEF Queued, Elements
    <3> HIDE DEF p, q
    <3> QED
      BY <1>6, <1>7, <3>1, <3>2, <3>3, SamePlaces
  <2> HIDE DEF p, q
  <2>5. Moved(Located, Located', p, q, {ref})
    BY <1>5, <2>3, <2>4 DEF Moved
  <2> QED
    BY <2>1, <2>2, <2>5, MovedApart DEF GInv
<1>11. InHand'
  BY <1>7 DEF GInv, InHand, Distinct
<1> QED
  BY <1>8, <1>9, <1>10, <1>11 DEF GInv
-----------------------------------------------------------------------------
(* deferred_list, whose entries are different.                             *)
LEMMA Appended ==
    ASSUME NEW q \in Seq(Refs), NEW r \in Refs
    PROVE  /\ Append(q, r) \in Seq(Refs) /\ Append(q, r) # <<>>
           /\ Elements(Append(q, r)) = Elements(q) \cup {r}
           /\ Distinct(q) /\ r \notin Elements(q) => Distinct(Append(q, r))
<1>1. PICK a : a = Append(q, r)
  OBVIOUS
<1>2. PICK n \in Nat : n = Len(q)
  OBVIOUS
<1>3. a \in Seq(Refs) /\ Len(a) = n + 1 /\ a[n + 1] = r /\ \A i \in 1 .. n : a[i] = q[i]
  BY <1>1, <1>2
<1>4. \A i \in 1 .. n + 1 : i \in 1 .. n \/ i = n + 1
  OBVIOUS
<1>5. n + 1 \in 1 .. n + 1 /\ n + 1 \notin 1 .. n /\ \A i \in 1 .. n : i \in 1 .. n + 1
  OBVIOUS
<1>6. Elements(a) = Elements(q) \cup {r}
  BY <1>2, <1>3, <1>4, <1>5 DEF Elements
<1>7. Distinct(q) /\ r \notin Elements(q) => Distinct(a)
  BY <1>2, <1>3, <1>4, <1>5 DEF Elements, Distinct
<1>8. a # <<>>
  BY <1>3
<1> QED
  BY <1>1, <1>3, <1>6, <1>7, <1>8

(* A list without its first entry.                                         *)
LEMMA Headless ==
    ASSUME NEW q \in Seq(Refs), q # <<>>
    PROVE  /\ Tail(q) \in Seq(Refs) /\ Head(q) \in Refs /\ Head(q) \in Elements(q)
           /\ Elements(q) = Elements(Tail(q)) \cup {Head(q)}
           /\ Distinct(q) => Head(q) \notin Elements(Tail(q)) /\ Distinct(Tail(q))
<1>1. PICK t : t = Tail(q)
  OBVIOUS
<1>2. PICK n \in Nat : n + 1 = Len(q)
  <2>1. Len(q) \in Nat /\ Len(q) # 0
    OBVIOUS
  <2>2. Len(q) - 1 \in Nat /\ (Len(q) - 1) + 1 = Len(q)
    BY <2>1
  <2> QED
    BY <2>2
<1>3. t \in Seq(Refs) /\ Len(t) = n /\ \A i \in 1 .. n : t[i] = q[i + 1]
  BY <1>1, <1>2
<1>4. Head(q) = q[1] /\ Head(q) \in Refs /\ 1 \in 1 .. n + 1
  BY <1>2
<1>5. /\ \A i \in 1 .. n : i + 1 \in 1 .. n + 1 /\ i + 1 # 1
      /\ \A i \in 1 .. n + 1 : i # 1 => i - 1 \in 1 .. n /\ (i - 1) + 1 = i
      /\ \A i, j \in 1 .. n : i + 1 = j + 1 => i = j
  OBVIOUS
<1>6. Elements(q) = Elements(t) \cup {Head(q)}
  <2>1. \A i \in 1 .. n : t[i] \in Elements(q)
    BY <1>2, <1>3, <1>5 DEF Elements
  <2>2. ASSUME NEW i \in 1 .. n + 1 PROVE q[i] \in Elements(t) \cup {Head(q)}
    <3>1. CASE i = 1
      BY <1>4, <3>1
    <3>2. CASE i # 1
      <4>1. i - 1 \in 1 .. n /\ t[i - 1] = q[(i - 1) + 1] /\ (i - 1) + 1 = i
        BY <1>3, <1>5, <3>2
      <4> QED
        BY <1>3, <4>1 DEF Elements
    <3> QED
      BY <3>1, <3>2
  <2> QED
    BY <1>2, <1>3, <1>4, <2>1, <2>2 DEF Elements
<1>7. Distinct(q) => Head(q) \notin Elements(t) /\ Distinct(t)
  BY <1>2, <1>3, <1>4, <1>5, SMTT(60) DEF Elements, Distinct
<1>8. Head(q) \in Elements(q)
  BY <1>2, <1>4 DEF Elements
<1> QED
  BY <1>1, <1>3, <1>4, <1>6, <1>7, <1>8
-----------------------------------------------------------------------------
LEMMA BeginStep ==
    ASSUME GInv, NEW c \in Clients, NEW ref \in Refs, NEW dest \in {"pool", "batch"},
           BeginEnd(c, ref, dest)
    PROVE  GInv'
<1>1. /\ op[c].pc = "idle" /\ ref \in held[c] /\ held' = [held EXCEPT ![c] = @ \ {ref}]
      /\ op' = [op EXCEPT ![c] = [pc |-> "cas", ref |-> ref, seen |-> flags[ref], dest |-> dest]]
      /\ UNCHANGED <<pool, shared, priv, cbs, defer>>
  BY DEF BeginEnd
<1>2. Types
  BY DEF GInv
<1>3. UNCHANGED <<entry, freeHead, freeCount, nrFrames, flags, mapped, priv, waiting, queued,
                  need, deferred, timer, dh, leaked, oops>>
  BY <1>1 DEF pool, shared, cbs, defer
<1>4. /\ held'[c] = held[c] \ {ref} /\ \A d \in Clients : d # c => held'[d] = held[d]
      /\ op'[c].ref = ref /\ op'[c].pc = "cas" /\ \A d \in Clients : d # c => op'[d] = op[d]
  BY <1>1, <1>2 DEF Types
<1>5. Types'
  <2>1. held' \in [Clients -> SUBSET Refs]
    BY <1>1, <1>2 DEF Types
  <2>2. op' \in [Clients -> [pc : {"idle", "cas", "put"}, ref : Refs \cup {NoRef},
                             seen : Flags, dest : {"pool", "batch"}]]
    BY <1>1, <1>2 DEF Types
  <2> QED
    BY <1>2, <1>3, <2>1, <2>2 DEF Types
<1>6. Chained'
  BY <1>3, SamePool DEF GInv, pool
<1>7. Apart'
  <2> DEFINE p == <<"held", c>>
             q == <<"ending", c>>
  <2>1. p \in Spots /\ q \in Spots /\ p # q
    BY SpotsAre
  <2>2. op[c].ref = NoRef /\ ref # NoRef
    BY <1>1, RefsSize DEF GInv, InHand
  <2>3. /\ Located[p] = held[c] /\ Located[q] = {}
        /\ Located'[p] = held[c] \ {ref} /\ Located'[q] = {ref}
    <3>1. Located'[p] = held'[c] /\ Located'[q] = {op'[c].ref} \ {NoRef}
      BY LocatedNext
    <3>2. Located[p] = held[c] /\ Located[q] = {op[c].ref} \ {NoRef}
      BY LocatedAt
    <3> QED
      BY <1>4, <2>2, <3>1, <3>2
  <2>4. \A s \in Spots \ {p, q} : Located'[s] = Located[s]
    <3>1. \A d \in Clients : /\ <<"held", d>> \in {p, q} \/ d # c
                             /\ <<"ending", d>> \in {p, q} \/ d # c
      OBVIOUS
    <3>2. Queued' = Queued
      BY <1>3 DEF Queued, Elements
    <3> HIDE DEF p, q
    <3> QED
      BY <1>3, <1>4, <3>1, <3>2, SamePool, SamePlaces DEF pool
  <2> HIDE DEF p, q
  <2>5. Moved(Located, Located', p, q, {ref})
    BY <1>1, <2>3, <2>4 DEF Moved
  <2> QED
    BY <1>3, <2>1, <2>5, SamePool, MovedApart DEF GInv, pool
<1>8. InHand'
  <2>1. \A d \in Clients : op'[d].ref = NoRef <=> op'[d].pc = "idle"
    BY <1>4, RefsSize DEF GInv, InHand
  <2> QED
    BY <1>3, <2>1 DEF GInv, InHand, Distinct
<1> QED
  BY <1>5, <1>6, <1>7, <1>8 DEF GInv

(* The driver is done with ref: its op is over.                            *)
LEMMA OpOver ==
    ASSUME Types, InHand, NEW c \in Clients, op[c].pc # "idle", op' = [op EXCEPT ![c] = NoOp]
    PROVE  /\ op[c].ref \in Refs /\ op[c].ref # NoRef
           /\ op' \in [Clients -> [pc : {"idle", "cas", "put"}, ref : Refs \cup {NoRef},
                                   seen : Flags, dest : {"pool", "batch"}]]
           /\ op'[c].ref = NoRef /\ \A d \in Clients : d # c => op'[d] = op[d]
           /\ \A d \in Clients : op'[d].ref = NoRef <=> op'[d].pc = "idle"
<1>1. NoOp \in [pc : {"idle", "cas", "put"}, ref : Refs \cup {NoRef},
                seen : Flags, dest : {"pool", "batch"}]
  BY DEF NoOp, Flags
<1>2. /\ op' \in [Clients -> [pc : {"idle", "cas", "put"}, ref : Refs \cup {NoRef},
                              seen : Flags, dest : {"pool", "batch"}]]
      /\ op'[c] = NoOp /\ \A d \in Clients : d # c => op'[d] = op[d]
  BY <1>1 DEF Types
<1>3. op'[c].ref = NoRef /\ op'[c].pc = "idle"
  BY <1>2 DEF NoOp
<1>4. op[c].ref # NoRef /\ op[c].ref \in Refs
  BY DEF InHand, Types
<1> QED
  BY <1>2, <1>3, <1>4 DEF InHand

LEMMA StillStep ==
    ASSUME GInv, NEW c \in Clients, StillInUse(c)
    PROVE  GInv'
<1>1. PICK ref : ref = op[c].ref
  OBVIOUS
<1>2. /\ op[c].pc = "cas" /\ held' = [held EXCEPT ![c] = @ \cup {ref}]
      /\ op' = [op EXCEPT ![c] = NoOp]
      /\ UNCHANGED <<pool, shared, priv, cbs, defer>>
  BY <1>1 DEF StillInUse
<1>3. Types /\ InHand
  BY DEF GInv
<1>4. UNCHANGED <<entry, freeHead, freeCount, nrFrames, flags, mapped, priv, waiting, queued,
                  need, deferred, timer, dh, leaked, oops>>
  BY <1>2 DEF pool, shared, cbs, defer
<1>5. /\ ref \in Refs /\ ref # NoRef
      /\ op' \in [Clients -> [pc : {"idle", "cas", "put"}, ref : Refs \cup {NoRef},
                              seen : Flags, dest : {"pool", "batch"}]]
      /\ op'[c].ref = NoRef /\ \A d \in Clients : d # c => op'[d] = op[d]
      /\ \A d \in Clients : op'[d].ref = NoRef <=> op'[d].pc = "idle"
  BY <1>1, <1>2, <1>3, OpOver
<1>6. held'[c] = held[c] \cup {ref} /\ \A d \in Clients : d # c => held'[d] = held[d]
  BY <1>2, <1>3 DEF Types
<1>7. Types'
  <2>1. held' \in [Clients -> SUBSET Refs]
    BY <1>2, <1>3, <1>5 DEF Types
  <2> QED
    BY <1>3, <1>4, <1>5, <2>1 DEF Types
<1>8. Chained'
  BY <1>4, SamePool DEF GInv, pool
<1>9. Apart'
  <2> DEFINE p == <<"ending", c>>
             q == <<"held", c>>
  <2>1. p \in Spots /\ q \in Spots /\ p # q
    BY SpotsAre
  <2>2. /\ Located[p] = {ref} /\ Located[q] = held[c]
        /\ Located'[p] = {} /\ Located'[q] = held[c] \cup {ref}
    <3>1. Located'[q] = held'[c] /\ Located'[p] = {op'[c].ref} \ {NoRef}
      BY LocatedNext
    <3>2. Located[q] = held[c] /\ Located[p] = {ref} \ {NoRef}
      BY <1>1, LocatedAt
    <3> QED
      BY <1>5, <1>6, <3>1, <3>2
  <2>3. \A s \in Spots \ {p, q} : Located'[s] = Located[s]
    <3>1. \A d \in Clients : /\ <<"held", d>> \in {p, q} \/ d # c
                             /\ <<"ending", d>> \in {p, q} \/ d # c
      OBVIOUS
    <3>2. Queued' = Queued
      BY <1>4 DEF Queued, Elements
    <3> HIDE DEF p, q
    <3> QED
      BY <1>4, <1>5, <1>6, <3>1, <3>2, SamePool, SamePlaces DEF pool
  <2> HIDE DEF p, q
  <2>4. Moved(Located, Located', p, q, {ref})
    BY <2>2, <2>3 DEF Moved
  <2> QED
    BY <1>4, <2>1, <2>4, SamePool, MovedApart DEF GInv, pool
<1>10. InHand'
  BY <1>4, <1>5 DEF GInv, InHand, Distinct
<1> QED
  BY <1>7, <1>8, <1>9, <1>10 DEF GInv

LEMMA AddStep ==
    ASSUME GInv, NEW c \in Clients, AddDeferred(c)
    PROVE  GInv'
<1>1. PICK ref : ref = op[c].ref
  OBVIOUS
<1>2. /\ op[c].pc = "cas" /\ op' = [op EXCEPT ![c] = NoOp]
      /\ \/ deferred' = Append(deferred, ref) /\ timer' = TRUE /\ leaked' = leaked
         \/ leaked' = leaked \cup {ref} /\ UNCHANGED <<deferred, timer>>
      /\ UNCHANGED <<pool, shared, priv, held, cbs, dh, oops>>
  BY <1>1 DEF AddDeferred
<1>3. Types /\ InHand
  BY DEF GInv
<1>4. UNCHANGED <<entry, freeHead, freeCount, nrFrames, flags, mapped, priv, held, waiting,
                  queued, need, dh, oops>>
  BY <1>2 DEF pool, shared, cbs
<1>5. /\ ref \in Refs /\ ref # NoRef
      /\ op' \in [Clients -> [pc : {"idle", "cas", "put"}, ref : Refs \cup {NoRef},
                              seen : Flags, dest : {"pool", "batch"}]]
      /\ op'[c].ref = NoRef /\ \A d \in Clients : d # c => op'[d] = op[d]
      /\ \A d \in Clients : op'[d].ref = NoRef <=> op'[d].pc = "idle"
  BY <1>1, <1>2, <1>3, OpOver
<1>6. Chained'
  BY <1>4, SamePool DEF GInv, pool
<1> DEFINE p == <<"ending", c>>
<1>7. p \in Spots /\ Located[p] = {ref} /\ Located'[p] = {}
  <2>1. Located'[p] = {op'[c].ref} \ {NoRef}
    BY LocatedNext
  <2>2. Located[p] = {ref} \ {NoRef}
    BY <1>1, LocatedAt
  <2> QED
    BY <1>5, <2>1, <2>2, SpotsAre
<1>8. \A d \in Clients : <<"ending", d>> = p \/ d # c
  OBVIOUS
<1>9. CASE deferred' = Append(deferred, ref) /\ timer' = TRUE /\ leaked' = leaked
  <2> DEFINE q == <<"queue", "all">>
  <2>1. q \in Spots /\ p # q
    BY SpotsAre
  <2>2. ref \notin Queued
    BY <1>7, <2>1, NotElsewhere DEF GInv
  <2>3. /\ deferred' \in Seq(Refs) /\ Queued' = Queued \cup {ref} /\ Distinct(deferred')
    BY <1>3, <1>5, <1>9, <2>2, Appended DEF Types, InHand, Queued
  <2>4. Located[q] = Queued /\ Located'[q] = Queued \cup {ref}
    BY <2>3, LocatedAt, LocatedNext
  <2> HIDE DEF p, q
  <2>5. \A s \in Spots \ {p, q} : Located'[s] = Located[s]
    BY <1>4, <1>5, <1>8, <1>9, SamePool, SamePlaces DEF pool, q
  <2>6. Moved(Located, Located', p, q, {ref})
    BY <1>7, <2>4, <2>5 DEF Moved
  <2>7. Apart'
    BY <1>4, <1>7, <2>1, <2>6, SamePool, MovedApart DEF GInv, pool
  <2>8. Types'
    BY <1>3, <1>4, <1>5, <1>9, <2>3 DEF Types
  <2>9. InHand'
    BY <1>3, <1>4, <1>5, <2>3 DEF InHand, Distinct
  <2> QED
    BY <1>6, <2>7, <2>8, <2>9 DEF GInv
<1>10. CASE leaked' = leaked \cup {ref} /\ UNCHANGED <<deferred, timer>>
  <2> DEFINE q == <<"leaked", "all">>
  <2>1. q \in Spots /\ p # q
    BY SpotsAre
  <2>2. Located[q] = leaked /\ Located'[q] = leaked \cup {ref}
    BY <1>10, LocatedAt, LocatedNext
  <2>3. Queued' = Queued
    BY <1>10 DEF Queued, Elements
  <2> HIDE DEF p, q
  <2>4. \A s \in Spots \ {p, q} : Located'[s] = Located[s]
    BY <1>4, <1>5, <1>8, <2>3, SamePool, SamePlaces DEF pool, q
  <2>5. Moved(Located, Located', p, q, {ref})
    BY <1>7, <2>2, <2>4 DEF Moved
  <2>6. Apart'
    BY <1>4, <1>7, <2>1, <2>5, SamePool, MovedApart DEF GInv, pool
  <2>7. Types'
    BY <1>3, <1>4, <1>5, <1>10 DEF Types
  <2>8. InHand'
    BY <1>3, <1>4, <1>5, <1>10 DEF InHand, Distinct
  <2> QED
    BY <1>6, <2>6, <2>7, <2>8 DEF GInv
<1> QED
  BY <1>2, <1>9, <1>10
-----------------------------------------------------------------------------
QueueSpot == <<"queue", "all">>
HandSpot  == <<"hand", "all">>

RunType == [pc : {"idle", "cas", "put", "next", "keep"}, ref : Refs \cup {NoRef},
            seen : Flags, first : Refs \cup {NoRef}, nr : Nat]

(* The handler has the list q in which nothing is twice, and nothing in    *)
(* hand: it takes the first entry off, or leaves q.                        *)
LEMMA TryStep ==
    ASSUME Types, NEW L, NEW all, Parts(L, all),
           NEW q \in Seq(Refs), q # <<>>, Distinct(q),
           L[QueueSpot] = Elements(q), L[HandSpot] = {},
           \A s \in Spots \ {QueueSpot, HandSpot} : Located'[s] = L[s],
           NEW nr \in Nat \ {0}, NEW first \in Refs \cup {NoRef}, TryDeferred(q, nr, first)
    PROVE  /\ Parts(Located', all)
           /\ deferred' \in Seq(Refs) /\ Distinct(deferred')
           /\ dh' \in RunType /\ (dh'.ref = NoRef <=> dh'.pc \in {"idle", "next"})
<1>1. /\ deferred' = Tail(q)
      /\ dh' = [pc |-> IF flags[Head(q)] = "busy" THEN "keep" ELSE "cas",
                ref |-> Head(q), seen |-> flags[Head(q)], first |-> first, nr |-> nr - 1]
  BY DEF TryDeferred
<1>2. /\ Tail(q) \in Seq(Refs) /\ Head(q) \in Refs /\ Head(q) \in Elements(q)
      /\ Elements(q) = Elements(Tail(q)) \cup {Head(q)}
      /\ Head(q) \notin Elements(Tail(q)) /\ Distinct(Tail(q))
  BY Headless
<1>3. PICK h \in Refs : h = Head(q)
  BY <1>2
<1>4. flags[h] \in Flags /\ h # NoRef
  BY RefsSize DEF Types
<1>5. dh' \in RunType /\ dh'.ref = h /\ dh'.pc \in {"keep", "cas"}
  BY <1>1, <1>3, <1>4 DEF RunType
<1>6. /\ Located'[QueueSpot] = Elements(q) \ {h} /\ Located'[HandSpot] = {h}
      /\ Elements(q) = Elements(Tail(q)) \cup {h} /\ h \in Elements(q)
  <2>1. Located'[QueueSpot] = Queued' /\ Located'[HandSpot] = {dh'.ref} \ {NoRef}
    BY LocatedNext DEF QueueSpot, HandSpot
  <2>2. Queued' = Elements(Tail(q))
    BY <1>1 DEF Queued, Elements
  <2> QED
    BY <1>2, <1>3, <1>4, <1>5, <2>1, <2>2
<1>7. QueueSpot \in Spots /\ HandSpot \in Spots /\ QueueSpot # HandSpot
  BY SpotsAre DEF QueueSpot, HandSpot
<1>8. PICK M : M = Located'
  OBVIOUS
<1>9. Moved(L, M, QueueSpot, HandSpot, {h})
  BY <1>6, <1>8 DEF Moved
<1>10. Parts(M, all)
  BY <1>7, <1>9, Moves
<1>11. Distinct(deferred') /\ deferred' \in Seq(Refs)
  BY <1>1, <1>2 DEF Distinct
<1> QED
  BY <1>4, <1>5, <1>8, <1>10, <1>11

LEMMA GoOnStep ==
    ASSUME Types, NEW L, NEW all, Parts(L, all),
           NEW q \in Seq(Refs), q # <<>>, Distinct(q),
           L[QueueSpot] = Elements(q), L[HandSpot] = {},
           \A s \in Spots \ {QueueSpot, HandSpot} : Located'[s] = L[s],
           NEW nr \in Nat, NEW first \in Refs \cup {NoRef}, NextDeferred(q, nr, first)
    PROVE  /\ Parts(Located', all) /\ timer' \in BOOLEAN
           /\ deferred' \in Seq(Refs) /\ Distinct(deferred')
           /\ dh' \in RunType /\ (dh'.ref = NoRef <=> dh'.pc \in {"idle", "next"})
<1>1. CASE nr > 0 /\ TryDeferred(q, nr, first) /\ UNCHANGED timer
  <2>1. nr \in Nat \ {0}
    BY <1>1
  <2>2. TryDeferred(q, nr, first)
    BY <1>1
  <2>3. timer' \in BOOLEAN
    BY <1>1, Zenon DEF Types
  <2> QED
    BY <2>1, <2>2, <2>3, TryStep
<1>2. CASE deferred' = q /\ timer' = TRUE /\ dh' = NoRun
  <2>1. dh' \in RunType /\ dh'.ref = NoRef /\ dh'.pc = "idle"
    BY <1>2 DEF NoRun, RunType, Flags
  <2>2. Located'[QueueSpot] = Elements(q) /\ Located'[HandSpot] = {}
    <3>1. Located'[QueueSpot] = Queued' /\ Located'[HandSpot] = {dh'.ref} \ {NoRef}
      BY LocatedNext DEF QueueSpot, HandSpot
    <3>2. Queued' = Elements(q)
      BY <1>2 DEF Queued, Elements
    <3> QED
      BY <2>1, <3>1, <3>2
  <2>3. \A s \in Spots : Located'[s] = L[s]
    BY <2>2
  <2>4. Parts(Located', all)
    BY <2>3 DEF Parts
  <2>5. Distinct(deferred') /\ deferred' \in Seq(Refs)
    BY <1>2 DEF Distinct
  <2> QED
    BY <1>2, <2>1, <2>4, <2>5
<1> QED
  BY <1>1, <1>2 DEF NextDeferred

(* What steps of the handler leave alone.                                  *)
LEMMA HandlerKeeps ==
    ASSUME GInv, UNCHANGED <<pool, priv, held, op, leaked>>
    PROVE  /\ Chained' /\ Usable' = Usable
           /\ \A s \in Spots \ {QueueSpot, HandSpot} : Located'[s] = Located[s]
           /\ Parts(Located', Usable) => Apart'
           /\ Located[QueueSpot] = Queued /\ Located[HandSpot] = {dh.ref} \ {NoRef}
<1>1. Chained' /\ Usable' = Usable
  BY SamePool DEF GInv
<1>2. \A s \in Spots \ {QueueSpot, HandSpot} : Located'[s] = Located[s]
  BY SamePool, SamePlaces DEF QueueSpot, HandSpot
<1>3. Parts(Located', Usable) => Apart'
  BY <1>1 DEF Apart, Parts, Spots
<1> QED
  BY <1>1, <1>2, <1>3, LocatedAt DEF QueueSpot, HandSpot

LEMMA TimerStep ==
    ASSUME GInv, TimerExpires
    PROVE  GInv'
<1>1. /\ dh.pc = "idle" /\ timer' = FALSE
      /\ \/ deferred # <<>> /\ TryDeferred(deferred, DeferBatch, NoRef) /\ oops' = oops
         \/ oops' = TRUE /\ UNCHANGED <<deferred, dh>>
      /\ UNCHANGED <<pool, shared, priv, held, op, cbs, leaked>>
  BY DEF TimerExpires
<1>2. Types /\ InHand /\ dh.ref = NoRef /\ Parts(Located, Usable)
  BY <1>1 DEF GInv, InHand, Apart
<1>3. UNCHANGED <<entry, freeHead, freeCount, nrFrames, flags, mapped, priv, held, op, waiting,
                  queued, need, leaked>>
  BY <1>1 DEF pool, shared, cbs
<1>4. /\ Chained' /\ Usable' = Usable
      /\ \A s \in Spots \ {QueueSpot, HandSpot} : Located'[s] = Located[s]
      /\ Parts(Located', Usable) => Apart'
      /\ Located[QueueSpot] = Queued /\ Located[HandSpot] = {dh.ref} \ {NoRef}
  BY <1>1, HandlerKeeps
<1>5. CASE deferred # <<>> /\ TryDeferred(deferred, DeferBatch, NoRef) /\ oops' = oops
  <2>1. deferred \in Seq(Refs) /\ Distinct(deferred) /\ deferred # <<>>
    BY <1>2, <1>5 DEF Types, InHand
  <2>2. Located[QueueSpot] = Elements(deferred) /\ Located[HandSpot] = {}
    BY <1>2, <1>4 DEF Queued
  <2>3. /\ Parts(Located', Usable) /\ deferred' \in Seq(Refs) /\ Distinct(deferred')
        /\ dh' \in RunType /\ (dh'.ref = NoRef <=> dh'.pc \in {"idle", "next"})
    BY <1>2, <1>4, <1>5, <2>1, <2>2, TryStep
  <2>4. oops' \in BOOLEAN /\ timer' \in BOOLEAN
    BY <1>1, <1>2, <1>5, Zenon DEF Types
  <2>5. Types'
    BY <1>2, <1>3, <2>3, <2>4 DEF Types, RunType
  <2>6. InHand'
    BY <1>2, <1>3, <2>3 DEF InHand, Distinct
  <2> QED
    BY <1>4, <2>3, <2>5, <2>6 DEF GInv
<1>6. CASE oops' = TRUE /\ UNCHANGED <<deferred, dh>>
  <2>1. Queued' = Queued
    BY <1>6 DEF Queued, Elements
  <2>2. Apart'
    BY <1>1, <1>6, <2>1, NoMove
  <2>3. oops' \in BOOLEAN /\ timer' \in BOOLEAN
    BY <1>1, <1>6, Zenon
  <2>4. Types'
    BY <1>2, <1>3, <1>6, <2>3 DEF Types
  <2>5. InHand'
    BY <1>2, <1>3, <1>6 DEF InHand, Distinct
  <2> QED
    BY <1>4, <2>2, <2>4, <2>5 DEF GInv
<1> QED
  BY <1>1, <1>5, <1>6

LEMMA NextStep ==
    ASSUME GInv, DeferredNext
    PROVE  GInv'
<1>1. /\ dh.pc = "next"
      /\ \/ dh' = NoRun /\ UNCHANGED <<deferred, timer>>
         \/ deferred # <<>> /\ NextDeferred(deferred, dh.nr, dh.first)
      /\ UNCHANGED <<pool, shared, priv, held, op, cbs, leaked, oops>>
  BY DEF DeferredNext
<1>2. Types /\ InHand /\ dh.ref = NoRef /\ Parts(Located, Usable)
  BY <1>1 DEF GInv, InHand, Apart
<1>3. UNCHANGED <<entry, freeHead, freeCount, nrFrames, flags, mapped, priv, held, op, waiting,
                  queued, need, leaked, oops>>
  BY <1>1 DEF pool, shared, cbs
<1>4. /\ Chained' /\ Usable' = Usable
      /\ \A s \in Spots \ {QueueSpot, HandSpot} : Located'[s] = Located[s]
      /\ Parts(Located', Usable) => Apart'
      /\ Located[QueueSpot] = Queued /\ Located[HandSpot] = {dh.ref} \ {NoRef}
  BY <1>1, HandlerKeeps
<1>5. CASE deferred # <<>> /\ NextDeferred(deferred, dh.nr, dh.first)
  <2>1. /\ deferred \in Seq(Refs) /\ Distinct(deferred) /\ deferred # <<>>
        /\ dh.nr \in Nat /\ dh.first \in Refs \cup {NoRef}
    BY <1>2, <1>5 DEF Types, InHand
  <2>2. Located[QueueSpot] = Elements(deferred) /\ Located[HandSpot] = {}
    BY <1>2, <1>4 DEF Queued
  <2>3. /\ Parts(Located', Usable) /\ deferred' \in Seq(Refs) /\ Distinct(deferred')
        /\ timer' \in BOOLEAN
        /\ dh' \in RunType /\ (dh'.ref = NoRef <=> dh'.pc \in {"idle", "next"})
    BY <1>2, <1>4, <1>5, <2>1, <2>2, GoOnStep
  <2>4. Types'
    BY <1>2, <1>3, <2>3 DEF Types, RunType
  <2>5. InHand'
    BY <1>2, <1>3, <2>3 DEF InHand, Distinct
  <2> QED
    BY <1>4, <2>3, <2>4, <2>5 DEF GInv
<1>6. CASE dh' = NoRun /\ UNCHANGED <<deferred, timer>>
  <2>1. Queued' = Queued
    BY <1>6 DEF Queued, Elements
  <2>2. dh' \in RunType /\ dh'.ref = NoRef /\ dh'.pc = "idle"
    BY <1>6 DEF NoRun, RunType, Flags
  <2>3. Apart'
    BY <1>1, <1>2, <1>3, <2>1, <2>2, NoMove
  <2>4. Types'
    BY <1>2, <1>3, <1>6, <2>2 DEF Types, RunType
  <2>5. InHand'
    BY <1>2, <1>3, <1>6, <2>2 DEF InHand, Distinct
  <2> QED
    BY <1>4, <2>3, <2>4, <2>5 DEF GInv
<1> QED
  BY <1>1, <1>5, <1>6

LEMMA KeepStep ==
    ASSUME GInv, DeferredKeep
    PROVE  GInv'
<1>1. PICK q : q = Append(deferred, dh.ref)
  OBVIOUS
<1>2. PICK first : first = IF dh.first = NoRef THEN dh.ref ELSE dh.first
  OBVIOUS
<1>3. /\ dh.pc = "keep" /\ NextDeferred(q, dh.nr, first)
      /\ UNCHANGED <<pool, shared, priv, held, op, cbs, leaked, oops>>
  BY <1>1, <1>2 DEF DeferredKeep
<1>4. /\ Types /\ InHand /\ dh.ref \in Refs /\ dh.ref # NoRef /\ Parts(Located, Usable)
      /\ deferred \in Seq(Refs) /\ Distinct(deferred) /\ dh.nr \in Nat
      /\ first \in Refs \cup {NoRef}
  BY <1>2, <1>3 DEF GInv, InHand, Apart, Types
<1>5. UNCHANGED <<entry, freeHead, freeCount, nrFrames, flags, mapped, priv, held, op, waiting,
                  queued, need, leaked, oops>>
  BY <1>3 DEF pool, shared, cbs
<1>6. /\ Chained' /\ Usable' = Usable
      /\ \A s \in Spots \ {QueueSpot, HandSpot} : Located'[s] = Located[s]
      /\ Parts(Located', Usable) => Apart'
      /\ Located[QueueSpot] = Queued /\ Located[HandSpot] = {dh.ref} \ {NoRef}
  BY <1>3, HandlerKeeps
<1>7. QueueSpot \in Spots /\ HandSpot \in Spots /\ QueueSpot # HandSpot
  BY SpotsAre DEF QueueSpot, HandSpot
<1>8. dh.ref \notin Elements(deferred)
  <2>1. dh.ref \in Located[HandSpot]
    BY <1>4, <1>6
  <2> QED
    BY <1>7, <2>1, NotElsewhere DEF GInv, Queued, QueueSpot, HandSpot
<1>9. q \in Seq(Refs) /\ q # <<>> /\ Distinct(q) /\ Elements(q) = Elements(deferred) \cup {dh.ref}
  BY <1>1, <1>4, <1>8, Appended
<1>10. PICK L : L = [s \in Spots |-> IF s = QueueSpot THEN Elements(q)
                                     ELSE IF s = HandSpot THEN {} ELSE Located[s]]
  OBVIOUS
<1>11. /\ L[QueueSpot] = Elements(q) /\ L[HandSpot] = {}
       /\ \A s \in Spots \ {QueueSpot, HandSpot} : L[s] = Located[s]
  BY <1>7, <1>10
<1>12. Moved(Located, L, HandSpot, QueueSpot, {dh.ref})
  BY <1>4, <1>6, <1>9, <1>11 DEF Moved, Queued
<1>13. Parts(L, Usable)
  <2>1. PICK K : K = Located
    OBVIOUS
  <2>2. PICK all : all = Usable
    OBVIOUS
  <2>3. PICK x : x = {dh.ref}
    OBVIOUS
  <2>4. Parts(K, all) /\ Moved(K, L, HandSpot, QueueSpot, x)
    BY <1>4, <1>12, <2>1, <2>2, <2>3
  <2> QED
    BY <1>7, <2>2, <2>4, Moves
<1>14. \A s \in Spots \ {QueueSpot, HandSpot} : Located'[s] = L[s]
  BY <1>6, <1>11
<1>15. /\ Parts(Located', Usable) /\ deferred' \in Seq(Refs) /\ Distinct(deferred')
       /\ timer' \in BOOLEAN
       /\ dh' \in RunType /\ (dh'.ref = NoRef <=> dh'.pc \in {"idle", "next"})
  BY <1>3, <1>4, <1>9, <1>11, <1>13, <1>14, GoOnStep
<1>16. Types'
  BY <1>4, <1>5, <1>15 DEF Types, RunType
<1>17. InHand'
  BY <1>4, <1>5, <1>15 DEF InHand, Distinct
<1> QED
  BY <1>6, <1>15, <1>16, <1>17 DEF GInv
-----------------------------------------------------------------------------
(* Steps that only change flags and mapped.                                *)
LEMMA FlagStep ==
    ASSUME GInv, UNCHANGED <<pool, priv, held, op, cbs, defer>>,
           flags' \in [Refs -> Flags], mapped' \in SUBSET Refs
    PROVE  GInv'
<1>1. UNCHANGED <<entry, freeHead, freeCount, nrFrames, priv, held, op, waiting, queued, need,
                  deferred, timer, dh, leaked, oops>>
  BY DEF pool, cbs, defer
<1>2. Queued' = Queued
  BY <1>1 DEF Queued, Elements
<1>3. Chained' /\ Apart'
  BY <1>1, <1>2, NoMove
<1>4. Types'
  BY <1>1 DEF GInv, Types
<1>5. InHand'
  BY <1>1 DEF GInv, InHand, Distinct
<1> QED
  BY <1>3, <1>4, <1>5 DEF GInv

LEMMA RegrantStep ==
    ASSUME GInv, NEW c \in Clients, NEW ref \in Refs, Regrant(c, ref)
    PROVE  GInv'
<1>1. flags' \in [Refs -> Flags] /\ mapped' \in SUBSET Refs
  BY DEF Regrant, GInv, Types, Flags
<1> QED
  BY <1>1, FlagStep DEF Regrant

LEMMA XenSteps ==
    ASSUME GInv, XenStep
    PROVE  GInv'
<1>1. ASSUME NEW ref \in Refs, BackendMaps(ref) PROVE GInv'
  <2>1. flags' \in [Refs -> Flags] /\ mapped' \in SUBSET Refs
    BY <1>1 DEF BackendMaps, GInv, Types, Flags
  <2> QED
    BY <1>1, <2>1, FlagStep DEF BackendMaps
<1>2. ASSUME NEW ref \in Refs, BackendUnmaps(ref) PROVE GInv'
  <2>1. flags' \in [Refs -> Flags] /\ mapped' \in SUBSET Refs
    BY <1>2 DEF BackendUnmaps, GInv, Types, Flags
  <2> QED
    BY <1>2, <2>1, FlagStep DEF BackendUnmaps
<1>3. ASSUME NEW ref \in Refs, BackendTransfers(ref) PROVE GInv'
  <2>1. flags' \in [Refs -> Flags] /\ mapped' \in SUBSET Refs
    BY <1>3, ZenonT(60) DEF BackendTransfers, GInv, Types, Flags
  <2> QED
    BY <1>3, <2>1, FlagStep DEF BackendTransfers
<1>4. ASSUME GnttabResume PROVE GInv'
  <2>1. flags' \in [Refs -> Flags] /\ mapped' \in SUBSET Refs
    BY <1>4 DEF GnttabResume, Flags
  <2> QED
    BY <1>4, <2>1, FlagStep DEF GnttabResume
<1> QED
  BY <1>1, <1>2, <1>3, <1>4 DEF XenStep

(* Steps that only change the callbacks.                                   *)
LEMMA CallbackStep ==
    ASSUME GInv, UNCHANGED <<pool, shared, priv, held, op, defer>>,
           waiting' \in SUBSET Clients, queued' \in [Clients -> BOOLEAN],
           need' \in [Clients -> Nat]
    PROVE  GInv'
<1>1. UNCHANGED <<entry, freeHead, freeCount, nrFrames, flags, mapped, priv, held, op,
                  deferred, timer, dh, leaked, oops>>
  BY DEF pool, shared, defer
<1>2. Queued' = Queued
  BY <1>1 DEF Queued, Elements
<1>3. Chained' /\ Apart'
  BY <1>1, <1>2, NoMove
<1>4. Types'
  BY <1>1 DEF GInv, Types
<1>5. InHand'
  BY <1>1 DEF GInv, InHand, Distinct
<1> QED
  BY <1>3, <1>4, <1>5 DEF GInv

LEMMA RequestStep ==
    ASSUME GInv, NEW c \in Clients, NEW n \in Nat, RequestFreeCallback(c, n)
    PROVE  GInv'
<1>1. waiting \cup {c} \in SUBSET Clients /\ [need EXCEPT ![c] = n] \in [Clients -> Nat]
      /\ queued \in [Clients -> BOOLEAN]
  BY DEF GInv, Types
<1>2. RunCallbacks(waiting \cup {c}, [need EXCEPT ![c] = n], freeCount)
  BY DEF RequestFreeCallback
<1>3. /\ waiting' \in SUBSET Clients /\ queued' \in [Clients -> BOOLEAN]
      /\ need' \in [Clients -> Nat]
  BY <1>1, <1>2, CallbackTypes
<1> QED
  BY <1>3, CallbackStep DEF RequestFreeCallback

LEMMA CancelStep ==
    ASSUME GInv, NEW c \in Clients, CancelFreeCallback(c)
    PROVE  GInv'
<1>1. waiting' \in SUBSET Clients
  BY DEF CancelFreeCallback, GInv, Types
<1>2. queued' \in [Clients -> BOOLEAN]
  BY Zenon DEF CancelFreeCallback, GInv, Types
<1>3. need' \in [Clients -> Nat]
  BY DEF CancelFreeCallback, GInv, Types
<1> QED
  BY <1>1, <1>2, <1>3, CallbackStep DEF CancelFreeCallback

(* The compare-and-exchange of a driver that ends a grant.                 *)
LEMMA CasSteps ==
    ASSUME GInv, NEW c \in Clients, CasClear(c) \/ CasRetry(c) \/ TransferDone(c)
    PROVE  GInv'
<1>0. Types /\ InHand /\ op[c].pc = "cas"
  BY DEF GInv, CasClear, CasRetry, TransferDone
<1>1. op[c].ref \in Refs /\ op[c].ref # NoRef
  BY <1>0 DEF Types, InHand
<1>2. UNCHANGED <<entry, freeHead, freeCount, nrFrames, mapped, priv, held, waiting, queued, need,
                  deferred, timer, dh, leaked, oops>>
  BY DEF CasClear, CasRetry, TransferDone, pool, shared, cbs, defer
<1>3. flags' \in [Refs -> Flags]
  BY <1>0 DEF CasClear, CasRetry, TransferDone, shared, Types, Flags
<1>4. PICK seen \in Flags : op' = [op EXCEPT ![c].pc = "put", ![c].seen = seen]
                            \/ op' = [op EXCEPT ![c].seen = seen]
  <2>1. "clear" \in Flags /\ flags[op[c].ref] \in Flags
    BY <1>0, <1>1 DEF Types, Flags
  <2> QED
    BY <2>1 DEF CasClear, CasRetry, TransferDone
<1>5. /\ op' \in [Clients -> [pc : {"idle", "cas", "put"}, ref : Refs \cup {NoRef},
                              seen : Flags, dest : {"pool", "batch"}]]
      /\ op'[c].ref = op[c].ref /\ op'[c].pc # "idle"
      /\ \A d \in Clients : d # c => op'[d] = op[d]
  <2> DEFINE OpType == [pc : {"idle", "cas", "put"}, ref : Refs \cup {NoRef},
                        seen : Flags, dest : {"pool", "batch"}]
             o == [op[c] EXCEPT !.pc = "put", !.seen = seen]
             u == [op[c] EXCEPT !.seen = seen]
  <2>1. op \in [Clients -> OpType]
    BY <1>0 DEF Types
  <2>2. /\ o \in OpType /\ o.ref = op[c].ref /\ o.pc = "put"
        /\ u \in OpType /\ u.ref = op[c].ref /\ u.pc = "cas"
    BY <1>0, <2>1
  <2>3. op' = [op EXCEPT ![c] = o] \/ op' = [op EXCEPT ![c] = u]
    BY <1>4
  <2> HIDE DEF o, u, OpType
  <2>4. \/ op'[c] = o /\ op' \in [Clients -> OpType]
        \/ op'[c] = u /\ op' \in [Clients -> OpType]
    BY <2>1, <2>2, <2>3
  <2>5. \A d \in Clients : d # c => op'[d] = op[d]
    BY <2>1, <2>3
  <2> QED
    BY <2>2, <2>4, <2>5 DEF OpType
<1>6. Queued' = Queued
  BY <1>2 DEF Queued, Elements
<1>7. Chained' /\ Apart'
  BY <1>2, <1>5, <1>6, NoMove DEF pool
<1>8. Types'
  BY <1>0, <1>2, <1>3, <1>5 DEF Types
<1>9. InHand'
  BY <1>0, <1>1, <1>2, <1>5 DEF InHand, Distinct
<1> QED
  BY <1>7, <1>8, <1>9 DEF GInv

(* That of the handler.                                                    *)
LEMMA HandlerCasStep ==
    ASSUME GInv, DeferredCas
    PROVE  GInv'
<1>0. Types /\ InHand /\ dh.pc = "cas"
  BY DEF GInv, DeferredCas
<1>1. dh.ref \in Refs /\ dh.ref # NoRef
  BY <1>0 DEF Types, InHand
<1>2. UNCHANGED <<entry, freeHead, freeCount, nrFrames, mapped, priv, held, op, waiting, queued,
                  need, deferred, timer, leaked, oops>>
  BY DEF DeferredCas, pool, cbs
<1>3. flags' \in [Refs -> Flags]
  <2>1. CASE flags[dh.ref] = dh.seen
    <3>1. flags' = [flags EXCEPT ![dh.ref] = "clear"]
      BY <2>1 DEF DeferredCas
    <3>2. flags \in [Refs -> Flags] /\ "clear" \in Flags
      BY <1>0 DEF Types, Flags
    <3> HIDE DEF Flags
    <3> QED
      BY <3>1, <3>2
  <2>2. CASE flags[dh.ref] # dh.seen
    BY <1>0, <2>2 DEF DeferredCas, Types
  <2> QED
    BY <2>1, <2>2
<1>4. PICK seen \in Flags, pc \in {"put", "keep", "cas"} :
          dh' = [dh EXCEPT !.pc = pc, !.seen = seen]
  <2>1. "clear" \in Flags /\ flags[dh.ref] \in Flags
    BY <1>0, <1>1 DEF Types, Flags
  <2>2. CASE flags[dh.ref] = dh.seen
    BY <2>1, <2>2 DEF DeferredCas
  <2>3. CASE flags[dh.ref] # dh.seen
    <3>1. CASE flags[dh.ref] = "busy"
      BY <2>1, <2>3, <3>1 DEF DeferredCas
    <3>2. CASE flags[dh.ref] # "busy"
      BY <2>1, <2>3, <3>2 DEF DeferredCas
    <3> QED
      BY <3>1, <3>2
  <2> QED
    BY <2>2, <2>3
<1>5. dh' \in RunType /\ dh'.ref = dh.ref /\ dh'.pc = pc
  BY <1>0, <1>4 DEF Types, RunType
<1>6. Queued' = Queued
  BY <1>2 DEF Queued, Elements
<1>7. Chained' /\ Apart'
  BY <1>2, <1>5, <1>6, NoMove DEF pool
<1>8. Types'
  BY <1>0, <1>2, <1>3, <1>5 DEF Types, RunType
<1>9. InHand'
  BY <1>0, <1>1, <1>2, <1>4, <1>5 DEF InHand, Distinct
<1> QED
  BY <1>7, <1>8, <1>9 DEF GInv
-----------------------------------------------------------------------------
(* put_free_entry(ref), ref being in nobody's chain.                       *)
LEMMA PutStep ==
    ASSUME Types, Chained, NEW ref \in Refs, ref \notin ChainOf(entry, freeHead),
           \A c \in Clients : ref \notin ChainOf(entry, priv[c]),
           PutFreeEntry(ref), priv' = priv
    PROVE  /\ entry' \in [Refs -> Links] /\ freeHead' \in Links /\ freeCount' \in Nat
           /\ nrFrames' = nrFrames
           /\ waiting' \in SUBSET Clients /\ queued' \in [Clients -> BOOLEAN]
           /\ need' \in [Clients -> Nat]
           /\ Chained' /\ Usable' = Usable
           /\ ChainOf(entry, freeHead)' = ChainOf(entry, freeHead) \cup {ref}
           /\ \A c \in Clients : ChainOf(entry, priv[c])' = ChainOf(entry, priv[c])
<1>1. /\ entry' = [entry EXCEPT ![ref] = freeHead] /\ freeHead' = ref
      /\ freeCount' = freeCount + 1 /\ nrFrames' = nrFrames
      /\ RunCallbacks(waiting, need, freeCount + 1)
  BY DEF PutFreeEntry
<1>2. /\ waiting' \in SUBSET Clients /\ queued' \in [Clients -> BOOLEAN]
      /\ need' \in [Clients -> Nat]
  BY <1>1, CallbackTypes DEF Types
<1>3. entry' \in [Refs -> Links] /\ freeHead' \in Links /\ freeCount' \in Nat
  BY <1>1 DEF Types, Links
<1>4. entry'[ref] = freeHead /\ \A r \in Refs : r # ref => entry'[r] = entry[r]
  BY <1>1 DEF Types
<1>5. PICK e : e = entry'
  OBVIOUS
<1>6. Linked(e, ref, freeCount + 1) /\ ChainOf(e, ref) = ChainOf(entry, freeHead) \cup {ref}
  <2>1. Linked(entry, freeHead, freeCount)
    BY DEF Chained
  <2>2. e[ref] = freeHead /\ \A r \in ChainOf(entry, freeHead) : e[r] = entry[r]
    BY <1>4, <1>5, <2>1, LinkedChain
  <2> QED
    BY <2>1, <2>2, ChainPush
<1>7. ASSUME NEW c \in Clients
      PROVE  /\ ChainOf(e, priv[c]) = ChainOf(entry, priv[c])
             /\ \E n \in Nat : Linked(e, priv[c], n)
  <2>1. PICK n \in Nat : Linked(entry, priv[c], n)
    BY DEF Chained
  <2>2. \A r \in ChainOf(entry, priv[c]) : e[r] = entry[r]
    BY <1>4, <1>5, <2>1, LinkedChain
  <2> QED
    BY <2>1, <2>2, ChainStays
<1>8. Chained'
  BY <1>1, <1>5, <1>6, <1>7 DEF Chained
<1>9. Usable' = Usable
  BY <1>1 DEF Usable
<1> QED
  BY <1>1, <1>2, <1>3, <1>5, <1>6, <1>7, <1>8, <1>9

LEMMA PutToPoolStep ==
    ASSUME GInv, NEW c \in Clients, PutToPool(c)
    PROVE  GInv'
<1>1. PICK ref : ref = op[c].ref
  OBVIOUS
<1>2. /\ op[c].pc = "put" /\ PutFreeEntry(ref) /\ op' = [op EXCEPT ![c] = NoOp]
      /\ UNCHANGED <<shared, priv, held, defer>>
  BY <1>1 DEF PutToPool
<1>3. Types /\ InHand /\ Chained
  BY DEF GInv
<1>4. UNCHANGED <<flags, mapped, priv, held, deferred, timer, dh, leaked, oops>>
  BY <1>2 DEF shared, defer
<1>5. /\ ref \in Refs /\ ref # NoRef
      /\ op' \in [Clients -> [pc : {"idle", "cas", "put"}, ref : Refs \cup {NoRef},
                              seen : Flags, dest : {"pool", "batch"}]]
      /\ op'[c].ref = NoRef /\ \A d \in Clients : d # c => op'[d] = op[d]
      /\ \A d \in Clients : op'[d].ref = NoRef <=> op'[d].pc = "idle"
  BY <1>1, <1>2, <1>3, OpOver
<1> DEFINE p == <<"ending", c>>
           q == <<"free", "all">>
<1>6. /\ p \in Spots /\ q \in Spots /\ p # q /\ Located[p] = {ref} /\ Located'[p] = {}
      /\ \A d \in Clients : <<"ending", d>> = p \/ d # c
  <2>1. Located'[p] = {op'[c].ref} \ {NoRef}
    BY LocatedNext
  <2>2. Located[p] = {ref} \ {NoRef}
    BY <1>1, LocatedAt
  <2> QED
    BY <1>5, <2>1, <2>2, SpotsAre
<1>7. ref \notin ChainOf(entry, freeHead) /\ \A d \in Clients : ref \notin ChainOf(entry, priv[d])
  <2>1. /\ p # <<"free", "all">> /\ \A d \in Clients : p # <<"chain", d>>
        /\ ref \in Located[p]
    BY <1>6
  <2> HIDE DEF p, q
  <2> QED
    BY <1>6, <2>1, NotElsewhere DEF GInv
<1>8. /\ entry' \in [Refs -> Links] /\ freeHead' \in Links /\ freeCount' \in Nat
      /\ nrFrames' = nrFrames
      /\ waiting' \in SUBSET Clients /\ queued' \in [Clients -> BOOLEAN]
      /\ need' \in [Clients -> Nat]
      /\ Chained' /\ Usable' = Usable
      /\ ChainOf(entry, freeHead)' = ChainOf(entry, freeHead) \cup {ref}
      /\ \A d \in Clients : ChainOf(entry, priv[d])' = ChainOf(entry, priv[d])
  BY <1>2, <1>3, <1>4, <1>5, <1>7, PutStep
<1>9. Located[q] = ChainOf(entry, freeHead) /\ Located'[q] = ChainOf(entry, freeHead) \cup {ref}
  BY <1>8, LocatedAt, LocatedNext
<1>10. Queued' = Queued
  BY <1>4 DEF Queued, Elements
<1> HIDE DEF p
<1>11. \A s \in Spots \ {p, q} : Located'[s] = Located[s]
  BY <1>4, <1>5, <1>6, <1>8, <1>10, SamePlaces, ZenonT(60)
<1> HIDE DEF q
<1>12. Moved(Located, Located', p, q, {ref})
  BY <1>6, <1>9, <1>11 DEF Moved
<1>13. Apart'
  BY <1>6, <1>8, <1>12, MovedApart DEF GInv
<1>14. Types'
  BY <1>3, <1>4, <1>5, <1>8 DEF Types
<1>15. InHand'
  BY <1>3, <1>4, <1>5 DEF InHand, Distinct
<1> QED
  BY <1>8, <1>13, <1>14, <1>15 DEF GInv

LEMMA HandlerPutStep ==
    ASSUME GInv, DeferredPut
    PROVE  GInv'
<1>1. PICK ref : ref = dh.ref
  OBVIOUS
<1>2. /\ dh.pc = "put" /\ PutFreeEntry(ref) /\ dh' = [dh EXCEPT !.pc = "next", !.ref = NoRef]
      /\ UNCHANGED <<shared, priv, held, op, deferred, timer, leaked, oops>>
  BY <1>1 DEF DeferredPut
<1>3. Types /\ InHand /\ Chained
  BY DEF GInv
<1>4. UNCHANGED <<flags, mapped, priv, held, op, deferred, timer, leaked, oops>>
  BY <1>2 DEF shared
<1>5. /\ ref \in Refs /\ ref # NoRef
      /\ dh' \in RunType /\ dh'.ref = NoRef /\ dh'.pc = "next"
  BY <1>1, <1>2, <1>3 DEF Types, InHand, RunType
<1>6. /\ HandSpot \in Spots /\ <<"free", "all">> \in Spots /\ HandSpot # <<"free", "all">>
      /\ Located[HandSpot] = {ref} /\ Located'[HandSpot] = {}
  <2>1. Located'[HandSpot] = {dh'.ref} \ {NoRef}
    BY LocatedNext DEF HandSpot
  <2>2. Located[HandSpot] = {ref} \ {NoRef}
    BY <1>1, LocatedAt DEF HandSpot
  <2> QED
    BY <1>5, <2>1, <2>2, SpotsAre DEF HandSpot
<1>7. ref \notin ChainOf(entry, freeHead) /\ \A d \in Clients : ref \notin ChainOf(entry, priv[d])
  <2>1. /\ \A d \in Clients : HandSpot # <<"chain", d>>
        /\ ref \in Located[HandSpot]
    BY <1>6 DEF HandSpot
  <2> QED
    BY <1>6, <2>1, NotElsewhere DEF GInv
<1>8. /\ entry' \in [Refs -> Links] /\ freeHead' \in Links /\ freeCount' \in Nat
      /\ nrFrames' = nrFrames
      /\ waiting' \in SUBSET Clients /\ queued' \in [Clients -> BOOLEAN]
      /\ need' \in [Clients -> Nat]
      /\ Chained' /\ Usable' = Usable
      /\ ChainOf(entry, freeHead)' = ChainOf(entry, freeHead) \cup {ref}
      /\ \A d \in Clients : ChainOf(entry, priv[d])' = ChainOf(entry, priv[d])
  BY <1>2, <1>3, <1>4, <1>5, <1>7, PutStep
<1> DEFINE q == <<"free", "all">>
<1>9. Located[q] = ChainOf(entry, freeHead) /\ Located'[q] = ChainOf(entry, freeHead) \cup {ref}
  BY <1>8, LocatedAt, LocatedNext
<1>10. Queued' = Queued
  BY <1>4 DEF Queued, Elements
<1>11. \A s \in Spots \ {HandSpot, q} : Located'[s] = Located[s]
  BY <1>4, <1>8, <1>10, SamePlaces DEF HandSpot
<1> HIDE DEF q
<1>12. Moved(Located, Located', HandSpot, q, {ref})
  BY <1>6, <1>9, <1>11 DEF Moved
<1>13. Apart'
  <2>1. q \in Spots /\ HandSpot # q
    BY <1>6 DEF q
  <2> QED
    BY <1>6, <1>8, <1>12, <2>1, MovedApart DEF GInv
<1>14. Types'
  BY <1>3, <1>4, <1>5, <1>8 DEF Types, RunType
<1>15. InHand'
  BY <1>3, <1>4, <1>5 DEF InHand, Distinct
<1> QED
  BY <1>8, <1>13, <1>14, <1>15 DEF GInv

(* The entry is put before the driver's own chain.                         *)
LEMMA ReleaseStep ==
    ASSUME GInv, NEW c \in Clients, ReleaseGrantReference(c)
    PROVE  GInv'
<1>1. PICK ref : ref = op[c].ref
  OBVIOUS
<1>2. /\ op[c].pc = "put" /\ entry' = [entry EXCEPT ![ref] = priv[c]]
      /\ priv' = [priv EXCEPT ![c] = ref] /\ op' = [op EXCEPT ![c] = NoOp]
      /\ UNCHANGED <<freeHead, freeCount, nrFrames, shared, held, cbs, defer>>
  BY <1>1 DEF ReleaseGrantReference
<1>3. Types /\ InHand /\ Chained
  BY DEF GInv
<1>4. UNCHANGED <<freeHead, freeCount, nrFrames, flags, mapped, held, waiting, queued, need,
                  deferred, timer, dh, leaked, oops>>
  BY <1>2 DEF shared, cbs, defer
<1>5. /\ ref \in Refs /\ ref # NoRef
      /\ op' \in [Clients -> [pc : {"idle", "cas", "put"}, ref : Refs \cup {NoRef},
                              seen : Flags, dest : {"pool", "batch"}]]
      /\ op'[c].ref = NoRef /\ \A d \in Clients : d # c => op'[d] = op[d]
      /\ \A d \in Clients : op'[d].ref = NoRef <=> op'[d].pc = "idle"
  BY <1>1, <1>2, <1>3, OpOver
<1> DEFINE p == <<"ending", c>>
           q == <<"chain", c>>
<1>6. /\ p \in Spots /\ q \in Spots /\ p # q /\ Located[p] = {ref} /\ Located'[p] = {}
      /\ \A d \in Clients : <<"ending", d>> = p \/ d # c
      /\ \A d \in Clients : <<"chain", d>> = q \/ d # c
  <2>1. Located'[p] = {op'[c].ref} \ {NoRef}
    BY LocatedNext
  <2>2. Located[p] = {ref} \ {NoRef}
    BY <1>1, LocatedAt
  <2> QED
    BY <1>5, <2>1, <2>2, SpotsAre
<1>7. ref \notin ChainOf(entry, freeHead) /\ \A d \in Clients : ref \notin ChainOf(entry, priv[d])
  <2>1. /\ p # <<"free", "all">> /\ \A d \in Clients : p # <<"chain", d>>
        /\ ref \in Located[p]
    BY <1>6
  <2> HIDE DEF p, q
  <2> QED
    BY <1>6, <2>1, NotElsewhere DEF GInv
<1>8. entry'[ref] = priv[c] /\ \A r \in Refs : r # ref => entry'[r] = entry[r]
  BY <1>2, <1>3, <1>5 DEF Types
<1>9. priv'[c] = ref /\ \A d \in Clients : d # c => priv'[d] = priv[d]
  BY <1>2, <1>3 DEF Types
<1>10. PICK e : e = entry'
  OBVIOUS
<1>11. Linked(e, freeHead, freeCount) /\ ChainOf(e, freeHead) = ChainOf(entry, freeHead)
  <2>1. Linked(entry, freeHead, freeCount)
    BY <1>3 DEF Chained
  <2>2. \A r \in ChainOf(entry, freeHead) : e[r] = entry[r]
    BY <1>7, <1>8, <1>10, <2>1, LinkedChain
  <2> QED
    BY <2>1, <2>2, ChainStays
<1>12. ASSUME NEW d \in Clients, d # c
       PROVE  /\ ChainOf(e, priv[d]) = ChainOf(entry, priv[d])
              /\ \E n \in Nat : Linked(e, priv[d], n)
  <2>1. PICK n \in Nat : Linked(entry, priv[d], n)
    BY <1>3 DEF Chained
  <2>2. \A r \in ChainOf(entry, priv[d]) : e[r] = entry[r]
    BY <1>7, <1>8, <1>10, <2>1, LinkedChain
  <2> QED
    BY <2>1, <2>2, ChainStays
<1>13. ChainOf(e, ref) = ChainOf(entry, priv[c]) \cup {ref} /\ \E n \in Nat : Linked(e, ref, n)
  <2>1. PICK h : h = priv[c]
    OBVIOUS
  <2>2. PICK n \in Nat : Linked(entry, h, n)
    BY <1>3, <2>1 DEF Chained
  <2>3. ref \notin ChainOf(entry, h) /\ e[ref] = h /\ \A r \in ChainOf(entry, h) : e[r] = entry[r]
    BY <1>7, <1>8, <1>10, <2>1, <2>2, LinkedChain
  <2>4. Linked(e, ref, n + 1) /\ ChainOf(e, ref) = ChainOf(entry, h) \cup {ref}
    BY <1>5, <2>2, <2>3, ChainPush
  <2>5. n + 1 \in Nat
    OBVIOUS
  <2> QED
    BY <2>1, <2>4, <2>5
<1>14. Chained'
  <2>1. Linked(entry', freeHead', freeCount')
    BY <1>4, <1>10, <1>11
  <2>2. ASSUME NEW d \in Clients PROVE \E n \in Nat : Linked(entry', priv'[d], n)
    <3>1. CASE d = c
      BY <1>9, <1>10, <1>13, <3>1
    <3>2. CASE d # c
      BY <1>9, <1>10, <1>12, <3>2
    <3> QED
      BY <3>1, <3>2
  <2> QED
    BY <2>1, <2>2 DEF Chained
<1>15. Usable' = Usable /\ Queued' = Queued
  BY <1>4 DEF Usable, Queued, Elements
<1>16. /\ ChainOf(entry, freeHead)' = ChainOf(entry, freeHead)
       /\ \A d \in Clients : d # c => ChainOf(entry, priv[d])' = ChainOf(entry, priv[d])
       /\ ChainOf(entry, priv[c])' = ChainOf(entry, priv[c]) \cup {ref}
  BY <1>4, <1>9, <1>10, <1>11, <1>12, <1>13
<1>17. Located[q] = ChainOf(entry, priv[c]) /\ Located'[q] = ChainOf(entry, priv[c]) \cup {ref}
  BY <1>16, LocatedAt, LocatedNext
<1> HIDE DEF p, q
<1>18. \A s \in Spots \ {p, q} : Located'[s] = Located[s]
  BY <1>4, <1>5, <1>6, <1>15, <1>16, SamePlaces
<1>19. Moved(Located, Located', p, q, {ref})
  BY <1>6, <1>17, <1>18 DEF Moved
<1>20. Apart'
  BY <1>6, <1>15, <1>19, MovedApart DEF GInv
<1>21. Types'
  <2>1. entry' \in [Refs -> Links] /\ priv' \in [Clients -> Links]
    BY <1>2, <1>3, <1>5 DEF Types, Links
  <2> QED
    BY <1>3, <1>4, <1>5, <2>1 DEF Types
<1>22. InHand'
  BY <1>3, <1>4, <1>5 DEF InHand, Distinct
<1> QED
  BY <1>14, <1>20, <1>21, <1>22 DEF GInv
-----------------------------------------------------------------------------
(* get_free_entries leaves the drivers' chains alone.                      *)
LEMMA TakenAlone ==
    ASSUME GInv, NEW n \in Nat \ {0}, NEW ref, GetFreeEntries(n, ref)
    PROVE  \E new \in SUBSET Refs :
               /\ entry' \in [Refs -> Links] /\ freeHead' \in Links /\ freeCount' \in Nat
               /\ nrFrames' \in 1 .. MaxFrames /\ ref \in Refs
               /\ waiting' \in SUBSET Clients /\ queued' \in [Clients -> BOOLEAN]
               /\ need' \in [Clients -> Nat]
               /\ Linked(entry', freeHead', freeCount') /\ Linked(entry', ref, n)
               /\ ChainOf(entry', ref) \cup ChainOf(entry', freeHead')
                      = ChainOf(entry, freeHead) \cup new
               /\ ChainOf(entry', ref) \cap ChainOf(entry', freeHead') = {}
               /\ Usable' = Usable \cup new /\ Usable \cap new = {}
               /\ \A c \in Clients : /\ ChainOf(entry', priv[c]) = ChainOf(entry, priv[c])
                                     /\ \E k \in Nat : Linked(entry', priv[c], k)
<1>1. /\ ChainOf(entry, freeHead) \subseteq Usable
      /\ \A c \in Clients : /\ ChainOf(entry, priv[c]) \subseteq Usable
                            /\ ChainOf(entry, priv[c]) \cap ChainOf(entry, freeHead) = {}
  BY OnePlace DEF GInv
<1>2. PICK new \in SUBSET Refs :
               /\ entry' \in [Refs -> Links] /\ freeHead' \in Links /\ freeCount' \in Nat
               /\ nrFrames' \in 1 .. MaxFrames /\ ref \in Refs
               /\ waiting' \in SUBSET Clients /\ queued' \in [Clients -> BOOLEAN]
               /\ need' \in [Clients -> Nat]
               /\ Linked(entry', freeHead', freeCount') /\ Linked(entry', ref, n)
               /\ ChainOf(entry', ref) \cup ChainOf(entry', freeHead')
                      = ChainOf(entry, freeHead) \cup new
               /\ ChainOf(entry', ref) \cap ChainOf(entry', freeHead') = {}
               /\ Usable' = Usable \cup new /\ Usable \cap new = {}
               /\ \A r \in Refs \ (ChainOf(entry, freeHead) \cup new) : entry'[r] = entry[r]
  BY <1>1, Taken DEF GInv
<1>3. ASSUME NEW c \in Clients
      PROVE  /\ ChainOf(entry', priv[c]) = ChainOf(entry, priv[c])
             /\ \E k \in Nat : Linked(entry', priv[c], k)
  <2>1. PICK k \in Nat : Linked(entry, priv[c], k)
    BY DEF GInv, Chained
  <2>2. PICK e : e = entry'
    OBVIOUS
  <2>3. ChainOf(entry, priv[c]) \subseteq Refs
    BY <2>1, LinkedChain
  <2>4. \A r \in ChainOf(entry, priv[c]) : e[r] = entry[r]
    BY <1>1, <1>2, <2>2, <2>3
  <2>5. Linked(e, priv[c], k) /\ ChainOf(e, priv[c]) = ChainOf(entry, priv[c])
    BY <2>1, <2>4, ChainStays
  <2> QED
    BY <2>2, <2>5
<1> QED
  BY <1>2, <1>3

(* New references appear in p.                                             *)
LEMMA Widened ==
    ASSUME NEW L, NEW M, NEW all, NEW new, NEW p \in Spots, Parts(L, all), all \cap new = {},
           M[p] = L[p] \cup new, \A s \in Spots \ {p} : M[s] = L[s]
    PROVE  Parts(M, all \cup new)
<1>1. \A s \in Spots : M[s] = IF s = p THEN L[p] \cup new ELSE L[s]
  OBVIOUS
<1>2. \A s \in Spots : L[s] \subseteq all
  BY DEF Parts
<1>3. ASSUME NEW s \in Spots, NEW t \in Spots, s # t PROVE M[s] \cap M[t] = {}
  <2>1. L[s] \cap L[t] = {} /\ L[s] \cap new = {} /\ L[t] \cap new = {}
    BY <1>2, <1>3 DEF Parts
  <2> QED
    BY <1>1, <1>3, <2>1
<1>4. UNION {M[s] : s \in Spots} = all \cup new
  <2>1. ASSUME NEW s \in Spots, NEW r \in M[s] PROVE r \in all \cup new
    BY <1>1, <1>2
  <2>2. ASSUME NEW r \in all PROVE \E s \in Spots : r \in M[s]
    <3>1. PICK s \in Spots : r \in L[s]
      BY DEF Parts
    <3> QED
      BY <1>1, <3>1
  <2>3. ASSUME NEW r \in new PROVE r \in M[p]
    BY <1>1
  <2> QED
    BY <2>1, <2>2, <2>3
<1> QED
  BY <1>3, <1>4 DEF Parts

(* What get_free_entries took goes to q.                                   *)
LEMMA TakenApart ==
    ASSUME Apart, NEW new, NEW X, NEW q \in Spots, q # <<"free", "all">>,
           X \cup ChainOf(entry', freeHead') = ChainOf(entry, freeHead) \cup new,
           X \cap ChainOf(entry', freeHead') = {},
           Usable' = Usable \cup new, Usable \cap new = {},
           Located'[q] = Located[q] \cup X,
           \A s \in Spots \ {<<"free", "all">>, q} : Located'[s] = Located[s]
    PROVE  Apart'
<1> DEFINE p == <<"free", "all">>
<1>1. p \in Spots /\ p # q
  BY SpotsAre
<1>2. Located[p] = ChainOf(entry, freeHead) /\ Located'[p] = ChainOf(entry', freeHead')
  BY LocatedAt, LocatedNext
<1> HIDE DEF p
<1>3. PICK L : L = Located
  OBVIOUS
<1>4. PICK N1 : N1 = Located'
  OBVIOUS
<1>5. PICK all : all = Usable
  OBVIOUS
<1>6. PICK M : M = [s \in Spots |-> IF s = p THEN L[p] \cup new ELSE L[s]]
  OBVIOUS
<1>7. M[p] = L[p] \cup new /\ \A s \in Spots \ {p} : M[s] = L[s]
  BY <1>1, <1>6
<1>8. Parts(L, all) /\ all \cap new = {}
  BY <1>3, <1>5 DEF Apart
<1>9. Parts(M, all \cup new)
  BY <1>1, <1>7, <1>8, Widened
<1>10. Moved(M, N1, p, q, X)
  <2>1. X \subseteq M[p] /\ N1[p] = M[p] \ X
    BY <1>2, <1>3, <1>4, <1>7
  <2>2. N1[q] = M[q] \cup X
    BY <1>1, <1>3, <1>4, <1>7
  <2>3. \A s \in Spots \ {p, q} : N1[s] = M[s]
    BY <1>3, <1>4, <1>7 DEF p
  <2> QED
    BY <2>1, <2>2, <2>3 DEF Moved
<1>11. PICK a : a = all \cup new
  OBVIOUS
<1>12. Parts(N1, a)
  BY <1>1, <1>9, <1>10, <1>11, Moves
<1>13. Parts(Located', Usable')
  BY <1>4, <1>5, <1>11, <1>12
<1> QED
  BY <1>13 DEF Apart, Parts, Spots

LEMMA GrantStep ==
    ASSUME GInv, NEW c \in Clients, GrantForeignAccess(c)
    PROVE  GInv'
<1>1. PICK ref \in Refs :
          /\ GetFreeEntries(1, ref) /\ flags' = [flags EXCEPT ![ref] = "permit"]
          /\ held' = [held EXCEPT ![c] = @ \cup {ref}]
          /\ UNCHANGED <<mapped, priv, op, defer>>
  BY DEF GrantForeignAccess
<1>2. PICK new \in SUBSET Refs :
               /\ entry' \in [Refs -> Links] /\ freeHead' \in Links /\ freeCount' \in Nat
               /\ nrFrames' \in 1 .. MaxFrames /\ ref \in Refs
               /\ waiting' \in SUBSET Clients /\ queued' \in [Clients -> BOOLEAN]
               /\ need' \in [Clients -> Nat]
               /\ Linked(entry', freeHead', freeCount') /\ Linked(entry', ref, 1)
               /\ ChainOf(entry', ref) \cup ChainOf(entry', freeHead')
                      = ChainOf(entry, freeHead) \cup new
               /\ ChainOf(entry', ref) \cap ChainOf(entry', freeHead') = {}
               /\ Usable' = Usable \cup new /\ Usable \cap new = {}
               /\ \A d \in Clients : /\ ChainOf(entry', priv[d]) = ChainOf(entry, priv[d])
                                     /\ \E k \in Nat : Linked(entry', priv[d], k)
  <2>1. 1 \in Nat \ {0} /\ GetFreeEntries(1, ref)
    BY <1>1
  <2> QED
    BY <2>1, TakenAlone
<1>3. Types /\ InHand
  BY DEF GInv
<1>4. UNCHANGED <<mapped, priv, op, deferred, timer, dh, leaked, oops>>
  BY <1>1 DEF defer
<1>5. ChainOf(entry', ref) = {ref}
  <2>1. PICK e : e = entry'
    OBVIOUS
  <2>2. /\ IsFiniteSet(ChainOf(e, ref)) /\ Cardinality(ChainOf(e, ref)) = 1
        /\ ref \in ChainOf(e, ref)
    <3>1. Linked(e, ref, 1) /\ ref # LIST_END
      BY <1>2, <2>1, RefsSize
    <3> QED
      BY <3>1, LinkedChain
  <2>3. \E x : ChainOf(e, ref) = {x}
    BY <2>2, FS_Singleton
  <2> QED
    BY <2>1, <2>2, <2>3
<1>6. held'[c] = held[c] \cup {ref} /\ \A d \in Clients : d # c => held'[d] = held[d]
  BY <1>1, <1>3 DEF Types
<1>7. Types'
  <2>1. flags' \in [Refs -> Flags]
    BY <1>1, <1>3 DEF Types, Flags
  <2>2. held' \in [Clients -> SUBSET Refs]
    BY <1>1, <1>3 DEF Types
  <2> QED
    BY <1>2, <1>3, <1>4, <2>1, <2>2 DEF Types
<1>8. Chained'
  BY <1>2, <1>4 DEF Chained
<1>9. Apart'
  <2> DEFINE q == <<"held", c>>
  <2>1. q \in Spots /\ q # <<"free", "all">> /\ \A d \in Clients : <<"held", d>> = q \/ d # c
    BY SpotsAre
  <2>2. Located'[q] = Located[q] \cup {ref}
    BY <1>6, LocatedAt, LocatedNext
  <2>3. \A d \in Clients : ChainOf(entry, priv[d])' = ChainOf(entry, priv[d])
    BY <1>2, <1>4
  <2>4. Queued' = Queued
    BY <1>4 DEF Queued, Elements
  <2> HIDE DEF q
  <2>5. \A s \in Spots \ {<<"free", "all">>, q} : Located'[s] = Located[s]
    BY <1>4, <1>6, <2>1, <2>3, <2>4, SamePlaces
  <2>6. Apart
    BY DEF GInv
  <2>7. /\ {ref} \cup ChainOf(entry', freeHead') = ChainOf(entry, freeHead) \cup new
        /\ {ref} \cap ChainOf(entry', freeHead') = {}
        /\ Usable' = Usable \cup new /\ Usable \cap new = {}
    BY <1>2, <1>5
  <2> QED
    BY <2>1, <2>2, <2>5, <2>6, <2>7, TakenApart
<1>10. InHand'
  BY <1>3, <1>4 DEF InHand, Distinct
<1> QED
  BY <1>7, <1>8, <1>9, <1>10 DEF GInv

LEMMA AllocStep ==
    ASSUME GInv, NEW c \in Clients, NEW n \in 1 .. MaxBatch, AllocGrantReferences(c, n)
    PROVE  GInv'
<1>1. PICK ref \in Refs : GetFreeEntries(n, ref) /\ priv' = [priv EXCEPT ![c] = ref]
  BY DEF AllocGrantReferences
<1>2. priv[c] = LIST_END /\ UNCHANGED <<shared, held, op, defer>>
  BY DEF AllocGrantReferences
<1>3. PICK new \in SUBSET Refs :
               /\ entry' \in [Refs -> Links] /\ freeHead' \in Links /\ freeCount' \in Nat
               /\ nrFrames' \in 1 .. MaxFrames /\ ref \in Refs
               /\ waiting' \in SUBSET Clients /\ queued' \in [Clients -> BOOLEAN]
               /\ need' \in [Clients -> Nat]
               /\ Linked(entry', freeHead', freeCount') /\ Linked(entry', ref, n)
               /\ ChainOf(entry', ref) \cup ChainOf(entry', freeHead')
                      = ChainOf(entry, freeHead) \cup new
               /\ ChainOf(entry', ref) \cap ChainOf(entry', freeHead') = {}
               /\ Usable' = Usable \cup new /\ Usable \cap new = {}
               /\ \A d \in Clients : /\ ChainOf(entry', priv[d]) = ChainOf(entry, priv[d])
                                     /\ \E k \in Nat : Linked(entry', priv[d], k)
  <2>1. n \in Nat \ {0} /\ GetFreeEntries(n, ref)
    BY <1>1
  <2> QED
    BY <2>1, TakenAlone
<1>4. Types /\ InHand
  BY DEF GInv
<1>5. UNCHANGED <<flags, mapped, held, op, deferred, timer, dh, leaked, oops>>
  BY <1>2 DEF shared, defer
<1>6. priv'[c] = ref /\ \A d \in Clients : d # c => priv'[d] = priv[d]
  BY <1>1, <1>4 DEF Types
<1>7. Types'
  <2>1. priv' \in [Clients -> Links]
    BY <1>1, <1>4 DEF Types, Links
  <2> QED
    BY <1>3, <1>4, <1>5, <2>1 DEF Types
<1>8. Chained'
  <2>1. n \in Nat
    OBVIOUS
  <2>2. ASSUME NEW d \in Clients PROVE \E k \in Nat : Linked(entry', priv'[d], k)
    <3>1. CASE d = c
      BY <1>3, <1>6, <2>1, <3>1
    <3>2. CASE d # c
      BY <1>3, <1>6, <3>2
    <3> QED
      BY <3>1, <3>2
  <2> QED
    BY <1>3, <2>2 DEF Chained
<1>9. Apart'
  <2> DEFINE q == <<"chain", c>>
             X == ChainOf(entry', ref)
  <2>1. q \in Spots /\ q # <<"free", "all">> /\ \A d \in Clients : <<"chain", d>> = q \/ d # c
    BY SpotsAre
  <2>2. Located'[q] = Located[q] \cup X
    <3>1. Located[q] = ChainOf(entry, LIST_END)
      BY <1>2, LocatedAt
    <3>2. ChainOf(entry, LIST_END) = {}
      <4>1. Linked(entry, freeHead, freeCount)
        BY DEF GInv, Chained
      <4> QED
        BY <4>1, LinkedChain
    <3>3. Located'[q] = ChainOf(entry', priv'[c])
      BY LocatedNext
    <3> QED
      BY <1>6, <3>1, <3>2, <3>3
  <2>3. \A d \in Clients : d # c => ChainOf(entry, priv[d])' = ChainOf(entry, priv[d])
    BY <1>3, <1>6
  <2>4. Queued' = Queued
    BY <1>5 DEF Queued, Elements
  <2> HIDE DEF q
  <2>5. \A s \in Spots \ {<<"free", "all">>, q} : Located'[s] = Located[s]
    BY <1>5, <2>1, <2>3, <2>4, SamePlaces
  <2>6. Apart
    BY DEF GInv
  <2>7. /\ X \cup ChainOf(entry', freeHead') = ChainOf(entry, freeHead) \cup new
        /\ X \cap ChainOf(entry', freeHead') = {}
        /\ Usable' = Usable \cup new /\ Usable \cap new = {}
    BY <1>3
  <2> HIDE DEF X
  <2> QED
    BY <2>1, <2>2, <2>5, <2>6, <2>7, TakenApart
<1>10. InHand'
  BY <1>4, <1>5 DEF InHand, Distinct
<1> QED
  BY <1>7, <1>8, <1>9, <1>10 DEF GInv

(* gnttab_free_grant_references: a whole chain goes back.                  *)
LEMMA FreeStep ==
    ASSUME GInv, NEW c \in Clients, FreeGrantReferences(c)
    PROVE  GInv'
<1>1. PICK h : h = priv[c]
  OBVIOUS
<1>2. PICK k \in 1 .. Cardinality(Refs) :
          LET last == Walk(entry, priv[c])[k] IN
          /\ last # LIST_END
          /\ entry[last] = LIST_END
          /\ entry' = [entry EXCEPT ![last] = freeHead]
          /\ freeHead' = priv[c]
          /\ freeCount' = freeCount + k
          /\ RunCallbacks(waiting, need, freeCount + k)
  BY DEF FreeGrantReferences
<1>3. PICK last : last = Walk(entry, h)[k]
  OBVIOUS
<1>4. /\ last # LIST_END /\ entry[last] = LIST_END
      /\ entry' = [entry EXCEPT ![last] = freeHead]
      /\ freeHead' = h /\ freeCount' = freeCount + k
      /\ RunCallbacks(waiting, need, freeCount + k)
  BY <1>1, <1>2, <1>3
<1>5. /\ h # LIST_END /\ priv' = [priv EXCEPT ![c] = LIST_END]
      /\ UNCHANGED <<nrFrames, shared, held, op, defer>>
  BY <1>1 DEF FreeGrantReferences
<1>6. Types /\ InHand /\ Apart
  BY DEF GInv
<1>7. UNCHANGED <<nrFrames, flags, mapped, held, op, deferred, timer, dh, leaked, oops>>
  BY <1>5 DEF shared, defer
<1>8. PICK n \in Nat : Linked(entry, h, n)
  BY <1>1 DEF GInv, Chained
<1>9. Linked(entry, freeHead, freeCount)
  BY DEF GInv, Chained
<1>10. ChainOf(entry, h) \cap ChainOf(entry, freeHead) = {}
  BY <1>1, <1>6, OnePlace
<1>11. ChainOf(entry, h) \subseteq Refs /\ ChainOf(entry, freeHead) \subseteq Refs
  BY <1>8, <1>9, LinkedChain
<1>12. last \in Refs
  <2>1. PICK f \in [1 .. n -> Refs] : Path(entry, h, n, f)
    BY <1>8 DEF Linked
  <2>2. /\ \A i \in 1 .. Cardinality(Refs) + 1 : Walk(entry, h)[i] # LIST_END => i <= n
        /\ \A i \in 1 .. n : Walk(entry, h)[i] = f[i]
    BY <1>8, <2>1, PathChain
  <2>3. k \in 1 .. Cardinality(Refs) + 1 /\ k \in Nat /\ k >= 1
    BY RefsSize
  <2>4. k \in 1 .. n
    BY <1>3, <1>4, <2>2, <2>3
  <2> QED
    BY <1>3, <2>2, <2>4
<1>13. entry'[last] = freeHead /\ \A r \in Refs : r # last => entry'[r] = entry[r]
  BY <1>4, <1>6, <1>12 DEF Types
<1>14. PICK e : e = entry'
  OBVIOUS
<1>15. /\ k = n /\ Linked(e, h, n + freeCount)
       /\ ChainOf(e, h) = ChainOf(entry, h) \cup ChainOf(entry, freeHead)
       /\ last \in ChainOf(entry, h)
  <2>1. \A r \in ChainOf(entry, h) \cup ChainOf(entry, freeHead) : r # last => e[r] = entry[r]
    BY <1>11, <1>13, <1>14
  <2>2. e[last] = freeHead
    BY <1>13, <1>14
  <2> QED
    BY <1>3, <1>4, <1>8, <1>9, <1>10, <2>1, <2>2, ChainJoin
<1>16. ASSUME NEW d \in Clients, d # c
       PROVE  /\ ChainOf(e, priv[d]) = ChainOf(entry, priv[d])
              /\ \E m \in Nat : Linked(e, priv[d], m)
  <2>1. PICK m \in Nat : Linked(entry, priv[d], m)
    BY DEF GInv, Chained
  <2>2. last \notin ChainOf(entry, priv[d])
    BY <1>1, <1>6, <1>15, <1>16, OnePlace
  <2>3. \A r \in ChainOf(entry, priv[d]) : e[r] = entry[r]
    BY <1>13, <1>14, <2>1, <2>2, LinkedChain
  <2> QED
    BY <2>1, <2>3, ChainStays
<1>17. ChainOf(e, LIST_END) = {} /\ Linked(e, LIST_END, 0)
  <2>1. PICK m : m = n + freeCount
    OBVIOUS
  <2>2. Linked(e, h, m)
    BY <1>15, <2>1
  <2> QED
    BY <2>2, LinkedChain
<1>18. priv'[c] = LIST_END /\ \A d \in Clients : d # c => priv'[d] = priv[d]
  BY <1>5, <1>6 DEF Types
<1>19. freeCount' = n + freeCount /\ freeCount' \in Nat
  BY <1>4, <1>6, <1>15 DEF Types
<1>20. Types'
  <2>1. /\ waiting' \in SUBSET Clients /\ queued' \in [Clients -> BOOLEAN]
        /\ need' \in [Clients -> Nat]
    BY <1>4, <1>6, CallbackTypes DEF Types
  <2>2. entry' \in [Refs -> Links] /\ priv' \in [Clients -> Links] /\ freeHead' \in Links
    BY <1>1, <1>4, <1>5, <1>6, <1>12 DEF Types, Links
  <2> QED
    BY <1>6, <1>7, <1>19, <2>1, <2>2 DEF Types
<1>21. Chained'
  <2>1. Linked(entry', freeHead', freeCount')
    BY <1>4, <1>14, <1>15, <1>19
  <2>2. ASSUME NEW d \in Clients PROVE \E m \in Nat : Linked(entry', priv'[d], m)
    <3>1. CASE d = c
      BY <1>14, <1>17, <1>18, <3>1
    <3>2. CASE d # c
      BY <1>14, <1>16, <1>18, <3>2
    <3> QED
      BY <3>1, <3>2
  <2> QED
    BY <2>1, <2>2 DEF Chained
<1>22. Apart'
  <2> DEFINE p == <<"chain", c>>
             q == <<"free", "all">>
             X == ChainOf(entry, h)
  <2>1. p \in Spots /\ q \in Spots /\ p # q /\ \A d \in Clients : <<"chain", d>> = p \/ d # c
    BY SpotsAre
  <2>2. Located[p] = X /\ Located[q] = ChainOf(entry, freeHead)
    BY <1>1, LocatedAt
  <2>3. Located'[p] = {} /\ Located'[q] = ChainOf(entry, freeHead) \cup X
    <3>1. Located'[p] = ChainOf(entry', priv'[c]) /\ Located'[q] = ChainOf(entry', freeHead')
      BY LocatedNext
    <3> QED
      BY <1>4, <1>14, <1>15, <1>17, <1>18, <3>1
  <2>4. \A d \in Clients : d # c => ChainOf(entry, priv[d])' = ChainOf(entry, priv[d])
    BY <1>14, <1>16, <1>18
  <2>5. Queued' = Queued /\ Usable' = Usable
    BY <1>7 DEF Queued, Elements, Usable
  <2> HIDE DEF p
  <2>6. \A s \in Spots \ {p, q} : Located'[s] = Located[s]
    BY <1>7, <2>1, <2>4, <2>5, SamePlaces
  <2> HIDE DEF q, X
  <2>7. Moved(Located, Located', p, q, X)
    BY <2>2, <2>3, <2>6 DEF Moved
  <2> QED
    BY <1>6, <2>1, <2>5, <2>7, MovedApart
<1>23. InHand'
  BY <1>6, <1>7 DEF InHand, Distinct
<1> QED
  BY <1>20, <1>21, <1>22, <1>23 DEF GInv
-----------------------------------------------------------------------------
LEMMA InitGInv == Init => GInv
<1> SUFFICES ASSUME Init PROVE GInv
  OBVIOUS
<1>1. PICK hi \in Nat : hi = EntriesPerFrame - 1
  OBVIOUS
<1>2. NReserved <= hi /\ NReserved \in Refs /\ hi \in Refs /\ hi - NReserved + 1 = EntriesPerFrame - NReserved
      /\ EntriesPerFrame - NReserved \in Nat
  BY <1>1, RefsSize
<1>3. \A r \in Refs : r + 1 \in Int /\ (r \in NReserved .. hi - 1 => r + 1 \in Refs)
  BY <1>2, RefsSize
<1>4. /\ \A r \in NReserved .. hi - 1 : r \in Refs /\ entry[r] = r + 1
      /\ entry[hi] = LIST_END /\ entry \in [Refs -> Links]
  <2>1. entry = [r \in Refs |-> IF r \in NReserved .. hi - 1 THEN r + 1
                                ELSE IF r = hi THEN LIST_END ELSE 0]
    <3>1. EntriesPerFrame - 2 = hi - 1
      BY <1>1
    <3> QED
      BY <1>1, <3>1 DEF Init
  <2>2. \A r \in NReserved .. hi - 1 : r \in Refs /\ r # hi
    BY <1>2, RefsSize
  <2>3. hi \notin NReserved .. hi - 1 /\ 0 \in Refs
    BY RefsSize
  <2> QED
    BY <1>2, <1>3, <2>1, <2>2, <2>3 DEF Links
<1>5. Linked(entry, NReserved, EntriesPerFrame - NReserved) /\ ChainOf(entry, NReserved) = NReserved .. hi
  <2>1. PICK n : n = hi - NReserved + 1
    OBVIOUS
  <2>2. Linked(entry, NReserved, hi - NReserved + 1) /\ ChainOf(entry, NReserved) = NReserved .. hi
    BY <1>2, <1>4, ChainInOrder
  <2> QED
    BY <1>2, <2>2
<1>6. /\ freeHead = NReserved /\ freeCount = EntriesPerFrame - NReserved /\ nrFrames = 1
      /\ \A c \in Clients : priv[c] = LIST_END /\ held[c] = {} /\ op[c] = NoOp
      /\ deferred = <<>> /\ dh = NoRun /\ leaked = {}
  BY DEF Init
<1>7. Chained
  <2>1. Linked(entry, LIST_END, 0)
    BY <1>5, LinkedChain
  <2> QED
    BY <1>5, <1>6, <2>1 DEF Chained
<1>8. Types
  <2>1. NoOp \in [pc : {"idle", "cas", "put"}, ref : Refs \cup {NoRef},
                  seen : Flags, dest : {"pool", "batch"}]
    BY DEF NoOp, Flags
  <2>2. NoRun \in RunType
    BY DEF NoRun, RunType, Flags
  <2>3. freeHead \in Links /\ freeCount \in Nat /\ nrFrames \in 1 .. MaxFrames
    BY <1>2, <1>6 DEF Links
  <2>4. flags \in [Refs -> Flags] /\ mapped \in SUBSET Refs /\ leaked \in SUBSET Refs
    BY DEF Init, Flags
  <2>5. priv \in [Clients -> Links] /\ held \in [Clients -> SUBSET Refs]
    BY DEF Init, Links
  <2>6. op \in [Clients -> [pc : {"idle", "cas", "put"}, ref : Refs \cup {NoRef},
                            seen : Flags, dest : {"pool", "batch"}]]
    BY <2>1 DEF Init
  <2>7. waiting \in SUBSET Clients /\ queued \in [Clients -> BOOLEAN] /\ need \in [Clients -> Nat]
    <3>1. waiting = {} /\ queued = [c \in Clients |-> FALSE] /\ need = [c \in Clients |-> 0]
      BY DEF Init
    <3>2. queued \in [Clients -> BOOLEAN]
      BY <3>1, Zenon
    <3>3. waiting \in SUBSET Clients /\ need \in [Clients -> Nat]
      BY <3>1
    <3> QED
      BY <3>2, <3>3
  <2>8. deferred \in Seq(Refs) /\ timer \in BOOLEAN /\ oops \in BOOLEAN
    <3>1. deferred = <<>> /\ timer = FALSE /\ oops = FALSE
      BY DEF Init
    <3>2. timer \in BOOLEAN /\ oops \in BOOLEAN
      BY <3>1, Zenon
    <3>3. deferred \in Seq(Refs)
      BY <3>1
    <3> QED
      BY <3>2, <3>3
  <2> QED
    BY <1>4, <1>6, <2>2, <2>3, <2>4, <2>5, <2>6, <2>7, <2>8 DEF Types, RunType
<1>9. Apart
  <2>1. Usable = NReserved .. hi
    BY <1>1, <1>6 DEF Usable
  <2> DEFINE q == <<"free", "all">>
  <2>2. q \in Spots /\ Located[q] = Usable
    BY <1>5, <1>6, <2>1, LocatedAt, SpotsAre
  <2>3. ASSUME NEW s \in Spots, s # q PROVE Located[s] = {}
    <3>1. CASE s \in {<<"queue", "all">>, <<"hand", "all">>, <<"leaked", "all">>}
      <4>1. Queued = {} /\ dh.ref = NoRef /\ leaked = {}
        BY <1>6 DEF Queued, Elements, NoRun
      <4> QED
        BY <3>1, <4>1, LocatedAt
    <3>2. CASE \E c \in Clients : s \in {<<"chain", c>>, <<"held", c>>, <<"ending", c>>}
      <4>1. PICK c \in Clients : s \in {<<"chain", c>>, <<"held", c>>, <<"ending", c>>}
        BY <3>2
      <4>2. op[c].ref = NoRef /\ held[c] = {} /\ ChainOf(entry, priv[c]) = {}
        BY <1>5, <1>6, LinkedChain DEF NoOp
      <4>3. Located[<<"chain", c>>] = {} /\ Located[<<"held", c>>] = {} /\ Located[<<"ending", c>>] = {}
        BY <4>2, LocatedAt
      <4> QED
        BY <4>1, <4>3
    <3> QED
      BY <2>3, <3>1, <3>2, SpotsAre
  <2> HIDE DEF q
  <2> QED
    BY <2>2, <2>3 DEF Apart, Parts
<1>10. InHand
  BY <1>6 DEF InHand, Distinct, NoOp, NoRun
<1> QED
  BY <1>7, <1>8, <1>9, <1>10 DEF GInv

(* GInv is inductive.                                                      *)
LEMMA GInvNext ==
    ASSUME GInv, [Next]_vars
    PROVE  GInv'
<1>1. ASSUME NEW c \in Clients, ClientStep(c) PROVE GInv'
  <2>1. CASE GrantForeignAccess(c)
    BY <2>1, GrantStep
  <2>2. ASSUME NEW n \in 1 .. MaxBatch, AllocGrantReferences(c, n) PROVE GInv'
    BY <2>2, AllocStep
  <2>3. ASSUME NEW how \in {"permit", "accept"} \cap Uses[c], ClaimAndGrant(c, how) PROVE GInv'
    BY <2>3, ClaimStep
  <2>4. ASSUME NEW ref \in Refs, Regrant(c, ref) PROVE GInv'
    BY <2>4, RegrantStep
  <2>5. ASSUME NEW ref \in Refs, NEW dest \in {"pool", "batch"} \cap Uses[c], BeginEnd(c, ref, dest)
        PROVE  GInv'
    BY <2>5, BeginStep
  <2>6. CASE FreeGrantReferences(c)
    BY <2>6, FreeStep
  <2>7. ASSUME NEW n \in 1 .. MaxBatch, RequestFreeCallback(c, n) PROVE GInv'
    <3>1. n \in Nat
      OBVIOUS
    <3> QED
      BY <2>7, <3>1, RequestStep
  <2>8. CASE CancelFreeCallback(c)
    BY <2>8, CancelStep
  <2> QED
    BY <1>1, <2>1, <2>2, <2>3, <2>4, <2>5, <2>6, <2>7, <2>8, Zenon DEF ClientStep
<1>2. ASSUME NEW c \in Clients, EndStep(c) PROVE GInv'
  <2>1. CASE CasClear(c) \/ CasRetry(c) \/ TransferDone(c)
    BY <2>1, CasSteps
  <2>2. CASE AddDeferred(c)
    BY <2>2, AddStep
  <2>3. CASE StillInUse(c)
    BY <2>3, StillStep
  <2>4. CASE PutToPool(c)
    BY <2>4, PutToPoolStep
  <2>5. CASE ReleaseGrantReference(c)
    BY <2>5, ReleaseStep
  <2> QED
    BY <1>2, <2>1, <2>2, <2>3, <2>4, <2>5, Zenon DEF EndStep
<1>3. CASE HandlerStep
  BY <1>3, TimerStep, HandlerCasStep, HandlerPutStep, NextStep, KeepStep, Zenon DEF HandlerStep
<1>4. CASE XenStep
  BY <1>4, XenSteps
<1>5. CASE UNCHANGED vars
  <2>1. /\ UNCHANGED <<pool, priv, held, op, cbs, defer>>
        /\ flags' \in [Refs -> Flags] /\ mapped' \in SUBSET Refs
    BY <1>5 DEF vars, shared, GInv, Types
  <2> QED
    BY <2>1, FlagStep
<1> QED
  BY <1>1, <1>2, <1>3, <1>4, <1>5, Zenon DEF Next

LEMMA Always == Spec => []GInv
<1>1. Init => GInv
  BY InitGInv
<1>2. GInv /\ [Next]_vars => GInv'
  BY GInvNext
<1> QED
  BY <1>1, <1>2, PTL DEF Spec
-----------------------------------------------------------------------------
(* The size of a list in which nothing is twice.                           *)
LEMMA ListSize ==
    ASSUME NEW q \in Seq(Refs), Distinct(q)
    PROVE  IsFiniteSet(Elements(q)) /\ Cardinality(Elements(q)) = Len(q)
<1>1. PICK n \in Nat : n = Len(q)
  OBVIOUS
<1>2. PICK f \in [1 .. n -> Refs] : f = q
  BY <1>1
<1>3. \A i, j \in 1 .. n : f[i] = f[j] => i = j
  BY <1>1, <1>2 DEF Distinct
<1>4. IsFiniteSet(Places(f, n)) /\ Cardinality(Places(f, n)) = n
  BY <1>3, PlacesSize
<1>5. Places(f, n) = Elements(q)
  BY <1>1, <1>2 DEF Places, Elements
<1> QED
  BY <1>1, <1>4, <1>5

(* GInv is more than OneOwner.                                             *)
LEMMA InvOwner == GInv => OneOwner
<1> SUFFICES ASSUME GInv PROVE OneOwner
  OBVIOUS
<1> DEFINE O(c) == Chain(priv[c]) \cup held[c] \cup ({op[c].ref} \ {NoRef})
           Owned == [c \in Clients |-> O(c)]
<1>1. Types /\ Chained /\ Apart /\ InHand
  BY DEF GInv
<1>2. Free = ChainOf(entry, freeHead) /\ \A c \in Clients : Chain(priv[c]) = ChainOf(entry, priv[c])
  BY DEF Free, Chain, ChainOf
<1>3. Walk(entry, freeHead)[Cardinality(Refs) + 1] = LIST_END /\ Cardinality(Free) = freeCount
  <2>1. Linked(entry, freeHead, freeCount)
    BY <1>1 DEF Chained
  <2> QED
    BY <1>2, <2>1, LinkedChain
<1>4. Parked = Queued \cup ({dh.ref} \ {NoRef})
  BY DEF Parked, Queued, Elements
<1>5. /\ \A s \in Spots : Located[s] \subseteq Usable
      /\ \A r \in Usable : \E s \in Spots : r \in Located[s]
      /\ \A s, t \in Spots : s # t => Located[s] \cap Located[t] = {}
  BY <1>1 DEF Apart, Parts
<1>6. /\ <<"free", "all">> \in Spots /\ <<"queue", "all">> \in Spots
      /\ <<"hand", "all">> \in Spots /\ <<"leaked", "all">> \in Spots
      /\ Located[<<"free", "all">>] = Free /\ Located[<<"queue", "all">>] = Queued
      /\ Located[<<"hand", "all">>] = {dh.ref} \ {NoRef} /\ Located[<<"leaked", "all">>] = leaked
  BY <1>2, LocatedAt, SpotsAre
<1>7. \A c \in Clients :
          /\ <<"chain", c>> \in Spots /\ <<"held", c>> \in Spots /\ <<"ending", c>> \in Spots
          /\ Located[<<"chain", c>>] = Chain(priv[c]) /\ Located[<<"held", c>>] = held[c]
          /\ Located[<<"ending", c>>] = {op[c].ref} \ {NoRef}
  BY <1>2, LocatedAt, SpotsAre
<1>8. Free \cap Parked = {} /\ Free \cap leaked = {} /\ Parked \cap leaked = {}
  <2>1. /\ Free \cap Queued = {} /\ Free \cap ({dh.ref} \ {NoRef}) = {} /\ Free \cap leaked = {}
        /\ Queued \cap leaked = {} /\ ({dh.ref} \ {NoRef}) \cap leaked = {}
    BY <1>5, <1>6
  <2> QED
    BY <1>4, <2>1
<1>9. ASSUME NEW c \in Clients
      PROVE  /\ O(c) \subseteq Usable
             /\ O(c) \cap (Free \cup Parked \cup leaked) = {}
             /\ Chain(priv[c]) \cap held[c] = {}
             /\ op[c].ref \notin Chain(priv[c]) \cup held[c]
             /\ \A d \in Clients \ {c} : O(c) \cap O(d) = {}
  <2>1. /\ <<"chain", c>> \in Spots /\ <<"held", c>> \in Spots /\ <<"ending", c>> \in Spots
        /\ Located[<<"chain", c>>] = Chain(priv[c]) /\ Located[<<"held", c>>] = held[c]
        /\ Located[<<"ending", c>>] = {op[c].ref} \ {NoRef}
    BY <1>7
  <2>2. PICK s1 \in Spots : s1 = <<"chain", c>>
    BY <2>1
  <2>3. PICK s2 \in Spots : s2 = <<"held", c>>
    BY <2>1
  <2>4. PICK s3 \in Spots : s3 = <<"ending", c>>
    BY <2>1
  <2>5. /\ \A r \in O(c) : \E s \in {s1, s2, s3} : r \in Located[s]
        /\ NoRef \notin O(c) /\ O(c) \subseteq Usable
    <3>1. O(c) = Located[s1] \cup Located[s2] \cup Located[s3]
      BY <2>1, <2>2, <2>3, <2>4
    <3>2. O(c) \subseteq Usable /\ NoRef \notin Usable
      BY <1>1, <1>5, <3>1, UsableRefs, RefsSize DEF Types
    <3> HIDE DEF O
    <3> QED
      BY <3>1, <3>2
  <2>6. ASSUME NEW s \in {s1, s2, s3}, NEW r \in Located[s], r # NoRef
        PROVE  /\ r \notin Free /\ r \notin Parked /\ r \notin leaked
               /\ \A d \in Clients \ {c} : r \notin O(d)
    <3>1. /\ s \in Spots /\ s # <<"free", "all">> /\ s # <<"queue", "all">>
          /\ s # <<"hand", "all">> /\ s # <<"leaked", "all">>
      BY <2>2, <2>3, <2>4
    <3>2. \A d \in Clients \ {c} :
             s # <<"chain", d>> /\ s # <<"held", d>> /\ s # <<"ending", d>>
      BY <2>2, <2>3, <2>4
    <3>3. r \notin ChainOf(entry, freeHead) /\ r \notin Queued /\ r # dh.ref /\ r \notin leaked
      BY <1>1, <2>6, <3>1, NotElsewhere
    <3>4. ASSUME NEW d \in Clients \ {c} PROVE r \notin O(d)
      <4>1. r \notin ChainOf(entry, priv[d]) /\ r \notin held[d] /\ r # op[d].ref
        BY <1>1, <2>6, <3>1, <3>2, NotElsewhere
      <4> QED
        BY <1>2, <4>1
    <3> HIDE DEF O
    <3> QED
      BY <1>2, <1>4, <3>3, <3>4
  <2>7. Chain(priv[c]) \cap held[c] = {}
    <3>1. s1 # s2
      BY <2>2, <2>3
    <3> QED
      BY <1>5, <2>1, <2>2, <2>3, <3>1
  <2>8. op[c].ref \notin Chain(priv[c]) \cup held[c]
    <3>1. NoRef \notin Chain(priv[c]) \cup held[c]
      BY <2>5
    <3>2. s1 # s3 /\ s2 # s3
      BY <2>2, <2>3, <2>4
    <3>3. Located[s1] \cap Located[s3] = {} /\ Located[s2] \cap Located[s3] = {}
      BY <1>5, <3>2
    <3> QED
      BY <2>1, <2>2, <2>3, <2>4, <3>1, <3>3
  <2> HIDE DEF O
  <2> QED
    BY <2>5, <2>6, <2>7, <2>8
<1>10. Free \cup Parked \cup leaked \cup UNION {Owned[c] : c \in Clients} = Usable
  <2>1. Free \cup Parked \cup leaked \subseteq Usable
    BY <1>4, <1>5, <1>6
  <2>2. ASSUME NEW c \in Clients PROVE O(c) \subseteq Usable
    BY <1>9
  <2>3. ASSUME NEW r \in Usable
        PROVE  r \in Free \cup Parked \cup leaked \/ \E c \in Clients : r \in O(c)
    <3>1. PICK s \in Spots : r \in Located[s]
      BY <1>5
    <3>2. CASE s \in {<<"free", "all">>, <<"queue", "all">>, <<"hand", "all">>, <<"leaked", "all">>}
      BY <1>4, <1>6, <3>1, <3>2
    <3>3. CASE \E c \in Clients : s \in {<<"chain", c>>, <<"held", c>>, <<"ending", c>>}
      <4>1. PICK c \in Clients : s \in {<<"chain", c>>, <<"held", c>>, <<"ending", c>>}
        BY <3>3
      <4>2. /\ Located[<<"chain", c>>] = Chain(priv[c]) /\ Located[<<"held", c>>] = held[c]
            /\ Located[<<"ending", c>>] = {op[c].ref} \ {NoRef}
        BY <1>7
      <4>3. r \in O(c)
        BY <3>1, <4>1, <4>2
      <4> QED
        BY <4>3
    <3> QED
      BY <3>2, <3>3, SpotsAre
  <2> HIDE DEF O
  <2> QED
    BY <2>1, <2>2, <2>3
<1>11. Cardinality(Parked) = Len(deferred) + IF dh.ref = NoRef THEN 0 ELSE 1
  <2>1. IsFiniteSet(Queued) /\ Cardinality(Queued) = Len(deferred)
    BY <1>1, ListSize DEF Types, InHand, Queued
  <2>2. CASE dh.ref = NoRef
    <3>1. Parked = Queued /\ Len(deferred) \in Nat
      BY <1>1, <1>4, <2>2 DEF Types
    <3> QED
      BY <2>1, <2>2, <3>1
  <2>3. CASE dh.ref # NoRef
    <3>1. Parked = Queued \cup {dh.ref} /\ dh.ref \notin Queued
      <4>1. ({dh.ref} \ {NoRef}) \cap Queued = {}
        BY <1>5, <1>6
      <4> QED
        BY <1>4, <2>3, <4>1
    <3>2. Cardinality(Queued \cup {dh.ref}) = Cardinality(Queued) + 1
      BY <2>1, <3>1, FS_AddElement
    <3> QED
      BY <2>1, <2>3, <3>1, <3>2
  <2> QED
    BY <2>2, <2>3
<1>12. \A c \in Clients : Owned[c] = O(c)
  OBVIOUS
<1> HIDE DEF O
<1>13. \A c \in Clients :
          /\ Owned[c] \cap (Free \cup Parked \cup leaked) = {}
          /\ Chain(priv[c]) \cap held[c] = {}
          /\ op[c].ref \notin Chain(priv[c]) \cup held[c]
          /\ \A d \in Clients \ {c} : Owned[c] \cap Owned[d] = {}
  BY <1>9, <1>12
<1> HIDE DEF Owned
<1>14. Owned = [c \in Clients |-> Chain(priv[c]) \cup held[c] \cup ({op[c].ref} \ {NoRef})]
  BY DEF Owned, O
<1> QED
  BY <1>1, <1>3, <1>8, <1>10, <1>11, <1>13, <1>14 DEF OneOwner

(* A reference is on the free list, on one private chain, held or being    *)
(* ended by one driver, parked or leaked, and in one of these places only, *)
(* through every call of the drivers, every growth of the table, and the   *)
(* deferred handler; and the free list is as long as gnttab_free_count     *)
(* says, which get_free_entries walks without looking for its end.         *)
THEOREM OwnersAreApart == Spec => []OneOwner
BY Always, InvOwner, PTL
-----------------------------------------------------------------------------
(* What a driver or the handler could hand out again, or the table has not *)
(* reached yet, nobody holds, ends or has parked.                          *)
LEMMA OutOfUse ==
    ASSUME GInv, NEW r \in Refs,
           \/ r \in ChainOf(entry, freeHead) \/ r \notin Usable
           \/ \E c \in Clients : r \in ChainOf(entry, priv[c])
    PROVE  ~MayBeOpen(r) /\ \A c \in Clients : op[c].ref # r /\ r \notin held[c]
<1>1. Apart /\ r # NoRef
  BY RefsSize DEF GInv
<1>2. ASSUME NEW s \in Spots, r \in Located[s],
             s = <<"free", "all">> \/ \E c \in Clients : s = <<"chain", c>>
      PROVE  /\ r \notin Queued /\ r # dh.ref /\ r \notin leaked
             /\ \A c \in Clients : op[c].ref # r /\ r \notin held[c]
  <2>1. /\ s # <<"queue", "all">> /\ s # <<"hand", "all">> /\ s # <<"leaked", "all">>
        /\ \A c \in Clients : s # <<"held", c>> /\ s # <<"ending", c>>
    BY <1>2
  <2> QED
    BY <1>1, <1>2, <2>1, NotElsewhere
<1>3. /\ r \notin Queued /\ r # dh.ref /\ r \notin leaked
      /\ \A c \in Clients : op[c].ref # r /\ r \notin held[c]
  <2>1. CASE r \in ChainOf(entry, freeHead)
    <3>1. PICK s \in Spots : s = <<"free", "all">>
      BY SpotsAre
    <3>2. r \in Located[s]
      BY <2>1, <3>1, LocatedAt
    <3> QED
      BY <1>2, <3>1, <3>2
  <2>2. CASE \E c \in Clients : r \in ChainOf(entry, priv[c])
    <3>1. PICK c \in Clients : r \in ChainOf(entry, priv[c])
      BY <2>2
    <3>2. PICK s \in Spots : s = <<"chain", c>>
      BY SpotsAre
    <3>3. r \in Located[s]
      BY <3>1, <3>2, LocatedAt
    <3> QED
      BY <1>2, <3>2, <3>3
  <2>3. CASE r \notin Usable
    BY <1>1, <2>3, OnePlace
  <2> QED
    BY <2>1, <2>2, <2>3
<1> QED
  BY <1>3 DEF MayBeOpen

(* Steps that leave the shared flags alone.                                *)
LEMMA StaysShut ==
    ASSUME Shut, UNCHANGED shared,
           \A r \in Refs : flags[r] \in Open /\ MayBeOpen(r) => MayBeOpen(r)',
           \A c \in Clients : op'[c].pc = "cas" /\ op'[c].seen = "completed"
                                  => flags[op'[c].ref] \in {"clear", "completed"},
           dh'.pc = "cas" => dh'.seen # "busy"
    PROVE  Shut'
<1>1. UNCHANGED <<flags, mapped>>
  BY DEF shared
<1>2. \A r \in mapped' : flags'[r] = "busy"
  BY <1>1 DEF Shut
<1>3. \A r \in Refs : flags'[r] \in Open => MayBeOpen(r)'
  BY <1>1 DEF Shut
<1> QED
  BY <1>1, <1>2, <1>3 DEF Shut

(* Steps after which the same references may be open.                      *)
LEMMA SameInUse ==
    ASSUME UNCHANGED <<held, op, leaked, deferred, dh>>, NEW r
    PROVE  MayBeOpen(r)' <=> MayBeOpen(r)
BY DEF MayBeOpen, Queued, Elements

(* The references a driver opens were closed, and it holds them.           *)
LEMMA Opens ==
    ASSUME GInv, Shut, NEW ref \in Refs, NEW how \in {"permit", "accept"}, NEW c \in Clients,
           ref \notin mapped, \A d \in Clients : op[d].ref # ref,
           flags' = [flags EXCEPT ![ref] = how], held' = [held EXCEPT ![c] = @ \cup {ref}],
           UNCHANGED <<mapped, op, leaked, deferred, dh>>
    PROVE  Shut'
<1>1. Types
  BY DEF GInv
<1>2. flags'[ref] = how /\ \A r \in Refs : r # ref => flags'[r] = flags[r]
  BY <1>1 DEF Types
<1>3. ref \in held'[c] /\ \A d \in Clients : held[d] \subseteq held'[d]
  BY <1>1 DEF Types
<1>4. \A r \in mapped' : flags'[r] = "busy"
  BY <1>1, <1>2 DEF Shut, Types
<1>5. ASSUME NEW r \in Refs, flags'[r] \in Open PROVE MayBeOpen(r)'
  <2>1. CASE r = ref
    BY <1>3, <2>1 DEF MayBeOpen
  <2>2. CASE r # ref
    <3>1. MayBeOpen(r)
      BY <1>2, <1>5, <2>2 DEF Shut
    <3> QED
      BY <1>3, <3>1 DEF MayBeOpen, Queued, Elements
  <2> QED
    BY <2>1, <2>2
<1>6. \A d \in Clients : op'[d].pc = "cas" /\ op'[d].seen = "completed"
                              => flags'[op'[d].ref] \in {"clear", "completed"}
  <2>1. ASSUME NEW d \in Clients, op[d].pc = "cas" PROVE flags'[op[d].ref] = flags[op[d].ref]
    <3>1. op[d].ref \in Refs
      BY <2>1, <1>1 DEF GInv, InHand, Types
    <3> QED
      BY <1>2, <3>1
  <2> QED
    BY <2>1 DEF Shut
<1> QED
  BY <1>4, <1>5, <1>6 DEF Shut

(* Who is out of use is closed.                                            *)
LEMMA Closed ==
    ASSUME Types, Shut, NEW r \in Refs, ~MayBeOpen(r)
    PROVE  flags[r] \notin Open /\ r \notin mapped
BY DEF Shut, Open, Types

LEMMA GrantShut ==
    ASSUME GInv, Shut, NEW c \in Clients, GrantForeignAccess(c)
    PROVE  Shut'
<1>1. PICK ref \in Refs :
          /\ GetFreeEntries(1, ref) /\ flags' = [flags EXCEPT ![ref] = "permit"]
          /\ held' = [held EXCEPT ![c] = @ \cup {ref}]
          /\ UNCHANGED <<mapped, priv, op, defer>>
  BY DEF GrantForeignAccess
<1>2. ref \in ChainOf(entry, freeHead) \/ ref \notin Usable
  <2>1. 1 \in Nat \ {0} /\ GetFreeEntries(1, ref)
    BY <1>1
  <2>2. PICK new \in SUBSET Refs :
               /\ Linked(entry', ref, 1)
               /\ ChainOf(entry', ref) \cup ChainOf(entry', freeHead')
                      = ChainOf(entry, freeHead) \cup new
               /\ Usable \cap new = {}
    BY <2>1, TakenAlone
  <2>3. PICK e : e = entry'
    OBVIOUS
  <2>4. Linked(e, ref, 1) /\ ref # LIST_END
    BY <2>2, <2>3, RefsSize
  <2>5. ref \in ChainOf(e, ref)
    BY <2>4, LinkedChain
  <2> QED
    BY <2>2, <2>3, <2>5
<1>3. ~MayBeOpen(ref) /\ \A d \in Clients : op[d].ref # ref
  BY <1>2, OutOfUse
<1>4. ref \notin mapped
  BY <1>3, Closed DEF GInv
<1>5. UNCHANGED <<mapped, op, leaked, deferred, dh>>
  BY <1>1 DEF defer
<1> QED
  BY <1>1, <1>3, <1>4, <1>5, Opens

LEMMA ClaimShut ==
    ASSUME GInv, Shut, NEW c \in Clients, NEW how \in {"permit", "accept"}, ClaimAndGrant(c, how)
    PROVE  Shut'
<1>1. PICK ref : ref = priv[c]
  OBVIOUS
<1>2. /\ ref # LIST_END /\ flags' = [flags EXCEPT ![ref] = how]
      /\ held' = [held EXCEPT ![c] = @ \cup {ref}]
      /\ UNCHANGED <<mapped, op, leaked, deferred, dh>>
  BY <1>1 DEF ClaimAndGrant, defer
<1>3. ref \in Refs /\ ref \in ChainOf(entry, priv[c])
  <2>1. PICK n \in Nat : Linked(entry, ref, n)
    BY <1>1 DEF GInv, Chained
  <2>2. ref \in ChainOf(entry, ref) /\ ChainOf(entry, ref) \subseteq Refs
    BY <1>2, <2>1, LinkedChain
  <2> QED
    BY <1>1, <2>2
<1>4. ~MayBeOpen(ref) /\ \A d \in Clients : op[d].ref # ref
  BY <1>3, OutOfUse
<1>5. ref \notin mapped
  BY <1>3, <1>4, Closed DEF GInv
<1> QED
  BY <1>2, <1>3, <1>4, <1>5, Opens

LEMMA RegrantShut ==
    ASSUME GInv, Shut, NEW c \in Clients, NEW ref \in Refs, Regrant(c, ref)
    PROVE  Shut'
<1>1. /\ ref \in held[c] /\ flags[ref] \in {"clear", "permit"}
      /\ flags' = [flags EXCEPT ![ref] = "permit"]
      /\ UNCHANGED <<mapped, op, held, leaked, deferred, dh>>
  BY DEF Regrant, defer
<1>2. ref \notin mapped
  BY <1>1 DEF Shut
<1>3. \A d \in Clients : op[d].ref # ref
  <2>1. PICK s \in Spots : s = <<"held", c>>
    BY SpotsAre
  <2>2. ref \in Located[s] /\ ref # NoRef /\ \A d \in Clients : s # <<"ending", d>>
    BY <1>1, <2>1, LocatedAt, RefsSize
  <2> QED
    BY <2>2, NotElsewhere DEF GInv
<1>4. held' = [held EXCEPT ![c] = @ \cup {ref}]
  BY <1>1 DEF GInv, Types
<1>5. "permit" \in {"permit", "accept"}
  OBVIOUS
<1> QED
  BY <1>1, <1>2, <1>3, <1>4, <1>5, Opens

LEMMA BeginShut ==
    ASSUME GInv, Shut, NEW c \in Clients, NEW ref \in Refs, NEW dest \in {"pool", "batch"},
           BeginEnd(c, ref, dest)
    PROVE  Shut'
<1>1. /\ op[c].pc = "idle" /\ ref \in held[c] /\ held' = [held EXCEPT ![c] = @ \ {ref}]
      /\ op' = [op EXCEPT ![c] = [pc |-> "cas", ref |-> ref, seen |-> flags[ref], dest |-> dest]]
      /\ UNCHANGED shared /\ UNCHANGED <<leaked, deferred, dh>>
  BY DEF BeginEnd, defer
<1>2. Types
  BY DEF GInv
<1>3. /\ op'[c].pc = "cas" /\ op'[c].ref = ref /\ op'[c].seen = flags[ref]
      /\ \A d \in Clients : d # c => op'[d] = op[d] /\ held'[d] = held[d]
      /\ held'[c] = held[c] \ {ref}
  BY <1>1, <1>2 DEF Types
<1>4. ASSUME NEW r \in Refs, MayBeOpen(r) PROVE MayBeOpen(r)'
  <2>1. CASE \E d \in Clients : r \in held[d] \/ (op[d].ref = r /\ op[d].pc = "cas")
    <3>1. PICK d \in Clients : r \in held[d] \/ (op[d].ref = r /\ op[d].pc = "cas")
      BY <2>1
    <3>2. r \in held'[d] \/ (op'[d].ref = r /\ op'[d].pc = "cas")
      <4>1. CASE d = c
        BY <1>1, <1>3, <3>1, <4>1
      <4>2. CASE d # c
        BY <1>3, <3>1, <4>2
      <4> QED
        BY <4>1, <4>2
    <3> QED
      BY <3>2 DEF MayBeOpen
  <2>2. CASE r \in leaked \/ r \in Queued \/ (dh.ref = r /\ dh.pc # "put")
    BY <1>1, <2>2 DEF MayBeOpen, Queued, Elements
  <2> QED
    BY <1>4, <2>1, <2>2 DEF MayBeOpen
<1>5. \A d \in Clients : op'[d].pc = "cas" /\ op'[d].seen = "completed"
                              => flags[op'[d].ref] \in {"clear", "completed"}
  BY <1>3 DEF Shut
<1>6. dh'.pc = "cas" => dh'.seen # "busy"
  BY <1>1 DEF Shut
<1> QED
  BY <1>1, <1>4, <1>5, <1>6, StaysShut

(* Steps that end an op with the reference closed, or with somebody who    *)
(* may still have it open.                                                 *)
LEMMA OverShut ==
    ASSUME GInv, Shut, NEW c \in Clients, op[c].pc # "idle", op' = [op EXCEPT ![c] = NoOp],
           UNCHANGED shared, UNCHANGED dh,
           \A d \in Clients : held[d] \subseteq held'[d],
           leaked \subseteq leaked', Queued \subseteq Queued',
           op[c].pc = "cas" =>
               \/ op[c].ref \in leaked' \/ op[c].ref \in Queued'
               \/ \E d \in Clients : op[c].ref \in held'[d]
    PROVE  Shut'
<1>1. /\ op'[c].pc = "idle"
      /\ \A d \in Clients : d # c => op'[d] = op[d]
  <2>1. /\ op'[c].ref = NoRef /\ \A d \in Clients : d # c => op'[d] = op[d]
        /\ \A d \in Clients : op'[d].ref = NoRef <=> op'[d].pc = "idle"
    BY OpOver DEF GInv
  <2> QED
    BY <2>1
<1>2. ASSUME NEW r \in Refs, MayBeOpen(r) PROVE MayBeOpen(r)'
  <2>1. CASE \E d \in Clients : r \in held[d]
    BY <2>1 DEF MayBeOpen
  <2>2. CASE \E d \in Clients : op[d].ref = r /\ op[d].pc = "cas"
    <3>1. PICK d \in Clients : op[d].ref = r /\ op[d].pc = "cas"
      BY <2>2
    <3>2. CASE d = c
      BY <3>1, <3>2 DEF MayBeOpen
    <3>3. CASE d # c
      BY <1>1, <3>1, <3>3 DEF MayBeOpen
    <3> QED
      BY <3>2, <3>3
  <2>3. CASE r \in leaked \/ r \in Queued \/ (dh.ref = r /\ dh.pc # "put")
    BY <2>3 DEF MayBeOpen
  <2> QED
    BY <1>2, <2>1, <2>2, <2>3 DEF MayBeOpen
<1>3. \A d \in Clients : op'[d].pc = "cas" /\ op'[d].seen = "completed"
                              => flags[op'[d].ref] \in {"clear", "completed"}
  BY <1>1 DEF Shut
<1>4. dh'.pc = "cas" => dh'.seen # "busy"
  BY DEF Shut
<1> QED
  BY <1>2, <1>3, <1>4, StaysShut

LEMMA EndsShut ==
    ASSUME GInv, Shut, NEW c \in Clients,
           AddDeferred(c) \/ StillInUse(c) \/ PutToPool(c) \/ ReleaseGrantReference(c)
    PROVE  Shut'
<1>0. Types
  BY DEF GInv
<1>1. /\ op[c].pc # "idle" /\ op' = [op EXCEPT ![c] = NoOp] /\ UNCHANGED shared /\ UNCHANGED dh
  BY DEF AddDeferred, StillInUse, PutToPool, ReleaseGrantReference, defer
<1>2. CASE AddDeferred(c)
  <2>1. UNCHANGED held
    BY <1>2 DEF AddDeferred
  <2>2. CASE deferred' = Append(deferred, op[c].ref) /\ UNCHANGED leaked
    <3>1. PICK ref \in Refs : ref = op[c].ref
      BY <1>1, OpOver DEF GInv
    <3>2. deferred \in Seq(Refs)
      BY <1>0 DEF Types
    <3>3. Elements(Append(deferred, ref)) = Elements(deferred) \cup {ref}
      BY <3>2, Appended
    <3>4. Queued' = Queued \cup {ref}
      BY <2>2, <3>1, <3>3 DEF Queued, Elements
    <3> QED
      BY <1>1, <2>1, <2>2, <3>1, <3>4, OverShut
  <2>3. CASE leaked' = leaked \cup {op[c].ref} /\ UNCHANGED deferred
    <3>1. Queued' = Queued
      BY <2>3 DEF Queued, Elements
    <3> QED
      BY <1>1, <2>1, <2>3, <3>1, OverShut
  <2> QED
    BY <1>2, <2>2, <2>3 DEF AddDeferred
<1>3. CASE StillInUse(c)
  <2>1. held' = [held EXCEPT ![c] = @ \cup {op[c].ref}] /\ UNCHANGED <<leaked, deferred>>
    BY <1>3 DEF StillInUse, defer
  <2>2. op[c].ref \in held'[c] /\ \A d \in Clients : held[d] \subseteq held'[d]
    BY <1>0, <2>1 DEF Types
  <2>3. Queued' = Queued
    BY <2>1 DEF Queued, Elements
  <2> QED
    BY <1>1, <2>1, <2>2, <2>3, OverShut
<1>4. CASE PutToPool(c) \/ ReleaseGrantReference(c)
  <2>1. op[c].pc = "put" /\ UNCHANGED <<held, leaked, deferred>>
    BY <1>4 DEF PutToPool, ReleaseGrantReference, defer
  <2>2. Queued' = Queued
    BY <2>1 DEF Queued, Elements
  <2> QED
    BY <1>1, <2>1, <2>2, OverShut
<1> QED
  BY <1>2, <1>3, <1>4

LEMMA CasShut ==
    ASSUME GInv, Shut, NEW c \in Clients, CasClear(c) \/ CasRetry(c) \/ TransferDone(c)
    PROVE  Shut'
<1>0. Types /\ op[c].pc = "cas" /\ UNCHANGED <<mapped, held, leaked, deferred, dh>>
  BY DEF GInv, CasClear, CasRetry, TransferDone, shared, defer
<1>1. PICK ref \in Refs : ref = op[c].ref
  BY <1>0 DEF GInv, Types, InHand
<1>2. ASSUME NEW r \in Refs, r # ref, MayBeOpen(r),
             \A d \in Clients : d # c => op'[d] = op[d]
      PROVE  MayBeOpen(r)'
  <2>1. \A d \in Clients : op[d].ref = r => d # c
    BY <1>1, <1>2
  <2> QED
    BY <1>0, <1>2, <2>1 DEF MayBeOpen, Queued, Elements
<1>3. CASE CasClear(c)
  <2>1. /\ flags[ref] = op[c].seen /\ op[c].seen \notin {"busy", "committed", "completed"}
        /\ flags' = [flags EXCEPT ![ref] = "clear"]
        /\ op' = [op EXCEPT ![c].pc = "put", ![c].seen = "clear"]
    BY <1>1, <1>3 DEF CasClear
  <2>2. flags'[ref] = "clear" /\ \A r \in Refs : r # ref => flags'[r] = flags[r]
    BY <1>0, <2>1 DEF Types
  <2>3. op'[c].pc = "put" /\ \A d \in Clients : d # c => op'[d] = op[d]
    BY <1>0, <2>1 DEF Types
  <2>4. \A r \in mapped' : flags'[r] = "busy"
    BY <1>0, <2>1, <2>2 DEF Shut, Types
  <2>5. \A r \in Refs : flags'[r] \in Open => MayBeOpen(r)'
    BY <1>2, <2>2, <2>3 DEF Shut, Open
  <2>6. \A d \in Clients : op'[d].pc = "cas" /\ op'[d].seen = "completed"
                                => flags'[op'[d].ref] \in {"clear", "completed"}
    <3>1. ASSUME NEW d \in Clients, op'[d].pc = "cas", op'[d].seen = "completed"
          PROVE  flags'[op'[d].ref] \in {"clear", "completed"}
      <4>1. d # c /\ op'[d] = op[d]
        BY <2>3, <3>1
      <4>2. op[d].ref \in Refs /\ flags[op[d].ref] \in {"clear", "completed"}
        BY <3>1, <4>1 DEF Shut, GInv, InHand, Types
      <4> QED
        BY <2>2, <4>1, <4>2
    <3> QED
      BY <3>1
  <2> QED
    BY <1>0, <2>4, <2>5, <2>6 DEF Shut
<1>4. CASE CasRetry(c)
  <2>1. op' = [op EXCEPT ![c].seen = flags[ref]] /\ UNCHANGED shared
    BY <1>1, <1>4 DEF CasRetry
  <2>2. /\ op'[c].pc = "cas" /\ op'[c].ref = ref /\ op'[c].seen = flags[ref]
        /\ \A d \in Clients : d # c => op'[d] = op[d]
    BY <1>0, <1>1, <2>1 DEF Types
  <2>3. \A r \in Refs : MayBeOpen(r) => MayBeOpen(r)'
    <3>1. \A d \in Clients : op'[d].ref = op[d].ref /\ op'[d].pc = op[d].pc
      BY <1>0, <1>1, <2>2
    <3> QED
      BY <1>0, <3>1 DEF MayBeOpen, Queued, Elements
  <2>4. \A d \in Clients : op'[d].pc = "cas" /\ op'[d].seen = "completed"
                                => flags[op'[d].ref] \in {"clear", "completed"}
    BY <2>2 DEF Shut
  <2>5. dh'.pc = "cas" => dh'.seen # "busy"
    BY <1>0 DEF Shut
  <2> QED
    BY <2>1, <2>3, <2>4, <2>5, StaysShut
<1>5. CASE TransferDone(c)
  <2>1. /\ op[c].seen \in {"committed", "completed"} /\ "completed" \in {op[c].seen, flags[ref]}
        /\ op' = [op EXCEPT ![c].pc = "put", ![c].seen = "clear"] /\ UNCHANGED shared
    BY <1>1, <1>5 DEF TransferDone
  <2>2. op'[c].pc = "put" /\ \A d \in Clients : d # c => op'[d] = op[d]
    BY <1>0, <2>1 DEF Types
  <2>3. flags[ref] \in {"clear", "completed"}
    BY <1>0, <1>1, <2>1 DEF Shut
  <2>4. \A r \in Refs : flags[r] \in Open /\ MayBeOpen(r) => MayBeOpen(r)'
    BY <1>2, <2>2, <2>3 DEF Open
  <2>5. \A d \in Clients : op'[d].pc = "cas" /\ op'[d].seen = "completed"
                                => flags[op'[d].ref] \in {"clear", "completed"}
    BY <2>2 DEF Shut
  <2>6. dh'.pc = "cas" => dh'.seen # "busy"
    BY <1>0 DEF Shut
  <2> QED
    BY <2>1, <2>4, <2>5, <2>6, StaysShut
<1> QED
  BY <1>3, <1>4, <1>5

(* The handler's removal of the first entry of q, or its end.              *)
LEMMA NextOpen ==
    ASSUME NEW q \in Seq(Refs), NEW nr, NEW first,
           (q # <<>> /\ TryDeferred(q, nr, first)) \/ (deferred' = q /\ dh' = NoRun)
    PROVE  /\ dh'.pc = "cas" => dh'.seen # "busy"
           /\ Elements(q) \subseteq Queued' \cup (IF dh'.pc # "put" THEN {dh'.ref} ELSE {})
<1>1. CASE q # <<>> /\ TryDeferred(q, nr, first)
  <2>1. Elements(q) = Elements(Tail(q)) \cup {Head(q)}
    BY <1>1, Headless
  <2>2. PICK h : h = Head(q)
    OBVIOUS
  <2>3. /\ deferred' = Tail(q)
        /\ dh' = [pc |-> IF flags[h] = "busy" THEN "keep" ELSE "cas",
                  ref |-> h, seen |-> flags[h], first |-> first, nr |-> nr - 1]
    BY <1>1, <2>2 DEF TryDeferred
  <2>4. dh'.ref = h /\ dh'.pc # "put" /\ (dh'.pc = "cas" => dh'.seen # "busy")
    BY <2>3
  <2>5. Queued' = Elements(Tail(q))
    BY <2>3 DEF Queued, Elements
  <2> QED
    BY <2>1, <2>2, <2>4, <2>5
<1>2. CASE deferred' = q /\ dh' = NoRun
  <2>1. Queued' = Elements(q)
    BY <1>2 DEF Queued, Elements
  <2> QED
    BY <1>2, <2>1 DEF NoRun
<1> QED
  BY <1>1, <1>2

(* A handler's step from the list q: what it had parked stays parked.      *)
LEMMA RunShut ==
    ASSUME GInv, Shut, UNCHANGED shared, UNCHANGED <<held, op, leaked>>,
           Queued \subseteq Queued' \cup (IF dh'.pc # "put" THEN {dh'.ref} ELSE {}),
           dh.pc \in {"cas", "keep"} =>
               dh.ref \in Queued' \cup (IF dh'.pc # "put" THEN {dh'.ref} ELSE {}),
           dh'.pc = "cas" => dh'.seen # "busy"
    PROVE  Shut'
<1>1. dh.pc \in {"cas", "keep", "put"} \/ dh.ref = NoRef
  BY DEF GInv, Types, InHand
<1>2. ASSUME NEW r \in Refs, MayBeOpen(r) PROVE MayBeOpen(r)'
  <2>1. r # NoRef
    BY RefsSize
  <2>2. CASE \/ \E c \in Clients : r \in held[c] \/ (op[c].ref = r /\ op[c].pc = "cas")
             \/ r \in leaked
    BY <2>2 DEF MayBeOpen
  <2>3. CASE r \in Queued \/ (dh.ref = r /\ dh.pc # "put")
    <3>1. r \in Queued' \/ (dh'.pc # "put" /\ dh'.ref = r)
      BY <1>1, <2>1, <2>3
    <3> QED
      BY <3>1 DEF MayBeOpen
  <2> QED
    BY <1>2, <2>2, <2>3 DEF MayBeOpen
<1>3. \A d \in Clients : op'[d].pc = "cas" /\ op'[d].seen = "completed"
                              => flags[op'[d].ref] \in {"clear", "completed"}
  BY DEF Shut
<1> QED
  BY <1>2, <1>3, StaysShut

LEMMA HandlerShut ==
    ASSUME GInv, Shut, HandlerStep
    PROVE  Shut'
<1>0. Types /\ deferred \in Seq(Refs) /\ Distinct(deferred) /\ InHand
  BY DEF GInv, Types, InHand
<1>1. CASE TimerExpires
  <2>1. /\ dh.pc = "idle" /\ UNCHANGED shared /\ UNCHANGED <<held, op, leaked>>
        /\ \/ deferred # <<>> /\ TryDeferred(deferred, DeferBatch, NoRef)
           \/ UNCHANGED <<deferred, dh>>
    BY <1>1 DEF TimerExpires
  <2>2. CASE deferred # <<>> /\ TryDeferred(deferred, DeferBatch, NoRef)
    <3>1. /\ dh'.pc = "cas" => dh'.seen # "busy"
          /\ Elements(deferred) \subseteq Queued' \cup (IF dh'.pc # "put" THEN {dh'.ref} ELSE {})
      BY <1>0, <2>2, NextOpen
    <3> QED
      BY <2>1, <3>1, RunShut DEF Queued
  <2>3. CASE UNCHANGED <<deferred, dh>>
    <3>1. Queued' = Queued
      BY <2>3 DEF Queued, Elements
    <3> QED
      BY <2>1, <2>3, <3>1, RunShut
  <2> QED
    BY <2>1, <2>2, <2>3
<1>2. CASE DeferredNext
  <2>1. /\ dh.pc = "next" /\ UNCHANGED shared /\ UNCHANGED <<held, op, leaked>>
        /\ \/ dh' = NoRun /\ deferred' = deferred
           \/ deferred # <<>> /\ TryDeferred(deferred, dh.nr, dh.first)
    BY <1>2 DEF DeferredNext, NextDeferred
  <2>2. /\ dh'.pc = "cas" => dh'.seen # "busy"
        /\ Elements(deferred) \subseteq Queued' \cup (IF dh'.pc # "put" THEN {dh'.ref} ELSE {})
    BY <1>0, <2>1, NextOpen
  <2> QED
    BY <2>1, <2>2, RunShut DEF Queued
<1>3. CASE DeferredKeep
  <2>1. PICK ref \in Refs : ref = dh.ref
    BY <1>0, <1>3 DEF DeferredKeep, Types, InHand
  <2>2. PICK q : q = Append(deferred, ref)
    OBVIOUS
  <2>3. PICK first : first = IF dh.first = NoRef THEN dh.ref ELSE dh.first
    OBVIOUS
  <2>4. /\ dh.pc = "keep" /\ UNCHANGED shared /\ UNCHANGED <<held, op, leaked>>
        /\ NextDeferred(q, dh.nr, first)
    BY <1>3, <2>1, <2>2, <2>3 DEF DeferredKeep
  <2>5. /\ q \in Seq(Refs) /\ q # <<>> /\ Elements(q) = Elements(deferred) \cup {ref}
        /\ Distinct(q)
    <3>1. ref \notin Elements(deferred)
      <4>1. PICK s \in Spots : s = <<"hand", "all">>
        BY SpotsAre
      <4>2. ref \in Located[s] /\ s # <<"queue", "all">>
        BY <2>1, <4>1, LocatedAt, RefsSize
      <4> QED
        BY <4>2, NotElsewhere DEF GInv, Queued
    <3> QED
      BY <1>0, <2>2, <3>1, Appended
  <2>6. \/ q # <<>> /\ TryDeferred(q, dh.nr, first)
        \/ deferred' = q /\ dh' = NoRun
    BY <2>4, <2>5 DEF NextDeferred
  <2>7. /\ dh'.pc = "cas" => dh'.seen # "busy"
        /\ Elements(q) \subseteq Queued' \cup (IF dh'.pc # "put" THEN {dh'.ref} ELSE {})
    BY <1>0, <2>5, <2>6, NextOpen
  <2> QED
    BY <2>1, <2>4, <2>5, <2>7, RunShut DEF Queued
<1>4. CASE DeferredPut
  <2>1. /\ dh.pc = "put" /\ dh' = [dh EXCEPT !.pc = "next", !.ref = NoRef]
        /\ UNCHANGED shared /\ UNCHANGED <<held, op, leaked, deferred>>
    BY <1>4 DEF DeferredPut
  <2>2. Queued' = Queued /\ dh'.pc = "next"
    BY <1>0, <2>1 DEF Queued, Elements, Types
  <2> QED
    BY <2>1, <2>2, RunShut
<1>5. CASE DeferredCas
  <2>1. PICK ref \in Refs : ref = dh.ref
    BY <1>0, <1>5 DEF DeferredCas, Types, InHand
  <2>2. dh.pc = "cas" /\ UNCHANGED <<mapped, held, op, leaked, deferred>> /\ Queued' = Queued
    BY <1>5 DEF DeferredCas, Queued, Elements
  <2>3. CASE flags[ref] = dh.seen
    <3>1. flags' = [flags EXCEPT ![ref] = "clear"] /\ dh' = [dh EXCEPT !.pc = "put", !.seen = "clear"]
      BY <1>5, <2>1, <2>3 DEF DeferredCas
    <3>2. flags'[ref] = "clear" /\ \A r \in Refs : r # ref => flags'[r] = flags[r]
      BY <1>0, <3>1 DEF Types
    <3>3. dh'.ref = ref /\ dh'.pc = "put"
      BY <1>0, <2>1, <3>1 DEF Types
    <3>4. \A r \in mapped' : flags'[r] = "busy"
      BY <1>0, <2>2, <2>3, <3>2 DEF Shut, Types
    <3>5. ASSUME NEW r \in Refs, flags'[r] \in Open PROVE MayBeOpen(r)'
      <4>1. r # ref /\ MayBeOpen(r)
        BY <3>2, <3>5 DEF Shut, Open
      <4> QED
        BY <2>1, <2>2, <4>1 DEF MayBeOpen
    <3>6. ASSUME NEW d \in Clients, op'[d].pc = "cas", op'[d].seen = "completed"
          PROVE  flags'[op'[d].ref] \in {"clear", "completed"}
      <4>1. op[d].ref \in Refs /\ flags[op[d].ref] \in {"clear", "completed"}
        BY <1>0, <2>2, <3>6 DEF Shut, InHand, Types
      <4> QED
        BY <2>2, <3>2, <4>1
    <3> QED
      BY <3>3, <3>4, <3>5, <3>6 DEF Shut
  <2>4. CASE flags[ref] # dh.seen
    <3>1. /\ dh' = [dh EXCEPT !.pc = IF flags[ref] = "busy" THEN "keep" ELSE "cas",
                              !.seen = flags[ref]]
          /\ UNCHANGED shared
      BY <1>5, <2>1, <2>2, <2>4 DEF DeferredCas, shared
    <3>2. /\ dh'.ref = ref /\ dh'.seen = flags[ref] /\ dh'.pc \in {"keep", "cas"}
          /\ dh'.pc = "cas" => flags[ref] # "busy"
      BY <1>0, <2>1, <3>1 DEF Types
    <3> QED
      BY <2>1, <2>2, <3>1, <3>2, RunShut
  <2> QED
    BY <2>3, <2>4
<1> QED
  BY <1>1, <1>2, <1>3, <1>4, <1>5 DEF HandlerStep

(* Xen opens and closes only what is already open.                         *)
LEMMA XenShut ==
    ASSUME GInv, Shut, XenStep
    PROVE  Shut'
<1>0. Types /\ UNCHANGED <<held, op, leaked, deferred, dh>>
  BY DEF GInv, XenStep, BackendMaps, BackendUnmaps, BackendTransfers, GnttabResume, defer
<1>1. \A r \in Refs : MayBeOpen(r)' <=> MayBeOpen(r)
  BY <1>0, SameInUse
<1>2. \A d \in Clients : op[d].pc = "cas" => op[d].ref \in Refs
  BY <1>0 DEF GInv, InHand, Types
<1>3. ASSUME NEW ref \in Refs,
             BackendMaps(ref) \/ BackendUnmaps(ref) \/ BackendTransfers(ref)
      PROVE  Shut'
  <2>1. /\ \A r \in mapped' : flags'[r] = "busy"
        /\ \A r \in Refs : flags'[r] \in Open => flags[r] \in Open
        /\ \A r \in Refs : flags[r] \in {"clear", "completed"} => flags'[r] = flags[r]
    <3>1. CASE BackendMaps(ref)
      BY <1>0, <3>1 DEF BackendMaps, Shut, Types, Open
    <3>2. CASE BackendUnmaps(ref)
      BY <1>0, <3>2 DEF BackendUnmaps, Shut, Types, Open
    <3>3. CASE BackendTransfers(ref)
      BY <1>0, <3>3 DEF BackendTransfers, Shut, Types, Open
    <3> QED
      BY <1>3, <3>1, <3>2, <3>3
  <2>2. \A r \in Refs : flags'[r] \in Open => MayBeOpen(r)'
    BY <1>1, <2>1 DEF Shut
  <2>3. \A d \in Clients : op'[d].pc = "cas" /\ op'[d].seen = "completed"
                                => flags'[op'[d].ref] \in {"clear", "completed"}
    BY <1>0, <1>2, <2>1 DEF Shut
  <2> QED
    BY <1>0, <2>1, <2>2, <2>3 DEF Shut
<1>4. CASE GnttabResume
  <2>1. mapped' = {} /\ \A r \in Refs : flags'[r] = "clear"
    BY <1>4 DEF GnttabResume
  <2>2. \A d \in Clients : op'[d].pc = "cas" => flags'[op'[d].ref] = "clear"
    BY <1>0, <1>2, <2>1
  <2> QED
    BY <1>0, <2>1, <2>2 DEF Shut, Open
<1> QED
  BY <1>3, <1>4 DEF XenStep

(* Shut is inductive, given GInv.                                          *)
LEMMA ShutNext ==
    ASSUME GInv, Shut, [Next]_vars
    PROVE  Shut'
<1>1. ASSUME NEW c \in Clients, ClientStep(c) PROVE Shut'
  <2>1. CASE GrantForeignAccess(c)
    BY <2>1, GrantShut
  <2>2. ASSUME NEW how \in {"permit", "accept"} \cap Uses[c], ClaimAndGrant(c, how) PROVE Shut'
    BY <2>2, ClaimShut
  <2>3. ASSUME NEW ref \in Refs, Regrant(c, ref) PROVE Shut'
    BY <2>3, RegrantShut
  <2>4. ASSUME NEW ref \in Refs, NEW dest \in {"pool", "batch"} \cap Uses[c], BeginEnd(c, ref, dest)
        PROVE  Shut'
    BY <2>4, BeginShut
  <2>5. CASE \/ \E n \in 1 .. MaxBatch : AllocGrantReferences(c, n) \/ RequestFreeCallback(c, n)
             \/ FreeGrantReferences(c) \/ CancelFreeCallback(c)
    <3>1. UNCHANGED shared /\ UNCHANGED <<held, op, leaked, deferred, dh>>
      BY <2>5 DEF AllocGrantReferences, RequestFreeCallback, FreeGrantReferences,
                  CancelFreeCallback, defer
    <3>2. \A r \in Refs : MayBeOpen(r)' <=> MayBeOpen(r)
      BY <3>1, SameInUse
    <3> QED
      BY <3>1, <3>2, StaysShut DEF Shut
  <2> QED
    BY <1>1, <2>1, <2>2, <2>3, <2>4, <2>5 DEF ClientStep
<1>2. ASSUME NEW c \in Clients, EndStep(c) PROVE Shut'
  BY <1>2, CasShut, EndsShut DEF EndStep
<1>3. CASE UNCHANGED vars
  <2>1. UNCHANGED shared /\ UNCHANGED <<held, op, leaked, deferred, dh>>
    BY <1>3 DEF vars, defer
  <2>2. \A r \in Refs : MayBeOpen(r)' <=> MayBeOpen(r)
    BY <2>1, SameInUse
  <2> QED
    BY <2>1, <2>2, StaysShut DEF Shut
<1> QED
  BY <1>1, <1>2, <1>3, HandlerShut, XenShut DEF Next

LEMMA AlwaysShut == Spec => [](GInv /\ Shut)
<1>1. Init => Shut
  BY DEF Init, Shut, Open, NoOp, NoRun
<1>2. GInv /\ Shut /\ [Next]_vars => Shut'
  BY ShutNext
<1> QED
  BY <1>1, <1>2, Always, PTL DEF Spec

(* A reference that the free list or a private chain will hand out next is *)
(* closed to the backend and unmapped, however its maps, unmaps and page   *)
(* transfers fall between the read of the flags and the compare and        *)
(* exchange of the driver or of the handler that ends the grant.           *)
THEOREM FreeAreClosed == Spec => []UnownedIsClosed
<1>1. GInv /\ Shut => UnownedIsClosed
  <2> SUFFICES ASSUME GInv, Shut, NEW r \in Free \cup UNION {Chain(priv[c]) : c \in Clients}
               PROVE  flags[r] \notin Open /\ r \notin mapped
    BY DEF UnownedIsClosed
  <2>1. r \in ChainOf(entry, freeHead) \/ \E c \in Clients : r \in ChainOf(entry, priv[c])
    BY DEF Free, Chain, ChainOf
  <2>2. r \in Refs
    <3>1. r \in Usable
      BY <2>1, OnePlace DEF GInv
    <3> QED
      BY <3>1, UsableRefs DEF GInv, Types
  <2>3. ~MayBeOpen(r)
    BY <2>1, <2>2, OutOfUse
  <2> QED
    BY <2>2, <2>3, Closed DEF GInv
<1> QED
  BY <1>1, AlwaysShut, PTL
-----------------------------------------------------------------------------
(* The callbacks that count entries can serve are run, so those that stay  *)
(* queued ask for more.                                                    *)
LEMMA RunWakes ==
    ASSUME Types, NoLostWakeup, NEW list \in SUBSET Clients, waiting \subseteq list,
           NEW want \in [Clients -> Nat], NEW count \in Nat, RunCallbacks(list, want, count),
           freeCount' <= count, freeCount' \in Nat
    PROVE  NoLostWakeup'
<1> DEFINE served == {c \in list : count >= want[c]}
<1>1. /\ waiting' = list \ served
      /\ queued' = [c \in Clients |-> IF c \in served THEN FALSE ELSE c \in list \/ queued[c]]
      /\ need' = [c \in Clients |-> IF c \in served THEN 0 ELSE want[c]]
  BY DEF RunCallbacks
<1>2. ASSUME NEW c \in list \ served PROVE freeCount' < need'[c]
  BY <1>1, <1>2
<1> HIDE DEF served
<1>3. ASSUME NEW c \in Clients PROVE queued'[c] <=> c \in waiting'
  <2>1. queued[c] => c \in list
    BY DEF NoLostWakeup
  <2>2. queued'[c] = IF c \in served THEN FALSE ELSE c \in list \/ queued[c]
    BY <1>1, Zenon
  <2> QED
    BY <1>1, <2>1, <2>2, Zenon
<1> QED
  BY <1>1, <1>2, <1>3 DEF NoLostWakeup

(* Fewer free entries wake nobody.                                         *)
LEMMA StaysWoken ==
    ASSUME Types, NoLostWakeup, UNCHANGED cbs, freeCount' <= freeCount, freeCount' \in Nat
    PROVE  NoLostWakeup'
<1>1. UNCHANGED <<waiting, queued, need>>
  BY DEF cbs
<1>2. ASSUME NEW c \in Clients, queued[c] PROVE freeCount' < need[c]
  BY <1>2 DEF NoLostWakeup, Types
<1> QED
  BY <1>1, <1>2 DEF NoLostWakeup

(* Callbacks run before the entries are taken, for more than is left.      *)
LEMMA TakingWakes ==
    ASSUME GInv, NoLostWakeup, NEW n \in Nat \ {0}, NEW ref, GetFreeEntries(n, ref)
    PROVE  NoLostWakeup'
<1>1. Types /\ freeCount' \in Nat
  BY TakenAlone DEF GInv
<1>2. CASE freeCount' = freeCount - n /\ UNCHANGED cbs
  <2>1. freeCount' <= freeCount
    BY <1>1, <1>2 DEF Types
  <2> QED
    BY <1>1, <1>2, <2>1, StaysWoken
<1>3. CASE \E count : freeCount' = count - n /\ RunCallbacks(waiting, need, count) /\ count \in Int
  <2>1. PICK count \in Int : freeCount' = count - n /\ RunCallbacks(waiting, need, count)
    BY <1>3
  <2>2. count \in Nat /\ freeCount' <= count
    BY <1>1, <2>1
  <2>3. waiting \in SUBSET Clients /\ need \in [Clients -> Nat]
    BY <1>1 DEF Types
  <2> QED
    BY <1>1, <2>1, <2>2, <2>3, RunWakes
<1>4. CASE \E x \in Int : /\ Detach(Grown(x), EntriesPerFrame * nrFrames,
                                   freeCount + x * EntriesPerFrame, n, ref)
                         /\ RunCallbacks(waiting, need, freeCount + x * EntriesPerFrame)
  <2>1. PICK x \in Int : /\ Detach(Grown(x), EntriesPerFrame * nrFrames,
                                   freeCount + x * EntriesPerFrame, n, ref)
                         /\ RunCallbacks(waiting, need, freeCount + x * EntriesPerFrame)
    BY <1>4
  <2>2. PICK count \in Int : count = freeCount + x * EntriesPerFrame
    BY <1>1 DEF Types, TableAssumption
  <2>3. freeCount' = count - n
    BY <2>1, <2>2 DEF Detach
  <2> QED
    BY <1>3, <2>1, <2>2, <2>3
<1> QED
  <2>1. ExtraFrames(n) \in Int
    BY <1>1, TableAssumption DEF Types, ExtraFrames
  <2>2. \/ freeCount' = freeCount - n /\ UNCHANGED cbs
        \/ /\ Detach(Grown(ExtraFrames(n)), EntriesPerFrame * nrFrames,
                     freeCount + ExtraFrames(n) * EntriesPerFrame, n, ref)
           /\ RunCallbacks(waiting, need, freeCount + ExtraFrames(n) * EntriesPerFrame)
    BY DEF GetFreeEntries, Detach
  <2> QED
    BY <1>2, <1>4, <2>1, <2>2

LEMMA PuttingWakes ==
    ASSUME Types, NoLostWakeup, NEW ref, PutFreeEntry(ref)
    PROVE  NoLostWakeup'
<1>1. PICK count \in Nat : count = freeCount + 1
  BY DEF Types
<1>2. freeCount' = count /\ RunCallbacks(waiting, need, count)
  BY <1>1 DEF PutFreeEntry
<1>3. waiting \in SUBSET Clients /\ need \in [Clients -> Nat] /\ freeCount' <= count
  BY <1>2 DEF Types
<1> QED
  BY <1>2, <1>3, RunWakes

(* NoLostWakeup is inductive, given GInv.                                  *)
LEMMA WokenNext ==
    ASSUME GInv, NoLostWakeup, [Next]_vars
    PROVE  NoLostWakeup'
<1>0. /\ Types /\ freeCount \in Nat /\ waiting \in SUBSET Clients /\ need \in [Clients -> Nat]
      /\ freeCount <= freeCount
  BY DEF GInv, Types
<1>1. ASSUME UNCHANGED <<freeCount, cbs>> PROVE NoLostWakeup'
  BY <1>0, <1>1, StaysWoken
<1>2. ASSUME NEW c \in Clients, ClientStep(c) PROVE NoLostWakeup'
  <2>1. CASE GrantForeignAccess(c)
    <3>1. PICK ref \in Refs : GetFreeEntries(1, ref)
      BY <2>1 DEF GrantForeignAccess
    <3>2. 1 \in Nat \ {0}
      OBVIOUS
    <3> QED
      BY <3>1, <3>2, TakingWakes
  <2>2. ASSUME NEW n \in 1 .. MaxBatch, AllocGrantReferences(c, n) PROVE NoLostWakeup'
    <3>1. PICK ref \in Refs : GetFreeEntries(n, ref)
      BY <2>2 DEF AllocGrantReferences
    <3>2. n \in Nat \ {0}
      OBVIOUS
    <3> QED
      BY <3>1, <3>2, TakingWakes
  <2>3. CASE FreeGrantReferences(c)
    <3>1. PICK n \in 1 .. Cardinality(Refs) :
              freeCount' = freeCount + n /\ RunCallbacks(waiting, need, freeCount + n)
      BY <2>3 DEF FreeGrantReferences
    <3>2. n \in Nat
      OBVIOUS
    <3>3. PICK count \in Nat : count = freeCount + n
      BY <1>0, <3>2
    <3>4. freeCount' = count /\ RunCallbacks(waiting, need, count) /\ count <= count
      BY <3>1, <3>3
    <3> QED
      BY <1>0, <3>4, RunWakes
  <2>4. ASSUME NEW n \in 1 .. MaxBatch, RequestFreeCallback(c, n) PROVE NoLostWakeup'
    <3>1. PICK want : want = [need EXCEPT ![c] = n]
      OBVIOUS
    <3>2. want \in [Clients -> Nat]
      BY <1>0, <3>1
    <3>3. PICK list \in SUBSET Clients : list = waiting \cup {c}
      BY <1>0
    <3>4. RunCallbacks(list, want, freeCount) /\ freeCount' = freeCount /\ waiting \subseteq list
      BY <2>4, <3>1, <3>3 DEF RequestFreeCallback, pool
    <3> QED
      BY <1>0, <3>2, <3>4, RunWakes
  <2>5. CASE CancelFreeCallback(c)
    <3>1. /\ waiting' = waiting \ {c} /\ queued' = [queued EXCEPT ![c] = FALSE]
          /\ need' = [need EXCEPT ![c] = 0] /\ freeCount' = freeCount
      BY <2>5 DEF CancelFreeCallback, pool
    <3>2. ~queued'[c] /\ \A d \in Clients : d # c => queued'[d] = queued[d]
      BY <1>0, <3>1, Zenon DEF Types
    <3>3. \A d \in Clients : d # c => need'[d] = need[d]
      BY <1>0, <3>1
    <3> QED
      BY <3>1, <3>2, <3>3 DEF NoLostWakeup
  <2>6. CASE \/ \E how \in {"permit", "accept"} \cap Uses[c] : ClaimAndGrant(c, how)
             \/ \E ref \in Refs : Regrant(c, ref)
             \/ \E ref \in Refs, dest \in {"pool", "batch"} \cap Uses[c] : BeginEnd(c, ref, dest)
    BY <1>1, <2>6 DEF ClaimAndGrant, Regrant, BeginEnd, pool
  <2> QED
    BY <1>2, <2>1, <2>2, <2>3, <2>4, <2>5, <2>6, Zenon DEF ClientStep
<1>3. ASSUME NEW c \in Clients, EndStep(c) PROVE NoLostWakeup'
  <2>1. CASE PutToPool(c)
    BY <1>0, <2>1, PuttingWakes DEF PutToPool
  <2>2. CASE ~PutToPool(c)
    BY <1>1, <1>3, <2>2 DEF EndStep, CasClear, CasRetry, TransferDone, AddDeferred, StillInUse,
                            ReleaseGrantReference, pool
  <2> QED
    BY <2>1, <2>2
<1>4. CASE HandlerStep
  <2>1. CASE DeferredPut
    BY <1>0, <2>1, PuttingWakes DEF DeferredPut
  <2>2. CASE ~DeferredPut
    BY <1>1, <1>4, <2>2 DEF HandlerStep, TimerExpires, DeferredCas, DeferredNext, DeferredKeep, pool
  <2> QED
    BY <2>1, <2>2
<1>5. CASE XenStep \/ UNCHANGED vars
  BY <1>1, <1>5 DEF XenStep, BackendMaps, BackendUnmaps, BackendTransfers, GnttabResume, vars, pool
<1> QED
  BY <1>2, <1>3, <1>4, <1>5, Zenon DEF Next

(* No wakeup is lost: a driver stays on gnttab_free_callback_list only     *)
(* while there are fewer free entries than it asked for, whether entries   *)
(* come back one at a time, as a chain, or with new frames of the table,   *)
(* and it is on the list just when its callback says so.                   *)
THEOREM WaitersAreWoken == Spec => []NoLostWakeup
<1>1. Init => NoLostWakeup
  <2> SUFFICES ASSUME Init PROVE NoLostWakeup
    OBVIOUS
  <2>1. waiting = {} /\ queued = [c \in Clients |-> FALSE]
    BY DEF Init
  <2>2. \A c \in Clients : ~queued[c]
    BY <2>1, Zenon
  <2> QED
    BY <2>1, <2>2 DEF NoLostWakeup
<1>2. GInv /\ NoLostWakeup /\ [Next]_vars => NoLostWakeup'
  BY WokenNext
<1> QED
  BY <1>1, <1>2, Always, PTL DEF Spec
-----------------------------------------------------------------------------
(* The balloon, of every size, with any number of users and of requests,   *)
(* racing ones included.                                                   *)
B == INSTANCE Balloon

(* The invariant is NotForgotten with what keeps the guest above its       *)
(* minimum: no target below it is ever set or about to be set, and the     *)
(* batch that the loop is about to move does not go below it either.       *)
Low == B!Least(Floor, Total)

Above ==
    /\ target_pages >= Low
    /\ \A s \in B!Setters : set[s].at = "target" => set[s].pages >= Low
    /\ at = "move" => current_pages + credit >= Low

BInv == B!NotForgotten /\ Above

USE BalloonAssumption

(* The minimum of the guest.                                               *)
LEMMA LowType == Low \in Nat /\ Low <= Total /\ Low <= Floor
BY DEF Low, B!Least

(* What is aimed for is within reach and above the minimum.                *)
LEMMA TargetType ==
    ASSUME B!BalloonTypes, B!Accounted, Above
    PROVE  /\ B!current_target \in 0 .. Total /\ B!current_target >= Low
           /\ B!balloon_minimum_target \in Nat /\ B!balloon_minimum_target >= Low
BY LowType DEF B!BalloonTypes, B!Accounted, Above, B!current_target,
   B!balloon_minimum_target, B!Least, Low

LEMMA InitBInv == B!Init => BInv
<1> SUFFICES ASSUME B!Init PROVE BInv
  OBVIOUS
<1>1. B!NoSet \in [at : {"none", "minimum", "target", "flag", "schedule"}, new : Nat,
                      pages : Nat]
  BY DEF B!NoSet
<1>2. set \in [B!Setters -> [at : {"none", "minimum", "target", "flag", "schedule"},
                         new : Nat, pages : Nat]]
  BY <1>1 DEF B!Init
<1>3. B!BalloonTypes
  <2>1. node \in Nat /\ events \in Nat /\ uvp \in {0, 1}
    BY DEF B!Init
  <2>2. target_pages \in Nat /\ flag \in BOOLEAN /\ work \in BOOLEAN
    BY DEF B!Init
  <2>3. /\ current_pages \in 0 .. Total /\ ballooned \in 0 .. Total /\ reserved \in 0 .. Total
        /\ credit \in -Total .. Total /\ writes \in 0 .. Writes /\ failures \in 0 .. Failures
    BY DEF B!Init
  <2> QED
    BY <1>2, <2>1, <2>2, <2>3 DEF B!Init, B!BalloonTypes
<1>4. B!Accounted /\ B!Bounded /\ Above
  BY LowType DEF B!Init, B!Accounted, B!Bounded, Above, Low, B!NoSet
<1>5. B!NotForgotten
  BY <1>3, <1>4 DEF B!Init, B!NotForgotten
<1> QED
  BY <1>4, <1>5 DEF BInv

(* A step of a caller of balloon_set_new_target leaves the loop alone.     *)
LEMMA AskStep ==
    ASSUME BInv, NEW s \in B!Setters, NEW n \in Nat, B!Asked(s, n),
           events' \in Nat, node' \in Nat, writes' \in 0 .. Writes,
           UNCHANGED <<B!pages, uvp, at, credit, failures>>
    PROVE  BInv'
<1>1. /\ set' = [set EXCEPT ![s] = [at |-> "minimum", new |-> n, pages |-> 0]]
      /\ UNCHANGED <<target_pages, flag, work, current_pages, ballooned, reserved>>
  BY DEF B!Asked, B!pages
<1>2. B!BalloonTypes'
  BY <1>1 DEF BInv, B!NotForgotten, B!BalloonTypes
<1>3. B!Accounted' /\ B!Bounded'
  BY <1>1 DEF BInv, B!NotForgotten, B!Accounted, B!Bounded
<1>4. Above'
  BY <1>1 DEF BInv, B!NotForgotten, B!BalloonTypes, Above
<1>5. set'[s] # B!NoSet
  BY <1>1 DEF BInv, B!NotForgotten, B!BalloonTypes, B!NoSet
<1> QED
  BY <1>2, <1>3, <1>4, <1>5 DEF BInv, B!NotForgotten

LEMMA SetterStep ==
    ASSUME BInv, NEW s \in B!Setters, B!SetStep(s)
    PROVE  BInv'
<1> USE DEF BInv, B!NotForgotten
<1>0. /\ set' \in [B!Setters -> [at : {"none", "minimum", "target", "flag", "schedule"},
                              new : Nat, pages : Nat]]
      /\ set[s].at # "none"
      /\ UNCHANGED <<B!pages, B!store, at, credit, B!bounds>>
  <2>1. CASE B!TakesMinimum(s)
    BY <2>1, TargetType, ZenonT(60) DEF B!TakesMinimum, B!BalloonTypes, B!Greatest
  <2>2. CASE B!SetsTarget(s)
    BY <2>2 DEF B!SetsTarget, B!BalloonTypes
  <2>3. CASE B!SetsFlag(s)
    BY <2>3 DEF B!SetsFlag, B!BalloonTypes
  <2>4. CASE B!Schedules(s)
    BY <2>4 DEF B!Schedules, B!BalloonTypes, B!NoSet
  <2> QED
    BY <2>1, <2>2, <2>3, <2>4 DEF B!SetStep
<1>1. target_pages' \in Nat /\ flag' \in BOOLEAN /\ work' \in BOOLEAN
  BY DEF B!SetStep, B!TakesMinimum, B!SetsTarget, B!SetsFlag, B!Schedules, B!BalloonTypes
<1>2. B!BalloonTypes'
  BY <1>0, <1>1 DEF B!BalloonTypes, B!pages, B!store, B!bounds
<1>3. B!Accounted' /\ B!Bounded'
  BY <1>0 DEF B!Accounted, B!Bounded, B!pages, B!store
<1>4. target_pages' >= Low
  BY DEF B!SetStep, B!TakesMinimum, B!SetsTarget, B!SetsFlag, B!Schedules, Above, B!BalloonTypes
<1>5. ASSUME NEW t \in B!Setters, set'[t].at = "target"
      PROVE  set'[t].pages >= Low
  <2>1. CASE B!TakesMinimum(s)
    BY <1>5, <2>1, TargetType, LowType DEF B!TakesMinimum, B!BalloonTypes, B!Greatest, Above
  <2>2. CASE B!SetsTarget(s)
    BY <1>5, <2>2 DEF B!SetsTarget, B!BalloonTypes, Above
  <2>3. CASE B!SetsFlag(s)
    BY <1>5, <2>3 DEF B!SetsFlag, B!BalloonTypes, Above
  <2>4. CASE B!Schedules(s)
    BY <1>5, <2>4 DEF B!Schedules, B!BalloonTypes, Above, B!NoSet
  <2> QED
    BY <2>1, <2>2, <2>3, <2>4 DEF B!SetStep
<1>6. Above'
  BY <1>0, <1>4, <1>5 DEF Above, B!pages
<1>7. work' \/ set'[s] # B!NoSet
  BY <1>0 DEF B!SetStep, B!TakesMinimum, B!SetsTarget, B!SetsFlag, B!Schedules,
     B!BalloonTypes, B!NoSet
<1> QED
  BY <1>2, <1>3, <1>6, <1>7

(* The steps of the loop that move no page.                                *)
LEMMA LoopStep ==
    ASSUME BInv, B!Starts \/ B!Announces \/ B!TakesCredit \/ B!Checks \/ B!WritesTarget \/
       B!Retracts
    PROVE  BInv'
<1> USE DEF BInv, B!NotForgotten
<1>1. UNCHANGED <<target_pages, flag, set, B!pages, B!bounds>>
  BY DEF B!Starts, B!Announces, B!TakesCredit, B!Checks, B!WritesTarget, B!Retracts,
     B!request, B!store
<1>2. B!current_target' = B!current_target
  BY <1>1 DEF B!current_target, B!pages
<1>3. credit' \in -Total .. Total
  BY TargetType DEF B!Starts, B!Announces, B!TakesCredit, B!Checks, B!WritesTarget,
     B!Retracts, B!BalloonTypes
<1>4. node' \in Nat /\ events' \in Nat
  BY DEF B!Starts, B!Announces, B!TakesCredit, B!Checks, B!WritesTarget, B!Retracts,
     B!BalloonTypes, B!store
<1>5. /\ uvp' \in {0, 1} /\ work' \in BOOLEAN
      /\ at' \in {"idle", "announce", "credit", "move", "check", "write", "retract"}
  BY DEF B!Starts, B!Announces, B!TakesCredit, B!Checks, B!WritesTarget, B!Retracts,
     B!BalloonTypes, B!store, B!request
<1>6. B!BalloonTypes'
  BY <1>1, <1>3, <1>4, <1>5 DEF B!BalloonTypes, B!pages, B!bounds
<1>7. B!Accounted' /\ B!Bounded' /\ Above'
  BY <1>1, TargetType DEF B!Starts, B!Announces, B!TakesCredit, B!Checks, B!WritesTarget,
     B!Retracts, B!BalloonTypes,
     B!Accounted, B!Bounded, Above, B!pages, B!store
<1>8. B!NotForgotten'
  BY <1>1, <1>2, <1>6, <1>7 DEF B!Starts, B!Announces, B!TakesCredit, B!Checks,
     B!WritesTarget, B!Retracts,
     B!BalloonTypes, B!pages, B!request, B!store
<1> QED
  BY <1>7, <1>8

(* A batch, of which k pages are moved in the direction of credit.         *)
LEMMA MoveStep ==
    ASSUME BInv, B!Increase \/ B!Decrease
    PROVE  BInv'
<1> USE DEF BInv, B!NotForgotten
<1>1. PICK k \in -Total .. Total :
         /\ at = "move" /\ at' \in {"credit", "check"}
         /\ failures' \in 0 .. Failures
         /\ credit > 0 => k >= 0 /\ k <= credit /\ k <= ballooned
         /\ credit < 0 => k <= 0 /\ k >= credit
         /\ credit # 0
         /\ current_pages' = current_pages + k
         /\ reserved' = reserved + k
         /\ ballooned' = ballooned - k
         /\ UNCHANGED <<B!request, B!store, credit, writes>>
  <2>1. CASE B!Increase
    BY <2>1 DEF B!Increase, B!Gets, B!Least, B!BalloonTypes
  <2>2. CASE B!Decrease
    <3>1. PICK k \in 0 .. B!Least(-credit, Batch) :
             /\ B!Gets(B!Least(-credit, Batch), k)
             /\ ballooned' = ballooned + k
             /\ reserved' = reserved - k
             /\ current_pages' = current_pages - k
      BY <2>2 DEF B!Decrease
    <3>2. k \in 0 .. Total /\ k <= -credit /\ -k \in -Total .. Total
      BY <2>2, <3>1 DEF B!Decrease, B!Least, B!BalloonTypes
    <3>3. /\ ballooned' = ballooned - (-k)
          /\ reserved' = reserved + (-k)
          /\ current_pages' = current_pages + (-k)
      BY <3>1, <3>2 DEF B!BalloonTypes
    <3> QED
      BY <2>2, <3>1, <3>2, <3>3 DEF B!Decrease, B!Gets, B!BalloonTypes
  <2> QED
    BY <2>1, <2>2
<1>2. B!Accounted' /\ B!Bounded' /\ Above'
  BY <1>1, LowType DEF B!BalloonTypes, B!Accounted, B!Bounded, Above, Low, B!request, B!store
<1>3. B!BalloonTypes'
  BY <1>1 DEF B!BalloonTypes, B!Accounted, B!request, B!store
<1> QED
  BY <1>1, <1>2, <1>3

(* BInv is inductive.                                                      *)
LEMMA BInvNext == BInv /\ [B!Next]_(B!vars) => BInv'
<1> SUFFICES ASSUME BInv, [B!Next]_(B!vars) PROVE BInv'
  OBVIOUS
<1>1. ASSUME NEW n \in Targets, B!HostAsks(n) PROVE BInv'
  BY <1>1 DEF B!HostAsks, BInv, B!NotForgotten, B!BalloonTypes, B!Accounted, B!Bounded,
     Above, B!current_target, B!request, B!pages
<1>2. ASSUME NEW n \in Targets, NEW u \in Users, B!UserAsks(u, n) PROVE BInv'
  BY <1>2, AskStep DEF B!UserAsks, B!Setters, BInv, B!NotForgotten, B!BalloonTypes, B!store
<1>3. CASE B!WatchTarget
  BY <1>3, AskStep DEF B!WatchTarget, B!Setters, BInv, B!NotForgotten, B!BalloonTypes, B!bounds
<1>4. ASSUME NEW s \in B!Setters, B!SetStep(s) PROVE BInv'
  BY <1>4, SetterStep
<1>5. CASE B!BalloonProcess
  BY <1>5, LoopStep, MoveStep DEF B!BalloonProcess
<1>6. CASE UNCHANGED B!vars
  BY <1>6 DEF B!vars, B!request, B!pages, B!store, B!bounds, BInv, B!NotForgotten,
     B!BalloonTypes, B!Accounted, B!Bounded,
     Above, B!current_target
<1> QED
  BY <1>1, <1>2, <1>3, <1>4, <1>5, <1>6 DEF B!Next

(* The invariants of BalloonState are those of B!.                         *)
LEMMA SameState ==
    (B!NotForgotten => NotForgotten) /\ (B!Bounded => Bounded)
BY DEF B!NotForgotten, B!BalloonTypes, B!Accounted, B!Bounded, B!current_target, B!Least,
       B!Setters, B!NoSet, NotForgotten, BalloonTypes, Accounted, Bounded, current_target,
       Least, Setters, NoSet

LEMMA AlwaysBInv == B!Spec => []BInv
BY InitBInv, BInvNext, PTL DEF B!Spec

(* balloon.c:455, "No need for lock": whatever requests meet, no change of *)
(* the target is forgotten, the books agree with Xen's, and the loop never *)
(* finds fewer ballooned pages than it is going to give back.              *)
THEOREM NoneForgotten == B!Spec => []NotForgotten
<1>1. BInv => NotForgotten
  BY SameState DEF BInv
<1> QED
  BY <1>1, AlwaysBInv, PTL

(* balloon_minimum_target: no order of requests and batches takes the      *)
(* guest below its minimum.                                                *)
THEOREM NeverBelowMinimum == B!Spec => []Bounded
<1>1. BInv => Bounded
  BY SameState DEF BInv, B!NotForgotten
<1> QED
  BY <1>1, AlwaysBInv, PTL
=============================================================================
