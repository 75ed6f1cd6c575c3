--------------------------- MODULE BlkfrontProofs ---------------------------
(***************************************************************************)
(* Proofs about Blkfront.                                                  *)
(***************************************************************************)
EXTENDS Blkfront, TLAPS, FiniteSetTheorems, SequenceTheorems, WellFoundedInduction

-----------------------------------------------------------------------------
(* Finite sets of natural numbers.                                         *)

(* The smallest element.                                                   *)
LEMMA Smallest ==
    ASSUME NEW T, T \subseteq Nat, T # {}
    PROVE  \E n \in T : \A m \in T : n <= m
<1>1. PICK x \in T : \A y \in T : ~(<<y, x>> \in OpToRel(<,Nat))
  BY NatLessThanWellFounded, WFMin, Zenon
<1>2. ASSUME NEW y \in T, y < x PROVE <<y, x>> \in OpToRel(<,Nat)
  <2> DEFINE p == <<y, x>>
  <2>1. p \in Nat \X Nat /\ p[1] < p[2]
    BY <1>2, SMT
  <2>2. p \in {ss \in Nat \X Nat : ss[1] < ss[2]}
    BY <2>1
  <2> QED BY <2>2, Zenon DEF OpToRel
<1>3. \A y \in T : ~(y < x)
  BY <1>1, <1>2, Zenon
<1>4. \A y \in T : x <= y
  BY <1>3, SMT
<1> QED BY <1>4

(* The largest of a list, by the shortest list that has none.              *)
LEMMA LargestOfList ==
    ASSUME NEW n \in Nat, n > 0, NEW f \in [1 .. n -> Nat]
    PROVE  \E m \in 1 .. n : \A k \in 1 .. n : f[k] <= f[m]
<1> DEFINE Fails(g, l) == \A m \in 1 .. l : \E k \in 1 .. l : ~(g[k] <= g[m])
           T == {l \in Nat : l > 0 /\ \E g \in [1 .. l -> Nat] : Fails(g, l)}
<1>1. SUFFICES ASSUME T # {} PROVE FALSE
  OBVIOUS
<1>2. T \subseteq Nat
  OBVIOUS
<1>3. PICK l \in T : \A j \in T : l <= j
  BY <1>1, <1>2, Smallest
<1>4. PICK g \in [1 .. l -> Nat] : Fails(g, l)
  OBVIOUS
<1>5. l \in Nat /\ l > 0
  OBVIOUS
<1> HIDE DEF T
<1>6. l # 1
  <2>1. SUFFICES ASSUME l = 1 PROVE FALSE
    OBVIOUS
  <2>2. PICK k \in 1 .. 1 : ~(g[k] <= g[1])
    BY <1>4, <2>1
  <2>3. k = 1 /\ g[1] \in Nat
    BY <2>1
  <2> QED BY <2>2, <2>3
<1>7. [i \in 1 .. l - 1 |-> g[i]] \in [1 .. l - 1 -> Nat] /\ l - 1 \in Nat /\ l - 1 > 0
  BY <1>5, <1>6
<1>8. ~Fails([i \in 1 .. l - 1 |-> g[i]], l - 1)
  <2>1. l - 1 \notin T
    <3>1. ~(l <= l - 1)
      BY <1>5
    <3> QED BY <1>3, <3>1
  <2> QED BY <2>1, <1>7 DEF T
<1>9. PICK m \in 1 .. l - 1 : \A k \in 1 .. l - 1 : g[k] <= g[m]
  BY <1>8
<1>10. m \in 1 .. l /\ l \in 1 .. l /\ \A k \in 1 .. l : k \in 1 .. l - 1 \/ k = l
  BY <1>5
<1>11. g[m] \in Nat /\ g[l] \in Nat /\ \A k \in 1 .. l : g[k] \in Nat
  BY <1>10
<1>12. CASE g[l] <= g[m]
  BY <1>4, <1>9, <1>10, <1>12
<1>13. CASE g[m] <= g[l]
  <2>1. \A k \in 1 .. l : g[k] <= g[l]
    <3> SUFFICES ASSUME NEW k \in 1 .. l PROVE g[k] <= g[l]
      OBVIOUS
    <3>1. CASE k \in 1 .. l - 1
      <4>1. g[k] <= g[m] /\ g[k] \in Nat
        BY <1>9, <1>11, <3>1
      <4> QED BY <4>1, <1>11, <1>13
    <3>2. CASE k = l
      BY <3>2, <1>11
    <3> QED BY <1>10, <3>1, <3>2
  <2> QED BY <1>4, <1>10, <2>1
<1>14. g[l] <= g[m] \/ g[m] <= g[l]
  BY <1>11
<1> QED BY <1>12, <1>13, <1>14

LEMMA TopIs ==
    ASSUME NEW S, S \subseteq Nat, IsFiniteSet(S), S # {}
    PROVE  Top(S) \in S /\ \A k \in S : k <= Top(S)
<1>1. PICK n \in Nat : ExistsBijection(1 .. n, S)
  BY FS_NatBijection
<1>2. PICK f : f \in Bijection(1 .. n, S)
  BY <1>1 DEF ExistsBijection
<1>3. f \in [1 .. n -> S] /\ \A x \in S : \E k \in 1 .. n : f[k] = x
  BY <1>2 DEF Bijection, Surjection
<1>4. n > 0
  <2>1. PICK x \in S : TRUE
    OBVIOUS
  <2>2. PICK k \in 1 .. n : f[k] = x
    BY <1>3, <2>1
  <2> QED BY <2>2
<1>5. f \in [1 .. n -> Nat]
  BY <1>3
<1>6. PICK m \in 1 .. n : \A k \in 1 .. n : f[k] <= f[m]
  BY <1>4, <1>5, LargestOfList
<1>7. f[m] \in S /\ \A x \in S : x <= f[m]
  BY <1>3, <1>6
<1> QED BY <1>7 DEF Top

LEMMA Sizes ==
    /\ MaxChunks \in Nat /\ MaxChunks > 0 /\ \A r \in Reqs : Chunks[r] \in 1 .. MaxChunks
    /\ MaxRing \in Nat /\ MaxRing > 0 /\ \A b \in Backends : b.ring \in 1 .. MaxRing
<1>1. MaxChunks \in Nat /\ MaxChunks > 0 /\ \A r \in Reqs : Chunks[r] \in 1 .. MaxChunks
  <2> DEFINE S == {Chunks[r] : r \in Reqs}
             f == [r \in Reqs |-> Chunks[r]]
  <2>1. S \subseteq Nat /\ S # {} /\ \A c \in S : c > 0
    BY BlkAssumption
  <2>2. f \in Surjection(Reqs, S)
    BY DEF Surjection
  <2>3. IsFiniteSet(S)
    BY <2>2, FS_Surjection, BlkAssumption
  <2>4. MaxChunks \in S /\ \A c \in S : c <= MaxChunks
    BY <2>1, <2>3, TopIs DEF MaxChunks
  <2> QED BY <2>1, <2>4
<1>2. MaxRing \in Nat /\ MaxRing > 0 /\ \A b \in Backends : b.ring \in 1 .. MaxRing
  <2> DEFINE S == {b.ring : b \in Backends}
             f == [b \in Backends |-> b.ring]
  <2>1. S \subseteq Nat /\ S # {} /\ \A c \in S : c > 0
    BY BlkAssumption
  <2>2. f \in Surjection(Backends, S)
    BY DEF Surjection
  <2>3. IsFiniteSet(S)
    BY <2>2, FS_Surjection, BlkAssumption
  <2>4. MaxRing \in S /\ \A c \in S : c <= MaxRing
    BY <2>1, <2>3, TopIs DEF MaxRing
  <2> QED BY <2>1, <2>4
<1> QED BY <1>1, <1>2

-----------------------------------------------------------------------------
(* Sequences by what is in them: their elements, the ids and the requests  *)
(* of the elements, and that none of these is there twice.                 *)

IsSeq(s)  == s \in Seq(ToSet(s))
IdsOf(s)  == {s[k].id : k \in DOMAIN s}
ReqsOf(s) == {s[k].req : k \in DOMAIN s}

Once(s)    == \A j, k \in DOMAIN s : s[j] = s[k] => j = k
OnceId(s)  == \A j, k \in DOMAIN s : s[j].id = s[k].id => j = k
OnceReq(s) == \A j, k \in DOMAIN s : s[j].req = s[k].req => j = k

LEMMA SeqIs ==
    ASSUME NEW s, IsSeq(s)
    PROVE  Len(s) \in Nat /\ DOMAIN s = 1 .. Len(s)
BY LenProperties DEF IsSeq

LEMMA SeqOver ==
    ASSUME NEW S, NEW s \in Seq(S)
    PROVE  IsSeq(s)
<1>1. Len(s) \in Nat /\ DOMAIN s = 1 .. Len(s) /\ s \in [1 .. Len(s) -> S]
  BY LenProperties
<1>2. s \in [1 .. Len(s) -> ToSet(s)]
  BY <1>1 DEF ToSet
<1> QED BY <1>1, <1>2, SeqDef DEF IsSeq

LEMMA SeqIn ==
    ASSUME NEW s, IsSeq(s), NEW S, \A k \in DOMAIN s : s[k] \in S
    PROVE  s \in Seq(S)
<1>1. ToSet(s) \subseteq S
  BY DEF ToSet
<1> QED BY <1>1, SeqMonotonic DEF IsSeq

LEMMA EmptyIs ==
    /\ IsSeq(<<>>) /\ DOMAIN <<>> = {} /\ Len(<<>>) = 0
    /\ ToSet(<<>>) = {} /\ IdsOf(<<>>) = {} /\ ReqsOf(<<>>) = {}
    /\ Once(<<>>) /\ OnceId(<<>>) /\ OnceReq(<<>>)
<1>1. <<>> \in Seq({}) /\ Len(<<>>) = 0
  BY EmptySeq
<1>2. DOMAIN <<>> = {}
  OBVIOUS
<1>3. IsSeq(<<>>)
  BY <1>1, SeqOver
<1> QED BY <1>1, <1>2, <1>3 DEF ToSet, IdsOf, ReqsOf, Once, OnceId, OnceReq

LEMMA NonEmptyIs ==
    ASSUME NEW s, IsSeq(s)
    PROVE  /\ s # <<>> <=> Len(s) > 0
           /\ s # <<>> => 1 \in DOMAIN s /\ Head(s) = s[1] /\ Len(s) \in DOMAIN s
<1>1. Len(s) \in Nat /\ DOMAIN s = 1 .. Len(s)
  BY SeqIs
<1>2. s # <<>> => Len(s) # 0
  BY EmptySeq DEF IsSeq
<1>3. s = <<>> => Len(s) = 0
  BY EmptySeq
<1>4. s # <<>> => Head(s) = s[1]
  BY <1>1 DEF IsSeq
<1> QED BY <1>1, <1>2, <1>3, <1>4

(* t is s with e at the end.                                               *)
Longer(t, s, e) ==
    /\ IsSeq(t) /\ t # <<>>
    /\ Len(t) = Len(s) + 1 /\ DOMAIN t = 1 .. Len(s) + 1
    /\ t[Len(s) + 1] = e /\ \A k \in 1 .. Len(s) : t[k] = s[k]

(* What e adds to what is in s.                                            *)
WithOne(t, s, e) ==
    /\ ToSet(t) = ToSet(s) \cup {e}
    /\ IdsOf(t) = IdsOf(s) \cup {e.id}
    /\ ReqsOf(t) = ReqsOf(s) \cup {e.req}
    /\ Once(s) /\ e \notin ToSet(s) => Once(t)
    /\ OnceId(s) /\ e.id \notin IdsOf(s) => OnceId(t)
    /\ OnceReq(s) /\ e.req \notin ReqsOf(s) => OnceReq(t)

LEMMA AppendElements ==
    ASSUME NEW s, IsSeq(s), NEW e
    PROVE  Longer(Append(s, e), s, e)
<1> DEFINE S == ToSet(s) \cup {e}
           t == Append(s, e)
<1>1. s \in Seq(S)
  BY SeqMonotonic DEF IsSeq
<1>2. e \in S
  OBVIOUS
<1> HIDE DEF S
<1>3. /\ t \in Seq(S) /\ t # <<>> /\ Len(t) = Len(s) + 1
      /\ t[Len(s) + 1] = e /\ \A k \in 1 .. Len(s) : t[k] = s[k]
  BY <1>1, <1>2, AppendProperties
<1>4. IsSeq(t)
  BY <1>3, SeqOver
<1> HIDE DEF t
<1>5. DOMAIN t = 1 .. Len(t)
  BY <1>4, SeqIs
<1>6. Longer(t, s, e)
  BY <1>3, <1>4, <1>5 DEF Longer
<1> QED BY <1>6 DEF t

LEMMA AppendIs ==
    ASSUME NEW s, IsSeq(s), NEW e
    PROVE  Longer(Append(s, e), s, e) /\ WithOne(Append(s, e), s, e)
<1> DEFINE t == Append(s, e)
<1>0. Longer(t, s, e)
  BY AppendElements
<1> HIDE DEF t
<1>1. /\ IsSeq(t) /\ t # <<>>
      /\ Len(t) = Len(s) + 1 /\ DOMAIN t = 1 .. Len(s) + 1
      /\ t[Len(s) + 1] = e /\ \A k \in 1 .. Len(s) : t[k] = s[k]
  BY <1>0 DEF Longer
<1>2. Len(s) \in Nat /\ DOMAIN s = 1 .. Len(s)
  BY SeqIs
<1>3. /\ DOMAIN t = DOMAIN s \cup {Len(s) + 1} /\ Len(s) + 1 \notin DOMAIN s
      /\ \A k \in DOMAIN s : t[k] = s[k]
  BY <1>1, <1>2
<1> DEFINE n == Len(s) + 1
<1>4. t[n] = e
  BY <1>1
<1> HIDE DEF n
<1>5. DOMAIN t = DOMAIN s \cup {n} /\ n \notin DOMAIN s /\ \A k \in DOMAIN s : t[k] = s[k]
  BY <1>3 DEF n
<1>6. ToSet(t) = ToSet(s) \cup {e}
  BY <1>4, <1>5 DEF ToSet
<1>7. IdsOf(t) = IdsOf(s) \cup {e.id}
  BY <1>4, <1>5 DEF IdsOf
<1>8. ReqsOf(t) = ReqsOf(s) \cup {e.req}
  BY <1>4, <1>5 DEF ReqsOf
<1>9. ASSUME Once(s), e \notin ToSet(s) PROVE Once(t)
  <2> SUFFICES ASSUME NEW j \in DOMAIN t, NEW k \in DOMAIN t, t[j] = t[k] PROVE j = k
    BY DEF Once
  <2> QED BY <1>4, <1>5, <1>9 DEF Once, ToSet
<1>10. ASSUME OnceId(s), e.id \notin IdsOf(s) PROVE OnceId(t)
  <2> SUFFICES ASSUME NEW j \in DOMAIN t, NEW k \in DOMAIN t, t[j].id = t[k].id PROVE j = k
    BY DEF OnceId
  <2> QED BY <1>4, <1>5, <1>10 DEF OnceId, IdsOf
<1>11. ASSUME OnceReq(s), e.req \notin ReqsOf(s) PROVE OnceReq(t)
  <2> SUFFICES ASSUME NEW j \in DOMAIN t, NEW k \in DOMAIN t, t[j].req = t[k].req PROVE j = k
    BY DEF OnceReq
  <2> QED BY <1>4, <1>5, <1>11 DEF OnceReq, ReqsOf
<1>12. WithOne(t, s, e)
  BY <1>6, <1>7, <1>8, <1>9, <1>10, <1>11 DEF WithOne
<1> QED BY <1>0, <1>12 DEF t

(* t is s without its element at p, and f says where the others were.      *)
Skips(f, t, s, p) ==
    /\ f \in [DOMAIN t -> DOMAIN s \ {p}]
    /\ \A j \in DOMAIN s \ {p} : \E k \in DOMAIN t : f[k] = j
    /\ \A j, k \in DOMAIN t : f[j] = f[k] => j = k
    /\ \A k \in DOMAIN t : t[k] = s[f[k]]

(* What is lost with the element e.                                        *)
LessOne(t, s, e) ==
    /\ \A k \in DOMAIN t : \E j \in DOMAIN s : t[k] = s[j]
    /\ Once(s) => Once(t) /\ ToSet(t) = ToSet(s) \ {e} /\ e \in ToSet(s)
    /\ OnceId(s) => OnceId(t) /\ IdsOf(t) = IdsOf(s) \ {e.id} /\ e.id \in IdsOf(s)
    /\ OnceReq(s) => OnceReq(t) /\ ReqsOf(t) = ReqsOf(s) \ {e.req} /\ e.req \in ReqsOf(s)

LEMMA Without ==
    ASSUME NEW s, NEW t, NEW p \in DOMAIN s, NEW f, Skips(f, t, s, p)
    PROVE  LessOne(t, s, s[p])
<1> USE DEF Skips
<1>1. ASSUME Once(s)
      PROVE  Once(t) /\ ToSet(t) = ToSet(s) \ {s[p]} /\ s[p] \in ToSet(s)
  <2>1. Once(t) /\ s[p] \in ToSet(s)
    BY <1>1 DEF Once, ToSet
  <2>2. \A k \in DOMAIN t : t[k] \in ToSet(s) \ {s[p]}
    BY <1>1 DEF Once, ToSet
  <2>3. \A x \in ToSet(s) \ {s[p]} : \E k \in DOMAIN t : t[k] = x
    BY DEF ToSet
  <2> QED BY <2>1, <2>2, <2>3 DEF ToSet
<1>2. ASSUME OnceId(s)
      PROVE  OnceId(t) /\ IdsOf(t) = IdsOf(s) \ {s[p].id} /\ s[p].id \in IdsOf(s)
  <2>1. OnceId(t) /\ s[p].id \in IdsOf(s)
    BY <1>2 DEF OnceId, IdsOf
  <2>2. \A k \in DOMAIN t : t[k].id \in IdsOf(s) \ {s[p].id}
    BY <1>2 DEF OnceId, IdsOf
  <2>3. \A x \in IdsOf(s) \ {s[p].id} : \E k \in DOMAIN t : t[k].id = x
    BY DEF IdsOf
  <2> QED BY <2>1, <2>2, <2>3 DEF IdsOf
<1>3. ASSUME OnceReq(s)
      PROVE  OnceReq(t) /\ ReqsOf(t) = ReqsOf(s) \ {s[p].req} /\ s[p].req \in ReqsOf(s)
  <2>1. OnceReq(t) /\ s[p].req \in ReqsOf(s)
    BY <1>3 DEF OnceReq, ReqsOf
  <2>2. \A k \in DOMAIN t : t[k].req \in ReqsOf(s) \ {s[p].req}
    BY <1>3 DEF OnceReq, ReqsOf
  <2>3. \A x \in ReqsOf(s) \ {s[p].req} : \E k \in DOMAIN t : t[k].req = x
    BY DEF ReqsOf
  <2> QED BY <2>1, <2>2, <2>3 DEF ReqsOf
<1>4. \A k \in DOMAIN t : \E j \in DOMAIN s : t[k] = s[j]
  OBVIOUS
<1> QED BY <1>1, <1>2, <1>3, <1>4 DEF LessOne

LEMMA TailElements ==
    ASSUME NEW s, IsSeq(s), s # <<>>
    PROVE  LET t == Tail(s)
           IN  /\ IsSeq(t) /\ Len(t) = Len(s) - 1 /\ Len(s) > 0 /\ DOMAIN t = 1 .. Len(s) - 1
               /\ Head(s) = s[1] /\ 1 \in DOMAIN s
               /\ \A k \in 1 .. Len(s) - 1 : t[k] = s[k + 1]
<1> DEFINE t == Tail(s)
<1>1. /\ t \in Seq(ToSet(s)) /\ Len(t) = Len(s) - 1
      /\ \A i \in 1 .. Len(t) : t[i] = s[i + 1]
  BY HeadTailProperties DEF IsSeq
<1>2. IsSeq(t)
  BY <1>1, SeqOver
<1> QED BY <1>1, <1>2, SeqIs, NonEmptyIs

LEMMA TailIs ==
    ASSUME NEW s, IsSeq(s), s # <<>>
    PROVE  /\ IsSeq(Tail(s)) /\ Len(Tail(s)) = Len(s) - 1
           /\ LessOne(Tail(s), s, Head(s))
<1> DEFINE t == Tail(s) h == Head(s)
<1>1. /\ IsSeq(t) /\ Len(t) = Len(s) - 1 /\ Len(s) > 0 /\ DOMAIN t = 1 .. Len(s) - 1
      /\ h = s[1] /\ 1 \in DOMAIN s /\ \A k \in 1 .. Len(s) - 1 : t[k] = s[k + 1]
  BY TailElements
<1> HIDE DEF t, h
<1>2. Len(s) \in Nat /\ DOMAIN s = 1 .. Len(s)
  BY SeqIs
<1> DEFINE f == [k \in DOMAIN t |-> k + 1]
<1>3. f \in [DOMAIN t -> DOMAIN s \ {1}] /\ \A k \in DOMAIN t : f[k] = k + 1
  BY <1>1, <1>2
<1>4. \A j \in DOMAIN s \ {1} : \E k \in DOMAIN t : f[k] = j
  <2> SUFFICES ASSUME NEW j \in DOMAIN s \ {1} PROVE \E k \in DOMAIN t : f[k] = j
    OBVIOUS
  <2>1. j - 1 \in DOMAIN t /\ f[j - 1] = j
    BY <1>1, <1>2
  <2> QED BY <2>1
<1>5. \A j, k \in DOMAIN t : f[j] = f[k] => j = k
  BY <1>1, <1>2
<1>6. \A k \in DOMAIN t : t[k] = s[f[k]]
  BY <1>1, <1>3
<1> HIDE DEF f
<1>7. Skips(f, t, s, 1)
  BY <1>3, <1>4, <1>5, <1>6 DEF Skips
<1>8. LessOne(t, s, s[1])
  BY <1>1, <1>7, Without
<1> QED BY <1>1, <1>8 DEF t, h

LEMMA RemoveElements ==
    ASSUME NEW s, IsSeq(s), NEW p \in DOMAIN s, NEW t, t = RemoveAt(s, p)
    PROVE  /\ IsSeq(t) /\ Len(t) = Len(s) - 1 /\ DOMAIN t = 1 .. Len(s) - 1
           /\ \A k \in 1 .. Len(s) - 1 : t[k] = s[IF k < p THEN k ELSE k + 1]
<1> DEFINE S == ToSet(s) a == SubSeq(s, 1, p - 1) b == SubSeq(s, p + 1, Len(s))
<1>1. Len(s) \in Nat /\ DOMAIN s = 1 .. Len(s) /\ p \in 1 .. Len(s)
  BY SeqIs
<1>2. \A i \in 1 .. Len(s) : s[i] \in S
  BY <1>1 DEF ToSet
<1>3. \A i \in 1 .. p - 1 : s[i] \in S
  BY <1>1, <1>2
<1>4. \A i \in p + 1 .. Len(s) : s[i] \in S
  BY <1>1, <1>2
<1> HIDE DEF S
<1>5. a \in Seq(S) /\ Len(a) = p - 1 /\ \A i \in 1 .. p - 1 : a[i] = s[i]
  BY <1>1, <1>3, SubSeqProperties
<1>6. b \in Seq(S) /\ Len(b) = Len(s) - p /\ \A i \in 1 .. Len(s) - p : b[i] = s[p + i]
  <2>1. /\ b \in Seq(S) /\ Len(b) = IF p + 1 <= Len(s) THEN Len(s) - (p + 1) + 1 ELSE 0
        /\ \A i \in 1 .. Len(s) - (p + 1) + 1 : b[i] = s[p + 1 + i - 1]
    BY <1>1, <1>4, SubSeqProperties
  <2> HIDE DEF b
  <2>2. Len(b) = Len(s) - p
    BY <1>1, <2>1
  <2>3. \A i \in 1 .. Len(s) - p : i \in 1 .. Len(s) - (p + 1) + 1 /\ p + 1 + i - 1 = p + i
    BY <1>1
  <2> QED BY <2>1, <2>2, <2>3
<1> HIDE DEF a, b
<1>7. /\ a \o b \in Seq(S) /\ Len(a \o b) = Len(a) + Len(b)
      /\ \A i \in 1 .. Len(a) + Len(b) :
             (a \o b)[i] = IF i <= Len(a) THEN a[i] ELSE b[i - Len(a)]
  BY <1>5, <1>6, ConcatProperties
<1>8. t = a \o b
  BY DEF RemoveAt, a, b
<1>9. IsSeq(t) /\ Len(t) = Len(s) - 1 /\ DOMAIN t = 1 .. Len(s) - 1
  <2>1. IsSeq(t)
    BY <1>7, <1>8, SeqOver
  <2>2. Len(t) = Len(s) - 1
    <3>1. Len(t) = (p - 1) + (Len(s) - p)
      BY <1>5, <1>6, <1>7, <1>8
    <3> QED BY <1>1, <3>1
  <2> QED BY <2>1, <2>2, SeqIs
<1>10. ASSUME NEW k \in 1 .. Len(s) - 1 PROVE t[k] = s[IF k < p THEN k ELSE k + 1]
  <2>1. k \in 1 .. Len(a) + Len(b)
    BY <1>1, <1>5, <1>6
  <2>2. CASE k < p
    <3>1. k <= Len(a) /\ k \in 1 .. p - 1
      BY <1>1, <1>5, <2>2
    <3> QED BY <3>1, <2>1, <2>2, <1>5, <1>7, <1>8
  <2>3. CASE ~(k < p)
    <3>1. ~(k <= Len(a)) /\ k - Len(a) \in 1 .. Len(s) - p /\ p + (k - Len(a)) = k + 1
      BY <1>1, <1>5, <2>3
    <3> QED BY <3>1, <2>1, <2>3, <1>6, <1>7, <1>8
  <2> QED BY <2>2, <2>3
<1> QED BY <1>9, <1>10

LEMMA RemoveIs ==
    ASSUME NEW s, IsSeq(s), NEW p \in DOMAIN s
    PROVE  /\ IsSeq(RemoveAt(s, p)) /\ Len(RemoveAt(s, p)) = Len(s) - 1
           /\ LessOne(RemoveAt(s, p), s, s[p])
<1> DEFINE t == RemoveAt(s, p)
<1>1. /\ IsSeq(t) /\ Len(t) = Len(s) - 1 /\ DOMAIN t = 1 .. Len(s) - 1
      /\ \A k \in 1 .. Len(s) - 1 : t[k] = s[IF k < p THEN k ELSE k + 1]
  BY RemoveElements
<1> HIDE DEF t
<1>2. Len(s) \in Nat /\ DOMAIN s = 1 .. Len(s)
  BY SeqIs
<1> DEFINE f == [k \in DOMAIN t |-> IF k < p THEN k ELSE k + 1]
<1>3. f \in [DOMAIN t -> DOMAIN s \ {p}] /\ \A k \in DOMAIN t : f[k] = IF k < p THEN k ELSE k + 1
  BY <1>1, <1>2
<1>4. \A j \in DOMAIN s \ {p} : \E k \in DOMAIN t : f[k] = j
  <2> SUFFICES ASSUME NEW j \in DOMAIN s \ {p} PROVE \E k \in DOMAIN t : f[k] = j
    OBVIOUS
  <2>1. CASE j < p
    <3>1. j \in DOMAIN t /\ f[j] = j
      BY <1>1, <1>2, <2>1
    <3> QED BY <3>1
  <2>2. CASE ~(j < p)
    <3>1. j - 1 \in DOMAIN t /\ f[j - 1] = j
      BY <1>1, <1>2, <2>2
    <3> QED BY <3>1
  <2> QED BY <2>1, <2>2
<1>5. \A j, k \in DOMAIN t : f[j] = f[k] => j = k
  BY <1>1, <1>2
<1>6. \A k \in DOMAIN t : t[k] = s[f[k]]
  BY <1>1, <1>3
<1> HIDE DEF f
<1>7. Skips(f, t, s, p)
  BY <1>3, <1>4, <1>5, <1>6 DEF Skips
<1>8. LessOne(t, s, s[p])
  BY <1>7, Without
<1> QED BY <1>1, <1>8 DEF t

(* t is a followed by b.                                                   *)
Joined(t, a, b) ==
    /\ IsSeq(t) /\ Len(t) = Len(a) + Len(b) /\ DOMAIN t = 1 .. Len(a) + Len(b)
    /\ \A i \in DOMAIN t : t[i] = IF i <= Len(a) THEN a[i] ELSE b[i - Len(a)]

LEMMA ConcatElements ==
    ASSUME NEW a, IsSeq(a), NEW b, IsSeq(b)
    PROVE  Joined(a \o b, a, b)
<1> DEFINE t == a \o b
<1> DEFINE S == ToSet(a) \cup ToSet(b)
<1>1. a \in Seq(S) /\ b \in Seq(S)
  BY SeqMonotonic DEF IsSeq
<1> HIDE DEF S
<1>2. /\ t \in Seq(S) /\ Len(t) = Len(a) + Len(b)
      /\ \A i \in 1 .. Len(a) + Len(b) : t[i] = IF i <= Len(a) THEN a[i] ELSE b[i - Len(a)]
  BY <1>1, ConcatProperties
<1>3. IsSeq(t)
  BY <1>2, SeqOver
<1> HIDE DEF t
<1>4. DOMAIN t = 1 .. Len(t)
  BY <1>3, SeqIs
<1>5. Joined(t, a, b)
  BY <1>2, <1>3, <1>4 DEF Joined
<1> QED BY <1>5 DEF t

(* What is in both.                                                        *)
Both(t, a, b) ==
    /\ ToSet(t) = ToSet(a) \cup ToSet(b)
    /\ ReqsOf(t) = ReqsOf(a) \cup ReqsOf(b)
    /\ Once(a) /\ Once(b) /\ ToSet(a) \cap ToSet(b) = {} => Once(t)
    /\ OnceReq(a) /\ OnceReq(b) /\ ReqsOf(a) \cap ReqsOf(b) = {} => OnceReq(t)

LEMMA ConcatIs ==
    ASSUME NEW a, IsSeq(a), NEW b, IsSeq(b)
    PROVE  Joined(a \o b, a, b) /\ Both(a \o b, a, b)
<1> DEFINE t == a \o b
<1>0. Joined(t, a, b)
  BY ConcatElements
<1> HIDE DEF t
<1>1. /\ IsSeq(t) /\ Len(t) = Len(a) + Len(b) /\ DOMAIN t = 1 .. Len(a) + Len(b)
      /\ \A i \in DOMAIN t : t[i] = IF i <= Len(a) THEN a[i] ELSE b[i - Len(a)]
  BY <1>0 DEF Joined
<1>2. /\ Len(a) \in Nat /\ DOMAIN a = 1 .. Len(a)
      /\ Len(b) \in Nat /\ DOMAIN b = 1 .. Len(b)
  BY SeqIs
<1>3. \A i \in DOMAIN t : \/ i \in DOMAIN a /\ t[i] = a[i]
                          \/ i > Len(a) /\ i - Len(a) \in DOMAIN b /\ t[i] = b[i - Len(a)]
  BY <1>1, <1>2
<1>4. \A i \in DOMAIN a : i \in DOMAIN t /\ t[i] = a[i]
  BY <1>1, <1>2
<1>5. \A i \in DOMAIN b : \E j \in DOMAIN t : t[j] = b[i]
  <2> SUFFICES ASSUME NEW i \in DOMAIN b PROVE \E j \in DOMAIN t : t[j] = b[i]
    OBVIOUS
  <2> DEFINE m == Len(a) + i
  <2>1. m \in DOMAIN t /\ ~(m <= Len(a)) /\ m - Len(a) = i
    BY <1>1, <1>2
  <2> HIDE DEF m
  <2>2. t[m] = b[m - Len(a)]
    BY <1>1, <2>1
  <2> QED BY <2>1, <2>2
<1>6. ToSet(t) = ToSet(a) \cup ToSet(b)
  BY <1>3, <1>4, <1>5 DEF ToSet
<1>7. ReqsOf(t) = ReqsOf(a) \cup ReqsOf(b)
  <2>1. \A i \in DOMAIN t : t[i].req \in ReqsOf(a) \cup ReqsOf(b)
    BY <1>3 DEF ReqsOf
  <2>2. \A i \in DOMAIN a : a[i].req \in ReqsOf(t)
    BY <1>4 DEF ReqsOf
  <2>3. \A i \in DOMAIN b : b[i].req \in ReqsOf(t)
    BY <1>5 DEF ReqsOf
  <2> QED BY <2>1, <2>2, <2>3 DEF ReqsOf
<1>8. ASSUME Once(a), Once(b), ToSet(a) \cap ToSet(b) = {} PROVE Once(t)
  <2> SUFFICES ASSUME NEW j \in DOMAIN t, NEW k \in DOMAIN t, t[j] = t[k] PROVE j = k
    BY DEF Once
  <2>1. CASE j \in DOMAIN a /\ k \in DOMAIN a
    BY <1>4, <1>8, <2>1 DEF Once
  <2>2. CASE j \notin DOMAIN a /\ k \notin DOMAIN a
    <3>1. j - Len(a) = k - Len(a)
      BY <1>3, <1>8, <2>2 DEF Once
    <3> QED BY <3>1, <1>1, <1>2
  <2>3. CASE j \in DOMAIN a /\ k \notin DOMAIN a
    <3>1. t[j] \in ToSet(a) /\ t[k] \in ToSet(b)
      BY <1>3, <1>4, <2>3 DEF ToSet
    <3> QED BY <3>1, <1>8
  <2>4. CASE j \notin DOMAIN a /\ k \in DOMAIN a
    <3>1. t[k] \in ToSet(a) /\ t[j] \in ToSet(b)
      BY <1>3, <1>4, <2>4 DEF ToSet
    <3> QED BY <3>1, <1>8
  <2> QED BY <2>1, <2>2, <2>3, <2>4
<1>9. ASSUME OnceReq(a), OnceReq(b), ReqsOf(a) \cap ReqsOf(b) = {} PROVE OnceReq(t)
  <2> SUFFICES ASSUME NEW j \in DOMAIN t, NEW k \in DOMAIN t, t[j].req = t[k].req PROVE j = k
    BY DEF OnceReq
  <2>1. CASE j \in DOMAIN a /\ k \in DOMAIN a
    BY <1>4, <1>9, <2>1 DEF OnceReq
  <2>2. CASE j \notin DOMAIN a /\ k \notin DOMAIN a
    <3>1. j - Len(a) = k - Len(a)
      BY <1>3, <1>9, <2>2 DEF OnceReq
    <3> QED BY <3>1, <1>1, <1>2
  <2>3. CASE j \in DOMAIN a /\ k \notin DOMAIN a
    <3>1. t[j].req \in ReqsOf(a) /\ t[k].req \in ReqsOf(b)
      BY <1>3, <1>4, <2>3 DEF ReqsOf
    <3> QED BY <3>1, <1>9
  <2>4. CASE j \notin DOMAIN a /\ k \in DOMAIN a
    <3>1. t[k].req \in ReqsOf(a) /\ t[j].req \in ReqsOf(b)
      BY <1>3, <1>4, <2>4 DEF ReqsOf
    <3> QED BY <3>1, <1>9
  <2> QED BY <2>1, <2>2, <2>3, <2>4
<1>10. Both(t, a, b)
  BY <1>6, <1>7, <1>8, <1>9 DEF Both
<1> QED BY <1>0, <1>10 DEF t

(* An id in front of a list.                                               *)
LEMMA PrefixIs ==
    ASSUME NEW s, IsSeq(s), NEW e
    PROVE  LET t == <<e>> \o s
           IN  /\ IsSeq(t) /\ Len(t) = Len(s) + 1
               /\ ToSet(t) = ToSet(s) \cup {e}
               /\ Once(s) /\ e \notin ToSet(s) => Once(t)
<1> DEFINE t == <<e>> \o s
<1>1. <<e>> \in Seq({e}) /\ Len(<<e>>) = 1 /\ DOMAIN <<e>> = {1} /\ <<e>>[1] = e
  OBVIOUS
<1>2. IsSeq(<<e>>)
  BY <1>1, SeqOver
<1>3. ToSet(<<e>>) = {e} /\ Once(<<e>>)
  BY <1>1 DEF ToSet, Once
<1> DEFINE a == <<e>>
<1>4. IsSeq(a) /\ Len(a) = 1 /\ ToSet(a) = {e} /\ Once(a) /\ t = a \o s
  BY <1>1, <1>2, <1>3
<1> HIDE DEF a, t
<1>5. Joined(t, a, s) /\ Both(t, a, s)
  BY <1>4, ConcatIs
<1>6. Len(s) \in Nat
  BY SeqIs
<1>7. IsSeq(t) /\ Len(t) = Len(s) + 1
  BY <1>4, <1>5, <1>6 DEF Joined
<1>8. ToSet(t) = ToSet(s) \cup {e} /\ (Once(s) /\ e \notin ToSet(s) => Once(t))
  BY <1>4, <1>5 DEF Both
<1> QED BY <1>7, <1>8 DEF t
-----------------------------------------------------------------------------
(* Who has the device and its queue.                                       *)

Control ==
    /\ stopped \in BOOLEAN /\ limit \in Nat /\ maxSegs \in Nat
    /\ lock # "none" => connected = "CONNECTED"
    /\ connected # "DISCONNECTED" => limit > 0
    /\ connected = "SUSPENDED" => stopped
    /\ limit > 0 /\ connected # "CONNECTED" => stopped \/ xb = "connecting"
    /\ queue # <<>> => limit > 0 /\ xb # "connecting"
    /\ xb = "connecting" => limit > 0
    /\ xb = "initialised" => maxSegs > 0
    /\ xb \in {"recover", "kick"} => connected = "SUSPENDED"

CInv == Control /\ RecoveredFirst

LEMMA ControlInit == Init => CInv
<1> SUFFICES ASSUME Init PROVE CInv
  OBVIOUS
<1>1. /\ queue = <<>> /\ stopped = FALSE /\ lock = "none" /\ connected = "DISCONNECTED"
      /\ xb = "probe" /\ limit = 0 /\ maxSegs = 0 /\ resume_list = <<>> /\ resume_split = <<>>
  BY DEF Init
<1>2. limit \in Nat /\ maxSegs \in Nat /\ ~(limit > 0)
  <2>1. limit = 0 /\ maxSegs = 0
    BY <1>1, Zenon
  <2> QED BY <2>1
<1>3. stopped \in BOOLEAN
  BY <1>1, Zenon
<1> QED BY <1>1, <1>2, <1>3, Zenon DEF CInv, Control, RecoveredFirst

LEMMA ControlNext == CInv /\ [Next]_vars => CInv'
<1> SUFFICES ASSUME CInv, [Next]_vars PROVE CInv'
  OBVIOUS
<1> USE DEF CInv, Control, RecoveredFirst
<1>1. ASSUME NEW r \in Reqs, Submit(r) PROVE CInv'
  <2>1. limit > 0
    BY <1>1, BlkAssumption DEF Submit
  <2> QED BY <1>1, <2>1 DEF Submit, ring, ids, tabs, rec, mem, conn, env
<1>2. CASE RunQueue
  BY <1>2 DEF RunQueue, ring, ids, tabs, rec, mem, conn, env
<1>3. CASE Interrupt
  BY <1>3 DEF Interrupt, ring, ids, tabs, rec, mem, conn, env
<1>4. CASE Work
  BY <1>4 DEF Work, ring, ids, tabs, rec, mem, conn, env
<1>5. CASE IssueStops
  BY <1>5 DEF IssueStops, ring, ids, tabs, rec, mem, conn, env
<1>6. CASE IssueEnds
  BY <1>6 DEF IssueEnds, ring, ids, tabs, rec, mem, conn, env
<1>7. CASE Issue
  <2>1. /\ queue # <<>>
        /\ UNCHANGED <<stopped, lock, connected, limit, maxSegs, xb, resume_list, resume_split>>
    BY <1>7 DEF Issue, conn, rec
  <2> QED BY <2>1
<1>8. CASE HandleWhole
  BY <1>8 DEF HandleWhole, ring, ids, tabs, rec, mem, conn, env
<1>9. CASE HandleSplit
  <2>1. resume_split # <<>>
    <3>1. SplitAt(Head(answers).id) # {}
      BY <1>9, Zenon DEF HandleSplit
    <3>2. CASE resume_split = <<>>
      <4>1. SplitAt(Head(answers).id) = {}
        BY <3>2 DEF SplitAt
      <4> QED BY <3>1, <4>1
    <3> QED BY <3>2
  <2>2. lock = "handle" /\ UNCHANGED <<queue, stopped, lock, connected, limit, maxSegs, xb>>
    BY <1>9 DEF HandleSplit, conn
  <2> QED BY <2>1, <2>2
<1>10. CASE HandleEnds
  BY <1>10 DEF HandleEnds, ring, ids, tabs, rec, mem, conn, env
<1>11. CASE ReplayPlain
  <2>1. /\ lock = "replay" /\ resume_list # <<>>
        /\ UNCHANGED <<queue, stopped, lock, connected, limit, maxSegs, xb>>
    BY <1>11 DEF ReplayPlain, conn, io
  <2> QED BY <2>1
<1>12. CASE ReplayIndirect
  <2>1. /\ lock = "replay" /\ resume_list # <<>>
        /\ UNCHANGED <<queue, stopped, lock, connected, limit, maxSegs, xb>>
    BY <1>12 DEF ReplayIndirect, conn, io
  <2> QED BY <2>1
<1>13. CASE ReplayEnds
  <2>1. /\ lock = "replay" /\ UNCHANGED <<queue, connected, limit, maxSegs, xb, resume_list, resume_split>>
        /\ \/ resume_split = <<>> /\ resume_list = <<>> /\ stopped' = FALSE /\ lock' = "issue"
           \/ lock' = "none" /\ UNCHANGED stopped
    BY <1>13 DEF ReplayEnds, rec, conn
  <2>2. connected = "CONNECTED"
    BY <2>1
  <2> QED BY <2>1, <2>2
<1>14. CASE Probe
  BY <1>14 DEF Probe, io, rec
<1>15. CASE Setup
  <2>1. /\ xb' \in {"initialised", "recover"} /\ (xb' = "recover" => connected = "SUSPENDED")
        /\ maxSegs' \in {MaxChunks, 1}
        /\ UNCHANGED <<queue, stopped, lock, connected, limit, resume_list, resume_split>>
    BY <1>15 DEF Setup, io, rec
  <2>2. maxSegs' \in Nat /\ maxSegs' > 0
    BY <2>1, Sizes
  <2>3. xb # "connecting"
    BY <1>15 DEF Setup
  <2> QED BY <2>1, <2>2, <2>3
<1>16. CASE Connect
  BY <1>16 DEF Connect, io, rec
<1>17. CASE ConnectKicks
  BY <1>17 DEF ConnectKicks, rec
<1>18. CASE Resume
  BY <1>18 DEF Resume, rec
<1>19. CASE Teardown
  BY <1>19 DEF Teardown, io, rec
<1>20. CASE Recover
  <2>1. /\ xb = "recover" /\ xb' = "kick"
        /\ UNCHANGED <<queue, stopped, lock, connected, limit, maxSegs, resume_split>>
    BY <1>20 DEF Recover, io
  <2> QED BY <2>1
<1>21. CASE RecoverKicks
  BY <1>21 DEF RecoverKicks, rec
<1>22. CASE FreeSurplus
  BY <1>22 DEF FreeSurplus, io, rec
<1>23. CASE OtherTakes \/ OtherReleases
  BY <1>23 DEF OtherTakes, OtherReleases, io, rec, conn
<1>24. CASE BackendReady \/ BackendConnects
  BY <1>24 DEF BackendReady, BackendConnects, io, rec, conn
<1>25. CASE Serve
  BY <1>25 DEF Serve, Answer, io, rec, conn
<1>26. ASSUME NEW b \in Backends, Migrate(b) PROVE CInv'
  BY <1>26 DEF Migrate, io, rec
<1>27. CASE UNCHANGED vars
  BY <1>27 DEF vars, io, rec, conn
<1> QED BY <1>1, <1>2, <1>3, <1>4, <1>5, <1>6, <1>7, <1>8, <1>9, <1>10, <1>11, <1>12, <1>13,
           <1>14, <1>15, <1>16, <1>17, <1>18, <1>19, <1>20, <1>21, <1>22, <1>23, <1>24, <1>25,
           <1>26, <1>27 DEF Next, Locked, Connection

(* blkif_recover, kick_pending_request_queues: whatever the moment of a    *)
(* migration, the queue is not started before everything is recovered.     *)
THEOREM NoneOvertakes == Spec => []RecoveredFirst
<1>1. CInv => RecoveredFirst
  BY DEF CInv
<1> QED BY ControlInit, ControlNext, <1>1, PTL DEF Spec
-----------------------------------------------------------------------------
(* How long a sequence is, and how many things are in it.                  *)

LEMMA FunctionIs ==
    ASSUME NEW n \in Nat, NEW s, s = [k \in 1 .. n |-> s[k]]
    PROVE  IsSeq(s) /\ Len(s) = n
<1>1. s \in [1 .. n -> ToSet(s)]
  BY DEF ToSet
<1>2. s \in Seq(ToSet(s))
  BY <1>1, SeqDef
<1>3. Len(s) \in Nat /\ DOMAIN s = 1 .. Len(s)
  BY <1>2, LenProperties
<1>4. DOMAIN s = 1 .. n
  BY <1>1
<1>5. Len(s) = n
  <2> DEFINE l == Len(s)
  <2>1. l \in Nat /\ 1 .. l = 1 .. n
    BY <1>3, <1>4
  <2> HIDE DEF l
  <2>2. l <= n
    <3>1. l > 0 => l \in 1 .. n
      BY <2>1
    <3> QED BY <2>1, <3>1
  <2>3. n <= l
    <3>1. n > 0 => n \in 1 .. l
      BY <2>1
    <3> QED BY <2>1, <3>1
  <2> QED BY <2>1, <2>2, <2>3 DEF l
<1> QED BY <1>2, <1>5 DEF IsSeq

LEMMA ToSetSize ==
    ASSUME NEW s, IsSeq(s)
    PROVE  /\ IsFiniteSet(ToSet(s)) /\ Cardinality(ToSet(s)) <= Len(s)
           /\ Once(s) => Cardinality(ToSet(s)) = Len(s)
<1> DEFINE D == 1 .. Len(s)
<1>1. Len(s) \in Nat /\ DOMAIN s = D /\ s \in [D -> ToSet(s)]
  BY LenProperties DEF IsSeq
<1>2. IsFiniteSet(D) /\ Cardinality(D) = Len(s)
  <2>1. IsFiniteSet(1 .. Len(s)) /\ Cardinality(1 .. Len(s)) = IF 1 > Len(s) THEN 0 ELSE Len(s) - 1 + 1
    BY <1>1, FS_Interval
  <2> QED BY <1>1, <2>1
<1> HIDE DEF D
<1>3. s \in Surjection(D, ToSet(s))
  BY <1>1 DEF ToSet, Surjection
<1>4. Once(s) => s \in Injection(D, ToSet(s))
  BY <1>1 DEF Once, Injection, IsInjective
<1> QED BY <1>2, <1>3, <1>4, FS_Surjection

(* The ids of a sequence or of a set of ring requests.                     *)
LEMMA IdsSize ==
    ASSUME NEW s, IsSeq(s)
    PROVE  IsFiniteSet(IdsOf(s)) /\ Cardinality(IdsOf(s)) <= Len(s)
<1> DEFINE D == 1 .. Len(s) f == [k \in D |-> s[k].id]
<1>1. Len(s) \in Nat /\ DOMAIN s = D
  BY SeqIs
<1>2. IsFiniteSet(D) /\ Cardinality(D) = Len(s)
  <2>1. IsFiniteSet(1 .. Len(s)) /\ Cardinality(1 .. Len(s)) = IF 1 > Len(s) THEN 0 ELSE Len(s) - 1 + 1
    BY <1>1, FS_Interval
  <2> QED BY <1>1, <2>1
<1> HIDE DEF D
<1>3. f \in Surjection(D, IdsOf(s))
  BY <1>1 DEF IdsOf, Surjection
<1> QED BY <1>2, <1>3, FS_Surjection

LEMMA SetIdsSize ==
    ASSUME NEW S, IsFiniteSet(S), NEW T, T = {m.id : m \in S}
    PROVE  IsFiniteSet(T) /\ Cardinality(T) <= Cardinality(S)
<1> DEFINE f == [m \in S |-> m.id]
<1>1. f \in Surjection(S, T)
  BY DEF Surjection
<1> QED BY <1>1, FS_Surjection

LEMMA TwoSets ==
    ASSUME NEW S, IsFiniteSet(S), NEW T, IsFiniteSet(T)
    PROVE  /\ IsFiniteSet(S \cup T) /\ Cardinality(S \cup T) <= Cardinality(S) + Cardinality(T)
           /\ S \cap T = {} => Cardinality(S \cup T) = Cardinality(S) + Cardinality(T)
           /\ Cardinality(S) \in Nat /\ Cardinality(T) \in Nat /\ Cardinality(S \cup T) \in Nat
<1>1. Cardinality(S) \in Nat /\ Cardinality(T) \in Nat
  BY FS_CardinalityType
<1>2. /\ IsFiniteSet(S \cup T)
      /\ Cardinality(S \cup T) = Cardinality(S) + Cardinality(T) - Cardinality(S \cap T)
  BY FS_Union
<1>3. Cardinality(S \cap T) \in Nat /\ Cardinality(S \cup T) \in Nat
  BY <1>2, FS_Intersection, FS_CardinalityType
<1>4. S \cap T = {} => Cardinality(S \cap T) = 0
  BY FS_EmptySet
<1> QED BY <1>1, <1>2, <1>3, <1>4
-----------------------------------------------------------------------------
(* Where a request is: the invariant, while no migration finds a split     *)
(* request under way.                                                      *)

BusyIds  == {i \in Ids : shadow[i].req # NoReq}
BusyReqs == {shadow[i].req : i \in BusyIds}
SentIds  == {m.id : m \in sent}
OnRing   == IdsOf(batch) \cup SentIds \cup IdsOf(answers)
Pending  == {r \in Reqs : result[r] = "pending"}

(* An entry of resume_list or resume_split is a record of these fields.    *)
Shaped(e) == e = [req |-> e.req, op |-> e.op, n |-> e.n, chunk |-> e.chunk,
                  table |-> e.table, id |-> e.id]

Sequences ==
    /\ IsSeq(queue) /\ IsSeq(idle) /\ IsSeq(batch) /\ IsSeq(answers)
    /\ IsSeq(resume_list) /\ IsSeq(resume_split) /\ IsFiniteSet(sent)
    /\ ToSet(idle) \subseteq Ids
    /\ \A k \in DOMAIN resume_list : Shaped(resume_list[k])
    /\ \A k \in DOMAIN resume_split : Shaped(resume_split[k])

Numbers ==
    /\ DOMAIN shadow = Ids
    /\ size \in 0 .. MaxRing /\ old \in 0 .. MaxRing
    /\ callback \in BOOLEAN /\ work \in BOOLEAN
    /\ backend \in [kind : Backends,
                    state : {"Initialising", "InitWait", "Connected", "Gone"}]

(* The device before its first connection, which has nothing to do yet,    *)
(* and those phases in which the shadow entries are as the ring has them.  *)
Fresh == limit = 0 \/ xb = "connecting"
Ready == \/ connected = "CONNECTED" \/ xb \in {"kick", "connecting"}
         \/ xb = "initialised" /\ limit = 0

Phases ==
    /\ connected \in {"DISCONNECTED", "CONNECTED", "SUSPENDED"}
    /\ connected = "CONNECTED" => xb \in {"surplus", "idle", "resume"}
    /\ xb \in {"surplus", "idle"} => connected = "CONNECTED"
    /\ xb \in {"probe", "initialised", "connecting"} => connected = "DISCONNECTED"
    /\ connected = "CONNECTED" /\ xb = "resume" => backend.state = "Gone" /\ lock # "handle"
    /\ connected # "CONNECTED" \/ xb = "resume" => resume_split = <<>>
    /\ lock = "issue" => ~stopped
    /\ Ready \/ xb = "recover" => size > 0

(* What waits to be recovered waits for the ring to drain.                 *)
Drains ==
    connected = "CONNECTED" /\ (lock = "none" \/ xb = "resume") /\ resume_list # <<>>
        => RingFull

(* No id is on the ring twice.                                             *)
Apart ==
    /\ OnceId(batch) /\ OnceId(answers)
    /\ \A m, n \in sent : m.id = n.id => m = n
    /\ IdsOf(batch) \cap SentIds = {}
    /\ IdsOf(batch) \cap IdsOf(answers) = {}
    /\ SentIds \cap IdsOf(answers) = {}

(* Each entry is on the ring or on the free list.                          *)
Entries ==
    /\ Ready => /\ OnRing = BusyIds /\ BusyIds \subseteq 0 .. size - 1
                /\ Once(idle) /\ ToSet(idle) = (0 .. size - 1) \ BusyIds
    /\ Fresh => /\ BusyIds = {} /\ OnRing = {} /\ resume_list = <<>> /\ resume_split = <<>>
                /\ idle # <<>> /\ Head(idle) = 0
    /\ connected = "SUSPENDED" /\ xb \in {"flush", "wait"} => BusyIds \subseteq 0 .. size - 1
    /\ xb = "recover" => BusyIds \subseteq 0 .. old - 1
    /\ connected = "SUSPENDED" /\ xb \in {"wait", "recover", "kick"} => OnRing = {}

(* A request is in one place, as long as it has not ended.                 *)
Held ==
    /\ result \in [Reqs -> {"new", "pending", "ok", "error"}]
    /\ Once(queue) /\ OnceReq(resume_list)
    /\ \A i, j \in BusyIds : shadow[i].req = shadow[j].req => i = j
    /\ ToSet(queue) \cap BusyReqs = {}
    /\ ToSet(queue) \cap ReqsOf(resume_list) = {}
    /\ BusyReqs \cap ReqsOf(resume_list) = {}
    /\ ToSet(queue) \cup BusyReqs \cup ReqsOf(resume_list) = Pending

(* An entry of resume_split is about the request its shadow entry holds.   *)
Splits ==
    /\ OnceId(resume_split)
    /\ \A k \in DOMAIN resume_split :
           LET e == resume_split[k]
           IN  /\ e.id \in BusyIds /\ shadow[e.id].req = e.req
               /\ shadow[e.id].op = "indirect"

Watched ==
    connected = "CONNECTED" /\ lock = "none" /\ stopped
        => sent # {} \/ answers # <<>> \/ callback \/ work

WInv == /\ Sequences /\ Numbers /\ Phases /\ Drains /\ Apart
        /\ Entries /\ Held /\ Splits /\ Watched
-----------------------------------------------------------------------------
(* The ring and the free list.                                             *)

LEMMA IdsAre == Ids = 0 .. MaxRing - 1 /\ Ids \subseteq Nat
BY Sizes DEF Ids

(* As long as the ring is not full there is a free entry.                  *)
LEMMA FreeId ==
    ASSUME Sequences, Numbers, Entries, Ready, ~RingFull
    PROVE  /\ idle # <<>> /\ Head(idle) \in 0 .. size - 1 /\ Head(idle) \in Ids
           /\ Head(idle) \notin BusyIds /\ Head(idle) \notin OnRing
           /\ IsSeq(Tail(idle)) /\ Once(Tail(idle))
           /\ ToSet(Tail(idle)) = ToSet(idle) \ {Head(idle)}
<1> DEFINE All == 0 .. size - 1
<1>1. /\ OnRing = BusyIds /\ BusyIds \subseteq All
      /\ Once(idle) /\ ToSet(idle) = All \ BusyIds
  BY Zenon DEF Entries
<1>2. /\ IsSeq(batch) /\ IsSeq(answers) /\ IsFiniteSet(sent) /\ IsSeq(idle)
  BY Zenon DEF Sequences
<1>3. size \in Nat /\ All \subseteq Ids
  <2>1. size \in 0 .. MaxRing
    BY Zenon DEF Numbers
  <2> QED BY <2>1, Sizes, IdsAre
<1>4. Len(batch) + Cardinality(sent) + Len(answers) < size
  <2>1. ~(Len(batch) + Cardinality(sent) + Len(answers) >= size)
    BY DEF RingFull
  <2>2. Len(batch) \in Nat /\ Len(answers) \in Nat /\ Cardinality(sent) \in Nat
    BY <1>2, SeqIs, FS_CardinalityType
  <2> QED BY <2>1, <2>2, <1>3
<1>5. IsFiniteSet(OnRing) /\ Cardinality(OnRing) <= Len(batch) + Cardinality(sent) + Len(answers)
  <2> DEFINE A == IdsOf(batch) C == IdsOf(answers)
  <2>1. /\ IsFiniteSet(A) /\ Cardinality(A) <= Len(batch)
        /\ IsFiniteSet(SentIds) /\ Cardinality(SentIds) <= Cardinality(sent)
        /\ IsFiniteSet(C) /\ Cardinality(C) <= Len(answers)
    BY <1>2, IdsSize, SetIdsSize DEF SentIds
  <2> HIDE DEF A, C
  <2>2. /\ IsFiniteSet(A \cup SentIds)
        /\ Cardinality(A \cup SentIds) <= Cardinality(A) + Cardinality(SentIds)
        /\ Cardinality(A) \in Nat /\ Cardinality(SentIds) \in Nat
        /\ Cardinality(A \cup SentIds) \in Nat
    BY <2>1, TwoSets
  <2>3. /\ IsFiniteSet((A \cup SentIds) \cup C)
        /\ Cardinality((A \cup SentIds) \cup C) <= Cardinality(A \cup SentIds) + Cardinality(C)
        /\ Cardinality(C) \in Nat /\ Cardinality((A \cup SentIds) \cup C) \in Nat
    BY <2>1, <2>2, TwoSets
  <2>4. OnRing = (A \cup SentIds) \cup C
    BY Zenon DEF OnRing, A, C
  <2>5. Len(batch) \in Nat /\ Len(answers) \in Nat /\ Cardinality(sent) \in Nat
    BY <1>2, SeqIs, FS_CardinalityType
  <2>6. Cardinality((A \cup SentIds) \cup C) <= Len(batch) + Cardinality(sent) + Len(answers)
    BY <2>1, <2>2, <2>3, <2>5
  <2> QED BY <2>3, <2>4, <2>6
<1>6. Cardinality(OnRing) \in Nat
  BY <1>5, FS_CardinalityType
<1>7. Cardinality(OnRing) < size
  <2>1. Len(batch) \in Nat /\ Len(answers) \in Nat /\ Cardinality(sent) \in Nat
    BY <1>2, SeqIs, FS_CardinalityType
  <2> QED BY <1>3, <1>4, <1>5, <1>6, <2>1
<1>8. idle # <<>>
  <2> SUFFICES ASSUME idle = <<>> PROVE FALSE
    OBVIOUS
  <2>1. All \ BusyIds = {}
    BY <1>1, EmptyIs, Zenon
  <2>2. OnRing = All
    BY <1>1, <2>1
  <2>3. Cardinality(0 .. size - 1) = IF 0 > size - 1 THEN 0 ELSE size - 1 - 0 + 1
    BY <1>3, FS_Interval
  <2>4. Cardinality(All) = size
    BY <1>3, <2>3
  <2> QED BY <1>3, <1>6, <1>7, <2>2, <2>4
<1> HIDE DEF All
<1>9. IsSeq(Tail(idle)) /\ LessOne(Tail(idle), idle, Head(idle))
  BY <1>2, <1>8, TailIs
<1>10. /\ Once(Tail(idle)) /\ ToSet(Tail(idle)) = ToSet(idle) \ {Head(idle)}
       /\ Head(idle) \in ToSet(idle)
  BY <1>1, <1>9 DEF LessOne
<1>11. Head(idle) \in All /\ Head(idle) \notin BusyIds
  BY <1>1, <1>10
<1> QED BY <1>1, <1>3, <1>8, <1>9, <1>10, <1>11 DEF All

(* A request m goes on the ring with the first free entry, which becomes c.*)
Puts(m, c) ==
    /\ m.id = Head(idle) /\ c.req # NoReq
    /\ batch' = Append(batch, m) /\ idle' = Tail(idle)
    /\ shadow' = [shadow EXCEPT ![Head(idle)] = c]
    /\ UNCHANGED <<sent, answers, size>>

LEMMA PutKeeps ==
    ASSUME Sequences, Numbers, Entries, Ready, Apart, ~RingFull, NEW m, NEW c, Puts(m, c)
    PROVE  /\ IsSeq(batch') /\ IsSeq(idle') /\ ToSet(idle') \subseteq Ids
           /\ DOMAIN shadow' = Ids /\ Apart' /\ OnRing' = BusyIds' /\ BusyIds' = BusyIds \cup {Head(idle)}
           /\ BusyIds' \subseteq 0 .. size - 1
           /\ Once(idle') /\ ToSet(idle') = (0 .. size - 1) \ BusyIds'
           /\ Head(idle) \in Ids /\ Head(idle) \notin BusyIds
           /\ shadow'[Head(idle)] = c /\ \A i \in BusyIds : shadow'[i] = shadow[i]
<1> DEFINE h == Head(idle)
<1>1. /\ h \in 0 .. size - 1 /\ h \in Ids /\ h \notin BusyIds /\ h \notin OnRing
      /\ IsSeq(Tail(idle)) /\ Once(Tail(idle)) /\ ToSet(Tail(idle)) = ToSet(idle) \ {h}
  BY FreeId
<1>2. /\ OnRing = BusyIds /\ BusyIds \subseteq 0 .. size - 1
      /\ ToSet(idle) = (0 .. size - 1) \ BusyIds
  BY Zenon DEF Entries
<1>3. IsSeq(batch) /\ DOMAIN shadow = Ids
  BY Zenon DEF Sequences, Numbers
<1>4. /\ m.id = h /\ c.req # NoReq /\ batch' = Append(batch, m) /\ idle' = Tail(idle)
      /\ shadow' = [shadow EXCEPT ![h] = c] /\ sent' = sent /\ answers' = answers
  BY Zenon DEF Puts
<1> HIDE DEF h
<1>5. IsSeq(batch') /\ WithOne(batch', batch, m)
  <2>1. Longer(batch', batch, m) /\ WithOne(batch', batch, m)
    BY <1>3, <1>4, AppendIs, Zenon
  <2> QED BY <2>1, Zenon DEF Longer
<1>6. IdsOf(batch') = IdsOf(batch) \cup {h} /\ SentIds' = SentIds /\ IdsOf(answers') = IdsOf(answers)
  BY <1>4, <1>5, Zenon DEF WithOne, SentIds
<1>7. OnRing' = OnRing \cup {h}
  BY <1>6 DEF OnRing
<1>8. DOMAIN shadow' = Ids /\ shadow'[h] = c /\ \A i \in Ids \ {h} : shadow'[i] = shadow[i]
  BY <1>1, <1>3, <1>4
<1>9. BusyIds' = BusyIds \cup {h}
  BY <1>1, <1>4, <1>8 DEF BusyIds
<1>10. Apart'
  <2>1. h \notin IdsOf(batch) /\ h \notin SentIds /\ h \notin IdsOf(answers)
    BY <1>1 DEF OnRing
  <2>2. OnceId(batch')
    BY <1>4, <1>5, <2>1, Zenon DEF WithOne, Apart
  <2>3. OnceId(answers') /\ \A x, y \in sent' : x.id = y.id => x = y
    BY <1>4, Zenon DEF Apart
  <2>4. /\ IdsOf(batch) \cap SentIds = {} /\ IdsOf(batch) \cap IdsOf(answers) = {}
        /\ SentIds \cap IdsOf(answers) = {}
    BY Zenon DEF Apart
  <2>5. /\ IdsOf(batch') \cap SentIds' = {} /\ IdsOf(batch') \cap IdsOf(answers') = {}
        /\ SentIds' \cap IdsOf(answers') = {}
    BY <1>6, <2>1, <2>4
  <2> QED BY <2>2, <2>3, <2>5, Zenon DEF Apart
<1>11. ToSet(idle') = (0 .. size - 1) \ BusyIds'
  BY <1>1, <1>2, <1>4, <1>9
<1>12. \A i \in BusyIds : shadow'[i] = shadow[i]
  BY <1>1, <1>8 DEF BusyIds
<1>13. ToSet(idle') \subseteq Ids
  <2>1. ToSet(idle) \subseteq Ids
    BY Zenon DEF Sequences
  <2> QED BY <1>1, <1>4, <2>1
<1> QED BY <1>1, <1>2, <1>4, <1>5, <1>7, <1>8, <1>9, <1>10, <1>11, <1>12, <1>13 DEF h

(* The first response is taken and its entry goes back.                    *)
LEMMA ReleaseKeeps ==
    ASSUME Sequences, Numbers, Entries, Ready, Apart, answers # <<>>,
           answers' = Tail(answers), Release(Head(answers).id), UNCHANGED <<batch, sent, size>>
    PROVE  LET id == Head(answers).id
           IN  /\ IsSeq(answers') /\ IsSeq(idle') /\ ToSet(idle') \subseteq Ids
               /\ DOMAIN shadow' = Ids
               /\ Apart' /\ OnRing' = BusyIds' /\ BusyIds' = BusyIds \ {id}
               /\ BusyIds' \subseteq 0 .. size - 1
               /\ Once(idle') /\ ToSet(idle') = (0 .. size - 1) \ BusyIds'
               /\ id \in BusyIds /\ \A i \in BusyIds' : shadow'[i] = shadow[i]
<1> DEFINE id == Head(answers).id
<1>1. /\ OnRing = BusyIds /\ BusyIds \subseteq 0 .. size - 1 /\ Once(idle)
      /\ ToSet(idle) = (0 .. size - 1) \ BusyIds
  BY Zenon DEF Entries
<1>2. IsSeq(answers) /\ IsSeq(idle) /\ DOMAIN shadow = Ids
  BY Zenon DEF Sequences, Numbers
<1>3. /\ shadow' = [shadow EXCEPT ![id] = Empty] /\ idle' = <<id>> \o idle
      /\ answers' = Tail(answers) /\ batch' = batch /\ sent' = sent
  BY Zenon DEF Release
<1>4. IsSeq(answers') /\ LessOne(answers', answers, Head(answers))
  BY <1>2, <1>3, TailIs, Zenon
<1>5. /\ OnceId(batch) /\ OnceId(answers)
      /\ \A m, n \in sent : m.id = n.id => m = n
      /\ IdsOf(batch) \cap SentIds = {} /\ IdsOf(batch) \cap IdsOf(answers) = {}
      /\ SentIds \cap IdsOf(answers) = {}
  BY Zenon DEF Apart
<1>6. OnceId(answers') /\ IdsOf(answers') = IdsOf(answers) \ {id} /\ id \in IdsOf(answers)
  BY <1>4, <1>5, Zenon DEF LessOne
<1> HIDE DEF id
<1>7. SentIds' = SentIds /\ IdsOf(batch') = IdsOf(batch)
  BY <1>3, Zenon DEF SentIds
<1>8. OnRing' = OnRing \ {id} /\ id \in OnRing
  <2>1. id \notin IdsOf(batch) /\ id \notin SentIds
    BY <1>5, <1>6
  <2> QED BY <1>6, <1>7, <2>1 DEF OnRing
<1>9. Apart'
  <2>1. /\ IdsOf(batch') \cap SentIds' = {} /\ IdsOf(batch') \cap IdsOf(answers') = {}
        /\ SentIds' \cap IdsOf(answers') = {}
    BY <1>5, <1>6, <1>7
  <2> QED BY <1>3, <1>5, <1>6, <2>1, Zenon DEF Apart
<1>10. id \in BusyIds /\ id \in Ids
  BY <1>1, <1>8 DEF BusyIds
<1>11. DOMAIN shadow' = Ids /\ shadow'[id] = Empty /\ \A i \in Ids \ {id} : shadow'[i] = shadow[i]
  BY <1>2, <1>3, <1>10
<1>12. BusyIds' = BusyIds \ {id}
  <2>1. shadow'[id].req = NoReq
    BY <1>11 DEF Empty, Copy
  <2> QED BY <1>10, <1>11, <2>1 DEF BusyIds
<1>13. \A i \in BusyIds' : shadow'[i] = shadow[i]
  BY <1>11, <1>12 DEF BusyIds
<1>14. /\ IsSeq(idle') /\ ToSet(idle') = ToSet(idle) \cup {id}
       /\ Once(idle) /\ id \notin ToSet(idle) => Once(idle')
  BY <1>2, <1>3, PrefixIs, Zenon
<1>15. Once(idle') /\ ToSet(idle') = (0 .. size - 1) \ BusyIds'
  BY <1>1, <1>10, <1>12, <1>14
<1>16. BusyIds' \subseteq 0 .. size - 1
  BY <1>1, <1>12
<1>17. ToSet(idle') \subseteq Ids
  <2>1. ToSet(idle) \subseteq Ids
    BY Zenon DEF Sequences
  <2> QED BY <1>10, <1>14, <2>1
<1> QED BY <1>1, <1>4, <1>8, <1>9, <1>10, <1>11, <1>12, <1>13, <1>14, <1>15, <1>16, <1>17 DEF id

(* The requests queued on the ring are pushed.                             *)
LEMMA FlushKeeps ==
    ASSUME Sequences, Numbers, Apart, Flush, UNCHANGED <<answers, size>>
    PROVE  /\ IsSeq(batch') /\ IsFiniteSet(sent') /\ Apart' /\ OnRing' = OnRing
           /\ RingFull => RingFull'
           /\ batch' = <<>> /\ sent \subseteq sent'
<1>1. /\ IsSeq(batch) /\ IsSeq(answers) /\ IsFiniteSet(sent)
      /\ OnceId(batch) /\ OnceId(answers)
      /\ \A m, n \in sent : m.id = n.id => m = n
      /\ IdsOf(batch) \cap SentIds = {} /\ IdsOf(batch) \cap IdsOf(answers) = {}
      /\ SentIds \cap IdsOf(answers) = {}
  BY Zenon DEF Apart, Sequences
<1>2. sent' = sent \cup ToSet(batch) /\ batch' = <<>> /\ answers' = answers
  BY Zenon DEF Flush
<1>3. IsSeq(batch') /\ OnceId(batch') /\ IdsOf(batch') = {} /\ Len(batch') = 0
  BY <1>2, EmptyIs, Zenon
<1>4. IsFiniteSet(ToSet(batch)) /\ (Once(batch) => Cardinality(ToSet(batch)) = Len(batch))
  BY <1>1, ToSetSize, Zenon
<1>5. Once(batch)
  BY <1>1, Zenon DEF Once, OnceId
<1>6. SentIds' = SentIds \cup IdsOf(batch)
  <2>1. \A x \in SentIds' : x \in SentIds \cup IdsOf(batch)
    BY <1>2 DEF SentIds, IdsOf, ToSet
  <2>2. \A x \in SentIds : x \in SentIds'
    BY <1>2 DEF SentIds
  <2>3. \A x \in IdsOf(batch) : x \in SentIds'
    <3> SUFFICES ASSUME NEW k \in DOMAIN batch PROVE batch[k].id \in SentIds'
      BY DEF IdsOf
    <3>1. batch[k] \in sent'
      BY <1>2 DEF ToSet
    <3> QED BY <3>1 DEF SentIds
  <2> QED BY <2>1, <2>2, <2>3
<1>7. OnRing' = OnRing
  BY <1>2, <1>3, <1>6 DEF OnRing
<1>8. ASSUME NEW m \in sent', NEW n \in sent', m.id = n.id PROVE m = n
  <2>1. \A x \in sent : x.id \in SentIds
    BY DEF SentIds
  <2>2. \A x \in ToSet(batch) : x.id \in IdsOf(batch)
    BY DEF ToSet, IdsOf
  <2>3. \A x, y \in ToSet(batch) : x.id = y.id => x = y
    BY <1>1 DEF ToSet, OnceId
  <2> QED BY <1>1, <1>2, <1>8, <2>1, <2>2, <2>3
<1>9. Apart'
  <2>1. /\ IdsOf(batch') \cap SentIds' = {} /\ IdsOf(batch') \cap IdsOf(answers') = {}
        /\ SentIds' \cap IdsOf(answers') = {} /\ OnceId(answers')
    BY <1>1, <1>2, <1>3, <1>6
  <2> QED BY <1>3, <1>8, <2>1, Zenon DEF Apart
<1>10. sent \cap ToSet(batch) = {}
  <2>1. \A x \in sent : x.id \in SentIds
    BY DEF SentIds
  <2>2. \A x \in ToSet(batch) : x.id \in IdsOf(batch)
    BY DEF ToSet, IdsOf
  <2> QED BY <1>1, <2>1, <2>2
<1>11. IsFiniteSet(sent') /\ Cardinality(sent') = Cardinality(sent) + Len(batch)
  BY <1>1, <1>2, <1>4, <1>5, <1>10, TwoSets
<1>12. RingFull => RingFull'
  <2>1. Cardinality(sent) \in Nat /\ Len(batch) \in Nat /\ Len(answers) \in Nat /\ size \in Nat
    <3>1. size \in 0 .. MaxRing
      BY Zenon DEF Numbers
    <3> QED BY <1>1, <3>1, SeqIs, FS_CardinalityType
  <2>2. Len(batch') + Cardinality(sent') + Len(answers') = Len(batch) + Cardinality(sent) + Len(answers)
    BY <1>2, <1>3, <1>11, <2>1
  <2> QED BY <2>2, Zenon DEF RingFull
<1> QED BY <1>2, <1>3, <1>7, <1>9, <1>11, <1>12

LEMMA AnswerKeeps ==
    ASSUME Sequences, Numbers, Apart, NEW m \in sent, NEW ok, Answer(m, ok)
    PROVE  /\ IsSeq(answers') /\ IsFiniteSet(sent') /\ Apart' /\ OnRing' = OnRing
           /\ answers' # <<>> /\ (RingFull => RingFull')
<1> DEFINE a == [id |-> m.id, ok |-> ok]
<1>1. /\ IsSeq(batch) /\ IsSeq(answers) /\ IsFiniteSet(sent)
      /\ OnceId(batch) /\ OnceId(answers)
      /\ \A x, y \in sent : x.id = y.id => x = y
      /\ IdsOf(batch) \cap SentIds = {} /\ IdsOf(batch) \cap IdsOf(answers) = {}
      /\ SentIds \cap IdsOf(answers) = {}
  BY Zenon DEF Apart, Sequences
<1>2. sent' = sent \ {m} /\ answers' = Append(answers, a) /\ batch' = batch /\ size' = size
  BY DEF Answer, conn
<1>3. a.id = m.id
  OBVIOUS
<1> HIDE DEF a
<1>4. Longer(answers', answers, a) /\ WithOne(answers', answers, a)
  BY <1>1, <1>2, AppendIs, Zenon
<1>5. m.id \in SentIds
  BY DEF SentIds
<1>6. IdsOf(answers') = IdsOf(answers) \cup {m.id} /\ (m.id \notin IdsOf(answers) => OnceId(answers'))
  BY <1>1, <1>3, <1>4, Zenon DEF WithOne
<1>7. SentIds' = SentIds \ {m.id}
  <2>1. \A x \in SentIds' : x \in SentIds \ {m.id}
    BY <1>1, <1>2 DEF SentIds
  <2>2. \A x \in SentIds \ {m.id} : x \in SentIds'
    BY <1>2 DEF SentIds
  <2> QED BY <2>1, <2>2
<1>8. OnceId(answers') /\ IdsOf(batch') = IdsOf(batch)
  BY <1>1, <1>2, <1>5, <1>6
<1>9. OnRing' = OnRing
  BY <1>5, <1>6, <1>7, <1>8 DEF OnRing
<1>10. Apart'
  <2>1. /\ IdsOf(batch') \cap SentIds' = {} /\ IdsOf(batch') \cap IdsOf(answers') = {}
        /\ SentIds' \cap IdsOf(answers') = {}
    BY <1>1, <1>5, <1>6, <1>7, <1>8
  <2>2. \A x, y \in sent' : x.id = y.id => x = y
    BY <1>1, <1>2
  <2>3. OnceId(batch')
    BY <1>1, <1>2, Zenon
  <2> QED BY <1>8, <2>1, <2>2, <2>3, Zenon DEF Apart
<1>11. IsFiniteSet(sent') /\ Cardinality(sent') = Cardinality(sent) - 1
  BY <1>1, <1>2, FS_RemoveElement
<1>12. IsSeq(answers') /\ answers' # <<>> /\ Len(answers') = Len(answers) + 1
  BY <1>4, Zenon DEF Longer
<1>13. RingFull => RingFull'
  <2>1. Cardinality(sent) \in Nat /\ Len(batch) \in Nat /\ Len(answers) \in Nat /\ size \in Nat
    <3>1. size \in 0 .. MaxRing
      BY Zenon DEF Numbers
    <3> QED BY <1>1, <3>1, SeqIs, FS_CardinalityType
  <2>2. Len(batch') + Cardinality(sent') + Len(answers') = Len(batch) + Cardinality(sent) + Len(answers)
    <3>1. Len(batch') = Len(batch)
      BY <1>2, Zenon
    <3> QED BY <1>11, <1>12, <2>1, <3>1
  <2> QED BY <1>2, <2>2, Zenon DEF RingFull
<1> QED BY <1>9, <1>10, <1>11, <1>12, <1>13
-----------------------------------------------------------------------------
(* The steps that leave the ring, the entries and the lists alone.         *)

LEMMA StillKeeps ==
    ASSUME WInv, UNCHANGED <<queue, result, ring, ids, rec, size, old>>
    PROVE  /\ Sequences' /\ Apart' /\ Held' /\ Splits'
           /\ BusyIds' = BusyIds /\ OnRing' = OnRing /\ RingFull' = RingFull
           /\ ToSet(idle') = ToSet(idle) /\ Once(idle') = Once(idle)
           /\ UNCHANGED <<sent, answers, idle, resume_list, resume_split, size, old>>
<1>1. /\ queue' = queue /\ result' = result /\ batch' = batch /\ sent' = sent
      /\ answers' = answers /\ idle' = idle /\ shadow' = shadow /\ resume_list' = resume_list
      /\ resume_split' = resume_split /\ size' = size /\ old' = old
  BY DEF ring, ids, rec
<1>2. BusyIds' = BusyIds /\ BusyReqs' = BusyReqs /\ SentIds' = SentIds
  BY <1>1, Zenon DEF BusyIds, BusyReqs, SentIds
<1>3. OnRing' = OnRing /\ RingFull' = RingFull /\ Pending' = Pending
  BY <1>1, <1>2, Zenon DEF OnRing, RingFull, Pending
<1>4. Sequences'
  BY <1>1, Zenon DEF WInv, Sequences
<1>5. Apart'
  BY <1>1, <1>2, Zenon DEF WInv, Apart
<1>6. Held'
  <2>1. Held
    BY DEF WInv
  <2> QED BY <1>1, <1>2, <1>3, <2>1, Zenon DEF Held
<1>7. Splits'
  BY <1>1, <1>2, Zenon DEF WInv, Splits
<1> QED BY <1>1, <1>2, <1>3, <1>4, <1>5, <1>6, <1>7, Zenon

LEMMA StillEnough ==
    ASSUME WInv, UNCHANGED <<queue, result, ring, ids, rec, size, old>>,
           Numbers', Phases', Drains', Entries', Watched'
    PROVE  WInv'
BY StillKeeps, Zenon DEF WInv

LEMMA LockKeeps ==
    ASSUME CInv, WInv, RunQueue \/ Interrupt \/ Work \/ HandleEnds
    PROVE  WInv'
<1>1. /\ UNCHANGED <<queue, result, ring, ids, rec, size, old>>
      /\ UNCHANGED <<stopped, connected, xb, limit, callback, backend>>
      /\ lock' # "none" \/ connected # "CONNECTED"
      /\ work' \in {FALSE, work}
      /\ lock' = "issue" => ~stopped
      /\ lock' = "handle" => backend.state = "Connected"
      /\ lock' = "none" => lock = "none"
  BY DEF RunQueue, Interrupt, Work, HandleEnds, ring, ids, rec, conn, mem, env
<1>2. /\ BusyIds' = BusyIds /\ OnRing' = OnRing /\ RingFull' = RingFull
      /\ ToSet(idle') = ToSet(idle) /\ Once(idle') = Once(idle)
      /\ UNCHANGED <<sent, answers, idle, resume_list, resume_split, size, old>>
  BY <1>1, StillKeeps, Zenon
<1>3. Numbers'
  <2>1. DOMAIN shadow' = DOMAIN shadow
    BY <1>1 DEF ids
  <2> QED BY <1>1, <2>1 DEF WInv, Numbers
<1>4. Ready' = Ready /\ Fresh' = Fresh
  BY <1>1, Zenon DEF Ready, Fresh
<1>5. Phases'
  BY <1>1, <1>2, <1>4 DEF WInv, Phases
<1>6. Drains'
  BY <1>1, <1>2 DEF WInv, Drains
<1>7. Entries'
  BY <1>1, <1>2, <1>4, Zenon DEF WInv, Entries
<1>8. Watched'
  BY <1>1, Zenon DEF Watched
<1> QED BY <1>1, <1>3, <1>5, <1>6, <1>7, <1>8, StillEnough

LEMMA ProbeKeeps ==
    ASSUME CInv, WInv, Probe
    PROVE  WInv'
<1>1. /\ UNCHANGED <<queue, result, ring, ids, rec, size, old>>
      /\ UNCHANGED <<stopped, connected, lock, limit, callback, work, backend>>
      /\ xb = "probe" /\ xb' = "wait"
  BY DEF Probe, io, ring, ids, rec, mem, env
<1>2. /\ BusyIds' = BusyIds /\ OnRing' = OnRing /\ RingFull' = RingFull
      /\ ToSet(idle') = ToSet(idle) /\ Once(idle') = Once(idle)
      /\ UNCHANGED <<sent, answers, idle, resume_list, resume_split, size, old>>
  BY <1>1, StillKeeps, Zenon
<1>3. Numbers'
  <2>1. DOMAIN shadow' = DOMAIN shadow
    BY <1>1 DEF ids
  <2> QED BY <1>1, <2>1 DEF WInv, Numbers
<1>5. Phases'
  BY <1>1, <1>2 DEF WInv, Phases, Ready, CInv, Control
<1>6. Drains'
  BY <1>1, <1>2 DEF WInv, Drains, Phases
<1>7. Entries'
  BY <1>1, <1>2 DEF WInv, Entries, Ready, Fresh, Phases, CInv, Control
<1>8. Watched'
  BY <1>1, <1>2 DEF WInv, Watched
<1> QED BY <1>1, <1>3, <1>5, <1>6, <1>7, <1>8, StillEnough

LEMMA ConnectKeeps ==
    ASSUME CInv, WInv, Connect
    PROVE  WInv'
<1>1. /\ UNCHANGED <<queue, result, ring, ids, rec, size, old>>
      /\ UNCHANGED <<stopped, connected, lock, callback, work, backend>>
      /\ xb = "initialised" /\ xb' = "connecting" /\ limit = 0
  BY DEF Connect, io, ring, ids, rec, mem, env
<1>2. /\ BusyIds' = BusyIds /\ OnRing' = OnRing /\ RingFull' = RingFull
      /\ ToSet(idle') = ToSet(idle) /\ Once(idle') = Once(idle)
      /\ UNCHANGED <<sent, answers, idle, resume_list, resume_split, size, old>>
  BY <1>1, StillKeeps, Zenon
<1>3. Numbers'
  <2>1. DOMAIN shadow' = DOMAIN shadow
    BY <1>1 DEF ids
  <2> QED BY <1>1, <2>1 DEF WInv, Numbers
<1>5. Phases'
  BY <1>1, <1>2 DEF WInv, Phases, Ready, CInv, Control
<1>6. Drains'
  BY <1>1, <1>2 DEF WInv, Drains, Phases
<1>7. Entries'
  BY <1>1, <1>2 DEF WInv, Entries, Ready, Fresh, Phases, CInv, Control
<1>8. Watched'
  BY <1>1, <1>2 DEF WInv, Watched
<1> QED BY <1>1, <1>3, <1>5, <1>6, <1>7, <1>8, StillEnough

LEMMA ConnectKicksKeeps ==
    ASSUME CInv, WInv, ConnectKicks
    PROVE  WInv'
<1>1. /\ UNCHANGED <<queue, result, ring, ids, rec, size, old>>
      /\ UNCHANGED <<stopped, limit, callback, work, backend>>
      /\ xb = "connecting" /\ xb' = "idle" /\ connected' = "CONNECTED" /\ lock' = "replay"
  BY DEF ConnectKicks, ring, ids, rec, mem, env
<1>2. /\ BusyIds' = BusyIds /\ OnRing' = OnRing /\ RingFull' = RingFull
      /\ ToSet(idle') = ToSet(idle) /\ Once(idle') = Once(idle)
      /\ UNCHANGED <<sent, answers, idle, resume_list, resume_split, size, old>>
  BY <1>1, StillKeeps, Zenon
<1>3. Numbers'
  <2>1. DOMAIN shadow' = DOMAIN shadow
    BY <1>1 DEF ids
  <2> QED BY <1>1, <2>1 DEF WInv, Numbers
<1>5. Phases'
  BY <1>1, <1>2 DEF WInv, Phases, Ready, CInv, Control
<1>6. Drains'
  BY <1>1, <1>2 DEF WInv, Drains, Phases
<1>7. Entries'
  BY <1>1, <1>2 DEF WInv, Entries, Ready, Fresh, Phases, CInv, Control
<1>8. Watched'
  BY <1>1, <1>2 DEF WInv, Watched
<1> QED BY <1>1, <1>3, <1>5, <1>6, <1>7, <1>8, StillEnough

LEMMA RecoverKicksKeeps ==
    ASSUME CInv, WInv, RecoverKicks
    PROVE  WInv'
<1>1. /\ UNCHANGED <<queue, result, ring, ids, rec, size, old>>
      /\ UNCHANGED <<stopped, limit, callback, work, backend>>
      /\ xb = "kick" /\ xb' = "surplus" /\ connected' = "CONNECTED" /\ lock' = "replay"
  BY DEF RecoverKicks, ring, ids, rec, mem, env
<1>2. /\ BusyIds' = BusyIds /\ OnRing' = OnRing /\ RingFull' = RingFull
      /\ ToSet(idle') = ToSet(idle) /\ Once(idle') = Once(idle)
      /\ UNCHANGED <<sent, answers, idle, resume_list, resume_split, size, old>>
  BY <1>1, StillKeeps, Zenon
<1>3. Numbers'
  <2>1. DOMAIN shadow' = DOMAIN shadow
    BY <1>1 DEF ids
  <2> QED BY <1>1, <2>1 DEF WInv, Numbers
<1>5. Phases'
  BY <1>1, <1>2 DEF WInv, Phases, Ready, CInv, Control
<1>6. Drains'
  BY <1>1, <1>2 DEF WInv, Drains, Phases
<1>7. Entries'
  BY <1>1, <1>2 DEF WInv, Entries, Ready, Fresh, Phases, CInv, Control
<1>8. Watched'
  BY <1>1, <1>2 DEF WInv, Watched
<1> QED BY <1>1, <1>3, <1>5, <1>6, <1>7, <1>8, StillEnough

LEMMA FreeSurplusKeeps ==
    ASSUME CInv, WInv, FreeSurplus
    PROVE  WInv'
<1>1. /\ UNCHANGED <<queue, result, ring, ids, rec, size, old>>
      /\ UNCHANGED <<stopped, connected, lock, limit, callback, work, backend>>
      /\ xb = "surplus" /\ xb' = "idle" /\ lock = "none"
  BY DEF FreeSurplus, io, ring, ids, rec, mem, env
<1>2. /\ BusyIds' = BusyIds /\ OnRing' = OnRing /\ RingFull' = RingFull
      /\ ToSet(idle') = ToSet(idle) /\ Once(idle') = Once(idle)
      /\ UNCHANGED <<sent, answers, idle, resume_list, resume_split, size, old>>
  BY <1>1, StillKeeps, Zenon
<1>3. Numbers'
  <2>1. DOMAIN shadow' = DOMAIN shadow
    BY <1>1 DEF ids
  <2> QED BY <1>1, <2>1 DEF WInv, Numbers
<1>5. Phases'
  BY <1>1, <1>2 DEF WInv, Phases, Ready, CInv, Control
<1>6. Drains'
  BY <1>1, <1>2 DEF WInv, Drains, Phases
<1>7. Entries'
  BY <1>1, <1>2 DEF WInv, Entries, Ready, Fresh, Phases, CInv, Control
<1>8. Watched'
  BY <1>1, <1>2 DEF WInv, Watched
<1> QED BY <1>1, <1>3, <1>5, <1>6, <1>7, <1>8, StillEnough

LEMMA ResumeKeeps ==
    ASSUME CInv, WInv, Resume
    PROVE  WInv'
<1>1. /\ UNCHANGED <<queue, result, ring, ids, rec, size, old>>
      /\ UNCHANGED <<lock, limit, work, backend>>
      /\ xb = "resume" /\ xb' = "flush" /\ lock = "none" /\ callback' = FALSE
      /\ connected' = IF connected = "CONNECTED" THEN "SUSPENDED" ELSE "DISCONNECTED"
  BY DEF Resume, ring, ids, rec, mem, env
<1>2. /\ BusyIds' = BusyIds /\ OnRing' = OnRing /\ RingFull' = RingFull
      /\ ToSet(idle') = ToSet(idle) /\ Once(idle') = Once(idle)
      /\ UNCHANGED <<sent, answers, idle, resume_list, resume_split, size, old>>
  BY <1>1, StillKeeps, Zenon
<1>3. Numbers'
  <2>1. DOMAIN shadow' = DOMAIN shadow
    BY <1>1 DEF ids
  <2> QED BY <1>1, <2>1 DEF WInv, Numbers
<1>5. Phases'
  BY <1>1, <1>2 DEF WInv, Phases, Ready, CInv, Control
<1>6. Drains'
  BY <1>1, <1>2 DEF WInv, Drains, Phases
<1>7. Entries'
  BY <1>1, <1>2 DEF WInv, Entries, Ready, Fresh, Phases, CInv, Control
<1>8. Watched'
  BY <1>1, <1>2 DEF WInv, Watched
<1> QED BY <1>1, <1>3, <1>5, <1>6, <1>7, <1>8, StillEnough

LEMMA PoolKeeps ==
    ASSUME CInv, WInv, OtherTakes \/ OtherReleases
    PROVE  WInv'
<1>1. /\ UNCHANGED <<queue, result, ring, ids, rec, size, old>>
      /\ UNCHANGED <<stopped, connected, lock, limit, backend, xb>>
      /\ callback' \in BOOLEAN /\ work' \in BOOLEAN
      /\ callback \/ work => callback' \/ work'
  BY DEF OtherTakes, OtherReleases, Freed, WInv, Numbers, io, ring, ids, rec, conn, env
<1>2. /\ BusyIds' = BusyIds /\ OnRing' = OnRing /\ RingFull' = RingFull
      /\ ToSet(idle') = ToSet(idle) /\ Once(idle') = Once(idle)
      /\ UNCHANGED <<sent, answers, idle, resume_list, resume_split, size, old>>
  BY <1>1, StillKeeps, Zenon
<1>3. Numbers'
  <2>1. DOMAIN shadow' = DOMAIN shadow
    BY <1>1 DEF ids
  <2> QED BY <1>1, <2>1 DEF WInv, Numbers
<1>5. Phases'
  BY <1>1, <1>2 DEF WInv, Phases, Ready, CInv, Control
<1>6. Drains'
  BY <1>1, <1>2 DEF WInv, Drains, Phases
<1>7. Entries'
  BY <1>1, <1>2 DEF WInv, Entries, Ready, Fresh, Phases, CInv, Control
<1>8. Watched'
  BY <1>1, <1>2 DEF WInv, Watched
<1> QED BY <1>1, <1>3, <1>5, <1>6, <1>7, <1>8, StillEnough

LEMMA BackendKeeps ==
    ASSUME CInv, WInv, BackendReady \/ BackendConnects
    PROVE  WInv'
<1>1. /\ UNCHANGED <<queue, result, ring, ids, rec, size, old>>
      /\ UNCHANGED <<stopped, connected, lock, limit, callback, work, xb>>
      /\ backend.state # "Gone" /\ backend'.state # "Gone"
      /\ backend' \in [kind : Backends, state : {"Initialising", "InitWait", "Connected", "Gone"}]
  BY DEF BackendReady, BackendConnects, WInv, Numbers, io, ring, ids, rec, conn, mem
<1>2. /\ BusyIds' = BusyIds /\ OnRing' = OnRing /\ RingFull' = RingFull
      /\ ToSet(idle') = ToSet(idle) /\ Once(idle') = Once(idle)
      /\ UNCHANGED <<sent, answers, idle, resume_list, resume_split, size, old>>
  BY <1>1, StillKeeps, Zenon
<1>3. Numbers'
  <2>1. DOMAIN shadow' = DOMAIN shadow
    BY <1>1 DEF ids
  <2> QED BY <1>1, <2>1 DEF WInv, Numbers
<1>5. Phases'
  BY <1>1, <1>2 DEF WInv, Phases, Ready, CInv, Control
<1>6. Drains'
  BY <1>1, <1>2 DEF WInv, Drains, Phases
<1>7. Entries'
  BY <1>1, <1>2 DEF WInv, Entries, Ready, Fresh, Phases, CInv, Control
<1>8. Watched'
  BY <1>1, <1>2 DEF WInv, Watched
<1> QED BY <1>1, <1>3, <1>5, <1>6, <1>7, <1>8, StillEnough

LEMMA MigrateKeeps ==
    ASSUME CInv, WInv, NEW b \in Backends, Migrate(b), "splitting" \notin When
    PROVE  WInv'
<1>1. /\ UNCHANGED <<queue, result, ring, ids, rec, size, old>>
      /\ UNCHANGED <<stopped, connected, lock, limit, callback, work>>
      /\ xb' = "resume" /\ lock = "none" /\ backend'.state = "Gone"
      /\ backend' \in [kind : Backends, state : {"Initialising", "InitWait", "Connected", "Gone"}]
      /\ connected = "CONNECTED" => resume_split = <<>>
  BY DEF Migrate, Moments, io, ring, ids, rec, mem, conn
<1>2. /\ BusyIds' = BusyIds /\ OnRing' = OnRing /\ RingFull' = RingFull
      /\ ToSet(idle') = ToSet(idle) /\ Once(idle') = Once(idle)
      /\ UNCHANGED <<sent, answers, idle, resume_list, resume_split, size, old>>
  BY <1>1, StillKeeps, Zenon
<1>3. Numbers'
  <2>1. DOMAIN shadow' = DOMAIN shadow
    BY <1>1 DEF ids
  <2> QED BY <1>1, <2>1 DEF WInv, Numbers
<1>5. Phases'
  BY <1>1, <1>2 DEF WInv, Phases, Ready, CInv, Control
<1>6. Drains'
  BY <1>1, <1>2 DEF WInv, Drains, Phases
<1>7. Entries'
  BY <1>1, <1>2 DEF WInv, Entries, Ready, Fresh, Phases, CInv, Control
<1>8. Watched'
  BY <1>1, <1>2 DEF WInv, Watched
<1> QED BY <1>1, <1>3, <1>5, <1>6, <1>7, <1>8, StillEnough

LEMMA StutterKeeps ==
    ASSUME CInv, WInv, UNCHANGED vars
    PROVE  WInv'
<1>1. /\ UNCHANGED <<queue, result, ring, ids, rec, size, old>>
      /\ UNCHANGED <<stopped, connected, lock, limit, callback, work, backend, xb>>
  BY DEF vars, io, ring, ids, rec, mem, conn, env
<1>2. /\ BusyIds' = BusyIds /\ OnRing' = OnRing /\ RingFull' = RingFull
      /\ ToSet(idle') = ToSet(idle) /\ Once(idle') = Once(idle)
      /\ UNCHANGED <<sent, answers, idle, resume_list, resume_split, size, old>>
  BY <1>1, StillKeeps, Zenon
<1>3. Numbers'
  <2>1. DOMAIN shadow' = DOMAIN shadow
    BY <1>1 DEF ids
  <2> QED BY <1>1, <2>1 DEF WInv, Numbers
<1>5. Phases'
  BY <1>1, <1>2 DEF WInv, Phases, Ready, CInv, Control
<1>6. Drains'
  BY <1>1, <1>2 DEF WInv, Drains, Phases
<1>7. Entries'
  BY <1>1, <1>2 DEF WInv, Entries, Ready, Fresh, Phases, CInv, Control
<1>8. Watched'
  BY <1>1, <1>2 DEF WInv, Watched
<1> QED BY <1>1, <1>3, <1>5, <1>6, <1>7, <1>8, StillEnough
-----------------------------------------------------------------------------
(* The steps that push what is queued, and those of the backend.           *)

LEMMA Same ==
    ASSUME UNCHANGED <<ring, ids, size>>
    PROVE  /\ BusyIds' = BusyIds /\ BusyReqs' = BusyReqs /\ OnRing' = OnRing
           /\ RingFull' = RingFull /\ (Apart => Apart')
           /\ UNCHANGED <<batch, sent, answers, idle, shadow>>
<1>1. /\ batch' = batch /\ sent' = sent /\ answers' = answers /\ idle' = idle
      /\ shadow' = shadow /\ size' = size
  BY DEF ring, ids
<1>2. BusyIds' = BusyIds /\ BusyReqs' = BusyReqs /\ SentIds' = SentIds
  BY <1>1, Zenon DEF BusyIds, BusyReqs, SentIds
<1>3. OnRing' = OnRing /\ RingFull' = RingFull
  BY <1>1, <1>2, Zenon DEF OnRing, RingFull
<1>4. Apart => Apart'
  BY <1>1, <1>2, Zenon DEF Apart
<1> QED BY <1>1, <1>2, <1>3, <1>4, Zenon

LEMMA SameEntries ==
    ASSUME WInv, UNCHANGED ids
    PROVE  /\ BusyIds' = BusyIds /\ BusyReqs' = BusyReqs /\ idle' = idle
           /\ UNCHANGED <<queue, result, resume_list>> => Held'
           /\ UNCHANGED resume_split => Splits'
<1>1. shadow' = shadow /\ idle' = idle
  BY DEF ids
<1>2. BusyIds' = BusyIds /\ BusyReqs' = BusyReqs
  BY <1>1, Zenon DEF BusyIds, BusyReqs
<1>3. ASSUME UNCHANGED <<queue, result, resume_list>> PROVE Held'
  <2>1. Held /\ queue' = queue /\ result' = result /\ resume_list' = resume_list
    BY <1>3 DEF WInv
  <2>2. Pending' = Pending
    BY <2>1, Zenon DEF Pending
  <2> QED BY <1>1, <1>2, <2>1, <2>2, Zenon DEF Held
<1>4. ASSUME UNCHANGED resume_split PROVE Splits'
  BY <1>1, <1>2, <1>4, Zenon DEF WInv, Splits
<1> QED BY <1>1, <1>2, <1>3, <1>4, Zenon

(* A full ring has something to be answered.                               *)
LEMMA FullIsBusy ==
    ASSUME NEW b, b = <<>>, NEW s, NEW a, NEW n \in Nat, n > 0,
           Len(b) + Cardinality(s) + Len(a) >= n
    PROVE  s # {} \/ a # <<>>
<1> SUFFICES ASSUME s = {}, a = <<>> PROVE FALSE
  OBVIOUS
<1>1. Len(b) = 0 /\ Len(a) = 0 /\ Cardinality(s) = 0
  BY EmptyIs, FS_EmptySet, Zenon
<1> QED BY <1>1

LEMMA FlushStepKeeps ==
    ASSUME CInv, WInv, IssueStops \/ IssueEnds \/ ReplayEnds
    PROVE  WInv'
<1>1. /\ Flush /\ answers' = answers /\ lock \in {"issue", "replay"}
      /\ UNCHANGED <<queue, result, ids, rec, size, old, connected, xb, limit, work, backend>>
      /\ \/ /\ lock' = "none" /\ stopped' = TRUE /\ lock = "issue"
            /\ callback' = (callback \/ (~RingFull /\ connected = "CONNECTED"))
         \/ lock' = "none" /\ UNCHANGED <<stopped, callback>> /\ lock = "issue"
         \/ /\ lock' = "issue" /\ stopped' = FALSE /\ UNCHANGED callback
            /\ resume_list = <<>>
         \/ /\ lock' = "none" /\ UNCHANGED <<stopped, callback>>
            /\ resume_list = <<>> \/ RingFull
            /\ resume_split # <<>> \/ resume_list # <<>> \/ RingFull
  BY DEF IssueStops, IssueEnds, ReplayEnds, io, ids, rec, mem, conn, env
<1>2. connected = "CONNECTED" /\ Ready /\ size > 0 /\ size \in Nat
  <2>1. connected = "CONNECTED" /\ Ready
    BY <1>1 DEF CInv, Control, Ready
  <2>2. size > 0 /\ size \in 0 .. MaxRing
    BY <2>1 DEF WInv, Phases, Numbers
  <2> QED BY <2>1, <2>2, Sizes
<1>3. lock = "issue" => resume_list = <<>> /\ resume_split = <<>>
  BY DEF CInv, RecoveredFirst
<1>4. /\ IsSeq(batch') /\ IsFiniteSet(sent') /\ Apart' /\ OnRing' = OnRing
      /\ RingFull => RingFull'
      /\ batch' = <<>>
  BY <1>1, FlushKeeps, Zenon DEF WInv
<1>5. /\ BusyIds' = BusyIds /\ BusyReqs' = BusyReqs /\ idle' = idle
      /\ queue' = queue /\ resume_list' = resume_list /\ resume_split' = resume_split
      /\ Held' /\ Splits' /\ shadow' = shadow
  <2>1. queue' = queue /\ result' = result /\ resume_list' = resume_list
        /\ resume_split' = resume_split /\ shadow' = shadow
    BY <1>1 DEF rec, ids
  <2> QED BY <1>1, <2>1, SameEntries, Zenon
<1>6. Sequences'
  BY <1>1, <1>4, <1>5, Zenon DEF WInv, Sequences
<1>7. Numbers'
  <2>1. callback' \in BOOLEAN
    BY <1>1 DEF WInv, Numbers
  <2> QED BY <1>1, <1>5, <2>1 DEF WInv, Numbers
<1>8. Ready' = Ready /\ Fresh' = Fresh
  BY <1>1, Zenon DEF Ready, Fresh
<1>9. Phases'
  BY <1>1, <1>5, <1>8 DEF WInv, Phases
<1>10. Drains'
  BY <1>1, <1>3, <1>4, <1>5 DEF WInv, Drains
<1>11. Entries'
  BY <1>1, <1>4, <1>5, <1>8, Zenon DEF WInv, Entries
<1>12. RingFull => sent' # {} \/ answers' # <<>>
  <2> SUFFICES ASSUME RingFull PROVE sent' # {} \/ answers' # <<>>
    OBVIOUS
  <2>1. Len(batch') + Cardinality(sent') + Len(answers') >= size
    BY <1>1, <1>4, Zenon DEF RingFull
  <2> QED BY <1>2, <1>4, <2>1, FullIsBusy, Zenon
<1>13. resume_split # <<>> => sent' # {} \/ answers' # <<>>
  <2> SUFFICES ASSUME resume_split # <<>>, sent' = {}, answers' = <<>> PROVE FALSE
    OBVIOUS
  <2>1. IsSeq(resume_split)
    BY Zenon DEF WInv, Sequences
  <2>2. 1 \in DOMAIN resume_split
    BY <2>1, NonEmptyIs, Zenon
  <2>3. BusyIds # {}
    BY <2>2, Zenon DEF WInv, Splits
  <2>4. OnRing' # {}
    BY <1>2, <1>4, <2>3 DEF WInv, Entries
  <2>5. IdsOf(batch') = {} /\ IdsOf(answers') = {}
    BY <1>4, EmptyIs, Zenon
  <2>6. SentIds' = {}
    BY DEF SentIds
  <2> QED BY <2>4, <2>5, <2>6 DEF OnRing
<1>14. Watched'
  <2> SUFFICES ASSUME lock' = "none", stopped'
               PROVE  sent' # {} \/ answers' # <<>> \/ callback' \/ work'
    BY DEF Watched
  <2>1. CASE RingFull \/ resume_split # <<>>
    BY <1>12, <1>13, <2>1, Zenon
  <2>2. CASE ~RingFull /\ resume_split = <<>>
    <3>1. lock = "issue" => ~stopped
      BY DEF WInv, Phases
    <3> QED BY <1>1, <1>2, <2>2, <3>1
  <2> QED BY <2>1, <2>2
<1> QED BY <1>4, <1>5, <1>6, <1>7, <1>9, <1>10, <1>11, <1>14, Zenon DEF WInv

LEMMA ServeKeeps ==
    ASSUME CInv, WInv, NEW m \in sent, NEW ok, Answer(m, ok)
    PROVE  WInv'
<1>1. /\ lock = "none" /\ backend.state = "Connected"
      /\ UNCHANGED <<stopped, lock, queue, result, batch, ids, rec, size, old, connected, xb,
                     limit, callback, work, backend>>
  BY DEF Answer, io, rec, mem, conn, env
<1>2. /\ IsSeq(answers') /\ IsFiniteSet(sent') /\ Apart' /\ OnRing' = OnRing
      /\ answers' # <<>> /\ (RingFull => RingFull')
  BY AnswerKeeps, Zenon DEF WInv
<1>3. /\ BusyIds' = BusyIds /\ BusyReqs' = BusyReqs /\ idle' = idle
      /\ resume_list' = resume_list /\ resume_split' = resume_split
      /\ Held' /\ Splits' /\ shadow' = shadow
  <2>1. queue' = queue /\ result' = result /\ resume_list' = resume_list
        /\ resume_split' = resume_split /\ shadow' = shadow
    BY <1>1 DEF rec, ids
  <2> QED BY <1>1, <2>1, SameEntries, Zenon
<1>4. Sequences'
  BY <1>1, <1>2, <1>3, Zenon DEF WInv, Sequences
<1>5. Numbers'
  BY <1>1, <1>3 DEF WInv, Numbers
<1>6. Ready' = Ready /\ Fresh' = Fresh
  BY <1>1, Zenon DEF Ready, Fresh
<1>7. Phases'
  BY <1>1, <1>3, <1>6 DEF WInv, Phases
<1>8. Drains'
  BY <1>1, <1>2, <1>3 DEF WInv, Drains
<1>9. Entries'
  BY <1>1, <1>2, <1>3, <1>6, Zenon DEF WInv, Entries
<1>10. Watched'
  BY <1>2, Zenon DEF Watched
<1> QED BY <1>2, <1>3, <1>4, <1>5, <1>7, <1>8, <1>9, <1>10, Zenon DEF WInv

LEMMA SubmitKeeps ==
    ASSUME CInv, WInv, NEW r \in Reqs, Submit(r)
    PROVE  WInv'
<1>1. /\ UNCHANGED <<stopped, lock, ring, ids, rec, size, old, connected, xb,
                     limit, callback, work, backend>>
      /\ result[r] = "new" /\ result' = [result EXCEPT ![r] = "pending"]
      /\ queue' = Append(queue, r) /\ lock = "none"
  BY DEF Submit, mem, conn, env
<1>2. /\ BusyIds' = BusyIds /\ BusyReqs' = BusyReqs /\ OnRing' = OnRing
      /\ RingFull' = RingFull /\ Apart'
      /\ UNCHANGED <<batch, sent, answers, idle, shadow>>
  BY <1>1, Same, Zenon DEF WInv
<1>3. resume_list' = resume_list /\ resume_split' = resume_split
  BY <1>1 DEF rec
<1>4. Splits'
  BY <1>1, <1>3, SameEntries, Zenon
<1>5. IsSeq(queue)
  BY Zenon DEF WInv, Sequences
<1>6. IsSeq(queue') /\ WithOne(queue', queue, r)
  BY <1>1, <1>5, AppendIs, Zenon DEF Longer
<1>7. Sequences'
  BY <1>2, <1>3, <1>6, Zenon DEF WInv, Sequences
<1>8. Numbers'
  BY <1>1, <1>2 DEF WInv, Numbers
<1>9. Ready' = Ready /\ Fresh' = Fresh
  BY <1>1, Zenon DEF Ready, Fresh
<1>10. Phases'
  BY <1>1, <1>3, <1>9 DEF WInv, Phases
<1>11. Drains'
  BY <1>1, <1>2, <1>3, Zenon DEF WInv, Drains
<1>12. Entries'
  BY <1>1, <1>2, <1>3, <1>9, Zenon DEF WInv, Entries
<1>13. Watched'
  BY <1>1, <1>2, Zenon DEF WInv, Watched
<1>14. Held'
  <2>1. /\ result \in [Reqs -> {"new", "pending", "ok", "error"}]
        /\ Once(queue) /\ OnceReq(resume_list)
        /\ \A i, j \in BusyIds : shadow[i].req = shadow[j].req => i = j
        /\ ToSet(queue) \cap BusyReqs = {}
        /\ ToSet(queue) \cap ReqsOf(resume_list) = {}
        /\ BusyReqs \cap ReqsOf(resume_list) = {}
        /\ ToSet(queue) \cup BusyReqs \cup ReqsOf(resume_list) = Pending
    BY Zenon DEF WInv, Held
  <2>2. r \notin Pending
    BY <1>1 DEF Pending
  <2>3. /\ result' \in [Reqs -> {"new", "pending", "ok", "error"}]
        /\ Pending' = Pending \cup {r}
    BY <1>1, <2>1 DEF Pending
  <2>4. ToSet(queue') = ToSet(queue) \cup {r} /\ (r \notin ToSet(queue) => Once(queue'))
    BY <1>6, <2>1, Zenon DEF WithOne
  <2>5. r \notin ToSet(queue) /\ r \notin BusyReqs /\ r \notin ReqsOf(resume_list)
    BY <2>1, <2>2
  <2>6. /\ ToSet(queue') \cap BusyReqs = {} /\ ToSet(queue') \cap ReqsOf(resume_list) = {}
        /\ ToSet(queue') \cup BusyReqs \cup ReqsOf(resume_list) = Pending'
    BY <2>1, <2>3, <2>4, <2>5
  <2> QED BY <1>2, <1>3, <2>1, <2>3, <2>4, <2>5, <2>6, Zenon DEF Held
<1> QED BY <1>2, <1>4, <1>7, <1>8, <1>10, <1>11, <1>12, <1>13, <1>14, Zenon DEF WInv
-----------------------------------------------------------------------------
(* The steps that put a request on the ring.                               *)

(* What that is to the requests and to resume_split.                       *)
LEMMA PutReqs ==
    ASSUME CInv, WInv, lock # "none", ~RingFull, NEW m, NEW c, Puts(m, c), c.req \notin BusyReqs
    PROVE  /\ BusyReqs' = BusyReqs \cup {c.req}
           /\ \A i, j \in BusyIds' : shadow'[i].req = shadow'[j].req => i = j
           /\ UNCHANGED resume_split => Splits'
<1> DEFINE h == Head(idle)
<1>1. /\ BusyIds' = BusyIds \cup {h} /\ h \notin BusyIds
      /\ shadow'[h] = c /\ \A i \in BusyIds : shadow'[i] = shadow[i]
  <2>1. Ready
    BY DEF CInv, Control, Ready
  <2> QED BY <2>1, PutKeeps, Zenon DEF WInv
<1>2. \A i, j \in BusyIds : shadow[i].req = shadow[j].req => i = j
  BY Zenon DEF WInv, Held
<1> HIDE DEF h
<1>3. BusyReqs' = BusyReqs \cup {c.req}
  <2>1. \A x \in BusyReqs' : x \in BusyReqs \cup {c.req}
    BY <1>1 DEF BusyReqs
  <2>2. \A x \in BusyReqs : x \in BusyReqs'
    BY <1>1 DEF BusyReqs
  <2>3. c.req \in BusyReqs'
    BY <1>1 DEF BusyReqs
  <2> QED BY <2>1, <2>2, <2>3
<1>4. \A i, j \in BusyIds' : shadow'[i].req = shadow'[j].req => i = j
  <2>1. \A i \in BusyIds : shadow[i].req \in BusyReqs
    BY DEF BusyReqs
  <2> QED BY <1>1, <1>2, <2>1
<1>5. ASSUME UNCHANGED resume_split PROVE Splits'
  <2>1. Splits
    BY DEF WInv
  <2> QED BY <1>1, <1>5, <2>1 DEF Splits
<1> QED BY <1>3, <1>4, <1>5

LEMMA PutStep ==
    ASSUME CInv, WInv, lock # "none", ~RingFull, NEW m, NEW c, Puts(m, c),
           xb # "resume" \/ resume_list' = <<>>, 
           UNCHANGED <<stopped, lock, old, connected, xb, limit, callback, work, backend>>,
           IsSeq(queue'), IsSeq(resume_list'), IsSeq(resume_split'),
           \A k \in DOMAIN resume_list' : Shaped(resume_list'[k]),
           \A k \in DOMAIN resume_split' : Shaped(resume_split'[k]),
           xb = "resume" => resume_split' = <<>>, Held', Splits'
    PROVE  WInv'
<1>1. connected = "CONNECTED" /\ Ready /\ ~Fresh /\ Ready' = Ready /\ Fresh' = Fresh
  <2>1. connected = "CONNECTED" /\ Ready
    BY DEF CInv, Control, Ready
  <2>2. ~Fresh
    BY <2>1 DEF CInv, Control, WInv, Phases, Fresh
  <2> QED BY <2>1, <2>2, Zenon DEF Ready, Fresh
<1>2. /\ IsSeq(batch') /\ IsSeq(idle') /\ ToSet(idle') \subseteq Ids
      /\ DOMAIN shadow' = Ids /\ Apart'
      /\ OnRing' = BusyIds' /\ BusyIds' \subseteq 0 .. size - 1
      /\ Once(idle') /\ ToSet(idle') = (0 .. size - 1) \ BusyIds'
  BY <1>1, PutKeeps, Zenon DEF WInv
<1>3. sent' = sent /\ answers' = answers /\ size' = size
  BY Zenon DEF Puts
<1>4. Sequences'
  BY <1>2, <1>3, Zenon DEF WInv, Sequences
<1>5. Numbers'
  BY <1>2, <1>3 DEF WInv, Numbers
<1>6. Phases'
  BY <1>1, <1>3 DEF WInv, Phases
<1>7. Drains'
  BY Zenon DEF Drains
<1>8. Entries'
  BY <1>1, <1>2, <1>3, Zenon DEF Entries, WInv, Phases
<1>9. Watched'
  BY Zenon DEF Watched
<1> QED BY <1>2, <1>4, <1>5, <1>6, <1>7, <1>8, <1>9, Zenon DEF WInv

LEMMA IssueKeeps == ASSUME CInv, WInv, Issue PROVE WInv'
<1> DEFINE r == Head(queue)
<1>1. /\ lock = "issue" /\ queue # <<>> /\ ~RingFull
      /\ \E m, c : Puts(m, c) /\ c.req = r
      /\ queue' = Tail(queue)
      /\ UNCHANGED <<stopped, lock, old, connected, xb, limit, callback, work, backend,
                     result, resume_list, resume_split>>
  <2>1. /\ lock = "issue" /\ queue # <<>> /\ ~RingFull /\ queue' = Tail(queue)
        /\ UNCHANGED <<stopped, lock, old, connected, xb, limit, callback, work, backend,
                       result, resume_list, resume_split, sent, answers, size>>
    BY DEF Issue, CanIssue, conn, env, rec
  <2>2. r # NoReq
    <3>1. IsSeq(queue)
      BY Zenon DEF WInv, Sequences
    <3>2. r \in ToSet(queue)
      BY <2>1, <3>1, NonEmptyIs DEF ToSet
    <3>3. ToSet(queue) \subseteq Reqs
      BY DEF WInv, Held, Pending
    <3> QED BY <3>2, <3>3, BlkAssumption
  <2> DEFINE h == Head(idle)
  <2>3. PICK m, c : /\ m.id = h /\ c.req = r /\ batch' = Append(batch, m)
                    /\ shadow' = [shadow EXCEPT ![h] = c]
    <3>1. CASE Chunks[r] = 1
      <4> WITNESS Plain(h, r, 1), Copy(r, "plain", 1, 1)
      <4> QED BY <3>1 DEF Issue, Plain, Copy
    <3>2. CASE Chunks[r] # 1
      <4> WITNESS Indirect(h, r, Chunks[r], segs.at[h]), Copy(r, "indirect", Chunks[r], 0)
      <4> QED BY <3>2 DEF Issue, Indirect, Copy
    <3> QED BY <3>1, <3>2
  <2>4. idle' = Tail(idle)
    BY DEF Issue
  <2>5. Puts(m, c)
    BY <2>1, <2>2, <2>3, <2>4 DEF Puts
  <2> QED BY <2>1, <2>3, <2>5
<1>2. PICK m, c : Puts(m, c) /\ c.req = r
  BY <1>1
<1>3. /\ result \in [Reqs -> {"new", "pending", "ok", "error"}]
      /\ Once(queue) /\ OnceReq(resume_list)
      /\ ToSet(queue) \cap BusyReqs = {}
      /\ ToSet(queue) \cap ReqsOf(resume_list) = {}
      /\ BusyReqs \cap ReqsOf(resume_list) = {}
      /\ ToSet(queue) \cup BusyReqs \cup ReqsOf(resume_list) = Pending
  BY Zenon DEF WInv, Held
<1>4. /\ IsSeq(queue') /\ Once(queue') /\ ToSet(queue') = ToSet(queue) \ {r} /\ r \in ToSet(queue)
  <2>1. IsSeq(queue)
    BY Zenon DEF WInv, Sequences
  <2>2. IsSeq(queue') /\ LessOne(queue', queue, r)
    BY <1>1, <2>1, TailIs, Zenon
  <2> QED BY <1>3, <2>2, Zenon DEF LessOne
<1> HIDE DEF r
<1>5. /\ BusyReqs' = BusyReqs \cup {r}
      /\ \A i, j \in BusyIds' : shadow'[i].req = shadow'[j].req => i = j
      /\ Splits'
  <2>1. r \notin BusyReqs /\ lock # "none"
    BY <1>1, <1>3, <1>4
  <2> QED BY <1>1, <1>2, <2>1, PutReqs, Zenon
<1>6. Held'
  <2>1. Pending' = Pending
    BY <1>1, Zenon DEF Pending
  <2>2. /\ ToSet(queue') \cap BusyReqs' = {}
        /\ ToSet(queue') \cap ReqsOf(resume_list') = {}
        /\ BusyReqs' \cap ReqsOf(resume_list') = {}
        /\ ToSet(queue') \cup BusyReqs' \cup ReqsOf(resume_list') = Pending
    BY <1>1, <1>3, <1>4, <1>5
  <2> QED BY <1>1, <1>3, <1>4, <1>5, <2>1, <2>2, Zenon DEF Held
<1>7. resume_list' = <<>> /\ resume_split' = <<>> /\ IsSeq(<<>>) /\ DOMAIN <<>> = {} /\ lock # "none"
  BY <1>1, EmptyIs DEF CInv, RecoveredFirst
<1>8. /\ \A k \in DOMAIN resume_list' : Shaped(resume_list'[k])
      /\ \A k \in DOMAIN resume_split' : Shaped(resume_split'[k])
      /\ IsSeq(resume_list') /\ IsSeq(resume_split')
  BY <1>7
<1> QED BY <1>1, <1>2, <1>4, <1>5, <1>6, <1>7, <1>8, PutStep, Zenon

(* The first entry of resume_list goes on the ring.                        *)
LEMMA ReplayKeeps ==
    ASSUME CInv, WInv, ReplayPlain \/ ReplayIndirect
    PROVE  WInv'
<1> DEFINE e == Head(resume_list) h == Head(idle)
<1>1. /\ lock = "replay" /\ resume_list # <<>> /\ ~RingFull
      /\ resume_list' = Tail(resume_list)
      /\ UNCHANGED <<stopped, lock, old, connected, xb, limit, callback, work, backend,
                     result, queue, sent, answers, size>>
      /\ idle' = Tail(idle)
  BY DEF ReplayPlain, ReplayIndirect, conn, env, io, mem
<1>2. \E m, c : /\ m.id = h /\ c.req = e.req /\ batch' = Append(batch, m)
                /\ shadow' = [shadow EXCEPT ![h] = c]
                /\ \/ UNCHANGED resume_split
                   \/ c.op = "indirect" /\ resume_split' = Append(resume_split, [e EXCEPT !.id = h])
  <2>1. CASE ReplayPlain
    <3> WITNESS Plain(h, e.req, e.chunk), Copy(e.req, e.op, e.n, e.chunk)
    <3> QED BY <2>1 DEF ReplayPlain, Plain, Copy
  <2>2. CASE ReplayIndirect
    <3> DEFINE f == contents'[e.table].from
    <3>1. /\ shadow' = [shadow EXCEPT ![h] = Copy(e.req, e.op, e.n, 0)] /\ e.op = "indirect"
          /\ \/ /\ batch' = Append(batch, Plain(h, e.req, f))
                /\ resume_split' = Append(resume_split, [e EXCEPT !.id = h])
             \/ /\ batch' = Append(batch, Indirect(h, e.req, e.n, e.table))
                /\ UNCHANGED resume_split
      BY <2>2, Zenon DEF ReplayIndirect
    <3>2. PICK c : c = Copy(e.req, e.op, e.n, 0)
      OBVIOUS
    <3>3. PICK p : p = Plain(h, e.req, f)
      OBVIOUS
    <3>4. PICK i : i = Indirect(h, e.req, e.n, e.table)
      OBVIOUS
    <3>5. p.id = h /\ i.id = h /\ c.req = e.req /\ c.op = e.op
      BY <3>2, <3>3, <3>4 DEF Plain, Indirect, Copy
    <3> HIDE DEF e, h, f
    <3> QED BY <3>1, <3>2, <3>3, <3>4, <3>5
  <2> QED BY <2>1, <2>2
<1> HIDE DEF h
<1>3. PICK m, c : /\ m.id = h /\ c.req = e.req /\ batch' = Append(batch, m)
                  /\ shadow' = [shadow EXCEPT ![h] = c]
                  /\ \/ UNCHANGED resume_split
                     \/ c.op = "indirect" /\ resume_split' = Append(resume_split, [e EXCEPT !.id = h])
  BY <1>2
<1>4. /\ result \in [Reqs -> {"new", "pending", "ok", "error"}]
      /\ Once(queue) /\ OnceReq(resume_list)
      /\ ToSet(queue) \cap BusyReqs = {}
      /\ ToSet(queue) \cap ReqsOf(resume_list) = {}
      /\ BusyReqs \cap ReqsOf(resume_list) = {}
      /\ ToSet(queue) \cup BusyReqs \cup ReqsOf(resume_list) = Pending
  BY Zenon DEF WInv, Held
<1>5. /\ IsSeq(queue) /\ IsSeq(resume_list) /\ IsSeq(resume_split)
      /\ \A k \in DOMAIN resume_list : Shaped(resume_list[k])
      /\ \A k \in DOMAIN resume_split : Shaped(resume_split[k])
  BY Zenon DEF WInv, Sequences
<1>6. /\ IsSeq(resume_list') /\ OnceReq(resume_list') /\ ReqsOf(resume_list') = ReqsOf(resume_list) \ {e.req}
      /\ e.req \in ReqsOf(resume_list)
      /\ \A k \in DOMAIN resume_list' : Shaped(resume_list'[k])
  <2>1. IsSeq(resume_list') /\ LessOne(resume_list', resume_list, e)
    BY <1>1, <1>5, TailIs, Zenon
  <2> QED BY <1>4, <1>5, <2>1 DEF LessOne
<1>7. Shaped(e)
  BY <1>1, <1>5, NonEmptyIs, Zenon
<1> HIDE DEF e
<1>8. Puts(m, c)
  <2>1. e.req # NoReq
    <3>1. ReqsOf(resume_list) \subseteq Reqs
      BY <1>4 DEF Pending
    <3> QED BY <1>6, <3>1, BlkAssumption
  <2>2. /\ m.id = Head(idle) /\ c.req # NoReq
        /\ batch' = Append(batch, m) /\ idle' = Tail(idle)
        /\ shadow' = [shadow EXCEPT ![Head(idle)] = c]
    BY <1>1, <1>3, <2>1 DEF h
  <2> QED BY <1>1, <2>2 DEF Puts
<1>9. xb # "resume" /\ lock # "none"
  <2>1. connected = "CONNECTED"
    BY <1>1 DEF CInv, Control
  <2> QED BY <1>1, <2>1 DEF WInv, Drains
<1>10. /\ BusyReqs' = BusyReqs \cup {e.req}
       /\ \A i, j \in BusyIds' : shadow'[i].req = shadow'[j].req => i = j
       /\ UNCHANGED resume_split => Splits'
  <2>1. c.req \notin BusyReqs
    BY <1>3, <1>4, <1>6
  <2> QED BY <1>1, <1>3, <1>8, <1>9, <2>1, PutReqs, Zenon
<1>11. Held'
  <2>1. Pending' = Pending /\ queue' = queue /\ result' = result
    BY <1>1, Zenon DEF Pending
  <2>2. /\ ToSet(queue) \cap BusyReqs' = {}
        /\ ToSet(queue) \cap ReqsOf(resume_list') = {}
        /\ BusyReqs' \cap ReqsOf(resume_list') = {}
        /\ ToSet(queue) \cup BusyReqs' \cup ReqsOf(resume_list') = Pending
    BY <1>4, <1>6, <1>10
  <2> QED BY <1>4, <1>6, <1>10, <2>1, <2>2, Zenon DEF Held
<1>12. /\ IsSeq(resume_split') /\ Splits'
       /\ \A k \in DOMAIN resume_split' : Shaped(resume_split'[k])
  <2>1. CASE UNCHANGED resume_split
    BY <1>5, <1>10, <2>1, Zenon
  <2>2. CASE c.op = "indirect" /\ resume_split' = Append(resume_split, [e EXCEPT !.id = h])
    <3> DEFINE n == [e EXCEPT !.id = h]
    <3>1. n = [req |-> e.req, op |-> e.op, n |-> e.n, chunk |-> e.chunk, table |-> e.table, id |-> h]
      BY <1>7 DEF Shaped
    <3> HIDE DEF n
    <3>2. n.req = e.req /\ n.id = h /\ Shaped(n)
      BY <3>1 DEF Shaped
    <3>3. Longer(resume_split', resume_split, n) /\ WithOne(resume_split', resume_split, n)
      BY <1>5, <2>2, AppendIs, Zenon DEF n
    <3>4. Ready
      BY <1>1 DEF CInv, Control, Ready
    <3>5. /\ BusyIds' = BusyIds \cup {h} /\ h \notin BusyIds /\ shadow'[h] = c
          /\ \A i \in BusyIds : shadow'[i] = shadow[i]
      BY <1>1, <1>8, <3>4, PutKeeps, Zenon DEF WInv, h
    <3>6. /\ OnceId(resume_split)
          /\ \A k \in DOMAIN resume_split :
                 /\ resume_split[k].id \in BusyIds
                 /\ shadow[resume_split[k].id].req = resume_split[k].req
                 /\ shadow[resume_split[k].id].op = "indirect"
      BY Zenon DEF WInv, Splits
    <3>7. h \notin IdsOf(resume_split)
      BY <3>5, <3>6 DEF IdsOf
    <3>8. OnceId(resume_split')
      BY <3>2, <3>3, <3>6, <3>7, Zenon DEF WithOne
    <3>9. /\ IsSeq(resume_split')
          /\ \A k \in DOMAIN resume_split' :
                 \/ resume_split'[k] = n
                 \/ k \in DOMAIN resume_split /\ resume_split'[k] = resume_split[k]
      <4>1. Len(resume_split) \in Nat /\ DOMAIN resume_split = 1 .. Len(resume_split)
        BY <1>5, SeqIs
      <4> QED BY <3>3, <4>1 DEF Longer
    <3>10. \A k \in DOMAIN resume_split' :
                 /\ resume_split'[k].id \in BusyIds'
                 /\ shadow'[resume_split'[k].id].req = resume_split'[k].req
                 /\ shadow'[resume_split'[k].id].op = "indirect"
      <4> SUFFICES ASSUME NEW k \in DOMAIN resume_split'
                   PROVE  /\ resume_split'[k].id \in BusyIds'
                          /\ shadow'[resume_split'[k].id].req = resume_split'[k].req
                          /\ shadow'[resume_split'[k].id].op = "indirect"
        OBVIOUS
      <4>1. CASE resume_split'[k] = n
        BY <1>3, <2>2, <3>2, <3>5, <4>1
      <4>2. CASE k \in DOMAIN resume_split /\ resume_split'[k] = resume_split[k]
        BY <3>5, <3>6, <4>2
      <4> QED BY <3>9, <4>1, <4>2
    <3>11. Splits'
      BY <3>8, <3>10, Zenon DEF Splits
    <3>12. \A k \in DOMAIN resume_split' : Shaped(resume_split'[k])
      BY <1>5, <3>2, <3>9, Zenon
    <3> QED BY <3>9, <3>11, <3>12
  <2> QED BY <1>3, <2>1, <2>2
<1>13. IsSeq(queue')
  BY <1>1, <1>5, Zenon
<1> QED BY <1>1, <1>6, <1>8, <1>9, <1>11, <1>12, <1>13, PutStep, Zenon
-----------------------------------------------------------------------------
(* The steps that take a response.                                         *)

(* What a response is to the requests.                                     *)
LEMMA ReleaseReqs ==
    ASSUME CInv, WInv, lock = "handle", answers # <<>>,
           answers' = Tail(answers), Release(Head(answers).id), UNCHANGED <<batch, sent, size>>
    PROVE  LET id == Head(answers).id
               r  == shadow[id].req
           IN  /\ BusyReqs' = BusyReqs \ {r} /\ r \in BusyReqs /\ id \in BusyIds
               /\ \A i, j \in BusyIds' : shadow'[i].req = shadow'[j].req => i = j
<1> DEFINE id == Head(answers).id r == shadow[id].req
<1>1. /\ BusyIds' = BusyIds \ {id} /\ id \in BusyIds
      /\ \A i \in BusyIds' : shadow'[i] = shadow[i]
  <2>1. Ready
    BY DEF CInv, Control, Ready
  <2> QED BY <2>1, ReleaseKeeps, Zenon DEF WInv
<1>2. \A i, j \in BusyIds : shadow[i].req = shadow[j].req => i = j
  BY Zenon DEF WInv, Held
<1> HIDE DEF id
<1>3. BusyReqs' = BusyReqs \ {r}
  <2>1. \A x \in BusyReqs' : x \in BusyReqs \ {r}
    BY <1>1, <1>2 DEF BusyReqs
  <2>2. \A x \in BusyReqs \ {r} : x \in BusyReqs'
    BY <1>1 DEF BusyReqs
  <2> QED BY <2>1, <2>2
<1>4. \A i, j \in BusyIds' : shadow'[i].req = shadow'[j].req => i = j
  BY <1>1, <1>2
<1>5. r \in BusyReqs
  BY <1>1 DEF BusyReqs
<1> QED BY <1>1, <1>3, <1>4, <1>5 DEF id

LEMMA FreedTypes ==
    ASSUME Numbers, NEW k, Freed(k)
    PROVE  callback' \in BOOLEAN /\ work' \in BOOLEAN
BY DEF Freed, Numbers

LEMMA HandleStep ==
    ASSUME CInv, WInv, lock = "handle", answers # <<>>,
           answers' = Tail(answers), Release(Head(answers).id), UNCHANGED <<batch, sent, size>>,
           UNCHANGED <<stopped, lock, old, connected, xb, limit, backend>>,
           callback' \in BOOLEAN, work' \in BOOLEAN,
           IsSeq(queue'), IsSeq(resume_list'), IsSeq(resume_split'),
           \A k \in DOMAIN resume_list' : Shaped(resume_list'[k]),
           \A k \in DOMAIN resume_split' : Shaped(resume_split'[k]),
           Held', Splits'
    PROVE  WInv'
<1>1. /\ connected = "CONNECTED" /\ Ready /\ ~Fresh /\ Ready' = Ready /\ Fresh' = Fresh
      /\ xb # "resume"
  <2>1. connected = "CONNECTED" /\ Ready
    BY DEF CInv, Control, Ready
  <2>2. ~Fresh /\ xb # "resume"
    BY <2>1 DEF CInv, Control, WInv, Phases, Fresh
  <2> QED BY <2>1, <2>2, Zenon DEF Ready, Fresh
<1>2. /\ IsSeq(answers') /\ IsSeq(idle') /\ ToSet(idle') \subseteq Ids
      /\ DOMAIN shadow' = Ids /\ Apart'
      /\ OnRing' = BusyIds' /\ BusyIds' \subseteq 0 .. size - 1
      /\ Once(idle') /\ ToSet(idle') = (0 .. size - 1) \ BusyIds'
  BY <1>1, ReleaseKeeps, Zenon DEF WInv
<1>3. sent' = sent /\ batch' = batch /\ size' = size
  OBVIOUS
<1>4. Sequences'
  BY <1>2, <1>3, Zenon DEF WInv, Sequences
<1>5. Numbers'
  BY <1>2, <1>3 DEF WInv, Numbers
<1>6. Phases'
  BY <1>1, <1>3 DEF WInv, Phases
<1>7. Drains'
  BY <1>1, Zenon DEF Drains
<1>8. Entries'
  BY <1>1, <1>2, <1>3, Zenon DEF Entries, WInv, Phases
<1>9. Watched'
  BY Zenon DEF Watched
<1> QED BY <1>2, <1>4, <1>5, <1>6, <1>7, <1>8, <1>9, Zenon DEF WInv

LEMMA HandleWholeKeeps == ASSUME CInv, WInv, HandleWhole PROVE WInv'
<1> DEFINE id == Head(answers).id s == shadow[id] r == s.req
<1>1. /\ lock = "handle" /\ answers # <<>> /\ answers' = Tail(answers)
      /\ Freed(Refs(s.n)) /\ Release(id) /\ Ended(r, Head(answers).ok)
      /\ s.op = "indirect" => SplitAt(id) = {}
      /\ UNCHANGED <<stopped, lock, old, connected, xb, limit, backend, batch, sent, size, queue,
                     resume_list, resume_split>>
  BY DEF HandleWhole, conn, env, rec
<1>2. /\ BusyReqs' = BusyReqs \ {r} /\ r \in BusyReqs /\ id \in BusyIds
      /\ \A i, j \in BusyIds' : shadow'[i].req = shadow'[j].req => i = j
  BY <1>1, ReleaseReqs, Zenon
<1>3. /\ BusyIds' = BusyIds \ {id}
      /\ \A i \in BusyIds' : shadow'[i] = shadow[i]
  <2>1. Ready
    BY <1>1 DEF CInv, Control, Ready
  <2> QED BY <1>1, <2>1, ReleaseKeeps, Zenon DEF WInv
<1>4. /\ result \in [Reqs -> {"new", "pending", "ok", "error"}]
      /\ Once(queue) /\ OnceReq(resume_list)
      /\ ToSet(queue) \cap BusyReqs = {}
      /\ ToSet(queue) \cap ReqsOf(resume_list) = {}
      /\ BusyReqs \cap ReqsOf(resume_list) = {}
      /\ ToSet(queue) \cup BusyReqs \cup ReqsOf(resume_list) = Pending
  BY Zenon DEF WInv, Held
<1>5. callback' \in BOOLEAN /\ work' \in BOOLEAN
  BY <1>1, FreedTypes, Zenon DEF WInv
<1>6. Splits'
  <2>1. Splits
    BY DEF WInv
  <2>2. \A k \in DOMAIN resume_split : resume_split[k].id # id
    <3> SUFFICES ASSUME NEW k \in DOMAIN resume_split, resume_split[k].id = id PROVE FALSE
      OBVIOUS
    <3>1. s.op = "indirect"
      BY <2>1, Zenon DEF Splits
    <3>2. k \in SplitAt(id)
      BY DEF SplitAt
    <3> QED BY <1>1, <3>1, <3>2
  <2> HIDE DEF id
  <2>3. \A k \in DOMAIN resume_split : resume_split[k].id \in BusyIds'
    BY <1>3, <2>1, <2>2 DEF Splits
  <2> QED BY <1>1, <1>3, <2>1, <2>3 DEF Splits
<1> HIDE DEF id
<1>7. Held'
  <2>1. r \in Pending /\ r \in Reqs
    BY <1>2, <1>4 DEF Pending
  <2>2. \E x \in {"ok", "error"} : result' = [result EXCEPT ![r] = x]
    <3>1. result[r] = "pending"
      BY <2>1 DEF Pending
    <3>2. CASE Head(answers).ok
      BY <1>1, <1>4, <2>1, <3>1, <3>2 DEF Ended
    <3>3. CASE ~Head(answers).ok
      BY <1>1, <1>4, <2>1, <3>1, <3>3 DEF Ended
    <3> QED BY <3>2, <3>3
  <2>3. /\ Pending' = Pending \ {r} /\ result' \in [Reqs -> {"new", "pending", "ok", "error"}]
    BY <1>4, <2>1, <2>2 DEF Pending
  <2>4. queue' = queue /\ resume_list' = resume_list
    BY <1>1
  <2>5. /\ ToSet(queue) \cap BusyReqs' = {}
        /\ BusyReqs' \cap ReqsOf(resume_list) = {}
        /\ ToSet(queue) \cup BusyReqs' \cup ReqsOf(resume_list) = Pending'
    BY <1>2, <1>4, <2>3
  <2> QED BY <1>2, <1>4, <2>3, <2>4, <2>5, Zenon DEF Held
<1>8. /\ IsSeq(queue') /\ IsSeq(resume_list') /\ IsSeq(resume_split')
      /\ \A k \in DOMAIN resume_list' : Shaped(resume_list'[k])
      /\ \A k \in DOMAIN resume_split' : Shaped(resume_split'[k])
  <2>1. queue' = queue /\ resume_list' = resume_list /\ resume_split' = resume_split
    BY <1>1
  <2> QED BY <2>1, Zenon DEF WInv, Sequences
<1> QED BY <1>1, <1>5, <1>6, <1>7, <1>8, HandleStep, Zenon DEF id

(* The entry of resume_split that an id has.                               *)
LEMMA SplitIs ==
    ASSUME WInv, NEW id, SplitAt(id) # {}
    PROVE  LET k == FirstOf(SplitAt(id))
           IN  k \in DOMAIN resume_split /\ resume_split[k].id = id
<1>1. SplitAt(id) \subseteq Nat /\ SplitAt(id) \subseteq DOMAIN resume_split
  <2>1. DOMAIN resume_split = 1 .. Len(resume_split) /\ Len(resume_split) \in Nat
    BY SeqIs DEF WInv, Sequences
  <2> QED BY <2>1 DEF SplitAt
<1> DEFINE S == SplitAt(id)
<1> HIDE DEF S
<1>2. \E k \in S : \A l \in S : k <= l
  BY <1>1, Smallest, Zenon DEF S
<1>3. FirstOf(S) \in S
  BY <1>2, Zenon DEF FirstOf
<1> QED BY <1>3 DEF SplitAt, S

LEMMA HandleSplitKeeps == ASSUME CInv, WInv, HandleSplit PROVE WInv'
<1> DEFINE id == Head(answers).id s == shadow[id] r == s.req
           k == FirstOf(SplitAt(id)) e == resume_split[k]
<1>1. /\ lock = "handle" /\ answers # <<>> /\ answers' = Tail(answers)
      /\ Freed(1) /\ Release(id) /\ SplitAt(id) # {}
      /\ resume_split' = RemoveAt(resume_split, k)
      /\ \/ Ended(r, FALSE) /\ UNCHANGED resume_list
         \/ /\ UNCHANGED result
            /\ \E op, c : resume_list' = Append(resume_list,
                              [e EXCEPT !.op = op, !.n = @ - 1, !.chunk = c])
      /\ UNCHANGED <<stopped, lock, old, connected, xb, limit, backend, batch, sent, size, queue>>
  <2>1. /\ lock = "handle" /\ answers # <<>> /\ answers' = Tail(answers)
        /\ Freed(1) /\ Release(id) /\ SplitAt(id) # {}
        /\ resume_split' = RemoveAt(resume_split, k)
        /\ UNCHANGED <<stopped, lock, old, connected, xb, limit, backend, batch, sent, size, queue>>
    BY DEF HandleSplit, conn, env
  <2>2. \/ Ended(r, FALSE) /\ UNCHANGED resume_list
        \/ /\ UNCHANGED result
           /\ \E op, c : resume_list' = Append(resume_list,
                             [e EXCEPT !.op = op, !.n = @ - 1, !.chunk = c])
    BY Zenon DEF HandleSplit
  <2> QED BY <2>1, <2>2
<1>2. /\ BusyReqs' = BusyReqs \ {r} /\ r \in BusyReqs /\ id \in BusyIds
      /\ \A i, j \in BusyIds' : shadow'[i].req = shadow'[j].req => i = j
  BY <1>1, ReleaseReqs, Zenon
<1>3. /\ BusyIds' = BusyIds \ {id}
      /\ \A i \in BusyIds' : shadow'[i] = shadow[i]
  <2>1. Ready
    BY <1>1 DEF CInv, Control, Ready
  <2> QED BY <1>1, <2>1, ReleaseKeeps, Zenon DEF WInv
<1>4. /\ result \in [Reqs -> {"new", "pending", "ok", "error"}]
      /\ Once(queue) /\ OnceReq(resume_list)
      /\ ToSet(queue) \cap BusyReqs = {}
      /\ ToSet(queue) \cap ReqsOf(resume_list) = {}
      /\ BusyReqs \cap ReqsOf(resume_list) = {}
      /\ ToSet(queue) \cup BusyReqs \cup ReqsOf(resume_list) = Pending
  BY Zenon DEF WInv, Held
<1>5. callback' \in BOOLEAN /\ work' \in BOOLEAN
  BY <1>1, FreedTypes, Zenon DEF WInv
<1>6. k \in DOMAIN resume_split /\ e.id = id
  BY <1>1, SplitIs, Zenon
<1>7. /\ IsSeq(queue) /\ IsSeq(resume_list) /\ IsSeq(resume_split)
      /\ \A j \in DOMAIN resume_list : Shaped(resume_list[j])
      /\ \A j \in DOMAIN resume_split : Shaped(resume_split[j])
  BY Zenon DEF WInv, Sequences
<1>8. /\ OnceId(resume_split)
      /\ \A j \in DOMAIN resume_split :
             /\ resume_split[j].id \in BusyIds
             /\ shadow[resume_split[j].id].req = resume_split[j].req
             /\ shadow[resume_split[j].id].op = "indirect"
  BY Zenon DEF WInv, Splits
<1>9. Shaped(e) /\ e.req = r
  BY <1>6, <1>7, <1>8, Zenon
<1> HIDE DEF k
<1>10. IsSeq(resume_split') /\ LessOne(resume_split', resume_split, e)
  BY <1>1, <1>6, <1>7, RemoveIs, Zenon
<1>11. /\ OnceId(resume_split') /\ IdsOf(resume_split') = IdsOf(resume_split) \ {id}
       /\ \A j \in DOMAIN resume_split' : \E l \in DOMAIN resume_split : resume_split'[j] = resume_split[l]
  BY <1>6, <1>8, <1>10, Zenon DEF LessOne
<1> HIDE DEF id, e
<1>12. Splits' /\ \A j \in DOMAIN resume_split' : Shaped(resume_split'[j])
  <2>1. ASSUME NEW j \in DOMAIN resume_split'
        PROVE  /\ resume_split'[j].id \in BusyIds'
               /\ shadow'[resume_split'[j].id].req = resume_split'[j].req
               /\ shadow'[resume_split'[j].id].op = "indirect"
               /\ Shaped(resume_split'[j])
    <3>1. PICK l \in DOMAIN resume_split : resume_split'[j] = resume_split[l]
      BY <1>11
    <3>2. resume_split'[j].id # id
      BY <1>11 DEF IdsOf
    <3>3. resume_split'[j].id \in BusyIds'
      BY <1>3, <1>8, <3>1, <3>2
    <3> QED BY <1>3, <1>7, <1>8, <3>1, <3>3
  <2> QED BY <1>11, <2>1, Zenon DEF Splits
<1>13. r \in Pending /\ r \in Reqs /\ r \notin ReqsOf(resume_list)
  BY <1>2, <1>4 DEF Pending
<1>14. /\ Held' /\ IsSeq(resume_list')
       /\ \A j \in DOMAIN resume_list' : Shaped(resume_list'[j])
  <2>1. CASE Ended(r, FALSE) /\ UNCHANGED resume_list
    <3>1. result' = [result EXCEPT ![r] = "error"]
      BY <1>4, <1>13, <2>1 DEF Ended, Pending
    <3>2. /\ Pending' = Pending \ {r} /\ result' \in [Reqs -> {"new", "pending", "ok", "error"}]
      BY <1>4, <1>13, <3>1 DEF Pending
    <3>3. queue' = queue /\ resume_list' = resume_list
      BY <1>1, <2>1
    <3>4. /\ ToSet(queue) \cap BusyReqs' = {}
          /\ BusyReqs' \cap ReqsOf(resume_list) = {}
          /\ ToSet(queue) \cup BusyReqs' \cup ReqsOf(resume_list) = Pending'
      BY <1>2, <1>4, <3>2
    <3>5. Held'
      BY <1>2, <1>4, <3>2, <3>3, <3>4, Zenon DEF Held
    <3> QED BY <1>7, <3>3, <3>5, Zenon
  <2>2. CASE /\ UNCHANGED result
             /\ \E op, c : resume_list' = Append(resume_list,
                               [e EXCEPT !.op = op, !.n = @ - 1, !.chunk = c])
    <3>1. PICK op, c : resume_list' = Append(resume_list,
                           [e EXCEPT !.op = op, !.n = @ - 1, !.chunk = c])
      BY <2>2
    <3> DEFINE n == [e EXCEPT !.op = op, !.n = @ - 1, !.chunk = c]
    <3>2. n = [req |-> e.req, op |-> op, n |-> e.n - 1, chunk |-> c, table |-> e.table, id |-> e.id]
      <4>1. PICK a1, a2, a3, a4, a5, a6 :
                e = [req |-> a1, op |-> a2, n |-> a3, chunk |-> a4, table |-> a5, id |-> a6]
        BY <1>9, Zenon DEF Shaped
      <4> DEFINE x == e.n - 1 e1 == [e EXCEPT !.op = op] e2 == [e1 EXCEPT !.n = x]
      <4>2. n = [e2 EXCEPT !.chunk = c]
        OBVIOUS
      <4>3. e.req = a1 /\ e.table = a5 /\ e.id = a6
        BY <4>1
      <4> HIDE DEF x
      <4>4. e1 = [req |-> a1, op |-> op, n |-> a3, chunk |-> a4, table |-> a5, id |-> a6]
        BY <4>1
      <4> HIDE DEF e1
      <4>5. e2 = [req |-> a1, op |-> op, n |-> x, chunk |-> a4, table |-> a5, id |-> a6]
        BY <4>4
      <4> HIDE DEF e2, n
      <4>6. n = [req |-> a1, op |-> op, n |-> x, chunk |-> c, table |-> a5, id |-> a6]
        BY <4>2, <4>5
      <4> QED BY <4>3, <4>6, Zenon DEF x
    <3> HIDE DEF n
    <3>3. n.req = r /\ Shaped(n)
      BY <1>9, <3>2 DEF Shaped
    <3>4. Longer(resume_list', resume_list, n) /\ WithOne(resume_list', resume_list, n)
      BY <1>7, <3>1, AppendIs, Zenon DEF n
    <3>5. /\ IsSeq(resume_list')
          /\ \A j \in DOMAIN resume_list' :
                 \/ resume_list'[j] = n
                 \/ j \in DOMAIN resume_list /\ resume_list'[j] = resume_list[j]
      <4>1. Len(resume_list) \in Nat /\ DOMAIN resume_list = 1 .. Len(resume_list)
        BY <1>7, SeqIs
      <4> QED BY <3>4, <4>1 DEF Longer
    <3>6. \A j \in DOMAIN resume_list' : Shaped(resume_list'[j])
      BY <1>7, <3>3, <3>5, Zenon
    <3>7. OnceReq(resume_list') /\ ReqsOf(resume_list') = ReqsOf(resume_list) \cup {r}
      BY <1>4, <1>13, <3>3, <3>4, Zenon DEF WithOne
    <3>8. Pending' = Pending /\ result' = result /\ queue' = queue
      BY <1>1, <2>2, Zenon DEF Pending
    <3>9. /\ ToSet(queue) \cap BusyReqs' = {}
          /\ ToSet(queue) \cap ReqsOf(resume_list') = {}
          /\ BusyReqs' \cap ReqsOf(resume_list') = {}
          /\ ToSet(queue) \cup BusyReqs' \cup ReqsOf(resume_list') = Pending
      BY <1>2, <1>4, <3>7
    <3>10. Held'
      BY <1>2, <1>4, <3>7, <3>8, <3>9, Zenon DEF Held
    <3> QED BY <3>5, <3>6, <3>10
  <2> QED BY <1>1, <2>1, <2>2
<1>15. IsSeq(queue')
  BY <1>1, <1>7, Zenon
<1> QED BY <1>1, <1>5, <1>10, <1>12, <1>14, <1>15, HandleStep, Zenon DEF id
-----------------------------------------------------------------------------
(* Suspend and resume.                                                     *)

(* The elements of a finite set of numbers in their order.                 *)
Ranked(U) == [k \in 1 .. Cardinality(U) |->
                 CHOOSE i \in U : Cardinality({j \in U : j < i}) = k - 1]
Enumerates(f, U) ==
    /\ Cardinality(U) \in Nat /\ f \in [1 .. Cardinality(U) -> U]
    /\ \A j, k \in 1 .. Cardinality(U) : f[j] = f[k] => j = k
    /\ \A i \in U : \E k \in 1 .. Cardinality(U) : f[k] = i

LEMMA Ranks ==
    ASSUME NEW U, U \subseteq Nat, IsFiniteSet(U), NEW f, f = Ranked(U)
    PROVE  Enumerates(f, U)
<1> DEFINE n == Cardinality(U)
           Below == [i \in U |-> {j \in U : j < i}]
           R == 1 .. n
           rank == [i \in U |-> Cardinality(Below[i]) + 1]
<1>1. n \in Nat /\ IsFiniteSet(R) /\ Cardinality(R) = n
  <2>1. n \in Nat
    BY FS_CardinalityType
  <2>2. IsFiniteSet(1 .. n) /\ Cardinality(1 .. n) = IF 1 > n THEN 0 ELSE n - 1 + 1
    BY <2>1, FS_Interval
  <2> QED BY <2>1, <2>2
<1>2. ASSUME NEW i \in U
      PROVE  /\ Below[i] \subseteq U /\ i \notin Below[i] /\ IsFiniteSet(Below[i])
             /\ Cardinality(Below[i]) \in Nat
  <2>1. Below[i] = {j \in U : j < i}
    OBVIOUS
  <2>2. i \in Nat
    OBVIOUS
  <2> HIDE DEF Below
  <2>3. Below[i] \subseteq U /\ i \notin Below[i]
    BY <2>1, <2>2
  <2> QED BY <2>3, FS_Subset, FS_CardinalityType
<1>3. \A i, j \in U : i < j => Below[i] \cup {i} \subseteq Below[j]
  <2> SUFFICES ASSUME NEW i \in U, NEW j \in U, i < j, NEW x \in Below[i] \cup {i}
               PROVE  x \in Below[j]
    OBVIOUS
  <2>1. Below[i] = {y \in U : y < i} /\ Below[j] = {y \in U : y < j}
    OBVIOUS
  <2> HIDE DEF Below
  <2>2. x \in U /\ (x < i \/ x = i)
    BY <2>1
  <2>3. x \in Nat /\ i \in Nat /\ j \in Nat
    BY <2>2
  <2>4. x < j
    BY <2>2, <2>3
  <2> QED BY <2>1, <2>2, <2>4
<1> HIDE DEF Below, R, n
<1>4. ASSUME NEW i \in U
      PROVE  IsFiniteSet(Below[i] \cup {i}) /\ Cardinality(Below[i] \cup {i}) = rank[i]
  BY <1>2, FS_AddElement
<1>5. \A i \in U : rank[i] \in R
  <2> SUFFICES ASSUME NEW i \in U PROVE rank[i] \in R
    OBVIOUS
  <2>1. Below[i] \cup {i} \in SUBSET U
    BY <1>2
  <2>2. rank[i] <= n
    <3> DEFINE B == Below[i] \cup {i}
    <3>1. Cardinality(B) <= Cardinality(U)
      <4> HIDE DEF B, rank
      <4>1. B \in SUBSET U
        BY <2>1 DEF B
      <4> QED BY <4>1, FS_Subset
    <3>2. Cardinality(B) = rank[i] /\ Cardinality(U) = n
      BY <1>4, Zenon DEF n
    <3> HIDE DEF B, rank
    <3> QED BY <3>1, <3>2, Zenon
  <2>3. rank[i] \in Nat /\ rank[i] >= 1
    BY <1>2
  <2> HIDE DEF rank
  <2> QED BY <1>1, <2>2, <2>3 DEF R
<1>6. ASSUME NEW i \in U, NEW j \in U, i < j PROVE rank[i] < rank[j]
  <2>1. Below[i] \cup {i} \in SUBSET Below[j]
    BY <1>3, <1>6
  <2>2. rank[i] <= Cardinality(Below[j])
    BY <1>2, <1>4, <2>1, FS_Subset
  <2>3. rank[j] = Cardinality(Below[j]) + 1 /\ rank[i] = Cardinality(Below[i]) + 1
    OBVIOUS
  <2>4. Cardinality(Below[i]) \in Nat /\ Cardinality(Below[j]) \in Nat
    BY <1>2
  <2> DEFINE a == Cardinality(Below[i]) b == Cardinality(Below[j])
  <2>5. a \in Nat /\ b \in Nat /\ rank[i] = a + 1 /\ rank[j] = b + 1 /\ rank[i] <= b
    BY <2>2, <2>3, <2>4, Zenon
  <2> HIDE DEF rank, a, b
  <2> QED BY <2>5
<1>7. \A i, j \in U : rank[i] = rank[j] => i = j
  <2> SUFFICES ASSUME NEW i \in U, NEW j \in U, i # j PROVE rank[i] # rank[j]
    OBVIOUS
  <2>1. i < j \/ j < i
    OBVIOUS
  <2>2. \A x \in U : rank[x] \in Nat
    BY <1>2
  <2> HIDE DEF rank
  <2>3. CASE i < j
    BY <1>6, <2>2, <2>3
  <2>4. CASE j < i
    BY <1>6, <2>2, <2>4
  <2> QED BY <2>1, <2>3, <2>4
<1>8. rank \in Injection(U, R)
  <2>1. rank \in [U -> R]
    BY <1>5
  <2> HIDE DEF rank
  <2> QED BY <1>7, <2>1 DEF Injection, IsInjective
<1>9. rank \in Surjection(U, R)
  <2>1. n = Cardinality(U)
    BY DEF n
  <2> HIDE DEF rank
  <2> QED BY <1>1, <1>8, <2>1, FS_Injection
<1>10. \A k \in R : \E i \in U : rank[i] = k
  <2> HIDE DEF rank
  <2> QED BY <1>9 DEF Surjection
<1>11. \A k \in R : f[k] \in U /\ rank[f[k]] = k
  <2> SUFFICES ASSUME NEW k \in R PROVE f[k] \in U /\ rank[f[k]] = k
    OBVIOUS
  <2>1. \A i \in U : rank[i] = k <=> Cardinality({j \in U : j < i}) = k - 1
    <3> SUFFICES ASSUME NEW i \in U
                 PROVE  rank[i] = k <=> Cardinality({j \in U : j < i}) = k - 1
      OBVIOUS
    <3>1. Below[i] = {j \in U : j < i} /\ k \in Nat
      BY <1>1 DEF Below, R
    <3>2. rank[i] = Cardinality(Below[i]) + 1
      OBVIOUS
    <3> DEFINE c == Cardinality(Below[i])
    <3>3. c \in Nat /\ rank[i] = c + 1
      BY <1>2, <3>2, Zenon
    <3>4. c = Cardinality({j \in U : j < i})
      BY <3>1, Zenon
    <3> HIDE DEF c, rank
    <3>5. rank[i] = k <=> c = k - 1
      BY <3>1, <3>3
    <3> QED BY <3>4, <3>5, Zenon
  <2> HIDE DEF rank
  <2>2. \E i \in U : Cardinality({j \in U : j < i}) = k - 1
    BY <1>10, <2>1
  <2>3. f[k] = CHOOSE i \in U : Cardinality({j \in U : j < i}) = k - 1
    BY DEF R, n, Ranked
  <2>4. f[k] \in U /\ Cardinality({j \in U : j < f[k]}) = k - 1
    BY <2>2, <2>3
  <2> QED BY <2>1, <2>4
<1> HIDE DEF rank
<1>12. f \in [R -> U]
  BY <1>11 DEF R, n, Ranked
<1>13. \A j, k \in R : f[j] = f[k] => j = k
  BY <1>11
<1>14. ASSUME NEW i \in U PROVE \E k \in R : f[k] = i
  <2>1. rank[i] \in R
    BY <1>5
  <2>2. f[rank[i]] \in U /\ rank[f[rank[i]]] = rank[i]
    BY <1>11, <2>1
  <2>3. f[rank[i]] = i
    BY <1>7, <2>2, Zenon
  <2> QED BY <2>1, <2>3, Zenon
<1> QED BY <1>1, <1>12, <1>13, <1>14 DEF R, n, Enumerates

LEMMA TeardownKeeps == ASSUME CInv, WInv, Teardown PROVE WInv'
<1>1. /\ UNCHANGED <<queue, result, stopped, lock, ids, rec, size, old, connected, limit, callback, work>>
      /\ batch' = <<>> /\ sent' = {} /\ answers' = <<>>
      /\ xb = "flush" /\ xb' = "wait" /\ lock = "none"
      /\ backend' = [backend EXCEPT !.state = "Initialising"]
  BY DEF Teardown, io, ids, rec, mem
<1>2. /\ BusyIds' = BusyIds /\ BusyReqs' = BusyReqs /\ idle' = idle
      /\ Held' /\ Splits' /\ queue' = queue /\ resume_list' = resume_list
      /\ resume_split' = resume_split /\ shadow' = shadow
  <2>1. queue' = queue /\ result' = result /\ resume_list' = resume_list
        /\ resume_split' = resume_split /\ shadow' = shadow
    BY <1>1 DEF rec, ids
  <2> QED BY <1>1, <2>1, SameEntries, Zenon
<1>3. /\ IsSeq(batch') /\ IsSeq(answers') /\ IsFiniteSet(sent') /\ OnceId(batch') /\ OnceId(answers')
      /\ IdsOf(batch') = {} /\ IdsOf(answers') = {}
  BY <1>1, EmptyIs, FS_EmptySet, Zenon
<1>4. SentIds' = {}
  BY <1>1 DEF SentIds
<1>5. OnRing' = {} /\ Apart'
  <2>1. OnRing' = {}
    BY <1>3, <1>4 DEF OnRing
  <2>2. \A m, n \in sent' : m.id = n.id => m = n
    BY <1>1
  <2>3. /\ IdsOf(batch') \cap SentIds' = {} /\ IdsOf(batch') \cap IdsOf(answers') = {}
        /\ SentIds' \cap IdsOf(answers') = {}
    BY <1>3, <1>4
  <2> QED BY <1>3, <2>1, <2>2, <2>3, Zenon DEF Apart
<1>6. Sequences'
  BY <1>1, <1>2, <1>3, Zenon DEF WInv, Sequences
<1>7. Numbers'
  BY <1>1, <1>2 DEF WInv, Numbers
<1>8. connected # "CONNECTED" /\ ~Ready'
  BY <1>1 DEF WInv, Phases, Ready
<1>9. Phases'
  BY <1>1, <1>2, <1>8 DEF WInv, Phases
<1>10. Drains' /\ Watched'
  BY <1>1, <1>8 DEF Drains, Watched
<1>11. Entries'
  <2>1. Fresh' => Fresh
    BY <1>1 DEF Fresh
  <2> QED BY <1>1, <1>2, <1>5, <1>8, <2>1 DEF WInv, Entries
<1> QED BY <1>2, <1>5, <1>6, <1>7, <1>9, <1>10, <1>11, Zenon DEF WInv

(* The list that shadow_init links.                                        *)
LEMMA CountingIs ==
    ASSUME NEW a \in Nat, NEW n \in Nat, NEW s, s = [k \in 1 .. n |-> a + k - 1]
    PROVE  /\ IsSeq(s) /\ Once(s) /\ ToSet(s) = a .. a + n - 1
           /\ n > 0 => s # <<>> /\ Head(s) = a
<1>1. /\ \A k \in 1 .. n : s[k] = a + k - 1
      /\ s = [k \in 1 .. n |-> s[k]] /\ DOMAIN s = 1 .. n
  OBVIOUS
<1>2. IsSeq(s) /\ Len(s) = n
  BY <1>1, FunctionIs
<1>3. Once(s)
  BY <1>1 DEF Once
<1>4. ToSet(s) = a .. a + n - 1
  <2>1. \A x \in ToSet(s) : x \in a .. a + n - 1
    BY <1>1 DEF ToSet
  <2>2. ASSUME NEW x \in a .. a + n - 1 PROVE x \in ToSet(s)
    <3>1. x - a + 1 \in 1 .. n /\ a + (x - a + 1) - 1 = x
      OBVIOUS
    <3>2. s[x - a + 1] = x
      BY <1>1, <3>1
    <3> QED BY <1>1, <3>1, <3>2 DEF ToSet
  <2> QED BY <2>1, <2>2
<1>5. n > 0 => s # <<>> /\ Head(s) = a
  <2> SUFFICES ASSUME n > 0 PROVE s # <<>> /\ Head(s) = a
    OBVIOUS
  <2>1. s # <<>> /\ Head(s) = s[1]
    BY <1>2, NonEmptyIs
  <2> QED BY <1>1, <2>1
<1> QED BY <1>2, <1>3, <1>4, <1>5

LEMMA SetupKeeps == ASSUME CInv, WInv, Setup PROVE WInv'
<1>1. /\ UNCHANGED <<queue, result, stopped, lock, ring, shadow, rec, connected, limit, callback, work, backend>>
      /\ xb = "wait" /\ old' = size /\ size' = backend.kind.ring
      /\ \/ /\ connected = "DISCONNECTED" /\ xb' = "initialised"
            /\ idle' = IF idle = <<>> THEN <<>> ELSE Linked(Head(idle))
         \/ connected = "SUSPENDED" /\ xb' = "recover" /\ UNCHANGED idle
  BY DEF Setup, io, mem, env
<1>2. size' \in 1 .. MaxRing /\ old' \in 0 .. MaxRing
  <2>1. backend.kind \in Backends
    BY DEF WInv, Numbers
  <2>2. size \in 0 .. MaxRing
    BY DEF WInv, Numbers
  <2> QED BY <1>1, <2>1, <2>2, Sizes
<1>3. /\ queue' = queue /\ batch' = batch /\ sent' = sent /\ answers' = answers
      /\ shadow' = shadow /\ resume_list' = resume_list /\ resume_split' = resume_split
      /\ result' = result
  BY <1>1 DEF ring, rec
<1>4. BusyIds' = BusyIds /\ BusyReqs' = BusyReqs /\ SentIds' = SentIds
  BY <1>3, Zenon DEF BusyIds, BusyReqs, SentIds
<1>5. OnRing' = OnRing /\ Pending' = Pending
  BY <1>3, <1>4, Zenon DEF OnRing, Pending
<1>6. Apart'
  BY <1>3, <1>4, Zenon DEF WInv, Apart
<1>7. Held'
  <2>1. Held
    BY DEF WInv
  <2> QED BY <1>3, <1>4, <1>5, <2>1, Zenon DEF Held
<1>8. Splits'
  BY <1>3, <1>4, Zenon DEF WInv, Splits
<1>9. connected = "DISCONNECTED" /\ idle # <<>> =>
          /\ IsSeq(idle') /\ ToSet(idle') \subseteq Ids
          /\ Head(idle) = 0 => /\ Once(idle') /\ ToSet(idle') = 0 .. size' - 1
                               /\ idle' # <<>> /\ Head(idle') = 0
  <2> SUFFICES ASSUME connected = "DISCONNECTED", idle # <<>>
               PROVE  /\ IsSeq(idle') /\ ToSet(idle') \subseteq Ids
                      /\ Head(idle) = 0 => /\ Once(idle') /\ ToSet(idle') = 0 .. size' - 1
                                           /\ idle' # <<>> /\ Head(idle') = 0
    OBVIOUS
  <2> DEFINE h == Head(idle)
  <2>1. h \in Nat
    <3>1. IsSeq(idle) /\ ToSet(idle) \subseteq Ids
      BY Zenon DEF WInv, Sequences
    <3>2. h \in ToSet(idle)
      BY <3>1, NonEmptyIs DEF ToSet
    <3> QED BY <3>1, <3>2, IdsAre
  <2>2. idle' = [k \in 1 .. size' - h |-> h + k - 1]
    BY <1>1 DEF Linked
  <2> HIDE DEF h
  <2> DEFINE z == size'
  <2>4. z \in Nat /\ z > 0 /\ z <= MaxRing /\ MaxRing \in Nat
    BY <1>2, Sizes
  <2>5. z = size'
    OBVIOUS
  <2> HIDE DEF z
  <2>6. idle' = [k \in 1 .. z - h |-> h + k - 1]
    BY <2>2, <2>5, Zenon
  <2>7. CASE z - h \in Nat
    <3>1. /\ IsSeq(idle') /\ Once(idle') /\ ToSet(idle') = h .. h + (z - h) - 1
          /\ z - h > 0 => idle' # <<>> /\ Head(idle') = h
      BY <2>1, <2>6, <2>7, CountingIs
    <3>2. h + (z - h) - 1 = z - 1
      BY <2>1, <2>4
    <3>3. ToSet(idle') = h .. z - 1
      BY <3>1, <3>2, Zenon
    <3>4. h .. z - 1 \subseteq Ids
      <4> SUFFICES ASSUME NEW x \in h .. z - 1 PROVE x \in Ids
        OBVIOUS
      <4>1. x \in 0 .. MaxRing - 1
        BY <2>1, <2>4
      <4> QED BY <4>1 DEF Ids
    <3>5. h = 0 => z - h > 0
      BY <2>4
    <3> QED BY <2>5, <3>1, <3>3, <3>4, <3>5, Zenon DEF h
  <2>8. CASE z - h \notin Nat
    <3>1. 1 .. z - h = {} /\ h # 0
      BY <2>4, <2>1, <2>8
    <3>2. idle' = [k \in {} |-> h + k - 1]
      BY <2>6, <3>1, Zenon
    <3>3. idle' = <<>>
      BY <3>2
    <3>4. IsSeq(idle') /\ ToSet(idle') = {}
      BY <3>3, EmptyIs, Zenon
    <3> QED BY <3>1, <3>4 DEF h
  <2> QED BY <2>7, <2>8
<1>10. IsSeq(idle') /\ ToSet(idle') \subseteq Ids
  <2>1. CASE idle' = idle
    BY <2>1, Zenon DEF WInv, Sequences
  <2>2. CASE idle' = <<>>
    BY <2>2, EmptyIs
  <2> QED BY <1>1, <1>9, <2>1, <2>2
<1>11. Sequences'
  BY <1>3, <1>10, Zenon DEF WInv, Sequences
<1>12. Numbers'
  BY <1>1, <1>2, <1>3, Sizes DEF WInv, Numbers
<1>13. connected # "CONNECTED"
  BY <1>1
<1>14. Phases'
  BY <1>1, <1>2, <1>3, <1>13 DEF WInv, Phases
<1>15. Drains' /\ Watched'
  BY <1>1, <1>13 DEF Drains, Watched
<1>16. Entries'
  <2>1. Fresh' = Fresh
    BY <1>1 DEF Fresh
  <2>2. CASE connected = "DISCONNECTED"
    <3>1. xb' = "initialised" /\ connected' = "DISCONNECTED" /\ (Ready' => Fresh)
      BY <1>1, <2>2 DEF Ready, Fresh
    <3>2. Fresh => /\ BusyIds = {} /\ OnRing = {} /\ resume_list = <<>> /\ resume_split = <<>>
                   /\ idle # <<>> /\ Head(idle) = 0
      BY Zenon DEF WInv, Entries
    <3> HIDE DEF Fresh
    <3>3. Fresh' => /\ BusyIds' = {} /\ OnRing' = {} /\ resume_list' = <<>> /\ resume_split' = <<>>
                    /\ idle' # <<>> /\ Head(idle') = 0
      BY <1>3, <1>4, <1>5, <1>9, <2>1, <2>2, <3>2, Zenon
    <3>4. Ready' => /\ OnRing' = BusyIds' /\ BusyIds' \subseteq 0 .. size' - 1
                    /\ Once(idle') /\ ToSet(idle') = (0 .. size' - 1) \ BusyIds'
      BY <1>4, <1>5, <1>9, <2>2, <3>1, <3>2
    <3> QED BY <3>1, <3>3, <3>4 DEF Entries
  <2>3. CASE connected = "SUSPENDED"
    <3>1. xb' = "recover" /\ connected' = "SUSPENDED" /\ ~Ready' /\ idle' = idle
      BY <1>1, <2>3 DEF Ready
    <3>2. BusyIds \subseteq 0 .. size - 1 /\ OnRing = {}
      BY <1>1, <2>3 DEF WInv, Entries
    <3> QED BY <1>1, <1>3, <1>4, <1>5, <2>1, <3>1, <3>2, Zenon DEF WInv, Entries
  <2> QED BY <1>1, <2>2, <2>3
<1> QED BY <1>6, <1>7, <1>8, <1>11, <1>12, <1>14, <1>15, <1>16, Zenon DEF WInv

(* blkif_recover's copies are of the requests that the entries hold.       *)
LEMMA RecoverKeeps == ASSUME CInv, WInv, Recover PROVE WInv'
<1> DEFINE Copied == [k \in DOMAIN InUse |->
                          LET i == InUse[k]
                          IN  Entry(i, shadow[i], IF shadow[i].op = "indirect" THEN segs.at[i] ELSE NoTable)]
<1>1. /\ UNCHANGED <<queue, result, stopped, lock, ring, resume_split, connected, limit, callback, work,
                     backend, size, old>>
      /\ xb = "recover" /\ xb' = "kick" /\ resume_list' = resume_list \o Copied
      /\ shadow' = [i \in Ids |-> IF i < old THEN Empty ELSE shadow[i]]
      /\ idle' = [k \in 1 .. size |-> k - 1]
  BY DEF Recover, io, mem, env
<1>2. connected = "SUSPENDED" /\ size \in Nat /\ size > 0 /\ old \in Nat /\ ~Fresh
      /\ size <= MaxRing /\ MaxRing \in Nat /\ old <= MaxRing
  <2>1. connected = "SUSPENDED"
    BY <1>1 DEF CInv, Control
  <2>2. size > 0 /\ size \in 0 .. MaxRing /\ old \in 0 .. MaxRing
    BY <1>1 DEF WInv, Phases, Numbers
  <2>3. ~Fresh
    BY <1>1, <2>1 DEF CInv, Control, Fresh
  <2> QED BY <2>1, <2>2, <2>3, Sizes
<1>3. Used = BusyIds /\ Used \subseteq Nat /\ IsFiniteSet(Used)
  <2>1. BusyIds \subseteq 0 .. old - 1
    BY <1>1 DEF WInv, Entries
  <2>2. 0 .. old - 1 \subseteq Ids
    BY <1>2, IdsAre
  <2>3. Used = BusyIds
    BY <2>1, <2>2 DEF Used, BusyIds
  <2>4. IsFiniteSet(0 .. old - 1)
    BY <1>2, FS_Interval
  <2>5. Used \subseteq 0 .. old - 1
    BY <2>1, <2>3
  <2>6. IsFiniteSet(Used)
    BY <2>4, <2>5, FS_Subset
  <2>7. 0 .. old - 1 \subseteq Nat
    BY <1>2
  <2> QED BY <2>3, <2>5, <2>6, <2>7
<1> DEFINE n == Cardinality(Used)
<1>4. /\ n \in Nat /\ InUse \in [1 .. n -> Used]
      /\ \A j, k \in 1 .. n : InUse[j] = InUse[k] => j = k
      /\ \A i \in Used : \E k \in 1 .. n : InUse[k] = i
  <2> DEFINE f == InUse
  <2>1. f = Ranked(Used)
    BY Zenon DEF InUse, Ranked
  <2> HIDE DEF f
  <2>2. Used \subseteq Nat /\ IsFiniteSet(Used)
    BY <1>3, Zenon
  <2>3. Enumerates(f, Used)
    BY <2>1, <2>2, Ranks, Zenon
  <2> QED BY <2>3, Zenon DEF f, Enumerates
<1> HIDE DEF n
<1>5. DOMAIN InUse = 1 .. n /\ \A k \in 1 .. n : InUse[k] \in Used
  BY <1>4
<1>6. /\ Copied = [k \in 1 .. n |-> Copied[k]] /\ DOMAIN Copied = 1 .. n
      /\ \A k \in 1 .. n : Copied[k].req = shadow[InUse[k]].req /\ Shaped(Copied[k])
  BY <1>5 DEF Entry, Shaped
<1> HIDE DEF Copied
<1>7. IsSeq(Copied)
  BY <1>4, <1>6, FunctionIs
<1>8. /\ result \in [Reqs -> {"new", "pending", "ok", "error"}]
      /\ Once(queue) /\ OnceReq(resume_list)
      /\ \A i, j \in BusyIds : shadow[i].req = shadow[j].req => i = j
      /\ ToSet(queue) \cap BusyReqs = {}
      /\ ToSet(queue) \cap ReqsOf(resume_list) = {}
      /\ BusyReqs \cap ReqsOf(resume_list) = {}
      /\ ToSet(queue) \cup BusyReqs \cup ReqsOf(resume_list) = Pending
  BY Zenon DEF WInv, Held
<1>9. ReqsOf(Copied) = BusyReqs
  <2>1. \A k \in 1 .. n : Copied[k].req \in BusyReqs
    BY <1>3, <1>5, <1>6 DEF BusyReqs
  <2>2. ASSUME NEW i \in BusyIds PROVE shadow[i].req \in ReqsOf(Copied)
    <3>1. PICK k \in 1 .. n : InUse[k] = i
      BY <1>3, <1>4
    <3>2. Copied[k].req = shadow[i].req
      BY <1>6, <3>1
    <3> QED BY <1>6, <3>2 DEF ReqsOf
  <2>3. \A x \in ReqsOf(Copied) : x \in BusyReqs
    BY <1>6, <2>1 DEF ReqsOf
  <2>4. \A x \in BusyReqs : x \in ReqsOf(Copied)
    BY <2>2 DEF BusyReqs
  <2> QED BY <2>3, <2>4
<1>10. OnceReq(Copied)
  <2> SUFFICES ASSUME NEW j \in 1 .. n, NEW k \in 1 .. n, Copied[j].req = Copied[k].req
               PROVE  j = k
    BY <1>6 DEF OnceReq
  <2>1. shadow[InUse[j]].req = shadow[InUse[k]].req
    BY <1>6
  <2>2. InUse[j] \in BusyIds /\ InUse[k] \in BusyIds
    BY <1>3, <1>5
  <2>3. InUse[j] = InUse[k]
    BY <1>8, <2>1, <2>2
  <2> QED BY <1>4, <2>3
<1>11. IsSeq(resume_list) /\ \A k \in DOMAIN resume_list : Shaped(resume_list[k])
  BY Zenon DEF WInv, Sequences
<1>12. Joined(resume_list', resume_list, Copied) /\ Both(resume_list', resume_list, Copied)
  BY <1>1, <1>7, <1>11, ConcatIs, Zenon
<1>13. /\ IsSeq(resume_list') /\ OnceReq(resume_list')
       /\ ReqsOf(resume_list') = ReqsOf(resume_list) \cup BusyReqs
       /\ \A k \in DOMAIN resume_list' : Shaped(resume_list'[k])
  <2>1. IsSeq(resume_list') /\ ReqsOf(resume_list') = ReqsOf(resume_list) \cup BusyReqs
    BY <1>9, <1>12, Zenon DEF Joined, Both
  <2>2. OnceReq(resume_list')
    <3>1. ReqsOf(resume_list) \cap ReqsOf(Copied) = {}
      BY <1>8, <1>9
    <3> QED BY <1>8, <1>10, <1>12, <3>1, Zenon DEF Both
  <2>3. ASSUME NEW k \in DOMAIN resume_list' PROVE Shaped(resume_list'[k])
    <3>1. /\ Len(resume_list) \in Nat /\ DOMAIN resume_list = 1 .. Len(resume_list)
          /\ Len(Copied) \in Nat /\ DOMAIN Copied = 1 .. Len(Copied)
      BY <1>7, <1>11, SeqIs
    <3>2. \/ k \in DOMAIN resume_list /\ resume_list'[k] = resume_list[k]
          \/ k - Len(resume_list) \in DOMAIN Copied
             /\ resume_list'[k] = Copied[k - Len(resume_list)]
      BY <1>12, <3>1 DEF Joined
    <3> QED BY <1>6, <1>11, <3>2
  <2> QED BY <2>1, <2>2, <2>3
<1>14. BusyIds' = {} /\ BusyReqs' = {} /\ DOMAIN shadow' = Ids
  <2>1. \A i \in Ids : shadow'[i] = IF i < old THEN Empty ELSE shadow[i]
    BY <1>1
  <2>2. ASSUME NEW i \in Ids PROVE shadow'[i].req = NoReq
    <3>1. CASE i < old
      BY <2>1, <3>1 DEF Empty, Copy
    <3>2. CASE ~(i < old)
      <4>1. i \notin BusyIds
        <5>1. BusyIds \subseteq 0 .. old - 1
          BY <1>1 DEF WInv, Entries
        <5>2. ASSUME i \in BusyIds PROVE i < old
          BY <1>2, <5>1, <5>2
        <5> QED BY <3>2, <5>2
      <4> QED BY <2>1, <3>2, <4>1 DEF BusyIds
    <3> QED BY <3>1, <3>2
  <2>3. BusyIds' = {}
    BY <2>2 DEF BusyIds
  <2>4. BusyReqs' = {}
    BY <2>3 DEF BusyReqs
  <2>5. DOMAIN shadow' = Ids
    BY <1>1
  <2> QED BY <2>3, <2>4, <2>5
<1>15. IsSeq(idle') /\ Once(idle') /\ ToSet(idle') = 0 .. size - 1 /\ ToSet(idle') \subseteq Ids
  <2>1. idle' = [k \in 1 .. size |-> 0 + k - 1]
    BY <1>1, <1>2
  <2>2. IsSeq(idle') /\ Once(idle') /\ ToSet(idle') = 0 .. 0 + size - 1
    BY <1>2, <2>1, CountingIs
  <2> QED BY <1>2, <2>2 DEF Ids
<1>16. /\ queue' = queue /\ batch' = batch /\ sent' = sent /\ answers' = answers /\ size' = size
       /\ result' = result /\ resume_split' = resume_split /\ resume_split = <<>>
  <2>1. resume_split = <<>>
    BY <1>2 DEF WInv, Phases
  <2> QED BY <1>1, <2>1 DEF ring
<1>17. SentIds' = SentIds
  BY <1>16, Zenon DEF SentIds
<1>18. OnRing' = {} /\ Apart'
  <2>1. OnRing = {}
    BY <1>1, <1>2 DEF WInv, Entries
  <2>2. OnRing' = OnRing
    BY <1>16, <1>17, Zenon DEF OnRing
  <2> QED BY <1>16, <1>17, <2>1, <2>2, Zenon DEF WInv, Apart
<1>19. Sequences'
  BY <1>13, <1>15, <1>16, Zenon DEF WInv, Sequences
<1>20. Numbers'
  BY <1>1, <1>14, <1>16 DEF WInv, Numbers
<1>21. Phases'
  BY <1>1, <1>2, <1>16 DEF WInv, Phases
<1>22. Drains' /\ Watched'
  BY <1>1, <1>2 DEF Drains, Watched
<1>23. Entries'
  <2>1. ~Fresh' /\ connected' = "SUSPENDED" /\ xb' = "kick"
    BY <1>1, <1>2 DEF Fresh
  <2>2. BusyIds' \subseteq 0 .. size' - 1 /\ ToSet(idle') = (0 .. size' - 1) \ BusyIds'
    BY <1>14, <1>15, <1>16
  <2> QED BY <1>14, <1>15, <1>18, <2>1, <2>2 DEF Entries
<1>24. Held'
  <2>1. Pending' = Pending
    BY <1>16, Zenon DEF Pending
  <2>2. /\ ToSet(queue) \cap BusyReqs' = {} /\ ToSet(queue) \cap ReqsOf(resume_list') = {}
        /\ BusyReqs' \cap ReqsOf(resume_list') = {}
        /\ ToSet(queue) \cup BusyReqs' \cup ReqsOf(resume_list') = Pending
    BY <1>8, <1>13, <1>14
  <2>3. \A i, j \in BusyIds' : shadow'[i].req = shadow'[j].req => i = j
    BY <1>14
  <2> QED BY <1>8, <1>13, <1>16, <2>1, <2>2, <2>3, Zenon DEF Held
<1>25. Splits'
  <2>1. OnceId(resume_split') /\ DOMAIN resume_split' = {}
    BY <1>16, EmptyIs, Zenon
  <2> QED BY <2>1, Zenon DEF Splits
<1> QED BY <1>18, <1>19, <1>20, <1>21, <1>22, <1>23, <1>24, <1>25, Zenon DEF WInv
-----------------------------------------------------------------------------
(* The invariant of the device.                                            *)

LEMMA PlacesInit == Init => WInv
<1> SUFFICES ASSUME Init PROVE WInv
  OBVIOUS
<1>1. /\ queue = <<>> /\ stopped = FALSE /\ lock = "none" /\ connected = "DISCONNECTED"
      /\ xb = "probe" /\ limit = 0 /\ size = 0 /\ old = 0 /\ idle = <<0>>
      /\ batch = <<>> /\ sent = {} /\ answers = <<>> /\ resume_list = <<>> /\ resume_split = <<>>
      /\ callback = FALSE /\ work = FALSE
      /\ shadow = [i \in Ids |-> Empty] /\ result = [r \in Reqs |-> "new"]
  BY DEF Init
<1>2. /\ IsSeq(queue) /\ IsSeq(batch) /\ IsSeq(answers) /\ IsSeq(resume_list) /\ IsSeq(resume_split)
      /\ ToSet(queue) = {} /\ IdsOf(batch) = {} /\ IdsOf(answers) = {} /\ ReqsOf(resume_list) = {}
      /\ Once(queue) /\ OnceId(batch) /\ OnceId(answers) /\ OnceReq(resume_list) /\ OnceId(resume_split)
      /\ DOMAIN resume_list = {} /\ DOMAIN resume_split = {}
  BY <1>1, EmptyIs, Zenon
<1>3. IsSeq(idle) /\ ToSet(idle) = {0} /\ idle # <<>> /\ Head(idle) = 0
  <2>1. idle = [k \in 1 .. 1 |-> 0 + k - 1]
    BY <1>1
  <2>2. IsSeq(idle) /\ ToSet(idle) = 0 .. 0 + 1 - 1 /\ idle # <<>> /\ Head(idle) = 0
    <3> DEFINE s == idle
    <3>1. s = [k \in 1 .. 1 |-> 0 + k - 1]
      BY <2>1
    <3> HIDE DEF s
    <3>2. 0 \in Nat /\ 1 \in Nat /\ 1 > 0
      OBVIOUS
    <3>3. IsSeq(s) /\ ToSet(s) = 0 .. 0 + 1 - 1 /\ s # <<>> /\ Head(s) = 0
      BY <3>1, <3>2, CountingIs, Zenon
    <3> QED BY <3>3, Zenon DEF s
  <2>3. 0 .. 0 + 1 - 1 = {0}
    OBVIOUS
  <2> QED BY <2>2, <2>3, Zenon
<1>4. MaxRing \in Nat /\ MaxRing > 0
  BY Sizes
<1>5. 0 \in Ids
  BY <1>4 DEF Ids
<1>6. IsFiniteSet(sent) /\ SentIds = {} /\ OnRing = {}
  <2>1. SentIds = {}
    BY <1>1 DEF SentIds
  <2> QED BY <1>1, <1>2, <2>1, FS_EmptySet DEF OnRing
<1>7. DOMAIN shadow = Ids /\ BusyIds = {} /\ BusyReqs = {}
  <2>1. DOMAIN shadow = Ids /\ \A i \in Ids : shadow[i].req = NoReq
    BY <1>1 DEF Empty, Copy
  <2>2. BusyIds = {}
    BY <2>1 DEF BusyIds
  <2>3. BusyReqs = {}
    BY <2>2 DEF BusyReqs
  <2> QED BY <2>1, <2>2, <2>3
<1>8. Sequences
  BY <1>2, <1>3, <1>5, <1>6 DEF Sequences
<1>9. Numbers
  <2>1. \E b \in Backends : backend = [kind |-> b, state |-> "Initialising"]
    BY DEF Init
  <2>2. backend \in [kind : Backends,
                     state : {"Initialising", "InitWait", "Connected", "Gone"}]
    BY <2>1
  <2>3. size \in 0 .. MaxRing /\ old \in 0 .. MaxRing
    BY <1>1, <1>4
  <2>4. callback \in BOOLEAN /\ work \in BOOLEAN
    BY <1>1
  <2> QED BY <1>7, <2>2, <2>3, <2>4, Zenon DEF Numbers
<1>10. Fresh /\ ~Ready
  BY <1>1 DEF Fresh, Ready
<1>11. Phases /\ Drains /\ Watched
  BY <1>1, <1>10 DEF Phases, Drains, Watched
<1>12. Apart
  BY <1>1, <1>2, <1>6 DEF Apart
<1>13. Entries
  BY <1>1, <1>3, <1>6, <1>7, <1>10, Zenon DEF Entries
<1>14. Held
  <2>1. Pending = {} /\ result \in [Reqs -> {"new", "pending", "ok", "error"}]
    BY <1>1 DEF Pending
  <2>2. \A i, j \in BusyIds : shadow[i].req = shadow[j].req => i = j
    BY <1>7
  <2> QED BY <1>2, <1>7, <2>1, <2>2 DEF Held
<1>15. Splits
  BY <1>2, Zenon DEF Splits
<1> QED BY <1>8, <1>9, <1>11, <1>12, <1>13, <1>14, <1>15 DEF WInv

LEMMA PlacesNext ==
    ASSUME "splitting" \notin When
    PROVE  CInv /\ WInv /\ [Next]_vars => WInv'
<1> SUFFICES ASSUME CInv, WInv, [Next]_vars PROVE WInv'
  OBVIOUS
<1>1. ASSUME NEW r \in Reqs, Submit(r) PROVE WInv'
  BY <1>1, SubmitKeeps
<1>2. CASE RunQueue \/ Interrupt \/ Work \/ HandleEnds
  BY <1>2, LockKeeps
<1>3. CASE IssueStops \/ IssueEnds \/ ReplayEnds
  BY <1>3, FlushStepKeeps
<1>4. CASE Issue
  BY <1>4, IssueKeeps
<1>5. CASE HandleWhole
  BY <1>5, HandleWholeKeeps
<1>6. CASE HandleSplit
  BY <1>6, HandleSplitKeeps
<1>7. CASE ReplayPlain \/ ReplayIndirect
  BY <1>7, ReplayKeeps
<1>8. CASE Locked
  BY <1>2, <1>3, <1>4, <1>5, <1>6, <1>7, <1>8, Zenon DEF Locked
<1>9. CASE Connection
  BY <1>9, ProbeKeeps, SetupKeeps, ConnectKeeps, ConnectKicksKeeps, ResumeKeeps, TeardownKeeps,
     RecoverKeeps, RecoverKicksKeeps, FreeSurplusKeeps, Zenon DEF Connection
<1>10. CASE OtherTakes \/ OtherReleases
  BY <1>10, PoolKeeps
<1>11. CASE BackendReady \/ BackendConnects
  BY <1>11, BackendKeeps
<1>12. CASE Serve
  BY <1>12, ServeKeeps, Zenon DEF Serve
<1>13. ASSUME NEW b \in Backends, Migrate(b) PROVE WInv'
  BY <1>13, MigrateKeeps
<1>14. CASE UNCHANGED vars
  BY <1>14, StutterKeeps
<1> QED BY <1>1, <1>2, <1>8, <1>9, <1>10, <1>11, <1>12, <1>13, <1>14, Zenon DEF Next

LEMMA PlacesAlways ==
    ASSUME "splitting" \notin When
    PROVE  Spec => [](CInv /\ WInv)
<1>1. "splitting" \notin When
  OBVIOUS
<1>2. CInv /\ WInv /\ [Next]_vars => (CInv /\ WInv)'
  BY <1>1, ControlNext, PlacesNext
<1>3. Init => CInv /\ WInv
  BY ControlInit, PlacesInit
<1> QED BY <1>2, <1>3, PTL DEF Spec

(* blkif_queue_request, blkif_int, blkif_restart_queue: a queue that was   *)
(* stopped is about to be kicked, for any number of requests, whatever the *)
(* hosts, as long as no migration finds a split request under way.         *)
THEOREM AboutToBeKicked ==
    ASSUME "splitting" \notin When
    PROVE  Spec => []StoppedIsWatched
<1>1. CInv /\ WInv => StoppedIsWatched
  BY DEF WInv, Watched, StoppedIsWatched
<1> QED BY <1>1, PlacesAlways, PTL

-----------------------------------------------------------------------------
(* What is held, counted.                                                  *)

(* What has at most one element.                                           *)
LEMMA CountIs ==
    ASSUME NEW S, \A j, k \in S : j = k
    PROVE  Cardinality(S) = IF S = {} THEN 0 ELSE 1
<1>1. CASE S # {}
  <2>1. PICK k \in S : TRUE
    BY <1>1
  <2>2. S = {k}
    BY <2>1
  <2> QED BY <1>1, <2>2, FS_Singleton
<1>2. CASE S = {}
  BY <1>2, FS_EmptySet
<1> QED BY <1>1, <1>2

(* do_blkif_request, blkif_int, blkif_free, blkif_recover: a request that  *)
(* was accepted is in one place until it ends, and none that was not is in *)
(* any; what is left of a split request goes with the entry it came from.  *)
THEOREM HeldUntilEnded ==
    ASSUME "splitting" \notin When
    PROVE  Spec => []PendingHeld
<1>1. CInv /\ WInv => PendingHeld
  <2> SUFFICES ASSUME WInv PROVE PendingHeld
    OBVIOUS
  <2>1. ASSUME NEW r \in Reqs
        PROVE  Places(r) = IF result[r] = "pending" THEN 1 ELSE 0
    <3> DEFINE Q == {k \in DOMAIN queue : queue[k] = r}
               E == {i \in Ids : shadow[i].req = r}
               L == {k \in DOMAIN resume_list : resume_list[k].req = r}
    <3>1. /\ Once(queue) /\ OnceReq(resume_list)
          /\ \A i, j \in BusyIds : shadow[i].req = shadow[j].req => i = j
          /\ ToSet(queue) \cap BusyReqs = {}
          /\ ToSet(queue) \cap ReqsOf(resume_list) = {}
          /\ BusyReqs \cap ReqsOf(resume_list) = {}
          /\ ToSet(queue) \cup BusyReqs \cup ReqsOf(resume_list) = Pending
      BY Zenon DEF WInv, Held
    <3>2. r # NoReq
      BY BlkAssumption
    <3>3. Cardinality(Q) = IF r \in ToSet(queue) THEN 1 ELSE 0
      <4>1. \A j, k \in Q : j = k
        BY <3>1 DEF Once
      <4>2. Q = {} <=> r \notin ToSet(queue)
        BY DEF ToSet
      <4> HIDE DEF Q
      <4> QED BY <4>1, <4>2, CountIs
    <3>4. Cardinality(E) = IF r \in BusyReqs THEN 1 ELSE 0
      <4>1. E \subseteq BusyIds
        BY <3>2 DEF BusyIds
      <4>2. \A j, k \in E : j = k
        BY <3>1, <4>1
      <4>3. E = {} <=> r \notin BusyReqs
        BY <4>1 DEF BusyReqs, BusyIds
      <4> HIDE DEF E
      <4> QED BY <4>2, <4>3, CountIs
    <3>5. Cardinality(L) = IF r \in ReqsOf(resume_list) THEN 1 ELSE 0
      <4>1. \A j, k \in L : j = k
        BY <3>1 DEF OnceReq
      <4>2. L = {} <=> r \notin ReqsOf(resume_list)
        BY DEF ReqsOf
      <4> HIDE DEF L
      <4> QED BY <4>1, <4>2, CountIs
    <3>6. Places(r) = Cardinality(Q) + Cardinality(E) + Cardinality(L)
      BY Zenon DEF Places
    <3>7. r \in Pending <=> result[r] = "pending"
      BY DEF Pending
    <3> HIDE DEF Q, E, L
    <3>8. CASE r \in ToSet(queue)
      <4>1. r \notin BusyReqs /\ r \notin ReqsOf(resume_list) /\ r \in Pending
        BY <3>1, <3>8
      <4> QED BY <3>3, <3>4, <3>5, <3>6, <3>7, <3>8, <4>1
    <3>9. CASE r \in BusyReqs
      <4>1. r \notin ToSet(queue) /\ r \notin ReqsOf(resume_list) /\ r \in Pending
        BY <3>1, <3>9
      <4> QED BY <3>3, <3>4, <3>5, <3>6, <3>7, <3>9, <4>1
    <3>10. CASE r \in ReqsOf(resume_list)
      <4>1. r \notin ToSet(queue) /\ r \notin BusyReqs /\ r \in Pending
        BY <3>1, <3>10
      <4> QED BY <3>3, <3>4, <3>5, <3>6, <3>7, <3>10, <4>1
    <3>11. CASE r \notin ToSet(queue) /\ r \notin BusyReqs /\ r \notin ReqsOf(resume_list)
      <4>1. r \notin Pending
        BY <3>1, <3>11
      <4> QED BY <3>3, <3>4, <3>5, <3>6, <3>7, <3>11, <4>1
    <3> QED BY <3>8, <3>9, <3>10, <3>11
  <2>2. ASSUME NEW k \in DOMAIN resume_split
        PROVE  LET e == resume_split[k]
               IN  /\ shadow[e.id].req = e.req /\ shadow[e.id].op = "indirect"
                   /\ \A l \in DOMAIN resume_split \ {k} : resume_split[l].id # e.id
    <3>1. Splits
      BY DEF WInv
    <3>2. shadow[resume_split[k].id].req = resume_split[k].req
          /\ shadow[resume_split[k].id].op = "indirect"
      BY <3>1 DEF Splits
    <3>3. \A l \in DOMAIN resume_split : resume_split[l].id = resume_split[k].id => l = k
      BY <3>1 DEF Splits, OnceId
    <3> QED BY <3>2, <3>3
  <2> QED BY <2>1, <2>2 DEF PendingHeld
<1> QED BY <1>1, PlacesAlways, PTL
-----------------------------------------------------------------------------
(* The tables, the references and the disk: the invariant, for requests of *)
(* two chunks at most and migrations that find the device connected and no *)
(* split request under way.                                                *)

Long(r)  == Chunks[r] > 1
ToCome   == \E r \in Reqs : Long(r) /\ (result[r] = "new" \/ r \in ToSet(queue))
Listed   == ToSet(resume_list)
Kepts    == {e \in Listed : e.op = "indirect"}
Inds     == {i \in Ids : shadow[i].op = "indirect"}
Splitting == ToSet(resume_split)
SplitIds == IdsOf(resume_split)
Ringed   == ToSet(batch) \cup sent
TablesOf(S) == {e.table : e \in S}
SlotTables  == {segs.at[i] : i \in Slots}
Whole(r) == [req |-> r, from |-> 1]

(* How a request is kept in a shadow entry or in resume_list: what is not  *)
(* kept of it has been written.                                            *)
Remains(s, w) ==
    /\ s.req \in Reqs
    /\ \/ /\ s.op = "plain" /\ s.n = 1 /\ s.chunk \in 1 .. Chunks[s.req]
          /\ \A c \in 1 .. Chunks[s.req] : c # s.chunk => <<s.req, c>> \in w
       \/ s.op = "indirect" /\ s.n = 2 /\ s.chunk = 0 /\ Chunks[s.req] = 2

Values ==
    /\ keep \in BOOLEAN /\ limit \in 0 .. MaxChunks /\ maxSegs \in 0 .. MaxChunks
    /\ frames \in {"none", "live", "freed"} /\ migrations \in 0 .. Migrations
    /\ xb \in {"probe", "wait", "initialised", "connecting", "idle", "resume", "flush",
              "recover", "kick", "surplus"}
    /\ lock \in {"none", "issue", "handle", "replay"}
    /\ written \subseteq Reqs \X (1 .. MaxChunks)
    /\ segs \in [len : 0 .. MaxRing, at : [Ids -> Tables \cup {NoTable}]]
    /\ live \subseteq Tables
    /\ contents \in [Tables -> [req : Reqs \cup {NoReq}, from : 0 .. MaxChunks]]
    /\ ToSet(answers) \subseteq [id : Ids, ok : BOOLEAN]

(* A resume finds the device connected; before the first one there are no  *)
(* tables.                                                                 *)
Keeping ==
    /\ xb = "resume" => connected = "CONNECTED"
    /\ xb = "flush" => keep /\ connected = "SUSPENDED"
    /\ connected = "DISCONNECTED" /\ xb \in {"probe", "wait"} => segs.len = 0 /\ size = 0
    /\ maxSegs > 1 => segs.len > 0
    /\ segs.len > 0 => size <= segs.len /\ MaxChunks > 1
    /\ segs.len > 0 /\ ~backend.kind.indirect => backend.kind.ring <= segs.len /\ ~ToCome

Copies ==
    /\ \A i \in Ids : shadow[i] = Empty \/ Remains(shadow[i], written)
    /\ \A i \in Ids : shadow[i] = Copy(shadow[i].req, shadow[i].op, shadow[i].n, shadow[i].chunk)
    /\ \A e \in Listed : Remains(e, written) /\ e.id \in Ids /\ e.table \in Tables \cup {NoTable}
    /\ \A e \in Splitting :
           Remains(e, written) /\ e.id \in Ids /\ e.table \in Tables /\ e.op = "indirect"

InSlots ==
    /\ \A i, j \in Slots : i # j => segs.at[i] # segs.at[j]
    /\ \A i \in Slots : segs.at[i] \in live /\ i < segs.len
    /\ \A i \in Slots : i < size \/ (xb \in {"recover", "kick", "surplus"} /\ i < old)
    /\ \A i \in Inds : i \in Slots /\ contents[segs.at[i]] = Whole(shadow[i].req)

InList ==
    /\ \A e \in Kepts : e.table \in live /\ contents[e.table] = Whole(e.req)
    /\ \A e, f \in Kepts : e.table = f.table => e = f
    /\ SlotTables \cap TablesOf(Kepts) = {}
    /\ live \subseteq SlotTables \cup TablesOf(Kepts)

(* What the ring requests and the responses are about.                     *)
Serves(m) ==
    LET s == shadow[m.id]
    IN  /\ m.id \in Ids /\ m.req = s.req
        /\ m = [id |-> m.id, req |-> m.req, chunk |-> m.chunk, n |-> m.n, table |-> m.table]
        /\ \/ /\ s.op = "plain" /\ m.table = NoTable /\ m.n = 1 /\ m.chunk = s.chunk
           \/ /\ s.op = "indirect" /\ m.id \in SplitIds
              /\ m.table = NoTable /\ m.n = 1 /\ m.chunk = 1
           \/ /\ s.op = "indirect" /\ m.id \notin SplitIds
              /\ m.table = segs.at[m.id] /\ m.n = 2 /\ m.chunk = 0

Served(id) ==
    LET s == shadow[id]
    IN  /\ s.op = "plain" => <<s.req, s.chunk>> \in written
        /\ s.op = "indirect" => <<s.req, 1>> \in written
        /\ s.op = "indirect" /\ id \notin SplitIds => <<s.req, 2>> \in written

OnWire ==
    /\ \A m \in Ringed : Serves(m)
    /\ \A a \in ToSet(answers) : a.ok => Served(a.id)

(* One reference for the page of a chunk, one more for that of a table.    *)
References ==
    /\ pool \in Nat /\ others \in 0 .. Others
    /\ pool + others + Cardinality(BusyIds) + Cardinality(Listed)
           + 2 * (Cardinality(Inds) + Cardinality(Kepts)) <= Grants
Counted ==
    /\ Cardinality(Inds) + Cardinality(Kepts) <= MaxRing
    /\ ToCome /\ segs.len > 0 => Cardinality(Vacant) <= Cardinality(Kepts)
    /\ segs.len = 0 => Kepts = {}

TInv == Values /\ Keeping /\ Copies /\ InSlots /\ InList /\ OnWire /\ References /\ Counted

(* Requests of two chunks at most, and migrations that find the device     *)
(* connected, no split request under way, and a host that takes the        *)
(* requests still to come and has no longer ring than info->indirect_segs  *)
(* if it has no indirect requests: see Moments.                            *)
Modest == When \subseteq {"connected"} /\ \A r \in Reqs : Chunks[r] <= 2

LEMMA TableNames ==
    /\ NoTable \notin Tables /\ NoReq \notin Reqs /\ Tables \subseteq Nat
    /\ IsFiniteSet(Ids) /\ Cardinality(Ids) = MaxRing
    /\ IsFiniteSet(Tables) /\ Cardinality(Tables) = 2 * MaxRing
<1>1. MaxRing \in Nat /\ MaxRing > 0
  BY Sizes
<1>2. IsFiniteSet(0 .. MaxRing - 1) /\ Cardinality(0 .. MaxRing - 1) = MaxRing
  <2>1. IsFiniteSet(0 .. MaxRing - 1) /\ Cardinality(0 .. MaxRing - 1) =
            IF 0 > MaxRing - 1 THEN 0 ELSE MaxRing - 1 - 0 + 1
    BY <1>1, FS_Interval
  <2> QED BY <1>1, <2>1
<1>3. IsFiniteSet(1 .. 2 * MaxRing) /\ Cardinality(1 .. 2 * MaxRing) = 2 * MaxRing
  <2> DEFINE n == 2 * MaxRing
  <2>1. n \in Nat /\ n > 0
    BY <1>1
  <2> HIDE DEF n
  <2>2. IsFiniteSet(1 .. n) /\ Cardinality(1 .. n) = IF 1 > n THEN 0 ELSE n - 1 + 1
    BY <2>1, FS_Interval
  <2> QED BY <2>1, <2>2 DEF n
<1>4. Tables \subseteq Nat
  BY <1>1 DEF Tables
<1> QED BY <1>2, <1>3, <1>4, BlkAssumption DEF Ids, Tables

(* What Remains of an entry depends on nothing but what has been written.  *)
LEMMA RemainsOn ==
    ASSUME NEW s, NEW w, NEW v, Remains(s, w), w \subseteq v
    PROVE  Remains(s, v)
BY DEF Remains

(* Values that the same names stand for.                                   *)
LEMMA SlotNames ==
    ASSUME UNCHANGED segs
    PROVE  Slots' = Slots /\ SlotTables' = SlotTables
BY Zenon DEF Slots, SlotTables

LEMMA ListNames ==
    ASSUME UNCHANGED resume_list
    PROVE  Listed' = Listed /\ Kepts' = Kepts
BY Zenon DEF Listed, Kepts

LEMMA SplitNames ==
    ASSUME UNCHANGED resume_split
    PROVE  Splitting' = Splitting /\ SplitIds' = SplitIds
BY Zenon DEF Splitting, SplitIds

LEMMA EntryNames ==
    ASSUME UNCHANGED shadow
    PROVE  BusyIds' = BusyIds /\ Inds' = Inds
BY Zenon DEF BusyIds, Inds

LEMMA CopiesSame ==
    ASSUME Copies, UNCHANGED <<shadow, resume_list, resume_split>>, written \subseteq written'
    PROVE  Copies'
<1>1. Listed' = Listed /\ Splitting' = Splitting /\ shadow' = shadow
  BY ListNames, SplitNames, Zenon
<1>2. \A s : Remains(s, written) => Remains(s, written')
  BY RemainsOn, Zenon
<1> QED BY <1>1, <1>2, Zenon DEF Copies

LEMMA SlotsSame ==
    ASSUME InSlots, UNCHANGED <<segs, live, contents, shadow, size, old>>,
           xb' \in {"recover", "kick", "surplus"} \/ xb \notin {"recover", "kick", "surplus"}
    PROVE  InSlots'
<1>1. /\ Slots' = Slots /\ Inds' = Inds
      /\ segs' = segs /\ live' = live /\ contents' = contents /\ shadow' = shadow /\ size' = size /\ old' = old
  BY SlotNames, EntryNames, Zenon
<1>2. \A i \in Slots : i < size \/ (xb' \in {"recover", "kick", "surplus"} /\ i < old)
  BY DEF InSlots
<1> QED BY <1>1, <1>2, Zenon DEF InSlots

LEMMA ListSame ==
    ASSUME InList, UNCHANGED <<segs, live, contents, resume_list>>
    PROVE  InList'
<1>1. /\ SlotTables' = SlotTables /\ Kepts' = Kepts
      /\ segs' = segs /\ live' = live /\ contents' = contents
  BY SlotNames, ListNames, Zenon
<1> QED BY <1>1, Zenon DEF InList

(* A message about an entry stays true of it while the entry stays.        *)
LEMMA ServesOn ==
    ASSUME NEW m, Serves(m), shadow'[m.id] = shadow[m.id],
           shadow[m.id].op = "indirect" => segs'.at[m.id] = segs.at[m.id],
           m.id \in SplitIds' <=> m.id \in SplitIds
    PROVE  Serves(m)'
BY Zenon DEF Serves

LEMMA ServedOn ==
    ASSUME NEW id, Served(id), shadow'[id] = shadow[id], written \subseteq written',
           id \in SplitIds' <=> id \in SplitIds
    PROVE  Served(id)'
<1> DEFINE s == shadow[id]
<1>1. /\ s.op = "plain" => <<s.req, s.chunk>> \in written
      /\ s.op = "indirect" => <<s.req, 1>> \in written
      /\ s.op = "indirect" /\ id \notin SplitIds => <<s.req, 2>> \in written
  BY Zenon DEF Served
<1> HIDE DEF s
<1>2. /\ s.op = "plain" => <<s.req, s.chunk>> \in written'
      /\ s.op = "indirect" => <<s.req, 1>> \in written'
      /\ s.op = "indirect" /\ id \notin SplitIds' => <<s.req, 2>> \in written'
  BY <1>1
<1> QED BY <1>2, Zenon DEF Served, s

LEMMA WireSame ==
    ASSUME OnWire, UNCHANGED <<shadow, segs, resume_split>>, written \subseteq written',
           Ringed' \subseteq Ringed, ToSet(answers') \subseteq ToSet(answers)
    PROVE  OnWire'
<1>1. SplitIds' = SplitIds /\ shadow' = shadow /\ segs' = segs
  BY SplitNames, Zenon
<1>2. \A m : Serves(m) => Serves(m)'
  BY <1>1, ServesOn, Zenon
<1>3. \A id : Served(id) => Served(id)'
  BY <1>1, ServedOn, Zenon
<1>4. \A m \in Ringed' : Serves(m)'
  BY <1>2 DEF OnWire
<1>5. \A a \in ToSet(answers') : a.ok => Served(a.id)'
  BY <1>3 DEF OnWire
<1> QED BY <1>4, <1>5, Zenon DEF OnWire

(* The sets that are counted are finite.                                   *)
Counts == /\ Cardinality(BusyIds) \in Nat /\ Cardinality(Inds) \in Nat
          /\ Cardinality(Listed) \in Nat /\ Cardinality(Kepts) \in Nat
          /\ Cardinality(Vacant) \in Nat

LEMMA FiniteSets ==
    ASSUME IsSeq(resume_list), size \in 0 .. MaxRing
    PROVE  /\ IsFiniteSet(BusyIds) /\ IsFiniteSet(Inds) /\ IsFiniteSet(Listed) /\ IsFiniteSet(Kepts)
           /\ IsFiniteSet(Vacant) /\ Counts
<1>1. IsFiniteSet(BusyIds) /\ IsFiniteSet(Inds)
  <2>1. BusyIds \subseteq Ids /\ Inds \subseteq Ids
    BY DEF BusyIds, Inds
  <2> QED BY <2>1, TableNames, FS_Subset
<1>2. IsFiniteSet(Listed)
  BY ToSetSize, Zenon DEF Listed
<1>3. IsFiniteSet(Kepts)
  <2>1. Kepts \subseteq Listed
    BY DEF Kepts
  <2> QED BY <1>2, <2>1, FS_Subset
<1>4. IsFiniteSet(Vacant)
  <2>1. Vacant \subseteq 0 .. size - 1
    BY DEF Vacant
  <2>2. IsFiniteSet(0 .. size - 1)
    BY FS_Interval
  <2> QED BY <2>1, <2>2, FS_Subset
<1> QED BY <1>1, <1>2, <1>3, <1>4, FS_CardinalityType DEF Counts

LEMMA LessTaken ==
    ASSUME NEW p \in Nat, NEW o \in Nat, NEW x \in Nat, NEW y \in Nat, x + y <= p + o,
           NEW g \in Nat, NEW b \in Nat, NEW l \in Nat, NEW i \in Nat, NEW k \in Nat,
           p + o + b + l + 2 * (i + k) <= g
    PROVE  x + y + b + l + 2 * (i + k) <= g
OBVIOUS

LEMMA CountsSame ==
    ASSUME Counts, References, Counted, UNCHANGED <<shadow, resume_list, segs, size>>,
           ToCome' => ToCome, pool' \in Nat, others' \in 0 .. Others, pool' + others' <= pool + others
    PROVE  References' /\ Counted'
<1> DEFINE b == Cardinality(BusyIds) l == Cardinality(Listed)
           i == Cardinality(Inds) k == Cardinality(Kepts)
<1>1. /\ BusyIds' = BusyIds /\ Inds' = Inds /\ Listed' = Listed /\ Kepts' = Kepts
      /\ Vacant' = Vacant /\ segs' = segs
  BY EntryNames, ListNames, Zenon DEF Vacant
<1>2. b \in Nat /\ l \in Nat /\ i \in Nat /\ k \in Nat
  BY Zenon DEF Counts
<1>3. pool \in Nat /\ others \in Nat /\ Grants \in Nat /\ Others \in Nat
      /\ pool + others + b + l + 2 * (i + k) <= Grants
  BY BlkAssumption DEF References
<1> HIDE DEF b, l, i, k
<1>5. pool' + others' + b + l + 2 * (i + k) <= Grants
  <2>1. others' \in Nat
    BY <1>3
  <2>2. PICK x \in Nat, y \in Nat : x = pool' /\ y = others'
    BY <2>1
  <2>3. pool \in Nat /\ others \in Nat /\ x + y <= pool + others
    BY <1>3, <2>2
  <2>4. x + y + b + l + 2 * (i + k) <= Grants
    BY <1>2, <1>3, <2>3, LessTaken
  <2> QED BY <2>2, <2>4
<1>6. References'
  BY <1>1, <1>5, Zenon DEF References, b, l, i, k
<1>7. Counted'
  BY <1>1, Zenon DEF Counted
<1> QED BY <1>6, <1>7

(* No long request is new again, and none that has left the queue comes    *)
(* back to it.                                                             *)
LEMMA ToComeSame ==
    ASSUME ToSet(queue') \subseteq ToSet(queue),
           \A r \in Reqs : result'[r] = "new" => result[r] = "new"
    PROVE  ToCome' => ToCome
BY DEF ToCome

(* The steps that leave the entries, the tables and the lists alone.       *)
LEMMA StillTables ==
    ASSUME WInv, TInv, UNCHANGED <<shadow, resume_list, resume_split, segs, live, contents, size, old>>,
           written' = written, ToSet(answers') \subseteq ToSet(answers), Ringed' \subseteq Ringed,
           xb' \in {"recover", "kick", "surplus"} \/ xb \notin {"recover", "kick", "surplus"},
           ToCome' => ToCome, pool' \in Nat, others' \in 0 .. Others, pool' + others' <= pool + others,
           Values', Keeping'
    PROVE  TInv'
<1>1. /\ Copies /\ InSlots /\ InList /\ OnWire /\ References /\ Counted
  BY DEF TInv
<1>2. Counts
  BY FiniteSets, Zenon DEF WInv, Sequences, Numbers
<1>3. Copies' /\ InSlots' /\ InList' /\ OnWire'
  <2>1. written \subseteq written'
    OBVIOUS
  <2> QED BY <1>1, <2>1, CopiesSame, SlotsSame, ListSame, WireSame, Zenon
<1>4. References' /\ Counted'
  BY <1>1, <1>2, CountsSame, Zenon
<1> QED BY <1>3, <1>4, Zenon DEF TInv
-----------------------------------------------------------------------------
(* The steps that leave the entries, the tables and the lists alone.       *)

LEMMA KeepingSame ==
    ASSUME Keeping, UNCHANGED <<xb, connected, keep, segs, size, maxSegs, backend>>, ToCome' => ToCome
    PROVE  Keeping'
BY DEF Keeping

LEMMA RingedSame ==
    ASSUME UNCHANGED <<batch, sent>> \/ Flush
    PROVE  Ringed' = Ringed
<1>1. CASE UNCHANGED <<batch, sent>>
  BY <1>1, Zenon DEF Ringed
<1>2. CASE Flush
  <2>1. ToSet(batch') = {} /\ sent' = sent \cup ToSet(batch)
    BY <1>2, EmptyIs DEF Flush
  <2> QED BY <2>1 DEF Ringed
<1> QED BY <1>1, <1>2

LEMMA LockTables ==
    ASSUME WInv, TInv, RunQueue \/ Interrupt \/ Work \/ HandleEnds \/ IssueStops \/ IssueEnds \/ ReplayEnds
    PROVE  TInv'
<1>1. /\ UNCHANGED <<shadow, resume_list, resume_split, segs, live, contents, size, old>>
      /\ UNCHANGED <<written, answers, xb, pool, others, queue, result>>
      /\ UNCHANGED <<connected, keep, maxSegs, backend, limit, frames, migrations>>
      /\ lock' \in {"none", "issue", "handle", "replay"}
  BY DEF RunQueue, Interrupt, Work, HandleEnds, IssueStops, IssueEnds, ReplayEnds,
         ring, ids, tabs, rec, mem, conn, env
<1>2. UNCHANGED <<batch, sent>> \/ Flush
  BY DEF RunQueue, Interrupt, Work, HandleEnds, IssueStops, IssueEnds, ReplayEnds, ring
<1>3. Ringed' = Ringed
  BY <1>2, RingedSame, Zenon
<1>4. ToCome' => ToCome
  BY <1>1, Zenon DEF ToCome
<1>5. Values'
  BY <1>1, Zenon DEF TInv, Values
<1>6. Keeping'
  BY <1>1, <1>4, KeepingSame, Zenon DEF TInv
<1>7. pool' \in Nat /\ others' \in 0 .. Others /\ pool' + others' <= pool + others
  BY <1>1 DEF TInv, References
<1>8. /\ ToSet(answers') \subseteq ToSet(answers) /\ Ringed' \subseteq Ringed
      /\ xb' \in {"recover", "kick", "surplus"} \/ xb \notin {"recover", "kick", "surplus"}
  BY <1>1, <1>3, Zenon
<1> QED BY <1>1, <1>4, <1>5, <1>6, <1>7, <1>8, StillTables, Zenon

LEMMA SubmitTables ==
    ASSUME WInv, TInv, NEW r \in Reqs, Submit(r)
    PROVE  TInv'
<1>1. /\ UNCHANGED <<shadow, resume_list, resume_split, segs, live, contents, size, old>>
      /\ UNCHANGED <<written, answers, xb, pool, others, batch, sent, lock>>
      /\ UNCHANGED <<connected, keep, maxSegs, backend, limit, frames, migrations>>
      /\ result[r] = "new" /\ result' = [result EXCEPT ![r] = "pending"]
      /\ queue' = Append(queue, r)
  BY DEF Submit, ring, ids, tabs, rec, mem, conn, env
<1>2. Ringed' = Ringed
  BY <1>1, RingedSame, Zenon
<1>3. ToCome' => ToCome
  <2>1. IsSeq(queue) /\ result \in [Reqs -> {"new", "pending", "ok", "error"}]
    BY Zenon DEF WInv, Sequences, Held
  <2>2. ToSet(queue') = ToSet(queue) \cup {r}
    BY <1>1, <2>1, AppendIs, Zenon DEF WithOne
  <2> QED BY <1>1, <2>1, <2>2 DEF ToCome
<1>4. Values'
  BY <1>1, Zenon DEF TInv, Values
<1>5. Keeping'
  BY <1>1, <1>3, KeepingSame, Zenon DEF TInv
<1>6. pool' \in Nat /\ others' \in 0 .. Others /\ pool' + others' <= pool + others
  BY <1>1 DEF TInv, References
<1>7. /\ ToSet(answers') \subseteq ToSet(answers) /\ Ringed' \subseteq Ringed
      /\ xb' \in {"recover", "kick", "surplus"} \/ xb \notin {"recover", "kick", "surplus"}
  BY <1>1, <1>2, Zenon
<1> QED BY <1>1, <1>3, <1>4, <1>5, <1>6, <1>7, StillTables, Zenon

LEMMA PoolTables ==
    ASSUME WInv, TInv, OtherTakes \/ OtherReleases
    PROVE  TInv'
<1>1. /\ UNCHANGED <<shadow, resume_list, resume_split, segs, live, contents, size, old>>
      /\ UNCHANGED <<written, answers, xb, batch, sent, lock, queue, result>>
      /\ UNCHANGED <<connected, keep, maxSegs, backend, limit, frames, migrations>>
      /\ \/ others < Others /\ pool > 0 /\ others' = others + 1 /\ pool' = pool - 1
         \/ others > 0 /\ others' = others - 1 /\ pool' = pool + 1
  BY DEF OtherTakes, OtherReleases, Freed, io, ring, ids, tabs, rec, mem, conn, env
<1>2. Ringed' = Ringed
  BY <1>1, RingedSame, Zenon
<1>3. ToCome' => ToCome
  BY <1>1, Zenon DEF ToCome
<1>4. Values'
  BY <1>1, Zenon DEF TInv, Values
<1>5. Keeping'
  BY <1>1, <1>3, KeepingSame, Zenon DEF TInv
<1>6. pool' \in Nat /\ others' \in 0 .. Others /\ pool' + others' <= pool + others
  <2>1. pool \in Nat /\ others \in 0 .. Others /\ Others \in Nat
    BY BlkAssumption DEF TInv, References
  <2> QED BY <1>1, <2>1
<1>7. /\ ToSet(answers') \subseteq ToSet(answers) /\ Ringed' \subseteq Ringed
      /\ xb' \in {"recover", "kick", "surplus"} \/ xb \notin {"recover", "kick", "surplus"}
  BY <1>1, <1>2, Zenon
<1> QED BY <1>1, <1>3, <1>4, <1>5, <1>6, <1>7, StillTables, Zenon

(* A migration finds the device connected, and a host that could not serve *)
(* the long requests to come or whose ring is too long is not among those  *)
(* considered.                                                             *)
LEMMA MigrateTables ==
    ASSUME Modest, WInv, TInv, NEW b \in Backends, Migrate(b)
    PROVE  TInv'
<1>1. /\ UNCHANGED <<shadow, resume_list, resume_split, segs, live, contents, size, old>>
      /\ UNCHANGED <<written, answers, batch, sent, lock, queue, result, pool, others>>
      /\ UNCHANGED <<connected, keep, maxSegs, limit, frames>>
      /\ migrations < Migrations /\ migrations' = migrations + 1
      /\ xb \in {"wait", "initialised", "idle"} /\ xb' = "resume"
      /\ Moments(b) \subseteq When /\ backend' = [kind |-> b, state |-> "Gone"]
  BY DEF Migrate, io, ring, ids, tabs, rec, mem
<1>2. Ringed' = Ringed
  BY <1>1, RingedSame, Zenon
<1>3. ToCome' = ToCome
  BY <1>1, Zenon DEF ToCome
<1>4. Moments(b) \subseteq {"connected"}
  BY <1>1 DEF Modest
<1>5. connected = "CONNECTED"
  BY <1>4 DEF Moments
<1>6. ~b.indirect => ~ToCome
  <2>1. ~b.indirect => "oversized" \notin {m \in {"oversized"} :
          ~b.indirect /\ \E r \in Reqs : Chunks[r] > 1 /\
            (result[r] = "new" \/ \E k \in DOMAIN queue : queue[k] = r)}
    BY <1>4 DEF Moments
  <2>2. ~b.indirect => ~(\E r \in Reqs : Chunks[r] > 1 /\
            (result[r] = "new" \/ \E k \in DOMAIN queue : queue[k] = r))
    BY <2>1
  <2> QED BY <2>2 DEF ToCome, Long, ToSet
<1>7. ~b.indirect /\ segs.len > 0 => b.ring <= segs.len
  <2>1. ~(~b.indirect /\ segs.len > 0 /\ b.ring > segs.len)
    BY <1>4 DEF Moments
  <2>2. b.ring \in Nat /\ segs.len \in Nat
    BY BlkAssumption DEF TInv, Values
  <2> QED BY <2>1, <2>2
<1>8. Values'
  <2>1. migrations' \in 0 .. Migrations
    BY <1>1, BlkAssumption DEF TInv, Values
  <2> QED BY <1>1, <2>1, Zenon DEF TInv, Values
<1>9. Keeping'
  BY <1>1, <1>3, <1>5, <1>6, <1>7 DEF TInv, Keeping
<1>10. pool' \in Nat /\ others' \in 0 .. Others /\ pool' + others' <= pool + others
  BY <1>1 DEF TInv, References
<1>11. /\ ToSet(answers') \subseteq ToSet(answers) /\ Ringed' \subseteq Ringed
       /\ xb' \in {"recover", "kick", "surplus"} \/ xb \notin {"recover", "kick", "surplus"}
  BY <1>1, <1>2
<1>12. written' = written /\ (ToCome' => ToCome)
  BY <1>1, <1>3
<1> QED BY <1>1, <1>8, <1>9, <1>10, <1>11, <1>12, StillTables, Zenon

(* The steps of the connection that only change where it is.               *)
LEMMA PhaseTables ==
    ASSUME CInv, WInv, TInv, Probe \/ Connect \/ ConnectKicks \/ Resume \/ RecoverKicks
    PROVE  TInv'
<1>1. /\ UNCHANGED <<shadow, resume_list, resume_split, segs, live, contents, size, old>>
      /\ UNCHANGED <<written, answers, batch, sent, queue, result, pool, others>>
      /\ UNCHANGED <<maxSegs, frames, backend, migrations>>
      /\ limit' \in {limit, maxSegs} /\ lock' \in {lock, "replay"}
      /\ \/ xb = "probe" /\ xb' = "wait" /\ UNCHANGED <<keep, connected>>
         \/ xb = "initialised" /\ xb' = "connecting" /\ UNCHANGED <<keep, connected>>
         \/ xb = "connecting" /\ xb' = "idle" /\ UNCHANGED keep /\ connected' = "CONNECTED"
         \/ /\ xb = "resume" /\ xb' = "flush" /\ keep' = (connected = "CONNECTED")
            /\ connected' = IF keep' THEN "SUSPENDED" ELSE "DISCONNECTED"
         \/ xb = "kick" /\ xb' = "surplus" /\ UNCHANGED keep /\ connected' = "CONNECTED"
  BY DEF Probe, Connect, ConnectKicks, Resume, RecoverKicks, io, ring, ids, tabs, rec, mem, conn, env
<1>2. Ringed' = Ringed
  BY <1>1, RingedSame, Zenon
<1>3. ToCome' = ToCome
  BY <1>1, Zenon DEF ToCome
<1>4. Values'
  <2>1. limit' \in 0 .. MaxChunks /\ lock' \in {"none", "issue", "handle", "replay"}
        /\ keep' \in BOOLEAN
        /\ xb' \in {"probe", "wait", "initialised", "connecting", "idle", "resume", "flush",
                    "recover", "kick", "surplus"}
    BY <1>1 DEF TInv, Values
  <2> QED BY <1>1, <2>1, Zenon DEF TInv, Values
<1>5. Keeping'
  BY <1>1, <1>3 DEF TInv, Keeping
<1>6. pool' \in Nat /\ others' \in 0 .. Others /\ pool' + others' <= pool + others
  BY <1>1 DEF TInv, References
<1>7. /\ ToSet(answers') \subseteq ToSet(answers) /\ Ringed' \subseteq Ringed
      /\ xb' \in {"recover", "kick", "surplus"} \/ xb \notin {"recover", "kick", "surplus"}
  BY <1>1, <1>2
<1>8. written' = written /\ (ToCome' => ToCome)
  BY <1>1, <1>3
<1> QED BY <1>1, <1>4, <1>5, <1>6, <1>7, <1>8, StillTables, Zenon

LEMMA BackendTables ==
    ASSUME WInv, TInv, BackendReady \/ BackendConnects
    PROVE  TInv'
<1>1. /\ UNCHANGED <<shadow, resume_list, resume_split, segs, live, contents, size, old>>
      /\ UNCHANGED <<written, answers, batch, sent, queue, result, pool, others, lock, xb>>
      /\ UNCHANGED <<connected, keep, maxSegs, limit, frames, migrations>>
      /\ \E s : backend' = [backend EXCEPT !.state = s]
  BY DEF BackendReady, BackendConnects, io, ring, ids, tabs, rec, mem, conn
<1>2. Ringed' = Ringed
  BY <1>1, RingedSame, Zenon
<1>3. ToCome' = ToCome
  BY <1>1, Zenon DEF ToCome
<1>4. backend'.kind = backend.kind
  BY <1>1 DEF WInv, Numbers
<1>5. Values'
  BY <1>1, Zenon DEF TInv, Values
<1>6. Keeping'
  BY <1>1, <1>3, <1>4 DEF TInv, Keeping
<1>7. pool' \in Nat /\ others' \in 0 .. Others /\ pool' + others' <= pool + others
  BY <1>1 DEF TInv, References
<1>8. /\ ToSet(answers') \subseteq ToSet(answers) /\ Ringed' \subseteq Ringed
      /\ xb' \in {"recover", "kick", "surplus"} \/ xb \notin {"recover", "kick", "surplus"}
  BY <1>1, <1>2
<1>9. written' = written /\ (ToCome' => ToCome)
  BY <1>1, <1>3
<1> QED BY <1>1, <1>5, <1>6, <1>7, <1>8, <1>9, StillTables, Zenon

(* Without the old backend's answers nothing is lost but the answers: keep *)
(* is set.                                                                 *)
LEMMA TeardownTables ==
    ASSUME CInv, WInv, TInv, Teardown
    PROVE  TInv'
<1>1. keep /\ connected = "SUSPENDED" /\ xb = "flush"
  BY DEF Teardown, TInv, Keeping
<1>2. /\ UNCHANGED <<shadow, resume_list, resume_split, segs, live, contents, size, old>>
      /\ UNCHANGED <<written, queue, result, pool, others, lock, migrations>>
      /\ UNCHANGED <<connected, keep, limit, frames>>
      /\ batch' = <<>> /\ sent' = {} /\ answers' = <<>> /\ maxSegs' = 0
      /\ xb' = "wait" /\ backend' = [backend EXCEPT !.state = "Initialising"]
  BY <1>1 DEF Teardown, io, ids, rec, mem
<1>3. Ringed' = {} /\ ToSet(answers') = {}
  BY <1>2, EmptyIs DEF Ringed
<1>4. ToCome' = ToCome
  BY <1>2, Zenon DEF ToCome
<1>5. backend'.kind = backend.kind
  BY <1>2 DEF WInv, Numbers
<1>6. Values'
  <2>1. maxSegs' \in 0 .. MaxChunks /\ ToSet(answers') \subseteq [id : Ids, ok : BOOLEAN]
    BY <1>2, <1>3, Sizes
  <2>2. xb' \in {"probe", "wait", "initialised", "connecting", "idle", "resume", "flush",
                    "recover", "kick", "surplus"}
    BY <1>2
  <2> QED BY <1>2, <2>1, <2>2, Zenon DEF TInv, Values
<1>7. Keeping'
  BY <1>1, <1>2, <1>4, <1>5 DEF TInv, Keeping
<1>8. pool' \in Nat /\ others' \in 0 .. Others /\ pool' + others' <= pool + others
  BY <1>2 DEF TInv, References
<1>9. /\ ToSet(answers') \subseteq ToSet(answers) /\ Ringed' \subseteq Ringed
      /\ xb' \in {"recover", "kick", "surplus"} \/ xb \notin {"recover", "kick", "surplus"}
  BY <1>1, <1>3
<1>10. written' = written /\ (ToCome' => ToCome)
  BY <1>2, <1>4
<1> QED BY <1>2, <1>6, <1>7, <1>8, <1>9, <1>10, StillTables, Zenon
-----------------------------------------------------------------------------
(* The backend serves a request.                                           *)

(* Parts of the request the entry holds, and all that it still wants.      *)
LEMMA DescribedIs ==
    ASSUME TInv, NEW m \in sent
    PROVE  LET s == shadow[m.id]
           IN  /\ s.req \in Reqs /\ m.id \in BusyIds
               /\ Described(m) \subseteq {s.req} \X (1 .. Chunks[s.req])
               /\ s.op = "plain" => <<s.req, s.chunk>> \in Described(m)
               /\ s.op = "indirect" => <<s.req, 1>> \in Described(m)
               /\ s.op = "indirect" /\ m.id \notin SplitIds => <<s.req, 2>> \in Described(m)
<1> DEFINE s == shadow[m.id]
<1>1. Serves(m)
  BY DEF TInv, OnWire, Ringed
<1>2. /\ m.id \in Ids /\ m.req = s.req
      /\ \/ /\ s.op = "plain" /\ m.table = NoTable /\ m.n = 1 /\ m.chunk = s.chunk
         \/ /\ s.op = "indirect" /\ m.id \in SplitIds
            /\ m.table = NoTable /\ m.n = 1 /\ m.chunk = 1
         \/ /\ s.op = "indirect" /\ m.id \notin SplitIds
            /\ m.table = segs.at[m.id] /\ m.n = 2 /\ m.chunk = 0
  BY <1>1, Zenon DEF Serves
<1>3. Remains(s, written)
  <2>1. s = Empty \/ Remains(s, written)
    BY <1>2, Zenon DEF TInv, Copies
  <2>2. Empty.op = "none"
    BY DEF Empty, Copy
  <2> QED BY <1>2, <2>1, <2>2
<1>4. s.req \in Reqs /\ s.req # NoReq
  BY <1>3, BlkAssumption DEF Remains
<1>5. m.id \in BusyIds
  BY <1>2, <1>4 DEF BusyIds
<1> HIDE DEF s
<1>6. CASE s.op = "plain"
  <2>1. Described(m) = {<<s.req, s.chunk>>}
    BY <1>2, <1>6 DEF Described
  <2>2. s.chunk \in 1 .. Chunks[s.req]
    BY <1>3, <1>6 DEF Remains
  <2> QED BY <1>4, <1>5, <1>6, <2>1, <2>2 DEF s
<1>7. CASE s.op = "indirect" /\ m.id \in SplitIds
  <2>1. Described(m) = {<<s.req, 1>>}
    BY <1>2, <1>7 DEF Described
  <2>2. 1 \in 1 .. Chunks[s.req]
    BY <1>3, <1>7 DEF Remains
  <2> QED BY <1>4, <1>5, <1>7, <2>1, <2>2 DEF s
<1>8. CASE s.op = "indirect" /\ m.id \notin SplitIds
  <2>1. m.id \in Slots /\ contents[segs.at[m.id]] = Whole(s.req)
    <3>1. m.id \in Inds
      BY <1>2, <1>8 DEF Inds, s
    <3> QED BY <3>1, Zenon DEF TInv, InSlots, s
  <2>2. m.table # NoTable /\ m.n = 2 /\ m.table = segs.at[m.id]
    BY <1>2, <1>8, <2>1 DEF Slots
  <2>3. contents[m.table].req = s.req /\ contents[m.table].from = 1
    BY <2>1, <2>2 DEF Whole
  <2>4. Described(m) = {s.req} \X (1 .. 1 + 2 - 1)
    BY <2>2, <2>3, Zenon DEF Described
  <2>5. Chunks[s.req] = 2
    BY <1>3, <1>8 DEF Remains
  <2>6. 1 .. 1 + 2 - 1 = 1 .. Chunks[s.req]
    BY <2>5
  <2>7. 1 \in 1 .. Chunks[s.req] /\ 2 \in 1 .. Chunks[s.req]
    BY <2>5
  <2>8. Described(m) = {s.req} \X (1 .. Chunks[s.req])
    BY <2>4, <2>6, Zenon
  <2> QED BY <1>4, <1>5, <1>8, <2>7, <2>8 DEF s
<1> QED BY <1>2, <1>6, <1>7, <1>8

LEMMA ServeTables ==
    ASSUME WInv, TInv, NEW m \in sent, NEW ok \in BOOLEAN, Answer(m, ok)
    PROVE  TInv'
<1> DEFINE s == shadow[m.id] a == [id |-> m.id, ok |-> ok]
<1>1. /\ UNCHANGED <<shadow, resume_list, resume_split, segs, live, contents, size, old>>
      /\ UNCHANGED <<batch, queue, result, pool, others, lock, xb>>
      /\ UNCHANGED <<connected, keep, maxSegs, limit, frames, backend, migrations>>
      /\ sent' = sent \ {m} /\ answers' = Append(answers, a)
      /\ written' = IF ok THEN written \cup Described(m) ELSE written
  BY DEF Answer, io, ids, tabs, rec, mem, conn, env
<1>2. /\ s.req \in Reqs /\ m.id \in BusyIds
      /\ Described(m) \subseteq {s.req} \X (1 .. Chunks[s.req])
      /\ s.op = "plain" => <<s.req, s.chunk>> \in Described(m)
      /\ s.op = "indirect" => <<s.req, 1>> \in Described(m)
      /\ s.op = "indirect" /\ m.id \notin SplitIds => <<s.req, 2>> \in Described(m)
  BY DescribedIs
<1>3. m.id \in Ids
  BY <1>2 DEF BusyIds
<1> HIDE DEF s
<1>4. written \subseteq written' /\ written' \subseteq Reqs \X (1 .. MaxChunks)
  <2>1. Chunks[s.req] \in 1 .. MaxChunks /\ MaxChunks \in Nat
    BY <1>2, Sizes
  <2>2. 1 .. Chunks[s.req] \subseteq 1 .. MaxChunks
    BY <2>1
  <2>3. Described(m) \subseteq Reqs \X (1 .. MaxChunks)
    BY <1>2, <2>2
  <2> QED BY <1>1, <2>3 DEF TInv, Values
<1>5. ToSet(answers') = ToSet(answers) \cup {a}
  BY <1>1, AppendIs, Zenon DEF WInv, Sequences, WithOne
<1>6. Served(m.id)' \/ ~ok
  <2>1. SplitIds' = SplitIds /\ shadow' = shadow
    BY <1>1, SplitNames, Zenon
  <2>2. ok => Described(m) \subseteq written'
    BY <1>1
  <2>3. /\ ok /\ s.op = "plain" => <<s.req, s.chunk>> \in written'
        /\ ok /\ s.op = "indirect" => <<s.req, 1>> \in written'
        /\ ok /\ s.op = "indirect" /\ m.id \notin SplitIds => <<s.req, 2>> \in written'
    BY <1>2, <2>2
  <2> QED BY <2>1, <2>3, Zenon DEF Served, s
<1>7. OnWire'
  <2>1. SplitIds' = SplitIds /\ shadow' = shadow /\ segs' = segs
    BY <1>1, SplitNames, Zenon
  <2>2. \A x : Serves(x) => Serves(x)'
    BY <2>1, ServesOn, Zenon
  <2>3. \A id : Served(id) => Served(id)'
    BY <1>4, <2>1, ServedOn, Zenon
  <2>4. \A x \in Ringed' : Serves(x)'
    <3>1. Ringed' \subseteq Ringed
      BY <1>1 DEF Ringed
    <3> QED BY <2>2, <3>1 DEF TInv, OnWire
  <2>5. a.id = m.id /\ a.ok = ok
    OBVIOUS
  <2> HIDE DEF a
  <2>6. \A x \in ToSet(answers') : x.ok => Served(x.id)'
    BY <1>5, <1>6, <2>3, <2>5 DEF TInv, OnWire
  <2> QED BY <2>4, <2>6, Zenon DEF OnWire
<1>8. Values'
  <2>1. ToSet(answers') \subseteq [id : Ids, ok : BOOLEAN]
    BY <1>3, <1>5 DEF TInv, Values
  <2> QED BY <1>1, <1>4, <2>1, Zenon DEF TInv, Values
<1>9. ToCome' => ToCome
  BY <1>1, Zenon DEF ToCome
<1>10. Keeping'
  BY <1>1, <1>9, KeepingSame, Zenon DEF TInv
<1>11. Copies' /\ InSlots' /\ InList'
  <2>1. xb' \in {"recover", "kick", "surplus"} \/ xb \notin {"recover", "kick", "surplus"}
    BY <1>1
  <2> QED BY <1>1, <1>4, <2>1, CopiesSame, SlotsSame, ListSame, Zenon DEF TInv
<1>12. References' /\ Counted'
  <2>1. Counts
    BY FiniteSets, Zenon DEF WInv, Sequences, Numbers
  <2>2. pool' \in Nat /\ others' \in 0 .. Others /\ pool' + others' <= pool + others
    BY <1>1 DEF TInv, References
  <2> QED BY <1>1, <1>9, <2>1, <2>2, CountsSame, Zenon DEF TInv
<1> QED BY <1>7, <1>8, <1>10, <1>11, <1>12, Zenon DEF TInv
-----------------------------------------------------------------------------
(* The steps that take a free entry.                                       *)

LEMMA FreeEntry ==
    ASSUME CInv, WInv, TInv, lock # "none", ~RingFull
    PROVE  LET h == Head(idle)
           IN  /\ Ready /\ h \in Ids /\ h \in 0 .. size - 1 /\ h \notin BusyIds
               /\ shadow[h] = Empty /\ h \notin Inds /\ h \notin SplitIds
               /\ \A m \in Ringed : m.id # h
               /\ \A a \in ToSet(answers) : a.id # h
<1> DEFINE h == Head(idle)
<1>1. Ready
  BY DEF CInv, Control, Ready
<1>2. h \in Ids /\ h \in 0 .. size - 1 /\ h \notin BusyIds /\ h \notin OnRing
  BY <1>1, FreeId, Zenon DEF WInv
<1> HIDE DEF h
<1>3. shadow[h] = Empty
  <2>1. shadow[h] = Empty \/ Remains(shadow[h], written)
    BY <1>2, Zenon DEF TInv, Copies
  <2>2. shadow[h].req = NoReq
    BY <1>2 DEF BusyIds
  <2> QED BY <2>1, <2>2, BlkAssumption DEF Remains
<1>4. h \notin Inds
  BY <1>3 DEF Inds, Empty, Copy
<1>5. h \notin SplitIds
  BY <1>2 DEF SplitIds, IdsOf, WInv, Splits
<1>6. \A m \in Ringed : m.id # h
  BY <1>2 DEF OnRing, Ringed, IdsOf, SentIds, ToSet
<1>7. \A a \in ToSet(answers) : a.id # h
  BY <1>2 DEF OnRing, IdsOf, ToSet
<1> QED BY <1>1, <1>2, <1>3, <1>4, <1>5, <1>6, <1>7 DEF h

LEMMA PutTables ==
    ASSUME CInv, WInv, TInv, lock # "none", ~RingFull, NEW m, NEW c, Puts(m, c),
           c = Copy(c.req, c.op, c.n, c.chunk), Remains(c, written), UNCHANGED written,
           \A i \in Inds : segs'.at[i] = segs.at[i],
           SplitIds' = SplitIds \/ SplitIds' = SplitIds \cup {Head(idle)}, Serves(m)'
    PROVE  LET h == Head(idle)
           IN  /\ OnWire'
               /\ \A i \in Ids : shadow'[i] = Empty \/ Remains(shadow'[i], written')
               /\ \A i \in Ids : shadow'[i] = Copy(shadow'[i].req, shadow'[i].op, shadow'[i].n, shadow'[i].chunk)
               /\ shadow'[h] = c /\ \A i \in Ids \ {h} : shadow'[i] = shadow[i]
               /\ Inds' = IF c.op = "indirect" THEN Inds \cup {h} ELSE Inds
               /\ Cardinality(BusyIds') = Cardinality(BusyIds) + 1
               /\ Cardinality(Inds') = IF c.op = "indirect" THEN Cardinality(Inds) + 1 ELSE Cardinality(Inds)
<1> DEFINE h == Head(idle)
<1>1. /\ Ready /\ h \in Ids /\ h \in 0 .. size - 1 /\ h \notin BusyIds
      /\ shadow[h] = Empty /\ h \notin Inds /\ h \notin SplitIds
      /\ \A x \in Ringed : x.id # h
      /\ \A a \in ToSet(answers) : a.id # h
  BY FreeEntry
<1>2. /\ m.id = h /\ c.req # NoReq /\ batch' = Append(batch, m)
      /\ shadow' = [shadow EXCEPT ![h] = c] /\ sent' = sent /\ answers' = answers
  BY Zenon DEF Puts
<1> HIDE DEF h
<1>3. /\ DOMAIN shadow = Ids /\ IsSeq(batch) /\ IsSeq(resume_list) /\ size \in 0 .. MaxRing
  BY Zenon DEF WInv, Numbers, Sequences
<1>4. shadow'[h] = c /\ \A i \in Ids \ {h} : shadow'[i] = shadow[i]
  BY <1>1, <1>2, <1>3
<1>5. /\ \A i \in Ids : shadow'[i] = Empty \/ Remains(shadow'[i], written')
      /\ \A i \in Ids : shadow'[i] = Copy(shadow'[i].req, shadow'[i].op, shadow'[i].n, shadow'[i].chunk)
  <2>1. /\ \A i \in Ids : shadow[i] = Empty \/ Remains(shadow[i], written)
        /\ \A i \in Ids : shadow[i] = Copy(shadow[i].req, shadow[i].op, shadow[i].n, shadow[i].chunk)
    BY Zenon DEF TInv, Copies
  <2>2. \A i \in Ids : i = h \/ i \in Ids \ {h}
    OBVIOUS
  <2> QED BY <1>4, <2>1, <2>2, Zenon
<1>6. BusyIds' = BusyIds \cup {h}
  BY <1>1, <1>2, <1>4 DEF BusyIds
<1>7. Inds' = IF c.op = "indirect" THEN Inds \cup {h} ELSE Inds
  BY <1>1, <1>4 DEF Inds
<1>8. IsFiniteSet(BusyIds) /\ IsFiniteSet(Inds)
  BY <1>3, FiniteSets, Zenon
<1>9. Cardinality(BusyIds') = Cardinality(BusyIds) + 1
  BY <1>1, <1>6, <1>8, FS_AddElement
<1>10. Cardinality(Inds') = IF c.op = "indirect" THEN Cardinality(Inds) + 1 ELSE Cardinality(Inds)
  BY <1>1, <1>7, <1>8, FS_AddElement
<1>11. OnWire'
  <2>1. ToSet(batch') = ToSet(batch) \cup {m}
    BY <1>2, <1>3, AppendIs, Zenon DEF WithOne
  <2>2. \A x \in Ringed' : x = m \/ x \in Ringed
    BY <1>2, <2>1 DEF Ringed
  <2>3. ASSUME NEW x \in Ringed PROVE Serves(x)'
    <3>1. Serves(x) /\ x.id # h /\ x.id \in Ids
      BY <1>1 DEF TInv, OnWire, Serves
    <3>2. shadow'[x.id] = shadow[x.id] /\ (x.id \in SplitIds' <=> x.id \in SplitIds)
      BY <1>4, <3>1 DEF h
    <3>3. shadow[x.id].op = "indirect" => segs'.at[x.id] = segs.at[x.id]
      BY <3>1 DEF Inds
    <3> QED BY <3>1, <3>2, <3>3, ServesOn, Zenon
  <2>4. ASSUME NEW a \in ToSet(answers'), a.ok PROVE Served(a.id)'
    <3>1. Served(a.id) /\ a.id # h /\ a.id \in Ids
      BY <1>1, <1>2, <2>4 DEF TInv, OnWire, Values
    <3>2. shadow'[a.id] = shadow[a.id] /\ (a.id \in SplitIds' <=> a.id \in SplitIds)
      BY <1>4, <3>1 DEF h
    <3>3. written \subseteq written'
      OBVIOUS
    <3> QED BY <3>1, <3>2, <3>3, ServedOn, Zenon
  <2> QED BY <2>2, <2>3, <2>4 DEF OnWire
<1> QED BY <1>4, <1>5, <1>7, <1>9, <1>10, <1>11 DEF h

(* How many references what is kept holds.                                 *)
LEMMA RefsAre == Refs(1) = 1 /\ Refs(2) = 3
BY DEF Refs

LEMMA IssueTables ==
    ASSUME Modest, CInv, WInv, TInv, Issue
    PROVE  TInv'
<1> DEFINE r == Head(queue) n == Chunks[r] h == Head(idle) t == segs.at[h]
<1>1. /\ lock = "issue" /\ queue # <<>> /\ ~RingFull /\ pool >= Refs(maxSegs)
      /\ n <= maxSegs /\ idle' = Tail(idle) /\ pool' = pool - Refs(n) /\ queue' = Tail(queue)
      /\ UNCHANGED <<resume_list, resume_split, size, old, segs, live, written, answers, sent, xb, others, result, lock>>
      /\ UNCHANGED <<connected, keep, maxSegs, limit, frames, backend, migrations>>
      /\ \/ /\ n = 1
            /\ batch' = Append(batch, Plain(h, r, 1))
            /\ shadow' = [shadow EXCEPT ![h] = Copy(r, "plain", 1, 1)]
            /\ UNCHANGED contents
         \/ /\ n # 1
            /\ batch' = Append(batch, Indirect(h, r, n, t))
            /\ shadow' = [shadow EXCEPT ![h] = Copy(r, "indirect", n, 0)]
            /\ contents' = [contents EXCEPT ![t] = Whole(r)]
  BY DEF Issue, CanIssue, conn, env, rec, Whole
<1>2. resume_list = <<>> /\ Listed = {} /\ Kepts = {} /\ resume_split = <<>>
  <2>1. resume_list = <<>> /\ resume_split = <<>>
    BY <1>1 DEF CInv, RecoveredFirst
  <2>2. Listed = {}
    BY <2>1, EmptyIs DEF Listed
  <2> QED BY <2>1, <2>2 DEF Kepts
<1>3. r \in Reqs /\ r \in ToSet(queue) /\ ToSet(queue') \subseteq ToSet(queue)
  <2>1. IsSeq(queue) /\ Once(queue) /\ ToSet(queue) \subseteq Reqs
    BY DEF WInv, Sequences, Held, Pending
  <2>2. LessOne(queue', queue, r)
    BY <1>1, <2>1, TailIs, Zenon
  <2>3. ToSet(queue') = ToSet(queue) \ {r} /\ r \in ToSet(queue)
    BY <2>1, <2>2, Zenon DEF LessOne
  <2> QED BY <2>1, <2>3
<1>4. n = 1 \/ n = 2
  BY <1>3, BlkAssumption DEF Modest
<1>5. /\ h \in Ids /\ h \in 0 .. size - 1 /\ h \notin BusyIds /\ h \notin Inds
      /\ shadow[h] = Empty /\ h \notin SplitIds
  BY <1>1, FreeEntry
<1>6. ToCome' => ToCome
  <2>1. result' = result
    BY <1>1
  <2> QED BY <1>3, <2>1, ToComeSame, Zenon
<1>7. Values' /\ Keeping'
  <2>1. contents' \in [Tables -> [req : Reqs \cup {NoReq}, from : 0 .. MaxChunks]]
    <3>1. contents \in [Tables -> [req : Reqs \cup {NoReq}, from : 0 .. MaxChunks]]
      BY Zenon DEF TInv, Values
    <3>2. Whole(r) \in [req : Reqs \cup {NoReq}, from : 0 .. MaxChunks]
      BY <1>3, Sizes DEF Whole
    <3> QED BY <1>1, <3>1, <3>2
  <2>2. Values'
    BY <1>1, <2>1, Zenon DEF TInv, Values
  <2>3. Keeping'
    BY <1>1, <1>6, KeepingSame, Zenon DEF TInv
  <2> QED BY <2>2, <2>3
<1>8. /\ Counts /\ DOMAIN shadow = Ids /\ segs' = segs /\ live' = live /\ Slots' = Slots
      /\ Listed' = {} /\ Kepts' = {} /\ SplitIds' = SplitIds /\ Splitting' = Splitting
      /\ Vacant' = Vacant /\ Cardinality({}) = 0
  <2>1. Listed' = Listed /\ Kepts' = Kepts /\ SplitIds' = SplitIds /\ Splitting' = Splitting
    BY <1>1, ListNames, SplitNames, Zenon
  <2>2. Counts
    BY FiniteSets, Zenon DEF WInv, Sequences, Numbers
  <2>3. Vacant' = Vacant
    BY <1>1, Zenon DEF Vacant
  <2>4. segs' = segs /\ live' = live /\ Slots' = Slots
    BY <1>1, SlotNames, Zenon
  <2> QED BY <1>2, <2>1, <2>2, <2>3, <2>4, FS_EmptySet DEF WInv, Numbers
<1>9. pool \in Nat /\ maxSegs \in Nat /\ MaxRing \in Nat /\ others' \in 0 .. Others /\ Others \in Nat
      /\ Grants \in Nat
  BY <1>1, BlkAssumption, Sizes DEF TInv, References, CInv, Control
<1>10. CASE n = 1
  <2>1. PICK m, c : m = Plain(h, r, 1) /\ c = Copy(r, "plain", 1, 1)
    OBVIOUS
  <2>2. /\ batch' = Append(batch, m) /\ shadow' = [shadow EXCEPT ![h] = c] /\ contents' = contents
        /\ m.id = h /\ c.req = r /\ c.op = "plain" /\ c.n = 1 /\ c.chunk = 1
        /\ c = Copy(c.req, c.op, c.n, c.chunk)
    <3>1. /\ batch' = Append(batch, m) /\ shadow' = [shadow EXCEPT ![h] = c] /\ contents' = contents
      BY <1>1, <1>10, <2>1
    <3> QED BY <2>1, <3>1 DEF Plain, Copy
  <2>3. Remains(c, written)
    BY <1>3, <1>10, <2>2 DEF Remains
  <2>4. Serves(m)'
    <3>1. shadow'[m.id] = c
      BY <1>5, <1>8, <2>2
    <3>2. /\ m.req = r /\ m.table = NoTable /\ m.n = 1 /\ m.chunk = 1
          /\ m = [id |-> m.id, req |-> m.req, chunk |-> m.chunk, n |-> m.n, table |-> m.table]
      BY <2>1 DEF Plain
    <3>3. m.id \in Ids /\ m.req = c.req
      BY <1>5, <2>2, <3>2, Zenon
    <3> HIDE DEF h, r
    <3> QED BY <2>2, <3>1, <3>2, <3>3, Zenon DEF Serves
  <2>5. Puts(m, c)
    <3>1. c.req # NoReq
      BY <1>3, <2>2, BlkAssumption
    <3>2. UNCHANGED <<sent, answers, size>>
      BY <1>1
    <3> QED BY <1>1, <2>2, <3>1, <3>2, Zenon DEF Puts
  <2>6. /\ OnWire'
        /\ \A i \in Ids : shadow'[i] = Empty \/ Remains(shadow'[i], written')
        /\ \A i \in Ids : shadow'[i] = Copy(shadow'[i].req, shadow'[i].op, shadow'[i].n, shadow'[i].chunk)
        /\ shadow'[h] = c /\ \A i \in Ids \ {h} : shadow'[i] = shadow[i]
        /\ Inds' = IF c.op = "indirect" THEN Inds \cup {h} ELSE Inds
        /\ Cardinality(BusyIds') = Cardinality(BusyIds) + 1
        /\ Cardinality(Inds') = IF c.op = "indirect" THEN Cardinality(Inds) + 1 ELSE Cardinality(Inds)
    <3>1. lock # "none" /\ UNCHANGED written /\ (\A i \in Inds : segs'.at[i] = segs.at[i])
      BY <1>1
    <3> QED BY <1>1, <1>8, <2>2, <2>3, <2>4, <2>5, <3>1, PutTables, Zenon
  <2>7. Copies'
    BY <1>1, <1>2, <1>8, <2>6, Zenon DEF Copies, TInv
  <2>8. Inds' = Inds /\ \A i \in Inds : shadow'[i] = shadow[i]
    BY <1>5, <2>2, <2>6 DEF Inds
  <2>9. InSlots'
    <3>1. UNCHANGED <<size, old, xb>>
      BY <1>1
    <3> QED BY <1>8, <2>2, <2>8, <3>1, Zenon DEF TInv, InSlots
  <2>10. InList'
    BY <1>1, <2>2, ListSame, Zenon DEF TInv
  <2>11. References'
    <3>1. pool >= 1
      BY <1>1, <1>9, <1>10 DEF Refs
    <3>2. pool' = pool - 1
      BY <1>1, <1>10, RefsAre
    <3>3. Cardinality(Inds') = Cardinality(Inds) /\ Cardinality(Listed') = 0 /\ Cardinality(Kepts') = 0
          /\ Cardinality(BusyIds') = Cardinality(BusyIds) + 1 /\ others' = others
      BY <1>1, <1>8, <2>6, <2>8
    <3>4. pool + others + Cardinality(BusyIds) + 0 + 2 * (Cardinality(Inds) + 0) <= Grants
      BY <1>2, <1>8, Zenon DEF TInv, References
    <3> DEFINE b == Cardinality(BusyIds) i == Cardinality(Inds)
    <3>5. b \in Nat /\ i \in Nat
      BY <1>8 DEF Counts
    <3> HIDE DEF b, i
    <3>6. pool - 1 \in Nat /\ pool - 1 + others + (b + 1) + 0 + 2 * (i + 0) <= Grants
      BY <1>1, <1>9, <3>1, <3>4, <3>5 DEF b, i
    <3>7. pool' \in Nat /\ pool' + others' + Cardinality(BusyIds') + Cardinality(Listed')
                 + 2 * (Cardinality(Inds') + Cardinality(Kepts')) <= Grants
      BY <3>2, <3>3, <3>6, Zenon DEF b, i
    <3> QED BY <1>9, <3>7, Zenon DEF References
  <2>12. Counted'
    BY <1>1, <1>2, <1>6, <1>8, <2>8, Zenon DEF TInv, Counted
  <2> QED BY <1>7, <2>6, <2>7, <2>9, <2>10, <2>11, <2>12, Zenon DEF TInv
<1>11. CASE n = 2
  <2>0. Vacant = {} /\ h \in Slots /\ t \in Tables /\ t # NoTable
    <3>1. segs.len > 0 /\ maxSegs >= 2
      <4>1. maxSegs > 1 /\ maxSegs >= 2
        BY <1>1, <1>9, <1>11
      <4> QED BY <4>1 DEF TInv, Keeping
    <3>2. ToCome
      BY <1>3, <1>11 DEF ToCome, Long
    <3>3. Cardinality(Vacant) <= 0
      BY <1>2, <1>8, <3>1, <3>2, Zenon DEF TInv, Counted
    <3>4. IsFiniteSet(Vacant) /\ Cardinality(Vacant) \in Nat
      BY FiniteSets, Zenon DEF WInv, Sequences, Numbers, Counts
    <3>5. Vacant = {}
      <4>1. Cardinality(Vacant) = 0
        BY <3>3, <3>4
      <4> QED BY <3>4, <4>1, FS_EmptySet
    <3>6. t # NoTable
      BY <1>5, <3>5 DEF Vacant
    <3>7. t \in Tables \cup {NoTable}
      BY <1>5 DEF TInv, Values
    <3> QED BY <1>5, <3>5, <3>6, <3>7 DEF Slots
  <2>1. PICK m, c : m = Indirect(h, r, n, t) /\ c = Copy(r, "indirect", n, 0)
    OBVIOUS
  <2>2. /\ batch' = Append(batch, m) /\ shadow' = [shadow EXCEPT ![h] = c]
        /\ contents' = [contents EXCEPT ![t] = Whole(r)]
        /\ m.id = h /\ c.req = r /\ c.op = "indirect" /\ c.n = 2 /\ c.chunk = 0
        /\ c = Copy(c.req, c.op, c.n, c.chunk)
    <3>1. /\ batch' = Append(batch, m) /\ shadow' = [shadow EXCEPT ![h] = c]
          /\ contents' = [contents EXCEPT ![t] = Whole(r)]
      BY <1>1, <1>11, <2>1
    <3> QED BY <1>11, <2>1, <3>1 DEF Indirect, Copy
  <2>3. Remains(c, written)
    BY <1>3, <1>11, <2>2 DEF Remains
  <2>4. Serves(m)'
    <3>1. shadow'[m.id] = c
      BY <1>5, <1>8, <2>2
    <3>2. /\ m.req = r /\ m.table = t /\ m.n = 2 /\ m.chunk = 0
          /\ m = [id |-> m.id, req |-> m.req, chunk |-> m.chunk, n |-> m.n, table |-> m.table]
      BY <1>11, <2>1 DEF Indirect
    <3>3. m.id \in Ids /\ m.req = c.req /\ m.id \notin SplitIds' /\ m.table = segs'.at[m.id]
      BY <1>5, <1>8, <2>2, <3>2, Zenon
    <3> HIDE DEF h, r, t
    <3> QED BY <2>2, <3>1, <3>2, <3>3, Zenon DEF Serves
  <2>5. Puts(m, c)
    <3>1. c.req # NoReq
      BY <1>3, <2>2, BlkAssumption
    <3>2. UNCHANGED <<sent, answers, size>>
      BY <1>1
    <3> QED BY <1>1, <2>2, <3>1, <3>2, Zenon DEF Puts
  <2>6. /\ OnWire'
        /\ \A i \in Ids : shadow'[i] = Empty \/ Remains(shadow'[i], written')
        /\ \A i \in Ids : shadow'[i] = Copy(shadow'[i].req, shadow'[i].op, shadow'[i].n, shadow'[i].chunk)
        /\ shadow'[h] = c /\ \A i \in Ids \ {h} : shadow'[i] = shadow[i]
        /\ Inds' = IF c.op = "indirect" THEN Inds \cup {h} ELSE Inds
        /\ Cardinality(BusyIds') = Cardinality(BusyIds) + 1
        /\ Cardinality(Inds') = IF c.op = "indirect" THEN Cardinality(Inds) + 1 ELSE Cardinality(Inds)
    <3>1. lock # "none" /\ UNCHANGED written /\ (\A i \in Inds : segs'.at[i] = segs.at[i])
      BY <1>1
    <3> QED BY <1>1, <1>8, <2>2, <2>3, <2>4, <2>5, <3>1, PutTables, Zenon
  <2>7. Copies'
    BY <1>1, <1>2, <1>8, <2>6, Zenon DEF Copies, TInv
  <2>8. Inds' = Inds \cup {h} /\ \A i \in Inds : shadow'[i] = shadow[i] /\ i # h
    BY <1>5, <2>2, <2>6 DEF Inds
  <2>9. /\ contents'[t] = Whole(r)
        /\ \A i \in Slots : i # h => contents'[segs.at[i]] = contents[segs.at[i]]
    <3>1. DOMAIN contents = Tables
      BY DEF TInv, Values
    <3>2. \A i \in Slots : i # h => segs.at[i] # t
      BY <2>0 DEF TInv, InSlots
    <3>3. \A i \in Slots : segs.at[i] \in Tables
      BY DEF TInv, Values, Slots
    <3> HIDE DEF t, h, r
    <3> QED BY <2>0, <2>2, <3>1, <3>2, <3>3
  <2>10. InSlots'
    <3>1. UNCHANGED <<size, old, xb>>
      BY <1>1
    <3>2. ASSUME NEW i \in Inds' PROVE i \in Slots' /\ contents'[segs'.at[i]] = Whole(shadow'[i].req)
      <4>1. CASE i = h
        BY <1>8, <2>0, <2>2, <2>6, <2>9, <4>1
      <4>2. CASE i \in Inds
        <5>1. i \in Slots /\ contents[segs.at[i]] = Whole(shadow[i].req)
          BY <4>2, Zenon DEF TInv, InSlots
        <5> QED BY <1>8, <2>8, <2>9, <4>2, <5>1
      <4> QED BY <2>8, <4>1, <4>2
    <3> QED BY <1>8, <3>1, <3>2, Zenon DEF TInv, InSlots
  <2>11. InList'
    <3>1. SlotTables' = SlotTables
      BY <1>1, SlotNames, Zenon
    <3> QED BY <1>2, <1>8, <3>1, Zenon DEF TInv, InList
  <2>12. Cardinality(Inds') = Cardinality(Inds) + 1 /\ Cardinality(Listed') = 0 /\ Cardinality(Kepts') = 0
         /\ Cardinality(BusyIds') = Cardinality(BusyIds) + 1 /\ others' = others
    BY <1>1, <1>8, <2>2, <2>6
  <2>13. References'
    <3>1. pool >= 3
      <4>1. maxSegs >= 2
        BY <1>1, <1>11
      <4> QED BY <1>1, <1>9, <4>1 DEF Refs
    <3>2. pool' = pool - 3
      BY <1>1, <1>11, RefsAre
    <3>3. pool + others + Cardinality(BusyIds) + 0 + 2 * (Cardinality(Inds) + 0) <= Grants
      BY <1>2, <1>8, Zenon DEF TInv, References
    <3> DEFINE b == Cardinality(BusyIds) i == Cardinality(Inds)
    <3>4. b \in Nat /\ i \in Nat
      BY <1>8 DEF Counts
    <3> HIDE DEF b, i
    <3>5. pool - 3 \in Nat /\ pool - 3 + others + (b + 1) + 0 + 2 * (i + 1 + 0) <= Grants
      BY <1>1, <1>9, <3>1, <3>3, <3>4 DEF b, i
    <3>6. pool' \in Nat /\ pool' + others' + Cardinality(BusyIds') + Cardinality(Listed')
                 + 2 * (Cardinality(Inds') + Cardinality(Kepts')) <= Grants
      BY <2>12, <3>2, <3>5, Zenon DEF b, i
    <3> QED BY <1>9, <3>6, Zenon DEF References
  <2>14. Counted'
    <3>1. Inds' \subseteq Ids
      BY DEF Inds
    <3>2. Cardinality(Inds') <= MaxRing /\ Cardinality(Inds') \in Nat
      BY <3>1, TableNames, FS_Subset, FS_CardinalityType
    <3>3. Cardinality(Inds') + Cardinality(Kepts') <= MaxRing
      BY <1>9, <2>12, <3>2
    <3>4. Cardinality(Vacant') <= Cardinality(Kepts')
      BY <1>8, <2>0
    <3> QED BY <1>8, <3>3, <3>4, Zenon DEF Counted
  <2> QED BY <1>7, <2>6, <2>7, <2>10, <2>11, <2>13, <2>14, Zenon DEF TInv
<1> QED BY <1>4, <1>10, <1>11
-----------------------------------------------------------------------------
(* The steps that send again what resume_list has.                         *)

(* The first entry of resume_list is taken from it.                        *)
LEMMA ListTaken ==
    ASSUME WInv, TInv, resume_list # <<>>, resume_list' = Tail(resume_list)
    PROVE  LET e == Head(resume_list)
           IN  /\ e \in Listed /\ Remains(e, written) /\ Shaped(e) /\ e.id \in Ids
               /\ Listed' = Listed \ {e}
               /\ Kepts' = Kepts \ {e}
               /\ Cardinality(Listed') = Cardinality(Listed) - 1
               /\ e \in Kepts => Cardinality(Kepts') = Cardinality(Kepts) - 1
               /\ e \notin Kepts => Kepts' = Kepts
<1> DEFINE e == Head(resume_list)
<1>1. IsSeq(resume_list) /\ OnceReq(resume_list) /\ \A k \in DOMAIN resume_list : Shaped(resume_list[k])
  BY Zenon DEF WInv, Sequences, Held
<1>2. Once(resume_list)
  BY <1>1 DEF Once, OnceReq
<1>3. LessOne(resume_list', resume_list, e)
  BY <1>1, TailIs, Zenon
<1>4. Listed' = Listed \ {e} /\ e \in Listed
  BY <1>2, <1>3, Zenon DEF LessOne, Listed
<1>5. Shaped(e)
  BY <1>1, NonEmptyIs, Zenon
<1> HIDE DEF e
<1>6. Kepts' = Kepts \ {e}
  BY <1>4 DEF Kepts
<1>7. Remains(e, written) /\ e.id \in Ids
  BY <1>4, Zenon DEF TInv, Copies
<1>8. IsFiniteSet(Listed) /\ IsFiniteSet(Kepts)
  BY <1>1, FiniteSets, Zenon DEF WInv, Numbers
<1>9. Cardinality(Listed') = Cardinality(Listed) - 1
  BY <1>4, <1>8, FS_RemoveElement
<1>10. e \in Kepts => Cardinality(Kepts') = Cardinality(Kepts) - 1
  BY <1>6, <1>8, FS_RemoveElement
<1>11. e \notin Kepts => Kepts' = Kepts
  BY <1>6
<1> QED BY <1>4, <1>5, <1>6, <1>7, <1>9, <1>10, <1>11 DEF e

(* An entry that moves from resume_list to the shadow takes no references. *)
LEMMA MovedRefs ==
    ASSUME NEW p \in Nat, NEW o \in Nat, NEW g \in Nat,
           NEW b \in Nat, NEW l \in Nat, NEW i \in Nat, NEW k \in Nat,
           p + o + b + l + 2 * (i + k) <= g
    PROVE  /\ p + o + (b + 1) + (l - 1) + 2 * (i + k) <= g
           /\ p + o + (b + 1) + (l - 1) + 2 * ((i + 1) + (k - 1)) <= g
OBVIOUS

LEMMA PlainTables ==
    ASSUME CInv, WInv, TInv, ReplayPlain
    PROVE  TInv'
<1> DEFINE e == Head(resume_list) h == Head(idle)
<1>1. /\ lock = "replay" /\ resume_list # <<>> /\ ~RingFull /\ e.op = "plain"
      /\ idle' = Tail(idle) /\ resume_list' = Tail(resume_list)
      /\ batch' = Append(batch, Plain(h, e.req, e.chunk))
      /\ shadow' = [shadow EXCEPT ![h] = Copy(e.req, e.op, e.n, e.chunk)]
      /\ UNCHANGED <<queue, result, lock, written, sent, answers, segs, live, contents, resume_split>>
      /\ UNCHANGED <<pool, others, xb, connected, keep, limit, size, old, maxSegs, frames, backend, migrations>>
  BY DEF ReplayPlain, io, tabs, mem, conn, env
<1>2. /\ e \in Listed /\ Remains(e, written) /\ e.id \in Ids
      /\ Listed' = Listed \ {e} /\ Kepts' = Kepts /\ Cardinality(Listed') = Cardinality(Listed) - 1
  <2>1. e \notin Kepts
    BY <1>1 DEF Kepts
  <2> QED BY <1>1, <2>1, ListTaken, Zenon
<1>3. /\ h \in Ids /\ h \in 0 .. size - 1 /\ h \notin BusyIds /\ h \notin Inds
      /\ shadow[h] = Empty /\ h \notin SplitIds
  BY <1>1, FreeEntry
<1>4. e.n = 1 /\ e.req \in Reqs
  BY <1>1, <1>2 DEF Remains
<1> HIDE DEF e, h
<1>5. PICK m, c : m = Plain(h, e.req, e.chunk) /\ c = Copy(e.req, e.op, e.n, e.chunk)
  OBVIOUS
<1>6. /\ batch' = Append(batch, m) /\ shadow' = [shadow EXCEPT ![h] = c]
      /\ m.id = h /\ c.req = e.req /\ c.op = "plain" /\ c.n = 1 /\ c.chunk = e.chunk
      /\ c = Copy(c.req, c.op, c.n, c.chunk)
  <2>1. batch' = Append(batch, m) /\ shadow' = [shadow EXCEPT ![h] = c]
    BY <1>1, <1>5
  <2> QED BY <1>1, <1>4, <1>5, <2>1 DEF Plain, Copy
<1>7. Remains(c, written)
  <2>1. c.req = e.req /\ c.op = e.op /\ c.n = e.n /\ c.chunk = e.chunk
    BY <1>1, <1>4, <1>6
  <2> QED BY <1>2, <2>1, Zenon DEF Remains
<1>8. DOMAIN shadow = Ids /\ SplitIds' = SplitIds /\ Splitting' = Splitting /\ segs' = segs
  BY <1>1, SplitNames, Zenon DEF WInv, Numbers
<1>9. Serves(m)'
  <2>1. shadow'[m.id] = c
    BY <1>3, <1>6, <1>8
  <2>2. /\ m.req = e.req /\ m.table = NoTable /\ m.n = 1 /\ m.chunk = e.chunk
        /\ m = [id |-> m.id, req |-> m.req, chunk |-> m.chunk, n |-> m.n, table |-> m.table]
    BY <1>5 DEF Plain
  <2>3. m.id \in Ids /\ m.req = c.req /\ m.chunk = c.chunk
    BY <1>3, <1>6, <2>2, Zenon
  <2> QED BY <1>6, <2>1, <2>2, <2>3, Zenon DEF Serves
<1>10. Puts(m, c)
  <2>1. c.req # NoReq
    BY <1>4, <1>6, BlkAssumption
  <2>2. UNCHANGED <<sent, answers, size>>
    BY <1>1
  <2> QED BY <1>1, <1>6, <2>1, <2>2, Zenon DEF Puts, h
<1>11. /\ OnWire'
       /\ \A i \in Ids : shadow'[i] = Empty \/ Remains(shadow'[i], written')
       /\ \A i \in Ids : shadow'[i] = Copy(shadow'[i].req, shadow'[i].op, shadow'[i].n, shadow'[i].chunk)
       /\ shadow'[h] = c /\ \A i \in Ids \ {h} : shadow'[i] = shadow[i]
       /\ Inds' = IF c.op = "indirect" THEN Inds \cup {h} ELSE Inds
       /\ Cardinality(BusyIds') = Cardinality(BusyIds) + 1
       /\ Cardinality(Inds') = IF c.op = "indirect" THEN Cardinality(Inds) + 1 ELSE Cardinality(Inds)
  <2>1. lock # "none" /\ UNCHANGED written /\ (\A i \in Inds : segs'.at[i] = segs.at[i])
    BY <1>1
  <2> QED BY <1>1, <1>6, <1>7, <1>8, <1>9, <1>10, <2>1, PutTables, Zenon DEF h
<1>12. Inds' = Inds /\ \A i \in Inds : shadow'[i] = shadow[i]
  <2>1. Inds \subseteq Ids \ {h}
    BY <1>3 DEF Inds
  <2>2. c.op # "indirect"
    BY <1>6
  <2> QED BY <1>11, <2>1, <2>2
<1>13. ToCome' = ToCome /\ Vacant' = Vacant
  BY <1>1, Zenon DEF ToCome, Vacant
<1>14. Values' /\ Keeping'
  BY <1>1, <1>13, KeepingSame, Zenon DEF TInv, Values
<1>15. Copies'
  <2>1. Listed' \subseteq Listed /\ written' = written
    BY <1>1, <1>2
  <2>2. /\ \A x \in Listed' : Remains(x, written') /\ x.id \in Ids /\ x.table \in Tables \cup {NoTable}
        /\ \A x \in Splitting' :
               Remains(x, written') /\ x.id \in Ids /\ x.table \in Tables /\ x.op = "indirect"
    BY <1>8, <2>1 DEF TInv, Copies
  <2> QED BY <1>11, <2>2, Zenon DEF Copies
<1>16. InSlots'
  <2>1. UNCHANGED <<size, old, xb, segs, live, contents>> /\ Slots' = Slots
    BY <1>1, SlotNames, Zenon
  <2> QED BY <1>12, <2>1, Zenon DEF TInv, InSlots
<1>17. InList'
  <2>1. UNCHANGED <<segs, live, contents>> /\ SlotTables' = SlotTables
    BY <1>1, SlotNames, Zenon
  <2> QED BY <1>2, <2>1, Zenon DEF TInv, InList
<1>18. References' /\ Counted'
  <2> DEFINE b == Cardinality(BusyIds) l == Cardinality(Listed)
             i == Cardinality(Inds) k == Cardinality(Kepts)
  <2>1. b \in Nat /\ l \in Nat /\ i \in Nat /\ k \in Nat
    BY FiniteSets, Zenon DEF WInv, Sequences, Numbers, Counts
  <2>2. pool \in Nat /\ others \in Nat /\ Grants \in Nat /\ pool + others + b + l + 2 * (i + k) <= Grants
        /\ others \in 0 .. Others
    BY BlkAssumption DEF TInv, References
  <2>3. /\ Cardinality(BusyIds') = b + 1 /\ Cardinality(Listed') = l - 1
        /\ Cardinality(Inds') = i /\ Cardinality(Kepts') = k
        /\ pool' = pool /\ others' = others
    BY <1>1, <1>2, <1>11, <1>12
  <2> HIDE DEF b, l, i, k
  <2>4. pool + others + (b + 1) + (l - 1) + 2 * (i + k) <= Grants
    BY <2>1, <2>2, MovedRefs
  <2>5. References'
    BY <2>2, <2>3, <2>4, Zenon DEF References
  <2>6. Counted'
    BY <1>1, <1>2, <1>8, <1>12, <1>13, Zenon DEF TInv, Counted
  <2> QED BY <2>5, <2>6
<1> QED BY <1>11, <1>14, <1>15, <1>16, <1>17, <1>18, Zenon DEF TInv

(* The slot h, whose entry has no table on the ring, gets the table t; the *)
(* one it had goes to the slot x, or nowhere.                              *)
LEMMA SlotTaken ==
    ASSUME Values, InSlots, InList, size \in 0 .. MaxRing, size <= segs.len,
           NEW h \in Ids, h \in 0 .. size - 1, h \notin Inds,
           NEW t \in live, t \notin SlotTables, TakeSlot(h, t), UNCHANGED size
    PROVE  /\ segs' \in [len : 0 .. MaxRing, at : [Ids -> Tables \cup {NoTable}]]
           /\ segs'.len = segs.len /\ segs'.at[h] = t /\ h \in Slots'
           /\ \A i \in Inds : segs'.at[i] = segs.at[i]
           /\ \A i, j \in Slots' : i # j => segs'.at[i] # segs'.at[j]
           /\ \A i \in Slots' : segs'.at[i] \in live' /\ i < segs.len /\ (i < size \/ i \in Slots)
           /\ SlotTables' \subseteq SlotTables \cup {t}
           /\ live' \subseteq live /\ t \in live' /\ live \ SlotTables \subseteq live'
           /\ live' \cap SlotTables \subseteq SlotTables'
           /\ \A u \in live' : contents'[u] = contents[u]
           /\ contents' \in [Tables -> [req : Reqs \cup {NoReq}, from : 0 .. MaxChunks]]
           /\ Cardinality(Vacant') \in Nat
           /\ Cardinality(Vacant') = 0 \/ Cardinality(Vacant') = Cardinality(Vacant) - 1
<1> DEFINE at == segs.at spare == at[h]
<1>1. /\ segs \in [len : 0 .. MaxRing, at : [Ids -> Tables \cup {NoTable}]]
      /\ at \in [Ids -> Tables \cup {NoTable}] /\ live \subseteq Tables
      /\ contents \in [Tables -> [req : Reqs \cup {NoReq}, from : 0 .. MaxChunks]]
      /\ t # NoTable /\ t \in Tables
  BY TableNames DEF Values
<1>2. IsFiniteSet(Vacant) /\ Vacant \subseteq Nat
  <2>1. Vacant \subseteq 0 .. size - 1
    BY DEF Vacant
  <2>2. IsFiniteSet(0 .. size - 1) /\ 0 .. size - 1 \subseteq Nat
    BY FS_Interval
  <2> QED BY <2>1, <2>2, FS_Subset
<1>3. \A i \in Ids : i \in Vacant <=> i < size /\ at[i] = NoTable
  <2>1. \A i \in Ids : i \in Nat
    BY IdsAre
  <2> QED BY <2>1 DEF Vacant
<1>4. Vacant \subseteq Ids
  <2>1. 0 .. size - 1 \subseteq Ids
    BY Sizes, IdsAre
  <2> QED BY <2>1 DEF Vacant
<1>5. PICK x \in Ids : /\ segs' = [segs EXCEPT !.at = [[at EXCEPT ![x] = spare] EXCEPT ![h] = t]]
                       /\ \/ x \in Vacant /\ UNCHANGED <<live, contents>>
                          \/ x = h /\ Vacant = {} /\ Vfree({spare})
  <2>1. CASE Vacant = {}
    <3>1. segs' = [segs EXCEPT !.at = [at EXCEPT ![h] = t]] /\ Vfree({spare})
      BY <2>1, Zenon DEF TakeSlot
    <3>2. at = [at EXCEPT ![h] = spare]
      BY <1>1
    <3> QED BY <2>1, <3>1, <3>2, Zenon
  <2>2. CASE Vacant # {} /\ spare = NoTable
    <3>1. segs' = [segs EXCEPT !.at = [at EXCEPT ![h] = t]] /\ UNCHANGED <<live, contents>>
      BY <2>2, Zenon DEF TakeSlot
    <3>2. at = [at EXCEPT ![h] = spare]
      BY <1>1
    <3>3. h \in Vacant
      BY <1>3, <2>2
    <3> QED BY <3>1, <3>2, <3>3, Zenon
  <2>3. CASE Vacant # {} /\ spare # NoTable
    <3>1. segs' = [segs EXCEPT !.at = [[at EXCEPT ![Top(Vacant)] = spare] EXCEPT ![h] = t]] /\ UNCHANGED <<live, contents>>
      BY <2>3, Zenon DEF TakeSlot
    <3>2. Top(Vacant) \in Vacant
      BY <1>2, <2>3, TopIs
    <3> QED BY <1>4, <3>1, <3>2, Zenon
  <2> QED BY <2>1, <2>2, <2>3
<1> DEFINE b == [[at EXCEPT ![x] = spare] EXCEPT ![h] = t]
<1>6. /\ b \in [Ids -> Tables \cup {NoTable}] /\ b[h] = t
      /\ \A i \in Ids \ {h} : b[i] = IF i = x THEN spare ELSE at[i]
  <2>1. spare \in Tables \cup {NoTable}
    BY <1>1
  <2> HIDE DEF spare, at
  <2> QED BY <1>1, <2>1
<1>7. segs' = [segs EXCEPT !.at = b]
  BY <1>5, Zenon
<1> HIDE DEF b
<1>8. /\ segs' \in [len : 0 .. MaxRing, at : [Ids -> Tables \cup {NoTable}]]
      /\ segs'.len = segs.len /\ segs'.at = b
  BY <1>1, <1>6, <1>7
<1>9. x = h \/ x \notin Slots
  <2>1. x \in Vacant => at[x] = NoTable
    BY DEF Vacant
  <2> QED BY <1>5, <2>1 DEF Slots
<1>10. \A i \in Slots' : \/ i = h
                         \/ i = x /\ i # h /\ h \in Slots /\ b[i] = spare /\ x \in Vacant
                         \/ i # h /\ i # x /\ i \in Slots /\ b[i] = at[i]
  <2> SUFFICES ASSUME NEW i \in Ids, b[i] # NoTable
               PROVE  \/ i = h
                      \/ i = x /\ i # h /\ h \in Slots /\ b[i] = spare /\ x \in Vacant
                      \/ i # h /\ i # x /\ i \in Slots /\ b[i] = at[i]
    BY <1>8 DEF Slots
  <2>1. CASE i = x /\ i # h
    BY <1>5, <1>6, <2>1 DEF Slots
  <2>2. CASE i # x /\ i # h
    BY <1>6, <2>2 DEF Slots
  <2> QED BY <2>1, <2>2
<1>11. h \in Slots'
  BY <1>1, <1>6, <1>8 DEF Slots
<1>12. \A i \in Slots : i # h => i \in Slots' /\ b[i] = at[i]
  BY <1>6, <1>8, <1>9 DEF Slots
<1>13. /\ \A i, j \in Slots : i # j => at[i] # at[j]
       /\ \A i \in Slots : at[i] \in live /\ i < segs.len
       /\ Inds \subseteq Slots
  BY DEF InSlots
<1>14. \A i \in Slots : at[i] # t
  BY DEF SlotTables
<1>15. \A i \in Inds : segs'.at[i] = segs.at[i]
  BY <1>8, <1>12, <1>13
<1>16. \A i, j \in Slots' : i # j => segs'.at[i] # segs'.at[j]
  BY <1>6, <1>8, <1>10, <1>13, <1>14
<1>17. /\ live' \subseteq live /\ live \ {spare} \subseteq live' /\ (x \in Vacant => live' = live)
       /\ \A u \in live' : contents'[u] = contents[u]
       /\ contents' \in [Tables -> [req : Reqs \cup {NoReq}, from : 0 .. MaxChunks]]
       /\ x \notin Vacant => live' = live \ {spare}
  <2>1. CASE x \in Vacant /\ UNCHANGED <<live, contents>>
    BY <1>1, <2>1
  <2>2. CASE Vacant = {} /\ Vfree({spare})
    <3>1. live' = live \ {spare}
      BY <2>2 DEF Vfree
    <3>2. contents' = [u \in Tables |-> IF u \in live' THEN contents[u] ELSE [req |-> NoReq, from |-> 0]]
      BY <2>2, Zenon DEF Vfree
    <3>3. MaxChunks \in Nat
      BY Sizes
    <3> HIDE DEF spare, at
    <3> QED BY <1>1, <2>2, <3>1, <3>2, <3>3
  <2> QED BY <1>5, <2>1, <2>2
<1>18. t \in live' /\ \A i \in Slots' : segs'.at[i] \in live'
  <2>1. t # spare
    BY <1>1, <1>14 DEF Slots
  <2>2. t \in live'
    BY <1>17, <2>1
  <2>3. \A i \in Slots : i # h => at[i] \in live'
    <3> SUFFICES ASSUME NEW i \in Slots, i # h PROVE at[i] \in live'
      OBVIOUS
    <3>1. at[i] # spare
      BY <1>13 DEF Slots
    <3> QED BY <1>13, <1>17, <3>1
  <2>4. x \in Vacant /\ h \in Slots => spare \in live'
    BY <1>13, <1>17
  <2> HIDE DEF spare, at
  <2> QED BY <1>6, <1>8, <1>10, <2>2, <2>3, <2>4
<1>19. \A i \in Slots' : i < segs.len /\ (i < size \/ i \in Slots)
  <2>1. h < segs.len /\ h < size /\ segs.len \in Nat
    BY <1>1
  <2>2. \A i \in Vacant : i < segs.len /\ i < size
    BY <1>1 DEF Vacant
  <2> HIDE DEF spare, at
  <2> QED BY <1>10, <1>13, <2>1, <2>2
<1>20. SlotTables' \subseteq SlotTables \cup {t}
  <2>1. \A i \in Slots' : b[i] = t \/ \E j \in Slots : b[i] = at[j]
    BY <1>6, <1>10
  <2> QED BY <1>8, <2>1 DEF SlotTables
<1>21. live' \cap SlotTables \subseteq SlotTables'
  <2> SUFFICES ASSUME NEW i \in Slots, at[i] \in live' PROVE \E j \in Slots' : b[j] = at[i]
    BY <1>8 DEF SlotTables
  <2>1. CASE i # h
    BY <1>12, <2>1
  <2>2. CASE i = h
    <3>1. x \in Vacant
      BY <1>17, <2>2
    <3>2. x # h
      BY <1>3, <2>2, <3>1 DEF Slots
    <3>3. b[x] = spare /\ spare # NoTable
      BY <1>6, <2>2, <3>2 DEF Slots
    <3>4. x \in Slots'
      BY <1>8, <3>3 DEF Slots
    <3> QED BY <2>2, <3>3, <3>4
  <2> QED BY <2>1, <2>2
<1>22. live \ SlotTables \subseteq live'
  <2>1. spare = NoTable \/ spare \in SlotTables
    BY DEF SlotTables, Slots
  <2>2. NoTable \notin live
    BY <1>1, TableNames
  <2> HIDE DEF spare, at
  <2> QED BY <1>17, <2>1, <2>2
<1>23. \A i \in Ids : i \in Vacant' <=> i \in Vacant /\ i # h /\ (i # x \/ spare = NoTable)
  <2>1. \A i \in Ids : i \in Vacant' <=> i < size /\ b[i] = NoTable
    <3>1. \A i \in Ids : i \in Nat
      BY IdsAre
    <3>2. Vacant' = {i \in 0 .. size - 1 : b[i] = NoTable}
      BY <1>8 DEF Vacant
    <3> QED BY <3>1, <3>2
  <2>2. x \in Vacant \/ x = h
    BY <1>5
  <2> HIDE DEF spare, at
  <2> QED BY <1>1, <1>3, <1>6, <2>1, <2>2
<1>24. Vacant' \subseteq Ids
  <2>1. 0 .. size - 1 \subseteq Ids
    BY Sizes, IdsAre
  <2> QED BY <2>1 DEF Vacant
<1>25. /\ Cardinality(Vacant') \in Nat
       /\ Cardinality(Vacant') = 0 \/ Cardinality(Vacant') = Cardinality(Vacant) - 1
  <2>1. h \in Vacant <=> spare = NoTable
    BY <1>3
  <2>2. CASE Vacant = {}
    <3>1. Vacant' = {}
      BY <1>23, <1>24, <2>2
    <3> QED BY <3>1, FS_EmptySet
  <2>3. CASE spare = NoTable
    <3>1. Vacant' = Vacant \ {h} /\ h \in Vacant
      BY <1>4, <1>23, <1>24, <2>1, <2>3
    <3>2. Cardinality(Vacant') = Cardinality(Vacant) - 1 /\ IsFiniteSet(Vacant')
      BY <1>2, <3>1, FS_RemoveElement
    <3> QED BY <3>2, FS_CardinalityType
  <2>4. CASE Vacant # {} /\ spare # NoTable
    <3>1. x \in Vacant /\ h \notin Vacant
      BY <1>5, <2>1, <2>4
    <3>2. Vacant' = Vacant \ {x}
      BY <1>4, <1>23, <1>24, <2>4, <3>1
    <3>3. Cardinality(Vacant') = Cardinality(Vacant) - 1 /\ IsFiniteSet(Vacant')
      BY <1>2, <3>1, <3>2, FS_RemoveElement
    <3> QED BY <3>3, FS_CardinalityType
  <2> QED BY <2>2, <2>3, <2>4
<1> QED BY <1>6, <1>8, <1>11, <1>15, <1>16, <1>17, <1>18, <1>19, <1>20, <1>21, <1>22, <1>25, Zenon

LEMMA IndirectTables ==
    ASSUME CInv, WInv, TInv, ReplayIndirect
    PROVE  TInv'
<1> DEFINE e == Head(resume_list) h == Head(idle) t == e.table f == contents'[t].from
<1>1. /\ lock = "replay" /\ resume_list # <<>> /\ ~RingFull /\ e.op = "indirect"
      /\ idle' = Tail(idle) /\ resume_list' = Tail(resume_list) /\ TakeSlot(h, t)
      /\ shadow' = [shadow EXCEPT ![h] = Copy(e.req, e.op, e.n, 0)]
      /\ UNCHANGED <<queue, result, lock, written, sent, answers>>
      /\ UNCHANGED <<pool, others, xb, connected, keep, limit, size, old, maxSegs, frames, backend, migrations>>
      /\ \/ /\ batch' = Append(batch, Plain(h, e.req, f))
            /\ resume_split' = Append(resume_split, [e EXCEPT !.id = h])
         \/ /\ batch' = Append(batch, Indirect(h, e.req, e.n, t))
            /\ UNCHANGED resume_split
  <2>1. /\ lock = "replay" /\ resume_list # <<>> /\ ~RingFull /\ e.op = "indirect"
        /\ idle' = Tail(idle) /\ resume_list' = Tail(resume_list) /\ TakeSlot(h, t)
        /\ shadow' = [shadow EXCEPT ![h] = Copy(e.req, e.op, e.n, 0)]
        /\ \/ /\ batch' = Append(batch, Plain(h, e.req, f))
              /\ resume_split' = Append(resume_split, [e EXCEPT !.id = h])
           \/ /\ batch' = Append(batch, Indirect(h, e.req, e.n, t))
              /\ UNCHANGED resume_split
    BY Zenon DEF ReplayIndirect
  <2>2. /\ UNCHANGED <<queue, result, lock, written, sent, answers>>
        /\ UNCHANGED <<pool, others, xb, connected, keep, limit, size, old, maxSegs, frames, backend, migrations>>
    BY DEF ReplayIndirect, io, mem, conn, env
  <2> QED BY <2>1, <2>2
<1>2. /\ e \in Listed /\ e \in Kepts /\ Remains(e, written) /\ e.id \in Ids /\ Shaped(e)
      /\ Listed' = Listed \ {e} /\ Kepts' = Kepts \ {e}
      /\ Cardinality(Listed') = Cardinality(Listed) - 1
      /\ Cardinality(Kepts') = Cardinality(Kepts) - 1
  <2>1. e \in Listed => e \in Kepts
    BY <1>1 DEF Kepts
  <2> QED BY <1>1, <2>1, ListTaken, Zenon
<1>3. /\ h \in Ids /\ h \in 0 .. size - 1 /\ h \notin BusyIds /\ h \notin Inds
      /\ shadow[h] = Empty /\ h \notin SplitIds
  BY <1>1, FreeEntry
<1> HIDE DEF e, h, t
<1>4. e.n = 2 /\ e.req \in Reqs /\ Chunks[e.req] = 2
  BY <1>1, <1>2 DEF Remains
<1>5. /\ t \in live /\ t \notin SlotTables /\ contents[t] = Whole(e.req)
      /\ \A x \in Kepts : x.table = t => x = e
  <2>1. /\ t \in live /\ contents[t] = Whole(e.req) /\ \A x \in Kepts : x.table = t => x = e
    BY <1>2, Zenon DEF TInv, InList, t
  <2>2. t \in TablesOf(Kepts)
    BY <1>2 DEF TablesOf, t
  <2>3. SlotTables \cap TablesOf(Kepts) = {}
    BY Zenon DEF TInv, InList
  <2> HIDE DEF t
  <2> QED BY <2>1, <2>2, <2>3
<1>6. t \in Tables /\ t # NoTable
  <2>1. live \subseteq Tables
    BY Zenon DEF TInv, Values
  <2> QED BY <1>5, <2>1, TableNames
<1>7. size \in 0 .. MaxRing /\ size <= segs.len
  <2>1. segs.len # 0
    BY <1>2 DEF TInv, Counted
  <2>2. segs.len > 0
    BY <2>1 DEF TInv, Values
  <2> QED BY <2>2 DEF TInv, Keeping, WInv, Numbers
<1>8. /\ segs' \in [len : 0 .. MaxRing, at : [Ids -> Tables \cup {NoTable}]]
      /\ segs'.len = segs.len /\ segs'.at[h] = t /\ h \in Slots'
      /\ \A i \in Inds : segs'.at[i] = segs.at[i]
      /\ \A i, j \in Slots' : i # j => segs'.at[i] # segs'.at[j]
      /\ \A i \in Slots' : segs'.at[i] \in live' /\ i < segs.len /\ (i < size \/ i \in Slots)
      /\ SlotTables' \subseteq SlotTables \cup {t}
      /\ live' \subseteq live /\ t \in live' /\ live \ SlotTables \subseteq live'
      /\ live' \cap SlotTables \subseteq SlotTables'
      /\ \A u \in live' : contents'[u] = contents[u]
      /\ contents' \in [Tables -> [req : Reqs \cup {NoReq}, from : 0 .. MaxChunks]]
      /\ Cardinality(Vacant') \in Nat
      /\ Cardinality(Vacant') = 0 \/ Cardinality(Vacant') = Cardinality(Vacant) - 1
  <2>1. Values /\ InSlots /\ InList /\ TakeSlot(h, t) /\ UNCHANGED size
    BY <1>1, Zenon DEF TInv
  <2> QED BY <1>3, <1>5, <1>7, <2>1, SlotTaken
<1>9. contents'[t] = Whole(e.req) /\ f = 1
  <2>1. contents'[t] = Whole(e.req)
    BY <1>5, <1>8
  <2> QED BY <2>1 DEF Whole, f
<1> HIDE DEF f
<1> DEFINE n == [e EXCEPT !.id = h]
<1>10. n = [req |-> e.req, op |-> e.op, n |-> e.n, chunk |-> e.chunk, table |-> t, id |-> h]
  BY <1>2 DEF Shaped, t
<1> HIDE DEF n
<1>11. n.id = h /\ n.table = t /\ n.op = "indirect" /\ Remains(n, written)
  <2>1. n.req = e.req /\ n.op = e.op /\ n.n = e.n /\ n.chunk = e.chunk /\ n.id = h /\ n.table = t
    BY <1>10
  <2> QED BY <1>1, <1>2, <2>1, Zenon DEF Remains
<1>12. PICK c : c = Copy(e.req, e.op, e.n, 0)
  OBVIOUS
<1>13. PICK m : \/ /\ m = Plain(h, e.req, 1) /\ batch' = Append(batch, m)
                   /\ resume_split' = Append(resume_split, n)
                \/ /\ m = Indirect(h, e.req, 2, t) /\ batch' = Append(batch, m)
                   /\ UNCHANGED resume_split
  <2>1. PICK p, i : p = Plain(h, e.req, 1) /\ i = Indirect(h, e.req, 2, t)
    OBVIOUS
  <2> QED BY <1>1, <1>4, <1>9, <2>1, Zenon DEF n
<1>14. /\ shadow' = [shadow EXCEPT ![h] = c] /\ batch' = Append(batch, m)
       /\ m.id = h /\ c.req = e.req /\ c.op = "indirect" /\ c.n = 2 /\ c.chunk = 0
       /\ c = Copy(c.req, c.op, c.n, c.chunk)
       /\ m = [id |-> m.id, req |-> m.req, chunk |-> m.chunk, n |-> m.n, table |-> m.table]
       /\ m.req = e.req
  <2>1. shadow' = [shadow EXCEPT ![h] = c] /\ batch' = Append(batch, m)
    BY <1>1, <1>12, <1>13, Zenon
  <2>2. m = Plain(h, e.req, 1) \/ m = Indirect(h, e.req, 2, t)
    BY <1>13, Zenon
  <2>3. c.req = e.req /\ c.op = "indirect" /\ c.n = 2 /\ c.chunk = 0 /\ c = Copy(c.req, c.op, c.n, c.chunk)
    BY <1>1, <1>4, <1>12 DEF Copy
  <2>4. /\ m.id = h /\ m.req = e.req
        /\ m = [id |-> m.id, req |-> m.req, chunk |-> m.chunk, n |-> m.n, table |-> m.table]
    BY <2>2 DEF Plain, Indirect
  <2> QED BY <2>1, <2>3, <2>4
<1>15. Remains(c, written)
  BY <1>4, <1>14 DEF Remains
<1>16. /\ \/ /\ SplitIds' = SplitIds \cup {h} /\ m.n = 1 /\ m.chunk = 1 /\ m.table = NoTable
          \/ /\ SplitIds' = SplitIds /\ m.n = 2 /\ m.chunk = 0 /\ m.table = t
       /\ Splitting' \subseteq Splitting \cup {n}
  <2>1. CASE m = Plain(h, e.req, 1) /\ resume_split' = Append(resume_split, n)
    <3>1. WithOne(resume_split', resume_split, n)
      BY <2>1, AppendIs, Zenon DEF WInv, Sequences
    <3>2. Splitting' = Splitting \cup {n} /\ SplitIds' = SplitIds \cup {h}
      BY <1>11, <3>1, Zenon DEF WithOne, Splitting, SplitIds
    <3>3. m.n = 1 /\ m.chunk = 1 /\ m.table = NoTable
      BY <2>1 DEF Plain
    <3> QED BY <3>2, <3>3
  <2>2. CASE m = Indirect(h, e.req, 2, t) /\ UNCHANGED resume_split
    <3>1. Splitting' = Splitting /\ SplitIds' = SplitIds
      BY <2>2, SplitNames, Zenon
    <3>2. m.n = 2 /\ m.chunk = 0 /\ m.table = t
      BY <2>2 DEF Indirect
    <3> QED BY <3>1, <3>2
  <2> QED BY <1>13, <2>1, <2>2, Zenon
<1>17. DOMAIN shadow = Ids
  BY Zenon DEF WInv, Numbers
<1>18. Serves(m)'
  <2>1. shadow'[m.id] = c
    BY <1>3, <1>14, <1>17
  <2>2. m.id \in Ids /\ m.req = c.req
    BY <1>3, <1>14, Zenon
  <2>3. \/ m.id \in SplitIds' /\ m.n = 1 /\ m.chunk = 1 /\ m.table = NoTable
        \/ m.id \notin SplitIds' /\ m.n = 2 /\ m.chunk = 0 /\ m.table = segs'.at[m.id]
    BY <1>3, <1>8, <1>14, <1>16
  <2> QED BY <1>14, <2>1, <2>2, <2>3, Zenon DEF Serves
<1>19. Puts(m, c)
  <2>1. c.req # NoReq
    BY <1>4, <1>14, BlkAssumption
  <2>2. UNCHANGED <<sent, answers, size>>
    BY <1>1
  <2> QED BY <1>1, <1>14, <2>1, <2>2, Zenon DEF Puts, h
<1>20. /\ OnWire'
       /\ \A i \in Ids : shadow'[i] = Empty \/ Remains(shadow'[i], written')
       /\ \A i \in Ids : shadow'[i] = Copy(shadow'[i].req, shadow'[i].op, shadow'[i].n, shadow'[i].chunk)
       /\ shadow'[h] = c /\ \A i \in Ids \ {h} : shadow'[i] = shadow[i]
       /\ Inds' = IF c.op = "indirect" THEN Inds \cup {h} ELSE Inds
       /\ Cardinality(BusyIds') = Cardinality(BusyIds) + 1
       /\ Cardinality(Inds') = IF c.op = "indirect" THEN Cardinality(Inds) + 1 ELSE Cardinality(Inds)
  <2>1. lock # "none" /\ UNCHANGED written
    BY <1>1
  <2>2. SplitIds' = SplitIds \/ SplitIds' = SplitIds \cup {h}
    BY <1>16
  <2> QED BY <1>1, <1>8, <1>14, <1>15, <1>18, <1>19, <2>1, <2>2, PutTables, Zenon DEF h
<1>21. Inds' = Inds \cup {h} /\ \A i \in Inds : shadow'[i] = shadow[i] /\ i # h
  <2>1. Inds \subseteq Ids \ {h}
    BY <1>3 DEF Inds
  <2> QED BY <1>14, <1>20, <2>1
<1>22. ToCome' = ToCome
  BY <1>1, Zenon DEF ToCome
<1>23. Values' /\ Keeping'
  <2>1. live' \subseteq Tables
    BY <1>8 DEF TInv, Values
  <2>2. Values'
    BY <1>1, <1>8, <2>1, Zenon DEF TInv, Values
  <2>3. Keeping'
    BY <1>1, <1>8, <1>22, Zenon DEF TInv, Keeping
  <2> QED BY <2>2, <2>3
<1>24. Copies'
  <2>1. Listed' \subseteq Listed /\ written' = written
    BY <1>1, <1>2
  <2>2. /\ \A x \in Listed' : Remains(x, written') /\ x.id \in Ids /\ x.table \in Tables \cup {NoTable}
    BY <2>1 DEF TInv, Copies
  <2>3. \A x \in Splitting' : Remains(x, written') /\ x.id \in Ids /\ x.table \in Tables /\ x.op = "indirect"
    <3>1. n.id \in Ids /\ n.table \in Tables
      BY <1>3, <1>6, <1>11
    <3>2. \A x \in Splitting : Remains(x, written') /\ x.id \in Ids /\ x.table \in Tables /\ x.op = "indirect"
      BY <2>1, Zenon DEF TInv, Copies
    <3> QED BY <1>11, <1>16, <2>1, <3>1, <3>2
  <2> QED BY <1>20, <2>2, <2>3, Zenon DEF Copies
<1>25. InSlots'
  <2>1. UNCHANGED <<size, old, xb>>
    BY <1>1
  <2>2. \A i \in Slots' : segs'.at[i] \in live' /\ i < segs'.len
    BY <1>8
  <2>3. \A i \in Slots' : i < size' \/ (xb' \in {"recover", "kick", "surplus"} /\ i < old')
    BY <1>8, <2>1 DEF TInv, InSlots
  <2>4. ASSUME NEW i \in Inds' PROVE i \in Slots' /\ contents'[segs'.at[i]] = Whole(shadow'[i].req)
    <3>1. CASE i = h
      BY <1>8, <1>9, <1>14, <1>20, <3>1
    <3>2. CASE i \in Inds
      <4>1. i \in Slots /\ contents[segs.at[i]] = Whole(shadow[i].req)
        BY <3>2, Zenon DEF TInv, InSlots
      <4>2. i \in Ids /\ segs'.at[i] = segs.at[i] /\ segs.at[i] # NoTable
        BY <1>8, <3>2, <4>1 DEF Slots
      <4>3. i \in Slots'
        BY <4>2 DEF Slots
      <4>4. segs'.at[i] \in live'
        BY <1>8, <4>3
      <4>5. contents'[segs'.at[i]] = contents[segs.at[i]]
        BY <1>8, <4>2, <4>4, Zenon
      <4> QED BY <1>21, <3>2, <4>1, <4>3, <4>5
    <3> QED BY <1>21, <3>1, <3>2
  <2>5. \A i, j \in Slots' : i # j => segs'.at[i] # segs'.at[j]
    BY <1>8
  <2> QED BY <2>2, <2>3, <2>4, <2>5, Zenon DEF InSlots
<1>26. InList'
  <2>1. /\ \A x \in Kepts : x.table \in live /\ contents[x.table] = Whole(x.req)
        /\ \A x, y \in Kepts : x.table = y.table => x = y
        /\ SlotTables \cap TablesOf(Kepts) = {}
        /\ live \subseteq SlotTables \cup TablesOf(Kepts)
    BY Zenon DEF TInv, InList
  <2>2. ASSUME NEW x \in Kepts'
        PROVE  x \in Kepts /\ x.table \in live' /\ contents'[x.table] = Whole(x.req) /\ x.table \notin SlotTables'
    <3>1. x \in Kepts /\ x # e
      BY <1>2
    <3>2. x.table \in live /\ x.table \notin SlotTables /\ x.table # t
      BY <1>5, <2>1, <3>1 DEF TablesOf
    <3>3. x.table \in live' /\ x.table \notin SlotTables'
      BY <1>8, <3>2
    <3> QED BY <1>8, <2>1, <3>1, <3>3
  <2>3. \A x, y \in Kepts' : x.table = y.table => x = y
    BY <2>1, <2>2
  <2>4. SlotTables' \cap TablesOf(Kepts') = {}
    BY <2>2 DEF TablesOf
  <2>5. t \in SlotTables'
    BY <1>8 DEF SlotTables
  <2>6. ASSUME NEW u \in live', u \notin SlotTables' PROVE u \in TablesOf(Kepts')
    <3>1. u \in live /\ u \notin SlotTables /\ u # t
      BY <1>8, <2>5, <2>6
    <3>2. PICK x \in Kepts : u = x.table
      BY <2>1, <3>1 DEF TablesOf
    <3>3. x \in Kepts'
      BY <1>2, <3>1, <3>2 DEF t
    <3> QED BY <3>2, <3>3 DEF TablesOf
  <2>7. live' \subseteq SlotTables' \cup TablesOf(Kepts')
    BY <2>6
  <2>8. \A x \in Kepts' : x.table \in live' /\ contents'[x.table] = Whole(x.req)
    BY <2>2
  <2> QED BY <2>3, <2>4, <2>7, <2>8, Zenon DEF InList, TablesOf
<1>27. References' /\ Counted'
  <2> DEFINE b == Cardinality(BusyIds) l == Cardinality(Listed)
             i == Cardinality(Inds) k == Cardinality(Kepts) v == Cardinality(Vacant)
             w == Cardinality(Vacant')
  <2>1. b \in Nat /\ l \in Nat /\ i \in Nat /\ k \in Nat /\ v \in Nat
    BY FiniteSets, Zenon DEF WInv, Sequences, Numbers, Counts
  <2>2. pool \in Nat /\ others \in Nat /\ Grants \in Nat /\ pool + others + b + l + 2 * (i + k) <= Grants
        /\ others \in 0 .. Others
    BY BlkAssumption DEF TInv, References
  <2>3. /\ Cardinality(BusyIds') = b + 1 /\ Cardinality(Listed') = l - 1
        /\ Cardinality(Inds') = i + 1 /\ Cardinality(Kepts') = k - 1
        /\ pool' = pool /\ others' = others
    BY <1>1, <1>2, <1>14, <1>20
  <2>4. i + k <= MaxRing /\ (ToCome /\ segs.len > 0 => v <= k)
    BY Zenon DEF TInv, Counted
  <2>5. k > 0
    <3>1. IsFiniteSet(Kepts) /\ Kepts # {}
      BY <1>2, FiniteSets, Zenon DEF WInv, Sequences, Numbers
    <3>2. k # 0
      BY <3>1, FS_EmptySet
    <3> QED BY <2>1, <3>2
  <2>6. w \in Nat /\ (w = 0 \/ w = v - 1)
    BY <1>8
  <2> HIDE DEF b, l, i, k, v, w
  <2>7. pool + others + (b + 1) + (l - 1) + 2 * ((i + 1) + (k - 1)) <= Grants
    BY <2>1, <2>2, MovedRefs
  <2>8. References'
    BY <2>2, <2>3, <2>7, Zenon DEF References
  <2>9. (i + 1) + (k - 1) <= MaxRing /\ (ToCome /\ segs.len > 0 => w <= k - 1)
    <3>1. (i + 1) + (k - 1) <= MaxRing
      BY <2>1, <2>4
    <3>2. v <= k => w <= k - 1
      BY <2>1, <2>5, <2>6
    <3> QED BY <2>4, <3>1, <3>2, Zenon
  <2>10. segs.len # 0
    BY <1>2 DEF TInv, Counted
  <2>11. Counted'
    BY <1>8, <1>22, <2>3, <2>9, <2>10, Zenon DEF Counted, w
  <2> QED BY <2>8, <2>11
<1> QED BY <1>20, <1>23, <1>24, <1>25, <1>26, <1>27, Zenon DEF TInv
-----------------------------------------------------------------------------
(* The steps that take a response.                                         *)

LEMMA DoneTables ==
    ASSUME CInv, WInv, TInv, lock = "handle", answers # <<>>,
           answers' = Tail(answers), Release(Head(answers).id),
           UNCHANGED <<batch, sent, size, segs, written>>,
           SplitIds' = SplitIds \ {Head(answers).id}
    PROVE  LET id == Head(answers).id
               s  == shadow[id]
           IN  /\ OnWire' /\ ToSet(answers') \subseteq ToSet(answers)
               /\ id \in Ids /\ Remains(s, written) /\ (Head(answers).ok => Served(id))
               /\ \A i \in Ids : shadow'[i] = Empty \/ Remains(shadow'[i], written')
               /\ \A i \in Ids : shadow'[i] = Copy(shadow'[i].req, shadow'[i].op, shadow'[i].n, shadow'[i].chunk)
               /\ Inds' = Inds \ {id} /\ \A i \in Inds' : shadow'[i] = shadow[i]
               /\ Cardinality(BusyIds') = Cardinality(BusyIds) - 1
               /\ s.op = "indirect" => Cardinality(Inds') = Cardinality(Inds) - 1
               /\ s.op = "plain" => Inds' = Inds
<1> DEFINE id == Head(answers).id s == shadow[id] a == Head(answers)
<1>1. /\ BusyIds' = BusyIds \ {id} /\ id \in BusyIds
  <2>1. Ready
    BY DEF CInv, Control, Ready
  <2> QED BY <2>1, ReleaseKeeps, Zenon DEF WInv
<1>2. DOMAIN shadow = Ids /\ id \in Ids /\ s.req # NoReq
  BY <1>1 DEF BusyIds, WInv, Numbers
<1>3. IsSeq(answers) /\ OnceId(answers) /\ LessOne(answers', answers, a)
  BY TailIs, Zenon DEF WInv, Sequences, Apart
<1>4. /\ IdsOf(answers') = IdsOf(answers) \ {id} /\ id \in IdsOf(answers)
      /\ ToSet(answers') \subseteq ToSet(answers)
  <2>1. IdsOf(answers') = IdsOf(answers) \ {id} /\ id \in IdsOf(answers)
    BY <1>3, Zenon DEF LessOne
  <2>2. ToSet(answers') \subseteq ToSet(answers)
    BY <1>3 DEF LessOne, ToSet
  <2> QED BY <2>1, <2>2
<1>5. a \in ToSet(answers)
  <2>1. 1 \in DOMAIN answers /\ a = answers[1]
    BY <1>3, NonEmptyIs, Zenon
  <2> HIDE DEF a
  <2> QED BY <2>1 DEF ToSet
<1>6. a.ok => Served(id)
  BY <1>5, Zenon DEF TInv, OnWire
<1>7. Remains(s, written)
  <2>1. s = Empty \/ Remains(s, written)
    BY <1>2, Zenon DEF TInv, Copies
  <2>2. Empty.req = NoReq
    BY DEF Empty, Copy
  <2> QED BY <1>2, <2>1, <2>2
<1>8. shadow'[id] = Empty /\ \A i \in Ids \ {id} : shadow'[i] = shadow[i]
  <2>1. shadow' = [shadow EXCEPT ![id] = Empty]
    BY Zenon DEF Release
  <2> HIDE DEF id
  <2> QED BY <1>2, <2>1
<1> HIDE DEF id, s, a
<1>9. /\ \A i \in Ids : shadow'[i] = Empty \/ Remains(shadow'[i], written')
      /\ \A i \in Ids : shadow'[i] = Copy(shadow'[i].req, shadow'[i].op, shadow'[i].n, shadow'[i].chunk)
  <2>1. /\ \A i \in Ids : shadow[i] = Empty \/ Remains(shadow[i], written)
        /\ \A i \in Ids : shadow[i] = Copy(shadow[i].req, shadow[i].op, shadow[i].n, shadow[i].chunk)
    BY Zenon DEF TInv, Copies
  <2>2. Empty = Copy(Empty.req, Empty.op, Empty.n, Empty.chunk)
    BY DEF Empty, Copy
  <2>3. \A i \in Ids : i = id \/ i \in Ids \ {id}
    OBVIOUS
  <2> QED BY <1>8, <2>1, <2>2, <2>3, Zenon
<1>10. Inds' = Inds \ {id} /\ \A i \in Inds' : shadow'[i] = shadow[i]
  <2>1. Empty.op # "indirect"
    BY DEF Empty, Copy
  <2>2. \A i \in Ids : shadow'[i].op = "indirect" <=> i # id /\ shadow[i].op = "indirect"
    BY <1>2, <1>8, <2>1
  <2>3. Inds' = Inds \ {id}
    BY <2>2 DEF Inds
  <2>4. \A i \in Inds' : i \in Ids \ {id}
    BY <2>3 DEF Inds
  <2> QED BY <1>8, <2>3, <2>4
<1>11. IsFiniteSet(BusyIds) /\ IsFiniteSet(Inds)
  BY FiniteSets, Zenon DEF WInv, Sequences, Numbers
<1>12. Cardinality(BusyIds') = Cardinality(BusyIds) - 1
  BY <1>1, <1>11, FS_RemoveElement
<1>13. s.op = "indirect" => Cardinality(Inds') = Cardinality(Inds) - 1
  <2>1. s.op = "indirect" => id \in Inds
    BY <1>2 DEF Inds, s
  <2> QED BY <1>10, <1>11, <2>1, FS_RemoveElement
<1>14. s.op = "plain" => Inds' = Inds
  <2>1. s.op = "plain" => id \notin Inds
    BY DEF Inds, s
  <2> QED BY <1>10, <2>1
<1>15. OnWire'
  <2>1. Ringed' = Ringed
    BY Zenon DEF Ringed
  <2>2. ASSUME NEW m \in Ringed PROVE Serves(m)'
    <3>1. Serves(m) /\ m.id \in Ids
      BY DEF TInv, OnWire, Serves
    <3>2. m.id \in IdsOf(batch) \cup SentIds
      BY DEF Ringed, SentIds, IdsOf, ToSet
    <3>3. m.id # id
      BY <1>4, <3>2 DEF WInv, Apart
    <3>4. shadow'[m.id] = shadow[m.id] /\ segs' = segs
      BY <1>8, <3>1, <3>3
    <3>5. m.id \in SplitIds' <=> m.id \in SplitIds
      BY <3>3 DEF id
    <3> QED BY <3>1, <3>4, <3>5, ServesOn, Zenon
  <2>3. ASSUME NEW b \in ToSet(answers'), b.ok PROVE Served(b.id)'
    <3>1. b \in ToSet(answers) /\ Served(b.id) /\ b.id \in Ids
      BY <1>4, <2>3 DEF TInv, OnWire, Values
    <3>2. b.id # id
      <4>1. b.id \in IdsOf(answers')
        BY DEF IdsOf, ToSet
      <4> QED BY <1>4, <4>1
    <3>3. shadow'[b.id] = shadow[b.id] /\ written \subseteq written'
      BY <1>8, <3>1, <3>2
    <3>4. b.id \in SplitIds' <=> b.id \in SplitIds
      BY <3>2 DEF id
    <3> QED BY <3>1, <3>3, <3>4, ServedOn, Zenon
  <2> QED BY <2>1, <2>2, <2>3, Zenon DEF OnWire
<1> QED BY <1>2, <1>4, <1>6, <1>7, <1>9, <1>10, <1>12, <1>13, <1>14, <1>15 DEF id, s, a

LEMMA EndsAs ==
    ASSUME WInv, NEW r, NEW ok, Ended(r, ok)
    PROVE  \A q \in Reqs : result'[q] = "new" => result[q] = "new"
<1>1. DOMAIN result = Reqs
  BY DEF WInv, Held
<1> QED BY <1>1 DEF Ended

(* What a response puts back: the references of the entry.                 *)
LEMMA ReturnedRefs ==
    ASSUME NEW p \in Nat, NEW o \in Nat, NEW g \in Nat,
           NEW b \in Nat, NEW l \in Nat, NEW i \in Nat, NEW k \in Nat,
           p + o + b + l + 2 * (i + k) <= g, NEW q, NEW j,
           (q = p + 1 /\ j = i) \/ (q = p + 3 /\ j = i - 1)
    PROVE  q \in Nat /\ q + o + (b - 1) + l + 2 * (j + k) <= g
<1>1. CASE q = p + 1 /\ j = i
  BY <1>1
<1>2. CASE q = p + 3 /\ j = i - 1
  BY <1>2
<1> QED BY <1>1, <1>2

LEMMA WholeTables ==
    ASSUME CInv, WInv, TInv, HandleWhole
    PROVE  TInv'
<1> DEFINE id == Head(answers).id s == shadow[id]
<1>1. /\ lock = "handle" /\ answers # <<>> /\ answers' = Tail(answers)
      /\ Release(id) /\ pool' = pool + Refs(s.n) /\ Ended(s.req, Head(answers).ok)
      /\ s.op = "indirect" => SplitAt(id) = {}
      /\ UNCHANGED <<batch, sent, size, segs, live, contents, written, resume_list, resume_split>>
      /\ UNCHANGED <<queue, lock, others, xb, connected, keep, limit, old, maxSegs, frames, backend, migrations>>
  BY DEF HandleWhole, Freed, conn, env, rec, tabs
<1>2. id \notin SplitIds
  <2> SUFFICES ASSUME NEW k \in DOMAIN resume_split, resume_split[k].id = id PROVE FALSE
    BY DEF SplitIds, IdsOf
  <2>1. s.op = "indirect"
    BY Zenon DEF WInv, Splits
  <2>2. k \in SplitAt(id)
    BY DEF SplitAt
  <2> QED BY <1>1, <2>1, <2>2
<1>3. SplitIds' = SplitIds /\ Splitting' = Splitting /\ SplitIds' = SplitIds \ {id}
  BY <1>1, <1>2, SplitNames
<1>4. /\ OnWire' /\ ToSet(answers') \subseteq ToSet(answers)
      /\ id \in Ids /\ Remains(s, written)
      /\ \A i \in Ids : shadow'[i] = Empty \/ Remains(shadow'[i], written')
      /\ \A i \in Ids : shadow'[i] = Copy(shadow'[i].req, shadow'[i].op, shadow'[i].n, shadow'[i].chunk)
      /\ Inds' = Inds \ {id} /\ \A i \in Inds' : shadow'[i] = shadow[i]
      /\ Cardinality(BusyIds') = Cardinality(BusyIds) - 1
      /\ s.op = "indirect" => Cardinality(Inds') = Cardinality(Inds) - 1
      /\ s.op = "plain" => Inds' = Inds
  BY <1>1, <1>3, DoneTables
<1>5. ToCome' => ToCome
  <2>1. \A q \in Reqs : result'[q] = "new" => result[q] = "new"
    BY <1>1, EndsAs, Zenon
  <2>2. ToSet(queue') \subseteq ToSet(queue)
    BY <1>1
  <2> QED BY <2>1, <2>2, ToComeSame, Zenon
<1> HIDE DEF id
<1>6. Values' /\ Keeping'
  <2>1. ToSet(answers') \subseteq [id : Ids, ok : BOOLEAN]
    BY <1>4 DEF TInv, Values
  <2>2. Values'
    BY <1>1, <2>1, Zenon DEF TInv, Values
  <2>3. Keeping'
    BY <1>1, <1>5, KeepingSame, Zenon DEF TInv
  <2> QED BY <2>2, <2>3
<1>7. /\ Listed' = Listed /\ Kepts' = Kepts /\ Slots' = Slots /\ Vacant' = Vacant
      /\ segs' = segs /\ written' = written
  BY <1>1, ListNames, SlotNames, Zenon DEF Vacant
<1>8. Copies'
  BY <1>3, <1>4, <1>7, Zenon DEF Copies, TInv
<1>9. InSlots'
  <2>1. UNCHANGED <<size, old, xb, segs, live, contents>> /\ Inds' \subseteq Inds
    BY <1>1, <1>4
  <2>2. \A i \in Inds' : i \in Slots' /\ contents'[segs'.at[i]] = Whole(shadow'[i].req)
    BY <1>4, <1>7, <2>1 DEF TInv, InSlots
  <2> QED BY <1>7, <2>1, <2>2, Zenon DEF TInv, InSlots
<1>10. InList'
  BY <1>1, ListSame, Zenon DEF TInv
<1>11. References' /\ Counted'
  <2> DEFINE b == Cardinality(BusyIds) l == Cardinality(Listed)
             i == Cardinality(Inds) k == Cardinality(Kepts) j == Cardinality(Inds')
  <2>1. b \in Nat /\ l \in Nat /\ i \in Nat /\ k \in Nat
    BY FiniteSets, Zenon DEF WInv, Sequences, Numbers, Counts
  <2>2. pool \in Nat /\ others \in Nat /\ Grants \in Nat /\ pool + others + b + l + 2 * (i + k) <= Grants
        /\ others \in 0 .. Others
    BY BlkAssumption DEF TInv, References
  <2>3. /\ Cardinality(BusyIds') = b - 1 /\ Cardinality(Listed') = l /\ Cardinality(Kepts') = k
        /\ others' = others
        /\ \/ pool' = pool + 1 /\ j = i
           \/ pool' = pool + 3 /\ j = i - 1
    <3>1. (s.op = "plain" /\ s.n = 1) \/ (s.op = "indirect" /\ s.n = 2)
      <4>1. Remains(s, written)
        BY <1>4, Zenon
      <4> HIDE DEF s
      <4> QED BY <4>1 DEF Remains
    <3>2. (pool' = pool + 1 /\ j = i) \/ (pool' = pool + 3 /\ j = i - 1)
      BY <1>1, <1>4, <3>1, RefsAre
    <3> QED BY <1>1, <1>4, <1>7, <3>2
  <2>4. i + k <= MaxRing /\ MaxRing \in Nat
    BY Sizes DEF TInv, Counted
  <2> HIDE DEF b, l, i, k
  <2>5. j <= i /\ j \in Int
    BY <2>1, <2>3
  <2> HIDE DEF j
  <2>6. PICK p : p = pool'
    OBVIOUS
  <2>7. p \in Nat /\ p + others + (b - 1) + l + 2 * (j + k) <= Grants
    <3>1. (p = pool + 1 /\ j = i) \/ (p = pool + 3 /\ j = i - 1)
      BY <2>3, <2>6, Zenon
    <3> QED BY <2>1, <2>2, <3>1, ReturnedRefs, Zenon
  <2>8. References'
    BY <2>2, <2>3, <2>6, <2>7, Zenon DEF References, j
  <2>9. j + k <= MaxRing
    BY <2>1, <2>4, <2>5
  <2>10. Counted'
    BY <1>5, <1>7, <2>3, <2>9, Zenon DEF TInv, Counted, j
  <2> QED BY <2>8, <2>10
<1> QED BY <1>4, <1>6, <1>8, <1>9, <1>10, <1>11, Zenon DEF TInv

(* What is left of a split request, if anything, needs no table.           *)
LEMMA SplitRefs ==
    ASSUME NEW p \in Nat, NEW o \in Nat, NEW g \in Nat,
           NEW b \in Nat, NEW l \in Nat, NEW i \in Nat, NEW k \in Nat,
           p + o + b + l + 2 * (i + k) <= g
    PROVE  /\ p + 1 \in Nat
           /\ p + 1 + o + (b - 1) + l + 2 * ((i - 1) + k) <= g
           /\ p + 1 + o + (b - 1) + (l + 1) + 2 * ((i - 1) + k) <= g
OBVIOUS

LEMMA SplitTables ==
    ASSUME CInv, WInv, TInv, HandleSplit
    PROVE  TInv'
<1> DEFINE id == Head(answers).id s == shadow[id] k == FirstOf(SplitAt(id)) e == resume_split[k]
           t == segs.at[id] op == IF e.n - 1 <= 1 THEN "plain" ELSE "indirect"
           n == [e EXCEPT !.op = op, !.n = @ - 1, !.chunk = contents[t].from + 1]
<1>1. /\ lock = "handle" /\ answers # <<>> /\ answers' = Tail(answers)
      /\ Release(id) /\ pool' = pool + 1 /\ s.op = "indirect" /\ SplitAt(id) # {}
      /\ resume_split' = RemoveAt(resume_split, k)
      /\ \/ Ended(s.req, FALSE) /\ UNCHANGED <<contents, resume_list>>
         \/ /\ Head(answers).ok
            /\ contents' = [contents EXCEPT ![t].from = @ + 1]
            /\ resume_list' = Append(resume_list, n)
            /\ UNCHANGED result
      /\ UNCHANGED <<batch, sent, size, segs, live, written>>
      /\ UNCHANGED <<queue, lock, others, xb, connected, keep, limit, old, maxSegs, frames, backend, migrations>>
  <2>1. /\ lock = "handle" /\ answers # <<>> /\ answers' = Tail(answers)
        /\ Release(id) /\ pool' = pool + 1 /\ s.op = "indirect" /\ SplitAt(id) # {}
        /\ resume_split' = RemoveAt(resume_split, k)
        /\ UNCHANGED <<batch, sent, size, segs, live, written>>
        /\ UNCHANGED <<queue, lock, others, xb, connected, keep, limit, old, maxSegs, frames, backend, migrations>>
    BY DEF HandleSplit, Freed, conn, env
  <2>2. \/ Ended(s.req, FALSE) /\ UNCHANGED <<contents, resume_list>>
        \/ /\ Head(answers).ok
           /\ contents' = [contents EXCEPT ![t].from = @ + 1]
           /\ resume_list' = Append(resume_list, n)
           /\ UNCHANGED result
    BY Zenon DEF HandleSplit
  <2> QED BY <2>1, <2>2
<1>2. k \in DOMAIN resume_split /\ e.id = id
  BY <1>1, SplitIs, Zenon
<1>3. /\ IsSeq(resume_split) /\ OnceId(resume_split) /\ Shaped(e) /\ e.req = s.req /\ IsSeq(resume_list)
  BY <1>2, Zenon DEF WInv, Splits, Sequences
<1>4. e \in Splitting /\ Remains(e, written) /\ e.op = "indirect" /\ e.id \in Ids /\ e.table \in Tables
  <2>1. e \in Splitting
    <3> HIDE DEF k
    <3> QED BY <1>2 DEF Splitting, ToSet
  <2> QED BY <2>1, Zenon DEF TInv, Copies
<1>5. LessOne(resume_split', resume_split, e)
  BY <1>1, <1>2, <1>3, RemoveIs, Zenon
<1>6. SplitIds' = SplitIds \ {id} /\ id \in SplitIds /\ Splitting' \subseteq Splitting
  <2>1. SplitIds' = SplitIds \ {id} /\ id \in SplitIds
    BY <1>2, <1>3, <1>5, Zenon DEF LessOne, SplitIds
  <2>2. \A j \in DOMAIN resume_split' : \E l \in DOMAIN resume_split : resume_split'[j] = resume_split[l]
    BY <1>5, Zenon DEF LessOne
  <2>3. Splitting' \subseteq Splitting
    BY <2>2 DEF Splitting, ToSet
  <2> QED BY <2>1, <2>3
<1>7. /\ OnWire' /\ ToSet(answers') \subseteq ToSet(answers)
      /\ id \in Ids /\ Remains(s, written) /\ (Head(answers).ok => Served(id))
      /\ \A i \in Ids : shadow'[i] = Empty \/ Remains(shadow'[i], written')
      /\ \A i \in Ids : shadow'[i] = Copy(shadow'[i].req, shadow'[i].op, shadow'[i].n, shadow'[i].chunk)
      /\ Inds' = Inds \ {id} /\ \A i \in Inds' : shadow'[i] = shadow[i]
      /\ Cardinality(BusyIds') = Cardinality(BusyIds) - 1
      /\ s.op = "indirect" => Cardinality(Inds') = Cardinality(Inds) - 1
      /\ s.op = "plain" => Inds' = Inds
  BY <1>1, <1>6, DoneTables
<1>8. /\ s.req \in Reqs /\ s.n = 2 /\ Chunks[s.req] = 2 /\ e.n = 2
      /\ id \in Inds /\ id \in Slots /\ contents[t] = Whole(s.req) /\ t \in Tables
  <2>1. Remains(s, written) /\ s.op = "indirect"
    BY <1>1, <1>7, Zenon
  <2>2. id \in Inds
    BY <1>1, <1>7 DEF Inds
  <2>3. id \in Slots /\ contents[t] = Whole(s.req) /\ t \in live
    BY <2>2, Zenon DEF TInv, InSlots
  <2>4. t \in Tables
    BY <2>3 DEF TInv, Values
  <2> HIDE DEF s, e
  <2> QED BY <1>4, <2>1, <2>2, <2>3, <2>4 DEF Remains
<1>9. ToCome' => ToCome
  <2>1. \A q \in Reqs : result'[q] = "new" => result[q] = "new"
    <3>1. CASE UNCHANGED result
      BY <3>1
    <3>2. CASE Ended(s.req, FALSE)
      BY <3>2, EndsAs, Zenon
    <3> QED BY <1>1, <3>1, <3>2
  <2>2. ToSet(queue') \subseteq ToSet(queue)
    BY <1>1
  <2> QED BY <2>1, <2>2, ToComeSame, Zenon
<1>10. contents[t].from = 1 /\ contents[t].req = s.req
  BY <1>8 DEF Whole
<1>11. op = "plain"
  BY <1>8
<1>12. n = [req |-> s.req, op |-> "plain", n |-> 1, chunk |-> 2, table |-> e.table, id |-> id]
  <2>1. PICK a1, a2, a3, a4, a5, a6 :
            e = [req |-> a1, op |-> a2, n |-> a3, chunk |-> a4, table |-> a5, id |-> a6]
    BY <1>3, Zenon DEF Shaped
  <2> DEFINE x == e.n - 1 y == contents[t].from + 1
             e1 == [e EXCEPT !.op = op] e2 == [e1 EXCEPT !.n = x]
  <2>2. n = [e2 EXCEPT !.chunk = y]
    OBVIOUS
  <2>3. e.req = a1 /\ e.table = a5 /\ e.id = a6
    BY <2>1
  <2>4. x = 1 /\ y = 2
    BY <1>8, <1>10
  <2> HIDE DEF x, y, op
  <2>5. e1 = [req |-> a1, op |-> op, n |-> a3, chunk |-> a4, table |-> a5, id |-> a6]
    BY <2>1
  <2> HIDE DEF e1
  <2>6. e2 = [req |-> a1, op |-> op, n |-> x, chunk |-> a4, table |-> a5, id |-> a6]
    BY <2>5
  <2> HIDE DEF e2, n
  <2>7. n = [req |-> a1, op |-> op, n |-> x, chunk |-> y, table |-> a5, id |-> a6]
    BY <2>2, <2>6
  <2> QED BY <1>2, <1>3, <1>11, <2>3, <2>4, <2>7, Zenon
<1> HIDE DEF n, op, k
<1>13. n.op = "plain" /\ n.id \in Ids /\ n.table \in Tables /\ n.req = s.req /\ n.n = 1 /\ n.chunk = 2
  BY <1>4, <1>7, <1>12
<1>14. /\ \/ /\ contents' = contents /\ Listed' = Listed /\ Cardinality(Listed') = Cardinality(Listed)
          \/ /\ Head(answers).ok /\ contents' = [contents EXCEPT ![t].from = @ + 1]
             /\ Listed' = Listed \cup {n}
             /\ Cardinality(Listed') = Cardinality(Listed) + 1 \/ Cardinality(Listed') = Cardinality(Listed)
       /\ Kepts' = Kepts
  <2>1. CASE UNCHANGED <<contents, resume_list>>
    BY <2>1, ListNames
  <2>2. CASE /\ Head(answers).ok /\ contents' = [contents EXCEPT ![t].from = @ + 1]
             /\ resume_list' = Append(resume_list, n)
    <3>1. Listed' = Listed \cup {n}
      BY <1>3, <2>2, AppendIs, Zenon DEF WithOne, Listed
    <3>2. Kepts' = Kepts
      BY <1>13, <3>1 DEF Kepts
    <3>3. IsFiniteSet(Listed)
      BY FiniteSets, Zenon DEF WInv, Sequences, Numbers
    <3>4. Cardinality(Listed') = Cardinality(Listed) + 1 \/ Cardinality(Listed') = Cardinality(Listed)
      BY <3>1, <3>3, FS_AddElement
    <3> QED BY <2>2, <3>1, <3>2, <3>4
  <2> QED BY <1>1, <2>1, <2>2
<1>15. /\ contents' \in [Tables -> [req : Reqs \cup {NoReq}, from : 0 .. MaxChunks]]
       /\ \A u \in Tables \ {t} : contents'[u] = contents[u]
  <2>1. contents \in [Tables -> [req : Reqs \cup {NoReq}, from : 0 .. MaxChunks]]
    BY Zenon DEF TInv, Values
  <2>2. 2 \in 0 .. MaxChunks
    BY <1>8, Sizes
  <2> HIDE DEF t, id
  <2>3. CASE contents' = [contents EXCEPT ![t].from = @ + 1]
    <3>1. PICK c : c = [contents[t] EXCEPT !.from = 2]
      OBVIOUS
    <3>2. contents' = [contents EXCEPT ![t] = c]
      BY <1>8, <1>10, <2>1, <2>3, <3>1
    <3>3. c \in [req : Reqs \cup {NoReq}, from : 0 .. MaxChunks]
      BY <1>8, <2>1, <2>2, <3>1
    <3> QED BY <1>8, <2>1, <3>2, <3>3
  <2> QED BY <1>14, <2>1, <2>3
<1> HIDE DEF id, e
<1>16. Values' /\ Keeping'
  <2>1. ToSet(answers') \subseteq [id : Ids, ok : BOOLEAN]
    BY <1>7 DEF TInv, Values
  <2>2. Values'
    BY <1>1, <1>15, <2>1, Zenon DEF TInv, Values
  <2>3. Keeping'
    BY <1>1, <1>9, KeepingSame, Zenon DEF TInv
  <2> QED BY <2>2, <2>3
<1>17. /\ Slots' = Slots /\ Vacant' = Vacant /\ SlotTables' = SlotTables
       /\ segs' = segs /\ written' = written /\ live' = live
  BY <1>1, SlotNames, Zenon DEF Vacant
<1>18. Copies'
  <2>1. Head(answers).ok => Remains(n, written)
    <3>1. Head(answers).ok => <<s.req, 1>> \in written
      BY <1>1, <1>7, Zenon DEF Served, s
    <3>2. \A c \in 1 .. Chunks[s.req] : c # 2 => c = 1
      BY <1>8
    <3> HIDE DEF s
    <3> QED BY <1>8, <1>13, <3>1, <3>2 DEF Remains
  <2>2. \A x \in Listed' : Remains(x, written') /\ x.id \in Ids /\ x.table \in Tables \cup {NoTable}
    <3>1. \A x \in Listed : Remains(x, written') /\ x.id \in Ids /\ x.table \in Tables \cup {NoTable}
      BY <1>17 DEF TInv, Copies
    <3> QED BY <1>13, <1>14, <1>17, <2>1, <3>1
  <2>3. \A x \in Splitting' : Remains(x, written') /\ x.id \in Ids /\ x.table \in Tables /\ x.op = "indirect"
    BY <1>6, <1>17 DEF TInv, Copies
  <2> QED BY <1>7, <2>2, <2>3, Zenon DEF Copies
<1>19. InSlots'
  <2>1. UNCHANGED <<size, old, xb>> /\ Inds' \subseteq Inds /\ id \notin Inds'
    BY <1>1, <1>7
  <2>2. ASSUME NEW i \in Inds' PROVE i \in Slots' /\ contents'[segs'.at[i]] = Whole(shadow'[i].req)
    <3>1. i \in Slots /\ contents[segs.at[i]] = Whole(shadow[i].req) /\ i # id
      BY <2>1, Zenon DEF TInv, InSlots
    <3>2. segs.at[i] \in Tables /\ segs.at[i] # t
      BY <1>8, <3>1 DEF TInv, InSlots, Values
    <3>3. contents'[segs.at[i]] = contents[segs.at[i]]
      BY <1>15, <3>2
    <3> QED BY <1>7, <1>17, <3>1, <3>3
  <2>3. UNCHANGED <<size, old, xb>>
    BY <2>1
  <2> QED BY <1>17, <2>2, <2>3, Zenon DEF TInv, InSlots
<1>20. InList'
  <2>1. \A x \in Kepts : x.table \in live /\ contents[x.table] = Whole(x.req)
    BY Zenon DEF TInv, InList
  <2>2. ASSUME NEW x \in Kepts PROVE contents'[x.table] = Whole(x.req)
    <3>1. x.table \in Tables
      BY <2>1 DEF TInv, Values
    <3>2. x.table # t
      <4>1. t \in SlotTables
        BY <1>8 DEF SlotTables
      <4>2. x.table \in TablesOf(Kepts)
        BY DEF TablesOf
      <4>3. SlotTables \cap TablesOf(Kepts) = {}
        BY Zenon DEF TInv, InList
      <4> HIDE DEF t
      <4> QED BY <4>1, <4>2, <4>3
    <3> QED BY <1>15, <2>1, <3>1, <3>2
  <2>3. Kepts' = Kepts
    BY <1>14
  <2> QED BY <1>17, <2>2, <2>3, Zenon DEF TInv, InList
<1>21. References' /\ Counted'
  <2> DEFINE b == Cardinality(BusyIds) l == Cardinality(Listed)
             i == Cardinality(Inds) c == Cardinality(Kepts)
  <2>1. b \in Nat /\ l \in Nat /\ i \in Nat /\ c \in Nat
    BY FiniteSets, Zenon DEF WInv, Sequences, Numbers, Counts
  <2>2. pool \in Nat /\ others \in Nat /\ Grants \in Nat /\ pool + others + b + l + 2 * (i + c) <= Grants
        /\ others \in 0 .. Others
    BY BlkAssumption DEF TInv, References
  <2>3. /\ Cardinality(BusyIds') = b - 1 /\ Cardinality(Kepts') = c /\ Cardinality(Inds') = i - 1
        /\ pool' = pool + 1 /\ others' = others
        /\ Cardinality(Listed') = l \/ Cardinality(Listed') = l + 1
    BY <1>1, <1>7, <1>14
  <2>4. i + c <= MaxRing /\ MaxRing \in Nat
    BY Sizes DEF TInv, Counted
  <2> HIDE DEF b, l, i, c
  <2>5. /\ pool + 1 \in Nat
        /\ pool + 1 + others + (b - 1) + l + 2 * ((i - 1) + c) <= Grants
        /\ pool + 1 + others + (b - 1) + (l + 1) + 2 * ((i - 1) + c) <= Grants
    BY <2>1, <2>2, SplitRefs
  <2>6. References'
    BY <2>2, <2>3, <2>5, Zenon DEF References
  <2>7. (i - 1) + c <= MaxRing
    BY <2>1, <2>4
  <2>8. Counted'
    BY <1>9, <1>14, <1>17, <2>3, <2>7, Zenon DEF TInv, Counted
  <2> QED BY <2>6, <2>8
<1> QED BY <1>7, <1>16, <1>18, <1>19, <1>20, <1>21, Zenon DEF TInv
-----------------------------------------------------------------------------
(* The steps that make tables and free them.                               *)

LEMMA SurplusTables ==
    ASSUME CInv, WInv, TInv, FreeSurplus
    PROVE  TInv'
<1> DEFINE at == segs.at D == size .. old - 1 F == {at[i] : i \in D}
           b == [i \in Ids |-> IF i \in D THEN NoTable ELSE at[i]]
<1>1. /\ xb = "surplus" /\ xb' = "idle" /\ Vfree(F) /\ segs' = [segs EXCEPT !.at = b]
      /\ UNCHANGED <<shadow, resume_list, resume_split, size, old, batch, sent, answers, written>>
      /\ UNCHANGED <<queue, result, lock, pool, others, connected, keep, limit, maxSegs, frames, backend, migrations>>
  BY DEF FreeSurplus, io, ring, ids, rec, mem, env
<1>2. /\ segs \in [len : 0 .. MaxRing, at : [Ids -> Tables \cup {NoTable}]]
      /\ at \in [Ids -> Tables \cup {NoTable}] /\ live \subseteq Tables
      /\ contents \in [Tables -> [req : Reqs \cup {NoReq}, from : 0 .. MaxChunks]]
      /\ NoTable \notin Tables /\ MaxChunks \in Nat
  BY TableNames, Sizes DEF TInv, Values
<1>3. /\ segs' \in [len : 0 .. MaxRing, at : [Ids -> Tables \cup {NoTable}]]
      /\ segs'.len = segs.len /\ segs'.at = b
  <2>1. b \in [Ids -> Tables \cup {NoTable}]
    BY <1>2
  <2> HIDE DEF b
  <2> QED BY <1>1, <1>2, <2>1
<1>4. live' = live \ F
  BY <1>1 DEF Vfree
<1>5. /\ \A u \in live' : contents'[u] = contents[u]
      /\ contents' \in [Tables -> [req : Reqs \cup {NoReq}, from : 0 .. MaxChunks]]
  <2>1. contents' = [u \in Tables |-> IF u \in live' THEN contents[u] ELSE [req |-> NoReq, from |-> 0]]
    BY <1>1, Zenon DEF Vfree
  <2> QED BY <1>2, <1>4, <2>1
<1>6. size \in Nat /\ old \in Nat /\ old <= MaxRing /\ MaxRing \in Nat /\ D \subseteq Ids /\ Ids \subseteq Nat
  <2>1. size \in Nat /\ old \in Nat /\ old <= MaxRing /\ MaxRing \in Nat
    BY Sizes DEF WInv, Numbers
  <2>2. Ids = 0 .. MaxRing - 1
    BY DEF Ids
  <2>3. D \subseteq Ids
    BY <2>1, <2>2
  <2> QED BY <2>1, <2>2, <2>3
<1>7. /\ \A i, j \in Slots : i # j => at[i] # at[j]
      /\ \A i \in Slots : at[i] \in live /\ i < segs.len /\ (i < size \/ i < old)
      /\ \A i \in Inds : i \in Slots /\ contents[at[i]] = Whole(shadow[i].req)
  BY DEF TInv, InSlots
<1>8. \A i \in Inds : i \notin D
  <2>1. connected = "CONNECTED"
    BY <1>1 DEF WInv, Phases
  <2>2. BusyIds \subseteq 0 .. size - 1
    BY <2>1 DEF WInv, Entries, Ready
  <2>3. Inds \subseteq BusyIds
    <3> SUFFICES ASSUME NEW i \in Ids, shadow[i].op = "indirect" PROVE shadow[i].req # NoReq
      BY DEF Inds, BusyIds
    <3>1. shadow[i] = Empty \/ Remains(shadow[i], written)
      BY Zenon DEF TInv, Copies
    <3>2. Empty.op # "indirect"
      BY DEF Empty, Copy
    <3> QED BY <3>1, <3>2, BlkAssumption DEF Remains
  <2> QED BY <1>6, <2>2, <2>3
<1>9. Slots' = Slots \ D
  <2>1. \A i \in Ids : b[i] = IF i \in D THEN NoTable ELSE at[i]
    OBVIOUS
  <2> HIDE DEF b, D
  <2> QED BY <1>3, <2>1 DEF Slots
<1>10. \A i \in Slots' : i \in Slots /\ i < size /\ segs'.at[i] = at[i] /\ at[i] \in live' /\ contents'[at[i]] = contents[at[i]]
  <2> SUFFICES ASSUME NEW i \in Slots, i \notin D
               PROVE  i < size /\ segs'.at[i] = at[i] /\ at[i] \in live' /\ contents'[at[i]] = contents[at[i]]
    BY <1>9
  <2>1. i \in Ids /\ at[i] # NoTable
    BY DEF Slots
  <2>2. i < size
    BY <1>6, <1>7, <2>1
  <2>3. segs'.at[i] = at[i]
    BY <1>3, <2>1
  <2>4. at[i] \notin F
    <3>1. ASSUME NEW j \in D, at[j] = at[i] PROVE FALSE
      <4>1. j \in Slots
        BY <1>6, <2>1, <3>1 DEF Slots
      <4> QED BY <1>7, <3>1, <4>1
    <3> QED BY <3>1
  <2>5. at[i] \in live'
    BY <1>4, <1>7, <2>4
  <2> QED BY <1>5, <2>2, <2>3, <2>5
<1> HIDE DEF b
<1>11. /\ Listed' = Listed /\ Kepts' = Kepts /\ Splitting' = Splitting /\ SplitIds' = SplitIds
       /\ Inds' = Inds /\ BusyIds' = BusyIds /\ shadow' = shadow /\ Ringed' = Ringed /\ ToCome' = ToCome
  BY <1>1, ListNames, SplitNames, EntryNames, RingedSame, Zenon DEF ToCome
<1>12. Values' /\ Keeping'
  <2>1. live' \subseteq Tables
    BY <1>2, <1>4
  <2>2. xb' \in {"probe", "wait", "initialised", "connecting", "idle", "resume", "flush",
                 "recover", "kick", "surplus"}
    BY <1>1
  <2>3. Values'
    BY <1>1, <1>3, <1>5, <2>1, <2>2, Zenon DEF TInv, Values
  <2>4. Keeping'
    BY <1>1, <1>3, <1>11 DEF TInv, Keeping
  <2> QED BY <2>3, <2>4
<1>13. Copies'
  <2>1. written \subseteq written'
    BY <1>1
  <2> QED BY <1>1, <2>1, CopiesSame, Zenon DEF TInv
<1>14. InSlots'
  <2>1. \A i \in Inds' : i \in Slots' /\ contents'[segs'.at[i]] = Whole(shadow'[i].req)
    BY <1>7, <1>8, <1>9, <1>10, <1>11
  <2>2. /\ \A i, j \in Slots' : i # j => segs'.at[i] # segs'.at[j]
        /\ \A i \in Slots' : segs'.at[i] \in live' /\ i < segs'.len
        /\ \A i \in Slots' : i < size'
    BY <1>1, <1>3, <1>7, <1>10
  <2> QED BY <2>1, <2>2, Zenon DEF InSlots
<1>15. InList'
  <2>1. /\ \A x \in Kepts : x.table \in live /\ contents[x.table] = Whole(x.req)
        /\ \A x, y \in Kepts : x.table = y.table => x = y
        /\ SlotTables \cap TablesOf(Kepts) = {}
        /\ live \subseteq SlotTables \cup TablesOf(Kepts)
    BY Zenon DEF TInv, InList
  <2>2. F \subseteq SlotTables \cup {NoTable}
    BY <1>6 DEF SlotTables, Slots
  <2>3. ASSUME NEW x \in Kepts
        PROVE  x.table \in live' /\ contents'[x.table] = Whole(x.req) /\ x.table \notin SlotTables
    <3>1. x.table \in live /\ x.table \notin SlotTables
      BY <2>1 DEF TablesOf
    <3>2. x.table # NoTable
      BY <1>2, <3>1
    <3>3. x.table \in live'
      BY <1>4, <2>2, <3>1, <3>2
    <3> QED BY <1>5, <2>1, <3>1, <3>3
  <2>4. SlotTables' \subseteq SlotTables
    BY <1>10 DEF SlotTables
  <2>5. ASSUME NEW u \in live' PROVE u \in SlotTables' \cup TablesOf(Kepts)
    <3>1. u \in live /\ u \notin F
      BY <1>4
    <3>2. CASE u \in SlotTables
      <4>1. PICK i \in Slots : u = at[i]
        BY <3>2 DEF SlotTables
      <4>2. i \in Slots'
        BY <1>9, <3>1, <4>1
      <4> QED BY <1>10, <4>1, <4>2 DEF SlotTables
    <3> QED BY <2>1, <3>1, <3>2
  <2>6. SlotTables' \cap TablesOf(Kepts) = {} /\ live' \subseteq SlotTables' \cup TablesOf(Kepts)
    BY <2>1, <2>4, <2>5
  <2>7. \A x \in Kepts : x.table \in live' /\ contents'[x.table] = Whole(x.req)
    BY <2>3
  <2> QED BY <1>11, <2>1, <2>6, <2>7, Zenon DEF InList, TablesOf
<1>16. OnWire'
  <2>1. \A i \in Inds : segs'.at[i] = segs.at[i]
    BY <1>7, <1>8, <1>9, <1>10
  <2>2. ASSUME NEW m \in Ringed PROVE Serves(m)'
    <3>1. Serves(m) /\ m.id \in Ids
      BY DEF TInv, OnWire, Serves
    <3>2. shadow[m.id].op = "indirect" => segs'.at[m.id] = segs.at[m.id]
      BY <2>1, <3>1 DEF Inds
    <3> QED BY <1>11, <3>1, <3>2, ServesOn, Zenon
  <2>3. ASSUME NEW a \in ToSet(answers), a.ok PROVE Served(a.id)'
    <3>1. Served(a.id) /\ written \subseteq written'
      BY <1>1, <2>3 DEF TInv, OnWire
    <3> QED BY <1>11, <3>1, ServedOn, Zenon
  <2>4. answers' = answers
    BY <1>1
  <2> QED BY <1>11, <2>2, <2>3, <2>4, Zenon DEF OnWire
<1>17. References' /\ Counted'
  <2>1. Vacant' = Vacant
    <3>1. \A i \in 0 .. size - 1 : segs'.at[i] = at[i]
      <4>1. size <= MaxRing
        BY DEF WInv, Numbers
      <4> SUFFICES ASSUME NEW i \in 0 .. size - 1 PROVE segs'.at[i] = at[i]
        OBVIOUS
      <4>2. i \in Ids /\ i \notin D
        BY <1>6, <4>1, IdsAre
      <4> HIDE DEF D, at
      <4> QED BY <1>3, <4>2 DEF b
    <3>2. size' = size
      BY <1>1
    <3> QED BY <3>1, <3>2 DEF Vacant
  <2>2. References'
    BY <1>1, <1>11, Zenon DEF TInv, References
  <2>3. Counted'
    BY <1>1, <1>3, <1>11, <2>1, Zenon DEF TInv, Counted
  <2> QED BY <2>2, <2>3
<1> QED BY <1>12, <1>13, <1>14, <1>15, <1>16, <1>17, Zenon DEF TInv

(* As many elements of a finite set as it has, without repetition.         *)
Injected(S, a, n) ==
    \E f \in [a .. n - 1 -> S] : \A i, j \in a .. n - 1 : i # j => f[i] # f[j]

LEMMA Injections ==
    ASSUME NEW S, IsFiniteSet(S), NEW a \in Nat, NEW n \in Nat, n - a <= Cardinality(S)
    PROVE  Injected(S, a, n)
<1> DEFINE c == Cardinality(S)
<1>1. c \in Nat /\ ExistsBijection(1 .. c, S)
  BY FS_CardinalityType
<1>2. PICK g \in Bijection(1 .. c, S) : TRUE
  BY <1>1 DEF ExistsBijection
<1>3. g \in [1 .. c -> S] /\ \A i, j \in 1 .. c : g[i] = g[j] => i = j
  BY <1>2 DEF Bijection, Injection, IsInjective
<1>4. n - a <= c
  OBVIOUS
<1> HIDE DEF c
<1> DEFINE f == [i \in a .. n - 1 |-> g[i - a + 1]]
<1>5. \A i \in a .. n - 1 : i - a + 1 \in 1 .. c
  BY <1>1, <1>4
<1>6. f \in [a .. n - 1 -> S]
  BY <1>3, <1>5
<1>7. \A i, j \in a .. n - 1 : i # j => f[i] # f[j]
  <2> SUFFICES ASSUME NEW i \in a .. n - 1, NEW j \in a .. n - 1, f[i] = f[j] PROVE i = j
    OBVIOUS
  <2>1. g[i - a + 1] = g[j - a + 1]
    OBVIOUS
  <2>2. i - a + 1 = j - a + 1
    BY <1>3, <1>5, <2>1
  <2> QED BY <2>2
<1> HIDE DEF f
<1> QED BY <1>6, <1>7 DEF Injected

(* Where setup_blkring's new tables begin.                                 *)
OldRing == IF segs.len = 0 THEN 0 ELSE size

(* There are twice as many tables as entries: one for each slot and one    *)
(* for each request that waits to be recovered.                            *)
LEMMA RoomForTables ==
    ASSUME WInv, TInv, xb = "wait", NEW n \in 1 .. MaxRing
    PROVE  \E f \in [OldRing .. n - 1 -> Tables \ live] :
               \A i, j \in OldRing .. n - 1 : i # j => f[i] # f[j]
<1>1. /\ size \in 0 .. MaxRing /\ MaxRing \in Nat /\ OldRing \in Nat /\ n \in Nat /\ n <= MaxRing
  BY Sizes DEF WInv, Numbers, OldRing
<1>2. Slots \subseteq 0 .. OldRing - 1
  <2>1. \A i \in Slots : i < segs.len /\ i < size
    BY DEF TInv, InSlots
  <2>2. Slots \subseteq Ids /\ Ids \subseteq Nat /\ segs.len \in Nat
    BY IdsAre DEF Slots, TInv, Values
  <2>3. \A i \in Slots : i < OldRing /\ i \in Nat
    BY <2>1, <2>2 DEF OldRing
  <2> QED BY <1>1, <2>3
<1>3. IsFiniteSet(Slots) /\ Cardinality(Slots) <= OldRing /\ Cardinality(Slots) \in Nat
  <2>1. IsFiniteSet(0 .. OldRing - 1) /\ Cardinality(0 .. OldRing - 1) = IF 0 > OldRing - 1 THEN 0 ELSE OldRing - 1 - 0 + 1
    BY <1>1, FS_Interval
  <2>2. Cardinality(0 .. OldRing - 1) = OldRing
    BY <1>1, <2>1
  <2>3. IsFiniteSet(Slots) /\ Cardinality(Slots) <= Cardinality(0 .. OldRing - 1)
    BY <1>2, <2>1, FS_Subset
  <2> QED BY <2>2, <2>3, FS_CardinalityType
<1>4. IsFiniteSet(SlotTables) /\ Cardinality(SlotTables) <= Cardinality(Slots)
  <2> DEFINE f == [i \in Slots |-> segs.at[i]]
  <2>1. f \in Surjection(Slots, SlotTables)
    BY DEF SlotTables, Surjection
  <2> QED BY <1>3, <2>1, FS_Surjection
<1>5. IsFiniteSet(Kepts) /\ Cardinality(Kepts) \in Nat /\ Cardinality(Kepts) <= MaxRing
  <2>1. IsFiniteSet(Kepts) /\ Cardinality(Kepts) \in Nat /\ Cardinality(Inds) \in Nat
    BY FiniteSets, Zenon DEF WInv, Sequences, Numbers, Counts
  <2>2. Cardinality(Inds) + Cardinality(Kepts) <= MaxRing
    BY DEF TInv, Counted
  <2> QED BY <1>1, <2>1, <2>2
<1>6. IsFiniteSet(TablesOf(Kepts)) /\ Cardinality(TablesOf(Kepts)) <= Cardinality(Kepts)
  <2> DEFINE f == [e \in Kepts |-> e.table]
  <2>1. f \in Surjection(Kepts, TablesOf(Kepts))
    BY DEF TablesOf, Surjection
  <2> QED BY <1>5, <2>1, FS_Surjection
<1>7. /\ IsFiniteSet(SlotTables \cup TablesOf(Kepts))
      /\ Cardinality(SlotTables \cup TablesOf(Kepts)) <= Cardinality(SlotTables) + Cardinality(TablesOf(Kepts))
      /\ Cardinality(SlotTables) \in Nat /\ Cardinality(TablesOf(Kepts)) \in Nat
      /\ Cardinality(SlotTables \cup TablesOf(Kepts)) \in Nat
  BY <1>4, <1>6, TwoSets
<1>8. Cardinality(live) <= Cardinality(SlotTables \cup TablesOf(Kepts)) /\ IsFiniteSet(live)
  BY <1>7, FS_Subset DEF TInv, InList
<1>9. Cardinality(live) \in Nat /\ Cardinality(live) <= OldRing + MaxRing
  <2>1. Cardinality(live) \in Nat
    BY <1>8, FS_CardinalityType
  <2> QED BY <1>1, <1>3, <1>4, <1>5, <1>6, <1>7, <1>8, <2>1
<1>10. IsFiniteSet(Tables \ live) /\ n - OldRing <= Cardinality(Tables \ live)
  <2>1. IsFiniteSet(Tables) /\ Cardinality(Tables) = 2 * MaxRing
    BY TableNames
  <2>2. IsFiniteSet(Tables \ live)
    BY <2>1, FS_Subset
  <2>3. /\ Cardinality(live \cup (Tables \ live)) = Cardinality(live) + Cardinality(Tables \ live)
        /\ Cardinality(Tables \ live) \in Nat
    <3>1. live \cap (Tables \ live) = {}
      OBVIOUS
    <3> QED BY <1>8, <2>2, <3>1, TwoSets
  <2>4. live \cup (Tables \ live) = Tables
    BY DEF TInv, Values
  <2> QED BY <1>1, <1>9, <2>1, <2>2, <2>3, <2>4
<1>11. PICK S, a : S = Tables \ live /\ a = OldRing
  OBVIOUS
<1>12. IsFiniteSet(S) /\ a \in Nat /\ n \in Nat /\ n - a <= Cardinality(S)
  BY <1>1, <1>10, <1>11, Zenon
<1>13. Injected(S, a, n)
  BY <1>12, Injections, Zenon
<1> QED BY <1>11, <1>13, Zenon DEF Injected

(* What lies below a bound and not in an interval up to it.                *)
LEMMA IdsBelow ==
    ASSUME NEW O \in Nat, NEW n \in Nat, n > 0, n <= MaxRing
    PROVE  /\ \A i \in O .. n - 1 : i \in Ids
           /\ \A i \in 0 .. n - 1 : i \in Ids /\ i \in Nat /\ (i \notin O .. n - 1 => i < O)
BY Sizes DEF Ids

LEMMA SetupTables ==
    ASSUME CInv, WInv, TInv, Setup
    PROVE  TInv'
<1> DEFINE at == segs.at N == size' O == OldRing
<1>1. /\ xb = "wait" /\ old' = size /\ size' = backend.kind.ring
      /\ maxSegs' = IF backend.kind.indirect THEN MaxChunks ELSE 1
      /\ IF maxSegs' > 1 THEN NewTables(size') ELSE UNCHANGED <<segs, live>>
      /\ frames' = IF frames = "none" THEN "live" ELSE frames
      /\ \/ connected = "DISCONNECTED" /\ xb' = "initialised"
         \/ connected = "SUSPENDED" /\ xb' = "recover"
      /\ UNCHANGED <<shadow, resume_list, resume_split, contents, batch, sent, answers, written>>
      /\ UNCHANGED <<queue, result, lock, pool, others, connected, keep, limit, backend, migrations>>
  BY DEF Setup, io, ring, rec, mem, env
<1>2. /\ segs \in [len : 0 .. MaxRing, at : [Ids -> Tables \cup {NoTable}]]
      /\ at \in [Ids -> Tables \cup {NoTable}] /\ live \subseteq Tables
      /\ contents \in [Tables -> [req : Reqs \cup {NoReq}, from : 0 .. MaxChunks]]
      /\ NoTable \notin Tables /\ MaxChunks \in Nat /\ MaxChunks > 0
  BY TableNames, Sizes DEF TInv, Values
<1>3. backend.kind \in Backends /\ backend.kind.ring \in 1 .. MaxRing /\ size \in 0 .. MaxRing
      /\ backend.kind.indirect \in BOOLEAN /\ MaxRing \in Nat
  <2>1. backend.kind \in Backends /\ size \in 0 .. MaxRing
    BY DEF WInv, Numbers
  <2> QED BY <2>1, Sizes, BlkAssumption
<1>4. PICK n : n = size' /\ n \in 1 .. MaxRing
  BY <1>1, <1>3
<1>5. O \in Nat /\ (segs.len = 0 => O = 0) /\ (segs.len # 0 => O = size)
  BY <1>3 DEF OldRing
<1> HIDE DEF O
<1>23. /\ \A i \in O .. n - 1 : i \in Ids
       /\ \A i \in 0 .. n - 1 : i \in Ids /\ i \in Nat /\ (i \notin O .. n - 1 => i < O)
  <2>1. n \in Nat /\ n > 0 /\ n <= MaxRing
    BY <1>3, <1>4
  <2> QED BY <1>5, <2>1, IdsBelow
<1>6. /\ \A i, j \in Slots : i # j => at[i] # at[j]
      /\ \A i \in Slots : at[i] \in live /\ i < segs.len /\ i < size
      /\ \A i \in Inds : i \in Slots /\ contents[at[i]] = Whole(shadow[i].req)
  BY <1>1 DEF TInv, InSlots
<1>7. Slots \subseteq Ids /\ Ids \subseteq Nat /\ segs.len \in 0 .. MaxRing /\ Slots \cap (O .. n - 1) = {}
  <2>1. Slots \subseteq Ids /\ Ids \subseteq Nat /\ segs.len \in 0 .. MaxRing
    BY <1>2, IdsAre DEF Slots
  <2>2. \A i \in Slots : i \in Nat /\ i < O
    BY <1>5, <1>6, <2>1
  <2> QED BY <1>5, <2>1, <2>2
<1>8. PICK t : /\ t \in [O .. n - 1 -> Tables \ live] /\ \A i, j \in O .. n - 1 : i # j => t[i] # t[j]
               /\ \/ /\ maxSegs' > 1
                     /\ segs' = [len |-> IF O < n THEN n ELSE segs.len,
                                 at  |-> [i \in Ids |-> IF i \in O .. n - 1 THEN t[i] ELSE at[i]]]
                     /\ live' = live \cup {t[i] : i \in O .. n - 1}
                  \/ ~(maxSegs' > 1) /\ UNCHANGED <<segs, live>>
  <2>1. \E f \in [O .. n - 1 -> Tables \ live] : \A i, j \in O .. n - 1 : i # j => f[i] # f[j]
    BY <1>1, <1>4, RoomForTables DEF O
  <2> DEFINE t == CHOOSE f \in [O .. n - 1 -> Tables \ live] :
                      \A i, j \in O .. n - 1 : i # j => f[i] # f[j]
  <2>2. t \in [O .. n - 1 -> Tables \ live] /\ \A i, j \in O .. n - 1 : i # j => t[i] # t[j]
    BY <2>1
  <2>3. maxSegs' > 1 => NewTables(n)
    BY <1>1, <1>4
  <2>4. NewTables(n) => /\ segs' = [len |-> IF O < n THEN n ELSE segs.len,
                                    at  |-> [i \in Ids |-> IF i \in O .. n - 1 THEN t[i] ELSE at[i]]]
                        /\ live' = live \cup {t[i] : i \in O .. n - 1}
    BY Zenon DEF NewTables, O, OldRing
  <2> HIDE DEF t
  <2> QED BY <1>1, <2>2, <2>3, <2>4, Zenon
<1>9. PICK new \in SUBSET (O .. n - 1) :
          /\ \A i \in new : i \in Ids /\ segs'.at[i] = t[i]
          /\ \A i \in Ids \ new : segs'.at[i] = at[i]
          /\ live' = live \cup {t[i] : i \in new}
          /\ segs' \in [len : 0 .. MaxRing, at : [Ids -> Tables \cup {NoTable}]]
          /\ new # {} => segs'.len = n
          /\ (new = O .. n - 1 /\ maxSegs' > 1 /\ segs'.len = IF O < n THEN n ELSE segs.len)
             \/ (new = {} /\ ~(maxSegs' > 1) /\ segs' = segs)
  <2>1. CASE /\ maxSegs' > 1
             /\ segs' = [len |-> IF O < n THEN n ELSE segs.len,
                         at  |-> [i \in Ids |-> IF i \in O .. n - 1 THEN t[i] ELSE at[i]]]
             /\ live' = live \cup {t[i] : i \in O .. n - 1}
    <3> DEFINE b == [i \in Ids |-> IF i \in O .. n - 1 THEN t[i] ELSE at[i]]
    <3>1. b \in [Ids -> Tables \cup {NoTable}]
      BY <1>2, <1>8
    <3>2. \A i \in O .. n - 1 : i \in Ids
      BY <1>23, Zenon
    <3>3. /\ \A i \in O .. n - 1 : b[i] = t[i]
          /\ \A i \in Ids \ (O .. n - 1) : b[i] = at[i]
      BY <3>2
    <3>4. segs'.at = b /\ segs'.len = IF O < n THEN n ELSE segs.len
      BY <2>1
    <3> HIDE DEF b
    <3>5. segs' \in [len : 0 .. MaxRing, at : [Ids -> Tables \cup {NoTable}]]
      <4>1. segs' = [len |-> segs'.len, at |-> b] /\ segs'.len \in 0 .. MaxRing
        <5>1. segs' = [len |-> segs'.len, at |-> b]
          BY <2>1 DEF b
        <5>2. segs'.len \in 0 .. MaxRing
          BY <1>3, <1>4, <1>7, <3>4
        <5> QED BY <5>1, <5>2
      <4> QED BY <3>1, <4>1
    <3>6. O .. n - 1 # {} => O < n
      BY <1>4, <1>5
    <3>7. O .. n - 1 # {} => segs'.len = n
      BY <3>4, <3>6
    <3> QED BY <2>1, <3>2, <3>3, <3>4, <3>5, <3>7
  <2>2. CASE ~(maxSegs' > 1) /\ UNCHANGED <<segs, live>>
    BY <1>2, <2>2
  <2> QED BY <1>8, <2>1, <2>2
<1>10. \A i \in new : t[i] \in Tables \ live /\ i \notin Slots /\ i < n /\ i \in Ids
  BY <1>5, <1>7, <1>8, <1>9
<1>11. /\ \A i \in Slots : i \in Ids \ new /\ segs'.at[i] = at[i]
       /\ Slots' = Slots \cup new
  <2>1. \A i \in Slots : i \in Ids \ new
    BY <1>7, <1>10
  <2>2. Slots' = {i \in Ids : segs'.at[i] # NoTable}
    BY DEF Slots
  <2>3. \A i \in Ids : segs'.at[i] # NoTable <=> i \in Slots \/ i \in new
    BY <1>2, <1>9, <1>10 DEF Slots
  <2> QED BY <1>7, <1>9, <1>10, <2>1, <2>2, <2>3
<1>12. /\ Listed' = Listed /\ Kepts' = Kepts /\ Splitting' = Splitting /\ SplitIds' = SplitIds
       /\ Inds' = Inds /\ BusyIds' = BusyIds /\ shadow' = shadow /\ Ringed' = Ringed /\ ToCome' = ToCome
  BY <1>1, ListNames, SplitNames, EntryNames, RingedSame, Zenon DEF ToCome
<1>13. live \subseteq live' /\ live' \subseteq Tables
  BY <1>2, <1>9, <1>10
<1>14. Values'
  <2>1. xb' \in {"probe", "wait", "initialised", "connecting", "idle", "resume", "flush",
                 "recover", "kick", "surplus"}
        /\ maxSegs' \in 0 .. MaxChunks /\ frames' \in {"none", "live", "freed"}
    BY <1>1, <1>2 DEF TInv, Values
  <2> QED BY <1>1, <1>9, <1>13, <2>1, Zenon DEF TInv, Values
<1>15. /\ segs'.len > 0 => n <= segs'.len /\ MaxChunks > 1
       /\ maxSegs' > 1 => segs'.len > 0
       /\ segs'.len = 0 => segs.len = 0
       /\ segs'.len > 0 /\ ~backend.kind.indirect => segs.len = segs'.len
  <2>1. segs.len > 0 => size <= segs.len /\ MaxChunks > 1
    BY DEF TInv, Keeping
  <2>2. segs.len > 0 /\ ~backend.kind.indirect => backend.kind.ring <= segs.len
    BY DEF TInv, Keeping
  <2>3. CASE maxSegs' > 1 /\ segs'.len = IF O < n THEN n ELSE segs.len
    <3>1. backend.kind.indirect /\ MaxChunks > 1
      BY <1>1, <1>2, <2>3
    <3> QED BY <1>3, <1>4, <1>5, <1>7, <2>1, <2>3, <3>1
  <2>4. CASE ~(maxSegs' > 1) /\ segs' = segs
    <3>1. backend.kind.indirect => ~(MaxChunks > 1)
      BY <1>1, <2>4
    <3> QED BY <1>1, <1>4, <1>7, <2>1, <2>2, <2>4, <3>1
  <2> QED BY <1>9, <2>3, <2>4
<1>16. Keeping'
  <2>1. segs.len > 0 /\ ~backend.kind.indirect => backend.kind.ring <= segs.len /\ ~ToCome
    BY DEF TInv, Keeping
  <2> QED BY <1>1, <1>4, <1>12, <1>15, <2>1 DEF Keeping
<1>17. Copies'
  <2>1. written \subseteq written'
    BY <1>1
  <2> QED BY <1>1, <2>1, CopiesSame, Zenon DEF TInv
<1>18. InSlots'
  <2>1. \A i \in Inds' : i \in Slots' /\ contents'[segs'.at[i]] = Whole(shadow'[i].req)
    BY <1>1, <1>6, <1>11, <1>12
  <2>2. \A i, j \in Slots' : i # j => segs'.at[i] # segs'.at[j]
    <3> SUFFICES ASSUME NEW i \in Slots \cup new, NEW j \in Slots \cup new, i # j
                 PROVE  segs'.at[i] # segs'.at[j]
      BY <1>11
    <3>1. CASE i \in Slots /\ j \in Slots
      BY <1>6, <1>11, <3>1
    <3>2. CASE i \in new /\ j \in new
      BY <1>8, <1>9, <3>2
    <3>3. CASE i \in Slots /\ j \in new
      BY <1>6, <1>9, <1>10, <1>11, <3>3
    <3>4. CASE i \in new /\ j \in Slots
      BY <1>6, <1>9, <1>10, <1>11, <3>4
    <3> QED BY <3>1, <3>2, <3>3, <3>4
  <2>3. \A i \in Slots' : segs'.at[i] \in live'
    BY <1>6, <1>9, <1>11, <1>13
  <2>4. ASSUME NEW i \in Slots' PROVE i < segs'.len /\ (i < size' \/ (xb' \in {"recover", "kick", "surplus"} /\ i < old'))
    <3>1. CASE i \in Slots
      <4>1. segs.len > 0 /\ i < size /\ i < segs.len /\ i \in Nat
        <5>1. i < size /\ i < segs.len /\ i \in Nat /\ segs.len \in 0 .. MaxRing
          BY <1>6, <1>7, <3>1
        <5> QED BY <1>3, <5>1
      <4>2. connected # "DISCONNECTED"
        BY <1>1, <4>1 DEF TInv, Keeping
      <4>3. segs'.len = segs.len \/ (segs'.len = n /\ O < n /\ O = size)
        BY <1>5, <1>9, <4>1
      <4>4. i < segs'.len
        BY <1>3, <1>4, <4>1, <4>3
      <4> QED BY <1>1, <4>1, <4>2, <4>4
    <3>2. CASE i \in new
      BY <1>4, <1>9, <1>10, <3>2
    <3> QED BY <1>11, <3>1, <3>2
  <2>5. \A i \in Slots' : i < segs'.len /\ (i < size' \/ (xb' \in {"recover", "kick", "surplus"} /\ i < old'))
    BY <2>4
  <2> QED BY <2>1, <2>2, <2>3, <2>5, Zenon DEF InSlots
<1>19. InList'
  <2>1. /\ \A x \in Kepts : x.table \in live /\ contents[x.table] = Whole(x.req)
        /\ \A x, y \in Kepts : x.table = y.table => x = y
        /\ SlotTables \cap TablesOf(Kepts) = {}
        /\ live \subseteq SlotTables \cup TablesOf(Kepts)
    BY Zenon DEF TInv, InList
  <2> DEFINE fresh == {t[i] : i \in new}
  <2>2. SlotTables' = SlotTables \cup fresh
    <3>1. SlotTables' = {segs'.at[i] : i \in Slots \cup new}
      BY <1>11 DEF SlotTables
    <3>2. \A i \in Slots : segs'.at[i] = segs.at[i]
      BY <1>11, Zenon
    <3>3. \A i \in new : segs'.at[i] = t[i]
      BY <1>9, Zenon
    <3> QED BY <3>1, <3>2, <3>3 DEF SlotTables
  <2>3. TablesOf(Kepts) \subseteq live
    BY <2>1 DEF TablesOf
  <2>4. fresh \cap live = {} /\ live' = live \cup fresh
    BY <1>9, <1>10
  <2> HIDE DEF fresh
  <2>5. SlotTables' \cap TablesOf(Kepts) = {} /\ live' \subseteq SlotTables' \cup TablesOf(Kepts)
    BY <2>1, <2>2, <2>3, <2>4
  <2>6. \A x \in Kepts : x.table \in live' /\ contents'[x.table] = Whole(x.req)
    BY <1>1, <1>13, <2>1
  <2> QED BY <1>12, <2>1, <2>5, <2>6, Zenon DEF InList, TablesOf
<1>20. OnWire'
  <2>1. \A i \in Inds : segs'.at[i] = segs.at[i]
    BY <1>6, <1>11
  <2>2. ASSUME NEW m \in Ringed PROVE Serves(m)'
    <3>1. Serves(m) /\ m.id \in Ids
      BY DEF TInv, OnWire, Serves
    <3>2. shadow[m.id].op = "indirect" => segs'.at[m.id] = segs.at[m.id]
      BY <2>1, <3>1 DEF Inds
    <3> QED BY <1>12, <3>1, <3>2, ServesOn, Zenon
  <2>3. ASSUME NEW a \in ToSet(answers), a.ok PROVE Served(a.id)'
    <3>1. Served(a.id) /\ written \subseteq written'
      BY <1>1, <2>3 DEF TInv, OnWire
    <3> QED BY <1>12, <3>1, ServedOn, Zenon
  <2>4. answers' = answers
    BY <1>1
  <2> QED BY <1>12, <2>2, <2>3, <2>4, Zenon DEF OnWire
<1>21. ToCome /\ segs'.len > 0 => Cardinality(Vacant') <= Cardinality(Kepts)
  <2> SUFFICES ASSUME ToCome, segs'.len > 0 PROVE Cardinality(Vacant') <= Cardinality(Kepts)
    OBVIOUS
  <2>1. backend.kind.indirect /\ MaxChunks > 1
    BY <1>15 DEF TInv, Keeping
  <2>2. maxSegs' > 1 /\ new = O .. n - 1
    BY <1>1, <1>9, <2>1
  <2>3. ASSUME NEW i \in 0 .. n - 1, segs'.at[i] = NoTable PROVE i < O /\ at[i] = NoTable /\ i \in Nat
    <3>1. i \in Ids
      BY <1>23, <2>3, Zenon
    <3>2. i \notin new
      BY <1>2, <1>9, <1>10, <2>3
    <3>3. i < O /\ i \in Nat
      BY <1>23, <2>2, <2>3, <3>2, Zenon
    <3> QED BY <1>9, <2>3, <3>1, <3>2, <3>3
  <2>4. Vacant' = {i \in 0 .. n - 1 : segs'.at[i] = NoTable}
    BY <1>4 DEF Vacant
  <2>5. \A i \in Vacant' : i < O /\ at[i] = NoTable /\ i \in Nat
    BY <2>3, <2>4
  <2>6. CASE segs.len = 0
    <3>1. Vacant' = {}
      BY <1>5, <2>5, <2>6
    <3>2. Cardinality(Vacant') = 0
      BY <3>1, FS_EmptySet
    <3>3. Cardinality(Kepts) \in Nat
      BY FiniteSets, Zenon DEF WInv, Sequences, Numbers, Counts
    <3> QED BY <3>2, <3>3
  <2>7. CASE segs.len # 0
    <3>1. Vacant' \subseteq Vacant
      BY <1>3, <1>5, <2>5, <2>7 DEF Vacant
    <3>2. IsFiniteSet(Vacant) /\ Cardinality(Vacant) \in Nat /\ Cardinality(Kepts) \in Nat
      BY FiniteSets, Zenon DEF WInv, Sequences, Numbers, Counts
    <3>3. Cardinality(Vacant') <= Cardinality(Vacant) /\ Cardinality(Vacant') \in Nat
      BY <3>1, <3>2, FS_Subset, FS_CardinalityType
    <3>4. Cardinality(Vacant) <= Cardinality(Kepts)
      BY <1>7, <2>7 DEF TInv, Counted
    <3> QED BY <3>2, <3>3, <3>4
  <2> QED BY <2>6, <2>7
<1>22. References' /\ Counted'
  <2>1. References'
    BY <1>1, <1>12, Zenon DEF TInv, References
  <2>2. Counted'
    BY <1>12, <1>15, <1>21, Zenon DEF TInv, Counted
  <2> QED BY <2>1, <2>2
<1> QED BY <1>14, <1>16, <1>17, <1>18, <1>19, <1>20, <1>22, Zenon DEF TInv
-----------------------------------------------------------------------------
(* blkif_recover.                                                          *)

CopyOf(i) == Entry(i, shadow[i], IF shadow[i].op = "indirect" THEN segs.at[i] ELSE NoTable)
AllCopies   == {CopyOf(i) : i \in BusyIds}
LongCopies   == {CopyOf(i) : i \in Inds}

LEMMA CopyIs ==
    ASSUME TInv, NEW i \in BusyIds
    PROVE  /\ CopyOf(i).id = i /\ CopyOf(i).op = shadow[i].op /\ CopyOf(i).req = shadow[i].req
           /\ CopyOf(i).table = IF shadow[i].op = "indirect" THEN segs.at[i] ELSE NoTable
           /\ Remains(CopyOf(i), written) /\ i \in Ids
<1>1. /\ CopyOf(i).id = i /\ CopyOf(i).op = shadow[i].op /\ CopyOf(i).req = shadow[i].req
      /\ CopyOf(i).n = shadow[i].n /\ CopyOf(i).chunk = shadow[i].chunk
      /\ CopyOf(i).table = IF shadow[i].op = "indirect" THEN segs.at[i] ELSE NoTable
  BY DEF CopyOf, Entry
<1>2. i \in Ids /\ shadow[i].req # NoReq
  BY DEF BusyIds
<1>3. Remains(shadow[i], written)
  <2>1. shadow[i] = Empty \/ Remains(shadow[i], written)
    BY <1>2, Zenon DEF TInv, Copies
  <2>2. Empty.req = NoReq
    BY DEF Empty, Copy
  <2> QED BY <1>2, <2>1, <2>2
<1>4. Remains(CopyOf(i), written)
  BY <1>1, <1>3 DEF Remains
<1> QED BY <1>1, <1>2, <1>4

(* resume_list gets the copies of the entries in use.                      *)
LEMMA RecoverList ==
    ASSUME CInv, WInv, Recover
    PROVE  Listed' = Listed \cup AllCopies
<1> DEFINE Copied == [k \in DOMAIN InUse |->
                          LET i == InUse[k]
                          IN  Entry(i, shadow[i], IF shadow[i].op = "indirect" THEN segs.at[i] ELSE NoTable)]
<1>1. xb = "recover" /\ resume_list' = resume_list \o Copied
  BY DEF Recover
<1>2. old \in Nat /\ old <= MaxRing /\ MaxRing \in Nat
  BY Sizes DEF WInv, Numbers
<1>3. Used = BusyIds /\ Used \subseteq Nat /\ IsFiniteSet(Used)
  <2>1. BusyIds \subseteq 0 .. old - 1
    BY <1>1 DEF WInv, Entries
  <2>2. 0 .. old - 1 \subseteq Ids
    BY <1>2, IdsAre
  <2>3. Used = BusyIds
    BY <2>1, <2>2 DEF Used, BusyIds
  <2>4. IsFiniteSet(0 .. old - 1)
    BY <1>2, FS_Interval
  <2>5. Used \subseteq 0 .. old - 1
    BY <2>1, <2>3
  <2>6. IsFiniteSet(Used)
    BY <2>4, <2>5, FS_Subset
  <2>7. 0 .. old - 1 \subseteq Nat
    BY <1>2
  <2> QED BY <2>3, <2>5, <2>6, <2>7
<1> DEFINE n == Cardinality(Used)
<1>4. n \in Nat /\ InUse \in [1 .. n -> Used] /\ \A i \in Used : \E k \in 1 .. n : InUse[k] = i
  <2> DEFINE f == InUse
  <2>1. f = Ranked(Used)
    BY Zenon DEF InUse, Ranked
  <2> HIDE DEF f
  <2>2. Enumerates(f, Used)
    BY <1>3, <2>1, Ranks, Zenon
  <2> QED BY <2>2, Zenon DEF f, Enumerates
<1> HIDE DEF n
<1>5. DOMAIN InUse = 1 .. n /\ \A k \in 1 .. n : InUse[k] \in Used
  BY <1>4
<1>6. /\ Copied = [k \in 1 .. n |-> Copied[k]] /\ DOMAIN Copied = 1 .. n
      /\ \A k \in 1 .. n : Copied[k] = CopyOf(InUse[k])
  BY <1>5 DEF CopyOf
<1> HIDE DEF Copied
<1>7. IsSeq(Copied)
  BY <1>4, <1>6, FunctionIs
<1>8. ToSet(Copied) = AllCopies
  <2>1. ToSet(Copied) = {Copied[k] : k \in 1 .. n}
    BY <1>6 DEF ToSet
  <2>2. \A k \in 1 .. n : Copied[k] \in AllCopies
    BY <1>3, <1>5, <1>6 DEF AllCopies
  <2>3. ASSUME NEW i \in BusyIds PROVE \E k \in 1 .. n : Copied[k] = CopyOf(i)
    <3>1. PICK k \in 1 .. n : InUse[k] = i
      BY <1>3, <1>4
    <3> QED BY <1>6, <3>1
  <2> QED BY <2>1, <2>2, <2>3 DEF AllCopies
<1>9. ToSet(resume_list') = ToSet(resume_list) \cup ToSet(Copied)
  BY <1>1, <1>7, ConcatIs, Zenon DEF WInv, Sequences, Both
<1> QED BY <1>8, <1>9 DEF Listed

LEMMA RecoveredRefs ==
    ASSUME NEW p \in Nat, NEW o \in Nat, NEW g \in Nat, NEW b \in Nat, NEW l \in Nat,
           NEW i \in Nat, NEW k \in Nat, p + o + b + l + 2 * (i + k) <= g,
           NEW m \in Nat, m <= l + b
    PROVE  p + o + 0 + m + 2 * (0 + (k + i)) <= g
OBVIOUS

LEMMA RecoverTables ==
    ASSUME CInv, WInv, TInv, Recover
    PROVE  TInv'
<1> DEFINE at == segs.at
           b == [i \in Ids |-> IF i < old /\ shadow[i].op = "indirect" THEN NoTable ELSE at[i]]
<1>1. /\ xb = "recover" /\ xb' = "kick" /\ segs' = [segs EXCEPT !.at = b]
      /\ shadow' = [i \in Ids |-> IF i < old THEN Empty ELSE shadow[i]]
      /\ UNCHANGED <<live, contents, resume_split, size, old, batch, sent, answers, written>>
      /\ UNCHANGED <<queue, result, lock, pool, others, connected, keep, limit, maxSegs, frames, backend, migrations>>
  BY DEF Recover, io, ring, mem, env
<1>2. /\ segs \in [len : 0 .. MaxRing, at : [Ids -> Tables \cup {NoTable}]]
      /\ at \in [Ids -> Tables \cup {NoTable}] /\ live \subseteq Tables
      /\ NoTable \notin Tables /\ NoReq \notin Reqs
  BY TableNames DEF TInv, Values
<1>3. Inds \subseteq BusyIds /\ BusyIds \subseteq 0 .. old - 1 /\ BusyIds \subseteq Ids
  <2>1. Inds \subseteq BusyIds
    <3> SUFFICES ASSUME NEW i \in Ids, shadow[i].op = "indirect" PROVE shadow[i].req # NoReq
      BY DEF Inds, BusyIds
    <3>1. shadow[i] = Empty \/ Remains(shadow[i], written)
      BY Zenon DEF TInv, Copies
    <3>2. Empty.op # "indirect"
      BY DEF Empty, Copy
    <3> QED BY <3>1, <3>2, <1>2 DEF Remains
  <2> QED BY <1>1, <2>1 DEF WInv, Entries, BusyIds
<1>4. \A i \in Inds : i < old
  <2>1. old \in Nat
    BY DEF WInv, Numbers
  <2> QED BY <1>3, <2>1
<1>5. /\ \A i \in Inds : b[i] = NoTable
      /\ \A i \in Ids \ Inds : b[i] = at[i]
      /\ b \in [Ids -> Tables \cup {NoTable}]
  <2>1. Inds \subseteq Ids
    BY <1>3
  <2>2. \A i \in Ids : i \in Inds <=> shadow[i].op = "indirect"
    BY DEF Inds
  <2>3. \A i \in Ids : b[i] = IF i < old /\ shadow[i].op = "indirect" THEN NoTable ELSE at[i]
    OBVIOUS
  <2>4. b \in [Ids -> Tables \cup {NoTable}]
    BY <1>2
  <2> HIDE DEF b
  <2> QED BY <1>4, <2>1, <2>2, <2>3, <2>4
<1> HIDE DEF b
<1>6. /\ segs' \in [len : 0 .. MaxRing, at : [Ids -> Tables \cup {NoTable}]]
      /\ segs'.len = segs.len /\ segs'.at = b
  BY <1>1, <1>2, <1>5
<1>7. /\ \A i, j \in Slots : i # j => at[i] # at[j]
      /\ \A i \in Slots : at[i] \in live /\ i < segs.len /\ (i < size \/ i < old)
      /\ \A i \in Inds : i \in Slots /\ contents[at[i]] = Whole(shadow[i].req)
  BY DEF TInv, InSlots
<1>8. Slots' = Slots \ Inds /\ \A i \in Slots' : segs'.at[i] = at[i]
  <2>1. \A i \in Ids : b[i] # NoTable <=> at[i] # NoTable /\ i \notin Inds
    BY <1>5
  <2>2. Slots' = {i \in Ids : b[i] # NoTable}
    BY <1>6 DEF Slots
  <2>3. Slots' = Slots \ Inds
    BY <2>1, <2>2 DEF Slots
  <2> QED BY <1>5, <1>6, <2>2, <2>3
<1>9. \A i \in Ids : shadow'[i] = Empty
  <2> SUFFICES ASSUME NEW i \in Ids PROVE shadow'[i] = Empty
    OBVIOUS
  <2>1. shadow'[i] = IF i < old THEN Empty ELSE shadow[i]
    BY <1>1
  <2>2. CASE i < old
    BY <2>1, <2>2
  <2>3. CASE ~(i < old)
    <3>1. old \in Nat
      BY DEF WInv, Numbers
    <3>2. i \notin BusyIds
      BY <1>3, <2>3, <3>1
    <3>3. shadow[i].req = NoReq
      BY <3>2 DEF BusyIds
    <3>4. shadow[i] = Empty \/ Remains(shadow[i], written)
      BY Zenon DEF TInv, Copies
    <3>5. ~Remains(shadow[i], written)
      BY <1>2, <3>3 DEF Remains
    <3> QED BY <2>1, <2>3, <3>4, <3>5
  <2> QED BY <2>2, <2>3
<1>10. BusyIds' = {} /\ Inds' = {} /\ Ringed' = {} /\ ToSet(answers') = {} /\ Splitting' = {}
  <2>1. Empty.req = NoReq /\ Empty.op # "indirect" 
    BY DEF Empty, Copy
  <2>2. BusyIds' = {} /\ Inds' = {}
    BY <1>9, <2>1 DEF BusyIds, Inds
  <2>3. connected = "SUSPENDED" /\ resume_split = <<>>
    BY <1>1 DEF CInv, Control, WInv, Phases
  <2>4. OnRing = {}
    BY <1>1, <2>3 DEF WInv, Entries
  <2>5. ToSet(batch) = {} /\ sent = {} /\ ToSet(answers) = {}
    BY <2>4 DEF OnRing, IdsOf, SentIds, ToSet
  <2>6. Splitting = {}
    BY <2>3, EmptyIs DEF Splitting
  <2> QED BY <1>1, <2>2, <2>5, <2>6, SplitNames DEF Ringed
<1>11. ToCome' = ToCome
  BY <1>1, Zenon DEF ToCome
<1>12. Listed' = Listed \cup AllCopies /\ Kepts' = Kepts \cup LongCopies
  <2>1. Listed' = Listed \cup AllCopies
    BY RecoverList
  <2>2. \A i \in BusyIds : CopyOf(i).op = "indirect" <=> i \in Inds
    BY <1>3, CopyIs DEF Inds
  <2>3. LongCopies = {e \in AllCopies : e.op = "indirect"}
    BY <1>3, <2>2 DEF AllCopies, LongCopies
  <2> QED BY <2>1, <2>3 DEF Kepts
<1>13. \A i \in Inds : /\ CopyOf(i).table = at[i] /\ CopyOf(i).req = shadow[i].req /\ CopyOf(i).id = i
                       /\ Remains(CopyOf(i), written)
  BY <1>3, CopyIs DEF Inds
<1>14. Values'
  <2>1. xb' \in {"probe", "wait", "initialised", "connecting", "idle", "resume", "flush",
                 "recover", "kick", "surplus"}
    BY <1>1
  <2> QED BY <1>1, <1>6, <2>1, Zenon DEF TInv, Values
<1>15. Keeping'
  BY <1>1, <1>6, <1>11 DEF TInv, Keeping
<1>16. Copies'
  <2>1. \A x \in Listed : Remains(x, written) /\ x.id \in Ids /\ x.table \in Tables \cup {NoTable}
    BY DEF TInv, Copies
  <2>2. ASSUME NEW x \in AllCopies
        PROVE  Remains(x, written) /\ x.id \in Ids /\ x.table \in Tables \cup {NoTable}
    <3>1. PICK i \in BusyIds : x = CopyOf(i)
      BY DEF AllCopies
    <3>2. /\ CopyOf(i).id = i /\ Remains(CopyOf(i), written) /\ i \in Ids
          /\ CopyOf(i).table = IF shadow[i].op = "indirect" THEN segs.at[i] ELSE NoTable
      BY CopyIs
    <3> QED BY <1>2, <3>1, <3>2
  <2>3. \A x \in Listed' : Remains(x, written') /\ x.id \in Ids /\ x.table \in Tables \cup {NoTable}
    <3>1. \A x \in Listed' : Remains(x, written) /\ x.id \in Ids /\ x.table \in Tables \cup {NoTable}
      BY <1>12, <2>1, <2>2
    <3>2. written' = written
      BY <1>1
    <3> QED BY <3>1, <3>2, Zenon
  <2>4. \A i \in Ids : shadow'[i] = Copy(shadow'[i].req, shadow'[i].op, shadow'[i].n, shadow'[i].chunk)
    <3>1. Empty = Copy(Empty.req, Empty.op, Empty.n, Empty.chunk)
      BY DEF Empty, Copy
    <3> QED BY <1>9, <3>1, Zenon
  <2>5. \A x \in Splitting' :
           Remains(x, written') /\ x.id \in Ids /\ x.table \in Tables /\ x.op = "indirect"
    BY <1>10
  <2> QED BY <1>9, <2>3, <2>4, <2>5, Zenon DEF Copies
<1>17. InSlots'
  <2>1. \A i, j \in Slots' : i # j => segs'.at[i] # segs'.at[j]
    BY <1>7, <1>8
  <2>2. \A i \in Slots' : segs'.at[i] \in live' /\ i < segs'.len
    BY <1>1, <1>6, <1>7, <1>8
  <2>3. \A i \in Slots' : i < size' \/ (xb' \in {"recover", "kick", "surplus"} /\ i < old')
    BY <1>1, <1>7, <1>8
  <2>4. \A i \in Inds' : i \in Slots' /\ contents'[segs'.at[i]] = Whole(shadow'[i].req)
    BY <1>10
  <2> QED BY <2>1, <2>2, <2>3, <2>4, Zenon DEF InSlots
<1>18. /\ \A x \in Kepts : x.table \in live /\ contents[x.table] = Whole(x.req)
       /\ \A x, y \in Kepts : x.table = y.table => x = y
       /\ SlotTables \cap TablesOf(Kepts) = {}
       /\ live \subseteq SlotTables \cup TablesOf(Kepts)
  BY Zenon DEF TInv, InList
<1>19. \A i \in Inds : at[i] \in SlotTables /\ i \in Slots
  BY <1>7 DEF SlotTables
<1>20. ASSUME NEW x \in Kepts, NEW i \in Inds PROVE x.table # CopyOf(i).table
  BY <1>13, <1>18, <1>19 DEF TablesOf
<1>21. \A i, j \in Inds : CopyOf(i).table = CopyOf(j).table => i = j
  BY <1>7, <1>13
<1>22. InList'
  <2>1. ASSUME NEW x \in Kepts' PROVE x.table \in live' /\ contents'[x.table] = Whole(x.req)
    <3>1. x.table \in live /\ contents[x.table] = Whole(x.req)
      <4>1. CASE x \in Kepts
        BY <1>18, <4>1
      <4>2. CASE x \in LongCopies
        <5>1. PICK i \in Inds : x = CopyOf(i)
          BY <4>2 DEF LongCopies
        <5>2. at[i] \in live /\ contents[at[i]] = Whole(shadow[i].req)
          BY <1>7
        <5>3. x.table = at[i] /\ x.req = shadow[i].req
          BY <1>13, <5>1
        <5> QED BY <5>2, <5>3, Zenon
      <4> QED BY <1>12, <4>1, <4>2
    <3> QED BY <1>1, <3>1
  <2>2. ASSUME NEW x \in Kepts', NEW y \in Kepts', x.table = y.table PROVE x = y
    <3>1. CASE x \in Kepts /\ y \in Kepts
      BY <1>18, <2>2, <3>1
    <3>2. CASE x \in LongCopies /\ y \in LongCopies
      BY <1>21, <2>2, <3>2 DEF LongCopies
    <3>3. CASE x \in LongCopies /\ y \in Kepts
      BY <1>20, <2>2, <3>3 DEF LongCopies
    <3>4. CASE x \in Kepts /\ y \in LongCopies
      BY <1>20, <2>2, <3>4 DEF LongCopies
    <3> QED BY <1>12, <3>1, <3>2, <3>3, <3>4
  <2> DEFINE K == TablesOf(Kepts) M == {at[i] : i \in Inds}
  <2>3. TablesOf(Kepts') = K \cup M
    <3>1. {e.table : e \in LongCopies} = M
      BY <1>13 DEF LongCopies
    <3> QED BY <1>12, <3>1 DEF TablesOf
  <2>4. SlotTables' = SlotTables \ M
    <3>1. SlotTables' = {at[i] : i \in Slots \ Inds}
      BY <1>8 DEF SlotTables
    <3>2. \A i \in Slots \ Inds : \A j \in Inds : at[i] # at[j]
      BY <1>7
    <3> QED BY <3>1, <3>2 DEF SlotTables
  <2> HIDE DEF K, M
  <2>5. /\ SlotTables' \cap (K \cup M) = {} /\ live \subseteq SlotTables' \cup (K \cup M)
    BY <1>18, <2>4 DEF K
  <2>6. SlotTables' \cap TablesOf(Kepts') = {} /\ live' \subseteq SlotTables' \cup TablesOf(Kepts')
    BY <1>1, <2>3, <2>5, Zenon
  <2>7. \A x, y \in Kepts' : x.table = y.table => x = y
    BY <2>2
  <2>8. \A x \in Kepts' : x.table \in live' /\ contents'[x.table] = Whole(x.req)
    BY <2>1
  <2>9. TablesOf(Kepts)' = TablesOf(Kepts')
    BY Zenon DEF TablesOf
  <2> QED BY <2>6, <2>7, <2>8, <2>9, Zenon DEF InList
<1>23. OnWire'
  BY <1>10, Zenon DEF OnWire
<1>24. /\ IsFiniteSet(BusyIds) /\ IsFiniteSet(Inds) /\ IsFiniteSet(Listed) /\ IsFiniteSet(Kepts)
       /\ IsFiniteSet(Vacant) /\ Counts
  BY FiniteSets, Zenon DEF WInv, Sequences, Numbers
<1>25. /\ IsFiniteSet(AllCopies) /\ Cardinality(AllCopies) <= Cardinality(BusyIds)
       /\ IsFiniteSet(LongCopies) /\ Cardinality(LongCopies) = Cardinality(Inds)
  <2> DEFINE f == [i \in BusyIds |-> CopyOf(i)] g == [i \in Inds |-> CopyOf(i)]
  <2>1. f \in Surjection(BusyIds, AllCopies)
    BY DEF AllCopies, Surjection
  <2>2. g \in Surjection(Inds, LongCopies)
    BY DEF LongCopies, Surjection
  <2>3. g \in Injection(Inds, LongCopies)
    <3>1. g \in [Inds -> LongCopies]
      BY DEF LongCopies
    <3>2. \A i, j \in Inds : g[i] = g[j] => i = j
      BY <1>21
    <3> HIDE DEF g
    <3> QED BY <3>1, <3>2 DEF Injection, IsInjective
  <2> HIDE DEF f, g
  <2>4. IsFiniteSet(AllCopies) /\ Cardinality(AllCopies) <= Cardinality(BusyIds)
    BY <1>24, <2>1, FS_Surjection
  <2>5. IsFiniteSet(LongCopies) /\ Cardinality(LongCopies) = Cardinality(Inds)
    BY <1>24, <2>2, <2>3, FS_Surjection
  <2> QED BY <2>4, <2>5
<1>26. /\ Cardinality(Listed') <= Cardinality(Listed) + Cardinality(BusyIds) /\ Cardinality(Listed') \in Nat
       /\ Cardinality(Kepts') = Cardinality(Kepts) + Cardinality(Inds)
       /\ Cardinality(BusyIds') = 0 /\ Cardinality(Inds') = 0
  <2>1. Kepts \cap LongCopies = {}
    BY <1>20 DEF LongCopies
  <2>2. /\ Cardinality(Kepts \cup LongCopies) = Cardinality(Kepts) + Cardinality(LongCopies)
    BY <1>24, <1>25, <2>1, TwoSets
  <2>3. /\ Cardinality(Listed \cup AllCopies) <= Cardinality(Listed) + Cardinality(AllCopies)
        /\ Cardinality(Listed \cup AllCopies) \in Nat /\ Cardinality(Listed) \in Nat /\ Cardinality(AllCopies) \in Nat
    BY <1>24, <1>25, TwoSets
  <2>4. Cardinality(BusyIds) \in Nat
    BY <1>24, FS_CardinalityType
  <2>5. Cardinality(Listed \cup AllCopies) <= Cardinality(Listed) + Cardinality(BusyIds)
    BY <1>25, <2>3, <2>4
  <2>6. Cardinality({}) = 0
    BY FS_EmptySet
  <2> QED BY <1>10, <1>12, <1>25, <2>2, <2>3, <2>5, <2>6, Zenon
<1>27. References'
  <2> DEFINE c == Cardinality(BusyIds) l == Cardinality(Listed) i == Cardinality(Inds)
             k == Cardinality(Kepts) m == Cardinality(Listed')
  <2>1. c \in Nat /\ l \in Nat /\ i \in Nat /\ k \in Nat /\ m \in Nat /\ m <= l + c
    BY <1>24, <1>26 DEF Counts
  <2>2. pool \in Nat /\ others \in 0 .. Others /\ others \in Nat /\ Grants \in Nat
        /\ pool + others + c + l + 2 * (i + k) <= Grants
    BY BlkAssumption DEF TInv, References
  <2> HIDE DEF c, l, i, k, m
  <2>3. pool + others + 0 + m + 2 * (0 + (k + i)) <= Grants
    BY <2>1, <2>2, RecoveredRefs
  <2>4. pool' = pool /\ others' = others
    BY <1>1
  <2> QED BY <1>26, <2>2, <2>3, <2>4, Zenon DEF References, i, k, m
<1>28. Counted'
  <2>1. /\ Cardinality(Inds) + Cardinality(Kepts) <= MaxRing
        /\ ToCome /\ segs.len > 0 => Cardinality(Vacant) <= Cardinality(Kepts)
        /\ segs.len = 0 => Kepts = {}
    BY DEF TInv, Counted
  <2>2. Cardinality(Inds) \in Nat /\ Cardinality(Kepts) \in Nat /\ Cardinality(Vacant) \in Nat
    BY <1>24 DEF Counts
  <2>3. Vacant' \subseteq Vacant \cup Inds
    <3>1. Vacant' = {i \in 0 .. size - 1 : b[i] = NoTable}
      BY <1>1, <1>6 DEF Vacant
    <3>2. 0 .. size - 1 \subseteq Ids
      BY Sizes, IdsAre DEF WInv, Numbers
    <3>3. \A i \in 0 .. size - 1 : i \in Inds \/ b[i] = at[i]
      BY <1>5, <3>2
    <3> QED BY <3>1, <3>3 DEF Vacant
  <2>4. Cardinality(Vacant') <= Cardinality(Vacant) + Cardinality(Inds) /\ Cardinality(Vacant') \in Nat
    <3>1. /\ IsFiniteSet(Vacant \cup Inds) /\ Cardinality(Vacant \cup Inds) \in Nat
          /\ Cardinality(Vacant \cup Inds) <= Cardinality(Vacant) + Cardinality(Inds)
      BY <1>24, TwoSets
    <3>2. IsFiniteSet(Vacant') /\ Cardinality(Vacant') <= Cardinality(Vacant \cup Inds)
      BY <2>3, <3>1, FS_Subset
    <3>3. Cardinality(Vacant') \in Nat
      BY <3>2, FS_CardinalityType
    <3> QED BY <2>2, <3>1, <3>2, <3>3
  <2>5. Cardinality(Inds') + Cardinality(Kepts') <= MaxRing
    BY <1>26, <2>1, <2>2
  <2>6. ToCome /\ segs.len > 0 => Cardinality(Vacant') <= Cardinality(Kepts')
    BY <1>26, <2>1, <2>2, <2>4
  <2>7. segs.len = 0 => Kepts' = {}
    <3> SUFFICES ASSUME segs.len = 0 PROVE Kepts' = {}
      OBVIOUS
    <3>1. Inds = {}
      <4> SUFFICES ASSUME NEW i \in Inds PROVE FALSE
        OBVIOUS
      <4>1. i \in Nat /\ i < 0
        BY <1>3, <1>7, IdsAre
      <4> QED BY <4>1
    <3> QED BY <1>12, <2>1, <3>1 DEF LongCopies
  <2> QED BY <1>6, <1>11, <2>5, <2>6, <2>7, Zenon DEF Counted
<1> QED BY <1>14, <1>15, <1>16, <1>17, <1>22, <1>23, <1>27, <1>28, Zenon DEF TInv
-----------------------------------------------------------------------------
(* The invariant of the tables.                                            *)

LEMMA TablesInit == Init => TInv
<1> SUFFICES ASSUME Init PROVE TInv
  OBVIOUS
<1>1. /\ queue = <<>> /\ lock = "none" /\ connected = "DISCONNECTED" /\ xb = "probe"
      /\ keep = FALSE /\ limit = 0 /\ size = 0 /\ maxSegs = 0 /\ old = 0 /\ frames = "none"
      /\ segs = [len |-> 0, at |-> [i \in Ids |-> NoTable]] /\ live = {}
      /\ contents = [t \in Tables |-> [req |-> NoReq, from |-> 0]]
      /\ batch = <<>> /\ sent = {} /\ answers = <<>> /\ resume_list = <<>> /\ resume_split = <<>>
      /\ pool = Grants /\ others = 0 /\ migrations = 0 /\ written = {}
      /\ shadow = [i \in Ids |-> Empty]
  BY DEF Init
<1>2. /\ MaxRing \in Nat /\ MaxRing > 0 /\ MaxChunks \in Nat /\ Grants \in Nat /\ Others \in Nat
      /\ Migrations \in Nat
  BY Sizes, BlkAssumption
<1>3. segs.len = 0 /\ segs.at = [i \in Ids |-> NoTable] /\ \A i \in Ids : segs.at[i] = NoTable
  BY <1>1
<1>4. Listed = {} /\ Kepts = {} /\ Splitting = {} /\ Ringed = {} /\ ToSet(answers) = {}
  <2>1. ToSet(batch) = {} /\ ToSet(answers) = {} /\ ToSet(resume_list) = {} /\ ToSet(resume_split) = {}
    BY <1>1, EmptyIs, Zenon
  <2> QED BY <1>1, <2>1 DEF Listed, Kepts, Splitting, Ringed
<1>5. Empty.req = NoReq /\ Empty.op # "indirect"
      /\ Empty = Copy(Empty.req, Empty.op, Empty.n, Empty.chunk)
  BY DEF Empty, Copy
<1>6. \A i \in Ids : shadow[i] = Empty
  BY <1>1
<1>7. Inds = {} /\ BusyIds = {} /\ Slots = {}
  BY <1>3, <1>5, <1>6 DEF Inds, BusyIds, Slots
<1>8. SlotTables = {}
  BY <1>7 DEF SlotTables
<1>9. Values
  <2>1. /\ keep \in BOOLEAN /\ frames \in {"none", "live", "freed"}
        /\ xb \in {"probe", "wait", "initialised", "connecting", "idle", "resume", "flush",
                   "recover", "kick", "surplus"}
        /\ lock \in {"none", "issue", "handle", "replay"}
        /\ written \subseteq Reqs \X (1 .. MaxChunks) /\ live \subseteq Tables
    BY <1>1
  <2>2. limit \in 0 .. MaxChunks /\ maxSegs \in 0 .. MaxChunks /\ migrations \in 0 .. Migrations
    BY <1>1, <1>2
  <2>3. segs \in [len : 0 .. MaxRing, at : [Ids -> Tables \cup {NoTable}]]
    <3> DEFINE b == [i \in Ids |-> NoTable]
    <3>1. b \in [Ids -> Tables \cup {NoTable}]
      OBVIOUS
    <3>2. segs = [len |-> 0, at |-> b] /\ 0 \in 0 .. MaxRing
      BY <1>1, <1>2
    <3> HIDE DEF b
    <3> QED BY <3>1, <3>2
  <2>4. contents \in [Tables -> [req : Reqs \cup {NoReq}, from : 0 .. MaxChunks]]
    <3>1. 0 \in 0 .. MaxChunks
      BY <1>2
    <3> QED BY <1>1, <3>1
  <2>5. ToSet(answers) \subseteq [id : Ids, ok : BOOLEAN]
    BY <1>4
  <2> QED BY <2>1, <2>2, <2>3, <2>4, <2>5, Zenon DEF Values
<1>10. Keeping
  BY <1>1, <1>3 DEF Keeping
<1>11. Copies
  BY <1>4, <1>5, <1>6, Zenon DEF Copies
<1>12. InSlots
  BY <1>7, Zenon DEF InSlots
<1>13. InList
  BY <1>1, <1>4, <1>8 DEF InList
<1>14. OnWire
  BY <1>4, Zenon DEF OnWire
<1>15. References /\ Counted
  <2>1. Cardinality({}) = 0
    BY FS_EmptySet
  <2>2. Cardinality(Inds) = 0 /\ Cardinality(BusyIds) = 0 /\ Cardinality(Listed) = 0 /\ Cardinality(Kepts) = 0
    BY <1>4, <1>7, <2>1, Zenon
  <2>3. References
    BY <1>1, <1>2, <2>2 DEF References
  <2>4. Counted
    BY <1>2, <1>3, <1>4, <2>2 DEF Counted
  <2> QED BY <2>3, <2>4
<1> QED BY <1>9, <1>10, <1>11, <1>12, <1>13, <1>14, <1>15 DEF TInv

LEMMA TablesStutter == ASSUME WInv, TInv, UNCHANGED vars PROVE TInv'
<1>1. /\ UNCHANGED <<shadow, resume_list, resume_split, segs, live, contents, size, old>>
      /\ UNCHANGED <<written, answers, batch, sent, queue, result, pool, others, lock, xb>>
      /\ UNCHANGED <<connected, keep, maxSegs, limit, frames, migrations, backend>>
  BY DEF vars, io, ring, ids, tabs, rec, mem, conn, env
<1>2. Ringed' = Ringed /\ ToCome' = ToCome
  BY <1>1, Zenon DEF Ringed, ToCome
<1>3. pool' \in Nat /\ others' \in 0 .. Others /\ pool' + others' <= pool + others
  BY <1>1 DEF TInv, References
<1>4. Values'
  BY <1>1, Zenon DEF TInv, Values
<1>5. Keeping'
  BY <1>1, <1>2, KeepingSame, Zenon DEF TInv
<1>6. xb' \in {"recover", "kick", "surplus"} \/ xb \notin {"recover", "kick", "surplus"}
  BY <1>1
<1>7. ToSet(answers') \subseteq ToSet(answers) /\ Ringed' \subseteq Ringed
  BY <1>1, <1>2
<1> QED BY <1>1, <1>2, <1>3, <1>4, <1>5, <1>6, <1>7, StillTables, Zenon

LEMMA TablesNext ==
    ASSUME Modest
    PROVE  CInv /\ WInv /\ TInv /\ [Next]_vars => TInv'
<1> SUFFICES ASSUME CInv, WInv, TInv, [Next]_vars PROVE TInv'
  OBVIOUS
<1>1. ASSUME NEW r \in Reqs, Submit(r) PROVE TInv'
  BY <1>1, SubmitTables
<1>2. CASE RunQueue \/ Interrupt \/ Work \/ HandleEnds \/ IssueStops \/ IssueEnds \/ ReplayEnds
  BY <1>2, LockTables
<1>3. CASE Locked
  <2>1. CASE Issue
    BY <2>1, IssueTables
  <2>2. CASE HandleWhole
    BY <2>2, WholeTables
  <2>3. CASE HandleSplit
    BY <2>3, SplitTables
  <2>4. CASE ReplayPlain
    BY <2>4, PlainTables
  <2>5. CASE ReplayIndirect
    BY <2>5, IndirectTables
  <2> QED BY <1>2, <1>3, <2>1, <2>2, <2>3, <2>4, <2>5, Zenon DEF Locked
<1>4. CASE Connection
  <2>1. CASE Probe \/ Connect \/ ConnectKicks \/ Resume \/ RecoverKicks
    BY <2>1, PhaseTables
  <2>2. CASE Setup
    BY <2>2, SetupTables
  <2>3. CASE Teardown
    BY <2>3, TeardownTables
  <2>4. CASE Recover
    BY <2>4, RecoverTables
  <2>5. CASE FreeSurplus
    BY <2>5, SurplusTables
  <2> QED BY <1>4, <2>1, <2>2, <2>3, <2>4, <2>5, Zenon DEF Connection
<1>5. CASE OtherTakes \/ OtherReleases
  BY <1>5, PoolTables
<1>6. CASE BackendReady \/ BackendConnects
  BY <1>6, BackendTables
<1>7. CASE Serve
  BY <1>7, ServeTables, Zenon DEF Serve
<1>8. ASSUME NEW b \in Backends, Migrate(b) PROVE TInv'
  BY <1>8, MigrateTables
<1>9. CASE UNCHANGED vars
  BY <1>9, TablesStutter
<1> QED BY <1>1, <1>2, <1>3, <1>4, <1>5, <1>6, <1>7, <1>8, <1>9, Zenon DEF Next

(* The entries are a function of the ids.                                  *)
Shadowed == shadow = [i \in Ids |-> shadow[i]]

LEMMA ShadowedIs ==
    ASSUME NEW s, NEW e, NEW h, s = [i \in Ids |-> s[i]], NEW t, t = [s EXCEPT ![h] = e]
    PROVE  t = [i \in Ids |-> t[i]]
OBVIOUS

LEMMA ShadowedNext == Shadowed /\ [Next]_vars => Shadowed'
<1> SUFFICES ASSUME Shadowed, [Next]_vars PROVE Shadowed'
  OBVIOUS
<1>1. ASSUME UNCHANGED shadow PROVE Shadowed'
  BY <1>1, Zenon DEF Shadowed
<1>2. ASSUME NEW h, NEW e, shadow' = [shadow EXCEPT ![h] = e] PROVE Shadowed'
  <2> DEFINE s == shadow t == shadow'
  <2>1. s = [i \in Ids |-> s[i]] /\ t = [s EXCEPT ![h] = e]
    BY <1>2 DEF Shadowed
  <2> HIDE DEF s, t
  <2>2. t = [i \in Ids |-> t[i]]
    BY <2>1, ShadowedIs
  <2> QED BY <2>2, Zenon DEF t, Shadowed
<1>3. CASE Recover
  <2>1. shadow' = [i \in Ids |-> IF i < old THEN Empty ELSE shadow[i]]
    BY <1>3 DEF Recover
  <2> DEFINE t == shadow'
  <2>2. t = [i \in Ids |-> t[i]]
    BY <2>1
  <2> QED BY <2>2, Zenon DEF Shadowed
<1>4. CASE Issue \/ HandleWhole \/ HandleSplit \/ ReplayPlain \/ ReplayIndirect
  <2>1. \E h, e : shadow' = [shadow EXCEPT ![h] = e]
    <3>1. CASE Issue
      <4>1. CASE Chunks[Head(queue)] = 1
        BY <3>1, <4>1, Zenon DEF Issue
      <4>2. CASE Chunks[Head(queue)] # 1
        BY <3>1, <4>2, Zenon DEF Issue
      <4> QED BY <4>1, <4>2
    <3>2. CASE HandleWhole
      BY <3>2, Zenon DEF HandleWhole, Release
    <3>3. CASE HandleSplit
      BY <3>3, Zenon DEF HandleSplit, Release
    <3>4. CASE ReplayPlain
      BY <3>4, Zenon DEF ReplayPlain
    <3>5. CASE ReplayIndirect
      BY <3>5, Zenon DEF ReplayIndirect
    <3> QED BY <1>4, <3>1, <3>2, <3>3, <3>4, <3>5
  <2> QED BY <1>2, <2>1
<1>5. CASE IssueStops \/ IssueEnds \/ HandleEnds \/ ReplayEnds \/ RunQueue \/ Interrupt \/ Work
  BY <1>1, <1>5 DEF IssueStops, IssueEnds, HandleEnds, ReplayEnds, RunQueue, Interrupt, Work, ids
<1>6. CASE Probe \/ Setup \/ Connect \/ ConnectKicks \/ Resume \/ Teardown \/ RecoverKicks \/ FreeSurplus
  BY <1>1, <1>6 DEF Probe, Setup, Connect, ConnectKicks, Resume, Teardown, RecoverKicks, FreeSurplus, ids
<1>7. CASE OtherTakes \/ OtherReleases \/ BackendReady \/ BackendConnects
  BY <1>1, <1>7 DEF OtherTakes, OtherReleases, BackendReady, BackendConnects, ids
<1>8. CASE Serve
  BY <1>1, <1>8 DEF Serve, Answer, ids
<1>9. ASSUME NEW r \in Reqs, Submit(r) PROVE Shadowed'
  BY <1>1, <1>9 DEF Submit, ids
<1>10. ASSUME NEW b \in Backends, Migrate(b) PROVE Shadowed'
  BY <1>1, <1>10 DEF Migrate, ids
<1>11. CASE UNCHANGED vars
  BY <1>1, <1>11 DEF vars, ids
<1> QED BY <1>3, <1>4, <1>5, <1>6, <1>7, <1>8, <1>9, <1>10, <1>11, Zenon DEF Next, Locked, Connection

LEMMA TablesAlways ==
    ASSUME Modest
    PROVE  Spec => [](CInv /\ WInv /\ TInv /\ Shadowed)
<1>1. Modest /\ "splitting" \notin When
  BY DEF Modest
<1>2. CInv /\ WInv /\ TInv /\ Shadowed /\ [Next]_vars => (CInv /\ WInv /\ TInv /\ Shadowed)'
  BY <1>1, ControlNext, PlacesNext, TablesNext, ShadowedNext
<1>3. Init => CInv /\ WInv /\ TInv /\ Shadowed
  <2>1. Init => Shadowed
    BY DEF Init, Shadowed
  <2> QED BY <2>1, ControlInit, PlacesInit, TablesInit
<1> QED BY <1>2, <1>3, PTL DEF Spec

(* What is kept, sent or described has the form of its place.              *)
LEMMA RemainsTyped ==
    ASSUME NEW s, NEW w, Remains(s, w)
    PROVE  /\ s.req \in Reqs /\ s.op \in {"plain", "indirect"}
           /\ s.n \in 1 .. MaxChunks /\ s.chunk \in 0 .. MaxChunks
<1>1. Chunks[s.req] \in 1 .. MaxChunks /\ MaxChunks \in Nat
  BY Sizes DEF Remains
<1>2. CASE s.op = "plain" /\ s.n = 1 /\ s.chunk \in 1 .. Chunks[s.req]
  BY <1>1, <1>2 DEF Remains
<1>3. CASE s.op = "indirect" /\ s.n = 2 /\ s.chunk = 0 /\ Chunks[s.req] = 2
  BY <1>1, <1>3 DEF Remains
<1> QED BY <1>2, <1>3 DEF Remains

LEMMA ServesTyped ==
    ASSUME TInv, NEW m, Serves(m)
    PROVE  m \in RingReq
<1> DEFINE s == shadow[m.id]
<1>1. /\ m.id \in Ids /\ m.req = s.req
      /\ m = [id |-> m.id, req |-> m.req, chunk |-> m.chunk, n |-> m.n, table |-> m.table]
      /\ \/ s.op = "plain" /\ m.table = NoTable /\ m.n = 1 /\ m.chunk = s.chunk
         \/ s.op = "indirect" /\ m.table = NoTable /\ m.n = 1 /\ m.chunk = 1
         \/ s.op = "indirect" /\ m.table = segs.at[m.id] /\ m.n = 2 /\ m.chunk = 0
  BY DEF Serves
<1>2. s = Empty \/ Remains(s, written)
  BY <1>1, Zenon DEF TInv, Copies
<1>3. Remains(s, written)
  <2>1. Empty.op # "plain" /\ Empty.op # "indirect"
    BY DEF Empty, Copy
  <2> HIDE DEF s
  <2> QED BY <1>1, <1>2, <2>1
<1>4. segs.at[m.id] \in Tables \cup {NoTable}
  BY <1>1 DEF TInv, Values
<1> HIDE DEF s
<1>5. /\ s.req \in Reqs /\ s.chunk \in 0 .. MaxChunks /\ MaxChunks \in Nat /\ MaxChunks > 0
      /\ s.op = "indirect" => s.n = 2
  BY <1>3, RemainsTyped, Sizes DEF Remains
<1>6. s.op = "indirect" => 2 \in 1 .. MaxChunks
  BY <1>3, <1>5, RemainsTyped
<1>7. m.chunk \in 0 .. MaxChunks /\ m.n \in 1 .. MaxChunks /\ m.table \in Tables \cup {NoTable}
  BY <1>1, <1>4, <1>5, <1>6
<1>8. m.req \in Reqs
  BY <1>1, <1>5
<1> QED BY <1>1, <1>7, <1>8 DEF RingReq

LEMMA TypesHold == ASSUME CInv, WInv, TInv, Shadowed PROVE Types
<1>1. /\ IsSeq(queue) /\ IsSeq(idle) /\ IsSeq(batch) /\ IsSeq(answers)
      /\ IsSeq(resume_list) /\ IsSeq(resume_split) /\ ToSet(idle) \subseteq Ids
      /\ \A k \in DOMAIN resume_list : Shaped(resume_list[k])
      /\ \A k \in DOMAIN resume_split : Shaped(resume_split[k])
  BY Zenon DEF WInv, Sequences
<1>2. queue \in Seq(Reqs)
  <2>1. ToSet(queue) \subseteq Reqs
    BY DEF WInv, Held, Pending
  <2>2. \A k \in DOMAIN queue : queue[k] \in Reqs
    BY <2>1 DEF ToSet
  <2> QED BY <1>1, <2>2, SeqIn
<1>3. idle \in Seq(Ids)
  <2>1. \A k \in DOMAIN idle : idle[k] \in Ids
    BY <1>1 DEF ToSet
  <2> QED BY <1>1, <2>1, SeqIn
<1>4. batch \in Seq(RingReq) /\ sent \subseteq RingReq
  <2>1. \A m \in Ringed : m \in RingReq
    BY ServesTyped, Zenon DEF TInv, OnWire
  <2>2. \A k \in DOMAIN batch : batch[k] \in RingReq
    BY <2>1 DEF Ringed, ToSet
  <2> QED BY <1>1, <2>1, <2>2, SeqIn DEF Ringed
<1>5. answers \in Seq([id : Ids, ok : BOOLEAN])
  <2>1. \A k \in DOMAIN answers : answers[k] \in [id : Ids, ok : BOOLEAN]
    BY DEF TInv, Values, ToSet
  <2> QED BY <1>1, <2>1, SeqIn
<1>6. ASSUME NEW e, Shaped(e), Remains(e, written), e.id \in Ids, e.table \in Tables \cup {NoTable}
      PROVE  e \in Resumed
  <2>1. /\ e.req \in Reqs /\ e.op \in {"plain", "indirect"}
        /\ e.n \in 1 .. MaxChunks /\ e.chunk \in 0 .. MaxChunks
    BY <1>6, RemainsTyped
  <2> QED BY <1>6, <2>1 DEF Resumed, Shaped
<1>7. resume_list \in Seq(Resumed)
  <2>1. ASSUME NEW k \in DOMAIN resume_list PROVE resume_list[k] \in Resumed
    <3>1. resume_list[k] \in Listed
      BY DEF Listed, ToSet
    <3>2. /\ Remains(resume_list[k], written) /\ resume_list[k].id \in Ids
          /\ resume_list[k].table \in Tables \cup {NoTable}
      BY <3>1, Zenon DEF TInv, Copies
    <3> QED BY <1>1, <1>6, <3>2, Zenon
  <2> QED BY <1>1, <2>1, SeqIn
<1>8. resume_split \in Seq(Resumed)
  <2>1. ASSUME NEW k \in DOMAIN resume_split PROVE resume_split[k] \in Resumed
    <3>1. resume_split[k] \in Splitting
      BY DEF Splitting, ToSet
    <3>2. /\ Remains(resume_split[k], written) /\ resume_split[k].id \in Ids
          /\ resume_split[k].table \in Tables
      BY <3>1, Zenon DEF TInv, Copies
    <3>3. resume_split[k].table \in Tables \cup {NoTable}
      BY <3>2
    <3> QED BY <1>1, <1>6, <3>2, <3>3, Zenon
  <2> QED BY <1>1, <2>1, SeqIn
<1>9. shadow \in [Ids -> [req : Reqs \cup {NoReq}, op : {"none", "plain", "indirect"},
                          n : 0 .. MaxChunks, chunk : 0 .. MaxChunks]]
  <2> DEFINE T == [req : Reqs \cup {NoReq}, op : {"none", "plain", "indirect"},
                   n : 0 .. MaxChunks, chunk : 0 .. MaxChunks]
  <2>1. ASSUME NEW i \in Ids PROVE shadow[i] \in T
    <3> DEFINE s == shadow[i]
    <3>1. s = Empty \/ Remains(s, written)
      BY Zenon DEF TInv, Copies
    <3>2. s = Copy(s.req, s.op, s.n, s.chunk)
      BY Zenon DEF TInv, Copies
    <3> HIDE DEF s
    <3>3. MaxChunks \in Nat
      BY Sizes
    <3>4. ASSUME s = Empty PROVE s \in T
      BY <3>3, <3>4 DEF Empty, Copy
    <3>5. ASSUME Remains(s, written) PROVE s \in T
      <4>1. /\ s.req \in Reqs /\ s.op \in {"plain", "indirect"}
            /\ s.n \in 1 .. MaxChunks /\ s.chunk \in 0 .. MaxChunks
        BY <3>5, RemainsTyped
      <4>2. s.n \in 0 .. MaxChunks
        BY <3>3, <4>1
      <4> QED BY <3>2, <4>1, <4>2 DEF Copy
    <3> HIDE DEF T
    <3>6. s \in T
      BY <3>1, <3>4, <3>5
    <3> QED BY <3>6 DEF s
  <2>3. shadow = [i \in Ids |-> shadow[i]]
    BY DEF Shadowed
  <2> HIDE DEF T
  <2>4. shadow \in [Ids -> T]
    BY <2>1, <2>3
  <2> QED BY <2>4 DEF T
<1>10. pool \in 0 .. Grants /\ others \in 0 .. Others
  <2> DEFINE b == Cardinality(BusyIds) l == Cardinality(Listed)
             i == Cardinality(Inds) k == Cardinality(Kepts)
  <2>1. b \in Nat /\ l \in Nat /\ i \in Nat /\ k \in Nat
    BY <1>1, FiniteSets, Zenon DEF Counts, WInv, Numbers
  <2>2. /\ pool \in Nat /\ others \in 0 .. Others /\ others \in Nat /\ Grants \in Nat
        /\ pool + others + b + l + 2 * (i + k) <= Grants
    BY BlkAssumption DEF TInv, References
  <2> HIDE DEF b, l, i, k
  <2>3. pool <= Grants
    BY <2>1, <2>2
  <2> QED BY <2>2, <2>3
<1>11. /\ stopped \in BOOLEAN /\ result \in [Reqs -> {"new", "pending", "ok", "error"}]
       /\ connected \in {"DISCONNECTED", "CONNECTED", "SUSPENDED"}
       /\ size \in 0 .. MaxRing /\ old \in 0 .. MaxRing
       /\ callback \in BOOLEAN /\ work \in BOOLEAN
       /\ backend \in [kind : Backends, state : {"Initialising", "InitWait", "Connected", "Gone"}]
  BY Zenon DEF CInv, Control, WInv, Held, Phases, Numbers
<1>12. /\ lock \in {"none", "issue", "handle", "replay"}
       /\ written \subseteq Reqs \X (1 .. MaxChunks)
       /\ xb \in {"probe", "wait", "initialised", "connecting", "idle", "resume", "flush",
                 "recover", "kick", "surplus"}
       /\ keep \in BOOLEAN /\ limit \in 0 .. MaxChunks /\ maxSegs \in 0 .. MaxChunks
       /\ frames \in {"none", "live", "freed"}
       /\ segs \in [len : 0 .. MaxRing, at : [Ids -> Tables \cup {NoTable}]]
       /\ live \subseteq Tables
       /\ contents \in [Tables -> [req : Reqs \cup {NoReq}, from : 0 .. MaxChunks]]
       /\ migrations \in 0 .. Migrations
  BY Zenon DEF TInv, Values
<1> QED BY <1>2, <1>3, <1>4, <1>5, <1>7, <1>8, <1>9, <1>10, <1>11, <1>12, Zenon DEF Types

(* blkif_recover, kick_pending_request_queues, setup_blkring: a table      *)
(* belongs to one slot or to one request that waits, describes the request *)
(* it belongs to and is not freed while it does, for any number of         *)
(* requests of two chunks at most, of hosts and of migrations at the       *)
(* moments that Modest names.                                              *)
THEOREM TablesOwned ==
    ASSUME Modest
    PROVE  Spec => []TablesPrivate
<1>1. CInv /\ WInv /\ TInv /\ Shadowed => TablesPrivate
  <2> SUFFICES ASSUME CInv, WInv, TInv, Shadowed PROVE TablesPrivate
    OBVIOUS
  <2>1. Types
    BY TypesHold
  <2>2. /\ \A i, j \in Slots : i # j => segs.at[i] # segs.at[j]
        /\ \A i \in Slots : segs.at[i] \in live /\ i < segs.len
        /\ \A i \in Inds : i \in Slots /\ contents[segs.at[i]] = Whole(shadow[i].req)
    BY Zenon DEF TInv, InSlots
  <2>3. ASSUME NEW i \in Ids, shadow[i].op = "indirect"
        PROVE  i \in Slots /\ contents[segs.at[i]].req = shadow[i].req
    <3>1. i \in Inds
      BY <2>3 DEF Inds
    <3>2. Whole(shadow[i].req).req = shadow[i].req
      BY DEF Whole
    <3> QED BY <2>2, <3>1, <3>2
  <2>4. /\ \A x \in Kepts : x.table \in live /\ contents[x.table] = Whole(x.req)
        /\ \A x, y \in Kepts : x.table = y.table => x = y
        /\ SlotTables \cap TablesOf(Kepts) = {}
    BY Zenon DEF TInv, InList
  <2>5. ASSUME NEW k \in Kept
        PROVE  LET t == resume_list[k].table
               IN  /\ t \in live /\ contents[t].req = resume_list[k].req
                   /\ \A i \in Slots : segs.at[i] # t
                   /\ \A l \in Kept \ {k} : resume_list[l].table # t
    <3>1. \A l \in Kept : l \in DOMAIN resume_list /\ resume_list[l] \in Kepts
      BY DEF Kept, Kepts, Listed, ToSet
    <3> DEFINE x == resume_list[k]
    <3>2. x \in Kepts /\ k \in DOMAIN resume_list
      BY <3>1
    <3>3. x.table \in live /\ contents[x.table].req = x.req
      <4>1. Whole(x.req).req = x.req
        BY DEF Whole
      <4> QED BY <2>4, <3>2, <4>1
    <3>4. \A i \in Slots : segs.at[i] # x.table
      BY <2>4, <3>2 DEF SlotTables, TablesOf
    <3>5. \A l \in Kept \ {k} : resume_list[l].table # x.table
      <4> SUFFICES ASSUME NEW l \in Kept, resume_list[l].table = x.table PROVE l = k
        OBVIOUS
      <4>1. resume_list[l] = x
        BY <2>4, <3>1, <3>2
      <4>2. OnceReq(resume_list)
        BY DEF WInv, Held
      <4> QED BY <3>1, <3>2, <4>1, <4>2 DEF OnceReq
    <3> QED BY <3>3, <3>4, <3>5
  <2> QED BY <2>1, <2>2, <2>3, <2>5 DEF TablesPrivate
<1> QED BY <1>1, TablesAlways, PTL
-----------------------------------------------------------------------------
(* What the block layer sees.                                              *)

(* An entry in use holds a request that has not ended.                     *)
LEMMA InUsePending ==
    ASSUME WInv, NEW i \in BusyIds
    PROVE  shadow[i].req \in Reqs /\ result[shadow[i].req] = "pending" /\ DOMAIN result = Reqs
<1>1. shadow[i].req \in Pending
  BY DEF WInv, Held, BusyReqs
<1>2. DOMAIN result = Reqs
  BY DEF WInv, Held
<1> QED BY <1>1, <1>2 DEF Pending

(* The response to the first of answers is about an entry in use.          *)
LEMMA AnswerFor ==
    ASSUME CInv, WInv, TInv, lock = "handle", answers # <<>>
    PROVE  LET a == Head(answers)
           IN  a.id \in BusyIds /\ Remains(shadow[a.id], written) /\ (a.ok => Served(a.id))
<1> DEFINE a == Head(answers)
<1>1. IsSeq(answers)
  BY DEF WInv, Sequences
<1>2. 1 \in DOMAIN answers /\ a = answers[1]
  BY <1>1, NonEmptyIs
<1>3. a \in ToSet(answers) /\ a.id \in IdsOf(answers)
  BY <1>2 DEF ToSet, IdsOf
<1>4. connected = "CONNECTED"
  BY DEF CInv, Control
<1>5. a.id \in BusyIds
  BY <1>3, <1>4 DEF WInv, Entries, Ready, OnRing
<1>6. shadow[a.id] = Empty \/ Remains(shadow[a.id], written)
  BY <1>5, Zenon DEF TInv, Copies, BusyIds
<1>7. Remains(shadow[a.id], written)
  <2>1. Empty.req = NoReq
    BY DEF Empty, Copy
  <2> QED BY <1>5, <1>6, <2>1 DEF BusyIds
<1>8. a.ok => Served(a.id)
  BY <1>3, Zenon DEF TInv, OnWire
<1> QED BY <1>5, <1>7, <1>8

(* A request whose entry has been served as a whole has been written.      *)
LEMMA ServedWhole ==
    ASSUME NEW id, Remains(shadow[id], written), Served(id), id \notin SplitIds
    PROVE  Promise!Parts(shadow[id].req) \subseteq written
<1> DEFINE s == shadow[id] r == s.req
<1>1. /\ s.op = "plain" => <<r, s.chunk>> \in written
      /\ s.op = "indirect" => <<r, 1>> \in written /\ <<r, 2>> \in written
  BY DEF Served
<1>2. /\ r \in Reqs
      /\ \/ /\ s.op = "plain" /\ s.n = 1 /\ s.chunk \in 1 .. Chunks[r]
            /\ \A c \in 1 .. Chunks[r] : c # s.chunk => <<r, c>> \in written
         \/ s.op = "indirect" /\ s.n = 2 /\ s.chunk = 0 /\ Chunks[r] = 2
  BY Zenon DEF Remains
<1> HIDE DEF s
<1>3. \A c \in 1 .. Chunks[r] : <<r, c>> \in written
  <2> SUFFICES ASSUME NEW c \in 1 .. Chunks[r] PROVE <<r, c>> \in written
    OBVIOUS
  <2>1. CASE s.op = "plain" /\ \A d \in 1 .. Chunks[r] : d # s.chunk => <<r, d>> \in written
    <3>1. CASE c = s.chunk
      BY <1>1, <2>1, <3>1, Zenon
    <3>2. CASE c # s.chunk
      BY <2>1, <3>2
    <3> QED BY <3>1, <3>2
  <2>2. CASE s.op = "indirect" /\ Chunks[r] = 2
    <3>1. c = 1 \/ c = 2
      BY <2>2
    <3> QED BY <1>1, <2>2, <3>1
  <2> QED BY <1>2, <2>1, <2>2
<1>4. Promise!Parts(r) \subseteq written
  BY <1>3 DEF Promise!Parts
<1> QED BY <1>4 DEF s

LEMMA PromiseInit == Init => Promise!Init
BY DEF Init, Promise!Init

LEMMA EndedIs ==
    ASSUME NEW r \in Reqs, result[r] = "pending", NEW ok, Ended(r, ok)
    PROVE  result' = [result EXCEPT ![r] = IF ok THEN "ok" ELSE "error"]
BY DEF Ended

Promised == [Promise!Next]_<<result, written>>

LEMMA PromiseNext == CInv /\ WInv /\ TInv /\ [Next]_vars => Promised
<1> SUFFICES ASSUME CInv, WInv, TInv, [Next]_vars PROVE Promised
  OBVIOUS
<1>1. ASSUME result' = result, written' = written PROVE Promised
  BY <1>1 DEF Promised
<1>2. ASSUME NEW r \in Reqs, Promise!Submit(r) \/ Promise!Write(r) \/ Promise!End(r) PROVE Promised
  BY <1>2 DEF Promised, Promise!Next
<1>3. ASSUME NEW r \in Reqs, Submit(r) PROVE Promised
  <2>1. Promise!Submit(r)
    BY <1>3 DEF Submit, Promise!Submit
  <2> QED BY <1>2, <2>1
<1>4. CASE Serve
  <2>1. PICK m \in sent, ok \in BOOLEAN : Answer(m, ok)
    BY <1>4 DEF Serve
  <2>2. result' = result /\ written' = IF ok THEN written \cup Described(m) ELSE written
    BY <2>1 DEF Answer, io
  <2>3. CASE ok
    <3> DEFINE r == shadow[m.id].req
    <3>1. m.id \in BusyIds /\ Described(m) \subseteq {r} \X (1 .. Chunks[r])
      BY DescribedIs
    <3>2. r \in Reqs /\ result[r] = "pending"
      BY <3>1, InUsePending
    <3> HIDE DEF r
    <3>3. Described(m) \in SUBSET Promise!Parts(r)
      BY <3>1 DEF Promise!Parts
    <3>4. Promise!Write(r)
      BY <2>2, <2>3, <3>2, <3>3 DEF Promise!Write
    <3> QED BY <1>2, <3>2, <3>4
  <2>4. CASE ~ok
    BY <1>1, <2>2, <2>4
  <2> QED BY <2>3, <2>4
<1>5. CASE HandleWhole
  <2> DEFINE id == Head(answers).id s == shadow[id] ok == Head(answers).ok r == s.req
  <2>1. /\ lock = "handle" /\ answers # <<>> /\ written' = written /\ Ended(r, ok)
        /\ s.op = "indirect" => SplitAt(id) = {}
    BY <1>5 DEF HandleWhole
  <2>2. id \in BusyIds /\ Remains(s, written) /\ (ok => Served(id))
    BY <2>1, AnswerFor
  <2>3. r \in Reqs /\ result[r] = "pending"
    BY <2>2, InUsePending
  <2>4. result' = [result EXCEPT ![r] = IF ok THEN "ok" ELSE "error"]
    BY <2>1, <2>3, EndedIs
  <2>5. id \notin SplitIds
    <3>1. ASSUME id \in SplitIds PROVE FALSE
      <4>1. PICK k \in DOMAIN resume_split : resume_split[k].id = id
        BY <3>1 DEF SplitIds, IdsOf
      <4>2. k \in SplitAt(id)
        BY <4>1 DEF SplitAt
      <4>3. s.op = "indirect"
        BY <4>1 DEF WInv, Splits
      <4> QED BY <2>1, <4>2, <4>3
    <3> QED BY <3>1
  <2>6. ok => Promise!Parts(r) \subseteq written
    BY <2>2, <2>5, ServedWhole
  <2> HIDE DEF r, ok
  <2>7. Promise!End(r)
    <3>1. CASE ok
      BY <2>1, <2>3, <2>4, <2>6, <3>1 DEF Promise!End
    <3>2. CASE ~ok
      BY <2>1, <2>3, <2>4, <3>2 DEF Promise!End
    <3> QED BY <3>1, <3>2
  <2> QED BY <1>2, <2>3, <2>7
<1>6. CASE HandleSplit
  <2> DEFINE id == Head(answers).id s == shadow[id] r == s.req
  <2>1. /\ lock = "handle" /\ answers # <<>> /\ written' = written
        /\ Ended(r, FALSE) \/ result' = result
    BY <1>6 DEF HandleSplit
  <2>2. CASE Ended(r, FALSE)
    <3>1. id \in BusyIds
      BY <2>1, AnswerFor
    <3>2. r \in Reqs /\ result[r] = "pending"
      BY <3>1, InUsePending
    <3>3. result' = [result EXCEPT ![r] = "error"]
      BY <2>2, <3>2, EndedIs
    <3> HIDE DEF r
    <3>4. Promise!End(r)
      BY <2>1, <3>2, <3>3 DEF Promise!End
    <3> QED BY <1>2, <3>2, <3>4
  <2>3. CASE result' = result
    BY <1>1, <2>1, <2>3
  <2> QED BY <2>1, <2>2, <2>3
<1>7. CASE IssueStops \/ IssueEnds \/ Issue \/ HandleEnds \/ ReplayPlain \/ ReplayIndirect \/ ReplayEnds
  <2>1. result' = result /\ written' = written
    BY <1>7 DEF IssueStops, IssueEnds, Issue, HandleEnds, ReplayPlain, ReplayIndirect, ReplayEnds, io
  <2> QED BY <1>1, <2>1
<1>8. CASE Connection
  <2>1. result' = result /\ written' = written
    BY <1>8 DEF Connection, Probe, Setup, Connect, ConnectKicks, Resume, Teardown, Recover,
                RecoverKicks, FreeSurplus, io
  <2> QED BY <1>1, <2>1
<1>9. CASE RunQueue \/ Interrupt \/ Work \/ OtherTakes \/ OtherReleases \/ BackendReady \/ BackendConnects
  <2>1. result' = result /\ written' = written
    BY <1>9 DEF RunQueue, Interrupt, Work, OtherTakes, OtherReleases, BackendReady, BackendConnects, io
  <2> QED BY <1>1, <2>1
<1>10. ASSUME NEW b \in Backends, Migrate(b) PROVE Promised
  <2>1. result' = result /\ written' = written
    BY <1>10 DEF Migrate, io
  <2> QED BY <1>1, <2>1
<1>11. CASE UNCHANGED vars
  <2>1. result' = result /\ written' = written
    BY <1>11 DEF vars, io
  <2> QED BY <1>1, <2>1
<1> QED BY <1>3, <1>4, <1>5, <1>6, <1>7, <1>8, <1>9, <1>10, <1>11, Zenon DEF Next, Locked

(* do_blkif_request, blkif_int, blkif_recover, split_request: whatever     *)
(* hosts it is moved to, and however often, the device ends a request once *)
(* and reports success only for what has been written as a whole, under    *)
(* the hypotheses of TablesOwned.                                          *)
THEOREM DeviceKeepsPromise ==
    ASSUME Modest
    PROVE  Spec => Device
<1>1. Init => Promise!Init
  BY PromiseInit
<1>2. CInv /\ WInv /\ TInv /\ Shadowed /\ [Next]_vars => [Promise!Next]_<<result, written>>
  BY PromiseNext DEF Promised
<1>3. Spec => [](CInv /\ WInv /\ TInv /\ Shadowed)
  BY TablesAlways
<1> QED BY <1>1, <1>2, <1>3, PTL DEF Spec, Device, Promise!Spec
=============================================================================
