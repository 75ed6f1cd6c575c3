---------------------------- MODULE XenbusProofs ----------------------------
(***************************************************************************)
(* Proofs about Xenbus: that replies reach who asked, that no transaction  *)
(* is carried over a migration, that no callback runs for a watch that is  *)
(* unregistered, and that no event is lost; and, at the end, about the     *)
(* shutdown and suspend requests that come through it.                     *)
(***************************************************************************)
EXTENDS Xenbus, ShutdownState, TLAPS, FiniteSetTheorems, SequenceTheorems, WellFoundedInduction

Frozen == {"frozen", "moved"}
Locked == {"requests"} \cup Frozen
Quiet  == {"watches"} \cup Locked

(* Who is inside a transaction, as transaction_count counts them.          *)
InTx == open \cup {a \in Actors : \/ act[a].job = "start" /\ act[a].at # "lock"
                                  \/ act[a].job = "end"}

(* Who holds watch_mutex for reading.                                      *)
Registers(a) == act[a].job \in {"watch", "unwatch"}

Reads(a) == Registers(a) /\ act[a].at \in {"ask", "reply", "done"}

(* A message is for the thread that waits, and it alone.                   *)
Awaited(m) == m.to = request_mutex /\ m.to \in Actors /\ act[m.to].at = "reply"

Header(q, k) == q[k].part = "header" /\ q[k].msg.kind = "reply"

-----------------------------------------------------------------------------
ActType == [job : {"none", "read", "start", "end", "watch", "unwatch", "rewatch"},
            w : Watches \cup {NoOne},
            at : {"idle", "lock", "ask", "reply", "done", "purge"}]

ActTyped ==
    /\ act \in [Actors -> ActType] /\ open \subseteq Actors

LocksTyped ==
    /\ transaction_mutex \in {NoOne, "suspend"} /\ transaction_count \in Int
    /\ request_mutex \in Actors \cup {NoOne}
    /\ response_mutex \in {NoOne, "xenbus", "suspend"}
    /\ xenwatch_mutex \in {NoOne, "xenwatch"}
    /\ watch_readers \subseteq Actors /\ watch_writer \in {NoOne, "suspend"}
    /\ sus \in {"idle", "transactions", "watches", "requests", "frozen", "moved", "rewatch",
                "devices"}

WatchesTyped ==
    /\ watches \subseteq Watches /\ todo \subseteq Watches /\ tokens \subseteq Watches
    /\ running \in Watches \cup {NoOne} /\ own \subseteq Watches
    /\ watch_events \in Seq(Watches)
    /\ version \in [Watches -> 0 .. Changes] /\ seen \in [Watches -> 0 .. Changes]
    /\ \A w \in Watches : version[w] <= changes

PartType == [part : {"header", "body"}, msg : Msgs]

QueuesTyped ==
    /\ reply_list \in Seq(Msgs)
    /\ reader \in [at : {"wait", "lock", "body"}, msg : Msgs]
    /\ req \in Seq(Msgs) /\ rsp \in Seq(PartType)

OthersTyped ==
    /\ txs \subseteq Actors
    /\ ops \in 0 .. Ops /\ changes \in 0 .. Changes /\ suspends \in 0 .. Suspends

Typed == ActTyped /\ LocksTyped /\ WatchesTyped /\ QueuesTyped /\ OthersTyped

Counted == transaction_count = Cardinality(InTx)

(* What a thread may be at.                                                *)
StepOk(a) ==
    /\ act[a].at = "idle" <=> act[a].job = "none"
    /\ act[a].job \in {"none", "read", "start", "end"} => act[a].w = NoOne
    /\ act[a].job \in {"watch", "unwatch", "rewatch"} => act[a].w # NoOne
    /\ act[a].job \in {"start", "end"} => a \notin open
    /\ act[a].at = "lock" => act[a].job \in {"start", "watch", "unwatch"}
    /\ act[a].at = "purge" => act[a].job = "unwatch"
    /\ act[a].job = "rewatch" => a = "suspend" /\ sus = "rewatch" /\ act[a].w \in watches

Steps == \A a \in Actors : StepOk(a)

(* The suspending thread uses xenstore when it resumes, xenwatch when it   *)
(* runs a callback.                                                        *)
Places ==
    /\ sus \notin {"rewatch", "devices"} => act["suspend"].job = "none"
    /\ sus = "rewatch" =>
           act["suspend"].job \in {"none", "rewatch"} /\ todo \subseteq watches
    /\ "suspend" \in open => sus = "devices"
    /\ running = NoOne => act["xenwatch"].job = "none" /\ "xenwatch" \notin open
    /\ running # NoOne => xenwatch_mutex = "xenwatch"

(* watch_mutex, and one thread at a time for each watch.                   *)
ReadsWell(a) ==
    Reads(a) => a \in watch_readers /\ (act[a].job = "watch" => act[a].w \in watches)

OneEach ==
    \A a, b \in Actors : Registers(a) /\ Registers(b) /\ act[a].w = act[b].w => a = b

Listed ==
    /\ watch_writer = "suspend" <=> sus \in Quiet \cup {"rewatch"}
    /\ watch_writer = "suspend" => watch_readers = {}
    /\ \A a \in Actors : ReadsWell(a)
    /\ OneEach

(* The locks that xs_suspend takes.                                        *)
Held ==
    /\ transaction_mutex = "suspend" <=> sus \in {"transactions"} \cup Quiet
    /\ sus \in Quiet => InTx = {}
    /\ sus \in Locked => request_mutex = "suspend"
    /\ response_mutex = "suspend" <=> sus \in Frozen
    /\ response_mutex = "xenbus" <=> reader.at = "body"
    /\ reader.at # "body" => reader.msg = NoMsg

(* One request, or one reply, for who holds request_mutex.                 *)
Talking ==
    /\ \A a \in Actors : act[a].at = "reply" => request_mutex = a
    /\ Len(req) <= 1 /\ Len(reply_list) <= 1
    /\ req # <<>> =>
           /\ reply_list = <<>> /\ Awaited(req[1])
           /\ req[1].kind = act[req[1].to].job /\ req[1].w = act[req[1].to].w
    /\ reply_list # <<>> => Awaited(reply_list[1])
    /\ reader.msg.kind = "reply" => req = <<>> /\ reply_list = <<>> /\ Awaited(reader.msg)
    /\ \A k \in DOMAIN rsp : Header(rsp, k) =>
           /\ req = <<>> /\ reply_list = <<>> /\ reader.msg.kind # "reply"
           /\ Awaited(rsp[k].msg)
           /\ \A j \in DOMAIN rsp : Header(rsp, j) => j = k

(* Each header is followed by its body, each body by a header.             *)
Paired(q) ==
    \A k \in DOMAIN q :
        /\ q[k].part = "header" =>
               k + 1 \in DOMAIN q /\ q[k + 1] = [part |-> "body", msg |-> q[k].msg]
        /\ q[k].part = "body" /\ k + 1 \in DOMAIN q => q[k + 1].part = "header"

Fits(q) ==
    /\ reader.at = "body" => q # <<>> /\ q[1] = [part |-> "body", msg |-> reader.msg]
    /\ reader.at # "body" /\ q # <<>> => q[1].part = "header"
    /\ Paired(q)

InStep == Fits(rsp)

(* xenstored knows of a transaction once it has answered.                  *)
KnownOk(a) ==
    act[a].job = "start" =>
        /\ act[a].at = "done" => a \in txs
        /\ act[a].at = "reply" /\ a \notin txs => req # <<>> /\ req[1].to = a

Known == open \subseteq txs /\ \A a \in Actors : KnownOk(a)

(* NoCallbackAfter.                                                        *)
Silent ==
    \A w \in Watches \ watches :
        \/ Used(w)
        \/ (running = w => w \in own) /\ \A k \in DOMAIN watch_events : watch_events[k] # w

XInv == /\ Typed /\ Counted /\ Steps /\ Places /\ Listed /\ Held /\ Talking
        /\ InStep /\ Known /\ Silent
-----------------------------------------------------------------------------
(* A thread takes a step, and no other does.                               *)
Moves(a, job, w, at) ==
    /\ act' \in [Actors -> ActType]
    /\ act'[a].job = job /\ act'[a].w = w /\ act'[a].at = at
    /\ \A b \in Actors : b # a => act'[b] = act[b]

(* The names of the threads are not NoOne.                                 *)
LEMMA Names ==
    /\ "suspend" \in Actors /\ "xenwatch" \in Actors
    /\ NoOne \notin Actors /\ NoOne \notin Watches
    /\ NoOne # "suspend" /\ NoOne # "xenwatch" /\ NoOne # "xenbus"
    /\ IsFiniteSet(Actors) /\ Ops \in Nat /\ Changes \in Nat /\ Suspends \in Nat
<1>1. IsFiniteSet(Clients) /\ IsFiniteSet({"xenwatch"}) /\ IsFiniteSet({"suspend"})
  BY XenbusAssumption, FS_Singleton, FS_EmptySet
<1>2. IsFiniteSet({"xenwatch"} \cup {"suspend"})
  BY <1>1, FS_Union
<1>3. {"xenwatch"} \cup {"suspend"} = {"xenwatch", "suspend"}
  OBVIOUS
<1>4. IsFiniteSet(Actors)
  BY <1>1, <1>2, <1>3, FS_Union DEF Actors
<1> QED BY <1>4, XenbusAssumption DEF Actors

LEMMA Least ==
    ASSUME NEW T, T \subseteq Nat, T # {}
    PROVE  \E n \in T : \A m \in T : n <= m
  <1>1. PICK x \in T : \A y \in T : ~(<<y, x>> \in OpToRel(<,Nat))
    BY NatLessThanWellFounded, WFMin, Zenon
  <1>2. ASSUME NEW y \in T, y < x PROVE <<y, x>> \in OpToRel(<,Nat)
    <2> DEFINE p == <<y, x>>
    <2>1. p \in Nat \X Nat /\ p[1] < p[2]
      BY <1>2, SMT
    <2>2. p \in {ss \in Nat \X Nat : ss[1] < ss[2]}
      BY <2>1
    <2> QED BY <2>2, Zenon DEF OpToRel
  <1>3. \A y \in T : ~(y < x)
    BY <1>1, <1>2, Zenon
  <1>4. \A y \in T : x <= y
    BY <1>3, SMT
  <1> QED BY <1>4

LEMMA WithoutType ==
    ASSUME NEW S, NEW s \in Seq(S), NEW w
    PROVE  /\ Without(s, w) \in Seq(S)
           /\ \A k \in DOMAIN Without(s, w) :
                  Without(s, w)[k] # w /\ \E j \in DOMAIN s : s[j] = Without(s, w)[k]
           /\ \A j \in DOMAIN s : s[j] # w =>
                  \E k \in DOMAIN Without(s, w) : Without(s, w)[k] = s[j]
PROOF
<1> DEFINE G == [0 .. Len(s) -> Seq(S)]
           Step(g, k) == IF k = 0 THEN <<>>
                         ELSE IF s[k] = w THEN g[k - 1] ELSE Append(g[k - 1], s[k])
           From(x) == x # w /\ \E j \in DOMAIN s : s[j] = x
           Good(t) == t \in Seq(S) /\ \A k \in DOMAIN t : From(t[k])
           Built(g, n) == \A k \in 0 .. n : g[k] = Step(g, k) /\ Good(g[k])
           Bad == {n \in Nat : n <= Len(s) /\ ~ \E g \in G : Built(g, n)}
<1>1. Len(s) \in Nat
  OBVIOUS
<1>2. Bad = {}
  <2> SUFFICES ASSUME Bad # {} PROVE FALSE
    OBVIOUS
  <2>1. PICK n \in Bad : \A m \in Bad : n <= m
    BY Least, Zenon
  <2>2. n \in Nat /\ n <= Len(s) /\ ~ \E g \in G : Built(g, n)
    BY <2>1
  <2>3. CASE n = 0
    <3> DEFINE g == [k \in 0 .. Len(s) |-> <<>>]
    <3>1. g \in G
      BY <1>1
    <3>2. \A k \in 0 .. n : g[k] = Step(g, k) /\ Good(g[k])
      BY <2>3, <1>1
    <3> QED BY <2>2, <3>1, <3>2
  <2>4. CASE n # 0
    <3>0. n - 1 \in Nat /\ n - 1 <= Len(s) /\ ~(n <= n - 1)
      BY <2>2, <2>4, <1>1, SMT
    <3>1. n - 1 \notin Bad
      BY <2>1, <3>0, Zenon
    <3>2. PICK h \in G : \A k \in 0 .. n - 1 : h[k] = Step(h, k) /\ Good(h[k])
      BY <3>0, <3>1
    <3> DEFINE v == Step(h, n)
               g == [k \in 0 .. Len(s) |-> IF k = n THEN v ELSE h[k]]
    <3>3. n \in 0 .. Len(s) /\ n - 1 \in 0 .. Len(s) /\ n \in DOMAIN s /\ s[n] \in S
      BY <2>2, <2>4, <1>1, SMT
    <3>4. h[n - 1] \in Seq(S) /\ Good(h[n - 1])
      <4> HIDE DEF Good
      <4>1. n - 1 \in 0 .. n - 1
        BY <3>0
      <4>2. Good(h[n - 1])
        BY <4>1, <3>2
      <4> QED BY <4>2, <3>2, <3>3
    <3>5. Good(v)
      <4>1. CASE s[n] = w
        BY <4>1, <3>4, <2>4
      <4>2. CASE s[n] # w
        <5>1. v = Append(h[n - 1], s[n])
          BY <4>2, <2>4
        <5> DEFINE t == h[n - 1]
        <5>2. t \in Seq(S) /\ v = Append(t, s[n]) /\ \A k \in DOMAIN t : From(t[k])
          BY <5>1, <3>4
        <5> HIDE DEF t
        <5> HIDE DEF v
        <5>4. /\ v \in Seq(S) /\ Len(v) = Len(t) + 1 /\ v[Len(t) + 1] = s[n]
              /\ \A k \in 1 .. Len(t) : v[k] = t[k]
          BY <5>2, <3>3, SMT
        <5>5. DOMAIN v = 1 .. Len(v) /\ DOMAIN t = 1 .. Len(t) /\ Len(t) \in Nat
          BY <5>2, <5>4
        <5>3. \A k \in DOMAIN v : From(v[k])
          <6> SUFFICES ASSUME NEW k \in DOMAIN v PROVE From(v[k])
            OBVIOUS
          <6>1. CASE k = Len(t) + 1
            BY <6>1, <5>4, <4>2, <3>3
          <6>2. CASE k \in 1 .. Len(t)
            BY <6>2, <5>4, <5>5, <5>2
          <6> QED BY <6>1, <6>2, <5>4, <5>5, SMT
        <5> QED BY <5>3, <5>4
      <4> QED BY <4>1, <4>2
    <3>6. g \in G
      BY <3>5, <3>2, <1>1
    <3>7. \A k \in 0 .. n : g[k] = Step(g, k) /\ Good(g[k])
      <4> SUFFICES ASSUME NEW k \in 0 .. n PROVE g[k] = Step(g, k) /\ Good(g[k])
        OBVIOUS
      <4> HIDE DEF Good
      <4>1. k \in 0 .. Len(s)
            /\ (k # 0 => k - 1 \in 0 .. Len(s) /\ k - 1 # n /\ g[k - 1] = h[k - 1])
        BY <3>3, <2>2, <1>1, SMT
      <4>2. CASE k = n
        BY <4>1, <4>2, <3>5, <2>4
      <4>3. CASE k # n
        <5>1. k \in 0 .. n - 1 /\ g[k] = h[k]
          BY <4>1, <4>3, <2>2, SMT
        <5> QED BY <5>1, <4>1, <3>2
      <4> QED BY <4>2, <4>3
    <3> QED BY <2>2, <3>6, <3>7
  <2> QED BY <2>3, <2>4
<1> DEFINE F == CHOOSE g : g = [k \in 0 .. Len(s) |-> Step(g, k)]
<1>3. PICK g \in G : \A k \in 0 .. Len(s) : g[k] = Step(g, k) /\ Good(g[k])
  <2>1. Len(s) \notin Bad
    BY <1>2
  <2>2. Len(s) \in Nat /\ Len(s) <= Len(s)
    BY <1>1
  <2> QED BY <2>1, <2>2, Zenon
<1>4. g = [k \in 0 .. Len(s) |-> Step(g, k)]
  <2> HIDE DEF Step
  <2> QED BY <1>3
<1>5. F = [k \in 0 .. Len(s) |-> Step(F, k)]
  <2> HIDE DEF Step
  <2> QED BY <1>4, Zenon
<1>6. Without(s, w) = F[Len(s)]
  BY Zenon DEF Without
<1>7. \A k \in 0 .. Len(s) : F[k] = Step(F, k)
  <2> HIDE DEF F, Step
  <2> QED BY <1>5
<1> HIDE DEF F
<1> DEFINE Wrong == {n \in Nat : n <= Len(s) /\ F[n] # g[n]}
<1>8. Wrong = {}
  <2> SUFFICES ASSUME Wrong # {} PROVE FALSE
    OBVIOUS
  <2>1. PICK n \in Wrong : \A m \in Wrong : n <= m
    BY Least, Zenon
  <2>2. n \in Nat /\ n <= Len(s) /\ F[n] # g[n] /\ n \in 0 .. Len(s)
    BY <2>1, <1>1
  <2>3. F[n] = Step(F, n) /\ g[n] = Step(g, n)
    <3> HIDE DEF Step, Good
    <3> QED BY <2>2, <1>3, <1>7
  <2>4. CASE n = 0
    BY <2>2, <2>3, <2>4
  <2>5. CASE n # 0
    <3>1. n - 1 \in Nat /\ n - 1 <= Len(s) /\ ~(n <= n - 1)
      BY <2>2, <2>5, <1>1, SMT
    <3>2. n - 1 \notin Wrong
      BY <2>1, <3>1, Zenon
    <3>3. F[n - 1] = g[n - 1]
      BY <3>1, <3>2
    <3> QED BY <3>3, <2>3, <2>2, <2>5
  <2> QED BY <2>4, <2>5
<1>9. F[Len(s)] = g[Len(s)] /\ Good(g[Len(s)])
  <2>1. Len(s) \notin Wrong /\ Len(s) \in 0 .. Len(s)
    BY <1>8, <1>1
  <2> HIDE DEF Good
  <2>2. F[Len(s)] = g[Len(s)]
    BY <2>1, <1>1
  <2> QED BY <2>1, <2>2, <1>3
<1> DEFINE Has(n, x) == \E i \in DOMAIN g[n] : g[n][i] = x
           Kept(n) == \A j \in DOMAIN s : j <= n /\ s[j] # w => Has(n, s[j])
           Lost == {n \in Nat : n <= Len(s) /\ ~Kept(n)}
<1>10. Lost = {}
  <2> SUFFICES ASSUME Lost # {} PROVE FALSE
    OBVIOUS
  <2>1. PICK n \in Lost : \A m \in Lost : n <= m
    BY Least, Zenon
  <2>2. n \in Nat /\ n <= Len(s) /\ n \in 0 .. Len(s)
    BY <2>1, <1>1
  <2>3. PICK j \in DOMAIN s : j <= n /\ s[j] # w /\ ~Has(n, s[j])
    <3> HIDE DEF Has
    <3> QED BY <2>1
  <2>4. n # 0 /\ j \in Nat /\ j # 0
    BY <2>2, <2>3, <1>1
  <2>5. n - 1 \in Nat /\ n - 1 <= Len(s) /\ ~(n <= n - 1) /\ n - 1 \in 0 .. Len(s)
    BY <2>2, <2>4, <1>1
  <2>6. n - 1 \notin Lost
    BY <2>1, <2>5, Zenon
  <2>7. Kept(n - 1)
    <3> HIDE DEF Kept
    <3> QED BY <2>5, <2>6
  <2>8. g[n] = Step(g, n) /\ g[n - 1] \in Seq(S)
    <3> HIDE DEF Step, Good
    <3> QED BY <2>2, <2>5, <1>3
  <2>9. CASE j <= n - 1
    <3>1. Has(n - 1, s[j])
      <4> HIDE DEF Has
      <4> QED BY <2>7, <2>9, <2>3
    <3>2. PICK i \in DOMAIN g[n - 1] : g[n - 1][i] = s[j]
      BY <3>1
    <3>3. i \in DOMAIN g[n] /\ g[n][i] = s[j]
      <4>1. CASE s[n] = w
        BY <4>1, <3>2, <2>8, <2>4
      <4>2. CASE s[n] # w
        <5> DEFINE t == g[n - 1]
        <5>1. t \in Seq(S) /\ g[n] = Append(t, s[n])
          BY <4>2, <2>8, <2>4
        <5>2. i \in DOMAIN t /\ t[i] = s[j]
          BY <3>2
        <5> HIDE DEF t
        <5>3. i \in DOMAIN Append(t, s[n]) /\ Append(t, s[n])[i] = t[i]
          <6>1. s[n] \in S /\ Len(t) \in Nat /\ DOMAIN t = 1 .. Len(t)
            BY <5>1, <2>2, <2>4, <1>1
          <6> QED BY <6>1, <5>1, <5>2, SMT
        <5> QED BY <5>1, <5>2, <5>3
      <4> QED BY <4>1, <4>2
    <3> QED BY <3>3, <2>3
  <2>10. CASE j = n
    <3> DEFINE t == g[n - 1]
    <3>1. t \in Seq(S) /\ g[n] = Append(t, s[n])
      BY <2>10, <2>8, <2>4, <2>3
    <3> HIDE DEF t
    <3>2. Len(t) + 1 \in DOMAIN g[n] /\ g[n][Len(t) + 1] = s[n]
      BY <3>1
    <3> QED BY <3>2, <2>10, <2>3
  <2> QED BY <2>9, <2>10, <2>3, <2>2, <2>4
<1>11. \A j \in DOMAIN s : s[j] # w => Has(Len(s), s[j])
  <2>1. Kept(Len(s))
    <3> HIDE DEF Kept
    <3> QED BY <1>10, <1>1
  <2> HIDE DEF Has
  <2> QED BY <2>1, <1>1
<1>12. Without(s, w) = g[Len(s)]
  BY <1>6, <1>9, Zenon
<1> HIDE DEF Without
<1> QED BY <1>12, <1>9, <1>11

(* Nothing is under way when nobody waits.                                 *)
LEMMA NobodyTalks ==
    ASSUME Talking, \A a \in Actors : act[a].at # "reply"
    PROVE  /\ req = <<>> /\ reply_list = <<>> /\ reader.msg.kind # "reply"
           /\ \A k \in DOMAIN rsp : ~Header(rsp, k)
<1>1. \A m : ~Awaited(m)
  BY DEF Awaited
<1> QED BY <1>1 DEF Talking

(* Steps of threads that do not wait change nothing of a conversation.     *)
LEMMA StillTalking ==
    ASSUME Talking, UNCHANGED <<request_mutex, req, reply_list, reader, rsp>>,
           \A b \in Actors : act[b].at = "reply" <=> act'[b].at = "reply",
           \A b \in Actors : act[b].at = "reply" => act'[b] = act[b]
    PROVE  Talking'
<1>1. \A m : Awaited(m)' <=> Awaited(m)
  BY DEF Awaited
<1>2. \A k \in DOMAIN rsp : Header(rsp, k)' <=> Header(rsp, k)
  BY DEF Header
<1>3. req # <<>> => act'[req[1].to] = act[req[1].to]
  BY DEF Talking, Awaited
<1> QED BY <1>1, <1>2, <1>3 DEF Talking

(* A watch that is not on the list stays silent, or in use.                *)
LEMMA StillSilent ==
    ASSUME Silent, UNCHANGED <<watches, running, own, watch_events>>,
           \A a \in Actors : act[a].w \in Watches \ watches => act'[a].w = act[a].w
    PROVE  Silent'
<1>1. \A w \in Watches \ watches : Used(w) => Used(w)'
  BY DEF Used
<1> QED BY <1>1 DEF Silent

(* Who is in a transaction is counted.                                     *)
LEMMA StillCounted ==
    ASSUME Counted, InTx' = InTx, UNCHANGED transaction_count
    PROVE  Counted'
  BY DEF Counted

(* What is left of a queue when its head is taken.                         *)
LEMMA TailIs ==
    ASSUME NEW S, NEW s \in Seq(S), s # <<>>
    PROVE  /\ Head(s) = s[1] /\ s[1] \in S /\ Tail(s) \in Seq(S) /\ Len(s) \in Nat
           /\ DOMAIN s = 1 .. Len(s) /\ DOMAIN Tail(s) = 1 .. Len(s) - 1
           /\ \A k \in DOMAIN Tail(s) : k + 1 \in DOMAIN s /\ Tail(s)[k] = s[k + 1]
  OBVIOUS

(* What is added to the response ring when xenstored sends a message.      *)
LEMMA PartsAre ==
    ASSUME NEW q \in Seq(PartType), NEW m \in Msgs
    PROVE  /\ q \o Parts(m) \in Seq(PartType)
           /\ Len(q \o Parts(m)) = Len(q) + 2 /\ Len(q) \in Nat
           /\ DOMAIN (q \o Parts(m)) = 1 .. Len(q) + 2 /\ DOMAIN q = 1 .. Len(q)
           /\ \A k \in DOMAIN q : (q \o Parts(m))[k] = q[k]
           /\ (q \o Parts(m))[Len(q) + 1] = [part |-> "header", msg |-> m]
           /\ (q \o Parts(m))[Len(q) + 2] = [part |-> "body", msg |-> m]
<1> DEFINE x == [part |-> "header", msg |-> m]
           y == [part |-> "body", msg |-> m]
           t == <<x, y>>
<1>1. x \in PartType /\ y \in PartType
  BY DEF PartType
<1>2. Parts(m) = t
  BY Zenon DEF Parts
<1> HIDE DEF x, y
<1>3. t \in Seq(PartType) /\ Len(t) = 2 /\ t[1] = x /\ t[2] = y
  BY <1>1
<1> HIDE DEF t
<1>4. /\ q \o t \in Seq(PartType) /\ Len(q \o t) = Len(q) + Len(t)
      /\ \A i \in 1 .. Len(q) + Len(t) :
             (q \o t)[i] = IF i <= Len(q) THEN q[i] ELSE t[i - Len(q)]
  BY <1>3, ConcatProperties, Zenon
<1>5. Len(q) \in Nat /\ DOMAIN q = 1 .. Len(q) /\ DOMAIN (q \o t) = 1 .. Len(q \o t)
  BY <1>4, LenProperties
<1> DEFINE r == q \o t
<1> HIDE DEF r
<1>6. /\ Len(r) = Len(q) + 2 /\ DOMAIN r = 1 .. Len(q) + 2
      /\ \A k \in DOMAIN q : r[k] = q[k]
      /\ r[Len(q) + 1] = x /\ r[Len(q) + 2] = y
  BY <1>3, <1>4, <1>5 DEF r
<1> QED BY <1>2, <1>4, <1>5, <1>6 DEF r, x, y

LEMMA PartsArePaired ==
    ASSUME NEW q \in Seq(PartType), Paired(q), NEW m \in Msgs
    PROVE  Paired(q \o Parts(m))
<1> DEFINE n == Len(q)
           r == q \o Parts(m)
<1>1. /\ n \in Nat /\ DOMAIN r = 1 .. n + 2 /\ DOMAIN q = 1 .. n
      /\ \A k \in DOMAIN q : r[k] = q[k]
      /\ r[n + 1] = [part |-> "header", msg |-> m]
      /\ r[n + 2] = [part |-> "body", msg |-> m]
  BY PartsAre, Zenon
<1> HIDE DEF n, r
<1> SUFFICES ASSUME NEW k \in DOMAIN r
             PROVE  /\ r[k].part = "header" =>
                          /\ k + 1 \in DOMAIN r
                          /\ r[k + 1] = [part |-> "body", msg |-> r[k].msg]
                    /\ r[k].part = "body" /\ k + 1 \in DOMAIN r => r[k + 1].part = "header"
  BY DEF Paired, r
<1>2. CASE k + 1 <= n
  <2>1. k \in DOMAIN q /\ k + 1 \in DOMAIN q /\ r[k] = q[k] /\ r[k + 1] = q[k + 1]
    BY <1>1, <1>2
  <2> QED BY <2>1, <1>1 DEF Paired
<1>3. CASE k = n
  <2>1. k \in DOMAIN q /\ k + 1 \notin DOMAIN q /\ r[k] = q[k]
    BY <1>1, <1>3
  <2>2. q[k].part # "header"
    BY <2>1 DEF Paired
  <2> QED BY <2>1, <2>2, <1>1, <1>3
<1>4. CASE k = n + 1
  BY <1>1, <1>4
<1>5. CASE k = n + 2
  BY <1>1, <1>5
<1> QED BY <1>1, <1>2, <1>3, <1>4, <1>5

(* What a message adds to the response ring.                               *)
LEMMA Sends ==
    ASSUME NEW q \in Seq(PartType), Fits(q), NEW m \in Msgs
    PROVE  /\ q \o Parts(m) \in Seq(PartType) /\ Fits(q \o Parts(m))
           /\ \A k \in DOMAIN (q \o Parts(m)) :
                  Header(q \o Parts(m), k) =>
                      \/ k \in DOMAIN q /\ Header(q, k) /\ (q \o Parts(m))[k] = q[k]
                      \/ /\ k = Len(q) + 1 /\ m.kind = "reply"
                         /\ (q \o Parts(m))[k] = [part |-> "header", msg |-> m]
<1> DEFINE n == Len(q)
           r == q \o Parts(m)
<1>1. /\ r \in Seq(PartType) /\ n \in Nat /\ DOMAIN r = 1 .. n + 2 /\ DOMAIN q = 1 .. n
      /\ \A k \in DOMAIN q : r[k] = q[k]
      /\ r[n + 1] = [part |-> "header", msg |-> m]
      /\ r[n + 2] = [part |-> "body", msg |-> m]
  BY PartsAre, Zenon
<1>2. Paired(r)
  BY PartsArePaired, Zenon DEF Fits
<1> HIDE DEF r
<1>3. Fits(r)
  <2>1. r # <<>> /\ 1 \in DOMAIN r
    BY <1>1
  <2>2. CASE q = <<>>
    <3>1. n = 0
      BY <2>2
    <3>2. r[1] = [part |-> "header", msg |-> m]
      BY <3>1, <1>1
    <3> QED BY <3>2, <2>1, <2>2, <1>2 DEF Fits
  <2>3. CASE q # <<>>
    <3>1. r[1] = q[1]
      BY <2>3, <1>1
    <3> QED BY <3>1, <2>1, <2>3, <1>2 DEF Fits
  <2> QED BY <2>2, <2>3
<1>4. ASSUME NEW k \in DOMAIN r, Header(r, k)
      PROVE  \/ k \in DOMAIN q /\ Header(q, k) /\ r[k] = q[k]
             \/ k = n + 1 /\ m.kind = "reply" /\ r[k] = [part |-> "header", msg |-> m]
  <2>1. r[k].part = "header" /\ r[k].msg.kind = "reply"
    BY <1>4 DEF Header
  <2>2. k # n + 2
    BY <2>1, <1>1
  <2>3. k \in DOMAIN q \/ k = n + 1
    BY <2>2, <1>1
  <2>4. CASE k \in DOMAIN q
    BY <2>4, <2>1, <1>1 DEF Header
  <2>5. CASE k = n + 1
    BY <2>5, <2>1, <1>1
  <2> QED BY <2>3, <2>4, <2>5
<1> QED BY <1>1, <1>3, <1>4 DEF r
-----------------------------------------------------------------------------
(* A thread begins an operation.                                           *)
LEMMA BeginKeeps ==
    ASSUME XInv, NEW a \in Actors, NEW job \in {"read", "start", "watch", "unwatch"},
           NEW w \in Watches \cup {NoOne},
           Begin(a, job, w)
    PROVE  XInv'
<1> USE Names DEF XInv
<1>1. Moves(a, job, w, act'[a].at) /\ act'[a].at = IF job = "read" THEN "ask" ELSE "lock"
  <2>1. act' = [act EXCEPT ![a] = [job |-> job, w |-> w, at |->
                   IF job = "read" THEN "ask" ELSE "lock"]]
    BY DEF Begin
  <2>2. act \in [Actors -> ActType]
    BY DEF Typed, ActTyped
  <2> QED BY <2>1, <2>2 DEF Moves, ActType, NoAct
<1>2. UNCHANGED <<open, transaction_mutex, transaction_count, request_mutex,
    response_mutex, xenwatch_mutex, watch_readers, watch_writer, watches, watch_events,
    reply_list, reader, running, own, sus, todo, req, rsp, tokens, txs, version, seen,
    changes, suspends>>
  BY DEF Begin, locks, lists, rings, stored, calls
<1>3. /\ act[a].job = "none" /\ act[a].w = NoOne /\ act[a].at = "idle"
      /\ (a = "xenwatch" => running # NoOne) /\ (a = "suspend" => sus = "devices")
      /\ job \in {"read", "start"} => w = NoOne
      /\ job = "start" => a \notin open
      /\ job \in {"watch", "unwatch"} => w \in Watches /\ \A b \in Actors : act[b].w # w
      /\ ops < Ops /\ ops' = ops + 1
  BY DEF Begin, Free, NoAct, Used
<1>4. InTx' = InTx
  BY <1>1, <1>2, <1>3 DEF InTx, Moves, Typed, ActTyped, Steps, StepOk
<1>5. Typed'
  BY <1>1, <1>2, <1>3 DEF Typed, ActTyped, LocksTyped, WatchesTyped, QueuesTyped,
    OthersTyped, PartType, Msgs, Msg, NoMsg, Moves
<1>6. Counted'
  BY <1>2, <1>4, StillCounted
<1>7. Steps'
  <2>1. ASSUME NEW b \in Actors, b # a PROVE StepOk(b)'
    BY <2>1, <1>1, <1>2, <1>3 DEF Steps, StepOk, Moves
  <2>2. StepOk(a)'
    BY <1>1, <1>2, <1>3 DEF Steps, StepOk, Moves, Typed, ActTyped, ActType
  <2> QED BY <2>1, <2>2 DEF Steps
<1>8. Places'
  BY <1>1, <1>2, <1>3 DEF Places, Typed, ActTyped, Steps, StepOk, Moves
<1>9. Listed'
  <2>1. ASSUME NEW b \in Actors, b # a PROVE ReadsWell(b)'
    BY <2>1, <1>1, <1>2, <1>3 DEF Listed, ReadsWell, Reads, Registers, Moves
  <2>2. ReadsWell(a)'
    BY <1>1, <1>2, <1>3 DEF Listed, ReadsWell, Reads, Registers, Moves
  <2>3. ASSUME NEW b \in Actors, NEW c \in Actors,
               Registers(b)', Registers(c)', act'[b].w = act'[c].w
        PROVE  b = c
    <3>1. b # a /\ c # a => b = c
      BY <2>3, <1>1 DEF Listed, OneEach, Registers, Moves
    <3>2. b = a /\ c # a => FALSE
      BY <2>3, <1>1, <1>3 DEF Registers, Moves
    <3>3. b # a /\ c = a => FALSE
      BY <2>3, <1>1, <1>3 DEF Registers, Moves
    <3> QED BY <3>1, <3>2, <3>3
  <2>4. OneEach'
    BY <2>3 DEF OneEach
  <2> QED BY <2>1, <2>2, <2>4, <1>2 DEF Listed, Quiet, Locked, Frozen, Typed, LocksTyped
<1>10. Held'
  BY <1>1, <1>2, <1>3, <1>4 DEF Held, Typed, LocksTyped, Places, Quiet, Locked, Frozen,
    Moves
<1>11. Talking'
  BY <1>1, <1>2, <1>3, StillTalking DEF Moves
<1>12. Known'
  BY <1>1, <1>2, <1>3 DEF Known, KnownOk, Typed, ActTyped, OthersTyped, Steps, StepOk,
    Moves
<1>13. Silent'
  BY <1>1, <1>2, <1>3, StillSilent DEF Moves, Typed, ActTyped, Steps, StepOk, Listed,
    ReadsWell, Registers, Reads, NoAct
<1>14. InStep'
  BY <1>2 DEF InStep, Fits
<1> QED BY <1>5, <1>6, <1>7, <1>8, <1>9, <1>10, <1>11, <1>12, <1>13, <1>14

(* A thread begins to end its transaction: it stays in InTx.               *)
LEMMA BeginEndKeeps ==
    ASSUME XInv, NEW a \in Actors, BeginEnd(a)
    PROVE  XInv'
<1> USE Names DEF XInv
<1>1. Moves(a, "end", NoOne, "ask")
  <2>1. act' = [act EXCEPT ![a] = [job |-> "end", w |-> NoOne, at |-> "ask"]]
    BY DEF BeginEnd
  <2>2. act \in [Actors -> ActType]
    BY DEF Typed, ActTyped
  <2> QED BY <2>1, <2>2 DEF Moves, ActType, NoAct
<1>2. UNCHANGED <<transaction_mutex, transaction_count, request_mutex, response_mutex,
    xenwatch_mutex, watch_readers, watch_writer, watches, watch_events, reply_list,
    reader, running, own, sus, todo, req, rsp, tokens, txs, version, seen, ops, changes,
    suspends>>
  BY DEF BeginEnd, locks, lists, rings, stored, bounds, calls
<1>3. /\ act[a].job = "none" /\ act[a].at = "idle" /\ act[a].w = NoOne
      /\ a \in open /\ open' = open \ {a}
  BY DEF BeginEnd, NoAct
<1>4. InTx' = InTx
  BY <1>1, <1>2, <1>3 DEF InTx, Moves, Typed, ActTyped, Steps, StepOk
<1>5. Typed'
  BY <1>1, <1>2, <1>3 DEF Typed, ActTyped, LocksTyped, WatchesTyped, QueuesTyped,
    OthersTyped, PartType, Msgs, Msg, NoMsg, Moves
<1>6. Counted'
  BY <1>2, <1>4, StillCounted
<1>7. Steps'
  <2>1. ASSUME NEW b \in Actors, b # a PROVE StepOk(b)'
    BY <2>1, <1>1, <1>2, <1>3 DEF Steps, StepOk, Moves
  <2>2. StepOk(a)'
    BY <1>1, <1>2, <1>3 DEF Steps, StepOk, Moves, Typed, ActTyped, ActType
  <2> QED BY <2>1, <2>2 DEF Steps
<1>8. Places'
  BY <1>1, <1>2, <1>3 DEF Places, Typed, ActTyped, Steps, StepOk, Moves
<1>9. Listed'
  <2>1. ASSUME NEW b \in Actors, b # a PROVE ReadsWell(b)'
    BY <2>1, <1>1, <1>2, <1>3 DEF Listed, ReadsWell, Reads, Registers, Moves
  <2>2. ReadsWell(a)'
    BY <1>1, <1>2, <1>3 DEF Listed, ReadsWell, Reads, Registers, Moves
  <2>3. \A b \in Actors : Registers(b)' => Registers(b) /\ act'[b].w = act[b].w
    BY <1>1, <1>2, <1>3 DEF Registers, Moves
  <2>4. OneEach'
    BY <2>3 DEF Listed, OneEach
  <2> QED BY <2>1, <2>2, <2>4, <1>1, <1>2, <1>3 DEF Listed, Quiet, Locked, Frozen,
     Typed, LocksTyped
<1>10. Held'
  BY <1>1, <1>2, <1>3, <1>4 DEF Held, Typed, LocksTyped, Places, Quiet, Locked, Frozen,
    Moves
<1>11. Talking'
  BY <1>1, <1>2, <1>3, StillTalking DEF Moves
<1>12. Known'
  BY <1>1, <1>2, <1>3 DEF Known, KnownOk, Typed, ActTyped, OthersTyped, Steps, StepOk,
    Moves
<1>13. Silent'
  BY <1>1, <1>2, <1>3, StillSilent DEF Moves, Typed, ActTyped, Steps, StepOk, Listed,
    ReadsWell, Registers, Reads, NoAct
<1>14. InStep'
  BY <1>2 DEF InStep, Fits
<1> QED BY <1>5, <1>6, <1>7, <1>8, <1>9, <1>10, <1>11, <1>12, <1>13, <1>14

(* It is counted under transaction_mutex, which xs_suspend does not hold.  *)
LEMMA TransactionStartKeeps ==
    ASSUME XInv, NEW a \in Actors, TransactionStart(a)
    PROVE  XInv'
<1> USE Names DEF XInv
<1>1. Moves(a, act[a].job, act[a].w, "ask")
  <2>1. act' = [act EXCEPT ![a].at = "ask"]
    BY DEF TransactionStart, At
  <2>2. act \in [Actors -> ActType]
    BY DEF Typed, ActTyped
  <2> QED BY <2>1, <2>2 DEF Moves, ActType, NoAct
<1>2. UNCHANGED <<open, transaction_mutex, request_mutex, response_mutex,
    xenwatch_mutex, watch_readers, watch_writer, watches, watch_events, reply_list,
    reader, running, own, sus, todo, req, rsp, tokens, txs, version, seen, ops, changes,
    suspends>>
  BY DEF TransactionStart, lists, rings, stored, bounds, calls
<1>3. /\ act[a].at = "lock" /\ act[a].job = "start" /\ transaction_mutex = NoOne
      /\ transaction_count' = transaction_count + 1
  BY DEF TransactionStart
<1>4. InTx' = InTx \cup {a} /\ a \notin InTx
  BY <1>1, <1>2, <1>3 DEF InTx, Moves, Typed, ActTyped, Steps, StepOk
<1>5. Typed'
  BY <1>1, <1>2, <1>3 DEF Typed, ActTyped, LocksTyped, WatchesTyped, QueuesTyped,
    OthersTyped, PartType, Msgs, Msg, NoMsg, Moves
<1>6. Counted'
  <2>1. IsFiniteSet(InTx)
    BY FS_Subset DEF InTx, Typed, ActTyped
  <2>2. Cardinality(InTx') = Cardinality(InTx) + 1
    BY <2>1, <1>4, FS_AddElement
  <2> QED BY <2>2, <1>3, <1>4 DEF Counted, Typed, LocksTyped
<1>7. Steps'
  <2>1. ASSUME NEW b \in Actors, b # a PROVE StepOk(b)'
    BY <2>1, <1>1, <1>2, <1>3 DEF Steps, StepOk, Moves
  <2>2. StepOk(a)'
    BY <1>1, <1>2, <1>3 DEF Steps, StepOk, Moves, Typed, ActTyped, ActType
  <2> QED BY <2>1, <2>2 DEF Steps
<1>8. Places'
  BY <1>1, <1>2, <1>3 DEF Places, Typed, ActTyped, Steps, StepOk, Moves
<1>9. Listed'
  <2>1. ASSUME NEW b \in Actors, b # a PROVE ReadsWell(b)'
    BY <2>1, <1>1, <1>2, <1>3 DEF Listed, ReadsWell, Reads, Registers, Moves
  <2>2. ReadsWell(a)'
    BY <1>1, <1>2, <1>3 DEF Listed, ReadsWell, Reads, Registers, Moves
  <2>3. \A b \in Actors : Registers(b)' => Registers(b) /\ act'[b].w = act[b].w
    BY <1>1, <1>2, <1>3 DEF Registers, Moves
  <2>4. OneEach'
    BY <2>3 DEF Listed, OneEach
  <2> QED BY <2>1, <2>2, <2>4, <1>1, <1>2, <1>3 DEF Listed, Quiet, Locked, Frozen,
     Typed, LocksTyped
<1>10. Held'
  BY <1>1, <1>2, <1>3, <1>4 DEF Held, Typed, LocksTyped, Places, Quiet, Locked, Frozen,
    Moves
<1>11. Talking'
  BY <1>1, <1>2, <1>3, StillTalking DEF Moves
<1>12. Known'
  BY <1>1, <1>2, <1>3 DEF Known, KnownOk, Typed, ActTyped, OthersTyped, Steps, StepOk,
    Moves
<1>13. Silent'
  BY <1>1, <1>2, <1>3, StillSilent DEF Moves, Typed, ActTyped, Steps, StepOk, Listed,
    ReadsWell, Registers, Reads, NoAct
<1>14. InStep'
  BY <1>2 DEF InStep, Fits
<1> QED BY <1>5, <1>6, <1>7, <1>8, <1>9, <1>10, <1>11, <1>12, <1>13, <1>14

(* A watch goes on the list, or off it, under watch_mutex.                 *)
LEMMA WatchLocksKeeps ==
    ASSUME XInv, NEW a \in Actors, WatchLocks(a)
    PROVE  XInv'
<1> USE Names DEF XInv
<1>1. Moves(a, act[a].job, act[a].w, "ask")
  <2>1. act' = [act EXCEPT ![a].at = "ask"]
    BY DEF WatchLocks, At
  <2>2. act \in [Actors -> ActType]
    BY DEF Typed, ActTyped
  <2> QED BY <2>1, <2>2 DEF Moves, ActType, NoAct
<1>2. UNCHANGED <<open, transaction_mutex, transaction_count, request_mutex,
    response_mutex, xenwatch_mutex, watch_writer, watch_events, reply_list, reader,
    running, own, sus, todo, req, rsp, tokens, txs, version, seen, ops, changes,
    suspends>>
  BY DEF WatchLocks, rings, stored, bounds, calls
<1>3. /\ act[a].at = "lock" /\ act[a].job \in {"watch", "unwatch"} /\ watch_writer = NoOne
      /\ watch_readers' = watch_readers \cup {a}
      /\ watches' = IF act[a].job = "watch" THEN watches \cup {act[a].w}
                                             ELSE watches \ {act[a].w}
      /\ sus # "rewatch" /\ act[a].w \in Watches
  BY DEF WatchLocks, Listed, Typed, ActTyped, ActType, Steps, StepOk
<1>4. InTx' = InTx
  BY <1>1, <1>2, <1>3 DEF InTx, Moves, Typed, ActTyped, Steps, StepOk
<1>5. Typed'
  <2>1. watches' \subseteq Watches
    BY <1>3 DEF Typed, WatchesTyped
  <2>2. WatchesTyped'
    BY <2>1, <1>2 DEF Typed, WatchesTyped
  <2> QED BY <2>2, <1>1, <1>2, <1>3 DEF Typed, ActTyped, LocksTyped, QueuesTyped,
      OthersTyped, Moves
<1>6. Counted'
  BY <1>2, <1>4, StillCounted
<1>7. Steps'
  <2>1. ASSUME NEW b \in Actors, b # a PROVE StepOk(b)'
    BY <2>1, <1>1, <1>2, <1>3 DEF Steps, StepOk, Moves
  <2>2. StepOk(a)'
    BY <1>1, <1>2, <1>3 DEF Steps, StepOk, Moves, Typed, ActTyped, ActType
  <2> QED BY <2>1, <2>2 DEF Steps
<1>8. Places'
  BY <1>1, <1>2, <1>3 DEF Places, Typed, ActTyped, Steps, StepOk, Moves
<1>9. Listed'
  <2>1. ASSUME NEW b \in Actors, b # a PROVE ReadsWell(b)'
    <3>1. Registers(b) => act[b].w # act[a].w
      BY <2>1, <1>3 DEF Listed, OneEach, Registers
    <3> QED BY <3>1, <2>1, <1>1, <1>3 DEF Listed, ReadsWell, Reads, Registers, Moves
  <2>2. ReadsWell(a)'
    BY <1>1, <1>2, <1>3 DEF ReadsWell, Reads, Registers, Moves
  <2>3. \A b \in Actors : Registers(b)' => Registers(b) /\ act'[b].w = act[b].w
    BY <1>1, <1>2, <1>3 DEF Registers, Moves
  <2>4. OneEach'
    BY <2>3 DEF Listed, OneEach
  <2> QED BY <2>1, <2>2, <2>4, <1>2, <1>3 DEF Listed, Quiet, Locked, Frozen
<1>10. Held'
  BY <1>1, <1>2, <1>3, <1>4 DEF Held, Typed, LocksTyped, Places, Quiet, Locked, Frozen,
    Moves
<1>11. Talking'
  BY <1>1, <1>2, <1>3, StillTalking DEF Moves
<1>12. Known'
  BY <1>1, <1>2, <1>3 DEF Known, KnownOk, Typed, ActTyped, OthersTyped, Steps, StepOk,
    Moves
<1>13. Silent'
  BY <1>1, <1>2, <1>3 DEF Silent, Used, Typed, ActTyped, WatchesTyped, Moves
<1>14. InStep'
  BY <1>2 DEF InStep, Fits
<1> QED BY <1>5, <1>6, <1>7, <1>8, <1>9, <1>10, <1>11, <1>12, <1>13, <1>14

(* request_mutex was free: nothing was under way.                          *)
LEMMA AskKeeps ==
    ASSUME XInv, NEW a \in Actors, Ask(a)
    PROVE  XInv'
<1> USE Names DEF XInv
<1>1. Moves(a, act[a].job, act[a].w, "reply")
  <2>1. act' = [act EXCEPT ![a].at = "reply"]
    BY DEF Ask, At
  <2>2. act \in [Actors -> ActType]
    BY DEF Typed, ActTyped
  <2> QED BY <2>1, <2>2 DEF Moves, ActType, NoAct
<1>2. UNCHANGED <<open, transaction_mutex, transaction_count, response_mutex,
    xenwatch_mutex, watch_readers, watch_writer, watches, watch_events, reply_list,
    reader, running, own, sus, todo, rsp, tokens, txs, version, seen, ops, changes,
    suspends>>
  BY DEF Ask, lists, stored, bounds, calls
<1>3. /\ act[a].at = "ask" /\ request_mutex = NoOne /\ request_mutex' = a
      /\ req' = Append(req, [kind |-> act[a].job, to |-> a, w |-> act[a].w])
  BY DEF Ask, Msg
<1>4. InTx' = InTx
  BY <1>1, <1>2, <1>3 DEF InTx, Moves, Typed, ActTyped, Steps, StepOk
<1>5. Typed'
  <2> DEFINE m == [kind |-> act[a].job, to |-> a, w |-> act[a].w]
  <2>1. m \in Msgs
    BY DEF Msgs, Typed, ActTyped, ActType
  <2>2. req' \in Seq(Msgs)
    BY <2>1, <1>3 DEF Typed, QueuesTyped
  <2> HIDE DEF m
  <2>3. QueuesTyped'
    BY <2>2, <1>2 DEF Typed, QueuesTyped
  <2> QED BY <2>3, <1>1, <1>2, <1>3 DEF Typed, ActTyped, LocksTyped, WatchesTyped,
      OthersTyped, Moves
<1>6. Counted'
  BY <1>2, <1>4, StillCounted
<1>7. Steps'
  <2>1. ASSUME NEW b \in Actors, b # a PROVE StepOk(b)'
    BY <2>1, <1>1, <1>2, <1>3 DEF Steps, StepOk, Moves
  <2>2. StepOk(a)'
    BY <1>1, <1>2, <1>3 DEF Steps, StepOk, Moves, Typed, ActTyped, ActType
  <2> QED BY <2>1, <2>2 DEF Steps
<1>8. Places'
  BY <1>1, <1>2, <1>3 DEF Places, Typed, ActTyped, Steps, StepOk, Moves
<1>9. Listed'
  <2>1. ASSUME NEW b \in Actors, b # a PROVE ReadsWell(b)'
    BY <2>1, <1>1, <1>2, <1>3 DEF Listed, ReadsWell, Reads, Registers, Moves
  <2>2. ReadsWell(a)'
    BY <1>1, <1>2, <1>3 DEF Listed, ReadsWell, Reads, Registers, Moves
  <2>3. \A b \in Actors : Registers(b)' => Registers(b) /\ act'[b].w = act[b].w
    BY <1>1, <1>2, <1>3 DEF Registers, Moves
  <2>4. OneEach'
    BY <2>3 DEF Listed, OneEach
  <2> QED BY <2>1, <2>2, <2>4, <1>1, <1>2, <1>3 DEF Listed, Quiet, Locked, Frozen,
     Typed, LocksTyped
<1>10. Held'
  BY <1>1, <1>2, <1>3, <1>4 DEF Held, Typed, LocksTyped, Places, Quiet, Locked, Frozen,
    Moves
<1>11. Talking'
  BY <1>1, <1>2, <1>3 DEF Talking, Awaited, Header, Msg, NoMsg, Typed, ActTyped,
    QueuesTyped, Steps, StepOk, Moves
<1>12. Known'
  <2>1. \A b \in Actors : act[b].at # "reply"
    BY <1>3 DEF Talking
  <2>2. req = <<>>
    BY <2>1, NobodyTalks
  <2>3. req' # <<>> /\ req'[1].to = a
    BY <2>2, <1>3
  <2>4. ASSUME NEW b \in Actors, b # a PROVE KnownOk(b)'
    BY <2>4, <2>1, <1>1, <1>2 DEF Known, KnownOk, Moves
  <2>5. KnownOk(a)'
    BY <2>3, <1>1 DEF KnownOk, Moves
  <2> QED BY <2>4, <2>5, <1>2 DEF Known
<1>13. Silent'
  BY <1>1, <1>2, <1>3, StillSilent DEF Moves, Typed, ActTyped, Steps, StepOk, Listed,
    ReadsWell, Registers, Reads, NoAct
<1>14. InStep'
  BY <1>2 DEF InStep, Fits
<1> QED BY <1>5, <1>6, <1>7, <1>8, <1>9, <1>10, <1>11, <1>12, <1>13, <1>14

(* The reply was the only one, and the thread's own.                       *)
LEMMA ReadReplyKeeps ==
    ASSUME XInv, NEW a \in Actors, ReadReply(a)
    PROVE  XInv'
<1> USE Names DEF XInv
<1>1. Moves(a, act[a].job, act[a].w, "done")
  <2>1. act' = [act EXCEPT ![a].at = "done"]
    BY DEF ReadReply, At
  <2>2. act \in [Actors -> ActType]
    BY DEF Typed, ActTyped
  <2> QED BY <2>1, <2>2 DEF Moves, ActType, NoAct
<1>2. UNCHANGED <<open, transaction_mutex, transaction_count, response_mutex,
    xenwatch_mutex, watch_readers, watch_writer, watches, watch_events, reader, running,
    own, sus, todo, req, rsp, tokens, txs, version, seen, ops, changes, suspends>>
  BY DEF ReadReply, lists, rings, stored, bounds, calls
<1>3. /\ act[a].at = "reply" /\ reply_list # <<>> /\ reply_list' = Tail(reply_list)
      /\ request_mutex' = NoOne
  BY DEF ReadReply
<1>4. InTx' = InTx
  BY <1>1, <1>2, <1>3 DEF InTx, Moves, Typed, ActTyped, Steps, StepOk
<1>5. Typed'
  BY <1>1, <1>2, <1>3 DEF Typed, ActTyped, LocksTyped, WatchesTyped, QueuesTyped,
    OthersTyped, PartType, Msgs, Msg, NoMsg, Moves
<1>6. Counted'
  BY <1>2, <1>4, StillCounted
<1>7. Steps'
  <2>1. ASSUME NEW b \in Actors, b # a PROVE StepOk(b)'
    BY <2>1, <1>1, <1>2, <1>3 DEF Steps, StepOk, Moves
  <2>2. StepOk(a)'
    BY <1>1, <1>2, <1>3 DEF Steps, StepOk, Moves, Typed, ActTyped, ActType
  <2> QED BY <2>1, <2>2 DEF Steps
<1>8. Places'
  BY <1>1, <1>2, <1>3 DEF Places, Typed, ActTyped, Steps, StepOk, Moves
<1>9. Listed'
  <2>1. ASSUME NEW b \in Actors, b # a PROVE ReadsWell(b)'
    BY <2>1, <1>1, <1>2, <1>3 DEF Listed, ReadsWell, Reads, Registers, Moves
  <2>2. ReadsWell(a)'
    BY <1>1, <1>2, <1>3 DEF Listed, ReadsWell, Reads, Registers, Moves
  <2>3. \A b \in Actors : Registers(b)' => Registers(b) /\ act'[b].w = act[b].w
    BY <1>1, <1>2, <1>3 DEF Registers, Moves
  <2>4. OneEach'
    BY <2>3 DEF Listed, OneEach
  <2> QED BY <2>1, <2>2, <2>4, <1>1, <1>2, <1>3 DEF Listed, Quiet, Locked, Frozen,
     Typed, LocksTyped
<1>10. Held'
  <2>1. sus \notin Locked
    <3>1. request_mutex = a /\ act[a].job # "none"
      BY <1>3 DEF Talking, Steps, StepOk
    <3>2. a = "suspend" => sus \in {"rewatch", "devices"}
      BY <3>1 DEF Places
    <3> QED BY <3>1, <3>2 DEF Held, Locked, Frozen
  <2> QED BY <2>1, <1>2, <1>4 DEF Held, Quiet, Locked, Frozen
<1>11. Talking'
  BY <1>1, <1>2, <1>3 DEF Talking, Awaited, Header, Msg, NoMsg, Typed, ActTyped,
    QueuesTyped, Steps, StepOk, Moves
<1>12. Known'
  <2>1. req = <<>>
    BY <1>3 DEF Talking
  <2>2. ASSUME NEW b \in Actors, b # a PROVE KnownOk(b)'
    BY <2>2, <1>1, <1>2 DEF Known, KnownOk, Moves
  <2>3. KnownOk(a)'
    BY <2>1, <1>1, <1>2, <1>3 DEF Known, KnownOk, Moves
  <2> QED BY <2>2, <2>3, <1>2 DEF Known
<1>13. Silent'
  BY <1>1, <1>2, <1>3, StillSilent DEF Moves, Typed, ActTyped, Steps, StepOk, Listed,
    ReadsWell, Registers, Reads, NoAct
<1>14. InStep'
  BY <1>2 DEF InStep, Fits
<1> QED BY <1>5, <1>6, <1>7, <1>8, <1>9, <1>10, <1>11, <1>12, <1>13, <1>14

(* A reply to start has made the transaction known; end uncounts it.       *)
LEMMA DoneKeeps ==
    ASSUME XInv, NEW a \in Actors, Done(a)
    PROVE  XInv'
<1> USE Names DEF XInv
<1>1. IF act[a].job = "unwatch" THEN Moves(a, "unwatch", act[a].w, "purge")
                                ELSE Moves(a, "none", NoOne, "idle")
  <2>1. act' = [act EXCEPT ![a] = IF act[a].job = "unwatch" THEN [@ EXCEPT !.at = "purge"]
                                                            ELSE NoAct]
    BY DEF Done
  <2>2. act \in [Actors -> ActType]
    BY DEF Typed, ActTyped
  <2> QED BY <2>1, <2>2 DEF Moves, ActType, NoAct
<1>2. UNCHANGED <<transaction_mutex, request_mutex, response_mutex, xenwatch_mutex,
    watch_writer, watches, watch_events, reply_list, reader, running, own, sus, todo,
    req, rsp, tokens, txs, version, seen, ops, changes, suspends>>
  BY DEF Done, lists, rings, stored, bounds, calls
<1>3. /\ act[a].at = "done" /\ act[a].job # "rewatch"
      /\ open' = (IF act[a].job = "start" THEN open \cup {a} ELSE open)
      /\ transaction_count' = transaction_count - (IF act[a].job = "end" THEN 1 ELSE 0)
      /\ watch_readers' = watch_readers \ {a}
  BY DEF Done
<1>4. /\ act[a].job = "end" => InTx' = InTx \ {a} /\ a \in InTx
      /\ act[a].job # "end" => InTx' = InTx
  BY <1>1, <1>2, <1>3 DEF InTx, Moves, Typed, ActTyped, Steps, StepOk
<1>5. Typed'
  BY <1>1, <1>2, <1>3 DEF Typed, ActTyped, LocksTyped, WatchesTyped, QueuesTyped,
    OthersTyped, PartType, Msgs, Msg, NoMsg, Moves
<1>6. Counted'
  <2>1. IsFiniteSet(InTx)
    BY FS_Subset DEF InTx, Typed, ActTyped
  <2>2. act[a].job = "end" => Cardinality(InTx') = Cardinality(InTx) - 1
    BY <2>1, <1>4, FS_RemoveElement
  <2> QED BY <2>2, <1>3, <1>4 DEF Counted, Typed, LocksTyped
<1>7. Steps'
  <2>1. ASSUME NEW b \in Actors, b # a PROVE StepOk(b)'
    BY <2>1, <1>1, <1>2, <1>3 DEF Steps, StepOk, Moves
  <2>2. StepOk(a)'
    BY <1>1, <1>2, <1>3 DEF Steps, StepOk, Moves, Typed, ActTyped, ActType
  <2> QED BY <2>1, <2>2 DEF Steps
<1>8. Places'
  BY <1>1, <1>2, <1>3 DEF Places, Typed, ActTyped, Steps, StepOk, Moves
<1>9. Listed'
  <2>1. ASSUME NEW b \in Actors, b # a PROVE ReadsWell(b)'
    BY <2>1, <1>1, <1>2, <1>3 DEF Listed, ReadsWell, Reads, Registers, Moves
  <2>2. ReadsWell(a)'
    BY <1>1, <1>2, <1>3 DEF Listed, ReadsWell, Reads, Registers, Moves
  <2>3. \A b \in Actors : Registers(b)' => Registers(b) /\ act'[b].w = act[b].w
    BY <1>1, <1>2, <1>3 DEF Registers, Moves
  <2>4. OneEach'
    BY <2>3 DEF Listed, OneEach
  <2> QED BY <2>1, <2>2, <2>4, <1>1, <1>2, <1>3 DEF Listed, Quiet, Locked, Frozen,
     Typed, LocksTyped
<1>10. Held'
  BY <1>1, <1>2, <1>3, <1>4 DEF Held, Typed, LocksTyped, Places, Quiet, Locked, Frozen,
    Moves
<1>11. Talking'
  BY <1>1, <1>2, <1>3, StillTalking DEF Moves
<1>12. Known'
  BY <1>1, <1>2, <1>3 DEF Known, KnownOk, Typed, ActTyped, OthersTyped, Steps, StepOk,
    Moves
<1>13. Silent'
  <2>1. act[a].w \in Watches \ watches => act[a].job = "unwatch"
    BY <1>3 DEF Listed, ReadsWell, Reads, Registers, Steps, StepOk, Typed, ActTyped,
       ActType
  <2>2. \A b \in Actors : act[b].w \in Watches \ watches => act'[b].w = act[b].w
    BY <2>1, <1>1 DEF Moves
  <2> QED BY <2>2, <1>2, StillSilent
<1>14. InStep'
  BY <1>2 DEF InStep, Fits
<1> QED BY <1>5, <1>6, <1>7, <1>8, <1>9, <1>10, <1>11, <1>12, <1>13, <1>14

(* The events of the watch go, and its callback is not running elsewhere.  *)
LEMMA PurgeKeeps ==
    ASSUME XInv, NEW a \in Actors, Purge(a)
    PROVE  XInv'
<1> USE Names DEF XInv
<1>1. Moves(a, "none", NoOne, "idle")
  <2>1. act' = [act EXCEPT ![a] = NoAct]
    BY DEF Purge
  <2>2. act \in [Actors -> ActType]
    BY DEF Typed, ActTyped
  <2> QED BY <2>1, <2>2 DEF Moves, ActType, NoAct
<1>2. UNCHANGED <<open, transaction_mutex, transaction_count, request_mutex,
    response_mutex, xenwatch_mutex, watch_readers, watch_writer, watches, reply_list,
    reader, running, sus, todo, req, rsp, tokens, txs, version, seen, ops, changes,
    suspends>>
  BY DEF Purge, locks, rings, stored, bounds
<1>3. /\ act[a].at = "purge" /\ (a # "xenwatch" => xenwatch_mutex = NoOne)
      /\ watch_events' = Without(watch_events, act[a].w)
      /\ own' = IF a = "xenwatch" THEN own \cup {act[a].w} ELSE own
  BY DEF Purge
<1>4. InTx' = InTx
  BY <1>1, <1>2, <1>3 DEF InTx, Moves, Typed, ActTyped, Steps, StepOk
<1>5. Typed'
  <2>1. watch_events' \in Seq(Watches)
    BY <1>3, WithoutType DEF Typed, WatchesTyped
  <2>2. act[a].w \in Watches
    BY <1>3 DEF Steps, StepOk, Typed, ActTyped, ActType
  <2>3. WatchesTyped'
    BY <2>1, <2>2, <1>2, <1>3 DEF Typed, WatchesTyped
  <2> QED BY <2>3, <1>1, <1>2 DEF Typed, ActTyped, LocksTyped, QueuesTyped, OthersTyped,
     Moves
<1>6. Counted'
  BY <1>2, <1>4, StillCounted
<1>7. Steps'
  <2>1. ASSUME NEW b \in Actors, b # a PROVE StepOk(b)'
    BY <2>1, <1>1, <1>2, <1>3 DEF Steps, StepOk, Moves
  <2>2. StepOk(a)'
    BY <1>1, <1>2, <1>3 DEF Steps, StepOk, Moves, Typed, ActTyped, ActType
  <2> QED BY <2>1, <2>2 DEF Steps
<1>8. Places'
  BY <1>1, <1>2, <1>3 DEF Places, Typed, ActTyped, Steps, StepOk, Moves
<1>9. Listed'
  <2>1. ASSUME NEW b \in Actors, b # a PROVE ReadsWell(b)'
    BY <2>1, <1>1, <1>2, <1>3 DEF Listed, ReadsWell, Reads, Registers, Moves
  <2>2. ReadsWell(a)'
    BY <1>1, <1>2, <1>3 DEF Listed, ReadsWell, Reads, Registers, Moves
  <2>3. \A b \in Actors : Registers(b)' => Registers(b) /\ act'[b].w = act[b].w
    BY <1>1, <1>2, <1>3 DEF Registers, Moves
  <2>4. OneEach'
    BY <2>3 DEF Listed, OneEach
  <2> QED BY <2>1, <2>2, <2>4, <1>1, <1>2, <1>3 DEF Listed, Quiet, Locked, Frozen,
     Typed, LocksTyped
<1>10. Held'
  BY <1>1, <1>2, <1>3, <1>4 DEF Held, Typed, LocksTyped, Places, Quiet, Locked, Frozen,
    Moves
<1>11. Talking'
  BY <1>1, <1>2, <1>3, StillTalking DEF Moves
<1>12. Known'
  BY <1>1, <1>2, <1>3 DEF Known, KnownOk, Typed, ActTyped, OthersTyped, Steps, StepOk,
    Moves
<1>13. Silent'
  <2>1. \A k \in DOMAIN watch_events' :
            /\ watch_events'[k] # act[a].w
            /\ \E j \in DOMAIN watch_events : watch_events[j] = watch_events'[k]
    BY <1>3, WithoutType DEF Typed, WatchesTyped
  <2> SUFFICES ASSUME NEW v \in Watches \ watches, ~Used(v)'
               PROVE  /\ running = v => v \in own'
                      /\ \A k \in DOMAIN watch_events' : watch_events'[k] # v
    BY <1>2 DEF Silent
  <2>2. CASE v = act[a].w
    <3>1. running = v => a = "xenwatch"
      BY <1>3 DEF Places
    <3> QED BY <2>1, <2>2, <3>1, <1>3
  <2>3. CASE v # act[a].w
    <3>1. ~Used(v)
      BY <2>3, <1>1 DEF Used, Moves
    <3>2. (running = v => v \in own) /\ \A k \in DOMAIN watch_events : watch_events[k] # v
      BY <3>1 DEF Silent
    <3> QED BY <2>1, <3>2, <1>3
  <2> QED BY <2>2, <2>3
<1>14. InStep'
  BY <1>2 DEF InStep, Fits
<1> QED BY <1>5, <1>6, <1>7, <1>8, <1>9, <1>10, <1>11, <1>12, <1>13, <1>14

(* xenbus_thread wakes up.                                                 *)
LEMMA DataToReadKeeps ==
    ASSUME XInv, DataToRead
    PROVE  XInv'
<1> USE Names DEF XInv
<1>1. UNCHANGED <<act, open, transaction_mutex, transaction_count, request_mutex,
    response_mutex, xenwatch_mutex, watch_readers, watch_writer, watches, watch_events,
    reply_list, running, own, sus, todo, req, rsp, tokens, txs, version, seen, ops,
    changes, suspends>>
  BY DEF DataToRead, locks, lists, rings, stored, bounds, calls
<1>2. Typed'
  <2>1. QueuesTyped'
    BY <1>1 DEF Typed, QueuesTyped, PartType, Msgs, Msg, NoMsg, DataToRead
  <2>2. ActTyped' /\ LocksTyped' /\ WatchesTyped' /\ OthersTyped'
    BY <1>1 DEF Typed, ActTyped, LocksTyped, WatchesTyped, OthersTyped
  <2> QED BY <2>1, <2>2 DEF Typed
<1>3. Held'
  BY <1>1 DEF Held, Typed, ActTyped, LocksTyped, Steps, StepOk, Places, Quiet, Locked,
    Frozen, InTx, NoMsg, Msg, DataToRead
<1>4. Talking'
  BY <1>1 DEF Talking, Awaited, Header, Msg, NoMsg, Typed, ActTyped, QueuesTyped, Steps,
    StepOk, DataToRead
<1>5. InStep'
  BY <1>1 DEF InStep, Fits, Typed, QueuesTyped, PartType, Paired, Msg, NoMsg, DataToRead
<1>6. Counted' /\ Steps' /\ Places' /\ Listed' /\ Known' /\ Silent'
  BY <1>1 DEF Counted, InTx, Steps, Places, Listed, OneEach, ReadsWell, Registers,
    Reads, Quiet, Locked, Frozen, Known, KnownOk, Silent, Used, StepOk
<1> QED BY <1>2, <1>3, <1>4, <1>5, <1>6

(* The header at the head of the ring goes, its body stays.                *)
LEMMA ReadHeaderKeeps ==
    ASSUME XInv, ReadHeader
    PROVE  XInv'
<1> USE Names DEF XInv
<1>1. UNCHANGED <<act, open, transaction_mutex, transaction_count, request_mutex,
    xenwatch_mutex, watch_readers, watch_writer, watches, watch_events, reply_list,
    running, own, sus, todo, req, tokens, txs, version, seen, ops, changes, suspends>>
  BY DEF ReadHeader, lists, stored, bounds, calls
<1>2. /\ reader.at = "lock" /\ response_mutex = NoOne
      /\ \/ /\ reader' = [reader EXCEPT !.at = "wait"] /\ rsp = <<>> /\ rsp' = rsp
            /\ response_mutex' = response_mutex
         \/ /\ reader' = [at |-> "body", msg |-> rsp[1].msg]
            /\ rsp # <<>> /\ rsp' = Tail(rsp)
            /\ response_mutex' = "xenbus"
  BY DEF ReadHeader
<1>3. Typed'
  <2>1. LocksTyped'
    BY <1>1, <1>2 DEF Typed, LocksTyped
  <2>2. QueuesTyped'
    <3>1. CASE rsp = <<>>
      BY <3>1, <1>1, <1>2 DEF Typed, QueuesTyped
    <3>2. CASE rsp # <<>>
      <4>0. rsp \in Seq(PartType) /\ rsp' = Tail(rsp)
        BY <3>2, <1>2 DEF Typed, QueuesTyped
      <4>1. rsp' \in Seq(PartType) /\ rsp[1] \in PartType
        BY <3>2, <4>0, TailIs
      <4>2. reader' \in [at : {"wait", "lock", "body"}, msg : Msgs]
        BY <4>1, <3>2, <1>2 DEF PartType
      <4> QED BY <4>1, <4>2, <1>1 DEF Typed, QueuesTyped
    <3> QED BY <3>1, <3>2
  <2>3. ActTyped' /\ WatchesTyped' /\ OthersTyped'
    BY <1>1 DEF Typed, ActTyped, WatchesTyped, OthersTyped
  <2> QED BY <2>1, <2>2, <2>3 DEF Typed
<1>4. Held'
  <2>1. reader.msg = NoMsg
    BY <1>2 DEF Held
  <2>2. (response_mutex' = "xenbus" <=> reader'.at = "body") /\ response_mutex' # "suspend"
        /\ (reader'.at # "body" => reader'.msg = NoMsg)
    BY <2>1, <1>2 DEF Typed, QueuesTyped
  <2>3. InTx' = InTx
    BY <1>1 DEF InTx
  <2> QED BY <2>2, <2>3, <1>1, <1>2 DEF Held, Typed, LocksTyped
<1>5. Talking'
  <2>1. CASE rsp = <<>>
    <3>1. rsp' = rsp /\ reader'.msg = reader.msg
      BY <2>1, <1>2 DEF Typed, QueuesTyped
    <3>2. \A m : Awaited(m)' <=> Awaited(m)
      BY <1>1 DEF Awaited
    <3> QED BY <2>1, <3>1, <3>2, <1>1 DEF Talking, Header
  <2>2. CASE rsp # <<>>
    <3>1. /\ 1 \in DOMAIN rsp /\ Len(rsp) \in Nat
          /\ DOMAIN rsp = 1 .. Len(rsp) /\ DOMAIN rsp' = 1 .. Len(rsp) - 1
          /\ \A k \in DOMAIN rsp' : k + 1 \in DOMAIN rsp /\ rsp'[k] = rsp[k + 1]
      <4>1. rsp \in Seq(PartType) /\ rsp' = Tail(rsp)
        BY <2>2, <1>2 DEF Typed, QueuesTyped
      <4> QED BY <2>2, <4>1, TailIs
    <3>2. rsp[1].part = "header" /\ reader'.msg = rsp[1].msg
      BY <2>2, <1>2 DEF InStep, Fits
    <3>3. \A k \in DOMAIN rsp' :
              Header(rsp, k)' => k + 1 \in DOMAIN rsp /\ Header(rsp, k + 1)
      BY <3>1 DEF Header
    <3>4. \A m : Awaited(m)' <=> Awaited(m)
      BY <1>1 DEF Awaited
    <3>5. reader'.msg.kind = "reply" =>
              /\ Header(rsp, 1) /\ req = <<>> /\ reply_list = <<>> /\ Awaited(reader'.msg)
              /\ \A k \in DOMAIN rsp' : ~Header(rsp, k)'
      <4> SUFFICES ASSUME reader'.msg.kind = "reply"
                   PROVE  /\ Header(rsp, 1) /\ req = <<>> /\ reply_list = <<>>
                          /\ Awaited(reader'.msg) /\ \A k \in DOMAIN rsp' : ~Header(rsp, k)'
        OBVIOUS
      <4>1. Header(rsp, 1)
        BY <3>2 DEF Header
      <4>2. req = <<>> /\ reply_list = <<>> /\ Awaited(rsp[1].msg)
            /\ \A j \in DOMAIN rsp : Header(rsp, j) => j = 1
        BY <4>1, <3>1 DEF Talking
      <4>3. \A k \in DOMAIN rsp' : k + 1 # 1
        BY <3>1
      <4> QED BY <4>1, <4>2, <4>3, <3>2, <3>3
    <3>6. ASSUME NEW k \in DOMAIN rsp', Header(rsp, k)'
          PROVE  /\ req = <<>> /\ reply_list = <<>> /\ Awaited(rsp'[k].msg)
                 /\ \A j \in DOMAIN rsp' : Header(rsp, j)' => j = k
      <4>1. k + 1 \in DOMAIN rsp /\ Header(rsp, k + 1) /\ rsp'[k] = rsp[k + 1]
        BY <3>6, <3>3, <3>1
      <4>2. \A j \in DOMAIN rsp : Header(rsp, j) => j = k + 1
        BY <4>1 DEF Talking
      <4>3. \A j \in DOMAIN rsp' : Header(rsp, j)' => j + 1 = k + 1
        BY <4>2, <3>3
      <4> QED BY <4>1, <4>3, <3>1 DEF Talking
    <3> QED BY <3>4, <3>5, <3>6, <1>1 DEF Talking
  <2> QED BY <2>1, <2>2
<1>6. InStep'
  <2> SUFFICES ASSUME rsp # <<>> PROVE InStep'
    BY <1>2 DEF InStep, Fits, Typed, QueuesTyped
  <2>0. rsp \in Seq(PartType) /\ rsp # <<>> /\ rsp' = Tail(rsp)
    BY <1>2 DEF Typed, QueuesTyped
  <2>1. /\ rsp[1] \in PartType /\ Len(rsp) \in Nat
        /\ DOMAIN rsp = 1 .. Len(rsp) /\ DOMAIN rsp' = 1 .. Len(rsp) - 1
        /\ \A k \in DOMAIN rsp' : k + 1 \in DOMAIN rsp /\ rsp'[k] = rsp[k + 1]
    BY <2>0, TailIs
  <2>2. rsp' # <<>> => 1 \in DOMAIN rsp'
    BY <2>0, TailIs
  <2>3. Paired(rsp')
    BY <2>1 DEF InStep, Fits, Paired
  <2>4. rsp[1].part = "header" /\ reader' = [at |-> "body", msg |-> rsp[1].msg]
    BY <1>2 DEF InStep, Fits
  <2>5. 1 \in DOMAIN rsp'
    <3>1. 1 \in DOMAIN rsp /\ Paired(rsp)
      BY <2>0, TailIs DEF InStep, Fits
    <3>2. 1 + 1 \in DOMAIN rsp
      BY <3>1, <2>4 DEF Paired
    <3> QED BY <3>2, <2>1
  <2>6. rsp'[1] = [part |-> "body", msg |-> rsp[1].msg]
    <3>1. 1 \in DOMAIN rsp /\ Paired(rsp)
      BY <2>0, TailIs DEF InStep, Fits
    <3> QED BY <3>1, <2>1, <2>4, <2>5 DEF Paired
  <2> QED BY <2>3, <2>4, <2>5, <2>6 DEF InStep, Fits
<1>7. Counted' /\ Steps' /\ Places' /\ Listed' /\ Known' /\ Silent'
  BY <1>1 DEF Counted, InTx, Steps, Places, Listed, OneEach, ReadsWell, Registers,
    Reads, Quiet, Locked, Frozen, Known, KnownOk, Silent, Used, StepOk
<1> QED BY <1>3, <1>4, <1>5, <1>6, <1>7

(* The body is the header's; its message goes on one list or the other.    *)
LEMMA ReadBodyKeeps ==
    ASSUME XInv, ReadBody
    PROVE  XInv'
<1> USE Names DEF XInv
<1>1. UNCHANGED <<act, open, transaction_mutex, transaction_count, request_mutex,
    xenwatch_mutex, watch_readers, watch_writer, watches, running, own, sus, todo, req,
    tokens, txs, version, seen, ops, changes, suspends>>
  BY DEF ReadBody, stored, bounds, calls
<1>2. /\ reader.at = "body" /\ rsp # <<>> /\ rsp' = Tail(rsp)
      /\ reader' = [at |-> "wait", msg |-> NoMsg] /\ response_mutex' = NoOne
      /\ \/ /\ reader.msg.kind = "reply" /\ reply_list' = Append(reply_list, reader.msg)
            /\ watch_events' = watch_events
         \/ /\ reader.msg.kind = "event" /\ reply_list' = reply_list
            /\ watch_events' = IF reader.msg.w \in watches
                               THEN Append(watch_events, reader.msg.w) ELSE watch_events
  BY DEF ReadBody
<1>3. Typed'
  <2>1. LocksTyped'
    BY <1>1, <1>2 DEF Typed, LocksTyped
  <2>2. WatchesTyped'
    <3>0. watch_events \in Seq(Watches) /\ watches \subseteq Watches
      BY DEF Typed, WatchesTyped
    <3>1. watch_events' \in Seq(Watches)
      BY <3>0, <1>2
    <3> QED BY <3>1, <1>1 DEF Typed, WatchesTyped
  <2>3. QueuesTyped'
    <3>1. reader.msg \in Msgs /\ NoMsg \in Msgs
      BY DEF Typed, QueuesTyped, Msgs, NoMsg, Msg
    <3>0. reply_list \in Seq(Msgs)
      BY DEF Typed, QueuesTyped
    <3>2. reply_list' \in Seq(Msgs)
      <4>1. CASE reply_list' = reply_list
        BY <3>0, <4>1
      <4>2. CASE reply_list' = Append(reply_list, reader.msg)
        <5> DEFINE m == reader.msg
        <5>1. m \in Msgs /\ reply_list' = Append(reply_list, m)
          BY <3>1, <4>2
        <5> HIDE DEF m
        <5> QED BY <3>0, <5>1
      <4> QED BY <4>1, <4>2, <1>2
    <3>3. rsp' \in Seq(PartType)
      BY <1>2, TailIs DEF Typed, QueuesTyped
    <3>4. reader' \in [at : {"wait", "lock", "body"}, msg : Msgs]
      BY <3>1, <1>2
    <3> QED BY <3>2, <3>3, <3>4, <1>1 DEF Typed, QueuesTyped
  <2>4. ActTyped' /\ OthersTyped'
    BY <1>1 DEF Typed, ActTyped, OthersTyped
  <2> QED BY <2>1, <2>2, <2>3, <2>4 DEF Typed
<1>4. Held'
  BY <1>1, <1>2 DEF Held, Typed, ActTyped, LocksTyped, Steps, StepOk, Places, Quiet,
    Locked, Frozen, InTx, NoMsg, Msg
<1>5. Talking'
  BY <1>1, <1>2 DEF Talking, Awaited, Header, Msg, NoMsg, Typed, ActTyped, QueuesTyped,
    Steps, StepOk
<1>6. InStep'
  <2>0. rsp \in Seq(PartType) /\ rsp # <<>> /\ rsp' = Tail(rsp)
    BY <1>2 DEF Typed, QueuesTyped
  <2>1. /\ rsp[1] \in PartType /\ Len(rsp) \in Nat
        /\ DOMAIN rsp = 1 .. Len(rsp) /\ DOMAIN rsp' = 1 .. Len(rsp) - 1
        /\ \A k \in DOMAIN rsp' : k + 1 \in DOMAIN rsp /\ rsp'[k] = rsp[k + 1]
    BY <2>0, TailIs
  <2>2. rsp' # <<>> => 1 \in DOMAIN rsp'
    BY <2>0, TailIs
  <2>3. Paired(rsp')
    BY <2>1 DEF InStep, Fits, Paired
  <2>4. rsp' # <<>> => rsp'[1].part = "header"
    <3> SUFFICES ASSUME rsp' # <<>> PROVE rsp'[1].part = "header"
      OBVIOUS
    <3>1. rsp[1].part = "body"
      BY <1>2 DEF InStep, Fits
    <3>2. 1 \in DOMAIN rsp /\ 1 + 1 \in DOMAIN rsp /\ rsp'[1] = rsp[1 + 1]
      BY <2>1, <2>2
    <3>3. Paired(rsp)
      BY DEF InStep, Fits
    <3> QED BY <3>1, <3>2, <3>3 DEF Paired
  <2> QED BY <2>3, <2>4, <1>2 DEF InStep, Fits
<1>7. Silent'
  <2> SUFFICES ASSUME NEW w \in Watches \ watches, ~Used(w)
               PROVE  /\ running = w => w \in own
                      /\ \A k \in DOMAIN watch_events' : watch_events'[k] # w
    BY <1>1 DEF Silent, Used
  <2>1. (running = w => w \in own) /\ \A k \in DOMAIN watch_events : watch_events[k] # w
    BY DEF Silent
  <2>2. CASE watch_events' = watch_events
    BY <2>1, <2>2
  <2>3. CASE reader.msg.w \in watches /\ watch_events' = Append(watch_events, reader.msg.w)
    BY <2>1, <2>3 DEF Typed, WatchesTyped
  <2> QED BY <2>2, <2>3, <1>2
<1>8. Counted' /\ Steps' /\ Places' /\ Listed' /\ Known'
  BY <1>1 DEF Counted, InTx, Steps, Places, Listed, OneEach, ReadsWell, Registers,
    Reads, Quiet, Locked, Frozen, Known, KnownOk, StepOk
<1> QED BY <1>3, <1>4, <1>5, <1>6, <1>7, <1>8

(* xenwatch_thread.                                                        *)
LEMMA XenwatchLocksKeeps ==
    ASSUME XInv, XenwatchLocks
    PROVE  XInv'
<1> USE Names DEF XInv
<1>1. UNCHANGED <<act, open, transaction_mutex, transaction_count, request_mutex,
    response_mutex, watch_readers, watch_writer, watches, watch_events, reply_list,
    reader, running, own, sus, todo, req, rsp, tokens, txs, version, seen, ops, changes,
    suspends>>
  BY DEF XenwatchLocks, lists, rings, stored, bounds, calls
<1>2. Typed'
  <2>1. LocksTyped'
    BY <1>1 DEF Typed, LocksTyped, XenwatchLocks
  <2>2. ActTyped' /\ WatchesTyped' /\ QueuesTyped' /\ OthersTyped'
    BY <1>1 DEF Typed, ActTyped, WatchesTyped, QueuesTyped, OthersTyped
  <2> QED BY <2>1, <2>2 DEF Typed
<1>3. Places'
  BY <1>1 DEF Places, Typed, ActTyped, Steps, StepOk, XenwatchLocks
<1>4. Counted' /\ Steps' /\ Listed' /\ Held' /\ Talking' /\ InStep' /\ Known' /\ Silent'
  BY <1>1 DEF Counted, InTx, Steps, Listed, OneEach, ReadsWell, Registers, Reads, Quiet,
    Locked, Frozen, Held, Talking, Awaited, Header, InStep, Fits, Known, KnownOk,
    Silent, Used, StepOk, NoMsg, Msg
<1> QED BY <1>2, <1>3, <1>4

(* A pending callback was not for a removed watch.                         *)
LEMMA CallbackKeeps ==
    ASSUME XInv, Callback
    PROVE  XInv'
<1> USE Names DEF XInv
<1>1. UNCHANGED <<act, open, transaction_mutex, transaction_count, request_mutex,
    response_mutex, watch_readers, watch_writer, watches, reply_list, reader, sus, todo,
    req, rsp, tokens, txs, version, ops, changes, suspends>>
  BY DEF Callback, rings, stored, bounds, calls
<1>2. Typed'
  <2>1. LocksTyped'
    BY <1>1 DEF Typed, LocksTyped, Callback
  <2>2. WatchesTyped'
    <3>1. CASE watch_events = <<>>
      BY <3>1, <1>1 DEF Callback, calls, Typed, WatchesTyped
    <3>2. CASE watch_events # <<>>
      <4>1. Head(watch_events) \in Watches /\ Tail(watch_events) \in Seq(Watches)
        BY <3>2, TailIs DEF Typed, WatchesTyped
      <4>2. /\ watch_events' = Tail(watch_events) /\ running' = Head(watch_events)
            /\ seen' = [seen EXCEPT ![Head(watch_events)] = version[Head(watch_events)]]
            /\ own' = own
        BY <3>2 DEF Callback
      <4> QED BY <4>1, <4>2, <1>1 DEF Typed, WatchesTyped
    <3> QED BY <3>1, <3>2
  <2>3. ActTyped' /\ QueuesTyped' /\ OthersTyped'
    BY <1>1 DEF Typed, ActTyped, QueuesTyped, OthersTyped
  <2> QED BY <2>1, <2>2, <2>3 DEF Typed
<1>3. Places'
  <2>1. /\ xenwatch_mutex = "xenwatch" /\ running = NoOne
        /\ running' = NoOne \/ xenwatch_mutex' = xenwatch_mutex
    BY DEF Callback, calls
  <2> QED BY <2>1, <1>1 DEF Places
<1>4. Silent'
  <2> SUFFICES ASSUME NEW w \in Watches \ watches, ~Used(w)
               PROVE  /\ running' = w => w \in own'
                      /\ \A k \in DOMAIN watch_events' : watch_events'[k] # w
    BY <1>1 DEF Silent, Used
  <2>1. (running = w => w \in own) /\ \A k \in DOMAIN watch_events : watch_events[k] # w
    BY DEF Silent
  <2>2. CASE watch_events = <<>>
    BY <2>1, <2>2 DEF Callback, calls
  <2>3. CASE watch_events # <<>>
    <3>1. 1 \in DOMAIN watch_events /\ Head(watch_events) = watch_events[1]
      BY <2>3, TailIs DEF Typed, WatchesTyped
    <3>2. \A k \in DOMAIN Tail(watch_events) :
              k + 1 \in DOMAIN watch_events /\ Tail(watch_events)[k] = watch_events[k + 1]
      BY <2>3, TailIs DEF Typed, WatchesTyped
    <3>3. running' = Head(watch_events) /\ watch_events' = Tail(watch_events)
      BY <2>3 DEF Callback
    <3> QED BY <2>1, <3>1, <3>2, <3>3
  <2> QED BY <2>2, <2>3
<1>5. Counted' /\ Steps' /\ Listed' /\ Held' /\ Talking' /\ InStep' /\ Known'
  BY <1>1 DEF Counted, InTx, Steps, Listed, OneEach, ReadsWell, Registers, Reads, Quiet,
    Locked, Frozen, Held, Talking, Awaited, Header, InStep, Fits, Known, KnownOk,
    StepOk, NoMsg, Msg
<1> QED BY <1>2, <1>3, <1>4, <1>5

LEMMA CallbackEndsKeeps ==
    ASSUME XInv, CallbackEnds
    PROVE  XInv'
<1> USE Names DEF XInv
<1>1. UNCHANGED <<act, open, transaction_mutex, transaction_count, request_mutex,
    response_mutex, watch_readers, watch_writer, watches, watch_events, reply_list,
    reader, sus, todo, req, rsp, tokens, txs, version, seen, ops, changes, suspends>>
  BY DEF CallbackEnds, lists, rings, stored, bounds
<1>2. /\ running # NoOne /\ act["xenwatch"].job = "none" /\ "xenwatch" \notin open
      /\ running' = NoOne /\ own' = {} /\ xenwatch_mutex' = NoOne
  BY DEF CallbackEnds, NoAct
<1>3. Typed'
  <2>1. LocksTyped'
    BY <1>1, <1>2 DEF Typed, LocksTyped
  <2>2. WatchesTyped'
    BY <1>1, <1>2 DEF Typed, WatchesTyped
  <2>3. ActTyped' /\ QueuesTyped' /\ OthersTyped'
    BY <1>1 DEF Typed, ActTyped, QueuesTyped, OthersTyped
  <2> QED BY <2>1, <2>2, <2>3 DEF Typed
<1>4. Places'
  BY <1>1, <1>2 DEF Places, Typed, ActTyped, Steps, StepOk
<1>5. Silent'
  BY <1>1, <1>2 DEF Silent, Used, Typed, ActTyped, WatchesTyped
<1>6. Counted' /\ Steps' /\ Listed' /\ Held' /\ Talking' /\ InStep' /\ Known'
  BY <1>1 DEF Counted, InTx, Steps, Listed, OneEach, ReadsWell, Registers, Reads, Quiet,
    Locked, Frozen, Held, Talking, Awaited, Header, InStep, Fits, Known, KnownOk,
    StepOk, NoMsg, Msg
<1> QED BY <1>3, <1>4, <1>5, <1>6

(* xs_suspend, lock by lock.                                               *)
LEMMA SuspendTransactionsKeeps ==
    ASSUME XInv, SuspendTransactions
    PROVE  XInv'
<1> USE Names DEF XInv
<1>1. UNCHANGED <<act, open, transaction_count, request_mutex, response_mutex,
    xenwatch_mutex, watch_readers, watch_writer, watches, watch_events, reply_list,
    reader, running, own, todo, req, rsp, tokens, txs, version, seen, ops, changes>>
  BY DEF SuspendTransactions, lists, rings, stored, calls
<1>2. Typed'
  <2>1. LocksTyped'
    BY <1>1 DEF Typed, LocksTyped, SuspendTransactions
  <2>2. OthersTyped'
    BY <1>1 DEF Typed, OthersTyped, SuspendTransactions
  <2>3. ActTyped' /\ WatchesTyped' /\ QueuesTyped'
    BY <1>1 DEF Typed, ActTyped, WatchesTyped, QueuesTyped
  <2> QED BY <2>1, <2>2, <2>3 DEF Typed
<1>3. Steps'
  BY <1>1 DEF Steps, StepOk, Typed, ActTyped, SuspendTransactions
<1>4. Places'
  BY <1>1 DEF Places, Typed, ActTyped, Steps, StepOk, SuspendTransactions
<1>5. Listed'
  BY <1>1 DEF Listed, Typed, ActTyped, LocksTyped, Steps, StepOk, OneEach, ReadsWell,
    Registers, Reads, Quiet, Locked, Frozen, SuspendTransactions
<1>6. Held'
  BY <1>1 DEF Held, Typed, ActTyped, LocksTyped, Steps, StepOk, Places, Quiet, Locked,
    Frozen, InTx, NoMsg, Msg, SuspendTransactions
<1>7. Counted' /\ Talking' /\ InStep' /\ Known' /\ Silent'
  BY <1>1 DEF Counted, InTx, Talking, Awaited, Header, InStep, Fits, Known, KnownOk,
    Silent, Used
<1> QED BY <1>2, <1>3, <1>4, <1>5, <1>6, <1>7

(* No transaction is counted: InTx is empty.                               *)
LEMMA SuspendWatchesKeeps ==
    ASSUME XInv, SuspendWatches
    PROVE  XInv'
<1> USE Names DEF XInv
<1>1. UNCHANGED <<act, open, transaction_mutex, transaction_count, request_mutex,
    response_mutex, xenwatch_mutex, watch_readers, watches, watch_events, reply_list,
    reader, running, own, todo, req, rsp, tokens, txs, version, seen, ops, changes,
    suspends>>
  BY DEF SuspendWatches, lists, rings, stored, bounds, calls
<1>2. Typed'
  <2>1. LocksTyped'
    BY <1>1 DEF Typed, LocksTyped, SuspendWatches
  <2>2. ActTyped' /\ WatchesTyped' /\ QueuesTyped' /\ OthersTyped'
    BY <1>1 DEF Typed, ActTyped, WatchesTyped, QueuesTyped, OthersTyped
  <2> QED BY <2>1, <2>2 DEF Typed
<1>3. Steps'
  BY <1>1 DEF Steps, StepOk, Typed, ActTyped, SuspendWatches
<1>4. Places'
  BY <1>1 DEF Places, Typed, ActTyped, Steps, StepOk, SuspendWatches
<1>5. Listed'
  BY <1>1 DEF Listed, Typed, ActTyped, LocksTyped, Steps, StepOk, OneEach, ReadsWell,
    Registers, Reads, Quiet, Locked, Frozen, SuspendWatches
<1>6. Held'
  <2>1. InTx = {}
    <3>1. IsFiniteSet(InTx)
      BY FS_Subset DEF InTx, Typed, ActTyped
    <3>2. Cardinality(InTx) = 0
      BY DEF Counted, SuspendWatches
    <3> QED BY <3>1, <3>2, FS_EmptySet
  <2>2. InTx' = InTx
    BY <1>1 DEF InTx
  <2> QED BY <2>1, <2>2, <1>1 DEF Held, Quiet, Locked, Frozen, SuspendWatches
<1>7. Counted' /\ Talking' /\ InStep' /\ Known' /\ Silent'
  BY <1>1 DEF Counted, InTx, Talking, Awaited, Header, InStep, Fits, Known, KnownOk,
    Silent, Used
<1> QED BY <1>2, <1>3, <1>4, <1>5, <1>6, <1>7

LEMMA SuspendRequestsKeeps ==
    ASSUME XInv, SuspendRequests
    PROVE  XInv'
<1> USE Names DEF XInv
<1>1. UNCHANGED <<act, open, transaction_mutex, transaction_count, response_mutex,
    xenwatch_mutex, watch_readers, watch_writer, watches, watch_events, reply_list,
    reader, running, own, todo, req, rsp, tokens, txs, version, seen, ops, changes,
    suspends>>
  BY DEF SuspendRequests, lists, rings, stored, bounds, calls
<1>2. Typed'
  <2>1. LocksTyped'
    BY <1>1 DEF Typed, LocksTyped, SuspendRequests
  <2>2. ActTyped' /\ WatchesTyped' /\ QueuesTyped' /\ OthersTyped'
    BY <1>1 DEF Typed, ActTyped, WatchesTyped, QueuesTyped, OthersTyped
  <2> QED BY <2>1, <2>2 DEF Typed
<1>3. Steps'
  BY <1>1 DEF Steps, StepOk, Typed, ActTyped, SuspendRequests
<1>4. Places'
  BY <1>1 DEF Places, Typed, ActTyped, Steps, StepOk, SuspendRequests
<1>5. Listed'
  BY <1>1 DEF Listed, Typed, ActTyped, LocksTyped, Steps, StepOk, OneEach, ReadsWell,
    Registers, Reads, Quiet, Locked, Frozen, SuspendRequests
<1>6. Held'
  BY <1>1 DEF Held, Typed, ActTyped, LocksTyped, Steps, StepOk, Places, Quiet, Locked,
    Frozen, InTx, NoMsg, Msg, SuspendRequests
<1>7. Talking'
  BY <1>1 DEF Talking, Awaited, Header, Msg, NoMsg, Typed, ActTyped, QueuesTyped, Steps,
    StepOk, SuspendRequests
<1>8. Counted' /\ InStep' /\ Known' /\ Silent'
  BY <1>1 DEF Counted, InTx, InStep, Fits, Known, KnownOk, Silent, Used
<1> QED BY <1>2, <1>3, <1>4, <1>5, <1>6, <1>7, <1>8

LEMMA SuspendResponsesKeeps ==
    ASSUME XInv, SuspendResponses
    PROVE  XInv'
<1> USE Names DEF XInv
<1>1. UNCHANGED <<act, open, transaction_mutex, transaction_count, request_mutex,
    xenwatch_mutex, watch_readers, watch_writer, watches, watch_events, reply_list,
    reader, running, own, todo, req, rsp, tokens, txs, version, seen, ops, changes,
    suspends>>
  BY DEF SuspendResponses, lists, rings, stored, bounds, calls
<1>2. Typed'
  <2>1. LocksTyped'
    BY <1>1 DEF Typed, LocksTyped, SuspendResponses
  <2>2. ActTyped' /\ WatchesTyped' /\ QueuesTyped' /\ OthersTyped'
    BY <1>1 DEF Typed, ActTyped, WatchesTyped, QueuesTyped, OthersTyped
  <2> QED BY <2>1, <2>2 DEF Typed
<1>3. Steps'
  BY <1>1 DEF Steps, StepOk, Typed, ActTyped, SuspendResponses
<1>4. Places'
  BY <1>1 DEF Places, Typed, ActTyped, Steps, StepOk, SuspendResponses
<1>5. Listed'
  BY <1>1 DEF Listed, Typed, ActTyped, LocksTyped, Steps, StepOk, OneEach, ReadsWell,
    Registers, Reads, Quiet, Locked, Frozen, SuspendResponses
<1>6. Held'
  BY <1>1 DEF Held, Typed, ActTyped, LocksTyped, Steps, StepOk, Places, Quiet, Locked,
    Frozen, InTx, NoMsg, Msg, SuspendResponses
<1>7. Counted' /\ Talking' /\ InStep' /\ Known' /\ Silent'
  BY <1>1 DEF Counted, InTx, Talking, Awaited, Header, InStep, Fits, Known, KnownOk,
    Silent, Used
<1> QED BY <1>2, <1>3, <1>4, <1>5, <1>6, <1>7

(* xs_suspend_cancel: nobody waits while request_mutex is held.            *)
LEMMA CancelKeeps ==
    ASSUME XInv, Cancel
    PROVE  XInv'
<1> USE Names DEF XInv
<1>1. UNCHANGED <<act, open, transaction_count, xenwatch_mutex, watch_readers, watches,
    watch_events, reply_list, reader, running, own, todo, req, rsp, tokens, txs,
    version, seen, ops, changes, suspends>>
  BY DEF Cancel, lists, rings, stored, bounds, calls
<1>2. Typed'
  <2>1. LocksTyped'
    BY <1>1 DEF Typed, LocksTyped, Cancel
  <2>2. ActTyped' /\ WatchesTyped' /\ QueuesTyped' /\ OthersTyped'
    BY <1>1 DEF Typed, ActTyped, WatchesTyped, QueuesTyped, OthersTyped
  <2> QED BY <2>1, <2>2 DEF Typed
<1>3. Steps'
  BY <1>1 DEF Steps, StepOk, Typed, ActTyped, Cancel
<1>4. Places'
  BY <1>1 DEF Places, Typed, ActTyped, Steps, StepOk, Cancel
<1>5. Listed'
  BY <1>1 DEF Listed, Typed, ActTyped, LocksTyped, Steps, StepOk, OneEach, ReadsWell,
    Registers, Reads, Quiet, Locked, Frozen, Cancel
<1>6. Held'
  BY <1>1 DEF Held, Typed, ActTyped, LocksTyped, Steps, StepOk, Places, Quiet, Locked,
    Frozen, InTx, NoMsg, Msg, Cancel
<1>7. Talking'
  <2>1. \A a \in Actors : act[a].at # "reply"
    <3>1. request_mutex = "suspend" /\ act["suspend"].at # "reply"
      BY DEF Cancel, Held, Places, Steps, StepOk, Locked, Frozen
    <3> QED BY <3>1 DEF Talking
  <2>2. req = <<>> /\ reply_list = <<>> /\ reader.msg.kind # "reply"
        /\ \A k \in DOMAIN rsp : ~Header(rsp, k)
    BY <2>1, NobodyTalks
  <2> QED BY <2>1, <2>2, <1>1 DEF Talking, Header
<1>8. Counted' /\ InStep' /\ Known' /\ Silent'
  BY <1>1 DEF Counted, InTx, InStep, Fits, Known, KnownOk, Silent, Used
<1> QED BY <1>2, <1>3, <1>4, <1>5, <1>6, <1>7, <1>8

(* The new xenstored knows no transaction, and there is none.              *)
LEMMA MigrateKeeps ==
    ASSUME XInv, Migrate
    PROVE  XInv'
<1> USE Names DEF XInv
<1>1. UNCHANGED <<act, open, transaction_mutex, transaction_count, request_mutex,
    response_mutex, xenwatch_mutex, watch_readers, watch_writer, watches, watch_events,
    reply_list, reader, running, own, todo, req, rsp, version, seen, ops, changes,
    suspends>>
  BY DEF Migrate, locks, lists, rings, bounds, calls
<1>2. Typed'
  <2>1. LocksTyped'
    BY <1>1 DEF Typed, LocksTyped, Migrate
  <2>2. WatchesTyped'
    BY <1>1 DEF Typed, WatchesTyped, Migrate
  <2>3. OthersTyped'
    BY <1>1 DEF Typed, OthersTyped, Migrate
  <2>4. ActTyped' /\ QueuesTyped'
    BY <1>1 DEF Typed, ActTyped, QueuesTyped
  <2> QED BY <2>1, <2>2, <2>3, <2>4 DEF Typed
<1>3. Steps'
  BY <1>1 DEF Steps, StepOk, Typed, ActTyped, Migrate
<1>4. Places'
  BY <1>1 DEF Places, Typed, ActTyped, Steps, StepOk, Migrate
<1>5. Listed'
  BY <1>1 DEF Listed, Typed, ActTyped, LocksTyped, Steps, StepOk, OneEach, ReadsWell,
    Registers, Reads, Quiet, Locked, Frozen, Migrate
<1>6. Held'
  BY <1>1 DEF Held, Typed, ActTyped, LocksTyped, Steps, StepOk, Places, Quiet, Locked,
    Frozen, InTx, NoMsg, Msg, Migrate
<1>7. Known'
  <2>1. InTx = {}
    BY DEF Migrate, Held, Quiet, Locked, Frozen
  <2>2. open = {} /\ \A a \in Actors : act[a].job = "start" => act[a].at = "lock"
    BY <2>1 DEF InTx
  <2> QED BY <2>2, <1>1 DEF Known, KnownOk
<1>8. Counted' /\ Talking' /\ InStep' /\ Silent'
  BY <1>1 DEF Counted, InTx, Talking, Awaited, Header, InStep, Fits, Silent, Used
<1> QED BY <1>2, <1>3, <1>4, <1>5, <1>6, <1>7, <1>8

(* Nothing is lost with the response ring but events.                      *)
LEMMA ResumeKeeps ==
    ASSUME XInv, Resume
    PROVE  XInv'
<1> USE Names DEF XInv
<1>1. UNCHANGED <<act, open, transaction_count, xenwatch_mutex, watch_readers,
    watch_writer, watches, watch_events, reply_list, reader, running, own, req, tokens,
    txs, version, seen, ops, changes, suspends>>
  BY DEF Resume, lists, stored, bounds, calls
<1>2. Typed'
  <2>1. LocksTyped'
    BY <1>1 DEF Typed, LocksTyped, Resume
  <2>2. WatchesTyped'
    BY <1>1 DEF Typed, WatchesTyped, Resume
  <2>3. QueuesTyped'
    BY <1>1 DEF Typed, QueuesTyped, PartType, Msgs, Msg, NoMsg, Resume
  <2>4. ActTyped' /\ OthersTyped'
    BY <1>1 DEF Typed, ActTyped, OthersTyped
  <2> QED BY <2>1, <2>2, <2>3, <2>4 DEF Typed
<1>3. Steps'
  BY <1>1 DEF Steps, StepOk, Typed, ActTyped, Resume
<1>4. Places'
  BY <1>1 DEF Places, Typed, ActTyped, Steps, StepOk, Resume
<1>5. Listed'
  BY <1>1 DEF Listed, Typed, ActTyped, LocksTyped, Steps, StepOk, OneEach, ReadsWell,
    Registers, Reads, Quiet, Locked, Frozen, Resume
<1>6. Held'
  BY <1>1 DEF Held, Typed, ActTyped, LocksTyped, Steps, StepOk, Places, Quiet, Locked,
    Frozen, InTx, NoMsg, Msg, Resume
<1>7. Talking'
  <2>1. \A a \in Actors : act[a].at # "reply"
    <3>1. request_mutex = "suspend" /\ act["suspend"].at # "reply"
      BY DEF Resume, Held, Places, Steps, StepOk, Locked, Frozen
    <3> QED BY <3>1 DEF Talking
  <2>2. req = <<>> /\ reply_list = <<>> /\ reader.msg.kind # "reply"
        /\ \A k \in DOMAIN rsp : ~Header(rsp, k)
    BY <2>1, NobodyTalks
  <2>3. rsp' = <<>>
    BY DEF Resume
  <2> QED BY <2>1, <2>2, <2>3, <1>1 DEF Talking
<1>8. InStep'
  <2>1. reader.at # "body" /\ rsp' = <<>>
    BY DEF Resume, Held, Frozen
  <2> QED BY <2>1, <1>1 DEF InStep, Fits, Paired
<1>9. Counted' /\ Known' /\ Silent'
  BY <1>1 DEF Counted, InTx, Known, KnownOk, Silent, Used
<1> QED BY <1>2, <1>3, <1>4, <1>5, <1>6, <1>7, <1>8, <1>9

(* The suspending thread asks like any other.                              *)
LEMMA RewatchKeeps ==
    ASSUME XInv, NEW w \in Watches, Rewatch(w)
    PROVE  XInv'
<1> USE Names DEF XInv
<1>1. Moves("suspend", "rewatch", w, "ask")
  <2>1. act' = [act EXCEPT !["suspend"] = [job |-> "rewatch", w |-> w, at |-> "ask"]]
    BY DEF Rewatch
  <2>2. act \in [Actors -> ActType]
    BY DEF Typed, ActTyped
  <2> QED BY <2>1, <2>2 DEF Moves, ActType, NoAct
<1>2. UNCHANGED <<open, transaction_mutex, transaction_count, request_mutex,
    response_mutex, xenwatch_mutex, watch_readers, watch_writer, watches, watch_events,
    reply_list, reader, running, own, sus, req, rsp, tokens, txs, version, seen, ops,
    changes, suspends>>
  BY DEF Rewatch, locks, lists, rings, stored, bounds, calls
<1>3. /\ sus = "rewatch" /\ act["suspend"].job = "none" /\ act["suspend"].w = NoOne
      /\ act["suspend"].at = "idle" /\ w \in todo /\ todo' = todo \ {w} /\ w \in watches
  BY DEF Rewatch, NoAct, Places
<1>4. InTx' = InTx
  BY <1>1, <1>2, <1>3 DEF InTx, Moves, Typed, ActTyped, Steps, StepOk
<1>5. Typed'
  BY <1>1, <1>2, <1>3 DEF Typed, ActTyped, LocksTyped, WatchesTyped, QueuesTyped,
    OthersTyped, PartType, Msgs, Msg, NoMsg, Moves
<1>6. Counted'
  BY <1>2, <1>4, StillCounted
<1>7. Steps'
  <2>1. ASSUME NEW b \in Actors, b # "suspend" PROVE StepOk(b)'
    BY <2>1, <1>1, <1>2, <1>3 DEF Steps, StepOk, Moves
  <2>2. StepOk("suspend")'
    BY <1>1, <1>2, <1>3 DEF Steps, StepOk, Moves, Typed, ActTyped, ActType
  <2> QED BY <2>1, <2>2 DEF Steps
<1>8. Places'
  BY <1>1, <1>2, <1>3 DEF Places, Typed, ActTyped, Steps, StepOk, Moves
<1>9. Listed'
  <2>1. ASSUME NEW b \in Actors, b # "suspend" PROVE ReadsWell(b)'
    BY <2>1, <1>1, <1>2, <1>3 DEF Listed, ReadsWell, Reads, Registers, Moves
  <2>2. ReadsWell("suspend")'
    BY <1>1, <1>2, <1>3 DEF Listed, ReadsWell, Reads, Registers, Moves
  <2>3. \A b \in Actors : Registers(b)' => Registers(b) /\ act'[b].w = act[b].w
    BY <1>1, <1>2, <1>3 DEF Registers, Moves
  <2>4. OneEach'
    BY <2>3 DEF Listed, OneEach
  <2> QED BY <2>1, <2>2, <2>4, <1>1, <1>2, <1>3 DEF Listed, Quiet, Locked, Frozen,
     Typed, LocksTyped
<1>10. Held'
  BY <1>1, <1>2, <1>3, <1>4 DEF Held, Typed, LocksTyped, Places, Quiet, Locked, Frozen,
    Moves
<1>11. Talking'
  BY <1>1, <1>2, <1>3, StillTalking DEF Moves
<1>12. Known'
  BY <1>1, <1>2, <1>3 DEF Known, KnownOk, Typed, ActTyped, OthersTyped, Steps, StepOk,
    Moves
<1>13. Silent'
  BY <1>1, <1>2, <1>3, StillSilent DEF Moves, Typed, ActTyped, Steps, StepOk, Listed,
    ReadsWell, Registers, Reads, NoAct
<1>14. InStep'
  BY <1>2 DEF InStep, Fits
<1> QED BY <1>5, <1>6, <1>7, <1>8, <1>9, <1>10, <1>11, <1>12, <1>13, <1>14

LEMMA RewatchDoneKeeps ==
    ASSUME XInv, RewatchDone
    PROVE  XInv'
<1> USE Names DEF XInv
<1>1. Moves("suspend", "none", NoOne, "idle")
  <2>1. act' = [act EXCEPT !["suspend"] = NoAct]
    BY DEF RewatchDone
  <2>2. act \in [Actors -> ActType]
    BY DEF Typed, ActTyped
  <2> QED BY <2>1, <2>2 DEF Moves, ActType, NoAct
<1>2. UNCHANGED <<open, transaction_mutex, transaction_count, request_mutex,
    response_mutex, xenwatch_mutex, watch_readers, watch_writer, watches, watch_events,
    reply_list, reader, running, own, sus, todo, req, rsp, tokens, txs, version, seen,
    ops, changes, suspends>>
  BY DEF RewatchDone, locks, lists, rings, stored, bounds, calls
<1>3. InTx' = InTx
  BY <1>1, <1>2 DEF InTx, Moves, Typed, ActTyped, Steps, StepOk, RewatchDone, Free,
    NoAct
<1>4. Typed'
  BY <1>1, <1>2 DEF Typed, ActTyped, LocksTyped, WatchesTyped, QueuesTyped, OthersTyped,
    PartType, Msgs, Msg, NoMsg, RewatchDone, Moves
<1>5. Counted'
  BY <1>2, <1>3, StillCounted
<1>6. Steps'
  <2>1. ASSUME NEW b \in Actors, b # "suspend" PROVE StepOk(b)'
    BY <2>1, <1>1, <1>2 DEF Steps, StepOk, Moves
  <2>2. StepOk("suspend")'
    BY <1>1, <1>2 DEF Steps, StepOk, Moves, Typed, ActTyped, ActType
  <2> QED BY <2>1, <2>2 DEF Steps
<1>7. Places'
  BY <1>1, <1>2 DEF Places, Typed, ActTyped, Steps, StepOk, RewatchDone, Moves
<1>8. Listed'
  <2>1. ASSUME NEW b \in Actors, b # "suspend" PROVE ReadsWell(b)'
    BY <2>1, <1>1, <1>2 DEF Listed, ReadsWell, Reads, Registers, Moves
  <2>2. ReadsWell("suspend")'
    BY <1>1, <1>2 DEF Listed, ReadsWell, Reads, Registers, Moves
  <2>3. \A b \in Actors : Registers(b)' => Registers(b) /\ act'[b].w = act[b].w
    BY <1>1, <1>2 DEF Registers, Moves
  <2>4. OneEach'
    BY <2>3 DEF Listed, OneEach
  <2> QED BY <2>1, <2>2, <2>4, <1>1, <1>2 DEF Listed, Quiet, Locked, Frozen, Typed,
     LocksTyped
<1>9. Held'
  BY <1>1, <1>2, <1>3 DEF RewatchDone, Held, Typed, LocksTyped, Places, Quiet, Locked,
    Frozen, Moves
<1>10. Talking'
  BY <1>1, <1>2, StillTalking DEF RewatchDone, Moves, Free, NoAct
<1>11. Known'
  BY <1>1, <1>2 DEF Known, KnownOk, Typed, ActTyped, OthersTyped, Steps, StepOk,
    RewatchDone, Moves
<1>12. Silent'
  BY <1>1, <1>2, StillSilent DEF RewatchDone, Moves, Typed, ActTyped, Steps, StepOk,
    Listed, ReadsWell, Registers, Reads, NoAct
<1>13. InStep'
  BY <1>2 DEF InStep, Fits
<1> QED BY <1>4, <1>5, <1>6, <1>7, <1>8, <1>9, <1>10, <1>11, <1>12, <1>13

LEMMA ResumeEndsKeeps ==
    ASSUME XInv, ResumeEnds
    PROVE  XInv'
<1> USE Names DEF XInv
<1>1. UNCHANGED <<act, open, transaction_mutex, transaction_count, request_mutex,
    response_mutex, xenwatch_mutex, watch_readers, watches, watch_events, reply_list,
    reader, running, own, todo, req, rsp, tokens, txs, version, seen, ops, changes,
    suspends>>
  BY DEF ResumeEnds, lists, rings, stored, bounds, calls
<1>2. /\ sus = "rewatch" /\ act["suspend"].job = "none"
      /\ watch_writer' = NoOne /\ sus' = "devices"
  BY DEF ResumeEnds, NoAct
<1>3. Typed'
  <2>1. LocksTyped'
    BY <1>1, <1>2 DEF Typed, LocksTyped
  <2>2. ActTyped' /\ WatchesTyped' /\ QueuesTyped' /\ OthersTyped'
    BY <1>1 DEF Typed, ActTyped, WatchesTyped, QueuesTyped, OthersTyped
  <2> QED BY <2>1, <2>2 DEF Typed
<1>4. Steps'
  BY <1>1, <1>2 DEF Steps, StepOk, Typed, ActTyped
<1>5. Places'
  BY <1>1, <1>2 DEF Places, Typed, ActTyped, Steps, StepOk
<1>6. Listed'
  BY <1>1, <1>2 DEF Listed, Typed, ActTyped, LocksTyped, Steps, StepOk, OneEach,
    ReadsWell, Registers, Reads, Quiet, Locked, Frozen
<1>7. Held'
  BY <1>1, <1>2 DEF Held, Typed, ActTyped, LocksTyped, Steps, StepOk, Places, Quiet,
    Locked, Frozen, InTx, NoMsg, Msg
<1>8. Counted' /\ Talking' /\ InStep' /\ Known' /\ Silent'
  BY <1>1 DEF Counted, InTx, Talking, Awaited, Header, InStep, Fits, Known, KnownOk,
    Silent, Used
<1> QED BY <1>3, <1>4, <1>5, <1>6, <1>7, <1>8

LEMMA DevicesResumedKeeps ==
    ASSUME XInv, DevicesResumed
    PROVE  XInv'
<1> USE Names DEF XInv
<1>1. UNCHANGED <<act, open, transaction_mutex, transaction_count, request_mutex,
    response_mutex, xenwatch_mutex, watch_readers, watch_writer, watches, watch_events,
    reply_list, reader, running, own, todo, req, rsp, tokens, txs, version, seen, ops,
    changes, suspends>>
  BY DEF DevicesResumed, locks, lists, rings, stored, bounds, calls
<1>2. /\ sus = "devices" /\ act["suspend"].job = "none" /\ "suspend" \notin open
      /\ sus' = "idle"
  BY DEF DevicesResumed, NoAct
<1>3. Typed'
  <2>1. LocksTyped'
    BY <1>1, <1>2 DEF Typed, LocksTyped
  <2>2. ActTyped' /\ WatchesTyped' /\ QueuesTyped' /\ OthersTyped'
    BY <1>1 DEF Typed, ActTyped, WatchesTyped, QueuesTyped, OthersTyped
  <2> QED BY <2>1, <2>2 DEF Typed
<1>4. Steps'
  BY <1>1, <1>2 DEF Steps, StepOk, Typed, ActTyped
<1>5. Places'
  BY <1>1, <1>2 DEF Places, Typed, ActTyped, Steps, StepOk
<1>6. Listed'
  BY <1>1, <1>2 DEF Listed, Typed, ActTyped, LocksTyped, Steps, StepOk, OneEach,
    ReadsWell, Registers, Reads, Quiet, Locked, Frozen
<1>7. Held'
  BY <1>1, <1>2 DEF Held, Typed, ActTyped, LocksTyped, Steps, StepOk, Places, Quiet,
    Locked, Frozen, InTx, NoMsg, Msg
<1>8. Counted' /\ Talking' /\ InStep' /\ Known' /\ Silent'
  BY <1>1 DEF Counted, InTx, Talking, Awaited, Header, InStep, Fits, Known, KnownOk,
    Silent, Used
<1> QED BY <1>3, <1>4, <1>5, <1>6, <1>7, <1>8

(* xenstored answers the only request.                                     *)
LEMMA ServeKeeps ==
    ASSUME XInv, Serve
    PROVE  XInv'
<1> USE Names DEF XInv
<1>1. UNCHANGED <<act, open, transaction_mutex, transaction_count, request_mutex,
    response_mutex, xenwatch_mutex, watch_readers, watch_writer, watches, watch_events,
    reply_list, reader, running, own, sus, todo, version, seen, ops, changes, suspends>>
  BY DEF Serve, locks, lists, bounds, calls
<1>2. req # <<>> /\ req \in Seq(Msgs) /\ rsp \in Seq(PartType)
  BY DEF Serve, Typed, QueuesTyped
<1>3. PICK m \in Msgs : m = req[1] /\ Head(req) = m
  BY <1>2, TailIs, Zenon
<1> DEFINE answer == Msg("reply", m.to, NoOne)
           event == Msg("event", NoOne, m.w)
           q == rsp \o Parts(answer)
<1>4. /\ reply_list = <<>> /\ reader.msg.kind # "reply" /\ m.to = request_mutex
      /\ m.to \in Actors /\ act[m.to].at = "reply" /\ m.kind = act[m.to].job
      /\ m.w = act[m.to].w /\ \A k \in DOMAIN rsp : ~Header(rsp, k)
  BY <1>2, <1>3 DEF Talking, Awaited
<1>5. req' = <<>>
  <2>1. Len(req) <= 1
    BY DEF Talking
  <2>2. req' = Tail(req)
    BY DEF Serve
  <2> QED BY <2>1, <2>2, <1>2
<1>6. answer \in Msgs /\ event \in Msgs /\ answer.kind = "reply" /\ answer.to = m.to
      /\ event.kind = "event"
  BY <1>3, <1>4 DEF Msg, Msgs
<1>7. /\ m.kind \in {"watch", "rewatch"} => rsp' = q \o Parts(event)
      /\ m.kind \notin {"watch", "rewatch"} => rsp' = q \o <<>>
  BY <1>3, Zenon DEF Serve, Reply, Event
<1>8. /\ tokens' = CASE m.kind \in {"watch", "rewatch"} -> tokens \cup {m.w}
                     [] m.kind = "unwatch" -> tokens \ {m.w}
                     [] OTHER -> tokens
      /\ txs' = CASE m.kind = "start" -> txs \cup {m.to}
                  [] m.kind = "end" -> txs \ {m.to}
                  [] OTHER -> txs
  BY <1>3, Zenon DEF Serve
<1> HIDE DEF answer, event
<1>9. /\ q \in Seq(PartType) /\ Fits(q)
       /\ \A k \in DOMAIN q : Header(q, k) =>
              k = Len(rsp) + 1 /\ q[k] = [part |-> "header", msg |-> answer]
  BY <1>2, <1>4, <1>6, Sends, Zenon DEF InStep
<1> HIDE DEF q
<1>10. /\ rsp' \in Seq(PartType) /\ Fits(rsp')
       /\ \A k \in DOMAIN rsp' : Header(rsp', k) =>
              k = Len(rsp) + 1 /\ rsp'[k] = [part |-> "header", msg |-> answer]
  <2>1. CASE m.kind \in {"watch", "rewatch"}
    <3> DEFINE r == q \o Parts(event)
    <3>1. r \in Seq(PartType) /\ Fits(r)
          /\ \A k \in DOMAIN r : Header(r, k) =>
                 \/ k \in DOMAIN q /\ Header(q, k) /\ r[k] = q[k]
                 \/ event.kind = "reply"
      BY <1>9, <1>6, Sends, Zenon
    <3>2. event.kind # "reply"
      BY <1>6
    <3>3. \A k \in DOMAIN r : Header(r, k) =>
              k = Len(rsp) + 1 /\ r[k] = [part |-> "header", msg |-> answer]
      BY <3>1, <3>2, <1>9, Zenon
    <3>4. rsp' = r
      BY <2>1, <1>7
    <3> HIDE DEF r
    <3> QED BY <3>1, <3>3, <3>4, Zenon
  <2>2. CASE m.kind \notin {"watch", "rewatch"}
    <3>1. q \o <<>> = q
      BY <1>9, ConcatEmptySeq, Zenon
    <3>2. rsp' = q
      BY <3>1, <2>2, <1>7
    <3> QED BY <3>2, <1>9, Zenon
  <2> QED BY <2>1, <2>2
<1>11. Typed'
  <2>1. m.kind \in {"watch", "rewatch"} => m.w \in Watches
    BY <1>4 DEF Steps, StepOk, Typed, ActTyped, ActType
  <2>2. tokens' \subseteq Watches
    BY <2>1, <1>8 DEF Typed, WatchesTyped
  <2>3. WatchesTyped'
    BY <2>2, <1>1 DEF Typed, WatchesTyped
  <2>4. QueuesTyped'
    BY <1>1, <1>2, <1>5, <1>10 DEF Typed, QueuesTyped
  <2>5. txs' \subseteq Actors
    BY <1>4, <1>8 DEF Typed, OthersTyped
  <2>6. OthersTyped'
    BY <2>5, <1>1 DEF Typed, OthersTyped
  <2> QED BY <2>3, <2>4, <2>6, <1>1 DEF Typed, ActTyped, LocksTyped
<1>12. Talking'
  <2>1. Awaited(answer)'
    BY <1>1, <1>4, <1>6 DEF Awaited
  <2>2. \A k \in DOMAIN rsp' : Header(rsp, k)' => k = Len(rsp) + 1 /\ rsp'[k].msg = answer
    BY <1>10 DEF Header
  <2>3. \A k \in DOMAIN rsp' : Header(rsp, k)' =>
            /\ Awaited(rsp[k].msg)'
            /\ \A j \in DOMAIN rsp' : Header(rsp, j)' => j = k
    BY <2>1, <2>2
  <2> QED BY <2>3, <1>1, <1>4, <1>5 DEF Talking
<1>13. InStep'
  BY <1>10, <1>1 DEF InStep, Fits
<1>14. Known'
  <2>1. m.kind = "end" => m.to \notin open
    BY <1>4 DEF Steps, StepOk
  <2>2. open' \subseteq txs'
    BY <2>1, <1>1, <1>8 DEF Known
  <2>3. ASSUME NEW b \in Actors PROVE KnownOk(b)'
    <3> SUFFICES ASSUME act[b].job = "start", act[b].at \in {"done", "reply"}
                 PROVE  b \in txs'
      BY <1>1 DEF KnownOk
    <3>1. CASE b = m.to
      BY <3>1, <1>4, <1>8
    <3>2. CASE b # m.to
      <4>1. act[b].at # "reply"
        BY <3>2, <1>4 DEF Talking
      <4>2. b \in txs
        BY <4>1 DEF Known, KnownOk
      <4> QED BY <4>2, <3>2, <1>8
    <3> QED BY <3>1, <3>2
  <2> QED BY <2>2, <2>3 DEF Known
<1>15. Counted' /\ Steps' /\ Places' /\ Listed' /\ Held' /\ Silent'
  BY <1>1 DEF Counted, InTx, Steps, StepOk, Places, Listed, OneEach, ReadsWell, Registers,
     Reads, Quiet, Locked, Frozen, Held, Silent, Used
<1> QED BY <1>11, <1>12, <1>13, <1>14, <1>15

(* An event is no reply.                                                   *)
LEMMA ChangeKeeps ==
    ASSUME XInv, NEW w \in Watches, Change(w)
    PROVE  XInv'
<1> USE Names DEF XInv
<1>1. UNCHANGED <<act, open, transaction_mutex, transaction_count, request_mutex,
    response_mutex, xenwatch_mutex, watch_readers, watch_writer, watches, watch_events,
    reply_list, reader, running, own, sus, todo, req, tokens, txs, seen, ops, suspends>>
  BY DEF Change, locks, lists, calls
<1> DEFINE event == Msg("event", NoOne, w)
           q == rsp \o Parts(event)
<1>2. /\ changes < Changes /\ changes' = changes + 1
      /\ version' = [version EXCEPT ![w] = version[w] + 1]
      /\ rsp' = q \/ rsp' = rsp
  BY DEF Change, Event
<1>3. event \in Msgs /\ event.kind # "reply"
  BY DEF Msg, Msgs
<1>4. rsp \in Seq(PartType) /\ Fits(rsp)
  BY DEF Typed, QueuesTyped, InStep
<1> HIDE DEF event
<1>5. /\ q \in Seq(PartType) /\ Fits(q)
      /\ \A k \in DOMAIN q : Header(q, k) =>
             k \in DOMAIN rsp /\ Header(rsp, k) /\ q[k] = rsp[k]
  BY <1>3, <1>4, Sends, Zenon
<1> HIDE DEF q
<1>6. /\ rsp' \in Seq(PartType) /\ Fits(rsp')
      /\ \A k \in DOMAIN rsp' : Header(rsp', k) =>
             k \in DOMAIN rsp /\ Header(rsp, k) /\ rsp'[k] = rsp[k]
  BY <1>2, <1>4, <1>5
<1>7. Typed'
  <2>1. changes \in 0 .. Changes /\ version \in [Watches -> 0 .. Changes]
        /\ \A v \in Watches : version[v] <= changes
    BY DEF Typed, WatchesTyped, OthersTyped
  <2>2. changes' \in 0 .. Changes /\ version' \in [Watches -> 0 .. Changes]
        /\ \A v \in Watches : version'[v] <= changes'
    BY <2>1, <1>2
  <2>3. WatchesTyped'
    BY <2>2, <1>1 DEF Typed, WatchesTyped
  <2>4. QueuesTyped'
    BY <1>1, <1>6 DEF Typed, QueuesTyped
  <2>5. OthersTyped'
    BY <2>2, <1>1 DEF Typed, OthersTyped
  <2> QED BY <2>3, <2>4, <2>5, <1>1 DEF Typed, ActTyped, LocksTyped
<1>8. Talking'
  <2>1. \A x : Awaited(x)' <=> Awaited(x)
    BY <1>1 DEF Awaited
  <2>2. \A k \in DOMAIN rsp' : Header(rsp, k)' =>
            k \in DOMAIN rsp /\ Header(rsp, k) /\ rsp'[k] = rsp[k]
    BY <1>6 DEF Header
  <2>3. \A k \in DOMAIN rsp' : Header(rsp, k)' =>
            /\ req' = <<>> /\ reply_list' = <<>> /\ reader'.msg.kind # "reply"
            /\ Awaited(rsp[k].msg)'
            /\ \A j \in DOMAIN rsp' : Header(rsp, j)' => j = k
    BY <2>1, <2>2, <1>1 DEF Talking
  <2> QED BY <2>1, <2>3, <1>1 DEF Talking
<1>9. InStep'
  BY <1>6, <1>1 DEF InStep, Fits
<1>10. Counted' /\ Steps' /\ Places' /\ Listed' /\ Held' /\ Known' /\ Silent'
  BY <1>1 DEF Counted, InTx, Steps, StepOk, Places, Listed, OneEach, ReadsWell, Registers,
     Reads, Quiet, Locked, Frozen, Held, Known, KnownOk, Silent, Used
<1> QED BY <1>7, <1>8, <1>9, <1>10
-----------------------------------------------------------------------------
LEMMA InitInv == Init => XInv
<1> USE Names
<1> SUFFICES ASSUME Init PROVE XInv
  OBVIOUS
<1>1. \A a \in Actors : act[a].job = "none" /\ act[a].w = NoOne /\ act[a].at = "idle"
  BY DEF Init, NoAct
<1>2. act \in [Actors -> ActType]
  BY DEF Init, NoAct, ActType
<1>3. NoMsg \in Msgs /\ NoMsg.kind = "none"
  BY DEF NoMsg, Msg, Msgs
<1>4. Typed
  <2>1. QueuesTyped
    BY <1>3 DEF Init, QueuesTyped
  <2>2. ActTyped
    BY <1>2 DEF Init, ActTyped
  <2>3. WatchesTyped
    BY DEF Init, WatchesTyped
  <2>4. LocksTyped /\ OthersTyped
    BY DEF Init, LocksTyped, OthersTyped
  <2> QED BY <2>1, <2>2, <2>3, <2>4 DEF Typed
<1>5. InTx = {}
  BY <1>1 DEF Init, InTx
<1>6. Counted
  BY <1>5, FS_EmptySet DEF Init, Counted
<1>7. Steps
  BY <1>1 DEF Init, Steps, StepOk
<1>8. Places /\ Known /\ Silent
  BY <1>1 DEF Init, Places, Known, KnownOk, Silent
<1>9. Listed
  BY <1>1 DEF Init, Listed, ReadsWell, Reads, Registers, OneEach, Quiet, Locked, Frozen
<1>10. Held
  BY <1>5 DEF Init, Held, Quiet, Locked, Frozen
<1>11. Talking
  BY <1>1, <1>3 DEF Init, Talking
<1>12. InStep
  BY DEF Init, InStep, Fits, Paired
<1> QED BY <1>4, <1>6, <1>7, <1>8, <1>9, <1>10, <1>11, <1>12 DEF XInv

LEMMA Stutters ==
    ASSUME XInv, UNCHANGED vars
    PROVE  XInv'
<1>1. UNCHANGED <<act, open, transaction_mutex, transaction_count, request_mutex,
    response_mutex, xenwatch_mutex, watch_readers, watch_writer, watches, watch_events,
    reply_list, reader, running, own, sus, todo, req, rsp, tokens, txs, version, seen,
    ops, changes, suspends>>
  BY DEF vars, locks, lists, rings, stored, bounds, calls
<1>2. Typed' /\ Counted' /\ Steps' /\ Places'
  BY <1>1 DEF XInv, Typed, ActTyped, LocksTyped, WatchesTyped, QueuesTyped, OthersTyped,
     Counted, InTx, Steps, StepOk, Places
<1>3. Listed' /\ Held'
  BY <1>1 DEF XInv, Listed, OneEach, ReadsWell, Registers, Reads, Quiet, Locked, Frozen,
     Held, InTx
<1>4. Talking' /\ InStep' /\ Known' /\ Silent'
  BY <1>1 DEF XInv, Talking, Awaited, Header, InStep, Fits, Paired, Known, KnownOk,
     Silent, Used
<1> QED BY <1>2, <1>3, <1>4 DEF XInv

LEMMA NextInv == XInv /\ [Next]_vars => XInv'
<1> SUFFICES ASSUME XInv, [Next]_vars PROVE XInv'
  OBVIOUS
<1>1. ASSUME NEW a \in Actors, Begins(a) PROVE XInv'
  BY <1>1, BeginKeeps DEF Begins
<1>2. ASSUME NEW a \in Actors, Acts(a) PROVE XInv'
  BY <1>2, BeginEndKeeps, TransactionStartKeeps, WatchLocksKeeps, AskKeeps,
     ReadReplyKeeps, DoneKeeps, PurgeKeeps, Zenon DEF Acts
<1>3. CASE Reader
  BY <1>3, DataToReadKeeps, ReadHeaderKeeps, ReadBodyKeeps, Zenon DEF Reader
<1>4. CASE Xenwatch
  BY <1>4, XenwatchLocksKeeps, CallbackKeeps, CallbackEndsKeeps, Zenon DEF Xenwatch
<1>5. CASE SuspendTransactions
  BY <1>5, SuspendTransactionsKeeps
<1>6. CASE Suspender
  BY <1>6, SuspendWatchesKeeps, SuspendRequestsKeeps, SuspendResponsesKeeps, CancelKeeps,
     MigrateKeeps, ResumeKeeps, RewatchKeeps, RewatchDoneKeeps, ResumeEndsKeeps,
     DevicesResumedKeeps, Zenon DEF Suspender
<1>7. CASE Serve
  BY <1>7, ServeKeeps
<1>8. ASSUME NEW w \in Watches, Change(w) PROVE XInv'
  BY <1>8, ChangeKeeps
<1>9. CASE UNCHANGED vars
  BY <1>9, Stutters
<1> QED BY <1>1, <1>2, <1>3, <1>4, <1>5, <1>6, <1>7, <1>8, <1>9, Zenon DEF Next

LEMMA Always == Spec => []XInv
<1> QED BY InitInv, NextInv, PTL DEF Spec

(* The types, of which transaction_count's bound needs Counted.            *)
LEMMA InvTypes ==
    ASSUME XInv
    PROVE  Types
<1>1. transaction_count \in 0 .. Cardinality(Actors)
  <2>1. InTx \subseteq Actors
    BY DEF XInv, Typed, ActTyped, InTx
  <2>2. IsFiniteSet(InTx) /\ Cardinality(InTx) <= Cardinality(Actors)
    BY <2>1, Names, FS_Subset
  <2>3. Cardinality(InTx) \in Nat /\ Cardinality(Actors) \in Nat
    BY <2>2, Names, FS_CardinalityType
  <2> QED BY <2>2, <2>3 DEF XInv, Counted
<1>2. act \in [Actors -> [job : {"none", "read", "start", "end", "watch", "unwatch",
                                 "rewatch"},
                          w : Watches \cup {NoOne},
                          at : {"idle", "lock", "ask", "reply", "done", "purge"}]]
      /\ open \subseteq Actors
  BY DEF XInv, Typed, ActTyped, ActType
<1>3. transaction_mutex \in Mutex /\ request_mutex \in Mutex /\ response_mutex \in Mutex
      /\ xenwatch_mutex \in Mutex
  BY Names DEF XInv, Typed, LocksTyped, Mutex
<1> QED BY <1>1, <1>2, <1>3 DEF Types, XInv, Typed, LocksTyped, WatchesTyped, QueuesTyped,
    PartType, OthersTyped

LEMMA InvMatches ==
    ASSUME XInv
    PROVE  ReplyMatches
<1>1. Len(req) + Len(reply_list) <= 1
  <2>1. req \in Seq(Msgs) /\ reply_list \in Seq(Msgs)
    BY DEF XInv, Typed, QueuesTyped
  <2>2. Len(req) \in Nat /\ Len(reply_list) \in Nat /\ Len(req) <= 1 /\ Len(reply_list) <= 1
        /\ (req # <<>> => reply_list = <<>>)
    BY <2>1, LenProperties DEF XInv, Talking
  <2>3. (req = <<>> => Len(req) = 0) /\ (reply_list = <<>> => Len(reply_list) = 0)
    BY <2>1
  <2> QED BY <2>2, <2>3
<1>2. ASSUME NEW k \in DOMAIN reply_list PROVE reply_list[k].to = request_mutex
  <2>1. reply_list \in Seq(Msgs) /\ Len(reply_list) <= 1
    BY DEF XInv, Typed, QueuesTyped, Talking
  <2>2. k = 1 /\ reply_list # <<>>
    BY <2>1
  <2> QED BY <2>2 DEF XInv, Talking, Awaited
<1>3. ASSUME reader.at = "body"
      PROVE  rsp # <<>> /\ Head(rsp) = [part |-> "body", msg |-> reader.msg]
  <2>1. rsp \in Seq(PartType) /\ rsp # <<>>
        /\ rsp[1] = [part |-> "body", msg |-> reader.msg]
    BY <1>3 DEF XInv, Typed, QueuesTyped, InStep, Fits
  <2>2. Head(rsp) = rsp[1]
    BY <2>1, TailIs, Zenon
  <2> QED BY <2>1, <2>2
<1>4. \A a \in Actors : act[a].at = "reply" => request_mutex = a
  BY DEF XInv, Talking
<1> QED BY <1>1, <1>2, <1>3, <1>4, InvTypes DEF ReplyMatches

(* Replies reach the thread that asked, one at a time, and headers are     *)
(* never read without their bodies: process_msg under response_mutex,      *)
(* xs_talkv under request_mutex, xs_suspend behind both.                   *)
THEOREM RepliesMatch == Spec => []ReplyMatches
<1>1. XInv => ReplyMatches
  BY InvMatches
<1> QED BY <1>1, Always, PTL

(* A transaction that a driver has open is open in the xenstored that the  *)
(* guest now talks to: xs_suspend waits for transaction_count to fall to 0.*)
THEOREM TransactionsAreKnown == Spec => []TransactionsKnown
<1>1. XInv => TransactionsKnown
  BY DEF XInv, Known, TransactionsKnown
<1> QED BY <1>1, Always, PTL

(* No callback runs for a watch that unregister_xenbus_watch has removed,  *)
(* but the one that removed it.                                            *)
THEOREM NoneCalledAfter == Spec => []NoCallbackAfter
<1>1. XInv => NoCallbackAfter
  BY DEF XInv, Silent, NoCallbackAfter
<1> QED BY <1>1, Always, PTL
-----------------------------------------------------------------------------
(* No event is lost: the watch is set in this xenstored, and its callback  *)
(* saw the latest version or has an event to come.                         *)
Seen(w) == w \in tokens /\ (seen[w] # version[w] => Pending(w))

SetOk(a) ==
    /\ act[a].job = "unwatch" /\ act[a].at # "lock" => act[a].w \notin watches
    /\ act[a].job \in {"watch", "rewatch"} =>
           /\ act[a].at = "done" => Seen(act[a].w)
           /\ act[a].at = "reply" => Seen(act[a].w) \/ (req # <<>> /\ req[1].to = a)

ToCome(w) ==
    Seen(w) \/ Used(w) \/ sus = "moved" \/ (sus = "rewatch" /\ w \in todo)

Watched == (\A w \in watches : ToCome(w)) /\ \A a \in Actors : SetOk(a)

SeenVars == <<tokens, version, seen, rsp, reader, watch_events>>

LEMMA SameSeen ==
    ASSUME UNCHANGED SeenVars, NEW w
    PROVE  Seen(w)' <=> Seen(w)
<1>1. UNCHANGED <<tokens, version, seen, rsp, reader, watch_events>>
  BY DEF SeenVars
<1> QED BY <1>1 DEF Seen, Pending

(* Steps that touch neither the threads nor the list of watches.           *)
LEMMA SeenKept ==
    ASSUME XInv, Watched, UNCHANGED <<act, watches, sus, todo, req>>,
           \A w \in watches : Seen(w) => Seen(w)'
    PROVE  Watched'
<1>1. ASSUME NEW w \in watches PROVE ToCome(w)'
  <2>1. Used(w)' <=> Used(w)
    BY DEF Used
  <2> QED BY <2>1 DEF Watched, ToCome
<1>2. ASSUME NEW a \in Actors PROVE SetOk(a)'
  <2>1. act[a].job = "watch" /\ act[a].at \in {"reply", "done"} => act[a].w \in watches
    BY DEF XInv, Listed, ReadsWell, Reads, Registers
  <2>2. act[a].job = "rewatch" => act[a].w \in watches
    BY DEF XInv, Steps, StepOk
  <2>3. SetOk(a)
    BY DEF Watched
  <2> QED BY <2>1, <2>2, <2>3 DEF SetOk
<1> QED BY <1>1, <1>2 DEF Watched

(* Steps of xs_suspend and xs_resume: what was to come is to come.         *)
LEMMA StillToCome ==
    ASSUME Watched, UNCHANGED <<act, watches, req>>, UNCHANGED SeenVars,
           \A w \in watches : sus = "moved" \/ (sus = "rewatch" /\ w \in todo)
                                  => sus' = "moved" \/ (sus' = "rewatch" /\ w \in todo')
    PROVE  Watched'
<1>1. \A w : (Seen(w)' <=> Seen(w)) /\ (Used(w)' <=> Used(w))
  BY SameSeen DEF Used
<1>2. \A w \in watches : ToCome(w)'
  BY <1>1 DEF Watched, ToCome
<1>3. ASSUME NEW a \in Actors PROVE SetOk(a)'
  <2>1. SetOk(a)
    BY DEF Watched
  <2> QED BY <2>1, <1>1 DEF SetOk
<1> QED BY <1>2, <1>3 DEF Watched

(* A step of one thread: what holds for the others still does.             *)
LEMMA OthersKept ==
    ASSUME XInv, Watched, NEW a \in Actors, \A b \in Actors : b # a => act'[b] = act[b],
           watches' \subseteq watches \cup {act[a].w},
           \A w : Seen(w) => Seen(w)',
           \A b \in Actors : b # a /\ req # <<>> /\ req[1].to = b => req' = req,
           \A b \in Actors : b # a /\ act[b].job = "unwatch" /\ act[b].at # "lock"
                                 => act[b].w \notin watches'
    PROVE  \A b \in Actors : b # a => SetOk(b)'
<1> SUFFICES ASSUME NEW b \in Actors, b # a PROVE SetOk(b)'
  OBVIOUS
<1>1. SetOk(b)
  BY DEF Watched
<1> QED BY <1>1 DEF SetOk
-----------------------------------------------------------------------------
(* A thread that begins or ends with a watch, and those that do neither.   *)
LEMMA MoveWatched ==
    ASSUME XInv, Watched, NEW a \in Actors,
           \A b \in Actors : b # a => act'[b] = act[b],
           UNCHANGED <<watches, sus, todo, req>>, UNCHANGED SeenVars,
           \A w \in watches : w = act[a].w => ToCome(w)', SetOk(a)'
    PROVE  Watched'
<1>1. \A w : Seen(w)' <=> Seen(w)
  BY SameSeen
<1>2. ASSUME NEW w \in watches PROVE ToCome(w)'
  <2>1. CASE w = act[a].w
    BY <2>1
  <2>2. CASE w # act[a].w
    <3>1. Used(w) => Used(w)'
      BY <2>2 DEF Used
    <3> QED BY <3>1, <1>1 DEF Watched, ToCome
  <2> QED BY <2>1, <2>2
<1>3. \A b \in Actors : b # a => SetOk(b)'
  BY <1>1, OthersKept DEF Watched, SetOk
<1> QED BY <1>2, <1>3 DEF Watched

LEMMA BeginWatched ==
    ASSUME XInv, Watched, NEW a \in Actors, NEW job \in {"read", "start", "watch", "unwatch"},
           NEW w \in Watches \cup {NoOne}, Begin(a, job, w)
    PROVE  Watched'
<1> USE Names DEF XInv
<1>1. /\ \A b \in Actors : b # a => act'[b] = act[b]
      /\ act'[a].job = job /\ act'[a].w = w /\ act'[a].at \in {"ask", "lock"}
      /\ job = "unwatch" => act'[a].at = "lock"
      /\ act[a].w = NoOne
  BY DEF Begin, Free, NoAct, Typed, ActTyped
<1>2. UNCHANGED <<watches, sus, todo, req>> /\ UNCHANGED SeenVars
  BY DEF Begin, lists, rings, stored, SeenVars
<1>3. SetOk(a)'
  BY <1>1 DEF SetOk
<1>4. act[a].w \notin watches
  BY <1>1 DEF Typed, WatchesTyped
<1> QED BY <1>1, <1>2, <1>3, <1>4, MoveWatched

LEMMA BeginEndWatched ==
    ASSUME XInv, Watched, NEW a \in Actors, BeginEnd(a)
    PROVE  Watched'
<1> USE Names DEF XInv
<1>1. /\ \A b \in Actors : b # a => act'[b] = act[b]
      /\ act'[a].job = "end" /\ act[a].w = NoOne
  BY DEF BeginEnd, NoAct, Typed, ActTyped
<1>2. UNCHANGED <<watches, sus, todo, req>> /\ UNCHANGED SeenVars
  BY DEF BeginEnd, lists, rings, stored, SeenVars
<1>3. SetOk(a)'
  BY <1>1 DEF SetOk
<1>4. act[a].w \notin watches
  BY <1>1 DEF Typed, WatchesTyped
<1> QED BY <1>1, <1>2, <1>3, <1>4, MoveWatched

LEMMA TransactionStartWatched ==
    ASSUME XInv, Watched, NEW a \in Actors, TransactionStart(a)
    PROVE  Watched'
<1> USE Names DEF XInv
<1>1. /\ \A b \in Actors : b # a => act'[b] = act[b]
      /\ act'[a].job = "start" /\ act[a].job = "start"
  BY DEF TransactionStart, At, Typed, ActTyped, ActType
<1>2. UNCHANGED <<watches, sus, todo, req>> /\ UNCHANGED SeenVars
  BY DEF TransactionStart, lists, rings, stored, SeenVars
<1>3. SetOk(a)'
  BY <1>1 DEF SetOk
<1>4. act[a].w \notin watches
  BY <1>1 DEF Typed, WatchesTyped, Steps, StepOk
<1> QED BY <1>1, <1>2, <1>3, <1>4, MoveWatched

LEMMA WatchLocksWatched ==
    ASSUME XInv, Watched, NEW a \in Actors, WatchLocks(a)
    PROVE  Watched'
<1> USE Names DEF XInv
<1>1. /\ \A b \in Actors : b # a => act'[b] = act[b]
      /\ act'[a].job = act[a].job /\ act'[a].w = act[a].w /\ act'[a].at = "ask"
      /\ act[a].job \in {"watch", "unwatch"}
      /\ watches' = IF act[a].job = "watch" THEN watches \cup {act[a].w}
                                            ELSE watches \ {act[a].w}
  BY DEF WatchLocks, At, Typed, ActTyped, ActType
<1>2. UNCHANGED <<sus, todo, req>> /\ UNCHANGED SeenVars
  BY DEF WatchLocks, rings, stored, SeenVars
<1>3. \A w : Seen(w)' <=> Seen(w)
  BY <1>2, SameSeen
<1>4. ASSUME NEW w \in watches' PROVE ToCome(w)'
  <2>1. CASE w = act[a].w
    BY <2>1, <1>1 DEF ToCome, Used
  <2>2. CASE w # act[a].w
    <3>1. w \in watches
      BY <2>2, <1>1
    <3>2. Used(w) => Used(w)'
      BY <2>2, <1>1 DEF Used
    <3> QED BY <3>1, <3>2, <1>2, <1>3 DEF Watched, ToCome
  <2> QED BY <2>1, <2>2
<1>5. ASSUME NEW b \in Actors, b # a PROVE SetOk(b)'
  <2>1. act[b].job = "unwatch" => act[b].w # act[a].w
    BY <1>1, <1>5 DEF Listed, OneEach, Registers
  <2>2. SetOk(b)
    BY DEF Watched
  <2> QED BY <2>1, <2>2, <1>1, <1>2, <1>3, <1>5 DEF SetOk
<1>6. SetOk(a)'
  BY <1>1 DEF SetOk
<1> QED BY <1>4, <1>5, <1>6 DEF Watched

LEMMA AskWatched ==
    ASSUME XInv, Watched, NEW a \in Actors, Ask(a)
    PROVE  Watched'
<1> USE Names DEF XInv
<1>1. /\ \A b \in Actors : b # a => act'[b] = act[b]
      /\ act'[a].job = act[a].job /\ act'[a].w = act[a].w /\ act'[a].at = "reply"
      /\ act[a].at = "ask"
  BY DEF Ask, At, Typed, ActTyped, ActType
<1>2. UNCHANGED <<watches, sus, todo>> /\ UNCHANGED SeenVars
  BY DEF Ask, lists, stored, SeenVars
<1>3. \A w : Seen(w)' <=> Seen(w)
  BY <1>2, SameSeen
<1>4. \A b \in Actors : act[b].at # "reply"
  BY DEF Ask, Talking
<1>5. req = <<>>
  BY <1>4, NobodyTalks
<1>6. req' # <<>> /\ req'[1].to = a
  <2>1. req' = Append(req, Msg(act[a].job, a, act[a].w))
    BY DEF Ask
  <2> QED BY <2>1, <1>5 DEF Msg
<1>7. ASSUME NEW w \in watches PROVE ToCome(w)'
  <2>1. Used(w) => Used(w)'
    BY <1>1 DEF Used
  <2> QED BY <2>1, <1>2, <1>3 DEF Watched, ToCome
<1>8. ASSUME NEW b \in Actors, b # a PROVE SetOk(b)'
  <2>1. SetOk(b)
    BY DEF Watched
  <2> QED BY <2>1, <1>1, <1>2, <1>3, <1>4, <1>8 DEF SetOk
<1>9. SetOk(a)'
  <2>1. SetOk(a)
    BY DEF Watched
  <2> QED BY <2>1, <1>1, <1>2, <1>6 DEF SetOk
<1> QED BY <1>2, <1>7, <1>8, <1>9 DEF Watched

LEMMA ReadReplyWatched ==
    ASSUME XInv, Watched, NEW a \in Actors, ReadReply(a)
    PROVE  Watched'
<1> USE Names DEF XInv
<1>1. /\ \A b \in Actors : b # a => act'[b] = act[b]
      /\ act'[a].job = act[a].job /\ act'[a].w = act[a].w /\ act'[a].at = "done"
      /\ act[a].at = "reply"
  BY DEF ReadReply, At, Typed, ActTyped, ActType
<1>2. UNCHANGED <<watches, sus, todo, req>> /\ UNCHANGED SeenVars
  BY DEF ReadReply, lists, rings, stored, SeenVars
<1>3. req = <<>>
  BY DEF ReadReply, Talking
<1>4. SetOk(a)'
  <2>1. SetOk(a)
    BY DEF Watched
  <2>2. \A w : Seen(w)' <=> Seen(w)
    BY <1>2, SameSeen
  <2> QED BY <2>1, <2>2, <1>1, <1>2, <1>3 DEF SetOk
<1>5. \A w \in watches : w = act[a].w => ToCome(w)'
  BY <1>1 DEF ToCome, Used
<1> QED BY <1>1, <1>2, <1>4, <1>5, MoveWatched

LEMMA DoneWatched ==
    ASSUME XInv, Watched, NEW a \in Actors, Done(a)
    PROVE  Watched'
<1> USE Names DEF XInv
<1>1. /\ \A b \in Actors : b # a => act'[b] = act[b]
      /\ act[a].at = "done" /\ act[a].job # "rewatch"
      /\ act[a].job # "unwatch" => act'[a] = NoAct
      /\ act[a].job = "unwatch" => act'[a].job = "unwatch" /\ act'[a].w = act[a].w
  BY DEF Done, At, Typed, ActTyped, ActType
<1>2. UNCHANGED <<watches, sus, todo, req>> /\ UNCHANGED SeenVars
  BY DEF Done, lists, rings, stored, SeenVars
<1>3. SetOk(a)
  BY DEF Watched
<1>4. SetOk(a)'
  BY <1>1, <1>2, <1>3 DEF SetOk, NoAct
<1>5. \A w \in watches : w = act[a].w => ToCome(w)'
  <2>1. act[a].job \in {"read", "start", "end", "none"} => act[a].w \notin watches
    BY <1>1 DEF Steps, StepOk, Typed, WatchesTyped
  <2>2. act[a].job \in {"none", "read", "start", "end", "watch", "unwatch", "rewatch"}
    BY DEF Typed, ActTyped, ActType
  <2>3. \A w : Seen(w)' <=> Seen(w)
    BY <1>2, SameSeen
  <2> QED BY <1>1, <1>3, <2>1, <2>2, <2>3 DEF SetOk, ToCome
<1> QED BY <1>1, <1>2, <1>4, <1>5, MoveWatched

(* unregister_xenbus_watch takes away the events of its own watch only.    *)
LEMMA PurgeWatched ==
    ASSUME XInv, Watched, NEW a \in Actors, Purge(a)
    PROVE  Watched'
<1> USE Names DEF XInv
<1>1. /\ \A b \in Actors : b # a => act'[b] = act[b]
      /\ act'[a] = NoAct /\ act[a].at = "purge" /\ act[a].job = "unwatch"
      /\ watch_events' = Without(watch_events, act[a].w)
  BY DEF Purge, Typed, ActTyped, Steps, StepOk
<1>2. UNCHANGED <<watches, sus, todo, req, rsp, reader, tokens, version, seen>>
  BY DEF Purge, rings, stored
<1>3. act[a].w \notin watches
  BY <1>1 DEF Watched, SetOk
<1>4. ASSUME NEW w, w # act[a].w, Seen(w) PROVE Seen(w)'
  <2>1. Pending(w) => Pending(w)'
    <3>1. watch_events \in Seq(Watches)
      BY DEF Typed, WatchesTyped
    <3>2. ASSUME NEW k \in DOMAIN watch_events, watch_events[k] = w
          PROVE  \E j \in DOMAIN watch_events' : watch_events'[j] = w
      BY <3>1, <3>2, <1>1, <1>4, WithoutType
    <3> QED BY <3>2, <1>2 DEF Pending
  <2> QED BY <2>1, <1>2, <1>4 DEF Seen
<1>5. ASSUME NEW w \in watches PROVE ToCome(w)'
  <2>1. w # act[a].w
    BY <1>3
  <2>2. Used(w) => Used(w)'
    BY <2>1, <1>1 DEF Used
  <2> QED BY <2>1, <2>2, <1>2, <1>4 DEF Watched, ToCome
<1>6. ASSUME NEW b \in Actors, b # a PROVE SetOk(b)'
  <2>1. SetOk(b)
    BY DEF Watched
  <2>2. act[b].job \in {"watch", "rewatch"} /\ act[b].at \in {"reply", "done"}
           => act[b].w \in watches
    BY DEF Listed, ReadsWell, Reads, Registers, Steps, StepOk
  <2>3. ASSUME act[b].w \in watches, Seen(act[b].w) PROVE Seen(act[b].w)'
    <3>1. PICK v : v = act[b].w
      OBVIOUS
    <3>2. v # act[a].w /\ Seen(v)
      BY <2>3, <3>1, <1>3
    <3>3. Seen(v)'
      BY <3>2, <1>4
    <3>4. act'[b].w = v
      BY <3>1, <1>1, <1>6
    <3> QED BY <3>3, <3>4 DEF Seen, Pending
  <2> QED BY <2>1, <2>2, <2>3, <1>1, <1>2, <1>6 DEF SetOk
<1>7. SetOk(a)'
  BY <1>1 DEF SetOk, NoAct
<1> QED BY <1>2, <1>5, <1>6, <1>7 DEF Watched
-----------------------------------------------------------------------------
(* The reader, xenwatch and xenstored.                                     *)
LEMMA ReadHeaderWatched ==
    ASSUME XInv, Watched, ReadHeader
    PROVE  Watched'
<1> USE Names DEF XInv
<1>1. UNCHANGED <<act, watches, sus, todo, req, tokens, version, seen, watch_events>>
  BY DEF ReadHeader, lists, stored
<1>2. ASSUME NEW w \in watches, Pending(w) PROVE Pending(w)'
  <2> DEFINE e == Msg("event", NoOne, w)
  <2>1. CASE rsp = <<>>
    <3>1. UNCHANGED rsp /\ reader'.msg = reader.msg
      BY <2>1 DEF ReadHeader, Typed, QueuesTyped
    <3> QED BY <3>1, <1>1, <1>2 DEF Pending
  <2>2. CASE rsp # <<>>
    <3>1. rsp \in Seq(PartType) /\ rsp' = Tail(rsp) /\ reader'.msg = Head(rsp).msg
      BY <2>2 DEF ReadHeader, Typed, QueuesTyped
    <3>2. reader.msg = NoMsg
      BY DEF ReadHeader, Held
    <3>3. reader.msg # e
      BY <3>2 DEF NoMsg, Msg
    <3>4. ASSUME NEW k \in DOMAIN rsp, rsp[k].msg = e PROVE Pending(w)'
      <4>1. CASE k = 1
        BY <4>1, <3>1, <3>4, <2>2, TailIs DEF Pending
      <4>2. CASE k # 1
        <5>1. k - 1 \in DOMAIN Tail(rsp) /\ Tail(rsp)[k - 1] = rsp[k]
          BY <4>2, <3>1, <2>2
        <5> QED BY <5>1, <3>1, <3>4 DEF Pending
      <4> QED BY <4>1, <4>2
    <3> QED BY <3>3, <3>4, <1>1, <1>2 DEF Pending
  <2> QED BY <2>1, <2>2
<1>3. \A w \in watches : Seen(w) => Seen(w)'
  BY <1>1, <1>2 DEF Seen
<1> QED BY <1>1, <1>3, SeenKept

LEMMA ReadBodyWatched ==
    ASSUME XInv, Watched, ReadBody
    PROVE  Watched'
<1> USE Names DEF XInv
<1>1. UNCHANGED <<act, watches, sus, todo, req, tokens, version, seen>>
  BY DEF ReadBody, stored
<1>2. /\ rsp # <<>> /\ rsp \in Seq(PartType) /\ rsp' = Tail(rsp)
      /\ watch_events \in Seq(Watches) /\ watches \subseteq Watches
      /\ rsp[1].msg = reader.msg
  BY DEF ReadBody, Typed, QueuesTyped, WatchesTyped, InStep, Fits
<1>3. ASSUME NEW w \in watches, Pending(w) PROVE Pending(w)'
  <2> DEFINE e == Msg("event", NoOne, w)
  <2>1. CASE reader.msg = e
    <3>1. e.kind = "event" /\ e.w = w
      BY DEF Msg
    <3>2. watch_events' = Append(watch_events, w)
      BY <2>1, <3>1 DEF ReadBody
    <3>3. Len(watch_events) + 1 \in DOMAIN watch_events'
          /\ watch_events'[Len(watch_events) + 1] = w
      BY <3>2, <1>2
    <3> QED BY <3>3 DEF Pending
  <2>2. CASE reader.msg # e
    <3>1. ASSUME NEW k \in DOMAIN rsp, rsp[k].msg = e PROVE Pending(w)'
      <4>1. k # 1
        BY <3>1, <2>2, <1>2
      <4>2. k - 1 \in DOMAIN Tail(rsp) /\ Tail(rsp)[k - 1] = rsp[k]
        BY <4>1, <1>2
      <4> QED BY <4>2, <3>1, <1>2 DEF Pending
    <3>2. ASSUME NEW k \in DOMAIN watch_events, watch_events[k] = w PROVE Pending(w)'
      <4>1. k \in DOMAIN watch_events' /\ watch_events'[k] = w
        <5>1. \/ UNCHANGED watch_events
              \/ reader.msg.w \in watches
                    /\ watch_events' = Append(watch_events, reader.msg.w)
          BY DEF ReadBody
        <5> QED BY <5>1, <3>2, <1>2
      <4> QED BY <4>1 DEF Pending
    <3> QED BY <3>1, <3>2, <2>2, <1>3 DEF Pending
  <2> QED BY <2>1, <2>2
<1>4. \A w \in watches : Seen(w) => Seen(w)'
  BY <1>1, <1>3 DEF Seen
<1> QED BY <1>1, <1>4, SeenKept

LEMMA DataToReadWatched ==
    ASSUME XInv, Watched, DataToRead
    PROVE  Watched'
<1>1. UNCHANGED <<act, watches, sus, todo, req, rsp, tokens, version, seen, watch_events>>
      /\ reader'.msg = reader.msg
  BY DEF DataToRead, lists, rings, stored, XInv, Typed, QueuesTyped
<1>2. \A w \in watches : Seen(w) => Seen(w)'
  BY <1>1 DEF Seen, Pending
<1> QED BY <1>1, <1>2, SeenKept

(* The callback looks at the node: it has seen the latest version.         *)
LEMMA CallbackWatched ==
    ASSUME XInv, Watched, Callback
    PROVE  Watched'
<1> USE Names DEF XInv
<1>1. UNCHANGED <<act, watches, sus, todo, req, rsp, reader, tokens, version>>
  BY DEF Callback, rings, stored
<1>2. CASE watch_events = <<>>
  <2>1. UNCHANGED <<watch_events, seen>>
    BY <1>2 DEF Callback
  <2> QED BY <2>1, <1>1, SeenKept DEF Seen, Pending
<1>3. CASE watch_events # <<>>
  <2>1. /\ watch_events \in Seq(Watches) /\ watch_events' = Tail(watch_events)
        /\ Head(watch_events) = watch_events[1] /\ watch_events[1] \in Watches
        /\ seen' = [seen EXCEPT ![watch_events[1]] = version[watch_events[1]]]
        /\ seen \in [Watches -> 0 .. Changes] /\ watches \subseteq Watches
    BY <1>3, TailIs DEF Callback, Typed, WatchesTyped
  <2>2. ASSUME NEW w \in watches, Seen(w) PROVE Seen(w)'
    <3>1. CASE w = watch_events[1]
      BY <3>1, <2>1, <2>2, <1>1 DEF Seen
    <3>2. CASE w # watch_events[1]
      <4>1. seen'[w] = seen[w]
        BY <3>2, <2>1
      <4>2. ASSUME NEW k \in DOMAIN watch_events, watch_events[k] = w PROVE Pending(w)'
        <5>1. k - 1 \in DOMAIN Tail(watch_events) /\ Tail(watch_events)[k - 1] = watch_events[k]
          BY <3>2, <4>2, <2>1, <1>3
        <5> QED BY <5>1, <4>2, <2>1 DEF Pending
      <4>3. Pending(w) => Pending(w)'
        BY <4>2, <1>1 DEF Pending
      <4> QED BY <4>1, <4>3, <2>2, <1>1 DEF Seen
    <3> QED BY <3>1, <3>2
  <2> QED BY <2>2, <1>1, SeenKept
<1> QED BY <1>2, <1>3

(* Another version: an event is sent if the watch is set.                  *)
LEMMA ChangeWatched ==
    ASSUME XInv, Watched, NEW v \in Watches, Change(v)
    PROVE  Watched'
<1> USE Names DEF XInv
<1>1. UNCHANGED <<act, watches, sus, todo, req, reader, tokens, seen, watch_events>>
      /\ version' = [version EXCEPT ![v] = @ + 1]
  BY DEF Change, lists
<1> DEFINE e == Msg("event", NoOne, v)
<1>2. e \in Msgs /\ rsp \in Seq(PartType)
  BY DEF Msg, Msgs, Typed, QueuesTyped
<1>3. rsp' = IF v \in tokens THEN rsp \o Parts(e) ELSE rsp
  BY DEF Change, Event
<1>4. \A k \in DOMAIN rsp : k \in DOMAIN rsp' /\ rsp'[k] = rsp[k]
  BY <1>2, <1>3, PartsAre
<1>5. v \in tokens => \E k \in DOMAIN rsp' : rsp'[k].msg = e
  <2>1. ASSUME v \in tokens PROVE Len(rsp) + 1 \in DOMAIN rsp' /\ rsp'[Len(rsp) + 1].msg = e
    <3>1. rsp' = rsp \o Parts(e)
      BY <2>1, <1>3
    <3> HIDE DEF e
    <3>2. /\ (rsp \o Parts(e))[Len(rsp) + 1] = [part |-> "header", msg |-> e]
          /\ DOMAIN (rsp \o Parts(e)) = 1 .. Len(rsp) + 2 /\ Len(rsp) \in Nat
      BY <1>2, PartsAre, Zenon
    <3>3. Len(rsp) + 1 \in DOMAIN rsp' /\ rsp'[Len(rsp) + 1] = [part |-> "header", msg |-> e]
      BY <3>1, <3>2
    <3> QED BY <3>3
  <2> QED BY <2>1
<1>6. ASSUME NEW w \in watches, Seen(w) PROVE Seen(w)'
  <2>1. Pending(w) => Pending(w)'
    BY <1>1, <1>4 DEF Pending
  <2>2. CASE w = v
    BY <2>2, <1>1, <1>5, <1>6 DEF Seen, Pending
  <2>3. CASE w # v
    <3>1. version'[w] = version[w]
      BY <2>3, <1>1 DEF Typed, WatchesTyped
    <3> QED BY <3>1, <2>1, <1>1, <1>6 DEF Seen
  <2> QED BY <2>2, <2>3
<1> QED BY <1>1, <1>6, SeenKept

(* xenstored sets the watch, and sends a first event.                      *)
LEMMA ServeWatched ==
    ASSUME XInv, Watched, Serve
    PROVE  Watched'
<1> USE Names DEF XInv
<1>1. UNCHANGED <<act, watches, sus, todo, reader, version, seen, watch_events>>
  BY DEF Serve, lists
<1>2. req # <<>> /\ req \in Seq(Msgs) /\ rsp \in Seq(PartType)
  BY DEF Serve, Typed, QueuesTyped
<1>3. PICK m \in Msgs : m = req[1] /\ Head(req) = m
  BY <1>2, TailIs, Zenon
<1> DEFINE answer == Msg("reply", m.to, NoOne)
           e == Msg("event", NoOne, m.w)
           q == rsp \o Parts(answer)
<1>4. /\ m.to = request_mutex /\ m.to \in Actors /\ act[m.to].at = "reply"
      /\ m.kind = act[m.to].job /\ m.w = act[m.to].w
      /\ \A b \in Actors : act[b].at = "reply" => b = m.to
  BY <1>2, <1>3 DEF Talking, Awaited
<1>5. answer \in Msgs /\ e \in Msgs
  BY <1>3, <1>4 DEF Msg, Msgs
<1>6. /\ m.kind \in {"watch", "rewatch"} => rsp' = q \o Parts(e)
      /\ m.kind \notin {"watch", "rewatch"} => rsp' = q \o <<>>
      /\ tokens' = CASE m.kind \in {"watch", "rewatch"} -> tokens \cup {m.w}
                     [] m.kind = "unwatch" -> tokens \ {m.w}
                     [] OTHER -> tokens
  BY <1>3, Zenon DEF Serve, Reply, Event
<1> HIDE DEF answer, e
<1>7. q \in Seq(PartType) /\ \A k \in DOMAIN rsp : k \in DOMAIN q /\ q[k] = rsp[k]
  <2>1. /\ q \in Seq(PartType) /\ DOMAIN q = 1 .. Len(rsp) + 2 /\ DOMAIN rsp = 1 .. Len(rsp)
        /\ Len(rsp) \in Nat /\ \A k \in DOMAIN rsp : q[k] = rsp[k]
    BY <1>2, <1>5, PartsAre, Zenon
  <2> HIDE DEF q
  <2> QED BY <2>1
<1> HIDE DEF q
<1>8. /\ \A k \in DOMAIN q : k \in DOMAIN rsp' /\ rsp'[k] = q[k]
      /\ m.kind \in {"watch", "rewatch"} => \E k \in DOMAIN rsp' : rsp'[k].msg = e
  <2>1. CASE m.kind \in {"watch", "rewatch"}
    <3>1. rsp' = q \o Parts(e)
      BY <2>1, <1>6
    <3>2. /\ rsp'[Len(q) + 1] = [part |-> "header", msg |-> e]
          /\ DOMAIN rsp' = 1 .. Len(q) + 2 /\ DOMAIN q = 1 .. Len(q) /\ Len(q) \in Nat
          /\ \A k \in DOMAIN q : rsp'[k] = q[k]
      BY <1>5, <1>7, <3>1, PartsAre, ZenonT(60)
    <3>3. Len(q) + 1 \in DOMAIN rsp' /\ rsp'[Len(q) + 1].msg = e
      BY <3>2
    <3>4. \A k \in DOMAIN q : k \in DOMAIN rsp' /\ rsp'[k] = q[k]
      BY <3>2
    <3> QED BY <3>3, <3>4
  <2>2. CASE m.kind \notin {"watch", "rewatch"}
    <3>1. rsp' = q
      BY <2>2, <1>6, <1>7, ConcatEmptySeq, Zenon
    <3> QED BY <3>1, <2>2
  <2> QED BY <2>1, <2>2
<1>9. \A w : Pending(w) => Pending(w)'
  BY <1>1, <1>7, <1>8 DEF Pending
<1>10. ASSUME NEW w \in watches PROVE Seen(w) => Seen(w)'
  <2>1. m.kind = "unwatch" => w # m.w
    BY <1>4 DEF Watched, SetOk
  <2>2. w \in tokens => w \in tokens'
    BY <2>1, <1>6
  <2> QED BY <2>2, <1>1, <1>9 DEF Seen
<1>11. ASSUME NEW w, w = m.w, m.kind \in {"watch", "rewatch"} PROVE Seen(w)'
  <2>1. w \in tokens'
    BY <1>6, <1>11
  <2>2. Pending(w)'
    BY <1>8, <1>11 DEF Pending, e
  <2> QED BY <2>1, <2>2 DEF Seen
<1>12. \A w \in watches : ToCome(w)'
  BY <1>1, <1>10 DEF Watched, ToCome, Used
<1>13. ASSUME NEW b \in Actors PROVE SetOk(b)'
  <2>1. SetOk(b)
    BY DEF Watched
  <2>2. act[b].job \in {"watch", "rewatch"} /\ act[b].at \in {"reply", "done"}
           => act[b].w \in watches
    BY DEF Listed, ReadsWell, Reads, Registers, Steps, StepOk
  <2>3. CASE b = m.to
    BY <2>1, <2>3, <1>1, <1>4, <1>11 DEF SetOk
  <2>4. CASE b # m.to
    <3>1. act[b].at # "reply"
      BY <2>4, <1>4
    <3> QED BY <2>1, <2>2, <3>1, <1>1, <1>10 DEF SetOk
  <2> QED BY <2>3, <2>4
<1> QED BY <1>1, <1>12, <1>13 DEF Watched

LEMMA XenwatchWatched ==
    ASSUME XInv, Watched, XenwatchLocks \/ CallbackEnds
    PROVE  Watched'
<1>1. UNCHANGED <<act, watches, sus, todo, req>> /\ UNCHANGED SeenVars
  BY DEF XenwatchLocks, CallbackEnds, lists, rings, stored, SeenVars
<1> QED BY <1>1, SameSeen, SeenKept
-----------------------------------------------------------------------------
(* xs_suspend and xs_resume.                                               *)
LEMMA SuspendWatched ==
    ASSUME XInv, Watched,
           \/ SuspendTransactions \/ SuspendWatches \/ SuspendRequests \/ SuspendResponses
           \/ Cancel \/ ResumeEnds \/ DevicesResumed
    PROVE  Watched'
<1>1. UNCHANGED <<act, watches, req>> /\ UNCHANGED SeenVars
  BY DEF SuspendTransactions, SuspendWatches, SuspendRequests, SuspendResponses, Cancel,
     ResumeEnds, DevicesResumed, locks, lists, rings, stored, SeenVars
<1>2. sus # "moved" /\ (sus = "rewatch" => todo = {})
  BY DEF SuspendTransactions, SuspendWatches, SuspendRequests, SuspendResponses, Cancel,
     ResumeEnds, DevicesResumed
<1> QED BY <1>1, <1>2, StillToCome

(* Who talks about a watch holds watch_mutex, or is xs_resume itself.      *)
LEMMA NobodySets ==
    ASSUME XInv, sus \in Frozen, NEW a \in Actors,
           act[a].job \in {"watch", "rewatch"}
    PROVE  act[a].at \notin {"done", "reply"}
  BY DEF XInv, Listed, ReadsWell, Reads, Registers, Quiet, Locked, Frozen, Steps, StepOk

LEMMA MigrateWatched ==
    ASSUME XInv, Watched, Migrate
    PROVE  Watched'
<1>1. UNCHANGED <<act, watches, req>> /\ sus' = "moved" /\ sus \in Frozen
  BY DEF Migrate, lists, rings, Frozen
<1>2. ASSUME NEW b \in Actors PROVE SetOk(b)'
  <2>1. SetOk(b)
    BY DEF Watched
  <2> QED BY <2>1, <1>1, NobodySets DEF SetOk
<1> QED BY <1>1, <1>2 DEF Watched, ToCome

LEMMA ResumeWatched ==
    ASSUME XInv, Watched, Resume
    PROVE  Watched'
<1>1. UNCHANGED <<act, watches, req>> /\ sus' = "rewatch" /\ todo' = watches /\ sus \in Frozen
  BY DEF Resume, lists, Frozen
<1>2. ASSUME NEW b \in Actors PROVE SetOk(b)'
  <2>1. SetOk(b)
    BY DEF Watched
  <2> QED BY <2>1, <1>1, NobodySets DEF SetOk
<1> QED BY <1>1, <1>2 DEF Watched, ToCome

LEMMA RewatchWatched ==
    ASSUME XInv, Watched, NEW v \in Watches, Rewatch(v)
    PROVE  Watched'
<1> USE Names DEF XInv
<1> DEFINE a == "suspend"
<1>1. /\ \A b \in Actors : b # a => act'[b] = act[b]
      /\ act'[a].job = "rewatch" /\ act'[a].w = v /\ act'[a].at = "ask"
      /\ act[a].w = NoOne /\ todo' = todo \ {v}
  BY DEF Rewatch, NoAct, Typed, ActTyped
<1>2. UNCHANGED <<watches, sus, req>> /\ UNCHANGED SeenVars
  BY DEF Rewatch, lists, rings, stored, SeenVars
<1>3. \A w : Seen(w)' <=> Seen(w)
  BY <1>2, SameSeen
<1>4. ASSUME NEW w \in watches PROVE ToCome(w)'
  <2>1. CASE w = v
    BY <2>1, <1>1 DEF ToCome, Used
  <2>2. CASE w # v
    <3>1. w # NoOne
      BY DEF Typed, WatchesTyped
    <3>2. Used(w) => Used(w)'
      BY <3>1, <1>1 DEF Used
    <3> QED BY <2>2, <3>2, <1>1, <1>2, <1>3 DEF Watched, ToCome
  <2> QED BY <2>1, <2>2
<1>5. ASSUME NEW b \in Actors PROVE SetOk(b)'
  <2>1. SetOk(b)
    BY DEF Watched
  <2> QED BY <2>1, <1>1, <1>2, <1>3 DEF SetOk
<1> QED BY <1>2, <1>4, <1>5 DEF Watched

LEMMA RewatchDoneWatched ==
    ASSUME XInv, Watched, RewatchDone
    PROVE  Watched'
<1> USE Names DEF XInv
<1> DEFINE a == "suspend"
<1>1. /\ \A b \in Actors : b # a => act'[b] = act[b]
      /\ act'[a] = NoAct /\ act[a].job = "rewatch" /\ act[a].at = "done"
  BY DEF RewatchDone, NoAct, Typed, ActTyped
<1>2. UNCHANGED <<watches, sus, todo, req>> /\ UNCHANGED SeenVars
  BY DEF RewatchDone, lists, rings, stored, SeenVars
<1>3. SetOk(a) /\ SetOk(a)'
  BY <1>1 DEF Watched, SetOk, NoAct
<1>4. \A w \in watches : w = act[a].w => ToCome(w)'
  BY <1>1, <1>2, <1>3, SameSeen DEF SetOk, ToCome
<1> QED BY <1>1, <1>2, <1>3, <1>4, MoveWatched

LEMMA NextWatched == XInv /\ Watched /\ [Next]_vars => Watched'
<1> SUFFICES ASSUME XInv, Watched, [Next]_vars PROVE Watched'
  OBVIOUS
<1>1. ASSUME NEW a \in Actors, Begins(a) PROVE Watched'
  BY <1>1, BeginWatched DEF Begins
<1>2. ASSUME NEW a \in Actors, Acts(a) PROVE Watched'
  BY <1>2, BeginEndWatched, TransactionStartWatched, WatchLocksWatched, AskWatched,
     ReadReplyWatched, DoneWatched, PurgeWatched, Zenon DEF Acts
<1>3. CASE Reader
  BY <1>3, DataToReadWatched, ReadHeaderWatched, ReadBodyWatched, Zenon DEF Reader
<1>4. CASE Xenwatch
  BY <1>4, XenwatchWatched, CallbackWatched, Zenon DEF Xenwatch
<1>5. CASE SuspendTransactions
  BY <1>5, SuspendWatched
<1>6. CASE Suspender
  BY <1>6, SuspendWatched, MigrateWatched, ResumeWatched, RewatchWatched,
     RewatchDoneWatched, Zenon DEF Suspender
<1>7. CASE Serve
  BY <1>7, ServeWatched
<1>8. ASSUME NEW w \in Watches, Change(w) PROVE Watched'
  BY <1>8, ChangeWatched
<1>9. CASE UNCHANGED vars
  <2>1. UNCHANGED <<act, watches, sus, todo, req>> /\ UNCHANGED SeenVars
    BY <1>9 DEF vars, lists, rings, stored, SeenVars
  <2> QED BY <2>1, SameSeen, SeenKept
<1> QED BY <1>1, <1>2, <1>3, <1>4, <1>5, <1>6, <1>7, <1>8, <1>9, Zenon DEF Next

(* A watch on the list is set in xenstored, or about to be, and a change   *)
(* that its callback has not seen has an event on its way: register and    *)
(* unregister_xenbus_watch, process_msg, xenwatch_thread, and xs_resume,   *)
(* which sets every watch again because the response ring was emptied.     *)
THEOREM NoEventIsLost == Spec => []NoEventLost
<1>1. Init => Watched
  BY Names DEF Init, Watched, SetOk, NoAct
<1>2. XInv /\ Watched => NoEventLost
  BY DEF Watched, ToCome, Seen, NoEventLost
<1> QED BY <1>1, <1>2, Always, NextWatched, PTL DEF Spec

-----------------------------------------------------------------------------
(***************************************************************************)
(* Shutdown and suspend requests (ShutdownState, of which S! is what       *)
(* Shutdown says happens to it), for any number of threads, processors,    *)
(* requests and signals: one owner acts on the state, and it is the right  *)
(* one.                                                                    *)
(*                                                                         *)
(* OneOwner is not inductive: a step of an owner keeps the state fitting   *)
(* only if it fitted before.  StateFits says what the state may be for     *)
(* each owner, and OneOwns that no two own it.                             *)
(***************************************************************************)
S == INSTANCE Shutdown

(* The types that the argument needs.                                      *)
RequestTyped ==
    /\ shutting_down \in S!States
    /\ call \in [S!Callers -> [at : {"idle", "start", "end", "try", "kick"},
                             old : {"INVALID", "RESUMING"}, new : S!Actions \cup {"INVALID"}]]
    /\ work \in BOOLEAN /\ handler \in {"idle", "suspend", "shutdown"}
    /\ thread \in [Threads -> S!Places]
    /\ \A c \in S!Callers : call[c].at \in {"try", "kick"} => call[c].new \in S!Actions

Kicking == \E c \in S!Callers : call[c].at = "kick"
ThreadBusy    == \E t \in Threads : thread[t] # "idle"

OneOwns ==
    /\ \A c, d \in S!Callers : call[c].at = "kick" /\ call[d].at = "kick" => c = d
    /\ \A t, u \in Threads : thread[t] # "idle" /\ thread[u] # "idle" => t = u
    /\ Kicking => ~work /\ handler = "idle" /\ ~ThreadBusy
    /\ work => handler = "idle" /\ ~ThreadBusy
    /\ handler # "idle" => ~ThreadBusy

StateFits ==
    /\ shutting_down = "INVALID" => ~Kicking /\ ~work /\ handler = "idle" /\ ~ThreadBusy
    /\ shutting_down # "INVALID" => Kicking \/ work \/ handler # "idle" \/ ThreadBusy
    /\ shutting_down = "RESUMING" => ThreadBusy
    /\ handler = "suspend" => shutting_down = "SUSPEND"
    /\ handler = "shutdown" => shutting_down \in S!Down

IInv == RequestTyped /\ OneOwns /\ StateFits /\ S!RightThread

owned == <<shutting_down, call, work, handler, thread>>

LEMMA InitIInv == S!Init => IInv
<1> SUFFICES ASSUME S!Init PROVE IInv
  OBVIOUS
<1>1. \A c \in S!Callers : call[c].at = "idle"
  BY DEF S!Init, S!NoCall
<1>2. \A t \in Threads : thread[t] = "idle"
  BY DEF S!Init
<1>3. call \in [S!Callers -> [at : {"idle", "start", "end", "try", "kick"},
                            old : {"INVALID", "RESUMING"}, new : S!Actions \cup {"INVALID"}]]
  BY DEF S!Init, S!NoCall
<1>4. RequestTyped
  BY <1>1, <1>3 DEF S!Init, RequestTyped, S!States, S!Places
<1>5. ~Kicking /\ ~ThreadBusy
  BY <1>1, <1>2 DEF Kicking, ThreadBusy
<1>6. OneOwns /\ StateFits /\ S!RightThread
  BY <1>1, <1>2, <1>5 DEF S!Init, OneOwns, StateFits, S!RightThread
<1> QED
  BY <1>4, <1>6 DEF IInv

-----------------------------------------------------------------------------
(* Steps that change none of the owners.                                   *)
LEMMA OthersStep ==
    ASSUME IInv, UNCHANGED owned
    PROVE  IInv'
BY DEF IInv, RequestTyped, OneOwns, StateFits, S!RightThread, Kicking, ThreadBusy, owned

(* Steps of shutdown_handler and suspend_int before the switch.            *)
LEMMA CallStep ==
    ASSUME IInv, NEW c \in S!Callers,
           NEW r \in [at : {"idle", "start", "end", "try"}, old : {"INVALID", "RESUMING"},
                      new : S!Actions \cup {"INVALID"}],
           r.at = "try" => r.new \in S!Actions,
           call[c].at # "kick", call' = [call EXCEPT ![c] = r],
           UNCHANGED <<shutting_down, work, handler, thread>>
    PROVE  IInv'
<1>1. RequestTyped'
  BY DEF IInv, RequestTyped
<1>2. \A d \in S!Callers : (call[d].at = "kick") <=> (call'[d].at = "kick")
  BY DEF IInv, RequestTyped
<1>3. OneOwns' /\ StateFits'
  BY <1>2 DEF IInv, OneOwns, StateFits, Kicking, ThreadBusy
<1>4. S!RightThread'
  BY DEF IInv, S!RightThread
<1> QED
  BY <1>1, <1>3, <1>4 DEF IInv

LEMMA StateType == \A str \in S!Asked \cup {""} : S!State(str) \in S!Actions \cup {"INVALID"}
BY DEF S!State, S!Asked, S!Actions

LEMMA WatchStep ==
    ASSUME IInv, txn.str \in S!Asked \cup {""}, S!Watch
    PROVE  IInv'
<1> USE DEF IInv, RequestTyped, S!Callers
<1>1. CASE S!HandlerReturns
  BY <1>1, OthersStep DEF S!HandlerReturns, S!choice, S!job, owned
<1>2. CASE S!HandlerStarts
  <2> DEFINE r == [call["watch"] EXCEPT !.at = "start"]
  <2>1. r \in [at : {"idle", "start", "end", "try"}, old : {"INVALID", "RESUMING"},
               new : S!Actions \cup {"INVALID"}] /\ r.at = "start"
    OBVIOUS
  <2>2. call' = [call EXCEPT !["watch"] = r] /\ call["watch"].at # "kick"
    BY <1>2 DEF S!HandlerStarts
  <2> QED
    BY <1>2, <2>1, <2>2, CallStep DEF S!HandlerStarts, S!job
<1>3. CASE S!HandlerReads
  <2> DEFINE r == IF store = "" THEN S!NoCall ELSE [S!NoCall EXCEPT !.at = "end"]
  <2>1. r \in [at : {"idle", "start", "end", "try"}, old : {"INVALID", "RESUMING"},
               new : S!Actions \cup {"INVALID"}] /\ r.at # "try"
    BY DEF S!NoCall
  <2>2. call' = [call EXCEPT !["watch"] = r] /\ call["watch"].at # "kick"
    BY <1>3 DEF S!HandlerReads
  <2> QED
    BY <1>3, <2>1, <2>2, CallStep DEF S!HandlerReads, S!job
<1>4. CASE S!HandlerRetries
  <2> DEFINE r == [call["watch"] EXCEPT !.at = "start"]
  <2>1. r \in [at : {"idle", "start", "end", "try"}, old : {"INVALID", "RESUMING"},
               new : S!Actions \cup {"INVALID"}] /\ r.at = "start"
    OBVIOUS
  <2>2. call' = [call EXCEPT !["watch"] = r] /\ call["watch"].at # "kick"
    BY <1>4 DEF S!HandlerRetries
  <2> QED
    BY <1>4, <2>1, <2>2, CallStep DEF S!HandlerRetries, S!job
<1>5. CASE S!HandlerEnds
  <2> DEFINE s == S!State(txn.str)
             r == IF s = "INVALID" THEN S!NoCall
                  ELSE [at |-> "try", old |-> "INVALID", new |-> s]
  <2>1. s \in S!Actions \cup {"INVALID"}
    BY StateType
  <2>2. r \in [at : {"idle", "start", "end", "try"}, old : {"INVALID", "RESUMING"},
               new : S!Actions \cup {"INVALID"}] /\ (r.at = "try" => r.new \in S!Actions)
    BY <2>1 DEF S!NoCall
  <2>3. call' = [call EXCEPT !["watch"] = r] /\ call["watch"].at # "kick"
    BY <1>5 DEF S!HandlerEnds
  <2> QED
    BY <1>5, <2>2, <2>3, CallStep DEF S!HandlerEnds, S!job
<1> QED
  BY <1>1, <1>2, <1>3, <1>4, <1>5 DEF S!Watch

LEMMA SuspendIntStep ==
    ASSUME IInv, S!SuspendInt
    PROVE  IInv'
<1> DEFINE r == [at |-> "try", old |-> "INVALID", new |-> "SUSPEND"]
<1>1. r \in [at : {"idle", "start", "end", "try"}, old : {"INVALID", "RESUMING"},
             new : S!Actions \cup {"INVALID"}] /\ r.new \in S!Actions
  BY DEF S!Actions
<1>2. call' = [call EXCEPT !["int"] = r] /\ call["int"].at # "kick" /\ "int" \in S!Callers
  BY DEF S!SuspendInt, S!Callers
<1> QED
  BY <1>1, <1>2, CallStep DEF S!SuspendInt, S!job

(* The compare-and-exchange: from INVALID, which nobody owns, the caller   *)
(* becomes the owner; from RESUMING, the suspend thread remains it.        *)
LEMMA SwitchStep ==
    ASSUME IInv, NEW c \in S!Callers, S!Switch(c)
    PROVE  IInv'
<1> USE DEF IInv
<1>1. CASE shutting_down = call[c].old /\ call[c].old = "INVALID"
  <2>1. /\ shutting_down' = call[c].new /\ call[c].new \in S!Actions
        /\ call' = [call EXCEPT ![c].at = "kick"]
        /\ UNCHANGED <<work, handler, thread>>
    BY <1>1 DEF S!Switch, RequestTyped, S!job
  <2>2. RequestTyped'
    BY <2>1 DEF RequestTyped, S!States
  <2>3. ~Kicking /\ ~work /\ handler = "idle" /\ ~ThreadBusy
    BY <1>1 DEF StateFits
  <2>4. \A d \in S!Callers : (call'[d].at = "kick") <=> d = c
    BY <2>1, <2>3 DEF RequestTyped, Kicking
  <2>5. Kicking' /\ ~work' /\ handler' = "idle" /\ ~ThreadBusy'
    BY <2>1, <2>3, <2>4 DEF Kicking, ThreadBusy
  <2>6. OneOwns'
    BY <2>4, <2>5 DEF OneOwns, ThreadBusy
  <2>7. StateFits' /\ S!RightThread'
    BY <2>1, <2>5 DEF StateFits, S!RightThread, ThreadBusy, S!Actions, S!Down
  <2> QED
    BY <2>2, <2>6, <2>7
<1>2. CASE shutting_down = call[c].old /\ call[c].old # "INVALID"
  <2>1. /\ shutting_down = "RESUMING"
        /\ shutting_down' = call[c].new /\ call[c].new \in S!Actions
        /\ call' = [call EXCEPT ![c] = S!NoCall]
        /\ UNCHANGED <<work, handler, thread>>
    BY <1>2 DEF S!Switch, RequestTyped, S!job
  <2>2. RequestTyped'
    BY <2>1 DEF RequestTyped, S!States, S!NoCall
  <2>3. ThreadBusy /\ ~work /\ handler = "idle" /\ ~Kicking
    BY <2>1 DEF StateFits, OneOwns, RequestTyped
  <2>4. \A d \in S!Callers : call'[d].at # "kick"
    BY <2>1, <2>3 DEF RequestTyped, Kicking, S!NoCall
  <2>5. ~Kicking' /\ ThreadBusy' /\ ~work' /\ handler' = "idle"
    BY <2>1, <2>3, <2>4 DEF Kicking, ThreadBusy
  <2>6. OneOwns'
    BY <2>1, <2>4, <2>5 DEF OneOwns
  <2>7. StateFits'
    BY <2>1, <2>5 DEF StateFits, S!Actions
  <2>8. S!RightThread'
    BY <2>1 DEF S!RightThread, S!Actions, S!Down
  <2> QED
    BY <2>2, <2>6, <2>7, <2>8
<1>3. CASE shutting_down # call[c].old
  <2> DEFINE r == IF S!Idle THEN [call[c] EXCEPT !.old = shutting_down] ELSE S!NoCall
  <2>1. r \in [at : {"idle", "start", "end", "try"}, old : {"INVALID", "RESUMING"},
               new : S!Actions \cup {"INVALID"}] /\ (r.at = "try" => r.new \in S!Actions)
    BY DEF S!Switch, RequestTyped, S!NoCall, S!Idle
  <2>2. call' = [call EXCEPT ![c] = r] /\ call[c].at # "kick"
    BY <1>3 DEF S!Switch
  <2>3. UNCHANGED <<shutting_down, work, handler, thread>>
    BY <1>3 DEF S!Switch, S!job
  <2> QED
    BY <2>1, <2>2, <2>3, CallStep
<1> QED
  BY <1>1, <1>2, <1>3

-----------------------------------------------------------------------------
(* The ownership goes from the caller to the work, the handler, a thread.  *)
LEMMA SwitchKicksStep ==
    ASSUME IInv, NEW c \in S!Callers, S!SwitchKicks(c)
    PROVE  IInv'
<1> USE DEF IInv
<1>1. call[c].at = "kick" /\ work' = TRUE /\ call' = [call EXCEPT ![c] = S!NoCall]
      /\ UNCHANGED <<shutting_down, handler, thread>>
  BY DEF S!SwitchKicks
<1>2. RequestTyped'
  BY <1>1 DEF RequestTyped, S!NoCall
<1>3. \A d \in S!Callers : call'[d].at # "kick"
  BY <1>1 DEF OneOwns, RequestTyped, S!NoCall
<1>4. ~Kicking' /\ handler' = "idle" /\ ~ThreadBusy'
  BY <1>1, <1>3 DEF OneOwns, Kicking, ThreadBusy
<1>5. OneOwns'
  BY <1>3, <1>4 DEF OneOwns, ThreadBusy
<1>6. StateFits' /\ S!RightThread'
  BY <1>1, <1>4 DEF StateFits, S!RightThread, Kicking, ThreadBusy, OneOwns
<1> QED
  BY <1>2, <1>5, <1>6

LEMMA HandlerWorksStep ==
    ASSUME IInv, S!HandlerWorks
    PROVE  IInv'
<1> USE DEF IInv
<1>1. work /\ work' = FALSE /\ UNCHANGED <<shutting_down, call, thread>>
      /\ handler' = IF shutting_down = "SUSPEND" THEN "suspend" ELSE "shutdown"
  BY DEF S!HandlerWorks, S!choice
<1>2. ~Kicking /\ ~ThreadBusy /\ shutting_down \in S!Actions
  BY <1>1 DEF OneOwns, StateFits, RequestTyped, S!States
<1>3. ~Kicking' /\ ~ThreadBusy'
  BY <1>1, <1>2 DEF Kicking, ThreadBusy
<1>4. RequestTyped'
  BY <1>1 DEF RequestTyped
<1>5. OneOwns'
  BY <1>1, <1>3 DEF OneOwns, Kicking, ThreadBusy
<1>6. StateFits' /\ S!RightThread'
  BY <1>1, <1>2, <1>3 DEF StateFits, S!RightThread, S!Actions, S!Down
<1> QED
  BY <1>4, <1>5, <1>6

LEMMA SpawnStep ==
    ASSUME IInv, NEW t \in Threads, S!Spawn(t)
    PROVE  IInv'
<1> USE DEF IInv
<1>1. handler # "idle" /\ handler' = "idle" /\ UNCHANGED <<shutting_down, call, work>>
      /\ thread' = [thread EXCEPT ![t] = IF handler = "suspend" THEN "pin" ELSE "shutdown"]
  BY DEF S!Spawn, S!choice
<1>2. ~Kicking /\ ~work /\ ~ThreadBusy /\ shutting_down \notin {"INVALID", "RESUMING"}
  BY <1>1 DEF OneOwns, StateFits, RequestTyped
<1>3. RequestTyped'
  BY <1>1 DEF RequestTyped, S!Places
<1>4. \A u \in Threads : thread'[u] # "idle" <=> u = t
  BY <1>1, <1>2 DEF RequestTyped, ThreadBusy
<1>5. ThreadBusy' /\ ~Kicking' /\ ~work'
  BY <1>1, <1>2, <1>4 DEF ThreadBusy, Kicking
<1>6. OneOwns'
  BY <1>1, <1>4, <1>5 DEF OneOwns, Kicking
<1>7. StateFits'
  BY <1>1, <1>2, <1>5 DEF StateFits
<1>8. S!RightThread'
  BY <1>1, <1>2, <1>4 DEF S!RightThread, StateFits, RequestTyped, ThreadBusy
<1> QED
  BY <1>3, <1>6, <1>7, <1>8

LEMMA SpawnFailsStep ==
    ASSUME IInv, S!SpawnFails
    PROVE  IInv'
<1> USE DEF IInv
<1>1. handler # "idle" /\ handler' = "idle" /\ work' = TRUE
      /\ UNCHANGED <<shutting_down, call, thread>>
  BY DEF S!SpawnFails, S!choice
<1>2. ~Kicking /\ ~ThreadBusy /\ shutting_down \notin {"INVALID", "RESUMING"}
  BY <1>1 DEF OneOwns, StateFits, RequestTyped
<1>3. ~Kicking' /\ ~ThreadBusy'
  BY <1>1, <1>2 DEF Kicking, ThreadBusy
<1>4. RequestTyped'
  BY <1>1 DEF RequestTyped
<1>5. OneOwns' /\ StateFits' /\ S!RightThread'
  BY <1>1, <1>2, <1>3 DEF OneOwns, StateFits, S!RightThread, Kicking, ThreadBusy
<1> QED
  BY <1>4, <1>5

-----------------------------------------------------------------------------
(* Threads: what RightThread asks of one that is at q.                     *)
FitsPlace(q, s) ==
    /\ q \in {"shutdown", "helped", "kick"} => s \in S!Down
    /\ q # "clear"
    /\ q \in {"pin", "fail", "freeze", "gather", "wait", "suspend", "cancelled", "woken",
              "resumed"} => s = "SUSPEND"
    /\ q \in {"notified", "drain", "thaw", "listen", "settle"} =>
           s \in {"RESUMING", "SUSPEND"} \cup S!Down

(* The thread that owns the state goes on, ...                             *)
LEMMA MoveStep ==
    ASSUME IInv, NEW t \in Threads, NEW q \in S!Places \ {"idle"}, thread[t] # "idle",
           thread' = [thread EXCEPT ![t] = q], UNCHANGED <<call, work, handler>>,
           shutting_down' \in S!States \ {"INVALID"}, FitsPlace(q, shutting_down')
    PROVE  IInv'
<1> USE DEF IInv
<1>1. RequestTyped'
  BY DEF RequestTyped
<1>2. ThreadBusy /\ ~Kicking /\ ~work /\ handler = "idle"
  BY DEF OneOwns, ThreadBusy
<1>3. \A u \in Threads : (thread'[u] # "idle") <=> (thread[u] # "idle")
  BY DEF RequestTyped
<1>4. ThreadBusy' /\ ~Kicking' /\ ~work' /\ handler' = "idle"
  BY <1>2, <1>3 DEF ThreadBusy, Kicking
<1>5. OneOwns'
  BY <1>3, <1>4 DEF OneOwns, Kicking
<1>6. StateFits'
  BY <1>4 DEF StateFits
<1>7. \A u \in Threads : u # t => thread'[u] = "idle"
  BY DEF OneOwns, RequestTyped
<1>8. thread'[t] = q
  BY DEF RequestTyped
<1>9. S!RightThread'
  BY <1>7, <1>8 DEF S!RightThread, FitsPlace
<1> QED
  BY <1>1, <1>5, <1>6, <1>9

(* ... or gives it up, ...                                                 *)
LEMMA LeaveStep ==
    ASSUME IInv, NEW t \in Threads, thread[t] # "idle",
           thread' = [thread EXCEPT ![t] = "idle"], UNCHANGED <<call, work, handler>>,
           shutting_down' = "INVALID"
    PROVE  IInv'
<1> USE DEF IInv
<1>1. RequestTyped'
  BY DEF RequestTyped, S!States, S!Places
<1>2. ThreadBusy /\ ~Kicking /\ ~work /\ handler = "idle"
  BY DEF OneOwns, ThreadBusy
<1>3. \A u \in Threads : thread'[u] = "idle"
  BY DEF OneOwns, RequestTyped
<1>4. ~ThreadBusy' /\ ~Kicking' /\ ~work' /\ handler' = "idle"
  BY <1>2, <1>3 DEF ThreadBusy, Kicking
<1>5. OneOwns' /\ StateFits'
  BY <1>3, <1>4 DEF OneOwns, StateFits, Kicking
<1>6. S!RightThread'
  BY <1>3 DEF S!RightThread
<1> QED
  BY <1>1, <1>5, <1>6

(* ... or hands it back to the work.                                       *)
LEMMA ThreadKicksStep ==
    ASSUME IInv, NEW t \in Threads, S!ThreadKicks(t)
    PROVE  IInv'
<1> USE DEF IInv
<1>1. thread[t] = "kick" /\ thread' = [thread EXCEPT ![t] = "idle"] /\ work' = TRUE
      /\ UNCHANGED <<shutting_down, call, handler>>
  BY DEF S!ThreadKicks, S!Goes, S!choice
<1>2. ~Kicking /\ ~work /\ handler = "idle" /\ shutting_down \in S!Down
  BY <1>1 DEF OneOwns, ThreadBusy, S!RightThread
<1>3. \A u \in Threads : thread'[u] = "idle"
  BY <1>1 DEF OneOwns, RequestTyped
<1>4. ~ThreadBusy' /\ ~Kicking' /\ handler' = "idle"
  BY <1>1, <1>2, <1>3 DEF ThreadBusy, Kicking
<1>5. RequestTyped'
  BY <1>1 DEF RequestTyped, S!Places
<1>6. OneOwns' /\ StateFits'
  BY <1>1, <1>2, <1>3, <1>4 DEF OneOwns, StateFits, Kicking, S!Down
<1>7. S!RightThread'
  BY <1>3 DEF S!RightThread
<1> QED
  BY <1>5, <1>6, <1>7

LEMMA ThreadStep ==
    ASSUME IInv, NEW t \in Threads, S!Step(t) \/ S!Freeze(t)
    PROVE  IInv'
<1>1. /\ shutting_down \in S!States /\ thread[t] \in S!Places
      /\ FitsPlace(thread[t], shutting_down)
      /\ thread[t] # "idle" => shutting_down # "INVALID"
  BY DEF IInv, RequestTyped, S!RightThread, FitsPlace, StateFits, ThreadBusy
<1> USE DEF S!Places, S!Suspending, S!States, S!Actions, S!Down, FitsPlace, S!Goes, S!choice
<1>2. CASE S!PowersOff(t)
  BY <1>1, <1>2, MoveStep DEF S!PowersOff
<1>3. CASE S!Clear(t) \/ S!Fail(t)
  BY <1>3, LeaveStep DEF S!Clear, S!Fail
<1>4. CASE S!Pin(t)
  BY <1>1, <1>4, MoveStep DEF S!Pin
<1>5. CASE S!Freeze(t) \/ S!Gather(t) \/ S!Gathered(t)
  BY <1>1, <1>5, MoveStep DEF S!Freeze, S!Gather, S!Gathered
<1>6. CASE S!Suspend(t) \/ S!Remap(t)
  BY <1>1, <1>6, MoveStep DEF S!Suspend, S!Remap
<1>7. CASE S!Notify(t)
  BY <1>1, <1>7, MoveStep DEF S!Notify
<1>8. CASE S!Let(t) \/ S!Drained(t) \/ S!Thaw(t) \/ S!Listen(t)
  BY <1>1, <1>8, MoveStep DEF S!Let, S!Drained, S!Thaw, S!Listen
<1>9. CASE S!Settle(t)
  <2>1. CASE shutting_down = "RESUMING"
    BY <1>9, <2>1, LeaveStep DEF S!Settle
  <2>2. CASE shutting_down # "RESUMING"
    BY <1>1, <1>9, <2>2, MoveStep DEF S!Settle
  <2> QED
    BY <2>1, <2>2
<1>10. CASE S!ThreadKicks(t)
  BY <1>10, ThreadKicksStep
<1> QED
  BY <1>2, <1>3, <1>4, <1>5, <1>6, <1>7, <1>8, <1>9, <1>10 DEF S!Step

-----------------------------------------------------------------------------
(* What a transaction read is what the host writes.                        *)
NodeStored == store \in S!Asked \cup {""} /\ txn.str \in S!Asked \cup {""}

LEMMA NoTxnReadsNothing == S!NoTxn.str = ""
BY Zenon DEF S!NoTxn

LEMMA StoredStep == NodeStored /\ [S!Next]_S!vars => NodeStored'
<1> SUFFICES ASSUME NodeStored, [S!Next]_S!vars PROVE NodeStored'
  OBVIOUS
<1> USE DEF NodeStored
<1>1. CASE UNCHANGED S!vars
  BY <1>1 DEF S!vars, S!xs
<1>2. CASE \E str \in S!Asked : S!HostAsks(str)
  BY <1>2 DEF S!HostAsks
<1>3. CASE S!SuspendInt
  BY <1>3 DEF S!SuspendInt, S!xs
<1>4. CASE S!Watch
  <2>1. CASE S!HandlerReads
    <3>1. txn'.str = store /\ store' = store
      BY <2>1 DEF S!HandlerReads
    <3> QED
      BY <3>1
  <2>2. CASE S!HandlerRetries \/ S!HandlerEnds
    <3>1. txn'.str = "" /\ store' \in {store, ""}
      BY <2>2, NoTxnReadsNothing DEF S!HandlerRetries, S!HandlerEnds
    <3> QED
      BY <3>1
  <2>3. CASE S!HandlerReturns \/ S!HandlerStarts
    BY <2>3 DEF S!HandlerReturns, S!HandlerStarts
  <2> QED
    BY <1>4, <2>1, <2>2, <2>3 DEF S!Watch
<1>5. CASE \E c \in S!Callers : S!Switch(c) \/ S!SwitchKicks(c)
  BY <1>5 DEF S!Switch, S!SwitchKicks, S!xs
<1>6. CASE S!HandlerWorks \/ S!SpawnFails
  BY <1>6 DEF S!HandlerWorks, S!SpawnFails, S!xs
<1>7. CASE \E t \in Threads : S!Spawn(t) \/ S!Step(t) \/ S!Freeze(t)
  BY <1>7 DEF S!Spawn, S!Step, S!Freeze, S!PowersOff, S!Clear, S!Pin, S!Fail, S!Gather,
     S!Gathered, S!Suspend, S!Remap, S!Notify, S!Let, S!Drained, S!Thaw, S!Listen, S!Settle,
     S!ThreadKicks, S!xs
<1>8. CASE \E p \in APs : S!ApSpins(p) \/ S!ApLeaves(p)
  BY <1>8 DEF S!ApSpins, S!ApLeaves, S!xs
<1> QED
  BY <1>1, <1>2, <1>3, <1>4, <1>5, <1>6, <1>7, <1>8 DEF S!Next

LEMMA NextIInv == IInv /\ NodeStored /\ [S!Next]_S!vars => IInv'
<1> SUFFICES ASSUME IInv, NodeStored, [S!Next]_S!vars PROVE IInv'
  OBVIOUS
<1>1. CASE UNCHANGED S!vars
  BY <1>1, OthersStep DEF S!vars, S!choice, S!job, owned
<1>2. CASE \E str \in S!Asked : S!HostAsks(str)
  BY <1>2, OthersStep DEF S!HostAsks, S!choice, S!job, owned
<1>3. CASE S!SuspendInt
  BY <1>3, SuspendIntStep
<1>4. CASE S!Watch
  BY <1>4, WatchStep DEF NodeStored
<1>5. CASE \E c \in S!Callers : S!Switch(c) \/ S!SwitchKicks(c)
  BY <1>5, SwitchStep, SwitchKicksStep
<1>6. CASE S!HandlerWorks \/ S!SpawnFails
  BY <1>6, HandlerWorksStep, SpawnFailsStep
<1>7. CASE \E t \in Threads : S!Spawn(t) \/ S!Step(t) \/ S!Freeze(t)
  BY <1>7, SpawnStep, ThreadStep
<1>8. CASE \E p \in APs : S!ApSpins(p) \/ S!ApLeaves(p)
  BY <1>8, OthersStep DEF S!ApSpins, S!ApLeaves, S!choice, S!job, owned
<1> QED
  BY <1>1, <1>2, <1>3, <1>4, <1>5, <1>6, <1>7, <1>8 DEF S!Next

THEOREM RequestsInvariant == S!Spec => [](IInv /\ NodeStored)
<1>1. S!Init => txn.str = "" /\ store = ""
  BY NoTxnReadsNothing DEF S!Init
<1>2. S!Init => NodeStored
  BY <1>1 DEF NodeStored
<1> QED
  BY <1>2, InitIInv, StoredStep, NextIInv, PTL DEF S!Spec

(* No BUG of reboot.c is reached: each thread finds the state that it was  *)
(* started for.                                                            *)
THEOREM ThreadsAreRight == S!Spec => []RightThread
<1>1. IInv => RightThread
  BY Zenon DEF IInv, S!RightThread, RightThread, S!Down, Down
<1> QED
  BY <1>1, RequestsInvariant, PTL

LEMMA IInvOneOwner == IInv => S!OneOwner
<1> SUFFICES ASSUME IInv PROVE S!OneOwner
  OBVIOUS
<1> USE DEF IInv, S!OneOwner, S!Owners
<1>1. CASE shutting_down = "INVALID"
  BY <1>1 DEF StateFits, Kicking, ThreadBusy
<1>2. CASE shutting_down # "INVALID" /\ Kicking
  <2>1. PICK c \in S!Callers : call[c].at = "kick"
    BY <1>2 DEF Kicking
  <2>2. S!Owners = {<<"call", c>>}
    BY <1>2, <2>1 DEF OneOwns, ThreadBusy
  <2> QED
    BY <1>2, <2>2
<1>3. CASE shutting_down # "INVALID" /\ work
  <2>1. S!Owners = {<<"work", "work">>}
    BY <1>3 DEF OneOwns, ThreadBusy, Kicking
  <2> QED
    BY <1>3, <2>1
<1>4. CASE shutting_down # "INVALID" /\ handler # "idle"
  <2>1. S!Owners = {<<"handler", "handler">>}
    BY <1>4 DEF OneOwns, ThreadBusy, Kicking
  <2> QED
    BY <1>4, <2>1
<1>5. CASE shutting_down # "INVALID" /\ ThreadBusy
  <2>1. PICK t \in Threads : thread[t] # "idle"
    BY <1>5 DEF ThreadBusy
  <2>2. S!Owners = {<<"thread", t>>}
    BY <1>5, <2>1 DEF OneOwns, Kicking, ThreadBusy
  <2> QED
    BY <1>5, <2>2
<1> QED
  BY <1>1, <1>2, <1>3, <1>4, <1>5 DEF StateFits

(* One request at a time is acted on, by one actor, and while nobody acts  *)
(* the next one is taken.                                                  *)
THEOREM OneAtATime == S!Spec => []OneOwner
<1>1. S!OneOwner => OneOwner
  BY Zenon DEF S!OneOwner, OneOwner, S!Owners, Owners, S!Callers, Callers
<1> QED
  BY <1>1, RequestsInvariant, IInvOneOwner, PTL

(* A power-off is not replaced or dropped.                                 *)
LEMMA KeptStep ==
    IInv /\ [S!Next]_S!vars =>
        (shutting_down' # shutting_down /\ shutting_down \in S!Down
         => \E t \in Threads : thread[t] = "helped")
<1> SUFFICES ASSUME IInv, [S!Next]_S!vars, shutting_down' # shutting_down, shutting_down \in S!Down
             PROVE  \E t \in Threads : thread[t] = "helped"
  OBVIOUS
<1>1. CASE \E c \in S!Callers : S!Switch(c)
  BY <1>1 DEF S!Switch, IInv, RequestTyped, S!Down
<1>2. CASE \E t \in Threads : S!Step(t)
  BY <1>2 DEF S!Step, S!PowersOff, S!Clear, S!Pin, S!Fail, S!Gather, S!Gathered, S!Suspend,
     S!Remap, S!Notify, S!Let, S!Drained, S!Thaw, S!Listen, S!Settle, S!ThreadKicks, S!Goes,
     S!choice, IInv, S!RightThread, S!Down
<1>3. CASE UNCHANGED shutting_down
  BY <1>3
<1> QED
  BY <1>1, <1>2, <1>3 DEF S!Next, S!HostAsks, S!SuspendInt, S!Watch, S!HandlerReturns,
     S!HandlerStarts, S!HandlerReads, S!HandlerRetries, S!HandlerEnds, S!SwitchKicks,
     S!HandlerWorks, S!SpawnFails, S!Spawn, S!Freeze, S!ApSpins, S!ApLeaves, S!vars, S!choice

(* A power-off that was taken up stays until /sbin/poweroff was called.    *)
THEOREM PowerOffIsKept == S!Spec => PowerOffKept
<1>1. IInv /\ [S!Next]_S!vars
      => [shutting_down' # shutting_down /\ shutting_down \in Down
          => \E t \in Threads : thread[t] = "helped"]_shutting_down
  BY KeptStep, Zenon DEF S!Down, Down
<1> QED
  BY <1>1, RequestsInvariant, PTL DEF S!Spec, PowerOffKept

-----------------------------------------------------------------------------
(* The other processors.  Where the suspending thread is says what they    *)
(* may do; nr_spinning counts those that spin.                             *)
Spinners == {p \in APs : ap[p] = "spin"}
Holding     == {"suspend", "cancelled", "woken", "resumed", "notified"}
Using    == {"wait", "drain"} \cup Holding     \* ap_suspend_info is in use

Processors ==
    /\ ap \in [APs -> {"run", "called", "spin"}]
    /\ nr_spinning = Cardinality(Spinners)
    /\ \A t \in Threads :
          /\ thread[t] \in {"wait"} \cup Holding =>
                 do_spin = TRUE /\ irq = FALSE /\ \A p \in APs : ap[p] # "run"
          /\ thread[t] \in Holding => \A p \in APs : ap[p] = "spin"
          /\ thread[t] = "drain" =>
                 do_spin = FALSE /\ irq = FALSE /\ \A p \in APs : ap[p] # "called"
    /\ (\E p \in APs : ap[p] # "run") => \E t \in Threads : thread[t] \in Using
    /\ mapped # TRUE => \E t \in Threads : thread[t] = "woken"

processors == <<ap, nr_spinning, do_spin, irq, mapped>>

(* At most one thread is not idle.                                         *)
LEMMA OneThread ==
    ASSUME IInv, NEW t \in Threads, NEW u \in Threads, thread[t] # "idle", thread[u] # "idle"
    PROVE  t = u
BY DEF IInv, OneOwns

LEMMA SpinnersFinite == IsFiniteSet(Spinners) /\ Cardinality(Spinners) \in Nat
<1>1. Spinners \in SUBSET APs
  BY DEF Spinners
<1> QED
  BY <1>1, ShutdownAssumption, FS_Subset, FS_CardinalityType

LEMMA InitProcessors == S!Init => Processors
<1> SUFFICES ASSUME S!Init PROVE Processors
  OBVIOUS
<1>1. Spinners = {}
  BY DEF S!Init, Spinners
<1> QED
  BY <1>1, FS_EmptySet DEF S!Init, Processors, Holding, Using

(* Steps that leave the processors and the places that matter alone.       *)
LEMMA ElsewhereStep ==
    ASSUME IInv, Processors, UNCHANGED processors,
           \/ UNCHANGED thread
           \/ \E t \in Threads, to \in S!Places \ Using :
                 thread[t] \notin Using /\ thread' = [thread EXCEPT ![t] = to]
    PROVE  Processors'
<1>1. \A t \in Threads : thread'[t] \in Using \/ thread[t] \in Using => thread'[t] = thread[t]
  BY DEF IInv, RequestTyped
<1>2. Spinners' = Spinners
  BY DEF Spinners, processors
<1> QED
  BY <1>1, <1>2 DEF Processors, Using, Holding, processors

(* The suspending thread goes on, and holds the processors as before.      *)
LEMMA HoldStep ==
    ASSUME IInv, Processors, NEW t \in Threads, NEW to \in Holding,
           UNCHANGED <<ap, nr_spinning, do_spin, irq>>,
           \/ thread[t] \in Holding
           \/ thread[t] = "wait" /\ nr_spinning = Cardinality(APs),
           thread' = [thread EXCEPT ![t] = to],
           mapped' # TRUE => to = "woken"
    PROVE  Processors'
<1>1. \A u \in Threads : u # t => thread'[u] = "idle"
  BY OneThread DEF Holding, IInv, RequestTyped
<1>2. thread'[t] = to
  BY DEF IInv, RequestTyped
<1>3. \A p \in APs : ap[p] = "spin"
  <2>1. CASE thread[t] \in Holding
    BY <2>1 DEF Processors
  <2>2. CASE nr_spinning = Cardinality(APs)
    <3>1. Spinners \in SUBSET APs
      BY DEF Spinners
    <3>2. Spinners = APs
      BY <2>2, <3>1, FS_Subset, ShutdownAssumption DEF Processors
    <3> QED
      BY <3>2 DEF Spinners
  <2> QED
    BY <2>1, <2>2
<1>4. do_spin = TRUE /\ irq = FALSE /\ Spinners' = Spinners
  BY DEF Processors, Spinners
<1> QED
  BY <1>1, <1>2, <1>3, <1>4 DEF Processors, Using, Holding

LEMMA GatherStep ==
    ASSUME IInv, Processors, NEW t \in Threads, S!Gather(t)
    PROVE  Processors'
<1>1. thread[t] = "gather" /\ thread' = [thread EXCEPT ![t] = "wait"]
  BY DEF S!Gather, S!Goes
<1>2. \A u \in Threads : u # t => thread[u] = "idle" /\ thread'[u] = "idle"
  BY <1>1, OneThread DEF IInv, RequestTyped
<1>3. thread'[t] = "wait"
  BY <1>1 DEF IInv, RequestTyped
<1>4. \A p \in APs : ap[p] = "run"
  BY <1>1, <1>2 DEF Processors, Using, Holding
<1>5. ap' = [p \in APs |-> "called"]
  BY <1>4 DEF S!Gather
<1>6. Spinners' = {}
  BY <1>5 DEF Spinners
<1>7. mapped' = TRUE
  BY <1>1, <1>2 DEF S!Gather, Processors
<1> QED
  BY <1>2, <1>3, <1>5, <1>6, <1>7, FS_EmptySet DEF S!Gather, Processors, Using, Holding

LEMMA ApStep ==
    ASSUME IInv, Processors, NEW p \in APs, S!ApSpins(p) \/ S!ApLeaves(p)
    PROVE  Processors'
<1>1. UNCHANGED <<thread, do_spin, irq, mapped>>
  BY DEF S!ApSpins, S!ApLeaves, S!job, S!hw
<1>2. CASE S!ApSpins(p)
  <2>1. ap[p] = "called" /\ ap' = [ap EXCEPT ![p] = "spin"]
    BY <1>2 DEF S!ApSpins
  <2>2. Spinners' = Spinners \cup {p} /\ p \notin Spinners
    BY <2>1 DEF Spinners, Processors
  <2>3. nr_spinning' = Cardinality(Spinners')
    BY <1>2, <2>2, SpinnersFinite, FS_AddElement DEF S!ApSpins, Processors
  <2> QED
    BY <1>1, <2>1, <2>3 DEF Processors, Using, Holding
<1>3. CASE S!ApLeaves(p)
  <2>1. ap[p] = "spin" /\ do_spin # TRUE /\ ap' = [ap EXCEPT ![p] = "run"]
    BY <1>3 DEF S!ApLeaves
  <2>2. Spinners' = Spinners \ {p} /\ p \in Spinners
    BY <2>1 DEF Spinners, Processors
  <2>3. nr_spinning' = Cardinality(Spinners')
    BY <1>3, <2>2, SpinnersFinite, FS_RemoveElement DEF S!ApLeaves, Processors
  <2>4. \A t \in Threads : thread[t] \notin {"wait"} \cup Holding
    BY <2>1 DEF Processors
  <2> QED
    BY <1>1, <2>1, <2>3, <2>4 DEF Processors, Using, Holding
<1> QED
  BY <1>2, <1>3

LEMMA LetStep ==
    ASSUME IInv, Processors, NEW t \in Threads, S!Let(t)
    PROVE  Processors'
<1>1. /\ thread[t] = "notified" /\ thread' = [thread EXCEPT ![t] = "drain"]
      /\ do_spin' = FALSE /\ UNCHANGED <<ap, nr_spinning, irq, mapped>>
  BY DEF S!Let, S!Goes, S!hw
<1>2. \A u \in Threads : u # t => thread[u] = "idle" /\ thread'[u] = "idle"
  BY <1>1, OneThread DEF IInv, RequestTyped
<1>3. thread'[t] = "drain"
  BY <1>1 DEF IInv, RequestTyped
<1>4. Spinners' = Spinners
  BY <1>1 DEF Spinners
<1> QED
  BY <1>1, <1>2, <1>3, <1>4 DEF Processors, Using, Holding

LEMMA DrainedStep ==
    ASSUME IInv, Processors, NEW t \in Threads, S!Drained(t)
    PROVE  Processors'
<1>1. /\ thread[t] = "drain" /\ thread' = [thread EXCEPT ![t] = "thaw"]
      /\ nr_spinning = 0 /\ UNCHANGED <<ap, nr_spinning, do_spin, mapped>>
  BY DEF S!Drained, S!Goes, S!cpu
<1>2. \A u \in Threads : u # t => thread[u] = "idle" /\ thread'[u] = "idle"
  BY <1>1, OneThread DEF IInv, RequestTyped
<1>3. thread'[t] = "thaw"
  BY <1>1 DEF IInv, RequestTyped
<1>4. Spinners = {}
  BY <1>1, SpinnersFinite, FS_EmptySet DEF Processors
<1>5. \A p \in APs : ap[p] = "run"
  BY <1>1, <1>4 DEF Processors, Spinners
<1>6. Spinners' = Spinners
  BY <1>1 DEF Spinners
<1> QED
  BY <1>1, <1>2, <1>3, <1>5, <1>6 DEF Processors, Using, Holding

LEMMA SameCardinality == S!Cardinality(APs) = Cardinality(APs)
BY Zenon DEF S!Cardinality, Cardinality

LEMMA SuspendingStep ==
    ASSUME IInv, Processors, NEW t \in Threads,
           S!Gathered(t) \/ S!Suspend(t) \/ S!Remap(t) \/ S!Notify(t)
    PROVE  Processors'
<1>1. CASE S!Gathered(t)
  <2>1. mapped = TRUE
    BY <1>1, OneThread DEF S!Gathered, S!Goes, Processors
  <2>2. /\ thread[t] = "wait" /\ nr_spinning = Cardinality(APs)
        /\ thread' = [thread EXCEPT ![t] = "suspend"]
        /\ UNCHANGED S!cpu /\ UNCHANGED S!hw
    BY <1>1, SameCardinality, Zenon DEF S!Gathered, S!Goes
  <2>4. UNCHANGED <<ap, nr_spinning, do_spin, irq, mapped>>
    BY <2>2 DEF S!cpu, S!hw
  <2>3. "suspend" \in Holding
    BY DEF Holding
  <2> QED
    BY <2>1, <2>2, <2>3, <2>4, HoldStep
<1>2. CASE S!Suspend(t)
  <2>1. mapped = TRUE
    BY <1>2, OneThread DEF S!Suspend, S!Goes, Processors
  <2> QED
    BY <1>2, <2>1, HoldStep DEF S!Suspend, S!Goes, Holding, S!cpu
<1>3. CASE S!Remap(t)
  BY <1>3, HoldStep DEF S!Remap, S!Goes, Holding, S!cpu
<1>4. CASE S!Notify(t)
  <2>1. mapped = TRUE
    BY <1>4, OneThread DEF S!Notify, S!Goes, Processors
  <2> QED
    BY <1>4, <2>1, HoldStep DEF S!Notify, S!Goes, Holding, S!cpu, S!hw
<1> QED
  BY <1>1, <1>2, <1>3, <1>4

LEMMA NextProcessors == IInv /\ Processors /\ [S!Next]_S!vars => Processors'
<1> SUFFICES ASSUME IInv, Processors, [S!Next]_S!vars PROVE Processors'
  OBVIOUS
<1>1. CASE UNCHANGED processors /\ UNCHANGED thread
  BY <1>1, ElsewhereStep
<1>2. ASSUME NEW t \in Threads, S!Spawn(t) \/ S!Freeze(t) \/ S!PowersOff(t) \/ S!Clear(t)
             \/ S!Pin(t) \/ S!Fail(t) \/ S!Thaw(t) \/ S!Listen(t) \/ S!Settle(t) \/ S!ThreadKicks(t)
      PROVE  Processors'
  <2>1. UNCHANGED processors
    BY <1>2 DEF S!Spawn, S!Freeze, S!PowersOff, S!Clear, S!Pin, S!Fail, S!Thaw, S!Listen,
       S!Settle, S!ThreadKicks, S!Goes, processors, S!cpu, S!hw
  <2>2. thread[t] \notin Using /\ \E to \in S!Places \ Using : thread' = [thread EXCEPT ![t] = to]
    BY <1>2 DEF S!Spawn, S!Freeze, S!PowersOff, S!Clear, S!Pin, S!Fail, S!Thaw, S!Listen,
       S!Settle, S!ThreadKicks, S!Goes, Using, Holding, S!Places, S!Suspending
  <2> QED
    BY <2>1, <2>2, ElsewhereStep
<1>3. ASSUME NEW t \in Threads, S!Gather(t) \/ S!Let(t) \/ S!Drained(t) \/ S!Gathered(t)
             \/ S!Suspend(t) \/ S!Remap(t) \/ S!Notify(t)
      PROVE  Processors'
  BY <1>3, GatherStep, LetStep, DrainedStep, SuspendingStep
<1>4. ASSUME NEW p \in APs, S!ApSpins(p) \/ S!ApLeaves(p)
      PROVE  Processors'
  BY <1>4, ApStep
<1> QED
  BY <1>1, <1>2, <1>3, <1>4 DEF S!Next, S!HostAsks, S!SuspendInt, S!Watch, S!HandlerReturns,
     S!HandlerStarts, S!HandlerReads, S!HandlerRetries, S!HandlerEnds, S!Switch, S!SwitchKicks,
     S!HandlerWorks, S!SpawnFails, S!Step, S!vars, S!job, S!cpu, S!hw, processors

(* machine_reboot.c:16: no other processor touches the grant table while   *)
(* it is not mapped, and none looks at the stack of __xen_suspend when     *)
(* that does not run, for any number of processors.                        *)
THEOREM ProcessorsAreHeld == S!Spec => []ApsHeld
<1>1. Processors => ApsHeld
  BY DEF Processors, ApsHeld, Using, Holding
<1> QED
  BY RequestsInvariant, InitProcessors, NextProcessors, <1>1, PTL DEF S!Spec
=============================================================================
