-------------------------- MODULE ScsifrontProofs --------------------------
(***************************************************************************)
(* Proofs about Scsifront: that nobody is inside the driver while the ring *)
(* is replaced, that no id is lost or used twice, and that the driver is   *)
(* the device that the SCSI layer expects.                                 *)
(***************************************************************************)
EXTENDS Scsifront, TLAPS, FiniteSetTheorems, SequenceTheorems

RsType == [pc : {"idle", "called", "slot", "hurried", "sent", "signalled", "returned"},
           id : Ids \cup {NoId}]

ShadowType == [busy : BOOLEAN, act : {"cdb", "reset"}, cmd : Cmds \cup {NoCmd},
               wait : BOOLEAN, rslt : {"none", "answered", "abandoned"}]

SentType   == [id : Ids, act : {"cdb", "reset"}, cmd : Cmds \cup {NoCmd}]
AnswerType == [id : Ids, ok : BOOLEAN]

Holding(h) == rs[h].pc \in {"sent", "signalled"}

LayerTyped ==
    /\ result \in [Cmds -> {"new", "pending", "ok", "error", "again"}]
    /\ at \in [Cmds -> {"layer", "reading", "entered", "driver"}]
    /\ expired \subseteq Cmds /\ limit \in {"none", "short", "long"}

GateTyped ==
    /\ seen \in [Cmds -> Int] /\ callers \in Int
    /\ pause \in BOOLEAN /\ waiting_pause \in BOOLEAN

RingTyped ==
    /\ idle \in Seq(Ids) /\ shadow \in [Ids -> ShadowType]
    /\ size \in {0} \cup {h.ring : h \in Hosts}
    /\ sent \subseteq SentType /\ IsFiniteSet(sent) /\ answers \in Seq(AnswerType)
    /\ asked \in BOOLEAN /\ event \in BOOLEAN

ThreadsTyped ==
    /\ waiting_resp \in BOOLEAN /\ waiting_sync \in BOOLEAN
    /\ lock \in {"none", "worker", "resume"} /\ worker \in {"wait", "due", "drain"}
    /\ rs \in [Resetters -> RsType]
    /\ \A h \in Resetters : Holding(h) => rs[h].id \in Ids

EnvTyped ==
    /\ xb \in {"probe", "initialised", "idle", "suspending", "suspended", "resume", "finish",
               "free"}
    /\ host \in [kind : Hosts, state : {"Initialising", "InitWait", "Connected", "Gone"}]

Typed == LayerTyped /\ GateTyped /\ RingTyped /\ ThreadsTyped /\ EnvTyped

(* callers is right, also for who has read it.                             *)
Counted ==
    /\ callers = Cardinality(Entered) + Cardinality(InReset)
    /\ \A c \in Cmds : at[c] = "reading" => seen[c] = callers /\ ~pause
    /\ \A b, c \in Cmds : at[b] = "reading" /\ at[c] = "reading" => b = c
    /\ xb \notin {"idle", "suspending"} =>
          /\ \A c \in Cmds : at[c] \notin {"reading", "entered"}
          /\ \A h \in Resetters : ~Holding(h)

(* Where connection, suspend and resume are.                               *)
Staged ==
    /\ lock = "worker" <=> worker = "drain"
    /\ lock = "resume" <=> xb = "finish"
    /\ xb \in {"finish", "free"} => worker = "wait" /\ ~waiting_resp
    /\ xb \in {"resume", "finish", "free"} => ~event /\ host.state = "Gone"
    /\ xb \in {"idle", "suspending", "suspended"} => host.state = "Connected"
    /\ xb \in {"suspending", "suspended", "resume", "finish", "free"} => pause
    /\ pause => xb \notin {"idle", "probe"}
    /\ xb = "initialised" => pause \/ limit = "none"
    /\ xb = "probe" => limit = "none"
    /\ xb # "probe" => size # 0

(* Nothing is asked for before there is a LUN.                             *)
Unused ==
    limit = "none" =>
        /\ xb \in {"probe", "initialised"} /\ ~pause
        /\ \A c \in Cmds : result[c] = "new" /\ at[c] = "layer"
        /\ \A h \in Resetters : rs[h].pc = "idle"

(* A command that an id has is in the driver, with no other id.            *)
Carries ==
    /\ \A i \in Ids : shadow[i].cmd # NoCmd => at[shadow[i].cmd] = "driver"
    /\ \A i, j \in Ids : shadow[i].cmd = shadow[j].cmd /\ shadow[i].cmd # NoCmd => i = j

QInv == Typed /\ Counted /\ Staged /\ Unused /\ Carries
-----------------------------------------------------------------------------
Uses(i, c) == shadow[i].busy /\ shadow[i].act = "cdb" /\ shadow[i].cmd = c

(* What an id is in use for.                                               *)
IdOk(i) ==
    shadow[i].busy =>
        /\ i < size
        /\ shadow[i].act = "cdb" =>
              shadow[i].cmd \in Cmds /\ ~shadow[i].wait /\ shadow[i].rslt = "none"
        /\ shadow[i].act = "reset" =>
              /\ shadow[i].cmd = NoCmd /\ (shadow[i].wait <=> shadow[i].rslt = "answered")
              /\ shadow[i].rslt # "abandoned" =>
                    \E h \in Resetters : Holding(h) /\ rs[h].id = i

Used ==
    /\ \A i \in Ids : IdOk(i)
    /\ \A c \in Cmds : at[c] = "driver" => \E i \in Ids : Uses(i, c)

(* Ids and the free list.                                                  *)
Free ==
    /\ IsInjective(idle)
    /\ Range(idle) = {i \in 0 .. size - 1 : ~shadow[i].busy}

(* What a reset waits for.                                                 *)
HeldOk(h) ==
    Holding(h) =>
        /\ shadow[rs[h].id].busy /\ shadow[rs[h].id].act = "reset"
        /\ shadow[rs[h].id].rslt # "abandoned"
        /\ rs[h].pc = "signalled" => ~shadow[rs[h].id].wait /\ lock = "none"

Held ==
    /\ \A h \in Resetters : HeldOk(h)
    /\ \A g, h \in Resetters : Holding(g) /\ Holding(h) /\ rs[g].id = rs[h].id => g = h

(* What the ring has is about what ids are in use for, each once.          *)
SentOk(m) ==
    /\ shadow[m.id].busy /\ ~shadow[m.id].wait
    /\ shadow[m.id].act = m.act /\ shadow[m.id].cmd = m.cmd

Answered(i) == \E k \in DOMAIN answers : answers[k].id = i

OnRing ==
    /\ \A m, n \in sent : m.id = n.id => m = n
    /\ \A m \in sent : ~Answered(m.id)
    /\ \A k, l \in DOMAIN answers : answers[k].id = answers[l].id => k = l
    /\ \A k \in DOMAIN answers : shadow[answers[k].id].busy /\ ~shadow[answers[k].id].wait
    /\ xb \notin {"finish", "free"} =>
          /\ \A m \in sent : SentOk(m)
          /\ \A i \in Ids : shadow[i].busy /\ ~shadow[i].wait =>
                Answered(i) \/ \E m \in sent : m.id = i
    /\ xb = "free" => \A i \in Ids : ~shadow[i].busy

IInv == Used /\ Free /\ Held /\ OnRing
-----------------------------------------------------------------------------
(* What has become of commands.                                            *)
FateOk(c) ==
    /\ at[c] # "layer" => result[c] = "pending"
    /\ c \in expired => result[c] = "pending" /\ at[c] \in {"driver", "layer"} /\ xb = "idle"

(* The error handler, while it resets.                                     *)
RecoverOk(h) ==
    h \notin Interruptible /\ rs[h].pc # "idle" =>
        /\ rs[h].pc \notin {"hurried", "signalled"}
        /\ \A c \in Cmds : at[c] # "layer" => at[c] = "driver" /\ c \in expired
        /\ rs[h].pc = "returned" \/ (rs[h].pc = "sent" /\ shadow[rs[h].id].wait) =>
              \A c \in Cmds : at[c] = "layer"
        /\ rs[h].pc = "sent" =>
              \A k \in DOMAIN answers : answers[k].id = rs[h].id =>
                  /\ \A m \in sent : m.act = "reset"
                  /\ \A l \in DOMAIN answers : l > k => shadow[answers[l].id].act = "reset"

WrittenOk ==
    \A k \in DOMAIN answers :
        answers[k].ok /\ shadow[answers[k].id].act = "cdb" =>
            <<shadow[answers[k].id].cmd, 1>> \in written

FInv ==
    /\ \A c \in Cmds : FateOk(c)
    /\ \A h \in Resetters : RecoverOk(h)
    /\ WrittenOk
-----------------------------------------------------------------------------
(* The encounters that Quiet has to do without.                            *)
QHyp == When \cap {"entering", "worker", "hotplug", "reconnecting"} = {}

(* Sequences and ids.                                                      *)
LEMMA IdsFacts ==
    /\ IsFiniteSet(Cmds) /\ IsFiniteSet(Resetters) /\ NoCmd \notin Cmds /\ NoId \notin Ids
    /\ MaxReqs \in Nat /\ \A i \in Ids : i \in Nat
    /\ \A h \in Hosts : h.ring \in 1 .. MaxReqs /\ h.indirect \in BOOLEAN
<1>1. NoId \notin Ids /\ MaxReqs \in Nat /\ \A i \in Ids : i \in Nat
  BY ScsiAssumption DEF Ids
<1>2. \A h \in Hosts : h.ring \in 1 .. MaxReqs /\ h.indirect \in BOOLEAN
  BY ScsiAssumption
<1>3. IsFiniteSet(Cmds) /\ IsFiniteSet(Resetters) /\ NoCmd \notin Cmds
  BY ScsiAssumption
<1> QED BY <1>1, <1>2, <1>3

LEMMA TailTyped ==
    ASSUME NEW S, NEW q \in Seq(S), q # <<>>
    PROVE  /\ Head(q) \in S /\ Head(q) = q[1] /\ Tail(q) \in Seq(S)
           /\ Len(q) >= 1 /\ Len(Tail(q)) = Len(q) - 1
           /\ \A k \in 1 .. Len(q) - 1 : Tail(q)[k] = q[k + 1]
  OBVIOUS

LEMMA ConsTyped ==
    ASSUME NEW S, NEW q \in Seq(S), NEW x \in S
    PROVE  /\ <<x>> \o q \in Seq(S) /\ Len(<<x>> \o q) = Len(q) + 1
           /\ (<<x>> \o q)[1] = x
           /\ \A k \in 2 .. Len(q) + 1 : (<<x>> \o q)[k] = q[k - 1]
<1>1. <<x>> \in Seq(S) /\ Len(<<x>>) = 1 /\ <<x>>[1] = x
  OBVIOUS
<1> DEFINE p == <<x>>
<1> HIDE DEF p
<1>2. p \in Seq(S) /\ Len(p) = 1 /\ p[1] = x
  BY <1>1 DEF p
<1>3. /\ p \o q \in Seq(S) /\ Len(p \o q) = Len(p) + Len(q)
      /\ \A k \in 1 .. Len(p) + Len(q) :
            (p \o q)[k] = IF k <= Len(p) THEN p[k] ELSE q[k - Len(p)]
  BY <1>2, ConcatProperties, Zenon
<1>4. Len(q) \in Nat
  OBVIOUS
<1>5. (p \o q)[1] = x /\ Len(p \o q) = Len(q) + 1
  BY <1>2, <1>3, <1>4, SMT
<1>6. \A k \in 2 .. Len(q) + 1 : (p \o q)[k] = q[k - 1]
  BY <1>2, <1>3, <1>4, SMT
<1> QED BY <1>3, <1>5, <1>6 DEF p

LEMMA Finite ==
    ASSUME Typed
    PROVE  /\ IsFiniteSet(Entered) /\ IsFiniteSet(InReset)
           /\ Cardinality(Entered) \in Nat /\ Cardinality(InReset) \in Nat
<1>1. IsFiniteSet(Entered) /\ IsFiniteSet(InReset)
  BY IdsFacts, FS_Subset DEF Entered, InReset
<1> QED BY <1>1, FS_CardinalityType

(* An id is taken, and put back.                                           *)
LEMMA PushTyped ==
    ASSUME Typed, Carries, NEW act \in {"cdb", "reset"}, NEW c \in Cmds \cup {NoCmd},
           Push(act, c), size' = size, answers' = answers, asked' = asked, event' = event,
           \A i \in Ids : c # NoCmd => shadow[i].cmd # c
    PROVE  /\ RingTyped'
           /\ Head(idle) \in Ids
           /\ shadow'[Head(idle)] = [busy |-> TRUE, act |-> act, cmd |-> c, wait |-> FALSE,
                                     rslt |-> "none"]
           /\ \A i \in Ids : i # Head(idle) => shadow'[i] = shadow[i]
<1> USE DEF Typed, RingTyped, Push
<1>1. Head(idle) \in Ids /\ idle' \in Seq(Ids)
  BY TailTyped
<1>2. /\ shadow'[Head(idle)] = [busy |-> TRUE, act |-> act, cmd |-> c, wait |-> FALSE,
                                rslt |-> "none"]
      /\ \A i \in Ids : i # Head(idle) => shadow'[i] = shadow[i]
  BY <1>1 DEF Empty
<1>3. shadow' \in [Ids -> ShadowType]
  BY <1>1 DEF Empty, ShadowType
<1>4. sent' \subseteq SentType
  BY <1>1 DEF SentType
<1>5. IsFiniteSet(sent')
  BY FS_AddElement, Zenon
<1> QED BY <1>1, <1>2, <1>3, <1>4, <1>5

LEMMA FreeTyped ==
    ASSUME idle \in Seq(Ids), shadow \in [Ids -> ShadowType], NEW i \in Ids,
           AddIdToFreelist(i)
    PROVE  /\ idle' \in Seq(Ids) /\ shadow' \in [Ids -> ShadowType]
           /\ shadow'[i] = Empty
           /\ \A j \in Ids : j # i => shadow'[j] = shadow[j]
  BY ConsTyped DEF AddIdToFreelist, Empty, ShadowType

LEMMA DoResponseQ ==
    ASSUME Typed, Carries, NEW i \in Ids, NEW ok \in BOOLEAN, DoResponse(i, ok),
           UNCHANGED <<expired, limit, size, sent, asked, event, rs>>,
           answers' \in Seq(AnswerType)
    PROVE  /\ LayerTyped' /\ RingTyped' /\ Carries'
           /\ Entered' = Entered /\ InReset' = InReset
           /\ \A c \in Cmds : at'[c] # at[c] => at[c] = "driver" /\ at'[c] = "layer"
           /\ \A c \in Cmds : result'[c] # result[c] => at[c] = "driver"
<1> USE DEF Typed, RingTyped, LayerTyped
<1>1. CASE shadow[i].act = "cdb" /\ shadow[i].cmd # NoCmd /\ AddIdToFreelist(i)
           /\ ScsiDone(shadow[i].cmd, ok)
  <2> DEFINE c == shadow[i].cmd
  <2>1. c \in Cmds /\ at[c] = "driver"
    BY <1>1 DEF Carries, ShadowType
  <2>2. /\ idle' \in Seq(Ids) /\ shadow' \in [Ids -> ShadowType] /\ shadow'[i] = Empty
        /\ \A j \in Ids : j # i => shadow'[j] = shadow[j]
    BY <1>1, FreeTyped
  <2>3. /\ at' \in [Cmds -> {"layer", "reading", "entered", "driver"}] /\ at'[c] = "layer"
        /\ \A d \in Cmds : d # c => at'[d] = at[d] /\ result'[d] = result[d]
        /\ result' \in [Cmds -> {"new", "pending", "ok", "error", "again"}]
    BY <1>1, <2>1 DEF ScsiDone
  <2>4. Carries'
    <3>1. /\ shadow'[i].cmd = NoCmd
          /\ \A j \in Ids : j # i => shadow'[j].cmd = shadow[j].cmd /\ shadow[j].cmd # c
                                   /\ (shadow[j].cmd # NoCmd => shadow[j].cmd \in Cmds)
      BY <1>1, <2>2 DEF Empty, Carries, ShadowType
    <3> HIDE DEF c
    <3>2. ASSUME NEW j \in Ids, shadow'[j].cmd # NoCmd PROVE at'[shadow'[j].cmd] = "driver"
      BY <3>1, <3>2, <2>3, ZenonT(60) DEF Carries
    <3>3. ASSUME NEW j \in Ids, NEW k \in Ids, shadow'[j].cmd = shadow'[k].cmd,
                 shadow'[j].cmd # NoCmd
          PROVE  j = k
      BY <3>1, <3>3 DEF Carries
    <3> QED BY <3>2, <3>3 DEF Carries
  <2>5. Entered' = Entered /\ InReset' = InReset
    BY <2>1, <2>3 DEF Entered, InReset
  <2>6. LayerTyped' /\ RingTyped'
    BY <2>2, <2>3
  <2> QED BY <2>1, <2>3, <2>4, <2>5, <2>6
<1>2. CASE shadow[i].act = "reset" /\ SyncCmdDone(i) /\ UNCHANGED <<at, result>>
  <2>1. /\ idle' \in Seq(Ids) /\ shadow' \in [Ids -> ShadowType]
        /\ \A j \in Ids : shadow'[j].cmd \in {shadow[j].cmd, NoCmd}
    <3>1. CASE shadow[i].rslt = "abandoned" /\ AddIdToFreelist(i)
      <4>1. /\ idle' \in Seq(Ids) /\ shadow' \in [Ids -> ShadowType] /\ shadow'[i] = Empty
            /\ \A j \in Ids : j # i => shadow'[j] = shadow[j]
        BY <3>1, FreeTyped
      <4> QED BY <4>1 DEF Empty
    <3>2. CASE shadow[i].rslt # "abandoned" /\ UNCHANGED idle
               /\ shadow' = [shadow EXCEPT ![i].wait = TRUE, ![i].rslt = "answered"]
      BY <3>2, ZenonT(60) DEF ShadowType
    <3> QED BY <1>2, <3>1, <3>2 DEF SyncCmdDone
  <2>2. Carries'
    BY <1>2, <2>1 DEF Carries
  <2>3. Entered' = Entered /\ InReset' = InReset
    BY <1>2 DEF Entered, InReset
  <2>4. LayerTyped' /\ RingTyped'
    BY <1>2, <2>1
  <2> QED BY <1>2, <2>2, <2>3, <2>4
<1> QED BY <1>1, <1>2 DEF DoResponse
(* Who is counted enters or leaves.                                        *)
LEMMA CountEnters ==
    ASSUME Typed, NEW c \in Cmds, at[c] # "entered", at' = [at EXCEPT ![c] = "entered"],
           rs' = rs
    PROVE  Cardinality(Entered') = Cardinality(Entered) + 1 /\ InReset' = InReset
<1>1. Entered' = Entered \cup {c} /\ c \notin Entered /\ InReset' = InReset
  BY DEF Entered, InReset, Typed, LayerTyped
<1> QED BY <1>1, Finite, FS_AddElement

LEMMA CountLeaves ==
    ASSUME Typed, NEW c \in Cmds, at[c] = "entered", NEW a \in {"layer", "driver"},
           at' = [at EXCEPT ![c] = a], rs' = rs
    PROVE  Cardinality(Entered') = Cardinality(Entered) - 1 /\ InReset' = InReset
<1>1. Entered' = Entered \ {c} /\ c \in Entered /\ InReset' = InReset
  BY DEF Entered, InReset, Typed, LayerTyped
<1> QED BY <1>1, Finite, FS_RemoveElement

LEMMA CountSends ==
    ASSUME Typed, NEW h \in Resetters, ~Holding(h), rs' = [rs EXCEPT ![h] = rs'[h]],
           rs'[h].pc = "sent", at' = at
    PROVE  Cardinality(InReset') = Cardinality(InReset) + 1 /\ Entered' = Entered
<1>1. InReset' = InReset \cup {h} /\ h \notin InReset /\ Entered' = Entered
  BY DEF Entered, InReset, Typed, ThreadsTyped, Holding
<1> QED BY <1>1, Finite, FS_AddElement

LEMMA CountReturns ==
    ASSUME Typed, NEW h \in Resetters, Holding(h), rs' = [rs EXCEPT ![h] = rs'[h]],
           rs'[h].pc = "returned", at' = at
    PROVE  Cardinality(InReset') = Cardinality(InReset) - 1 /\ Entered' = Entered
<1>1. InReset' = InReset \ {h} /\ h \in InReset /\ Entered' = Entered
  BY DEF Entered, InReset, Typed, ThreadsTyped, Holding
<1> QED BY <1>1, Finite, FS_RemoveElement
-----------------------------------------------------------------------------
LEMMA NewRingTyped ==
    ASSUME Typed, NewRing
    PROVE  /\ RingTyped' /\ size' # 0 /\ size' = host.kind.ring
           /\ \A i \in Ids : shadow'[i] = Empty
           /\ DOMAIN idle' = 1 .. size' /\ \A k \in 1 .. size' : idle'[k] = k - 1
<1>1. host.kind \in Hosts /\ size' = host.kind.ring /\ size' \in 1 .. MaxReqs
  BY IdsFacts DEF NewRing, Typed, EnvTyped
<1>2. \A k \in 1 .. size' : k - 1 \in Ids
  BY <1>1, IdsFacts DEF Ids
<1>3. /\ DOMAIN idle' = 1 .. size' /\ \A k \in 1 .. size' : idle'[k] = k - 1
      /\ idle' \in Seq(Ids)
  BY <1>1, <1>2, IdsFacts DEF NewRing
<1>4. sent' = {} /\ IsFiniteSet(sent')
  BY FS_EmptySet DEF NewRing
<1>5. \A i \in Ids : shadow'[i] = Empty
  BY DEF NewRing
<1>6. shadow' \in [Ids -> ShadowType]
  BY DEF NewRing, ShadowType, Empty
<1>7. RingTyped'
  <2>1. size' \in {0} \cup {k.ring : k \in Hosts}
    BY <1>1
  <2>2. answers' = <<>> /\ answers' \in Seq(AnswerType) /\ asked' = TRUE /\ event' = FALSE
    BY DEF NewRing
  <2> HIDE DEF NewRing
  <2> QED BY <2>1, <2>2, <1>3, <1>4, <1>6 DEF RingTyped
<1> QED BY <1>1, <1>3, <1>5, <1>7, IdsFacts
-----------------------------------------------------------------------------
(* Each step keeps QInv.                                                   *)

LEMMA QSubmit ==
    ASSUME QInv, NEW c \in Cmds, Submit(c)
    PROVE  QInv'
<1> USE DEF Submit, QInv, Typed, layer, gate, ids, ring, threads, env
<1>1. Typed'
  BY DEF LayerTyped, GateTyped, RingTyped, ThreadsTyped, EnvTyped, Holding
<1>2. Entered' = Entered /\ InReset' = InReset
  BY DEF Entered, InReset, LayerTyped, ThreadsTyped
<1>3. Counted'
  BY <1>2 DEF Counted, Holding, LayerTyped, ThreadsTyped, Staged
<1>4. Staged' /\ Unused' /\ Carries'
  BY DEF Staged, Unused, Carries, LayerTyped, RingTyped, ThreadsTyped, EnvTyped
<1> QED BY <1>1, <1>3, <1>4

LEMMA QEnterReads ==
    ASSUME QHyp, QInv, NEW c \in Cmds, EnterReads(c)
    PROVE  QInv'
<1> USE DEF EnterReads, QInv, Typed, layer, gate, ids, ring, threads, env
<1>0. \A d \in Cmds : at[d] # "reading"
  BY DEF QHyp, Calm, Apart
<1>1. Typed'
  BY DEF LayerTyped, GateTyped, RingTyped, ThreadsTyped, EnvTyped, Holding
<1>2. Entered' = Entered /\ InReset' = InReset
  BY DEF Entered, InReset, LayerTyped, ThreadsTyped
<1>3. Counted'
  BY <1>2, <1>0 DEF Counted, Holding, LayerTyped, ThreadsTyped, Staged, Unused, GateTyped, EnvTyped
<1>4. Staged' /\ Unused' /\ Carries'
  BY DEF Staged, Unused, Carries, LayerTyped, RingTyped, ThreadsTyped, EnvTyped
<1> QED BY <1>1, <1>3, <1>4

LEMMA QEnterWrites ==
    ASSUME QInv, NEW c \in Cmds, EnterWrites(c)
    PROVE  QInv'
<1> USE DEF EnterWrites, QInv, Typed, layer, gate, ids, ring, threads, env
<1>0. seen[c] = callers /\ callers' = callers + 1
  BY DEF Counted
<1>1. Typed'
  BY DEF LayerTyped, GateTyped, RingTyped, ThreadsTyped, EnvTyped, Holding
<1>2. Cardinality(Entered') = Cardinality(Entered) + 1 /\ InReset' = InReset
  BY CountEnters
<1>3. Counted'
  BY <1>0, <1>2, Finite DEF Counted, Holding, LayerTyped, GateTyped
<1>4. Staged' /\ Unused' /\ Carries'
  BY DEF Staged, Unused, Carries, Counted, LayerTyped, RingTyped
<1> QED BY <1>1, <1>3, <1>4

LEMMA QQueueBusy ==
    ASSUME QHyp, QInv, NEW c \in Cmds, QueueBusy(c)
    PROVE  QInv'
<1> USE DEF QueueBusy, QInv, Typed, layer, gate, ids, ring, threads, env
<1>0. \A d \in Cmds : at[d] # "reading"
  BY DEF QHyp, Calm, Apart
<1>1. Typed'
  BY DEF Return, LayerTyped, GateTyped, RingTyped, ThreadsTyped, EnvTyped, Holding
<1>2. Cardinality(Entered') = Cardinality(Entered) - 1 /\ InReset' = InReset
  BY CountLeaves
<1>3. Counted'
  BY <1>0, <1>2, Finite DEF Return, Counted, Holding, LayerTyped, GateTyped
<1>4. Staged' /\ Unused' /\ Carries'
  BY DEF Staged, Unused, Carries, LayerTyped, RingTyped, ShadowType
<1> QED BY <1>1, <1>3, <1>4

LEMMA QQueueError ==
    ASSUME QHyp, QInv, NEW c \in Cmds, QueueError(c)
    PROVE  QInv'
<1> USE DEF QueueError, QInv, Typed, layer, gate, ids, ring, threads, env
<1>0. \A d \in Cmds : at[d] # "reading"
  BY DEF QHyp, Calm, Apart
<1>1. Typed'
  BY DEF Return, LayerTyped, GateTyped, RingTyped, ThreadsTyped, EnvTyped, Holding
<1>2. Cardinality(Entered') = Cardinality(Entered) - 1 /\ InReset' = InReset
  BY CountLeaves
<1>3. Counted'
  BY <1>0, <1>2, Finite DEF Return, Counted, Holding, LayerTyped, GateTyped
<1>4. Staged' /\ Unused' /\ Carries'
  BY DEF Staged, Unused, Carries, LayerTyped, RingTyped, ShadowType
<1> QED BY <1>1, <1>3, <1>4

LEMMA QQueueCommand ==
    ASSUME QHyp, QInv, NEW c \in Cmds, QueueCommand(c)
    PROVE  QInv'
<1> USE DEF QueueCommand, QInv, Typed, layer, gate, ids, ring, threads, env
<1>0. \A d \in Cmds : at[d] # "reading"
  BY DEF QHyp, Calm, Apart
<1>a. \A i \in Ids : shadow[i].cmd # c
  BY IdsFacts DEF Carries
<1>b. /\ RingTyped' /\ Head(idle) \in Ids
      /\ shadow'[Head(idle)] = [busy |-> TRUE, act |-> "cdb", cmd |-> c, wait |-> FALSE,
                                rslt |-> "none"]
      /\ \A i \in Ids : i # Head(idle) => shadow'[i] = shadow[i]
  BY <1>a, PushTyped
<1>1. Typed'
  BY <1>b DEF Return, LayerTyped, GateTyped, ThreadsTyped, EnvTyped, Holding
<1>2. Cardinality(Entered') = Cardinality(Entered) - 1 /\ InReset' = InReset
  BY CountLeaves
<1>3. Counted'
  BY <1>0, <1>2, Finite DEF Return, Counted, Holding, LayerTyped, GateTyped
<1>4. Staged' /\ Unused'
  BY DEF Staged, Unused, LayerTyped
<1>5. Carries'
  <2>1. /\ at'[c] = "driver" /\ \A d \in Cmds : d # c => at'[d] = at[d]
        /\ shadow'[Head(idle)].cmd = c
        /\ \A i \in Ids : i # Head(idle) => shadow'[i].cmd = shadow[i].cmd
        /\ \A i \in Ids : shadow[i].cmd # NoCmd => shadow[i].cmd \in Cmds
    BY <1>b DEF LayerTyped, RingTyped, ShadowType
  <2> QED BY <2>1, <1>a, <1>b DEF Carries
<1> QED BY <1>1, <1>3, <1>4, <1>5

LEMMA QExpire ==
    ASSUME QInv, NEW c \in Cmds, Expire(c)
    PROVE  QInv'
<1> USE DEF Expire, QInv, Typed, layer, gate, ids, ring, threads, env
<1>1. Typed'
  BY DEF LayerTyped, GateTyped, RingTyped, ThreadsTyped, EnvTyped, Holding
<1>2. Entered' = Entered /\ InReset' = InReset
  BY DEF Entered, InReset, LayerTyped, ThreadsTyped
<1>3. Counted'
  BY <1>2 DEF Counted, Holding, LayerTyped, ThreadsTyped, Staged
<1>4. Staged' /\ Unused' /\ Carries'
  BY DEF Staged, Unused, Carries, LayerTyped, RingTyped, ThreadsTyped, EnvTyped
<1> QED BY <1>1, <1>3, <1>4

LEMMA QInterrupt ==
    ASSUME QInv, Interrupt
    PROVE  QInv'
<1> USE DEF Interrupt, QInv, Typed, layer, gate, ids, ring, threads, env
<1>1. Typed'
  <2>1. LayerTyped' /\ GateTyped'
    BY DEF LayerTyped, GateTyped
  <2>2. RingTyped'
    BY DEF RingTyped
  <2>3. ThreadsTyped'
    BY DEF ThreadsTyped, RsType, Holding
  <2>4. EnvTyped'
    BY DEF EnvTyped
  <2> QED BY <2>1, <2>2, <2>3, <2>4
<1>2. Entered' = Entered /\ InReset' = InReset
  BY DEF Entered, InReset, LayerTyped, ThreadsTyped
<1>3. Counted'
  BY <1>2 DEF Counted, Holding, LayerTyped, ThreadsTyped, Staged
<1>4. Staged' /\ Unused' /\ Carries'
  BY DEF Staged, Unused, Carries, LayerTyped, RingTyped, ThreadsTyped, EnvTyped
<1> QED BY <1>1, <1>3, <1>4

LEMMA QWorkerWakes ==
    ASSUME QInv, WorkerWakes
    PROVE  QInv'
<1> USE DEF WorkerWakes, QInv, Typed, layer, gate, ids, ring, threads, env
<1>1. Typed'
  <2>1. LayerTyped' /\ GateTyped'
    BY DEF LayerTyped, GateTyped
  <2>2. RingTyped'
    BY DEF RingTyped
  <2>3. ThreadsTyped'
    BY DEF ThreadsTyped, RsType, Holding
  <2>4. EnvTyped'
    BY DEF EnvTyped
  <2> QED BY <2>1, <2>2, <2>3, <2>4
<1>2. Entered' = Entered /\ InReset' = InReset
  BY DEF Entered, InReset, LayerTyped, ThreadsTyped
<1>3. Counted'
  BY <1>2 DEF Counted, Holding, LayerTyped, ThreadsTyped, Staged
<1>4. Staged' /\ Unused' /\ Carries'
  BY DEF Staged, Unused, Carries, LayerTyped, RingTyped, ThreadsTyped, EnvTyped
<1> QED BY <1>1, <1>3, <1>4

LEMMA QWorkerLocks ==
    ASSUME QInv, WorkerLocks
    PROVE  QInv'
<1> USE DEF WorkerLocks, QInv, Typed, layer, gate, ids, ring, threads, env
<1>1. Typed'
  BY DEF LayerTyped, GateTyped, RingTyped, ThreadsTyped, EnvTyped, Holding
<1>2. Entered' = Entered /\ InReset' = InReset
  BY DEF Entered, InReset, LayerTyped, ThreadsTyped
<1>3. Counted'
  BY <1>2 DEF Counted, Holding, LayerTyped, ThreadsTyped, Staged
<1>4. Staged' /\ Unused' /\ Carries'
  BY DEF Staged, Unused, Carries, LayerTyped, RingTyped, ThreadsTyped, EnvTyped
<1> QED BY <1>1, <1>3, <1>4

LEMMA QHandle ==
    ASSUME QInv, Handle
    PROVE  QInv'
<1> USE DEF Handle, QInv, Typed, layer, gate, ids, ring, threads, env
<1>1. /\ LayerTyped' /\ RingTyped' /\ Carries'
      /\ Entered' = Entered /\ InReset' = InReset
      /\ \A c \in Cmds : at'[c] # at[c] => at[c] = "driver" /\ at'[c] = "layer"
      /\ \A c \in Cmds : result'[c] # result[c] => at[c] = "driver"
  <2>1. Head(answers) \in AnswerType /\ Tail(answers) \in Seq(AnswerType)
    BY TailTyped DEF RingTyped
  <2>2. Head(answers).id \in Ids /\ Head(answers).ok \in BOOLEAN
    BY <2>1 DEF AnswerType
  <2> QED BY <2>1, <2>2, DoResponseQ
<1>2. Typed'
  BY <1>1 DEF GateTyped, ThreadsTyped, EnvTyped, Holding
<1>3. Counted'
  BY <1>1 DEF Counted, Holding
<1>4. Staged' /\ Unused'
  BY <1>1 DEF Staged, Unused
<1> QED BY <1>1, <1>2, <1>3, <1>4

LEMMA QWorkerEnds ==
    ASSUME QInv, WorkerEnds
    PROVE  QInv'
<1> USE DEF WorkerEnds, QInv, Typed, layer, gate, ids, ring, threads, env
<1>1. Typed'
  BY ZenonT(60) DEF LayerTyped, GateTyped, RingTyped, ThreadsTyped, EnvTyped, Holding
<1>2. Entered' = Entered /\ InReset' = InReset
  BY DEF Entered, InReset, LayerTyped, ThreadsTyped
<1>3. Counted'
  BY <1>2 DEF Counted, Holding, LayerTyped, ThreadsTyped, Staged
<1>4. Staged' /\ Unused' /\ Carries'
  BY DEF Staged, Unused, Carries, LayerTyped, RingTyped, ThreadsTyped, EnvTyped
<1> QED BY <1>1, <1>3, <1>4

LEMMA QResetCall ==
    ASSUME QInv, NEW h \in Resetters, ResetCall(h)
    PROVE  QInv'
<1> USE DEF ResetCall, QInv, Typed, layer, gate, ids, ring, threads, env
<1>1. Typed'
  <2>1. LayerTyped' /\ GateTyped'
    BY DEF LayerTyped, GateTyped
  <2>2. RingTyped'
    BY DEF RingTyped
  <2>3. ThreadsTyped'
    BY DEF ThreadsTyped, RsType, Holding
  <2>4. EnvTyped'
    BY DEF EnvTyped
  <2> QED BY <2>1, <2>2, <2>3, <2>4
<1>2. Entered' = Entered /\ InReset' = InReset
  BY DEF Entered, InReset, LayerTyped, ThreadsTyped
<1>3. Counted'
  BY <1>2 DEF Counted, Holding, LayerTyped, ThreadsTyped, Staged
<1>4. Staged' /\ Unused' /\ Carries'
  BY DEF Staged, Unused, Carries, LayerTyped, RingTyped, ThreadsTyped, EnvTyped
<1> QED BY <1>1, <1>3, <1>4

LEMMA QSignal ==
    ASSUME QInv, NEW h \in Resetters, Signal(h)
    PROVE  QInv'
<1> USE DEF Signal, QInv, Typed, layer, gate, ids, ring, threads, env
<1>1. Typed'
  <2>1. LayerTyped' /\ GateTyped'
    BY DEF LayerTyped, GateTyped
  <2>2. RingTyped'
    BY DEF RingTyped
  <2>3. ThreadsTyped'
    BY DEF ThreadsTyped, RsType, Holding
  <2>4. EnvTyped'
    BY DEF EnvTyped
  <2> QED BY <2>1, <2>2, <2>3, <2>4
<1>2. Entered' = Entered /\ InReset' = InReset
  BY DEF Entered, InReset, LayerTyped, ThreadsTyped, RsType
<1>3. Counted'
  BY <1>2 DEF Counted, Holding, LayerTyped, ThreadsTyped, Staged, RsType
<1>4. Staged' /\ Unused' /\ Carries'
  BY DEF Staged, Unused, Carries, LayerTyped, RingTyped, ThreadsTyped, EnvTyped
<1> QED BY <1>1, <1>3, <1>4

LEMMA QResetWaits ==
    ASSUME QInv, NEW h \in Resetters, ResetWaits(h)
    PROVE  QInv'
<1> USE DEF ResetWaits, QInv, Typed, layer, gate, ids, ring, threads, env
<1>1. Typed'
  <2>1. LayerTyped' /\ GateTyped'
    BY DEF LayerTyped, GateTyped, Looks
  <2>2. RingTyped'
    BY DEF RingTyped, Looks
  <2>3. ThreadsTyped'
    BY DEF ThreadsTyped, RsType, Holding, Looks
  <2>4. EnvTyped'
    BY DEF EnvTyped, Looks
  <2> QED BY <2>1, <2>2, <2>3, <2>4
<1>2. Entered' = Entered /\ InReset' = InReset
  BY DEF Looks, Entered, InReset, LayerTyped, ThreadsTyped
<1>3. Counted'
  BY <1>2 DEF Counted, Holding, LayerTyped, ThreadsTyped, Staged
<1>4. Staged' /\ Unused' /\ Carries'
  BY DEF Looks, Staged, Unused, Carries, LayerTyped, RingTyped, ThreadsTyped, EnvTyped
<1> QED BY <1>1, <1>3, <1>4

LEMMA QResetFails ==
    ASSUME QInv, NEW h \in Resetters, ResetFails(h)
    PROVE  QInv'
<1> USE DEF ResetFails, QInv, Typed, layer, gate, ids, ring, threads, env
<1>1. Typed'
  <2>1. LayerTyped' /\ GateTyped'
    BY DEF LayerTyped, GateTyped, Looks
  <2>2. RingTyped'
    BY DEF RingTyped, Looks
  <2>3. ThreadsTyped'
    BY DEF ThreadsTyped, RsType, Holding, Looks
  <2>4. EnvTyped'
    BY DEF EnvTyped, Looks
  <2> QED BY <2>1, <2>2, <2>3, <2>4
<1>2. Entered' = Entered /\ InReset' = InReset
  BY DEF Looks, Entered, InReset, LayerTyped, ThreadsTyped
<1>3. Counted'
  BY <1>2 DEF Counted, Holding, LayerTyped, ThreadsTyped, Staged
<1>4. Staged' /\ Unused' /\ Carries'
  BY DEF Looks, Staged, Unused, Carries, LayerTyped, RingTyped, ThreadsTyped, EnvTyped
<1> QED BY <1>1, <1>3, <1>4

LEMMA QResetSends ==
    ASSUME QHyp, QInv, NEW h \in Resetters, ResetSends(h)
    PROVE  QInv'
<1> USE DEF ResetSends, QInv, Typed, layer, gate, ids, ring, threads, env
<1>0. \A d \in Cmds : at[d] # "reading"
  BY DEF QHyp, Calm, Apart
<1>a. /\ RingTyped' /\ Head(idle) \in Ids
      /\ shadow'[Head(idle)] = [busy |-> TRUE, act |-> "reset", cmd |-> NoCmd, wait |-> FALSE,
                                rslt |-> "none"]
      /\ \A i \in Ids : i # Head(idle) => shadow'[i] = shadow[i]
  BY PushTyped
<1>1. Typed'
  BY <1>a DEF LayerTyped, GateTyped, ThreadsTyped, EnvTyped, Holding, RsType
<1>2. Cardinality(InReset') = Cardinality(InReset) + 1 /\ Entered' = Entered
  BY CountSends DEF Looks, Holding, ThreadsTyped
<1>3. Counted'
  <2>1. xb \in {"idle", "suspending"}
    BY DEF Looks, Staged, Unused, EnvTyped
  <2> QED BY <1>0, <1>2, <2>1, Finite DEF Counted, Holding, GateTyped
<1>4. Staged' /\ Unused'
  BY DEF Staged, Unused, Looks
<1>5. Carries'
  <2>1. \A i \in Ids : shadow'[i].cmd \in {shadow[i].cmd, NoCmd}
    BY <1>a
  <2> QED BY <2>1 DEF Carries
<1> QED BY <1>1, <1>3, <1>4, <1>5

LEMMA QResetCollects ==
    ASSUME QHyp, QInv, NEW h \in Resetters, ResetCollects(h)
    PROVE  QInv'
<1> USE DEF ResetCollects, QInv, Typed, layer, gate, ids, ring, threads, env
<1>0. /\ \A d \in Cmds : at[d] # "reading"
      /\ Holding(h) /\ rs[h].id \in Ids
      /\ rs' = [rs EXCEPT ![h] = rs'[h]] /\ rs'[h].pc = "returned"
  BY DEF QHyp, Calm, Apart, Holding, ThreadsTyped
<1>a. /\ idle' \in Seq(Ids) /\ shadow' \in [Ids -> ShadowType]
      /\ \A i \in Ids : shadow'[i].cmd \in {shadow[i].cmd, NoCmd}
  <2>1. /\ idle' \in Seq(Ids) /\ shadow' \in [Ids -> ShadowType]
        /\ shadow'[rs[h].id] = Empty
        /\ \A i \in Ids : i # rs[h].id => shadow'[i] = shadow[i]
    BY <1>0, FreeTyped DEF RingTyped
  <2> QED BY <2>1 DEF Empty
<1>1. Typed'
  BY <1>0, <1>a DEF Return, LayerTyped, GateTyped, RingTyped, ThreadsTyped, EnvTyped, Holding,
                    RsType
<1>2. Cardinality(InReset') = Cardinality(InReset) - 1 /\ Entered' = Entered
  BY <1>0, CountReturns
<1>3. Counted'
  BY <1>0, <1>2, Finite DEF Return, Counted, Holding, ThreadsTyped, GateTyped
<1>4. Staged' /\ Unused'
  BY DEF Staged, Unused, ThreadsTyped
<1>5. Carries'
  BY <1>a DEF Carries
<1> QED BY <1>1, <1>3, <1>4, <1>5

LEMMA QResetAbandons ==
    ASSUME QHyp, QInv, NEW h \in Resetters, ResetAbandons(h)
    PROVE  QInv'
<1> USE DEF ResetAbandons, QInv, Typed, layer, gate, ids, ring, threads, env
<1>0. /\ \A d \in Cmds : at[d] # "reading"
      /\ Holding(h) /\ rs[h].id \in Ids
      /\ rs' = [rs EXCEPT ![h] = rs'[h]] /\ rs'[h].pc = "returned"
  BY DEF QHyp, Calm, Apart, Holding, ThreadsTyped
<1>a. /\ idle' \in Seq(Ids) /\ shadow' \in [Ids -> ShadowType]
      /\ \A i \in Ids : shadow'[i].cmd \in {shadow[i].cmd, NoCmd}
  <2>1. shadow[rs[h].id] \in ShadowType
    BY <1>0 DEF RingTyped
  <2>2. /\ shadow' \in [Ids -> ShadowType]
        /\ \A i \in Ids : shadow'[i].cmd = shadow[i].cmd
    BY <1>0, <2>1 DEF RingTyped, ShadowType
  <2> QED BY <2>2 DEF RingTyped
<1>1. Typed'
  BY <1>0, <1>a DEF Return, LayerTyped, GateTyped, RingTyped, ThreadsTyped, EnvTyped, Holding,
                    RsType
<1>2. Cardinality(InReset') = Cardinality(InReset) - 1 /\ Entered' = Entered
  BY <1>0, CountReturns
<1>3. Counted'
  BY <1>0, <1>2, Finite DEF Return, Counted, Holding, ThreadsTyped, GateTyped
<1>4. Staged' /\ Unused'
  BY DEF Staged, Unused, ThreadsTyped
<1>5. Carries'
  BY <1>a DEF Carries
<1> QED BY <1>1, <1>3, <1>4, <1>5

LEMMA QResetReturns ==
    ASSUME QInv, NEW h \in Resetters, ResetReturns(h)
    PROVE  QInv'
<1> USE DEF ResetReturns, QInv, Typed, layer, gate, ids, ring, threads, env
<1>1. Typed'
  <2>1. LayerTyped' /\ GateTyped'
    BY DEF LayerTyped, GateTyped
  <2>2. RingTyped'
    BY DEF RingTyped
  <2>3. ThreadsTyped'
    BY DEF ThreadsTyped, RsType, Holding
  <2>4. EnvTyped'
    BY DEF EnvTyped
  <2> QED BY <2>1, <2>2, <2>3, <2>4
<1>2. Entered' = Entered /\ InReset' = InReset
  BY DEF Entered, InReset, LayerTyped, ThreadsTyped, RsType
<1>3. Counted'
  BY <1>2 DEF Counted, Holding, LayerTyped, ThreadsTyped, Staged, RsType
<1>4. Staged' /\ Unused' /\ Carries'
  BY DEF Staged, Unused, Carries, LayerTyped, RingTyped, ThreadsTyped, EnvTyped
<1> QED BY <1>1, <1>3, <1>4

LEMMA QFirstRing ==
    ASSUME QInv, FirstRing
    PROVE  QInv'
<1> USE DEF FirstRing, QInv, Typed, layer, gate, ids, ring, threads, env
<1>0. /\ RingTyped' /\ size' # 0 /\ xb' = "initialised"
      /\ \A i \in Ids : shadow'[i].cmd = NoCmd
  BY NewRingTyped DEF Empty, NewRing
<1>1. Typed'
  BY <1>0 DEF NewRing, LayerTyped, GateTyped, ThreadsTyped, EnvTyped, Holding
<1>2. Entered' = Entered /\ InReset' = InReset
  BY DEF Entered, InReset, LayerTyped, ThreadsTyped
<1>3. Counted'
  BY <1>0, <1>2 DEF Counted, Holding
<1>4. Staged' /\ Unused' /\ Carries'
  BY <1>0 DEF Staged, Unused, Carries
<1> QED BY <1>1, <1>3, <1>4

LEMMA QConnect ==
    ASSUME QInv, Connect
    PROVE  QInv'
<1> USE DEF Connect, QInv, Typed, layer, gate, ids, ring, threads, env
<1>1. Typed'
  <2>1. LayerTyped' /\ GateTyped'
    BY DEF LayerTyped, GateTyped
  <2>2. RingTyped'
    BY DEF RingTyped
  <2>3. ThreadsTyped'
    BY DEF ThreadsTyped, RsType, Holding
  <2>4. EnvTyped'
    BY DEF EnvTyped
  <2> QED BY <2>1, <2>2, <2>3, <2>4
<1>2. Entered' = Entered /\ InReset' = InReset
  BY DEF Entered, InReset, LayerTyped, ThreadsTyped
<1>3. Counted'
  BY <1>2, <1>1 DEF Counted, Holding, LayerTyped, ThreadsTyped, Staged
<1>4. Staged' /\ Unused' /\ Carries'
  BY DEF Staged, Unused, Carries, LayerTyped, RingTyped, ThreadsTyped, EnvTyped
<1> QED BY <1>1, <1>3, <1>4

LEMMA QReconfigured ==
    ASSUME QHyp, QInv, Reconfigured
    PROVE  QInv'
<1> USE DEF Reconfigured, QInv, Typed, layer, gate, ids, ring, threads, env
<1>1. Typed'
  <2>1. LayerTyped' /\ GateTyped'
    BY DEF LayerTyped, GateTyped
  <2>2. RingTyped'
    BY DEF RingTyped
  <2>3. ThreadsTyped'
    BY DEF ThreadsTyped, RsType, Holding
  <2>4. EnvTyped'
    BY DEF EnvTyped
  <2> QED BY <2>1, <2>2, <2>3, <2>4
<1>2. Entered' = Entered /\ InReset' = InReset
  BY DEF Entered, InReset, LayerTyped, ThreadsTyped
<1>3. Counted'
  BY <1>2 DEF Counted, Holding, LayerTyped, ThreadsTyped, Staged
<1>4. Staged' /\ Unused' /\ Carries'
  BY DEF QHyp, Apart, Staged, Unused, Carries, LayerTyped, RingTyped, ThreadsTyped, EnvTyped
<1> QED BY <1>1, <1>3, <1>4

LEMMA QSuspend ==
    ASSUME QHyp, QInv, Suspend
    PROVE  QInv'
<1> USE DEF Suspend, QInv, Typed, layer, gate, ids, ring, threads, env
<1>0. \A d \in Cmds : at[d] # "reading"
  BY DEF QHyp, Calm, Apart
<1>a. xb = "idle"
  BY DEF QHyp, Apart
<1>b. callers = 0 => Entered = {} /\ InReset = {}
  BY Finite, FS_EmptySet DEF Counted
<1>1. Typed'
  <2>1. LayerTyped' /\ GateTyped'
    BY DEF LayerTyped, GateTyped, WaitsForCallers
  <2>2. RingTyped'
    BY DEF RingTyped, WaitsForCallers
  <2>3. ThreadsTyped'
    BY DEF ThreadsTyped, RsType, Holding, WaitsForCallers
  <2>4. EnvTyped'
    BY DEF EnvTyped, WaitsForCallers
  <2> QED BY <2>1, <2>2, <2>3, <2>4
<1>2. Entered' = Entered /\ InReset' = InReset
  BY DEF WaitsForCallers, Entered, InReset, LayerTyped, ThreadsTyped
<1>3. Counted'
  BY <1>2, <1>0, <1>a, <1>b
  DEF WaitsForCallers, Entered, InReset, Counted, Holding, LayerTyped, ThreadsTyped, Staged
<1>4. Staged' /\ Unused' /\ Carries'
  BY <1>a
  DEF WaitsForCallers, Staged, Unused, Carries, LayerTyped, RingTyped, ThreadsTyped, EnvTyped
<1> QED BY <1>1, <1>3, <1>4

LEMMA QSuspendWakes ==
    ASSUME QInv, SuspendWakes
    PROVE  QInv'
<1> USE DEF SuspendWakes, QInv, Typed, layer, gate, ids, ring, threads, env
<1>b. callers = 0 => Entered = {} /\ InReset = {}
  BY Finite, FS_EmptySet DEF Counted
<1>1. Typed'
  <2>1. LayerTyped' /\ GateTyped'
    BY DEF LayerTyped, GateTyped, WaitsForCallers
  <2>2. RingTyped'
    BY DEF RingTyped, WaitsForCallers
  <2>3. ThreadsTyped'
    BY DEF ThreadsTyped, RsType, Holding, WaitsForCallers
  <2>4. EnvTyped'
    BY DEF EnvTyped, WaitsForCallers
  <2> QED BY <2>1, <2>2, <2>3, <2>4
<1>2. Entered' = Entered /\ InReset' = InReset
  BY DEF WaitsForCallers, Entered, InReset, LayerTyped, ThreadsTyped
<1>3. Counted'
  BY <1>2, <1>b
  DEF WaitsForCallers, Entered, InReset, Counted, Holding, LayerTyped, ThreadsTyped, Staged
<1>4. Staged' /\ Unused' /\ Carries'
  BY DEF WaitsForCallers, Staged, Unused, Carries, LayerTyped, RingTyped, ThreadsTyped, EnvTyped
<1> QED BY <1>1, <1>3, <1>4

LEMMA QSuspendCancel ==
    ASSUME QInv, SuspendCancel
    PROVE  QInv'
<1> USE DEF SuspendCancel, QInv, Typed, layer, gate, ids, ring, threads, env
<1>1. Typed'
  BY ZenonT(60) DEF LayerTyped, GateTyped, RingTyped, ThreadsTyped, EnvTyped, Holding
<1>2. Entered' = Entered /\ InReset' = InReset
  BY DEF Entered, InReset, LayerTyped, ThreadsTyped
<1>3. Counted'
  BY <1>2 DEF Counted, Holding, LayerTyped, ThreadsTyped, Staged
<1>4. Staged' /\ Unused' /\ Carries'
  BY DEF Staged, Unused, Carries, LayerTyped, RingTyped, ThreadsTyped, EnvTyped
<1> QED BY <1>1, <1>3, <1>4

LEMMA QMigrate ==
    ASSUME QInv, NEW k \in Hosts, Migrate(k)
    PROVE  QInv'
<1> USE DEF Migrate, QInv, Typed, layer, gate, ids, ring, threads, env
<1>1. Typed'
  BY ZenonT(60) DEF LayerTyped, GateTyped, RingTyped, ThreadsTyped, EnvTyped, Holding
<1>2. Entered' = Entered /\ InReset' = InReset
  BY DEF Entered, InReset, LayerTyped, ThreadsTyped
<1>3. Counted'
  BY <1>2 DEF Counted, Holding, LayerTyped, ThreadsTyped, Staged
<1>4. Staged' /\ Unused' /\ Carries'
  BY DEF Staged, Unused, Carries, LayerTyped, RingTyped, ThreadsTyped, EnvTyped
<1> QED BY <1>1, <1>3, <1>4

LEMMA QResume ==
    ASSUME QHyp, QInv, Resume
    PROVE  QInv'
<1> USE DEF Resume, QInv, Typed, layer, gate, ids, ring, threads, env
<1>1. Typed'
  BY DEF LayerTyped, GateTyped, RingTyped, ThreadsTyped, EnvTyped, Holding
<1>2. Entered' = Entered /\ InReset' = InReset
  BY DEF Entered, InReset, LayerTyped, ThreadsTyped
<1>3. Counted'
  BY <1>2 DEF Counted, Holding, LayerTyped, ThreadsTyped, Staged
<1>4. Staged' /\ Unused' /\ Carries'
  BY DEF QHyp, Apart, Staged, Unused, Carries, LayerTyped, RingTyped, ThreadsTyped, EnvTyped
<1> QED BY <1>1, <1>3, <1>4

LEMMA QFinishOne ==
    ASSUME QInv, FinishOne
    PROVE  QInv'
<1> USE DEF FinishOne, QInv, Typed, layer, gate, ids, ring, threads, env
<1>1. /\ LayerTyped' /\ RingTyped' /\ Carries'
      /\ Entered' = Entered /\ InReset' = InReset
      /\ \A c \in Cmds : at'[c] # at[c] => at[c] = "driver" /\ at'[c] = "layer"
      /\ \A c \in Cmds : result'[c] # result[c] => at[c] = "driver"
  BY DoResponseQ DEF RingTyped
<1>2. Typed'
  BY <1>1 DEF GateTyped, ThreadsTyped, EnvTyped, Holding
<1>3. Counted'
  BY <1>1 DEF Counted, Holding
<1>4. Staged' /\ Unused'
  BY <1>1 DEF Staged, Unused
<1> QED BY <1>1, <1>2, <1>3, <1>4

LEMMA QFinishEnds ==
    ASSUME QInv, FinishEnds
    PROVE  QInv'
<1> USE DEF FinishEnds, QInv, Typed, layer, gate, ids, ring, threads, env
<1>1. Typed'
  BY DEF LayerTyped, GateTyped, RingTyped, ThreadsTyped, EnvTyped, Holding
<1>2. Entered' = Entered /\ InReset' = InReset
  BY DEF Entered, InReset, LayerTyped, ThreadsTyped
<1>3. Counted'
  BY <1>2 DEF Counted, Holding, LayerTyped, ThreadsTyped, Staged
<1>4. Staged' /\ Unused' /\ Carries'
  BY DEF Staged, Unused, Carries, LayerTyped, RingTyped, ThreadsTyped, EnvTyped
<1> QED BY <1>1, <1>3, <1>4

LEMMA QResumeRing ==
    ASSUME QInv, ResumeRing
    PROVE  QInv'
<1> USE DEF ResumeRing, QInv, Typed, layer, gate, ids, ring, threads, env
<1>0. /\ RingTyped' /\ size' # 0 /\ xb' = "initialised"
      /\ \A i \in Ids : shadow'[i].cmd = NoCmd
  BY NewRingTyped DEF Empty, NewRing
<1>1. Typed'
  BY <1>0 DEF NewRing, LayerTyped, GateTyped, ThreadsTyped, EnvTyped, Holding
<1>2. Entered' = Entered /\ InReset' = InReset
  BY DEF Entered, InReset, LayerTyped, ThreadsTyped
<1>3. Counted'
  BY <1>0, <1>2 DEF Counted, Holding
<1>4. Staged' /\ Unused' /\ Carries'
  BY <1>0 DEF Staged, Unused, Carries
<1> QED BY <1>1, <1>3, <1>4

LEMMA QBackendReady ==
    ASSUME QInv, BackendReady
    PROVE  QInv'
<1> USE DEF BackendReady, QInv, Typed, layer, gate, ids, ring, threads, env
<1>1. Typed'
  <2>1. LayerTyped' /\ GateTyped'
    BY DEF LayerTyped, GateTyped
  <2>2. RingTyped'
    BY DEF RingTyped
  <2>3. ThreadsTyped'
    BY DEF ThreadsTyped, RsType, Holding
  <2>4. EnvTyped'
    BY DEF EnvTyped
  <2> QED BY <2>1, <2>2, <2>3, <2>4
<1>2. Entered' = Entered /\ InReset' = InReset
  BY DEF Entered, InReset, LayerTyped, ThreadsTyped
<1>3. Counted'
  BY <1>2 DEF Counted, Holding, LayerTyped, ThreadsTyped, Staged
<1>4. Staged' /\ Unused' /\ Carries'
  BY DEF Staged, Unused, Carries, LayerTyped, RingTyped, ThreadsTyped, EnvTyped
<1> QED BY <1>1, <1>3, <1>4

LEMMA QBackendConnects ==
    ASSUME QInv, BackendConnects
    PROVE  QInv'
<1> USE DEF BackendConnects, QInv, Typed, layer, gate, ids, ring, threads, env
<1>1. Typed'
  <2>1. LayerTyped' /\ GateTyped'
    BY DEF LayerTyped, GateTyped
  <2>2. RingTyped'
    BY DEF RingTyped
  <2>3. ThreadsTyped'
    BY DEF ThreadsTyped, RsType, Holding
  <2>4. EnvTyped'
    BY DEF EnvTyped
  <2> QED BY <2>1, <2>2, <2>3, <2>4
<1>2. Entered' = Entered /\ InReset' = InReset
  BY DEF Entered, InReset, LayerTyped, ThreadsTyped
<1>3. Counted'
  BY <1>2 DEF Counted, Holding, LayerTyped, ThreadsTyped, Staged
<1>4. Staged' /\ Unused' /\ Carries'
  BY DEF Staged, Unused, Carries, LayerTyped, RingTyped, ThreadsTyped, EnvTyped
<1> QED BY <1>1, <1>3, <1>4

LEMMA QServe ==
    ASSUME QInv, NEW m \in sent, NEW ok \in BOOLEAN, Serve(m, ok)
    PROVE  QInv'
<1> USE DEF Serve, QInv, Typed, layer, gate, ids, ring, threads, env
<1>0. RingTyped'
  <2>1. [id |-> m.id, ok |-> ok] \in AnswerType
    BY DEF RingTyped, SentType, AnswerType
  <2>2. IsFiniteSet(sent')
    BY FS_RemoveElement, Zenon DEF RingTyped
  <2>3. answers' \in Seq(AnswerType)
    BY <2>1 DEF RingTyped
  <2>4. event' \in BOOLEAN /\ asked' \in BOOLEAN /\ sent' \subseteq SentType
    BY DEF RingTyped
  <2> QED BY <2>2, <2>3, <2>4 DEF RingTyped
<1>1. Typed'
  BY <1>0 DEF LayerTyped, GateTyped, ThreadsTyped, EnvTyped, Holding
<1>2. Entered' = Entered /\ InReset' = InReset
  BY DEF Entered, InReset, LayerTyped, ThreadsTyped
<1>3. Counted'
  BY <1>2 DEF Counted, Holding, LayerTyped, ThreadsTyped, Staged
<1>4. Staged' /\ Unused' /\ Carries'
  BY DEF Staged, Unused, Carries, LayerTyped, RingTyped, ThreadsTyped, EnvTyped
<1> QED BY <1>1, <1>3, <1>4
LEMMA QNext ==
    ASSUME QHyp, QInv, [Next]_vars
    PROVE  QInv'
<1>1. ASSUME NEW c \in Cmds, Submit(c) \/ Command(c) \/ Expire(c)
      PROVE  QInv'
  BY <1>1, QSubmit, QEnterReads, QEnterWrites, QQueueBusy, QQueueError, QQueueCommand, QExpire,
     Zenon
     DEF Command
<1>2. CASE Interrupt \/ WorkerWakes \/ WorkerLocks \/ Handle \/ WorkerEnds
  BY <1>2, QInterrupt, QWorkerWakes, QWorkerLocks, QHandle, QWorkerEnds, Zenon
<1>3. ASSUME NEW h \in Resetters, ResetCall(h) \/ Signal(h) \/ Reset(h)
      PROVE  QInv'
  BY <1>3, QResetCall, QSignal, QResetWaits, QResetFails, QResetSends, QResetCollects,
     QResetAbandons, QResetReturns, Zenon
     DEF Reset
<1>4. CASE FirstRing \/ Connect \/ Reconfigured \/ Suspend \/ SuspendWakes \/ SuspendCancel
  BY <1>4, QFirstRing, QConnect, QReconfigured, QSuspend, QSuspendWakes, QSuspendCancel, Zenon
<1>5. ASSUME NEW k \in Hosts, Migrate(k)
      PROVE  QInv'
  BY <1>5, QMigrate
<1>6. CASE Resume \/ Finish \/ BackendReady \/ BackendConnects
  BY <1>6, QResume, QFinishOne, QFinishEnds, QResumeRing, QBackendReady, QBackendConnects, Zenon
     DEF Finish
<1>7. ASSUME NEW m \in sent, NEW ok \in BOOLEAN, Serve(m, ok)
      PROVE  QInv'
  BY <1>7, QServe
<1>8. CASE UNCHANGED vars
  <2> USE <1>8 DEF vars, QInv, Typed, layer, gate, ids, ring, threads, env
  <2>1. LayerTyped' /\ GateTyped' /\ RingTyped'
    BY DEF LayerTyped, GateTyped, RingTyped
  <2>2. ThreadsTyped' /\ EnvTyped'
    BY DEF ThreadsTyped, EnvTyped, Holding
  <2>3. Entered' = Entered /\ InReset' = InReset
    BY DEF Entered, InReset
  <2>4. Counted'
    BY <2>3 DEF Counted, Holding
  <2>5. Staged' /\ Unused' /\ Carries'
    BY DEF Staged, Unused, Carries
  <2> QED BY <2>1, <2>2, <2>4, <2>5
<1> QED BY <1>1, <1>2, <1>3, <1>4, <1>5, <1>6, <1>7, <1>8, Zenon DEF Next

LEMMA QInit ==
    ASSUME Init
    PROVE  QInv
<1> USE DEF Init
<1>1. Entered = {} /\ InReset = {}
  BY DEF Entered, InReset
<1>2. LayerTyped /\ GateTyped /\ ThreadsTyped /\ EnvTyped
  <2>1. LayerTyped /\ GateTyped
    <3>1. result \in [Cmds -> {"new", "pending", "ok", "error", "again"}]
      OBVIOUS
    <3>2. at \in [Cmds -> {"layer", "reading", "entered", "driver"}]
      OBVIOUS
    <3>3. seen \in [Cmds -> Int] /\ callers \in Int /\ expired = {}
      OBVIOUS
    <3> QED BY <3>1, <3>2, <3>3 DEF LayerTyped, GateTyped
  <2>2. [pc |-> "idle", id |-> NoId] \in RsType
    BY DEF RsType
  <2>3. ThreadsTyped
    BY <2>2 DEF ThreadsTyped, Holding
  <2>4. EnvTyped
    BY DEF EnvTyped
  <2> QED BY <2>1, <2>3, <2>4
<1>3. RingTyped
  <2>1. Empty \in ShadowType
    BY DEF ShadowType, Empty
  <2>2. IsFiniteSet(sent)
    BY FS_EmptySet
  <2>3. idle \in Seq(Ids) /\ answers \in Seq(AnswerType)
    OBVIOUS
  <2> QED BY <2>1, <2>2, <2>3 DEF RingTyped
<1>4. Counted
  BY <1>1, FS_EmptySet DEF Counted, Holding
<1>5. Staged /\ Unused /\ Carries
  BY DEF Staged, Unused, Carries, Empty
<1> QED BY <1>2, <1>3, <1>4, <1>5 DEF QInv, Typed

LEMMA QuietFollows ==
    ASSUME QInv
    PROVE  Quiet
<1> USE DEF QInv, Typed
<1>1. callers = Cardinality(Entered) + Cardinality(InReset) /\ callers \in Nat
  BY Finite DEF Counted
<1>2. Types
  BY <1>1 DEF Types, LayerTyped, GateTyped, RingTyped, ThreadsTyped, Staged
<1>3. xb \notin {"idle", "suspending"} => InReset = {}
  BY DEF Counted, InReset, Holding
<1> QED BY <1>1, <1>2, <1>3 DEF Quiet, Counted, Staged

(* Quiet, of scsifront_enter, scsifront_return and scsifront_suspend: for  *)
(* any number of commands, resets, hosts and suspends, when nobody changes *)
(* callers under scsifront_enter, the worker has no work left at a resume, *)
(* and the backend is not Connected anew before the device is.             *)
THEOREM QuietHolds ==
    ASSUME When \cap {"entering", "worker", "hotplug", "reconnecting"} = {}
    PROVE  Spec => []Quiet
<1>1. QHyp
  BY DEF QHyp
<1>2. Init => QInv
  BY QInit
<1>3. QInv /\ [Next]_vars => QInv'
  BY <1>1, QNext
<1>4. QInv => Quiet
  BY QuietFollows
<1> QED BY <1>2, <1>3, <1>4, PTL DEF Spec
-----------------------------------------------------------------------------
(* The encounters that IdsKept has to do without, but for "collect".       *)
IHyp == QHyp /\ "signal" \notin When

LEMMA TailFree ==
    ASSUME NEW q \in Seq(Ids), q # <<>>, IsInjective(q)
    PROVE  /\ IsInjective(Tail(q)) /\ Head(q) \in Range(q)
           /\ Range(Tail(q)) = Range(q) \ {Head(q)}
<1>1. /\ Head(q) = q[1] /\ Len(q) \in Nat /\ Len(q) >= 1
      /\ DOMAIN q = 1 .. Len(q) /\ DOMAIN Tail(q) = 1 .. Len(q) - 1
      /\ \A k \in 1 .. Len(q) - 1 : Tail(q)[k] = q[k + 1]
  BY TailTyped
<1>2. IsInjective(Tail(q))
  BY <1>1 DEF IsInjective
<1>3. ASSUME NEW x \in Range(Tail(q)) PROVE x \in Range(q) \ {Head(q)}
  <2>1. PICK k \in 1 .. Len(q) - 1 : x = q[k + 1]
    BY <1>1, <1>3 DEF Range
  <2>2. k + 1 \in DOMAIN q /\ 1 \in DOMAIN q /\ k + 1 # 1
    BY <1>1
  <2> QED BY <1>1, <2>1, <2>2 DEF Range, IsInjective
<1>4. ASSUME NEW x \in Range(q), x # Head(q) PROVE x \in Range(Tail(q))
  <2>1. PICK k \in 1 .. Len(q) : x = q[k]
    BY <1>1 DEF Range
  <2>2. k - 1 \in 1 .. Len(q) - 1 /\ Tail(q)[k - 1] = q[k]
    BY <1>1, <1>4, <2>1
  <2> QED BY <1>1, <2>1, <2>2 DEF Range
<1> QED BY <1>1, <1>2, <1>3, <1>4 DEF Range

LEMMA ConsFree ==
    ASSUME NEW q \in Seq(Ids), NEW i \in Ids, i \notin Range(q), IsInjective(q)
    PROVE  /\ IsInjective(<<i>> \o q) /\ Range(<<i>> \o q) = Range(q) \cup {i}
<1> DEFINE p == <<i>> \o q
<1>1. /\ p \in Seq(Ids) /\ Len(p) = Len(q) + 1 /\ p[1] = i
      /\ \A k \in 2 .. Len(q) + 1 : p[k] = q[k - 1]
  BY ConsTyped
<1>2. /\ Len(q) \in Nat /\ DOMAIN q = 1 .. Len(q) /\ DOMAIN p = 1 .. Len(q) + 1
  BY <1>1
<1> HIDE DEF p
<1>3. \A k \in DOMAIN p : k = 1 \/ (k \in 2 .. Len(q) + 1 /\ k - 1 \in DOMAIN q)
  BY <1>2
<1>4. \A k \in DOMAIN p : k # 1 => p[k] \in Range(q)
  BY <1>1, <1>3 DEF Range
<1>5. ASSUME NEW k \in DOMAIN p, NEW l \in DOMAIN p, p[k] = p[l] PROVE k = l
  <2>1. CASE k = 1 \/ l = 1
    BY <2>1, <1>1, <1>4, <1>5
  <2>2. CASE k # 1 /\ l # 1
    <3>1. q[k - 1] = q[l - 1] /\ k - 1 \in DOMAIN q /\ l - 1 \in DOMAIN q
      BY <2>2, <1>1, <1>3, <1>5
    <3>2. k - 1 = l - 1
      BY <3>1 DEF IsInjective
    <3> QED BY <3>2, <1>2
  <2> QED BY <2>1, <2>2
<1>6. \A k \in DOMAIN q : k + 1 \in DOMAIN p /\ p[k + 1] = q[k]
  BY <1>1, <1>2
<1>7. Range(q) \subseteq Range(p) /\ i \in Range(p)
  <2>1. 1 \in DOMAIN p
    BY <1>2
  <2> QED BY <2>1, <1>1, <1>6 DEF Range
<1>8. Range(p) \subseteq Range(q) \cup {i}
  BY <1>1, <1>4 DEF Range
<1>9. IsInjective(p)
  BY <1>5 DEF IsInjective
<1> QED BY <1>7, <1>8, <1>9 DEF p

(* A step that neither takes nor frees an id.                              *)
LEMMA ISame ==
    ASSUME QInv, IInv, UNCHANGED <<idle, shadow, size, sent, answers>>,
           \A c \in Cmds : at'[c] = "driver" => at[c] = "driver",
           \A h \in Resetters : Holding(h)' <=> Holding(h),
           \A h \in Resetters : Holding(h) => rs'[h] = rs[h],
           lock' = "none" \/ \A h \in Resetters : rs[h].pc # "signalled",
           xb' \notin {"finish", "free"} => xb \notin {"finish", "free"},
           xb' = "free" => \A i \in Ids : ~shadow[i].busy
    PROVE  IInv'
<1> USE DEF IInv
<1>1. Used'
  BY DEF Used, IdOk, Uses
<1>2. Free'
  BY DEF Free
<1>3. Held'
  BY DEF Held, HeldOk, Holding
<1>4. OnRing'
  BY DEF OnRing, SentOk, Answered
<1> QED BY <1>1, <1>2, <1>3, <1>4
LEMMA ISubmit ==
    ASSUME IHyp, QInv, QInv', IInv, NEW c \in Cmds, Submit(c)
    PROVE  IInv'
<1> USE DEF Submit, layer, gate, ids, ring, threads, env
<1>1. /\ UNCHANGED <<idle, shadow, size, sent, answers>>
      /\ \A d \in Cmds : at'[d] = "driver" => at[d] = "driver"
  BY DEF QInv, Typed, LayerTyped
<1>2. \A g \in Resetters : (Holding(g)' <=> Holding(g)) /\ (Holding(g) => rs'[g] = rs[g])
  BY DEF Holding, QInv, Typed, ThreadsTyped, RsType
<1>3. /\ lock' = "none" \/ \A g \in Resetters : rs[g].pc # "signalled"
      /\ xb' \notin {"finish", "free"} => xb \notin {"finish", "free"}
      /\ xb' = "free" => \A i \in Ids : ~shadow[i].busy
  BY DEF IInv, Held, HeldOk, Holding, OnRing, QInv, Counted, Staged
<1> QED BY <1>1, <1>2, <1>3, ISame

LEMMA IEnterReads ==
    ASSUME IHyp, QInv, QInv', IInv, NEW c \in Cmds, EnterReads(c)
    PROVE  IInv'
<1> USE DEF EnterReads, layer, gate, ids, ring, threads, env
<1>1. /\ UNCHANGED <<idle, shadow, size, sent, answers>>
      /\ \A d \in Cmds : at'[d] = "driver" => at[d] = "driver"
  BY DEF QInv, Typed, LayerTyped
<1>2. \A g \in Resetters : (Holding(g)' <=> Holding(g)) /\ (Holding(g) => rs'[g] = rs[g])
  BY DEF Holding, QInv, Typed, ThreadsTyped, RsType
<1>3. /\ lock' = "none" \/ \A g \in Resetters : rs[g].pc # "signalled"
      /\ xb' \notin {"finish", "free"} => xb \notin {"finish", "free"}
      /\ xb' = "free" => \A i \in Ids : ~shadow[i].busy
  BY DEF IInv, Held, HeldOk, Holding, OnRing, QInv, Counted, Staged
<1> QED BY <1>1, <1>2, <1>3, ISame

LEMMA IEnterWrites ==
    ASSUME IHyp, QInv, QInv', IInv, NEW c \in Cmds, EnterWrites(c)
    PROVE  IInv'
<1> USE DEF EnterWrites, layer, gate, ids, ring, threads, env
<1>1. /\ UNCHANGED <<idle, shadow, size, sent, answers>>
      /\ \A d \in Cmds : at'[d] = "driver" => at[d] = "driver"
  BY DEF QInv, Typed, LayerTyped
<1>2. \A g \in Resetters : (Holding(g)' <=> Holding(g)) /\ (Holding(g) => rs'[g] = rs[g])
  BY DEF Holding, QInv, Typed, ThreadsTyped, RsType
<1>3. /\ lock' = "none" \/ \A g \in Resetters : rs[g].pc # "signalled"
      /\ xb' \notin {"finish", "free"} => xb \notin {"finish", "free"}
      /\ xb' = "free" => \A i \in Ids : ~shadow[i].busy
  BY DEF IInv, Held, HeldOk, Holding, OnRing, QInv, Counted, Staged
<1> QED BY <1>1, <1>2, <1>3, ISame

LEMMA IQueueBusy ==
    ASSUME IHyp, QInv, QInv', IInv, NEW c \in Cmds, QueueBusy(c)
    PROVE  IInv'
<1> USE DEF QueueBusy, layer, gate, ids, ring, threads, env
<1>1. /\ UNCHANGED <<idle, shadow, size, sent, answers>>
      /\ \A d \in Cmds : at'[d] = "driver" => at[d] = "driver"
  BY DEF QInv, Typed, LayerTyped
<1>2. \A g \in Resetters : (Holding(g)' <=> Holding(g)) /\ (Holding(g) => rs'[g] = rs[g])
  BY DEF Holding, QInv, Typed, ThreadsTyped, RsType
<1>3. /\ lock' = "none" \/ \A g \in Resetters : rs[g].pc # "signalled"
      /\ xb' \notin {"finish", "free"} => xb \notin {"finish", "free"}
      /\ xb' = "free" => \A i \in Ids : ~shadow[i].busy
  BY DEF IInv, Held, HeldOk, Holding, OnRing, QInv, Counted, Staged
<1> QED BY <1>1, <1>2, <1>3, ISame

LEMMA IQueueError ==
    ASSUME IHyp, QInv, QInv', IInv, NEW c \in Cmds, QueueError(c)
    PROVE  IInv'
<1> USE DEF QueueError, layer, gate, ids, ring, threads, env
<1>1. /\ UNCHANGED <<idle, shadow, size, sent, answers>>
      /\ \A d \in Cmds : at'[d] = "driver" => at[d] = "driver"
  BY DEF QInv, Typed, LayerTyped
<1>2. \A g \in Resetters : (Holding(g)' <=> Holding(g)) /\ (Holding(g) => rs'[g] = rs[g])
  BY DEF Holding, QInv, Typed, ThreadsTyped, RsType
<1>3. /\ lock' = "none" \/ \A g \in Resetters : rs[g].pc # "signalled"
      /\ xb' \notin {"finish", "free"} => xb \notin {"finish", "free"}
      /\ xb' = "free" => \A i \in Ids : ~shadow[i].busy
  BY DEF IInv, Held, HeldOk, Holding, OnRing, QInv, Counted, Staged
<1> QED BY <1>1, <1>2, <1>3, ISame

LEMMA IExpire ==
    ASSUME IHyp, QInv, QInv', IInv, NEW c \in Cmds, Expire(c)
    PROVE  IInv'
<1> USE DEF Expire, layer, gate, ids, ring, threads, env
<1>1. /\ UNCHANGED <<idle, shadow, size, sent, answers>>
      /\ \A d \in Cmds : at'[d] = "driver" => at[d] = "driver"
  BY DEF QInv, Typed, LayerTyped
<1>2. \A g \in Resetters : (Holding(g)' <=> Holding(g)) /\ (Holding(g) => rs'[g] = rs[g])
  BY DEF Holding, QInv, Typed, ThreadsTyped, RsType
<1>3. /\ lock' = "none" \/ \A g \in Resetters : rs[g].pc # "signalled"
      /\ xb' \notin {"finish", "free"} => xb \notin {"finish", "free"}
      /\ xb' = "free" => \A i \in Ids : ~shadow[i].busy
  BY DEF IInv, Held, HeldOk, Holding, OnRing, QInv, Counted, Staged
<1> QED BY <1>1, <1>2, <1>3, ISame

LEMMA IInterrupt ==
    ASSUME IHyp, QInv, QInv', IInv, Interrupt
    PROVE  IInv'
<1> USE DEF Interrupt, layer, gate, ids, ring, threads, env
<1>1. /\ UNCHANGED <<idle, shadow, size, sent, answers>>
      /\ \A d \in Cmds : at'[d] = "driver" => at[d] = "driver"
  BY DEF QInv, Typed, LayerTyped
<1>2. \A g \in Resetters : (Holding(g)' <=> Holding(g)) /\ (Holding(g) => rs'[g] = rs[g])
  BY DEF Holding, QInv, Typed, ThreadsTyped, RsType
<1>3. /\ lock' = "none" \/ \A g \in Resetters : rs[g].pc # "signalled"
      /\ xb' \notin {"finish", "free"} => xb \notin {"finish", "free"}
      /\ xb' = "free" => \A i \in Ids : ~shadow[i].busy
  BY DEF IInv, Held, HeldOk, Holding, OnRing, QInv, Counted, Staged
<1> QED BY <1>1, <1>2, <1>3, ISame

LEMMA IWorkerWakes ==
    ASSUME IHyp, QInv, QInv', IInv, WorkerWakes
    PROVE  IInv'
<1> USE DEF WorkerWakes, layer, gate, ids, ring, threads, env
<1>1. /\ UNCHANGED <<idle, shadow, size, sent, answers>>
      /\ \A d \in Cmds : at'[d] = "driver" => at[d] = "driver"
  BY DEF QInv, Typed, LayerTyped
<1>2. \A g \in Resetters : (Holding(g)' <=> Holding(g)) /\ (Holding(g) => rs'[g] = rs[g])
  BY DEF Holding, QInv, Typed, ThreadsTyped, RsType
<1>3. /\ lock' = "none" \/ \A g \in Resetters : rs[g].pc # "signalled"
      /\ xb' \notin {"finish", "free"} => xb \notin {"finish", "free"}
      /\ xb' = "free" => \A i \in Ids : ~shadow[i].busy
  BY DEF IInv, Held, HeldOk, Holding, OnRing, QInv, Counted, Staged
<1> QED BY <1>1, <1>2, <1>3, ISame

LEMMA IWorkerLocks ==
    ASSUME IHyp, QInv, QInv', IInv, WorkerLocks
    PROVE  IInv'
<1> USE DEF WorkerLocks, layer, gate, ids, ring, threads, env, IHyp, Apart
<1>1. /\ UNCHANGED <<idle, shadow, size, sent, answers>>
      /\ \A d \in Cmds : at'[d] = "driver" => at[d] = "driver"
  BY DEF QInv, Typed, LayerTyped
<1>2. \A g \in Resetters : (Holding(g)' <=> Holding(g)) /\ (Holding(g) => rs'[g] = rs[g])
  BY DEF Holding, QInv, Typed, ThreadsTyped, RsType
<1>3. /\ lock' = "none" \/ \A g \in Resetters : rs[g].pc # "signalled"
      /\ xb' \notin {"finish", "free"} => xb \notin {"finish", "free"}
      /\ xb' = "free" => \A i \in Ids : ~shadow[i].busy
  BY DEF IInv, Held, HeldOk, Holding, OnRing, QInv, Counted, Staged
<1> QED BY <1>1, <1>2, <1>3, ISame

LEMMA IWorkerEnds ==
    ASSUME IHyp, QInv, QInv', IInv, WorkerEnds
    PROVE  IInv'
<1> USE DEF WorkerEnds, layer, gate, ids, ring, threads, env
<1>1. /\ UNCHANGED <<idle, shadow, size, sent, answers>>
      /\ \A d \in Cmds : at'[d] = "driver" => at[d] = "driver"
  BY DEF QInv, Typed, LayerTyped
<1>2. \A g \in Resetters : (Holding(g)' <=> Holding(g)) /\ (Holding(g) => rs'[g] = rs[g])
  BY DEF Holding, QInv, Typed, ThreadsTyped, RsType
<1>3. /\ lock' = "none" \/ \A g \in Resetters : rs[g].pc # "signalled"
      /\ xb' \notin {"finish", "free"} => xb \notin {"finish", "free"}
      /\ xb' = "free" => \A i \in Ids : ~shadow[i].busy
  BY DEF IInv, Held, HeldOk, Holding, OnRing, QInv, Counted, Staged
<1> QED BY <1>1, <1>2, <1>3, ISame

LEMMA IResetCall ==
    ASSUME IHyp, QInv, QInv', IInv, NEW h \in Resetters, ResetCall(h)
    PROVE  IInv'
<1> USE DEF ResetCall, layer, gate, ids, ring, threads, env
<1>1. /\ UNCHANGED <<idle, shadow, size, sent, answers>>
      /\ \A d \in Cmds : at'[d] = "driver" => at[d] = "driver"
  BY DEF QInv, Typed, LayerTyped
<1>2. \A g \in Resetters : (Holding(g)' <=> Holding(g)) /\ (Holding(g) => rs'[g] = rs[g])
  BY DEF Holding, QInv, Typed, ThreadsTyped, RsType
<1>3. /\ lock' = "none" \/ \A g \in Resetters : rs[g].pc # "signalled"
      /\ xb' \notin {"finish", "free"} => xb \notin {"finish", "free"}
      /\ xb' = "free" => \A i \in Ids : ~shadow[i].busy
  BY DEF IInv, Held, HeldOk, Holding, OnRing, QInv, Counted, Staged
<1> QED BY <1>1, <1>2, <1>3, ISame

LEMMA IResetWaits ==
    ASSUME IHyp, QInv, QInv', IInv, NEW h \in Resetters, ResetWaits(h)
    PROVE  IInv'
<1> USE DEF ResetWaits, layer, gate, ids, ring, threads, env, Looks
<1>1. /\ UNCHANGED <<idle, shadow, size, sent, answers>>
      /\ \A d \in Cmds : at'[d] = "driver" => at[d] = "driver"
  BY DEF QInv, Typed, LayerTyped
<1>2. \A g \in Resetters : (Holding(g)' <=> Holding(g)) /\ (Holding(g) => rs'[g] = rs[g])
  BY DEF Holding, QInv, Typed, ThreadsTyped, RsType
<1>3. /\ lock' = "none" \/ \A g \in Resetters : rs[g].pc # "signalled"
      /\ xb' \notin {"finish", "free"} => xb \notin {"finish", "free"}
      /\ xb' = "free" => \A i \in Ids : ~shadow[i].busy
  BY DEF IInv, Held, HeldOk, Holding, OnRing, QInv, Counted, Staged
<1> QED BY <1>1, <1>2, <1>3, ISame

LEMMA IResetFails ==
    ASSUME IHyp, QInv, QInv', IInv, NEW h \in Resetters, ResetFails(h)
    PROVE  IInv'
<1> USE DEF ResetFails, layer, gate, ids, ring, threads, env, Looks
<1>1. /\ UNCHANGED <<idle, shadow, size, sent, answers>>
      /\ \A d \in Cmds : at'[d] = "driver" => at[d] = "driver"
  BY DEF QInv, Typed, LayerTyped
<1>2. \A g \in Resetters : (Holding(g)' <=> Holding(g)) /\ (Holding(g) => rs'[g] = rs[g])
  BY DEF Holding, QInv, Typed, ThreadsTyped, RsType
<1>3. /\ lock' = "none" \/ \A g \in Resetters : rs[g].pc # "signalled"
      /\ xb' \notin {"finish", "free"} => xb \notin {"finish", "free"}
      /\ xb' = "free" => \A i \in Ids : ~shadow[i].busy
  BY DEF IInv, Held, HeldOk, Holding, OnRing, QInv, Counted, Staged
<1> QED BY <1>1, <1>2, <1>3, ISame

LEMMA IResetReturns ==
    ASSUME IHyp, QInv, QInv', IInv, NEW h \in Resetters, ResetReturns(h)
    PROVE  IInv'
<1> USE DEF ResetReturns, layer, gate, ids, ring, threads, env
<1>1. /\ UNCHANGED <<idle, shadow, size, sent, answers>>
      /\ \A d \in Cmds : at'[d] = "driver" => at[d] = "driver"
  BY DEF QInv, Typed, LayerTyped
<1>2. \A g \in Resetters : (Holding(g)' <=> Holding(g)) /\ (Holding(g) => rs'[g] = rs[g])
  BY DEF Holding, QInv, Typed, ThreadsTyped, RsType
<1>3. /\ lock' = "none" \/ \A g \in Resetters : rs[g].pc # "signalled"
      /\ xb' \notin {"finish", "free"} => xb \notin {"finish", "free"}
      /\ xb' = "free" => \A i \in Ids : ~shadow[i].busy
  BY DEF IInv, Held, HeldOk, Holding, OnRing, QInv, Counted, Staged
<1> QED BY <1>1, <1>2, <1>3, ISame

LEMMA IConnect ==
    ASSUME IHyp, QInv, QInv', IInv, Connect
    PROVE  IInv'
<1> USE DEF Connect, layer, gate, ids, ring, threads, env
<1>1. /\ UNCHANGED <<idle, shadow, size, sent, answers>>
      /\ \A d \in Cmds : at'[d] = "driver" => at[d] = "driver"
  BY DEF QInv, Typed, LayerTyped
<1>2. \A g \in Resetters : (Holding(g)' <=> Holding(g)) /\ (Holding(g) => rs'[g] = rs[g])
  BY DEF Holding, QInv, Typed, ThreadsTyped, RsType
<1>3. /\ lock' = "none" \/ \A g \in Resetters : rs[g].pc # "signalled"
      /\ xb' \notin {"finish", "free"} => xb \notin {"finish", "free"}
      /\ xb' = "free" => \A i \in Ids : ~shadow[i].busy
  BY DEF IInv, Held, HeldOk, Holding, OnRing, QInv, Counted, Staged
<1> QED BY <1>1, <1>2, <1>3, ISame

LEMMA IReconfigured ==
    ASSUME IHyp, QInv, QInv', IInv, Reconfigured
    PROVE  IInv'
<1> USE DEF Reconfigured, layer, gate, ids, ring, threads, env
<1>1. /\ UNCHANGED <<idle, shadow, size, sent, answers>>
      /\ \A d \in Cmds : at'[d] = "driver" => at[d] = "driver"
  BY DEF QInv, Typed, LayerTyped
<1>2. \A g \in Resetters : (Holding(g)' <=> Holding(g)) /\ (Holding(g) => rs'[g] = rs[g])
  BY DEF Holding, QInv, Typed, ThreadsTyped, RsType
<1>3. /\ lock' = "none" \/ \A g \in Resetters : rs[g].pc # "signalled"
      /\ xb' \notin {"finish", "free"} => xb \notin {"finish", "free"}
      /\ xb' = "free" => \A i \in Ids : ~shadow[i].busy
  BY DEF IInv, Held, HeldOk, Holding, OnRing, QInv, Counted, Staged
<1> QED BY <1>1, <1>2, <1>3, ISame

LEMMA ISuspend ==
    ASSUME IHyp, QInv, QInv', IInv, Suspend
    PROVE  IInv'
<1> USE DEF Suspend, layer, gate, ids, ring, threads, env, WaitsForCallers
<1>1. /\ UNCHANGED <<idle, shadow, size, sent, answers>>
      /\ \A d \in Cmds : at'[d] = "driver" => at[d] = "driver"
  BY DEF QInv, Typed, LayerTyped
<1>2. \A g \in Resetters : (Holding(g)' <=> Holding(g)) /\ (Holding(g) => rs'[g] = rs[g])
  BY DEF Holding, QInv, Typed, ThreadsTyped, RsType
<1>3. /\ lock' = "none" \/ \A g \in Resetters : rs[g].pc # "signalled"
      /\ xb' \notin {"finish", "free"} => xb \notin {"finish", "free"}
      /\ xb' = "free" => \A i \in Ids : ~shadow[i].busy
  BY DEF IInv, Held, HeldOk, Holding, OnRing, QInv, Counted, Staged
<1> QED BY <1>1, <1>2, <1>3, ISame

LEMMA ISuspendWakes ==
    ASSUME IHyp, QInv, QInv', IInv, SuspendWakes
    PROVE  IInv'
<1> USE DEF SuspendWakes, layer, gate, ids, ring, threads, env, WaitsForCallers
<1>1. /\ UNCHANGED <<idle, shadow, size, sent, answers>>
      /\ \A d \in Cmds : at'[d] = "driver" => at[d] = "driver"
  BY DEF QInv, Typed, LayerTyped
<1>2. \A g \in Resetters : (Holding(g)' <=> Holding(g)) /\ (Holding(g) => rs'[g] = rs[g])
  BY DEF Holding, QInv, Typed, ThreadsTyped, RsType
<1>3. /\ lock' = "none" \/ \A g \in Resetters : rs[g].pc # "signalled"
      /\ xb' \notin {"finish", "free"} => xb \notin {"finish", "free"}
      /\ xb' = "free" => \A i \in Ids : ~shadow[i].busy
  BY DEF IInv, Held, HeldOk, Holding, OnRing, QInv, Counted, Staged
<1> QED BY <1>1, <1>2, <1>3, ISame

LEMMA ISuspendCancel ==
    ASSUME IHyp, QInv, QInv', IInv, SuspendCancel
    PROVE  IInv'
<1> USE DEF SuspendCancel, layer, gate, ids, ring, threads, env
<1>1. /\ UNCHANGED <<idle, shadow, size, sent, answers>>
      /\ \A d \in Cmds : at'[d] = "driver" => at[d] = "driver"
  BY DEF QInv, Typed, LayerTyped
<1>2. \A g \in Resetters : (Holding(g)' <=> Holding(g)) /\ (Holding(g) => rs'[g] = rs[g])
  BY DEF Holding, QInv, Typed, ThreadsTyped, RsType
<1>3. /\ lock' = "none" \/ \A g \in Resetters : rs[g].pc # "signalled"
      /\ xb' \notin {"finish", "free"} => xb \notin {"finish", "free"}
      /\ xb' = "free" => \A i \in Ids : ~shadow[i].busy
  BY DEF IInv, Held, HeldOk, Holding, OnRing, QInv, Counted, Staged
<1> QED BY <1>1, <1>2, <1>3, ISame

LEMMA IMigrate ==
    ASSUME IHyp, QInv, QInv', IInv, NEW k \in Hosts, Migrate(k)
    PROVE  IInv'
<1> USE DEF Migrate, layer, gate, ids, ring, threads, env
<1>1. /\ UNCHANGED <<idle, shadow, size, sent, answers>>
      /\ \A d \in Cmds : at'[d] = "driver" => at[d] = "driver"
  BY DEF QInv, Typed, LayerTyped
<1>2. \A g \in Resetters : (Holding(g)' <=> Holding(g)) /\ (Holding(g) => rs'[g] = rs[g])
  BY DEF Holding, QInv, Typed, ThreadsTyped, RsType
<1>3. /\ lock' = "none" \/ \A g \in Resetters : rs[g].pc # "signalled"
      /\ xb' \notin {"finish", "free"} => xb \notin {"finish", "free"}
      /\ xb' = "free" => \A i \in Ids : ~shadow[i].busy
  BY DEF IInv, Held, HeldOk, Holding, OnRing, QInv, Counted, Staged
<1> QED BY <1>1, <1>2, <1>3, ISame

LEMMA IResume ==
    ASSUME IHyp, QInv, QInv', IInv, Resume
    PROVE  IInv'
<1> USE DEF Resume, layer, gate, ids, ring, threads, env
<1>1. /\ UNCHANGED <<idle, shadow, size, sent, answers>>
      /\ \A d \in Cmds : at'[d] = "driver" => at[d] = "driver"
  BY DEF QInv, Typed, LayerTyped
<1>2. \A g \in Resetters : (Holding(g)' <=> Holding(g)) /\ (Holding(g) => rs'[g] = rs[g])
  BY DEF Holding, QInv, Typed, ThreadsTyped, RsType
<1>3. /\ lock' = "none" \/ \A g \in Resetters : rs[g].pc # "signalled"
      /\ xb' \notin {"finish", "free"} => xb \notin {"finish", "free"}
      /\ xb' = "free" => \A i \in Ids : ~shadow[i].busy
  BY DEF IInv, Held, HeldOk, Holding, OnRing, QInv, Counted, Staged
<1> QED BY <1>1, <1>2, <1>3, ISame

LEMMA IFinishEnds ==
    ASSUME IHyp, QInv, QInv', IInv, FinishEnds
    PROVE  IInv'
<1>0. ASSUME NEW i \in Ids, shadow[i].busy PROVE FALSE
  <2>1. shadow[i].act = "reset" /\ shadow[i].rslt = "answered"
    BY <1>0 DEF FinishEnds
  <2>2. PICK h \in Resetters : Holding(h)
    BY <1>0, <2>1 DEF IInv, Used, IdOk
  <2>3. xb = "finish"
    BY DEF FinishEnds, QInv, Staged
  <2> QED BY <2>2, <2>3 DEF QInv, Counted
<1> USE DEF FinishEnds, layer, gate, ids, ring, threads, env
<1>1. /\ UNCHANGED <<idle, shadow, size, sent, answers>>
      /\ \A d \in Cmds : at'[d] = "driver" => at[d] = "driver"
  BY DEF QInv, Typed, LayerTyped
<1>2. \A g \in Resetters : (Holding(g)' <=> Holding(g)) /\ (Holding(g) => rs'[g] = rs[g])
  BY DEF Holding, QInv, Typed, ThreadsTyped, RsType
<1>3. /\ lock' = "none" \/ \A g \in Resetters : rs[g].pc # "signalled"
      /\ xb' \notin {"finish", "free"} => xb \notin {"finish", "free"}
      /\ xb' = "free" => \A i \in Ids : ~shadow[i].busy
  BY <1>0 DEF IInv, Held, HeldOk, Holding, OnRing, QInv, Counted, Staged
<1> QED BY <1>1, <1>2, <1>3, ISame

LEMMA IBackendReady ==
    ASSUME IHyp, QInv, QInv', IInv, BackendReady
    PROVE  IInv'
<1> USE DEF BackendReady, layer, gate, ids, ring, threads, env
<1>1. /\ UNCHANGED <<idle, shadow, size, sent, answers>>
      /\ \A d \in Cmds : at'[d] = "driver" => at[d] = "driver"
  BY DEF QInv, Typed, LayerTyped
<1>2. \A g \in Resetters : (Holding(g)' <=> Holding(g)) /\ (Holding(g) => rs'[g] = rs[g])
  BY DEF Holding, QInv, Typed, ThreadsTyped, RsType
<1>3. /\ lock' = "none" \/ \A g \in Resetters : rs[g].pc # "signalled"
      /\ xb' \notin {"finish", "free"} => xb \notin {"finish", "free"}
      /\ xb' = "free" => \A i \in Ids : ~shadow[i].busy
  BY DEF IInv, Held, HeldOk, Holding, OnRing, QInv, Counted, Staged
<1> QED BY <1>1, <1>2, <1>3, ISame

LEMMA IBackendConnects ==
    ASSUME IHyp, QInv, QInv', IInv, BackendConnects
    PROVE  IInv'
<1> USE DEF BackendConnects, layer, gate, ids, ring, threads, env
<1>1. /\ UNCHANGED <<idle, shadow, size, sent, answers>>
      /\ \A d \in Cmds : at'[d] = "driver" => at[d] = "driver"
  BY DEF QInv, Typed, LayerTyped
<1>2. \A g \in Resetters : (Holding(g)' <=> Holding(g)) /\ (Holding(g) => rs'[g] = rs[g])
  BY DEF Holding, QInv, Typed, ThreadsTyped, RsType
<1>3. /\ lock' = "none" \/ \A g \in Resetters : rs[g].pc # "signalled"
      /\ xb' \notin {"finish", "free"} => xb \notin {"finish", "free"}
      /\ xb' = "free" => \A i \in Ids : ~shadow[i].busy
  BY DEF IInv, Held, HeldOk, Holding, OnRing, QInv, Counted, Staged
<1> QED BY <1>1, <1>2, <1>3, ISame

(* The first free id is taken.                                             *)
LEMMA Pushed ==
    ASSUME QInv, IInv, NEW act \in {"cdb", "reset"}, NEW c \in Cmds \cup {NoCmd},
           Push(act, c), UNCHANGED <<size, answers, xb, lock>>,
           xb \notin {"finish", "free"}, act = "cdb" <=> c \in Cmds,
           Head(idle) \in Ids,
           shadow'[Head(idle)] = [busy |-> TRUE, act |-> act, cmd |-> c, wait |-> FALSE,
                                  rslt |-> "none"],
           \A i \in Ids : i # Head(idle) => shadow'[i] = shadow[i],
           \A d \in Cmds : at'[d] = "driver" => at[d] = "driver" \/ (act = "cdb" /\ d = c),
           \A h \in Resetters :
               \/ (Holding(h)' <=> Holding(h)) /\ (Holding(h) => rs'[h] = rs[h])
               \/ act = "reset" /\ ~Holding(h) /\ rs'[h] = [pc |-> "sent", id |-> Head(idle)],
           act = "reset" => \E h \in Resetters :
               ~Holding(h) /\ rs'[h] = [pc |-> "sent", id |-> Head(idle)]
               /\ \A g \in Resetters : g # h => rs'[g] = rs[g]
    PROVE  IInv'
<1>z. PICK e \in Ids : e = Head(idle)
  OBVIOUS
<1>0. /\ e \in Ids /\ ~shadow[e].busy /\ e \in 0 .. size - 1 /\ idle \in Seq(Ids)
      /\ IsInjective(idle') /\ Range(idle') = Range(idle) \ {e}
      /\ Range(idle) = {i \in 0 .. size - 1 : ~shadow[i].busy}
  BY <1>z, TailFree DEF Push, IInv, Free, QInv, Typed, RingTyped
<1>1. /\ shadow'[e] = [busy |-> TRUE, act |-> act, cmd |-> c, wait |-> FALSE, rslt |-> "none"]
      /\ \A i \in Ids : i # e => shadow'[i] = shadow[i]
      /\ sent' = sent \cup {[id |-> e, act |-> act, cmd |-> c]}
      /\ act = "reset" => c = NoCmd
      /\ act = "cdb" => c \in Cmds
  BY <1>z DEF Push
<1>2. size \in Nat /\ \A i \in 0 .. size - 1 : i \in Ids
  BY IdsFacts DEF Ids, QInv, Typed, RingTyped
<1>e. \A h \in Resetters : Holding(h) => rs[h].id # e
  BY <1>0 DEF IInv, Held, HeldOk
<1>g. \A h \in Resetters : Holding(h) => Holding(h)' /\ rs'[h] = rs[h]
  OBVIOUS
<1>n. \A h \in Resetters :
          Holding(h)' => Holding(h) \/ (rs'[h].pc = "sent" /\ rs'[h].id = e /\ act = "reset")
  BY <1>z
<1>3. Used'
  <2>1. ASSUME NEW i \in Ids, i # e PROVE IdOk(i)'
    BY <1>1, <1>g, <2>1 DEF IInv, Used, IdOk
  <2>2. IdOk(e)'
    <3>1. act = "reset" => \E h \in Resetters : Holding(h)' /\ rs'[h].id = e
      BY <1>z DEF Holding
    <3>2. e < size'
      BY <1>0, <1>2
    <3>3. act = "cdb" \/ act = "reset"
      OBVIOUS
    <3> QED BY <1>1, <3>1, <3>2, <3>3 DEF IdOk
  <2>3. ASSUME NEW d \in Cmds, at'[d] = "driver" PROVE \E i \in Ids : Uses(i, d)'
    <3>1. CASE at[d] = "driver"
      <4>1. PICK i \in Ids : Uses(i, d)
        BY <3>1 DEF IInv, Used
      <4>2. Uses(i, d)'
        BY <4>1, <1>0, <1>1 DEF Uses
      <4> QED BY <4>2
    <3>2. CASE act = "cdb" /\ d = c
      BY <3>2, <1>0, <1>1 DEF Uses
    <3> QED BY <3>1, <3>2, <2>3
  <2>4. \A i \in Ids : IdOk(i)'
    BY <2>1, <2>2
  <2> QED BY <2>3, <2>4, Zenon DEF Used
<1>4. Free'
  <2>1. {i \in 0 .. size - 1 : ~shadow'[i].busy} = {i \in 0 .. size - 1 : ~shadow[i].busy} \ {e}
    BY <1>0, <1>1, <1>2
  <2> QED BY <2>1, <1>0 DEF Free
<1>5. Held'
  <2>1. ASSUME NEW h \in Resetters PROVE HeldOk(h)'
    <3>1. CASE Holding(h)
      BY <3>1, <1>1, <1>e, <1>g DEF IInv, Held, HeldOk, QInv, Typed, ThreadsTyped
    <3>2. CASE ~Holding(h)
      BY <3>2, <1>1, <1>n DEF HeldOk
    <3> QED BY <3>1, <3>2
  <2>2. ASSUME NEW g \in Resetters, NEW h \in Resetters, Holding(g)', Holding(h)',
               rs'[g].id = rs'[h].id
        PROVE  g = h
    <3>1. CASE Holding(g) /\ Holding(h)
      BY <3>1, <2>2, <1>g DEF IInv, Held
    <3>2. CASE ~Holding(g) /\ ~Holding(h)
      BY <3>2, <2>2, <1>n, <1>g DEF Holding
    <3>3. CASE ~(Holding(g) <=> Holding(h))
      BY <3>3, <2>2, <1>n, <1>g, <1>e
    <3> QED BY <3>1, <3>2, <3>3
  <2> QED BY <2>1, <2>2 DEF Held
<1>6. OnRing'
  <2>1. \A m \in sent : m.id # e /\ m.id \in Ids
    BY <1>0 DEF IInv, OnRing, SentOk, QInv, Typed, RingTyped, SentType
  <2>2. \A k \in DOMAIN answers : answers[k].id # e /\ answers[k].id \in Ids
    <3>1. ASSUME NEW k \in DOMAIN answers PROVE answers[k] \in AnswerType
      BY DEF QInv, Typed, RingTyped
    <3> QED BY <1>0, <3>1 DEF IInv, OnRing, AnswerType
  <2>3. \A m, n \in sent' : m.id = n.id => m = n
    BY <1>1, <2>1 DEF IInv, OnRing
  <2>4. \A m \in sent' : ~Answered(m.id)'
    BY <1>1, <2>2 DEF IInv, OnRing, Answered
  <2>5. \A k \in DOMAIN answers' : shadow'[answers'[k].id].busy /\ ~shadow'[answers'[k].id].wait
    BY <1>1, <2>2 DEF IInv, OnRing
  <2>6. \A m \in sent' : SentOk(m)'
    BY <1>1, <2>1 DEF IInv, OnRing, SentOk
  <2>7. ASSUME NEW i \in Ids, shadow'[i].busy, ~shadow'[i].wait
        PROVE  Answered(i)' \/ \E m \in sent' : m.id = i
    <3>1. CASE i = e
      <4>1. [id |-> e, act |-> act, cmd |-> c] \in sent'
        BY <1>1
      <4> QED BY <3>1, <4>1
    <3>2. CASE i # e
      BY <3>2, <2>7, <1>1 DEF IInv, OnRing, Answered
    <3> QED BY <3>1, <3>2
  <2> QED BY <2>3, <2>4, <2>5, <2>6, <2>7 DEF IInv, OnRing
<1> QED BY <1>3, <1>4, <1>5, <1>6 DEF IInv

(* An id is freed.                                                         *)
LEMMA Freed ==
    ASSUME QInv, IInv, NEW i \in Ids, AddIdToFreelist(i), shadow[i].busy,
           UNCHANGED <<size, lock>>,
           \A c \in Cmds : at'[c] = "driver" => at[c] = "driver" /\ shadow[i].cmd # c,
           \A h \in Resetters : (Holding(h)' <=> Holding(h) /\ rs[h].id # i),
           \A h \in Resetters : Holding(h)' => rs'[h] = rs[h]
    PROVE  /\ Used' /\ Free' /\ Held'
           /\ shadow'[i].busy = FALSE /\ \A j \in Ids : j # i => shadow'[j] = shadow[j]
<1>0. idle \in Seq(Ids) /\ shadow \in [Ids -> ShadowType] /\ size \in Nat
      /\ \A j \in 0 .. size - 1 : j \in Ids
  BY IdsFacts DEF Ids, QInv, Typed, RingTyped
<1>1. shadow'[i].busy = FALSE /\ \A j \in Ids : j # i => shadow'[j] = shadow[j]
  BY <1>0, FreeTyped DEF Empty
<1>2. Used'
  <2>1. ASSUME NEW j \in Ids PROVE IdOk(j)'
    BY <1>1 DEF IInv, Used, IdOk
  <2>2. ASSUME NEW c \in Cmds, at'[c] = "driver" PROVE \E j \in Ids : Uses(j, c)'
    <3>1. PICK j \in Ids : Uses(j, c)
      BY <2>2 DEF IInv, Used
    <3>2. Uses(j, c)'
      BY <3>1, <2>2, <1>1 DEF Uses
    <3> QED BY <3>2
  <2> QED BY <2>1, <2>2 DEF Used
<1>3. Free'
  <2>1. i \notin Range(idle) /\ i \in 0 .. size - 1 /\ IsInjective(idle)
        /\ Range(idle) = {j \in 0 .. size - 1 : ~shadow[j].busy}
    BY IdsFacts, <1>0 DEF IInv, Free, Used, IdOk
  <2>2. IsInjective(idle') /\ Range(idle') = Range(idle) \cup {i}
    BY <2>1, <1>0, ConsFree DEF AddIdToFreelist
  <2>3. {j \in 0 .. size - 1 : ~shadow'[j].busy}
            = {j \in 0 .. size - 1 : ~shadow[j].busy} \cup {i}
    BY <1>0, <1>1, <2>1
  <2> QED BY <2>1, <2>2, <2>3 DEF Free
<1>4. Held'
  <2>1. ASSUME NEW h \in Resetters, Holding(h)'
        PROVE  Holding(h) /\ rs'[h] = rs[h] /\ rs[h].id # i /\ rs[h].id \in Ids
    BY <2>1 DEF QInv, Typed, ThreadsTyped
  <2>2. ASSUME NEW h \in Resetters PROVE HeldOk(h)'
    BY <2>1, <1>1 DEF IInv, Held, HeldOk
  <2>3. \A g, h \in Resetters : Holding(g)' /\ Holding(h)' /\ rs'[g].id = rs'[h].id => g = h
    BY <2>1 DEF IInv, Held
  <2> QED BY <2>2, <2>3 DEF Held
<1> QED BY <1>1, <1>2, <1>3, <1>4
LEMMA IQueueCommand ==
    ASSUME IHyp, QInv, QInv', IInv, NEW c \in Cmds, QueueCommand(c)
    PROVE  IInv'
<1> USE DEF QueueCommand, layer, gate, ids, ring, threads, env
<1>1. /\ Head(idle) \in Ids
      /\ shadow'[Head(idle)] = [busy |-> TRUE, act |-> "cdb", cmd |-> c, wait |-> FALSE,
                                rslt |-> "none"]
      /\ \A i \in Ids : i # Head(idle) => shadow'[i] = shadow[i]
  <2>1. \A i \in Ids : shadow[i].cmd # c
    BY IdsFacts DEF QInv, Carries
  <2> QED BY <2>1, PushTyped DEF QInv
<1>2. xb \notin {"finish", "free"}
  BY DEF QInv, Counted
<1>3. \A d \in Cmds : at'[d] = "driver" => at[d] = "driver" \/ d = c
  BY DEF QInv, Typed, LayerTyped
<1>4. UNCHANGED <<size, answers, xb, lock>>
  OBVIOUS
<1>5. \A h \in Resetters : (Holding(h)' <=> Holding(h)) /\ rs'[h] = rs[h]
  BY DEF Holding
<1>6. Push("cdb", c)
  OBVIOUS
<1> HIDE DEF QueueCommand
<1> QED BY <1>1, <1>2, <1>3, <1>4, <1>5, <1>6, Pushed

LEMMA IResetSends ==
    ASSUME IHyp, QInv, QInv', IInv, NEW h \in Resetters, ResetSends(h)
    PROVE  IInv'
<1> USE DEF ResetSends, layer, gate, ids, ring, threads, env
<1>1. /\ Head(idle) \in Ids
      /\ shadow'[Head(idle)] = [busy |-> TRUE, act |-> "reset", cmd |-> NoCmd, wait |-> FALSE,
                                rslt |-> "none"]
      /\ \A i \in Ids : i # Head(idle) => shadow'[i] = shadow[i]
  BY PushTyped DEF QInv
<1>2. xb \notin {"finish", "free"}
  BY DEF QInv, Staged
<1>3. \A d \in Cmds : at'[d] = "driver" => at[d] = "driver"
  OBVIOUS
<1>4. UNCHANGED <<size, answers, xb, lock>>
  OBVIOUS
<1>5. ~Holding(h) /\ rs'[h] = [pc |-> "sent", id |-> Head(idle)]
      /\ \A g \in Resetters : g # h => rs'[g] = rs[g]
  BY DEF Holding, Looks, QInv, Typed, ThreadsTyped
<1>6. \A g \in Resetters : g # h => (Holding(g)' <=> Holding(g)) /\ rs'[g] = rs[g]
  BY <1>5 DEF Holding
<1>7. Push("reset", NoCmd) /\ NoCmd \notin Cmds
  BY IdsFacts
<1> HIDE DEF ResetSends
<1> QED BY <1>1, <1>2, <1>3, <1>4, <1>5, <1>6, <1>7, Pushed

LEMMA IHandle ==
    ASSUME IHyp, QInv, QInv', IInv, Handle
    PROVE  IInv'
<1> DEFINE r == answers[1]
<1>1. /\ Len(answers) \in Nat /\ Len(answers) >= 1 /\ answers \in Seq(AnswerType)
      /\ DOMAIN answers = 1 .. Len(answers) /\ DOMAIN answers' = 1 .. Len(answers) - 1
      /\ \A k \in 1 .. Len(answers) - 1 : answers'[k] = answers[k + 1]
      /\ Head(answers) = r /\ r \in AnswerType
  BY TailTyped DEF Handle, QInv, Typed, RingTyped
<1>2. PICK i \in Ids : i = r.id
  BY <1>1 DEF AnswerType
<1>3. shadow[i].busy /\ ~shadow[i].wait /\ IdOk(i)
  BY <1>1, <1>2 DEF IInv, OnRing, Used
<1>4. /\ UNCHANGED <<size, lock, sent, rs, xb>> /\ lock # "none" /\ DoResponse(i, r.ok)
  BY <1>1, <1>2 DEF Handle, ring, threads, env
<1> HIDE DEF r
<1>5. /\ \A k \in DOMAIN answers' : k + 1 \in DOMAIN answers /\ answers'[k] = answers[k + 1]
      /\ \A k \in DOMAIN answers' : answers'[k].id # i
      /\ \A j \in Ids : j # i => (Answered(j)' <=> Answered(j))
  <2>1. \A k \in DOMAIN answers' : k + 1 \in DOMAIN answers /\ answers'[k] = answers[k + 1]
    BY <1>1
  <2>2. 1 \in DOMAIN answers /\ answers[1].id = i
    BY <1>1, <1>2 DEF r
  <2>3. \A k \in DOMAIN answers' : answers'[k].id # i
    BY <2>1, <2>2, <1>1 DEF IInv, OnRing
  <2>4. ASSUME NEW j \in Ids, j # i, NEW k \in DOMAIN answers, answers[k].id = j
        PROVE  k - 1 \in DOMAIN answers' /\ answers'[k - 1].id = j
    BY <2>2, <2>4, <1>1
  <2>5. \A j \in Ids : j # i => (Answered(j)' <=> Answered(j))
    BY <2>1, <2>4 DEF Answered
  <2> QED BY <2>1, <2>3, <2>5
<1>a. \A m \in sent : m.id # i /\ m.id \in Ids
  <2>1. Answered(i)
    BY <1>1, <1>2 DEF Answered, r
  <2> QED BY <2>1 DEF IInv, OnRing, QInv, Typed, RingTyped, SentType
<1>b. ASSUME \A j \in Ids : j # i => shadow'[j] = shadow[j],
             ~shadow'[i].busy \/ shadow'[i].wait
      PROVE  OnRing'
  <2>1. /\ \A m, n \in sent' : m.id = n.id => m = n
        /\ \A m \in sent' : ~Answered(m.id)'
    BY <1>4, <1>5, <1>a DEF IInv, OnRing
  <2>2. \A k, l \in DOMAIN answers' : answers'[k].id = answers'[l].id => k = l
    <3>1. ASSUME NEW k \in DOMAIN answers', NEW l \in DOMAIN answers',
                 answers'[k].id = answers'[l].id
          PROVE  k = l
      <4>1. k + 1 = l + 1
        BY <3>1, <1>5 DEF IInv, OnRing
      <4> QED BY <4>1, <1>1
    <3> QED BY <3>1
  <2>3. \A k \in DOMAIN answers' : shadow'[answers'[k].id].busy /\ ~shadow'[answers'[k].id].wait
    <3>1. ASSUME NEW k \in DOMAIN answers' PROVE answers'[k].id \in Ids
      <4>1. answers[k + 1] \in AnswerType /\ answers'[k] = answers[k + 1]
        BY <1>1, <1>5
      <4> QED BY <4>1 DEF AnswerType
    <3> QED BY <3>1, <1>5, <1>b DEF IInv, OnRing
  <2>4. xb' \notin {"finish", "free"} => \A m \in sent' : SentOk(m)'
    BY <1>4, <1>a, <1>b DEF IInv, OnRing, SentOk
  <2>5. xb' \notin {"finish", "free"} =>
            \A j \in Ids : shadow'[j].busy /\ ~shadow'[j].wait =>
                Answered(j)' \/ \E m \in sent' : m.id = j
    BY <1>4, <1>5, <1>b DEF IInv, OnRing
  <2>6. xb' = "free" => FALSE
    BY <1>4 DEF QInv, Staged, Typed, ThreadsTyped
  <2> QED BY <2>1, <2>2, <2>3, <2>4, <2>5, <2>6 DEF OnRing
<1>6. CASE shadow[i].act = "cdb" /\ shadow[i].cmd # NoCmd /\ AddIdToFreelist(i)
           /\ ScsiDone(shadow[i].cmd, r.ok)
  <2>1. \A c \in Cmds : at'[c] = "driver" => at[c] = "driver" /\ shadow[i].cmd # c
    BY <1>3, <1>6 DEF ScsiDone, IdOk, QInv, Typed, LayerTyped
  <2>2. \A h \in Resetters : (Holding(h)' <=> Holding(h) /\ rs[h].id # i) /\ rs'[h] = rs[h]
    BY <1>4, <1>6 DEF IInv, Held, HeldOk, Holding
  <2> QED BY <1>3, <1>4, <1>6, <1>b, <2>1, <2>2, Freed DEF IInv
<1>7. CASE shadow[i].act = "reset" /\ UNCHANGED at /\ shadow[i].rslt = "abandoned"
           /\ AddIdToFreelist(i)
  <2>1. \A c \in Cmds : at'[c] = "driver" => at[c] = "driver" /\ shadow[i].cmd # c
    BY <1>3, <1>7, IdsFacts DEF IdOk
  <2>2. \A h \in Resetters : (Holding(h)' <=> Holding(h) /\ rs[h].id # i) /\ rs'[h] = rs[h]
    BY <1>4, <1>7 DEF IInv, Held, HeldOk, Holding
  <2> QED BY <1>3, <1>4, <1>7, <1>b, <2>1, <2>2, Freed DEF IInv
<1>8. CASE shadow[i].act = "reset" /\ UNCHANGED at /\ shadow[i].rslt # "abandoned"
           /\ shadow' = [shadow EXCEPT ![i].wait = TRUE, ![i].rslt = "answered"]
           /\ UNCHANGED idle
  <2>1. /\ shadow'[i].busy /\ shadow'[i].act = "reset" /\ shadow'[i].cmd = shadow[i].cmd
        /\ shadow'[i].wait /\ shadow'[i].rslt = "answered"
        /\ \A j \in Ids : j # i => shadow'[j] = shadow[j]
    <3>1. shadow[i] \in ShadowType /\ shadow \in [Ids -> ShadowType]
      BY DEF QInv, Typed, RingTyped
    <3> QED BY <3>1, <1>3, <1>8 DEF ShadowType
  <2>2. \A h \in Resetters : (Holding(h)' <=> Holding(h)) /\ rs'[h] = rs[h]
    BY <1>4 DEF Holding
  <2>3. Used'
    <3>1. ASSUME NEW j \in Ids PROVE IdOk(j)'
      <4>1. CASE j = i
        BY <4>1, <2>1, <2>2, <1>3, <1>4, <1>8 DEF IdOk
      <4>2. CASE j # i
        BY <4>2, <2>1, <2>2, <1>4 DEF IInv, Used, IdOk
      <4> QED BY <4>1, <4>2
    <3>2. ASSUME NEW c \in Cmds, at'[c] = "driver" PROVE \E j \in Ids : Uses(j, c)'
      <4>1. PICK j \in Ids : Uses(j, c)
        BY <3>2, <1>8 DEF IInv, Used
      <4>2. Uses(j, c)'
        BY <4>1, <2>1, <1>8 DEF Uses
      <4> QED BY <4>2
    <3> QED BY <3>1, <3>2 DEF Used
  <2>4. Free'
    <3>1. {j \in 0 .. size - 1 : ~shadow'[j].busy} = {j \in 0 .. size - 1 : ~shadow[j].busy}
      <4>1. \A j \in 0 .. size - 1 : j \in Ids
        BY IdsFacts DEF Ids, QInv, Typed, RingTyped
      <4> QED BY <4>1, <2>1, <1>3
    <3> QED BY <3>1, <1>4, <1>8 DEF IInv, Free
  <2>5. Held'
    <3>1. \A h \in Resetters : Holding(h) => rs[h].id \in Ids /\ rs[h].pc # "signalled"
      BY <1>4 DEF IInv, Held, HeldOk, QInv, Typed, ThreadsTyped
    <3>2. ASSUME NEW h \in Resetters PROVE HeldOk(h)'
      BY <3>1, <2>1, <2>2 DEF IInv, Held, HeldOk
    <3> QED BY <3>2, <2>2 DEF IInv, Held
  <2> QED BY <2>1, <2>3, <2>4, <2>5, <1>b DEF IInv
<1> QED BY <1>4, <1>6, <1>7, <1>8 DEF DoResponse, SyncCmdDone

LEMMA IFinishOne ==
    ASSUME IHyp, QInv, QInv', IInv, FinishOne
    PROVE  IInv'
<1>0. /\ lock = "resume" /\ xb = "finish" /\ xb' = xb
      /\ \A h \in Resetters : ~Holding(h)
      /\ answers = <<>> /\ UNCHANGED <<size, lock, sent, answers, rs>>
  BY DEF FinishOne, QInv, Staged, Counted, ring, threads, env
<1>1. PICK i \in Ids : /\ shadow[i].busy /\ DoResponse(i, FALSE)
                       /\ shadow[i].act = "cdb" \/ shadow[i].rslt # "answered"
  BY DEF FinishOne
<1>2. IdOk(i)
  BY DEF IInv, Used
<1>3. /\ AddIdToFreelist(i)
      /\ \A c \in Cmds : at'[c] = "driver" => at[c] = "driver" /\ shadow[i].cmd # c
  <2>1. CASE shadow[i].act = "cdb" /\ AddIdToFreelist(i) /\ ScsiDone(shadow[i].cmd, FALSE)
    BY <2>1, <1>1, <1>2 DEF ScsiDone, IdOk, QInv, Typed, LayerTyped
  <2>2. CASE shadow[i].act = "reset" /\ SyncCmdDone(i) /\ UNCHANGED at
    <3>1. shadow[i].rslt = "abandoned" /\ shadow[i].cmd = NoCmd
      BY <2>2, <1>0, <1>1, <1>2 DEF IdOk
    <3> QED BY <2>2, <3>1, IdsFacts DEF SyncCmdDone
  <2> QED BY <1>1, <2>1, <2>2 DEF DoResponse
<1>4. \A h \in Resetters : ~Holding(h)'
  BY <1>0 DEF Holding
<1>5. /\ Used' /\ Free' /\ Held'
      /\ shadow'[i].busy = FALSE /\ \A j \in Ids : j # i => shadow'[j] = shadow[j]
  BY <1>0, <1>1, <1>3, <1>4, Freed
<1>6. OnRing'
  <2>1. DOMAIN answers = {}
    BY <1>0
  <2> QED BY <1>0, <2>1 DEF IInv, OnRing, Answered
<1> QED BY <1>5, <1>6 DEF IInv

LEMMA IResetCollects ==
    ASSUME IHyp, QInv, QInv', IInv, NEW h \in Resetters, ResetCollects(h)
    PROVE  IInv'
<1>1. PICK i \in Ids : i = rs[h].id
  BY DEF ResetCollects, QInv, Typed, ThreadsTyped, Holding
<1>2. /\ UNCHANGED <<size, lock, sent, answers, xb, at>> /\ AddIdToFreelist(i)
      /\ shadow[i].wait /\ Holding(h) /\ ~Holding(h)'
      /\ \A g \in Resetters : g # h => rs'[g] = rs[g]
  BY <1>1 DEF ResetCollects, layer, ring, env, Holding, QInv, Typed, ThreadsTyped
<1>3. shadow[i].busy /\ shadow[i].act = "reset" /\ shadow[i].cmd = NoCmd
  BY <1>1, <1>2 DEF IInv, Held, HeldOk, Used, IdOk
<1>4. ASSUME NEW g \in Resetters PROVE Holding(g)' <=> Holding(g) /\ rs[g].id # i
  <2>1. CASE g = h
    BY <2>1, <1>1, <1>2
  <2>2. CASE g # h
    BY <2>2, <1>1, <1>2 DEF IInv, Held, Holding
  <2> QED BY <2>1, <2>2
<1>5. \A g \in Resetters : Holding(g)' => rs'[g] = rs[g]
  BY <1>2
<1>6. \A c \in Cmds : at'[c] = "driver" => at[c] = "driver" /\ shadow[i].cmd # c
  BY <1>2, <1>3, IdsFacts
<1>7. /\ Used' /\ Free' /\ Held'
      /\ shadow'[i].busy = FALSE /\ \A j \in Ids : j # i => shadow'[j] = shadow[j]
  BY <1>2, <1>3, <1>4, <1>5, <1>6, Freed
<1>8. OnRing'
  <2>1. \A k \in DOMAIN answers : answers[k].id # i /\ answers[k].id \in Ids
    <3>1. ASSUME NEW k \in DOMAIN answers PROVE answers[k] \in AnswerType
      BY DEF QInv, Typed, RingTyped
    <3> QED BY <3>1, <1>2 DEF IInv, OnRing, AnswerType
  <2>2. \A m \in sent : m.id \in Ids
    BY DEF QInv, Typed, RingTyped, SentType
  <2>3. xb \notin {"finish", "free"}
    BY <1>2 DEF QInv, Counted
  <2> QED BY <1>2, <1>7, <2>1, <2>2, <2>3 DEF IInv, OnRing, SentOk, Answered
<1> QED BY <1>7, <1>8 DEF IInv

LEMMA IResetAbandons ==
    ASSUME IHyp, QInv, QInv', IInv, NEW h \in Resetters, ResetAbandons(h)
    PROVE  IInv'
<1>1. PICK i \in Ids : i = rs[h].id
  BY DEF ResetAbandons, QInv, Typed, ThreadsTyped, Holding
<1>2. /\ UNCHANGED <<size, lock, sent, answers, xb, at, idle>>
      /\ Holding(h) /\ ~Holding(h)' /\ rs[h].pc = "signalled"
      /\ \A g \in Resetters : g # h => rs'[g] = rs[g]
  BY DEF ResetAbandons, layer, ring, env, Holding, QInv, Typed, ThreadsTyped
<1>3. shadow[i].busy /\ shadow[i].act = "reset" /\ ~shadow[i].wait /\ IdOk(i)
  BY <1>1, <1>2 DEF IInv, Held, HeldOk, Used
<1>4. /\ shadow'[i].busy /\ shadow'[i].act = "reset" /\ shadow'[i].cmd = shadow[i].cmd
      /\ ~shadow'[i].wait /\ shadow'[i].rslt = "abandoned"
      /\ \A j \in Ids : j # i => shadow'[j] = shadow[j]
  <2>1. shadow[i] \in ShadowType /\ shadow \in [Ids -> ShadowType]
    BY DEF QInv, Typed, RingTyped
  <2> QED BY <2>1, <1>1, <1>3 DEF ResetAbandons, ShadowType
<1>5. ASSUME NEW g \in Resetters, g # h
      PROVE  (Holding(g)' <=> Holding(g)) /\ rs'[g] = rs[g]
             /\ (Holding(g) => rs[g].id # i /\ rs[g].id \in Ids)
  BY <1>1, <1>2, <1>5 DEF Holding, IInv, Held, QInv, Typed, ThreadsTyped
<1>6. Used'
  <2>1. ASSUME NEW j \in Ids PROVE IdOk(j)'
    <3>1. CASE j = i
      BY <3>1, <1>2, <1>3, <1>4 DEF IdOk
    <3>2. CASE j # i
      BY <3>2, <1>1, <1>2, <1>4, <1>5 DEF IInv, Used, IdOk
    <3> QED BY <3>1, <3>2
  <2>2. ASSUME NEW c \in Cmds, at'[c] = "driver" PROVE \E j \in Ids : Uses(j, c)'
    <3>1. PICK j \in Ids : Uses(j, c)
      BY <2>2, <1>2 DEF IInv, Used
    <3>2. Uses(j, c)'
      BY <3>1, <1>3, <1>4 DEF Uses
    <3> QED BY <3>2
  <2> QED BY <2>1, <2>2 DEF Used
<1>7. Free'
  <2>1. {j \in 0 .. size - 1 : ~shadow'[j].busy} = {j \in 0 .. size - 1 : ~shadow[j].busy}
    <3>1. \A j \in 0 .. size - 1 : j \in Ids
      BY IdsFacts DEF Ids, QInv, Typed, RingTyped
    <3> QED BY <3>1, <1>3, <1>4
  <2> QED BY <2>1, <1>2 DEF IInv, Free
<1>8. Held'
  <2>1. ASSUME NEW g \in Resetters PROVE HeldOk(g)'
    <3>1. CASE g = h
      BY <3>1, <1>2 DEF HeldOk
    <3>2. CASE g # h
      BY <3>2, <1>2, <1>4, <1>5 DEF IInv, Held, HeldOk
    <3> QED BY <3>1, <3>2
  <2>2. ASSUME NEW f \in Resetters, NEW g \in Resetters, Holding(f)', Holding(g)',
               rs'[f].id = rs'[g].id
        PROVE  f = g
    BY <2>2, <1>2, <1>5 DEF IInv, Held
  <2> QED BY <2>1, <2>2 DEF Held
<1>9. OnRing'
  <2>1. \A j \in Ids : shadow'[j].busy = shadow[j].busy /\ shadow'[j].wait = shadow[j].wait
                      /\ shadow'[j].act = shadow[j].act /\ shadow'[j].cmd = shadow[j].cmd
    <3>1. \A j \in Ids : shadow[j] \in ShadowType /\ shadow'[j] \in ShadowType
      BY DEF QInv, Typed, RingTyped
    <3> QED BY <3>1, <1>3, <1>4 DEF ShadowType
  <2>2. \A k \in DOMAIN answers : answers[k].id \in Ids
    <3>1. ASSUME NEW k \in DOMAIN answers PROVE answers[k] \in AnswerType
      BY DEF QInv, Typed, RingTyped
    <3> QED BY <3>1 DEF AnswerType
  <2>3. \A m \in sent : m.id \in Ids
    BY DEF QInv, Typed, RingTyped, SentType
  <2>4. (\A m \in sent : SentOk(m)) => \A m \in sent : SentOk(m)'
    BY <2>1, <2>3 DEF SentOk
  <2> QED BY <1>2, <2>1, <2>2, <2>3, <2>4 DEF IInv, OnRing, Answered
<1> QED BY <1>6, <1>7, <1>8, <1>9 DEF IInv

LEMMA ISignal ==
    ASSUME IHyp, QInv, QInv', IInv, NEW h \in Resetters, Signal(h)
    PROVE  IInv'
<1> USE DEF Signal, layer, gate, ids, ring, threads, env
<1>1. UNCHANGED <<idle, shadow, size, sent, answers, at, lock, xb>>
  OBVIOUS
<1>2. \A g \in Resetters : (Holding(g)' <=> Holding(g)) /\ rs'[g].id = rs[g].id
                           /\ (rs'[g].pc = "signalled" =>
                                  rs[g].pc = "signalled"
                                  \/ (Holding(g) /\ ~shadow[rs[g].id].wait /\ lock = "none"))
  BY DEF Holding, QInv, Typed, ThreadsTyped, RsType, IHyp, Apart
<1> HIDE DEF Signal
<1>3. Used'
  BY <1>1, <1>2 DEF IInv, Used, IdOk, Uses
<1>4. Free'
  BY <1>1 DEF IInv, Free
<1>5. Held'
  <2>1. ASSUME NEW g \in Resetters PROVE HeldOk(g)'
    BY <1>1, <1>2 DEF IInv, Held, HeldOk, Holding
  <2> QED BY <2>1, <1>2 DEF IInv, Held
<1>6. OnRing'
  BY <1>1 DEF IInv, OnRing, SentOk, Answered
<1> QED BY <1>3, <1>4, <1>5, <1>6 DEF IInv

LEMMA Below ==
    ASSUME NEW n \in 0 .. MaxReqs
    PROVE  n \in Nat /\ \A i \in 0 .. n - 1 : i \in Ids /\ i + 1 \in 1 .. n /\ (i + 1) - 1 = i
  BY ScsiAssumption DEF Ids

LEMMA NewRingIds ==
    ASSUME QInv, QInv', NewRing, UNCHANGED <<at, rs>>, \A c \in Cmds : at[c] # "driver"
    PROVE  IInv'
<1>1. /\ size' # 0 /\ size' \in Nat /\ \A i \in Ids : shadow'[i] = Empty
      /\ DOMAIN idle' = 1 .. size' /\ \A k \in 1 .. size' : idle'[k] = k - 1
      /\ \A i \in 0 .. size' - 1 : i \in Ids
      /\ size' \in 0 .. MaxReqs
  <2>1. /\ size' # 0 /\ RingTyped' /\ \A i \in Ids : shadow'[i] = Empty
        /\ DOMAIN idle' = 1 .. size' /\ \A k \in 1 .. size' : idle'[k] = k - 1
    BY NewRingTyped DEF QInv
  <2>2. size' \in 0 .. MaxReqs
    BY <2>1, IdsFacts DEF RingTyped
  <2>3. \A i \in 0 .. size' - 1 : i \in Ids
    BY <2>2, Below
  <2>4. size' \in Nat
    BY <2>2, Below
  <2> QED BY <2>1, <2>2, <2>3, <2>4
<1>2. \A i \in Ids : ~shadow'[i].busy
  BY <1>1 DEF Empty
<1>3. sent' = {} /\ answers' = <<>> /\ DOMAIN answers' = {} /\ xb' = "initialised"
  BY DEF NewRing
<1> HIDE DEF NewRing
<1>4. \A h \in Resetters : ~Holding(h)'
  BY <1>3 DEF QInv, Counted
<1>5. Used'
  BY <1>2 DEF Used, IdOk
<1>6. Free'
  <2>1. IsInjective(idle')
    BY <1>1 DEF IsInjective
  <2>2. {i \in 0 .. size' - 1 : ~shadow'[i].busy} = 0 .. size' - 1
    BY <1>1, <1>2
  <2>3. Range(idle') = 0 .. size' - 1
    <3>1. ASSUME NEW i \in 0 .. size' - 1 PROVE i + 1 \in DOMAIN idle' /\ idle'[i + 1] = i
      <4>1. i + 1 \in 1 .. size' /\ (i + 1) - 1 = i
        BY <1>1, Below
      <4> QED BY <4>1, <1>1
    <3>2. ASSUME NEW k \in DOMAIN idle' PROVE idle'[k] \in 0 .. size' - 1
      BY <1>1
    <3> QED BY <3>1, <3>2 DEF Range
  <2> QED BY <2>1, <2>2, <2>3 DEF Free
<1>7. Held'
  BY <1>4 DEF Held, HeldOk
<1>8. OnRing'
  BY <1>2, <1>3 DEF OnRing
<1> QED BY <1>5, <1>6, <1>7, <1>8 DEF IInv

LEMMA IFirstRing ==
    ASSUME IHyp, QInv, QInv', IInv, FirstRing
    PROVE  IInv'
<1>1. NewRing /\ UNCHANGED <<at, rs>>
  BY DEF FirstRing, layer, threads
<1>2. \A c \in Cmds : at[c] # "driver"
  BY DEF FirstRing, QInv, Staged, Unused
<1> QED BY <1>1, <1>2, NewRingIds

LEMMA IResumeRing ==
    ASSUME IHyp, QInv, QInv', IInv, ResumeRing
    PROVE  IInv'
<1>1. NewRing /\ UNCHANGED <<at, rs>>
  BY DEF ResumeRing, layer, threads
<1>2. \A c \in Cmds : at[c] # "driver"
  BY DEF ResumeRing, IInv, Used, Uses, OnRing
<1> QED BY <1>1, <1>2, NewRingIds

LEMMA IServe ==
    ASSUME IHyp, QInv, QInv', IInv, NEW m \in sent, NEW ok \in BOOLEAN, Serve(m, ok)
    PROVE  IInv'
<1>1. UNCHANGED <<idle, shadow, size, at, lock, xb, rs>> /\ sent' = sent \ {m}
  BY DEF Serve, ids, threads, env
<1>2. xb \notin {"finish", "free"}
  BY DEF Serve, QInv, Staged
<1>3. /\ Len(answers) \in Nat /\ DOMAIN answers = 1 .. Len(answers)
      /\ DOMAIN answers' = 1 .. Len(answers) + 1
      /\ answers'[Len(answers) + 1].id = m.id
      /\ \A k \in DOMAIN answers : answers'[k] = answers[k]
  <2>1. PICK a \in AnswerType : a.id = m.id /\ answers' = Append(answers, a)
    BY DEF Serve, QInv, Typed, RingTyped, SentType, AnswerType
  <2> QED BY <2>1 DEF QInv, Typed, RingTyped
<1>4. \A h \in Resetters : Holding(h)' <=> Holding(h)
  BY <1>1 DEF Holding
<1>5. m.id \in Ids /\ ~Answered(m.id) /\ SentOk(m)
  BY <1>2 DEF IInv, OnRing, QInv, Typed, RingTyped, SentType
<1>6. \A k \in DOMAIN answers' : k \in DOMAIN answers \/ k = Len(answers) + 1
  BY <1>3
<1>7. Used' /\ Free' /\ Held'
  BY <1>1, <1>4 DEF IInv, Used, IdOk, Uses, Free, Held, HeldOk
<1>8. \A i \in Ids : Answered(i)' <=> Answered(i) \/ i = m.id
  <2>1. Len(answers) + 1 \in DOMAIN answers' /\ \A k \in DOMAIN answers : k \in DOMAIN answers'
    BY <1>3
  <2> QED BY <2>1, <1>3, <1>6 DEF Answered
<1>9. OnRing'
  <2>1. \A n \in sent' : n \in sent /\ n.id # m.id /\ n.id \in Ids
    BY <1>1 DEF IInv, OnRing, QInv, Typed, RingTyped, SentType
  <2>2. /\ \A l, n \in sent' : l.id = n.id => l = n
        /\ \A n \in sent' : ~Answered(n.id)'
        /\ \A n \in sent' : SentOk(n)'
    BY <1>1, <1>2, <1>8, <2>1 DEF IInv, OnRing, SentOk
  <2>3. ASSUME NEW k \in DOMAIN answers', NEW l \in DOMAIN answers',
               answers'[k].id = answers'[l].id
        PROVE  k = l
    BY <2>3, <1>3, <1>5, <1>6 DEF IInv, OnRing, Answered
  <2>4. \A k \in DOMAIN answers' : shadow'[answers'[k].id].busy /\ ~shadow'[answers'[k].id].wait
    BY <1>1, <1>3, <1>5, <1>6 DEF IInv, OnRing, SentOk
  <2>5. \A i \in Ids : shadow'[i].busy /\ ~shadow'[i].wait =>
            Answered(i)' \/ \E n \in sent' : n.id = i
    BY <1>1, <1>2, <1>8 DEF IInv, OnRing
  <2> QED BY <1>1, <1>2, <2>2, <2>3, <2>4, <2>5 DEF OnRing
<1> QED BY <1>7, <1>9 DEF IInv

LEMMA INext ==
    ASSUME IHyp, QInv, QInv', IInv, [Next]_vars
    PROVE  IInv'
<1>1. ASSUME NEW c \in Cmds, Submit(c) \/ Command(c) \/ Expire(c)
      PROVE  IInv'
  BY <1>1, ISubmit, IEnterReads, IEnterWrites, IQueueBusy, IQueueError, IQueueCommand, IExpire,
     Zenon
     DEF Command
<1>2. CASE Interrupt \/ WorkerWakes \/ WorkerLocks \/ Handle \/ WorkerEnds
  BY <1>2, IInterrupt, IWorkerWakes, IWorkerLocks, IHandle, IWorkerEnds, Zenon
<1>3. ASSUME NEW h \in Resetters, ResetCall(h) \/ Signal(h) \/ Reset(h)
      PROVE  IInv'
  BY <1>3, IResetCall, ISignal, IResetWaits, IResetFails, IResetSends, IResetCollects,
     IResetAbandons, IResetReturns, Zenon
     DEF Reset
<1>4. CASE FirstRing \/ Connect \/ Reconfigured \/ Suspend \/ SuspendWakes \/ SuspendCancel
  BY <1>4, IFirstRing, IConnect, IReconfigured, ISuspend, ISuspendWakes, ISuspendCancel, Zenon
<1>5. ASSUME NEW k \in Hosts, Migrate(k)
      PROVE  IInv'
  BY <1>5, IMigrate
<1>6. CASE Resume \/ Finish \/ BackendReady \/ BackendConnects
  BY <1>6, IResume, IFinishOne, IFinishEnds, IResumeRing, IBackendReady, IBackendConnects, Zenon
     DEF Finish
<1>7. ASSUME NEW m \in sent, NEW ok \in BOOLEAN, Serve(m, ok)
      PROVE  IInv'
  BY <1>7, IServe
<1>8. CASE UNCHANGED vars
  BY <1>8, ISame DEF vars, layer, ids, ring, threads, env, Holding, IInv, Held, HeldOk, OnRing
<1> QED BY <1>1, <1>2, <1>3, <1>4, <1>5, <1>6, <1>7, <1>8, Zenon DEF Next

LEMMA IInit ==
    ASSUME Init
    PROVE  IInv
<1> USE DEF Init
<1>1. Used
  BY DEF Used, IdOk, Empty
<1>2. Free
  <2>1. IsInjective(idle) /\ Range(idle) = {}
    BY DEF IsInjective, Range
  <2>2. {i \in 0 .. size - 1 : ~shadow[i].busy} = {}
    OBVIOUS
  <2> QED BY <2>1, <2>2 DEF Free
<1>3. Held
  BY DEF Held, HeldOk, Holding
<1>4. OnRing
  BY DEF OnRing, Empty
<1> QED BY <1>1, <1>2, <1>3, <1>4 DEF IInv
-----------------------------------------------------------------------------
(* As many values as arguments.                                            *)
LEMMA ImageOf ==
    ASSUME NEW S, IsFiniteSet(S), NEW f, f = [x \in S |-> f[x]], IsInjective(f)
    PROVE  IsFiniteSet(Range(f)) /\ Cardinality(Range(f)) = Cardinality(S)
<1>1. DOMAIN f = S
  OBVIOUS
<1>2. f \in [S -> Range(f)]
  BY <1>1 DEF Range
<1>3. f \in Injection(S, Range(f))
  BY <1>1, <1>2 DEF Injection, IsInjective
<1>4. f \in Surjection(S, Range(f))
  BY <1>1, <1>2 DEF Surjection, Range
<1> QED BY <1>3, <1>4, FS_Surjection

LEMMA SentCount ==
    ASSUME QInv, IInv
    PROVE  LET A == {m.id : m \in sent} IN
           IsFiniteSet(A) /\ Cardinality(A) = Cardinality(sent)
<1> DEFINE A == {m.id : m \in sent}
           f == [m \in sent |-> m.id]
<1>1. Range(f) = A
  BY DEF Range
<1>2. IsInjective(f)
  BY DEF IsInjective, IInv, OnRing
<1>3. IsFiniteSet(sent) /\ f = [m \in sent |-> f[m]]
  BY DEF QInv, Typed, RingTyped
<1> HIDE DEF f
<1>4. IsFiniteSet(Range(f)) /\ Cardinality(Range(f)) = Cardinality(sent)
  BY <1>2, <1>3, ImageOf
<1> QED BY <1>1, <1>4

LEMMA AnswerCount ==
    ASSUME QInv, IInv
    PROVE  LET B == {answers[k].id : k \in 1 .. Len(answers)} IN
           IsFiniteSet(B) /\ Cardinality(B) = Len(answers) /\ Len(answers) \in Nat
<1> DEFINE n == Len(answers)
           B == {answers[k].id : k \in 1 .. n}
           f == [k \in 1 .. n |-> answers[k].id]
<1>1. Range(f) = B
  BY DEF Range
<1>2. n \in Nat /\ DOMAIN answers = 1 .. n
  BY DEF QInv, Typed, RingTyped
<1>3. IsInjective(f)
  BY <1>2 DEF IsInjective, IInv, OnRing
<1>4. IsFiniteSet(1 .. n) /\ Cardinality(1 .. n) = n /\ f = [k \in 1 .. n |-> f[k]]
  <2>1. IsFiniteSet(1 .. n) /\ Cardinality(1 .. n) = IF 1 > n THEN 0 ELSE n - 1 + 1
    BY <1>2, FS_Interval
  <2> HIDE DEF n
  <2>2. Cardinality(1 .. n) = n
    BY <2>1, <1>2
  <2> QED BY <2>1, <2>2
<1> HIDE DEF f, n
<1>5. IsFiniteSet(Range(f)) /\ Cardinality(Range(f)) = Cardinality(1 .. n)
  BY <1>3, <1>4, ImageOf
<1> QED BY <1>1, <1>2, <1>4, <1>5 DEF n

LEMMA UnhandledCount ==
    ASSUME QInv, IInv
    PROVE  /\ IsFiniteSet(Unhandled) /\ Cardinality(Unhandled) = Cardinality(sent) + Len(answers)
           /\ \A i \in Ids : i \in Unhandled <=> Answered(i) \/ \E m \in sent : m.id = i
<1> DEFINE A == {m.id : m \in sent}
           B == {answers[k].id : k \in 1 .. Len(answers)}
<1>1. DOMAIN answers = 1 .. Len(answers)
  BY DEF QInv, Typed, RingTyped
<1>2. A \cap B = {}
  BY <1>1 DEF IInv, OnRing, Answered
<1>3. /\ IsFiniteSet(A) /\ Cardinality(A) = Cardinality(sent)
      /\ IsFiniteSet(B) /\ Cardinality(B) = Len(answers) /\ Len(answers) \in Nat
  BY SentCount, AnswerCount
<1>4. Cardinality(A \cap B) = 0 /\ Cardinality(A) \in Nat
  BY <1>2, <1>3, FS_EmptySet, FS_CardinalityType
<1>5. Unhandled = A \cup B
  BY DEF Unhandled
<1>6. \A i \in Ids : i \in A \cup B <=> Answered(i) \/ \E m \in sent : m.id = i
  BY <1>1 DEF Answered
<1> HIDE DEF A, B
<1>7. IsFiniteSet(A \cup B)
      /\ Cardinality(A \cup B) = Cardinality(A) + Cardinality(B) - Cardinality(A \cap B)
  BY <1>3, FS_Union
<1> QED BY <1>3, <1>4, <1>5, <1>6, <1>7

LEMMA HeldCount ==
    ASSUME QInv, IInv
    PROVE  Cardinality({rs[h].id : h \in InReset}) = Cardinality(InReset)
<1> DEFINE f == [h \in InReset |-> rs[h].id]
<1>1. Range(f) = {rs[h].id : h \in InReset}
  BY DEF Range
<1>2. IsInjective(f)
  BY DEF IsInjective, IInv, Held, InReset, Holding
<1>3. IsFiniteSet(InReset) /\ f = [h \in InReset |-> f[h]]
  BY Finite DEF QInv
<1> HIDE DEF f
<1> QED BY <1>1, <1>2, <1>3, ImageOf

(* A command is with one id, which is in use.                              *)
LEMMA InUse ==
    ASSUME QInv, IInv
    PROVE  \A i \in Ids : shadow[i].busy =>
               /\ i \in 0 .. size - 1
               /\ shadow[i].wait => \E h \in InReset : rs[h].id = i
<1> SUFFICES ASSUME NEW i \in Ids, shadow[i].busy
             PROVE  /\ i \in 0 .. size - 1
                    /\ shadow[i].wait => \E h \in InReset : rs[h].id = i
  OBVIOUS
<1>1. IdOk(i)
  BY DEF IInv, Used
<1>2. size \in Nat /\ i \in Nat /\ shadow[i].act \in {"cdb", "reset"}
  BY IdsFacts DEF QInv, Typed, RingTyped, ShadowType
<1> QED BY <1>1, <1>2 DEF IdOk, InReset, Holding

LEMMA AvailableFollows ==
    ASSUME QInv, IInv, "collect" \notin When
    PROVE  IdAvailable
<1> SUFFICES ASSUME lock = "none", ~RingFull, Collected,
                    Entered # {} \/ \E h \in Resetters : Looks(h)
             PROVE  size > 0 /\ idle # <<>>
  BY DEF IdAvailable
<1>1. size \in Nat /\ \A i \in 0 .. size - 1 : i \in Ids
  BY IdsFacts DEF Ids, QInv, Typed, RingTyped
<1>2. size # 0 /\ xb # "finish"
  BY DEF Entered, Looks, QInv, Counted, Staged, Unused
<1>3. Range(idle) # {}
  <2>1. CASE xb = "free"
    <3>1. 0 \in 0 .. size - 1
      BY <1>1, <1>2
    <3>2. ~shadow[0].busy
      BY <1>1, <2>1, <3>1 DEF IInv, OnRing
    <3> QED BY <3>1, <3>2 DEF IInv, Free
  <2>2. CASE xb # "free"
    <3> SUFFICES ASSUME Range(idle) = {} PROVE FALSE
      OBVIOUS
    <3>1. ASSUME NEW i \in 0 .. size - 1 PROVE i \in Unhandled
      <4>1. i \in Ids /\ shadow[i].busy
        BY <1>1 DEF IInv, Free
      <4>2. ~shadow[i].wait
        <5> SUFFICES ASSUME shadow[i].wait PROVE FALSE
          OBVIOUS
        <5>1. PICK h \in InReset : rs[h].id = i
          BY <4>1, InUse
        <5> QED BY <5>1 DEF InReset, Holding, Collected, Apart, IInv, Held, HeldOk
      <4> QED BY <1>2, <2>2, <4>1, <4>2, UnhandledCount DEF IInv, OnRing
    <3>2. IsFiniteSet(Unhandled) /\ Cardinality(Unhandled) = Cardinality(sent) + Len(answers)
      BY UnhandledCount
    <3>3. Cardinality(0 .. size - 1) <= Cardinality(Unhandled)
      BY <3>1, <3>2, FS_Subset
    <3>4. Cardinality(0 .. size - 1) = size
      <4>1. Cardinality(0 .. size - 1) = IF 0 > size - 1 THEN 0 ELSE size - 1 - 0 + 1
        BY <1>1, FS_Interval
      <4> QED BY <4>1, <1>1
    <3>5. Cardinality(Unhandled) \in Nat
      BY <3>2, FS_CardinalityType
    <3> QED BY <1>1, <3>2, <3>3, <3>4, <3>5 DEF RingFull
  <2> QED BY <2>1, <2>2
<1>4. idle # <<>>
  BY <1>3 DEF Range
<1> QED BY <1>1, <1>2, <1>4

LEMMA IdsFollow ==
    ASSUME QInv, IInv, "collect" \notin When
    PROVE  IdsKept
<1> DEFINE held == {rs[h].id : h \in InReset}
<1>1. IdAvailable
  BY AvailableFollows
<1>2. IsInjective(idle) /\ {idle[k] : k \in DOMAIN idle} = {i \in 0 .. size - 1 : ~shadow[i].busy}
  BY DEF IInv, Free, Range
<1>3. Cardinality(Unhandled) = Cardinality(sent) + Len(answers)
  BY UnhandledCount
<1>4. Cardinality(held) = Cardinality(InReset)
  BY HeldCount
<1>5. ASSUME NEW i \in Unhandled, xb \notin {"finish", "free"}
      PROVE  i \in Ids /\ shadow[i].busy /\ ~shadow[i].wait
  <2>1. i \in Ids
    <3>1. CASE \E m \in sent : i = m.id
      BY <3>1 DEF QInv, Typed, RingTyped, SentType
    <3>2. ASSUME NEW k \in 1 .. Len(answers), i = answers[k].id PROVE i \in Ids
      <4>1. answers[k] \in AnswerType
        BY DEF QInv, Typed, RingTyped
      <4> QED BY <3>2, <4>1 DEF AnswerType
    <3> QED BY <3>1, <3>2 DEF Unhandled
  <2> QED BY <2>1, <1>5, UnhandledCount DEF IInv, OnRing, SentOk, Answered
<1>6. ASSUME NEW i \in held
      PROVE  i \in Ids /\ shadow[i].busy
  BY DEF InReset, IInv, Held, HeldOk, Holding, QInv, Typed, ThreadsTyped
<1>7. ASSUME NEW i \in Ids, shadow[i].busy, xb \notin {"finish", "free"}
      PROVE  i \in Unhandled \/ (i \in held /\ shadow[i].wait)
  BY <1>7, InUse, UnhandledCount DEF IInv, OnRing
<1> HIDE DEF held
<1>8. xb \notin {"finish", "free"} =>
          /\ {i \in Ids : shadow[i].busy} = Unhandled \cup {i \in held : shadow[i].wait}
          /\ \A i \in held : shadow[i].wait <=> i \notin Unhandled
  BY <1>5, <1>6, <1>7
<1>9. \A c \in Cmds : at[c] = "driver" <=> \E i \in Ids : shadow[i].busy /\ shadow[i].cmd = c
  BY IdsFacts DEF IInv, Used, Uses, QInv, Carries
<1>10. \A i, j \in Ids : i # j /\ shadow[i].busy /\ shadow[j].busy /\ shadow[i].cmd # NoCmd
          => shadow[i].cmd # shadow[j].cmd
  BY DEF QInv, Carries
<1> QED BY <1>1, <1>2, <1>3, <1>4, <1>8, <1>9, <1>10 DEF IdsKept, held

(* IdsKept, of the free list and the ring: for any number of commands,     *)
(* resets and ids, when moreover no answer comes between a signal and the  *)
(* lock, and who asks for an id finds the answered resets collected.       *)
THEOREM IdsAreKept ==
    ASSUME When \cap {"entering", "worker", "hotplug", "reconnecting", "signal", "collect"} = {}
    PROVE  Spec => []IdsKept
<1>1. IHyp /\ QHyp /\ "collect" \notin When
  BY DEF IHyp, QHyp
<1>2. Init => QInv /\ IInv
  BY QInit, IInit
<1>3. QInv /\ IInv /\ [Next]_vars => (QInv /\ IInv)'
  BY <1>1, QNext, INext
<1>4. QInv /\ IInv => IdsKept
  BY <1>1, IdsFollow
<1> QED BY <1>2, <1>3, <1>4, PTL DEF Spec
-----------------------------------------------------------------------------
(* The encounters that the refinement has to do without.                   *)
FHyp == IHyp /\ "recovery" \notin When

(* A step that leaves the ring alone, and the error handler.               *)
LEMMA FSame ==
    ASSUME FInv, UNCHANGED <<shadow, sent, answers, written>>,
           \A c \in Cmds : FateOk(c)',
           \A c \in Cmds : at'[c] # "layer" =>
               at'[c] = at[c] /\ (c \in expired => c \in expired'),
           \A h \in Resetters : rs'[h] = rs[h] \/ h \in Interruptible \/ rs'[h].pc = "idle"
    PROVE  FInv'
<1>1. ASSUME NEW h \in Resetters PROVE RecoverOk(h)'
  <2>1. CASE h \in Interruptible \/ rs'[h].pc = "idle"
    BY <2>1 DEF RecoverOk
  <2>2. CASE h \notin Interruptible /\ rs'[h].pc # "idle" /\ rs'[h] = rs[h]
    BY <2>2 DEF FInv, RecoverOk
  <2> QED BY <2>1, <2>2
<1>2. WrittenOk'
  BY DEF FInv, WrittenOk
<1> QED BY <1>1, <1>2 DEF FInv

(* A command is let in only while no error handler is at work.             *)
LEMMA NoRecovery ==
    ASSUME FInv, NEW c \in Cmds, at[c] \in {"reading", "entered"}, NEW h \in Resetters
    PROVE  h \in Interruptible \/ rs[h].pc = "idle"
  BY DEF FInv, RecoverOk

LEMMA FSubmit ==
    ASSUME FHyp, QInv, QInv', IInv, IInv', FInv, NEW c \in Cmds, Submit(c)
    PROVE  FInv'
<1> USE DEF Submit, layer, gate, ids, ring, threads, env
<1>1. UNCHANGED <<shadow, sent, answers, written>>
  OBVIOUS
<1>2. \A d \in Cmds : FateOk(d)'
  BY DEF FInv, FateOk, QInv, Typed, LayerTyped, Staged, FHyp, Apart
<1>3. \A d \in Cmds : at'[d] # "layer" => at'[d] = at[d] /\ (d \in expired => d \in expired')
  BY DEF QInv, Typed, LayerTyped
<1>4. \A g \in Resetters : rs'[g] = rs[g] \/ g \in Interruptible \/ rs'[g].pc = "idle"
  BY DEF QInv, Typed, ThreadsTyped, RsType
<1> QED BY <1>1, <1>2, <1>3, <1>4, FSame

LEMMA FQueueBusy ==
    ASSUME FHyp, QInv, QInv', IInv, IInv', FInv, NEW c \in Cmds, QueueBusy(c)
    PROVE  FInv'
<1> USE DEF QueueBusy, layer, gate, ids, ring, threads, env
<1>1. UNCHANGED <<shadow, sent, answers, written>>
  OBVIOUS
<1>2. \A d \in Cmds : FateOk(d)'
  BY DEF FInv, FateOk, QInv, Typed, LayerTyped, Staged, FHyp, Apart
<1>3. \A d \in Cmds : at'[d] # "layer" => at'[d] = at[d] /\ (d \in expired => d \in expired')
  BY DEF QInv, Typed, LayerTyped
<1>4. \A g \in Resetters : rs'[g] = rs[g] \/ g \in Interruptible \/ rs'[g].pc = "idle"
  BY DEF QInv, Typed, ThreadsTyped, RsType
<1> QED BY <1>1, <1>2, <1>3, <1>4, FSame

LEMMA FQueueError ==
    ASSUME FHyp, QInv, QInv', IInv, IInv', FInv, NEW c \in Cmds, QueueError(c)
    PROVE  FInv'
<1> USE DEF QueueError, layer, gate, ids, ring, threads, env
<1>1. UNCHANGED <<shadow, sent, answers, written>>
  OBVIOUS
<1>2. \A d \in Cmds : FateOk(d)'
  BY DEF FInv, FateOk, QInv, Typed, LayerTyped, Staged, FHyp, Apart
<1>3. \A d \in Cmds : at'[d] # "layer" => at'[d] = at[d] /\ (d \in expired => d \in expired')
  BY DEF QInv, Typed, LayerTyped
<1>4. \A g \in Resetters : rs'[g] = rs[g] \/ g \in Interruptible \/ rs'[g].pc = "idle"
  BY DEF QInv, Typed, ThreadsTyped, RsType
<1> QED BY <1>1, <1>2, <1>3, <1>4, FSame

LEMMA FExpire ==
    ASSUME FHyp, QInv, QInv', IInv, IInv', FInv, NEW c \in Cmds, Expire(c)
    PROVE  FInv'
<1> USE DEF Expire, layer, gate, ids, ring, threads, env
<1>1. UNCHANGED <<shadow, sent, answers, written>>
  OBVIOUS
<1>2. \A d \in Cmds : FateOk(d)'
  BY DEF FInv, FateOk, QInv, Typed, LayerTyped, Staged, FHyp, Apart
<1>3. \A d \in Cmds : at'[d] # "layer" => at'[d] = at[d] /\ (d \in expired => d \in expired')
  BY DEF QInv, Typed, LayerTyped
<1>4. \A g \in Resetters : rs'[g] = rs[g] \/ g \in Interruptible \/ rs'[g].pc = "idle"
  BY DEF QInv, Typed, ThreadsTyped, RsType
<1> QED BY <1>1, <1>2, <1>3, <1>4, FSame

LEMMA FEnterReads ==
    ASSUME FHyp, QInv, QInv', IInv, IInv', FInv, NEW c \in Cmds, EnterReads(c)
    PROVE  FInv'
<1> USE DEF EnterReads, layer, gate, ids, ring, threads, env
<1>1. \A d \in Cmds : FateOk(d)'
  BY DEF FInv, FateOk, QInv, Typed, LayerTyped, Recovering
<1>2. ASSUME NEW h \in Resetters PROVE RecoverOk(h)'
  BY DEF RecoverOk, Recovering
<1>3. WrittenOk'
  BY DEF FInv, WrittenOk
<1> QED BY <1>1, <1>2, <1>3 DEF FInv

LEMMA FEnterWrites ==
    ASSUME FHyp, QInv, QInv', IInv, IInv', FInv, NEW c \in Cmds, EnterWrites(c)
    PROVE  FInv'
<1> USE DEF EnterWrites, layer, gate, ids, ring, threads, env
<1>1. \A d \in Cmds : FateOk(d)'
  BY DEF FInv, FateOk, QInv, Typed, LayerTyped
<1>2. ASSUME NEW h \in Resetters PROVE RecoverOk(h)'
  BY NoRecovery DEF RecoverOk
<1>3. WrittenOk'
  BY DEF FInv, WrittenOk
<1> QED BY <1>1, <1>2, <1>3 DEF FInv

LEMMA FQueueCommand ==
    ASSUME FHyp, QInv, QInv', IInv, IInv', FInv, NEW c \in Cmds, QueueCommand(c)
    PROVE  FInv'
<1> USE DEF QueueCommand, layer, gate, ids, ring, threads, env
<1>1. /\ Head(idle) \in Ids
      /\ shadow'[Head(idle)] = [busy |-> TRUE, act |-> "cdb", cmd |-> c, wait |-> FALSE,
                                rslt |-> "none"]
      /\ \A i \in Ids : i # Head(idle) => shadow'[i] = shadow[i]
  <2>1. \A i \in Ids : shadow[i].cmd # c
    BY IdsFacts DEF QInv, Carries
  <2> QED BY <2>1, PushTyped DEF QInv
<1>2. PICK e \in Ids : e = Head(idle)
  BY <1>1
<1>3. ~shadow[e].busy /\ \A i \in Ids : i # e => shadow'[i] = shadow[i]
  BY <1>1, <1>2, TailFree DEF Push, IInv, Free, QInv, Typed, RingTyped
<1>4. \A k \in DOMAIN answers : answers[k].id # e /\ answers[k].id \in Ids
  <2>1. ASSUME NEW k \in DOMAIN answers PROVE answers[k] \in AnswerType
    BY DEF QInv, Typed, RingTyped
  <2> QED BY <2>1, <1>3 DEF IInv, OnRing, AnswerType
<1>5. WrittenOk'
  BY <1>3, <1>4 DEF FInv, WrittenOk
<1>6. \A d \in Cmds : FateOk(d)'
  BY DEF FInv, FateOk, QInv, Typed, LayerTyped
<1>7. ASSUME NEW h \in Resetters PROVE RecoverOk(h)'
  BY NoRecovery DEF RecoverOk
<1> QED BY <1>5, <1>6, <1>7 DEF FInv

LEMMA FInterrupt ==
    ASSUME FHyp, QInv, QInv', IInv, IInv', FInv, Interrupt
    PROVE  FInv'
<1> USE DEF Interrupt, layer, gate, ids, ring, threads, env
<1>1. UNCHANGED <<shadow, sent, answers, written>>
  OBVIOUS
<1>2. \A d \in Cmds : FateOk(d)'
  BY DEF FInv, FateOk, QInv, Typed, LayerTyped, Staged, FHyp, Apart
<1>3. \A d \in Cmds : at'[d] # "layer" => at'[d] = at[d] /\ (d \in expired => d \in expired')
  BY DEF QInv, Typed, LayerTyped
<1>4. \A g \in Resetters : rs'[g] = rs[g] \/ g \in Interruptible \/ rs'[g].pc = "idle"
  BY DEF QInv, Typed, ThreadsTyped, RsType
<1> QED BY <1>1, <1>2, <1>3, <1>4, FSame

LEMMA FWorkerWakes ==
    ASSUME FHyp, QInv, QInv', IInv, IInv', FInv, WorkerWakes
    PROVE  FInv'
<1> USE DEF WorkerWakes, layer, gate, ids, ring, threads, env
<1>1. UNCHANGED <<shadow, sent, answers, written>>
  OBVIOUS
<1>2. \A d \in Cmds : FateOk(d)'
  BY DEF FInv, FateOk, QInv, Typed, LayerTyped, Staged, FHyp, Apart
<1>3. \A d \in Cmds : at'[d] # "layer" => at'[d] = at[d] /\ (d \in expired => d \in expired')
  BY DEF QInv, Typed, LayerTyped
<1>4. \A g \in Resetters : rs'[g] = rs[g] \/ g \in Interruptible \/ rs'[g].pc = "idle"
  BY DEF QInv, Typed, ThreadsTyped, RsType
<1> QED BY <1>1, <1>2, <1>3, <1>4, FSame

LEMMA FWorkerLocks ==
    ASSUME FHyp, QInv, QInv', IInv, IInv', FInv, WorkerLocks
    PROVE  FInv'
<1> USE DEF WorkerLocks, layer, gate, ids, ring, threads, env
<1>1. UNCHANGED <<shadow, sent, answers, written>>
  OBVIOUS
<1>2. \A d \in Cmds : FateOk(d)'
  BY DEF FInv, FateOk, QInv, Typed, LayerTyped, Staged, FHyp, Apart
<1>3. \A d \in Cmds : at'[d] # "layer" => at'[d] = at[d] /\ (d \in expired => d \in expired')
  BY DEF QInv, Typed, LayerTyped
<1>4. \A g \in Resetters : rs'[g] = rs[g] \/ g \in Interruptible \/ rs'[g].pc = "idle"
  BY DEF QInv, Typed, ThreadsTyped, RsType
<1> QED BY <1>1, <1>2, <1>3, <1>4, FSame

LEMMA FWorkerEnds ==
    ASSUME FHyp, QInv, QInv', IInv, IInv', FInv, WorkerEnds
    PROVE  FInv'
<1> USE DEF WorkerEnds, layer, gate, ids, ring, threads, env
<1>1. UNCHANGED <<shadow, sent, answers, written>>
  OBVIOUS
<1>2. \A d \in Cmds : FateOk(d)'
  BY DEF FInv, FateOk, QInv, Typed, LayerTyped, Staged, FHyp, Apart
<1>3. \A d \in Cmds : at'[d] # "layer" => at'[d] = at[d] /\ (d \in expired => d \in expired')
  BY DEF QInv, Typed, LayerTyped
<1>4. \A g \in Resetters : rs'[g] = rs[g] \/ g \in Interruptible \/ rs'[g].pc = "idle"
  BY DEF QInv, Typed, ThreadsTyped, RsType
<1> QED BY <1>1, <1>2, <1>3, <1>4, FSame

LEMMA FResetSends ==
    ASSUME FHyp, QInv, QInv', IInv, IInv', FInv, NEW h \in Resetters, ResetSends(h)
    PROVE  FInv'
<1> USE DEF ResetSends, layer, gate, ids, ring, threads, env
<1>1. /\ Head(idle) \in Ids
      /\ shadow'[Head(idle)] = [busy |-> TRUE, act |-> "reset", cmd |-> NoCmd, wait |-> FALSE,
                                rslt |-> "none"]
      /\ \A i \in Ids : i # Head(idle) => shadow'[i] = shadow[i]
  BY PushTyped DEF QInv
<1>2. PICK e \in Ids : e = Head(idle)
  BY <1>1
<1>3. ~shadow[e].busy /\ \A i \in Ids : i # e => shadow'[i] = shadow[i]
  BY <1>1, <1>2, TailFree DEF Push, IInv, Free, QInv, Typed, RingTyped
<1>4. \A k \in DOMAIN answers : answers[k].id # e /\ answers[k].id \in Ids
  <2>1. ASSUME NEW k \in DOMAIN answers PROVE answers[k] \in AnswerType
    BY DEF QInv, Typed, RingTyped
  <2> QED BY <2>1, <1>3 DEF IInv, OnRing, AnswerType
<1>5. WrittenOk'
  BY <1>3, <1>4 DEF FInv, WrittenOk
<1>6. \A d \in Cmds : FateOk(d)'
  BY DEF FInv, FateOk
<1>7. /\ rs[h].pc # "idle" /\ rs'[h].pc = "sent" /\ rs'[h].id = e /\ ~shadow'[e].wait
      /\ \A g \in Resetters : g # h => rs'[g] = rs[g]
      /\ \A m \in sent' : m \in sent \/ m.act = "reset"
  <2>1. rs[h].pc # "idle" /\ rs'[h].pc = "sent" /\ rs'[h].id = e
        /\ \A g \in Resetters : g # h => rs'[g] = rs[g]
    BY <1>2 DEF Looks, QInv, Typed, ThreadsTyped
  <2>2. ~shadow'[e].wait
    BY <1>1, <1>2
  <2>3. \A m \in sent' : m \in sent \/ m.act = "reset"
    BY DEF Push
  <2> QED BY <2>1, <2>2, <2>3
<1>8. ASSUME NEW g \in Resetters PROVE RecoverOk(g)'
  <2>1. CASE g = h
    BY <2>1, <1>4, <1>7 DEF FInv, RecoverOk
  <2>2. CASE g # h
    <3>1. rs[g].pc = "sent" => rs[g].id # e /\ rs[g].id \in Ids
      BY <1>3 DEF IInv, Held, HeldOk, Holding, QInv, Typed, ThreadsTyped
    <3> QED BY <2>2, <3>1, <1>3, <1>4, <1>7 DEF FInv, RecoverOk
  <2> QED BY <2>1, <2>2
<1> QED BY <1>5, <1>6, <1>8 DEF FInv

LEMMA FResetCall ==
    ASSUME FHyp, QInv, QInv', IInv, IInv', FInv, NEW h \in Resetters, ResetCall(h)
    PROVE  FInv'
<1> USE DEF ResetCall, layer, gate, ids, ring, threads, env
<1>1. \A d \in Cmds : FateOk(d)'
  BY DEF FInv, FateOk
<1>2. rs'[h].pc = "called" /\ \A g \in Resetters : g # h => rs'[g] = rs[g]
  BY DEF QInv, Typed, ThreadsTyped, RsType
<1>3. ASSUME NEW g \in Resetters PROVE RecoverOk(g)'
  <2>1. CASE g = h
    BY <2>1, <1>2 DEF FInv, FateOk, RecoverOk
  <2>2. CASE g # h
    BY <2>2, <1>2 DEF FInv, RecoverOk
  <2> QED BY <2>1, <2>2
<1>4. WrittenOk'
  BY DEF FInv, WrittenOk
<1> QED BY <1>1, <1>3, <1>4 DEF FInv

LEMMA FResetWaits ==
    ASSUME FHyp, QInv, QInv', IInv, IInv', FInv, NEW h \in Resetters, ResetWaits(h)
    PROVE  FInv'
<1> USE DEF ResetWaits, Looks, layer, gate, ids, ring, threads, env
<1>1. \A d \in Cmds : FateOk(d)'
  BY DEF FInv, FateOk
<1>2. /\ rs[h].pc # "idle" /\ rs'[h].pc = "slot"
      /\ \A g \in Resetters : g # h => rs'[g] = rs[g]
  BY DEF QInv, Typed, ThreadsTyped, RsType
<1>3. ASSUME NEW g \in Resetters PROVE RecoverOk(g)'
  <2>1. CASE g = h
    BY <2>1, <1>2 DEF FInv, RecoverOk
  <2>2. CASE g # h
    BY <2>2, <1>2 DEF FInv, RecoverOk
  <2> QED BY <2>1, <2>2
<1>4. WrittenOk'
  BY DEF FInv, WrittenOk
<1> QED BY <1>1, <1>3, <1>4 DEF FInv

LEMMA FResetFails ==
    ASSUME FHyp, QInv, QInv', IInv, IInv', FInv, NEW h \in Resetters, ResetFails(h)
    PROVE  FInv'
<1> USE DEF ResetFails, Looks, layer, gate, ids, ring, threads, env
<1>1. \A d \in Cmds : FateOk(d)'
  BY DEF FInv, FateOk
<1>2. /\ rs[h].pc # "idle" /\ rs'[h].pc = "returned"
      /\ \A g \in Resetters : g # h => rs'[g] = rs[g]
  BY DEF QInv, Typed, ThreadsTyped, RsType
<1>3. ASSUME NEW g \in Resetters PROVE RecoverOk(g)'
  <2>1. CASE g = h
    BY <2>1, <1>2 DEF FInv, RecoverOk, FateOk, QInv, Staged
  <2>2. CASE g # h
    BY <2>2, <1>2 DEF FInv, RecoverOk
  <2> QED BY <2>1, <2>2
<1>4. WrittenOk'
  BY DEF FInv, WrittenOk
<1> QED BY <1>1, <1>3, <1>4 DEF FInv

LEMMA FHandle ==
    ASSUME FHyp, QInv, QInv', IInv, IInv', FInv, Handle
    PROVE  FInv'
<1> DEFINE r == answers[1]
<1>1. /\ Len(answers) \in Nat /\ Len(answers) >= 1 /\ answers \in Seq(AnswerType)
      /\ DOMAIN answers = 1 .. Len(answers) /\ DOMAIN answers' = 1 .. Len(answers) - 1
      /\ \A k \in 1 .. Len(answers) - 1 : answers'[k] = answers[k + 1]
      /\ Head(answers) = r /\ r \in AnswerType
  BY TailTyped DEF Handle, QInv, Typed, RingTyped
<1>2. PICK i \in Ids : i = r.id
  BY <1>1 DEF AnswerType
<1>3. shadow[i].busy /\ ~shadow[i].wait /\ IdOk(i) /\ 1 \in DOMAIN answers
  BY <1>1, <1>2 DEF IInv, OnRing, Used
<1>4. /\ UNCHANGED <<size, lock, sent, rs, xb, expired, written>>
      /\ DoResponse(i, r.ok) /\ r.ok \in BOOLEAN
  BY <1>1, <1>2 DEF Handle, ring, threads, env, AnswerType
<1>5. \A k \in DOMAIN answers' :
          /\ k + 1 \in DOMAIN answers /\ answers'[k] = answers[k + 1]
          /\ answers'[k].id # i /\ answers'[k].id \in Ids
  <2>1. ASSUME NEW k \in DOMAIN answers'
        PROVE  k + 1 \in DOMAIN answers /\ k + 1 # 1 /\ answers'[k] = answers[k + 1]
               /\ answers[k + 1] \in AnswerType
    BY <1>1
  <2> QED BY <2>1, <1>2, <1>3 DEF IInv, OnRing, AnswerType
<1> HIDE DEF r
<1>6. \A j \in Ids : j # i => shadow'[j] = shadow[j]
  <2>1. CASE AddIdToFreelist(i)
    BY <2>1, FreeTyped DEF QInv, Typed, RingTyped
  <2>2. CASE shadow' = [shadow EXCEPT ![i].wait = TRUE, ![i].rslt = "answered"]
    BY <2>2 DEF QInv, Typed, RingTyped
  <2> QED BY <1>4, <2>1, <2>2 DEF DoResponse, SyncCmdDone
<1>7. /\ \A d \in Cmds :
          (at'[d] = at[d] /\ result'[d] = result[d]) \/ (at[d] = "driver" /\ at'[d] = "layer")
      /\ \A d \in expired : result'[d] = result[d]
  BY <1>3, <1>4 DEF DoResponse, ScsiDone, IdOk, QInv, Typed, LayerTyped, Carries
<1>8. \A d \in Cmds : FateOk(d)'
  BY <1>4, <1>7 DEF FInv, FateOk
<1>9. WrittenOk'
  BY <1>4, <1>5, <1>6 DEF FInv, WrittenOk
<1>10. ASSUME NEW g \in Resetters PROVE RecoverOk(g)'
  <2> SUFFICES ASSUME g \notin Interruptible, rs'[g].pc # "idle" PROVE RecoverOk(g)'
    BY DEF RecoverOk
  <2>0. RecoverOk(g) /\ rs'[g] = rs[g]
    BY <1>4 DEF FInv
  <2>1. /\ rs'[g].pc \notin {"hurried", "signalled"}
        /\ \A c \in Cmds : at'[c] # "layer" => at'[c] = "driver" /\ c \in expired'
        /\ rs'[g].pc = "returned" => \A c \in Cmds : at'[c] = "layer"
    BY <2>0, <1>4, <1>7 DEF RecoverOk
  <2>2. CASE rs[g].pc # "sent"
    BY <2>0, <2>1, <2>2 DEF RecoverOk
  <2>3. CASE rs[g].pc = "sent" /\ rs[g].id # i
    <3>1. rs[g].id \in Ids /\ shadow'[rs[g].id] = shadow[rs[g].id]
      BY <2>3, <1>6 DEF QInv, Typed, ThreadsTyped, Holding
    <3>2. ASSUME NEW k \in DOMAIN answers', answers'[k].id = rs'[g].id
          PROVE  /\ \A m \in sent' : m.act = "reset"
                 /\ \A l \in DOMAIN answers' : l > k => shadow'[answers'[l].id].act = "reset"
      <4>1. k + 1 \in DOMAIN answers /\ answers[k + 1].id = rs[g].id
        BY <3>2, <1>5, <2>0
      <4>2. \A m \in sent : m.act = "reset"
        BY <4>1, <2>0, <2>3 DEF RecoverOk
      <4>3. \A l \in DOMAIN answers : l > k + 1 => shadow[answers[l].id].act = "reset"
        BY <4>1, <2>0, <2>3 DEF RecoverOk
      <4>4. ASSUME NEW l \in DOMAIN answers', l > k PROVE l + 1 > k + 1
        BY <4>4, <1>1
      <4> QED BY <4>2, <4>3, <4>4, <1>4, <1>5, <1>6
    <3>3. shadow'[rs'[g].id].wait => \A c \in Cmds : at'[c] = "layer"
      BY <3>1, <2>0, <2>3, <1>7 DEF RecoverOk
    <3> QED BY <2>1, <3>2, <3>3 DEF RecoverOk
  <2>4. CASE rs[g].pc = "sent" /\ rs[g].id = i
    <3>1. /\ \A m \in sent : m.act = "reset"
          /\ \A l \in DOMAIN answers : l > 1 => shadow[answers[l].id].act = "reset"
      BY <2>0, <2>4, <1>2, <1>3 DEF RecoverOk, r
    <3>2. ASSUME NEW c \in Cmds, at'[c] = "driver" PROVE FALSE
      <4>1. PICK j \in Ids : Uses(j, c)'
        BY <3>2 DEF IInv, Used
      <4>2. shadow'[j].busy /\ shadow'[j].act = "cdb" /\ ~shadow'[j].wait
        BY <4>1 DEF Uses, IInv, Used, IdOk
      <4>3. xb' \notin {"finish", "free"}
        BY <2>4, <1>4 DEF QInv, Counted, Holding
      <4>4. CASE Answered(j)'
        <5>1. PICK k \in DOMAIN answers' : answers'[k].id = j
          BY <4>4 DEF Answered
        <5>2. k + 1 \in DOMAIN answers /\ k + 1 > 1 /\ answers[k + 1].id = j /\ j # i
          BY <5>1, <1>1, <1>5
        <5>3. shadow[j].act = "reset" /\ shadow'[j] = shadow[j]
          BY <5>2, <3>1, <1>6
        <5> QED BY <5>3, <4>2
      <4>5. ASSUME NEW m \in sent', m.id = j PROVE FALSE
        BY <4>2, <4>3, <4>5, <3>1, <1>4 DEF IInv, OnRing, SentOk
      <4> QED BY <4>2, <4>3, <4>4, <4>5 DEF IInv, OnRing
    <3>3. \A c \in Cmds : at'[c] = "layer"
      BY <2>1, <3>2
    <3>4. \A k \in DOMAIN answers' : answers'[k].id # rs'[g].id
      BY <1>5, <2>0, <2>4
    <3> QED BY <2>1, <3>3, <3>4 DEF RecoverOk
  <2> QED BY <2>2, <2>3, <2>4
<1> QED BY <1>8, <1>9, <1>10 DEF FInv

LEMMA FResetCollects ==
    ASSUME FHyp, QInv, QInv', IInv, IInv', FInv, NEW h \in Resetters, ResetCollects(h)
    PROVE  FInv'
<1>1. PICK i \in Ids : i = rs[h].id
  BY DEF ResetCollects, QInv, Typed, ThreadsTyped, Holding
<1>2. /\ UNCHANGED <<sent, answers, xb, at, result, expired, written>>
      /\ Holding(h) /\ rs'[h].pc = "returned" /\ rs[h].pc = "sent" /\ shadow[i].wait
      /\ \A g \in Resetters : g # h => rs'[g] = rs[g]
  BY <1>1 DEF ResetCollects, layer, ring, env, Holding, QInv, Typed, ThreadsTyped
<1>3. /\ \A j \in Ids : j # i => shadow'[j] = shadow[j]
  BY <1>1, FreeTyped DEF ResetCollects, QInv, Typed, RingTyped
<1>a. \A k \in DOMAIN answers : answers[k].id # i /\ answers[k].id \in Ids
  <2>1. ASSUME NEW k \in DOMAIN answers PROVE answers[k] \in AnswerType
    BY DEF QInv, Typed, RingTyped
  <2> QED BY <2>1, <1>2 DEF IInv, OnRing, AnswerType
<1>4. WrittenOk'
  BY <1>2, <1>3, <1>a DEF FInv, WrittenOk
<1>5. \A d \in Cmds : FateOk(d)'
  BY <1>2 DEF FInv, FateOk
<1>6. ASSUME NEW g \in Resetters PROVE RecoverOk(g)'
  <2>1. CASE g = h
    BY <2>1, <1>1, <1>2 DEF FInv, RecoverOk
  <2>2. CASE g # h
    <3>1. rs[g].pc = "sent" => rs[g].id # i /\ rs[g].id \in Ids
      BY <2>2, <1>1, <1>2 DEF IInv, Held, Holding, QInv, Typed, ThreadsTyped
    <3> QED BY <2>2, <3>1, <1>2, <1>3, <1>a DEF FInv, RecoverOk
  <2> QED BY <2>1, <2>2
<1> QED BY <1>4, <1>5, <1>6 DEF FInv

LEMMA FResetAbandons ==
    ASSUME FHyp, QInv, QInv', IInv, IInv', FInv, NEW h \in Resetters, ResetAbandons(h)
    PROVE  FInv'
<1>1. PICK i \in Ids : i = rs[h].id
  BY DEF ResetAbandons, QInv, Typed, ThreadsTyped, Holding
<1>2. /\ UNCHANGED <<sent, answers, xb, at, result, expired, written>>
      /\ Holding(h) /\ rs'[h].pc = "returned" /\ rs[h].pc = "signalled"
      /\ \A g \in Resetters : g # h => rs'[g] = rs[g]
  BY <1>1 DEF ResetAbandons, layer, ring, env, Holding, QInv, Typed, ThreadsTyped
<1>3. /\ \A j \in Ids : j # i => shadow'[j] = shadow[j]
  BY <1>1 DEF ResetAbandons, QInv, Typed, RingTyped
<1>a. /\ \A k \in DOMAIN answers : answers[k].id \in Ids
      /\ \A j \in Ids : shadow'[j].act = shadow[j].act /\ shadow'[j].cmd = shadow[j].cmd
  <2>1. ASSUME NEW k \in DOMAIN answers PROVE answers[k] \in AnswerType
    BY DEF QInv, Typed, RingTyped
  <2>2. shadow[i] \in ShadowType /\ shadow \in [Ids -> ShadowType]
    BY DEF QInv, Typed, RingTyped
  <2>3. shadow'[i].act = shadow[i].act /\ shadow'[i].cmd = shadow[i].cmd
    BY <1>1, <2>2 DEF ResetAbandons, ShadowType
  <2> QED BY <2>1, <2>3, <1>3 DEF AnswerType
<1>4. WrittenOk'
  BY <1>2, <1>a DEF FInv, WrittenOk
<1>5. \A d \in Cmds : FateOk(d)'
  BY <1>2 DEF FInv, FateOk
<1>6. ASSUME NEW g \in Resetters PROVE RecoverOk(g)'
  <2>1. CASE g = h
    BY <2>1, <1>1, <1>2 DEF FInv, RecoverOk
  <2>2. CASE g # h
    <3>1. rs[g].pc = "sent" => rs[g].id # i /\ rs[g].id \in Ids
      BY <2>2, <1>1, <1>2 DEF IInv, Held, Holding, QInv, Typed, ThreadsTyped
    <3> QED BY <2>2, <3>1, <1>2, <1>3, <1>a DEF FInv, RecoverOk
  <2> QED BY <2>1, <2>2
<1> QED BY <1>4, <1>5, <1>6 DEF FInv

LEMMA FSignal ==
    ASSUME FHyp, QInv, QInv', IInv, IInv', FInv, NEW h \in Resetters, Signal(h)
    PROVE  FInv'
<1> USE DEF Signal, layer, gate, ids, ring, threads, env
<1>1. UNCHANGED <<shadow, sent, answers, written>>
  OBVIOUS
<1>2. \A d \in Cmds : FateOk(d)'
  BY DEF FInv, FateOk, QInv, Typed, LayerTyped, Staged, FHyp, Apart
<1>3. \A d \in Cmds : at'[d] # "layer" => at'[d] = at[d] /\ (d \in expired => d \in expired')
  BY DEF QInv, Typed, LayerTyped
<1>4. \A g \in Resetters : rs'[g] = rs[g] \/ g \in Interruptible \/ rs'[g].pc = "idle"
  BY DEF QInv, Typed, ThreadsTyped, RsType
<1> QED BY <1>1, <1>2, <1>3, <1>4, FSame

LEMMA FResetReturns ==
    ASSUME FHyp, QInv, QInv', IInv, IInv', FInv, NEW h \in Resetters, ResetReturns(h)
    PROVE  FInv'
<1> USE DEF ResetReturns, layer, gate, ids, ring, threads, env
<1>1. UNCHANGED <<shadow, sent, answers, written>>
  OBVIOUS
<1>2. \A d \in Cmds : FateOk(d)'
  BY DEF FInv, FateOk, QInv, Typed, LayerTyped, Staged, FHyp, Apart, FInv, RecoverOk
<1>3. \A d \in Cmds : at'[d] # "layer" => at'[d] = at[d] /\ (d \in expired => d \in expired')
  BY DEF QInv, Typed, LayerTyped, FInv, RecoverOk
<1>4. \A g \in Resetters : rs'[g] = rs[g] \/ g \in Interruptible \/ rs'[g].pc = "idle"
  BY DEF QInv, Typed, ThreadsTyped, RsType
<1> QED BY <1>1, <1>2, <1>3, <1>4, FSame

LEMMA FConnect ==
    ASSUME FHyp, QInv, QInv', IInv, IInv', FInv, Connect
    PROVE  FInv'
<1> USE DEF Connect, layer, gate, ids, ring, threads, env
<1>1. UNCHANGED <<shadow, sent, answers, written>>
  OBVIOUS
<1>2. \A d \in Cmds : FateOk(d)'
  BY DEF FInv, FateOk, QInv, Typed, LayerTyped, Staged, FHyp, Apart
<1>3. \A d \in Cmds : at'[d] # "layer" => at'[d] = at[d] /\ (d \in expired => d \in expired')
  BY DEF QInv, Typed, LayerTyped
<1>4. \A g \in Resetters : rs'[g] = rs[g] \/ g \in Interruptible \/ rs'[g].pc = "idle"
  BY DEF QInv, Typed, ThreadsTyped, RsType
<1> QED BY <1>1, <1>2, <1>3, <1>4, FSame

LEMMA FReconfigured ==
    ASSUME FHyp, QInv, QInv', IInv, IInv', FInv, Reconfigured
    PROVE  FInv'
<1> USE DEF Reconfigured, layer, gate, ids, ring, threads, env
<1>1. UNCHANGED <<shadow, sent, answers, written>>
  OBVIOUS
<1>2. \A d \in Cmds : FateOk(d)'
  BY DEF FInv, FateOk, QInv, Typed, LayerTyped, Staged, FHyp, Apart
<1>3. \A d \in Cmds : at'[d] # "layer" => at'[d] = at[d] /\ (d \in expired => d \in expired')
  BY DEF QInv, Typed, LayerTyped
<1>4. \A g \in Resetters : rs'[g] = rs[g] \/ g \in Interruptible \/ rs'[g].pc = "idle"
  BY DEF QInv, Typed, ThreadsTyped, RsType
<1> QED BY <1>1, <1>2, <1>3, <1>4, FSame

LEMMA FSuspend ==
    ASSUME FHyp, QInv, QInv', IInv, IInv', FInv, Suspend
    PROVE  FInv'
<1> USE DEF Suspend, layer, gate, ids, ring, threads, env, WaitsForCallers
<1>1. UNCHANGED <<shadow, sent, answers, written>>
  OBVIOUS
<1>2. \A d \in Cmds : FateOk(d)'
  BY DEF FInv, FateOk, QInv, Typed, LayerTyped, Staged, FHyp, Apart
<1>3. \A d \in Cmds : at'[d] # "layer" => at'[d] = at[d] /\ (d \in expired => d \in expired')
  BY DEF QInv, Typed, LayerTyped
<1>4. \A g \in Resetters : rs'[g] = rs[g] \/ g \in Interruptible \/ rs'[g].pc = "idle"
  BY DEF QInv, Typed, ThreadsTyped, RsType
<1> QED BY <1>1, <1>2, <1>3, <1>4, FSame

LEMMA FSuspendWakes ==
    ASSUME FHyp, QInv, QInv', IInv, IInv', FInv, SuspendWakes
    PROVE  FInv'
<1> USE DEF SuspendWakes, layer, gate, ids, ring, threads, env, WaitsForCallers
<1>1. UNCHANGED <<shadow, sent, answers, written>>
  OBVIOUS
<1>2. \A d \in Cmds : FateOk(d)'
  BY DEF FInv, FateOk, QInv, Typed, LayerTyped, Staged, FHyp, Apart
<1>3. \A d \in Cmds : at'[d] # "layer" => at'[d] = at[d] /\ (d \in expired => d \in expired')
  BY DEF QInv, Typed, LayerTyped
<1>4. \A g \in Resetters : rs'[g] = rs[g] \/ g \in Interruptible \/ rs'[g].pc = "idle"
  BY DEF QInv, Typed, ThreadsTyped, RsType
<1> QED BY <1>1, <1>2, <1>3, <1>4, FSame

LEMMA FSuspendCancel ==
    ASSUME FHyp, QInv, QInv', IInv, IInv', FInv, SuspendCancel
    PROVE  FInv'
<1> USE DEF SuspendCancel, layer, gate, ids, ring, threads, env
<1>1. UNCHANGED <<shadow, sent, answers, written>>
  OBVIOUS
<1>2. \A d \in Cmds : FateOk(d)'
  BY DEF FInv, FateOk, QInv, Typed, LayerTyped, Staged, FHyp, Apart
<1>3. \A d \in Cmds : at'[d] # "layer" => at'[d] = at[d] /\ (d \in expired => d \in expired')
  BY DEF QInv, Typed, LayerTyped
<1>4. \A g \in Resetters : rs'[g] = rs[g] \/ g \in Interruptible \/ rs'[g].pc = "idle"
  BY DEF QInv, Typed, ThreadsTyped, RsType
<1> QED BY <1>1, <1>2, <1>3, <1>4, FSame

LEMMA FMigrate ==
    ASSUME FHyp, QInv, QInv', IInv, IInv', FInv, NEW k \in Hosts, Migrate(k)
    PROVE  FInv'
<1> USE DEF Migrate, layer, gate, ids, ring, threads, env
<1>1. UNCHANGED <<shadow, sent, answers, written>>
  OBVIOUS
<1>2. \A d \in Cmds : FateOk(d)'
  BY DEF FInv, FateOk, QInv, Typed, LayerTyped, Staged, FHyp, Apart
<1>3. \A d \in Cmds : at'[d] # "layer" => at'[d] = at[d] /\ (d \in expired => d \in expired')
  BY DEF QInv, Typed, LayerTyped
<1>4. \A g \in Resetters : rs'[g] = rs[g] \/ g \in Interruptible \/ rs'[g].pc = "idle"
  BY DEF QInv, Typed, ThreadsTyped, RsType
<1> QED BY <1>1, <1>2, <1>3, <1>4, FSame

LEMMA FResume ==
    ASSUME FHyp, QInv, QInv', IInv, IInv', FInv, Resume
    PROVE  FInv'
<1> USE DEF Resume, layer, gate, ids, ring, threads, env
<1>1. UNCHANGED <<shadow, sent, answers, written>>
  OBVIOUS
<1>2. \A d \in Cmds : FateOk(d)'
  BY DEF FInv, FateOk, QInv, Typed, LayerTyped, Staged, FHyp, Apart
<1>3. \A d \in Cmds : at'[d] # "layer" => at'[d] = at[d] /\ (d \in expired => d \in expired')
  BY DEF QInv, Typed, LayerTyped
<1>4. \A g \in Resetters : rs'[g] = rs[g] \/ g \in Interruptible \/ rs'[g].pc = "idle"
  BY DEF QInv, Typed, ThreadsTyped, RsType
<1> QED BY <1>1, <1>2, <1>3, <1>4, FSame

LEMMA FFinishEnds ==
    ASSUME FHyp, QInv, QInv', IInv, IInv', FInv, FinishEnds
    PROVE  FInv'
<1> USE DEF FinishEnds, layer, gate, ids, ring, threads, env
<1>1. UNCHANGED <<shadow, sent, answers, written>>
  OBVIOUS
<1>2. \A d \in Cmds : FateOk(d)'
  BY DEF FInv, FateOk, QInv, Typed, LayerTyped, Staged, FHyp, Apart
<1>3. \A d \in Cmds : at'[d] # "layer" => at'[d] = at[d] /\ (d \in expired => d \in expired')
  BY DEF QInv, Typed, LayerTyped
<1>4. \A g \in Resetters : rs'[g] = rs[g] \/ g \in Interruptible \/ rs'[g].pc = "idle"
  BY DEF QInv, Typed, ThreadsTyped, RsType
<1> QED BY <1>1, <1>2, <1>3, <1>4, FSame

LEMMA FBackendReady ==
    ASSUME FHyp, QInv, QInv', IInv, IInv', FInv, BackendReady
    PROVE  FInv'
<1> USE DEF BackendReady, layer, gate, ids, ring, threads, env
<1>1. UNCHANGED <<shadow, sent, answers, written>>
  OBVIOUS
<1>2. \A d \in Cmds : FateOk(d)'
  BY DEF FInv, FateOk, QInv, Typed, LayerTyped, Staged, FHyp, Apart
<1>3. \A d \in Cmds : at'[d] # "layer" => at'[d] = at[d] /\ (d \in expired => d \in expired')
  BY DEF QInv, Typed, LayerTyped
<1>4. \A g \in Resetters : rs'[g] = rs[g] \/ g \in Interruptible \/ rs'[g].pc = "idle"
  BY DEF QInv, Typed, ThreadsTyped, RsType
<1> QED BY <1>1, <1>2, <1>3, <1>4, FSame

LEMMA FBackendConnects ==
    ASSUME FHyp, QInv, QInv', IInv, IInv', FInv, BackendConnects
    PROVE  FInv'
<1> USE DEF BackendConnects, layer, gate, ids, ring, threads, env
<1>1. UNCHANGED <<shadow, sent, answers, written>>
  OBVIOUS
<1>2. \A d \in Cmds : FateOk(d)'
  BY DEF FInv, FateOk, QInv, Typed, LayerTyped, Staged, FHyp, Apart
<1>3. \A d \in Cmds : at'[d] # "layer" => at'[d] = at[d] /\ (d \in expired => d \in expired')
  BY DEF QInv, Typed, LayerTyped
<1>4. \A g \in Resetters : rs'[g] = rs[g] \/ g \in Interruptible \/ rs'[g].pc = "idle"
  BY DEF QInv, Typed, ThreadsTyped, RsType
<1> QED BY <1>1, <1>2, <1>3, <1>4, FSame

LEMMA FFinishOne ==
    ASSUME FHyp, QInv, QInv', IInv, IInv', FInv, FinishOne
    PROVE  FInv'
<1>1. /\ lock = "resume" /\ xb = "finish" /\ xb' = xb /\ answers = <<>> /\ answers' = <<>>
      /\ rs' = rs /\ expired' = expired /\ DOMAIN answers' = {}
      /\ \A h \in Resetters : rs[h].pc # "sent"
  BY DEF FinishOne, QInv, Staged, Counted, Holding, ring, threads, env
<1>2. PICK i \in Ids : shadow[i].busy /\ DoResponse(i, FALSE)
  BY DEF FinishOne
<1>3. IdOk(i)
  BY DEF IInv, Used
<1>4. \A d \in Cmds :
          (at'[d] = at[d] /\ result'[d] = result[d]) \/ (at[d] = "driver" /\ at'[d] = "layer")
  BY <1>2, <1>3 DEF DoResponse, ScsiDone, IdOk, QInv, Typed, LayerTyped, Carries
<1>5. \A d \in Cmds : d \notin expired
  BY <1>1 DEF FInv, FateOk
<1>6. \A d \in Cmds : FateOk(d)'
  BY <1>1, <1>4, <1>5 DEF FInv, FateOk
<1>7. WrittenOk'
  BY <1>1 DEF WrittenOk
<1>8. ASSUME NEW h \in Resetters PROVE RecoverOk(h)'
  BY <1>1, <1>4 DEF FInv, RecoverOk
<1> QED BY <1>6, <1>7, <1>8 DEF FInv

LEMMA FFirstRing ==
    ASSUME FHyp, QInv, QInv', IInv, IInv', FInv, FirstRing
    PROVE  FInv'
<1>1. /\ UNCHANGED <<result, at, expired, rs>> /\ xb # "idle" /\ answers' = <<>>
      /\ DOMAIN answers' = {}
      /\ \A h \in Resetters : rs[h].pc # "sent"
  BY DEF FirstRing, NewRing, layer, threads, QInv, Counted, Holding
<1>2. \A d \in Cmds : FateOk(d)'
  BY <1>1 DEF FInv, FateOk
<1>3. WrittenOk'
  BY <1>1 DEF WrittenOk
<1>4. ASSUME NEW h \in Resetters PROVE RecoverOk(h)'
  BY <1>1 DEF FInv, RecoverOk
<1> QED BY <1>2, <1>3, <1>4 DEF FInv

LEMMA FResumeRing ==
    ASSUME FHyp, QInv, QInv', IInv, IInv', FInv, ResumeRing
    PROVE  FInv'
<1>1. /\ UNCHANGED <<result, at, expired, rs>> /\ xb # "idle" /\ answers' = <<>>
      /\ DOMAIN answers' = {}
      /\ \A h \in Resetters : rs[h].pc # "sent"
  BY DEF ResumeRing, NewRing, layer, threads, QInv, Counted, Holding
<1>2. \A d \in Cmds : FateOk(d)'
  BY <1>1 DEF FInv, FateOk
<1>3. WrittenOk'
  BY <1>1 DEF WrittenOk
<1>4. ASSUME NEW h \in Resetters PROVE RecoverOk(h)'
  BY <1>1 DEF FInv, RecoverOk
<1> QED BY <1>2, <1>3, <1>4 DEF FInv

LEMMA FServe ==
    ASSUME FHyp, QInv, QInv', IInv, IInv', FInv, NEW m \in sent, NEW ok \in BOOLEAN, Serve(m, ok)
    PROVE  FInv'
<1>1. UNCHANGED <<shadow, at, xb, rs, result, expired>> /\ sent' = sent \ {m}
  BY DEF Serve, ids, threads, env
<1>2. xb \notin {"finish", "free"}
  BY DEF Serve, QInv, Staged
<1>3. /\ Len(answers) \in Nat /\ DOMAIN answers = 1 .. Len(answers)
      /\ DOMAIN answers' = 1 .. Len(answers) + 1
      /\ answers'[Len(answers) + 1] = [id |-> m.id, ok |-> ok]
      /\ \A k \in DOMAIN answers : answers'[k] = answers[k]
  <2>1. PICK a \in AnswerType : a = [id |-> m.id, ok |-> ok] /\ answers' = Append(answers, a)
    BY DEF Serve, QInv, Typed, RingTyped, SentType, AnswerType
  <2> QED BY <2>1 DEF QInv, Typed, RingTyped
<1>5. SentOk(m)
  BY <1>2 DEF IInv, OnRing
<1>6. /\ \A k \in DOMAIN answers' : k \in DOMAIN answers \/ k = Len(answers) + 1
      /\ \A k \in DOMAIN answers : k <= Len(answers)
  BY <1>3
<1>7. \A d \in Cmds : FateOk(d)'
  BY <1>1 DEF FInv, FateOk
<1>8. WrittenOk'
  <2>1. written \subseteq written' /\ (ok /\ m.act = "cdb" => <<m.cmd, 1>> \in written')
    BY DEF Serve
  <2>2. ASSUME NEW k \in DOMAIN answers', answers'[k].ok, shadow'[answers'[k].id].act = "cdb"
        PROVE  <<shadow'[answers'[k].id].cmd, 1>> \in written'
    <3>1. CASE k \in DOMAIN answers
      BY <3>1, <2>1, <2>2, <1>1, <1>3 DEF FInv, WrittenOk
    <3>2. CASE k = Len(answers) + 1
      BY <3>2, <2>1, <2>2, <1>1, <1>3, <1>5 DEF SentOk
    <3> QED BY <3>1, <3>2, <1>6
  <2> QED BY <2>2 DEF WrittenOk
<1>9. ASSUME NEW g \in Resetters PROVE RecoverOk(g)'
  <2> SUFFICES ASSUME g \notin Interruptible, rs[g].pc = "sent", NEW k \in DOMAIN answers',
                      answers'[k].id = rs[g].id
               PROVE  /\ \A n \in sent' : n.act = "reset"
                      /\ \A l \in DOMAIN answers' : l > k => shadow[answers'[l].id].act = "reset"
    BY <1>1 DEF RecoverOk, FInv
  <2>1. CASE k \in DOMAIN answers
    <3>1. /\ \A n \in sent : n.act = "reset"
          /\ \A l \in DOMAIN answers : l > k => shadow[answers[l].id].act = "reset"
      BY <2>1, <1>3 DEF FInv, RecoverOk
    <3>2. shadow[m.id].act = "reset"
      BY <3>1, <1>5 DEF SentOk
    <3> QED BY <3>1, <3>2, <1>1, <1>3, <1>6
  <2>2. CASE k = Len(answers) + 1
    <3>1. m.id = rs[g].id
      BY <2>2, <1>3
    <3>2. m.act = "reset"
      BY <3>1, <1>5 DEF SentOk, IInv, Held, HeldOk, Holding
    <3>3. \A n \in sent : n.act = "reset"
      BY <3>2 DEF Serve
    <3>4. \A l \in DOMAIN answers' : ~(l > k)
      BY <2>2, <1>3
    <3> QED BY <3>3, <3>4, <1>1
  <2> QED BY <2>1, <2>2, <1>6
<1> QED BY <1>7, <1>8, <1>9 DEF FInv

LEMMA FNext ==
    ASSUME FHyp, QInv, QInv', IInv, IInv', FInv, [Next]_vars
    PROVE  FInv'
<1>1. ASSUME NEW c \in Cmds, Submit(c) \/ Command(c) \/ Expire(c)
      PROVE  FInv'
  BY <1>1, FSubmit, FEnterReads, FEnterWrites, FQueueBusy, FQueueError, FQueueCommand, FExpire,
     Zenon
     DEF Command
<1>2. CASE Interrupt \/ WorkerWakes \/ WorkerLocks \/ Handle \/ WorkerEnds
  BY <1>2, FInterrupt, FWorkerWakes, FWorkerLocks, FHandle, FWorkerEnds, Zenon
<1>3. ASSUME NEW h \in Resetters, ResetCall(h) \/ Signal(h) \/ Reset(h)
      PROVE  FInv'
  BY <1>3, FResetCall, FSignal, FResetWaits, FResetFails, FResetSends, FResetCollects,
     FResetAbandons, FResetReturns, Zenon
     DEF Reset
<1>4. CASE FirstRing \/ Connect \/ Reconfigured \/ Suspend \/ SuspendWakes \/ SuspendCancel
  BY <1>4, FFirstRing, FConnect, FReconfigured, FSuspend, FSuspendWakes, FSuspendCancel, Zenon
<1>5. ASSUME NEW k \in Hosts, Migrate(k)
      PROVE  FInv'
  BY <1>5, FMigrate
<1>6. CASE Resume \/ Finish \/ BackendReady \/ BackendConnects
  BY <1>6, FResume, FFinishOne, FFinishEnds, FResumeRing, FBackendReady, FBackendConnects, Zenon
     DEF Finish
<1>7. ASSUME NEW m \in sent, NEW ok \in BOOLEAN, Serve(m, ok)
      PROVE  FInv'
  BY <1>7, FServe
<1>8. CASE UNCHANGED vars
  <2>1. UNCHANGED <<result, at, expired, xb, rs, shadow, sent, answers, written>>
    BY <1>8 DEF vars, layer, ids, ring, threads, env
  <2>2. \A c \in Cmds : FateOk(c)'
    BY <2>1 DEF FInv, FateOk
  <2> QED BY <2>1, <2>2, FSame
<1> QED BY <1>1, <1>2, <1>3, <1>4, <1>5, <1>6, <1>7, <1>8, Zenon DEF Next

LEMMA FInit ==
    ASSUME Init
    PROVE  FInv
<1> USE DEF Init
<1>1. \A c \in Cmds : FateOk(c)
  BY DEF FateOk
<1>2. \A h \in Resetters : RecoverOk(h)
  BY DEF RecoverOk
<1>3. WrittenOk
  BY DEF WrittenOk
<1> QED BY <1>1, <1>2, <1>3 DEF FInv
-----------------------------------------------------------------------------
(* Each step is one of the device, or is not seen.                         *)
Allowed == UNCHANGED <<result, written>> \/ Promise!Next

LEMMA Ends ==
    ASSUME Typed, NEW c \in Cmds, result[c] = "pending", written' = written,
           \/ result' = [result EXCEPT ![c] = "error"]
           \/ result' = [result EXCEPT ![c] = "ok"] /\ <<c, 1>> \in written
    PROVE  Allowed
<1> DEFINE Chunk == [d \in Cmds |-> 1]
<1>1. CASE result' = [result EXCEPT ![c] = "error"]
  <2>1. Promise!End(c)
    BY <1>1 DEF Promise!End
  <2> QED BY <2>1 DEF Allowed, Promise!Next
<1>2. CASE result' = [result EXCEPT ![c] = "ok"] /\ <<c, 1>> \in written
  <2>1. Promise!Parts(c) = {<<c, 1>>}
    BY DEF Promise!Parts
  <2>2. Promise!End(c)
    BY <1>2, <2>1 DEF Promise!End
  <2> QED BY <2>2 DEF Allowed, Promise!Next
<1> QED BY <1>1, <1>2

LEMMA ResponseEnds ==
    ASSUME QInv, IInv, FInv, NEW i \in Ids, shadow[i].busy, NEW ok \in BOOLEAN,
           DoResponse(i, ok), written' = written,
           ok /\ shadow[i].act = "cdb" => <<shadow[i].cmd, 1>> \in written
    PROVE  Allowed
<1>1. IdOk(i)
  BY DEF IInv, Used
<1>2. CASE shadow[i].act = "cdb" /\ ScsiDone(shadow[i].cmd, ok)
  <2>1. PICK c \in Cmds : c = shadow[i].cmd
    BY <1>1, <1>2 DEF IdOk
  <2>2. at[c] = "driver" /\ result[c] = "pending"
    BY <2>1, IdsFacts DEF QInv, Carries, FInv, FateOk
  <2>3. CASE c \in expired
    <3>1. result' = result
      BY <1>2, <2>1, <2>3 DEF ScsiDone, QInv, Typed, LayerTyped
    <3> QED BY <3>1 DEF Allowed
  <2>4. CASE c \notin expired
    <3>1. result' = [result EXCEPT ![c] = IF ok THEN "ok" ELSE "error"]
      BY <1>2, <2>1, <2>2, <2>4 DEF ScsiDone, QInv, Typed, LayerTyped
    <3> QED BY <3>1, <1>2, <2>1, <2>2, Ends DEF QInv
  <2> QED BY <2>3, <2>4
<1>3. CASE UNCHANGED <<at, result>>
  BY <1>3 DEF Allowed
<1> QED BY <1>2, <1>3 DEF DoResponse

LEMMA CommandAllowed ==
    ASSUME QInv, IInv, FInv, NEW c \in Cmds, Submit(c) \/ Command(c) \/ Expire(c)
    PROVE  Allowed
<1>1. CASE Submit(c)
  <2>1. Promise!Submit(c)
    BY <1>1 DEF Submit, Promise!Submit
  <2> QED BY <2>1 DEF Allowed, Promise!Next
<1>2. CASE QueueError(c)
  <2>1. result[c] = "pending" /\ result' = [result EXCEPT ![c] = "error"] /\ written' = written
    BY <1>2 DEF QueueError, FInv, FateOk
  <2> QED BY <2>1, Ends DEF QInv
<1>3. CASE EnterReads(c) \/ EnterWrites(c) \/ QueueBusy(c) \/ QueueCommand(c) \/ Expire(c)
  BY <1>3 DEF EnterReads, EnterWrites, QueueBusy, QueueCommand, Expire, Allowed
<1> QED BY <1>1, <1>2, <1>3 DEF Command

LEMMA HandleAllowed ==
    ASSUME QInv, IInv, FInv, Handle
    PROVE  Allowed
<1>1. 1 \in DOMAIN answers /\ answers[1] \in AnswerType /\ Head(answers) = answers[1]
  BY TailTyped DEF Handle, QInv, Typed, RingTyped
<1>2. PICK i \in Ids : i = answers[1].id
  BY <1>1 DEF AnswerType
<1>3. PICK ok \in BOOLEAN : ok = answers[1].ok
  BY <1>1 DEF AnswerType
<1>4. shadow[i].busy /\ (ok /\ shadow[i].act = "cdb" => <<shadow[i].cmd, 1>> \in written)
  BY <1>1, <1>2, <1>3 DEF IInv, OnRing, FInv, WrittenOk
<1>5. DoResponse(i, ok) /\ written' = written
  BY <1>1, <1>2, <1>3 DEF Handle
<1> QED BY <1>4, <1>5, ResponseEnds

LEMMA ResetAllowed ==
    ASSUME QInv, IInv, FInv, NEW h \in Resetters, ResetCall(h) \/ Signal(h) \/ Reset(h)
    PROVE  Allowed
<1>1. CASE ResetReturns(h)
  <2>1. ASSUME NEW c \in expired, result' = [result EXCEPT ![c] = "error"] PROVE Allowed
    <3>1. c \in Cmds /\ result[c] = "pending" /\ written' = written
      BY <1>1 DEF ResetReturns, FInv, FateOk, QInv, Typed, LayerTyped
    <3> QED BY <2>1, <3>1, Ends DEF QInv
  <2> QED BY <1>1, <2>1 DEF ResetReturns, Allowed
<1>2. CASE ResetCall(h) \/ Signal(h) \/ ResetWaits(h) \/ ResetFails(h)
  BY <1>2 DEF ResetCall, Signal, ResetWaits, ResetFails, layer, Allowed
<1>3. CASE ResetSends(h) \/ ResetCollects(h) \/ ResetAbandons(h)
  BY <1>3 DEF ResetSends, ResetCollects, ResetAbandons, layer, Allowed
<1> QED BY <1>1, <1>2, <1>3 DEF Reset

LEMMA FinishAllowed ==
    ASSUME QInv, IInv, FInv, Finish
    PROVE  Allowed
<1>1. CASE FinishOne
  <2>1. PICK i \in Ids : shadow[i].busy /\ DoResponse(i, FALSE)
    BY <1>1 DEF FinishOne
  <2>2. written' = written
    BY <1>1 DEF FinishOne
  <2> QED BY <2>1, <2>2, ResponseEnds
<1>2. CASE FinishEnds \/ ResumeRing
  BY <1>2 DEF FinishEnds, ResumeRing, layer, Allowed
<1> QED BY <1>1, <1>2 DEF Finish

LEMMA ServeAllowed ==
    ASSUME QInv, IInv, FInv, NEW m \in sent, NEW ok \in BOOLEAN, Serve(m, ok)
    PROVE  Allowed
<1>1. result' = result
  BY DEF Serve
<1>2. CASE ok /\ m.act = "cdb"
  <2>1. m.id \in Ids /\ SentOk(m)
    BY DEF Serve, QInv, Staged, IInv, OnRing, Typed, RingTyped, SentType
  <2>2. IdOk(m.id)
    BY <2>1 DEF IInv, Used
  <2>3. PICK c \in Cmds : c = m.cmd
    BY <1>2, <2>1, <2>2 DEF SentOk, IdOk
  <2>4. result[c] = "pending"
    BY <2>1, <2>3, IdsFacts DEF SentOk, QInv, Carries, FInv, FateOk
  <2>5. written' = written \cup {<<c, 1>>}
    BY <1>2, <2>3 DEF Serve
  <2>6. {<<c, 1>>} \in SUBSET Promise!Parts(c)
    BY DEF Promise!Parts
  <2>7. Promise!Write(c)
    BY <1>1, <2>4, <2>5, <2>6 DEF Promise!Write
  <2> QED BY <2>7 DEF Allowed, Promise!Next
<1>3. CASE ~(ok /\ m.act = "cdb")
  BY <1>1, <1>3 DEF Serve, Allowed
<1> QED BY <1>2, <1>3

LEMMA NextAllowed ==
    ASSUME QInv, IInv, FInv, [Next]_vars
    PROVE  Allowed
<1>1. CASE Interrupt \/ WorkerWakes \/ WorkerLocks \/ WorkerEnds
  BY <1>1 DEF Interrupt, WorkerWakes, WorkerLocks, WorkerEnds, layer, Allowed
<1>2. CASE FirstRing \/ Connect \/ Reconfigured \/ Resume \/ BackendReady \/ BackendConnects
  BY <1>2 DEF FirstRing, Connect, Reconfigured, Resume, BackendReady, BackendConnects, layer,
              Allowed
<1>3. CASE Suspend \/ SuspendWakes \/ SuspendCancel \/ \E k \in Hosts : Migrate(k)
  BY <1>3 DEF Suspend, SuspendWakes, SuspendCancel, Migrate, layer, Allowed
<1>4. CASE UNCHANGED vars
  BY <1>4 DEF vars, layer, Allowed
<1> QED BY <1>1, <1>2, <1>3, <1>4, CommandAllowed, HandleAllowed, ResetAllowed, FinishAllowed,
           ServeAllowed, Zenon
        DEF Next

(* The driver implements the device that the SCSI layer expects, of        *)
(* scsifront_do_response, scsifront_finish_all and the error handling:     *)
(* every command ends at most once, and "ok" only if the backend carried   *)
(* it out, when moreover no suspend meets the error handler.               *)
THEOREM Implements ==
    ASSUME When \cap {"entering", "worker", "hotplug", "reconnecting", "signal", "recovery"} = {}
    PROVE  Spec => Device
<1>1. FHyp /\ IHyp /\ QHyp
  BY DEF FHyp, IHyp, QHyp
<1>2. Init => QInv /\ IInv /\ FInv
  BY QInit, IInit, FInit
<1>3. QInv /\ IInv /\ FInv /\ [Next]_vars => (QInv /\ IInv /\ FInv)'
  BY <1>1, QNext, INext, FNext
<1>4. Init => Promise!Init
  BY DEF Init, Promise!Init
<1>5. QInv /\ IInv /\ FInv /\ [Next]_vars => [Promise!Next]_<<result, written>>
  BY NextAllowed DEF Allowed
<1> QED BY <1>2, <1>3, <1>4, <1>5, PTL DEF Spec, Device, Promise!Spec
=============================================================================
