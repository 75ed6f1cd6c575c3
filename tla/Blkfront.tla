------------------------------ MODULE Blkfront ------------------------------
(***************************************************************************)
(* The block front end, xen-vbd/3.12.49/blkfront.c: requests, responses,   *)
(* and recovery after a migration.                                         *)
(*                                                                         *)
(* A request of the block layer is split into chunks of                    *)
(* BLKIF_MAX_SEGMENTS_PER_REQUEST segments.  One chunk fits a plain ring   *)
(* request; more need an indirect one, whose segments are in a table that  *)
(* the ring slot owns (info->indirect_segs).  A backend without indirect   *)
(* requests gets them chunk by chunk after a resume (resume_split).        *)
(*                                                                         *)
(* The transport below is IoRing, the grant pool is Gnttab: here a ring is *)
(* what it holds, and the pool is a number.                                *)
(***************************************************************************)
EXTENDS Integers, FiniteSets, Sequences, SequencesExt

CONSTANTS
    Reqs,       \* the block layer's requests, each used once
    Chunks,     \* the number of chunks of each request
    Backends,   \* what backends offer: [ring : its entries, indirect : BOOLEAN]
    Grants,     \* grant references in the pool
    Others,     \* how many of them other drivers may hold at a time
    Migrations, \* bound on the number of migrations
    When,       \* the moments at which a migration happens, see Moment
    NoReq, NoTable

Top(S)    == CHOOSE n \in S : \A k \in S : k <= n
MaxChunks == Top({Chunks[r] : r \in Reqs})
MaxRing   == Top({b.ring : b \in Backends})
Ids       == 0 .. MaxRing - 1
Tables    == 1 .. 2 * MaxRing

ASSUME BlkAssumption ==
    /\ IsFiniteSet(Reqs) /\ Reqs # {} /\ NoReq \notin Reqs
    /\ Chunks \in [Reqs -> Nat \ {0}]
    /\ IsFiniteSet(Backends) /\ Backends # {}
    /\ Backends \subseteq [ring : Nat \ {0}, indirect : BOOLEAN]
    /\ Grants \in Nat /\ Others \in Nat /\ Migrations \in Nat
    /\ When \subseteq {"connected", "splitting", "suspended", "disconnected", "oversized",
                 "outgrown"}
    /\ NoTable \notin Tables

VARIABLES
    queue, stopped,     \* info->rq: waiting requests, QUEUE_FLAG_STOPPED
    result, written,    \* what BlkDevice promises
    connected,          \* info->connected
    lock,               \* info->io_lock: what its holder is doing
    xb,                 \* where probe, backend_changed or resume is
    keep,               \* the argument "suspend" of blkif_free
    limit,              \* the limit on chunks of info->rq (0: no xlvbd_add yet)
    size, maxSegs,      \* RING_SIZE, max_segs_per_req in chunks (0: unset)
    old,                \* talk_to_backend's old_ring_size
    idle,               \* the free list of shadow entries
    shadow,             \* info->shadow
    frames,             \* the shadow entries' frame arrays
    segs,               \* info->indirect_segs and its length
    live, contents,     \* tables not vfree'd, and what they describe
    batch, sent,        \* ring requests: not yet pushed, at the backend
    answers,            \* responses not yet handled
    resume_list, resume_split,
    pool, others,       \* free grant references, and those of other drivers
    callback, work,     \* info->callback is queued, info->work is scheduled
    backend,            \* the backend, as xenstore shows it
    migrations

io   == <<queue, stopped, result, lock>>
ring == <<batch, sent, answers>>
ids  == <<idle, shadow>>
tabs == <<segs, live, contents>>
rec  == <<resume_list, resume_split>>
mem  == <<pool, others, callback, work>>
conn == <<connected, xb, keep, limit, size, maxSegs, old, frames>>
env  == <<backend, migrations>>
vars == <<io, written, ring, ids, tabs, rec, mem, conn, env>>

(* A shadow entry or a resume entry: the request, the kind of ring request *)
(* it is kept as, the number of chunks left and, for a plain one, which.   *)
Copy(r, op, n, chunk) == [req |-> r, op |-> op, n |-> n, chunk |-> chunk]
Empty == Copy(NoReq, "none", 0, 0)

(* RING_FULL                                                               *)
RingFull == Len(batch) + Cardinality(sent) + Len(answers) >= size

(* References that a request of n chunks holds, the table's page included. *)
Refs(n) == IF n > 1 THEN n + 1 ELSE n

(* References put back: a waiting callback that they satisfy schedules     *)
(* the work item.                                                          *)
Freed(k) ==
    /\ pool' = pool + k
    /\ LET due == callback /\ pool + k >= Refs(maxSegs)
       IN  callback' = (callback /\ ~due) /\ work' = (work \/ due)

(* vfree of tables: what they hold from now on describes nothing.          *)
Vfree(ts) ==
    /\ live' = live \ ts
    /\ contents' = [t \in Tables |-> IF t \in live' THEN contents[t]
                                     ELSE [req |-> NoReq, from |-> 0]]

(* flush_requests                                                          *)
Flush ==
    /\ sent' = sent \cup ToSet(batch)
    /\ batch' = <<>>

-----------------------------------------------------------------------------
(* Before probe.                                                           *)
Init ==
    /\ queue = <<>> /\ stopped = FALSE /\ lock = "none"
    /\ result = [r \in Reqs |-> "new"] /\ written = {}
    /\ connected = "DISCONNECTED" /\ xb = "probe" /\ keep = FALSE /\ limit = 0
    /\ size = 0 /\ maxSegs = 0 /\ old = 0
    /\ idle = <<0>> /\ shadow = [i \in Ids |-> Empty] /\ frames = "none"
    /\ segs = [len |-> 0, at |-> [i \in Ids |-> NoTable]]
    /\ live = {} /\ contents = [t \in Tables |-> [req |-> NoReq, from |-> 0]]
    /\ batch = <<>> /\ sent = {} /\ answers = <<>>
    /\ resume_list = <<>> /\ resume_split = <<>>
    /\ pool = Grants /\ others = 0 /\ callback = FALSE /\ work = FALSE
    /\ \E b \in Backends : backend = [kind |-> b, state |-> "Initialising"]
    /\ migrations = 0
-----------------------------------------------------------------------------
(* The block layer and do_blkif_request, which it calls with the queue's   *)
(* lock, io_lock, held.                                                    *)

Submit(r) ==
    /\ Chunks[r] <= limit /\ xb # "connecting"      \* add_disk comes last
    /\ result[r] = "new" /\ lock = "none"
    /\ result' = [result EXCEPT ![r] = "pending"]
    /\ queue' = Append(queue, r)
    /\ UNCHANGED <<stopped, lock, written, ring, ids, tabs, rec, mem, conn, env>>

RunQueue ==
    /\ lock = "none" /\ ~stopped /\ queue # <<>>
    /\ lock' = "issue"
    /\ UNCHANGED <<queue, stopped, result, written, ring, ids, tabs, rec, mem, conn, env>>

(* The loop is left with the queue stopped: the ring is full, the device   *)
(* is not connected, or there are not enough references, in which case     *)
(* blkif_queue_request asks for a callback.                                *)
CanIssue == ~RingFull /\ connected = "CONNECTED" /\ pool >= Refs(maxSegs)

(* Mutant: no callback is asked for.                                       *)
IssueStopsUnwatched ==
    /\ lock = "issue" /\ queue # <<>> /\ ~CanIssue
    /\ stopped' = TRUE
    /\ lock' = "none"
    /\ Flush
    /\ UNCHANGED <<queue, result, written, answers, ids, tabs, rec, mem, conn, env>>

IssueStops ==
    /\ lock = "issue" /\ queue # <<>> /\ ~CanIssue
    /\ stopped' = TRUE
    /\ callback' = (callback \/ (~RingFull /\ connected = "CONNECTED"))
    /\ lock' = "none"
    /\ Flush
    /\ UNCHANGED <<queue, result, written, answers, ids, tabs, rec, pool, others,
                   work, conn, env>>

IssueEnds ==
    /\ lock = "issue" /\ queue = <<>>
    /\ lock' = "none"
    /\ Flush
    /\ UNCHANGED <<queue, stopped, result, written, answers, ids, tabs, rec, mem, conn, env>>

(* What goes on the ring: a plain request names its chunk, an indirect one *)
(* the table the backend will read.                                        *)
Plain(id, r, chunk)   == [id |-> id, req |-> r, chunk |-> chunk, n |-> 1, table |-> NoTable]
Indirect(id, r, n, t) == [id |-> id, req |-> r, chunk |-> 0, n |-> n, table |-> t]

(* blkif_queue_request                                                     *)
Issue ==
    /\ lock = "issue" /\ queue # <<>> /\ CanIssue
    /\ LET r  == Head(queue)
           n  == Chunks[r]
           id == Head(idle)
           t  == segs.at[id]
       IN  /\ n <= maxSegs      \* BUG_ON otherwise
           /\ idle' = Tail(idle)
           /\ IF n = 1
                 THEN /\ batch' = Append(batch, Plain(id, r, 1))
                      /\ shadow' = [shadow EXCEPT ![id] = Copy(r, "plain", 1, 1)]
                      /\ UNCHANGED contents
                 ELSE /\ batch' = Append(batch, Indirect(id, r, n, t))
                      /\ shadow' = [shadow EXCEPT ![id] = Copy(r, "indirect", n, 0)]
                      /\ contents' = [contents EXCEPT ![t] = [req |-> r, from |-> 1]]
           /\ pool' = pool - Refs(n)
    /\ queue' = Tail(queue)
    /\ UNCHANGED <<stopped, result, lock, written, sent, answers, segs, live, rec,
                   others, callback, work, conn, env>>
-----------------------------------------------------------------------------
(* The event channel, blkif_int and the work item.                         *)

Interrupt ==
    /\ lock = "none" /\ connected = "CONNECTED" /\ backend.state = "Connected"
    /\ lock' = "handle"
    /\ UNCHANGED <<queue, stopped, result, written, ring, ids, tabs, rec, mem, conn, env>>

(* blkif_restart_queue                                                     *)
Work ==
    /\ work /\ lock = "none"
    /\ work' = FALSE
    /\ lock' = IF connected = "CONNECTED" THEN "replay" ELSE "none"
    /\ UNCHANGED <<queue, stopped, result, written, ring, ids, tabs, rec, pool,
                   others, callback, conn, env>>

(* The end of a request for the block layer.                               *)
Ended(r, ok) ==
    result' = [result EXCEPT ![r] = IF @ # "pending" THEN "again"
                                    ELSE IF ok THEN "ok" ELSE "error"]

(* A shadow entry goes back: ADD_ID_TO_FREELIST.                           *)
Release(id) ==
    /\ shadow' = [shadow EXCEPT ![id] = Empty]
    /\ idle' = <<id>> \o idle

(* blkif_completion's search of resume_split for the entry with this id.   *)
SplitAt(id) == {k \in DOMAIN resume_split : resume_split[k].id = id}
FirstOf(S)  == CHOOSE k \in S : \A l \in S : k <= l

(* A response to a whole request.                                          *)
HandleWhole ==
    /\ lock = "handle" /\ answers # <<>>
    /\ LET id == Head(answers).id
           s  == shadow[id]
       IN  /\ s.req # NoReq
           /\ s.op = "indirect" => SplitAt(id) = {}
           /\ Freed(Refs(s.n))
           /\ Release(id)
           /\ Ended(s.req, Head(answers).ok)
    /\ answers' = Tail(answers)
    /\ UNCHANGED <<queue, stopped, lock, written, batch, sent, tabs, rec, others,
                   conn, env>>

(* Mutant: the first chunk's response ends the request.                    *)
HandleSplitEnds ==
    /\ lock = "handle" /\ answers # <<>>
    /\ LET id == Head(answers).id
           s  == shadow[id]
       IN  /\ s.op = "indirect" /\ SplitAt(id) # {}
           /\ resume_split' = RemoveAt(resume_split, FirstOf(SplitAt(id)))
           /\ Freed(1)
           /\ Release(id)
           /\ Ended(s.req, Head(answers).ok)
    /\ answers' = Tail(answers)
    /\ UNCHANGED <<queue, stopped, lock, written, batch, sent, tabs, resume_list,
                   others, conn, env>>

(* A response to the first chunk of a split request.  On success the rest  *)
(* goes back to resume_list, as a plain request if one chunk is left.  On  *)
(* error the request ends; the references of the rest are not put back.    *)
HandleSplit ==
    /\ lock = "handle" /\ answers # <<>>
    /\ LET id == Head(answers).id
           s  == shadow[id]
           k  == FirstOf(SplitAt(id))
           e  == resume_split[k]
           t  == segs.at[id]
           op == IF e.n - 1 <= 1 THEN "plain" ELSE "indirect"
       IN  /\ s.op = "indirect" /\ SplitAt(id) # {}
           /\ resume_split' = RemoveAt(resume_split, k)
           /\ Freed(1)
           /\ Release(id)
           /\ \/ /\ ~Head(answers).ok
                 /\ Ended(s.req, FALSE)
                 /\ UNCHANGED <<contents, resume_list>>
              \/ /\ Head(answers).ok
                 /\ contents' = [contents EXCEPT ![t].from = @ + 1]
                 /\ resume_list' = Append(resume_list,
                       [e EXCEPT !.op = op, !.n = @ - 1, !.chunk = contents[t].from + 1])
                 /\ UNCHANGED result
    /\ answers' = Tail(answers)
    /\ UNCHANGED <<queue, stopped, lock, written, batch, sent, segs, live, others,
                   conn, env>>

(* Mutant: the stopped queue is left to somebody else to kick.             *)
HandleEndsQuietly ==
    /\ lock = "handle" /\ answers = <<>>
    /\ lock' = "none"
    /\ UNCHANGED <<queue, stopped, result, written, ring, ids, tabs, rec, mem, conn, env>>

(* No more responses: RING_FINAL_CHECK_FOR_RESPONSES, then                 *)
(* kick_pending_request_queues.                                            *)
HandleEnds ==
    /\ lock = "handle" /\ answers = <<>>
    /\ lock' = "replay"
    /\ UNCHANGED <<queue, stopped, result, written, ring, ids, tabs, rec, mem, conn, env>>
-----------------------------------------------------------------------------
(* kick_pending_request_queues: one entry of resume_list at a time.        *)

ReplayPlain ==
    /\ lock = "replay" /\ resume_list # <<>> /\ ~RingFull
    /\ LET e  == Head(resume_list)
           id == Head(idle)
       IN  /\ e.op = "plain"
           /\ idle' = Tail(idle)
           /\ batch' = Append(batch, Plain(id, e.req, e.chunk))
           /\ shadow' = [shadow EXCEPT ![id] = Copy(e.req, e.op, e.n, e.chunk)]
    /\ resume_list' = Tail(resume_list)
    /\ UNCHANGED <<io, written, sent, answers, tabs, resume_split, mem, conn, env>>

(* The entry's table replaces the one of the slot, which moves to the last *)
(* slot without one, or is freed.                                          *)
Vacant == {i \in 0 .. size - 1 : segs.at[i] = NoTable}

TakeSlot(id, t) ==
    LET spare == segs.at[id]
        moved == IF spare # NoTable /\ Vacant # {}
                    THEN [segs.at EXCEPT ![Top(Vacant)] = spare]
                    ELSE segs.at
    IN  /\ segs' = [segs EXCEPT !.at = [moved EXCEPT ![id] = t]]
        /\ IF Vacant = {} THEN Vfree({spare}) ELSE UNCHANGED <<live, contents>>

(* An indirect request goes out whole if the new backend takes it, and is  *)
(* split otherwise: split_request.                                         *)
ReplayIndirect ==
    /\ lock = "replay" /\ resume_list # <<>> /\ ~RingFull
    /\ LET e  == Head(resume_list)
           id == Head(idle)
       IN  /\ e.op = "indirect"
           /\ idle' = Tail(idle)
           /\ shadow' = [shadow EXCEPT ![id] = Copy(e.req, e.op, e.n, 0)]
           /\ TakeSlot(id, e.table)
           /\ \/ /\ e.n > maxSegs
                 /\ batch' = Append(batch, Plain(id, e.req, contents'[e.table].from))
                 /\ resume_split' = Append(resume_split, [e EXCEPT !.id = id])
              \/ /\ e.n <= maxSegs
                 /\ batch' = Append(batch, Indirect(id, e.req, e.n, e.table))
                 /\ UNCHANGED resume_split
    /\ resume_list' = Tail(resume_list)
    /\ UNCHANGED <<io, written, sent, answers, mem, conn, env>>

(* Mutant: the queue is started while a split request is under way.        *)
ReplayEndsEarly ==
    /\ lock = "replay" /\ (resume_list = <<>> \/ RingFull)
    /\ Flush
    /\ \/ /\ resume_list = <<>> /\ ~RingFull
          /\ stopped' = FALSE
          /\ lock' = "issue"
       \/ /\ resume_list # <<>> \/ RingFull
          /\ lock' = "none"
          /\ UNCHANGED stopped
    /\ UNCHANGED <<queue, result, written, answers, ids, tabs, rec, mem, conn, env>>

(* Once nothing is left to recover, the queue is started and run.          *)
ReplayEnds ==
    /\ lock = "replay" /\ (resume_list = <<>> \/ RingFull)
    /\ Flush
    /\ \/ /\ resume_split = <<>> /\ resume_list = <<>> /\ ~RingFull
          /\ stopped' = FALSE
          /\ lock' = "issue"
       \/ /\ resume_split # <<>> \/ resume_list # <<>> \/ RingFull
          /\ lock' = "none"
          /\ UNCHANGED stopped
    /\ UNCHANGED <<queue, result, written, answers, ids, tabs, rec, mem, conn, env>>
-----------------------------------------------------------------------------
(* The rest of the domain and of the machine.                              *)

OtherTakes ==
    /\ lock = "none" /\ others < Others /\ pool > 0
    /\ others' = others + 1 /\ pool' = pool - 1
    /\ UNCHANGED <<io, written, ring, ids, tabs, rec, callback, work, conn, env>>

OtherReleases ==
    /\ others > 0 /\ others' = others - 1
    /\ Freed(1)
    /\ UNCHANGED <<io, written, ring, ids, tabs, rec, conn, env>>

BackendReady ==
    /\ backend.state = "Initialising"
    /\ backend' = [backend EXCEPT !.state = "InitWait"]
    /\ UNCHANGED <<io, written, ring, ids, tabs, rec, mem, conn, migrations>>

(* Once the front end is Initialised.                                      *)
BackendConnects ==
    /\ backend.state = "InitWait"
    /\ xb \in {"initialised", "recover", "kick", "surplus", "idle"}
    /\ backend' = [backend EXCEPT !.state = "Connected"]
    /\ UNCHANGED <<io, written, ring, ids, tabs, rec, mem, conn, migrations>>

(* What the backend reads for a ring request: an indirect one names a      *)
(* table, whose content counts at the time it is served.                   *)
Described(m) ==
    IF m.table = NoTable
       THEN {<<m.req, m.chunk>>}
       ELSE {contents[m.table].req} \X
            (contents[m.table].from .. contents[m.table].from + m.n - 1)

(* It serves requests in any order, and some fail.  (A response that comes *)
(* while io_lock is held has no other effect than one that comes after.)   *)
Answer(m, ok) ==
    /\ backend.state = "Connected" /\ lock = "none"
    /\ sent' = sent \ {m}
    /\ answers' = Append(answers, [id |-> m.id, ok |-> ok])
    /\ written' = IF ok THEN written \cup Described(m) ELSE written
    /\ UNCHANGED <<io, batch, ids, tabs, rec, mem, conn, env>>
-----------------------------------------------------------------------------
(* probe, backend_changed and resume.  The watch that leads to             *)
(* backend_changed is set after probe and resume have returned, and        *)
(* removed, waiting for a call under way, before resume.                   *)

Probe ==
    /\ xb = "probe"
    /\ xb' = "wait"
    /\ UNCHANGED <<io, written, ring, ids, tabs, rec, mem, connected, keep, limit,
                   size, maxSegs, old, frames, env>>

(* setup_blkring: new tables where the ring got longer, or for all entries *)
(* if there were none.                                                     *)
NewTables(n) ==
    LET o == IF segs.len = 0 THEN 0 ELSE size
        t == CHOOSE f \in [o .. n - 1 -> Tables \ live] :
                \A i, j \in o .. n - 1 : i # j => f[i] # f[j]
    IN  /\ segs' = [len |-> IF o < n THEN n ELSE segs.len,
                    at  |-> [i \in Ids |-> IF i \in o .. n - 1 THEN t[i] ELSE segs.at[i]]]
        /\ live' = live \cup {t[i] : i \in o .. n - 1}

(* shadow_init: the entries are linked again, from where the list starts.  *)
Linked(first) == [k \in 1 .. size' - first |-> first + k - 1]

(* talk_to_backend, up to the switch to Initialised.                       *)
Setup ==
    /\ xb = "wait" /\ backend.state = "InitWait"
    /\ old' = size
    /\ size' = backend.kind.ring
    /\ maxSegs' = IF backend.kind.indirect THEN MaxChunks ELSE 1
    /\ IF maxSegs' > 1 THEN NewTables(size') ELSE UNCHANGED <<segs, live>>
    /\ frames' = IF frames = "none" THEN "live" ELSE frames
    /\ \/ /\ connected = "DISCONNECTED"
          /\ idle' = IF idle = <<>> THEN <<>> ELSE Linked(Head(idle))
          /\ xb' = "initialised"
       \/ /\ connected = "SUSPENDED"
          /\ xb' = "recover"
          /\ UNCHANGED idle
    /\ UNCHANGED <<io, written, ring, shadow, contents, rec, mem, connected, keep,
                   limit, env>>

(* connect, the first time: xlvbd_add, ...                                 *)
Connect ==
    /\ xb = "initialised" /\ backend.state = "Connected"
    /\ limit = 0       \* BUG_ON(info->gd != NULL)
    /\ limit' = maxSegs
    /\ xb' = "connecting"
    /\ UNCHANGED <<io, written, ring, ids, tabs, rec, mem, connected, keep, size,
                   maxSegs, old, frames, env>>

(* ... and the start of I/O.                                               *)
ConnectKicks ==
    /\ xb = "connecting" /\ lock = "none"
    /\ connected' = "CONNECTED"
    /\ lock' = "replay"
    /\ xb' = "idle"
    /\ UNCHANGED <<queue, stopped, result, written, ring, ids, tabs, rec, mem, keep,
                   limit, size, maxSegs, old, frames, env>>

(* A migration can happen at any moment and to any host.  The properties   *)
(* hold for what When names: with the device connected and no split        *)
(* request under way, while one is, before the last resume was completed,  *)
(* before the first connection; to a host whose limit on segments is below *)
(* that of the queue, which is never lowered, with long requests still to  *)
(* come; to a host without indirect requests whose ring is longer than     *)
(* info->indirect_segs, which is then not enlarged.                        *)
Moments(b) ==
    {IF connected = "CONNECTED"
        THEN IF resume_split = <<>> THEN "connected" ELSE "splitting"
        ELSE IF connected = "SUSPENDED" THEN "suspended" ELSE "disconnected"}
    \cup
    {m \in {"oversized"} :
        ~b.indirect /\ \E r \in Reqs : Chunks[r] > 1 /\
            (result[r] = "new" \/ \E k \in DOMAIN queue : queue[k] = r)}
    \cup
    {m \in {"outgrown"} : ~b.indirect /\ segs.len > 0 /\ b.ring > segs.len}

(* The old backend is gone; requests may still be put on the old ring.     *)
Migrate(b) ==
    /\ migrations < Migrations
    /\ xb \in {"wait", "initialised", "idle"} /\ lock = "none"
    /\ Moments(b) \subseteq When
    /\ migrations' = migrations + 1
    /\ backend' = [kind |-> b, state |-> "Gone"]
    /\ xb' = "resume"
    /\ UNCHANGED <<io, written, ring, ids, tabs, rec, mem, connected, keep, limit,
                   size, maxSegs, old, frames>>

(* blkfront_resume calls blkif_free: the part under the lock, ...          *)
Resume ==
    /\ xb = "resume" /\ lock = "none"
    /\ keep' = (connected = "CONNECTED")
    /\ connected' = IF keep' THEN "SUSPENDED" ELSE "DISCONNECTED"
    /\ stopped' = (stopped \/ limit > 0)
    /\ callback' = FALSE
    /\ xb' = "flush"
    /\ UNCHANGED <<queue, result, lock, written, ring, ids, tabs, rec, pool, others,
                   work, limit, size, maxSegs, old, frames, env>>

(* ... and the rest, after flush_work.                                     *)
Teardown ==
    /\ xb = "flush" /\ ~work /\ lock = "none"
    /\ \/ /\ keep
          /\ UNCHANGED <<segs, live, contents, frames>>
       \/ /\ ~keep
          /\ Vfree({segs.at[i] : i \in 0 .. size - 1})
          /\ segs' = [len |-> 0, at |-> [i \in Ids |-> NoTable]]
          /\ frames' = IF frames = "live" THEN "freed" ELSE frames
    /\ batch' = <<>> /\ sent' = {} /\ answers' = <<>>
    /\ maxSegs' = 0
    /\ backend' = [backend EXCEPT !.state = "Initialising"]
    /\ xb' = "wait"
    /\ UNCHANGED <<io, written, ids, rec, mem, connected, keep, limit,
                   size, old, migrations>>

(* blkif_recover, stages 1 and 2, without the lock: the entries in use are *)
(* copied, their tables taken with them, and all entries are free.         *)
Used  == {i \in 0 .. old - 1 : shadow[i].req # NoReq}
InUse == [k \in 1 .. Cardinality(Used) |->
             CHOOSE i \in Used : Cardinality({j \in Used : j < i}) = k - 1]

Entry(id, s, t) == [req |-> s.req, op |-> s.op, n |-> s.n, chunk |-> s.chunk,
                    table |-> t, id |-> id]

(* Mutant: the shadow entries are not cleared.                             *)
RecoverKeeping ==
    /\ xb = "recover"
    /\ resume_list' = resume_list \o
          [k \in DOMAIN InUse |->
              LET i == InUse[k]
              IN  Entry(i, shadow[i], IF shadow[i].op = "indirect" THEN segs.at[i] ELSE NoTable)]
    /\ segs' = [segs EXCEPT !.at = [i \in Ids |->
                    IF i < old /\ shadow[i].op = "indirect" THEN NoTable ELSE segs.at[i]]]
    /\ idle' = [k \in 1 .. size |-> k - 1]
    /\ xb' = "kick"
    /\ UNCHANGED <<io, written, ring, live, contents, shadow, resume_split, mem,
                   connected, keep, limit, size, maxSegs, old, frames, env>>

(* Mutant: the tables stay with their slots, too.                          *)
RecoverSharing ==
    /\ xb = "recover"
    /\ resume_list' = resume_list \o
          [k \in DOMAIN InUse |->
              LET i == InUse[k]
              IN  Entry(i, shadow[i], IF shadow[i].op = "indirect" THEN segs.at[i] ELSE NoTable)]
    /\ shadow' = [i \in Ids |-> IF i < old THEN Empty ELSE shadow[i]]
    /\ idle' = [k \in 1 .. size |-> k - 1]
    /\ xb' = "kick"
    /\ UNCHANGED <<io, written, ring, tabs, resume_split, mem, connected,
                   keep, limit, size, maxSegs, old, frames, env>>

Recover ==
    /\ xb = "recover"
    /\ resume_list' = resume_list \o
          [k \in DOMAIN InUse |->
              LET i == InUse[k]
              IN  Entry(i, shadow[i], IF shadow[i].op = "indirect" THEN segs.at[i] ELSE NoTable)]
    /\ segs' = [segs EXCEPT !.at = [i \in Ids |->
                    IF i < old /\ shadow[i].op = "indirect" THEN NoTable ELSE segs.at[i]]]
    /\ shadow' = [i \in Ids |-> IF i < old THEN Empty ELSE shadow[i]]
    /\ idle' = [k \in 1 .. size |-> k - 1]
    /\ xb' = "kick"
    /\ UNCHANGED <<io, written, ring, live, contents, resume_split, mem, connected,
                   keep, limit, size, maxSegs, old, frames, env>>

(* Stage 3, under the lock ...                                             *)
RecoverKicks ==
    /\ xb = "kick" /\ lock = "none"
    /\ connected' = "CONNECTED"
    /\ lock' = "replay"
    /\ xb' = "surplus"
    /\ UNCHANGED <<queue, stopped, result, written, ring, ids, tabs, rec, mem, keep,
                   limit, size, maxSegs, old, frames, env>>

(* ... and the tables of slots that a shorter ring no longer has.          *)
FreeSurplus ==
    /\ xb = "surplus" /\ lock = "none"
    /\ Vfree({segs.at[i] : i \in size .. old - 1})
    /\ segs' = [segs EXCEPT !.at = [i \in Ids |->
                    IF i \in size .. old - 1 THEN NoTable ELSE segs.at[i]]]
    /\ xb' = "idle"
    /\ UNCHANGED <<io, written, ring, ids, rec, mem, connected, keep, limit,
                   size, maxSegs, old, frames, env>>
-----------------------------------------------------------------------------
(* The steps of the driver, those of its backend, and the rest.            *)
Locked  == IssueStops \/ IssueEnds \/ Issue \/ HandleWhole \/ HandleSplit
           \/ HandleEnds \/ ReplayPlain \/ ReplayIndirect \/ ReplayEnds
Connection == Probe \/ Setup \/ Connect \/ ConnectKicks \/ Resume \/ Teardown
              \/ Recover \/ RecoverKicks \/ FreeSurplus
Serve   == \E m \in sent, ok \in BOOLEAN : Answer(m, ok)

Next ==
    \/ \E r \in Reqs : Submit(r)
    \/ RunQueue \/ Interrupt \/ Work
    \/ Locked \/ Connection
    \/ OtherTakes \/ OtherReleases
    \/ BackendReady \/ BackendConnects \/ Serve
    \/ \E b \in Backends : Migrate(b)

Spec == Init /\ [][Next]_vars

(* io_lock is held for a bounded time and is a fair lock: who waits for it *)
(* gets it.  The block layer runs a queue that is not stopped, xenwatch    *)
(* and the workqueue run; the backend comes up, answers what it was sent   *)
(* and signals it; others put their references back.                       *)
FairSpec ==
    /\ Spec
    /\ WF_vars(Locked) /\ SF_vars(Connection)
    /\ SF_vars(RunQueue) /\ SF_vars(Work)
    /\ SF_vars(Interrupt /\ answers # <<>>)
    /\ WF_vars(BackendReady) /\ WF_vars(BackendConnects) /\ SF_vars(Serve)
    /\ WF_vars(OtherReleases)
-----------------------------------------------------------------------------
Resumed == [req : Reqs, op : {"plain", "indirect"}, n : 1 .. MaxChunks,
            chunk : 0 .. MaxChunks, table : Tables \cup {NoTable}, id : Ids]
RingReq == [id : Ids, req : Reqs, chunk : 0 .. MaxChunks, n : 1 .. MaxChunks,
            table : Tables \cup {NoTable}]

Types ==
    /\ queue \in Seq(Reqs) /\ stopped \in BOOLEAN
    /\ lock \in {"none", "issue", "handle", "replay"}
    /\ result \in [Reqs -> {"new", "pending", "ok", "error"}]
    /\ written \subseteq Reqs \X (1 .. MaxChunks)
    /\ connected \in {"DISCONNECTED", "CONNECTED", "SUSPENDED"}
    /\ xb \in {"probe", "wait", "initialised", "connecting", "idle", "resume", "flush",
              "recover", "kick", "surplus"}
    /\ keep \in BOOLEAN /\ limit \in 0 .. MaxChunks
    /\ size \in 0 .. MaxRing /\ old \in 0 .. MaxRing /\ maxSegs \in 0 .. MaxChunks
    /\ idle \in Seq(Ids)
    /\ shadow \in [Ids -> [req : Reqs \cup {NoReq}, op : {"none", "plain", "indirect"},
                           n : 0 .. MaxChunks, chunk : 0 .. MaxChunks]]
    /\ frames \in {"none", "live", "freed"}
    /\ segs \in [len : 0 .. MaxRing, at : [Ids -> Tables \cup {NoTable}]]
    /\ live \subseteq Tables
    /\ contents \in [Tables -> [req : Reqs \cup {NoReq}, from : 0 .. MaxChunks]]
    /\ batch \in Seq(RingReq) /\ sent \subseteq RingReq
    /\ answers \in Seq([id : Ids, ok : BOOLEAN])
    /\ resume_list \in Seq(Resumed) /\ resume_split \in Seq(Resumed)
    /\ pool \in 0 .. Grants /\ others \in 0 .. Others
    /\ callback \in BOOLEAN /\ work \in BOOLEAN
    /\ backend \in [kind : Backends,
                    state : {"Initialising", "InitWait", "Connected", "Gone"}]
    /\ migrations \in 0 .. Migrations

(* The segment tables that blkif_recover, kick_pending_request_queues and  *)
(* setup_blkring move about: no two ring slots or requests share one, the  *)
(* table of an indirect request describes it and is within                 *)
(* info->indirect_segs, and none in use has been freed.                    *)
Slots == {i \in Ids : segs.at[i] # NoTable}
Kept  == {k \in DOMAIN resume_list : resume_list[k].op = "indirect"}

TablesPrivate ==
    /\ Types
    /\ \A i, j \in Slots : i # j => segs.at[i] # segs.at[j]
    /\ \A i \in Slots : segs.at[i] \in live /\ i < segs.len
    /\ \A i \in Ids : shadow[i].op = "indirect" =>
           i \in Slots /\ contents[segs.at[i]].req = shadow[i].req
    /\ \A k \in Kept :
           LET t == resume_list[k].table
           IN  /\ t \in live /\ contents[t].req = resume_list[k].req
               /\ \A i \in Slots : segs.at[i] # t
               /\ \A l \in Kept \ {k} : resume_list[l].table # t

(* A request accepted from the block layer is in exactly one place - the   *)
(* queue, one shadow entry, or resume_list - until it ends, through        *)
(* blkif_free, shadow_init and blkif_recover; and an entry of resume_split *)
(* belongs to the request that its shadow entry holds.                     *)
Places(r) ==
    Cardinality({k \in DOMAIN queue : queue[k] = r})
    + Cardinality({i \in Ids : shadow[i].req = r})
    + Cardinality({k \in DOMAIN resume_list : resume_list[k].req = r})

PendingHeld ==
    /\ \A r \in Reqs : Places(r) = IF result[r] = "pending" THEN 1 ELSE 0
    /\ \A k \in DOMAIN resume_split :
           LET e == resume_split[k]
           IN  /\ shadow[e.id].req = e.req /\ shadow[e.id].op = "indirect"
               /\ \A l \in DOMAIN resume_split \ {k} : resume_split[l].id # e.id

(* While anything is left to recover, the queue stays stopped: no new      *)
(* request overtakes one that was under way before the migration.          *)
RecoveredFirst ==
    resume_list # <<>> \/ resume_split # <<>> => stopped /\ lock # "issue"

(* A connected device whose queue is stopped while something waits will be *)
(* kicked: a response is to come, a callback is queued or the work item is *)
(* scheduled.                                                              *)
StoppedIsWatched ==
    /\ connected = "CONNECTED" /\ lock = "none" /\ stopped
    /\ queue # <<>> \/ resume_list # <<>>
    => sent # {} \/ answers # <<>> \/ callback \/ work

(* The device keeps its promises to the block layer (BlkDevice), whatever  *)
(* migrations it goes through: every request ends once, and what ends with *)
(* success is on the disk.                                                 *)
Promise == INSTANCE BlkDevice WITH Reqs <- Reqs, Chunks <- Chunks,
                                   result <- result, written <- written
Device  == Promise!Spec

(* Every request is ended, if the backend answers and the other drivers    *)
(* that share the grant table stop taking references at some time: a       *)
(* driver that takes every one that comes back can starve this one.        *)
AllEnded ==
    <>[][~OtherTakes]_vars
        => \A r \in Reqs : result[r] = "pending" ~> result[r] \in {"ok", "error"}

(* "Ensure a merged request will fit in a single I/O ring slot" (vbd.c,    *)
(* xlvbd_init_blk_queue), which blkif_queue_request asserts.               *)
RequestFits ==
    lock = "issue" /\ queue # <<>> /\ CanIssue => Chunks[Head(queue)] <= maxSegs

(* "BUG_ON(info->gd != NULL)" (vbd.c, xlvbd_add): a device is connected as  *)
(* a new one once.                                                         *)
ConnectsOnce == xb = "initialised" /\ backend.state = "Connected" => limit = 0

(* setup_blkring asks for the size of the frame arrays it has.             *)
FramesNotFreed == xb = "wait" /\ backend.state = "InitWait" => frames # "freed"
=============================================================================
