------------------------------- MODULE Xenbus -------------------------------
(***************************************************************************)
(* The guest's side of xenstore, 3.12.49/xenbus_xs.c on xenbus_comms.c:    *)
(* requests and replies, transactions, watches, and what xs_suspend and    *)
(* xs_resume do to them.                                                   *)
(*                                                                         *)
(* The rings carry messages; a message on the response ring is read in two *)
(* parts, header and body, under response_mutex.  Any thread may use       *)
(* xenstore: drivers, callbacks in the xenwatch thread, and the thread     *)
(* that suspends, when it resumes the devices.                             *)
(***************************************************************************)
EXTENDS Integers, FiniteSets, Sequences, SequencesExt

CONSTANTS
    Clients,    \* threads of drivers
    Watches,    \* watches that they register
    Ops,        \* bound on the operations begun
    Changes,    \* bound on the changes of watched nodes
    Suspends,   \* bound on the number of suspends
    NoOne       \* an unlocked mutex, no watch

Actors == Clients \cup {"xenwatch", "suspend"}

ASSUME XenbusAssumption ==
    /\ IsFiniteSet(Clients) /\ IsFiniteSet(Watches)
    /\ {"xenwatch", "suspend"} \cap Clients = {}
    /\ NoOne \notin Actors \cup Watches \cup {"xenbus"}
    /\ Ops \in Nat /\ Changes \in Nat /\ Suspends \in Nat

VARIABLES
    act,                    \* what each thread does, and how far it is
    open,                   \* who has a transaction
    transaction_mutex, transaction_count,
    request_mutex, response_mutex, xenwatch_mutex,
    watch_readers, watch_writer,    \* watch_mutex, a rw_semaphore
    watches, watch_events,  \* registered watches, their pending callbacks
    reply_list,
    reader,                 \* xenbus_thread in process_msg
    running, own,           \* the watch whose callback runs, what it has unregistered
    sus,                    \* where xs_suspend or xs_resume is
    todo,                   \* watches that xs_resume has still to set
    req, rsp,               \* the rings
    tokens, txs,            \* xenstored: watches, open transactions
    version, seen,          \* of each watched node, and as its callback saw it
    ops, changes, suspends

locks  == <<transaction_mutex, transaction_count, request_mutex, response_mutex,
            xenwatch_mutex, watch_readers, watch_writer>>
lists  == <<watches, watch_events>>
rings  == <<req, rsp>>
stored == <<tokens, txs, version>>
bounds == <<ops, changes, suspends>>
calls  == <<running, own>>
vars   == <<act, open, locks, lists, reply_list, reader, calls, sus, todo, rings,
            stored, seen, bounds>>

NoAct == [job |-> "none", w |-> NoOne, at |-> "idle"]
Msg(kind, a, w) == [kind |-> kind, to |-> a, w |-> w]
NoMsg == Msg("none", NoOne, NoOne)

(* A message on the response ring.                                         *)
Parts(m) == <<[part |-> "header", msg |-> m], [part |-> "body", msg |-> m]>>
Reply(a) == Parts(Msg("reply", a, NoOne))
Event(w) == Parts(Msg("event", NoOne, w))

Init ==
    /\ act = [a \in Actors |-> NoAct] /\ open = {}
    /\ transaction_mutex = NoOne /\ transaction_count = 0
    /\ request_mutex = NoOne /\ response_mutex = NoOne /\ xenwatch_mutex = NoOne
    /\ watch_readers = {} /\ watch_writer = NoOne
    /\ watches = {} /\ watch_events = <<>> /\ reply_list = <<>>
    /\ reader = [at |-> "wait", msg |-> NoMsg] /\ running = NoOne /\ own = {}
    /\ sus = "idle" /\ todo = {}
    /\ req = <<>> /\ rsp = <<>>
    /\ tokens = {} /\ txs = {}
    /\ version = [w \in Watches |-> 0] /\ seen = [w \in Watches |-> 0]
    /\ ops = 0 /\ changes = 0 /\ suspends = 0
-----------------------------------------------------------------------------
(* A thread begins an operation.                                           *)
Free(a) ==
    /\ act[a] = NoAct
    /\ a = "xenwatch" => running # NoOne
    /\ a = "suspend" => sus = "devices"

Used(w) == \E a \in Actors : act[a].w = w       \* drivers see to it

At(a, at) == act' = [act EXCEPT ![a].at = at]

Begin(a, job, w) ==
    /\ Free(a) /\ ops < Ops
    /\ \/ job = "read" /\ w = NoOne
       \/ job = "start" /\ w = NoOne /\ a \notin open
       \/ job = "watch" /\ w \in Watches \ watches /\ ~Used(w) /\ a \notin open
       \/ job = "unwatch" /\ w \in watches /\ ~Used(w) /\ a \notin open
    /\ ops' = ops + 1
    /\ act' = [act EXCEPT ![a] = [job |-> job, w |-> w, at |->
                  IF job = "read" THEN "ask" ELSE "lock"]]
    /\ UNCHANGED <<open, locks, lists, reply_list, reader, calls, sus, todo, rings,
                   stored, seen, changes, suspends>>

(* A transaction that was started is ended.                                *)
BeginEnd(a) ==
    /\ act[a] = NoAct /\ a \in open
    /\ act' = [act EXCEPT ![a] = [job |-> "end", w |-> NoOne, at |-> "ask"]]
    /\ open' = open \ {a}
    /\ UNCHANGED <<locks, lists, reply_list, reader, calls, sus, todo, rings,
                   stored, seen, bounds>>

(* transaction_start                                                       *)
TransactionStart(a) ==
    /\ act[a].at = "lock" /\ act[a].job = "start"
    /\ transaction_mutex = NoOne
    /\ transaction_count' = transaction_count + 1
    /\ At(a, "ask")
    /\ UNCHANGED <<open, transaction_mutex, request_mutex, response_mutex,
                   xenwatch_mutex, watch_readers, watch_writer, lists, reply_list, reader,
                   calls, sus, todo, rings, stored, seen, bounds>>

(* register_xenbus_watch and unregister_xenbus_watch take watch_mutex for  *)
(* reading, change the list, and talk to xenstored.                        *)
WatchLocks(a) ==
    /\ act[a].at = "lock" /\ act[a].job \in {"watch", "unwatch"}
    /\ watch_writer = NoOne
    /\ watch_readers' = watch_readers \cup {a}
    /\ watches' = IF act[a].job = "watch" THEN watches \cup {act[a].w}
                                          ELSE watches \ {act[a].w}
    /\ At(a, "ask")
    /\ UNCHANGED <<open, transaction_mutex, transaction_count, request_mutex, response_mutex,
                   xenwatch_mutex, watch_writer, watch_events, reply_list, reader, calls,
                   sus, todo, rings, stored, seen, bounds>>

(* xs_talkv: a request under request_mutex.                                *)
Ask(a) ==
    /\ act[a].at = "ask" /\ request_mutex = NoOne
    /\ request_mutex' = a
    /\ req' = Append(req, Msg(act[a].job, a, act[a].w))
    /\ At(a, "reply")
    /\ UNCHANGED <<open, transaction_mutex, transaction_count, response_mutex,
                   xenwatch_mutex, watch_readers, watch_writer, lists, reply_list, reader,
                   calls, sus, todo, rsp, stored, seen, bounds>>

(* read_reply takes whatever reply is there.                               *)
ReadReply(a) ==
    /\ act[a].at = "reply" /\ reply_list # <<>>
    /\ reply_list' = Tail(reply_list)
    /\ request_mutex' = NoOne
    /\ At(a, "done")
    /\ UNCHANGED <<open, transaction_mutex, transaction_count, response_mutex,
                   xenwatch_mutex, watch_readers, watch_writer, lists, reader,
                   calls, sus, todo, rings, stored, seen, bounds>>

(* What follows the reply: transaction_end, up_read, and for unregister    *)
(* the wait for callbacks under way.                                       *)
Done(a) ==
    /\ act[a].at = "done" /\ act[a].job # "rewatch"
    /\ open' = IF act[a].job = "start" THEN open \cup {a} ELSE open
    /\ transaction_count' = transaction_count - (IF act[a].job = "end" THEN 1 ELSE 0)
    /\ watch_readers' = watch_readers \ {a}
    /\ act' = [act EXCEPT ![a] = IF act[a].job = "unwatch" THEN [@ EXCEPT !.at = "purge"]
                                                           ELSE NoAct]
    /\ UNCHANGED <<transaction_mutex, request_mutex, response_mutex, xenwatch_mutex,
                   watch_writer, lists, reply_list, reader, calls, sus, todo, rings,
                   stored, seen, bounds>>

(* The list without the events of w: SelectSeq, in a form that can be      *)
(* proved about.                                                           *)
Without(s, w) ==
    LET kept[k \in 0 .. Len(s)] ==
            IF k = 0 THEN <<>>
            ELSE IF s[k] = w THEN kept[k - 1] ELSE Append(kept[k - 1], s[k])
    IN  kept[Len(s)]

(* Mutant: nobody else's callback is waited for.                           *)
PurgeUnlocked(a) ==
    /\ act[a].at = "purge"
    /\ watch_events' = Without(watch_events, act[a].w)
    /\ own' = IF a = "xenwatch" THEN own \cup {act[a].w} ELSE own
    /\ act' = [act EXCEPT ![a] = NoAct]
    /\ UNCHANGED <<open, locks, watches, reply_list, reader, running, sus, todo, rings,
                   stored, seen, bounds>>

(* Mutant: the xenwatch thread is not told from the others.                *)
PurgeLocks(a) ==
    /\ act[a].at = "purge"
    /\ xenwatch_mutex = NoOne
    /\ watch_events' = Without(watch_events, act[a].w)
    /\ own' = IF a = "xenwatch" THEN own \cup {act[a].w} ELSE own
    /\ act' = [act EXCEPT ![a] = NoAct]
    /\ UNCHANGED <<open, locks, watches, reply_list, reader, running, sus, todo, rings,
                   stored, seen, bounds>>

Purge(a) ==
    /\ act[a].at = "purge"
    /\ a # "xenwatch" => xenwatch_mutex = NoOne
    /\ watch_events' = Without(watch_events, act[a].w)
    /\ own' = IF a = "xenwatch" THEN own \cup {act[a].w} ELSE own
    /\ act' = [act EXCEPT ![a] = NoAct]
    /\ UNCHANGED <<open, locks, watches, reply_list, reader, running, sus, todo, rings,
                   stored, seen, bounds>>
-----------------------------------------------------------------------------
(* xenbus_thread: process_msg.                                             *)

DataToRead ==
    /\ reader.at = "wait" /\ rsp # <<>>
    /\ reader' = [reader EXCEPT !.at = "lock"]
    /\ UNCHANGED <<act, open, locks, lists, reply_list, calls, sus, todo, rings, stored,
                   seen, bounds>>

(* Pending data may have "disappeared" before response_mutex was taken.    *)
ReadHeader ==
    /\ reader.at = "lock" /\ response_mutex = NoOne
    /\ \/ /\ rsp = <<>>
          /\ reader' = [reader EXCEPT !.at = "wait"]
          /\ UNCHANGED <<response_mutex, rsp>>
       \/ /\ rsp # <<>>
          /\ reader' = [at |-> "body", msg |-> Head(rsp).msg]
          /\ rsp' = Tail(rsp)
          /\ response_mutex' = "xenbus"
    /\ UNCHANGED <<act, open, transaction_mutex, transaction_count, request_mutex,
                   xenwatch_mutex, watch_readers, watch_writer, lists, reply_list, calls,
                   sus, todo, req, stored, seen, bounds>>

ReadBody ==
    /\ reader.at = "body" /\ rsp # <<>>
    /\ rsp' = Tail(rsp)
    /\ reader' = [at |-> "wait", msg |-> NoMsg]
    /\ response_mutex' = NoOne
    /\ LET m == reader.msg
       IN  \/ /\ m.kind = "reply"
              /\ reply_list' = Append(reply_list, m)
              /\ UNCHANGED watch_events
           \/ /\ m.kind = "event"
              /\ watch_events' = IF m.w \in watches THEN Append(watch_events, m.w)
                                                    ELSE watch_events
              /\ UNCHANGED reply_list
    /\ UNCHANGED <<act, open, transaction_mutex, transaction_count, request_mutex,
                   xenwatch_mutex, watch_readers, watch_writer, watches, calls, sus, todo,
                   req, stored, seen, bounds>>
-----------------------------------------------------------------------------
(* xenwatch_thread.                                                        *)

XenwatchLocks ==
    /\ watch_events # <<>> /\ xenwatch_mutex = NoOne
    /\ xenwatch_mutex' = "xenwatch"
    /\ UNCHANGED <<act, open, transaction_mutex, transaction_count, request_mutex,
                   response_mutex, watch_readers, watch_writer, lists, reply_list, reader,
                   calls, sus, todo, rings, stored, seen, bounds>>

(* The event may have been cancelled meanwhile.  A callback looks at the   *)
(* node that it watches, and does what Begin allows.                       *)
Callback ==
    /\ xenwatch_mutex = "xenwatch" /\ running = NoOne
    /\ \/ /\ watch_events = <<>>
          /\ xenwatch_mutex' = NoOne
          /\ UNCHANGED <<watch_events, calls, seen>>
       \/ /\ watch_events # <<>>
          /\ watch_events' = Tail(watch_events)
          /\ running' = Head(watch_events)
          /\ seen' = [seen EXCEPT ![Head(watch_events)] = version[Head(watch_events)]]
          /\ UNCHANGED <<xenwatch_mutex, own>>
    /\ UNCHANGED <<act, open, transaction_mutex, transaction_count, request_mutex,
                   response_mutex, watch_readers, watch_writer, watches, reply_list, reader,
                   sus, todo, rings, stored, bounds>>

CallbackEnds ==
    /\ running # NoOne /\ act["xenwatch"] = NoAct /\ "xenwatch" \notin open
    /\ running' = NoOne /\ own' = {}
    /\ xenwatch_mutex' = NoOne
    /\ UNCHANGED <<act, open, transaction_mutex, transaction_count, request_mutex,
                   response_mutex, watch_readers, watch_writer, lists, reply_list, reader,
                   sus, todo, rings, stored, seen, bounds>>
-----------------------------------------------------------------------------
(* xs_suspend takes four locks, one after the other.                       *)

SuspendTransactions ==
    /\ sus = "idle" /\ suspends < Suspends /\ transaction_mutex = NoOne
    /\ suspends' = suspends + 1
    /\ transaction_mutex' = "suspend"
    /\ sus' = "transactions"
    /\ UNCHANGED <<act, open, transaction_count, request_mutex, response_mutex, xenwatch_mutex,
                   watch_readers, watch_writer, lists, reply_list, reader, calls, todo,
                   rings, stored, seen, ops, changes>>

(* Mutant: transactions under way are not waited for.                      *)
SuspendWatchesEarly ==
    /\ sus = "transactions"
    /\ watch_readers = {}
    /\ watch_writer' = "suspend"
    /\ sus' = "watches"
    /\ UNCHANGED <<act, open, transaction_mutex, transaction_count, request_mutex,
                   response_mutex, xenwatch_mutex, watch_readers, lists, reply_list, reader,
                   calls, todo, rings, stored, seen, bounds>>

SuspendWatches ==
    /\ sus = "transactions" /\ transaction_count = 0
    /\ watch_readers = {}
    /\ watch_writer' = "suspend"
    /\ sus' = "watches"
    /\ UNCHANGED <<act, open, transaction_mutex, transaction_count, request_mutex,
                   response_mutex, xenwatch_mutex, watch_readers, lists, reply_list, reader,
                   calls, todo, rings, stored, seen, bounds>>

SuspendRequests ==
    /\ sus = "watches" /\ request_mutex = NoOne
    /\ request_mutex' = "suspend"
    /\ sus' = "requests"
    /\ UNCHANGED <<act, open, transaction_mutex, transaction_count, response_mutex,
                   xenwatch_mutex, watch_readers, watch_writer, lists, reply_list, reader,
                   calls, todo, rings, stored, seen, bounds>>

(* Mutant: the reader is not stopped.                                      *)
SuspendResponsesEarly ==
    /\ sus = "requests"
    /\ response_mutex' = "suspend"
    /\ sus' = "frozen"
    /\ UNCHANGED <<act, open, transaction_mutex, transaction_count, request_mutex,
                   xenwatch_mutex, watch_readers, watch_writer, lists, reply_list, reader,
                   calls, todo, rings, stored, seen, bounds>>

SuspendResponses ==
    /\ sus = "requests" /\ response_mutex = NoOne
    /\ response_mutex' = "suspend"
    /\ sus' = "frozen"
    /\ UNCHANGED <<act, open, transaction_mutex, transaction_count, request_mutex,
                   xenwatch_mutex, watch_readers, watch_writer, lists, reply_list, reader,
                   calls, todo, rings, stored, seen, bounds>>

(* xs_suspend_cancel                                                       *)
Cancel ==
    /\ sus = "frozen"
    /\ response_mutex' = NoOne /\ request_mutex' = NoOne
    /\ watch_writer' = NoOne /\ transaction_mutex' = NoOne
    /\ sus' = "idle"
    /\ UNCHANGED <<act, open, transaction_count, xenwatch_mutex, watch_readers, lists,
                   reply_list, reader, calls, todo, rings, stored, seen, bounds>>

(* Another xenstored knows of no watch and no transaction.                 *)
Migrate ==
    /\ sus = "frozen"
    /\ tokens' = {} /\ txs' = {}
    /\ sus' = "moved"
    /\ UNCHANGED <<act, open, locks, lists, reply_list, reader, calls, todo, rings, version,
                   seen, bounds>>

(* xb_init_comms, and the first half of xs_resume: everything is let go    *)
(* but watch_mutex.                                                        *)
Resume ==
    /\ sus = "moved"
    /\ rsp' = <<>>
    /\ response_mutex' = NoOne /\ request_mutex' = NoOne /\ transaction_mutex' = NoOne
    /\ todo' = watches
    /\ sus' = "rewatch"
    /\ UNCHANGED <<act, open, transaction_count, xenwatch_mutex, watch_readers, watch_writer,
                   lists, reply_list, reader, calls, req, stored, seen, bounds>>

(* The second: each watch is set again.                                    *)
Rewatch(w) ==
    /\ sus = "rewatch" /\ act["suspend"] = NoAct /\ w \in todo
    /\ todo' = todo \ {w}
    /\ act' = [act EXCEPT !["suspend"] = [job |-> "rewatch", w |-> w, at |-> "ask"]]
    /\ UNCHANGED <<open, locks, lists, reply_list, reader, calls, sus, rings, stored,
                   seen, bounds>>

RewatchDone ==
    /\ act["suspend"].at = "done" /\ act["suspend"].job = "rewatch"
    /\ act' = [act EXCEPT !["suspend"] = NoAct]
    /\ UNCHANGED <<open, locks, lists, reply_list, reader, calls, sus, todo, rings, stored,
                   seen, bounds>>

(* Mutant: the last watch is forgotten.                                    *)
ResumeEndsEarly ==
    /\ sus = "rewatch" /\ act["suspend"] = NoAct /\ Cardinality(todo) <= 1
    /\ todo' = {}
    /\ watch_writer' = NoOne
    /\ sus' = "devices"
    /\ UNCHANGED <<act, open, transaction_mutex, transaction_count, request_mutex,
                   response_mutex, xenwatch_mutex, watch_readers, lists, reply_list, reader,
                   calls, rings, stored, seen, bounds>>

ResumeEnds ==
    /\ sus = "rewatch" /\ act["suspend"] = NoAct /\ todo = {}
    /\ watch_writer' = NoOne
    /\ sus' = "devices"
    /\ UNCHANGED <<act, open, transaction_mutex, transaction_count, request_mutex,
                   response_mutex, xenwatch_mutex, watch_readers, lists, reply_list, reader,
                   calls, todo, rings, stored, seen, bounds>>

(* xenbus_resume goes on with the devices, which use xenstore.             *)
DevicesResumed ==
    /\ sus = "devices" /\ act["suspend"] = NoAct /\ "suspend" \notin open
    /\ sus' = "idle"
    /\ UNCHANGED <<act, open, locks, lists, reply_list, reader, calls, todo, rings, stored,
                   seen, bounds>>
-----------------------------------------------------------------------------
(* xenstored: an answer to each request, and an event for each watch that  *)
(* is set and each change of a node that has one.                          *)
Serve ==
    /\ req # <<>> /\ sus \notin {"frozen", "moved"}
    /\ LET m == Head(req)
       IN  /\ rsp' = rsp \o Reply(m.to)
                     \o (IF m.kind \in {"watch", "rewatch"} THEN Event(m.w) ELSE <<>>)
           /\ tokens' = CASE m.kind \in {"watch", "rewatch"} -> tokens \cup {m.w}
                          [] m.kind = "unwatch" -> tokens \ {m.w}
                          [] OTHER -> tokens
           /\ txs' = CASE m.kind = "start" -> txs \cup {m.to}
                       [] m.kind = "end" -> txs \ {m.to}
                       [] OTHER -> txs
    /\ req' = Tail(req)
    /\ UNCHANGED <<act, open, locks, lists, reply_list, reader, calls, sus, todo, version,
                   seen, bounds>>

Change(w) ==
    /\ changes < Changes
    /\ changes' = changes + 1
    /\ version' = [version EXCEPT ![w] = @ + 1]
    /\ rsp' = IF w \in tokens THEN rsp \o Event(w) ELSE rsp
    /\ UNCHANGED <<act, open, locks, lists, reply_list, reader, calls, sus, todo, req,
                   tokens, txs, seen, ops, suspends>>
-----------------------------------------------------------------------------
Begins(a) == \E job \in {"read", "start", "watch", "unwatch"} :
                 \E w \in Watches \cup {NoOne} : Begin(a, job, w)
Acts(a)   == \/ BeginEnd(a) \/ TransactionStart(a) \/ WatchLocks(a) \/ Ask(a)
             \/ ReadReply(a) \/ Done(a) \/ Purge(a)
Reader    == DataToRead \/ ReadHeader \/ ReadBody
Xenwatch  == XenwatchLocks \/ Callback \/ CallbackEnds
Suspender == \/ SuspendWatches \/ SuspendRequests \/ SuspendResponses \/ Cancel \/ Migrate
             \/ Resume \/ (\E w \in Watches : Rewatch(w)) \/ RewatchDone \/ ResumeEnds
             \/ DevicesResumed

Next ==
    \/ \E a \in Actors : Begins(a) \/ Acts(a)
    \/ Reader \/ Xenwatch \/ SuspendTransactions \/ Suspender \/ Serve
    \/ \E w \in Watches : Change(w)

Spec == Init /\ [][Next]_vars

(* Threads run, mutexes are handed over in turn, drivers end their         *)
(* transactions and callbacks, and xenstored answers.                      *)
FairSpec ==
    /\ Spec
    /\ \A a \in Actors : SF_vars(Acts(a))
    /\ SF_vars(Reader) /\ SF_vars(Xenwatch) /\ SF_vars(Suspender) /\ WF_vars(Serve)
-----------------------------------------------------------------------------
Mutex == Actors \cup {NoOne, "xenbus"}
Msgs  == [kind : {"none", "reply", "event", "read", "start", "end", "watch", "unwatch",
                  "rewatch"}, to : Actors \cup {NoOne}, w : Watches \cup {NoOne}]

Types ==
    /\ act \in [Actors -> [job : {"none", "read", "start", "end", "watch", "unwatch",
                                  "rewatch"},
                           w : Watches \cup {NoOne},
                           at : {"idle", "lock", "ask", "reply", "done", "purge"}]]
    /\ open \subseteq Actors
    /\ transaction_mutex \in Mutex /\ transaction_count \in 0 .. Cardinality(Actors)
    /\ request_mutex \in Mutex /\ response_mutex \in Mutex /\ xenwatch_mutex \in Mutex
    /\ watch_readers \subseteq Actors /\ watch_writer \in {NoOne, "suspend"}
    /\ watches \subseteq Watches /\ watch_events \in Seq(Watches)
    /\ reply_list \in Seq(Msgs)
    /\ reader \in [at : {"wait", "lock", "body"}, msg : Msgs]
    /\ running \in Watches \cup {NoOne} /\ own \subseteq Watches
    /\ sus \in {"idle", "transactions", "watches", "requests", "frozen", "moved", "rewatch",
                "devices"}
    /\ todo \subseteq Watches
    /\ req \in Seq(Msgs) /\ rsp \in Seq([part : {"header", "body"}, msg : Msgs])
    /\ tokens \subseteq Watches /\ txs \subseteq Actors
    /\ version \in [Watches -> 0 .. Changes] /\ seen \in [Watches -> 0 .. Changes]
    /\ ops \in 0 .. Ops /\ changes \in 0 .. Changes /\ suspends \in 0 .. Suspends

(* "One request at a time", "currently only one [reply] will ever be       *)
(* outstanding" (xenbus_xs.c:86, 104): a reply is for the thread that      *)
(* holds request_mutex and takes it.  And the body that is read next       *)
(* belongs to the header that was read: "A partial read across s/r leaves  *)
(* us out of sync with xenstored" (xenbus_xs.c:886).                       *)
ReplyMatches ==
    /\ Types
    /\ Len(req) + Len(reply_list) <= 1
    /\ \A k \in DOMAIN reply_list : reply_list[k].to = request_mutex
    /\ \A a \in Actors : act[a].at = "reply" => request_mutex = a
    /\ reader.at = "body" => rsp # <<>> /\ Head(rsp) = [part |-> "body", msg |-> reader.msg]

(* A transaction that a driver has is one that this xenstored knows: none  *)
(* is carried over a migration.                                            *)
TransactionsKnown == open \subseteq txs

(* Every watch on the list is set in xenstored, or about to be; and when   *)
(* its callback has not seen the latest change of the node, an event is on *)
(* its way to it, whatever was lost with the old host's response ring.     *)
Pending(w) ==
    \/ \E k \in DOMAIN rsp : rsp[k].msg = Msg("event", NoOne, w)
    \/ reader.msg = Msg("event", NoOne, w)
    \/ \E k \in DOMAIN watch_events : watch_events[k] = w

NoEventLost ==
    \A w \in watches :
        \/ w \in tokens /\ (seen[w] # version[w] => Pending(w))
        \/ sus \in {"moved", "rewatch"} \/ Used(w)

(* "Make sure there are no callbacks running currently" (xenbus_xs.c:737): *)
(* once unregister_xenbus_watch has returned, none runs, unless it is the  *)
(* one that called it, and none will.                                      *)
NoCallbackAfter ==
    \A w \in Watches \ watches :
        Used(w) \/ ((running = w => w \in own) /\ \A k \in DOMAIN watch_events : watch_events[k] # w)

(* Nobody waits for ever: operations, of which there are finitely many,    *)
(* end and suspends are completed, with callbacks that use xenstore,       *)
(* transactions to wait for, and devices that unregister watches while     *)
(* they resume.                                                            *)
Ends == []<>(sus = "idle" /\ \A a \in Actors : act[a] = NoAct)
=============================================================================
