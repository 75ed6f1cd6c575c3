------------------------------ MODULE Scsifront ------------------------------
(***************************************************************************)
(* The SCSI front end, xen-scsi/scsifront.c and xen-scsi/xenbus.c, as it   *)
(* is built for kernels before 4.4.21.                                     *)
(*                                                                         *)
(* queuecommand, the reset handler and the worker thread share the ring    *)
(* and the ids (info->shadow) under the host lock.  A suspend sets pause   *)
(* and waits until callers, the number of threads inside the driver, is    *)
(* zero; the resume ends every command and makes a new ring.               *)
(*                                                                         *)
(* A step is a critical section of the host lock, or an access without it. *)
(* While responses are handled the lock is held for several steps (lock).  *)
(* The ring is what it holds: IoRing has its indices and notifications.    *)
(***************************************************************************)
EXTENDS Integers, FiniteSets, Sequences, SequencesExt

CONSTANTS
    Cmds,           \* the SCSI layer's commands, each used once
    Long,           \* those of more than VSCSIIF_SG_TABLESIZE segments
    Resetters,      \* threads that call eh_device_reset_handler
    Interruptible,  \* processes among them; the others are error handlers
    MaxReqs,        \* VSCSIIF_MAX_REQS, the length of info->shadow
    Hosts,          \* what backends offer: [ring : its entries, indirect : BOOLEAN]
    Failures,       \* bound on failing gnttab_alloc_grant_references
    Resets,         \* bound on resets that processes ask for
    Suspends,       \* bound on the number of suspends
    When,           \* what may meet, see Apart
    NoCmd, NoId

Ids == 0 .. MaxReqs - 1

ASSUME ScsiAssumption ==
    /\ IsFiniteSet(Cmds) /\ Cmds # {} /\ Long \subseteq Cmds /\ NoCmd \notin Cmds
    /\ IsFiniteSet(Resetters) /\ Interruptible \subseteq Resetters
    /\ IsFiniteSet(Hosts) /\ Hosts # {}
    /\ MaxReqs \in Nat /\ Hosts \subseteq [ring : 1 .. MaxReqs, indirect : BOOLEAN]
    /\ Failures \in Nat /\ Resets \in Nat /\ Suspends \in Nat
    /\ When \subseteq {"entering", "worker", "signal", "collect", "slot", "recovery",
                 "hotplug", "reconnecting"}
    /\ NoId \notin Int

VARIABLES
    result, written,    \* what BlkDevice promises
    expired,            \* commands that timed out: the error handler has them
    at,                 \* where a command is
    seen,               \* what queuecommand has read of callers
    callers, pause,     \* info->callers, info->pause
    waiting_resp, waiting_sync, waiting_pause,
    lock,               \* who holds the host lock over several steps
    worker,             \* where scsifront_schedule is
    rs,                 \* where each thread is in dev_reset_handler, and its id
    idle, shadow,       \* the list of free ids, info->shadow
    size,               \* RING_SIZE, 0 before there is a ring
    sent, answers,      \* requests at the backend, responses not handled
    asked, event,       \* rsp_event is the next response; the event channel
    xb,                 \* where probe, backend_changed, suspend or resume is
    limit,              \* host->sg_tablesize ("none": no LUN added yet)
    host,               \* the backend, as xenstore shows it
    failures, resets, suspends

layer   == <<result, written, expired, at, limit>>
gate    == <<seen, callers, pause, waiting_pause>>
ids     == <<idle, shadow>>
ring    == <<size, sent, answers, asked, event>>
threads == <<waiting_resp, waiting_sync, lock, worker, rs>>
env     == <<xb, host, failures, resets, suspends>>
vars    == <<layer, gate, ids, ring, threads, env>>

(* Some encounters break what is stated below.  Each has a name, and only  *)
(* happens if When has it:                                                 *)
(* "entering"      others change callers or pause while scsifront_enter    *)
(*                 has read them (queuecommand calls it without the lock); *)
(* "worker"        a resume while the worker thread still has to look;     *)
(* "signal"        the response to a reset is handled between a signal to  *)
(*                 its waiter and the lock which that waiter takes then;   *)
(* "collect"       an id is asked for when such a response was handled and *)
(*                 its waiter has not yet put its id back;                 *)
(* "slot"          a migration while a reset waits for room on the ring;   *)
(* "recovery"      a suspend while the error handler is at work;           *)
(* "hotplug"       the backend is Connected once more, as after a change   *)
(*                 of its LUNs, while the device is suspended;             *)
(* "reconnecting"  a suspend before the last resume was completed.         *)
Apart(name, cond) == name \in When \/ cond

Empty     == [busy |-> FALSE, act |-> "cdb", cmd |-> NoCmd, wait |-> FALSE, rslt |-> "none"]
RingFull  == Cardinality(sent) + Len(answers) >= size
Calm      == Apart("entering", \A c \in Cmds : at[c] # "reading")
Collected == Apart("collect", \A h \in Resetters : rs[h].pc = "sent" => ~shadow[rs[h].id].wait)
-----------------------------------------------------------------------------
(* scsi_add_host by probe; the backend is not there yet.                   *)
Init ==
    /\ result = [c \in Cmds |-> "new"] /\ written = {} /\ expired = {}
    /\ at = [c \in Cmds |-> "layer"] /\ seen = [c \in Cmds |-> 0]
    /\ callers = 0 /\ pause = FALSE /\ waiting_pause = FALSE
    /\ waiting_resp = FALSE /\ waiting_sync = FALSE /\ lock = "none" /\ worker = "wait"
    /\ rs = [h \in Resetters |-> [pc |-> "idle", id |-> NoId]]
    /\ idle = <<>> /\ shadow = [i \in Ids |-> Empty]
    /\ size = 0 /\ sent = {} /\ answers = <<>> /\ asked = TRUE /\ event = FALSE
    /\ xb = "probe" /\ limit = "none"
    /\ \E k \in Hosts : host = [kind |-> k, state |-> "Initialising"]
    /\ failures = 0 /\ resets = 0 /\ suspends = 0

(* scsifront_return, and scsifront_enter where the lock is held            *)
Return ==
    /\ callers' = callers - 1
    /\ waiting_pause' = (waiting_pause /\ callers # 1)

(* scsifront_pre_request takes the first free id, and the request is       *)
(* pushed.  BUG_ON if there is none.                                       *)
Push(act, c) ==
    /\ idle # <<>>
    /\ idle' = Tail(idle)
    /\ shadow' = [shadow EXCEPT ![Head(idle)] = [Empty EXCEPT !.busy = TRUE, !.act = act,
                                                              !.cmd = c]]
    /\ sent' = sent \cup {[id |-> Head(idle), act |-> act, cmd |-> c]}

(* _add_id_to_freelist                                                     *)
AddIdToFreelist(i) ==
    /\ idle' = <<i>> \o idle
    /\ shadow' = [shadow EXCEPT ![i] = Empty]
-----------------------------------------------------------------------------
(* The SCSI layer and queuecommand.                                        *)

Submit(c) ==
    /\ result[c] = "new" /\ limit # "none"
    /\ c \in Long => limit = "long"
    /\ result' = [result EXCEPT ![c] = "pending"]
    /\ UNCHANGED <<written, expired, at, limit, gate, ids, ring, threads, env>>

(* It sends no command while it resets the device or recovers from errors, *)
(* and tries again what it got back as SCSI_MLQUEUE_HOST_BUSY.             *)
Recovering == expired # {} \/ \E h \in Resetters : rs[h].pc # "idle"

(* scsifront_enter, without the lock: callers++ in two accesses.           *)
EnterReads(c) ==
    /\ result[c] = "pending" /\ at[c] = "layer" /\ ~Recovering
    /\ Calm
    /\ ~pause
    /\ seen' = [seen EXCEPT ![c] = callers]
    /\ at' = [at EXCEPT ![c] = "reading"]
    /\ UNCHANGED <<result, written, expired, limit, callers, pause, waiting_pause, ids, ring, threads, env>>

EnterWrites(c) ==
    /\ at[c] = "reading"
    /\ callers' = seen[c] + 1
    /\ seen' = [seen EXCEPT ![c] = 0]
    /\ at' = [at EXCEPT ![c] = "entered"]
    /\ UNCHANGED <<result, written, expired, limit, pause, waiting_pause, ids, ring, threads, env>>

(* More segments than the backend of today takes.                          *)
TooLong(c) == c \in Long /\ ~host.kind.indirect

(* The ring is full, or map_data_for_request finds no grant references and *)
(* the id is put back.                                                     *)
QueueBusy(c) ==
    /\ at[c] = "entered" /\ lock = "none" /\ Calm
    /\ \/ /\ RingFull
          /\ UNCHANGED failures
       \/ /\ ~RingFull /\ Collected /\ idle # <<>> /\ failures < Failures
          /\ failures' = failures + 1
    /\ at' = [at EXCEPT ![c] = "layer"]
    /\ Return
    /\ UNCHANGED <<result, written, expired, limit, seen, pause, ids, ring, threads,
                   xb, host, resets, suspends>>

(* -E2BIG: the command ends with DID_ERROR.                                *)
QueueError(c) ==
    /\ at[c] = "entered" /\ lock = "none" /\ Calm /\ Collected
    /\ ~RingFull /\ idle # <<>> /\ TooLong(c)
    /\ at' = [at EXCEPT ![c] = "layer"]
    /\ result' = [result EXCEPT ![c] = "error"]
    /\ Return
    /\ UNCHANGED <<written, expired, limit, seen, pause, ids, ring, threads, env>>

QueueCommand(c) ==
    /\ at[c] = "entered" /\ lock = "none" /\ Calm /\ Collected
    /\ ~RingFull /\ ~TooLong(c)
    /\ Push("cdb", c)
    /\ at' = [at EXCEPT ![c] = "driver"]
    /\ Return
    /\ UNCHANGED <<result, written, expired, limit, seen, pause, size, answers, asked,
                   event, threads, env>>

(* A command times out: its scsi_done is ignored from now on, and the      *)
(* error handler ends it.                                                  *)
Expire(c) ==
    /\ at[c] = "driver" /\ c \notin expired /\ Resetters # Interruptible
    /\ Apart("recovery", xb = "idle")
    /\ expired' = expired \cup {c}
    /\ UNCHANGED <<result, written, at, limit, gate, ids, ring, threads, env>>

(* sc->scsi_done(sc)                                                       *)
ScsiDone(c, ok) ==
    /\ at' = [at EXCEPT ![c] = "layer"]
    /\ result' = [result EXCEPT ![c] = IF c \in expired THEN @
                                       ELSE IF @ # "pending" THEN "again"
                                       ELSE IF ok THEN "ok" ELSE "error"]
-----------------------------------------------------------------------------
(* Interrupt, worker thread, and the handling of responses.                *)

(* scsifront_intr                                                          *)
Interrupt ==
    /\ event
    /\ event' = FALSE
    /\ waiting_resp' = TRUE
    /\ UNCHANGED <<layer, gate, ids, size, sent, answers, asked, waiting_sync, lock,
                   worker, rs, env>>

WorkerWakes ==
    /\ worker = "wait" /\ waiting_resp
    /\ waiting_resp' = FALSE
    /\ worker' = "due"
    /\ UNCHANGED <<layer, gate, ids, ring, waiting_sync, lock, rs, env>>

(* scsifront_cmd_done takes the lock.                                      *)
WorkerLocks ==
    /\ worker = "due" /\ lock = "none"
    /\ Apart("signal", \A h \in Resetters : rs[h].pc # "signalled")
    /\ lock' = "worker" /\ worker' = "drain"
    /\ UNCHANGED <<layer, gate, ids, ring, waiting_resp, waiting_sync, rs, env>>

(* scsifront_sync_cmd_done: the waiter of a reset is told, or its id freed *)
(* if it gave up.                                                          *)
SyncCmdDone(i) ==
    \/ /\ shadow[i].rslt = "abandoned"
       /\ AddIdToFreelist(i)
    \/ /\ shadow[i].rslt # "abandoned"
       /\ shadow' = [shadow EXCEPT ![i].wait = TRUE, ![i].rslt = "answered"]
       /\ UNCHANGED idle

(* scsifront_do_response; without a command it is a BUG.                   *)
DoResponse(i, ok) ==
    \/ /\ shadow[i].act = "cdb" /\ shadow[i].cmd # NoCmd
       /\ AddIdToFreelist(i)
       /\ ScsiDone(shadow[i].cmd, ok)
    \/ /\ shadow[i].act = "reset"
       /\ SyncCmdDone(i)
       /\ UNCHANGED <<at, result>>

(* scsifront_ring_drain, by the worker or by finish_all                    *)
Handle ==
    /\ lock # "none" /\ answers # <<>>
    /\ DoResponse(Head(answers).id, Head(answers).ok)
    /\ answers' = Tail(answers)
    /\ UNCHANGED <<written, expired, limit, gate, size, sent, asked, event, threads, env>>

(* Mutant: those waiting for room are not woken.                           *)
WorkerEndsQuietly ==
    /\ lock = "worker" /\ answers = <<>>
    /\ lock' = "none" /\ worker' = "wait"
    /\ asked' = TRUE
    /\ UNCHANGED <<layer, gate, ids, size, sent, answers, event, waiting_resp, waiting_sync,
                   rs, env>>

(* The final check, and those waiting for room are woken.                  *)
WorkerEnds ==
    /\ lock = "worker" /\ answers = <<>>
    /\ lock' = "none" /\ worker' = "wait"
    /\ asked' = TRUE
    /\ waiting_sync' = FALSE
    /\ UNCHANGED <<layer, gate, ids, size, sent, answers, event, waiting_resp, rs, env>>
-----------------------------------------------------------------------------
(* scsifront_dev_reset_handler: for a process through an ioctl, for the    *)
(* error handler once all commands in the driver have expired.             *)
ResetCall(h) ==
    /\ rs[h].pc = "idle" /\ limit # "none"
    /\ \/ /\ h \in Interruptible /\ resets < Resets
          /\ resets' = resets + 1
       \/ /\ h \notin Interruptible /\ expired # {}
          /\ \A c \in Cmds : at[c] # "layer" => c \in expired
          /\ UNCHANGED resets
    /\ rs' = [rs EXCEPT ![h].pc = "called"]
    /\ UNCHANGED <<layer, gate, ids, ring, waiting_resp, waiting_sync, lock, worker,
                   xb, host, failures, suspends>>

(* Who waits for room looks again after a wake-up or a signal.             *)
Looks(h) ==
    \/ rs[h].pc \in {"called", "hurried"}
    \/ rs[h].pc = "slot" /\ ~waiting_sync

ResetWaits(h) ==
    /\ lock = "none" /\ Looks(h) /\ rs[h].pc # "hurried" /\ RingFull /\ ~pause
    /\ rs' = [rs EXCEPT ![h].pc = "slot"]
    /\ waiting_sync' = TRUE
    /\ UNCHANGED <<layer, gate, ids, ring, waiting_resp, lock, worker, env>>

(* FAILED: the device is paused, or a signal came and there is no room.    *)
ResetFails(h) ==
    /\ lock = "none" /\ Looks(h)
    /\ pause \/ (RingFull /\ rs[h].pc = "hurried")
    /\ rs' = [rs EXCEPT ![h].pc = "returned"]
    /\ UNCHANGED <<layer, gate, ids, ring, waiting_resp, waiting_sync, lock, worker, env>>

(* Mutant: pause is only looked at while the ring is full.                 *)
ResetSendsAnyway(h) ==
    /\ lock = "none" /\ Looks(h) /\ ~RingFull /\ Calm /\ Collected
    /\ Push("reset", NoCmd)
    /\ callers' = callers + 1
    /\ rs' = [rs EXCEPT ![h] = [pc |-> "sent", id |-> Head(idle)]]
    /\ UNCHANGED <<layer, seen, pause, waiting_pause, size, answers, asked, event,
                   waiting_resp, waiting_sync, lock, worker, env>>

ResetSends(h) ==
    /\ lock = "none" /\ Looks(h) /\ ~RingFull /\ ~pause /\ Calm /\ Collected
    /\ Push("reset", NoCmd)
    /\ callers' = callers + 1
    /\ rs' = [rs EXCEPT ![h] = [pc |-> "sent", id |-> Head(idle)]]
    /\ UNCHANGED <<layer, seen, pause, waiting_pause, size, answers, asked, event,
                   waiting_resp, waiting_sync, lock, worker, env>>

ResetCollects(h) ==
    /\ rs[h].pc = "sent" /\ shadow[rs[h].id].wait
    /\ lock = "none" /\ Calm
    /\ AddIdToFreelist(rs[h].id)
    /\ Return
    /\ rs' = [rs EXCEPT ![h] = [pc |-> "returned", id |-> NoId]]
    /\ UNCHANGED <<layer, seen, pause, ring, waiting_resp, waiting_sync, lock, worker, env>>

(* A signal ends a wait: for room, ...                                     *)
Signal(h) ==
    /\ h \in Interruptible
    /\ \/ /\ rs[h].pc = "slot" /\ waiting_sync
          /\ rs' = [rs EXCEPT ![h].pc = "hurried"]
       \/ /\ rs[h].pc = "sent" /\ ~shadow[rs[h].id].wait
          /\ Apart("signal", lock = "none")
          /\ rs' = [rs EXCEPT ![h].pc = "signalled"]
    /\ UNCHANGED <<layer, gate, ids, ring, waiting_resp, waiting_sync, lock, worker, env>>

(* Mutant: who gives up puts the id back itself.                           *)
ResetFrees(h) ==
    /\ rs[h].pc = "signalled" /\ lock = "none" /\ Calm
    /\ AddIdToFreelist(rs[h].id)
    /\ Return
    /\ rs' = [rs EXCEPT ![h] = [pc |-> "returned", id |-> NoId]]
    /\ UNCHANGED <<layer, seen, pause, ring, waiting_resp, waiting_sync, lock, worker, env>>

(* ... or for the response, which then finds the id abandoned.             *)
ResetAbandons(h) ==
    /\ rs[h].pc = "signalled" /\ lock = "none" /\ Calm
    /\ shadow' = [shadow EXCEPT ![rs[h].id].rslt = "abandoned"]
    /\ Return
    /\ rs' = [rs EXCEPT ![h] = [pc |-> "returned", id |-> NoId]]
    /\ UNCHANGED <<layer, seen, pause, idle, ring, waiting_resp, waiting_sync, lock, worker, env>>

(* The error handler ends what has expired, one command after the other.   *)
ResetReturns(h) ==
    /\ rs[h].pc = "returned"
    /\ \/ /\ h \in Interruptible \/ expired = {}
          /\ rs' = [rs EXCEPT ![h].pc = "idle"]
          /\ UNCHANGED <<result, expired>>
       \/ /\ h \notin Interruptible
          /\ \E c \in expired :
                /\ result' = [result EXCEPT ![c] = "error"]
                /\ expired' = expired \ {c}
          /\ UNCHANGED rs
    /\ UNCHANGED <<written, at, limit, gate, ids, ring, waiting_resp, waiting_sync, lock,
                   worker, env>>
-----------------------------------------------------------------------------
(* Connection, suspend and resume.                                         *)

(* scsifront_init_ring, shadow_init: a new ring, all its ids free.         *)
NewRing ==
    /\ size' = host.kind.ring
    /\ sent' = {} /\ answers' = <<>> /\ asked' = TRUE /\ event' = FALSE
    /\ idle' = [k \in 1 .. size' |-> k - 1]
    /\ shadow' = [i \in Ids |-> Empty]
    /\ xb' = "initialised"

(* backend_changed to InitWait                                             *)
FirstRing ==
    /\ xb = "probe" /\ host.state = "InitWait"
    /\ NewRing
    /\ UNCHANGED <<layer, gate, threads, host, failures, resets, suspends>>

(* backend_changed to Connected.  A device that is paused has its LUNs, and *)
(* keeps the limits it had.                                                *)
Connect ==
    /\ xb = "initialised" /\ host.state = "Connected"
    /\ \/ /\ pause
          /\ UNCHANGED limit
       \/ /\ ~pause
          /\ limit' = IF host.kind.indirect THEN "long"
                      ELSE IF limit = "none" THEN "short" ELSE limit
    /\ pause' = FALSE
    /\ xb' = "idle"
    /\ UNCHANGED <<result, written, expired, at, seen, callers, waiting_pause, ids, ring,
                   threads, host, failures, resets, suspends>>

(* The same, for a device that is connected: its LUNs were changed.        *)
Reconfigured ==
    /\ xb \in {"idle", "suspending", "suspended"} /\ host.state = "Connected"
    /\ Apart("hotplug", xb = "idle")
    /\ pause' = FALSE
    /\ UNCHANGED <<layer, seen, callers, waiting_pause, ids, ring, threads, env>>

(* scsifront_suspend, from each look at callers to the next.               *)
WaitsForCallers ==
    \/ /\ callers = 0
       /\ xb' = "suspended"
       /\ UNCHANGED <<waiting_pause, waiting_sync>>
    \/ /\ callers # 0
       /\ xb' = "suspending"
       /\ waiting_pause' = TRUE /\ waiting_sync' = FALSE

Suspend ==
    /\ suspends < Suspends /\ lock = "none" /\ Calm
    /\ xb \in {"idle", "initialised"}
    /\ Apart("reconnecting", xb = "idle")
    /\ Apart("recovery", expired = {})
    /\ suspends' = suspends + 1
    /\ pause' = TRUE
    /\ WaitsForCallers
    /\ UNCHANGED <<layer, seen, callers, ids, ring, waiting_resp, lock, worker, rs, host,
                   failures, resets>>

SuspendWakes ==
    /\ xb = "suspending" /\ ~waiting_pause /\ lock = "none"
    /\ WaitsForCallers
    /\ UNCHANGED <<layer, seen, callers, pause, ids, ring, waiting_resp, lock, worker, rs,
                   host, failures, resets, suspends>>

(* scsifront_suspend_cancel                                                *)
SuspendCancel ==
    /\ xb = "suspended" /\ lock = "none" /\ Calm
    /\ pause' = FALSE
    /\ xb' = IF host.state = "Connected" THEN "idle" ELSE "initialised"
    /\ UNCHANGED <<layer, seen, callers, waiting_pause, ids, ring, threads, host, failures,
                   resets, suspends>>

(* The guest goes on on another host, without its event channels.          *)
Migrate(k) ==
    /\ xb = "suspended"
    /\ Apart("slot", \A h \in Resetters : rs[h].pc # "slot")
    /\ host' = [kind |-> k, state |-> "Gone"]
    /\ event' = FALSE
    /\ xb' = "resume"
    /\ UNCHANGED <<layer, gate, ids, size, sent, answers, asked, threads, failures, resets,
                   suspends>>

(* scsifront_resume: finish_all under the lock ...                         *)
Resume ==
    /\ xb = "resume" /\ lock = "none"
    /\ Apart("worker", worker = "wait" /\ ~waiting_resp)
    /\ lock' = "resume" /\ xb' = "finish"
    /\ UNCHANGED <<layer, gate, ids, ring, waiting_resp, waiting_sync, worker, rs, host,
                   failures, resets, suspends>>

(* Mutant: what is left is ended as if the backend had done it.            *)
FinishOneOk ==
    /\ lock = "resume" /\ answers = <<>>
    /\ \E i \in Ids :
          /\ shadow[i].busy /\ \A j \in Ids : shadow[j].busy => i <= j
          /\ shadow[i].act = "cdb" \/ shadow[i].rslt # "answered"
          /\ DoResponse(i, TRUE)
    /\ UNCHANGED <<written, expired, limit, gate, ring, threads, env>>

(* ... first takes the responses (Handle), then ends what is left,         *)
FinishOne ==
    /\ lock = "resume" /\ answers = <<>>
    /\ \E i \in Ids :
          /\ shadow[i].busy /\ \A j \in Ids : shadow[j].busy => i <= j
          /\ shadow[i].act = "cdb" \/ shadow[i].rslt # "answered"
          /\ DoResponse(i, FALSE)
    /\ UNCHANGED <<written, expired, limit, gate, ring, threads, env>>

FinishEnds ==
    /\ lock = "resume" /\ answers = <<>>
    /\ \A i \in Ids : shadow[i].busy => shadow[i].act = "reset" /\ shadow[i].rslt = "answered"
    /\ lock' = "none" /\ xb' = "free"
    /\ UNCHANGED <<layer, gate, ids, ring, waiting_resp, waiting_sync, worker, rs, host,
                   failures, resets, suspends>>

(* ... and the ring is replaced without it.                                *)
ResumeRing ==
    /\ xb = "free"
    /\ NewRing
    /\ host' = [host EXCEPT !.state = "InitWait"]
    /\ UNCHANGED <<layer, gate, threads, failures, resets, suspends>>
-----------------------------------------------------------------------------
(* The backend (external).                                                 *)
BackendReady ==
    /\ host.state = "Initialising"
    /\ host' = [host EXCEPT !.state = "InitWait"]
    /\ UNCHANGED <<layer, gate, ids, ring, threads, xb, failures, resets, suspends>>

BackendConnects ==
    /\ host.state = "InitWait" /\ xb = "initialised"
    /\ host' = [host EXCEPT !.state = "Connected"]
    /\ UNCHANGED <<layer, gate, ids, ring, threads, xb, failures, resets, suspends>>

(* It answers in any order, a reset after all commands sent before.        *)
Serve(m, ok) ==
    /\ host.state = "Connected"
    /\ m.act = "reset" => \A n \in sent : n.act = "reset"
    /\ sent' = sent \ {m}
    /\ answers' = Append(answers, [id |-> m.id, ok |-> ok])
    /\ written' = IF ok /\ m.act = "cdb" THEN written \cup {<<m.cmd, 1>>} ELSE written
    /\ event' = (event \/ asked) /\ asked' = FALSE
    /\ UNCHANGED <<result, expired, at, limit, gate, ids, size, threads, env>>
-----------------------------------------------------------------------------
Command(c) == EnterReads(c) \/ EnterWrites(c) \/ QueueBusy(c) \/ QueueError(c) \/ QueueCommand(c)

Reset(h) == ResetWaits(h) \/ ResetFails(h) \/ ResetSends(h) \/ ResetCollects(h)
            \/ ResetAbandons(h) \/ ResetReturns(h)

Finish == FinishOne \/ FinishEnds \/ ResumeRing

Next ==
    \/ \E c \in Cmds : Submit(c) \/ Command(c) \/ Expire(c)
    \/ Interrupt \/ WorkerWakes \/ WorkerLocks \/ Handle \/ WorkerEnds
    \/ \E h \in Resetters : ResetCall(h) \/ Signal(h) \/ Reset(h)
    \/ FirstRing \/ Connect \/ Reconfigured
    \/ Suspend \/ SuspendWakes \/ SuspendCancel \/ \E k \in Hosts : Migrate(k)
    \/ Resume \/ Finish
    \/ BackendReady \/ BackendConnects
    \/ \E m \in sent, ok \in BOOLEAN : Serve(m, ok)

Spec == Init /\ [][Next]_vars

(* Threads run on and leave their critical sections, so that the lock is   *)
(* taken in the end; a suspended guest resumes somewhere; the backend      *)
(* answers.  Signals, timeouts and suspends need not come.                 *)
FairSpec ==
    /\ Spec
    /\ \A c \in Cmds : WF_vars(Command(c))
    /\ WF_vars(Interrupt) /\ WF_vars(WorkerWakes) /\ WF_vars(WorkerLocks)
    /\ WF_vars(Handle) /\ WF_vars(WorkerEnds)
    /\ \A h \in Resetters : WF_vars(Reset(h)) /\ WF_vars(h \notin Interruptible /\ ResetCall(h))
    /\ WF_vars(FirstRing) /\ WF_vars(Connect)
    /\ WF_vars(SuspendWakes) /\ WF_vars(SuspendCancel \/ \E k \in Hosts : Migrate(k))
    /\ WF_vars(Resume) /\ WF_vars(Finish)
    /\ WF_vars(BackendReady) /\ WF_vars(BackendConnects)
    /\ WF_vars(\E m \in sent, ok \in BOOLEAN : Serve(m, ok))
-----------------------------------------------------------------------------
Entered   == {c \in Cmds : at[c] = "entered"}
InReset   == {h \in Resetters : rs[h].pc \in {"sent", "signalled"}}
Unhandled == {m.id : m \in sent} \cup {answers[k].id : k \in 1 .. Len(answers)}

(* The variables have their types.                                         *)
Types ==
    /\ result \in [Cmds -> {"new", "pending", "ok", "error", "again"}]
    /\ at \in [Cmds -> {"layer", "reading", "entered", "driver"}]
    /\ callers \in Nat /\ pause \in BOOLEAN
    /\ idle \in Seq(Ids) /\ size \in {0} \cup {h.ring : h \in Hosts}
    /\ lock \in {"none", "worker", "resume"} /\ (lock = "worker" <=> worker = "drain")

(* callers is the number of threads which scsifront_enter let in and which *)
(* did not return, although they are counted on many paths.  So, as        *)
(* xenbus.c:540 has it, "no new commands for the backend": from the end of *)
(* the suspend until the device is connected again no thread is inside     *)
(* queuecommand or a reset, and the worker does not look at the ring while *)
(* that is replaced without the lock.                                      *)
Quiet ==
    /\ Types
    /\ callers = Cardinality(Entered) + Cardinality(InReset)
    /\ xb \notin {"idle", "suspending"} =>
          /\ \A c \in Cmds : at[c] \notin {"reading", "entered"}
          /\ InReset = {}
    /\ xb = "free" => lock # "worker"

(* scsifront.c:44, BUG_ON(free >= VSCSIIF_MAX_REQS): who finds room on the *)
(* ring finds a free id.                                                   *)
IdAvailable ==
    lock = "none" /\ ~RingFull /\ Collected /\ (Entered # {} \/ \E h \in Resetters : Looks(h))
        => size > 0 /\ idle # <<>>

(* Each id below the ring's size is free or in use for one thing: the free *)
(* list has no id twice; an id in use has a response to come, or one that  *)
(* its waiter was told of; a command that the driver has is with one id.   *)
(* And none is missing: IdAvailable.                                       *)
IdsKept ==
    LET free == {idle[k] : k \in DOMAIN idle}
        held == {rs[h].id : h \in InReset}
    IN  /\ IdAvailable
        /\ IsInjective(idle)
        /\ free = {i \in 0 .. size - 1 : ~shadow[i].busy}
        /\ Cardinality(Unhandled) = Cardinality(sent) + Len(answers)
        /\ Cardinality(held) = Cardinality(InReset)
        /\ xb \notin {"finish", "free"} =>
              /\ {i \in Ids : shadow[i].busy} = Unhandled \cup {i \in held : shadow[i].wait}
              /\ \A i \in held : shadow[i].wait <=> i \notin Unhandled
        /\ \A c \in Cmds : at[c] = "driver" <=>
              \E i \in Ids : shadow[i].busy /\ shadow[i].cmd = c
        /\ \A i, j \in Ids : i # j /\ shadow[i].busy /\ shadow[j].busy /\ shadow[i].cmd # NoCmd
              => shadow[i].cmd # shadow[j].cmd

(* The driver is the device that the SCSI layer expects: a command ends at *)
(* most once, "ok" only if the backend carried it out.                     *)
Promise == INSTANCE BlkDevice WITH
    Reqs <- Cmds, Chunks <- [c \in Cmds |-> 1], result <- result, written <- written
Device == Promise!Spec

(* Every command ends, in spite of suspends, migrations and timeouts.      *)
CommandsEnd == \A c \in Cmds : result[c] = "pending" ~> result[c] \in {"ok", "error"}

(* Resets return, whether they wait for room or for the response.          *)
ResetsReturn == \A h \in Resetters : rs[h].pc # "idle" ~> rs[h].pc = "idle"

(* Both do, and the device comes back from every suspend.                  *)
Returns == CommandsEnd /\ ResetsReturn /\ []<>(xb = "idle" /\ ~pause)
=============================================================================
