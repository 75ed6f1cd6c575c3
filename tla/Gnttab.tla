------------------------------- MODULE Gnttab -------------------------------
(***************************************************************************)
(* The grant table of the guest, xen-platform-pci/gnttab.c.                *)
(*                                                                         *)
(* A grant reference is an index into the table the guest shares with Xen. *)
(* References that nobody uses are chained through gnttab_entry() from     *)
(* gnttab_free_head; a driver takes them one at a time or as a private     *)
(* chain, opens them to the backend, and gives them back.  A reference the *)
(* backend still uses when the driver is done with it is parked on         *)
(* deferred_list, which a timer retries.                                   *)
(*                                                                         *)
(* One step is one critical section of gnttab_list_lock or one access to   *)
(* the shared flags: what runs between two of them is private to its CPU.  *)
(***************************************************************************)
EXTENDS Integers, Sequences, FiniteSets

CONSTANTS
    Faults,           \* what goes wrong: "nomem" (GFP_ATOMIC), "resume"
    MaxFrames,        \* boot_max_nr_grant_frames, what Xen allows
    EntriesPerFrame,  \* ENTRIES_PER_GRANT_FRAME
    NReserved,        \* NR_RESERVED_ENTRIES, kept for external tools
    Clients,          \* the drivers that hold references
    Uses,             \* which of the calls below each of them makes
    MaxBatch,         \* the longest private chain a driver asks for
    DeferBatch,       \* nr in gnttab_handle_deferred: entries tried per tick
    NoRef             \* no deferred entry

(* "single" is gnttab_grant_foreign_access; "permit" and "accept" are the  *)
(* kinds of grant given on an entry of a private chain; "pool" and "batch" *)
(* the places an ended grant's entry goes to; "callback" the use of        *)
(* gnttab_request_free_callback.                                           *)
Calls == {"single", "permit", "accept", "pool", "batch", "callback"}

ASSUME TableAssumption ==
    /\ MaxFrames \in Nat \ {0}
    /\ EntriesPerFrame \in Nat \ {0}
    /\ NReserved \in Nat
    /\ NReserved < EntriesPerFrame
    /\ MaxBatch \in Nat \ {0}
    /\ DeferBatch \in Nat \ {0}
    /\ NoRef \notin Int
    /\ Faults \subseteq {"nomem", "resume"}
    /\ Uses \in [Clients -> SUBSET Calls]

Refs     == 0 .. MaxFrames * EntriesPerFrame - 1
LIST_END == -1
Links    == Refs \cup {LIST_END}

(* shared[ref].flags.  "busy" is GTF_permit_access with GTF_reading or     *)
(* GTF_writing set by Xen for the backend; the last three are the stages   *)
(* of a page transfer.                                                     *)
Flags == {"clear", "permit", "busy", "accept", "committed", "completed"}

(* The flags with which a backend can still reach or change the page.      *)
Open == {"permit", "busy", "accept", "committed"}

VARIABLES
    entry,      \* gnttab_entry(ref)
    freeHead,   \* gnttab_free_head
    freeCount,  \* gnttab_free_count
    nrFrames,   \* nr_grant_frames
    flags,      \* shared[ref].flags
    mapped,     \* the references the backend has mapped (external)
    priv,       \* each driver's private chain (its private_head)
    held,       \* the references each driver has granted
    op,         \* a driver inside gnttab_end_foreign_*
    waiting,    \* gnttab_free_callback_list, as a set
    queued,     \* callback->queued
    need,       \* callback->count, 0 when it is not queued
    deferred,   \* deferred_list
    timer,      \* timer_pending(&deferred_timer)
    dh,         \* the run of gnttab_handle_deferred
    leaked,     \* references lost to a failed kmalloc
    oops        \* the kernel has followed a poisoned list head

shared == <<flags, mapped>>
pool  == <<entry, freeHead, freeCount, nrFrames>>
cbs   == <<waiting, queued, need>>
defer == <<deferred, timer, dh, leaked, oops>>
vars   == <<pool, shared, priv, held, op, cbs, defer>>

NoOp   == [pc |-> "idle", ref |-> NoRef, seen |-> "clear", dest |-> "pool"]
NoRun  == [pc |-> "idle", ref |-> NoRef, seen |-> "clear", first |-> NoRef, nr |-> 0]
-----------------------------------------------------------------------------
(* gnttab_init: one frame, its entries after the reserved ones chained in  *)
(* order.  Entries of later frames hold anything; 0 as a fresh page does.  *)
Init ==
    /\ nrFrames = 1
    /\ entry = [r \in Refs |->
                  IF r \in NReserved .. EntriesPerFrame - 2 THEN r + 1
                  ELSE IF r = EntriesPerFrame - 1 THEN LIST_END ELSE 0]
    /\ freeHead = NReserved
    /\ freeCount = EntriesPerFrame - NReserved
    /\ flags = [r \in Refs |-> "clear"]
    /\ mapped = {}
    /\ priv = [c \in Clients |-> LIST_END]
    /\ held = [c \in Clients |-> {}]
    /\ op = [c \in Clients |-> NoOp]
    /\ waiting = {}
    /\ queued = [c \in Clients |-> FALSE]
    /\ need = [c \in Clients |-> 0]
    /\ deferred = <<>>
    /\ timer = FALSE
    /\ dh = NoRun
    /\ leaked = {}
    /\ oops = FALSE

(* What a loop "ref = gnttab_entry(ref)" from h visits, its i-th value at  *)
(* i.  The loops of the code end at LIST_END or before.                    *)
Walk(e, h) ==
    LET w[i \in 1 .. Cardinality(Refs) + 1] ==
            IF i = 1 THEN h
            ELSE IF w[i - 1] = LIST_END THEN LIST_END ELSE e[w[i - 1]]
    IN  w

(* Mutant: a callback is served only by more entries than it asked for.    *)
RunCallbacksStrict(list, want, count) ==
    LET served == {c \in list : count > want[c]} IN
    /\ waiting' = list \ served
    /\ queued' = [c \in Clients |-> IF c \in served THEN FALSE
                                    ELSE c \in list \/ queued[c]]
    /\ need' = [c \in Clients |-> IF c \in served THEN 0 ELSE want[c]]

(* check_free_callbacks / do_free_callbacks with count free entries: run   *)
(* and unqueue the callbacks that can be served, keep the others.  The     *)
(* callback function only schedules the driver's own work.                 *)
RunCallbacks(list, want, count) ==
    LET served == {c \in list : count >= want[c]} IN
    /\ waiting' = list \ served
    /\ queued' = [c \in Clients |-> IF c \in served THEN FALSE
                                    ELSE c \in list \/ queued[c]]
    /\ need' = [c \in Clients |-> IF c \in served THEN 0 ELSE want[c]]

(* put_free_entry                                                          *)
PutFreeEntry(ref) ==
    /\ entry' = [entry EXCEPT ![ref] = freeHead]
    /\ freeHead' = ref
    /\ freeCount' = freeCount + 1
    /\ UNCHANGED nrFrames
    /\ RunCallbacks(waiting, need, freeCount + 1)

(* gnttab_expand: the frames needed for n more entries than are free.      *)
ExtraFrames(n) ==
    (n - freeCount + (EntriesPerFrame - 1)) \div EntriesPerFrame

(* grow_gnttab_list: the new frames' entries chained before the free ones. *)
Grown(x) ==
    LET lo == EntriesPerFrame * nrFrames
        hi == EntriesPerFrame * (nrFrames + x) - 1
    IN  [r \in Refs |-> IF r \in lo .. hi - 1 THEN r + 1
                        ELSE IF r = hi THEN freeHead ELSE entry[r]]

(* Mutant: the detached chain is not terminated.                           *)
DetachUnterminated(e, h, count, n, ref) ==
    /\ ref = h
    /\ freeHead' = e[Walk(e, h)[n]]
    /\ entry' = e
    /\ freeCount' = count - n

(* get_free_entries' removal of the first n entries of the chain from h.   *)
Detach(e, h, count, n, ref) ==
    LET last == Walk(e, h)[n] IN
    /\ ref = h
    /\ freeHead' = e[last]
    /\ entry' = [e EXCEPT ![last] = LIST_END]
    /\ freeCount' = count - n

(* get_free_entries(n), successful with head ref: enough entries are free, *)
(* or the table can grow.  Growing runs the callbacks before the entries   *)
(* are taken.                                                              *)
GetFreeEntries(n, ref) ==
    \/ /\ freeCount >= n
       /\ Detach(entry, freeHead, freeCount, n, ref)
       /\ UNCHANGED <<nrFrames, cbs>>
    \/ LET x == ExtraFrames(n)
           count == freeCount + x * EntriesPerFrame
       IN  /\ freeCount < n
           /\ nrFrames + x <= MaxFrames
           /\ Detach(Grown(x), EntriesPerFrame * nrFrames, count, n, ref)
           /\ nrFrames' = nrFrames + x
           /\ RunCallbacks(waiting, need, count)
-----------------------------------------------------------------------------
(* A driver's calls.                                                       *)

(* gnttab_grant_foreign_access: one entry, opened to the backend.          *)
GrantForeignAccess(c) ==
    \E ref \in Refs :
        /\ GetFreeEntries(1, ref)
        /\ flags' = [flags EXCEPT ![ref] = "permit"]
        /\ held' = [held EXCEPT ![c] = @ \cup {ref}]
        /\ UNCHANGED <<mapped, priv, op, defer>>

(* gnttab_alloc_grant_references, by a driver with no private chain.       *)
AllocGrantReferences(c, n) ==
    /\ {"permit", "accept"} \cap Uses[c] # {}
    /\ priv[c] = LIST_END
    /\ \E ref \in Refs :
        /\ GetFreeEntries(n, ref)
        /\ priv' = [priv EXCEPT ![c] = ref]
    /\ UNCHANGED <<shared, held, op, defer>>

(* gnttab_claim_grant_reference, then gnttab_grant_foreign_access_ref or   *)
(* gnttab_grant_foreign_transfer_ref on the claimed entry.                 *)
ClaimAndGrant(c, how) ==
    /\ priv[c] # LIST_END
    /\ LET ref == priv[c] IN
        /\ priv' = [priv EXCEPT ![c] = entry[ref]]
        /\ flags' = [flags EXCEPT ![ref] = how]
        /\ held' = [held EXCEPT ![c] = @ \cup {ref}]
    /\ UNCHANGED <<mapped, pool, op, cbs, defer>>

(* gnttab_grant_foreign_access_ref on an entry the driver has: blkfront    *)
(* does so for every request it replays after a resume.                    *)
Regrant(c, ref) ==
    /\ ref \in held[c]
    /\ flags[ref] \in {"clear", "permit"}
    /\ flags' = [flags EXCEPT ![ref] = "permit"]
    /\ UNCHANGED <<mapped, pool, priv, held, op, cbs, defer>>

(* gnttab_free_grant_references: the rest of a private chain, given back   *)
(* by linking its last entry to the free list.                             *)
FreeGrantReferences(c) ==
    /\ priv[c] # LIST_END
    /\ \E n \in 1 .. Cardinality(Refs) :
        LET last == Walk(entry, priv[c])[n] IN
        /\ last # LIST_END
        /\ entry[last] = LIST_END
        /\ entry' = [entry EXCEPT ![last] = freeHead]
        /\ freeHead' = priv[c]
        /\ freeCount' = freeCount + n
        /\ RunCallbacks(waiting, need, freeCount + n)
    /\ priv' = [priv EXCEPT ![c] = LIST_END]
    /\ UNCHANGED <<nrFrames, shared, held, op, defer>>

(* gnttab_request_free_callback                                            *)
RequestFreeCallback(c, n) ==
    /\ ~queued[c]
    /\ RunCallbacks(waiting \cup {c}, [need EXCEPT ![c] = n], freeCount)
    /\ UNCHANGED <<pool, shared, priv, held, op, defer>>

(* gnttab_cancel_free_callback                                             *)
CancelFreeCallback(c) ==
    /\ c \in waiting
    /\ waiting' = waiting \ {c}
    /\ queued' = [queued EXCEPT ![c] = FALSE]
    /\ need' = [need EXCEPT ![c] = 0]
    /\ UNCHANGED <<pool, shared, priv, held, op, defer>>
-----------------------------------------------------------------------------
(* Ending a grant.  The flags are read, then cleared by a compare and      *)
(* exchange that fails if Xen changed them in between.  dest says where    *)
(* the driver puts the entry then: gnttab_end_foreign_access puts it on    *)
(* the free list, gnttab_end_foreign_access_ref leaves that to the driver, *)
(* which returns it to its private chain.                                  *)
BeginEnd(c, ref, dest) ==
    /\ op[c].pc = "idle"
    /\ ref \in held[c]
    /\ held' = [held EXCEPT ![c] = @ \ {ref}]
    /\ op' = [op EXCEPT ![c] = [pc |-> "cas", ref |-> ref,
                                seen |-> flags[ref], dest |-> dest]]
    /\ UNCHANGED <<pool, shared, priv, cbs, defer>>

(* Mutant: a plain store instead of the compare and exchange.              *)
StoreClear(c) ==
    /\ op[c].pc = "cas"
    /\ op[c].seen \notin {"busy", "committed", "completed"}
    /\ flags' = [flags EXCEPT ![op[c].ref] = "clear"]
    /\ op' = [op EXCEPT ![c].pc = "put", ![c].seen = "clear"]
    /\ UNCHANGED <<mapped, pool, priv, held, cbs, defer>>

(* The compare and exchange succeeds: the backend is cut off.              *)
CasClear(c) ==
    /\ op[c].pc = "cas"
    /\ op[c].seen \notin {"busy", "committed", "completed"}
    /\ flags[op[c].ref] = op[c].seen
    /\ flags' = [flags EXCEPT ![op[c].ref] = "clear"]
    /\ op' = [op EXCEPT ![c].pc = "put", ![c].seen = "clear"]
    /\ UNCHANGED <<mapped, pool, priv, held, cbs, defer>>

(* It fails: look at what Xen left there.                                  *)
CasRetry(c) ==
    /\ op[c].pc = "cas"
    /\ op[c].seen \notin {"busy", "committed", "completed"}
    /\ flags[op[c].ref] # op[c].seen
    /\ op' = [op EXCEPT ![c].seen = flags[op[c].ref]]
    /\ UNCHANGED <<pool, shared, priv, held, cbs, defer>>

(* gnttab_end_foreign_transfer_ref waits for a transfer under way.         *)
TransferDone(c) ==
    /\ op[c].pc = "cas"
    /\ op[c].seen \in {"committed", "completed"}
    /\ "completed" \in {op[c].seen, flags[op[c].ref]}
    /\ op' = [op EXCEPT ![c].pc = "put", ![c].seen = "clear"]
    /\ UNCHANGED <<pool, shared, priv, held, cbs, defer>>

(* gnttab_add_deferred: park the entry and have the timer retry, or lose   *)
(* it when no memory is left for the list node.                            *)
AddDeferred(c) ==
    /\ op[c].pc = "cas" /\ op[c].seen = "busy" /\ op[c].dest = "pool"
    /\ \/ /\ deferred' = Append(deferred, op[c].ref)
          /\ timer' = TRUE
          /\ UNCHANGED leaked
       \/ /\ "nomem" \in Faults
          /\ leaked' = leaked \cup {op[c].ref}
          /\ UNCHANGED <<deferred, timer>>
    /\ op' = [op EXCEPT ![c] = NoOp]
    /\ UNCHANGED <<pool, shared, priv, held, cbs, dh, oops>>

(* gnttab_end_foreign_access_ref returns 0: the driver keeps the entry.    *)
StillInUse(c) ==
    /\ op[c].pc = "cas" /\ op[c].seen = "busy" /\ op[c].dest = "batch"
    /\ held' = [held EXCEPT ![c] = @ \cup {op[c].ref}]
    /\ op' = [op EXCEPT ![c] = NoOp]
    /\ UNCHANGED <<pool, shared, priv, cbs, defer>>

(* put_free_entry by gnttab_end_foreign_access and _transfer               *)
PutToPool(c) ==
    /\ op[c].pc = "put" /\ op[c].dest = "pool"
    /\ PutFreeEntry(op[c].ref)
    /\ op' = [op EXCEPT ![c] = NoOp]
    /\ UNCHANGED <<shared, priv, held, defer>>

(* gnttab_release_grant_reference                                          *)
ReleaseGrantReference(c) ==
    /\ op[c].pc = "put" /\ op[c].dest = "batch"
    /\ entry' = [entry EXCEPT ![op[c].ref] = priv[c]]
    /\ priv' = [priv EXCEPT ![c] = op[c].ref]
    /\ op' = [op EXCEPT ![c] = NoOp]
    /\ UNCHANGED <<freeHead, freeCount, nrFrames, shared, held, cbs, defer>>
-----------------------------------------------------------------------------
(* gnttab_handle_deferred.  It drops the lock around each entry it tries;  *)
(* dh.ref is the entry it then holds off the list.  The first read of the  *)
(* flags is taken together with the removal from the list: what Xen does   *)
(* in between might as well have come before.                              *)
TryDeferred(q, nr, first) ==
    /\ deferred' = Tail(q)
    /\ dh' = [pc |-> IF flags[Head(q)] = "busy" THEN "keep" ELSE "cas",
              ref |-> Head(q), seen |-> flags[Head(q)],
              first |-> first, nr |-> nr - 1]

(* The loop head and the code after the loop, in one critical section in   *)
(* which the list is q: stop after DeferBatch entries or on meeting the    *)
(* first entry that was put back, otherwise take the next one off.         *)
NextDeferred(q, nr, first) ==
    \/ /\ nr > 0 /\ Head(q) # first
       /\ TryDeferred(q, nr, first)
       /\ UNCHANGED timer
    \/ /\ nr = 0 \/ Head(q) = first
       /\ deferred' = q
       /\ timer' = TRUE
       /\ dh' = NoRun

(* The timer expires.  On an empty list, list_first_entry() yields the     *)
(* list head itself and list_del() poisons it.  The run started before     *)
(* has ended: a tick is a second.                                          *)
TimerExpires ==
    /\ timer /\ dh.pc = "idle"
    /\ timer' = FALSE
    /\ \/ /\ deferred # <<>>
          /\ TryDeferred(deferred, DeferBatch, NoRef)
          /\ UNCHANGED oops
       \/ /\ deferred = <<>>
          /\ oops' = TRUE
          /\ UNCHANGED <<deferred, dh>>
    /\ UNCHANGED <<pool, shared, priv, held, op, cbs, leaked>>

(* _gnttab_end_foreign_access_ref: the compare and exchange.               *)
DeferredCas ==
    /\ dh.pc = "cas"
    /\ IF flags[dh.ref] = dh.seen
       THEN /\ flags' = [flags EXCEPT ![dh.ref] = "clear"]
            /\ dh' = [dh EXCEPT !.pc = "put", !.seen = "clear"]
       ELSE /\ dh' = [dh EXCEPT !.pc = IF flags[dh.ref] = "busy" THEN "keep" ELSE "cas",
                                !.seen = flags[dh.ref]]
            /\ UNCHANGED flags
    /\ UNCHANGED <<mapped, pool, priv, held, op, cbs, deferred, timer, leaked, oops>>

(* The entry is free again: put_free_entry, then kfree of the node.        *)
DeferredPut ==
    /\ dh.pc = "put"
    /\ PutFreeEntry(dh.ref)
    /\ dh' = [dh EXCEPT !.pc = "next", !.ref = NoRef]
    /\ UNCHANGED <<shared, priv, held, op, deferred, timer, leaked, oops>>

(* Back under the lock: stop if the list is empty, else go on.             *)
DeferredNext ==
    /\ dh.pc = "next"
    /\ \/ /\ deferred = <<>>
          /\ dh' = NoRun
          /\ UNCHANGED <<deferred, timer>>
       \/ /\ deferred # <<>>
          /\ NextDeferred(deferred, dh.nr, dh.first)
    /\ UNCHANGED <<pool, shared, priv, held, op, cbs, leaked, oops>>

(* Mutant: list_add instead of list_add_tail.                              *)
DeferredKeepFirst ==
    /\ dh.pc = "keep"
    /\ NextDeferred(<<dh.ref>> \o deferred, dh.nr,
                    IF dh.first = NoRef THEN dh.ref ELSE dh.first)
    /\ UNCHANGED <<pool, shared, priv, held, op, cbs, leaked, oops>>

(* Back under the lock with an entry still in use: to the tail with it.    *)
DeferredKeep ==
    /\ dh.pc = "keep"
    /\ NextDeferred(Append(deferred, dh.ref), dh.nr,
                    IF dh.first = NoRef THEN dh.ref ELSE dh.first)
    /\ UNCHANGED <<pool, shared, priv, held, op, cbs, leaked, oops>>
-----------------------------------------------------------------------------
(* Xen, on behalf of the backend (external).                               *)
BackendMaps(ref) ==
    /\ flags[ref] = "permit"
    /\ flags' = [flags EXCEPT ![ref] = "busy"]
    /\ mapped' = mapped \cup {ref}
    /\ UNCHANGED <<pool, priv, held, op, cbs, defer>>

BackendUnmaps(ref) ==
    /\ ref \in mapped
    /\ flags' = [flags EXCEPT ![ref] = IF @ = "busy" THEN "permit" ELSE @]
    /\ mapped' = mapped \ {ref}
    /\ UNCHANGED <<pool, priv, held, op, cbs, defer>>

BackendTransfers(ref) ==
    /\ \/ flags[ref] = "accept" /\ flags' = [flags EXCEPT ![ref] = "committed"]
       \/ flags[ref] = "committed" /\ flags' = [flags EXCEPT ![ref] = "completed"]
    /\ UNCHANGED <<mapped, pool, priv, held, op, cbs, defer>>

(* gnttab_resume on the destination host: the table Xen maps there is new. *)
(* The drivers' CPUs are stopped wherever they are, but not while one      *)
(* waits for a page transfer: Xen finishes those within its hypercall.     *)
GnttabResume ==
    /\ "resume" \in Faults
    /\ \A r \in Refs : flags[r] # "committed"
    /\ \A c \in Clients : op[c].seen # "committed"
    /\ flags' = [r \in Refs |-> "clear"]
    /\ mapped' = {}
    /\ UNCHANGED <<pool, priv, held, op, cbs, defer>>

ClientStep(c) ==
    \/ "single" \in Uses[c] /\ GrantForeignAccess(c)
    \/ \E n \in 1 .. MaxBatch : AllocGrantReferences(c, n)
    \/ \E how \in {"permit", "accept"} \cap Uses[c] : ClaimAndGrant(c, how)
    \/ \E ref \in Refs : Regrant(c, ref)
    \/ \E ref \in Refs, dest \in {"pool", "batch"} \cap Uses[c] : BeginEnd(c, ref, dest)
    \/ FreeGrantReferences(c)
    \/ \E n \in 1 .. MaxBatch : "callback" \in Uses[c] /\ RequestFreeCallback(c, n)
    \/ CancelFreeCallback(c)

EndStep(c) ==
    \/ CasClear(c) \/ CasRetry(c) \/ TransferDone(c) \/ AddDeferred(c)
    \/ StillInUse(c) \/ PutToPool(c) \/ ReleaseGrantReference(c)

HandlerStep ==
    \/ TimerExpires \/ DeferredCas \/ DeferredPut
    \/ DeferredNext \/ DeferredKeep

XenStep ==
    \/ \E ref \in Refs :
          BackendMaps(ref) \/ BackendUnmaps(ref) \/ BackendTransfers(ref)
    \/ GnttabResume

(* Nothing runs after the kernel has oopsed.                               *)
Next ==
    /\ ~oops
    /\ \/ \E c \in Clients : ClientStep(c) \/ EndStep(c)
       \/ HandlerStep
       \/ XenStep

Spec == Init /\ [][Next]_vars

(* The timer interrupt comes and its handler runs on: no driver and no     *)
(* backend owes anybody a step.                                            *)
FairSpec == Spec /\ WF_vars(~oops /\ HandlerStep)
-----------------------------------------------------------------------------
(* Where a reference can be.                                               *)
Chain(h)  == {Walk(entry, h)[i] : i \in 1 .. Cardinality(Refs) + 1} \ {LIST_END}
Free      == Chain(freeHead)
Ending    == {op[c].ref : c \in Clients} \ {NoRef}
Parked    == {deferred[i] : i \in 1 .. Len(deferred)} \cup ({dh.ref} \ {NoRef})
Usable    == NReserved .. nrFrames * EntriesPerFrame - 1

Types ==
    /\ entry \in [Refs -> Links]
    /\ freeHead \in Links
    /\ freeCount \in Nat
    /\ nrFrames \in 1 .. MaxFrames
    /\ flags \in [Refs -> Flags]
    /\ mapped \in SUBSET Refs
    /\ priv \in [Clients -> Links]
    /\ held \in [Clients -> SUBSET Refs]
    /\ op \in [Clients -> [pc : {"idle", "cas", "put"}, ref : Refs \cup {NoRef},
                           seen : Flags, dest : {"pool", "batch"}]]
    /\ waiting \in SUBSET Clients
    /\ queued \in [Clients -> BOOLEAN]
    /\ need \in [Clients -> Nat]
    /\ deferred \in Seq(Refs)
    /\ timer \in BOOLEAN
    /\ dh \in [pc : {"idle", "cas", "put", "next", "keep"},
               ref : Refs \cup {NoRef}, seen : Flags,
               first : Refs \cup {NoRef}, nr : Nat]
    /\ leaked \in SUBSET Refs
    /\ oops \in BOOLEAN

(* No reference is in two places and none is lost: each entry of the       *)
(* frames in use, but the reserved ones, is on the free list, on one       *)
(* private chain, held or being ended by one driver, parked, or leaked.    *)
(* And the free list ends and has the length gnttab_free_count, which      *)
(* get_free_entries trusts when it walks the chain.                        *)
OneOwner ==
    LET Owned == [c \in Clients |-> Chain(priv[c]) \cup held[c] \cup ({op[c].ref} \ {NoRef})]
    IN  /\ Types
        /\ Walk(entry, freeHead)[Cardinality(Refs) + 1] = LIST_END
        /\ Cardinality(Free) = freeCount
        /\ Free \cup Parked \cup leaked \cup UNION {Owned[c] : c \in Clients} = Usable
        /\ Free \cap Parked = {} /\ Free \cap leaked = {} /\ Parked \cap leaked = {}
        /\ \A c \in Clients :
              /\ Owned[c] \cap (Free \cup Parked \cup leaked) = {}
              /\ Chain(priv[c]) \cap held[c] = {}
              /\ op[c].ref \notin Chain(priv[c]) \cup held[c]
              /\ \A d \in Clients \ {c} : Owned[c] \cap Owned[d] = {}
        /\ Cardinality(Parked) = Len(deferred) + IF dh.ref = NoRef THEN 0 ELSE 1

(* A reference that can be handed out again gives no domain access: the    *)
(* backend is cut off before the entry goes back to the free list or to a  *)
(* private chain, however its maps and unmaps race with the driver.        *)
UnownedIsClosed ==
    \A r \in Free \cup UNION {Chain(priv[c]) : c \in Clients} :
        flags[r] \notin Open /\ r \notin mapped

(* No wakeup is lost: a driver stays queued for free entries only while    *)
(* there are fewer than it asked for, and is queued once.                  *)
NoLostWakeup ==
    \A c \in Clients : /\ queued[c] <=> c \in waiting
                       /\ queued[c] => freeCount < need[c]

(* The timer that retries parked references only ever finds some: the      *)
(* handler re-arms it under "!list_empty(&deferred_list)" alone.           *)
TimerFindsEntries == ~oops

(* A parked reference is reclaimed once the backend stops using it, even   *)
(* if others stay in use for ever: the rotation of deferred_list reaches   *)
(* each entry though a tick tries DeferBatch of them at most.              *)
ParkedReclaimed ==
    \A r \in Refs : <>[](r \notin mapped) => []<>(oops \/ r \notin Parked)
=============================================================================
