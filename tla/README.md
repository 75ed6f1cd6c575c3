# TLA+ verification of the SAP-HANA-Tools Xen front-end drivers

The repository builds the drivers that let a Linux guest on Xen use
paravirtual disks, network cards, SCSI adapters and memory ballooning, and
that take part in the suspend and live migration of the guest. The modules in
this directory model the parts of them that are hard to test: what two domains
or two threads do to shared memory in an order nobody wrote a test for, and
what a migration finds half done.

Modelled is the newest generation of the code,
`src/uvp-xenpv/uvp-classic_xen_driver-3.12.xto3.16.x/` (called `D/` below), with
the files of the `3.12.49` variants, as the makefiles build it: as modules of
an HVM guest (`MODULE` defined, `CONFIG_XEN` not).

- [1. The system](#1-the-system)
- [2. Modules](#2-modules)
- [3. Runs](#3-runs)
- [4. Proofs](#4-proofs)
- [5. What the work has found](#5-what-the-work-has-found)
- [6. Not modelled](#6-not-modelled)
- [7. Plan](#7-plan)

To repeat it: `tlc -config MCIoRing.cfg MCIoRing` and likewise for each pair of
the table in section 3; `tlapm M.tla` for `M` in `IoRingProofs`, `BlkfrontProofs`,
`XenbusProofs`, `EvtchnProofs`, `MemoryProofs`, `NetTxProofs`, `NetRxProofs`,
`ScsifrontProofs`.

## 1. The system

```
    block layer            network stack         SCSI layer     memory manager
        |                       |                    |                |
    blkfront               netfront            scsifront          balloon
        |   \                 /  |               /   |                |
        |    shared I/O rings (ring.h)          /    |                |
        |            |                         /     |                |
     grant table ----+---- event channels ----+      |                |
        |                    |                       |                |
        |                xenbus_comms (bytes) ---- xenbus_xs ---- xenbus_probe, xenbus_client
        |                                            |                |
        +------------- reboot / machine_reboot ------+--- suspends and resumes all
```

| component (files under `D/`) | state | operations | talks to | hard |
|---|---|---|---|---|
| **grant table** `xen-platform-pci/gnttab.c` | free list through `gnttab_entry()`, its count, private chains, `deferred_list` and timer, free callbacks, the shared flags | take, grow, open to the backend, end access, end transfer, free, defer, call back, resume | all drivers (calls, callbacks); Xen and the backends (shared flags) | compare-and-exchange against the backend's maps; the deferred handler that drops its lock; growth that runs callbacks; allocation failures; migration |
| **shared I/O ring** `include/xen/interface/io/ring.h` | four shared indices, entries, private indices of both ends | put, push and check notify, take, final check | the two ends, without a lock | notification hold-off: the index the other side asked for may be stale; 32-bit wrap-around |
| **block front end** `xen-vbd/3.12.49/blkfront.c`, `vbd.c`, `vcd.c` | request queue, ring, `shadow`, `indirect_segs`, `resume_list`, `resume_split`, connection state | do_blkif_request, blkif_int, blkif_restart_queue, connect, resume, blkif_free, blkif_recover, kick | block layer, grant table (callback), xenbus (states), ring | migration with requests anywhere; hosts with other limits; split requests; running out of references |
| **network front end** `xen-vnif/3.12.49/netfront.c` | both rings, `rx_skbs`, `tx_skbs`, batch, target, timer, NAPI state, carrier | start_xmit, tx clean-up, poll, refill, open, close, connect, resume | network stack, grant table, xenbus, rings | poll against interrupt; refill that fails; reconnection with packets in flight; interrupts put off |
| **xenstore client** `xen-platform-pci/3.12.49/xenbus_xs.c`, `xenbus_comms.c` | request and response ring, `reply_list`, watches, `watch_events`, five locks | talkv, transactions, register and unregister watches, reader thread, xenwatch thread, suspend, resume | every driver, xenstored | five locks, callbacks that use xenstore themselves, a new xenstored after a migration |
| **shutdown and suspend** `xen-platform-pci/3.12.49/reboot.c`, `machine_reboot.c` | `shutting_down`, work items, threads, the control node, spinning processors | watch handler, suspend interrupt, suspend thread, shutdown thread, `__xen_suspend` | xenstore, processors, all devices | requests that race a resume; processors that must not run in between |
| **event channels** `evtchn.c` | pending, mask and selector bits, the table of slots, `in_handler`, last processed port | bind, unbind, mask, interrupt scan, resume | every driver, Xen | unbind against a running handler; bits read and cleared in steps while Xen sets them; fair scan |
| **device bus** `xenbus_probe.c`, `xenbus_client.c`, and open, close and removal in `blkfront.c` | device list, watches on the other end, states of both ends, `info` and disk of each device | probe, connect, otherend_changed, remove, resume, open, release | toolstack and back end (nodes), block layer (`bd_mutex`), xenstore | removal, last close, back end's `Closing` and a migration that meet |
| xenstore device `3.12.49/xenbus_dev.c` | replies queued per open file, its transactions and watches | read, write, poll, release | user space, xenstore client | release with a transaction open; watch events while it reads |
| **SCSI front end** `xen-scsi/` | shadow ids, ring, `callers`, `pause`, worker thread | queuecommand, reset, response handling, connect, suspend, cancel, resume | SCSI layer, ring, grant table | `callers` is counted with and without the lock; a signal during a reset; timeouts against late answers |
| **balloon** `xen-balloon/` | `balloon_stats`, ballooned pages, the work item | target watch, writes to `/proc` and sysfs, batches up and down | memory manager, Xen, xenstore | setters and the loop share `target_pages` without a lock; a batch cut short |
| platform device `platform-pci.c` and others | hypercall page, callback irq | start, resume, unplug emulated devices | Xen | order of start-up |
| accelerator `accel.c`, host time `xen-hcall/` | plug-in list; none | | | |

What makes them correct:

- **Grant table.** A reference has one owner; one that is free or parked for
  reuse gives no backend access to a page; a parked one is reclaimed once the
  backend lets go; a driver that waits for references is called.
- **Ring.** Neither end overwrites what the other has not read; neither sleeps
  on published work; every published request is answered and handled.
- **Block.** A request is ended once, with success only if all of it is on the
  disk, whatever migrations come between; recovered requests go before new
  ones; a stopped queue is started again.
- **Network.** Each response finds its buffer and each packet is freed once; a
  packet the stack hands over fits; packets and a backend without buffers are
  noticed; a stopped queue starts again.
- **xenstore.** Replies reach who asked; no event or watch is lost over a
  migration; no callback runs after its watch was unregistered; nobody waits
  for ever.
- **Event channels.** No handler runs once unbind has returned; no event is lost
  between the bits; no port of a word is starved by another.
- **Device bus.** What the driver knows of a device exists for all who use it and
  goes with the last; the back end hears `Closed` only when nobody has the disk
  open; a device that comes or goes ends connected or gone.
- **SCSI.** Nobody is inside the driver while the ring is replaced; each id has
  one use and none is lost; every command and every reset ends once.
- **Balloon.** The books agree with Xen's; no request is forgotten; the guest
  never goes below its minimum.
- **Shutdown.** One actor at a time carries out what was asked; a power-off is
  not forgotten; no processor runs while the grant table is not mapped.

## 2. Modules

All rest on one reading of the code: a step is what no other actor can see the
middle of. Under a spinlock that is a critical section; between two domains it
is one access to one shared word.

| module | models | notes |
|---|---|---|
| `Gnttab`, `MemoryProofs` | `gnttab.c` | proved, section 4 |
| `IoRing`, `IoRingProofs` | `ring.h`, as `blkfront.c` drives it | proved, section 4 |
| `BlkDevice` | what a block device promises its users | abstract specification, 45 lines |
| `Blkfront`, `BlkfrontProofs` | `blkfront.c`: requests and recovery, the queue limits of `vbd.c` | implements `BlkDevice` (property `Device`); proved, section 4 |
| `Scsifront`, `ScsifrontProofs` | `scsifront.c` and `xenbus.c` of `xen-scsi` | implements `BlkDevice` as well; proved, section 4 |
| `Hotplug` | `xenbus_probe.c`, `xenbus_client.c`, and the life cycle in `blkfront.c` | the front of `Blkfront`: connection, removal, users |
| `NetRx`, `NetRxProofs` | receive path of `netfront.c` | proved, section 4 |
| `NetTx`, `NetTxProofs` | transmit path of `netfront.c` | proved, section 4 |
| `Xenbus`, `XenbusProofs` | `xenbus_xs.c` over `xenbus_comms.c` | proved, section 4 |
| `Evtchn`, `EvtchnProofs` | `evtchn.c` | proved, section 4 |
| `BalloonState`, `Balloon`, `MemoryProofs` | `balloon.c`, `sysfs.c` of `xen-balloon` | proved, section 4 |
| `ShutdownState`, `Shutdown`, `XenbusProofs` | `reboot.c`, `machine_reboot.c` | proved, section 4 |
| `MC...` | constants for the runs | |

The models are layered like the code: `Blkfront`, `Scsifront`, `NetRx` and `NetTx`
take for granted what `IoRing`, `Evtchn` and `Gnttab` check (that published work
is noticed, that the pool gives a reference to one owner) and hold what the ring
contains, or the pool's size, in place of its mechanism. `Hotplug` takes for
granted what `Xenbus` checks (that events arrive, that watches survive a
migration) and `Xenbus` the order in which `Shutdown` suspends.

**Refinement.** `BlkDevice` says what a device promises the layer above: a request
that was submitted ends at most once, and with success only if the backend carried
it out. `Blkfront` and `Scsifront` instantiate it (`Promise == INSTANCE BlkDevice
WITH ...`) and their runs check `Promise!Spec`: every step of recovery, splitting,
timeout and migration is a step of the promise or a stutter.

**Gnttab.** `entry` is `gnttab_entry()`, including the links; `flags` the shared
flags with the stages the backend and Xen move them through. A driver's call
is one step per critical section or shared access (`op[c].pc`), so the
compare-and-exchange loop of `_gnttab_end_foreign_access_ref` can meet a map in
its middle. `dh` is a run of `gnttab_handle_deferred`, `defer` the parking of
an entry. `TimerExpires` on an empty list is the removal of the list head; it
sets `oops`, which `TimerFindsEntries` excludes (section 5).

**IoRing.** The private indices and the four shared words. `PushRequests` and
`NotifyBackend` are the two halves of `RING_PUSH_REQUESTS_AND_CHECK_NOTIFY`
around its barrier, `AskForResponses` and `RecheckResponses` those of
`RING_FINAL_CHECK_FOR_RESPONSES`; the back end runs the mirrored macros.
`Size` and `Wrap` (2^32) are parameters.

**Blkfront.** A request is a number of chunks (11 segments each). The ring is
the batch being filled, the requests `sent`, and the `answers`. `ids` is the
shadow, `tabs` the indirect tables with who owns them, `rec` the recovery lists.
`When` names the moments at which a run lets a migration happen, see section 5.

**NetRx, NetTx.** The two halves of `netfront.c` share only the lifecycle
(open, close, carrier, resume), which each of them has in full. Buffers and
packets are identified by their ring slot or id. `poll.pc` is where
`netif_poll` is; the backend's three steps (write, publish, notify) interleave
with it.

**Xenbus.** `act` is what each thread does with xenstore and how far it is;
the locks are the code's five; a message on the response ring is read in two
parts. `sus` walks through `xs_suspend` and `xs_resume`. Two xenstoreds, before
and after the migration, differ in what they know (`tokens`, `txs`).

**Shutdown.** `shutting_down` and the two callers of `switch_shutdown_state`
with their compare-and-exchange loop, the work items, and every thread's place;
`ap` the other processors in `ap_suspend`.

**Evtchn.** The bits Xen and the guest share (`pending`, `sel`, `upcall`, `mask`),
the slots of `irq_evtchn` field by field, `pc` for the scan of `evtchn_interrupt`,
`dpc[d]` for each driver that binds and unbinds on another processor. A step of
the scan is one access to what others write.

**Scsifront.** `callers` and `pause` as the code counts them, including the
two accesses of `scsifront_enter` without the lock; `shadow` with the free list of
ids; `rs[h]` for each thread in `scsifront_dev_reset_handler`; `xb` for suspend and
resume. The response thread holds the host lock for several steps (`lock`).

**Balloon.** `target_pages` and `flag` are written by each caller of
`balloon_set_new_target` in its own steps (`set[s]`), and read by the loop (`at`)
batch by batch; pages are counted, and `reserved` is Xen's count of them.

**Hotplug.** `node` and `back` are the two states in xenstore, `events` what the
xenwatch thread has to handle, `dev` the device on the bus, `life[k]` the k-th
`blkfront_info` with its disk, openers and locks. `xenwatch`, `user[u]` and
`resume` say where each thread is; a step is one access to xenstore or a section
under `bd_mutex` or `info->mutex`. Watch events and callbacks come in the order of
`Xenbus`.

## 3. Runs

| run | what it shows | bounds, and why they are enough | distinct states |
|---|---|---|---|
| `gnttab` | one owner per reference, an intact free list, no lost callback, no access without an owner, parked entries reclaimed | two drivers; two frames of two entries, one reserved: growth, exhaustion, chains of two, failing allocations, migrations; a tick tries one entry, so that rotation matters with two | 1,035,170 |
| `ioring` | entries intact, no sleep on work, all answered | two entries, indices wrap at 8 (> 2 x Size, as 2^32 is): full, empty and wrapped rings | 90,285 |
| `blk_recover` | refinement of `BlkDevice`, requests held in one place until they end, segment tables shared by none, order of recovery, stopped queue watched, every request ends | two requests, one of two chunks; hosts that differ in ring size and indirect support; another driver that empties the pool; two migrations, so that one can interrupt the recovery from the other | 140,073 |
| `blk_split` | **violation**: a migration during a split request | | |
| `shutdown` | one actor, processors held, power-off kept, carried out | three requests, one signal, one failure of `kthread_run`, two other processors: a request during a resume of a suspend during another | 196,944 |
| `xenbus` | replies, transactions, events, callbacks, progress | one driver beside the xenwatch and the suspending thread, which all use xenstore; three operations, one change, one suspend | 155,975 |
| `net_rx` | buffers found, packets noticed, starved backend refilled | ring of 5, wrap 10, target 4 to 5, budget 1, any two mishaps (migration, close, failed allocation, buffer put back) | 5,256,195 |
| `net_tx` | packets freed once, room, wake-up | ring of 4, wrap 8, packets of up to two slots, one migration | 2,092,274 |
| `scsi` | nobody inside while the ring is replaced, ids kept, refinement of `BlkDevice`, commands and resets end | two commands, one with more segments than one host takes; a process and the error handler that reset; one failed allocation, one suspend, cancelled or to a host with a ring of one | 372,356 |
| `evtchn` | no call after unbind, no event lost, every port of a word served | two words of two ports: a busy port beside another, and a busy word beside another; two slots for two drivers that bind and unbind for ever; one resume | 572,099 |
| `balloon` | nothing forgotten, books kept, size settles | six pages, minimum two, batches of two, targets below, between and above; two requests that race, one batch cut short | 226,084 |
| `hotplug` | `info` lives while used, closed only when unused, settles | a disk plugged in twice, one forced removal, one failed connection, one migration, two users: each of removal, close and last close can come last | 165,279 |

`Size = 5` in `net_rx` is no power of two. The code masks with `Size - 1` where
the model takes the remainder, which is the same for powers of two; no step
depends on it, and with 5 the target can grow from 4 to 5 and a batch be kept
for later in a state space TLC can exhaust.

Each property was tried against a plausible bug (`PROJECT.json`, `mutants`; the
mutated operators stand before the originals in the modules), and TLC finds the
property violated by it.

**Deadlock** is checked in `ioring`, `net_rx`, `net_tx` and `evtchn`. The other systems
may stop: drivers need not ask for anything once bounds are used up.

**Fairness.** Only what runs without anyone's consent is fair:

- `Gnttab`: the timer and its handler. No driver and no backend owes a step.
- `IoRing`: an interrupt that is pending is taken, handlers run to their end,
  a backend that was notified serves its ring. Nobody has to send.
- `Blkfront`: the lock is handed over (strong fairness for those that wait for
  it), the block layer runs a queue that is not stopped, workqueue and xenwatch
  run, the backend connects and answers, other drivers give references back.
- `NetTx`: handlers run, the backend sends what it was given.
- `Shutdown`: threads run; `kthread_run` fails a bounded number of times; the
  mutex that freezes xenstore is not refused for ever (strong fairness).
- `Xenbus`: mutexes are handed over in turn, so strong fairness for each
  thread, and xenstored answers.
- `Scsifront`: threads run and leave their critical sections (weak fairness is
  enough), a suspended guest resumes or the suspend is cancelled, the backend
  connects and answers. Signals, timeouts, resets of a process and suspends need
  not come.
- `Evtchn`: the interrupt handler runs on and gets a slot's lock at last (strong
  fairness: spinlocks queue), handlers return, who holds a lock lets it go. Nobody
  has to bind, unbind or send.
- `Balloon`: the xenwatch thread, the work item and a setter under way go on.
- `Hotplug`: the toolstack finishes a removal that it began, the back end follows
  the front end's states, the xenwatch and the suspending thread run (strong
  fairness, they wait for mutexes), a user on the way in or out gets there.
  Nobody has to plug in, detach, open or close.

`AllEnded` of `Blkfront` has a premise of its own: that the other driver at last
stops taking references (`<>[][~OtherTakes]_vars`), since the code never
takes precedence over it.

## 4. Proofs

Eight modules are proved with TLAPS, for every value of their constants. In each
the invariant is a conjunction of named parts, there is one lemma for each action
or group of actions, and the temporal theorems only put these together. Each
invariant was first checked by TLC.

**`IoRingProofs`**, from `RingAssumption` (`Size` divides `Wrap`, which is more than
twice as large). `NeverOverrun`, `NoEventIsMissed`, `NothingOverwritten`,
`TypesCorrect`. The notification property is not inductive: whether a sleeping
backend is going to be told depends on what it asked for and on where the flush
under way started. `IInv` adds that (`BackEvents`, `FrontEvents`): while a side
rests it has asked for the entry after the last one it took, and unless an event
is pending it took all that was published before the flush that has still to
decide. The arithmetic lemma `EventDue` says what the macro's comparison of two
unsigned differences does: a producer that moves at all from the index the
sleeper stopped at passes the index it asked for. The order of the six indices
(`IndicesOrdered`) is part of the invariant since distances on a circle compare
only when they are known to be less than a turn. `NothingOverwritten` adds to it
what each slot holds (`Entries`): two indices less than `Size` apart have different
slots, also across the wrap, because `Size` divides `Wrap` (`SameSlot`, from
quotients and remainders).

**`BlkfrontProofs`**, from `BlkAssumption`. `NoneOvertakes` (`RecoveredFirst`) holds
without any restriction, by `CInv`: what each phase of probe, resume and recovery
says of `connected`, `stopped` and the queue. `AboutToBeKicked` (`StoppedIsWatched`)
and `HeldUntilEnded` (`PendingHeld`) hold for any requests of any length, any hosts and any
number of migrations, those before the recovery from the last one included, provided that
`"splitting" \notin When`: with it the first is the finding of section 5, and what
is left of a split request would be taken for new. `PendingHeld` is not
inductive: whether an id that comes back belongs to the request in its shadow
entry depends on what is on the ring. `WInv` adds that no id is there twice
(`Apart`), that the ids on the ring are just the busy entries and the other ones
just the free list, in those phases in which the driver uses either (`Entries`), that
queue, busy entries and `resume_list` share no request and are together all that are
pending (`Held`), and that what is left of a split request lies with a busy entry
(`Splits`). A queue that is stopped without a callback waits for a response: that the ring is
not empty then comes from `Drains`, that what is left to recover without room
for it finds the ring full. `Ranks` and `CountingIs` are about the list that
`blkif_recover` makes of the busy entries, in the order of their ids; the lemmas before
them say what appending, taking the head, removing and joining do to what a list
holds, and to what it holds once.

`TablesOwned` (`TablesPrivate`) and `DeviceKeepsPromise` (`Device`) hold under `Modest`:
requests of two chunks at most, and `When \subseteq {"connected"}`, so that a migration
finds the device connected and no split request under way and leads to a host
that takes the requests still to come (`Moments`). Requests, rings, references and
migrations are any number. What is left out are the situations of section 5,
requests of three chunks among them. The refinement needs to know what every
message and copy is about, hence the tables, so both theorems rest on one
invariant, `TInv`, on top of `CInv` and `WInv`. `Copies`: what a shadow entry or an entry
of a list no longer keeps of its request has been written (`Remains`). `OnWire`: a
ring request is about what its shadow entry holds, and for a successful response
that part has been written (`Serves`, `Served`). `InSlots` and `InList`: every table
that is not freed belongs to one slot or to one waiting request, and a table in
use describes the whole of its request. A request that is put on the new ring
takes a slot over, and the slot's own table moves to a vacant one or is freed; why
no slot is left without a table comes from counting (`Counted`): while long
requests are still to come, there are no more vacant slots than waiting
requests with tables. `setup_blkring` finds enough of them unused
(`RoomForTables`), and `References` bounds what entries and lists hold of the pool.
There is one lemma for each step: `IssueTables`, `IndirectTables`, `SplitTables`,
`SetupTables`, `RecoverTables` and so on. `PromiseNext` maps each step: `Submit` to
`Submit`, `Answer` to `Write`, a response to `End` - success asks for `Served` and `Remains`
together to be all parts of the request (`ServedWhole`) - and all others to a
stutter.

**`XenbusProofs`**, from `XenbusAssumption`. `RepliesMatch`, `TransactionsAreKnown`,
`NoneCalledAfter`, `NoEventIsLost`, for any number of threads, watches, operations and suspends. `XInv`
has a part for each lock: `Counted` (`transaction_count` is the number of threads
inside a transaction), `Listed` (who holds `watch_mutex`), `Held` (what `xs_suspend`
has taken by then), `Talking` (one message under way, for who holds `request_mutex`,
wherever it is), `InStep` (headers and bodies alternate on the ring, the next body
is that of the header which was read), `Known` and `Silent`, which give the
properties. `Talking` makes the properties inductive: a reply is found on its
whole way from the request to `reply_list`. What `unregister_xenbus_watch` leaves
of `watch_events` is a recursive function (`Without`); `WithoutType` is proved by
induction in the form of a least counterexample (`Least`), as the induction
theorems of the library cannot be used. `NoEventIsLost` adds `Watched`: every watch
that is registered, or was when `xs_suspend` took `watch_mutex`, is set in the
xenstored that answers now, or its `XS_WATCH` is under way, or `xs_resume` has
still to set it; and a change that the callback has not seen has an event on the
ring, in the reader's hands or on `watch_events`. Resume may throw away
what the old rings held because each watch it sets again makes an event.

The same module has the theorems about the shutdown requests, from
`ShutdownAssumption`: of `ShutdownState`, its variables and invariants, under `S!Spec`,
which is that of `Shutdown`. `OneAtATime`, `ThreadsAreRight`, `PowerOffIsKept`,
`ProcessorsAreHeld`. The argument is that of a token: `shutting_down # INVALID` means
that exactly one of a caller about to schedule the work, the scheduled work, the
work function and a running thread has it. `RequestTyped /\ OneOwns /\ StateFits /\
RightThread` is inductive, with one lemma for each way in which the token moves
(`MoveStep`, `LeaveStep`, `CallStep`, `SwitchStep`, `SpawnStep`) and `OthersStep` for
steps that leave it alone; `NodeStored` says what a transaction has read.
`PowerOffKept` is an action property that follows from it, since only the
thread that has the token, after `/sbin/poweroff`, leaves `POWEROFF` or `HALT`.
`ProcessorsAreHeld` counts the processors in `ap_suspend` as the code's counter does:
that its value is the cardinality of the set of spinners (`Processors`) tells the
suspending processor when all are there and when the last has left.

**`EvtchnProofs`**, from `EvtchnAssumption`. `HandlersAreBound`: `SafeInv` is the types,
who has which slot (`SlotsApart`), and that the handler's slot is marked in
`in_handler` and its driver still bound or waiting in unbind (`HandlerHeld`).
`EventsAreKept` adds the maps between ports and slots (`PortsMapped`) and where an
event is between the pending bit, the selector, the upcall flag and the scan
(`EventsKept`), which is inductive only with the place of the scan in the word.

**`MemoryProofs`**, first about `Gnttab`, from `TableAssumption`: any number of drivers,
each with any of the calls, any size of the table and of a frame, any batch, failing
allocations and migrations. The free list and the private chains are linked through
one array; `Linked(e, h, n)` says that there is a path of `n` different entries from `h`
to `LIST_END`, and `LinkedChain` that the walk of the code's loops visits just these,
in order, and ends. Four lemmas say what becomes of paths: an entry is put before one
(`ChainPush`), a path is cut after `n` entries (`ChainCut`, `ChainPop`), put before another
(`ChainJoin`), or extended by the entries of new frames (`ChainGrow`). Where a
reference can be is a place in `Spots` (the free list, each private chain, each driver's
grants, the one it is ending, `deferred_list`, the handler's hand, leaked), and `Located`
maps each place to what is there; `Apart` says that the places share nothing and are
all of the frames in use. A step moves references from one place to another (`Moves`)
or adds new ones to a place (`Widened`), so that each of the twenty steps proves only
which place it takes from and gives to. `GInv` (`Types`, `Chained`, `Apart`, `InHand`) is
inductive and gives `OwnersAreApart`. `OneOwner` by itself is not inductive: it says what
the free list is, but not that the private chains end, on which taking from them and
giving them back rest. `FreeAreClosed` adds `Shut`: what is mapped has its flags busy,
only what a driver holds, is about to close or has given up may be open, and a
transfer seen to be completed stays so. It is inductive given `GInv`, for the entry
that a step opens was in a place where nothing is open. `WaitersAreWoken`
needs `GInv` only for the types: each step that adds free entries runs the callbacks
with the new number, and growing runs them with more entries than are left
once the caller has taken its own.

The same module has the theorems about the balloon, from `BalloonAssumption`: of
`BalloonState`, its variables and invariants, under `B!Spec`, which is that of `Balloon`.
`NoneForgotten`, `NeverBelowMinimum`, racing requests included:
`NotForgotten` is inductive with `Above`, that no size below the minimum is set, about to
be set, or about to be reached by the batch.

**`ScsifrontProofs`**, from `ScsifrontAssumption`. Three layers, each inductive with the
ones before it, each under the encounters (`When`, section 5) that the code does
not survive. `QuietHolds`: `QInv` says that `callers` counts the threads inside,
each of which is named, and what `pause` is at each stage of a suspend (`Counted`,
`Staged`). `IdsAreKept`: `IInv` says that the free list has no id twice and holds
just those whose shadow is not busy, and who will put back each of the others
(`Used`, `Free`, `Held`, `OnRing`). `Implements` is the refinement: every step of
the driver is a step of `BlkDevice` or a stutter, with `FInv`, which knows what has
become of each command wherever it is, and that the error handler returns it only
when nothing of it is left on the ring. This is the safety of the property
`Device`, the whole of `BlkDevice!Spec`. `MaxReqs` is `VSCSIIF_MAX_REQS`.

**`NetTxProofs`**, from `NetTxAssumption`. `OnRingOnce`, `PacketsFit`,
`NoneLeftUncollected`, with one invariant, `TInv`. It counts everything from `rsp_cons`,
where the window of requests and responses that were not handled begins: the order
of the other indices in it (`Ordered`), which packet each slot of it names
(`OnRing`; two places of a window shorter than the ring have different slots, as
`Size` divides `Wrap`), how much is left (`Room`), and which response the resting
collector has asked to be told of (`Asked`: the one halfway through the
window, so that a backend that has passed it is about to notify). Without
`"full"`, whose open starts a queue that has no room.

**`NetRxProofs`**, from `NetRxAssumption`. `BuffersFound` holds without any
restriction: `BInv` says that the buffers are the slots of the window, each once,
and with the batch not more than the target. `ResponsesAreSeen` adds `SInv`: while
the poll rests it has asked for the next response, or an interrupt is pending.
It needs `OtherCpu = FALSE`, for an interrupt on another processor between the
last look and `__napi_complete` is dropped. `StarvedBackendWatched` adds `WInv`, what
was published to whom and that the refill timer is armed when nothing was; it
needs `"wrap" \notin When` too, since `network_alloc_rx_buffers` compares the
indices themselves.

Thus checked and proved: `PendingHeld`, `RecoveredFirst`, `StoppedIsWatched`,
`Gnttab!OneOwner`, `UnownedIsClosed`, `NoLostWakeup`,
`Shutdown!OneOwner`, `PowerOffKept`, `ApsHeld`,
`EntriesIntact`, `NobodySleepsOnWork`, `ReplyMatches`, `TransactionsKnown`,
`NoCallbackAfter`, `Xenbus!NoEventLost`, `NoCallAfterUnbind`, `Evtchn!NoEventLost`,
`NotForgotten`, `Quiet`, `IdsKept`, `Scsifront!Device`, `EachOnRingOnce`,
`RoomForPacket`, `AnsweredIsCollected`, `BuffersInWindow`, `ResponsesSeen`,
`StarvedIsWatched`, `TablesPrivate`, `Blkfront!Device`. Model-checked only: `InfoLives` of
`Hotplug`; and all liveness, which is out of
the prover's reach (as are `ENABLED` and `RECURSIVE` operators, of which the modules
have none). Proved without a run of their own, as runs of other properties imply
them or they only serve the proofs: the types, `RightThread`, `IndicesOrdered`,
`Bounded`.

## 5. What the work has found

Where the code and what the repository says of it disagree, a run shows it:

1. `blk_split`. A split request is on `resume_split` and in the shadow; after a
   migration its old entry stays on the list and the queue is never started.
   (`blkfront.c:183`: recovery is "transparent to the rest of the kernel".)

Further situations violate a property, but no text in the repository promises
otherwise, or they need what the real constants make unlikely. The passing runs
leave them out by a constant, and each is a hazard of `PROJECT.json`; with the
name in `When`, TLC shows the violation:

| constant | situation | property violated |
|---|---|---|
| `Gnttab`, none | an entry parked while `gnttab_handle_deferred` has dropped the lock arms the timer; the handler goes on, reclaims that entry as well, and leaves an armed timer with an empty list, on whose head the next run does `list_del` (`gnttab.c:236`) | `TimerFindsEntries` |
| `When`, `"suspended"` (Blkfront) | a second resume before the first was recovered: `blkif_free` then takes the device for disconnected, forgets the requests, and the disk is added again (`BUG_ON(info->gd != NULL)`) | `ConnectsOnce` |
| `"disconnected"` | a resume before the first connection: `setup_blkring` uses frame arrays that were freed | `FramesNotFreed` |
| `"outgrown"`; requests of three chunks | spare tables taken from slots that still own theirs | `TablesPrivate` |
| `"oversized"` | the queue's limits are those of the first host; after a migration to one with lower limits a `BUG_ON` is reached | `RequestFits` |
| `"oversized"`, three migrations | the ring shrinks, then grows on a host without indirect requests: `setup_blkring` on the next one finds the ring as long as before and allocates nothing, though `blkif_recover` has freed the table of the last slot (`blkfront.c:408`, `:1221`) | `TablesPrivate` |
| `OtherCpu` (NetRx) | an interrupt or the timer on another processor than the poll's, between the last look and `__napi_complete` | `ResponsesSeen` |
| `"off"` | a close without a carrier: `netif_poll` stays scheduled, `napi_disable` waits with `rtnl_lock` held, which `network_connect` needs | `CloseNotStuck` |
| `"wrap"` | buffers put back across the wrap of the index are not published | `StarvedIsWatched` |
| `"full"` (NetTx) | an open with a nearly full ring starts the queue | `RoomForPacket` |
| `"entering"` (Scsifront) | `queuecommand` counts itself without the lock, and an update of `callers` or a look at `pause` is lost | `Quiet` |
| `"worker"` | a resume while the worker thread still has to look at the ring | `Quiet` |
| `"signal"`, `"collect"` | the response to a reset is handled between a signal to its waiter and the lock, or an id is wanted before the waiter has put it back | `IdsKept` |
| `"slot"` | a migration while a reset waits for room: nobody wakes it | `Returns` |
| `"recovery"` | a suspend while the error handler is at work ends commands twice | `Device` |
| `"hotplug"`, `"reconnecting"` | the backend is `Connected` once more while the device is suspended or not yet back: `pause` is cleared too early | `Quiet` |
| `"racing"` (Balloon) | `target_pages` changes between the loop's last look and the write to `memory/target`: two sizes chase each other for ever | `Settles` |
| `"replug"` (Hotplug) | a directory created again before the old device is gone is taken for the old one | `Settles` |
| `"getting"` | a user has found the disk when the device goes: `blkif_open` meets freed memory | `InfoLives` |
| `"connecting"` | `talk_to_backend` fails in a callback: `info` is freed and the device stays bound | `InfoLives` |
| `"waiting"` | the device goes while `add_disk` reads the disk in the xenwatch thread, or a close flushes it | `Settles` |
| `"busy"` | a migration in the middle of a callback | `InfoLives` |
| `"early"` | a callback between `xs_resume` and the end of `resume_dev` | `InfoLives` |
| `"vanishing"` | the directory is gone after the migration: `bus_for_each_dev` stops at it | `InfoLives` |
| `"suspended"` | a device that is to be closed before it was connected again | `Settles` |

The scan of `evtchn_interrupt` does not read the selector again before it ends, so
that ports of a word that became pending meanwhile wait for as long as others
stay busy; `Served` states that as its only exception.

And some that no property states: the grant references of the chunks left in a
failed split request are not put back (`blkfront.c:1525`); a request read during
a suspend that is then cancelled stays in the control node with no event to come,
and one that was read before the state changed is acknowledged and dropped
(`reboot.c:173`); a processor that comes online between `num_online_cpus` and
`smp_call_function` upsets the count of `__xen_suspend` (`machine_reboot.c:82`);
a migration in the middle of a page transfer leaves
`gnttab_end_foreign_transfer_ref` waiting (`gnttab.c:366`); a signal during
`xb_write` with a full ring leaves half a message (`xenbus_comms.c:137`); the error
path of `initiate_ap_suspend` cannot be reached in this build. The comment at
`xenbus_xs.c:93`, that `response_mutex` is never taken together with the other three,
does not hold of `xs_suspend`, which takes all four; nothing waits in the opposite
order (`Ends`).

## 6. Not modelled

- **Byte ring of `xenbus_comms.c`**: messages in two parts instead (`Xenbus`).
- **xenstore for user space, `3.12.49/xenbus_dev.c`**: one more client of what
  `Xenbus` models; its queue of replies and the transactions of each open file are
  not.
- **`platform-pci.c` and the small files beside it**: run once at start, or are
  one hypercall; the resume of the platform is a step of `Shutdown`.
- **`accel.c`**: its plug-ins are not in the repository; the network models are
  of an interface without one. **`vcd.c`, most of `vbd.c`**: names and CD commands.
- **`xenbus_*_backend*.c`, `xenbus_probe_frontend.c`, `xenbus_dev_frontend.c`**: not
  linked by `xen-platform-pci/Kbuild`.
- **`uvp-classic_xen_driver-2.6.32to3.0.x/`** and the `3.12.28` and `opensuse` copies:
  other versions of the same drivers, which are most of the repository's lines: each
  of `netfront.c`, `blkfront.c` and the others exists up to a dozen times. A
  definition names the lines of one version, the newest, and what was checked is
  said of that one only: the older ones differ in their locking and recovery.
  `vni_front/` is a vendored virtio driver.
- **`Makefile`, `build_tools`, `install`, `bin/`, `OTC-patches/`, `docs/`**: packaging.

Within the modelled components: `Blkfront` has no ioctl, discard and barriers, and no
allocation failures in `setup_blkring` (`Hotplug` has those, and open, release, close
and removal, without requests); `NetRx`/`NetTx` no flipping receiver, no changes of the
target through sysfs, no hot-unplug; `Xenbus` no callbacks in threads of their own
(`XBWF_new_thread`), no errors of xenstored; `Shutdown` no sysrq watch and no
registration of watches; `Scsifront` no removal, no segment lists and persistent
grants beyond whether a command fits the backend, and of LUN hot-plug only what it
does to `pause`; `Evtchn` the per-processor state of processor 0 only, as the code;
`Balloon` no pages taken by drivers and no statistics; `Hotplug` one device with one
behind it on the bus, no kdump reset, no shutdown at power-off, no unbinding by hand.

## 7. Plan

Done: `Gnttab`, `IoRing`, `BlkDevice`, `Blkfront`, `Shutdown`, `Xenbus`, `NetRx`, `NetTx`,
`Evtchn`, `Scsifront`, `Balloon`, `Hotplug`, and the proofs of section 4. Left, in
this order:

1. `XbRing`: the byte ring of `xenbus_comms.c`, refined to the messages that `Xenbus`
   uses; with it signals in `xb_write`.
2. `Suspend`: composition of `Shutdown`'s order with `Xenbus` and the resumes of several
   devices, of which `Hotplug` has one.
3. `XenbusDev`: the replies, watches and transactions of a file, and its release.
4. Open and close of `Hotplug` composed with the requests of `Blkfront`.

Abstract specifications: `BlkDevice` (done); a pool of grants with owners only,
implemented by `Gnttab`; a queue of messages with a sleeping reader, implemented by
`IoRing`; a lock-free token, implemented by `Shutdown`.

Theorems: `InfoLives` of `Hotplug`.
