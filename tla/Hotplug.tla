------------------------------ MODULE Hotplug ------------------------------
(***************************************************************************)
(* A block device from its directory in xenstore to its disk: the device   *)
(* bus (xenbus_probe.c, xenbus_client.c) and the life cycle of blkfront.   *)
(*                                                                         *)
(* The toolstack creates and removes the directory, the two ends tell each *)
(* other their states in it.  The xenwatch thread probes, connects, closes *)
(* and removes the device, one watch event at a time; users open and close *)
(* the disk; the suspending thread resumes the device on another host.     *)
(* What blkfront knows of a device, info, is freed by whoever comes last.  *)
(*                                                                         *)
(* A step is one access to xenstore, or what is done under bd_mutex or     *)
(* info->mutex.  Requests and the ring are the subject of Blkfront.        *)
(***************************************************************************)
EXTENDS Integers, Sequences, FiniteSets

CONSTANTS
    Users,      \* processes that open the disk
    Plugs,      \* bound on how often the device is plugged in
    Forced,     \* bound on removals that do not wait for the device
    Migrations, \* bound on migrations
    Failures,   \* bound on allocations that fail in setup_blkring
    When,       \* what may meet, see Apart
    Xenwatch    \* the thread, where it holds bd_mutex

ASSUME HotplugAssumption ==
    /\ {Plugs, Forced, Migrations, Failures} \subseteq Nat
    /\ Xenwatch \notin Users
    /\ When \subseteq {"replug", "getting", "connecting", "waiting", "busy",
                       "early", "vanishing", "suspended"}

VARIABLES
    node, back,     \* the states in xenstore of the front end and the back end
    events,         \* watch_events, of the two watches
    dev,            \* struct xenbus_device, and what the bus has of it
    life,           \* each struct blkfront_info with its disk
    xenwatch,       \* where the xenwatch thread is
    user,           \* where each user is
    resume,         \* where the suspending thread is
    behind,         \* a device behind this one on the bus was resumed
    did             \* how much of the bounds is used, and whether the
                    \* toolstack asked for the device to be closed

store == <<node, back, events>>
vars  == <<store, dev, life, xenwatch, user, resume, behind, did>>

States == {"Initialising", "InitWait", "Initialised", "Connected", "Closing", "Closed"}
None   == "none"        \* no such node, XenbusStateUnknown
Infos  == 1..Plugs

Talking(from) == [at |-> "talk", from |-> from]
At(place)     == [at |-> place, from |-> "probe"]

(* Each name in When is a moment at which two of the actors may meet:      *)
(* "replug": a node is created while the device before it, or the disk, is *)
(*     still there;                                                        *)
(* "getting": the device is removed after a user found the disk, and the   *)
(*     disk closed, before it is opened;                                   *)
(* "connecting": talk_to_backend fails elsewhere than in probe, for want   *)
(*     of memory, or in a callback because the node goes;                  *)
(* "waiting": it goes while the disk is read for partitions or flushed;    *)
(* "busy": a migration in the middle of a callback, or while the toolstack *)
(*     waits for the device to be closed;                                  *)
(* "early": a callback between xs_resume and the end of resume_dev;        *)
(* "vanishing": the node goes at a migration;                              *)
(* "suspended": the device is to be closed before it is connected again.   *)
Apart(name, cond) == name \in When \/ cond

NoDevice == [there |-> FALSE, bound |-> FALSE, state |-> "Initialising",
             watch |-> FALSE, info |-> 0]
NoInfo   == [info |-> "none", xbdev |-> FALSE, conn |-> "disconnected", ring |-> FALSE,
             gd |-> FALSE, listed |-> FALSE, private |-> FALSE,
             openers |-> 0, lock |-> "free"]
-----------------------------------------------------------------------------
(* The events of a write to the directory of the front end, and to the     *)
(* state of the back end.  One event "device" behind another finds what    *)
(* the other finds, so that it is left out.                                *)
Fired(queue, watch) ==
    IF watch = "device" /\ queue # <<>> /\ queue[Len(queue)] = "device"
    THEN queue
    ELSE Append(queue, watch)

FiredState(queue) == IF dev.watch THEN Append(queue, "state") ELSE queue

(* __xenbus_switch_state: "if the node has gone, we don't write to it".    *)
Switch(state) ==
    LET writes == dev.state # state /\ node # None IN
    /\ node' = IF writes THEN state ELSE node
    /\ events' = IF writes THEN Fired(events, "device") ELSE events

(* blkfront_closing up to the end of xlvbd_del.                            *)
Deleted(l) == [l EXCEPT !.gd = FALSE, !.listed = FALSE]

(* The disk answers requests, which the back end does until it is Closed.  *)
Answers(k) == life[k].conn = "connected" /\ back \in {"Connected", "Closing"}

InfoMutexFree(k) ==
    \A u \in Users : user[u].k = k => user[u].at \notin {"closing", "telling"}

Init ==
    /\ node = None /\ back = None /\ events = <<>>
    /\ dev = NoDevice
    /\ life = [k \in Infos |-> NoInfo]
    /\ xenwatch = At("idle")
    /\ user = [u \in Users |-> [at |-> "out", k |-> 0]]
    /\ resume = "idle" /\ behind = TRUE
    /\ did = [plug |-> 0, force |-> 0, migrate |-> 0, fail |-> 0, detach |-> FALSE]
-----------------------------------------------------------------------------
(* The toolstack and the back end. *)

Plug ==
    /\ node = None /\ did.plug < Plugs
    /\ Apart("replug", ~dev.there /\ \A k \in Infos : ~life[k].gd)
    /\ node' = "Initialising" /\ back' = "Initialising"
    /\ events' = Fired(FiredState(events), "device")
    /\ did' = [did EXCEPT !.plug = @ + 1, !.detach = FALSE]
    /\ UNCHANGED <<dev, life, xenwatch, user, resume, behind>>

Detach ==
    /\ back \in States \ {"Closing", "Closed"} /\ ~did.detach
    /\ Apart("suspended", \A k \in Infos : life[k].gd => Answers(k))
    /\ back' = "Closing" /\ events' = FiredState(events)
    /\ did' = [did EXCEPT !.detach = TRUE]
    /\ UNCHANGED <<node, dev, life, xenwatch, user, resume, behind>>

(* Both directories go in one transaction.                                 *)
Vanish ==
    /\ Apart("connecting", xenwatch # Talking("changed"))
    /\ Apart("waiting", /\ xenwatch.at \notin {"connected", "add", "scan"}
                        /\ \A u \in Users : user[u].at # "flushing")
    /\ Apart("vanishing", resume = "idle")
    /\ node' = None /\ back' = None
    /\ \/ events' = Fired(FiredState(events), "device")
       \/ events' = FiredState(Fired(events, "device"))
    /\ UNCHANGED <<dev, life, xenwatch, user, resume, behind>>

Remove ==
    /\ did.detach /\ back = "Closed"
    /\ Vanish
    /\ UNCHANGED did

Force ==
    /\ node # None /\ did.force < Forced
    /\ Vanish
    /\ did' = [did EXCEPT !.force = @ + 1]

Backend(from, to) ==
    /\ back \in from
    /\ back' = to /\ events' = FiredState(events)
    /\ UNCHANGED <<node, dev, life, xenwatch, user, resume, behind, did>>

BackendStep ==
    \/ Backend({"Initialising"}, "InitWait")
    \/ node \in {"Initialised", "Connected"} /\ Backend({"InitWait"}, "Connected")
    \/ node = "Closing" /\ Backend(States \ {"Closing", "Closed"}, "Closing")
    \/ node = "Closed" /\ Backend(States \ {"Closed"}, "Closed")

(* Everything begins anew on the other host, and what was asked of the     *)
(* first one is forgotten; xs_resume sets the watches again.               *)
Migrate ==
    /\ resume = "idle" /\ did.migrate < Migrations
    /\ Apart("busy", xenwatch.at = "idle" /\ (did.detach => node = None))
    /\ Apart("vanishing", dev.there => node # None)
    /\ node' = IF node = None THEN None ELSE "Initialising"
    /\ back' \in IF node = None THEN {None} ELSE {"Initialising", "InitWait"}
    /\ events' = FiredState(Fired(events, "device"))
    /\ resume' = "driver" /\ behind' = FALSE
    /\ did' = [did EXCEPT !.migrate = @ + 1, !.detach = FALSE]
    /\ UNCHANGED <<dev, life, xenwatch, user>>
-----------------------------------------------------------------------------
(* talk_to_backend, called by blkfront_probe and backend_changed in the    *)
(* xenwatch thread, and by blkfront_resume.  Rings and references go to    *)
(* the store in a transaction, which fails once the directory is gone;     *)
(* then come xenbus_dev_fatal and blkif_free, and the caller goes on.      *)

Talks ==
    /\ node # None
    /\ life' = [life EXCEPT ![dev.info].ring = TRUE]
    /\ events' = Fired(events, "device")
    /\ UNCHANGED <<node, dev, did>>

TalkFails(left) ==
    /\ \/ node = None /\ UNCHANGED did
       \/ /\ did.fail < Failures /\ Apart("connecting", xenwatch = Talking("probe"))
          /\ did' = [did EXCEPT !.fail = @ + 1]
    /\ Switch("Closing")
    /\ life' = [life EXCEPT ![dev.info] =
                    [@ EXCEPT !.ring = FALSE, !.conn = "disconnected",
                              !.info = IF left = 0 THEN "freed" ELSE @]]
    /\ dev' = [dev EXCEPT !.state = "Closing", !.info = left]

(* xenbus_switch_state(Initialised); then blkif_recover for a device that  *)
(* was suspended, which switches to Connected.                             *)
Tells(state) == Switch(state) /\ dev' = [dev EXCEPT !.state = state]

Initialised == Tells("Initialised") /\ UNCHANGED life

Recovers ==
    /\ Tells("Connected")
    /\ life' = [life EXCEPT ![dev.info].conn = "connected"]
-----------------------------------------------------------------------------
(* The xenwatch thread.  others: what its steps never change.              *)
others == <<user, resume, behind>>

TakeEvent ==
    /\ xenwatch.at = "idle" /\ events # <<>>
    /\ Apart("early", resume = "idle" \/ (Head(events) = "device" /\ dev.there))
    /\ xenwatch' = At(Head(events)) /\ events' = Tail(events)
    /\ UNCHANGED <<node, back, dev, life, others, did>>

Goes(place) == xenwatch' = At(place)
KeepsStore  == UNCHANGED store
KeepsRest   == UNCHANGED <<back, others, did>>

(* xenbus_dev_changed, and of xenbus_dev_remove free_otherend_watch.       *)
DeviceChanged ==
    /\ xenwatch.at = "device"
    /\ \/ /\ node # None
          /\ Goes(IF dev.there THEN "idle" ELSE "new")
          /\ UNCHANGED <<events, dev>>
       \/ /\ node = None /\ ~dev.bound
          /\ dev' = NoDevice /\ Goes("idle")
          /\ UNCHANGED events
       \/ /\ node = None /\ dev.bound
          /\ dev' = [dev EXCEPT !.watch = FALSE]
          /\ events' = SelectSeq(events, LAMBDA e : e # "state")
          /\ Goes("remove")
    /\ UNCHANGED <<node, life>> /\ KeepsRest

(* "Device is not new, so ignore it."                                      *)
ProbeNode ==
    /\ xenwatch.at = "new"
    /\ IF node = "Initialising"
       THEN dev' = [NoDevice EXCEPT !.there = TRUE, !.bound = TRUE] /\ Goes("otherend")
       ELSE dev' = dev /\ Goes("idle")
    /\ UNCHANGED life /\ KeepsStore /\ KeepsRest

(* read_otherend_details of xenbus_dev_probe, whose error is returned.     *)
ReadOtherend ==
    /\ xenwatch.at = "otherend"
    /\ IF node # None
       THEN dev' = dev /\ Goes("probe")
       ELSE dev' = [dev EXCEPT !.state = "Closing", !.bound = FALSE] /\ Goes("idle")
    /\ UNCHANGED life /\ KeepsStore /\ KeepsRest

(* blkfront_probe up to its look at the back end.                          *)
Probe ==
    /\ xenwatch.at = "probe"
    /\ IF node = None
       THEN /\ dev' = [dev EXCEPT !.state = "Closing"]
            /\ Goes("failed") /\ UNCHANGED life
       ELSE LET k == Cardinality({i \in Infos : life[i].info # "none"}) + 1 IN
            /\ life' = [life EXCEPT ![k].info = "live", ![k].xbdev = TRUE]
            /\ dev' = [dev EXCEPT !.info = k]
            /\ xenwatch' = IF back = "InitWait" THEN Talking("probe") ELSE At("watch")
    /\ KeepsStore /\ KeepsRest

ProbeFails ==
    /\ xenwatch.at = "failed"
    /\ Switch("Closed")
    /\ dev' = [dev EXCEPT !.state = "Closed", !.bound = FALSE]
    /\ Goes("idle")
    /\ UNCHANGED life /\ KeepsRest

Talk ==
    /\ xenwatch.at = "talk"
    /\ \/ Talks /\ xenwatch' = [xenwatch EXCEPT !.at = "initialised"]
       \/ TalkFails(0) /\ Goes(IF xenwatch.from = "probe" THEN "failed" ELSE "idle")
    /\ UNCHANGED <<back, others>>

TellInitialised ==
    /\ xenwatch.at = "initialised"
    /\ Initialised
    /\ IF life[dev.info].conn = "suspended" THEN Goes("recover")
       ELSE Goes(IF xenwatch.from = "probe" THEN "watch" ELSE "idle")
    /\ KeepsRest

Recover == xenwatch.at = "recover" /\ Recovers /\ Goes("idle") /\ KeepsRest

(* A watch that is registered has an event.                                *)
WatchOtherend ==
    /\ xenwatch.at = "watch"
    /\ dev' = [dev EXCEPT !.watch = TRUE]
    /\ events' = Append(events, "state")
    /\ Goes("idle")
    /\ UNCHANGED <<node, life>> /\ KeepsRest

(* otherend_changed and the switch of backend_changed.                     *)
StateChanged ==
    /\ xenwatch.at = "state"
    /\ xenwatch' =
           CASE back = "InitWait" /\ dev.state = "Initialising" -> Talking("changed")
             [] back = "Connected" /\ life[dev.info].conn = "disconnected" -> At("connect")
             [] back = "Closing" \/ (back = "Closed" /\ dev.state # "Closed") -> At("close")
             [] OTHER -> At("idle")
    /\ UNCHANGED <<dev, life>> /\ KeepsStore /\ KeepsRest

(* connect: the properties of the disk, the minor numbers and the disk.    *)
Connect ==
    /\ xenwatch.at = "connect"
    /\ IF back = None \/ \E k \in Infos : life[k].gd
       THEN Goes("fatal") /\ UNCHANGED life
       ELSE /\ Goes("connected")
            /\ life' = [life EXCEPT ![dev.info].gd = TRUE, ![dev.info].private = TRUE]
    /\ UNCHANGED dev /\ KeepsStore /\ KeepsRest

ConnectFails ==
    /\ xenwatch.at = "fatal" /\ Tells("Closing") /\ Goes("idle")
    /\ UNCHANGED life /\ KeepsRest

TellConnected ==
    /\ xenwatch.at = "connected" /\ Tells("Connected") /\ Goes("add")
    /\ UNCHANGED life /\ KeepsRest

(* add_disk opens the disk and looks for partitions.                       *)
AddDisk ==
    /\ xenwatch.at = "add" /\ Goes("scan")
    /\ life' = [life EXCEPT ![dev.info].conn = "connected",
                            ![dev.info].listed = TRUE, ![dev.info].lock = Xenwatch]
    /\ UNCHANGED dev /\ KeepsStore /\ KeepsRest

Scanned ==
    /\ xenwatch.at = "scan" /\ Answers(dev.info) /\ Goes("idle")
    /\ life' = [life EXCEPT ![dev.info].lock = "free"]
    /\ UNCHANGED dev /\ KeepsStore /\ KeepsRest

Close ==
    /\ xenwatch.at = "close" /\ InfoMutexFree(dev.info)
    /\ Goes(IF dev.state = "Closing" THEN "idle"
            ELSE IF life[dev.info].gd THEN "close disk" ELSE "closed")
    /\ UNCHANGED <<dev, life>> /\ KeepsStore /\ KeepsRest

(* Mutant: whoever has the disk open is not asked about.                   *)
CloseDiskInUse ==
    /\ xenwatch.at = "close disk" /\ life[dev.info].lock = "free"
    /\ life' = [life EXCEPT ![dev.info] = [Deleted(@) EXCEPT !.lock = Xenwatch]]
    /\ Goes("closed")
    /\ UNCHANGED <<node, events, dev>> /\ KeepsRest

(* Under bd_mutex: "Device in use; refusing to close", or blkfront_closing. *)
CloseDisk ==
    /\ xenwatch.at = "close disk" /\ life[dev.info].lock = "free"
    /\ IF life[dev.info].openers > 0
       THEN Tells("Closing") /\ Goes("idle") /\ UNCHANGED life
       ELSE /\ life' = [life EXCEPT ![dev.info] = [Deleted(@) EXCEPT !.lock = Xenwatch]]
            /\ Goes("closed") /\ UNCHANGED <<node, events, dev>>
    /\ KeepsRest

Closed ==
    /\ xenwatch.at = "closed" /\ Tells("Closed") /\ Goes("idle")
    /\ life' = [life EXCEPT ![dev.info].lock = IF @ = Xenwatch THEN "free" ELSE @]
    /\ KeepsRest

(* blkfront_remove: "If the bdev isn't closed yet, we let release take     *)
(* care of it."                                                            *)
RemoveInfo ==
    /\ xenwatch.at = "remove" /\ InfoMutexFree(dev.info)
    /\ Apart("getting", \A u \in Users : user[u].at = "getting" => life[user[u].k].gd)
    /\ life' = [life EXCEPT ![dev.info] =
                    [@ EXCEPT !.conn = "disconnected", !.ring = FALSE, !.xbdev = FALSE,
                              !.info = IF life[dev.info].gd THEN @ ELSE "freed"]]
    /\ Goes(IF life[dev.info].gd THEN "remove disk" ELSE "removed")
    /\ UNCHANGED dev /\ KeepsStore /\ KeepsRest

Freed(l) == [Deleted(l) EXCEPT !.private = FALSE, !.info = "freed"]

(* Mutant: blkfront_remove does not leave an open disk to blkif_release.   *)
RemoveDiskInUse ==
    /\ xenwatch.at = "remove disk" /\ life[dev.info].lock = "free"
    /\ life' = IF life[dev.info].private
               THEN [life EXCEPT ![dev.info] = Freed(@)] ELSE life
    /\ Goes("removed")
    /\ UNCHANGED dev /\ KeepsStore /\ KeepsRest

RemoveDisk ==
    /\ xenwatch.at = "remove disk" /\ life[dev.info].lock = "free"
    /\ life' = IF life[dev.info].private /\ life[dev.info].openers = 0
               THEN [life EXCEPT ![dev.info] = Freed(@)] ELSE life
    /\ Goes("removed")
    /\ UNCHANGED dev /\ KeepsStore /\ KeepsRest

Removed ==
    /\ xenwatch.at = "removed"
    /\ Switch("Closed") /\ dev' = NoDevice /\ Goes("idle")
    /\ UNCHANGED life /\ KeepsRest

XenwatchStep ==
    \/ TakeEvent \/ DeviceChanged \/ ProbeNode \/ ReadOtherend \/ Probe \/ ProbeFails
    \/ Talk \/ TellInitialised \/ Recover \/ WatchOtherend \/ StateChanged
    \/ Connect \/ ConnectFails \/ TellConnected \/ AddDisk \/ Scanned
    \/ Close \/ CloseDisk \/ Closed \/ RemoveInfo \/ RemoveDisk \/ Removed
-----------------------------------------------------------------------------
(* The suspending thread in resume_dev.  bus_for_each_dev stops at the     *)
(* first device that returns an error.                                     *)
Resumes(place, ok) ==
    /\ resume' = place
    /\ behind' = (behind \/ (ok /\ place = "idle"))
    /\ UNCHANGED <<back, xenwatch, user>>

(* talk_to_otherend: unregister_xenbus_watch waits for a callback.         *)
ResumeDev ==
    /\ resume = "driver"
    /\ dev.watch => xenwatch.at = "idle"
    /\ IF ~dev.bound THEN Resumes("idle", TRUE) /\ UNCHANGED <<dev, events>>
       ELSE /\ dev' = [dev EXCEPT !.watch = FALSE]
            /\ events' = SelectSeq(events, LAMBDA e : e # "state")
            /\ IF node = None THEN Resumes("idle", FALSE) ELSE Resumes("free", TRUE)
    /\ UNCHANGED <<node, life, did>>

(* blkfront_resume: blkif_free, and its look at the back end.              *)
ResumeFrees ==
    /\ resume = "free"
    /\ dev' = [dev EXCEPT !.state = "Initialising"]
    /\ life' = [life EXCEPT ![dev.info].ring = FALSE,
                            ![dev.info].conn = IF @ = "connected" THEN "suspended"
                                               ELSE "disconnected"]
    /\ Resumes(IF back = "InitWait" THEN "talk" ELSE "watch", TRUE)
    /\ UNCHANGED <<node, events, did>>

ResumeTalks ==
    /\ resume = "talk"
    /\ \/ Talks /\ Resumes("initialised", TRUE)
       \/ TalkFails(dev.info) /\ Resumes("idle", FALSE)

ResumeTells ==
    /\ resume = "initialised"
    /\ Initialised
    /\ Resumes(IF life[dev.info].conn = "suspended" THEN "recover" ELSE "watch", TRUE)
    /\ UNCHANGED did

ResumeRecovers == resume = "recover" /\ Recovers /\ Resumes("watch", TRUE) /\ UNCHANGED did

ResumeWatches ==
    /\ resume = "watch"
    /\ dev' = [dev EXCEPT !.watch = TRUE]
    /\ events' = Append(events, "state")
    /\ Resumes("idle", TRUE)
    /\ UNCHANGED <<node, life, did>>

ResumeStep ==
    \/ ResumeDev \/ ResumeFrees \/ ResumeTalks \/ ResumeTells \/ ResumeRecovers
    \/ ResumeWatches
-----------------------------------------------------------------------------
(* Users.  The kernel finds the disk first and takes bd_mutex then; it     *)
(* holds it while a last close writes back what is dirty and calls         *)
(* blkif_release.                                                          *)
Moves(u, place) == user' = [user EXCEPT ![u].at = place]
OnlyUsers == UNCHANGED <<back, xenwatch, resume, behind, did>>

Find(u) ==
    /\ user[u].at = "out"
    /\ \E k \in Infos : life[k].listed /\ user' = [user EXCEPT ![u] = [at |-> "getting", k |-> k]]
    /\ UNCHANGED <<store, dev, life>> /\ OnlyUsers

(* blkif_open fails if the device or the disk is gone.                     *)
Open(u) ==
    LET k == user[u].k IN
    /\ user[u].at = "getting" /\ life[k].lock = "free"
    /\ IF life[k].private /\ life[k].gd
       THEN Moves(u, "open") /\ life' = [life EXCEPT ![k].openers = @ + 1]
       ELSE Moves(u, "out") /\ UNCHANGED life
    /\ UNCHANGED <<store, dev>> /\ OnlyUsers

(* blkif_release does nothing unless this was the last one.                *)
Put(u) ==
    LET k == user[u].k IN
    /\ user[u].at = "open" /\ life[k].lock = "free"
    /\ IF life[k].openers > 1
       THEN Moves(u, "out") /\ life' = [life EXCEPT ![k].openers = @ - 1]
       ELSE /\ \/ Moves(u, "flushing") /\ Apart("waiting", node # None)
               \/ Moves(u, "release")
            /\ life' = [life EXCEPT ![k].openers = 0, ![k].lock = u]
    /\ UNCHANGED <<store, dev>> /\ OnlyUsers

Flushed(u) ==
    /\ user[u].at = "flushing" /\ Answers(user[u].k)
    /\ Moves(u, "release")
    /\ UNCHANGED <<store, dev, life>> /\ OnlyUsers

(* Mutant: blkif_release does not look whether it was to close.            *)
ReleaseForgets(u) ==
    LET k == user[u].k IN
    /\ user[u].at = "release"
    /\ IF life[k].xbdev
       THEN Moves(u, "out") /\ life' = [life EXCEPT ![k].lock = "free"]
       ELSE Moves(u, "freeing") /\ UNCHANGED life
    /\ UNCHANGED <<store, dev>> /\ OnlyUsers

(* "Check if we have been instructed to close."  With xbdev this is under  *)
(* info->mutex up to the end.                                              *)
Release(u) ==
    LET k == user[u].k IN
    /\ user[u].at = "release"
    /\ IF life[k].xbdev /\ dev.state # "Closing"
       THEN Moves(u, "out") /\ life' = [life EXCEPT ![k].lock = "free"]
       ELSE Moves(u, IF life[k].xbdev THEN "closing" ELSE "freeing") /\ UNCHANGED life
    /\ UNCHANGED <<store, dev>> /\ OnlyUsers

ReleaseDeletes(u) ==
    /\ user[u].at = "closing" /\ Moves(u, "telling")
    /\ life' = [life EXCEPT ![user[u].k] = Deleted(@)]
    /\ UNCHANGED <<store, dev>> /\ OnlyUsers

ReleaseTells(u) ==
    /\ user[u].at = "telling" /\ Moves(u, "out")
    /\ Tells("Closed")
    /\ life' = [life EXCEPT ![user[u].k].lock = "free"]
    /\ OnlyUsers

(* "sudden device removal"                                                 *)
ReleaseFrees(u) ==
    /\ user[u].at = "freeing" /\ Moves(u, "out")
    /\ life' = [life EXCEPT ![user[u].k] = [Freed(@) EXCEPT !.lock = "free"]]
    /\ UNCHANGED <<store, dev>> /\ OnlyUsers

Releasing(u) ==
    Flushed(u) \/ Release(u) \/ ReleaseDeletes(u) \/ ReleaseTells(u) \/ ReleaseFrees(u)

UserStep(u) == Find(u) \/ Open(u) \/ Put(u) \/ Releasing(u)
-----------------------------------------------------------------------------
Next ==
    \/ Plug \/ Detach \/ Remove \/ Force \/ BackendStep \/ Migrate
    \/ XenwatchStep \/ ResumeStep
    \/ \E u \in Users : UserStep(u)

(* Nobody has to plug, detach, migrate, open or close; whoever holds       *)
(* bd_mutex for a moment gives it to those that wait.                      *)
Fairness ==
    /\ WF_vars(Remove) /\ WF_vars(BackendStep)
    /\ SF_vars(XenwatchStep) /\ SF_vars(ResumeStep)
    /\ \A u \in Users : SF_vars(Open(u)) /\ WF_vars(Releasing(u))

Spec     == Init /\ [][Next]_vars
FairSpec == Spec /\ Fairness
-----------------------------------------------------------------------------
Types ==
    /\ node \in States \cup {None} /\ back \in States \cup {None}
    /\ events \in Seq({"device", "state"})
    /\ dev \in [there : BOOLEAN, bound : BOOLEAN, state : States, watch : BOOLEAN,
                info : Infos \cup {0}]
    /\ life \in [Infos -> [info : {"none", "live", "freed"}, xbdev : BOOLEAN,
                           conn : {"disconnected", "connected", "suspended"},
                           ring : BOOLEAN, gd : BOOLEAN, listed : BOOLEAN,
                           private : BOOLEAN, openers : Nat,
                           lock : {"free", Xenwatch} \cup Users]]
    /\ \A u \in Users : user[u].k \in Infos \cup {0}

Live(k) == k \in Infos /\ life[k].info = "live"

(* The back end is told that the device is closed only when the disk is    *)
(* gone, and the disk goes only when nobody has it open.                   *)
ClosedIsUnused ==
    \A k \in Infos :
        /\ life[k].openers > 0 => life[k].gd
        /\ dev.info = k /\ node = "Closed" => ~life[k].gd

(* info is there for whoever is to use it: the next callback, the driver's *)
(* remove and resume, a user on the way in or out.  It is not kept when    *)
(* neither the device nor the disk is left; it has a ring when its disk    *)
(* takes requests, and no disk when connect is to add one (the BUG_ON of   *)
(* xlvbd_add).  The disk is closed when it is no longer used.              *)
InfoLives ==
    /\ Types
    /\ dev.bound =>
           \/ xenwatch.at \in {"otherend", "probe", "failed", "removed"}
           \/ xenwatch.at = "remove disk" /\ ~life[dev.info].private
           \/ Live(dev.info)
    /\ resume \notin {"idle", "driver"} => Live(dev.info)
    /\ \A u \in Users :
           \/ user[u].at = "out"
           \/ user[u].at = "getting" /\ ~life[user[u].k].private
           \/ Live(user[u].k)
    /\ \A k \in Infos :
           /\ Live(k) => \/ dev.info = k
                         \/ life[k].private /\ (life[k].openers > 0 \/ life[k].lock \in Users)
           /\ Live(k) /\ life[k].conn = "connected" => life[k].ring
    /\ xenwatch.at = "connect" => ~life[dev.info].gd
    /\ ClosedIsUnused

(* In the end a device that is there and was probed is connected, or waits *)
(* in Closing for those who have it open; of one that is gone only what is *)
(* open is left; and no device behind it was left suspended.               *)
Settled ==
    /\ behind
    /\ \/ /\ node = None /\ ~dev.there
          /\ \A k \in Infos : Live(k) => life[k].openers > 0 \/ life[k].lock \in Users
       \/ node # None /\ dev.there /\ ~dev.bound
       \/ /\ Live(dev.info) /\ node = back
          /\ \/ node = "Connected" /\ life[dev.info].listed
             \/ /\ node = "Closing"
                /\ life[dev.info].openers > 0 \/ life[dev.info].lock \in Users

Settles == <>[]Settled
=============================================================================
