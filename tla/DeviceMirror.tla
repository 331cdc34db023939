------------------------------ MODULE DeviceMirror ------------------------------
(***************************************************************************)
(* The devices of one storage node, from the control plane's event stream  *)
(* to the StorageDevice objects:                                           *)
(*   operator/internal/cpinformer (manager.go, sse.go, store.go)           *)
(*   operator/internal/cpinformer/subscriptions (cache.go, device.go,      *)
(*   registry.go)                                                          *)
(*   operator/internal/controllers/node/storagedevice_controller.go        *)
(*                                                                         *)
(* The StorageNode controller registers the node and asks for its stream;  *)
(* the manager's goroutine opens and closes streams to match; each stream  *)
(* is a goroutine that decodes frames into the cache and names the objects *)
(* to reconcile; the mirror's worker reads the cache and writes the        *)
(* objects.  None of them waits for another.                               *)
(***************************************************************************)
EXTENDS Informer, FiniteSets

CONSTANTS
  Devices,     \* the backend devices of the node
  MaxLag,      \* bound: undelivered versions per object
  MaxDrops,    \* bound: connections that end
  MaxCrashes,  \* bound: operator restarts
  MaxRecords,  \* bound: StorageNode objects of the node, one after the other
  Envs         \* the environments to check: what they do, the devices there at first,
               \* and a bound on changes in the control plane and of device locks

\* What an environment may do: report a device differently, change the node's status,
\* take and release device locks, end connections, restart the operator, remove the
\* node, delete the record of a peer site's node in the foreground or in the
\* background and list it again.
EnvKinds == {"device", "node", "lock", "drop", "crash", "leave", "foreground", "record"}

\* How the control plane reports a device; the statuses of one phase are one.
Reports == {"absent", "online", "unavailable", "failed"}
NodeStatuses == {"online", "offline", "removed"}
DevicePhases == {"", "Online", "Degraded", "Failed", "Unknown"}

ASSUME DeviceMirrorAssumption ==
  /\ IsFiniteSet(Devices)
  /\ {MaxLag, MaxRecords} \subseteq Nat \ {0}
  /\ {MaxDrops, MaxCrashes} \subseteq Nat
  /\ \A e \in Envs : /\ e.does \subseteq EnvKinds /\ e.changes \in Nat
                     /\ e.devices \subseteq Devices

VARIABLES
  env,        \* the environment of this behaviour
  cp,         \* [Devices -> what the control plane reports]
  cpNode,     \* the node's status in the control plane
  nodeLog,    \* log of the StorageNode object
  devLog,     \* [Devices -> log of the StorageDevice object]
  nodeStep,   \* where the StorageNode controller's pass is
  registered, \* the registry names the node's object
  wanted,     \* the node's scope is in the ScopeSet
  notify,     \* the ScopeSet's channel of one slot
  manager,    \* the manager's goroutine, and the scopes it listed
  current,    \* the stream the manager runs for the scope, 0 for none
  streams,    \* the stream goroutines
  store,      \* [Devices -> what the cache holds]
  synced,     \* the scope has had a snapshot
  index,      \* the devices byObject has an entry for
  queue,      \* StorageDevice objects with a reconcile request waiting
  pass,       \* the mirror's pass
  held,       \* history: the devices an operation has locked and not released
  gone,       \* history: devices the control plane stopped reporting
  dropped,    \* history: devices whose object the mirror deleted
  spent       \* how much of each bound is used

api == <<nodeLog, devLog>>
scopes == <<registered, wanted, notify>>
cache == <<store, synced, index>>
work == <<queue, pass>>
history == <<held, gone, dropped>>
moving == <<cp, cpNode, api, nodeStep, scopes, manager, current, streams, cache, work,
            history, spent>>
vars == <<env, moving>>

May(what) == what \in env.does

\* One more of what `bound` limits.
Spend(what, bound) == spent[what] < bound /\ spent' = [spent EXCEPT ![what] = @ + 1]

-------------------------------------------------------------------------------
(* The objects.                                                            *)

NodeObj == [exists : BOOLEAN, deleted : BOOLEAN, status : NodeStatuses, uid : 1..MaxRecords]
DevObj == [exists : BOOLEAN, phase : DevicePhases, lock : BOOLEAN, owner : 0..MaxRecords]
NoDev == [exists |-> FALSE, phase |-> "", lock |-> FALSE, owner |-> 0]

Node == Stored(nodeLog)
Dev(d) == Stored(devLog[d])

nodeSeesItsDevices(n) == n.status \in {"online", "removed"}
nodeIsDown(n) == n.status \in {"offline", "removed"}

\* Seeded fault: a phase renamed in the mirror and not in the API.
devicePhaseRenamed(report, n) ==
  CASE report = "online" -> "Online"
    [] report = "failed" -> "Failed"
    [] report = "unavailable" -> IF nodeIsDown(n) THEN "Unobservable" ELSE "Degraded"

\* devicePhase, and what upsert makes of an unavailable device on a node that is down.
devicePhase(report, n) ==
  CASE report = "online" -> "Online"
    [] report = "failed" -> "Failed"
    [] report = "unavailable" -> IF nodeIsDown(n) THEN "Unknown" ELSE "Degraded"

Idle == [pc |-> "idle", dev |-> CHOOSE d \in Devices : TRUE, found |-> "absent",
         phase |-> "", owner |-> 0, fresh |-> FALSE]
PassObj == [pc : {"idle", "get", "write", "status", "unreported", "delete", "mark"},
            dev : Devices \cup {Idle.dev}, found : Reports, phase : DevicePhases,
            owner : 0..MaxRecords, fresh : BOOLEAN]
At(pc) == pass.pc = pc

End(requeue) ==
  /\ pass' = Idle
  /\ queue' = IF requeue THEN queue \cup {pass.dev} ELSE queue

Goto(pc) == pass' = [pass EXCEPT !.pc = pc] /\ UNCHANGED queue

\* A write of device d's object.
Land(d, v) ==
  /\ Room(devLog[d], MaxLag)
  /\ devLog' = [devLog EXCEPT ![d] = Written(@, v)]

\* A write of somebody else: what the pass holds is no longer current.
Disturb(d) == pass' = IF pass.dev = d THEN [pass EXCEPT !.fresh = FALSE] ELSE pass

-------------------------------------------------------------------------------
(* The control plane: what it reports goes to the open connections.        *)

CpDevice(d) ==
  \E report \in Reports \ {cp[d]} :
    /\ May("device") /\ d \in env.devices /\ cpNode # "removed" /\ Spend("changes", env.changes)
    /\ cp' = [cp EXCEPT ![d] = report]
    /\ gone' = IF report = "absent" THEN gone \cup {d} ELSE gone
    /\ streams' = [i \in DOMAIN streams |->
         IF streams[i].state = "reading" /\ ~streams[i].cancelled
           THEN [streams[i] EXCEPT !.frames =
                   Append(@, [snap |-> FALSE, says |-> [x \in {d} |-> report]])]
           ELSE streams[i]]
    /\ UNCHANGED <<cpNode, api, nodeStep, scopes, manager, current, cache, work, held, dropped>>

\* The node goes down and comes back, or is removed with its devices and streams.
CpNode(status) ==
  /\ status # cpNode /\ cpNode # "removed" /\ Spend("changes", env.changes)
  /\ cpNode' = status
  /\ IF status = "removed"
       THEN /\ May("leave")
            /\ cp' = [d \in Devices |-> "absent"] /\ gone' = Devices
            /\ streams' = [i \in DOMAIN streams |->
                 IF streams[i].state = "reading"
                   THEN [streams[i] EXCEPT !.state = "connecting", !.frames = <<>>]
                   ELSE streams[i]]
       ELSE May("node") /\ UNCHANGED <<cp, gone, streams>>
  /\ UNCHANGED <<api, nodeStep, scopes, manager, current, cache, work, held, dropped>>

-------------------------------------------------------------------------------
(* The StorageNode controller: the object, its registration and its scope. *)

others == <<cp, cpNode, manager, current, streams, cache, history>>

\* ScopeSet.Add and RemoveLeaf: the signal goes into a channel of one slot.
SetScope(want) ==
  /\ wanted' = want
  /\ notify' = (notify \/ wanted # want)

WriteNode(v) == Room(nodeLog, MaxLag) /\ nodeLog' = Written(nodeLog, v)

\* syncStatus: the node's status in its object.
NodeStatus ==
  /\ Node.exists /\ ~Node.deleted /\ Node.status # cpNode
  /\ WriteNode([Node EXCEPT !.status = cpNode])
  /\ UNCHANGED <<others, devLog, nodeStep, scopes, work, spent>>

\* register: the name first, the scope second.
Register ==
  /\ nodeStep = "" /\ Cached(nodeLog).exists /\ ~Cached(nodeLog).deleted
  /\ ~(registered /\ wanted)
  /\ registered' = TRUE /\ nodeStep' = "add"
  /\ UNCHANGED <<others, api, wanted, notify, work, spent>>

AddScope ==
  /\ nodeStep = "add" /\ SetScope(TRUE) /\ nodeStep' = ""
  /\ UNCHANGED <<others, api, registered, work, spent>>

\* The object is deleted: a node that was removed, or a peer site's record in the
\* foreground, both with a finalizer the controller gets to see.
NodeDeleted ==
  /\ Node.exists /\ ~Node.deleted
  /\ \/ May("leave") /\ Node.status = "removed"
     \/ May("foreground") /\ Node.uid < MaxRecords
  /\ WriteNode([Node EXCEPT !.deleted = TRUE])
  /\ UNCHANGED <<others, devLog, nodeStep, scopes, work, spent>>

\* unregister: the scope first, the name second; then the finalizer.
Unregister ==
  /\ nodeStep = "" /\ Cached(nodeLog).exists /\ Cached(nodeLog).deleted
  /\ SetScope(FALSE) /\ nodeStep' = "forget"
  /\ UNCHANGED <<others, api, registered, work, spent>>

Forget ==
  /\ nodeStep = "forget"
  /\ registered' = FALSE /\ nodeStep' = ""
  /\ IF Current(nodeLog) THEN WriteNode([Node EXCEPT !.exists = FALSE]) ELSE UNCHANGED nodeLog
  /\ UNCHANGED <<others, devLog, wanted, notify, work, spent>>

\* A record has no finalizer of the operator's: deleted in the background it is gone
\* at once, and the controller's next read of it ends the pass.
RecordDeleted ==
  /\ May("record") /\ Node.exists /\ Node.uid < MaxRecords
  /\ WriteNode([Node EXCEPT !.exists = FALSE])
  /\ UNCHANGED <<others, devLog, nodeStep, scopes, work, spent>>

\* listRemote: a node the control plane still reports is listed again.
ListRemote ==
  /\ May("foreground") \/ May("record")
  /\ ~Node.exists /\ Node.uid < MaxRecords /\ cpNode # "removed"
  /\ WriteNode([exists |-> TRUE, deleted |-> FALSE, status |-> cpNode, uid |-> Node.uid + 1])
  /\ UNCHANGED <<others, devLog, nodeStep, scopes, work, spent>>

-------------------------------------------------------------------------------
(* runSubscription: one goroutine that matches the streams to the set.     *)

goroutine == <<cp, cpNode, api, nodeStep, registered, wanted, cache, work, history, spent>>

\* Seeded fault: the signal is drained after the set was listed.
DrainedLate == FALSE

\* What is left in the channel once reconcileStreams is done.
Drained == notify

Wake ==
  /\ manager.pc = "wait" /\ notify
  /\ notify' = FALSE /\ manager' = [manager EXCEPT !.pc = "list"]
  /\ UNCHANGED <<goroutine, current, streams>>

ListScopes ==
  /\ manager.pc = "list"
  /\ manager' = [pc |-> "match", want |-> wanted]
  /\ UNCHANGED <<goroutine, notify, current, streams>>

NewStream == [state |-> "connecting", cancelled |-> FALSE, frames |-> <<>>, todo |-> {}]
NoStream == [NewStream EXCEPT !.state = "free"]

\* reconcileStreams: cancel what is not wanted, start what is missing.
ReconcileStreams ==
  /\ manager.pc = "match"
  /\ manager' = [manager EXCEPT !.pc = "wait"]
  /\ notify' = Drained
  /\ \/ /\ ~manager.want /\ current # 0 /\ current' = 0
        /\ streams' = [streams EXCEPT ![current].cancelled = TRUE]
     \/ /\ manager.want /\ current = 0
        /\ \E i \in DOMAIN streams :
             /\ streams[i].state = "free" /\ current' = i
             /\ streams' = [streams EXCEPT ![i] = NewStream]
     \/ manager.want = (current # 0) /\ UNCHANGED <<current, streams>>
  /\ UNCHANGED goroutine

-------------------------------------------------------------------------------
(* runStream and streamOnce: the goroutine of stream i.                    *)

reading == <<cp, cpNode, api, nodeStep, scopes, manager, current, history>>

\* A connection begins with the snapshot; a node that is gone answers 404.
Connect(i) ==
  /\ streams[i].state = "connecting" /\ ~streams[i].cancelled /\ cpNode # "removed"
  /\ streams' = [streams EXCEPT ![i].state = "reading",
                                ![i].frames = <<[snap |-> TRUE, says |-> cp]>>]
  /\ UNCHANGED <<reading, cache, work, spent>>

\* A connection ends, with what was on its way.
Disconnect(i) ==
  /\ streams[i].state = "reading" /\ streams[i].todo = {} /\ ~streams[i].cancelled
  /\ May("drop") /\ Spend("drops", MaxDrops)
  /\ streams' = [streams EXCEPT ![i].state = "connecting", ![i].frames = <<>>]
  /\ UNCHANGED <<reading, cache, work>>

\* A cancelled goroutine ends, at its next look at the context.
Exit(i) ==
  /\ streams[i].state # "free" /\ streams[i].cancelled /\ streams[i].todo = {}
  /\ streams' = [streams EXCEPT ![i] = NoStream]
  /\ UNCHANGED <<reading, cache, work, spent>>

\* Seeded fault: every frame replaces the scope.
AppliedReplacing(f) == [d \in Devices |-> IF d \in DOMAIN f.says THEN f.says[d] ELSE "absent"]

\* Seeded fault: a snapshot is merged into the scope.
AppliedMerging(f) ==
  [d \in Devices |-> IF d \in DOMAIN f.says /\ ~(f.snap /\ f.says[d] = "absent")
                       THEN f.says[d] ELSE store[d]]

\* Store.Replace, Upsert and Remove: a snapshot speaks of every device, another frame
\* of one.
Applied(f) == [d \in Devices |-> IF d \in DOMAIN f.says THEN f.says[d] ELSE store[d]]

\* Cache.Ingest, up to the reports: the cache first.  Frames that were read are
\* ingested even after the goroutine was cancelled.
Ingest(i) ==
  /\ streams[i].state = "reading" /\ streams[i].frames # <<>> /\ streams[i].todo = {}
  /\ LET f == Head(streams[i].frames)
         next == Applied(f)
     IN /\ store' = next
        /\ synced' = (synced \/ f.snap)
        /\ streams' = [streams EXCEPT ![i].frames = Tail(@),
             ![i].todo = {[dev |-> d, present |-> next[d] # "absent"] : d \in
               {x \in Devices : \/ x \in DOMAIN f.says /\ (next[x] # "absent" \/ ~f.snap)
                                \/ store[x] # "absent" /\ next[x] = "absent"}}]
  /\ UNCHANGED <<reading, index, work, spent>>

\* Seeded fault: a device that is gone stays in the index.
IndexedKept(r) == index \cup {r.dev}

\* index and unindex.
Indexed(r) == IF r.present THEN index \cup {r.dev} ELSE index \ {r.dev}

\* onChange for one id: the index and the trigger, both without effect on a node with
\* no name.  The ids that are present come first.  A cancelled goroutine may give the
\* trigger up.
Report(i) ==
  \E r \in streams[i].todo :
    /\ r.present \/ \A x \in streams[i].todo : ~x.present
    /\ streams' = [streams EXCEPT ![i].todo = @ \ {r}]
    /\ IF registered
         THEN /\ index' = Indexed(r)
              /\ \/ queue' = queue \cup {r.dev}
                 \/ streams[i].cancelled /\ UNCHANGED queue
         ELSE UNCHANGED <<index, queue>>
    /\ UNCHANGED <<reading, store, synced, pass, spent>>

-------------------------------------------------------------------------------
(* The mirror: StorageDeviceReconciler.Reconcile.                          *)

mirror == <<cp, cpNode, nodeLog, nodeStep, scopes, manager, current, streams, cache, gone, spent>>

\* Lookup: the index, then the cache.
Lookup(d) ==
  /\ At("idle") /\ d \in queue
  /\ queue' = queue \ {d}
  /\ pass' = [Idle EXCEPT !.pc = "get", !.dev = d,
                          !.found = IF d \in index THEN store[d] ELSE "absent"]
  /\ UNCHANGED <<mirror, devLog, held, dropped>>

\* The object, and for a device that is reported its node (nodeFor).
Get ==
  /\ At("get")
  /\ LET n == Cached(nodeLog)  v == Cached(devLog[pass.dev]) IN
     \/ /\ pass.found = "absent" /\ v.exists
        /\ pass' = [pass EXCEPT !.pc = "unreported", !.phase = v.phase] /\ UNCHANGED queue
     \/ pass.found = "absent" /\ ~v.exists /\ End(FALSE)
     \/ pass.found # "absent" /\ ~n.exists /\ End(TRUE)
     \/ /\ pass.found # "absent" /\ n.exists
        /\ pass' = [pass EXCEPT !.pc = "write", !.owner = n.uid,
                                !.phase = devicePhase(pass.found, n)]
        /\ UNCHANGED queue
  /\ UNCHANGED <<mirror, devLog, held, dropped>>

\* Seeded fault: the status rebuilt without the lock it does not own.
RebuiltUnlocked(v, phase) == [v EXCEPT !.phase = phase, !.lock = FALSE]

\* The status upsert writes: the lock and the health block are carried over.
Rebuilt(v, phase) == [v EXCEPT !.phase = phase]

\* upsert: create what the cache does not have, or rebuild the status of what it has;
\* a conflict reads the cache again, and is returned when that does not help.
Upsert ==
  /\ At("write")
  /\ LET d == pass.dev  v == Cached(devLog[d]) IN
     \/ /\ ~v.exists /\ ~Dev(d).exists
        /\ Land(d, [NoDev EXCEPT !.exists = TRUE, !.owner = pass.owner])
        /\ pass' = [pass EXCEPT !.pc = "status", !.fresh = TRUE] /\ UNCHANGED queue
     \/ ~v.exists /\ Dev(d).exists /\ End(TRUE) /\ UNCHANGED devLog
     \/ v.exists /\ v.phase = pass.phase /\ End(FALSE) /\ UNCHANGED devLog
     \/ /\ v.exists /\ v.phase # pass.phase /\ Current(devLog[d])
        /\ Land(d, Rebuilt(v, pass.phase)) /\ End(FALSE)
     \/ /\ v.exists /\ v.phase # pass.phase /\ ~Current(devLog[d])
        /\ End(TRUE) /\ UNCHANGED devLog
  /\ UNCHANGED <<mirror, held, dropped>>

\* The status of an object just created.
FirstStatus ==
  /\ At("status")
  /\ \/ pass.fresh /\ Land(pass.dev, Rebuilt(Dev(pass.dev), pass.phase)) /\ End(FALSE)
     \/ ~pass.fresh /\ Dev(pass.dev).exists /\ Goto("write") /\ UNCHANGED devLog
     \/ ~Dev(pass.dev).exists /\ End(TRUE) /\ UNCHANGED devLog
  /\ UNCHANGED <<mirror, held, dropped>>

\* Synced, for the scope in the object's status: an object whose first status was
\* never written names none.
Synced == synced /\ pass.phase # ""

\* unreported: nothing on a cold cache, Unknown on a node that is not talking.
Unreported ==
  /\ At("unreported")
  /\ LET n == Cached(nodeLog) IN
     \/ ~Synced /\ End(TRUE)
     \/ Synced /\ n.exists /\ ~nodeSeesItsDevices(n) /\ Goto("mark")
     \/ Synced /\ (n.exists => nodeSeesItsDevices(n)) /\ Goto("delete")
  /\ UNCHANGED <<mirror, devLog, held, dropped>>

\* The object of device d goes, and a lock on it with it.
Remove(d) ==
  /\ Land(d, NoDev)
  /\ held' = held \ {d}

\* The object is deleted whatever its version.
DeleteDevice ==
  /\ At("delete")
  /\ IF Dev(pass.dev).exists
       THEN Remove(pass.dev) /\ dropped' = dropped \cup {pass.dev}
       ELSE UNCHANGED <<devLog, held, dropped>>
  /\ End(FALSE)
  /\ UNCHANGED mirror

markUnobservable ==
  /\ At("mark")
  /\ LET d == pass.dev  v == Cached(devLog[d]) IN
     \/ v.exists /\ v.phase \in {"Failed", "Unknown"} /\ End(FALSE) /\ UNCHANGED devLog
     \/ /\ v.exists /\ v.phase \notin {"Failed", "Unknown"} /\ Current(devLog[d])
        /\ Land(d, Rebuilt(v, "Unknown")) /\ End(FALSE)
     \/ /\ v.exists => v.phase \notin {"Failed", "Unknown"} /\ ~Current(devLog[d])
        /\ End(TRUE) /\ UNCHANGED devLog
  /\ UNCHANGED <<mirror, held, dropped>>

-------------------------------------------------------------------------------
(* Caches, other writers, restarts.                                        *)

outside == <<cp, cpNode, nodeStep, scopes, manager, current, streams, cache, gone, dropped>>

DeliverDevice(d) ==
  /\ Len(devLog[d]) > 1
  /\ devLog' = [devLog EXCEPT ![d] = Delivered(@)]
  /\ queue' = queue \cup {d}
  /\ UNCHANGED <<outside, nodeLog, pass, held, spent>>

\* devicesOf, on a change of the node's status and on its coming and going.
DeliverNode ==
  /\ Len(nodeLog) > 1
  /\ nodeLog' = Delivered(nodeLog)
  /\ queue' = IF nodeLog[2].status # nodeLog[1].status \/ nodeLog[2].exists # nodeLog[1].exists
                THEN queue \cup {d \in Devices : Cached(devLog[d]).exists} ELSE queue
  /\ UNCHANGED <<outside, devLog, pass, held, spent>>

\* A StorageDeviceOps takes the device's lock, or releases it.
DeviceOps(d) ==
  /\ May("lock") /\ Dev(d).exists /\ Spend("changes", env.changes)
  /\ Land(d, [Dev(d) EXCEPT !.lock = ~@])
  /\ held' = IF Dev(d).lock THEN held \ {d} ELSE held \cup {d}
  /\ Disturb(d)
  /\ UNCHANGED <<outside, nodeLog, queue>>

\* The garbage collector: an object whose owner is gone.
Collect(d) ==
  /\ Dev(d).exists /\ (Node.exists => Dev(d).owner # Node.uid)
  /\ Remove(d) /\ Disturb(d)
  /\ UNCHANGED <<outside, nodeLog, queue, spent>>

\* Everything in memory is lost; the informers list what the API server has.
Crash ==
  /\ May("crash") /\ Spend("crashes", MaxCrashes)
  /\ nodeLog' = <<Node>> /\ devLog' = [d \in Devices |-> <<Dev(d)>>]
  /\ nodeStep' = "" /\ registered' = FALSE /\ wanted' = FALSE /\ notify' = FALSE
  /\ manager' = [pc |-> "list", want |-> FALSE] /\ current' = 0
  /\ streams' = [i \in DOMAIN streams |-> NoStream]
  /\ store' = [d \in Devices |-> "absent"] /\ synced' = FALSE /\ index' = {}
  /\ pass' = Idle /\ queue' = {d \in Devices : Dev(d).exists}
  /\ UNCHANGED <<cp, cpNode, history>>

-------------------------------------------------------------------------------
Init ==
  /\ env \in Envs
  /\ cp = [d \in Devices |-> IF d \in env.devices THEN "online" ELSE "absent"]
  /\ cpNode = "online"
  /\ nodeLog = <<[exists |-> TRUE, deleted |-> FALSE, status |-> "online", uid |-> 1]>>
  /\ devLog = [d \in Devices |-> <<NoDev>>]
  /\ nodeStep = "" /\ registered = FALSE /\ wanted = FALSE /\ notify = FALSE
  /\ manager = [pc |-> "list", want |-> FALSE] /\ current = 0
  /\ streams = [i \in 1..2 |-> NoStream]
  /\ store = [d \in Devices |-> "absent"] /\ synced = FALSE /\ index = {}
  /\ queue = {} /\ pass = Idle
  /\ held = {} /\ gone = {d \in Devices : cp[d] = "absent"} /\ dropped = {}
  /\ spent = [changes |-> 0, drops |-> 0, crashes |-> 0]

NodeController == NodeStatus \/ Register \/ AddScope \/ Unregister \/ Forget
Manager == Wake \/ ListScopes \/ ReconcileStreams
Stream(i) == Connect(i) \/ Exit(i) \/ Ingest(i) \/ Report(i)
PassStep ==
  Get \/ Upsert \/ FirstStatus \/ Unreported \/ DeleteDevice \/ markUnobservable

Environment ==
  \/ \E d \in Devices : CpDevice(d) \/ DeviceOps(d)
  \/ \E status \in NodeStatuses : CpNode(status)
  \/ NodeDeleted \/ RecordDeleted \/ ListRemote \/ Crash
  \/ \E i \in DOMAIN streams : Disconnect(i)

Next ==
  /\ \/ NodeController \/ Manager \/ PassStep \/ DeliverNode \/ Environment
     \/ \E i \in DOMAIN streams : Stream(i)
     \/ \E d \in Devices : Lookup(d) \/ DeliverDevice(d) \/ Collect(d)
  /\ UNCHANGED env

Spec == Init /\ [][Next]_vars

\* Goroutines and workers run, requests are served, watch events arrive, the garbage
\* collector collects; nothing is assumed of the environment.
Fairness ==
  /\ WF_moving(NodeStatus) /\ WF_moving(Register \/ AddScope \/ Unregister \/ Forget)
  /\ WF_moving(Manager) /\ WF_moving(PassStep) /\ WF_moving(DeliverNode)
  /\ \A i \in 1..2 : WF_moving(Connect(i) \/ Ingest(i) \/ Report(i)) /\ SF_moving(Exit(i))
  /\ \A d \in Devices : /\ SF_moving(Lookup(d)) /\ WF_moving(DeliverDevice(d))
                        /\ WF_moving(Collect(d))

FairSpec == Spec /\ Fairness

-------------------------------------------------------------------------------
(* Properties.                                                             *)

Frame == UNION {[snap : BOOLEAN, says : [S -> Reports]] : S \in SUBSET Devices}
StreamObj == [state : {"free", "connecting", "reading"}, cancelled : BOOLEAN,
              frames : Seq(Frame), todo : SUBSET [dev : Devices, present : BOOLEAN]]

\* Every variable keeps its type.
TypeOK ==
  /\ env \in Envs
  /\ cp \in [Devices -> Reports] /\ cpNode \in NodeStatuses
  /\ nodeLog \in Seq(NodeObj) /\ Len(nodeLog) \in 1..(MaxLag + 1)
  /\ devLog \in [Devices -> Seq(DevObj)]
  /\ \A d \in Devices : Len(devLog[d]) \in 1..(MaxLag + 1)
  /\ nodeStep \in {"", "add", "forget"}
  /\ {registered, wanted, notify, synced} \subseteq BOOLEAN
  /\ manager \in [pc : {"wait", "list", "match"}, want : BOOLEAN]
  /\ current \in 0..2
  /\ streams \in [1..2 -> StreamObj]
  /\ store \in [Devices -> Reports]
  /\ index \subseteq Devices /\ queue \subseteq Devices
  /\ pass \in PassObj
  /\ ~At("idle") => pass.dev \in Devices
  /\ pass.pc \in {"write", "status"} => pass.found # "absent"
  /\ {held, gone, dropped} \subseteq SUBSET Devices
  /\ spent \in [changes : Nat, drops : Nat, crashes : Nat]

\* When no frame is being reported, byObject has an entry for every cached device and
\* for no other, as long as the node keeps its registration (DeviceSubscription.Ingest).
IndexMatchesCache ==
  (\A i \in DOMAIN streams : streams[i].todo = {})
    /\ registered /\ ~May("foreground") => index = {d \in Devices : store[d] # "absent"}

\* The mirror takes no device's lock away while the object lives, however its cached
\* copy lags: a status is rebuilt around the lock or not written (upsert).
LockKept == \A d \in held : Dev(d).lock

\* An operator that keeps running deletes no object of a device the control plane
\* never stopped reporting, through reconnects and node outages (unreported).
KeptUnlessGone == ~May("crash") => dropped \subseteq gone

\* Nor does one that has just started: a cold cache is no information (unreported).
ColdCacheDeletesNothing == dropped \subseteq gone

\* The object says what the control plane says, in the light of the node's status.
\* (The object of a device that left before its first status was written is kept, and
\* of a node that was removed nothing is said until its object goes.  Of a device that is
\* silent on a node that is down the object may be there or not: it was deleted if the
\* device went silent before the node's object said the node was down.)
Mirrored(d) ==
  LET v == Dev(d) IN
  IF ~Node.exists THEN ~v.exists
  ELSE IF cpNode = "removed" THEN TRUE
  ELSE IF cp[d] # "absent" THEN v.exists /\ v.phase = devicePhase(cp[d], Node)
  ELSE IF nodeSeesItsDevices(Node) THEN ~v.exists \/ v.phase = ""
  ELSE v.exists => v.phase \in {"Failed", "Unknown", ""}

\* Once the control plane is quiet the objects are what it reports, and stay so: no
\* change is missed by a stream that was down, no trigger outruns the cache, no
\* status outlives the node status it was read under.
Converges == ~May("foreground") => <>[](\A d \in Devices : Mirrored(d))

\* The streams follow the set: no signal is lost in the channel of one slot.
StreamsFollow ==
  /\ wanted ~> (current # 0 \/ ~wanted)
  /\ ~wanted ~> (current = 0 \/ wanted)
===============================================================================
