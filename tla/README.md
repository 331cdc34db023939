# Verification of the simplyblock operator

TLA+ models of the parts of this repository where concurrency decides
correctness, TLC configurations that check them on small instances, and TLAPS
proofs of the results that matter most. Paths below are relative to the
repository's root; `node/` stands for `operator/internal/controllers/node/`.

## 1. The system

The repository holds a Kubernetes operator for simplyblock storage clusters
(`operator/`), a CSI driver (`csi-driver/`) and the Go library both share
(`atlas-lib/`). Everything that changes a storage node, a volume or a cluster is
an *operation object* in the Kubernetes API. A controller drives the object
through a graph of steps, one reconcile pass at a time, and calls the control
plane (an external REST service) at one of them.

Four facts make it hard:

* **Reads lag.** Controllers read through informer caches. A pass may see an
  object as it was before the operator's own previous write.
* **Writes are conditional, and sometimes retried.** A patch carries the
  resourceVersion it was read at. After a conflict `writeStatus` reads again and
  applies the *same* decision to a newer object.
* **The operator dies anywhere.** What a pass has not written is lost; what it has
  called has happened.
* **The control plane is not transactional with Kubernetes.** A call's answer may
  be lost, its effect is seen later through a stream that coalesces, and it may
  never finish.

### 1.1 Inventory

| Component | State | Operations | Interacts with | What makes it correct |
|---|---|---|---|---|
| StorageNodeOps controller (`node/storagenodeops_controller.go`, `actions.go`, `graphs.go`) | the object's phase, step, claim, finalizer; the node's `status.activeOpsRef` | reconcile, acquire, advance, call, write status, release, teardown | API server, caches, control plane, StorageNode controller | one operation drives a node at a time; a call is not repeated while it may be in flight; the node is always given back; every operation ends |
| Step claims (`atlas-lib/statemachine/claim.go`, `operator/internal/controllers/stepclaim/`) | the claim in the snapshot: state and time | claim, call, write | every controller that calls the control plane | the call is made at most once per lease |
| State machine (`atlas-lib/statemachine/`) | state, history, deadline, observers | restore, transition, abort, timeout | all operation controllers | a restored machine behaves as the one that was saved |
| Link (`atlas-lib/link/`) | sessions, registry, agent's session | dial, Hello, register, displace, tear down, shut down | node plugins, other sites | an open session is the registered one; a shutdown reaches all; peers come back |
| StorageNode provisioning (`node/storagenode_controller.go`, `provisioningslots.go`) | phase, attempts, slots on the StorageCluster | take a slot, post, resolve, await, adopt, release | control plane tasks, sockets of one worker | the cap on adds in flight; no add without a slot; the queue moves; provisioning ends |
| Host maintenance, removal, migration (`node/hostmaintenance.go`, `selfbudget.go`, `remove.go`, `migrate.go`) | step, disruption budgets | cordon, drain, restart, remove | kubelet eviction, cluster gate | a budget never outlives its reason; a cluster loses one worker at a time |
| Device mirror and operations (`node/storagedevice_controller.go`, `storagedeviceops_*.go`) | one StorageDevice per backend device, the device lock in its status | create, rebuild, mark unobservable, delete; lock and release | control-plane informer, StorageNode, device operations | the objects end up saying what the control plane says; no lock is overwritten; a device that is reported keeps its object |
| Volume operations (`operator/internal/controllers/volume/`) | an annotation on every volume of a subsystem, one migration slot per cluster, the backend migration | take the slot, lock all or none, create, continue, cancel, break a stale lock, release | CSI, control plane | a running migration holds all it moves; it is continued once; nothing stays locked or live after it; every one ends |
| Cluster operations (`operator/internal/controllers/cluster/`) | `activeOpsRef` of the cluster, step, plan and index of the walk | activate, expand, shut down, start, restart, cancel, rolling restart | control plane, two streams, pods | never two nodes of a cluster down by the operator; no node missed or left down; one activation at a time |
| Control-plane informer (`operator/internal/cpinformer/`) | scopes, streams, stores, index | add and remove a scope, connect, ingest, replace, trigger | control-plane SSE | streams follow the scopes; cache and index agree; what is lost with a connection comes back with the snapshot |
| Two-node arbitration (`operator/internal/controllers/twonode/`) | verdict, taints, fences | follow, fence, lift | arbiter | no fence without a verdict, none left behind |
| Replication, failover (`operator/internal/controller/replication*.go`, `testfailover_controller.go`, `operator/internal/controllers/vrgfollow/`) | step, slots | promote, demote, clone, clean up | control planes of two sites | one primary |
| Switchover (`atlas-lib/switchover/`) | stores being moved | move | backend of a stretched cluster | one demote and one promote per move |
| CSI node path (`csi-driver/internal/guardian`, `reconnect`, `initiator`, `fabric`) | presence record, reconnect loop | attach, detach, scan, reconnect, restart pods | kernel, kubelet | no healthy volume is reported missing |
| Host helpers (`atlas-lib/bounded`, `locks`, `volstack`) | running and abandoned operations | run bounded | CSI | a key is never stuck |
| The other controllers, webhooks, API types, charts, fleet tools | - | - | - | repeat the pattern above, or keep no state |

`PROJECT.json` lists every component with its status, and every hazard at the line
where it bites.

## 2. Modules

| Module | Models |
|---|---|
| `Informer` | an API object seen through a cache: the log of its versions from the cached one to the stored one |
| `NodeLock` | abstract specification: what `status.activeOpsRef` promises |
| `NodeOps` | the StorageNodeOps controller, the step claim, the status writer, and their environment |
| `NodeOpsInvariant` | the inductive invariants `LockInv`, `PromptInv` and `KeptInv` |
| `MCNodeOps` | the instances for TLC |
| `InformerProofs`, `NodeOpsProofs`, `NodeOpsLockProofs` | proofs |
| `LinkHub`, `LinkHubProofs` | the link's hub, registry, sessions and agents, and proofs |
| `Provisioning` | the StorageNode controller's provisioning, the node-add slots, and their environment |
| `MCProvisioning` | the instances for TLC |
| `VolumeOps`, `MCVolumeOps` | the PersistentVolumeOps controller: locks over a subsystem, migration slot, backend migration |
| `ClusterOps`, `MCClusterOps` | the StorageClusterOps controller: every action, the rolling restart included |
| `ClusterOpsInvariant` | the inductive invariants of the cluster operations |
| `DeviceMirror`, `MCDeviceMirror` | from the control plane's event stream through the informer to the StorageDevice objects |
| `ProvisioningProofs`, `VolumeOpsProofs`, `DeviceMirrorProofs`, `ClusterOpsProofs` | proofs about the modules they are named after, with their inductive invariants (those of the last one are in `ClusterOpsInvariant`) |

### 2.1 Informer

One object is a non-empty sequence: its head is what `client.Get` returns, its last
element what the API server stores. A watch event drops the head, a landed write
appends. A patch conditional on the cached version lands exactly when the sequence
has length one. The cache only moves forward, as client-go's does within a process
(and, in the model, across a restart: a new leader's first list is taken to be
at least as recent as what the old leader's cache held; that it may be more recent
is a sequence of deliveries).

### 2.2 NodeOps

One StorageNode and all the operations naming it, one worker (the controller's
`MaxConcurrentReconciles` is the default of one). Correspondence:

| Code | Model |
|---|---|
| `Reconcile` up to the lock: deletion, finalizer, terminal phase | `Reconcile`, `Entry`, `AddFinalizer` |
| `acquireLock` | `AcquireLock` |
| `advance`, `perform`, `request`, `await`, `awaitDeparture` | `Advance`, `Perform`, `NextStep`, `Skips`, `Refuses`, `completionStatus` |
| `once`, `WithClaim`, `stepclaim.Writer` | `Claim` |
| the control-plane call | `Call`; what the control plane does: `Accepts`, `CpBegin`, `CpEnd`, `CpFault` |
| `hold`, `note`, `wait`, `recordStep`, `enterStep`, `fail`, `finish`, `snapshotOf` | `Mutate`, `SnapshotOf`, chosen by `Say`, `Record`, `Finish`, carried out by `WriteStatus` |
| `writeStatus` with `RetryOnConflict` | `WriteStatus` |
| `releaseLock`, `teardown` | `ReleaseLock`, `DropFinalizer` |
| the watches of `SetupWithManager`, `operationsOn` | `DeliverOp`, `DeliverNode` |
| the clock against the lease and the step deadline | `LeaseExpires`, `DeadlinePasses` |
| user, other writers, restart of the operator | `SetAbort`, `Delete` (behind the webhook's guard), `NodeWrite`, `Crash` |
| the control-plane stream's cache | `Stream` |

`pass` is the local state of the running pass. A pass is cut at every read and
write another actor can fall between, and nowhere else. `pass.fresh` says whether
the resourceVersion the pass holds is the stored one.

Choices a reader should know:

* The effect of a control-plane call is taken when it is sent. `Call` also covers an
  error answer with and without effect.
* `RetryOnConflict` (a few tries within a second) either succeeds against a cache that
  has caught up, or gives up and the pass is retried; both are disjuncts.
* `status.message` is not modelled. A write that changes only the message may or may
  not happen (`Say`); runs without `"message"` in `Env` leave such writes out.
* `NodeWrite` stands for any write of the node by another controller. It is
  enabled more often than the StorageNode controller would write.
* Not modelled: `ErrClaimNotStored`, the error path of a step the graph does not know,
  and the failure of an operation whose node has no UUID. They end in the
  same writes as branches that are modelled.
* Not modelled yet: the actions Remove, Migrate and HostMaintenance, and the gate of
  `clusterReady`.

### 2.3 LinkHub

Every goroutine of the hub and of the agents, with one action per critical section.
Sessions are numbered in the order they are dialled.

| Code | Model |
|---|---|
| `Agent.Run`, `link`, `hello` | `Dial`, `Linked`, `Unlinked` |
| `handshake.Hello` | `Authenticate`, `Complete`, `Register` |
| `Hub.handle` | `Track`, `Ended`, `Unregister` |
| the end of a session: the other end, the handshake timer, the network | `Drop` |
| `Session.Close` of a displaced session or at shutdown | `Close` |
| `Hub.Close` | `HubClose`, `CloseListener` |

yamux and gRPC are external: a session is the state of its two ends, each of which
may be the first to close. A caller that goes away cancels the handler's context,
which the authenticator may or may not have looked at, so `Authenticate` may
succeed on a closed session. A failed dial changes nothing and is not an action.
The authenticator's verdict is an input. One hub is modelled; replicas that are
not leading answer `Unavailable`, which is a refused handshake.

### 2.4 Provisioning

All StorageNodes of one StorageCluster and the list of node-add slots on the cluster's
status, over `Informer`: one log per node, one for the cluster. One worker, as above.

| Code | Model |
|---|---|
| `Reconcile` | `Reconcile`, which ends in the branch the pass takes |
| `provision`, `performNodeStep`, `resolve`, `awaitWorker` | `Provision`, `PerformNodeStep` |
| `awaitSlot`, `heldSlots`, `rankContenders`, `claimedWorker`, `addFinished` | `AwaitSlot`, `heldSlots`, `Reapable`, `Contenders`, `PlaceOf`, `claimedWorker`, `addFinished` |
| `takeSlot`, `releaseSlot`, `writeSlots` | `TakeSlot`, `ReleaseSlot`, `TakeLands`, `Released` |
| `postNode` | `PostNode` |
| `recordStep`, `resolveUUID`, `fail`, `syncStatus` | `Mutate`, carried out by `WriteStatus` |
| `teardown` | `Teardown`, `ReleaseSlot`, `DropFinalizer` |
| `matchBackendNode` on the stream's cache | `Found`, `Stream` |
| the StorageCluster controller's task list | `Mirror` |
| the deadlines of the graph | `DeadlinePasses` |
| `workerAway`, `nodesOn` | `Leave`, `Return` |
| the control plane's node_add | `CpBegin`, `CpEnd`, `CpGiveUp`, `Reset` |
| user, restart of the operator | `Delete`, `Crash` |

Choices a reader should know:

* A pass reads and decides in one step. Every step that could fall between its reads
  (a delivery, a stream event, a cordon) could as well come after them, because
  the writes that follow carry the resourceVersion read (`pass.fresh`, `Current`).
* There is no work queue: every pass of a node that has neither failed nor gone asks for
  another one, so any node may be reconciled at any time.
* The three gates before the queue are one step, `Checking`. A write of a message alone
  is left out: it changes nothing another pass decides from.
* A deadline, a reboot and a reset of the backend take minutes to hours. They are taken
  to outlast the caches' lag (`Quiet`), and a reset loses nodes in service, whose slots
  have been given back. A reset that comes between the end of an add and the release of its
  slot, followed by four passes that all see the cluster as it was before the release,
  would post without a slot; that much lag is left out.
* A worker has one backend node. A second add for it while the first is outstanding
  is taken to have no effect (`MaxAdds`): the control plane is external.
* `CapHolds` counts an add as `heldSlots` and `addFinished` do: from the step that takes the slot
  until the control plane has finished the creation (`InAdd`; a UUID alone does not end it, the node is
  still `in_creation`). An add that outlived its deadline, or whose node is deleted, gives its slot back
  while the control plane may still be working on it, by the code's own choice, and is not counted.
* Not modelled: several sockets of one worker in one instance (the operators cover it,
  the instances have one node per worker), the upgrade Secret, the dealing of failure domains,
  remote nodes, the adoption of a node by name, a StorageCluster that goes away.

### 2.5 VolumeOps

The migrations of one storage cluster. Operations and volumes are logs (`Informer`); the
annotations and the slot are *written* against the API server and *read* uncached, as
`acquireLock` and `acquireSlot` do; `queuedOperations` and the state of a lock's holder come
from the cache. One worker.

| Code | Model |
|---|---|
| `Reconcile` up to the lock, `resolve`, `pinConflictOf` | `Reconcile`, `AddFinalizer`, `Resolve` |
| `acquireSlot`, `releaseSlot` | `AcquireSlot`, `ReleaseSlot`, `SlotAfterRelease` |
| `acquireLock`, `lockVolume`, `subsystemVolumes`, `holdsNamedVolume`, `lockIsStale`, `abandonAcquisition` | `ReadMembers`, `ReadMembersFails`, `LockVolume` (one volume a step, in the order of the names), `Takeable`, `LockIsStale`, `AbandonAcquisition`, `Locked` |
| `advance`, `perform`, `validate`, `copy`, `verify` | `Advance`, `Perform`, `Validate`, `Copy`, `NextStep` |
| `once`, `createMigration`, `ContinueMigration` | `Claim`, `CreateMigration`, `ContinueMigration` |
| `discardMigration` in `unwind`, `fail`, `withdraw`, `abandon`, `teardown` | `Discard`, `DiscardMigration`, `DiscardFails`, `AfterDiscard`, `Strict` |
| `hold`, `note`, `recordStep`, `finish`, `writeStatus` | `Say`, `Record`, `Finish`, `Mutate`, `WriteStatus`, `AfterWrite` |
| `releaseLock`, `RemoveFinalizer` | `ReleaseVolume`, `DropFinalizer` |
| watches, clocks | `DeliverOp`, `DeliverPv`, `LeaseExpires`, `DeadlinePasses` |
| user, CSI, restart, control plane | `SetAbort`, `Delete`, `VolumeWrite`, `Crash`, `CpCopy` |

Choices: the step is recorded in two writes, without and then with its deadline, as `advance`
does (`Armed`). The validation jobs and the removal of old paths are outcomes. A
backend migration has one state per operation; the control plane runs one at a time
(`Accepts`, external). A volume that joins the subsystem after the locks were taken is not
locked by the code, and `SubsystemLocked` does not ask for it (`Later`).

### 2.6 ClusterOps

One StorageCluster, all operations naming it, and its nodes. `seen` and `clSeen` are the
two stream caches, which deliver separately.

| Code | Model |
|---|---|
| `Reconcile`, `acquireLock`, `releaseLock`, `teardown` | `Reconcile`, `AddFinalizer`, `AcquireLock`, `ReleaseLock`, `DropFinalizer` |
| `advance`, `perform`, `nextStep`, `enterStep` | `Advance`, `Perform`, `NextStep`, `Record` |
| `request`, `await`, `awaitActivation`, `retryActivation` | `Request`, `Await`, `LostAttempt` |
| `shutDownCluster`, `startCluster` | `Restart` |
| `planWalk`, `storageNodes`, `performNodeStep`, `checkPeers`, `awaitRebalance`, `advanceWalk` | `PlanWalk`, `WalkStep`, `CheckPeers`, `Rebalanced`, `AdvanceWalk`, `Moved` |
| `once` and the calls | `Claim`, `ClusterCall`, `NodeCall`, `Call` |
| `hold`, `note`, `recordStep`, `finish`, `writeStatus` | `Say`, `Mutate`, `WriteStatus`, `AfterWrite` |
| `clusterReading`, `NodeSubscription` | `StreamCluster`, `StreamNode` |
| the control plane | `CpCluster`, `CpRebalanced`, `CpNodeBegins`, `CpNodeEnds`, `CpFault`, `CpRemoves` |
| pods, user, other writers, clocks, restart | `PodMoves`, `SetAbort`, `Delete`, `ClusterWrite`, `LeaseExpires`, `GraceOver`, `DeadlinePasses`, `Crash` |

Choices: the order of the plan is any order (`Orders`), because the list comes from a Go map.
Two clocks run against the control plane: the claim's lease (the request timeout and a minute) and the
grace of an activation (30 s, `activation.go:35`). Both end only after the control plane has begun, or dropped,
the calls it accepted (`Settled`): how long it takes to start is up to it. Neither waits for the stream, which may
be silent for 45 s before it is dropped and then backs off (`cpinformer/manager.go:41-46`); with
"clusterstream" in the environment the grace ends while `clSeen` still shows the old status. `down` and `cycled`
are history: the nodes a walk took down and has not seen up again, and the ones it has. `Out` is every node out of
service, whoever took it out; with "fault" a node may be offline from the start, and with "early" that is the
only time a node fails by itself. The readings of an Activate that only hold the pass (`failureDomainsReady`,
`stripeNodesReady`, `actions.go:79-100`) are the pass that ends without a write. The control plane marks the cluster as rebalancing in the step
that brings the node back; that the code then reads the two facts from two streams is "clusterstream".

### 2.7 DeviceMirror

The devices of one storage node, and five kinds of goroutine that never wait for each other:
the StorageNode controller, the manager of subscriptions, the stream goroutines (a cancelled one
may still be busy while its successor runs), the mirror's worker, and device operations.

| Code | Model |
|---|---|
| `register`, `RegisterNode`, `unregister`, `UnregisterNode`, `syncStatus` | `Register`, `AddScope`, `Unregister`, `Forget`, `NodeStatus` |
| `ScopeSet.Add`, `Remove`, `RemoveLeaf`, `signal`, `list` | `SetScope`, `Drained`, `ListScopes` |
| `runSubscription`, `reconcileStreams` | `Wake`, `ReconcileStreams`, `NewStream`, `NoStream` |
| `runStream`, `streamOnce` | `Connect`, `Disconnect`, `Exit` |
| `decodeSSE`, `dispatch`, `Cache.Ingest`, `Store.Replace` | `Ingest`, `Applied` |
| `DeviceSubscription.Ingest`, `index`, `unindex`, `enqueue` | `Report`, `Indexed` |
| `StorageDeviceReconciler.Reconcile`: the lookup, the object, the status | `Lookup`, `Get`, `Upsert`, `FirstStatus`, `Rebuilt` |
| `unreported`, `markUnobservable` | `Synced`, `Unreported`, `DeleteDevice`, `markUnobservable` |
| `listRemote`, the deletion of a peer's record | `ListRemote`, `RecordDeleted`, `NodeDeleted` |
| the lock a device operation takes | `DeviceOps` |
| watches, garbage collection, restart, control plane | `DeliverDevice`, `DeliverNode`, `Collect`, `Crash`, `CpDevice`, `CpNode` |

Choices: the cache, the synced flag, the index and the trigger are four pieces of state under
different locks, so `Ingest` and `Report` are separate steps and `Lookup`, `Get` and
`Unreported` of one pass are too. The statuses of a device that lead to one phase are one
report. Labels, messages, events and health probes are left out. `Mirrored` does not ask for the object of a device
that is silent because its node is offline: such a device cannot be told from one that is gone by what is reported, so whether
`nodeSeesItsDevices` (`node/storagedevice_controller.go:208-214`) keeps it is not tested by a property.

## 3. What the runs check

| Run | Checks | Shows |
|---|---|---|
| `nodeops_lock` | `TypeOK`, `LockInv`, `CallUnderLock`, `LockSpec` | two operations, both caches lagging, deletions, a crash: only the holder calls, and the controller's lock implements `NodeLock` |
| `nodeops_release` | `NoLockLeftBehind` | the node is never left locked by an object that is gone or finished, *provided* the node's cache has caught up when it is read |
| `nodeops_claim` | `OneCallPerLease`, `ReleasedWhenDone` | one forced restart with every disturbance, *provided* the operation's cache has caught up |
| `nodeops_progress` | `EveryOpEnds`, `LockComesBack` | both operations end and the node is given back, whatever the control plane does and across a crash, with caches that catch up before they are read |
| `link_hub` | `TypeOK`, `OpenIsRegistered`, `ShutdownReachesAll`, `PeersComeBack` | reconnects, displacement, faults and a shutdown at any moment |
| `provisioning_cap` | `TypeOK`, `CapHolds`, `PostUnderSlot` | two workers that host FoundationDB compete for two slots with every disturbance: they are never added together, until the first one's creation is over, and no add is asked for without a recorded slot, *provided* a pass reads its own node from a cache that has caught up |
| `provisioning_line` | `CapHolds`, `LineMoves` | one slot, two workers, a deletion or a worker that leaves at any moment: the cap holds until each creation is over and the queue moves, slots whose release was lost included |
| `volume_lock` | `TypeOK`, `SubsystemLocked`, `CallUnderLock`, `ContinuedOnce`, `DeleteTakesBack`, `NothingLeftBehind` | two migrations of one subsystem with lagging caches, deletions, a crash and contended patches, and one alone with every other disturbance: a running migration holds the slot and all it moves, only the holder calls, a migration is continued once, and nothing stays locked or live when the operation is gone |
| `volume_ends` | `EveryOpEnds`, `LocksComeBack` | two migrations queued on one slot, or one that is aborted, refused or loses its answers: all end, and slot and volumes are given back |
| `cluster_walk` | `TypeOK`, `CallUnderLock`, `OneNodeDown`, `EveryNodeRestarted`, `NoNodeStranded`, `ShutdownWhenRebalanced`, `OneActivation` | every action, alone and behind another operation, in fourteen environments: a walk takes one node down at a time and none while a node that failed before is out of service, waits for the rebalance, misses no node, and an abort or a deletion leaves none down; two activations never run side by side *provided* the cluster's stream keeps up |
| `mirror_converges` | `TypeOK`, `IndexMatchesCache`, `LockKept`, `KeptUnlessGone`, `Converges`, `StreamsFollow` | reconnects, a restart, node outages, device locks, records that come and go, a node that leaves: the objects end up saying what the control plane says, no lock is overwritten, no reported device loses its object while the operator runs |
| `mirror_cold` | `ColdCacheDeletesNothing` (violated) | the finding of 3.1 |

The "provided" switches (`OpsPrompt`, `NodePrompt`) are where the observations of 3.1 come from: the same
property holds when the cache that the code decides from is current and fails when it
lags by one version. Three remarks, from instances with a switch turned off:

* `ReleasedWhenDone` needs `OpsPrompt`: an operation that was revived (observation 14) is Running again
  while the release of its end is still to come.
* `EveryOpEnds` and `LockComesBack` need `NodePrompt`: an operation that waits behind
  the lock of observation 1 waits forever.
* `CapHolds` and `PostUnderSlot` need `NodePrompt`: a pass on a stale copy writes a provisioning
  step over a node that has its UUID. When the backend loses that node, `syncStatus`
  clears the UUID only (`node/storagenode_controller.go:1023`), and provisioning resumes at
  that step, past the queue.

### 3.1 The finding, and what else the instances show

**A cold cache deletes an object** (`mirror_cold`). `Reconcile` looks the device up first
(`node/storagedevice_controller.go:170`) and asks whether its scope is synced only afterwards, in
`unreported` (line 199), while `Cache.Ingest` marks the scope synced as soon as the store is
replaced, before the devices are indexed (`cpinformer/subscriptions/cache.go:79-83`). After a
restart every existing object is queued while the first snapshot is being ingested. A pass
whose lookup comes before the index and whose `Synced` comes after the flag deletes the object of a
device that is reported, with the device's lock and health. Lines 166-168 say that an object
whose device is absent from a not-yet-synced scope is left alone.

*Observations.* Behaviours of the code that the same modules show in instances that are not among the
runs. Each is reproduced by the constants given; the runs above state under which
conditions the property holds.

1. *A node lock left behind.* `releaseLock` (`node/storagenodeops_controller.go:758`) decides
   ownership from the cached node. If the operation is deleted right after it
   acquired, the cache does not show the acquisition, the release is skipped and the
   finalizer removed. `NoLockLeftBehind` with `Action <- SuspendResume`, `Env = {"delete"}`,
   `NodePrompt = FALSE`. Lines 62-65 promise the opposite.
2. *A call made twice within its lease.* A pass on a stale copy loses the claim and then writes its
   stale step over the recorded one (line 1011), dropping the claim; the next pass calls
   again. `OneCallPerLease` with one operation, `Action <- RestartShutdown`, `Env = {"message"}` and
   both caches lagging. `actions.go:68-72` says the claim stops this.
3. *A dead peer in the registry.* A session that drops while its Hello is being
   authenticated is registered after its teardown (`atlas-lib/link/hub.go:349`), and stays until
   the peer links again. `registry[p] # 0 => handle[registry[p]] # "done"` with one fault and two sessions.
4. *A failed node at the head of the queue.* `awaitSlot` counts every sibling in step
   AwaitingSlot as a contender (`node/storagenode_controller.go:738`) whatever its phase,
   and `fail` leaves the step. `LineMoves` with `Late = {"AwaitingSlot"}`, `Env = {"leave"}`.
   Lines 1811-1813 say a node that has given up holds nothing.
5. *An add that is asked for forever.* `resolve` goes back to Posting when no add is
   listed (line 884) and each entry into a step sets a new deadline. One node, `AddsFail = TRUE`,
   `Late = {"Checking", "Posting", "Resolving"}`: it neither fails nor is added. Lines 850-852 say
   the step's deadline bounds it.
6. *A migration step that cannot time out.* `advance` records a step without its deadline and again
   with it (`persistentvolumeops_controller.go:435`, `:442`); a crash in between restores a
   step nothing can time out, against the comment at lines 682-684. The cluster controller's
   `enterStep` (lines 388-401 of its file) describes this and writes once;
   `backup/storagebackupops_controller.go:278-285` has the older order too. `EveryOpEnds` with
   `Envs = {{"alone", "late", "lost", "crash"}}`, `MaxCrashes = 1`.
7. *A migration nobody can cancel.* When the answer to the create is lost, the id is not
   recorded (`steps.go:204-209`) and neither an abort nor a deletion finds the migration.
   `DeleteTakesBack` is therefore about recorded ones.
8. *Locks of a running migration given back.* A pass that still reads the operation as Pending, and
   meets a conflict on a sibling that just joined, runs `abandonAcquisition` (`lock.go:163`)
   under the running operation. `SubsystemLocked` with `Envs = {{"touch", "join", "opslag", "pvlag"}}`.
9. *Smaller ones in volume operations.* An operation whose volume can no longer be resolved
   finishes Failed without cancelling its migration (`persistentvolumeops_controller.go:262-266`);
   while the target is offline neither an abort nor the deadline is looked at (line 268); a pass on a stale
   copy takes an operation refused for a pin out of Failed again, and puts it to work although its
   slot and its locks were given back: `SubsystemLocked` with
   `Envs = {{"alone", "refuse", "opslag", "pvlag"}}`. The theorems about the locks therefore assume that a pass reads its
   own operation promptly, which also excludes observation 8.
10. *A device that is never mirrored.* The deletion of a peer's node record in the foreground and its
    listing again can share the one slot of the scope set's channel; the stream is then kept,
    brings no snapshot, and the forgotten index entries do not come back. `Converges` without its
    condition, with `Env({d1}, 1, {"device", "foreground"})`. The comment on `enqueue`
    (`subscriptions/device.go`) relies on a snapshot after each registration. Besides: a remote record has
    no finalizer, so a deletion in the background never unregisters it; a cancelled stream still
    ingests what it had read; an object that got no first status is never deleted.
11. *The walk and unannounced failures.* With a node stream that lags *and* nodes that fail by themselves,
    a late "offline" is taken for the effect of the walk's own shutdown, and two nodes can be down
    (`OneNodeDown` with `{"fault", "nodestream"}`). The comment on `checkPeers` says that every shutdown
    is gated on all peers being online (`rollingrestart.go:187-190`); what it checks is the node cache of that pass
    (line 207). So a node that failed before the walk and comes back by itself, just as the walk asks it down, has its
    old "offline" taken for the effect of the call and its return for the restart, and its peer is asked down while it
    goes (`OneNodeDown` with `{"fault", "early", "nodestream"}`), and
    a peer can fail between the check and the call (`{"fault"}` alone breaks `down = {} \/ Out \subseteq down`,
    which `OneNodeDown` therefore asks for early failures only). The rebalance is read from the cluster's stream and
    the node from its own (line 390), and nothing orders the two: without its condition on "clusterstream"
    `ShutdownWhenRebalanced` fails in that environment. An abort at Rebalancing lets the
    next walk start before the data is redistributed, and a node skipped in the middle of a walk is not
    waited for; `ShutdownWhenRebalanced` says so. After a lost answer the step stays Requesting,
    of which `graphs.go` says that it has issued nothing.
12. *Stale copies of cluster operations.* With the operations' and the cluster's cache both lagging, a
    conflict retried on a stale copy (`record`) takes a Failed operation back to Running after its lock was
    released, and the next pass finds its name in a stale cluster and calls without the lock:
    `CallUnderLock` with `"opslag"` and `"lag"` together. With either cache prompt TLC finds no such step.
    A pass on a stale copy can also plan the walk again, after which a late "skip" moves the index in
    the new plan: `EveryNodeRestarted` with `{"opslag", "remove"}` and `MaxLag = 2`. Or the plan is
    written again in another order after the peers of its first node were checked, and the shutdown goes to a node whose
    peer is out: `OneNodeDown` with `{"fault", "early", "opslag"}`. Two Activate
    operations can overlap when the first one's answer is lost and its deadline passes: `OneActivation` with two.
    So can the attempts of one Activate behind a Restart: a shutdown accepted before its operation's deadline
    passed takes effect during the activation, which then looks lost and is asked for again
    (`Two("Activate", "Restart")`, from "active", with `{"late", "lost", "crash"}`). And two walks can have two
    nodes down without any lag of a cache (`OneNodeDown` with two rolling restarts and `{"late"}`): the first one's
    shutdown is accepted, its deadline ends it before the node goes, and the second finds every peer online.
13. *Two nodes of one worker.* When a node crashes out of Posting after taking its worker's slot, its sibling joins
    in Resolving under that slot (`awaitSlot`). If the first is then deleted, its teardown releases the slot;
    the sibling finds no add listed, goes to Posting and posts with no slot on record for the worker.
    `PostUnderSlot` with both nodes on one worker and `MaxFaults = 2`. The cap goes the same way with a third node on
    another worker and `Limit = 1`: the slot ends with the node that took it (`provisioningslots.go:264-271`), while the add it
    was taken for is still to bring the sibling; one deletion is enough for `CapHolds`. The theorems about slots
    therefore assume one node on each worker.
14. *An operation that ended and runs again.* `recordStep` sets Running unconditionally
    (`node/storagenodeops_controller.go:1046`) and `writeStatus` applies it again after a conflict, so a pass on a
    stale copy takes a node operation out of its terminal phase. `terminalOps` is documented as "a phase the
    operation can never leave" (line 1141). A step out of a terminal phase is reached with `OpsPrompt = FALSE`, one operation,
    `Action <- RestartShutdown` and `Env = {"late"}`. The revived operation calls only if it holds the node
    (`CallUnderLock` is proved without `OpsPrompt`), and with `OpsPrompt` a phase is kept for no other
    reason than the check at the entry of a pass, so no property says it.
15. *A second activation beside the first.* The grace after an activation is 30 s (`activation.go:35`), a
    cluster stream that has gone silent is given up only after 45 s and reconnects after up to 30 s
    (`cpinformer/manager.go:41-46`), and `clusterReading` (`storageclusterops_controller.go:979`) does not ask how
    old its reading is. When the grace ends first, the status from before the attempt reads as a lost one, and
    `retryActivation` asks again while the first attempt runs; of that the comment at `actions.go:86-89` says that the
    control plane would run the second one beside it. `OneActivation` with `Env(One("Activate"), "unready", {"clusterstream"})`.
16. *A failed node taken up again.* A node that overran its deadline has failed and given its slot back. When its worker
    leaves, `provision` (`node/storagenode_controller.go:374`) moves it to AwaitingWorker before it looks at the deadline, with a
    fresh one; its add, which the control plane never stopped, then brings a UUID with status `in_creation` and no slot, while another
    worker is being added. `CapHolds` with `Late = {"Resolving"}` and "leave" in `Env`.

### 3.2 Bounds

* *Two operations*: the lock is contended by the holder and one waiter; a third waiter
  is symmetric to the second. Suspend and Resume are opposite calls, so a call under
  the wrong holder would be visible. Runs about one operation's claim use one.
* *`MaxLag = 1`*: a cache one version behind is already wrong about everything that
  version changed. The proofs hold for any lag.
* *`MaxCrashes = 1`*: one crash can fall between any two steps. A second one meets the
  same states, because a crash keeps nothing.
* *`Env`*: which disturbances a run admits. All of them are exercised between the runs;
  `nodeops_claim` has all at once.
* *Link*: one peer, since peers share nothing but the table of sessions; one fault,
  which is enough for a reconnect that overtakes a teardown and for a Hello answered
  after its session was abandoned; four sessions, which an agent cannot exhaust with
  one fault (so `PeersComeBack` is not met by running out of sessions).
* *Provisioning*: two nodes on two workers, the least that contend. With `Limit = 2` and both
  workers hosting FoundationDB the second condition of `awaitSlot` decides, with `Limit = 1`
  the cap does. One fault of any kind, at any moment; a deadline that passes in Resolving is not
  counted as one.
* *VolumeOps*: two operations on two volumes of one subsystem, with a third volume that may join:
  the least in which a lock is partial and contended. `Envs` lists sets of disturbances; each
  behaviour picks one at the start, so that one run covers several without their product.
  The pairs that break a property together are observations 6 and 8.
* *ClusterOps*: two nodes, since "one at a time" needs two; one or two operations. Fourteen
  environments, at most six disturbances each, so that every action meets aborts, crashes, lost answers and
  lag of each cache. In one of them a node may be out from the start ("early"), the case the check of the peers is
  for. `MaxActivates = 3` allows two retries. Left out are `{"fault", "nodestream"}`, for observation 11,
  `{"fault", "early", "opslag"}`, for observation 12, and "clusterstream" with an Activate, for observation 15.
* *DeviceMirror*: two devices in one environment, to tell a snapshot from an event, one in the others;
  two stream slots, a stream and the cancelled one before it; two records of the node, one
  dropped connection, one crash, up to two changes in the control plane. A second drop meets
  the states of the first, because a snapshot replaces everything.
* `CHECK_DEADLOCK FALSE`: the systems stop when every operation has ended, when
  peers have stopped or the hub is closed, when every StorageNode is gone, and when the
  control plane has nothing new to report.

### 3.3 Fairness

`NodeOps`: the worker runs on (weak fairness of a pass), a queued operation gets its
pass (strong fairness of `Reconcile`: the work queue is first-in first-out, and other
operations' passes disable it in between), watch events arrive (weak, per object), and time
moves (weak, `DeadlinePasses`). Nothing is assumed of the control plane, the stream or
the user. `LinkHub`: goroutines run on, the ends of a connection learn that it
is gone (yamux keepalive), and an agent keeps dialling. `Provisioning`: passes run on, watch
events, the stream and the mirror arrive (weak); every node gets its pass and a worker
that rebooted comes back (strong, since passes of other nodes disable them in between); the
control plane ends an add it has accepted, one way or the other; and a step that is not left
outlives its deadline, except AwaitingSlot, where failing would pass for being served.
`VolumeOps`: as `NodeOps`; besides, an uncached read of the members and a cancel succeed if tried again
and again (strong, `ReadMembers`, `DiscardMigration`), because every deadline's cleanup waits for them, and
leases and step deadlines pass (weak). Nothing is assumed of the copy. `DeviceMirror`: each goroutine
runs on and connects again (weak), a queued object gets its pass and a cancelled stream ends (strong, since
passes of other objects and frames in between disable them), watch events and the garbage collector arrive.
`ClusterOps` has no liveness run. Faults, crashes and shutdown are never fair.

## 4. What is proved

The theorems hold for every number of operations, nodes, volumes, devices, peers and
sessions, every lag, any crashes and any environment. The assumptions on constants
(`NodeOpsAssumption`, `LinkAssumption`, `ProvisioningAssumption`, `VolumeOpsAssumption`,
`ClusterOpsAssumption`, `DeviceMirrorAssumption`) type the constants, and require finite sets where something is
counted and `MaxLag > 0`.

| Theorem | States | Hypothesis |
|---|---|---|
| `NodeOpsProofs!TypeCorrect` | `Spec => []TypeOK` | |
| `NodeOpsLockProofs!LockInvariant` | `Spec => []LockInv` | |
| `NodeOpsLockProofs!CallsUnderLock` | `Spec => []CallUnderLock` | |
| `NodeOpsLockProofs!LockImplemented` | `Spec => LockSpec`: the controller's lock implements `NodeLock` | |
| `NodeOpsLockProofs!CallsOncePerLease` | `Spec => []OneCallPerLease` | `OpsPrompt` |
| `NodeOpsLockProofs!GivenUpWhenDone` | `Spec => ReleasedWhenDone` | `OpsPrompt` |
| `NodeOpsLockProofs!LocksComeBack` | `Spec => []NoLockLeftBehind` | `NodePrompt` |
| `LinkHubProofs!LinkTypeCorrect` | `Spec => []TypeOK` | |
| `LinkHubProofs!RegistryKeepsOpen` | `Spec => []OpenIsRegistered` | |
| `LinkHubProofs!ShutdownComplete` | `Spec => []ShutdownReachesAll` | |
| `ProvisioningProofs!TypeCorrect` | `Spec => []TypeOK` | |
| `ProvisioningProofs!AddsUnderSlots` | `Spec => []PostUnderSlot` | `NodePrompt`, `OnePerWorker` |
| `ProvisioningProofs!CapIsKept` | `Spec => []CapHolds` | `NodePrompt`, `OnePerWorker`, `Late = {} \/ "leave" \notin Env` |
| `VolumeOpsProofs!TypeCorrect` | `Spec => []TypeOK` | |
| `VolumeOpsProofs!ContinueOnce` | `Spec => []ContinuedOnce` | |
| `VolumeOpsProofs!NothingAbandoned` | `Spec => []DeleteTakesBack` | |
| `VolumeOpsProofs!RunningHoldsLocks` | `Spec => [](PromptOps => SubsystemLocked)` | |
| `VolumeOpsProofs!CallsUnderLock` | `Spec => [](PromptOps => CallUnderLock)` | |
| `VolumeOpsProofs!NothingLeft` | `Spec => []NothingLeftBehind` | |
| `ClusterOpsProofs!TypeCorrect` | `Spec => []TypeOK` | |
| `ClusterOpsProofs!CallsUnderLock` | `Spec => [](~May("opslag") \/ ~May("lag") => CallUnderLock)` | |
| `ClusterOpsProofs!NodesRestarted` | `Spec => [](~May("opslag") => EveryNodeRestarted)` | |
| `ClusterOpsProofs!NoneStranded` | `Spec => [](Sure => NoNodeStranded)` | |
| `ClusterOpsProofs!OneDown` | `Spec => [](Sure /\ Single => OneNodeDown)` | |
| `ClusterOpsProofs!RebalancedFirst` | `Spec => [](Prompt => ShutdownWhenRebalanced)` | |
| `ClusterOpsProofs!OneActivates` | `Spec => [](Aware /\ Lone => OneActivation)` | |
| `DeviceMirrorProofs!TypeCorrect` | `Spec => []TypeOK` | |
| `DeviceMirrorProofs!LocksKept` | `Spec => []LockKept` | |
| `DeviceMirrorProofs!DevicesKept` | `Spec => []KeptUnlessGone` | |
| `DeviceMirrorProofs!IndexMatches` | `Spec => []IndexMatchesCache` | |

A hypothesis is there where TLC refutes the statement without it: `OpsPrompt` for
observation 2, `NodePrompt` of `NodeOps` for observation 1, `PromptOps` for observations 8 and 9,
`NodePrompt` of `Provisioning` for the stale step of section 3, `OnePerWorker` for observation 13, and
"no deadlines or no departures" for observation 16. "Prompt" means that a pass starts
once the cache shows the newest version of the one object named; every other object
still lags, the object may change under the running pass, and the operator still crashes.

In `ClusterOps` the hypotheses are about the environment a behaviour has from its start. `Prompt` (no
"opslag") and the alternative of `CallsUnderLock` are there for observation 12. `Sure` is `Prompt` and either no
node that fails by itself or a node stream that keeps up: with both, observation 11 breaks `OneNodeDown`, and an abort
besides breaks `NoNodeStranded`. `Aware` is `Prompt` and a cluster stream that keeps up, for observation 15; that the
control plane begins an accepted attempt before the grace is over is part of the model (`Settled`, 2.6), not of the theorem. `Single` (one walk, or no deadlines) and `Lone` (no second operation
that touches the cluster's status next to an Activate) exclude the overtaken calls at the end of observation 12: an
accepted call outlives the operation whose deadline passed, and the code has nothing that waits for it.
`RebalancedFirst` needs no more than `Prompt` because the property itself is about a prompt cluster stream.

**NodeOps: why only the holder calls.** `CallUnderLock` alone is not inductive: a pass may enter
the call on a stale copy of its operation, having found its own name in a stale copy of
the node. `LockInv` records what is nevertheless true. A version that may call
(`Early`) exists in an operation's log only while the operation holds the node or has
ended in the API server. An ended operation is never seen at the start of its graph
again while the node exists (`LogRevived`: a stale `recordStep` revives it only in later steps).
The claim lands only on the stored version, so a pass on a copy older than
the end of its operation is refused before it calls. A node version naming the operation,
read while the cache shows the operation before its graph, is a hold it still has
(`LogNamed`). The proof has one lemma per action, split by the conjuncts of the invariant
that the action disturbs; the environment's lemmas are generic (a clock tick, a
delivery, a foreign write). The theorem covers the behaviours of observations 1 and 2: stale writes lose claims and
revive phases, but they never make an operation call on a node it does not hold.

**NodeOps: one call for a claim, and a node given up at the end.** `PromptInv` follows a pass that began on the stored
operation: the object stays while the pass works on it (`PassKept`), its phase, step and claim stay what the pass
read, because nobody else writes them (`PassInStep`), and while a call is trusted to be in flight the step that
made it is over or its claim stands in the API server (`CallsAccounted`). `OneCallPerLease` and `ReleasedWhenDone` follow from it and
from `LockInv`.

**NodeOps: no lock left behind.** `KeptInv` says that the holder exists and has its finalizer, and that a pass about
to drop a finalizer does not hold the node (`HolderKept`); that a finalizer goes only with the object, and that a cache
that shows one shows the deletion before the end (`FinalizerStays`, `GoneAnnounced`); and that a holder that has ended
is going to be looked at again or is releasing (`ReleaseOwed`).

**Provisioning: why the slot is still there.** The list of slots is seen through two caches: a pass counts
the cached list, and leaves out the entries whose holder looks done with in a cached node. `SlotInv` calls an
entry *loose* if some version still to be seen shows it although it is gone, or some version of its
node still to be seen lets it be dropped. Its core is that a loose entry belongs to a *parked* node:
one that is going, has overrun its deadline, waits for its worker, or is in service and seen in service. A
parked node asks for no add, and a step that takes a node out of its parking place (a return, a reset, a new attempt) is only taken
when its entry is no longer loose. A take replaces the list by the entries counted, so those it drops are parked ones;
it lands on the list it counted, so the cap is that of the count. A node counts until its creation is over, so a node that has
its UUID and is still in_creation keeps its entry; the one way to be in creation without an entry is to have been taken up
again after a failure, which `StrayInv` excludes without deadlines or without departures. The rest of the invariant says
what each kind of pass may rely on from its read to its write (`Reads`, `Takes`, `Posts`, `Releases`, `Writes`).
`TypeCorrect` needs an argument too: that no finalizer is taken from an object with an undelivered
version rests on a deleted object being written at most once more (`GoingLast`).

**VolumeOps.** `OnceInv`: the continuation is counted against the claim in the stored operation (`Counted`); a pass
that claims has read an operation not continued yet, and lands its claim on the stored version only (`CallOnce`, `FreshIsStored`);
a teardown past its cancel has nothing left to take back (`TakenBack`). `HoldInv`, under `PromptOps`: an operation at work has the slot
and the lock of every member (`EngagedHolds`); a pass that is still locking has the slot, and each member is gone, locked
by it or still on its list (`PassHolds`). `LeftInv`, without a hypothesis, for what is left behind: a holder exists and has
its finalizer (`HolderKept`), and a holder that has ended is queued, has a version still to be delivered, or has its pass
running (`ReleaseOwed`). A pass takes locks only for an operation that exists and drops a finalizer only when its operation holds nothing
(`PassLeaves`); this rests on the deletion being in every version from the one read on (`DeletedStays`), and on an operation that is gone having
shown its deletion in every version with a finalizer (`GoneAnnounced`), so that a stale pass cannot take a lock for it.

**ClusterOps.** The invariants stand on one another. `TypeInv` knows which steps an operation's graph has and that a plan is never taken
back, so the index stays in the plan over every version of an operation and every write a pass may still make. Under `Prompt` a pass
holds the stored status until it writes (`StepInv`), and a walk with its node down is ended only by its deadline or for a
cluster that is gone (`EndInv`). `LockInv` reads the lock through the lagging cluster: a name, once written, stays in every later version until the object goes
(`Lasts`), the last version there is names whoever is at work (`Ends`), and only one operation is; `HoldInv` is the simpler
statement for a prompt cluster, under operations that lag. `WalkInv`: every node before the index is back or skipped, and the current one has
left in the steps after its shutdown. `DownInv`: a node that is down stands at the index of a walk that can go on, or ended late or with
the cluster object; in environments without faults a node goes down and comes back only as it was asked to, and is seen in that order.
With at most one such walk there is at most one such node. `OutInv`, where nodes fail before the walk only and are seen
promptly (`Sighted`): from the check of the peers on, no node but the walk's own is out of service, and none is
once one is down. In environments without faults the same follows from `DownInv`, since a node is out only if it is down. `RebalInv`: no other node is coming back while one is
taken down, and a walk leaves Rebalancing only when the data is in place. `ActInv`: an attempt that has not ended
is covered by its operation's claim, and in the awaiting step by the grace, until it has begun; from then on the stream, which keeps up
under `Aware`, shows it.

**DeviceMirror.** `LockInv`: a locked device's object exists, and every status the mirror lands starts from the stored version.
`SteadyInv`, for an operator that keeps running: a device never withdrawn is reported by the store or by the frames still to be
ingested, is in the index while an object of it may be seen, and no pass has looked it up in vain. `IndexInv`: while the node is
registered one stream is live, and index and store agree on every device that no report still to be handed over is about.

**Why the registry keeps open sessions.** `LinkInv` adds to the two properties that only
an open session is tracked or about to be (`HandleKnows`), so that `unregister` runs on closed
sessions alone; that a displaced session is doomed by the step that displaces it; and that
between the two halves of `Hub.Close` every open session is collected or not tracked yet
(`Closing`).

**Only model-checked:** liveness (`EveryOpEnds`, `LockComesBack`, `PeersComeBack`, `LineMoves`,
`LocksComeBack`, `Converges`, `StreamsFollow`), which needs fairness and is out of the prover's reach. Every
invariant of a passing run is stated by a theorem.

## 5. Seeded faults

Each module defines, next to the operators they replace, mutated forms marked
"Seeded fault". `PROJECT.json` pairs every checked property with one that breaks it: a lock patched
without its resourceVersion, a release that does not check whose lock it is, a terminal operation
that is not released again,
a snapshot that forgets the claim, a swallowed conflict, a deadline on the first step only,
a registry entry deleted whoever owns it, a displaced session left open, a session
tracked after the shutdown, slots or a status patched without their resourceVersion, a
release that clears the whole list, a slot that only an added node gives up, a slot given up at the UUID, a volume locked without its
siblings, a claim that is taken again on a conflict, a finalizer that goes on a stale copy, a deadline
that is never written, a walk that can be aborted while its node is down, an index that is moved relative to
the copy it is applied to, a peer check that always passes, a rebalance that is not waited for, an activation retried at once, a snapshot merged
into the cache, an index entry that is kept, a status rebuilt without its lock, a signal taken after the list.

## 6. Not modelled

Most of the repository's Go lines are generated (the control-plane client, deep copies, OpenAPI
tables, protobuf), API types, tests and request handlers; the models cover the controllers in
which concurrency decides. Out of scope: generated clients and types, charts, the web interface, support
scripts, and I/O against the kernel (NVMe, LVM, block devices), where there is no protocol to
check. Of the modelled controllers the following is left out:

* StorageNodeOps: Remove, Migrate and HostMaintenance with their disruption budgets (`remove.go`,
  `migrate.go`, `hostmaintenance.go`, `selfbudget.go`), and the gate of `clusterReady`.
* StorageNode: what `syncStatus` writes beside the add's progress, the upgrade Secret, failure domains.
* Volume operations: Relocate, which takes no slot, and the older VolumeMigration kind.
* Cluster operations: the StorageCluster controller itself, and the refresh of a pod on a peer site.
* Devices: the steps of StorageDeviceOps; only their lock is an action.
* The control-plane informer's other subscriptions, which share the modelled code.

Components of section 1.1 without a module (arbitration, replication, switchover, the CSI node path,
the host helpers) repeat the operation pattern or are planned.

## 7. Plan

1. Liveness of `ClusterOps`: every operation ends and the cluster is given back.
2. `Provisioning` with two sockets on one worker, where a sibling resolves instead of posting.
3. `NodeOps` extended by Remove, Migrate, HostMaintenance and the self budget.
4. `Switchover` and `Bounded`: two small concurrent components, with proofs.
5. Two-node arbitration; the CSI presence record.
