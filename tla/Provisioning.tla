------------------------------ MODULE Provisioning ------------------------------
(***************************************************************************)
(* How a StorageNode is added to its cluster, and the node-add slots that  *)
(* cap how many adds are outstanding at once:                              *)
(*   operator/internal/controllers/node/storagenode_controller.go          *)
(*   operator/internal/controllers/node/provisioningslots.go, graphs.go    *)
(*                                                                         *)
(* All the StorageNodes of one StorageCluster, each on its worker.  One    *)
(* controller worker runs one pass at a time.  It reads the nodes and the  *)
(* cluster through lagging caches (module Informer), and the control       *)
(* plane's node list through a stream that lags too.  The three gates      *)
(* before the queue (CheckingHost, CheckingConfig, CheckingNetwork) are    *)
(* one step, Checking, and a write of a message alone (hold) is left out.  *)
(* Every pass of a node that is neither failed nor gone asks for another   *)
(* (RequeueAfter, or an error), so there is no work queue to model: any    *)
(* node may be reconciled at any time.  A deadline (minutes to hours), a   *)
(* reboot and a reset of the backend outlast every cache's lag.            *)
(***************************************************************************)
EXTENDS Informer, FiniteSets

CONSTANTS
  Nodes,       \* the StorageNodes
  Workers,     \* the Kubernetes workers
  NoNode,      \* the node of an idle pass
  On,          \* [Nodes -> Workers], spec.workerNode
  Rank,        \* [Workers -> Nat], the order of the workers' names
  Limit,       \* nodeProvisioningBudget
  FDB,         \* the workers that host FoundationDB
  Late,        \* the steps whose deadline may pass
  AddsFail,    \* TRUE: adds may fail any number of times
  NodePrompt,  \* TRUE: a pass reads its own node only once the cache has caught up
  MaxAdds,     \* bound: adds outstanding for one worker, a further one has no effect
  MaxLag,      \* bound: undelivered versions per object
  Env,         \* which of EnvKinds may happen
  MaxFaults    \* bound: how many of them happen

\* A crash of the operator, a deletion, a worker's absence, a reset of the backend,
\* an add that is not answered, an add that fails.
EnvKinds == {"crash", "delete", "leave", "reset", "answer", "add"}

Gates == {"Checking", "AwaitingSlot"}
Claimed == {"Posting", "Resolving", "AwaitingWorker", "Adopting"}
Steps == {""} \cup Gates \cup Claimed

ASSUME ProvisioningAssumption ==
  /\ NoNode \notin Nodes
  /\ IsFiniteSet(Nodes)
  /\ On \in [Nodes -> Workers]
  /\ Rank \in [Workers -> Nat]
  /\ Limit \in Nat /\ MaxAdds \in Nat /\ MaxLag \in Nat \ {0} /\ MaxFaults \in Nat
  /\ FDB \subseteq Workers
  /\ Late \subseteq Gates \cup Claimed /\ Env \subseteq EnvKinds
  /\ AddsFail \in BOOLEAN /\ NodePrompt \in BOOLEAN

VARIABLES
  nodeLog,     \* [Nodes -> log of StorageNodes]
  clusterLog,  \* log of the StorageCluster: its slots and its mirrored task list
  pass,        \* the reconcile pass the worker is running
  adds,        \* [Workers -> node_add tasks the control plane has not finished]
  made,        \* [Workers -> the worker's backend nodes]
  seen,        \* [Workers -> the same in the stream's cache]
  away,        \* the workers that are cordoned or not ready
  faults       \* faults so far

vars == <<nodeLog, clusterLog, pass, adds, made, seen, away, faults>>
api == <<nodeLog, clusterLog>>
backend == <<adds, made, seen>>
world == <<away, faults>>

NodeObj == [exists : BOOLEAN, deleted : BOOLEAN, failed : BOOLEAN, step : Steps,
            late : BOOLEAN, uuid : BOOLEAN, creating : BOOLEAN]
NewNode == [exists |-> TRUE, deleted |-> FALSE, failed |-> FALSE, step |-> "",
            late |-> FALSE, uuid |-> FALSE, creating |-> FALSE]
ClusterObj == [slots : SUBSET Nodes, tasks : BOOLEAN]
Made == {"none", "in_creation", "created"}

\* A pass reads and decides in one step (nothing it reads moves under it but by
\* steps that could as well come later) and then carries its writes out.  What it
\* keeps: the node, the object a finalizer is removed from, the slots it counted
\* and whether the cluster is still the one they were counted on, the status it
\* writes, the control plane's reading, and what follows a release.
Idle == [pc |-> "idle", node |-> NoNode, obj |-> NewNode, held |-> {}, fresh |-> FALSE,
         do |-> "", reading |-> "none", then |-> ""]
PassObj ==
  [pc : {"idle", "take", "post", "write", "release", "drop"},
   node : Nodes \cup {NoNode}, obj : NodeObj, held : SUBSET Nodes, fresh : BOOLEAN,
   do : Steps \cup {"uuid", "lost", "status", "fail"}, reading : Made,
   then : {"", "fail", "drop", "end"}]

\* One fault of the budget.
Fault(kind) == kind \in Env /\ faults < MaxFaults /\ faults' = faults + 1

-------------------------------------------------------------------------------
(* Pieces of a pass.                                                       *)

At(pc) == pass.pc = pc
Start(n, pc) == [Idle EXCEPT !.pc = pc, !.node = n]
End == pass' = Idle
Post(n) == pass' = Start(n, "post")
Write(n, do) == pass' = [Start(n, "write") EXCEPT !.do = do,
  !.reading = IF do \in {"uuid", "status"} THEN seen[On[n]] ELSE "none"]
Release(n, then) == pass' = [Start(n, "release") EXCEPT !.then = then]

claimedWorker(v) == v.exists /\ (v.step \in Claimed \/ v.uuid)

\* Seeded fault: the add is over when the UUID arrives.
AddFinishedAtUUID(v) == v.uuid

addFinished(v) == v.uuid /\ ~v.creating

\* matchBackendNode, on what the stream has delivered.
Found(n) == seen[On[n]] # "none"

\* Seeded fault: only a node that was added gives its entry up.
ReapableFinished(v) == v.exists /\ addFinished(v)

\* The entries heldSlots drops: their holder is gone, going, failed or added.
Reapable(v) == ~v.exists \/ addFinished(v) \/ v.failed \/ v.deleted
heldSlots(slots) == {m \in slots : ~Reapable(Cached(nodeLog[m]))}

\* The workers competing for the free slots, and the place of w among them.
Contenders(n, held) ==
  {On[n]} \cup {On[m] : m \in {k \in Nodes : LET v == Cached(nodeLog[k]) IN
    /\ On[k] # On[n] /\ v.exists /\ ~claimedWorker(v)
    /\ v.step = "AwaitingSlot" /\ On[k] \notin {On[h] : h \in held}}}
PlaceOf(w, contenders) == Cardinality({x \in contenders : Rank[x] < Rank[w]})

\* awaitSlot, in the code's order, up to the patch that takes a slot.
AwaitSlot(n) ==
  LET w == On[n]
      held == heldSlots(Cached(clusterLog).slots)
      mine == {m \in held : On[m] = w}
      claimed == \E m \in Nodes \ {n} : On[m] = w /\ claimedWorker(Cached(nodeLog[m]))
      full == \/ Cardinality(held) + PlaceOf(w, Contenders(n, held)) >= Limit
              \/ w \in FDB /\ \E m \in held : On[m] \in FDB
  IN IF Found(n) THEN Write(n, "Adopting")
     ELSE IF w \in away THEN End
     ELSE IF claimed THEN Write(n, "Resolving")
     ELSE IF mine # {} THEN Write(n, IF n \in mine THEN "Posting" ELSE "Resolving")
     ELSE IF full THEN End
     ELSE pass' = [Start(n, "take") EXCEPT !.held = held, !.fresh = Current(clusterLog)]

\* performNodeStep, when what it reads could be read.
PerformNodeStep(n, s) ==
  \/ s = "Checking" /\ Write(n, IF Found(n) THEN "Adopting" ELSE "AwaitingSlot")
  \/ s = "AwaitingSlot" /\ AwaitSlot(n)
  \/ s = "Posting" /\ Post(n)
  \/ s = "Resolving" /\ Found(n) /\ Write(n, "uuid")
  \/ s = "Resolving" /\ ~Found(n) /\ Cached(clusterLog).tasks /\ End
  \/ s = "Resolving" /\ ~Found(n) /\ ~Cached(clusterLog).tasks /\ Write(n, "Posting")
  \/ s = "AwaitingWorker" /\ (IF On[n] \in away THEN End ELSE Write(n, "Checking"))
  \/ s = "Adopting" /\ (IF Found(n) THEN Write(n, "uuid") ELSE End)

\* provision: the first step, the worker's absence, the deadline, then the step.
Provision(n, v) ==
  LET diverts == v.step \in {"Posting", "Resolving"} /\ On[n] \in away IN
  \/ v.step = "" /\ Write(n, "Checking")
  \/ diverts /\ Write(n, "AwaitingWorker")
  \/ v.step # "" /\ ~diverts /\ v.late /\ Release(n, "fail")
  \/ v.step # "" /\ ~diverts /\ ~v.late /\ PerformNodeStep(n, v.step)

\* The pass that raises a maintenance window for a cordoned worker ends there
\* (raiseMaintenance); syncStatus writes what the control plane reports, or sends
\* the node back to the beginning.
SyncStatus(n) ==
  \/ On[n] \in away /\ End
  \/ Write(n, IF Found(n) THEN "status" ELSE "lost")

\* teardown: a node without a UUID gives its slot up first, one with a UUID is
\* held until the removal it raised has succeeded.
Teardown(n, v) ==
  \/ ~v.uuid /\ pass' = [Start(n, "release") EXCEPT !.obj = v, !.then = "drop"]
  \/ v.uuid /\ pass' = [Start(n, "drop") EXCEPT !.obj = v]
  \/ v.uuid /\ End

\* What a pass reads, and the branch it takes.
Reconcile(n) ==
  /\ At("idle") /\ (NodePrompt => Current(nodeLog[n]))
  /\ LET v == Cached(nodeLog[n]) IN
     /\ v.exists
     /\ \/ v.deleted /\ Teardown(n, v)
        \/ ~v.deleted /\ ~v.uuid /\ Provision(n, v)
        \/ ~v.deleted /\ v.uuid /\ SyncStatus(n)
  /\ UNCHANGED <<api, backend, world>>

-------------------------------------------------------------------------------
(* The writes of a pass.                                                   *)

\* Seeded fault: the list is patched without the resourceVersion it was read at.
TakeLandsAlways == TRUE

\* writeSlots: the patch lands on the version of the cluster that was read.
TakeLands == pass.fresh

\* takeSlot: the slots that were counted, and this node's.
TakeSlot ==
  /\ At("take")
  /\ IF TakeLands
       THEN /\ clusterLog' = Written(clusterLog,
                 [Stored(clusterLog) EXCEPT !.slots = pass.held \cup {pass.node}])
            /\ Write(pass.node, "Posting")
       ELSE End /\ UNCHANGED clusterLog
  /\ UNCHANGED <<nodeLog, backend, world>>

\* postNode: the add.  Without an answer, or when the answer's task cannot be
\* recorded, the node stays in Posting.
PostNode ==
  /\ At("post")
  /\ LET asked == [adds EXCEPT ![On[pass.node]] = IF @ < MaxAdds THEN @ + 1 ELSE @] IN
     \/ adds' = asked /\ Write(pass.node, "Resolving") /\ UNCHANGED faults
     \/ Fault("answer") /\ adds' \in {asked, adds} /\ End
  /\ UNCHANGED <<api, made, seen, away>>

\* What the mutation `do` makes of the node: recordStep, resolveUUID, the two
\* writes of syncStatus, fail.
Mutate(v, do, reading) ==
  CASE do \in Steps -> [v EXCEPT !.step = do, !.late = FALSE, !.failed = FALSE]
    [] do = "uuid" -> [v EXCEPT !.step = "", !.late = FALSE, !.failed = FALSE,
                                !.uuid = TRUE, !.creating = reading = "in_creation"]
    [] do = "status" -> [v EXCEPT !.failed = FALSE, !.creating = reading = "in_creation"]
    [] do = "lost" -> [v EXCEPT !.failed = FALSE, !.uuid = FALSE, !.creating = FALSE]
    [] do = "fail" -> [v EXCEPT !.failed = TRUE]

\* Seeded fault: the status is patched without the resourceVersion it was read at.
StatusLandsAlways(log) == TRUE

\* The status patch lands on the version it was computed from.
StatusLands(log) == Current(log)

\* writeStatus: the mutation is applied to what the cache holds.  It is patched
\* when it changes something, and the patch lands when the cache holds the stored
\* version; otherwise the retries run out.
WriteStatus ==
  /\ At("write")
  /\ LET log == nodeLog[pass.node]
         v == Mutate(Cached(log), pass.do, pass.reading)
         same == v = Cached(log)
     IN \/ /\ Cached(log).exists /\ (same \/ StatusLands(log))
           /\ nodeLog' = IF same THEN nodeLog
                         ELSE [nodeLog EXCEPT ![pass.node] = Written(log, v)]
           /\ IF pass.do = "status" /\ addFinished(v) THEN Release(pass.node, "end") ELSE End
        \/ /\ ~Cached(log).exists \/ (~same /\ ~StatusLands(log))
           /\ End /\ UNCHANGED nodeLog
  /\ UNCHANGED <<clusterLog, backend, world>>

\* Seeded fault: the whole list is cleared.
ReleasedAll(slots, n) == {}

\* releaseSlot removes the entry of this node and no other.
Released(slots, n) == slots \ {n}

\* releaseSlot: on the cached cluster, retried until the retries run out; fail
\* goes on to its write either way.
ReleaseSlot ==
  /\ At("release")
  /\ LET c == Cached(clusterLog)
         kept == Released(c.slots, pass.node)
         go == CASE pass.then = "fail" -> Write(pass.node, "fail")
                 [] pass.then = "drop" -> pass' = [pass EXCEPT !.pc = "drop"]
                 [] pass.then = "end" -> End
     IN \/ kept = c.slots /\ go /\ UNCHANGED clusterLog
        \/ /\ kept # c.slots /\ Current(clusterLog)
           /\ clusterLog' = Written(clusterLog, [c EXCEPT !.slots = kept])
           /\ go
        \/ /\ kept # c.slots /\ ~Current(clusterLog) /\ UNCHANGED clusterLog
           /\ IF pass.then = "fail" THEN go ELSE End
  /\ UNCHANGED <<nodeLog, backend, world>>

\* The finalizer goes, and the object with it.
DropFinalizer ==
  /\ At("drop")
  /\ LET log == nodeLog[pass.node] IN
     nodeLog' = IF pass.obj = Stored(log)
                THEN [nodeLog EXCEPT ![pass.node] =
                        Written(log, [NewNode EXCEPT !.exists = FALSE])]
                ELSE nodeLog
  /\ End
  /\ UNCHANGED <<clusterLog, backend, world>>

-------------------------------------------------------------------------------
(* Caches, clock, workers, control plane.                                  *)

Quiet == /\ Current(clusterLog) /\ At("idle")
         /\ \A n \in Nodes : Current(nodeLog[n])

DeliverNode(n) ==
  /\ Len(nodeLog[n]) > 1
  /\ nodeLog' = [nodeLog EXCEPT ![n] = Delivered(@)]
  /\ UNCHANGED <<clusterLog, pass, backend, world>>

DeliverCluster ==
  /\ Len(clusterLog) > 1
  /\ clusterLog' = Delivered(clusterLog)
  /\ UNCHANGED <<nodeLog, pass, backend, world>>

\* The StorageCluster controller mirrors the control plane's tasks.
Mirror ==
  LET tasks == \E w \in Workers : adds[w] > 0 IN
  /\ tasks # Stored(clusterLog).tasks /\ Room(clusterLog, MaxLag)
  /\ clusterLog' = Written(clusterLog, [Stored(clusterLog) EXCEPT !.tasks = tasks])
  /\ pass' = [pass EXCEPT !.fresh = FALSE]
  /\ UNCHANGED <<nodeLog, backend, world>>

DeadlinePasses(n, s) ==
  /\ s \in Late /\ Quiet
  /\ LET v == Stored(nodeLog[n]) IN
     /\ v.step = s /\ ~v.late
     /\ nodeLog' = [nodeLog EXCEPT ![n] = <<[v EXCEPT !.late = TRUE]>>]
  /\ UNCHANGED <<clusterLog, pass, backend, world>>

Delete(n) ==
  LET v == Stored(nodeLog[n]) IN
  /\ v.exists /\ ~v.deleted /\ Room(nodeLog[n], MaxLag) /\ Fault("delete")
  /\ nodeLog' = [nodeLog EXCEPT ![n] = Written(@, [v EXCEPT !.deleted = TRUE])]
  /\ UNCHANGED <<clusterLog, pass, backend, away>>

\* The operator dies and another one starts; that its first list may be more
\* recent than the old caches is a sequence of deliveries.
Crash ==
  /\ ~At("idle") /\ Fault("crash")
  /\ pass' = Idle
  /\ UNCHANGED <<api, backend, away>>

\* A worker is cordoned or goes down, and comes back; both wake its nodes (nodesOn).
Leave(w) ==
  /\ w \notin away /\ Fault("leave")
  /\ away' = away \cup {w}
  /\ UNCHANGED <<api, pass, backend>>

Return(w) ==
  /\ w \in away /\ Quiet
  /\ away' = away \ {w}
  /\ UNCHANGED <<api, pass, backend, faults>>

\* The control plane works on the adds it has: it writes the worker's nodes when
\* it begins, and the add ends with them or without.
CpBegin(w) ==
  /\ adds[w] > 0 /\ made[w] = "none"
  /\ made' = [made EXCEPT ![w] = "in_creation"]
  /\ UNCHANGED <<api, pass, adds, seen, world>>

CpEnd(w) ==
  /\ adds[w] > 0 /\ made[w] # "none"
  /\ made' = [made EXCEPT ![w] = "created"]
  /\ adds' = [adds EXCEPT ![w] = @ - 1]
  /\ UNCHANGED <<api, pass, seen, world>>

CpGiveUp(w) ==
  /\ adds[w] > 0 /\ made[w] # "created"
  /\ made' = [made EXCEPT ![w] = "none"]
  /\ adds' = [adds EXCEPT ![w] = @ - 1]
  /\ IF AddsFail THEN UNCHANGED faults ELSE Fault("add")
  /\ UNCHANGED <<api, pass, seen, away>>

\* The backend is reset: the nodes a worker has in service, their slots given
\* back, are gone.
Reset(w) ==
  /\ made[w] = "created" /\ adds[w] = 0 /\ Quiet /\ Fault("reset")
  /\ \A n \in Nodes : On[n] = w => /\ addFinished(Stored(nodeLog[n]))
                                  /\ n \notin Stored(clusterLog).slots
  /\ made' = [made EXCEPT ![w] = "none"]
  /\ UNCHANGED <<api, pass, adds, seen, away>>

Stream(w) ==
  /\ seen[w] # made[w]
  /\ seen' = [seen EXCEPT ![w] = made[w]]
  /\ UNCHANGED <<api, pass, adds, made, world>>

-------------------------------------------------------------------------------
Init ==
  /\ nodeLog = [n \in Nodes |-> <<NewNode>>]
  /\ clusterLog = <<[slots |-> {}, tasks |-> FALSE]>>
  /\ pass = Idle
  /\ adds = [w \in Workers |-> 0]
  /\ made = [w \in Workers |-> "none"] /\ seen = made
  /\ away = {} /\ faults = 0

PassStep ==
  TakeSlot \/ PostNode \/ WriteStatus \/ ReleaseSlot \/ DropFinalizer

WorkerStep(w) ==
  \/ Return(w) \/ CpBegin(w) \/ CpEnd(w) \/ Stream(w)

Next ==
  \/ PassStep \/ DeliverCluster \/ Mirror \/ Crash
  \/ \E n \in Nodes : Reconcile(n) \/ DeliverNode(n) \/ Delete(n)
  \/ \E n \in Nodes, s \in Steps : DeadlinePasses(n, s)
  \/ \E w \in Workers : WorkerStep(w) \/ Leave(w) \/ CpGiveUp(w) \/ Reset(w)

Spec == Init /\ [][Next]_vars

\* The node is in step s, within its deadline.
InTime(n, s) == LET v == Stored(nodeLog[n]) IN v.step = s /\ ~v.late

\* Queued nodes get their pass, passes run on, watch events and the stream arrive,
\* the mirror follows, workers come back, adds end, and a step that is not left
\* outlives its deadline.  Failing in the queue is not being served, so the
\* deadline of AwaitingSlot may pass but is not counted on.
Fairness ==
  /\ WF_vars(PassStep) /\ WF_vars(DeliverCluster) /\ WF_vars(Mirror)
  /\ \A n \in Nodes : SF_vars(Reconcile(n)) /\ WF_vars(DeliverNode(n))
  /\ \A n \in Nodes, s \in Late \ {"AwaitingSlot"} : []<>~InTime(n, s)
  /\ \A w \in Workers : /\ WF_vars(CpBegin(w) \/ CpEnd(w) \/ CpGiveUp(w))
                        /\ WF_vars(Stream(w)) /\ SF_vars(Return(w))

FairSpec == Spec /\ Fairness

-------------------------------------------------------------------------------
(* Properties.                                                             *)

Node(n) == Stored(nodeLog[n])
Slots == Stored(clusterLog).slots

\* Every variable has its type, and no object is further ahead of its cache than
\* the patches' resourceVersion lets it get.
TypeOK ==
  /\ nodeLog \in [Nodes -> Seq(NodeObj)]
  /\ \A n \in Nodes : Len(nodeLog[n]) \in 1..(MaxLag + 1)
  /\ clusterLog \in Seq(ClusterObj) /\ Len(clusterLog) \in 1..(MaxLag + 1)
  /\ pass \in PassObj
  /\ ~At("idle") => pass.node \in Nodes
  /\ adds \in [Workers -> 0..MaxAdds]
  /\ made \in [Workers -> Made] /\ seen \in [Workers -> Made]
  /\ away \subseteq Workers /\ faults \in 0..MaxFaults

\* A node that has claimed its worker and whose add is not over, within its time:
\* it asks for the add, waits for it or for its worker, adopts what the control
\* plane has, or has its UUID while the control plane is still creating it.
InAdd(v) ==
  /\ claimedWorker(v) /\ ~(v.uuid /\ ~v.creating)
  /\ ~v.deleted /\ ~v.failed /\ ~v.late

Adding == {n \in Nodes : InAdd(Node(n))}

\* No more workers are being added at once than the cap allows, and never two that
\* host FoundationDB, whatever the caches show of the slots and of their holders;
\* an add counts until the control plane has finished the creation, not only until
\* the UUID is there (awaitSlot, takeSlot, heldSlots, addFinished).
CapHolds ==
  LET busy == {On[n] : n \in Adding} IN
  Cardinality(busy) <= Limit /\ Cardinality(busy \cap FDB) <= 1

\* An add is only asked for under a slot the API server has on record for its
\* worker: no release and no reaping takes it away underneath (postNode, releaseSlot).
PostUnderSlot == At("post") => \E m \in Slots : On[m] = On[pass.node]

Waiting(n) == LET v == Node(n) IN
  v.exists /\ ~v.deleted /\ ~v.failed /\ ~v.uuid /\ v.step = "AwaitingSlot"

\* A node in the queue is served: nobody keeps a slot it is done with, the ones
\* whose release was lost included (heldSlots), and whoever is ahead in the line
\* is served or leaves it (rankContenders).
LineMoves == \A n \in Nodes : Waiting(n) ~> ~Waiting(n)
===============================================================================
