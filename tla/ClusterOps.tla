------------------------------- MODULE ClusterOps -------------------------------
(***************************************************************************)
(* The StorageClusterOps controller of one StorageCluster:                 *)
(*   operator/internal/controllers/cluster/storageclusterops_controller.go *)
(*   operator/internal/controllers/cluster/rollingrestart.go, actions.go,  *)
(*   activation.go, graphs.go                                              *)
(*                                                                         *)
(* An operation takes the cluster's status.activeOpsRef and runs its       *)
(* action: one call and a wait, a shutdown and a start, or the rolling     *)
(* restart, which walks every node of the cluster and takes one at a time  *)
(* down and up again.  One worker runs one reconcile pass at a time;       *)
(* operations and the cluster object are read through caches that lag      *)
(* (module Informer), and what the control plane says of the cluster and   *)
(* of its nodes through streams that deliver late and coalesce.            *)
(***************************************************************************)
EXTENDS Informer, FiniteSets

CONSTANTS
  Ops,          \* the StorageClusterOps objects naming this cluster
  NoOp,         \* the empty status.activeOpsRef
  Nodes,        \* the storage nodes of the cluster
  MaxLag,       \* bound: undelivered versions per object
  MaxCrashes,   \* bound: operator restarts
  MaxActivates, \* bound: activations asked for
  Envs          \* the environments to check

Actions == {"Activate", "Expand", "Shutdown", "Start", "CancelTask", "Restart",
            "RollingRestart"}

\* What an environment may do: the user's abort and delete, other writers of the
\* cluster object and its disappearance, a role swap to the follower site, a cluster
\* no action can address, passing deadlines and budgets, calls whose outcome is lost,
\* message writes, restarts, node faults (all of them early: before the operations
\* begin), node removals, failing activations, pods that are refreshed, and caches that
\* lag when they are read: of operations, of the cluster object, of the cluster's stream
\* and of the nodes' stream.
EnvKinds == {"abort", "delete", "touch", "gone", "follower", "fatal", "late", "lost",
             "message", "crash", "fault", "early", "remove", "revert", "refresh",
             "opslag", "lag", "clusterstream", "nodestream"}

\* The statuses of a cluster at rest and in all, and of a node; a leaving node is in any
\* step of its removal, and a removed one is listed until the control plane forgets it.
RestStatuses == {"active", "suspended", "unready"}
ClusterStatuses == RestStatuses \cup {"in_activation"}
NodeStatuses == {"online", "in_shutdown", "offline", "in_restart",
                 "leaving", "removed", "unlisted"}

ASSUME ClusterOpsAssumption ==
  /\ NoOp \notin Ops
  /\ IsFiniteSet(Nodes)
  /\ MaxLag \in Nat \ {0} /\ MaxCrashes \in Nat /\ MaxActivates \in Nat
  /\ \A e \in Envs : /\ e.does \subseteq EnvKinds /\ e.start \in RestStatuses
                     /\ DOMAIN e.acts \subseteq Ops
                     /\ \A o \in DOMAIN e.acts : e.acts[o] \in Actions

VARIABLES
  env,        \* the environment of this behaviour, fixed from the start
  opsLog,     \* [Ops -> log of operation objects]
  clusterLog, \* log of the StorageCluster's lock
  queue,      \* operations with a reconcile request waiting
  pass,       \* the reconcile pass the worker is running
  cl,         \* the cluster in the control plane
  clJob,      \* the cluster-wide work the control plane accepted and has not done
  attempts,   \* activations the control plane accepted and has not ended
  nodes,      \* [Nodes -> status] in the control plane
  nodeJob,    \* [Nodes -> work accepted and not begun]
  pods,       \* [Nodes -> the node's storage-node pod]
  clSeen,     \* the cluster in the stream's cache
  seen,       \* [Nodes -> status in the stream's cache]
  down,       \* history: nodes a walk asked to shut down, not online or leaving since
  cycled,     \* history: nodes that came online again
  asked,      \* history: activations asked for
  crashes     \* operator restarts so far

cpVars == <<cl, clJob, attempts, nodes, nodeJob, pods>>
streams == <<clSeen, seen>>
history == <<down, cycled, asked, crashes>>
moving == <<opsLog, clusterLog, queue, pass, cpVars, streams, history>>
vars == <<env, moving>>

May(what) == what \in env.does

-------------------------------------------------------------------------------
(* The API objects.                                                        *)

Phases == {"", "Pending", "Running", "Succeeded", "Failed", "Aborted"}
WorkSteps == {"Requesting", "Awaiting", "ShuttingDown", "Starting", "CheckingPeers",
              "ShuttingDownNode", "RefreshingPod", "AwaitingPod", "RestartingNode",
              "Rebalancing"}
Steps == WorkSteps \cup {"", "Completed"}
Leases == {"none", "live", "expired"}

\* The orders a set of nodes can be listed in: the stream's cache is a Go map.
Orders(S) == {p \in [1..Cardinality(S) -> S] : \A i, j \in DOMAIN p : p[i] = p[j] => i = j}
Plans == UNION {Orders(S) : S \in SUBSET Nodes}

\* status.rollingRestart is absent while index is 0, and points at plan[index] after.
OpsObj == [exists : BOOLEAN, finalizer : BOOLEAN, deleted : BOOLEAN,
           abort : BOOLEAN, phase : Phases, step : Steps, claim : Leases,
           late : BOOLEAN, settled : BOOLEAN,
           plan : Plans, index : 0..(Cardinality(Nodes) + 1), skipped : SUBSET Nodes]

NewOp == [exists |-> TRUE, finalizer |-> FALSE, deleted |-> FALSE,
          abort |-> FALSE, phase |-> "", step |-> "", claim |-> "none",
          late |-> FALSE, settled |-> FALSE,
          plan |-> <<>>, index |-> 0, skipped |-> {}]

ClusterObj == [lock : Ops \cup {NoOp}, exists : BOOLEAN]

Terminal(phase) == phase \in {"Succeeded", "Failed", "Aborted"}
Action == env.acts
Op(o) == Stored(opsLog[o])

InitialStep(a) ==
  CASE a = "RollingRestart" -> "CheckingPeers"
    [] a = "Restart" -> "ShuttingDown"
    [] OTHER -> "Requesting"

\* Seeded fault: the step a wait is in renamed in the graph and not in the API.
NextStepRenamed(s) ==
  CASE s = "Requesting"       -> "Waiting"
    [] s = "ShuttingDown"     -> "Starting"
    [] s = "CheckingPeers"    -> "ShuttingDownNode"
    [] s = "ShuttingDownNode" -> IF May("refresh") THEN "RefreshingPod" ELSE "RestartingNode"
    [] s = "RefreshingPod"    -> "AwaitingPod"
    [] s = "AwaitingPod"      -> "RestartingNode"
    [] s = "RestartingNode"   -> "Rebalancing"

\* The graphs are lines but for the branch on refreshSNodeAPI.
NextStep(s) ==
  CASE s = "Requesting"       -> "Awaiting"
    [] s = "ShuttingDown"     -> "Starting"
    [] s = "CheckingPeers"    -> "ShuttingDownNode"
    [] s = "ShuttingDownNode" -> IF May("refresh") THEN "RefreshingPod" ELSE "RestartingNode"
    [] s = "RefreshingPod"    -> "AwaitingPod"
    [] s = "AwaitingPod"      -> "RestartingNode"
    [] s = "RestartingNode"   -> "Rebalancing"

\* Seeded fault: a shutdown of a node that can be aborted.
AbortableDown(s) ==
  s \in {"Requesting", "CheckingPeers", "ShuttingDownNode", "Rebalancing"}

\* The steps an abort, a role swap and the DELETE guard let an operation end at.
Abortable(s) == s \in {"Requesting", "CheckingPeers", "Rebalancing"}
Deletable(v) == Terminal(v.phase) \/ Abortable(v.step) \/ v.step = ""

-------------------------------------------------------------------------------
(* Pieces of a pass.                                                       *)

Idle == [pc |-> "idle", op |-> NoOp, obj |-> NewOp, fresh |-> FALSE,
         do |-> "", arg |-> "", list |-> <<>>, then |-> ""]

PassObj ==
  [pc : {"idle", "finalizer", "lock", "step", "walk", "claim", "call", "write",
         "release", "drop"},
   op : Ops \cup {NoOp}, obj : OpsObj, fresh : BOOLEAN,
   do : {"", "run", "hold", "note", "record", "plan", "next", "walked", "retry", "finish"},
   arg : Steps \cup Phases \cup {"skip"},
   list : Plans,
   then : {"", "end", "drop", "step", "walk", "requeue", "release", "refuse", "retry",
           "succeed"}]

At(pc) == pass.pc = pc

End(requeue) ==
  /\ pass' = Idle
  /\ queue' = IF requeue THEN queue \cup {pass.op} ELSE queue

Goto(pc) == pass' = [pass EXCEPT !.pc = pc] /\ UNCHANGED queue

WriteThen(do, arg, then) ==
  /\ pass' = [pass EXCEPT !.pc = "write", !.do = do, !.arg = arg, !.then = then]
  /\ UNCHANGED queue

\* enterStep and enterInitialStep: the step and its deadline in one patch.
Record(s) == WriteThen("record", s, "requeue")
Finish(ph) == WriteThen("finish", ph, "release")

\* A message write: patched when the message changed, nothing when it did not.
Say(do) ==
  \/ /\ May("message") \/ (do = "hold" /\ pass.obj.phase = "")
     /\ WriteThen(do, "", "requeue")
  \/ ~(do = "hold" /\ pass.obj.phase = "") /\ End(TRUE)

Land(v) ==
  /\ Room(opsLog[pass.op], MaxLag)
  /\ opsLog' = [opsLog EXCEPT ![pass.op] = Written(@, v)]

\* The object w with the status of v.
WithStatus(w, v) ==
  [v EXCEPT !.exists = w.exists, !.finalizer = w.finalizer, !.deleted = w.deleted,
            !.abort = w.abort]

Disturb(o) ==
  pass' = IF pass.op = o THEN [pass EXCEPT !.fresh = FALSE] ELSE pass

MayReadCluster == May("lag") \/ Current(clusterLog)

-------------------------------------------------------------------------------
(* Reconcile, up to the lock.                                              *)

\* The read that begins a pass: teardown, the finalizer, the second release of an
\* operation that ended, or the lock.
Reconcile(o) ==
  /\ At("idle") /\ o \in queue
  /\ May("opslag") \/ Current(opsLog[o])
  /\ LET v == Cached(opsLog[o]) IN
     /\ queue' = queue \ {o}
     /\ IF ~v.exists \/ (v.deleted /\ ~v.finalizer)
          THEN UNCHANGED pass
          ELSE pass' = [Idle EXCEPT !.op = o, !.obj = v, !.fresh = Current(opsLog[o]),
                 !.then = IF v.deleted THEN "drop" ELSE "end",
                 !.pc = IF v.deleted THEN "release"
                        ELSE IF ~v.finalizer THEN "finalizer"
                        ELSE IF Terminal(v.phase) THEN "release" ELSE "lock"]
  /\ UNCHANGED <<opsLog, clusterLog, cpVars, streams, history>>

AddFinalizer ==
  /\ At("finalizer")
  /\ \/ pass.fresh /\ Land([pass.obj EXCEPT !.finalizer = TRUE]) /\ End(FALSE)
     \/ ~pass.fresh /\ End(TRUE) /\ UNCHANGED opsLog
  /\ UNCHANGED <<clusterLog, cpVars, streams, history>>

\* MergeFromWithOptimisticLock: the patch lands on the version that was read.
PatchLands == Current(clusterLog)

\* acquireLock: the cached cluster, patched conditionally.
AcquireLock ==
  /\ At("lock") /\ MayReadCluster
  /\ LET c == Cached(clusterLog)
         o == pass.op
         go == IF pass.obj.phase \in {"", "Pending"}
                 THEN WriteThen("run", "", "step") ELSE Goto("step")
     IN \/ /\ ~c.exists
           /\ WriteThen("finish", "Failed", "refuse") /\ UNCHANGED clusterLog
        \/ /\ c.exists /\ c.lock \notin {o, NoOp}
           /\ Say("hold") /\ UNCHANGED clusterLog
        \/ /\ c.exists /\ c.lock = o
           /\ go /\ UNCHANGED clusterLog
        \/ /\ c.exists /\ c.lock = NoOp
           /\ IF PatchLands
                THEN /\ Room(clusterLog, MaxLag)
                     /\ clusterLog' = Written(clusterLog, [c EXCEPT !.lock = o]) /\ go
                ELSE End(TRUE) /\ UNCHANGED clusterLog
  /\ UNCHANGED <<opsLog, cpVars, streams, history>>

-------------------------------------------------------------------------------
(* perform: the actions on the cluster as a whole.                         *)

\* Seeded fault: a status an activation starts from read as a lost attempt at once.
LostAttemptAtOnce(v) == clSeen.status \in {"unready", "suspended"}

\* awaitActivation: the attempt is over and the cluster is back where it started,
\* once the readings have had time to settle.
LostAttempt(v) == clSeen.status \in {"unready", "suspended"} /\ v.settled

\* request: the call is skipped on a cluster that is where it would put it.  An Activate is
\* also held while its failure domains or stripe nodes are not ready; a held pass changes
\* nothing but the message, and is the one Perform has for a reading that fails.
Request ==
  LET a == Action[pass.op]
      skips == CASE a = "Activate"   -> clSeen.status \in {"active", "in_activation"}
                 [] a = "Expand"     -> FALSE
                 [] a = "Shutdown"   -> clSeen.status # "active"
                 [] a = "Start"      -> clSeen.status = "active"
                 [] a = "CancelTask" -> ~clSeen.task
  IN IF skips THEN Record(NextStep("Requesting")) ELSE Goto("claim")

\* await, with the answer to a lost activation: asked again within the retry budget.
Await ==
  LET a == Action[pass.op]
      done == CASE a = "Shutdown"   -> clSeen.status # "active"
                [] a = "CancelTask" -> ~clSeen.task
                [] OTHER            -> clSeen.status = "active"
  IN \/ done /\ Finish("Succeeded")
     \/ /\ ~done /\ a = "Activate" /\ LostAttempt(pass.obj)
        /\ \/ WriteThen("retry", "Requesting", "requeue")
           \/ May("late") /\ Finish("Failed")
     \/ ~done /\ ~(a = "Activate" /\ LostAttempt(pass.obj)) /\ Say("note")

\* shutDownCluster and startCluster, the two halves of a Restart.
Restart(s) ==
  \/ s = "ShuttingDown" /\ clSeen.status # "active" /\ Record(NextStep(s))
  \/ s = "Starting" /\ clSeen.status = "active" /\ Finish("Succeeded")
  \/ (s = "ShuttingDown") = (clSeen.status = "active") /\ Goto("claim")

-------------------------------------------------------------------------------
(* perform: the walk of a rolling restart.                                 *)

Leaving(status) == status \in {"leaving", "removed", "unlisted"}

\* planWalk lists and orders the nodes once.
Planned(v) == v.index > 0

PlanWalk ==
  \E list \in Orders({n \in Nodes : ~Leaving(seen[n])}) :
    /\ pass' = [pass EXCEPT !.pc = "write", !.do = "plan", !.arg = pass.obj.step,
                            !.list = list, !.then = "walk"]
    /\ UNCHANGED queue

\* Seeded fault: the walk goes on whatever its peers are.
CheckPeersNever(n) == TRUE

\* checkPeers: every other node the stream lists is online, removed ones aside.
CheckPeers(n) == \A m \in Nodes \ {n} : seen[m] \in {"online", "removed", "unlisted"}

\* Seeded fault: the walk goes on while the cluster redistributes.
RebalancedAlways == TRUE

\* awaitRebalance, from the cluster's stream.
Rebalanced == ~clSeen.rebal

\* advanceWalk: the index moves, and the step goes back to the first with it; past
\* the last node the operation ends.
AdvanceWalk(skip) ==
  IF pass.obj.index + 1 > Len(pass.obj.plan)
    THEN WriteThen("walked", skip, "succeed")
    ELSE WriteThen("next", skip, "requeue")

\* The step is done, or the pass waits.
DoneWhen(cond, s) == IF cond THEN Record(NextStep(s)) ELSE Say("note")

\* performNodeStep, once the walk is planned.  The step is the one the pass began
\* with, whatever the write of the plan found.
WalkStep ==
  /\ At("walk")
  /\ LET v == pass.obj
         s == pass.arg
         n == v.plan[v.index]
     IN IF v.index > Len(v.plan) THEN Record(NextStep(s)) /\ UNCHANGED pods
        ELSE IF Leaving(seen[n]) THEN AdvanceWalk("skip") /\ UNCHANGED pods
        ELSE \/ /\ s = "CheckingPeers"
                /\ DoneWhen(CheckPeers(n), s) /\ UNCHANGED pods
             \/ /\ s = "ShuttingDownNode"
                /\ IF seen[n] = "online" THEN Goto("claim")
                   ELSE DoneWhen(seen[n] \in {"offline", "in_restart"}, s)
                /\ UNCHANGED pods
             \/ /\ s = "RefreshingPod"
                /\ pods' = [pods EXCEPT ![n] = IF @ = "old" THEN "going" ELSE @]
                /\ DoneWhen(pods[n] \in {"none", "new", "ready"}, s)
             \/ /\ s = "AwaitingPod"
                /\ DoneWhen(pods[n] = "ready", s) /\ UNCHANGED pods
             \/ /\ s = "RestartingNode"
                /\ IF seen[n] \in {"offline", "in_shutdown"} THEN Goto("claim")
                   ELSE DoneWhen(seen[n] = "online", s)
                /\ UNCHANGED pods
             \/ /\ s = "Rebalancing"
                /\ IF Rebalanced THEN AdvanceWalk("") ELSE Say("note")
                /\ UNCHANGED pods
  /\ UNCHANGED <<opsLog, clusterLog, cl, clJob, attempts, nodes, nodeJob, streams, history>>

-------------------------------------------------------------------------------
(* advance.                                                                *)

Perform ==
  LET s == pass.obj.step IN
  IF May("fatal") THEN Finish("Failed")
  ELSE \/ s = "Requesting" /\ Request
       \/ s = "Awaiting" /\ Await
       \/ s \in {"ShuttingDown", "Starting"} /\ Restart(s)
       \/ /\ Action[pass.op] = "RollingRestart" /\ Planned(pass.obj)
          /\ pass' = [pass EXCEPT !.pc = "walk", !.arg = s] /\ UNCHANGED queue
       \/ Action[pass.op] = "RollingRestart" /\ ~Planned(pass.obj) /\ PlanWalk
       \/ May("lost") /\ Say("note")

WalkFinished(v) == v.index > 0 /\ v.index > Len(v.plan)

\* Machine.TimeoutReached on the restored step.
TimeoutReached(v) == v.late

\* advance: initial step, role swap, abort, deadline, a walk at its end, the step.
Advance ==
  /\ At("step")
  /\ LET v == pass.obj  a == Action[pass.op] IN
     \/ v.step = "" /\ Record(InitialStep(a))
     \/ /\ v.step # "" /\ Abortable(v.step) /\ May("follower") /\ a # "CancelTask"
        /\ Finish("Failed")
     \/ /\ v.step # "" /\ Abortable(v.step) /\ v.abort
        /\ Finish("Aborted")
     \/ /\ v.step # "" /\ ~(v.abort /\ Abortable(v.step))
        /\ IF TimeoutReached(v) THEN Finish("Failed")
           ELSE IF a = "RollingRestart" /\ WalkFinished(v) THEN Finish("Succeeded")
           ELSE Perform
  /\ UNCHANGED <<opsLog, clusterLog, cpVars, streams, history>>

\* once: the claim's patch, skipped on a live claim, refused on a stale copy.
Claim ==
  /\ At("claim")
  /\ \/ /\ pass.obj.claim = "live" \/ ~pass.fresh
        /\ Say("note") /\ UNCHANGED opsLog
     \/ /\ pass.obj.claim # "live" /\ pass.fresh
        /\ LET v == [Op(pass.op) EXCEPT !.claim = "live"] IN
           Land(v) /\ pass' = [pass EXCEPT !.obj = v, !.pc = "call"]
        /\ UNCHANGED queue
  /\ UNCHANGED <<clusterLog, cpVars, streams, history>>

\* A call on the cluster.  The control plane runs activations side by side.
ClusterCall ==
  LET s == pass.obj.step  a == Action[pass.op] IN
  /\ CASE s = "Requesting" /\ a = "Activate" ->
            /\ asked < MaxActivates
            /\ attempts' = attempts + 1 /\ asked' = asked + 1
            /\ UNCHANGED <<cl, clJob>>
       [] s = "Requesting" /\ a = "CancelTask" ->
            cl' = [cl EXCEPT !.task = FALSE] /\ UNCHANGED <<clJob, attempts, asked>>
       [] s = "Requesting" /\ a = "Expand" -> UNCHANGED <<cl, clJob, attempts, asked>>
       [] OTHER ->
            /\ clJob' = IF s = "ShuttingDown" \/ (s = "Requesting" /\ a = "Shutdown")
                          THEN "stop" ELSE "start"
            /\ UNCHANGED <<cl, attempts, asked>>
  /\ UNCHANGED <<nodeJob, down>>

\* A call on the node the walk is at.
NodeCall ==
  LET n == pass.obj.plan[pass.obj.index] IN
  /\ IF pass.obj.step = "ShuttingDownNode"
       THEN /\ nodeJob' = [nodeJob EXCEPT ![n] = IF nodes[n] = "online" THEN "stop" ELSE @]
            /\ down' = IF nodes[n] = "online" THEN down \cup {n} ELSE down
       ELSE /\ nodeJob' = [nodeJob EXCEPT ![n] = IF nodes[n] = "offline" THEN "start" ELSE @]
            /\ UNCHANGED down
  /\ UNCHANGED <<cl, clJob, attempts, asked>>

\* The control-plane call of the step: what it did, and what the pass knows of it.
\* A request that was answered moves the operation on; every other call waits.
Call ==
  /\ At("call")
  /\ \/ /\ IF Action[pass.op] = "RollingRestart" THEN NodeCall ELSE ClusterCall
        /\ IF pass.obj.step = "Requesting" THEN Record(NextStep("Requesting")) ELSE Say("note")
     \/ /\ May("lost") /\ Say("note")
        /\ \/ IF Action[pass.op] = "RollingRestart" THEN NodeCall ELSE ClusterCall
           \/ UNCHANGED <<cl, clJob, attempts, nodeJob, down, asked>>
  /\ UNCHANGED <<opsLog, clusterLog, nodes, pods, streams, cycled, crashes>>

-------------------------------------------------------------------------------
(* writeStatus, releaseLock, teardown.                                     *)

\* Seeded fault: the index moved relative to whatever version the write lands on.
MovedRelative(v, read) == v.index + 1

\* The index advanceWalk writes: one past the node this pass finished.
Moved(v, read) == read.index + 1

\* What the mutation `do` makes of the version v; `read` is the object the pass holds.
Mutate(v, do, arg, read) ==
  LET entered(w, s) ==
        [w EXCEPT !.step = s, !.claim = "none", !.late = FALSE, !.settled = FALSE]
      moved == [v EXCEPT !.index = Moved(v, read),
                  !.skipped = IF arg = "skip" THEN @ \cup {read.plan[read.index]} ELSE @]
  IN CASE do = "run"    -> [v EXCEPT !.phase = "Running"]
       [] do = "hold"   -> [v EXCEPT !.phase = IF @ = "" THEN "Pending" ELSE @]
       [] do = "note"   -> v
       [] do = "record" -> [entered(v, arg) EXCEPT !.phase = "Running"]
       [] do = "plan"   -> [v EXCEPT !.plan = pass.list, !.index = 1, !.skipped = {}]
       [] do = "walked" -> moved
       [] do = "next"   -> entered(moved, "CheckingPeers")
       [] do = "retry"  -> entered(v, arg)
       [] do = "finish" -> IF arg = "Succeeded"
                             THEN [entered(v, "Completed") EXCEPT !.phase = arg]
                             ELSE [v EXCEPT !.phase = arg]

\* What follows a status write that landed.
AfterWrite(v) ==
  LET held == [pass EXCEPT !.obj = WithStatus(@, v), !.fresh = TRUE, !.do = "",
                           !.list = <<>>]
  IN CASE pass.then = "requeue" -> End(TRUE)
       [] pass.then \in {"step", "walk"} ->
            pass' = [held EXCEPT !.pc = pass.then, !.then = "end"] /\ UNCHANGED queue
       [] pass.then = "succeed" ->
            /\ pass' = [held EXCEPT !.do = "finish", !.arg = "Succeeded", !.then = "release"]
            /\ UNCHANGED queue
       [] pass.then \in {"release", "refuse"} ->
            /\ pass' = [held EXCEPT !.pc = "release",
                          !.then = IF pass.then = "refuse" THEN "retry" ELSE "end"]
            /\ UNCHANGED queue

\* writeStatus: the first attempt patches the caller's object; a conflict reads the
\* cache again and applies the same mutation to what it finds, until retries run out.
WriteStatus ==
  /\ At("write")
  /\ LET log == opsLog[pass.op]
         base == IF pass.fresh THEN pass.obj ELSE Cached(log)
         v == Mutate(base, pass.do, pass.arg, pass.obj)
     IN \/ /\ pass.fresh \/ (Current(log) /\ base.exists)
           /\ Land(WithStatus(Stored(log), v))
           /\ AfterWrite(v)
        \/ /\ ~pass.fresh /\ (Current(log) => ~base.exists)
           /\ May("opslag") \/ Current(log)
           /\ End(TRUE) /\ UNCHANGED opsLog
  /\ UNCHANGED <<clusterLog, cpVars, streams, history>>

\* Seeded fault: a release that does not check whose lock it is.
OwnedByAnybody(c, o) == c.exists

\* The ownership check of releaseLock.
Owned(c, o) == c.exists /\ c.lock = o

\* releaseLock: the cached cluster, read again after a conflict until retries run out.
ReleaseLock ==
  /\ At("release") /\ MayReadCluster
  /\ LET c == Cached(clusterLog)
         go == IF pass.then = "drop" THEN Goto("drop") ELSE End(pass.then = "retry")
     IN \/ ~Owned(c, pass.op) /\ go /\ UNCHANGED clusterLog
        \/ /\ Owned(c, pass.op) /\ Current(clusterLog) /\ Room(clusterLog, MaxLag)
           /\ clusterLog' = Written(clusterLog, [c EXCEPT !.lock = NoOp])
           /\ go
        \/ /\ Owned(c, pass.op) /\ ~Current(clusterLog)
           /\ End(TRUE) /\ UNCHANGED clusterLog
  /\ UNCHANGED <<opsLog, cpVars, streams, history>>

\* The end of teardown: the finalizer goes, and the object with it.
DropFinalizer ==
  /\ At("drop")
  /\ \/ pass.fresh /\ Land([pass.obj EXCEPT !.exists = FALSE]) /\ End(FALSE)
     \/ ~pass.fresh /\ End(TRUE) /\ UNCHANGED opsLog
  /\ UNCHANGED <<clusterLog, cpVars, streams, history>>

-------------------------------------------------------------------------------
(* Caches, clock, user, other writers.                                     *)

DeliverOp(o) ==
  /\ Len(opsLog[o]) > 1
  /\ opsLog' = [opsLog EXCEPT ![o] = Delivered(@)]
  /\ queue' = queue \cup {o}
  /\ UNCHANGED <<clusterLog, pass, cpVars, streams, history>>

\* operationsOn: an event of the cluster requeues what has not finished.
operationsOn ==
  {o \in DOMAIN Action :
     LET v == Cached(opsLog[o]) IN v.exists /\ ~Terminal(v.phase)}

DeliverCluster ==
  /\ Len(clusterLog) > 1
  /\ clusterLog' = Delivered(clusterLog)
  /\ queue' = queue \cup operationsOn
  /\ UNCHANGED <<opsLog, pass, cpVars, streams, history>>

\* Every copy of the operation, the one a pass holds included, changed by time.
InEveryCopy(o, f(_)) ==
  /\ opsLog' = [opsLog EXCEPT ![o] = [i \in 1..Len(@) |-> f(@[i])]]
  /\ pass' = IF pass.op = o THEN [pass EXCEPT !.obj = f(@)] ELSE pass
  /\ UNCHANGED <<clusterLog, queue, cpVars, streams, history>>

\* The thread of an accepted activation has written in_activation, which the control
\* plane does moments after its 202.  No clock waits for the stream to say so.
Settled == attempts > 0 => cl.status = "in_activation"

\* The claim's lease outlives the request timeout by a minute, so what became of the
\* call is settled before it ends, for any pass still about to claim.
LeaseExpires(o) ==
  LET expired(v) == IF v.claim = "live" THEN [v EXCEPT !.claim = "expired"] ELSE v IN
  /\ \E i \in 1..Len(opsLog[o]) : opsLog[o][i].claim = "live"
  /\ Settled /\ (pass.op = o => ~At("claim") /\ ~At("call"))
  /\ InEveryCopy(o, expired)

\* activationSettleGrace, 30 s, after the step was entered.
GraceOver(o) ==
  LET settled(v) == IF v.step = "Awaiting" THEN [v EXCEPT !.settled = TRUE] ELSE v IN
  /\ \E i \in 1..Len(opsLog[o]) : settled(opsLog[o][i]) # opsLog[o][i]
  /\ Action[o] = "Activate" /\ Settled
  /\ InEveryCopy(o, settled)

\* The deadline of step s passes.
DeadlinePasses(o, s) ==
  LET overdue(v) == IF v.step = s THEN [v EXCEPT !.late = TRUE] ELSE v IN
  /\ May("late")
  /\ \E i \in 1..Len(opsLog[o]) : overdue(opsLog[o][i]) # opsLog[o][i]
  /\ InEveryCopy(o, overdue)

SetAbort(o) ==
  LET v == Op(o) IN
  /\ May("abort") /\ v.exists /\ ~v.abort /\ Room(opsLog[o], MaxLag)
  /\ opsLog' = [opsLog EXCEPT ![o] = Written(@, [v EXCEPT !.abort = TRUE])]
  /\ Disturb(o)
  /\ UNCHANGED <<clusterLog, queue, cpVars, streams, history>>

\* The user deletes the operation, past the DELETE guard of the webhook.
Delete(o) ==
  LET v == Op(o) IN
  /\ May("delete") /\ v.exists /\ ~v.deleted /\ Deletable(v) /\ Room(opsLog[o], MaxLag)
  /\ opsLog' = [opsLog EXCEPT ![o] = Written(@,
       IF v.finalizer THEN [v EXCEPT !.deleted = TRUE] ELSE [v EXCEPT !.exists = FALSE])]
  /\ Disturb(o)
  /\ UNCHANGED <<clusterLog, queue, cpVars, streams, history>>

\* The cluster's own controller writes its status, or lets the object go.
ClusterWrite ==
  LET c == Stored(clusterLog) IN
  /\ c.exists /\ Room(clusterLog, MaxLag)
  /\ \/ May("touch") /\ clusterLog' = Written(clusterLog, c)
     \/ May("gone") /\ clusterLog' = Written(clusterLog, [exists |-> FALSE, lock |-> NoOp])
  /\ UNCHANGED <<opsLog, queue, pass, cpVars, streams, history>>

\* The operator dies; the next one lists everything, and reads the control plane
\* itself until its streams have delivered their snapshots.
Crash ==
  /\ May("crash") /\ crashes < MaxCrashes
  /\ crashes' = crashes + 1
  /\ pass' = Idle
  /\ queue' = {o \in Ops : Cached(opsLog[o]).exists}
  /\ clSeen' = cl /\ seen' = nodes
  /\ UNCHANGED <<opsLog, clusterLog, cpVars, down, cycled, asked>>

-------------------------------------------------------------------------------
(* The control plane and its streams.                                      *)

rest == <<opsLog, clusterLog, queue, pass, asked, crashes>>

\* Cluster-wide work begins and ends; a failed activation puts the status back.
CpCluster ==
  /\ \/ /\ attempts > 0 /\ cl.status # "in_activation"
        /\ cl' = [cl EXCEPT !.status = "in_activation"] /\ UNCHANGED <<clJob, attempts>>
     \/ /\ cl.status = "in_activation" /\ attempts' = attempts - 1
        /\ \/ cl' = [cl EXCEPT !.status = "active"]
           \/ May("revert") /\ cl' = [cl EXCEPT !.status = "unready"]
        /\ UNCHANGED clJob
     \/ /\ clJob # "none" /\ clJob' = "none" /\ UNCHANGED attempts
        /\ cl' = [cl EXCEPT !.status = IF clJob = "stop" THEN "suspended" ELSE "active"]
  /\ UNCHANGED <<rest, nodes, nodeJob, pods, streams, down, cycled>>

\* The data is redistributed after a node came back.
CpRebalanced ==
  /\ cl.rebal /\ cl' = [cl EXCEPT !.rebal = FALSE]
  /\ UNCHANGED <<rest, clJob, attempts, nodes, nodeJob, pods, streams, down, cycled>>

\* The status of node n becomes `st`, and with it the history.
NodeBecomes(n, st) ==
  /\ nodes' = [nodes EXCEPT ![n] = st]
  /\ down' = IF st = "online" \/ Leaving(st) THEN down \ {n} ELSE down
  /\ cycled' = IF st = "online" THEN cycled \cup {n} ELSE cycled
  /\ cl' = IF st = "online" THEN [cl EXCEPT !.rebal = TRUE] ELSE cl
  /\ UNCHANGED <<rest, clJob, attempts, pods, streams>>

CpNodeBegins(n) ==
  /\ nodeJob[n] # "none" /\ nodeJob' = [nodeJob EXCEPT ![n] = "none"]
  /\ NodeBecomes(n, CASE nodeJob[n] = "stop" /\ nodes[n] = "online" -> "in_shutdown"
                      [] nodeJob[n] = "start" /\ nodes[n] = "offline" -> "in_restart"
                      [] OTHER -> nodes[n])

CpNodeEnds(n) ==
  /\ nodes[n] \in {"in_shutdown", "in_restart"}
  /\ NodeBecomes(n, IF nodes[n] = "in_shutdown" THEN "offline" ELSE "online")
  /\ UNCHANGED nodeJob

\* A node fails by itself, or the control plane restarts it by itself.
CpFault(n) ==
  /\ May("fault")
  /\ \/ nodes[n] = "online" /\ ~May("early") /\ NodeBecomes(n, "offline")
     \/ nodes[n] = "offline" /\ NodeBecomes(n, "in_restart")
  /\ UNCHANGED nodeJob

\* A node is removed from the cluster.
CpRemoves(n) ==
  /\ May("remove") /\ nodes[n] \in {"online", "offline", "leaving", "removed"}
  /\ NodeBecomes(n, CASE nodes[n] = "leaving" -> "removed"
                      [] nodes[n] = "removed" -> "unlisted"
                      [] OTHER -> "leaving")
  /\ UNCHANGED nodeJob

\* The DaemonSet replaces a pod that was deleted.
PodMoves(n) ==
  /\ pods[n] \in {"going", "none", "new"}
  /\ pods' = [pods EXCEPT ![n] = CASE @ = "going" -> "none" [] @ = "none" -> "new"
                                   [] @ = "new" -> "ready"]
  /\ UNCHANGED <<rest, cl, clJob, attempts, nodes, nodeJob, streams, down, cycled>>

\* The streams deliver what is current, and coalesce what they missed.
StreamCluster ==
  /\ clSeen # cl /\ clSeen' = cl
  /\ UNCHANGED <<rest, cpVars, seen, down, cycled>>
StreamNode(n) ==
  /\ seen[n] # nodes[n] /\ seen' = [seen EXCEPT ![n] = nodes[n]]
  /\ UNCHANGED <<rest, cpVars, clSeen, down, cycled>>

\* Streams that do not lag have delivered before anybody reads them.
StreamsPrompt ==
  /\ May("clusterstream") \/ clSeen = cl
  /\ May("nodestream") \/ seen = nodes

-------------------------------------------------------------------------------
Init ==
  /\ env \in Envs
  /\ opsLog = [o \in Ops |-> <<[NewOp EXCEPT !.exists = o \in DOMAIN Action]>>]
  /\ clusterLog = <<[lock |-> NoOp, exists |-> TRUE]>>
  /\ queue = DOMAIN Action
  /\ pass = Idle
  /\ cl = [status |-> env.start, rebal |-> FALSE, task |-> TRUE]
  /\ clJob = "none" /\ attempts = 0
  /\ nodes \in [Nodes -> IF May("fault") THEN {"online", "offline"} ELSE {"online"}]
  /\ nodeJob = [n \in Nodes |-> "none"]
  /\ pods = [n \in Nodes |-> "old"]
  /\ clSeen = cl /\ seen = nodes
  /\ down = {} /\ cycled = {} /\ asked = 0 /\ crashes = 0

PassStep ==
  \/ AddFinalizer \/ AcquireLock \/ Claim \/ Call
  \/ WriteStatus \/ ReleaseLock \/ DropFinalizer
  \/ StreamsPrompt /\ (Advance \/ WalkStep)

Worker == PassStep \/ \E o \in Ops : Reconcile(o)

ControlPlane ==
  \/ CpCluster \/ CpRebalanced \/ StreamCluster
  \/ \E n \in Nodes : CpNodeBegins(n) \/ CpNodeEnds(n) \/ PodMoves(n) \/ StreamNode(n)

Environment ==
  \/ \E o \in DOMAIN Action :
       \/ DeliverOp(o) \/ LeaseExpires(o) \/ GraceOver(o) \/ SetAbort(o) \/ Delete(o)
       \/ \E s \in WorkSteps : DeadlinePasses(o, s)
  \/ DeliverCluster \/ ClusterWrite \/ Crash
  \/ \E n \in Nodes : CpFault(n) \/ CpRemoves(n)

Next == (Worker \/ ControlPlane \/ Environment) /\ UNCHANGED env

Spec == Init /\ [][Next]_vars

-------------------------------------------------------------------------------
(* Properties.                                                             *)

Holder == Stored(clusterLog).lock
Ended(o) == ~Op(o).exists \/ Terminal(Op(o).phase)

\* Every variable keeps its type.
TypeOK ==
  /\ env \in Envs
  /\ opsLog \in [Ops -> Seq(OpsObj)]
  /\ \A o \in Ops : Len(opsLog[o]) \in 1..(MaxLag + 1)
  /\ clusterLog \in Seq(ClusterObj) /\ Len(clusterLog) \in 1..(MaxLag + 1)
  /\ queue \subseteq Ops
  /\ pass \in PassObj
  /\ ~At("idle") => pass.op \in DOMAIN Action
  /\ cl \in [status : ClusterStatuses, rebal : BOOLEAN, task : BOOLEAN]
  /\ clSeen \in [status : ClusterStatuses, rebal : BOOLEAN, task : BOOLEAN]
  /\ clJob \in {"none", "stop", "start"} /\ attempts \in 0..MaxActivates
  /\ nodes \in [Nodes -> NodeStatuses] /\ seen \in [Nodes -> NodeStatuses]
  /\ nodeJob \in [Nodes -> {"none", "stop", "start"}]
  /\ pods \in [Nodes -> {"old", "going", "none", "new", "ready"}]
  /\ down \subseteq Nodes /\ cycled \subseteq Nodes
  /\ asked \in 0..MaxActivates /\ crashes \in 0..MaxCrashes

\* The control plane is only called by the operation that holds the cluster
\* (acquireLock, releaseLock, once).
CallUnderLock == At("call") => Holder = pass.op \/ ~Stored(clusterLog).exists

\* The nodes out of service, whoever took them down.
Out == {n \in Nodes : nodes[n] \in {"in_shutdown", "offline", "in_restart"}}

\* Rolling restarts never have two nodes down, however often they are aborted, deleted and
\* begun again; and where nodes fail before them only, no node is down by a walk while
\* another one is out of service for whatever reason (checkPeers, advanceWalk).
OneNodeDown ==
  /\ Cardinality(down) <= 1
  /\ ~May("fault") \/ May("early") => down = {} \/ Out \subseteq down

\* A rolling restart that succeeded has brought every node of its plan back online,
\* but for the ones it says it skipped (advanceWalk, writeStatus on a conflict).
EveryNodeRestarted ==
  \A o \in DOMAIN Action : LET v == Op(o) IN
    Action[o] = "RollingRestart" /\ v.phase = "Succeeded" =>
      \A i \in DOMAIN v.plan : v.plan[i] \in cycled \cup v.skipped

\* When every walk has ended, no node is left down by it, unless a step's deadline
\* ended the walk or the cluster object went: an abort or a deletion never does.
NoNodeStranded ==
  (\A o \in Ops : Ended(o)) /\ down # {} =>
     \/ ~Stored(clusterLog).exists
     \/ \E o \in Ops : Op(o).late

\* The walk asks no node to go down while the cluster redistributes the data of the one it
\* restarted before (awaitRebalance, advanceWalk; a skipped node is not waited for).  It is
\* said of the walk's own order only: of a cluster stream that keeps up, where no node fails
\* by itself and the control plane marks the cluster as it brings the node back.  The code
\* reads the node and the cluster from two streams, and nothing orders them.
ShutdownWhenRebalanced ==
  LET v == pass.obj IN
  At("call") /\ v.step = "ShuttingDownNode" /\ v.index > 1 /\ v.plan[v.index - 1] \notin v.skipped
    /\ ~May("clusterstream") /\ ~May("fault") => ~cl.rebal

\* No two activations run side by side: the claim covers a pass that crashed or read
\* an old copy, the grace an attempt the control plane has accepted and not begun
\* (request, once, awaitActivation, retryActivation).  Neither covers an attempt that runs
\* and that the cluster's stream has not delivered yet.
OneActivation == attempts <= 1

===============================================================================
