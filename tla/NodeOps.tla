-------------------------------- MODULE NodeOps --------------------------------
(***************************************************************************)
(* The StorageNodeOps controller for the four actions that make one        *)
(* control-plane call (Shutdown, Restart, Suspend, Resume), on one         *)
(* StorageNode, with every operation queued on it:                         *)
(*   operator/internal/controllers/node/storagenodeops_controller.go       *)
(*   operator/internal/controllers/node/actions.go, graphs.go              *)
(*   operator/internal/controllers/stepclaim/stepclaim.go                  *)
(*   atlas-lib/statemachine/claim.go                                       *)
(*                                                                         *)
(* One worker runs one reconcile pass at a time.  A pass reads through     *)
(* informer caches that lag the API server (module Informer), so it is     *)
(* split at every read and write that another actor can interleave with.   *)
(* Clocks are abstracted to the two instants the code compares them with:  *)
(* a claim's lease runs out, a step's deadline passes.                     *)
(***************************************************************************)
EXTENDS Informer, FiniteSets

CONSTANTS
  Ops,          \* the StorageNodeOps objects naming this node
  NoOp,         \* the empty status.activeOpsRef
  Action,       \* [Ops -> action], spec.action of each operation
  Forced,       \* the operations with spec.force
  MaxLag,       \* bound: undelivered versions per object
  MaxCrashes,   \* bound: operator restarts
  Env,          \* which of EnvKinds may happen
  OpsPrompt,    \* TRUE: an operation is read only once its cache has caught up
  NodePrompt    \* TRUE: the node is read only once its cache has caught up

\* What a run may switch off: the user's abort and delete, other writers of the
\* node, its disappearance, node faults, passing deadlines, and status writes that
\* change nothing but the message.
EnvKinds == {"abort", "delete", "node", "gone", "fault", "late", "message"}

Actions == {"Shutdown", "Restart", "Suspend", "Resume"}

ASSUME NodeOpsAssumption ==
  /\ NoOp \notin Ops
  /\ Action \in [Ops -> Actions]
  /\ Forced \subseteq Ops
  /\ MaxLag \in Nat \ {0}
  /\ MaxCrashes \in Nat
  /\ Env \subseteq EnvKinds
  /\ OpsPrompt \in BOOLEAN
  /\ NodePrompt \in BOOLEAN

VARIABLES
  opsLog,    \* [Ops -> log of operation objects]
  nodeLog,   \* log of the StorageNode's lock
  queue,     \* operations with a reconcile request waiting
  pass,      \* the reconcile pass the worker is running
  cp,        \* the node's status in the control plane
  job,       \* the action the control plane accepted and has not begun
  seen,      \* the node's status in the control-plane stream's cache
  callState, \* history: the lease each operation's last call was made under
  crashes    \* operator restarts so far

vars == <<opsLog, nodeLog, queue, pass, cp, job, seen, callState, crashes>>
cpVars == <<cp, job, seen>>
history == <<callState, crashes>>

-------------------------------------------------------------------------------
(* The API objects.                                                        *)

Phases == {"", "Pending", "Running", "Succeeded", "Failed", "Aborted"}
Steps == {"", "Requesting", "Departing", "Awaiting", "Completed"}
Leases == {"none", "live", "expired"}

OpsObj == [exists : BOOLEAN, finalizer : BOOLEAN, deleted : BOOLEAN,
           abort : BOOLEAN, phase : Phases, step : Steps,
           claim : Leases, late : BOOLEAN]

NewOp == [exists |-> TRUE, finalizer |-> FALSE, deleted |-> FALSE,
          abort |-> FALSE, phase |-> "", step |-> "",
          claim |-> "none", late |-> FALSE]

GoneOp == [NewOp EXCEPT !.exists = FALSE]

NodeObj == [lock : Ops \cup {NoOp}, kind : {"local", "remote", "gone"}]

\* The statuses the control plane reports of a node.
NodeStatuses == {"online", "offline", "suspended", "in_shutdown", "in_restart"}

\* terminalOps reports a phase the operation can never leave.
Terminal(phase) == phase \in {"Succeeded", "Failed", "Aborted"}

\* Seeded fault: the last step renamed in the graph and not in the API.
NextStepRenamed(a, s) ==
  IF s = "Requesting" /\ a = "Restart" THEN "Departing" ELSE "Settling"

\* The graph of each action is a line that starts in Requesting.
NextStep(a, s) ==
  IF s = "Requesting" /\ a = "Restart" THEN "Departing" ELSE "Awaiting"

\* The one abortable step, and the steps the DELETE guard lets go.
Abortable(s) == s = "Requesting"
Deletable(v) == Terminal(v.phase) \/ v.step \notin {"Departing", "Awaiting"}

-------------------------------------------------------------------------------
(* Status writes.  A pass decides on a write, then carries it out.         *)

Idle == [pc |-> "idle", op |-> NoOp, obj |-> NewOp, fresh |-> FALSE,
         do |-> "", arg |-> "", then |-> ""]

Writes == {"", "run", "hold", "note", "wait", "record", "finish"}

PassObj ==
  [pc : {"idle", "finalizer", "lock", "step", "claim", "call", "write",
         "release", "drop"},
   op : Ops \cup {NoOp}, obj : OpsObj, fresh : BOOLEAN, do : Writes,
   arg : Steps \cup Phases,
   then : {"", "end", "drop", "step", "requeue", "release", "refuse", "retry"}]

\* The mutations, with the argument each of them takes.
WellFormed(do, arg) ==
  /\ do # ""
  /\ do = "record" => arg \in Steps
  /\ do = "finish" => arg \in Phases

\* Seeded fault: the machine's snapshot written as it is, without the claim.
SnapshotOfNoClaim(v, read) ==
  [v EXCEPT !.step = read.step, !.late = read.late, !.claim = "none"]

\* snapshotOf: the machine's position, keeping a claim on the same state.
SnapshotOf(v, read) ==
  [v EXCEPT !.step = read.step, !.late = read.late,
            !.claim = IF v.step = read.step THEN @ ELSE "none"]

\* What the mutation `do` makes of the version v; `read` is the object the pass
\* holds, which is where the state machine of the pass was restored from.
Mutate(v, do, arg, read) ==
  CASE do = "run"    -> [v EXCEPT !.phase = "Running"]
    [] do = "hold"   -> [v EXCEPT !.phase = IF @ = "" THEN "Pending" ELSE @]
    [] do = "note"   -> v
    [] do = "wait"   -> SnapshotOf(v, read)
    [] do = "record" -> [v EXCEPT !.phase = "Running", !.step = arg,
                                  !.claim = "none", !.late = FALSE]
    [] do = "finish" -> IF arg = "Succeeded"
                          THEN [v EXCEPT !.phase = arg, !.step = "Completed",
                                         !.claim = "none", !.late = FALSE]
                          ELSE [v EXCEPT !.phase = arg]

-------------------------------------------------------------------------------
(* Pieces of a pass.                                                       *)

At(pc) == pass.pc = pc

\* The pass ends; `requeue` is RequeueAfter or a returned error.
End(requeue) ==
  /\ pass' = Idle
  /\ queue' = IF requeue THEN queue \cup {pass.op} ELSE queue

Goto(pc) == pass' = [pass EXCEPT !.pc = pc]

\* The pass goes on to write its status, then to `then`.
WriteThen(do, arg, then) ==
  pass' = [pass EXCEPT !.pc = "write", !.do = do, !.arg = arg, !.then = then]

Record(s)  == WriteThen("record", s, "requeue")
Finish(ph) == WriteThen("finish", ph, "release")
Refuse     == WriteThen("finish", "Failed", "refuse")

\* A message write: patched when the message changed, nothing when it did not.
Say(do) ==
  \/ /\ "message" \in Env \/ (do = "hold" /\ pass.obj.phase = "")
     /\ WriteThen(do, "", "requeue") /\ UNCHANGED queue
  \/ ~(do = "hold" /\ pass.obj.phase = "") /\ End(TRUE)

\* The pass lands v as the newest version of its operation.
Land(v) ==
  /\ Room(opsLog[pass.op], MaxLag)
  /\ opsLog' = [opsLog EXCEPT ![pass.op] = Written(@, v)]

\* The object w with the status of v: a status patch touches nothing else, and
\* writeStatus hands nothing else back to the pass.
WithStatus(w, v) ==
  [w EXCEPT !.phase = v.phase, !.step = v.step, !.claim = v.claim, !.late = v.late]

\* A write by somebody else makes the object an ongoing pass holds stale.
Disturb(o) ==
  pass' = IF pass.op = o THEN [pass EXCEPT !.fresh = FALSE] ELSE pass

MayReadNode == NodePrompt => Current(nodeLog)

\* Seeded fault: the lock patched without the resourceVersion that was read.
PatchLandsAlways(log) == TRUE

\* MergeFromWithOptimisticLock: the patch lands on the version that was read.
PatchLands(log) == Current(log)

\* Seeded fault: a release that does not check whose lock it is.
OwnedByAnybody(node, o) == node.kind # "gone" /\ node.lock # NoOp

\* The ownership check of releaseLock.
Owned(node, o) == node.kind # "gone" /\ node.lock = o

\* Seeded fault: only the initial step gets a deadline.
TimeoutReachedFirst(v) == v.late /\ v.step = "Requesting"

\* Machine.TimeoutReached on the restored step.
TimeoutReached(v) == v.late

-------------------------------------------------------------------------------
(* Reconcile, up to the lock.                                              *)

\* Seeded fault: a terminal operation that is left alone.
EntryNoRelease(v) ==
  CASE v.deleted -> "release"
    [] ~v.deleted /\ ~v.finalizer -> "finalizer"
    [] ~v.deleted /\ v.finalizer /\ Terminal(v.phase) -> "idle"
    [] OTHER -> "lock"

\* Which branch of Reconcile an object takes: teardown, the finalizer, the second
\* release of a terminal operation, or the lock.
Entry(v) ==
  CASE v.deleted -> "release"
    [] ~v.deleted /\ ~v.finalizer -> "finalizer"
    [] ~v.deleted /\ v.finalizer /\ Terminal(v.phase) -> "release"
    [] OTHER -> "lock"

\* The read that begins a pass: client.Get from the cache.
Reconcile(o) ==
  /\ At("idle") /\ o \in queue
  /\ OpsPrompt => Current(opsLog[o])
  /\ LET v == Cached(opsLog[o]) IN
     /\ queue' = queue \ {o}
     /\ IF ~v.exists \/ (v.deleted /\ ~v.finalizer)
          THEN pass' = pass
          ELSE pass' = [Idle EXCEPT !.op = o, !.obj = v,
                 !.fresh = Current(opsLog[o]),
                 !.then = IF v.deleted THEN "drop" ELSE "end",
                 !.pc = Entry(v)]
  /\ UNCHANGED <<opsLog, nodeLog, cpVars, history>>

\* Update with the finalizer added; a conflict is returned and retried.
AddFinalizer ==
  /\ At("finalizer")
  /\ \/ /\ pass.fresh
        /\ Land([pass.obj EXCEPT !.finalizer = TRUE])
        /\ End(FALSE)
     \/ /\ ~pass.fresh
        /\ End(TRUE) /\ UNCHANGED opsLog
  /\ UNCHANGED <<nodeLog, cpVars, history>>

\* acquireLock: the node is read from the cache and patched conditionally.
AcquireLock ==
  /\ At("lock") /\ MayReadNode
  /\ LET node == Cached(nodeLog)
         o == pass.op
         go == IF pass.obj.phase \in {"", "Pending"}
                 THEN WriteThen("run", "", "step") ELSE Goto("step")
     IN \/ /\ node.kind # "local"
           /\ Refuse /\ UNCHANGED <<nodeLog, queue>>
        \/ /\ node.kind = "local" /\ node.lock \notin {o, NoOp}
           /\ Say("hold") /\ UNCHANGED nodeLog
        \/ /\ node.kind = "local" /\ node.lock = o
           /\ go /\ UNCHANGED <<nodeLog, queue>>
        \/ /\ node.kind = "local" /\ node.lock = NoOp
           /\ IF PatchLands(nodeLog)
                THEN /\ nodeLog' = Written(nodeLog, [node EXCEPT !.lock = o])
                     /\ go /\ UNCHANGED queue
                ELSE End(TRUE) /\ UNCHANGED nodeLog
  /\ UNCHANGED <<opsLog, cpVars, history>>

-------------------------------------------------------------------------------
(* advance and perform: one step of the action.                            *)

Seen(statuses) == seen \in statuses

\* The call is skipped when the node is already at or past where it would put it.
Skips(a) ==
  CASE a = "Shutdown" -> Seen({"offline", "in_shutdown"})
    [] a = "Restart"  -> Seen({"in_restart"})
    [] a = "Suspend"  -> Seen({"suspended"})
    [] a = "Resume"   -> Seen({"online"})

\* The control plane restarts only an offline node unless the restart is forced.
Refuses(o) == Action[o] = "Restart" /\ o \notin Forced /\ ~Seen({"offline"})

completionStatus(a) ==
  CASE a = "Shutdown" -> "offline"
    [] a = "Restart"  -> "online"
    [] a = "Suspend"  -> "suspended"
    [] a = "Resume"   -> "online"

\* perform, when the reading could be taken.
Perform ==
  LET o == pass.op  s == pass.obj.step  a == Action[o] IN
  \/ /\ s = "Requesting" /\ Skips(a)
     /\ Record(NextStep(a, s)) /\ UNCHANGED queue
  \/ /\ s = "Requesting" /\ ~Skips(a) /\ Refuses(o)
     /\ Finish("Failed") /\ UNCHANGED queue
  \/ /\ s = "Requesting" /\ ~Skips(a) /\ ~Refuses(o)
     /\ Goto("claim") /\ UNCHANGED queue
  \/ /\ s = "Departing"
     /\ IF seen # "online" THEN Record(NextStep(a, s)) /\ UNCHANGED queue
                           ELSE Say("wait")
  \/ /\ s = "Awaiting"
     /\ IF seen = completionStatus(a) THEN Finish("Succeeded") /\ UNCHANGED queue
                                      ELSE Say("wait")

\* advance: initial step, abort, deadline, then the step itself.
Advance ==
  /\ At("step")
  /\ LET v == pass.obj IN
     \/ /\ v.step = ""
        /\ Record("Requesting") /\ UNCHANGED queue
     \/ /\ v.step # "" /\ v.abort /\ Abortable(v.step)
        /\ Finish("Aborted") /\ UNCHANGED queue
     \/ /\ v.step # "" /\ ~(v.abort /\ Abortable(v.step))
        /\ IF TimeoutReached(v) THEN Finish("Failed") /\ UNCHANGED queue
                     ELSE Perform \/ Say("note")
  /\ UNCHANGED <<opsLog, nodeLog, cpVars, history>>

-------------------------------------------------------------------------------
(* WithClaim and stepclaim.Writer: the call is made under a claim.         *)

\* The claim's patch: skipped on a live claim, refused on a stale copy.
Claim ==
  /\ At("claim")
  /\ \/ /\ pass.obj.claim = "live" \/ ~pass.fresh
        /\ Say("wait") /\ UNCHANGED opsLog
     \/ Say("note") /\ UNCHANGED opsLog
     \/ /\ pass.obj.claim # "live" /\ pass.fresh
        /\ LET v == [Stored(opsLog[pass.op]) EXCEPT !.claim = "live"] IN
           /\ Land(v)
           /\ pass' = [pass EXCEPT !.obj = v, !.pc = "call"]
        /\ UNCHANGED queue
  /\ UNCHANGED <<nodeLog, cpVars, history>>

\* What the control plane does with a call: it takes one job at a time.
Accepts(o) ==
  /\ job = "none"
  /\ CASE Action[o] = "Shutdown" -> cp \in {"online", "suspended"}
       [] Action[o] = "Restart"  -> cp = "offline" \/ o \in Forced
       [] Action[o] = "Suspend"  -> cp = "online"
       [] Action[o] = "Resume"   -> cp = "suspended"

\* fire: the control-plane call.  Its answer may be an error, landed or not.
Call ==
  /\ At("call")
  /\ LET o == pass.op IN
     /\ \/ job' = IF Accepts(o) THEN Action[o] ELSE job
        \/ UNCHANGED job
     /\ callState' = [callState EXCEPT ![o] = pass.obj.claim]
     /\ \/ Record(NextStep(Action[o], pass.obj.step)) /\ UNCHANGED queue
        \/ Say("note")
  /\ UNCHANGED <<opsLog, nodeLog, cp, seen, crashes>>

-------------------------------------------------------------------------------
(* writeStatus, releaseLock, teardown.                                     *)

\* What follows a status write that landed.
AfterWrite(v) ==
  IF pass.then = "requeue" THEN End(TRUE)
  ELSE /\ pass' = [pass EXCEPT !.obj = WithStatus(@, v), !.fresh = TRUE, !.do = "", !.arg = "",
              !.pc = IF pass.then = "step" THEN "step" ELSE "release",
              !.then = IF pass.then = "refuse" THEN "retry" ELSE "end"]
       /\ UNCHANGED queue

\* Seeded fault: a conflict taken for a write that landed.
WriteStatusSwallowed ==
  /\ At("write")
  /\ LET v == Mutate(pass.obj, pass.do, pass.arg, pass.obj) IN
     /\ IF pass.fresh THEN Land(WithStatus(Stored(opsLog[pass.op]), v))
                      ELSE UNCHANGED opsLog
     /\ AfterWrite(v)
  /\ UNCHANGED <<nodeLog, cpVars, history>>

\* writeStatus: the first attempt patches the caller's object; a conflict reads
\* the cache again and applies the same mutation to what it finds there, until
\* the retries run out.
WriteStatus ==
  /\ At("write")
  /\ LET log == opsLog[pass.op]
         base == IF pass.fresh THEN pass.obj ELSE Cached(log)
         v == Mutate(base, pass.do, pass.arg, pass.obj)
     IN \/ /\ pass.fresh \/ (Current(log) /\ base.exists)
           /\ Land(WithStatus(Stored(log), v))
           /\ AfterWrite(v)
        \/ /\ ~pass.fresh /\ (Current(log) => ~base.exists)
           /\ OpsPrompt => Current(log)
           /\ End(TRUE) /\ UNCHANGED opsLog
  /\ UNCHANGED <<nodeLog, cpVars, history>>

\* releaseLock: clears the lock the cached node says this operation holds.
ReleaseLock ==
  /\ At("release") /\ MayReadNode
  /\ LET node == Cached(nodeLog)
         mine == Owned(node, pass.op)
         go == IF pass.then = "drop" THEN Goto("drop") /\ UNCHANGED queue
                                     ELSE End(pass.then = "retry")
     IN \/ ~mine /\ go /\ UNCHANGED nodeLog
        \/ /\ mine /\ PatchLands(nodeLog)
           /\ nodeLog' = Written(nodeLog, [node EXCEPT !.lock = NoOp])
           /\ go
        \/ mine /\ ~PatchLands(nodeLog) /\ End(TRUE) /\ UNCHANGED nodeLog
  /\ UNCHANGED <<opsLog, cpVars, history>>

\* The end of teardown: the finalizer goes, and the object with it.
DropFinalizer ==
  /\ At("drop")
  /\ \/ pass.fresh /\ Land(GoneOp) /\ End(FALSE)
     \/ ~pass.fresh /\ End(TRUE) /\ UNCHANGED opsLog
  /\ UNCHANGED <<nodeLog, cpVars, history>>

-------------------------------------------------------------------------------
(* Everybody else: caches, clock, user, other writers, control plane.      *)

\* A watch event of the operation's own kind: it requeues the operation.
DeliverOp(o) ==
  /\ Len(opsLog[o]) > 1
  /\ opsLog' = [opsLog EXCEPT ![o] = Delivered(@)]
  /\ queue' = queue \cup {o}
  /\ UNCHANGED <<nodeLog, pass, cpVars, history>>

\* operationsOn: a watch event of the node requeues what has not finished.
operationsOn ==
  {o \in Ops : LET v == Cached(opsLog[o]) IN v.exists /\ ~Terminal(v.phase)}

DeliverNode ==
  /\ Len(nodeLog) > 1
  /\ nodeLog' = Delivered(nodeLog)
  /\ queue' = queue \cup operationsOn
  /\ UNCHANGED <<opsLog, pass, cpVars, history>>

Expired(v) == IF v.claim = "live" THEN [v EXCEPT !.claim = "expired"] ELSE v
Overdue(v, s) == IF v.step = s THEN [v EXCEPT !.late = TRUE] ELSE v

\* The lease of the operation's claim runs out, in every copy of it.
LeaseExpires(o) ==
  /\ \/ \E i \in 1..Len(opsLog[o]) : opsLog[o][i].claim = "live"
     \/ callState[o] = "live"
  /\ opsLog' = [opsLog EXCEPT ![o] = [i \in 1..Len(@) |-> Expired(@[i])]]
  /\ pass' = IF pass.op = o THEN [pass EXCEPT !.obj = Expired(@)] ELSE pass
  /\ callState' = [callState EXCEPT ![o] = IF @ = "live" THEN "expired" ELSE @]
  /\ UNCHANGED <<nodeLog, queue, cpVars, crashes>>

\* The deadline of step s passes, in every copy that is in it.
DeadlinePasses(o, s) ==
  /\ "late" \in Env
  /\ \E i \in 1..Len(opsLog[o]) : opsLog[o][i].step = s /\ ~opsLog[o][i].late
  /\ opsLog' = [opsLog EXCEPT ![o] = [i \in 1..Len(@) |-> Overdue(@[i], s)]]
  /\ pass' = IF pass.op = o THEN [pass EXCEPT !.obj = Overdue(@, s)] ELSE pass
  /\ UNCHANGED <<nodeLog, queue, cpVars, history>>

\* The user sets spec.abort.
SetAbort(o) ==
  LET v == Stored(opsLog[o]) IN
  /\ "abort" \in Env /\ v.exists /\ ~v.abort /\ Room(opsLog[o], MaxLag)
  /\ opsLog' = [opsLog EXCEPT ![o] = Written(@, [v EXCEPT !.abort = TRUE])]
  /\ Disturb(o)
  /\ UNCHANGED <<nodeLog, queue, cpVars, history>>

\* The user deletes the object, past the DELETE guard of the webhook.
Delete(o) ==
  LET v == Stored(opsLog[o]) IN
  /\ "delete" \in Env /\ v.exists /\ ~v.deleted /\ Deletable(v)
  /\ Room(opsLog[o], MaxLag)
  /\ opsLog' = [opsLog EXCEPT ![o] = Written(@,
       IF v.finalizer THEN [v EXCEPT !.deleted = TRUE] ELSE GoneOp)]
  /\ Disturb(o)
  /\ UNCHANGED <<nodeLog, queue, cpVars, history>>

\* The StorageNode controller writes the node's status, or lets the node go.
NodeWrite ==
  LET node == Stored(nodeLog) IN
  /\ node.kind # "gone" /\ Room(nodeLog, MaxLag)
  /\ \/ "node" \in Env /\ nodeLog' = Written(nodeLog, node)
     \/ /\ "gone" \in Env
        /\ nodeLog' = Written(nodeLog, [kind |-> "gone", lock |-> NoOp])
  /\ UNCHANGED <<opsLog, queue, pass, cpVars, history>>

\* The operator dies and another one starts, which lists and requeues everything.
Crash ==
  /\ crashes < MaxCrashes
  /\ crashes' = crashes + 1
  /\ pass' = Idle
  /\ queue' = {o \in Ops : Cached(opsLog[o]).exists}
  /\ UNCHANGED <<opsLog, nodeLog, cpVars, callState>>

\* The control plane works on what it accepted.
CpBegin ==
  /\ job # "none" /\ cp \notin {"in_shutdown", "in_restart"}
  /\ cp' = CASE job = "Shutdown" -> "in_shutdown"
             [] job = "Restart"  -> "in_restart"
             [] job = "Suspend"  -> "suspended"
             [] job = "Resume"   -> "online"
  /\ job' = "none"
  /\ UNCHANGED <<opsLog, nodeLog, queue, pass, seen, history>>

CpEnd ==
  /\ cp \in {"in_shutdown", "in_restart"}
  /\ cp' = IF cp = "in_shutdown" THEN "offline" ELSE "online"
  /\ UNCHANGED <<opsLog, nodeLog, queue, pass, job, seen, history>>

\* A node fails by itself, and the control plane restarts it by itself.
CpFault ==
  /\ "fault" \in Env
  /\ \/ cp = "online" /\ cp' = "offline"
     \/ cp = "offline" /\ cp' = "in_restart"
  /\ UNCHANGED <<opsLog, nodeLog, queue, pass, job, seen, history>>

\* The stream delivers the node's current status; it coalesces what it missed.
\* A node event requeues the operations through the StorageNode it updates.
Stream ==
  /\ seen # cp /\ seen' = cp
  /\ UNCHANGED <<opsLog, nodeLog, queue, pass, cp, job, history>>

-------------------------------------------------------------------------------
Init ==
  /\ opsLog = [o \in Ops |-> <<NewOp>>]
  /\ \E kind \in {"local", "remote"} : nodeLog = <<[lock |-> NoOp, kind |-> kind]>>
  /\ queue = Ops
  /\ pass = Idle
  /\ cp \in {"online", "offline", "suspended"} /\ job = "none" /\ seen = cp
  /\ callState = [o \in Ops |-> "none"]
  /\ crashes = 0

PassStep ==
  \/ AddFinalizer \/ AcquireLock \/ Advance \/ Claim \/ Call
  \/ WriteStatus \/ ReleaseLock \/ DropFinalizer

Worker == PassStep \/ \E o \in Ops : Reconcile(o)

Environment ==
  \/ \E o \in Ops :
       \/ DeliverOp(o) \/ LeaseExpires(o) \/ SetAbort(o) \/ Delete(o)
       \/ \E s \in {"Requesting", "Departing", "Awaiting"} : DeadlinePasses(o, s)
  \/ DeliverNode \/ NodeWrite \/ Crash
  \/ CpBegin \/ CpEnd \/ CpFault \/ Stream

Next == Worker \/ Environment

Spec == Init /\ [][Next]_vars

\* The work queue is first-in first-out, so a queued operation gets its pass; a
\* pass runs on; watch events arrive; time moves.
Fairness ==
  /\ WF_vars(PassStep) /\ WF_vars(DeliverNode)
  /\ \A o \in Ops :
       /\ SF_vars(Reconcile(o)) /\ WF_vars(DeliverOp(o))
       /\ \A s \in {"Requesting", "Departing", "Awaiting"} :
            WF_vars(DeadlinePasses(o, s))

FairSpec == Spec /\ Fairness

-------------------------------------------------------------------------------
(* Properties.                                                             *)

\* The lock's holder in the API server, and the stored state of an operation.
Holder == Stored(nodeLog).lock
NodeGone == Stored(nodeLog).kind = "gone"
Op(o) == Stored(opsLog[o])

\* Every variable keeps its type; a pass that is running has an operation, and one
\* that is about to write has a mutation and the argument that mutation takes.
TypeOK ==
  /\ opsLog \in [Ops -> Seq(OpsObj)]
  /\ \A o \in Ops : Len(opsLog[o]) \in 1..(MaxLag + 1)
  /\ nodeLog \in Seq(NodeObj) /\ Len(nodeLog) \in 1..(MaxLag + 1)
  /\ queue \subseteq Ops
  /\ pass \in PassObj
  /\ ~At("idle") => pass.op \in Ops
  /\ At("write") => WellFormed(pass.do, pass.arg)
  /\ cp \in NodeStatuses /\ seen \in NodeStatuses
  /\ job \in Actions \cup {"none"}
  /\ callState \in [Ops -> Leases]
  /\ crashes \in 0..MaxCrashes

\* A control-plane call is only made by the operation the API server says holds
\* the node (acquireLock, once).
CallUnderLock == At("call") => Holder = pass.op \/ NodeGone

\* The node is locked as module NodeLock promises, whatever the caches lag.
Lock == INSTANCE NodeLock WITH
  holder <- Holder,
  caller <- IF At("call") THEN pass.op ELSE NoOp,
  gone <- NodeGone
LockSpec == Lock!LockSpec

\* No call is made while an earlier call of the same operation is still trusted
\* to be in flight: the claim's lease separates any two (WithClaim, request).
OneCallPerLease == At("call") => callState[pass.op] # "live"

\* A node is never locked by an operation that no longer exists (OpsFinalizer) and,
\* once every cache has caught up and no reconcile is owed, only by one that still
\* has work to do (finish, operationsOn).
Quiet == /\ At("idle") /\ queue = {} /\ Current(nodeLog)
         /\ \A o \in Ops : Current(opsLog[o])
NoLockLeftBehind ==
  \A o \in Ops : Holder = o => Op(o).exists /\ (Quiet => ~Terminal(Op(o).phase))

\* The node is given up only by an operation that has ended or is being deleted,
\* so nobody starts work on a node another operation is still driving.
ReleasedWhenDone ==
  [][\A o \in Ops : Holder = o /\ Holder' = NoOp /\ ~NodeGone'
       => Terminal(Op(o).phase) \/ Op(o).deleted]_vars

\* Every operation ends, the ones queued behind a hung one included: the step
\* deadlines end whoever holds the node, and its release wakes the next.
EveryOpEnds == \A o \in Ops : <>(~Op(o).exists \/ Terminal(Op(o).phase))

\* A held node is given back.
LockComesBack == \A o \in Ops : (Holder = o) ~> (Holder # o)
===============================================================================
