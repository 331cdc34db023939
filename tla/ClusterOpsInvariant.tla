--------------------------- MODULE ClusterOpsInvariant ---------------------------
(***************************************************************************)
(* The inductive invariants of ClusterOps, one layer resting on the other: *)
(* what versions and passes look like (TypeInv), a pass in step with its   *)
(* stored operation and how a walk ends (StepInv, EndInv), the lock        *)
(* (LockInv, HoldInv), the nodes a walk has brought back (WalkInv), the    *)
(* nodes that are down (DownInv) or out of service by themselves (OutInv), *)
(* the redistribution (RebalInv) and the activations (ActInv).             *)
(* ClusterOpsProofs proves them.                                           *)
(***************************************************************************)
EXTENDS ClusterOps

-------------------------------------------------------------------------------
(* What the versions of an operation, and the pass, look like.             *)

RollSteps == {"CheckingPeers", "ShuttingDownNode", "RefreshingPod", "AwaitingPod",
              "RestartingNode", "Rebalancing"}

\* The steps of an action's graph.
StepsOf(a) ==
  CASE a = "RollingRestart" -> RollSteps
    [] a = "Restart"        -> {"ShuttingDown", "Starting"}
    [] OTHER                -> {"Requesting", "Awaiting"}

Rolls(o) == Action[o] = "RollingRestart"

\* The walk stands at a node of its plan.
AtNode(v) == v.index \in 1..Len(v.plan)

\* The version v is one that operation o can have: it is at a step of its own graph,
\* and a walk goes nowhere before it is planned.
Fits(o, v) ==
  /\ v.step \in StepsOf(Action[o]) \cup {"", "Completed"}
  /\ Rolls(o) /\ v.index = 0 => v.step \in {"", "CheckingPeers"}

\* The same status, whatever the metadata.
SameStatus(v, w) ==
  /\ v.phase = w.phase /\ v.step = w.step /\ v.claim = w.claim /\ v.late = w.late
  /\ v.settled = w.settled /\ v.plan = w.plan /\ v.index = w.index /\ v.skipped = w.skipped

\* Every version fits, and a plan is never taken back.
Versions ==
  \A o \in DOMAIN Action : \A i \in 1..Len(opsLog[o]) :
     Fits(o, opsLog[o][i]) /\ (Planned(opsLog[o][i]) => Planned(Op(o)))

\* Objects nobody created are not there.
Outsiders == \A o \in Ops \ DOMAIN Action : ~Cached(opsLog[o]).exists

\* A pass whose copy is current holds the stored status.
FreshIsStored ==
  ~At("idle") /\ pass.fresh =>
    /\ SameStatus(pass.obj, Op(pass.op))
    /\ At("finalizer") \/ pass.then = "drop" => pass.obj = Op(pass.op)

\* The write of `do` is one the operation o, read as v, can make.
WriteFits(do, arg, then, o, v) ==
  /\ do # "" /\ then \in {"requeue", "step", "walk", "succeed", "release", "refuse"}
  /\ do = "run" <=> then = "step"
  /\ do = "plan" <=> then = "walk"
  /\ do = "walked" <=> then = "succeed"
  /\ do = "finish" <=> then \in {"release", "refuse"}
  /\ do = "record" => /\ arg \in StepsOf(Action[o])
                      /\ Rolls(o) /\ arg # "CheckingPeers" => Planned(v)
  /\ do = "plan" => Rolls(o) /\ arg = "CheckingPeers"
  /\ do \in {"next", "walked"} => Rolls(o) /\ AtNode(v)
  /\ do = "retry" => Action[o] = "Activate" /\ arg = "Requesting"
  /\ do = "finish" => /\ arg \in {"Succeeded", "Failed", "Aborted"}
                      /\ Rolls(o) /\ arg = "Succeeded" => Planned(v)

\* What the pass p has decided to do is something it can do.
PassFits(p) ==
  /\ p.pc # "idle" => p.op \in DOMAIN Action /\ Fits(p.op, p.obj)
  /\ p.pc = "walk" => /\ Rolls(p.op) /\ Planned(p.obj)
                      /\ p.arg \in RollSteps \cup {"Completed"}
                      /\ ~AtNode(p.obj) => p.arg = "CheckingPeers"
  /\ p.pc \in {"claim", "call"} /\ Rolls(p.op) => AtNode(p.obj)
  /\ p.pc = "write" => WriteFits(p.do, p.arg, p.then, p.op, p.obj)
  /\ p.pc = "release" => p.then \in {"drop", "end", "retry"}

\* A plan the pass knows of is in the stored version.
PlanKnown == ~At("idle") /\ Planned(pass.obj) => Planned(Op(pass.op))

\* Activations are counted, and the cluster is in one only while one is counted.
Counted == attempts <= asked /\ (cl.status = "in_activation" => attempts > 0)

TypeInv ==
  TypeOK /\ Versions /\ Outsiders /\ FreshIsStored /\ PassFits(pass) /\ PlanKnown /\ Counted

-------------------------------------------------------------------------------
(* Operations read when their cache is current.  The caches of operations  *)
(* lag only in environments that say so ("opslag"); without it the pass    *)
(* always holds the stored status, and the invariants below follow.        *)

Prompt == ~May("opslag")

\* The steps in which the walk has its node down, or is about to take it down; the
\* last three are entered once it was seen down.
DownSteps == {"ShuttingDownNode", "RefreshingPod", "AwaitingPod", "RestartingNode"}
BackSteps == {"RefreshingPod", "AwaitingPod", "RestartingNode"}
CallSteps == {"Requesting", "ShuttingDown", "Starting", "ShuttingDownNode", "RestartingNode"}

\* The pass p has been through the lock, and through the write that says so.
PastLock(p) ==
  \/ p.pc \in {"step", "walk", "claim", "call"}
  \/ p.pc = "write" /\ p.do # "hold" /\ p.then # "refuse"
AtWork(p) == PastLock(p) /\ ~(p.pc = "write" /\ p.do = "run")

\* The pass p of an operation stored as w: it knows the stored status, it works on
\* nothing that had ended when it looked, and a walk that has a node down is not
\* deleted under it.
InStep(p, w) ==
  /\ SameStatus(p.obj, w)
  /\ p.pc \in {"lock", "step", "walk", "claim", "call", "write"} => ~Terminal(p.obj.phase)
  /\ AtWork(p) => p.obj.phase = "Running"
  /\ p.then = "drop" => w.deleted
  /\ p.pc = "release" => p.then = "drop" \/ Terminal(p.obj.phase)
  /\ p.pc = "drop" => p.then = "drop"
  /\ p.pc = "walk" \/ (p.pc = "write" /\ p.do = "plan") => p.arg = p.obj.step
  /\ p.pc = "write" /\ p.do = "run" => p.obj.step = ""
  /\ p.pc \in {"claim", "call"} => p.obj.step \in CallSteps
  /\ p.pc \in {"lock", "step", "walk", "claim", "call", "write"} /\ p.obj.step \in DownSteps =>
       w.exists /\ ~w.deleted

\* An operation that has not begun is at no step, and one at its last step has ended.
Begun(w) ==
  /\ w.phase \in {"", "Pending"} => w.step = ""
  /\ w.step = "Completed" => Terminal(w.phase)

StepInv ==
  /\ ~At("idle") => InStep(pass, Op(pass.op))
  /\ \A o \in DOMAIN Action : Begun(Op(o))

-------------------------------------------------------------------------------
(* How a walk ends early.                                                  *)

\* A pass that ends a walk whose node may be down does so because the step is overdue.
EndsLate(p) ==
  p.pc = "write" /\ p.do = "finish" /\ p.then = "release" /\ p.arg # "Succeeded"
    /\ p.obj.step \in DownSteps => p.obj.late

\* No walk of a cluster that no action can address gets as far as a node.
NoWalk(p) ==
  /\ p.pc # "walk"
  /\ p.pc = "write" => p.do # "plan" /\ (p.do = "record" => p.arg \notin DownSteps)

EndInv ==
  /\ ~At("idle") => EndsLate(pass)
  /\ May("fatal") => NoWalk(pass) /\ \A o \in DOMAIN Action : Op(o).step \notin DownSteps
  /\ ~May("late") => \A o \in DOMAIN Action : ~Op(o).late

-------------------------------------------------------------------------------
(* The lock, seen through a cache that lags.                               *)

Gone == ~Stored(clusterLog).exists
Live(w) == w.exists /\ ~w.deleted /\ ~Terminal(w.phase)
Working(w) == Live(w) /\ w.step # ""

\* A walk that ended in time with its node perhaps down: the cluster object was gone.
Refused(w) == w.step \in DownSteps /\ Terminal(w.phase) /\ ~w.late
Engaged(w) == Working(w) \/ Refused(w)

\* The versions of the cluster object: once gone it stays gone, and names nobody.
GoesOnce(log) ==
  /\ \A i, j \in 1..Len(log) : i <= j /\ ~log[i].exists => ~log[j].exists
  /\ \A i \in 1..Len(log) : ~log[i].exists => log[i].lock = NoOp

\* Once it names o it does so for as long as it is there.
Lasts(log, o) ==
  \A i, j \in 1..Len(log) : i <= j /\ log[i].lock = o => log[j].lock = o \/ ~log[j].exists

\* The last version that is there names o.
Ends(log, o) ==
  \A j \in 1..Len(log) :
    log[j].exists /\ (j = Len(log) \/ ~log[j + 1].exists) => log[j].lock = o

\* A pass that may find itself in a cached version keeps the lock, one past the lock has
\* it, and one is refused for a cluster that is gone.
PassHolds(p, log) ==
  /\ p.pc = "lock" \/ PastLock(p) => Lasts(log, p.op)
  /\ PastLock(p) => Ends(log, p.op)
  /\ p.pc = "write" /\ p.then = "refuse" => ~Cached(log).exists

\* So does an operation that can still run a pass, or is at a step.
OpHolds(o, w, log) ==
  /\ Live(w) => Lasts(log, o)
  /\ Working(w) => Ends(log, o)
  /\ Refused(w) => ~Cached(log).exists

\* There is only one of those.
LockInv ==
  /\ GoesOnce(clusterLog)
  /\ PassHolds(pass, clusterLog)
  /\ \A o \in DOMAIN Action : OpHolds(o, Op(o), clusterLog)
  /\ \A o \in DOMAIN Action : PastLock(pass) /\ Engaged(Op(o)) => o = pass.op
  /\ \A o, p \in DOMAIN Action : Engaged(Op(o)) /\ Engaged(Op(p)) => o = p

\* With the cluster object read when it is current, the lock is simply held.
HoldInv == PastLock(pass) => Holder = pass.op \/ Gone

-------------------------------------------------------------------------------
(* The walk.                                                               *)

\* A node that is online, and not seen so, has come back since.
SeenBack == \A n \in Nodes : nodes[n] = "online" => n \in cycled \/ seen[n] = "online"

\* The nodes that have gone down, as far as a walk can tell: they are seen online again
\* only once they came back.
Left == {n \in Nodes : n \in cycled \/ (nodes[n] # "online" /\ seen[n] # "online")}

\* The walk v has brought every node back that it has passed, has its node down in the
\* steps after the shutdown and back in the last one, and succeeds at the end of its plan.
WalkAt(v, back, left) ==
  /\ \A j \in 1..Len(v.plan) : j < v.index => v.plan[j] \in back \cup v.skipped
  /\ AtNode(v) /\ v.step \in BackSteps => v.plan[v.index] \in left
  /\ AtNode(v) /\ v.step = "Rebalancing" => v.plan[v.index] \in back
  /\ v.phase = "Succeeded" => v.index > Len(v.plan)

\* What the pass p is about to write keeps it so.
WalkWrite(p, back, left) ==
  LET v == p.obj
      n == v.plan[v.index]
  IN /\ p.do = "record" /\ AtNode(v) /\ p.arg \in BackSteps => n \in left
     /\ p.do = "record" /\ AtNode(v) /\ p.arg = "Rebalancing" => n \in back
     /\ p.do \in {"next", "walked"} /\ p.arg # "skip" => n \in back
     /\ p.do = "walked" => v.index = Len(v.plan)
     /\ p.do = "finish" /\ p.arg = "Succeeded" => v.index > Len(v.plan)

WalkInv ==
  /\ SeenBack
  /\ \A o \in DOMAIN Action : Rolls(o) => WalkAt(Op(o), cycled, Left)
  /\ At("write") /\ Rolls(pass.op) => WalkWrite(pass, cycled, Left)

-------------------------------------------------------------------------------
(* The nodes that are down.                                                *)

\* The environments in which a walk knows what it sees: no node fails by itself, or the
\* stream of the nodes keeps up.
Sure == Prompt /\ (~May("fault") \/ ~May("nodestream"))

\* A node that leaves stays away, and is no longer down.
Gonners ==
  \A n \in Nodes : /\ Leaving(seen[n]) => Leaving(nodes[n])
                   /\ Leaving(nodes[n]) => n \notin down

\* A node that does not fail by itself is down because it was asked to be, starts again
\* because it was asked to, after it was seen down, and is seen online until it goes.
Orderly(n) ==
  /\ nodes[n] \in {"in_shutdown", "offline", "in_restart"} => n \in down
  /\ nodeJob[n] = "stop" => (nodes[n] = "online" /\ n \in down) \/ Leaving(nodes[n])
  /\ nodeJob[n] = "start" => nodes[n] = "offline" \/ Leaving(nodes[n])
  /\ seen[n] = "online" => nodes[n] # "in_restart" /\ nodeJob[n] # "start"
  /\ n \in down /\ nodes[n] = "online" => seen[n] = "online"

\* A node about to be asked to go down does not come back before that.
Steadfast(n) ==
  /\ nodes[n] # "in_restart" /\ nodeJob[n] # "start"
  /\ nodes[n] = "online" => seen[n] = "online"

\* The nodes that are not seen online while they are down.
Away == {n \in Nodes : n \in down => nodes[n] # "online" /\ seen[n] # "online"}

\* The walk o, stored as w, answers for node n being down: it stands at it, and it can go
\* on, or has ended late or for a cluster that is gone.
Takes(o, w, n, gone) ==
  /\ Rolls(o) /\ AtNode(w) /\ w.plan[w.index] = n /\ w.step \in DownSteps
  /\ Live(w) \/ (Terminal(w.phase) /\ (gone \/ w.late))

\* A walk past the shutdown does not see its node online while it is down.
DownAt(v, away) == AtNode(v) /\ v.step \in BackSteps => v.plan[v.index] \in away

\* What the pass p is about to write keeps it so, and leaves no node that is down.
DownWrite(p, off, away) ==
  LET v == p.obj
      n == v.plan[v.index]
  IN /\ p.do = "record" /\ AtNode(v) /\ p.arg \in BackSteps => n \in away
     /\ p.do = "record" /\ v.step \in DownSteps => p.arg \in DownSteps \cup {"Rebalancing"}
     /\ AtNode(v) /\ v.step \in DownSteps
          /\ (p.do \in {"next", "walked"} \/ (p.do = "record" /\ p.arg = "Rebalancing")) =>
            n \notin off

DownInv ==
  /\ Gonners
  /\ ~May("fault") => \A n \in Nodes : Orderly(n)
  /\ \A n \in down : \E o \in DOMAIN Action : Takes(o, Op(o), n, Gone)
  /\ \A o \in DOMAIN Action : Rolls(o) /\ Live(Op(o)) => DownAt(Op(o), Away)
  /\ At("write") /\ Rolls(pass.op) => DownWrite(pass, down, Away)
  /\ ~May("fault") /\ (At("claim") \/ At("call")) /\ Rolls(pass.op)
       /\ pass.obj.step = "ShuttingDownNode" => Steadfast(pass.obj.plan[pass.obj.index])

\* There is one walk, or no deadline ends one with its node down.
OneWalk == \A o, p \in DOMAIN Action : Rolls(o) /\ Rolls(p) => o = p
Single == ~May("late") \/ OneWalk

-------------------------------------------------------------------------------
(* The nodes that are out of service by themselves.                        *)

\* The environments in which a walk knows of them: they failed before it, and the stream
\* of the nodes keeps up.
Sighted == Prompt /\ ~May("nodestream") /\ (~May("fault") \/ May("early"))

Broken == Out \ down

\* From the check of the peers on only the walk's own node may be one of them.
OutAt(v, broken) ==
  AtNode(v) /\ v.step = "ShuttingDownNode" => broken \subseteq {v.plan[v.index]}

OutWrite(p, broken) ==
  p.do = "record" /\ p.arg = "ShuttingDownNode" /\ AtNode(p.obj) =>
    broken \subseteq {p.obj.plan[p.obj.index]}

OutInv ==
  /\ \A n \in Nodes : nodeJob[n] = "stop" => (nodes[n] = "online" /\ n \in down) \/ Leaving(nodes[n])
  /\ down = {} \/ Broken = {}
  /\ \A o \in DOMAIN Action : Rolls(o) => OutAt(Op(o), Broken)
  /\ At("write") /\ Rolls(pass.op) => OutWrite(pass, Broken)

-------------------------------------------------------------------------------
(* The cluster redistributes its data after a node came back.              *)

\* The environments in which the walk knows of it.
Calm == Prompt /\ ~May("fault") /\ ~May("clusterstream")

\* The nodes that are down and coming back.
Waking == {m \in down : nodes[m] = "in_restart" \/ nodeJob[m] = "start"}

\* The operation o can go on, or its pass began when it could.
Minds(o) ==
  Live(Op(o)) \/ (pass.op = o /\ pass.pc \in {"lock", "step", "walk", "claim", "call", "write"})

\* From the shutdown on only the walk's own node comes back, and a walk that has just left
\* a node it restarted left it when the data was in place.
RebalAt(v, rebal, waking) ==
  /\ AtNode(v) /\ v.step \in DownSteps => waking \subseteq {v.plan[v.index]}
  /\ AtNode(v) /\ v.step = "Rebalancing" => waking = {}
  /\ v.step \in {"CheckingPeers", "ShuttingDownNode"} /\ v.index > 1
       /\ v.plan[v.index - 1] \notin v.skipped => ~rebal /\ waking = {}

\* What the pass p is about to write keeps it so.
RebalWrite(p, rebal, waking) ==
  LET v == p.obj
      n == v.plan[v.index]
  IN /\ p.do = "record" /\ p.arg = "CheckingPeers" => v.step = ""
     /\ p.do = "record" /\ p.arg = "ShuttingDownNode" =>
          v.step = "CheckingPeers" /\ (AtNode(v) => waking \subseteq {n})
     /\ p.do = "record" /\ p.arg \in BackSteps => v.step \in DownSteps
     /\ p.do = "record" /\ p.arg = "Rebalancing" /\ AtNode(v) => waking = {}
     /\ p.do \in {"next", "walked"} /\ p.arg # "skip" =>
          v.step = "Rebalancing" /\ ~rebal /\ waking = {}

RebalInv ==
  /\ \A o \in DOMAIN Action : Rolls(o) =>
       /\ Op(o).step = "" => ~Planned(Op(o))
       /\ Minds(o) => RebalAt(Op(o), cl.rebal, Waking)
  /\ At("write") /\ Rolls(pass.op) => RebalWrite(pass, cl.rebal, Waking)

-------------------------------------------------------------------------------
(* Activations.                                                            *)

\* No operation but the Activate touches the cluster's status.
Lone ==
  \A o, p \in DOMAIN Action :
    Action[o] = "Activate" /\ Action[p] \in {"Activate", "Shutdown", "Start", "Restart"} => p = o

\* The environments in which an Activate knows how its attempt goes.
Aware == Prompt /\ ~May("clusterstream")

\* The attempt has begun.
Shows == cl.status = "in_activation"

\* An activation that the operation v asked for and that has not ended: v is covered by
\* its claim until the attempt shows, and by its grace after.
ActAt(v, shows) ==
  ~Terminal(v.phase) =>
    /\ v.step # ""
    /\ v.step = "Requesting" => v.claim = "live" \/ (v.claim = "expired" /\ shows)
    /\ v.step = "Awaiting" /\ v.settled => shows

\* A pass asks again, or lets it be asked again, when none of the n attempts is left.
ActPass(p, n) ==
  /\ p.pc = "claim" /\ p.obj.claim # "live" => n = 0
  /\ p.pc = "call" => n = 0 /\ p.obj.claim = "live"
  /\ p.pc = "write" /\ p.do = "retry" => n = 0
  /\ p.pc = "write" /\ p.do = "record" /\ p.arg = "Requesting" => p.obj.step = ""

ActInv ==
  /\ \A o \in DOMAIN Action : Action[o] = "Activate" =>
       /\ attempts = 0 \/ (attempts = 1 /\ ActAt(Op(o), Shows))
       /\ clJob = "none"
       /\ pass.op = o => ActPass(pass, attempts)
  /\ (\A o \in DOMAIN Action : Action[o] # "Activate") => attempts = 0
===============================================================================
