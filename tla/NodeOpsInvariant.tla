---------------------------- MODULE NodeOpsInvariant ----------------------------
(***************************************************************************)
(* The inductive invariants of NodeOps: why a call is only ever made under *)
(* the lock (LockInv), why no call is repeated under a live lease and no   *)
(* end is taken back (PromptInv), and why no lock is left behind (KeptInv).*)
(*                                                                         *)
(* CallUnderLock is far from inductive.  A pass may act on a copy of its   *)
(* operation, and on a copy of the node, that are both out of date; what   *)
(* saves it is that the two caches only move forward, that the claim lands *)
(* on the stored version alone, and that an operation which has given its  *)
(* node up cannot be seen at the start of its graph again.                 *)
(***************************************************************************)
EXTENDS NodeOps

-------------------------------------------------------------------------------
(* What an invariant tells of a version of an operation.                   *)

\* The operation has not entered its graph.
Virgin(v) == v.exists /\ v.step = ""

\* A pass that restores this version may make the call.
Early(v) == v.exists /\ ~v.deleted /\ ~Terminal(v.phase) /\ v.step = "Requesting"

\* The object is going or gone; the operation will do no more.
Dead(v)  == v.deleted \/ ~v.exists
Ended(v) == Terminal(v.phase) \/ Dead(v)

\* The phases before the graph go with no step.
Shaped(v) == v.phase \in {"", "Pending"} => v.step = ""

\* The node is this operation's, or there is no node left to protect.
Good(o) == Holder = o \/ NodeGone
NodeLocal == Stored(nodeLog).kind = "local"

\* Some version of the node between the cache and the API server names o.
Named(o) == \E i \in 1..Len(nodeLog) : nodeLog[i].lock = o
NoEarly(log) == \A i \in 1..Len(log) : ~Early(log[i])
NoTerminal(log) == \A i \in 1..Len(log) : ~Terminal(log[i].phase)

-------------------------------------------------------------------------------
(* The node's log: a node that stopped being local stays so, and unlocked. *)

NodeInv ==
  \A i \in 1..Len(nodeLog) :
    nodeLog[i].kind # "local" => nodeLog[i].lock = NoOp /\ ~NodeLocal

-------------------------------------------------------------------------------
(* The log of one operation.                                               *)

\* Versions before the graph come first, and a deletion is never undone.
LogShape(log) ==
  /\ \A i \in 1..Len(log) : Shaped(log[i])
  /\ \A i, j \in 1..Len(log) : i < j /\ Virgin(log[j]) => Virgin(log[i])
  /\ \A i, j \in 1..Len(log) : i < j /\ Dead(log[i]) => Dead(log[j])

\* Whoever can be read as about to call holds the node, or has ended.
LogEarly(o) == NoEarly(opsLog[o]) \/ Good(o) \/ Ended(Op(o))

\* No operation comes back from a terminal phase to the start of its graph.
LogRevived(o) ==
  \A i, j \in 1..Len(opsLog[o]) :
    i < j /\ Terminal(opsLog[o][i].phase) /\ Early(opsLog[o][j]) => NodeGone

\* While the cache shows it before its graph, it has not ended on a local node.
LogVirgin(o) == NodeLocal /\ Virgin(Cached(opsLog[o])) => NoTerminal(opsLog[o])

\* While the cache shows it before its graph, it has not given the node up.
LogNamed(o) ==
  LET v == Cached(opsLog[o]) IN Virgin(v) /\ ~v.deleted /\ Named(o) => Good(o)

OpInv(o) ==
  /\ LogShape(opsLog[o]) /\ LogEarly(o) /\ LogRevived(o)
  /\ LogVirgin(o) /\ LogNamed(o)

-------------------------------------------------------------------------------
(* The pass.                                                               *)

PastLock ==
  At("step") \/ At("claim") \/ (At("write") /\ pass.do \in {"run", "record", "wait"})

Releasing == At("release") \/ At("drop")

\* What the pass knows of the object it holds.
PassObject ==
  LET v == pass.obj IN
  /\ v.exists /\ Shaped(v)
  /\ ~Releasing /\ ~At("finalizer") => ~Terminal(v.phase)
  /\ At("lock") \/ At("step") \/ At("claim") \/ At("finalizer")
     \/ (At("write") /\ pass.do \in {"run", "wait", "finish"}) => ~v.deleted
  /\ At("claim") \/ At("call") => v.step = "Requesting"
  /\ Releasing => Terminal(v.phase) \/ v.deleted

\* What it decided to write.
PassWrite ==
  LET v == pass.obj IN
  At("write") =>
    /\ pass.then \in {"requeue", "step", "release", "refuse"}
    /\ pass.then = "step" <=> pass.do = "run"
    /\ pass.then \in {"release", "refuse"} <=> pass.do = "finish"
    /\ pass.do = "run" => v.step = ""
    /\ pass.do = "record" => pass.arg # "" /\ (pass.arg = "Requesting" => v.step = "")
    /\ pass.do = "wait" => v.step # ""
    /\ pass.do = "finish" => Terminal(pass.arg)
    /\ pass.do = "finish" /\ (NodeLocal \/ pass.arg = "Succeeded") => v.step # ""

\* An unstale pass holds the status that is stored.
PassFresh ==
  LET v == pass.obj  s == Op(pass.op) IN
  pass.fresh /\ ~Releasing =>
    /\ s.exists /\ s.phase = v.phase /\ s.step = v.step
    /\ ~s.deleted \/ (Good(pass.op) /\ ~At("finalizer"))

\* The cache is never behind what the pass has read.
PassCache ==
  LET v == pass.obj  c == Cached(opsLog[pass.op]) IN
  /\ v.step # "" => ~Virgin(c)
  /\ v.deleted /\ Releasing => Dead(c)

\* The pass's copy obeys what the versions of the log obey.
PassVirgin ==
  NodeLocal /\ pass.obj.step = ""
    => NoTerminal(opsLog[pass.op]) /\ ~Terminal(pass.obj.phase)
PassNamed ==
  pass.obj.step = "" /\ ~pass.obj.deleted /\ Named(pass.op) => Good(pass.op)
PassEarly == Early(pass.obj) => Good(pass.op) \/ Ended(Op(pass.op))

\* Before the graph nothing but the lock lets a pass on; a release is only begun
\* by an operation that will not call again; and a call is made under the lock.
PassLock ==
  /\ PastLock /\ pass.obj.step = "" => Good(pass.op)
  /\ Releasing => NoEarly(opsLog[pass.op]) \/ Ended(Op(pass.op)) \/ NodeGone
  /\ At("call") => Good(pass.op)

PassInv ==
  ~At("idle") =>
    /\ PassObject /\ PassWrite /\ PassFresh /\ PassCache
    /\ PassVirgin /\ PassNamed /\ PassEarly /\ PassLock

LockInv == NodeInv /\ (\A o \in Ops : OpInv(o)) /\ PassInv
-------------------------------------------------------------------------------
(* Operations read only once their cache has caught up: the pass knows the *)
(* status that is stored, whatever the user writes beside it.              *)

SameStatus(v, w) ==
  v.phase = w.phase /\ v.step = w.step /\ v.claim = w.claim /\ v.late = w.late

\* The finalizer keeps the object the pass works on, and nobody but the worker
\* writes its status.
PassKept ==
  ~At("idle") /\ ~At("finalizer") => Op(pass.op).exists /\ Op(pass.op).finalizer
PassInStep ==
  ~At("idle") /\ Op(pass.op).exists => SameStatus(pass.obj, Op(pass.op))

\* While a call is trusted to be in flight the step that made it is over, or its
\* claim still stands in the API server.
Accounted(v) ==
  \/ ~v.exists \/ Terminal(v.phase)
  \/ v.step \in {"Departing", "Awaiting", "Completed"}
  \/ v.step = "Requesting" /\ v.claim = "live"
CallsAccounted == \A o \in Ops : callState[o] = "live" => Accounted(Op(o))

PromptInv == PassKept /\ PassInStep /\ CallsAccounted /\ OneCallPerLease

-------------------------------------------------------------------------------
(* The node read only once its cache has caught up: a lock is given back.  *)

\* A finalizer goes only with the object, and a cache that shows one shows that
\* the object is going before it is gone.
FinalizerStays(log) ==
  \A i, j \in 1..Len(log) :
    i < j /\ log[i].finalizer => log[j].finalizer \/ ~log[j].exists
GoneAnnounced(log) ==
  ~Stored(log).exists => \A i \in 1..Len(log) : Dead(log[i]) \/ ~log[i].finalizer

\* A pass that may still take the lock works on an object that is there.
PassAlive ==
  ~At("idle") /\ ~At("finalizer") /\ ~Releasing
    => Op(pass.op).exists /\ Op(pass.op).finalizer

\* Only a pass that read the object as going takes its finalizer away.
PassDrops ==
  At("drop") \/ (At("release") /\ pass.then = "drop") => pass.obj.deleted

\* The holder is kept by its finalizer until the lock is gone.
HolderKept ==
  /\ \A o \in Ops : Holder = o => Op(o).exists /\ Op(o).finalizer
  /\ At("drop") => Holder # pass.op

\* An operation that has ended is either looked at again or releasing the node.
Unseen(o) == Terminal(Op(o).phase) /\ Current(opsLog[o]) /\ o \notin queue
ReleaseOwed ==
  /\ \A o \in Ops : Unseen(o) /\ Holder = o => pass.op = o /\ At("release")
  /\ ~At("idle") /\ ~At("finalizer") /\ ~Releasing => ~Unseen(pass.op)

KeptInv ==
  /\ \A o \in Ops : FinalizerStays(opsLog[o]) /\ GoneAnnounced(opsLog[o])
  /\ PassAlive /\ PassDrops /\ HolderKept /\ ReleaseOwed
===============================================================================
