-------------------------- MODULE ProvisioningProofs --------------------------
(***************************************************************************)
(* Proofs about Provisioning, for every set of nodes and workers, every    *)
(* limit, lag and number of faults: every variable keeps its type; and,    *)
(* with one node on each worker and a pass that reads its own node         *)
(* promptly, an add is only asked for under a slot; and, where a failed    *)
(* node is not taken up again because its worker leaves, the cap holds     *)
(* until the control plane has finished with each add.                     *)
(***************************************************************************)
EXTENDS Provisioning, InformerProofs, FiniteSetTheorems

-------------------------------------------------------------------------------
(* Types.                                                                  *)

\* The object is being deleted or is gone.
Going(v) == v.deleted \/ ~v.exists

\* A pass that takes the finalizer away, or releases the slot first.
Dropping == At("drop") \/ (At("release") /\ pass.then = "drop")

NodesOK ==
  /\ nodeLog \in [Nodes -> Seq(NodeObj)]
  /\ \A n \in Nodes : Len(nodeLog[n]) \in 1..(MaxLag + 1)
ClusterOK == clusterLog \in Seq(ClusterObj) /\ Len(clusterLog) \in 1..(MaxLag + 1)
PassOK == pass \in PassObj /\ (~At("idle") => pass.node \in Nodes)
BackendOK ==
  adds \in [Workers -> 0..MaxAdds] /\ made \in [Workers -> Made] /\ seen \in [Workers -> Made]
WorldOK == away \subseteq Workers /\ faults \in 0..MaxFaults

\* A slot is taken on the cluster that was read, and a release knows what follows.
PassPlain ==
  /\ pass.fresh => At("take") /\ Current(clusterLog)
  /\ At("release") => pass.then # ""

\* A deletion is never undone, and what is written after it, at most once before
\* the cache catches up, differs from it.
GoingLast(log) ==
  /\ \A i, j \in 1..Len(log) : i < j /\ Going(log[i]) => Going(log[j])
  /\ \A i \in 1..Len(log) :
       i < Len(log) /\ log[i].deleted => i = 1 /\ Len(log) = 2 /\ log[1] # log[2]

\* So an object that is still what the pass read is the one the cache shows.
PassDrops ==
  Dropping =>
    /\ pass.obj.deleted /\ Going(Node(pass.node))
    /\ pass.obj = Node(pass.node) => Current(nodeLog[pass.node])

TypeInv ==
  TypeOK /\ PassPlain /\ (\A n \in Nodes : GoingLast(nodeLog[n])) /\ PassDrops

\* TypeOK is these parts, before and after a step.
LEMMA TypeParts == TypeOK <=> NodesOK /\ ClusterOK /\ PassOK /\ BackendOK /\ WorldOK
  BY DEF TypeOK, NodesOK, ClusterOK, PassOK, BackendOK, WorldOK
LEMMA TypePartsNext ==
  ASSUME NodesOK', ClusterOK', PassOK', BackendOK', WorldOK'
  PROVE  TypeOK'
  BY DEF TypeOK, NodesOK, ClusterOK, PassOK, BackendOK, WorldOK

\* The objects a pass makes are objects.
LEMMA ObjTypes ==
  /\ NewNode \in NodeObj /\ [NewNode EXCEPT !.exists = FALSE] \in NodeObj
  /\ Idle \in PassObj /\ Idle.pc = "idle" /\ Idle.fresh = FALSE
<1>1. NewNode \in NodeObj /\ [NewNode EXCEPT !.exists = FALSE] \in NodeObj
  BY DEF NewNode, NodeObj, Steps
<1> QED
  BY <1>1 DEF Idle, PassObj, Steps, Made

\* A status mutation returns a node, and keeps its existence and its deletion.
LEMMA MutateType ==
  ASSUME NEW v \in NodeObj, NEW do \in Steps \cup {"uuid", "lost", "status", "fail"},
         NEW reading \in Made
  PROVE  LET w == Mutate(v, do, reading) IN
         w \in NodeObj /\ w.exists = v.exists /\ w.deleted = v.deleted
<1>1. CASE do \in Steps
  <2>1. do \notin {"uuid", "lost", "status", "fail"}
    BY <1>1 DEF Steps, Gates, Claimed
  <2>2. Mutate(v, do, reading) = [v EXCEPT !.step = do, !.late = FALSE, !.failed = FALSE]
    BY <1>1, <2>1 DEF Mutate
  <2> QED
    BY <1>1, <2>2 DEF NodeObj
<1>2. CASE do = "uuid"
  <2>1. do \notin Steps
    BY <1>2 DEF Steps, Gates, Claimed
  <2> QED
    BY <1>2, <2>1 DEF Mutate, NodeObj, Steps
<1>3. CASE do = "status"
  <2>1. do \notin Steps
    BY <1>3 DEF Steps, Gates, Claimed
  <2> QED
    BY <1>3, <2>1 DEF Mutate, NodeObj
<1>4. CASE do = "lost"
  <2>1. do \notin Steps
    BY <1>4 DEF Steps, Gates, Claimed
  <2> QED
    BY <1>4, <2>1 DEF Mutate, NodeObj
<1>5. CASE do = "fail"
  <2>1. do \notin Steps
    BY <1>5 DEF Steps, Gates, Claimed
  <2> QED
    BY <1>5, <2>1 DEF Mutate, NodeObj
<1> QED
  BY <1>1, <1>2, <1>3, <1>4, <1>5

LEMMA DeletedType ==
  ASSUME NEW v \in NodeObj
  PROVE  LET w == [v EXCEPT !.deleted = TRUE] IN
         w \in NodeObj /\ w.deleted /\ w.late = v.late
  BY DEF NodeObj

\* No mutation makes a node late.
LEMMA MutateLate ==
  ASSUME NEW v \in NodeObj, NEW do \in Steps \cup {"uuid", "lost", "status", "fail"},
         NEW reading \in Made, Mutate(v, do, reading).late
  PROVE  v.late
<1>1. CASE do \in Steps
  <2>1. Mutate(v, do, reading) = [v EXCEPT !.step = do, !.late = FALSE, !.failed = FALSE]
    BY <1>1 DEF Mutate, Steps, Gates, Claimed
  <2> QED
    BY <2>1 DEF NodeObj
<1>2. CASE do \notin Steps
  BY <1>2 DEF Mutate, NodeObj
<1> QED
  BY <1>1, <1>2

\* What the pieces make of the pass.
LEMMA PieceMoves ==
  ASSUME BackendOK, NEW n \in Nodes
  PROVE  /\ End => pass' = Idle
         /\ \A then \in {"fail", "drop", "end"} : Release(n, then) =>
              /\ pass' \in PassObj /\ pass'.node = n /\ pass'.pc = "release"
              /\ pass'.then = then /\ pass'.fresh = FALSE
         /\ \A do \in Steps \cup {"uuid", "lost", "status", "fail"} : Write(n, do) =>
              /\ pass' \in PassObj /\ pass'.node = n /\ pass'.pc = "write"
              /\ pass'.do = do /\ pass'.fresh = FALSE
              /\ pass'.reading = IF do \in {"uuid", "status"} THEN seen[On[n]] ELSE "none"
         /\ Post(n) => /\ pass' \in PassObj /\ pass'.node = n /\ pass'.pc = "post"
                       /\ pass'.fresh = FALSE
<1>1. On[n] \in Workers /\ seen[On[n]] \in Made
  BY ProvisioningAssumption DEF BackendOK
<1>2. ASSUME NEW then \in {"fail", "drop", "end"}, Release(n, then)
      PROVE  /\ pass' \in PassObj /\ pass'.node = n /\ pass'.pc = "release"
             /\ pass'.then = then /\ pass'.fresh = FALSE
  BY <1>2, ObjTypes DEF Release, Start, Idle, PassObj, Steps, Made
<1>3. ASSUME NEW do \in Steps \cup {"uuid", "lost", "status", "fail"}, Write(n, do)
      PROVE  /\ pass' \in PassObj /\ pass'.node = n /\ pass'.pc = "write"
             /\ pass'.do = do /\ pass'.fresh = FALSE
             /\ pass'.reading = IF do \in {"uuid", "status"} THEN seen[On[n]] ELSE "none"
  <2>1. PICK r \in Made : r = IF do \in {"uuid", "status"} THEN seen[On[n]] ELSE "none"
    BY <1>1 DEF Made
  <2>2. pass' = [Start(n, "write") EXCEPT !.do = do, !.reading = r]
    BY <1>3, <2>1 DEF Write
  <2> QED
    BY <2>1, <2>2, ObjTypes DEF Start, Idle, PassObj
<1>4. ASSUME Post(n) PROVE /\ pass' \in PassObj /\ pass'.node = n /\ pass'.pc = "post"
                           /\ pass'.fresh = FALSE
  BY <1>4, ObjTypes DEF Post, Start, Idle, PassObj, Steps, Made
<1> QED
  BY <1>2, <1>3, <1>4 DEF End

\* The pass is over, or goes on to a write, an add or a release that is not a
\* teardown's.
Moved(n) ==
  \/ pass' = Idle
  \/ /\ pass' \in PassObj /\ pass'.node = n /\ pass'.pc \in {"write", "post", "release"}
     /\ pass'.fresh = FALSE /\ (pass'.pc = "release" => pass'.then \in {"fail", "end"})

LEMMA MovedPieces ==
  ASSUME BackendOK, NEW n \in Nodes
  PROVE  /\ End => Moved(n)
         /\ Post(n) => Moved(n)
         /\ Release(n, "fail") => Moved(n)
         /\ Release(n, "end") => Moved(n)
         /\ \A do \in Steps \cup {"uuid", "lost", "status", "fail"} : Write(n, do) => Moved(n)
  BY PieceMoves DEF Moved

LEMMA MovedOK ==
  ASSUME NEW n \in Nodes, Moved(n)
  PROVE  PassOK' /\ PassPlain' /\ PassDrops'
<1>1. CASE pass' = Idle
  <2>1. pass'.pc = "idle" /\ pass'.fresh = FALSE /\ pass' \in PassObj
    BY <1>1, ObjTypes
  <2> QED
    BY <2>1 DEF PassOK, PassPlain, PassDrops, Dropping, At
<1>2. CASE pass' # Idle
  BY <1>2 DEF Moved, PassOK, PassPlain, PassDrops, Dropping, At
<1> QED
  BY <1>1, <1>2

\* The steps a pass may record.
LEMMA StepNames ==
  /\ {"", "Checking", "AwaitingSlot", "Posting", "Resolving", "AwaitingWorker", "Adopting"}
       = Steps
  BY DEF Steps, Gates, Claimed

\* The logs of the nodes, and their ends.
LEMMA NodeEnds ==
  ASSUME NodesOK, NEW n \in Nodes
  PROVE  /\ nodeLog[n] \in Seq(NodeObj) /\ Len(nodeLog[n]) \in Nat /\ Len(nodeLog[n]) > 0
         /\ Cached(nodeLog[n]) \in NodeObj /\ Node(n) \in NodeObj
         /\ Cached(nodeLog[n]) = nodeLog[n][1] /\ Node(n) = nodeLog[n][Len(nodeLog[n])]
         /\ Current(nodeLog[n]) => Cached(nodeLog[n]) = Node(n)
<1>1. nodeLog[n] \in Seq(NodeObj) /\ Len(nodeLog[n]) \in Nat /\ Len(nodeLog[n]) > 0
  BY ProvisioningAssumption DEF NodesOK
<1> QED
  BY <1>1, LogEnds DEF Node, Stored

LEMMA ClusterEnds ==
  ASSUME ClusterOK
  PROVE  /\ clusterLog \in Seq(ClusterObj) /\ Len(clusterLog) \in Nat /\ Len(clusterLog) > 0
         /\ Cached(clusterLog) \in ClusterObj /\ Stored(clusterLog) \in ClusterObj
         /\ Cached(clusterLog) = clusterLog[1]
         /\ Stored(clusterLog) = clusterLog[Len(clusterLog)]
         /\ Current(clusterLog) => Cached(clusterLog) = Stored(clusterLog)
<1>1. clusterLog \in Seq(ClusterObj) /\ Len(clusterLog) \in Nat /\ Len(clusterLog) > 0
  BY ProvisioningAssumption DEF ClusterOK
<1> QED
  BY <1>1, LogEnds DEF Stored

LEMMA AtLeastOne == \A k \in Nat : (k > 0 => k = 1 \/ k > 1) /\ (k > 1 => k # 1)
  OBVIOUS

\* A pass reads, decides, and stands where it may.
LEMMA ReconcileType ==
  ASSUME TypeInv, NEW n \in Nodes, Reconcile(n)
  PROVE  PassOK' /\ PassPlain' /\ PassDrops'
<1> DEFINE v == Cached(nodeLog[n])
<1>1. /\ NodesOK /\ ClusterOK /\ BackendOK /\ GoingLast(nodeLog[n])
      /\ UNCHANGED <<nodeLog, clusterLog>>
  BY TypeParts DEF TypeInv, Reconcile, api
<1>2. v \in NodeObj /\ Cached(clusterLog) \in ClusterObj
  BY <1>1, NodeEnds, ClusterEnds
<1>3. CASE Moved(n)
  BY <1>3, MovedOK
<1>4. CASE v.deleted /\ Teardown(n, v) /\ pass' # Idle
  <2>1. /\ pass'.obj = v /\ pass'.node = n /\ pass'.fresh = FALSE
        /\ pass'.pc \in {"release", "drop"} /\ pass'.then \in {"", "drop"}
        /\ (pass'.pc = "release" => pass'.then = "drop")
    <3>1. \/ pass' = [Start(n, "release") EXCEPT !.obj = v, !.then = "drop"]
          \/ pass' = [Start(n, "drop") EXCEPT !.obj = v]
      BY <1>4 DEF Teardown, End
    <3> HIDE DEF v
    <3> QED
      BY <3>1 DEF Start, Idle
  <2>2. pass' \in PassObj
    <3>1. \/ pass' = [Start(n, "release") EXCEPT !.obj = v, !.then = "drop"]
          \/ pass' = [Start(n, "drop") EXCEPT !.obj = v]
      BY <1>4 DEF Teardown, End
    <3>2. v \in NodeObj /\ Start(n, "release") \in PassObj /\ Start(n, "drop") \in PassObj
      BY <1>2, ObjTypes DEF Start, Idle, PassObj
    <3> HIDE DEF v
    <3> QED
      BY <3>1, <3>2 DEF PassObj
  <2>3. Going(Node(n)) /\ (v = Node(n) => Current(nodeLog[n]))
    <3>1. /\ Len(nodeLog[n]) \in Nat /\ Len(nodeLog[n]) > 0
          /\ v = nodeLog[n][1] /\ Node(n) = nodeLog[n][Len(nodeLog[n])]
      BY <1>1, NodeEnds
    <3>2. CASE Len(nodeLog[n]) = 1
      BY <1>4, <3>1, <3>2 DEF Going, Current
    <3>3. CASE Len(nodeLog[n]) > 1
      <4>1. 1 \in 1..Len(nodeLog[n]) /\ Len(nodeLog[n]) \in 1..Len(nodeLog[n])
        BY <3>1
      <4>2. Len(nodeLog[n]) = 2 /\ nodeLog[n][1] # nodeLog[n][2]
        BY <1>1, <1>4, <3>1, <3>3, <4>1 DEF GoingLast
      <4> QED
        BY <1>1, <1>4, <3>1, <3>3, <4>1, <4>2 DEF GoingLast, Going
    <3>4. Len(nodeLog[n]) = 1 \/ Len(nodeLog[n]) > 1
      BY <3>1, AtLeastOne
    <3> QED
      BY <3>2, <3>3, <3>4
  <2>4. Going(Node(n))' /\ ((v = Node(n)) => Current(nodeLog[n]))'
    BY <1>1, <2>3 DEF Going, Node, Current, Stored
  <2> QED
    BY <1>1, <1>4, <2>1, <2>2, <2>4 DEF PassOK, PassPlain, PassDrops, Dropping, At
<1>5. CASE ~v.deleted /\ ~v.uuid /\ Provision(n, v) /\ ~Moved(n)
  <2>1. v.step = "AwaitingSlot" /\ AwaitSlot(n)
    BY <1>1, <1>5, MovedPieces, StepNames DEF Provision, PerformNodeStep
  <2>2. PICK held \in SUBSET Nodes :
          pass' = [Start(n, "take") EXCEPT !.held = held, !.fresh = Current(clusterLog)]
    <3>1. heldSlots(Cached(clusterLog).slots) \in SUBSET Nodes
      BY <1>2 DEF heldSlots, ClusterObj
    <3> QED
      BY <1>1, <1>5, <2>1, <3>1, MovedPieces, StepNames DEF AwaitSlot
  <2>3. pass' \in PassObj /\ pass'.node = n /\ pass'.pc = "take"
        /\ pass'.fresh = Current(clusterLog)
    BY <2>2, ObjTypes DEF Start, Idle, PassObj, Current
  <2> QED
    BY <1>1, <2>3 DEF PassOK, PassPlain, PassDrops, Dropping, At, Current
<1>6. CASE ~v.deleted /\ v.uuid /\ SyncStatus(n)
  BY <1>1, <1>6, MovedPieces, MovedOK DEF SyncStatus
<1>7. CASE v.deleted /\ Teardown(n, v) /\ pass' = Idle
  BY <1>7, <1>3 DEF Moved
<1> QED
  BY <1>3, <1>4, <1>5, <1>6, <1>7 DEF Reconcile

\* What a write on a log may be.
LEMMA GoingWritten ==
  ASSUME NEW log \in Seq(NodeObj), Len(log) > 0, NEW v \in NodeObj, GoingLast(log),
         Going(Stored(log)) => Going(v),
         \A i \in 1..Len(log) : log[i].deleted => Len(log) = 1 /\ v # Stored(log)
  PROVE  GoingLast(Written(log, v))
<1> DEFINE L == Written(log, v)
<1>1. /\ Len(L) = Len(log) + 1 /\ Stored(L) = v /\ L[Len(L)] = v
      /\ \A i \in 1..Len(log) : L[i] = log[i]
  BY LogGrown
<1>2. Len(log) \in Nat
  OBVIOUS
<1> HIDE DEF L
<1>3. ASSUME NEW i \in 1..Len(L), NEW j \in 1..Len(L), i < j, Going(L[i])
      PROVE  Going(L[j])
  <2>1. i \in 1..Len(log) /\ L[i] = log[i]
    BY <1>1, <1>2, <1>3
  <2>2. CASE j = Len(L)
    <3>1. Going(Stored(log))
      <4>1. i = Len(log) \/ i < Len(log)
        BY <1>2, <2>1
      <4> QED
        BY <1>2, <1>3, <2>1, <4>1 DEF GoingLast, Stored
    <3> QED
      BY <1>1, <2>2, <3>1
  <2>3. CASE j # Len(L)
    <3>1. j \in 1..Len(log) /\ L[j] = log[j]
      BY <1>1, <1>2, <1>3, <2>3
    <3> QED
      BY <1>3, <2>1, <3>1 DEF GoingLast
  <2> QED
    BY <2>2, <2>3
<1>4. ASSUME NEW i \in 1..Len(L), i < Len(L), L[i].deleted
      PROVE  i = 1 /\ Len(L) = 2 /\ L[1] # L[2]
  <2>1. i \in 1..Len(log) /\ L[i] = log[i]
    BY <1>1, <1>2, <1>4
  <2>2. Len(log) = 1 /\ v # Stored(log)
    BY <1>4, <2>1
  <2>3. i = 1 /\ Len(L) = 2 /\ L[1] = Stored(log) /\ L[2] = v
    BY <1>1, <1>2, <2>1, <2>2 DEF Stored
  <2> QED
    BY <2>2, <2>3
<1>5. GoingLast(L)
  BY <1>3, <1>4 DEF GoingLast
<1> QED
  BY <1>5 DEF L

LEMMA GoingDelivered ==
  ASSUME NEW log \in Seq(NodeObj), Len(log) > 1, GoingLast(log)
  PROVE  GoingLast(Delivered(log))
<1> DEFINE L == Delivered(log)
<1>1. Len(L) = Len(log) - 1 /\ \A i \in 1..Len(L) : L[i] = log[i + 1]
  BY LogDelivered
<1>2. Len(log) \in Nat
  OBVIOUS
<1> HIDE DEF L
<1>3. ASSUME NEW i \in 1..Len(L), NEW j \in 1..Len(L), i < j, Going(L[i])
      PROVE  Going(L[j])
  <2>1. i + 1 \in 1..Len(log) /\ j + 1 \in 1..Len(log) /\ i + 1 < j + 1
    BY <1>1, <1>2, <1>3
  <2> QED
    BY <1>1, <1>3, <2>1 DEF GoingLast
<1>4. ASSUME NEW i \in 1..Len(L), i < Len(L), L[i].deleted
      PROVE  FALSE
  <2>1. i + 1 \in 1..Len(log) /\ i + 1 < Len(log) /\ i + 1 # 1 /\ log[i + 1].deleted
    BY <1>1, <1>2, <1>4
  <2> QED
    BY <2>1 DEF GoingLast
<1>5. GoingLast(L)
  BY <1>3, <1>4 DEF GoingLast
<1> QED
  BY <1>5 DEF L

\* One node's log moves.
LEMMA NodeMoves ==
  ASSUME TypeInv, NEW n \in Nodes, NEW L \in Seq(NodeObj), Len(L) \in 1..(MaxLag + 1),
         GoingLast(L), nodeLog' = [nodeLog EXCEPT ![n] = L]
  PROVE  /\ NodesOK' /\ \A m \in Nodes : GoingLast(nodeLog[m])'
         /\ nodeLog'[n] = L /\ \A m \in Nodes : m # n => nodeLog'[m] = nodeLog[m]
<1>1. NodesOK /\ \A m \in Nodes : GoingLast(nodeLog[m])
  BY TypeParts DEF TypeInv
<1>2. /\ nodeLog'[n] = L /\ \A m \in Nodes : m # n => nodeLog'[m] = nodeLog[m]
      /\ nodeLog' \in [Nodes -> Seq(NodeObj)]
  BY <1>1 DEF NodesOK
<1>3. \A m \in Nodes : GoingLast(nodeLog'[m])
  BY <1>1, <1>2
<1>4. \A m \in Nodes : Len(nodeLog'[m]) \in 1..(MaxLag + 1)
  BY <1>1, <1>2 DEF NodesOK
<1> QED
  BY <1>2, <1>3, <1>4 DEF NodesOK

\* An object is written.
LEMMA NodeWritten ==
  ASSUME TypeInv, NEW n \in Nodes, NEW v \in NodeObj, Len(nodeLog[n]) <= MaxLag,
         Going(Node(n)) => Going(v),
         \A i \in 1..Len(nodeLog[n]) :
           nodeLog[n][i].deleted => Len(nodeLog[n]) = 1 /\ v # Node(n),
         nodeLog' = [nodeLog EXCEPT ![n] = Written(nodeLog[n], v)]
  PROVE  /\ NodesOK' /\ \A m \in Nodes : GoingLast(nodeLog[m])'
         /\ nodeLog'[n] = Written(nodeLog[n], v)
         /\ \A m \in Nodes : m # n => nodeLog'[m] = nodeLog[m]
<1>1. GoingLast(nodeLog[n]) /\ nodeLog[n] \in Seq(NodeObj) /\ Len(nodeLog[n]) > 0
      /\ Len(nodeLog[n]) \in Nat
  BY NodeEnds, TypeParts DEF TypeInv
<1>2. Written(nodeLog[n], v) \in Seq(NodeObj)
      /\ Len(Written(nodeLog[n], v)) \in 1..(MaxLag + 1)
  BY <1>1, LogWritten, ProvisioningAssumption
<1>3. GoingLast(Written(nodeLog[n], v))
  BY <1>1, GoingWritten DEF Node
<1> QED
  BY <1>2, <1>3, NodeMoves

\* The steps that leave the nodes alone, and the pass's obj, keep PassDrops.
LEMMA TypeInit == Init => TypeInv
<1> SUFFICES ASSUME Init PROVE TypeInv
  OBVIOUS
<1>1. NewNode \in NodeObj /\ Idle \in PassObj /\ Idle.pc = "idle" /\ Idle.fresh = FALSE
  BY ObjTypes
<1>2. NodesOK
  <2>1. nodeLog = [n \in Nodes |-> <<NewNode>>]
    BY DEF Init
  <2> QED
    BY <1>1, <2>1, ProvisioningAssumption DEF NodesOK
<1>3. ClusterOK
  <2>1. clusterLog = <<[slots |-> {}, tasks |-> FALSE]>>
    BY DEF Init
  <2> QED
    BY <2>1, ProvisioningAssumption DEF ClusterOK, ClusterObj
<1>4. PassOK
  BY <1>1 DEF Init, PassOK, At
<1>5. BackendOK
  <2>1. /\ adds = [w \in Workers |-> 0] /\ made = [w \in Workers |-> "none"] /\ seen = made
    BY DEF Init
  <2> QED
    BY <2>1, ProvisioningAssumption DEF BackendOK, Made
<1>6. WorldOK
  <2>1. away = {} /\ faults = 0
    BY DEF Init
  <2> QED
    BY <2>1, ProvisioningAssumption DEF WorldOK
<1>7. PassPlain /\ PassDrops
  BY <1>1 DEF Init, PassPlain, PassDrops, Dropping, At
<1>8. \A n \in Nodes : GoingLast(nodeLog[n])
  <2> TAKE n \in Nodes
  <2>1. nodeLog[n] = <<NewNode>>
    BY DEF Init
  <2>2. Len(nodeLog[n]) = 1
    BY <2>1
  <2> QED
    BY <2>2 DEF GoingLast
<1> QED
  BY <1>2, <1>3, <1>4, <1>5, <1>6, <1>7, <1>8, TypeParts DEF TypeInv

\* What the pass rests on when only the nodes' logs move: the versions stored, and
\* that a log the pass found current stays so.
LEMMA TypeFrame ==
  ASSUME TypeInv, UNCHANGED nodeLog
  PROVE  NodesOK' /\ \A m \in Nodes : GoingLast(nodeLog[m])'
<1>1. NodesOK /\ \A m \in Nodes : GoingLast(nodeLog[m])
  BY TypeParts DEF TypeInv
<1> QED
  BY <1>1 DEF NodesOK

LEMMA ClusterWritten ==
  ASSUME ClusterOK, NEW c \in ClusterObj, Len(clusterLog) <= MaxLag,
         clusterLog' = Written(clusterLog, c)
  PROVE  ClusterOK'
<1>1. clusterLog \in Seq(ClusterObj) /\ Len(clusterLog) > 0 /\ Len(clusterLog) \in Nat
  BY ClusterEnds
<1> QED
  BY <1>1, LogWritten, ProvisioningAssumption DEF ClusterOK

LEMMA TypeTake ==
  ASSUME TypeInv, TakeSlot
  PROVE  TypeInv'
<1>1. /\ NodesOK /\ ClusterOK /\ PassOK /\ BackendOK /\ WorldOK /\ At("take")
      /\ UNCHANGED <<nodeLog, backend, world>>
  BY TypeParts DEF TypeInv, TakeSlot
<1>2. PICK n \in Nodes : n = pass.node
  BY <1>1 DEF PassOK, At
<1>3. Moved(n)
  BY <1>1, <1>2, MovedPieces, StepNames DEF TakeSlot
<1>4. PassOK' /\ PassPlain' /\ PassDrops'
  BY <1>3, MovedOK
<1>5. ClusterOK'
  <2>1. CASE TakeLands
    <3>1. pass.held \cup {pass.node} \subseteq Nodes
      BY <1>1, <1>2 DEF PassOK, PassObj
    <3>2. PICK c \in ClusterObj :
            c = [Stored(clusterLog) EXCEPT !.slots = pass.held \cup {pass.node}]
      BY <1>1, <3>1, ClusterEnds DEF ClusterObj
    <3>3. clusterLog' = Written(clusterLog, c)
      BY <2>1, <3>2 DEF TakeSlot
    <3>4. Current(clusterLog)
      BY <2>1 DEF TypeInv, PassPlain, TakeLands
    <3>5. Len(clusterLog) <= MaxLag
      BY <3>4, ProvisioningAssumption DEF Current
    <3> QED
      BY <1>1, <3>3, <3>5, ClusterWritten
  <2>2. CASE ~TakeLands
    BY <1>1, <2>2 DEF TakeSlot, ClusterOK
  <2> QED
    BY <2>1, <2>2
<1>6. BackendOK' /\ WorldOK'
  BY <1>1 DEF BackendOK, WorldOK, backend, world
<1> QED
  BY <1>1, <1>4, <1>5, <1>6, TypeFrame, TypePartsNext DEF TypeInv

LEMMA TypePost ==
  ASSUME TypeInv, PostNode
  PROVE  TypeInv'
<1>1. /\ NodesOK /\ ClusterOK /\ PassOK /\ BackendOK /\ WorldOK /\ At("post")
      /\ UNCHANGED <<nodeLog, clusterLog, made, seen, away>>
  BY TypeParts DEF TypeInv, PostNode, api
<1>2. PICK n \in Nodes : n = pass.node
  BY <1>1 DEF PassOK, At
<1>3. Moved(n)
  BY <1>1, <1>2, MovedPieces, StepNames DEF PostNode
<1>4. PassOK' /\ PassPlain' /\ PassDrops'
  BY <1>3, MovedOK
<1>5. adds' \in [Workers -> 0..MaxAdds]
  <2>1. On[n] \in Workers
    BY ProvisioningAssumption
  <2>2. \/ adds' = adds
        \/ adds' = [adds EXCEPT ![On[n]] = IF @ < MaxAdds THEN @ + 1 ELSE @]
    BY <1>2 DEF PostNode
  <2> QED
    BY <1>1, <2>1, <2>2, ProvisioningAssumption DEF BackendOK
<1>6. faults' \in 0..MaxFaults
  BY <1>1, ProvisioningAssumption DEF PostNode, Fault, WorldOK
<1>7. ClusterOK' /\ BackendOK' /\ WorldOK'
  BY <1>1, <1>5, <1>6 DEF BackendOK, WorldOK, ClusterOK
<1> QED
  BY <1>1, <1>4, <1>7, TypeFrame, TypePartsNext DEF TypeInv

LEMMA TypeWrite ==
  ASSUME TypeInv, WriteStatus
  PROVE  TypeInv'
<1>1. /\ NodesOK /\ ClusterOK /\ PassOK /\ BackendOK /\ WorldOK /\ At("write")
      /\ UNCHANGED <<clusterLog, backend, world>>
  BY TypeParts DEF TypeInv, WriteStatus
<1>2. PICK n \in Nodes : n = pass.node
  BY <1>1 DEF PassOK, At
<1> DEFINE log == nodeLog[n]
<1>3. Moved(n)
  BY <1>1, <1>2, MovedPieces DEF WriteStatus
<1>4. PassOK' /\ PassPlain' /\ PassDrops'
  BY <1>3, MovedOK
<1>5. log \in Seq(NodeObj) /\ Len(log) \in Nat /\ Len(log) > 0 /\ Cached(log) \in NodeObj
      /\ (Current(log) => Cached(log) = Node(n)) /\ Node(n) = log[Len(log)]
  BY <1>1, NodeEnds
<1>6. PICK v \in NodeObj : /\ v = Mutate(Cached(log), pass.do, pass.reading)
                           /\ v.exists = Cached(log).exists /\ v.deleted = Cached(log).deleted
  <2>1. pass.do \in Steps \cup {"uuid", "lost", "status", "fail"} /\ pass.reading \in Made
    BY <1>1 DEF PassOK, PassObj
  <2> QED
    BY <1>5, <2>1, MutateType
<1>7. \/ UNCHANGED nodeLog
      \/ /\ v # Cached(log) /\ Current(log)
         /\ nodeLog' = [nodeLog EXCEPT ![n] = Written(log, v)]
  BY <1>2, <1>6 DEF WriteStatus, StatusLands
<1>8. NodesOK' /\ \A m \in Nodes : GoingLast(nodeLog[m])'
  <2>1. CASE UNCHANGED nodeLog
    BY <2>1, TypeFrame
  <2>2. CASE v # Cached(log) /\ Current(log)
             /\ nodeLog' = [nodeLog EXCEPT ![n] = Written(log, v)]
    <3>1. Len(log) = 1 /\ v # Node(n) /\ (Going(Node(n)) => Going(v)) /\ Len(log) <= MaxLag
      BY <1>5, <1>6, <2>2, ProvisioningAssumption DEF Current, Going
    <3> QED
      BY <2>2, <3>1, NodeWritten
  <2> QED
    BY <1>7, <2>1, <2>2
<1>9. ClusterOK' /\ BackendOK' /\ WorldOK'
  BY <1>1 DEF BackendOK, WorldOK, ClusterOK, backend, world
<1> QED
  BY <1>4, <1>8, <1>9, TypePartsNext DEF TypeInv

LEMMA TypeRelease ==
  ASSUME TypeInv, ReleaseSlot
  PROVE  TypeInv'
<1>1. /\ NodesOK /\ ClusterOK /\ PassOK /\ BackendOK /\ WorldOK /\ At("release")
      /\ UNCHANGED <<nodeLog, backend, world>>
  BY TypeParts DEF TypeInv, ReleaseSlot
<1>2. PICK n \in Nodes : n = pass.node
  BY <1>1 DEF PassOK, At
<1>3. pass.then \in {"fail", "drop", "end"} /\ pass.fresh = FALSE
  BY <1>1 DEF TypeInv, PassPlain, PassOK, PassObj, At
<1>4. Moved(n) \/ (pass.then = "drop" /\ pass' = [pass EXCEPT !.pc = "drop"])
  BY <1>1, <1>2, <1>3, MovedPieces DEF ReleaseSlot
<1>5. PassOK' /\ PassPlain' /\ PassDrops'
  <2>1. CASE Moved(n)
    BY <2>1, MovedOK
  <2>2. CASE pass.then = "drop" /\ pass' = [pass EXCEPT !.pc = "drop"]
    <3>1. pass' \in PassObj /\ pass'.pc = "drop" /\ pass'.node = n /\ pass'.fresh = FALSE
          /\ pass'.obj = pass.obj
      BY <1>1, <1>2, <1>3, <2>2 DEF PassOK, PassObj
    <3>2. pass.obj.deleted /\ Going(Node(n)) /\ (pass.obj = Node(n) => Current(nodeLog[n]))
      BY <1>1, <1>2, <2>2 DEF TypeInv, PassDrops, Dropping
    <3> QED
      BY <1>1, <3>1, <3>2
      DEF PassOK, PassPlain, PassDrops, Dropping, At, Node, Going, Current, Stored
  <2> QED
    BY <1>4, <2>1, <2>2
<1>6. ClusterOK'
  <2>1. \/ UNCHANGED clusterLog
        \/ /\ Current(clusterLog)
           /\ clusterLog' = Written(clusterLog,
                [Cached(clusterLog) EXCEPT !.slots = Released(@, n)])
    BY <1>2, <1>3 DEF ReleaseSlot
  <2>2. PICK c \in ClusterObj : c = [Cached(clusterLog) EXCEPT !.slots = Released(@, n)]
    BY <1>1, ClusterEnds DEF ClusterObj, Released
  <2>3. CASE Current(clusterLog) /\ clusterLog' = Written(clusterLog, c)
    <3>1. Len(clusterLog) <= MaxLag
      BY <2>3, ProvisioningAssumption DEF Current
    <3> QED
      BY <1>1, <2>3, <3>1, ClusterWritten
  <2> QED
    BY <1>1, <2>1, <2>2, <2>3 DEF ClusterOK
<1>7. BackendOK' /\ WorldOK'
  BY <1>1 DEF BackendOK, WorldOK, backend, world
<1> QED
  BY <1>1, <1>5, <1>6, <1>7, TypeFrame, TypePartsNext DEF TypeInv

LEMMA TypeDrop ==
  ASSUME TypeInv, DropFinalizer
  PROVE  TypeInv'
<1>1. /\ NodesOK /\ ClusterOK /\ PassOK /\ BackendOK /\ WorldOK /\ At("drop") /\ PassDrops
      /\ UNCHANGED <<clusterLog, backend, world>>
  BY TypeParts DEF TypeInv, DropFinalizer
<1>2. PICK n \in Nodes : n = pass.node
  BY <1>1 DEF PassOK, At
<1>3. PassOK' /\ PassPlain' /\ PassDrops'
  BY <1>1, MovedPieces, MovedOK DEF DropFinalizer
<1>4. NodesOK' /\ \A m \in Nodes : GoingLast(nodeLog[m])'
  <2>1. CASE pass.obj = Node(n)
    <3>1. Current(nodeLog[n]) /\ Node(n).deleted
      BY <1>1, <1>2, <2>1 DEF PassDrops, Dropping
    <3>2. PICK v \in NodeObj : v = [NewNode EXCEPT !.exists = FALSE]
      BY ObjTypes
    <3>3. nodeLog' = [nodeLog EXCEPT ![n] = Written(nodeLog[n], v)]
      BY <1>2, <2>1, <3>2 DEF DropFinalizer, Node
    <3>4. v.deleted = FALSE /\ v.exists = FALSE
      BY <3>2 DEF NewNode
    <3>5. Going(v) /\ v # Node(n)
      BY <3>1, <3>4 DEF Going
    <3>6. Len(nodeLog[n]) = 1 /\ Len(nodeLog[n]) <= MaxLag
      BY <3>1, ProvisioningAssumption DEF Current
    <3> QED
      BY <3>3, <3>5, <3>6, NodeWritten
  <2>2. CASE pass.obj # Node(n)
    BY <1>2, <2>2, TypeFrame DEF DropFinalizer, Node
  <2> QED
    BY <2>1, <2>2
<1>5. ClusterOK' /\ BackendOK' /\ WorldOK'
  BY <1>1 DEF BackendOK, WorldOK, ClusterOK, backend, world
<1> QED
  BY <1>3, <1>4, <1>5, TypePartsNext DEF TypeInv

LEMMA TypeDeliverNode ==
  ASSUME TypeInv, NEW n \in Nodes, DeliverNode(n)
  PROVE  TypeInv'
<1>1. /\ NodesOK /\ ClusterOK /\ PassOK /\ BackendOK /\ WorldOK /\ PassPlain /\ PassDrops
      /\ GoingLast(nodeLog[n]) /\ Len(nodeLog[n]) > 1
      /\ nodeLog' = [nodeLog EXCEPT ![n] = Delivered(nodeLog[n])]
      /\ UNCHANGED <<clusterLog, pass, backend, world>>
  BY TypeParts DEF TypeInv, DeliverNode
<1>2. nodeLog[n] \in Seq(NodeObj) /\ Len(nodeLog[n]) \in 1..(MaxLag + 1)
  BY <1>1 DEF NodesOK
<1>3. PICK L \in Seq(NodeObj) : /\ L = Delivered(nodeLog[n]) /\ Stored(L) = Node(n)
                                /\ Len(L) = Len(nodeLog[n]) - 1
  BY <1>1, <1>2, LogDelivered DEF Node
<1>4. Len(L) \in 1..(MaxLag + 1) /\ GoingLast(L)
  BY <1>1, <1>2, <1>3, GoingDelivered, ProvisioningAssumption
<1>5. /\ NodesOK' /\ \A m \in Nodes : GoingLast(nodeLog[m])'
      /\ nodeLog'[n] = L /\ \A m \in Nodes : m # n => nodeLog'[m] = nodeLog[m]
  BY <1>1, <1>3, <1>4, NodeMoves
<1>6. ClusterOK' /\ PassOK' /\ BackendOK' /\ WorldOK' /\ PassPlain'
  BY <1>1 DEF ClusterOK, PassOK, BackendOK, WorldOK, PassPlain, At, backend, world, Current
<1>7. PassDrops'
  <2>1. SUFFICES ASSUME Dropping'
                 PROVE  /\ pass.obj.deleted /\ Going(Stored(nodeLog'[pass.node]))
                        /\ pass.obj = Stored(nodeLog'[pass.node])
                             => Current(nodeLog'[pass.node])
    BY <1>1 DEF PassDrops, Node
  <2>2. Dropping
    BY <1>1, <2>1 DEF Dropping, At
  <2>3. PICK m \in Nodes : m = pass.node
    BY <1>1, <2>2 DEF PassOK, Dropping, At
  <2>4. /\ pass.obj.deleted /\ Going(Node(m))
        /\ pass.obj = Node(m) => Current(nodeLog[m])
    BY <1>1, <2>2, <2>3 DEF PassDrops
  <2>5. CASE m = n
    <3>1. Stored(nodeLog'[m]) = Node(m) /\ pass.obj # Node(m)
      <4>1. ~Current(nodeLog[n])
        BY <1>1, <1>2, AtLeastOne DEF Current
      <4> QED
        BY <1>3, <1>5, <2>4, <2>5, <4>1
    <3> QED
      BY <2>3, <2>4, <3>1
  <2>6. CASE m # n
    BY <1>5, <2>3, <2>4, <2>6 DEF Node
  <2> QED
    BY <2>5, <2>6
<1> QED
  BY <1>5, <1>6, <1>7, TypePartsNext DEF TypeInv

LEMMA TypeDelete ==
  ASSUME TypeInv, NEW n \in Nodes, Delete(n)
  PROVE  TypeInv'
<1>1. /\ NodesOK /\ ClusterOK /\ PassOK /\ BackendOK /\ WorldOK /\ PassPlain /\ PassDrops
      /\ GoingLast(nodeLog[n]) /\ ~Going(Node(n)) /\ Len(nodeLog[n]) <= MaxLag
      /\ nodeLog' = [nodeLog EXCEPT ![n] = Written(nodeLog[n], [Node(n) EXCEPT !.deleted = TRUE])]
      /\ UNCHANGED <<clusterLog, pass, backend, away>>
  BY TypeParts DEF TypeInv, Delete, Going, Node, Room
<1>2. /\ nodeLog[n] \in Seq(NodeObj) /\ Node(n) \in NodeObj
      /\ Len(nodeLog[n]) \in Nat /\ Len(nodeLog[n]) > 0
      /\ Node(n) = nodeLog[n][Len(nodeLog[n])]
  BY <1>1, NodeEnds
<1>3. PICK v \in NodeObj : v = [Node(n) EXCEPT !.deleted = TRUE] /\ v.deleted
  <2>1. \A w \in NodeObj : [w EXCEPT !.deleted = TRUE] \in NodeObj
                            /\ [w EXCEPT !.deleted = TRUE].deleted
    BY DEF NodeObj
  <2> QED
    BY <1>2, <2>1
<1>4. \A i \in 1..Len(nodeLog[n]) : ~nodeLog[n][i].deleted
  <2> SUFFICES ASSUME NEW i \in 1..Len(nodeLog[n]), nodeLog[n][i].deleted PROVE FALSE
    OBVIOUS
  <2>1. i = Len(nodeLog[n]) \/ i < Len(nodeLog[n])
    BY <1>2
  <2>2. Len(nodeLog[n]) \in 1..Len(nodeLog[n])
    BY <1>2
  <2> QED
    BY <1>1, <1>2, <2>1, <2>2 DEF GoingLast, Going
<1>5. /\ NodesOK' /\ \A m \in Nodes : GoingLast(nodeLog[m])'
      /\ \A m \in Nodes : m # n => nodeLog'[m] = nodeLog[m]
  BY <1>1, <1>3, <1>4, NodeWritten DEF Going
<1>6. ClusterOK' /\ PassOK' /\ BackendOK' /\ PassPlain'
  BY <1>1 DEF ClusterOK, PassOK, BackendOK, PassPlain, At, backend, Current
<1>7. WorldOK'
  BY <1>1, ProvisioningAssumption DEF Delete, Fault, WorldOK
<1>8. PassDrops'
  <2>1. SUFFICES ASSUME Dropping'
                 PROVE  /\ pass.obj.deleted /\ Going(Stored(nodeLog'[pass.node]))
                        /\ pass.obj = Stored(nodeLog'[pass.node])
                             => Current(nodeLog'[pass.node])
    BY <1>1 DEF PassDrops, Node
  <2>2. Dropping
    BY <1>1, <2>1 DEF Dropping, At
  <2>3. PICK m \in Nodes : m = pass.node
    BY <1>1, <2>2 DEF PassOK, Dropping, At
  <2>4. /\ pass.obj.deleted /\ Going(Node(m))
        /\ pass.obj = Node(m) => Current(nodeLog[m])
    BY <1>1, <2>2, <2>3 DEF PassDrops
  <2>5. m # n
    BY <1>1, <2>4
  <2> QED
    BY <1>5, <2>3, <2>4, <2>5 DEF Node
<1> QED
  BY <1>5, <1>6, <1>7, <1>8, TypePartsNext DEF TypeInv

LEMMA TypeDeadline ==
  ASSUME TypeInv, NEW n \in Nodes, NEW s \in Steps, DeadlinePasses(n, s)
  PROVE  TypeInv'
<1>1. /\ NodesOK /\ ClusterOK /\ PassOK /\ BackendOK /\ WorldOK /\ PassPlain /\ At("idle")
      /\ nodeLog' = [nodeLog EXCEPT ![n] = <<[Node(n) EXCEPT !.late = TRUE]>>]
      /\ UNCHANGED <<clusterLog, pass, backend, world>>
  BY TypeParts DEF TypeInv, DeadlinePasses, Quiet, Node
<1>2. Node(n) \in NodeObj
  BY <1>1, NodeEnds
<1>3. PICK v \in NodeObj : v = [Node(n) EXCEPT !.late = TRUE]
  BY <1>2 DEF NodeObj
<1>4. PICK L \in Seq(NodeObj) : L = <<v>> /\ Len(L) = 1
  <2>1. <<v>> \in Seq(NodeObj) /\ Len(<<v>>) = 1
    OBVIOUS
  <2> QED
    BY <2>1, Zenon
<1>5. Len(L) \in 1..(MaxLag + 1) /\ GoingLast(L)
  BY <1>4, ProvisioningAssumption DEF GoingLast
<1>6. NodesOK' /\ \A m \in Nodes : GoingLast(nodeLog[m])'
  BY <1>1, <1>3, <1>4, <1>5, NodeMoves
<1>7. ClusterOK' /\ PassOK' /\ BackendOK' /\ WorldOK' /\ PassPlain'
  BY <1>1 DEF ClusterOK, PassOK, BackendOK, WorldOK, PassPlain, At, backend, world, Current
<1>8. PassDrops'
  BY <1>1 DEF PassDrops, Dropping, At
<1> QED
  BY <1>6, <1>7, <1>8, TypePartsNext DEF TypeInv

LEMMA TypeCluster ==
  ASSUME TypeInv, DeliverCluster \/ Mirror
  PROVE  TypeInv'
<1>1. /\ NodesOK /\ ClusterOK /\ PassOK /\ BackendOK /\ WorldOK /\ PassPlain /\ PassDrops
      /\ UNCHANGED <<nodeLog, backend, world>>
  BY TypeParts DEF TypeInv, DeliverCluster, Mirror
<1>2. clusterLog \in Seq(ClusterObj) /\ Len(clusterLog) \in 1..(MaxLag + 1)
      /\ Stored(clusterLog) \in ClusterObj
  BY <1>1, ClusterEnds DEF ClusterOK
<1>3. ClusterOK' /\ PassOK' /\ PassPlain' /\ pass'.pc = pass.pc /\ pass'.node = pass.node
      /\ pass'.obj = pass.obj /\ pass'.then = pass.then
  <2>1. CASE DeliverCluster
    <3>1. Len(clusterLog) > 1 /\ clusterLog' = Delivered(clusterLog) /\ UNCHANGED pass
      BY <2>1 DEF DeliverCluster
    <3>2. ClusterOK'
      BY <1>2, <3>1, LogDelivered, ProvisioningAssumption DEF ClusterOK
    <3>3. ~pass.fresh
      <4>1. ~Current(clusterLog)
        BY <1>2, <3>1, AtLeastOne DEF Current
      <4> QED
        BY <1>1, <4>1 DEF PassPlain
    <3> QED
      BY <1>1, <3>1, <3>2, <3>3 DEF PassOK, PassPlain, At
  <2>2. CASE Mirror
    <3> DEFINE tasks == \E w \in Workers : adds[w] > 0
    <3>1. /\ Len(clusterLog) <= MaxLag /\ pass' = [pass EXCEPT !.fresh = FALSE]
          /\ clusterLog' = Written(clusterLog, [Stored(clusterLog) EXCEPT !.tasks = tasks])
      BY <2>2 DEF Mirror, Room
    <3>2. tasks \in BOOLEAN
      OBVIOUS
    <3> HIDE DEF tasks
    <3>3. PICK c \in ClusterObj : c = [Stored(clusterLog) EXCEPT !.tasks = tasks]
      BY <1>2, <3>2 DEF ClusterObj
    <3>4. ClusterOK'
      BY <1>1, <3>1, <3>3, ClusterWritten
    <3> QED
      BY <1>1, <3>1, <3>4 DEF PassOK, PassPlain, PassObj, At
  <2> QED
    BY <2>1, <2>2
<1>4. PassDrops'
  BY <1>1, <1>3 DEF PassDrops, Dropping, At, Node
<1>5. BackendOK' /\ WorldOK'
  BY <1>1 DEF BackendOK, WorldOK, backend, world
<1> QED
  BY <1>1, <1>3, <1>4, <1>5, TypeFrame, TypePartsNext DEF TypeInv

\* The backend and the workers.
BackendStep ==
  \E w \in Workers : WorkerStep(w) \/ Leave(w) \/ CpGiveUp(w) \/ Reset(w)

LEMMA TypeBackend ==
  ASSUME TypeInv, BackendStep
  PROVE  TypeInv'
<1>1. PICK w \in Workers : WorkerStep(w) \/ Leave(w) \/ CpGiveUp(w) \/ Reset(w)
  BY DEF BackendStep
<1>2. /\ NodesOK /\ ClusterOK /\ PassOK /\ BackendOK /\ WorldOK /\ PassPlain /\ PassDrops
      /\ UNCHANGED <<nodeLog, clusterLog, pass>>
  BY <1>1, TypeParts
  DEF TypeInv, WorkerStep, Return, CpBegin, CpEnd, Stream, Leave, CpGiveUp, Reset, api
<1>3. BackendOK'
  <2>1. \A x \in Workers : adds[x] \in 0..MaxAdds /\ made[x] \in Made
    BY <1>2 DEF BackendOK
  <2>2. {"none", "in_creation", "created"} = Made
    BY DEF Made
  <2>3. adds' = adds \/ (adds[w] > 0 /\ adds' = [adds EXCEPT ![w] = @ - 1])
    BY <1>1
    DEF WorkerStep, Return, CpBegin, CpEnd, Stream, Leave, CpGiveUp, Reset, backend
  <2>4. adds' \in [Workers -> 0..MaxAdds]
    BY <1>2, <2>1, <2>3, ProvisioningAssumption DEF BackendOK
  <2>5. made' = made \/ \E x \in Made : made' = [made EXCEPT ![w] = x]
    BY <1>1, <2>2
    DEF WorkerStep, Return, CpBegin, CpEnd, Stream, Leave, CpGiveUp, Reset, backend
  <2>6. seen' = seen \/ seen' = [seen EXCEPT ![w] = made[w]]
    BY <1>1
    DEF WorkerStep, Return, CpBegin, CpEnd, Stream, Leave, CpGiveUp, Reset, backend
  <2> QED
    BY <1>2, <2>1, <2>4, <2>5, <2>6 DEF BackendOK
<1>4. WorldOK'
  <2>1. faults' = faults \/ (faults < MaxFaults /\ faults' = faults + 1)
    BY <1>1
    DEF WorkerStep, Return, CpBegin, CpEnd, Stream, Leave, CpGiveUp, Reset, world, Fault
  <2>2. away' = away \/ away' = away \cup {w} \/ away' = away \ {w}
    BY <1>1
    DEF WorkerStep, Return, CpBegin, CpEnd, Stream, Leave, CpGiveUp, Reset, world
  <2> QED
    BY <1>1, <1>2, <2>1, <2>2, ProvisioningAssumption DEF WorldOK
<1>5. ClusterOK' /\ PassOK' /\ PassPlain' /\ PassDrops'
  BY <1>2 DEF ClusterOK, PassOK, PassPlain, PassDrops, Dropping, At, Node, Current
<1> QED
  BY <1>2, <1>3, <1>4, <1>5, TypeFrame, TypePartsNext DEF TypeInv

LEMMA TypeStep ==
  ASSUME TypeInv, [Next]_vars
  PROVE  TypeInv'
<1>1. CASE PassStep
  BY <1>1, TypeTake, TypePost, TypeWrite, TypeRelease, TypeDrop DEF PassStep
<1>2. CASE DeliverCluster \/ Mirror
  BY <1>2, TypeCluster
<1>3. CASE Crash
  <2>1. /\ NodesOK /\ ClusterOK /\ BackendOK /\ WorldOK /\ pass' = Idle
        /\ UNCHANGED <<nodeLog, clusterLog, adds, made, seen, away>>
    BY <1>3, TypeParts DEF TypeInv, Crash, api, backend
  <2>2. PassOK' /\ PassPlain' /\ PassDrops'
    <3>1. pass' \in PassObj /\ pass'.pc = "idle" /\ pass'.fresh = FALSE
      BY <2>1, ObjTypes
    <3> QED
      BY <3>1 DEF PassOK, PassPlain, PassDrops, Dropping, At
  <2>3. ClusterOK' /\ BackendOK' /\ WorldOK'
    BY <1>3, <2>1, ProvisioningAssumption DEF ClusterOK, BackendOK, WorldOK, Crash, Fault
  <2> QED
    BY <2>1, <2>2, <2>3, TypeFrame, TypePartsNext DEF TypeInv
<1>4. ASSUME NEW n \in Nodes, Reconcile(n)
      PROVE  TypeInv'
  <2>1. /\ NodesOK /\ ClusterOK /\ BackendOK /\ WorldOK
        /\ UNCHANGED <<nodeLog, clusterLog, backend, world>>
    BY <1>4, TypeParts DEF TypeInv, Reconcile, api
  <2>2. ClusterOK' /\ BackendOK' /\ WorldOK'
    BY <2>1 DEF ClusterOK, BackendOK, WorldOK, backend, world
  <2> QED
    BY <1>4, <2>1, <2>2, ReconcileType, TypeFrame, TypePartsNext DEF TypeInv
<1>5. ASSUME NEW n \in Nodes, DeliverNode(n) \/ Delete(n)
      PROVE  TypeInv'
  BY <1>5, TypeDeliverNode, TypeDelete
<1>6. ASSUME NEW n \in Nodes, NEW s \in Steps, DeadlinePasses(n, s)
      PROVE  TypeInv'
  BY <1>6, TypeDeadline
<1>7. CASE BackendStep
  BY <1>7, TypeBackend
<1>8. CASE UNCHANGED vars
  <2>1. /\ NodesOK /\ ClusterOK /\ PassOK /\ BackendOK /\ WorldOK /\ PassPlain /\ PassDrops
        /\ UNCHANGED <<nodeLog, clusterLog, pass, adds, made, seen, away, faults>>
    BY <1>8, TypeParts DEF TypeInv, vars
  <2>2. ClusterOK' /\ PassOK' /\ BackendOK' /\ WorldOK' /\ PassPlain' /\ PassDrops'
    BY <2>1
    DEF ClusterOK, PassOK, BackendOK, WorldOK, PassPlain, PassDrops, Dropping, At, Node, Current
  <2> QED
    BY <2>1, <2>2, TypeFrame, TypePartsNext DEF TypeInv
<1> QED
  BY <1>1, <1>2, <1>3, <1>4, <1>5, <1>6, <1>7, <1>8 DEF Next, BackendStep

\* Every variable keeps its type, and a patch's resourceVersion keeps every object
\* within MaxLag versions of its cache, whatever the pass was computed from.
THEOREM TypeCorrect == Spec => []TypeOK
<1>1. TypeInv => TypeOK
  BY DEF TypeInv
<1> QED
  BY <1>1, TypeInit, TypeStep, PTL DEF Spec

-------------------------------------------------------------------------------
(* Slots.  What keeps a slot in place while its node is being added, with  *)
(* one node on each worker and passes that read their own node promptly.   *)

OnePerWorker == \A m, n \in Nodes : On[m] = On[n] => m = n

\* Some cache may still show n in the list of slots, or n as one whose entry is
\* to be dropped.
Entered(n) == \E i \in 1..Len(clusterLog) : n \in clusterLog[i].slots
SomeReapable(n) == \E i \in 1..Len(nodeLog[n]) : Reapable(nodeLog[n][i])

\* The entry of n may be seen but not be there, or be dropped by whoever counts.
Loose(n) == Entered(n) /\ (n \notin Slots \/ SomeReapable(n))

\* The worker's nodes are in service and the stream says so.
InService(n) == seen[On[n]] = "created" /\ made[On[n]] = "created"

\* A node whose deadline has passed, and whose slot is given back, is taken on again
\* when its worker leaves (provision looks at the worker first); both have to happen.
Strays == Late # {} /\ "leave" \in Env

StrayInv ==
  /\ away # {} => "leave" \in Env
  /\ \A n \in Nodes : Node(n).late => Late # {}

\* A node that will not ask for an add: it is going, its deadline has passed, it
\* waits for its worker after that, or it is in service.
Parked(n) ==
  LET v == Node(n) IN
  \/ Going(v)
  \/ ~v.uuid /\ v.late /\ v.step # ""
  \/ ~v.uuid /\ v.step = "AwaitingWorker" /\ On[n] \in away /\ Strays
  \/ addFinished(v) /\ InService(n)

\* A node whose add is being asked for or waited on, within its time.
Asked(v) ==
  /\ v.exists /\ ~v.deleted /\ ~v.failed /\ ~v.late /\ ~v.uuid
  /\ v.step \in {"Posting", "Resolving"}

Shaped(v) == (v.uuid => v.step = "") /\ (v.failed => v.late) /\ (v.late => v.step # "")

\* A node that is being added is on the list, and an entry that is loose is that of
\* a node that will not ask for an add.
Holds(n) ==
  /\ ~Going(Node(n)) => Shaped(Node(n))
  /\ Asked(Node(n)) => n \in Slots
  /\ Loose(n) => Parked(n)

\* A pass at pc, for n.
Running(n, pc) == At(pc) /\ pass.node = n

\* A worker whose nodes the stream shows in service and that has none any more is
\* not on any list, nor about to be.
SeenMade(n) ==
  seen[On[n]] = "created" /\ made[On[n]] # "created" => ~Entered(n) /\ ~Running(n, "take")

\* What the pass read of its own node is what is stored, unless it was deleted.
Reads(n) ==
  /\ pass.node = n /\ ~Going(Node(n))
  /\ pass.pc \in {"take", "post", "write"} \/ (At("release") /\ pass.then = "fail")
  => Current(nodeLog[n])

\* What a pass that takes a slot, asks for an add, releases a slot or writes the
\* status may rely on.
Takes(n) ==
  Running(n, "take") =>
    /\ ~Going(Node(n)) => /\ ~SomeReapable(n) /\ Node(n).step = "AwaitingSlot"
                          /\ ~Node(n).uuid /\ ~Node(n).late
    /\ pass.fresh => /\ pass.held \subseteq Slots
                     /\ \A m \in Slots \ pass.held : Parked(m)
    /\ Cardinality(pass.held) < Limit
    /\ On[n] \in FDB => \A m \in pass.held : On[m] \notin FDB

Posts(n) ==
  Running(n, "post") =>
    /\ n \in Slots
    /\ ~Going(Node(n)) => Asked(Node(n))

Releases(n) ==
  Running(n, "release") =>
    /\ Parked(n) \/ ~Entered(n)
    /\ pass.then = "fail" /\ ~Going(Node(n)) => ~Node(n).uuid /\ Node(n).late

\* What a write that takes the node on, or back, is; the others are a worker's
\* absence, the status and the failure.
Onward == (Steps \ {"AwaitingWorker"}) \cup {"uuid", "lost"}

WriteFits(n, do, reading) ==
  /\ do \in Onward => ~Loose(n)
  /\ do \in Steps => ~Node(n).uuid /\ do # ""
  /\ do \in {"Posting", "Resolving"} => n \in Slots
  /\ do = "AwaitingWorker" => On[n] \in away
  /\ do \in {"status", "lost"} => Node(n).uuid
  /\ do \in {"uuid", "status"} =>
       reading # "none" /\ (reading = "created" => InService(n) \/ ~Entered(n))
  /\ do = "status" /\ reading = "in_creation" => ~Loose(n)
  /\ do = "fail" => ~Node(n).uuid /\ Node(n).late

Writes(n) ==
  Running(n, "write") /\ ~Going(Node(n)) => WriteFits(n, pass.do, pass.reading)

Passes(n) == Reads(n) /\ Takes(n) /\ Posts(n) /\ Releases(n) /\ Writes(n)

\* The list is within the cap, and holds one FoundationDB worker at most.
Capped ==
  /\ Cardinality(Slots) <= Limit
  /\ \A m, n \in Slots : On[m] \in FDB /\ On[n] \in FDB => m = n

SlotInv ==
  /\ TypeInv /\ Capped
  /\ \A n \in Nodes : Holds(n) /\ SeenMade(n) /\ Passes(n)

\* What the caches show of the slots, as the cluster is written or delivered.
LEMMA SlotsSeen ==
  ASSUME ClusterOK
  PROVE  /\ Slots \in SUBSET Nodes /\ Cached(clusterLog).slots \in SUBSET Nodes
         /\ \A n \in Nodes :
              /\ n \in Slots => Entered(n)
              /\ n \in Cached(clusterLog).slots => Entered(n)
              /\ Current(clusterLog) /\ Entered(n) => n \in Slots
<1>1. /\ clusterLog \in Seq(ClusterObj) /\ Len(clusterLog) \in Nat /\ Len(clusterLog) > 0
      /\ Cached(clusterLog) \in ClusterObj /\ Stored(clusterLog) \in ClusterObj
      /\ Cached(clusterLog) = clusterLog[1]
      /\ Stored(clusterLog) = clusterLog[Len(clusterLog)]
  BY ClusterEnds
<1>2. 1 \in 1..Len(clusterLog) /\ Len(clusterLog) \in 1..Len(clusterLog)
  BY <1>1
<1>3. ASSUME NEW n \in Nodes
      PROVE  (n \in Slots => Entered(n)) /\ (n \in Cached(clusterLog).slots => Entered(n))
  BY <1>1, <1>2 DEF Entered, Slots
<1>4. ASSUME NEW n \in Nodes, Current(clusterLog), Entered(n)
      PROVE  n \in Slots
  BY <1>1, <1>4 DEF Entered, Slots, Current
<1>5. Slots \in SUBSET Nodes /\ Cached(clusterLog).slots \in SUBSET Nodes
  BY <1>1 DEF Slots, ClusterObj
<1> QED
  BY <1>3, <1>4, <1>5

LEMMA SlotsWritten ==
  ASSUME ClusterOK, NEW c \in ClusterObj, clusterLog' = Written(clusterLog, c)
  PROVE  /\ Slots' = c.slots
         /\ \A n \in Nodes : Entered(n)' <=> Entered(n) \/ n \in c.slots
<1>1. clusterLog \in Seq(ClusterObj) /\ Len(clusterLog) \in Nat /\ Len(clusterLog) > 0
  BY ClusterEnds
<1> DEFINE L == Written(clusterLog, c)
<1>2. /\ L = clusterLog' /\ Len(L) = Len(clusterLog) + 1
      /\ Stored(L) = c /\ L[Len(L)] = c
      /\ \A i \in 1..Len(clusterLog) : L[i] = clusterLog[i]
  BY <1>1, LogGrown
<1> HIDE DEF L
<1>3. Slots' = c.slots
  BY <1>2 DEF Slots
<1>4. ASSUME NEW n \in Nodes
      PROVE  Entered(n)' <=> Entered(n) \/ n \in c.slots
  <2>1. Entered(n)' <=> \E i \in 1..Len(L) : n \in L[i].slots
    BY <1>2 DEF Entered
  <2>2. \A i \in 1..Len(L) : i \in 1..Len(clusterLog) \/ i = Len(L)
    BY <1>1, <1>2
  <2>3. Len(L) \in 1..Len(L) /\ \A i \in 1..Len(clusterLog) : i \in 1..Len(L)
    BY <1>1, <1>2
  <2> QED
    BY <1>2, <2>1, <2>2, <2>3 DEF Entered
<1> QED
  BY <1>3, <1>4

LEMMA SlotsDelivered ==
  ASSUME ClusterOK, Len(clusterLog) > 1, clusterLog' = Delivered(clusterLog)
  PROVE  Slots' = Slots /\ \A n \in Nodes : Entered(n)' => Entered(n)
<1>1. clusterLog \in Seq(ClusterObj) /\ Len(clusterLog) \in Nat
  BY ClusterEnds
<1>2. PICK L : /\ L = clusterLog' /\ Len(L) = Len(clusterLog) - 1
               /\ Stored(L) = Stored(clusterLog)
               /\ \A i \in 1..Len(L) : L[i] = clusterLog[i + 1]
  BY <1>1, LogDelivered
<1>3. \A i \in 1..Len(L) : i + 1 \in 1..Len(clusterLog)
  BY <1>1, <1>2
<1>4. ASSUME NEW n \in Nodes, Entered(n)'
      PROVE  Entered(n)
  BY <1>2, <1>3, <1>4 DEF Entered
<1> QED
  BY <1>2, <1>4 DEF Slots

\* The same for what is to be dropped.
LEMMA ReapableSeen ==
  ASSUME NodesOK, NEW n \in Nodes
  PROVE  /\ Reapable(Node(n)) => SomeReapable(n)
         /\ Reapable(Cached(nodeLog[n])) => SomeReapable(n)
         /\ Current(nodeLog[n]) /\ SomeReapable(n) => Reapable(Node(n))
<1>1. /\ Len(nodeLog[n]) \in Nat /\ Len(nodeLog[n]) > 0
      /\ Cached(nodeLog[n]) = nodeLog[n][1] /\ Node(n) = nodeLog[n][Len(nodeLog[n])]
  BY NodeEnds
<1>2. 1 \in 1..Len(nodeLog[n]) /\ Len(nodeLog[n]) \in 1..Len(nodeLog[n])
  BY <1>1
<1>3. ASSUME Current(nodeLog[n]), SomeReapable(n)
      PROVE  Reapable(Node(n))
  <2>1. PICK i \in 1..Len(nodeLog[n]) : Reapable(nodeLog[n][i])
    BY <1>3 DEF SomeReapable
  <2>2. i = Len(nodeLog[n])
    BY <1>1, <1>3, <2>1 DEF Current
  <2> QED
    BY <1>1, <2>1, <2>2
<1> QED
  BY <1>1, <1>2, <1>3 DEF SomeReapable

LEMMA ReapableWritten ==
  ASSUME NodesOK, NEW n \in Nodes, NEW v \in NodeObj, nodeLog'[n] = Written(nodeLog[n], v)
  PROVE  Node(n)' = v /\ (SomeReapable(n)' => SomeReapable(n) \/ Reapable(v))
<1>1. nodeLog[n] \in Seq(NodeObj) /\ Len(nodeLog[n]) \in Nat /\ Len(nodeLog[n]) > 0
  BY NodeEnds
<1> DEFINE L == Written(nodeLog[n], v)
<1>2. /\ L = nodeLog'[n] /\ Len(L) = Len(nodeLog[n]) + 1
      /\ Stored(L) = v /\ L[Len(L)] = v
      /\ \A i \in 1..Len(nodeLog[n]) : L[i] = nodeLog[n][i]
  BY <1>1, LogGrown
<1> HIDE DEF L
<1>3. ASSUME SomeReapable(n)', ~Reapable(v)
      PROVE  SomeReapable(n)
  <2>1. PICK i \in 1..Len(L) : Reapable(L[i])
    BY <1>2, <1>3 DEF SomeReapable
  <2>2. i \in 1..Len(nodeLog[n])
    BY <1>1, <1>2, <1>3, <2>1
  <2> QED
    BY <1>2, <2>1, <2>2 DEF SomeReapable
<1> QED
  BY <1>2, <1>3 DEF Node

LEMMA ReapableDelivered ==
  ASSUME NodesOK, NEW n \in Nodes, Len(nodeLog[n]) > 1, nodeLog'[n] = Delivered(nodeLog[n])
  PROVE  Node(n)' = Node(n) /\ (SomeReapable(n)' => SomeReapable(n))
<1>1. nodeLog[n] \in Seq(NodeObj) /\ Len(nodeLog[n]) \in Nat
  BY NodeEnds
<1>2. PICK L : /\ L = nodeLog'[n] /\ Len(L) = Len(nodeLog[n]) - 1
               /\ Stored(L) = Stored(nodeLog[n])
               /\ \A i \in 1..Len(L) : L[i] = nodeLog[n][i + 1]
  BY <1>1, LogDelivered
<1>3. ASSUME SomeReapable(n)'
      PROVE  SomeReapable(n)
  <2>1. PICK i \in 1..Len(L) : Reapable(L[i])
    BY <1>2, <1>3 DEF SomeReapable
  <2>2. i + 1 \in 1..Len(nodeLog[n])
    BY <1>1, <1>2
  <2> QED
    BY <1>2, <2>1, <2>2 DEF SomeReapable
<1> QED
  BY <1>2, <1>3 DEF Node

\* A step that leaves the list alone, undoes no deletion, writes no other status,
\* takes no worker back and nothing out of service.
Apart ==
  /\ Slots' = Slots
  /\ away \subseteq away'
  /\ \A n \in Nodes :
       /\ Entered(n)' => Entered(n)
       /\ Going(Node(n)) => Going(Node(n))'
       /\ ~Going(Node(n))' =>
            /\ Node(n)' = Node(n)
            /\ SomeReapable(n)' => SomeReapable(n)
            /\ Current(nodeLog[n]) => Current(nodeLog[n])'
       /\ InService(n) => InService(n)'
       /\ seen'[On[n]] = "created" /\ made'[On[n]] # "created" =>
            seen[On[n]] = "created" /\ made[On[n]] # "created"

\* The pass stays where it is, or is over.
Still ==
  \/ pass'.pc = "idle"
  \/ /\ pass'.pc = pass.pc /\ pass'.node = pass.node /\ pass'.held = pass.held
     /\ pass'.do = pass.do /\ pass'.reading = pass.reading /\ pass'.then = pass.then
     /\ pass'.fresh => pass.fresh

LEMMA ParkedKept ==
  ASSUME Apart, NEW n \in Nodes
  PROVE  /\ Parked(n) => Parked(n)'
         /\ ~Going(Node(n))' /\ Loose(n)' => Loose(n)
<1>1. CASE Going(Node(n))'
  BY <1>1 DEF Parked
<1>2. CASE ~Going(Node(n))'
  <2>1. /\ Node(n)' = Node(n) /\ away \subseteq away' /\ (InService(n) => InService(n)')
        /\ (SomeReapable(n)' => SomeReapable(n)) /\ Slots' = Slots
        /\ (Entered(n)' => Entered(n)) /\ ~Going(Node(n))
    BY <1>2 DEF Apart
  <2>2. Parked(n) => Parked(n)'
    BY <2>1 DEF Parked, Going, addFinished
  <2> QED
    BY <2>1, <2>2 DEF Loose
<1> QED
  BY <1>1, <1>2

LEMMA HoldsKept ==
  ASSUME Apart, NEW n \in Nodes, Holds(n)
  PROVE  Holds(n)'
<1>1. CASE Going(Node(n))'
  BY <1>1 DEF Holds, Parked, Asked, Going
<1>2. CASE ~Going(Node(n))'
  <2>1. Node(n)' = Node(n) /\ Slots' = Slots /\ ~Going(Node(n))
    BY <1>2 DEF Apart
  <2> QED
    BY <1>2, <2>1, ParkedKept DEF Holds, Shaped, Asked
<1> QED
  BY <1>1, <1>2

LEMMA PassesKept ==
  ASSUME Apart, Still, NodesOK, NEW n \in Nodes, Passes(n), Slots \in SUBSET Nodes
  PROVE  Passes(n)'
<1> SUFFICES ASSUME pass'.pc # "idle" PROVE Passes(n)'
  BY DEF Passes, Reads, Takes, Posts, Releases, Writes, Running, At
<1>1. /\ pass'.pc = pass.pc /\ pass'.node = pass.node /\ pass'.held = pass.held
      /\ pass'.do = pass.do /\ pass'.reading = pass.reading /\ pass'.then = pass.then
      /\ (pass'.fresh => pass.fresh)
  BY DEF Still
<1>2. /\ Slots' = Slots /\ away \subseteq away' /\ (Entered(n)' => Entered(n))
      /\ (InService(n) => InService(n)') /\ (Going(Node(n)) => Going(Node(n))')
  BY DEF Apart
<1>3. ~Going(Node(n))' => /\ Node(n)' = Node(n) /\ ~Going(Node(n))
                          /\ SomeReapable(n)' => SomeReapable(n)
                          /\ Current(nodeLog[n]) => Current(nodeLog[n])'
                          /\ Loose(n)' => Loose(n)
  BY ParkedKept DEF Apart
<1>4. \A m \in Nodes : Parked(m) => Parked(m)'
  BY ParkedKept
<1>5. Reads(n)'
  BY <1>1, <1>3 DEF Passes, Reads, At
<1>6. Takes(n)'
  <2>1. Running(n, "take")' => Running(n, "take")
    BY <1>1 DEF Running, At
  <2> SUFFICES ASSUME Running(n, "take")' PROVE Takes(n)'
    BY DEF Takes
  <2>2. ~Going(Node(n))' => /\ ~SomeReapable(n)' /\ Node(n)'.step = "AwaitingSlot"
                            /\ ~Node(n)'.uuid /\ ~Node(n)'.late
    BY <1>3, <2>1 DEF Passes, Takes
  <2>3. pass'.fresh => pass'.held \subseteq Slots' /\ \A m \in Slots' \ pass'.held : Parked(m)'
    BY <1>1, <1>2, <1>4, <2>1 DEF Passes, Takes
  <2>4. /\ Cardinality(pass'.held) < Limit
        /\ On[n] \in FDB => \A m \in pass'.held : On[m] \notin FDB
    BY <1>1, <2>1 DEF Passes, Takes
  <2> QED
    BY <2>2, <2>3, <2>4 DEF Takes
<1>7. Posts(n)'
  BY <1>1, <1>2, <1>3 DEF Passes, Posts, Running, At, Asked
<1>8. Releases(n)'
  BY <1>1, <1>2, <1>3, <1>4 DEF Passes, Releases, Running, At
<1>9. Writes(n)'
  <2> SUFFICES ASSUME Running(n, "write")', ~Going(Node(n))' PROVE Writes(n)'
    BY DEF Writes
  <2>1. Running(n, "write") /\ ~Going(Node(n)) /\ Node(n)' = Node(n)
        /\ (Loose(n)' => Loose(n))
    BY <1>1, <1>3 DEF Running, At
  <2> QED
    BY <1>1, <1>2, <2>1 DEF Passes, Writes, WriteFits
<1> QED
  BY <1>5, <1>6, <1>7, <1>8, <1>9 DEF Passes

LEMMA SlotApart ==
  ASSUME SlotInv, TypeInv', Apart, Still
  PROVE  SlotInv'
<1>1. NodesOK /\ Slots \in SUBSET Nodes
  BY TypeParts, SlotsSeen DEF SlotInv, TypeInv
<1>2. \A n \in Nodes : Holds(n)' /\ Passes(n)'
  BY <1>1, HoldsKept, PassesKept DEF SlotInv
<1>3. Capped'
  BY DEF SlotInv, Capped, Apart
<1>4. ASSUME NEW n \in Nodes PROVE SeenMade(n)'
  <2>1. Running(n, "take")' => Running(n, "take")
    BY DEF Still, Running, At
  <2>2. SeenMade(n)
    BY DEF SlotInv
  <2> QED
    BY <2>1, <2>2 DEF SeenMade, Apart
<1> QED
  BY <1>2, <1>3, <1>4 DEF SlotInv

\* What stays when a variable does.
LEMMA NodeStays ==
  ASSUME NEW n \in Nodes, nodeLog'[n] = nodeLog[n]
  PROVE  /\ Node(n)' = Node(n) /\ (SomeReapable(n)' <=> SomeReapable(n))
         /\ (Current(nodeLog[n])' <=> Current(nodeLog[n]))
         /\ (Going(Node(n))' <=> Going(Node(n)))
<1>1. Node(n)' = Node(n) /\ (Current(nodeLog[n])' <=> Current(nodeLog[n]))
  BY DEF Node, Current
<1>2. SomeReapable(n)' <=> SomeReapable(n)
  BY DEF SomeReapable
<1>3. Going(Node(n))' <=> Going(Node(n))
  BY <1>1 DEF Going
<1> QED
  BY <1>1, <1>2, <1>3

LEMMA ListStays ==
  ASSUME UNCHANGED clusterLog
  PROVE  Slots' = Slots /\ \A n \in Nodes : Entered(n)' <=> Entered(n)
  BY DEF Slots, Entered

LEMMA ServiceStays ==
  ASSUME UNCHANGED <<seen, made>>
  PROVE  \A n \in Nodes :
           /\ InService(n)' <=> InService(n)
           /\ seen'[On[n]] = "created" /\ made'[On[n]] # "created" =>
                seen[On[n]] = "created" /\ made[On[n]] # "created"
  BY DEF InService

\* The steps of the caches, the control plane, the stream and whoever deletes.
LEMMA SlotDeliverNode ==
  ASSUME SlotInv, TypeInv', NEW n \in Nodes, DeliverNode(n)
  PROVE  SlotInv'
<1>1. /\ NodesOK /\ Len(nodeLog[n]) > 1 /\ UNCHANGED <<clusterLog, pass, seen, made, away>>
      /\ nodeLog' = [nodeLog EXCEPT ![n] = Delivered(nodeLog[n])]
  BY TypeParts DEF SlotInv, TypeInv, DeliverNode, backend, world
<1>2. nodeLog'[n] = Delivered(nodeLog[n]) /\ \A m \in Nodes : m # n => nodeLog'[m] = nodeLog[m]
  BY <1>1 DEF NodesOK
<1>3. ASSUME NEW m \in Nodes
      PROVE  /\ Going(Node(m)) => Going(Node(m))'
             /\ Node(m)' = Node(m)
             /\ SomeReapable(m)' => SomeReapable(m)
             /\ Current(nodeLog[m]) => Current(nodeLog[m])'
  <2>1. CASE m = n
    <3>1. Node(n)' = Node(n) /\ (SomeReapable(n)' => SomeReapable(n))
      BY <1>1, <1>2, ReapableDelivered
    <3>2. ~Current(nodeLog[n])
      BY <1>1, NodeEnds, AtLeastOne DEF Current
    <3> QED
      BY <2>1, <3>1, <3>2 DEF Going
  <2>2. CASE m # n
    BY <1>2, <2>2, NodeStays
  <2> QED
    BY <2>1, <2>2
<1>4. Apart
  BY <1>1, <1>3, ListStays, ServiceStays DEF Apart
<1> QED
  BY <1>1, <1>4, SlotApart DEF Still

LEMMA SlotDelete ==
  ASSUME SlotInv, TypeInv', NEW n \in Nodes, Delete(n)
  PROVE  SlotInv'
<1>1. /\ NodesOK /\ UNCHANGED <<clusterLog, pass, seen, made, away>>
      /\ nodeLog' = [nodeLog EXCEPT ![n] = Written(nodeLog[n], [Node(n) EXCEPT !.deleted = TRUE])]
  BY TypeParts DEF SlotInv, TypeInv, Delete, Node, backend
<1>2. \A w \in NodeObj : [w EXCEPT !.deleted = TRUE] \in NodeObj
                         /\ [w EXCEPT !.deleted = TRUE].deleted
  BY DEF NodeObj
<1>3. PICK v \in NodeObj : v = [Node(n) EXCEPT !.deleted = TRUE] /\ v.deleted
  BY <1>1, <1>2, NodeEnds
<1>4. nodeLog'[n] = Written(nodeLog[n], v) /\ \A m \in Nodes : m # n => nodeLog'[m] = nodeLog[m]
  BY <1>1, <1>3 DEF NodesOK
<1>5. Going(Node(n))'
  BY <1>1, <1>3, <1>4, ReapableWritten DEF Going
<1>6. Apart
  BY <1>1, <1>4, <1>5, NodeStays, ListStays, ServiceStays DEF Apart
<1> QED
  BY <1>1, <1>6, SlotApart DEF Still

LEMMA SlotCluster ==
  ASSUME SlotInv, TypeInv', DeliverCluster \/ Mirror
  PROVE  SlotInv'
<1>1. ClusterOK /\ PassOK /\ UNCHANGED <<nodeLog, seen, made, away>>
  BY TypeParts DEF SlotInv, TypeInv, DeliverCluster, Mirror, backend, world
<1>2. Slots' = Slots /\ \A n \in Nodes : Entered(n)' => Entered(n)
  <2>1. CASE DeliverCluster
    BY <1>1, <2>1, SlotsDelivered DEF DeliverCluster
  <2>2. CASE Mirror
    <3> DEFINE tasks == \E w \in Workers : adds[w] > 0
    <3>1. clusterLog' = Written(clusterLog, [Stored(clusterLog) EXCEPT !.tasks = tasks])
      BY <2>2 DEF Mirror
    <3>2. tasks \in BOOLEAN
      OBVIOUS
    <3> HIDE DEF tasks
    <3>3. PICK c \in ClusterObj :
            c = [Stored(clusterLog) EXCEPT !.tasks = tasks] /\ c.slots = Slots
      <4>1. \A c \in ClusterObj : [c EXCEPT !.tasks = tasks] \in ClusterObj
                                  /\ [c EXCEPT !.tasks = tasks].slots = c.slots
        BY <3>2 DEF ClusterObj
      <4> QED
        BY <1>1, <4>1, ClusterEnds DEF Slots
    <3> QED
      BY <1>1, <3>1, <3>3, SlotsWritten, SlotsSeen
  <2> QED
    BY <2>1, <2>2
<1>3. Still
  <2>1. CASE DeliverCluster
    BY <2>1 DEF DeliverCluster, Still
  <2>2. CASE Mirror
    BY <1>1, <2>2 DEF Mirror, Still, PassOK, PassObj
  <2> QED
    BY <2>1, <2>2
<1>4. Apart
  BY <1>1, <1>2, NodeStays, ServiceStays DEF Apart
<1> QED
  BY <1>3, <1>4, SlotApart

LEMMA SlotWorker ==
  ASSUME SlotInv, TypeInv', NEW w \in Workers,
         CpBegin(w) \/ CpEnd(w) \/ CpGiveUp(w) \/ Stream(w) \/ Leave(w)
  PROVE  SlotInv'
<1>1. /\ BackendOK /\ UNCHANGED <<nodeLog, clusterLog, pass>>
  BY TypeParts
  DEF SlotInv, TypeInv, CpBegin, CpEnd, CpGiveUp, Stream, Leave, api
<1>2. away \subseteq away'
  BY DEF CpBegin, CpEnd, CpGiveUp, Stream, Leave, world
<1>3. ASSUME NEW n \in Nodes
      PROVE  /\ InService(n) => InService(n)'
             /\ seen'[On[n]] = "created" /\ made'[On[n]] # "created" =>
                  seen[On[n]] = "created" /\ made[On[n]] # "created"
  <2>1. On[n] \in Workers
    BY ProvisioningAssumption
  <2>2. CASE CpBegin(w) \/ CpGiveUp(w)
    <3>1. made[w] # "created" /\ seen' = seen
          /\ \E x \in {"none", "in_creation"} : made' = [made EXCEPT ![w] = x]
      BY <2>2 DEF CpBegin, CpGiveUp
    <3> QED
      BY <1>1, <2>1, <3>1 DEF BackendOK, InService
  <2>3. CASE CpEnd(w)
    BY <1>1, <2>1, <2>3 DEF BackendOK, InService, CpEnd
  <2>4. CASE Stream(w)
    BY <1>1, <2>1, <2>4 DEF BackendOK, InService, Stream
  <2>5. CASE Leave(w)
    BY <2>5, ServiceStays DEF Leave, backend
  <2> QED
    BY <2>2, <2>3, <2>4, <2>5
<1>4. Apart
  BY <1>1, <1>2, <1>3, NodeStays, ListStays DEF Apart
<1> QED
  BY <1>1, <1>4, SlotApart DEF Still

LEMMA SlotCrash ==
  ASSUME SlotInv, TypeInv', Crash
  PROVE  SlotInv'
<1>1. UNCHANGED <<nodeLog, clusterLog, seen, made, away>> /\ pass'.pc = "idle"
  BY ObjTypes DEF Crash, api, backend
<1>2. Apart
  BY <1>1, NodeStays, ListStays, ServiceStays DEF Apart
<1> QED
  BY <1>1, <1>2, SlotApart DEF Still

\* The steps that wait until every cache is up to date and no pass runs: then a loose
\* entry is that of a node whose stored version is to be dropped.
LEMMA QuietLoose ==
  ASSUME SlotInv, Quiet, NEW n \in Nodes, Loose(n)
  PROVE  n \in Slots /\ Reapable(Node(n))
<1>1. NodesOK /\ ClusterOK /\ Current(clusterLog) /\ Current(nodeLog[n])
  BY TypeParts DEF SlotInv, TypeInv, Quiet
<1> QED
  BY <1>1, SlotsSeen, ReapableSeen DEF Loose

LEMMA IdlePasses ==
  ASSUME pass'.pc = "idle"
  PROVE  \A n \in Nodes : Passes(n)' /\ ~Running(n, "take")'
  BY DEF Passes, Reads, Takes, Posts, Releases, Writes, Running, At

LEMMA SlotReturn ==
  ASSUME SlotInv, TypeInv', NEW w \in Workers, Return(w)
  PROVE  SlotInv'
<1>1. /\ Quiet /\ pass'.pc = "idle"
      /\ UNCHANGED <<nodeLog, clusterLog, pass, seen, made>>
  BY DEF Return, Quiet, At, api, backend
<1>2. ASSUME NEW n \in Nodes PROVE Holds(n)'
  <2>1. /\ Holds(n) /\ Node(n)' = Node(n) /\ Slots' = Slots /\ (Loose(n)' <=> Loose(n))
        /\ (InService(n)' <=> InService(n))
    BY <1>1, NodeStays, ListStays, ServiceStays DEF SlotInv, Loose
  <2>2. ASSUME Loose(n) PROVE Parked(n)'
    <3>1. Reapable(Node(n)) /\ Parked(n)
      BY <1>1, <2>1, <2>2, QuietLoose DEF Holds
    <3>2. \/ Going(Node(n))
          \/ ~Node(n).uuid /\ Node(n).late /\ Node(n).step # ""
          \/ addFinished(Node(n)) /\ InService(n)
      BY <2>1, <3>1 DEF Parked, Reapable, Holds, Shaped, Going, addFinished
    <3> QED
      BY <2>1, <3>2 DEF Parked, Going, addFinished
  <2> QED
    BY <2>1, <2>2 DEF Holds, Shaped, Asked, Going
<1>3. Capped'
  BY <1>1, ListStays DEF SlotInv, Capped
<1>4. ASSUME NEW n \in Nodes PROVE SeenMade(n)'
  BY <1>1, IdlePasses, ListStays DEF SlotInv, SeenMade
<1> QED
  BY <1>1, <1>2, <1>3, <1>4, IdlePasses DEF SlotInv

LEMMA SlotReset ==
  ASSUME SlotInv, TypeInv', NEW w \in Workers, Reset(w)
  PROVE  SlotInv'
<1>1. /\ Quiet /\ pass'.pc = "idle" /\ BackendOK /\ ClusterOK
      /\ made' = [made EXCEPT ![w] = "none"]
      /\ UNCHANGED <<nodeLog, clusterLog, pass, seen, away>>
  BY TypeParts DEF SlotInv, TypeInv, Reset, Quiet, At, api
<1>2. ASSUME NEW n \in Nodes, On[n] = w PROVE ~Entered(n)
  BY <1>1, <1>2, SlotsSeen DEF Reset, Quiet, Slots
<1>3. ASSUME NEW n \in Nodes
      PROVE  Holds(n)' /\ SeenMade(n)'
  <2>1. /\ Holds(n) /\ SeenMade(n) /\ Node(n)' = Node(n) /\ Slots' = Slots
        /\ (Entered(n)' <=> Entered(n)) /\ (Loose(n)' <=> Loose(n))
    BY <1>1, NodeStays, ListStays DEF SlotInv, Loose
  <2>2. CASE On[n] = w
    <3>1. ~Entered(n)
      BY <1>2, <2>2
    <3> QED
      BY <1>1, <2>1, <3>1, IdlePasses DEF Holds, SeenMade, Shaped, Asked, Going, Loose
  <2>3. CASE On[n] # w
    <3>1. made'[On[n]] = made[On[n]]
      BY <1>1, <2>3, ProvisioningAssumption DEF BackendOK
    <3>2. Parked(n)' <=> Parked(n)
      BY <1>1, <2>1, <3>1 DEF Parked, InService, Going, addFinished
    <3> QED
      BY <1>1, <2>1, <3>1, <3>2, IdlePasses DEF Holds, SeenMade, Shaped, Asked, Going
  <2> QED
    BY <2>2, <2>3
<1>4. Capped'
  BY <1>1, ListStays DEF SlotInv, Capped
<1> QED
  BY <1>1, <1>3, <1>4, IdlePasses DEF SlotInv

LEMMA SlotDeadline ==
  ASSUME SlotInv, TypeInv', NEW n \in Nodes, NEW s \in Steps, DeadlinePasses(n, s)
  PROVE  SlotInv'
<1>1. /\ Quiet /\ pass'.pc = "idle" /\ NodesOK /\ s \in Late /\ Node(n).step = s
      /\ nodeLog' = [nodeLog EXCEPT ![n] = <<[Node(n) EXCEPT !.late = TRUE]>>]
      /\ UNCHANGED <<clusterLog, pass, seen, made, away>>
  BY TypeParts
  DEF SlotInv, TypeInv, DeadlinePasses, Quiet, At, backend, world, Node
<1>2. Node(n) \in NodeObj /\ Current(nodeLog[n])
  BY <1>1, NodeEnds DEF Quiet
<1>3. PICK v \in NodeObj : v = [Node(n) EXCEPT !.late = TRUE]
  BY <1>2 DEF NodeObj
<1>4. /\ v.late /\ v.step = Node(n).step /\ v.uuid = Node(n).uuid /\ v.deleted = Node(n).deleted
      /\ v.exists = Node(n).exists /\ v.failed = Node(n).failed
      /\ v.creating = Node(n).creating
  BY <1>2, <1>3 DEF NodeObj
<1>5. nodeLog'[n] = <<v>> /\ \A m \in Nodes : m # n => nodeLog'[m] = nodeLog[m]
  BY <1>1, <1>3 DEF NodesOK
<1>6. Node(n)' = v /\ (SomeReapable(n)' => Reapable(v))
  <2>1. PICK L \in Seq(NodeObj) : L = <<v>> /\ Len(L) = 1 /\ L[1] = v
    <3>1. <<v>> \in Seq(NodeObj) /\ Len(<<v>>) = 1 /\ <<v>>[1] = v
      OBVIOUS
    <3> QED
      BY <3>1, Zenon
  <2>2. nodeLog'[n] = L
    BY <1>5, <2>1
  <2> QED
    BY <2>1, <2>2 DEF Node, Stored, SomeReapable
<1>7. v.step # ""
  BY <1>1, <1>4, ProvisioningAssumption DEF Gates, Claimed
<1>8. Holds(n)'
  <2>1. /\ Holds(n) /\ Slots' = Slots /\ (Entered(n)' <=> Entered(n))
    BY <1>1, ListStays DEF SlotInv
  <2>2. CASE Going(v)
    BY <1>6, <2>2 DEF Holds, Parked, Asked, Going
  <2>3. CASE ~Going(v)
    <3>1. Shaped(Node(n)) /\ ~v.uuid
      BY <1>4, <1>7, <2>1, <2>3 DEF Holds, Shaped, Going
    <3>2. Shaped(v) /\ ~Asked(v)
      BY <1>4, <1>7, <3>1 DEF Shaped, Asked
    <3>3. Parked(n)'
      BY <1>4, <1>6, <1>7, <3>1 DEF Parked
    <3> QED
      BY <1>6, <3>2, <3>3 DEF Holds
  <2> QED
    BY <2>2, <2>3
<1>9. ASSUME NEW m \in Nodes, m # n PROVE Holds(m)'
  <2>1. /\ Holds(m) /\ Slots' = Slots /\ (Loose(m)' <=> Loose(m)) /\ Node(m)' = Node(m)
        /\ (InService(m)' <=> InService(m)) /\ away' = away
    BY <1>1, <1>5, <1>9, NodeStays, ListStays, ServiceStays DEF SlotInv, Loose
  <2> QED
    BY <2>1 DEF Holds, Parked, Shaped, Asked, Going, addFinished
<1>10. Capped' /\ \A m \in Nodes : SeenMade(m)'
  BY <1>1, IdlePasses, ListStays DEF SlotInv, Capped, SeenMade
<1> QED
  BY <1>1, <1>8, <1>9, <1>10, IdlePasses DEF SlotInv

\* A pass of n leaves the others' clauses empty.
LEMMA OtherPasses ==
  ASSUME NEW n \in Nodes, pass'.pc = "idle" \/ pass'.node = n
  PROVE  \A m \in Nodes : m # n => Passes(m)' /\ ~Running(m, "take")'
  BY DEF Passes, Reads, Takes, Posts, Releases, Writes, Running, At

\* A pass goes on to a write, an add or a release.
LEMMA WriteStarts ==
  ASSUME BackendOK, NEW n \in Nodes,
         NEW do \in Steps \cup {"uuid", "lost", "status", "fail"}, Write(n, do),
         NEW r, r = IF do \in {"uuid", "status"} THEN seen[On[n]] ELSE "none",
         ~Going(Node(n))' => Current(nodeLog[n])' /\ WriteFits(n, do, r)'
  PROVE  \A m \in Nodes : Passes(m)' /\ ~Running(m, "take")'
<1>1. pass'.node = n /\ pass'.pc = "write" /\ pass'.do = do /\ pass'.reading = r
  BY PieceMoves
<1>2. Writes(n)'
  BY <1>1 DEF Writes
<1>3. Passes(n)' /\ ~Running(n, "take")'
  BY <1>1, <1>2 DEF Passes, Reads, Takes, Posts, Releases, Running, At
<1> QED
  BY <1>1, <1>3, OtherPasses

LEMMA PostStarts ==
  ASSUME BackendOK, NEW n \in Nodes, Post(n), n \in Slots',
         ~Going(Node(n))' => Current(nodeLog[n])' /\ Asked(Node(n))'
  PROVE  \A m \in Nodes : Passes(m)' /\ ~Running(m, "take")'
<1>1. pass'.node = n /\ pass'.pc = "post"
  BY PieceMoves
<1>2. Passes(n)' /\ ~Running(n, "take")'
  BY <1>1 DEF Passes, Reads, Takes, Posts, Releases, Writes, Running, At
<1> QED
  BY <1>1, <1>2, OtherPasses

LEMMA ReleaseStarts ==
  ASSUME NEW n \in Nodes, pass'.pc = "release", pass'.node = n,
         Parked(n)' \/ ~Entered(n)',
         pass'.then = "fail" /\ ~Going(Node(n))' =>
           Current(nodeLog[n])' /\ ~Node(n)'.uuid /\ Node(n)'.late
  PROVE  \A m \in Nodes : Passes(m)' /\ ~Running(m, "take")'
<1>1. Passes(n)' /\ ~Running(n, "take")'
  BY DEF Passes, Reads, Takes, Posts, Releases, Writes, Running, At
<1> QED
  BY <1>1, OtherPasses

\* Only a pass moves.
PassOnly == UNCHANGED <<nodeLog, clusterLog, seen, made, away>>

LEMMA PassOnlyKeeps ==
  ASSUME SlotInv, PassOnly
  PROVE  /\ Capped' /\ \A m \in Nodes : Holds(m)'
         /\ \A m \in Nodes : (~Running(m, "take")' \/ seen[On[m]] # "created") => SeenMade(m)'
         /\ Slots' = Slots
         /\ \A m \in Nodes :
              /\ Node(m)' = Node(m) /\ (Current(nodeLog[m])' <=> Current(nodeLog[m]))
              /\ (Going(Node(m))' <=> Going(Node(m)))
              /\ (SomeReapable(m)' <=> SomeReapable(m)) /\ (Entered(m)' <=> Entered(m))
              /\ (Loose(m)' <=> Loose(m)) /\ (InService(m)' <=> InService(m))
              /\ (Parked(m) => Parked(m)')
<1>1. Slots' = Slots /\ \A m \in Nodes : Entered(m)' <=> Entered(m)
  BY ListStays DEF PassOnly
<1>2. \A m \in Nodes : /\ Node(m)' = Node(m) /\ (Current(nodeLog[m])' <=> Current(nodeLog[m]))
                       /\ (Going(Node(m))' <=> Going(Node(m)))
                       /\ (SomeReapable(m)' <=> SomeReapable(m))
  BY NodeStays DEF PassOnly
<1>3. \A m \in Nodes : InService(m)' <=> InService(m)
  BY ServiceStays DEF PassOnly
<1>4. Apart
  BY <1>1, <1>2, <1>3, ServiceStays DEF Apart, PassOnly
<1>5. Capped'
  BY <1>1 DEF SlotInv, Capped
<1>6. \A m \in Nodes : Holds(m)' /\ (Parked(m) => Parked(m)')
  BY <1>4, HoldsKept, ParkedKept DEF SlotInv
<1>7. \A m \in Nodes : (~Running(m, "take")' \/ seen[On[m]] # "created") => SeenMade(m)'
  BY <1>1 DEF SlotInv, SeenMade, PassOnly
<1>8. \A m \in Nodes : Loose(m)' <=> Loose(m)
  BY <1>1, <1>2 DEF Loose
<1> QED
  BY <1>1, <1>2, <1>3, <1>5, <1>6, <1>7, <1>8

LEMMA FitsStay ==
  ASSUME SlotInv, PassOnly, NEW n \in Nodes, NEW do, NEW r, WriteFits(n, do, r)
  PROVE  WriteFits(n, do, r)'
<1>1. /\ Node(n)' = Node(n) /\ Slots' = Slots /\ away' = away
      /\ (Entered(n)' <=> Entered(n)) /\ (Loose(n)' <=> Loose(n))
      /\ (InService(n)' <=> InService(n))
  BY PassOnlyKeeps DEF PassOnly
<1> QED
  BY <1>1 DEF WriteFits

LEMMA SlotPassOnly ==
  ASSUME SlotInv, TypeInv', PassOnly, \A m \in Nodes : Passes(m)' /\ ~Running(m, "take")'
  PROVE  SlotInv'
  BY PassOnlyKeeps DEF SlotInv

LEMMA SlotPassWrites ==
  ASSUME SlotInv, TypeInv', PassOnly, NEW n \in Nodes,
         NEW do \in Steps \cup {"uuid", "lost", "status", "fail"}, Write(n, do),
         NEW r, r = IF do \in {"uuid", "status"} THEN seen[On[n]] ELSE "none",
         ~Going(Node(n)) => Current(nodeLog[n]) /\ WriteFits(n, do, r)
  PROVE  SlotInv'
<1>1. BackendOK
  BY TypeParts DEF SlotInv, TypeInv
<1>2. ~Going(Node(n))' => Current(nodeLog[n])' /\ WriteFits(n, do, r)'
  BY PassOnlyKeeps, FitsStay
<1> QED
  BY <1>1, <1>2, WriteStarts, SlotPassOnly

\* A pass that is over.
LEMMA SlotPassEnds ==
  ASSUME SlotInv, TypeInv', PassOnly, pass'.pc \in {"idle", "drop"}, NEW n \in Nodes,
         pass'.node = n \/ pass'.pc = "idle"
  PROVE  SlotInv'
<1>1. \A m \in Nodes : Passes(m)' /\ ~Running(m, "take")'
  BY DEF Passes, Reads, Takes, Posts, Releases, Writes, Running, At
<1> QED
  BY <1>1, SlotPassOnly

\* Nothing loose about a node that a pass takes on.
LEMMA NotLoose ==
  ASSUME SlotInv, NEW n \in Nodes, ~Going(Node(n)),
         Node(n).uuid \/ ~Node(n).late \/ Node(n).step = "",
         Node(n).uuid \/ Node(n).step # "AwaitingWorker" \/ On[n] \notin away,
         ~Node(n).uuid \/ seen[On[n]] # "created"
  PROVE  ~Loose(n)
  BY DEF SlotInv, Holds, Parked, InService, addFinished

LEMMA SlotPost ==
  ASSUME SlotInv, TypeInv', PostNode
  PROVE  SlotInv'
<1>1. /\ BackendOK /\ PassOK /\ At("post") /\ PassOnly
  BY TypeParts DEF SlotInv, TypeInv, PostNode, PassOnly, api
<1>2. PICK n \in Nodes : n = pass.node
  BY <1>1 DEF PassOK, At
<1>3. CASE Write(n, "Resolving")
  <2>1. "Resolving" \in Steps /\ "Resolving" \notin {"uuid", "status"}
    BY StepNames
  <2>2. ASSUME ~Going(Node(n))
        PROVE  Current(nodeLog[n]) /\ WriteFits(n, "Resolving", "none")
    <3>1. /\ n \in Slots /\ Asked(Node(n)) /\ Current(nodeLog[n])
      BY <1>1, <1>2, <2>2 DEF SlotInv, Passes, Posts, Reads, Running, At
    <3>2. ~Loose(n)
      BY <2>2, <3>1, NotLoose DEF Asked
    <3> QED
      BY <3>1, <3>2 DEF WriteFits, Asked
  <2> QED
    BY <1>1, <1>3, <2>1, <2>2, SlotPassWrites
<1>4. CASE End
  BY <1>1, <1>2, <1>4, ObjTypes, SlotPassEnds DEF End
<1> QED
  BY <1>2, <1>3, <1>4 DEF PostNode

\* What a pass decides.
LEMMA SlotTeardown ==
  ASSUME SlotInv, TypeInv', PassOnly, NEW n \in Nodes, Node(n).deleted, Teardown(n, Node(n))
  PROVE  SlotInv'
<1>1. CASE pass' = Idle
  BY <1>1, ObjTypes, SlotPassEnds
<1>2. CASE pass' = [Start(n, "drop") EXCEPT !.obj = Node(n)]
  <2>1. pass'.pc = "drop" /\ pass'.node = n
    BY <1>2 DEF Start, Idle
  <2> QED
    BY <2>1, SlotPassEnds
<1>3. CASE pass' = [Start(n, "release") EXCEPT !.obj = Node(n), !.then = "drop"]
  <2>1. pass'.pc = "release" /\ pass'.node = n /\ pass'.then = "drop"
    BY <1>3 DEF Start, Idle
  <2>2. Parked(n)
    BY DEF Parked, Going
  <2>3. \A m \in Nodes : Passes(m)' /\ ~Running(m, "take")'
    BY <2>1, <2>2, PassOnlyKeeps, ReleaseStarts
  <2> QED
    BY <2>3, SlotPassOnly
<1> QED
  BY <1>1, <1>2, <1>3 DEF Teardown, End

LEMMA SlotSync ==
  ASSUME SlotInv, TypeInv', PassOnly, NEW n \in Nodes, ~Going(Node(n)), Node(n).uuid,
         Current(nodeLog[n]), SyncStatus(n)
  PROVE  SlotInv'
<1>1. "status" \notin Steps /\ "lost" \notin Steps
  BY StepNames
<1>2. BackendOK /\ SeenMade(n)
  BY TypeParts DEF SlotInv, TypeInv
<1>3. CASE Write(n, "status") /\ Found(n)
  <2>1. PICK r : r = seen[On[n]]
    OBVIOUS
  <2>2. r # "created" => ~Loose(n)
    BY <2>1, NotLoose
  <2>3. r # "none" /\ (r = "created" => InService(n) \/ ~Entered(n))
    BY <1>2, <1>3, <2>1 DEF Found, SeenMade, InService
  <2>4. WriteFits(n, "status", r)
    BY <1>1, <2>2, <2>3 DEF WriteFits, Onward
  <2> QED
    BY <1>3, <2>1, <2>4, SlotPassWrites
<1>4. CASE Write(n, "lost") /\ ~Found(n)
  <2>1. ~Loose(n)
    BY <1>4, NotLoose DEF Found
  <2>2. WriteFits(n, "lost", "none")
    BY <1>1, <2>1 DEF WriteFits, Onward
  <2>3. "none" = IF "lost" \in {"uuid", "status"} THEN seen[On[n]] ELSE "none"
    OBVIOUS
  <2> QED
    BY <1>4, <2>2, <2>3, SlotPassWrites
<1>5. CASE End
  BY <1>5, ObjTypes, SlotPassEnds DEF End
<1> QED
  BY <1>3, <1>4, <1>5 DEF SyncStatus

\* A step recorded for a node with nothing loose.
LEMMA SlotSteps ==
  ASSUME SlotInv, TypeInv', PassOnly, NEW n \in Nodes, ~Going(Node(n)), ~Node(n).uuid,
         Current(nodeLog[n]), NEW do \in Steps \ {""}, Write(n, do),
         do = "AwaitingWorker" => On[n] \in away,
         do # "AwaitingWorker" => ~Loose(n),
         do \in {"Posting", "Resolving"} => n \in Slots
  PROVE  SlotInv'
<1>1. do \notin {"uuid", "status", "lost", "fail"}
  BY StepNames
<1>2. WriteFits(n, do, "none")
  BY <1>1 DEF WriteFits, Onward
<1> QED
  BY <1>1, <1>2, SlotPassWrites

\* The node's UUID is taken over from what the stream shows.
LEMMA SlotResolves ==
  ASSUME SlotInv, TypeInv', PassOnly, NEW n \in Nodes, ~Going(Node(n)), ~Node(n).uuid,
         Current(nodeLog[n]), Write(n, "uuid"), Found(n), ~Loose(n)
  PROVE  SlotInv'
<1>1. "uuid" \notin Steps
  BY StepNames
<1>2. SeenMade(n)
  BY DEF SlotInv
<1>3. PICK r : r = seen[On[n]]
  OBVIOUS
<1>4. WriteFits(n, "uuid", r)
  BY <1>1, <1>2, <1>3 DEF WriteFits, Onward, Found, SeenMade, InService
<1> QED
  BY <1>3, <1>4, SlotPassWrites

\* The workers of a set of nodes are no more than the nodes.
LEMMA WorkersOf ==
  ASSUME NEW S \in SUBSET Nodes
  PROVE  LET T == {On[m] : m \in S} IN
         IsFiniteSet(S) /\ IsFiniteSet(T) /\ Cardinality(T) <= Cardinality(S)
<1> DEFINE T == {On[m] : m \in S}
           f == [m \in S |-> On[m]]
<1>1. IsFiniteSet(S)
  BY FS_Subset, ProvisioningAssumption
<1>2. f \in Surjection(S, T)
  BY DEF Surjection
<1> QED
  BY <1>1, <1>2, FS_Surjection

\* A slot is only taken when the ones counted leave room.
LEMMA RoomLeft ==
  ASSUME NEW n \in Nodes, NEW held \in SUBSET Nodes,
         ~(Cardinality(held) + PlaceOf(On[n], Contenders(n, held)) >= Limit)
  PROVE  Cardinality(held) < Limit
<1> DEFINE ahead == {x \in Contenders(n, held) : Rank[x] < Rank[On[n]]}
<1>1. IsFiniteSet(held) /\ Cardinality(held) \in Nat
  BY WorkersOf, FS_CardinalityType
<1>2. IsFiniteSet({On[m] : m \in Nodes})
  BY WorkersOf
<1>3. ahead \in SUBSET {On[m] : m \in Nodes}
  BY DEF Contenders
<1>4. IsFiniteSet(ahead)
  BY <1>2, <1>3, FS_Subset
<1>5. Cardinality(ahead) \in Nat
  BY <1>4, FS_CardinalityType
<1>6. PlaceOf(On[n], Contenders(n, held)) = Cardinality(ahead)
  BY DEF PlaceOf
<1> HIDE DEF ahead
<1> QED
  BY <1>1, <1>5, <1>6, ProvisioningAssumption

LEMMA SlotTakes ==
  ASSUME SlotInv, TypeInv', PassOnly, NEW n \in Nodes, ~Going(Node(n)), ~Node(n).uuid,
         ~Node(n).late, Node(n).step = "AwaitingSlot", Current(nodeLog[n]), ~Found(n),
         NEW held, held = heldSlots(Cached(clusterLog).slots),
         ~(Cardinality(held) + PlaceOf(On[n], Contenders(n, held)) >= Limit),
         ~(On[n] \in FDB /\ \E m \in held : On[m] \in FDB),
         pass' = [Start(n, "take") EXCEPT !.held = held, !.fresh = Current(clusterLog)]
  PROVE  SlotInv'
<1>1. NodesOK /\ ClusterOK /\ Holds(n)
  BY TypeParts DEF SlotInv, TypeInv
<1>2. /\ pass'.pc = "take" /\ pass'.node = n /\ pass'.held = held
      /\ pass'.fresh = Current(clusterLog)
  BY DEF Start, Idle
<1>3. held \in SUBSET Nodes /\ held \subseteq Cached(clusterLog).slots
  BY <1>1, SlotsSeen DEF heldSlots
<1>4. Cardinality(held) < Limit
  BY <1>3, RoomLeft
<1>5. ~SomeReapable(n)
  <2>1. ~Reapable(Node(n))
    BY <1>1 DEF Reapable, Going, Holds, Shaped, addFinished
  <2> QED
    BY <1>1, <2>1, ReapableSeen
<1>6. ASSUME Current(clusterLog)
      PROVE  held \subseteq Slots /\ \A m \in Slots \ held : Parked(m)
  <2>1. Cached(clusterLog).slots = Slots /\ Slots \subseteq Nodes
    BY <1>1, <1>6, ClusterEnds, SlotsSeen DEF Slots
  <2>2. ASSUME NEW m \in Slots, m \notin held
        PROVE  Parked(m)
    <3>1. m \in Nodes /\ Reapable(Cached(nodeLog[m]))
      BY <2>1, <2>2 DEF heldSlots
    <3>2. Loose(m)
      BY <1>1, <2>2, <3>1, SlotsSeen, ReapableSeen DEF Loose
    <3> QED
      BY <3>1, <3>2 DEF SlotInv, Holds
  <2> QED
    BY <1>3, <2>1, <2>2
<1>7. Takes(n)'
  <2>1. /\ Node(n)' = Node(n) /\ ~SomeReapable(n)' /\ Slots' = Slots
        /\ \A m \in Nodes : Parked(m) => Parked(m)'
    BY <1>5, PassOnlyKeeps
  <2>2. Slots \in SUBSET Nodes
    BY <1>1, SlotsSeen
  <2>3. ASSUME Current(clusterLog)
        PROVE  held \subseteq Slots' /\ \A m \in Slots' \ held : Parked(m)'
    BY <1>6, <2>1, <2>2, <2>3
  <2> QED
    BY <1>2, <1>4, <2>1, <2>3 DEF Takes
<1>8. Passes(n)'
  <2>1. Current(nodeLog[n])'
    BY PassOnlyKeeps
  <2> QED
    BY <1>2, <1>7, <2>1 DEF Passes, Reads, Posts, Releases, Writes, Running, At
<1>9. \A m \in Nodes : Passes(m)' /\ (m # n => ~Running(m, "take")')
  BY <1>2, <1>8, OtherPasses
<1>10. seen[On[n]] # "created"
  BY DEF Found
<1> QED
  BY <1>9, <1>10, PassOnlyKeeps DEF SlotInv

LEMMA SlotAwait ==
  ASSUME OnePerWorker, SlotInv, TypeInv', PassOnly, NEW n \in Nodes, ~Going(Node(n)),
         ~Node(n).uuid, ~Node(n).late, Node(n).step = "AwaitingSlot",
         Current(nodeLog[n]), AwaitSlot(n)
  PROVE  SlotInv'
<1> DEFINE w == On[n]
           held == heldSlots(Cached(clusterLog).slots)
           mine == {m \in held : On[m] = w}
           claimed == \E m \in Nodes \ {n} : On[m] = w /\ claimedWorker(Cached(nodeLog[m]))
           full == \/ Cardinality(held) + PlaceOf(w, Contenders(n, held)) >= Limit
                   \/ w \in FDB /\ \E m \in held : On[m] \in FDB
<1>1. ClusterOK /\ ~Loose(n)
  BY TypeParts, NotLoose DEF SlotInv, TypeInv
<1>2. {"Adopting", "Posting"} \subseteq Steps \ {""}
  BY StepNames
<1>3. CASE Write(n, "Adopting")
  BY <1>1, <1>2, <1>3, SlotSteps
<1>4. CASE End
  BY <1>4, ObjTypes, SlotPassEnds DEF End
<1>5. ~claimed
  BY DEF OnePerWorker
<1>6. held \in SUBSET Nodes /\ held \subseteq Cached(clusterLog).slots
  BY <1>1, SlotsSeen DEF heldSlots
<1>7. mine # {} => n \in mine
  BY <1>6 DEF OnePerWorker
<1>8. CASE n \in mine /\ Write(n, "Posting")
  <2>1. Entered(n)
    BY <1>1, <1>6, <1>8, SlotsSeen
  <2>2. n \in Slots
    BY <1>1, <2>1 DEF Loose
  <2> QED
    BY <1>1, <1>2, <1>8, <2>2, SlotSteps
<1>9. CASE /\ ~full /\ ~Found(n)
           /\ pass' = [Start(n, "take") EXCEPT !.held = held, !.fresh = Current(clusterLog)]
  <2>1. PICK h : h = held
    OBVIOUS
  <2>2. /\ ~(Cardinality(h) + PlaceOf(On[n], Contenders(n, h)) >= Limit)
        /\ ~(On[n] \in FDB /\ \E m \in h : On[m] \in FDB)
        /\ pass' = [Start(n, "take") EXCEPT !.held = h, !.fresh = Current(clusterLog)]
    BY <1>9, <2>1
  <2> QED
    BY <1>9, <2>1, <2>2, SlotTakes
<1>10. \/ Write(n, "Adopting")
       \/ End
       \/ n \in mine /\ Write(n, "Posting")
       \/ /\ ~full /\ ~Found(n)
          /\ pass' = [Start(n, "take") EXCEPT !.held = held, !.fresh = Current(clusterLog)]
  <2>1. \/ Found(n) /\ Write(n, "Adopting")
        \/ End
        \/ ~Found(n) /\ claimed
        \/ ~Found(n) /\ mine # {} /\ Write(n, IF n \in mine THEN "Posting" ELSE "Resolving")
        \/ /\ ~full /\ ~Found(n)
           /\ pass' = [Start(n, "take") EXCEPT !.held = held, !.fresh = Current(clusterLog)]
    <3> HIDE DEF w, held, mine, claimed, full
    <3> SUFFICES /\ Found(n) => Write(n, "Adopting")
                 /\ ~Found(n) /\ w \in away => End
                 /\ ~Found(n) /\ w \notin away /\ ~claimed /\ mine # {} =>
                      Write(n, IF n \in mine THEN "Posting" ELSE "Resolving")
                 /\ ~Found(n) /\ w \notin away /\ ~claimed /\ mine = {} /\ full => End
                 /\ ~Found(n) /\ w \notin away /\ ~claimed /\ mine = {} /\ ~full =>
                      pass' = [Start(n, "take") EXCEPT !.held = held,
                                                       !.fresh = Current(clusterLog)]
      OBVIOUS
    <3> QED
      BY DEF AwaitSlot, w, held, mine, claimed, full
  <2> QED
    BY <1>5, <1>7, <2>1
<1> QED
  BY <1>3, <1>4, <1>8, <1>9, <1>10

LEMMA SlotProvision ==
  ASSUME OnePerWorker, SlotInv, TypeInv', PassOnly, NEW n \in Nodes, ~Going(Node(n)),
         ~Node(n).uuid, Current(nodeLog[n]), Provision(n, Node(n))
  PROVE  SlotInv'
<1>1. /\ {"Checking", "AwaitingWorker", "Adopting", "AwaitingSlot", "Posting"}
           \subseteq Steps \ {""}
  BY StepNames
<1>2. CASE Node(n).step = "" /\ Write(n, "Checking")
  BY <1>1, <1>2, NotLoose, SlotSteps
<1>3. CASE On[n] \in away /\ Write(n, "AwaitingWorker")
  BY <1>1, <1>3, SlotSteps
<1>4. CASE Node(n).step # "" /\ Node(n).late /\ Release(n, "fail")
  <2>1. pass'.pc = "release" /\ pass'.node = n
    BY <1>4 DEF Release, Start, Idle
  <2>2. Parked(n)
    BY <1>4 DEF Parked
  <2>3. \A m \in Nodes : Passes(m)' /\ ~Running(m, "take")'
    BY <1>4, <2>1, <2>2, PassOnlyKeeps, ReleaseStarts
  <2> QED
    BY <2>3, SlotPassOnly
<1>5. CASE ~Node(n).late /\ PerformNodeStep(n, Node(n).step)
  <2>1. Node(n).step # "AwaitingWorker" \/ On[n] \notin away => ~Loose(n)
    BY <1>5, NotLoose
  <2>2. Node(n).step \in {"Posting", "Resolving"} => n \in Slots /\ Asked(Node(n))
    BY <1>5 DEF SlotInv, Holds, Shaped, Asked, Going
  <2>3. CASE End
    BY <2>3, ObjTypes, SlotPassEnds DEF End
  <2>4. CASE Node(n).step = "Checking"
             /\ Write(n, IF Found(n) THEN "Adopting" ELSE "AwaitingSlot")
    BY <1>1, <2>1, <2>4, SlotSteps
  <2>5. CASE Node(n).step = "AwaitingSlot" /\ AwaitSlot(n)
    BY <1>5, <2>5, SlotAwait
  <2>6. CASE Node(n).step = "Posting" /\ Post(n)
    <3>1. BackendOK /\ n \in Slots /\ Asked(Node(n))
      BY <2>2, <2>6, TypeParts DEF SlotInv, TypeInv
    <3>2. n \in Slots' /\ Asked(Node(n))' /\ Current(nodeLog[n])'
      BY <3>1, PassOnlyKeeps DEF Asked
    <3> QED
      BY <2>6, <3>1, <3>2, PostStarts, SlotPassOnly
  <2>7. CASE Node(n).step \in {"Resolving", "Adopting"} /\ Found(n) /\ Write(n, "uuid")
    BY <2>1, <2>7, SlotResolves
  <2>8. CASE Node(n).step = "Resolving" /\ Write(n, "Posting")
    BY <1>1, <2>1, <2>2, <2>8, SlotSteps
  <2>9. CASE Node(n).step = "AwaitingWorker" /\ On[n] \notin away /\ Write(n, "Checking")
    BY <1>1, <2>1, <2>9, SlotSteps
  <2> QED
    BY <1>5, <2>3, <2>4, <2>5, <2>6, <2>7, <2>8, <2>9 DEF PerformNodeStep
<1> QED
  BY <1>2, <1>3, <1>4, <1>5 DEF Provision

LEMMA SlotReconcile ==
  ASSUME OnePerWorker, NodePrompt, SlotInv, TypeInv', NEW n \in Nodes, Reconcile(n)
  PROVE  SlotInv'
<1>1. /\ PassOnly /\ Current(nodeLog[n]) /\ NodesOK
  BY TypeParts DEF SlotInv, TypeInv, Reconcile, PassOnly, api, backend, world
<1>2. Cached(nodeLog[n]) = Node(n)
  BY <1>1, NodeEnds
<1>3. /\ Node(n).exists
      /\ \/ Node(n).deleted /\ Teardown(n, Node(n))
         \/ ~Node(n).deleted /\ ~Node(n).uuid /\ Provision(n, Node(n))
         \/ ~Node(n).deleted /\ Node(n).uuid /\ SyncStatus(n)
  BY <1>2 DEF Reconcile
<1> QED
  BY <1>1, <1>3, SlotTeardown, SlotProvision, SlotSync DEF Going

LEMMA SlotTake ==
  ASSUME SlotInv, TypeInv', TakeSlot
  PROVE  SlotInv'
<1>1. /\ NodesOK /\ ClusterOK /\ PassOK /\ BackendOK /\ At("take") /\ PassPlain
      /\ UNCHANGED <<nodeLog, seen, made, away>>
  BY TypeParts DEF SlotInv, TypeInv, TakeSlot, backend, world
<1>2. PICK n \in Nodes : n = pass.node
  BY <1>1 DEF PassOK, At
<1>3. CASE ~pass.fresh
  <2>1. End /\ UNCHANGED clusterLog
    BY <1>3 DEF TakeSlot, TakeLands
  <2> QED
    BY <1>1, <1>2, <2>1, ObjTypes, SlotPassEnds DEF End, PassOnly
<1>4. CASE pass.fresh
  <2>1. Takes(n) /\ Running(n, "take") /\ Reads(n) /\ Current(clusterLog) /\ SeenMade(n)
    BY <1>1, <1>2, <1>4 DEF SlotInv, Passes, Running, PassPlain
  <2>2. PICK held \in SUBSET Nodes : held = pass.held
    BY <1>1 DEF PassOK, PassObj
  <2>3. /\ held \subseteq Slots /\ Cardinality(held) < Limit
        /\ \A m \in Slots \ held : Parked(m)
        /\ On[n] \in FDB => \A m \in held : On[m] \notin FDB
    BY <1>4, <2>1, <2>2 DEF Takes
  <2>4. PICK c \in ClusterObj : /\ c = [Stored(clusterLog) EXCEPT !.slots = held \cup {n}]
                                /\ c.slots = held \cup {n}
    <3>1. Stored(clusterLog) \in ClusterObj /\ held \cup {n} \in SUBSET Nodes
      BY <1>1, ClusterEnds
    <3>2. \A c \in ClusterObj, S \in SUBSET Nodes :
            [c EXCEPT !.slots = S] \in ClusterObj /\ [c EXCEPT !.slots = S].slots = S
      BY DEF ClusterObj
    <3> QED
      BY <3>1, <3>2
  <2>5. clusterLog' = Written(clusterLog, c) /\ Write(n, "Posting")
    BY <1>2, <1>4, <2>2, <2>4 DEF TakeSlot, TakeLands
  <2>6. /\ Slots' = held \cup {n}
        /\ \A m \in Nodes : Entered(m)' <=> m \in Slots \cup {n}
    BY <1>1, <2>1, <2>3, <2>4, <2>5, SlotsWritten, SlotsSeen
  <2>7. /\ \A m \in Nodes : /\ Node(m)' = Node(m) /\ (SomeReapable(m)' <=> SomeReapable(m))
                            /\ (Current(nodeLog[m])' <=> Current(nodeLog[m]))
                            /\ (Going(Node(m))' <=> Going(Node(m)))
                            /\ (InService(m)' <=> InService(m))
    BY <1>1, NodeStays, ServiceStays
  <2>8. \A m \in Nodes : Parked(m)' <=> Parked(m)
    BY <1>1, <2>7 DEF Parked, Going, addFinished
  <2>9. Going(Node(n)) \/ ~Loose(n)'
    BY <2>1, <2>6, <2>7 DEF Takes, Loose
  <2>10. ASSUME NEW m \in Nodes PROVE Holds(m)'
    <3>1. Holds(m)
      BY DEF SlotInv
    <3>2. Loose(m)' => Parked(m)
      <4>1. CASE m = n
        BY <2>9, <4>1 DEF Parked
      <4>2. CASE m # n /\ m \in Slots \ held
        BY <2>3, <4>2
      <4>3. CASE m # n /\ m \in held
        BY <1>1, <2>3, <2>6, <2>7, <3>1, <4>3, SlotsSeen DEF Loose, Holds
      <4>4. CASE m # n /\ m \notin Slots
        BY <2>3, <2>6, <4>4 DEF Loose
      <4> QED
        BY <4>1, <4>2, <4>3, <4>4
    <3>3. Asked(Node(m)) => m \in Slots'
      <4>1. Parked(m) => ~Asked(Node(m))
        BY DEF Parked, Asked, Going, addFinished
      <4> QED
        BY <2>3, <2>6, <3>1, <4>1 DEF Holds
    <3> QED
      BY <2>7, <2>8, <3>1, <3>2, <3>3 DEF Holds, Shaped, Asked
  <2>11. Capped'
    <3>1. IsFiniteSet(held) /\ Cardinality(held) \in Nat
      BY WorkersOf, FS_CardinalityType
    <3>2. Cardinality(held \cup {n}) <= Cardinality(held) + 1
      <4>1. Cardinality(held \cup {n})
              = IF n \in held THEN Cardinality(held) ELSE Cardinality(held) + 1
        BY <3>1, FS_AddElement
      <4> QED
        BY <3>1, <4>1
    <3>3. IsFiniteSet(held \cup {n}) /\ Cardinality(held \cup {n}) \in Nat
      BY <3>1, FS_AddElement, FS_CardinalityType
    <3>4. Cardinality(Slots') <= Limit
      BY <2>3, <2>6, <3>1, <3>2, <3>3, ProvisioningAssumption
    <3>5. \A k, m \in Slots' : On[k] \in FDB /\ On[m] \in FDB => k = m
      BY <2>3, <2>6 DEF SlotInv, Capped
    <3> QED
      BY <3>4, <3>5 DEF Capped
  <2>12. \A m \in Nodes : Passes(m)' /\ ~Running(m, "take")'
    <3>1. "Posting" \in Steps /\ "Posting" \notin {"uuid", "status", "lost", "fail"}
      BY StepNames
    <3>2. ASSUME ~Going(Node(n))'
          PROVE  Current(nodeLog[n])' /\ WriteFits(n, "Posting", "none")'
      <4>1. Current(nodeLog[n])' /\ ~Node(n)'.uuid /\ ~Loose(n)' /\ n \in Slots'
        BY <1>1, <1>2, <2>1, <2>6, <2>7, <2>9, <3>2 DEF Reads, Takes, At
      <4> QED
        BY <3>1, <4>1 DEF WriteFits
    <3> QED
      BY <1>1, <2>5, <3>1, <3>2, WriteStarts
  <2>13. ASSUME NEW m \in Nodes PROVE SeenMade(m)'
    <3>1. SeenMade(m)
      BY DEF SlotInv
    <3> QED
      BY <1>1, <2>1, <2>6, <2>12, <3>1, SlotsSeen DEF SeenMade
  <2> QED
    BY <2>10, <2>11, <2>12, <2>13 DEF SlotInv
<1> QED
  BY <1>3, <1>4

LEMMA SlotDrop ==
  ASSUME SlotInv, TypeInv', DropFinalizer
  PROVE  SlotInv'
<1>1. /\ NodesOK /\ PassOK /\ PassDrops /\ At("drop") /\ pass'.pc = "idle"
      /\ UNCHANGED <<clusterLog, seen, made, away>>
  BY TypeParts, ObjTypes DEF SlotInv, TypeInv, DropFinalizer, End, backend, world
<1>2. PICK n \in Nodes : n = pass.node
  BY <1>1 DEF PassOK, At
<1>3. PICK v \in NodeObj : v = [NewNode EXCEPT !.exists = FALSE] /\ ~v.exists
  BY ObjTypes DEF NewNode
<1>4. \/ UNCHANGED nodeLog
      \/ nodeLog' = [nodeLog EXCEPT ![n] = Written(nodeLog[n], v)]
  BY <1>2, <1>3 DEF DropFinalizer
<1>5. CASE UNCHANGED nodeLog
  BY <1>1, <1>5, SlotPassEnds, <1>2 DEF PassOnly
<1>6. CASE nodeLog' = [nodeLog EXCEPT ![n] = Written(nodeLog[n], v)]
  <2>1. nodeLog'[n] = Written(nodeLog[n], v) /\ \A m \in Nodes : m # n => nodeLog'[m] = nodeLog[m]
    BY <1>1, <1>6 DEF NodesOK
  <2>2. Going(Node(n))'
    BY <1>1, <1>3, <2>1, ReapableWritten DEF Going
  <2>3. Apart
    BY <1>1, <2>1, <2>2, NodeStays, ListStays, ServiceStays DEF Apart
  <2> QED
    BY <1>1, <2>3, SlotApart DEF Still
<1> QED
  BY <1>4, <1>5, <1>6

LEMMA SlotRelease ==
  ASSUME SlotInv, TypeInv', ReleaseSlot
  PROVE  SlotInv'
<1>1. /\ NodesOK /\ ClusterOK /\ PassOK /\ BackendOK /\ At("release") /\ PassPlain
      /\ UNCHANGED <<nodeLog, seen, made, away>>
  BY TypeParts DEF SlotInv, TypeInv, ReleaseSlot, backend, world
<1>2. PICK n \in Nodes : n = pass.node
  BY <1>1 DEF PassOK, At
<1>3. pass.then \in {"fail", "drop", "end"}
  BY <1>1 DEF PassPlain, PassOK, PassObj
<1>4. /\ Parked(n) \/ ~Entered(n)
      /\ pass.then = "fail" /\ ~Going(Node(n)) =>
           Current(nodeLog[n]) /\ ~Node(n).uuid /\ Node(n).late
  BY <1>1, <1>2 DEF SlotInv, Passes, Releases, Reads, Running
<1>5. \A m \in Nodes : /\ Node(m)' = Node(m) /\ (SomeReapable(m)' <=> SomeReapable(m))
                       /\ (Current(nodeLog[m])' <=> Current(nodeLog[m]))
                       /\ (Going(Node(m))' <=> Going(Node(m)))
                       /\ (InService(m)' <=> InService(m))
  BY <1>1, NodeStays, ServiceStays
<1>6. \A m \in Nodes : Parked(m)' <=> Parked(m)
  BY <1>1, <1>5 DEF Parked, Going, addFinished
<1>7. \A m \in Nodes : Passes(m)' /\ ~Running(m, "take")'
  <2>1. CASE pass.then = "fail" /\ Write(n, "fail")
    <3>1. "fail" \notin Steps
      BY StepNames
    <3>2. ~Going(Node(n))' => Current(nodeLog[n])' /\ WriteFits(n, "fail", "none")'
      BY <1>4, <1>5, <2>1, <3>1 DEF WriteFits, Onward
    <3>3. "none" = IF "fail" \in {"uuid", "status"} THEN seen[On[n]] ELSE "none"
      OBVIOUS
    <3> QED
      BY <1>1, <2>1, <3>2, <3>3, WriteStarts
  <2>2. CASE pass' = Idle
    BY <2>2, ObjTypes, IdlePasses
  <2>3. CASE pass' = [pass EXCEPT !.pc = "drop"]
    <3>1. pass'.pc = "drop"
      BY <1>1, <2>3 DEF PassOK, PassObj
    <3> QED
      BY <3>1 DEF Passes, Reads, Takes, Posts, Releases, Writes, Running, At
  <2> QED
    BY <1>2, <1>3, <2>1, <2>2, <2>3 DEF ReleaseSlot, End
<1>8. \/ UNCHANGED clusterLog
      \/ /\ Current(clusterLog)
         /\ clusterLog' = Written(clusterLog,
              [Cached(clusterLog) EXCEPT !.slots = Cached(clusterLog).slots \ {n}])
  BY <1>2, <1>3 DEF ReleaseSlot, Released
<1>9. CASE UNCHANGED clusterLog
  BY <1>1, <1>7, <1>9, SlotPassOnly DEF PassOnly
<1>10. CASE /\ Current(clusterLog)
            /\ clusterLog' = Written(clusterLog,
                 [Cached(clusterLog) EXCEPT !.slots = Cached(clusterLog).slots \ {n}])
  <2>1. PICK c \in ClusterObj :
          /\ c = [Cached(clusterLog) EXCEPT !.slots = Cached(clusterLog).slots \ {n}]
          /\ c.slots = Slots \ {n}
    <3>1. Cached(clusterLog) = Stored(clusterLog) /\ Cached(clusterLog) \in ClusterObj
      BY <1>1, <1>10, ClusterEnds
    <3>2. [Cached(clusterLog) EXCEPT !.slots = Cached(clusterLog).slots \ {n}] \in ClusterObj
      BY <3>1 DEF ClusterObj
    <3>3. [Cached(clusterLog) EXCEPT !.slots = Cached(clusterLog).slots \ {n}].slots
            = Slots \ {n}
      BY <3>1 DEF ClusterObj, Slots
    <3> QED
      BY <3>2, <3>3
  <2>2. /\ Slots' = Slots \ {n} /\ Slots \in SUBSET Nodes
        /\ \A m \in Nodes : Entered(m)' <=> Entered(m)
    BY <1>1, <1>10, <2>1, SlotsWritten, SlotsSeen
  <2>3. ASSUME NEW m \in Nodes PROVE Holds(m)'
    <3>1. Holds(m)
      BY DEF SlotInv
    <3>2. Loose(m)' => Parked(m)
      <4>1. CASE m = n
        BY <1>4, <2>2, <4>1 DEF Loose
      <4>2. CASE m # n
        BY <1>5, <2>2, <3>1, <4>2 DEF Loose, Holds
      <4> QED
        BY <4>1, <4>2
    <3>3. Asked(Node(m)) => m \in Slots'
      <4>1. Parked(n) => ~Asked(Node(n))
        BY DEF Parked, Asked, Going, addFinished
      <4>2. Asked(Node(n)) => n \in Slots /\ Entered(n)
        BY <1>1, SlotsSeen DEF SlotInv, Holds
      <4> QED
        BY <1>4, <2>2, <3>1, <4>1, <4>2 DEF Holds
    <3> QED
      BY <1>5, <1>6, <3>1, <3>2, <3>3 DEF Holds, Shaped, Asked
  <2>4. Capped'
    <3>1. IsFiniteSet(Slots)
      BY <2>2, WorkersOf
    <3>2. Cardinality(Slots \ {n}) <= Cardinality(Slots)
          /\ Cardinality(Slots) \in Nat /\ Cardinality(Slots \ {n}) \in Nat
      <4>1. Slots \ {n} \in SUBSET Slots
        OBVIOUS
      <4>2. Cardinality(Slots \ {n}) <= Cardinality(Slots) /\ IsFiniteSet(Slots \ {n})
        BY <3>1, <4>1, FS_Subset
      <4> QED
        BY <3>1, <4>2, FS_CardinalityType
    <3> QED
      BY <2>2, <3>2, ProvisioningAssumption DEF SlotInv, Capped
  <2>5. ASSUME NEW m \in Nodes PROVE SeenMade(m)'
    BY <1>1, <1>7, <2>2 DEF SlotInv, SeenMade
  <2> QED
    BY <1>7, <2>3, <2>4, <2>5 DEF SlotInv
<1> QED
  BY <1>8, <1>9, <1>10

\* What a status mutation makes of a node that is not going.
Apt(v, do) ==
  /\ do \in Steps => ~v.uuid /\ do # ""
  /\ do \in {"status", "lost"} => v.uuid
  /\ do = "fail" => ~v.uuid /\ v.late

Mutated(w, do, reading) ==
  /\ Shaped(w)
  /\ Asked(w) => do \in {"Posting", "Resolving"}
  /\ do \in Steps => w.step = do /\ ~w.uuid /\ ~w.failed
  /\ do \in {"uuid", "status"} =>
       w.uuid /\ ~w.failed /\ (w.creating <=> reading = "in_creation")
  /\ do = "lost" => ~w.uuid /\ ~w.failed
  /\ do = "fail" => ~w.uuid /\ w.late /\ w.step # ""

LEMMA MutateShape ==
  ASSUME NEW v \in NodeObj, Shaped(v), NEW reading \in Made,
         NEW do \in Steps \cup {"uuid", "lost", "status", "fail"}, Apt(v, do)
  PROVE  Mutated(Mutate(v, do, reading), do, reading)
<1> DEFINE w == Mutate(v, do, reading)
<1> SUFFICES Mutated(w, do, reading)
  OBVIOUS
<1> HIDE DEF w
<1>1. CASE do \in Steps
  <2>1. do \notin {"uuid", "lost", "status", "fail"}
    BY <1>1, StepNames
  <2>2. w = [v EXCEPT !.step = do, !.late = FALSE, !.failed = FALSE]
    BY <1>1, <2>1 DEF Mutate, w
  <2> QED
    BY <1>1, <2>1, <2>2 DEF NodeObj, Shaped, Asked, Apt, Mutated
<1>2. CASE do = "uuid"
  <2>1. do \notin Steps
    BY <1>2, StepNames
  <2>2. w = [v EXCEPT !.step = "", !.late = FALSE, !.failed = FALSE,
                      !.uuid = TRUE, !.creating = reading = "in_creation"]
    BY <1>2, <2>1 DEF Mutate, w
  <2> QED
    BY <1>2, <2>1, <2>2 DEF NodeObj, Shaped, Asked, Apt, Mutated
<1>3. CASE do = "status"
  <2>1. do \notin Steps
    BY <1>3, StepNames
  <2>2. w = [v EXCEPT !.failed = FALSE, !.creating = reading = "in_creation"]
    BY <1>3, <2>1 DEF Mutate, w
  <2> QED
    BY <1>3, <2>1, <2>2 DEF NodeObj, Shaped, Asked, Apt, Mutated
<1>4. CASE do = "lost"
  <2>1. do \notin Steps
    BY <1>4, StepNames
  <2>2. w = [v EXCEPT !.failed = FALSE, !.uuid = FALSE, !.creating = FALSE]
    BY <1>4, <2>1 DEF Mutate, w
  <2> QED
    BY <1>4, <2>1, <2>2 DEF NodeObj, Shaped, Asked, Apt, Mutated
<1>5. CASE do = "fail"
  <2>1. do \notin Steps
    BY <1>5, StepNames
  <2>2. w = [v EXCEPT !.failed = TRUE]
    BY <1>5, <2>1 DEF Mutate, w
  <2> QED
    BY <1>5, <2>1, <2>2 DEF NodeObj, Shaped, Asked, Apt, Mutated
<1> QED
  BY <1>1, <1>2, <1>3, <1>4, <1>5

LEMMA SlotWrite ==
  ASSUME SlotInv, StrayInv, TypeInv', WriteStatus
  PROVE  SlotInv'
<1>1. /\ NodesOK /\ ClusterOK /\ PassOK /\ At("write")
      /\ UNCHANGED <<clusterLog, seen, made, away>>
  BY TypeParts DEF SlotInv, TypeInv, WriteStatus, backend, world
<1>2. PICK n \in Nodes : n = pass.node
  BY <1>1 DEF PassOK, At
<1>3. PICK do \in Steps \cup {"uuid", "lost", "status", "fail"} : do = pass.do
  BY <1>1 DEF PassOK, PassObj
<1>4. PICK reading \in Made : reading = pass.reading
  BY <1>1 DEF PassOK, PassObj
<1>5. /\ Cached(nodeLog[n]) \in NodeObj /\ Node(n) \in NodeObj
      /\ Current(nodeLog[n]) => Cached(nodeLog[n]) = Node(n)
  BY <1>1, NodeEnds
<1>6. PICK v \in NodeObj : /\ v = Mutate(Cached(nodeLog[n]), do, reading)
                           /\ v.exists = Cached(nodeLog[n]).exists
                           /\ v.deleted = Cached(nodeLog[n]).deleted
  BY <1>5, MutateType
<1>7. ~Going(Node(n)) => /\ Current(nodeLog[n]) /\ Cached(nodeLog[n]) = Node(n)
                         /\ WriteFits(n, do, reading) /\ Shaped(Node(n))
  BY <1>1, <1>2, <1>3, <1>4, <1>5
  DEF SlotInv, Passes, Reads, Writes, Holds, Running, At
<1>8. /\ Slots' = Slots /\ \A m \in Nodes : Entered(m)' <=> Entered(m)
  BY <1>1, ListStays
<1>9. \/ UNCHANGED nodeLog
      \/ /\ Current(nodeLog[n])
         /\ nodeLog' = [nodeLog EXCEPT ![n] = Written(nodeLog[n], v)]
  BY <1>2, <1>3, <1>4, <1>6 DEF WriteStatus, StatusLands
\* What v is, when the node is not going.
<1>10. ASSUME ~Going(Node(n))
       PROVE  /\ ~Going(v) /\ Shaped(v) /\ (Asked(v) => n \in Slots)
              /\ Loose(n) \/ (Entered(n) /\ Reapable(v)) =>
                   \/ ~v.uuid /\ v.late /\ v.step # ""
                   \/ ~v.uuid /\ v.step = "AwaitingWorker" /\ On[n] \in away /\ Strays
                   \/ addFinished(v) /\ InService(n)
              /\ do = "status" /\ addFinished(v) => InService(n) \/ ~Entered(n)
  <2>1. /\ Cached(nodeLog[n]) = Node(n) /\ WriteFits(n, do, reading) /\ Shaped(Node(n))
        /\ v = Mutate(Node(n), do, reading)
    BY <1>6, <1>7, <1>10
  <2>2. /\ Shaped(v)
        /\ Asked(v) => do \in {"Posting", "Resolving"}
        /\ do \in Steps => v.step = do /\ ~v.uuid /\ ~v.failed
        /\ do \in {"uuid", "status"} =>
              v.uuid /\ ~v.failed /\ (v.creating <=> reading = "in_creation")
        /\ do = "lost" => ~v.uuid /\ ~v.failed
        /\ do = "fail" => ~v.uuid /\ v.late /\ v.step # ""
    <3>1. Apt(Node(n), do)
      BY <2>1 DEF WriteFits, Apt
    <3>2. Mutated(v, do, reading)
      BY <1>5, <2>1, <3>1, MutateShape
    <3> QED
      BY <3>2 DEF Mutated
  <2>3. ~Going(v) /\ v.exists /\ ~v.deleted
    BY <1>6, <1>10, <2>1 DEF Going
  <2>4. Asked(v) => n \in Slots
    BY <2>1, <2>2 DEF WriteFits
  <2>5. ASSUME Loose(n) \/ (Entered(n) /\ Reapable(v))
        PROVE  \/ ~v.uuid /\ v.late /\ v.step # ""
               \/ ~v.uuid /\ v.step = "AwaitingWorker" /\ On[n] \in away /\ Strays
               \/ addFinished(v) /\ InService(n)
    <3>1. CASE do = "fail"
      BY <2>2, <3>1
    <3>2. CASE do = "AwaitingWorker"
      <4>1. do \in Steps
        BY <3>2, StepNames
      <4>2. On[n] \in away /\ ~Node(n).uuid
        BY <2>1, <3>2, <4>1 DEF WriteFits
      <4>3. Loose(n)
        BY <2>2, <2>3, <2>5, <4>1 DEF Reapable, addFinished
      <4>4. Parked(n)
        BY <4>3 DEF SlotInv, Holds
      <4>5. Strays
        BY <1>10, <4>2, <4>4 DEF Parked, StrayInv, Strays, addFinished
      <4> QED
        BY <2>2, <3>2, <4>1, <4>2, <4>5
    <3>3. CASE do \in (Steps \ {"AwaitingWorker"}) \cup {"lost"}
      <4>1. ~Loose(n)
        BY <2>1, <3>3 DEF WriteFits, Onward
      <4>2. ~Reapable(v)
        BY <2>2, <2>3, <3>3 DEF Reapable, addFinished
      <4> QED
        BY <2>5, <4>1, <4>2
    <3>4. CASE do \in {"uuid", "status"}
      <4>1. reading \in {"in_creation", "created"}
        BY <2>1, <3>4 DEF WriteFits, Made
      <4>2. CASE reading = "in_creation"
        <5>1. ~Loose(n)
          BY <2>1, <3>4, <4>2 DEF WriteFits, Onward
        <5>2. ~Reapable(v)
          BY <2>2, <2>3, <3>4, <4>2 DEF Reapable, addFinished
        <5> QED
          BY <2>5, <5>1, <5>2
      <4>3. CASE reading = "created"
        <5>1. InService(n)
          BY <2>1, <2>5, <3>4, <4>3 DEF WriteFits, Loose
        <5>2. addFinished(v)
          BY <2>2, <3>4, <4>3 DEF addFinished
        <5> QED
          BY <5>1, <5>2
      <4> QED
        BY <4>1, <4>2, <4>3
    <3> QED
      BY <3>1, <3>2, <3>3, <3>4
  <2>6. ASSUME do = "status", addFinished(v)
        PROVE  InService(n) \/ ~Entered(n)
    <3>1. reading = "created"
      BY <2>1, <2>2, <2>6 DEF WriteFits, Made, addFinished
    <3> QED
      BY <2>1, <2>6, <3>1 DEF WriteFits
  <2> QED
    BY <2>2, <2>3, <2>4, <2>5, <2>6
<1>11. \A m \in Nodes : m # n => nodeLog'[m] = nodeLog[m]
  BY <1>1, <1>9 DEF NodesOK
<1>12. /\ Node(n)' = IF UNCHANGED nodeLog THEN Node(n) ELSE v
       /\ SomeReapable(n)' => SomeReapable(n) \/ Reapable(v)
  <2>1. CASE UNCHANGED nodeLog
    BY <2>1, NodeStays
  <2>2. CASE ~UNCHANGED nodeLog
    <3>1. nodeLog'[n] = Written(nodeLog[n], v)
      BY <1>1, <1>9, <2>2 DEF NodesOK
    <3> QED
      BY <1>1, <2>2, <3>1, ReapableWritten
  <2> QED
    BY <2>1, <2>2
<1>13. Holds(n)'
  <2>1. CASE UNCHANGED nodeLog
    BY <1>1, <2>1, PassOnlyKeeps DEF PassOnly
  <2>2. CASE ~UNCHANGED nodeLog /\ Going(Node(n))
    <3>1. Going(v)
      BY <1>5, <1>6, <1>9, <2>2 DEF Going
    <3> QED
      BY <1>12, <2>2, <3>1 DEF Holds, Parked, Asked, Going
  <2>3. CASE ~UNCHANGED nodeLog /\ ~Going(Node(n))
    <3>1. Node(n)' = v /\ Shaped(v) /\ (Asked(v) => n \in Slots')
      BY <1>8, <1>10, <1>12, <2>3
    <3>2. Loose(n)' => Loose(n) \/ (Entered(n) /\ Reapable(v))
      BY <1>8, <1>12 DEF Loose
    <3>3. InService(n)' <=> InService(n)
      BY <1>1, ServiceStays
    <3>4. Loose(n)' => Parked(n)'
      BY <1>1, <1>10, <2>3, <3>1, <3>2, <3>3 DEF Parked, addFinished
    <3> QED
      BY <3>1, <3>4 DEF Holds
  <2> QED
    BY <2>1, <2>2, <2>3
<1>14. ASSUME NEW m \in Nodes, m # n PROVE Holds(m)'
  <2>1. /\ Holds(m) /\ Slots' = Slots /\ (Loose(m)' <=> Loose(m)) /\ Node(m)' = Node(m)
        /\ (InService(m)' <=> InService(m)) /\ away' = away
    BY <1>1, <1>8, <1>11, <1>14, NodeStays, ServiceStays DEF SlotInv, Loose
  <2> QED
    BY <2>1 DEF Holds, Parked, Shaped, Asked, Going, addFinished
<1>15. \A m \in Nodes : Passes(m)' /\ ~Running(m, "take")'
  <2>1. CASE End
    BY <2>1, ObjTypes, IdlePasses DEF End
  <2>2. CASE do = "status" /\ addFinished(v) /\ Release(n, "end")
    <3>1. pass'.pc = "release" /\ pass'.node = n /\ pass'.then = "end"
      BY <2>2 DEF Release, Start, Idle
    <3>2. Parked(n)' \/ ~Entered(n)'
      <4>1. CASE Going(Node(n))
        <5>1. Going(Node(n))'
          BY <1>5, <1>6, <1>9, <1>12, <4>1 DEF Going
        <5> QED
          BY <5>1 DEF Parked
      <4>2. CASE ~Going(Node(n))
        <5>1. InService(n) \/ ~Entered(n)
          BY <1>10, <2>2, <4>2
        <5>2. Node(n)' = v
          <6>1. CASE UNCHANGED nodeLog
            <7>1. v = Cached(nodeLog[n])
              <8>1. Current(nodeLog[n])
                BY <1>7, <4>2
              <8>2. End \/ v = Cached(nodeLog[n]) \/ nodeLog'[n] = Written(nodeLog[n], v)
                BY <1>1, <1>2, <1>3, <1>4, <1>6 DEF WriteStatus, NodesOK
              <8>3. ~End
                BY <3>1, ObjTypes DEF End
              <8>4. nodeLog'[n] # Written(nodeLog[n], v)
                <9>1. nodeLog[n] \in Seq(NodeObj) /\ Len(nodeLog[n]) > 0
                  BY <1>1, NodeEnds
                <9>2. ~Current(Written(nodeLog[n], v))
                  BY <9>1, LogWritten
                <9> QED
                  BY <6>1, <8>1, <9>2
              <8> QED
                BY <8>2, <8>3, <8>4
            <7> QED
              BY <1>7, <1>12, <4>2, <6>1, <7>1
          <6>2. CASE ~UNCHANGED nodeLog
            BY <1>12, <6>2
          <6> QED
            BY <6>1, <6>2
        <5>3. InService(n)' <=> InService(n)
          BY <1>1, ServiceStays
        <5> QED
          BY <1>8, <2>2, <5>1, <5>2, <5>3 DEF Parked, addFinished
      <4> QED
        BY <4>1, <4>2
    <3> QED
      BY <3>1, <3>2, ReleaseStarts
  <2>3. End \/ (do = "status" /\ addFinished(v) /\ Release(n, "end"))
    BY <1>2, <1>3, <1>4, <1>6 DEF WriteStatus
  <2> QED
    BY <2>1, <2>2, <2>3
<1>16. Capped' /\ \A m \in Nodes : SeenMade(m)'
  BY <1>1, <1>8, <1>15 DEF SlotInv, Capped, SeenMade
<1> QED
  BY <1>13, <1>14, <1>15, <1>16 DEF SlotInv

LEMMA SlotInit ==
  ASSUME Init
  PROVE  SlotInv
<1>1. TypeInv /\ pass.pc = "idle"
  BY TypeInit, ObjTypes DEF Init
<1>2. /\ clusterLog = <<[slots |-> {}, tasks |-> FALSE]>>
      /\ nodeLog = [n \in Nodes |-> <<NewNode>>]
  BY DEF Init
<1>3. NodesOK /\ ClusterOK
  BY <1>1, TypeParts DEF TypeInv
<1>4. Slots = {} /\ Current(clusterLog)
  BY <1>2 DEF Slots, Stored, Current
<1>5. ASSUME NEW n \in Nodes
      PROVE  Node(n) = NewNode /\ ~Entered(n)
  <2>1. nodeLog[n] = <<NewNode>>
    BY <1>2
  <2> QED
    BY <1>3, <1>4, <2>1, SlotsSeen DEF Node, Stored
<1>6. \A n \in Nodes : Holds(n) /\ SeenMade(n)
  <2>1. Shaped(NewNode) /\ ~Asked(NewNode)
    BY DEF Shaped, Asked, NewNode
  <2> QED
    BY <1>1, <1>5, <2>1 DEF Holds, SeenMade, Loose, Running, At
<1>7. \A n \in Nodes : Passes(n)
  BY <1>1 DEF Passes, Reads, Takes, Posts, Releases, Writes, Running, At
<1>8. Capped
  BY <1>4, FS_EmptySet, ProvisioningAssumption DEF Capped
<1> QED
  BY <1>1, <1>6, <1>7, <1>8 DEF SlotInv

\* Workers are away only where they may leave, and deadlines pass only where they may.
LEMMA StrayInit == Init => StrayInv
<1> SUFFICES ASSUME Init PROVE StrayInv
  OBVIOUS
<1>1. away = {} /\ nodeLog = [n \in Nodes |-> <<NewNode>>]
  BY DEF Init
<1>2. ASSUME NEW n \in Nodes PROVE ~Node(n).late
  <2>1. nodeLog[n] = <<NewNode>>
    BY <1>1, <1>2
  <2>2. Node(n) = NewNode
    BY <2>1 DEF Node, Stored
  <2>3. NewNode.late = FALSE
    BY DEF NewNode
  <2> QED
    BY <2>2, <2>3
<1> QED
  BY <1>1, <1>2 DEF StrayInv

LEMMA StrayStep ==
  ASSUME TypeInv, StrayInv, [Next]_vars
  PROVE  StrayInv'
<1>1. NodesOK /\ PassOK /\ BackendOK
  BY TypeParts DEF TypeInv
<1>2. away' # {} => "leave" \in Env
  <2>1. away' \subseteq away \/ \E w \in Workers : Leave(w)
    BY DEF Next, PassStep, WorkerStep, TakeSlot, PostNode, WriteStatus, ReleaseSlot,
           DropFinalizer, DeliverCluster, Mirror, Crash, Reconcile, DeliverNode, Delete,
           DeadlinePasses, Return, CpBegin, CpEnd, Stream, CpGiveUp, Reset, vars, world
  <2> QED
    BY <2>1 DEF StrayInv, Leave, Fault
<1>3. ASSUME NEW n \in Nodes, Node(n)'.late PROVE Late # {}
  <2>1. CASE nodeLog'[n] = nodeLog[n]
    BY <1>3, <2>1, NodeStays DEF StrayInv
  <2>2. nodeLog'[n] # nodeLog[n] =>
          \/ WriteStatus \/ DropFinalizer \/ DeliverNode(n) \/ Delete(n)
          \/ \E s \in Steps : DeadlinePasses(n, s)
    <3>1. UNCHANGED nodeLog \/ WriteStatus \/ DropFinalizer
          \/ \E m \in Nodes : \/ DeliverNode(m) \/ Delete(m)
                             \/ \E s \in Steps : DeadlinePasses(m, s)
      BY DEF Next, PassStep, WorkerStep, TakeSlot, PostNode, ReleaseSlot, DeliverCluster,
             Mirror, Crash, Reconcile, Return, CpBegin, CpEnd, Stream, CpGiveUp, Reset,
             Leave, vars, api
    <3>2. ASSUME NEW m \in Nodes, m # n,
                 DeliverNode(m) \/ Delete(m) \/ \E s \in Steps : DeadlinePasses(m, s)
          PROVE  nodeLog'[n] = nodeLog[n]
      BY <1>1, <3>2 DEF NodesOK, DeliverNode, Delete, DeadlinePasses
    <3> QED
      BY <3>1, <3>2
  <2>3. CASE nodeLog'[n] # nodeLog[n] /\ (WriteStatus \/ DropFinalizer)
    <3>1. PICK m \in Nodes : m = pass.node
      BY <1>1, <2>3 DEF PassOK, WriteStatus, DropFinalizer, At
    <3>2. PICK do \in Steps \cup {"uuid", "lost", "status", "fail"} : do = pass.do
      BY <1>1 DEF PassOK, PassObj
    <3>3. PICK reading \in Made : reading = pass.reading
      BY <1>1 DEF PassOK, PassObj
    <3>4. /\ Cached(nodeLog[m]) \in NodeObj /\ Node(m) \in NodeObj
          /\ Current(nodeLog[m]) => Cached(nodeLog[m]) = Node(m)
      BY <1>1, NodeEnds
    <3>5. PICK v \in NodeObj : v = Mutate(Cached(nodeLog[m]), do, reading)
      BY <3>4, MutateType
    <3>6. PICK g \in NodeObj : g = [NewNode EXCEPT !.exists = FALSE] /\ ~g.late
      BY ObjTypes DEF NewNode
    <3>7. PICK x \in {v, g} : /\ nodeLog' = [nodeLog EXCEPT ![m] = Written(nodeLog[m], x)]
                             /\ \/ x = v /\ Current(nodeLog[m])
                                \/ x = g
      <4>1. CASE WriteStatus
        BY <2>3, <3>1, <3>2, <3>3, <3>5, <4>1 DEF WriteStatus, StatusLands
      <4>2. CASE DropFinalizer
        BY <2>3, <3>1, <3>6, <4>2 DEF DropFinalizer
      <4> QED
        BY <2>3, <4>1, <4>2
    <3>8. m = n /\ nodeLog'[n] = Written(nodeLog[n], x)
      <4> DEFINE w == Written(nodeLog[m], x)
      <4>0. nodeLog' = [nodeLog EXCEPT ![m] = w] /\ m \in DOMAIN nodeLog
        BY <1>1, <3>7 DEF NodesOK
      <4> HIDE DEF w
      <4>1. /\ \A k \in DOMAIN nodeLog : k # m => nodeLog'[k] = nodeLog[k]
            /\ nodeLog'[m] = w /\ n \in DOMAIN nodeLog
        BY <1>1, <4>0 DEF NodesOK
      <4>2. m = n
        BY <2>3, <4>1
      <4> QED
        BY <4>1, <4>2 DEF w
    <3>9. Node(n)' = x
      BY <1>1, <3>8, ReapableWritten
    <3>10. x = v /\ x # g /\ v.late
      BY <1>3, <3>6, <3>7, <3>9
    <3>11. v.late => Cached(nodeLog[n]).late
      BY <3>4, <3>5, <3>8, MutateLate
    <3> QED
      BY <3>4, <3>7, <3>8, <3>10, <3>11 DEF StrayInv
  <2>4. CASE DeliverNode(n)
    <3>1. Node(n)' = Node(n)
      BY <1>1, <2>4, NodeEnds, LogDelivered DEF DeliverNode, NodesOK, Node, Stored
    <3> QED
      BY <1>3, <3>1 DEF StrayInv
  <2>5. CASE Delete(n)
    <3>1. PICK v \in NodeObj : v = [Node(n) EXCEPT !.deleted = TRUE] /\ v.late = Node(n).late
      BY <1>1, NodeEnds, DeletedType
    <3>2. nodeLog'[n] = Written(nodeLog[n], v)
      BY <1>1, <2>5, <3>1 DEF Delete, NodesOK, Node
    <3>3. Node(n)' = v
      BY <1>1, <3>2, ReapableWritten
    <3> QED
      BY <1>3, <3>1, <3>3 DEF StrayInv
  <2>6. CASE \E s \in Steps : DeadlinePasses(n, s)
    BY <2>6 DEF DeadlinePasses
  <2> QED
    BY <2>1, <2>2, <2>3, <2>4, <2>5, <2>6
<1> QED
  BY <1>2, <1>3 DEF StrayInv

LEMMA SlotStep ==
  ASSUME OnePerWorker, NodePrompt, SlotInv, StrayInv, [Next]_vars
  PROVE  SlotInv'
<1>1. TypeInv'
  BY TypeStep DEF SlotInv
<1>2. CASE PassStep
  BY <1>1, <1>2, SlotTake, SlotPost, SlotWrite, SlotRelease, SlotDrop DEF PassStep
<1>3. CASE DeliverCluster \/ Mirror
  BY <1>1, <1>3, SlotCluster
<1>4. CASE Crash
  BY <1>1, <1>4, SlotCrash
<1>5. ASSUME NEW n \in Nodes, Reconcile(n) \/ DeliverNode(n) \/ Delete(n)
      PROVE  SlotInv'
  BY <1>1, <1>5, SlotReconcile, SlotDeliverNode, SlotDelete
<1>6. ASSUME NEW n \in Nodes, NEW s \in Steps, DeadlinePasses(n, s)
      PROVE  SlotInv'
  BY <1>1, <1>6, SlotDeadline
<1>7. ASSUME NEW w \in Workers, WorkerStep(w) \/ Leave(w) \/ CpGiveUp(w) \/ Reset(w)
      PROVE  SlotInv'
  BY <1>1, <1>7, SlotWorker, SlotReturn, SlotReset DEF WorkerStep
<1>8. CASE UNCHANGED vars
  <2>1. UNCHANGED <<nodeLog, clusterLog, pass, seen, made, away>>
    BY <1>8 DEF vars
  <2>2. Apart
    BY <2>1, NodeStays, ListStays, ServiceStays DEF Apart
  <2> QED
    BY <1>1, <2>1, <2>2, SlotApart DEF Still
<1> QED
  BY <1>2, <1>3, <1>4, <1>5, <1>6, <1>7, <1>8 DEF Next

SlotsInv == SlotInv /\ StrayInv

LEMMA SlotsStep ==
  ASSUME OnePerWorker, NodePrompt, SlotsInv, [Next]_vars
  PROVE  SlotsInv'
  BY SlotStep, StrayStep DEF SlotsInv, SlotInv

\* With one node on each worker and passes that read their own node promptly, an add
\* is only asked for under a slot the API server has on record for its worker: no
\* release, no reaping of an entry that looks done with, and no take on a stale list
\* removes it underneath (postNode, releaseSlot, takeSlot).
THEOREM AddsUnderSlots ==
  ASSUME OnePerWorker, NodePrompt
  PROVE  Spec => []PostUnderSlot
<1>1. Init => SlotsInv
  BY SlotInit, StrayInit DEF SlotsInv
<1>2. SlotsInv /\ [Next]_vars => SlotsInv'
  BY SlotsStep
<1>3. SlotsInv => PostUnderSlot
  <2> SUFFICES ASSUME SlotInv, At("post") PROVE \E m \in Slots : On[m] = On[pass.node]
    BY DEF PostUnderSlot, SlotsInv
  <2>1. PassOK
    BY TypeParts DEF SlotInv, TypeInv
  <2>2. PICK n \in Nodes : n = pass.node
    BY <2>1 DEF PassOK, At
  <2> QED
    BY <2>2 DEF SlotInv, Passes, Posts, Running
<1> QED
  BY <1>1, <1>2, <1>3, PTL DEF Spec

-------------------------------------------------------------------------------
(* The cap.  A node that has claimed its worker keeps its slot until the   *)
(* control plane has finished creating it, where a node whose deadline     *)
(* passed is not taken on again (~Strays).                                 *)

\* The control plane has something of the worker's, or may still make it.
Backed(n) == adds[On[n]] > 0 \/ made[On[n]] # "none" \/ seen[On[n]] # "none"

\* A finished add leaves the worker in service, or reset with nothing outstanding.
Over(n) ==
  \/ InService(n)
  \/ made[On[n]] = "none" /\ adds[On[n]] = 0 /\ seen[On[n]] # "in_creation"

\* What the slot of n is kept for: a claim, or anything the control plane has of a
\* worker whose node has no UUID, so that a node is not adopted without a slot; then
\* a node that is being created.
Kept(n) ==
  ~Going(Node(n)) =>
    /\ ~Node(n).uuid /\ ~Node(n).late /\ (Node(n).step \in Claimed \/ Backed(n)) => n \in Slots
    /\ Node(n).uuid /\ Node(n).creating => n \in Slots
    /\ addFinished(Node(n)) => Over(n)

KeptFits(n, do, reading) ==
  /\ do \in Steps => ~Node(n).late
  /\ do \in Claimed \cup {"uuid"} => n \in Slots
  /\ do = "status" /\ reading = "in_creation" => n \in Slots
  /\ do = "lost" /\ n \notin Slots => seen[On[n]] = "none" /\ addFinished(Node(n))

KeptWrites(n) ==
  Running(n, "write") /\ ~Going(Node(n)) => KeptFits(n, pass.do, pass.reading)

CountInv == \A n \in Nodes : Kept(n) /\ KeptWrites(n)

\* A step that leaves the control plane, the list and the living nodes alone.
LEMMA CountStill ==
  ASSUME CountInv, UNCHANGED <<adds, made, seen>>, Slots' = Slots,
         \A n \in Nodes : ~Going(Node(n))' => ~Going(Node(n)) /\ Node(n)' = Node(n),
         Still
  PROVE  CountInv'
<1> SUFFICES ASSUME NEW n \in Nodes, ~Going(Node(n))' PROVE Kept(n)' /\ KeptWrites(n)'
  BY DEF CountInv, Kept, KeptWrites
<1>1. /\ ~Going(Node(n)) /\ Node(n)' = Node(n) /\ Kept(n) /\ KeptWrites(n)
  BY DEF CountInv
<1>2. Kept(n)'
  BY <1>1 DEF Kept, Backed, Over, InService, addFinished
<1>3. KeptWrites(n)'
  <2> SUFFICES ASSUME Running(n, "write")' PROVE KeptFits(n, pass.do, pass.reading)'
    BY DEF KeptWrites
  <2>1. Running(n, "write") /\ pass'.do = pass.do /\ pass'.reading = pass.reading
    BY DEF Still, Running, At
  <2> QED
    BY <1>1, <2>1 DEF KeptWrites, KeptFits, addFinished
<1> QED
  BY <1>2, <1>3

\* Deliveries, deletions, the mirror, a crash, and workers that leave and come back.
LEMMA CountApart ==
  ASSUME SlotInv, SlotInv', CountInv,
         \/ DeliverCluster \/ Mirror \/ Crash \/ UNCHANGED vars
         \/ \E n \in Nodes : DeliverNode(n) \/ Delete(n)
         \/ \E w \in Workers : Leave(w) \/ Return(w)
  PROVE  CountInv'
<1>1. NodesOK /\ ClusterOK /\ PassOK
  BY TypeParts DEF SlotInv, TypeInv
<1>2. UNCHANGED <<adds, made, seen>>
  BY DEF DeliverCluster, Mirror, Crash, DeliverNode, Delete, Leave, Return, vars, backend
<1>3. Still
  <2>1. CASE Mirror
    <3>1. pass' = [pass EXCEPT !.fresh = FALSE] /\ pass \in PassObj
      BY <1>1, <2>1 DEF Mirror, PassOK
    <3> QED
      BY <3>1 DEF PassObj, Still
  <2>2. CASE ~Mirror
    <3>1. UNCHANGED pass \/ pass'.pc = "idle"
      BY <2>2, ObjTypes DEF DeliverCluster, Crash, DeliverNode, Delete, Leave, Return, vars
    <3> QED
      BY <3>1 DEF Still
  <2> QED
    BY <2>1, <2>2
<1>4. Slots' = Slots
  <2>1. CASE UNCHANGED clusterLog
    BY <2>1, ListStays
  <2>2. CASE DeliverCluster
    BY <1>1, <2>2, ClusterEnds, LogDelivered DEF DeliverCluster, Slots, Stored
  <2>3. CASE Mirror
    <3>1. PICK c \in ClusterObj : clusterLog' = Written(clusterLog, c) /\ c.slots = Slots
      <4>1. Stored(clusterLog) \in ClusterObj
        BY <1>1, ClusterEnds
      <4>2. PICK t \in BOOLEAN :
              clusterLog' = Written(clusterLog, [Stored(clusterLog) EXCEPT !.tasks = t])
        BY <2>3 DEF Mirror
      <4> QED
        BY <4>1, <4>2 DEF ClusterObj, Slots
    <3> QED
      BY <1>1, <3>1, SlotsWritten
  <2> QED
    BY <2>1, <2>2, <2>3
    DEF Crash, DeliverNode, Delete, Leave, Return, vars, api
<1>5. ASSUME NEW n \in Nodes, ~Going(Node(n))'
      PROVE  ~Going(Node(n)) /\ Node(n)' = Node(n)
  <2>1. CASE nodeLog'[n] = nodeLog[n]
    BY <1>5, <2>1, NodeStays
  <2>2. CASE nodeLog'[n] # nodeLog[n]
    <3>1. DeliverNode(n) \/ Delete(n)
      BY <1>1, <2>2
      DEF DeliverCluster, Mirror, Crash, DeliverNode, Delete, Leave, Return, vars, api, NodesOK
    <3>2. CASE DeliverNode(n)
      <4>1. Node(n)' = Node(n)
        BY <1>1, <3>2, NodeEnds, LogDelivered DEF DeliverNode, NodesOK, Node, Stored
      <4> QED
        BY <1>5, <4>1 DEF Going
    <3>3. CASE Delete(n)
      <4>1. PICK v \in NodeObj : v = [Node(n) EXCEPT !.deleted = TRUE] /\ v.deleted
        BY <1>1, NodeEnds, DeletedType
      <4>2. nodeLog'[n] = Written(nodeLog[n], v)
        BY <1>1, <3>3, <4>1 DEF Delete, NodesOK, Node
      <4>3. Node(n)' = v
        BY <1>1, <4>2, ReapableWritten
      <4> QED
        BY <1>5, <4>1, <4>3 DEF Going
    <3> QED
      BY <3>1, <3>2, <3>3
  <2> QED
    BY <2>1, <2>2
<1> QED
  BY <1>2, <1>3, <1>4, <1>5, CountStill

\* The control plane and the stream.
LEMMA CountBackend ==
  ASSUME OnePerWorker, SlotInv, CountInv, NEW w \in Workers,
         CpBegin(w) \/ CpEnd(w) \/ CpGiveUp(w) \/ Stream(w) \/ Reset(w)
  PROVE  CountInv'
<1>1. BackendOK /\ UNCHANGED <<nodeLog, clusterLog, pass>>
  BY TypeParts DEF SlotInv, TypeInv, CpBegin, CpEnd, CpGiveUp, Stream, Reset, api
<1>2. Slots' = Slots
  BY <1>1, ListStays
<1> SUFFICES ASSUME NEW n \in Nodes, ~Going(Node(n)) PROVE Kept(n)' /\ KeptWrites(n)'
  <2>1. \A n \in Nodes : Going(Node(n))' <=> Going(Node(n))
    BY <1>1, NodeStays
  <2> QED
    BY <2>1 DEF CountInv, Kept, KeptWrites
<1>3. /\ Node(n)' = Node(n) /\ Kept(n) /\ KeptWrites(n) /\ On[n] \in Workers
  BY <1>1, NodeStays, ProvisioningAssumption DEF CountInv
<1>4. adds[On[n]] \in Nat /\ adds[w] \in Nat
  BY <1>1, <1>3, ProvisioningAssumption DEF BackendOK
<1>5. /\ addFinished(Node(n)) => Over(n)'
      /\ ~addFinished(Node(n)) /\ Backed(n)' => Backed(n)
      /\ addFinished(Node(n)) /\ seen[On[n]] = "none" => seen'[On[n]] = "none"
  <2>1. CASE On[n] # w
    <3>1. adds'[On[n]] = adds[On[n]] /\ made'[On[n]] = made[On[n]] /\ seen'[On[n]] = seen[On[n]]
      BY <1>1, <1>3, <2>1 DEF BackendOK, CpBegin, CpEnd, CpGiveUp, Stream, Reset
    <3> QED
      BY <1>3, <3>1 DEF Kept, Over, InService, Backed
  <2>2. CASE On[n] = w /\ CpBegin(w)
    <3>1. /\ adds[w] > 0 /\ made[w] = "none" /\ adds' = adds /\ seen' = seen
      BY <2>2 DEF CpBegin
    <3>2. ~addFinished(Node(n))
      BY <1>3, <1>4, <2>2, <3>1 DEF Kept, Over, InService
    <3> QED
      BY <2>2, <3>1, <3>2 DEF Backed
  <2>3. CASE On[n] = w /\ CpEnd(w)
    <3>1. /\ adds[w] > 0 /\ made[w] # "none" /\ made'[w] = "created" /\ seen' = seen
      BY <1>1, <2>3 DEF CpEnd, BackendOK
    <3>2. addFinished(Node(n)) => InService(n)
      BY <1>3, <1>4, <2>3, <3>1 DEF Kept, Over
    <3> QED
      BY <2>3, <3>1, <3>2 DEF Backed, Over, InService
  <2>4. CASE On[n] = w /\ CpGiveUp(w)
    <3>1. /\ adds[w] > 0 /\ made[w] # "created" /\ seen' = seen
      BY <1>1, <2>4 DEF CpGiveUp, BackendOK
    <3>2. ~addFinished(Node(n))
      BY <1>3, <1>4, <2>4, <3>1 DEF Kept, Over, InService
    <3> QED
      BY <2>4, <3>1, <3>2 DEF Backed
  <2>5. CASE On[n] = w /\ Stream(w)
    <3>1. adds' = adds /\ made' = made /\ seen'[w] = made[w]
      BY <1>1, <2>5 DEF Stream, BackendOK
    <3> QED
      BY <1>3, <2>5, <3>1 DEF Kept, Over, InService, Backed
  <2>6. CASE On[n] = w /\ Reset(w)
    <3>1. /\ adds[w] = 0 /\ made[w] = "created" /\ made'[w] = "none"
          /\ adds' = adds /\ seen' = seen
          /\ addFinished(Node(n))
      BY <1>1, <2>6 DEF Reset, BackendOK, Node
    <3>2. seen[w] # "in_creation"
      BY <1>3, <2>6, <3>1 DEF Kept, Over, InService
    <3> QED
      BY <2>6, <3>1, <3>2 DEF Over
  <2> QED
    BY <2>1, <2>2, <2>3, <2>4, <2>5, <2>6
<1>6. Kept(n)'
  BY <1>2, <1>3, <1>5 DEF Kept, addFinished
<1>7. KeptWrites(n)'
  <2>1. Running(n, "write")' => Running(n, "write")
    BY <1>1 DEF Running, At
  <2> QED
    BY <1>1, <1>2, <1>3, <1>5, <2>1 DEF KeptWrites, KeptFits, addFinished
<1> QED
  BY <1>6, <1>7

LEMMA CountDeadline ==
  ASSUME SlotInv, CountInv, NEW n \in Nodes, NEW s \in Steps, DeadlinePasses(n, s)
  PROVE  CountInv'
<1>1. /\ pass'.pc = "idle" /\ NodesOK /\ s \in Late /\ Node(n).step = s
      /\ nodeLog' = [nodeLog EXCEPT ![n] = <<[Node(n) EXCEPT !.late = TRUE]>>]
      /\ UNCHANGED <<clusterLog, pass, adds, seen, made>>
  BY TypeParts DEF SlotInv, TypeInv, DeadlinePasses, Quiet, At, backend, world, Node
<1>2. Node(n) \in NodeObj /\ Slots' = Slots
  BY <1>1, NodeEnds, ListStays
<1>3. PICK v \in NodeObj : v = [Node(n) EXCEPT !.late = TRUE]
  BY <1>2 DEF NodeObj
<1>4. /\ v.late /\ v.uuid = Node(n).uuid /\ v.deleted = Node(n).deleted
      /\ v.exists = Node(n).exists /\ v.creating = Node(n).creating
  BY <1>2, <1>3 DEF NodeObj
<1>5. nodeLog'[n] = <<v>> /\ \A m \in Nodes : m # n => nodeLog'[m] = nodeLog[m]
  BY <1>1, <1>3 DEF NodesOK
<1>6. Node(n)' = v
  BY <1>5 DEF Node, Stored
<1>7. Kept(n)'
  BY <1>1, <1>2, <1>4, <1>6 DEF CountInv, Kept, Going, addFinished, Over, InService
<1>8. ASSUME NEW m \in Nodes, m # n PROVE Kept(m)'
  <2>1. Node(m)' = Node(m) /\ Kept(m)
    BY <1>5, <1>8, NodeStays DEF CountInv
  <2> QED
    BY <1>1, <1>2, <2>1 DEF Kept, Going, addFinished, Over, InService, Backed
<1> QED
  BY <1>1, <1>7, <1>8 DEF CountInv, KeptWrites, Running, At

\* A pass that goes on to a write, or elsewhere.
LEMMA CountPass ==
  ASSUME CountInv, PassOnly, UNCHANGED adds, NEW n \in Nodes,
         \A m \in Nodes : Running(m, "write")' => m = n,
         Running(n, "write")' /\ ~Going(Node(n)) => KeptFits(n, pass'.do, pass'.reading)
  PROVE  CountInv'
<1>1. /\ Slots' = Slots /\ UNCHANGED <<seen, made>>
      /\ \A m \in Nodes : Node(m)' = Node(m) /\ (Going(Node(m))' <=> Going(Node(m)))
  BY NodeStays, ListStays DEF PassOnly
<1>2. ASSUME NEW m \in Nodes PROVE Kept(m)'
  BY <1>1 DEF CountInv, Kept, Backed, Over, InService, addFinished
<1>3. KeptWrites(n)'
  <2> SUFFICES ASSUME Running(n, "write")', ~Going(Node(n))
               PROVE  KeptFits(n, pass.do, pass.reading)'
    BY <1>1 DEF KeptWrites
  <2>1. KeptFits(n, pass'.do, pass'.reading)
    OBVIOUS
  <2> QED
    BY <1>1, <2>1 DEF KeptFits, addFinished
<1>4. ASSUME NEW m \in Nodes, m # n PROVE KeptWrites(m)'
  BY <1>4 DEF KeptWrites
<1> QED
  BY <1>2, <1>3, <1>4 DEF CountInv

LEMMA CountWrite ==
  ASSUME SlotInv, CountInv, PassOnly, UNCHANGED adds, NEW n \in Nodes,
         NEW do \in Steps \cup {"uuid", "lost", "status", "fail"}, Write(n, do),
         NEW r, r = IF do \in {"uuid", "status"} THEN seen[On[n]] ELSE "none",
         ~Going(Node(n)) => KeptFits(n, do, r)
  PROVE  CountInv'
<1>1. BackendOK
  BY TypeParts DEF SlotInv, TypeInv
<1>2. pass'.node = n /\ pass'.pc = "write" /\ pass'.do = do /\ pass'.reading = r
  BY <1>1, PieceMoves
<1> QED
  BY <1>2, CountPass DEF Running

LEMMA CountNoWrite ==
  ASSUME CountInv, PassOnly, UNCHANGED adds, NEW n \in Nodes, pass'.pc # "write"
  PROVE  CountInv'
  BY CountPass DEF Running, At

LEMMA CountSync ==
  ASSUME SlotInv, CountInv, PassOnly, UNCHANGED adds, NEW n \in Nodes, ~Going(Node(n)),
         Node(n).uuid, SyncStatus(n)
  PROVE  CountInv'
<1>1. {"status", "lost", "uuid"} \cap Steps = {} /\ Claimed \subseteq Steps
  BY StepNames DEF Steps
<1>2. Kept(n)
  BY DEF CountInv
<1>3. Node(n).creating \/ addFinished(Node(n))
  BY DEF addFinished
<1>4. CASE Write(n, "status") /\ Found(n)
  <2>1. PICK r : r = seen[On[n]]
    OBVIOUS
  <2>2. r = "in_creation" => n \in Slots
    BY <1>2, <1>3, <2>1 DEF Kept, Over, InService
  <2>3. KeptFits(n, "status", r)
    BY <1>1, <2>2 DEF KeptFits
  <2> QED
    BY <1>4, <2>1, <2>3, CountWrite
<1>5. CASE Write(n, "lost") /\ ~Found(n)
  <2>1. KeptFits(n, "lost", "none")
    BY <1>1, <1>2, <1>3, <1>5 DEF KeptFits, Kept, Found
  <2>2. "none" = IF "lost" \in {"uuid", "status"} THEN seen[On[n]] ELSE "none"
    OBVIOUS
  <2> QED
    BY <1>5, <2>1, <2>2, CountWrite
<1>6. CASE End
  BY <1>6, ObjTypes, CountNoWrite DEF End
<1> QED
  BY <1>4, <1>5, <1>6 DEF SyncStatus

\* A step, or the UUID, recorded for a node within its time.
LEMMA CountSteps ==
  ASSUME SlotInv, CountInv, PassOnly, UNCHANGED adds, NEW n \in Nodes,
         ~Node(n).late, NEW do \in Steps \cup {"uuid"}, Write(n, do),
         do \in Claimed \cup {"uuid"} => n \in Slots
  PROVE  CountInv'
<1>1. do \notin {"status", "lost"}
  BY StepNames
<1>2. PICK r : r = IF do \in {"uuid", "status"} THEN seen[On[n]] ELSE "none"
  OBVIOUS
<1>3. KeptFits(n, do, r)
  BY <1>1 DEF KeptFits
<1> QED
  BY <1>2, <1>3, CountWrite

\* A node that has no slot yet is not claimed by what the pass decides, unless the
\* list names it.
LEMMA CountAwait ==
  ASSUME OnePerWorker, SlotInv, CountInv, PassOnly, UNCHANGED adds, NEW n \in Nodes,
         ~Going(Node(n)), ~Node(n).uuid, ~Node(n).late, Node(n).step = "AwaitingSlot",
         AwaitSlot(n)
  PROVE  CountInv'
<1> DEFINE w == On[n]
           held == heldSlots(Cached(clusterLog).slots)
           mine == {m \in held : On[m] = w}
           claimed == \E m \in Nodes \ {n} : On[m] = w /\ claimedWorker(Cached(nodeLog[m]))
<1>1. ClusterOK /\ ~Loose(n) /\ Kept(n)
  BY TypeParts, NotLoose DEF SlotInv, TypeInv, CountInv
<1>2. {"Adopting", "Posting"} \subseteq Steps
  BY StepNames
<1>3. CASE Found(n) /\ Write(n, "Adopting")
  <2>1. n \in Slots
    BY <1>1, <1>3 DEF Found, Kept, Backed
  <2> QED
    BY <1>2, <1>3, <2>1, CountSteps
<1>4. CASE End
  BY <1>4, ObjTypes, CountNoWrite DEF End
<1>5. ~claimed
  BY DEF OnePerWorker
<1>6. held \in SUBSET Nodes /\ held \subseteq Cached(clusterLog).slots
  BY <1>1, SlotsSeen DEF heldSlots
<1>7. mine # {} => n \in mine
  BY <1>6 DEF OnePerWorker
<1>8. CASE n \in mine /\ Write(n, "Posting")
  <2>1. Entered(n)
    BY <1>1, <1>6, <1>8, SlotsSeen
  <2>2. n \in Slots
    BY <1>1, <2>1 DEF Loose
  <2> QED
    BY <1>2, <1>8, <2>2, CountSteps
<1>9. CASE pass' = [Start(n, "take") EXCEPT !.held = held, !.fresh = Current(clusterLog)]
  <2>1. pass'.pc = "take"
    <3> HIDE DEF held
    <3> QED
      BY <1>9 DEF Start, Idle
  <2> QED
    BY <2>1, CountNoWrite
<1>10. \/ Found(n) /\ Write(n, "Adopting")
       \/ End
       \/ claimed
       \/ mine # {} /\ Write(n, IF n \in mine THEN "Posting" ELSE "Resolving")
       \/ pass' = [Start(n, "take") EXCEPT !.held = held, !.fresh = Current(clusterLog)]
  BY DEF AwaitSlot
<1> QED
  BY <1>3, <1>4, <1>5, <1>7, <1>8, <1>9, <1>10

LEMMA CountProvision ==
  ASSUME OnePerWorker, ~Strays, SlotInv, StrayInv, CountInv, PassOnly, UNCHANGED adds,
         NEW n \in Nodes, ~Going(Node(n)), ~Node(n).uuid, Provision(n, Node(n))
  PROVE  CountInv'
<1>1. {"Checking", "AwaitingWorker", "Adopting", "AwaitingSlot", "Posting"} \subseteq Steps
  BY StepNames
<1>2. {"Checking", "AwaitingSlot"} \cap (Claimed \cup {"uuid"}) = {}
  BY DEF Claimed
<1>3. Kept(n) /\ Shaped(Node(n)) /\ (On[n] \in away => ~Node(n).late)
  BY DEF CountInv, SlotInv, Holds, StrayInv, Strays
<1>4. ~Node(n).late /\ Node(n).step \in {"Posting", "Resolving", "Adopting"} => n \in Slots
  BY <1>3 DEF Kept, Claimed
<1>5. ~Node(n).late /\ Found(n) => n \in Slots
  BY <1>3 DEF Kept, Found, Backed
<1>6. CASE Node(n).step = "" /\ Write(n, "Checking")
  <2>1. ~Node(n).late
    BY <1>3, <1>6 DEF Shaped
  <2> QED
    BY <1>1, <1>2, <1>6, <2>1, CountSteps
<1>7. CASE Node(n).step \in {"Posting", "Resolving"} /\ On[n] \in away
           /\ Write(n, "AwaitingWorker")
  BY <1>1, <1>3, <1>4, <1>7, CountSteps
<1>8. CASE Release(n, "fail")
  <2>1. pass'.pc = "release"
    BY <1>8 DEF Release, Start, Idle
  <2> QED
    BY <2>1, CountNoWrite
<1>9. CASE ~Node(n).late /\ PerformNodeStep(n, Node(n).step)
  <2>1. CASE End
    BY <2>1, ObjTypes, CountNoWrite DEF End
  <2>2. CASE Node(n).step = "Checking" /\ Found(n) /\ Write(n, "Adopting")
    BY <1>1, <1>5, <1>9, <2>2, CountSteps
  <2>3. CASE Node(n).step = "Checking" /\ Write(n, "AwaitingSlot")
    BY <1>1, <1>2, <1>9, <2>3, CountSteps
  <2>4. CASE Node(n).step = "AwaitingSlot" /\ AwaitSlot(n)
    BY <1>9, <2>4, CountAwait
  <2>5. CASE Post(n)
    <3>1. pass'.pc = "post"
      BY <2>5 DEF Post, Start, Idle
    <3> QED
      BY <3>1, CountNoWrite
  <2>6. CASE Found(n) /\ Write(n, "uuid")
    BY <1>5, <1>9, <2>6, CountSteps
  <2>7. CASE Node(n).step = "Resolving" /\ Write(n, "Posting")
    BY <1>1, <1>4, <1>9, <2>7, CountSteps
  <2>8. CASE Write(n, "Checking")
    BY <1>1, <1>2, <1>9, <2>8, CountSteps
  <2> QED
    BY <1>9, <2>1, <2>2, <2>3, <2>4, <2>5, <2>6, <2>7, <2>8 DEF PerformNodeStep
<1> QED
  BY <1>6, <1>7, <1>8, <1>9 DEF Provision

LEMMA CountReconcile ==
  ASSUME OnePerWorker, NodePrompt, ~Strays, SlotInv, StrayInv, CountInv,
         NEW n \in Nodes, Reconcile(n)
  PROVE  CountInv'
<1>1. /\ PassOnly /\ UNCHANGED adds /\ Current(nodeLog[n]) /\ NodesOK
  BY TypeParts DEF SlotInv, TypeInv, Reconcile, PassOnly, api, backend, world
<1>2. Cached(nodeLog[n]) = Node(n)
  BY <1>1, NodeEnds
<1>3. /\ Node(n).exists
      /\ \/ Node(n).deleted /\ Teardown(n, Node(n))
         \/ ~Node(n).deleted /\ ~Node(n).uuid /\ Provision(n, Node(n))
         \/ ~Node(n).deleted /\ Node(n).uuid /\ SyncStatus(n)
  BY <1>2 DEF Reconcile
<1>4. CASE Teardown(n, Node(n))
  <2>1. pass'.pc # "write"
    <3>1. PICK v : v = Node(n)
      OBVIOUS
    <3>2. \/ pass' = [Start(n, "release") EXCEPT !.obj = v, !.then = "drop"]
          \/ pass' = [Start(n, "drop") EXCEPT !.obj = v]
          \/ pass' = Idle
      BY <1>4, <3>1 DEF Teardown, End
    <3> QED
      BY <3>2, ObjTypes DEF Start, Idle
  <2> QED
    BY <1>1, <2>1, CountNoWrite
<1> QED
  BY <1>1, <1>3, <1>4, CountProvision, CountSync DEF Going

LEMMA CountPost ==
  ASSUME OnePerWorker, SlotInv, CountInv, PostNode
  PROVE  CountInv'
<1>1. /\ BackendOK /\ PassOK /\ At("post") /\ PassOnly
  BY TypeParts DEF SlotInv, TypeInv, PostNode, PassOnly, api
<1>2. PICK n \in Nodes : n = pass.node
  BY <1>1 DEF PassOK, At
<1>3. n \in Slots /\ (~Going(Node(n)) => ~Node(n).uuid /\ ~Node(n).late)
  BY <1>1, <1>2 DEF SlotInv, Passes, Posts, Running, Asked
<1>4. /\ Slots' = Slots /\ UNCHANGED <<seen, made>>
      /\ \A m \in Nodes : Node(m)' = Node(m) /\ (Going(Node(m))' <=> Going(Node(m)))
  BY <1>1, NodeStays, ListStays DEF PassOnly
<1>5. ASSUME NEW m \in Nodes, m # n PROVE adds'[On[m]] = adds[On[m]]
  <2>1. On[m] # On[n] /\ On[m] \in Workers
    BY <1>5, ProvisioningAssumption DEF OnePerWorker
  <2> QED
    BY <1>1, <1>2, <2>1 DEF PostNode, BackendOK
<1>6. ASSUME NEW m \in Nodes PROVE Kept(m)'
  <2>1. CASE m = n
    BY <1>3, <1>4, <2>1 DEF Kept, addFinished
  <2>2. CASE m # n
    BY <1>4, <1>5, <2>2 DEF CountInv, Kept, Backed, Over, InService, addFinished
  <2> QED
    BY <2>1, <2>2
<1>7. \/ pass'.pc = "idle"
      \/ pass'.pc = "write" /\ pass'.node = n /\ pass'.do = "Resolving"
  <2>1. "Resolving" \in Steps
    BY StepNames
  <2>2. Write(n, "Resolving") \/ End
    BY <1>2 DEF PostNode
  <2> QED
    BY <1>1, <2>1, <2>2, PieceMoves, ObjTypes DEF End
<1>8. ASSUME NEW m \in Nodes PROVE KeptWrites(m)'
  <2> SUFFICES ASSUME Running(m, "write")', ~Going(Node(m))'
               PROVE  KeptFits(m, pass.do, pass.reading)'
    BY DEF KeptWrites
  <2>1. m = n /\ pass'.do = "Resolving"
    BY <1>7 DEF Running, At
  <2> QED
    BY <1>3, <1>4, <2>1 DEF KeptFits
<1> QED
  BY <1>6, <1>8 DEF CountInv

LEMMA CountDrop ==
  ASSUME SlotInv, CountInv, DropFinalizer
  PROVE  CountInv'
<1>1. /\ NodesOK /\ PassOK /\ pass'.pc = "idle"
      /\ UNCHANGED <<clusterLog, adds, seen, made>>
  BY TypeParts, ObjTypes DEF SlotInv, TypeInv, DropFinalizer, End, backend, world
<1>2. PICK n \in Nodes : n = pass.node
  BY <1>1 DEF PassOK, DropFinalizer, At
<1>3. PICK v \in NodeObj : v = [NewNode EXCEPT !.exists = FALSE] /\ ~v.exists
  BY ObjTypes DEF NewNode
<1>4. \/ UNCHANGED nodeLog
      \/ nodeLog' = [nodeLog EXCEPT ![n] = Written(nodeLog[n], v)]
  BY <1>2, <1>3 DEF DropFinalizer
<1>5. ASSUME NEW m \in Nodes, ~Going(Node(m))'
      PROVE  ~Going(Node(m)) /\ Node(m)' = Node(m)
  <2>1. CASE nodeLog'[m] = nodeLog[m]
    BY <1>5, <2>1, NodeStays
  <2>2. CASE nodeLog'[m] # nodeLog[m]
    <3>1. nodeLog'[m] = Written(nodeLog[m], v)
      BY <1>1, <1>4, <2>2 DEF NodesOK
    <3> QED
      BY <1>1, <1>3, <1>5, <3>1, ReapableWritten DEF Going
  <2> QED
    BY <2>1, <2>2
<1> QED
  BY <1>1, <1>5, ListStays, CountStill DEF Still

\* The list changes: whoever leaves it is not being added.
LEMMA CountList ==
  ASSUME CountInv, UNCHANGED <<nodeLog, adds, seen, made, away>>,
         NEW n \in Nodes, n \in Slots' => n \in Slots \/ Running(n, "take"),
         \A m \in Nodes : m \in Slots => m \in Slots' \/ Parked(m),
         ~Strays,
         \A m \in Nodes : ~Running(m, "write")'
                            \/ (m = n /\ (~Going(Node(n)) => KeptFits(n, pass.do, pass.reading)'))
  PROVE  CountInv'
<1>1. \A m \in Nodes : Node(m)' = Node(m) /\ (Going(Node(m))' <=> Going(Node(m)))
  BY NodeStays
<1>2. ASSUME NEW m \in Nodes, ~Going(Node(m)) PROVE Kept(m)'
  <2>1. Kept(m)
    BY DEF CountInv
  <2>2. Parked(m) => addFinished(Node(m)) \/ (~Node(m).uuid /\ Node(m).late)
    BY <1>2 DEF Parked
  <2>3. /\ ~Node(m).uuid /\ ~Node(m).late /\ (Node(m).step \in Claimed \/ Backed(m))
             => m \in Slots'
        /\ Node(m).uuid /\ Node(m).creating => m \in Slots'
    BY <1>2, <2>1, <2>2 DEF Kept, addFinished
  <2>4. addFinished(Node(m)) => Over(m)
    BY <1>2, <2>1 DEF Kept
  <2> QED
    BY <1>1, <2>3, <2>4 DEF Kept, Backed, Over, InService, addFinished
<1>3. \A m \in Nodes : KeptWrites(m)'
  BY <1>1 DEF KeptWrites
<1>4. \A m \in Nodes : Kept(m)'
  BY <1>1, <1>2 DEF Kept
<1> QED
  BY <1>3, <1>4 DEF CountInv

LEMMA CountTake ==
  ASSUME ~Strays, SlotInv, CountInv, TakeSlot
  PROVE  CountInv'
<1>1. /\ NodesOK /\ ClusterOK /\ PassOK /\ BackendOK /\ At("take") /\ PassPlain
      /\ UNCHANGED <<nodeLog, adds, seen, made, away>>
  BY TypeParts DEF SlotInv, TypeInv, TakeSlot, backend, world
<1>2. PICK n \in Nodes : n = pass.node
  BY <1>1 DEF PassOK, At
<1>3. CASE ~pass.fresh
  <2>1. End /\ UNCHANGED clusterLog
    BY <1>3 DEF TakeSlot, TakeLands
  <2>2. pass'.pc # "write"
    BY <2>1, ObjTypes DEF End
  <2> QED
    BY <1>1, <2>1, <2>2, CountNoWrite DEF PassOnly
<1>4. CASE pass.fresh
  <2>1. Takes(n) /\ Running(n, "take") /\ Current(clusterLog)
    BY <1>1, <1>2, <1>4 DEF SlotInv, Passes, Running, PassPlain
  <2>2. PICK held \in SUBSET Nodes : held = pass.held
    BY <1>1 DEF PassOK, PassObj
  <2>3. held \subseteq Slots /\ \A m \in Slots \ held : Parked(m)
    BY <1>4, <2>1, <2>2 DEF Takes
  <2>4. PICK c \in ClusterObj : /\ c = [Stored(clusterLog) EXCEPT !.slots = held \cup {n}]
                                /\ c.slots = held \cup {n}
    <3>1. Stored(clusterLog) \in ClusterObj /\ held \cup {n} \in SUBSET Nodes
      BY <1>1, ClusterEnds
    <3>2. \A c \in ClusterObj, S \in SUBSET Nodes :
            [c EXCEPT !.slots = S] \in ClusterObj /\ [c EXCEPT !.slots = S].slots = S
      BY DEF ClusterObj
    <3> QED
      BY <3>1, <3>2
  <2>5. clusterLog' = Written(clusterLog, c) /\ Write(n, "Posting")
    BY <1>2, <1>4, <2>2, <2>4 DEF TakeSlot, TakeLands
  <2>6. Slots' = held \cup {n}
    BY <1>1, <2>4, <2>5, SlotsWritten
  <2>7. "Posting" \in Steps /\ "Posting" \notin {"uuid", "status", "lost", "fail"}
    BY StepNames
  <2>8. pass'.pc = "write" /\ pass'.node = n /\ pass'.do = "Posting"
    <3>1. "Posting" \in Steps \cup {"uuid", "lost", "status", "fail"}
      BY <2>7
    <3> QED
      BY <1>1, <2>5, <3>1, PieceMoves
  <2>9. ~Going(Node(n)) => ~Node(n)'.late
    BY <1>1, <2>1, NodeStays DEF Takes
  <2>10. ~Going(Node(n)) => KeptFits(n, pass.do, pass.reading)'
    BY <2>6, <2>7, <2>8, <2>9 DEF KeptFits
  <2>11. \A m \in Nodes : Running(m, "write")' => m = n
    BY <2>8 DEF Running
  <2>12. \A m \in Nodes : m \in Slots => m \in Slots' \/ Parked(m)
    BY <2>3, <2>6
  <2> QED
    BY <1>1, <2>1, <2>10, <2>11, <2>12, CountList
<1> QED
  BY <1>3, <1>4

LEMMA CountRelease ==
  ASSUME ~Strays, SlotInv, CountInv, ReleaseSlot
  PROVE  CountInv'
<1>1. /\ NodesOK /\ ClusterOK /\ PassOK /\ BackendOK /\ At("release") /\ PassPlain
      /\ UNCHANGED <<nodeLog, adds, seen, made, away>>
  BY TypeParts DEF SlotInv, TypeInv, ReleaseSlot, backend, world
<1>2. PICK n \in Nodes : n = pass.node
  BY <1>1 DEF PassOK, At
<1>3. pass.then \in {"fail", "drop", "end"}
  BY <1>1 DEF PassPlain, PassOK, PassObj
<1>4. Parked(n) \/ ~Entered(n)
  BY <1>1, <1>2 DEF SlotInv, Passes, Releases, Running
<1>5. \/ UNCHANGED clusterLog
      \/ /\ Current(clusterLog)
         /\ clusterLog' = Written(clusterLog,
              [Cached(clusterLog) EXCEPT !.slots = Cached(clusterLog).slots \ {n}])
  BY <1>2, <1>3 DEF ReleaseSlot, Released
<1>6. Slots' = Slots \/ (Slots' = Slots \ {n})
  <2>1. CASE UNCHANGED clusterLog
    BY <2>1, ListStays
  <2>2. CASE /\ Current(clusterLog)
             /\ clusterLog' = Written(clusterLog,
                  [Cached(clusterLog) EXCEPT !.slots = Cached(clusterLog).slots \ {n}])
    <3>1. Cached(clusterLog) = Stored(clusterLog) /\ Cached(clusterLog) \in ClusterObj
      BY <1>1, <2>2, ClusterEnds
    <3>2. PICK S \in SUBSET Nodes : S = Cached(clusterLog).slots \ {n} /\ S = Slots \ {n}
      BY <3>1 DEF ClusterObj, Slots
    <3>3. \A d \in ClusterObj :
            [d EXCEPT !.slots = S] \in ClusterObj /\ [d EXCEPT !.slots = S].slots = S
      BY DEF ClusterObj
    <3>4. PICK c \in ClusterObj :
            /\ c = [Cached(clusterLog) EXCEPT !.slots = Cached(clusterLog).slots \ {n}]
            /\ c.slots = Slots \ {n}
      BY <3>1, <3>2, <3>3
    <3> QED
      BY <1>1, <2>2, <3>4, SlotsWritten
  <2> QED
    BY <1>5, <2>1, <2>2
<1>7. ASSUME NEW m \in Nodes, m \in Slots PROVE m \in Slots' \/ Parked(m)
  <2>1. Entered(m)
    BY <1>1, <1>7, SlotsSeen
  <2> QED
    BY <1>4, <1>6, <1>7, <2>1
<1>8. \/ pass'.pc \in {"idle", "drop"}
      \/ pass'.pc = "write" /\ pass'.node = n /\ pass'.do = "fail"
  <2>1. CASE Write(n, "fail")
    BY <1>1, <2>1, PieceMoves
  <2>2. CASE pass' = Idle
    BY <2>2, ObjTypes
  <2>3. CASE pass' = [pass EXCEPT !.pc = "drop"]
    BY <1>1, <2>3 DEF PassOK, PassObj
  <2> QED
    BY <1>2, <1>3, <2>1, <2>2, <2>3 DEF ReleaseSlot, End
<1>9. KeptFits(n, "fail", pass.reading)'
  <2>1. "fail" \notin Steps /\ Claimed \subseteq Steps
    BY StepNames DEF Steps
  <2> QED
    BY <2>1 DEF KeptFits
<1>10. ASSUME NEW m \in Nodes, Running(m, "write")'
       PROVE  m = n /\ KeptFits(n, pass.do, pass.reading)'
  BY <1>8, <1>9, <1>10 DEF Running, At
<1>11. n \in Slots' => n \in Slots
  BY <1>6
<1> QED
  BY <1>1, <1>7, <1>10, <1>11, CountList

LEMMA CountStatus ==
  ASSUME SlotInv, SlotInv', CountInv, WriteStatus
  PROVE  CountInv'
<1>1. /\ NodesOK /\ ClusterOK /\ PassOK /\ At("write")
      /\ UNCHANGED <<clusterLog, adds, seen, made>>
  BY TypeParts DEF SlotInv, TypeInv, WriteStatus, backend, world
<1>2. PICK n \in Nodes : n = pass.node
  BY <1>1 DEF PassOK, At
<1>3. PICK do \in Steps \cup {"uuid", "lost", "status", "fail"} : do = pass.do
  BY <1>1 DEF PassOK, PassObj
<1>4. PICK reading \in Made : reading = pass.reading
  BY <1>1 DEF PassOK, PassObj
<1>5. /\ Cached(nodeLog[n]) \in NodeObj /\ Node(n) \in NodeObj
      /\ Current(nodeLog[n]) => Cached(nodeLog[n]) = Node(n)
  BY <1>1, NodeEnds
<1>6. PICK v \in NodeObj : /\ v = Mutate(Cached(nodeLog[n]), do, reading)
                           /\ v.exists = Cached(nodeLog[n]).exists
                           /\ v.deleted = Cached(nodeLog[n]).deleted
  BY <1>5, MutateType
<1>7. ~Going(Node(n)) => /\ Cached(nodeLog[n]) = Node(n) /\ Shaped(Node(n))
                         /\ WriteFits(n, do, reading) /\ KeptFits(n, do, reading)
  BY <1>1, <1>2, <1>3, <1>4, <1>5
  DEF SlotInv, Passes, Reads, Writes, Holds, Running, At, CountInv, KeptWrites
<1>8. Slots' = Slots /\ \A m \in Nodes : Entered(m)' <=> Entered(m)
  BY <1>1, ListStays
<1>9. \/ UNCHANGED nodeLog
      \/ /\ Current(nodeLog[n])
         /\ nodeLog' = [nodeLog EXCEPT ![n] = Written(nodeLog[n], v)]
  BY <1>2, <1>3, <1>4, <1>6 DEF WriteStatus, StatusLands
<1>10. ASSUME ~Going(Node(n))
       PROVE  /\ ~v.uuid /\ ~v.late /\ (v.step \in Claimed \/ Backed(n)) => n \in Slots
              /\ v.uuid /\ v.creating => n \in Slots
              /\ addFinished(v) => Over(n)
  <2>1. /\ WriteFits(n, do, reading) /\ KeptFits(n, do, reading)
        /\ v = Mutate(Node(n), do, reading) /\ Kept(n) /\ Shaped(Node(n))
    BY <1>6, <1>7, <1>10 DEF CountInv
  <2>2. Mutated(v, do, reading)
    <3>1. Apt(Node(n), do)
      BY <2>1 DEF WriteFits, Apt
    <3> QED
      BY <1>5, <2>1, <3>1, MutateShape
  <2>3. CASE do \in Steps
    <3>1. ~v.uuid /\ v.step = do /\ ~Node(n).uuid /\ ~Node(n).late
      BY <2>1, <2>2, <2>3 DEF Mutated, WriteFits, KeptFits
    <3> QED
      BY <1>10, <2>1, <3>1 DEF KeptFits, Kept, addFinished
  <2>4. CASE do \in {"uuid", "status"}
    <3>1. v.uuid /\ (v.creating <=> reading = "in_creation")
      BY <2>2, <2>4 DEF Mutated
    <3>2. reading = "in_creation" => n \in Slots
      BY <2>1, <2>4 DEF KeptFits
    <3>3. ASSUME reading # "in_creation" PROVE Over(n)
      <4>1. reading = "created"
        BY <2>1, <2>4, <3>3 DEF WriteFits, Made
      <4>2. InService(n) \/ ~Entered(n)
        BY <2>1, <2>4, <4>1 DEF WriteFits
      <4>3. CASE n \in Slots
        <5>1. Entered(n)
          BY <1>1, <4>3, SlotsSeen
        <5> QED
          BY <4>2, <5>1 DEF Over
      <4>4. CASE n \notin Slots
        <5>1. do = "status" /\ Node(n).uuid
          BY <2>1, <2>4, <4>4 DEF KeptFits, WriteFits
        <5> QED
          BY <1>10, <2>1, <4>4, <5>1 DEF Kept, addFinished
      <4> QED
        BY <4>3, <4>4
    <3> QED
      BY <3>1, <3>2, <3>3 DEF addFinished
  <2>5. CASE do = "lost"
    <3>1. ~v.uuid /\ Shaped(v)
      BY <2>2, <2>5 DEF Mutated
    <3>2. ASSUME n \notin Slots PROVE ~Backed(n)
      <4>1. seen[On[n]] = "none" /\ Over(n)
        BY <1>10, <2>1, <2>5, <3>2 DEF KeptFits, Kept
      <4> QED
        BY <4>1 DEF Over, InService, Backed
    <3>3. v.step = "" /\ "" \notin Claimed
      <4>1. Node(n).step = ""
        BY <2>1, <2>5 DEF WriteFits, Shaped
      <4>2. do \notin Steps
        BY <2>5, StepNames
      <4>3. v = [Node(n) EXCEPT !.failed = FALSE, !.uuid = FALSE, !.creating = FALSE]
        BY <2>1, <2>5, <4>2 DEF Mutate
      <4> QED
        BY <1>5, <4>1, <4>3 DEF NodeObj, Claimed
    <3> QED
      BY <3>1, <3>2, <3>3 DEF addFinished
  <2>6. CASE do = "fail"
    BY <2>2, <2>6 DEF Mutated, addFinished
  <2> QED
    BY <2>3, <2>4, <2>5, <2>6
<1>11. ASSUME NEW m \in Nodes PROVE Kept(m)'
  <2>1. CASE nodeLog'[m] = nodeLog[m]
    <3>1. Node(m)' = Node(m) /\ Kept(m)
      BY <2>1, NodeStays DEF CountInv
    <3> QED
      BY <1>1, <1>8, <3>1 DEF Kept, Going, Backed, Over, InService, addFinished
  <2>2. CASE nodeLog'[m] # nodeLog[m]
    <3>1. m = n /\ nodeLog'[n] = Written(nodeLog[n], v) /\ Current(nodeLog[n])
      BY <1>1, <1>9, <2>2 DEF NodesOK
    <3>2. Node(n)' = v
      BY <1>1, <3>1, ReapableWritten
    <3>3. Going(v) <=> Going(Node(n))
      BY <1>5, <1>6, <3>1 DEF Going
    <3> QED
      BY <1>1, <1>8, <1>10, <3>1, <3>2, <3>3
      DEF Kept, Going, Backed, Over, InService, addFinished
  <2> QED
    BY <2>1, <2>2
<1>12. pass'.pc # "write"
  <2>1. End \/ Release(n, "end")
    BY <1>2 DEF WriteStatus
  <2> QED
    BY <2>1, ObjTypes DEF End, Release, Start, Idle
<1> QED
  BY <1>11, <1>12 DEF CountInv, KeptWrites, Running, At

LEMMA CountStep ==
  ASSUME OnePerWorker, NodePrompt, ~Strays, SlotsInv, SlotsInv', CountInv, [Next]_vars
  PROVE  CountInv'
<1>1. SlotInv /\ StrayInv /\ SlotInv'
  BY DEF SlotsInv
<1>2. CASE PassStep
  BY <1>1, <1>2, CountTake, CountPost, CountStatus, CountRelease, CountDrop DEF PassStep
<1>3. CASE DeliverCluster \/ Mirror \/ Crash \/ UNCHANGED vars
  BY <1>1, <1>3, CountApart
<1>4. ASSUME NEW n \in Nodes, Reconcile(n) \/ DeliverNode(n) \/ Delete(n)
      PROVE  CountInv'
  BY <1>1, <1>4, CountReconcile, CountApart
<1>5. ASSUME NEW n \in Nodes, NEW s \in Steps, DeadlinePasses(n, s)
      PROVE  CountInv'
  BY <1>1, <1>5, CountDeadline
<1>6. ASSUME NEW w \in Workers, WorkerStep(w) \/ Leave(w) \/ CpGiveUp(w) \/ Reset(w)
      PROVE  CountInv'
  BY <1>1, <1>6, CountBackend, CountApart DEF WorkerStep
<1> QED
  BY <1>2, <1>3, <1>4, <1>5, <1>6 DEF Next

LEMMA CountInit ==
  ASSUME Init
  PROVE  CountInv
<1>1. pass.pc = "idle" /\ nodeLog = [n \in Nodes |-> <<NewNode>>]
      /\ adds = [w \in Workers |-> 0] /\ made = [w \in Workers |-> "none"] /\ seen = made
  BY ObjTypes DEF Init
<1>2. ASSUME NEW n \in Nodes PROVE Kept(n)
  <2>1. nodeLog[n] = <<NewNode>> /\ On[n] \in Workers
    BY <1>1, <1>2, ProvisioningAssumption
  <2>2. Node(n) = NewNode
    BY <2>1 DEF Node, Stored
  <2>3. ~Backed(n)
    BY <1>1, <2>1 DEF Backed
  <2>4. NewNode.uuid = FALSE /\ NewNode.step = "" /\ "" \notin Claimed
    BY DEF NewNode, Claimed
  <2> QED
    BY <2>2, <2>3, <2>4 DEF Kept, addFinished
<1> QED
  BY <1>1, <1>2 DEF CountInv, KeptWrites, Running, At

\* Under the same conditions, and where workers do not leave or deadlines do not pass,
\* no more workers are being added at once than the cap allows, and never two that host
\* FoundationDB, whatever the caches show of the slots and of their holders. An add
\* counts from the claim until the control plane has finished creating the node, not
\* only until its UUID is there (awaitSlot, takeSlot, heldSlots, addFinished). With two
\* nodes of one worker the code ends the slot with the first of them, and a failed node
\* whose worker leaves is taken up again without a slot: hence the conditions.
THEOREM CapIsKept ==
  ASSUME OnePerWorker, NodePrompt, Late = {} \/ "leave" \notin Env
  PROVE  Spec => []CapHolds
<1> DEFINE Inv == SlotsInv /\ CountInv
<1>1. Init => Inv
  BY SlotInit, StrayInit, CountInit DEF SlotsInv
<1>2. Inv /\ [Next]_vars => Inv'
  BY SlotsStep, CountStep DEF Strays
<1>3. Inv => CapHolds
  <2> SUFFICES ASSUME SlotInv, CountInv PROVE CapHolds
    BY DEF SlotsInv
  <2> DEFINE busy == {On[n] : n \in Adding}
  <2>1. ClusterOK
    BY TypeParts DEF SlotInv, TypeInv
  <2>2. Slots \in SUBSET Nodes /\ IsFiniteSet(Slots)
    BY <2>1, SlotsSeen, WorkersOf
  <2>3. Adding \in SUBSET Slots /\ Adding \in SUBSET Nodes
    <3>1. ASSUME NEW n \in Nodes, InAdd(Node(n)) PROVE n \in Slots
      BY <3>1 DEF CountInv, Kept, InAdd, claimedWorker, Going
    <3> QED
      BY <3>1 DEF Adding
  <2>4. IsFiniteSet(Adding) /\ Cardinality(Adding) <= Cardinality(Slots)
    BY <2>2, <2>3, FS_Subset
  <2>5. IsFiniteSet(busy) /\ Cardinality(busy) <= Cardinality(Adding)
    BY <2>3, WorkersOf
  <2>6. Cardinality(busy) <= Limit
    <3>1. /\ Cardinality(busy) \in Nat /\ Cardinality(Adding) \in Nat
          /\ Cardinality(Slots) \in Nat
      BY <2>2, <2>4, <2>5, FS_CardinalityType
    <3>2. Cardinality(Slots) <= Limit
      BY DEF SlotInv, Capped
    <3> HIDE DEF busy
    <3> QED
      BY <2>4, <2>5, <3>1, <3>2, ProvisioningAssumption
  <2>7. Cardinality(busy \cap FDB) <= 1
    <3>1. CASE busy \cap FDB = {}
      BY <3>1, FS_EmptySet
    <3>2. CASE busy \cap FDB # {}
      <4>1. PICK m \in Adding : On[m] \in FDB
        BY <3>2
      <4>2. busy \cap FDB = {On[m]}
        BY <2>3, <4>1 DEF SlotInv, Capped
      <4> QED
        <5>1. Cardinality({On[m]}) = 1
          BY FS_Singleton
        <5> HIDE DEF busy
        <5> QED
          BY <4>2, <5>1
    <3> QED
      BY <3>1, <3>2
  <2> QED
    BY <2>6, <2>7 DEF CapHolds
<1> QED
  BY <1>1, <1>2, <1>3, PTL DEF Spec
===============================================================================
