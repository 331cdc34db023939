---------------------------- MODULE ClusterOpsProofs ----------------------------
(***************************************************************************)
(* Proofs about ClusterOps, for every set of operations and of nodes,      *)
(* every environment, every lag and any number of crashes.                 *)
(***************************************************************************)
EXTENDS ClusterOpsInvariant, InformerProofs, FiniteSetTheorems, WellFoundedInduction

-------------------------------------------------------------------------------
(* The operators the model is built from.                                  *)

N == Cardinality(Nodes)

LEMMA Bounds ==
  /\ MaxLag \in Nat \ {0} /\ MaxCrashes \in Nat /\ MaxActivates \in Nat
  /\ 1 \in 1..(MaxLag + 1) /\ NoOp \notin Ops /\ N \in Nat
<1>1. IsFiniteSet(Nodes)
  BY ClusterOpsAssumption
<1>2. N \in Nat
  BY <1>1, FS_CardinalityType DEF N
<1> QED BY <1>2, ClusterOpsAssumption

\* An environment names its operations and their actions.
LEMMA EnvType ==
  ASSUME env \in Envs
  PROVE  DOMAIN Action \subseteq Ops /\ \A o \in DOMAIN Action : Action[o] \in Actions
  BY ClusterOpsAssumption DEF Action

\* A plan lists nodes, at most all of them.
LEMMA PlanType ==
  ASSUME NEW p \in Plans
  PROVE  Len(p) \in 0..N /\ \A i \in 1..Len(p) : p[i] \in Nodes
<1>1. PICK S \in SUBSET Nodes : p \in Orders(S)
  BY DEF Plans
<1>2. IsFiniteSet(Nodes)
  BY ClusterOpsAssumption
<1>3. IsFiniteSet(S) /\ Cardinality(S) \in Nat /\ Cardinality(S) <= N
  BY <1>2, FS_Subset, FS_CardinalityType DEF N
<1>4. p \in [1..Cardinality(S) -> S]
  BY <1>1 DEF Orders
<1>5. Len(p) = Cardinality(S)
  BY <1>3, <1>4
<1> QED BY <1>3, <1>4, <1>5, Bounds

LEMMA PlanDomain ==
  ASSUME NEW p \in Plans
  PROVE  DOMAIN p = 1..Len(p)
<1>1. PICK S \in SUBSET Nodes : p \in Orders(S)
  BY DEF Plans
<1>2. IsFiniteSet(S)
  BY ClusterOpsAssumption, FS_Subset
<1>3. Cardinality(S) \in Nat
  BY <1>2, FS_CardinalityType
<1>4. p \in [1..Cardinality(S) -> S]
  BY <1>1 DEF Orders
<1> QED BY <1>3, <1>4

\* The nodes of a set in some order are a plan.
LEMMA OrdersArePlans ==
  ASSUME NEW S \in SUBSET Nodes, NEW p \in Orders(S)
  PROVE  p \in Plans
  BY DEF Plans

LEMMA NoPlan == <<>> \in Plans /\ Len(<<>>) = 0
<1>1. Cardinality({}) = 0
  BY FS_EmptySet
<1>2. <<>> \in [1..0 -> {}]
  OBVIOUS
<1>3. <<>> \in Orders({})
  BY <1>1, <1>2 DEF Orders
<1> QED BY <1>3 DEF Plans
LEMMA ObjFields ==
  ASSUME NEW v \in OpsObj
  PROVE  /\ v.plan \in Plans /\ v.index \in 0..(N + 1) /\ v.index \in Nat
         /\ v.skipped \in SUBSET Nodes /\ v.phase \in Phases /\ v.step \in Steps
         /\ v.claim \in Leases /\ v.late \in BOOLEAN /\ v.settled \in BOOLEAN
         /\ v.exists \in BOOLEAN /\ v.deleted \in BOOLEAN /\ v.finalizer \in BOOLEAN
         /\ v.abort \in BOOLEAN /\ Len(v.plan) \in 0..N /\ Len(v.plan) \in Nat
         /\ AtNode(v) => v.plan[v.index] \in Nodes /\ v.index + 1 \in 0..(N + 1)
<1>1. /\ v.plan \in Plans /\ v.index \in 0..(N + 1)
      /\ v.skipped \in SUBSET Nodes /\ v.phase \in Phases /\ v.step \in Steps
      /\ v.claim \in Leases /\ v.late \in BOOLEAN /\ v.settled \in BOOLEAN
      /\ v.exists \in BOOLEAN /\ v.deleted \in BOOLEAN /\ v.finalizer \in BOOLEAN
      /\ v.abort \in BOOLEAN
  BY DEF OpsObj, N
<1>2. Len(v.plan) \in 0..N /\ \A i \in 1..Len(v.plan) : v.plan[i] \in Nodes
  BY <1>1, PlanType
<1> QED BY <1>1, <1>2, Bounds DEF AtNode

\* Two versions of one object: with the same metadata, at the same step, with the same
\* walk; and a version that has just entered step s.
SameMeta(v, w) ==
  /\ v.exists = w.exists /\ v.finalizer = w.finalizer /\ v.deleted = w.deleted
  /\ v.abort = w.abort
SameStep(v, w) ==
  v.step = w.step /\ v.claim = w.claim /\ v.late = w.late /\ v.settled = w.settled
SamePlan(v, w) == v.plan = w.plan /\ v.index = w.index /\ v.skipped = w.skipped
Entered(w, s) == w.step = s /\ w.claim = "none" /\ w.late = FALSE /\ w.settled = FALSE

\* The index and the skipped nodes after the walk has left the node `read` stands at.
StepsPast(v, w, arg, read) ==
  /\ w.plan = v.plan /\ w.index = read.index + 1
  /\ arg # "skip" => w.skipped = v.skipped
  /\ arg = "skip" => w.skipped = v.skipped \cup {read.plan[read.index]}

\* What the mutation `do` makes of v, field by field.
Mutates(v, w, do, arg, read, list) ==
  /\ w \in OpsObj /\ SameMeta(v, w)
  /\ do \in {"run", "hold", "note"} => SameStep(v, w) /\ SamePlan(v, w)
  /\ do = "run" => w.phase = "Running"
  /\ do = "hold" => w.phase = IF v.phase = "" THEN "Pending" ELSE v.phase
  /\ do \in {"note", "plan", "next", "walked", "retry"} => w.phase = v.phase
  /\ do = "record" => w.phase = "Running" /\ Entered(w, arg) /\ SamePlan(v, w)
  /\ do = "plan" => SameStep(v, w) /\ w.plan = list /\ w.index = 1 /\ w.skipped = {}
  /\ do = "walked" => SameStep(v, w) /\ StepsPast(v, w, arg, read)
  /\ do = "next" => Entered(w, "CheckingPeers") /\ StepsPast(v, w, arg, read)
  /\ do = "retry" => Entered(w, arg) /\ SamePlan(v, w)
  /\ do = "finish" => /\ w.phase = arg /\ SamePlan(v, w)
                      /\ arg = "Succeeded" => Entered(w, "Completed")
                      /\ arg # "Succeeded" => SameStep(v, w)

Doings == {"run", "hold", "note", "record", "plan", "next", "walked", "retry", "finish"}

LEMMA EnteredType ==
  ASSUME NEW v \in OpsObj, NEW s \in Steps
  PROVE  LET w == [v EXCEPT !.step = s, !.claim = "none", !.late = FALSE, !.settled = FALSE]
         IN  /\ w \in OpsObj /\ SameMeta(v, w) /\ SamePlan(v, w) /\ Entered(w, s)
             /\ w.phase = v.phase
  BY DEF OpsObj, SameMeta, SamePlan, Entered, Leases

LEMMA PhaseType ==
  ASSUME NEW v \in OpsObj, NEW ph \in Phases
  PROVE  LET w == [v EXCEPT !.phase = ph]
         IN  /\ w \in OpsObj /\ SameMeta(v, w) /\ SamePlan(v, w) /\ SameStep(v, w)
             /\ w.phase = ph
  BY DEF OpsObj, SameMeta, SamePlan, SameStep

LEMMA MovedType ==
  ASSUME NEW v \in OpsObj, NEW read \in OpsObj, AtNode(read), NEW arg
  PROVE  LET w == [v EXCEPT !.index = Moved(v, read),
                    !.skipped = IF arg = "skip" THEN @ \cup {read.plan[read.index]} ELSE @]
         IN  /\ w \in OpsObj /\ SameMeta(v, w) /\ SameStep(v, w)
             /\ w.phase = v.phase /\ StepsPast(v, w, arg, read)
<1> DEFINE i == Moved(v, read)
           k == IF arg = "skip" THEN v.skipped \cup {read.plan[read.index]} ELSE v.skipped
           w == [v EXCEPT !.index = i, !.skipped = k]
<1>1. i \in 0..(N + 1) /\ i = read.index + 1 /\ k \in SUBSET Nodes
  BY ObjFields DEF Moved
<1> HIDE DEF i, k
<1>2. /\ w \in OpsObj /\ SameMeta(v, w) /\ SameStep(v, w) /\ w.phase = v.phase
      /\ w.index = i /\ w.skipped = k /\ w.plan = v.plan
  BY <1>1 DEF OpsObj, SameMeta, SameStep, N
<1> HIDE DEF w
<1>3. StepsPast(v, w, arg, read)
  BY <1>1, <1>2 DEF StepsPast, k
<1> QED BY <1>2, <1>3 DEF w, i, k

\* A status mutation returns an operation object, as described.
LEMMA MutateType ==
  ASSUME NEW v \in OpsObj, NEW read \in OpsObj, NEW do \in Doings, NEW arg,
         do \in {"record", "retry"} => arg \in WorkSteps,
         do = "finish" => arg \in {"Succeeded", "Failed", "Aborted"},
         do \in {"next", "walked"} => AtNode(read), pass.list \in Plans
  PROVE  Mutates(v, Mutate(v, do, arg, read), do, arg, read, pass.list)
<1> DEFINE w == Mutate(v, do, arg, read)
<1>1. CASE do \in {"run", "hold", "note"}
  <2>1. v.phase \in Phases
    BY ObjFields
  <2>2. CASE do = "run"
    <3>1. w = [v EXCEPT !.phase = "Running"]
      BY <2>2 DEF Mutate
    <3>2. "Running" \in Phases
      BY DEF Phases
    <3> HIDE DEF w
    <3>3. /\ w \in OpsObj /\ SameMeta(v, w) /\ SamePlan(v, w) /\ SameStep(v, w)
          /\ w.phase = "Running"
      BY <3>1, <3>2, PhaseType
    <3> QED BY <2>2, <3>3 DEF Mutates, w
  <2>3. CASE do = "hold"
    <3> DEFINE ph == IF v.phase = "" THEN "Pending" ELSE v.phase
    <3>1. w = [v EXCEPT !.phase = ph] /\ ph \in Phases
      BY <2>1, <2>3 DEF Mutate, Phases
    <3> HIDE DEF ph, w
    <3>2. /\ w \in OpsObj /\ SameMeta(v, w) /\ SamePlan(v, w) /\ SameStep(v, w)
          /\ w.phase = ph
      BY <3>1, PhaseType
    <3> QED BY <2>3, <3>2 DEF Mutates, ph, w
  <2>4. CASE do = "note"
    <3>1. w = v
      BY <2>4 DEF Mutate
    <3> QED BY <2>4, <3>1 DEF Mutates, SameMeta, SameStep, SamePlan
  <2> QED BY <1>1, <2>2, <2>3, <2>4
<1>2. CASE do = "record"
  <2> DEFINE e == [v EXCEPT !.step = arg, !.claim = "none", !.late = FALSE, !.settled = FALSE]
  <2>1. w = [e EXCEPT !.phase = "Running"]
    BY <1>2 DEF Mutate
  <2>2. arg \in Steps
    BY <1>2 DEF Steps
  <2>3. e \in OpsObj /\ SameMeta(v, e) /\ SamePlan(v, e) /\ Entered(e, arg)
    BY <2>2, EnteredType
  <2> HIDE DEF e, w
  <2>4. /\ w \in OpsObj /\ SameMeta(e, w) /\ SamePlan(e, w) /\ SameStep(e, w)
        /\ w.phase = "Running"
    BY <2>1, <2>3, PhaseType DEF Phases
  <2> QED BY <1>2, <2>3, <2>4 DEF Mutates, SameMeta, SamePlan, SameStep, Entered, w
<1>3. CASE do = "plan"
  <2>1. w = [v EXCEPT !.plan = pass.list, !.index = 1, !.skipped = {}]
    BY <1>3 DEF Mutate
  <2>2. 1 \in 0..(N + 1)
    BY Bounds
  <2> HIDE DEF w
  <2>3. /\ w \in OpsObj /\ SameMeta(v, w) /\ SameStep(v, w) /\ w.phase = v.phase
        /\ w.plan = pass.list /\ w.index = 1 /\ w.skipped = {}
    BY <2>1, <2>2 DEF OpsObj, SameMeta, SameStep, N
  <2> QED BY <1>3, <2>3 DEF Mutates, w
<1>4. CASE do \in {"next", "walked"}
  <2> DEFINE m == [v EXCEPT !.index = Moved(v, read),
                    !.skipped = IF arg = "skip" THEN @ \cup {read.plan[read.index]} ELSE @]
  <2>1. /\ m \in OpsObj /\ SameMeta(v, m) /\ SameStep(v, m)
        /\ m.phase = v.phase /\ StepsPast(v, m, arg, read)
    BY <1>4, MovedType
  <2>2. CASE do = "walked"
    <3>1. w = m
      BY <2>2 DEF Mutate
    <3> HIDE DEF m, w
    <3> QED BY <2>1, <2>2, <3>1 DEF Mutates, w
  <2>3. CASE do = "next"
    <3>1. w = [m EXCEPT !.step = "CheckingPeers", !.claim = "none", !.late = FALSE,
                        !.settled = FALSE]
      BY <2>3 DEF Mutate
    <3> HIDE DEF m, w
    <3>2. /\ w \in OpsObj /\ SameMeta(m, w) /\ SamePlan(m, w) /\ Entered(w, "CheckingPeers")
          /\ w.phase = m.phase
      BY <2>1, <3>1, EnteredType DEF Steps, WorkSteps
    <3>3. StepsPast(v, w, arg, read)
      BY <2>1, <3>2 DEF StepsPast, SamePlan
    <3> QED BY <2>1, <2>3, <3>2, <3>3 DEF Mutates, SameMeta, w
  <2> QED BY <1>4, <2>2, <2>3
<1>5. CASE do = "retry"
  <2>1. w = [v EXCEPT !.step = arg, !.claim = "none", !.late = FALSE, !.settled = FALSE]
    BY <1>5 DEF Mutate
  <2>2. arg \in Steps
    BY <1>5 DEF Steps
  <2> HIDE DEF w
  <2>3. /\ w \in OpsObj /\ SameMeta(v, w) /\ SamePlan(v, w) /\ Entered(w, arg)
        /\ w.phase = v.phase
    BY <2>1, <2>2, EnteredType
  <2> QED BY <1>5, <2>3 DEF Mutates, w
<1>6. CASE do = "finish" /\ arg = "Succeeded"
  <2> DEFINE e == [v EXCEPT !.step = "Completed", !.claim = "none", !.late = FALSE,
                            !.settled = FALSE]
  <2>1. w = [e EXCEPT !.phase = arg]
    BY <1>6 DEF Mutate
  <2>2. e \in OpsObj /\ SameMeta(v, e) /\ SamePlan(v, e) /\ Entered(e, "Completed")
    BY EnteredType DEF Steps
  <2> HIDE DEF e, w
  <2>3. /\ w \in OpsObj /\ SameMeta(e, w) /\ SamePlan(e, w) /\ SameStep(e, w)
        /\ w.phase = arg
    <3>1. arg \in Phases
      BY <1>6 DEF Phases
    <3> QED BY <2>1, <2>2, <3>1, PhaseType
  <2> QED BY <1>6, <2>2, <2>3 DEF Mutates, SameMeta, SamePlan, SameStep, Entered, w
<1>7. CASE do = "finish" /\ arg # "Succeeded"
  <2>1. w = [v EXCEPT !.phase = arg]
    BY <1>7 DEF Mutate
  <2>2. arg \in Phases
    BY <1>7 DEF Phases
  <2> HIDE DEF w
  <2>3. /\ w \in OpsObj /\ SameMeta(v, w) /\ SamePlan(v, w) /\ SameStep(v, w)
        /\ w.phase = arg
    BY <2>1, <2>2, PhaseType
  <2> QED BY <1>7, <2>3 DEF Mutates, w
<1> QED BY <1>1, <1>2, <1>3, <1>4, <1>5, <1>6, <1>7 DEF Doings
-------------------------------------------------------------------------------
(* Type correctness.                                                       *)

LogsOK ==
  /\ opsLog \in [Ops -> Seq(OpsObj)]
  /\ \A o \in Ops : Len(opsLog[o]) \in 1..(MaxLag + 1)

LockOK == clusterLog \in Seq(ClusterObj) /\ Len(clusterLog) \in 1..(MaxLag + 1)

PassOK == pass \in PassObj /\ PassFits(pass)

Clusters == [status : ClusterStatuses, rebal : BOOLEAN, task : BOOLEAN]

Tally == attempts \in 0..MaxActivates /\ asked \in 0..MaxActivates /\ Counted

CpTypes ==
  /\ cl \in Clusters /\ clJob \in {"none", "stop", "start"}
  /\ nodes \in [Nodes -> NodeStatuses]
  /\ nodeJob \in [Nodes -> {"none", "stop", "start"}]
  /\ pods \in [Nodes -> {"old", "going", "none", "new", "ready"}]

CpOK == Tally /\ CpTypes

StreamsOK == clSeen \in Clusters /\ seen \in [Nodes -> NodeStatuses]

HistoryOK == down \subseteq Nodes /\ cycled \subseteq Nodes /\ crashes \in 0..MaxCrashes

\* What is said of the versions, and of the pass's copy of one.
Copies == Versions /\ Outsiders /\ FreshIsStored /\ PlanKnown

\* TypeInv is these parts.
LEMMA TypeParts ==
  TypeInv <=> /\ LogsOK /\ LockOK /\ PassOK /\ CpOK /\ StreamsOK /\ HistoryOK /\ Copies
              /\ queue \subseteq Ops /\ env \in Envs
<1>1. TypeInv => /\ LogsOK /\ LockOK /\ PassOK /\ CpOK /\ StreamsOK /\ HistoryOK /\ Copies
                 /\ queue \subseteq Ops /\ env \in Envs
  BY DEF TypeInv, TypeOK, LogsOK, LockOK, PassOK, CpOK, Tally, CpTypes, Clusters, StreamsOK, HistoryOK, Copies
<1>2. PassOK => (~At("idle") => pass.op \in DOMAIN Action)
  BY DEF PassOK, PassFits, At
<1> QED BY <1>1, <1>2 DEF TypeInv, TypeOK, LogsOK, LockOK, PassOK, CpOK, Tally, CpTypes, Clusters,
          StreamsOK, HistoryOK, Copies

LEMMA TypePartsNext ==
  ASSUME LogsOK', LockOK', PassOK', CpOK', StreamsOK', HistoryOK', Copies',
         queue' \subseteq Ops, env' \in Envs
  PROVE  TypeInv'
<1>1. ~At("idle")' => pass'.op \in DOMAIN Action'
  BY DEF PassOK, PassFits, At
<1> QED BY <1>1 DEF TypeInv, TypeOK, LogsOK, LockOK, PassOK, CpOK, Tally, CpTypes, Clusters,
          StreamsOK, HistoryOK, Copies

\* What does not move keeps its type.
LEMMA TypeKept ==
  ASSUME TypeInv, UNCHANGED env
  PROVE  /\ UNCHANGED opsLog => LogsOK'
         /\ UNCHANGED clusterLog => LockOK'
         /\ UNCHANGED pass => PassOK'
         /\ UNCHANGED <<cpVars, asked>> => CpOK'
         /\ UNCHANGED streams => StreamsOK'
         /\ UNCHANGED <<down, cycled, crashes>> => HistoryOK'
         /\ UNCHANGED <<opsLog, pass>> => Copies'
         /\ UNCHANGED queue => queue' \subseteq Ops
         /\ env' \in Envs
<1> USE TypeParts
<1>1. UNCHANGED opsLog => LogsOK'
  BY DEF LogsOK
<1>2. UNCHANGED clusterLog => LockOK'
  BY DEF LockOK
<1>3. UNCHANGED pass => PassOK'
  BY ZenonT(30) DEF PassOK, PassFits, WriteFits, Fits, Rolls, Action
<1>4. UNCHANGED <<cpVars, asked>> => CpOK'
  BY DEF CpOK, Tally, CpTypes, cpVars, Counted
<1>5. UNCHANGED streams => StreamsOK'
  BY DEF StreamsOK, streams
<1>6. UNCHANGED <<down, cycled, crashes>> => HistoryOK'
  BY DEF HistoryOK
<1>7. UNCHANGED <<opsLog, pass>> => Copies'
  BY DEF Copies, Versions, Outsiders, FreshIsStored, PlanKnown, At, Fits, Rolls, Action, Op
<1> QED BY <1>1, <1>2, <1>3, <1>4, <1>5, <1>6, <1>7

\* Both ends of the log of an operation, and of the cluster's.
LEMMA OpEnds ==
  ASSUME TypeInv, NEW o \in Ops
  PROVE  /\ opsLog[o] \in Seq(OpsObj) /\ Len(opsLog[o]) \in Nat \ {0}
         /\ Cached(opsLog[o]) \in OpsObj /\ Op(o) \in OpsObj
         /\ Cached(opsLog[o]) = opsLog[o][1] /\ Op(o) = opsLog[o][Len(opsLog[o])]
         /\ Current(opsLog[o]) => Cached(opsLog[o]) = Op(o)
         /\ \A k \in 1..Len(opsLog[o]) : opsLog[o][k] \in OpsObj
<1>1. opsLog[o] \in Seq(OpsObj) /\ Len(opsLog[o]) \in Nat \ {0}
  BY Bounds, TypeParts DEF LogsOK
<1>2. \A k \in 1..Len(opsLog[o]) : opsLog[o][k] \in OpsObj
  BY <1>1
<1> QED BY <1>1, <1>2, LogEnds DEF Op, Stored

LEMMA ClusterEnds ==
  ASSUME TypeInv
  PROVE  /\ clusterLog \in Seq(ClusterObj) /\ Len(clusterLog) \in Nat \ {0}
         /\ Cached(clusterLog) \in ClusterObj /\ Stored(clusterLog) \in ClusterObj
         /\ Cached(clusterLog) = clusterLog[1]
         /\ Stored(clusterLog) = clusterLog[Len(clusterLog)]
         /\ Current(clusterLog) => Cached(clusterLog) = Stored(clusterLog)
         /\ \A k \in 1..Len(clusterLog) : clusterLog[k] \in ClusterObj
<1>1. clusterLog \in Seq(ClusterObj) /\ Len(clusterLog) \in Nat \ {0}
  BY Bounds, TypeParts DEF LockOK
<1>2. \A k \in 1..Len(clusterLog) : clusterLog[k] \in ClusterObj
  BY <1>1
<1> QED BY <1>1, <1>2, LogEnds DEF Stored

\* A write of one operation leaves the others alone.
LEMMA OpWritten ==
  ASSUME TypeInv, NEW o \in Ops, NEW v \in OpsObj, Room(opsLog[o], MaxLag),
         opsLog' = [opsLog EXCEPT ![o] = Written(@, v)]
  PROVE  /\ LogsOK' /\ Op(o)' = v /\ Stored(opsLog'[o]) = v
         /\ \A p \in Ops \ {o} : opsLog'[p] = opsLog[p] /\ Op(p)' = Op(p)
         /\ Len(opsLog'[o]) = Len(opsLog[o]) + 1
         /\ opsLog'[o][Len(opsLog[o]) + 1] = v
         /\ Cached(opsLog'[o]) = Cached(opsLog[o]) /\ ~Current(opsLog'[o])
         /\ \A k \in 1..Len(opsLog[o]) : opsLog'[o][k] = opsLog[o][k]
<1>1. /\ MaxLag \in Nat /\ opsLog \in [Ops -> Seq(OpsObj)] /\ Len(opsLog[o]) <= MaxLag
  BY Bounds, TypeParts DEF LogsOK, Room
<1>2. /\ Written(opsLog[o], v) \in Seq(OpsObj)
      /\ Len(Written(opsLog[o], v)) = Len(opsLog[o]) + 1
      /\ Stored(Written(opsLog[o], v)) = v
      /\ Cached(Written(opsLog[o], v)) = Cached(opsLog[o])
      /\ ~Current(Written(opsLog[o], v))
      /\ \A i \in 1..Len(opsLog[o]) : Written(opsLog[o], v)[i] = opsLog[o][i]
  BY OpEnds, LogWritten
<1>3. opsLog'[o] = Written(opsLog[o], v) /\ \A p \in Ops \ {o} : opsLog'[p] = opsLog[p]
  BY <1>1
<1>4. opsLog' \in [Ops -> Seq(OpsObj)]
  BY <1>1, <1>2
<1>5. \A p \in Ops : Len(opsLog'[p]) \in 1..(MaxLag + 1)
  <2>1. Len(opsLog'[o]) \in 1..(MaxLag + 1)
    BY <1>1, <1>2, <1>3, OpEnds
  <2>2. \A p \in Ops : Len(opsLog[p]) \in 1..(MaxLag + 1)
    BY TypeParts DEF LogsOK
  <2> QED BY <1>3, <2>1, <2>2
<1>6. opsLog'[o][Len(opsLog[o]) + 1] = v
  BY <1>2, <1>3 DEF Stored
<1> QED BY <1>2, <1>3, <1>4, <1>5, <1>6 DEF LogsOK, Op

\* So does a watch event.
LEMMA OpDelivered ==
  ASSUME TypeInv, NEW o \in Ops, DeliverOp(o)
  PROVE  /\ LogsOK' /\ \A p \in Ops : Op(p)' = Op(p)
         /\ \A p \in Ops \ {o} : opsLog'[p] = opsLog[p]
         /\ Len(opsLog'[o]) = Len(opsLog[o]) - 1
         /\ \A k \in 1..Len(opsLog'[o]) :
              k + 1 \in 1..Len(opsLog[o]) /\ opsLog'[o][k] = opsLog[o][k + 1]
<1>1. /\ opsLog' = [opsLog EXCEPT ![o] = Delivered(opsLog[o])] /\ Len(opsLog[o]) > 1
      /\ MaxLag \in Nat /\ opsLog \in [Ops -> Seq(OpsObj)] /\ Len(opsLog[o]) <= MaxLag + 1
      /\ Len(opsLog[o]) \in Nat
  BY Bounds, TypeParts DEF DeliverOp, LogsOK
<1>2. /\ Delivered(opsLog[o]) \in Seq(OpsObj)
      /\ Len(Delivered(opsLog[o])) = Len(opsLog[o]) - 1
      /\ Stored(Delivered(opsLog[o])) = Stored(opsLog[o])
      /\ \A i \in 1..Len(Delivered(opsLog[o])) : Delivered(opsLog[o])[i] = opsLog[o][i + 1]
  BY <1>1, OpEnds, LogDelivered
<1>3. opsLog'[o] = Delivered(opsLog[o]) /\ \A p \in Ops \ {o} : opsLog'[p] = opsLog[p]
  BY <1>1
<1>4. opsLog' \in [Ops -> Seq(OpsObj)]
  BY <1>1, <1>2
<1>5. \A p \in Ops : Len(opsLog'[p]) \in 1..(MaxLag + 1)
  <2>1. Len(opsLog'[o]) \in 1..(MaxLag + 1)
    BY <1>1, <1>2, <1>3
  <2>2. \A p \in Ops : Len(opsLog[p]) \in 1..(MaxLag + 1)
    BY TypeParts DEF LogsOK
  <2> QED BY <1>3, <2>1, <2>2
<1>6. \A k \in 1..Len(opsLog'[o]) :
        k + 1 \in 1..Len(opsLog[o]) /\ opsLog'[o][k] = opsLog[o][k + 1]
  BY <1>1, <1>2, <1>3
<1> QED BY <1>2, <1>3, <1>4, <1>5, <1>6 DEF LogsOK, Op

\* A clock that ages every copy of an operation by g.
LEMMA OpAged ==
  ASSUME TypeInv, NEW o \in Ops, NEW g \in [OpsObj -> OpsObj],
         opsLog' = [opsLog EXCEPT ![o] = [i \in 1..Len(opsLog[o]) |-> g[opsLog[o][i]]]]
  PROVE  /\ LogsOK' /\ Op(o)' = g[Op(o)]
         /\ \A p \in Ops \ {o} : opsLog'[p] = opsLog[p] /\ Op(p)' = Op(p)
         /\ Len(opsLog'[o]) = Len(opsLog[o])
         /\ \A k \in 1..Len(opsLog[o]) : opsLog'[o][k] = g[opsLog[o][k]]
<1>1. opsLog \in [Ops -> Seq(OpsObj)] /\ Len(opsLog[o]) \in Nat \ {0}
      /\ \A k \in 1..Len(opsLog[o]) : opsLog[o][k] \in OpsObj
  BY TypeParts, OpEnds DEF LogsOK
<1> DEFINE aged == [i \in 1..Len(opsLog[o]) |-> g[opsLog[o][i]]]
<1>2. aged \in Seq(OpsObj) /\ Len(aged) = Len(opsLog[o])
  BY <1>1
<1>3. \A k \in 1..Len(opsLog[o]) : aged[k] = g[opsLog[o][k]]
  OBVIOUS
<1>4. opsLog'[o] = aged /\ \A p \in Ops \ {o} : opsLog'[p] = opsLog[p]
  BY <1>1
<1>5. opsLog' \in [Ops -> Seq(OpsObj)]
  BY <1>1, <1>2
<1> HIDE DEF aged
<1>6. LogsOK'
  BY <1>2, <1>4, <1>5, TypeParts DEF LogsOK
<1>7. Op(o)' = g[Op(o)]
  BY <1>1, <1>2, <1>3, <1>4 DEF Op, Stored
<1> QED BY <1>2, <1>3, <1>4, <1>6, <1>7 DEF Op

\* A write of the cluster object, and its arrival in the cache.
LEMMA ClusterWritten ==
  ASSUME TypeInv, NEW c \in ClusterObj, Room(clusterLog, MaxLag),
         clusterLog' = Written(clusterLog, c)
  PROVE  /\ LockOK' /\ Stored(clusterLog') = c /\ Cached(clusterLog') = Cached(clusterLog)
         /\ Len(clusterLog') = Len(clusterLog) + 1
         /\ clusterLog'[Len(clusterLog) + 1] = c
         /\ \A k \in 1..Len(clusterLog) : clusterLog'[k] = clusterLog[k]
<1>1. MaxLag \in Nat /\ Len(clusterLog) <= MaxLag /\ Len(clusterLog) \in Nat \ {0}
  BY Bounds, ClusterEnds DEF Room
<1>2. /\ clusterLog' \in Seq(ClusterObj) /\ Len(clusterLog') = Len(clusterLog) + 1
      /\ Stored(clusterLog') = c /\ Cached(clusterLog') = Cached(clusterLog)
      /\ \A k \in 1..Len(clusterLog) : clusterLog'[k] = clusterLog[k]
  BY ClusterEnds, LogWritten
<1>3. clusterLog'[Len(clusterLog) + 1] = c
  BY <1>2 DEF Stored
<1> QED BY <1>1, <1>2, <1>3 DEF LockOK

LEMMA ClusterDelivered ==
  ASSUME TypeInv, DeliverCluster
  PROVE  /\ LockOK' /\ Stored(clusterLog') = Stored(clusterLog)
         /\ Len(clusterLog') = Len(clusterLog) - 1
         /\ \A k \in 1..Len(clusterLog') :
              k + 1 \in 1..Len(clusterLog) /\ clusterLog'[k] = clusterLog[k + 1]
<1>1. /\ clusterLog' = Delivered(clusterLog) /\ Len(clusterLog) > 1 /\ MaxLag \in Nat
      /\ Len(clusterLog) <= MaxLag + 1 /\ Len(clusterLog) \in Nat
  BY Bounds, TypeParts DEF DeliverCluster, LockOK
<1>2. /\ clusterLog' \in Seq(ClusterObj) /\ Len(clusterLog') = Len(clusterLog) - 1
      /\ Stored(clusterLog') = Stored(clusterLog)
      /\ \A i \in 1..Len(clusterLog') : clusterLog'[i] = clusterLog[i + 1]
  BY <1>1, ClusterEnds, LogDelivered
<1> QED BY <1>1, <1>2 DEF LockOK
LEMMA PassFields ==
  ASSUME TypeInv
  PROVE  /\ pass \in PassObj /\ PassFits(pass) /\ queue \subseteq Ops
         /\ ~At("idle") => /\ pass.op \in DOMAIN Action /\ pass.op \in Ops
                           /\ Action[pass.op] \in Actions /\ Fits(pass.op, pass.obj)
         /\ pass.obj \in OpsObj /\ pass.fresh \in BOOLEAN /\ pass.list \in Plans
         /\ pass.do \in Doings \cup {""}
<1>1. PassOK /\ queue \subseteq Ops /\ env \in Envs
  BY TypeParts
<1>2. /\ pass \in PassObj /\ PassFits(pass)
      /\ ~At("idle") => pass.op \in DOMAIN Action /\ Fits(pass.op, pass.obj)
  BY <1>1 DEF PassOK, PassFits, At
<1>3. /\ pass.obj \in OpsObj /\ pass.fresh \in BOOLEAN /\ pass.list \in Plans
      /\ pass.do \in Doings \cup {""}
  BY <1>2 DEF PassObj, Doings
<1> QED BY <1>1, <1>2, <1>3, EnvType

\* The pass p is one the worker can be running.
LEMMA PassIs ==
  ASSUME NEW p \in PassObj, PassFits(p), pass' = p, UNCHANGED env
  PROVE  PassOK'
  BY ZenonT(30) DEF PassOK, PassFits, WriteFits, Fits, Rolls, Action

LEMMA IdleSpot ==
  /\ Idle.pc = "idle" /\ Idle.fresh = FALSE /\ Idle.op = NoOp /\ Idle.then = ""
  /\ Idle.list = <<>> /\ Idle.obj = NewOp /\ Idle.do = "" /\ Idle.arg = ""
  BY DEF Idle

LEMMA NewTypes == NewOp \in OpsObj /\ Idle \in PassObj
<1>1. NewOp \in OpsObj
  BY NoPlan, Bounds DEF NewOp, OpsObj, Phases, Steps, Leases, N
<1>2. Idle \in PassObj
  BY <1>1, NoPlan DEF Idle, PassObj, Steps
<1> QED BY <1>1, <1>2

LEMMA IdleOK ==
  ASSUME pass' = Idle, UNCHANGED env
  PROVE  PassOK'
<1>1. PassFits(Idle)
  BY IdleSpot DEF PassFits
<1> QED BY <1>1, NewTypes, PassIs

\* The same operation, read at the same time, at another point of the pass.
Held == pass'.op = pass.op /\ pass'.obj = pass.obj /\ pass'.fresh = pass.fresh

\* The pass is about to write.
Sent(do, arg, then) ==
  /\ Held /\ pass'.pc = "write" /\ pass'.do = do /\ pass'.arg = arg /\ pass'.then = then

\* The pass has gone on.
GoesTo(pc) ==
  /\ Held /\ pass'.pc = pc /\ pass'.then = pass.then /\ pass'.do = pass.do
  /\ pass'.list = pass.list

\* What a piece of a pass leaves: a pass and a queue of the right type.
Settles == PassOK' /\ queue' \subseteq Ops

LEMMA EndMoves ==
  ASSUME TypeInv, ~At("idle"), NEW b \in BOOLEAN, End(b), UNCHANGED env
  PROVE  Settles /\ pass' = Idle
<1>1. pass' = Idle /\ queue' \subseteq Ops
  BY PassFields DEF End
<1> QED BY <1>1, IdleOK DEF Settles

LEMMA GotoMoves ==
  ASSUME TypeInv, ~At("idle"), NEW pc \in {"step", "claim", "drop"}, Goto(pc), UNCHANGED env,
         pc = "claim" => (Rolls(pass.op) => AtNode(pass.obj))
  PROVE  Settles /\ GoesTo(pc)
<1>1. /\ pass' = [pass EXCEPT !.pc = pc] /\ queue' \subseteq Ops
      /\ pass \in PassObj /\ pass.op \in DOMAIN Action /\ Fits(pass.op, pass.obj)
  BY PassFields DEF Goto
<1> DEFINE p == [pass EXCEPT !.pc = pc]
<1>2. p \in PassObj /\ p.pc = pc /\ p.op = pass.op /\ p.obj = pass.obj
  BY <1>1 DEF PassObj
<1>3. GoesTo(pc)
  BY <1>1 DEF PassObj, Held, GoesTo
<1> HIDE DEF p
<1>4. PassFits(p)
  BY <1>1, <1>2 DEF PassFits
<1> QED BY <1>1, <1>2, <1>3, <1>4, PassIs DEF Settles, p

Args == Steps \cup Phases \cup {"skip"}
Thens == {"", "end", "drop", "step", "walk", "requeue", "release", "refuse", "retry",
          "succeed"}
Points == {"idle", "finalizer", "lock", "step", "walk", "claim", "call", "write",
           "release", "drop"}

LEMMA PassType ==
  PassObj = [pc : Points, op : Ops \cup {NoOp}, obj : OpsObj, fresh : BOOLEAN,
             do : Doings \cup {""}, arg : Args, list : Plans, then : Thens]
<1>1. Doings \cup {""} = {"", "run", "hold", "note", "record", "plan", "next", "walked",
                         "retry", "finish"}
  BY DEF Doings
<1> QED BY <1>1 DEF PassObj, Points, Args, Thens

LEMMA WriteMoves ==
  ASSUME TypeInv, ~At("idle"), UNCHANGED env, NEW do \in Doings, NEW arg \in Args, NEW then,
         WriteFits(do, arg, then, pass.op, pass.obj), WriteThen(do, arg, then)
  PROVE  Settles /\ Sent(do, arg, then) /\ pass'.list = pass.list
<1>1. /\ pass' = [pass EXCEPT !.pc = "write", !.do = do, !.arg = arg, !.then = then]
      /\ queue' \subseteq Ops /\ pass \in PassObj /\ pass.op \in DOMAIN Action
      /\ Fits(pass.op, pass.obj)
  BY PassFields DEF WriteThen
<1>2. then \in {"requeue", "step", "walk", "succeed", "release", "refuse"}
  BY DEF WriteFits
<1> DEFINE p == [pass EXCEPT !.pc = "write", !.do = do, !.arg = arg, !.then = then]
<1>3. /\ p \in PassObj /\ p.pc = "write" /\ p.do = do /\ p.arg = arg /\ p.then = then
      /\ p.op = pass.op /\ p.obj = pass.obj /\ p.fresh = pass.fresh /\ p.list = pass.list
  <2>1. then \in Thens /\ "write" \in Points
    BY <1>2 DEF Thens, Points
  <2> QED BY <1>1, <2>1, PassType
<1> HIDE DEF p
<1>4. PassFits(p)
  BY <1>1, <1>3 DEF PassFits
<1>5. pass' = p
  BY <1>1 DEF p
<1> QED BY <1>1, <1>3, <1>4, <1>5, PassIs DEF Settles, Sent, Held

\* A message: the pass ends, or goes on to write it.
LEMMA SayMoves ==
  ASSUME TypeInv, ~At("idle"), UNCHANGED env, NEW do \in {"hold", "note"}, Say(do)
  PROVE  Settles /\ (pass' = Idle \/ (Sent(do, "", "requeue") /\ pass'.list = pass.list))
<1>1. CASE WriteThen(do, "", "requeue")
  <2>1. WriteFits(do, "", "requeue", pass.op, pass.obj)
    BY DEF WriteFits
  <2> QED BY <1>1, <2>1, WriteMoves DEF Doings, Args, Steps
<1>2. CASE End(TRUE)
  BY <1>2, EndMoves
<1> QED BY <1>1, <1>2 DEF Say

LEMMA FinishMoves ==
  ASSUME TypeInv, ~At("idle"), UNCHANGED env, NEW ph \in {"Succeeded", "Failed", "Aborted"},
         NEW then \in {"release", "refuse"}, WriteThen("finish", ph, then),
         Rolls(pass.op) /\ ph = "Succeeded" => Planned(pass.obj)
  PROVE  Settles /\ Sent("finish", ph, then) /\ pass'.list = pass.list
<1>1. WriteFits("finish", ph, then, pass.op, pass.obj)
  BY DEF WriteFits
<1> QED BY <1>1, WriteMoves DEF Doings, Args, Phases

LEMMA RecordMoves ==
  ASSUME TypeInv, ~At("idle"), UNCHANGED env, NEW s \in StepsOf(Action[pass.op]), Record(s),
         Rolls(pass.op) /\ s # "CheckingPeers" => Planned(pass.obj)
  PROVE  Settles /\ Sent("record", s, "requeue") /\ pass'.list = pass.list
<1>1. s \in Args
  BY DEF Args, Steps, WorkSteps, StepsOf, RollSteps
<1>2. WriteFits("record", s, "requeue", pass.op, pass.obj)
  BY DEF WriteFits
<1> QED BY <1>1, <1>2, WriteMoves DEF Record, Doings

LEMMA RetryMoves ==
  ASSUME TypeInv, ~At("idle"), UNCHANGED env, Action[pass.op] = "Activate",
         WriteThen("retry", "Requesting", "requeue")
  PROVE  Settles /\ Sent("retry", "Requesting", "requeue")
<1>1. WriteFits("retry", "Requesting", "requeue", pass.op, pass.obj)
  BY DEF WriteFits
<1> QED BY <1>1, WriteMoves DEF Doings, Args, Steps, WorkSteps

LEMMA AtIndex ==
  ASSUME NEW v \in OpsObj, AtNode(v)
  PROVE  /\ v.index \in Nat \ {0} /\ Len(v.plan) \in Nat /\ v.index <= Len(v.plan)
         /\ Planned(v)
         /\ v.index + 1 > Len(v.plan) => v.index = Len(v.plan)
         /\ ~(v.index + 1 > Len(v.plan)) => v.index < Len(v.plan)
<1>1. v.index \in Nat /\ Len(v.plan) \in Nat
  BY ObjFields
<1> QED BY <1>1 DEF AtNode, Planned

\* Between its planning and its end the walk stands at a node.
LEMMA WalkSpot ==
  ASSUME NEW v \in OpsObj
  PROVE  /\ AtNode(v) <=> Planned(v) /\ ~WalkFinished(v)
         /\ Planned(v) => (WalkFinished(v) <=> v.index > Len(v.plan))
         /\ ~Planned(v) <=> v.index = 0
<1>1. v.index \in Nat /\ Len(v.plan) \in Nat
  BY ObjFields
<1> QED BY <1>1 DEF AtNode, Planned, WalkFinished

\* The walk leaves its node, for the next one or for its end.
Leaves(skip) ==
  \/ Sent("walked", skip, "succeed") /\ pass.obj.index = Len(pass.obj.plan)
  \/ Sent("next", skip, "requeue") /\ pass.obj.index < Len(pass.obj.plan)

LEMMA AdvanceWalkMoves ==
  ASSUME TypeInv, ~At("idle"), UNCHANGED env, NEW skip \in {"", "skip"}, AdvanceWalk(skip),
         Rolls(pass.op), AtNode(pass.obj)
  PROVE  Settles /\ Leaves(skip)
<1>1. skip \in Args
  BY DEF Args, Steps
<1>2. /\ pass.obj.index + 1 > Len(pass.obj.plan) => pass.obj.index = Len(pass.obj.plan)
      /\ ~(pass.obj.index + 1 > Len(pass.obj.plan)) => pass.obj.index < Len(pass.obj.plan)
  BY PassFields, AtIndex
<1>3. CASE pass.obj.index + 1 > Len(pass.obj.plan)
  <2>1. WriteFits("walked", skip, "succeed", pass.op, pass.obj)
    BY DEF WriteFits
  <2>2. WriteThen("walked", skip, "succeed")
    BY <1>3 DEF AdvanceWalk
  <2>3. Settles /\ Sent("walked", skip, "succeed")
    BY <1>1, <2>1, <2>2, WriteMoves DEF Doings
  <2> QED BY <1>2, <1>3, <2>3, Zenon DEF Leaves
<1>4. CASE ~(pass.obj.index + 1 > Len(pass.obj.plan))
  <2>1. WriteFits("next", skip, "requeue", pass.op, pass.obj)
    BY DEF WriteFits
  <2>2. WriteThen("next", skip, "requeue")
    BY <1>4 DEF AdvanceWalk
  <2>3. Settles /\ Sent("next", skip, "requeue")
    BY <1>1, <2>1, <2>2, WriteMoves DEF Doings
  <2> QED BY <1>2, <1>4, <2>3, Zenon DEF Leaves
<1> QED BY <1>3, <1>4
\* The steps of an operation go with its action.
LEMMA StepFacts ==
  ASSUME TypeInv, ~At("idle")
  PROVE  LET s == pass.obj.step  a == Action[pass.op] IN
         /\ s \in {"Requesting", "Awaiting"} =>
              a \in {"Activate", "Expand", "Shutdown", "Start", "CancelTask"}
         /\ s \in {"ShuttingDown", "Starting"} => a = "Restart"
         /\ s \in RollSteps => a = "RollingRestart"
         /\ InitialStep(a) \in StepsOf(a)
         /\ a = "RollingRestart" <=> InitialStep(a) = "CheckingPeers"
         /\ Rolls(pass.op) /\ ~Planned(pass.obj) => s \in {"", "CheckingPeers"}
<1>1. Action[pass.op] \in Actions /\ Fits(pass.op, pass.obj) /\ pass.obj.index \in Nat
  <2>1. pass.obj \in OpsObj
    BY PassFields
  <2> QED BY <2>1, PassFields, ObjFields
<1>2. Rolls(pass.op) /\ ~Planned(pass.obj) => pass.obj.step \in {"", "CheckingPeers"}
  <2>1. ~Planned(pass.obj) => pass.obj.index = 0
    BY <1>1 DEF Planned
  <2> QED BY <1>1, <2>1 DEF Fits
<1> QED BY <1>1, <1>2 DEF Fits, StepsOf, RollSteps, Actions, InitialStep

\* The pass takes up the node its walk stands at.
Walks ==
  /\ Held /\ pass'.pc = "walk" /\ pass'.arg = pass.obj.step /\ pass'.then = pass.then
  /\ pass'.do = pass.do /\ pass'.list = pass.list

\* How a pass goes on from the step it restored.
Advanced ==
  LET v == pass.obj  o == pass.op  a == Action[pass.op] IN
  \/ pass' = Idle
  \/ v.step = "" /\ Sent("record", InitialStep(a), "requeue")
  \/ /\ v.step # "" /\ (Abortable(v.step) \/ v.late \/ May("fatal") \/ v.step = "Awaiting")
     /\ \E ph \in {"Failed", "Aborted"} : Sent("finish", ph, "release")
  \/ /\ Sent("finish", "Succeeded", "release")
     /\ \/ Rolls(o) /\ WalkFinished(v)
        \/ ~Rolls(o) /\ v.step \in {"Awaiting", "Starting"}
  \/ /\ ~May("fatal") /\ v.step # ""
     /\ \/ Sent("note", "", "requeue")
        \/ /\ ~Rolls(o) /\ v.step \in {"Requesting", "ShuttingDown"}
           /\ Sent("record", NextStep(v.step), "requeue")
        \/ /\ a = "Activate" /\ v.step = "Awaiting" /\ LostAttempt(v)
           /\ Sent("retry", "Requesting", "requeue")
        \/ /\ ~Rolls(o) /\ v.step \in {"Requesting", "ShuttingDown", "Starting"}
           /\ a = "Activate" => clSeen.status \notin {"active", "in_activation"}
           /\ GoesTo("claim")
        \/ Rolls(o) /\ AtNode(v) /\ Walks
        \/ /\ Rolls(o) /\ ~Planned(v) /\ v.step = "CheckingPeers"
           /\ Sent("plan", "CheckingPeers", "walk")

LEMMA PlanWalkMoves ==
  ASSUME TypeInv, ~At("idle"), UNCHANGED env, PlanWalk, Rolls(pass.op),
         pass.obj.step = "CheckingPeers"
  PROVE  Settles /\ Sent("plan", "CheckingPeers", "walk")
<1>1. PICK list \in Orders({n \in Nodes : ~Leaving(seen[n])}) :
        pass' = [pass EXCEPT !.pc = "write", !.do = "plan", !.arg = pass.obj.step,
                             !.list = list, !.then = "walk"]
  BY DEF PlanWalk
<1>2. list \in Plans
  BY OrdersArePlans
<1>3. /\ pass \in PassObj /\ pass.op \in DOMAIN Action /\ Fits(pass.op, pass.obj)
      /\ queue' \subseteq Ops
  BY PassFields DEF PlanWalk
<1> DEFINE p == [pass EXCEPT !.pc = "write", !.do = "plan", !.arg = "CheckingPeers",
                             !.list = list, !.then = "walk"]
<1>4. /\ p \in PassObj /\ p.pc = "write" /\ p.do = "plan" /\ p.arg = "CheckingPeers"
      /\ p.then = "walk" /\ p.op = pass.op /\ p.obj = pass.obj /\ p.fresh = pass.fresh
  <2>1. "write" \in Points /\ "plan" \in Doings /\ "CheckingPeers" \in Args /\ "walk" \in Thens
    BY DEF Points, Doings, Args, Steps, WorkSteps, Thens
  <2> QED BY <1>2, <1>3, <2>1, PassType
<1>5. pass' = p
  BY <1>1
<1> HIDE DEF p
<1>6. PassFits(p)
  BY <1>3, <1>4 DEF PassFits, WriteFits
<1> QED BY <1>3, <1>4, <1>5, <1>6, PassIs DEF Settles, Sent, Held

LEMMA WalksMoves ==
  ASSUME TypeInv, ~At("idle"), UNCHANGED <<env, queue>>, Rolls(pass.op), AtNode(pass.obj),
         pass.obj.step # "", pass' = [pass EXCEPT !.pc = "walk", !.arg = pass.obj.step]
  PROVE  Settles /\ Walks
<1>1. /\ pass \in PassObj /\ pass.op \in DOMAIN Action /\ Fits(pass.op, pass.obj)
      /\ queue' \subseteq Ops /\ pass.obj \in OpsObj
  BY PassFields
<1>2. pass.obj.step \in RollSteps \cup {"Completed"} /\ pass.obj.step \in Args
  BY <1>1 DEF Fits, StepsOf, Rolls, Args, Steps, WorkSteps, RollSteps
<1>3. Planned(pass.obj)
  BY <1>1, AtIndex DEF Planned
<1> DEFINE p == [pass EXCEPT !.pc = "walk", !.arg = pass.obj.step]
<1>4. /\ p \in PassObj /\ p.pc = "walk" /\ p.arg = pass.obj.step
      /\ p.then = pass.then /\ p.op = pass.op /\ p.obj = pass.obj /\ p.fresh = pass.fresh
      /\ p.do = pass.do /\ p.list = pass.list
  <2>1. "walk" \in Points
    BY DEF Points
  <2> QED BY <1>1, <1>2, <2>1, PassType
<1>5. pass' = p
  OBVIOUS
<1> HIDE DEF p
<1>6. PassFits(p)
  BY <1>1, <1>2, <1>3, <1>4 DEF PassFits
<1> QED BY <1>1, <1>4, <1>5, <1>6, PassIs DEF Settles, Walks, Held

LEMMA PerformMoves ==
  ASSUME TypeInv, At("step"), UNCHANGED env, Perform, pass.obj.step # "", ~May("fatal"),
         ~(Rolls(pass.op) /\ WalkFinished(pass.obj))
  PROVE  Settles /\ Advanced
<1> DEFINE v == pass.obj
           a == Action[pass.op]
<1>0. ~At("idle")
  BY DEF At
<1>1. CASE v.step = "Requesting" /\ Request
  <2>1. a \in {"Activate", "Expand", "Shutdown", "Start", "CancelTask"} /\ ~Rolls(pass.op)
    BY <1>0, <1>1, StepFacts DEF Rolls
  <2>2. CASE Record(NextStep("Requesting"))
    <3>1. NextStep("Requesting") = "Awaiting" /\ "Awaiting" \in StepsOf(a)
      BY <2>1 DEF NextStep, StepsOf
    <3>2. Settles /\ Sent("record", NextStep("Requesting"), "requeue")
      BY <1>0, <2>1, <2>2, <3>1, RecordMoves
    <3> QED BY <1>1, <2>1, <3>2 DEF Advanced
  <2>3. CASE Goto("claim") /\ (a = "Activate" => clSeen.status \notin {"active", "in_activation"})
    <3>1. Settles /\ GoesTo("claim")
      BY <1>0, <2>1, <2>3, GotoMoves
    <3> QED BY <1>1, <2>1, <2>3, <3>1 DEF Advanced
  <2> QED BY <1>1, <2>1, <2>2, <2>3 DEF Request
<1>2. CASE v.step = "Awaiting" /\ Await
  <2>1. ~Rolls(pass.op)
    BY <1>0, <1>2, StepFacts DEF Rolls
  <2>2. CASE Finish("Succeeded")
    <3>1. Settles /\ Sent("finish", "Succeeded", "release")
      BY <1>0, <2>1, <2>2, FinishMoves DEF Finish
    <3> QED BY <1>2, <2>1, <3>1 DEF Advanced
  <2>3. CASE Finish("Failed")
    <3>1. Settles /\ Sent("finish", "Failed", "release")
      BY <1>0, <2>3, FinishMoves DEF Finish
    <3> QED BY <1>2, <3>1 DEF Advanced
  <2>4. CASE a = "Activate" /\ LostAttempt(v) /\ WriteThen("retry", "Requesting", "requeue")
    <3>1. Settles /\ Sent("retry", "Requesting", "requeue")
      BY <1>0, <2>4, RetryMoves
    <3> QED BY <1>2, <2>4, <3>1 DEF Advanced
  <2>5. CASE Say("note")
    BY <1>0, <2>5, SayMoves DEF Advanced
  <2> QED BY <1>2, <2>2, <2>3, <2>4, <2>5 DEF Await
<1>3. CASE v.step \in {"ShuttingDown", "Starting"} /\ Restart(v.step)
  <2>1. a = "Restart" /\ ~Rolls(pass.op)
    BY <1>0, <1>3, StepFacts DEF Rolls
  <2>2. CASE v.step = "ShuttingDown" /\ Record(NextStep(v.step))
    <3>1. NextStep(v.step) = "Starting" /\ "Starting" \in StepsOf(a)
      BY <2>1, <2>2 DEF NextStep, StepsOf
    <3>2. Settles /\ Sent("record", NextStep(v.step), "requeue")
      BY <1>0, <2>1, <2>2, <3>1, RecordMoves
    <3> QED BY <2>1, <2>2, <3>2 DEF Advanced
  <2>3. CASE v.step = "Starting" /\ Finish("Succeeded")
    <3>1. Settles /\ Sent("finish", "Succeeded", "release")
      BY <1>0, <2>1, <2>3, FinishMoves DEF Finish
    <3> QED BY <2>1, <2>3, <3>1 DEF Advanced
  <2>4. CASE Goto("claim")
    <3>1. Settles /\ GoesTo("claim")
      BY <1>0, <2>1, <2>4, GotoMoves
    <3> QED BY <1>3, <2>1, <3>1 DEF Advanced
  <2> QED BY <1>3, <2>2, <2>3, <2>4 DEF Restart
<1>4. CASE /\ Rolls(pass.op) /\ Planned(v) /\ UNCHANGED queue
           /\ pass' = [pass EXCEPT !.pc = "walk", !.arg = v.step]
  <2>1. AtNode(v)
    BY <1>4, PassFields, WalkSpot
  <2>2. Settles /\ Walks
    BY <1>0, <1>4, <2>1, WalksMoves
  <2> QED BY <1>4, <2>1, <2>2 DEF Advanced
<1>5. CASE Rolls(pass.op) /\ ~Planned(v) /\ PlanWalk
  <2>1. v.step = "CheckingPeers"
    BY <1>0, <1>5, StepFacts
  <2>2. Settles /\ Sent("plan", "CheckingPeers", "walk")
    BY <1>0, <1>5, <2>1, PlanWalkMoves
  <2> QED BY <1>5, <2>1, <2>2 DEF Advanced
<1>6. CASE Say("note")
  BY <1>0, <1>6, SayMoves DEF Advanced
<1> QED BY <1>1, <1>2, <1>3, <1>4, <1>5, <1>6 DEF Perform, Rolls

LEMMA AdvanceMoves ==
  ASSUME TypeInv, Advance, UNCHANGED env
  PROVE  Settles /\ Advanced
<1> DEFINE v == pass.obj
           a == Action[pass.op]
<1>0. ~At("idle") /\ At("step")
  BY DEF At, Advance
<1>1. CASE v.step = "" /\ Record(InitialStep(a))
  <2>1. InitialStep(a) \in StepsOf(a) /\ (Rolls(pass.op) => InitialStep(a) = "CheckingPeers")
    BY <1>0, StepFacts DEF Rolls
  <2>2. Settles /\ Sent("record", InitialStep(a), "requeue")
    BY <1>0, <1>1, <2>1, RecordMoves
  <2> QED BY <1>1, <2>2 DEF Advanced
<1>2. CASE /\ v.step # "" /\ (Abortable(v.step) \/ v.late \/ May("fatal"))
           /\ (Finish("Failed") \/ Finish("Aborted"))
  <2>1. Settles /\ \E ph \in {"Failed", "Aborted"} : Sent("finish", ph, "release")
    <3>1. CASE Finish("Failed")
      BY <1>0, <3>1, FinishMoves DEF Finish
    <3>2. CASE Finish("Aborted")
      BY <1>0, <3>2, FinishMoves DEF Finish
    <3> QED BY <1>2, <3>1, <3>2
  <2> QED BY <1>2, <2>1 DEF Advanced
<1>3. CASE Rolls(pass.op) /\ WalkFinished(v) /\ Finish("Succeeded")
  <2>1. Planned(v)
    BY <1>3 DEF WalkFinished, Planned
  <2>2. Settles /\ Sent("finish", "Succeeded", "release")
    BY <1>0, <1>3, <2>1, FinishMoves DEF Finish
  <2> QED BY <1>3, <2>2 DEF Advanced
<1>4. CASE v.step # "" /\ ~(Rolls(pass.op) /\ WalkFinished(v)) /\ ~May("fatal") /\ Perform
  BY <1>0, <1>4, PerformMoves
<1>5. CASE v.step # "" /\ May("fatal") /\ Perform
  <2>1. Finish("Failed")
    BY <1>5 DEF Perform
  <2> QED BY <1>2, <1>5, <2>1
<1> QED BY <1>1, <1>2, <1>3, <1>4, <1>5 DEF Advance, TimeoutReached, Rolls
\* How a pass goes on from the node its walk stands at.
Walked ==
  LET v == pass.obj
      s == pass.arg
      n == v.plan[v.index]
  IN \/ pass' = Idle
     \/ Sent("note", "", "requeue")
     \/ /\ ~AtNode(v) /\ s = "CheckingPeers"
        /\ Sent("record", "ShuttingDownNode", "requeue")
     \/ /\ AtNode(v) /\ ~Leaving(seen[n]) /\ s \in RollSteps \ {"Rebalancing"}
        /\ s = "CheckingPeers" => CheckPeers(n)
        /\ s = "ShuttingDownNode" => seen[n] \in {"offline", "in_restart"}
        /\ s = "RestartingNode" => seen[n] = "online"
        /\ Sent("record", NextStep(s), "requeue")
     \/ /\ AtNode(v)
        /\ \/ s = "ShuttingDownNode" /\ seen[n] = "online"
           \/ s = "RestartingNode" /\ seen[n] \in {"offline", "in_shutdown"}
        /\ GoesTo("claim")
     \/ AtNode(v) /\ Leaving(seen[n]) /\ Leaves("skip")
     \/ AtNode(v) /\ s = "Rebalancing" /\ Rebalanced /\ Leaves("")

LEMMA NextOfRoll ==
  ASSUME NEW s \in RollSteps \ {"Rebalancing"}
  PROVE  /\ NextStep(s) \in RollSteps \ {"CheckingPeers"}
         /\ NextStep(s) = "Rebalancing" <=> s = "RestartingNode"
         /\ NextStep(s) = "ShuttingDownNode" <=> s = "CheckingPeers"
  BY DEF NextStep, RollSteps

LEMMA WalkStepMoves ==
  ASSUME TypeInv, WalkStep, UNCHANGED env
  PROVE  Settles /\ Walked
<1> DEFINE v == pass.obj
           s == pass.arg
           n == v.plan[v.index]
<1>0. /\ ~At("idle") /\ At("walk") /\ Rolls(pass.op) /\ Planned(v)
      /\ s \in RollSteps \cup {"Completed"} /\ (~AtNode(v) => s = "CheckingPeers")
      /\ StepsOf(Action[pass.op]) = RollSteps
  <2>1. At("walk") /\ PassFits(pass)
    BY PassFields DEF WalkStep
  <2> QED BY <2>1 DEF PassFits, At, Rolls, StepsOf
<1>1. AtNode(v) <=> ~(v.index > Len(v.plan))
  BY <1>0, PassFields, WalkSpot
<1>2. CASE ~AtNode(v) /\ Record(NextStep(s))
  <2>1. NextStep(s) = "ShuttingDownNode" /\ "ShuttingDownNode" \in RollSteps
    BY <1>0, <1>2 DEF NextStep, RollSteps
  <2>2. Settles /\ Sent("record", "ShuttingDownNode", "requeue")
    BY <1>0, <1>2, <2>1, RecordMoves
  <2> QED BY <1>0, <1>2, <2>2 DEF Walked
<1>3. CASE AtNode(v) /\ Leaving(seen[n]) /\ AdvanceWalk("skip")
  <2>1. Settles /\ Leaves("skip")
    BY <1>0, <1>3, AdvanceWalkMoves
  <2> QED BY <1>3, <2>1 DEF Walked
<1>4. CASE /\ AtNode(v) /\ ~Leaving(seen[n]) /\ s \in RollSteps \ {"Rebalancing"}
           /\ s = "CheckingPeers" => CheckPeers(n)
           /\ s = "ShuttingDownNode" => seen[n] \in {"offline", "in_restart"}
           /\ s = "RestartingNode" => seen[n] = "online"
           /\ Record(NextStep(s))
  <2>1. NextStep(s) \in RollSteps
    BY <1>4, NextOfRoll
  <2>2. Settles /\ Sent("record", NextStep(s), "requeue")
    BY <1>0, <1>4, <2>1, RecordMoves
  <2> QED BY <1>4, <2>2 DEF Walked
<1>5. CASE /\ AtNode(v) /\ Goto("claim")
           /\ \/ s = "ShuttingDownNode" /\ seen[n] = "online"
              \/ s = "RestartingNode" /\ seen[n] \in {"offline", "in_shutdown"}
  <2>1. Settles /\ GoesTo("claim")
    BY <1>0, <1>5, GotoMoves
  <2> QED BY <1>5, <2>1 DEF Walked
<1>6. CASE AtNode(v) /\ s = "Rebalancing" /\ Rebalanced /\ AdvanceWalk("")
  <2>1. Settles /\ Leaves("")
    BY <1>0, <1>6, AdvanceWalkMoves
  <2> QED BY <1>6, <2>1 DEF Walked
<1>7. CASE Say("note")
  BY <1>0, <1>7, SayMoves DEF Walked
<1>8. CASE ~AtNode(v)
  BY <1>1, <1>2, <1>8 DEF WalkStep
<1>9. CASE AtNode(v) /\ Leaving(seen[n])
  BY <1>1, <1>3, <1>9 DEF WalkStep
<1>10. CASE AtNode(v) /\ ~Leaving(seen[n])
  <2>1. CASE s = "CheckingPeers" /\ DoneWhen(CheckPeers(n), s)
    BY <1>4, <1>7, <1>10, <2>1 DEF DoneWhen, RollSteps
  <2>2. CASE /\ s = "ShuttingDownNode"
             /\ IF seen[n] = "online" THEN Goto("claim")
                ELSE DoneWhen(seen[n] \in {"offline", "in_restart"}, s)
    BY <1>4, <1>5, <1>7, <1>10, <2>2 DEF DoneWhen, RollSteps
  <2>3. CASE s = "RefreshingPod" /\ DoneWhen(pods[n] \in {"none", "new", "ready"}, s)
    BY <1>4, <1>7, <1>10, <2>3 DEF DoneWhen, RollSteps
  <2>4. CASE s = "AwaitingPod" /\ DoneWhen(pods[n] = "ready", s)
    BY <1>4, <1>7, <1>10, <2>4 DEF DoneWhen, RollSteps
  <2>5. CASE /\ s = "RestartingNode"
             /\ IF seen[n] \in {"offline", "in_shutdown"} THEN Goto("claim")
                ELSE DoneWhen(seen[n] = "online", s)
    BY <1>4, <1>5, <1>7, <1>10, <2>5 DEF DoneWhen, RollSteps
  <2>6. CASE s = "Rebalancing" /\ IF Rebalanced THEN AdvanceWalk("") ELSE Say("note")
    BY <1>6, <1>7, <1>10, <2>6
  <2> QED BY <1>1, <1>10, <2>1, <2>2, <2>3, <2>4, <2>5, <2>6 DEF WalkStep
<1> QED BY <1>8, <1>9, <1>10

LEMMA WalkStepPods ==
  ASSUME TypeInv, WalkStep, UNCHANGED env
  PROVE  CpOK'
<1> DEFINE n == pass.obj.plan[pass.obj.index]
<1>1. pods \in [Nodes -> {"old", "going", "none", "new", "ready"}] /\ CpOK
  BY TypeParts DEF CpOK, CpTypes
<1>2. pods' \in [Nodes -> {"old", "going", "none", "new", "ready"}]
  <2>1. pods' = pods \/ pods' = [pods EXCEPT ![n] = IF @ = "old" THEN "going" ELSE @]
    BY DEF WalkStep
  <2> QED BY <1>1, <2>1
<1> QED BY <1>1, <1>2 DEF CpOK, Tally, CpTypes, WalkStep, Counted, history, streams

\* The read that begins a pass.
ReadAs(o) ==
  LET v == Cached(opsLog[o]) IN
  /\ o \in DOMAIN Action /\ pass'.op = o /\ pass'.obj = v /\ pass'.fresh = Current(opsLog[o])
  /\ v.exists /\ pass'.do = "" /\ pass'.list = <<>>
  /\ \/ pass'.pc = "release" /\ pass'.then = "drop" /\ v.deleted
     \/ /\ pass'.pc = "finalizer" /\ pass'.then = "end" /\ ~v.deleted /\ ~v.finalizer
     \/ pass'.pc = "release" /\ pass'.then = "end" /\ ~v.deleted /\ Terminal(v.phase)
     \/ /\ pass'.pc = "lock" /\ pass'.then = "end" /\ ~v.deleted /\ v.finalizer
        /\ ~Terminal(v.phase)

LEMMA ReconcileMoves ==
  ASSUME TypeInv, NEW o \in Ops, Reconcile(o), UNCHANGED env
  PROVE  Settles /\ (UNCHANGED pass \/ ReadAs(o))
<1> DEFINE v == Cached(opsLog[o])
           then == IF v.deleted THEN "drop" ELSE "end"
           pc == IF v.deleted THEN "release" ELSE IF ~v.finalizer THEN "finalizer"
                 ELSE IF Terminal(v.phase) THEN "release" ELSE "lock"
           fresh == Current(opsLog[o])
           p == [Idle EXCEPT !.op = o, !.obj = v, !.fresh = fresh, !.then = then, !.pc = pc]
<1>1. v \in OpsObj /\ queue' \subseteq Ops
  BY OpEnds, PassFields DEF Reconcile
<1>2. CASE UNCHANGED pass
  BY <1>1, <1>2, TypeKept DEF Settles
<1>3. CASE v.exists /\ pass' = p
  <2>1. o \in DOMAIN Action
    BY <1>3, TypeParts DEF Copies, Outsiders
  <2>2. Fits(o, v)
    <3>1. Len(opsLog[o]) \in Nat \ {0} /\ v = opsLog[o][1]
      BY OpEnds
    <3>2. 1 \in 1..Len(opsLog[o])
      BY <3>1
    <3> QED BY <2>1, <3>1, <3>2, TypeParts DEF Copies, Versions
  <2>3. fresh \in BOOLEAN /\ then \in Thens /\ pc \in Points
    BY DEF Current, Thens, Points
  <2>4. /\ pc # "idle" /\ pc \notin {"walk", "claim", "call", "write"}
        /\ pc = "release" => then \in {"drop", "end"}
    OBVIOUS
  <2>5. /\ Idle \in PassObj /\ Idle.do = "" /\ Idle.list = <<>>
    BY NewTypes, IdleSpot
  <2> HIDE DEF v, then, pc, fresh
  <2>6. /\ p \in PassObj /\ p.op = o /\ p.obj = v /\ p.fresh = fresh /\ p.then = then
        /\ p.pc = pc /\ p.do = "" /\ p.list = <<>>
    BY <1>1, <2>3, <2>5, PassType
  <2> HIDE DEF p
  <2>7. PassFits(p)
    BY <2>1, <2>2, <2>4, <2>6 DEF PassFits
  <2>8. PassOK'
    BY <1>3, <2>6, <2>7, PassIs
  <2>9. ReadAs(o)
    <3>1. /\ o \in DOMAIN Action /\ pass'.op = o /\ pass'.obj = v /\ pass'.fresh = fresh
          /\ v.exists /\ pass'.do = "" /\ pass'.list = <<>> /\ pass'.pc = pc /\ pass'.then = then
      BY <1>3, <2>1, <2>6
    <3> QED BY <3>1 DEF ReadAs, v, then, pc, fresh
  <2> QED BY <1>1, <2>8, <2>9 DEF Settles
<1> QED BY <1>2, <1>3 DEF Reconcile

\* What the pass makes of the lock.
Locks ==
  LET c == Cached(clusterLog)
      goes == \/ pass.obj.phase \in {"", "Pending"} /\ Sent("run", "", "step")
              \/ pass.obj.phase \notin {"", "Pending"} /\ GoesTo("step")
  IN \/ pass' = Idle /\ UNCHANGED clusterLog
     \/ ~c.exists /\ Sent("finish", "Failed", "refuse") /\ UNCHANGED clusterLog
     \/ Sent("hold", "", "requeue") /\ c.exists /\ UNCHANGED clusterLog
     \/ c.exists /\ c.lock = pass.op /\ goes /\ UNCHANGED clusterLog
     \/ /\ c.exists /\ c.lock = NoOp /\ Current(clusterLog) /\ Room(clusterLog, MaxLag)
        /\ clusterLog' = Written(clusterLog, [c EXCEPT !.lock = pass.op]) /\ goes

LEMMA AcquireLockMoves ==
  ASSUME TypeInv, AcquireLock, UNCHANGED env
  PROVE  Settles /\ Locks /\ LockOK'
<1> DEFINE c == Cached(clusterLog)
<1>0. ~At("idle") /\ At("lock") /\ pass.op \in Ops
  <2>1. ~At("idle") /\ At("lock")
    BY DEF AcquireLock, At
  <2> QED BY <2>1, PassFields
<1>1. c \in ClusterObj /\ [c EXCEPT !.lock = pass.op] \in ClusterObj
  <2>1. c \in ClusterObj
    BY ClusterEnds
  <2> QED BY <1>0, <2>1 DEF ClusterObj
<1>2. CASE ~c.exists /\ WriteThen("finish", "Failed", "refuse") /\ UNCHANGED clusterLog
  <2>1. Settles /\ Sent("finish", "Failed", "refuse")
    BY <1>0, <1>2, FinishMoves
  <2> QED BY <1>2, <2>1, TypeKept DEF Locks
<1>3. CASE c.exists /\ Say("hold") /\ UNCHANGED clusterLog
  <2>1. Settles /\ (pass' = Idle \/ Sent("hold", "", "requeue"))
    BY <1>0, <1>3, SayMoves
  <2> QED BY <1>3, <2>1, TypeKept DEF Locks
<1> DEFINE go == IF pass.obj.phase \in {"", "Pending"}
                   THEN WriteThen("run", "", "step") ELSE Goto("step")
           goes == \/ pass.obj.phase \in {"", "Pending"} /\ Sent("run", "", "step")
                   \/ pass.obj.phase \notin {"", "Pending"} /\ GoesTo("step")
<1>4. go => Settles /\ goes
  <2>1. CASE pass.obj.phase \in {"", "Pending"} /\ WriteThen("run", "", "step")
    <3>1. WriteFits("run", "", "step", pass.op, pass.obj)
      BY DEF WriteFits
    <3>2. Settles /\ Sent("run", "", "step")
      BY <1>0, <2>1, <3>1, WriteMoves DEF Doings, Args, Steps
    <3> QED BY <2>1, <3>2
  <2>2. CASE pass.obj.phase \notin {"", "Pending"} /\ Goto("step")
    BY <1>0, <2>2, GotoMoves
  <2> QED BY <2>1, <2>2
<1>5. CASE c.exists /\ c.lock = pass.op /\ go /\ UNCHANGED clusterLog
  BY <1>4, <1>5, TypeKept DEF Locks
<1>6. CASE /\ c.exists /\ c.lock = NoOp /\ Current(clusterLog) /\ Room(clusterLog, MaxLag)
           /\ clusterLog' = Written(clusterLog, [c EXCEPT !.lock = pass.op]) /\ go
  <2>1. LockOK'
    BY <1>1, <1>6, ClusterWritten
  <2> QED BY <1>4, <1>6, <2>1 DEF Locks
<1>7. CASE End(TRUE) /\ UNCHANGED clusterLog
  BY <1>0, <1>7, EndMoves, TypeKept DEF Locks
<1> QED BY <1>2, <1>3, <1>5, <1>6, <1>7 DEF AcquireLock, PatchLands
LEMMA WithStatusType ==
  ASSUME NEW w \in OpsObj, NEW v \in OpsObj
  PROVE  /\ WithStatus(w, v) \in OpsObj
         /\ SameMeta(WithStatus(w, v), w) /\ SameStatus(WithStatus(w, v), v)
  BY DEF WithStatus, OpsObj, SameMeta, SameStatus

\* What fits one version fits any other with the same status.
LEMMA SameFits ==
  ASSUME NEW v, NEW w, SameStatus(v, w)
  PROVE  /\ \A o : Fits(o, v) <=> Fits(o, w)
         /\ Planned(v) <=> Planned(w)
         /\ AtNode(v) <=> AtNode(w)
  BY DEF SameStatus, Fits, Planned, AtNode

\* The versions of an operation, and the objects nobody created, after a write.
LEMMA VersionsWritten ==
  ASSUME TypeInv, UNCHANGED env, NEW o \in DOMAIN Action, NEW v \in OpsObj, Fits(o, v),
         Planned(Op(o)) => Planned(v), Room(opsLog[o], MaxLag),
         opsLog' = [opsLog EXCEPT ![o] = Written(@, v)]
  PROVE  Versions' /\ Outsiders'
<1>0. o \in Ops /\ DOMAIN Action \subseteq Ops /\ Action' = Action
  BY TypeParts, EnvType DEF Action
<1>1. /\ Op(o)' = v /\ \A p \in Ops \ {o} : opsLog'[p] = opsLog[p] /\ Op(p)' = Op(p)
      /\ Len(opsLog'[o]) = Len(opsLog[o]) + 1
      /\ opsLog'[o][Len(opsLog[o]) + 1] = v
      /\ \A k \in 1..Len(opsLog[o]) : opsLog'[o][k] = opsLog[o][k]
      /\ Len(opsLog[o]) \in Nat \ {0}
  BY <1>0, OpWritten, OpEnds
<1>2. Versions
  BY TypeParts DEF Copies
<1>3. ASSUME NEW p \in DOMAIN Action, NEW i \in 1..Len(opsLog'[p])
      PROVE  Fits(p, opsLog'[p][i]) /\ (Planned(opsLog'[p][i]) => Planned(Op(p)'))
  <2>1. CASE p # o
    BY <1>0, <1>1, <1>2, <2>1 DEF Versions
  <2>2. CASE p = o /\ i \in 1..Len(opsLog[o])
    BY <1>1, <1>2, <2>2 DEF Versions
  <2>3. CASE p = o /\ i = Len(opsLog[o]) + 1
    BY <1>1, <2>3
  <2>4. p = o => i \in 1..Len(opsLog[o]) \/ i = Len(opsLog[o]) + 1
    BY <1>1
  <2> QED BY <2>1, <2>2, <2>3, <2>4
<1>4. Versions'
  BY <1>0, <1>3 DEF Versions, Fits, Rolls, Action
<1>5. Outsiders'
  <2>1. Outsiders
    BY TypeParts DEF Copies
  <2> QED BY <1>0, <1>1, <2>1 DEF Outsiders
<1> QED BY <1>4, <1>5

\* The copy the pass holds, when the pass ends or only moves on, and when another
\* writer's version lands.
LEMMA CopiesHeld ==
  ASSUME TypeInv, UNCHANGED <<env, opsLog>>, ~At("idle"),
         \/ pass' = Idle
         \/ Held /\ pass'.pc # "finalizer" /\ (pass'.then = "drop" => pass.then = "drop")
  PROVE  Copies'
<1>1. Versions /\ Outsiders /\ FreshIsStored /\ PlanKnown
  BY TypeParts DEF Copies
<1>2. Versions' /\ Outsiders'
  BY <1>1 DEF Versions, Outsiders, Fits, Rolls, Action, Op
<1>3. CASE pass' = Idle
  BY <1>2, <1>3, IdleSpot DEF Copies, FreshIsStored, PlanKnown, At
<1>4. CASE /\ Held /\ pass'.pc # "finalizer"
           /\ (pass'.then = "drop" => pass.then = "drop")
  BY <1>1, <1>2, <1>4 DEF Copies, FreshIsStored, PlanKnown, At, Held, Op
<1> QED BY <1>3, <1>4
\* A version that lands and leaves the pass idle, or without a current copy.
LEMMA CopiesWritten ==
  ASSUME TypeInv, UNCHANGED env, NEW o \in DOMAIN Action, NEW v \in OpsObj, Fits(o, v),
         Planned(Op(o)) => Planned(v), Room(opsLog[o], MaxLag),
         opsLog' = [opsLog EXCEPT ![o] = Written(@, v)],
         \/ pass' = Idle
         \/ /\ pass'.op = pass.op /\ pass'.obj = pass.obj /\ pass'.pc = pass.pc
            /\ pass'.then = pass.then /\ (pass'.fresh => pass.fresh /\ pass.op # o)
  PROVE  LogsOK' /\ Copies'
<1>0. o \in Ops /\ (~At("idle") => pass.op \in Ops)
  BY TypeParts, EnvType, PassFields
<1>1. /\ LogsOK' /\ Op(o)' = v /\ \A p \in Ops \ {o} : Op(p)' = Op(p)
  BY <1>0, OpWritten
<1>2. Versions' /\ Outsiders'
  BY VersionsWritten
<1>3. FreshIsStored /\ PlanKnown
  BY TypeParts DEF Copies
<1>4. CASE pass' = Idle
  BY <1>1, <1>2, <1>4, IdleSpot DEF Copies, FreshIsStored, PlanKnown, At
<1>5. CASE /\ pass'.op = pass.op /\ pass'.obj = pass.obj /\ pass'.pc = pass.pc
           /\ pass'.then = pass.then /\ (pass'.fresh => pass.fresh /\ pass.op # o)
  <2>1. CASE At("idle")
    BY <1>1, <1>2, <1>5, <2>1 DEF Copies, FreshIsStored, PlanKnown, At
  <2>2. CASE ~At("idle") /\ pass.op # o
    BY <1>0, <1>1, <1>2, <1>3, <1>5, <2>2 DEF Copies, FreshIsStored, PlanKnown, At
  <2>3. CASE ~At("idle") /\ pass.op = o
    BY <1>0, <1>1, <1>2, <1>3, <1>5, <2>3 DEF Copies, FreshIsStored, PlanKnown, At
  <2> QED BY <2>1, <2>2, <2>3
<1> QED BY <1>4, <1>5

\* A version with the status of the stored one fits as it does.
LEMMA StoredFits ==
  ASSUME TypeInv, NEW o \in DOMAIN Action
  PROVE  o \in Ops /\ Op(o) \in OpsObj /\ Fits(o, Op(o))
<1>1. o \in Ops
  BY TypeParts, EnvType
<1>2. /\ Op(o) \in OpsObj /\ Op(o) = opsLog[o][Len(opsLog[o])]
      /\ Len(opsLog[o]) \in Nat \ {0}
  BY <1>1, OpEnds
<1>3. Len(opsLog[o]) \in 1..Len(opsLog[o])
  BY <1>2
<1> QED BY <1>1, <1>2, <1>3, TypeParts DEF Copies, Versions

LEMMA RestatedFits ==
  ASSUME TypeInv, NEW o \in DOMAIN Action, NEW v, SameStatus(v, Op(o))
  PROVE  Fits(o, v) /\ (Planned(Op(o)) <=> Planned(v))
  BY StoredFits, SameFits

\* The writers of an operation's metadata.
LEMMA AddFinalizerMoves ==
  ASSUME TypeInv, AddFinalizer, UNCHANGED env
  PROVE  /\ Settles /\ LogsOK' /\ Copies' /\ pass' = Idle
         /\ \/ UNCHANGED opsLog
            \/ /\ pass.fresh /\ Room(opsLog[pass.op], MaxLag)
               /\ opsLog' = [opsLog EXCEPT ![pass.op] =
                               Written(@, [pass.obj EXCEPT !.finalizer = TRUE])]
               /\ pass.obj = Op(pass.op)
<1>0. ~At("idle") /\ At("finalizer")
  BY DEF AddFinalizer, At
<1>1. pass.op \in DOMAIN Action /\ pass.op \in Ops /\ pass.obj \in OpsObj
  BY <1>0, PassFields
<1>2. Settles /\ pass' = Idle
  <2>1. End(FALSE) \/ End(TRUE)
    BY DEF AddFinalizer
  <2> QED BY <1>0, <2>1, EndMoves
<1>3. CASE pass.fresh /\ Land([pass.obj EXCEPT !.finalizer = TRUE])
  <2> DEFINE v == [pass.obj EXCEPT !.finalizer = TRUE]
  <2>1. pass.obj = Op(pass.op)
    BY <1>0, <1>3, TypeParts DEF Copies, FreshIsStored
  <2>2. v \in OpsObj /\ SameStatus(v, pass.obj)
    BY <1>1 DEF OpsObj, SameStatus
  <2>3. Fits(pass.op, v) /\ (Planned(Op(pass.op)) => Planned(v))
    BY <1>1, <2>1, <2>2, RestatedFits
  <2>4. Room(opsLog[pass.op], MaxLag) /\ opsLog' = [opsLog EXCEPT ![pass.op] = Written(@, v)]
    BY <1>3 DEF Land
  <2>5. LogsOK' /\ Copies'
    BY <1>1, <1>2, <2>2, <2>3, <2>4, CopiesWritten
  <2> QED BY <1>2, <1>3, <2>1, <2>4, <2>5
<1>4. CASE UNCHANGED opsLog
  BY <1>0, <1>2, <1>4, TypeKept, CopiesHeld
<1> QED BY <1>3, <1>4 DEF AddFinalizer

LEMMA DropFinalizerMoves ==
  ASSUME TypeInv, DropFinalizer, UNCHANGED env
  PROVE  /\ Settles /\ LogsOK' /\ Copies' /\ pass' = Idle
         /\ \/ UNCHANGED opsLog
            \/ /\ pass.fresh /\ Room(opsLog[pass.op], MaxLag)
               /\ opsLog' = [opsLog EXCEPT ![pass.op] =
                               Written(@, [pass.obj EXCEPT !.exists = FALSE])]
               /\ SameStatus(pass.obj, Op(pass.op))
<1>0. ~At("idle") /\ At("drop")
  BY DEF DropFinalizer, At
<1>1. pass.op \in DOMAIN Action /\ pass.op \in Ops /\ pass.obj \in OpsObj
  BY <1>0, PassFields
<1>2. Settles /\ pass' = Idle
  <2>1. End(FALSE) \/ End(TRUE)
    BY DEF DropFinalizer
  <2> QED BY <1>0, <2>1, EndMoves
<1>3. CASE pass.fresh /\ Land([pass.obj EXCEPT !.exists = FALSE])
  <2> DEFINE v == [pass.obj EXCEPT !.exists = FALSE]
  <2>1. SameStatus(pass.obj, Op(pass.op))
    BY <1>0, <1>3, TypeParts DEF Copies, FreshIsStored
  <2>2. v \in OpsObj /\ SameStatus(v, pass.obj)
    BY <1>1 DEF OpsObj, SameStatus
  <2>3. SameStatus(v, Op(pass.op))
    BY <2>1, <2>2 DEF SameStatus
  <2>4. Fits(pass.op, v) /\ (Planned(Op(pass.op)) => Planned(v))
    BY <1>1, <2>3, RestatedFits
  <2>5. Room(opsLog[pass.op], MaxLag) /\ opsLog' = [opsLog EXCEPT ![pass.op] = Written(@, v)]
    BY <1>3 DEF Land
  <2>6. LogsOK' /\ Copies'
    BY <1>1, <1>2, <2>2, <2>4, <2>5, CopiesWritten
  <2> QED BY <1>2, <1>3, <2>1, <2>5, <2>6
<1>4. CASE UNCHANGED opsLog
  BY <1>0, <1>2, <1>4, TypeKept, CopiesHeld
<1> QED BY <1>3, <1>4 DEF DropFinalizer

\* The version a claim writes.
Claimed == [Op(pass.op) EXCEPT !.claim = "live"]

LEMMA ClaimMoves ==
  ASSUME TypeInv, Claim, UNCHANGED env
  PROVE  /\ Settles /\ LogsOK' /\ Copies'
         /\ \/ UNCHANGED opsLog /\ (pass' = Idle \/ Sent("note", "", "requeue"))
            \/ /\ pass.fresh /\ pass.obj.claim # "live" /\ Room(opsLog[pass.op], MaxLag)
               /\ Claimed \in OpsObj
               /\ opsLog' = [opsLog EXCEPT ![pass.op] = Written(@, Claimed)]
               /\ pass'.pc = "call" /\ pass'.op = pass.op /\ pass'.obj = Claimed
               /\ pass'.fresh = pass.fresh /\ pass'.then = pass.then
<1>0. ~At("idle") /\ At("claim")
  BY DEF Claim, At
<1>1. /\ pass.op \in DOMAIN Action /\ pass.op \in Ops /\ pass.obj \in OpsObj
      /\ pass \in PassObj /\ PassFits(pass) /\ Op(pass.op) \in OpsObj /\ queue \subseteq Ops
  BY <1>0, PassFields, OpEnds
<1>2. CASE Say("note") /\ UNCHANGED opsLog
  <2>1. Settles /\ (pass' = Idle \/ Sent("note", "", "requeue"))
    BY <1>0, <1>2, SayMoves
  <2>2. Copies'
    BY <1>0, <1>2, <2>1, CopiesHeld DEF Sent
  <2> QED BY <1>2, <2>1, <2>2, TypeKept
<1>3. CASE /\ pass.obj.claim # "live" /\ pass.fresh /\ Land(Claimed) /\ UNCHANGED queue
           /\ pass' = [pass EXCEPT !.obj = Claimed, !.pc = "call"]
  <2>1. /\ SameStatus(pass.obj, Op(pass.op))
        /\ pass.then = "drop" => pass.obj = Op(pass.op)
    BY <1>0, <1>3, TypeParts DEF Copies, FreshIsStored
  <2>2. /\ Claimed \in OpsObj /\ SameMeta(Claimed, Op(pass.op))
        /\ SamePlan(Claimed, Op(pass.op)) /\ Claimed.step = Op(pass.op).step
    BY <1>1 DEF Claimed, OpsObj, Leases, SameMeta, SamePlan
  <2>3. /\ Fits(pass.op, Claimed) /\ (Planned(Op(pass.op)) <=> Planned(Claimed))
        /\ AtNode(Claimed) <=> AtNode(pass.obj)
    BY <1>1, <2>1, <2>2, StoredFits DEF Fits, Planned, AtNode, SamePlan, SameStatus
  <2>4. Room(opsLog[pass.op], MaxLag) /\ opsLog' = [opsLog EXCEPT ![pass.op] = Written(@, Claimed)]
    BY <1>3 DEF Land
  <2> DEFINE p == [pass EXCEPT !.obj = Claimed, !.pc = "call"]
  <2>5. /\ p \in PassObj /\ p.pc = "call" /\ p.op = pass.op /\ p.obj = Claimed
        /\ p.fresh = pass.fresh /\ p.then = pass.then
    <3>1. "call" \in Points
      BY DEF Points
    <3> QED BY <1>1, <2>2, <3>1, PassType
  <2>6. pass' = p
    BY <1>3
  <2> HIDE DEF p
  <2>7. PassFits(p)
    BY <1>0, <1>1, <2>3, <2>5 DEF PassFits, At
  <2>8. Settles
    BY <1>1, <1>3, <2>5, <2>6, <2>7, PassIs DEF Settles
  <2>9. LogsOK' /\ Stored(opsLog'[pass.op]) = Claimed
    BY <1>1, <2>2, <2>4, OpWritten
  <2>10. Versions' /\ Outsiders'
    BY <1>1, <2>2, <2>3, <2>4, VersionsWritten
  <2>11. FreshIsStored' /\ PlanKnown'
    <3>1. Stored(opsLog'[pass'.op]) = Claimed
      BY <2>5, <2>6, <2>9
    <3>2. SameStatus(Claimed, Claimed)
      BY DEF SameStatus
    <3>3. pass'.pc = "call" /\ pass'.obj = Claimed /\ pass'.then = pass.then
      BY <2>5, <2>6
    <3> QED BY <3>1, <3>2, <3>3 DEF FreshIsStored, PlanKnown, At, Op
  <2> QED BY <1>3, <2>2, <2>4, <2>5, <2>6, <2>8, <2>9, <2>10, <2>11 DEF Copies
<1> QED BY <1>2, <1>3 DEF Claim, Claimed
\* The version a status write mutates, and what it makes of it.
WriteBase == IF pass.fresh THEN pass.obj ELSE Cached(opsLog[pass.op])
Mutated == Mutate(WriteBase, pass.do, pass.arg, pass.obj)

\* A status write that landed: on the stored status, whatever the pass had read.
Landed ==
  /\ Mutated \in OpsObj /\ Room(opsLog[pass.op], MaxLag)
  /\ WithStatus(Op(pass.op), Mutated) \in OpsObj
  /\ opsLog' = [opsLog EXCEPT ![pass.op] = Written(@, WithStatus(Op(pass.op), Mutated))]
  /\ SameStatus(WriteBase, Op(pass.op)) /\ WriteBase \in OpsObj
  /\ Mutates(WriteBase, Mutated, pass.do, pass.arg, pass.obj, pass.list)

\* What the pass does after it.
GoesOn ==
  \/ pass' = Idle /\ pass.then = "requeue"
  \/ /\ pass'.op = pass.op /\ pass'.obj = WithStatus(pass.obj, Mutated) /\ pass'.fresh = TRUE
     /\ \/ /\ pass.then \in {"step", "walk"} /\ pass'.pc = pass.then /\ pass'.then = "end"
           /\ pass'.arg = pass.arg
        \/ /\ pass.then = "succeed" /\ pass'.pc = "write" /\ pass'.do = "finish"
           /\ pass'.arg = "Succeeded" /\ pass'.then = "release"
        \/ pass.then = "release" /\ pass'.pc = "release" /\ pass'.then = "end"
        \/ pass.then = "refuse" /\ pass'.pc = "release" /\ pass'.then = "retry"

\* The mutated version fits the operation, and keeps its plan.
LEMMA MutatedFits ==
  ASSUME NEW o, NEW b \in OpsObj, NEW w, NEW do \in Doings, NEW arg, NEW then,
         NEW read \in OpsObj, NEW list,
         Mutates(b, w, do, arg, read, list), WriteFits(do, arg, then, o, read),
         Fits(o, b), Planned(read) => Planned(b)
  PROVE  Fits(o, w) /\ (Planned(b) => Planned(w)) /\ (do \in {"plan", "walked"} => Planned(w))
<1>0. read.index \in Nat
  BY ObjFields
<1>1. CASE do \in {"run", "hold", "note"}
  BY <1>1 DEF Mutates, SameStep, SamePlan, Fits, Planned
<1>2. CASE do = "record"
  <2>1. /\ w.step = arg /\ w.index = b.index /\ arg \in StepsOf(Action[o])
        /\ Rolls(o) /\ arg # "CheckingPeers" => Planned(b)
    BY <1>2 DEF Mutates, Entered, SamePlan, WriteFits
  <2>2. b.index = 0 => ~Planned(b)
    BY DEF Planned
  <2> QED BY <1>2, <2>1, <2>2 DEF Fits, Planned
<1>3. CASE do = "plan"
  <2>1. w.step = b.step /\ w.index = 1
    BY <1>3 DEF Mutates, SameStep
  <2>2. w.index # 0 /\ w.index > 0
    BY <2>1
  <2> QED BY <2>1, <2>2 DEF Fits, Planned
<1>4. CASE do \in {"next", "walked"}
  <2>1. w.index = read.index + 1 /\ (w.step = b.step \/ w.step = "CheckingPeers") /\ Rolls(o)
    BY <1>4 DEF Mutates, SameStep, Entered, StepsPast, WriteFits
  <2>2. w.index # 0 /\ w.index > 0
    BY <1>0, <2>1
  <2>3. "CheckingPeers" \in StepsOf(Action[o])
    BY <2>1 DEF Rolls, StepsOf, RollSteps
  <2> QED BY <2>1, <2>2, <2>3 DEF Fits, Planned
<1>5. CASE do = "retry"
  <2>1. w.step = "Requesting" /\ w.index = b.index /\ Action[o] = "Activate"
    BY <1>5 DEF Mutates, Entered, SamePlan, WriteFits
  <2> QED BY <1>5, <2>1 DEF Fits, Planned, Rolls, StepsOf
<1>6. CASE do = "finish" /\ arg = "Succeeded"
  <2>1. w.step = "Completed" /\ w.index = b.index /\ (Rolls(o) => Planned(b))
    BY <1>6 DEF Mutates, Entered, SamePlan, WriteFits
  <2>2. b.index = 0 => ~Planned(b)
    BY DEF Planned
  <2> QED BY <1>6, <2>1, <2>2 DEF Fits, Planned
<1>7. CASE do = "finish" /\ arg # "Succeeded"
  BY <1>7 DEF Mutates, SameStep, SamePlan, Fits, Planned
<1> QED BY <1>1, <1>2, <1>3, <1>4, <1>5, <1>6, <1>7 DEF Doings

LEMMA LandedFits ==
  ASSUME TypeInv, At("write"), pass.fresh \/ Current(opsLog[pass.op])
  PROVE  /\ WriteBase \in OpsObj /\ Mutated \in OpsObj /\ SameStatus(WriteBase, Op(pass.op))
         /\ WithStatus(Op(pass.op), Mutated) \in OpsObj
         /\ Mutates(WriteBase, Mutated, pass.do, pass.arg, pass.obj, pass.list)
         /\ Fits(pass.op, Mutated) /\ (Planned(Op(pass.op)) => Planned(Mutated))
         /\ pass.do \in {"plan", "walked"} => Planned(Mutated)
<1>0. ~At("idle")
  BY DEF At
<1>1. /\ pass.op \in DOMAIN Action /\ pass.op \in Ops /\ pass.obj \in OpsObj
      /\ PassFits(pass) /\ Op(pass.op) \in OpsObj /\ Cached(opsLog[pass.op]) \in OpsObj
      /\ Current(opsLog[pass.op]) => Cached(opsLog[pass.op]) = Op(pass.op)
      /\ Fits(pass.op, Op(pass.op)) /\ pass.list \in Plans /\ pass.do \in Doings \cup {""}
  BY <1>0, PassFields, OpEnds, StoredFits
<1>2. WriteFits(pass.do, pass.arg, pass.then, pass.op, pass.obj)
  BY <1>1 DEF PassFits, At
<1>3. FreshIsStored /\ PlanKnown
  BY TypeParts DEF Copies
<1>4. SameStatus(WriteBase, Op(pass.op)) /\ WriteBase \in OpsObj
  <2>1. CASE pass.fresh
    BY <1>0, <1>1, <1>3, <2>1 DEF WriteBase, FreshIsStored
  <2>2. CASE ~pass.fresh
    BY <1>1, <2>2 DEF WriteBase, SameStatus
  <2> QED BY <2>1, <2>2
<1>5. Fits(pass.op, WriteBase) /\ (Planned(Op(pass.op)) <=> Planned(WriteBase))
  BY <1>1, <1>4, RestatedFits
<1>6. pass.do \in Doings
  BY <1>1, <1>2 DEF WriteFits
<1>7. Mutates(WriteBase, Mutated, pass.do, pass.arg, pass.obj, pass.list)
  <2>1. pass.do \in {"record", "retry"} => pass.arg \in WorkSteps
    BY <1>2 DEF WriteFits, StepsOf, RollSteps, WorkSteps
  <2>2. pass.do = "finish" => pass.arg \in {"Succeeded", "Failed", "Aborted"}
    BY <1>2 DEF WriteFits
  <2>3. pass.do \in {"next", "walked"} => AtNode(pass.obj)
    BY <1>2 DEF WriteFits
  <2> QED BY <1>1, <1>4, <1>6, <2>1, <2>2, <2>3, MutateType DEF Mutated
<1>8. Mutated \in OpsObj
  BY <1>7 DEF Mutates
<1>9. /\ Fits(pass.op, Mutated) /\ (Planned(WriteBase) => Planned(Mutated))
      /\ pass.do \in {"plan", "walked"} => Planned(Mutated)
  <2>1. Planned(pass.obj) => Planned(WriteBase)
    BY <1>0, <1>3, <1>5 DEF PlanKnown
  <2> QED BY <1>1, <1>2, <1>4, <1>5, <1>6, <1>7, <2>1, MutatedFits
<1>10. WithStatus(Op(pass.op), Mutated) \in OpsObj
  BY <1>1, <1>8, WithStatusType
<1> QED BY <1>4, <1>5, <1>7, <1>8, <1>9, <1>10

LEMMA AfterWriteMoves ==
  ASSUME TypeInv, At("write"), UNCHANGED env, pass.fresh \/ Current(opsLog[pass.op]),
         AfterWrite(Mutated)
  PROVE  Settles /\ GoesOn
<1>0. ~At("idle")
  BY DEF At
<1>1. /\ pass.op \in DOMAIN Action /\ pass.obj \in OpsObj /\ pass \in PassObj
      /\ PassFits(pass) /\ queue \subseteq Ops
  BY <1>0, PassFields
<1>2. WriteFits(pass.do, pass.arg, pass.then, pass.op, pass.obj)
  BY <1>1 DEF PassFits, At
<1> DEFINE x == WithStatus(pass.obj, Mutated)
<1>3. /\ x \in OpsObj /\ SameStatus(x, Mutated) /\ Fits(pass.op, Mutated)
      /\ pass.do \in {"plan", "walked"} => Planned(Mutated)
  BY <1>1, LandedFits, WithStatusType
<1>4. /\ Fits(pass.op, x) /\ (pass.do \in {"plan", "walked"} => Planned(x))
  BY <1>3, SameFits
<1> DEFINE held == [pass EXCEPT !.obj = x, !.fresh = TRUE, !.do = "", !.list = <<>>]
<1> HIDE DEF x
<1>5. /\ held \in PassObj /\ held.op = pass.op /\ held.obj = x /\ held.fresh = TRUE
      /\ held.pc = "write" /\ held.arg = pass.arg
  <2>1. "" \in Doings \cup {""} /\ TRUE \in BOOLEAN
    OBVIOUS
  <2> QED BY <1>1, <1>3, <2>1, NoPlan, PassType DEF At
<1> HIDE DEF held
<1>6. CASE pass.then = "requeue"
  <2>1. End(TRUE)
    BY <1>6 DEF AfterWrite
  <2> QED BY <1>0, <1>6, <2>1, EndMoves DEF GoesOn
<1>7. CASE pass.then \in {"step", "walk"}
  <2>1. pass' = [held EXCEPT !.pc = pass.then, !.then = "end"] /\ UNCHANGED queue
    BY <1>7 DEF AfterWrite, held, x
  <2> DEFINE p == [held EXCEPT !.pc = pass.then, !.then = "end"]
  <2>2. /\ p \in PassObj /\ p.op = pass.op /\ p.obj = x /\ p.fresh = TRUE
        /\ p.pc = pass.then /\ p.then = "end" /\ p.arg = pass.arg
    <3>1. pass.then \in Points /\ "end" \in Thens
      BY <1>7 DEF Points, Thens
    <3> QED BY <1>5, <3>1, PassType
  <2>3. pass' = p
    BY <2>1
  <2> HIDE DEF p
  <2>4. PassFits(p)
    <3>1. CASE pass.then = "step"
      BY <1>1, <1>4, <2>2, <3>1 DEF PassFits
    <3>2. CASE pass.then = "walk"
      <4>1. pass.do = "plan" /\ pass.arg = "CheckingPeers" /\ Rolls(pass.op)
        BY <1>2, <3>2 DEF WriteFits
      <4> QED BY <1>1, <1>4, <2>2, <3>2, <4>1 DEF PassFits, RollSteps
    <3> QED BY <1>7, <3>1, <3>2
  <2> QED BY <1>1, <1>7, <2>1, <2>2, <2>3, <2>4, PassIs DEF Settles, GoesOn, x
<1>8. CASE pass.then = "succeed"
  <2>1. /\ pass' = [held EXCEPT !.do = "finish", !.arg = "Succeeded", !.then = "release"]
        /\ UNCHANGED queue
    BY <1>8 DEF AfterWrite, held, x
  <2> DEFINE p == [held EXCEPT !.do = "finish", !.arg = "Succeeded", !.then = "release"]
  <2>2. /\ p \in PassObj /\ p.op = pass.op /\ p.obj = x /\ p.fresh = TRUE
        /\ p.pc = "write" /\ p.then = "release" /\ p.arg = "Succeeded" /\ p.do = "finish"
    <3>1. "finish" \in Doings /\ "release" \in Thens /\ "Succeeded" \in Args
      BY DEF Doings, Thens, Args, Phases
    <3> QED BY <1>5, <3>1, PassType
  <2>3. pass' = p
    BY <2>1
  <2> HIDE DEF p
  <2>4. PassFits(p)
    <3>1. pass.do = "walked"
      BY <1>2, <1>8 DEF WriteFits
    <3>2. WriteFits("finish", "Succeeded", "release", pass.op, x)
      BY <1>4, <3>1 DEF WriteFits
    <3> QED BY <1>1, <1>4, <2>2, <3>2 DEF PassFits
  <2> QED BY <1>1, <1>8, <2>1, <2>2, <2>3, <2>4, PassIs DEF Settles, GoesOn, x
<1>9. CASE pass.then \in {"release", "refuse"}
  <2> DEFINE then == IF pass.then = "refuse" THEN "retry" ELSE "end"
  <2>1. pass' = [held EXCEPT !.pc = "release", !.then = then] /\ UNCHANGED queue
    BY <1>9 DEF AfterWrite, held, x
  <2> DEFINE p == [held EXCEPT !.pc = "release", !.then = then]
  <2>2. /\ then \in {"retry", "end"} /\ (pass.then = "refuse" => then = "retry")
        /\ pass.then = "release" => then = "end"
    OBVIOUS
  <2> HIDE DEF then
  <2>3. /\ p \in PassObj /\ p.op = pass.op /\ p.obj = x /\ p.fresh = TRUE
        /\ p.pc = "release" /\ p.then = then
    <3>1. "release" \in Points /\ then \in Thens
      BY <2>2 DEF Points, Thens
    <3> QED BY <1>5, <3>1, PassType
  <2>4. pass' = p
    BY <2>1
  <2> HIDE DEF p
  <2>5. PassFits(p)
    BY <1>1, <1>4, <2>2, <2>3 DEF PassFits
  <2> QED BY <1>1, <1>9, <2>1, <2>2, <2>3, <2>4, <2>5, PassIs DEF Settles, GoesOn, x
<1> QED BY <1>2, <1>6, <1>7, <1>8, <1>9 DEF WriteFits

LEMMA WriteStatusMoves ==
  ASSUME TypeInv, WriteStatus, UNCHANGED env
  PROVE  /\ Settles /\ LogsOK' /\ Copies'
         /\ (UNCHANGED opsLog /\ pass' = Idle) \/ (Landed /\ GoesOn)
<1>0. ~At("idle") /\ At("write")
  BY DEF WriteStatus, At
<1>1. /\ pass.op \in DOMAIN Action /\ pass.op \in Ops /\ pass.obj \in OpsObj
      /\ Op(pass.op) \in OpsObj
  BY <1>0, PassFields, OpEnds
<1>2. CASE End(TRUE) /\ UNCHANGED opsLog
  BY <1>0, <1>2, EndMoves, TypeKept, CopiesHeld
<1>3. CASE /\ pass.fresh \/ Current(opsLog[pass.op])
           /\ Land(WithStatus(Op(pass.op), Mutated)) /\ AfterWrite(Mutated)
  <2> DEFINE w == WithStatus(Op(pass.op), Mutated)
  <2>1. Settles /\ GoesOn
    BY <1>0, <1>3, AfterWriteMoves
  <2>2. /\ WriteBase \in OpsObj /\ Mutated \in OpsObj /\ SameStatus(WriteBase, Op(pass.op))
        /\ w \in OpsObj
        /\ Mutates(WriteBase, Mutated, pass.do, pass.arg, pass.obj, pass.list)
        /\ Fits(pass.op, Mutated) /\ (Planned(Op(pass.op)) => Planned(Mutated))
    BY <1>0, <1>3, LandedFits
  <2>3. Landed
    BY <1>3, <2>2 DEF Landed, Land
  <2>4. SameStatus(w, Mutated) /\ SameStatus(WithStatus(pass.obj, Mutated), Mutated)
    BY <1>1, <2>2, WithStatusType
  <2>5. Fits(pass.op, w) /\ (Planned(Op(pass.op)) => Planned(w))
    BY <2>2, <2>4, SameFits
  <2>6. Room(opsLog[pass.op], MaxLag) /\ opsLog' = [opsLog EXCEPT ![pass.op] = Written(@, w)]
    BY <1>3 DEF Land
  <2> HIDE DEF w
  <2>7. LogsOK' /\ Stored(opsLog'[pass.op]) = w
    BY <1>1, <2>2, <2>6, OpWritten
  <2>8. Versions' /\ Outsiders'
    BY <1>1, <2>2, <2>5, <2>6, VersionsWritten
  <2>9. FreshIsStored' /\ PlanKnown'
    <3>1. CASE pass' = Idle
      BY <3>1, IdleSpot DEF FreshIsStored, PlanKnown, At
    <3>2. CASE /\ pass'.op = pass.op /\ pass'.obj = WithStatus(pass.obj, Mutated)
               /\ pass'.pc \in {"step", "walk", "write", "release"} /\ pass'.then # "drop"
      <4>1. Stored(opsLog'[pass'.op]) = w
        BY <2>7, <3>2
      <4>2. SameStatus(pass'.obj, w)
        BY <2>4, <3>2 DEF SameStatus
      <4>3. Planned(pass'.obj) => Planned(w)
        BY <4>2, SameFits
      <4> QED BY <3>2, <4>1, <4>2, <4>3 DEF FreshIsStored, PlanKnown, At, Op
    <3> QED BY <2>1, <3>1, <3>2 DEF GoesOn
  <2> QED BY <2>1, <2>3, <2>7, <2>8, <2>9 DEF Copies
<1> QED BY <1>2, <1>3 DEF WriteStatus, WriteBase, Mutated, Op
\* The pass gives the cluster back, or finds it is not its own.
Releases ==
  LET c == Cached(clusterLog)
      goes == \/ pass.then = "drop" /\ GoesTo("drop")
              \/ pass.then # "drop" /\ pass' = Idle
  IN \/ ~Owned(c, pass.op) /\ goes /\ UNCHANGED clusterLog
     \/ /\ Owned(c, pass.op) /\ Current(clusterLog) /\ Room(clusterLog, MaxLag)
        /\ clusterLog' = Written(clusterLog, [c EXCEPT !.lock = NoOp])
        /\ goes
     \/ Owned(c, pass.op) /\ pass' = Idle /\ UNCHANGED clusterLog

LEMMA ReleaseLockMoves ==
  ASSUME TypeInv, ReleaseLock, UNCHANGED env
  PROVE  Settles /\ Releases /\ LockOK'
<1> DEFINE c == Cached(clusterLog)
<1>0. ~At("idle") /\ At("release")
  BY DEF ReleaseLock, At
<1>1. c \in ClusterObj /\ [c EXCEPT !.lock = NoOp] \in ClusterObj
  <2>1. c \in ClusterObj
    BY ClusterEnds
  <2> QED BY <2>1 DEF ClusterObj
<1> DEFINE go == IF pass.then = "drop" THEN Goto("drop") ELSE End(pass.then = "retry")
           goes == \/ pass.then = "drop" /\ GoesTo("drop")
                   \/ pass.then # "drop" /\ pass' = Idle
<1>2. go => Settles /\ goes
  <2>1. CASE pass.then = "drop" /\ Goto("drop")
    BY <1>0, <2>1, GotoMoves
  <2>2. CASE pass.then # "drop" /\ End(pass.then = "retry")
    <3>1. (pass.then = "retry") \in BOOLEAN
      OBVIOUS
    <3> QED BY <1>0, <2>2, <3>1, EndMoves
  <2> QED BY <2>1, <2>2
<1>3. CASE ~Owned(c, pass.op) /\ go /\ UNCHANGED clusterLog
  BY <1>2, <1>3, TypeKept DEF Releases
<1>4. CASE /\ Owned(c, pass.op) /\ Current(clusterLog) /\ Room(clusterLog, MaxLag)
           /\ clusterLog' = Written(clusterLog, [c EXCEPT !.lock = NoOp])
           /\ go
  <2>1. LockOK'
    BY <1>1, <1>4, ClusterWritten
  <2> QED BY <1>2, <1>4, <2>1 DEF Releases
<1>5. CASE Owned(c, pass.op) /\ End(TRUE) /\ UNCHANGED clusterLog
  BY <1>0, <1>5, EndMoves, TypeKept DEF Releases
<1> QED BY <1>3, <1>4, <1>5 DEF ReleaseLock

\* What a call leaves: an operation that was answered moves on, every other one waits.
Called ==
  \/ pass' = Idle
  \/ Sent("note", "", "requeue")
  \/ pass.obj.step = "Requesting" /\ Sent("record", "Awaiting", "requeue")

LEMMA CallMoves ==
  ASSUME TypeInv, Call, UNCHANGED env
  PROVE  Settles /\ Called
<1>0. ~At("idle") /\ At("call")
  BY DEF Call, At
<1>1. CASE Say("note")
  BY <1>0, <1>1, SayMoves DEF Called
<1>2. CASE pass.obj.step = "Requesting" /\ Record(NextStep("Requesting"))
  <2>1. NextStep("Requesting") = "Awaiting"
    BY DEF NextStep
  <2>2. "Awaiting" \in StepsOf(Action[pass.op]) /\ ~Rolls(pass.op)
    BY <1>0, <1>2, StepFacts DEF StepsOf, Rolls
  <2>3. Settles /\ Sent("record", "Awaiting", "requeue")
    BY <1>0, <1>2, <2>1, <2>2, RecordMoves
  <2> QED BY <1>2, <2>3 DEF Called
<1> QED BY <1>1, <1>2 DEF Call

\* What the call does in the control plane.
LEMMA NodeCallType ==
  ASSUME TypeInv, NodeCall, AtNode(pass.obj), UNCHANGED <<env, nodes, pods, cycled, crashes>>
  PROVE  CpOK' /\ HistoryOK'
<1> DEFINE n == pass.obj.plan[pass.obj.index]
<1>1. n \in Nodes
  BY PassFields, ObjFields
<1>2. CpOK /\ HistoryOK
  BY TypeParts
<1>3. nodeJob' \in [Nodes -> {"none", "stop", "start"}] /\ down' \subseteq Nodes
  <2>1. nodeJob \in [Nodes -> {"none", "stop", "start"}] /\ down \subseteq Nodes
    BY <1>2 DEF CpOK, CpTypes, HistoryOK
  <2> HIDE DEF n
  <2>2. /\ \/ nodeJob' = [nodeJob EXCEPT ![n] = IF nodes[n] = "online" THEN "stop" ELSE @]
           \/ nodeJob' = [nodeJob EXCEPT ![n] = IF nodes[n] = "offline" THEN "start" ELSE @]
        /\ down' = down \/ down' = down \cup {n}
    BY DEF NodeCall, n
  <2> QED BY <1>1, <2>1, <2>2
<1> QED BY <1>2, <1>3 DEF CpOK, Tally, CpTypes, HistoryOK, NodeCall, Counted

\* The count of activations stands while it, and the cluster's status, stand.
LEMMA TallyKept ==
  ASSUME TypeInv, UNCHANGED <<attempts, asked>>, cl'.status = cl.status
  PROVE  Tally'
  BY TypeParts DEF CpOK, Tally, Counted

LEMMA ClusterCallType ==
  ASSUME TypeInv, ClusterCall, UNCHANGED <<env, nodes, pods, cycled, crashes>>
  PROVE  CpOK' /\ HistoryOK'
<1>0. UNCHANGED <<nodeJob, down>>
  BY DEF ClusterCall
<1>1. Tally /\ CpTypes /\ HistoryOK
  BY TypeParts DEF CpOK
<1>2. HistoryOK'
  BY <1>0, <1>1 DEF HistoryOK
<1>3. CASE /\ asked < MaxActivates /\ attempts' = attempts + 1 /\ asked' = asked + 1
           /\ UNCHANGED <<cl, clJob>>
  <2>1. /\ attempts \in 0..MaxActivates /\ asked \in 0..MaxActivates /\ attempts <= asked
        /\ MaxActivates \in Nat
    BY <1>1, Bounds DEF Tally, Counted
  <2>2. /\ attempts' \in 0..MaxActivates /\ asked' \in 0..MaxActivates /\ attempts' <= asked'
        /\ attempts' > 0
    BY <1>3, <2>1
  <2>3. Tally'
    BY <2>2 DEF Tally, Counted
  <2>4. CpTypes'
    BY <1>0, <1>1, <1>3 DEF CpTypes
  <2> QED BY <1>2, <2>3, <2>4 DEF CpOK
<1>4. CASE cl' = [cl EXCEPT !.task = FALSE] /\ UNCHANGED <<clJob, attempts, asked>>
  <2>1. cl' \in Clusters /\ cl'.status = cl.status
    BY <1>1, <1>4 DEF CpTypes, Clusters
  <2>2. CpTypes'
    BY <1>0, <1>1, <1>4, <2>1 DEF CpTypes
  <2> QED BY <1>2, <1>4, <2>1, <2>2, TallyKept DEF CpOK
<1>5. CASE clJob' \in {clJob, "stop", "start"} /\ UNCHANGED <<cl, attempts, asked>>
  <2>1. CpTypes'
    BY <1>0, <1>1, <1>5 DEF CpTypes
  <2> QED BY <1>2, <1>5, <2>1, TallyKept DEF CpOK
<1> QED BY <1>3, <1>4, <1>5 DEF ClusterCall

LEMMA CallType ==
  ASSUME TypeInv, Call, UNCHANGED env
  PROVE  CpOK' /\ HistoryOK'
<1>0. ~At("idle") /\ At("call") /\ UNCHANGED <<nodes, pods, cycled, crashes>>
  BY DEF Call, At
<1>1. CASE Action[pass.op] = "RollingRestart" /\ NodeCall
  <2>1. AtNode(pass.obj)
    BY <1>0, <1>1, PassFields DEF PassFits, At, Rolls
  <2> QED BY <1>0, <1>1, <2>1, NodeCallType
<1>2. CASE ClusterCall
  BY <1>0, <1>2, ClusterCallType
<1>3. CASE UNCHANGED <<cl, clJob, attempts, nodeJob, down, asked>>
  <2>1. UNCHANGED <<cpVars, asked, down, cycled, crashes>>
    BY <1>0, <1>3 DEF cpVars
  <2> QED BY <2>1, TypeKept
<1> QED BY <1>1, <1>2, <1>3 DEF Call
\* The clocks as functions on operation objects.
LeaseClock == [v \in OpsObj |-> IF v.claim = "live" THEN [v EXCEPT !.claim = "expired"] ELSE v]
GraceClock == [v \in OpsObj |-> IF v.step = "Awaiting" THEN [v EXCEPT !.settled = TRUE] ELSE v]
DeadlineClock(s) == [v \in OpsObj |-> IF v.step = s THEN [v EXCEPT !.late = TRUE] ELSE v]

\* Time leaves the metadata, the phase, the step and the plan alone, and ages two
\* copies alike.
Ages(g) ==
  /\ g \in [OpsObj -> OpsObj]
  /\ \A v \in OpsObj : /\ SameMeta(g[v], v) /\ SamePlan(g[v], v)
                       /\ g[v].phase = v.phase /\ g[v].step = v.step
  /\ \A v, w \in OpsObj : SameStatus(v, w) => SameStatus(g[v], g[w])

LEMMA AgesType == \A g : Ages(g) => g \in [OpsObj -> OpsObj]
  BY DEF Ages

LEMMA LeaseAges ==
  /\ Ages(LeaseClock)
  /\ \A v \in OpsObj :
       /\ LeaseClock[v] = IF v.claim = "live" THEN [v EXCEPT !.claim = "expired"] ELSE v
       /\ LeaseClock[v].claim = IF v.claim = "live" THEN "expired" ELSE v.claim
       /\ LeaseClock[v].late = v.late /\ LeaseClock[v].settled = v.settled
<1> DEFINE g == LeaseClock
<1>1. ASSUME NEW v \in OpsObj
      PROVE  /\ g[v] = IF v.claim = "live" THEN [v EXCEPT !.claim = "expired"] ELSE v
             /\ g[v] \in OpsObj /\ SameMeta(g[v], v) /\ SamePlan(g[v], v)
             /\ g[v].phase = v.phase /\ g[v].step = v.step
             /\ g[v].late = v.late /\ g[v].settled = v.settled
             /\ g[v].claim = IF v.claim = "live" THEN "expired" ELSE v.claim
  <2>1. g[v] = IF v.claim = "live" THEN [v EXCEPT !.claim = "expired"] ELSE v
    BY DEF LeaseClock
  <2>2. CASE v.claim = "live"
    BY <2>1, <2>2 DEF OpsObj, Leases, SameMeta, SamePlan
  <2>3. CASE v.claim # "live"
    BY <2>1, <2>3 DEF SameMeta, SamePlan
  <2> QED BY <2>1, <2>2, <2>3
<1>2. g \in [OpsObj -> OpsObj]
  BY <1>1 DEF LeaseClock
<1>3. ASSUME NEW v \in OpsObj, NEW w \in OpsObj, SameStatus(v, w)
      PROVE  SameStatus(g[v], g[w])
  <2> DEFINE like(y) == /\ SamePlan(g[y], y) /\ g[y].phase = y.phase /\ g[y].step = y.step
                        /\ g[y].late = y.late /\ g[y].settled = y.settled
                        /\ g[y].claim = IF y.claim = "live" THEN "expired" ELSE y.claim
  <2>1. like(v) /\ like(w)
    BY <1>1
  <2> HIDE DEF g
  <2> QED BY <1>3, <2>1 DEF SameStatus, SamePlan
<1> QED BY <1>1, <1>2, <1>3 DEF Ages

LEMMA GraceAges ==
  /\ Ages(GraceClock)
  /\ \A v \in OpsObj :
       /\ GraceClock[v] = IF v.step = "Awaiting" THEN [v EXCEPT !.settled = TRUE] ELSE v
       /\ GraceClock[v].settled = (v.step = "Awaiting" \/ v.settled)
       /\ GraceClock[v].late = v.late /\ GraceClock[v].claim = v.claim
<1> DEFINE g == GraceClock
<1>1. ASSUME NEW v \in OpsObj
      PROVE  /\ g[v] = IF v.step = "Awaiting" THEN [v EXCEPT !.settled = TRUE] ELSE v
             /\ g[v] \in OpsObj /\ SameMeta(g[v], v) /\ SamePlan(g[v], v)
             /\ g[v].phase = v.phase /\ g[v].step = v.step
             /\ g[v].late = v.late /\ g[v].claim = v.claim
             /\ g[v].settled = (v.step = "Awaiting" \/ v.settled)
  <2>1. g[v] = IF v.step = "Awaiting" THEN [v EXCEPT !.settled = TRUE] ELSE v
    BY DEF GraceClock
  <2>2. CASE v.step = "Awaiting"
    BY <2>1, <2>2 DEF OpsObj, SameMeta, SamePlan
  <2>3. CASE v.step # "Awaiting"
    BY <2>1, <2>3, ObjFields DEF SameMeta, SamePlan
  <2> QED BY <2>1, <2>2, <2>3
<1>2. g \in [OpsObj -> OpsObj]
  BY <1>1 DEF GraceClock
<1>3. ASSUME NEW v \in OpsObj, NEW w \in OpsObj, SameStatus(v, w)
      PROVE  SameStatus(g[v], g[w])
  <2> DEFINE like(y) == /\ SamePlan(g[y], y) /\ g[y].phase = y.phase /\ g[y].step = y.step
                        /\ g[y].late = y.late /\ g[y].claim = y.claim
                        /\ g[y].settled = (y.step = "Awaiting" \/ y.settled)
  <2>1. like(v) /\ like(w)
    BY <1>1
  <2> HIDE DEF g
  <2> QED BY <1>3, <2>1 DEF SameStatus, SamePlan
<1> QED BY <1>1, <1>2, <1>3 DEF Ages

LEMMA DeadlineAges ==
  ASSUME NEW s
  PROVE  /\ Ages(DeadlineClock(s))
         /\ \A v \in OpsObj :
              LET w == DeadlineClock(s)[v] IN
              /\ w = IF v.step = s THEN [v EXCEPT !.late = TRUE] ELSE v
              /\ v.late => w.late
              /\ w.settled = v.settled /\ w.claim = v.claim
<1> DEFINE g == DeadlineClock(s)
<1>1. ASSUME NEW v \in OpsObj
      PROVE  /\ g[v] = IF v.step = s THEN [v EXCEPT !.late = TRUE] ELSE v
             /\ g[v] \in OpsObj /\ SameMeta(g[v], v) /\ SamePlan(g[v], v)
             /\ g[v].phase = v.phase /\ g[v].step = v.step
             /\ g[v].settled = v.settled /\ g[v].claim = v.claim
             /\ g[v].late = (v.step = s \/ v.late)
  <2>1. g[v] = IF v.step = s THEN [v EXCEPT !.late = TRUE] ELSE v
    BY DEF DeadlineClock
  <2>2. CASE v.step = s
    BY <2>1, <2>2 DEF OpsObj, SameMeta, SamePlan
  <2>3. CASE v.step # s
    BY <2>1, <2>3, ObjFields DEF SameMeta, SamePlan
  <2> QED BY <2>1, <2>2, <2>3
<1>2. g \in [OpsObj -> OpsObj]
  BY <1>1 DEF DeadlineClock
<1>3. ASSUME NEW v \in OpsObj, NEW w \in OpsObj, SameStatus(v, w)
      PROVE  SameStatus(g[v], g[w])
  <2> DEFINE like(y) == /\ SamePlan(g[y], y) /\ g[y].phase = y.phase /\ g[y].step = y.step
                        /\ g[y].settled = y.settled /\ g[y].claim = y.claim
                        /\ g[y].late = (y.step = s \/ y.late)
  <2>1. like(v) /\ like(w)
    BY <1>1
  <2> HIDE DEF g
  <2> QED BY <1>3, <2>1 DEF SameStatus, SamePlan
<1> HIDE DEF g
<1>4. Ages(g)
  BY <1>1, <1>2, <1>3 DEF Ages
<1> QED BY <1>1, <1>4 DEF g

\* What the clock g does to every copy of operation o.
Ticks(o, g) ==
  /\ opsLog' = [opsLog EXCEPT ![o] = [i \in 1..Len(opsLog[o]) |-> g[opsLog[o][i]]]]
  /\ pass' = IF pass.op = o THEN [pass EXCEPT !.obj = g[pass.obj]] ELSE pass
  /\ UNCHANGED <<clusterLog, queue, cpVars, streams, history>>

\* A deadline changes neither the claim nor the grace.
LEMMA DeadlineKeeps ==
  ASSUME NEW s, NEW v \in OpsObj
  PROVE  DeadlineClock(s)[v].claim = v.claim /\ DeadlineClock(s)[v].settled = v.settled
<1>1. DeadlineClock(s)[v] = IF v.step = s THEN [v EXCEPT !.late = TRUE] ELSE v
  BY DEF DeadlineClock
<1> QED BY <1>1 DEF OpsObj

LEMMA LeaseTicks ==
  ASSUME TypeInv, NEW o \in Ops, LeaseExpires(o)
  PROVE  Ticks(o, LeaseClock)
<1>1. [i \in 1..Len(opsLog[o]) |->
         IF opsLog[o][i].claim = "live" THEN [opsLog[o][i] EXCEPT !.claim = "expired"]
         ELSE opsLog[o][i]]
        = [i \in 1..Len(opsLog[o]) |-> LeaseClock[opsLog[o][i]]]
  BY LeaseAges, OpEnds
<1>2. LeaseClock[pass.obj] = IF pass.obj.claim = "live" THEN [pass.obj EXCEPT !.claim = "expired"]
                             ELSE pass.obj
  BY LeaseAges, PassFields
<1> QED BY <1>1, <1>2 DEF LeaseExpires, InEveryCopy, Ticks

LEMMA GraceTicks ==
  ASSUME TypeInv, NEW o \in Ops, GraceOver(o)
  PROVE  Ticks(o, GraceClock)
<1>1. [i \in 1..Len(opsLog[o]) |->
         IF opsLog[o][i].step = "Awaiting" THEN [opsLog[o][i] EXCEPT !.settled = TRUE]
         ELSE opsLog[o][i]]
        = [i \in 1..Len(opsLog[o]) |-> GraceClock[opsLog[o][i]]]
  BY GraceAges, OpEnds
<1>2. GraceClock[pass.obj] = IF pass.obj.step = "Awaiting" THEN [pass.obj EXCEPT !.settled = TRUE]
                             ELSE pass.obj
  BY GraceAges, PassFields
<1> QED BY <1>1, <1>2 DEF GraceOver, InEveryCopy, Ticks

LEMMA DeadlineTicks ==
  ASSUME TypeInv, NEW o \in Ops, NEW s \in WorkSteps, DeadlinePasses(o, s)
  PROVE  Ticks(o, DeadlineClock(s))
<1>0. \A v \in OpsObj : DeadlineClock(s)[v] = IF v.step = s THEN [v EXCEPT !.late = TRUE] ELSE v
  BY DEF DeadlineClock
<1>1. [i \in 1..Len(opsLog[o]) |->
         IF opsLog[o][i].step = s THEN [opsLog[o][i] EXCEPT !.late = TRUE] ELSE opsLog[o][i]]
        = [i \in 1..Len(opsLog[o]) |-> DeadlineClock(s)[opsLog[o][i]]]
  BY <1>0, OpEnds
<1>2. DeadlineClock(s)[pass.obj] = IF pass.obj.step = s THEN [pass.obj EXCEPT !.late = TRUE]
                                   ELSE pass.obj
  BY <1>0, PassFields
<1> HIDE DEF DeadlineClock
<1> QED BY <1>1, <1>2 DEF DeadlinePasses, InEveryCopy, Ticks

\* The same pass, a moment later.
LEMMA TickMoves ==
  ASSUME TypeInv, NEW o \in DOMAIN Action, NEW g, Ages(g), Ticks(o, g), UNCHANGED env
  PROVE  /\ LogsOK' /\ PassOK' /\ Copies' /\ Op(o)' = g[Op(o)]
         /\ \A p \in Ops \ {o} : Op(p)' = Op(p)
         /\ pass'.op = pass.op /\ pass'.pc = pass.pc /\ pass'.do = pass.do
         /\ pass'.arg = pass.arg /\ pass'.then = pass.then /\ pass'.fresh = pass.fresh
         /\ pass'.list = pass.list
         /\ pass'.obj = IF pass.op = o THEN g[pass.obj] ELSE pass.obj
<1>0. o \in Ops /\ DOMAIN Action \subseteq Ops /\ Action' = Action
  BY TypeParts, EnvType DEF Action
<1>1. /\ g \in [OpsObj -> OpsObj] /\ pass.obj \in OpsObj /\ pass \in PassObj
      /\ PassFits(pass) /\ (~At("idle") => pass.op \in DOMAIN Action /\ pass.op \in Ops)
  BY PassFields DEF Ages
<1>2. /\ LogsOK' /\ Op(o)' = g[Op(o)] /\ \A p \in Ops \ {o} : opsLog'[p] = opsLog[p] /\ Op(p)' = Op(p)
      /\ Len(opsLog'[o]) = Len(opsLog[o])
      /\ \A k \in 1..Len(opsLog[o]) : opsLog'[o][k] = g[opsLog[o][k]]
  BY <1>0, <1>1, OpAged DEF Ticks
<1> DEFINE x == g[pass.obj]
<1>3. x \in OpsObj /\ SamePlan(x, pass.obj) /\ x.step = pass.obj.step
  BY <1>1 DEF Ages
<1>4. /\ pass'.op = pass.op /\ pass'.pc = pass.pc /\ pass'.do = pass.do
      /\ pass'.arg = pass.arg /\ pass'.then = pass.then /\ pass'.fresh = pass.fresh
      /\ pass'.list = pass.list /\ pass' \in PassObj
      /\ pass'.obj = IF pass.op = o THEN x ELSE pass.obj
  <2>1. CASE pass.op = o
    <3>1. pass' = [pass EXCEPT !.obj = x]
      BY <2>1 DEF Ticks
    <3> HIDE DEF x
    <3> QED BY <1>1, <1>3, <2>1, <3>1, PassType
  <2>2. CASE pass.op # o
    BY <1>1, <2>2 DEF Ticks
  <2> QED BY <2>1, <2>2
<1>5. SamePlan(pass'.obj, pass.obj) /\ pass'.obj.step = pass.obj.step
  BY <1>3, <1>4 DEF SamePlan
<1> HIDE DEF x
<1>6. /\ \A p \in DOMAIN Action : Fits(p, pass.obj) <=> Fits(p, pass'.obj)
      /\ Planned(pass.obj) <=> Planned(pass'.obj)
      /\ AtNode(pass.obj) <=> AtNode(pass'.obj)
  BY <1>5 DEF Fits, Planned, AtNode, SamePlan
<1>7. PassFits(pass')
  BY <1>1, <1>4, <1>6 DEF PassFits, WriteFits
<1>8. PassOK'
  BY <1>4, <1>7, PassIs
<1>9. Versions /\ Outsiders /\ FreshIsStored /\ PlanKnown
  BY TypeParts DEF Copies
<1>10. ASSUME NEW p \in DOMAIN Action, NEW i \in 1..Len(opsLog'[p])
       PROVE  Fits(p, opsLog'[p][i]) /\ (Planned(opsLog'[p][i]) => Planned(Op(p)'))
  <2>1. CASE p # o
    BY <1>0, <1>2, <1>9, <2>1 DEF Versions
  <2>2. CASE p = o
    <3>1. /\ opsLog'[o][i] = g[opsLog[o][i]] /\ opsLog[o][i] \in OpsObj /\ Op(o) \in OpsObj
          /\ Fits(o, opsLog[o][i]) /\ (Planned(opsLog[o][i]) => Planned(Op(o)))
      BY <1>0, <1>2, <1>9, <2>2, OpEnds DEF Versions
    <3>2. /\ SamePlan(g[opsLog[o][i]], opsLog[o][i]) /\ SamePlan(g[Op(o)], Op(o))
          /\ g[opsLog[o][i]].step = opsLog[o][i].step
      BY <3>1 DEF Ages
    <3> QED BY <1>2, <2>2, <3>1, <3>2 DEF Fits, Planned, SamePlan
  <2> QED BY <2>1, <2>2
<1>11. Versions'
  BY <1>0, <1>10 DEF Versions, Fits, Rolls, Action
<1>12. Outsiders'
  BY <1>0, <1>2, <1>9 DEF Outsiders
<1>13. FreshIsStored' /\ PlanKnown'
  <2>1. CASE At("idle")
    BY <1>4, <2>1 DEF FreshIsStored, PlanKnown, At
  <2>2. CASE ~At("idle") /\ pass.op # o
    <3>1. Stored(opsLog'[pass'.op]) = Op(pass.op) /\ pass'.obj = pass.obj
      BY <1>1, <1>2, <1>4, <2>2 DEF Op
    <3> QED BY <1>4, <1>9, <2>2, <3>1 DEF FreshIsStored, PlanKnown, At, Op
  <2>3. CASE ~At("idle") /\ pass.op = o
    <3>1. Stored(opsLog'[pass'.op]) = g[Op(o)] /\ pass'.obj = g[pass.obj] /\ Op(o) \in OpsObj
      BY <1>0, <1>1, <1>2, <1>4, <2>3, OpEnds DEF Op, x
    <3>2. SameStatus(pass.obj, Op(o)) => SameStatus(g[pass.obj], g[Op(o)])
      BY <1>1, <3>1 DEF Ages
    <3>3. Planned(g[Op(o)]) <=> Planned(Op(o))
      BY <3>1 DEF Ages, SamePlan, Planned
    <3> QED BY <1>4, <1>6, <1>9, <2>3, <3>1, <3>2, <3>3 DEF FreshIsStored, PlanKnown, At, Op
  <2> QED BY <2>1, <2>2, <2>3
<1> QED BY <1>2, <1>4, <1>8, <1>11, <1>12, <1>13 DEF Copies, x
\* The user's abort, and the two ways of a deletion.
Asks(o, w) ==
  LET v == Op(o) IN
  /\ w = [v EXCEPT !.abort = TRUE] \/ w = [v EXCEPT !.deleted = TRUE]
       \/ w = [v EXCEPT !.exists = FALSE]
  /\ w \in OpsObj /\ SameStatus(w, v)
  /\ w.deleted # v.deleted \/ w.exists # v.exists => Deletable(v)
  /\ Room(opsLog[o], MaxLag) /\ opsLog' = [opsLog EXCEPT ![o] = Written(@, w)]

\* The pass, disturbed by it.
Disturbed(o) ==
  /\ pass'.op = pass.op /\ pass'.obj = pass.obj /\ pass'.pc = pass.pc
  /\ pass'.do = pass.do /\ pass'.arg = pass.arg /\ pass'.then = pass.then
  /\ pass'.list = pass.list /\ pass'.fresh = (pass.fresh /\ pass.op # o)

LEMMA DisturbMoves ==
  ASSUME TypeInv, NEW o, Disturb(o), UNCHANGED env
  PROVE  PassOK' /\ Disturbed(o)
<1>1. pass \in PassObj /\ PassFits(pass) /\ pass.fresh \in BOOLEAN
  BY PassFields
<1>2. pass' \in PassObj /\ Disturbed(o)
  <2>1. CASE pass.op = o
    <3>1. pass' = [pass EXCEPT !.fresh = FALSE] /\ FALSE \in BOOLEAN
      BY <2>1 DEF Disturb
    <3> QED BY <1>1, <2>1, <3>1, PassType DEF Disturbed
  <2>2. CASE pass.op # o
    BY <1>1, <2>2 DEF Disturb, Disturbed
  <2> QED BY <2>1, <2>2
<1>3. PassFits(pass')
  BY <1>1, <1>2 DEF PassFits, WriteFits, Disturbed
<1> QED BY <1>2, <1>3, PassIs

LEMMA AsksMoves ==
  ASSUME TypeInv, NEW o \in DOMAIN Action, NEW w, Asks(o, w), Disturb(o), UNCHANGED env
  PROVE  LogsOK' /\ PassOK' /\ Copies' /\ Disturbed(o)
<1>1. PassOK' /\ Disturbed(o)
  BY DisturbMoves
<1>2. w \in OpsObj /\ Fits(o, w) /\ (Planned(Op(o)) => Planned(w))
  BY RestatedFits DEF Asks
<1>3. LogsOK' /\ Copies'
  BY <1>1, <1>2, CopiesWritten DEF Asks, Disturbed
<1> QED BY <1>1, <1>3

LEMMA SetAbortAsks ==
  ASSUME TypeInv, NEW o \in DOMAIN Action, SetAbort(o), UNCHANGED env
  PROVE  Asks(o, [Op(o) EXCEPT !.abort = TRUE])
<1> DEFINE w == [Op(o) EXCEPT !.abort = TRUE]
<1>1. Op(o) \in OpsObj
  BY StoredFits
<1>2. w \in OpsObj /\ SameStatus(w, Op(o)) /\ w.deleted = Op(o).deleted /\ w.exists = Op(o).exists
  BY <1>1 DEF OpsObj, SameStatus
<1> QED BY <1>2 DEF Asks, SetAbort

LEMMA DeleteAsks ==
  ASSUME TypeInv, NEW o \in DOMAIN Action, Delete(o), UNCHANGED env
  PROVE  /\ Deletable(Op(o))
         /\ \/ Asks(o, [Op(o) EXCEPT !.deleted = TRUE])
            \/ Asks(o, [Op(o) EXCEPT !.exists = FALSE])
<1> DEFINE w == [Op(o) EXCEPT !.deleted = TRUE]
           x == [Op(o) EXCEPT !.exists = FALSE]
<1>1. Op(o) \in OpsObj
  BY StoredFits
<1>2. w \in OpsObj /\ SameStatus(w, Op(o)) /\ x \in OpsObj /\ SameStatus(x, Op(o))
  BY <1>1 DEF OpsObj, SameStatus
<1>3. CASE opsLog' = [opsLog EXCEPT ![o] = Written(@, w)]
  BY <1>2, <1>3 DEF Asks, Delete
<1>4. CASE opsLog' = [opsLog EXCEPT ![o] = Written(@, x)]
  BY <1>2, <1>4 DEF Asks, Delete
<1>5. Deletable(Op(o))
  BY DEF Delete
<1> QED BY <1>3, <1>4, <1>5 DEF Delete

\* The other writers of the cluster object.
LEMMA ClusterWriteMoves ==
  ASSUME TypeInv, ClusterWrite
  PROVE  LockOK'
<1>1. Stored(clusterLog) \in ClusterObj
  BY ClusterEnds
<1>2. [exists |-> FALSE, lock |-> NoOp] \in ClusterObj
  BY DEF ClusterObj
<1> QED BY <1>1, <1>2, ClusterWritten DEF ClusterWrite

\* A watch event changes no version and no copy.
LEMMA DeliverOpMoves ==
  ASSUME TypeInv, NEW o \in DOMAIN Action, DeliverOp(o), UNCHANGED env
  PROVE  LogsOK' /\ Copies' /\ queue' \subseteq Ops
<1>0. o \in Ops /\ DOMAIN Action \subseteq Ops /\ queue \subseteq Ops
  BY TypeParts, EnvType
<1>1. /\ LogsOK' /\ \A p \in Ops : Op(p)' = Op(p)
      /\ \A p \in Ops \ {o} : opsLog'[p] = opsLog[p]
      /\ \A k \in 1..Len(opsLog'[o]) :
           k + 1 \in 1..Len(opsLog[o]) /\ opsLog'[o][k] = opsLog[o][k + 1]
  BY <1>0, OpDelivered
<1>2. Versions /\ Outsiders /\ FreshIsStored /\ PlanKnown
  BY TypeParts DEF Copies
<1>3. ASSUME NEW p \in DOMAIN Action, NEW i \in 1..Len(opsLog'[p])
      PROVE  Fits(p, opsLog'[p][i]) /\ (Planned(opsLog'[p][i]) => Planned(Op(p)'))
  <2>1. CASE p # o
    BY <1>0, <1>1, <1>2, <2>1 DEF Versions
  <2>2. CASE p = o
    <3>1. i + 1 \in 1..Len(opsLog[o]) /\ opsLog'[o][i] = opsLog[o][i + 1]
      BY <1>1, <2>2
    <3> QED BY <1>0, <1>1, <1>2, <2>2, <3>1 DEF Versions
  <2> QED BY <2>1, <2>2
<1>4. Versions'
  BY <1>3 DEF Versions, Fits, Rolls, Action
<1>5. Outsiders'
  BY <1>0, <1>1, <1>2 DEF Outsiders, Action
<1>6. FreshIsStored' /\ PlanKnown'
  <2>1. UNCHANGED pass /\ (~At("idle") => pass.op \in Ops)
    BY PassFields DEF DeliverOp
  <2>2. ~At("idle") => Stored(opsLog'[pass.op]) = Op(pass.op)
    BY <1>1, <2>1 DEF Op
  <2> QED BY <1>2, <2>1, <2>2 DEF FreshIsStored, PlanKnown, At, Op
<1>7. queue' \subseteq Ops
  BY <1>0 DEF DeliverOp
<1> QED BY <1>1, <1>4, <1>5, <1>6, <1>7 DEF Copies

LEMMA DeliverClusterMoves ==
  ASSUME TypeInv, DeliverCluster
  PROVE  LockOK' /\ queue' \subseteq Ops
<1>1. queue \subseteq Ops /\ operationsOn \subseteq Ops
  BY TypeParts, EnvType DEF operationsOn
<1> QED BY <1>1, ClusterDelivered DEF DeliverCluster

LEMMA CrashMoves ==
  ASSUME TypeInv, Crash, UNCHANGED env
  PROVE  Settles /\ Copies' /\ StreamsOK' /\ HistoryOK'
<1>1. pass' = Idle /\ queue' \subseteq Ops /\ UNCHANGED opsLog
  BY DEF Crash
<1>2. Settles
  BY <1>1, IdleOK DEF Settles
<1>3. Copies'
  <2>1. Versions /\ Outsiders
    BY TypeParts DEF Copies
  <2>2. Versions' /\ Outsiders'
    BY <1>1, <2>1 DEF Versions, Outsiders, Fits, Rolls, Action, Op
  <2> QED BY <1>1, <2>2, IdleSpot DEF Copies, FreshIsStored, PlanKnown, At
<1>4. StreamsOK'
  BY TypeParts DEF Crash, StreamsOK, CpOK, CpTypes
<1>5. HistoryOK'
  <2>1. crashes \in 0..MaxCrashes /\ MaxCrashes \in Nat /\ down \subseteq Nodes /\ cycled \subseteq Nodes
    BY TypeParts, Bounds DEF HistoryOK
  <2>2. crashes' \in 0..MaxCrashes
    BY <2>1 DEF Crash
  <2> QED BY <2>1, <2>2 DEF HistoryOK, Crash
<1> QED BY <1>2, <1>3, <1>4, <1>5

\* The control plane.
LEMMA CpClusterMoves ==
  ASSUME TypeInv, CpCluster
  PROVE  CpOK'
<1>1. /\ cl \in Clusters /\ clJob \in {"none", "stop", "start"} /\ CpTypes
      /\ attempts \in 0..MaxActivates /\ asked \in 0..MaxActivates
      /\ attempts <= asked /\ (cl.status = "in_activation" => attempts > 0) /\ MaxActivates \in Nat
  BY TypeParts, Bounds DEF CpOK, CpTypes, Tally, Counted
<1>2. asked' = asked
  BY DEF CpCluster, rest
<1>3. \A st \in ClusterStatuses : LET c == [cl EXCEPT !.status = st] IN
        c \in Clusters /\ c.status = st
  BY <1>1 DEF Clusters
<1>4. /\ cl' \in Clusters /\ clJob' \in {"none", "stop", "start"}
      /\ \/ attempts' = attempts /\ attempts > 0
         \/ cl'.status # "in_activation" /\ attempts' = attempts
         \/ cl'.status # "in_activation" /\ attempts > 0 /\ attempts' = attempts - 1
  <2>1. CASE /\ attempts > 0 /\ cl.status # "in_activation"
             /\ cl' = [cl EXCEPT !.status = "in_activation"] /\ UNCHANGED <<clJob, attempts>>
    BY <1>1, <1>3, <2>1 DEF ClusterStatuses
  <2>2. CASE /\ cl.status = "in_activation" /\ attempts' = attempts - 1
             /\ \E st \in {"active", "unready"} : cl' = [cl EXCEPT !.status = st]
             /\ UNCHANGED clJob
    <3>1. PICK st \in {"active", "unready"} : cl' = [cl EXCEPT !.status = st]
      BY <2>2
    <3>2. st \in ClusterStatuses /\ st # "in_activation"
      BY DEF ClusterStatuses, RestStatuses
    <3>3. cl' \in Clusters /\ cl'.status # "in_activation"
      BY <1>3, <3>1, <3>2
    <3>4. attempts > 0
      BY <1>1, <2>2
    <3> QED BY <1>1, <2>2, <3>3, <3>4
  <2>3. CASE /\ clJob' = "none" /\ UNCHANGED attempts
             /\ cl' = [cl EXCEPT !.status = IF clJob = "stop" THEN "suspended" ELSE "active"]
    BY <1>1, <1>3, <2>3 DEF ClusterStatuses, RestStatuses
  <2> QED BY <2>1, <2>2, <2>3 DEF CpCluster
<1>5. attempts' \in 0..MaxActivates /\ attempts' <= asked /\ (cl'.status = "in_activation" => attempts' > 0)
  BY <1>1, <1>4
<1>6. CpTypes'
  BY <1>1, <1>4 DEF CpTypes, CpCluster
<1> QED BY <1>1, <1>2, <1>5, <1>6 DEF CpOK, Tally, Counted

LEMMA CpRebalancedMoves ==
  ASSUME TypeInv, CpRebalanced
  PROVE  CpOK'
<1>1. CpTypes
  BY TypeParts DEF CpOK
<1>2. cl' \in Clusters /\ cl'.status = cl.status
  BY <1>1 DEF CpRebalanced, CpTypes, Clusters
<1>3. UNCHANGED <<attempts, asked>>
  BY DEF CpRebalanced, rest
<1>4. CpTypes'
  BY <1>1, <1>2 DEF CpTypes, CpRebalanced
<1> QED BY <1>2, <1>3, <1>4, TallyKept DEF CpOK

\* The status of a node, and what goes with it.
LEMMA NodeBecomesMoves ==
  ASSUME TypeInv, NEW n \in Nodes, NEW st \in NodeStatuses, NodeBecomes(n, st),
         nodeJob' \in [Nodes -> {"none", "stop", "start"}]
  PROVE  CpOK' /\ HistoryOK'
<1>1. CpTypes /\ HistoryOK
  BY TypeParts DEF CpOK
<1>2. cl' \in Clusters /\ cl'.status = cl.status
  <2>1. CASE cl' = [cl EXCEPT !.rebal = TRUE]
    BY <1>1, <2>1 DEF CpTypes, Clusters
  <2>2. CASE cl' = cl
    BY <1>1, <2>2 DEF CpTypes
  <2> QED BY <2>1, <2>2 DEF NodeBecomes
<1>3. nodes' \in [Nodes -> NodeStatuses]
  BY <1>1 DEF NodeBecomes, CpTypes
<1>4. CpTypes' /\ UNCHANGED <<attempts, asked>>
  BY <1>1, <1>2, <1>3 DEF CpTypes, NodeBecomes, rest
<1>5. HistoryOK'
  BY <1>1 DEF HistoryOK, NodeBecomes, rest
<1> QED BY <1>2, <1>4, <1>5, TallyKept DEF CpOK

\* What a step of the control plane may make of a node.
Becomes(n, st) == st \in NodeStatuses /\ NodeBecomes(n, st)

LEMMA NodeStatusNext ==
  ASSUME TypeInv, NEW n \in Nodes,
         CpNodeBegins(n) \/ CpNodeEnds(n) \/ CpFault(n) \/ CpRemoves(n)
  PROVE  /\ \E st : Becomes(n, st)
         /\ nodeJob' \in [Nodes -> {"none", "stop", "start"}]
<1>1. nodes[n] \in NodeStatuses /\ nodeJob \in [Nodes -> {"none", "stop", "start"}]
  BY TypeParts DEF CpOK, CpTypes
<1>2. CASE CpNodeBegins(n)
  <2> DEFINE st == CASE nodeJob[n] = "stop" /\ nodes[n] = "online" -> "in_shutdown"
                     [] nodeJob[n] = "start" /\ nodes[n] = "offline" -> "in_restart"
                     [] OTHER -> nodes[n]
  <2>1. st \in NodeStatuses
    BY <1>1 DEF NodeStatuses
  <2>2. NodeBecomes(n, st) /\ nodeJob' = [nodeJob EXCEPT ![n] = "none"]
    BY <1>2 DEF CpNodeBegins
  <2>3. nodeJob' \in [Nodes -> {"none", "stop", "start"}]
    BY <1>1, <2>2
  <2> HIDE DEF st
  <2> QED BY <2>1, <2>2, <2>3 DEF Becomes
<1>3. CASE CpNodeEnds(n)
  <2> DEFINE st == IF nodes[n] = "in_shutdown" THEN "offline" ELSE "online"
  <2>1. st \in NodeStatuses
    BY DEF NodeStatuses
  <2>2. NodeBecomes(n, st) /\ UNCHANGED nodeJob
    BY <1>3 DEF CpNodeEnds
  <2> HIDE DEF st
  <2> QED BY <1>1, <2>1, <2>2 DEF Becomes
<1>4. CASE CpFault(n)
  BY <1>1, <1>4 DEF CpFault, Becomes, NodeStatuses
<1>5. CASE CpRemoves(n)
  <2> DEFINE st == CASE nodes[n] = "leaving" -> "removed"
                      [] nodes[n] = "removed" -> "unlisted"
                      [] OTHER -> "leaving"
  <2>1. st \in NodeStatuses
    BY DEF NodeStatuses
  <2>2. NodeBecomes(n, st) /\ UNCHANGED nodeJob
    BY <1>5 DEF CpRemoves
  <2> HIDE DEF st
  <2> QED BY <1>1, <2>1, <2>2 DEF Becomes
<1> QED BY <1>2, <1>3, <1>4, <1>5

LEMMA PodMovesMoves ==
  ASSUME TypeInv, NEW n \in Nodes, PodMoves(n)
  PROVE  CpOK'
<1>1. CpTypes
  BY TypeParts DEF CpOK
<1>2. pods' \in [Nodes -> {"old", "going", "none", "new", "ready"}]
  <2>1. pods \in [Nodes -> {"old", "going", "none", "new", "ready"}]
    BY <1>1 DEF CpTypes
  <2>2. \/ pods' = [pods EXCEPT ![n] = "none"] \/ pods' = [pods EXCEPT ![n] = "new"]
        \/ pods' = [pods EXCEPT ![n] = "ready"]
    <3>1. CASE pods[n] = "going"
      BY <3>1 DEF PodMoves
    <3>2. CASE pods[n] = "none"
      BY <3>2 DEF PodMoves
    <3>3. CASE pods[n] = "new"
      BY <3>3 DEF PodMoves
    <3> QED BY <3>1, <3>2, <3>3 DEF PodMoves
  <2> QED BY <2>1, <2>2
<1>3. UNCHANGED <<cl, clJob, attempts, asked, nodes, nodeJob>>
  BY DEF PodMoves, rest
<1>4. CpTypes'
  BY <1>1, <1>2, <1>3 DEF CpTypes
<1> QED BY <1>3, <1>4, TallyKept DEF CpOK

LEMMA StreamMoves ==
  ASSUME TypeInv, StreamCluster \/ \E n \in Nodes : StreamNode(n)
  PROVE  StreamsOK'
<1>1. /\ cl \in Clusters /\ clSeen \in Clusters /\ nodes \in [Nodes -> NodeStatuses]
      /\ seen \in [Nodes -> NodeStatuses]
  BY TypeParts DEF CpOK, CpTypes, StreamsOK
<1> QED BY <1>1 DEF StreamCluster, StreamNode, StreamsOK
\* The copy a pass begins with.
LEMMA ReadCopies ==
  ASSUME TypeInv, NEW o \in Ops, UNCHANGED <<env, opsLog>>, ReadAs(o)
  PROVE  Copies'
<1>1. Versions /\ Outsiders
  BY TypeParts DEF Copies
<1>2. Versions' /\ Outsiders'
  BY <1>1 DEF Versions, Outsiders, Fits, Rolls, Action, Op
<1>3. /\ o \in DOMAIN Action /\ pass'.op = o /\ pass'.obj = Cached(opsLog[o])
      /\ pass'.fresh = Current(opsLog[o])
  BY DEF ReadAs
<1>4. Current(opsLog[o]) => Cached(opsLog[o]) = Op(o)
  BY OpEnds
<1>5. Planned(Cached(opsLog[o])) => Planned(Op(o))
  <2>1. Len(opsLog[o]) \in Nat \ {0} /\ Cached(opsLog[o]) = opsLog[o][1]
    BY OpEnds
  <2>2. 1 \in 1..Len(opsLog[o])
    BY <2>1
  <2> QED BY <1>1, <1>3, <2>1, <2>2 DEF Versions
<1>6. Stored(opsLog'[pass'.op]) = Op(o)
  BY <1>3 DEF Op
<1>7. FreshIsStored' /\ PlanKnown'
  BY <1>3, <1>4, <1>5, <1>6 DEF FreshIsStored, PlanKnown, SameStatus, At, Op
<1> QED BY <1>2, <1>7 DEF Copies

\* Every step keeps the types, and what the versions and the pass look like.
LEMMA TypeNext ==
  ASSUME TypeInv, Next
  PROVE  TypeInv'
<1> USE DEF cpVars, streams, history
<1>0. UNCHANGED env /\ env' \in Envs
  BY TypeParts DEF Next
<1>1. ASSUME NEW o \in Ops, Reconcile(o) PROVE TypeInv'
  <2>1. Settles /\ (UNCHANGED pass \/ ReadAs(o)) /\ UNCHANGED <<opsLog, clusterLog, cpVars, streams, history>>
    BY <1>0, <1>1, ReconcileMoves DEF Reconcile
  <2>2. Copies'
    BY <1>0, <2>1, ReadCopies, TypeKept
  <2> QED BY <1>0, <2>1, <2>2, TypeKept, TypePartsNext DEF Settles
<1>2. CASE AddFinalizer
  BY <1>0, <1>2, AddFinalizerMoves, TypeKept, TypePartsNext DEF AddFinalizer, Settles
<1>3. CASE AcquireLock
  <2>1. Settles /\ LockOK' /\ Locks /\ UNCHANGED <<opsLog, cpVars, streams, history>> /\ ~At("idle")
    BY <1>0, <1>3, AcquireLockMoves DEF AcquireLock, At
  <2>2. Copies'
    BY <1>0, <2>1, CopiesHeld DEF Locks, Sent, GoesTo
  <2> QED BY <1>0, <2>1, <2>2, TypeKept, TypePartsNext DEF Settles
<1>4. CASE Claim
  BY <1>0, <1>4, ClaimMoves, TypeKept, TypePartsNext DEF Claim, Settles
<1>5. CASE Call
  <2>1. /\ Settles /\ Called /\ CpOK' /\ HistoryOK' /\ UNCHANGED <<opsLog, clusterLog, streams>>
        /\ ~At("idle")
    BY <1>0, <1>5, CallMoves, CallType DEF Call, At
  <2>2. Copies'
    BY <1>0, <2>1, CopiesHeld DEF Called, Sent
  <2> QED BY <1>0, <2>1, <2>2, TypeKept, TypePartsNext DEF Settles
<1>6. CASE WriteStatus
  <2>1. Settles /\ LogsOK' /\ Copies' /\ UNCHANGED <<clusterLog, cpVars, streams, history>>
    BY <1>0, <1>6, WriteStatusMoves DEF WriteStatus
  <2> QED BY <1>0, <2>1, TypeKept, TypePartsNext DEF Settles
<1>7. CASE ReleaseLock
  <2>1. /\ Settles /\ LockOK' /\ Releases /\ UNCHANGED <<opsLog, cpVars, streams, history>>
        /\ ~At("idle")
    BY <1>0, <1>7, ReleaseLockMoves DEF ReleaseLock, At
  <2>2. Copies'
    BY <1>0, <2>1, CopiesHeld DEF Releases, GoesTo
  <2> QED BY <1>0, <2>1, <2>2, TypeKept, TypePartsNext DEF Settles
<1>8. CASE DropFinalizer
  BY <1>0, <1>8, DropFinalizerMoves, TypeKept, TypePartsNext DEF DropFinalizer, Settles
<1>9. CASE Advance
  <2>1. /\ Settles /\ Advanced /\ UNCHANGED <<opsLog, clusterLog, cpVars, streams, history>>
        /\ ~At("idle")
    BY <1>0, <1>9, AdvanceMoves DEF Advance, At
  <2>2. Copies'
    BY <1>0, <2>1, CopiesHeld DEF Advanced, Sent, GoesTo, Walks
  <2> QED BY <1>0, <2>1, <2>2, TypeKept, TypePartsNext DEF Settles
<1>10. CASE WalkStep
  <2>1. /\ Settles /\ Walked /\ CpOK' /\ UNCHANGED <<opsLog, clusterLog, streams, history>>
        /\ ~At("idle")
    BY <1>0, <1>10, WalkStepMoves, WalkStepPods DEF WalkStep, At
  <2>2. Copies'
    BY <1>0, <2>1, CopiesHeld DEF Walked, Sent, GoesTo, Leaves
  <2> QED BY <1>0, <2>1, <2>2, TypeKept, TypePartsNext DEF Settles
<1>11. ASSUME NEW o \in DOMAIN Action, DeliverOp(o) PROVE TypeInv'
  <2>1. /\ LogsOK' /\ Copies' /\ queue' \subseteq Ops
        /\ UNCHANGED <<clusterLog, pass, cpVars, streams, history>>
    BY <1>0, <1>11, DeliverOpMoves DEF DeliverOp
  <2> QED BY <1>0, <2>1, TypeKept, TypePartsNext
<1>12. ASSUME NEW o \in DOMAIN Action, NEW g, Ages(g), Ticks(o, g) PROVE TypeInv'
  <2>1. /\ LogsOK' /\ PassOK' /\ Copies'
        /\ UNCHANGED <<clusterLog, queue, cpVars, streams, history>>
    BY <1>0, <1>12, TickMoves DEF Ticks
  <2> QED BY <1>0, <2>1, TypeKept, TypePartsNext
<1>13. ASSUME NEW o \in DOMAIN Action, SetAbort(o) \/ Delete(o) PROVE TypeInv'
  <2>1. /\ Disturb(o) /\ UNCHANGED <<clusterLog, queue, cpVars, streams, history>>
        /\ \E w : Asks(o, w)
    BY <1>0, <1>13, SetAbortAsks, DeleteAsks DEF SetAbort, Delete
  <2>2. LogsOK' /\ PassOK' /\ Copies'
    BY <1>0, <2>1, AsksMoves
  <2> QED BY <1>0, <2>1, <2>2, TypeKept, TypePartsNext
<1>14. CASE DeliverCluster
  <2>1. LockOK' /\ queue' \subseteq Ops /\ UNCHANGED <<opsLog, pass, cpVars, streams, history>>
    BY <1>14, DeliverClusterMoves DEF DeliverCluster
  <2> QED BY <1>0, <2>1, TypeKept, TypePartsNext
<1>15. CASE ClusterWrite
  <2>1. LockOK' /\ UNCHANGED <<opsLog, queue, pass, cpVars, streams, history>>
    BY <1>15, ClusterWriteMoves DEF ClusterWrite
  <2> QED BY <1>0, <2>1, TypeKept, TypePartsNext
<1>16. CASE Crash
  <2>1. /\ Settles /\ Copies' /\ StreamsOK' /\ HistoryOK'
        /\ UNCHANGED <<opsLog, clusterLog, cpVars, asked>>
    BY <1>0, <1>16, CrashMoves DEF Crash
  <2> QED BY <1>0, <2>1, TypeKept, TypePartsNext DEF Settles
<1>17. CASE CpCluster \/ CpRebalanced
  <2>1. CpOK' /\ UNCHANGED <<opsLog, clusterLog, queue, pass, streams, history>>
    BY <1>17, CpClusterMoves, CpRebalancedMoves DEF CpCluster, CpRebalanced, rest
  <2> QED BY <1>0, <2>1, TypeKept, TypePartsNext
<1>18. ASSUME NEW n \in Nodes, CpNodeBegins(n) \/ CpNodeEnds(n) \/ CpFault(n) \/ CpRemoves(n)
       PROVE  TypeInv'
  <2>1. PICK st : Becomes(n, st)
    BY <1>18, NodeStatusNext
  <2>2. CpOK' /\ HistoryOK'
    BY <1>18, <2>1, NodeStatusNext, NodeBecomesMoves DEF Becomes
  <2>3. UNCHANGED <<opsLog, clusterLog, queue, pass, streams>>
    BY <2>1 DEF Becomes, NodeBecomes, rest
  <2> QED BY <1>0, <2>2, <2>3, TypeKept, TypePartsNext
<1>19. ASSUME NEW n \in Nodes, PodMoves(n) PROVE TypeInv'
  <2>1. CpOK' /\ UNCHANGED <<opsLog, clusterLog, queue, pass, streams, history>>
    BY <1>19, PodMovesMoves DEF PodMoves, rest
  <2> QED BY <1>0, <2>1, TypeKept, TypePartsNext
<1>20. CASE StreamCluster \/ \E n \in Nodes : StreamNode(n)
  <2>1. StreamsOK' /\ UNCHANGED <<opsLog, clusterLog, queue, pass, cpVars, history>>
    BY <1>20, StreamMoves DEF StreamCluster, StreamNode, rest
  <2> QED BY <1>0, <2>1, TypeKept, TypePartsNext
<1>21. CASE Worker
  BY <1>1, <1>2, <1>3, <1>4, <1>5, <1>6, <1>7, <1>8, <1>9, <1>10, <1>21 DEF Worker, PassStep
<1>22. CASE ControlPlane
  BY <1>17, <1>18, <1>19, <1>20, <1>22 DEF ControlPlane
<1>23. CASE Environment
  <2>1. ASSUME NEW o \in DOMAIN Action,
               LeaseExpires(o) \/ GraceOver(o) \/ \E s \in WorkSteps : DeadlinePasses(o, s)
        PROVE  \E g : Ages(g) /\ Ticks(o, g)
    <3>1. o \in Ops
      BY TypeParts, EnvType
    <3>2. CASE LeaseExpires(o)
      BY <3>1, <3>2, LeaseTicks, LeaseAges
    <3>3. CASE GraceOver(o)
      BY <3>1, <3>3, GraceTicks, GraceAges
    <3>4. ASSUME NEW s \in WorkSteps, DeadlinePasses(o, s) PROVE \E g : Ages(g) /\ Ticks(o, g)
      BY <3>1, <3>4, DeadlineTicks, DeadlineAges
    <3> QED BY <2>1, <3>2, <3>3, <3>4
  <2> QED BY <1>11, <1>12, <1>13, <1>14, <1>15, <1>16, <1>18, <1>23, <2>1 DEF Environment
<1> QED BY <1>21, <1>22, <1>23 DEF Next

LEMMA OneVersion ==
  ASSUME NEW S, NEW x \in S
  PROVE  <<x>> \in Seq(S) /\ Len(<<x>>) = 1 /\ <<x>>[1] = x
  OBVIOUS

LEMMA TypeInit ==
  ASSUME Init
  PROVE  TypeInv
<1>0. env \in Envs /\ env.start \in RestStatuses /\ DOMAIN Action \subseteq Ops
  BY ClusterOpsAssumption DEF Init, Action
<1>1. LogsOK /\ Versions /\ Outsiders
  <2> DEFINE v(o) == [NewOp EXCEPT !.exists = o \in DOMAIN Action]
  <2>1. \A o \in Ops : /\ v(o) \in OpsObj /\ v(o).step = "" /\ v(o).index = 0
                       /\ v(o).exists = (o \in DOMAIN Action)
    <3>1. \A o \in Ops : (o \in DOMAIN Action) \in BOOLEAN
      OBVIOUS
    <3> QED BY <3>1, NewTypes DEF NewOp, OpsObj
  <2>2. opsLog = [o \in Ops |-> <<v(o)>>]
    BY DEF Init
  <2> HIDE DEF v
  <2>3. \A o \in Ops : <<v(o)>> \in Seq(OpsObj) /\ Len(<<v(o)>>) = 1 /\ <<v(o)>>[1] = v(o)
    BY <2>1, OneVersion
  <2>4. opsLog \in [Ops -> Seq(OpsObj)] /\ \A o \in Ops : Len(opsLog[o]) = 1 /\ opsLog[o][1] = v(o)
    BY <2>2, <2>3
  <2>5. LogsOK
    BY <2>4, Bounds DEF LogsOK
  <2>6. Versions
    <3> SUFFICES ASSUME NEW o \in DOMAIN Action, NEW i \in 1..Len(opsLog[o])
                 PROVE  Fits(o, opsLog[o][i]) /\ (Planned(opsLog[o][i]) => Planned(Op(o)))
      BY DEF Versions
    <3>1. o \in Ops
      BY <1>0
    <3>2. opsLog[o][i] = v(o) /\ Op(o) = v(o)
      BY <2>4, <3>1 DEF Op, Stored
    <3> QED BY <2>1, <3>1, <3>2 DEF Fits
  <2>7. Outsiders
    <3>1. \A o \in Ops : Cached(opsLog[o]) = v(o)
      BY <2>4 DEF Cached
    <3> QED BY <2>1, <3>1 DEF Outsiders
  <2> QED BY <2>5, <2>6, <2>7
<1>2. LockOK
  BY Bounds DEF Init, LockOK, ClusterObj
<1>3. PassOK /\ FreshIsStored /\ PlanKnown
  <2>1. pass = Idle /\ PassFits(Idle)
    BY IdleSpot DEF Init, PassFits
  <2> QED BY <2>1, NewTypes, IdleSpot DEF PassOK, FreshIsStored, PlanKnown, At
<1>4. cl \in Clusters /\ cl.status # "in_activation"
  BY <1>0 DEF Init, Clusters, ClusterStatuses, RestStatuses
<1>5. CpOK /\ StreamsOK
  <2>1. Tally
    BY <1>4, Bounds DEF Init, Tally, Counted
  <2>2. CpTypes /\ StreamsOK
    BY <1>4 DEF Init, CpTypes, StreamsOK, NodeStatuses
  <2> QED BY <2>1, <2>2 DEF CpOK
<1>6. HistoryOK /\ queue \subseteq Ops
  BY <1>0, Bounds DEF Init, HistoryOK
<1> QED BY <1>0, <1>1, <1>2, <1>3, <1>5, <1>6, TypeParts DEF Copies

LEMMA TypeStep ==
  ASSUME TypeInv, [Next]_vars
  PROVE  /\ TypeInv' /\ pass' \in PassObj /\ PassFits(pass') /\ pass'.obj \in OpsObj
         /\ down' \subseteq Nodes
<1>1. CASE UNCHANGED vars
  <2>1. UNCHANGED <<env, opsLog, clusterLog, queue, pass, cpVars, streams, history>>
    BY <1>1 DEF vars, moving
  <2>2. TypeInv'
    <3>1. UNCHANGED <<opsLog, clusterLog, pass, cpVars, asked, streams, down, cycled, crashes>>
      BY <2>1 DEF history
    <3> QED BY <2>1, <3>1, TypeKept, TypePartsNext
  <2>3. pass' \in PassObj /\ pass'.obj \in OpsObj /\ down' \subseteq Nodes
    BY <2>1, PassFields, TypeParts DEF history, HistoryOK
  <2>4. PassFits(pass')
    <3>1. PassFits(pass)
      BY PassFields
    <3> QED BY <2>1, <3>1 DEF PassFits, WriteFits, Fits, Rolls, Action
  <2> QED BY <2>2, <2>3, <2>4
<1>2. CASE Next
  <2>1. TypeInv' /\ UNCHANGED env
    BY <1>2, TypeNext DEF Next
  <2>2. PassOK' /\ HistoryOK'
    BY <2>1 DEF TypeInv, TypeOK, PassOK, HistoryOK
  <2>3. pass' \in PassObj /\ PassFits(pass)' /\ down' \subseteq Nodes
    BY <2>2 DEF PassOK, HistoryOK
  <2>4. PassFits(pass')
    BY <2>1, <2>3 DEF PassFits, WriteFits, Fits, Rolls, Action
  <2>5. pass'.obj \in OpsObj
    BY <2>3 DEF PassObj
  <2> QED BY <2>1, <2>3, <2>4, <2>5
<1> QED BY <1>1, <1>2

LEMMA TypeInvariant == Spec => []TypeInv
  BY TypeInit, TypeStep, PTL DEF Spec

\* Every variable keeps its type, for every set of operations and nodes, any lag and
\* any number of operator restarts: the pass never writes a plan position, a step or
\* a phase that the API object does not have.
THEOREM TypeCorrect == Spec => []TypeOK
<1>1. TypeInv => TypeOK
  BY DEF TypeInv
<1> QED BY <1>1, TypeInvariant, PTL
-------------------------------------------------------------------------------
(* A pass that reads its operation promptly.                               *)

\* A write that lands makes the mutation of the stored status.
LEMMA LandedTurns ==
  ASSUME TypeInv, StepInv, At("write"), Landed
  PROVE  /\ Stored(opsLog'[pass.op]) = WithStatus(Op(pass.op), Mutated)
         /\ \A p \in Ops \ {pass.op} : Op(p)' = Op(p)
         /\ Mutates(Op(pass.op), Stored(opsLog'[pass.op]), pass.do, pass.arg, Op(pass.op),
                    pass.list)
         /\ SameStatus(WithStatus(pass.obj, Mutated), Stored(opsLog'[pass.op]))
         /\ SameMeta(WithStatus(pass.obj, Mutated), pass.obj)
         /\ SameStatus(pass.obj, Op(pass.op))
<1> DEFINE v == Op(pass.op)
           w == WithStatus(v, Mutated)
<1>0. ~At("idle")
  BY DEF At
<1>1. pass.op \in Ops /\ v \in OpsObj /\ pass.obj \in OpsObj /\ SameStatus(pass.obj, v)
  BY <1>0, PassFields, OpEnds DEF StepInv, InStep
<1>2. /\ Mutated \in OpsObj /\ SameStatus(WriteBase, v) /\ w \in OpsObj
      /\ Mutates(WriteBase, Mutated, pass.do, pass.arg, pass.obj, pass.list)
  BY DEF Landed
<1>3. Stored(opsLog'[pass.op]) = w /\ \A p \in Ops \ {pass.op} : Op(p)' = Op(p)
  BY <1>1, <1>2, OpWritten DEF Landed
<1>4. SameMeta(w, v) /\ SameStatus(w, Mutated)
  BY <1>1, <1>2, WithStatusType
<1> HIDE DEF w
<1>5. Mutates(v, w, pass.do, pass.arg, v, pass.list)
  <2>1. /\ SameStep(WriteBase, v) /\ SamePlan(WriteBase, v) /\ WriteBase.phase = v.phase
        /\ SameStep(w, Mutated) /\ SamePlan(w, Mutated) /\ w.phase = Mutated.phase
        /\ pass.obj.index = v.index /\ pass.obj.plan = v.plan
    BY <1>1, <1>2, <1>4 DEF SameStatus, SameStep, SamePlan
  <2>2. /\ SameStep(WriteBase, Mutated) => SameStep(v, w)
        /\ SamePlan(WriteBase, Mutated) => SamePlan(v, w)
        /\ \A s : Entered(Mutated, s) => Entered(w, s)
        /\ StepsPast(WriteBase, Mutated, pass.arg, pass.obj) => StepsPast(v, w, pass.arg, v)
    BY <2>1 DEF SameStep, SamePlan, Entered, StepsPast
  <2>3. SameMeta(v, w)
    BY <1>4 DEF SameMeta
  <2>4. w.plan = Mutated.plan /\ w.index = Mutated.index /\ w.skipped = Mutated.skipped
    BY <2>1 DEF SamePlan
  <2> QED BY <1>2, <2>1, <2>2, <2>3, <2>4 DEF Mutates
<1>6. SameStatus(WithStatus(pass.obj, Mutated), Mutated) /\ SameMeta(WithStatus(pass.obj, Mutated), pass.obj)
  BY <1>1, <1>2, WithStatusType
<1>7. SameStatus(WithStatus(pass.obj, Mutated), w)
  BY <1>4, <1>6 DEF SameStatus
<1> QED BY <1>1, <1>3, <1>5, <1>6, <1>7 DEF w

\* The pass goes on with the operations as they are.
LEMMA StepIs ==
  ASSUME TypeInv, StepInv, UNCHANGED <<env, opsLog>>,
         pass'.pc # "idle" => InStep(pass', Op(pass'.op))
  PROVE  StepInv'
  BY DEF StepInv, At, Op, Action

LEMMA StepFrame ==
  ASSUME TypeInv, StepInv, UNCHANGED <<env, opsLog, pass>>
  PROVE  StepInv'
  BY StepIs DEF StepInv, At

LEMMA StepIdle ==
  ASSUME TypeInv, StepInv, UNCHANGED <<env, opsLog>>, pass' = Idle
  PROVE  StepInv'
  BY StepIs, IdleSpot

LEMMA StepReads ==
  ASSUME TypeInv, StepInv, NEW o \in Ops, UNCHANGED <<env, opsLog>>, Current(opsLog[o]),
         ReadAs(o)
  PROVE  StepInv'
<1>1. Op(o) = Cached(opsLog[o]) /\ Op(o) \in OpsObj
  BY OpEnds
<1>2. InStep(pass', Op(pass'.op))
  BY <1>1 DEF ReadAs, InStep, SameStatus, AtWork, PastLock
<1> QED BY <1>2, StepIs

LEMMA StepLocks ==
  ASSUME TypeInv, StepInv, At("lock"), UNCHANGED <<env, opsLog>>, Locks
  PROVE  StepInv'
<1>0. ~At("idle")
  BY DEF At
<1>1. /\ InStep(pass, Op(pass.op)) /\ Begun(Op(pass.op)) /\ pass.obj.phase \in Phases
      /\ pass.pc = "lock"
  BY <1>0, PassFields, ObjFields DEF StepInv, At
<1>2. CASE pass' = Idle
  BY <1>2, StepIdle
<1>3. CASE Sent("finish", "Failed", "refuse") \/ Sent("hold", "", "requeue")
  <2>1. InStep(pass', Op(pass'.op))
    BY <1>1, <1>3 DEF InStep, Sent, Held, AtWork, PastLock
  <2> QED BY <2>1, StepIs
<1>4. CASE pass.obj.phase \in {"", "Pending"} /\ Sent("run", "", "step")
  <2>1. pass.obj.step = ""
    BY <1>1, <1>4 DEF InStep, Begun, SameStatus
  <2>2. InStep(pass', Op(pass'.op))
    BY <1>1, <1>4, <2>1 DEF InStep, Sent, Held, AtWork, PastLock
  <2> QED BY <2>2, StepIs
<1>5. CASE pass.obj.phase \notin {"", "Pending"} /\ GoesTo("step")
  <2>1. pass.obj.phase = "Running"
    BY <1>1, <1>5 DEF InStep, Phases, Terminal
  <2>2. InStep(pass', Op(pass'.op))
    BY <1>1, <1>5, <2>1 DEF InStep, GoesTo, Held, AtWork, PastLock
  <2> QED BY <2>2, StepIs
<1> QED BY <1>2, <1>3, <1>4, <1>5 DEF Locks

\* A pass that is at work ends, or moves on to a write.
Posts ==
  \/ pass' = Idle
  \/ /\ Held /\ pass'.pc = "write" /\ pass'.then # "drop" /\ pass'.do # "run"
     /\ pass'.do = "plan" => pass'.arg = pass.obj.step

LEMMA StepPosts ==
  ASSUME TypeInv, StepInv, ~At("idle"), AtWork(pass), UNCHANGED <<env, opsLog>>, Posts
  PROVE  StepInv'
<1>1. InStep(pass, Op(pass.op))
  BY DEF StepInv
<1>2. CASE pass' = Idle
  BY <1>2, StepIdle
<1>3. CASE /\ Held /\ pass'.pc = "write" /\ pass'.then # "drop" /\ pass'.do # "run"
           /\ pass'.do = "plan" => pass'.arg = pass.obj.step
  <2>1. InStep(pass', Op(pass'.op))
    BY <1>1, <1>3 DEF InStep, Held, AtWork, PastLock, Terminal
  <2> QED BY <2>1, StepIs
<1> QED BY <1>2, <1>3 DEF Posts

LEMMA StepAdvances ==
  ASSUME TypeInv, StepInv, At("step"), UNCHANGED <<env, opsLog>>, Advanced
  PROVE  StepInv'
<1>0. ~At("idle") /\ AtWork(pass) /\ pass.pc = "step"
  BY DEF At, AtWork, PastLock
<1>1. InStep(pass, Op(pass.op))
  BY <1>0 DEF StepInv
<1>2. CASE GoesTo("claim") /\ pass.obj.step \in CallSteps
  <2>1. InStep(pass', Op(pass'.op))
    BY <1>0, <1>1, <1>2 DEF InStep, GoesTo, Held, AtWork, PastLock
  <2> QED BY <2>1, StepIs
<1>3. CASE Walks
  <2>1. InStep(pass', Op(pass'.op))
    BY <1>0, <1>1, <1>3 DEF InStep, Walks, Held, AtWork, PastLock
  <2> QED BY <2>1, StepIs
<1>4. CASE Posts
  BY <1>0, <1>4, StepPosts
<1> QED BY <1>2, <1>3, <1>4 DEF Advanced, CallSteps, Posts, Sent

LEMMA StepWalks ==
  ASSUME TypeInv, StepInv, At("walk"), UNCHANGED <<env, opsLog>>, Walked
  PROVE  StepInv'
<1>0. ~At("idle") /\ AtWork(pass) /\ pass.pc = "walk"
  BY DEF At, AtWork, PastLock
<1>1. InStep(pass, Op(pass.op)) /\ pass.arg = pass.obj.step
  BY <1>0 DEF StepInv, InStep
<1>2. CASE GoesTo("claim") /\ pass.obj.step \in CallSteps
  <2>1. InStep(pass', Op(pass'.op))
    BY <1>0, <1>1, <1>2 DEF InStep, GoesTo, Held, AtWork, PastLock
  <2> QED BY <2>1, StepIs
<1>3. CASE Posts
  BY <1>0, <1>3, StepPosts
<1> QED BY <1>1, <1>2, <1>3 DEF Walked, Leaves, CallSteps, Posts, Sent

\* A version with the stored status, and a pass that has ended.
LEMMA StepEnds ==
  ASSUME TypeInv, StepInv, UNCHANGED env, NEW w \in OpsObj, pass.op \in Ops,
         SameStatus(w, Op(pass.op)), Room(opsLog[pass.op], MaxLag), pass' = Idle,
         opsLog' = [opsLog EXCEPT ![pass.op] = Written(@, w)]
  PROVE  StepInv'
<1>1. Stored(opsLog'[pass.op]) = w /\ \A p \in Ops \ {pass.op} : Op(p)' = Op(p)
  BY OpWritten
<1>2. ASSUME NEW p \in DOMAIN Action PROVE Begun(Op(p)')
  <2>1. p \in Ops /\ Begun(Op(p))
    BY TypeParts, EnvType DEF StepInv
  <2>2. CASE p = pass.op
    BY <1>1, <2>1, <2>2 DEF Begun, SameStatus, Op
  <2>3. CASE p # pass.op
    BY <1>1, <2>1, <2>3
  <2> QED BY <2>2, <2>3
<1> QED BY <1>2, IdleSpot DEF StepInv, At, Begun, Action

LEMMA StepClaims ==
  ASSUME TypeInv, StepInv, At("claim"), UNCHANGED env, pass.fresh, Claimed \in OpsObj,
         Room(opsLog[pass.op], MaxLag),
         opsLog' = [opsLog EXCEPT ![pass.op] = Written(@, Claimed)],
         pass'.pc = "call", pass'.op = pass.op, pass'.obj = Claimed,
         pass'.fresh = pass.fresh, pass'.then = pass.then
  PROVE  StepInv'
<1>0. ~At("idle") /\ pass.pc = "claim"
  BY DEF At
<1>1. /\ InStep(pass, Op(pass.op)) /\ pass.op \in Ops /\ pass.op \in DOMAIN Action
      /\ Op(pass.op) \in OpsObj
  BY <1>0, PassFields, OpEnds DEF StepInv
<1>2. Stored(opsLog'[pass.op]) = Claimed /\ \A p \in Ops \ {pass.op} : Op(p)' = Op(p)
  BY <1>1, OpWritten
<1>3. /\ Claimed.step = Op(pass.op).step /\ Claimed.phase = Op(pass.op).phase
      /\ SameMeta(Claimed, Op(pass.op))
  BY <1>1 DEF Claimed, OpsObj, SameMeta
<1>4. pass.obj.step \in DownSteps => Op(pass.op).exists /\ ~Op(pass.op).deleted
  BY <1>0, <1>1 DEF InStep
<1>5. InStep(pass', Claimed)
  <2>1. /\ pass.obj.step = Op(pass.op).step /\ pass.obj.phase = Op(pass.op).phase
        /\ SameStatus(Claimed, Claimed)
    BY <1>1 DEF InStep, SameStatus
  <2>2. AtWork(pass)
    BY <1>0 DEF AtWork, PastLock
  <2>3. pass.obj.phase = "Running" /\ pass.obj.step \in CallSteps
    BY <1>0, <1>1, <2>2 DEF InStep
  <2>4. pass.then = "drop" => Op(pass.op).deleted
    BY <1>1 DEF InStep
  <2> QED BY <1>3, <1>4, <2>1, <2>3, <2>4 DEF InStep, SameMeta, Terminal
<1>6. ASSUME NEW p \in DOMAIN Action PROVE Begun(Op(p)')
  <2>1. p \in Ops /\ Begun(Op(p))
    BY TypeParts, EnvType DEF StepInv
  <2>2. CASE p = pass.op
    BY <1>2, <1>3, <2>1, <2>2 DEF Begun, Op
  <2>3. CASE p # pass.op
    BY <1>2, <2>1, <2>3
  <2> QED BY <2>2, <2>3
<1> QED BY <1>2, <1>5, <1>6 DEF StepInv, At, Begun, Action, Op

LEMMA StepLands ==
  ASSUME TypeInv, StepInv, At("write"), UNCHANGED env, Landed, GoesOn
  PROVE  StepInv'
<1> DEFINE v == Op(pass.op)
           w == Stored(opsLog'[pass.op])
           x == WithStatus(pass.obj, Mutated)
<1>0. ~At("idle") /\ pass.pc = "write"
  BY DEF At
<1>1. /\ InStep(pass, v) /\ pass.op \in Ops /\ pass.op \in DOMAIN Action
      /\ Begun(v) /\ PassFits(pass)
  BY <1>0, PassFields DEF StepInv
<1>2. WriteFits(pass.do, pass.arg, pass.then, pass.op, pass.obj)
  BY <1>0, <1>1 DEF PassFits
<1>3. /\ \A p \in Ops \ {pass.op} : Op(p)' = Op(p)
      /\ Mutates(v, w, pass.do, pass.arg, v, pass.list)
      /\ SameStatus(x, w) /\ SameMeta(x, pass.obj) /\ SameStatus(pass.obj, v)
  BY LandedTurns
<1>4. pass.do \in Doings
  BY <1>2, PassFields DEF WriteFits
<1>5. v.phase = pass.obj.phase /\ v.step = pass.obj.step
  BY <1>3 DEF SameStatus
<1> HIDE DEF v, w, x
<1>6. AtWork(pass) => v.phase = "Running"
  BY <1>1, <1>5 DEF InStep
<1>7. Begun(w)
  <2>1. CASE pass.do \in {"run", "hold", "note"}
    BY <1>0, <1>1, <1>3, <1>5, <2>1 DEF Mutates, SameStep, Begun, InStep, Terminal
  <2>2. CASE pass.do = "record"
    <3>1. pass.arg \in StepsOf(Action[pass.op])
      BY <1>2, <2>2 DEF WriteFits
    <3>2. pass.arg # "Completed"
      BY <3>1 DEF StepsOf, RollSteps
    <3> QED BY <1>3, <2>2, <3>2 DEF Mutates, Entered, Begun
  <2>3. CASE pass.do \in {"plan", "walked"}
    BY <1>1, <1>3, <2>3 DEF Mutates, SameStep, Begun
  <2>4. CASE pass.do \in {"next", "retry"}
    <3>1. v.phase = "Running" /\ (pass.do = "retry" => pass.arg = "Requesting")
      BY <1>0, <1>2, <1>6, <2>4 DEF AtWork, PastLock, WriteFits
    <3> QED BY <1>3, <2>4, <3>1 DEF Mutates, Entered, Begun
  <2>5. CASE pass.do = "finish"
    BY <1>2, <1>3, <2>5 DEF Mutates, Entered, Begun, Terminal, WriteFits
  <2> QED BY <1>4, <2>1, <2>2, <2>3, <2>4, <2>5 DEF Doings
<1>8. pass'.pc # "idle" => pass'.op = pass.op /\ InStep(pass', w)
  <2>1. CASE pass' = Idle
    BY <2>1, IdleSpot
  <2>2. CASE pass.then \in {"step", "walk"} /\ pass'.pc = pass.then /\ pass'.then = "end"
             /\ pass'.arg = pass.arg /\ pass'.obj = x /\ pass'.op = pass.op
    <3>1. (pass.do = "run" /\ pass.then = "step") \/ (pass.do = "plan" /\ pass.then = "walk")
      BY <1>2, <2>2 DEF WriteFits
    <3>2. x.phase = "Running" /\ x.step = pass.obj.step /\ (pass.do = "plan" => x.step = pass.arg)
      <4>1. x.phase = w.phase /\ x.step = w.step
        BY <1>3 DEF SameStatus
      <4>2. CASE pass.do = "run"
        BY <1>3, <1>5, <4>1, <4>2 DEF Mutates, SameStep
      <4>3. CASE pass.do = "plan" /\ pass.then = "walk"
        <5>1. AtWork(pass)
          BY <1>0, <4>3 DEF AtWork, PastLock
        <5>2. pass.arg = pass.obj.step
          BY <1>0, <1>1, <4>3 DEF InStep
        <5> QED BY <1>3, <1>5, <1>6, <4>1, <4>3, <5>1, <5>2 DEF Mutates, SameStep
      <4> QED BY <3>1, <4>2, <4>3
    <3>3. x.step \in {"", "CheckingPeers"}
      BY <1>0, <1>1, <1>2, <3>1, <3>2 DEF InStep, WriteFits
    <3> QED BY <1>3, <2>2, <3>1, <3>2, <3>3 DEF InStep, Terminal, DownSteps
  <2>3. CASE /\ pass.then = "succeed" /\ pass'.pc = "write" /\ pass'.do = "finish"
             /\ pass'.arg = "Succeeded" /\ pass'.then = "release"
             /\ pass'.obj = x /\ pass'.op = pass.op
    <3>1. pass.do = "walked"
      BY <1>2, <2>3 DEF WriteFits
    <3>2. AtWork(pass)
      BY <1>0, <2>3, <3>1 DEF AtWork, PastLock
    <3>3. x.phase = "Running"
      BY <1>3, <1>6, <3>1, <3>2 DEF Mutates, SameStatus
    <3>4. x.step \in DownSteps => w.exists /\ ~w.deleted
      <4>1. x.step = v.step /\ w.exists = v.exists /\ w.deleted = v.deleted
        BY <1>3, <3>1 DEF Mutates, SameStep, SameStatus, SameMeta
      <4> QED BY <1>0, <1>1, <1>5, <4>1 DEF InStep
    <3> QED BY <1>3, <2>3, <3>3, <3>4 DEF InStep, Terminal
  <2>4. CASE /\ pass.then \in {"release", "refuse"} /\ pass'.pc = "release"
             /\ pass'.then \in {"end", "retry"} /\ pass'.obj = x /\ pass'.op = pass.op
    <3>1. pass.do = "finish" /\ pass.arg \in {"Succeeded", "Failed", "Aborted"}
      BY <1>2, <2>4 DEF WriteFits
    <3>2. Terminal(x.phase)
      BY <1>3, <3>1 DEF Mutates, SameStatus, Terminal
    <3>3. ~AtWork(pass')
      BY <2>4 DEF AtWork, PastLock
    <3> QED BY <1>3, <2>4, <3>2, <3>3 DEF InStep
  <2> QED BY <2>1, <2>2, <2>3, <2>4 DEF GoesOn, x
<1>9. ASSUME NEW p \in DOMAIN Action PROVE Begun(Op(p)')
  <2>1. p \in Ops /\ Begun(Op(p))
    BY TypeParts, EnvType DEF StepInv
  <2>2. CASE p = pass.op
    BY <1>7, <2>2 DEF w, Op
  <2>3. CASE p # pass.op
    BY <1>3, <2>1, <2>3
  <2> QED BY <2>2, <2>3
<1> QED BY <1>8, <1>9 DEF StepInv, At, Begun, Action, Op, w

LEMMA StepReleases ==
  ASSUME TypeInv, StepInv, At("release"), UNCHANGED <<env, opsLog>>, Releases
  PROVE  StepInv'
<1>0. ~At("idle") /\ pass.pc = "release"
  BY DEF At
<1>1. InStep(pass, Op(pass.op))
  BY <1>0 DEF StepInv
<1>2. CASE pass' = Idle
  BY <1>2, StepIdle
<1>3. CASE pass.then = "drop" /\ GoesTo("drop")
  <2>1. InStep(pass', Op(pass'.op))
    BY <1>1, <1>3 DEF InStep, GoesTo, Held, AtWork, PastLock
  <2> QED BY <2>1, StepIs
<1> QED BY <1>2, <1>3 DEF Releases

LEMMA StepTicks ==
  ASSUME TypeInv, StepInv, NEW o \in DOMAIN Action, NEW g, Ages(g), Ticks(o, g), UNCHANGED env
  PROVE  StepInv'
<1>1. /\ Op(o)' = g[Op(o)] /\ \A p \in Ops \ {o} : Op(p)' = Op(p)
      /\ pass'.op = pass.op /\ pass'.pc = pass.pc /\ pass'.do = pass.do
      /\ pass'.arg = pass.arg /\ pass'.then = pass.then /\ pass'.fresh = pass.fresh
      /\ pass'.obj = IF pass.op = o THEN g[pass.obj] ELSE pass.obj
  BY TickMoves
<1>2. o \in Ops /\ Op(o) \in OpsObj /\ pass.obj \in OpsObj
  BY StoredFits, PassFields
<1>3. /\ SameMeta(g[Op(o)], Op(o)) /\ g[Op(o)].phase = Op(o).phase /\ g[Op(o)].step = Op(o).step
      /\ g[pass.obj].phase = pass.obj.phase /\ g[pass.obj].step = pass.obj.step
      /\ SameStatus(pass.obj, Op(o)) => SameStatus(g[pass.obj], g[Op(o)])
  BY <1>2 DEF Ages
<1>4. ASSUME NEW p \in DOMAIN Action PROVE Begun(Op(p)')
  <2>1. p \in Ops /\ Begun(Op(p))
    BY TypeParts, EnvType DEF StepInv
  <2>2. CASE p = o
    BY <1>1, <1>3, <2>1, <2>2 DEF Begun
  <2>3. CASE p # o
    BY <1>1, <2>1, <2>3
  <2> QED BY <2>2, <2>3
<1>5. ASSUME ~At("idle") PROVE InStep(pass', Stored(opsLog'[pass.op]))
  <2>1. InStep(pass, Op(pass.op)) /\ pass.op \in Ops
    BY <1>5, PassFields DEF StepInv
  <2>2. CASE pass.op = o
    <3>1. Stored(opsLog'[pass.op]) = g[Op(o)] /\ pass'.obj = g[pass.obj]
      BY <1>1, <2>2 DEF Op
    <3>2. AtWork(pass') <=> AtWork(pass)
      BY <1>1 DEF AtWork, PastLock
    <3> QED BY <1>1, <1>3, <2>1, <2>2, <3>1, <3>2 DEF InStep, SameMeta
  <2>3. CASE pass.op # o
    <3>1. Stored(opsLog'[pass.op]) = Op(pass.op) /\ pass'.obj = pass.obj
      BY <1>1, <2>1, <2>3 DEF Op
    <3> QED BY <1>1, <2>1, <3>1 DEF InStep, AtWork, PastLock
  <2> QED BY <2>2, <2>3
<1> QED BY <1>1, <1>4, <1>5 DEF StepInv, At, Begun, Action, Op

\* The user's requests leave the status alone, and the steps that must not be left
\* alone are not open to a deletion.
LEMMA AsksFacts ==
  ASSUME TypeInv, NEW o \in DOMAIN Action, NEW w, Asks(o, w)
  PROVE  /\ o \in Ops /\ w \in OpsObj /\ SameStatus(w, Op(o))
         /\ Op(o)' = w /\ Stored(opsLog'[o]) = w
         /\ \A p \in Ops \ {o} : Op(p)' = Op(p)
         /\ Op(o).deleted => w.deleted
         /\ w.exists => Op(o).exists
         /\ Op(o).step \in DownSteps /\ ~Terminal(Op(o).phase) =>
              w.exists = Op(o).exists /\ w.deleted = Op(o).deleted
<1>1. o \in Ops /\ Op(o) \in OpsObj
  BY StoredFits
<1>2. /\ w \in OpsObj /\ SameStatus(w, Op(o)) /\ Room(opsLog[o], MaxLag)
      /\ opsLog' = [opsLog EXCEPT ![o] = Written(@, w)]
      /\ w.deleted # Op(o).deleted \/ w.exists # Op(o).exists => Deletable(Op(o))
  BY DEF Asks
<1>3. Op(o)' = w /\ Stored(opsLog'[o]) = w /\ \A p \in Ops \ {o} : Op(p)' = Op(p)
  BY <1>1, <1>2, OpWritten
<1>4. (Op(o).deleted => w.deleted) /\ (w.exists => Op(o).exists)
  BY <1>1 DEF Asks, OpsObj
<1>5. Op(o).step \in DownSteps /\ ~Terminal(Op(o).phase) => ~Deletable(Op(o))
  BY DEF DownSteps, Deletable, Abortable
<1> QED BY <1>1, <1>2, <1>3, <1>4, <1>5

LEMMA StepAsks ==
  ASSUME TypeInv, StepInv, NEW o \in DOMAIN Action, NEW w, Asks(o, w), Disturbed(o),
         UNCHANGED env
  PROVE  StepInv'
<1>1. /\ o \in Ops /\ SameStatus(w, Op(o)) /\ Op(o)' = w /\ Stored(opsLog'[o]) = w
      /\ \A p \in Ops \ {o} : Op(p)' = Op(p)
      /\ Op(o).deleted => w.deleted
      /\ Op(o).step \in DownSteps /\ ~Terminal(Op(o).phase) =>
           w.exists = Op(o).exists /\ w.deleted = Op(o).deleted
  BY AsksFacts
<1>2. ASSUME NEW p \in DOMAIN Action PROVE Begun(Op(p)')
  <2>1. p \in Ops /\ Begun(Op(p))
    BY TypeParts, EnvType DEF StepInv
  <2>2. CASE p = o
    BY <1>1, <2>1, <2>2 DEF Begun, SameStatus
  <2>3. CASE p # o
    BY <1>1, <2>1, <2>3
  <2> QED BY <2>2, <2>3
<1>3. ASSUME ~At("idle") PROVE InStep(pass', Stored(opsLog'[pass.op]))
  <2>1. InStep(pass, Op(pass.op)) /\ pass.op \in Ops
    BY <1>3, PassFields DEF StepInv
  <2>2. AtWork(pass') <=> AtWork(pass)
    BY DEF Disturbed, AtWork, PastLock
  <2>3. CASE pass.op = o
    <3>1. SameStatus(pass.obj, w) /\ pass.obj.step = Op(o).step /\ pass.obj.phase = Op(o).phase
      BY <1>1, <2>1, <2>3 DEF InStep, SameStatus
    <3> QED BY <1>1, <2>1, <2>2, <2>3, <3>1 DEF InStep, Disturbed
  <2>4. CASE pass.op # o
    <3>1. Stored(opsLog'[pass.op]) = Op(pass.op)
      BY <1>1, <2>1, <2>4 DEF Op
    <3> QED BY <2>1, <2>2, <3>1 DEF InStep, Disturbed
  <2> QED BY <2>3, <2>4
<1> QED BY <1>2, <1>3 DEF StepInv, At, Begun, Action, Op, Disturbed
-------------------------------------------------------------------------------
(* The kinds of steps, by what they leave alone and what becomes of the    *)
(* pass: the invariants below are proved kind by kind.                     *)

Still == UNCHANGED <<clusterLog, cpVars, streams, history>>

Rests == UNCHANGED <<opsLog, pass>> /\ Still

Reads ==
  /\ At("idle") /\ UNCHANGED opsLog /\ Still
  /\ \E o \in Ops : ReadAs(o) /\ (May("opslag") \/ Current(opsLog[o]))

Stops == ~At("idle") /\ pass' = Idle /\ UNCHANGED opsLog /\ Still

Finalizes ==
  /\ pass' = Idle /\ pass.op \in DOMAIN Action /\ Still /\ Room(opsLog[pass.op], MaxLag)
  /\ \E w \in OpsObj :
       /\ SameStatus(w, Op(pass.op))
       /\ \/ At("drop") /\ ~w.exists
          \/ w.exists = Op(pass.op).exists /\ w.deleted = Op(pass.op).deleted
       /\ opsLog' = [opsLog EXCEPT ![pass.op] = Written(@, w)]

TakesLock ==
  At("lock") /\ MayReadCluster /\ Locks /\ UNCHANGED <<opsLog, cpVars, streams, history>>

Waits ==
  At("claim") /\ (pass' = Idle \/ Sent("note", "", "requeue")) /\ UNCHANGED opsLog /\ Still

Claims ==
  /\ At("claim") /\ pass.fresh /\ pass.obj.claim # "live" /\ Still
  /\ Claimed \in OpsObj /\ Room(opsLog[pass.op], MaxLag)
  /\ opsLog' = [opsLog EXCEPT ![pass.op] = Written(@, Claimed)]
  /\ pass'.pc = "call" /\ pass'.op = pass.op /\ pass'.obj = Claimed
  /\ pass'.fresh = pass.fresh /\ pass'.then = pass.then

Calls ==
  /\ At("call") /\ Called
  /\ UNCHANGED <<opsLog, clusterLog, nodes, pods, streams, cycled, crashes>>
  /\ \/ Rolls(pass.op) /\ NodeCall
     \/ ~Rolls(pass.op) /\ ClusterCall
     \/ UNCHANGED <<cl, clJob, attempts, nodeJob, down, asked>>

Lands == At("write") /\ Landed /\ GoesOn /\ Still

GivesBack ==
  At("release") /\ MayReadCluster /\ Releases /\ UNCHANGED <<opsLog, cpVars, streams, history>>

Advances == At("step") /\ StreamsPrompt /\ Advanced /\ UNCHANGED opsLog /\ Still

WalksOn ==
  /\ At("walk") /\ StreamsPrompt /\ Walked
  /\ UNCHANGED <<opsLog, clusterLog, cl, clJob, attempts, nodes, nodeJob, streams, history>>

Delivers == UNCHANGED pass /\ Still /\ \A p \in Ops : Op(p)' = Op(p)

TimeGoes ==
  \E o \in DOMAIN Action : \E g :
    /\ Ages(g) /\ Ticks(o, g)
    /\ \/ LeaseExpires(o) /\ g = LeaseClock
       \/ GraceOver(o) /\ g = GraceClock
       \/ \E s \in WorkSteps : DeadlinePasses(o, s) /\ g = DeadlineClock(s)

UserAsks == Still /\ \E o \in DOMAIN Action : \E w : Asks(o, w) /\ Disturbed(o)

ClusterMoves ==
  (DeliverCluster \/ ClusterWrite) /\ UNCHANGED <<opsLog, pass, cpVars, streams, history>>

Restarts ==
  /\ pass' = Idle /\ clSeen' = cl /\ seen' = nodes
  /\ UNCHANGED <<opsLog, clusterLog, cpVars, down, cycled, asked>>

CpMoves ==
  /\ UNCHANGED <<opsLog, clusterLog, pass, asked>>
  /\ \/ CpCluster \/ CpRebalanced \/ StreamCluster
     \/ \E n \in Nodes : \/ CpNodeBegins(n) \/ CpNodeEnds(n) \/ CpFault(n) \/ CpRemoves(n)
                         \/ PodMoves(n) \/ StreamNode(n)

Kinds ==
  \/ Rests \/ Reads \/ Stops \/ Finalizes \/ TakesLock \/ Waits \/ Claims \/ Calls \/ Lands
  \/ GivesBack \/ Advances \/ WalksOn \/ Delivers \/ TimeGoes \/ UserAsks \/ ClusterMoves
  \/ Restarts \/ CpMoves

LEMMA StepKinds ==
  ASSUME TypeInv, [Next]_vars
  PROVE  Kinds /\ UNCHANGED env
<1> USE DEF cpVars, streams, history
<1>1. CASE UNCHANGED vars
  <2>1. UNCHANGED <<env, opsLog, clusterLog, queue, pass, cpVars, streams, history>>
    BY <1>1 DEF vars, moving
  <2> QED BY <2>1 DEF Kinds, Rests, Still
<1>2. CASE Next
  <2>0. UNCHANGED env
    BY <1>2 DEF Next
  <2> SUFFICES Kinds
    BY <2>0
  <2>1. ASSUME NEW o \in Ops, Reconcile(o) PROVE Kinds
    <3>1. UNCHANGED pass \/ ReadAs(o)
      BY <2>0, <2>1, ReconcileMoves
    <3>2. /\ At("idle") /\ UNCHANGED <<opsLog, clusterLog, cpVars, streams, history>>
          /\ May("opslag") \/ Current(opsLog[o])
      BY <2>1 DEF Reconcile
    <3> QED BY <3>1, <3>2 DEF Kinds, Rests, Reads, Still
  <2>2. CASE AddFinalizer
    <3>0. ~At("idle") /\ Still
      BY <2>2 DEF AddFinalizer, At, Still
    <3>1. pass.op \in DOMAIN Action /\ pass.obj \in OpsObj /\ Op(pass.op) \in OpsObj
      BY <3>0, PassFields, OpEnds
    <3>2. pass' = Idle
      BY <2>0, <2>2, AddFinalizerMoves
    <3>3. CASE UNCHANGED opsLog
      BY <3>0, <3>2, <3>3 DEF Kinds, Stops
    <3>4. CASE /\ Room(opsLog[pass.op], MaxLag) /\ pass.obj = Op(pass.op)
               /\ opsLog' = [opsLog EXCEPT ![pass.op] =
                               Written(@, [pass.obj EXCEPT !.finalizer = TRUE])]
      <4> DEFINE w == [pass.obj EXCEPT !.finalizer = TRUE]
      <4>1. /\ w \in OpsObj /\ SameStatus(w, Op(pass.op)) /\ w.exists = Op(pass.op).exists
            /\ w.deleted = Op(pass.op).deleted
        BY <3>1, <3>4 DEF OpsObj, SameStatus
      <4> QED BY <3>0, <3>1, <3>2, <3>4, <4>1 DEF Kinds, Finalizes
    <3> QED BY <2>0, <2>2, <3>3, <3>4, AddFinalizerMoves
  <2>3. CASE DropFinalizer
    <3>0. ~At("idle") /\ At("drop") /\ Still
      BY <2>3 DEF DropFinalizer, At, Still
    <3>1. pass.op \in DOMAIN Action /\ pass.obj \in OpsObj /\ Op(pass.op) \in OpsObj
      BY <3>0, PassFields, OpEnds
    <3>2. pass' = Idle
      BY <2>0, <2>3, DropFinalizerMoves
    <3>3. CASE UNCHANGED opsLog
      BY <3>0, <3>2, <3>3 DEF Kinds, Stops
    <3>4. CASE /\ Room(opsLog[pass.op], MaxLag) /\ SameStatus(pass.obj, Op(pass.op))
               /\ opsLog' = [opsLog EXCEPT ![pass.op] =
                               Written(@, [pass.obj EXCEPT !.exists = FALSE])]
      <4> DEFINE w == [pass.obj EXCEPT !.exists = FALSE]
      <4>1. w \in OpsObj /\ SameStatus(w, pass.obj) /\ w.exists = FALSE
        BY <3>1 DEF OpsObj, SameStatus
      <4>2. SameStatus(w, Op(pass.op))
        BY <3>4, <4>1 DEF SameStatus
      <4> QED BY <3>0, <3>1, <3>2, <3>4, <4>1, <4>2 DEF Kinds, Finalizes
    <3> QED BY <2>0, <2>3, <3>3, <3>4, DropFinalizerMoves
  <2>4. CASE AcquireLock
    BY <2>0, <2>4, AcquireLockMoves DEF AcquireLock, Kinds, TakesLock
  <2>5. CASE Claim
    <3>1. At("claim") /\ Still
      BY <2>5 DEF Claim, Still
    <3> QED BY <2>0, <2>5, <3>1, ClaimMoves DEF Kinds, Waits, Claims
  <2>6. CASE Call
    <3>1. Called
      BY <2>0, <2>6, CallMoves
    <3>2. At("call") /\ UNCHANGED <<opsLog, clusterLog, nodes, pods, streams, cycled, crashes>>
      BY <2>6 DEF Call
    <3>3. \/ Rolls(pass.op) /\ NodeCall
          \/ ~Rolls(pass.op) /\ ClusterCall
          \/ UNCHANGED <<cl, clJob, attempts, nodeJob, down, asked>>
      BY <2>6 DEF Call, Rolls
    <3> QED BY <3>1, <3>2, <3>3 DEF Kinds, Calls
  <2>7. CASE WriteStatus
    <3>1. At("write") /\ ~At("idle") /\ Still
      BY <2>7 DEF WriteStatus, At, Still
    <3> QED BY <2>0, <2>7, <3>1, WriteStatusMoves DEF Kinds, Stops, Lands
  <2>8. CASE ReleaseLock
    BY <2>0, <2>8, ReleaseLockMoves DEF ReleaseLock, Kinds, GivesBack
  <2>9. CASE StreamsPrompt /\ Advance
    <3>1. At("step") /\ UNCHANGED opsLog /\ Still
      BY <2>9 DEF Advance, Still
    <3> QED BY <2>0, <2>9, <3>1, AdvanceMoves DEF Kinds, Advances
  <2>10. CASE StreamsPrompt /\ WalkStep
    <3>1. At("walk") /\ UNCHANGED <<opsLog, clusterLog, cl, clJob, attempts, nodes, nodeJob, streams, history>>
      BY <2>10 DEF WalkStep
    <3> QED BY <2>0, <2>10, <3>1, WalkStepMoves DEF Kinds, WalksOn
  <2>11. CASE Worker
    BY <2>1, <2>2, <2>3, <2>4, <2>5, <2>6, <2>7, <2>8, <2>9, <2>10, <2>11 DEF Worker, PassStep
  <2>12. CASE ControlPlane
    BY <2>12 DEF ControlPlane, Kinds, CpMoves, CpCluster, CpRebalanced, StreamCluster,
         CpNodeBegins, CpNodeEnds, PodMoves, StreamNode, NodeBecomes, rest
  <2>13. CASE Environment
    <3>1. ASSUME NEW o \in DOMAIN Action, DeliverOp(o) PROVE Kinds
      <4>1. o \in Ops
        BY TypeParts, EnvType
      <4>2. \A p \in Ops : Op(p)' = Op(p)
        BY <3>1, <4>1, OpDelivered
      <4> QED BY <3>1, <4>2 DEF Kinds, Delivers, DeliverOp, Still
    <3>2. ASSUME NEW o \in DOMAIN Action,
                 LeaseExpires(o) \/ GraceOver(o) \/ \E s \in WorkSteps : DeadlinePasses(o, s)
          PROVE  Kinds
      <4>1. o \in Ops
        BY TypeParts, EnvType
      <4>2. CASE LeaseExpires(o)
        <5>1. Ages(LeaseClock) /\ Ticks(o, LeaseClock)
          BY <4>1, <4>2, LeaseTicks, LeaseAges
        <5> QED BY <4>2, <5>1 DEF Kinds, TimeGoes
      <4>3. CASE GraceOver(o)
        <5>1. Ages(GraceClock) /\ Ticks(o, GraceClock)
          BY <4>1, <4>3, GraceTicks, GraceAges
        <5> QED BY <4>3, <5>1 DEF Kinds, TimeGoes
      <4>4. ASSUME NEW s \in WorkSteps, DeadlinePasses(o, s) PROVE Kinds
        <5>1. Ages(DeadlineClock(s)) /\ Ticks(o, DeadlineClock(s))
          BY <4>1, <4>4, DeadlineTicks, DeadlineAges
        <5> QED BY <4>4, <5>1 DEF Kinds, TimeGoes
      <4> QED BY <3>2, <4>2, <4>3, <4>4
    <3>3. ASSUME NEW o \in DOMAIN Action, SetAbort(o) \/ Delete(o) PROVE Kinds
      <4>1. Disturb(o) /\ Still /\ \E w : Asks(o, w)
        BY <2>0, <3>3, SetAbortAsks, DeleteAsks DEF SetAbort, Delete, Still
      <4>2. Disturbed(o)
        BY <2>0, <4>1, DisturbMoves
      <4> QED BY <4>1, <4>2 DEF Kinds, UserAsks
    <3>4. CASE DeliverCluster \/ ClusterWrite
      BY <3>4 DEF Kinds, ClusterMoves, DeliverCluster, ClusterWrite
    <3>5. CASE Crash
      BY <3>5 DEF Kinds, Restarts, Crash
    <3>6. ASSUME NEW n \in Nodes, CpFault(n) \/ CpRemoves(n) PROVE Kinds
      BY <3>6 DEF Kinds, CpMoves, CpFault, CpRemoves, NodeBecomes, rest
    <3> QED BY <2>13, <3>1, <3>2, <3>3, <3>4, <3>5, <3>6 DEF Environment
  <2> QED BY <1>2, <2>0, <2>11, <2>12, <2>13 DEF Next
<1> QED BY <1>1, <1>2

\* The pass keeps up with its operation.
LEMMA StepNext ==
  ASSUME TypeInv, Prompt, StepInv, [Next]_vars
  PROVE  StepInv'
<1>0. Kinds /\ UNCHANGED env
  BY StepKinds
<1>1. CASE Rests \/ ClusterMoves \/ CpMoves
  BY <1>0, <1>1, StepFrame DEF Rests, ClusterMoves, CpMoves
<1>2. CASE Reads
  BY <1>0, <1>2, StepReads DEF Reads, Prompt
<1>3. CASE Stops \/ Restarts
  BY <1>0, <1>3, StepIdle DEF Stops, Restarts
<1>4. CASE Finalizes
  <2>1. pass.op \in Ops
    BY <1>4, TypeParts, EnvType DEF Finalizes
  <2> QED BY <1>0, <1>4, <2>1, StepEnds DEF Finalizes
<1>5. CASE TakesLock
  BY <1>0, <1>5, StepLocks DEF TakesLock
<1>6. CASE Waits
  <2>1. ~At("idle") /\ AtWork(pass) /\ Posts /\ UNCHANGED opsLog
    BY <1>6 DEF Waits, At, AtWork, PastLock, Posts, Sent
  <2> QED BY <1>0, <2>1, StepPosts
<1>7. CASE Claims
  BY <1>0, <1>7, StepClaims DEF Claims
<1>8. CASE Calls
  <2>1. ~At("idle") /\ AtWork(pass) /\ Posts /\ UNCHANGED opsLog
    BY <1>8 DEF Calls, Called, At, AtWork, PastLock, Posts, Sent
  <2> QED BY <1>0, <2>1, StepPosts
<1>9. CASE Lands
  BY <1>0, <1>9, StepLands DEF Lands
<1>10. CASE GivesBack
  BY <1>0, <1>10, StepReleases DEF GivesBack
<1>11. CASE Advances
  BY <1>0, <1>11, StepAdvances DEF Advances
<1>12. CASE WalksOn
  BY <1>0, <1>12, StepWalks DEF WalksOn
<1>13. CASE Delivers
  <2>1. UNCHANGED pass /\ \A p \in Ops : Op(p)' = Op(p)
    BY <1>13 DEF Delivers
  <2>2. ASSUME ~At("idle") PROVE InStep(pass, Stored(opsLog'[pass.op]))
    <3>1. pass.op \in Ops /\ InStep(pass, Op(pass.op))
      BY <2>2, PassFields DEF StepInv
    <3> QED BY <2>1, <3>1 DEF Op
  <2>3. \A p \in DOMAIN Action : Begun(Op(p)')
    <3>1. DOMAIN Action \subseteq Ops
      BY TypeParts, EnvType
    <3> QED BY <2>1, <3>1 DEF StepInv
  <2> QED BY <1>0, <2>1, <2>2, <2>3 DEF StepInv, At, Op, Action, Begun
<1>14. CASE TimeGoes
  BY <1>0, <1>14, StepTicks DEF TimeGoes
<1>15. CASE UserAsks
  BY <1>0, <1>15, StepAsks DEF UserAsks
<1> QED BY <1>0, <1>1, <1>2, <1>3, <1>4, <1>5, <1>6, <1>7, <1>8, <1>9, <1>10, <1>11, <1>12,
      <1>13, <1>14, <1>15 DEF Kinds

LEMMA StepInit ==
  ASSUME Init
  PROVE  StepInv
<1>1. At("idle")
  BY IdleSpot DEF Init, At
<1>2. ASSUME NEW o \in DOMAIN Action PROVE Begun(Op(o))
  <2> DEFINE v == [NewOp EXCEPT !.exists = o \in DOMAIN Action]
  <2>1. v.step = "" /\ v.phase = ""
    BY DEF NewOp
  <2>2. o \in Ops
    BY EnvType DEF Init
  <2>3. opsLog[o] = <<v>>
    BY <2>2 DEF Init
  <2> HIDE DEF v
  <2>4. Op(o) = v
    BY <2>3 DEF Op, Stored
  <2> QED BY <2>1, <2>4 DEF Begun
<1> QED BY <1>1, <1>2 DEF StepInv
-------------------------------------------------------------------------------
(* What a step does to the operations, and to a pass it does not move on.  *)

SameSpot(v, w) == v.phase = w.phase /\ v.step = w.step /\ SamePlan(v, w)

\* The operation stays where it is.  It may be deleted, but not with its node down.
Keeps(v, w) ==
  /\ SameSpot(v, w)
  /\ Live(w) => Live(v)
  /\ v.step \in DownSteps /\ Live(v) => Live(w)
  /\ v.late => w.late
  /\ w.late => v.late \/ May("late")

Steady ==
  /\ pass'.pc = pass.pc /\ pass'.op = pass.op /\ pass'.do = pass.do /\ pass'.arg = pass.arg
  /\ pass'.then = pass.then /\ pass'.list = pass.list
  /\ SameSpot(pass.obj, pass'.obj) /\ (pass.obj.late => pass'.obj.late)

LEMMA SteadyKinds ==
  ASSUME TypeInv, UNCHANGED env,
         Rests \/ Delivers \/ TimeGoes \/ UserAsks \/ ClusterMoves \/ CpMoves
  PROVE  Steady
<1>1. CASE UNCHANGED pass
  BY <1>1 DEF Steady, SameSpot, SamePlan
<1>2. ASSUME NEW o \in DOMAIN Action, Disturbed(o) PROVE Steady
  BY <1>2 DEF Disturbed, Steady, SameSpot, SamePlan
<1>3. ASSUME NEW o \in DOMAIN Action, NEW g, Ages(g), Ticks(o, g),
             \A v \in OpsObj : v.late => g[v].late
      PROVE  Steady
  <2>1. pass.obj \in OpsObj
    BY PassFields
  <2>2. SameSpot(pass.obj, g[pass.obj])
    BY <1>3, <2>1 DEF Ages, SameSpot, SamePlan
  <2>3. /\ pass'.op = pass.op /\ pass'.pc = pass.pc /\ pass'.do = pass.do
        /\ pass'.arg = pass.arg /\ pass'.then = pass.then /\ pass'.list = pass.list
        /\ pass'.obj = IF pass.op = o THEN g[pass.obj] ELSE pass.obj
    BY <1>3, TickMoves
  <2> QED BY <1>3, <2>1, <2>2, <2>3 DEF Steady, SameSpot, SamePlan
<1>4. CASE TimeGoes
  <2>1. PICK o \in DOMAIN Action, g \in [OpsObj -> OpsObj] :
          /\ Ages(g) /\ Ticks(o, g)
          /\ g = LeaseClock \/ g = GraceClock \/ \E s \in WorkSteps : g = DeadlineClock(s)
    BY <1>4, AgesType DEF TimeGoes
  <2>2. \A v \in OpsObj : v.late => g[v].late
    BY <2>1, LeaseAges, GraceAges, DeadlineAges
  <2> QED BY <1>3, <2>1, <2>2
<1> QED BY <1>1, <1>2, <1>4 DEF Rests, Delivers, UserAsks, ClusterMoves, CpMoves

LEMMA KeepsItself ==
  ASSUME NEW v
  PROVE  Keeps(v, v)
  BY DEF Keeps, SameSpot, SamePlan

\* One operation is written, and the others are left alone.
LEMMA KeepsOthers ==
  ASSUME TypeInv, NEW o \in Ops, NEW w, Op(o)' = w, \A p \in Ops \ {o} : Op(p)' = Op(p),
         Keeps(Op(o), w)
  PROVE  \A p \in DOMAIN Action : Keeps(Op(p), Op(p)')
<1> TAKE p \in DOMAIN Action
<1>1. p \in Ops
  BY TypeParts, EnvType
<1> QED BY <1>1, KeepsItself

LEMMA OpsKept ==
  ASSUME TypeInv, StepInv, Kinds, UNCHANGED env
  PROVE  Lands \/ \A p \in DOMAIN Action : Keeps(Op(p), Op(p)')
<1> SUFFICES ASSUME ~Lands PROVE \A p \in DOMAIN Action : Keeps(Op(p), Op(p)')
  OBVIOUS
<1>0. DOMAIN Action \subseteq Ops
  BY TypeParts, EnvType
<1>1. CASE UNCHANGED opsLog
  <2>1. \A p \in Ops : Op(p)' = Op(p)
    BY <1>1 DEF Op
  <2> QED BY <1>0, <2>1, KeepsItself
<1>2. CASE Delivers
  BY <1>0, <1>2, KeepsItself DEF Delivers
<1>3. CASE Finalizes
  <2>1. PICK w \in OpsObj :
          /\ SameStatus(w, Op(pass.op))
          /\ \/ At("drop") /\ ~w.exists
             \/ w.exists = Op(pass.op).exists /\ w.deleted = Op(pass.op).deleted
          /\ opsLog' = [opsLog EXCEPT ![pass.op] = Written(@, w)]
    BY <1>3 DEF Finalizes
  <2>2. pass.op \in Ops /\ Room(opsLog[pass.op], MaxLag)
    BY <1>0, <1>3 DEF Finalizes
  <2>3. Stored(opsLog'[pass.op]) = w /\ \A p \in Ops \ {pass.op} : Op(p)' = Op(p)
    BY <2>1, <2>2, OpWritten
  <2>4. At("drop") => Op(pass.op).deleted
    BY DEF At, StepInv, InStep
  <2>5. Keeps(Op(pass.op), w)
    BY <2>1, <2>4 DEF Keeps, SameSpot, SamePlan, SameStatus, Live
  <2>6. \A p \in Ops : p = pass.op => Op(p)' = w
    BY <2>3 DEF Op
  <2> QED BY <1>0, <2>3, <2>5, <2>6, KeepsItself
<1>4. CASE Claims
  <2>1. ~At("idle")
    BY <1>4 DEF Claims, At
  <2>2. pass.op \in Ops /\ Op(pass.op) \in OpsObj
    BY <2>1, PassFields, OpEnds
  <2>3. Stored(opsLog'[pass.op]) = Claimed /\ \A p \in Ops \ {pass.op} : Op(p)' = Op(p)
    BY <1>4, <2>2, OpWritten DEF Claims
  <2>4. Keeps(Op(pass.op), Claimed)
    BY <2>2 DEF Claimed, OpsObj, Keeps, SameSpot, SamePlan, Live
  <2>5. \A p \in Ops : p = pass.op => Op(p)' = Claimed
    BY <2>3 DEF Op
  <2> QED BY <1>0, <2>3, <2>4, <2>5, KeepsItself
<1>5. CASE UserAsks
  <2>1. PICK o \in DOMAIN Action, w \in OpsObj : Asks(o, w)
    BY <1>5 DEF UserAsks, Asks
  <2>2. /\ o \in Ops /\ SameStatus(w, Op(o)) /\ Op(o)' = w
        /\ \A p \in Ops \ {o} : Op(p)' = Op(p)
        /\ Op(o).deleted => w.deleted
        /\ w.exists => Op(o).exists
        /\ Op(o).step \in DownSteps /\ ~Terminal(Op(o).phase) =>
             w.exists = Op(o).exists /\ w.deleted = Op(o).deleted
    BY <2>1, AsksFacts
  <2>3. Keeps(Op(o), w)
    BY <2>2 DEF Keeps, SameSpot, SamePlan, SameStatus, Live
  <2> QED BY <2>2, <2>3, KeepsOthers
<1>6. CASE TimeGoes
  <2>1. PICK o \in DOMAIN Action, g \in [OpsObj -> OpsObj] :
          /\ Ages(g) /\ Ticks(o, g)
          /\ \/ g = LeaseClock
             \/ g = GraceClock
             \/ May("late") /\ \E s \in WorkSteps : g = DeadlineClock(s)
    BY <1>6, AgesType DEF TimeGoes, DeadlinePasses
  <2>2. o \in Ops /\ Op(o) \in OpsObj
    BY <1>0, OpEnds
  <2>3. Op(o)' = g[Op(o)] /\ \A p \in Ops \ {o} : Op(p)' = Op(p)
    BY <2>1, TickMoves
  <2>4. (Op(o).late => g[Op(o)].late) /\ (g[Op(o)].late => Op(o).late \/ May("late"))
    <3>1. CASE g = LeaseClock
      BY <2>2, <3>1, LeaseAges
    <3>2. CASE g = GraceClock
      BY <2>2, <3>2, GraceAges
    <3>3. ASSUME May("late"), NEW s \in WorkSteps, g = DeadlineClock(s)
          PROVE  Op(o).late => g[Op(o)].late
      BY <2>2, <3>3, DeadlineAges
    <3> QED BY <2>1, <3>1, <3>2, <3>3
  <2>5. Keeps(Op(o), g[Op(o)])
    BY <2>1, <2>2, <2>4 DEF Ages, Keeps, SameSpot, SamePlan, SameMeta, Live
  <2> QED BY <2>2, <2>3, <2>5, KeepsOthers
<1> QED BY <1>1, <1>2, <1>3, <1>4, <1>5, <1>6 DEF Kinds, Rests, Reads, Stops, TakesLock, Waits,
      Calls, GivesBack, Advances, WalksOn, ClusterMoves, Restarts, CpMoves
-------------------------------------------------------------------------------
(* How a walk ends early.                                                  *)

\* A write of the pass lands: what becomes of the step and of the phase.
LEMMA LandedStep ==
  ASSUME TypeInv, StepInv, Lands
  PROVE  LET v == Op(pass.op)  w == Stored(opsLog'[pass.op]) IN
         /\ pass.op \in DOMAIN Action /\ pass.op \in Ops /\ pass.do \in Doings
         /\ v \in OpsObj /\ w \in OpsObj
         /\ WriteFits(pass.do, pass.arg, pass.then, pass.op, pass.obj)
         /\ InStep(pass, v) /\ SameStatus(pass.obj, v)
         /\ Mutates(v, w, pass.do, pass.arg, v, pass.list)
         /\ \A p \in Ops \ {pass.op} : Op(p)' = Op(p)
         /\ \A p \in Ops : p = pass.op => Op(p)' = w
         /\ w.late => v.late
         /\ w.step \in {v.step, "CheckingPeers", "Completed", "Requesting"} \/ (pass.do = "record" /\ w.step = pass.arg)
<1>0. ~At("idle") /\ pass.pc = "write" /\ At("write") /\ Landed
  BY DEF Lands, At
<1>1. /\ pass.op \in DOMAIN Action /\ pass.op \in Ops /\ PassFits(pass) /\ pass.do \in Doings \cup {""}
      /\ InStep(pass, Op(pass.op)) /\ Op(pass.op) \in OpsObj
  BY <1>0, PassFields, OpEnds DEF StepInv
<1>2. WriteFits(pass.do, pass.arg, pass.then, pass.op, pass.obj)
  BY <1>0, <1>1 DEF PassFits
<1>3. pass.do \in Doings
  BY <1>1, <1>2 DEF WriteFits
<1>4. /\ \A p \in Ops \ {pass.op} : Op(p)' = Op(p)
      /\ Mutates(Op(pass.op), Stored(opsLog'[pass.op]), pass.do, pass.arg, Op(pass.op), pass.list)
      /\ SameStatus(pass.obj, Op(pass.op))
  BY <1>0, LandedTurns
<1>5. Stored(opsLog'[pass.op]) \in OpsObj
  BY <1>4 DEF Mutates
<1>6. \A p \in Ops : p = pass.op => Op(p)' = Stored(opsLog'[pass.op])
  BY DEF Op
<1> DEFINE v == Op(pass.op)
           w == Stored(opsLog'[pass.op])
<1> HIDE DEF v, w
<1>7. /\ w.late => v.late
      /\ w.step \in {v.step, "CheckingPeers", "Completed", "Requesting"} \/ (pass.do = "record" /\ w.step = pass.arg)
  <2>1. Mutates(v, w, pass.do, pass.arg, v, pass.list)
    BY <1>4 DEF v, w
  <2>2. CASE pass.do \in {"run", "hold", "note", "plan", "walked"}
    BY <2>1, <2>2 DEF Mutates, SameStep
  <2>3. CASE pass.do \in {"record", "next", "retry"}
    BY <1>2, <2>1, <2>3 DEF Mutates, Entered, WriteFits
  <2>4. CASE pass.do = "finish"
    BY <2>1, <2>4 DEF Mutates, Entered, SameStep
  <2> QED BY <1>3, <2>2, <2>3, <2>4 DEF Doings
<1> QED BY <1>1, <1>2, <1>3, <1>4, <1>5, <1>6, <1>7 DEF v, w

LEMMA EndNext ==
  ASSUME TypeInv, Prompt, StepInv, EndInv, [Next]_vars
  PROVE  EndInv'
<1>0. Kinds /\ UNCHANGED env
  BY StepKinds
<1>1. EndsLate(pass) /\ (May("fatal") => NoWalk(pass))
  BY DEF EndInv, EndsLate, At
<1>2. May("fatal") /\ ~At("idle") => pass.obj.step \notin DownSteps
  <2>1. ~At("idle") => pass.op \in DOMAIN Action /\ SameStatus(pass.obj, Op(pass.op))
    BY PassFields DEF StepInv, InStep
  <2> QED BY <2>1 DEF EndInv, SameStatus
<1>3. EndsLate(pass') /\ (May("fatal") => NoWalk(pass'))
  <2>1. CASE Rests \/ Delivers \/ TimeGoes \/ UserAsks \/ ClusterMoves \/ CpMoves
    <3>1. Steady
      BY <1>0, <2>1, SteadyKinds
    <3> QED BY <1>1, <3>1 DEF Steady, SameSpot, EndsLate, NoWalk
  <2>2. CASE Stops \/ Finalizes \/ Restarts
    BY <2>2, IdleSpot DEF Stops, Finalizes, Restarts, EndsLate, NoWalk
  <2>3. CASE Reads \/ Claims
    BY <2>3 DEF Reads, Claims, ReadAs, EndsLate, NoWalk
  <2>4. CASE GivesBack
    BY <2>4, IdleSpot DEF GivesBack, Releases, GoesTo, EndsLate, NoWalk
  <2>5. CASE TakesLock
    BY <2>5, IdleSpot DEF TakesLock, Locks, Sent, GoesTo, EndsLate, NoWalk
  <2>6. CASE Waits \/ Calls
    BY <2>6, IdleSpot DEF Waits, Calls, Called, Sent, EndsLate, NoWalk, DownSteps
  <2>7. CASE Lands
    <3>1. WriteFits(pass.do, pass.arg, pass.then, pass.op, pass.obj) /\ GoesOn /\ pass.pc = "write"
      BY <2>7, LandedStep DEF Lands, At
    <3> QED BY <1>1, <3>1, IdleSpot DEF GoesOn, EndsLate, NoWalk, WriteFits
  <2>8. CASE Advances
    <3>1. ~At("idle") /\ Advanced
      BY <2>8 DEF Advances, At
    <3>2. InitialStep(Action[pass.op]) \notin DownSteps
      BY DEF InitialStep, DownSteps
    <3>3. EndsLate(pass')
      <4>1. SUFFICES ASSUME pass'.pc = "write", pass'.do = "finish", pass'.arg # "Succeeded",
                            pass'.obj.step \in DownSteps
                     PROVE  pass'.obj.late
        BY DEF EndsLate
      <4>2. pass'.obj = pass.obj /\ (Abortable(pass.obj.step) \/ pass.obj.late \/ May("fatal")
              \/ pass.obj.step = "Awaiting")
        BY <3>1, <4>1, IdleSpot DEF Advanced, Sent, GoesTo, Walks, Held
      <4> QED BY <1>2, <3>1, <4>1, <4>2 DEF Abortable, DownSteps
    <3>4. May("fatal") => NoWalk(pass')
      BY <3>1, <3>2, IdleSpot DEF Advanced, Sent, NoWalk
    <3> QED BY <3>3, <3>4
  <2>9. CASE WalksOn
    <3>1. ~May("fatal")
      BY <1>1, <2>9 DEF WalksOn, At, NoWalk
    <3> QED BY <2>9, <3>1, IdleSpot DEF WalksOn, Walked, Leaves, Sent, GoesTo, EndsLate
  <2> QED BY <1>0, <2>1, <2>2, <2>3, <2>4, <2>5, <2>6, <2>7, <2>8, <2>9 DEF Kinds
<1>4. ASSUME NEW p \in DOMAIN Action
      PROVE  /\ May("fatal") => Op(p)'.step \notin DownSteps
             /\ ~May("late") => ~Op(p)'.late
  <2>0. /\ May("fatal") => Op(p).step \notin DownSteps
        /\ ~May("late") => ~Op(p).late
        /\ p \in Ops
    BY TypeParts, EnvType DEF EndInv
  <2>1. CASE \A q \in DOMAIN Action : Keeps(Op(q), Op(q)')
    BY <2>0, <2>1 DEF Keeps, SameSpot
  <2>2. CASE Lands /\ p # pass.op
    BY <2>0, <2>2, LandedStep
  <2>3. CASE Lands /\ p = pass.op
    <3> DEFINE v == Op(pass.op)
               w == Stored(opsLog'[pass.op])
    <3>1. /\ Op(p)' = w /\ (w.late => v.late)
          /\ w.step \in {v.step, "CheckingPeers", "Completed", "Requesting"} \/ (pass.do = "record" /\ w.step = pass.arg)
      BY <2>0, <2>3, LandedStep
    <3> HIDE DEF v, w
    <3>2. pass.pc = "write" /\ v = Op(p)
      BY <2>3 DEF Lands, At, v
    <3> QED BY <1>1, <2>0, <3>1, <3>2 DEF NoWalk, DownSteps
  <2> QED BY <1>0, <2>1, <2>2, <2>3, OpsKept
<1> QED BY <1>0, <1>3, <1>4 DEF EndInv, EndsLate, NoWalk, May, Action

LEMMA FirstOps ==
  ASSUME Init, NEW o \in DOMAIN Action
  PROVE  /\ At("idle") /\ pass.pc = "idle" /\ o \in Ops
         /\ Op(o).step = "" /\ Op(o).phase = "" /\ ~Op(o).late /\ Op(o).plan = <<>>
         /\ Op(o).index = 0 /\ Op(o).claim = "none" /\ ~Op(o).settled
<1> DEFINE v == [NewOp EXCEPT !.exists = o \in DOMAIN Action]
<1>1. /\ v.step = "" /\ v.phase = "" /\ ~v.late /\ v.plan = <<>> /\ v.index = 0
      /\ v.claim = "none" /\ ~v.settled
  BY DEF NewOp
<1>2. o \in Ops
  BY EnvType DEF Init
<1>3. opsLog[o] = <<v>>
  BY <1>2 DEF Init
<1>4. Op(o) = v
  BY <1>3, OneVersion DEF Op, Stored
<1>5. pass.pc = "idle"
  BY IdleSpot DEF Init
<1> QED BY <1>1, <1>2, <1>4, <1>5 DEF At

LEMMA EndInit ==
  ASSUME Init
  PROVE  EndInv
<1>1. pass.pc = "idle"
  BY IdleSpot DEF Init
<1> QED BY <1>1, FirstOps DEF EndInv, At, NoWalk, DownSteps
-------------------------------------------------------------------------------
(* The versions of the cluster object.                                     *)

LEMMA LeastNatural ==
  ASSUME NEW T, T \subseteq Nat, T # {}
  PROVE  \E x \in T : \A y \in T : x <= y
<1>1. PICK x \in T : \A y \in T : ~(<<y, x>> \in OpToRel(<, Nat))
  BY NatLessThanWellFounded, WFMin
<1>2. x \in Nat /\ \A y \in T : y \in Nat /\ ~(y < x)
  BY <1>1 DEF OpToRel
<1>3. \A y \in T : x <= y
  BY <1>2
<1> QED BY <1>3

\* Of two operations that both have the last version, one is the other.
LEMMA EndsOnce ==
  ASSUME NEW log, Len(log) \in Nat \ {0}, log[1].exists, NEW o, NEW p,
         Ends(log, o), Ends(log, p)
  PROVE  o = p
<1>1. CASE log[Len(log)].exists
  BY <1>1 DEF Ends
<1>2. CASE ~log[Len(log)].exists
  <2> DEFINE T == {j \in 1..Len(log) : ~log[j].exists}
  <2>1. T \subseteq Nat /\ T # {}
    BY <1>2
  <2>2. PICK m \in T : \A y \in T : m <= y
    BY <2>1, LeastNatural
  <2>3. m \in 1..Len(log) /\ ~log[m].exists /\ m # 1
    BY <2>2
  <2>4. m - 1 \in 1..Len(log) /\ m - 1 \notin T /\ m - 1 + 1 = m
    BY <2>2, <2>3
  <2>5. log[m - 1].exists /\ ~log[m - 1 + 1].exists
    BY <2>3, <2>4
  <2> QED BY <2>4, <2>5 DEF Ends
<1> QED BY <1>1, <1>2

\* Who is named by the first version, and keeps the lock, has the last one.
LEMMA LastsEnds ==
  ASSUME NEW log, Len(log) \in Nat \ {0}, NEW o, Lasts(log, o), log[1].lock = o
  PROVE  Ends(log, o)
  BY DEF Lasts, Ends

LEMMA EndsStored ==
  ASSUME NEW log, Len(log) \in Nat \ {0}, NEW o, Ends(log, o)
  PROVE  Stored(log).lock = o \/ ~Stored(log).exists
  BY DEF Ends, Stored

\* The cluster's own controller writes, and the cache follows.
LEMMA LogTouched ==
  ASSUME TypeInv, ClusterWrite, GoesOnce(clusterLog)
  PROVE  /\ GoesOnce(clusterLog') /\ Cached(clusterLog') = Cached(clusterLog)
         /\ \A o \in Ops : /\ Lasts(clusterLog, o) => Lasts(clusterLog', o)
                           /\ Ends(clusterLog, o) => Ends(clusterLog', o)
<1> DEFINE n == Len(clusterLog)
<1>0. /\ n \in Nat \ {0} /\ Stored(clusterLog) \in ClusterObj /\ Stored(clusterLog) = clusterLog[n]
      /\ \A k \in 1..n : clusterLog[k] \in ClusterObj
  BY ClusterEnds
<1>1. PICK c \in ClusterObj : /\ clusterLog' = Written(clusterLog, c)
                              /\ c = Stored(clusterLog) \/ (~c.exists /\ c.lock = NoOp)
  <2>1. [exists |-> FALSE, lock |-> NoOp] \in ClusterObj
    BY DEF ClusterObj
  <2> QED BY <1>0, <2>1 DEF ClusterWrite
<1>2. Room(clusterLog, MaxLag) /\ clusterLog[n].exists
  BY <1>0 DEF ClusterWrite
<1>3. /\ Cached(clusterLog') = Cached(clusterLog) /\ Len(clusterLog') = n + 1
      /\ clusterLog'[n + 1] = c
      /\ \A k \in 1..n : clusterLog'[k] = clusterLog[k]
  BY <1>1, <1>2, ClusterWritten
<1>4. c = clusterLog[n] \/ (~c.exists /\ c.lock = NoOp)
  BY <1>0, <1>1
<1>5. NoOp \notin Ops
  BY Bounds
<1> DEFINE log == clusterLog'
           old == clusterLog
<1> HIDE DEF log, n, old
<1>6. /\ n \in Nat \ {0} /\ old[n].exists /\ Len(log) = n + 1 /\ log[n + 1] = c /\ Len(old) = n
      /\ \A k \in 1..n : log[k] = old[k]
      /\ c = old[n] \/ (~c.exists /\ c.lock = NoOp)
  BY <1>0, <1>2, <1>3, <1>4 DEF log, n, old
<1>7. GoesOnce(old)
  BY DEF old
<1>8. GoesOnce(log)
  BY <1>6, <1>7 DEF GoesOnce
<1>9. ASSUME NEW o \in Ops PROVE Lasts(old, o) => Lasts(log, o)
  <2>1. NoOp # o
    BY <1>5
  <2> QED BY <1>6, <2>1 DEF Lasts
<1>10. ASSUME NEW o \in Ops PROVE Ends(old, o) => Ends(log, o)
  BY <1>6 DEF Ends
<1> QED BY <1>3, <1>8, <1>9, <1>10 DEF log, old

LEMMA LogFollowed ==
  ASSUME TypeInv, DeliverCluster, GoesOnce(clusterLog), NEW o
  PROVE  /\ GoesOnce(clusterLog')
         /\ ~Cached(clusterLog).exists => ~Cached(clusterLog').exists
         /\ Lasts(clusterLog, o) => Lasts(clusterLog', o)
         /\ Ends(clusterLog, o) => Ends(clusterLog', o)
<1> DEFINE log == clusterLog'
           old == clusterLog
           n == Len(clusterLog)
<1>1. /\ LockOK' /\ Len(log) = n - 1 /\ n \in Nat \ {0} /\ n > 1
      /\ \A k \in 1..Len(log) : k + 1 \in 1..n /\ log[k] = old[k + 1]
  BY ClusterDelivered, ClusterEnds DEF DeliverCluster
<1>2. log \in Seq(ClusterObj) /\ Len(log) \in Nat \ {0}
  BY <1>1 DEF LockOK
<1>3. Cached(log) = log[1] /\ Cached(old) = old[1]
  BY <1>2, ClusterEnds, LogEnds
<1>4. Len(old) = n /\ GoesOnce(old)
  OBVIOUS
<1> HIDE DEF log, n, old
<1>5. GoesOnce(log)
  BY <1>1, <1>4 DEF GoesOnce
<1>6. Lasts(old, o) => Lasts(log, o)
  BY <1>1, <1>4 DEF Lasts
<1>7. Ends(old, o) => Ends(log, o)
  <2>1. \A j \in 1..Len(log) : (j = Len(log) <=> j + 1 = n) /\ (j # Len(log) => j + 1 \in 1..Len(log))
    BY <1>1
  <2> QED BY <1>1, <1>4, <2>1 DEF Ends
<1>8. ~old[1].exists => ~log[1].exists
  BY <1>1, <1>2, <1>4 DEF GoesOnce
<1> QED BY <1>3, <1>5, <1>6, <1>7, <1>8 DEF log, old

\* The lock changes hands on a version that is current.
LEMMA LogTurned ==
  ASSUME TypeInv, GoesOnce(clusterLog), Current(clusterLog), Room(clusterLog, MaxLag),
         Cached(clusterLog).exists, NEW h \in Ops \cup {NoOp},
         clusterLog' = Written(clusterLog, [Cached(clusterLog) EXCEPT !.lock = h])
  PROVE  /\ GoesOnce(clusterLog') /\ Cached(clusterLog') = Cached(clusterLog)
         /\ Stored(clusterLog').lock = h
         /\ Ends(clusterLog', h)
         /\ \A o \in Ops : /\ Cached(clusterLog).lock # o => Lasts(clusterLog', o)
                           /\ Ends(clusterLog, o) => Cached(clusterLog).lock = o
<1> DEFINE d == [Cached(clusterLog) EXCEPT !.lock = h]
           old == clusterLog
           log == clusterLog'
<1>0. /\ Len(old) = 1 /\ Cached(old) \in ClusterObj /\ Cached(old) = old[1]
  BY ClusterEnds DEF Current
<1>1. d \in ClusterObj /\ d.lock = h /\ d.exists = old[1].exists
  BY <1>0 DEF ClusterObj
<1>2. /\ Cached(log) = Cached(old) /\ Len(log) = 2 /\ log[2] = d /\ log[1] = old[1] /\ Stored(log) = d
  BY <1>0, <1>1, ClusterWritten
<1>3. old[1].exists /\ GoesOnce(old)
  BY <1>0
<1> HIDE DEF d, log, old
<1>4. \A i \in 1..Len(log) : (i = 1 \/ i = 2) /\ log[i].exists
  <2>1. \A i \in 1..Len(log) : i = 1 \/ i = 2
    BY <1>2
  <2>2. log[1].exists /\ log[2].exists
    BY <1>1, <1>2, <1>3, Zenon
  <2> QED BY <2>1, <2>2
<1>5. GoesOnce(log) /\ Ends(log, h)
  BY <1>1, <1>2, <1>4 DEF GoesOnce, Ends
<1>6. ASSUME NEW o \in Ops
      PROVE  /\ Cached(old).lock # o => Lasts(log, o)
             /\ Ends(old, o) => Cached(old).lock = o
  <2>2. Cached(old).lock # o => Lasts(log, o)
    BY <1>0, <1>1, <1>2, <1>4 DEF Lasts
  <2>3. Ends(old, o) => Cached(old).lock = o
    BY <1>0, <1>3 DEF Ends
  <2> QED BY <2>2, <2>3
<1> QED BY <1>1, <1>2, <1>5, <1>6 DEF log, old
-------------------------------------------------------------------------------
(* The lock.                                                               *)

LEMMA KeptHolds ==
  ASSUME NEW v, NEW w, Keeps(v, w)
  PROVE  /\ Engaged(w) => Engaged(v)
         /\ \A o, log : OpHolds(o, v, log) => OpHolds(o, w, log)
  BY DEF Keeps, SameSpot, Engaged, Working, Refused, Live, OpHolds

LEMMA LockParts ==
  ASSUME UNCHANGED env, GoesOnce(clusterLog'), PassHolds(pass', clusterLog'),
         \A o \in DOMAIN Action : OpHolds(o, Op(o)', clusterLog'),
         \A o \in DOMAIN Action : PastLock(pass') /\ Engaged(Op(o)') => o = pass'.op,
         \A o, p \in DOMAIN Action : Engaged(Op(o)') /\ Engaged(Op(p)') => o = p
  PROVE  LockInv'
<1>1. DOMAIN Action' = DOMAIN Action
  BY DEF Action
<1> QED BY <1>1 DEF LockInv, GoesOnce, PassHolds, OpHolds, Lasts, Ends, PastLock,
      Engaged, Working, Refused, Live

\* Nobody new is at a step, and whoever is past the lock was so, or is the only one.
LEMMA LockKept ==
  ASSUME TypeInv, LockInv, UNCHANGED env, GoesOnce(clusterLog'), PassHolds(pass', clusterLog'),
         \A o \in DOMAIN Action : OpHolds(o, Op(o)', clusterLog'),
         \A o \in DOMAIN Action : Engaged(Op(o)') => Engaged(Op(o)),
         \/ ~PastLock(pass')
         \/ PastLock(pass) /\ pass'.op = pass.op
         \/ \A o \in DOMAIN Action : Engaged(Op(o)) => o = pass'.op
  PROVE  LockInv'
<1>1. ASSUME NEW o \in DOMAIN Action, PastLock(pass'), Engaged(Op(o)') PROVE o = pass'.op
  BY <1>1 DEF LockInv
<1>2. ASSUME NEW o \in DOMAIN Action, NEW p \in DOMAIN Action, Engaged(Op(o)'), Engaged(Op(p)')
      PROVE  o = p
  BY <1>2 DEF LockInv
<1> QED BY <1>1, <1>2, LockParts

\* The log and the operations stay, and the pass is where it was with the lock, or has
\* nothing to do with it.
LEMMA LockStays ==
  ASSUME TypeInv, LockInv, UNCHANGED <<env, clusterLog>>,
         \A o \in DOMAIN Action : Keeps(Op(o), Op(o)'),
         \/ ~PastLock(pass') /\ pass'.pc # "lock" /\ ~(pass'.pc = "write" /\ pass'.then = "refuse")
         \/ PastLock(pass) /\ PastLock(pass') /\ pass'.op = pass.op
         \/ Steady
  PROVE  LockInv'
<1>1. GoesOnce(clusterLog') /\ \A o \in DOMAIN Action : OpHolds(o, Op(o)', clusterLog')
  BY KeptHolds DEF LockInv
<1>2. PassHolds(pass', clusterLog')
  BY DEF LockInv, PassHolds, PastLock, Steady
<1>3. Steady => (PastLock(pass') <=> PastLock(pass)) /\ pass'.op = pass.op
  BY DEF Steady, PastLock
<1>4. \A o \in DOMAIN Action : Engaged(Op(o)') => Engaged(Op(o))
  BY KeptHolds
<1> QED BY <1>1, <1>2, <1>3, <1>4, LockKept

\* The lock is taken, found to be held, or missed.
LEMMA LockTaken ==
  ASSUME TypeInv, StepInv, LockInv, UNCHANGED env, TakesLock
  PROVE  LockInv'
<1> DEFINE c == Cached(clusterLog)
<1>0. /\ ~At("idle") /\ pass.pc = "lock" /\ UNCHANGED opsLog /\ Locks
      /\ DOMAIN Action \subseteq Ops /\ pass.op \in DOMAIN Action /\ pass.op \in Ops
  BY PassFields, TypeParts, EnvType DEF TakesLock, At
<1>1. \A o \in DOMAIN Action : Op(o)' = Op(o)
  BY <1>0 DEF Op
<1>2. /\ Len(clusterLog) \in Nat \ {0} /\ c = clusterLog[1]
  BY ClusterEnds
<1>3. GoesOnce(clusterLog) /\ Lasts(clusterLog, pass.op)
  BY <1>0 DEF LockInv, PassHolds
<1>4. CASE pass' = Idle /\ UNCHANGED clusterLog
  BY <1>0, <1>1, <1>4, IdleSpot, KeepsItself, LockStays DEF PastLock
<1>5. CASE Sent("hold", "", "requeue") /\ UNCHANGED clusterLog
  BY <1>0, <1>1, <1>5, KeepsItself, LockStays DEF PastLock, Sent
<1>6. CASE ~c.exists /\ Sent("finish", "Failed", "refuse") /\ UNCHANGED clusterLog
  <2>1. pass'.pc = "write" /\ pass'.then = "refuse" /\ ~PastLock(pass')
    BY <1>6 DEF Sent, PastLock
  <2>2. PassHolds(pass', clusterLog')
    BY <1>6, <2>1 DEF PassHolds
  <2> QED BY <1>0, <1>1, <1>3, <1>6, <2>1, <2>2, LockKept DEF LockInv
<1>7. ASSUME c.exists, pass'.op = pass.op, PastLock(pass'), pass'.pc # "write" \/ pass'.then # "refuse",
             GoesOnce(clusterLog'), Cached(clusterLog') = c,
             Lasts(clusterLog', pass.op), Ends(clusterLog', pass.op),
             \A o \in DOMAIN Action :
                (Live(Op(o)) => Lasts(clusterLog', o)) /\ (Working(Op(o)) => o = pass.op)
      PROVE  LockInv'
  <2>1. \A o \in DOMAIN Action : ~Refused(Op(o))
    BY <1>7 DEF LockInv, OpHolds
  <2>2. \A o \in DOMAIN Action : OpHolds(o, Op(o)', clusterLog')
    BY <1>1, <1>7, <2>1 DEF OpHolds
  <2>3. PassHolds(pass', clusterLog')
    BY <1>7 DEF PassHolds
  <2>4. \A o \in DOMAIN Action : Engaged(Op(o)) => o = pass'.op
    BY <1>7, <2>1 DEF Engaged
  <2> QED BY <1>1, <1>7, <2>2, <2>3, <2>4, LockKept
<1>8. ASSUME \/ pass.obj.phase \in {"", "Pending"} /\ Sent("run", "", "step")
             \/ pass.obj.phase \notin {"", "Pending"} /\ GoesTo("step")
      PROVE  /\ pass'.op = pass.op /\ PastLock(pass')
             /\ pass'.pc # "write" \/ pass'.then # "refuse"
  BY <1>8 DEF Sent, GoesTo, Held, PastLock
<1>9. CASE /\ c.exists /\ c.lock = pass.op /\ UNCHANGED clusterLog
           /\ \/ pass.obj.phase \in {"", "Pending"} /\ Sent("run", "", "step")
              \/ pass.obj.phase \notin {"", "Pending"} /\ GoesTo("step")
  <2>1. Ends(clusterLog, pass.op)
    BY <1>2, <1>3, <1>9, LastsEnds
  <2>2. ASSUME NEW o \in DOMAIN Action
        PROVE  (Live(Op(o)) => Lasts(clusterLog, o)) /\ (Working(Op(o)) => o = pass.op)
    <3>1. (Live(Op(o)) => Lasts(clusterLog, o)) /\ (Working(Op(o)) => Ends(clusterLog, o))
      BY DEF LockInv, OpHolds
    <3> QED BY <1>2, <1>9, <2>1, <3>1, EndsOnce
  <2> QED BY <1>3, <1>7, <1>8, <1>9, <2>1, <2>2
<1>10. CASE /\ c.exists /\ c.lock = NoOp /\ Current(clusterLog) /\ Room(clusterLog, MaxLag)
            /\ clusterLog' = Written(clusterLog, [c EXCEPT !.lock = pass.op])
            /\ \/ pass.obj.phase \in {"", "Pending"} /\ Sent("run", "", "step")
               \/ pass.obj.phase \notin {"", "Pending"} /\ GoesTo("step")
  <2>0. NoOp \notin Ops
    BY Bounds
  <2>1. /\ GoesOnce(clusterLog') /\ Cached(clusterLog') = c /\ Ends(clusterLog', pass.op)
        /\ \A o \in Ops : /\ c.lock # o => Lasts(clusterLog', o)
                          /\ Ends(clusterLog, o) => c.lock = o
    BY <1>0, <1>3, <1>10, LogTurned
  <2>2. \A o \in Ops : Lasts(clusterLog', o) /\ ~Ends(clusterLog, o)
    BY <1>10, <2>0, <2>1
  <2>3. \A o \in DOMAIN Action : ~Working(Op(o))
    BY <1>0, <2>2 DEF LockInv, OpHolds
  <2> QED BY <1>0, <1>7, <1>8, <1>10, <2>1, <2>2, <2>3
<1> QED BY <1>0, <1>4, <1>5, <1>6, <1>9, <1>10 DEF Locks

\* It is given back by an operation that is over.
LEMMA LockGiven ==
  ASSUME TypeInv, StepInv, LockInv, UNCHANGED env, GivesBack
  PROVE  LockInv'
<1> DEFINE c == Cached(clusterLog)
<1>0. /\ ~At("idle") /\ pass.pc = "release" /\ UNCHANGED opsLog /\ Releases
      /\ DOMAIN Action \subseteq Ops /\ pass.op \in DOMAIN Action /\ pass.op \in Ops
  BY PassFields, TypeParts, EnvType DEF GivesBack, At
<1>1. \A o \in DOMAIN Action : Op(o)' = Op(o)
  BY <1>0 DEF Op
<1>2. ~PastLock(pass') /\ pass'.pc # "lock" /\ pass'.pc # "write"
  BY <1>0, IdleSpot DEF Releases, GoesTo, PastLock
<1>3. CASE UNCHANGED clusterLog
  BY <1>1, <1>2, <1>3, KeepsItself, LockStays
<1>4. CASE /\ Owned(c, pass.op) /\ Current(clusterLog) /\ Room(clusterLog, MaxLag)
           /\ clusterLog' = Written(clusterLog, [c EXCEPT !.lock = NoOp])
  <2>1. ~Live(Op(pass.op))
    <3>1. InStep(pass, Op(pass.op))
      BY <1>0 DEF StepInv
    <3>2. pass.then = "drop" => Op(pass.op).deleted
      BY <3>1 DEF InStep
    <3>3. pass.then = "drop" \/ Terminal(Op(pass.op).phase)
      BY <1>0, <3>1 DEF InStep, SameStatus
    <3> QED BY <3>2, <3>3 DEF Live
  <2>2. c.exists /\ c.lock = pass.op /\ GoesOnce(clusterLog)
    BY <1>4 DEF Owned, LockInv
  <2>3. /\ GoesOnce(clusterLog') /\ Cached(clusterLog') = c
        /\ \A o \in Ops : /\ c.lock # o => Lasts(clusterLog', o)
                          /\ Ends(clusterLog, o) => c.lock = o
    BY <1>4, <2>2, LogTurned
  <2>4. ASSUME NEW o \in DOMAIN Action PROVE OpHolds(o, Op(o)', clusterLog')
    <3>1. OpHolds(o, Op(o), clusterLog) /\ o \in Ops
      BY <1>0 DEF LockInv
    <3>2. ~Refused(Op(o))
      BY <2>2, <3>1 DEF OpHolds
    <3>3. CASE o = pass.op
      BY <1>1, <2>1, <3>2, <3>3 DEF OpHolds, Working
    <3>4. CASE o # pass.op
      <4>1. ~Ends(clusterLog, o) /\ Lasts(clusterLog', o)
        BY <2>2, <2>3, <3>1, <3>4
      <4> QED BY <1>1, <3>1, <3>2, <4>1 DEF OpHolds
    <3> QED BY <3>3, <3>4
  <2>5. PassHolds(pass', clusterLog')
    BY <1>2 DEF PassHolds
  <2> QED BY <1>1, <1>2, <2>3, <2>4, <2>5, LockKept
<1> QED BY <1>0, <1>3, <1>4 DEF Releases

\* The cluster object changes under everybody.
LEMMA LockFollows ==
  ASSUME TypeInv, LockInv, UNCHANGED <<env, opsLog, pass>>, DeliverCluster \/ ClusterWrite
  PROVE  LockInv'
<1>1. GoesOnce(clusterLog) /\ DOMAIN Action \subseteq Ops
  BY TypeParts, EnvType DEF LockInv
<1>2. ASSUME NEW o \in Ops
      PROVE  /\ GoesOnce(clusterLog') /\ (~Cached(clusterLog).exists => ~Cached(clusterLog').exists)
             /\ Lasts(clusterLog, o) => Lasts(clusterLog', o)
             /\ Ends(clusterLog, o) => Ends(clusterLog', o)
  BY <1>1, LogTouched, LogFollowed
<1>3. GoesOnce(clusterLog') /\ (~Cached(clusterLog).exists => ~Cached(clusterLog').exists)
  BY <1>1, LogTouched, LogFollowed
<1>4. PastLock(pass) \/ pass.pc = "lock" => pass.op \in Ops
  BY PassFields DEF PastLock, At
<1>5. PassHolds(pass', clusterLog')
  BY <1>2, <1>3, <1>4 DEF LockInv, PassHolds
<1>6. \A o \in DOMAIN Action : Op(o)' = Op(o)
  BY DEF Op
<1>7. \A o \in DOMAIN Action : OpHolds(o, Op(o)', clusterLog')
  BY <1>1, <1>2, <1>3, <1>6 DEF LockInv, OpHolds
<1> QED BY <1>3, <1>5, <1>6, <1>7, LockKept

\* A write lands: only an operation past the lock begins or goes on, and one whose node
\* may be down is refused only for a cluster that is gone.
LEMMA LockLands ==
  ASSUME TypeInv, StepInv, EndInv, LockInv, UNCHANGED env, Lands
  PROVE  LockInv'
<1> DEFINE v == Op(pass.op)
           w == Stored(opsLog'[pass.op])
<1>0. /\ pass.pc = "write" /\ ~At("idle") /\ GoesOn /\ UNCHANGED clusterLog
      /\ pass.op \in DOMAIN Action /\ pass.op \in Ops /\ pass.do \in Doings
      /\ WriteFits(pass.do, pass.arg, pass.then, pass.op, pass.obj)
      /\ DOMAIN Action \subseteq Ops
  BY LandedStep, TypeParts, EnvType DEF Lands, Still, At
<1>1. /\ InStep(pass, v) /\ SameStatus(pass.obj, v)
      /\ Mutates(v, w, pass.do, pass.arg, v, pass.list)
      /\ \A p \in Ops \ {pass.op} : Op(p)' = Op(p)
      /\ \A p \in Ops : p = pass.op => Op(p)' = w
  BY LandedStep
<1>2. EndsLate(pass) /\ PassHolds(pass, clusterLog) /\ OpHolds(pass.op, v, clusterLog)
  BY <1>0 DEF EndInv, LockInv
<1>3. PastLock(pass) => \A o \in DOMAIN Action : Engaged(Op(o)) => o = pass.op
  BY DEF LockInv
<1>4. \A o \in DOMAIN Action : Engaged(Op(o)) /\ Engaged(v) => o = pass.op
  BY <1>0 DEF LockInv
<1> HIDE DEF v, w
<1>5. /\ pass.obj.step = v.step /\ pass.obj.phase = v.phase /\ pass.obj.late = v.late
      /\ ~Terminal(v.phase) /\ SameMeta(v, w)
      /\ v.step \in DownSteps => Live(v)
  <2>1. pass.obj.step = v.step /\ pass.obj.phase = v.phase /\ pass.obj.late = v.late
    BY <1>1 DEF SameStatus
  <2>2. ~Terminal(v.phase) /\ (v.step \in DownSteps => v.exists /\ ~v.deleted)
    BY <1>0, <1>1, <2>1 DEF InStep
  <2> QED BY <1>1, <2>1, <2>2 DEF Mutates, Live
<1>6. OpHolds(pass.op, w, clusterLog) /\ (PastLock(pass) \/ (Engaged(w) => Engaged(v)))
  <2>1. CASE pass.do = "hold"
    <3>1. w.step = v.step /\ w.late = v.late /\ ~Terminal(w.phase)
      BY <1>1, <1>5, <2>1 DEF Mutates, SameStep, Terminal
    <3>2. (Live(w) => Live(v)) /\ ~Refused(w)
      BY <1>5, <3>1 DEF SameMeta, Live, Refused, Terminal
    <3> QED BY <1>2, <3>1, <3>2 DEF OpHolds, Engaged, Working
  <2>2. CASE pass.then = "refuse"
    <3>1. /\ Terminal(w.phase) /\ w.step \in {v.step, "Completed"} /\ ~Cached(clusterLog).exists
      BY <1>0, <1>1, <1>2, <2>2 DEF WriteFits, Mutates, SameStep, Entered, Terminal, PassHolds
    <3>2. Refused(w) => Engaged(v)
      BY <1>5, <3>1 DEF Refused, Engaged, Working, DownSteps
    <3> QED BY <3>1, <3>2 DEF OpHolds, Engaged, Working, Live
  <2>3. CASE pass.do # "hold" /\ pass.then # "refuse"
    <3>1. PastLock(pass)
      BY <1>0, <2>3 DEF PastLock
    <3>2. Lasts(clusterLog, pass.op) /\ Ends(clusterLog, pass.op)
      BY <1>2, <3>1 DEF PassHolds
    <3>3. ~Refused(w)
      <4>1. CASE pass.do = "finish"
        <5>1. pass.then = "release"
          BY <1>0, <2>3, <4>1 DEF WriteFits
        <5>2. SUFFICES ASSUME Refused(w) PROVE FALSE
          OBVIOUS
        <5>3. w.step \in DownSteps /\ ~w.late
          BY <5>2 DEF Refused
        <5>4. pass.arg # "Succeeded" /\ SameStep(v, w)
          BY <1>1, <4>1, <5>3 DEF Mutates, Entered, DownSteps
        <5> QED BY <1>0, <1>2, <1>5, <4>1, <5>1, <5>3, <5>4 DEF SameStep, EndsLate
      <4>2. CASE pass.do # "finish"
        <5>1. ~Terminal(w.phase)
          BY <1>0, <1>1, <1>5, <2>3, <4>2 DEF Doings, Mutates, Terminal
        <5> QED BY <5>1 DEF Refused, Terminal
      <4> QED BY <4>1, <4>2
    <3> QED BY <3>1, <3>2, <3>3 DEF OpHolds
  <2> QED BY <2>1, <2>2, <2>3
<1>7. ASSUME NEW o \in DOMAIN Action
      PROVE  /\ OpHolds(o, Op(o)', clusterLog)
             /\ o # pass.op => Op(o)' = Op(o)
             /\ o = pass.op => Op(o)' = w /\ Op(o) = v
             /\ Engaged(Op(o)') => Engaged(Op(o)) \/ (o = pass.op /\ PastLock(pass))
  <2>1. o \in Ops /\ OpHolds(o, Op(o), clusterLog)
    BY <1>0 DEF LockInv
  <2>2. (o # pass.op => Op(o)' = Op(o)) /\ (o = pass.op => Op(o)' = w /\ Op(o) = v)
    BY <1>1, <2>1 DEF v
  <2> QED BY <1>6, <2>1, <2>2
<1>8. /\ PassHolds(pass', clusterLog)
      /\ PastLock(pass') => PastLock(pass) /\ pass'.op = pass.op
  <2>1. pass' = Idle => ~PastLock(pass') /\ PassHolds(pass', clusterLog)
    BY IdleSpot DEF PastLock, PassHolds
  <2>2. pass'.pc = "release" => ~PastLock(pass') /\ PassHolds(pass', clusterLog)
    BY DEF PastLock, PassHolds
  <2>3. ASSUME pass.then \in {"step", "walk", "succeed"}
        PROVE  PastLock(pass)
    BY <1>0, <2>3 DEF WriteFits, PastLock
  <2>4. ASSUME pass.then \in {"step", "walk", "succeed"}, pass'.op = pass.op,
               pass'.pc \in {"step", "walk"} \/ pass'.then # "refuse", pass'.pc # "lock"
        PROVE  PassHolds(pass', clusterLog)
    BY <1>2, <2>3, <2>4 DEF PassHolds
  <2> QED BY <1>0, <2>1, <2>2, <2>3, <2>4 DEF GoesOn
<1>9. /\ GoesOnce(clusterLog') /\ PassHolds(pass', clusterLog')
      /\ \A o \in DOMAIN Action : OpHolds(o, Op(o)', clusterLog')
  BY <1>0, <1>7, <1>8 DEF LockInv
<1>10. ASSUME NEW o \in DOMAIN Action, PastLock(pass'), Engaged(Op(o)') PROVE o = pass'.op
  BY <1>3, <1>7, <1>8, <1>10
<1>11. ASSUME NEW o \in DOMAIN Action, NEW p \in DOMAIN Action, Engaged(Op(o)'), Engaged(Op(p)')
       PROVE  o = p
  <2>1. CASE PastLock(pass)
    BY <1>3, <1>7, <1>11, <2>1
  <2>2. CASE ~PastLock(pass)
    BY <1>7, <1>11, <2>2 DEF LockInv
  <2> QED BY <2>1, <2>2
<1> QED BY <1>9, <1>10, <1>11, LockParts

LEMMA LockNext ==
  ASSUME TypeInv, Prompt, StepInv, EndInv, LockInv, [Next]_vars
  PROVE  LockInv'
<1>0. Kinds /\ UNCHANGED env
  BY StepKinds
<1>1. CASE Lands
  BY <1>0, <1>1, LockLands
<1>2. CASE TakesLock
  BY <1>0, <1>2, LockTaken
<1>3. CASE GivesBack
  BY <1>0, <1>3, LockGiven
<1>4. CASE ClusterMoves
  BY <1>0, <1>4, LockFollows DEF ClusterMoves
<1>5. CASE ~Lands /\ UNCHANGED clusterLog
  <2>1. \A o \in DOMAIN Action : Keeps(Op(o), Op(o)')
    BY <1>0, <1>5, OpsKept
  <2>2. CASE Rests \/ Delivers \/ TimeGoes \/ UserAsks \/ CpMoves
    BY <1>0, <1>5, <2>1, <2>2, SteadyKinds, LockStays
  <2>3. CASE Stops \/ Finalizes \/ Restarts
    <3>1. pass' = Idle
      BY <2>3 DEF Stops, Finalizes, Restarts
    <3> QED BY <1>0, <1>5, <2>1, <3>1, IdleSpot, LockStays DEF PastLock
  <2>4. CASE Reads
    <3>1. PICK o \in Ops : ReadAs(o) /\ Current(opsLog[o])
      BY <2>4 DEF Reads, Prompt
    <3>2. o \in DOMAIN Action /\ Cached(opsLog[o]) = Op(o) /\ pass'.op = o
      BY <3>1, OpEnds DEF ReadAs
    <3>3. CASE pass'.pc # "lock"
      <4>1. ~PastLock(pass') /\ pass'.pc # "write"
        BY <3>1, <3>3 DEF ReadAs, PastLock
      <4> QED BY <1>0, <1>5, <2>1, <3>3, <4>1, LockStays
    <3>4. CASE pass'.pc = "lock"
      <4>1. Live(Op(o))
        BY <3>1, <3>2, <3>4 DEF ReadAs, Live
      <4>2. Lasts(clusterLog, o) /\ ~PastLock(pass')
        BY <3>2, <3>4, <4>1 DEF LockInv, OpHolds, PastLock
      <4>3. PassHolds(pass', clusterLog')
        BY <1>5, <3>2, <3>4, <4>2 DEF PassHolds
      <4>4. /\ \A p \in DOMAIN Action : OpHolds(p, Op(p)', clusterLog')
            /\ \A p \in DOMAIN Action : Engaged(Op(p)') => Engaged(Op(p))
        BY <1>5, <2>1, KeptHolds DEF LockInv
      <4>5. GoesOnce(clusterLog')
        BY <1>5 DEF LockInv
      <4> QED BY <1>0, <4>2, <4>3, <4>4, <4>5, LockKept
    <3> QED BY <3>3, <3>4
  <2>5. CASE Waits \/ Claims \/ Calls \/ Advances \/ WalksOn
    <3>1. PastLock(pass)
      BY <2>5 DEF Waits, Claims, Calls, Advances, WalksOn, At, PastLock
    <3>2. pass' = Idle \/ (PastLock(pass') /\ pass'.op = pass.op)
      BY <2>5 DEF Waits, Claims, Calls, Called, Advances, Advanced, WalksOn, Walked, Leaves, Walks,
           Sent, GoesTo, Held, PastLock
    <3> QED BY <1>0, <1>5, <2>1, <3>1, <3>2, IdleSpot, LockStays DEF PastLock
  <2> QED BY <1>0, <1>2, <1>3, <1>4, <1>5, <2>2, <2>3, <2>4, <2>5 DEF Kinds
<1>6. CASE ~Lands /\ ~TakesLock /\ ~GivesBack /\ ~ClusterMoves
  <2>1. UNCHANGED clusterLog
    BY <1>0, <1>6 DEF Kinds, Rests, Reads, Stops, Finalizes, Waits, Claims, Calls, Advances, WalksOn,
         Delivers, TimeGoes, Ticks, UserAsks, Restarts, CpMoves, Still
  <2> QED BY <1>5, <1>6, <2>1
<1> QED BY <1>1, <1>2, <1>3, <1>4, <1>6

LEMMA LockInit ==
  ASSUME Init
  PROVE  LockInv
<1> DEFINE c == [lock |-> NoOp, exists |-> TRUE]
<1>1. pass.pc = "idle" /\ clusterLog = <<c>>
  BY IdleSpot DEF Init
<1>2. c.exists /\ c.lock = NoOp
  OBVIOUS
<1>3. Len(clusterLog) = 1 /\ clusterLog[1] = c
  BY <1>1
<1> HIDE DEF c
<1>4. \A i \in 1..Len(clusterLog) : clusterLog[i] = c
  BY <1>3
<1>5. GoesOnce(clusterLog)
  BY <1>2, <1>4 DEF GoesOnce
<1>6. \A o \in Ops : Lasts(clusterLog, o)
  <2>1. NoOp \notin Ops
    BY Bounds
  <2> QED BY <1>2, <1>4, <2>1 DEF Lasts
<1>7. ASSUME NEW o \in DOMAIN Action PROVE OpHolds(o, Op(o), clusterLog) /\ ~Engaged(Op(o))
  BY <1>6, <1>7, FirstOps DEF OpHolds, Engaged, Working, Refused, DownSteps
<1>8. ~PastLock(pass) /\ PassHolds(pass, clusterLog)
  BY <1>1 DEF PastLock, PassHolds
<1> QED BY <1>5, <1>7, <1>8 DEF LockInv

\* The same with operations that lag and a cluster object that does not.
LEMMA HoldNext ==
  ASSUME TypeInv, ~May("lag"), HoldInv, [Next]_vars
  PROVE  HoldInv'
<1>0. Kinds
  BY StepKinds
<1>1. /\ Len(clusterLog) \in Nat \ {0} /\ Cached(clusterLog) \in ClusterObj
      /\ Current(clusterLog) => Cached(clusterLog) = Stored(clusterLog)
      /\ Stored(clusterLog) \in ClusterObj
  BY ClusterEnds
<1> SUFFICES ASSUME PastLock(pass')
             PROVE  Stored(clusterLog').lock = pass'.op \/ ~Stored(clusterLog').exists
  BY DEF HoldInv, Holder, Gone, PastLock
<1>2. CASE UNCHANGED clusterLog /\ PastLock(pass) /\ pass'.op = pass.op
  BY <1>2 DEF HoldInv, Holder, Gone
<1>4. CASE TakesLock
  <2>1. Current(clusterLog) /\ Locks /\ pass.op \in Ops
    BY <1>4, PassFields DEF TakesLock, MayReadCluster, At
  <2>2. CASE Cached(clusterLog).lock = pass.op /\ UNCHANGED clusterLog /\ pass'.op = pass.op
    BY <1>1, <2>1, <2>2
  <2>3. CASE /\ clusterLog' = Written(clusterLog, [Cached(clusterLog) EXCEPT !.lock = pass.op])
             /\ Room(clusterLog, MaxLag) /\ pass'.op = pass.op
    <3> DEFINE d == [Cached(clusterLog) EXCEPT !.lock = pass.op]
    <3>1. d \in ClusterObj /\ d.lock = pass.op
      BY <1>1, <2>1 DEF ClusterObj
    <3>2. Stored(clusterLog') = d
      BY <2>3, <3>1, ClusterWritten
    <3> QED BY <2>3, <3>1, <3>2
  <2> QED BY <2>1, <2>2, <2>3, IdleSpot DEF Locks, PastLock, Sent, GoesTo, Held
<1>5. CASE ClusterMoves
  <2>1. UNCHANGED pass /\ PastLock(pass)
    BY <1>5 DEF ClusterMoves
  <2>2. CASE DeliverCluster
    BY <2>1, <2>2, ClusterDelivered DEF HoldInv, Holder, Gone
  <2>3. CASE ClusterWrite
    <3>1. Room(clusterLog, MaxLag)
      BY <2>3 DEF ClusterWrite
    <3>2. CASE clusterLog' = Written(clusterLog, Stored(clusterLog))
      BY <1>1, <2>1, <3>1, <3>2, ClusterWritten DEF HoldInv, Holder, Gone
    <3>3. CASE clusterLog' = Written(clusterLog, [exists |-> FALSE, lock |-> NoOp])
      <4> DEFINE d == [exists |-> FALSE, lock |-> NoOp]
      <4>1. d \in ClusterObj /\ d.exists = FALSE
        BY DEF ClusterObj
      <4>2. Stored(clusterLog') = d
        BY <3>1, <3>3, <4>1, ClusterWritten
      <4> QED BY <4>1, <4>2
    <3> QED BY <2>3, <3>2, <3>3 DEF ClusterWrite
  <2> QED BY <1>5, <2>2, <2>3 DEF ClusterMoves
<1>6. CASE Waits \/ Claims \/ Calls \/ Advances \/ WalksOn
  <2>1. PastLock(pass) /\ UNCHANGED clusterLog
    BY <1>6 DEF Waits, Claims, Calls, Advances, WalksOn, At, PastLock, Still
  <2>2. pass' = Idle \/ pass'.op = pass.op
    BY <1>6 DEF Waits, Claims, Calls, Called, Advances, Advanced, WalksOn, Walked, Leaves, Walks,
         Sent, GoesTo, Held
  <2> QED BY <1>2, <2>1, <2>2, IdleSpot DEF PastLock
<1>7. CASE Lands
  <2>1. UNCHANGED clusterLog /\ pass.pc = "write" /\ GoesOn
    BY <1>7 DEF Lands, Still, At
  <2>2. WriteFits(pass.do, pass.arg, pass.then, pass.op, pass.obj)
    BY <2>1, PassFields DEF PassFits
  <2>3. PastLock(pass) /\ pass'.op = pass.op
    BY <2>1, <2>2, IdleSpot DEF GoesOn, PastLock, WriteFits
  <2> QED BY <1>2, <2>1, <2>3
<1>8. CASE Stops \/ Finalizes \/ Restarts \/ Reads \/ GivesBack
  BY <1>8, IdleSpot DEF Stops, Finalizes, Restarts, Reads, ReadAs, GivesBack, Releases, GoesTo, PastLock
<1>9. CASE Rests \/ Delivers \/ TimeGoes \/ UserAsks \/ CpMoves
  <2>1. Steady /\ UNCHANGED clusterLog
    BY <1>9, StepKinds, SteadyKinds DEF Rests, Delivers, TimeGoes, Ticks, UserAsks, CpMoves, Still
  <2> QED BY <1>2, <2>1 DEF Steady, PastLock
<1> QED BY <1>0, <1>4, <1>5, <1>6, <1>7, <1>8, <1>9 DEF Kinds

\* The invariants hold in every environment they are about.
CoreInv == StepInv /\ EndInv /\ LockInv

LEMMA CoreInvariant == Spec => [](Prompt => CoreInv)
<1>1. Init => (Prompt => CoreInv)
  BY StepInit, EndInit, LockInit DEF CoreInv
<1>2. TypeInv /\ (Prompt => CoreInv) /\ [Next]_vars => (Prompt => CoreInv)'
  <2> SUFFICES ASSUME TypeInv, Prompt => CoreInv, [Next]_vars, Prompt' PROVE CoreInv'
    OBVIOUS
  <2>1. Prompt
    BY StepKinds DEF Prompt, May
  <2> QED BY <2>1, StepNext, EndNext, LockNext DEF CoreInv
<1> QED BY <1>1, <1>2, TypeInvariant, PTL DEF Spec

LEMMA HoldInvariant == Spec => [](~May("lag") => HoldInv)
<1>1. Init => HoldInv
  BY IdleSpot DEF Init, HoldInv, PastLock
<1>2. TypeInv /\ (~May("lag") => HoldInv) /\ [Next]_vars => (~May("lag") => HoldInv)'
  <2> SUFFICES ASSUME TypeInv, ~May("lag") => HoldInv, [Next]_vars, ~May("lag")' PROVE HoldInv'
    OBVIOUS
  <2>1. ~May("lag")
    BY StepKinds DEF May
  <2> QED BY <2>1, HoldNext
<1> QED BY <1>1, <1>2, TypeInvariant, PTL DEF Spec

\* CallUnderLock (ClusterOps): a pass calls the control plane only while its operation is
\* the one in status.activeOpsRef, or the cluster object is gone, provided that not both
\* the operation and the cluster are read from caches that lag (acquireLock, releaseLock,
\* once).  When both lag, an operation that gave the lock back finds itself in it again.
THEOREM CallsUnderLock == Spec => [](~May("opslag") \/ ~May("lag") => CallUnderLock)
<1>1. TypeInv /\ (Prompt => CoreInv) /\ (~May("lag") => HoldInv)
        => (~May("opslag") \/ ~May("lag") => CallUnderLock)
  <2> SUFFICES ASSUME TypeInv, Prompt => CoreInv, ~May("lag") => HoldInv,
                      ~May("opslag") \/ ~May("lag"), At("call")
               PROVE  Holder = pass.op \/ ~Stored(clusterLog).exists
    BY DEF CallUnderLock
  <2>1. PastLock(pass)
    BY DEF At, PastLock
  <2>2. CASE ~May("lag")
    BY <2>1, <2>2 DEF HoldInv, Gone
  <2>3. CASE Prompt
    <3>1. Ends(clusterLog, pass.op)
      BY <2>1, <2>3 DEF CoreInv, LockInv, PassHolds
    <3> QED BY <3>1, ClusterEnds, EndsStored DEF Holder
  <2> QED BY <2>2, <2>3 DEF Prompt
<1> QED BY <1>1, TypeInvariant, CoreInvariant, HoldInvariant, PTL
-------------------------------------------------------------------------------
(* The walk brings back every node it takes down.                          *)

\* A node's status, and what the stream says of it, change one at a time.
NodeTurns(n) ==
  /\ \/ nodes'[n] = nodes[n]
     \/ seen'[n] = seen[n] /\ (nodes'[n] = "online" => n \in cycled')
  /\ \/ seen'[n] = seen[n]
     \/ seen'[n] = nodes[n] /\ nodes'[n] = nodes[n]

LEMMA NodesTurn ==
  ASSUME TypeInv, Kinds
  PROVE  cycled \subseteq cycled' /\ \A n \in Nodes : NodeTurns(n)
<1> USE DEF cpVars, streams, history
<1>0. nodes \in [Nodes -> NodeStatuses] /\ seen \in [Nodes -> NodeStatuses]
  BY TypeParts DEF CpOK, CpTypes, StreamsOK
<1>1. CASE UNCHANGED <<nodes, seen, cycled>>
  BY <1>1 DEF NodeTurns
<1>2. CASE Restarts
  BY <1>2 DEF Restarts, NodeTurns
<1>3. CASE CpMoves
  <2>1. ASSUME NEW m \in Nodes, CpNodeBegins(m) \/ CpNodeEnds(m) \/ CpFault(m) \/ CpRemoves(m)
        PROVE  cycled \subseteq cycled' /\ \A n \in Nodes : NodeTurns(n)
    <3>1. PICK st : Becomes(m, st)
      BY <2>1, NodeStatusNext
    <3>2. /\ nodes' = [nodes EXCEPT ![m] = st] /\ UNCHANGED seen
          /\ cycled' = IF st = "online" THEN cycled \cup {m} ELSE cycled
      BY <3>1 DEF Becomes, NodeBecomes
    <3> QED BY <1>0, <3>2 DEF NodeTurns
  <2>2. ASSUME NEW m \in Nodes, StreamNode(m)
        PROVE  cycled \subseteq cycled' /\ \A n \in Nodes : NodeTurns(n)
    BY <1>0, <2>2 DEF StreamNode, NodeTurns
  <2>3. ASSUME NEW m \in Nodes, PodMoves(m) PROVE UNCHANGED <<nodes, seen, cycled>>
    BY <2>3 DEF PodMoves
  <2>4. CASE CpCluster \/ CpRebalanced \/ StreamCluster
    BY <1>1, <2>4 DEF CpCluster, CpRebalanced, StreamCluster
  <2> QED BY <1>1, <1>3, <2>1, <2>2, <2>3, <2>4 DEF CpMoves
<1>4. CASE ~Restarts /\ ~CpMoves
  <2>1. UNCHANGED <<nodes, seen, cycled>>
    BY <1>4 DEF Kinds, Rests, Reads, Stops, Finalizes, TakesLock, Waits, Claims, Calls, Lands,
         GivesBack, Advances, WalksOn, Delivers, TimeGoes, Ticks, UserAsks, ClusterMoves, Still
  <2> QED BY <1>1, <2>1
<1> QED BY <1>2, <1>3, <1>4

LEMMA LeftStays ==
  ASSUME TypeInv, Kinds, SeenBack
  PROVE  SeenBack' /\ cycled \subseteq cycled' /\ Left \subseteq Left'
<1>1. cycled \subseteq cycled' /\ \A n \in Nodes : NodeTurns(n)
  BY NodesTurn
<1>2. \A n \in Nodes : nodes'[n] = "online" => n \in cycled' \/ seen'[n] = "online"
  BY <1>1 DEF NodeTurns, SeenBack
<1>3. Left \subseteq Left'
  BY <1>1 DEF NodeTurns, Left
<1> QED BY <1>1, <1>2, <1>3 DEF SeenBack

\* More nodes that came back, or left, only help.
LEMMA WalkGrows ==
  ASSUME NEW v, NEW w, SameSpot(v, w), NEW b, NEW c, b \subseteq c, NEW l, NEW m, l \subseteq m,
         WalkAt(v, b, l)
  PROVE  WalkAt(w, c, m)
  BY DEF SameSpot, SamePlan, WalkAt, AtNode

LEMMA WalkWriteGrows ==
  ASSUME Steady, NEW b, NEW c, b \subseteq c, NEW l, NEW m, l \subseteq m, WalkWrite(pass, b, l)
  PROVE  WalkWrite(pass', c, m)
  BY DEF Steady, SameSpot, SamePlan, WalkWrite, AtNode

\* What the pass decides to write from what it sees.
LEMMA WalkPosts ==
  ASSUME TypeInv, StepInv, WalkInv, WalksOn, pass'.pc = "write"
  PROVE  WalkWrite(pass', cycled, Left)
<1> DEFINE v == pass.obj
           n == v.plan[v.index]
<1>0. pass.pc = "walk" /\ ~At("idle") /\ Walked
  BY DEF WalksOn, At
<1>1. /\ Rolls(pass.op) /\ pass.op \in DOMAIN Action /\ pass.arg = v.step
      /\ SameStatus(v, Op(pass.op)) /\ v \in OpsObj
  BY <1>0, PassFields DEF PassFits, StepInv, InStep
<1>2. WalkAt(v, cycled, Left)
  <2>1. SameSpot(Op(pass.op), v)
    BY <1>1 DEF SameStatus, SameSpot, SamePlan
  <2> QED BY <1>1, <2>1, WalkGrows DEF WalkInv
<1>4. CASE Sent("note", "", "requeue") \/ (~AtNode(v) /\ Sent("record", "ShuttingDownNode", "requeue"))
  BY <1>4 DEF Sent, Held, WalkWrite, BackSteps
<1>5. CASE /\ AtNode(v) /\ v.step \in RollSteps \ {"Rebalancing"}
           /\ v.step = "ShuttingDownNode" => seen[n] \in {"offline", "in_restart"}
           /\ v.step = "RestartingNode" => seen[n] = "online"
           /\ Sent("record", NextStep(v.step), "requeue")
  <2>1. n \in Nodes
    BY <1>1, <1>5, ObjFields
  <2>2. NextStep(v.step) = "Rebalancing" => n \in cycled
    <3>1. SUFFICES ASSUME NextStep(v.step) = "Rebalancing" PROVE n \in cycled
      OBVIOUS
    <3>2. v.step = "RestartingNode"
      BY <1>5, <3>1, NextOfRoll
    <3>3. n \in Left /\ seen[n] = "online"
      BY <1>2, <1>5, <3>2 DEF WalkAt, BackSteps
    <3> QED BY <3>3 DEF Left
  <2>3. NextStep(v.step) \in BackSteps => n \in Left
    <3>1. SUFFICES ASSUME NextStep(v.step) \in BackSteps PROVE n \in Left
      OBVIOUS
    <3>2. v.step \in {"ShuttingDownNode"} \cup BackSteps
      BY <1>5, <3>1, NextOfRoll DEF BackSteps, RollSteps
    <3>3. CASE v.step \in BackSteps
      BY <1>2, <1>5, <3>3 DEF WalkAt
    <3>4. CASE v.step = "ShuttingDownNode"
      <4>1. seen[n] # "online"
        BY <1>5, <3>4
      <4> QED BY <2>1, <4>1 DEF Left, WalkInv, SeenBack
    <3> QED BY <3>2, <3>3, <3>4
  <2> QED BY <1>5, <2>2, <2>3 DEF Sent, Held, WalkWrite
<1>6. CASE Leaves("skip")
  BY <1>6 DEF Leaves, Sent, Held, WalkWrite
<1>7. CASE AtNode(v) /\ v.step = "Rebalancing" /\ Leaves("")
  <2>1. n \in cycled
    BY <1>2, <1>7 DEF WalkAt
  <2> QED BY <1>7, <2>1 DEF Leaves, Sent, Held, WalkWrite
<1> QED BY <1>0, <1>1, <1>4, <1>5, <1>6, <1>7, IdleSpot DEF Walked, GoesTo

\* The walk has left the node it stood at.
LEMMA WalkPast ==
  ASSUME NEW v \in OpsObj, NEW w \in OpsObj, NEW b, NEW l, NEW arg, AtNode(v),
         StepsPast(v, w, arg, v), WalkAt(v, b, l), arg # "skip" => v.plan[v.index] \in b
  PROVE  \A j \in 1..Len(w.plan) : j < w.index => w.plan[j] \in b \cup w.skipped
<1>1. w.plan = v.plan /\ w.index = v.index + 1 /\ v.skipped \subseteq w.skipped
  BY DEF StepsPast
<1>2. v.plan[v.index] \in b \cup w.skipped
  BY DEF StepsPast
<1>3. \A j \in 1..Len(v.plan) : j < v.index => v.plan[j] \in b \cup v.skipped
  BY DEF WalkAt
<1>4. v.index \in Nat
  BY ObjFields
<1> TAKE j \in 1..Len(w.plan)
<1> HAVE j < w.index
<1>5. j < v.index \/ j = v.index
  BY <1>1, <1>4
<1> QED BY <1>1, <1>2, <1>3, <1>5

LEMMA WalkLands ==
  ASSUME TypeInv, StepInv, WalkInv, Lands, Rolls(pass.op)
  PROVE  WalkAt(Stored(opsLog'[pass.op]), cycled, Left)
<1> DEFINE v == Op(pass.op)
           w == Stored(opsLog'[pass.op])
<1>0. /\ pass.pc = "write" /\ pass.op \in DOMAIN Action /\ pass.do \in Doings
      /\ WriteFits(pass.do, pass.arg, pass.then, pass.op, pass.obj)
      /\ v \in OpsObj /\ w \in OpsObj
      /\ InStep(pass, v) /\ SameStatus(pass.obj, v)
      /\ Mutates(v, w, pass.do, pass.arg, v, pass.list)
  BY LandedStep DEF Lands, At
<1>1. WalkAt(v, cycled, Left) /\ WalkWrite(pass, cycled, Left)
  BY <1>0 DEF WalkInv, At
<1> SUFFICES WalkAt(w, cycled, Left)
  OBVIOUS
<1> HIDE DEF v, w
<1>2. /\ pass.obj.plan = v.plan /\ pass.obj.index = v.index /\ ~Terminal(v.phase)
      /\ pass.obj.step = v.step
  BY <1>0 DEF InStep, SameStatus
<1>3. AtNode(pass.obj) <=> AtNode(v)
  BY <1>2 DEF AtNode
<1>4. v.index \in Nat /\ Len(v.plan) \in Nat
  BY <1>0, ObjFields
<1>5. CASE pass.do \in {"run", "hold", "note"}
  <2>1. SameStep(v, w) /\ SamePlan(v, w) /\ w.phase # "Succeeded"
    BY <1>0, <1>2, <1>5 DEF Mutates, Terminal
  <2> QED BY <1>1, <2>1 DEF WalkAt, SameStep, SamePlan, AtNode
<1>6. CASE pass.do = "record"
  <2>1. w.step = pass.arg /\ SamePlan(v, w) /\ w.phase # "Succeeded"
    BY <1>0, <1>6 DEF Mutates, Entered
  <2>2. (AtNode(w) <=> AtNode(v)) /\ w.plan = v.plan /\ w.index = v.index /\ w.skipped = v.skipped
    BY <2>1 DEF SamePlan, AtNode
  <2> QED BY <1>1, <1>2, <1>3, <1>6, <2>1, <2>2 DEF WalkAt, WalkWrite
<1>7. CASE pass.do = "plan"
  <2>1. w.step = "CheckingPeers" /\ w.index = 1 /\ w.phase # "Succeeded"
    BY <1>0, <1>2, <1>7 DEF Mutates, SameStep, InStep, WriteFits, Terminal
  <2>2. \A j \in 1..Len(w.plan) : ~(j < w.index)
    BY <2>1
  <2> QED BY <2>1, <2>2 DEF WalkAt, BackSteps
<1>8. CASE pass.do \in {"next", "walked"}
  <2>1. AtNode(v) /\ StepsPast(v, w, pass.arg, v) /\ w.phase # "Succeeded"
    BY <1>0, <1>2, <1>3, <1>8 DEF WriteFits, Mutates, Terminal
  <2>2. pass.arg # "skip" => v.plan[v.index] \in cycled
    BY <1>1, <1>2, <1>8 DEF WalkWrite
  <2>3. \A j \in 1..Len(w.plan) : j < w.index => w.plan[j] \in cycled \cup w.skipped
    BY <1>0, <1>1, <2>1, <2>2, WalkPast
  <2>4. w.step = "CheckingPeers" \/ ~AtNode(w)
    <3>1. CASE pass.do = "next"
      BY <1>0, <3>1 DEF Mutates, Entered
    <3>2. CASE pass.do = "walked"
      <4>1. w.index = v.index + 1 /\ w.plan = v.plan /\ v.index = Len(v.plan)
        BY <1>1, <1>2, <2>1, <3>2 DEF StepsPast, WalkWrite
      <4> QED BY <1>4, <4>1 DEF AtNode
    <3> QED BY <1>8, <3>1, <3>2
  <2> QED BY <2>1, <2>3, <2>4 DEF WalkAt, BackSteps
<1>9. CASE pass.do = "finish"
  <2>1. SamePlan(v, w) /\ (AtNode(w) <=> AtNode(v))
    BY <1>0, <1>9 DEF Mutates, SamePlan, AtNode
  <2>2. CASE pass.arg = "Succeeded"
    <3>1. w.step = "Completed" /\ v.index > Len(v.plan)
      BY <1>0, <1>1, <1>2, <1>9, <2>2 DEF Mutates, Entered, WalkWrite
    <3> QED BY <1>1, <2>1, <3>1 DEF WalkAt, SamePlan, BackSteps
  <2>3. CASE pass.arg # "Succeeded"
    <3>1. w.step = v.step /\ w.phase # "Succeeded"
      BY <1>0, <1>9, <2>3 DEF Mutates, SameStep
    <3> QED BY <1>1, <2>1, <3>1 DEF WalkAt, SamePlan
  <2> QED BY <2>2, <2>3
<1>10. pass.do # "retry"
  BY <1>0 DEF WriteFits, Rolls
<1> QED BY <1>0, <1>5, <1>6, <1>7, <1>8, <1>9, <1>10 DEF Doings

LEMMA WalkNext ==
  ASSUME TypeInv, Prompt, StepInv, WalkInv, [Next]_vars
  PROVE  WalkInv'
<1>0. Kinds /\ UNCHANGED env
  BY StepKinds
<1>1. SeenBack' /\ cycled \subseteq cycled' /\ Left \subseteq Left'
  BY <1>0, LeftStays DEF WalkInv
<1>2. ASSUME NEW o \in DOMAIN Action, Rolls(o) PROVE WalkAt(Op(o)', cycled', Left')
  <2>1. o \in Ops /\ WalkAt(Op(o), cycled, Left)
    BY <1>2, TypeParts, EnvType DEF WalkInv
  <2>2. CASE \A p \in DOMAIN Action : Keeps(Op(p), Op(p)')
    <3>1. SameSpot(Op(o), Op(o)')
      BY <2>2 DEF Keeps
    <3> QED BY <1>1, <2>1, <3>1, WalkGrows
  <2>3. CASE Lands /\ o # pass.op
    <3>1. SameSpot(Op(o), Op(o)')
      BY <2>1, <2>3, LandedStep DEF SameSpot, SamePlan
    <3> QED BY <1>1, <2>1, <3>1, WalkGrows
  <2>4. CASE Lands /\ o = pass.op
    <3>1. Op(o)' = Stored(opsLog'[pass.op])
      BY <2>1, <2>4, LandedStep
    <3>2. WalkAt(Op(o)', cycled, Left)
      BY <1>2, <2>4, <3>1, WalkLands
    <3>3. SameSpot(Op(o)', Op(o)')
      BY DEF SameSpot, SamePlan
    <3> QED BY <1>1, <3>2, <3>3, WalkGrows
  <2> QED BY <1>0, <2>2, <2>3, <2>4, OpsKept
<1>3. ASSUME pass'.pc = "write", Rolls(pass'.op) PROVE WalkWrite(pass', cycled', Left')
  <2>1. CASE Rests \/ Delivers \/ TimeGoes \/ UserAsks \/ ClusterMoves \/ CpMoves
    <3>1. Steady
      BY <1>0, <2>1, SteadyKinds
    <3>2. WalkWrite(pass, cycled, Left)
      BY <1>3, <3>1 DEF Steady, WalkInv, At
    <3> QED BY <1>1, <3>1, <3>2, WalkWriteGrows
  <2> SUFFICES ASSUME ~(Rests \/ Delivers \/ TimeGoes \/ UserAsks \/ ClusterMoves \/ CpMoves)
               PROVE  WalkWrite(pass', cycled', Left')
    BY <2>1
  <2>2. CASE Stops \/ Finalizes \/ Restarts \/ Reads \/ Claims \/ GivesBack
    BY <1>3, <2>2, IdleSpot DEF Stops, Finalizes, Restarts, Reads, ReadAs, Claims, GivesBack, Releases, GoesTo
  <2>3. CASE TakesLock \/ Waits \/ Calls
    BY <1>3, <2>3, IdleSpot DEF TakesLock, Locks, Waits, Calls, Called, Sent, GoesTo, WalkWrite, BackSteps
  <2>4. CASE WalksOn
    <3>1. WalkWrite(pass', cycled, Left)
      BY <1>3, <2>4, WalkPosts
    <3> QED BY <1>1, <3>1 DEF WalkWrite
  <2>5. CASE Advances
    <3>1. ~At("idle") /\ Advanced /\ pass.obj \in OpsObj
      BY <2>5, PassFields DEF Advances, At
    <3>2. Rolls(pass.op) /\ pass'.op = pass.op
      BY <1>3, <3>1, IdleSpot DEF Advanced, Sent, GoesTo, Walks, Held
    <3>3. InitialStep(Action[pass.op]) = "CheckingPeers"
      BY <3>2 DEF Rolls, InitialStep
    <3>4. WalkFinished(pass.obj) => pass.obj.index > Len(pass.obj.plan)
      BY DEF WalkFinished
    <3> QED BY <1>3, <3>1, <3>2, <3>3, <3>4, IdleSpot DEF Advanced, Sent, GoesTo, Walks, Held, WalkWrite, BackSteps
  <2>6. CASE Lands
    <3> DEFINE w == Stored(opsLog'[pass.op])
               v == Op(pass.op)
    <3>1. /\ pass.then = "succeed" /\ pass'.do = "finish" /\ pass'.arg = "Succeeded"
          /\ pass'.op = pass.op /\ pass'.obj = WithStatus(pass.obj, Mutated)
      BY <1>3, <2>6, IdleSpot DEF Lands, GoesOn
    <3>2. /\ WriteFits(pass.do, pass.arg, pass.then, pass.op, pass.obj) /\ SameStatus(pass.obj, v)
          /\ Mutates(v, w, pass.do, pass.arg, v, pass.list) /\ v \in OpsObj
      BY <2>6, LandedStep
    <3>3. SameStatus(pass'.obj, w)
      BY <2>6, <3>1, LandedTurns DEF Lands
    <3>4. pass.do = "walked"
      BY <3>1, <3>2 DEF WriteFits
    <3>5. v.index = Len(v.plan)
      BY <1>3, <2>6, <3>1, <3>2, <3>4 DEF WalkInv, WalkWrite, SameStatus, Lands
    <3> HIDE DEF v, w
    <3>6. pass'.obj.index = v.index + 1 /\ pass'.obj.plan = v.plan
      BY <3>2, <3>3, <3>4 DEF Mutates, StepsPast, SameStatus
    <3>7. v.index \in Nat
      BY <3>2, ObjFields
    <3>8. pass'.obj.index > Len(pass'.obj.plan)
      BY <3>5, <3>6, <3>7
    <3> QED BY <3>1, <3>8 DEF WalkWrite
  <2> QED BY <1>0, <2>2, <2>3, <2>4, <2>5, <2>6 DEF Kinds
<1> QED BY <1>0, <1>1, <1>2, <1>3 DEF WalkInv, WalkAt, WalkWrite, At, Action, Rolls

LEMMA WalkInit ==
  ASSUME Init
  PROVE  WalkInv
<1>1. pass.pc = "idle" /\ SeenBack
  BY IdleSpot DEF Init, SeenBack
<1>2. ASSUME NEW o \in DOMAIN Action PROVE WalkAt(Op(o), cycled, Left)
  <2>1. Op(o).step = "" /\ Op(o).phase = "" /\ Op(o).plan = <<>> /\ Op(o).index = 0
    BY FirstOps
  <2>2. ~AtNode(Op(o)) /\ \A j \in 1..Len(Op(o).plan) : ~(j < Op(o).index)
    <3>1. Len(Op(o).plan) = 0
      BY <2>1, NoPlan
    <3>2. Op(o).index = 0
      BY <2>1
    <3> QED BY <3>1, <3>2 DEF AtNode
  <2> QED BY <2>1, <2>2 DEF WalkAt
<1> QED BY <1>1, <1>2 DEF WalkInv, At

LEMMA WalkInvariant == Spec => [](Prompt => WalkInv)
<1>1. Init => (Prompt => WalkInv)
  BY WalkInit
<1>2. TypeInv /\ (Prompt => CoreInv) /\ (Prompt => WalkInv) /\ [Next]_vars => (Prompt => WalkInv)'
  <2> SUFFICES ASSUME TypeInv, Prompt => CoreInv, Prompt => WalkInv, [Next]_vars, Prompt'
               PROVE  WalkInv'
    OBVIOUS
  <2>1. Prompt
    BY StepKinds DEF Prompt, May
  <2> QED BY <2>1, WalkNext DEF CoreInv
<1> QED BY <1>1, <1>2, TypeInvariant, CoreInvariant, PTL DEF Spec

\* EveryNodeRestarted (ClusterOps): a rolling restart that succeeded has brought back every
\* node of its plan that it does not name as skipped (performNodeStep, advanceWalk,
\* writeStatus), whatever nodes, streams, the cluster object and the user do, provided
\* that a pass reads its operation when the cache has its newest version.
THEOREM NodesRestarted == Spec => [](~May("opslag") => EveryNodeRestarted)
<1>1. TypeInv /\ (Prompt => WalkInv) => (~May("opslag") => EveryNodeRestarted)
  <2> SUFFICES ASSUME TypeInv, WalkInv, NEW o \in DOMAIN Action, Rolls(o), Op(o).phase = "Succeeded",
                      NEW i \in DOMAIN Op(o).plan
               PROVE  Op(o).plan[i] \in cycled \cup Op(o).skipped
    BY DEF EveryNodeRestarted, Prompt, Rolls
  <2>1. Op(o) \in OpsObj
    BY StoredFits
  <2>2. /\ Op(o).index > Len(Op(o).plan)
        /\ \A j \in 1..Len(Op(o).plan) : j < Op(o).index => Op(o).plan[j] \in cycled \cup Op(o).skipped
    BY DEF WalkInv, WalkAt
  <2>3. Op(o).index \in Nat /\ Len(Op(o).plan) \in Nat /\ i \in 1..Len(Op(o).plan)
    <3>1. Op(o).plan \in Plans
      BY <2>1, ObjFields
    <3>2. DOMAIN Op(o).plan = 1..Len(Op(o).plan)
      BY <3>1, PlanDomain
    <3> QED BY <2>1, <3>2, ObjFields
  <2>4. i < Op(o).index
    BY <2>2, <2>3
  <2> QED BY <2>2, <2>3, <2>4
<1> QED BY <1>1, TypeInvariant, WalkInvariant, PTL
-------------------------------------------------------------------------------
(* A walk answers for every node that is down.                             *)

\* What a step that calls nobody makes of node n: nothing, a reading of the stream, or a
\* turn of its status, which takes a node that is online or leaving out of `down`.
Fades(n) == n \in down' <=> n \in down /\ nodes'[n] # "online" /\ ~Leaving(nodes'[n])

Shifts(n) ==
  \/ /\ nodes'[n] = nodes[n] /\ nodeJob'[n] = nodeJob[n] /\ seen'[n] \in {seen[n], nodes[n]}
     /\ n \in down' <=> n \in down
  \/ /\ seen'[n] = seen[n] /\ Fades(n) /\ nodeJob[n] # "none" /\ nodeJob'[n] = "none"
     /\ \/ nodeJob[n] = "stop" /\ nodes[n] = "online" /\ nodes'[n] = "in_shutdown"
        \/ nodeJob[n] = "start" /\ nodes[n] = "offline" /\ nodes'[n] = "in_restart"
        \/ /\ ~(nodeJob[n] = "stop" /\ nodes[n] = "online")
           /\ ~(nodeJob[n] = "start" /\ nodes[n] = "offline") /\ nodes'[n] = nodes[n]
  \/ /\ seen'[n] = seen[n] /\ Fades(n) /\ nodeJob'[n] = nodeJob[n]
     /\ \/ nodes[n] = "in_shutdown" /\ nodes'[n] = "offline"
        \/ nodes[n] = "in_restart" /\ nodes'[n] = "online"
        \/ /\ May("fault") /\ ~May("early")
           /\ nodes[n] = "online" /\ nodes'[n] = "offline"
        \/ May("fault") /\ nodes[n] = "offline" /\ nodes'[n] = "in_restart"
        \/ Leaving(nodes'[n]) /\ nodes[n] # "in_shutdown" /\ nodes[n] # "in_restart"

LEMMA NodesShift ==
  ASSUME TypeInv, Kinds, ~Calls
  PROVE  \A n \in Nodes : Shifts(n)
<1> USE DEF cpVars, streams, history
<1>0. /\ nodes \in [Nodes -> NodeStatuses] /\ seen \in [Nodes -> NodeStatuses]
      /\ nodeJob \in [Nodes -> {"none", "stop", "start"}]
  BY TypeParts DEF CpOK, CpTypes, StreamsOK
<1>1. CASE UNCHANGED <<nodes, nodeJob, seen, down>>
  BY <1>1 DEF Shifts
<1>2. CASE Restarts
  BY <1>2 DEF Restarts, Shifts
<1>3. CASE CpMoves
  <2>1. ASSUME NEW m \in Nodes, NEW st, NodeBecomes(m, st), nodeJob' = [nodeJob EXCEPT ![m] = nodeJob'[m]],
               NEW n \in Nodes
        PROVE  /\ n # m => Shifts(n)
               /\ n = m => nodes'[n] = st /\ seen'[n] = seen[n] /\ Fades(n)
    <3>1. /\ nodes' = [nodes EXCEPT ![m] = st] /\ UNCHANGED seen
          /\ down' = IF st = "online" \/ Leaving(st) THEN down \ {m} ELSE down
      BY <2>1 DEF NodeBecomes
    <3>2. n # m => nodeJob'[n] = nodeJob[n]
      BY <1>0, <2>1
    <3>3. CASE n # m
      BY <1>0, <3>1, <3>2, <3>3 DEF Shifts
    <3>4. CASE n = m
      BY <1>0, <3>1, <3>4 DEF Fades
    <3> QED BY <3>3, <3>4
  <2>2. ASSUME NEW m \in Nodes, CpNodeBegins(m), NEW n \in Nodes PROVE Shifts(n)
    <3> DEFINE st == CASE nodeJob[m] = "stop" /\ nodes[m] = "online" -> "in_shutdown"
                       [] nodeJob[m] = "start" /\ nodes[m] = "offline" -> "in_restart"
                       [] OTHER -> nodes[m]
    <3>1. nodeJob[m] # "none" /\ nodeJob' = [nodeJob EXCEPT ![m] = "none"] /\ NodeBecomes(m, st)
      BY <2>2 DEF CpNodeBegins
    <3>2. nodeJob'[m] = "none"
      BY <1>0, <3>1
    <3>3. /\ n # m => Shifts(n)
          /\ n = m => nodes'[n] = st /\ seen'[n] = seen[n] /\ Fades(n)
      <4> HIDE DEF st
      <4> QED BY <2>1, <3>1, <3>2
    <3> QED BY <3>1, <3>2, <3>3 DEF Shifts
  <2>3. ASSUME NEW m \in Nodes, CpNodeEnds(m) \/ CpFault(m) \/ CpRemoves(m), NEW n \in Nodes
        PROVE  Shifts(n)
    <3>0. UNCHANGED nodeJob /\ nodeJob' = [nodeJob EXCEPT ![m] = nodeJob'[m]]
      BY <1>0, <2>3 DEF CpNodeEnds, CpFault, CpRemoves
    <3>1. CASE CpNodeEnds(m)
      <4>1. \/ nodes[m] = "in_shutdown" /\ NodeBecomes(m, "offline")
            \/ nodes[m] = "in_restart" /\ NodeBecomes(m, "online")
        BY <3>1 DEF CpNodeEnds
      <4> QED BY <2>1, <3>0, <4>1 DEF Shifts
    <3>2. CASE CpFault(m)
      <4>1. /\ May("fault")
            /\ \/ nodes[m] = "online" /\ ~May("early") /\ NodeBecomes(m, "offline")
               \/ nodes[m] = "offline" /\ NodeBecomes(m, "in_restart")
        BY <3>2 DEF CpFault
      <4> QED BY <2>1, <3>0, <4>1 DEF Shifts
    <3>3. CASE CpRemoves(m)
      <4> DEFINE st == CASE nodes[m] = "leaving" -> "removed"
                         [] nodes[m] = "removed" -> "unlisted"
                         [] OTHER -> "leaving"
      <4>1. nodes[m] \in {"online", "offline", "leaving", "removed"} /\ NodeBecomes(m, st)
        BY <3>3 DEF CpRemoves
      <4>2. Leaving(st)
        BY DEF Leaving
      <4> HIDE DEF st
      <4> QED BY <2>1, <3>0, <4>1, <4>2 DEF Shifts
    <3> QED BY <2>3, <3>1, <3>2, <3>3
  <2>4. ASSUME NEW m \in Nodes, StreamNode(m), NEW n \in Nodes PROVE Shifts(n)
    BY <1>0, <2>4 DEF StreamNode, Shifts
  <2>5. ASSUME NEW m \in Nodes, PodMoves(m) PROVE UNCHANGED <<nodes, nodeJob, seen, down>>
    BY <2>5 DEF PodMoves
  <2>6. CASE CpCluster \/ CpRebalanced \/ StreamCluster
    BY <1>1, <2>6 DEF CpCluster, CpRebalanced, StreamCluster
  <2> QED BY <1>1, <1>3, <2>2, <2>3, <2>4, <2>5, <2>6 DEF CpMoves
<1>4. CASE ~Restarts /\ ~CpMoves
  <2>1. UNCHANGED <<nodes, nodeJob, seen, down>>
    BY <1>4 DEF Kinds, Rests, Reads, Stops, Finalizes, TakesLock, Waits, Claims, Lands,
         GivesBack, Advances, WalksOn, Delivers, TimeGoes, Ticks, UserAsks, ClusterMoves, Still
  <2> QED BY <1>1, <2>1
<1> QED BY <1>2, <1>3, <1>4

\* What a call makes of the nodes: it asks the one the walk stands at to stop or to start.
StopsNode(m) ==
  /\ nodes[m] = "online" /\ nodeJob' = [nodeJob EXCEPT ![m] = "stop"] /\ down' = down \cup {m}
StartsNode(m) ==
  /\ nodes[m] = "offline" /\ nodeJob' = [nodeJob EXCEPT ![m] = "start"] /\ down' = down

LEMMA NodesCalled ==
  ASSUME TypeInv, StepInv, Calls
  PROVE  LET m == pass.obj.plan[pass.obj.index] IN
         /\ UNCHANGED <<nodes, seen, opsLog, clusterLog>>
         /\ \/ UNCHANGED <<nodeJob, down>>
            \/ /\ Rolls(pass.op) /\ AtNode(pass.obj) /\ m \in Nodes
               /\ \/ pass.obj.step = "ShuttingDownNode" /\ StopsNode(m)
                  \/ pass.obj.step = "RestartingNode" /\ StartsNode(m)
<1> DEFINE m == pass.obj.plan[pass.obj.index]
<1>0. pass.pc = "call" /\ ~At("idle") /\ UNCHANGED <<nodes, seen, opsLog, clusterLog>>
  BY DEF Calls, At, streams
<1>1. CASE UNCHANGED <<nodeJob, down>>
  BY <1>0, <1>1
<1>2. CASE Rolls(pass.op) /\ NodeCall
  <2>1. AtNode(pass.obj) /\ m \in Nodes
    BY <1>0, <1>2, PassFields, ObjFields DEF PassFits
  <2>2. pass.obj.step \in {"ShuttingDownNode", "RestartingNode"}
    <3>1. pass.obj.step \in CallSteps /\ pass.obj.step \in RollSteps \cup {"", "Completed"}
      BY <1>0, <1>2, PassFields DEF StepInv, InStep, Fits, StepsOf, Rolls
    <3> QED BY <3>1 DEF CallSteps, RollSteps
  <2>3. nodeJob \in [Nodes -> {"none", "stop", "start"}]
    BY TypeParts DEF CpOK, CpTypes
  <2> HIDE DEF m
  <2>4. \/ /\ pass.obj.step = "ShuttingDownNode"
           /\ nodeJob' = [nodeJob EXCEPT ![m] = IF nodes[m] = "online" THEN "stop" ELSE @]
           /\ down' = IF nodes[m] = "online" THEN down \cup {m} ELSE down
        \/ /\ pass.obj.step # "ShuttingDownNode" /\ down' = down
           /\ nodeJob' = [nodeJob EXCEPT ![m] = IF nodes[m] = "offline" THEN "start" ELSE @]
    BY <1>2 DEF NodeCall, m
  <2>5. \/ pass.obj.step = "ShuttingDownNode" /\ StopsNode(m)
        \/ pass.obj.step = "RestartingNode" /\ StartsNode(m)
        \/ UNCHANGED <<nodeJob, down>>
    BY <2>1, <2>2, <2>3, <2>4 DEF StopsNode, StartsNode
  <2> QED BY <1>0, <1>2, <2>1, <2>5 DEF m
<1>3. CASE ~Rolls(pass.op) /\ ClusterCall
  BY <1>0, <1>1, <1>3 DEF ClusterCall
<1> QED BY <1>1, <1>2, <1>3 DEF Calls

\* The nodes keep their order while nobody is called.
LEMMA ShiftedNode ==
  ASSUME NEW n \in Nodes, Shifts(n)
  PROVE  /\ (Leaving(seen[n]) => Leaving(nodes[n])) /\ (Leaving(nodes[n]) => n \notin down) =>
              (Leaving(seen'[n]) => Leaving(nodes'[n])) /\ (Leaving(nodes'[n]) => n \notin down')
         /\ n \in down' => n \in down
         /\ n \in Away => n \in Away'
<1>1. (Leaving(seen[n]) => Leaving(nodes[n])) /\ (Leaving(nodes[n]) => n \notin down) =>
        (Leaving(seen'[n]) => Leaving(nodes'[n])) /\ (Leaving(nodes'[n]) => n \notin down')
  BY DEF Shifts, Fades, Leaving
<1>2. n \in down' => n \in down
  BY DEF Shifts, Fades
<1>3. n \in Away => n \in Away'
  BY DEF Shifts, Fades, Away
<1> QED BY <1>1, <1>2, <1>3

LEMMA ShiftedOrder ==
  ASSUME NEW n \in Nodes, Shifts(n), ~May("fault"), Orderly(n)
  PROVE  Orderly(n)' /\ (Steadfast(n) => Steadfast(n)')
<1>1. Orderly(n)'
  BY DEF Shifts, Fades, Orderly, Leaving
<1>2. Steadfast(n) => Steadfast(n)'
  BY DEF Shifts, Steadfast, Leaving
<1> QED BY <1>1, <1>2

\* The operation whose pass is past the lock is the only one at work.
LEMMA WorksAlone ==
  ASSUME TypeInv, StepInv, LockInv, PastLock(pass), pass.obj.step \in DownSteps,
         NEW o \in DOMAIN Action, Live(Op(o)), Op(o).step # ""
  PROVE  o = pass.op
  BY DEF LockInv, Engaged, Working

\* The pass of a walk that may have its node down works on a live operation.
LEMMA PassLives ==
  ASSUME TypeInv, StepInv, pass.obj.step \in DownSteps,
         pass.pc \in {"lock", "step", "walk", "claim", "call", "write"}
  PROVE  /\ pass.op \in DOMAIN Action /\ Live(Op(pass.op)) /\ SameSpot(Op(pass.op), pass.obj)
         /\ Op(pass.op).step \in DownSteps
<1>1. ~At("idle")
  BY DEF At
<1>2. pass.op \in DOMAIN Action /\ InStep(pass, Op(pass.op))
  BY <1>1, PassFields DEF StepInv
<1> QED BY <1>2 DEF InStep, SameStatus, Live, SameSpot, SamePlan

\* The walk past the shutdown does not see its node online while it is down.
LEMMA PassAway ==
  ASSUME TypeInv, StepInv, DownInv, pass.obj.step \in BackSteps, AtNode(pass.obj), Rolls(pass.op),
         pass.pc \in {"lock", "step", "walk", "claim", "call", "write"}
  PROVE  pass.obj.plan[pass.obj.index] \in Away
<1>1. /\ pass.op \in DOMAIN Action /\ Live(Op(pass.op)) /\ SameSpot(Op(pass.op), pass.obj)
  BY PassLives DEF BackSteps, DownSteps
<1> QED BY <1>1 DEF DownInv, DownAt, SameSpot, SamePlan, AtNode

\* A cluster object that is gone stays gone.
LEMMA GoneStays ==
  ASSUME TypeInv, Kinds, Gone
  PROVE  Gone'
<1>0. clusterLog \in Seq(ClusterObj) /\ Len(clusterLog) \in Nat \ {0}
  BY TypeParts, Bounds DEF LockOK
<1>1. CASE UNCHANGED clusterLog
  BY <1>1 DEF Gone
<1>2. ASSUME Current(clusterLog) PROVE ~Cached(clusterLog).exists
  BY <1>0, <1>2 DEF Current, Cached, Gone, Stored
<1>3. CASE TakesLock
  BY <1>1, <1>2, <1>3 DEF TakesLock, Locks
<1>4. CASE GivesBack
  BY <1>1, <1>2, <1>4 DEF GivesBack, Releases, Owned
<1>5. CASE ClusterMoves
  <2>1. CASE DeliverCluster
    <3>1. Stored(Delivered(clusterLog)) = Stored(clusterLog)
      BY <1>0, <2>1, LogDelivered DEF DeliverCluster
    <3> QED BY <2>1, <3>1 DEF DeliverCluster, Gone
  <2> QED BY <1>5, <2>1 DEF ClusterMoves, ClusterWrite, Gone
<1> QED BY <1>1, <1>3, <1>4, <1>5 DEF Kinds, Rests, Reads, Stops, Finalizes, Waits, Claims, Calls,
      Lands, Advances, WalksOn, Delivers, TimeGoes, Ticks, UserAsks, Restarts, CpMoves, Still

\* Fewer nodes that are down, and more that are away, only help.
LEMMA DownWriteGrows ==
  ASSUME Steady, NEW f, NEW g, g \subseteq f, NEW a, NEW b, a \subseteq b, DownWrite(pass, f, a)
  PROVE  DownWrite(pass', g, b)
  BY DEF Steady, SameSpot, SamePlan, DownWrite, AtNode

\* What the pass decides to write from what it sees.
LEMMA DownPosts ==
  ASSUME TypeInv, Sure, StepInv, DownInv, WalksOn, pass'.pc = "write"
  PROVE  DownWrite(pass', down, Away)
<1> DEFINE v == pass.obj
           n == v.plan[v.index]
<1>0. pass.pc = "walk" /\ ~At("idle") /\ Walked /\ StreamsPrompt
  BY DEF WalksOn, At
<1>1. /\ Rolls(pass.op) /\ pass.op \in DOMAIN Action /\ pass.arg = v.step
      /\ v \in OpsObj
  BY <1>0, PassFields DEF PassFits, StepInv, InStep
<1>2. AtNode(v) /\ v.step \in BackSteps => n \in Away
  BY <1>0, <1>1, PassAway
<1>3. AtNode(v) => n \in Nodes
  BY <1>1, ObjFields
<1>4. CASE Sent("note", "", "requeue")
  BY <1>4 DEF Sent, DownWrite
<1>5. CASE ~AtNode(v) /\ v.step = "CheckingPeers" /\ Sent("record", "ShuttingDownNode", "requeue")
  BY <1>5 DEF Sent, Held, DownWrite, BackSteps, DownSteps
<1>6. CASE /\ AtNode(v) /\ v.step \in RollSteps \ {"Rebalancing"}
           /\ v.step = "ShuttingDownNode" => seen[n] \in {"offline", "in_restart"}
           /\ v.step = "RestartingNode" => seen[n] = "online"
           /\ Sent("record", NextStep(v.step), "requeue")
  <2>1. NextStep(v.step) = "Rebalancing" => n \notin down
    <3> SUFFICES ASSUME NextStep(v.step) = "Rebalancing" PROVE n \notin down
      OBVIOUS
    <3>1. v.step = "RestartingNode"
      BY <1>6, NextOfRoll
    <3>2. n \in Away /\ seen[n] = "online"
      BY <1>2, <1>6, <3>1 DEF BackSteps
    <3> QED BY <3>2 DEF Away
  <2>2. NextStep(v.step) \in BackSteps => n \in Away
    <3> SUFFICES ASSUME NextStep(v.step) \in BackSteps PROVE n \in Away
      OBVIOUS
    <3>1. v.step \in {"ShuttingDownNode"} \cup BackSteps
      BY <1>6, NextOfRoll DEF BackSteps, RollSteps
    <3>2. CASE v.step \in BackSteps
      BY <1>2, <1>6, <3>2
    <3>3. CASE v.step = "ShuttingDownNode"
      <4>1. seen[n] # "online" /\ n \in Nodes
        BY <1>3, <1>6, <3>3
      <4>2. CASE ~May("fault")
        BY <4>1, <4>2 DEF DownInv, Orderly, Away
      <4>3. CASE ~May("nodestream")
        BY <1>0, <4>1, <4>3 DEF StreamsPrompt, Away
      <4> QED BY <4>2, <4>3 DEF Sure
    <3> QED BY <3>1, <3>2, <3>3
  <2>3. v.step \in DownSteps => NextStep(v.step) \in DownSteps \cup {"Rebalancing"}
    <3>1. NextStep(v.step) \in RollSteps \ {"CheckingPeers"}
      BY <1>6, NextOfRoll
    <3> QED BY <3>1 DEF RollSteps, DownSteps
  <2> QED BY <1>6, <2>1, <2>2, <2>3 DEF Sent, Held, DownWrite
<1>7. CASE AtNode(v) /\ Leaving(seen[n]) /\ Leaves("skip")
  <2>1. n \notin down
    BY <1>3, <1>7 DEF DownInv, Gonners
  <2> QED BY <1>7, <2>1 DEF Leaves, Sent, Held, DownWrite
<1>8. CASE v.step = "Rebalancing" /\ Leaves("")
  BY <1>8 DEF Leaves, Sent, Held, DownWrite, DownSteps
<1> QED BY <1>0, <1>1, <1>4, <1>5, <1>6, <1>7, <1>8, IdleSpot DEF Walked, GoesTo

\* A write of the walk's pass lands: it still answers for its node.
LEMMA DownLands ==
  ASSUME TypeInv, StepInv, EndInv, LockInv, WalkInv, DownInv, Lands, Rolls(pass.op)
  PROVE  LET w == Stored(opsLog'[pass.op]) IN
         /\ \A n \in down : Takes(pass.op, Op(pass.op), n, Gone) => Takes(pass.op, w, n, Gone)
         /\ Live(w) => DownAt(w, Away)
<1> DEFINE v == Op(pass.op)
           w == Stored(opsLog'[pass.op])
<1>0. /\ pass.pc = "write" /\ ~At("idle") /\ pass.op \in DOMAIN Action /\ pass.do \in Doings
      /\ WriteFits(pass.do, pass.arg, pass.then, pass.op, pass.obj)
      /\ v \in OpsObj /\ w \in OpsObj
      /\ InStep(pass, v) /\ SameStatus(pass.obj, v)
      /\ Mutates(v, w, pass.do, pass.arg, v, pass.list)
  BY LandedStep DEF Lands, At
<1>1. /\ WalkWrite(pass, cycled, Left) /\ DownWrite(pass, down, Away)
      /\ EndsLate(pass) /\ PassHolds(pass, clusterLog) /\ Begun(v)
      /\ Live(v) => DownAt(v, Away)
  BY <1>0 DEF WalkInv, DownInv, EndInv, LockInv, StepInv, At
<1>2. pass.then = "refuse" => Gone
  <2>1. pass.then = "refuse" => ~Cached(clusterLog).exists
    BY <1>0, <1>1 DEF PassHolds
  <2>2. GoesOnce(clusterLog) /\ Len(clusterLog) \in Nat \ {0}
    BY TypeParts, Bounds DEF LockInv, LockOK
  <2> QED BY <2>1, <2>2 DEF GoesOnce, Cached, Gone, Stored
<1> SUFFICES /\ \A n \in down : Takes(pass.op, v, n, Gone) => Takes(pass.op, w, n, Gone)
             /\ Live(w) => DownAt(w, Away)
  OBVIOUS
<1> HIDE DEF v, w
<1>3. /\ pass.obj.plan = v.plan /\ pass.obj.index = v.index /\ ~Terminal(v.phase)
      /\ pass.obj.step = v.step /\ pass.obj.late = v.late
      /\ w.exists = v.exists /\ w.deleted = v.deleted
  BY <1>0 DEF InStep, SameStatus, Mutates, SameMeta
<1>4. AtNode(pass.obj) <=> AtNode(v)
  BY <1>3 DEF AtNode
<1>5. CASE pass.do \in {"run", "hold", "note"} /\ ~(pass.do = "run" /\ v.step # "")
  <2>1. SameStep(v, w) /\ SamePlan(v, w)
    BY <1>0, <1>5 DEF Mutates
  <2>2. v.step \in DownSteps => w.phase = v.phase
    BY <1>0, <1>1, <1>5 DEF Mutates, Begun, DownSteps
  <2>3. w.step = v.step /\ w.plan = v.plan /\ w.index = v.index /\ (AtNode(w) <=> AtNode(v))
    BY <2>1 DEF SameStep, SamePlan, AtNode
  <2>4. v.step \in DownSteps => (Live(w) <=> Live(v))
    BY <1>3, <2>2 DEF Live
  <2> QED BY <1>1, <1>3, <2>2, <2>3, <2>4 DEF Takes, DownAt, BackSteps, DownSteps
<1>6. CASE pass.do = "record"
  <2>1. w.step = pass.arg /\ SamePlan(v, w) /\ w.phase = "Running"
    BY <1>0, <1>6 DEF Mutates, Entered
  <2>2. (AtNode(w) <=> AtNode(v)) /\ w.plan = v.plan /\ w.index = v.index
    BY <2>1 DEF SamePlan, AtNode
  <2>3. Live(v) => Live(w)
    BY <1>3, <2>1 DEF Live, Terminal
  <2>4. DownAt(w, Away)
    BY <1>1, <1>3, <1>4, <1>6, <2>1, <2>2 DEF DownWrite, DownAt
  <2>5. ASSUME NEW n \in down, Takes(pass.op, v, n, Gone) PROVE Takes(pass.op, w, n, Gone)
    <3>1. AtNode(v) /\ v.plan[v.index] = n /\ v.step \in DownSteps /\ Live(v)
      BY <1>3, <2>5 DEF Takes
    <3>2. pass.arg \in DownSteps
      BY <1>1, <1>3, <1>4, <1>6, <3>1 DEF DownWrite
    <3> QED BY <2>1, <2>2, <2>3, <2>5, <3>1, <3>2 DEF Takes
  <2> QED BY <2>4, <2>5
<1>7. CASE pass.do = "plan"
  <2>1. v.step = "CheckingPeers" /\ w.step = "CheckingPeers"
    BY <1>0, <1>3, <1>7 DEF Mutates, SameStep, InStep, WriteFits
  <2> QED BY <2>1 DEF Takes, DownAt, DownSteps, BackSteps
<1>8. CASE pass.do \in {"next", "walked"}
  <2>1. \A n \in down : ~Takes(pass.op, v, n, Gone)
    BY <1>1, <1>3, <1>4, <1>8 DEF DownWrite, Takes
  <2>2. w.step = "CheckingPeers" \/ ~AtNode(w)
    <3>1. CASE pass.do = "next"
      BY <1>0, <3>1 DEF Mutates, Entered
    <3>2. CASE pass.do = "walked"
      <4>1. w.index = v.index + 1 /\ w.plan = v.plan /\ v.index = Len(v.plan)
        BY <1>0, <1>1, <1>3, <3>2 DEF Mutates, StepsPast, WalkWrite
      <4>2. v.index \in Nat
        BY <1>0, ObjFields
      <4> QED BY <4>1, <4>2 DEF AtNode
    <3> QED BY <1>8, <3>1, <3>2
  <2> QED BY <2>1, <2>2 DEF DownAt, BackSteps
<1>9. CASE pass.do = "finish"
  <2>1. SamePlan(v, w) /\ (AtNode(w) <=> AtNode(v)) /\ w.phase = pass.arg /\ Terminal(w.phase)
    BY <1>0, <1>9 DEF Mutates, SamePlan, AtNode, WriteFits, Terminal
  <2>2. ASSUME NEW n \in down, Takes(pass.op, v, n, Gone) PROVE Takes(pass.op, w, n, Gone)
    <3>1. AtNode(v) /\ v.plan[v.index] = n /\ v.step \in DownSteps /\ Rolls(pass.op)
      BY <2>2 DEF Takes
    <3>2. pass.arg # "Succeeded"
      <4>1. v.index \in Nat /\ Len(v.plan) \in Nat /\ v.index <= Len(v.plan)
        BY <1>0, <3>1, AtIndex
      <4>2. ~(v.index > Len(v.plan))
        BY <4>1
      <4> QED BY <1>1, <1>3, <1>9, <4>2 DEF WalkWrite
    <3>3. w.step = v.step /\ w.late = v.late
      BY <1>0, <1>9, <3>2 DEF Mutates, SameStep
    <3>4. pass.then \in {"release", "refuse"}
      BY <1>0, <1>9 DEF WriteFits
    <3>5. Gone \/ v.late
      BY <1>0, <1>1, <1>2, <1>3, <1>9, <3>1, <3>2, <3>4 DEF EndsLate
    <3> QED BY <2>1, <3>1, <3>3, <3>5 DEF Takes, SamePlan
  <2> QED BY <2>1, <2>2 DEF Live
<1>10. pass.do # "retry" /\ ~(pass.do = "run" /\ v.step # "")
  BY <1>0, <1>3 DEF WriteFits, Rolls, InStep
<1> QED BY <1>0, <1>5, <1>6, <1>7, <1>8, <1>9, <1>10 DEF Doings

\* The nodes after a call: the one asked to start is not seen online, and the one asked to
\* stop is seen online until it goes.
LEMMA CalledNodes ==
  ASSUME TypeInv, StepInv, DownInv, Calls
  PROVE  /\ \A n \in Nodes : /\ Leaving(seen'[n]) => Leaving(nodes'[n])
                             /\ Leaving(nodes'[n]) => n \notin down'
         /\ ~May("fault") => \A n \in Nodes : Orderly(n)'
<1> DEFINE m == pass.obj.plan[pass.obj.index]
<1>0. /\ UNCHANGED <<nodes, seen>> /\ pass.pc = "call"
      /\ \/ UNCHANGED <<nodeJob, down>>
         \/ /\ Rolls(pass.op) /\ AtNode(pass.obj) /\ m \in Nodes
            /\ \/ pass.obj.step = "ShuttingDownNode" /\ StopsNode(m)
               \/ pass.obj.step = "RestartingNode" /\ StartsNode(m)
  BY NodesCalled DEF Calls, At
<1>1. \A n \in Nodes : /\ Leaving(seen'[n]) => Leaving(nodes'[n])
                       /\ Leaving(nodes'[n]) => n \notin down'
  <2> HIDE DEF m
  <2>1. down' = down \/ (nodes[m] = "online" /\ down' = down \cup {m})
    BY <1>0 DEF StopsNode, StartsNode
  <2> QED BY <1>0, <2>1 DEF DownInv, Gonners, Leaving
<1>2. ASSUME ~May("fault"), NEW n \in Nodes PROVE Orderly(n)'
  <2>0. Orderly(n) /\ nodeJob \in [Nodes -> {"none", "stop", "start"}]
    BY <1>2, TypeParts DEF DownInv, CpOK, CpTypes
  <2>1. CASE UNCHANGED <<nodeJob, down>>
    BY <1>0, <2>0, <2>1 DEF Orderly
  <2>2. CASE Rolls(pass.op) /\ m \in Nodes /\ pass.obj.step = "ShuttingDownNode" /\ StopsNode(m)
    <3>1. Steadfast(m)
      BY <1>0, <1>2, <2>2 DEF DownInv, At
    <3> HIDE DEF m
    <3>2. CASE n = m
      <4>1. nodes[n] = "online" /\ nodeJob'[n] = "stop" /\ n \in down' /\ seen[n] = "online"
        BY <2>0, <2>2, <3>1, <3>2 DEF StopsNode, Steadfast
      <4> QED BY <1>0, <4>1 DEF Orderly
    <3>3. CASE n # m
      <4>1. nodeJob'[n] = nodeJob[n] /\ (n \in down' <=> n \in down)
        BY <2>0, <2>2, <3>3 DEF StopsNode
      <4> QED BY <1>0, <2>0, <4>1 DEF Orderly
    <3> QED BY <3>2, <3>3
  <2>3. CASE /\ Rolls(pass.op) /\ AtNode(pass.obj) /\ m \in Nodes
             /\ pass.obj.step = "RestartingNode" /\ StartsNode(m)
    <3>1. m \in Away
      BY <1>0, <2>3, PassAway DEF BackSteps
    <3> HIDE DEF m
    <3>2. CASE n = m
      <4>1. nodes[n] = "offline" /\ nodeJob'[n] = "start" /\ down' = down
        BY <2>0, <2>3, <3>2 DEF StartsNode
      <4>2. n \in down /\ seen[n] # "online"
        BY <2>0, <3>1, <3>2, <4>1 DEF Orderly, Away
      <4> QED BY <1>0, <4>1, <4>2 DEF Orderly
    <3>3. CASE n # m
      <4>1. nodeJob'[n] = nodeJob[n] /\ (n \in down' <=> n \in down)
        BY <2>0, <2>3, <3>3 DEF StartsNode
      <4> QED BY <1>0, <2>0, <4>1 DEF Orderly
    <3> QED BY <3>2, <3>3
  <2> QED BY <1>0, <2>1, <2>2, <2>3
<1> QED BY <1>1, <1>2

\* An operation that stays where it is keeps answering for its node.
LEMMA TakesKept ==
  ASSUME NEW o, NEW v, NEW w, Keeps(v, w), NEW n, NEW g, NEW h, g => h, Takes(o, v, n, g)
  PROVE  Takes(o, w, n, h)
  BY DEF Takes, Keeps, SameSpot, SamePlan, AtNode

LEMMA DownNext ==
  ASSUME TypeInv, Sure, StepInv, EndInv, LockInv, WalkInv, DownInv, [Next]_vars
  PROVE  DownInv'
<1>0. Kinds /\ UNCHANGED env
  BY StepKinds
<1>1. ~Calls => (\A n \in Nodes : Shifts(n)) /\ down' \subseteq down /\ Away \subseteq Away'
  <2> SUFFICES ASSUME ~Calls PROVE (\A n \in Nodes : Shifts(n)) /\ down' \subseteq down /\ Away \subseteq Away'
    OBVIOUS
  <2>1. \A n \in Nodes : Shifts(n)
    BY <1>0, NodesShift
  <2>2. down' \subseteq Nodes /\ Away \subseteq Nodes
    BY TypeStep DEF Away
  <2> QED BY <2>1, <2>2, ShiftedNode
<1>2. \A n \in Nodes : /\ Leaving(seen'[n]) => Leaving(nodes'[n])
                       /\ Leaving(nodes'[n]) => n \notin down'
  BY <1>1, CalledNodes, ShiftedNode DEF DownInv, Gonners
<1>3. ~May("fault") => \A n \in Nodes : Orderly(n)'
  BY <1>1, CalledNodes, ShiftedOrder DEF DownInv
<1>4. DOMAIN Action \subseteq Ops
  BY TypeParts, EnvType
<1>5. ASSUME NEW n \in down' PROVE \E o \in DOMAIN Action : Takes(o, Op(o)', n, Gone')
  <2>1. Gone => Gone'
    BY <1>0, GoneStays
  <2>2. CASE n \in down
    <3>1. PICK o \in DOMAIN Action : Takes(o, Op(o), n, Gone)
      BY <2>2 DEF DownInv
    <3>2. CASE \A p \in DOMAIN Action : Keeps(Op(p), Op(p)')
      <4>1. Takes(o, Op(o)', n, Gone')
        BY <2>1, <3>1, <3>2, TakesKept
      <4> QED BY <4>1
    <3>3. CASE Lands /\ o # pass.op
      <4>1. Op(o)' = Op(o)
        BY <1>4, <3>3, LandedStep
      <4>2. Takes(o, Op(o)', n, Gone')
        BY <2>1, <3>1, <4>1 DEF Takes
      <4> QED BY <4>2
    <3>4. CASE Lands /\ o = pass.op
      <4>1. Op(o)' = Stored(opsLog'[pass.op])
        BY <1>4, <3>4, LandedStep
      <4>2. Rolls(pass.op)
        BY <3>1, <3>4 DEF Takes
      <4>3. Takes(o, Stored(opsLog'[pass.op]), n, Gone)
        BY <2>2, <3>1, <3>4, <4>2, DownLands
      <4>4. Takes(o, Op(o)', n, Gone')
        BY <2>1, <4>1, <4>3 DEF Takes
      <4> QED BY <4>4
    <3> QED BY <1>0, <3>2, <3>3, <3>4, OpsKept
  <2>3. CASE n \notin down
    <3>1. Calls
      BY <1>1, <1>5, <2>3
    <3> DEFINE m == pass.obj.plan[pass.obj.index]
    <3>2. /\ Rolls(pass.op) /\ AtNode(pass.obj) /\ pass.obj.step = "ShuttingDownNode"
          /\ StopsNode(m) /\ UNCHANGED opsLog
      BY <1>5, <2>3, <3>1, NodesCalled DEF StartsNode
    <3>3. n = m
      BY <1>5, <2>3, <3>2 DEF StopsNode
    <3>4. /\ pass.op \in DOMAIN Action /\ Live(Op(pass.op)) /\ SameSpot(Op(pass.op), pass.obj)
          /\ Op(pass.op).step \in DownSteps
      BY <3>1, <3>2, PassLives DEF Calls, At, DownSteps
    <3>5. PICK o \in DOMAIN Action : o = pass.op
      BY <3>4
    <3>6. Op(o)' = Op(o)
      BY <3>2 DEF Op
    <3>7. Takes(o, Op(o), n, Gone')
      BY <3>2, <3>3, <3>4, <3>5 DEF Takes, SameSpot, SamePlan, AtNode
    <3> QED BY <3>6, <3>7
  <2> QED BY <2>2, <2>3
<1>6. ASSUME NEW o \in DOMAIN Action, Rolls(o), Live(Op(o)') PROVE DownAt(Op(o)', Away')
  <2>1. CASE Calls
    <3>1. Op(o)' = Op(o)
      BY <2>1 DEF Calls, Op
    <3>2. Away' = Away \/ ~(AtNode(Op(o)) /\ Op(o).step \in BackSteps)
      <4>1. CASE down' = down
        BY <2>1, <4>1 DEF Calls, Away, streams
      <4>2. CASE down' # down
        <5>1. pass.obj.step = "ShuttingDownNode" /\ pass.pc = "call"
          BY <2>1, <4>2, NodesCalled DEF StartsNode, Calls, At
        <5>2. Op(o).step # "" => o = pass.op
          BY <1>6, <3>1, <5>1, WorksAlone DEF PastLock, DownSteps
        <5>3. pass.op \in DOMAIN Action /\ SameSpot(Op(pass.op), pass.obj)
          BY <5>1, PassLives DEF DownSteps
        <5> QED BY <5>1, <5>2, <5>3 DEF SameSpot, BackSteps
      <4> QED BY <4>1, <4>2
    <3>3. DownAt(Op(o), Away)
      BY <1>6, <3>1 DEF DownInv
    <3> QED BY <3>1, <3>2, <3>3 DEF DownAt
  <2>2. CASE ~Calls /\ \A p \in DOMAIN Action : Keeps(Op(p), Op(p)')
    <3>1. SameSpot(Op(o), Op(o)') /\ Live(Op(o))
      BY <1>6, <2>2 DEF Keeps
    <3>2. DownAt(Op(o), Away)
      BY <1>6, <3>1 DEF DownInv
    <3> QED BY <1>1, <2>2, <3>1, <3>2 DEF DownAt, SameSpot, SamePlan, AtNode
  <2>3. CASE ~Calls /\ Lands /\ o # pass.op
    <3>1. Op(o)' = Op(o)
      BY <1>4, <2>3, LandedStep
    <3>2. DownAt(Op(o), Away)
      BY <1>6, <3>1 DEF DownInv
    <3> QED BY <1>1, <2>3, <3>1, <3>2 DEF DownAt
  <2>4. CASE ~Calls /\ Lands /\ o = pass.op
    <3>1. Op(o)' = Stored(opsLog'[pass.op])
      BY <1>4, <2>4, LandedStep
    <3>2. DownAt(Op(o)', Away)
      BY <1>6, <2>4, <3>1, DownLands
    <3> QED BY <1>1, <2>4, <3>2 DEF DownAt
  <2> QED BY <1>0, <2>1, <2>2, <2>3, <2>4, OpsKept
<1>7. ASSUME pass'.pc = "write", Rolls(pass'.op) PROVE DownWrite(pass', down', Away')
  <2>1. CASE Rests \/ Delivers \/ TimeGoes \/ UserAsks \/ ClusterMoves \/ CpMoves
    <3>1. Steady /\ ~Calls
      <4>1. Steady
        BY <1>0, <2>1, SteadyKinds
      <4> QED BY <1>7, <4>1 DEF Steady, Calls, At
    <3>2. DownWrite(pass, down, Away)
      BY <1>7, <3>1 DEF Steady, DownInv, At
    <3> QED BY <1>1, <3>1, <3>2, DownWriteGrows
  <2> SUFFICES ASSUME ~(Rests \/ Delivers \/ TimeGoes \/ UserAsks \/ ClusterMoves \/ CpMoves)
               PROVE  DownWrite(pass', down', Away')
    BY <2>1
  <2>2. CASE Stops \/ Finalizes \/ Restarts \/ Reads \/ Claims \/ GivesBack
    BY <1>7, <2>2, IdleSpot DEF Stops, Finalizes, Restarts, Reads, ReadAs, Claims, GivesBack, Releases, GoesTo
  <2>3. CASE TakesLock \/ Waits
    BY <1>7, <2>3, IdleSpot DEF TakesLock, Locks, Waits, Sent, GoesTo, DownWrite
  <2>4. CASE Calls
    BY <1>7, <2>4, IdleSpot DEF Calls, Called, Sent, Held, DownWrite, BackSteps, DownSteps
  <2>5. CASE WalksOn
    <3>1. DownWrite(pass', down, Away) /\ ~Calls
      BY <1>7, <2>5, DownPosts DEF WalksOn, Calls, At
    <3> QED BY <1>1, <3>1 DEF DownWrite
  <2>6. CASE Advances
    <3>1. Advanced
      BY <2>6 DEF Advances
    <3>2. Rolls(pass.op)
      BY <1>7, <3>1, IdleSpot DEF Advanced, Sent, GoesTo, Walks, Held
    <3>3. InitialStep(Action[pass.op]) = "CheckingPeers"
      BY <3>2 DEF Rolls, InitialStep
    <3> QED BY <1>7, <3>1, <3>2, <3>3, IdleSpot DEF Advanced, Sent, GoesTo, Walks, Held, DownWrite,
              BackSteps, DownSteps
  <2>7. CASE Lands
    BY <1>7, <2>7, IdleSpot DEF Lands, GoesOn, DownWrite
  <2> QED BY <1>0, <2>2, <2>3, <2>4, <2>5, <2>6, <2>7 DEF Kinds
<1>8. ASSUME ~May("fault"), pass'.pc \in {"claim", "call"}, Rolls(pass'.op),
             pass'.obj.step = "ShuttingDownNode"
      PROVE  LET n == pass'.obj.plan[pass'.obj.index] IN
             /\ nodes'[n] # "in_restart" /\ nodeJob'[n] # "start"
             /\ nodes'[n] = "online" => seen'[n] = "online"
  <2> DEFINE n == pass'.obj.plan[pass'.obj.index]
  <2>1. ~Calls
    BY <1>8, IdleSpot DEF Calls, Called, Sent
  <2>2. AtNode(pass'.obj) /\ n \in Nodes
    <3>1. PassFits(pass') /\ pass'.obj \in OpsObj
      BY TypeStep
    <3> QED BY <1>8, <3>1, ObjFields DEF PassFits
  <2>3. Shifts(n) /\ Orderly(n)
    BY <1>1, <1>8, <2>1, <2>2 DEF DownInv
  <2>4. Steadfast(n)
    <3>1. CASE /\ pass.pc \in {"claim", "call"} /\ pass'.op = pass.op
               /\ SameSpot(pass.obj, pass'.obj)
      BY <1>8, <3>1 DEF DownInv, At, SameSpot, SamePlan
    <3>2. CASE Rests \/ Delivers \/ TimeGoes \/ UserAsks \/ ClusterMoves \/ CpMoves
      <4>1. Steady
        BY <1>0, <3>2, SteadyKinds
      <4> QED BY <1>8, <3>1, <4>1 DEF Steady
    <3>3. CASE Claims
      <4>1. ~At("idle") /\ pass.pc = "claim"
        BY <3>3 DEF Claims, At
      <4>2. SameStatus(pass.obj, Op(pass.op))
        BY <4>1 DEF StepInv, InStep
      <4>3. Op(pass.op) \in OpsObj
        BY <4>1, PassFields, OpEnds
      <4>4. SameSpot(Op(pass.op), Claimed)
        BY <4>3 DEF Claimed, SameSpot, SamePlan, OpsObj
      <4>5. SameSpot(pass.obj, pass'.obj)
        BY <3>3, <4>2, <4>4 DEF Claims, SameStatus, SameSpot, SamePlan
      <4> QED BY <3>1, <3>3, <4>1, <4>5 DEF Claims
    <3>4. CASE WalksOn
      <4>1. seen[n] = "online"
        <5>1. ~At("idle") /\ pass.pc = "walk" /\ Walked
          BY <3>4 DEF WalksOn, At
        <5>2. pass.arg = pass.obj.step
          BY <5>1 DEF StepInv, InStep
        <5> QED BY <1>8, <5>1, <5>2, IdleSpot DEF Walked, GoesTo, Sent, Held, Leaves
      <4> QED BY <2>3, <4>1 DEF Orderly, Steadfast
    <3>5. CASE Advances
      BY <1>8, <3>5, IdleSpot DEF Advances, Advanced, Sent, GoesTo, Walks, Held
    <3>6. CASE Stops \/ Finalizes \/ Restarts \/ Reads \/ GivesBack \/ TakesLock \/ Waits \/ Lands
      BY <1>8, <3>6, IdleSpot DEF Stops, Finalizes, Restarts, Reads, ReadAs, GivesBack, Releases, GoesTo,
             TakesLock, Locks, Waits, Sent, Lands, GoesOn
    <3> QED BY <1>0, <2>1, <3>2, <3>3, <3>4, <3>5, <3>6 DEF Kinds
  <2>5. PICK m \in Nodes : m = n
    BY <2>2
  <2>6. Shifts(m) /\ Orderly(m) /\ Steadfast(m)
    BY <2>3, <2>4, <2>5
  <2>7. Steadfast(m)'
    BY <1>8, <2>6, ShiftedOrder
  <2> QED BY <2>5, <2>7 DEF Steadfast
<1>9. Gonners' /\ (~May("fault") => \A n \in Nodes : Orderly(n))'
  BY <1>0, <1>2, <1>3 DEF Gonners, May
<1>10. (\A n \in down : \E o \in DOMAIN Action : Takes(o, Op(o), n, Gone))'
  BY <1>0, <1>5 DEF Action, Takes, Rolls, AtNode, Live, Terminal
<1>11. (\A o \in DOMAIN Action : Rolls(o) /\ Live(Op(o)) => DownAt(Op(o), Away))'
  BY <1>0, <1>6 DEF Action, Rolls, DownAt, AtNode, Live, Terminal
<1>12. (At("write") /\ Rolls(pass.op) => DownWrite(pass, down, Away))'
  BY <1>0, <1>7 DEF Action, Rolls, At, DownWrite, AtNode
<1>13. (~May("fault") /\ (At("claim") \/ At("call")) /\ Rolls(pass.op)
          /\ pass.obj.step = "ShuttingDownNode" => Steadfast(pass.obj.plan[pass.obj.index]))'
  BY <1>0, <1>8 DEF Action, Rolls, At, May, Steadfast
<1> QED BY <1>9, <1>10, <1>11, <1>12, <1>13 DEF DownInv

LEMMA DownInit ==
  ASSUME Init
  PROVE  DownInv
<1>1. /\ pass.pc = "idle" /\ down = {} /\ Gonners
      /\ ~May("fault") => \A n \in Nodes : Orderly(n)
  <2>1. /\ pass.pc = "idle" /\ down = {} /\ seen = nodes
        /\ \A n \in Nodes : nodes[n] \in {"online", "offline"} /\ nodeJob[n] = "none"
        /\ ~May("fault") => \A n \in Nodes : nodes[n] = "online"
    BY IdleSpot DEF Init
  <2> QED BY <2>1 DEF Gonners, Orderly, Leaving
<1>2. ASSUME NEW o \in DOMAIN Action PROVE DownAt(Op(o), Away)
  <2>1. Op(o).step = ""
    BY FirstOps
  <2> QED BY <2>1 DEF DownAt, BackSteps
<1> QED BY <1>1, <1>2 DEF DownInv, At

LEMMA DownInvariant == Spec => [](Sure => DownInv)
<1>1. Init => (Sure => DownInv)
  BY DownInit
<1>2. TypeInv /\ (Prompt => CoreInv) /\ (Prompt => WalkInv) /\ (Sure => DownInv) /\ [Next]_vars
        => (Sure => DownInv)'
  <2> SUFFICES ASSUME TypeInv, Prompt => CoreInv, Prompt => WalkInv, Sure => DownInv,
                      [Next]_vars, Sure'
               PROVE  DownInv'
    OBVIOUS
  <2>1. Sure /\ Prompt
    BY StepKinds DEF Sure, Prompt, May
  <2> QED BY <2>1, DownNext DEF CoreInv
<1> QED BY <1>1, <1>2, TypeInvariant, CoreInvariant, WalkInvariant, PTL DEF Spec

\* NoNodeStranded (ClusterOps): when every operation has ended, a node that a walk asked to
\* go down is down only because a deadline ended the walk or the cluster object went, never
\* because of an abort, a deletion, a restart of the operator, a removal or another walk
\* (performNodeStep, abortable steps, the DELETE guard).  It needs operations read when they
\* are current, and either nodes that do not fail by themselves or a nodes' stream that
\* keeps up: a walk that sees the fault of before take its node for the shutdown it asked
\* for leaves before the shutdown.
THEOREM NoneStranded == Spec => [](Sure => NoNodeStranded)
<1>1. TypeInv /\ (Sure => DownInv) => (Sure => NoNodeStranded)
  <2> SUFFICES ASSUME TypeInv, DownInv, \A o \in Ops : Ended(o), NEW n \in down
               PROVE  ~Stored(clusterLog).exists \/ \E o \in Ops : Op(o).late
    BY DEF NoNodeStranded
  <2>1. PICK o \in DOMAIN Action : Takes(o, Op(o), n, Gone)
    BY DEF DownInv
  <2>2. o \in Ops /\ Ended(o)
    BY TypeParts, EnvType
  <2>3. ~Live(Op(o))
    BY <2>2 DEF Ended, Live
  <2>4. Gone \/ Op(o).late
    BY <2>1, <2>3 DEF Takes
  <2> QED BY <2>2, <2>4 DEF Gone
<1> QED BY <1>1, TypeInvariant, DownInvariant, PTL

\* Only one walk can have a node down.
LEMMA OneTakes ==
  ASSUME TypeInv, EndInv, LockInv, DownInv, Single, NEW n \in down, NEW m \in down
  PROVE  n = m
<1>1. PICK o \in DOMAIN Action : Takes(o, Op(o), n, Gone)
  BY DEF DownInv
<1>2. PICK p \in DOMAIN Action : Takes(p, Op(p), m, Gone)
  BY DEF DownInv
<1>3. o = p
  <2>1. CASE OneWalk
    BY <1>1, <1>2, <2>1 DEF OneWalk, Takes
  <2>2. CASE ~May("late")
    <3>1. ~Op(o).late /\ ~Op(p).late
      BY <2>2 DEF EndInv
    <3>2. Engaged(Op(o)) /\ Engaged(Op(p))
      BY <1>1, <1>2, <3>1 DEF Takes, Engaged, Working, Refused, DownSteps
    <3> QED BY <3>2 DEF LockInv
  <2> QED BY <2>1, <2>2 DEF Single
<1> QED BY <1>1, <1>2, <1>3 DEF Takes

\* A node that is out of service by itself is one before, or was taken down by the step.
LEMMA BrokenFades ==
  ASSUME TypeInv, StepInv, Sighted, OutInv, Kinds
  PROVE  Broken' \subseteq Broken
<1> SUFFICES ASSUME NEW n \in Broken' PROVE n \in Broken
  OBVIOUS
<1>0. n \in Nodes /\ n \notin down' /\ nodes'[n] \in {"in_shutdown", "offline", "in_restart"}
  BY DEF Broken, Out
<1>1. CASE Calls
  <2>1. UNCHANGED nodes /\ (n \notin down)
    BY <1>0, <1>1, NodesCalled DEF StopsNode, StartsNode
  <2> QED BY <1>0, <2>1 DEF Broken, Out
<1>2. CASE ~Calls
  <2>1. Shifts(n) /\ (nodeJob[n] = "stop" => (nodes[n] = "online" /\ n \in down) \/ Leaving(nodes[n]))
        /\ (~May("fault") \/ May("early"))
    BY <1>0, <1>2, NodesShift DEF OutInv, Sighted
  <2>2. nodes[n] \in {"in_shutdown", "offline", "in_restart"} /\ n \notin down
    BY <1>0, <2>1 DEF Shifts, Fades, Leaving
  <2> QED BY <1>0, <2>2 DEF Broken, Out
<1> QED BY <1>1, <1>2

\* A node asked to stop is up until it begins to, and counts as down.
LEMMA StopsKept ==
  ASSUME TypeInv, StepInv, Sighted, OutInv, Kinds, NEW n \in Nodes, nodeJob'[n] = "stop"
  PROVE  (nodes'[n] = "online" /\ n \in down') \/ Leaving(nodes'[n])
<1>0. nodeJob[n] = "stop" => (nodes[n] = "online" /\ n \in down) \/ Leaving(nodes[n])
  BY DEF OutInv
<1>1. CASE Calls
  <2>0. nodeJob \in [Nodes -> {"none", "stop", "start"}]
    BY TypeParts DEF CpOK, CpTypes
  <2>1. /\ UNCHANGED nodes /\ down \subseteq down'
        /\ nodeJob'[n] = nodeJob[n] \/ (nodes[n] = "online" /\ n \in down')
    <3> DEFINE m == pass.obj.plan[pass.obj.index]
    <3>1. /\ UNCHANGED nodes
          /\ UNCHANGED <<nodeJob, down>> \/ (m \in Nodes /\ (StopsNode(m) \/ StartsNode(m)))
      BY <1>1, NodesCalled
    <3> HIDE DEF m
    <3> QED BY <2>0, <3>1 DEF StopsNode, StartsNode
  <2> QED BY <1>0, <2>1
<1>2. CASE ~Calls
  <2>1. Shifts(n) /\ (~May("fault") \/ May("early"))
    BY <1>2, NodesShift DEF Sighted
  <2> QED BY <1>0, <2>1 DEF Shifts, Fades, Leaving
<1> QED BY <1>1, <1>2

\* A walk takes a node down when no other one is out of service by itself.
LEMMA DownAlone ==
  ASSUME TypeInv, StepInv, Sighted, OutInv, Kinds, down' \subseteq Nodes
  PROVE  down' = {} \/ Broken' = {}
<1>0. Broken' \subseteq Broken /\ (down = {} \/ Broken = {})
  BY BrokenFades DEF OutInv
<1>1. CASE Calls
  <2> DEFINE m == pass.obj.plan[pass.obj.index]
  <2>1. CASE UNCHANGED <<nodeJob, down>>
    BY <1>0, <2>1
  <2>2. CASE pass.obj.step = "RestartingNode" /\ StartsNode(m)
    BY <1>0, <2>2 DEF StartsNode
  <2>3. CASE Rolls(pass.op) /\ AtNode(pass.obj) /\ pass.obj.step = "ShuttingDownNode" /\ StopsNode(m)
    <3>1. pass.op \in DOMAIN Action /\ SameSpot(Op(pass.op), pass.obj)
      BY <1>1, <2>3, PassLives DEF Calls, At, DownSteps
    <3>2. Broken \subseteq {m}
      BY <2>3, <3>1 DEF OutInv, OutAt, SameSpot, SamePlan, AtNode
    <3>3. m \notin Broken
      BY <2>3 DEF StopsNode, Broken, Out
    <3> QED BY <1>0, <3>2, <3>3
  <2> QED BY <1>1, <2>1, <2>2, <2>3, NodesCalled
<1>2. CASE ~Calls
  <2>1. \A n \in Nodes : n \in down' => n \in down
    BY <1>2, NodesShift DEF Shifts, Fades
  <2> QED BY <1>0, <2>1
<1> QED BY <1>1, <1>2

\* A write of the walk's pass lands.
LEMMA OutLands ==
  ASSUME TypeInv, StepInv, WalkInv, OutInv, Lands, Rolls(pass.op)
  PROVE  OutAt(Stored(opsLog'[pass.op]), Broken)
<1> DEFINE v == Op(pass.op)
           w == Stored(opsLog'[pass.op])
<1>0. /\ pass.pc = "write" /\ ~At("idle") /\ pass.op \in DOMAIN Action /\ pass.do \in Doings
      /\ WriteFits(pass.do, pass.arg, pass.then, pass.op, pass.obj)
      /\ v \in OpsObj /\ w \in OpsObj
      /\ InStep(pass, v) /\ SameStatus(pass.obj, v)
      /\ Mutates(v, w, pass.do, pass.arg, v, pass.list)
  BY LandedStep DEF Lands, At
<1>1. /\ OutWrite(pass, Broken) /\ OutAt(v, Broken)
      /\ pass.do = "walked" => pass.obj.index = Len(pass.obj.plan)
  BY <1>0 DEF OutInv, At, WalkInv, WalkWrite
<1> SUFFICES OutAt(w, Broken)
  OBVIOUS
<1> HIDE DEF v, w
<1>3. pass.obj.plan = v.plan /\ pass.obj.index = v.index /\ pass.obj.step = v.step
  BY <1>0 DEF SameStatus
<1>5. v.index \in Nat /\ w.index \in Nat /\ Len(v.plan) \in Nat
  BY <1>0, ObjFields
<1>6. CASE SameStep(v, w) /\ SamePlan(v, w)
  BY <1>1, <1>6 DEF SameStep, SamePlan, OutAt, AtNode
<1>7. CASE pass.do = "record"
  <2>1. w.step = pass.arg /\ SamePlan(v, w)
    BY <1>0, <1>7 DEF Mutates, Entered
  <2> QED BY <1>1, <1>3, <1>7, <2>1 DEF OutWrite, OutAt, AtNode, SamePlan
<1>8. CASE pass.do = "plan"
  <2>1. w.step = "CheckingPeers"
    BY <1>0, <1>3, <1>8 DEF Mutates, SameStep, InStep, WriteFits
  <2> QED BY <2>1 DEF OutAt
<1>9. CASE pass.do = "next"
  BY <1>0, <1>9 DEF Mutates, Entered, OutAt
<1>10. CASE pass.do = "walked"
  <2>1. w.plan = v.plan /\ w.index = v.index + 1 /\ v.index = Len(v.plan)
    BY <1>0, <1>1, <1>3, <1>10 DEF Mutates, StepsPast
  <2>2. ~(w.index \in 1..Len(w.plan))
    BY <1>5, <2>1
  <2> QED BY <2>2 DEF OutAt, AtNode
<1>11. CASE pass.do = "finish" /\ pass.arg = "Succeeded"
  BY <1>0, <1>11 DEF Mutates, Entered, OutAt
<1>12. pass.do \in {"run", "hold", "note"} \/ (pass.do = "finish" /\ pass.arg # "Succeeded") => SameStep(v, w) /\ SamePlan(v, w)
  BY <1>0 DEF Mutates
<1>13. pass.do # "retry"
  BY <1>0 DEF WriteFits, Rolls
<1> QED BY <1>0, <1>6, <1>7, <1>8, <1>9, <1>10, <1>11, <1>12, <1>13 DEF Doings

\* The pass goes on to the shutdown when it sees every peer in service.
LEMMA OutPosts ==
  ASSUME TypeInv, Sighted, StepInv, WalksOn, pass'.pc = "write"
  PROVE  OutWrite(pass', Broken)
<1> DEFINE v == pass.obj
           n == v.plan[v.index]
<1>0. pass.pc = "walk" /\ ~At("idle") /\ Walked /\ seen = nodes
  BY DEF WalksOn, At, StreamsPrompt, Sighted
<1>1. pass.arg = v.step /\ Rolls(pass.op)
  BY <1>0, PassFields DEF StepInv, InStep, PassFits
<1>2. CASE Sent("note", "", "requeue")
  BY <1>2 DEF Sent, OutWrite
<1>3. CASE ~AtNode(v) /\ v.step = "CheckingPeers" /\ Sent("record", "ShuttingDownNode", "requeue")
  BY <1>3 DEF Sent, Held, OutWrite
<1>4. CASE /\ AtNode(v) /\ v.step \in RollSteps \ {"Rebalancing"}
           /\ v.step = "CheckingPeers" => CheckPeers(n)
           /\ v.step = "RestartingNode" => seen[n] = "online"
           /\ Sent("record", NextStep(v.step), "requeue")
  <2>1. CASE v.step = "CheckingPeers"
    <3>1. Broken \subseteq {n}
      BY <1>0, <1>4, <2>1 DEF CheckPeers, Broken, Out
    <3> QED BY <1>4, <3>1 DEF Sent, Held, OutWrite
  <2>2. CASE v.step # "CheckingPeers"
    <3>1. NextStep(v.step) # "ShuttingDownNode"
      BY <1>4, <2>2, NextOfRoll DEF RollSteps
    <3> QED BY <1>4, <3>1 DEF Sent, Held, OutWrite
  <2> QED BY <2>1, <2>2
<1>5. CASE AtNode(v) /\ (Leaves("skip") \/ Leaves(""))
  BY <1>5 DEF Leaves, Sent, OutWrite
<1> QED BY <1>0, <1>1, <1>2, <1>3, <1>4, <1>5, IdleSpot DEF Walked, GoesTo

LEMMA OutNext ==
  ASSUME TypeInv, Sighted, StepInv, WalkInv, OutInv, [Next]_vars
  PROVE  OutInv'
<1>0. Kinds /\ UNCHANGED env /\ Prompt /\ Broken' \subseteq Broken /\ down' \subseteq Nodes
  BY StepKinds, TypeStep, BrokenFades DEF Sighted
<1>1. DOMAIN Action \subseteq Ops
  BY TypeParts, EnvType
<1>2. Lands => Broken' = Broken
  BY DEF Lands, Still, cpVars, history, Broken, Out
<1>3. ASSUME NEW v, OutAt(v, Broken) PROVE OutAt(v, Broken')
  BY <1>0, <1>3 DEF OutAt
<1>4. ASSUME NEW o \in DOMAIN Action, Rolls(o) PROVE OutAt(Op(o)', Broken')
  <2>0. OutAt(Op(o), Broken)
    BY <1>4 DEF OutInv
  <2>1. CASE Keeps(Op(o), Op(o)')
    <3>1. SameSpot(Op(o), Op(o)') /\ OutAt(Op(o), Broken')
      BY <1>3, <2>0, <2>1 DEF Keeps
    <3> QED BY <3>1 DEF OutAt, SameSpot, SamePlan, AtNode
  <2>2. CASE Lands /\ o # pass.op
    <3>1. Op(o)' = Op(o)
      BY <1>1, <2>2, LandedStep
    <3> QED BY <2>1, <3>1, KeepsItself
  <2>3. CASE Lands /\ o = pass.op
    <3>1. Op(o)' = Stored(opsLog'[pass.op])
      BY <1>1, <2>3, LandedStep
    <3> QED BY <1>2, <1>4, <2>3, <3>1, OutLands
  <2> QED BY <1>0, <2>1, <2>2, <2>3, OpsKept
<1>5. ASSUME pass'.pc = "write", Rolls(pass'.op) PROVE OutWrite(pass', Broken')
  <2>1. CASE Rests \/ Delivers \/ TimeGoes \/ UserAsks \/ ClusterMoves \/ CpMoves
    <3>1. Steady
      BY <1>0, <2>1, SteadyKinds
    <3>2. OutWrite(pass, Broken)
      BY <1>5, <3>1 DEF Steady, OutInv, At
    <3> QED BY <1>0, <3>1, <3>2 DEF Steady, SameSpot, SamePlan, OutWrite, AtNode
  <2>2. CASE Stops \/ Finalizes \/ Restarts \/ Reads \/ Claims \/ GivesBack
    BY <1>5, <2>2, IdleSpot DEF Stops, Finalizes, Restarts, Reads, ReadAs, Claims, GivesBack, Releases, GoesTo
  <2>3. CASE TakesLock \/ Waits \/ Calls
    <3>1. pass'.do # "record" \/ pass'.arg = "Awaiting"
      BY <1>5, <2>3, IdleSpot DEF TakesLock, Locks, Waits, Calls, Called, Sent, GoesTo, NextStep
    <3> QED BY <3>1 DEF OutWrite
  <2>4. CASE WalksOn
    <3>1. OutWrite(pass', Broken)
      BY <1>5, <2>4, OutPosts
    <3> QED BY <1>0, <3>1 DEF OutWrite
  <2>5. CASE Advances
    <3>1. Advanced
      BY <2>5 DEF Advances
    <3>2. Rolls(pass.op)
      BY <1>5, <3>1, IdleSpot DEF Advanced, Sent, GoesTo, Walks, Held
    <3>3. InitialStep(Action[pass.op]) = "CheckingPeers"
      BY <3>2 DEF Rolls, InitialStep
    <3>4. pass'.do = "record" => pass'.arg = "CheckingPeers"
      BY <1>5, <3>1, <3>2, <3>3, IdleSpot DEF Advanced, Sent, GoesTo, Walks, Held, Rolls
    <3> QED BY <3>4 DEF OutWrite
  <2>6. CASE Lands
    BY <1>5, <2>6, IdleSpot DEF Lands, GoesOn, OutWrite
  <2> QED BY <1>0, <2>1, <2>2, <2>3, <2>4, <2>5, <2>6 DEF Kinds
<1>6. (At("write") /\ Rolls(pass.op) => OutWrite(pass, Broken))'
  BY <1>0, <1>5 DEF At, Rolls, Action, OutWrite
<1>7. (\A o \in DOMAIN Action : Rolls(o) => OutAt(Op(o), Broken))'
  BY <1>0, <1>4 DEF Rolls, Action, OutAt
<1>8. (\A n \in Nodes : nodeJob[n] = "stop" =>
         (nodes[n] = "online" /\ n \in down) \/ Leaving(nodes[n]))'
  BY <1>0, StopsKept DEF Leaving
<1>9. (down = {} \/ Broken = {})'
  BY <1>0, DownAlone DEF Broken, Out
<1> QED BY <1>6, <1>7, <1>8, <1>9 DEF OutInv

LEMMA OutInvariant == Spec => [](Sighted => OutInv)
<1>1. Init => (Sighted => OutInv)
  <2> SUFFICES ASSUME Init PROVE OutInv
    OBVIOUS
  <2>1. pass.pc = "idle" /\ down = {} /\ \A n \in Nodes : nodeJob[n] = "none"
    BY IdleSpot DEF Init
  <2>2. ASSUME NEW o \in DOMAIN Action PROVE OutAt(Op(o), Broken)
    BY <2>2, FirstOps DEF OutAt
  <2> QED BY <2>1, <2>2 DEF OutInv, At
<1>2. TypeInv /\ (Prompt => CoreInv) /\ (Prompt => WalkInv) /\ (Sighted => OutInv) /\ [Next]_vars
        => (Sighted => OutInv)'
  <2> SUFFICES ASSUME TypeInv, Prompt => CoreInv, Prompt => WalkInv, Sighted => OutInv,
                      [Next]_vars, Sighted'
               PROVE  OutInv'
    OBVIOUS
  <2>1. Sighted /\ Prompt
    BY StepKinds DEF Sighted, Prompt, May
  <2> QED BY <2>1, OutNext DEF CoreInv
<1> QED BY <1>1, <1>2, TypeInvariant, CoreInvariant, WalkInvariant, PTL DEF Spec

LEMMA AtMostOne ==
  ASSUME NEW S, \A n, m \in S : n = m
  PROVE  Cardinality(S) <= 1
<1>1. CASE S = {}
  BY <1>1, FS_EmptySet
<1>2. ASSUME NEW n \in S PROVE Cardinality(S) <= 1
  <2>1. S = {n}
    BY <1>2
  <2>2. Cardinality(S) = 1
    BY <2>1, FS_Singleton
  <2> QED BY <2>2
<1> QED BY <1>1, <1>2

\* OneNodeDown (ClusterOps): rolling restarts take at most one node down at a time, and none
\* while another node is out of service by itself, if it was so before them, however often
\* operations are aborted, deleted, created and restarted and whatever the cluster's cache
\* and stream lag (checkPeers, acquireLock, the walk's steps).  Besides the hypotheses of
\* NoneStranded it needs a single walk, or walks that no deadline ends.
THEOREM OneDown == Spec => [](Sure /\ Single => OneNodeDown)
<1>1. TypeInv /\ (Prompt => CoreInv) /\ (Sure => DownInv) /\ (Sighted => OutInv)
        => (Sure /\ Single => OneNodeDown)
  <2> SUFFICES ASSUME TypeInv, CoreInv, DownInv, Sighted => OutInv, Sure, Single
               PROVE  OneNodeDown
    BY DEF Sure
  <2>1. Cardinality(down) <= 1
    <3>1. \A n, m \in down : n = m
      BY OneTakes DEF CoreInv
    <3> QED BY <3>1, AtMostOne
  <2>2. CASE ~May("fault")
    <3>1. Out \subseteq down
      BY <2>2 DEF DownInv, Orderly, Out
    <3> QED BY <2>1, <3>1 DEF OneNodeDown
  <2>3. CASE May("fault") /\ May("early")
    <3>1. OutInv
      BY <2>3 DEF Sure, Sighted
    <3>2. down = {} \/ Out \subseteq down
      BY <3>1 DEF OutInv, Broken
    <3> QED BY <2>1, <3>2 DEF OneNodeDown
  <2>4. CASE May("fault") /\ ~May("early")
    BY <2>1, <2>4 DEF OneNodeDown
  <2> QED BY <2>2, <2>3, <2>4
<1> QED BY <1>1, TypeInvariant, CoreInvariant, DownInvariant, OutInvariant, PTL
-------------------------------------------------------------------------------
(* No node goes down while the cluster redistributes its data.             *)

\* The cluster redistributes its data because a node that was down came back.
LEMMA RebalTurns ==
  ASSUME TypeInv, ~May("fault"), DownInv, Kinds, cl'.rebal, ~cl.rebal
  PROVE  \E m \in Nodes : m \in Waking
<1> USE DEF cpVars, streams, history
<1>0. cl \in Clusters
  BY TypeParts DEF CpOK, CpTypes
<1>1. CASE CpMoves
  <2>1. ASSUME NEW m \in Nodes, CpNodeBegins(m) \/ CpNodeEnds(m) \/ CpFault(m) \/ CpRemoves(m)
        PROVE  m \in Waking
    <3>0. Orderly(m)
      BY DEF DownInv
    <3>1. ASSUME NEW st, NodeBecomes(m, st) PROVE st = "online"
      BY <3>1 DEF NodeBecomes
    <3>2. CASE CpNodeBegins(m)
      <4>1. /\ nodeJob[m] # "none"
            /\ "online" = CASE nodeJob[m] = "stop" /\ nodes[m] = "online" -> "in_shutdown"
                           [] nodeJob[m] = "start" /\ nodes[m] = "offline" -> "in_restart"
                           [] OTHER -> nodes[m]
        BY <3>1, <3>2 DEF CpNodeBegins
      <4>2. nodeJob[m] \in {"stop", "start"}
        BY <4>1, TypeParts DEF CpOK, CpTypes
      <4> QED BY <3>0, <4>1, <4>2 DEF Orderly, Leaving
    <3>3. CASE CpNodeEnds(m)
      BY <3>0, <3>1, <3>3 DEF CpNodeEnds, Orderly, Waking
    <3>4. CASE CpRemoves(m)
      BY <3>1, <3>4 DEF CpRemoves
    <3> QED BY <2>1, <3>2, <3>3, <3>4 DEF CpFault
  <2>2. CASE CpCluster \/ CpRebalanced \/ StreamCluster
    BY <1>0, <2>2 DEF CpCluster, CpRebalanced, StreamCluster, Clusters
  <2>3. ASSUME NEW m \in Nodes, PodMoves(m) \/ StreamNode(m) PROVE FALSE
    BY <2>3 DEF PodMoves, StreamNode
  <2> QED BY <1>1, <2>1, <2>2, <2>3 DEF CpMoves
<1>2. CASE Calls
  <2>1. cl' = [cl EXCEPT !.task = FALSE] \/ cl' = cl
    BY <1>2 DEF Calls, NodeCall, ClusterCall
  <2> QED BY <1>0, <2>1 DEF Clusters
<1>3. CASE UNCHANGED cl
  BY <1>3
<1> QED BY <1>1, <1>2, <1>3 DEF Kinds, Rests, Reads, Stops, Finalizes, TakesLock, Waits, Claims, Lands,
         GivesBack, Advances, WalksOn, Delivers, TimeGoes, Ticks, UserAsks, ClusterMoves, Restarts, Still

\* No node that is down begins to come back, but the one a walk asks to.
LEMMA WakesLess ==
  ASSUME TypeInv, StepInv, ~May("fault"), Kinds, down' \subseteq Nodes
  PROVE  \/ Waking' \subseteq Waking
         \/ /\ pass.pc = "call" /\ Rolls(pass.op) /\ AtNode(pass.obj)
            /\ pass.obj.step = "RestartingNode"
            /\ Waking' \subseteq Waking \cup {pass.obj.plan[pass.obj.index]}
<1>0. nodeJob \in [Nodes -> {"none", "stop", "start"}] /\ down \subseteq Nodes
  BY TypeParts DEF CpOK, CpTypes, HistoryOK
<1>1. CASE ~Calls
  <2>1. \A n \in Nodes : Shifts(n)
    BY <1>1, NodesShift
  <2> QED BY <2>1 DEF Shifts, Fades, Waking, Leaving
<1>2. CASE Calls
  <2> DEFINE m == pass.obj.plan[pass.obj.index]
  <2>1. pass.pc = "call" /\ UNCHANGED <<nodes, seen>>
    BY <1>2, NodesCalled DEF Calls, At
  <2>2. CASE UNCHANGED <<nodeJob, down>>
    BY <2>1, <2>2 DEF Waking
  <2>3. CASE m \in Nodes /\ StopsNode(m)
    <3> HIDE DEF m
    <3> QED BY <1>0, <2>1, <2>3 DEF StopsNode, Waking
  <2>4. CASE /\ Rolls(pass.op) /\ AtNode(pass.obj) /\ m \in Nodes
             /\ pass.obj.step = "RestartingNode" /\ StartsNode(m)
    <3>1. Waking' \subseteq Waking \cup {m}
      <4> HIDE DEF m
      <4> QED BY <1>0, <2>1, <2>4 DEF StartsNode, Waking
    <3> QED BY <2>1, <2>4, <3>1
  <2> QED BY <1>2, <2>2, <2>3, <2>4, NodesCalled
<1> QED BY <1>1, <1>2

\* A walk that minds is the only one that asks a node to start, and that is its own.
LEMMA MindsWaking ==
  ASSUME TypeInv, StepInv, LockInv, ~May("fault"), Kinds, down' \subseteq Nodes,
         NEW o \in DOMAIN Action, Minds(o), Op(o).step # ""
  PROVE  \/ Waking' \subseteq Waking
         \/ /\ Op(o).step = "RestartingNode" /\ AtNode(Op(o))
            /\ Waking' \subseteq Waking \cup {Op(o).plan[Op(o).index]}
<1> SUFFICES ASSUME pass.pc = "call", Rolls(pass.op), AtNode(pass.obj),
                    pass.obj.step = "RestartingNode",
                    Waking' \subseteq Waking \cup {pass.obj.plan[pass.obj.index]}
             PROVE  /\ Op(o).step = "RestartingNode" /\ AtNode(Op(o))
                    /\ Waking' \subseteq Waking \cup {Op(o).plan[Op(o).index]}
  BY WakesLess
<1>1. o = pass.op
  <2>1. PastLock(pass) /\ pass.obj.step \in DownSteps
    BY DEF PastLock, DownSteps
  <2> QED BY <2>1, WorksAlone DEF Minds
<1>2. SameSpot(Op(pass.op), pass.obj)
  BY PassLives DEF DownSteps
<1> QED BY <1>1, <1>2 DEF SameSpot, SamePlan, AtNode

\* The walk that minds stays as it is while its operation does.
LEMMA RebalKept ==
  ASSUME TypeInv, Calm, StepInv, LockInv, DownInv, Kinds, down' \subseteq Nodes,
         NEW o \in DOMAIN Action, Minds(o), RebalAt(Op(o), cl.rebal, Waking)
  PROVE  RebalAt(Op(o), cl'.rebal, Waking')
<1> DEFINE v == Op(o)
<1>0. ~May("fault")
  BY DEF Calm
<1>1. CASE v.step = ""
  BY <1>1 DEF RebalAt, DownSteps
<1>2. CASE v.step # "" /\ Waking' \subseteq Waking
  <2>1. ASSUME Waking = {} PROVE Waking' = {} /\ (~cl.rebal => ~cl'.rebal)
    BY <1>0, <1>2, <2>1, RebalTurns
  <2> QED BY <1>2, <2>1 DEF RebalAt
<1>3. CASE /\ v.step = "RestartingNode" /\ AtNode(v)
           /\ Waking' \subseteq Waking \cup {v.plan[v.index]}
  <2>1. Waking \subseteq {v.plan[v.index]}
    BY <1>3 DEF RebalAt, DownSteps
  <2>2. Waking' \subseteq {v.plan[v.index]}
    BY <1>3, <2>1
  <2> QED BY <1>3, <2>2 DEF RebalAt
<1> QED BY <1>0, <1>1, <1>2, <1>3, MindsWaking

\* An operation minds only if it did before.
LEMMA MindsBefore ==
  ASSUME TypeInv, Prompt, StepInv, Kinds, UNCHANGED env, NEW o \in DOMAIN Action, Minds(o)'
  PROVE  Minds(o)
<1> DEFINE Window == {"lock", "step", "walk", "claim", "call", "write"}
<1>0. o \in Ops
  BY TypeParts, EnvType
<1>1. CASE Live(Op(o)')
  <2>1. CASE Lands /\ o = pass.op
    BY <2>1 DEF Lands, At, Minds
  <2>2. CASE Lands /\ o # pass.op
    <3>1. Op(o)' = Op(o)
      BY <1>0, <2>2, LandedStep
    <3> QED BY <1>1, <3>1 DEF Minds
  <2>3. CASE Keeps(Op(o), Op(o)')
    BY <1>1, <2>3 DEF Keeps, Minds
  <2> QED BY <2>1, <2>2, <2>3, OpsKept
<1>2. CASE pass'.op = o /\ pass'.pc \in Window
  <2>1. CASE pass.op = o /\ pass.pc \in Window
    BY <2>1 DEF Minds
  <2>2. CASE Rests \/ Delivers \/ TimeGoes \/ UserAsks \/ ClusterMoves \/ CpMoves
    <3>1. Steady
      BY <2>2, SteadyKinds
    <3> QED BY <1>2, <2>1, <3>1 DEF Steady
  <2>3. CASE Reads
    <3>1. PICK p \in Ops : ReadAs(p) /\ Current(opsLog[p])
      BY <2>3 DEF Reads, Prompt
    <3>2. /\ p = o /\ Live(Cached(opsLog[p]))
      BY <1>2, <2>3, <3>1 DEF ReadAs, Live, Reads, At
    <3>3. Cached(opsLog[o]) = Op(o)
      BY <3>1, <3>2 DEF Current, Cached, Op, Stored
    <3> QED BY <3>2, <3>3 DEF Minds
  <2>4. CASE Stops \/ Finalizes \/ Restarts \/ GivesBack
    BY <1>2, <2>4, IdleSpot DEF Stops, Finalizes, Restarts, GivesBack, Releases, GoesTo
  <2>5. CASE TakesLock \/ Waits \/ Claims \/ Calls \/ Lands \/ Advances \/ WalksOn
    <3>1. pass.pc \in Window
      BY <2>5 DEF TakesLock, Waits, Claims, Calls, Lands, Advances, WalksOn, At
    <3>2. pass' = Idle \/ pass'.op = pass.op
      BY <2>5 DEF TakesLock, Locks, Waits, Claims, Calls, Called, Lands, GoesOn, Advances, Advanced,
           WalksOn, Walked, Leaves, Walks, Sent, GoesTo, Held
    <3> QED BY <1>2, <2>1, <3>1, <3>2, IdleSpot
  <2> QED BY <2>2, <2>3, <2>4, <2>5 DEF Kinds
<1> QED BY <1>1, <1>2 DEF Minds

\* What the pass decides to write from what it sees.
LEMMA RebalPosts ==
  ASSUME TypeInv, Calm, StepInv, DownInv, RebalInv, WalksOn, pass'.pc = "write"
  PROVE  RebalWrite(pass', cl.rebal, Waking)
<1> DEFINE v == pass.obj
           n == v.plan[v.index]
<1>0. pass.pc = "walk" /\ ~At("idle") /\ Walked /\ clSeen = cl
  BY DEF WalksOn, At, StreamsPrompt, Calm
<1>1. pass.arg = v.step /\ Rolls(pass.op) /\ pass.op \in DOMAIN Action /\ v \in OpsObj
      /\ SameSpot(Op(pass.op), v)
  BY <1>0, PassFields DEF StepInv, InStep, PassFits, SameStatus, SameSpot, SamePlan
<1>2. RebalAt(v, cl.rebal, Waking)
  <2>1. Minds(pass.op)
    BY <1>0 DEF Minds
  <2> QED BY <1>1, <2>1 DEF RebalInv, RebalAt, SameSpot, SamePlan, AtNode
<1>3. ASSUME NEW m \in Waking PROVE m \in Nodes /\ m \in down /\ seen[m] # "online" /\ ~Leaving(seen[m])
  <2>1. m \in down /\ m \in Nodes /\ (nodes[m] = "in_restart" \/ nodeJob[m] = "start")
    BY <1>3, TypeParts DEF Waking, HistoryOK
  <2>2. Orderly(m) /\ (Leaving(seen[m]) => m \notin down)
    BY <2>1 DEF DownInv, Gonners, Calm
  <2> QED BY <2>1, <2>2 DEF Orderly
<1>4. CASE Sent("note", "", "requeue")
  BY <1>4 DEF Sent, RebalWrite
<1>5. CASE ~AtNode(v) /\ v.step = "CheckingPeers" /\ Sent("record", "ShuttingDownNode", "requeue")
  BY <1>5 DEF Sent, Held, RebalWrite, BackSteps
<1>6. CASE /\ AtNode(v) /\ v.step \in RollSteps \ {"Rebalancing"}
           /\ v.step = "CheckingPeers" => CheckPeers(n)
           /\ v.step = "RestartingNode" => seen[n] = "online"
           /\ Sent("record", NextStep(v.step), "requeue")
  <2>1. CASE v.step = "CheckingPeers"
    <3>1. Waking \subseteq {n}
      BY <1>3, <1>6, <2>1 DEF CheckPeers, Leaving
    <3>2. NextStep(v.step) = "ShuttingDownNode"
      BY <1>6, <2>1, NextOfRoll
    <3> QED BY <1>6, <2>1, <3>1, <3>2 DEF Sent, Held, RebalWrite, BackSteps
  <2>2. CASE v.step = "RestartingNode"
    <3>1. Waking \subseteq {n}
      BY <1>2, <1>6, <2>2 DEF RebalAt, DownSteps
    <3>2. Waking = {}
      BY <1>3, <1>6, <2>2, <3>1
    <3>3. NextStep(v.step) = "Rebalancing"
      BY <1>6, <2>2, NextOfRoll
    <3> QED BY <1>6, <3>2, <3>3 DEF Sent, Held, RebalWrite, BackSteps
  <2>3. CASE v.step \in DownSteps \ {"RestartingNode"}
    <3>1. NextStep(v.step) \notin {"CheckingPeers", "ShuttingDownNode", "Rebalancing"}
      BY <1>6, <2>3, NextOfRoll DEF DownSteps
    <3> QED BY <1>6, <2>3, <3>1 DEF Sent, Held, RebalWrite
  <2> QED BY <1>6, <2>1, <2>2, <2>3 DEF RollSteps, DownSteps
<1>7. CASE AtNode(v) /\ Leaves("skip")
  BY <1>7 DEF Leaves, Sent, RebalWrite
<1>8. CASE AtNode(v) /\ v.step = "Rebalancing" /\ Rebalanced /\ Leaves("")
  <2>1. Waking = {} /\ ~cl.rebal
    BY <1>0, <1>2, <1>8 DEF RebalAt, Rebalanced
  <2> QED BY <1>8, <2>1 DEF Leaves, Sent, Held, RebalWrite
<1> QED BY <1>0, <1>1, <1>4, <1>5, <1>6, <1>7, <1>8, IdleSpot DEF Walked, GoesTo

\* A write of the walk's pass lands.
LEMMA RebalLands ==
  ASSUME TypeInv, StepInv, WalkInv, RebalInv, Lands, Rolls(pass.op)
  PROVE  LET w == Stored(opsLog'[pass.op]) IN
         /\ w.step = "" => ~Planned(w)
         /\ RebalAt(w, cl.rebal, Waking)
<1> DEFINE v == Op(pass.op)
           w == Stored(opsLog'[pass.op])
<1>0. /\ pass.pc = "write" /\ ~At("idle") /\ pass.op \in DOMAIN Action /\ pass.do \in Doings
      /\ WriteFits(pass.do, pass.arg, pass.then, pass.op, pass.obj)
      /\ v \in OpsObj /\ w \in OpsObj
      /\ InStep(pass, v) /\ SameStatus(pass.obj, v)
      /\ Mutates(v, w, pass.do, pass.arg, v, pass.list)
  BY LandedStep DEF Lands, At
<1>1. /\ RebalWrite(pass, cl.rebal, Waking)
      /\ v.step = "" => ~Planned(v)
      /\ RebalAt(v, cl.rebal, Waking)
      /\ pass.do = "walked" => pass.obj.index = Len(pass.obj.plan)
  BY <1>0 DEF RebalInv, Minds, At, WalkInv, WalkWrite
<1> SUFFICES /\ w.step = "" => ~Planned(w)
             /\ RebalAt(w, cl.rebal, Waking)
  OBVIOUS
<1> HIDE DEF v, w
<1>3. pass.obj.plan = v.plan /\ pass.obj.index = v.index /\ pass.obj.step = v.step
  BY <1>0 DEF SameStatus
<1>5. v.index \in Nat /\ w.index \in Nat /\ (Planned(v) <=> v.index > 0) /\ Len(v.plan) \in Nat
  BY <1>0, ObjFields DEF Planned
<1>6. CASE SameStep(v, w) /\ SamePlan(v, w)
  BY <1>1, <1>6 DEF SameStep, SamePlan, RebalAt, Planned, AtNode
<1>7. CASE pass.do = "record"
  <2>1. w.step = pass.arg /\ SamePlan(v, w) /\ pass.arg \in RollSteps
    BY <1>0, <1>7 DEF Mutates, Entered, WriteFits, StepsOf, Rolls
  <2>2. w.step # "" /\ (AtNode(w) => AtNode(v) /\ AtNode(pass.obj))
    BY <1>3, <2>1 DEF RollSteps, AtNode, SamePlan
  <2>3. CASE w.step = "Rebalancing"
    <3>1. AtNode(w) => Waking = {}
      BY <1>1, <1>7, <2>1, <2>2, <2>3 DEF RebalWrite
    <3> QED BY <2>2, <2>3, <3>1 DEF RebalAt, DownSteps
  <2>4. CASE w.step = "CheckingPeers"
    <3>1. ~Planned(v)
      BY <1>1, <1>3, <1>7, <2>1, <2>4 DEF RebalWrite
    <3>2. ~(w.index > 1)
      <4>1. w.index = v.index
        BY <2>1 DEF SamePlan
      <4> QED BY <1>5, <3>1, <4>1
    <3> QED BY <2>4, <3>2 DEF RebalAt, DownSteps
  <2>5. CASE w.step = "ShuttingDownNode"
    <3>1. v.step = "CheckingPeers" /\ (AtNode(w) => Waking \subseteq {v.plan[v.index]})
      BY <1>1, <1>3, <1>7, <2>1, <2>2, <2>5 DEF RebalWrite
    <3> QED BY <1>1, <2>1, <2>5, <3>1 DEF RebalAt, SamePlan
  <2>6. CASE w.step \in BackSteps
    <3>1. v.step \in DownSteps
      BY <1>1, <1>3, <1>7, <2>1, <2>6 DEF RebalWrite
    <3> QED BY <1>1, <2>1, <2>2, <2>6, <3>1 DEF RebalAt, SamePlan, BackSteps
  <2> QED BY <2>1, <2>3, <2>4, <2>5, <2>6 DEF RollSteps, BackSteps
<1>8. CASE pass.do = "plan"
  <2>1. w.step = "CheckingPeers" /\ w.index = 1
    BY <1>0, <1>3, <1>8 DEF Mutates, SameStep, InStep, WriteFits
  <2>2. ~(w.index > 1)
    BY <2>1
  <2> QED BY <2>1, <2>2 DEF RebalAt, DownSteps
<1>9. CASE pass.do \in {"next", "walked"}
  <2>1. AtNode(pass.obj) /\ StepsPast(v, w, pass.arg, v)
    BY <1>0, <1>9 DEF Mutates, WriteFits
  <2>2. Planned(v) /\ v.step # ""
    <3>1. v.index \in 1..Len(v.plan)
      BY <1>3, <2>1 DEF AtNode
    <3>2. v.index > 0
      BY <1>5, <3>1
    <3> QED BY <1>1, <3>2 DEF Planned
  <2>3. w.step # ""
    BY <1>0, <1>9, <2>2 DEF Mutates, Entered, SameStep
  <2>4. w.step = "CheckingPeers" \/ ~AtNode(w)
    <3>1. CASE pass.do = "next"
      BY <1>0, <3>1 DEF Mutates, Entered
    <3>2. CASE pass.do = "walked"
      <4>1. w.plan = v.plan /\ w.index = v.index + 1 /\ v.index = Len(v.plan)
        BY <1>1, <1>3, <2>1, <3>2 DEF StepsPast
      <4>2. ~(w.index \in 1..Len(w.plan))
        BY <1>5, <4>1
      <4> QED BY <4>2 DEF AtNode
    <3> QED BY <1>9, <3>1, <3>2
  <2>5. w.plan[w.index - 1] \notin w.skipped => ~cl.rebal /\ Waking = {}
    <3>1. CASE pass.arg # "skip"
      BY <1>1, <1>9, <3>1 DEF RebalWrite
    <3>2. CASE pass.arg = "skip"
      <4>1. w.plan = v.plan /\ w.index = v.index + 1 /\ v.plan[v.index] \in w.skipped
        BY <2>1, <3>2 DEF StepsPast
      <4>2. w.index - 1 = v.index
        BY <1>5, <4>1
      <4> QED BY <4>1, <4>2
    <3> QED BY <3>1, <3>2
  <2> QED BY <2>3, <2>4, <2>5 DEF RebalAt, DownSteps
<1>10. CASE pass.do = "finish" /\ pass.arg = "Succeeded"
  BY <1>0, <1>10 DEF Mutates, Entered, RebalAt, DownSteps
<1>11. pass.do \in {"run", "hold", "note"} \/ (pass.do = "finish" /\ pass.arg # "Succeeded") => SameStep(v, w) /\ SamePlan(v, w)
  BY <1>0 DEF Mutates
<1>12. pass.do # "retry"
  BY <1>0 DEF WriteFits, Rolls
<1> QED BY <1>0, <1>6, <1>7, <1>8, <1>9, <1>10, <1>11, <1>12 DEF Doings

LEMMA RebalNext ==
  ASSUME TypeInv, Calm, StepInv, LockInv, WalkInv, DownInv, RebalInv, [Next]_vars
  PROVE  RebalInv'
<1>0. /\ Kinds /\ UNCHANGED env /\ ~May("fault") /\ ~May("clusterstream") /\ Prompt
      /\ down' \subseteq Nodes
  BY StepKinds, TypeStep DEF Calm
<1>1. DOMAIN Action \subseteq Ops
  BY TypeParts, EnvType
<1>2. Lands => cl' = cl /\ Waking' = Waking
  BY DEF Lands, Still, cpVars, history, Waking
<1>4. ASSUME NEW o \in DOMAIN Action, Rolls(o)
      PROVE  /\ Op(o)'.step = "" => ~Planned(Op(o)')
             /\ Minds(o)' => RebalAt(Op(o)', cl'.rebal, Waking')
  <2>0. /\ Op(o).step = "" => ~Planned(Op(o))
        /\ Minds(o) => RebalAt(Op(o), cl.rebal, Waking)
    BY <1>4 DEF RebalInv
  <2>1. CASE Keeps(Op(o), Op(o)')
    <3>1. SameSpot(Op(o), Op(o)')
      BY <2>1 DEF Keeps
    <3>2. Op(o)'.step = "" => ~Planned(Op(o)')
      BY <2>0, <3>1 DEF SameSpot, SamePlan, Planned
    <3>3. Minds(o)' => RebalAt(Op(o), cl'.rebal, Waking')
      BY <1>0, <2>0, MindsBefore, RebalKept
    <3>4. ASSUME RebalAt(Op(o), cl'.rebal, Waking') PROVE RebalAt(Op(o)', cl'.rebal, Waking')
      BY <3>1, <3>4 DEF RebalAt, SameSpot, SamePlan, AtNode
    <3> QED BY <3>2, <3>3, <3>4
  <2>2. CASE Lands /\ o # pass.op
    <3>1. Op(o)' = Op(o)
      BY <1>1, <2>2, LandedStep
    <3> QED BY <2>1, <3>1, KeepsItself
  <2>3. CASE Lands /\ o = pass.op
    <3>1. Op(o)' = Stored(opsLog'[pass.op])
      BY <1>1, <2>3, LandedStep
    <3> QED BY <1>2, <1>4, <2>3, <3>1, RebalLands
  <2> QED BY <1>0, <2>1, <2>2, <2>3, OpsKept
<1>5. ASSUME pass'.pc = "write", Rolls(pass'.op) PROVE RebalWrite(pass', cl'.rebal, Waking')
  <2>1. CASE Rests \/ Delivers \/ TimeGoes \/ UserAsks \/ ClusterMoves \/ CpMoves
    <3>1. Steady
      BY <1>0, <2>1, SteadyKinds
    <3>2. RebalWrite(pass, cl.rebal, Waking) /\ pass.pc = "write"
      BY <1>5, <3>1 DEF Steady, RebalInv, At
    <3>3. Waking' \subseteq Waking
      BY <1>0, <3>2, WakesLess
    <3>4. Waking = {} /\ ~cl.rebal => ~cl'.rebal
      BY <1>0, RebalTurns
    <3>5. RebalWrite(pass, cl'.rebal, Waking')
      BY <3>2, <3>3, <3>4 DEF RebalWrite
    <3> QED BY <3>1, <3>5 DEF Steady, SameSpot, SamePlan, RebalWrite, AtNode
  <2> SUFFICES ASSUME ~(Rests \/ Delivers \/ TimeGoes \/ UserAsks \/ ClusterMoves \/ CpMoves)
               PROVE  RebalWrite(pass', cl'.rebal, Waking')
    BY <2>1
  <2>2. CASE Stops \/ Finalizes \/ Restarts \/ Reads \/ Claims \/ GivesBack
    BY <1>5, <2>2, IdleSpot DEF Stops, Finalizes, Restarts, Reads, ReadAs, Claims, GivesBack, Releases, GoesTo
  <2>3. CASE TakesLock \/ Waits \/ Calls
    <3>1. pass'.do # "record" \/ pass'.arg = "Awaiting"
      BY <1>5, <2>3, IdleSpot DEF TakesLock, Locks, Waits, Calls, Called, Sent, GoesTo, NextStep
    <3>2. pass'.do \notin {"next", "walked"}
      BY <1>5, <2>3, IdleSpot DEF TakesLock, Locks, Waits, Calls, Called, Sent, GoesTo
    <3> QED BY <3>1, <3>2 DEF RebalWrite, BackSteps
  <2>4. CASE WalksOn
    <3>1. RebalWrite(pass', cl.rebal, Waking)
      BY <1>0, <1>5, <2>4, RebalPosts
    <3>2. cl' = cl /\ Waking' = Waking
      BY <2>4 DEF WalksOn, history, Waking
    <3> QED BY <3>1, <3>2
  <2>5. CASE Advances
    <3>1. Advanced
      BY <2>5 DEF Advances
    <3>2. Rolls(pass.op)
      BY <1>5, <3>1, IdleSpot DEF Advanced, Sent, GoesTo, Walks, Held
    <3>3. InitialStep(Action[pass.op]) = "CheckingPeers"
      BY <3>2 DEF Rolls, InitialStep
    <3>4. pass'.do = "record" => pass'.arg = "CheckingPeers" /\ pass'.obj.step = ""
      BY <1>5, <3>1, <3>2, <3>3, IdleSpot DEF Advanced, Sent, GoesTo, Walks, Held, Rolls
    <3>5. pass'.do \notin {"next", "walked"}
      BY <1>5, <3>1, IdleSpot DEF Advanced, Sent, GoesTo, Walks
    <3> QED BY <3>4, <3>5 DEF RebalWrite, BackSteps
  <2>6. CASE Lands
    BY <1>5, <2>6, IdleSpot DEF Lands, GoesOn, RebalWrite
  <2> QED BY <1>0, <2>2, <2>3, <2>4, <2>5, <2>6 DEF Kinds
<1>6. (At("write") /\ Rolls(pass.op) => RebalWrite(pass, cl.rebal, Waking))'
  BY <1>0, <1>5 DEF At, Rolls, Action, RebalWrite
<1> QED BY <1>0, <1>4, <1>6 DEF RebalInv, Rolls, Action

\* ShutdownWhenRebalanced (ClusterOps): the walk asks no node to go down while the cluster
\* redistributes the data of the node it restarted before (awaitRebalance, advanceWalk),
\* with a cluster stream that keeps up and no node that fails by itself, as the property
\* says, whatever the nodes' stream and the cluster object's cache lag, and however many
\* walks follow each other.  It needs operations read when they are current.
THEOREM RebalancedFirst == Spec => [](Prompt => ShutdownWhenRebalanced)
<1>1. Init => (Calm => RebalInv)
  <2> SUFFICES ASSUME Init PROVE RebalInv
    OBVIOUS
  <2>1. pass.pc = "idle"
    BY IdleSpot DEF Init
  <2>2. ASSUME NEW o \in DOMAIN Action PROVE Op(o).step = "" /\ ~Planned(Op(o))
    <3>1. Op(o).step = "" /\ Op(o).index = 0
      BY <2>2, FirstOps
    <3>2. Op(o).index = 0
      BY <3>1
    <3>3. ~Planned(Op(o))
      BY <3>2 DEF Planned
    <3> QED BY <3>1, <3>3
  <2> QED BY <2>1, <2>2 DEF RebalInv, RebalAt, At, DownSteps
<1>2. TypeInv /\ (Prompt => CoreInv) /\ (Prompt => WalkInv) /\ (Sure => DownInv)
        /\ (Calm => RebalInv) /\ [Next]_vars => (Calm => RebalInv)'
  <2> SUFFICES ASSUME TypeInv, Prompt => CoreInv, Prompt => WalkInv, Sure => DownInv,
                      Calm => RebalInv, [Next]_vars, Calm'
               PROVE  RebalInv'
    OBVIOUS
  <2>1. Calm /\ Sure /\ Prompt
    BY StepKinds DEF Calm, Sure, Prompt, May
  <2> QED BY <2>1, RebalNext DEF CoreInv
<1>3. TypeInv /\ (Prompt => CoreInv) /\ (Calm => RebalInv) => (Prompt => ShutdownWhenRebalanced)
  <2> DEFINE v == pass.obj
  <2> SUFFICES ASSUME TypeInv, Prompt => CoreInv, Calm => RebalInv, Prompt,
                      At("call"), v.step = "ShuttingDownNode", v.index > 1,
                      v.plan[v.index - 1] \notin v.skipped, ~May("clusterstream"), ~May("fault")
               PROVE  ~cl.rebal
    BY DEF ShutdownWhenRebalanced
  <2>1. RebalInv /\ StepInv /\ ~At("idle") /\ pass.pc = "call"
    BY DEF Calm, CoreInv, At
  <2>2. pass.op \in DOMAIN Action /\ Minds(pass.op) /\ SameSpot(Op(pass.op), v)
    BY <2>1, PassLives DEF DownSteps, Minds
  <2>3. Rolls(pass.op)
    BY <2>1, StepFacts DEF RollSteps, Rolls
  <2>4. RebalAt(Op(pass.op), cl.rebal, Waking)
    BY <2>1, <2>2, <2>3 DEF RebalInv
  <2> QED BY <2>2, <2>4 DEF RebalAt, SameSpot, SamePlan
<1> QED BY <1>1, <1>2, <1>3, TypeInvariant, CoreInvariant, WalkInvariant, DownInvariant, PTL DEF Spec
-------------------------------------------------------------------------------
(* One activation at a time.                                               *)

\* A call on the cluster, beside an Activate operation that is the only one of its kind.
LEMMA AloneCalls ==
  ASSUME TypeInv, StepInv, Lone, Calls, NEW o \in DOMAIN Action, Action[o] = "Activate"
  PROVE  /\ UNCHANGED <<clJob, clSeen, opsLog>> /\ cl'.status = cl.status
         /\ UNCHANGED attempts \/ (pass.op = o /\ attempts' = attempts + 1)
         /\ pass.op = o => pass.obj.step = "Requesting"
<1>0. pass.pc = "call" /\ ~At("idle") /\ UNCHANGED <<clSeen, opsLog>> /\ cl \in Clusters
  BY TypeParts DEF Calls, At, streams, CpOK, CpTypes
<1>1. /\ pass.op \in DOMAIN Action /\ Action[pass.op] \in Actions /\ Fits(pass.op, pass.obj)
      /\ pass.obj.step \in CallSteps
  BY <1>0, PassFields DEF StepInv, InStep
<1>2. pass.op = o \/ Action[pass.op] \notin {"Activate", "Shutdown", "Start", "Restart"}
  BY <1>1 DEF Lone
<1>3. ~Rolls(pass.op) => /\ pass.obj.step = "Requesting"
                         /\ pass.op = o \/ Action[pass.op] \in {"Expand", "CancelTask"}
  BY <1>1, <1>2 DEF Fits, StepsOf, Rolls, CallSteps, Actions
<1>4. pass.op = o => pass.obj.step = "Requesting"
  BY <1>3 DEF Rolls
<1>5. CASE Rolls(pass.op) /\ NodeCall
  BY <1>0, <1>4, <1>5 DEF NodeCall
<1>6. CASE ~Rolls(pass.op) /\ ClusterCall
  <2>1. UNCHANGED clJob /\ (cl' = cl \/ cl' = [cl EXCEPT !.task = FALSE])
    BY <1>3, <1>6 DEF ClusterCall
  <2>2. UNCHANGED attempts \/ (pass.op = o /\ attempts' = attempts + 1)
    BY <1>3, <1>6 DEF ClusterCall
  <2> QED BY <1>0, <1>4, <2>1, <2>2 DEF Clusters
<1> QED BY <1>0, <1>4, <1>5, <1>6 DEF Calls

\* The attempts, and what is seen of them.
LEMMA AttemptsTurn ==
  ASSUME TypeInv, StepInv, Lone, Kinds, NEW o \in DOMAIN Action, Action[o] = "Activate",
         clJob = "none", attempts \in {0, 1}
  PROVE  /\ clJob' = "none"
         /\ \/ Calls /\ pass.op = o /\ attempts' = attempts + 1
            \/ attempts' = 0
            \/ attempts' = attempts /\ (Shows => Shows')
<1> USE DEF cpVars, streams, history
<1>0. cl \in Clusters /\ (cl.status = "in_activation" => attempts > 0)
  BY TypeParts DEF CpOK, CpTypes, Tally, Counted
<1>1. CASE Calls
  BY <1>1, AloneCalls DEF Shows
<1>2. CASE UNCHANGED <<clJob, attempts>> /\ cl'.status = cl.status /\ clSeen' \in {clSeen, cl}
  BY <1>2 DEF Shows
<1>3. CASE CpMoves
  <2>1. ASSUME NEW m \in Nodes, NEW st, NodeBecomes(m, st)
        PROVE  UNCHANGED <<clJob, attempts, clSeen>> /\ cl'.status = cl.status
    <3>1. cl' = cl \/ cl' = [cl EXCEPT !.rebal = TRUE]
      BY <2>1 DEF NodeBecomes
    <3> QED BY <1>0, <2>1, <3>1 DEF NodeBecomes, Clusters
  <2>2. ASSUME NEW m \in Nodes, CpNodeBegins(m) \/ CpNodeEnds(m) \/ CpFault(m) \/ CpRemoves(m)
        PROVE  UNCHANGED <<clJob, attempts, clSeen>> /\ cl'.status = cl.status
    <3>1. \E st : NodeBecomes(m, st)
      BY <2>2, NodeStatusNext DEF Becomes
    <3> QED BY <2>1, <3>1
  <2>3. CASE CpCluster
    <3>1. CASE attempts > 0 /\ cl.status # "in_activation" /\ UNCHANGED <<clJob, attempts>>
      BY <3>1 DEF Shows
    <3>2. CASE cl.status = "in_activation" /\ attempts' = attempts - 1 /\ UNCHANGED clJob
      <4>1. attempts' = 0
        BY <1>0, <3>2
      <4> QED BY <3>2, <4>1
    <3> QED BY <2>3, <3>1, <3>2 DEF CpCluster
  <2>4. CASE CpRebalanced \/ StreamCluster
    BY <1>0, <1>2, <2>4 DEF CpRebalanced, StreamCluster, Clusters
  <2>5. ASSUME NEW m \in Nodes, PodMoves(m) \/ StreamNode(m)
        PROVE  UNCHANGED <<clJob, attempts, cl, clSeen>>
    BY <2>5 DEF PodMoves, StreamNode
  <2> QED BY <1>2, <1>3, <2>2, <2>3, <2>4, <2>5 DEF CpMoves
<1> QED BY <1>1, <1>2, <1>3 DEF Kinds, Rests, Reads, Stops, Finalizes, TakesLock, Waits, Claims, Lands,
         GivesBack, Advances, WalksOn, Delivers, TimeGoes, Ticks, UserAsks, ClusterMoves, Restarts, Still

\* The lease of a claim that a pass is about to use, or to look at, does not end.
LEMMA ClaimSteady ==
  ASSUME TypeInv, UNCHANGED env, Rests \/ Delivers \/ TimeGoes \/ UserAsks \/ ClusterMoves \/ CpMoves,
         pass.pc \in {"claim", "call"}
  PROVE  pass'.obj.claim = pass.obj.claim
<1>1. CASE UNCHANGED pass
  BY <1>1
<1>2. ASSUME NEW o \in DOMAIN Action, Disturbed(o) PROVE pass'.obj.claim = pass.obj.claim
  BY <1>2 DEF Disturbed
<1>3. CASE TimeGoes
  <2>1. PICK o \in DOMAIN Action, g \in [OpsObj -> OpsObj] :
          /\ Ages(g) /\ Ticks(o, g)
          /\ \/ LeaseExpires(o) /\ g = LeaseClock
             \/ g = GraceClock
             \/ \E s \in WorkSteps : g = DeadlineClock(s)
    BY <1>3, AgesType DEF TimeGoes
  <2>2. pass.obj \in OpsObj
    BY PassFields
  <2>3. pass'.obj = IF pass.op = o THEN g[pass.obj] ELSE pass.obj
    BY <2>1, TickMoves
  <2>4. CASE LeaseExpires(o)
    BY <2>3, <2>4 DEF LeaseExpires, At
  <2>5. CASE g = GraceClock \/ \E s \in WorkSteps : g = DeadlineClock(s)
    <3>1. g[pass.obj].claim = pass.obj.claim
      <4>1. CASE g = GraceClock
        BY <2>2, <4>1, GraceAges
      <4>2. ASSUME NEW s \in WorkSteps, g = DeadlineClock(s) PROVE g[pass.obj].claim = pass.obj.claim
        BY <2>2, <4>2, DeadlineKeeps
      <4> QED BY <2>5, <4>1, <4>2
    <3> QED BY <2>3, <3>1
  <2> QED BY <2>1, <2>4, <2>5
<1> QED BY <1>1, <1>2, <1>3 DEF Rests, Delivers, UserAsks, ClusterMoves, CpMoves

\* The operation stays where it is: its claim and its grace end only once the attempt, if
\* there is one, shows.
Covers(v, w) ==
  /\ w.phase = v.phase /\ w.step = v.step
  /\ w.claim \in {v.claim, "live"} \/ (v.claim = "live" /\ w.claim = "expired" /\ Settled)
  /\ w.settled = v.settled \/ Settled

LEMMA CoversSame ==
  ASSUME NEW v, NEW w, SameStatus(v, w) \/ SameStatus(w, v)
  PROVE  Covers(v, w)
  BY DEF SameStatus, Covers

LEMMA CoversOthers ==
  ASSUME TypeInv, NEW o \in Ops, NEW w, \A p \in Ops : p = o => Op(p)' = w,
         \A p \in Ops \ {o} : Op(p)' = Op(p), Covers(Op(o), w)
  PROVE  \A p \in DOMAIN Action : Covers(Op(p), Op(p)')
<1> TAKE p \in DOMAIN Action
<1>1. p \in Ops
  BY TypeParts, EnvType
<1>2. Covers(Op(p), Op(p))
  BY CoversSame DEF SameStatus
<1> QED BY <1>1, <1>2

LEMMA OpsCovered ==
  ASSUME TypeInv, StepInv, Kinds, UNCHANGED env
  PROVE  Lands \/ \A p \in DOMAIN Action : Covers(Op(p), Op(p)')
<1> SUFFICES ASSUME ~Lands PROVE \A p \in DOMAIN Action : Covers(Op(p), Op(p)')
  OBVIOUS
<1>0. DOMAIN Action \subseteq Ops /\ \A p \in Ops : Covers(Op(p), Op(p))
  BY TypeParts, EnvType, CoversSame DEF SameStatus
<1>1. CASE UNCHANGED opsLog
  <2>1. \A p \in Ops : Op(p)' = Op(p)
    BY <1>1 DEF Op
  <2> QED BY <1>0, <2>1
<1>2. CASE Delivers
  BY <1>0, <1>2 DEF Delivers
<1>3. CASE Finalizes
  <2>1. PICK w \in OpsObj :
          /\ SameStatus(w, Op(pass.op))
          /\ opsLog' = [opsLog EXCEPT ![pass.op] = Written(@, w)]
    BY <1>3 DEF Finalizes
  <2>2. pass.op \in Ops /\ Room(opsLog[pass.op], MaxLag)
    BY <1>0, <1>3 DEF Finalizes
  <2>3. Stored(opsLog'[pass.op]) = w /\ \A p \in Ops \ {pass.op} : Op(p)' = Op(p)
    BY <2>1, <2>2, OpWritten
  <2>4. Covers(Op(pass.op), w)
    BY <2>1, CoversSame
  <2>5. \A p \in Ops : p = pass.op => Op(p)' = w
    BY <2>3 DEF Op
  <2> QED BY <1>0, <2>3, <2>4, <2>5
<1>4. CASE Claims
  <2>1. ~At("idle")
    BY <1>4 DEF Claims, At
  <2>2. pass.op \in Ops /\ Op(pass.op) \in OpsObj
    BY <2>1, PassFields, OpEnds
  <2>3. Stored(opsLog'[pass.op]) = Claimed /\ \A p \in Ops \ {pass.op} : Op(p)' = Op(p)
    BY <1>4, <2>2, OpWritten DEF Claims
  <2>4. Covers(Op(pass.op), Claimed)
    BY <2>2 DEF Claimed, OpsObj, Covers
  <2>5. \A p \in Ops : p = pass.op => Op(p)' = Claimed
    BY <2>3 DEF Op
  <2> QED BY <1>0, <2>3, <2>4, <2>5
<1>5. CASE UserAsks
  <2>1. PICK o \in DOMAIN Action, w \in OpsObj : Asks(o, w)
    BY <1>5 DEF UserAsks, Asks
  <2>2. /\ o \in Ops /\ SameStatus(w, Op(o)) /\ Op(o)' = w
        /\ \A p \in Ops \ {o} : Op(p)' = Op(p)
    BY <2>1, AsksFacts
  <2>3. Covers(Op(o), w)
    BY <2>2, CoversSame
  <2> QED BY <2>2, <2>3, CoversOthers
<1>6. CASE TimeGoes
  <2>1. PICK o \in DOMAIN Action, g \in [OpsObj -> OpsObj] :
          /\ Ages(g) /\ Ticks(o, g)
          /\ \/ g = LeaseClock /\ Settled
             \/ g = GraceClock /\ Settled
             \/ \E s \in WorkSteps : g = DeadlineClock(s)
    BY <1>6, AgesType DEF TimeGoes, LeaseExpires, GraceOver
  <2>2. o \in Ops /\ Op(o) \in OpsObj
    BY <1>0, OpEnds
  <2>3. Op(o)' = g[Op(o)] /\ \A p \in Ops \ {o} : Op(p)' = Op(p)
    BY <2>1, TickMoves
  <2>4. g[Op(o)].phase = Op(o).phase /\ g[Op(o)].step = Op(o).step
    BY <2>1, <2>2 DEF Ages
  <2>5. Covers(Op(o), g[Op(o)])
    <3>1. CASE g = LeaseClock /\ Settled
      BY <2>2, <2>4, <3>1, LeaseAges DEF Covers
    <3>2. CASE g = GraceClock /\ Settled
      BY <2>2, <2>4, <3>2, GraceAges DEF Covers
    <3>3. ASSUME NEW s \in WorkSteps, g = DeadlineClock(s) PROVE Covers(Op(o), g[Op(o)])
      <4>1. g[Op(o)].claim = Op(o).claim /\ g[Op(o)].settled = Op(o).settled
        BY <2>2, <3>3, DeadlineKeeps
      <4> QED BY <2>4, <4>1 DEF Covers
    <3> QED BY <2>1, <3>1, <3>2, <3>3
  <2> QED BY <2>2, <2>3, <2>5, CoversOthers
<1> QED BY <1>1, <1>2, <1>3, <1>4, <1>5, <1>6 DEF Kinds, Rests, Reads, Stops, TakesLock, Waits,
      Calls, GivesBack, Advances, WalksOn, ClusterMoves, Restarts, CpMoves

\* An attempt that shows goes on showing, and an operation it covers stays covered.
LEMMA CoveredStays ==
  ASSUME NEW v, NEW w, Covers(v, w), attempts = 1, Shows => Shows',
         ActAt(v, Shows)
  PROVE  ActAt(w, Shows')
<1>1. Settled => Shows
  BY DEF Settled, Shows
<1> QED BY <1>1 DEF Covers, ActAt

\* A write of the Activate's pass lands.
LEMMA ActLands ==
  ASSUME TypeInv, StepInv, Lands, Action[pass.op] = "Activate", ActPass(pass, attempts),
         attempts = 1, ActAt(Op(pass.op), Shows)
  PROVE  ActAt(Stored(opsLog'[pass.op]), Shows)
<1> DEFINE v == Op(pass.op)
           w == Stored(opsLog'[pass.op])
<1>0. /\ pass.pc = "write" /\ pass.do \in Doings
      /\ WriteFits(pass.do, pass.arg, pass.then, pass.op, pass.obj)
      /\ InStep(pass, v) /\ SameStatus(pass.obj, v)
      /\ Mutates(v, w, pass.do, pass.arg, v, pass.list)
  BY LandedStep DEF Lands, At
<1> SUFFICES ActAt(w, Shows)
  OBVIOUS
<1>1. ActAt(v, Shows)
  OBVIOUS
<1> HIDE DEF v, w
<1>2. ~Terminal(v.phase) /\ v.step # "" /\ pass.obj.step = v.step
  BY <1>0, <1>1 DEF InStep, SameStatus, ActAt
<1>3. ~Rolls(pass.op)
  BY DEF Rolls
<1>4. CASE pass.do \in {"hold", "note"}
  <2>1. SameStep(v, w)
    BY <1>0, <1>4 DEF Mutates
  <2> QED BY <1>1, <1>2, <2>1 DEF ActAt, SameStep
<1>5. CASE pass.do = "record"
  <2>1. w.step = pass.arg /\ ~w.settled /\ pass.arg \in {"Requesting", "Awaiting"}
    BY <1>0, <1>5 DEF Mutates, Entered, WriteFits, StepsOf
  <2>2. pass.arg # "Requesting"
    BY <1>0, <1>2, <1>5 DEF ActPass
  <2> QED BY <2>1, <2>2 DEF ActAt
<1>6. CASE pass.do = "finish"
  BY <1>0, <1>6 DEF Mutates, WriteFits, ActAt, Terminal
<1>7. pass.do # "retry"
  <2>1. attempts # 0
    OBVIOUS
  <2> QED BY <1>0, <2>1 DEF ActPass
<1>8. pass.do # "run"
  BY <1>0, <1>2 DEF InStep
<1>9. pass.do \notin {"plan", "next", "walked"}
  BY <1>0, <1>3 DEF WriteFits
<1> QED BY <1>0, <1>4, <1>5, <1>6, <1>7, <1>8, <1>9 DEF Doings

\* The pass of the Activate asks only when no attempt is left.
LEMMA ActPosts ==
  ASSUME TypeInv, StepInv, Aware, Lone, ActInv, Kinds, UNCHANGED env,
         NEW o \in DOMAIN Action, Action[o] = "Activate", pass'.op = o
  PROVE  ActPass(pass', attempts')
<1> USE DEF cpVars
<1>0. /\ attempts = 0 \/ (attempts = 1 /\ ActAt(Op(o), Shows))
      /\ clJob = "none" /\ (pass.op = o => ActPass(pass, attempts)) /\ ~Rolls(o)
  BY DEF ActInv, Rolls
<1>1. CASE Rests \/ Delivers \/ TimeGoes \/ UserAsks \/ ClusterMoves \/ CpMoves
  <2>1. Steady
    BY <1>1, SteadyKinds
  <2>2. ActPass(pass, attempts)
    BY <1>0, <2>1 DEF Steady
  <2>3. ~Calls
    BY <2>1, IdleSpot DEF Steady, Calls, Called, At, Sent
  <2>4. attempts \in {0, 1}
    BY <1>0
  <2>5. attempts' \in {0, attempts}
    BY <1>0, <2>3, <2>4, AttemptsTurn
  <2>6. pass'.pc \in {"claim", "call"} => pass'.obj.claim = pass.obj.claim
    BY <1>1, <2>1, ClaimSteady DEF Steady
  <2>7. attempts = 0 => attempts' = 0
    BY <2>5
  <2> QED BY <2>1, <2>2, <2>6, <2>7 DEF ActPass, Steady, SameSpot
<1> SUFFICES ASSUME ~(Rests \/ Delivers \/ TimeGoes \/ UserAsks \/ ClusterMoves \/ CpMoves)
             PROVE  ActPass(pass', attempts')
  BY <1>1
<1>2. CASE Stops \/ Finalizes \/ Restarts \/ Reads \/ GivesBack
  BY <1>2, IdleSpot DEF Stops, Finalizes, Restarts, Reads, ReadAs, GivesBack, Releases, GoesTo, ActPass
<1>3. CASE TakesLock \/ Waits \/ Calls \/ Lands
  BY <1>3, IdleSpot DEF TakesLock, Locks, Waits, Calls, Called, Lands, GoesOn, WriteFits, Sent, GoesTo, ActPass
<1>4. CASE Claims
  <2>1. pass.op = o /\ pass.pc = "claim" /\ pass.obj.claim # "live" /\ UNCHANGED attempts
        /\ pass'.pc = "call" /\ pass'.obj = Claimed
    BY <1>4 DEF Claims, At, Still
  <2>2. attempts = 0
    BY <1>0, <2>1 DEF ActPass
  <2>3. Claimed.claim = "live"
    <3>1. Op(o) \in OpsObj
      BY TypeParts, EnvType, OpEnds
    <3> QED BY <2>1, <3>1 DEF Claimed, OpsObj
  <2> QED BY <2>1, <2>2, <2>3 DEF ActPass
<1>5. CASE WalksOn
  <2>1. Rolls(pass.op)
    BY <1>5, PassFields DEF WalksOn, At, PassFits
  <2>2. pass.op # o
    BY <1>0, <2>1
  <2>3. pass' = Idle
    BY <1>5, <2>2 DEF WalksOn, Walked, Leaves, Sent, GoesTo, Held
  <2> QED BY <2>3, IdleSpot DEF ActPass
<1>6. CASE Advances
  <2>0. pass.pc = "step" /\ ~At("idle") /\ Advanced /\ UNCHANGED attempts /\ clSeen = cl
    BY <1>6 DEF Advances, At, Still, StreamsPrompt, Aware
  <2>1. CASE pass' = Idle
    BY <2>1, IdleSpot DEF ActPass
  <2> SUFFICES ASSUME pass' # Idle PROVE ActPass(pass', attempts)
    BY <2>0, <2>1
  <2>2. Held /\ pass.op = o
    BY <2>0 DEF Advanced, Sent, GoesTo, Walks, Held
  <2>3. SameStatus(pass.obj, Op(o)) /\ ~Terminal(Op(o).phase) /\ Fits(o, pass.obj)
    BY <2>0, <2>2, PassFields DEF StepInv, InStep, SameStatus
  <2>4. attempts # 0 => ActAt(Op(o), Shows)
    BY <1>0
  <2>5. CASE pass'.pc = "write" /\ pass'.do = "retry"
    <3>1. pass.obj.step = "Awaiting" /\ LostAttempt(pass.obj)
      BY <2>0, <2>5, IdleSpot DEF Advanced, Sent, GoesTo, Walks
    <3>2. ~Shows /\ pass.obj.settled
      BY <2>0, <3>1 DEF LostAttempt, Shows
    <3>3. ~ActAt(Op(o), Shows)
      BY <2>3, <3>1, <3>2 DEF ActAt, SameStatus
    <3> QED BY <2>4, <2>5, <3>3 DEF ActPass
  <2>6. CASE pass'.pc = "claim"
    <3>1. /\ pass.obj.step \in {"Requesting", "ShuttingDown", "Starting"}
          /\ clSeen.status # "in_activation"
      BY <2>0, <2>2, <2>6, IdleSpot DEF Advanced, Sent, GoesTo, Walks
    <3>2. pass.obj.step = "Requesting" /\ ~Shows
      BY <2>0, <2>3, <3>1 DEF Fits, StepsOf, Shows
    <3>3. pass.obj.claim # "live" => ~ActAt(Op(o), Shows)
      BY <2>3, <3>2 DEF ActAt, SameStatus
    <3> QED BY <2>2, <2>4, <2>6, <3>3 DEF ActPass, Held
  <2>7. CASE pass'.pc = "write" /\ pass'.do = "record"
    <3>1. NextStep("Requesting") # "Requesting" /\ NextStep("ShuttingDown") # "Requesting"
      BY DEF NextStep
    <3>2. pass'.arg = "Requesting" => pass.obj.step = ""
      BY <2>0, <2>7, <3>1, IdleSpot DEF Advanced, Sent, GoesTo, Walks
    <3> QED BY <2>2, <2>7, <3>2 DEF ActPass, Held
  <2> QED BY <2>0, <2>5, <2>6, <2>7, IdleSpot DEF Advanced, Sent, GoesTo, Walks, ActPass
<1> QED BY <1>2, <1>3, <1>4, <1>5, <1>6 DEF Kinds

\* The Activate covers the attempt it asked for.
LEMMA ActCovers ==
  ASSUME TypeInv, StepInv, Lone, ActInv, Kinds, UNCHANGED env,
         NEW o \in DOMAIN Action, Action[o] = "Activate"
  PROVE  clJob' = "none" /\ (attempts' = 0 \/ (attempts' = 1 /\ ActAt(Op(o)', Shows')))
<1>0. /\ attempts = 0 \/ (attempts = 1 /\ ActAt(Op(o), Shows))
      /\ clJob = "none" /\ (pass.op = o => ActPass(pass, attempts))
  BY DEF ActInv
<1>1. attempts \in {0, 1}
  BY <1>0
<1>2. /\ clJob' = "none"
      /\ \/ Calls /\ pass.op = o /\ attempts' = attempts + 1
         \/ attempts' = 0
         \/ attempts' = attempts /\ (Shows => Shows')
  BY <1>0, <1>1, AttemptsTurn
<1>3. CASE Calls /\ pass.op = o /\ attempts' = attempts + 1
  <2>1. pass.pc = "call" /\ ~At("idle") /\ UNCHANGED opsLog /\ pass.obj.step = "Requesting"
    BY <1>3, AloneCalls DEF Calls, At
  <2>2. attempts = 0 /\ pass.obj.claim = "live"
    BY <1>0, <1>3, <2>1 DEF ActPass
  <2>3. attempts' = 1
    BY <1>3, <2>2
  <2>4. Op(o)' = Op(o) /\ SameStatus(pass.obj, Op(o))
    BY <1>3, <2>1 DEF Op, StepInv, InStep
  <2>5. ActAt(Op(o)', Shows')
    BY <2>1, <2>2, <2>4 DEF ActAt, SameStatus
  <2> QED BY <1>2, <2>3, <2>5
<1>4. CASE attempts = 1 /\ attempts' = attempts /\ (Shows => Shows')
  <2>0. ActAt(Op(o), Shows) /\ o \in Ops
    BY <1>0, <1>4, TypeParts, EnvType
  <2>1. CASE Lands /\ pass.op = o
    <3>1. Shows' <=> Shows
      BY <2>1 DEF Lands, Still, cpVars, streams, Shows
    <3>2. Op(o)' = Stored(opsLog'[pass.op])
      BY <2>0, <2>1, LandedStep
    <3>3. ActAt(Stored(opsLog'[pass.op]), Shows)
      BY <1>0, <1>4, <2>0, <2>1, ActLands
    <3>4. ActAt(Op(o)', Shows')
      BY <3>1, <3>2, <3>3 DEF ActAt
    <3> QED BY <1>2, <1>4, <3>4
  <2>2. CASE Covers(Op(o), Op(o)')
    <3>1. ActAt(Op(o)', Shows')
      BY <1>4, <2>0, <2>2, CoveredStays
    <3> QED BY <1>2, <1>4, <3>1
  <2>3. CASE Lands /\ pass.op # o
    <3>1. Op(o)' = Op(o)
      BY <2>0, <2>3, LandedStep
    <3> QED BY <2>2, <3>1, CoversSame DEF SameStatus
  <2> QED BY <2>1, <2>2, <2>3, OpsCovered
<1> QED BY <1>0, <1>2, <1>3, <1>4

\* Nothing but an Activate asks for an activation.
LEMMA AttemptsNone ==
  ASSUME TypeInv, Kinds, \A o \in DOMAIN Action : Action[o] # "Activate", attempts = 0
  PROVE  attempts' = 0
<1> USE DEF cpVars
<1>0. cl.status # "in_activation"
  <2>1. ~(attempts > 0)
    OBVIOUS
  <2> QED BY <2>1, TypeParts DEF CpOK, Tally, Counted
<1>1. CASE UNCHANGED attempts
  BY <1>1
<1>2. CASE Calls
  <2>1. Action[pass.op] # "Activate"
    BY <1>2, PassFields DEF Calls, At
  <2> QED BY <1>1, <1>2, <2>1 DEF Calls, NodeCall, ClusterCall
<1>3. CASE CpMoves
  BY <1>0, <1>1, <1>3 DEF CpMoves, CpCluster, CpRebalanced, StreamCluster, CpNodeBegins, CpNodeEnds,
       CpFault, CpRemoves, NodeBecomes, PodMoves, StreamNode
<1> QED BY <1>1, <1>2, <1>3 DEF Kinds, Rests, Reads, Stops, Finalizes, TakesLock, Waits, Claims, Lands,
         GivesBack, Advances, WalksOn, Delivers, TimeGoes, Ticks, UserAsks, ClusterMoves, Restarts, Still

LEMMA ActNext ==
  ASSUME TypeInv, StepInv, Aware, Lone, ActInv, [Next]_vars
  PROVE  ActInv'
<1>0. Kinds /\ UNCHANGED env
  BY StepKinds
<1>1. ASSUME NEW o \in DOMAIN Action, Action[o] = "Activate"
      PROVE  /\ attempts' = 0 \/ (attempts' = 1 /\ ActAt(Op(o)', Shows'))
             /\ clJob' = "none"
             /\ pass'.op = o => ActPass(pass', attempts')
  BY <1>0, <1>1, ActCovers, ActPosts
<1>2. (\A o \in DOMAIN Action : Action[o] # "Activate") => attempts' = 0
  BY <1>0, AttemptsNone DEF ActInv
<1>3. Action' = Action
  BY <1>0 DEF Action
<1> QED BY <1>1, <1>2, <1>3 DEF ActInv

\* OneActivation (ClusterOps): the control plane never runs two activations side by side,
\* however often the operator restarts, whatever calls lose their answers and activations
\* fail, and whatever the cluster object's cache lags (once, awaitActivation,
\* retryActivation): the claim covers an attempt until it shows, and the grace after.  It
\* needs a cluster stream that keeps up, which no clock of the code waits for; operations
\* read when they are current; no other operation that touches the cluster's status; and a
\* control plane that begins an attempt it accepted before the lease and the grace are over
\* (Settled).
THEOREM OneActivates == Spec => [](Aware /\ Lone => OneActivation)
<1>1. Init => (Aware /\ Lone => ActInv)
  <2> SUFFICES ASSUME Init PROVE ActInv
    OBVIOUS
  <2>1. pass.pc = "idle" /\ clJob = "none" /\ attempts = 0
    BY IdleSpot DEF Init
  <2> QED BY <2>1 DEF ActInv, ActPass
<1>2. TypeInv /\ (Prompt => CoreInv) /\ (Aware /\ Lone => ActInv) /\ [Next]_vars
        => (Aware /\ Lone => ActInv)'
  <2> SUFFICES ASSUME TypeInv, Prompt => CoreInv, Aware /\ Lone => ActInv, [Next]_vars,
                      Aware', Lone'
               PROVE  ActInv'
    OBVIOUS
  <2>1. Aware /\ Lone
    BY StepKinds DEF Aware, Prompt, Lone, May, Action
  <2> QED BY <2>1, ActNext DEF CoreInv, Aware
<1>3. TypeInv /\ (Aware /\ Lone => ActInv) => (Aware /\ Lone => OneActivation)
  <2> SUFFICES ASSUME ActInv PROVE attempts <= 1
    BY DEF OneActivation
  <2>1. attempts = 0 \/ attempts = 1
    BY DEF ActInv
  <2> QED BY <2>1
<1> QED BY <1>1, <1>2, <1>3, TypeInvariant, CoreInvariant, PTL DEF Spec
===============================================================================
