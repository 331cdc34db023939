----------------------------- MODULE NodeOpsProofs -----------------------------
(***************************************************************************)
(* Proofs about NodeOps, for every set of operations, every lag and any    *)
(* number of crashes.                                                      *)
(***************************************************************************)
EXTENDS NodeOps, InformerProofs

-------------------------------------------------------------------------------
(* The operators the model is built from.                                  *)

\* A status mutation returns an operation object.
LEMMA MutateType ==
  ASSUME NEW v \in OpsObj, NEW read \in OpsObj,
         NEW do \in Writes, NEW arg \in Steps \cup Phases, WellFormed(do, arg)
  PROVE  Mutate(v, do, arg, read) \in OpsObj
<1>1. CASE do = "run"
  BY <1>1 DEF Mutate, OpsObj, Phases
<1>2. CASE do = "hold"
  BY <1>2 DEF Mutate, OpsObj, Phases
<1>3. CASE do = "note"
  BY <1>3 DEF Mutate
<1>4. CASE do = "wait"
  BY <1>4 DEF Mutate, SnapshotOf, OpsObj, Leases
<1>5. CASE do = "record"
  BY <1>5 DEF Mutate, WellFormed, OpsObj, Phases, Leases
<1>6. CASE do = "finish"
  BY <1>6 DEF Mutate, WellFormed, OpsObj, Steps, Leases
<1> QED
  BY <1>1, <1>2, <1>3, <1>4, <1>5, <1>6 DEF WellFormed, Writes

\* So does copying the status of one object into another, and the two clocks.
LEMMA ObjTypes ==
  /\ NewOp \in OpsObj /\ GoneOp \in OpsObj /\ Idle \in PassObj
  /\ \A w, v \in OpsObj : WithStatus(w, v) \in OpsObj
  /\ \A v \in OpsObj : Expired(v) \in OpsObj
  /\ \A v \in OpsObj, s \in Steps : Overdue(v, s) \in OpsObj
<1>1. NewOp \in OpsObj /\ GoneOp \in OpsObj
  BY DEF NewOp, GoneOp, OpsObj, Steps, Phases, Leases
<1>2. Idle \in PassObj
  BY <1>1 DEF Idle, PassObj, Steps, Writes
<1>3. \A w, v \in OpsObj : WithStatus(w, v) \in OpsObj
  BY DEF WithStatus, OpsObj
<1>4. \A v \in OpsObj : Expired(v) \in OpsObj
  BY DEF Expired, OpsObj, Leases
<1>5. \A v \in OpsObj, s \in Steps : Overdue(v, s) \in OpsObj
  BY DEF Overdue, OpsObj
<1> QED
  BY <1>1, <1>2, <1>3, <1>4, <1>5

\* A step of a graph leads to a step of the API.
LEMMA NextStepType == \A a \in Actions, s \in Steps : NextStep(a, s) \in Steps
  BY DEF NextStep, Steps

-------------------------------------------------------------------------------
(* Type correctness: one lemma per piece of a pass, then one per action.   *)

LogsOK ==
  /\ opsLog \in [Ops -> Seq(OpsObj)]
  /\ \A o \in Ops : Len(opsLog[o]) \in 1..(MaxLag + 1)

NodeLogOK == nodeLog \in Seq(NodeObj) /\ Len(nodeLog) \in 1..(MaxLag + 1)

PassOK ==
  /\ pass \in PassObj
  /\ ~At("idle") => pass.op \in Ops
  /\ At("write") => WellFormed(pass.do, pass.arg)

CpOK ==
  /\ cp \in NodeStatuses /\ seen \in NodeStatuses
  /\ job \in Actions \cup {"none"}

\* TypeOK is these parts.
LEMMA TypeParts ==
  TypeOK <=> /\ LogsOK /\ NodeLogOK /\ queue \subseteq Ops /\ PassOK /\ CpOK
             /\ callState \in [Ops -> Leases] /\ crashes \in 0..MaxCrashes
  BY DEF TypeOK, LogsOK, NodeLogOK, PassOK, CpOK

\* And so it is after a step.
LEMMA TypePartsNext ==
  ASSUME LogsOK', NodeLogOK', queue' \subseteq Ops, PassOK', CpOK',
         callState' \in [Ops -> Leases], crashes' \in 0..MaxCrashes
  PROVE  TypeOK'
  BY DEF TypeOK, LogsOK, NodeLogOK, PassOK, CpOK

\* A pass that ends leaves an idle worker.
LEMMA EndOK ==
  ASSUME PassOK, queue \subseteq Ops, ~At("idle"), NEW r \in BOOLEAN, End(r)
  PROVE  PassOK' /\ queue' \subseteq Ops
  BY ObjTypes DEF PassOK, End, At, Idle

\* A pass that goes on to another read keeps its operation.
LEMMA GotoOK ==
  ASSUME PassOK, ~At("idle"), NEW pc \in {"step", "claim", "drop"}, Goto(pc)
  PROVE  PassOK'
  BY DEF PassOK, Goto, At, PassObj

\* A pass that goes on to write keeps its operation and knows what to write.
LEMMA WriteThenOK ==
  ASSUME PassOK, ~At("idle"), NEW do \in Writes, NEW arg \in Steps \cup Phases,
         NEW then \in {"step", "requeue", "release", "refuse"},
         WellFormed(do, arg), WriteThen(do, arg, then)
  PROVE  PassOK'
  BY DEF PassOK, WriteThen, At, PassObj

\* A message write either is made or ends the pass.
LEMMA SayOK ==
  ASSUME PassOK, queue \subseteq Ops, ~At("idle"),
         NEW do \in {"hold", "note", "wait"}, Say(do)
  PROVE  PassOK' /\ queue' \subseteq Ops
<1>1. CASE WriteThen(do, "", "requeue") /\ UNCHANGED queue
  BY <1>1, WriteThenOK DEF Writes, Steps, WellFormed
<1>2. CASE End(TRUE)
  BY <1>2, EndOK
<1> QED
  BY <1>1, <1>2 DEF Say

\* The three writes a step of an action can decide on.
LEMMA DecideOK ==
  ASSUME PassOK, ~At("idle"),
         \/ \E s \in Steps : Record(s)
         \/ \E ph \in Phases : Finish(ph)
         \/ Refuse
  PROVE  PassOK'
<1>1. ASSUME NEW s \in Steps, Record(s) PROVE PassOK'
  BY <1>1, WriteThenOK DEF Record, Writes, WellFormed
<1>2. ASSUME NEW ph \in Phases, Finish(ph) PROVE PassOK'
  BY <1>2, WriteThenOK DEF Finish, Writes, WellFormed
<1>3. CASE Refuse
  BY <1>3, WriteThenOK DEF Refuse, Writes, WellFormed, Phases
<1> QED
  BY <1>1, <1>2, <1>3

\* A write of one operation that lands keeps every log a log.
LEMMA OpsWriteOK ==
  ASSUME LogsOK, MaxLag \in Nat, NEW o \in Ops, NEW v \in OpsObj,
         Room(opsLog[o], MaxLag),
         opsLog' = [opsLog EXCEPT ![o] = Written(@, v)]
  PROVE  LogsOK'
<1>1. /\ Written(opsLog[o], v) \in Seq(OpsObj)
      /\ Len(Written(opsLog[o], v)) = Len(opsLog[o]) + 1
  BY LogWritten DEF LogsOK
<1> QED
  BY <1>1 DEF LogsOK, Room

\* So does a write of the node.
LEMMA NodeWriteOK ==
  ASSUME NodeLogOK, MaxLag \in Nat, NEW v \in NodeObj, Room(nodeLog, MaxLag),
         nodeLog' = Written(nodeLog, v)
  PROVE  NodeLogOK'
  BY LogWritten DEF NodeLogOK, Room

\* A patch that lands finds the cache current, and leaves it one version behind.
LEMMA PatchHasRoom ==
  ASSUME NodeLogOK, PatchLands(nodeLog) PROVE Room(nodeLog, MaxLag)
  BY NodeOpsAssumption DEF PatchLands, Current, Room

\* The read that begins a pass hands it an object of the cache.
LEMMA ReconcileOK ==
  ASSUME TypeOK, NEW o \in Ops, Reconcile(o)
  PROVE  PassOK' /\ queue' \subseteq Ops
<1> DEFINE v == Cached(opsLog[o])
<1>1. v \in OpsObj
  BY LogEnds DEF TypeOK
<1>2. queue' \subseteq Ops
  BY DEF Reconcile, TypeOK
<1>3. CASE pass' = pass
  BY <1>2, <1>3, TypeParts DEF PassOK, At
<1>4. CASE pass' = [Idle EXCEPT !.op = o, !.obj = v, !.fresh = Current(opsLog[o]),
                      !.then = IF v.deleted THEN "drop" ELSE "end", !.pc = Entry(v)]
  <2>1. Entry(v) \in {"release", "finalizer", "lock"}
    BY DEF Entry
  <2>2. Current(opsLog[o]) \in BOOLEAN
    BY DEF Current
  <2>3. Idle \in PassObj
    BY ObjTypes
  <2> HIDE DEF v
  <2>4. pass' \in PassObj /\ pass'.op = o /\ pass'.pc = Entry(v)
    BY <1>1, <1>4, <2>1, <2>2, <2>3 DEF PassObj
  <2> QED
    BY <1>2, <2>1, <2>4 DEF PassOK, At
<1> QED
  BY <1>3, <1>4 DEF Reconcile

\* The finalizer is added to an object.
LEMMA AddFinalizerOK ==
  ASSUME TypeOK, AddFinalizer
  PROVE  LogsOK' /\ PassOK' /\ queue' \subseteq Ops
<1> USE TypeParts
<1>1. ~At("idle") /\ pass.op \in Ops /\ MaxLag \in Nat
  BY NodeOpsAssumption DEF AddFinalizer, At, PassOK
<1>2. [pass.obj EXCEPT !.finalizer = TRUE] \in OpsObj
  BY DEF PassOK, PassObj, OpsObj
<1>3. LogsOK'
  BY <1>1, <1>2, OpsWriteOK DEF AddFinalizer, Land, LogsOK
<1>4. PassOK' /\ queue' \subseteq Ops
  BY <1>1, EndOK DEF AddFinalizer
<1> QED
  BY <1>3, <1>4

\* The lock patch writes a node object, and the pass has its next move.
LEMMA AcquireLockOK ==
  ASSUME TypeOK, AcquireLock
  PROVE  NodeLogOK' /\ PassOK' /\ queue' \subseteq Ops
<1> USE TypeParts
<1> DEFINE node == Cached(nodeLog)
           go == IF pass.obj.phase \in {"", "Pending"}
                   THEN WriteThen("run", "", "step") ELSE Goto("step")
<1>1. ~At("idle") /\ pass.op \in Ops /\ MaxLag \in Nat
  BY NodeOpsAssumption DEF AcquireLock, At, PassOK
<1>2. node \in NodeObj
  BY LogEnds DEF NodeLogOK
<1>3. [node EXCEPT !.lock = pass.op] \in NodeObj
  BY <1>1, <1>2 DEF NodeObj
<1>4. ASSUME go PROVE PassOK'
  BY <1>1, <1>4, WriteThenOK, GotoOK DEF Writes, Steps, WellFormed
<1>5. NodeLogOK'
  BY <1>1, <1>3, NodeWriteOK, PatchHasRoom DEF AcquireLock, NodeLogOK
<1>6. CASE Refuse /\ UNCHANGED queue
  BY <1>5, <1>1, <1>6, DecideOK
<1>7. CASE Say("hold")
  BY <1>5, <1>1, <1>7, SayOK
<1>8. CASE go /\ UNCHANGED queue
  BY <1>5, <1>4, <1>8
<1>9. CASE End(TRUE)
  BY <1>5, <1>1, <1>9, EndOK
<1> QED
  BY <1>5, <1>6, <1>7, <1>8, <1>9 DEF AcquireLock

\* Every decision of advance is a move of the pass.
LEMMA AdvanceOK ==
  ASSUME TypeOK, Advance
  PROVE  PassOK' /\ queue' \subseteq Ops
<1> USE TypeParts
<1>1. ~At("idle") /\ pass.op \in Ops
  BY DEF Advance, At, PassOK
<1>2. \A s \in Steps : NextStep(Action[pass.op], s) \in Steps
  BY <1>1, NodeOpsAssumption, NextStepType
<1>3. CASE (\E s \in Steps : Record(s)) /\ UNCHANGED queue
  BY <1>1, <1>3, DecideOK
<1>4. CASE (\E ph \in Phases : Finish(ph)) /\ UNCHANGED queue
  BY <1>1, <1>4, DecideOK
<1>5. CASE Goto("claim") /\ UNCHANGED queue
  BY <1>1, <1>5, GotoOK
<1>6. CASE Say("wait") \/ Say("note")
  BY <1>1, <1>6, SayOK
<1>7. CASE Perform
  BY <1>2, <1>3, <1>4, <1>5, <1>6, <1>7 DEF Perform, Steps, Phases
<1> QED
  BY <1>3, <1>4, <1>6, <1>7 DEF Advance, Steps, Phases

\* The claim is patched onto the stored object.
LEMMA ClaimOK ==
  ASSUME TypeOK, Claim
  PROVE  LogsOK' /\ PassOK' /\ queue' \subseteq Ops
<1> USE TypeParts
<1> DEFINE v == [Stored(opsLog[pass.op]) EXCEPT !.claim = "live"]
<1>1. ~At("idle") /\ pass.op \in Ops /\ MaxLag \in Nat
  BY NodeOpsAssumption DEF Claim, At, PassOK
<1>2. v \in OpsObj
  <2>1. Stored(opsLog[pass.op]) \in OpsObj
    BY <1>1, LogEnds DEF LogsOK
  <2> QED
    BY <2>1 DEF OpsObj, Leases
<1>3. CASE (Say("wait") \/ Say("note")) /\ UNCHANGED opsLog
  BY <1>1, <1>3, SayOK DEF LogsOK
<1>4. CASE /\ Land(v)
           /\ pass' = [pass EXCEPT !.obj = v, !.pc = "call"]
           /\ UNCHANGED queue
  <2> HIDE DEF v
  <2>1. LogsOK'
    BY <1>1, <1>2, <1>4, OpsWriteOK DEF Land
  <2>2. PassOK'
    BY <1>1, <1>2, <1>4 DEF PassOK, PassObj, At
  <2> QED
    BY <1>4, <2>1, <2>2
<1> QED
  BY <1>3, <1>4 DEF Claim

\* The call records a lease and decides on a write.
LEMMA CallOK ==
  ASSUME TypeOK, Call
  PROVE  /\ PassOK' /\ queue' \subseteq Ops
         /\ job' \in Actions \cup {"none"}
         /\ callState' \in [Ops -> Leases]
<1> USE TypeParts
<1>1. ~At("idle") /\ pass.op \in Ops /\ Action[pass.op] \in Actions
  BY NodeOpsAssumption DEF Call, At, PassOK
<1>2. pass.obj.step \in Steps /\ pass.obj.claim \in Leases
  BY DEF PassOK, PassObj, OpsObj
<1>3. NextStep(Action[pass.op], pass.obj.step) \in Steps
  BY <1>1, <1>2, NextStepType
<1>4. job' \in Actions \cup {"none"} /\ callState' \in [Ops -> Leases]
  BY <1>1, <1>2 DEF Call, CpOK
<1>5. PassOK' /\ queue' \subseteq Ops
  BY <1>1, <1>3, DecideOK, SayOK DEF Call
<1> QED
  BY <1>4, <1>5

\* A status write lands an object, whichever version it was computed from.
LEMMA WriteStatusOK ==
  ASSUME TypeOK, WriteStatus
  PROVE  LogsOK' /\ PassOK' /\ queue' \subseteq Ops
<1> USE TypeParts
<1> DEFINE log == opsLog[pass.op]
           base == IF pass.fresh THEN pass.obj ELSE Cached(log)
           v == Mutate(base, pass.do, pass.arg, pass.obj)
<1>1. ~At("idle") /\ pass.op \in Ops /\ MaxLag \in Nat
  BY NodeOpsAssumption DEF WriteStatus, At, PassOK
<1>2. Stored(log) \in OpsObj /\ Cached(log) \in OpsObj
  BY <1>1, LogEnds DEF LogsOK
<1>3. pass.obj \in OpsObj /\ pass.do \in Writes /\ pass.arg \in Steps \cup Phases
  BY DEF PassOK, PassObj
<1>4. WellFormed(pass.do, pass.arg)
  BY DEF WriteStatus, PassOK
<1>5. v \in OpsObj
  BY <1>2, <1>3, <1>4, MutateType
<1>6. WithStatus(Stored(log), v) \in OpsObj /\ WithStatus(pass.obj, v) \in OpsObj
  BY <1>2, <1>3, <1>5, ObjTypes
<1>7. CASE Land(WithStatus(Stored(log), v)) /\ AfterWrite(v)
  <2> HIDE DEF v
  <2>1. LogsOK'
    BY <1>1, <1>6, <1>7, OpsWriteOK DEF Land
  <2>2. CASE End(TRUE)
    BY <1>1, <2>1, <2>2, EndOK
  <2>3. CASE ~End(TRUE)
    <3>1. /\ pass' = [pass EXCEPT !.obj = WithStatus(@, v), !.fresh = TRUE,
                  !.do = "", !.arg = "",
                  !.pc = IF pass.then = "step" THEN "step" ELSE "release",
                  !.then = IF pass.then = "refuse" THEN "retry" ELSE "end"]
          /\ UNCHANGED queue
      BY <1>7, <2>3 DEF AfterWrite
    <3>2. PassOK'
      <4>1. pass' \in PassObj
        <5>1. PICK pc \in {"step", "release"}, th \in {"retry", "end"} :
                pass' = [pass EXCEPT !.obj = WithStatus(@, v), !.fresh = TRUE,
                                     !.do = "", !.arg = "", !.pc = pc, !.then = th]
          BY <3>1
        <5>2. "" \in Writes /\ "" \in Steps
          BY DEF Writes, Steps
        <5> QED
          BY <1>1, <1>6, <5>1, <5>2 DEF PassOK, PassObj
      <4>2. pass'.op \in Ops /\ pass'.pc # "write"
        BY <1>1, <3>1 DEF PassOK, PassObj
      <4> QED
        BY <4>1, <4>2 DEF PassOK, At
    <3> QED
      BY <2>1, <3>1, <3>2
  <2> QED
    BY <2>2, <2>3
<1>8. CASE End(TRUE) /\ UNCHANGED opsLog
  BY <1>1, <1>8, EndOK DEF LogsOK
<1> QED
  BY <1>7, <1>8 DEF WriteStatus

\* The release writes a node object.
LEMMA ReleaseLockOK ==
  ASSUME TypeOK, ReleaseLock
  PROVE  NodeLogOK' /\ PassOK' /\ queue' \subseteq Ops
<1> USE TypeParts
<1> DEFINE node == Cached(nodeLog)
<1>1. ~At("idle") /\ pass.op \in Ops /\ MaxLag \in Nat
  BY NodeOpsAssumption DEF ReleaseLock, At, PassOK
<1>2. [node EXCEPT !.lock = NoOp] \in NodeObj
  <2>1. node \in NodeObj
    BY LogEnds DEF NodeLogOK
  <2> QED
    BY <2>1 DEF NodeObj
<1>3. NodeLogOK'
  BY <1>1, <1>2, NodeWriteOK, PatchHasRoom DEF ReleaseLock, NodeLogOK
<1>4. CASE Goto("drop") /\ UNCHANGED queue
  BY <1>1, <1>3, <1>4, GotoOK
<1>5. CASE \E r \in BOOLEAN : End(r)
  BY <1>1, <1>3, <1>5, EndOK
<1> QED
  BY <1>4, <1>5 DEF ReleaseLock

\* The end of teardown leaves the trace of a gone object.
LEMMA DropFinalizerOK ==
  ASSUME TypeOK, DropFinalizer
  PROVE  LogsOK' /\ PassOK' /\ queue' \subseteq Ops
<1> USE TypeParts
<1>1. ~At("idle") /\ pass.op \in Ops /\ MaxLag \in Nat
  BY NodeOpsAssumption DEF DropFinalizer, At, PassOK
<1>2. LogsOK'
  BY <1>1, OpsWriteOK, ObjTypes DEF DropFinalizer, Land, LogsOK
<1>3. PassOK' /\ queue' \subseteq Ops
  BY <1>1, EndOK DEF DropFinalizer
<1> QED
  BY <1>2, <1>3

\* A watch event of an operation leaves a non-empty log.
LEMMA DeliverOpOK ==
  ASSUME TypeOK, NEW o \in Ops, DeliverOp(o)
  PROVE  LogsOK' /\ queue' \subseteq Ops
<1>1. /\ Delivered(opsLog[o]) \in Seq(OpsObj)
      /\ Len(Delivered(opsLog[o])) = Len(opsLog[o]) - 1
  BY LogDelivered DEF DeliverOp, TypeOK
<1> QED
  BY <1>1, NodeOpsAssumption DEF DeliverOp, TypeOK, LogsOK

\* So does one of the node.
LEMMA DeliverNodeOK ==
  ASSUME TypeOK, DeliverNode
  PROVE  NodeLogOK' /\ queue' \subseteq Ops
  BY LogDelivered, NodeOpsAssumption DEF DeliverNode, TypeOK, NodeLogOK, operationsOn

\* The clock touches every copy of an object alike: any map of the versions of one
\* operation keeps its log a log.
LEMMA ClockOK ==
  ASSUME TypeOK, NEW o \in Ops, NEW f \in [OpsObj -> OpsObj],
         opsLog' = [opsLog EXCEPT ![o] = [i \in 1..Len(@) |-> f[@[i]]]],
         pass' = IF pass.op = o THEN [pass EXCEPT !.obj = f[@]] ELSE pass
  PROVE  LogsOK' /\ PassOK'
<1>1. /\ [i \in 1..Len(opsLog[o]) |-> f[opsLog[o][i]]] \in Seq(OpsObj)
      /\ Len([i \in 1..Len(opsLog[o]) |-> f[opsLog[o][i]]]) = Len(opsLog[o])
  BY DEF TypeOK
<1>2. LogsOK'
  BY <1>1 DEF TypeOK, LogsOK
<1>3. PassOK'
  BY DEF TypeOK, PassOK, PassObj, At
<1> QED
  BY <1>2, <1>3

\* An expiring lease changes leases only.
LEMMA LeaseExpiresOK ==
  ASSUME TypeOK, NEW o \in Ops, LeaseExpires(o)
  PROVE  LogsOK' /\ PassOK' /\ callState' \in [Ops -> Leases]
<1> DEFINE f == [v \in OpsObj |-> Expired(v)]
<1>1. f \in [OpsObj -> OpsObj]
  BY ObjTypes
<1>2. opsLog[o] \in Seq(OpsObj) /\ pass.obj \in OpsObj
  BY DEF TypeOK, PassObj
<1>3. \A i \in 1..Len(opsLog[o]) : f[opsLog[o][i]] = Expired(opsLog[o][i])
  BY <1>2
<1>4. opsLog' = [opsLog EXCEPT ![o] = [i \in 1..Len(@) |-> f[@[i]]]]
  BY <1>3 DEF LeaseExpires
<1>5. pass' = IF pass.op = o THEN [pass EXCEPT !.obj = f[@]] ELSE pass
  BY <1>2 DEF LeaseExpires
<1>6. callState' \in [Ops -> Leases]
  BY DEF LeaseExpires, TypeOK, Leases
<1> HIDE DEF f
<1> QED
  BY <1>1, <1>4, <1>5, <1>6, ClockOK

\* A passing deadline changes deadlines only.
LEMMA DeadlinePassesOK ==
  ASSUME TypeOK, NEW o \in Ops, NEW s \in Steps, DeadlinePasses(o, s)
  PROVE  LogsOK' /\ PassOK'
<1> DEFINE f == [v \in OpsObj |-> Overdue(v, s)]
<1>1. f \in [OpsObj -> OpsObj]
  BY ObjTypes
<1>2. opsLog[o] \in Seq(OpsObj) /\ pass.obj \in OpsObj
  BY DEF TypeOK, PassObj
<1>3. \A i \in 1..Len(opsLog[o]) : f[opsLog[o][i]] = Overdue(opsLog[o][i], s)
  BY <1>2
<1>4. opsLog' = [opsLog EXCEPT ![o] = [i \in 1..Len(@) |-> f[@[i]]]]
  BY <1>3 DEF DeadlinePasses
<1>5. pass' = IF pass.op = o THEN [pass EXCEPT !.obj = f[@]] ELSE pass
  BY <1>2 DEF DeadlinePasses
<1> HIDE DEF f
<1> QED
  BY <1>1, <1>4, <1>5, ClockOK

\* A write by the user lands as the pass looks away.
LEMMA UserWriteOK ==
  ASSUME TypeOK, NEW o \in Ops, SetAbort(o) \/ Delete(o)
  PROVE  LogsOK' /\ PassOK'
<1> DEFINE v == Stored(opsLog[o])
<1>1. v \in OpsObj
  BY LogEnds DEF TypeOK
<1>2. /\ [v EXCEPT !.abort = TRUE] \in OpsObj
      /\ [v EXCEPT !.deleted = TRUE] \in OpsObj
  BY <1>1 DEF OpsObj
<1> HIDE DEF v
<1>3. PICK w \in OpsObj : opsLog' = [opsLog EXCEPT ![o] = Written(@, w)]
  BY <1>2, ObjTypes DEF SetAbort, Delete, v
<1>4. Room(opsLog[o], MaxLag) /\ Disturb(o)
  BY DEF SetAbort, Delete
<1>5. LogsOK'
  BY <1>3, <1>4, TypeParts, OpsWriteOK, NodeOpsAssumption
<1>6. PassOK'
  BY <1>4, TypeParts DEF Disturb, PassOK, PassObj, At
<1> QED
  BY <1>5, <1>6

\* Other writers of the node write node objects.
LEMMA NodeWriteActionOK ==
  ASSUME TypeOK, NodeWrite
  PROVE  NodeLogOK'
<1>1. Stored(nodeLog) \in NodeObj
  BY LogEnds DEF TypeOK
<1>2. [kind |-> "gone", lock |-> NoOp] \in NodeObj
  BY DEF NodeObj
<1> QED
  BY <1>1, <1>2, NodeWriteOK, TypeParts, NodeOpsAssumption DEF NodeWrite

\* Every step of the controller and of its environment keeps every type.
LEMMA TypeStep == TypeOK /\ [Next]_vars => TypeOK'
<1> SUFFICES ASSUME TypeOK, [Next]_vars PROVE TypeOK'
  OBVIOUS
<1> USE TypeParts, TypePartsNext
<1>1. ASSUME NEW o \in Ops, Reconcile(o) PROVE TypeOK'
  BY <1>1, ReconcileOK DEF Reconcile, cpVars, history, LogsOK, NodeLogOK, CpOK
<1>2. CASE AddFinalizer
  BY <1>2, AddFinalizerOK DEF AddFinalizer, cpVars, history, NodeLogOK, CpOK
<1>3. CASE AcquireLock
  BY <1>3, AcquireLockOK DEF AcquireLock, cpVars, history, LogsOK, CpOK
<1>4. CASE Advance
  BY <1>4, AdvanceOK DEF Advance, cpVars, history, LogsOK, NodeLogOK, CpOK
<1>5. CASE Claim
  BY <1>5, ClaimOK DEF Claim, cpVars, history, NodeLogOK, CpOK
<1>6. CASE Call
  BY <1>6, CallOK DEF Call, LogsOK, NodeLogOK, CpOK
<1>7. CASE WriteStatus
  BY <1>7, WriteStatusOK DEF WriteStatus, cpVars, history, NodeLogOK, CpOK
<1>8. CASE ReleaseLock
  BY <1>8, ReleaseLockOK DEF ReleaseLock, cpVars, history, LogsOK, CpOK
<1>9. CASE DropFinalizer
  BY <1>9, DropFinalizerOK DEF DropFinalizer, cpVars, history, NodeLogOK, CpOK
<1>10. ASSUME NEW o \in Ops, DeliverOp(o) PROVE TypeOK'
  BY <1>10, DeliverOpOK DEF DeliverOp, cpVars, history, NodeLogOK, PassOK, At, CpOK
<1>11. ASSUME NEW o \in Ops, LeaseExpires(o) PROVE TypeOK'
  BY <1>11, LeaseExpiresOK DEF LeaseExpires, cpVars, NodeLogOK, CpOK
<1>12. ASSUME NEW o \in Ops, SetAbort(o) \/ Delete(o) PROVE TypeOK'
  BY <1>12, UserWriteOK DEF SetAbort, Delete, cpVars, history, NodeLogOK, CpOK
<1>13. ASSUME NEW o \in Ops, NEW s \in {"Requesting", "Departing", "Awaiting"},
              DeadlinePasses(o, s)
       PROVE  TypeOK'
  BY <1>13, DeadlinePassesOK
     DEF DeadlinePasses, cpVars, history, NodeLogOK, CpOK, Steps
<1>14. CASE DeliverNode
  BY <1>14, DeliverNodeOK DEF DeliverNode, cpVars, history, LogsOK, PassOK, At, CpOK
<1>15. CASE NodeWrite
  BY <1>15, NodeWriteActionOK
     DEF NodeWrite, cpVars, history, LogsOK, PassOK, At, CpOK
<1>16. CASE Crash
  <2>1. PassOK'
    BY <1>16, ObjTypes DEF Crash, PassOK, At, Idle
  <2>2. crashes' \in 0..MaxCrashes
    BY <1>16, NodeOpsAssumption DEF Crash
  <2>3. queue' \subseteq Ops
    BY <1>16 DEF Crash
  <2> QED
    BY <1>16, <2>1, <2>2, <2>3 DEF Crash, cpVars, LogsOK, NodeLogOK, CpOK
<1>17. CASE CpBegin \/ CpEnd \/ CpFault \/ Stream
  BY <1>17 DEF CpBegin, CpEnd, CpFault, Stream, history, LogsOK, NodeLogOK,
               PassOK, At, CpOK, Actions, NodeStatuses
<1>18. CASE UNCHANGED vars
  BY <1>18 DEF vars, LogsOK, NodeLogOK, PassOK, At, CpOK
<1> QED
  BY <1>1, <1>2, <1>3, <1>4, <1>5, <1>6, <1>7, <1>8, <1>9, <1>10, <1>11, <1>12,
     <1>13, <1>14, <1>15, <1>16, <1>17, <1>18
     DEF Next, Worker, PassStep, Environment

\* Every variable keeps its type, and a pass that reaches writeStatus has decided
\* on a mutation and its argument.
THEOREM TypeCorrect == Spec => []TypeOK
<1>1. Init => TypeOK
  <2> SUFFICES ASSUME Init PROVE TypeOK
    OBVIOUS
  <2>1. LogsOK
    BY NodeOpsAssumption, ObjTypes DEF Init, LogsOK
  <2>2. NodeLogOK
    BY NodeOpsAssumption DEF Init, NodeLogOK, NodeObj
  <2>3. PassOK
    BY ObjTypes DEF Init, PassOK, Idle, At
  <2> QED
    BY <2>1, <2>2, <2>3, TypeParts, NodeOpsAssumption
       DEF Init, CpOK, Leases, NodeStatuses
<1> QED
  BY <1>1, TypeStep, PTL DEF Spec
===============================================================================
