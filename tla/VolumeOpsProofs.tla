---------------------------- MODULE VolumeOpsProofs ----------------------------
(***************************************************************************)
(* Proofs about VolumeOps, for every set of operations and volumes, every  *)
(* environment, every lag and any number of crashes.                       *)
(***************************************************************************)
EXTENDS VolumeOps, InformerProofs, WellFoundedInduction

-------------------------------------------------------------------------------
(* The operators the model is built from.                                  *)

\* The first volume in name order is one of them.
LEMMA MinIsMember ==
  ASSUME NEW S \in SUBSET Nat, S # {}
  PROVE  Min(S) \in S
<1>1. PICK x \in S : \A y \in S : ~(<<y, x>> \in OpToRel(<, Nat))
  BY NatLessThanWellFounded, WFMin
<1>2. \A y \in S : x =< y
  <2> TAKE y \in S
  <2>1. ~(y < x)
    BY <1>1 DEF OpToRel
  <2> QED BY <2>1
<1> QED BY <1>2 DEF Min

LEMMA Bounds == MaxLag \in Nat \ {0} /\ MaxCrashes \in Nat /\ 1 \in 1..(MaxLag + 1)
  BY VolumeOpsAssumption

\* What a pass has decided to do is something it can do.
WellFormed ==
  /\ At("write") =>
       /\ pass.do # "" /\ pass.then \in {"requeue", "arm", "finish"}
       /\ pass.do \in {"enter", "ahead", "record"} => pass.arg \in WorkSteps
       /\ pass.do = "finish" => pass.arg \in {"Succeeded", "Failed", "Aborted"}
       /\ pass.then = "arm" <=> pass.do = "ahead"
       /\ pass.then = "finish" <=> pass.do = "finish"
  /\ At("discard") =>
       /\ pass.then \in {"finish", "drop"}
       /\ pass.then = "finish" => pass.arg \in {"Failed", "Aborted"}
  /\ At("release") => pass.then \in {"drop", "end", "requeue", "hold"}

\* A status mutation returns an operation object, of the same life.
LEMMA MutateType ==
  ASSUME NEW v \in OpsObj, TypeOK, WellFormed, At("write")
  PROVE  LET w == Mutate(v, pass.do, pass.arg) IN
         /\ w \in OpsObj /\ w.exists = v.exists /\ w.finalizer = v.finalizer
         /\ w.deleted = v.deleted /\ w.abort = v.abort /\ w.continued = v.continued
         /\ w.migration = (v.migration \/ pass.do = "migration")
<1>0. pass \in PassObj
  BY DEF TypeOK
<1>1. pass.do \in {"enter", "hold", "note", "ahead", "record", "migration", "finish"}
  BY <1>0 DEF WellFormed, PassObj
<1>2. CASE pass.do = "enter"
  BY <1>2 DEF Mutate, OpsObj, Phases, Steps, Leases, WellFormed, WorkSteps
<1>3. CASE pass.do = "hold"
  BY <1>3 DEF Mutate, OpsObj, Phases
<1>4. CASE pass.do = "note"
  BY <1>4 DEF Mutate, OpsObj
<1>5. CASE pass.do = "ahead"
  <2>1. Mutate(v, pass.do, pass.arg)
          = [v EXCEPT !.phase = "Running", !.step = pass.arg, !.claim = "none", !.deadline = "none"]
    BY <1>5 DEF Mutate
  <2>2. pass.arg \in Steps
    BY <1>5 DEF WellFormed, WorkSteps, Steps
  <2> QED BY <1>5, <2>1, <2>2 DEF OpsObj, Phases, Leases
<1>6. CASE pass.do = "record"
  <2>1. Mutate(v, pass.do, pass.arg)
          = [v EXCEPT !.phase = "Running", !.step = pass.arg, !.claim = "none", !.deadline = "set"]
    BY <1>6 DEF Mutate, Armed
  <2>2. pass.arg \in Steps
    BY <1>6 DEF WellFormed, WorkSteps, Steps
  <2> QED BY <1>6, <2>1, <2>2 DEF OpsObj, Phases, Leases
<1>7. CASE pass.do = "migration"
  BY <1>7 DEF Mutate, OpsObj
<1>8. CASE pass.do = "finish"
  BY <1>8 DEF Mutate, OpsObj, Phases, Steps, Leases, WellFormed
<1> QED BY <1>1, <1>2, <1>3, <1>4, <1>5, <1>6, <1>7, <1>8

\* The objects a pass and its surroundings make.
LEMMA ObjTypes ==
  /\ NewOp \in OpsObj /\ NoVolume \in PvObj /\ Idle \in PassObj
  /\ \A w, v \in OpsObj : WithStatus(w, v) \in OpsObj
  /\ \A v \in OpsObj : Expired(v) \in OpsObj
  /\ \A v \in OpsObj, s \in Steps : Overdue(v, s) \in OpsObj
  /\ \A v \in PvObj, o \in Ops \cup {NoOp} : [v EXCEPT !.lock = o] \in PvObj
<1>1. NewOp \in OpsObj
  BY DEF NewOp, OpsObj, Phases, Steps, Leases
<1>2. NoVolume \in PvObj
  BY DEF NoVolume, PvObj
<1>3. Idle \in PassObj
  BY <1>1 DEF Idle, PassObj, Steps
<1>4. \A w, v \in OpsObj : WithStatus(w, v) \in OpsObj
  BY DEF WithStatus, OpsObj
<1>5. \A v \in OpsObj : Expired(v) \in OpsObj
  BY DEF Expired, OpsObj, Leases
<1>6. \A v \in OpsObj, s \in Steps : Overdue(v, s) \in OpsObj
  BY DEF Overdue, OpsObj
<1>7. \A v \in PvObj, o \in Ops \cup {NoOp} : [v EXCEPT !.lock = o] \in PvObj
  BY DEF PvObj
<1> QED BY <1>1, <1>2, <1>3, <1>4, <1>5, <1>6, <1>7

-------------------------------------------------------------------------------
(* Type correctness.                                                       *)

LogsOK ==
  /\ opsLog \in [Ops -> Seq(OpsObj)]
  /\ \A o \in Ops : Len(opsLog[o]) \in 1..(MaxLag + 1)

PvLogsOK ==
  /\ pvLog \in [Vols -> Seq(PvObj)]
  /\ \A v \in Vols : Len(pvLog[v]) \in 1..(MaxLag + 1)

PassOK == pass \in PassObj /\ (~At("idle") => pass.op \in Ops) /\ WellFormed

CpOK ==
  /\ mig \in [Ops -> Migrations] /\ moved \subseteq {Subsystem[v] : v \in Vols}
  /\ continues \in [Ops -> Nat]

TypeInv == TypeOK /\ WellFormed

\* TypeInv is these parts.
LEMMA TypeParts ==
  TypeInv <=> /\ LogsOK /\ PvLogsOK /\ PassOK /\ CpOK /\ slot \in Ops \cup {NoOp}
              /\ queue \subseteq Ops /\ crashes \in 0..MaxCrashes /\ env \in Envs
  BY DEF TypeInv, TypeOK, LogsOK, PvLogsOK, PassOK, CpOK

\* And so it is after a step.
LEMMA TypePartsNext ==
  ASSUME LogsOK', PvLogsOK', PassOK', CpOK', slot' \in Ops \cup {NoOp}, queue' \subseteq Ops,
         crashes' \in 0..MaxCrashes, env' \in Envs
  PROVE  TypeInv'
  BY DEF TypeInv, TypeOK, LogsOK, PvLogsOK, PassOK, CpOK, WellFormed, At

\* What does not move keeps its type.
LEMMA TypeKept ==
  ASSUME TypeInv
  PROVE  /\ UNCHANGED opsLog => LogsOK'
         /\ UNCHANGED pvLog => PvLogsOK'
         /\ UNCHANGED pass => PassOK'
         /\ UNCHANGED cpVars => CpOK'
         /\ UNCHANGED slot => slot' \in Ops \cup {NoOp}
         /\ UNCHANGED queue => queue' \subseteq Ops
         /\ UNCHANGED crashes => crashes' \in 0..MaxCrashes
         /\ UNCHANGED env => env' \in Envs
<1> USE TypeParts
<1>1. UNCHANGED opsLog => LogsOK'
  BY DEF LogsOK
<1>2. UNCHANGED pvLog => PvLogsOK'
  BY DEF PvLogsOK
<1>3. UNCHANGED pass => PassOK'
  BY DEF PassOK, WellFormed, At
<1>4. UNCHANGED cpVars => CpOK'
  BY DEF CpOK, cpVars
<1> QED BY <1>1, <1>2, <1>3, <1>4

\* Both ends of the log of an operation, and of a volume.
LEMMA OpEnds ==
  ASSUME TypeInv, NEW o \in Ops
  PROVE  /\ opsLog[o] \in Seq(OpsObj) /\ Len(opsLog[o]) \in Nat \ {0}
         /\ Cached(opsLog[o]) \in OpsObj /\ Op(o) \in OpsObj
         /\ Cached(opsLog[o]) = opsLog[o][1] /\ Op(o) = opsLog[o][Len(opsLog[o])]
         /\ Current(opsLog[o]) => Cached(opsLog[o]) = Op(o)
         /\ \A k \in 1..Len(opsLog[o]) : opsLog[o][k] \in OpsObj
<1>1. opsLog[o] \in Seq(OpsObj) /\ Len(opsLog[o]) \in Nat \ {0}
  BY Bounds, TypeParts DEF LogsOK
<1>2. \A k \in 1..Len(opsLog[o]) : opsLog[o][k] \in OpsObj
  BY <1>1
<1> QED BY <1>1, <1>2, LogEnds DEF Op, Stored

LEMMA PvEnds ==
  ASSUME TypeInv, NEW v \in Vols
  PROVE  /\ pvLog[v] \in Seq(PvObj) /\ Len(pvLog[v]) \in Nat \ {0}
         /\ Cached(pvLog[v]) \in PvObj /\ Pv(v) \in PvObj
         /\ Cached(pvLog[v]) = pvLog[v][1] /\ Pv(v) = pvLog[v][Len(pvLog[v])]
<1>1. pvLog[v] \in Seq(PvObj) /\ Len(pvLog[v]) \in Nat \ {0}
  BY Bounds, TypeParts DEF PvLogsOK
<1> QED BY <1>1, LogEnds DEF Pv, Stored

\* A write of one operation leaves the others alone.
LEMMA OpWritten ==
  ASSUME TypeInv, NEW o \in Ops, NEW v \in OpsObj, Room(opsLog[o], MaxLag),
         opsLog' = [opsLog EXCEPT ![o] = Written(@, v)]
  PROVE  /\ LogsOK' /\ Op(o)' = v
         /\ \A p \in Ops \ {o} : opsLog'[p] = opsLog[p] /\ Op(p)' = Op(p)
         /\ Len(opsLog'[o]) = Len(opsLog[o]) + 1
         /\ opsLog'[o][Len(opsLog[o]) + 1] = v
         /\ \A k \in 1..Len(opsLog[o]) : opsLog'[o][k] = opsLog[o][k]
<1>1. /\ MaxLag \in Nat /\ opsLog \in [Ops -> Seq(OpsObj)] /\ Len(opsLog[o]) <= MaxLag
  BY Bounds, TypeParts DEF LogsOK, Room
<1>2. /\ Written(opsLog[o], v) \in Seq(OpsObj)
      /\ Len(Written(opsLog[o], v)) = Len(opsLog[o]) + 1
      /\ Stored(Written(opsLog[o], v)) = v
      /\ \A i \in 1..Len(opsLog[o]) : Written(opsLog[o], v)[i] = opsLog[o][i]
  BY OpEnds, LogWritten
<1>3. opsLog'[o] = Written(opsLog[o], v) /\ \A p \in Ops \ {o} : opsLog'[p] = opsLog[p]
  BY <1>1
<1>4. opsLog' \in [Ops -> Seq(OpsObj)]
  BY <1>1, <1>2
<1>5. \A p \in Ops : Len(opsLog'[p]) \in 1..(MaxLag + 1)
  <2>1. Len(opsLog'[o]) \in 1..(MaxLag + 1)
    BY <1>1, <1>2, <1>3, OpEnds
  <2>2. \A p \in Ops : Len(opsLog[p]) \in 1..(MaxLag + 1)
    BY TypeParts DEF LogsOK
  <2> QED BY <1>3, <2>1, <2>2
<1>6. opsLog'[o][Len(opsLog[o]) + 1] = v
  BY <1>2, <1>3 DEF Stored
<1> QED BY <1>2, <1>3, <1>4, <1>5, <1>6 DEF LogsOK, Op

\* So does a watch event.
LEMMA OpDelivered ==
  ASSUME TypeInv, NEW o \in Ops, DeliverOp(o)
  PROVE  /\ LogsOK' /\ \A p \in Ops : Op(p)' = Op(p)
         /\ \A p \in Ops \ {o} : opsLog'[p] = opsLog[p]
         /\ Len(opsLog'[o]) = Len(opsLog[o]) - 1
         /\ \A k \in 1..Len(opsLog'[o]) :
              k + 1 \in 1..Len(opsLog[o]) /\ opsLog'[o][k] = opsLog[o][k + 1]
<1>1. /\ opsLog' = [opsLog EXCEPT ![o] = Delivered(opsLog[o])] /\ Len(opsLog[o]) > 1
      /\ MaxLag \in Nat /\ opsLog \in [Ops -> Seq(OpsObj)] /\ Len(opsLog[o]) <= MaxLag + 1
      /\ Len(opsLog[o]) \in Nat
  BY Bounds, TypeParts DEF DeliverOp, LogsOK
<1>2. /\ Delivered(opsLog[o]) \in Seq(OpsObj)
      /\ Len(Delivered(opsLog[o])) = Len(opsLog[o]) - 1
      /\ Stored(Delivered(opsLog[o])) = Stored(opsLog[o])
      /\ \A i \in 1..Len(Delivered(opsLog[o])) : Delivered(opsLog[o])[i] = opsLog[o][i + 1]
  BY <1>1, OpEnds, LogDelivered
<1>3. opsLog'[o] = Delivered(opsLog[o]) /\ \A p \in Ops \ {o} : opsLog'[p] = opsLog[p]
  BY <1>1
<1>4. opsLog' \in [Ops -> Seq(OpsObj)]
  BY <1>1, <1>2
<1>5. \A p \in Ops : Len(opsLog'[p]) \in 1..(MaxLag + 1)
  <2>1. Len(opsLog'[o]) \in 1..(MaxLag + 1)
    BY <1>1, <1>2, <1>3
  <2>2. \A p \in Ops : Len(opsLog[p]) \in 1..(MaxLag + 1)
    BY TypeParts DEF LogsOK
  <2> QED BY <1>3, <2>1, <2>2
<1>6. \A k \in 1..Len(opsLog'[o]) :
        k + 1 \in 1..Len(opsLog[o]) /\ opsLog'[o][k] = opsLog[o][k + 1]
  BY <1>1, <1>2, <1>3
<1> QED BY <1>2, <1>3, <1>4, <1>5, <1>6 DEF LogsOK, Op

\* A clock that ages every copy of an operation by g.
LEMMA OpAged ==
  ASSUME TypeInv, NEW o \in Ops, NEW g \in [OpsObj -> OpsObj],
         opsLog' = [opsLog EXCEPT ![o] = [i \in 1..Len(opsLog[o]) |-> g[opsLog[o][i]]]]
  PROVE  /\ LogsOK' /\ Op(o)' = g[Op(o)]
         /\ \A p \in Ops \ {o} : opsLog'[p] = opsLog[p] /\ Op(p)' = Op(p)
         /\ Len(opsLog'[o]) = Len(opsLog[o])
         /\ \A k \in 1..Len(opsLog[o]) : opsLog'[o][k] = g[opsLog[o][k]]
<1>1. opsLog \in [Ops -> Seq(OpsObj)] /\ Len(opsLog[o]) \in Nat \ {0}
      /\ \A k \in 1..Len(opsLog[o]) : opsLog[o][k] \in OpsObj
  BY TypeParts, OpEnds DEF LogsOK
<1> DEFINE aged == [i \in 1..Len(opsLog[o]) |-> g[opsLog[o][i]]]
<1>2. aged \in Seq(OpsObj) /\ Len(aged) = Len(opsLog[o])
  BY <1>1
<1>3. \A k \in 1..Len(opsLog[o]) : aged[k] = g[opsLog[o][k]]
  OBVIOUS
<1>4. opsLog'[o] = aged /\ \A p \in Ops \ {o} : opsLog'[p] = opsLog[p]
  BY <1>1
<1>5. opsLog' \in [Ops -> Seq(OpsObj)]
  BY <1>1, <1>2
<1> HIDE DEF aged
<1>6. LogsOK'
  BY <1>2, <1>4, <1>5, TypeParts DEF LogsOK
<1>7. Op(o)' = g[Op(o)]
  BY <1>1, <1>2, <1>3, <1>4 DEF Op, Stored
<1> QED BY <1>2, <1>3, <1>4, <1>6, <1>7 DEF Op

\* A write of one volume.
LEMMA PvWritten ==
  ASSUME TypeInv, NEW v \in Vols, NEW w \in PvObj, Room(pvLog[v], MaxLag),
         pvLog' = [pvLog EXCEPT ![v] = Written(@, w)]
  PROVE  /\ PvLogsOK' /\ Pv(v)' = w
         /\ \A x \in Vols \ {v} : pvLog'[x] = pvLog[x] /\ Pv(x)' = Pv(x)
         /\ Cached(pvLog'[v]) = Cached(pvLog[v])
<1>1. /\ MaxLag \in Nat /\ pvLog \in [Vols -> Seq(PvObj)] /\ Len(pvLog[v]) <= MaxLag
  BY Bounds, TypeParts DEF PvLogsOK, Room
<1>2. /\ Written(pvLog[v], w) \in Seq(PvObj)
      /\ Len(Written(pvLog[v], w)) = Len(pvLog[v]) + 1
      /\ Stored(Written(pvLog[v], w)) = w
      /\ Cached(Written(pvLog[v], w)) = Cached(pvLog[v])
  BY PvEnds, LogWritten
<1>3. pvLog'[v] = Written(pvLog[v], w) /\ \A x \in Vols \ {v} : pvLog'[x] = pvLog[x]
  BY <1>1
<1>4. pvLog' \in [Vols -> Seq(PvObj)]
  BY <1>1, <1>2
<1>5. \A x \in Vols : Len(pvLog'[x]) \in 1..(MaxLag + 1)
  <2>1. Len(pvLog'[v]) \in 1..(MaxLag + 1)
    BY <1>1, <1>2, <1>3, PvEnds
  <2>2. \A x \in Vols : Len(pvLog[x]) \in 1..(MaxLag + 1)
    BY TypeParts DEF PvLogsOK
  <2> QED BY <1>3, <2>1, <2>2
<1> QED BY <1>2, <1>3, <1>4, <1>5 DEF PvLogsOK, Pv

LEMMA PvDelivered ==
  ASSUME TypeInv, NEW v \in Vols, DeliverPv(v)
  PROVE  PvLogsOK' /\ \A x \in Vols : Pv(x)' = Pv(x)
<1>1. /\ pvLog' = [pvLog EXCEPT ![v] = Delivered(pvLog[v])] /\ Len(pvLog[v]) > 1
      /\ MaxLag \in Nat /\ pvLog \in [Vols -> Seq(PvObj)] /\ Len(pvLog[v]) <= MaxLag + 1
      /\ Len(pvLog[v]) \in Nat
  BY Bounds, TypeParts DEF DeliverPv, PvLogsOK
<1>2. /\ Delivered(pvLog[v]) \in Seq(PvObj)
      /\ Len(Delivered(pvLog[v])) = Len(pvLog[v]) - 1
      /\ Stored(Delivered(pvLog[v])) = Stored(pvLog[v])
  BY <1>1, PvEnds, LogDelivered
<1>3. pvLog'[v] = Delivered(pvLog[v]) /\ \A x \in Vols \ {v} : pvLog'[x] = pvLog[x]
  BY <1>1
<1>4. pvLog' \in [Vols -> Seq(PvObj)]
  BY <1>1, <1>2
<1>5. \A x \in Vols : Len(pvLog'[x]) \in 1..(MaxLag + 1)
  <2>1. Len(pvLog'[v]) \in 1..(MaxLag + 1)
    BY <1>1, <1>2, <1>3
  <2>2. \A x \in Vols : Len(pvLog[x]) \in 1..(MaxLag + 1)
    BY TypeParts DEF PvLogsOK
  <2> QED BY <1>3, <2>1, <2>2
<1> QED BY <1>2, <1>3, <1>4, <1>5 DEF PvLogsOK, Pv

\* What a piece of a pass leaves: a pass and a queue of the right type.
Moved == PassOK' /\ queue' \subseteq Ops

\* The same operation, read at the same time, at another point of the pass.
Held == pass'.op = pass.op /\ pass'.obj = pass.obj /\ pass'.fresh = pass.fresh

Doings == {"", "enter", "hold", "note", "ahead", "record", "migration", "finish"}
Thens == {"", "end", "requeue", "hold", "arm", "finish", "drop"}
Points == {"idle", "finalizer", "resolve", "slot", "members", "lock", "step", "claim",
           "call", "discard", "write", "release", "drop"}

LEMMA PassFields ==
  ASSUME TypeInv
  PROVE  /\ pass \in PassObj /\ WellFormed /\ (~At("idle") => pass.op \in Ops)
         /\ pass.obj \in OpsObj /\ pass.op \in Ops \cup {NoOp} /\ pass.pc \in Points
         /\ pass.fresh \in BOOLEAN /\ pass.todo \in SUBSET Vols /\ queue \subseteq Ops
<1>1. PassOK /\ queue \subseteq Ops
  BY TypeParts
<1> QED BY <1>1 DEF PassOK, PassObj, Points

LEMMA IdleSpot == Idle.pc = "idle" /\ Idle.fresh = FALSE /\ Idle.op = NoOp
  BY DEF Idle

LEMMA IdleOK ==
  ASSUME pass' = Idle
  PROVE  PassOK'
<1>1. pass'.pc = "idle" /\ pass' \in PassObj
  BY ObjTypes DEF Idle
<1> QED BY <1>1, Zenon DEF PassOK, WellFormed, At

LEMMA EndMoves ==
  ASSUME TypeInv, ~At("idle"), NEW b \in BOOLEAN, End(b)
  PROVE  Moved /\ pass' = Idle
<1>1. pass' = Idle /\ queue' \subseteq Ops
  BY PassFields DEF End
<1> QED BY <1>1, IdleOK DEF Moved

LEMMA GotoMoves ==
  ASSUME TypeInv, ~At("idle"), NEW pc \in {"slot", "members", "step", "claim", "drop"}, Goto(pc)
  PROVE  Moved /\ Held /\ pass'.pc = pc /\ pass'.then = pass.then
<1>1. /\ pass' = [pass EXCEPT !.pc = pc] /\ queue' \subseteq Ops
      /\ pass \in PassObj /\ pass.op \in Ops
  BY PassFields DEF Goto
<1>2. pass' \in PassObj /\ Held /\ pass'.pc = pc /\ pass'.then = pass.then
  BY <1>1 DEF PassObj, Held
<1> QED BY <1>1, <1>2 DEF Moved, PassOK, WellFormed, At, Held

LEMMA WriteMoves ==
  ASSUME TypeInv, ~At("idle"), NEW do \in Doings \ {""}, NEW arg \in Steps \cup Phases,
         NEW then \in {"requeue", "arm", "finish"},
         do \in {"enter", "ahead", "record"} => arg \in WorkSteps,
         do = "finish" => arg \in {"Succeeded", "Failed", "Aborted"},
         then = "arm" <=> do = "ahead", then = "finish" <=> do = "finish",
         WriteThen(do, arg, then)
  PROVE  Moved /\ Held /\ pass'.pc = "write" /\ pass'.do = do
<1>1. /\ pass' = [pass EXCEPT !.pc = "write", !.do = do, !.arg = arg, !.then = then]
      /\ queue' \subseteq Ops /\ pass \in PassObj /\ pass.op \in Ops
  BY PassFields DEF WriteThen
<1>2. /\ pass' \in PassObj /\ Held /\ pass'.pc = "write" /\ pass'.do = do
      /\ pass'.arg = arg /\ pass'.then = then
  BY <1>1 DEF PassObj, Held, Doings
<1> QED BY <1>1, <1>2 DEF Moved, PassOK, WellFormed, At, Held

\* A message: the pass ends, or goes on to write it.
LEMMA SayMoves ==
  ASSUME TypeInv, ~At("idle"), NEW do \in {"hold", "note"}, Say(do)
  PROVE  Moved /\ (pass' = Idle \/ (Held /\ pass'.pc = "write" /\ pass'.do = do))
<1>1. CASE WriteThen(do, "", "requeue")
  BY <1>1, WriteMoves DEF Doings, Steps
<1>2. CASE End(TRUE)
  BY <1>2, EndMoves
<1> QED BY <1>1, <1>2 DEF Say

LEMMA FinishMoves ==
  ASSUME TypeInv, ~At("idle"), NEW ph \in {"Succeeded", "Failed", "Aborted"}, Finish(ph)
  PROVE  Moved /\ Held /\ pass'.pc = "write" /\ pass'.do = "finish"
  BY WriteMoves DEF Finish, Doings, Phases

LEMMA RecordMoves ==
  ASSUME TypeInv, ~At("idle"), NEW s \in WorkSteps, Record(s)
  PROVE  Moved /\ Held /\ pass'.pc = "write" /\ pass'.do = "ahead"
  BY WriteMoves DEF Record, Doings, Steps, WorkSteps

LEMMA DiscardMoves ==
  ASSUME TypeInv, ~At("idle"), NEW ph \in {"Failed", "Aborted"}, Discard(ph, "finish")
  PROVE  Moved /\ Held /\ pass'.pc = "discard" /\ pass'.then = "finish"
<1>1. /\ pass' = [pass EXCEPT !.pc = "discard", !.arg = ph, !.then = "finish"]
      /\ queue' \subseteq Ops /\ pass \in PassObj /\ pass.op \in Ops
  BY PassFields DEF Discard
<1>2. /\ pass' \in PassObj /\ Held /\ pass'.pc = "discard"
      /\ pass'.arg = ph /\ pass'.then = "finish"
  BY <1>1 DEF PassObj, Held, Phases
<1> QED BY <1>1, <1>2 DEF Moved, PassOK, WellFormed, At, Held

LEMMA ReleaseMoves ==
  ASSUME TypeInv, ~At("idle"), NEW then \in {"drop", "end", "requeue", "hold"}, Release(then)
  PROVE  Moved /\ Held /\ pass'.pc = "release" /\ pass'.then = then
<1>1. /\ pass' = [pass EXCEPT !.pc = "release", !.then = then]
      /\ queue' \subseteq Ops /\ pass \in PassObj /\ pass.op \in Ops
  BY PassFields DEF Release
<1>2. /\ pass' \in PassObj /\ Held /\ pass'.pc = "release" /\ pass'.then = then
  BY <1>1 DEF PassObj, Held
<1> QED BY <1>1, <1>2 DEF Moved, PassOK, WellFormed, At, Held

\* A write that puts the operation to work, or keeps it there.
Enters == pass.pc = "write" /\ pass.do \in {"enter", "ahead", "record"}

\* A pass that ends, or goes on at one of the points `pcs` with what it had read; only
\* the step machine puts an operation to work.
Onward(pcs) ==
  /\ Moved
  /\ \/ pass' = Idle
     \/ /\ Held /\ pass'.pc \in pcs /\ (Enters' => At("step"))
        /\ pass'.pc = "discard" => pass'.then = "finish"

LEMMA ResolveMoves ==
  ASSUME TypeInv, Resolve
  PROVE  Onward({"discard", "slot", "members", "write"})
<1>0. ~At("idle")
  BY DEF Resolve, At
<1>1. CASE Discard("Aborted", "finish")
  BY <1>0, <1>1, DiscardMoves DEF Onward, Enters
<1>2. CASE Goto(IF pass.obj.step = "" THEN "slot" ELSE "members")
  <2>1. CASE pass.obj.step = ""
    BY <1>0, <1>2, <2>1, GotoMoves DEF Onward, Enters
  <2>2. CASE pass.obj.step # ""
    BY <1>0, <1>2, <2>2, GotoMoves DEF Onward, Enters
  <2> QED BY <2>1, <2>2
<1>3. CASE Say("note")
  BY <1>0, <1>3, SayMoves DEF Onward, Enters
<1>4. CASE Finish("Failed") \/ Finish("Aborted")
  BY <1>0, <1>4, FinishMoves DEF Onward, Enters
<1> QED BY <1>1, <1>2, <1>3, <1>4 DEF Resolve

LEMMA AcquireSlotMoves ==
  ASSUME TypeInv, AcquireSlot
  PROVE  Onward({"members", "write"}) /\ slot' \in Ops \cup {NoOp}
<1>0. ~At("idle") /\ slot \in Ops \cup {NoOp} /\ pass.op \in Ops
  BY PassFields, TypeParts DEF AcquireSlot, At
<1>1. Onward({"members", "write"})
  <2>1. CASE Goto("members")
    BY <1>0, <2>1, GotoMoves DEF Onward, Enters
  <2>2. CASE Say("hold")
    BY <1>0, <2>2, SayMoves DEF Onward, Enters
  <2>3. CASE End(TRUE)
    BY <1>0, <2>3, EndMoves DEF Onward, Enters
  <2> QED BY <2>1, <2>2, <2>3 DEF AcquireSlot
<1>2. slot' = slot \/ slot' = pass.op
  BY DEF AcquireSlot
<1> QED BY <1>0, <1>1, <1>2

LEMMA ReadMembersMoves ==
  ASSUME TypeInv, ReadMembers
  PROVE  Onward({"step", "lock", "write"})
<1>0. ~At("idle") /\ pass \in PassObj /\ pass.op \in Ops /\ queue \subseteq Ops
  BY PassFields DEF ReadMembers, At
<1>1. CASE Goto("step")
  BY <1>0, <1>1, GotoMoves DEF Onward, Enters
<1>2. CASE Finish("Failed") \/ Finish("Aborted")
  BY <1>0, <1>2, FinishMoves DEF Onward, Enters
<1> DEFINE todo == {v \in SubsystemVolumes(Vol[pass.op]) : Pv(v).lock # pass.op}
<1>3. CASE pass' = [pass EXCEPT !.pc = "lock", !.todo = todo] /\ UNCHANGED queue
  <2>1. todo \in SUBSET Vols
    BY DEF SubsystemVolumes, Siblings
  <2> HIDE DEF todo
  <2>2. pass' \in PassObj /\ Held /\ pass'.pc = "lock"
    BY <1>0, <1>3, <2>1 DEF PassObj, Held
  <2> QED BY <1>0, <1>3, <2>2 DEF Onward, Enters, Moved, PassOK, WellFormed, At, Held
<1> QED BY <1>1, <1>2, <1>3 DEF ReadMembers

LEMMA ReadMembersFailsMoves ==
  ASSUME TypeInv, ReadMembersFails
  PROVE  Onward({})
<1>0. ~At("idle")
  BY DEF ReadMembersFails, At
<1> QED BY <1>0, EndMoves DEF ReadMembersFails, Onward

LEMMA AbandonMoves ==
  ASSUME TypeInv, ~At("idle"), NEW then \in {"hold", "requeue"}, AbandonAcquisition(then)
  PROVE  /\ Moved
         /\ \/ pass' = Idle
            \/ Held /\ pass'.pc = "write" /\ pass'.do = "hold"
            \/ Held /\ pass'.pc = "release" /\ pass'.then = then /\ pass.obj.step = ""
<1>1. CASE Release(then) /\ pass.obj.step = ""
  BY <1>1, ReleaseMoves
<1>2. CASE Say("hold")
  <2>1. Moved /\ (pass' = Idle \/ (Held /\ pass'.pc = "write" /\ pass'.do = "hold"))
    BY <1>2, SayMoves
  <2> QED BY <2>1
<1>3. CASE End(TRUE)
  BY <1>3, EndMoves
<1> QED BY <1>1, <1>2, <1>3 DEF AbandonAcquisition

LEMMA LockVolumeMoves ==
  ASSUME TypeInv, LockVolume
  PROVE  /\ Onward({"lock", "write", "release"}) /\ PvLogsOK'
         /\ pass'.pc = "release" => pass'.then \in {"hold", "requeue"} /\ pass.obj.step = ""
<1> DEFINE v == Min(pass.todo)
<1>0. /\ ~At("idle") /\ At("lock") /\ pass \in PassObj /\ pass.op \in Ops /\ queue \subseteq Ops
      /\ pass.todo \in SUBSET Vols /\ pass.todo # {}
  BY PassFields DEF LockVolume, At
<1>1. v \in Vols
  <2>1. pass.todo \in SUBSET Nat
    BY <1>0, VolumeOpsAssumption
  <2> QED BY <1>0, <2>1, MinIsMember
<1> HIDE DEF v
<1>2. Pv(v) \in PvObj
  BY <1>1, PvEnds
<1>3. CASE SetLock(v, pass.op) /\ pass' = [pass EXCEPT !.todo = @ \ {v}] /\ UNCHANGED queue
  <2>1. PvLogsOK'
    <3>1. [Pv(v) EXCEPT !.lock = pass.op] \in PvObj
      BY <1>0, <1>2, ObjTypes
    <3> QED BY <1>1, <1>3, <3>1, PvWritten DEF SetLock
  <2>2. pass' \in PassObj /\ Held /\ pass'.pc = "lock"
    BY <1>0, <1>3 DEF PassObj, Held, At
  <2> QED BY <1>0, <1>3, <2>1, <2>2 DEF Onward, Enters, Moved, PassOK, WellFormed, At, Held
<1>4. CASE (AbandonAcquisition("hold") \/ AbandonAcquisition("requeue")) /\ UNCHANGED pvLog
  <2>1. /\ Moved
        /\ \/ pass' = Idle
           \/ Held /\ pass'.pc = "write" /\ pass'.do = "hold"
           \/ /\ Held /\ pass'.pc = "release" /\ pass'.then \in {"hold", "requeue"}
              /\ pass.obj.step = ""
    BY <1>0, <1>4, AbandonMoves
  <2>2. PvLogsOK'
    BY <1>4, TypeKept
  <2>3. pass'.pc = "release" => pass'.then \in {"hold", "requeue"} /\ pass.obj.step = ""
    BY <2>1, IdleSpot
  <2> QED BY <2>1, <2>2, <2>3 DEF Onward, Enters
<1> QED BY <1>3, <1>4 DEF LockVolume, v

LEMMA LockedMoves ==
  ASSUME TypeInv, Locked
  PROVE  Onward({"step"})
<1>0. ~At("idle")
  BY DEF Locked, At
<1> QED BY <1>0, GotoMoves DEF Locked, Onward, Enters

\* One step of the migration; the continue is only asked for when none is recorded.
LEMMA AdvanceMoves ==
  ASSUME TypeInv, Advance
  PROVE  /\ Onward({"write", "discard", "claim"})
         /\ pass'.pc = "claim" /\ pass.obj.step = "Migrating" => ~pass.obj.continued
<1>0. ~At("idle") /\ At("step")
  BY DEF Advance, At
<1>1. CASE WriteThen("enter", "Validating", "requeue")
  <2>1. Moved /\ Held /\ pass'.pc = "write"
    BY <1>0, <1>1, WriteMoves DEF Doings, Steps, WorkSteps
  <2> QED BY <1>0, <2>1 DEF Onward, Enters
<1>2. CASE Discard("Aborted", "finish") \/ Discard("Failed", "finish")
  <2>1. Moved /\ Held /\ pass'.pc = "discard" /\ pass'.then = "finish"
    BY <1>0, <1>2, DiscardMoves
  <2> QED BY <1>0, <2>1 DEF Onward, Enters
<1>3. CASE Say("note")
  <2>1. Moved /\ (pass' = Idle \/ (Held /\ pass'.pc = "write" /\ pass'.do = "note"))
    BY <1>0, <1>3, SayMoves
  <2> QED BY <2>1, IdleSpot DEF Onward, Enters
<1>4. CASE Finish("Succeeded")
  <2>1. Moved /\ Held /\ pass'.pc = "write"
    BY <1>0, <1>4, FinishMoves
  <2> QED BY <1>0, <2>1 DEF Onward, Enters
<1>5. CASE Record(NextStep("Validating")) \/ Record(NextStep("Migrating"))
  <2>1. Moved /\ Held /\ pass'.pc = "write"
    BY <1>0, <1>5, RecordMoves DEF NextStep, WorkSteps
  <2> QED BY <1>0, <2>1 DEF Onward, Enters
<1>6. CASE Goto("claim") /\ (pass.obj.step = "Migrating" => ~pass.obj.continued)
  <2>1. Moved /\ Held /\ pass'.pc = "claim"
    BY <1>0, <1>6, GotoMoves
  <2> QED BY <1>6, <2>1 DEF Onward, Enters
<1>7. CASE Perform
  <2>1. CASE pass.obj.step = "Validating"
    BY <1>7, <2>1, <1>2, <1>3, <1>5, <1>6 DEF Perform, Validate
  <2>2. CASE pass.obj.step = "Migrating"
    BY <1>7, <2>2, <1>2, <1>3, <1>5, <1>6 DEF Perform, Copy, MayContinue
  <2>3. CASE pass.obj.step = "Verifying"
    BY <1>7, <2>3, <1>3, <1>4 DEF Perform
  <2> QED BY <1>7, <2>1, <2>2, <2>3 DEF Perform
<1> QED BY <1>1, <1>2, <1>7 DEF Advance

\* The read that begins a pass.
LEMMA ReconcileMoves ==
  ASSUME TypeInv, NEW o \in Ops, Reconcile(o)
  PROVE  /\ Moved
         /\ \/ pass' = Idle
            \/ /\ pass'.op = o /\ pass'.obj = Cached(opsLog[o])
               /\ pass'.fresh = Current(opsLog[o]) /\ pass'.obj.exists
               /\ \/ /\ pass'.pc \in {"finalizer", "resolve"} /\ ~pass'.obj.deleted
                     /\ pass'.pc = "resolve" => pass'.obj.finalizer
                  \/ /\ pass'.pc \in {"discard", "release"} /\ pass'.then = "drop"
                     /\ pass'.obj.deleted /\ pass'.obj.finalizer
                  \/ pass'.pc = "release" /\ pass'.then = "end"
               /\ pass'.pc = "release" <=> Terminal(pass'.obj.phase)
<1> DEFINE v == Cached(opsLog[o])
           start == [Idle EXCEPT !.op = o, !.obj = v, !.fresh = Current(opsLog[o])]
<1>1. v \in OpsObj /\ queue' \subseteq Ops
  BY OpEnds, PassFields DEF Reconcile
<1>2. /\ start \in PassObj /\ start.op = o /\ start.obj = v
      /\ start.fresh = Current(opsLog[o])
  <2>1. Idle \in PassObj
    BY ObjTypes
  <2>2. Current(opsLog[o]) \in BOOLEAN
    BY DEF Current
  <2> HIDE DEF v
  <2> QED BY <1>1, <2>1, <2>2 DEF PassObj
<1>3. pass' = CASE ~v.exists \/ (v.deleted /\ ~v.finalizer) -> Idle
               [] v.exists /\ v.deleted /\ v.finalizer ->
                    [start EXCEPT !.pc = IF Terminal(v.phase) THEN "release" ELSE "discard",
                                  !.then = "drop"]
               [] v.exists /\ ~v.deleted /\ Terminal(v.phase) ->
                    [start EXCEPT !.pc = "release", !.then = "end"]
               [] OTHER ->
                    [start EXCEPT !.pc = IF v.finalizer THEN "resolve" ELSE "finalizer"]
  BY DEF Reconcile
<1> HIDE DEF v, start
<1>4. CASE ~v.exists \/ (v.deleted /\ ~v.finalizer)
  <2>1. pass' = Idle
    BY <1>3, <1>4
  <2> QED BY <1>1, <2>1, IdleOK DEF Moved
<1>5. CASE v.exists /\ v.deleted /\ v.finalizer
  <2>1. pass' = [start EXCEPT !.pc = IF Terminal(v.phase) THEN "release" ELSE "discard",
                              !.then = "drop"]
    BY <1>3, <1>5
  <2>2. /\ pass' \in PassObj /\ pass'.op = o /\ pass'.obj = v /\ pass'.then = "drop"
        /\ pass'.fresh = Current(opsLog[o])
        /\ pass'.pc = IF Terminal(v.phase) THEN "release" ELSE "discard"
    BY <1>2, <2>1 DEF PassObj
  <2> QED BY <1>1, <1>5, <2>2 DEF Moved, PassOK, WellFormed, At, v
<1>6. CASE v.exists /\ ~v.deleted /\ Terminal(v.phase)
  <2>1. pass' = [start EXCEPT !.pc = "release", !.then = "end"]
    BY <1>3, <1>6
  <2>2. /\ pass' \in PassObj /\ pass'.op = o /\ pass'.obj = v /\ pass'.then = "end"
        /\ pass'.fresh = Current(opsLog[o]) /\ pass'.pc = "release"
    BY <1>2, <2>1 DEF PassObj
  <2> QED BY <1>1, <1>6, <2>2 DEF Moved, PassOK, WellFormed, At, v
<1>7. CASE v.exists /\ ~v.deleted /\ ~Terminal(v.phase)
  <2>1. pass' = [start EXCEPT !.pc = IF v.finalizer THEN "resolve" ELSE "finalizer"]
    BY <1>3, <1>7
  <2>2. /\ pass' \in PassObj /\ pass'.op = o /\ pass'.obj = v
        /\ pass'.fresh = Current(opsLog[o])
        /\ pass'.pc = IF v.finalizer THEN "resolve" ELSE "finalizer"
    BY <1>2, <2>1 DEF PassObj
  <2> QED BY <1>1, <1>7, <2>2 DEF Moved, PassOK, WellFormed, At, v
<1> QED BY <1>4, <1>5, <1>6, <1>7

LEMMA DiscardFailsMoves ==
  ASSUME TypeInv, DiscardFails
  PROVE  Onward({"write"})
<1>0. ~At("idle") /\ WellFormed /\ At("discard")
  BY PassFields DEF DiscardFails, At
<1>1. CASE Say("note")
  BY <1>0, <1>1, SayMoves DEF Onward, Enters
<1>2. CASE ~Strict /\ AfterDiscard
  <2>1. pass.then = "finish" /\ pass.arg = "Failed" /\ Finish(pass.arg)
    BY <1>0, <1>2 DEF Strict, AfterDiscard, WellFormed
  <2> QED BY <1>0, <2>1, FinishMoves DEF Onward, Enters
<1> QED BY <1>1, <1>2 DEF DiscardFails

LEMMA DiscardMigrationMoves ==
  ASSUME TypeInv, DiscardMigration
  PROVE  /\ Moved /\ Held /\ CpOK'
         /\ \/ pass'.pc = "write" /\ pass'.do = "finish"
            \/ pass'.pc = "release" /\ pass'.then = "drop" /\ pass.then = "drop"
         /\ \A p \in Ops \ {pass.op} : mig'[p] = mig[p]
         /\ mig'[pass.op] = mig[pass.op] \/ ~Live(pass.op)'
         /\ pass.obj.migration => ~Live(pass.op)'
<1>0. ~At("idle") /\ WellFormed /\ At("discard") /\ pass.op \in Ops
  BY PassFields DEF DiscardMigration, At
<1>1. /\ Moved /\ Held
      /\ \/ pass'.pc = "write" /\ pass'.do = "finish"
         \/ pass'.pc = "release" /\ pass'.then = "drop" /\ pass.then = "drop"
  <2>1. CASE pass.then = "drop"
    BY <1>0, <2>1, ReleaseMoves DEF DiscardMigration, AfterDiscard
  <2>2. CASE pass.then = "finish"
    <3>1. pass.arg \in {"Succeeded", "Failed", "Aborted"} /\ Finish(pass.arg)
      BY <1>0, <2>2 DEF DiscardMigration, AfterDiscard, WellFormed
    <3>2. Moved /\ Held /\ pass'.pc = "write" /\ pass'.do = "finish"
      BY <1>0, <3>1, FinishMoves
    <3> QED BY <3>2
  <2> QED BY <1>0, <2>1, <2>2 DEF WellFormed
<1>2. mig \in [Ops -> Migrations]
  BY TypeParts DEF CpOK
<1>3. /\ mig' \in [Ops -> Migrations] /\ \A p \in Ops \ {pass.op} : mig'[p] = mig[p]
      /\ mig'[pass.op] = mig[pass.op] \/ ~Live(pass.op)'
      /\ pass.obj.migration => ~Live(pass.op)'
  <2>1. CASE pass.obj.migration
    <3>1. mig' = [mig EXCEPT ![pass.op] = IF Live(pass.op) THEN "canceled" ELSE @]
      BY <2>1 DEF DiscardMigration
    <3>2. CASE Live(pass.op)
      <4>1. mig' = [mig EXCEPT ![pass.op] = "canceled"]
        BY <3>1, <3>2
      <4> QED BY <1>0, <1>1, <1>2, <4>1 DEF Migrations, Live, Held
    <3>3. CASE ~Live(pass.op)
      <4>1. mig' = mig
        BY <1>2, <3>1, <3>3
      <4> QED BY <1>1, <1>2, <3>3, <4>1 DEF Live, Held
    <3> QED BY <3>2, <3>3
  <2>2. CASE ~pass.obj.migration
    BY <1>2, <2>2 DEF DiscardMigration
  <2> QED BY <2>1, <2>2
<1>4. CpOK'
  BY <1>3, TypeParts DEF CpOK, DiscardMigration
<1> QED BY <1>1, <1>3, <1>4

LEMMA ReleaseSlotMoves ==
  ASSUME TypeInv, ReleaseSlot
  PROVE  /\ Onward({"drop", "write"}) /\ slot' \in Ops \cup {NoOp}
         /\ pass'.pc = "drop" => pass.then = "drop"
<1>0. ~At("idle") /\ slot \in Ops \cup {NoOp}
  BY TypeParts DEF ReleaseSlot, At
<1>1. slot' \in Ops \cup {NoOp}
  BY <1>0 DEF ReleaseSlot, SlotAfterRelease
<1>2. CASE pass.then = "drop" /\ Goto("drop")
  BY <1>0, <1>1, <1>2, GotoMoves DEF Onward, Enters
<1>3. CASE End(FALSE) \/ End(TRUE)
  <2>1. Moved /\ pass' = Idle
    BY <1>0, <1>3, EndMoves
  <2> QED BY <1>1, <2>1, IdleSpot DEF Onward, Enters
<1>4. CASE Say("hold")
  <2>1. Moved /\ (pass' = Idle \/ (Held /\ pass'.pc = "write" /\ pass'.do = "hold"))
    BY <1>0, <1>4, SayMoves
  <2> QED BY <1>1, <2>1, IdleSpot DEF Onward, Enters
<1> QED BY <1>2, <1>3, <1>4 DEF ReleaseSlot

LEMMA ReleaseVolumeMoves ==
  ASSUME TypeInv, NEW v \in Vols, ReleaseVolume(v)
  PROVE  PvLogsOK'
<1>1. [Pv(v) EXCEPT !.lock = NoOp] \in PvObj
  BY PvEnds, ObjTypes
<1> QED BY <1>1, PvWritten DEF ReleaseVolume, SetLock

\* The writers of an operation.
LEMMA AddFinalizerMoves ==
  ASSUME TypeInv, AddFinalizer
  PROVE  /\ Moved /\ LogsOK' /\ pass' = Idle
         /\ \/ UNCHANGED opsLog
            \/ /\ pass.fresh /\ Room(opsLog[pass.op], MaxLag)
               /\ opsLog' = [opsLog EXCEPT ![pass.op] =
                               Written(@, [pass.obj EXCEPT !.finalizer = TRUE])]
<1>0. ~At("idle") /\ pass.op \in Ops /\ pass.obj \in OpsObj
  BY PassFields DEF AddFinalizer, At
<1>1. Moved /\ pass' = Idle
  <2>1. End(FALSE) \/ End(TRUE)
    BY DEF AddFinalizer
  <2> QED BY <1>0, <2>1, EndMoves
<1>2. CASE pass.fresh /\ Land([pass.obj EXCEPT !.finalizer = TRUE])
  <2>1. [pass.obj EXCEPT !.finalizer = TRUE] \in OpsObj
    BY <1>0 DEF OpsObj
  <2> QED BY <1>0, <1>1, <1>2, <2>1, OpWritten DEF Land
<1>3. CASE UNCHANGED opsLog
  BY <1>1, <1>3, TypeKept
<1> QED BY <1>2, <1>3 DEF AddFinalizer

LEMMA DropFinalizerMoves ==
  ASSUME TypeInv, DropFinalizer
  PROVE  /\ Moved /\ LogsOK' /\ pass' = Idle
         /\ \/ UNCHANGED opsLog
            \/ /\ pass.fresh /\ Room(opsLog[pass.op], MaxLag)
               /\ opsLog' = [opsLog EXCEPT ![pass.op] =
                               Written(@, [pass.obj EXCEPT !.exists = FALSE])]
<1>0. ~At("idle") /\ pass.op \in Ops /\ pass.obj \in OpsObj
  BY PassFields DEF DropFinalizer, At
<1>1. Moved /\ pass' = Idle
  <2>1. End(FALSE) \/ End(TRUE)
    BY DEF DropFinalizer
  <2> QED BY <1>0, <2>1, EndMoves
<1>2. CASE pass.fresh /\ Land([pass.obj EXCEPT !.exists = FALSE])
  <2>1. [pass.obj EXCEPT !.exists = FALSE] \in OpsObj
    BY <1>0 DEF OpsObj
  <2> QED BY <1>0, <1>1, <1>2, <2>1, OpWritten DEF Land
<1>3. CASE UNCHANGED opsLog
  BY <1>1, <1>3, TypeKept
<1> QED BY <1>2, <1>3 DEF DropFinalizer

\* The version a claim writes.
Claimed ==
  [Op(pass.op) EXCEPT !.claim = "live", !.continued = @ \/ pass.obj.step = "Migrating"]

LEMMA ClaimMoves ==
  ASSUME TypeInv, Claim
  PROVE  /\ Moved /\ LogsOK'
         /\ \/ UNCHANGED opsLog /\ Onward({"write"})
            \/ /\ pass.fresh /\ Room(opsLog[pass.op], MaxLag) /\ Claimed \in OpsObj
               /\ opsLog' = [opsLog EXCEPT ![pass.op] = Written(@, Claimed)]
               /\ pass'.pc = "call" /\ pass'.op = pass.op /\ pass'.obj = Claimed
               /\ pass'.fresh = pass.fresh
<1>0. /\ ~At("idle") /\ pass.op \in Ops /\ pass \in PassObj /\ Op(pass.op) \in OpsObj
      /\ queue \subseteq Ops
  BY PassFields, OpEnds DEF Claim, At
<1>1. CASE Say("note") /\ UNCHANGED opsLog
  <2>1. Moved /\ Onward({"write"})
    BY <1>0, <1>1, SayMoves DEF Onward, Enters
  <2> QED BY <1>1, <2>1, TypeKept
<1>2. CASE pass.fresh /\ Land(Claimed) /\ pass' = [pass EXCEPT !.obj = Claimed, !.pc = "call"]
           /\ UNCHANGED queue
  <2>1. Claimed \in OpsObj
    <3>1. (Op(pass.op).continued \/ pass.obj.step = "Migrating") \in BOOLEAN
      OBVIOUS
    <3> QED BY <1>0, <3>1 DEF Claimed, OpsObj, Leases
  <2>2. LogsOK'
    BY <1>0, <1>2, <2>1, OpWritten DEF Land
  <2>3. /\ pass' \in PassObj /\ pass'.pc = "call" /\ pass'.op = pass.op
        /\ pass'.obj = Claimed /\ pass'.fresh = pass.fresh
    BY <1>0, <1>2, <2>1 DEF PassObj
  <2>4. Moved
    BY <1>0, <1>2, <2>3 DEF Moved, PassOK, WellFormed, At
  <2> QED BY <1>2, <2>1, <2>2, <2>3, <2>4 DEF Land
<1> QED BY <1>1, <1>2 DEF Claim, Claimed

LEMMA CreateMigrationMoves ==
  ASSUME TypeInv, CreateMigration
  PROVE  /\ Onward({"write", "discard"}) /\ CpOK'
         /\ \A p \in Ops \ {pass.op} : mig'[p] = mig[p]
<1>0. /\ ~At("idle") /\ pass.op \in Ops /\ mig \in [Ops -> Migrations]
  BY PassFields, TypeParts DEF CreateMigration, At, CpOK
<1>1. Onward({"write", "discard"})
  <2>1. CASE Finish("Succeeded")
    BY <1>0, <2>1, FinishMoves DEF Onward, Enters
  <2>2. CASE WriteThen("migration", "", "requeue")
    <3>1. Moved /\ Held /\ pass'.pc = "write" /\ pass'.do = "migration"
      BY <1>0, <2>2, WriteMoves DEF Doings, Steps
    <3> QED BY <3>1 DEF Onward, Enters
  <2>3. CASE Say("note")
    BY <1>0, <2>3, SayMoves DEF Onward, Enters
  <2>4. CASE Discard("Failed", "finish")
    BY <1>0, <2>4, DiscardMoves DEF Onward, Enters
  <2> QED BY <2>1, <2>2, <2>3, <2>4 DEF CreateMigration
<1>2. mig' = mig \/ mig' = [mig EXCEPT ![pass.op] = "pre_created"]
  BY DEF CreateMigration
<1>3. mig' \in [Ops -> Migrations] /\ \A p \in Ops \ {pass.op} : mig'[p] = mig[p]
  BY <1>0, <1>2 DEF Migrations
<1>4. CpOK'
  BY <1>3, TypeParts DEF CpOK, CreateMigration
<1> QED BY <1>1, <1>3, <1>4

LEMMA ContinueMigrationMoves ==
  ASSUME TypeInv, ContinueMigration
  PROVE  /\ Onward({"write"}) /\ CpOK'
         /\ \A p \in Ops : mig'[p] = mig[p] \/ mig[p] \in {"pre_created"}
         /\ \A p \in Ops \ {pass.op} : continues'[p] = continues[p]
         /\ continues'[pass.op] \in {continues[pass.op], continues[pass.op] + 1}
<1>0. /\ ~At("idle") /\ pass.op \in Ops /\ mig \in [Ops -> Migrations]
      /\ continues \in [Ops -> Nat]
  BY PassFields, TypeParts DEF ContinueMigration, At, CpOK
<1>1. Onward({"write"})
  BY <1>0, SayMoves DEF Onward, Enters, ContinueMigration
<1>2. /\ mig' \in [Ops -> Migrations]
      /\ \A p \in Ops : mig'[p] = mig[p] \/ mig[p] \in {"pre_created"}
  <2>1. CASE mig' = [mig EXCEPT ![pass.op] = IF @ = "pre_created" THEN "asked" ELSE @]
    BY <1>0, <2>1 DEF Migrations
  <2>2. CASE UNCHANGED mig
    BY <1>0, <2>2
  <2> QED BY <2>1, <2>2 DEF ContinueMigration
<1>3. /\ continues' \in [Ops -> Nat] /\ \A p \in Ops \ {pass.op} : continues'[p] = continues[p]
      /\ continues'[pass.op] \in {continues[pass.op], continues[pass.op] + 1}
  <2>1. CASE continues' = [continues EXCEPT ![pass.op] = @ + 1]
    BY <1>0, <2>1
  <2>2. CASE UNCHANGED continues
    BY <1>0, <2>2
  <2> QED BY <2>1, <2>2 DEF ContinueMigration
<1>4. CpOK'
  BY <1>2, <1>3, TypeParts DEF CpOK, ContinueMigration
<1> QED BY <1>1, <1>2, <1>3, <1>4

\* The version a status write mutates, and what it makes of it.
WriteBase == IF pass.fresh THEN pass.obj ELSE Cached(opsLog[pass.op])
Mutated == Mutate(WriteBase, pass.do, pass.arg)

LEMMA WriteStatusMoves ==
  ASSUME TypeInv, WriteStatus
  PROVE  /\ Moved /\ LogsOK' /\ WriteBase \in OpsObj /\ Mutated \in OpsObj
         /\ \/ UNCHANGED opsLog /\ pass' = Idle
            \/ /\ pass.fresh \/ (WriteBase = Op(pass.op) /\ WriteBase.exists)
               /\ Room(opsLog[pass.op], MaxLag)
               /\ WithStatus(Op(pass.op), Mutated) \in OpsObj
               /\ opsLog' = [opsLog EXCEPT ![pass.op] =
                               Written(@, WithStatus(Op(pass.op), Mutated))]
               /\ \/ pass' = Idle
                  \/ /\ pass'.op = pass.op /\ pass'.obj = WithStatus(pass.obj, Mutated)
                     /\ pass'.fresh = TRUE
                     /\ \/ pass'.pc = "write" /\ pass.do = "ahead" /\ pass'.do = "record"
                        \/ pass'.pc = "release" /\ pass'.then = "end" /\ pass.do = "finish"
<1>0. /\ ~At("idle") /\ At("write") /\ pass.op \in Ops /\ pass \in PassObj
      /\ pass.obj \in OpsObj /\ WellFormed /\ TypeOK /\ queue \subseteq Ops
  BY PassFields DEF WriteStatus, At, TypeInv
<1>1. /\ Op(pass.op) \in OpsObj /\ Cached(opsLog[pass.op]) \in OpsObj
      /\ Current(opsLog[pass.op]) => Cached(opsLog[pass.op]) = Op(pass.op)
  BY <1>0, OpEnds
<1>2. WriteBase \in OpsObj
  BY <1>0, <1>1 DEF WriteBase
<1>3. Mutated \in OpsObj
  BY <1>0, <1>2, MutateType DEF Mutated
<1>4. WithStatus(Op(pass.op), Mutated) \in OpsObj /\ WithStatus(pass.obj, Mutated) \in OpsObj
  BY <1>0, <1>1, <1>3, ObjTypes
<1>5. CASE End(TRUE) /\ UNCHANGED opsLog
  <2>1. Moved /\ pass' = Idle /\ LogsOK'
    BY <1>0, <1>5, EndMoves, TypeKept
  <2> QED BY <1>2, <1>3, <1>5, <2>1
<1>6. CASE /\ pass.fresh \/ (Current(opsLog[pass.op]) /\ WriteBase.exists)
           /\ Land(WithStatus(Op(pass.op), Mutated)) /\ AfterWrite(Mutated)
  <2>1. LogsOK'
    BY <1>0, <1>4, <1>6, OpWritten DEF Land
  <2>2. pass.fresh \/ (WriteBase = Op(pass.op) /\ WriteBase.exists)
    BY <1>1, <1>6 DEF WriteBase
  <2> DEFINE held == [pass EXCEPT !.obj = WithStatus(@, Mutated), !.fresh = TRUE, !.do = ""]
  <2>3. /\ held \in PassObj /\ held.op = pass.op /\ held.obj = WithStatus(pass.obj, Mutated)
        /\ held.fresh = TRUE /\ held.pc = "write" /\ held.arg = pass.arg
    <3> DEFINE x == WithStatus(pass.obj, Mutated)
    <3>1. x \in OpsObj /\ held = [pass EXCEPT !.obj = x, !.fresh = TRUE, !.do = ""]
      BY <1>4
    <3> HIDE DEF x, held
    <3>2. /\ held \in PassObj /\ held.op = pass.op /\ held.obj = x
          /\ held.fresh = TRUE /\ held.pc = "write" /\ held.arg = pass.arg
      BY <1>0, <3>1 DEF PassObj, At
    <3> QED BY <3>2 DEF x
  <2>4. pass.then \in {"requeue", "arm", "finish"}
    BY <1>0 DEF WellFormed
  <2>5. CASE pass.then = "requeue"
    <3>1. End(TRUE)
      BY <1>6, <2>5 DEF AfterWrite
    <3>2. Moved /\ pass' = Idle
      BY <1>0, <3>1, EndMoves
    <3> QED BY <1>2, <1>3, <1>4, <1>6, <2>1, <2>2, <3>2 DEF Land
  <2>6. CASE pass.then = "arm"
    <3>1. pass' = [held EXCEPT !.do = "record", !.then = "requeue"] /\ UNCHANGED queue
      BY <1>6, <2>6 DEF AfterWrite
    <3>2. pass.do = "ahead" /\ pass.arg \in WorkSteps
      BY <1>0, <2>6 DEF WellFormed
    <3> HIDE DEF held
    <3>3. /\ pass' \in PassObj /\ pass'.op = pass.op /\ pass'.obj = held.obj
          /\ pass'.fresh = TRUE /\ pass'.pc = "write" /\ pass'.do = "record"
          /\ pass'.then = "requeue" /\ pass'.arg = pass.arg
      BY <2>3, <3>1 DEF PassObj
    <3>4. Moved
      BY <1>0, <3>1, <3>2, <3>3 DEF Moved, PassOK, WellFormed, At
    <3> QED BY <1>2, <1>3, <1>4, <1>6, <2>1, <2>2, <2>3, <3>2, <3>3, <3>4 DEF Land
  <2>7. CASE pass.then = "finish"
    <3>1. pass' = [held EXCEPT !.pc = "release", !.then = "end"] /\ UNCHANGED queue
      BY <1>6, <2>7 DEF AfterWrite
    <3>2. pass.do = "finish"
      BY <1>0, <2>7 DEF WellFormed
    <3> HIDE DEF held
    <3>3. /\ pass' \in PassObj /\ pass'.op = pass.op /\ pass'.obj = held.obj
          /\ pass'.fresh = TRUE /\ pass'.pc = "release" /\ pass'.then = "end"
      BY <2>3, <3>1 DEF PassObj
    <3>4. Moved
      BY <1>0, <3>1, <3>2, <3>3 DEF Moved, PassOK, WellFormed, At
    <3> QED BY <1>2, <1>3, <1>4, <1>6, <2>1, <2>2, <2>3, <3>2, <3>3, <3>4 DEF Land
  <2> QED BY <2>4, <2>5, <2>6, <2>7
<1> QED BY <1>5, <1>6 DEF WriteStatus, WriteBase, Mutated, Op

\* The two clocks as functions on operation objects.
LeaseClock == [v \in OpsObj |-> Expired(v)]
DeadlineClock(s) == [v \in OpsObj |-> Overdue(v, s)]

LEMMA LeaseIsClock ==
  ASSUME TypeInv, NEW o \in Ops, LeaseExpires(o)
  PROVE  /\ LeaseClock \in [OpsObj -> OpsObj]
         /\ opsLog' = [opsLog EXCEPT ![o] =
                         [i \in 1..Len(opsLog[o]) |-> LeaseClock[opsLog[o][i]]]]
         /\ pass' = IF pass.op = o THEN [pass EXCEPT !.obj = LeaseClock[pass.obj]] ELSE pass
<1>1. LeaseClock \in [OpsObj -> OpsObj] /\ \A v \in OpsObj : LeaseClock[v] = Expired(v)
  BY ObjTypes DEF LeaseClock
<1>2. [i \in 1..Len(opsLog[o]) |-> Expired(opsLog[o][i])]
        = [i \in 1..Len(opsLog[o]) |-> LeaseClock[opsLog[o][i]]]
  BY <1>1, OpEnds
<1>3. pass.obj \in OpsObj
  BY PassFields
<1> QED BY <1>1, <1>2, <1>3 DEF LeaseExpires

LEMMA DeadlineIsClock ==
  ASSUME TypeInv, NEW o \in Ops, NEW s \in WorkSteps, DeadlinePasses(o, s)
  PROVE  /\ DeadlineClock(s) \in [OpsObj -> OpsObj]
         /\ opsLog' = [opsLog EXCEPT ![o] =
                         [i \in 1..Len(opsLog[o]) |-> DeadlineClock(s)[opsLog[o][i]]]]
         /\ pass' = IF pass.op = o THEN [pass EXCEPT !.obj = DeadlineClock(s)[pass.obj]] ELSE pass
<1>1. /\ DeadlineClock(s) \in [OpsObj -> OpsObj]
      /\ \A v \in OpsObj : DeadlineClock(s)[v] = Overdue(v, s)
  <2>1. s \in Steps
    BY DEF WorkSteps, Steps
  <2> QED BY <2>1, ObjTypes DEF DeadlineClock
<1>2. [i \in 1..Len(opsLog[o]) |-> Overdue(opsLog[o][i], s)]
        = [i \in 1..Len(opsLog[o]) |-> DeadlineClock(s)[opsLog[o][i]]]
  BY <1>1, OpEnds
<1>3. pass.obj \in OpsObj
  BY PassFields
<1> QED BY <1>1, <1>2, <1>3 DEF DeadlinePasses

\* The clocks, in the logs and in the copy the pass holds.
LEMMA ClockMoves ==
  ASSUME TypeInv, NEW o \in Ops, NEW g \in [OpsObj -> OpsObj],
         opsLog' = [opsLog EXCEPT ![o] = [i \in 1..Len(opsLog[o]) |-> g[opsLog[o][i]]]],
         pass' = IF pass.op = o THEN [pass EXCEPT !.obj = g[pass.obj]] ELSE pass
  PROVE  /\ LogsOK' /\ PassOK' /\ pass'.op = pass.op /\ pass'.pc = pass.pc
         /\ pass'.then = pass.then /\ pass'.fresh = pass.fresh
         /\ pass'.do = pass.do /\ pass'.todo = pass.todo
         /\ pass'.obj = IF pass.op = o THEN g[pass.obj] ELSE pass.obj
<1>1. LogsOK'
  BY OpAged
<1>2. pass \in PassObj /\ pass.obj \in OpsObj /\ WellFormed /\ (~At("idle") => pass.op \in Ops)
  BY PassFields
<1>3. CASE pass.op = o
  <2>1. pass' = [pass EXCEPT !.obj = g[pass.obj]] /\ g[pass.obj] \in OpsObj
    BY <1>2, <1>3
  <2>2. /\ pass' \in PassObj /\ pass'.op = pass.op /\ pass'.pc = pass.pc
        /\ pass'.then = pass.then /\ pass'.fresh = pass.fresh /\ pass'.obj = g[pass.obj]
        /\ pass'.do = pass.do /\ pass'.arg = pass.arg /\ pass'.todo = pass.todo
    BY <1>2, <2>1 DEF PassObj
  <2> QED BY <1>1, <1>2, <1>3, <2>2 DEF PassOK, WellFormed, At
<1>4. CASE pass.op # o
  BY <1>1, <1>4, TypeKept
<1> QED BY <1>3, <1>4

LEMMA DisturbMoves ==
  ASSUME TypeInv, NEW o \in Ops, Disturb(o)
  PROVE  /\ PassOK' /\ pass'.op = pass.op /\ pass'.pc = pass.pc /\ pass'.obj = pass.obj
         /\ pass'.then = pass.then /\ pass'.do = pass.do /\ pass'.todo = pass.todo
         /\ pass'.fresh = (pass.fresh /\ pass.op # o)
<1>1. pass \in PassObj /\ WellFormed /\ (~At("idle") => pass.op \in Ops) /\ pass.fresh \in BOOLEAN
  BY PassFields
<1>2. CASE pass.op = o
  <2>1. pass' = [pass EXCEPT !.fresh = FALSE]
    BY <1>2 DEF Disturb
  <2>2. /\ pass' \in PassObj /\ pass'.op = pass.op /\ pass'.pc = pass.pc
        /\ pass'.then = pass.then /\ pass'.fresh = FALSE /\ pass'.obj = pass.obj
        /\ pass'.do = pass.do /\ pass'.arg = pass.arg /\ pass'.todo = pass.todo
    BY <1>1, <2>1 DEF PassObj
  <2> QED BY <1>1, <1>2, <2>2 DEF PassOK, WellFormed, At
<1>3. CASE pass.op # o
  <2>1. pass' = pass
    BY <1>3 DEF Disturb
  <2> QED BY <1>1, <1>3, <2>1, TypeKept
<1> QED BY <1>2, <1>3

LEMMA SetAbortMoves ==
  ASSUME TypeInv, NEW o \in Ops, SetAbort(o)
  PROVE  LogsOK' /\ [Op(o) EXCEPT !.abort = TRUE] \in OpsObj
<1>1. [Op(o) EXCEPT !.abort = TRUE] \in OpsObj
  BY OpEnds DEF OpsObj
<1> QED BY <1>1, OpWritten DEF SetAbort

\* The version a deletion leaves.
Removed(v) == IF v.finalizer THEN [v EXCEPT !.deleted = TRUE] ELSE [v EXCEPT !.exists = FALSE]

LEMMA DeleteMoves ==
  ASSUME TypeInv, NEW o \in Ops, Delete(o)
  PROVE  LogsOK' /\ Removed(Op(o)) \in OpsObj
<1>1. Removed(Op(o)) \in OpsObj
  BY OpEnds DEF OpsObj, Removed
<1> QED BY <1>1, OpWritten DEF Delete, Removed

LEMMA VolumeWriteMoves ==
  ASSUME TypeInv, NEW v \in Vols, VolumeWrite(v)
  PROVE  PvLogsOK'
<1>1. Pv(v) \in PvObj /\ NoVolume \in PvObj
  BY PvEnds, ObjTypes
<1> DEFINE w == CASE Pv(v).there = "no" -> [NoVolume EXCEPT !.there = "yes"]
                  [] Pv(v).there = "yes" -> [Pv(v) EXCEPT !.there = "deleting"]
                  [] Pv(v).there = "deleting" -> NoVolume
<1>2. w \in PvObj
  <2>1. Pv(v).there \in {"no", "yes", "deleting"}
    BY <1>1 DEF PvObj
  <2>2. [NoVolume EXCEPT !.there = "yes"] \in PvObj /\ [Pv(v) EXCEPT !.there = "deleting"] \in PvObj
    BY <1>1 DEF PvObj
  <2> QED BY <1>1, <2>1, <2>2
<1>3. pvLog' = [pvLog EXCEPT ![v] = Written(@, w)] /\ Room(pvLog[v], MaxLag)
  BY DEF VolumeWrite
<1> HIDE DEF w
<1> QED BY <1>2, <1>3, PvWritten

LEMMA CpCopyMoves ==
  ASSUME TypeInv, NEW o \in Ops, CpCopy(o)
  PROVE  /\ CpOK' /\ \A p \in Ops : mig'[p] = mig[p] \/ mig[p] \in {"asked", "running"}
<1>0. mig \in [Ops -> Migrations] /\ moved \subseteq {Subsystem[v] : v \in Vols}
  BY TypeParts DEF CpOK
<1>1. Subsystem[Vol[o]] \in {Subsystem[v] : v \in Vols}
  <2>1. Vol[o] \in Vols
    BY VolumeOpsAssumption
  <2> QED BY <2>1
<1>2. moved' \subseteq {Subsystem[v] : v \in Vols}
  BY <1>0, <1>1 DEF CpCopy
<1>3. /\ mig' \in [Ops -> Migrations]
      /\ \A p \in Ops : mig'[p] = mig[p] \/ mig[p] \in {"asked", "running"}
  <2>1. /\ mig[o] \in {"asked", "running"}
        /\ \/ mig' = [mig EXCEPT ![o] = "running"]
           \/ mig' = [mig EXCEPT ![o] = "done"]
           \/ mig' = [mig EXCEPT ![o] = "failed"]
    BY DEF CpCopy
  <2> QED BY <1>0, <2>1 DEF Migrations
<1>4. CpOK'
  BY <1>2, <1>3, TypeParts DEF CpOK, CpCopy
<1> QED BY <1>3, <1>4

LEMMA TypeInit ==
  ASSUME Init
  PROVE  TypeInv
<1>1. env \in Envs /\ slot = NoOp /\ queue = Ops /\ pass = Idle
  BY Zenon DEF Init
<1>2. mig = [o \in Ops |-> "none"] /\ moved = {} /\ continues = [o \in Ops |-> 0] /\ crashes = 0
  BY Zenon DEF Init
<1>3. PICK p \in Ops : opsLog = [o \in Ops |->
              <<[NewOp EXCEPT !.exists = o = p \/ "alone" \notin env]>>]
  BY Zenon DEF Init
<1>4. pvLog = [v \in Vols |-> <<[lock |-> NoOp,
                                 there |-> IF v \in Later THEN "no" ELSE "yes"]>>]
  BY Zenon DEF Init
<1>5. LogsOK
  <2>1. \A o \in Ops : [NewOp EXCEPT !.exists = o = p \/ "alone" \notin env] \in OpsObj
    <3> TAKE o \in Ops
    <3> DEFINE b == (o = p \/ "alone" \notin env)
    <3>1. b \in BOOLEAN
      OBVIOUS
    <3> HIDE DEF b
    <3>2. [NewOp EXCEPT !.exists = b] \in OpsObj
      BY <3>1, ObjTypes DEF OpsObj
    <3> QED BY <3>2 DEF b
  <2>2. \A o \in Ops : opsLog[o] \in Seq(OpsObj) /\ Len(opsLog[o]) = 1
    BY <1>3, <2>1
  <2> QED BY <1>3, <2>1, <2>2, Bounds DEF LogsOK
<1>6. PvLogsOK
  <2>1. \A v \in Vols : [lock |-> NoOp, there |-> IF v \in Later THEN "no" ELSE "yes"] \in PvObj
    BY DEF PvObj
  <2>2. \A v \in Vols : pvLog[v] \in Seq(PvObj) /\ Len(pvLog[v]) = 1
    BY <1>4, <2>1
  <2> QED BY <1>4, <2>1, <2>2, Bounds DEF PvLogsOK
<1>7. PassOK
  <2>1. pass.pc = "idle" /\ pass \in PassObj
    BY <1>1, ObjTypes DEF Idle
  <2> QED BY <2>1, Zenon DEF PassOK, WellFormed, At
<1>8. CpOK
  BY <1>2 DEF CpOK, Migrations
<1> QED BY <1>1, <1>2, <1>5, <1>6, <1>7, <1>8, TypeParts, Bounds

LEMMA TypeStep ==
  ASSUME TypeInv, [Next]_vars
  PROVE  TypeInv'
<1> USE DEF Moved, Onward, locks
<1>0. CASE UNCHANGED vars
  BY <1>0, TypeKept, TypePartsNext DEF vars, moving, cpVars
<1> SUFFICES ASSUME Next PROVE TypeInv'
  BY <1>0
<1>00. env' \in Envs
  BY TypeParts DEF Next
<1>1. CASE AddFinalizer
  <2>1. UNCHANGED <<locks, cpVars, crashes>>
    BY <1>1 DEF AddFinalizer
  <2> QED BY <1>00, <1>1, <2>1, AddFinalizerMoves, TypeKept, TypePartsNext
<1>2. CASE Resolve
  <2>1. UNCHANGED <<opsLog, locks, cpVars, crashes>>
    BY <1>2 DEF Resolve
  <2> QED BY <1>00, <1>2, <2>1, ResolveMoves, TypeKept, TypePartsNext
<1>3. CASE AcquireSlot
  <2>1. UNCHANGED <<opsLog, pvLog, cpVars, crashes>>
    BY <1>3 DEF AcquireSlot
  <2> QED BY <1>00, <1>3, <2>1, AcquireSlotMoves, TypeKept, TypePartsNext
<1>4. CASE ReadMembers
  <2>1. UNCHANGED <<opsLog, locks, cpVars, crashes>>
    BY <1>4 DEF ReadMembers
  <2> QED BY <1>00, <1>4, <2>1, ReadMembersMoves, TypeKept, TypePartsNext
<1>5. CASE ReadMembersFails
  <2>1. UNCHANGED <<opsLog, locks, cpVars, crashes>>
    BY <1>5 DEF ReadMembersFails
  <2> QED BY <1>00, <1>5, <2>1, ReadMembersFailsMoves, TypeKept, TypePartsNext
<1>6. CASE LockVolume
  <2>1. UNCHANGED <<opsLog, slot, cpVars, crashes>>
    BY <1>6 DEF LockVolume
  <2> QED BY <1>00, <1>6, <2>1, LockVolumeMoves, TypeKept, TypePartsNext
<1>7. CASE Locked
  <2>1. UNCHANGED <<opsLog, locks, cpVars, crashes>>
    BY <1>7 DEF Locked
  <2> QED BY <1>00, <1>7, <2>1, LockedMoves, TypeKept, TypePartsNext
<1>8. CASE Advance
  <2>1. UNCHANGED <<opsLog, locks, cpVars, crashes>>
    BY <1>8 DEF Advance
  <2> QED BY <1>00, <1>8, <2>1, AdvanceMoves, TypeKept, TypePartsNext
<1>9. CASE Claim
  <2>1. UNCHANGED <<locks, cpVars, crashes>>
    BY <1>9 DEF Claim
  <2> QED BY <1>00, <1>9, <2>1, ClaimMoves, TypeKept, TypePartsNext
<1>10. CASE CreateMigration
  <2>1. UNCHANGED <<opsLog, locks, crashes>>
    BY <1>10 DEF CreateMigration
  <2> QED BY <1>00, <1>10, <2>1, CreateMigrationMoves, TypeKept, TypePartsNext
<1>11. CASE ContinueMigration
  <2>1. UNCHANGED <<opsLog, locks, crashes>>
    BY <1>11 DEF ContinueMigration
  <2> QED BY <1>00, <1>11, <2>1, ContinueMigrationMoves, TypeKept, TypePartsNext
<1>12. CASE DiscardMigration
  <2>1. UNCHANGED <<opsLog, locks, crashes>>
    BY <1>12 DEF DiscardMigration
  <2> QED BY <1>00, <1>12, <2>1, DiscardMigrationMoves, TypeKept, TypePartsNext
<1>13. CASE DiscardFails
  <2>1. UNCHANGED <<opsLog, locks, cpVars, crashes>>
    BY <1>13 DEF DiscardFails
  <2> QED BY <1>00, <1>13, <2>1, DiscardFailsMoves, TypeKept, TypePartsNext
<1>14. CASE WriteStatus
  <2>1. UNCHANGED <<locks, cpVars, crashes>>
    BY <1>14 DEF WriteStatus
  <2> QED BY <1>00, <1>14, <2>1, WriteStatusMoves, TypeKept, TypePartsNext
<1>15. ASSUME NEW v \in Vols, ReleaseVolume(v) PROVE TypeInv'
  <2>1. UNCHANGED <<opsLog, slot, queue, pass, cpVars, crashes>>
    BY <1>15 DEF ReleaseVolume
  <2> QED BY <1>00, <1>15, <2>1, ReleaseVolumeMoves, TypeKept, TypePartsNext
<1>16. CASE ReleaseSlot
  <2>1. UNCHANGED <<opsLog, pvLog, cpVars, crashes>>
    BY <1>16 DEF ReleaseSlot
  <2> QED BY <1>00, <1>16, <2>1, ReleaseSlotMoves, TypeKept, TypePartsNext
<1>17. CASE DropFinalizer
  <2>1. UNCHANGED <<locks, cpVars, crashes>>
    BY <1>17 DEF DropFinalizer
  <2> QED BY <1>00, <1>17, <2>1, DropFinalizerMoves, TypeKept, TypePartsNext
<1>18. ASSUME NEW o \in Ops, Reconcile(o) PROVE TypeInv'
  <2>1. UNCHANGED <<opsLog, locks, cpVars, crashes>>
    BY <1>18 DEF Reconcile
  <2> QED BY <1>00, <1>18, <2>1, ReconcileMoves, TypeKept, TypePartsNext
<1>19. ASSUME NEW o \in Ops, DeliverOp(o) PROVE TypeInv'
  <2>1. UNCHANGED <<locks, pass, cpVars, crashes>> /\ queue' \subseteq Ops
    BY <1>19, PassFields DEF DeliverOp
  <2> QED BY <1>00, <1>19, <2>1, OpDelivered, TypeKept, TypePartsNext
<1>20. ASSUME NEW o \in Ops, LeaseExpires(o) PROVE TypeInv'
  <2>1. UNCHANGED <<locks, queue, cpVars, crashes>>
    BY <1>20 DEF LeaseExpires
  <2>2. LogsOK' /\ PassOK'
    BY <1>20, LeaseIsClock, ClockMoves
  <2> QED BY <1>00, <2>1, <2>2, TypeKept, TypePartsNext
<1>21. ASSUME NEW o \in Ops, NEW s \in WorkSteps, DeadlinePasses(o, s) PROVE TypeInv'
  <2>1. UNCHANGED <<locks, queue, cpVars, crashes>>
    BY <1>21 DEF DeadlinePasses
  <2>2. LogsOK' /\ PassOK'
    BY <1>21, DeadlineIsClock, ClockMoves
  <2> QED BY <1>00, <2>1, <2>2, TypeKept, TypePartsNext
<1>22. ASSUME NEW o \in Ops, SetAbort(o) PROVE TypeInv'
  <2>1. UNCHANGED <<locks, queue, cpVars, crashes>> /\ Disturb(o)
    BY <1>22 DEF SetAbort
  <2> QED BY <1>00, <1>22, <2>1, SetAbortMoves, DisturbMoves, TypeKept, TypePartsNext
<1>23. ASSUME NEW o \in Ops, Delete(o) PROVE TypeInv'
  <2>1. UNCHANGED <<locks, queue, cpVars, crashes>> /\ Disturb(o)
    BY <1>23 DEF Delete
  <2> QED BY <1>00, <1>23, <2>1, DeleteMoves, DisturbMoves, TypeKept, TypePartsNext
<1>24. ASSUME NEW o \in Ops, CpCopy(o) PROVE TypeInv'
  <2>1. UNCHANGED <<opsLog, locks, queue, pass, crashes>>
    BY <1>24 DEF CpCopy
  <2> QED BY <1>00, <1>24, <2>1, CpCopyMoves, TypeKept, TypePartsNext
<1>25. ASSUME NEW v \in Vols, DeliverPv(v) PROVE TypeInv'
  <2>1. UNCHANGED <<opsLog, slot, pass, cpVars, crashes>> /\ queue' \subseteq Ops
    BY <1>25, PassFields DEF DeliverPv
  <2> QED BY <1>00, <1>25, <2>1, PvDelivered, TypeKept, TypePartsNext
<1>26. ASSUME NEW v \in Vols, VolumeWrite(v) PROVE TypeInv'
  <2>1. UNCHANGED <<opsLog, slot, queue, pass, cpVars, crashes>>
    BY <1>26 DEF VolumeWrite
  <2> QED BY <1>00, <1>26, <2>1, VolumeWriteMoves, TypeKept, TypePartsNext
<1>27. CASE Crash
  <2>1. UNCHANGED <<opsLog, locks, cpVars>> /\ pass' = Idle /\ queue' \subseteq Ops
    BY <1>27 DEF Crash
  <2>2. crashes' \in 0..MaxCrashes
    <3>1. crashes \in 0..MaxCrashes
      BY TypeParts
    <3> QED BY <1>27, <3>1, Bounds DEF Crash
  <2> QED BY <1>00, <2>1, <2>2, IdleOK, TypeKept, TypePartsNext
<1>28. CASE Worker
  BY <1>28, <1>1, <1>2, <1>3, <1>4, <1>5, <1>6, <1>7, <1>8, <1>9, <1>10, <1>11, <1>12,
     <1>13, <1>14, <1>15, <1>16, <1>17, <1>18 DEF Worker, PassStep
<1>29. CASE Environment
  BY <1>29, <1>19, <1>20, <1>21, <1>22, <1>23, <1>24, <1>25, <1>26, <1>27 DEF Environment
<1> QED BY <1>28, <1>29 DEF Next

LEMMA TypeAlways == Spec => []TypeInv
<1>1. Init => TypeInv
  BY TypeInit
<1>2. TypeInv /\ [Next]_vars => TypeInv'
  BY TypeStep
<1> QED BY <1>1, <1>2, PTL DEF Spec

\* Whatever the environment does, every variable keeps its type: an operation's log is
\* never empty and never longer than the bound, a pass in flight names an operation, and
\* what it holds is an operation object (Reconcile and everything it calls).
THEOREM TypeCorrect == Spec => []TypeOK
<1>1. TypeInv => TypeOK
  BY DEF TypeInv
<1> QED BY <1>1, TypeAlways, PTL

-------------------------------------------------------------------------------
(* A migration is continued once, and a deletion takes it back.            *)

SameStatus(v, w) ==
  /\ v.phase = w.phase /\ v.step = w.step /\ v.claim = w.claim
  /\ v.deadline = w.deadline /\ v.migration = w.migration /\ v.continued = w.continued

\* A finalizer stays once it is there, and is there before anything is recorded.
FinalizerStays ==
  \A o \in Ops :
    /\ \A k \in 1..Len(opsLog[o]) : opsLog[o][k].finalizer => Op(o).finalizer
    /\ Op(o).migration => Op(o).finalizer

\* The second release of an operation that ended needs no finalizer.
Ending == At("release") /\ pass.then = "end"

\* A pass past the finalizer works for an operation that has one.
PassHasFinalizer ==
  ~At("idle") =>
    /\ pass.obj.exists
    /\ At("finalizer") \/ Ending \/ (pass.obj.finalizer /\ Op(pass.op).finalizer)

\* A copy whose patch would land has the status the API server stores.
FreshIsStored ==
  pass.fresh => ~At("idle") /\ Op(pass.op).exists /\ SameStatus(pass.obj, Op(pass.op))

\* The control plane is only asked for an operation that exists, and to continue only
\* a migration whose continue is recorded and was not made yet.
CallOnce ==
  /\ At("claim") /\ pass.obj.step = "Migrating" => ~pass.obj.continued
  /\ At("call") => Op(pass.op).exists
  /\ At("call") /\ pass.obj.step = "Migrating" =>
       continues[pass.op] = 0 /\ Op(pass.op).continued

Counted ==
  \A o \in Ops : continues[o] = 0 \/ (continues[o] = 1 /\ Op(o).continued)

\* A teardown past the cancel has nothing left to take back.
TakenBack ==
  At("drop") \/ (At("release") /\ pass.then = "drop") =>
    (pass.obj.migration /\ ~Terminal(pass.obj.phase) => ~Live(pass.op))

OnceInv ==
  /\ FinalizerStays /\ PassHasFinalizer /\ FreshIsStored /\ CallOnce /\ Counted
  /\ TakenBack /\ DeleteTakesBack

LEMMA OnceParts ==
  OnceInv <=> /\ FinalizerStays /\ PassHasFinalizer /\ FreshIsStored /\ CallOnce /\ Counted
              /\ TakenBack /\ DeleteTakesBack
  BY DEF OnceInv

LEMMA OncePartsNext ==
  ASSUME FinalizerStays', PassHasFinalizer', FreshIsStored', CallOnce', Counted',
         TakenBack', DeleteTakesBack'
  PROVE  OnceInv'
  BY DEF OnceInv

\* A pass that ended says nothing.
LEMMA IdleSays ==
  ASSUME pass' = Idle
  PROVE  PassHasFinalizer' /\ FreshIsStored' /\ CallOnce' /\ TakenBack'
<1>1. pass'.pc = "idle" /\ pass'.fresh = FALSE
  BY DEF Idle
<1> QED BY <1>1, Zenon DEF PassHasFinalizer, FreshIsStored, CallOnce, TakenBack, At

\* What the operations say when none of them is written, and no migration begins.
LEMMA OpsSay ==
  ASSUME TypeInv, OnceInv, \A p \in Ops : Op(p)' = Op(p),
         \A p \in Ops : \A k \in 1..Len(opsLog'[p]) :
           \E j \in 1..Len(opsLog[p]) : opsLog'[p][k] = opsLog[p][j]
  PROVE  /\ FinalizerStays' /\ (UNCHANGED continues => Counted')
         /\ (\A p \in Ops : ~Op(p).exists /\ Live(p)' => Live(p)) => DeleteTakesBack'
<1> USE OnceParts
<1>1. FinalizerStays'
  <2>1. ASSUME NEW p \in Ops, NEW k \in 1..Len(opsLog'[p]), opsLog'[p][k].finalizer
        PROVE  Op(p)'.finalizer
    BY <2>1 DEF FinalizerStays
  <2>2. \A p \in Ops : Op(p)'.migration => Op(p)'.finalizer
    BY DEF FinalizerStays
  <2> QED BY <2>1, <2>2 DEF FinalizerStays
<1>2. UNCHANGED continues => Counted'
  BY DEF Counted
<1>3. (\A p \in Ops : ~Op(p).exists /\ Live(p)' => Live(p)) => DeleteTakesBack'
  BY DEF DeleteTakesBack
<1> QED BY <1>1, <1>2, <1>3

LEMMA LogsStay ==
  ASSUME TypeInv, OnceInv, UNCHANGED opsLog
  PROVE  /\ FinalizerStays' /\ (UNCHANGED continues => Counted')
         /\ (\A p \in Ops : ~Op(p).exists /\ Live(p)' => Live(p)) => DeleteTakesBack'
         /\ \A p \in Ops : Op(p)' = Op(p)
<1>1. \A p \in Ops : Op(p)' = Op(p)
  BY DEF Op
<1>2. \A p \in Ops : \A k \in 1..Len(opsLog'[p]) :
        \E j \in 1..Len(opsLog[p]) : opsLog'[p][k] = opsLog[p][j]
  OBVIOUS
<1> QED BY <1>1, <1>2, OpsSay

\* What they say when one is written, to a version that keeps what was recorded.
LEMMA WriteSays ==
  ASSUME TypeInv, OnceInv, NEW o \in Ops, NEW v \in OpsObj, Room(opsLog[o], MaxLag),
         opsLog' = [opsLog EXCEPT ![o] = Written(@, v)], UNCHANGED cpVars,
         Op(o).finalizer => v.finalizer, v.migration => v.finalizer,
         Op(o).continued => v.continued,
         v.exists \/ ~v.migration \/ Terminal(v.phase) \/ ~Live(o)
  PROVE  FinalizerStays' /\ Counted' /\ DeleteTakesBack'
<1> USE OnceParts
<1>1. /\ Op(o)' = v /\ \A p \in Ops \ {o} : opsLog'[p] = opsLog[p] /\ Op(p)' = Op(p)
      /\ Len(opsLog'[o]) = Len(opsLog[o]) + 1
      /\ opsLog'[o][Len(opsLog[o]) + 1] = v
      /\ \A k \in 1..Len(opsLog[o]) : opsLog'[o][k] = opsLog[o][k]
  BY OpWritten
<1>2. Len(opsLog[o]) \in Nat
  BY OpEnds
<1>3. FinalizerStays'
  <2>1. ASSUME NEW k \in 1..Len(opsLog'[o]), opsLog'[o][k].finalizer
        PROVE  v.finalizer
    <3>1. CASE k = Len(opsLog[o]) + 1
      BY <1>1, <2>1, <3>1
    <3>2. CASE k # Len(opsLog[o]) + 1
      <4>1. k \in 1..Len(opsLog[o])
        BY <1>1, <1>2, <3>2
      <4> QED BY <1>1, <2>1, <4>1 DEF FinalizerStays
    <3> QED BY <3>1, <3>2
  <2>2. ASSUME NEW p \in Ops \ {o}
        PROVE  /\ \A k \in 1..Len(opsLog'[p]) : opsLog'[p][k].finalizer => Op(p)'.finalizer
               /\ Op(p)'.migration => Op(p)'.finalizer
    BY <1>1 DEF FinalizerStays
  <2>3. \A k \in 1..Len(opsLog'[o]) : opsLog'[o][k].finalizer => Op(o)'.finalizer
    BY <1>1, <2>1
  <2>4. Op(o)'.migration => Op(o)'.finalizer
    BY <1>1
  <2> QED BY <2>2, <2>3, <2>4 DEF FinalizerStays
<1>4. Counted'
  <2>1. UNCHANGED continues
    BY DEF cpVars
  <2> QED BY <1>1, <2>1 DEF Counted
<1>5. DeleteTakesBack'
  <2>1. \A p \in Ops : Live(p)' <=> Live(p)
    BY DEF cpVars, Live
  <2> QED BY <1>1, <2>1 DEF DeleteTakesBack
<1> QED BY <1>3, <1>4, <1>5

\* A pass that moves on without a write.
LEMMA OnwardSays ==
  ASSUME TypeInv, OnceInv, UNCHANGED opsLog, ~At("idle"), ~At("finalizer"), ~Ending, Held, PassOK',
         pass'.pc \in {"slot", "members", "lock", "step", "claim", "write", "discard", "release", "drop"},
         pass'.pc = "claim" /\ pass.obj.step = "Migrating" => ~pass.obj.continued,
         TakenBack'
  PROVE  PassHasFinalizer' /\ FreshIsStored' /\ CallOnce' /\ TakenBack'
<1> USE OnceParts
<1>1. pass.op \in Ops /\ Op(pass.op)' = Op(pass.op)
  BY PassFields DEF Held, Op
<1>2. PassHasFinalizer'
  BY <1>1 DEF PassHasFinalizer, Held, At
<1>3. FreshIsStored'
  BY <1>1 DEF FreshIsStored, Held, At
<1>4. CallOnce'
  BY DEF CallOnce, Held, At
<1> QED BY <1>2, <1>3, <1>4

\* The steps of a pass that write nothing and ask nothing.
LEMMA PlainSays ==
  ASSUME TypeInv, OnceInv, UNCHANGED <<opsLog, cpVars>>, ~At("idle"), ~At("finalizer"), ~Ending,
         Onward({"slot", "members", "lock", "step", "claim", "write", "discard", "release"}),
         pass'.pc = "claim" /\ pass.obj.step = "Migrating" => ~pass.obj.continued,
         pass'.pc = "release" => pass'.then \in {"hold", "requeue"}
  PROVE  OnceInv'
<1>1. FinalizerStays' /\ Counted' /\ DeleteTakesBack'
  BY LogsStay DEF cpVars, Live
<1>2. CASE pass' = Idle
  BY <1>1, <1>2, IdleSays, OncePartsNext
<1>3. CASE pass' # Idle
  <2>1. /\ Held /\ PassOK'
        /\ pass'.pc \in {"slot", "members", "lock", "step", "claim", "write", "discard", "release"}
    BY <1>3 DEF Onward, Moved
  <2>2. TakenBack'
    BY <2>1 DEF TakenBack, At
  <2>3. PassHasFinalizer' /\ FreshIsStored' /\ CallOnce' /\ TakenBack'
    BY <2>1, <2>2, OnwardSays
  <2> QED BY <1>1, <2>3, OncePartsNext
<1> QED BY <1>2, <1>3

LEMMA OncePlain ==
  ASSUME TypeInv, OnceInv, Resolve \/ AcquireSlot \/ ReadMembers \/ ReadMembersFails \/ LockVolume
                           \/ Locked \/ Advance \/ DiscardFails
  PROVE  OnceInv'
<1>1. CASE Resolve
  <2>1. UNCHANGED <<opsLog, cpVars>> /\ ~At("idle") /\ ~At("finalizer") /\ ~Ending
    BY <1>1 DEF Resolve, At, Ending
  <2> QED BY <1>1, <2>1, ResolveMoves, PlainSays, IdleSpot DEF Onward
<1>2. CASE AcquireSlot
  <2>1. UNCHANGED <<opsLog, cpVars>> /\ ~At("idle") /\ ~At("finalizer") /\ ~Ending
    BY <1>2 DEF AcquireSlot, At, Ending
  <2> QED BY <1>2, <2>1, AcquireSlotMoves, PlainSays, IdleSpot DEF Onward
<1>3. CASE ReadMembers
  <2>1. UNCHANGED <<opsLog, cpVars>> /\ ~At("idle") /\ ~At("finalizer") /\ ~Ending
    BY <1>3 DEF ReadMembers, At, Ending
  <2> QED BY <1>3, <2>1, ReadMembersMoves, PlainSays, IdleSpot DEF Onward
<1>4. CASE ReadMembersFails
  <2>1. UNCHANGED <<opsLog, cpVars>> /\ ~At("idle") /\ ~At("finalizer") /\ ~Ending
    BY <1>4 DEF ReadMembersFails, At, Ending
  <2> QED BY <1>4, <2>1, ReadMembersFailsMoves, PlainSays, IdleSpot DEF Onward
<1>5. CASE LockVolume
  <2>1. UNCHANGED <<opsLog, cpVars>> /\ ~At("idle") /\ ~At("finalizer") /\ ~Ending
    BY <1>5 DEF LockVolume, At, Ending
  <2>2. pass'.pc # "claim"
    BY <1>5, LockVolumeMoves, IdleSpot DEF Onward
  <2>3. Onward({"slot", "members", "lock", "step", "claim", "write", "discard", "release"})
    BY <1>5, LockVolumeMoves DEF Onward
  <2> QED BY <1>5, <2>1, <2>2, <2>3, LockVolumeMoves, PlainSays
<1>6. CASE Locked
  <2>1. UNCHANGED <<opsLog, cpVars>> /\ ~At("idle") /\ ~At("finalizer") /\ ~Ending
    BY <1>6 DEF Locked, At, Ending
  <2> QED BY <1>6, <2>1, LockedMoves, PlainSays, IdleSpot DEF Onward
<1>7. CASE Advance
  <2>1. UNCHANGED <<opsLog, cpVars>> /\ ~At("idle") /\ ~At("finalizer") /\ ~Ending
    BY <1>7 DEF Advance, At, Ending
  <2> QED BY <1>7, <2>1, AdvanceMoves, PlainSays, IdleSpot DEF Onward
<1>8. CASE DiscardFails
  <2>1. UNCHANGED <<opsLog, cpVars>> /\ ~At("idle") /\ ~At("finalizer") /\ ~Ending
    BY <1>8 DEF DiscardFails, At, Ending
  <2> QED BY <1>8, <2>1, DiscardFailsMoves, PlainSays, IdleSpot DEF Onward
<1> QED BY <1>1, <1>2, <1>3, <1>4, <1>5, <1>6, <1>7, <1>8

\* The end of a release: a teardown goes on, with nothing left to take back.
LEMMA OnceReleaseSlot ==
  ASSUME TypeInv, OnceInv, ReleaseSlot
  PROVE  OnceInv'
<1>0. UNCHANGED <<opsLog, cpVars>> /\ ~At("idle") /\ ~At("finalizer") /\ At("release")
  BY DEF ReleaseSlot, At
<1>1. FinalizerStays' /\ Counted' /\ DeleteTakesBack'
  BY <1>0, LogsStay DEF cpVars, Live
<1>2. CASE pass' = Idle
  BY <1>1, <1>2, IdleSays, OncePartsNext
<1>3. CASE pass' # Idle
  <2>1. Held /\ PassOK' /\ pass'.pc \in {"drop", "write"} /\ (pass'.pc = "drop" => pass.then = "drop")
    BY <1>3, ReleaseSlotMoves DEF Onward, Moved
  <2>2. ~Ending
    BY <1>3 DEF Ending, ReleaseSlot, End
  <2>3. TakenBack'
    BY <1>0, <2>1, OnceParts DEF TakenBack, At, Held, Live, cpVars
  <2>4. PassHasFinalizer' /\ FreshIsStored' /\ CallOnce' /\ TakenBack'
    BY <1>0, <2>1, <2>2, <2>3, OnwardSays
  <2> QED BY <1>1, <2>4, OncePartsNext
<1> QED BY <1>2, <1>3

\* The cancel: from here on a teardown has nothing left to take back.
LEMMA OnceDiscardMigration ==
  ASSUME TypeInv, OnceInv, DiscardMigration
  PROVE  OnceInv'
<1>0. /\ UNCHANGED <<opsLog, continues>> /\ ~At("idle") /\ ~At("finalizer") /\ ~Ending
      /\ pass.op \in Ops
  BY PassFields DEF DiscardMigration, At, Ending
<1>1. /\ Moved /\ Held /\ pass'.pc \in {"write", "release"}
      /\ \A p \in Ops \ {pass.op} : mig'[p] = mig[p]
      /\ mig'[pass.op] = mig[pass.op] \/ ~Live(pass.op)'
      /\ pass.obj.migration => ~Live(pass.op)'
  BY DiscardMigrationMoves
<1>2. FinalizerStays' /\ Counted' /\ DeleteTakesBack'
  <2>1. \A p \in Ops : Live(p)' => Live(p)
    BY <1>0, <1>1 DEF Live, Held
  <2> QED BY <1>0, <2>1, LogsStay
<1>3. TakenBack'
  BY <1>1 DEF TakenBack, Held
<1>4. PassHasFinalizer' /\ FreshIsStored' /\ CallOnce' /\ TakenBack'
  BY <1>0, <1>1, <1>3, OnwardSays DEF Moved
<1> QED BY <1>2, <1>4, OncePartsNext

\* The calls: a migration only begins for an operation that exists, and the one
\* continue is counted against the record that allowed it.
LEMMA OnceCreateMigration ==
  ASSUME TypeInv, OnceInv, CreateMigration
  PROVE  OnceInv'
<1>0. /\ UNCHANGED <<opsLog, continues>> /\ ~At("idle") /\ ~At("finalizer") /\ ~Ending
      /\ pass.op \in Ops /\ At("call") /\ Op(pass.op).exists
  BY PassFields, OnceParts DEF CreateMigration, At, Ending, CallOnce
<1>1. Onward({"write", "discard"}) /\ \A p \in Ops \ {pass.op} : mig'[p] = mig[p]
  BY CreateMigrationMoves
<1>2. FinalizerStays' /\ Counted' /\ DeleteTakesBack'
  <2>1. \A p \in Ops : ~Op(p).exists /\ Live(p)' => Live(p)
    BY <1>0, <1>1 DEF Live
  <2> QED BY <1>0, <2>1, LogsStay
<1>3. CASE pass' = Idle
  BY <1>2, <1>3, IdleSays, OncePartsNext
<1>4. CASE pass' # Idle
  <2>1. Held /\ PassOK' /\ pass'.pc \in {"write", "discard"}
    BY <1>1, <1>4 DEF Onward, Moved
  <2>2. TakenBack'
    BY <2>1 DEF TakenBack, At
  <2>3. PassHasFinalizer' /\ FreshIsStored' /\ CallOnce' /\ TakenBack'
    BY <1>0, <2>1, <2>2, OnwardSays
  <2> QED BY <1>2, <2>3, OncePartsNext
<1> QED BY <1>3, <1>4

LEMMA OnceContinueMigration ==
  ASSUME TypeInv, OnceInv, ContinueMigration
  PROVE  OnceInv'
<1>0. /\ UNCHANGED opsLog /\ ~At("idle") /\ ~At("finalizer") /\ ~Ending /\ pass.op \in Ops
      /\ continues[pass.op] = 0 /\ Op(pass.op).continued
  BY PassFields, OnceParts DEF ContinueMigration, At, Ending, CallOnce
<1>1. /\ Onward({"write"})
      /\ \A p \in Ops : mig'[p] = mig[p] \/ mig[p] \in {"pre_created"}
      /\ \A p \in Ops \ {pass.op} : continues'[p] = continues[p]
      /\ continues'[pass.op] \in {continues[pass.op], continues[pass.op] + 1}
  BY ContinueMigrationMoves
<1>2. FinalizerStays' /\ DeleteTakesBack' /\ \A p \in Ops : Op(p)' = Op(p)
  <2>1. \A p \in Ops : Live(p)' => Live(p)
    BY <1>1 DEF Live
  <2> QED BY <1>0, <2>1, LogsStay
<1>3. Counted'
  <2> SUFFICES ASSUME NEW p \in Ops
               PROVE  continues'[p] = 0 \/ (continues'[p] = 1 /\ Op(p)'.continued)
    BY DEF Counted
  <2>1. CASE p = pass.op
    <3>1. Op(p)'.continued
      BY <1>0, <1>2, <2>1
    <3>2. continues'[p] \in {0, 1}
      BY <1>0, <1>1, <2>1
    <3> QED BY <3>1, <3>2
  <2>2. CASE p # pass.op
    BY <1>1, <1>2, <2>2, OnceParts DEF Counted
  <2> QED BY <2>1, <2>2
<1>4. CASE pass' = Idle
  BY <1>2, <1>3, <1>4, IdleSays, OncePartsNext
<1>5. CASE pass' # Idle
  <2>1. Held /\ PassOK' /\ pass'.pc = "write"
    BY <1>1, <1>5 DEF Onward, Moved
  <2>2. TakenBack'
    BY <2>1 DEF TakenBack, At
  <2>3. PassHasFinalizer' /\ FreshIsStored' /\ CallOnce' /\ TakenBack'
    BY <1>0, <2>1, <2>2, OnwardSays
  <2> QED BY <1>2, <1>3, <2>3, OncePartsNext
<1> QED BY <1>4, <1>5

\* The writers: each keeps what was recorded.
LEMMA OnceAddFinalizer ==
  ASSUME TypeInv, OnceInv, AddFinalizer
  PROVE  OnceInv'
<1> DEFINE v == [pass.obj EXCEPT !.finalizer = TRUE]
<1>0. /\ UNCHANGED cpVars /\ ~At("idle") /\ pass.op \in Ops /\ pass.obj \in OpsObj /\ pass' = Idle
      /\ pass.obj.exists
  BY PassFields, AddFinalizerMoves, OnceParts DEF AddFinalizer, At, PassHasFinalizer
<1>1. /\ v \in OpsObj /\ v.finalizer /\ v.exists /\ v.continued = pass.obj.continued
  BY <1>0 DEF OpsObj
<1>2. CASE UNCHANGED opsLog
  BY <1>0, <1>2, LogsStay, IdleSays, OncePartsNext DEF cpVars, Live
<1>3. CASE /\ pass.fresh /\ Room(opsLog[pass.op], MaxLag)
           /\ opsLog' = [opsLog EXCEPT ![pass.op] = Written(@, v)]
  <2>1. v.continued = Op(pass.op).continued
    BY <1>1, <1>3, OnceParts DEF FreshIsStored, SameStatus
  <2> HIDE DEF v
  <2>2. FinalizerStays' /\ Counted' /\ DeleteTakesBack'
    BY <1>0, <1>1, <1>3, <2>1, WriteSays
  <2> QED BY <1>0, <2>2, IdleSays, OncePartsNext
<1> QED BY <1>2, <1>3, AddFinalizerMoves

LEMMA OnceDropFinalizer ==
  ASSUME TypeInv, OnceInv, DropFinalizer
  PROVE  OnceInv'
<1> DEFINE v == [pass.obj EXCEPT !.exists = FALSE]
<1>0. /\ UNCHANGED cpVars /\ ~At("idle") /\ pass.op \in Ops /\ pass.obj \in OpsObj /\ pass' = Idle
      /\ At("drop")
  BY PassFields, DropFinalizerMoves DEF DropFinalizer, At
<1>1. /\ pass.obj.finalizer
      /\ pass.obj.migration /\ ~Terminal(pass.obj.phase) => ~Live(pass.op)
  BY <1>0, OnceParts DEF PassHasFinalizer, Ending, At, TakenBack
<1>2. /\ v \in OpsObj /\ v.finalizer /\ v.continued = pass.obj.continued
      /\ v.migration = pass.obj.migration /\ v.phase = pass.obj.phase
  BY <1>0, <1>1 DEF OpsObj
<1>3. CASE UNCHANGED opsLog
  BY <1>0, <1>3, LogsStay, IdleSays, OncePartsNext DEF cpVars, Live
<1>4. CASE /\ pass.fresh /\ Room(opsLog[pass.op], MaxLag)
           /\ opsLog' = [opsLog EXCEPT ![pass.op] = Written(@, v)]
  <2>1. v.continued = Op(pass.op).continued
    BY <1>2, <1>4, OnceParts DEF FreshIsStored, SameStatus
  <2> HIDE DEF v
  <2>2. FinalizerStays' /\ Counted' /\ DeleteTakesBack'
    BY <1>0, <1>1, <1>2, <1>4, <2>1, WriteSays
  <2> QED BY <1>0, <2>2, IdleSays, OncePartsNext
<1> QED BY <1>3, <1>4, DropFinalizerMoves

LEMMA OnceClaim ==
  ASSUME TypeInv, OnceInv, Claim
  PROVE  OnceInv'
<1>0. /\ UNCHANGED cpVars /\ ~At("idle") /\ ~At("finalizer") /\ ~Ending /\ pass.op \in Ops
      /\ At("claim") /\ Op(pass.op) \in OpsObj /\ pass.obj \in OpsObj
  BY PassFields, OpEnds DEF Claim, At, Ending
<1>1. CASE UNCHANGED opsLog /\ Onward({"write"})
  BY <1>0, <1>1, PlainSays, IdleSpot DEF Onward
<1>2. CASE /\ pass.fresh /\ Room(opsLog[pass.op], MaxLag) /\ Claimed \in OpsObj
           /\ opsLog' = [opsLog EXCEPT ![pass.op] = Written(@, Claimed)]
           /\ pass'.pc = "call" /\ pass'.op = pass.op /\ pass'.obj = Claimed
           /\ pass'.fresh = pass.fresh
  <2>1. /\ Op(pass.op).exists /\ SameStatus(pass.obj, Op(pass.op)) /\ Op(pass.op).finalizer
    BY <1>0, <1>2, OnceParts DEF FreshIsStored, PassHasFinalizer
  <2>2. /\ Claimed.exists /\ Claimed.finalizer /\ Claimed.step = pass.obj.step
        /\ Op(pass.op).continued => Claimed.continued
        /\ pass.obj.step = "Migrating" => Claimed.continued
    BY <1>0, <2>1 DEF Claimed, OpsObj, SameStatus
  <2>3. FinalizerStays' /\ Counted' /\ DeleteTakesBack'
    BY <1>0, <1>2, <2>2, WriteSays
  <2>4. Op(pass.op)' = Claimed
    <3>1. \A p \in Ops : p = pass.op => Op(p)' = Claimed
      BY <1>0, <1>2, OpWritten
    <3> QED BY <1>0, <1>2, <3>1 DEF Op
  <2>5. PassHasFinalizer'
    BY <1>2, <2>2, <2>4 DEF PassHasFinalizer, At
  <2>6. FreshIsStored'
    BY <1>2, <2>2, <2>4 DEF FreshIsStored, At, SameStatus
  <2>7. CallOnce'
    <3>1. pass.obj.step = "Migrating" => continues[pass.op] = 0
      <4>1. pass.obj.step = "Migrating" => ~Op(pass.op).continued
        BY <1>0, <2>1, OnceParts DEF CallOnce, SameStatus
      <4> QED BY <1>0, <4>1, OnceParts DEF Counted
    <3> QED BY <1>0, <1>2, <2>2, <2>4, <3>1 DEF CallOnce, At, cpVars
  <2>8. TakenBack'
    BY <1>2 DEF TakenBack, At
  <2> QED BY <2>3, <2>5, <2>6, <2>7, <2>8, OncePartsNext
<1> QED BY <1>1, <1>2, ClaimMoves

LEMMA OnceWriteStatus ==
  ASSUME TypeInv, OnceInv, WriteStatus
  PROVE  OnceInv'
<1> DEFINE v == WithStatus(Op(pass.op), Mutated)
<1>0. /\ UNCHANGED cpVars /\ ~At("idle") /\ ~At("finalizer") /\ ~Ending /\ pass.op \in Ops
      /\ At("write") /\ Op(pass.op) \in OpsObj /\ pass.obj \in OpsObj /\ WellFormed /\ TypeOK
  BY PassFields, OpEnds DEF WriteStatus, At, Ending, TypeInv
<1>1. pass.obj.exists /\ pass.obj.finalizer /\ Op(pass.op).finalizer
  BY <1>0, OnceParts DEF PassHasFinalizer
<1>2. CASE UNCHANGED opsLog /\ pass' = Idle
  BY <1>0, <1>2, LogsStay, IdleSays, OncePartsNext DEF cpVars, Live
<1>3. CASE /\ pass.fresh \/ (WriteBase = Op(pass.op) /\ WriteBase.exists)
           /\ Room(opsLog[pass.op], MaxLag) /\ v \in OpsObj
           /\ opsLog' = [opsLog EXCEPT ![pass.op] = Written(@, v)]
           /\ \/ pass' = Idle
              \/ /\ pass'.op = pass.op /\ pass'.obj = WithStatus(pass.obj, Mutated)
                 /\ pass'.fresh = TRUE
                 /\ pass'.pc = "write" \/ (pass'.pc = "release" /\ pass'.then = "end")
  <2>1. WriteBase.continued = Op(pass.op).continued /\ Op(pass.op).exists
    BY <1>3, OnceParts DEF FreshIsStored, SameStatus, WriteBase
  <2>2. Mutated.continued = WriteBase.continued /\ Mutated \in OpsObj
    BY <1>0, MutateType, WriteStatusMoves DEF Mutated
  <2>3. /\ v.exists /\ v.finalizer /\ v.continued = Op(pass.op).continued
    BY <1>0, <1>1, <2>1, <2>2 DEF WithStatus, OpsObj
  <2>4. SameStatus(WithStatus(pass.obj, Mutated), v)
    BY <1>0, <2>2 DEF WithStatus, OpsObj, SameStatus
  <2>5. WithStatus(pass.obj, Mutated).exists /\ WithStatus(pass.obj, Mutated).finalizer
    BY <1>0, <1>1 DEF WithStatus, OpsObj
  <2> HIDE DEF v
  <2>6. FinalizerStays' /\ Counted' /\ DeleteTakesBack'
    BY <1>0, <1>3, <2>3, WriteSays
  <2>7. CASE pass' = Idle
    BY <2>6, <2>7, IdleSays, OncePartsNext
  <2>8. CASE pass' # Idle
    <3>1. pass'.op = pass.op /\ Op(pass.op)' = v
      <4>1. \A p \in Ops : p = pass.op => Op(p)' = v
        BY <1>0, <1>3, OpWritten
      <4> QED BY <1>0, <1>3, <2>8, <4>1 DEF Op
    <3>2. PassHasFinalizer'
      BY <1>3, <2>3, <2>5, <2>8, <3>1 DEF PassHasFinalizer, At
    <3>3. FreshIsStored'
      BY <1>3, <2>3, <2>4, <2>8, <3>1 DEF FreshIsStored, At
    <3>4. CallOnce' /\ TakenBack'
      BY <1>3, <2>8 DEF CallOnce, TakenBack, At
    <3> QED BY <2>6, <3>2, <3>3, <3>4, OncePartsNext
  <2> QED BY <2>7, <2>8
<1> QED BY <1>2, <1>3, WriteStatusMoves

LEMMA OnceReconcile ==
  ASSUME TypeInv, OnceInv, NEW o \in Ops, Reconcile(o)
  PROVE  OnceInv'
<1>0. UNCHANGED <<opsLog, cpVars>>
  BY DEF Reconcile
<1>1. FinalizerStays' /\ Counted' /\ DeleteTakesBack' /\ Op(o)' = Op(o)
  BY <1>0, LogsStay DEF cpVars, Live
<1>2. CASE pass' = Idle
  BY <1>1, <1>2, IdleSays, OncePartsNext
<1>3. CASE pass' # Idle
  <2>1. /\ pass'.op = o /\ pass'.obj = Cached(opsLog[o])
        /\ pass'.fresh = Current(opsLog[o]) /\ pass'.obj.exists
        /\ \/ /\ pass'.pc \in {"finalizer", "resolve"}
              /\ pass'.pc = "resolve" => pass'.obj.finalizer
           \/ /\ pass'.pc \in {"discard", "release"} /\ pass'.obj.finalizer
           \/ pass'.pc = "release" /\ pass'.then = "end"
        /\ pass'.pc = "release" <=> Terminal(pass'.obj.phase)
    BY <1>3, ReconcileMoves
  <2>2. /\ Cached(opsLog[o]) = opsLog[o][1] /\ Len(opsLog[o]) \in Nat \ {0}
        /\ Current(opsLog[o]) => Cached(opsLog[o]) = Op(o)
    BY OpEnds
  <2>3. Op(pass.op)' = Op(o)
    BY <1>1, <2>1 DEF Op
  <2>4. pass'.obj.finalizer => Op(o).finalizer
    BY <2>1, <2>2, OnceParts DEF FinalizerStays
  <2>5. PassHasFinalizer'
    BY <2>1, <2>3, <2>4 DEF PassHasFinalizer, At, Ending
  <2>6. FreshIsStored'
    BY <2>1, <2>2, <2>3 DEF FreshIsStored, At, SameStatus
  <2>7. CallOnce'
    BY <2>1 DEF CallOnce, At
  <2>8. TakenBack'
    BY <2>1 DEF TakenBack, At
  <2> QED BY <1>1, <2>5, <2>6, <2>7, <2>8, OncePartsNext
<1> QED BY <1>2, <1>3

\* Steps that leave the operations, the pass and the control plane alone.
LEMMA OnceElsewhere ==
  ASSUME TypeInv, OnceInv, UNCHANGED <<opsLog, pass, cpVars>>
  PROVE  OnceInv'
<1>1. FinalizerStays' /\ Counted' /\ DeleteTakesBack'
  BY LogsStay DEF cpVars, Live
<1>2. PassHasFinalizer' /\ FreshIsStored'
  BY OnceParts DEF PassHasFinalizer, FreshIsStored, At, Ending, Op
<1>3. CallOnce' /\ TakenBack'
  BY OnceParts DEF CallOnce, TakenBack, At, Op, cpVars, Live
<1> QED BY <1>1, <1>2, <1>3, OncePartsNext

LEMMA OnceDeliverOp ==
  ASSUME TypeInv, OnceInv, NEW o \in Ops, DeliverOp(o)
  PROVE  OnceInv'
<1>0. UNCHANGED <<pass, cpVars>>
  BY DEF DeliverOp
<1>1. /\ \A p \in Ops : Op(p)' = Op(p)
      /\ \A p \in Ops : \A k \in 1..Len(opsLog'[p]) :
           \E j \in 1..Len(opsLog[p]) : opsLog'[p][k] = opsLog[p][j]
  <2>1. /\ \A p \in Ops : Op(p)' = Op(p)
        /\ \A p \in Ops \ {o} : opsLog'[p] = opsLog[p]
        /\ \A k \in 1..Len(opsLog'[o]) :
             k + 1 \in 1..Len(opsLog[o]) /\ opsLog'[o][k] = opsLog[o][k + 1]
    BY OpDelivered
  <2> QED BY <2>1
<1>2. FinalizerStays' /\ Counted' /\ DeleteTakesBack'
  BY <1>0, <1>1, OpsSay DEF cpVars, Live
<1>3. pass.op \in Ops => Op(pass.op)' = Op(pass.op)
  <2>1. pass.op \in Ops => Stored(opsLog'[pass.op]) = Stored(opsLog[pass.op])
    BY <1>1 DEF Op
  <2> QED BY <1>0, <2>1 DEF Op
<1>4. ~At("idle") => pass.op \in Ops
  BY PassFields
<1>5. PassHasFinalizer' /\ FreshIsStored'
  BY <1>0, <1>3, <1>4, OnceParts DEF PassHasFinalizer, FreshIsStored, At, Ending
<1>6. CallOnce'
  BY <1>0, <1>3, <1>4, OnceParts DEF CallOnce, At, cpVars
<1>7. TakenBack'
  BY <1>0, OnceParts DEF TakenBack, At, cpVars, Live
<1> QED BY <1>2, <1>5, <1>6, <1>7, OncePartsNext

\* A clock changes a lease or a deadline in every copy alike.
ClockKeeps(g) ==
  /\ \A v \in OpsObj : /\ g[v].exists = v.exists /\ g[v].finalizer = v.finalizer
                       /\ g[v].migration = v.migration /\ g[v].continued = v.continued
                       /\ g[v].phase = v.phase /\ g[v].step = v.step /\ g[v].deleted = v.deleted
  /\ \A v, w \in OpsObj : SameStatus(v, w) => SameStatus(g[v], g[w])

LEMMA ClocksKeep ==
  ClockKeeps(LeaseClock) /\ \A s \in WorkSteps : ClockKeeps(DeadlineClock(s))
<1>1. ClockKeeps(LeaseClock)
  <2>1. \A v \in OpsObj : LeaseClock[v] = Expired(v)
    BY DEF LeaseClock
  <2>2. \A v \in OpsObj :
          /\ Expired(v).exists = v.exists /\ Expired(v).finalizer = v.finalizer
          /\ Expired(v).migration = v.migration /\ Expired(v).continued = v.continued
          /\ Expired(v).phase = v.phase /\ Expired(v).step = v.step
          /\ Expired(v).deleted = v.deleted
    BY DEF Expired, OpsObj
  <2>3. \A v, w \in OpsObj : SameStatus(v, w) => SameStatus(Expired(v), Expired(w))
    BY DEF Expired, OpsObj, SameStatus
  <2> QED BY <2>1, <2>2, <2>3 DEF ClockKeeps
<1>2. ASSUME NEW s \in WorkSteps PROVE ClockKeeps(DeadlineClock(s))
  <2>1. \A v \in OpsObj : DeadlineClock(s)[v] = Overdue(v, s)
    BY DEF DeadlineClock
  <2>2. \A v \in OpsObj :
          /\ Overdue(v, s).exists = v.exists /\ Overdue(v, s).finalizer = v.finalizer
          /\ Overdue(v, s).migration = v.migration /\ Overdue(v, s).continued = v.continued
          /\ Overdue(v, s).phase = v.phase /\ Overdue(v, s).step = v.step
          /\ Overdue(v, s).deleted = v.deleted
    BY DEF Overdue, OpsObj
  <2>3. \A v, w \in OpsObj : SameStatus(v, w) => SameStatus(Overdue(v, s), Overdue(w, s))
    BY DEF Overdue, OpsObj, SameStatus
  <2> QED BY <2>1, <2>2, <2>3 DEF ClockKeeps
<1> QED BY <1>1, <1>2

LEMMA OnceClock ==
  ASSUME TypeInv, OnceInv, NEW o \in Ops, NEW g \in [OpsObj -> OpsObj], ClockKeeps(g),
         opsLog' = [opsLog EXCEPT ![o] = [i \in 1..Len(opsLog[o]) |-> g[opsLog[o][i]]]],
         pass' = IF pass.op = o THEN [pass EXCEPT !.obj = g[pass.obj]] ELSE pass,
         UNCHANGED cpVars
  PROVE  OnceInv'
<1> USE OnceParts DEF ClockKeeps
<1>1. /\ Op(o)' = g[Op(o)]
      /\ \A p \in Ops \ {o} : opsLog'[p] = opsLog[p] /\ Op(p)' = Op(p)
      /\ Len(opsLog'[o]) = Len(opsLog[o])
      /\ \A k \in 1..Len(opsLog[o]) : opsLog'[o][k] = g[opsLog[o][k]]
  BY OpAged
<1>2. /\ pass'.op = pass.op /\ pass'.pc = pass.pc
      /\ pass'.then = pass.then /\ pass'.fresh = pass.fresh
      /\ pass'.obj = IF pass.op = o THEN g[pass.obj] ELSE pass.obj
  BY ClockMoves
<1>3. /\ Op(o) \in OpsObj /\ \A k \in 1..Len(opsLog[o]) : opsLog[o][k] \in OpsObj
      /\ pass.obj \in OpsObj /\ (~At("idle") => pass.op \in Ops)
  BY OpEnds, PassFields
<1>4. FinalizerStays'
  <2>1. /\ \A k \in 1..Len(opsLog'[o]) : opsLog'[o][k].finalizer => Op(o)'.finalizer
        /\ Op(o)'.migration => Op(o)'.finalizer
    BY <1>1, <1>3 DEF FinalizerStays
  <2>2. ASSUME NEW p \in Ops \ {o}
        PROVE  /\ \A k \in 1..Len(opsLog'[p]) : opsLog'[p][k].finalizer => Op(p)'.finalizer
               /\ Op(p)'.migration => Op(p)'.finalizer
    BY <1>1 DEF FinalizerStays
  <2> QED BY <2>1, <2>2 DEF FinalizerStays
<1>5. Counted'
  BY <1>1, <1>3 DEF Counted, cpVars
<1>6. DeleteTakesBack'
  <2>1. \A p \in Ops : Live(p)' <=> Live(p)
    BY DEF cpVars, Live
  <2> QED BY <1>1, <1>3, <2>1 DEF DeleteTakesBack
<1>7. pass.op \in Ops => /\ Op(pass.op)' = IF pass.op = o THEN g[Op(pass.op)] ELSE Op(pass.op)
                         /\ Op(pass.op) \in OpsObj
  <2>1. \A p \in Ops : /\ Op(p)' = IF p = o THEN g[Op(p)] ELSE Op(p)
                       /\ Op(p) \in OpsObj
    BY <1>1, OpEnds
  <2> QED BY <1>2, <2>1 DEF Op
<1>8. PassHasFinalizer'
  BY <1>2, <1>3, <1>7 DEF PassHasFinalizer, At, Ending
<1>9. FreshIsStored'
  BY <1>2, <1>3, <1>7 DEF FreshIsStored, At
<1>10. CallOnce'
  BY <1>2, <1>3, <1>7 DEF CallOnce, At, cpVars
<1>11. TakenBack'
  BY <1>2, <1>3 DEF TakenBack, At, cpVars, Live
<1> QED BY <1>4, <1>5, <1>6, <1>8, <1>9, <1>10, <1>11, OncePartsNext

\* A user's write of operation o, which the pass on it has not seen.
LEMMA OnceUser ==
  ASSUME TypeInv, OnceInv, NEW o \in Ops, NEW v \in OpsObj, Room(opsLog[o], MaxLag),
         opsLog' = [opsLog EXCEPT ![o] = Written(@, v)], Disturb(o), UNCHANGED cpVars,
         v.finalizer = Op(o).finalizer, v.migration = Op(o).migration,
         v.continued = Op(o).continued, v.exists \/ ~v.finalizer, Op(o).exists
  PROVE  OnceInv'
<1> USE OnceParts
<1>1. FinalizerStays' /\ Counted' /\ DeleteTakesBack'
  <2>1. v.migration => v.finalizer
    BY DEF FinalizerStays
  <2> QED BY <2>1, WriteSays
<1>2. /\ pass'.op = pass.op /\ pass'.pc = pass.pc /\ pass'.obj = pass.obj
      /\ pass'.then = pass.then /\ pass'.fresh = (pass.fresh /\ pass.op # o)
  BY DisturbMoves
<1>3. ~At("idle") => pass.op \in Ops
  BY PassFields
<1>4. pass.op \in Ops => Op(pass.op)' = IF pass.op = o THEN v ELSE Op(pass.op)
  <2>1. \A p \in Ops : Op(p)' = IF p = o THEN v ELSE Op(p)
    BY OpWritten
  <2> QED BY <1>2, <2>1 DEF Op
<1>5. PassHasFinalizer'
  BY <1>2, <1>3, <1>4 DEF PassHasFinalizer, At, Ending
<1>6. FreshIsStored'
  BY <1>2, <1>3, <1>4 DEF FreshIsStored, At
<1>7. CallOnce'
  <2>1. At("call") => Op(pass.op).finalizer
    BY DEF PassHasFinalizer, At, Ending
  <2> QED BY <1>2, <1>3, <1>4, <2>1 DEF CallOnce, At, cpVars
<1>8. TakenBack'
  BY <1>2 DEF TakenBack, At, cpVars, Live
<1> QED BY <1>1, <1>5, <1>6, <1>7, <1>8, OncePartsNext

LEMMA OnceCpCopy ==
  ASSUME TypeInv, OnceInv, NEW o \in Ops, CpCopy(o)
  PROVE  OnceInv'
<1>0. UNCHANGED <<opsLog, pass, continues>>
  BY DEF CpCopy
<1>1. \A p \in Ops : Live(p)' => Live(p)
  BY CpCopyMoves DEF Live
<1>2. FinalizerStays' /\ Counted' /\ DeleteTakesBack'
  BY <1>0, <1>1, LogsStay
<1>3. PassHasFinalizer' /\ FreshIsStored' /\ CallOnce'
  BY <1>0, OnceParts DEF PassHasFinalizer, FreshIsStored, CallOnce, At, Ending, Op
<1>4. TakenBack'
  <2>1. ~At("idle") => pass.op \in Ops
    BY PassFields
  <2>2. pass.op \in Ops => (Live(pass.op)' => Live(pass.op))
    BY <1>0, <1>1 DEF Live
  <2> QED BY <1>0, <2>1, <2>2, OnceParts DEF TakenBack, At
<1> QED BY <1>2, <1>3, <1>4, OncePartsNext

LEMMA OnceInit ==
  ASSUME Init, TypeInv
  PROVE  OnceInv
<1>1. pass = Idle /\ continues = [o \in Ops |-> 0]
  BY Zenon DEF Init
<1>2. PICK p \in Ops : opsLog = [o \in Ops |->
              <<[NewOp EXCEPT !.exists = o = p \/ "alone" \notin env]>>]
  BY Zenon DEF Init
<1>3. \A o \in Ops : Len(opsLog[o]) = 1 /\ ~opsLog[o][1].finalizer /\ ~opsLog[o][1].migration
  <2> TAKE o \in Ops
  <2> DEFINE b == (o = p \/ "alone" \notin env)
  <2>1. opsLog[o] = <<[NewOp EXCEPT !.exists = b]>>
    BY <1>2
  <2> HIDE DEF b
  <2> DEFINE x == [NewOp EXCEPT !.exists = b]
  <2>2. ~x.finalizer /\ ~x.migration
    BY DEF NewOp
  <2> HIDE DEF x
  <2>3. opsLog[o] = <<x>>
    BY <2>1 DEF x
  <2> QED BY <2>2, <2>3
<1>4. \A o \in Ops : ~Op(o).migration
  BY <1>3 DEF Op, Stored
<1>5. FinalizerStays /\ DeleteTakesBack
  BY <1>3, <1>4 DEF FinalizerStays, DeleteTakesBack
<1>6. Counted
  BY <1>1 DEF Counted
<1>7. pass.pc = "idle" /\ pass.fresh = FALSE
  BY <1>1 DEF Idle
<1>8. PassHasFinalizer /\ FreshIsStored /\ CallOnce /\ TakenBack
  BY <1>7, Zenon DEF PassHasFinalizer, FreshIsStored, CallOnce, TakenBack, At
<1> QED BY <1>5, <1>6, <1>8, OnceParts

LEMMA OnceStep ==
  ASSUME TypeInv, OnceInv, [Next]_vars
  PROVE  OnceInv'
<1>0. CASE UNCHANGED vars
  BY <1>0, OnceElsewhere DEF vars, moving, cpVars
<1>1. CASE Resolve \/ AcquireSlot \/ ReadMembers \/ ReadMembersFails \/ LockVolume
           \/ Locked \/ Advance \/ DiscardFails
  BY <1>1, OncePlain
<1>2. CASE AddFinalizer
  BY <1>2, OnceAddFinalizer
<1>3. CASE Claim
  BY <1>3, OnceClaim
<1>4. CASE CreateMigration
  BY <1>4, OnceCreateMigration
<1>5. CASE ContinueMigration
  BY <1>5, OnceContinueMigration
<1>6. CASE DiscardMigration
  BY <1>6, OnceDiscardMigration
<1>7. CASE WriteStatus
  BY <1>7, OnceWriteStatus
<1>8. ASSUME NEW v \in Vols, ReleaseVolume(v) PROVE OnceInv'
  BY <1>8, OnceElsewhere DEF ReleaseVolume
<1>9. CASE ReleaseSlot
  BY <1>9, OnceReleaseSlot
<1>10. CASE DropFinalizer
  BY <1>10, OnceDropFinalizer
<1>11. ASSUME NEW o \in Ops, Reconcile(o) PROVE OnceInv'
  BY <1>11, OnceReconcile
<1>12. ASSUME NEW o \in Ops, DeliverOp(o) PROVE OnceInv'
  BY <1>12, OnceDeliverOp
<1>13. ASSUME NEW o \in Ops, LeaseExpires(o) PROVE OnceInv'
  BY <1>13, LeaseIsClock, ClocksKeep, OnceClock DEF LeaseExpires
<1>14. ASSUME NEW o \in Ops, NEW s \in WorkSteps, DeadlinePasses(o, s) PROVE OnceInv'
  BY <1>14, DeadlineIsClock, ClocksKeep, OnceClock DEF DeadlinePasses
<1>15. ASSUME NEW o \in Ops, SetAbort(o) PROVE OnceInv'
  <2> DEFINE v == [Op(o) EXCEPT !.abort = TRUE]
  <2>1. /\ v \in OpsObj /\ Op(o) \in OpsObj /\ Room(opsLog[o], MaxLag) /\ Op(o).exists
        /\ opsLog' = [opsLog EXCEPT ![o] = Written(@, v)] /\ Disturb(o) /\ UNCHANGED cpVars
    BY <1>15, SetAbortMoves, OpEnds DEF SetAbort
  <2>2. /\ v.finalizer = Op(o).finalizer /\ v.migration = Op(o).migration
        /\ v.continued = Op(o).continued /\ v.exists = Op(o).exists
    BY <2>1 DEF OpsObj
  <2> HIDE DEF v
  <2> QED BY <2>1, <2>2, OnceUser
<1>16. ASSUME NEW o \in Ops, Delete(o) PROVE OnceInv'
  <2> DEFINE v == Removed(Op(o))
  <2>1. /\ v \in OpsObj /\ Op(o) \in OpsObj /\ Room(opsLog[o], MaxLag) /\ Op(o).exists
        /\ opsLog' = [opsLog EXCEPT ![o] = Written(@, v)] /\ Disturb(o) /\ UNCHANGED cpVars
    BY <1>16, DeleteMoves, OpEnds DEF Delete, Removed
  <2>2. /\ v.finalizer = Op(o).finalizer /\ v.migration = Op(o).migration
        /\ v.continued = Op(o).continued /\ (v.exists \/ ~v.finalizer)
    BY <2>1 DEF OpsObj, Removed
  <2> HIDE DEF v
  <2> QED BY <2>1, <2>2, OnceUser
<1>17. ASSUME NEW o \in Ops, CpCopy(o) PROVE OnceInv'
  BY <1>17, OnceCpCopy
<1>18. ASSUME NEW v \in Vols, DeliverPv(v) \/ VolumeWrite(v) PROVE OnceInv'
  BY <1>18, OnceElsewhere DEF DeliverPv, VolumeWrite
<1>19. CASE Crash
  <2>1. UNCHANGED <<opsLog, cpVars>> /\ pass' = Idle
    BY <1>19 DEF Crash
  <2> QED BY <2>1, LogsStay, IdleSays, OncePartsNext DEF cpVars, Live
<1>20. CASE Worker
  BY <1>20, <1>1, <1>2, <1>3, <1>4, <1>5, <1>6, <1>7, <1>8, <1>9, <1>10, <1>11
     DEF Worker, PassStep
<1>21. CASE Environment
  BY <1>21, <1>12, <1>13, <1>14, <1>15, <1>16, <1>17, <1>18, <1>19 DEF Environment
<1> QED BY <1>0, <1>20, <1>21 DEF Next

LEMMA OnceAlways == Spec => []OnceInv
<1>1. Init /\ TypeInv => OnceInv
  BY OnceInit
<1>2. TypeInv /\ OnceInv /\ [Next]_vars => OnceInv'
  BY OnceStep
<1> QED BY <1>1, <1>2, TypeAlways, PTL DEF Spec

\* Whatever lags, crashes or is lost, no migration is continued twice: the record of the
\* continue travels in the claim that allows it, and a claim on a stale copy does not
\* land (copy and once, steps.go).
THEOREM ContinueOnce == Spec => []ContinuedOnce
<1>1. TypeInv /\ OnceInv => ContinuedOnce
  BY OnceParts DEF Counted, ContinuedOnce
<1> QED BY <1>1, TypeAlways, OnceAlways, PTL

\* An operation that goes before its end has had the migration it recorded cancelled:
\* the finalizer is there before anything is recorded, stays until the cancel is
\* confirmed, and is dropped only on the version the cancel was decided on (teardown).
THEOREM NothingAbandoned == Spec => []DeleteTakesBack
<1>1. OnceInv => DeleteTakesBack
  BY OnceParts
<1> QED BY <1>1, OnceAlways, PTL

-------------------------------------------------------------------------------
(* A running operation holds its locks, as long as a pass begins with a    *)
(* read of its operation that has caught up.  The caches of volumes, and   *)
(* of the other operations a pass asks about, may lag.                     *)

PromptOps == "opslag" \notin env

Hold(o) ==
  slot = o /\ \A v \in Siblings(Vol[o]) \ Later : Pv(v).there = "no" \/ Pv(v).lock = o

\* What a cache can see of an operation's end is true of the stored one.
EndsForGood ==
  \A o \in Ops : \A k \in 1..Len(opsLog[o]) :
    /\ ~opsLog[o][k].exists => ~Op(o).exists
    /\ Terminal(opsLog[o][k].phase) => Terminal(Op(o).phase)

\* The points of a pass before its first write.
Early == {"finalizer", "resolve", "slot", "members", "lock", "step", "claim"}

\* The pass works on the status the API server stores: only the worker writes it.  A
\* copy whose patch would still land knows of every deletion, too.
PassInStep ==
  ~At("idle") =>
    /\ SameStatus(pass.obj, Op(pass.op))
    /\ pass.obj.deleted => Op(pass.op).deleted
    /\ At("finalizer") \/ Ending \/ Op(pass.op).exists
    /\ pass.fresh /\ pass.pc \in Early => pass.obj.deleted = Op(pass.op).deleted

\* What the pass has found out about its operation by the time it is here.
Placed ==
  /\ pass.pc \in {"finalizer", "resolve", "slot", "members", "lock", "step", "claim", "call"} =>
       ~pass.obj.deleted
  /\ ~At("idle") /\ ~At("release") /\ ~At("drop") => ~Terminal(pass.obj.phase)
  /\ At("claim") \/ At("call") => pass.obj.step # ""
  /\ At("discard") /\ pass.then = "drop" => pass.obj.deleted
  /\ At("release") =>
       /\ pass.then = "end" => Terminal(pass.obj.phase)
       /\ pass.then = "drop" => pass.obj.deleted
       /\ pass.then \in {"hold", "requeue"} => pass.obj.step = "" /\ ~Terminal(pass.obj.phase)

\* An operation at work, in the eyes of the pass that runs on it: a deletion it has
\* not read changes nothing before its end.
Engaged(o) ==
  /\ Op(o).exists /\ ~Terminal(Op(o).phase) /\ Op(o).step # ""
  /\ ~Op(o).deleted \/ (~At("idle") /\ pass.op = o /\ ~pass.obj.deleted)

EngagedHolds == \A o \in Ops : Engaged(o) => Hold(o)

\* The locks a pass has by the time it is here.
PassHolds ==
  /\ At("members") => slot = pass.op
  /\ At("lock") =>
       /\ slot = pass.op
       /\ \A v \in Siblings(Vol[pass.op]) \ Later :
            Pv(v).there = "no" \/ Pv(v).lock = pass.op \/ v \in pass.todo
  /\ At("step") \/ Enters => Hold(pass.op)

HoldInv == EndsForGood /\ PassInStep /\ Placed /\ EngagedHolds /\ PassHolds
PromptHold == PromptOps => HoldInv

LEMMA HoldParts ==
  HoldInv <=> EndsForGood /\ PassInStep /\ Placed /\ EngagedHolds /\ PassHolds
  BY DEF HoldInv

LEMMA HoldPartsNext ==
  ASSUME EndsForGood', PassInStep', Placed', EngagedHolds', PassHolds'
  PROVE  HoldInv'
  BY DEF HoldInv

LEMMA IdleHolds ==
  ASSUME pass' = Idle
  PROVE  PassInStep' /\ Placed' /\ PassHolds'
<1>1. pass'.pc = "idle"
  BY IdleSpot
<1>2. PassInStep' /\ PassHolds'
  BY <1>1, Zenon DEF PassInStep, PassHolds, At, Enters
<1>3. Placed'
  BY <1>1 DEF Placed, At
<1> QED BY <1>2, <1>3

\* Locks nobody touches.
LEMMA LocksStay ==
  ASSUME TypeInv, UNCHANGED slot, \A v \in Vols : Pv(v)' = Pv(v)
  PROVE  \A o : Hold(o)' <=> Hold(o)
<1>1. \A o : Siblings(Vol[o]) \subseteq Vols
  BY DEF Siblings
<1> QED BY <1>1 DEF Hold, Siblings

\* An operation at work is so before the step, and keeps what it holds.
LEMMA EngagedKeep ==
  ASSUME HoldInv, \A o \in Ops : Engaged(o)' => Engaged(o),
         \A o \in Ops : Engaged(o) /\ Hold(o) => Hold(o)'
  PROVE  EngagedHolds'
  BY HoldParts DEF EngagedHolds

\* The pass works for an operation at work, which holds its locks.
LEMMA PassEngaged ==
  ASSUME TypeInv, HoldInv, ~At("idle"), ~At("finalizer"), ~Ending, ~pass.obj.deleted,
         ~Terminal(pass.obj.phase), pass.obj.step # ""
  PROVE  Engaged(pass.op) /\ Hold(pass.op)
<1>1. pass.op \in Ops
  BY PassFields
<1>2. Engaged(pass.op)
  BY HoldParts DEF Engaged, PassInStep, SameStatus
<1> QED BY <1>1, <1>2, HoldParts DEF EngagedHolds

\* The slot has one holder.
LEMMA OneEngaged ==
  ASSUME TypeInv, HoldInv, NEW o \in Ops, Engaged(o)
  PROVE  slot = o
  BY HoldParts DEF EngagedHolds, Hold

\* Who may be broken into is not at work, whatever the cache it is judged by lags.
LEMMA StaleIsNotEngaged ==
  ASSUME TypeInv, HoldInv, NEW o \in Ops, Takeable(o)
  PROVE  ~Engaged(o)
<1>1. ~Cached(opsLog[o]).exists \/ Terminal(Cached(opsLog[o]).phase)
  BY VolumeOpsAssumption DEF Takeable, LockIsStale
<1>2. Cached(opsLog[o]) = opsLog[o][1] /\ Len(opsLog[o]) \in Nat \ {0}
  BY OpEnds
<1>3. 1 \in 1..Len(opsLog[o])
  BY <1>2
<1>4. ~Op(o).exists \/ Terminal(Op(o).phase)
  BY <1>1, <1>2, <1>3, HoldParts DEF EndsForGood
<1> QED BY <1>4 DEF Engaged

\* A pass that moves on with what it had read leaves everybody as they were.
LEMMA MoveHolds ==
  ASSUME TypeInv, HoldInv, UNCHANGED opsLog, ~At("idle"), ~At("finalizer"), ~Ending, Held,
         pass'.pc # "idle", pass'.pc \in Early => pass.pc \in Early
  PROVE  EndsForGood' /\ PassInStep' /\ \A o \in Ops : Engaged(o)' <=> Engaged(o)
<1>1. EndsForGood'
  BY HoldParts DEF EndsForGood, Op
<1>2. PassInStep'
  <2>1. Op(pass.op)' = Op(pass.op)
    BY DEF Held, Op
  <2> QED BY <2>1, HoldParts DEF PassInStep, At, Held
<1>3. \A o \in Ops : Engaged(o)' <=> Engaged(o)
  BY DEF Engaged, At, Held, Op
<1> QED BY <1>1, <1>2, <1>3

\* A pass that ends.
LEMMA EndHolds ==
  ASSUME TypeInv, HoldInv, UNCHANGED opsLog, pass' = Idle
  PROVE  /\ EndsForGood' /\ PassInStep' /\ Placed' /\ PassHolds'
         /\ \A o \in Ops : Engaged(o)' => Engaged(o)
<1>1. EndsForGood'
  BY HoldParts DEF EndsForGood, Op
<1>2. \A o \in Ops : Engaged(o)' => Engaged(o)
  BY IdleSpot DEF Engaged, At, Op
<1> QED BY <1>1, <1>2, IdleHolds

\* A step of the pass that touches neither an operation nor a lock.
LEMMA PlainHolds ==
  ASSUME TypeInv, HoldInv, UNCHANGED <<opsLog, locks>>, ~At("idle"), ~At("finalizer"), ~Ending,
         Onward({"slot", "members", "lock", "step", "claim", "write", "discard"}),
         pass'.pc \in {"slot", "members", "lock", "step", "claim"} => ~pass.obj.deleted,
         ~Terminal(pass.obj.phase), pass'.pc = "claim" => pass.obj.step # "",
         PassHolds', pass'.pc \in Early => pass.pc \in Early
  PROVE  HoldInv'
<1>1. \A o : Hold(o)' <=> Hold(o)
  BY LocksStay DEF locks, Pv
<1>2. CASE pass' = Idle
  BY <1>1, <1>2, EndHolds, EngagedKeep, HoldPartsNext
<1>3. CASE pass' # Idle
  <2>1. /\ Held /\ pass'.pc \in {"slot", "members", "lock", "step", "claim", "write", "discard"}
        /\ pass'.pc = "discard" => pass'.then = "finish"
    BY <1>3 DEF Onward
  <2>2. EndsForGood' /\ PassInStep' /\ EngagedHolds'
    BY <1>1, <2>1, MoveHolds, EngagedKeep
  <2>3. Placed'
    BY <2>1 DEF Placed, At, Held
  <2> QED BY <2>2, <2>3, HoldPartsNext
<1> QED BY <1>2, <1>3

\* What a write claims to hold, when the locks stay.
LEMMA EntersHolds ==
  ASSUME TypeInv, HoldInv, UNCHANGED locks, Onward({"write", "discard", "claim"})
  PROVE  PassHolds'
<1>1. \A o : Hold(o)' <=> Hold(o)
  BY LocksStay DEF locks, Pv
<1>2. CASE pass' = Idle
  BY <1>2, IdleHolds
<1>3. CASE pass' # Idle
  <2>1. Held /\ pass'.pc \in {"write", "discard", "claim"} /\ (Enters' => At("step"))
    BY <1>3 DEF Onward
  <2>2. Enters' => Hold(pass.op)
    BY <2>1, HoldParts DEF PassHolds
  <2>3. Enters' => Hold(pass.op)'
    BY <1>1, <2>1, <2>2 DEF Held, Hold
  <2> QED BY <2>1, <2>3 DEF PassHolds, At
<1> QED BY <1>2, <1>3

LEMMA HoldResolve ==
  ASSUME TypeInv, HoldInv, Resolve
  PROVE  HoldInv'
<1>0. /\ UNCHANGED <<opsLog, locks>> /\ ~At("idle") /\ ~At("finalizer") /\ ~Ending
      /\ At("resolve") /\ ~pass.obj.deleted /\ ~Terminal(pass.obj.phase) /\ pass.pc \in Early
  BY HoldParts DEF Resolve, At, Ending, Placed, Early
<1>1. Onward({"discard", "slot", "members", "write"})
  BY ResolveMoves
<1>2. Onward({"slot", "members", "lock", "step", "claim", "write", "discard"})
  BY <1>1 DEF Onward
<1>3. pass'.pc # "claim"
  BY <1>1, IdleSpot DEF Onward
<1>4. CASE pass' = Idle
  BY <1>0, <1>2, <1>3, <1>4, IdleHolds, PlainHolds
<1>5. CASE pass' # Idle
  <2>1. Held /\ pass'.pc \in {"discard", "slot", "members", "write"} /\ ~Enters'
    BY <1>0, <1>1, <1>5 DEF Onward, At
  <2>2. pass'.pc = "members" => pass.obj.step # ""
    <3>1. pass'.pc # "members" \/ Goto(IF pass.obj.step = "" THEN "slot" ELSE "members")
      <4>1. CASE Say("note")
        BY <1>0, <4>1, SayMoves, IdleSpot
      <4>2. CASE Finish("Failed") \/ Finish("Aborted")
        BY <1>0, <4>2, FinishMoves
      <4>3. CASE Discard("Aborted", "finish")
        BY <1>0, <4>3, DiscardMoves
      <4> QED BY <4>1, <4>2, <4>3 DEF Resolve
    <3>2. CASE pass.obj.step = "" /\ Goto("slot")
      BY <1>0, <3>2, GotoMoves
    <3> QED BY <3>1, <3>2
  <2>3. pass'.pc = "members" => slot' = pass'.op
    <3>1. pass'.pc = "members" => Hold(pass.op)
      BY <1>0, <2>2, PassEngaged
    <3> QED BY <1>0, <2>1, <3>1 DEF Hold, Held, locks
  <2>4. PassHolds'
    BY <2>1, <2>3 DEF PassHolds, At
  <2> QED BY <1>0, <1>2, <1>3, <2>4, PlainHolds
<1> QED BY <1>4, <1>5

\* The slot is taken from nobody at work.
LEMMA HoldAcquireSlot ==
  ASSUME TypeInv, HoldInv, AcquireSlot
  PROVE  HoldInv'
<1>0. /\ UNCHANGED <<opsLog, pvLog>> /\ ~At("idle") /\ ~At("finalizer") /\ ~Ending
      /\ At("slot") /\ ~pass.obj.deleted /\ ~Terminal(pass.obj.phase) /\ pass.op \in Ops
      /\ slot \in Ops \cup {NoOp} /\ pass.pc \in Early
  BY HoldParts, PassFields, TypeParts DEF AcquireSlot, At, Ending, Placed, Early
<1>1. Onward({"members", "write"})
  BY AcquireSlotMoves
<1>2. CASE UNCHANGED slot
  <2>1. UNCHANGED locks
    BY <1>0, <1>2 DEF locks
  <2>2. Onward({"slot", "members", "lock", "step", "claim", "write", "discard"})
    BY <1>1 DEF Onward
  <2>3. PassHolds'
    <3>1. CASE pass' = Idle
      BY <3>1, IdleHolds
    <3>2. CASE pass' # Idle
      <4>1. Held /\ pass'.pc \in {"members", "write"} /\ ~Enters'
        BY <1>0, <1>1, <3>2 DEF Onward, At
      <4>2. pass'.pc = "members" => slot = pass.op
        <5>1. CASE Say("hold")
          BY <1>0, <5>1, SayMoves, IdleSpot
        <5>2. CASE End(TRUE)
          BY <1>0, <5>2, EndMoves, IdleSpot
        <5> QED BY <1>2, <5>1, <5>2 DEF AcquireSlot
      <4> QED BY <1>2, <4>1, <4>2 DEF PassHolds, At, Held
    <3> QED BY <3>1, <3>2
  <2>4. pass'.pc # "claim"
    BY <1>1, IdleSpot DEF Onward
  <2> QED BY <1>0, <2>1, <2>2, <2>3, <2>4, PlainHolds
<1>3. CASE slot # pass.op /\ Takeable(slot) /\ slot' = pass.op /\ Goto("members")
  <2>1. \A o \in Ops : ~Engaged(o)
    BY <1>3, StaleIsNotEngaged, OneEngaged
  <2>2. Held /\ pass'.pc = "members"
    BY <1>0, <1>3, GotoMoves
  <2>3. EndsForGood' /\ PassInStep' /\ \A o \in Ops : Engaged(o)' <=> Engaged(o)
    BY <1>0, <2>2, MoveHolds
  <2>4. EngagedHolds'
    BY <2>1, <2>3 DEF EngagedHolds
  <2>5. Placed'
    BY <1>0, <2>2 DEF Placed, At, Held
  <2>6. PassHolds'
    BY <1>3, <2>2 DEF PassHolds, At, Held, Enters
  <2> QED BY <2>3, <2>4, <2>5, <2>6, HoldPartsNext
<1> QED BY <1>2, <1>3 DEF AcquireSlot

LEMMA HoldReadMembers ==
  ASSUME TypeInv, HoldInv, ReadMembers
  PROVE  HoldInv'
<1>0. /\ UNCHANGED <<opsLog, locks>> /\ ~At("idle") /\ ~At("finalizer") /\ ~Ending
      /\ At("members") /\ ~pass.obj.deleted /\ ~Terminal(pass.obj.phase) /\ slot = pass.op
      /\ pass.op \in Ops /\ pass \in PassObj /\ pass.pc \in Early
  BY HoldParts, PassFields DEF ReadMembers, At, Ending, Placed, PassHolds, Early
<1>1. Onward({"step", "lock", "write"})
  BY ReadMembersMoves
<1>2. Onward({"slot", "members", "lock", "step", "claim", "write", "discard"}) /\ pass'.pc # "claim"
  BY <1>1, IdleSpot DEF Onward
<1>3. SUFFICES PassHolds'
  BY <1>0, <1>2, PlainHolds
<1>4. CASE pass.obj.step # "" /\ Goto("step")
  <2>1. Held /\ pass'.pc = "step"
    BY <1>0, <1>4, GotoMoves
  <2>2. Hold(pass.op)
    BY <1>0, <1>4, PassEngaged
  <2>3. Hold(pass.op)'
    BY <1>0, <2>1, <2>2 DEF Hold, Held, locks, Pv
  <2> QED BY <2>1, <2>3 DEF PassHolds, At
<1>5. CASE Finish("Failed") \/ Finish("Aborted")
  <2>1. Held /\ pass'.pc = "write" /\ pass'.do = "finish"
    BY <1>0, <1>5, FinishMoves
  <2> QED BY <2>1 DEF PassHolds, At, Enters
<1> DEFINE todo == {v \in SubsystemVolumes(Vol[pass.op]) : Pv(v).lock # pass.op}
<1>6. CASE pass' = [pass EXCEPT !.pc = "lock", !.todo = todo]
  <2>1. pass'.pc = "lock" /\ pass'.todo = todo /\ pass'.op = pass.op
    BY <1>0, <1>6 DEF PassObj
  <2>2. \A v \in Siblings(Vol[pass.op]) \ Later :
          Pv(v).there = "no" \/ Pv(v).lock = pass.op \/ v \in todo
    BY DEF SubsystemVolumes
  <2> HIDE DEF todo
  <2>3. slot' = pass'.op /\ \A v \in Siblings(Vol[pass'.op]) \ Later :
          Pv(v)'.there = "no" \/ Pv(v)'.lock = pass'.op \/ v \in pass'.todo
    BY <1>0, <2>1, <2>2 DEF locks, Pv
  <2> QED BY <2>1, <2>3 DEF PassHolds, At, Enters, Siblings
<1> QED BY <1>4, <1>5, <1>6 DEF ReadMembers

LEMMA HoldReadMembersFails ==
  ASSUME TypeInv, HoldInv, ReadMembersFails
  PROVE  HoldInv'
<1>0. UNCHANGED <<opsLog, locks>> /\ pass' = Idle
  BY ReadMembersFailsMoves DEF ReadMembersFails, Onward
<1>1. \A o : Hold(o)' <=> Hold(o)
  BY <1>0, LocksStay DEF locks, Pv
<1> QED BY <1>0, <1>1, EndHolds, EngagedKeep, HoldPartsNext

\* A volume is taken from nobody at work; an operation still Pending that meets a
\* holder gives back what it has, and holds no running operation's locks.
LEMMA HoldLockVolume ==
  ASSUME TypeInv, HoldInv, LockVolume
  PROVE  HoldInv'
<1>0. /\ UNCHANGED <<opsLog, slot>> /\ ~At("idle") /\ ~At("finalizer") /\ ~Ending
      /\ At("lock") /\ ~pass.obj.deleted /\ ~Terminal(pass.obj.phase) /\ slot = pass.op
      /\ pass.op \in Ops /\ pass \in PassObj /\ pass.todo \in SUBSET Vols /\ pass.todo # {} /\ pass.pc \in Early
  BY HoldParts, PassFields DEF LockVolume, At, Ending, Placed, PassHolds, Early
<1>1. PICK v \in Vols : v = Min(pass.todo)
  <2>1. pass.todo \in SUBSET Nat
    BY <1>0, VolumeOpsAssumption
  <2> QED BY <1>0, <2>1, MinIsMember
<1>2. /\ Onward({"lock", "write", "release"})
      /\ pass'.pc = "release" => pass'.then \in {"hold", "requeue"} /\ pass.obj.step = ""
  BY LockVolumeMoves
<1>3. CASE UNCHANGED pvLog /\ pass'.pc # "lock"
  <2>1. \A o : Hold(o)' <=> Hold(o)
    BY <1>0, <1>3, LocksStay DEF Pv
  <2>2. CASE pass' = Idle
    BY <1>0, <2>1, <2>2, EndHolds, EngagedKeep, HoldPartsNext
  <2>3. CASE pass' # Idle
    <3>1. Held /\ pass'.pc \in {"write", "release"} /\ ~Enters'
      BY <1>0, <1>2, <1>3, <2>3 DEF Onward, At
    <3>2. EndsForGood' /\ PassInStep' /\ EngagedHolds'
      BY <1>0, <2>1, <3>1, MoveHolds, EngagedKeep
    <3>3. Placed'
      BY <1>0, <1>2, <3>1 DEF Placed, At, Held
    <3>4. PassHolds'
      BY <3>1 DEF PassHolds, At
    <3> QED BY <3>2, <3>3, <3>4, HoldPartsNext
  <2> QED BY <2>2, <2>3
<1>4. CASE SetLock(v, pass.op) /\ pass' = [pass EXCEPT !.todo = @ \ {v}]
  <2>1. /\ pass'.pc = "lock" /\ pass'.op = pass.op /\ pass'.obj = pass.obj
        /\ pass'.fresh = pass.fresh /\ pass'.todo = pass.todo \ {v}
    BY <1>0, <1>4 DEF PassObj, At
  <2>2. Pv(v)' = [Pv(v) EXCEPT !.lock = pass.op] /\ \A x \in Vols \ {v} : Pv(x)' = Pv(x)
    <3> DEFINE w == [Pv(v) EXCEPT !.lock = pass.op]
    <3>1. w \in PvObj
      BY <1>0, <1>1, PvEnds, ObjTypes
    <3>2. Room(pvLog[v], MaxLag) /\ pvLog' = [pvLog EXCEPT ![v] = Written(@, w)]
      BY <1>4 DEF SetLock
    <3> HIDE DEF w
    <3>3. Pv(v)' = w /\ \A x \in Vols \ {v} : Pv(x)' = Pv(x)
      BY <3>1, <3>2, PvWritten
    <3> QED BY <3>3 DEF w
  <2>3. Pv(v)'.lock = pass.op
    BY <1>1, <2>2, PvEnds DEF PvObj
  <2>4. EndsForGood' /\ PassInStep' /\ \A o \in Ops : Engaged(o)' <=> Engaged(o)
    BY <1>0, <2>1, MoveHolds DEF Held
  <2>5. EngagedHolds'
    <3>1. \A o \in Ops : Engaged(o) /\ Hold(o) => Hold(o)'
      <4> SUFFICES ASSUME NEW o \in Ops, Engaged(o), Hold(o) PROVE Hold(o)'
        OBVIOUS
      <4>1. o = pass.op
        BY <1>0, OneEngaged
      <4>2. \A x \in Siblings(Vol[o]) \ Later : Pv(x)'.there = "no" \/ Pv(x)'.lock = o
        <5> TAKE x \in Siblings(Vol[o]) \ Later
        <5>1. x \in Vols /\ (Pv(x).there = "no" \/ Pv(x).lock = o)
          BY DEF Hold, Siblings
        <5>2. CASE x = v
          BY <2>3, <4>1, <5>2
        <5>3. CASE x # v
          BY <2>2, <5>1, <5>3
        <5> QED BY <5>2, <5>3
      <4> QED BY <1>0, <4>2 DEF Hold, Siblings
    <3> QED BY <2>4, <3>1, EngagedKeep
  <2>6. Placed'
    BY <1>0, <2>1 DEF Placed, At
  <2>7. PassHolds'
    <3>1. \A x \in Siblings(Vol[pass.op]) \ Later :
            Pv(x)'.there = "no" \/ Pv(x)'.lock = pass.op \/ x \in pass.todo \ {v}
      <4> TAKE x \in Siblings(Vol[pass.op]) \ Later
      <4>1. x \in Vols /\ (Pv(x).there = "no" \/ Pv(x).lock = pass.op \/ x \in pass.todo)
        BY <1>0, HoldParts DEF PassHolds, Siblings
      <4>2. CASE x = v
        BY <2>3, <4>2
      <4>3. CASE x # v
        BY <2>2, <4>1, <4>3
      <4> QED BY <4>2, <4>3
    <3>2. \A x \in Siblings(Vol[pass'.op]) \ Later :
            Pv(x)'.there = "no" \/ Pv(x)'.lock = pass'.op \/ x \in pass'.todo
      BY <2>1, <3>1
    <3> QED BY <1>0, <2>1, <3>2 DEF PassHolds, At, Enters, Siblings
  <2> QED BY <2>4, <2>5, <2>6, <2>7, HoldPartsNext
<1>5. CASE (AbandonAcquisition("hold") \/ AbandonAcquisition("requeue")) /\ UNCHANGED pvLog
  <2>1. pass'.pc # "lock"
    BY <1>0, <1>5, AbandonMoves, IdleSpot
  <2> QED BY <1>3, <1>5, <2>1
<1> QED BY <1>1, <1>4, <1>5 DEF LockVolume

LEMMA HoldLocked ==
  ASSUME TypeInv, HoldInv, Locked
  PROVE  HoldInv'
<1>0. /\ UNCHANGED <<opsLog, locks>> /\ ~At("idle") /\ ~At("finalizer") /\ ~Ending
      /\ At("lock") /\ ~pass.obj.deleted /\ ~Terminal(pass.obj.phase) /\ pass.todo = {} /\ pass.pc \in Early
  BY HoldParts DEF Locked, At, Ending, Placed, Early
<1>1. Held /\ pass'.pc = "step"
  BY <1>0, GotoMoves DEF Locked
<1>2. Hold(pass.op)
  BY <1>0, HoldParts DEF PassHolds, Hold
<1>3. Hold(pass.op)'
  BY <1>0, <1>1, <1>2 DEF Hold, Held, locks, Pv
<1>4. PassHolds'
  BY <1>1, <1>3 DEF PassHolds, At
<1>5. Onward({"slot", "members", "lock", "step", "claim", "write", "discard"}) /\ pass'.pc # "claim"
  BY <1>1, LockedMoves DEF Onward
<1> QED BY <1>0, <1>4, <1>5, PlainHolds

LEMMA HoldAdvance ==
  ASSUME TypeInv, HoldInv, Advance
  PROVE  HoldInv'
<1>0. /\ UNCHANGED <<opsLog, locks>> /\ ~At("idle") /\ ~At("finalizer") /\ ~Ending
      /\ At("step") /\ ~pass.obj.deleted /\ ~Terminal(pass.obj.phase) /\ pass.pc \in Early
  BY HoldParts DEF Advance, At, Ending, Placed, Early
<1>1. Onward({"write", "discard", "claim"})
  BY AdvanceMoves
<1>2. PassHolds'
  BY <1>0, <1>1, EntersHolds
<1>3. Onward({"slot", "members", "lock", "step", "claim", "write", "discard"})
  BY <1>1 DEF Onward
<1>4. pass'.pc = "claim" => pass.obj.step # ""
  <2>1. CASE pass.obj.step = ""
    <3>1. WriteThen("enter", "Validating", "requeue")
      BY <2>1 DEF Advance
    <3>2. pass'.pc = "write"
      BY <1>0, <3>1, WriteMoves DEF Doings, Steps, WorkSteps
    <3> QED BY <3>2
  <2> QED BY <2>1
<1> QED BY <1>0, <1>2, <1>3, <1>4, PlainHolds

\* The calls to the control plane touch no lock.
LEMMA HoldCalls ==
  ASSUME TypeInv, HoldInv, DiscardFails \/ CreateMigration \/ ContinueMigration
  PROVE  HoldInv'
<1>0. /\ UNCHANGED <<opsLog, locks>> /\ ~At("idle") /\ ~At("finalizer") /\ ~Ending
      /\ ~Terminal(pass.obj.phase)
  BY HoldParts DEF DiscardFails, CreateMigration, ContinueMigration, At, Ending, Placed
<1>1. Onward({"write", "discard"})
  BY DiscardFailsMoves, CreateMigrationMoves, ContinueMigrationMoves DEF Onward
<1>2. Onward({"write", "discard", "claim"})
      /\ Onward({"slot", "members", "lock", "step", "claim", "write", "discard"})
  BY <1>1 DEF Onward
<1>3. pass'.pc \in {"idle", "write", "discard"}
  BY <1>1, IdleSpot DEF Onward
<1>4. PassHolds'
  BY <1>0, <1>2, EntersHolds
<1> QED BY <1>0, <1>2, <1>3, <1>4, PlainHolds DEF Early

LEMMA HoldDiscardMigration ==
  ASSUME TypeInv, HoldInv, DiscardMigration
  PROVE  HoldInv'
<1>0. /\ UNCHANGED <<opsLog, locks>> /\ ~At("idle") /\ ~At("finalizer") /\ ~Ending
      /\ ~Terminal(pass.obj.phase) /\ (pass.then = "drop" => pass.obj.deleted)
  BY HoldParts DEF DiscardMigration, At, Ending, Placed
<1>1. /\ Held
      /\ \/ pass'.pc = "write" /\ pass'.do = "finish"
         \/ pass'.pc = "release" /\ pass'.then = "drop" /\ pass.then = "drop"
  BY DiscardMigrationMoves
<1>2. \A o : Hold(o)' <=> Hold(o)
  BY <1>0, LocksStay DEF locks, Pv
<1>3. EndsForGood' /\ PassInStep' /\ EngagedHolds'
  BY <1>0, <1>1, <1>2, MoveHolds, EngagedKeep DEF Early
<1>4. Placed'
  BY <1>0, <1>1 DEF Placed, At, Held
<1>5. PassHolds'
  BY <1>1 DEF PassHolds, At, Enters
<1> QED BY <1>3, <1>4, <1>5, HoldPartsNext

\* Whoever gives its locks back is not at work.
LEMMA ReleaseIsNotEngaged ==
  ASSUME TypeInv, HoldInv, At("release")
  PROVE  ~Engaged(pass.op)
<1>1. pass.then \in {"drop", "end", "requeue", "hold"}
  BY PassFields DEF WellFormed
<1>2. /\ SameStatus(pass.obj, Op(pass.op)) /\ (pass.obj.deleted => Op(pass.op).deleted)
  BY HoldParts DEF PassInStep, At
<1>3. CASE pass.then = "end"
  BY <1>2, <1>3, HoldParts DEF Placed, Engaged, SameStatus
<1>4. CASE pass.then = "drop"
  BY <1>2, <1>4, HoldParts DEF Placed, Engaged
<1>5. CASE pass.then \in {"requeue", "hold"}
  BY <1>2, <1>5, HoldParts DEF Placed, Engaged, SameStatus
<1> QED BY <1>1, <1>3, <1>4, <1>5

LEMMA HoldReleaseVolume ==
  ASSUME TypeInv, HoldInv, NEW v \in Vols, ReleaseVolume(v)
  PROVE  HoldInv'
<1>0. /\ UNCHANGED <<opsLog, slot, pass>> /\ At("release")
      /\ Pv(v).there # "no" /\ Pv(v).lock = pass.op
  BY DEF ReleaseVolume, Carries
<1>1. \A x \in Vols \ {v} : Pv(x)' = Pv(x)
  <2> DEFINE w == [Pv(v) EXCEPT !.lock = NoOp]
  <2>1. w \in PvObj
    BY PvEnds, ObjTypes
  <2>2. Room(pvLog[v], MaxLag) /\ pvLog' = [pvLog EXCEPT ![v] = Written(@, w)]
    BY DEF ReleaseVolume, SetLock
  <2> HIDE DEF w
  <2> QED BY <2>1, <2>2, PvWritten
<1>2. EndsForGood' /\ PassInStep' /\ Placed' /\ \A o \in Ops : Engaged(o)' <=> Engaged(o)
  <2>1. EndsForGood' /\ PassInStep'
    BY <1>0, HoldParts DEF EndsForGood, PassInStep, At, Ending, Op
  <2>2. Placed' /\ \A o \in Ops : Engaged(o)' <=> Engaged(o)
    BY <1>0, HoldParts DEF Placed, At, Engaged, Op
  <2> QED BY <2>1, <2>2
<1>3. \A o \in Ops : Engaged(o) /\ Hold(o) => Hold(o)'
  <2> SUFFICES ASSUME NEW o \in Ops, Engaged(o), Hold(o) PROVE Hold(o)'
    OBVIOUS
  <2>1. o # pass.op
    BY <1>0, ReleaseIsNotEngaged
  <2>2. \A x \in Siblings(Vol[o]) \ Later : Pv(x)'.there = "no" \/ Pv(x)'.lock = o
    <3> TAKE x \in Siblings(Vol[o]) \ Later
    <3>1. x \in Vols /\ (Pv(x).there = "no" \/ Pv(x).lock = o)
      BY DEF Hold, Siblings
    <3>2. x # v
      BY <1>0, <2>1, <3>1
    <3> QED BY <1>1, <3>1, <3>2
  <2> QED BY <1>0, <2>2 DEF Hold, Siblings
<1>4. PassHolds'
  BY <1>0 DEF PassHolds, At, Enters
<1> QED BY <1>2, <1>3, <1>4, EngagedKeep, HoldPartsNext

LEMMA HoldReleaseSlot ==
  ASSUME TypeInv, HoldInv, ReleaseSlot
  PROVE  HoldInv'
<1>0. /\ UNCHANGED <<opsLog, pvLog>> /\ At("release") /\ ~At("idle") /\ ~At("finalizer")
      /\ slot' = IF slot = pass.op THEN NoOp ELSE slot
  BY DEF ReleaseSlot, SlotAfterRelease, At
<1>1. \A o \in Ops : Engaged(o) /\ Hold(o) => Hold(o)'
  <2> SUFFICES ASSUME NEW o \in Ops, Engaged(o), Hold(o) PROVE Hold(o)'
    OBVIOUS
  <2>1. slot' = slot
    BY <1>0, ReleaseIsNotEngaged, OneEngaged
  <2> QED BY <1>0, <2>1 DEF Hold, Pv, Siblings
<1>2. CASE pass' = Idle
  BY <1>0, <1>1, <1>2, EndHolds, EngagedKeep, HoldPartsNext
<1>3. CASE pass' # Idle
  <2>1. Held /\ pass'.pc \in {"drop", "write"} /\ ~Enters'
    BY <1>0, <1>3, ReleaseSlotMoves DEF Onward, At
  <2>2. ~Ending
    BY <1>3 DEF Ending, ReleaseSlot, End
  <2>3. EndsForGood' /\ PassInStep' /\ EngagedHolds'
    BY <1>0, <1>1, <2>1, <2>2, MoveHolds, EngagedKeep DEF Early
  <2>4. pass'.pc = "write" => pass.then = "hold"
    <3>1. CASE Goto("drop")
      BY <1>0, <3>1, GotoMoves
    <3>2. CASE End(TRUE) \/ End(FALSE)
      BY <1>0, <1>3, <3>2, EndMoves
    <3> QED BY <3>1, <3>2 DEF ReleaseSlot
  <2>5. Placed'
    BY <1>0, <2>1, <2>4, HoldParts DEF Placed, At, Held
  <2>6. PassHolds'
    BY <2>1 DEF PassHolds, At
  <2> QED BY <2>3, <2>5, <2>6, HoldPartsNext
<1> QED BY <1>2, <1>3

\* What a write of an operation leaves of what others know about its end.
LEMMA WriteEnds ==
  ASSUME TypeInv, HoldInv, NEW o \in Ops, NEW v \in OpsObj, Room(opsLog[o], MaxLag),
         opsLog' = [opsLog EXCEPT ![o] = Written(@, v)],
         v.exists => Op(o).exists, Terminal(Op(o).phase) => Terminal(v.phase)
  PROVE  /\ EndsForGood' /\ Op(o)' = v
         /\ \A p \in Ops \ {o} : Op(p)' = Op(p)
<1>1. /\ Op(o)' = v /\ \A p \in Ops \ {o} : opsLog'[p] = opsLog[p] /\ Op(p)' = Op(p)
      /\ Len(opsLog'[o]) = Len(opsLog[o]) + 1
      /\ opsLog'[o][Len(opsLog[o]) + 1] = v
      /\ \A k \in 1..Len(opsLog[o]) : opsLog'[o][k] = opsLog[o][k]
  BY OpWritten
<1>2. Len(opsLog[o]) \in Nat
  BY OpEnds
<1>3. ASSUME NEW k \in 1..Len(opsLog'[o])
      PROVE  /\ ~opsLog'[o][k].exists => ~v.exists
             /\ Terminal(opsLog'[o][k].phase) => Terminal(v.phase)
  <2>1. CASE k = Len(opsLog[o]) + 1
    BY <1>1, <2>1
  <2>2. CASE k # Len(opsLog[o]) + 1
    <3>1. k \in 1..Len(opsLog[o])
      BY <1>1, <1>2, <2>2
    <3> QED BY <1>1, <3>1, HoldParts DEF EndsForGood
  <2> QED BY <2>1, <2>2
<1>4. ASSUME NEW p \in Ops \ {o}, NEW k \in 1..Len(opsLog'[p])
      PROVE  /\ ~opsLog'[p][k].exists => ~Op(p)'.exists
             /\ Terminal(opsLog'[p][k].phase) => Terminal(Op(p)'.phase)
  BY <1>1, HoldParts DEF EndsForGood
<1>5. \A k \in 1..Len(opsLog'[o]) : /\ ~opsLog'[o][k].exists => ~Op(o)'.exists
                                    /\ Terminal(opsLog'[o][k].phase) => Terminal(Op(o)'.phase)
  BY <1>1, <1>3
<1>6. EndsForGood'
  BY <1>4, <1>5 DEF EndsForGood
<1> QED BY <1>1, <1>6

LEMMA HoldAddFinalizer ==
  ASSUME TypeInv, OnceInv, HoldInv, AddFinalizer
  PROVE  HoldInv'
<1> DEFINE v == [pass.obj EXCEPT !.finalizer = TRUE]
<1>0. /\ UNCHANGED locks /\ ~At("idle") /\ At("finalizer") /\ pass.op \in Ops
      /\ pass.obj \in OpsObj /\ pass' = Idle /\ pass.obj.exists
  BY PassFields, AddFinalizerMoves, OnceParts DEF AddFinalizer, At, PassHasFinalizer
<1>1. \A o : Hold(o)' <=> Hold(o)
  BY <1>0, LocksStay DEF locks, Pv
<1>2. CASE UNCHANGED opsLog
  BY <1>0, <1>1, <1>2, EndHolds, EngagedKeep, HoldPartsNext
<1>3. CASE /\ pass.fresh /\ Room(opsLog[pass.op], MaxLag)
           /\ opsLog' = [opsLog EXCEPT ![pass.op] = Written(@, v)]
  <2>1. /\ v \in OpsObj /\ v.exists /\ v.phase = pass.obj.phase /\ v.step = pass.obj.step
        /\ v.deleted = pass.obj.deleted
    BY <1>0 DEF OpsObj
  <2>2. /\ Op(pass.op).exists /\ SameStatus(pass.obj, Op(pass.op)) /\ ~pass.obj.deleted
    BY <1>0, <1>3, OnceParts, HoldParts DEF FreshIsStored, Placed, At
  <2> HIDE DEF v
  <2>3. PICK o \in Ops : o = pass.op
    BY <1>0
  <2>4. EndsForGood' /\ Op(o)' = v /\ \A p \in Ops \ {o} : Op(p)' = Op(p)
    BY <1>0, <1>3, <2>1, <2>2, <2>3, WriteEnds DEF SameStatus
  <2>5. \A p \in Ops : Engaged(p)' => Engaged(p)
    <3> SUFFICES ASSUME NEW p \in Ops, Engaged(p)' PROVE Engaged(p)
      OBVIOUS
    <3>1. CASE p = o
      BY <1>0, <2>1, <2>2, <2>3, <2>4, <3>1, IdleSpot DEF Engaged, At, SameStatus
    <3>2. CASE p # o
      BY <1>0, <2>4, <3>2, IdleSpot DEF Engaged, At
    <3> QED BY <3>1, <3>2
  <2> QED BY <1>0, <1>1, <2>4, <2>5, IdleHolds, EngagedKeep, HoldPartsNext
<1> QED BY <1>2, <1>3, AddFinalizerMoves

LEMMA HoldDropFinalizer ==
  ASSUME TypeInv, OnceInv, HoldInv, DropFinalizer
  PROVE  HoldInv'
<1> DEFINE v == [pass.obj EXCEPT !.exists = FALSE]
<1>0. /\ UNCHANGED locks /\ ~At("idle") /\ pass.op \in Ops /\ pass.obj \in OpsObj /\ pass' = Idle
  BY PassFields, DropFinalizerMoves DEF DropFinalizer, At
<1>1. \A o : Hold(o)' <=> Hold(o)
  BY <1>0, LocksStay DEF locks, Pv
<1>2. CASE UNCHANGED opsLog
  BY <1>0, <1>1, <1>2, EndHolds, EngagedKeep, HoldPartsNext
<1>3. CASE /\ pass.fresh /\ Room(opsLog[pass.op], MaxLag)
           /\ opsLog' = [opsLog EXCEPT ![pass.op] = Written(@, v)]
  <2>1. v \in OpsObj /\ ~v.exists /\ v.phase = pass.obj.phase
    BY <1>0 DEF OpsObj
  <2>2. SameStatus(pass.obj, Op(pass.op))
    BY <1>0, HoldParts DEF PassInStep
  <2> HIDE DEF v
  <2>3. PICK o \in Ops : o = pass.op
    BY <1>0
  <2>4. EndsForGood' /\ Op(o)' = v /\ \A p \in Ops \ {o} : Op(p)' = Op(p)
    BY <1>0, <1>3, <2>1, <2>2, <2>3, WriteEnds DEF SameStatus
  <2>5. \A p \in Ops : Engaged(p)' => Engaged(p)
    BY <1>0, <2>1, <2>4, IdleSpot DEF Engaged, At
  <2> QED BY <1>0, <1>1, <2>4, <2>5, IdleHolds, EngagedKeep, HoldPartsNext
<1> QED BY <1>2, <1>3, DropFinalizerMoves

LEMMA HoldClaim ==
  ASSUME TypeInv, OnceInv, HoldInv, Claim
  PROVE  HoldInv'
<1>0. /\ UNCHANGED locks /\ ~At("idle") /\ ~At("finalizer") /\ ~Ending /\ At("claim")
      /\ pass.op \in Ops /\ pass.obj \in OpsObj /\ Op(pass.op) \in OpsObj
      /\ ~pass.obj.deleted /\ ~Terminal(pass.obj.phase) /\ pass.obj.step # ""
  BY PassFields, OpEnds, HoldParts DEF Claim, At, Ending, Placed
<1>1. \A o : Hold(o)' <=> Hold(o)
  BY <1>0, LocksStay DEF locks, Pv
<1>2. CASE UNCHANGED opsLog /\ Onward({"write"})
  <2>1. Onward({"slot", "members", "lock", "step", "claim", "write", "discard"})
        /\ Onward({"write", "discard", "claim"}) /\ pass'.pc \in {"idle", "write"}
    BY <1>2, IdleSpot DEF Onward
  <2>2. PassHolds'
    BY <1>0, <2>1, EntersHolds
  <2> QED BY <1>0, <1>2, <2>1, <2>2, PlainHolds DEF Early
<1>3. CASE /\ pass.fresh /\ Room(opsLog[pass.op], MaxLag) /\ Claimed \in OpsObj
           /\ opsLog' = [opsLog EXCEPT ![pass.op] = Written(@, Claimed)]
           /\ pass'.pc = "call" /\ pass'.op = pass.op /\ pass'.obj = Claimed
           /\ pass'.fresh = pass.fresh
  <2>1. /\ Op(pass.op).exists /\ SameStatus(pass.obj, Op(pass.op))
        /\ ~Op(pass.op).deleted
    BY <1>0, <1>3, OnceParts, HoldParts DEF FreshIsStored, PassInStep, Early, At
  <2>2. /\ Claimed.exists = Op(pass.op).exists /\ Claimed.phase = Op(pass.op).phase
        /\ Claimed.step = Op(pass.op).step /\ Claimed.deleted = Op(pass.op).deleted
    BY <1>0 DEF Claimed, OpsObj
  <2>3. PICK o \in Ops : o = pass.op
    BY <1>0
  <2>4. PICK v \in OpsObj : v = Claimed
    BY <1>3
  <2>5. EndsForGood' /\ Op(o)' = v /\ \A p \in Ops \ {o} : Op(p)' = Op(p)
    BY <1>0, <1>3, <2>1, <2>2, <2>3, <2>4, WriteEnds
  <2>6. Op(pass.op)' = pass'.obj
    BY <1>3, <2>3, <2>4, <2>5
  <2>7. \A p \in Ops : Engaged(p)' => Engaged(p)
    <3> SUFFICES ASSUME NEW p \in Ops, Engaged(p)' PROVE Engaged(p)
      OBVIOUS
    <3>1. CASE p = o
      BY <1>0, <2>1, <2>2, <2>3, <2>4, <2>5, <3>1 DEF Engaged, At
    <3>2. CASE p # o
      BY <1>3, <2>3, <2>5, <3>2 DEF Engaged, At
    <3> QED BY <3>1, <3>2
  <2>8. PassInStep'
    BY <1>3, <2>1, <2>2, <2>6 DEF PassInStep, At, SameStatus, Early
  <2>9. Placed'
    BY <1>0, <1>3, <2>1, <2>2 DEF Placed, At, SameStatus
  <2>10. PassHolds'
    BY <1>3 DEF PassHolds, At, Enters
  <2> QED BY <1>1, <2>5, <2>7, <2>8, <2>9, <2>10, EngagedKeep, HoldPartsNext
<1> QED BY <1>2, <1>3, ClaimMoves

\* What a status write makes of phase and step.
LEMMA MutatePhase ==
  ASSUME TypeInv, At("write"), NEW b \in OpsObj
  PROVE  LET w == Mutate(b, pass.do, pass.arg) IN
         /\ ~Enters /\ pass.do # "finish" =>
              w.step = b.step /\ (Terminal(w.phase) <=> Terminal(b.phase))
         /\ Enters => ~Terminal(w.phase)
         /\ pass.do = "finish" => Terminal(w.phase)
<1>0. WellFormed /\ pass \in PassObj
  BY PassFields
<1>1. pass.do \in {"enter", "hold", "note", "ahead", "record", "migration", "finish"}
  BY <1>0 DEF WellFormed, PassObj
<1>2. CASE pass.do = "enter"
  <2>1. Mutate(b, pass.do, pass.arg).phase = "Running"
    BY <1>2 DEF Mutate, OpsObj
  <2>2. Enters /\ pass.do # "finish" /\ ~Terminal(Mutate(b, pass.do, pass.arg).phase)
    BY <1>2, <2>1 DEF Enters, At, Terminal
  <2> QED BY <2>2
<1>3. CASE pass.do = "hold"
  BY <1>3 DEF Mutate, OpsObj, Enters, Terminal
<1>4. CASE pass.do = "note"
  BY <1>4 DEF Mutate, Enters
<1>5. CASE pass.do = "ahead"
  <2>1. Mutate(b, pass.do, pass.arg).phase = "Running"
    BY <1>5 DEF Mutate, OpsObj
  <2>2. Enters /\ pass.do # "finish" /\ ~Terminal(Mutate(b, pass.do, pass.arg).phase)
    BY <1>5, <2>1 DEF Enters, At, Terminal
  <2> QED BY <2>2
<1>6. CASE pass.do = "record"
  <2>1. Mutate(b, pass.do, pass.arg).phase = "Running"
    BY <1>6 DEF Mutate, OpsObj
  <2>2. Enters /\ pass.do # "finish" /\ ~Terminal(Mutate(b, pass.do, pass.arg).phase)
    BY <1>6, <2>1 DEF Enters, At, Terminal
  <2> QED BY <2>2
<1>7. CASE pass.do = "migration"
  BY <1>7 DEF Mutate, OpsObj, Enters
<1>8. CASE pass.do = "finish"
  BY <1>0, <1>8 DEF Mutate, OpsObj, Enters, Terminal, WellFormed
<1> QED BY <1>1, <1>2, <1>3, <1>4, <1>5, <1>6, <1>7, <1>8

LEMMA HoldWriteStatus ==
  ASSUME TypeInv, HoldInv, WriteStatus
  PROVE  HoldInv'
<1>0. /\ UNCHANGED locks /\ ~At("idle") /\ ~At("finalizer") /\ ~Ending /\ At("write")
      /\ pass.op \in Ops /\ pass.obj \in OpsObj /\ Op(pass.op) \in OpsObj
      /\ ~Terminal(pass.obj.phase) /\ ~At("release") /\ ~At("drop")
      /\ SameStatus(pass.obj, Op(pass.op)) /\ Op(pass.op).exists
      /\ (pass.obj.deleted => Op(pass.op).deleted)
  BY PassFields, OpEnds, HoldParts DEF WriteStatus, At, Ending, Placed, PassInStep
<1>1. \A o : Hold(o)' <=> Hold(o)
  BY <1>0, LocksStay DEF locks, Pv
<1>2. CASE UNCHANGED opsLog /\ pass' = Idle
  BY <1>1, <1>2, EndHolds, EngagedKeep, HoldPartsNext
<1> DEFINE w == WithStatus(Op(pass.op), Mutated)
<1>3. CASE /\ pass.fresh \/ (WriteBase = Op(pass.op) /\ WriteBase.exists)
           /\ Room(opsLog[pass.op], MaxLag) /\ w \in OpsObj
           /\ opsLog' = [opsLog EXCEPT ![pass.op] = Written(@, w)]
           /\ \/ pass' = Idle
              \/ /\ pass'.op = pass.op /\ pass'.obj = WithStatus(pass.obj, Mutated)
                 /\ pass'.fresh = TRUE
                 /\ \/ pass'.pc = "write" /\ pass.do = "ahead" /\ pass'.do = "record"
                    \/ pass'.pc = "release" /\ pass'.then = "end" /\ pass.do = "finish"
  <2>0. WriteBase \in OpsObj /\ Mutated \in OpsObj /\ WriteBase.step = Op(pass.op).step
        /\ WriteBase.phase = Op(pass.op).phase
    BY <1>0, <1>3, WriteStatusMoves DEF WriteBase, SameStatus
  <2>1. /\ ~Enters /\ pass.do # "finish" =>
             Mutated.step = Op(pass.op).step /\ ~Terminal(Mutated.phase)
        /\ Enters => ~Terminal(Mutated.phase)
        /\ pass.do = "finish" => Terminal(Mutated.phase)
    BY <1>0, <2>0, MutatePhase DEF Mutated, SameStatus
  <2>2. /\ w.exists = Op(pass.op).exists /\ w.deleted = Op(pass.op).deleted
        /\ w.phase = Mutated.phase /\ w.step = Mutated.step
    BY <1>0, <2>0 DEF WithStatus, OpsObj
  <2>3. LET x == WithStatus(pass.obj, Mutated) IN
        x.deleted = pass.obj.deleted /\ x.phase = Mutated.phase /\ SameStatus(x, w)
    BY <1>0, <2>0 DEF WithStatus, OpsObj, SameStatus
  <2> HIDE DEF w
  <2>4. PICK o \in Ops : o = pass.op
    BY <1>0
  <2>5. PICK v \in OpsObj : v = w
    BY <1>3
  <2>6. EndsForGood' /\ Op(o)' = v /\ \A p \in Ops \ {o} : Op(p)' = Op(p)
    BY <1>0, <1>3, <2>2, <2>4, <2>5, WriteEnds DEF SameStatus
  <2>7. EngagedHolds'
    <3> SUFFICES ASSUME NEW p \in Ops, Engaged(p)' PROVE Hold(p)'
      BY DEF EngagedHolds
    <3>1. CASE p = o /\ Enters
      BY <1>1, <2>4, <3>1, HoldParts DEF PassHolds
    <3>2. CASE p = o /\ ~Enters
      <4>1. v.exists /\ ~Terminal(v.phase) /\ v.step # ""
        BY <2>6, <3>2 DEF Engaged
      <4>2. ~v.deleted \/ ~pass.obj.deleted
        <5>1. CASE pass' = Idle
          BY <2>6, <3>2, <5>1, IdleSpot DEF Engaged, At
        <5>2. CASE pass' # Idle
          BY <1>3, <2>3, <2>6, <3>2, <5>2 DEF Engaged
        <5> QED BY <5>1, <5>2
      <4>3. Engaged(p)
        BY <1>0, <2>1, <2>2, <2>4, <2>5, <3>2, <4>1, <4>2 DEF Engaged, SameStatus
      <4> QED BY <1>1, <4>3, HoldParts DEF EngagedHolds
    <3>3. CASE p # o
      <4>1. Engaged(p)
        <5>1. CASE pass' = Idle
          BY <2>6, <3>3, <5>1, IdleSpot DEF Engaged, At
        <5>2. CASE pass' # Idle
          BY <1>3, <2>4, <2>6, <3>3, <5>2 DEF Engaged
        <5> QED BY <5>1, <5>2
      <4> QED BY <1>1, <4>1, HoldParts DEF EngagedHolds
    <3> QED BY <3>1, <3>2, <3>3
  <2>8. CASE pass' = Idle
    BY <2>6, <2>7, <2>8, IdleHolds, HoldPartsNext
  <2>9. CASE pass' # Idle
    <3>1. Op(pass.op)' = w
      BY <1>3, <2>4, <2>5, <2>6, <2>9
    <3>2. PassInStep'
      BY <1>0, <1>3, <2>2, <2>3, <2>9, <3>1 DEF PassInStep, At, Early
    <3>3. Placed'
      BY <1>0, <1>3, <2>1, <2>3, <2>9 DEF Placed, At, Enters
    <3>4. pass.do = "ahead" => Hold(pass.op)'
      <4>1. pass.do = "ahead" => Hold(o)
        BY <1>0, <2>4, HoldParts DEF PassHolds, Enters, At
      <4>2. pass.do = "ahead" => Hold(o)'
        BY <1>1, <4>1
      <4> QED BY <1>3, <2>4, <2>9, <4>2
    <3>5. PassHolds'
      BY <1>3, <2>9, <3>4 DEF PassHolds, At, Enters
    <3> QED BY <2>6, <2>7, <3>2, <3>3, <3>5, HoldPartsNext
  <2> QED BY <2>8, <2>9
<1> QED BY <1>2, <1>3, WriteStatusMoves

\* Where a pass begins with the newest version, it begins in step with it.
LEMMA HoldReconcile ==
  ASSUME TypeInv, HoldInv, PromptOps, NEW o \in Ops, Reconcile(o)
  PROVE  HoldInv'
<1>0. UNCHANGED <<opsLog, locks>> /\ At("idle") /\ Current(opsLog[o])
  BY DEF Reconcile, PromptOps
<1>1. \A p : Hold(p)' <=> Hold(p)
  BY <1>0, LocksStay DEF locks, Pv
<1>2. CASE pass' = Idle
  BY <1>0, <1>1, <1>2, EndHolds, EngagedKeep, HoldPartsNext
<1>3. CASE pass' # Idle
  <2>1. /\ pass'.op = o /\ pass'.obj = Cached(opsLog[o])
        /\ pass'.fresh = Current(opsLog[o]) /\ pass'.obj.exists
        /\ \/ pass'.pc \in {"finalizer", "resolve"} /\ ~pass'.obj.deleted
           \/ pass'.pc \in {"discard", "release"} /\ pass'.then = "drop" /\ pass'.obj.deleted
           \/ pass'.pc = "release" /\ pass'.then = "end"
        /\ pass'.pc = "release" <=> Terminal(pass'.obj.phase)
    BY <1>3, ReconcileMoves
  <2>2. Cached(opsLog[o]) = Op(o) /\ Op(o) \in OpsObj
    BY <1>0, OpEnds
  <2>3. Op(pass.op)' = Op(o)
    BY <1>0, <2>1 DEF Op
  <2>4. EndsForGood'
    BY <1>0, HoldParts DEF EndsForGood, Op
  <2>5. PassInStep'
    BY <2>1, <2>2, <2>3 DEF PassInStep, At, SameStatus, Ending
  <2>6. Placed'
    BY <2>1 DEF Placed, At
  <2>7. \A p \in Ops : Engaged(p)' => Engaged(p)
    BY <1>0, <2>1, <2>2 DEF Engaged, At, Op
  <2>8. PassHolds'
    BY <2>1 DEF PassHolds, At, Enters
  <2> QED BY <1>1, <2>4, <2>5, <2>6, <2>7, <2>8, EngagedKeep, HoldPartsNext
<1> QED BY <1>2, <1>3

\* Somebody else's step: the pass stands where it stood, no operation begins to work,
\* and the locks stay.
LEMMA HoldElsewhere ==
  ASSUME TypeInv, HoldInv, EndsForGood', PassInStep', UNCHANGED slot,
         \A v \in Vols : Pv(v)' = Pv(v),
         pass'.pc = pass.pc, pass'.op = pass.op, pass'.then = pass.then,
         pass'.do = pass.do, pass'.todo = pass.todo,
         pass'.obj.deleted = pass.obj.deleted, pass'.obj.phase = pass.obj.phase,
         pass'.obj.step = pass.obj.step,
         \A p \in Ops : /\ Op(p)'.exists => Op(p).exists
                        /\ Op(p).deleted => Op(p)'.deleted
                        /\ Op(p)'.phase = Op(p).phase /\ Op(p)'.step = Op(p).step
  PROVE  HoldInv'
<1>1. \A o : Hold(o)' <=> Hold(o)
  BY LocksStay
<1>2. \A o \in Ops : Engaged(o)' => Engaged(o)
  BY DEF Engaged, At
<1>3. EngagedHolds'
  BY <1>1, <1>2, EngagedKeep
<1>4. Placed'
  BY HoldParts DEF Placed, At
<1>5. PassHolds'
  <2>1. Hold(pass.op)' <=> Hold(pass.op)
    <3>1. PICK o : o = pass.op
      OBVIOUS
    <3>2. Hold(o)' <=> Hold(o)
      BY <1>1
    <3> QED BY <3>1, <3>2 DEF Hold
  <2>2. Siblings(Vol[pass.op])' = Siblings(Vol[pass.op]) /\ Siblings(Vol[pass.op]) \subseteq Vols
    BY DEF Siblings
  <2>3. Enters' <=> Enters
    BY DEF Enters
  <2>4. \A pc : At(pc)' <=> At(pc)
    BY DEF At
  <2>5. (At("lock") => \A v \in Siblings(Vol[pass.op]) \ Later :
                     Pv(v).there = "no" \/ Pv(v).lock = pass.op \/ v \in pass.todo)'
    BY <2>2, <2>4, HoldParts DEF PassHolds
  <2> QED BY <2>1, <2>3, <2>4, <2>5, HoldParts DEF PassHolds
<1> QED BY <1>3, <1>4, <1>5, HoldPartsNext

LEMMA HoldDeliverOp ==
  ASSUME TypeInv, HoldInv, NEW o \in Ops, DeliverOp(o)
  PROVE  HoldInv'
<1>0. UNCHANGED <<locks, pass>>
  BY DEF DeliverOp
<1>1. /\ \A p \in Ops : Op(p)' = Op(p)
      /\ \A p \in Ops \ {o} : opsLog'[p] = opsLog[p]
      /\ \A k \in 1..Len(opsLog'[o]) :
           k + 1 \in 1..Len(opsLog[o]) /\ opsLog'[o][k] = opsLog[o][k + 1]
  BY OpDelivered
<1>2. EndsForGood'
  BY <1>1, HoldParts DEF EndsForGood
<1>3. PassInStep'
  <2>1. CASE At("idle")
    BY <1>0, <2>1 DEF PassInStep, At
  <2>2. CASE ~At("idle")
    <3>1. PICK p \in Ops : p = pass.op
      BY <2>2, PassFields
    <3>2. Op(pass.op)' = Op(pass.op)
      BY <1>0, <1>1, <3>1 DEF Op
    <3> QED BY <1>0, <3>2, HoldParts DEF PassInStep, At, Ending
  <2> QED BY <2>1, <2>2
<1> QED BY <1>0, <1>1, <1>2, <1>3, HoldElsewhere DEF locks, Pv

LEMMA HoldClock ==
  ASSUME TypeInv, HoldInv, NEW o \in Ops, NEW g \in [OpsObj -> OpsObj], ClockKeeps(g),
         opsLog' = [opsLog EXCEPT ![o] = [i \in 1..Len(opsLog[o]) |-> g[opsLog[o][i]]]],
         pass' = IF pass.op = o THEN [pass EXCEPT !.obj = g[pass.obj]] ELSE pass,
         UNCHANGED locks
  PROVE  HoldInv'
<1>1. /\ Op(o)' = g[Op(o)]
      /\ \A p \in Ops \ {o} : opsLog'[p] = opsLog[p] /\ Op(p)' = Op(p)
      /\ Len(opsLog'[o]) = Len(opsLog[o])
      /\ \A k \in 1..Len(opsLog[o]) : opsLog'[o][k] = g[opsLog[o][k]]
  BY OpAged
<1>2. /\ pass'.op = pass.op /\ pass'.pc = pass.pc
      /\ pass'.then = pass.then /\ pass'.fresh = pass.fresh
      /\ pass'.do = pass.do /\ pass'.todo = pass.todo
      /\ pass'.obj = IF pass.op = o THEN g[pass.obj] ELSE pass.obj
  BY ClockMoves
<1>3. /\ \A p \in Ops : Op(p) \in OpsObj
      /\ \A k \in 1..Len(opsLog[o]) : opsLog[o][k] \in OpsObj
      /\ pass.obj \in OpsObj /\ (~At("idle") => pass.op \in Ops)
  BY OpEnds, PassFields
<1>4. \A p \in Ops : /\ Op(p)'.exists = Op(p).exists /\ Op(p)'.deleted = Op(p).deleted
                     /\ Op(p)'.phase = Op(p).phase /\ Op(p)'.step = Op(p).step
  BY <1>1, <1>3 DEF ClockKeeps
<1>5. /\ pass'.obj.deleted = pass.obj.deleted /\ pass'.obj.phase = pass.obj.phase
      /\ pass'.obj.step = pass.obj.step
  BY <1>2, <1>3 DEF ClockKeeps
<1>6. EndsForGood'
  <2>1. ASSUME NEW k \in 1..Len(opsLog'[o])
        PROVE  /\ ~opsLog'[o][k].exists => ~Op(o)'.exists
               /\ Terminal(opsLog'[o][k].phase) => Terminal(Op(o)'.phase)
    BY <1>1, <1>3, <1>4, HoldParts DEF EndsForGood, ClockKeeps
  <2>2. ASSUME NEW p \in Ops \ {o}, NEW k \in 1..Len(opsLog'[p])
        PROVE  /\ ~opsLog'[p][k].exists => ~Op(p)'.exists
               /\ Terminal(opsLog'[p][k].phase) => Terminal(Op(p)'.phase)
    BY <1>1, HoldParts DEF EndsForGood
  <2> QED BY <2>1, <2>2 DEF EndsForGood
<1>7. PassInStep'
  <2>1. CASE At("idle")
    BY <1>2, <2>1 DEF PassInStep, At
  <2>2. CASE ~At("idle")
    <3>1. PICK p \in Ops : p = pass.op
      BY <2>2, <1>3
    <3>2. Op(pass.op)' = Op(p)' /\ Op(pass.op) = Op(p)
      BY <1>2, <3>1 DEF Op
    <3>3. SameStatus(pass.obj, Op(p)) => SameStatus(pass'.obj, Op(p)')
      BY <1>1, <1>2, <1>3, <3>1 DEF ClockKeeps
    <3> QED BY <1>2, <1>4, <1>5, <2>2, <3>2, <3>3, HoldParts DEF PassInStep, At, Ending, SameStatus
  <2> QED BY <2>1, <2>2
<1> QED BY <1>2, <1>4, <1>5, <1>6, <1>7, HoldElsewhere DEF locks, Pv

\* A user's write: no status changes, and an object with a finalizer stays.
LEMMA HoldUser ==
  ASSUME TypeInv, OnceInv, HoldInv, NEW o \in Ops, NEW v \in OpsObj, Room(opsLog[o], MaxLag),
         opsLog' = [opsLog EXCEPT ![o] = Written(@, v)], Disturb(o), UNCHANGED locks,
         SameStatus(v, Op(o)), Op(o).deleted => v.deleted,
         v.exists \/ ~Op(o).finalizer, Op(o).exists
  PROVE  HoldInv'
<1>1. /\ pass'.op = pass.op /\ pass'.pc = pass.pc /\ pass'.obj = pass.obj
      /\ pass'.then = pass.then /\ pass'.do = pass.do /\ pass'.todo = pass.todo
      /\ pass'.fresh = (pass.fresh /\ pass.op # o)
  BY DisturbMoves
<1>2. EndsForGood' /\ Op(o)' = v /\ \A p \in Ops \ {o} : Op(p)' = Op(p)
  BY WriteEnds DEF SameStatus
<1>3. \A p \in Ops : /\ Op(p)'.exists => Op(p).exists
                     /\ Op(p).deleted => Op(p)'.deleted
                     /\ Op(p)'.phase = Op(p).phase /\ Op(p)'.step = Op(p).step
  BY <1>2 DEF SameStatus
<1>4. PassInStep'
  <2>1. CASE At("idle")
    BY <1>1, <2>1 DEF PassInStep, At
  <2>2. CASE ~At("idle")
    <3>1. PICK p \in Ops : p = pass.op
      BY <2>2, PassFields
    <3>2. Op(pass.op)' = Op(p)' /\ Op(pass.op) = Op(p)
      BY <1>1, <3>1 DEF Op
    <3>3. CASE p # o
      BY <1>1, <1>2, <2>2, <3>1, <3>2, <3>3, HoldParts DEF PassInStep, At, Ending
    <3>4. CASE p = o
      <4>1. ~At("finalizer") /\ ~Ending => Op(o).finalizer
        BY <2>2, <3>1, <3>4, OnceParts DEF PassHasFinalizer
      <4>2. ~pass'.fresh /\ Op(pass.op)' = v /\ (Ending' <=> Ending)
        BY <1>1, <1>2, <3>1, <3>2, <3>4 DEF Ending, At
      <4>3. /\ SameStatus(pass.obj, Op(o)) /\ (pass.obj.deleted => Op(o).deleted)
            /\ At("finalizer") \/ Ending \/ v.exists
        BY <2>2, <3>1, <3>4, <4>1, HoldParts DEF PassInStep
      <4>4. SameStatus(pass'.obj, v)
        BY <1>1, <4>3 DEF SameStatus
      <4> QED BY <1>1, <4>2, <4>3, <4>4 DEF PassInStep, At
    <3> QED BY <3>3, <3>4
  <2> QED BY <2>1, <2>2
<1> QED BY <1>1, <1>2, <1>3, <1>4, HoldElsewhere DEF locks, Pv

\* A volume that joins is a later one; one that goes keeps its lock until it is gone.
LEMMA HoldVolumeWrite ==
  ASSUME TypeInv, HoldInv, NEW v \in Vols, VolumeWrite(v)
  PROVE  HoldInv'
<1>0. UNCHANGED <<opsLog, slot, pass>>
  BY DEF VolumeWrite
<1>1. /\ v \in Later \/ Pv(v)'.there = "no" \/ (Pv(v).there # "no" /\ Pv(v)'.lock = Pv(v).lock)
      /\ \A x \in Vols \ {v} : Pv(x)' = Pv(x)
  <2>1. Pv(v) \in PvObj /\ NoVolume \in PvObj
    BY PvEnds, ObjTypes
  <2> DEFINE w == CASE Pv(v).there = "no" -> [NoVolume EXCEPT !.there = "yes"]
                    [] Pv(v).there = "yes" -> [Pv(v) EXCEPT !.there = "deleting"]
                    [] Pv(v).there = "deleting" -> NoVolume
  <2>2. Pv(v).there \in {"no", "yes", "deleting"}
    BY <2>1 DEF PvObj
  <2>3. [NoVolume EXCEPT !.there = "yes"] \in PvObj /\ [Pv(v) EXCEPT !.there = "deleting"] \in PvObj
    BY <2>1 DEF PvObj
  <2>4. w \in PvObj
    BY <2>1, <2>2, <2>3
  <2>5. v \in Later \/ w.there = "no" \/ (Pv(v).there # "no" /\ w.lock = Pv(v).lock)
    <3>1. CASE Pv(v).there = "no"
      BY <3>1 DEF VolumeWrite
    <3>2. CASE Pv(v).there = "yes"
      BY <2>1, <3>2 DEF PvObj
    <3>3. CASE Pv(v).there = "deleting"
      BY <3>3 DEF NoVolume
    <3> QED BY <2>2, <3>1, <3>2, <3>3
  <2>6. pvLog' = [pvLog EXCEPT ![v] = Written(@, w)] /\ Room(pvLog[v], MaxLag)
    BY DEF VolumeWrite
  <2> HIDE DEF w
  <2> QED BY <2>4, <2>5, <2>6, PvWritten
<1>2. \A o, x : x \in Siblings(Vol[o]) \ Later /\ (Pv(x).there = "no" \/ Pv(x).lock = o)
                 => Pv(x)'.there = "no" \/ Pv(x)'.lock = o
  BY <1>1 DEF Siblings
<1>3. \A o : Hold(o) => Hold(o)'
  BY <1>0, <1>2 DEF Hold, Siblings
<1>4. EndsForGood' /\ PassInStep' /\ Placed'
  BY <1>0, HoldParts DEF EndsForGood, PassInStep, Placed, At, Ending, Op
<1>5. EngagedHolds'
  <2>1. \A o \in Ops : Engaged(o)' <=> Engaged(o)
    BY <1>0 DEF Engaged, At, Op
  <2> QED BY <1>3, <2>1, EngagedKeep
<1>6. PassHolds'
  <2>1. Hold(pass.op) => Hold(pass.op)'
    <3>1. PICK o : o = pass.op
      OBVIOUS
    <3>2. Hold(o) => Hold(o)'
      BY <1>3
    <3> QED BY <1>0, <3>1, <3>2 DEF Hold
  <2>2. At("lock")' => \A x \in (Siblings(Vol[pass.op]) \ Later) :
              Pv(x)'.there = "no" \/ Pv(x)'.lock = pass.op \/ x \in pass.todo
    <3> SUFFICES ASSUME At("lock"), NEW x \in (Siblings(Vol[pass.op]) \ Later), x \notin pass.todo
                 PROVE  Pv(x)'.there = "no" \/ Pv(x)'.lock = pass.op
      BY <1>0 DEF At
    <3>1. Pv(x).there = "no" \/ Pv(x).lock = pass.op
      BY HoldParts DEF PassHolds
    <3> QED BY <1>2, <3>1
  <2> QED BY <1>0, <2>1, <2>2, HoldParts DEF PassHolds, At, Enters, Siblings
<1> QED BY <1>4, <1>5, <1>6, HoldPartsNext

LEMMA HoldInit ==
  ASSUME Init, TypeInv
  PROVE  HoldInv
<1>1. pass = Idle
  BY Zenon DEF Init
<1>2. PICK p \in Ops : opsLog = [o \in Ops |->
              <<[NewOp EXCEPT !.exists = o = p \/ "alone" \notin env]>>]
  BY Zenon DEF Init
<1>3. \A o \in Ops : Len(opsLog[o]) = 1 /\ opsLog[o][1].step = ""
  <2> TAKE o \in Ops
  <2> DEFINE b == (o = p \/ "alone" \notin env)
  <2>1. opsLog[o] = <<[NewOp EXCEPT !.exists = b]>>
    BY <1>2
  <2> HIDE DEF b
  <2> DEFINE x == [NewOp EXCEPT !.exists = b]
  <2>2. x.step = ""
    BY DEF NewOp
  <2> HIDE DEF x
  <2>3. opsLog[o] = <<x>>
    BY <2>1 DEF x
  <2>4. Len(opsLog[o]) = 1 /\ opsLog[o][1] = x
    BY <2>3
  <2> QED BY <2>2, <2>4
<1>4. \A o \in Ops : Op(o) = opsLog[o][1] /\ Op(o).step = ""
  BY <1>3 DEF Op, Stored
<1>5. EndsForGood
  <2>1. ASSUME NEW o \in Ops, NEW k \in 1..Len(opsLog[o]) PROVE opsLog[o][k] = Op(o)
    <3>1. Len(opsLog[o]) = 1
      BY <1>3
    <3>2. k = 1
      BY <3>1, SMT
    <3> QED BY <1>4, <3>2
  <2> QED BY <2>1 DEF EndsForGood
<1>6. EngagedHolds
  BY <1>4 DEF EngagedHolds, Engaged
<1>7. pass.pc = "idle"
  BY <1>1, IdleSpot
<1>8. PassInStep /\ PassHolds
  BY <1>7, Zenon DEF PassInStep, PassHolds, At, Enters
<1>9. Placed
  BY <1>7 DEF Placed, At
<1> QED BY <1>5, <1>6, <1>8, <1>9, HoldParts

LEMMA HoldStep ==
  ASSUME TypeInv, OnceInv, HoldInv, PromptOps, [Next]_vars
  PROVE  HoldInv'
<1>0. ASSUME UNCHANGED <<opsLog, locks, pass>> PROVE HoldInv'
  <2>1. EndsForGood' /\ PassInStep'
    BY <1>0, HoldParts DEF EndsForGood, PassInStep, At, Ending, Op
  <2> QED BY <1>0, <2>1, HoldElsewhere DEF locks, Pv, Op
<1>1. CASE UNCHANGED vars
  BY <1>0, <1>1 DEF vars, moving, locks
<1>2. CASE AddFinalizer \/ Resolve \/ AcquireSlot
  BY <1>2, HoldAddFinalizer, HoldResolve, HoldAcquireSlot
<1>3. CASE ReadMembers \/ ReadMembersFails \/ LockVolume \/ Locked
  BY <1>3, HoldReadMembers, HoldReadMembersFails, HoldLockVolume, HoldLocked
<1>4. CASE Advance \/ Claim \/ WriteStatus
  BY <1>4, HoldAdvance, HoldClaim, HoldWriteStatus
<1>5. CASE CreateMigration \/ ContinueMigration \/ DiscardFails
  BY <1>5, HoldCalls
<1>6. CASE DiscardMigration \/ ReleaseSlot \/ DropFinalizer
  BY <1>6, HoldDiscardMigration, HoldReleaseSlot, HoldDropFinalizer
<1>7. ASSUME NEW v \in Vols, ReleaseVolume(v) PROVE HoldInv'
  BY <1>7, HoldReleaseVolume
<1>8. ASSUME NEW o \in Ops, Reconcile(o) PROVE HoldInv'
  BY <1>8, HoldReconcile
<1>9. ASSUME NEW o \in Ops, DeliverOp(o) PROVE HoldInv'
  BY <1>9, HoldDeliverOp
<1>10. ASSUME NEW o \in Ops, LeaseExpires(o) PROVE HoldInv'
  BY <1>10, LeaseIsClock, ClocksKeep, HoldClock DEF LeaseExpires
<1>11. ASSUME NEW o \in Ops, NEW s \in WorkSteps, DeadlinePasses(o, s) PROVE HoldInv'
  BY <1>11, DeadlineIsClock, ClocksKeep, HoldClock DEF DeadlinePasses
<1>12. ASSUME NEW o \in Ops, SetAbort(o) PROVE HoldInv'
  <2> DEFINE v == [Op(o) EXCEPT !.abort = TRUE]
  <2>1. /\ v \in OpsObj /\ Op(o) \in OpsObj /\ Room(opsLog[o], MaxLag) /\ Op(o).exists
        /\ opsLog' = [opsLog EXCEPT ![o] = Written(@, v)] /\ Disturb(o) /\ UNCHANGED locks
    BY <1>12, SetAbortMoves, OpEnds DEF SetAbort
  <2>2. SameStatus(v, Op(o)) /\ v.exists = Op(o).exists /\ v.deleted = Op(o).deleted
    BY <2>1 DEF OpsObj, SameStatus
  <2> HIDE DEF v
  <2> QED BY <2>1, <2>2, HoldUser
<1>13. ASSUME NEW o \in Ops, Delete(o) PROVE HoldInv'
  <2> DEFINE v == Removed(Op(o))
  <2>1. /\ v \in OpsObj /\ Op(o) \in OpsObj /\ Room(opsLog[o], MaxLag) /\ Op(o).exists
        /\ opsLog' = [opsLog EXCEPT ![o] = Written(@, v)] /\ Disturb(o) /\ UNCHANGED locks
    BY <1>13, DeleteMoves, OpEnds DEF Delete, Removed
  <2>2. SameStatus(v, Op(o)) /\ (v.exists \/ ~Op(o).finalizer) /\ (Op(o).deleted => v.deleted)
    BY <2>1 DEF OpsObj, Removed, SameStatus
  <2> HIDE DEF v
  <2> QED BY <2>1, <2>2, HoldUser
<1>14. ASSUME NEW o \in Ops, CpCopy(o) PROVE HoldInv'
  BY <1>0, <1>14 DEF CpCopy
<1>15. ASSUME NEW v \in Vols, DeliverPv(v) PROVE HoldInv'
  <2>1. UNCHANGED <<opsLog, slot, pass>> /\ \A x \in Vols : Pv(x)' = Pv(x)
    BY <1>15, PvDelivered DEF DeliverPv
  <2>2. EndsForGood' /\ PassInStep'
    BY <2>1, HoldParts DEF EndsForGood, PassInStep, At, Ending, Op
  <2> QED BY <2>1, <2>2, HoldElsewhere DEF Op
<1>16. ASSUME NEW v \in Vols, VolumeWrite(v) PROVE HoldInv'
  BY <1>16, HoldVolumeWrite
<1>17. CASE Crash
  <2>1. UNCHANGED <<opsLog, locks>> /\ pass' = Idle
    BY <1>17 DEF Crash
  <2>2. \A o : Hold(o)' <=> Hold(o)
    BY <2>1, LocksStay DEF locks, Pv
  <2> QED BY <2>1, <2>2, EndHolds, EngagedKeep, HoldPartsNext
<1>18. CASE Worker
  BY <1>18, <1>2, <1>3, <1>4, <1>5, <1>6, <1>7, <1>8 DEF Worker, PassStep
<1>19. CASE Environment
  BY <1>19, <1>9, <1>10, <1>11, <1>12, <1>13, <1>14, <1>15, <1>16, <1>17 DEF Environment
<1> QED BY <1>1, <1>18, <1>19 DEF Next

LEMMA HoldAlways == Spec => []PromptHold
<1>1. Init /\ TypeInv => PromptHold
  BY HoldInit DEF PromptHold
<1>2. TypeInv /\ OnceInv /\ PromptHold /\ [Next]_vars => PromptHold'
  <2>1. [Next]_vars => UNCHANGED env
    BY DEF Next, vars
  <2> QED BY <2>1, HoldStep DEF PromptHold, PromptOps
<1> QED BY <1>1, <1>2, TypeAlways, OnceAlways, PTL DEF Spec

\* As long as a pass begins with the newest version of its operation, a running operation
\* holds the slot and its subsystem, whatever else lags, crashes, joins or goes: locks are
\* broken only into operations that ended, and those never work again (lockIsStale).
THEOREM RunningHoldsLocks == Spec => [](PromptOps => SubsystemLocked)
<1>1. PromptHold => (PromptOps => SubsystemLocked)
  <2> SUFFICES ASSUME HoldInv, NEW o \in Ops, Running(o)
               PROVE  /\ slot = o
                      /\ \A v \in Siblings(Vol[o]) \ Later : Pv(v).there = "no" \/ Pv(v).lock = o
    BY DEF PromptHold, SubsystemLocked
  <2>1. Engaged(o)
    BY DEF Running, Engaged, WorkSteps, Terminal
  <2> QED BY <2>1, HoldParts DEF EngagedHolds, Hold
<1> QED BY <1>1, HoldAlways, PTL

\* And the control plane is only asked by the operation whose name the volume carries:
\* between the lock and the call no other pass can have broken it (once, advance).
THEOREM CallsUnderLock == Spec => [](PromptOps => CallUnderLock)
<1>1. TypeInv /\ PromptHold => (PromptOps => CallUnderLock)
  <2> SUFFICES ASSUME TypeInv, HoldInv, At("call")
               PROVE  Pv(Vol[pass.op]).there = "no" \/ Pv(Vol[pass.op]).lock = pass.op
    BY DEF PromptHold, CallUnderLock
  <2>1. /\ ~pass.obj.deleted /\ ~Terminal(pass.obj.phase) /\ pass.obj.step # ""
        /\ ~At("idle") /\ ~At("finalizer") /\ ~Ending
    BY HoldParts DEF Placed, At, Ending
  <2>2. Hold(pass.op) /\ pass.op \in Ops
    BY <2>1, PassEngaged, PassFields
  <2>3. Vol[pass.op] \in Siblings(Vol[pass.op]) \ Later
    BY <2>2, VolumeOpsAssumption DEF Siblings
  <2> QED BY <2>2, <2>3 DEF Hold
<1> QED BY <1>1, TypeAlways, HoldAlways, PTL

-------------------------------------------------------------------------------
(* Nothing is left behind: a holder that has ended is looked at again.     *)

Has(o) == slot = o \/ Carries(o) # {}

\* A deletion is never taken back.
DeletedStays ==
  \A o \in Ops : \A i, j \in 1..Len(opsLog[o]) :
    i <= j /\ opsLog[o][i].deleted => opsLog[o][j].deleted

\* Of an operation that is gone, every version with a finalizer shows the deletion.
Announced(log) ==
  \A k \in 1..Len(log) : log[k].exists /\ log[k].finalizer => log[k].deleted
GoneAnnounced == \A o \in Ops : ~Op(o).exists => Announced(opsLog[o])

\* The points of a pass at which it may take a lock or the slot.
Taking == {"resolve", "slot", "members", "lock"}

\* A pass p of an operation with the versions `log`: it takes locks for an operation that
\* exists, a copy whose patch would land knows of the deletion, a teardown is seen by
\* everybody who reads the operation from now on, and drops the finalizer last.
PassLeft(p, log, has) ==
  /\ p.pc \in Taking => Stored(log).exists
  /\ p.pc = "finalizer" /\ p.fresh /\ Stored(log).deleted => p.obj.deleted
  /\ p.pc \in {"discard", "release", "drop"} /\ p.then = "drop" =>
       p.obj.deleted /\ \A k \in 1..Len(log) : log[k].deleted
  /\ p.pc = "drop" => p.then = "drop" /\ ~has
PassLeaves ==
  \A o \in Ops : ~At("idle") /\ pass.op = o => PassLeft(pass, opsLog[o], Has(o))

\* Who holds anything is there, with the finalizer that gives it back.
HolderKept == \A o \in Ops : Has(o) => Op(o).exists /\ Op(o).finalizer

\* Who has ended and holds anything has a pass running, or one to come.
ReleaseOwed ==
  \A o \in Ops : Has(o) /\ Terminal(Op(o).phase) =>
    o \in queue \/ ~Current(opsLog[o]) \/ (~At("idle") /\ pass.op = o)

LeftInv == DeletedStays /\ GoneAnnounced /\ PassLeaves /\ HolderKept /\ ReleaseOwed

LEMMA LeftParts ==
  LeftInv <=> DeletedStays /\ GoneAnnounced /\ PassLeaves /\ HolderKept /\ ReleaseOwed
  BY DEF LeftInv

LEMMA LeftPartsNext ==
  ASSUME DeletedStays', GoneAnnounced', PassLeaves', HolderKept', ReleaseOwed'
  PROVE  LeftInv'
  BY DEF LeftInv

LEMMA IdleLeft ==
  ASSUME pass' = Idle
  PROVE  PassLeaves'
<1>1. pass'.pc = "idle"
  BY IdleSpot
<1> QED BY <1>1, Zenon DEF PassLeaves, At

\* The queue after a piece of a pass: it keeps what it had, and gets the operation of a
\* pass that ends.
Requeues == queue \subseteq queue' /\ (pass'.pc = "idle" => pass.op \in queue')

LEMMA PieceQueues ==
  ASSUME TypeInv, ~At("idle")
  PROVE  /\ End(TRUE) => Requeues
         /\ \A pc \in Points \ {"idle"} : Goto(pc) => Requeues
         /\ \A do, arg, then : WriteThen(do, arg, then) => Requeues
         /\ \A ph, then : Discard(ph, then) => Requeues
         /\ \A then : Release(then) => Requeues
         /\ \A do : Say(do) => Requeues
<1>0. pass \in PassObj /\ queue \subseteq Ops
  BY PassFields
<1>1. End(TRUE) => Requeues
  BY DEF End, Requeues
<1>2. ASSUME NEW pc, pc # "idle", UNCHANGED queue, pass'.pc = pc PROVE Requeues
  BY <1>2 DEF Requeues
<1>3. ASSUME NEW pc \in Points \ {"idle"}, Goto(pc) PROVE Requeues
  <2>1. pass'.pc = pc /\ pc # "idle" /\ UNCHANGED queue
    BY <1>0, <1>3 DEF Goto, PassObj
  <2> QED BY <1>2, <2>1
<1>4. ASSUME NEW do, NEW arg, NEW then, WriteThen(do, arg, then) PROVE Requeues
  <2>1. pass'.pc = "write" /\ UNCHANGED queue
    BY <1>0, <1>4 DEF WriteThen, PassObj
  <2> QED BY <1>2, <2>1
<1>5. ASSUME NEW ph, NEW then, Discard(ph, then) PROVE Requeues
  <2>1. pass'.pc = "discard" /\ UNCHANGED queue
    BY <1>0, <1>5 DEF Discard, PassObj
  <2> QED BY <1>2, <2>1
<1>6. ASSUME NEW then, Release(then) PROVE Requeues
  <2>1. pass'.pc = "release" /\ UNCHANGED queue
    BY <1>0, <1>6 DEF Release, PassObj
  <2> QED BY <1>2, <2>1
<1>7. \A do : Say(do) => Requeues
  BY <1>1, <1>4 DEF Say
<1> QED BY <1>1, <1>3, <1>4, <1>5, <1>6, <1>7

\* Every piece of a pass but the writes and the releases puts its operation back when it
\* ends the pass.
LEMMA ActionQueues ==
  ASSUME TypeInv, Resolve \/ AcquireSlot \/ ReadMembers \/ ReadMembersFails \/ LockVolume
                  \/ Locked \/ Advance \/ CreateMigration \/ ContinueMigration
                  \/ DiscardMigration \/ DiscardFails
  PROVE  Requeues /\ ~At("idle")
<1>0. ~At("idle")
  BY DEF Resolve, AcquireSlot, ReadMembers, ReadMembersFails, LockVolume, Locked, Advance,
         CreateMigration, ContinueMigration, DiscardMigration, DiscardFails, At
<1> USE <1>0
<1>1. CASE Resolve
  <2>1. Goto(IF pass.obj.step = "" THEN "slot" ELSE "members") => Requeues
    BY PieceQueues DEF Points
  <2> QED BY <1>1, <2>1, PieceQueues DEF Resolve, Finish
<1>2. CASE AcquireSlot
  BY <1>2, PieceQueues DEF AcquireSlot, Points
<1>3. CASE ReadMembers
  <2>1. ASSUME NEW todo, pass' = [pass EXCEPT !.pc = "lock", !.todo = todo], UNCHANGED queue
        PROVE  Requeues
    <3>1. pass'.pc = "lock"
      BY <2>1, PassFields DEF PassObj
    <3> QED BY <2>1, <3>1 DEF Requeues
  <2> QED BY <1>3, <2>1, PieceQueues DEF ReadMembers, Finish, Points
<1>4. CASE ReadMembersFails
  BY <1>4, PieceQueues DEF ReadMembersFails
<1>5. CASE LockVolume
  <2>1. ASSUME NEW todo, pass' = [pass EXCEPT !.todo = todo], UNCHANGED queue
        PROVE  Requeues
    <3>1. pass'.pc = pass.pc
      BY <2>1, PassFields DEF PassObj
    <3> QED BY <2>1, <3>1 DEF Requeues, At
  <2>2. \A then : AbandonAcquisition(then) => Requeues
    BY PieceQueues DEF AbandonAcquisition
  <2> QED BY <1>5, <2>1, <2>2 DEF LockVolume
<1>6. CASE Locked
  BY <1>6, PieceQueues DEF Locked, Points
<1>7. CASE Advance
  <2>1. Perform => Requeues
    BY PieceQueues DEF Perform, Validate, Copy, Record, Finish, Points
  <2> QED BY <1>7, <2>1, PieceQueues DEF Advance
<1>8. CASE CreateMigration
  BY <1>8, PieceQueues DEF CreateMigration, Finish
<1>9. CASE ContinueMigration
  BY <1>9, PieceQueues DEF ContinueMigration
<1>10. CASE DiscardMigration \/ DiscardFails
  BY <1>10, PieceQueues DEF DiscardMigration, DiscardFails, AfterDiscard, Finish
<1> QED BY <1>1, <1>2, <1>3, <1>4, <1>5, <1>6, <1>7, <1>8, <1>9, <1>10

\* Logs nobody writes.
LEMMA LogsLeft ==
  ASSUME LeftInv, UNCHANGED opsLog
  PROVE  DeletedStays' /\ GoneAnnounced' /\ \A p \in Ops : Op(p)' = Op(p)
  BY LeftParts DEF DeletedStays, GoneAnnounced, Op

\* Locks nobody touches.
LEMMA HasStays ==
  ASSUME UNCHANGED slot, \A v \in Vols : Pv(v)' = Pv(v)
  PROVE  \A o : Has(o)' <=> Has(o)
  BY DEF Has, Carries

\* A step of the pass of o that writes no operation: it takes a lock only where it may,
\* and ends with its operation in the queue or with nothing held.
LEMMA PassStepLeft ==
  ASSUME TypeInv, OnceInv, LeftInv, UNCHANGED opsLog, ~At("idle"), NEW o \in Ops, pass.op = o,
         queue \subseteq queue',
         o \in queue' \/ ~Has(o)' \/ (pass'.op = o /\ pass'.pc # "idle"),
         \A p \in Ops \ {o} : Has(p)' => Has(p),
         Has(o)' => Has(o) \/ pass.pc \in Taking,
         PassLeaves'
  PROVE  LeftInv'
<1>1. DeletedStays' /\ GoneAnnounced' /\ \A p \in Ops : Op(p)' = Op(p)
  BY LogsLeft
<1>2. HolderKept'
  <2>1. pass.pc \in Taking => Op(o).exists
    BY LeftParts DEF PassLeaves, PassLeft, Op
  <2>2. pass.pc \in Taking => Op(o).finalizer
    BY OnceParts DEF PassHasFinalizer, At, Ending, Taking
  <2> QED BY <1>1, <2>1, <2>2, LeftParts DEF HolderKept
<1>3. ReleaseOwed'
  <2> SUFFICES ASSUME NEW p \in Ops, Has(p)', Terminal(Op(p)'.phase)
               PROVE  (p \in queue \/ ~Current(opsLog[p]) \/ (~At("idle") /\ pass.op = p))'
    BY DEF ReleaseOwed
  <2>1. CASE p = o
    BY <2>1 DEF At
  <2>2. CASE p # o
    <3>1. p \in queue \/ ~Current(opsLog[p])
      BY <1>1, <2>2, LeftParts DEF ReleaseOwed
    <3> QED BY <3>1
  <2> QED BY <2>1, <2>2
<1> QED BY <1>1, <1>2, <1>3, LeftPartsNext

\* A step of the pass that goes on with what it had read, before its end.
LEMMA OnLeft ==
  ASSUME TypeInv, LeftInv, UNCHANGED opsLog, ~At("idle"), Held, pass'.pc # "finalizer",
         pass'.pc # "drop",
         pass'.pc \in Taking => pass.pc \in Taking,
         pass'.pc \in {"discard", "release"} /\ pass'.then = "drop" =>
           pass.pc \in {"discard", "release", "drop"} /\ pass.then = "drop"
  PROVE  PassLeaves'
<1> SUFFICES ASSUME NEW o \in Ops, pass'.op = o
             PROVE  PassLeft(pass', opsLog'[o], Has(o)')
  BY DEF PassLeaves
<1>1. PassLeft(pass, opsLog[o], Has(o)) /\ pass'.obj = pass.obj /\ pass'.fresh = pass.fresh
  BY LeftParts DEF PassLeaves, Held
<1> QED BY <1>1 DEF PassLeft

\* The pieces of a pass that write nothing.
LEMMA LeftPlain ==
  ASSUME TypeInv, OnceInv, LeftInv,
         Resolve \/ ReadMembers \/ ReadMembersFails \/ Locked \/ Advance \/ CreateMigration
           \/ ContinueMigration \/ DiscardMigration \/ DiscardFails
  PROVE  LeftInv'
<1>1. UNCHANGED <<opsLog, locks>>
  BY DEF Resolve, ReadMembers, ReadMembersFails, Locked, Advance, CreateMigration,
         ContinueMigration, DiscardMigration, DiscardFails
<1>2. Requeues /\ ~At("idle")
  BY ActionQueues
<1>3. pass' = Idle \/ (Held /\ pass'.pc # "idle" /\ PassLeaves')
  <2>1. CASE Resolve
    <3>1. At("resolve") /\ Onward({"discard", "slot", "members", "write"})
      BY <2>1, ResolveMoves DEF Resolve
    <3> QED BY <1>1, <1>2, <3>1, OnLeft DEF Onward, At, Taking
  <2>2. CASE ReadMembers
    <3>1. At("members") /\ Onward({"step", "lock", "write"})
      BY <2>2, ReadMembersMoves DEF ReadMembers
    <3> QED BY <1>1, <1>2, <3>1, OnLeft DEF Onward, At, Taking
  <2>3. CASE ReadMembersFails
    BY <2>3, ReadMembersFailsMoves DEF Onward
  <2>4. CASE Locked \/ Advance \/ ContinueMigration \/ CreateMigration \/ DiscardFails
    <3>1. Onward({"step", "write", "discard", "claim"})
      BY <2>4, LockedMoves, AdvanceMoves, ContinueMigrationMoves, CreateMigrationMoves,
         DiscardFailsMoves DEF Onward
    <3> QED BY <1>1, <1>2, <3>1, OnLeft DEF Onward, Taking
  <2>5. CASE DiscardMigration
    <3>1. /\ At("discard") /\ Held
          /\ \/ pass'.pc = "write"
             \/ pass'.pc = "release" /\ pass'.then = "drop" /\ pass.then = "drop"
      BY <2>5, DiscardMigrationMoves DEF DiscardMigration
    <3> QED BY <1>1, <1>2, <3>1, OnLeft DEF At, Taking
  <2> QED BY <2>1, <2>2, <2>3, <2>4, <2>5
<1>4. PICK o \in Ops : o = pass.op
  BY <1>2, PassFields
<1>5. \A p : Has(p)' <=> Has(p)
  BY <1>1, HasStays DEF locks, Pv
<1>6. PassLeaves'
  BY <1>3, IdleLeft
<1>7. queue \subseteq queue' /\ (o \in queue' \/ (pass'.op = o /\ pass'.pc # "idle"))
  BY <1>2, <1>3, <1>4, IdleSpot DEF Requeues, Held
<1> QED BY <1>1, <1>2, <1>4, <1>5, <1>6, <1>7, PassStepLeft

\* The slot is taken by an operation that exists.
LEMMA LeftAcquireSlot ==
  ASSUME TypeInv, OnceInv, LeftInv, AcquireSlot
  PROVE  LeftInv'
<1>1. UNCHANGED <<opsLog, pvLog>> /\ At("slot") /\ (slot' = slot \/ slot' = pass.op)
  BY DEF AcquireSlot
<1>2. Requeues /\ ~At("idle")
  BY ActionQueues
<1>3. pass' = Idle \/ (Held /\ pass'.pc # "idle" /\ PassLeaves')
  <2>1. Onward({"members", "write"})
    BY AcquireSlotMoves
  <2> QED BY <1>1, <1>2, <2>1, OnLeft DEF Onward, At, Taking
<1>4. PICK o \in Ops : o = pass.op
  BY <1>2, PassFields
<1>5. \A p \in Ops \ {o} : Has(p)' => Has(p)
  <2>1. \A p : Carries(p)' = Carries(p)
    BY <1>1 DEF Carries, Pv
  <2> QED BY <1>1, <1>4, <2>1 DEF Has
<1>6. PassLeaves'
  BY <1>3, IdleLeft
<1>7. queue \subseteq queue' /\ (o \in queue' \/ (pass'.op = o /\ pass'.pc # "idle"))
  BY <1>2, <1>3, <1>4, IdleSpot DEF Requeues, Held
<1>8. pass.pc \in Taking
  BY <1>1 DEF At, Taking
<1> QED BY <1>1, <1>2, <1>4, <1>5, <1>6, <1>7, <1>8, PassStepLeft

\* An annotation that is set to somebody adds to nobody else's volumes.
LEMMA LockSet ==
  ASSUME TypeInv, NEW v \in Vols, NEW o \in Ops \cup {NoOp}, SetLock(v, o)
  PROVE  \A p \in Ops \ {o} : Carries(p)' \subseteq Carries(p)
<1>1. /\ [Pv(v) EXCEPT !.lock = o] \in PvObj /\ Pv(v) \in PvObj
  BY PvEnds, ObjTypes
<1>2. [Pv(v) EXCEPT !.lock = o].lock = o
  BY <1>1 DEF PvObj
<1>3. Pv(v)'.lock = o /\ \A x \in Vols \ {v} : Pv(x)' = Pv(x)
  BY <1>1, <1>2, PvWritten DEF SetLock
<1> QED BY <1>3 DEF Carries

\* So is a volume.
LEMMA LeftLockVolume ==
  ASSUME TypeInv, OnceInv, LeftInv, LockVolume
  PROVE  LeftInv'
<1>1. UNCHANGED <<opsLog, slot>> /\ At("lock") /\ pass.todo # {}
  BY DEF LockVolume
<1>2. Requeues /\ ~At("idle")
  BY ActionQueues
<1>3. pass' = Idle \/ (Held /\ pass'.pc # "idle" /\ PassLeaves')
  <2>1. /\ Onward({"lock", "write", "release"})
        /\ pass'.pc = "release" => pass'.then \in {"hold", "requeue"}
    BY LockVolumeMoves
  <2> QED BY <1>1, <1>2, <2>1, OnLeft DEF Onward, At, Taking
<1>4. PICK o \in Ops : o = pass.op
  BY <1>2, PassFields
<1>5. \A p \in Ops \ {o} : Has(p)' => Has(p)
  <2>1. CASE UNCHANGED pvLog
    BY <1>1, <2>1 DEF Has, Carries, Pv
  <2>2. CASE SetLock(Min(pass.todo), o)
    <3>1. Min(pass.todo) \in Vols
      <4>1. pass.todo \in SUBSET Nat /\ pass.todo \in SUBSET Vols
        BY PassFields, VolumeOpsAssumption
      <4> QED BY <1>1, <4>1, MinIsMember
    <3>2. \A p \in Ops \ {o} : Carries(p)' \subseteq Carries(p)
      BY <2>2, <3>1, LockSet
    <3> QED BY <1>1, <3>2 DEF Has
  <2> QED BY <1>4, <2>1, <2>2 DEF LockVolume
<1>6. PassLeaves'
  BY <1>3, IdleLeft
<1>7. queue \subseteq queue' /\ (o \in queue' \/ (pass'.op = o /\ pass'.pc # "idle"))
  BY <1>2, <1>3, <1>4, IdleSpot DEF Requeues, Held
<1>8. pass.pc \in Taking
  BY <1>1 DEF At, Taking
<1> QED BY <1>1, <1>2, <1>4, <1>5, <1>6, <1>7, <1>8, PassStepLeft

LEMMA LeftReleaseVolume ==
  ASSUME TypeInv, OnceInv, LeftInv, NEW v \in Vols, ReleaseVolume(v)
  PROVE  LeftInv'
<1>1. UNCHANGED <<opsLog, slot, queue, pass>> /\ At("release") /\ ~At("idle")
  BY DEF ReleaseVolume, At
<1>2. PICK o \in Ops : o = pass.op
  BY <1>1, PassFields
<1>3. \A p \in Ops : Has(p)' => Has(p)
  <2>1. \A p \in Ops \ {NoOp} : Carries(p)' \subseteq Carries(p)
    BY LockSet DEF ReleaseVolume
  <2> QED BY <1>1, <2>1, VolumeOpsAssumption DEF Has
<1>4. PassLeaves'
  <2> SUFFICES ASSUME NEW p \in Ops, pass.op = p
               PROVE  PassLeft(pass', opsLog'[p], Has(p)')
    BY <1>1 DEF PassLeaves
  <2>1. PassLeft(pass, opsLog[p], Has(p))
    BY <1>1, LeftParts DEF PassLeaves
  <2> QED BY <1>1, <2>1 DEF PassLeft, At
<1>5. pass'.op = o /\ pass'.pc # "idle"
  BY <1>1, <1>2 DEF At
<1> QED BY <1>1, <1>2, <1>3, <1>4, <1>5, PassStepLeft

\* The last piece of a release: the operation holds nothing any more.
LEMMA LeftReleaseSlot ==
  ASSUME TypeInv, OnceInv, LeftInv, ReleaseSlot
  PROVE  LeftInv'
<1>1. /\ UNCHANGED <<opsLog, pvLog>> /\ At("release") /\ ~At("idle") /\ Carries(pass.op) = {}
      /\ slot' = SlotAfterRelease
  BY DEF ReleaseSlot, At
<1>2. PICK o \in Ops : o = pass.op
  BY <1>1, PassFields
<1>3. ~Has(o)' /\ \A p \in Ops : Has(p)' => Has(p)
  <2>1. \A p : Carries(p)' = Carries(p)
    BY <1>1 DEF Carries, Pv
  <2> QED BY <1>1, <1>2, <2>1, VolumeOpsAssumption DEF Has, SlotAfterRelease
<1>4. pass' = Idle \/ (Held /\ pass'.pc \in {"drop", "write"} /\ (pass'.pc = "drop" => pass.then = "drop"))
  BY ReleaseSlotMoves DEF Onward
<1>5. pass'.pc = "drop" => pass'.then = "drop"
  <2>1. pass'.pc # "drop" \/ Goto("drop")
    <3>1. End(FALSE) \/ End(TRUE) => pass'.pc # "drop"
      BY IdleSpot DEF End
    <3>2. Say("hold") => pass'.pc # "drop"
      BY <1>1, SayMoves, IdleSpot
    <3> QED BY <3>1, <3>2 DEF ReleaseSlot
  <2>2. Goto("drop") => pass'.then = pass.then
    BY <1>1, GotoMoves
  <2>3. pass'.pc = "drop" => pass.then = "drop"
    BY <1>4, IdleSpot
  <2> QED BY <2>1, <2>2, <2>3
<1>6. PassLeaves'
  <2>1. CASE pass' = Idle
    BY <2>1, IdleLeft
  <2>2. CASE pass' # Idle
    <3> SUFFICES ASSUME NEW p \in Ops, pass'.op = p
                 PROVE  PassLeft(pass', opsLog'[p], Has(p)')
      BY DEF PassLeaves
    <3>1. p = o /\ pass.op = p /\ PassLeft(pass, opsLog[p], Has(p))
      BY <1>1, <1>2, <1>4, <2>2, LeftParts DEF PassLeaves, Held
    <3> QED BY <1>1, <1>3, <1>4, <1>5, <2>2, <3>1 DEF PassLeft, At, Held, Taking
  <2> QED BY <2>1, <2>2
<1>7. queue \subseteq queue'
  <2>1. End(FALSE) \/ End(TRUE) \/ Goto("drop") => queue \subseteq queue'
    BY DEF End, Goto
  <2>2. Say("hold") => queue \subseteq queue'
    BY <1>1, PieceQueues DEF Requeues
  <2> QED BY <2>1, <2>2 DEF ReleaseSlot
<1> QED BY <1>1, <1>2, <1>3, <1>6, <1>7, PassStepLeft

\* A write of operation o that keeps its deletion and its finalizer, and takes it away
\* only when it holds nothing and its teardown has been seen.
LEMMA LeftWritten ==
  ASSUME TypeInv, OnceInv, LeftInv, NEW o \in Ops, NEW v \in OpsObj, Room(opsLog[o], MaxLag),
         opsLog' = [opsLog EXCEPT ![o] = Written(@, v)], UNCHANGED locks,
         Op(o).deleted => v.deleted, Op(o).finalizer => v.finalizer,
         v.exists \/ (~Has(o) /\ Announced(opsLog[o])),
         queue \subseteq queue',
         \A p \in Ops \ {o} : ~At("idle") /\ pass.op = p => pass'.op = p /\ pass'.pc # "idle",
         PassLeaves'
  PROVE  LeftInv'
<1>1. /\ Op(o)' = v /\ \A p \in Ops \ {o} : opsLog'[p] = opsLog[p] /\ Op(p)' = Op(p)
      /\ Len(opsLog'[o]) = Len(opsLog[o]) + 1
      /\ opsLog'[o][Len(opsLog[o]) + 1] = v
      /\ \A k \in 1..Len(opsLog[o]) : opsLog'[o][k] = opsLog[o][k]
  BY OpWritten
<1>2. Len(opsLog[o]) \in Nat \ {0} /\ Op(o) = opsLog[o][Len(opsLog[o])]
  BY OpEnds
<1>3. \A p : Has(p)' <=> Has(p)
  BY HasStays DEF locks, Pv
<1>4. DeletedStays'
  <2>1. ASSUME NEW i \in 1..Len(opsLog'[o]), NEW j \in 1..Len(opsLog'[o]), i <= j,
               opsLog'[o][i].deleted
        PROVE  opsLog'[o][j].deleted
    <3>1. CASE i = Len(opsLog[o]) + 1
      <4>1. j = i
        BY <1>1, <1>2, <2>1, <3>1
      <4> QED BY <2>1, <4>1
    <3>2. CASE i # Len(opsLog[o]) + 1
      <4>1. i \in 1..Len(opsLog[o]) /\ i <= Len(opsLog[o]) /\ Len(opsLog[o]) \in 1..Len(opsLog[o])
        BY <1>1, <1>2, <3>2
      <4>2. opsLog[o][i].deleted
        BY <1>1, <2>1, <4>1
      <4>3. CASE j = Len(opsLog[o]) + 1
        <5>1. Op(o).deleted
          BY <1>2, <4>1, <4>2, LeftParts DEF DeletedStays
        <5> QED BY <1>1, <4>3, <5>1
      <4>4. CASE j # Len(opsLog[o]) + 1
        <5>1. j \in 1..Len(opsLog[o])
          BY <1>1, <1>2, <4>4
        <5> QED BY <1>1, <2>1, <4>1, <4>2, <5>1, LeftParts DEF DeletedStays
      <4> QED BY <4>3, <4>4
    <3> QED BY <3>1, <3>2
  <2>2. ASSUME NEW p \in Ops \ {o}, NEW i \in 1..Len(opsLog'[p]), NEW j \in 1..Len(opsLog'[p]),
               i <= j, opsLog'[p][i].deleted
        PROVE  opsLog'[p][j].deleted
    BY <1>1, <2>2, LeftParts DEF DeletedStays
  <2> QED BY <2>1, <2>2 DEF DeletedStays
<1>5. GoneAnnounced'
  <2>1. ~v.exists => Announced(opsLog'[o])
    <3> SUFFICES ASSUME ~v.exists, NEW k \in 1..Len(opsLog'[o]), opsLog'[o][k].exists,
                        opsLog'[o][k].finalizer
                 PROVE  opsLog'[o][k].deleted
      BY DEF Announced
    <3>1. k # Len(opsLog[o]) + 1
      BY <1>1
    <3>2. k \in 1..Len(opsLog[o])
      BY <1>1, <1>2, <3>1
    <3> QED BY <1>1, <3>2 DEF Announced
  <2>2. \A p \in Ops \ {o} : ~Op(p)'.exists => Announced(opsLog'[p])
    BY <1>1, LeftParts DEF GoneAnnounced
  <2> QED BY <1>1, <2>1, <2>2 DEF GoneAnnounced
<1>6. HolderKept'
  BY <1>1, <1>3, LeftParts DEF HolderKept
<1>7. ReleaseOwed'
  <2> SUFFICES ASSUME NEW p \in Ops, Has(p)', Terminal(Op(p)'.phase)
               PROVE  (p \in queue \/ ~Current(opsLog[p]) \/ (~At("idle") /\ pass.op = p))'
    BY DEF ReleaseOwed
  <2>1. CASE p = o
    <3>1. Len(opsLog'[o]) # 1
      BY <1>1, <1>2
    <3> QED BY <2>1, <3>1 DEF Current
  <2>2. CASE p # o
    <3>1. opsLog'[p] = opsLog[p] /\ Op(p)' = Op(p) /\ Has(p)
      BY <1>1, <1>3, <2>2
    <3>2. p \in queue \/ ~Current(opsLog[p]) \/ (~At("idle") /\ pass.op = p)
      BY <3>1, LeftParts DEF ReleaseOwed
    <3>3. p \in queue' \/ ~Current(opsLog'[p]) \/ (pass'.op = p /\ pass'.pc # "idle")
      BY <2>2, <3>1, <3>2
    <3> QED BY <3>3 DEF At
  <2> QED BY <2>1, <2>2
<1> QED BY <1>4, <1>5, <1>6, <1>7, LeftPartsNext

\* A user's write of operation o, which the pass on it has not seen.
LEMMA LeftUser ==
  ASSUME TypeInv, OnceInv, LeftInv, NEW o \in Ops, NEW v \in OpsObj, Room(opsLog[o], MaxLag),
         opsLog' = [opsLog EXCEPT ![o] = Written(@, v)], Disturb(o), UNCHANGED <<locks, queue>>,
         v.finalizer = Op(o).finalizer, Op(o).deleted => v.deleted,
         v.exists \/ ~v.finalizer
  PROVE  LeftInv'
<1>1. /\ pass'.op = pass.op /\ pass'.pc = pass.pc /\ pass'.obj = pass.obj
      /\ pass'.then = pass.then /\ pass'.fresh = (pass.fresh /\ pass.op # o)
  BY DisturbMoves
<1>2. \A p : Has(p)' <=> Has(p)
  BY HasStays DEF locks, Pv
<1>3. /\ Op(o)' = v /\ \A p \in Ops \ {o} : opsLog'[p] = opsLog[p]
      /\ Len(opsLog'[o]) = Len(opsLog[o]) + 1
      /\ opsLog'[o][Len(opsLog[o]) + 1] = v
      /\ \A k \in 1..Len(opsLog[o]) : opsLog'[o][k] = opsLog[o][k]
  BY OpWritten
<1>4. v.exists \/ (~Has(o) /\ Announced(opsLog[o]))
  <2>1. ~Op(o).finalizer => Announced(opsLog[o])
    BY OnceParts DEF FinalizerStays, Announced
  <2>2. ~Op(o).finalizer => ~Has(o)
    BY LeftParts DEF HolderKept
  <2> QED BY <2>1, <2>2
<1>5. PassLeaves'
  <2> SUFFICES ASSUME NEW p \in Ops, ~At("idle"), pass.op = p
               PROVE  PassLeft(pass', opsLog'[p], Has(p)')
    BY <1>1 DEF PassLeaves, At
  <2>1. PassLeft(pass, opsLog[p], Has(p))
    BY LeftParts DEF PassLeaves
  <2>2. CASE p # o
    <3>1. opsLog'[p] = opsLog[p] /\ pass'.fresh = pass.fresh
      BY <1>1, <1>3, <2>2, PassFields
    <3> QED BY <1>1, <1>2, <2>1, <3>1 DEF PassLeft
  <2>3. CASE p = o
    <3>1. ~pass'.fresh /\ Stored(opsLog'[o]) = v
      BY <1>1, <1>3, <2>3 DEF Op
    <3>2. pass.pc \in Taking => v.exists
      <4>1. pass.pc \in Taking => Op(o).finalizer
        BY <2>3, OnceParts DEF PassHasFinalizer, At, Ending, Taking
      <4> QED BY <4>1
    <3>3. (\A k \in 1..Len(opsLog[o]) : opsLog[o][k].deleted)
             => \A k \in 1..Len(opsLog'[o]) : opsLog'[o][k].deleted
      <4> SUFFICES ASSUME \A k \in 1..Len(opsLog[o]) : opsLog[o][k].deleted,
                          NEW k \in 1..Len(opsLog'[o])
                   PROVE  opsLog'[o][k].deleted
        OBVIOUS
      <4>1. /\ Len(opsLog[o]) \in Nat \ {0} /\ Op(o) = opsLog[o][Len(opsLog[o])]
        BY OpEnds
      <4>2. Op(o).deleted
        <5>1. Len(opsLog[o]) \in 1..Len(opsLog[o])
          BY <4>1
        <5> QED BY <4>1, <5>1
      <4>3. CASE k = Len(opsLog[o]) + 1
        BY <1>3, <4>2, <4>3
      <4>4. CASE k # Len(opsLog[o]) + 1
        <5>1. k \in 1..Len(opsLog[o])
          BY <1>3, <4>1, <4>4
        <5> QED BY <1>3, <5>1
      <4> QED BY <4>3, <4>4
    <3> QED BY <1>1, <1>2, <2>1, <2>3, <3>1, <3>2, <3>3 DEF PassLeft
  <2> QED BY <2>2, <2>3
<1>6. \A p \in Ops \ {o} : ~At("idle") /\ pass.op = p => pass'.op = p /\ pass'.pc # "idle"
  BY <1>1 DEF At
<1> QED BY <1>4, <1>5, <1>6, LeftWritten

\* A pass that gives up puts its operation back.
LEMMA LeftGivenUp ==
  ASSUME TypeInv, OnceInv, LeftInv, ~At("idle"), End(TRUE), UNCHANGED <<opsLog, locks>>
  PROVE  LeftInv'
<1>1. PICK o \in Ops : o = pass.op
  BY PassFields
<1>2. pass' = Idle /\ queue \subseteq queue' /\ o \in queue'
  BY <1>1 DEF End
<1>3. \A p : Has(p)' <=> Has(p)
  BY HasStays DEF locks, Pv
<1> QED BY <1>1, <1>2, <1>3, IdleLeft, PassStepLeft

LEMMA LeftAddFinalizer ==
  ASSUME TypeInv, OnceInv, LeftInv, AddFinalizer
  PROVE  LeftInv'
<1>0. /\ At("finalizer") /\ ~At("idle") /\ UNCHANGED locks /\ pass.obj \in OpsObj
  BY PassFields DEF AddFinalizer, At
<1>1. CASE End(TRUE) /\ UNCHANGED opsLog
  BY <1>0, <1>1, LeftGivenUp
<1>2. CASE pass.fresh /\ Land([pass.obj EXCEPT !.finalizer = TRUE]) /\ End(FALSE)
  <2> DEFINE v == [pass.obj EXCEPT !.finalizer = TRUE]
  <2>1. PICK o \in Ops : o = pass.op
    BY <1>0, PassFields
  <2>2. v \in OpsObj /\ v.finalizer /\ v.exists = pass.obj.exists /\ v.deleted = pass.obj.deleted
    BY <1>0 DEF OpsObj
  <2>3. Room(opsLog[o], MaxLag) /\ opsLog' = [opsLog EXCEPT ![o] = Written(@, v)]
    BY <1>2, <2>1 DEF Land
  <2> HIDE DEF v
  <2>4. pass.obj.exists
    BY <1>0, OnceParts DEF PassHasFinalizer
  <2>5. Op(o).deleted => pass.obj.deleted
    <3>1. PassLeft(pass, opsLog[o], Has(o))
      BY <1>0, <2>1, LeftParts DEF PassLeaves
    <3> QED BY <1>0, <1>2, <3>1 DEF PassLeft, At, Op
  <2>6. queue \subseteq queue' /\ PassLeaves'
    BY <1>2, IdleLeft DEF End
  <2> QED BY <1>0, <2>1, <2>2, <2>3, <2>4, <2>5, <2>6, LeftWritten
<1> QED BY <1>1, <1>2 DEF AddFinalizer

\* The finalizer goes last: the operation holds nothing, and everybody has seen it going.
LEMMA LeftDropFinalizer ==
  ASSUME TypeInv, OnceInv, LeftInv, DropFinalizer
  PROVE  LeftInv'
<1>0. /\ At("drop") /\ ~At("idle") /\ UNCHANGED locks /\ pass.obj \in OpsObj
  BY PassFields DEF DropFinalizer, At
<1>1. CASE End(TRUE) /\ UNCHANGED opsLog
  BY <1>0, <1>1, LeftGivenUp
<1>2. CASE pass.fresh /\ Land([pass.obj EXCEPT !.exists = FALSE]) /\ End(FALSE)
  <2> DEFINE v == [pass.obj EXCEPT !.exists = FALSE]
  <2>1. PICK o \in Ops : o = pass.op
    BY <1>0, PassFields
  <2>2. v \in OpsObj /\ v.finalizer = pass.obj.finalizer /\ v.deleted = pass.obj.deleted
    BY <1>0 DEF OpsObj
  <2>3. Room(opsLog[o], MaxLag) /\ opsLog' = [opsLog EXCEPT ![o] = Written(@, v)]
    BY <1>2, <2>1 DEF Land
  <2> HIDE DEF v
  <2>4. pass.obj.finalizer
    BY <1>0, OnceParts DEF PassHasFinalizer, At, Ending
  <2>5. pass.obj.deleted /\ ~Has(o) /\ \A k \in 1..Len(opsLog[o]) : opsLog[o][k].deleted
    <3>1. PassLeft(pass, opsLog[o], Has(o))
      BY <1>0, <2>1, LeftParts DEF PassLeaves
    <3> QED BY <1>0, <3>1 DEF PassLeft, At
  <2>6. Announced(opsLog[o])
    BY <2>5 DEF Announced
  <2>7. queue \subseteq queue' /\ PassLeaves'
    BY <1>2, IdleLeft DEF End
  <2> QED BY <1>0, <2>1, <2>2, <2>3, <2>4, <2>5, <2>6, <2>7, LeftWritten
<1> QED BY <1>1, <1>2 DEF DropFinalizer

LEMMA LeftClaim ==
  ASSUME TypeInv, OnceInv, LeftInv, Claim
  PROVE  LeftInv'
<1>0. /\ At("claim") /\ ~At("idle") /\ UNCHANGED locks
  BY DEF Claim, At
<1>1. PICK o \in Ops : o = pass.op
  BY <1>0, PassFields
<1>2. \A p : Has(p)' <=> Has(p)
  BY <1>0, HasStays DEF locks, Pv
<1>3. CASE UNCHANGED opsLog /\ Say("note")
  <2>1. Requeues
    BY <1>0, <1>3, PieceQueues
  <2>2. pass' = Idle \/ (Held /\ pass'.pc = "write")
    BY <1>0, <1>3, SayMoves
  <2>3. PassLeaves'
    BY <1>0, <1>3, <2>2, IdleLeft, OnLeft DEF Taking
  <2>4. queue \subseteq queue' /\ (o \in queue' \/ (pass'.op = o /\ pass'.pc # "idle"))
    BY <1>1, <2>1, <2>2, IdleSpot DEF Requeues, Held
  <2> QED BY <1>0, <1>1, <1>2, <1>3, <2>3, <2>4, PassStepLeft
<1>4. CASE /\ pass.fresh /\ Room(opsLog[pass.op], MaxLag) /\ Claimed \in OpsObj
           /\ opsLog' = [opsLog EXCEPT ![pass.op] = Written(@, Claimed)]
           /\ pass'.pc = "call" /\ UNCHANGED queue
  <2>1. Op(pass.op).exists /\ Op(pass.op) \in OpsObj
    BY <1>1, <1>4, OpEnds, OnceParts DEF FreshIsStored
  <2>2. /\ Claimed.exists = Op(pass.op).exists /\ Claimed.finalizer = Op(pass.op).finalizer
        /\ Claimed.deleted = Op(pass.op).deleted
    BY <2>1 DEF Claimed, OpsObj
  <2>3. PassLeaves'
    BY <1>4 DEF PassLeaves, PassLeft, Taking
  <2> QED BY <1>0, <1>1, <1>4, <2>1, <2>2, <2>3, LeftWritten
<1>5. ~(UNCHANGED opsLog /\ Say("note")) => UNCHANGED queue /\ pass.fresh /\ Land(Claimed)
        /\ pass' = [pass EXCEPT !.obj = Claimed, !.pc = "call"]
  BY DEF Claim, Claimed
<1>6. ~(UNCHANGED opsLog /\ Say("note")) => Claimed \in OpsObj /\ pass'.pc = "call"
  <2>1. Op(pass.op) \in OpsObj /\ pass \in PassObj
    BY <1>1, OpEnds, PassFields
  <2>2. (Op(pass.op).continued \/ pass.obj.step = "Migrating") \in BOOLEAN
    OBVIOUS
  <2>3. Claimed \in OpsObj
    BY <2>1, <2>2 DEF Claimed, OpsObj, Leases
  <2> QED BY <1>5, <2>1, <2>3 DEF PassObj
<1> QED BY <1>3, <1>4, <1>5, <1>6 DEF Land

LEMMA LeftWriteStatus ==
  ASSUME TypeInv, OnceInv, LeftInv, WriteStatus
  PROVE  LeftInv'
<1>0. /\ At("write") /\ ~At("idle") /\ UNCHANGED locks /\ pass \in PassObj
  BY PassFields DEF WriteStatus, At
<1>1. PICK o \in Ops : o = pass.op
  BY <1>0, PassFields
<1>2. CASE End(TRUE) /\ UNCHANGED opsLog
  BY <1>0, <1>2, LeftGivenUp
<1>3. CASE /\ pass.fresh \/ (WriteBase = Op(pass.op) /\ WriteBase.exists)
           /\ Room(opsLog[pass.op], MaxLag)
           /\ WithStatus(Op(pass.op), Mutated) \in OpsObj
           /\ opsLog' = [opsLog EXCEPT ![pass.op] = Written(@, WithStatus(Op(pass.op), Mutated))]
           /\ queue \subseteq queue'
           /\ pass' = Idle \/ pass'.pc = "write" \/ (pass'.pc = "release" /\ pass'.then = "end")
  <2> DEFINE v == WithStatus(Op(pass.op), Mutated)
  <2>1. Op(pass.op).exists
    BY <1>3, OnceParts DEF FreshIsStored
  <2>2. v.exists = Op(pass.op).exists /\ v.finalizer = Op(pass.op).finalizer
        /\ v.deleted = Op(pass.op).deleted
    <3>1. Op(pass.op) \in OpsObj
      BY <1>1, OpEnds
    <3> QED BY <3>1 DEF WithStatus, OpsObj
  <2> HIDE DEF v
  <2>3. CASE pass' = Idle
    BY <1>0, <1>1, <1>3, <2>1, <2>2, <2>3, IdleLeft, LeftWritten DEF v
  <2>4. CASE pass' # Idle
    <3>1. PassLeaves'
      BY <1>3, <2>4 DEF PassLeaves, PassLeft, Taking
    <3> QED BY <1>0, <1>1, <1>3, <2>1, <2>2, <3>1, LeftWritten DEF v
  <2> QED BY <2>3, <2>4
<1>4. CASE ~(End(TRUE) /\ UNCHANGED opsLog)
  <2>1. AfterWrite(Mutated) /\ Land(WithStatus(Op(pass.op), Mutated))
        /\ (pass.fresh \/ (Current(opsLog[pass.op]) /\ WriteBase.exists))
    BY <1>4 DEF WriteStatus, WriteBase, Mutated, Op
  <2>2. pass.then \in {"requeue", "arm", "finish"}
    BY <1>0, PassFields DEF WellFormed
  <2>3. queue \subseteq queue'
    BY <2>1, <2>2 DEF AfterWrite, End
  <2>4. /\ Room(opsLog[o], MaxLag) /\ Mutated \in OpsObj /\ Op(o) \in OpsObj
        /\ opsLog' = [opsLog EXCEPT ![o] = Written(@, WithStatus(Op(o), Mutated))]
    BY <1>1, <2>1, OpEnds, WriteStatusMoves DEF Land
  <2>5. WithStatus(Op(o), Mutated) \in OpsObj
    BY <2>4, ObjTypes
  <2>6. opsLog' # opsLog
    <3>1. Len(opsLog'[o]) = Len(opsLog[o]) + 1 /\ Len(opsLog[o]) \in Nat
      BY <2>4, <2>5, OpWritten, OpEnds
    <3>2. Len(opsLog'[o]) # Len(opsLog[o])
      BY <3>1
    <3> QED BY <3>2
  <2>7. /\ pass.fresh \/ (WriteBase = Op(pass.op) /\ WriteBase.exists)
        /\ Room(opsLog[pass.op], MaxLag)
        /\ WithStatus(Op(pass.op), Mutated) \in OpsObj
        /\ opsLog' = [opsLog EXCEPT ![pass.op] = Written(@, WithStatus(Op(pass.op), Mutated))]
        /\ pass' = Idle \/ pass'.pc = "write" \/ (pass'.pc = "release" /\ pass'.then = "end")
    BY <2>6, WriteStatusMoves
  <2> QED BY <1>3, <2>3, <2>7
<1> QED BY <1>2, <1>4

\* A pass that begins leaves nothing to whom it is about: it reads the newest version, or
\* that version is still to be delivered.
LEMMA LeftReconcile ==
  ASSUME TypeInv, OnceInv, LeftInv, NEW o \in Ops, Reconcile(o)
  PROVE  LeftInv'
<1>0. At("idle") /\ UNCHANGED <<opsLog, locks>> /\ queue' = queue \ {o}
  BY DEF Reconcile
<1>1. DeletedStays' /\ GoneAnnounced' /\ \A p \in Ops : Op(p)' = Op(p)
  BY <1>0, LogsLeft
<1>2. \A p : Has(p)' <=> Has(p)
  BY <1>0, HasStays DEF locks, Pv
<1>3. /\ Len(opsLog[o]) \in Nat \ {0} /\ Cached(opsLog[o]) = opsLog[o][1]
      /\ Current(opsLog[o]) => Cached(opsLog[o]) = Op(o)
      /\ 1 \in 1..Len(opsLog[o]) /\ \A k \in 1..Len(opsLog[o]) : 1 <= k
  BY OpEnds
<1>4. /\ pass' = Idle \/ (pass'.op = o /\ pass'.pc # "idle")
      /\ Cached(opsLog[o]).exists /\ Cached(opsLog[o]).finalizer => pass' # Idle
  <2>1. pass' = Idle \/ (pass'.op = o /\ pass'.pc # "idle")
    BY ReconcileMoves
  <2> DEFINE v == Cached(opsLog[o])
             start == [Idle EXCEPT !.op = o, !.obj = v, !.fresh = Current(opsLog[o])]
  <2>2. ASSUME v.exists, v.finalizer PROVE pass' # Idle
    <3>1. start.op = o
      BY DEF Idle
    <3>2. o # NoOp /\ Idle.op = NoOp
      BY VolumeOpsAssumption, IdleSpot
    <3>3. \E pc, then : \/ pass' = [start EXCEPT !.pc = pc, !.then = then]
                        \/ pass' = [start EXCEPT !.pc = pc]
      BY <2>2 DEF Reconcile
    <3>4. DOMAIN start = DOMAIN Idle /\ "op" \in DOMAIN Idle /\ "op" # "pc" /\ "op" # "then"
      BY DEF Idle
    <3> HIDE DEF start
    <3>5. pass'.op = o
      BY <3>1, <3>3, <3>4
    <3> QED BY <3>2, <3>5
  <2> QED BY <2>1, <2>2
<1>5. PassLeaves'
  <2>1. CASE pass' = Idle
    BY <2>1, IdleLeft
  <2>2. CASE pass' # Idle
    <3> DEFINE v == Cached(opsLog[o])
    <3>0. /\ pass'.op = o /\ pass'.obj = v /\ pass'.fresh = Current(opsLog[o]) /\ v.exists
          /\ \/ /\ pass'.pc \in {"finalizer", "resolve"} /\ ~v.deleted
                /\ pass'.pc = "resolve" => v.finalizer
             \/ /\ pass'.pc \in {"discard", "release"} /\ pass'.then = "drop"
                /\ v.deleted /\ v.finalizer
             \/ pass'.pc = "release" /\ pass'.then = "end"
      BY <2>2, ReconcileMoves
    <3>1. v.finalizer /\ ~v.deleted => Op(o).exists
      BY <1>3, <3>0, LeftParts DEF GoneAnnounced, Announced
    <3>2. v.deleted => \A k \in 1..Len(opsLog[o]) : opsLog[o][k].deleted
      BY <1>3, LeftParts DEF DeletedStays
    <3>3. Current(opsLog[o]) => v = Op(o)
      BY <1>3
    <3> HIDE DEF v
    <3>4. PassLeft(pass', opsLog'[o], Has(o)')
      BY <1>0, <3>0, <3>1, <3>2, <3>3 DEF PassLeft, Taking, Op
    <3> QED BY <3>0, <3>4 DEF PassLeaves
  <2> QED BY <2>1, <2>2
<1>6. HolderKept'
  BY <1>1, <1>2, LeftParts DEF HolderKept
<1>7. ReleaseOwed'
  <2> SUFFICES ASSUME NEW p \in Ops, Has(p)', Terminal(Op(p)'.phase)
               PROVE  (p \in queue \/ ~Current(opsLog[p]) \/ (~At("idle") /\ pass.op = p))'
    BY DEF ReleaseOwed
  <2>1. Has(p) /\ Terminal(Op(p).phase)
    BY <1>1, <1>2
  <2>2. CASE p = o
    <3>1. Op(o).exists /\ Op(o).finalizer
      BY <2>1, <2>2, LeftParts DEF HolderKept
    <3>2. Current(opsLog[o]) => pass'.op = o /\ pass'.pc # "idle"
      BY <1>3, <1>4, <3>1
    <3> QED BY <1>0, <2>2, <3>2 DEF At
  <2>3. CASE p # o
    <3>1. p \in queue \/ ~Current(opsLog[p])
      BY <1>0, <2>1, LeftParts DEF ReleaseOwed
    <3> QED BY <1>0, <2>3, <3>1
  <2> QED BY <2>2, <2>3
<1> QED BY <1>1, <1>5, <1>6, <1>7, LeftPartsNext

\* A version that arrives queues its operation, and hides none that is newer.
LEMMA LeftDeliverOp ==
  ASSUME TypeInv, LeftInv, NEW o \in Ops, DeliverOp(o)
  PROVE  LeftInv'
<1>0. UNCHANGED <<locks, pass>> /\ queue' = queue \cup {o}
  BY DEF DeliverOp
<1>1. /\ \A p \in Ops : Op(p)' = Op(p)
      /\ \A p \in Ops \ {o} : opsLog'[p] = opsLog[p]
      /\ \A k \in 1..Len(opsLog'[o]) :
           k + 1 \in 1..Len(opsLog[o]) /\ opsLog'[o][k] = opsLog[o][k + 1]
  BY OpDelivered
<1>2. \A p : Has(p)' <=> Has(p)
  BY <1>0, HasStays DEF locks, Pv
<1>3. DeletedStays'
  <2>1. ASSUME NEW i \in 1..Len(opsLog'[o]), NEW j \in 1..Len(opsLog'[o]), i <= j,
               opsLog'[o][i].deleted
        PROVE  opsLog'[o][j].deleted
    <3>1. i + 1 <= j + 1
      BY <2>1
    <3> QED BY <1>1, <2>1, <3>1, LeftParts DEF DeletedStays
  <2>2. ASSUME NEW p \in Ops \ {o}, NEW i \in 1..Len(opsLog'[p]), NEW j \in 1..Len(opsLog'[p]),
               i <= j, opsLog'[p][i].deleted
        PROVE  opsLog'[p][j].deleted
    BY <1>1, <2>2, LeftParts DEF DeletedStays
  <2> QED BY <2>1, <2>2 DEF DeletedStays
<1>4. GoneAnnounced'
  <2> SUFFICES ASSUME NEW p \in Ops, ~Op(p).exists PROVE Announced(opsLog'[p])
    BY <1>1 DEF GoneAnnounced
  <2>1. Announced(opsLog[p])
    BY LeftParts DEF GoneAnnounced
  <2>2. CASE p = o
    BY <1>1, <2>1, <2>2 DEF Announced
  <2>3. CASE p # o
    BY <1>1, <2>1, <2>3
  <2> QED BY <2>2, <2>3
<1>5. PassLeaves'
  <2> SUFFICES ASSUME NEW p \in Ops, ~At("idle"), pass.op = p
               PROVE  PassLeft(pass', opsLog'[p], Has(p)')
    BY <1>0 DEF PassLeaves, At
  <2>1. PassLeft(pass, opsLog[p], Has(p))
    BY LeftParts DEF PassLeaves
  <2>2. Stored(opsLog'[p]) = Stored(opsLog[p])
    BY <1>1 DEF Op
  <2>3. (\A k \in 1..Len(opsLog[p]) : opsLog[p][k].deleted)
           => \A k \in 1..Len(opsLog'[p]) : opsLog'[p][k].deleted
    BY <1>1
  <2> QED BY <1>0, <1>2, <2>1, <2>2, <2>3 DEF PassLeft
<1>6. HolderKept'
  BY <1>1, <1>2, LeftParts DEF HolderKept
<1>7. ReleaseOwed'
  <2> SUFFICES ASSUME NEW p \in Ops \ {o}, Has(p)', Terminal(Op(p)'.phase)
               PROVE  (p \in queue \/ ~Current(opsLog[p]) \/ (~At("idle") /\ pass.op = p))'
    BY <1>0 DEF ReleaseOwed
  <2>1. p \in queue \/ ~Current(opsLog[p]) \/ (~At("idle") /\ pass.op = p)
    BY <1>1, <1>2, LeftParts DEF ReleaseOwed
  <2> QED BY <1>0, <1>1, <2>1 DEF At
<1> QED BY <1>3, <1>4, <1>5, <1>6, <1>7, LeftPartsNext

\* A clock changes no existence, no finalizer, no deletion and no phase.
LEMMA LeftClock ==
  ASSUME TypeInv, LeftInv, NEW o \in Ops, NEW g \in [OpsObj -> OpsObj], ClockKeeps(g),
         opsLog' = [opsLog EXCEPT ![o] = [i \in 1..Len(opsLog[o]) |-> g[opsLog[o][i]]]],
         pass' = IF pass.op = o THEN [pass EXCEPT !.obj = g[pass.obj]] ELSE pass,
         UNCHANGED <<locks, queue>>
  PROVE  LeftInv'
<1>1. /\ Op(o)' = g[Op(o)]
      /\ \A p \in Ops \ {o} : opsLog'[p] = opsLog[p] /\ Op(p)' = Op(p)
      /\ Len(opsLog'[o]) = Len(opsLog[o])
      /\ \A k \in 1..Len(opsLog[o]) : opsLog'[o][k] = g[opsLog[o][k]]
  BY OpAged
<1>2. /\ pass'.op = pass.op /\ pass'.pc = pass.pc
      /\ pass'.then = pass.then /\ pass'.fresh = pass.fresh
      /\ pass'.obj = IF pass.op = o THEN g[pass.obj] ELSE pass.obj
  BY ClockMoves
<1>3. /\ Op(o) \in OpsObj /\ \A k \in 1..Len(opsLog[o]) : opsLog[o][k] \in OpsObj
      /\ pass.obj \in OpsObj
  BY OpEnds, PassFields
<1>4. /\ Op(o)'.exists = Op(o).exists /\ Op(o)'.finalizer = Op(o).finalizer
      /\ Op(o)'.deleted = Op(o).deleted /\ Op(o)'.phase = Op(o).phase
      /\ pass'.obj.deleted = pass.obj.deleted
  BY <1>1, <1>2, <1>3 DEF ClockKeeps
<1>5. \A k \in 1..Len(opsLog[o]) :
        /\ opsLog'[o][k].exists = opsLog[o][k].exists
        /\ opsLog'[o][k].finalizer = opsLog[o][k].finalizer
        /\ opsLog'[o][k].deleted = opsLog[o][k].deleted
  BY <1>1, <1>3 DEF ClockKeeps
<1>6. \A p : Has(p)' <=> Has(p)
  BY HasStays DEF locks, Pv
<1>7. DeletedStays'
  <2>1. ASSUME NEW i \in 1..Len(opsLog[o]), NEW j \in 1..Len(opsLog[o]), i <= j,
               opsLog'[o][i].deleted
        PROVE  opsLog'[o][j].deleted
    BY <1>5, <2>1, LeftParts DEF DeletedStays
  <2>2. ASSUME NEW p \in Ops \ {o}, NEW i \in 1..Len(opsLog'[p]), NEW j \in 1..Len(opsLog'[p]),
               i <= j, opsLog'[p][i].deleted
        PROVE  opsLog'[p][j].deleted
    BY <1>1, <2>2, LeftParts DEF DeletedStays
  <2>3. ASSUME NEW i \in 1..Len(opsLog'[o]), NEW j \in 1..Len(opsLog'[o]), i <= j,
               opsLog'[o][i].deleted
        PROVE  opsLog'[o][j].deleted
    <3>1. i \in 1..Len(opsLog[o]) /\ j \in 1..Len(opsLog[o])
      BY <1>1
    <3> QED BY <2>1, <2>3, <3>1
  <2> QED BY <2>2, <2>3 DEF DeletedStays
<1>8. GoneAnnounced'
  <2>1. ~Op(o)'.exists => Announced(opsLog'[o])
    <3>1. ~Op(o)'.exists => Announced(opsLog[o])
      BY <1>4, LeftParts DEF GoneAnnounced
    <3>2. Announced(opsLog[o]) => Announced(opsLog'[o])
      BY <1>1, <1>5 DEF Announced
    <3> QED BY <3>1, <3>2
  <2>2. \A p \in Ops \ {o} : ~Op(p)'.exists => Announced(opsLog'[p])
    BY <1>1, LeftParts DEF GoneAnnounced
  <2> QED BY <2>1, <2>2 DEF GoneAnnounced
<1>9. PassLeaves'
  <2> SUFFICES ASSUME NEW p \in Ops, ~At("idle"), pass.op = p
               PROVE  PassLeft(pass', opsLog'[p], Has(p)')
    BY <1>2 DEF PassLeaves, At
  <2>1. PassLeft(pass, opsLog[p], Has(p))
    BY LeftParts DEF PassLeaves
  <2>2. CASE p = o
    <3>1. /\ Stored(opsLog'[p]).exists = Stored(opsLog[p]).exists
          /\ Stored(opsLog'[p]).deleted = Stored(opsLog[p]).deleted
      BY <1>4, <2>2 DEF Op
    <3>2. (\A k \in 1..Len(opsLog[p]) : opsLog[p][k].deleted)
             => \A k \in 1..Len(opsLog'[p]) : opsLog'[p][k].deleted
      BY <1>1, <1>5, <2>2
    <3> QED BY <1>2, <1>4, <1>6, <2>1, <3>1, <3>2 DEF PassLeft
  <2>3. CASE p # o
    BY <1>1, <1>2, <1>4, <1>6, <2>1, <2>3 DEF PassLeft
  <2> QED BY <2>2, <2>3
<1>10. HolderKept'
  BY <1>1, <1>4, <1>6, LeftParts DEF HolderKept
<1>11. ReleaseOwed'
  <2> SUFFICES ASSUME NEW p \in Ops, Has(p)', Terminal(Op(p)'.phase)
               PROVE  (p \in queue \/ ~Current(opsLog[p]) \/ (~At("idle") /\ pass.op = p))'
    BY DEF ReleaseOwed
  <2>1. Has(p) /\ Terminal(Op(p).phase)
    BY <1>1, <1>4, <1>6
  <2>2. p \in queue \/ ~Current(opsLog[p]) \/ (~At("idle") /\ pass.op = p)
    BY <2>1, LeftParts DEF ReleaseOwed
  <2>3. Current(opsLog'[p]) <=> Current(opsLog[p])
    BY <1>1 DEF Current
  <2> QED BY <1>2, <2>2, <2>3 DEF At
<1> QED BY <1>7, <1>8, <1>9, <1>10, <1>11, LeftPartsNext

\* Steps of others that give no operation anything.
LEMMA LeftElsewhere ==
  ASSUME TypeInv, LeftInv, UNCHANGED <<opsLog, pass>>, queue \subseteq queue',
         \A p \in Ops : Has(p)' => Has(p)
  PROVE  LeftInv'
<1>1. DeletedStays' /\ GoneAnnounced' /\ \A p \in Ops : Op(p)' = Op(p)
  BY LogsLeft
<1>2. PassLeaves'
  <2> SUFFICES ASSUME NEW p \in Ops, ~At("idle"), pass.op = p
               PROVE  PassLeft(pass', opsLog'[p], Has(p)')
    BY DEF PassLeaves, At
  <2>1. PassLeft(pass, opsLog[p], Has(p))
    BY LeftParts DEF PassLeaves
  <2> QED BY <2>1 DEF PassLeft
<1>3. HolderKept'
  BY <1>1, LeftParts DEF HolderKept
<1>4. ReleaseOwed'
  <2> SUFFICES ASSUME NEW p \in Ops, Has(p)', Terminal(Op(p)'.phase)
               PROVE  (p \in queue \/ ~Current(opsLog[p]) \/ (~At("idle") /\ pass.op = p))'
    BY DEF ReleaseOwed
  <2>1. p \in queue \/ ~Current(opsLog[p]) \/ (~At("idle") /\ pass.op = p)
    BY <1>1, LeftParts DEF ReleaseOwed
  <2> QED BY <2>1 DEF At
<1> QED BY <1>1, <1>2, <1>3, <1>4, LeftPartsNext

\* A volume joins without a lock, and goes with the one it had.
LEMMA LeftVolumeWrite ==
  ASSUME TypeInv, LeftInv, NEW v \in Vols, VolumeWrite(v)
  PROVE  LeftInv'
<1>0. UNCHANGED <<opsLog, slot, pass, queue>>
  BY DEF VolumeWrite
<1>1. Pv(v) \in PvObj /\ NoVolume \in PvObj
  BY PvEnds, ObjTypes
<1> DEFINE w == CASE Pv(v).there = "no" -> [NoVolume EXCEPT !.there = "yes"]
                  [] Pv(v).there = "yes" -> [Pv(v) EXCEPT !.there = "deleting"]
                  [] Pv(v).there = "deleting" -> NoVolume
<1>2. Pv(v).there \in {"no", "yes", "deleting"}
  BY <1>1 DEF PvObj
<1>3. [NoVolume EXCEPT !.there = "yes"] \in PvObj /\ [Pv(v) EXCEPT !.there = "deleting"] \in PvObj
  BY <1>1 DEF PvObj
<1>4. w \in PvObj
  BY <1>1, <1>2, <1>3
<1>5. w.lock = NoOp \/ (Pv(v).there # "no" /\ w.lock = Pv(v).lock)
  <2>1. CASE Pv(v).there = "no"
    BY <2>1 DEF NoVolume
  <2>2. CASE Pv(v).there = "yes"
    BY <1>1, <2>2 DEF PvObj
  <2>3. CASE Pv(v).there = "deleting"
    BY <2>3 DEF NoVolume
  <2> QED BY <1>2, <2>1, <2>2, <2>3
<1>6. pvLog' = [pvLog EXCEPT ![v] = Written(@, w)] /\ Room(pvLog[v], MaxLag)
  BY DEF VolumeWrite
<1> HIDE DEF w
<1>7. Pv(v)' = w /\ \A x \in Vols \ {v} : Pv(x)' = Pv(x)
  BY <1>4, <1>6, PvWritten
<1>8. \A p \in Ops : Carries(p)' \subseteq Carries(p)
  BY <1>5, <1>7, VolumeOpsAssumption DEF Carries
<1>9. \A p \in Ops : Has(p)' => Has(p)
  BY <1>0, <1>8 DEF Has
<1> QED BY <1>0, <1>9, LeftElsewhere

\* A restarted operator looks at every operation its cache shows.
LEMMA LeftCrash ==
  ASSUME TypeInv, LeftInv, Crash
  PROVE  LeftInv'
<1>0. /\ UNCHANGED <<opsLog, locks>> /\ pass' = Idle
      /\ queue' = {o \in Ops : Cached(opsLog[o]).exists}
  BY DEF Crash
<1>1. DeletedStays' /\ GoneAnnounced' /\ \A p \in Ops : Op(p)' = Op(p)
  BY <1>0, LogsLeft
<1>2. \A p : Has(p)' <=> Has(p)
  BY <1>0, HasStays DEF locks, Pv
<1>3. HolderKept'
  BY <1>1, <1>2, LeftParts DEF HolderKept
<1>4. ReleaseOwed'
  <2> SUFFICES ASSUME NEW p \in Ops, Has(p), Current(opsLog[p])
               PROVE  p \in queue'
    BY <1>0, <1>2 DEF ReleaseOwed
  <2>1. Cached(opsLog[p]) = Op(p) /\ Op(p).exists
    BY OpEnds, LeftParts DEF HolderKept
  <2> QED BY <1>0, <2>1
<1> QED BY <1>0, <1>1, <1>3, <1>4, IdleLeft, LeftPartsNext

LEMMA LeftInit ==
  ASSUME Init, TypeInv
  PROVE  LeftInv
<1>1. pass = Idle /\ slot = NoOp
  BY Zenon DEF Init
<1>2. PICK p \in Ops : opsLog = [o \in Ops |->
              <<[NewOp EXCEPT !.exists = o = p \/ "alone" \notin env]>>]
  BY Zenon DEF Init
<1>3. \A o \in Ops : Len(opsLog[o]) = 1 /\ ~opsLog[o][1].finalizer
  <2> TAKE o \in Ops
  <2> DEFINE b == (o = p \/ "alone" \notin env)
  <2>1. opsLog[o] = <<[NewOp EXCEPT !.exists = b]>>
    BY <1>2
  <2> HIDE DEF b
  <2> DEFINE x == [NewOp EXCEPT !.exists = b]
  <2>2. ~x.finalizer
    BY DEF NewOp
  <2> HIDE DEF x
  <2>3. opsLog[o] = <<x>>
    BY <2>1 DEF x
  <2> QED BY <2>2, <2>3
<1>4. \A o \in Ops : \A k \in 1..Len(opsLog[o]) : k = 1 /\ ~opsLog[o][k].finalizer
  <2>1. ASSUME NEW o \in Ops, NEW k \in 1..Len(opsLog[o]) PROVE k = 1
    <3>1. Len(opsLog[o]) = 1
      BY <1>3
    <3> QED BY <3>1, SMT
  <2> QED BY <1>3, <2>1
<1>5. DeletedStays /\ GoneAnnounced
  <2>1. DeletedStays
    BY <1>4 DEF DeletedStays
  <2>2. GoneAnnounced
    BY <1>4 DEF GoneAnnounced, Announced
  <2> QED BY <2>1, <2>2
<1>6. \A o \in Ops : ~Has(o)
  <2>1. \A v \in Vols : Pv(v).lock = NoOp
    <3>1. pvLog = [v \in Vols |-> <<[lock |-> NoOp,
                                    there |-> IF v \in Later THEN "no" ELSE "yes"]>>]
      BY DEF Init
    <3>2. ASSUME NEW v \in Vols PROVE Pv(v).lock = NoOp
      <4> DEFINE x == [lock |-> NoOp, there |-> IF v \in Later THEN "no" ELSE "yes"]
      <4>1. pvLog[v] = <<x>> /\ x.lock = NoOp
        BY <3>1
      <4> HIDE DEF x
      <4>2. Len(pvLog[v]) = 1 /\ pvLog[v][1] = x
        BY <4>1
      <4> QED BY <4>1, <4>2 DEF Pv, Stored
    <3> QED BY <3>2
  <2> QED BY <1>1, <2>1, VolumeOpsAssumption DEF Has, Carries
<1>7. HolderKept /\ ReleaseOwed
  BY <1>6 DEF HolderKept, ReleaseOwed
<1>8. PassLeaves
  <2>1. pass.pc = "idle"
    BY <1>1, IdleSpot
  <2> QED BY <2>1, Zenon DEF PassLeaves, At
<1> QED BY <1>5, <1>7, <1>8, LeftParts

LEMMA LeftStep ==
  ASSUME TypeInv, OnceInv, LeftInv, [Next]_vars
  PROVE  LeftInv'
<1>0. ASSUME UNCHANGED <<opsLog, locks, queue, pass>> PROVE LeftInv'
  <2>1. \A p : Has(p)' <=> Has(p)
    BY <1>0, HasStays DEF locks, Pv
  <2> QED BY <1>0, <2>1, LeftElsewhere
<1>1. CASE UNCHANGED vars
  BY <1>0, <1>1 DEF vars, moving, locks
<1>2. CASE Resolve \/ ReadMembers \/ ReadMembersFails \/ Locked \/ Advance \/ CreateMigration
           \/ ContinueMigration \/ DiscardMigration \/ DiscardFails
  BY <1>2, LeftPlain
<1>3. CASE AddFinalizer \/ DropFinalizer \/ Claim \/ WriteStatus
  BY <1>3, LeftAddFinalizer, LeftDropFinalizer, LeftClaim, LeftWriteStatus
<1>4. CASE AcquireSlot \/ LockVolume \/ ReleaseSlot
  BY <1>4, LeftAcquireSlot, LeftLockVolume, LeftReleaseSlot
<1>5. ASSUME NEW v \in Vols, ReleaseVolume(v) PROVE LeftInv'
  BY <1>5, LeftReleaseVolume
<1>6. ASSUME NEW o \in Ops, Reconcile(o) PROVE LeftInv'
  BY <1>6, LeftReconcile
<1>7. ASSUME NEW o \in Ops, DeliverOp(o) PROVE LeftInv'
  BY <1>7, LeftDeliverOp
<1>8. ASSUME NEW o \in Ops, LeaseExpires(o) PROVE LeftInv'
  BY <1>8, LeaseIsClock, ClocksKeep, LeftClock DEF LeaseExpires
<1>9. ASSUME NEW o \in Ops, NEW s \in WorkSteps, DeadlinePasses(o, s) PROVE LeftInv'
  BY <1>9, DeadlineIsClock, ClocksKeep, LeftClock DEF DeadlinePasses
<1>10. ASSUME NEW o \in Ops, SetAbort(o) PROVE LeftInv'
  <2> DEFINE v == [Op(o) EXCEPT !.abort = TRUE]
  <2>1. /\ v \in OpsObj /\ Op(o) \in OpsObj /\ Room(opsLog[o], MaxLag) /\ Op(o).exists
        /\ opsLog' = [opsLog EXCEPT ![o] = Written(@, v)] /\ Disturb(o)
        /\ UNCHANGED <<locks, queue>>
    BY <1>10, SetAbortMoves, OpEnds DEF SetAbort
  <2>2. v.finalizer = Op(o).finalizer /\ v.exists = Op(o).exists /\ v.deleted = Op(o).deleted
    BY <2>1 DEF OpsObj
  <2> HIDE DEF v
  <2> QED BY <2>1, <2>2, LeftUser
<1>11. ASSUME NEW o \in Ops, Delete(o) PROVE LeftInv'
  <2> DEFINE v == Removed(Op(o))
  <2>1. /\ v \in OpsObj /\ Op(o) \in OpsObj /\ Room(opsLog[o], MaxLag)
        /\ opsLog' = [opsLog EXCEPT ![o] = Written(@, v)] /\ Disturb(o)
        /\ UNCHANGED <<locks, queue>> /\ Op(o).exists
    BY <1>11, DeleteMoves, OpEnds DEF Delete, Removed
  <2>2. /\ v.finalizer = Op(o).finalizer /\ (v.exists \/ ~v.finalizer)
        /\ Op(o).deleted => v.deleted
    BY <2>1 DEF OpsObj, Removed
  <2> HIDE DEF v
  <2> QED BY <2>1, <2>2, LeftUser
<1>12. ASSUME NEW o \in Ops, CpCopy(o) PROVE LeftInv'
  BY <1>0, <1>12 DEF CpCopy
<1>13. ASSUME NEW v \in Vols, DeliverPv(v) PROVE LeftInv'
  <2>1. UNCHANGED <<opsLog, slot, pass>> /\ queue \subseteq queue' /\ \A x \in Vols : Pv(x)' = Pv(x)
    BY <1>13, PvDelivered DEF DeliverPv
  <2>2. \A p : Has(p)' <=> Has(p)
    BY <2>1, HasStays
  <2> QED BY <2>1, <2>2, LeftElsewhere
<1>14. ASSUME NEW v \in Vols, VolumeWrite(v) PROVE LeftInv'
  BY <1>14, LeftVolumeWrite
<1>15. CASE Crash
  BY <1>15, LeftCrash
<1>16. CASE Worker
  BY <1>16, <1>2, <1>3, <1>4, <1>5, <1>6 DEF Worker, PassStep
<1>17. CASE Environment
  BY <1>17, <1>7, <1>8, <1>9, <1>10, <1>11, <1>12, <1>13, <1>14, <1>15 DEF Environment
<1> QED BY <1>1, <1>16, <1>17 DEF Next

LEMMA LeftAlways == Spec => []LeftInv
<1>1. Init /\ TypeInv => LeftInv
  BY LeftInit
<1>2. TypeInv /\ OnceInv /\ LeftInv /\ [Next]_vars => LeftInv'
  BY LeftStep
<1> QED BY <1>1, <1>2, TypeAlways, OnceAlways, PTL DEF Spec

\* Whatever the caches lag, whoever deletes, aborts or crashes: when every event has been
\* delivered and nothing is queued, who still holds a volume or the slot is an operation
\* that exists and has not ended (releaseLock before the end of finish and of teardown, and
\* the second release of a pass that finds its operation ended).
THEOREM NothingLeft == Spec => []NothingLeftBehind
<1>1. LeftInv => NothingLeftBehind
  <2> SUFFICES ASSUME LeftInv, Quiet, NEW o \in Ops, Has(o)
               PROVE  Op(o).exists /\ ~Terminal(Op(o).phase)
    BY DEF NothingLeftBehind, Has
  <2>1. Op(o).exists
    BY LeftParts DEF HolderKept
  <2>2. At("idle") /\ queue = {} /\ Current(opsLog[o])
    BY DEF Quiet
  <2>3. ~Terminal(Op(o).phase)
    BY <2>2, LeftParts DEF ReleaseOwed
  <2> QED BY <2>1, <2>3
<1> QED BY <1>1, LeftAlways, PTL
===============================================================================
