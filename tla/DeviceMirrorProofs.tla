--------------------------- MODULE DeviceMirrorProofs ---------------------------
(***************************************************************************)
(* Proofs about DeviceMirror, for every set of devices, every environment, *)
(* every lag and any number of restarts and reconnects.                    *)
(***************************************************************************)
EXTENDS DeviceMirror, InformerProofs

-------------------------------------------------------------------------------
(* The operators the model is built from.                                  *)

\* The bounds are numbers.
LEMMA Bounds == MaxLag \in Nat \ {0} /\ MaxRecords \in Nat \ {0}
  BY DeviceMirrorAssumption

\* A log of one version is short enough.
LEMMA One == 1 \in 1..(MaxLag + 1)
  BY Bounds

\* What a frame is made of.
LEMMA FrameParts ==
  ASSUME NEW f \in Frame
  PROVE  /\ f.snap \in BOOLEAN /\ DOMAIN f.says \subseteq Devices
         /\ \A d \in DOMAIN f.says : f.says[d] \in Reports
  BY DEF Frame

\* The snapshot a connection begins with, and the frame of one change, are frames.
LEMMA FrameMakes ==
  ASSUME cp \in [Devices -> Reports]
  PROVE  /\ [snap |-> TRUE, says |-> cp] \in Frame
         /\ \A d \in Devices, report \in Reports :
              [snap |-> FALSE, says |-> [x \in {d} |-> report]] \in Frame
<1>1. [snap |-> TRUE, says |-> cp] \in [snap : BOOLEAN, says : [Devices -> Reports]]
  OBVIOUS
<1>2. Devices \in SUBSET Devices
  OBVIOUS
<1>3. [snap |-> TRUE, says |-> cp] \in Frame
  BY <1>1, <1>2 DEF Frame
<1>4. ASSUME NEW d \in Devices, NEW report \in Reports
      PROVE  [snap |-> FALSE, says |-> [x \in {d} |-> report]] \in Frame
  <2>1. [snap |-> FALSE, says |-> [x \in {d} |-> report]]
          \in [snap : BOOLEAN, says : [{d} -> Reports]]
    OBVIOUS
  <2>2. {d} \in SUBSET Devices
    OBVIOUS
  <2> QED BY <2>1, <2>2 DEF Frame
<1> QED BY <1>3, <1>4

\* A phase is made of every report there is, on every node.
LEMMA PhaseType ==
  ASSUME NEW report \in Reports, report # "absent", NEW n \in NodeObj
  PROVE  devicePhase(report, n) \in DevicePhases \ {""}
  BY DEF devicePhase, Reports, DevicePhases

\* The objects a controller makes.
LEMMA ObjTypes ==
  /\ NoDev \in DevObj /\ Idle \in PassObj /\ NewStream \in StreamObj /\ NoStream \in StreamObj
  /\ \A v \in DevObj, phase \in DevicePhases : Rebuilt(v, phase) \in DevObj
<1> USE DeviceMirrorAssumption
<1>1. NoDev \in DevObj
  BY DEF NoDev, DevObj, DevicePhases
<1>2. Idle \in PassObj
  BY DEF Idle, PassObj, DevicePhases, Reports
<1>3. NewStream \in StreamObj /\ NoStream \in StreamObj
  <2>1. <<>> \in Seq(Frame) /\ {} \in SUBSET [dev : Devices, present : BOOLEAN]
    OBVIOUS
  <2>2. NewStream \in StreamObj
    BY <2>1 DEF NewStream, StreamObj
  <2> QED BY <2>2 DEF NoStream, StreamObj
<1>4. \A v \in DevObj, phase \in DevicePhases : Rebuilt(v, phase) \in DevObj
  BY DEF Rebuilt, DevObj
<1> QED BY <1>1, <1>2, <1>3, <1>4

\* What a stream goroutine and the control plane do to a stream.
LEMMA StreamEdits ==
  ASSUME NEW s \in StreamObj
  PROVE  /\ s.frames \in Seq(Frame) /\ s.todo \in SUBSET [dev : Devices, present : BOOLEAN]
         /\ \A f \in Frame : [s EXCEPT !.frames = Append(s.frames, f)] \in StreamObj
         /\ [s EXCEPT !.state = "connecting", !.frames = <<>>] \in StreamObj
         /\ [s EXCEPT !.cancelled = TRUE] \in StreamObj
         /\ s.frames # <<>> => /\ Head(s.frames) \in Frame /\ Tail(s.frames) \in Seq(Frame)
<1>1. /\ s.frames \in Seq(Frame) /\ s.todo \in SUBSET [dev : Devices, present : BOOLEAN]
      /\ s.state \in {"free", "connecting", "reading"} /\ s.cancelled \in BOOLEAN
  BY DEF StreamObj
<1>2. ASSUME NEW f \in Frame
      PROVE  [s EXCEPT !.frames = Append(s.frames, f)] \in StreamObj
  <2>1. Append(s.frames, f) \in Seq(Frame)
    BY <1>1
  <2> QED BY <2>1 DEF StreamObj
<1>3. [s EXCEPT !.state = "connecting", !.frames = <<>>] \in StreamObj
  <2>1. <<>> \in Seq(Frame)
    OBVIOUS
  <2> QED BY <2>1 DEF StreamObj
<1>4. [s EXCEPT !.cancelled = TRUE] \in StreamObj
  BY DEF StreamObj
<1>5. s.frames # <<>> => /\ Head(s.frames) \in Frame /\ Tail(s.frames) \in Seq(Frame)
  BY <1>1
<1> QED BY <1>1, <1>2, <1>3, <1>4, <1>5

\* The reports a frame leads to, for any set of devices.
LEMMA TodoType ==
  ASSUME NEW S \in SUBSET Devices, NEW next
  PROVE  {[dev |-> d, present |-> next[d] # "absent"] : d \in S}
           \in SUBSET [dev : Devices, present : BOOLEAN]
<1>1. ASSUME NEW d \in S
      PROVE  [dev |-> d, present |-> next[d] # "absent"] \in [dev : Devices, present : BOOLEAN]
  <2>1. (next[d] # "absent") \in BOOLEAN
    OBVIOUS
  <2> QED BY <2>1
<1> QED BY <1>1, Zenon

-------------------------------------------------------------------------------
(* Type correctness.                                                       *)

LogsOK ==
  /\ devLog \in [Devices -> Seq(DevObj)]
  /\ \A d \in Devices : Len(devLog[d]) \in 1..(MaxLag + 1)

NodeLogOK == nodeLog \in Seq(NodeObj) /\ Len(nodeLog) \in 1..(MaxLag + 1)

PassOK ==
  /\ pass \in PassObj
  /\ ~At("idle") => pass.dev \in Devices
  /\ pass.pc \in {"write", "status"} => pass.found # "absent"

ScopesOK ==
  /\ nodeStep \in {"", "add", "forget"}
  /\ {registered, wanted, notify} \subseteq BOOLEAN
  /\ manager \in [pc : {"wait", "list", "match"}, want : BOOLEAN]
  /\ current \in 0..2

StreamsOK == streams \in [1..2 -> StreamObj]
CacheOK == store \in [Devices -> Reports] /\ synced \in BOOLEAN /\ index \subseteq Devices
CpOK == env \in Envs /\ cp \in [Devices -> Reports] /\ cpNode \in NodeStatuses
HistoryOK ==
  /\ {held, gone, dropped} \subseteq SUBSET Devices
  /\ spent \in [changes : Nat, drops : Nat, crashes : Nat]

\* TypeOK is these parts.
LEMMA TypeParts ==
  TypeOK <=> /\ LogsOK /\ NodeLogOK /\ PassOK /\ ScopesOK /\ StreamsOK /\ CacheOK /\ CpOK
             /\ HistoryOK /\ queue \subseteq Devices
  BY DEF TypeOK, LogsOK, NodeLogOK, PassOK, ScopesOK, StreamsOK, CacheOK, CpOK, HistoryOK

\* And so it is after a step.
LEMMA TypePartsNext ==
  ASSUME LogsOK', NodeLogOK', PassOK', ScopesOK', StreamsOK', CacheOK', CpOK', HistoryOK',
         queue' \subseteq Devices
  PROVE  TypeOK'
  BY DEF TypeOK, LogsOK, NodeLogOK, PassOK, ScopesOK, StreamsOK, CacheOK, CpOK, HistoryOK,
     At

\* What does not move keeps its type.
LEMMA TypeKept ==
  ASSUME TypeOK
  PROVE  /\ UNCHANGED devLog => LogsOK'
         /\ UNCHANGED nodeLog => NodeLogOK'
         /\ UNCHANGED pass => PassOK'
         /\ UNCHANGED <<nodeStep, scopes, manager, current>> => ScopesOK'
         /\ UNCHANGED streams => StreamsOK'
         /\ UNCHANGED cache => CacheOK'
         /\ UNCHANGED <<env, cp, cpNode>> => CpOK'
         /\ UNCHANGED <<history, spent>> => HistoryOK'
         /\ UNCHANGED queue => queue' \subseteq Devices
<1>1. UNCHANGED devLog => LogsOK'
  BY DEF TypeOK, LogsOK
<1>2. UNCHANGED nodeLog => NodeLogOK'
  BY DEF TypeOK, NodeLogOK
<1>3. UNCHANGED pass => PassOK'
  BY DEF TypeOK, PassOK, At
<1>4. UNCHANGED <<nodeStep, scopes, manager, current>> => ScopesOK'
  BY DEF TypeOK, ScopesOK, scopes
<1>5. UNCHANGED streams => StreamsOK'
  BY DEF TypeOK, StreamsOK
<1>6. UNCHANGED cache => CacheOK'
  BY DEF TypeOK, CacheOK, cache
<1>7. UNCHANGED <<env, cp, cpNode>> => CpOK'
  BY DEF TypeOK, CpOK
<1>8. UNCHANGED <<history, spent>> => HistoryOK'
  BY DEF TypeOK, HistoryOK, history
<1>9. UNCHANGED queue => queue' \subseteq Devices
  BY DEF TypeOK
<1> QED BY <1>1, <1>2, <1>3, <1>4, <1>5, <1>6, <1>7, <1>8, <1>9

\* A bound that is used a little more.
LEMMA SpendType ==
  ASSUME HistoryOK, NEW what \in {"changes", "drops", "crashes"}, NEW bound, Spend(what, bound)
  PROVE  spent' \in [changes : Nat, drops : Nat, crashes : Nat]
  BY DEF HistoryOK, Spend

\* The versions of a device's object at both ends of its log.
LEMMA DevEnds ==
  ASSUME TypeOK, NEW d \in Devices
  PROVE  /\ devLog[d] \in Seq(DevObj) /\ Len(devLog[d]) \in Nat \ {0}
         /\ Cached(devLog[d]) \in DevObj /\ Dev(d) \in DevObj
         /\ Cached(devLog[d]) = devLog[d][1] /\ Dev(d) = devLog[d][Len(devLog[d])]
         /\ Current(devLog[d]) => Cached(devLog[d]) = Dev(d)
<1>1. devLog[d] \in Seq(DevObj) /\ Len(devLog[d]) \in Nat \ {0}
  BY Bounds, TypeParts DEF LogsOK
<1> QED BY <1>1, LogEnds DEF Dev, Stored

LEMMA NodeEnds ==
  ASSUME TypeOK
  PROVE  /\ nodeLog \in Seq(NodeObj) /\ Len(nodeLog) \in Nat \ {0}
         /\ Cached(nodeLog) \in NodeObj /\ Node \in NodeObj
         /\ Cached(nodeLog) = nodeLog[1] /\ Node = nodeLog[Len(nodeLog)]
<1>1. nodeLog \in Seq(NodeObj) /\ Len(nodeLog) \in Nat \ {0}
  BY Bounds, TypeParts DEF NodeLogOK
<1> QED BY <1>1, LogEnds DEF Node, Stored

\* A write of one device's object leaves the others alone.
LEMMA LandEffect ==
  ASSUME TypeOK, NEW d \in Devices, NEW v \in DevObj, Land(d, v)
  PROVE  /\ LogsOK'
         /\ devLog'[d] = Written(devLog[d], v)
         /\ Dev(d)' = v
         /\ \A x \in Devices \ {d} : devLog'[x] = devLog[x] /\ Dev(x)' = Dev(x)
         /\ Len(devLog'[d]) = Len(devLog[d]) + 1
         /\ devLog'[d][Len(devLog[d]) + 1] = v
         /\ \A k \in 1..Len(devLog[d]) : devLog'[d][k] = devLog[d][k]
<1>1. /\ devLog' = [devLog EXCEPT ![d] = Written(devLog[d], v)]
      /\ Len(devLog[d]) <= MaxLag
      /\ MaxLag \in Nat /\ devLog \in [Devices -> Seq(DevObj)]
  BY Bounds DEF Land, Room, TypeOK
<1>2. /\ Written(devLog[d], v) \in Seq(DevObj)
      /\ Len(Written(devLog[d], v)) = Len(devLog[d]) + 1
      /\ Stored(Written(devLog[d], v)) = v
      /\ \A i \in 1..Len(devLog[d]) : Written(devLog[d], v)[i] = devLog[d][i]
  <2>1. devLog[d] \in Seq(DevObj) /\ Len(devLog[d]) > 0
    BY DevEnds
  <2> QED
    BY <2>1, LogWritten
<1>3. devLog'[d] = Written(devLog[d], v) /\ \A x \in Devices \ {d} : devLog'[x] = devLog[x]
  BY <1>1
<1>4. devLog' \in [Devices -> Seq(DevObj)]
  BY <1>1, <1>2
<1>5. \A x \in Devices : Len(devLog'[x]) \in 1..(MaxLag + 1)
  <2>1. Len(devLog'[d]) \in 1..(MaxLag + 1)
    BY <1>1, <1>2, <1>3, DevEnds
  <2>2. \A x \in Devices : Len(devLog[x]) \in 1..(MaxLag + 1)
    BY DEF TypeOK
  <2> QED BY <1>3, <2>1, <2>2
<1>6. Len(devLog'[d]) = Len(devLog[d]) + 1 /\ devLog'[d][Len(devLog[d]) + 1] = v
  BY <1>2, <1>3 DEF Stored
<1> QED BY <1>2, <1>3, <1>4, <1>5, <1>6 DEF LogsOK, Dev

\* So does a watch event.
LEMMA DeliverDeviceEffect ==
  ASSUME TypeOK, NEW d \in Devices, DeliverDevice(d)
  PROVE  /\ LogsOK' /\ Dev(d)' = Dev(d)
         /\ \A x \in Devices \ {d} : devLog'[x] = devLog[x] /\ Dev(x)' = Dev(x)
         /\ Len(devLog'[d]) = Len(devLog[d]) - 1
         /\ \A k \in 1..Len(devLog'[d]) : devLog'[d][k] = devLog[d][k + 1]
<1>1. /\ devLog' = [devLog EXCEPT ![d] = Delivered(devLog[d])] /\ Len(devLog[d]) > 1
      /\ MaxLag \in Nat /\ devLog \in [Devices -> Seq(DevObj)]
      /\ Len(devLog[d]) <= MaxLag + 1
  BY Bounds, TypeParts DEF DeliverDevice, LogsOK
<1>2. /\ Delivered(devLog[d]) \in Seq(DevObj)
      /\ Len(Delivered(devLog[d])) = Len(devLog[d]) - 1
      /\ Stored(Delivered(devLog[d])) = Stored(devLog[d])
      /\ \A i \in 1..Len(Delivered(devLog[d])) : Delivered(devLog[d])[i] = devLog[d][i + 1]
  BY <1>1, DevEnds, LogDelivered
<1>3. devLog'[d] = Delivered(devLog[d]) /\ \A x \in Devices \ {d} : devLog'[x] = devLog[x]
  BY <1>1
<1>4. devLog' \in [Devices -> Seq(DevObj)]
  BY <1>1, <1>2
<1>5. \A x \in Devices : Len(devLog'[x]) \in 1..(MaxLag + 1)
  <2>1. Len(devLog'[d]) \in 1..(MaxLag + 1)
    BY <1>1, <1>2, <1>3, DevEnds
  <2>2. \A x \in Devices : Len(devLog[x]) \in 1..(MaxLag + 1)
    BY DEF TypeOK
  <2> QED BY <1>3, <2>1, <2>2
<1> QED BY <1>2, <1>3, <1>4, <1>5 DEF LogsOK, Dev

\* A write of the node's object.
LEMMA WriteNodeEffect ==
  ASSUME TypeOK, NEW v \in NodeObj, WriteNode(v)
  PROVE  /\ NodeLogOK' /\ Node' = v /\ Cached(nodeLog') = Cached(nodeLog)
         /\ Len(nodeLog') = Len(nodeLog) + 1
         /\ nodeLog'[Len(nodeLog) + 1] = v
         /\ \A k \in 1..Len(nodeLog) : nodeLog'[k] = nodeLog[k]
<1>1. /\ nodeLog' = Written(nodeLog, v) /\ Len(nodeLog) <= MaxLag /\ MaxLag \in Nat
      /\ nodeLog \in Seq(NodeObj) /\ Len(nodeLog) > 0
  BY Bounds, NodeEnds DEF WriteNode, Room
<1>2. /\ Written(nodeLog, v) \in Seq(NodeObj)
      /\ Len(Written(nodeLog, v)) = Len(nodeLog) + 1
      /\ Cached(Written(nodeLog, v)) = Cached(nodeLog)
      /\ Stored(Written(nodeLog, v)) = v
      /\ \A i \in 1..Len(nodeLog) : Written(nodeLog, v)[i] = nodeLog[i]
  BY <1>1, LogWritten
<1> QED BY <1>1, <1>2 DEF NodeLogOK, Node, Stored

LEMMA DeliverNodeEffect ==
  ASSUME TypeOK, DeliverNode
  PROVE  /\ NodeLogOK' /\ Node' = Node /\ Cached(nodeLog') = nodeLog[2]
         /\ Len(nodeLog) > 1 /\ Len(nodeLog') = Len(nodeLog) - 1
         /\ \A k \in 1..Len(nodeLog') : nodeLog'[k] = nodeLog[k + 1]
<1>1. /\ nodeLog' = Delivered(nodeLog) /\ Len(nodeLog) > 1 /\ MaxLag \in Nat
      /\ nodeLog \in Seq(NodeObj) /\ Len(nodeLog) \in 1..(MaxLag + 1)
  BY Bounds DEF DeliverNode, TypeOK
<1>2. /\ Delivered(nodeLog) \in Seq(NodeObj)
      /\ Len(Delivered(nodeLog)) = Len(nodeLog) - 1
      /\ Cached(Delivered(nodeLog)) = nodeLog[2]
      /\ Stored(Delivered(nodeLog)) = Stored(nodeLog)
      /\ \A i \in 1..Len(Delivered(nodeLog)) : Delivered(nodeLog)[i] = nodeLog[i + 1]
  BY <1>1, LogDelivered
<1> QED BY <1>1, <1>2 DEF NodeLogOK, Node

\* The control plane's steps keep the types.
LEMMA TypeCpStep ==
  ASSUME TypeOK, UNCHANGED env,
         \/ \E d \in Devices : CpDevice(d)
         \/ \E status \in NodeStatuses : CpNode(status)
  PROVE  TypeOK'
<1> USE TypeParts, TypeKept, TypePartsNext
<1>1. ASSUME NEW d \in Devices, CpDevice(d)
      PROVE  TypeOK'
  <2> PICK report \in Reports \ {cp[d]} :
        /\ Spend("changes", env.changes)
        /\ cp' = [cp EXCEPT ![d] = report]
        /\ gone' = IF report = "absent" THEN gone \cup {d} ELSE gone
        /\ streams' = [i \in DOMAIN streams |->
             IF streams[i].state = "reading" /\ ~streams[i].cancelled
               THEN [streams[i] EXCEPT !.frames =
                       Append(@, [snap |-> FALSE, says |-> [x \in {d} |-> report]])]
               ELSE streams[i]]
        /\ UNCHANGED <<cpNode, api, nodeStep, scopes, manager, current, cache, work, held,
                       dropped>>
    BY <1>1 DEF CpDevice
  <2> DEFINE f == [snap |-> FALSE, says |-> [x \in {d} |-> report]]
  <2>1. f \in Frame
    BY FrameMakes DEF CpOK
  <2> HIDE DEF f
  <2>2. \A i \in 1..2 : [streams[i] EXCEPT !.frames = Append(@, f)] \in StreamObj
    BY <2>1, StreamEdits DEF StreamsOK
  <2>3. StreamsOK'
    BY <2>2 DEF StreamsOK, f
  <2>4. CpOK' /\ HistoryOK'
    BY DEF CpOK, HistoryOK, Spend
  <2> QED BY <2>3, <2>4 DEF api, work
<1>2. ASSUME NEW status \in NodeStatuses, CpNode(status)
      PROVE  TypeOK'
  <2>1. CpOK'
    BY <1>2 DEF CpNode, CpOK, Reports
  <2>4. HistoryOK'
    <3>1. spent' \in [changes : Nat, drops : Nat, crashes : Nat]
      BY <1>2, SpendType DEF CpNode
    <3> QED BY <1>2, <3>1 DEF CpNode, HistoryOK
  <2>2. \A i \in 1..2 :
          [streams[i] EXCEPT !.state = "connecting", !.frames = <<>>] \in StreamObj
    BY StreamEdits DEF StreamsOK
  <2>3. StreamsOK'
    BY <1>2, <2>2 DEF CpNode, StreamsOK
  <2> QED BY <1>2, <2>1, <2>3, <2>4 DEF CpNode, api, work
<1> QED BY <1>1, <1>2

\* So do those of the StorageNode controller and of whoever writes its object.
LEMMA TypeNodeStep ==
  ASSUME TypeOK, UNCHANGED env,
         NodeController \/ NodeDeleted \/ RecordDeleted \/ ListRemote
  PROVE  TypeOK'
<1> USE TypeParts, TypeKept, TypePartsNext
<1>1. CASE NodeStatus
  <2>1. [Node EXCEPT !.status = cpNode] \in NodeObj
    BY NodeEnds DEF NodeObj, CpOK
  <2> QED BY <1>1, <2>1, WriteNodeEffect DEF NodeStatus, others, work, history
<1>2. CASE Register
  <2>1. ScopesOK'
    BY <1>2 DEF Register, ScopesOK, others
  <2> QED BY <1>2, <2>1 DEF Register, others, api, work, history
<1>3. CASE AddScope
  <2>1. ScopesOK'
    BY <1>3 DEF AddScope, SetScope, ScopesOK, others
  <2> QED BY <1>3, <2>1 DEF AddScope, others, api, work, history
<1>4. CASE NodeDeleted
  <2>1. [Node EXCEPT !.deleted = TRUE] \in NodeObj
    BY NodeEnds DEF NodeObj
  <2> QED BY <1>4, <2>1, WriteNodeEffect DEF NodeDeleted, others, work, history
<1>5. CASE Unregister
  <2>1. ScopesOK'
    BY <1>5 DEF Unregister, SetScope, ScopesOK, others
  <2> QED BY <1>5, <2>1 DEF Unregister, others, api, work, history
<1>6. CASE Forget
  <2>1. [Node EXCEPT !.exists = FALSE] \in NodeObj
    BY NodeEnds DEF NodeObj
  <2>2. NodeLogOK'
    BY <1>6, <2>1, WriteNodeEffect DEF Forget
  <2>3. ScopesOK'
    BY <1>6 DEF Forget, ScopesOK, others
  <2> QED BY <1>6, <2>2, <2>3 DEF Forget, others, work, history
<1>7. CASE RecordDeleted
  <2>1. [Node EXCEPT !.exists = FALSE] \in NodeObj
    BY NodeEnds DEF NodeObj
  <2> QED BY <1>7, <2>1, WriteNodeEffect DEF RecordDeleted, others, work, history
<1>8. CASE ListRemote
  <2>1. [exists |-> TRUE, deleted |-> FALSE, status |-> cpNode, uid |-> Node.uid + 1] \in NodeObj
    BY <1>8, NodeEnds, Bounds DEF NodeObj, CpOK, ListRemote
  <2> QED BY <1>8, <2>1, WriteNodeEffect DEF ListRemote, others, work, history
<1> QED BY <1>1, <1>2, <1>3, <1>4, <1>5, <1>6, <1>7, <1>8 DEF NodeController

\* So do those of the manager's goroutine and of the streams.
LEMMA TypeStreamStep ==
  ASSUME TypeOK, UNCHANGED env,
         Manager \/ \E i \in DOMAIN streams : Stream(i) \/ Disconnect(i)
  PROVE  TypeOK'
<1> USE TypeParts, TypeKept, TypePartsNext
<1>1. CASE Wake
  <2>1. ScopesOK'
    BY <1>1 DEF Wake, ScopesOK, goroutine
  <2> QED BY <1>1, <2>1 DEF Wake, goroutine, api, work, history
<1>2. CASE ListScopes
  <2>1. ScopesOK'
    BY <1>2 DEF ListScopes, ScopesOK, goroutine
  <2> QED BY <1>2, <2>1 DEF ListScopes, goroutine, api, work, history
<1>3. CASE ReconcileStreams
  <2>1. \A i \in 1..2 : [streams[i] EXCEPT !.cancelled = TRUE] \in StreamObj
    BY DEF StreamsOK, StreamObj
  <2>2. StreamsOK'
    <3>1. CASE ~manager.want /\ current # 0 /\ current' = 0
                 /\ streams' = [streams EXCEPT ![current].cancelled = TRUE]
      BY <2>1, <3>1 DEF StreamsOK, ScopesOK
    <3>2. ASSUME NEW i \in DOMAIN streams, streams' = [streams EXCEPT ![i] = NewStream]
          PROVE  StreamsOK'
      BY <3>2, ObjTypes DEF StreamsOK
    <3> QED BY <1>3, <3>1, <3>2 DEF ReconcileStreams
  <2>3. ScopesOK'
    <3>1. current' \in 0..2 /\ manager' \in [pc : {"wait", "list", "match"}, want : BOOLEAN]
      <4>1. DOMAIN streams = 1..2 /\ 0 \in 0..2 /\ 1..2 \subseteq 0..2
        BY DEF StreamsOK
      <4> QED BY <1>3, <4>1 DEF ReconcileStreams, ScopesOK
    <3> QED BY <1>3, <3>1 DEF ReconcileStreams, Drained, ScopesOK, goroutine
  <2> QED BY <1>3, <2>2, <2>3 DEF ReconcileStreams, goroutine, api, work, history
<1>4. ASSUME NEW i \in DOMAIN streams, Stream(i) \/ Disconnect(i)
      PROVE  TypeOK'
  <2>0. i \in 1..2 /\ streams[i] \in StreamObj
    BY DEF StreamsOK
  <2>1. CASE Connect(i)
    <3> DEFINE f == [snap |-> TRUE, says |-> cp]
    <3>1. f \in Frame
      BY FrameMakes DEF CpOK
    <3> HIDE DEF f
    <3>2. <<f>> \in Seq(Frame)
      BY <3>1
    <3>3. StreamsOK'
      BY <2>0, <2>1, <3>2 DEF Connect, StreamsOK, StreamObj, f
    <3> QED BY <2>1, <3>3 DEF Connect, reading, api, work
  <2>2. CASE Disconnect(i)
    <3>1. StreamsOK'
      BY <2>0, <2>2, StreamEdits DEF Disconnect, StreamsOK
    <3>3. spent' \in [changes : Nat, drops : Nat, crashes : Nat]
      BY <2>2, SpendType DEF Disconnect
    <3>2. HistoryOK'
      BY <2>2, <3>3 DEF Disconnect, HistoryOK, reading, history
    <3> QED BY <2>2, <3>1, <3>2 DEF Disconnect, reading, api, work, history
  <2>3. CASE Exit(i)
    <3>1. StreamsOK'
      BY <2>0, <2>3, ObjTypes DEF Exit, StreamsOK
    <3> QED BY <2>3, <3>1 DEF Exit, reading, api, work
  <2>4. CASE Ingest(i)
    <3> DEFINE f == Head(streams[i].frames)
    <3>1. f \in Frame /\ Tail(streams[i].frames) \in Seq(Frame)
      BY <2>0, <2>4, StreamEdits DEF Ingest
    <3>2. DOMAIN f.says \subseteq Devices /\ f.snap \in BOOLEAN
          /\ \A d \in DOMAIN f.says : f.says[d] \in Reports
      BY <3>1, FrameParts
    <3>3. Applied(f) \in [Devices -> Reports]
      BY <3>2 DEF Applied, CacheOK
    <3> DEFINE t == {[dev |-> d, present |-> Applied(f)[d] # "absent"] : d \in
               {x \in Devices : \/ x \in DOMAIN f.says /\ (Applied(f)[x] # "absent" \/ ~f.snap)
                                \/ store[x] # "absent" /\ Applied(f)[x] = "absent"}}
    <3>4. t \in SUBSET [dev : Devices, present : BOOLEAN]
      BY TodoType
    <3>5. /\ store' = Applied(f) /\ synced' = (synced \/ f.snap)
          /\ streams' = [streams EXCEPT ![i].frames = Tail(@), ![i].todo = t]
          /\ UNCHANGED <<reading, index, work, spent>>
      BY <2>4 DEF Ingest
    <3> HIDE DEF t
    <3>6. StreamsOK'
      <4> HIDE DEF f
      <4> QED BY <2>0, <3>1, <3>4, <3>5 DEF StreamsOK, StreamObj
    <3> HIDE DEF f
    <3>7. CacheOK'
      BY <3>2, <3>3, <3>5 DEF CacheOK
    <3> QED BY <3>5, <3>6, <3>7 DEF reading, api, work
  <2>5. CASE Report(i)
    <3>1. PICK r \in streams[i].todo :
            /\ streams' = [streams EXCEPT ![i].todo = @ \ {r}]
            /\ index' \in {Indexed(r), index}
            /\ queue' \in {queue \cup {r.dev}, queue}
            /\ UNCHANGED <<reading, store, synced, pass, spent>>
      BY <2>5 DEF Report
    <3>2. r.dev \in Devices
      BY <2>0 DEF StreamObj
    <3>3. StreamsOK'
      BY <2>0, <3>1 DEF StreamsOK, StreamObj
    <3>4. CacheOK' /\ queue' \subseteq Devices
      BY <3>1, <3>2 DEF CacheOK, Indexed
    <3> QED BY <3>1, <3>3, <3>4 DEF reading, api
  <2> QED BY <1>4, <2>1, <2>2, <2>3, <2>4, <2>5 DEF Stream
<1> QED BY <1>1, <1>2, <1>3, <1>4 DEF Manager

\* Where a pass goes keeps its type.
LEMMA PassEdits ==
  ASSUME TypeOK, ~At("idle")
  PROVE  /\ pass \in PassObj /\ pass.dev \in Devices /\ Idle \in PassObj /\ Idle.pc = "idle"
         /\ End(TRUE) \/ End(FALSE) \/ Goto("delete") \/ Goto("mark")
              => PassOK' /\ queue' \subseteq Devices
<1>1. pass \in PassObj /\ pass.dev \in Devices /\ Idle \in PassObj /\ Idle.pc = "idle"
      /\ queue \subseteq Devices
  BY TypeParts, ObjTypes DEF PassOK, Idle
<1>2. ASSUME End(TRUE) \/ End(FALSE)
      PROVE  PassOK' /\ queue' \subseteq Devices
  BY <1>1, <1>2 DEF End, PassOK, At
<1>3. ASSUME Goto("delete") \/ Goto("mark")
      PROVE  PassOK' /\ queue' \subseteq Devices
  BY <1>1, <1>3 DEF Goto, PassOK, At, PassObj
<1> QED BY <1>1, <1>2, <1>3

\* So do the steps of the mirror's pass.
LEMMA TypePassStep ==
  ASSUME TypeOK, UNCHANGED env, PassStep \/ \E d \in Devices : Lookup(d)
  PROVE  TypeOK'
<1> USE TypeParts, TypeKept, TypePartsNext
<1>1. ASSUME NEW d \in Devices, Lookup(d)
      PROVE  TypeOK'
  <2>1. PassOK' /\ queue' \subseteq Devices
    BY <1>1, ObjTypes DEF Lookup, PassOK, At, PassObj, CacheOK, Reports
  <2> QED BY <1>1, <2>1 DEF Lookup, mirror, history
<1>2. CASE Get
  <2>1. ~At("idle")
    BY <1>2 DEF Get, At
  <2>2. /\ Cached(devLog[pass.dev]) \in DevObj /\ Cached(nodeLog) \in NodeObj
    BY <2>1, PassEdits, DevEnds, NodeEnds
  <2>3. PassOK' /\ queue' \subseteq Devices
    <3>1. CASE End(FALSE) \/ End(TRUE)
      BY <2>1, <3>1, PassEdits
    <3>2. CASE pass' = [pass EXCEPT !.pc = "unreported", !.phase = Cached(devLog[pass.dev]).phase]
               /\ UNCHANGED queue
      BY <2>1, <2>2, <3>2, PassEdits DEF PassOK, At, PassObj, DevObj
    <3>3. CASE /\ pass.found # "absent"
               /\ pass' = [pass EXCEPT !.pc = "write", !.owner = Cached(nodeLog).uid,
                                       !.phase = devicePhase(pass.found, Cached(nodeLog))]
               /\ UNCHANGED queue
      <4>1. devicePhase(pass.found, Cached(nodeLog)) \in DevicePhases
        BY <2>1, <2>2, <3>3, PassEdits, PhaseType DEF PassObj
      <4>2. Cached(nodeLog).uid \in 0..MaxRecords
        BY <2>2, Bounds DEF NodeObj
      <4> QED BY <2>1, <3>3, <4>1, <4>2, PassEdits DEF PassOK, At, PassObj
    <3> QED BY <1>2, <3>1, <3>2, <3>3 DEF Get
  <2> QED BY <1>2, <2>3 DEF Get, mirror, history
<1>3. CASE Upsert
  <2>1. ~At("idle")
    BY <1>3 DEF Upsert, At
  <2>2. Cached(devLog[pass.dev]) \in DevObj /\ pass.dev \in Devices
    BY <2>1, PassEdits, DevEnds
  <2>3. /\ [NoDev EXCEPT !.exists = TRUE, !.owner = pass.owner] \in DevObj
        /\ Rebuilt(Cached(devLog[pass.dev]), pass.phase) \in DevObj
    BY <2>1, <2>2, PassEdits, ObjTypes DEF PassObj, DevObj
  <2>4. LogsOK'
    BY <1>3, <2>2, <2>3, LandEffect DEF Upsert
  <2>5. PassOK' /\ queue' \subseteq Devices
    <3>1. CASE End(FALSE) \/ End(TRUE)
      BY <2>1, <3>1, PassEdits
    <3>2. CASE pass' = [pass EXCEPT !.pc = "status", !.fresh = TRUE] /\ UNCHANGED queue
      <4>1. pass.found # "absent" /\ pass \in PassObj /\ pass.dev \in Devices
        BY <1>3, <2>1, PassEdits DEF Upsert, At, PassOK
      <4> QED BY <3>2, <4>1 DEF PassOK, At, PassObj
    <3> QED BY <1>3, <3>1, <3>2 DEF Upsert
  <2> QED BY <1>3, <2>4, <2>5 DEF Upsert, mirror, history
<1>4. CASE FirstStatus
  <2>1. ~At("idle") /\ pass.dev \in Devices /\ pass \in PassObj
    BY <1>4, PassEdits DEF FirstStatus, At
  <2>2. Rebuilt(Dev(pass.dev), pass.phase) \in DevObj
    BY <2>1, DevEnds, ObjTypes DEF PassObj
  <2>3. LogsOK'
    BY <1>4, <2>1, <2>2, LandEffect DEF FirstStatus
  <2>4. PassOK' /\ queue' \subseteq Devices
    <3>1. CASE End(FALSE) \/ End(TRUE)
      BY <2>1, <3>1, PassEdits
    <3>2. CASE Goto("write")
      BY <1>4, <2>1, <3>2 DEF FirstStatus, Goto, PassOK, At, PassObj
    <3> QED BY <1>4, <3>1, <3>2 DEF FirstStatus
  <2> QED BY <1>4, <2>3, <2>4 DEF FirstStatus, mirror, history
<1>5. CASE Unreported
  <2>1. ~At("idle")
    BY <1>5 DEF Unreported, At
  <2>2. PassOK' /\ queue' \subseteq Devices
    BY <1>5, <2>1, PassEdits DEF Unreported
  <2> QED BY <1>5, <2>2 DEF Unreported, mirror, history
<1>6. CASE DeleteDevice
  <2>1. ~At("idle") /\ pass.dev \in Devices
    BY <1>6, PassEdits DEF DeleteDevice, At
  <2>2. PassOK' /\ queue' \subseteq Devices
    BY <1>6, <2>1, PassEdits DEF DeleteDevice
  <2>3. LogsOK'
    BY <1>6, <2>1, LandEffect, ObjTypes DEF DeleteDevice, Remove
  <2>4. HistoryOK'
    BY <1>6, <2>1 DEF DeleteDevice, Remove, HistoryOK, mirror
  <2> QED BY <1>6, <2>2, <2>3, <2>4 DEF DeleteDevice, mirror
<1>7. CASE markUnobservable
  <2>1. ~At("idle") /\ pass.dev \in Devices
    BY <1>7, PassEdits DEF markUnobservable, At
  <2>2. Rebuilt(Cached(devLog[pass.dev]), "Unknown") \in DevObj
    BY <2>1, DevEnds, ObjTypes DEF DevicePhases
  <2>3. PassOK' /\ queue' \subseteq Devices
    BY <1>7, <2>1, PassEdits DEF markUnobservable
  <2>4. LogsOK'
    BY <1>7, <2>1, <2>2, LandEffect DEF markUnobservable
  <2> QED BY <1>7, <2>3, <2>4 DEF markUnobservable, mirror, history
<1> QED BY <1>1, <1>2, <1>3, <1>4, <1>5, <1>6, <1>7 DEF PassStep

\* A write of somebody else keeps the pass.
LEMMA DisturbEffect ==
  ASSUME TypeOK, NEW d \in Devices, Disturb(d)
  PROVE  /\ PassOK'
         /\ \A field \in {"pc", "dev", "found", "phase", "owner"} : pass'[field] = pass[field]
         /\ pass'.fresh => pass.fresh /\ pass.dev # d
         /\ pass'.pc = pass.pc /\ pass'.dev = pass.dev /\ pass'.found = pass.found
         /\ pass'.phase = pass.phase
<1>1. pass \in PassObj
  BY TypeParts DEF PassOK
<1> QED BY <1>1, TypeParts DEF Disturb, PassOK, PassObj, At

\* So do the caches, the other writers and a restart.
LEMMA TypeOutsideStep ==
  ASSUME TypeOK, UNCHANGED env,
         \/ DeliverNode \/ Crash
         \/ \E d \in Devices : DeliverDevice(d) \/ DeviceOps(d) \/ Collect(d)
  PROVE  TypeOK'
<1> USE TypeParts, TypeKept, TypePartsNext
<1>1. CASE DeliverNode
  <2>1. queue' \subseteq Devices
    BY <1>1 DEF DeliverNode
  <2> QED BY <1>1, <2>1, DeliverNodeEffect DEF DeliverNode, outside, history
<1>2. ASSUME NEW d \in Devices, DeliverDevice(d)
      PROVE  TypeOK'
  <2>1. queue' \subseteq Devices
    BY <1>2 DEF DeliverDevice
  <2> QED BY <1>2, <2>1, DeliverDeviceEffect DEF DeliverDevice, outside, history
<1>3. ASSUME NEW d \in Devices, DeviceOps(d)
      PROVE  TypeOK'
  <2>1. [Dev(d) EXCEPT !.lock = ~@] \in DevObj
    BY DevEnds DEF DevObj
  <2>2. spent' \in [changes : Nat, drops : Nat, crashes : Nat]
    BY <1>3, SpendType DEF DeviceOps
  <2>3. HistoryOK'
    BY <1>3, <2>2 DEF DeviceOps, HistoryOK, outside
  <2> QED BY <1>3, <2>1, <2>3, LandEffect, DisturbEffect DEF DeviceOps, outside
<1>4. ASSUME NEW d \in Devices, Collect(d)
      PROVE  TypeOK'
  <2>1. HistoryOK'
    BY <1>4 DEF Collect, Remove, HistoryOK, outside
  <2> QED BY <1>4, <2>1, ObjTypes, LandEffect, DisturbEffect DEF Collect, Remove, outside
<1>5. CASE Crash
  <2>1. LogsOK'
    <3>1. \A d \in Devices : <<Dev(d)>> \in Seq(DevObj) /\ Len(<<Dev(d)>>) = 1
      BY DevEnds
    <3>2. devLog' = [d \in Devices |-> <<Dev(d)>>]
      BY <1>5 DEF Crash
    <3>3. \A d \in Devices : Len(devLog'[d]) = 1
      BY <3>1, <3>2
    <3> QED BY <3>1, <3>2, <3>3, One DEF LogsOK
  <2>2. NodeLogOK'
    <3>1. nodeLog' = <<Node>> /\ <<Node>> \in Seq(NodeObj) /\ Len(<<Node>>) = 1
      <4>1. Node \in NodeObj
        BY NodeEnds
      <4>2. nodeLog' = <<Node>>
        BY <1>5, Zenon DEF Crash
      <4> QED BY <4>1, <4>2
    <3> QED BY <3>1, One DEF NodeLogOK
  <2>3. PassOK' /\ queue' \subseteq Devices
    BY <1>5, ObjTypes DEF Crash, PassOK, At, Idle
  <2>4. ScopesOK'
    <3>1. manager' \in [pc : {"wait", "list", "match"}, want : BOOLEAN]
      BY <1>5 DEF Crash
    <3>2. current' \in 0..2
      <4>1. current' = 0
        BY <1>5, Zenon DEF Crash
      <4> QED BY <4>1
    <3>3. {registered', wanted', notify'} \subseteq BOOLEAN
      BY <1>5, Zenon DEF Crash
    <3> QED BY <1>5, <3>1, <3>2, <3>3, Zenon DEF Crash, ScopesOK
  <2>5. StreamsOK'
    BY <1>5, ObjTypes DEF Crash, StreamsOK
  <2>6. CacheOK'
    BY <1>5 DEF Crash, CacheOK, Reports
  <2>7. spent' \in [changes : Nat, drops : Nat, crashes : Nat]
    BY <1>5, SpendType DEF Crash
  <2>8. HistoryOK'
    BY <1>5, <2>7 DEF Crash, HistoryOK, history
  <2> QED BY <1>5, <2>1, <2>2, <2>3, <2>4, <2>5, <2>6, <2>8 DEF Crash
<1> QED BY <1>1, <1>2, <1>3, <1>4, <1>5

\* The initial states are typed.
LEMMA TypeInit == Init => TypeOK
<1> SUFFICES ASSUME Init PROVE TypeOK
  OBVIOUS
<1>1. LogsOK
  <2>1. <<NoDev>> \in Seq(DevObj) /\ Len(<<NoDev>>) = 1
    BY ObjTypes
  <2>2. devLog = [d \in Devices |-> <<NoDev>>]
    BY DEF Init
  <2>3. \A d \in Devices : Len(devLog[d]) = 1
    BY <2>1, <2>2
  <2> QED BY <2>1, <2>2, <2>3, One DEF LogsOK
<1>2. NodeLogOK
  <2> DEFINE n == [exists |-> TRUE, deleted |-> FALSE, status |-> "online", uid |-> 1]
  <2>1. n \in NodeObj
    BY Bounds DEF NodeObj, NodeStatuses
  <2> HIDE DEF n
  <2>2. <<n>> \in Seq(NodeObj) /\ Len(<<n>>) = 1
    BY <2>1
  <2>3. nodeLog = <<n>>
    BY DEF Init, n
  <2> QED BY <2>2, <2>3, One DEF NodeLogOK
<1>3. PassOK
  BY ObjTypes DEF Init, PassOK, At, Idle
<1>4. ScopesOK
  <2>1. manager \in [pc : {"wait", "list", "match"}, want : BOOLEAN]
    BY DEF Init
  <2>2. current \in 0..2
    <3>1. current = 0
      BY Zenon DEF Init
    <3> QED BY <3>1
  <2>3. {registered, wanted, notify} \subseteq BOOLEAN
    BY Zenon DEF Init
  <2> QED BY <2>1, <2>2, <2>3, Zenon DEF Init, ScopesOK
<1>5. StreamsOK
  BY ObjTypes DEF Init, StreamsOK
<1>6. CacheOK
  BY DEF Init, CacheOK, Reports
<1>7. CpOK
  BY DEF Init, CpOK, Reports, NodeStatuses
<1>8. HistoryOK
  BY DEF Init, HistoryOK
<1> QED BY <1>1, <1>2, <1>3, <1>4, <1>5, <1>6, <1>7, <1>8, TypeParts DEF Init

\* The steps of the specification, one lemma per actor.
LEMMA StepActors ==
  Next => /\ UNCHANGED env
          /\ \/ \E d \in Devices : CpDevice(d)
             \/ \E status \in NodeStatuses : CpNode(status)
             \/ NodeController \/ NodeDeleted \/ RecordDeleted \/ ListRemote
             \/ Manager \/ \E i \in DOMAIN streams : Stream(i) \/ Disconnect(i)
             \/ PassStep \/ \E d \in Devices : Lookup(d)
             \/ DeliverNode \/ Crash
             \/ \E d \in Devices : DeliverDevice(d) \/ DeviceOps(d) \/ Collect(d)
  BY DEF Next, Environment

LEMMA TypeStep == TypeOK /\ [Next]_vars => TypeOK'
<1> SUFFICES ASSUME TypeOK, [Next]_vars PROVE TypeOK'
  OBVIOUS
<1>1. CASE Next
  BY <1>1, StepActors, TypeCpStep, TypeNodeStep, TypeStreamStep, TypePassStep, TypeOutsideStep
<1>2. CASE UNCHANGED vars
  BY <1>2, TypeKept, TypePartsNext DEF vars, moving, api, work
<1> QED BY <1>1, <1>2

\* Every object, stream, frame and cache entry keeps its type, whatever the control
\* plane reports and however passes, streams and restarts interleave.
THEOREM TypeCorrect == Spec => []TypeOK
  BY TypeInit, TypeStep, PTL DEF Spec

-------------------------------------------------------------------------------
(* Locks: an object that is locked exists, and its lock is on the version  *)
(* every write of the mirror starts from.                                  *)

LockInv ==
  /\ TypeOK
  /\ \A d \in Devices : Dev(d).lock => Dev(d).exists
  /\ LockKept

\* What writes no device's object keeps the locks.
LEMMA LockUntouched ==
  ASSUME LockInv, TypeOK', UNCHANGED held, \A d \in Devices : Dev(d)' = Dev(d)
  PROVE  LockInv'
<1>1. held' \subseteq Devices
  BY TypeParts DEF LockInv, HistoryOK
<1> QED BY <1>1 DEF LockInv, LockKept

\* A write that leaves the lock on an object an operation still holds.
LEMMA LockLanded ==
  ASSUME LockInv, TypeOK', NEW d \in Devices, NEW v \in DevObj, Land(d, v),
         v.lock => v.exists, d \in held' => v.lock, held' \subseteq held \cup {d}
  PROVE  LockInv'
<1>1. Dev(d)' = v /\ \A x \in Devices \ {d} : Dev(x)' = Dev(x)
  BY LandEffect DEF LockInv
<1>2. held \subseteq Devices /\ held' \subseteq Devices
  BY TypeParts DEF LockInv, HistoryOK
<1>3. \A x \in Devices : Dev(x)'.lock => Dev(x)'.exists
  BY <1>1 DEF LockInv
<1>4. ASSUME NEW x \in held'
      PROVE  Dev(x)'.lock
  <2>1. CASE x = d
    BY <1>1, <1>2, <1>4, <2>1 DEF LockInv, LockKept
  <2>2. CASE x # d
    BY <1>1, <1>2, <1>4, <2>2 DEF LockInv, LockKept
  <2> QED BY <2>1, <2>2
<1> QED BY <1>3, <1>4 DEF LockInv, LockKept

\* The mirror's writes.
LEMMA LockPassStep ==
  ASSUME LockInv, TypeOK', PassStep
  PROVE  LockInv'
<1>0. TypeOK
  BY DEF LockInv
<1>1. CASE UNCHANGED <<devLog, held>>
  BY <1>1, LockUntouched DEF Dev
<1>2. CASE Get \/ Unreported
  BY <1>1, <1>2 DEF Get, Unreported
<1>d. ~(Get \/ Unreported) => pass.dev \in Devices /\ pass \in PassObj
  BY <1>0, PassEdits DEF PassStep, Upsert, FirstStatus, DeleteDevice, markUnobservable, At
<1>3. CASE Upsert /\ ~UNCHANGED devLog
  <2> DEFINE d == pass.dev
  <2>1. /\ d \in Devices /\ pass.phase \in DevicePhases /\ pass.owner \in 0..MaxRecords
        /\ Cached(devLog[d]) \in DevObj
        /\ Current(devLog[d]) => Cached(devLog[d]) = Dev(d)
    BY <1>0, <1>3, PassEdits, DevEnds DEF Upsert, At, PassObj
  <2> HIDE DEF d
  <2>2. CASE ~Dev(d).exists /\ Land(d, [NoDev EXCEPT !.exists = TRUE, !.owner = pass.owner])
    <3> DEFINE v == [NoDev EXCEPT !.exists = TRUE, !.owner = pass.owner]
    <3>1. v \in DevObj /\ (v.lock => v.exists)
      BY <2>1, ObjTypes DEF DevObj, NoDev
    <3>2. d \notin held
      BY <2>1, <2>2 DEF LockInv, LockKept
    <3>3. held' = held /\ Land(d, v)
      BY <1>3, <2>2 DEF Upsert
    <3> HIDE DEF v
    <3> QED BY <2>1, <3>1, <3>2, <3>3, LockLanded
  <2>3. CASE Current(devLog[d]) /\ Land(d, Rebuilt(Cached(devLog[d]), pass.phase))
    <3> DEFINE v == Rebuilt(Dev(d), pass.phase)
    <3>1. v \in DevObj /\ v.lock = Dev(d).lock /\ v.exists = Dev(d).exists
      BY <1>0, <2>1, DevEnds, ObjTypes DEF Rebuilt, DevObj
    <3>2. Land(d, v) /\ (v.lock => v.exists) /\ held' = held
      BY <1>3, <2>1, <2>3, <3>1 DEF LockInv, Upsert
    <3>3. d \in held => v.lock
      BY <3>1 DEF LockInv, LockKept
    <3> HIDE DEF v
    <3> QED BY <2>1, <3>1, <3>2, <3>3, LockLanded
  <2> QED BY <1>3, <2>2, <2>3 DEF Upsert, d
<1>4. CASE FirstStatus /\ ~UNCHANGED devLog
  <2> DEFINE d == pass.dev  v == Rebuilt(Dev(d), pass.phase)
  <2>1. d \in Devices /\ pass.phase \in DevicePhases /\ Dev(d) \in DevObj
    BY <1>0, <1>4, PassEdits, DevEnds DEF FirstStatus, At, PassObj
  <2>2. v \in DevObj /\ v.lock = Dev(d).lock /\ v.exists = Dev(d).exists
    BY <2>1, ObjTypes DEF Rebuilt, DevObj
  <2>3. Land(d, v) /\ (v.lock => v.exists) /\ held' = held
    BY <1>4, <2>1, <2>2 DEF LockInv, FirstStatus
  <2>4. d \in held => v.lock
    BY <2>2 DEF LockInv, LockKept
  <2> HIDE DEF v, d
  <2> QED BY <2>1, <2>2, <2>3, <2>4, LockLanded
<1>5. CASE DeleteDevice /\ ~UNCHANGED <<devLog, held>>
  <2>1. pass.dev \in Devices
    BY <1>0, <1>5, PassEdits DEF DeleteDevice, At
  <2>2. Land(pass.dev, NoDev) /\ held' = held \ {pass.dev}
    BY <1>5 DEF DeleteDevice, Remove
  <2>3. NoDev \in DevObj /\ ~NoDev.lock
    BY ObjTypes DEF NoDev
  <2> QED BY <2>1, <2>2, <2>3, LockLanded
<1>6. CASE markUnobservable /\ ~UNCHANGED devLog
  <2> DEFINE d == pass.dev  v == Rebuilt(Dev(d), "Unknown")
  <2>1. d \in Devices /\ Dev(d) \in DevObj
    BY <1>0, <1>6, PassEdits, DevEnds DEF markUnobservable, At
  <2>2. v \in DevObj /\ v.lock = Dev(d).lock /\ v.exists = Dev(d).exists
    BY <2>1, ObjTypes DEF Rebuilt, DevObj, DevicePhases
  <2>3. Land(d, v) /\ (v.lock => v.exists) /\ held' = held
    BY <1>0, <1>6, <2>1, <2>2, DevEnds DEF LockInv, markUnobservable
  <2>4. d \in held => v.lock
    BY <2>2 DEF LockInv, LockKept
  <2> HIDE DEF v, d
  <2> QED BY <2>1, <2>2, <2>3, <2>4, LockLanded
<1> QED
  BY <1>1, <1>2, <1>3, <1>4, <1>5, <1>6
     DEF PassStep, Upsert, FirstStatus, DeleteDevice, markUnobservable

\* The caches, the operations that take the lock, the garbage collector, a restart.
LEMMA LockOutsideStep ==
  ASSUME LockInv, TypeOK',
         \/ DeliverNode \/ Crash
         \/ \E d \in Devices : DeliverDevice(d) \/ DeviceOps(d) \/ Collect(d)
  PROVE  LockInv'
<1>0. TypeOK
  BY DEF LockInv
<1>1. CASE DeliverNode
  BY <1>1, LockUntouched DEF DeliverNode, Dev
<1>2. ASSUME NEW d \in Devices, DeliverDevice(d)
      PROVE  LockInv'
  BY <1>0, <1>2, DeliverDeviceEffect, LockUntouched DEF DeliverDevice
<1>3. ASSUME NEW d \in Devices, DeviceOps(d)
      PROVE  LockInv'
  <2> DEFINE v == [Dev(d) EXCEPT !.lock = ~@]
  <2>1. v \in DevObj /\ v.exists = Dev(d).exists /\ v.lock = ~Dev(d).lock
    BY <1>0, DevEnds DEF DevObj
  <2>2. Land(d, v) /\ Dev(d).exists
        /\ held' = IF Dev(d).lock THEN held \ {d} ELSE held \cup {d}
    BY <1>3 DEF DeviceOps
  <2> HIDE DEF v
  <2>3. v.lock => v.exists
    BY <2>1, <2>2
  <2>4. held' \subseteq held \cup {d} /\ (d \in held' => v.lock)
    BY <2>1, <2>2
  <2> QED BY <2>1, <2>2, <2>3, <2>4, LockLanded
<1>4. ASSUME NEW d \in Devices, Collect(d)
      PROVE  LockInv'
  <2>1. Land(d, NoDev) /\ held' = held \ {d}
    BY <1>4 DEF Collect, Remove
  <2>2. NoDev \in DevObj /\ ~NoDev.lock
    BY ObjTypes DEF NoDev
  <2> QED BY <2>1, <2>2, LockLanded
<1>5. CASE Crash
  <2>1. devLog' = [d \in Devices |-> <<Dev(d)>>] /\ held' = held
    BY <1>5, Zenon DEF Crash, history
  <2>2. \A d \in Devices : Dev(d)' = Dev(d)
    BY <2>1 DEF Dev, Stored
  <2> QED BY <2>1, <2>2, LockUntouched
<1> QED BY <1>1, <1>2, <1>3, <1>4, <1>5

LEMMA LockStep == LockInv /\ [Next]_vars => LockInv'
<1> SUFFICES ASSUME LockInv, [Next]_vars PROVE LockInv'
  OBVIOUS
<1>0. TypeOK'
  BY TypeStep DEF LockInv
<1>1. CASE UNCHANGED <<devLog, held>>
  BY <1>0, <1>1, LockUntouched DEF Dev
<1>2. CASE \/ \E d \in Devices : CpDevice(d) \/ Lookup(d)
           \/ \E status \in NodeStatuses : CpNode(status)
  BY <1>1, <1>2 DEF CpDevice, CpNode, Lookup, api
<1>3. CASE NodeController \/ NodeDeleted \/ RecordDeleted \/ ListRemote
  BY <1>1, <1>3 DEF NodeController, NodeStatus, Register, AddScope, Unregister, Forget,
     NodeDeleted, RecordDeleted, ListRemote, api, others, history
<1>4. CASE Manager \/ \E i \in DOMAIN streams : Stream(i) \/ Disconnect(i)
  BY <1>1, <1>4 DEF Manager, Wake, ListScopes, ReconcileStreams, goroutine, Stream, Connect,
     Disconnect, Exit, Ingest, Report, reading, api, history
<1>5. CASE PassStep
  BY <1>0, <1>5, LockPassStep
<1>6. CASE \/ DeliverNode \/ Crash
           \/ \E d \in Devices : DeliverDevice(d) \/ DeviceOps(d) \/ Collect(d)
  BY <1>0, <1>6, LockOutsideStep
<1>7. CASE UNCHANGED vars
  BY <1>1, <1>7 DEF vars, moving, api, history
<1> QED BY <1>2, <1>3, <1>4, <1>5, <1>6, <1>7, StepActors

\* The mirror takes no device's lock away while the object lives: every status it
\* writes starts from the version the API server stores (upsert, markUnobservable).
THEOREM LocksKept == Spec => []LockKept
<1>1. Init => LockInv
  <2> SUFFICES ASSUME Init PROVE LockInv
    OBVIOUS
  <2>1. held = {} /\ \A d \in Devices : Dev(d) = NoDev
    BY DEF Init, Dev, Stored
  <2>2. ~NoDev.lock
    BY DEF NoDev
  <2> QED BY <2>1, <2>2, TypeInit DEF LockInv, LockKept
<1>2. LockInv => LockKept
  BY DEF LockInv
<1> QED BY <1>1, <1>2, LockStep, PTL DEF Spec

-------------------------------------------------------------------------------
(* Devices that never left: what the control plane says of one reaches the *)
(* cache, the index and the object in this order, and none forgets it.     *)

\* No report of d that is on its way or pending takes it away.
Reported(d) ==
  /\ cp[d] # "absent"
  /\ \A i \in 1..2 : \A k \in 1..Len(streams[i].frames) :
       d \in DOMAIN streams[i].frames[k].says => streams[i].frames[k].says[d] # "absent"
  /\ \A i \in 1..2 : \A r \in streams[i].todo : r.dev = d => r.present /\ store[d] # "absent"

\* What the index has is cached, and what has an object is in the index.
Known(d) ==
  /\ d \in index => store[d] # "absent"
  /\ \A k \in 1..Len(devLog[d]) : devLog[d][k].exists => d \in index

\* A pass for d that found it is about a device of the index, and one that did not
\* meets no object.
PassKnows(d) ==
  pass.dev = d =>
    /\ pass.pc \in {"idle", "get", "write", "status"}
    /\ pass.pc # "idle" /\ pass.found # "absent" => d \in index
    /\ At("get") /\ pass.found = "absent" =>
         \A k \in 1..Len(devLog[d]) : ~devLog[d][k].exists

Steady(d) == Reported(d) /\ Known(d) /\ PassKnows(d) /\ d \notin dropped

SteadyInv == TypeOK /\ (~May("crash") => \A d \in Devices \ gone : Steady(d))

\* What a step does not touch stays steady.
LEMMA SteadyKept ==
  ASSUME NEW d, Steady(d)
  PROVE  /\ UNCHANGED <<cp, streams, store>> => Reported(d)'
         /\ UNCHANGED <<index, store, devLog>> => Known(d)'
         /\ UNCHANGED <<index, pass, devLog>> => PassKnows(d)'
         /\ UNCHANGED dropped => d \notin dropped'
  BY DEF Steady, Reported, Known, PassKnows, At

\* The control plane tells every stream of a change, and says no device is gone that
\* is not.
LEMMA SteadyCpStep ==
  ASSUME SteadyInv, NEW d \in Devices \ gone', d \notin gone, Steady(d),
         \/ \E x \in Devices : CpDevice(x)
         \/ \E status \in NodeStatuses : CpNode(status)
  PROVE  Steady(d)'
<1>0. streams \in [1..2 -> StreamObj] /\ cp \in [Devices -> Reports]
  BY TypeParts DEF SteadyInv, StreamsOK, CpOK
<1>1. ASSUME NEW x \in Devices, CpDevice(x)
      PROVE  Steady(d)'
  <2>1. PICK report \in Reports \ {cp[x]} :
        /\ cp' = [cp EXCEPT ![x] = report]
        /\ gone' = IF report = "absent" THEN gone \cup {x} ELSE gone
        /\ streams' = [i \in DOMAIN streams |->
             IF streams[i].state = "reading" /\ ~streams[i].cancelled
               THEN [streams[i] EXCEPT !.frames =
                       Append(@, [snap |-> FALSE, says |-> [y \in {x} |-> report]])]
               ELSE streams[i]]
        /\ UNCHANGED <<api, cache, work, dropped>>
    BY <1>1 DEF CpDevice
  <2> DEFINE f == [snap |-> FALSE, says |-> [y \in {x} |-> report]]
  <2>2. d = x => report # "absent"
    BY <2>1
  <2>3. d \in DOMAIN f.says => f.says[d] # "absent"
    BY <2>2
  <2>4. /\ cp' = [cp EXCEPT ![x] = report]
        /\ streams' = [i \in DOMAIN streams |->
             IF streams[i].state = "reading" /\ ~streams[i].cancelled
               THEN [streams[i] EXCEPT !.frames = Append(@, f)] ELSE streams[i]]
    BY <2>1
  <2> HIDE DEF f
  <2>5. \A i \in 1..2 : /\ streams'[i].todo = streams[i].todo
                        /\ streams[i].frames \in Seq(Frame)
                        /\ streams'[i].frames \in {streams[i].frames, Append(streams[i].frames, f)}
    <3> TAKE i \in 1..2
    <3>1. streams[i] \in StreamObj /\ streams[i].frames \in Seq(Frame)
      BY <1>0, StreamEdits
    <3>2. streams'[i] \in {streams[i], [streams[i] EXCEPT !.frames = Append(@, f)]}
      BY <1>0, <2>4
    <3> QED BY <3>1, <3>2 DEF StreamObj
  <2>6. \A i \in 1..2 : \A k \in 1..Len(streams'[i].frames) :
          streams'[i].frames[k] = f \/
            (k \in 1..Len(streams[i].frames) /\ streams'[i].frames[k] = streams[i].frames[k])
    <3> TAKE i \in 1..2
    <3>1. streams'[i].frames \in {streams[i].frames, Append(streams[i].frames, f)}
          /\ streams[i].frames \in Seq(Frame)
      BY <2>5
    <3>2. CASE streams'[i].frames = streams[i].frames
      BY <3>2
    <3>3. CASE streams'[i].frames = Append(streams[i].frames, f)
      BY <3>1, <3>3
    <3> QED BY <3>1, <3>2, <3>3
  <2>7. cp'[d] # "absent"
    BY <1>0, <2>2, <2>4 DEF Steady, Reported
  <2>8. Reported(d)'
    <3>1. ASSUME NEW i \in 1..2, NEW k \in 1..Len(streams'[i].frames),
                 d \in DOMAIN streams'[i].frames[k].says
          PROVE  streams'[i].frames[k].says[d] # "absent"
      BY <2>3, <2>6, <3>1 DEF Steady, Reported
    <3>2. \A i \in 1..2 : \A r \in streams'[i].todo :
            r.dev = d => r.present /\ store'[d] # "absent"
      BY <2>1, <2>5 DEF Steady, Reported, cache
    <3> QED BY <2>7, <3>1, <3>2 DEF Reported
  <2> QED BY <2>1, <2>8, SteadyKept DEF Steady, api, cache, work
<1>2. ASSUME NEW status \in NodeStatuses, CpNode(status)
      PROVE  Steady(d)'
  <2>1. status # "removed"
    BY <1>2 DEF CpNode
  <2> QED BY <1>2, <2>1, SteadyKept DEF CpNode, Steady, api, cache, work
<1> QED BY <1>1, <1>2

\* A stream that opens, ends or is cancelled has no frame that was not sent.
LEMMA SteadyManagerStep ==
  ASSUME SteadyInv, NEW d \in Devices \ gone, Steady(d),
         Manager \/ \E i \in DOMAIN streams : Connect(i) \/ Exit(i) \/ Disconnect(i)
  PROVE  Steady(d)'
<1>0. streams \in [1..2 -> StreamObj] /\ current \in 0..2
  BY TypeParts DEF SteadyInv, StreamsOK, ScopesOK
<1> DEFINE Sent ==
      /\ UNCHANGED <<cp, store, index, devLog, pass, dropped>>
      /\ \A i \in 1..2 : /\ streams'[i].todo \subseteq streams[i].todo
                         /\ streams'[i].frames \in
                              {streams[i].frames, <<>>, <<[snap |-> TRUE, says |-> cp]>>}
<1>1. Sent
  <2>1. CASE Wake \/ ListScopes
    BY <2>1 DEF Wake, ListScopes, goroutine, cache, api, work, history
  <2>2. CASE ReconcileStreams
    <3>1. UNCHANGED <<cp, store, index, devLog, pass, dropped>>
      BY <2>2 DEF ReconcileStreams, goroutine, cache, api, work, history
    <3>2. CASE current # 0 /\ streams' = [streams EXCEPT ![current].cancelled = TRUE]
      BY <1>0, <3>1, <3>2 DEF StreamObj
    <3>3. ASSUME NEW i \in DOMAIN streams, streams' = [streams EXCEPT ![i] = NewStream]
          PROVE  \A j \in 1..2 : /\ streams'[j].todo \subseteq streams[j].todo
                                 /\ streams'[j].frames \in {streams[j].frames, <<>>}
      BY <1>0, <3>3 DEF NewStream, StreamObj
    <3> QED BY <2>2, <3>1, <3>2, <3>3 DEF ReconcileStreams
  <2>3. ASSUME NEW i \in DOMAIN streams, Connect(i)
        PROVE  Sent
    BY <1>0, <2>3 DEF Connect, reading, cache, api, work, history, StreamObj
  <2>4. ASSUME NEW i \in DOMAIN streams, Exit(i) \/ Disconnect(i)
        PROVE  Sent
    <3>1. UNCHANGED <<cp, store, index, devLog, pass, dropped>>
      BY <2>4 DEF Exit, Disconnect, reading, cache, api, work, history
    <3>2. CASE Exit(i)
      BY <1>0, <3>1, <3>2 DEF Exit, NoStream, NewStream, StreamObj
    <3>3. CASE Disconnect(i)
      <4>1. \A j \in 1..2 : streams'[j] \in
              {streams[j], [streams[j] EXCEPT !.state = "connecting", !.frames = <<>>]}
        BY <1>0, <3>3 DEF Disconnect
      <4>2. ASSUME NEW j \in 1..2
            PROVE  /\ streams'[j].todo \subseteq streams[j].todo
                   /\ streams'[j].frames \in {streams[j].frames, <<>>}
        <5>1. streams[j] \in StreamObj
          BY <1>0
        <5> QED BY <4>1, <5>1 DEF StreamObj
      <4> QED BY <3>1, <4>2
    <3> QED BY <2>4, <3>2, <3>3
  <2> QED BY <2>1, <2>2, <2>3, <2>4 DEF Manager
<1>2. Reported(d)'
  BY <1>1 DEF Steady, Reported
<1> QED BY <1>1, <1>2, SteadyKept DEF Steady

\* A frame that speaks of d keeps it in the cache, and its report puts it in the index.
LEMMA SteadyIngestStep ==
  ASSUME SteadyInv, NEW d \in Devices \ gone, Steady(d), NEW i \in DOMAIN streams,
         Ingest(i) \/ Report(i)
  PROVE  Steady(d)'
<1>0. /\ streams \in [1..2 -> StreamObj] /\ store \in [Devices -> Reports] /\ i \in 1..2
      /\ streams[i] \in StreamObj
  BY TypeParts DEF SteadyInv, StreamsOK, CacheOK
<1>1. CASE Ingest(i)
  <2> DEFINE f == Head(streams[i].frames)  next == Applied(f)
  <2>1. streams[i].frames \in Seq(Frame) /\ streams[i].frames # <<>>
    BY <1>0, <1>1, StreamEdits DEF Ingest
  <2>2. f = streams[i].frames[1] /\ 1 \in 1..Len(streams[i].frames)
    BY <2>1
  <2>3. d \in DOMAIN f.says => f.says[d] # "absent"
    BY <1>0, <2>2 DEF Steady, Reported
  <2>4. next[d] = (IF d \in DOMAIN f.says THEN f.says[d] ELSE store[d])
    BY DEF Applied
  <2>5. store[d] # "absent" \/ d \in DOMAIN f.says => next[d] # "absent"
    BY <2>3, <2>4
  <2> DEFINE told == {x \in Devices : \/ x \in DOMAIN f.says /\ (next[x] # "absent" \/ ~f.snap)
                                      \/ store[x] # "absent" /\ next[x] = "absent"}
             t == {[dev |-> x, present |-> next[x] # "absent"] : x \in told}
  <2>6. /\ store' = next
        /\ streams' = [streams EXCEPT ![i].frames = Tail(@), ![i].todo = t]
        /\ UNCHANGED <<reading, index, work, spent>>
    BY <1>1 DEF Ingest
  <2>7. d \in told => next[d] # "absent"
    BY <2>5
  <2> HIDE DEF told, next
  <2>8. \A r \in t : r.dev = d => r.present /\ next[d] # "absent"
    <3> TAKE r \in t
    <3>1. PICK x \in told : r = [dev |-> x, present |-> next[x] # "absent"]
      OBVIOUS
    <3> QED BY <2>7, <3>1
  <2> HIDE DEF t, f
  <2>9. /\ streams'[i].todo = t /\ streams'[i].frames = Tail(streams[i].frames)
        /\ \A j \in 1..2 \ {i} : streams'[j] = streams[j]
    BY <1>0, <2>6 DEF StreamObj
  <2>10. \A k \in 1..Len(streams'[i].frames) :
           /\ k + 1 \in 1..Len(streams[i].frames)
           /\ streams'[i].frames[k] = streams[i].frames[k + 1]
    BY <2>1, <2>9
  <2>11. \A j \in 1..2 : \A k \in 1..Len(streams'[j].frames) :
           d \in DOMAIN streams'[j].frames[k].says => streams'[j].frames[k].says[d] # "absent"
    <3> TAKE j \in 1..2
    <3> TAKE k \in 1..Len(streams'[j].frames)
    <3>1. CASE j = i
      BY <2>10, <3>1 DEF Steady, Reported
    <3>2. CASE j # i
      BY <2>9, <3>2 DEF Steady, Reported
    <3> QED BY <3>1, <3>2
  <2>12. \A j \in 1..2 : \A r \in streams'[j].todo : r.dev = d => r.present /\ store'[d] # "absent"
    <3> TAKE j \in 1..2
    <3>1. CASE j = i
      BY <2>6, <2>8, <2>9, <3>1
    <3>2. CASE j # i
      BY <2>5, <2>6, <2>9, <3>2 DEF Steady, Reported
    <3> QED BY <3>1, <3>2
  <2>13. Reported(d)'
    BY <2>6, <2>11, <2>12 DEF Steady, Reported, reading
  <2>14. Known(d)'
    BY <2>5, <2>6 DEF Steady, Known, reading, api
  <2> QED BY <2>6, <2>13, <2>14, SteadyKept DEF Steady, reading, api, work, history
<1>2. CASE Report(i)
  <2>1. PICK r \in streams[i].todo :
          /\ streams' = [streams EXCEPT ![i].todo = @ \ {r}]
          /\ index' \in {Indexed(r), index}
          /\ UNCHANGED <<reading, store, synced, pass, spent>>
    BY <1>2 DEF Report
  <2>2. /\ \A j \in 1..2 : /\ streams'[j].frames = streams[j].frames
                           /\ streams'[j].todo \subseteq streams[j].todo
    BY <1>0, <2>1 DEF StreamObj
  <2>3. Reported(d)'
    BY <2>1, <2>2 DEF Steady, Reported, reading
  <2>4. r.dev = d => r.present /\ store[d] # "absent"
    BY <1>0 DEF Steady, Reported
  <2>5. d \in index => d \in index'
    BY <2>1, <2>4 DEF Indexed
  <2>6. d \in index' => store'[d] # "absent"
    BY <2>1, <2>4 DEF Indexed, Steady, Known
  <2>7. Known(d)' /\ PassKnows(d)'
    BY <2>1, <2>5, <2>6 DEF Steady, Known, PassKnows, At, reading, api
  <2> QED BY <2>1, <2>3, <2>7 DEF Steady, reading, history
<1> QED BY <1>1, <1>2

\* The mirror creates an object for a device of the index only, and finds nothing
\* missing that is in it.
LEMMA SteadyPassStep ==
  ASSUME SteadyInv, NEW d \in Devices \ gone, Steady(d),
         PassStep \/ \E x \in Devices : Lookup(x)
  PROVE  Steady(d)'
<1>0. TypeOK /\ pass \in PassObj /\ Idle.pc = "idle" /\ Idle \in PassObj
  BY TypeParts, ObjTypes DEF SteadyInv, PassOK, Idle
<1>r. UNCHANGED <<cp, streams, store, index>> /\ Reported(d)'
  BY SteadyKept DEF PassStep, Get, Upsert, FirstStatus, Unreported, DeleteDevice,
     markUnobservable, Lookup, mirror, cache
<1>e. ASSUME pass' = Idle, \A k \in 1..Len(devLog'[d]) : devLog'[d][k].exists => d \in index,
             UNCHANGED dropped
      PROVE  Steady(d)'
  BY <1>0, <1>r, <1>e DEF Steady, Known, PassKnows, At
<1>u. ASSUME pass' = Idle, UNCHANGED <<devLog, dropped>>
      PROVE  Steady(d)'
  BY <1>e, <1>u DEF Steady, Known
<1>l. ASSUME ~At("idle"), NEW v \in DevObj, Land(pass.dev, v), v.exists,
             pass.found # "absent" \/ pass.dev # d, pass.pc \in {"write", "status"} \/ pass.dev # d
      PROVE  \A k \in 1..Len(devLog'[d]) : devLog'[d][k].exists => d \in index
  <2>1. pass.dev \in Devices
    BY <1>0, <1>l, PassEdits
  <2>2. CASE pass.dev = d
    BY <1>l, <2>2 DEF Steady, PassKnows
  <2>3. CASE pass.dev # d
    BY <1>0, <1>l, <2>1, <2>3, LandEffect DEF Steady, Known
  <2> QED BY <2>2, <2>3
<1>1. ASSUME NEW x \in Devices, Lookup(x)
      PROVE  Steady(d)'
  <2>1. /\ pass'.pc = "get" /\ pass'.dev = x
        /\ pass'.found = IF x \in index THEN store[x] ELSE "absent"
        /\ UNCHANGED <<devLog, dropped>>
    BY <1>0, <1>1 DEF Lookup, PassObj
  <2>2. PassKnows(d)'
    BY <1>r, <2>1 DEF Steady, Known, PassKnows, At
  <2> QED BY <1>r, <2>1, <2>2, SteadyKept DEF Steady
<1>2. CASE Get
  <2>1. UNCHANGED <<devLog, dropped>> /\ At("get")
    BY <1>2 DEF Get
  <2>2. CASE End(FALSE) \/ End(TRUE)
    BY <1>u, <2>1, <2>2 DEF End
  <2>3. CASE /\ pass.found = "absent" /\ Cached(devLog[pass.dev]).exists
             /\ pass' = [pass EXCEPT !.pc = "unreported", !.phase = Cached(devLog[pass.dev]).phase]
    <3>1. pass.dev # d
      <4> SUFFICES ASSUME pass.dev = d PROVE FALSE
        OBVIOUS
      <4>1. Cached(devLog[d]) = devLog[d][1] /\ Len(devLog[d]) \in Nat \ {0}
        BY <1>0, DevEnds
      <4> QED BY <2>1, <2>3, <4>1 DEF Steady, PassKnows
    <3>2. pass'.dev # d
      BY <1>0, <2>3, <3>1 DEF PassObj
    <3> QED BY <1>r, <2>1, <3>2, SteadyKept DEF Steady, PassKnows
  <2>4. CASE /\ pass.found # "absent"
             /\ pass' = [pass EXCEPT !.pc = "write", !.owner = Cached(nodeLog).uid,
                                     !.phase = devicePhase(pass.found, Cached(nodeLog))]
    <3>1. pass'.dev = pass.dev /\ pass'.found = pass.found /\ pass'.pc = "write"
      BY <1>0, <2>4 DEF PassObj
    <3>2. PassKnows(d)'
      BY <1>r, <2>1, <2>4, <3>1 DEF Steady, PassKnows, At
    <3> QED BY <1>r, <2>1, <3>2, SteadyKept DEF Steady
  <2> QED BY <1>2, <2>2, <2>3, <2>4 DEF Get
<1>3. CASE Upsert
  <2>1. ~At("idle") /\ pass.pc = "write" /\ pass.found # "absent" /\ UNCHANGED dropped
    BY <1>0, <1>3, TypeParts DEF Upsert, At, PassOK
  <2>2. pass.dev \in Devices /\ Cached(devLog[pass.dev]) \in DevObj
    BY <1>0, <2>1, PassEdits, DevEnds
  <2>3. CASE UNCHANGED devLog /\ (End(FALSE) \/ End(TRUE))
    BY <1>u, <2>1, <2>3 DEF End
  <2>4. CASE /\ Land(pass.dev, [NoDev EXCEPT !.exists = TRUE, !.owner = pass.owner])
             /\ pass' = [pass EXCEPT !.pc = "status", !.fresh = TRUE]
    <3> DEFINE v == [NoDev EXCEPT !.exists = TRUE, !.owner = pass.owner]
    <3>1. v \in DevObj /\ v.exists
      BY <1>0, ObjTypes DEF DevObj, NoDev, PassObj
    <3>2. Known(d)'
      BY <1>l, <1>r, <2>1, <2>4, <3>1 DEF Steady, Known
    <3>3. pass'.dev = pass.dev /\ pass'.found = pass.found /\ pass'.pc = "status"
      BY <1>0, <2>4 DEF PassObj
    <3>4. PassKnows(d)'
      BY <1>r, <2>1, <3>3 DEF Steady, PassKnows, At
    <3> QED BY <1>r, <2>1, <3>2, <3>4 DEF Steady
  <2>5. CASE /\ Cached(devLog[pass.dev]).exists /\ End(FALSE)
             /\ Land(pass.dev, Rebuilt(Cached(devLog[pass.dev]), pass.phase))
    <3> DEFINE v == Rebuilt(Cached(devLog[pass.dev]), pass.phase)
    <3>1. v \in DevObj /\ v.exists
      BY <1>0, <2>2, <2>5, ObjTypes DEF DevObj, Rebuilt, PassObj
    <3> HIDE DEF v
    <3>2. \A k \in 1..Len(devLog'[d]) : devLog'[d][k].exists => d \in index
      BY <1>l, <2>1, <2>5, <3>1 DEF v
    <3> QED BY <1>e, <2>1, <2>5, <3>2 DEF End
  <2> QED BY <1>3, <2>3, <2>4, <2>5 DEF Upsert
<1>4. CASE FirstStatus
  <2>1. /\ ~At("idle") /\ pass.pc = "status" /\ pass.found # "absent" /\ UNCHANGED dropped
    BY <1>0, <1>4, TypeParts DEF FirstStatus, At, PassOK
  <2>2. pass.dev \in Devices
    BY <1>0, <2>1, PassEdits
  <2>3. CASE UNCHANGED devLog /\ End(TRUE)
    BY <1>u, <2>1, <2>3 DEF End
  <2>4. CASE UNCHANGED devLog /\ Goto("write")
    <3>1. pass'.dev = pass.dev /\ pass'.found = pass.found /\ pass'.pc = "write"
      BY <1>0, <2>4 DEF Goto, PassObj
    <3>2. PassKnows(d)'
      BY <1>r, <2>1, <2>4, <3>1 DEF Steady, PassKnows, At
    <3> QED BY <1>r, <2>1, <2>4, <3>2, SteadyKept DEF Steady
  <2>5. CASE End(FALSE) /\ Land(pass.dev, Rebuilt(Dev(pass.dev), pass.phase))
    <3>1. CASE pass.dev = d
      <4>1. d \in index
        BY <2>1, <3>1 DEF Steady, PassKnows
      <4> QED BY <1>e, <2>1, <2>5, <4>1 DEF End
    <3>2. CASE pass.dev # d
      <4>1. devLog'[d] = devLog[d]
        <5>1. Rebuilt(Dev(pass.dev), pass.phase) \in DevObj
          BY <1>0, <2>2, DevEnds, ObjTypes DEF PassObj
        <5> QED BY <1>0, <2>2, <2>5, <3>2, <5>1, LandEffect
      <4> QED BY <1>e, <2>1, <2>5, <4>1 DEF End, Steady, Known
    <3> QED BY <3>1, <3>2
  <2> QED BY <1>4, <2>3, <2>4, <2>5 DEF FirstStatus
<1>5. CASE Unreported
  <2>1. pass.dev # d /\ UNCHANGED <<devLog, dropped>>
    BY <1>5 DEF Unreported, At, Steady, PassKnows
  <2>2. CASE End(TRUE)
    BY <1>u, <2>1, <2>2 DEF End
  <2>3. CASE Goto("mark") \/ Goto("delete")
    <3>1. pass'.dev # d
      BY <1>0, <2>1, <2>3 DEF Goto, PassObj
    <3> QED BY <1>r, <2>1, <3>1, SteadyKept DEF Steady, PassKnows
  <2> QED BY <1>5, <2>2, <2>3 DEF Unreported
<1>6. CASE DeleteDevice \/ markUnobservable
  <2>1. pass.dev # d /\ ~At("idle") /\ pass' = Idle
    BY <1>6 DEF DeleteDevice, markUnobservable, At, Steady, PassKnows, End
  <2>2. pass.dev \in Devices /\ Cached(devLog[pass.dev]) \in DevObj
    BY <1>0, <2>1, PassEdits, DevEnds
  <2>3. Rebuilt(Cached(devLog[pass.dev]), "Unknown") \in DevObj /\ NoDev \in DevObj
    BY <2>2, ObjTypes DEF DevicePhases
  <2>4. devLog'[d] = devLog[d]
    <3>1. \/ UNCHANGED devLog
          \/ \E w \in DevObj : Land(pass.dev, w)
      BY <1>6, <2>3 DEF DeleteDevice, markUnobservable, Remove
    <3> QED BY <1>0, <2>1, <2>2, <3>1, LandEffect
  <2>5. d \notin dropped'
    BY <1>6, <2>1 DEF DeleteDevice, markUnobservable, Steady
  <2>6. Known(d)' /\ PassKnows(d)'
    BY <1>0, <1>r, <2>1, <2>4 DEF Steady, Known, PassKnows, At
  <2> QED BY <1>r, <2>5, <2>6 DEF Steady
<1> QED BY <1>1, <1>2, <1>3, <1>4, <1>5, <1>6 DEF PassStep

\* No other writer makes an object, and none makes the pass forget.
LEMMA SteadyOutsideStep ==
  ASSUME SteadyInv, NEW d \in Devices \ gone, Steady(d),
         \/ DeliverNode
         \/ \E x \in Devices : DeliverDevice(x) \/ DeviceOps(x) \/ Collect(x)
  PROVE  Steady(d)'
<1>0. TypeOK
  BY DEF SteadyInv
<1>r. UNCHANGED <<cp, streams, store, index, dropped>> /\ Reported(d)'
  BY SteadyKept DEF DeliverNode, DeliverDevice, DeviceOps, Collect, outside, cache
<1>1. CASE DeliverNode
  BY <1>r, <1>1, SteadyKept DEF DeliverNode, Steady
<1>f. /\ Len(devLog[d]) \in Nat \ {0} /\ Dev(d) = devLog[d][Len(devLog[d])]
  BY <1>0, DevEnds
<1>k. ASSUME \A k \in 1..Len(devLog'[d]) : devLog'[d][k].exists =>
               \E l \in 1..Len(devLog[d]) : devLog[d][l].exists,
             pass'.pc = pass.pc, pass'.dev = pass.dev, pass'.found = pass.found
      PROVE  Steady(d)'
  <2>1. Known(d)'
    BY <1>r, <1>k DEF Steady, Known
  <2>2. PassKnows(d)'
    BY <1>r, <1>k DEF Steady, PassKnows, At
  <2> QED BY <1>r, <2>1, <2>2 DEF Steady
<1>2. ASSUME NEW x \in Devices, DeliverDevice(x)
      PROVE  Steady(d)'
  <2>1. /\ x # d => devLog'[d] = devLog[d]
        /\ x = d => /\ Len(devLog'[d]) = Len(devLog[d]) - 1
                    /\ \A k \in 1..Len(devLog'[d]) : devLog'[d][k] = devLog[d][k + 1]
    BY <1>0, <1>2, DeliverDeviceEffect
  <2>2. \A k \in 1..Len(devLog'[d]) : devLog'[d][k].exists =>
               \E l \in 1..Len(devLog[d]) : devLog[d][l].exists
    <3>1. CASE x # d
      BY <2>1, <3>1
    <3>2. CASE x = d
      <4> TAKE k \in 1..Len(devLog'[d])
      <4>1. k + 1 \in 1..Len(devLog[d]) /\ devLog'[d][k] = devLog[d][k + 1]
        BY <1>f, <2>1, <3>2
      <4> QED BY <4>1
    <3> QED BY <3>1, <3>2
  <2> QED BY <1>2, <1>k, <2>2 DEF DeliverDevice
<1>3. ASSUME NEW x \in Devices, NEW v \in DevObj, Land(x, v), Disturb(x),
             v.exists => Dev(x).exists
      PROVE  Steady(d)'
  <2>1. pass'.pc = pass.pc /\ pass'.dev = pass.dev /\ pass'.found = pass.found
    BY <1>0, <1>3, DisturbEffect
  <2>2. \A k \in 1..Len(devLog'[d]) : devLog'[d][k].exists =>
               \E l \in 1..Len(devLog[d]) : devLog[d][l].exists
    <3>1. CASE x # d
      <4>1. devLog'[d] = devLog[d]
        BY <1>0, <1>3, <3>1, LandEffect
      <4> QED BY <4>1
    <3>2. CASE x = d
      <4>1. /\ Len(devLog'[d]) = Len(devLog[d]) + 1 /\ devLog'[d][Len(devLog[d]) + 1] = v
            /\ \A k \in 1..Len(devLog[d]) : devLog'[d][k] = devLog[d][k]
        BY <1>0, <1>3, <3>2, LandEffect
      <4> TAKE k \in 1..Len(devLog'[d])
      <4>2. CASE k = Len(devLog[d]) + 1
        BY <1>3, <1>f, <3>2, <4>1, <4>2
      <4>3. CASE k \in 1..Len(devLog[d])
        BY <4>1, <4>3
      <4> QED BY <1>f, <4>1, <4>2, <4>3
    <3> QED BY <3>1, <3>2
  <2> QED BY <1>k, <2>1, <2>2
<1>4. ASSUME NEW x \in Devices, DeviceOps(x)
      PROVE  Steady(d)'
  <2> DEFINE v == [Dev(x) EXCEPT !.lock = ~@]
  <2>1. v \in DevObj /\ v.exists = Dev(x).exists
    BY <1>0, DevEnds DEF DevObj
  <2>2. Land(x, v) /\ Disturb(x)
    BY <1>4 DEF DeviceOps
  <2> HIDE DEF v
  <2> QED BY <1>3, <2>1, <2>2
<1>5. ASSUME NEW x \in Devices, Collect(x)
      PROVE  Steady(d)'
  <2>1. NoDev \in DevObj /\ ~NoDev.exists
    BY ObjTypes DEF NoDev
  <2> QED BY <1>3, <1>5, <2>1 DEF Collect, Remove
<1> QED BY <1>1, <1>2, <1>4, <1>5

LEMMA SteadyStep == SteadyInv /\ [Next]_vars => SteadyInv'
<1> SUFFICES ASSUME SteadyInv, [Next]_vars PROVE SteadyInv'
  OBVIOUS
<1>0. TypeOK'
  BY TypeStep DEF SteadyInv
<1>1. env' = env
  BY DEF Next, vars
<1>2. SUFFICES ASSUME ~May("crash"), NEW d \in Devices \ gone'
               PROVE  Steady(d)'
  BY <1>0, <1>1 DEF SteadyInv, May
<1>3. CASE UNCHANGED vars
  <2>1. UNCHANGED <<cp, streams, store, index, devLog, pass, gone, dropped>>
    BY <1>3 DEF vars, moving, api, cache, work, history
  <2>2. Steady(d)
    BY <1>2, <2>1 DEF SteadyInv
  <2> QED BY <2>1, <2>2, SteadyKept DEF Steady
<1>4. CASE Next
  <2>1. d \notin gone
    <3>1. gone \subseteq Devices
      BY TypeParts DEF SteadyInv, HistoryOK
    <3>2. CASE \/ \E x \in Devices : CpDevice(x)
               \/ \E status \in NodeStatuses : CpNode(status)
      BY <3>1, <3>2 DEF CpDevice, CpNode
    <3>3. CASE gone' = gone
      BY <3>3
    <3>4. CASE Crash
      BY <1>2, <3>4 DEF Crash
    <3> QED
      BY <1>4, <3>2, <3>3, <3>4, StepActors DEF NodeController, NodeStatus, Register, AddScope,
         Unregister, Forget, NodeDeleted, RecordDeleted, ListRemote, others, Manager, Wake,
         ListScopes, ReconcileStreams, goroutine, Stream, Connect, Disconnect, Exit, Ingest,
         Report, reading, PassStep, Get, Upsert, FirstStatus, Unreported, DeleteDevice,
         markUnobservable, Lookup, mirror, DeliverNode, DeliverDevice, DeviceOps, Collect,
         outside, history
  <2>2. Steady(d)
    BY <1>2, <2>1 DEF SteadyInv
  <2>3. CASE NodeController \/ NodeDeleted \/ RecordDeleted \/ ListRemote
    <3>1. UNCHANGED <<cp, streams, cache, devLog, pass, dropped>>
      BY <2>3 DEF NodeController, NodeStatus, Register, AddScope, Unregister, Forget,
         NodeDeleted, RecordDeleted, ListRemote, api, others, history, work
    <3> QED BY <2>2, <3>1, SteadyKept DEF Steady, cache
  <2>4. CASE Crash
    BY <1>2, <2>4 DEF Crash
  <2> QED
    BY <1>2, <1>4, <2>1, <2>2, <2>3, <2>4, StepActors, SteadyCpStep, SteadyManagerStep,
       SteadyIngestStep, SteadyPassStep, SteadyOutsideStep DEF Stream
<1> QED BY <1>3, <1>4

\* An operator that keeps running deletes no object of a device the control plane
\* never stopped reporting, through reconnects, node outages and re-registrations.
THEOREM DevicesKept == Spec => []KeptUnlessGone
<1>1. Init => SteadyInv
  <2> SUFFICES ASSUME Init, NEW d \in Devices \ gone
               PROVE  Steady(d)
    BY TypeInit DEF SteadyInv
  <2>1. /\ streams = [i \in 1..2 |-> NoStream] /\ index = {} /\ pass = Idle
        /\ gone = {x \in Devices : cp[x] = "absent"} /\ dropped = {}
        /\ devLog = [x \in Devices |-> <<NoDev>>]
    BY Zenon DEF Init
  <2>2. Reported(d)
    BY <2>1 DEF Reported, NoStream, NewStream
  <2>3. Known(d)
    <3>1. devLog[d] = <<NoDev>> /\ ~NoDev.exists
      BY <2>1 DEF NoDev
    <3>2. \A k \in 1..Len(<<NoDev>>) : <<NoDev>>[k] = NoDev
      OBVIOUS
    <3> QED BY <2>1, <3>1, <3>2 DEF Known
  <2>4. PassKnows(d)
    BY <2>1 DEF PassKnows, At, Idle
  <2> QED BY <2>1, <2>2, <2>3, <2>4 DEF Steady
<1>2. SteadyInv => KeptUnlessGone
  <2>1. TypeOK => dropped \subseteq Devices
    BY TypeParts DEF HistoryOK
  <2> QED BY <2>1 DEF SteadyInv, Steady, KeptUnlessGone
<1> QED BY <1>1, <1>2, SteadyStep, PTL DEF Spec

-------------------------------------------------------------------------------
(* The index: a node is named before its first stream opens and forgotten  *)
(* after the last one was asked for, so one goroutine at a time writes the *)
(* cache and the index, and it names what it writes.                       *)

\* A deletion of the object follows the node's removal, and is never undone.
DeletedForGood ==
  /\ \A k \in 1..Len(nodeLog) :
       nodeLog[k].deleted \/ nodeLog[k].status = "removed" => cpNode = "removed"
  /\ \A k, l \in 1..Len(nodeLog) : k <= l /\ nodeLog[k].deleted => nodeLog[l].deleted

\* Nobody has asked for a stream, and none has run.
Pristine ==
  /\ ~wanted /\ ~manager.want /\ current = 0
  /\ streams = [i \in 1..2 |-> NoStream]
  /\ store = [d \in Devices |-> "absent"] /\ index = {}

\* Where the StorageNode controller is between the name and the scope.
ScopeFollowsName ==
  /\ ~registered /\ ~Cached(nodeLog).deleted => Pristine /\ nodeStep = ""
  /\ nodeStep = "add" => registered /\ Pristine
  /\ nodeStep = "forget" => Cached(nodeLog).deleted /\ ~wanted
  /\ registered /\ nodeStep = "" => wanted

Busy(i) == streams[i].state # "free"

\* One goroutine at a time: the last one is cancelled when no other will be asked for.
OneStream ==
  /\ \A i, j \in 1..2 : Busy(i) /\ Busy(j) => i = j
  /\ current # 0 => Busy(current) /\ ~streams[current].cancelled /\ (wanted => manager.want)
  /\ current = 0 /\ (\E i \in 1..2 : Busy(i)) => ~wanted /\ ~manager.want

FreeIsEmpty == \A i \in 1..2 : ~Busy(i) => streams[i].todo = {}

\* What is still to be reported of d is what the cache has, and with nothing to report
\* the index agrees with the cache.
Agrees(d) ==
  /\ \A i \in 1..2 : \A r \in streams[i].todo : r.dev = d => (r.present <=> store[d] # "absent")
  /\ (\A i \in 1..2 : \A r \in streams[i].todo : r.dev # d)
       => (d \in index <=> store[d] # "absent")

Listed == DeletedForGood /\ ScopeFollowsName
Indexing == registered => OneStream /\ \A d \in Devices : Agrees(d)

IndexInv == TypeOK /\ (~May("foreground") => FreeIsEmpty /\ Listed /\ Indexing)

LEMMA PristineKept ==
  UNCHANGED <<wanted, current, streams, store, index>> /\ manager'.want = manager.want /\ Pristine
    => Pristine'
  BY DEF Pristine

\* What a step does not touch keeps its part.
LEMMA IndexKept ==
  /\ UNCHANGED <<cpNode, nodeLog>> /\ DeletedForGood => DeletedForGood'
  /\ UNCHANGED <<nodeLog, nodeStep, registered, wanted, manager, current, streams, store, index>>
       => (ScopeFollowsName => ScopeFollowsName')
  /\ UNCHANGED <<wanted, manager, current, streams>> /\ OneStream => OneStream'
  /\ UNCHANGED streams /\ FreeIsEmpty => FreeIsEmpty'
  /\ UNCHANGED <<streams, store, index>> => \A d \in Devices : Agrees(d) => Agrees(d)'
<1>1. UNCHANGED <<cpNode, nodeLog>> /\ DeletedForGood => DeletedForGood'
  BY DEF DeletedForGood
<1>2. UNCHANGED <<nodeLog, nodeStep, registered, wanted, manager, current, streams, store, index>>
        => (ScopeFollowsName => ScopeFollowsName')
  <2> SUFFICES ASSUME UNCHANGED <<nodeLog, nodeStep, registered, wanted, manager, current,
                                  streams, store, index>>,
                      ScopeFollowsName
               PROVE  ScopeFollowsName'
    OBVIOUS
  <2>1. Pristine => Pristine'
    BY PristineKept
  <2> QED BY <2>1 DEF ScopeFollowsName
<1>3. UNCHANGED <<wanted, manager, current, streams>> /\ OneStream => OneStream'
  BY DEF OneStream, Busy
<1>4. UNCHANGED streams /\ FreeIsEmpty => FreeIsEmpty'
  BY DEF FreeIsEmpty, Busy
<1>5. UNCHANGED <<streams, store, index>> => \A d \in Devices : Agrees(d) => Agrees(d)'
  BY DEF Agrees
<1> QED BY <1>1, <1>2, <1>3, <1>4, <1>5

\* Before the first stream the index and the cache agree: both are empty.
LEMMA PristineAgrees ==
  Pristine => OneStream /\ \A d \in Devices : Agrees(d)
  BY DEF Pristine, OneStream, Busy, NoStream, NewStream, Agrees

\* A write of the node's object that takes no deletion back.
LEMMA DeletedWritten ==
  ASSUME TypeOK, DeletedForGood, NEW v \in NodeObj, WriteNode(v), UNCHANGED cpNode,
         v.deleted \/ v.status = "removed" => cpNode = "removed",
         v.deleted \/ \A k \in 1..Len(nodeLog) : ~nodeLog[k].deleted
  PROVE  DeletedForGood' /\ Cached(nodeLog') = Cached(nodeLog)
<1>1. /\ Cached(nodeLog') = Cached(nodeLog) /\ Len(nodeLog') = Len(nodeLog) + 1
      /\ nodeLog'[Len(nodeLog) + 1] = v /\ \A k \in 1..Len(nodeLog) : nodeLog'[k] = nodeLog[k]
      /\ Len(nodeLog) \in Nat
  BY WriteNodeEffect, NodeEnds
<1>2. \A k \in 1..Len(nodeLog') : k \in 1..Len(nodeLog) \/ k = Len(nodeLog) + 1
  BY <1>1
<1>3. ASSUME NEW k \in 1..Len(nodeLog'), nodeLog'[k].deleted \/ nodeLog'[k].status = "removed"
      PROVE  cpNode' = "removed"
  BY <1>1, <1>2, <1>3 DEF DeletedForGood
<1>4. ASSUME NEW k \in 1..Len(nodeLog'), NEW l \in 1..Len(nodeLog'), k <= l,
             nodeLog'[k].deleted
      PROVE  nodeLog'[l].deleted
  <2>1. CASE l \in 1..Len(nodeLog)
    <3>1. k \in 1..Len(nodeLog)
      BY <1>1, <1>4, <2>1
    <3> QED BY <1>1, <1>4, <2>1, <3>1 DEF DeletedForGood
  <2>2. CASE l = Len(nodeLog) + 1
    BY <1>1, <1>2, <1>4, <2>2
  <2> QED BY <1>2, <2>1, <2>2
<1> QED BY <1>1, <1>3, <1>4 DEF DeletedForGood

\* Frames that come and connections that end: the goroutines and what they report stay.
LEMMA IndexStreamsShift ==
  ASSUME FreeIsEmpty, ScopeFollowsName, Indexing, DeletedForGood',
         UNCHANGED <<nodeLog, nodeStep, registered, wanted, manager, current, store, index>>,
         streams \in [1..2 -> StreamObj], streams' \in [1..2 -> StreamObj], current \in 0..2,
         \A i \in 1..2 : /\ (streams'[i].state = "free") <=> (streams[i].state = "free")
                         /\ streams'[i].todo = streams[i].todo
                         /\ streams'[i].cancelled = streams[i].cancelled
                         /\ streams[i].state = "free" => streams'[i] = streams[i]
  PROVE  FreeIsEmpty' /\ Listed' /\ Indexing'
<1>1. FreeIsEmpty'
  BY DEF FreeIsEmpty, Busy
<1>2. Pristine => Pristine'
  <2> SUFFICES ASSUME Pristine PROVE Pristine'
    OBVIOUS
  <2>1. streams' = streams
    BY DEF Pristine, NoStream, NewStream
  <2> QED BY <2>1, PristineKept
<1>3. ScopeFollowsName'
  BY <1>2 DEF ScopeFollowsName
<1>4. OneStream => OneStream'
  BY DEF OneStream, Busy
<1>5. \A d \in Devices : Agrees(d) => Agrees(d)'
  BY DEF Agrees
<1> QED BY <1>1, <1>3, <1>4, <1>5 DEF Listed, Indexing

\* The StorageNode controller names the node before it asks for the stream, and
\* forgets the name after it stopped asking.
LEMMA IndexNodeStep ==
  ASSUME TypeOK, Listed, Indexing, ~May("foreground"),
         NodeController \/ NodeDeleted \/ RecordDeleted \/ ListRemote
  PROVE  Listed' /\ Indexing'
<1> USE DEF Listed
<1>0. /\ Node \in NodeObj /\ Node = nodeLog[Len(nodeLog)] /\ Len(nodeLog) \in 1..Len(nodeLog)
      /\ nodeLog \in Seq(NodeObj)
  BY NodeEnds
<1>1. /\ UNCHANGED <<cpNode, manager, current, streams, store, index>>
  BY DEF NodeController, NodeStatus, Register, AddScope, Unregister, Forget, NodeDeleted,
     RecordDeleted, ListRemote, others, cache
<1>2. CASE UNCHANGED <<nodeStep, scopes>> /\ (NodeStatus \/ NodeDeleted \/ RecordDeleted \/ ListRemote)
  <2>1. PICK v \in NodeObj :
          /\ WriteNode(v)
          /\ v.deleted \/ v.status = "removed" => cpNode = "removed"
          /\ v.deleted \/ \A k \in 1..Len(nodeLog) : ~nodeLog[k].deleted
    <3>1. Node.deleted \/ \A k \in 1..Len(nodeLog) : ~nodeLog[k].deleted
      BY <1>0 DEF DeletedForGood
    <3>2. Node.deleted \/ Node.status = "removed" => cpNode = "removed"
      BY <1>0 DEF DeletedForGood
    <3>3. CASE NodeStatus
      <4> DEFINE v == [Node EXCEPT !.status = cpNode]
      <4>1. v \in NodeObj /\ v.deleted = Node.deleted /\ v.status = cpNode
        BY <1>0, TypeParts DEF NodeObj, CpOK
      <4>2. WriteNode(v)
        BY <3>3 DEF NodeStatus
      <4> HIDE DEF v
      <4> QED BY <3>1, <3>2, <4>1, <4>2
    <3>4. CASE NodeDeleted
      <4> DEFINE v == [Node EXCEPT !.deleted = TRUE]
      <4>1. v \in NodeObj /\ v.deleted /\ v.status = Node.status
        BY <1>0 DEF NodeObj
      <4>2. WriteNode(v) /\ Node.status = "removed"
        BY <3>4 DEF NodeDeleted
      <4> HIDE DEF v
      <4> QED BY <3>2, <4>1, <4>2
    <3>5. CASE RecordDeleted
      <4> DEFINE v == [Node EXCEPT !.exists = FALSE]
      <4>1. v \in NodeObj /\ v.deleted = Node.deleted /\ v.status = Node.status
        BY <1>0 DEF NodeObj
      <4>2. WriteNode(v)
        BY <3>5 DEF RecordDeleted
      <4> HIDE DEF v
      <4> QED BY <3>1, <3>2, <4>1, <4>2
    <3>6. CASE ListRemote
      <4> DEFINE v == [exists |-> TRUE, deleted |-> FALSE, status |-> cpNode, uid |-> Node.uid + 1]
      <4>1. v \in NodeObj /\ ~v.deleted /\ v.status = cpNode
        BY <1>0, <3>6, Bounds, TypeParts DEF NodeObj, CpOK, ListRemote
      <4>2. WriteNode(v) /\ cpNode # "removed"
        BY <3>6 DEF ListRemote
      <4>3. \A k \in 1..Len(nodeLog) : ~nodeLog[k].deleted
        BY <4>2 DEF DeletedForGood
      <4> HIDE DEF v
      <4> QED BY <4>1, <4>2, <4>3
    <3> QED BY <1>2, <3>3, <3>4, <3>5, <3>6
  <2>2. DeletedForGood' /\ Cached(nodeLog') = Cached(nodeLog)
    BY <1>1, <2>1, DeletedWritten
  <2>3. ScopeFollowsName'
    BY <1>1, <1>2, <2>2 DEF ScopeFollowsName, Pristine, scopes
  <2> QED BY <1>1, <1>2, <2>2, <2>3, IndexKept DEF Indexing, scopes
<1>3. CASE Register
  <2>1. Pristine /\ ~registered
    BY <1>3 DEF Register, ScopeFollowsName
  <2>2. Pristine' /\ registered' /\ nodeStep' = "add" /\ UNCHANGED nodeLog
    BY <1>1, <1>3, <2>1 DEF Register, Pristine, api
  <2>3. OneStream' /\ \A d \in Devices : Agrees(d)'
    BY <2>1, <1>1, <1>3, PristineAgrees, IndexKept DEF Register
  <2> QED BY <1>1, <2>2, <2>3, IndexKept DEF ScopeFollowsName, Indexing
<1>4. CASE AddScope
  <2>1. Pristine /\ registered
    BY <1>4 DEF AddScope, ScopeFollowsName
  <2>2. wanted' /\ registered' /\ nodeStep' = "" /\ UNCHANGED nodeLog
    BY <1>4, <2>1 DEF AddScope, SetScope, api
  <2>3. OneStream'
    BY <1>1, <2>1 DEF Pristine, OneStream, Busy, NoStream, NewStream
  <2>4. \A d \in Devices : Agrees(d)'
    BY <1>1, <2>1, PristineAgrees, IndexKept
  <2> QED BY <1>1, <2>2, <2>3, <2>4, IndexKept DEF ScopeFollowsName, Indexing
<1>5. CASE Unregister
  <2>1. ~wanted' /\ nodeStep' = "forget" /\ UNCHANGED <<nodeLog, registered>> /\ Cached(nodeLog).deleted
    BY <1>5 DEF Unregister, SetScope, api
  <2>2. OneStream => OneStream'
    BY <1>1, <2>1 DEF OneStream, Busy
  <2>3. ScopeFollowsName'
    BY <2>1 DEF ScopeFollowsName
  <2>4. Indexing'
    BY <1>1, <2>1, <2>2, IndexKept DEF Indexing
  <2> QED BY <1>1, <2>1, <2>3, <2>4, IndexKept
<1>6. CASE Forget
  <2>1. ~registered' /\ nodeStep' = "" /\ Cached(nodeLog).deleted
    BY <1>6 DEF Forget, ScopeFollowsName
  <2>2. DeletedForGood' /\ Cached(nodeLog') = Cached(nodeLog)
    <3>1. CASE UNCHANGED nodeLog
      BY <1>1, <3>1, IndexKept
    <3>2. CASE Current(nodeLog) /\ WriteNode([Node EXCEPT !.exists = FALSE])
      <4> DEFINE v == [Node EXCEPT !.exists = FALSE]
      <4>1. v \in NodeObj /\ v.deleted = Node.deleted /\ v.status = Node.status
        BY <1>0 DEF NodeObj
      <4>2. Node.deleted /\ (Node.deleted \/ Node.status = "removed" => cpNode = "removed")
        <5>1. Cached(nodeLog) = nodeLog[1] /\ 1 \in 1..Len(nodeLog)
          BY NodeEnds
        <5>2. 1 <= Len(nodeLog)
          BY <5>1
        <5> QED BY <1>0, <2>1, <5>1, <5>2 DEF DeletedForGood
      <4>3. WriteNode(v)
        BY <3>2
      <4> HIDE DEF v
      <4> QED BY <1>1, <4>1, <4>2, <4>3, DeletedWritten
    <3> QED BY <1>6, <3>1, <3>2 DEF Forget
  <2> QED BY <2>1, <2>2 DEF ScopeFollowsName, Indexing
<1>7. NodeStatus \/ NodeDeleted \/ RecordDeleted \/ ListRemote => UNCHANGED <<nodeStep, scopes>>
  BY DEF NodeStatus, NodeDeleted, RecordDeleted, ListRemote
<1> QED BY <1>2, <1>3, <1>4, <1>5, <1>6, <1>7 DEF NodeController

\* The manager opens a stream when none is left, and the last one stays the last.
LEMMA IndexManagerStep ==
  ASSUME TypeOK, FreeIsEmpty, Listed, Indexing, Manager
  PROVE  FreeIsEmpty' /\ Listed' /\ Indexing'
<1>0. /\ streams \in [1..2 -> StreamObj] /\ current \in 0..2
      /\ UNCHANGED <<cpNode, nodeLog, nodeStep, registered, wanted, store, index>>
  BY TypeParts DEF StreamsOK, ScopesOK, Manager, Wake, ListScopes, ReconcileStreams,
     goroutine, api, cache
<1>s. ASSUME manager'.want = manager.want, UNCHANGED <<current, streams>>
      PROVE  FreeIsEmpty' /\ Listed' /\ Indexing'
  <2>1. ScopeFollowsName'
    BY <1>0, <1>s, PristineKept DEF Listed, ScopeFollowsName
  <2>2. OneStream => OneStream'
    BY <1>0, <1>s DEF OneStream, Busy
  <2> QED BY <1>0, <1>s, <2>1, <2>2, IndexKept DEF Listed, Indexing
<1>1. CASE Wake
  <2>1. manager'.want = manager.want /\ UNCHANGED <<current, streams>>
    BY <1>1, TypeParts DEF Wake, ScopesOK
  <2> QED BY <1>s, <2>1
<1>2. CASE ListScopes
  <2>1. manager'.want = wanted /\ UNCHANGED <<current, streams>>
    BY <1>2 DEF ListScopes
  <2>2. ScopeFollowsName'
    <3>1. Pristine => Pristine'
      BY <1>0, <2>1 DEF Pristine
    <3> QED BY <1>0, <3>1 DEF Listed, ScopeFollowsName
  <2>3. OneStream => OneStream'
    BY <1>0, <2>1 DEF OneStream, Busy
  <2> QED BY <1>0, <2>1, <2>2, <2>3, IndexKept DEF Listed, Indexing
<1>3. CASE ReconcileStreams
  <2>0. manager'.want = manager.want
    BY <1>3, TypeParts DEF ReconcileStreams, ScopesOK
  <2>1. CASE UNCHANGED <<current, streams>>
    BY <1>s, <2>0, <2>1
  <2>2. CASE /\ ~manager.want /\ current # 0 /\ current' = 0
             /\ streams' = [streams EXCEPT ![current].cancelled = TRUE]
    <3>1. \A i \in 1..2 : /\ streams'[i].state = streams[i].state
                          /\ streams'[i].todo = streams[i].todo
      BY <1>0, <2>2 DEF StreamObj
    <3>2. FreeIsEmpty' /\ \A d \in Devices : Agrees(d) => Agrees(d)'
      BY <1>0, <3>1 DEF FreeIsEmpty, Busy, Agrees
    <3>3. ScopeFollowsName'
      BY <1>0, <2>2 DEF Listed, ScopeFollowsName, Pristine
    <3>4. ASSUME registered, OneStream
          PROVE  OneStream' 
      BY <1>0, <2>0, <2>2, <3>1, <3>4 DEF OneStream, Busy
    <3> QED BY <1>0, <3>2, <3>3, <3>4, IndexKept DEF Listed, Indexing
  <2>3. ASSUME manager.want, current = 0, NEW i \in DOMAIN streams, ~Busy(i), current' = i,
               streams' = [streams EXCEPT ![i] = NewStream]
        PROVE  FreeIsEmpty' /\ Listed' /\ Indexing'
    <3>1. /\ streams'[i] = NewStream /\ \A j \in 1..2 \ {i} : streams'[j] = streams[j]
          /\ i \in 1..2 /\ streams[i].todo = {}
      BY <1>0, <2>3 DEF FreeIsEmpty
    <3>2. \A j \in 1..2 : streams'[j].todo = streams[j].todo
      <4>1. NewStream.todo = {}
        BY DEF NewStream
      <4> QED BY <3>1, <4>1
    <3>3. FreeIsEmpty' /\ \A d \in Devices : Agrees(d) => Agrees(d)'
      BY <1>0, <3>1, <3>2 DEF FreeIsEmpty, Busy, Agrees, NewStream
    <3>4. ScopeFollowsName'
      BY <1>0, <2>3 DEF Listed, ScopeFollowsName, Pristine
    <3>5. ASSUME registered, OneStream
          PROVE  OneStream'
      <4>1. \A j \in 1..2 : ~Busy(j)
        BY <2>3, <3>5 DEF OneStream
      <4>2. Busy(i)' /\ \A j \in 1..2 \ {i} : ~Busy(j)'
        BY <3>1, <4>1 DEF Busy, NewStream
      <4>3. ~streams'[i].cancelled /\ current' # 0
        BY <1>0, <2>3, <3>1 DEF NewStream
      <4> QED BY <1>0, <2>0, <2>3, <3>1, <4>2, <4>3 DEF OneStream
    <3> QED BY <1>0, <3>3, <3>4, <3>5, IndexKept DEF Listed, Indexing
  <2> QED BY <1>3, <2>1, <2>2, <2>3 DEF ReconcileStreams, Busy
<1> QED BY <1>1, <1>2, <1>3 DEF Manager

\* A stream names what it writes, and no other writes meanwhile.
LEMMA IndexStreamStep ==
  ASSUME TypeOK, FreeIsEmpty, Listed, Indexing, NEW i \in DOMAIN streams,
         Stream(i) \/ Disconnect(i)
  PROVE  FreeIsEmpty' /\ Listed' /\ Indexing'
<1>0. /\ streams \in [1..2 -> StreamObj] /\ current \in 0..2 /\ i \in 1..2
      /\ streams[i] \in StreamObj /\ store \in [Devices -> Reports]
      /\ UNCHANGED <<cpNode, nodeLog, nodeStep, registered, wanted, manager, current>>
  BY TypeParts DEF StreamsOK, ScopesOK, CacheOK, Stream, Connect, Exit, Ingest, Report,
     Disconnect, reading, api, scopes
<1>1. Busy(i)
  <2>1. Report(i) => streams[i].todo # {}
    BY DEF Report
  <2> QED BY <1>0, <2>1 DEF Stream, Connect, Exit, Ingest, Disconnect, Busy, FreeIsEmpty
<1>2. ~Pristine /\ UNCHANGED <<cpNode, nodeLog>>
  BY <1>0, <1>1 DEF Pristine, Busy, NoStream, NewStream
<1>3. Listed'
  BY <1>0, <1>2, IndexKept DEF Listed, ScopeFollowsName
<1>4. CASE Connect(i) \/ Exit(i) \/ Disconnect(i)
  <2>1. /\ UNCHANGED <<store, index>>
        /\ \A j \in 1..2 \ {i} : streams'[j] = streams[j]
        /\ streams'[i].todo = streams[i].todo
        /\ \/ Busy(i)' /\ streams'[i].cancelled = streams[i].cancelled
           \/ streams[i].cancelled /\ streams'[i].todo = {}
    <3>1. CASE Connect(i)
      BY <1>0, <3>1 DEF Connect, StreamObj, Busy, cache
    <3>2. CASE Exit(i)
      BY <1>0, <3>2 DEF Exit, StreamObj, NoStream, NewStream, cache
    <3>3. CASE Disconnect(i)
      BY <1>0, <3>3 DEF Disconnect, StreamObj, Busy, cache
    <3> QED BY <1>4, <3>1, <3>2, <3>3
  <2>2. FreeIsEmpty'
    BY <1>0, <2>1 DEF FreeIsEmpty, Busy
  <2>3. \A d \in Devices : Agrees(d) => Agrees(d)'
    BY <1>0, <2>1 DEF Agrees
  <2>4. OneStream => OneStream'
    BY <1>0, <1>1, <2>1 DEF OneStream, Busy
  <2> QED BY <1>0, <1>3, <2>2, <2>3, <2>4 DEF Indexing
<1>5. CASE Ingest(i)
  <2> DEFINE f == Head(streams[i].frames)  next == Applied(f)
             told == {x \in Devices : \/ x \in DOMAIN f.says /\ (next[x] # "absent" \/ ~f.snap)
                                      \/ store[x] # "absent" /\ next[x] = "absent"}
             t == {[dev |-> x, present |-> next[x] # "absent"] : x \in told}
  <2>1. /\ store' = next
        /\ streams' = [streams EXCEPT ![i].frames = Tail(@), ![i].todo = t]
        /\ UNCHANGED index /\ streams[i].todo = {}
    BY <1>5 DEF Ingest
  <2>2. \A d \in Devices : d \notin told => (next[d] # "absent" <=> store[d] # "absent")
    BY DEF Applied
  <2> HIDE DEF told, next
  <2>3. /\ \A r \in t : r.dev \in told /\ (r.present <=> next[r.dev] # "absent")
        /\ \A d \in told : \E r \in t : r.dev = d
    <3>1. ASSUME NEW r \in t
          PROVE  r.dev \in told /\ (r.present <=> next[r.dev] # "absent")
      <4>1. PICK x \in told : r = [dev |-> x, present |-> next[x] # "absent"]
        OBVIOUS
      <4> QED BY <4>1
    <3>2. ASSUME NEW d \in told
          PROVE  \E r \in t : r.dev = d
      <4>1. [dev |-> d, present |-> next[d] # "absent"] \in t
        OBVIOUS
      <4> QED BY <4>1
    <3> QED BY <3>1, <3>2
  <2> HIDE DEF t, f
  <2>4. /\ streams'[i].todo = t /\ streams'[i].state = streams[i].state
        /\ streams'[i].cancelled = streams[i].cancelled
        /\ \A j \in 1..2 \ {i} : streams'[j] = streams[j]
    BY <1>0, <2>1 DEF StreamObj
  <2>5. FreeIsEmpty'
    BY <1>0, <1>1, <2>4 DEF FreeIsEmpty, Busy
  <2>6. OneStream => OneStream'
    BY <1>0, <2>4 DEF OneStream, Busy
  <2>7. ASSUME OneStream, NEW d \in Devices, Agrees(d)
        PROVE  Agrees(d)'
    <3>1. \A j \in 1..2 : streams[j].todo = {} /\ (j # i => streams'[j].todo = {})
      BY <1>0, <1>1, <2>1, <2>4, <2>7 DEF OneStream, FreeIsEmpty
    <3>2. d \in index <=> store[d] # "absent"
      BY <2>7, <3>1 DEF Agrees
    <3>3. CASE d \in told
      BY <1>0, <2>1, <2>3, <2>4, <3>1, <3>3 DEF Agrees
    <3>4. CASE d \notin told
      BY <1>0, <2>1, <2>2, <2>3, <2>4, <3>1, <3>2, <3>4 DEF Agrees
    <3> QED BY <3>3, <3>4
  <2> QED BY <1>0, <1>3, <2>5, <2>6, <2>7 DEF Indexing
<1>6. CASE Report(i)
  <2>1. PICK r \in streams[i].todo :
          /\ streams' = [streams EXCEPT ![i].todo = @ \ {r}]
          /\ registered => index' = Indexed(r)
          /\ UNCHANGED store
    BY <1>6 DEF Report
  <2>2. r \in [dev : Devices, present : BOOLEAN]
        /\ streams[i].todo \subseteq [dev : Devices, present : BOOLEAN]
    BY <1>0 DEF StreamObj
  <2>3. /\ streams'[i].todo = streams[i].todo \ {r} /\ streams'[i].state = streams[i].state
        /\ streams'[i].cancelled = streams[i].cancelled
        /\ \A j \in 1..2 \ {i} : streams'[j] = streams[j]
    BY <1>0, <2>1 DEF StreamObj
  <2>4. FreeIsEmpty'
    BY <1>0, <1>1, <2>3 DEF FreeIsEmpty, Busy
  <2>5. OneStream => OneStream'
    BY <1>0, <2>3 DEF OneStream, Busy
  <2>6. ASSUME registered, NEW d \in Devices, Agrees(d)
        PROVE  Agrees(d)'
    <3>1. \A j \in 1..2 : streams'[j].todo \subseteq streams[j].todo
      BY <1>0, <2>3
    <3>2. \A j \in 1..2 : \A x \in streams'[j].todo :
            x.dev = d => (x.present <=> store'[d] # "absent")
      BY <2>1, <2>6, <3>1 DEF Agrees
    <3>3. CASE r.dev = d
      BY <1>0, <2>1, <2>6, <3>2, <3>3 DEF Agrees, Indexed
    <3>4. CASE r.dev # d
      <4>1. d \in index' <=> d \in index
        BY <2>1, <2>6, <3>4 DEF Indexed
      <4>2. (\A j \in 1..2 : \A x \in streams'[j].todo : x.dev # d)
              => (\A j \in 1..2 : \A x \in streams[j].todo : x.dev # d)
        BY <1>0, <2>3, <3>4
      <4> QED BY <2>1, <2>6, <3>2, <4>1, <4>2 DEF Agrees
    <3> QED BY <3>3, <3>4
  <2> QED BY <1>0, <1>3, <2>4, <2>5, <2>6 DEF Indexing
<1> QED BY <1>4, <1>5, <1>6 DEF Stream

LEMMA IndexStep == IndexInv /\ [Next]_vars => IndexInv'
<1> SUFFICES ASSUME IndexInv, [Next]_vars PROVE IndexInv'
  OBVIOUS
<1>0. TypeOK /\ TypeOK'
  BY TypeStep DEF IndexInv
<1>1. env' = env
  BY DEF Next, vars
<1>2. SUFFICES ASSUME ~May("foreground"), FreeIsEmpty, Listed, Indexing
               PROVE  FreeIsEmpty' /\ Listed' /\ Indexing'
  BY <1>0, <1>1 DEF IndexInv, May
<1>3. CASE UNCHANGED <<cpNode, nodeLog, nodeStep, registered, wanted, manager, current,
                       streams, store, index>>
  BY <1>2, <1>3, IndexKept DEF Listed, Indexing
<1>c. current \in 0..2
  BY <1>0, TypeParts DEF ScopesOK
<1>4. CASE \E d \in Devices : CpDevice(d)
  <2>1. PICK d \in Devices : CpDevice(d)
    BY <1>4
  <2>2. /\ \A i \in 1..2 : /\ streams'[i].state = streams[i].state
                           /\ streams'[i].todo = streams[i].todo
                           /\ streams'[i].cancelled = streams[i].cancelled
                           /\ streams[i].state = "free" => streams'[i] = streams[i]
        /\ streams \in [1..2 -> StreamObj] /\ streams' \in [1..2 -> StreamObj]
    <3>1. streams \in [1..2 -> StreamObj] /\ streams' \in [1..2 -> StreamObj]
      BY <1>0, TypeParts DEF TypeOK
    <3>2. \A i \in 1..2 : \/ streams'[i] = streams[i]
                          \/ /\ streams[i].state = "reading"
                             /\ \E x : streams'[i] = [streams[i] EXCEPT !.frames = x]
      BY <2>1, <3>1 DEF CpDevice
    <3> QED BY <3>1, <3>2 DEF StreamObj
  <2>3. UNCHANGED <<cpNode, nodeLog, nodeStep, registered, wanted, manager, current, store, index>>
    BY <2>1 DEF CpDevice, api, scopes, cache
  <2>4. DeletedForGood'
    BY <1>2, <2>3, IndexKept DEF Listed
  <2> QED BY <1>c, <1>2, <2>2, <2>3, <2>4, IndexStreamsShift DEF Listed
<1>5. ASSUME NEW status \in NodeStatuses, CpNode(status)
      PROVE  FreeIsEmpty' /\ Listed' /\ Indexing'
  <2>1. /\ UNCHANGED <<nodeLog, nodeStep, registered, wanted, manager, current, store, index>>
        /\ cpNode # "removed"
    BY <1>5 DEF CpNode, api, scopes, cache
  <2>2. DeletedForGood'
    BY <1>2, <2>1 DEF Listed, DeletedForGood
  <2>3. /\ \A i \in 1..2 : /\ (streams'[i].state = "free") <=> (streams[i].state = "free")
                           /\ streams'[i].todo = streams[i].todo
                           /\ streams'[i].cancelled = streams[i].cancelled
                           /\ streams[i].state = "free" => streams'[i] = streams[i]
        /\ streams \in [1..2 -> StreamObj] /\ streams' \in [1..2 -> StreamObj]
    <3>1. streams \in [1..2 -> StreamObj] /\ streams' \in [1..2 -> StreamObj]
      BY <1>0, TypeParts DEF TypeOK
    <3>2. \A i \in 1..2 : \/ streams'[i] = streams[i]
                          \/ /\ streams[i].state = "reading"
                             /\ streams'[i] =
                                  [streams[i] EXCEPT !.state = "connecting", !.frames = <<>>]
      BY <1>5, <3>1 DEF CpNode
    <3>3. ASSUME NEW i \in 1..2
          PROVE  /\ (streams'[i].state = "free") <=> (streams[i].state = "free")
                 /\ streams'[i].todo = streams[i].todo
                 /\ streams'[i].cancelled = streams[i].cancelled
                 /\ streams[i].state = "free" => streams'[i] = streams[i]
      <4>1. streams[i] \in StreamObj
        BY <3>1
      <4> QED BY <3>2, <4>1 DEF StreamObj
    <3> QED BY <3>1, <3>3
  <2> QED BY <1>c, <1>2, <2>1, <2>2, <2>3, IndexStreamsShift DEF Listed
<1>6. CASE NodeController \/ NodeDeleted \/ RecordDeleted \/ ListRemote
  <2>1. UNCHANGED streams
    BY <1>6 DEF NodeController, NodeStatus, Register, AddScope, Unregister, Forget,
       NodeDeleted, RecordDeleted, ListRemote, others
  <2> QED BY <1>0, <1>2, <1>6, <2>1, IndexNodeStep, IndexKept
<1>7. CASE Manager \/ \E i \in DOMAIN streams : Stream(i) \/ Disconnect(i)
  BY <1>0, <1>2, <1>7, IndexManagerStep, IndexStreamStep
<1>8. CASE PassStep \/ \E d \in Devices : Lookup(d)
  <2>1. UNCHANGED mirror
    BY <1>8 DEF PassStep, Get, Upsert, FirstStatus, Unreported, DeleteDevice,
       markUnobservable, Lookup
  <2> QED BY <1>3, <2>1 DEF mirror, scopes, cache
<1>9. CASE \E d \in Devices : DeliverDevice(d) \/ DeviceOps(d) \/ Collect(d)
  <2>1. UNCHANGED <<outside, nodeLog>>
    BY <1>9 DEF DeliverDevice, DeviceOps, Collect
  <2> QED BY <1>3, <2>1 DEF outside, scopes, cache
<1>10. CASE DeliverNode
  <2>1. UNCHANGED <<cpNode, nodeStep, registered, wanted, manager, current, streams, store, index>>
    BY <1>10 DEF DeliverNode, outside, scopes, cache
  <2>2. /\ Len(nodeLog) > 1 /\ Len(nodeLog') = Len(nodeLog) - 1 /\ Len(nodeLog) \in Nat
        /\ \A k \in 1..Len(nodeLog') : nodeLog'[k] = nodeLog[k + 1]
        /\ Cached(nodeLog') = nodeLog[2] /\ Cached(nodeLog) = nodeLog[1]
    BY <1>0, <1>10, DeliverNodeEffect, NodeEnds
  <2>3. \A k \in 1..Len(nodeLog') : k + 1 \in 1..Len(nodeLog) /\ nodeLog'[k] = nodeLog[k + 1]
    BY <2>2
  <2>4. DeletedForGood'
    <3>1. \A k \in 1..Len(nodeLog') :
            nodeLog'[k].deleted \/ nodeLog'[k].status = "removed" => cpNode' = "removed"
      BY <1>2, <2>1, <2>3 DEF Listed, DeletedForGood
    <3>2. ASSUME NEW k \in 1..Len(nodeLog'), NEW l \in 1..Len(nodeLog'), k <= l,
                 nodeLog'[k].deleted
          PROVE  nodeLog'[l].deleted
      <4>1. k + 1 <= l + 1
        BY <3>2
      <4> QED BY <1>2, <2>3, <3>2, <4>1 DEF Listed, DeletedForGood
    <3> QED BY <3>1, <3>2 DEF DeletedForGood
  <2>5. Cached(nodeLog).deleted => Cached(nodeLog').deleted
    <3>1. 1 \in 1..Len(nodeLog) /\ 2 \in 1..Len(nodeLog) /\ 1 <= 2
      BY <2>2
    <3> QED BY <1>2, <2>2, <3>1 DEF Listed, DeletedForGood
  <2>6. ScopeFollowsName'
    <3>1. Pristine => Pristine'
      BY <2>1, PristineKept
    <3> QED BY <1>2, <2>1, <2>5, <3>1 DEF Listed, ScopeFollowsName
  <2> QED BY <1>2, <2>1, <2>4, <2>6, IndexKept DEF Listed, Indexing
<1>11. CASE Crash
  <2>1. /\ nodeLog' = <<Node>> /\ cpNode' = cpNode /\ nodeStep' = ""
        /\ registered' = FALSE /\ wanted' = FALSE
        /\ manager' = [pc |-> "list", want |-> FALSE] /\ current' = 0
        /\ streams' = [i \in DOMAIN streams |-> NoStream]
        /\ store' = [d \in Devices |-> "absent"] /\ index' = {}
    BY <1>11, Zenon DEF Crash
  <2>2. DOMAIN streams = 1..2 /\ Node = nodeLog[Len(nodeLog)] /\ Len(nodeLog) \in 1..Len(nodeLog)
    BY <1>0, TypeParts, NodeEnds DEF StreamsOK
  <2>3. Pristine'
    BY <2>1, <2>2 DEF Pristine
  <2>4. DeletedForGood'
    <3>1. \A k \in 1..Len(nodeLog') : nodeLog'[k] = Node
      <4>1. nodeLog' = <<Node>>
        BY <2>1
      <4> QED BY <4>1
    <3>2. Node.deleted \/ Node.status = "removed" => cpNode' = "removed"
      BY <1>2, <2>1, <2>2 DEF Listed, DeletedForGood
    <3> QED BY <3>1, <3>2 DEF DeletedForGood
  <2>5. FreeIsEmpty'
    BY <2>1, <2>2 DEF FreeIsEmpty, NoStream, NewStream
  <2> QED BY <2>1, <2>3, <2>4, <2>5 DEF Listed, ScopeFollowsName, Indexing
<1>12. CASE UNCHANGED vars
  BY <1>3, <1>12 DEF vars, moving, api, scopes, cache
<1> QED BY <1>4, <1>5, <1>6, <1>7, <1>8, <1>9, <1>10, <1>11, <1>12, StepActors

\* While no frame is being reported and the node keeps its registration, the index has
\* an entry for every device of the cache and for no other.
THEOREM IndexMatches == Spec => []IndexMatchesCache
<1>1. Init => IndexInv
  <2> SUFFICES ASSUME Init PROVE FreeIsEmpty /\ Listed /\ Indexing
    BY TypeInit DEF IndexInv
  <2>1. /\ streams = [i \in 1..2 |-> NoStream] /\ index = {} /\ current = 0
        /\ manager = [pc |-> "list", want |-> FALSE] /\ wanted = FALSE /\ registered = FALSE
        /\ store = [d \in Devices |-> "absent"] /\ nodeStep = ""
        /\ nodeLog = <<[exists |-> TRUE, deleted |-> FALSE, status |-> "online", uid |-> 1]>>
    BY Zenon DEF Init
  <2>2. Pristine /\ FreeIsEmpty
    BY <2>1 DEF Pristine, FreeIsEmpty, NoStream, NewStream
  <2>3. DeletedForGood
    <3> DEFINE n == [exists |-> TRUE, deleted |-> FALSE, status |-> "online", uid |-> 1]
    <3>1. ~n.deleted /\ n.status # "removed"
      OBVIOUS
    <3> HIDE DEF n
    <3>2. nodeLog = <<n>>
      BY <2>1 DEF n
    <3>3. \A k \in 1..Len(nodeLog) : nodeLog[k] = n
      BY <3>2
    <3> QED BY <3>1, <3>3 DEF DeletedForGood
  <2> QED BY <2>1, <2>2, <2>3 DEF Listed, ScopeFollowsName, Indexing
<1>2. IndexInv => IndexMatchesCache
  <2> SUFFICES ASSUME IndexInv, \A i \in DOMAIN streams : streams[i].todo = {}, registered,
                      ~May("foreground")
               PROVE  index = {d \in Devices : store[d] # "absent"}
    BY DEF IndexMatchesCache
  <2>1. DOMAIN streams = 1..2 /\ index \subseteq Devices
    BY TypeParts DEF IndexInv, StreamsOK, CacheOK
  <2>2. \A d \in Devices : d \in index <=> store[d] # "absent"
    BY <2>1 DEF IndexInv, Indexing, Agrees
  <2> QED BY <2>1, <2>2
<1> QED BY <1>1, <1>2, IndexStep, PTL DEF Spec
===============================================================================
