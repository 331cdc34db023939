--------------------------- MODULE NodeOpsLockProofs ---------------------------
(***************************************************************************)
(* The lock of a StorageNode, for every set of operations, every lag of    *)
(* both caches and any number of crashes: LockInv is inductive, it implies *)
(* CallUnderLock, and NodeOps implements NodeLock.  When passes read their *)
(* own operation promptly, a claimed call is made once and the node is     *)
(* given up at the end only (PromptInv); when they read the node promptly, *)
(* no lock is left behind (KeptInv).                                       *)
(***************************************************************************)
EXTENDS NodeOpsInvariant, NodeOpsProofs

-------------------------------------------------------------------------------
(* Logs.                                                                   *)

\* What a landed write does to the predicates over a log.
LEMMA AppendShape ==
  ASSUME NEW log \in Seq(OpsObj), Len(log) > 0, NEW v \in OpsObj,
         LogShape(log), Shaped(v),
         Virgin(v) => Virgin(Stored(log)), Dead(Stored(log)) => Dead(v)
  PROVE  LogShape(Written(log, v))
<1> DEFINE new == Written(log, v)
<1>1. /\ new \in Seq(OpsObj) /\ Len(new) = Len(log) + 1
      /\ new[Len(log) + 1] = v
      /\ \A i \in 1..Len(log) : new[i] = log[i]
  BY LogWritten DEF Stored
<1> HIDE DEF new
<1>2. \A i \in 1..Len(new) : Shaped(new[i])
  BY <1>1 DEF LogShape
<1>3. ASSUME NEW i \in 1..Len(new), NEW j \in 1..Len(new), i < j
      PROVE  (Virgin(new[j]) => Virgin(new[i])) /\ (Dead(new[i]) => Dead(new[j]))
  <2>1. i \in 1..Len(log)
    BY <1>1, <1>3
  <2>2. CASE j \in 1..Len(log)
    BY <1>1, <1>3, <2>1, <2>2 DEF LogShape
  <2>3. CASE j = Len(log) + 1
    <3>1. (Virgin(Stored(log)) => Virgin(log[i])) /\ (Dead(log[i]) => Dead(Stored(log)))
      BY <2>1 DEF LogShape, Stored
    <3> QED
      BY <1>1, <2>1, <2>3, <3>1
  <2> QED
    BY <1>1, <2>2, <2>3
<1> QED
  BY <1>2, <1>3 DEF LogShape, new

\* A landed write that is harmless itself leaves a harmless log.
LEMMA AppendNone ==
  ASSUME NEW log \in Seq(OpsObj), Len(log) > 0, NEW v \in OpsObj
  PROVE  /\ NoEarly(log) /\ ~Early(v) => NoEarly(Written(log, v))
         /\ NoTerminal(log) /\ ~Terminal(v.phase) => NoTerminal(Written(log, v))
<1>1. /\ Len(Written(log, v)) = Len(log) + 1
      /\ Written(log, v)[Len(log) + 1] = v
      /\ \A i \in 1..Len(log) : Written(log, v)[i] = log[i]
  BY LogGrown
<1>2. \A i \in 1..Len(log) + 1 : i \in 1..Len(log) \/ i = Len(log) + 1
  OBVIOUS
<1> QED
  BY <1>1, <1>2 DEF NoEarly, NoTerminal

\* What a watch event does to them.
LEMMA TailShape ==
  ASSUME NEW log \in Seq(OpsObj), Len(log) > 1, LogShape(log)
  PROVE  /\ LogShape(Delivered(log))
         /\ NoEarly(log) => NoEarly(Delivered(log))
         /\ NoTerminal(log) => NoTerminal(Delivered(log))
         /\ Virgin(Cached(Delivered(log))) => Virgin(Cached(log))
         /\ Dead(Cached(log)) => Dead(Cached(Delivered(log)))
<1>1. /\ Len(Delivered(log)) = Len(log) - 1
      /\ \A i \in 1..Len(Delivered(log)) : Delivered(log)[i] = log[i + 1]
      /\ Cached(Delivered(log)) = log[2] /\ Cached(log) = log[1]
  BY LogDelivered, LogEnds
<1>2. \A i \in 1..Len(log) - 1 : i + 1 \in 1..Len(log)
  OBVIOUS
<1>3. LogShape(Delivered(log))
  <2>1. \A i \in 1..Len(Delivered(log)) : Shaped(Delivered(log)[i])
    BY <1>1, <1>2 DEF LogShape
  <2>2. ASSUME NEW i \in 1..Len(Delivered(log)), NEW j \in 1..Len(Delivered(log)), i < j
        PROVE  /\ Virgin(Delivered(log)[j]) => Virgin(Delivered(log)[i])
               /\ Dead(Delivered(log)[i]) => Dead(Delivered(log)[j])
    <3>1. i + 1 \in 1..Len(log) /\ j + 1 \in 1..Len(log) /\ i + 1 < j + 1
      BY <1>1, <1>2, <2>2
    <3> QED
      BY <1>1, <3>1 DEF LogShape
  <2> QED
    BY <2>1, <2>2 DEF LogShape
<1>4. /\ NoEarly(log) => NoEarly(Delivered(log))
      /\ NoTerminal(log) => NoTerminal(Delivered(log))
  BY <1>1, <1>2 DEF NoEarly, NoTerminal
<1>5. 1 \in 1..Len(log) /\ 2 \in 1..Len(log) /\ 1 < 2
  OBVIOUS
<1>6. /\ Virgin(log[2]) => Virgin(log[1])
      /\ Dead(log[1]) => Dead(log[2])
  BY <1>5 DEF LogShape
<1> QED
  BY <1>1, <1>3, <1>4, <1>6

-------------------------------------------------------------------------------
(* The two kinds of write, as seen by the invariants of the operations.    *)

\* A version v of one operation lands and the node does not move.
LEMMA OpWriteInv ==
  ASSUME TypeOK, \A p \in Ops : OpInv(p), NEW o \in Ops, NEW v \in OpsObj,
         opsLog' = [opsLog EXCEPT ![o] = Written(@, v)], UNCHANGED nodeLog,
         Shaped(v), Virgin(v) => Virgin(Op(o)), Dead(Op(o)) => Dead(v),
         Early(v) => Good(o),
         Ended(Op(o)) /\ ~Ended(v) => Good(o) \/ NoEarly(opsLog[o]),
         Early(v) /\ ~NoTerminal(opsLog[o]) => NodeGone,
         Terminal(v.phase) /\ NodeLocal => ~Virgin(Cached(opsLog[o]))
  PROVE  \A p \in Ops : OpInv(p)'
<1> DEFINE log == opsLog[o]  new == Written(log, v)
<1>1. log \in Seq(OpsObj) /\ Len(log) > 0
  BY DEF TypeOK
<1>2. /\ opsLog'[o] = new
      /\ \A p \in Ops \ {o} : opsLog'[p] = opsLog[p]
  BY DEF TypeOK
<1>3. ASSUME NEW p \in Ops \ {o} PROVE OpInv(p)'
  BY <1>2, <1>3 DEF OpInv, LogEarly, LogRevived, LogVirgin, LogNamed, Good, Holder,
       NodeGone, NodeLocal, Named, Op
<1>4. OpInv(o)'
  <2>1. /\ Cached(new) = Cached(log) /\ Stored(new) = v
        /\ Len(new) = Len(log) + 1 /\ new[Len(log) + 1] = v
        /\ \A i \in 1..Len(log) : new[i] = log[i]
    BY <1>1, LogWritten DEF Stored
  <2> HIDE DEF new
  <2>2. LogShape(new)
    BY <1>1, AppendShape DEF OpInv, Op, new
  <2>3. NoEarly(new) \/ Good(o) \/ Ended(v)
    BY <1>1, AppendNone DEF OpInv, LogEarly, Op, new
  <2>4. ASSUME NEW i \in 1..Len(new), NEW j \in 1..Len(new), i < j,
               Terminal(new[i].phase), Early(new[j])
        PROVE  NodeGone
    <3>1. i \in 1..Len(log)
      BY <1>1, <2>1, <2>4
    <3>2. CASE j \in 1..Len(log)
      BY <2>1, <2>4, <3>1, <3>2 DEF OpInv, LogRevived
    <3>3. CASE j = Len(log) + 1
      BY <2>1, <2>4, <3>1, <3>3 DEF NoTerminal
    <3> QED
      BY <1>1, <2>1, <3>2, <3>3
  <2>5. NodeLocal /\ Virgin(Cached(new)) => NoTerminal(new)
    BY <1>1, <2>1, AppendNone DEF OpInv, LogVirgin, new
  <2>6. Virgin(Cached(new)) /\ ~Cached(new).deleted /\ Named(o) => Good(o)
    BY <2>1 DEF OpInv, LogNamed
  <2>7. (Good(o) <=> Good(o)') /\ (NodeGone <=> NodeGone')
        /\ (NodeLocal <=> NodeLocal') /\ (Named(o) <=> Named(o)')
    BY DEF Good, Holder, NodeGone, NodeLocal, Named
  <2> QED
    BY <1>2, <2>1, <2>2, <2>3, <2>4, <2>5, <2>6, <2>7
       DEF OpInv, LogEarly, LogRevived, LogVirgin, LogNamed, Op
<1> QED
  BY <1>3, <1>4

\* The node moves and the operations do not.
LEMMA NodeMoveInv ==
  ASSUME NEW p \in Ops, OpInv(p), UNCHANGED opsLog,
         Good(p) => Good(p)' \/ NoEarly(opsLog[p]) \/ Ended(Op(p)),
         NodeGone => NodeGone', NodeLocal' => NodeLocal,
         LET v == Cached(opsLog[p]) IN
           Virgin(v) /\ ~v.deleted /\ Named(p)' => Good(p)'
  PROVE  OpInv(p)'
  BY DEF OpInv, LogEarly, LogRevived, LogVirgin, LogNamed, Op

-------------------------------------------------------------------------------
(* Environment steps.                                                      *)

\* Somebody else's write of an operation, as the pass sees it.
LEMMA UserWritePass ==
  ASSUME TypeOK, PassInv, NEW o \in Ops, NEW v \in OpsObj, Disturb(o),
         opsLog' = [opsLog EXCEPT ![o] = Written(@, v)], UNCHANGED nodeLog,
         Terminal(v.phase) => Terminal(Op(o).phase), Early(v) => Early(Op(o)),
         Ended(Op(o)) => Ended(v)
  PROVE  PassInv'
<1> USE DEF At
<1>1. CASE pass.op # o
  <2>1. pass' = pass
    BY <1>1 DEF Disturb
  <2>2. pass.pc # "idle" => opsLog'[pass.op] = opsLog[pass.op]
    BY <1>1 DEF TypeOK
  <2> QED
    BY <2>1, <2>2 DEF PassInv, PassObject, PassWrite, PassFresh, PassCache, PassVirgin,
       PassNamed, PassEarly, PassLock, PastLock, Releasing, Good, Holder, NodeGone,
       NodeLocal, Named, Op
<1>2. CASE pass.op = o
  <2> DEFINE log == opsLog[o]  new == Written(log, v)
  <2>1. log \in Seq(OpsObj) /\ Len(log) > 0 /\ opsLog'[o] = new
    BY DEF TypeOK
  <2>2. Cached(new) = Cached(log) /\ Stored(new) = v
    BY <2>1, LogWritten
  <2>3. /\ NoEarly(log) /\ ~Early(v) => NoEarly(new)
        /\ NoTerminal(log) /\ ~Terminal(v.phase) => NoTerminal(new)
    BY <2>1, AppendNone
  <2>4. /\ NoEarly(log) => ~Early(Op(o))
        /\ NoTerminal(log) => ~Terminal(Op(o).phase)
    BY <2>1 DEF NoEarly, NoTerminal, Op, Stored
  <2>5. /\ pass'.pc = pass.pc /\ pass'.op = pass.op /\ pass'.obj = pass.obj
        /\ pass'.do = pass.do /\ pass'.arg = pass.arg /\ pass'.then = pass.then
        /\ pass'.fresh = FALSE
    BY <1>2 DEF Disturb, TypeOK, PassObj
  <2> HIDE DEF new, log
  <2>7. (Releasing <=> Releasing') /\ (PastLock <=> PastLock')
    BY <2>5 DEF Releasing, PastLock
  <2>8. opsLog'[pass'.op] = new /\ opsLog[pass.op] = log
    BY <1>2, <2>1, <2>5 DEF log
  <2> SUFFICES ASSUME pass.pc # "idle" PROVE PassInv'
    BY <2>5 DEF PassInv
  <2> USE DEF Good, Holder, NodeGone, NodeLocal, Named, Op
  <2>10. PassObject' /\ PassWrite' /\ PassFresh'
    BY <2>5, <2>7 DEF PassInv, PassObject, PassWrite, PassFresh
  <2>11. PassCache' /\ PassVirgin' /\ PassNamed'
    BY <1>2, <2>2, <2>3, <2>4, <2>5, <2>7, <2>8
       DEF PassInv, PassCache, PassVirgin, PassNamed
  <2>12. PassEarly' /\ PassLock'
    BY <1>2, <2>2, <2>3, <2>4, <2>5, <2>7, <2>8 DEF PassInv, PassEarly, PassLock
  <2> QED
    BY <2>10, <2>11, <2>12 DEF PassInv
<1> QED
  BY <1>1, <1>2

\* The user's two writes.
LEMMA UserWriteInv ==
  ASSUME TypeOK, LockInv, NEW o \in Ops, SetAbort(o) \/ Delete(o)
  PROVE  LockInv'
<1> DEFINE s == Op(o)
<1>1. s \in OpsObj /\ opsLog[o] \in Seq(OpsObj) /\ Len(opsLog[o]) > 0 /\ s.exists
  BY LogEnds DEF TypeOK, Op, SetAbort, Delete
<1> DEFINE a == [s EXCEPT !.abort = TRUE]  d == [s EXCEPT !.deleted = TRUE]
<1>2. /\ a \in OpsObj /\ a.exists /\ a.phase = s.phase /\ a.step = s.step
      /\ a.deleted = s.deleted
  BY <1>1 DEF OpsObj
<1>3. /\ d \in OpsObj /\ d.exists /\ d.phase = s.phase /\ d.step = s.step /\ d.deleted
  BY <1>1 DEF OpsObj
<1>4. /\ GoneOp \in OpsObj /\ ~GoneOp.exists /\ GoneOp.phase = "" /\ GoneOp.step = ""
  BY ObjTypes DEF GoneOp, NewOp
<1>5. \E v \in {a, d, GoneOp} : opsLog' = [opsLog EXCEPT ![o] = Written(@, v)]
  BY DEF SetAbort, Delete, Op
<1> HIDE DEF s, a, d
<1>6. PICK v \in OpsObj :
        /\ opsLog' = [opsLog EXCEPT ![o] = Written(@, v)]
        /\ \/ v.exists /\ v.phase = s.phase /\ v.step = s.step /\ (s.deleted => v.deleted)
           \/ ~v.exists /\ v.phase = "" /\ v.step = ""
  BY <1>2, <1>3, <1>4, <1>5
<1>7. Disturb(o) /\ UNCHANGED nodeLog
  BY DEF SetAbort, Delete
<1>8. /\ Virgin(v) => Virgin(s)
      /\ (Dead(s) => Dead(v)) /\ (Ended(s) => Ended(v)) /\ (Early(v) => Early(s))
      /\ Terminal(v.phase) => Terminal(s.phase)
  BY <1>1, <1>6 DEF Virgin, Dead, Ended, Early, Terminal
<1>9. OpInv(o)
  BY DEF LockInv
<1>10. Shaped(v)
  <2>1. Shaped(s)
    BY <1>1, <1>9 DEF OpInv, LogShape, s, Op, Stored
  <2> QED
    BY <1>6, <2>1 DEF Shaped
<1>11. Early(s) => Good(o) /\ (~NoTerminal(opsLog[o]) => NodeGone)
  <2>1. ASSUME Early(s) PROVE Good(o)
    BY <1>1, <1>9, <2>1 DEF OpInv, LogEarly, NoEarly, Ended, Dead, Early, s, Op, Stored
  <2>2. ASSUME Early(s), NEW i \in 1..Len(opsLog[o]), Terminal(opsLog[o][i].phase)
        PROVE  NodeGone
    <3>1. i # Len(opsLog[o])
      BY <2>2 DEF Early, s, Op, Stored
    <3> QED
      BY <1>1, <1>9, <2>2, <3>1 DEF OpInv, LogRevived, s, Op, Stored
  <2> QED
    BY <2>1, <2>2 DEF NoTerminal
<1>12. Terminal(s.phase) /\ NodeLocal => ~Virgin(Cached(opsLog[o]))
  BY <1>1, <1>9 DEF OpInv, LogVirgin, NoTerminal, s, Op, Stored
<1>13. \A p \in Ops : OpInv(p)'
  BY <1>6, <1>7, <1>8, <1>10, <1>11, <1>12, OpWriteInv DEF LockInv, s
<1>14. PassInv'
  BY <1>6, <1>7, <1>8, UserWritePass DEF LockInv, s
<1>15. NodeInv'
  BY <1>7 DEF LockInv, NodeInv, NodeLocal
<1> QED
  BY <1>13, <1>14, <1>15 DEF LockInv

\* The clock moves leases and deadlines, and no invariant reads either.
LEMMA ClockInv ==
  ASSUME TypeOK, LockInv, NEW o \in Ops, NEW f \in [OpsObj -> OpsObj],
         \A v \in OpsObj : /\ f[v].exists = v.exists /\ f[v].deleted = v.deleted
                           /\ f[v].phase = v.phase /\ f[v].step = v.step,
         opsLog' = [opsLog EXCEPT ![o] = [i \in 1..Len(@) |-> f[@[i]]]],
         pass' = IF pass.op = o THEN [pass EXCEPT !.obj = f[@]] ELSE pass,
         UNCHANGED nodeLog
  PROVE  LockInv'
<1> DEFINE log == opsLog[o]  new == [i \in 1..Len(log) |-> f[log[i]]]
<1>1. log \in Seq(OpsObj) /\ Len(log) > 0 /\ pass.obj \in OpsObj
  <2>1. log \in Seq(OpsObj) /\ Len(log) > 0
    BY DEF TypeOK
  <2>2. pass.obj \in OpsObj
    BY DEF TypeOK, PassObj
  <2> QED
    BY <2>1, <2>2
<1>2. /\ opsLog'[o] = new
      /\ \A p \in Ops \ {o} : opsLog'[p] = opsLog[p]
  BY DEF TypeOK
<1>3. /\ new \in Seq(OpsObj) /\ Len(new) = Len(log)
      /\ \A i \in 1..Len(log) : new[i] = f[log[i]] /\ log[i] \in OpsObj
  BY <1>1
<1>4. \A v \in OpsObj : /\ Virgin(f[v]) <=> Virgin(v)
                        /\ Early(f[v]) <=> Early(v)
                        /\ Dead(f[v]) <=> Dead(v)
                        /\ Ended(f[v]) <=> Ended(v)
                        /\ Shaped(f[v]) <=> Shaped(v)
                        /\ Terminal(f[v].phase) <=> Terminal(v.phase)
  BY DEF Virgin, Early, Dead, Ended, Shaped
<1> HIDE DEF new
<1>5. /\ Cached(log) \in OpsObj /\ Cached(new) = f[Cached(log)]
      /\ Stored(log) \in OpsObj /\ Stored(new) = f[Stored(log)]
  <2>1. Cached(new) = new[1] /\ Cached(log) = log[1]
    BY <1>1, <1>3, LogEnds
  <2> QED
    BY <1>1, <1>3, <2>1 DEF Stored
<1>6. /\ Virgin(Cached(new)) <=> Virgin(Cached(log))
      /\ Dead(Cached(new)) <=> Dead(Cached(log))
      /\ Cached(new).deleted = Cached(log).deleted
      /\ Ended(Stored(new)) <=> Ended(Stored(log))
      /\ Stored(new).exists = Stored(log).exists
      /\ Stored(new).deleted = Stored(log).deleted
      /\ Stored(new).phase = Stored(log).phase /\ Stored(new).step = Stored(log).step
  BY <1>4, <1>5
<1>7. /\ LogShape(new) <=> LogShape(log)
      /\ NoEarly(new) <=> NoEarly(log)
      /\ NoTerminal(new) <=> NoTerminal(log)
  BY <1>3, <1>4 DEF LogShape, NoEarly, NoTerminal
<1> USE DEF Good, Holder, NodeGone, NodeLocal, Named, Op
<1>8. ASSUME NEW p \in Ops \ {o} PROVE OpInv(p)'
  BY <1>2, <1>8 DEF LockInv, OpInv, LogEarly, LogRevived, LogVirgin, LogNamed
<1>9. OpInv(o)'
  <2>1. LogRevived(o)'
    <3>1. LogRevived(o)
      BY DEF LockInv, OpInv
    <3>2. SUFFICES ASSUME NEW i \in 1..Len(log), NEW j \in 1..Len(log), i < j,
                          Terminal(new[i].phase), Early(new[j])
                   PROVE  NodeGone'
      BY <1>2, <1>3 DEF LogRevived
    <3>3. Terminal(log[i].phase) /\ Early(log[j])
      BY <1>3, <1>4, <3>2
    <3> QED
      BY <3>1, <3>2, <3>3 DEF LogRevived
  <2>2. LogEarly(o)' /\ LogVirgin(o)'
    BY <1>2, <1>6, <1>7 DEF LockInv, OpInv, LogEarly, LogVirgin
  <2>3. LogNamed(o)'
    BY <1>2, <1>6 DEF LockInv, OpInv, LogNamed
  <2> QED
    BY <1>2, <1>7, <2>1, <2>2, <2>3 DEF LockInv, OpInv
<1>10. PassInv'
  <2>1. CASE pass.op # o
    <3>1. pass' = pass /\ (pass.pc # "idle" => opsLog'[pass.op] = opsLog[pass.op])
      BY <1>2, <2>1 DEF TypeOK, At
    <3> QED
      BY <3>1 DEF LockInv, PassInv, PassObject, PassWrite, PassFresh, PassCache,
         PassVirgin, PassNamed, PassEarly, PassLock, PastLock, Releasing, At
  <2>2. CASE pass.op = o
    <3>1. /\ pass'.pc = pass.pc /\ pass'.op = o /\ pass'.obj = f[pass.obj]
          /\ pass'.do = pass.do /\ pass'.arg = pass.arg /\ pass'.then = pass.then
          /\ pass'.fresh = pass.fresh
      BY <2>2 DEF TypeOK, PassObj
    <3>2. /\ pass'.obj.exists = pass.obj.exists /\ pass'.obj.deleted = pass.obj.deleted
          /\ pass'.obj.phase = pass.obj.phase /\ pass'.obj.step = pass.obj.step
      BY <1>1, <3>1
    <3>3. (Shaped(pass.obj)' <=> Shaped(pass.obj)) /\ (Early(pass.obj)' <=> Early(pass.obj))
      BY <1>1, <1>4, <3>1
    <3>4. opsLog'[pass'.op] = new /\ opsLog[pass.op] = log
      BY <1>2, <2>2, <3>1
    <3>5. (Releasing <=> Releasing') /\ (PastLock <=> PastLock')
      BY <3>1 DEF Releasing, PastLock, At
    <3> HIDE DEF log
    <3>6. PassObject' <=> PassObject
      BY <3>1, <3>2, <3>3, <3>5 DEF PassObject, At
    <3>7. PassWrite' <=> PassWrite
      BY <3>1, <3>2 DEF PassWrite, At
    <3>8. PassFresh' <=> PassFresh
      <4>1. Op(pass.op)' = Stored(new) /\ Op(pass.op) = Stored(log)
        BY <3>4
      <4>2. Good(pass.op)' <=> Good(pass.op)
        BY <2>2, <3>1
      <4>3. At("finalizer")' <=> At("finalizer")
        BY <3>1 DEF At
      <4> HIDE DEF Good, Op
      <4> QED
        BY <1>6, <3>1, <3>2, <3>5, <4>1, <4>2, <4>3 DEF PassFresh
    <3>9. PassCache' <=> PassCache
      BY <1>6, <3>2, <3>4, <3>5 DEF PassCache
    <3>10. (PassVirgin' <=> PassVirgin) /\ (PassNamed' <=> PassNamed)
      BY <1>7, <2>2, <3>1, <3>2, <3>4 DEF PassVirgin, PassNamed
    <3>11. PassEarly' <=> PassEarly
      BY <1>6, <2>2, <3>1, <3>3, <3>4 DEF PassEarly
    <3>12. PassLock' <=> PassLock
      BY <1>6, <1>7, <2>2, <3>1, <3>2, <3>4, <3>5 DEF PassLock, At
    <3> QED
      BY <3>1, <3>6, <3>7, <3>8, <3>9, <3>10, <3>11, <3>12 DEF LockInv, PassInv, At
  <2> QED
    BY <2>1, <2>2
<1> QED
  BY <1>8, <1>9, <1>10 DEF LockInv, NodeInv

\* A lease running out is such a move of the clock.
LEMMA LeaseInv ==
  ASSUME TypeOK, LockInv, NEW o \in Ops, LeaseExpires(o)
  PROVE  LockInv'
<1> DEFINE f == [v \in OpsObj |-> Expired(v)]
<1>1. f \in [OpsObj -> OpsObj]
  BY ObjTypes
<1>2. \A v \in OpsObj : /\ f[v].exists = v.exists /\ f[v].deleted = v.deleted
                        /\ f[v].phase = v.phase /\ f[v].step = v.step
  BY DEF Expired, OpsObj
<1>3. opsLog[o] \in Seq(OpsObj) /\ pass.obj \in OpsObj
  BY DEF TypeOK, PassObj
<1>4. \A i \in 1..Len(opsLog[o]) : f[opsLog[o][i]] = Expired(opsLog[o][i])
  BY <1>3
<1>5. opsLog' = [opsLog EXCEPT ![o] = [i \in 1..Len(@) |-> f[@[i]]]]
  BY <1>4 DEF LeaseExpires
<1>6. pass' = IF pass.op = o THEN [pass EXCEPT !.obj = f[@]] ELSE pass
  BY <1>3 DEF LeaseExpires
<1>7. UNCHANGED nodeLog
  BY DEF LeaseExpires
<1> HIDE DEF f
<1> QED
  BY <1>1, <1>2, <1>5, <1>6, <1>7, ClockInv

\* So is a passing deadline.
LEMMA DeadlineInv ==
  ASSUME TypeOK, LockInv, NEW o \in Ops, NEW s \in Steps, DeadlinePasses(o, s)
  PROVE  LockInv'
<1> DEFINE f == [v \in OpsObj |-> Overdue(v, s)]
<1>1. f \in [OpsObj -> OpsObj]
  BY ObjTypes
<1>2. \A v \in OpsObj : /\ f[v].exists = v.exists /\ f[v].deleted = v.deleted
                        /\ f[v].phase = v.phase /\ f[v].step = v.step
  BY DEF Overdue, OpsObj
<1>3. opsLog[o] \in Seq(OpsObj) /\ pass.obj \in OpsObj
  BY DEF TypeOK, PassObj
<1>4. \A i \in 1..Len(opsLog[o]) : f[opsLog[o][i]] = Overdue(opsLog[o][i], s)
  BY <1>3
<1>5. opsLog' = [opsLog EXCEPT ![o] = [i \in 1..Len(@) |-> f[@[i]]]]
  BY <1>4 DEF DeadlinePasses
<1>6. pass' = IF pass.op = o THEN [pass EXCEPT !.obj = f[@]] ELSE pass
  BY <1>3 DEF DeadlinePasses
<1>7. UNCHANGED nodeLog
  BY DEF DeadlinePasses
<1> HIDE DEF f
<1> QED
  BY <1>1, <1>2, <1>5, <1>6, <1>7, ClockInv

\* The cache of an operation catches up by one version.
LEMMA DeliverOpInv ==
  ASSUME TypeOK, LockInv, NEW o \in Ops, DeliverOp(o)
  PROVE  LockInv'
<1> DEFINE log == opsLog[o]  new == Delivered(log)
<1>1. log \in Seq(OpsObj) /\ Len(log) > 1
  BY DEF TypeOK, DeliverOp
<1>2. /\ opsLog'[o] = new
      /\ \A p \in Ops \ {o} : opsLog'[p] = opsLog[p]
      /\ pass' = pass /\ nodeLog' = nodeLog
  BY DEF TypeOK, DeliverOp
<1>3. /\ Stored(new) = Stored(log) /\ Len(new) = Len(log) - 1
      /\ \A i \in 1..Len(new) : new[i] = log[i + 1]
  BY <1>1, LogDelivered
<1>4. /\ LogShape(new)
      /\ NoEarly(log) => NoEarly(new)
      /\ NoTerminal(log) => NoTerminal(new)
      /\ Virgin(Cached(new)) => Virgin(Cached(log))
      /\ Dead(Cached(log)) => Dead(Cached(new))
  BY <1>1, TailShape DEF LockInv, OpInv
<1> HIDE DEF new
<1> USE DEF Good, Holder, NodeGone, NodeLocal, Named, Op
<1>5. ASSUME NEW p \in Ops \ {o} PROVE OpInv(p)'
  BY <1>2, <1>5 DEF LockInv, OpInv, LogEarly, LogRevived, LogVirgin, LogNamed
<1>6. OpInv(o)'
  <2>1. LogRevived(o)'
    <3>1. \A i \in 1..Len(new) : i + 1 \in 1..Len(log)
      BY <1>1, <1>3
    <3> QED
      BY <1>2, <1>3, <3>1 DEF LockInv, OpInv, LogRevived
  <2>2. LogEarly(o)' /\ LogVirgin(o)'
    BY <1>2, <1>3, <1>4 DEF LockInv, OpInv, LogEarly, LogVirgin
  <2>3. LogNamed(o)'
    <3>1. Virgin(Cached(new)) /\ ~Cached(new).deleted
            => Virgin(Cached(log)) /\ ~Cached(log).deleted
      BY <1>4 DEF Dead, Virgin
    <3> QED
      BY <1>2, <3>1 DEF LockInv, OpInv, LogNamed
  <2> QED
    BY <1>2, <1>4, <2>1, <2>2, <2>3 DEF OpInv
<1>7. PassInv'
  <2>1. CASE pass.op # o
    <3>1. pass.pc # "idle" => opsLog'[pass.op] = opsLog[pass.op]
      BY <1>2, <2>1 DEF TypeOK, At
    <3> QED
      BY <1>2, <3>1 DEF LockInv, PassInv, PassObject, PassWrite, PassFresh, PassCache,
         PassVirgin, PassNamed, PassEarly, PassLock, PastLock, Releasing, At
  <2>2. CASE pass.op = o
    BY <1>2, <1>3, <1>4, <2>2 DEF LockInv, PassInv, PassObject, PassWrite, PassFresh,
       PassCache, PassVirgin, PassNamed, PassEarly, PassLock, PastLock, Releasing, At
  <2> QED
    BY <2>1, <2>2
<1> QED
  BY <1>2, <1>5, <1>6, <1>7 DEF LockInv, NodeInv

\* The node's log moves while the worker and the operations stand still, and it
\* costs nobody the lock.
LEMMA NodeStandstill ==
  ASSUME LockInv, UNCHANGED <<opsLog, pass>>, NodeInv',
         \A p \in Ops : Good(p) => Good(p)',
         \A p \in Ops : Named(p)' => Named(p) \/ Good(p)',
         NodeGone => NodeGone', NodeLocal' => NodeLocal, pass.pc # "idle" => pass.op \in Ops
  PROVE  LockInv'
<1>1. \A p \in Ops : OpInv(p)'
  BY NodeMoveInv DEF LockInv, OpInv, LogNamed
<1>2. PassInv'
  <2> SUFFICES ASSUME pass.pc # "idle" PROVE PassInv'
    BY DEF PassInv, At
  <2>1. PICK o \in Ops : o = pass.op /\ o = pass'.op
    OBVIOUS
  <2>2. /\ (Good(pass.op) => Good(pass.op)')
        /\ (Named(pass.op)' => Named(pass.op) \/ Good(pass.op)')
    <3>1. (Good(o) => Good(o)') /\ (Named(o)' => Named(o) \/ Good(o)')
      OBVIOUS
    <3> QED
      BY <2>1, <3>1 DEF Good, Named, Holder
  <2>3. (Releasing <=> Releasing') /\ (PastLock <=> PastLock') /\ Op(pass.op)' = Op(pass.op)
    BY DEF Releasing, PastLock, At, Op
  <2>4. PassObject' /\ PassWrite'
    BY <2>3 DEF LockInv, PassInv, PassObject, PassWrite, At
  <2>5. PassFresh' /\ PassCache'
    BY <2>2, <2>3 DEF LockInv, PassInv, PassFresh, PassCache, At
  <2>6. PassVirgin' /\ PassNamed' /\ PassEarly' /\ PassLock'
    BY <2>2, <2>3 DEF LockInv, PassInv, PassVirgin, PassNamed, PassEarly, PassLock, At
  <2> QED
    BY <2>4, <2>5, <2>6 DEF PassInv
<1> QED
  BY <1>1, <1>2 DEF LockInv

\* The cache of the node catches up by one version.
LEMMA DeliverNodeInv ==
  ASSUME TypeOK, LockInv, DeliverNode
  PROVE  LockInv'
<1>1. nodeLog \in Seq(NodeObj) /\ Len(nodeLog) > 1 /\ nodeLog' = Delivered(nodeLog)
  BY DEF TypeOK, DeliverNode
<1>2. /\ Stored(nodeLog') = Stored(nodeLog) /\ Len(nodeLog') = Len(nodeLog) - 1
      /\ \A i \in 1..Len(nodeLog') : nodeLog'[i] = nodeLog[i + 1]
  BY <1>1, LogDelivered
<1>3. \A i \in 1..Len(nodeLog') : i + 1 \in 1..Len(nodeLog)
  BY <1>1, <1>2
<1>4. NodeInv' /\ \A p \in Ops : Named(p)' => Named(p)
  BY <1>2, <1>3 DEF LockInv, NodeInv, NodeLocal, Named
<1>5. /\ \A p \in Ops : Good(p)' <=> Good(p)
      /\ (NodeGone' <=> NodeGone) /\ (NodeLocal' <=> NodeLocal)
  BY <1>2 DEF Good, Holder, NodeGone, NodeLocal
<1>6. UNCHANGED <<opsLog, pass>> /\ (pass.pc # "idle" => pass.op \in Ops)
  BY DEF DeliverNode, TypeOK, At
<1> QED
  BY <1>4, <1>5, <1>6, NodeStandstill

\* The StorageNode controller writes the node, or lets it go.
LEMMA NodeWriteInv ==
  ASSUME TypeOK, LockInv, NodeWrite
  PROVE  LockInv'
<1> DEFINE node == Stored(nodeLog)
<1>1. nodeLog \in Seq(NodeObj) /\ Len(nodeLog) > 0 /\ node \in NodeObj
  BY LogEnds DEF TypeOK
<1>2. PICK v \in NodeObj :
        nodeLog' = Written(nodeLog, v) /\ v \in {node, [kind |-> "gone", lock |-> NoOp]}
  BY <1>1 DEF NodeWrite, NodeObj
<1>3. /\ Stored(nodeLog') = v /\ Len(nodeLog') = Len(nodeLog) + 1
      /\ nodeLog'[Len(nodeLog) + 1] = v
      /\ \A i \in 1..Len(nodeLog) : nodeLog'[i] = nodeLog[i]
  BY <1>1, <1>2, LogWritten DEF Stored
<1>4. \A i \in 1..Len(nodeLog') : i \in 1..Len(nodeLog) \/ i = Len(nodeLog) + 1
  BY <1>1, <1>3
<1>5. v = node \/ (v.kind = "gone" /\ v.lock = NoOp)
  BY <1>2
<1>6. \A p \in Ops : Good(p) => Good(p)'
  BY <1>3, <1>5 DEF Good, Holder, NodeGone
<1>7. (NodeGone => NodeGone') /\ (NodeLocal' => NodeLocal)
  BY <1>3, <1>5 DEF NodeGone, NodeLocal
<1>8. NodeInv'
  <2>1. node = nodeLog[Len(nodeLog)] /\ Len(nodeLog) \in 1..Len(nodeLog)
    BY <1>1 DEF Stored
  <2> QED
    BY <1>3, <1>4, <1>5, <2>1 DEF LockInv, NodeInv, NodeLocal
<1>9. \A p \in Ops : Named(p)' => Named(p) \/ Good(p)'
  <2>1. node = nodeLog[Len(nodeLog)] /\ Len(nodeLog) \in 1..Len(nodeLog)
    BY <1>1 DEF Stored
  <2> QED
    BY <1>3, <1>4, <1>5, <2>1 DEF Named, Good, Holder, NodeGone
<1>10. UNCHANGED <<opsLog, pass>> /\ (pass.pc # "idle" => pass.op \in Ops)
  BY DEF NodeWrite, TypeOK, At
<1> QED
  BY <1>6, <1>7, <1>8, <1>9, <1>10, NodeStandstill

-------------------------------------------------------------------------------
(* Steps of a pass that move neither log.                                  *)

\* When neither log moves, only the pass has to be looked at.
LEMMA LogsStand ==
  ASSUME LockInv, UNCHANGED <<opsLog, nodeLog>>, PassInv'
  PROVE  LockInv'
  BY DEF LockInv, NodeInv, OpInv, LogEarly, LogRevived, LogVirgin, LogNamed, Good,
     Holder, NodeGone, NodeLocal, Named, Op

\* When the pass does not move either, nothing has.
LEMMA PassStands ==
  ASSUME LockInv, UNCHANGED <<opsLog, nodeLog, pass>>
  PROVE  LockInv'
<1>1. PassInv'
  BY DEF LockInv, PassInv, PassObject, PassWrite, PassFresh, PassCache, PassVirgin,
     PassNamed, PassEarly, PassLock, PastLock, Releasing, At, Good, Holder, NodeGone,
     NodeLocal, Named, Op
<1> QED
  BY <1>1, LogsStand

\* Nothing is asked of an idle worker.
LEMMA IdleInv ==
  ASSUME pass' = Idle
  PROVE  PassInv'
  BY DEF PassInv, At, Idle

\* A pass begins with a copy that obeys what the log obeys.
LEMMA ReconcileInv ==
  ASSUME TypeOK, LockInv, NEW o \in Ops, Reconcile(o)
  PROVE  LockInv'
<1> DEFINE log == opsLog[o]  v == Cached(log)
<1>1. UNCHANGED <<opsLog, nodeLog>>
  BY DEF Reconcile
<1>2. log \in Seq(OpsObj) /\ Len(log) > 0 /\ v \in OpsObj /\ v = log[1]
  BY LogEnds DEF TypeOK
<1>3. CASE pass' = pass
  BY <1>1, <1>3, PassStands
<1>4. CASE pass' # pass
  <2>1. /\ v.exists
        /\ pass' = [Idle EXCEPT !.op = o, !.obj = v, !.fresh = Current(log),
                      !.then = IF v.deleted THEN "drop" ELSE "end", !.pc = Entry(v)]
    BY <1>4 DEF Reconcile
  <2>2. /\ Entry(v) \in {"release", "finalizer", "lock"}
        /\ Entry(v) = "release" => v.deleted \/ Terminal(v.phase)
        /\ Entry(v) = "finalizer" => ~v.deleted
        /\ Entry(v) = "lock" => ~v.deleted /\ ~Terminal(v.phase)
    BY DEF Entry
  <2> HIDE DEF v
  <2>3. /\ pass'.op = o /\ pass'.obj = v /\ pass'.pc = Entry(v)
        /\ pass'.fresh = Current(log)
    BY <2>1 DEF Idle
  <2>4. opsLog'[pass'.op] = log
    BY <1>1, <2>3
  <2>5. OpInv(o)
    BY DEF LockInv
  <2> USE DEF At, PastLock, Releasing, Good, Holder, NodeGone, NodeLocal, Named, Op
  <2>6. Shaped(v)
    BY <1>2, <2>5 DEF OpInv, LogShape
  <2>7. PassObject' /\ PassWrite'
    BY <2>1, <2>2, <2>3, <2>6 DEF PassObject, PassWrite
  <2>8. PassFresh'
    <3>1. Current(log) => Stored(log) = v
      BY <1>2 DEF Current, Stored
    <3> QED
      BY <2>1, <2>2, <2>3, <2>4, <3>1 DEF PassFresh
  <2>9. PassCache'
    BY <2>3, <2>4 DEF PassCache, Virgin, Dead, v
  <2>10. PassVirgin'
    <3>1. NodeLocal /\ v.step = "" => NoTerminal(log)
      BY <2>1, <2>5 DEF OpInv, LogVirgin, Virgin, v
    <3>2. NoTerminal(log) => ~Terminal(v.phase)
      BY <1>2 DEF NoTerminal
    <3> QED
      BY <1>1, <2>3, <2>4, <3>1, <3>2 DEF PassVirgin
  <2>11. PassNamed'
    BY <1>1, <2>1, <2>3, <2>4, <2>5 DEF PassNamed, OpInv, LogNamed, Virgin, v
  <2>12. PassEarly'
    BY <1>1, <1>2, <2>3, <2>4, <2>5 DEF PassEarly, OpInv, LogEarly, NoEarly
  <2>13. Releasing' => NoEarly(log) \/ Ended(Stored(log)) \/ NodeGone
    <3>1. CASE v.deleted
      BY <1>2, <2>5, <3>1 DEF OpInv, LogShape, Dead, Ended, Stored
    <3>2. CASE Terminal(v.phase)
      <4>1. ~Early(log[1])
        BY <1>2, <3>2 DEF Early
      <4>2. \A j \in 1..Len(log) : 1 < j /\ Early(log[j]) => NodeGone
        BY <1>2, <2>5, <3>2 DEF OpInv, LogRevived
      <4> QED
        BY <1>2, <4>1, <4>2 DEF NoEarly
    <3> QED
      BY <2>2, <2>3, <3>1, <3>2
  <2>14. PassLock'
    BY <1>1, <2>2, <2>3, <2>4, <2>13 DEF PassLock
  <2> QED
    BY <1>1, <2>7, <2>8, <2>9, <2>10, <2>11, <2>12, <2>14, LogsStand DEF PassInv
<1> QED
  BY <1>3, <1>4

\* A pass that decides on a write: what PassWrite asks of the decision, and what
\* PassObject asks of the object, is all there is to show.
LEMMA WriteThenInv ==
  ASSUME TypeOK, LockInv, ~At("idle"), ~Releasing, ~At("finalizer"),
         NEW do \in Writes, NEW arg, NEW then, WriteThen(do, arg, then),
         UNCHANGED <<opsLog, nodeLog>>,
         do \in {"run", "wait", "finish"} => ~pass.obj.deleted,
         then \in {"requeue", "step", "release", "refuse"},
         then = "step" <=> do = "run",
         then \in {"release", "refuse"} <=> do = "finish",
         do = "run" => pass.obj.step = "" /\ Good(pass.op),
         do = "record" => /\ arg # ""
                          /\ arg = "Requesting" => pass.obj.step = ""
                          /\ pass.obj.step = "" => Good(pass.op),
         do = "wait" => pass.obj.step # "",
         do = "finish" => /\ Terminal(arg)
                          /\ NodeLocal \/ arg = "Succeeded" => pass.obj.step # ""
  PROVE  LockInv'
<1>1. /\ pass'.pc = "write" /\ pass'.do = do /\ pass'.arg = arg /\ pass'.then = then
      /\ pass'.op = pass.op /\ pass'.obj = pass.obj /\ pass'.fresh = pass.fresh
  BY DEF WriteThen, TypeOK, PassObj
<1>2. PassObject /\ PassWrite /\ PassFresh /\ PassCache
      /\ PassVirgin /\ PassNamed /\ PassEarly /\ PassLock
  BY DEF LockInv, PassInv
<1>3. (Good(pass.op)' <=> Good(pass.op)) /\ (NodeLocal' <=> NodeLocal)
      /\ (NodeGone' <=> NodeGone) /\ (Named(pass.op)' <=> Named(pass.op))
      /\ Op(pass.op)' = Op(pass.op) /\ ~Releasing' /\ opsLog'[pass'.op] = opsLog[pass.op]
  BY <1>1 DEF Good, Holder, NodeGone, NodeLocal, Named, Op, Releasing, At
<1>4. PassObject'
  BY <1>1, <1>2, <1>3 DEF PassObject, At
<1>5. PassWrite'
  BY <1>1, <1>3 DEF PassWrite, At
<1>6. PassFresh' /\ PassCache'
  BY <1>1, <1>2, <1>3 DEF PassFresh, PassCache, At
<1>7. PassVirgin' /\ PassNamed' /\ PassEarly'
  BY <1>1, <1>2, <1>3 DEF PassVirgin, PassNamed, PassEarly
<1>8. PassLock'
  BY <1>1, <1>3 DEF PassLock, PastLock, At
<1> QED
  BY <1>4, <1>5, <1>6, <1>7, <1>8, LogsStand DEF PassInv

\* A message write decides nothing.
LEMMA SayInv ==
  ASSUME TypeOK, LockInv, ~At("idle"), ~Releasing, ~At("finalizer"),
         NEW do \in {"hold", "note", "wait"}, Say(do), UNCHANGED <<opsLog, nodeLog>>,
         do = "wait" => ~pass.obj.deleted /\ pass.obj.step # ""
  PROVE  LockInv'
<1>1. CASE WriteThen(do, "", "requeue")
  BY <1>1, WriteThenInv DEF Writes
<1>2. CASE End(TRUE)
  BY <1>2, IdleInv, LogsStand DEF End
<1> QED
  BY <1>1, <1>2 DEF Say

\* A step is recorded, or the operation is ended, by a pass past the lock.
LEMMA DecideInv ==
  ASSUME TypeOK, LockInv, At("step"), UNCHANGED <<opsLog, nodeLog>>,
         \/ Record("Requesting") /\ pass.obj.step = ""
         \/ pass.obj.step # "" /\ \/ Record("Departing") \/ Record("Awaiting")
                                  \/ Finish("Failed") \/ Finish("Aborted")
                                  \/ Finish("Succeeded")
  PROVE  LockInv'
<1>1. /\ ~At("idle") /\ ~Releasing /\ ~At("finalizer") /\ ~pass.obj.deleted
      /\ pass.obj.step = "" => Good(pass.op)
  BY DEF At, Releasing, LockInv, PassInv, PassObject, PassLock, PastLock
<1>2. ASSUME NEW s \in {"Requesting", "Departing", "Awaiting"}, Record(s),
             s = "Requesting" => pass.obj.step = ""
      PROVE  LockInv'
  BY <1>1, <1>2, WriteThenInv DEF Record, Writes
<1>3. ASSUME NEW ph \in {"Failed", "Aborted", "Succeeded"}, Finish(ph), pass.obj.step # ""
      PROVE  LockInv'
  BY <1>1, <1>3, WriteThenInv DEF Finish, Writes, Terminal
<1> QED
  BY <1>2, <1>3

\* advance: whatever it decides, it decides past the lock.
LEMMA AdvanceInv ==
  ASSUME TypeOK, LockInv, Advance
  PROVE  LockInv'
<1>1. At("step") /\ ~At("idle") /\ ~Releasing /\ ~At("finalizer")
  BY DEF Advance, At, Releasing
<1>2. ~pass.obj.deleted /\ UNCHANGED <<opsLog, nodeLog>>
  BY <1>1 DEF Advance, LockInv, PassInv, PassObject
<1>3. NextStep(Action[pass.op], pass.obj.step) \in {"Departing", "Awaiting"}
  BY DEF NextStep
<1>4. CASE \/ Record("Requesting") /\ pass.obj.step = ""
           \/ pass.obj.step # "" /\ \/ Record("Departing") \/ Record("Awaiting")
                                    \/ Finish("Failed") \/ Finish("Aborted")
                                    \/ Finish("Succeeded")
  BY <1>1, <1>2, <1>4, DecideInv
<1>5. CASE Say("note")
  BY <1>1, <1>2, <1>5, SayInv
<1>6. CASE Say("wait") /\ pass.obj.step # ""
  BY <1>1, <1>2, <1>6, SayInv
<1>7. CASE Goto("claim") /\ pass.obj.step = "Requesting"
  <2>1. /\ pass'.pc = "claim" /\ pass'.do = pass.do /\ pass'.arg = pass.arg
        /\ pass'.then = pass.then /\ pass'.op = pass.op /\ pass'.obj = pass.obj
        /\ pass'.fresh = pass.fresh
    BY <1>7 DEF Goto, TypeOK, PassObj
  <2>2. opsLog'[pass'.op] = opsLog[pass.op] /\ ~Releasing'
    BY <1>2, <2>1 DEF Releasing, At
  <2> USE DEF At, Good, Holder, NodeGone, NodeLocal, Named, Op
  <2>3. PassObject' /\ PassWrite'
    BY <1>1, <1>2, <1>7, <2>1, <2>2 DEF LockInv, PassInv, PassObject, PassWrite
  <2>4. PassFresh' /\ PassCache' /\ PassVirgin'
    BY <1>1, <1>2, <2>1, <2>2 DEF LockInv, PassInv, PassFresh, PassCache, PassVirgin
  <2>5. PassNamed' /\ PassEarly' /\ PassLock'
    BY <1>1, <1>2, <1>7, <2>1, <2>2
       DEF LockInv, PassInv, PassNamed, PassEarly, PassLock, PastLock
  <2> QED
    BY <1>2, <2>3, <2>4, <2>5, LogsStand DEF PassInv
<1>8. CASE Perform
  BY <1>3, <1>4, <1>6, <1>7, <1>8 DEF Perform
<1> QED
  BY <1>4, <1>5, <1>8 DEF Advance

\* After the call the pass records the step that follows, or reports an error.
LEMMA CallInv ==
  ASSUME TypeOK, LockInv, Call
  PROVE  LockInv'
<1>1. At("call") /\ ~At("idle") /\ ~Releasing /\ ~At("finalizer")
  BY DEF Call, At, Releasing
<1>2. pass.obj.step = "Requesting" /\ UNCHANGED <<opsLog, nodeLog>>
  BY <1>1 DEF Call, LockInv, PassInv, PassObject
<1>3. NextStep(Action[pass.op], pass.obj.step) \in {"Departing", "Awaiting"}
  BY DEF NextStep
<1>4. CASE Say("note")
  BY <1>1, <1>2, <1>4, SayInv
<1>5. ASSUME NEW s \in {"Departing", "Awaiting"}, Record(s) PROVE LockInv'
  BY <1>1, <1>2, <1>5, WriteThenInv DEF Record, Writes
<1> QED
  BY <1>3, <1>4, <1>5 DEF Call

-------------------------------------------------------------------------------
(* The lock.                                                               *)

\* A write that lands on a cache that is current leaves two versions.
LEMMA SecondVersion ==
  ASSUME NEW S, NEW log \in Seq(S), Len(log) = 1, NEW v \in S
  PROVE  /\ Len(Written(log, v)) = 2
         /\ Written(log, v)[1] = Cached(log) /\ Written(log, v)[2] = v
         /\ Stored(Written(log, v)) = v /\ Stored(log) = Cached(log)
<1>1. /\ Len(Written(log, v)) = Len(log) + 1 /\ Stored(Written(log, v)) = v
      /\ \A i \in 1..Len(log) : Written(log, v)[i] = log[i]
  <2>1. Len(log) > 0
    OBVIOUS
  <2> QED
    BY <2>1, LogWritten, Zenon
<1>2. Cached(log) = log[1] /\ Stored(log) = log[1]
  BY LogEnds DEF Stored
<1> QED
  BY <1>1, <1>2 DEF Stored

\* Past the lock, whichever way the pass goes on: it holds the node, unless it has
\* entered its graph before.
LEMMA LockedOn ==
  ASSUME TypeOK, LockInv, At("lock"), UNCHANGED opsLog,
         IF pass.obj.phase \in {"", "Pending"} THEN WriteThen("run", "", "step")
                                               ELSE Goto("step"),
         pass.obj.step = "" => Good(pass.op)',
         Good(pass.op) => Good(pass.op)', NodeLocal' => NodeLocal
  PROVE  PassInv'
<1>1. PassObject /\ PassFresh /\ PassCache /\ PassVirgin /\ PassNamed /\ PassEarly
      /\ ~Releasing
  BY DEF LockInv, PassInv, At, Releasing
<1>2. /\ pass'.op = pass.op /\ pass'.obj = pass.obj /\ pass'.fresh = pass.fresh
      /\ \/ pass'.pc = "step"
         \/ /\ pass'.pc = "write" /\ pass'.do = "run" /\ pass'.then = "step"
            /\ pass.obj.phase \in {"", "Pending"}
  BY DEF WriteThen, Goto, TypeOK, PassObj
<1>3. opsLog'[pass'.op] = opsLog[pass.op] /\ ~Releasing'
  BY <1>2 DEF Releasing, At
<1>4. PassObject' /\ PassWrite'
  BY <1>1, <1>2, <1>3 DEF PassObject, PassWrite, At, Shaped
<1>5. PassFresh' /\ PassCache' /\ PassVirgin'
  BY <1>1, <1>2, <1>3 DEF PassFresh, PassCache, PassVirgin, Op, At
<1>6. PassNamed' /\ PassEarly' /\ PassLock'
  BY <1>1, <1>2, <1>3 DEF PassNamed, PassEarly, PassLock, PastLock, Op, At
<1> QED
  BY <1>4, <1>5, <1>6 DEF PassInv

\* acquireLock: the patch lands on a free node only, and a pass that finds the node
\* its own was named by it before it entered its graph.
LEMMA AcquireLockInv ==
  ASSUME TypeOK, LockInv, AcquireLock
  PROVE  LockInv'
<1> DEFINE node == Cached(nodeLog)  o == pass.op
           go == IF pass.obj.phase \in {"", "Pending"}
                   THEN WriteThen("run", "", "step") ELSE Goto("step")
<1>1. /\ At("lock") /\ ~At("idle") /\ ~Releasing /\ ~At("finalizer") /\ o \in Ops
      /\ UNCHANGED opsLog
  BY DEF AcquireLock, At, Releasing, TypeOK
<1>2. /\ nodeLog \in Seq(NodeObj) /\ Len(nodeLog) > 0 /\ node \in NodeObj
      /\ node = nodeLog[1] /\ 1 \in 1..Len(nodeLog)
  BY LogEnds DEF TypeOK
<1>3. ~pass.obj.deleted /\ PassNamed
  BY <1>1 DEF LockInv, PassInv, PassObject, At
<1>4. CASE node.kind # "local" /\ Refuse /\ UNCHANGED nodeLog
  <2>1. ~NodeLocal
    BY <1>2, <1>4 DEF LockInv, NodeInv
  <2> QED
    BY <1>1, <1>3, <1>4, <2>1, WriteThenInv DEF Refuse, Writes, Terminal
<1>5. CASE Say("hold") /\ UNCHANGED nodeLog
  BY <1>1, <1>5, SayInv
<1>6. CASE node.lock = o /\ go /\ UNCHANGED nodeLog
  <2>1. Named(o)
    BY <1>2, <1>6 DEF Named
  <2>2. /\ pass.obj.step = "" => Good(pass.op)'
        /\ Good(pass.op) => Good(pass.op)'
        /\ NodeLocal' => NodeLocal
    <3>1. pass'.op = pass.op
      BY <1>6 DEF WriteThen, Goto, TypeOK, PassObj
    <3> QED
      BY <1>3, <1>6, <2>1, <3>1 DEF PassNamed, Good, Holder, NodeGone, NodeLocal
  <2> QED
    BY <1>1, <1>6, <2>2, LockedOn, LogsStand
<1>7. CASE End(TRUE) /\ UNCHANGED nodeLog
  BY <1>1, <1>7, IdleInv, LogsStand DEF End
<1>8. CASE /\ node.kind = "local" /\ node.lock = NoOp /\ Current(nodeLog)
           /\ nodeLog' = Written(nodeLog, [node EXCEPT !.lock = o])
           /\ go
  <2> DEFINE v == [node EXCEPT !.lock = o]
  <2>1. v \in NodeObj /\ v.lock = o /\ v.kind = "local"
    BY <1>1, <1>2, <1>8 DEF NodeObj
  <2>2. /\ Len(nodeLog) = 1 /\ Stored(nodeLog) = node
        /\ Len(nodeLog') = 2 /\ nodeLog'[1] = node /\ nodeLog'[2] = v
        /\ Stored(nodeLog') = v
    <3>1. Len(nodeLog) = 1 /\ Stored(nodeLog) = node
      BY <1>2, <1>8 DEF Current, Stored
    <3>2. nodeLog' = Written(nodeLog, v)
      BY <1>8
    <3> HIDE DEF v
    <3> QED
      BY <1>2, <2>1, <3>1, <3>2, SecondVersion
  <2> HIDE DEF v
  <2>3. pass'.op = o
    BY <1>8 DEF WriteThen, Goto, TypeOK, PassObj
  <2>4. /\ NodeLocal /\ ~NodeGone /\ NodeLocal' /\ Good(o)'
        /\ \A p \in Ops : ~Good(p)
        /\ \A p \in Ops : Named(p)' => Good(p)'
    <3>1. NoOp \notin Ops
      BY NodeOpsAssumption
    <3>2. \A i \in 1..2 : i = 1 \/ i = 2
      OBVIOUS
    <3> QED
      BY <1>1, <1>8, <2>1, <2>2, <2>3, <3>1, <3>2
         DEF NodeLocal, NodeGone, Good, Holder, Named
  <2>5. \A p \in Ops : OpInv(p)'
    BY <1>1, <2>4, NodeMoveInv DEF LockInv
  <2>6. NodeInv'
    <3>1. \A i \in 1..2 : i = 1 \/ i = 2
      OBVIOUS
    <3> QED
      BY <1>8, <2>1, <2>2, <2>4, <3>1 DEF NodeInv
  <2>7. PassInv'
    BY <1>1, <1>8, <2>4, LockedOn
  <2> QED
    BY <2>5, <2>6, <2>7 DEF LockInv
<1> QED
  BY <1>4, <1>5, <1>6, <1>7, <1>8 DEF AcquireLock, PatchLands

\* releaseLock: what gives the node up is an operation that will not call again.
LEMMA ReleaseLockInv ==
  ASSUME TypeOK, LockInv, ReleaseLock
  PROVE  LockInv'
<1> DEFINE node == Cached(nodeLog)  o == pass.op
<1>1. At("release") /\ Releasing /\ ~At("idle") /\ o \in Ops /\ UNCHANGED opsLog
  BY DEF ReleaseLock, At, Releasing, TypeOK
<1>2. /\ nodeLog \in Seq(NodeObj) /\ Len(nodeLog) > 0 /\ node \in NodeObj
  BY LogEnds DEF TypeOK
<1>3. PassObject /\ PassFresh /\ PassCache /\ PassVirgin /\ PassNamed /\ PassEarly /\ PassLock
  BY <1>1 DEF LockInv, PassInv
<1>4. pass' = Idle \/ pass' = [pass EXCEPT !.pc = "drop"]
  BY DEF ReleaseLock, End, Goto
<1>5. ASSUME pass' = [pass EXCEPT !.pc = "drop"], Named(o)' => Named(o) \/ pass.obj.deleted \/ pass.obj.step # "",
             Good(o) => Good(o)' \/ pass.obj.deleted \/ pass.obj.step # "",
             NodeGone => NodeGone', NodeLocal' => NodeLocal
      PROVE  PassInv'
  <2>1. /\ pass'.pc = "drop" /\ pass'.op = o /\ pass'.obj = pass.obj
        /\ pass'.fresh = pass.fresh /\ Releasing'
    BY <1>5 DEF TypeOK, PassObj, Releasing, At
  <2>2. opsLog'[pass'.op] = opsLog[o]
    BY <1>1, <2>1
  <2>3. PassObject' /\ PassWrite' /\ PassFresh'
    BY <1>1, <1>3, <2>1 DEF PassObject, PassWrite, PassFresh, At
  <2>4. PassCache' /\ PassVirgin'
    BY <1>1, <1>3, <1>5, <2>1, <2>2 DEF PassCache, PassVirgin
  <2>5. PassNamed'
    BY <1>3, <1>5, <2>1 DEF PassNamed, Good, Holder, NodeGone, Named
  <2>6. PassEarly'
    BY <1>1, <1>3, <2>1 DEF PassEarly, PassObject, Early
  <2>7. PassLock'
    BY <1>1, <1>3, <1>5, <2>1, <2>2 DEF PassLock, PastLock, At, Op
  <2> QED
    BY <2>3, <2>4, <2>5, <2>6, <2>7 DEF PassInv
<1>6. CASE UNCHANGED nodeLog
  <2>1. PassInv'
    <3>1. (NodeGone => NodeGone') /\ (NodeLocal' => NodeLocal)
      BY <1>6 DEF NodeGone, NodeLocal
    <3>2. CASE pass' = [pass EXCEPT !.pc = "drop"]
      <4>1. pass'.op = o
        BY <3>2 DEF TypeOK, PassObj
      <4>2. (Named(o)' => Named(o)) /\ (Good(o) => Good(o)')
        BY <1>6, <4>1 DEF Named, Good, Holder, NodeGone
      <4> QED
        BY <1>5, <3>1, <3>2, <4>2
    <3> QED
      BY <1>4, <3>2, IdleInv
  <2> QED
    BY <1>1, <1>6, <2>1, LogsStand
<1>7. CASE /\ node.kind # "gone" /\ node.lock = o /\ Current(nodeLog)
           /\ nodeLog' = Written(nodeLog, [node EXCEPT !.lock = NoOp])
  <2> DEFINE v == [node EXCEPT !.lock = NoOp]
  <2>1. v \in NodeObj /\ v.lock = NoOp /\ v.kind = node.kind
    BY <1>2 DEF NodeObj
  <2>2. /\ Len(nodeLog) = 1 /\ Stored(nodeLog) = node /\ nodeLog[1] = node
        /\ Len(nodeLog') = 2 /\ nodeLog'[1] = node /\ nodeLog'[2] = v
        /\ Stored(nodeLog') = v
    <3>1. Len(nodeLog) = 1 /\ Stored(nodeLog) = node /\ nodeLog[1] = node
      BY <1>2, <1>7, LogEnds DEF Current, Stored
    <3> QED
      BY <1>2, <1>7, <2>1, <3>1, SecondVersion
  <2> HIDE DEF v
  <2>3. NodeLocal /\ ~NodeGone /\ NodeLocal' /\ ~NodeGone' /\ NodeInv'
    <3>1. node.kind = "local"
      BY <1>1, <1>7, <2>2, NodeOpsAssumption DEF LockInv, NodeInv
    <3>2. \A i \in 1..2 : i = 1 \/ i = 2
      OBVIOUS
    <3> QED
      BY <2>1, <2>2, <3>1, <3>2 DEF NodeLocal, NodeGone, NodeInv
  <2>4. pass.obj.deleted \/ pass.obj.step # ""
    BY <1>1, <1>3, <2>3 DEF PassObject, PassVirgin
  <2>5. ~(Virgin(Cached(opsLog[o])) /\ ~Cached(opsLog[o]).deleted)
    BY <1>1, <1>3, <2>4 DEF PassCache, Dead, Virgin
  <2>6. NoEarly(opsLog[o]) \/ Ended(Op(o))
    BY <1>1, <1>3, <2>3 DEF PassLock
  <2>7. ASSUME NEW p \in Ops PROVE OpInv(p)'
    <3>1. CASE p = o
      BY <1>1, <2>3, <2>5, <2>6, <3>1, NodeMoveInv DEF LockInv
    <3>2. CASE p # o
      <4>1. ~Good(p) /\ ~Named(p)'
        <5>1. p # NoOp /\ \A i \in 1..2 : i = 1 \/ i = 2
          BY NodeOpsAssumption
        <5> QED
          BY <1>7, <2>1, <2>2, <2>3, <3>2, <5>1 DEF Good, Holder, Named, NodeGone
      <4> QED
        BY <1>1, <2>3, <4>1, NodeMoveInv DEF LockInv
    <3> QED
      BY <3>1, <3>2
  <2>8. PassInv'
    BY <1>4, <1>5, <2>3, <2>4, IdleInv
  <2> QED
    BY <2>3, <2>7, <2>8 DEF LockInv
<1> QED
  BY <1>6, <1>7 DEF ReleaseLock, Owned, PatchLands

-------------------------------------------------------------------------------
(* Writes of the operation by its own pass.                                *)

\* A version that keeps the stored status, and does not undo a deletion.
LEMMA StatusKept ==
  ASSUME TypeOK, \A p \in Ops : OpInv(p), NEW o \in Ops, NEW v \in OpsObj,
         opsLog' = [opsLog EXCEPT ![o] = Written(@, v)], UNCHANGED nodeLog,
         v.exists = Op(o).exists, Op(o).deleted => v.deleted,
         v.phase = Op(o).phase, v.step = Op(o).step
  PROVE  \A p \in Ops : OpInv(p)'
<1> DEFINE s == Op(o)
<1>1. s \in OpsObj /\ opsLog[o] \in Seq(OpsObj) /\ Len(opsLog[o]) > 0 /\ OpInv(o)
  BY LogEnds DEF TypeOK, Op
<1>2. /\ s = opsLog[o][Len(opsLog[o])] /\ Len(opsLog[o]) \in 1..Len(opsLog[o])
  BY <1>1 DEF Op, Stored
<1> HIDE DEF s
<1>3. /\ v.exists = s.exists /\ (s.deleted => v.deleted)
      /\ v.phase = s.phase /\ v.step = s.step
  BY DEF s
<1>4. /\ Virgin(v) => Virgin(s)
      /\ (Dead(s) => Dead(v)) /\ (Ended(s) => Ended(v)) /\ (Early(v) => Early(s))
  BY <1>3 DEF Virgin, Dead, Ended, Early
<1>5. Shaped(v)
  BY <1>1, <1>2, <1>3 DEF OpInv, LogShape, Shaped
<1>6. Early(s) => Good(o)
  BY <1>1, <1>2 DEF OpInv, LogEarly, NoEarly, Ended, Dead, Early, s
<1>7. Early(s) /\ ~NoTerminal(opsLog[o]) => NodeGone
  <2>1. Early(s) => ~Terminal(s.phase)
    BY DEF Early
  <2> QED
    BY <1>1, <1>2, <2>1 DEF OpInv, LogRevived, NoTerminal
<1>8. Terminal(s.phase) /\ NodeLocal => ~Virgin(Cached(opsLog[o]))
  BY <1>1, <1>2 DEF OpInv, LogVirgin, NoTerminal
<1> QED
  BY <1>3, <1>4, <1>5, <1>6, <1>7, <1>8, OpWriteInv DEF s

\* The finalizer changes nothing of the status.
LEMMA AddFinalizerInv ==
  ASSUME TypeOK, LockInv, AddFinalizer
  PROVE  LockInv'
<1>1. /\ At("finalizer") /\ ~At("idle") /\ ~Releasing /\ pass.op \in Ops
      /\ pass.obj \in OpsObj /\ UNCHANGED nodeLog /\ pass' = Idle
  BY DEF AddFinalizer, At, Releasing, TypeOK, PassObj, End
<1>2. CASE UNCHANGED opsLog
  BY <1>1, <1>2, IdleInv, LogsStand
<1>3. CASE pass.fresh /\ Land([pass.obj EXCEPT !.finalizer = TRUE])
  <2> DEFINE v == [pass.obj EXCEPT !.finalizer = TRUE]
  <2>1. /\ v \in OpsObj /\ v.exists = pass.obj.exists /\ v.deleted = pass.obj.deleted
        /\ v.phase = pass.obj.phase /\ v.step = pass.obj.step
    BY <1>1 DEF OpsObj
  <2>2. opsLog' = [opsLog EXCEPT ![pass.op] = Written(@, v)]
    BY <1>3 DEF Land
  <2> HIDE DEF v
  <2>3. /\ pass.obj.exists /\ Op(pass.op).exists /\ ~Op(pass.op).deleted
        /\ Op(pass.op).phase = pass.obj.phase /\ Op(pass.op).step = pass.obj.step
    BY <1>1, <1>3 DEF LockInv, PassInv, PassObject, PassFresh
  <2>4. Op(pass.op) \in OpsObj
    BY <1>1, LogEnds DEF TypeOK, Op
  <2>5. v.exists = Op(pass.op).exists
    BY <2>1, <2>3, <2>4 DEF OpsObj
  <2>6. \A p \in Ops : OpInv(p)'
    BY <1>1, <2>1, <2>2, <2>3, <2>5, StatusKept DEF LockInv
  <2>7. NodeInv'
    BY <1>1 DEF LockInv, NodeInv, NodeLocal
  <2> QED
    BY <1>1, <2>6, <2>7, IdleInv DEF LockInv
<1> QED
  BY <1>2, <1>3 DEF AddFinalizer

\* An object that is gone makes no calls.
LEMMA DropFinalizerInv ==
  ASSUME TypeOK, LockInv, DropFinalizer
  PROVE  LockInv'
<1>1. /\ At("drop") /\ ~At("idle") /\ Releasing /\ pass.op \in Ops
      /\ UNCHANGED nodeLog /\ pass' = Idle
  BY DEF DropFinalizer, At, Releasing, TypeOK, PassObj, End
<1>2. CASE UNCHANGED opsLog
  BY <1>1, <1>2, IdleInv, LogsStand
<1>3. CASE opsLog' = [opsLog EXCEPT ![pass.op] = Written(@, GoneOp)]
  <2>1. GoneOp \in OpsObj /\ ~GoneOp.exists /\ GoneOp.phase = "" /\ GoneOp.step = ""
    BY ObjTypes DEF GoneOp, NewOp
  <2>2. /\ Shaped(GoneOp) /\ ~Virgin(GoneOp) /\ Dead(GoneOp) /\ ~Early(GoneOp)
        /\ Ended(GoneOp) /\ ~Terminal(GoneOp.phase)
    BY <2>1 DEF Shaped, Virgin, Dead, Early, Ended, Terminal
  <2>3. \A p \in Ops : OpInv(p)'
    BY <1>1, <1>3, <2>1, <2>2, OpWriteInv DEF LockInv
  <2>4. NodeInv'
    BY <1>1 DEF LockInv, NodeInv, NodeLocal
  <2> QED
    BY <1>1, <2>3, <2>4, IdleInv DEF LockInv
<1> QED
  BY <1>2, <1>3 DEF DropFinalizer, Land

\* The claim lands on the stored version alone, so an operation that can be read as
\* about to call, and has not ended, is the one that holds the node.
LEMMA ClaimInv ==
  ASSUME TypeOK, LockInv, Claim
  PROVE  LockInv'
<1>1. /\ At("claim") /\ ~At("idle") /\ ~Releasing /\ ~At("finalizer") /\ pass.op \in Ops
      /\ UNCHANGED nodeLog
  BY DEF Claim, At, Releasing, TypeOK
<1>2. ~pass.obj.deleted /\ pass.obj.step = "Requesting"
  BY <1>1 DEF LockInv, PassInv, PassObject
<1>3. CASE (Say("wait") \/ Say("note")) /\ UNCHANGED opsLog
  BY <1>1, <1>2, <1>3, SayInv
<1> DEFINE o == pass.op  s == Op(o)  v == [s EXCEPT !.claim = "live"]
<1>4. CASE /\ pass.fresh
           /\ opsLog' = [opsLog EXCEPT ![o] = Written(@, v)]
           /\ pass' = [pass EXCEPT !.obj = v, !.pc = "call"]
  <2>1. /\ s \in OpsObj /\ opsLog[o] \in Seq(OpsObj) /\ Len(opsLog[o]) > 0
        /\ s = opsLog[o][Len(opsLog[o])]
    BY <1>1, LogEnds DEF TypeOK, Op, Stored
  <2>2. /\ v \in OpsObj /\ v.exists = s.exists /\ v.deleted = s.deleted
        /\ v.phase = s.phase /\ v.step = s.step
    BY <2>1 DEF OpsObj, Leases
  <2>3. /\ pass'.pc = "call" /\ pass'.op = o /\ pass'.obj = v /\ pass'.fresh = pass.fresh
    BY <1>4 DEF TypeOK, PassObj
  <2>4. \A p \in Ops : OpInv(p)'
    BY <1>1, <1>4, <2>2, StatusKept DEF LockInv
  <2>5. opsLog'[o] = Written(opsLog[o], v)
    BY <1>1, <1>4 DEF TypeOK
  <2> HIDE DEF v
  <2>6. Stored(opsLog'[o]) = v /\ Cached(opsLog'[o]) = Cached(opsLog[o])
    BY <2>1, <2>2, <2>5, LogWritten
  <2>7. /\ s.exists /\ s.phase = pass.obj.phase /\ s.step = "Requesting"
        /\ ~Terminal(s.phase) /\ (s.deleted => Good(o)) /\ Shaped(pass.obj)
    BY <1>1, <1>2, <1>4 DEF LockInv, PassInv, PassObject, PassFresh
  <2>8. Good(o)
    <3>1. CASE s.deleted
      BY <2>7, <3>1
    <3>2. CASE ~s.deleted
      <4>1. Early(s) /\ ~Ended(s)
        BY <2>7, <3>2 DEF Early, Ended, Dead
      <4>2. ~NoEarly(opsLog[o])
        BY <2>1, <4>1 DEF NoEarly
      <4> QED
        BY <1>1, <4>1, <4>2 DEF LockInv, OpInv, LogEarly
    <3> QED
      BY <3>1, <3>2
  <2>9. Good(pass.op)' /\ ~Releasing' /\ opsLog'[pass'.op] = opsLog'[o]
    BY <1>1, <2>3, <2>8 DEF Good, Holder, NodeGone, Releasing, At
  <2>10. PassObject' /\ PassWrite'
    BY <1>2, <2>2, <2>3, <2>7, <2>9 DEF PassObject, PassWrite, At, Shaped
  <2>11. PassFresh'
    BY <2>2, <2>3, <2>6, <2>7, <2>9 DEF PassFresh, At, Op
  <2>12. PassCache'
    <3>1. ~Virgin(Cached(opsLog[o]))
      BY <1>1, <1>2 DEF LockInv, PassInv, PassCache
    <3> QED
      BY <2>3, <2>6, <2>9, <3>1 DEF PassCache
  <2>13. PassVirgin' /\ PassNamed' /\ PassEarly'
    BY <2>2, <2>3, <2>7, <2>9 DEF PassVirgin, PassNamed, PassEarly
  <2>14. PassLock'
    BY <2>3, <2>9 DEF PassLock, PastLock, At
  <2>15. NodeInv'
    BY <1>1 DEF LockInv, NodeInv, NodeLocal
  <2> QED
    BY <2>4, <2>10, <2>11, <2>12, <2>13, <2>14, <2>15 DEF LockInv, PassInv
<1> QED
  BY <1>3, <1>4 DEF Claim, Land, Op

\* What a mutation makes of the phase and of the step.
LEMMA MutateStatus ==
  ASSUME NEW base \in OpsObj, NEW read \in OpsObj, NEW do \in Writes, NEW arg
  PROVE  LET w == Mutate(base, do, arg, read) IN
         /\ do = "run" => w.phase = "Running" /\ w.step = base.step
         /\ do = "hold" => /\ w.phase = IF base.phase = "" THEN "Pending" ELSE base.phase
                           /\ w.step = base.step
         /\ do = "note" => w.phase = base.phase /\ w.step = base.step
         /\ do = "wait" => w.phase = base.phase /\ w.step = read.step
         /\ do = "record" => w.phase = "Running" /\ w.step = arg
         /\ do = "finish" =>
              /\ w.phase = arg
              /\ w.step = IF arg = "Succeeded" THEN "Completed" ELSE base.step
<1> USE DEF OpsObj
<1>1. CASE do = "run"
  BY <1>1 DEF Mutate
<1>2. CASE do = "hold"
  BY <1>2 DEF Mutate
<1>3. CASE do = "note"
  BY <1>3 DEF Mutate
<1>4. CASE do = "wait"
  BY <1>4 DEF Mutate, SnapshotOf
<1>5. CASE do = "record"
  BY <1>5 DEF Mutate
<1>6. CASE do = "finish"
  BY <1>6 DEF Mutate
<1>7. CASE do = ""
  BY <1>7
<1> QED
  BY <1>1, <1>2, <1>3, <1>4, <1>5, <1>6, <1>7 DEF Writes

\* A status write lands on the version it was computed from: the pass is unstale,
\* or the cache is current and the write was computed again from it.
LEMMA WriteStatusInv ==
  ASSUME TypeOK, LockInv, WriteStatus
  PROVE  LockInv'
<1> DEFINE o == pass.op  log == opsLog[o]  s == Stored(log)  read == pass.obj
           do == pass.do  arg == pass.arg
           base == IF pass.fresh THEN read ELSE Cached(log)
           w == Mutate(base, do, arg, read)  v == WithStatus(s, w)
<1>1. /\ At("write") /\ ~At("idle") /\ ~Releasing /\ ~At("finalizer") /\ o \in Ops
      /\ UNCHANGED nodeLog
  BY DEF WriteStatus, At, Releasing, TypeOK
<1>2. /\ log \in Seq(OpsObj) /\ Len(log) > 0 /\ s \in OpsObj /\ Cached(log) \in OpsObj
      /\ s = log[Len(log)] /\ Cached(log) = log[1]
  BY <1>1, LogEnds DEF TypeOK, Stored
<1>3. read \in OpsObj /\ do \in Writes /\ arg \in Steps \cup Phases
  BY DEF TypeOK, PassObj
<1>4. WellFormed(do, arg) /\ do # ""
  BY <1>1 DEF TypeOK, WellFormed
<1>5. /\ read.exists /\ Shaped(read) /\ ~Terminal(read.phase)
      /\ do \in {"run", "wait", "finish"} => ~read.deleted
  BY <1>1 DEF LockInv, PassInv, PassObject
<1>6. /\ pass.then \in {"requeue", "step", "release", "refuse"}
      /\ (pass.then = "step" <=> do = "run")
      /\ (pass.then \in {"release", "refuse"} <=> do = "finish")
      /\ do = "run" => read.step = ""
      /\ do = "record" => arg # "" /\ (arg = "Requesting" => read.step = "")
      /\ do = "wait" => read.step # ""
      /\ do = "finish" => Terminal(arg)
      /\ do = "finish" /\ (NodeLocal \/ arg = "Succeeded") => read.step # ""
  BY <1>1 DEF LockInv, PassInv, PassWrite
<1>7. /\ read.step # "" => ~Virgin(Cached(log))
      /\ NodeLocal /\ read.step = "" => NoTerminal(log)
      /\ read.step = "" /\ ~read.deleted /\ Named(o) => Good(o)
      /\ Early(read) => Good(o) \/ Ended(s)
      /\ do \in {"run", "record", "wait"} /\ read.step = "" => Good(o)
  BY <1>1 DEF LockInv, PassInv, PassCache, PassVirgin, PassNamed, PassEarly, PassLock,
     PastLock, Op
<1>8. OpInv(o) /\ NodeInv
  BY <1>1 DEF LockInv
<1>9. CASE End(TRUE) /\ UNCHANGED opsLog
  BY <1>1, <1>9, IdleInv, LogsStand DEF End
<1>10. CASE /\ pass.fresh \/ (Current(log) /\ base.exists)
            /\ Land(v) /\ AfterWrite(w)
  <2>1. /\ base \in OpsObj /\ s.exists /\ base.phase = s.phase /\ base.step = s.step
        /\ pass.fresh => s.phase = read.phase /\ s.step = read.step
        /\ ~pass.fresh => Len(log) = 1 /\ Cached(log) = s
    <3>1. CASE pass.fresh
      BY <1>1, <1>3, <3>1 DEF LockInv, PassInv, PassFresh, Op
    <3>2. CASE ~pass.fresh
      BY <1>2, <1>10, <3>2, LogEnds DEF Current
    <3> QED
      BY <3>1, <3>2
  <2>2. w \in OpsObj
    BY <1>3, <1>4, <2>1, MutateType
  <2>3. /\ do = "run" => w.phase = "Running" /\ w.step = base.step
        /\ do = "hold" => /\ w.phase = IF base.phase = "" THEN "Pending" ELSE base.phase
                          /\ w.step = base.step
        /\ do = "note" => w.phase = base.phase /\ w.step = base.step
        /\ do = "wait" => w.phase = base.phase /\ w.step = read.step
        /\ do = "record" => w.phase = "Running" /\ w.step = arg
        /\ do = "finish" =>
             /\ w.phase = arg
             /\ w.step = IF arg = "Succeeded" THEN "Completed" ELSE base.step
    <3> HIDE DEF base, read, do, arg
    <3> QED
      BY <1>3, <2>1, MutateStatus DEF w
  <2> HIDE DEF w
  <2>4. /\ v \in OpsObj /\ v.exists = s.exists /\ v.deleted = s.deleted
        /\ v.phase = w.phase /\ v.step = w.step
    BY <1>2, <2>2 DEF WithStatus, OpsObj
  <2>5. opsLog' = [opsLog EXCEPT ![o] = Written(@, v)]
    BY <1>10 DEF Land
  <2> HIDE DEF v, base
  <2>6. Shaped(s) /\ s = Op(o)
    BY <1>2, <1>8 DEF OpInv, LogShape, Op
  <2>7. Early(s) => Good(o) /\ (~NoTerminal(log) => NodeGone)
    <3>1. Early(s) => Good(o)
      <4>1. NoEarly(log) => ~Early(s)
        BY <1>2 DEF NoEarly
      <4>2. Early(s) => ~Ended(s)
        BY DEF Early, Ended, Dead
      <4> QED
        BY <1>8, <2>6, <4>1, <4>2 DEF OpInv, LogEarly
    <3>2. Early(s) => ~Terminal(s.phase)
      BY DEF Early
    <3> QED
      BY <1>2, <1>8, <3>1, <3>2 DEF OpInv, LogRevived, NoTerminal
  <2>8. ~pass.fresh => (NoTerminal(log) <=> ~Terminal(s.phase)) /\ (NoEarly(log) <=> ~Early(s))
    BY <1>2, <2>1 DEF NoTerminal, NoEarly
  <2>9. Good(o) /\ ~NodeLocal => NodeGone
    <3>1. Stored(nodeLog) = nodeLog[Len(nodeLog)] /\ Len(nodeLog) \in 1..Len(nodeLog)
      BY DEF TypeOK, Stored
    <3> QED
      BY <1>1, <1>8, <3>1, NodeOpsAssumption DEF Good, Holder, NodeGone, NodeInv, NodeLocal
  <2> HIDE DEF log, s, read, do, arg, o
  <2>10. /\ v.exists /\ v.deleted = s.deleted /\ s.exists
         /\ do = "run" => v.phase = "Running" /\ v.step = s.step
         /\ do = "hold" => /\ v.phase = IF s.phase = "" THEN "Pending" ELSE s.phase
                           /\ v.step = s.step
         /\ do = "note" => v.phase = s.phase /\ v.step = s.step
         /\ do = "wait" => v.phase = s.phase /\ v.step = read.step
         /\ do = "record" => v.phase = "Running" /\ v.step = arg
         /\ do = "finish" => /\ v.phase = arg
                             /\ v.step = IF arg = "Succeeded" THEN "Completed" ELSE s.step
         /\ do \in {"run", "hold", "note", "wait", "record", "finish"}
    BY <1>3, <1>4, <2>1, <2>3, <2>4 DEF Writes
  <2>11. /\ Terminal(v.phase) => do = "finish" \/ Terminal(s.phase)
         /\ Terminal(s.phase) => ~pass.fresh
    BY <1>5, <2>1, <2>10 DEF Terminal
  <2>12. Shaped(v)
    <3>1. do = "wait" => s.step # ""
      BY <1>6, <1>7, <2>1 DEF Virgin
    <3> QED
      BY <1>5, <1>6, <2>6, <2>10, <3>1 DEF Shaped, Terminal
  <2>13. (Virgin(v) => Virgin(s)) /\ (Dead(s) => Dead(v))
    BY <1>6, <2>10 DEF Virgin, Dead
  <2>14. Early(v) => \/ Early(s)
                     \/ do \in {"run", "record"} /\ Good(o) /\ read.step = ""
                     \/ do = "wait" /\ Early(read) /\ Good(o)
    <3> SUFFICES ASSUME Early(v)
                 PROVE \/ Early(s)
                       \/ do \in {"run", "record"} /\ Good(o) /\ read.step = ""
                       \/ do = "wait" /\ Early(read) /\ Good(o)
      OBVIOUS
    <3>1. CASE do \in {"hold", "note"}
      BY <2>6, <2>10, <3>1 DEF Early, Shaped, Terminal
    <3>2. CASE do \in {"run", "record"}
      BY <1>6, <1>7, <2>10, <3>2 DEF Early
    <3>3. CASE do = "wait"
      <4>1. ~Ended(s) /\ Early(read)
        BY <1>5, <2>10, <3>3 DEF Early, Ended, Dead
      <4> QED
        BY <1>7, <3>3, <4>1
    <3>4. CASE do = "finish"
      BY <1>6, <2>10, <3>4 DEF Early
    <3> QED
      BY <2>10, <3>1, <3>2, <3>3, <3>4
  <2>15. Early(v) => Good(o)
    BY <2>7, <2>14
  <2>16. Ended(s) /\ ~Ended(v) => Good(o) \/ NoEarly(log)
    BY <2>8, <2>10, <2>11 DEF Ended, Dead, Early
  <2>17. Early(v) /\ ~NoTerminal(log) => NodeGone
    <3> SUFFICES ASSUME Early(v), ~NoTerminal(log) PROVE NodeGone
      OBVIOUS
    <3>1. CASE Early(s)
      BY <2>7, <3>1
    <3>2. CASE Good(o) /\ read.step = ""
      BY <1>7, <2>9, <3>2
    <3>3. CASE do = "wait" /\ Early(read)
      <4>1. v.phase = s.phase /\ ~Terminal(s.phase) /\ ~s.deleted
        BY <2>10, <3>3 DEF Early
      <4>2. pass.fresh
        BY <2>8, <4>1
      <4>3. Early(s)
        BY <2>1, <2>10, <3>3, <4>1, <4>2 DEF Early
      <4> QED
        BY <2>7, <4>3
    <3> QED
      BY <2>14, <3>1, <3>2, <3>3
  <2>18. Terminal(v.phase) /\ NodeLocal => ~Virgin(Cached(log))
    <3>1. do = "finish" /\ NodeLocal => ~Virgin(Cached(log))
      BY <1>6, <1>7
    <3>2. Terminal(s.phase) /\ NodeLocal => ~Virgin(Cached(log))
      BY <1>8, <2>8, <2>11 DEF OpInv, LogVirgin, log, o
    <3> QED
      BY <2>11, <3>1, <3>2
  <2>19. \A p \in Ops : OpInv(p)'
    BY <1>1, <2>4, <2>5, <2>6, <2>12, <2>13, <2>15, <2>16, <2>17, <2>18, OpWriteInv
       DEF LockInv, log, o
  <2>20. NodeInv'
    BY <1>1 DEF LockInv, NodeInv, NodeLocal
  <2>21. PassInv'
    <3>1. CASE pass' = Idle
      BY <3>1, IdleInv
    <3>2. CASE pass' # Idle
      <4> DEFINE now == WithStatus(read, w)
      <4>1. /\ pass.then # "requeue"
            /\ pass' = [pass EXCEPT !.obj = now, !.fresh = TRUE, !.do = "", !.arg = "",
                   !.pc = IF pass.then = "step" THEN "step" ELSE "release",
                   !.then = IF pass.then = "refuse" THEN "retry" ELSE "end"]
        BY <1>10, <3>2 DEF AfterWrite, End, read
      <4>2. /\ now \in OpsObj /\ now.exists = read.exists /\ now.deleted = read.deleted
            /\ now.phase = w.phase /\ now.step = w.step
        BY <1>3, <2>2 DEF WithStatus, OpsObj
      <4> HIDE DEF now
      <4>3. /\ pass'.op = o /\ pass'.obj = now /\ pass'.fresh
            /\ pass'.pc = IF pass.then = "step" THEN "step" ELSE "release"
        BY <4>1 DEF TypeOK, PassObj, o
      <4>4. now.exists /\ now.deleted = read.deleted /\ now.phase = v.phase /\ now.step = v.step
        BY <1>5, <2>4, <4>2
      <4>5. /\ Cached(opsLog'[o]) = Cached(log) /\ Stored(opsLog'[o]) = v
            /\ NoTerminal(log) /\ ~Terminal(v.phase) => NoTerminal(opsLog'[o])
        <5>1. opsLog'[o] = Written(log, v)
          BY <1>1, <2>5 DEF TypeOK, log
        <5> QED
          BY <1>2, <2>4, <5>1, LogWritten, AppendNone
      <4>6. now.step # "" => ~Virgin(Cached(log))
        <5>1. now.step # "" => s.step # "" \/ read.step # ""
          BY <1>6, <2>10, <4>1, <4>4
        <5>2. s.step # "" => ~Virgin(Cached(log))
          BY <1>7, <2>1 DEF Virgin
        <5> QED
          BY <1>7, <5>1, <5>2
      <4>7. /\ (Good(o) => Good(pass.op)') /\ (Named(pass.op)' => Named(o))
            /\ (NodeLocal' => NodeLocal)
        BY <1>1, <4>3 DEF Good, Named, Holder, NodeGone, NodeLocal
      <4>8. CASE do = "run"
        <5>1. /\ pass'.pc = "step" /\ ~Releasing' /\ Good(pass.op)' /\ read.step = ""
          BY <1>6, <1>7, <4>3, <4>7, <4>8 DEF Releasing, At
        <5>2. PassObject' /\ PassWrite'
          BY <1>5, <2>10, <4>3, <4>4, <4>8, <5>1 DEF PassObject, PassWrite, At, Shaped, Terminal
        <5>3. PassFresh' /\ PassCache'
          BY <2>10, <4>3, <4>4, <4>5, <4>6, <5>1 DEF PassFresh, PassCache, At, Op
        <5>4. PassVirgin'
          BY <1>7, <2>10, <4>3, <4>4, <4>5, <4>7, <4>8, <5>1 DEF PassVirgin, Terminal
        <5>5. PassNamed' /\ PassEarly' /\ PassLock'
          BY <4>3, <5>1 DEF PassNamed, PassEarly, PassLock, At
        <5> QED
          BY <5>2, <5>3, <5>4, <5>5 DEF PassInv
      <4>9. CASE do # "run"
        <5>1. do = "finish" /\ pass'.pc = "release" /\ Releasing'
          BY <1>6, <4>1, <4>3, <4>9 DEF Releasing, At
        <5>2. Terminal(v.phase) /\ now.step = v.step /\ ~now.deleted
          BY <1>5, <1>6, <2>10, <4>4, <5>1
        <5>3. now.step = "" => s.step = "" /\ read.step = ""
          <6>1. now.step = "" => s.step = ""
            BY <2>10, <4>4, <5>1
          <6>2. s.step = "" => read.step = ""
            BY <1>7, <2>1 DEF Virgin
          <6> QED
            BY <6>1, <6>2
        <5>4. PassObject' /\ PassWrite'
          BY <1>6, <2>10, <4>3, <4>4, <5>1, <5>2 DEF PassObject, PassWrite, At, Shaped, Terminal
        <5>5. PassFresh' /\ PassCache'
          BY <4>3, <4>5, <4>6, <5>1, <5>2 DEF PassFresh, PassCache
        <5>6. PassVirgin'
          BY <1>6, <4>3, <4>7, <5>1, <5>3 DEF PassVirgin
        <5>7. PassNamed'
          BY <1>5, <1>7, <4>3, <4>7, <5>1, <5>3 DEF PassNamed
        <5>8. PassEarly' /\ PassLock'
          BY <4>3, <4>4, <4>5, <5>1, <5>2
             DEF PassEarly, PassLock, PastLock, At, Early, Ended, Op
        <5> QED
          BY <5>4, <5>5, <5>6, <5>7, <5>8 DEF PassInv
      <4> QED
        BY <4>8, <4>9
    <3> QED
      BY <3>1, <3>2
  <2> QED
    BY <2>19, <2>20, <2>21 DEF LockInv
<1> QED
  BY <1>9, <1>10 DEF WriteStatus

-------------------------------------------------------------------------------
(* The invariant, and that every call is made under the lock.              *)

\* Every step of the controller and of its environment keeps the invariant.
LEMMA LockStep == TypeOK /\ LockInv /\ [Next]_vars => LockInv'
<1> SUFFICES ASSUME TypeOK, LockInv, [Next]_vars PROVE LockInv'
  OBVIOUS
<1>1. CASE PassStep
  BY <1>1, AddFinalizerInv, AcquireLockInv, AdvanceInv, ClaimInv, CallInv, WriteStatusInv,
     ReleaseLockInv, DropFinalizerInv DEF PassStep
<1>2. ASSUME NEW o \in Ops,
             \/ Reconcile(o) \/ DeliverOp(o) \/ LeaseExpires(o) \/ SetAbort(o) \/ Delete(o)
             \/ \E s \in {"Requesting", "Departing", "Awaiting"} : DeadlinePasses(o, s)
      PROVE  LockInv'
  <2>1. CASE \E s \in {"Requesting", "Departing", "Awaiting"} : DeadlinePasses(o, s)
    BY <2>1, DeadlineInv DEF Steps
  <2> QED
    BY <1>2, <2>1, ReconcileInv, DeliverOpInv, LeaseInv, UserWriteInv
<1>3. CASE DeliverNode \/ NodeWrite
  BY <1>3, DeliverNodeInv, NodeWriteInv
<1>4. CASE Crash
  BY <1>4, IdleInv, LogsStand DEF Crash
<1>5. CASE CpBegin \/ CpEnd \/ CpFault \/ Stream \/ UNCHANGED vars
  BY <1>5, PassStands DEF CpBegin, CpEnd, CpFault, Stream, vars
<1> QED
  BY <1>1, <1>2, <1>3, <1>4, <1>5 DEF Next, Worker, Environment

\* It holds before anything has happened.
LEMMA LockBegin == Init => LockInv
<1> SUFFICES ASSUME Init PROVE LockInv
  OBVIOUS
<1>1. /\ Len(nodeLog) = 1 /\ nodeLog[1].lock = NoOp /\ NodeInv
  BY DEF Init, NodeInv, NodeLocal, Stored
<1>2. ASSUME NEW o \in Ops PROVE OpInv(o)
  <2>1. /\ opsLog[o] = <<NewOp>> /\ Len(opsLog[o]) = 1 /\ opsLog[o][1] = NewOp
        /\ Cached(opsLog[o]) = NewOp
    BY DEF Init, Cached
  <2>2. Shaped(NewOp) /\ ~Early(NewOp) /\ ~Terminal(NewOp.phase)
    BY DEF NewOp, Shaped, Early, Terminal
  <2>3. \A i \in 1..1 : i = 1
    OBVIOUS
  <2>4. ~Named(o)
    BY <1>1, <2>3, NodeOpsAssumption DEF Named
  <2>5. LogShape(opsLog[o]) /\ NoEarly(opsLog[o]) /\ NoTerminal(opsLog[o])
    BY <2>1, <2>2, <2>3 DEF LogShape, NoEarly, NoTerminal
  <2>6. LogRevived(o)
    BY <2>1, <2>2, <2>3 DEF LogRevived
  <2> QED
    BY <2>4, <2>5, <2>6 DEF OpInv, LogEarly, LogVirgin, LogNamed
<1>3. PassInv
  BY DEF Init, PassInv, At, Idle
<1> QED
  BY <1>1, <1>2, <1>3 DEF LockInv

\* The inductive invariant holds of every behaviour.
THEOREM LockInvariant == Spec => []LockInv
  BY LockBegin, LockStep, TypeCorrect, PTL DEF Spec

\* A control-plane call is only made by the operation that holds the node in the
\* API server, however far both caches lag and wherever the operator crashes
\* (acquireLock, releaseLock, once).
THEOREM CallsUnderLock == Spec => []CallUnderLock
<1>1. LockInv => CallUnderLock
  BY DEF LockInv, PassInv, PassLock, CallUnderLock, Good, At
<1> QED
  BY <1>1, LockInvariant, PTL

-------------------------------------------------------------------------------
(* NodeOps implements NodeLock.                                            *)

Caller == IF At("call") THEN pass.op ELSE NoOp

\* A step that leaves the node's log and the caller alone is a stutter.
LEMMA LockStutter ==
  ASSUME UNCHANGED nodeLog, Caller' = Caller
  PROVE  UNCHANGED Lock!lockVars
  BY DEF Lock!lockVars, Holder, NodeGone, Caller

\* No piece of a pass but the claim leads to a call.
LEMMA PiecesNotCalling ==
  ASSUME TypeOK
  PROVE  /\ \A r \in BOOLEAN : End(r) => pass'.pc # "call"
         /\ \A do, arg, then : WriteThen(do, arg, then) => pass'.pc # "call"
         /\ \A do : Say(do) => pass'.pc # "call"
         /\ \A pc : Goto(pc) => pass'.pc = pc
<1>1. ASSUME NEW r \in BOOLEAN, End(r) PROVE pass'.pc # "call"
  <2>1. pass' = Idle
    BY <1>1 DEF End
  <2> QED
    BY <2>1 DEF Idle
<1>2. ASSUME NEW do, NEW arg, NEW then, WriteThen(do, arg, then) PROVE pass'.pc # "call"
  BY <1>2 DEF WriteThen, TypeOK, PassObj
<1>3. ASSUME NEW do, Say(do) PROVE pass'.pc # "call"
  BY <1>1, <1>2, <1>3 DEF Say
<1>4. ASSUME NEW pc, Goto(pc) PROVE pass'.pc = pc
  BY <1>4 DEF Goto, TypeOK, PassObj
<1> QED
  BY <1>1, <1>2, <1>3, <1>4

\* Everything but the four steps that touch the lock or the call.
LEMMA NotCalling ==
  ASSUME TypeOK,
         \/ AddFinalizer \/ Advance \/ WriteStatus \/ DropFinalizer
         \/ \E o \in Ops : Reconcile(o)
  PROVE  UNCHANGED nodeLog /\ Caller' = Caller
<1>1. pass.pc # "call" /\ UNCHANGED nodeLog
  BY DEF AddFinalizer, Advance, WriteStatus, DropFinalizer, Reconcile, At
<1>2. pass'.pc # "call"
  <2>1. CASE AddFinalizer \/ DropFinalizer
    BY <2>1, PiecesNotCalling DEF AddFinalizer, DropFinalizer
  <2>2. CASE Advance
    BY <2>2, PiecesNotCalling DEF Advance, Perform, Record, Finish
  <2>3. CASE WriteStatus
    <3>1. ASSUME NEW v, AfterWrite(v) PROVE pass'.pc # "call"
      BY <3>1, PiecesNotCalling DEF AfterWrite, TypeOK, PassObj
    <3> QED
      BY <2>3, <3>1, PiecesNotCalling DEF WriteStatus
  <2>4. CASE \E o \in Ops : Reconcile(o)
    BY <1>1, <2>4 DEF Reconcile, Idle, Entry
  <2> QED
    BY <2>1, <2>2, <2>3, <2>4
<1> QED
  BY <1>1, <1>2 DEF Caller, At

\* Every step takes the lock, gives it up, begins a call, ends one, loses the node,
\* or does nothing the lock can see.
LEMMA LockRefines ==
  ASSUME TypeOK, LockInv, LockInv', [Next]_vars
  PROVE  [Lock!LockNext]_(Lock!lockVars)
<1> USE DEF At
<1>1. NoOp \notin Ops /\ (pass.pc # "idle" => pass.op \in Ops)
  BY NodeOpsAssumption DEF TypeOK
<1>2. nodeLog \in Seq(NodeObj) /\ Len(nodeLog) > 0
  BY DEF TypeOK
<1>3. CASE \/ AddFinalizer \/ Advance \/ WriteStatus \/ DropFinalizer
           \/ \E o \in Ops : Reconcile(o)
  BY <1>3, NotCalling, LockStutter
<1>4. CASE AcquireLock
  <2>1. pass.pc = "lock" /\ pass'.pc # "call"
    BY <1>4, PiecesNotCalling DEF AcquireLock, Refuse
  <2>2. Caller = NoOp /\ Caller' = NoOp
    BY <2>1 DEF Caller
  <2>3. CASE UNCHANGED nodeLog
    BY <2>2, <2>3, LockStutter
  <2>4. CASE ~UNCHANGED nodeLog
    <3> DEFINE v == [Cached(nodeLog) EXCEPT !.lock = pass.op]
    <3>1. /\ nodeLog' = Written(nodeLog, v) /\ Current(nodeLog)
          /\ Cached(nodeLog).kind = "local" /\ Cached(nodeLog).lock = NoOp
      BY <1>4, <2>4 DEF AcquireLock, PatchLands
    <3>2. Cached(nodeLog) \in NodeObj /\ Cached(nodeLog) = Stored(nodeLog)
      BY <1>2, <3>1, LogEnds
    <3>3. v \in NodeObj /\ v.lock = pass.op /\ v.kind = "local"
      BY <1>1, <2>1, <3>1, <3>2 DEF NodeObj
    <3> HIDE DEF v
    <3>4. Stored(nodeLog') = v
      BY <1>2, <3>1, <3>3, LogWritten
    <3>5. Holder = NoOp /\ Holder' = pass.op /\ ~NodeGone /\ ~NodeGone'
      BY <3>1, <3>2, <3>3, <3>4 DEF Holder, NodeGone
    <3>6. Lock!Acquire(pass.op)
      BY <2>2, <3>5 DEF Lock!Acquire, Caller, NodeGone
    <3> QED
      BY <1>1, <2>1, <3>6 DEF Lock!LockNext
  <2> QED
    BY <2>3, <2>4
<1>5. CASE ReleaseLock
  <2>1. pass.pc = "release" /\ pass'.pc # "call"
    BY <1>5, PiecesNotCalling DEF ReleaseLock
  <2>2. Caller = NoOp /\ Caller' = NoOp
    BY <2>1 DEF Caller
  <2>3. CASE UNCHANGED nodeLog
    BY <2>2, <2>3, LockStutter
  <2>4. CASE ~UNCHANGED nodeLog
    <3> DEFINE v == [Cached(nodeLog) EXCEPT !.lock = NoOp]
    <3>1. /\ nodeLog' = Written(nodeLog, v) /\ Current(nodeLog)
          /\ Cached(nodeLog).kind # "gone" /\ Cached(nodeLog).lock = pass.op
      BY <1>5, <2>4 DEF ReleaseLock, PatchLands, Owned
    <3>2. Cached(nodeLog) \in NodeObj /\ Cached(nodeLog) = Stored(nodeLog)
      BY <1>2, <3>1, LogEnds
    <3>3. v \in NodeObj /\ v.lock = NoOp /\ v.kind # "gone"
      BY <3>1, <3>2 DEF NodeObj
    <3> HIDE DEF v
    <3>4. Stored(nodeLog') = v
      BY <1>2, <3>1, <3>3, LogWritten
    <3>5. Holder = pass.op /\ Holder' = NoOp /\ ~NodeGone /\ ~NodeGone'
      BY <3>1, <3>2, <3>3, <3>4 DEF Holder, NodeGone
    <3>6. Lock!Release(pass.op)
      BY <2>2, <3>5 DEF Lock!Release, Caller, NodeGone
    <3> QED
      BY <1>1, <2>1, <3>6 DEF Lock!LockNext
  <2> QED
    BY <2>3, <2>4
<1>6. CASE Claim
  <2>1. pass.pc = "claim" /\ UNCHANGED nodeLog
    BY <1>6 DEF Claim
  <2>2. CASE pass'.pc # "call"
    BY <2>1, <2>2, LockStutter DEF Caller
  <2>3. CASE pass'.pc = "call"
    <3>1. pass'.op = pass.op
      BY <1>6, <2>3, PiecesNotCalling DEF Claim, TypeOK, PassObj
    <3>2. Holder = pass.op \/ NodeGone
      BY <2>1, <2>3, <3>1 DEF LockInv, PassInv, PassLock, Good, Holder, NodeGone
    <3>3. Lock!BeginCall(pass.op)
      BY <2>1, <2>3, <3>1, <3>2 DEF Lock!BeginCall, Holder, NodeGone
    <3> QED
      BY <1>1, <2>1, <3>3 DEF Lock!LockNext
  <2> QED
    BY <2>2, <2>3
<1>7. CASE Call \/ Crash
  <2>1. pass'.pc # "call" /\ UNCHANGED nodeLog
    <3>1. CASE Call
      BY <3>1, PiecesNotCalling DEF Call, Record
    <3>2. CASE Crash
      BY <3>2 DEF Crash, Idle
    <3> QED
      BY <1>7, <3>1, <3>2
  <2>2. CASE pass.pc = "call"
    <3>1. Lock!EndCall
      BY <1>1, <2>1, <2>2 DEF Lock!EndCall, Holder, NodeGone
    <3> QED
      BY <3>1 DEF Lock!LockNext
  <2>3. CASE pass.pc # "call"
    BY <2>1, <2>3, LockStutter DEF Caller
  <2> QED
    BY <2>2, <2>3
<1>8. CASE NodeWrite
  <2>1. UNCHANGED pass /\ ~NodeGone
    BY <1>8 DEF NodeWrite, NodeGone
  <2>2. CASE nodeLog' = Written(nodeLog, Stored(nodeLog))
    <3>1. Stored(nodeLog') = Stored(nodeLog)
      BY <1>2, <2>2, LogEnds, LogWritten
    <3> QED
      BY <2>1, <3>1 DEF Lock!lockVars, Holder, NodeGone
  <2>3. CASE nodeLog' = Written(nodeLog, [kind |-> "gone", lock |-> NoOp])
    <3>1. Stored(nodeLog') = [kind |-> "gone", lock |-> NoOp]
      BY <1>2, <2>3, LogWritten DEF NodeObj
    <3>2. Lock!Vanish
      BY <2>1, <3>1 DEF Lock!Vanish, Holder, NodeGone
    <3> QED
      BY <3>2 DEF Lock!LockNext
  <2> QED
    BY <1>8, <2>2, <2>3 DEF NodeWrite
<1>9. CASE DeliverNode
  <2>1. Stored(nodeLog') = Stored(nodeLog)
    BY <1>2, <1>9, LogDelivered DEF DeliverNode
  <2> QED
    BY <1>9, <2>1 DEF DeliverNode, Lock!lockVars, Holder, NodeGone
<1>10. ASSUME NEW o \in Ops, LeaseExpires(o) \/ SetAbort(o) \/ Delete(o) \/ DeliverOp(o)
              \/ \E s \in {"Requesting", "Departing", "Awaiting"} : DeadlinePasses(o, s)
       PROVE  UNCHANGED Lock!lockVars
  <2>1. UNCHANGED nodeLog /\ pass'.pc = pass.pc /\ pass'.op = pass.op
    BY <1>10 DEF LeaseExpires, SetAbort, Delete, DeliverOp, DeadlinePasses, Disturb, TypeOK, PassObj
  <2> QED
    BY <2>1, LockStutter DEF Caller
<1>11. CASE CpBegin \/ CpEnd \/ CpFault \/ Stream \/ UNCHANGED vars
  BY <1>11, LockStutter DEF CpBegin, CpEnd, CpFault, Stream, vars, Caller
<1> QED
  BY <1>3, <1>4, <1>5, <1>6, <1>7, <1>8, <1>9, <1>10, <1>11
     DEF Next, Worker, PassStep, Environment

\* The controller locks the node as module NodeLock promises: only a free node is
\* taken, only its holder gives it up, and the node does not change hands while a
\* call is being made.
THEOREM LockImplemented == Spec => LockSpec
<1>1. Init => Lock!LockInit
  <2> SUFFICES ASSUME Init PROVE Lock!LockInit
    OBVIOUS
  <2>1. Holder = NoOp /\ NodeGone = FALSE
    <3>1. PICK kind \in {"local", "remote"} : nodeLog = <<[lock |-> NoOp, kind |-> kind]>>
      BY DEF Init
    <3>2. Stored(nodeLog) = [lock |-> NoOp, kind |-> kind]
      BY <3>1 DEF Stored
    <3> QED
      BY <3>2 DEF Holder, NodeGone
  <2>2. ~At("call")
    BY DEF Init, At, Idle
  <2> QED
    BY <2>1, <2>2 DEF Lock!LockInit
<1> QED
  BY <1>1, LockRefines, LockInvariant, TypeCorrect, PTL DEF Spec, LockSpec, Lock!LockSpec

-------------------------------------------------------------------------------
(* Operations read only once their cache has caught up: one call a lease,  *)
(* and an end that is not taken back.                                      *)

\* What a landed write stores, of the operation written and of the others.
LEMMA OpWritten ==
  ASSUME TypeOK, NEW o \in Ops, NEW v \in OpsObj,
         opsLog' = [opsLog EXCEPT ![o] = Written(@, v)]
  PROVE  /\ Op(o)' = v /\ opsLog'[o] = Written(opsLog[o], v)
         /\ \A p \in Ops : p # o => Op(p)' = Op(p) /\ opsLog'[p] = opsLog[p]
<1>1. opsLog[o] \in Seq(OpsObj) /\ Len(opsLog[o]) > 0
  BY DEF TypeOK
<1>2. /\ opsLog'[o] = Written(opsLog[o], v)
      /\ \A p \in Ops : p # o => opsLog'[p] = opsLog[p]
  BY DEF TypeOK
<1> QED
  BY <1>1, <1>2, LogWritten DEF Op

\* The stored versions and the copy of the pass are operation objects.
LEMMA ObjectTypes ==
  ASSUME TypeOK
  PROVE  pass \in PassObj /\ pass.obj \in OpsObj /\ \A o \in Ops : Op(o) \in OpsObj
<1>1. pass \in PassObj /\ LogsOK
  BY DEF TypeOK, LogsOK
<1>2. \A o \in Ops : Op(o) \in OpsObj
  BY <1>1, LogEnds DEF LogsOK, Op
<1> QED
  BY <1>1, <1>2 DEF PassObj

\* A pass that goes on with the operation and the copy it has.
Carries == pass'.op = pass.op /\ pass'.obj = pass.obj /\ pass'.fresh = pass.fresh

\* The pieces of a pass end it or go on with what it has.
LEMMA PieceMoves ==
  ASSUME TypeOK
  PROVE  /\ \A r \in BOOLEAN : End(r) => pass' = Idle
         /\ \A do, arg, then : WriteThen(do, arg, then) => Carries /\ pass'.pc = "write"
         /\ \A do : Say(do) => pass' = Idle \/ (Carries /\ pass'.pc = "write")
         /\ \A pc : Goto(pc) => Carries /\ pass'.pc = pc
<1>1. ASSUME NEW r \in BOOLEAN, End(r) PROVE pass' = Idle
  BY <1>1 DEF End
<1>2. ASSUME NEW do, NEW arg, NEW then, WriteThen(do, arg, then)
      PROVE  Carries /\ pass'.pc = "write"
  BY <1>2 DEF WriteThen, TypeOK, PassObj, Carries
<1>3. ASSUME NEW do, Say(do) PROVE pass' = Idle \/ (Carries /\ pass'.pc = "write")
  BY <1>1, <1>2, <1>3 DEF Say
<1>4. ASSUME NEW pc, Goto(pc) PROVE Carries /\ pass'.pc = pc
  BY <1>4 DEF Goto, TypeOK, PassObj, Carries
<1> QED
  BY <1>1, <1>2, <1>3, <1>4

\* What the steps of a pass that read do to it: an operation's log stands still.
LEMMA ReadMoves ==
  ASSUME TypeOK, AcquireLock \/ Advance \/ ReleaseLock
  PROVE  /\ UNCHANGED <<opsLog, callState>> /\ pass.pc \in {"lock", "step", "release"}
         /\ \/ pass' = Idle
            \/ Carries /\ pass'.pc \in {"write", "step", "claim", "drop"}
<1>1. CASE AcquireLock
  BY <1>1, PieceMoves DEF AcquireLock, Refuse, At, history
<1>2. CASE Advance
  BY <1>2, PieceMoves DEF Advance, Perform, Record, Finish, At, history
<1>3. CASE ReleaseLock
  BY <1>3, PieceMoves DEF ReleaseLock, At, history, TypeOK, PassObj
<1> QED
  BY <1>1, <1>2, <1>3

\* Nobody wrote an operation, and the pass ended or goes on with what it has.
LEMMA PromptRests ==
  ASSUME PromptInv, UNCHANGED <<opsLog, callState>>,
         \/ pass' = Idle
         \/ Carries /\ pass.pc \notin {"idle", "finalizer"} /\ pass'.pc # "call"
         \/ pass' = pass
  PROVE  PromptInv'
<1>1. CallsAccounted'
  BY DEF PromptInv, CallsAccounted, Op
<1>2. CASE pass' = Idle
  <2>1. pass'.pc = "idle"
    BY <1>2 DEF Idle
  <2> QED
    BY <1>1, <2>1 DEF PromptInv, PassKept, PassInStep, OneCallPerLease, At
<1>3. CASE pass' # Idle
  BY <1>1, <1>3 DEF PromptInv, PassKept, PassInStep, OneCallPerLease, At, Op, Carries
<1> QED
  BY <1>2, <1>3

\* A pass begins with the stored version.
LEMMA PromptReconcile ==
  ASSUME TypeOK, OpsPrompt, PromptInv, NEW o \in Ops, Reconcile(o)
  PROVE  PromptInv'
<1> DEFINE v == Cached(opsLog[o])
<1>1. UNCHANGED <<opsLog, callState>> /\ Current(opsLog[o])
  BY DEF Reconcile, history
<1>2. v = Op(o) /\ v \in OpsObj
  BY <1>1, LogEnds DEF TypeOK, Op
<1>3. CASE pass' = pass
  BY <1>1, <1>3, PromptRests
<1>4. CASE pass' # pass
  <2>1. /\ v.exists /\ (v.deleted => v.finalizer)
        /\ pass'.op = o /\ pass'.obj = v /\ pass'.pc = Entry(v)
    BY <1>4 DEF Reconcile, Idle
  <2>2. /\ Entry(v) # "call" /\ (Entry(v) # "finalizer" => v.finalizer)
    BY <2>1 DEF Entry
  <2> HIDE DEF v
  <2>3. Op(o)' = v /\ Op(pass.op)' = v
    BY <1>1, <1>2, <2>1 DEF Op
  <2>4. PassKept' /\ PassInStep' /\ OneCallPerLease'
    BY <2>1, <2>2, <2>3 DEF PassKept, PassInStep, SameStatus, OneCallPerLease, At
  <2>5. CallsAccounted'
    BY <1>1 DEF PromptInv, CallsAccounted, Op
  <2> QED
    BY <2>4, <2>5 DEF PromptInv
<1> QED
  BY <1>3, <1>4

\* The finalizer leaves the status alone, and an object that is gone accounts for
\* every call.
LEMMA PromptFinalizer ==
  ASSUME TypeOK, LockInv, PromptInv, AddFinalizer \/ DropFinalizer
  PROVE  PromptInv'
<1>1. /\ pass' = Idle /\ UNCHANGED callState /\ pass.op \in Ops /\ pass.obj \in OpsObj
      /\ ~At("idle")
  BY DEF AddFinalizer, DropFinalizer, End, At, TypeOK, PassObj, history
<1>2. CASE UNCHANGED opsLog
  BY <1>1, <1>2, PromptRests
<1>3. CASE AddFinalizer /\ ~UNCHANGED opsLog
  <2> DEFINE v == [pass.obj EXCEPT !.finalizer = TRUE]
  <2>1. v \in OpsObj /\ v.exists = pass.obj.exists /\ SameStatus(v, pass.obj)
    BY <1>1 DEF OpsObj, SameStatus
  <2>2. pass.fresh /\ opsLog' = [opsLog EXCEPT ![pass.op] = Written(@, v)]
    BY <1>3 DEF AddFinalizer, Land
  <2> HIDE DEF v
  <2>3. Op(pass.op).exists /\ SameStatus(pass.obj, Op(pass.op))
    BY <1>1, <1>3, <2>2
       DEF AddFinalizer, At, LockInv, PassInv, PassFresh, Releasing, PromptInv, PassInStep
  <2>4. Accounted(Op(pass.op)) => Accounted(v)
    BY <2>1, <2>3 DEF Accounted, SameStatus
  <2>5. PICK o \in Ops : o = pass.op
    BY <1>1
  <2>6. Op(o)' = v /\ \A p \in Ops : p # o => Op(p)' = Op(p)
    BY <2>1, <2>2, <2>5, OpWritten
  <2>7. CallsAccounted'
    BY <1>1, <2>4, <2>5, <2>6 DEF PromptInv, CallsAccounted
  <2> QED
    BY <1>1, <2>7 DEF PromptInv, PassKept, PassInStep, OneCallPerLease, At, Idle
<1>4. CASE DropFinalizer /\ ~UNCHANGED opsLog
  <2>1. GoneOp \in OpsObj /\ ~GoneOp.exists
    BY ObjTypes DEF GoneOp, NewOp
  <2>2. opsLog' = [opsLog EXCEPT ![pass.op] = Written(@, GoneOp)]
    BY <1>4 DEF DropFinalizer, Land
  <2>3. PICK o \in Ops : o = pass.op
    BY <1>1
  <2>4. Op(o)' = GoneOp /\ \A p \in Ops : p # o => Op(p)' = Op(p)
    BY <2>1, <2>2, <2>3, OpWritten
  <2>5. CallsAccounted'
    BY <1>1, <2>1, <2>3, <2>4 DEF PromptInv, CallsAccounted, Accounted
  <2> QED
    BY <1>1, <2>5 DEF PromptInv, PassKept, PassInStep, OneCallPerLease, At, Idle
<1> QED
  BY <1>2, <1>3, <1>4

\* The claim is taken on the stored version, and only where none is live.
LEMMA PromptClaim ==
  ASSUME TypeOK, LockInv, PromptInv, Claim
  PROVE  PromptInv'
<1>1. /\ At("claim") /\ ~At("idle") /\ ~At("finalizer") /\ pass.op \in Ops
      /\ UNCHANGED callState
  BY DEF Claim, At, TypeOK, history
<1>2. CASE UNCHANGED opsLog /\ (Say("wait") \/ Say("note"))
  BY <1>1, <1>2, PieceMoves, PromptRests DEF At
<1>3. PICK o \in Ops : o = pass.op
  BY <1>1
<1> DEFINE s == Op(o)  v == [s EXCEPT !.claim = "live"]
<1>4. CASE /\ pass.obj.claim # "live"
           /\ opsLog' = [opsLog EXCEPT ![o] = Written(@, v)]
           /\ pass' = [pass EXCEPT !.obj = v, !.pc = "call"]
  <2>1. s \in OpsObj
    BY LogEnds DEF TypeOK, Op
  <2>2. /\ v \in OpsObj /\ v.exists = s.exists /\ v.finalizer = s.finalizer
        /\ v.phase = s.phase /\ v.step = s.step /\ v.claim = "live"
    BY <2>1 DEF OpsObj, Leases
  <2>3. pass'.pc = "call" /\ pass'.op = o /\ pass'.obj = v
    BY <1>3, <1>4 DEF TypeOK, PassObj
  <2> HIDE DEF v
  <2>4. Op(o)' = v /\ Op(pass.op)' = v /\ \A p \in Ops : p # o => Op(p)' = Op(p)
    <3>1. Op(o)' = v /\ \A p \in Ops : p # o => Op(p)' = Op(p)
      BY <1>4, <2>2, OpWritten
    <3> QED
      BY <2>3, <3>1 DEF Op
  <2>5. s.exists /\ s.finalizer /\ SameStatus(pass.obj, s)
    BY <1>1, <1>3 DEF PromptInv, PassKept, PassInStep
  <2>6. ~Terminal(pass.obj.phase) /\ pass.obj.step = "Requesting"
    BY <1>1 DEF LockInv, PassInv, PassObject, Releasing, At
  <2>7. callState[o] # "live"
    BY <1>4, <2>5, <2>6 DEF PromptInv, CallsAccounted, Accounted, SameStatus
  <2>8. CallsAccounted'
    BY <1>1, <2>4, <2>7 DEF PromptInv, CallsAccounted
  <2>9. PassKept' /\ PassInStep' /\ OneCallPerLease'
    BY <1>1, <2>2, <2>3, <2>4, <2>5, <2>7
       DEF PassKept, PassInStep, SameStatus, OneCallPerLease, At
  <2> QED
    BY <2>8, <2>9 DEF PromptInv
<1> QED
  BY <1>2, <1>3, <1>4 DEF Claim, Land, Op

\* A call is accounted for by the claim it is made under.
LEMMA PromptCall ==
  ASSUME TypeOK, LockInv, PromptInv, Call
  PROVE  PromptInv'
<1>1. /\ At("call") /\ ~At("idle") /\ ~At("finalizer") /\ pass.op \in Ops
      /\ UNCHANGED opsLog /\ callState' = [callState EXCEPT ![pass.op] = pass.obj.claim]
  BY DEF Call, At, TypeOK
<1>2. pass' = Idle \/ (Carries /\ pass'.pc = "write")
  BY PieceMoves DEF Call, Record
<1>3. PassKept' /\ PassInStep' /\ OneCallPerLease'
  <2>1. CASE pass' = Idle
    BY <2>1 DEF Idle, PassKept, PassInStep, OneCallPerLease, At
  <2>2. CASE Carries /\ pass'.pc = "write"
    BY <1>1, <2>2 DEF PromptInv, PassKept, PassInStep, OneCallPerLease, At, Op, Carries
  <2> QED
    BY <1>2, <2>1, <2>2
<1>4. pass.obj.step = "Requesting" /\ SameStatus(pass.obj, Op(pass.op))
  BY <1>1 DEF LockInv, PassInv, PassObject, PromptInv, PassKept, PassInStep
<1>5. ASSUME NEW o \in Ops, callState'[o] = "live" PROVE Accounted(Op(o))'
  <2>1. CASE o = pass.op
    BY <1>1, <1>4, <1>5, <2>1 DEF TypeOK, Accounted, SameStatus, Op
  <2>2. CASE o # pass.op
    BY <1>1, <1>5, <2>2 DEF TypeOK, PromptInv, CallsAccounted, Accounted, Op
  <2> QED
    BY <2>1, <2>2
<1> QED
  BY <1>3, <1>5 DEF PromptInv, CallsAccounted

\* A status that is past its claim, or holds it.
PastClaim(w) ==
  \/ Terminal(w.phase) \/ w.step \in {"Departing", "Awaiting", "Completed"}
  \/ w.step = "Requesting" /\ w.claim = "live"

\* What a mutation makes of a claim in flight.
LEMMA MutateAccounts ==
  ASSUME NEW base \in OpsObj, NEW read \in OpsObj, NEW do \in Writes, do # "", NEW arg,
         SameStatus(base, read), ~Terminal(read.phase), Accounted(base), base.exists,
         do = "record" => arg \in Steps /\ arg # "" /\ (arg = "Requesting" => read.step = ""),
         do = "finish" => Terminal(arg)
  PROVE  PastClaim(Mutate(base, do, arg, read))
<1> DEFINE w == Mutate(base, do, arg, read)
<1>1. CASE do \in {"run", "hold", "note"}
  <2>1. w.step = base.step /\ w.claim = base.claim
    BY <1>1 DEF Mutate, OpsObj
  <2> QED
    BY <2>1 DEF Accounted, SameStatus, PastClaim
<1>2. CASE do = "wait"
  <2>1. w.step = base.step /\ w.claim = base.claim
    BY <1>2 DEF Mutate, SnapshotOf, OpsObj, SameStatus
  <2> QED
    BY <2>1 DEF Accounted, SameStatus, PastClaim
<1>3. CASE do = "record"
  <2>1. w.step = arg
    BY <1>3 DEF Mutate, OpsObj
  <2> QED
    BY <1>3, <2>1 DEF Accounted, SameStatus, Steps, PastClaim
<1>4. CASE do = "finish"
  <2>1. w.phase = arg
    BY <1>4 DEF Mutate, OpsObj
  <2> QED
    BY <1>4, <2>1 DEF PastClaim
<1> QED
  BY <1>1, <1>2, <1>3, <1>4 DEF Writes

\* A status write that lands is computed from the status that is stored.
LEMMA PromptWriteBase ==
  ASSUME TypeOK, LockInv, PromptInv, At("write"), NEW o \in Ops, o = pass.op,
         pass.fresh \/ Current(opsLog[o])
  PROVE  LET base == IF pass.fresh THEN pass.obj ELSE Cached(opsLog[o]) IN
         /\ base \in OpsObj /\ SameStatus(base, pass.obj) /\ base.exists
         /\ SameStatus(base, Op(o)) /\ Op(o).exists /\ Op(o).finalizer
         /\ ~Terminal(pass.obj.phase)
<1>1. ~At("idle") /\ ~At("finalizer") /\ ~Releasing /\ pass.obj \in OpsObj
  BY DEF At, Releasing, TypeOK, PassObj
<1>2. /\ Op(o).exists /\ Op(o).finalizer /\ SameStatus(pass.obj, Op(o))
      /\ ~Terminal(pass.obj.phase) /\ pass.obj.exists
  BY <1>1 DEF PromptInv, PassKept, PassInStep, LockInv, PassInv, PassObject
<1>3. Op(o) \in OpsObj /\ (~pass.fresh => Cached(opsLog[o]) = Op(o))
  BY LogEnds DEF TypeOK, Op
<1> QED
  BY <1>1, <1>2, <1>3 DEF SameStatus

\* So it keeps the pass in step, and a call in flight accounted for.
LEMMA PromptWriteStatus ==
  ASSUME TypeOK, LockInv, PromptInv, WriteStatus
  PROVE  PromptInv'
<1>1. /\ At("write") /\ ~At("idle") /\ ~At("finalizer") /\ ~Releasing /\ pass.op \in Ops
      /\ UNCHANGED callState
  BY DEF WriteStatus, At, Releasing, TypeOK, history
<1>2. CASE End(TRUE) /\ UNCHANGED opsLog
  BY <1>1, <1>2, PieceMoves, PromptRests
<1>3. PICK o \in Ops : o = pass.op
  BY <1>1
<1> DEFINE base == IF pass.fresh THEN pass.obj ELSE Cached(opsLog[o])
           w == Mutate(base, pass.do, pass.arg, pass.obj)
           v == WithStatus(Op(o), w)
<1>4. CASE /\ pass.fresh \/ Current(opsLog[o])
           /\ opsLog' = [opsLog EXCEPT ![o] = Written(@, v)] /\ AfterWrite(w)
  <2>1. /\ base \in OpsObj /\ SameStatus(base, pass.obj) /\ base.exists
        /\ SameStatus(base, Op(o)) /\ Op(o).exists /\ Op(o).finalizer
        /\ ~Terminal(pass.obj.phase)
    BY <1>1, <1>3, <1>4, PromptWriteBase
  <2>2. /\ pass.obj \in OpsObj /\ pass.do \in Writes /\ pass.arg \in Steps \cup Phases
        /\ WellFormed(pass.do, pass.arg) /\ Op(o) \in OpsObj
    <3>1. PassOK
      BY TypeParts
    <3> QED
      BY <1>1, <3>1, ObjectTypes DEF PassOK, PassObj
  <2>3. /\ pass.do # "" /\ (pass.do = "finish" => Terminal(pass.arg))
        /\ pass.do = "record" => /\ pass.arg \in Steps /\ pass.arg # ""
                                 /\ pass.arg = "Requesting" => pass.obj.step = ""
    BY <1>1, <2>2 DEF LockInv, PassInv, PassWrite, WellFormed
  <2> HIDE DEF base
  <2>4. w \in OpsObj
    BY <2>1, <2>2, MutateType
  <2>5. Accounted(base) =>
          \/ Terminal(w.phase) \/ w.step \in {"Departing", "Awaiting", "Completed"}
          \/ w.step = "Requesting" /\ w.claim = "live"
    <3>1. ASSUME NEW d \in Writes, d = pass.do, NEW read \in OpsObj, read = pass.obj,
                 Accounted(base)
          PROVE  PastClaim(w)
      <4>1. w = Mutate(base, d, pass.arg, read)
        BY <3>1
      <4> HIDE DEF w
      <4>2. /\ d # "" /\ SameStatus(base, read) /\ ~Terminal(read.phase)
            /\ base \in OpsObj /\ base.exists
        BY <2>1, <2>3, <3>1
      <4>3. /\ (d = "record" => pass.arg \in Steps /\ pass.arg # ""
                                 /\ (pass.arg = "Requesting" => read.step = ""))
            /\ (d = "finish" => Terminal(pass.arg))
        BY <2>3, <3>1
      <4> QED
        BY <3>1, <4>1, <4>2, <4>3, MutateAccounts
    <3> QED
      BY <2>2, <3>1 DEF PastClaim
  <2> HIDE DEF w
  <2>6. v \in OpsObj /\ SameStatus(v, w) /\ v.exists /\ v.finalizer
    BY <2>1, <2>2, <2>4 DEF WithStatus, OpsObj, SameStatus
  <2> HIDE DEF v
  <2>7. Op(o)' = v /\ \A p \in Ops : p # o => Op(p)' = Op(p)
    BY <1>4, <2>6, OpWritten
  <2>8. Accounted(Op(o)) => Accounted(v)
    <3>1. Accounted(Op(o)) => Accounted(base)
      BY <2>1 DEF Accounted, SameStatus
    <3> QED
      BY <2>5, <2>6, <3>1 DEF Accounted, SameStatus
  <2>9. CallsAccounted'
    BY <1>1, <2>7, <2>8 DEF PromptInv, CallsAccounted
  <2>10. CASE pass' = Idle
    BY <2>9, <2>10 DEF PromptInv, PassKept, PassInStep, OneCallPerLease, At, Idle
  <2>11. CASE pass' # Idle
    <3>1. /\ pass'.op = o /\ pass'.obj = WithStatus(pass.obj, w)
          /\ pass'.pc \in {"step", "release"}
      BY <1>3, <1>4, <2>11 DEF AfterWrite, End, TypeOK, PassObj
    <3>2. SameStatus(WithStatus(pass.obj, w), w)
      BY <2>2, <2>4 DEF WithStatus, OpsObj, SameStatus
    <3>3. Op(pass.op)' = v
      BY <2>7, <3>1 DEF Op
    <3>4. PassKept' /\ PassInStep' /\ OneCallPerLease'
      BY <2>6, <3>1, <3>2, <3>3
         DEF PassKept, PassInStep, SameStatus, OneCallPerLease, At
    <3> QED
      BY <2>9, <3>4 DEF PromptInv
  <2> QED
    BY <2>10, <2>11
<1> QED
  BY <1>2, <1>3, <1>4 DEF WriteStatus, Land, Op

\* Both clocks change every copy of an operation alike.
LEMMA ClockMoves ==
  ASSUME TypeOK, NEW o \in Ops, NEW f \in [OpsObj -> OpsObj],
         opsLog' = [opsLog EXCEPT ![o] = [i \in 1..Len(@) |-> f[@[i]]]]
  PROVE  /\ Op(o)' = f[Op(o)] /\ Len(opsLog'[o]) = Len(opsLog[o])
         /\ \A i \in 1..Len(opsLog[o]) : opsLog'[o][i] = f[opsLog[o][i]]
         /\ \A p \in Ops : p # o => opsLog'[p] = opsLog[p] /\ Op(p)' = Op(p)
<1>1. opsLog[o] \in Seq(OpsObj) /\ Len(opsLog[o]) \in Nat \ {0}
  BY DEF TypeOK
<1>2. /\ opsLog'[o] = [i \in 1..Len(opsLog[o]) |-> f[opsLog[o][i]]]
      /\ \A p \in Ops : p # o => opsLog'[p] = opsLog[p]
  BY DEF TypeOK
<1>3. Len(opsLog'[o]) = Len(opsLog[o])
  BY <1>1, <1>2
<1> QED
  BY <1>1, <1>2, <1>3 DEF Op, Stored

LEMMA PromptClock ==
  ASSUME TypeOK, PromptInv, NEW o \in Ops, NEW f \in [OpsObj -> OpsObj],
         \A v \in OpsObj : f[v].exists = v.exists /\ f[v].finalizer = v.finalizer,
         \A v, w \in OpsObj : SameStatus(v, w) => SameStatus(f[v], f[w]),
         opsLog' = [opsLog EXCEPT ![o] = [i \in 1..Len(@) |-> f[@[i]]]],
         pass' = IF pass.op = o THEN [pass EXCEPT !.obj = f[@]] ELSE pass
  PROVE  PassKept' /\ PassInStep'
<1>1. Op(o)' = f[Op(o)] /\ \A p \in Ops : p # o => Op(p)' = Op(p)
  BY ClockMoves
<1>2. Op(o) \in OpsObj /\ pass.obj \in OpsObj
  BY ObjectTypes
<1>3. pass'.pc = pass.pc /\ pass'.op = pass.op
  BY DEF TypeOK, PassObj
<1>4. CASE pass.op = o
  <2>1. pass'.obj = f[pass.obj] /\ Op(pass.op)' = f[Op(o)]
    BY <1>1, <1>3, <1>4 DEF TypeOK, PassObj, Op
  <2> QED
    BY <1>2, <1>3, <1>4, <2>1 DEF PromptInv, PassKept, PassInStep, At
<1>5. CASE pass.op # o /\ ~At("idle")
  <2>1. pass' = pass /\ pass.op \in Ops
    BY <1>5 DEF TypeOK
  <2>2. Op(pass.op)' = Op(pass.op)
    BY <1>1, <1>5, <2>1 DEF Op
  <2> QED
    BY <2>1, <2>2 DEF PromptInv, PassKept, PassInStep, At
<1>6. CASE At("idle")
  BY <1>3, <1>6 DEF PassKept, PassInStep, At
<1> QED
  BY <1>4, <1>5, <1>6

\* An expired lease trusts no call; a passed deadline moves no claim.
LEMMA PromptTime ==
  ASSUME TypeOK, PromptInv, NEW o \in Ops,
         \/ LeaseExpires(o)
         \/ \E s \in {"Requesting", "Departing", "Awaiting"} : DeadlinePasses(o, s)
  PROVE  PromptInv'
<1>1. opsLog[o] \in Seq(OpsObj) /\ pass.obj \in OpsObj
  BY DEF TypeOK, PassObj
<1>2. CASE LeaseExpires(o)
  <2> DEFINE f == [v \in OpsObj |-> Expired(v)]
  <2>1. f \in [OpsObj -> OpsObj]
    BY ObjTypes
  <2>2. /\ \A v \in OpsObj : f[v].exists = v.exists /\ f[v].finalizer = v.finalizer
        /\ \A v, w \in OpsObj : SameStatus(v, w) => SameStatus(f[v], f[w])
    BY DEF Expired, OpsObj, SameStatus
  <2>3. \A v \in OpsObj :
          /\ f[v].phase = v.phase /\ f[v].step = v.step /\ f[v] = Expired(v)
    BY DEF Expired, OpsObj
  <2>4. \A i \in 1..Len(opsLog[o]) : f[opsLog[o][i]] = Expired(opsLog[o][i])
    BY <1>1
  <2>5. opsLog' = [opsLog EXCEPT ![o] = [i \in 1..Len(@) |-> f[@[i]]]]
    BY <1>2, <2>4 DEF LeaseExpires
  <2>6. pass' = IF pass.op = o THEN [pass EXCEPT !.obj = f[@]] ELSE pass
    BY <1>1, <1>2 DEF LeaseExpires
  <2>7. /\ callState'[o] # "live" /\ \A p \in Ops : p # o => callState'[p] = callState[p]
        /\ pass'.pc = pass.pc /\ pass'.op = pass.op
    BY <1>2 DEF LeaseExpires, TypeOK, PassObj
  <2> HIDE DEF f
  <2>8. PassKept' /\ PassInStep'
    BY <2>1, <2>2, <2>5, <2>6, PromptClock
  <2>9. \A p \in Ops : p # o => Op(p)' = Op(p)
    BY <2>1, <2>5, ClockMoves
  <2>10. CallsAccounted'
    BY <2>7, <2>9 DEF PromptInv, CallsAccounted
  <2>11. OneCallPerLease'
    BY <2>7 DEF PromptInv, OneCallPerLease, At, TypeOK
  <2> QED
    BY <2>8, <2>10, <2>11 DEF PromptInv
<1>3. ASSUME NEW s \in {"Requesting", "Departing", "Awaiting"}, DeadlinePasses(o, s)
      PROVE  PromptInv'
  <2> DEFINE f == [v \in OpsObj |-> Overdue(v, s)]
  <2>1. f \in [OpsObj -> OpsObj]
    BY ObjTypes DEF Steps
  <2>2. /\ \A v \in OpsObj : f[v].exists = v.exists /\ f[v].finalizer = v.finalizer
        /\ \A v, w \in OpsObj : SameStatus(v, w) => SameStatus(f[v], f[w])
    BY DEF Overdue, OpsObj, SameStatus
  <2>3. \A v \in OpsObj :
          f[v].phase = v.phase /\ f[v].step = v.step /\ f[v].claim = v.claim
    BY DEF Overdue, OpsObj
  <2>4. \A i \in 1..Len(opsLog[o]) : f[opsLog[o][i]] = Overdue(opsLog[o][i], s)
    BY <1>1
  <2>5. opsLog' = [opsLog EXCEPT ![o] = [i \in 1..Len(@) |-> f[@[i]]]]
    BY <1>3, <2>4 DEF DeadlinePasses
  <2>6. pass' = IF pass.op = o THEN [pass EXCEPT !.obj = f[@]] ELSE pass
    BY <1>1, <1>3 DEF DeadlinePasses
  <2>7. UNCHANGED callState /\ pass'.pc = pass.pc /\ pass'.op = pass.op
    BY <1>3 DEF DeadlinePasses, history, TypeOK, PassObj
  <2> HIDE DEF f
  <2>8. PassKept' /\ PassInStep'
    BY <2>1, <2>2, <2>5, <2>6, PromptClock
  <2>9. Op(o)' = f[Op(o)] /\ \A p \in Ops : p # o => Op(p)' = Op(p)
    BY <2>1, <2>5, ClockMoves
  <2>10. Op(o) \in OpsObj
    BY LogEnds DEF TypeOK, Op
  <2>11. Accounted(Op(o)) => Accounted(f[Op(o)])
    BY <2>2, <2>3, <2>10 DEF Accounted
  <2>12. CallsAccounted'
    BY <2>7, <2>9, <2>11 DEF PromptInv, CallsAccounted
  <2>13. OneCallPerLease'
    BY <2>7 DEF PromptInv, OneCallPerLease, At
  <2> QED
    BY <2>8, <2>12, <2>13 DEF PromptInv
<1> QED
  BY <1>2, <1>3

\* The user changes no status, and the finalizer keeps the object from going.
LEMMA PromptUser ==
  ASSUME TypeOK, PromptInv, NEW o \in Ops, SetAbort(o) \/ Delete(o)
  PROVE  PromptInv'
<1> DEFINE s == Op(o)
<1>1. /\ s \in OpsObj /\ UNCHANGED callState
      /\ pass'.pc = pass.pc /\ pass'.op = pass.op /\ pass'.obj = pass.obj
  <2>1. s \in OpsObj /\ pass \in PassObj
    BY ObjectTypes
  <2>2. UNCHANGED callState /\ Disturb(o)
    BY DEF SetAbort, Delete, history
  <2> QED
    BY <2>1, <2>2 DEF Disturb, PassObj
<1>2. PICK v \in OpsObj :
        /\ opsLog' = [opsLog EXCEPT ![o] = Written(@, v)]
        /\ \/ SameStatus(v, s) /\ v.exists = s.exists /\ v.finalizer = s.finalizer
           \/ ~s.finalizer /\ ~v.exists
  <2>1. CASE SetAbort(o)
    <3> DEFINE w == [s EXCEPT !.abort = TRUE]
    <3>1. w \in OpsObj /\ SameStatus(w, s) /\ w.exists = s.exists /\ w.finalizer = s.finalizer
      BY <1>1 DEF OpsObj, SameStatus
    <3> QED
      BY <2>1, <3>1 DEF SetAbort, Op
  <2>2. CASE Delete(o) /\ s.finalizer
    <3> DEFINE w == [s EXCEPT !.deleted = TRUE]
    <3>1. w \in OpsObj /\ SameStatus(w, s) /\ w.exists = s.exists /\ w.finalizer = s.finalizer
      BY <1>1 DEF OpsObj, SameStatus
    <3> QED
      BY <2>2, <3>1 DEF Delete, Op
  <2>3. CASE Delete(o) /\ ~s.finalizer
    <3>1. GoneOp \in OpsObj /\ ~GoneOp.exists
      BY ObjTypes DEF GoneOp, NewOp
    <3> QED
      BY <2>3, <3>1 DEF Delete, Op
  <2> QED
    BY <2>1, <2>2, <2>3
<1>3. Op(o)' = v /\ \A p \in Ops : p # o => Op(p)' = Op(p)
  BY <1>2, OpWritten
<1>4. Accounted(s) => Accounted(v)
  BY <1>2 DEF Accounted, SameStatus
<1>5. CallsAccounted'
  BY <1>1, <1>3, <1>4 DEF PromptInv, CallsAccounted
<1>6. OneCallPerLease'
  BY <1>1 DEF PromptInv, OneCallPerLease, At
<1>7. PassKept' /\ PassInStep'
  <2>1. CASE At("idle")
    BY <1>1, <2>1 DEF PassKept, PassInStep, At
  <2>2. CASE ~At("idle") /\ pass.op = o
    <3>1. Op(pass.op)' = v
      BY <1>1, <1>3, <2>2 DEF Op
    <3> QED
      BY <1>1, <1>2, <2>2, <3>1 DEF PromptInv, PassKept, PassInStep, SameStatus, At
  <2>3. CASE ~At("idle") /\ pass.op # o
    <3>1. Op(pass.op)' = Op(pass.op)
      BY <1>1, <1>3, <2>3 DEF Op, TypeOK
    <3> QED
      BY <1>1, <2>3, <3>1 DEF PromptInv, PassKept, PassInStep, SameStatus, At
  <2> QED
    BY <2>1, <2>2, <2>3
<1> QED
  BY <1>5, <1>6, <1>7 DEF PromptInv

\* A delivery changes what the cache shows, not what is stored.
LEMMA PromptDeliver ==
  ASSUME TypeOK, PromptInv, NEW o \in Ops, DeliverOp(o)
  PROVE  PromptInv'
<1>1. opsLog[o] \in Seq(OpsObj) /\ Len(opsLog[o]) > 1
  BY DEF TypeOK, DeliverOp
<1>2. \A p \in Ops : Op(p)' = Op(p)
  BY <1>1, LogDelivered DEF TypeOK, DeliverOp, Op
<1>3. UNCHANGED <<pass, callState>>
  BY DEF DeliverOp, history
<1>4. CallsAccounted' /\ OneCallPerLease'
  BY <1>2, <1>3 DEF PromptInv, CallsAccounted, OneCallPerLease, At
<1>5. PassKept' /\ PassInStep'
  <2>1. ~At("idle") => Op(pass.op)' = Op(pass.op)
    BY <1>2, <1>3 DEF TypeOK, Op
  <2> QED
    BY <1>3, <2>1 DEF PromptInv, PassKept, PassInStep, At
<1> QED
  BY <1>4, <1>5 DEF PromptInv

\* Every step keeps the invariant.
LEMMA PromptStep ==
  ASSUME OpsPrompt
  PROVE  TypeOK /\ LockInv /\ PromptInv /\ [Next]_vars => PromptInv'
<1> SUFFICES ASSUME TypeOK, LockInv, PromptInv, [Next]_vars PROVE PromptInv'
  OBVIOUS
<1>1. CASE AcquireLock \/ Advance \/ ReleaseLock
  BY <1>1, ReadMoves, PromptRests
<1>2. CASE AddFinalizer \/ DropFinalizer \/ Claim \/ Call \/ WriteStatus
  BY <1>2, PromptFinalizer, PromptClaim, PromptCall, PromptWriteStatus
<1>3. ASSUME NEW o \in Ops, Reconcile(o) PROVE PromptInv'
  BY <1>3, PromptReconcile
<1>4. ASSUME NEW o \in Ops,
             \/ DeliverOp(o) \/ LeaseExpires(o) \/ SetAbort(o) \/ Delete(o)
             \/ \E s \in {"Requesting", "Departing", "Awaiting"} : DeadlinePasses(o, s)
      PROVE  PromptInv'
  BY <1>4, PromptDeliver, PromptTime, PromptUser
<1>5. CASE Crash
  BY <1>5, PromptRests DEF Crash
<1>6. CASE \/ DeliverNode \/ NodeWrite \/ CpBegin \/ CpEnd \/ CpFault \/ Stream
           \/ UNCHANGED vars
  BY <1>6, PromptRests
     DEF DeliverNode, NodeWrite, CpBegin, CpEnd, CpFault, Stream, history, vars
<1> QED
  BY <1>1, <1>2, <1>3, <1>4, <1>5, <1>6 DEF Next, Worker, PassStep, Environment

\* It holds before anything has happened.
LEMMA PromptBegin == Init => PromptInv
<1> SUFFICES ASSUME Init PROVE PromptInv
  OBVIOUS
<1>1. pass.pc = "idle" /\ \A o \in Ops : callState[o] # "live"
  BY DEF Init, Idle
<1> QED
  BY <1>1 DEF PromptInv, PassKept, PassInStep, CallsAccounted, OneCallPerLease, At

\* With operations read promptly, no call is made while an earlier call of the same
\* operation is still trusted to be in flight, whatever crashes or the user does in
\* between (WithClaim, stepclaim.Writer).
THEOREM CallsOncePerLease ==
  ASSUME OpsPrompt
  PROVE  Spec => []OneCallPerLease
<1>1. TypeOK /\ LockInv /\ PromptInv /\ [Next]_vars => PromptInv'
  BY PromptStep
<1>2. PromptInv => OneCallPerLease
  BY DEF PromptInv
<1> QED
  BY <1>1, <1>2, PromptBegin, TypeCorrect, LockInvariant, PTL DEF Spec

\* Only an operation's own release gives its node up while the node exists.
LEMMA Unlocks ==
  ASSUME TypeOK, [Next]_vars, NEW o \in Ops, Holder = o, Holder' = NoOp, ~NodeGone'
  PROVE  At("release") /\ pass.op = o
<1>0. /\ nodeLog \in Seq(NodeObj) /\ Len(nodeLog) > 0 /\ o # NoOp
      /\ Stored(nodeLog) \in NodeObj /\ Cached(nodeLog) \in NodeObj
      /\ Current(nodeLog) => Cached(nodeLog) = Stored(nodeLog)
  BY LogEnds, NodeOpsAssumption DEF TypeOK
<1>1. ASSUME UNCHANGED nodeLog PROVE FALSE
  BY <1>0, <1>1 DEF Holder
<1>2. CASE AcquireLock
  <2>1. Cached(nodeLog).lock = NoOp /\ Current(nodeLog)
    BY <1>1, <1>2 DEF AcquireLock, PatchLands
  <2> QED
    BY <1>0, <2>1 DEF Holder
<1>3. CASE ReleaseLock
  <2>1. At("release") /\ Owned(Cached(nodeLog), pass.op) /\ Current(nodeLog)
    BY <1>1, <1>3 DEF ReleaseLock, PatchLands
  <2> QED
    BY <1>0, <2>1 DEF Owned, Holder
<1>4. CASE NodeWrite
  <2>1. \/ nodeLog' = Written(nodeLog, Stored(nodeLog))
        \/ nodeLog' = Written(nodeLog, [kind |-> "gone", lock |-> NoOp])
    BY <1>4 DEF NodeWrite
  <2>2. [kind |-> "gone", lock |-> NoOp] \in NodeObj
    BY DEF NodeObj
  <2>3. \/ Stored(nodeLog') = Stored(nodeLog)
        \/ Stored(nodeLog') = [kind |-> "gone", lock |-> NoOp]
    BY <1>0, <2>1, <2>2, LogWritten
  <2> QED
    BY <1>0, <2>3 DEF Holder, NodeGone
<1>5. CASE DeliverNode
  <2>1. Stored(nodeLog') = Stored(nodeLog)
    BY <1>0, <1>5, LogDelivered DEF DeliverNode
  <2> QED
    BY <1>0, <2>1 DEF Holder
<1>6. CASE \/ AddFinalizer \/ Advance \/ Claim \/ Call \/ WriteStatus \/ DropFinalizer
           \/ Crash \/ CpBegin \/ CpEnd \/ CpFault \/ Stream \/ UNCHANGED vars
           \/ \E p \in Ops : \/ Reconcile(p) \/ DeliverOp(p) \/ LeaseExpires(p)
                             \/ SetAbort(p) \/ Delete(p)
                             \/ \E s \in {"Requesting", "Departing", "Awaiting"} :
                                  DeadlinePasses(p, s)
  BY <1>1, <1>6 DEF AddFinalizer, Advance, Claim, Call, WriteStatus, DropFinalizer, Crash,
     CpBegin, CpEnd, CpFault, Stream, vars, Reconcile, DeliverOp, LeaseExpires,
     SetAbort, Delete, DeadlinePasses
<1> QED
  BY <1>2, <1>3, <1>4, <1>5, <1>6 DEF Next, Worker, PassStep, Environment

\* With operations read promptly, a node is given up only by an operation that has
\* ended or is being deleted (releaseLock, teardown).
THEOREM GivenUpWhenDone ==
  ASSUME OpsPrompt
  PROVE  Spec => ReleasedWhenDone
<1>1. ASSUME TypeOK, LockInv, PromptInv, [Next]_vars, NEW o \in Ops,
             Holder = o, Holder' = NoOp, ~NodeGone'
      PROVE  Terminal(Op(o).phase) \/ Op(o).deleted
  <2>1. At("release") /\ pass.op = o
    BY <1>1, Unlocks
  <2>2. /\ ~At("idle") /\ ~At("finalizer") /\ Releasing
    BY <2>1 DEF At, Releasing
  <2>3. Op(o).exists /\ SameStatus(pass.obj, Op(o))
    BY <1>1, <2>1, <2>2 DEF PromptInv, PassKept, PassInStep
  <2>4. /\ Terminal(pass.obj.phase) \/ pass.obj.deleted
        /\ pass.obj.deleted => Dead(Cached(opsLog[o]))
        /\ LogShape(opsLog[o])
    BY <1>1, <2>1, <2>2 DEF LockInv, PassInv, PassObject, PassCache, OpInv
  <2>5. Dead(Cached(opsLog[o])) => Dead(Op(o))
    <3>1. /\ Len(opsLog[o]) \in Nat \ {0} /\ Cached(opsLog[o]) = opsLog[o][1]
          /\ Op(o) = opsLog[o][Len(opsLog[o])]
      BY <1>1, LogEnds DEF TypeOK, Op, Stored
    <3> QED
      BY <2>4, <3>1 DEF LogShape
  <2> QED
    BY <2>3, <2>4, <2>5 DEF Dead, SameStatus
<1>2. TypeOK /\ LockInv /\ PromptInv /\ [Next]_vars => PromptInv'
  BY PromptStep
<1>3. TypeOK /\ LockInv /\ PromptInv /\ [Next]_vars =>
        [\A o \in Ops : Holder = o /\ Holder' = NoOp /\ ~NodeGone'
                          => Terminal(Op(o).phase) \/ Op(o).deleted]_vars
  BY <1>1
<1> QED
  BY <1>2, <1>3, PromptBegin, TypeCorrect, LockInvariant, PTL DEF Spec, ReleasedWhenDone

-------------------------------------------------------------------------------
(* The node read only once its cache has caught up: no lock left behind.   *)

LogKept(o) == FinalizerStays(opsLog[o]) /\ GoneAnnounced(opsLog[o])

\* A landed write, where the object stands and keeps its finalizer.
LEMMA KeptWritten ==
  ASSUME TypeOK, \A p \in Ops : LogKept(p), NEW o \in Ops, NEW v \in OpsObj,
         opsLog' = [opsLog EXCEPT ![o] = Written(@, v)],
         \/ Op(o).exists /\ v.exists /\ (Op(o).finalizer => v.finalizer)
         \/ Op(o).exists /\ ~v.exists /\ ~Op(o).finalizer
         \/ ~v.exists /\ \A i \in 1..Len(opsLog[o]) : Dead(opsLog[o][i])
  PROVE  \A p \in Ops : LogKept(p)'
<1> DEFINE log == opsLog[o]  n == Len(log)
<1>1. log \in Seq(OpsObj) /\ n \in Nat \ {0} /\ Op(o) = log[n]
  BY DEF TypeOK, Op, Stored
<1>2. opsLog'[o] = Written(log, v) /\ \A p \in Ops : p # o => opsLog'[p] = opsLog[p]
  BY OpWritten
<1>3. /\ Len(opsLog'[o]) = n + 1 /\ opsLog'[o][n + 1] = v
      /\ \A i \in 1..n : opsLog'[o][i] = log[i]
  BY <1>1, <1>2, LogWritten DEF Stored
<1>4. FinalizerStays(log) /\ GoneAnnounced(log)
  BY DEF LogKept
<1> HIDE DEF log, n
<1>5. \A i \in 1..n : log[i].finalizer => v.finalizer \/ ~v.exists
  <2> SUFFICES ASSUME NEW i \in 1..n, log[i].finalizer, v.exists PROVE v.finalizer
    OBVIOUS
  <2>1. CASE i = n
    BY <1>1, <2>1
  <2>2. CASE i < n
    BY <1>1, <1>4, <2>2 DEF FinalizerStays, n
  <2> QED
    BY <1>1, <2>1, <2>2
<1>6. FinalizerStays(opsLog'[o])
  <2> SUFFICES ASSUME NEW i \in 1..(n + 1), NEW j \in 1..(n + 1), i < j,
                      opsLog'[o][i].finalizer
               PROVE  opsLog'[o][j].finalizer \/ ~opsLog'[o][j].exists
    BY <1>3 DEF FinalizerStays
  <2>1. i \in 1..n /\ opsLog'[o][i] = log[i]
    BY <1>1, <1>3
  <2>2. CASE j = n + 1
    BY <1>3, <1>5, <2>1, <2>2
  <2>3. CASE j # n + 1
    <3>1. j \in 1..n /\ opsLog'[o][j] = log[j]
      BY <1>1, <1>3, <2>3
    <3> QED
      BY <1>4, <2>1, <3>1 DEF FinalizerStays, n
  <2> QED
    BY <2>2, <2>3
<1>7. GoneAnnounced(opsLog'[o])
  <2> SUFFICES ASSUME ~v.exists, NEW i \in 1..(n + 1)
               PROVE  Dead(opsLog'[o][i]) \/ ~opsLog'[o][i].finalizer
    BY <1>3 DEF GoneAnnounced, Stored
  <2>1. CASE i = n + 1
    BY <1>3, <2>1 DEF Dead
  <2>2. CASE i \in 1..n
    <3>1. opsLog'[o][i] = log[i]
      BY <1>3, <2>2
    <3>2. CASE Op(o).exists /\ ~Op(o).finalizer
      <4>1. CASE i = n
        BY <1>1, <3>1, <3>2, <4>1
      <4>2. CASE i # n
        BY <1>1, <1>4, <2>2, <3>1, <3>2, <4>2 DEF FinalizerStays, n
      <4> QED
        BY <4>1, <4>2
    <3>3. CASE \A k \in 1..Len(opsLog[o]) : Dead(opsLog[o][k])
      BY <2>2, <3>1, <3>3 DEF log, n
    <3> QED
      BY <3>2, <3>3
  <2> QED
    BY <1>1, <2>1, <2>2
<1> QED
  BY <1>2, <1>6, <1>7 DEF LogKept, log

\* A log that is only read keeps all of this.
LEMMA KeptRests ==
  ASSUME \A p \in Ops : LogKept(p), UNCHANGED opsLog
  PROVE  \A p \in Ops : LogKept(p)' /\ Op(p)' = Op(p)
  BY DEF LogKept, FinalizerStays, GoneAnnounced, Op

\* The two clocks touch neither finalizer nor existence.
LEMMA KeptClock ==
  ASSUME TypeOK, \A p \in Ops : LogKept(p), NEW o \in Ops, NEW f \in [OpsObj -> OpsObj],
         \A v \in OpsObj : /\ f[v].exists = v.exists /\ f[v].finalizer = v.finalizer
                           /\ f[v].deleted = v.deleted,
         opsLog' = [opsLog EXCEPT ![o] = [i \in 1..Len(@) |-> f[@[i]]]]
  PROVE  \A p \in Ops : LogKept(p)'
<1>1. /\ Len(opsLog'[o]) = Len(opsLog[o])
      /\ \A i \in 1..Len(opsLog[o]) : opsLog'[o][i] = f[opsLog[o][i]]
      /\ \A p \in Ops : p # o => opsLog'[p] = opsLog[p]
  BY ClockMoves
<1>2. opsLog[o] \in Seq(OpsObj) /\ Len(opsLog[o]) \in Nat \ {0}
  BY DEF TypeOK
<1>3. \A i \in 1..Len(opsLog[o]) :
        /\ opsLog'[o][i].exists = opsLog[o][i].exists
        /\ opsLog'[o][i].finalizer = opsLog[o][i].finalizer
        /\ opsLog'[o][i].deleted = opsLog[o][i].deleted
  BY <1>1, <1>2
<1>4. FinalizerStays(opsLog'[o])
  <2> SUFFICES ASSUME NEW i \in 1..Len(opsLog[o]), NEW j \in 1..Len(opsLog[o]), i < j,
                      opsLog'[o][i].finalizer
               PROVE  opsLog'[o][j].finalizer \/ ~opsLog'[o][j].exists
    BY <1>1 DEF FinalizerStays
  <2>1. FinalizerStays(opsLog[o])
    BY DEF LogKept
  <2> QED
    BY <1>3, <2>1 DEF FinalizerStays
<1>5. GoneAnnounced(opsLog'[o])
  <2> SUFFICES ASSUME ~Stored(opsLog'[o]).exists, NEW i \in 1..Len(opsLog[o])
               PROVE  Dead(opsLog'[o][i]) \/ ~opsLog'[o][i].finalizer
    BY <1>1 DEF GoneAnnounced
  <2>1. ~Stored(opsLog[o]).exists
    BY <1>1, <1>2, <1>3 DEF Stored
  <2>2. Dead(opsLog[o][i]) \/ ~opsLog[o][i].finalizer
    BY <2>1 DEF LogKept, GoneAnnounced
  <2> QED
    BY <1>3, <2>2 DEF Dead
<1> QED
  BY <1>1, <1>4, <1>5 DEF LogKept

\* A delivery leaves fewer versions, the stored one among them.
LEMMA KeptDeliver ==
  ASSUME TypeOK, \A p \in Ops : LogKept(p), NEW o \in Ops, DeliverOp(o)
  PROVE  \A p \in Ops : LogKept(p)' /\ Op(p)' = Op(p)
<1> DEFINE log == opsLog[o]
<1>1. log \in Seq(OpsObj) /\ Len(log) \in Nat /\ Len(log) > 1
  BY DEF TypeOK, DeliverOp
<1>2. opsLog'[o] = Delivered(log) /\ \A p \in Ops : p # o => opsLog'[p] = opsLog[p]
  BY DEF TypeOK, DeliverOp
<1>3. /\ Len(opsLog'[o]) = Len(log) - 1 /\ Stored(opsLog'[o]) = Stored(log)
      /\ \A i \in 1..(Len(log) - 1) : opsLog'[o][i] = log[i + 1]
  BY <1>1, <1>2, LogDelivered
<1>4. FinalizerStays(log) /\ GoneAnnounced(log)
  BY DEF LogKept
<1> HIDE DEF log
<1>5. FinalizerStays(opsLog'[o])
  <2> SUFFICES ASSUME NEW i \in 1..(Len(log) - 1), NEW j \in 1..(Len(log) - 1), i < j,
                      opsLog'[o][i].finalizer
               PROVE  opsLog'[o][j].finalizer \/ ~opsLog'[o][j].exists
    BY <1>3 DEF FinalizerStays
  <2>1. i + 1 \in 1..Len(log) /\ j + 1 \in 1..Len(log) /\ i + 1 < j + 1
    BY <1>1
  <2> QED
    BY <1>3, <1>4, <2>1 DEF FinalizerStays
<1>6. GoneAnnounced(opsLog'[o])
  <2> SUFFICES ASSUME ~Stored(log).exists, NEW i \in 1..(Len(log) - 1)
               PROVE  Dead(opsLog'[o][i]) \/ ~opsLog'[o][i].finalizer
    BY <1>3 DEF GoneAnnounced
  <2>1. i + 1 \in 1..Len(log)
    BY <1>1
  <2> QED
    BY <1>3, <1>4, <2>1 DEF GoneAnnounced
<1> QED
  BY <1>2, <1>3, <1>5, <1>6 DEF LogKept, Op, log

\* A step that only reads operations and the node, and ends its pass or goes on to
\* write, claim or step.
LEMMA KeptPassMoves ==
  ASSUME KeptInv, UNCHANGED <<opsLog, nodeLog>>, queue \subseteq queue',
         \/ pass' = pass
         \/ pass' = Idle /\ pass.pc # "release"
         \/ /\ Carries /\ pass.pc \notin {"idle", "finalizer", "release", "drop"}
            /\ pass'.pc \notin {"idle", "finalizer", "release", "drop"}
  PROVE  KeptInv'
<1>1. /\ \A o \in Ops : FinalizerStays(opsLog[o])' /\ GoneAnnounced(opsLog[o])'
      /\ Holder' = Holder
  BY DEF KeptInv, Holder, FinalizerStays, GoneAnnounced
<1>2. \A o \in Ops : Unseen(o)' => Unseen(o)
  BY DEF Unseen, Op
<1>3. \A o \in Ops : Op(o)' = Op(o)
  BY DEF Op
<1>4. CASE pass' = pass
  <2>1. Op(pass.op)' = Op(pass.op) /\ (Unseen(pass.op)' => Unseen(pass.op))
    BY <1>4 DEF Op, Unseen
  <2> QED
    BY <1>1, <1>2, <1>3, <1>4, <2>1
       DEF KeptInv, PassAlive, PassDrops, HolderKept, ReleaseOwed, Releasing, At
<1>5. CASE pass' = Idle /\ pass.pc # "release"
  <2>1. pass'.pc = "idle"
    BY <1>5 DEF Idle
  <2>2. PassAlive' /\ PassDrops' /\ HolderKept' /\ ReleaseOwed'
    BY <1>1, <1>2, <1>3, <1>5, <2>1
       DEF KeptInv, PassAlive, PassDrops, HolderKept, ReleaseOwed, Releasing, At
  <2> QED
    BY <1>1, <2>2 DEF KeptInv
<1>6. CASE /\ Carries /\ pass.pc \notin {"idle", "finalizer", "release", "drop"}
           /\ pass'.pc \notin {"idle", "finalizer", "release", "drop"}
  <2>1. Op(pass.op)' = Op(pass.op) /\ (Unseen(pass.op)' => Unseen(pass.op))
    BY <1>6 DEF Op, Unseen, Carries
  <2>2. PassAlive' /\ PassDrops' /\ HolderKept' /\ ReleaseOwed'
    BY <1>1, <1>2, <1>3, <1>6, <2>1
       DEF KeptInv, PassAlive, PassDrops, HolderKept, ReleaseOwed, Releasing, At, Carries
  <2> QED
    BY <1>1, <2>2 DEF KeptInv
<1> QED
  BY <1>4, <1>5, <1>6

\* A step of a pass that lands a version of its operation.
LEMMA KeptPassWrites ==
  ASSUME TypeOK, KeptInv, NEW o \in Ops, o = pass.op, NEW v \in OpsObj,
         opsLog' = [opsLog EXCEPT ![o] = Written(@, v)],
         UNCHANGED nodeLog, queue \subseteq queue', pass.pc \notin {"idle", "release"},
         \A p \in Ops : LogKept(p)',
         (v.exists /\ v.finalizer) \/ Holder # o,
         \/ pass' = Idle
         \/ /\ pass'.op = o /\ pass'.pc \notin {"idle", "finalizer", "drop"}
            /\ pass'.then # "drop" \/ pass'.pc # "release"
            /\ v.exists /\ v.finalizer
  PROVE  KeptInv'
<1>1. /\ Op(o)' = v /\ opsLog'[o] = Written(opsLog[o], v)
      /\ \A p \in Ops : p # o => Op(p)' = Op(p) /\ opsLog'[p] = opsLog[p]
  BY OpWritten
<1>2. ~Unseen(o)'
  <2>1. opsLog[o] \in Seq(OpsObj) /\ Len(opsLog[o]) \in Nat /\ Len(opsLog[o]) > 0
    BY DEF TypeOK
  <2>2. ~Current(opsLog'[o])
    BY <1>1, <2>1, LogWritten
  <2> QED
    BY <2>2 DEF Unseen
<1>3. \A p \in Ops : p # o /\ Unseen(p)' => Unseen(p)
  BY <1>1 DEF Unseen, Op
<1>4. \A p \in Ops : FinalizerStays(opsLog[p])' /\ GoneAnnounced(opsLog[p])'
  BY DEF LogKept
<1>5. Holder' = Holder
  BY DEF Holder
<1>6. CASE pass' = Idle
  <2>1. pass'.pc = "idle"
    BY <1>6 DEF Idle
  <2>2. PassAlive' /\ PassDrops' /\ HolderKept' /\ ReleaseOwed'
    BY <1>1, <1>2, <1>3, <1>5, <2>1
       DEF KeptInv, PassAlive, PassDrops, HolderKept, ReleaseOwed, Releasing, At
  <2> QED
    BY <1>4, <2>2 DEF KeptInv
<1>7. CASE pass' # Idle
  <2>1. Op(pass.op)' = v /\ ~Unseen(pass.op)'
    BY <1>1, <1>2, <1>7 DEF Op, Unseen
  <2>2. PassAlive' /\ PassDrops' /\ HolderKept' /\ ReleaseOwed'
    BY <1>1, <1>2, <1>3, <1>5, <1>7, <2>1
       DEF KeptInv, PassAlive, PassDrops, HolderKept, ReleaseOwed, Releasing, At
  <2> QED
    BY <1>4, <2>2 DEF KeptInv
<1> QED
  BY <1>6, <1>7

\* A pass begins.
LEMMA KeptReconcile ==
  ASSUME TypeOK, LockInv, KeptInv, NEW o \in Ops, Reconcile(o)
  PROVE  KeptInv'
<1> DEFINE log == opsLog[o]  v == Cached(log)
<1>1. UNCHANGED <<opsLog, nodeLog>> /\ At("idle") /\ queue' = queue \ {o}
  BY DEF Reconcile
<1>2. /\ log \in Seq(OpsObj) /\ Len(log) \in Nat /\ Len(log) > 0
      /\ v = log[1] /\ v \in OpsObj
      /\ Op(o) = log[Len(log)] /\ (Current(log) => v = Op(o))
  BY LogEnds DEF TypeOK, Op, Stored
<1>3. /\ \A p \in Ops : FinalizerStays(opsLog[p])' /\ GoneAnnounced(opsLog[p])'
      /\ Holder' = Holder /\ \A p \in Ops : Op(p)' = Op(p)
  BY <1>1 DEF KeptInv, Holder, FinalizerStays, GoneAnnounced, Op
<1>4. \A p \in Ops : p # o /\ Unseen(p)' => Holder # p
  <2>1. \A p \in Ops : p # o /\ Unseen(p)' => Unseen(p)
    BY <1>1 DEF Unseen, Op
  <2> QED
    BY <1>1, <2>1 DEF KeptInv, ReleaseOwed, At
<1>5. Unseen(o)' => Current(log) /\ Terminal(Op(o).phase)
  BY <1>1 DEF Unseen, Op
<1>6. Holder = o => Op(o).exists /\ Op(o).finalizer
  BY DEF KeptInv, HolderKept
<1> HIDE DEF log
<1>7. CASE pass' = pass
  <2>1. Unseen(o)' => Holder # o
    <3>1. ~v.exists \/ (v.deleted /\ ~v.finalizer)
      BY <1>1, <1>7 DEF Reconcile, Idle, At, Entry, log
    <3> QED
      BY <1>2, <1>5, <1>6, <3>1
  <2>2. PassAlive' /\ PassDrops' /\ HolderKept' /\ ReleaseOwed'
    BY <1>1, <1>3, <1>4, <1>7, <2>1
       DEF KeptInv, PassAlive, PassDrops, HolderKept, ReleaseOwed, Releasing, At
  <2> QED
    BY <1>3, <2>2 DEF KeptInv
<1>8. CASE pass' # pass
  <2>1. /\ v.exists /\ pass'.op = o /\ pass'.obj = v /\ pass'.pc = Entry(v)
        /\ pass'.then = IF v.deleted THEN "drop" ELSE "end"
    BY <1>8 DEF Reconcile, Idle, log
  <2>2. /\ Entry(v) \in {"release", "finalizer", "lock"}
        /\ Entry(v) = "lock" => ~v.deleted /\ v.finalizer /\ ~Terminal(v.phase)
        /\ Entry(v) = "finalizer" => ~v.finalizer
    BY DEF Entry
  <2> HIDE DEF v
  <2>3. Op(pass.op)' = Op(o) /\ (Unseen(pass.op)' <=> Unseen(o)')
    BY <1>1, <2>1 DEF Op, Unseen
  <2>4. Entry(v) = "lock" => Op(o).exists /\ Op(o).finalizer
    <3> SUFFICES ASSUME Entry(v) = "lock" PROVE Op(o).exists /\ Op(o).finalizer
      OBVIOUS
    <3>1. v.exists /\ ~v.deleted /\ v.finalizer /\ ~Dead(v)
      BY <2>1, <2>2 DEF Dead
    <3>2. FinalizerStays(log) /\ GoneAnnounced(log) /\ Stored(log) = Op(o)
      BY DEF KeptInv, log, Op
    <3>3. Op(o).exists
      BY <1>2, <3>1, <3>2 DEF GoneAnnounced
    <3>4. CASE Len(log) = 1
      BY <1>2, <3>1, <3>3, <3>4
    <3>5. CASE Len(log) > 1
      BY <1>2, <3>1, <3>2, <3>3, <3>5 DEF FinalizerStays
    <3>6. Len(log) = 1 \/ Len(log) > 1
      BY <1>2
    <3> QED
      BY <3>4, <3>5, <3>6
  <2>5. PassAlive'
    BY <2>1, <2>2, <2>3, <2>4 DEF PassAlive, Releasing, At
  <2>6. PassDrops'
    BY <2>1, <2>2 DEF PassDrops, At
  <2>7. HolderKept'
    BY <1>3, <2>1, <2>2 DEF KeptInv, HolderKept, At
  <2>8. Unseen(o)' /\ Holder = o => Entry(v) = "release"
    BY <1>2, <1>5, <1>6, <2>2
  <2>9. Unseen(o)' => Entry(v) # "lock"
    BY <1>2, <1>5, <2>2
  <2>10. ReleaseOwed'
    BY <1>3, <1>4, <2>1, <2>2, <2>3, <2>8, <2>9 DEF ReleaseOwed, Releasing, At
  <2> QED
    BY <1>3, <2>5, <2>6, <2>7, <2>10 DEF KeptInv
<1> QED
  BY <1>7, <1>8

\* The node is taken by an operation that is there and has not ended.
LEMMA KeptAcquire ==
  ASSUME TypeOK, KeptInv, AcquireLock
  PROVE  KeptInv'
<1>1. /\ UNCHANGED opsLog /\ pass.pc = "lock" /\ pass.op \in Ops /\ queue \subseteq queue'
      /\ pass' = Idle \/ (Carries /\ pass'.pc \in {"write", "step"})
  <2>1. queue \subseteq queue'
    BY DEF AcquireLock, Say, End
  <2> QED
    BY <2>1, PieceMoves DEF AcquireLock, Refuse, At, TypeOK
<1>2. CASE UNCHANGED nodeLog
  BY <1>1, <1>2, KeptPassMoves
<1>3. CASE ~UNCHANGED nodeLog
  <2>1. /\ nodeLog' = Written(nodeLog, [Cached(nodeLog) EXCEPT !.lock = pass.op])
        /\ pass' # Idle
    <3>1. /\ nodeLog' = Written(nodeLog, [Cached(nodeLog) EXCEPT !.lock = pass.op])
          /\ WriteThen("run", "", "step") \/ Goto("step")
      BY <1>3 DEF AcquireLock
    <3>2. pass'.pc \in {"write", "step"}
      BY <3>1, PieceMoves
    <3>3. Idle.pc = "idle"
      BY DEF Idle
    <3> QED
      BY <3>1, <3>2, <3>3
  <2>2. nodeLog \in Seq(NodeObj) /\ Len(nodeLog) > 0 /\ Cached(nodeLog) \in NodeObj
    BY LogEnds DEF TypeOK
  <2>3. /\ [Cached(nodeLog) EXCEPT !.lock = pass.op] \in NodeObj
        /\ [Cached(nodeLog) EXCEPT !.lock = pass.op].lock = pass.op
    BY <1>1, <2>2 DEF NodeObj
  <2>4. Holder' = pass.op
    <3>1. Stored(nodeLog') = [Cached(nodeLog) EXCEPT !.lock = pass.op]
      BY <2>1, <2>2, <2>3, LogWritten
    <3> QED
      BY <2>3, <3>1 DEF Holder
  <2>5. /\ \A o \in Ops : FinalizerStays(opsLog[o])' /\ GoneAnnounced(opsLog[o])'
        /\ \A o \in Ops : Op(o)' = Op(o) /\ (Unseen(o)' => Unseen(o))
    BY <1>1 DEF KeptInv, FinalizerStays, GoneAnnounced, Op, Unseen
  <2>6. Op(pass.op)' = Op(pass.op) /\ (Unseen(pass.op)' => Unseen(pass.op))
    BY <1>1, <2>1 DEF Op, Unseen, Carries
  <2>7. /\ Op(pass.op).exists /\ Op(pass.op).finalizer /\ ~Unseen(pass.op)
    BY <1>1 DEF KeptInv, PassAlive, ReleaseOwed, Releasing, At
  <2>8. PassAlive' /\ PassDrops' /\ HolderKept' /\ ReleaseOwed'
    BY <1>1, <2>1, <2>4, <2>5, <2>6, <2>7
       DEF PassAlive, PassDrops, HolderKept, ReleaseOwed, Releasing, At, Carries
  <2> QED
    BY <2>5, <2>8 DEF KeptInv
<1> QED
  BY <1>2, <1>3

\* The node given up is not this operation's any more.
LEMMA KeptRelease ==
  ASSUME TypeOK, LockInv, KeptInv, NodePrompt, ReleaseLock
  PROVE  KeptInv'
<1>1. /\ UNCHANGED opsLog /\ pass.pc = "release" /\ pass.op \in Ops
      /\ Current(nodeLog) /\ queue \subseteq queue'
  BY DEF ReleaseLock, MayReadNode, End, At, TypeOK
<1>2. /\ nodeLog \in Seq(NodeObj) /\ Len(nodeLog) = 1 /\ Len(nodeLog) \in 1..Len(nodeLog)
      /\ Cached(nodeLog) = Stored(nodeLog) /\ Cached(nodeLog) \in NodeObj
      /\ Stored(nodeLog) = nodeLog[Len(nodeLog)]
  <2>1. nodeLog \in Seq(NodeObj) /\ Len(nodeLog) = 1
    BY <1>1 DEF TypeOK, Current
  <2> QED
    BY <1>1, <2>1, LogEnds DEF Stored
<1>3. \/ pass' = Idle
      \/ Carries /\ pass'.pc = "drop" /\ pass.then = "drop"
  BY PieceMoves DEF ReleaseLock, TypeOK, PassObj
<1>4. Holder' # pass.op /\ (Holder' = Holder \/ Holder' = NoOp)
  <2>1. CASE UNCHANGED nodeLog
    <3>1. ~Owned(Cached(nodeLog), pass.op)
      <4>1. [Cached(nodeLog) EXCEPT !.lock = NoOp] \in NodeObj
        BY <1>2 DEF NodeObj
      <4>2. Len(Written(nodeLog, [Cached(nodeLog) EXCEPT !.lock = NoOp])) = 2
        <5>1. Len(nodeLog) > 0
          BY <1>2
        <5>2. Len(Written(nodeLog, [Cached(nodeLog) EXCEPT !.lock = NoOp])) = Len(nodeLog) + 1
          BY <1>2, <4>1, <5>1, LogWritten
        <5> QED
          BY <1>2, <5>2
      <4>3. nodeLog' # Written(nodeLog, [Cached(nodeLog) EXCEPT !.lock = NoOp])
        BY <1>2, <2>1, <4>2
      <4> QED
        BY <1>1, <4>3 DEF ReleaseLock, PatchLands
    <3>2. Stored(nodeLog).kind = "gone" => Stored(nodeLog).lock = NoOp
      BY <1>2 DEF LockInv, NodeInv
    <3> QED
      BY <1>1, <1>2, <2>1, <3>1, <3>2, NodeOpsAssumption DEF Owned, Holder
  <2>2. CASE ~UNCHANGED nodeLog
    <3>1. /\ [Cached(nodeLog) EXCEPT !.lock = NoOp] \in NodeObj
          /\ [Cached(nodeLog) EXCEPT !.lock = NoOp].lock = NoOp
      BY <1>2 DEF NodeObj
    <3>2. nodeLog' = Written(nodeLog, [Cached(nodeLog) EXCEPT !.lock = NoOp])
      BY <2>2 DEF ReleaseLock
    <3>3. Holder' = NoOp
      <4>1. Len(nodeLog) > 0
        BY <1>2
      <4>2. Stored(nodeLog') = [Cached(nodeLog) EXCEPT !.lock = NoOp]
        <5>1. PICK w \in NodeObj : w = [Cached(nodeLog) EXCEPT !.lock = NoOp]
          BY <3>1
        <5>2. Stored(Written(nodeLog, w)) = w
          BY <1>2, <4>1, LogWritten
        <5> QED
          BY <3>2, <5>1, <5>2
      <4> QED
        BY <3>1, <4>2 DEF Holder
    <3> QED
      BY <1>1, <3>3, NodeOpsAssumption
  <2> QED
    BY <2>1, <2>2
<1>5. /\ \A o \in Ops : FinalizerStays(opsLog[o])' /\ GoneAnnounced(opsLog[o])'
      /\ \A o \in Ops : Op(o)' = Op(o) /\ (Unseen(o)' => Unseen(o))
  BY <1>1 DEF KeptInv, FinalizerStays, GoneAnnounced, Op, Unseen
<1>6. \A o \in Ops : ~(Unseen(o)' /\ Holder' = o)
  BY <1>4, <1>5, NodeOpsAssumption DEF KeptInv, ReleaseOwed
<1>7. \A o \in Ops : Holder' = o => Op(o).exists /\ Op(o).finalizer
  BY <1>4, NodeOpsAssumption DEF KeptInv, HolderKept
<1>8. CASE pass' = Idle
  <2>1. pass'.pc = "idle"
    BY <1>8 DEF Idle
  <2>2. PassAlive' /\ PassDrops' /\ HolderKept' /\ ReleaseOwed'
    BY <1>5, <1>6, <1>7, <2>1
       DEF PassAlive, PassDrops, HolderKept, ReleaseOwed, Releasing, At
  <2> QED
    BY <1>5, <2>2 DEF KeptInv
<1>9. CASE Carries /\ pass'.pc = "drop" /\ pass.then = "drop"
  <2>1. pass.obj.deleted
    BY <1>1, <1>9 DEF KeptInv, PassDrops, At
  <2>2. PassAlive' /\ PassDrops' /\ HolderKept' /\ ReleaseOwed'
    BY <1>4, <1>5, <1>6, <1>7, <1>9, <2>1
       DEF PassAlive, PassDrops, HolderKept, ReleaseOwed, Releasing, At, Carries
  <2> QED
    BY <1>5, <2>2 DEF KeptInv
<1> QED
  BY <1>3, <1>8, <1>9

\* The finalizer is added to an object that is there, and taken from one that every
\* cache shows as going.
LEMMA KeptFinalizer ==
  ASSUME TypeOK, LockInv, KeptInv, AddFinalizer \/ DropFinalizer
  PROVE  KeptInv'
<1>1. /\ pass' = Idle /\ UNCHANGED nodeLog /\ queue \subseteq queue'
      /\ pass.pc \in {"finalizer", "drop"} /\ ~At("idle")
  BY DEF AddFinalizer, DropFinalizer, End, At
<1>2. CASE UNCHANGED opsLog
  BY <1>1, <1>2, KeptPassMoves
<1>3. PICK o \in Ops : o = pass.op
  BY <1>1 DEF TypeOK
<1>4. \A p \in Ops : LogKept(p)
  BY DEF KeptInv, LogKept
<1>5. CASE AddFinalizer /\ ~UNCHANGED opsLog
  <2> DEFINE v == [pass.obj EXCEPT !.finalizer = TRUE]
  <2>1. v \in OpsObj /\ v.exists = pass.obj.exists /\ v.finalizer
    BY ObjectTypes DEF OpsObj
  <2>2. /\ pass.fresh /\ ~Releasing /\ opsLog' = [opsLog EXCEPT ![o] = Written(@, v)]
    BY <1>3, <1>5 DEF AddFinalizer, Land, Releasing, At
  <2> HIDE DEF v
  <2>3. Op(o).exists /\ v.exists
    BY <1>1, <1>3, <2>1, <2>2 DEF LockInv, PassInv, PassObject, PassFresh
  <2>4. \A p \in Ops : LogKept(p)'
    BY <1>4, <2>1, <2>2, <2>3, KeptWritten
  <2> QED
    BY <1>1, <1>3, <2>1, <2>2, <2>3, <2>4, KeptPassWrites
<1>6. CASE DropFinalizer /\ ~UNCHANGED opsLog
  <2>1. GoneOp \in OpsObj /\ ~GoneOp.exists
    BY ObjTypes DEF GoneOp, NewOp
  <2>2. At("drop") /\ Releasing /\ opsLog' = [opsLog EXCEPT ![o] = Written(@, GoneOp)]
    BY <1>3, <1>6 DEF DropFinalizer, Land, Releasing, At
  <2>3. \A i \in 1..Len(opsLog[o]) : Dead(opsLog[o][i])
    <3>1. pass.obj.deleted
      BY <2>2 DEF KeptInv, PassDrops
    <3>2. Dead(Cached(opsLog[o])) /\ LogShape(opsLog[o])
      BY <1>1, <1>3, <2>2, <3>1 DEF LockInv, PassInv, PassCache, OpInv
    <3>3. Len(opsLog[o]) \in Nat \ {0} /\ Cached(opsLog[o]) = opsLog[o][1]
      BY LogEnds DEF TypeOK
    <3> SUFFICES ASSUME NEW i \in 1..Len(opsLog[o]) PROVE Dead(opsLog[o][i])
      OBVIOUS
    <3>4. CASE i = 1
      BY <3>2, <3>3, <3>4
    <3>5. CASE i > 1
      BY <3>2, <3>3, <3>5 DEF LogShape
    <3>6. i = 1 \/ i > 1
      OBVIOUS
    <3> QED
      BY <3>4, <3>5, <3>6
  <2>4. \A p \in Ops : LogKept(p)'
    BY <1>4, <2>1, <2>2, <2>3, KeptWritten
  <2>5. Holder # o
    BY <1>3, <2>2 DEF KeptInv, HolderKept
  <2> QED
    BY <1>1, <1>3, <2>1, <2>2, <2>4, <2>5, KeptPassWrites
<1> QED
  BY <1>2, <1>5, <1>6

\* The claim and the status land on an object that is there, and leave it there.
LEMMA KeptStatus ==
  ASSUME TypeOK, LockInv, KeptInv, Claim \/ WriteStatus
  PROVE  KeptInv'
<1>1. /\ pass.pc \in {"claim", "write"} /\ ~At("idle") /\ UNCHANGED nodeLog
      /\ queue \subseteq queue'
  BY DEF Claim, WriteStatus, AfterWrite, Say, End, At
<1>2. CASE UNCHANGED opsLog /\ (pass' = Idle \/ (Carries /\ pass'.pc = "write"))
  BY <1>1, <1>2, KeptPassMoves
<1>3. PICK o \in Ops : o = pass.op
  BY <1>1 DEF TypeOK
<1>4. \A p \in Ops : LogKept(p)
  BY DEF KeptInv, LogKept
<1>5. Op(o).exists /\ Op(o).finalizer /\ Op(o) \in OpsObj
  BY <1>1, <1>3, ObjectTypes DEF KeptInv, PassAlive, Releasing, At
<1>6. ASSUME NEW v \in OpsObj, opsLog' = [opsLog EXCEPT ![o] = Written(@, v)],
             v.exists, v.finalizer,
             \/ pass' = Idle
             \/ /\ pass'.op = o /\ pass'.pc \notin {"idle", "finalizer", "drop"}
                /\ pass'.then # "drop" \/ pass'.pc # "release"
      PROVE  KeptInv'
  <2>1. \A p \in Ops : LogKept(p)'
    BY <1>4, <1>5, <1>6, KeptWritten
  <2> QED
    BY <1>1, <1>3, <1>6, <2>1, KeptPassWrites
<1>7. CASE Claim
  <2> DEFINE v == [Op(o) EXCEPT !.claim = "live"]
  <2>1. CASE UNCHANGED opsLog /\ (Say("wait") \/ Say("note"))
    BY <1>2, <2>1, PieceMoves
  <2>2. CASE /\ opsLog' = [opsLog EXCEPT ![o] = Written(@, v)]
             /\ pass' = [pass EXCEPT !.obj = v, !.pc = "call"]
    <3>1. v \in OpsObj /\ v.exists /\ v.finalizer
      BY <1>5 DEF OpsObj, Leases
    <3>2. pass'.op = o /\ pass'.pc = "call"
      BY <1>3, <2>2, ObjectTypes DEF PassObj
    <3> HIDE DEF v
    <3> QED
      BY <1>6, <2>2, <3>1, <3>2
  <2> QED
    BY <1>3, <1>7, <2>1, <2>2 DEF Claim, Land, Op
<1>8. CASE WriteStatus
  <2>1. CASE End(TRUE) /\ UNCHANGED opsLog
    BY <1>2, <2>1, PieceMoves
  <2> DEFINE base == IF pass.fresh THEN pass.obj ELSE Cached(opsLog[o])
             w == Mutate(base, pass.do, pass.arg, pass.obj)
             v == WithStatus(Op(o), w)
  <2>2. CASE opsLog' = [opsLog EXCEPT ![o] = Written(@, v)] /\ AfterWrite(w)
    <3>1. w \in OpsObj
      <4>1. PassOK /\ At("write")
        BY <1>8, TypeParts DEF WriteStatus
      <4>2. base \in OpsObj
        BY LogEnds, ObjectTypes DEF TypeOK
      <4> QED
        BY <4>1, <4>2, MutateType DEF PassOK, PassObj
    <3> HIDE DEF w
    <3>2. v \in OpsObj /\ v.exists /\ v.finalizer
      BY <1>5, <3>1 DEF WithStatus, OpsObj
    <3> HIDE DEF v
    <3>3. \/ pass' = Idle
          \/ pass'.op = o /\ pass'.pc \in {"step", "release"} /\ pass'.then # "drop"
      BY <1>3, <2>2, ObjectTypes DEF AfterWrite, End, PassObj
    <3> QED
      BY <1>6, <2>2, <3>2, <3>3
  <2> QED
    BY <1>3, <1>8, <2>1, <2>2 DEF WriteStatus, Land, Op
<1> QED
  BY <1>7, <1>8

\* Nothing of what KeptInv says of the pass and the node has moved but the queue,
\* which grew, and the stored versions, which kept what it asks of them.
LEMMA KeptElsewhere ==
  ASSUME KeptInv, \A p \in Ops : LogKept(p)', ~At("idle") => pass.op \in Ops,
         queue \subseteq queue', pass'.pc = pass.pc, pass'.op = pass.op,
         pass'.then = pass.then, pass.obj.deleted => pass'.obj.deleted,
         Holder' = Holder \/ Holder' \notin Ops,
         \A p \in Ops : \/ Op(p)'.exists /\ Op(p)'.finalizer
                        \/ ~(Op(p).exists /\ Op(p).finalizer),
         \A p \in Ops : Unseen(p)' => Unseen(p)
  PROVE  KeptInv'
<1>1. \A p \in Ops : FinalizerStays(opsLog[p])' /\ GoneAnnounced(opsLog[p])'
  BY DEF LogKept
<1>2. HolderKept'
  BY DEF KeptInv, HolderKept, At
<1>3. PassDrops'
  BY DEF KeptInv, PassDrops, At
<1>4. PassAlive' /\ ReleaseOwed'
  <2>1. CASE At("idle")
    BY <2>1 DEF KeptInv, PassAlive, ReleaseOwed, Releasing, At
  <2>2. CASE ~At("idle")
    <3>1. PICK o \in Ops : o = pass.op
      BY <2>2
    <3>2. Op(pass.op)' = Op(o)' /\ (Unseen(pass.op)' <=> Unseen(o)')
      BY <3>1 DEF Op, Unseen
    <3> QED
      BY <2>2, <3>1, <3>2 DEF KeptInv, PassAlive, ReleaseOwed, Releasing, At
  <2> QED
    BY <2>1, <2>2
<1> QED
  BY <1>1, <1>2, <1>3, <1>4 DEF KeptInv

\* The user's writes leave the finalizer on, and an object without one is nobody's.
LEMMA KeptUser ==
  ASSUME TypeOK, KeptInv, NEW o \in Ops, SetAbort(o) \/ Delete(o)
  PROVE  KeptInv'
<1>1. \A p \in Ops : LogKept(p)
  BY DEF KeptInv, LogKept
<1>2. /\ Op(o) \in OpsObj /\ UNCHANGED <<nodeLog, queue>>
      /\ pass'.pc = pass.pc /\ pass'.op = pass.op /\ pass'.obj = pass.obj
      /\ pass'.then = pass.then
  <2>1. Op(o) \in OpsObj /\ pass \in PassObj
    BY ObjectTypes
  <2>2. UNCHANGED <<nodeLog, queue>> /\ Disturb(o)
    BY DEF SetAbort, Delete
  <2> QED
    BY <2>1, <2>2 DEF Disturb, PassObj
<1>3. Op(o).exists
  BY DEF SetAbort, Delete, Op
<1>4. PICK v \in OpsObj :
        /\ opsLog' = [opsLog EXCEPT ![o] = Written(@, v)]
        /\ \/ v.exists /\ v.finalizer = Op(o).finalizer
           \/ ~v.exists /\ ~Op(o).finalizer
  <2>1. /\ [Op(o) EXCEPT !.abort = TRUE] \in OpsObj
        /\ [Op(o) EXCEPT !.abort = TRUE].exists
        /\ [Op(o) EXCEPT !.abort = TRUE].finalizer = Op(o).finalizer
        /\ [Op(o) EXCEPT !.deleted = TRUE] \in OpsObj
        /\ [Op(o) EXCEPT !.deleted = TRUE].exists
        /\ [Op(o) EXCEPT !.deleted = TRUE].finalizer = Op(o).finalizer
    BY <1>2, <1>3 DEF OpsObj
  <2>2. GoneOp \in OpsObj /\ ~GoneOp.exists
    BY ObjTypes DEF GoneOp, NewOp
  <2> QED
    BY <2>1, <2>2 DEF SetAbort, Delete, Op
<1>5. \A p \in Ops : LogKept(p)'
  BY <1>1, <1>3, <1>4, KeptWritten
<1>6. /\ Op(o)' = v /\ opsLog'[o] = Written(opsLog[o], v)
      /\ \A p \in Ops : p # o => Op(p)' = Op(p) /\ opsLog'[p] = opsLog[p]
  BY <1>4, OpWritten
<1>7. \A p \in Ops : Unseen(p)' => Unseen(p)
  <2>1. opsLog[o] \in Seq(OpsObj) /\ Len(opsLog[o]) > 0
    BY DEF TypeOK
  <2>2. ~Current(opsLog'[o])
    BY <1>6, <2>1, LogWritten
  <2> QED
    BY <1>2, <1>6, <2>2 DEF Unseen
<1>8. Holder' = Holder /\ (~At("idle") => pass.op \in Ops)
  BY <1>2 DEF Holder, TypeOK
<1>9. \A p \in Ops : \/ Op(p)'.exists /\ Op(p)'.finalizer
                     \/ ~(Op(p).exists /\ Op(p).finalizer)
  BY <1>4, <1>6
<1> QED
  BY <1>2, <1>5, <1>7, <1>8, <1>9, KeptElsewhere

\* Neither clock touches anything of this.
LEMMA KeptTime ==
  ASSUME TypeOK, KeptInv, NEW o \in Ops,
         \/ LeaseExpires(o)
         \/ \E s \in {"Requesting", "Departing", "Awaiting"} : DeadlinePasses(o, s)
  PROVE  KeptInv'
<1>1. PICK f \in [OpsObj -> OpsObj] :
        /\ \A v \in OpsObj : /\ f[v].exists = v.exists /\ f[v].finalizer = v.finalizer
                             /\ f[v].deleted = v.deleted /\ f[v].phase = v.phase
        /\ opsLog' = [opsLog EXCEPT ![o] = [i \in 1..Len(@) |-> f[@[i]]]]
        /\ pass' = IF pass.op = o THEN [pass EXCEPT !.obj = f[@]] ELSE pass
  <2>1. opsLog[o] \in Seq(OpsObj) /\ pass.obj \in OpsObj
    BY ObjectTypes DEF TypeOK
  <2>2. CASE LeaseExpires(o)
    <3> DEFINE g == [v \in OpsObj |-> Expired(v)]
    <3>1. g \in [OpsObj -> OpsObj]
      BY ObjTypes
    <3>2. \A v \in OpsObj : /\ g[v].exists = v.exists /\ g[v].finalizer = v.finalizer
                            /\ g[v].deleted = v.deleted /\ g[v].phase = v.phase
      BY DEF Expired, OpsObj
    <3>3. \A i \in 1..Len(opsLog[o]) : g[opsLog[o][i]] = Expired(opsLog[o][i])
      BY <2>1
    <3>4. opsLog' = [opsLog EXCEPT ![o] = [i \in 1..Len(@) |-> g[@[i]]]]
      BY <2>2, <3>3 DEF LeaseExpires
    <3>5. pass' = IF pass.op = o THEN [pass EXCEPT !.obj = g[@]] ELSE pass
      BY <2>1, <2>2 DEF LeaseExpires
    <3> HIDE DEF g
    <3> QED
      BY <3>1, <3>2, <3>4, <3>5
  <2>3. ASSUME NEW s \in {"Requesting", "Departing", "Awaiting"}, DeadlinePasses(o, s)
        PROVE  \E g \in [OpsObj -> OpsObj] :
          /\ \A v \in OpsObj : /\ g[v].exists = v.exists /\ g[v].finalizer = v.finalizer
                               /\ g[v].deleted = v.deleted /\ g[v].phase = v.phase
          /\ opsLog' = [opsLog EXCEPT ![o] = [i \in 1..Len(@) |-> g[@[i]]]]
          /\ pass' = IF pass.op = o THEN [pass EXCEPT !.obj = g[@]] ELSE pass
    <3> DEFINE g == [v \in OpsObj |-> Overdue(v, s)]
    <3>1. g \in [OpsObj -> OpsObj]
      BY ObjTypes DEF Steps
    <3>2. \A v \in OpsObj : /\ g[v].exists = v.exists /\ g[v].finalizer = v.finalizer
                            /\ g[v].deleted = v.deleted /\ g[v].phase = v.phase
      BY DEF Overdue, OpsObj
    <3>3. \A i \in 1..Len(opsLog[o]) : g[opsLog[o][i]] = Overdue(opsLog[o][i], s)
      BY <2>1
    <3>4. opsLog' = [opsLog EXCEPT ![o] = [i \in 1..Len(@) |-> g[@[i]]]]
      BY <2>3, <3>3 DEF DeadlinePasses
    <3>5. pass' = IF pass.op = o THEN [pass EXCEPT !.obj = g[@]] ELSE pass
      BY <2>1, <2>3 DEF DeadlinePasses
    <3> HIDE DEF g
    <3> QED
      BY <3>1, <3>2, <3>4, <3>5
  <2> QED
    BY <2>2, <2>3
<1>2. UNCHANGED <<nodeLog, queue>>
  BY DEF LeaseExpires, DeadlinePasses
<1>3. \A p \in Ops : LogKept(p)'
  <2>1. \A p \in Ops : LogKept(p)
    BY DEF KeptInv, LogKept
  <2> QED
    BY <1>1, <2>1, KeptClock
<1>4. /\ Op(o)' = f[Op(o)] /\ Len(opsLog'[o]) = Len(opsLog[o])
      /\ \A p \in Ops : p # o => opsLog'[p] = opsLog[p] /\ Op(p)' = Op(p)
  BY <1>1, ClockMoves
<1>5. Op(o) \in OpsObj /\ pass.obj \in OpsObj
  BY ObjectTypes
<1>6. /\ pass'.pc = pass.pc /\ pass'.op = pass.op /\ pass'.then = pass.then
      /\ pass.obj.deleted => pass'.obj.deleted
  BY <1>1, <1>5, ObjectTypes DEF PassObj
<1>7. \A p \in Ops : Unseen(p)' => Unseen(p)
  BY <1>1, <1>2, <1>4, <1>5 DEF Unseen, Current
<1>8. Holder' = Holder /\ (~At("idle") => pass.op \in Ops)
  BY <1>2 DEF Holder, TypeOK
<1>9. \A p \in Ops : \/ Op(p)'.exists /\ Op(p)'.finalizer
                     \/ ~(Op(p).exists /\ Op(p).finalizer)
  BY <1>1, <1>4, <1>5
<1> QED
  BY <1>2, <1>3, <1>6, <1>7, <1>8, <1>9, KeptElsewhere

\* What a delivery, another writer of the node, or a restart changes.
LEMMA KeptOthers ==
  ASSUME TypeOK, LockInv, KeptInv,
         \/ \E o \in Ops : DeliverOp(o)
         \/ DeliverNode \/ NodeWrite \/ Crash
  PROVE  KeptInv'
<1>1. /\ \A p \in Ops : LogKept(p)
      /\ ~At("idle") => pass.op \in Ops
  BY DEF KeptInv, LogKept, TypeOK
<1>2. ASSUME NEW o \in Ops, DeliverOp(o) PROVE KeptInv'
  <2>1. \A p \in Ops : LogKept(p)' /\ Op(p)' = Op(p)
    BY <1>1, <1>2, KeptDeliver
  <2>2. UNCHANGED <<nodeLog, pass>> /\ queue' = queue \cup {o}
    BY <1>2 DEF DeliverOp
  <2>3. \A p \in Ops : p # o => opsLog'[p] = opsLog[p]
    BY <1>2 DEF DeliverOp, TypeOK
  <2>4. \A p \in Ops : Unseen(p)' => Unseen(p)
    BY <2>1, <2>2, <2>3 DEF Unseen
  <2> QED
    BY <1>1, <2>1, <2>2, <2>4, KeptElsewhere DEF Holder
<1>3. CASE DeliverNode \/ NodeWrite
  <2>1. UNCHANGED <<opsLog, pass>> /\ queue \subseteq queue'
    BY <1>3 DEF DeliverNode, NodeWrite
  <2>2. \A p \in Ops : LogKept(p)' /\ Op(p)' = Op(p) /\ (Unseen(p)' => Unseen(p))
    BY <1>1, <2>1, KeptRests DEF Unseen
  <2>3. nodeLog \in Seq(NodeObj) /\ Len(nodeLog) > 0 /\ Stored(nodeLog) \in NodeObj
    BY LogEnds DEF TypeOK
  <2>4. Holder' = Holder \/ Holder' = NoOp
    <3>1. CASE DeliverNode
      <4>1. Stored(nodeLog') = Stored(nodeLog)
        BY <2>3, <3>1, LogDelivered DEF DeliverNode
      <4> QED
        BY <4>1 DEF Holder
    <3>2. CASE NodeWrite
      <4>1. PICK w \in NodeObj : /\ nodeLog' = Written(nodeLog, w)
                                 /\ w = Stored(nodeLog) \/ w.lock = NoOp
        <5>1. /\ [kind |-> "gone", lock |-> NoOp] \in NodeObj
              /\ [kind |-> "gone", lock |-> NoOp].lock = NoOp
          BY DEF NodeObj
        <5> QED
          BY <2>3, <3>2, <5>1 DEF NodeWrite
      <4>2. Stored(nodeLog') = w
        BY <2>3, <4>1, LogWritten
      <4> QED
        BY <4>1, <4>2 DEF Holder
    <3> QED
      BY <1>3, <3>1, <3>2
  <2> QED
    BY <1>1, <2>1, <2>2, <2>4, KeptElsewhere, NodeOpsAssumption
<1>4. CASE Crash
  <2>1. /\ UNCHANGED <<opsLog, nodeLog>> /\ pass' = Idle
        /\ queue' = {o \in Ops : Cached(opsLog[o]).exists}
    BY <1>4 DEF Crash
  <2>2. pass'.pc = "idle"
    BY <2>1 DEF Idle
  <2>3. \A p \in Ops : LogKept(p)' /\ Op(p)' = Op(p)
    BY <1>1, <2>1, KeptRests
  <2>4. \A p \in Ops : Unseen(p)' => Holder # p
    <3> SUFFICES ASSUME NEW p \in Ops, Unseen(p)', Holder = p PROVE FALSE
      OBVIOUS
    <3>1. Current(opsLog[p]) /\ p \notin queue'
      BY <2>1 DEF Unseen
    <3>2. Cached(opsLog[p]) = Op(p)
      BY <3>1, LogEnds DEF TypeOK, Op
    <3>3. Op(p).exists
      BY DEF KeptInv, HolderKept
    <3> QED
      BY <2>1, <3>1, <3>2, <3>3
  <2>5. Holder' = Holder
    BY <2>1 DEF Holder
  <2>6. PassAlive' /\ PassDrops' /\ HolderKept' /\ ReleaseOwed'
    BY <2>2, <2>3, <2>4, <2>5
       DEF KeptInv, PassAlive, PassDrops, HolderKept, ReleaseOwed, Releasing, At
  <2> QED
    BY <2>3, <2>6 DEF KeptInv, LogKept
<1> QED
  BY <1>2, <1>3, <1>4

\* Every step keeps the invariant.
LEMMA KeptStep ==
  ASSUME NodePrompt
  PROVE  TypeOK /\ LockInv /\ KeptInv /\ [Next]_vars => KeptInv'
<1> SUFFICES ASSUME TypeOK, LockInv, KeptInv, [Next]_vars PROVE KeptInv'
  OBVIOUS
<1>1. CASE AddFinalizer \/ DropFinalizer \/ AcquireLock \/ ReleaseLock \/ Claim \/ WriteStatus
  BY <1>1, KeptFinalizer, KeptAcquire, KeptRelease, KeptStatus
<1>2. CASE Advance \/ Call
  <2>1. /\ UNCHANGED <<opsLog, nodeLog>> /\ pass.pc \in {"step", "call"}
        /\ queue \subseteq queue'
    BY <1>2 DEF Advance, Perform, Call, Say, End, At
  <2>2. pass' = Idle \/ (Carries /\ pass'.pc \in {"write", "claim"})
    BY <1>2, PieceMoves DEF Advance, Perform, Call, Record, Finish
  <2> QED
    BY <2>1, <2>2, KeptPassMoves
<1>3. ASSUME NEW o \in Ops,
             \/ Reconcile(o) \/ LeaseExpires(o) \/ SetAbort(o) \/ Delete(o)
             \/ \E s \in {"Requesting", "Departing", "Awaiting"} : DeadlinePasses(o, s)
      PROVE  KeptInv'
  BY <1>3, KeptReconcile, KeptUser, KeptTime
<1>4. CASE (\E o \in Ops : DeliverOp(o)) \/ DeliverNode \/ NodeWrite \/ Crash
  BY <1>4, KeptOthers
<1>5. CASE CpBegin \/ CpEnd \/ CpFault \/ Stream \/ UNCHANGED vars
  BY <1>5, KeptPassMoves DEF CpBegin, CpEnd, CpFault, Stream, vars
<1> QED
  BY <1>1, <1>2, <1>3, <1>4, <1>5 DEF Next, Worker, PassStep, Environment

\* It holds before anything has happened.
LEMMA KeptBegin == Init => KeptInv
<1> SUFFICES ASSUME Init PROVE KeptInv
  OBVIOUS
<1>1. pass.pc = "idle"
  BY DEF Init, Idle
<1>2. Holder = NoOp
  <2>1. PICK kind \in {"local", "remote"} : nodeLog = <<[lock |-> NoOp, kind |-> kind]>>
    BY DEF Init
  <2>2. Stored(nodeLog) = [lock |-> NoOp, kind |-> kind]
    BY <2>1 DEF Stored
  <2> QED
    BY <2>2 DEF Holder
<1>3. ASSUME NEW o \in Ops PROVE FinalizerStays(opsLog[o]) /\ GoneAnnounced(opsLog[o])
  <2>1. opsLog[o] = <<NewOp>> /\ Len(opsLog[o]) = 1 /\ opsLog[o][1] = NewOp
    BY DEF Init
  <2>2. \A i \in 1..1 : i = 1
    OBVIOUS
  <2>3. ~NewOp.finalizer
    BY DEF NewOp
  <2> QED
    BY <2>1, <2>2, <2>3 DEF FinalizerStays, GoneAnnounced
<1> QED
  BY <1>1, <1>2, <1>3, NodeOpsAssumption
     DEF KeptInv, PassAlive, PassDrops, HolderKept, ReleaseOwed, Releasing, At

\* With the node read promptly, however far the operations' cache lags, a node is
\* never locked by an operation that no longer exists, nor, once nothing is left to
\* deliver or to reconcile, by one that has ended (OpsFinalizer, releaseLock, finish).
THEOREM LocksComeBack ==
  ASSUME NodePrompt
  PROVE  Spec => []NoLockLeftBehind
<1>1. TypeOK /\ LockInv /\ KeptInv /\ [Next]_vars => KeptInv'
  BY KeptStep
<1>2. KeptInv => NoLockLeftBehind
  BY DEF KeptInv, HolderKept, ReleaseOwed, NoLockLeftBehind, Quiet, Unseen, At
<1> QED
  BY <1>1, <1>2, KeptBegin, TypeCorrect, LockInvariant, PTL DEF Spec
===============================================================================
