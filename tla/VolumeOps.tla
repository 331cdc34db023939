------------------------------- MODULE VolumeOps -------------------------------
(***************************************************************************)
(* The PersistentVolumeOps controller for the Migrate action, on the       *)
(* volumes of one storage cluster:                                         *)
(*   operator/internal/controllers/volume/persistentvolumeops_controller.go*)
(*   operator/internal/controllers/volume/lock.go, slot.go, steps.go,      *)
(*   graphs.go, subject.go, pin.go                                         *)
(*                                                                         *)
(* A migration moves every volume of an NVMe-oF subsystem, so an operation *)
(* locks all of them, one annotation each, and the cluster's migration     *)
(* slot besides.  Both are read uncached and carry the holder's name, so   *)
(* that anybody can tell a live holder from one that ended or is gone.     *)
(* One worker runs one reconcile pass at a time; operations and volumes    *)
(* are otherwise read through caches that lag (module Informer).           *)
(***************************************************************************)
EXTENDS Informer, FiniteSets, FiniteSetsExt

CONSTANTS
  Ops,          \* the PersistentVolumeOps objects of the cluster
  NoOp,         \* an absent lock or slot
  Vols,         \* the PersistentVolumes, numbers in the order of their names
  Subsystem,    \* [Vols -> subsystem], which the control plane reports
  Vol,          \* [Ops -> Vols], spec.persistentVolumeName
  Later,        \* volumes that join their subsystem while operations run
  MaxLag,       \* bound: undelivered versions per object
  MaxCrashes,   \* bound: operator restarts
  Envs          \* the environments to check: sets of EnvKinds

\* What an environment may do: the user's abort and delete, a volume that joins or
\* goes, other writers of a volume, pins, a target that is offline or never resolves,
\* an answer that is lost, a refusal, a failing copy, passing deadlines, message
\* writes, restarts, caches of operations and of volumes that lag when they are read,
\* and a single operation instead of all of them.
EnvKinds == {"abort", "delete", "join", "gone", "touch", "pin", "offline",
             "unresolvable", "lost", "refuse", "fault", "late", "message",
             "crash", "opslag", "pvlag", "alone"}

ASSUME VolumeOpsAssumption ==
  /\ NoOp \notin Ops
  /\ Vols \subseteq Nat
  /\ Vol \in [Ops -> Vols \ Later]
  /\ DOMAIN Subsystem = Vols
  /\ MaxLag \in Nat \ {0} /\ MaxCrashes \in Nat
  /\ Envs \subseteq SUBSET EnvKinds

VARIABLES
  env,       \* the environment of this behaviour, fixed from the start
  opsLog,    \* [Ops -> log of operation objects]
  pvLog,     \* [Vols -> log of volumes, as far as lock and existence go]
  slot,      \* the cluster's migration slot
  queue,     \* operations with a reconcile request waiting
  pass,      \* the reconcile pass the worker is running
  mig,       \* [Ops -> the state of its backend migration]
  moved,     \* subsystems the control plane has cut over to the target
  continues, \* history: [Ops -> continue calls made for its migration]
  crashes    \* operator restarts so far

moving == <<opsLog, pvLog, slot, queue, pass, mig, moved, continues, crashes>>
vars == <<env, moving>>
cpVars == <<mig, moved, continues>>
locks == <<pvLog, slot>>

-------------------------------------------------------------------------------
(* The API objects and the control plane's migration.                      *)

Phases == {"", "Pending", "Running", "Succeeded", "Failed", "Aborted"}
Steps == {"", "Validating", "Migrating", "Verifying", "Completed"}
Leases == {"none", "live", "expired"}

OpsObj == [exists : BOOLEAN, finalizer : BOOLEAN, deleted : BOOLEAN,
           abort : BOOLEAN, phase : Phases, step : Steps, claim : Leases,
           deadline : {"none", "set", "passed"},
           migration : BOOLEAN, continued : BOOLEAN]

NewOp == [exists |-> TRUE, finalizer |-> FALSE, deleted |-> FALSE,
          abort |-> FALSE, phase |-> "", step |-> "", claim |-> "none",
          deadline |-> "none", migration |-> FALSE, continued |-> FALSE]

PvObj == [there : {"no", "yes", "deleting"}, lock : Ops \cup {NoOp}]
NoVolume == [there |-> "no", lock |-> NoOp]

\* A migration that was asked to continue reports pre_created until its copy begins.
Migrations == {"none", "pre_created", "asked", "running", "done", "failed", "canceled"}
Live(o) == mig[o] \in {"pre_created", "asked", "running"}

Terminal(phase) == phase \in {"Succeeded", "Failed", "Aborted"}

\* Seeded fault: a step renamed in the graph and not in the API.
NextStepRenamed(s) == IF s = "Validating" THEN "Copying" ELSE "Verifying"

\* The graph of Migrate: a line, whose last step cannot be aborted or deleted from.
NextStep(s) == IF s = "Validating" THEN "Migrating" ELSE "Verifying"
Abortable(s) == s \in {"Validating", "Migrating"}
Deletable(v) == Terminal(v.phase) \/ v.step # "Verifying"

Siblings(v) == {w \in Vols : Subsystem[w] = Subsystem[v]}
Pv(v) == Stored(pvLog[v])
Op(o) == Stored(opsLog[o])

-------------------------------------------------------------------------------
(* Pieces of a pass.                                                       *)

Idle == [pc |-> "idle", op |-> NoOp, obj |-> NewOp, fresh |-> FALSE,
         todo |-> {}, do |-> "", arg |-> "", then |-> ""]

PassObj ==
  [pc : {"idle", "finalizer", "resolve", "slot", "members", "lock", "step", "claim",
         "call", "discard", "write", "release", "drop"},
   op : Ops \cup {NoOp}, obj : OpsObj, fresh : BOOLEAN, todo : SUBSET Vols,
   do : {"", "enter", "hold", "note", "ahead", "record", "migration", "finish"},
   arg : Steps \cup Phases,
   then : {"", "end", "requeue", "hold", "arm", "finish", "drop"}]

At(pc) == pass.pc = pc

End(requeue) ==
  /\ pass' = Idle
  /\ queue' = IF requeue THEN queue \cup {pass.op} ELSE queue

Goto(pc) == pass' = [pass EXCEPT !.pc = pc] /\ UNCHANGED queue

WriteThen(do, arg, then) ==
  /\ pass' = [pass EXCEPT !.pc = "write", !.do = do, !.arg = arg, !.then = then]
  /\ UNCHANGED queue

\* The step is recorded before it is entered, without a deadline, and again with it.
Record(s) == WriteThen("ahead", s, "arm")
Finish(ph) == WriteThen("finish", ph, "finish")

\* Seeded fault: the second record carries no deadline either.
ArmedNever == "none"

\* The deadline the second record carries.
Armed == "set"

\* A message write: patched when the message changed, nothing when it did not.
Say(do) ==
  \/ /\ "message" \in env \/ (do = "hold" /\ pass.obj.phase = "")
     /\ WriteThen(do, "", "requeue")
  \/ ~(do = "hold" /\ pass.obj.phase = "") /\ End(TRUE)

\* What was created is taken back first, then the operation ends in `ph`, or goes.
Discard(ph, then) ==
  /\ pass' = [pass EXCEPT !.pc = "discard", !.arg = ph, !.then = then]
  /\ UNCHANGED queue

Release(then) ==
  /\ pass' = [pass EXCEPT !.pc = "release", !.then = then]
  /\ UNCHANGED queue

Land(v) ==
  /\ Room(opsLog[pass.op], MaxLag)
  /\ opsLog' = [opsLog EXCEPT ![pass.op] = Written(@, v)]

\* The object w with the status of v.
WithStatus(w, v) ==
  [w EXCEPT !.phase = v.phase, !.step = v.step, !.claim = v.claim,
            !.deadline = v.deadline, !.migration = v.migration,
            !.continued = v.continued]

Disturb(o) ==
  pass' = IF pass.op = o THEN [pass EXCEPT !.fresh = FALSE] ELSE pass

\* The annotation of volume v becomes `holder`.
SetLock(v, holder) ==
  /\ Room(pvLog[v], MaxLag)
  /\ pvLog' = [pvLog EXCEPT ![v] = Written(@, [Pv(v) EXCEPT !.lock = holder])]

-------------------------------------------------------------------------------
(* Reconcile, up to the locks.                                             *)

\* The read that begins a pass: teardown, the second release of an operation that
\* ended, the finalizer, or the work.
Reconcile(o) ==
  /\ At("idle") /\ o \in queue
  /\ "opslag" \in env \/ Current(opsLog[o])
  /\ LET v == Cached(opsLog[o])
         start == [Idle EXCEPT !.op = o, !.obj = v, !.fresh = Current(opsLog[o])]
     IN /\ queue' = queue \ {o}
        /\ pass' =
             CASE ~v.exists \/ (v.deleted /\ ~v.finalizer) -> Idle
               [] v.exists /\ v.deleted /\ v.finalizer ->
                    [start EXCEPT !.pc = IF Terminal(v.phase) THEN "release" ELSE "discard",
                                  !.then = "drop"]
               [] v.exists /\ ~v.deleted /\ Terminal(v.phase) ->
                    [start EXCEPT !.pc = "release", !.then = "end"]
               [] OTHER ->
                    [start EXCEPT !.pc = IF v.finalizer THEN "resolve" ELSE "finalizer"]
  /\ UNCHANGED <<opsLog, locks, cpVars, crashes>>

AddFinalizer ==
  /\ At("finalizer")
  /\ \/ pass.fresh /\ Land([pass.obj EXCEPT !.finalizer = TRUE]) /\ End(FALSE)
     \/ ~pass.fresh /\ End(TRUE) /\ UNCHANGED opsLog
  /\ UNCHANGED <<locks, cpVars, crashes>>

\* resolve and the named volume's pin.  A volume that is gone or going ends the
\* operation; a target that is not online is waited for; an address that can never
\* work fails it.
Resolve ==
  /\ At("resolve")
  /\ "pvlag" \in env \/ Current(pvLog[Vol[pass.op]])
  /\ LET pending == pass.obj.step = "" IN
     IF Cached(pvLog[Vol[pass.op]]).there # "yes" THEN Discard("Aborted", "finish")
     ELSE \/ Goto(IF pending THEN "slot" ELSE "members")
          \/ "offline" \in env /\ Say("note")
          \/ "unresolvable" \in env /\ Finish("Failed")
          \/ "pin" \in env /\ pending /\ (Finish("Failed") \/ Finish("Aborted"))
  /\ UNCHANGED <<opsLog, locks, cpVars, crashes>>

\* lockIsStale: the named holder ended, or does not exist (cached read).
LockIsStale(held) ==
  LET v == Cached(opsLog[held]) IN ~v.exists \/ Terminal(v.phase)

Takeable(held) == IF held = NoOp THEN TRUE ELSE LockIsStale(held)

\* acquireSlot: the uncached cluster, patched on the version just read.
AcquireSlot ==
  /\ At("slot")
  /\ \/ /\ slot = pass.op
        /\ Goto("members") /\ UNCHANGED slot
     \/ /\ slot # pass.op /\ ~Takeable(slot)
        /\ Say("hold") /\ UNCHANGED slot
     \/ /\ slot # pass.op /\ Takeable(slot)
        /\ \/ slot' = pass.op /\ Goto("members")
           \/ "touch" \in env /\ End(TRUE) /\ UNCHANGED slot
  /\ UNCHANGED <<opsLog, pvLog, cpVars, crashes>>

-------------------------------------------------------------------------------
(* acquireLock: every volume of the subsystem, in name order.              *)

\* holdsNamedVolume: the cached volume, and the uncached one when that disagrees.
HoldsNamedVolume ==
  LET v == Vol[pass.op] IN
  \/ Cached(pvLog[v]).lock = pass.op
  \/ Pv(v).there # "no" /\ Pv(v).lock = pass.op

\* Seeded fault: only the named volume is locked.
SubsystemVolumesAlone(v) == {v}

\* subsystemVolumes: the members that front a PersistentVolume, and the named one.
SubsystemVolumes(v) == {w \in Siblings(v) : Pv(w).there # "no"}

\* An operation past Pending that still holds its volume goes on; any other reads
\* the members, and a pin on one of them ends an operation still Pending.
ReadMembers ==
  /\ At("members")
  /\ LET o == pass.op
         pending == pass.obj.step = ""
     IN \/ /\ ~pending /\ HoldsNamedVolume
           /\ Goto("step")
        \/ /\ pending \/ ~HoldsNamedVolume
           /\ \/ /\ Pv(Vol[o]).there # "no"
                 /\ pass' = [pass EXCEPT !.pc = "lock",
                      !.todo = {v \in SubsystemVolumes(Vol[o]) : Pv(v).lock # o}]
                 /\ UNCHANGED queue
              \/ "pin" \in env /\ pending /\ (Finish("Failed") \/ Finish("Aborted"))
  /\ UNCHANGED <<opsLog, locks, cpVars, crashes>>

\* The members, or the named volume, cannot be read.
ReadMembersFails ==
  /\ At("members") /\ ("lost" \in env \/ Pv(Vol[pass.op]).there = "no")
  /\ End(TRUE)
  /\ UNCHANGED <<opsLog, locks, cpVars, crashes>>

\* abandonAcquisition: a Pending operation gives everything back, slot included.
\* It then waits for the holder it met, or comes back when there was none.
AbandonAcquisition(then) ==
  IF pass.obj.step = "" THEN Release(then)
  ELSE IF then = "hold" THEN Say("hold") ELSE End(TRUE)

\* lockVolume on the next volume not held yet: held by somebody live, or patched on
\* the version read, which another writer of the volume can have replaced.
LockVolume ==
  /\ At("lock") /\ pass.todo # {}
  /\ LET v == Min(pass.todo)
         held == Pv(v).lock
         next == pass' = [pass EXCEPT !.todo = @ \ {v}] /\ UNCHANGED queue
     IN \/ /\ ~Takeable(held)
           /\ AbandonAcquisition("hold") /\ UNCHANGED pvLog
        \/ /\ Takeable(held)
           /\ \/ Pv(v).there # "no" /\ SetLock(v, pass.op) /\ next
              \/ /\ "touch" \in env \/ Pv(v).there = "no"
                 /\ AbandonAcquisition("requeue") /\ UNCHANGED pvLog
  /\ UNCHANGED <<opsLog, slot, cpVars, crashes>>

Locked ==
  /\ At("lock") /\ pass.todo = {}
  /\ Goto("step")
  /\ UNCHANGED <<opsLog, locks, cpVars, crashes>>

-------------------------------------------------------------------------------
(* advance and perform: one step of the migration.                         *)

\* validate, once the migration is recorded: hosts are checked, then the pins again.
Validate ==
  \/ Say("note")
  \/ Record(NextStep("Validating"))
  \/ "refuse" \in env /\ Discard("Failed", "finish")
  \/ "pin" \in env /\ (Discard("Failed", "finish") \/ Discard("Aborted", "finish"))

\* The migration is continued when it has not begun and no continue was recorded.
MayContinue(v) == mig[pass.op] \in {"pre_created", "asked"} /\ ~v.continued

\* copy: continued once, then finished on the state the control plane reports.
Copy ==
  LET v == pass.obj  o == pass.op IN
  \/ ~v.migration /\ Discard("Failed", "finish")
  \/ v.migration /\ mig[o] = "done" /\ Record(NextStep("Migrating"))
  \/ v.migration /\ mig[o] \in {"failed", "canceled"} /\ Discard("Failed", "finish")
  \/ v.migration /\ MayContinue(v) /\ Goto("claim")
  \/ v.migration /\ Live(o) /\ ~MayContinue(v) /\ Say("note")

Perform ==
  \/ /\ pass.obj.step = "Validating"
     /\ IF pass.obj.migration THEN Validate ELSE Goto("claim")
  \/ pass.obj.step = "Migrating" /\ Copy
  \/ pass.obj.step = "Verifying" /\ (Say("note") \/ Finish("Succeeded"))

\* advance: initial step, abort, deadline, then the step itself.
Advance ==
  /\ At("step")
  /\ LET v == pass.obj IN
     IF v.step = "" THEN WriteThen("enter", "Validating", "requeue")
     ELSE IF v.abort /\ Abortable(v.step) THEN Discard("Aborted", "finish")
     ELSE IF v.deadline = "passed" THEN Discard("Failed", "finish")
     ELSE Perform
  /\ UNCHANGED <<opsLog, locks, cpVars, crashes>>

\* Seeded fault: the claim and what travels with it retried on a conflict.
ClaimRetried ==
  /\ At("claim")
  /\ \/ Say("note") /\ UNCHANGED opsLog
     \/ /\ pass.obj.claim # "live"
        /\ LET v == [Op(pass.op) EXCEPT !.claim = "live",
                       !.continued = @ \/ pass.obj.step = "Migrating"] IN
           Land(v) /\ pass' = [pass EXCEPT !.obj = v, !.pc = "call", !.fresh = TRUE]
        /\ UNCHANGED queue
  /\ UNCHANGED <<locks, cpVars, crashes>>

\* once: the claim's patch, skipped on a live claim, refused on a stale copy; the
\* record that the migration was continued travels in it.
Claim ==
  /\ At("claim")
  /\ \/ Say("note") /\ UNCHANGED opsLog
     \/ /\ pass.obj.claim # "live" /\ pass.fresh
        /\ LET v == [Op(pass.op) EXCEPT !.claim = "live",
                       !.continued = @ \/ pass.obj.step = "Migrating"] IN
           Land(v) /\ pass' = [pass EXCEPT !.obj = v, !.pc = "call"]
        /\ UNCHANGED queue
  /\ UNCHANGED <<locks, cpVars, crashes>>

\* The control plane takes one migration per cluster at a time.
Accepts(o) == \A p \in Ops : ~Live(p)

\* createMigration: already there, refused, created and answered, or an error that
\* does not say whether it was created.
CreateMigration ==
  /\ At("call") /\ pass.obj.step = "Validating"
  /\ LET o == pass.op  there == Subsystem[Vol[o]] \in moved IN
     \/ there /\ Finish("Succeeded") /\ UNCHANGED mig
     \/ /\ ~there /\ Accepts(o)
        /\ mig' = [mig EXCEPT ![o] = "pre_created"]
        /\ WriteThen("migration", "", "requeue") \/ ("lost" \in env /\ Say("note"))
     \/ ~there /\ Say("note") /\ UNCHANGED mig
     \/ ~there /\ "refuse" \in env /\ Discard("Failed", "finish") /\ UNCHANGED mig
  /\ UNCHANGED <<opsLog, locks, moved, continues, crashes>>

\* ContinueMigration, which may or may not arrive; the next pass reads what it did.
ContinueMigration ==
  /\ At("call") /\ pass.obj.step = "Migrating"
  /\ LET o == pass.op IN
     \/ /\ mig' = [mig EXCEPT ![o] = IF @ = "pre_created" THEN "asked" ELSE @]
        /\ continues' = [continues EXCEPT ![o] = @ + 1]
     \/ "lost" \in env /\ UNCHANGED <<mig, continues>>
  /\ Say("note")
  /\ UNCHANGED <<opsLog, locks, moved, crashes>>

\* An abort and a deletion wait for the cancel; a failure only reports that it failed.
Strict == pass.then = "drop" \/ pass.arg = "Aborted"

AfterDiscard ==
  IF pass.then = "drop" THEN Release("drop") ELSE Finish(pass.arg)

\* discardMigration: nothing recorded is nothing to take back.
DiscardMigration ==
  /\ At("discard")
  /\ IF pass.obj.migration
       THEN mig' = [mig EXCEPT ![pass.op] = IF Live(pass.op) THEN "canceled" ELSE @]
       ELSE UNCHANGED mig
  /\ AfterDiscard
  /\ UNCHANGED <<opsLog, locks, moved, continues, crashes>>

\* The cancel or the cleanup after it fails.
DiscardFails ==
  /\ At("discard") /\ pass.obj.migration /\ "lost" \in env
  /\ IF Strict THEN Say("note") ELSE AfterDiscard
  /\ UNCHANGED <<opsLog, locks, cpVars, crashes>>

-------------------------------------------------------------------------------
(* writeStatus, releaseLock, teardown.                                     *)

\* What the mutation `do` makes of the version v.  (createMigration replaces the whole
\* MigrationStatus; it comes before the first continue, so `continued` is FALSE then.)
Mutate(v, do, arg) ==
  CASE do = "enter"  -> [v EXCEPT !.phase = "Running", !.step = arg,
                                  !.claim = "none", !.deadline = "set"]
    [] do = "hold"   -> [v EXCEPT !.phase = IF @ = "" THEN "Pending" ELSE @]
    [] do = "note"   -> v
    [] do = "ahead"  -> [v EXCEPT !.phase = "Running", !.step = arg,
                                  !.claim = "none", !.deadline = "none"]
    [] do = "record" -> [v EXCEPT !.phase = "Running", !.step = arg,
                                  !.claim = "none", !.deadline = Armed]
    [] do = "migration" -> [v EXCEPT !.migration = TRUE]
    [] do = "finish" -> IF arg = "Succeeded"
                          THEN [v EXCEPT !.phase = arg, !.step = "Completed",
                                         !.claim = "none", !.deadline = "none"]
                          ELSE [v EXCEPT !.phase = arg]

\* What follows a status write that landed.
AfterWrite(v) ==
  LET held == [pass EXCEPT !.obj = WithStatus(@, v), !.fresh = TRUE, !.do = ""] IN
  CASE pass.then = "requeue" -> End(TRUE)
    [] pass.then = "arm" ->
         /\ pass' = [held EXCEPT !.do = "record", !.then = "requeue"]
         /\ UNCHANGED queue
    [] pass.then = "finish" ->
         /\ pass' = [held EXCEPT !.pc = "release", !.then = "end"]
         /\ UNCHANGED queue

\* writeStatus: the first attempt patches the caller's object; a conflict reads the
\* cache again and applies the same mutation to what it finds, until retries run out.
WriteStatus ==
  /\ At("write")
  /\ LET log == opsLog[pass.op]
         base == IF pass.fresh THEN pass.obj ELSE Cached(log)
         v == Mutate(base, pass.do, pass.arg)
     IN \/ /\ pass.fresh \/ (Current(log) /\ base.exists)
           /\ Land(WithStatus(Stored(log), v))
           /\ AfterWrite(v)
        \/ /\ ~pass.fresh /\ (Current(log) => ~base.exists)
           /\ "opslag" \in env \/ Current(log)
           /\ End(TRUE) /\ UNCHANGED opsLog
  /\ UNCHANGED <<locks, cpVars, crashes>>

\* Seeded fault: a release that clears every lock it finds.
CarriesAny(o) == {v \in Vols : Pv(v).there # "no" /\ Pv(v).lock # NoOp}

\* The volumes that carry the operation's name (uncached listing).
Carries(o) == {v \in Vols : Pv(v).there # "no" /\ Pv(v).lock = o}

\* releaseLock: one volume after the other, then the slot with them.
ReleaseVolume(v) ==
  /\ At("release") /\ v \in Carries(pass.op)
  /\ SetLock(v, NoOp)
  /\ UNCHANGED <<opsLog, slot, queue, pass, cpVars, crashes>>

\* Seeded fault: the slot is left to whoever breaks it.
SlotAfterReleaseKept == slot

\* releaseSlot, with its ownership check.
SlotAfterRelease == IF slot = pass.op THEN NoOp ELSE slot

ReleaseSlot ==
  /\ At("release") /\ Carries(pass.op) = {}
  /\ slot' = SlotAfterRelease
  /\ \/ pass.then = "drop" /\ Goto("drop")
     \/ pass.then = "end" /\ End(FALSE)
     \/ pass.then = "requeue" /\ End(TRUE)
     \/ pass.then = "hold" /\ Say("hold")
  /\ UNCHANGED <<opsLog, pvLog, cpVars, crashes>>

\* Seeded fault: the finalizer removed whatever version the pass had read.
DropFinalizerAnyway ==
  /\ At("drop")
  /\ Land([Op(pass.op) EXCEPT !.exists = FALSE]) /\ End(FALSE)
  /\ UNCHANGED <<locks, cpVars, crashes>>

\* The end of teardown: the finalizer goes, and the object with it.
DropFinalizer ==
  /\ At("drop")
  /\ \/ pass.fresh /\ Land([pass.obj EXCEPT !.exists = FALSE]) /\ End(FALSE)
     \/ ~pass.fresh /\ End(TRUE) /\ UNCHANGED opsLog
  /\ UNCHANGED <<locks, cpVars, crashes>>

-------------------------------------------------------------------------------
(* Everybody else.                                                         *)

DeliverOp(o) ==
  /\ Len(opsLog[o]) > 1
  /\ opsLog' = [opsLog EXCEPT ![o] = Delivered(@)]
  /\ queue' = queue \cup {o}
  /\ UNCHANGED <<locks, pass, cpVars, crashes>>

\* operationsOn, behind volumeLockChanged: the operations naming the volume.
DeliverPv(v) ==
  /\ Len(pvLog[v]) > 1
  /\ pvLog' = [pvLog EXCEPT ![v] = Delivered(@)]
  /\ queue' = queue \cup {o \in Ops : Vol[o] = v /\ Cached(opsLog[o]).exists}
  /\ UNCHANGED <<opsLog, slot, pass, cpVars, crashes>>

Expired(v) == IF v.claim = "live" THEN [v EXCEPT !.claim = "expired"] ELSE v
Overdue(v, s) ==
  IF v.step = s /\ v.deadline = "set" THEN [v EXCEPT !.deadline = "passed"] ELSE v

\* A claim's lease runs out, and a step's deadline passes, in every copy.
LeaseExpires(o) ==
  /\ \E i \in 1..Len(opsLog[o]) : opsLog[o][i].claim = "live"
  /\ opsLog' = [opsLog EXCEPT ![o] = [i \in 1..Len(@) |-> Expired(@[i])]]
  /\ pass' = IF pass.op = o THEN [pass EXCEPT !.obj = Expired(@)] ELSE pass
  /\ UNCHANGED <<locks, queue, cpVars, crashes>>

DeadlinePasses(o, s) ==
  /\ "late" \in env
  /\ \E i \in 1..Len(opsLog[o]) : Overdue(opsLog[o][i], s) # opsLog[o][i]
  /\ opsLog' = [opsLog EXCEPT ![o] = [i \in 1..Len(@) |-> Overdue(@[i], s)]]
  /\ pass' = IF pass.op = o THEN [pass EXCEPT !.obj = Overdue(@, s)] ELSE pass
  /\ UNCHANGED <<locks, queue, cpVars, crashes>>

SetAbort(o) ==
  LET v == Op(o) IN
  /\ "abort" \in env /\ v.exists /\ ~v.abort /\ Room(opsLog[o], MaxLag)
  /\ opsLog' = [opsLog EXCEPT ![o] = Written(@, [v EXCEPT !.abort = TRUE])]
  /\ Disturb(o)
  /\ UNCHANGED <<locks, queue, cpVars, crashes>>

\* The user deletes the operation, past the DELETE guard of the webhook.
Delete(o) ==
  LET v == Op(o) IN
  /\ "delete" \in env /\ v.exists /\ ~v.deleted /\ Deletable(v)
  /\ Room(opsLog[o], MaxLag)
  /\ opsLog' = [opsLog EXCEPT ![o] = Written(@,
       IF v.finalizer THEN [v EXCEPT !.deleted = TRUE] ELSE [v EXCEPT !.exists = FALSE])]
  /\ Disturb(o)
  /\ UNCHANGED <<locks, queue, cpVars, crashes>>

\* A volume joins its subsystem, begins to be deleted, and goes with its lock.
VolumeWrite(v) ==
  /\ Room(pvLog[v], MaxLag)
  /\ pvLog' = [pvLog EXCEPT ![v] = Written(@,
       CASE Pv(v).there = "no" -> [NoVolume EXCEPT !.there = "yes"]
         [] Pv(v).there = "yes" -> [Pv(v) EXCEPT !.there = "deleting"]
         [] Pv(v).there = "deleting" -> NoVolume)]
  /\ IF Pv(v).there = "no" THEN v \in Later /\ "join" \in env ELSE "gone" \in env
  /\ UNCHANGED <<opsLog, slot, queue, pass, cpVars, crashes>>

Crash ==
  /\ "crash" \in env /\ crashes < MaxCrashes
  /\ crashes' = crashes + 1
  /\ pass' = Idle
  /\ queue' = {o \in Ops : Cached(opsLog[o]).exists}
  /\ UNCHANGED <<opsLog, locks, cpVars>>

\* The copy begins, cuts over, or fails.
CpCopy(o) ==
  /\ \/ mig[o] = "asked" /\ mig' = [mig EXCEPT ![o] = "running"] /\ UNCHANGED moved
     \/ /\ mig[o] = "running"
        /\ mig' = [mig EXCEPT ![o] = "done"] /\ moved' = moved \cup {Subsystem[Vol[o]]}
     \/ mig[o] = "running" /\ "fault" \in env /\ mig' = [mig EXCEPT ![o] = "failed"] /\ UNCHANGED moved
  /\ UNCHANGED <<opsLog, locks, queue, pass, continues, crashes>>

-------------------------------------------------------------------------------
Init ==
  /\ env \in Envs
  /\ \E p \in Ops : opsLog = [o \in Ops |->
       <<[NewOp EXCEPT !.exists = o = p \/ "alone" \notin env]>>]
  /\ pvLog = [v \in Vols |-> <<[lock |-> NoOp,
                               there |-> IF v \in Later THEN "no" ELSE "yes"]>>]
  /\ slot = NoOp
  /\ queue = Ops
  /\ pass = Idle
  /\ mig = [o \in Ops |-> "none"] /\ moved = {}
  /\ continues = [o \in Ops |-> 0]
  /\ crashes = 0

PassStep ==
  \/ AddFinalizer \/ Resolve \/ AcquireSlot \/ ReadMembers \/ ReadMembersFails
  \/ LockVolume \/ Locked
  \/ Advance \/ Claim \/ CreateMigration \/ ContinueMigration
  \/ DiscardMigration \/ DiscardFails
  \/ WriteStatus \/ (\E v \in Vols : ReleaseVolume(v)) \/ ReleaseSlot \/ DropFinalizer

Worker == PassStep \/ \E o \in Ops : Reconcile(o)

WorkSteps == {"Validating", "Migrating", "Verifying"}

Environment ==
  \/ \E o \in Ops :
       \/ DeliverOp(o) \/ LeaseExpires(o) \/ SetAbort(o) \/ Delete(o) \/ CpCopy(o)
       \/ \E s \in WorkSteps : DeadlinePasses(o, s)
  \/ \E v \in Vols : DeliverPv(v) \/ VolumeWrite(v)
  \/ Crash

Next == (Worker \/ Environment) /\ UNCHANGED env

Spec == Init /\ [][Next]_vars

\* Queued operations get their pass, passes run on, watch events arrive, time moves,
\* and a control plane that is asked again and again to list a subsystem or to cancel
\* a migration does so at last.
Fairness ==
  /\ WF_moving(PassStep) /\ SF_moving(ReadMembers) /\ SF_moving(DiscardMigration)
  /\ \A v \in Vols : WF_moving(DeliverPv(v))
  /\ \A o \in Ops :
       /\ SF_moving(Reconcile(o)) /\ WF_moving(DeliverOp(o)) /\ WF_moving(LeaseExpires(o))
       /\ \A s \in WorkSteps : WF_moving(DeadlinePasses(o, s))

FairSpec == Spec /\ Fairness

-------------------------------------------------------------------------------
(* Properties.                                                             *)

\* Every variable keeps its type.
TypeOK ==
  /\ env \in Envs
  /\ opsLog \in [Ops -> Seq(OpsObj)]
  /\ \A o \in Ops : Len(opsLog[o]) \in 1..(MaxLag + 1)
  /\ pvLog \in [Vols -> Seq(PvObj)]
  /\ \A v \in Vols : Len(pvLog[v]) \in 1..(MaxLag + 1)
  /\ slot \in Ops \cup {NoOp}
  /\ queue \subseteq Ops
  /\ pass \in PassObj
  /\ ~At("idle") => pass.op \in Ops
  /\ mig \in [Ops -> Migrations]
  /\ moved \subseteq {Subsystem[v] : v \in Vols}
  /\ continues \in [Ops -> Nat]
  /\ crashes \in 0..MaxCrashes

\* An operation past Pending that nobody is taking down.
Running(o) ==
  LET v == Op(o) IN v.exists /\ ~v.deleted /\ v.phase = "Running" /\ v.step \in WorkSteps

\* A running operation holds the cluster's migration slot and every volume of its
\* subsystem that was there when it started: one operation at a time is past Pending,
\* and no two move one subsystem (acquireSlot, acquireLock and their releases).
SubsystemLocked ==
  \A o \in Ops : Running(o) =>
    /\ slot = o
    /\ \A v \in Siblings(Vol[o]) \ Later : Pv(v).there = "no" \/ Pv(v).lock = o

\* The control plane is only asked by the operation whose name the volume carries.
CallUnderLock ==
  At("call") => LET v == Pv(Vol[pass.op]) IN v.there = "no" \/ v.lock = pass.op

\* A migration is continued at most once, whatever the caches lag and whoever
\* crashes: a repeated continue is the shape that has lost writes (copy, once).
ContinuedOnce == \A o \in Ops : continues[o] <= 1

\* An operation deleted before its end never leaves the migration it had recorded
\* (teardown: the finalizer waits for the cancel, and goes only on a fresh copy).
DeleteTakesBack ==
  \A o \in Ops : LET v == Op(o) IN
    ~v.exists /\ v.migration /\ ~Terminal(v.phase) => ~Live(o)

\* Once every cache has caught up and no reconcile is owed, whoever holds a volume
\* or the slot still has work to do (finish, the second release, teardown).
Quiet == /\ At("idle") /\ queue = {}
         /\ \A v \in Vols : Current(pvLog[v])
         /\ \A o \in Ops : Current(opsLog[o])
NothingLeftBehind ==
  Quiet => \A o \in Ops : slot = o \/ Carries(o) # {} =>
                           Op(o).exists /\ ~Terminal(Op(o).phase)

\* Every operation ends, the queued ones included.
EveryOpEnds == \A o \in Ops : <>(~Op(o).exists \/ Terminal(Op(o).phase))

\* The volumes and the slot an operation holds are given back.
LocksComeBack ==
  \A o \in Ops : (slot = o \/ Carries(o) # {}) ~> (slot # o /\ Carries(o) = {})
===============================================================================
