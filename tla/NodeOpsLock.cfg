SPECIFICATION Spec
CONSTANTS
  o1 = o1
  o2 = o2
  Ops = {o1, o2}
  NoOp = NoOp
  Action <- SuspendResume
  Forced = {o1}
  MaxLag = 1
  MaxCrashes = 1
  Env = {"delete"}
  OpsPrompt = FALSE
  NodePrompt = FALSE
INVARIANTS TypeOK LockInv CallUnderLock
PROPERTIES LockSpec
CHECK_DEADLOCK FALSE
