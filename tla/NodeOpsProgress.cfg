SPECIFICATION FairSpec
CONSTANTS
  o1 = o1
  o2 = o2
  Ops = {o1, o2}
  NoOp = NoOp
  Action <- SuspendResume
  Forced = {o1}
  MaxLag = 1
  MaxCrashes = 1
  Env = {"late"}
  OpsPrompt = TRUE
  NodePrompt = TRUE
PROPERTIES EveryOpEnds LockComesBack
CHECK_DEADLOCK FALSE
