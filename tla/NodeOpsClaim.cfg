SPECIFICATION Spec
CONSTANTS
  o1 = o1
  o2 = o2
  Ops = {o1}
  NoOp = NoOp
  Action <- RestartShutdown
  Forced = {o1}
  MaxLag = 1
  MaxCrashes = 1
  Env = {"abort", "delete", "node", "gone", "fault", "late", "message"}
  OpsPrompt = TRUE
  NodePrompt = FALSE
INVARIANTS OneCallPerLease
PROPERTIES ReleasedWhenDone
CHECK_DEADLOCK FALSE
