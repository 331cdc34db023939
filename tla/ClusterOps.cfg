SPECIFICATION Spec
CONSTANTS
  o1 = o1
  o2 = o2
  Ops = {o1, o2}
  NoOp = NoOp
  Nodes = {1, 2}
  MaxLag = 1
  MaxCrashes = 1
  MaxActivates = 3
  Envs <- MCEnvs
INVARIANTS TypeOK CallUnderLock OneNodeDown EveryNodeRestarted NoNodeStranded ShutdownWhenRebalanced OneActivation
CHECK_DEADLOCK FALSE
