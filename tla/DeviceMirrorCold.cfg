SPECIFICATION Spec
CONSTANTS
  d1 = d1
  d2 = d2
  Devices = {d1, d2}
  MaxLag = 1
  MaxDrops = 1
  MaxCrashes = 1
  MaxRecords = 2
  Envs <- Restart
INVARIANTS ColdCacheDeletesNothing
CHECK_DEADLOCK FALSE
