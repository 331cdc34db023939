SPECIFICATION FairSpec
CONSTANTS
  d1 = d1
  d2 = d2
  Devices = {d1, d2}
  MaxLag = 1
  MaxDrops = 1
  MaxCrashes = 1
  MaxRecords = 2
  Envs <- MCEnvs
INVARIANTS TypeOK IndexMatchesCache LockKept KeptUnlessGone
PROPERTIES Converges StreamsFollow
CHECK_DEADLOCK FALSE
