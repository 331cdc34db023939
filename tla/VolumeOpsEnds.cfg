SPECIFICATION FairSpec
CONSTANTS
  o1 = o1
  o2 = o2
  s1 = s1
  Ops = {o1, o2}
  NoOp = NoOp
  Vols = {1, 2, 3}
  Subsystem <- OneSubsystem
  Vol <- OneEach
  Later = {3}
  MaxLag = 1
  MaxCrashes = 0
  Envs = {{"late"}, {"alone", "late", "abort", "lost", "refuse", "fault"}}
PROPERTIES EveryOpEnds LocksComeBack
CHECK_DEADLOCK FALSE
