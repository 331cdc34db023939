SPECIFICATION Spec
CONSTANTS
  o1 = o1
  o2 = o2
  s1 = s1
  Ops = {o1, o2}
  NoOp = NoOp
  Vols = {1, 2, 3}
  Subsystem <- OneSubsystem
  Vol <- OneEach
  Later = {3}
  MaxLag = 1
  MaxCrashes = 1
  Envs = {{"delete", "touch", "opslag", "pvlag"}, {"delete", "touch", "crash"},
          {"alone", "abort", "delete", "late", "lost", "refuse", "fault", "crash", "message"},
          {"alone", "gone", "join", "pin", "offline", "unresolvable", "touch"}}
INVARIANTS TypeOK SubsystemLocked CallUnderLock ContinuedOnce DeleteTakesBack NothingLeftBehind
CHECK_DEADLOCK FALSE
