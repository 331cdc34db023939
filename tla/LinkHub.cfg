SPECIFICATION FairSpec
CONSTANTS
  Peers = {p1}
  MaxSessions = 4
  MaxFaults = 1
  Shutdown = TRUE
INVARIANTS TypeOK OpenIsRegistered ShutdownReachesAll
PROPERTIES PeersComeBack
CHECK_DEADLOCK FALSE
