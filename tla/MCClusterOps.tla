----------------------------- MODULE MCClusterOps -----------------------------
(* Instances of ClusterOps for TLC.                                        *)
EXTENDS ClusterOps, TLC

CONSTANTS o1, o2

Env(acts, start, does) == [acts |-> acts, start |-> start, does |-> does]
One(a) == o1 :> a
Two(a, b) == o1 :> a @@ o2 :> b

MCEnvs ==
  { Env(One("RollingRestart"), "active", {"abort", "delete", "opslag", "nodestream"}),
    Env(One("RollingRestart"), "active", {"abort", "opslag", "clusterstream"}),
    Env(One("RollingRestart"), "active", {"remove", "crash"}),
    Env(One("RollingRestart"), "active", {"fault"}),
    Env(One("RollingRestart"), "active", {"fault", "early", "abort", "lost"}),
    Env(One("RollingRestart"), "active", {"late", "lost"}),
    Env(One("RollingRestart"), "active", {"gone", "follower", "message", "touch", "refresh"}),
    Env(Two("RollingRestart", "RollingRestart"), "active", {"abort", "lag", "nodestream"}),
    Env(One("RollingRestart"), "active", {"fatal"}),
    Env(One("Activate"), "unready", {"revert", "lost", "crash", "opslag", "late"}),
    Env(One("Expand"), "active", {"abort", "delete"}),
    Env(Two("Shutdown", "Start"), "active", {"lag"}),
    Env(One("CancelTask"), "active", {"follower"}),
    Env(One("Restart"), "active", {"abort", "crash"}) }
===============================================================================
