------------------------------- MODULE MCNodeOps -------------------------------
(* Instances of NodeOps for TLC: two operations on one node.               *)
EXTENDS NodeOpsInvariant

CONSTANTS o1, o2

SuspendResume == [o \in Ops |-> IF o = o1 THEN "Suspend" ELSE "Resume"]
RestartShutdown == [o \in Ops |-> IF o = o1 THEN "Restart" ELSE "Shutdown"]
===============================================================================
