----------------------------- MODULE MCVolumeOps -----------------------------
(* Instances of VolumeOps for TLC.                                         *)
EXTENDS VolumeOps

CONSTANTS o1, o2, s1

\* One subsystem, two of whose volumes are named by an operation each.
OneSubsystem == [v \in Vols |-> s1]
OneEach == [o \in Ops |-> IF o = o1 THEN 1 ELSE 2]
===============================================================================
