---------------------------- MODULE MCProvisioning ----------------------------
(* Instances of Provisioning: the workers in the order of their names.        *)
EXTENDS Provisioning, TLC

CONSTANTS n1, n2, w1, w2

\* One socket on each worker.
TwoWorkers == n1 :> w1 @@ n2 :> w2
InOrder == w1 :> 1 @@ w2 :> 2
===============================================================================
