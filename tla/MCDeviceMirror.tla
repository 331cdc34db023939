---------------------------- MODULE MCDeviceMirror ----------------------------
(* Instances of DeviceMirror for TLC.                                      *)
EXTENDS DeviceMirror, TLC

CONSTANTS d1, d2

Env(devices, changes, does) == [devices |-> devices, changes |-> changes, does |-> does]

MCEnvs ==
  { Env({d1}, 2, {"device", "drop"}),
    Env({d1}, 1, {"device", "crash"}),
    Env({d1}, 2, {"device", "node", "lock"}),
    Env({d1, d2}, 1, {"device"}),
    Env({d1}, 1, {"device", "record"}),
    Env({d1}, 0, {"foreground"}),
    Env({d1}, 1, {"leave"}) }

\* A restart of the operator, and nothing else.
Restart == { Env({d1}, 0, {"crash"}) }
===============================================================================
