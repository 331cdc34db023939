-------------------------------- MODULE NodeLock --------------------------------
(***************************************************************************)
(* What status.activeOpsRef promises of one StorageNode, whatever the      *)
(* caches do: at most one operation holds the node, an operation only ever *)
(* takes a free node and only ever gives up its own hold, and for as long  *)
(* as an operation is making a control-plane call the node stays with it.  *)
(*   operator/docs/designs/crd-redesign/design-storagenode.md, section 11  *)
(***************************************************************************)
CONSTANTS Ops, NoOp

VARIABLES
  holder,  \* the operation status.activeOpsRef names
  caller,  \* the operation about to make a control-plane call
  gone     \* the StorageNode object no longer exists

lockVars == <<holder, caller, gone>>

LockInit == holder = NoOp /\ caller = NoOp /\ gone = FALSE

Acquire(o) ==
  /\ holder = NoOp /\ caller = NoOp /\ ~gone
  /\ holder' = o
  /\ UNCHANGED <<caller, gone>>

Release(o) ==
  /\ holder = o /\ caller = NoOp
  /\ holder' = NoOp
  /\ UNCHANGED <<caller, gone>>

BeginCall(o) ==
  /\ holder = o \/ gone
  /\ caller = NoOp /\ caller' = o
  /\ UNCHANGED <<holder, gone>>

EndCall ==
  /\ caller # NoOp /\ caller' = NoOp
  /\ UNCHANGED <<holder, gone>>

Vanish ==
  /\ ~gone /\ gone' = TRUE /\ holder' = NoOp
  /\ UNCHANGED caller

LockNext ==
  \/ \E o \in Ops : Acquire(o) \/ Release(o) \/ BeginCall(o)
  \/ EndCall \/ Vanish

LockSpec == LockInit /\ [][LockNext]_lockVars
===============================================================================
