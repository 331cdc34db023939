------------------------------- MODULE Informer -------------------------------
(***************************************************************************)
(* An API object seen through an informer cache.                           *)
(*                                                                         *)
(* Every controller of the operator reads objects from the controller-     *)
(* runtime cache and writes them to the API server with a patch that       *)
(* carries the resourceVersion it read.  One object is therefore a LOG,    *)
(* the non-empty sequence of its versions from the one the cache holds to  *)
(* the one the API server stores.  The cache only moves forward.  A write  *)
(* conditional on the cached version lands exactly when nothing in the log *)
(* is newer than it.                                                       *)
(***************************************************************************)
EXTENDS Integers, Sequences

\* The version a cached read (client.Get) returns.
Cached(log) == Head(log)

\* The version the API server stores.
Stored(log) == log[Len(log)]

\* The cache has seen the newest version, so a patch on what it returns lands.
Current(log) == Len(log) = 1

\* The cache receives the next watch event of the object.
Delivered(log) == Tail(log)

\* A write that landed: the newest version, not yet seen by the cache.
Written(log, v) == Append(log, v)

\* Room for one more undelivered version under the bound `lag`.
Room(log, lag) == Len(log) <= lag
===============================================================================
