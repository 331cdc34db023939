----------------------------- MODULE InformerProofs -----------------------------
(***************************************************************************)
(* What the operations on an informer's log do, for every log.             *)
(***************************************************************************)
EXTENDS Informer, TLAPS

\* A landed write: the log grows by v, the cache does not move, and v is what the
\* API server stores and the cache has yet to see.
LEMMA LogWritten ==
  ASSUME NEW S, NEW log \in Seq(S), Len(log) > 0, NEW v \in S
  PROVE  /\ Written(log, v) \in Seq(S)
         /\ Len(Written(log, v)) = Len(log) + 1
         /\ Cached(Written(log, v)) = Cached(log)
         /\ Stored(Written(log, v)) = v
         /\ ~Current(Written(log, v))
         /\ \A i \in 1..Len(log) : Written(log, v)[i] = log[i]
  BY DEF Written, Cached, Stored, Current

\* The same write, version by version.
LEMMA LogGrown ==
  ASSUME NEW S, NEW log \in Seq(S), Len(log) > 0, NEW v \in S
  PROVE  /\ Len(Written(log, v)) = Len(log) + 1
         /\ Stored(Written(log, v)) = v /\ Written(log, v)[Len(log) + 1] = v
         /\ \A i \in 1..Len(log) : Written(log, v)[i] = log[i]
  BY DEF Written, Stored

\* A watch event: the log loses its oldest version, and the API server's stays.
LEMMA LogDelivered ==
  ASSUME NEW S, NEW log \in Seq(S), Len(log) > 1
  PROVE  /\ Delivered(log) \in Seq(S)
         /\ Len(Delivered(log)) = Len(log) - 1
         /\ Cached(Delivered(log)) = log[2]
         /\ Stored(Delivered(log)) = Stored(log)
         /\ \A i \in 1..Len(Delivered(log)) : Delivered(log)[i] = log[i + 1]
  BY DEF Delivered, Cached, Stored

\* Both ends of a log are versions of the object.
LEMMA LogEnds ==
  ASSUME NEW S, NEW log \in Seq(S), Len(log) > 0
  PROVE  /\ Cached(log) \in S /\ Stored(log) \in S
         /\ Cached(log) = log[1]
         /\ Current(log) => Cached(log) = Stored(log)
  BY DEF Cached, Stored, Current
===============================================================================
