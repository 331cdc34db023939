----------------------------- MODULE LinkHubProofs -----------------------------
(***************************************************************************)
(* Proofs about the link hub, for any set of peers, any number of sessions *)
(* and any faults: the registry never loses an open session, and a         *)
(* shutdown reaches every session.                                         *)
(***************************************************************************)
EXTENDS LinkHub, TLAPS

\* A session that exists has the peer that dialled it.
Owned == \A s \in Sessions : handle[s] # "none" => peer[s] \in Peers
\* The Hello handler of a session only exists with the session.
HelloOwned == \A s \in Sessions : hello[s] # "none" => handle[s] # "none"
\* Only an existing session is open, and one past the wait for Done is closed.
HandleKnows == \A s \in Sessions : hubEnd[s] = "open" => handle[s] \in {"track", "wait"}
\* What Hub.Close collected is what it has not closed yet.
Closing == hub = "closing" => \A s \in Sessions :
             hubEnd[s] = "open" => handle[s] = "track" \/ s \in leaving

LinkInv == /\ TypeOK /\ Owned /\ HelloOwned /\ HandleKnows /\ Closing
           /\ OpenIsRegistered /\ ShutdownReachesAll

USE LinkAssumption DEF Sessions, ends, agents, shutdown

\* The initial states satisfy the invariant: no session exists yet.
LEMMA LinkInit == Init => LinkInv
BY DEF Init, LinkInv, TypeOK, Owned, HelloOwned, HandleKnows, Closing,
       OpenIsRegistered, ShutdownReachesAll

\* A step of an agent opens a new session or closes its own end of one.
LEMMA LinkAgentStep ==
  ASSUME LinkInv, NEW p \in Peers, AgentStep(p) PROVE LinkInv'
<1>1. CASE Dial(p)
  <2>1. dialled + 1 \in Sessions
    BY <1>1 DEF Dial, LinkInv, TypeOK
  <2>2. TypeOK'
    BY <1>1, <2>1 DEF Dial, LinkInv, TypeOK
  <2>3. Owned' /\ HelloOwned' /\ HandleKnows' /\ Closing'
    BY <1>1, <2>1 DEF Dial, LinkInv, TypeOK, Owned, HelloOwned, HandleKnows, Closing
  <2>4. OpenIsRegistered' /\ ShutdownReachesAll'
    BY <1>1, <2>1 DEF Dial, LinkInv, TypeOK, OpenIsRegistered, ShutdownReachesAll
  <2> QED BY <2>2, <2>3, <2>4 DEF LinkInv
<1>2. CASE Linked(p)
  BY <1>2 DEF Linked, LinkInv, TypeOK, Owned, HelloOwned, HandleKnows, Closing,
     OpenIsRegistered, ShutdownReachesAll
<1>3. CASE Unlinked(p)
  <2>1. agent' \in [Peers -> {"idle", "hello", "linked", "stopped"}]
    <3>1. PICK next \in {"idle", "stopped"} : agent' = [agent EXCEPT ![p] = next]
      BY <1>3 DEF Unlinked
    <3> QED BY <3>1 DEF LinkInv, TypeOK
  <2>2. faults' \in 0..MaxFaults
    BY <1>3 DEF Unlinked, Fault, LinkInv, TypeOK
  <2>3. /\ agentEnd' \in [Sessions -> {"none", "open", "closed"}]
        /\ current' \in [Peers -> Sessions \cup {0}]
    BY <1>3 DEF Unlinked, LinkInv, TypeOK
  <2>4. UNCHANGED <<dialled, peer, hubEnd, handle, hello, identified, registry, doomed,
                    hub, leaving>>
    BY <1>3 DEF Unlinked
  <2>5. TypeOK'
    BY <2>1, <2>2, <2>3, <2>4 DEF LinkInv, TypeOK
  <2> QED BY <2>4, <2>5 DEF LinkInv, LinkInv, Owned, HelloOwned, HandleKnows, Closing,
     OpenIsRegistered, ShutdownReachesAll
<1> QED BY <1>1, <1>2, <1>3 DEF AgentStep

\* A step of the Hello handler keeps the invariant: only Register touches the
\* registry, and it dooms the session it displaces.
LEMMA LinkHelloStep ==
  ASSUME LinkInv, NEW s \in Sessions, Authenticate(s) \/ Complete(s) \/ Register(s)
  PROVE  LinkInv'
<1>1. CASE Authenticate(s)
  <2>1. TypeOK'
    BY <1>1 DEF Authenticate, Fault, LinkInv, TypeOK
  <2> QED BY <1>1, <2>1 DEF Authenticate, LinkInv, TypeOK, Owned, HelloOwned,
     HandleKnows, Closing, OpenIsRegistered, ShutdownReachesAll
<1>2. CASE Complete(s)
  BY <1>2 DEF Complete, LinkInv, TypeOK, Owned, HelloOwned, HandleKnows, Closing,
     OpenIsRegistered, ShutdownReachesAll
<1>3. CASE Register(s)
  <2>1. peer[s] \in Peers
    BY <1>3 DEF Register, LinkInv, Owned, HelloOwned
  <2>2. TypeOK'
    BY <1>3, <2>1 DEF Register, LinkInv, TypeOK
  <2>3. Owned' /\ HelloOwned' /\ HandleKnows' /\ Closing' /\ ShutdownReachesAll'
    BY <1>3 DEF Register, LinkInv, TypeOK, Owned, HelloOwned, HandleKnows, Closing,
       ShutdownReachesAll
  <2>4. OpenIsRegistered'
    <3> SUFFICES ASSUME NEW t \in Sessions, hello'[t] = "linked", hubEnd'[t] = "open"
                 PROVE  registry'[peer'[t]] = t \/ t \in doomed'
      BY DEF OpenIsRegistered
    <3>1. CASE t = s
      BY <1>3, <2>1, <3>1 DEF Register, LinkInv, TypeOK
    <3>2. CASE t # s
      <4>1. hello[t] = "linked" /\ hubEnd[t] = "open"
        BY <1>3, <3>2 DEF Register, LinkInv, TypeOK
      <4>2. registry[peer[t]] = t \/ t \in doomed
        BY <4>1 DEF LinkInv, OpenIsRegistered
      <4> QED BY <1>3, <2>1, <3>2, <4>2 DEF Register, LinkInv, TypeOK
    <3> QED BY <3>1, <3>2
  <2> QED BY <2>2, <2>3, <2>4 DEF LinkInv
<1> QED BY <1>1, <1>2, <1>3

\* A step of handle, or the closing of a session, keeps the invariant: unregister
\* takes away only the entry of a session that is closed.
LEMMA LinkHandleStep ==
  ASSUME LinkInv, NEW s \in Sessions,
         Track(s) \/ Drop(s) \/ Close(s) \/ Ended(s) \/ Unregister(s)
  PROVE  LinkInv'
<1>1. CASE Track(s)
  <2>1. TypeOK'
    BY <1>1 DEF Track, LinkInv, TypeOK
  <2>2. Owned' /\ HelloOwned'
    BY <1>1 DEF Track, LinkInv, TypeOK, Owned, HelloOwned
  <2>3. HandleKnows' /\ OpenIsRegistered'
    <3>1. HandleKnows'
      BY <1>1 DEF Track, LinkInv, TypeOK, HandleKnows
    <3>2. OpenIsRegistered'
      BY <1>1 DEF Track, LinkInv, TypeOK, OpenIsRegistered
    <3> QED BY <3>1, <3>2
  <2>4. Closing' /\ ShutdownReachesAll'
    BY <1>1 DEF Track, LinkInv, TypeOK, Closing, ShutdownReachesAll
  <2> QED BY <2>1, <2>2, <2>3, <2>4 DEF LinkInv
<1>2. CASE Drop(s)
  <2>1. TypeOK'
    BY <1>2 DEF Drop, Fault, LinkInv, TypeOK
  <2> QED BY <1>2, <2>1 DEF Drop, LinkInv, TypeOK, Owned, HelloOwned, HandleKnows,
     Closing, OpenIsRegistered, ShutdownReachesAll
<1>3. CASE Close(s)
  BY <1>3 DEF Close, LinkInv, TypeOK, Owned, HelloOwned, HandleKnows, Closing,
     OpenIsRegistered, ShutdownReachesAll
<1>4. CASE Ended(s)
  BY <1>4 DEF Ended, LinkInv, TypeOK, Owned, HelloOwned, HandleKnows, Closing,
     OpenIsRegistered, ShutdownReachesAll
<1>5. CASE Unregister(s)
  <2>1. peer[s] \in Peers /\ hubEnd[s] # "open"
    BY <1>5 DEF Unregister, LinkInv, Owned, HandleKnows
  <2>2. TypeOK'
    BY <1>5, <2>1 DEF Unregister, LinkInv, TypeOK
  <2> QED BY <1>5, <2>1, <2>2 DEF Unregister, LinkInv, TypeOK, Owned, HelloOwned,
     HandleKnows, Closing, OpenIsRegistered, ShutdownReachesAll
<1> QED BY <1>1, <1>2, <1>3, <1>4, <1>5

\* Every step keeps the invariant.
LEMMA LinkStep == LinkInv /\ [Next]_vars => LinkInv'
<1> SUFFICES ASSUME LinkInv, [Next]_vars PROVE LinkInv'
  OBVIOUS
<1>1. CASE \E p \in Peers : AgentStep(p)
  BY <1>1, LinkAgentStep
<1>2. CASE \E s \in Sessions : SessionStep(s)
  BY <1>2, LinkHelloStep, LinkHandleStep DEF SessionStep
<1>3. CASE HubClose
  BY <1>3 DEF HubClose, LinkInv, TypeOK, Owned, HelloOwned, HandleKnows, Closing,
     OpenIsRegistered, ShutdownReachesAll
<1>4. CASE CloseListener
  BY <1>4 DEF CloseListener, LinkInv, TypeOK, Owned, HelloOwned, HandleKnows, Closing,
     OpenIsRegistered, ShutdownReachesAll
<1>5. CASE UNCHANGED vars
  BY <1>5 DEF vars, LinkInv, TypeOK, Owned, HelloOwned, HandleKnows, Closing,
     OpenIsRegistered, ShutdownReachesAll
<1> QED BY <1>1, <1>2, <1>3, <1>4, <1>5 DEF Next

\* Every variable of the hub, the sessions and the agents keeps its type: register,
\* unregister and the handles see only sessions and peers of the installation.
THEOREM LinkTypeCorrect == Spec => []TypeOK
<1>1. LinkInv => TypeOK
  BY DEF LinkInv
<1> QED BY LinkInit, LinkStep, <1>1, PTL DEF Spec

\* The registry never loses an open session: register and unregister keep every
\* linked session that is open registered, or doomed because it was displaced.
THEOREM RegistryKeepsOpen == Spec => []OpenIsRegistered
<1>1. LinkInv => OpenIsRegistered
  BY DEF LinkInv
<1> QED BY LinkInit, LinkStep, <1>1, PTL DEF Spec

\* Hub.Close reaches every session, the ones accepted while it runs included.
THEOREM ShutdownComplete == Spec => []ShutdownReachesAll
<1>1. LinkInv => ShutdownReachesAll
  BY DEF LinkInv
<1> QED BY LinkInit, LinkStep, <1>1, PTL DEF Spec
===============================================================================
