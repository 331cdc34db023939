-------------------------------- MODULE LinkHub --------------------------------
(***************************************************************************)
(* The reverse link between the operator's hub and its peers:              *)
(*   atlas-lib/link/hub.go, registry.go, session.go, agent.go              *)
(*                                                                         *)
(* A peer dials the hub, says Hello on the session and is then registered  *)
(* under its verified identity.  Every session has its own goroutines on   *)
(* the hub (handle, the Hello handler, the close of a displaced session),  *)
(* which share the registry and the table of sessions, each under a mutex: *)
(* a step of this model is one critical section.  Either end may lose the  *)
(* connection first.  Sessions are numbered in the order they are dialled. *)
(***************************************************************************)
EXTENDS Naturals

CONSTANTS
  Peers,         \* the peers that dial the hub
  MaxSessions,   \* bound: sessions dialled
  MaxFaults,     \* bound: lost connections, restarts, refused or slow handshakes
  Shutdown       \* TRUE: the hub may be shut down

ASSUME LinkAssumption ==
  /\ MaxSessions \in Nat
  /\ MaxFaults \in Nat
  /\ Shutdown \in BOOLEAN
  /\ 0 \notin Peers

VARIABLES
  dialled,     \* sessions dialled so far
  peer,        \* [Sessions -> who dialled it]
  hubEnd,      \* [Sessions -> the hub's end of the connection]
  agentEnd,    \* [Sessions -> the peer's end of it]
  handle,      \* [Sessions -> where Hub.handle is]
  hello,       \* [Sessions -> where the Hello handler is]
  identified,  \* the sessions whose handshake completed
  registry,    \* [Peers -> the session registered for the peer, or 0]
  doomed,      \* sessions somebody is about to close
  hub,         \* Hub.Serve and Hub.Close
  leaving,     \* the sessions Hub.Close collected
  agent,       \* [Peers -> where Agent.Run is]
  current,     \* [Peers -> the session of the agent's attempt, or 0]
  faults       \* faults so far

vars == <<dialled, peer, hubEnd, agentEnd, handle, hello, identified, registry,
          doomed, hub, leaving, agent, current, faults>>
ends == <<hubEnd, agentEnd>>
agents == <<agent, current>>
shutdown == <<hub, leaving>>

Sessions == 1..MaxSessions

TypeOK ==
  /\ dialled \in 0..MaxSessions
  /\ peer \in [Sessions -> Peers \cup {0}]
  /\ hubEnd \in [Sessions -> {"none", "open", "closed"}]
  /\ agentEnd \in [Sessions -> {"none", "open", "closed"}]
  /\ handle \in [Sessions -> {"none", "track", "wait", "unregister", "done"}]
  /\ hello \in [Sessions -> {"none", "sent", "authed", "claimed", "linked", "refused"}]
  /\ identified \subseteq Sessions
  /\ registry \in [Peers -> Sessions \cup {0}]
  /\ doomed \subseteq Sessions /\ leaving \subseteq Sessions
  /\ hub \in {"serving", "closing", "closed"}
  /\ agent \in [Peers -> {"idle", "hello", "linked", "stopped"}]
  /\ current \in [Peers -> Sessions \cup {0}]
  /\ faults \in 0..MaxFaults

Init ==
  /\ dialled = 0
  /\ peer = [s \in Sessions |-> 0]
  /\ hubEnd = [s \in Sessions |-> "none"] /\ agentEnd = hubEnd
  /\ handle = [s \in Sessions |-> "none"] /\ hello = handle
  /\ identified = {}
  /\ registry = [p \in Peers |-> 0]
  /\ doomed = {} /\ hub = "serving" /\ leaving = {}
  /\ agent = [p \in Peers |-> "idle"] /\ current = registry
  /\ faults = 0

\* One fault of the budget.
Fault == faults < MaxFaults /\ faults' = faults + 1

-------------------------------------------------------------------------------
(* The agent: dial, Hello, wait for the session to end, again.             *)

\* link: the dial succeeds, both ends multiplex it and the agent says Hello.
Dial(p) ==
  /\ agent[p] = "idle" /\ hub # "closed" /\ dialled < MaxSessions
  /\ LET s == dialled + 1 IN
     /\ dialled' = s
     /\ peer' = [peer EXCEPT ![s] = p]
     /\ hubEnd' = [hubEnd EXCEPT ![s] = "open"]
     /\ agentEnd' = [agentEnd EXCEPT ![s] = "open"]
     /\ handle' = [handle EXCEPT ![s] = "track"]
     /\ hello' = [hello EXCEPT ![s] = "sent"]
     /\ current' = [current EXCEPT ![p] = s]
     /\ agent' = [agent EXCEPT ![p] = "hello"]
  /\ UNCHANGED <<identified, registry, doomed, shutdown, faults>>

\* setSession: the answer to Hello arrives, on a session the hub may have closed
\* since.
Linked(p) ==
  /\ agent[p] = "hello" /\ hello[current[p]] = "linked"
  /\ agent' = [agent EXCEPT ![p] = "linked"]
  /\ UNCHANGED <<dialled, peer, ends, handle, hello, identified, registry, doomed,
                 shutdown, current, faults>>

\* link returns: the session ended or the handshake failed; or, as a fault, the
\* handshake timed out, the process restarted, or it stopped for good.
Unlinked(p) ==
  /\ agent[p] \in {"hello", "linked"}
  /\ LET s == current[p] IN
     /\ \/ /\ hubEnd[s] = "closed" \/ hello[s] = "refused"
           /\ agent' = [agent EXCEPT ![p] = "idle"] /\ UNCHANGED faults
        \/ /\ Fault
           /\ \E next \in {"idle", "stopped"} : agent' = [agent EXCEPT ![p] = next]
     /\ agentEnd' = [agentEnd EXCEPT ![s] = "closed"]
     /\ current' = [current EXCEPT ![p] = 0]
  /\ UNCHANGED <<dialled, peer, hubEnd, handle, hello, identified, registry, doomed,
                 shutdown>>

-------------------------------------------------------------------------------
(* The hub's Hello handler.                                                *)

\* Accepting, the token and the authenticator.  A caller that went away cancels
\* the context, which the review may or may not have looked at.
Authenticate(s) ==
  /\ hello[s] = "sent"
  /\ \/ hello' = [hello EXCEPT ![s] = "authed"] /\ UNCHANGED faults
     \/ /\ hello' = [hello EXCEPT ![s] = "refused"]
        /\ (hubEnd[s] = "closed" /\ UNCHANGED faults) \/ Fault
  /\ UNCHANGED <<dialled, peer, ends, handle, identified, registry, doomed,
                 shutdown, agents>>

\* complete: the session is identified.
Complete(s) ==
  /\ hello[s] = "authed"
  /\ hello' = [hello EXCEPT ![s] = "claimed"]
  /\ identified' = identified \cup {s}
  /\ UNCHANGED <<dialled, peer, ends, handle, registry, doomed, shutdown, agents, faults>>

\* Seeded fault: the displaced session is left open.
RegisterKeepingOld(s) ==
  /\ hello[s] = "claimed"
  /\ hello' = [hello EXCEPT ![s] = "linked"]
  /\ registry' = [registry EXCEPT ![peer[s]] = s]
  /\ UNCHANGED <<dialled, peer, ends, handle, identified, doomed, shutdown, agents, faults>>

\* Seeded fault: the displaced session is closed although there is none.
RegisterClosingNone(s) ==
  /\ hello[s] = "claimed"
  /\ hello' = [hello EXCEPT ![s] = "linked"]
  /\ registry' = [registry EXCEPT ![peer[s]] = s]
  /\ doomed' = doomed \cup {registry[peer[s]]}
  /\ UNCHANGED <<dialled, peer, ends, handle, identified, shutdown, agents, faults>>

\* register: the session takes the peer's entry and the displaced one is closed.
Register(s) ==
  /\ hello[s] = "claimed"
  /\ hello' = [hello EXCEPT ![s] = "linked"]
  /\ registry' = [registry EXCEPT ![peer[s]] = s]
  /\ doomed' = doomed \cup ({registry[peer[s]]} \ {0})
  /\ UNCHANGED <<dialled, peer, ends, handle, identified, shutdown, agents, faults>>

-------------------------------------------------------------------------------
(* Hub.handle, one per session, and the closing of sessions.               *)

\* Seeded fault: a session is tracked whether the hub is closed or not.
TrackAlways(s) ==
  /\ handle[s] = "track"
  /\ handle' = [handle EXCEPT ![s] = "wait"]
  /\ UNCHANGED <<dialled, peer, ends, hello, identified, registry, doomed, shutdown,
                 agents, faults>>

\* track: a hub that shut down since it accepted drops the session.
Track(s) ==
  /\ handle[s] = "track"
  /\ IF hub = "serving"
       THEN handle' = [handle EXCEPT ![s] = "wait"] /\ UNCHANGED hubEnd
       ELSE /\ handle' = [handle EXCEPT ![s] = "done"]
            /\ hubEnd' = [hubEnd EXCEPT ![s] = "closed"]
  /\ UNCHANGED <<dialled, peer, agentEnd, hello, identified, registry, doomed, shutdown,
                 agents, faults>>

\* The hub's end of an open session closes: the peer's end did, the handshake
\* timer fired on a session that never identified itself, or the link was lost.
Drop(s) ==
  /\ hubEnd[s] = "open"
  /\ \/ agentEnd[s] = "closed" /\ UNCHANGED faults
     \/ /\ handle[s] = "wait" /\ s \notin identified /\ hello[s] = "refused"
        /\ UNCHANGED faults
     \/ Fault
  /\ hubEnd' = [hubEnd EXCEPT ![s] = "closed"]
  /\ UNCHANGED <<dialled, peer, agentEnd, handle, hello, identified, registry, doomed,
                 shutdown, agents>>

\* Session.Close, by the handler that displaced it or by Hub.Close.
Close(s) ==
  /\ s \in doomed
  /\ doomed' = doomed \ {s}
  /\ hubEnd' = [hubEnd EXCEPT ![s] = "closed"]
  /\ UNCHANGED <<dialled, peer, agentEnd, handle, hello, identified, registry, shutdown,
                 agents, faults>>

\* handle wakes on Done and asks whether the session was identified.
Ended(s) ==
  /\ handle[s] = "wait" /\ hubEnd[s] = "closed"
  /\ handle' = [handle EXCEPT ![s] = IF s \in identified THEN "unregister" ELSE "done"]
  /\ UNCHANGED <<dialled, peer, ends, hello, identified, registry, doomed, shutdown,
                 agents, faults>>

\* Seeded fault: the peer's entry goes, whoever owns it.
UnregisterAny(s) ==
  /\ handle[s] = "unregister"
  /\ registry' = [registry EXCEPT ![peer[s]] = 0]
  /\ handle' = [handle EXCEPT ![s] = "done"]
  /\ UNCHANGED <<dialled, peer, ends, hello, identified, doomed, shutdown, agents, faults>>

\* unregister: the entry goes only if it is still this session's.
Unregister(s) ==
  /\ handle[s] = "unregister"
  /\ registry' = [registry EXCEPT ![peer[s]] = IF @ = s THEN 0 ELSE @]
  /\ handle' = [handle EXCEPT ![s] = "done"]
  /\ UNCHANGED <<dialled, peer, ends, hello, identified, doomed, shutdown, agents, faults>>

\* Hub.Close: mark the hub closed and collect the tracked sessions ...
HubClose ==
  /\ Shutdown /\ hub = "serving"
  /\ hub' = "closing"
  /\ leaving' = {s \in Sessions : handle[s] \in {"wait", "unregister"}}
  /\ UNCHANGED <<dialled, peer, ends, handle, hello, identified, registry, doomed,
                 agents, faults>>

\* ... then close the listener, then the sessions.
CloseListener ==
  /\ hub = "closing"
  /\ hub' = "closed"
  /\ doomed' = doomed \cup leaving
  /\ leaving' = {}
  /\ UNCHANGED <<dialled, peer, ends, handle, hello, identified, registry, agents, faults>>

-------------------------------------------------------------------------------
AgentStep(p) == Dial(p) \/ Linked(p) \/ Unlinked(p)

SessionStep(s) ==
  \/ Authenticate(s) \/ Complete(s) \/ Register(s)
  \/ Track(s) \/ Drop(s) \/ Close(s) \/ Ended(s) \/ Unregister(s)

Next ==
  \/ \E p \in Peers : AgentStep(p)
  \/ \E s \in Sessions : SessionStep(s)
  \/ HubClose \/ CloseListener

Spec == Init /\ [][Next]_vars

\* Goroutines run on, the two ends of a connection learn that it is gone, and an
\* agent keeps dialling.
Fairness ==
  /\ \A p \in Peers : WF_vars(AgentStep(p))
  /\ \A s \in Sessions : WF_vars(SessionStep(s))
  /\ WF_vars(CloseListener)

FairSpec == Spec /\ Fairness

-------------------------------------------------------------------------------
(* Properties.                                                             *)

\* A session that finished its handshake and is open is the one its peer is
\* reached by, or is about to be closed: a late teardown never undoes a reconnect
\* and a displaced session never lingers (Registry.register, unregister).
OpenIsRegistered ==
  \A s \in Sessions : hello[s] = "linked" /\ hubEnd[s] = "open"
    => registry[peer[s]] = s \/ s \in doomed

\* No session outlives the hub: one that slipped in between the accept and the
\* shutdown is closed too (Hub.Close, track).
ShutdownReachesAll ==
  hub = "closed" => \A s \in Sessions :
    hubEnd[s] = "open" => handle[s] = "track" \/ s \in doomed

\* A peer that keeps trying ends up linked, and registered under the session it is
\* linked on, whatever was lost, refused or overtaken before (Agent.Run).
PeersComeBack ==
  \A p \in Peers : <>[](\/ agent[p] = "stopped" \/ hub # "serving"
                        \/ /\ agent[p] = "linked" /\ registry[p] = current[p]
                           /\ hubEnd[current[p]] = "open")
===============================================================================
