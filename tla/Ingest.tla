------------------------------- MODULE Ingest -------------------------------
(***************************************************************************)
(* The Hub's end of a request: handleIngest and Ingest of hub.go, and the  *)
(* registry of adapter.go, with the adapters' mappings and the decision    *)
(* machine behind them.  Module Delivery adds the agents that post.        *)
(*                                                                         *)
(* A request is one step: the map is pure, and the Hub decides under its   *)
(* lock.  What happens to an Event after the decision, to overlapping      *)
(* requests and to a closed Hub is the subject of module Hub.              *)
(***************************************************************************)
EXTENDS Adapters, Naturals

CONSTANTS
  Claude, Codex, OpenCode,
  Custom,    \* an adapter of a third party
  Unnamed,   \* no adapter has this name
  Programs,  \* per embedding program: the agents whose adapters it imports
  NoEvent,
  MaxRequests  \* bound: requests

Agents == {Claude, Codex, OpenCode, Custom}

Parents == Ids \cup {NoId}

PublishedEvents ==
  [agent : Agents, session : Parents, parent : Parents, status : Statuses,
   prev : Statuses \cup {NoStatus}, tool : Tools \cup {NoTool}]

\* Names are different from each other, and no Event is none.
ASSUME IngestAssumption ==
  /\ Custom \notin {Claude, Codex, OpenCode} /\ Codex \notin {Claude, OpenCode} /\ Claude # OpenCode
  /\ Unnamed \notin Agents
  /\ Programs \subseteq SUBSET Agents
  /\ NoEvent \notin PublishedEvents
  /\ MaxRequests \in Nat

VARIABLES
  registry,  \* names with an adapter
  sessions,  \* h.sessions
  event,     \* the Event the last request had published
  reply,     \* its status code; the ErrorHandler was called if it is 500
  \* history
  requests,  \* so far
  announced, \* sessions an accepted hook named a parent of
  linked     \* sessions with an Event that has the parent

ingestVars == <<registry, sessions, event, reply, requests, announced, linked>>

IngestTypeOK ==
  /\ registry \subseteq Agents
  /\ sessions \in [Parents -> SessionStates]
  /\ event \in {NoEvent} \cup PublishedEvents
  /\ reply \in {0, 202, 400, 404, 413, 500}
  /\ requests \in 0 .. MaxRequests
  /\ announced \subseteq Parents /\ linked \subseteq Parents

IngestInit ==
  /\ registry = {}
  /\ sessions = [s \in Parents |-> FreshSession]
  /\ event = NoEvent /\ reply = 0 /\ requests = 0
  /\ announced = {} /\ linked = {}

-----------------------------------------------------------------------------

\* A name is taken once; a second adapter for it is refused.  Adapters register from
\* init functions, before there are requests.
RegisterAdapter(agent) ==
  /\ requests = 0 /\ agent \notin registry
  /\ \E program \in Programs : registry \cup {agent} \subseteq program
  /\ registry' = registry \cup {agent}
  /\ UNCHANGED <<sessions, event, reply, requests, announced, linked>>

Initialised == registry \in Programs

Reply(code) ==
  /\ Initialised /\ requests < MaxRequests /\ requests' = requests + 1
  /\ reply' = code
  /\ UNCHANGED registry

\* Nothing is decided on.
Reject(code) == Reply(code) /\ event' = NoEvent /\ UNCHANGED <<sessions, announced, linked>>

\* The body is not read: it exceeds MaxIngestBodyBytes, or the connection breaks.
RejectUnread == Reject(413) \/ Reject(400)

\* The name is looked up before the body is parsed.
RejectUnknown(agent) == agent \notin registry /\ Reject(404)

\* No JSON, or JSON of another kind than an object.  (null counts as an empty object:
\* the adapters drop it.)
RejectMalformed(agent) == agent \in registry /\ Reject(400)

Event(agent, sig) ==
  LET t == Transition(sessions[sig.session], sig) IN
  [agent |-> agent, session |-> sig.session, parent |-> sig.parent,
   status |-> t.status, prev |-> t.prev, tool |-> NormalizeToolName(t.tool)]

\* dispatchSignal.  named: the sessions the hook names a parent of.
Dispatch(agent, sig, named) ==
  /\ sessions' = [sessions EXCEPT ![sig.session] = NextState(@, sig)]
  /\ event' = IF Emits(sessions[sig.session], sig) THEN Event(agent, sig) ELSE NoEvent
  /\ announced' = announced \cup named
  /\ linked' = IF Emits(sessions[sig.session], sig) /\ sig.parent # NoId
               THEN linked \cup {sig.session} ELSE linked

\* Ingest, from the adapter's result on.
Accept(agent, sig, named) ==
  /\ agent \in registry
  /\ IF sig = Drop THEN Reject(202) ELSE Dispatch(agent, sig, named) /\ Reply(202)

PostCustom(sig) == Accept(Custom, sig, {})

\* An adapter's error is an internal one, unless it wraps a JSON error, which is taken
\* for a malformed body.
AdapterFails == Custom \in registry /\ (Reject(500) \/ Reject(400))
=============================================================================
