------------------------------ MODULE Delivery ------------------------------
(***************************************************************************)
(* From the agents to the Hub: the hooks an agent fires, the posts that    *)
(* carry them, and the Hub that handles them (module Ingest).              *)
(*                                                                         *)
(* A post is a process of its own (curl), or a fetch that nobody waits     *)
(* for: posts overtake each other, curl gives up after five seconds, the   *)
(* plugin swallows every error, and nobody posts again.  The sessions are  *)
(* in the Hub's memory only, and a restart of its program forgets them.    *)
(***************************************************************************)
EXTENDS Ingest, Sequences, FiniteSets, FiniteSetsExt

CONSTANTS
  Places,        \* where hooks are fired: an agent's session, or a subagent in one
  Hooks,         \* per place: the hooks that may fire there
  CustomSignals, \* what the third party's adapter may return
  MaxFired,      \* bound: hooks
  MaxRestarts    \* bound: restarts of the program with the Hub

\* hookCommand: curl passes the agent's own JSON on, which has the outer session's id
\* and, inside a subagent, that one's.
ClaudePayload(place, hook) ==
  [event |-> hook.event, tool_name |-> hook.tool, notification_type |-> hook.type,
   session_id |-> IF place.parent # NoId THEN place.parent ELSE place.id,
   agent_id |-> IF place.parent # NoId THEN place.id ELSE NoId]

CodexPayload(place, hook) ==
  [event |-> hook.event, tool_name |-> hook.tool, session_id |-> place.id]

TypedHooks == {"before", "after"}

\* The plugin copies the ids into its wrapper, next to the properties it got; the typed
\* hooks have an id in the wrapper only, and only session.created knows a parent.
OpenCodePayload(place, hook) ==
  LET parent == IF hook.event = "created" THEN place.parent ELSE NoId IN
  [event |-> hook.event, tool |-> hook.tool,
   session_id |-> place.id, sessionID |-> IF hook.event \in TypedHooks THEN NoId ELSE place.id,
   parent_session_id |-> parent, parentID |-> parent]

Payload(place, hook) ==
  CASE place.agent = Claude   -> ClaudePayload(place, hook)
    [] place.agent = Codex    -> CodexPayload(place, hook)
    [] place.agent = OpenCode -> OpenCodePayload(place, hook)

\* MapHookEvent of the adapter the post is addressed to.
Meaning(place, hook) ==
  LET payload == Payload(place, hook) IN
  CASE place.agent = Claude   -> MapClaude(payload)
    [] place.agent = Codex    -> MapCodex(payload)
    [] place.agent = OpenCode -> MapOpenCode(payload)

\* The sessions a payload names a parent of.
Named(place, hook) ==
  IF \/ place.agent = Claude /\ place.parent # NoId
     \/ place.agent = OpenCode /\ OpenCodePayload(place, hook).parentID # NoId
  THEN {place.id} ELSE {}

\* Ids are the agents' to choose; they are taken to be different, and different from the
\* third party's.  What is fired inside a subagent of Claude's carries an id of its own.
ASSUME DeliveryAssumption ==
  /\ Places \subseteq [agent : {Claude, Codex, OpenCode}, id : Parents, parent : Parents]
  /\ \A pl1, pl2 \in Places : pl1.id = pl2.id => pl1 = pl2
  /\ \A place \in Places : place.agent = Claude /\ place.parent # NoId => place.id # NoId
  /\ \A place \in Places : \A hook \in Hooks[place] :
       Payload(place, hook) \in CASE place.agent = Claude   -> ClaudePayloads
                                 [] place.agent = Codex    -> CodexPayloads
                                 [] place.agent = OpenCode -> OpenCodePayloads
  /\ CustomSignals \subseteq [status : Statuses \cup {NilStatus}, activity : BOOLEAN,
                              tool : Tools \cup {NoTool}, session : Ids, parent : {NoId}]
  /\ \A sig \in CustomSignals, place \in Places : sig.session # place.id
  /\ MaxFired \in Nat /\ MaxRestarts \in Nat

VARIABLES
  flight,   \* posts under way: the place and the number of the hook there
  restarts,
  \* history
  fired,    \* per place: its hooks, in the order they fired
  handled   \* per place: numbers of those the Hub has accepted, in that order

deliveryVars == <<flight, restarts, fired, handled>>
vars == <<ingestVars, deliveryVars>>

TypeOK ==
  /\ IngestTypeOK
  /\ fired \in [Places -> Seq(UNION {Hooks[pl] : pl \in Places})]
  /\ handled \in [Places -> Seq(1 .. MaxFired)]
  /\ flight \subseteq Places \X (1 .. MaxFired)
  /\ restarts \in 0 .. MaxRestarts

Init ==
  /\ IngestInit
  /\ flight = {} /\ restarts = 0
  /\ fired = [pl \in Places |-> <<>>] /\ handled = [pl \in Places |-> <<>>]

-----------------------------------------------------------------------------

\* An adapter registers; the agents' hooks find nobody before.
Register(agent) == RegisterAdapter(agent) /\ UNCHANGED deliveryVars

FiredSoFar == UNION {{pl} \X DOMAIN fired[pl] : pl \in Places}

Fire(place, hook) ==
  /\ Initialised /\ Cardinality(FiredSoFar) < MaxFired
  /\ fired' = [fired EXCEPT ![place] = Append(@, hook)]
  /\ flight' = flight \cup {<<place, Len(fired[place]) + 1>>}
  /\ UNCHANGED <<ingestVars, restarts, handled>>

Arrives(place, n) ==
  /\ <<place, n>> \in flight
  /\ flight' = flight \ {<<place, n>>}
  /\ UNCHANGED <<restarts, fired>>

\* Any post that is under way may be the next one, whenever its hook fired.
Handle(place, n) ==
  /\ Arrives(place, n)
  /\ LET hook == fired[place][n] IN Accept(place.agent, Meaning(place, hook), Named(place, hook))
  /\ handled' = [handled EXCEPT ![place] = Append(@, n)]

\* The program does not know the agent, or the connection breaks while the body is read.
Refuse(place, n) ==
  /\ Arrives(place, n)
  /\ RejectUnknown(place.agent) \/ RejectUnread
  /\ UNCHANGED handled

\* It never reaches the Hub: curl's time is up, or nobody listens.
Lose(place, n) == Arrives(place, n) /\ UNCHANGED <<ingestVars, handled>>

\* A request that is no agent's hook.
Stray ==
  /\ \/ RejectUnread
     \/ \E a \in Agents \cup {Unnamed} : RejectUnknown(a) \/ RejectMalformed(a)
     \/ \E sig \in CustomSignals : PostCustom(sig)
     \/ AdapterFails
  /\ UNCHANGED deliveryVars

\* The program with the Hub starts anew; the agents do not notice.
Restart ==
  /\ Initialised /\ restarts < MaxRestarts /\ restarts' = restarts + 1
  /\ sessions' = [s \in Parents |-> FreshSession]
  /\ event' = NoEvent /\ reply' = 0
  /\ announced' = {} /\ linked' = {}
  /\ handled' = [pl \in Places |-> <<>>]
  /\ UNCHANGED <<registry, requests, flight, fired>>

Next ==
  \/ \E a \in Agents : Register(a)
  \/ \E place \in Places : \/ \E hook \in Hooks[place] : Fire(place, hook)
                           \/ \E n \in DOMAIN fired[place] :
                                Handle(place, n) \/ Refuse(place, n) \/ Lose(place, n)
  \/ Stray
  \/ Restart

Spec == Init /\ [][Next]_vars

-----------------------------------------------------------------------------
(* What is said of it. *)

Means(place, n) == Meaning(place, fired[place][n])

\* A hook that tells what the session does and with which tool, whatever came before.
Settles(place, n) == Means(place, n).status # NilStatus \/ Means(place, n).tool # NoTool

\* What the agent does, from all its hooks: the last one tells the status; the tool is the
\* one named last, unless a status came after it.
Doing(place) ==
  LET told == {n \in DOMAIN fired[place] : Means(place, n) # Drop}
      settled == {n \in told : Settles(place, n)}
      status == Means(place, Max(told)).status
  IN IF told = {} THEN FreshSession
     ELSE [status |-> IF status # NilStatus THEN status ELSE "working",
           tool |-> IF settled = {} THEN NoTool ELSE Means(place, Max(settled)).tool]

\* From the i-th on, the hooks handled are all those fired since, in order.
InOrderSince(place, i) ==
  LET start == handled[place][i] IN
  SubSeq(handled[place], i, Len(handled[place]))
    = [k \in 1 .. Len(fired[place]) - start + 1 |-> start + k - 1]

\* The Hub recovers by itself: whatever was lost, late, refused or forgotten before, one
\* hook that settles the session, with all that fired after it handled in order, and the
\* session shows what the agent does (specs/design.md:342, "authoritative hook events
\* override inferred state").  So it does if all hooks were handled in order from the first.
\* What other sessions, subagents included, are up to makes no difference
\* (specs/design.md:335).
Mirror ==
  \A place \in Places : \A i \in DOMAIN handled[place] :
    /\ InOrderSince(place, i)
    /\ Settles(place, handled[place][i]) \/ (i = 1 /\ handled[place][1] = 1)
    => sessions[place.id] = Doing(place)

\* A session shows a tool only while it works: whatever comes after a tool's hooks, in
\* whatever order, no idle, waiting, failed or ended session keeps one
\* (specs/design.md:341).  A third party's adapter may say otherwise.
ToolShown ==
  \A s \in Parents \ {sig.session : sig \in CustomSignals} :
    sessions[s].tool # NoTool => sessions[s].status = "working"

\* No session changes silently, or along with another: the Event tells the status it
\* had and the one it has (specs/design.md:340).  Only a restart forgets without a word.
ChangeIsTold ==
  [][restarts' = restarts =>
       \A s \in Parents :
         sessions'[s] # sessions[s] =>
           /\ event' # NoEvent
           /\ event'.session = s /\ event'.prev = sessions[s].status
           /\ event'.status = sessions'[s].status]_vars

\* "Still busy" hooks, which name neither a status nor a tool, publish nothing while the
\* session works and leave the tool it shows alone, on time or late (specs/design.md:341).
NoFlicker ==
  [][\A place \in Places : \A n \in DOMAIN fired[place] :
       /\ <<place, n>> \in flight /\ sessions[place.id].status = "working"
       /\ Means(place, n) # Drop /\ ~Settles(place, n)
       /\ Handle(place, n)
       => event' = NoEvent /\ UNCHANGED sessions]_vars

\* A subagent does not remain an orphan: once a hook the Hub accepted has named a
\* session's parent, an Event of that session has, too, although Events are left out where
\* status and tool stay as they were, and whatever overtook that hook
\* (specs/design.md:332, 516).
ParentLink == announced \subseteq linked
=============================================================================
