--------------------------- MODULE DeliveryProofs ---------------------------
(***************************************************************************)
(* What MCDelivery checks on a small instance, proved for any agents'      *)
(* sessions and hooks, and any order, loss and delay of their posts.       *)
(***************************************************************************)
EXTENDS Delivery, FiniteSetTheorems, SequenceTheorems, WellFoundedInduction, TLAPS

\* Posts and what the Hub accepted are of hooks that were fired.
FiredInv ==
  /\ IsFiniteSet(FiredSoFar)
  /\ \A place \in Places :
       /\ \A n \in 1 .. Len(fired[place]) : fired[place][n] \in Hooks[place]
       /\ \A n \in 1 .. MaxFired : <<place, n>> \in flight => n \in 1 .. Len(fired[place])
       /\ \A k \in 1 .. Len(handled[place]) : handled[place][k] \in 1 .. Len(fired[place])

\* The Hub knows nothing of a session before it has handled a hook of it.
FreshInv == \A place \in Places : handled[place] = <<>> => sessions[place.id] = FreshSession

\* All Events of a subagent of Claude's have the parent; of OpenCode's sessions, those that
\* say it starts.
LinkInv ==
  /\ ParentLink
  /\ \A place \in Places :
       place.parent # NoId /\ place.id \notin linked =>
         /\ place.agent = Claude => sessions[place.id] = FreshSession
         /\ place.agent = OpenCode => sessions[place.id].status # "starting"

\* From the i-th on, the hooks handled are in order and without a gap.
InOrderFrom(place, i) ==
  \A k \in i .. Len(handled[place]) : handled[place][k] = handled[place][i] + (k - i)

LastHandled(place) == handled[place][Len(handled[place])]

\* What the agent does, from its hooks up to the m-th.
Told(place, m) == {n \in 1 .. m : Means(place, n) # Drop}
Settled(place, m) == {n \in Told(place, m) : Settles(place, n)}
DoingUpTo(place, m) ==
  IF Told(place, m) = {} THEN FreshSession
  ELSE [status |-> IF Means(place, Max(Told(place, m))).status # NilStatus
                   THEN Means(place, Max(Told(place, m))).status ELSE "working",
        tool |-> IF Settled(place, m) = {} THEN NoTool
                 ELSE Means(place, Max(Settled(place, m))).tool]

\* Mirror speaks of a moment at which everything fired is handled.  Until then the session
\* shows what the agent did up to the hook handled last.
MirrorInv ==
  \A place \in Places : \A i \in 1 .. Len(handled[place]) :
    /\ InOrderFrom(place, i)
    /\ Settles(place, handled[place][i]) \/ (i = 1 /\ handled[place][1] = 1)
    => sessions[place.id] = DoingUpTo(place, LastHandled(place))

\* The inductive invariant.
IInv == TypeOK /\ FiredInv /\ FreshInv /\ ToolShown /\ LinkInv /\ MirrorInv

-----------------------------------------------------------------------------
\* What an adapter makes of a hook.

SignalType ==
  [status : Statuses \cup {NilStatus}, activity : BOOLEAN, tool : Tools \cup {NoTool},
   session : Parents, parent : Parents]

\* A signal of an adapter for this place: the session is the place's, and the signal tells
\* either a status, and then no tool, or activity.
Proper(place, sig) ==
  /\ sig \in SignalType /\ sig.session = place.id
  /\ IF sig.status = NilStatus THEN sig.activity ELSE sig.tool = NoTool

\* A place is of one of the three agents.
LEMMA IdTypes ==
  ASSUME NEW place \in Places
  PROVE  /\ place.agent \in {Claude, Codex, OpenCode} /\ place.id \in Parents /\ place.parent \in Parents
         /\ place.agent \in Agents /\ place.agent # Custom
  BY DeliveryAssumption, IngestAssumption DEF Agents

\* What the two kinds of signal say.
LEMMA SignalTypes ==
  ASSUME NEW session \in Parents, NEW parent \in Parents
  PROVE  /\ \A status \in Statuses :
              LET sig == StatusSignal(status, session, parent) IN
              /\ sig \in SignalType /\ sig.session = session /\ sig.parent = parent
              /\ sig.status = status /\ sig.status # NilStatus /\ sig.tool = NoTool
         /\ \A tool \in Tools \cup {NoTool} :
              LET sig == ActivitySignal(tool, session, parent) IN
              /\ sig \in SignalType /\ sig.session = session /\ sig.parent = parent
              /\ sig.status = NilStatus /\ sig.activity
  BY DEF StatusSignal, ActivitySignal, Signal, SignalType, Statuses, NilStatus, NoTool

\* Claude's adapter: every signal of a subagent has the parent.
LEMMA ClaudeMeaning ==
  ASSUME NEW place \in Places, place.agent = Claude, NEW hook \in Hooks[place],
         Meaning(place, hook) # Drop
  PROVE  /\ Proper(place, Meaning(place, hook))
         /\ Meaning(place, hook).parent = place.parent
<1> DEFINE p == ClaudePayload(place, hook)
<1>1. Meaning(place, hook) = MapClaude(p)
  BY IngestAssumption DEF Meaning, Payload
<1>2. p \in ClaudePayloads
  BY DeliveryAssumption, IngestAssumption DEF Payload
<1>3. /\ p.session_id = (IF place.parent # NoId THEN place.parent ELSE place.id)
      /\ p.agent_id = (IF place.parent # NoId THEN place.id ELSE NoId)
      /\ p.tool_name \in Tools \cup {NoTool}
  BY <1>2 DEF ClaudePayload, ClaudePayloads
<1>4. ClaudeSession(p) = place.id /\ ClaudeParent(p) = place.parent
  BY <1>3, DeliveryAssumption DEF ClaudeSession, ClaudeParent
<1>5. place.id \in Parents /\ place.parent \in Parents
  BY IdTypes
<1> HIDE DEF p
<1>6. \/ \E status \in Statuses : MapClaude(p) = StatusSignal(status, place.id, place.parent)
      \/ \E tool \in Tools \cup {NoTool} : MapClaude(p) = ActivitySignal(tool, place.id, place.parent)
  <2>1. ClaudeStatus \in [DOMAIN ClaudeStatus -> Statuses]
    BY DEF ClaudeStatus, Statuses
  <2>2. "awaiting_input" \in Statuses
    BY DEF Statuses
  <2>3. NoTool \in Tools \cup {NoTool}
    OBVIOUS
  <2>4. MapClaude(p) # Drop
    BY <1>1
  <2> QED
    BY <1>3, <1>4, <2>1, <2>2, <2>3, <2>4 DEF MapClaude
<1> QED
  BY <1>1, <1>5, <1>6, SignalTypes DEF Proper

\* Codex' adapter knows no parents.
LEMMA CodexMeaning ==
  ASSUME NEW place \in Places, place.agent = Codex, NEW hook \in Hooks[place],
         Meaning(place, hook) # Drop
  PROVE  Proper(place, Meaning(place, hook))
<1> DEFINE p == CodexPayload(place, hook)
<1>1. Meaning(place, hook) = MapCodex(p)
  BY IngestAssumption DEF Meaning, Payload
<1>2. p \in CodexPayloads
  BY DeliveryAssumption, IngestAssumption DEF Payload
<1>3. p.session_id = place.id /\ p.tool_name \in Tools \cup {NoTool}
  BY <1>2 DEF CodexPayload, CodexPayloads
<1>4. place.id \in Parents /\ NoId \in Parents
  BY IdTypes DEF Parents
<1> HIDE DEF p
<1>5. \/ \E status \in Statuses : MapCodex(p) = StatusSignal(status, place.id, NoId)
      \/ \E tool \in Tools \cup {NoTool} : MapCodex(p) = ActivitySignal(tool, place.id, NoId)
  <2>1. CodexStatus \in [DOMAIN CodexStatus -> Statuses]
    BY DEF CodexStatus, Statuses
  <2>2. MapCodex(p) # Drop
    BY <1>1
  <2> QED
    BY <1>3, <2>1, <2>2 DEF MapCodex
<1> QED
  BY <1>1, <1>4, <1>5, SignalTypes DEF Proper

\* OpenCode's: the signal of the hook that knows the parent says that the session starts,
\* and no other signal says so.
LEMMA OpenCodeMeaning ==
  ASSUME NEW place \in Places, place.agent = OpenCode, NEW hook \in Hooks[place],
         Meaning(place, hook) # Drop
  PROVE  /\ Proper(place, Meaning(place, hook))
         /\ IF hook.event = "created"
            THEN Meaning(place, hook).status = "starting" /\ Meaning(place, hook).parent = place.parent
            ELSE Meaning(place, hook).status # "starting"
<1> DEFINE p == OpenCodePayload(place, hook)
<1>1. Meaning(place, hook) = MapOpenCode(p)
  BY IngestAssumption DEF Meaning, Payload
<1>2. p \in OpenCodePayloads
  BY DeliveryAssumption, IngestAssumption DEF Payload
<1>3. /\ p.event = hook.event /\ p.event \in OpenCodeEvents /\ p.tool \in Tools \cup {NoTool}
      /\ p.session_id = place.id /\ p.sessionID \in {NoId, place.id}
      /\ hook.event = "created" => p.parent_session_id = place.parent /\ p.parentID = place.parent
  BY <1>2 DEF OpenCodePayload, OpenCodePayloads
<1>4. place.id \in Parents /\ place.parent \in Parents /\ NoId \in Parents
  BY IdTypes DEF Parents
<1>5. OpenCodeSession(p) = place.id
  BY <1>3 DEF OpenCodeSession, FirstOf
<1>6. hook.event = "created" => OpenCodeParent(p) = place.parent
  BY <1>3 DEF OpenCodeParent, FirstOf
<1> HIDE DEF p
<1>7. \/ hook.event = "created" /\ MapOpenCode(p) = StatusSignal("starting", place.id, place.parent)
      \/ hook.event # "created" /\ \E status \in Statuses \ {"starting"} :
           MapOpenCode(p) = StatusSignal(status, place.id, NoId)
      \/ hook.event # "created" /\ \E tool \in Tools \cup {NoTool} :
           MapOpenCode(p) = ActivitySignal(tool, place.id, NoId)
  <2>1. CASE hook.event = "created"
    BY <1>3, <1>5, <1>6, <2>1 DEF MapOpenCode, OpenCodeStatus
  <2>2. CASE hook.event # "created" /\ hook.event \in DOMAIN OpenCodeStatus
    <3>1. OpenCodeStatus[hook.event] \in Statuses \ {"starting"}
      BY <2>2 DEF OpenCodeStatus, Statuses
    <3> QED
      BY <1>3, <1>5, <2>2, <3>1 DEF MapOpenCode
  <2>3. CASE hook.event \notin DOMAIN OpenCodeStatus
    <3>1. hook.event # "created"
      BY <2>3 DEF OpenCodeStatus
    <3>2. MapOpenCode(p) # Drop
      BY <1>1
    <3> QED
      BY <1>3, <1>5, <2>3, <3>1, <3>2 DEF MapOpenCode
  <2> QED
    BY <2>1, <2>2, <2>3
<1>8. "starting" \in Statuses /\ NilStatus # "starting"
  BY DEF Statuses, NilStatus
<1> QED
  BY <1>1, <1>4, <1>7, <1>8, SignalTypes DEF Proper

\* Every adapter returns a proper signal, or drops the hook.
LEMMA MeaningProper ==
  ASSUME NEW place \in Places, NEW hook \in Hooks[place], Meaning(place, hook) # Drop
  PROVE  Proper(place, Meaning(place, hook))
  BY ClaudeMeaning, CodexMeaning, OpenCodeMeaning, IdTypes

-----------------------------------------------------------------------------
\* The decision machine.

\* The session after a signal shows what the signal says, whether it was news or not.
LEMMA NextStateValue ==
  ASSUME NEW state \in SessionStates, NEW sig \in SignalType
  PROVE  /\ NextState(state, sig) \in SessionStates
         /\ HasCandidate(sig) =>
              /\ Candidate(sig) \in Statuses /\ Candidate(sig) # NoStatus
              /\ NextState(state, sig) = [status |-> Candidate(sig), tool |-> NewTool(state, sig)]
         /\ ~HasCandidate(sig) => NextState(state, sig) = state
         /\ ~Emits(state, sig) => NextState(state, sig) = state
<1>1. Candidate(sig) \in Statuses /\ Candidate(sig) # NoStatus
  BY DEF Candidate, SignalType, Statuses, NoStatus
<1>2. NewTool(state, sig) \in Tools \cup {NoTool}
  BY DEF NewTool, SignalType, SessionStates
<1> QED
  BY <1>1, <1>2 DEF NextState, Emits, Target, SessionStates

\* What dispatchSignal does to the sessions.
LEMMA DispatchSessions ==
  ASSUME sessions \in [Parents -> SessionStates],
         NEW agent, NEW sig \in SignalType, NEW named, Dispatch(agent, sig, named)
  PROVE  /\ sessions' \in [Parents -> SessionStates]
         /\ \A s \in Parents :
              sessions'[s] = IF s = sig.session THEN NextState(sessions[s], sig) ELSE sessions[s]
<1>1. sig.session \in Parents
  BY DEF SignalType
<1>2. sessions[sig.session] \in SessionStates
  BY <1>1
<1>3. NextState(sessions[sig.session], sig) \in SessionStates
  BY <1>2, NextStateValue
<1> QED
  BY <1>1, <1>3 DEF Dispatch

\* A third party's signals concern no place.
LEMMA CustomSignal ==
  ASSUME NEW sig \in CustomSignals
  PROVE  sig \in SignalType /\ sig # Drop /\ \A place \in Places : sig.session # place.id
<1>1. sig.session \in Ids /\ sig \in SignalType
  BY DeliveryAssumption DEF SignalType, Parents
<1>2. Drop.session = NoId
  BY DEF Drop
<1> QED
  BY <1>1, <1>2, DeliveryAssumption, AdaptersAssumption

-----------------------------------------------------------------------------
\* A step, seen from the sessions.

\* The Hub handles the n-th hook of a place.
Handles(place, n) ==
  /\ Handle(place, n) /\ n \in 1 .. Len(fired[place]) /\ n \in 1 .. MaxFired
  /\ fired[place][n] \in Hooks[place]
  /\ handled' = [handled EXCEPT ![place] = Append(@, n)]
  /\ UNCHANGED <<fired, restarts>>
  /\ IF Means(place, n) = Drop
     THEN UNCHANGED <<sessions, announced, linked>> /\ event' = NoEvent
     ELSE Dispatch(place.agent, Means(place, n), Named(place, fired[place][n]))

\* It handles a third party's signal.
HandlesCustom(sig) == Dispatch(Custom, sig, {}) /\ UNCHANGED deliveryVars

\* It decides on nothing.
Idles ==
  /\ UNCHANGED <<sessions, announced, linked, handled, restarts>>
  /\ event' \in {NoEvent, event}
  /\ \/ UNCHANGED fired
     \/ \E place \in Places : \E hook \in Hooks[place] : Fire(place, hook)

\* What handling a hook amounts to.
LEMMA HandleHandles ==
  ASSUME TypeOK, FiredInv, NEW place \in Places, NEW n \in DOMAIN fired[place], Handle(place, n)
  PROVE  n \in 1 .. Len(fired[place]) /\ Handles(place, n)
<1>1. n \in 1 .. Len(fired[place]) /\ <<place, n>> \in flight
  BY DEF TypeOK, Handle, Arrives
<1>2. n \in 1 .. MaxFired /\ fired[place][n] \in Hooks[place]
  BY <1>1 DEF TypeOK, FiredInv
<1>3. Accept(place.agent, Means(place, n), Named(place, fired[place][n]))
  BY DEF Handle, Means
<1>4. IF Means(place, n) = Drop
      THEN UNCHANGED <<sessions, announced, linked>> /\ event' = NoEvent
      ELSE Dispatch(place.agent, Means(place, n), Named(place, fired[place][n]))
  BY <1>3 DEF Accept, Reject
<1> QED
  BY <1>1, <1>2, <1>4 DEF Handles, Handle, Arrives

\* There is no other kind of step.
LEMMA StepKinds ==
  ASSUME TypeOK, FiredInv, [Next]_vars
  PROVE  \/ \E place \in Places : \E n \in 1 .. Len(fired[place]) : Handles(place, n)
         \/ \E sig \in CustomSignals : HandlesCustom(sig)
         \/ Restart
         \/ Idles
<1>1. ASSUME NEW place \in Places, NEW n \in DOMAIN fired[place], Handle(place, n)
      PROVE  n \in 1 .. Len(fired[place]) /\ Handles(place, n)
  BY <1>1, HandleHandles
<1>2. ASSUME NEW place \in Places, NEW n, Refuse(place, n) \/ Lose(place, n) PROVE Idles
  BY <1>2 DEF Refuse, Lose, Arrives, RejectUnknown, RejectUnread, Reject, ingestVars, Idles
<1>3. ASSUME NEW place \in Places, NEW hook \in Hooks[place], Fire(place, hook) PROVE Idles
  BY <1>3 DEF Fire, ingestVars, Idles
<1>4. ASSUME NEW a \in Agents, Register(a) PROVE Idles
  BY <1>4 DEF Register, RegisterAdapter, deliveryVars, Idles
<1>5. ASSUME Stray PROVE Idles \/ \E sig \in CustomSignals : HandlesCustom(sig)
  <2>1. CASE \E sig \in CustomSignals : PostCustom(sig)
    BY <1>5, <2>1, CustomSignal DEF Stray, PostCustom, Accept, HandlesCustom
  <2>2. CASE ~ \E sig \in CustomSignals : PostCustom(sig)
    BY <1>5, <2>2
    DEF Stray, RejectUnread, RejectUnknown, RejectMalformed, AdapterFails, Reject, deliveryVars, Idles
  <2> QED
    BY <2>1, <2>2
<1>6. CASE UNCHANGED vars
  BY <1>6 DEF vars, ingestVars, deliveryVars, Idles
<1> QED
  BY <1>1, <1>2, <1>3, <1>4, <1>5, <1>6 DEF Next

\* What it does to the session of a place.
LEMMA HandlesSessions ==
  ASSUME sessions \in [Parents -> SessionStates], NEW place \in Places, NEW n, Handles(place, n)
  PROVE  /\ sessions' \in [Parents -> SessionStates]
         /\ \A s \in Parents : s # place.id => sessions'[s] = sessions[s]
         /\ Means(place, n) = Drop => sessions' = sessions
         /\ Means(place, n) # Drop =>
              /\ Proper(place, Means(place, n))
              /\ sessions'[place.id] = NextState(sessions[place.id], Means(place, n))
<1>1. CASE Means(place, n) = Drop
  BY <1>1 DEF Handles
<1>2. CASE Means(place, n) # Drop
  <2>1. Proper(place, Means(place, n))
    BY <1>2, MeaningProper DEF Handles, Means
  <2>2. /\ sessions' \in [Parents -> SessionStates]
        /\ \A s \in Parents :
             sessions'[s] = IF s = Means(place, n).session
                            THEN NextState(sessions[s], Means(place, n)) ELSE sessions[s]
    BY <1>2, <2>1, DispatchSessions DEF Handles, Proper
  <2> QED
    BY <1>2, <2>1, <2>2, IdTypes DEF Proper
<1> QED
  BY <1>1, <1>2

\* No hook changes the session of another place.
LEMMA OthersSession ==
  ASSUME sessions \in [Parents -> SessionStates], NEW place \in Places, NEW n, Handles(place, n)
  PROVE  \A other \in Places : other # place => sessions'[other.id] = sessions[other.id]
  BY HandlesSessions, IdTypes, DeliveryAssumption

-----------------------------------------------------------------------------
\* Hooks and posts.

\* Hooks that were fired remain.
LEMMA FiredRemain ==
  ASSUME TypeOK, NEW place \in Places, NEW hook \in Hooks[place], Fire(place, hook)
  PROVE  /\ Len(fired[place]) \in Nat /\ Len(fired'[place]) = Len(fired[place]) + 1
         /\ fired'[place] \in Seq(UNION {Hooks[pl] : pl \in Places})
         /\ \A n \in 1 .. Len(fired[place]) : fired'[place][n] = fired[place][n]
         /\ fired'[place][Len(fired[place]) + 1] = hook
         /\ \A other \in Places : other # place => fired'[other] = fired[other]
<1>1. fired[place] \in Seq(UNION {Hooks[pl] : pl \in Places})
  BY DEF TypeOK
<1>2. hook \in UNION {Hooks[pl] : pl \in Places}
  OBVIOUS
<1>3. fired'[place] = Append(fired[place], hook)
  BY DEF Fire, TypeOK
<1>4. \A other \in Places : other # place => fired'[other] = fired[other]
  BY DEF Fire, TypeOK
<1> HIDE DEF Fire, TypeOK
<1> QED
  BY <1>1, <1>2, <1>3, <1>4, AppendProperties, LenProperties

\* What Append does to a sequence of hook numbers.
LEMMA HandledGrow ==
  ASSUME TypeOK, NEW place \in Places, NEW n, Handles(place, n)
  PROVE  /\ Len(handled[place]) \in Nat /\ Len(handled'[place]) = Len(handled[place]) + 1
         /\ handled'[place] \in Seq(1 .. MaxFired)
         /\ \A k \in 1 .. Len(handled[place]) : handled'[place][k] = handled[place][k]
         /\ handled'[place][Len(handled[place]) + 1] = n
         /\ \A other \in Places : other # place => handled'[other] = handled[other]
<1>1. handled[place] \in Seq(1 .. MaxFired) /\ n \in 1 .. MaxFired
  BY DEF TypeOK, Handles
<1>2. handled'[place] = Append(handled[place], n)
  BY DEF Handles, TypeOK
<1>3. \A other \in Places : other # place => handled'[other] = handled[other]
  BY DEF Handles, TypeOK
<1> QED
  BY <1>1, <1>2, <1>3, AppendProperties, LenProperties

\* FiredInv is inductive.
LEMMA FiredStep == TypeOK /\ FiredInv /\ [Next]_vars => FiredInv'
<1> SUFFICES ASSUME TypeOK, FiredInv, [Next]_vars PROVE FiredInv'
  OBVIOUS
<1>1. ASSUME NEW place \in Places, NEW hook \in Hooks[place], Fire(place, hook) PROVE FiredInv'
  <2>1. /\ Len(fired[place]) \in Nat /\ Len(fired'[place]) = Len(fired[place]) + 1
        /\ \A n \in 1 .. Len(fired[place]) : fired'[place][n] = fired[place][n]
        /\ fired'[place][Len(fired[place]) + 1] = hook
        /\ \A other \in Places : other # place => fired'[other] = fired[other]
        /\ fired'[place] \in Seq(UNION {Hooks[pl] : pl \in Places})
    BY <1>1, FiredRemain
  <2>2. handled' = handled /\ flight' = flight \cup {<<place, Len(fired[place]) + 1>>}
    BY <1>1 DEF Fire
  <2>3. FiredSoFar' = FiredSoFar \cup {<<place, Len(fired[place]) + 1>>}
    <3>1. DOMAIN fired'[place] = DOMAIN fired[place] \cup {Len(fired[place]) + 1}
      <4>1. fired[place] \in Seq(UNION {Hooks[pl] : pl \in Places})
        BY DEF TypeOK
      <4>2. DOMAIN fired[place] = 1 .. Len(fired[place]) /\ DOMAIN fired'[place] = 1 .. Len(fired'[place])
        BY <2>1, <4>1, LenProperties
      <4> QED
        BY <2>1, <4>2
    <3> QED
      BY <2>1, <3>1 DEF FiredSoFar
  <2>4. IsFiniteSet(FiredSoFar')
    BY <2>3, FS_AddElement DEF FiredInv
  <2>5. \A pl \in Places : 1 .. Len(fired[pl]) \subseteq 1 .. Len(fired'[pl])
    BY <2>1
  <2>6. \A pl \in Places, n \in 1 .. MaxFired : <<pl, n>> \in flight' => n \in 1 .. Len(fired'[pl])
    BY <2>1, <2>2, <2>5 DEF FiredInv
  <2>7. \A pl \in Places : \A n \in 1 .. Len(fired'[pl]) : fired'[pl][n] \in Hooks[pl]
    BY <2>1 DEF FiredInv
  <2> QED
    BY <2>2, <2>4, <2>5, <2>6, <2>7 DEF FiredInv, FiredSoFar
<1>2. ASSUME NEW place \in Places, NEW n \in 1 .. Len(fired[place]), Handles(place, n)
      PROVE  FiredInv'
  <2>1. fired' = fired /\ flight' \subseteq flight
    BY <1>2 DEF Handles, Handle, Arrives
  <2>2. /\ Len(handled[place]) \in Nat /\ Len(handled'[place]) = Len(handled[place]) + 1
        /\ \A k \in 1 .. Len(handled[place]) : handled'[place][k] = handled[place][k]
        /\ handled'[place][Len(handled[place]) + 1] = n
        /\ \A other \in Places : other # place => handled'[other] = handled[other]
    BY <1>2, HandledGrow
  <2>3. \A k \in 1 .. Len(handled'[place]) : k \in 1 .. Len(handled[place]) \/ k = Len(handled[place]) + 1
    BY <2>2
  <2>4. \A k \in 1 .. Len(handled'[place]) : handled'[place][k] \in 1 .. Len(fired[place])
    BY <2>2, <2>3 DEF FiredInv
  <2>5. \A pl \in Places : \A k \in 1 .. Len(handled'[pl]) : handled'[pl][k] \in 1 .. Len(fired[pl])
    BY <2>2, <2>4 DEF FiredInv
  <2> QED
    BY <2>1, <2>5 DEF FiredInv, FiredSoFar
<1>3. ASSUME UNCHANGED fired, flight' \subseteq flight,
             UNCHANGED handled \/ handled' = [pl \in Places |-> <<>>]
      PROVE  FiredInv'
  <2>1. \A pl \in Places : \A k \in 1 .. Len(handled'[pl]) : handled'[pl][k] \in 1 .. Len(fired[pl])
    BY <1>3 DEF FiredInv
  <2> QED
    BY <1>3, <2>1 DEF FiredInv, FiredSoFar
<1>4. ASSUME [Next]_vars, ~ \E place \in Places : \E hook \in Hooks[place] : Fire(place, hook),
             ~ \E place \in Places : \E n \in 1 .. Len(fired[place]) : Handles(place, n)
      PROVE  /\ UNCHANGED fired /\ flight' \subseteq flight
             /\ UNCHANGED handled \/ handled' = [pl \in Places |-> <<>>]
  <2>1. ASSUME NEW place \in Places, NEW n, Refuse(place, n) \/ Lose(place, n)
        PROVE  UNCHANGED <<fired, handled>> /\ flight' \subseteq flight
    BY <2>1 DEF Refuse, Lose, Arrives
  <2>2. ASSUME NEW a \in Agents, Register(a) PROVE UNCHANGED <<fired, handled, flight>>
    BY <2>2 DEF Register, deliveryVars
  <2>3. Restart \/ Stray \/ UNCHANGED vars =>
          /\ UNCHANGED <<fired, flight>>
          /\ UNCHANGED handled \/ handled' = [pl \in Places |-> <<>>]
    BY DEF Restart, Stray, vars, deliveryVars
  <2>4. ASSUME NEW place \in Places, NEW n \in DOMAIN fired[place], Handle(place, n) PROVE FALSE
    BY <1>4, <2>4, HandleHandles
  <2> QED
    BY <1>4, <2>1, <2>2, <2>3, <2>4 DEF Next
<1> QED
  BY <1>1, <1>2, <1>3, <1>4

-----------------------------------------------------------------------------
\* Type correctness.

\* No more than MaxFired hooks fire anywhere.
LEMMA FiredBound ==
  ASSUME TypeOK, FiredInv, NEW place \in Places
  PROVE  Len(fired[place]) \in Nat /\ Len(fired[place]) <= Cardinality(FiredSoFar)
         /\ Cardinality(FiredSoFar) \in Nat
<1> DEFINE L == Len(fired[place])
           f == [k \in 1 .. L |-> <<place, k>>]
<1>1. L \in Nat /\ DOMAIN fired[place] = 1 .. L
  BY LenProperties DEF TypeOK
<1>2. f \in Injection(1 .. L, FiredSoFar)
  BY <1>1 DEF Injection, IsInjective, FiredSoFar
<1>3. Cardinality(1 .. L) <= Cardinality(FiredSoFar)
  BY <1>2, FS_Injection DEF FiredInv
<1>4. Cardinality(1 .. L) = L
  <2> HIDE DEF L
  <2> QED
    BY <1>1, FS_Interval
<1> QED
  BY <1>1, <1>3, <1>4, FS_CardinalityType DEF FiredInv

EventTypeOK == event \in {NoEvent} \cup PublishedEvents

\* What is published is an Event.
LEMMA PublishedType ==
  ASSUME sessions \in [Parents -> SessionStates], NEW agent \in Agents, NEW sig \in SignalType,
         Emits(sessions[sig.session], sig)
  PROVE  Event(agent, sig) \in PublishedEvents
<1> DEFINE s == sig.session
           t == Transition(sessions[s], sig)
<1>1. s \in Parents /\ sig.parent \in Parents /\ sessions[s] \in SessionStates
  BY DEF SignalType
<1>2. /\ t.status = Candidate(sig) /\ t.prev = sessions[s].status /\ t.tool = NewTool(sessions[s], sig)
  BY DEF Transition
<1>3. t.prev \in Statuses \cup {NoStatus} /\ t.tool \in Tools \cup {NoTool}
  BY <1>1, <1>2 DEF NewTool, SignalType, SessionStates
<1>4. NormalizeToolName(t.tool) \in Tools \cup {NoTool}
  BY <1>3, DecisionAssumption DEF NormalizeToolName
<1>5. t.status \in Statuses
  BY <1>1, <1>2, NextStateValue DEF Emits
<1>6. Event(agent, sig) = [agent |-> agent, session |-> s, parent |-> sig.parent,
                           status |-> t.status, prev |-> t.prev, tool |-> NormalizeToolName(t.tool)]
  BY DEF Event
<1> HIDE DEF t
<1> QED
  BY <1>1, <1>3, <1>4, <1>5, <1>6 DEF PublishedEvents

\* So the last Event is typed after a request, too.
LEMMA EventType ==
  ASSUME sessions \in [Parents -> SessionStates], NEW agent \in Agents, NEW sig \in SignalType,
         NEW named, Dispatch(agent, sig, named)
  PROVE  EventTypeOK'
  BY PublishedType DEF Dispatch, EventTypeOK

\* The types hold at first ...
LEMMA TypeInit == Init => TypeOK
<1> SUFFICES ASSUME Init PROVE TypeOK
  OBVIOUS
<1>1. FreshSession \in SessionStates
  BY DEF FreshSession, SessionStates
<1>2. IngestTypeOK
  BY <1>1, IngestAssumption DEF Init, IngestInit, IngestTypeOK
<1>3. \A S : <<>> \in Seq(S)
  BY EmptySeq
<1> QED
  BY <1>2, <1>3, DeliveryAssumption DEF Init, TypeOK

\* ... and every step preserves them.
LEMMA TypeStep == TypeOK /\ FiredInv /\ [Next]_vars => TypeOK'
<1> SUFFICES ASSUME TypeOK, FiredInv, [Next]_vars PROVE TypeOK'
  OBVIOUS
<1> DEFINE RequestsOK == /\ registry \subseteq Agents
                         /\ reply \in {0, 202, 400, 404, 413, 500}
                         /\ requests \in 0 .. MaxRequests
           SessionsOK == /\ sessions \in [Parents -> SessionStates]
                         /\ announced \subseteq Parents /\ linked \subseteq Parents
           PostsOK == /\ fired \in [Places -> Seq(UNION {Hooks[pl] : pl \in Places})]
                      /\ handled \in [Places -> Seq(1 .. MaxFired)]
                      /\ flight \subseteq Places \X (1 .. MaxFired)
                      /\ restarts \in 0 .. MaxRestarts
<1>a. RequestsOK /\ SessionsOK /\ PostsOK /\ EventTypeOK
  BY DEF TypeOK, IngestTypeOK, EventTypeOK
<1>b. ASSUME RequestsOK', SessionsOK', PostsOK', EventTypeOK' PROVE TypeOK'
  BY <1>b DEF TypeOK, IngestTypeOK, EventTypeOK
<1>1. RequestsOK'
  <2>1. ASSUME NEW code \in {202, 400, 404, 413, 500}, Reply(code) PROVE RequestsOK'
    BY <1>a, <2>1, IngestAssumption DEF Reply
  <2>2. ASSUME NEW place, NEW n, Handle(place, n) PROVE RequestsOK'
    BY <2>1, <2>2 DEF Handle, Accept, Reject
  <2>3. ASSUME NEW place, NEW n, Refuse(place, n) \/ Lose(place, n) PROVE RequestsOK'
    BY <1>a, <2>1, <2>3 DEF Refuse, RejectUnknown, RejectUnread, Reject, Lose, ingestVars
  <2>4. ASSUME NEW place, NEW hook, Fire(place, hook) PROVE RequestsOK'
    BY <1>a, <2>4 DEF Fire, ingestVars
  <2>5. ASSUME NEW a \in Agents, Register(a) PROVE RequestsOK'
    BY <1>a, <2>5, IngestAssumption DEF Register, RegisterAdapter
  <2>6. ASSUME Stray PROVE RequestsOK'
    BY <2>1, <2>6
    DEF Stray, RejectUnread, RejectUnknown, RejectMalformed, PostCustom, Accept, AdapterFails, Reject
  <2>7. ASSUME Restart PROVE RequestsOK'
    BY <1>a, <2>7 DEF Restart
  <2>8. CASE UNCHANGED vars
    BY <1>a, <2>8 DEF vars, ingestVars
  <2> QED
    BY <2>2, <2>3, <2>4, <2>5, <2>6, <2>7, <2>8 DEF Next
<1>2. SessionsOK' /\ EventTypeOK'
  <2>1. ASSUME NEW place \in Places, NEW n \in 1 .. Len(fired[place]), Handles(place, n)
        PROVE  SessionsOK' /\ EventTypeOK'
    <3>1. sessions' \in [Parents -> SessionStates]
      BY <1>a, <2>1, HandlesSessions
    <3>2. CASE Means(place, n) = Drop
      BY <1>a, <2>1, <3>2 DEF Handles, EventTypeOK
    <3>3. CASE Means(place, n) # Drop
      <4>1. Dispatch(place.agent, Means(place, n), Named(place, fired[place][n]))
            /\ Means(place, n) \in SignalType
        BY <2>1, <3>3, HandlesSessions, <1>a DEF Handles, Proper
      <4>2. EventTypeOK'
        BY <1>a, <4>1, EventType, IdTypes
      <4>3. announced' \subseteq Parents /\ linked' \subseteq Parents
        BY <1>a, <4>1, IdTypes DEF Dispatch, Named, SignalType
      <4> QED
        BY <3>1, <4>2, <4>3
    <3> QED
      BY <3>2, <3>3
  <2>2. ASSUME NEW sig \in CustomSignals, HandlesCustom(sig) PROVE SessionsOK' /\ EventTypeOK'
    <3>1. Dispatch(Custom, sig, {}) /\ sig \in SignalType /\ Custom \in Agents
      BY <2>2, CustomSignal DEF HandlesCustom, Agents
    <3>2. EventTypeOK'
      BY <1>a, <3>1, EventType
    <3>3. sessions' \in [Parents -> SessionStates]
      BY <1>a, <3>1, DispatchSessions
    <3>4. announced' \subseteq Parents /\ linked' \subseteq Parents
      BY <1>a, <3>1 DEF Dispatch, SignalType
    <3> QED
      BY <3>2, <3>3, <3>4
  <2>3. ASSUME Restart PROVE SessionsOK' /\ EventTypeOK'
    BY <2>3 DEF Restart, FreshSession, SessionStates, EventTypeOK
  <2>4. ASSUME Idles PROVE SessionsOK' /\ EventTypeOK'
    BY <1>a, <2>4 DEF Idles, EventTypeOK
  <2> QED
    BY <2>1, <2>2, <2>3, <2>4, StepKinds
<1>3. PostsOK'
  <2>1. ASSUME NEW place \in Places, NEW hook \in Hooks[place], Fire(place, hook) PROVE PostsOK'
    <3>1. /\ Len(fired[place]) \in Nat
          /\ fired'[place] \in Seq(UNION {Hooks[pl] : pl \in Places})
          /\ \A other \in Places : other # place => fired'[other] = fired[other]
      BY <2>1, FiredRemain
    <3>2. Len(fired[place]) + 1 \in 1 .. MaxFired
      BY <2>1, FiredBound, DeliveryAssumption DEF Fire
    <3>3. PICK new : new = Append(fired[place], hook)
      OBVIOUS
    <3>4. fired' = [fired EXCEPT ![place] = new]
      BY <2>1, <3>3 DEF Fire
    <3>5. fired'[place] = new
      BY <1>a, <3>4
    <3>6. fired' \in [Places -> Seq(UNION {Hooks[pl] : pl \in Places})]
      <4>1. PICK S : S = Seq(UNION {Hooks[pl] : pl \in Places})
        OBVIOUS
      <4>2. fired \in [Places -> S] /\ new \in S
        BY <1>a, <3>1, <3>5, <4>1
      <4> QED
        BY <3>4, <4>1, <4>2
    <3>7. UNCHANGED <<handled, restarts>> /\ flight' = flight \cup {<<place, Len(fired[place]) + 1>>}
      BY <2>1 DEF Fire
    <3> QED
      BY <1>a, <3>2, <3>6, <3>7
  <2>2. ASSUME Restart PROVE PostsOK'
    <3>1. <<>> \in Seq(1 .. MaxFired) /\ restarts' \in 0 .. MaxRestarts
      BY <1>a, <2>2, EmptySeq, DeliveryAssumption DEF Restart
    <3> QED
      BY <1>a, <2>2, <3>1 DEF Restart
  <2>3. ASSUME NEW place \in Places, NEW n, Refuse(place, n) \/ Lose(place, n) PROVE PostsOK'
    <3>1. UNCHANGED <<fired, handled, restarts>> /\ flight' \subseteq flight
      BY <2>3 DEF Refuse, Lose, Arrives
    <3> QED
      BY <1>a, <3>1
  <2>4. ASSUME Stray \/ UNCHANGED vars \/ \E a \in Agents : Register(a) PROVE PostsOK'
    BY <1>a, <2>4 DEF Stray, Register, vars, deliveryVars
  <2>5. ASSUME NEW place \in Places, NEW n \in DOMAIN fired[place], Handle(place, n) PROVE PostsOK'
    <3>1. handled[place] \in Seq(1 .. MaxFired) /\ n \in 1 .. MaxFired
      BY <1>a, <2>5 DEF Handle, Arrives
    <3>2. PICK new : new = Append(handled[place], n)
      OBVIOUS
    <3>3. new \in Seq(1 .. MaxFired)
      BY <3>1, <3>2, AppendProperties
    <3>4. handled' = [handled EXCEPT ![place] = new] /\ UNCHANGED <<fired, restarts>> /\ flight' \subseteq flight
      BY <2>5, <3>2 DEF Handle, Arrives
    <3> QED
      BY <1>a, <3>3, <3>4
  <2> QED
    BY <2>1, <2>2, <2>3, <2>4, <2>5 DEF Next
<1> QED
  BY <1>1, <1>2, <1>3, <1>b

-----------------------------------------------------------------------------
\* Sessions the Hub has not heard of, and tools.

\* The Hub learns of a session from its hooks only.
LEMMA FreshStep == TypeOK /\ FiredInv /\ FreshInv /\ [Next]_vars => FreshInv'
<1> SUFFICES ASSUME TypeOK, FiredInv, FreshInv, [Next]_vars,
                    NEW place \in Places, handled'[place] = <<>>
             PROVE  sessions'[place.id] = FreshSession
  BY DEF FreshInv
<1>a. sessions \in [Parents -> SessionStates] /\ place.id \in Parents
  BY IdTypes DEF TypeOK, IngestTypeOK
<1>1. ASSUME NEW other \in Places, NEW n, Handles(other, n)
      PROVE  sessions'[place.id] = FreshSession
  <2>1. other # place
    <3>1. ASSUME other = place PROVE FALSE
      <4>1. Len(handled[place]) \in Nat /\ Len(handled'[place]) = Len(handled[place]) + 1
        BY <1>1, <3>1, HandledGrow
      <4>2. Len(handled'[place]) = 0
        BY EmptySeq
      <4> QED
        BY <4>1, <4>2
    <3> QED
      BY <3>1
  <2>2. handled'[place] = handled[place] /\ sessions'[place.id] = sessions[place.id]
    BY <1>a, <1>1, <2>1, HandledGrow, OthersSession
  <2> QED
    BY <2>2 DEF FreshInv
<1>2. ASSUME NEW sig \in CustomSignals, HandlesCustom(sig) PROVE sessions'[place.id] = FreshSession
  <2>1. sessions'[place.id] = sessions[place.id]
    BY <1>a, <1>2, CustomSignal, DispatchSessions DEF HandlesCustom
  <2> QED
    BY <1>2, <2>1 DEF HandlesCustom, deliveryVars, FreshInv
<1>3. CASE Restart
  BY <1>a, <1>3 DEF Restart
<1>4. CASE Idles
  BY <1>4 DEF Idles, FreshInv
<1> QED
  BY <1>1, <1>2, <1>3, <1>4, StepKinds

\* A status clears the tool, and a tool means work.
LEMMA ShownStep == TypeOK /\ FiredInv /\ ToolShown /\ [Next]_vars => ToolShown'
<1> SUFFICES ASSUME TypeOK, FiredInv, ToolShown, [Next]_vars,
                    NEW s \in Parents \ {sig.session : sig \in CustomSignals},
                    sessions'[s].tool # NoTool
             PROVE  sessions'[s].status = "working"
  BY DEF ToolShown
<1>a. sessions \in [Parents -> SessionStates]
  BY DEF TypeOK, IngestTypeOK
<1>1. ASSUME sessions'[s] = sessions[s] PROVE sessions'[s].status = "working"
  BY <1>1 DEF ToolShown
<1>2. ASSUME NEW place \in Places, NEW n, Handles(place, n) PROVE sessions'[s].status = "working"
  <2>1. CASE s = place.id /\ Means(place, n) # Drop
    <3>1. /\ Proper(place, Means(place, n))
          /\ sessions'[s] = NextState(sessions[s], Means(place, n))
      BY <1>a, <1>2, <2>1, HandlesSessions
    <3>2. sessions[s] \in SessionStates
      BY <1>a
    <3>3. CASE Means(place, n).status # NilStatus
      <4>1. NewTool(sessions[s], Means(place, n)) = NoTool /\ HasCandidate(Means(place, n))
        BY <3>1, <3>3 DEF Proper, NewTool, HasCandidate
      <4> QED
        BY <3>1, <3>2, <4>1, NextStateValue DEF Proper
    <3>4. CASE Means(place, n).status = NilStatus
      <4>1. Candidate(Means(place, n)) = "working" /\ HasCandidate(Means(place, n))
        BY <3>1, <3>4 DEF Proper, Candidate, HasCandidate
      <4> QED
        BY <3>1, <3>2, <4>1, NextStateValue DEF Proper
    <3> QED
      BY <3>3, <3>4
  <2>2. CASE s # place.id \/ Means(place, n) = Drop
    BY <1>a, <1>1, <1>2, <2>2, HandlesSessions
  <2> QED
    BY <2>1, <2>2
<1>3. ASSUME NEW sig \in CustomSignals, HandlesCustom(sig) PROVE sessions'[s].status = "working"
  BY <1>a, <1>1, <1>3, CustomSignal, DispatchSessions DEF HandlesCustom
<1>4. CASE Restart
  BY <1>4 DEF Restart, FreshSession
<1>5. CASE Idles
  BY <1>1, <1>5 DEF Idles
<1> QED
  BY <1>2, <1>3, <1>4, <1>5, StepKinds

-----------------------------------------------------------------------------
\* Parents.

\* The hook that names a parent has its Event published, unless one was before.
LEMMA LinkStep == TypeOK /\ FiredInv /\ LinkInv /\ [Next]_vars => LinkInv'
<1> SUFFICES ASSUME TypeOK, FiredInv, LinkInv, [Next]_vars PROVE LinkInv'
  OBVIOUS
<1>a. sessions \in [Parents -> SessionStates]
  BY DEF TypeOK, IngestTypeOK
<1>1. ASSUME NEW place \in Places, NEW n, Handles(place, n), Means(place, n) # Drop PROVE LinkInv'
  <2> DEFINE sig == Means(place, n)
             named == Named(place, fired[place][n])
             state == sessions[place.id]
  <2>1. Proper(place, sig) /\ sessions'[place.id] = NextState(state, sig)
    BY <1>a, <1>1, HandlesSessions
  <2>2. state \in SessionStates
    BY <1>a, IdTypes
  <2>3. /\ announced' = announced \cup named
        /\ linked' = IF Emits(state, sig) /\ sig.parent # NoId THEN linked \cup {place.id} ELSE linked
    BY <1>1, <2>1 DEF Handles, Dispatch, Proper
  <2>4. named \subseteq {place.id} /\ (named # {} => place.parent # NoId)
    BY DEF Named, OpenCodePayload
  <2>5. CASE place.agent = Claude
    <3>1. sig.parent = place.parent
      BY <1>1, <2>5, ClaudeMeaning DEF Handles, Means
    <3>2. HasCandidate(sig)
      BY <2>1 DEF Proper, HasCandidate
    <3>3. sessions'[place.id] # FreshSession
      BY <2>1, <2>2, <3>2, NextStateValue DEF Proper, FreshSession
    <3>4. state = FreshSession => Emits(state, sig)
      BY <2>1, <2>2, <3>3, NextStateValue DEF Proper
    <3>5. place.parent # NoId => place.id \in linked'
      BY <2>3, <2>5, <3>1, <3>4 DEF LinkInv
    <3>6. ParentLink'
      BY <2>3, <2>4, <3>5 DEF LinkInv, ParentLink
    <3>7. \A other \in Places : other # place => sessions'[other.id] = sessions[other.id]
      BY <1>a, <1>1, OthersSession
    <3>8. linked \subseteq linked'
      BY <2>3
    <3> QED
      BY <3>5, <3>6, <3>7, <3>8 DEF LinkInv
  <2>6. CASE place.agent = OpenCode
    <3> DEFINE hook == fired[place][n]
    <3>1. IF hook.event = "created"
          THEN sig.status = "starting" /\ sig.parent = place.parent
          ELSE sig.status # "starting"
      BY <1>1, <2>6, OpenCodeMeaning DEF Handles, Means
    <3>2. HasCandidate(sig)
      BY <2>1 DEF Proper, HasCandidate
    <3>3. NextState(state, sig).status = Candidate(sig)
      BY <2>1, <2>2, <3>2, NextStateValue DEF Proper
    <3>4. sessions'[place.id].status = "starting" =>
            hook.event = "created" /\ sig.parent = place.parent /\ sig.status = "starting"
      BY <2>1, <3>1, <3>3 DEF Candidate, NilStatus
    <3>5. hook.event = "created" /\ state.status # "starting" => Emits(state, sig)
      <4>1. hook.event = "created" => Candidate(sig) = "starting"
        BY <3>1 DEF Candidate, NilStatus
      <4> QED
        BY <2>1, <2>2, <3>3, <4>1, NextStateValue DEF Proper
    <3>6. hook.event = "created" /\ place.parent # NoId => place.id \in linked'
      BY <2>3, <2>6, <3>1, <3>5 DEF LinkInv
    <3>7. named # {} => hook.event = "created"
      BY <2>6, IngestAssumption DEF Named, OpenCodePayload
    <3>8. ParentLink'
      BY <2>3, <2>4, <3>6, <3>7 DEF LinkInv, ParentLink
    <3>9. \A other \in Places : other # place => sessions'[other.id] = sessions[other.id]
      BY <1>a, <1>1, OthersSession
    <3>10. linked \subseteq linked'
      BY <2>3
    <3>11. place.agent # Claude
      BY <2>6, IngestAssumption
    <3> QED
      BY <3>4, <3>6, <3>8, <3>9, <3>10, <3>11 DEF LinkInv
  <2>7. CASE place.agent = Codex
    <3>1. named = {} /\ place.agent # Claude /\ place.agent # OpenCode
      BY <2>7, IngestAssumption DEF Named
    <3>2. ParentLink'
      BY <2>3, <3>1 DEF LinkInv, ParentLink
    <3>3. \A other \in Places : other # place => sessions'[other.id] = sessions[other.id]
      BY <1>a, <1>1, OthersSession
    <3> QED
      BY <2>3, <3>1, <3>2, <3>3 DEF LinkInv
  <2> QED
    BY <2>5, <2>6, <2>7, IdTypes
<1>2. ASSUME NEW place \in Places, NEW n, Handles(place, n), Means(place, n) = Drop PROVE LinkInv'
  BY <1>2 DEF Handles, LinkInv, ParentLink
<1>3. ASSUME NEW sig \in CustomSignals, HandlesCustom(sig) PROVE LinkInv'
  <2>1. \A place \in Places : sessions'[place.id] = sessions[place.id]
    BY <1>a, <1>3, CustomSignal, DispatchSessions, IdTypes DEF HandlesCustom
  <2>2. announced' = announced /\ linked \subseteq linked'
    BY <1>3 DEF HandlesCustom, Dispatch
  <2> QED
    BY <2>1, <2>2 DEF LinkInv, ParentLink
<1>4. ASSUME Restart PROVE LinkInv'
  <2>1. \A place \in Places : sessions'[place.id] = FreshSession
    BY <1>4, IdTypes DEF Restart
  <2>2. FreshSession.status # "starting"
    BY DEF FreshSession, NoStatus
  <2> QED
    BY <1>4, <2>1, <2>2 DEF Restart, LinkInv, ParentLink
<1>5. ASSUME Idles PROVE LinkInv'
  BY <1>5 DEF Idles, LinkInv, ParentLink
<1> QED
  BY <1>1, <1>2, <1>3, <1>4, <1>5, StepKinds

-----------------------------------------------------------------------------
\* What the session shows, and what the agent does.

\* A set of numbers has a least one.
LEMMA LeastOf ==
  ASSUME NEW S \in SUBSET Nat, S # {}
  PROVE  \E x \in S : \A y \in S : x <= y
<1> DEFINE LessThan == {ss \in Nat \X Nat : ss[1] < ss[2]}
<1>1. OpToRel(<, Nat) = LessThan
  BY DEF OpToRel
<1>2. IsWellFoundedOn(LessThan, Nat)
  BY Zenon, <1>1, NatLessThanWellFounded
<1>3. \A x, y \in Nat : y < x => <<y, x>> \in LessThan
  OBVIOUS
<1> HIDE DEF LessThan
<1>4. PICK x \in S : \A y \in S : <<y, x>> \notin LessThan
  BY <1>2, WFMin
<1>5. \A y \in S : ~(y < x)
  BY <1>3, <1>4
<1> QED
  BY <1>5

\* A bounded one has a greatest, which is what Max returns.
LEMMA MaxMember ==
  ASSUME NEW m \in Nat, NEW S \in SUBSET (1 .. m), S # {}
  PROVE  Max(S) \in S
<1> DEFINE Gaps == {m - x : x \in S}
<1>1. Gaps \in SUBSET Nat /\ Gaps # {}
  <2>1. \A x \in S : m - x \in Nat
    OBVIOUS
  <2>2. PICK x : x \in S
    OBVIOUS
  <2>3. m - x \in Gaps
    BY <2>2
  <2> QED
    BY <2>1, <2>3
<1>2. PICK g \in Gaps : \A y \in Gaps : g <= y
  BY <1>1, LeastOf
<1>3. PICK x \in S : g = m - x
  OBVIOUS
<1>4. \A y \in S : g <= m - y
  BY <1>2
<1>5. \A y \in S : x >= y
  BY <1>3, <1>4
<1> QED
  BY <1>5 DEF Max

\* What is put on top is the greatest.
LEMMA MaxIs ==
  ASSUME NEW n \in Nat, NEW S \in SUBSET (1 .. n), n \in S
  PROVE  Max(S) = n
<1>1. \A y \in S : n >= y
  OBVIOUS
<1>2. \A x \in S : (\A y \in S : x >= y) => x = n
  OBVIOUS
<1> QED
  BY <1>1, <1>2 DEF Max

\* Doing speaks of all hooks.
LEMMA DoingIsUpToLast ==
  ASSUME TypeOK, NEW place \in Places
  PROVE  Doing(place) = DoingUpTo(place, Len(fired[place]))
<1>1. DOMAIN fired[place] = 1 .. Len(fired[place])
  BY LenProperties DEF TypeOK
<1> QED
  BY <1>1 DEF Doing, DoingUpTo, Told, Settled

\* A hook that settles is one the adapter does not drop.
LEMMA SettlesIsTold ==
  ASSUME NEW place, NEW n, Settles(place, n)
  PROVE  Means(place, n) # Drop
  BY DEF Settles, Drop

\* If the session shows what the agent did up to the hook before, or the hook settles it,
\* then it shows what the agent did up to the hook.
LEMMA Follows ==
  ASSUME FiredInv, NEW place \in Places, NEW m \in Nat, m + 1 \in 1 .. Len(fired[place]),
         NEW state \in SessionStates, state = DoingUpTo(place, m) \/ Settles(place, m + 1)
  PROVE  DoingUpTo(place, m + 1) =
           IF Means(place, m + 1) = Drop THEN state ELSE NextState(state, Means(place, m + 1))
<1> DEFINE sig == Means(place, m + 1)
<1>a. \A n : n \in 1 .. m + 1 <=> n \in 1 .. m \/ n = m + 1
  OBVIOUS
<1>1. CASE sig = Drop
  <2>1. ~Settles(place, m + 1)
    BY <1>1, SettlesIsTold
  <2>2. Told(place, m + 1) = Told(place, m)
    BY <1>1, <1>a DEF Told
  <2>3. Settled(place, m + 1) = Settled(place, m)
    BY <2>2 DEF Settled
  <2> QED
    BY <1>1, <2>1, <2>2, <2>3 DEF DoingUpTo
<1>2. CASE sig # Drop
  <2>1. Proper(place, sig)
    BY <1>2, MeaningProper DEF FiredInv, Means
  <2>2. Told(place, m + 1) = Told(place, m) \cup {m + 1}
    BY <1>2, <1>a DEF Told
  <2>3. Max(Told(place, m + 1)) = m + 1 /\ Told(place, m + 1) # {}
    <3>1. Told(place, m + 1) \in SUBSET (1 .. m + 1)
      BY DEF Told
    <3> QED
      BY <2>2, <3>1, MaxIs
  <2>4. HasCandidate(sig)
    BY <2>1 DEF Proper, HasCandidate
  <2>5. NextState(state, sig) = [status |-> Candidate(sig), tool |-> NewTool(state, sig)]
    BY <2>1, <2>4, NextStateValue DEF Proper
  <2>6. CASE Settles(place, m + 1)
    <3>1. m + 1 \in Settled(place, m + 1) /\ Settled(place, m + 1) \in SUBSET (1 .. m + 1)
      BY <2>2, <2>6 DEF Settled, Told
    <3>2. Max(Settled(place, m + 1)) = m + 1
      BY <3>1, MaxIs
    <3>3. DoingUpTo(place, m + 1) =
            [status |-> IF sig.status # NilStatus THEN sig.status ELSE "working", tool |-> sig.tool]
      BY <2>3, <3>1, <3>2 DEF DoingUpTo
    <3>4. NewTool(state, sig) = sig.tool
      BY <2>6 DEF Settles, NewTool
    <3> QED
      BY <1>2, <2>5, <3>3, <3>4 DEF Candidate
  <2>7. CASE ~Settles(place, m + 1)
    <3>1. sig.status = NilStatus /\ sig.tool = NoTool
      BY <2>7 DEF Settles
    <3>2. Settled(place, m + 1) = Settled(place, m)
      BY <2>2, <2>7 DEF Settled
    <3>3. DoingUpTo(place, m + 1) =
            [status |-> "working",
             tool |-> IF Settled(place, m) = {} THEN NoTool
                      ELSE Means(place, Max(Settled(place, m))).tool]
      BY <2>3, <3>1, <3>2 DEF DoingUpTo
    <3>4. Told(place, m) = {} => Settled(place, m) = {}
      BY DEF Settled
    <3>5. state.tool = IF Settled(place, m) = {} THEN NoTool
                       ELSE Means(place, Max(Settled(place, m))).tool
      BY <2>7, <3>4 DEF DoingUpTo, FreshSession
    <3>6. NewTool(state, sig) = state.tool /\ Candidate(sig) = "working"
      BY <3>1 DEF NewTool, Candidate
    <3> QED
      BY <1>2, <2>5, <3>3, <3>5, <3>6
  <2> QED
    BY <2>6, <2>7
<1> QED
  BY <1>1, <1>2

\* What the agent did does not change any more.
LEMMA DoingRemains ==
  ASSUME NEW place, NEW m \in Nat, \A n \in 1 .. m : fired'[place][n] = fired[place][n]
  PROVE  /\ DoingUpTo(place, m)' = DoingUpTo(place, m)
         /\ \A n \in 1 .. m : Settles(place, n)' <=> Settles(place, n)
<1>1. \A n \in 1 .. m : Meaning(place, fired'[place][n]) = Meaning(place, fired[place][n])
  OBVIOUS
<1>2. \A n \in 1 .. m : Settles(place, n)' <=> Settles(place, n)
  BY <1>1 DEF Settles, Means
<1>3. Told(place, m)' = Told(place, m)
  BY <1>1 DEF Told, Means
<1>4. Settled(place, m)' = Settled(place, m)
  BY <1>1, <1>3 DEF Settled, Settles, Told, Means
<1>5. Told(place, m) # {} => Max(Told(place, m)) \in 1 .. m
  <2>1. Told(place, m) \in SUBSET (1 .. m)
    BY DEF Told
  <2> QED
    BY <2>1, MaxMember
<1>6. Settled(place, m) # {} => Max(Settled(place, m)) \in 1 .. m
  <2>1. Settled(place, m) \in SUBSET (1 .. m)
    BY DEF Settled, Told
  <2> QED
    BY <2>1, MaxMember
<1> QED
  BY <1>1, <1>2, <1>3, <1>4, <1>5, <1>6 DEF DoingUpTo, Means

\* MirrorInv is inductive.
LEMMA MirrorStep ==
  TypeOK /\ FiredInv /\ FreshInv /\ MirrorInv /\ [Next]_vars => MirrorInv'
<1> SUFFICES ASSUME TypeOK, FiredInv, FreshInv, MirrorInv, [Next]_vars PROVE MirrorInv'
  OBVIOUS
<1>a. sessions \in [Parents -> SessionStates]
  BY DEF TypeOK, IngestTypeOK
\* Where nothing is handled.
<1>1. ASSUME NEW place \in Places, UNCHANGED <<handled[place], sessions[place.id]>>,
             \A n \in 1 .. Len(fired[place]) : fired'[place][n] = fired[place][n],
             NEW i \in 1 .. Len(handled'[place]), InOrderFrom(place, i)',
             Settles(place, handled[place][i])' \/ (i = 1 /\ handled'[place][1] = 1)
      PROVE  sessions'[place.id] = DoingUpTo(place, LastHandled(place))'
  <2>1. Len(handled[place]) \in Nat /\ Len(fired[place]) \in Nat
    BY LenProperties DEF TypeOK
  <2>2. PICK m : m = LastHandled(place)
    OBVIOUS
  <2>3. PICK h : h = handled[place][i]
    OBVIOUS
  <2>4. m \in 1 .. Len(fired[place]) /\ h \in 1 .. Len(fired[place])
    BY <1>1, <2>1, <2>2, <2>3 DEF LastHandled, FiredInv
  <2>5. LastHandled(place)' = m /\ handled'[place][i] = h
    BY <1>1, <2>2, <2>3 DEF LastHandled
  <2>6. /\ DoingUpTo(place, m)' = DoingUpTo(place, m)
        /\ Settles(place, h)' <=> Settles(place, h)
    <3>1. m \in Nat /\ \A n \in 1 .. m : fired'[place][n] = fired[place][n]
      BY <1>1, <2>1, <2>4
    <3>2. h \in Nat /\ h \in 1 .. h /\ \A n \in 1 .. h : fired'[place][n] = fired[place][n]
      BY <1>1, <2>1, <2>4
    <3> QED
      BY <3>1, <3>2, DoingRemains
  <2>7. InOrderFrom(place, i)
    BY <1>1 DEF InOrderFrom
  <2>8. Settles(place, h) \/ (i = 1 /\ handled[place][1] = 1)
    BY <1>1, <2>5, <2>6 DEF Settles, Means
  <2>9. sessions[place.id] = DoingUpTo(place, m)
    BY <1>1, <2>2, <2>3, <2>7, <2>8 DEF MirrorInv
  <2> QED
    BY <1>1, <2>5, <2>6, <2>9 DEF DoingUpTo, Told, Settled, Settles, Means
\* Where a hook is handled.
<1>2. ASSUME NEW place \in Places, NEW n, Handles(place, n),
             NEW i \in 1 .. Len(handled'[place]), InOrderFrom(place, i)',
             Settles(place, handled[place][i])' \/ (i = 1 /\ handled'[place][1] = 1)
      PROVE  sessions'[place.id] = DoingUpTo(place, LastHandled(place))'
  <2>1. /\ Len(handled[place]) \in Nat /\ Len(handled'[place]) = Len(handled[place]) + 1
        /\ \A k \in 1 .. Len(handled[place]) : handled'[place][k] = handled[place][k]
        /\ handled'[place][Len(handled[place]) + 1] = n
    BY <1>2, HandledGrow
  <2>2. n \in 1 .. Len(fired[place]) /\ fired' = fired /\ Len(fired[place]) \in Nat
    BY <1>2, LenProperties DEF Handles, TypeOK
  <2>3. sessions[place.id] \in SessionStates
    BY <1>a, IdTypes
  <2>4. sessions'[place.id] = IF Means(place, n) = Drop THEN sessions[place.id]
                              ELSE NextState(sessions[place.id], Means(place, n))
    BY <1>2, <1>a, HandlesSessions
  <2>5. PICK m : m = n - 1
    OBVIOUS
  <2>6. m \in Nat /\ n = m + 1 /\ m + 1 \in 1 .. Len(fired[place])
    BY <2>2, <2>5
  <2>7. sessions[place.id] = DoingUpTo(place, m) \/ Settles(place, n)
    <3>1. CASE i = Len(handled[place]) + 1 /\ Settles(place, handled[place][i])'
      BY <2>1, <2>2, <3>1 DEF Settles, Means
    <3>2. CASE i = Len(handled[place]) + 1 /\ i = 1 /\ handled'[place][1] = 1
      <4>1. Len(handled[place]) = 0 /\ n = 1
        BY <2>1, <3>2
      <4>2. handled[place] = <<>>
        BY <4>1, EmptySeq, LenProperties DEF TypeOK
      <4>3. sessions[place.id] = FreshSession
        BY <4>2 DEF FreshInv
      <4>4. Told(place, 0) = {}
        BY DEF Told
      <4> QED
        BY <2>5, <4>1, <4>3, <4>4 DEF DoingUpTo
    <3>3. CASE i \in 1 .. Len(handled[place])
      <4>1. InOrderFrom(place, i)
        BY <1>2, <2>1, <3>3 DEF InOrderFrom
      <4>2. Settles(place, handled[place][i]) \/ (i = 1 /\ handled[place][1] = 1)
        BY <1>2, <2>1, <2>2, <3>3 DEF Settles, Means
      <4>3. sessions[place.id] = DoingUpTo(place, LastHandled(place))
        BY <3>3, <4>1, <4>2 DEF MirrorInv
      <4>4. handled[place][i] \in Nat
        BY <2>1, <2>2, <3>3 DEF FiredInv
      <4>5. n = handled[place][i] + (Len(handled[place]) + 1 - i)
        <5>1. Len(handled[place]) + 1 \in i .. Len(handled'[place])
          BY <2>1, <3>3
        <5>2. handled'[place][Len(handled[place]) + 1] = handled'[place][i] + (Len(handled[place]) + 1 - i)
          BY <1>2, <5>1 DEF InOrderFrom
        <5> QED
          BY <2>1, <3>3, <5>2
      <4>6. LastHandled(place) = handled[place][i] + (Len(handled[place]) - i)
        BY <2>1, <3>3, <4>1 DEF InOrderFrom, LastHandled
      <4>7. LastHandled(place) = m
        <5>1. PICK h \in Nat : h = handled[place][i]
          BY <4>4
        <5>2. PICK l \in Nat : l = Len(handled[place])
          BY <2>1
        <5>3. i \in Int /\ n = h + (l + 1 - i) /\ LastHandled(place) = h + (l - i)
          BY <3>3, <4>5, <4>6, <5>1, <5>2
        <5> QED
          BY <2>5, <5>3
      <4> QED
        BY <4>3, <4>7
    <3>4. i \in 1 .. Len(handled[place]) \/ i = Len(handled[place]) + 1
      BY <2>1
    <3> QED
      BY <1>2, <3>1, <3>2, <3>3, <3>4
  <2>8. DoingUpTo(place, n) = sessions'[place.id]
    BY <2>3, <2>4, <2>6, <2>7, Follows
  <2>9. LastHandled(place)' = n
    BY <2>1 DEF LastHandled
  <2> QED
    BY <2>2, <2>8, <2>9 DEF DoingUpTo, Told, Settled, Settles, Means
<1>3. ASSUME NEW place \in Places, UNCHANGED <<handled[place], sessions[place.id]>>,
             \A n \in 1 .. Len(fired[place]) : fired'[place][n] = fired[place][n]
      PROVE  \A i \in 1 .. Len(handled'[place]) :
               /\ InOrderFrom(place, i)'
               /\ Settles(place, handled[place][i])' \/ (i = 1 /\ handled'[place][1] = 1)
               => sessions'[place.id] = DoingUpTo(place, LastHandled(place))'
  BY <1>1, <1>3
<1>4. ASSUME NEW place \in Places, NEW n, Handles(place, n) PROVE MirrorInv'
  <2>1. \A other \in Places : other # place =>
          /\ UNCHANGED <<handled[other], sessions[other.id]>>
          /\ \A k \in 1 .. Len(fired[other]) : fired'[other][k] = fired[other][k]
    BY <1>a, <1>4, HandledGrow, OthersSession DEF Handles
  <2> QED
    BY <1>2, <1>3, <1>4, <2>1 DEF MirrorInv
<1>5. ASSUME NEW sig \in CustomSignals, HandlesCustom(sig) PROVE MirrorInv'
  <2>1. \A place \in Places : sessions'[place.id] = sessions[place.id]
    BY <1>a, <1>5, CustomSignal, DispatchSessions, IdTypes DEF HandlesCustom
  <2>2. UNCHANGED <<handled, fired>>
    BY <1>5 DEF HandlesCustom, deliveryVars
  <2> QED
    BY <1>3, <2>1, <2>2 DEF MirrorInv
<1>6. ASSUME Restart PROVE MirrorInv'
  <2>1. \A place \in Places : Len(handled'[place]) = 0
    BY <1>6, EmptySeq DEF Restart
  <2> QED
    BY <2>1 DEF MirrorInv
<1>7. ASSUME Idles PROVE MirrorInv'
  <2>1. UNCHANGED <<handled, sessions>>
    BY <1>7 DEF Idles
  <2>2. \A place \in Places : \A n \in 1 .. Len(fired[place]) : fired'[place][n] = fired[place][n]
    BY <1>7, FiredRemain DEF Idles
  <2> QED
    BY <1>3, <2>1, <2>2 DEF MirrorInv
<1> QED
  BY <1>4, <1>5, <1>6, <1>7, StepKinds

-----------------------------------------------------------------------------
\* The theorems.

\* The inductive invariant holds at first ...
LEMMA IInvInit == Init => IInv
<1> SUFFICES ASSUME Init PROVE IInv
  OBVIOUS
<1>1. Len(<<>>) = 0 /\ DOMAIN <<>> = {}
  BY EmptySeq
<1>2. FiredSoFar = {}
  BY <1>1 DEF Init, FiredSoFar
<1>3. FiredInv
  BY <1>1, <1>2, FS_EmptySet DEF Init, FiredInv
<1>4. \A place \in Places : sessions[place.id] = FreshSession
  BY IdTypes DEF Init, IngestInit
<1>5. FreshInv
  BY <1>4 DEF FreshInv
<1>6. ToolShown
  BY DEF Init, IngestInit, ToolShown, FreshSession
<1>7. LinkInv
  <2>1. FreshSession.status # "starting"
    BY DEF FreshSession, NoStatus
  <2> QED
    BY <1>4, <2>1 DEF Init, IngestInit, LinkInv, ParentLink
<1>8. MirrorInv
  BY <1>1 DEF Init, MirrorInv
<1> QED
  BY <1>3, <1>5, <1>6, <1>7, <1>8, TypeInit DEF IInv

\* ... and every step preserves it.
LEMMA IInvStep == IInv /\ [Next]_vars => IInv'
  BY TypeStep, FiredStep, FreshStep, ShownStep, LinkStep, MirrorStep DEF IInv

\* The inductive invariant of the agents, their posts and the Hub.
THEOREM Invariance == Spec => []IInv
<1> QED
  BY IInvInit, IInvStep, PTL DEF Spec

\* Every reachable state is well typed.
THEOREM TypeCorrect == Spec => []TypeOK
<1>1. IInv => TypeOK
  BY DEF IInv
<1> QED
  BY <1>1, Invariance, PTL

\* Whatever was lost or late before: after one hook that settles the session, with all that
\* fired after it handled in order, the session shows what the agent does.
THEOREM Recovers == Spec => []Mirror
<1>1. IInv => Mirror
  <2> SUFFICES ASSUME IInv, NEW place \in Places, NEW i \in DOMAIN handled[place],
                      InOrderSince(place, i),
                      Settles(place, handled[place][i]) \/ (i = 1 /\ handled[place][1] = 1)
               PROVE  sessions[place.id] = Doing(place)
    BY DEF Mirror
  <2> USE DEF IInv
  <2> DEFINE start == handled[place][i]
             L == Len(handled[place])
             F == Len(fired[place])
             suffix == SubSeq(handled[place], i, L)
  <2>1. L \in Nat /\ F \in Nat /\ i \in 1 .. L
    BY LenProperties DEF TypeOK
  <2>2. \A k \in 1 .. L : handled[place][k] \in 1 .. F
    BY DEF FiredInv
  <2>3. start \in 1 .. F
    BY <2>1, <2>2
  <2>4. Len(suffix) = L - i + 1 /\ \A k \in 1 .. L - i + 1 : suffix[k] = handled[place][i + k - 1]
    <3>1. \A k \in i .. L : handled[place][k] \in Nat
      BY <2>1, <2>2
    <3> HIDE DEF L
    <3> QED
      BY <2>1, <3>1, SubSeqProperties
  <2>5. suffix = [k \in 1 .. F - start + 1 |-> start + k - 1]
    BY DEF InOrderSince
  <2>6. Len(suffix) = F - start + 1
    <3>1. F - start + 1 \in Nat
      BY <2>1, <2>3
    <3>2. PICK w \in Nat : w = F - start + 1
      BY <3>1
    <3>3. suffix = [k \in 1 .. w |-> start + k - 1]
      BY <2>5, <3>2
    <3> HIDE DEF suffix
    <3> QED
      BY <3>2, <3>3
  <2> HIDE DEF suffix, L, F, start
  <2>7. F - start = L - i
    BY <2>1, <2>3, <2>4, <2>6 DEF start
  <2>8. \A k \in i .. L : handled[place][k] = start + (k - i)
    <3> SUFFICES ASSUME NEW k \in i .. L PROVE handled[place][k] = start + (k - i)
      OBVIOUS
    <3>1. PICK j : j = k - i + 1
      OBVIOUS
    <3>2. j \in 1 .. L - i + 1 /\ j \in 1 .. F - start + 1 /\ i + j - 1 = k
      BY <2>1, <2>3, <2>7, <3>1
    <3>3. suffix[j] = start + j - 1
      BY <2>5, <3>2
    <3>4. suffix[j] = handled[place][k]
      BY <2>4, <3>2
    <3> QED
      BY <2>1, <2>3, <3>1, <3>3, <3>4
  <2>9. InOrderFrom(place, i)
    BY <2>8 DEF InOrderFrom, L, start
  <2>10. handled[place][L] = F
    BY <2>1, <2>3, <2>7, <2>8
  <2>11. sessions[place.id] = DoingUpTo(place, F)
    BY <2>1, <2>9, <2>10 DEF MirrorInv, LastHandled, L
  <2> QED
    BY <2>11, DoingIsUpToLast DEF F
<1> QED
  BY <1>1, Invariance, PTL

\* A session shows a tool only while it works.
THEOREM ToolWhileWorking == Spec => []ToolShown
<1>1. IInv => ToolShown
  BY DEF IInv
<1> QED
  BY <1>1, Invariance, PTL

\* Once an accepted hook named a session's parent, an Event has.
THEOREM NoOrphan == Spec => []ParentLink
<1>1. IInv => ParentLink
  BY DEF IInv, LinkInv
<1> QED
  BY <1>1, Invariance, PTL

\* No session changes without an Event that tells its status before and after.
THEOREM ChangesAreTold == Spec => ChangeIsTold
<1>1. ASSUME IInv, [Next]_vars
      PROVE  [restarts' = restarts =>
                \A s \in Parents :
                  sessions'[s] # sessions[s] =>
                    /\ event' # NoEvent
                    /\ event'.session = s /\ event'.prev = sessions[s].status
                    /\ event'.status = sessions'[s].status]_vars
  <2> SUFFICES ASSUME restarts' = restarts, NEW s \in Parents, sessions'[s] # sessions[s]
               PROVE  /\ event' # NoEvent
                      /\ event'.session = s /\ event'.prev = sessions[s].status
                      /\ event'.status = sessions'[s].status
    OBVIOUS
  <2>a. sessions \in [Parents -> SessionStates]
    BY <1>1 DEF IInv, TypeOK, IngestTypeOK
  <2>1. ASSUME NEW agent \in Agents, NEW sig \in SignalType, NEW named, Dispatch(agent, sig, named)
        PROVE  /\ event' # NoEvent
               /\ event'.session = s /\ event'.prev = sessions[s].status
               /\ event'.status = sessions'[s].status
    <3>1. s = sig.session /\ sessions'[s] = NextState(sessions[s], sig) /\ sessions[s] \in SessionStates
      BY <2>a, <2>1, DispatchSessions
    <3>2. Emits(sessions[s], sig)
      BY <3>1, NextStateValue
    <3>3. event' = Event(agent, sig)
      BY <2>1, <3>1, <3>2 DEF Dispatch
    <3>4. event' \in PublishedEvents
      BY <2>a, <2>1, <3>1, <3>2, <3>3, PublishedType
    <3>5. sessions'[s].status = Candidate(sig)
      BY <3>1, <3>2, NextStateValue DEF Emits
    <3> QED
      BY <3>1, <3>3, <3>4, <3>5, IngestAssumption DEF Event, Transition
  <2>2. ASSUME NEW place \in Places, NEW n \in 1 .. Len(fired[place]), Handles(place, n)
        PROVE  \E agent \in Agents, sig \in SignalType : \E named : Dispatch(agent, sig, named)
    <3>1. Means(place, n) # Drop
      BY <2>2 DEF Handles
    <3>2. Proper(place, Means(place, n))
      BY <2>a, <2>2, <3>1, HandlesSessions
    <3> QED
      BY <2>2, <3>1, <3>2, IdTypes DEF Handles, Proper
  <2>3. ASSUME NEW sig \in CustomSignals, HandlesCustom(sig)
        PROVE  \E agent \in Agents, signal \in SignalType : \E named : Dispatch(agent, signal, named)
    BY <2>3, CustomSignal DEF HandlesCustom, Agents
  <2>4. ~Restart /\ ~Idles
    <3>1. ~Restart
      BY <1>1 DEF Restart, IInv, TypeOK
    <3> QED
      BY <3>1 DEF Idles
  <2> QED
    BY <1>1, <2>1, <2>2, <2>3, <2>4, StepKinds DEF IInv
<1> QED
  BY <1>1, Invariance, PTL DEF Spec, ChangeIsTold

\* A "still busy" hook of a working session publishes nothing and changes nothing.
THEOREM HeartbeatsAreSilent == Spec => NoFlicker
<1>1. ASSUME IInv, [Next]_vars
      PROVE  [\A place \in Places : \A n \in DOMAIN fired[place] :
                /\ <<place, n>> \in flight /\ sessions[place.id].status = "working"
                /\ Means(place, n) # Drop /\ ~Settles(place, n)
                /\ Handle(place, n)
                => event' = NoEvent /\ UNCHANGED sessions]_vars
  <2> SUFFICES ASSUME NEW place \in Places, NEW n \in DOMAIN fired[place],
                      sessions[place.id].status = "working",
                      Means(place, n) # Drop, ~Settles(place, n), Handle(place, n)
               PROVE  event' = NoEvent /\ UNCHANGED sessions
    OBVIOUS
  <2> DEFINE sig == Means(place, n)
             state == sessions[place.id]
  <2>1. sessions \in [Parents -> SessionStates] /\ state \in SessionStates
    BY <1>1, IdTypes DEF IInv, TypeOK, IngestTypeOK
  <2>2. n \in 1 .. Len(fired[place]) /\ fired[place][n] \in Hooks[place]
    BY <1>1, LenProperties DEF IInv, TypeOK, FiredInv
  <2>3. Proper(place, sig)
    BY <2>2, MeaningProper DEF Means
  <2>4. Dispatch(place.agent, sig, Named(place, fired[place][n]))
    BY DEF Handle, Accept, Means
  <2>5. Candidate(sig) = "working" /\ NewTool(state, sig) = state.tool
    BY DEF Settles, Candidate, NewTool
  <2>6. Target(state, sig) = state
    BY <2>1, <2>5 DEF Target, SessionStates
  <2>7. ~Emits(state, sig)
    BY <2>6 DEF Emits
  <2>8. sig.session = place.id /\ NextState(state, sig) = state
    BY <2>3, <2>7 DEF Proper, NextState
  <2> QED
    BY <2>1, <2>4, <2>7, <2>8, IdTypes DEF Dispatch
<1> QED
  BY <1>1, Invariance, PTL DEF Spec, NoFlicker
=============================================================================
