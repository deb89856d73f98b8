----------------------------- MODULE HubProofs -----------------------------
(***************************************************************************)
(* What MCHub checks on a small instance, proved for any number of         *)
(* goroutines, sinks, sessions and calls and any buffer size.              *)
(***************************************************************************)
EXTENDS Hub, SequenceTheorems, TLAPS

\* Calls are numbered once each: a call that returned is not under way, and no two
\* goroutines are in the same one.
CallInv ==
  /\ done \subseteq 1 .. calls
  /\ \A i \in CallIds : before[i] \subseteq done
  /\ \A p \in Ingesters : pc[p] # "idle" => call[p] \in 1 .. calls /\ call[p] \notin done
  /\ \A p, q \in Ingesters :
       pc[p] # "idle" /\ pc[q] # "idle" /\ call[p] = call[q] => p = q

\* Past the unlock of h.mu.
Carrying == {"publish", "offer"}

\* What a goroutine carries to the fan-out is the decision its call took.
EventInv ==
  \A p \in Ingesters : pc[p] \in Carrying =>
    /\ ev[p] \in Decisions
    /\ ev[p].id = call[p]
    /\ \E j \in 1 .. Len(decided) : ev[p] = decided[j]

\* A decision belongs to one call, which returned or carries it.
DecidedInv ==
  /\ \A j \in 1 .. Len(decided) :
       decided[j].id \in done \/ \E p \in Ingesters : pc[p] \in Carrying /\ call[p] = decided[j].id
  /\ \A i, j \in 1 .. Len(decided) : decided[i].id = decided[j].id => i = j

\* One goroutine at a time holds b.mu, and an Event in the log is of a call that
\* returned or is the one being handed out.
LogInv ==
  /\ \A p, q \in Ingesters : pc[p] = "offer" /\ pc[q] = "offer" => p = q
  /\ \A i \in 1 .. Len(log) :
       log[i].id \in done \/ \E p \in Ingesters : pc[p] = "offer" /\ call[p] = log[i].id

\* One caller does the closing.  The broadcaster is open until it gets there, and
\* when it is through the sinks it owed have stopped.
CloseInv ==
  /\ \A c \in Closers : closer[c] # "idle" => hubClosed
  /\ \A c, d \in Closers : closer[c] \in {"bcast", "wait"} /\ closer[d] \in {"bcast", "wait"} => c = d
  /\ open <=> ~hubClosed \/ \E c \in Closers : closer[c] = "bcast"
  /\ hubClosed /\ (\A c \in Closers : closer[c] \notin {"bcast", "wait"})
     => \A k \in owed : sink[k] = "done"
  /\ \A k \in owed : sink[k] \in {"done"} \cup Forwarding
  /\ ~hubClosed => owed = {}

\* A sink attached to an open broadcaster is subscribed.  Once the broadcaster is
\* closed no buffer fills any more, and what was owed reaches to the end of the log.
SinkInv ==
  /\ open => \A k \in Sinks : sink[k] # "unattached" => phase[k] = "live"
  /\ ~open => \A s \in Subs : phase[s] # "live"
  /\ ~open => \A k \in owed : hi[k] = published
  /\ \A k \in Sinks : sink[k] = "done" => ~open /\ lo[k] = hi[k]

\* The three parts of PublishedAsDecided.
PublishedOnce == \A i, j \in 1 .. Len(log) : log[i].id = log[j].id => i = j

Normalized(d) == [d EXCEPT !.tool = NormalizeToolName(@)]

PublishedFaithfully ==
  \A i \in 1 .. Len(log) : \E j \in 1 .. Len(decided) : log[i] = Normalized(decided[j])

InLogOrFlight(id) ==
  \/ \E i \in 1 .. Len(log) : log[i].id = id
  \/ \E p \in Ingesters : pc[p] = "publish" /\ ev[p].id = id

NoneMissing == open => \A j \in 1 .. Len(decided) : InLogOrFlight(decided[j].id)

\* The inductive invariant.
IInv == /\ TypeOK /\ CallInv /\ EventInv /\ DecidedInv /\ LogInv /\ CloseInv /\ SinkInv
        /\ PublishedOnce /\ PublishedFaithfully /\ NoneMissing
        /\ DecisionChain /\ RealTimeOrder

-----------------------------------------------------------------------------
\* The pure parts.

\* decision.go keeps a session's state well formed.
LEMMA NextStateType ==
  ASSUME NEW state \in SessionStates, NEW sig \in Signals
  PROVE  NextState(state, sig) \in SessionStates
  BY DEF NextState, Emits, HasCandidate, Target, Candidate, NewTool, SessionStates,
         Signals, Statuses

\* A Transition goes to a proper status.
LEMMA TransitionType ==
  ASSUME NEW state \in SessionStates, NEW sig \in Signals, Emits(state, sig)
  PROVE  /\ Transition(state, sig).status \in Statuses
         /\ Transition(state, sig).prev \in Statuses \cup {NoStatus}
         /\ Transition(state, sig).tool \in Tools \cup {NoTool}
  BY DEF Transition, Emits, HasCandidate, Candidate, NewTool, SessionStates, Signals, Statuses

\* A Transition tells the new state, and the status of the old one, which differs.
LEMMA TransitionOutcome ==
  ASSUME NEW state \in SessionStates, NEW sig \in Signals, Emits(state, sig)
  PROVE  LET t == Transition(state, sig) IN
         /\ NextState(state, sig) = [status |-> t.status, tool |-> t.tool]
         /\ t.prev = state.status
         /\ NextState(state, sig) # state
  BY DEF Transition, NextState, Target, Emits

\* Normalising a tool name gives a tool name.
LEMMA NormalizeType ==
  ASSUME NEW t \in Tools \cup {NoTool}
  PROVE  NormalizeToolName(t) \in Tools \cup {NoTool}
  BY DecisionAssumption DEF NormalizeToolName, NoTool

\* Whoever is in a call knows its number.
LEMMA CallNumber ==
  ASSUME TypeOK, CallInv, NEW p \in Ingesters, pc[p] # "idle"
  PROVE  call[p] \in CallIds
  BY HubAssumption DEF TypeOK, CallInv, CallIds

\* What Dispatch decides on is well formed.
LEMMA DecisionType ==
  ASSUME TypeOK, CallInv, NEW p \in Ingesters, pc[p] = "dispatch",
         Emits(sessions[req[p].session], req[p].sig)
  PROVE  Decision(p) \in Decisions
<1>1. req[p].session \in Sessions /\ req[p].sig \in Signals
  BY HubAssumption DEF TypeOK
<1>2. sessions[req[p].session] \in SessionStates /\ tags[req[p].session] \in TagSets \cup {NoTags}
  BY <1>1 DEF TypeOK
<1>3. call[p] \in CallIds
  BY CallNumber
<1> QED
  BY <1>1, <1>2, <1>3, TransitionType DEF Decision, Decisions

\* So is what Publish makes of it; only the tool name is another.
LEMMA EventType ==
  ASSUME TypeOK, EventInv, NEW p \in Ingesters, pc[p] = "publish"
  PROVE  /\ Event(p) \in Decisions
         /\ Event(p).id = ev[p].id
         /\ Event(p).session = ev[p].session
         /\ Event(p).status = ev[p].status
         /\ Event(p) = [ev[p] EXCEPT !.tool = NormalizeToolName(@)]
<1>1. ev[p] \in Decisions
  BY DEF EventInv, Carrying
<1>2. NormalizeToolName(ev[p].tool) \in Tools \cup {NoTool}
  BY <1>1, NormalizeType DEF Decisions
<1> QED
  BY <1>1, <1>2 DEF Event, Decisions

\* Appending leaves what is there and adds one entry.
LEMMA Appended ==
  ASSUME NEW S, NEW seq \in Seq(S), NEW e \in S, NEW new, new = Append(seq, e)
  PROVE  /\ new \in Seq(S)
         /\ Len(seq) \in Nat /\ Len(new) = Len(seq) + 1
         /\ \A i \in 1 .. Len(seq) : new[i] = seq[i]
         /\ new[Len(seq) + 1] = e
  BY AppendProperties, LenProperties

-----------------------------------------------------------------------------
\* What a step may do to a part of the state.

\* Only five actions touch the calls and the log.
LEMMA IngestStep ==
  ASSUME [Next]_vars
  PROVE  \/ \E p \in Ingesters :
              \/ \E payload \in Payloads : Call(p, payload)
              \/ Dispatch(p) \/ Publish(p) \/ PublishClosed(p) \/ Return(p)
         \/ UNCHANGED <<log, ingestVars, histVars>>
  BY DEF Next, vars, Ingest, Forwarder, RegisterSession, UnregisterSession, Offer, OpenStream,
         ReadStream, AttachSink, StartForwarder, Forward, SendReturns, StopForwarder,
         Close, CloseBroadcaster, AwaitSinks

\* Only Dispatch writes the sessions' states and decides.
LEMMA DispatchStep ==
  ASSUME [Next]_vars
  PROVE  (\E p \in Ingesters : Dispatch(p)) \/ UNCHANGED <<sessions, decided>>
  BY DEF Next, vars, coreVars, histVars, Ingest, Forwarder, RegisterSession, UnregisterSession,
         Offer, OpenStream, ReadStream, AttachSink, StartForwarder, Forward, SendReturns,
         StopForwarder, Close, CloseBroadcaster, AwaitSinks, Call, Publish, PublishClosed, Return

\* A closed Hub and a closed broadcaster stay closed.
LEMMA ClosedStep ==
  ASSUME [Next]_vars
  PROVE  (open' => open) /\ (hubClosed => hubClosed')
<1>1. \A s : Window!Subscribe(s) \/ Window!Offer(s) \/ Window!Receive(s) => open' = open
  BY DEF Window!Subscribe, Window!Offer, Window!Receive
<1>2. (Window!Publish => open' = open) /\ (Window!CloseAll => open)
  BY DEF Window!Publish, Window!CloseAll
<1> QED
  BY <1>1, <1>2
  DEF Next, vars, coreVars, bcastVars, Ingest, Forwarder, RegisterSession, UnregisterSession,
      Offer, OpenStream, ReadStream, Events, AttachSink, StartForwarder, Forward, SendReturns,
      StopForwarder, Close, CloseBroadcaster, AwaitSinks, Call, Dispatch, Publish,
      PublishClosed, Return

-----------------------------------------------------------------------------
\* Type correctness.

\* The types, grouped like the variables.
CoreTypeOK == /\ sessions \in [Sessions -> SessionStates]
              /\ tags \in [Sessions -> TagSets \cup {NoTags}]
              /\ hubClosed \in BOOLEAN

IngestTypeOK ==
  /\ pc \in [Ingesters -> {"idle", "dispatch", "publish", "offer"}]
  /\ call \in [Ingesters -> CallIds \cup {0}]
  /\ req \in [Ingesters -> Payloads \cup {NoEvent}]
  /\ \A p \in Ingesters : pc[p] # "idle" => req[p] \in Payloads
  /\ ev \in [Ingesters -> Decisions \cup {NoEvent}]

HistTypeOK == /\ calls \in CallIds \cup {0} /\ done \subseteq CallIds
              /\ before \in [CallIds -> SUBSET CallIds] /\ decided \in Seq(Decisions)

SinkTypeOK == /\ sink \in [Sinks -> {"unattached", "subscribed", "done"} \cup Forwarding]
              /\ handed \in [Sinks -> Nat]

CloseTypeOK == /\ closer \in [Closers -> {"idle", "bcast", "wait", "returned"}]
               /\ owed \subseteq Sinks

\* The types, part by part.
LEMMA TypeParts ==
  TypeOK <=> /\ CoreTypeOK /\ Window!WindowTypeOK /\ log \in Seq(Decisions)
             /\ IngestTypeOK /\ HistTypeOK /\ SinkTypeOK /\ CloseTypeOK
  BY DEF TypeOK, CoreTypeOK, IngestTypeOK, HistTypeOK, SinkTypeOK, CloseTypeOK

\* The steps of the broadcaster keep its types.
LEMMA WindowTypes ==
  ASSUME Window!WindowTypeOK,
         \/ UNCHANGED bcastVars \/ Window!Publish \/ Window!CloseAll
         \/ \E s \in Subs : Window!Subscribe(s) \/ Window!Offer(s) \/ Window!Receive(s)
  PROVE  Window!WindowTypeOK'
<1> USE DEF Window!WindowTypeOK
<1>1. CASE UNCHANGED bcastVars
  BY <1>1 DEF bcastVars
<1>2. CASE Window!Publish
  BY <1>2 DEF Window!Publish
<1>3. CASE Window!CloseAll
  BY <1>3 DEF Window!CloseAll
<1>4. ASSUME NEW s \in Subs, Window!Subscribe(s) PROVE Window!WindowTypeOK'
  BY <1>4 DEF Window!Subscribe
<1>5. ASSUME NEW s \in Subs, Window!Offer(s) PROVE Window!WindowTypeOK'
  BY <1>5 DEF Window!Offer
<1>6. ASSUME NEW s \in Subs, Window!Receive(s) PROVE Window!WindowTypeOK'
  BY <1>6 DEF Window!Receive
<1> QED
  BY <1>1, <1>2, <1>3, <1>4, <1>5, <1>6

\* A call that ends leaves well typed variables.
LEMMA FinishTypes ==
  ASSUME IngestTypeOK, NEW p \in Ingesters, Finish(p)
  PROVE  IngestTypeOK'
<1>1. \A q \in Ingesters : q # p => pc'[q] = pc[q] /\ (pc[q] # "idle" => req'[q] \in Payloads)
  BY DEF IngestTypeOK, Finish
<1>2. pc'[p] = "idle"
  BY DEF IngestTypeOK, Finish
<1> QED
  BY <1>1, <1>2 DEF IngestTypeOK, Finish

\* They hold at first ...
LEMMA TypeInit == Init => TypeOK
<1> SUFFICES ASSUME Init PROVE TypeOK
  OBVIOUS
<1>1. FreshSession \in SessionStates
  BY DEF FreshSession, SessionStates
<1>2. Window!WindowTypeOK
  BY DEF Init, Window!WindowInit, Window!WindowTypeOK
<1>3. CoreTypeOK
  BY <1>1 DEF Init, CoreTypeOK
<1>4. IngestTypeOK /\ HistTypeOK
  BY DEF Init, IngestTypeOK, HistTypeOK
<1>5. SinkTypeOK /\ CloseTypeOK
  BY DEF Init, SinkTypeOK, CloseTypeOK
<1> QED
  BY <1>2, <1>3, <1>4, <1>5, TypeParts DEF Init

\* ... and every step keeps them.
LEMMA TypeStep == TypeOK /\ CallInv /\ EventInv /\ [Next]_vars => TypeOK'
<1> SUFFICES ASSUME TypeOK, CallInv, EventInv, [Next]_vars PROVE TypeOK'
  OBVIOUS
<1>a. /\ CoreTypeOK /\ Window!WindowTypeOK /\ log \in Seq(Decisions)
      /\ IngestTypeOK /\ HistTypeOK /\ SinkTypeOK /\ CloseTypeOK
  BY TypeParts
<1>b. UNCHANGED bcastVars => Window!WindowTypeOK'
  BY <1>a, WindowTypes
<1>c. UNCHANGED coreVars => CoreTypeOK'
  BY <1>a DEF coreVars, CoreTypeOK
<1>d. UNCHANGED ingestVars => IngestTypeOK'
  BY <1>a DEF ingestVars, IngestTypeOK
<1>e. UNCHANGED histVars => HistTypeOK'
  BY <1>a DEF histVars, HistTypeOK
<1>f. UNCHANGED sinkVars => SinkTypeOK'
  BY <1>a DEF sinkVars, SinkTypeOK
<1>g. UNCHANGED closeVars => CloseTypeOK'
  BY <1>a DEF closeVars, CloseTypeOK
<1>h. UNCHANGED log => (log \in Seq(Decisions))'
  BY <1>a
<1>i. CoreTypeOK' /\ Window!WindowTypeOK' /\ (log \in Seq(Decisions))' /\ IngestTypeOK'
      /\ HistTypeOK' /\ SinkTypeOK' /\ CloseTypeOK' => TypeOK'
  BY DEF TypeOK, CoreTypeOK, IngestTypeOK, HistTypeOK, SinkTypeOK, CloseTypeOK
<1> USE <1>a, <1>b, <1>c, <1>d, <1>e, <1>f, <1>g, <1>h, <1>i
<1>1. ASSUME NEW s \in Registered, UnregisterSession(s) \/ \E t \in TagSets : RegisterSession(s, t)
      PROVE  TypeOK'
  <2>1. CoreTypeOK'
    BY <1>1 DEF RegisterSession, UnregisterSession, CoreTypeOK
  <2> QED
    BY <1>1, <2>1 DEF RegisterSession, UnregisterSession
<1>2. ASSUME NEW p \in Ingesters, NEW payload \in Payloads, Call(p, payload) PROVE TypeOK'
  <2>1. calls + 1 \in CallIds
    BY <1>2, HubAssumption DEF Call, HistTypeOK, CallIds
  <2>2. IngestTypeOK'
    BY <1>2, <2>1 DEF Call, IngestTypeOK
  <2>3. HistTypeOK'
    BY <1>2, <2>1 DEF Call, HistTypeOK
  <2> QED
    BY <1>2, <2>2, <2>3 DEF Call
<1>3. ASSUME NEW p \in Ingesters, Dispatch(p) PROVE TypeOK'
  <2> DEFINE s == req[p].session
  <2>1. pc[p] = "dispatch" /\ s \in Sessions /\ req[p].sig \in Signals
    BY <1>3, HubAssumption DEF Dispatch, IngestTypeOK
  <2>2. CoreTypeOK'
    <3>1. NextState(sessions[s], req[p].sig) \in SessionStates
      BY <2>1, NextStateType DEF CoreTypeOK
    <3> QED
      BY <1>3, <3>1 DEF Dispatch, CoreTypeOK
  <2>3. CASE Finish(p) /\ UNCHANGED decided
    <3>1. IngestTypeOK'
      BY <2>3, FinishTypes
    <3>2. HistTypeOK'
      BY <1>3, <2>1, <2>3, CallNumber DEF Finish, Dispatch, HistTypeOK
    <3> QED
      BY <1>3, <2>2, <3>1, <3>2 DEF Dispatch
  <2>4. CASE ~(Finish(p) /\ UNCHANGED decided)
    <3>1. /\ Emits(sessions[s], req[p].sig)
          /\ ev' = [ev EXCEPT ![p] = Decision(p)]
          /\ decided' = Append(decided, Decision(p))
          /\ pc' = [pc EXCEPT ![p] = "publish"]
          /\ UNCHANGED <<call, req, done>>
      BY <1>3, <2>4 DEF Dispatch, StaysInCall
    <3>2. Decision(p) \in Decisions
      BY <2>1, <3>1, DecisionType
    <3>3. IngestTypeOK'
      BY <2>1, <3>1, <3>2 DEF IngestTypeOK
    <3>4. HistTypeOK'
      BY <1>3, <3>1, <3>2 DEF Dispatch, HistTypeOK
    <3> QED
      BY <1>3, <2>2, <3>3, <3>4 DEF Dispatch
  <2> QED
    BY <2>3, <2>4
<1>4. ASSUME NEW p \in Ingesters, Publish(p) PROVE TypeOK'
  <2>1. Window!WindowTypeOK'
    BY <1>4, WindowTypes DEF Publish
  <2>2. log' \in Seq(Decisions)
    BY <1>4, EventType DEF Publish
  <2>3. IngestTypeOK'
    BY <1>4 DEF Publish, IngestTypeOK
  <2> QED
    BY <1>4, <2>1, <2>2, <2>3 DEF Publish
<1>5. ASSUME NEW p \in Ingesters, PublishClosed(p) \/ Return(p) PROVE TypeOK'
  <2>1. IngestTypeOK'
    BY <1>5, FinishTypes DEF PublishClosed, Return
  <2>2. HistTypeOK'
    BY <1>5, CallNumber DEF Finish, PublishClosed, Return, HistTypeOK
  <2> QED
    BY <1>5, <2>1, <2>2 DEF PublishClosed, Return
<1>6. ASSUME NEW p \in Ingesters, NEW s \in Subs, Offer(p, s) PROVE TypeOK'
  <2>1. Window!WindowTypeOK'
    BY <1>6, WindowTypes DEF Offer
  <2> QED
    BY <1>6, <2>1 DEF Offer
<1>7. ASSUME NEW s \in Streams, OpenStream(s) \/ ReadStream(s) PROVE TypeOK'
  <2>1. Window!WindowTypeOK'
    BY <1>7, WindowTypes DEF OpenStream, ReadStream, Events, Subs
  <2> QED
    BY <1>7, <2>1 DEF OpenStream, ReadStream
<1>8. ASSUME NEW k \in Sinks, Forwarder(k) PROVE TypeOK'
  <2>1. Window!WindowTypeOK'
    BY <1>8, WindowTypes
    DEF Forwarder, AttachSink, StartForwarder, Forward, SendReturns, StopForwarder, Events, Subs
  <2>2. SinkTypeOK'
    <3>1. \E to \in {"subscribed", "done"} \cup Forwarding : sink' = [sink EXCEPT ![k] = to]
      BY <1>8 DEF Forwarder, AttachSink, StartForwarder, Forward, SendReturns, StopForwarder, Forwarding
    <3>2. handed' = handed \/ handed' = [handed EXCEPT ![k] = handed[k] + 1]
      BY <1>8 DEF Forwarder, AttachSink, StartForwarder, Forward, SendReturns, StopForwarder
    <3>3. handed' \in [Sinks -> Nat]
      BY <3>2 DEF SinkTypeOK
    <3> QED
      BY <3>1, <3>3 DEF SinkTypeOK
  <2> QED
    BY <1>8, <2>1, <2>2
    DEF Forwarder, AttachSink, StartForwarder, Forward, SendReturns, StopForwarder
<1>9. ASSUME NEW c \in Closers, Close(c) PROVE TypeOK'
  <2>1. CoreTypeOK'
    BY <1>9 DEF Close, CoreTypeOK
  <2>2. CloseTypeOK'
    BY <1>9 DEF Close, CloseTypeOK
  <2> QED
    BY <1>9, <2>1, <2>2 DEF Close
<1>10. ASSUME NEW c \in Closers, CloseBroadcaster(c) \/ AwaitSinks(c) PROVE TypeOK'
  <2>1. Window!WindowTypeOK'
    BY <1>10, WindowTypes DEF CloseBroadcaster, AwaitSinks
  <2>2. CloseTypeOK'
    BY <1>10 DEF CloseBroadcaster, AwaitSinks, CloseTypeOK
  <2> QED
    BY <1>10, <2>1, <2>2 DEF CloseBroadcaster, AwaitSinks
<1>11. CASE UNCHANGED vars
  BY <1>11 DEF vars
<1> QED
  BY <1>1, <1>2, <1>3, <1>4, <1>5, <1>6, <1>7, <1>8, <1>9, <1>10, <1>11
  DEF Next, Ingest

-----------------------------------------------------------------------------
\* Calls, and what they carry.

\* The two ways a signal that was accepted or discarded goes on from Dispatch.
LEMMA DispatchEnds ==
  ASSUME TypeOK, NEW p \in Ingesters, Dispatch(p)
  PROVE  \/ Finish(p) /\ UNCHANGED decided
         \/ /\ Emits(sessions[req[p].session], req[p].sig) /\ ~hubClosed
            /\ sessions' = [sessions EXCEPT ![req[p].session] = NextState(@, req[p].sig)]
            /\ ev' = [ev EXCEPT ![p] = Decision(p)]
            /\ decided' = Append(decided, Decision(p))
            /\ pc' = [pc EXCEPT ![p] = "publish"]
            /\ UNCHANGED <<call, req, done>>
  BY DEF Dispatch, StaysInCall, AcceptsSignals

\* What Finish does to the calls.
LEMMA FinishEffect ==
  ASSUME TypeOK, NEW p \in Ingesters, Finish(p)
  PROVE  /\ pc' = [q \in Ingesters |-> IF q = p THEN "idle" ELSE pc[q]]
         /\ call' = [q \in Ingesters |-> IF q = p THEN 0 ELSE call[q]]
         /\ ev' = [q \in Ingesters |-> IF q = p THEN NoEvent ELSE ev[q]]
         /\ done' = done \cup {call[p]}
  BY DEF TypeOK, Finish

\* Numbers are given out once.
LEMMA CallStep == TypeOK /\ CallInv /\ [Next]_vars => CallInv'
<1> SUFFICES ASSUME TypeOK, CallInv, [Next]_vars PROVE CallInv'
  OBVIOUS
<1>1. ASSUME NEW p \in Ingesters, NEW payload \in Payloads, Call(p, payload) PROVE CallInv'
  <2>1. calls \in Nat /\ calls' = calls + 1
    BY <1>1, HubAssumption DEF Call, TypeOK, CallIds
  <2>2. \A q \in Ingesters : pc'[q] = (IF q = p THEN "dispatch" ELSE pc[q])
    BY <1>1 DEF Call, TypeOK
  <2>3. \A q \in Ingesters : call'[q] = (IF q = p THEN calls + 1 ELSE call[q])
    BY <1>1 DEF Call, TypeOK
  <2>4. done' = done /\ \A i \in CallIds : before'[i] \in {before[i], done}
    BY <1>1 DEF Call, TypeOK
  <2>5. done' \subseteq 1 .. calls' /\ calls + 1 \notin done
    BY <2>1, <2>4 DEF CallInv
  <2>6. \A q \in Ingesters : pc'[q] # "idle" => call'[q] \in 1 .. calls' /\ call'[q] \notin done'
    BY <2>1, <2>2, <2>3, <2>4, <2>5 DEF CallInv
  <2>7. \A q, r \in Ingesters :
          pc'[q] # "idle" /\ pc'[r] # "idle" /\ call'[q] = call'[r] => q = r
    BY <2>1, <2>2, <2>3 DEF CallInv
  <2> QED
    BY <2>4, <2>5, <2>6, <2>7 DEF CallInv
<1>2. ASSUME NEW p \in Ingesters, Finish(p), pc[p] # "idle", UNCHANGED <<calls, before>>
      PROVE  CallInv'
  <2>1. call[p] \in 1 .. calls
    BY <1>2 DEF CallInv
  <2>2. done' = done \cup {call[p]}
    BY <1>2, FinishEffect
  <2>3. \A q \in Ingesters : pc'[q] # "idle" => q # p /\ pc[q] # "idle" /\ call'[q] = call[q]
    BY <1>2, FinishEffect
  <2>4. \A q \in Ingesters : pc'[q] # "idle" => call'[q] \in 1 .. calls /\ call'[q] \notin done'
    BY <1>2, <2>2, <2>3 DEF CallInv
  <2>5. \A q, r \in Ingesters :
          pc'[q] # "idle" /\ pc'[r] # "idle" /\ call'[q] = call'[r] => q = r
    BY <2>3 DEF CallInv
  <2> QED
    BY <1>2, <2>1, <2>2, <2>4, <2>5 DEF CallInv
<1>3. ASSUME NEW p \in Ingesters, Dispatch(p) PROVE CallInv'
  <2>1. pc[p] = "dispatch" /\ UNCHANGED <<calls, before>>
    BY <1>3 DEF Dispatch
  <2>2. CASE Finish(p)
    BY <1>2, <2>1, <2>2
  <2>3. CASE pc' = [pc EXCEPT ![p] = "publish"] /\ UNCHANGED <<call, req, done>>
    <3>1. \A q \in Ingesters : pc'[q] # "idle" => pc[q] # "idle"
      BY <2>1, <2>3 DEF TypeOK
    <3> QED
      BY <2>1, <2>3, <3>1 DEF CallInv
  <2> QED
    BY <1>3, <2>2, <2>3, DispatchEnds
<1>4. ASSUME NEW p \in Ingesters, Publish(p) PROVE CallInv'
  <2>1. \A q \in Ingesters : pc'[q] # "idle" => pc[q] # "idle"
    BY <1>4 DEF Publish, TypeOK
  <2> QED
    BY <1>4, <2>1 DEF Publish, histVars, CallInv
<1>5. ASSUME NEW p \in Ingesters, PublishClosed(p) \/ Return(p) PROVE CallInv'
  BY <1>2, <1>5 DEF PublishClosed, Return
<1>6. CASE UNCHANGED <<log, ingestVars, histVars>>
  BY <1>6 DEF ingestVars, histVars, CallInv
<1> QED
  BY <1>1, <1>3, <1>4, <1>5, <1>6, IngestStep

\* What is carried is the decision, also while others decide.
LEMMA EventStep == TypeOK /\ CallInv /\ EventInv /\ [Next]_vars => EventInv'
<1> SUFFICES ASSUME TypeOK, CallInv, EventInv, [Next]_vars PROVE EventInv'
  OBVIOUS
<1> USE DEF Carrying
<1>1. ASSUME NEW p \in Ingesters, NEW payload \in Payloads, Call(p, payload) PROVE EventInv'
  <2>1. \A q \in Ingesters : pc'[q] \in Carrying => pc'[q] = pc[q] /\ call'[q] = call[q]
    BY <1>1 DEF Call, TypeOK
  <2> QED
    BY <1>1, <2>1 DEF Call, EventInv
<1>2. ASSUME NEW p \in Ingesters, Finish(p), UNCHANGED decided PROVE EventInv'
  BY <1>2, FinishEffect DEF EventInv
<1>3. ASSUME NEW p \in Ingesters, Dispatch(p) PROVE EventInv'
  <2>1. pc[p] = "dispatch"
    BY <1>3 DEF Dispatch
  <2>2. CASE Finish(p) /\ UNCHANGED decided
    BY <1>2, <2>2
  <2>3. CASE ~(Finish(p) /\ UNCHANGED decided)
    <3>1. /\ Emits(sessions[req[p].session], req[p].sig)
          /\ ev' = [ev EXCEPT ![p] = Decision(p)]
          /\ decided' = Append(decided, Decision(p))
          /\ pc' = [pc EXCEPT ![p] = "publish"]
          /\ UNCHANGED call
      BY <1>3, <2>3, DispatchEnds
    <3>2. Decision(p) \in Decisions /\ Decision(p).id = call[p]
      BY <2>1, <3>1, DecisionType DEF Decision
    <3>3. decided \in Seq(Decisions)
      BY DEF TypeOK
    <3>4. /\ Len(decided) \in Nat /\ Len(decided') = Len(decided) + 1
          /\ \A j \in 1 .. Len(decided) : decided'[j] = decided[j]
          /\ decided'[Len(decided) + 1] = Decision(p)
      BY <3>1, <3>2, <3>3, Appended
    <3>5. \A q \in Ingesters : pc'[q] = (IF q = p THEN "publish" ELSE pc[q])
                            /\ ev'[q] = (IF q = p THEN Decision(p) ELSE ev[q])
      BY <3>1 DEF TypeOK
    <3>6. ASSUME NEW q \in Ingesters, pc'[q] \in Carrying
          PROVE  /\ ev'[q] \in Decisions /\ ev'[q].id = call'[q]
                 /\ \E j \in 1 .. Len(decided') : ev'[q] = decided'[j]
      <4>1. CASE q = p
        <5>1. Len(decided) + 1 \in 1 .. Len(decided')
          BY <3>4
        <5> QED
          BY <3>1, <3>2, <3>4, <3>5, <4>1, <5>1
      <4>2. CASE q # p
        <5>1. PICK j \in 1 .. Len(decided) : ev[q] = decided[j]
          BY <3>5, <3>6, <4>2 DEF EventInv
        <5>2. j \in 1 .. Len(decided') /\ decided'[j] = decided[j]
          BY <3>4
        <5> QED
          BY <3>1, <3>5, <3>6, <4>2, <5>1, <5>2 DEF EventInv
      <4> QED
        BY <4>1, <4>2
    <3> QED
      BY <3>6 DEF EventInv
  <2> QED
    BY <2>2, <2>3
<1>4. ASSUME NEW p \in Ingesters, Publish(p) PROVE EventInv'
  <2>1. \A q \in Ingesters : pc'[q] \in Carrying => pc[q] \in Carrying
    BY <1>4 DEF Publish, TypeOK
  <2> QED
    BY <1>4, <2>1 DEF Publish, histVars, EventInv
<1>5. ASSUME NEW p \in Ingesters, PublishClosed(p) \/ Return(p) PROVE EventInv'
  BY <1>2, <1>5 DEF PublishClosed, Return
<1>6. CASE UNCHANGED <<log, ingestVars, histVars>>
  BY <1>6 DEF ingestVars, histVars, EventInv
<1> QED
  BY <1>1, <1>3, <1>4, <1>5, <1>6, IngestStep

\* A call decides at most once, and holds on to its decision until it returns.
LEMMA DecidedStep == TypeOK /\ CallInv /\ DecidedInv /\ [Next]_vars => DecidedInv'
<1> SUFFICES ASSUME TypeOK, CallInv, DecidedInv, [Next]_vars PROVE DecidedInv'
  OBVIOUS
<1> USE DEF Carrying
<1>1. ASSUME NEW p \in Ingesters, NEW payload \in Payloads, Call(p, payload) PROVE DecidedInv'
  <2>1. \A q \in Ingesters : pc[q] \in Carrying => pc'[q] = pc[q] /\ call'[q] = call[q]
    BY <1>1 DEF Call, TypeOK
  <2> QED
    BY <1>1, <2>1 DEF Call, DecidedInv
<1>2. ASSUME NEW p \in Ingesters, Finish(p), UNCHANGED decided PROVE DecidedInv'
  BY <1>2, FinishEffect DEF DecidedInv
<1>3. ASSUME NEW p \in Ingesters, Dispatch(p) PROVE DecidedInv'
  <2>1. pc[p] = "dispatch"
    BY <1>3 DEF Dispatch
  <2>2. CASE Finish(p) /\ UNCHANGED decided
    BY <1>2, <2>2
  <2>3. CASE ~(Finish(p) /\ UNCHANGED decided)
    <3>1. /\ Emits(sessions[req[p].session], req[p].sig)
          /\ decided' = Append(decided, Decision(p))
          /\ pc' = [pc EXCEPT ![p] = "publish"]
          /\ UNCHANGED <<call, done>>
      BY <1>3, <2>3, DispatchEnds
    <3>2. Decision(p) \in Decisions /\ Decision(p).id = call[p]
      BY <2>1, <3>1, DecisionType DEF Decision
    <3>3. decided \in Seq(Decisions)
      BY DEF TypeOK
    <3>4. /\ Len(decided) \in Nat /\ Len(decided') = Len(decided) + 1
          /\ \A j \in 1 .. Len(decided) : decided'[j] = decided[j]
          /\ decided'[Len(decided) + 1] = Decision(p)
      BY <3>1, <3>2, <3>3, Appended
    <3>5. \A q \in Ingesters : pc'[q] = (IF q = p THEN "publish" ELSE pc[q])
      BY <3>1 DEF TypeOK
    <3>6. \A j \in 1 .. Len(decided) : decided[j].id # call[p]
      BY <2>1 DEF DecidedInv, CallInv
    <3>7. ASSUME NEW j \in 1 .. Len(decided')
          PROVE  decided'[j].id \in done'
                 \/ \E q \in Ingesters : pc'[q] \in Carrying /\ call'[q] = decided'[j].id
      <4>1. CASE j = Len(decided) + 1
        BY <3>1, <3>2, <3>4, <3>5, <4>1
      <4>2. CASE j \in 1 .. Len(decided)
        BY <2>1, <3>1, <3>4, <3>5, <4>2 DEF DecidedInv
      <4> QED
        BY <3>4, <4>1, <4>2
    <3>8. ASSUME NEW i \in 1 .. Len(decided'), NEW j \in 1 .. Len(decided'),
                 decided'[i].id = decided'[j].id
          PROVE  i = j
      BY <3>2, <3>4, <3>6, <3>8 DEF DecidedInv
    <3> QED
      BY <3>7, <3>8 DEF DecidedInv
  <2> QED
    BY <2>2, <2>3
<1>4. ASSUME NEW p \in Ingesters, Publish(p) PROVE DecidedInv'
  <2>1. \A q \in Ingesters : pc[q] \in Carrying => pc'[q] \in Carrying
    BY <1>4 DEF Publish, TypeOK
  <2> QED
    BY <1>4, <2>1 DEF Publish, histVars, DecidedInv
<1>5. ASSUME NEW p \in Ingesters, PublishClosed(p) \/ Return(p) PROVE DecidedInv'
  BY <1>2, <1>5 DEF PublishClosed, Return
<1>6. CASE UNCHANGED <<log, ingestVars, histVars>>
  BY <1>6 DEF ingestVars, histVars, DecidedInv
<1> QED
  BY <1>1, <1>3, <1>4, <1>5, <1>6, IngestStep

-----------------------------------------------------------------------------
\* The log.

\* What Publish adds to the log.
LEMMA PublishEffect ==
  ASSUME TypeOK, EventInv, NEW p \in Ingesters, Publish(p)
  PROVE  /\ pc[p] = "publish" /\ BMuFree
         /\ pc' = [q \in Ingesters |-> IF q = p THEN "offer" ELSE pc[q]]
         /\ UNCHANGED <<call, ev, histVars>>
         /\ Len(log) \in Nat /\ Len(log') = Len(log) + 1
         /\ \A i \in 1 .. Len(log) : log'[i] = log[i]
         /\ log'[Len(log) + 1] = Event(p)
         /\ Event(p).id = call[p]
<1>1. Event(p) \in Decisions /\ Event(p).id = call[p]
  BY EventType DEF Publish, EventInv, Carrying
<1>2. log \in Seq(Decisions) /\ log' = Append(log, Event(p))
  BY DEF TypeOK, Publish
<1>3. /\ Len(log) \in Nat /\ Len(log') = Len(log) + 1
      /\ \A i \in 1 .. Len(log) : log'[i] = log[i]
      /\ log'[Len(log) + 1] = Event(p)
  BY <1>1, <1>2, Appended
<1> QED
  BY <1>1, <1>3 DEF Publish, TypeOK

\* Whatever is in the log before a Publish is of a call that returned.
LEMMA LoggedDone ==
  ASSUME LogInv, BMuFree, NEW i \in 1 .. Len(log)
  PROVE  log[i].id \in done
  BY DEF LogInv, BMuFree

\* b.mu is held by one goroutine, and its Event is the newest.
LEMMA LogStep == TypeOK /\ CallInv /\ EventInv /\ LogInv /\ [Next]_vars => LogInv'
<1> SUFFICES ASSUME TypeOK, CallInv, EventInv, LogInv, [Next]_vars PROVE LogInv'
  OBVIOUS
<1>1. ASSUME NEW p \in Ingesters, NEW payload \in Payloads, Call(p, payload) PROVE LogInv'
  <2>1. \A q \in Ingesters :
          (pc'[q] = "offer" <=> pc[q] = "offer") /\ (pc[q] = "offer" => call'[q] = call[q])
    BY <1>1 DEF Call, TypeOK
  <2> QED
    BY <1>1, <2>1 DEF Call, LogInv
<1>2. ASSUME NEW p \in Ingesters, Finish(p), UNCHANGED log PROVE LogInv'
  BY <1>2, FinishEffect DEF LogInv
<1>3. ASSUME NEW p \in Ingesters, Dispatch(p) PROVE LogInv'
  <2>1. UNCHANGED log /\ pc[p] = "dispatch"
    BY <1>3 DEF Dispatch
  <2>2. CASE Finish(p)
    BY <1>2, <2>1, <2>2
  <2>3. CASE pc' = [pc EXCEPT ![p] = "publish"] /\ UNCHANGED <<call, done>>
    <3>1. \A q \in Ingesters : pc'[q] = "offer" <=> pc[q] = "offer"
      BY <2>1, <2>3 DEF TypeOK
    <3> QED
      BY <2>1, <2>3, <3>1 DEF LogInv
  <2> QED
    BY <1>3, <2>2, <2>3, DispatchEnds
<1>4. ASSUME NEW p \in Ingesters, Publish(p) PROVE LogInv'
  <2>1. \A q, r \in Ingesters : pc'[q] = "offer" /\ pc'[r] = "offer" => q = r
    BY <1>4, PublishEffect DEF BMuFree
  <2>2. ASSUME NEW i \in 1 .. Len(log')
        PROVE  log'[i].id \in done' \/ \E q \in Ingesters : pc'[q] = "offer" /\ call'[q] = log'[i].id
    <3>1. CASE i = Len(log) + 1
      BY <1>4, <3>1, PublishEffect
    <3>2. CASE i \in 1 .. Len(log)
      BY <1>4, <3>2, PublishEffect, LoggedDone DEF histVars
    <3>3. Len(log) \in Nat /\ Len(log') = Len(log) + 1
      BY <1>4, PublishEffect
    <3> QED
      BY <3>1, <3>2, <3>3
  <2> QED
    BY <2>1, <2>2 DEF LogInv
<1>5. ASSUME NEW p \in Ingesters, PublishClosed(p) \/ Return(p) PROVE LogInv'
  BY <1>2, <1>5 DEF PublishClosed, Return
<1>6. CASE UNCHANGED <<log, ingestVars, histVars>>
  BY <1>6 DEF ingestVars, histVars, LogInv
<1> QED
  BY <1>1, <1>3, <1>4, <1>5, <1>6, IngestStep

\* Calls that do not overlap are logged in their order.
LEMMA RealTimeStep ==
  TypeOK /\ CallInv /\ EventInv /\ LogInv /\ RealTimeOrder /\ [Next]_vars => RealTimeOrder'
<1> SUFFICES ASSUME TypeOK, CallInv, EventInv, LogInv, RealTimeOrder, [Next]_vars
             PROVE  RealTimeOrder'
  OBVIOUS
<1>1. ASSUME NEW p \in Ingesters, NEW payload \in Payloads, Call(p, payload) PROVE RealTimeOrder'
  <2>1. \A i \in 1 .. Len(log) : log[i].id \in 1 .. calls
    BY DEF LogInv, CallInv
  <2>2. calls \in Nat /\ log \in Seq(Decisions)
    BY HubAssumption DEF TypeOK, CallIds
  <2>3. \A i \in 1 .. Len(log) : before'[log[i].id] = before[log[i].id]
    BY <1>1, <2>1, <2>2 DEF Call, TypeOK
  <2> QED
    BY <1>1, <2>3 DEF Call, RealTimeOrder
<1>2. ASSUME NEW p \in Ingesters, Publish(p) PROVE RealTimeOrder'
  <2> SUFFICES ASSUME NEW i \in 1 .. Len(log'), NEW j \in 1 .. Len(log'), i < j
               PROVE  log'[j].id \notin before[log'[i].id]
    BY <1>2, PublishEffect DEF RealTimeOrder, histVars
  <2>0. Len(log) \in Nat /\ Len(log') = Len(log) + 1
    BY <1>2, PublishEffect
  <2>1. i \in 1 .. Len(log) /\ log'[i] = log[i]
    <3>1. i \in 1 .. Len(log)
      BY <2>0
    <3> QED
      BY <1>2, <3>1, PublishEffect
  <2>2. CASE j = Len(log) + 1
    <3>1. call[p] \notin done
      BY <1>2, PublishEffect DEF CallInv
    <3>2. log[i].id \in CallIds
      <4>1. log[i] \in Decisions
        BY <2>1, ElementOfSeq DEF TypeOK
      <4> QED
        BY <4>1 DEF Decisions
    <3>3. before[log[i].id] \subseteq done
      BY <3>2 DEF CallInv
    <3> QED
      BY <1>2, <2>1, <2>2, <3>1, <3>3, PublishEffect
  <2>3. CASE j \in 1 .. Len(log)
    BY <1>2, <2>1, <2>3, PublishEffect DEF RealTimeOrder
  <2> QED
    BY <2>0, <2>2, <2>3
<1>3. ASSUME UNCHANGED <<log, before>> PROVE RealTimeOrder'
  BY <1>3 DEF RealTimeOrder
<1> QED
  BY <1>1, <1>2, <1>3, IngestStep DEF Dispatch, PublishClosed, Return, ingestVars, histVars

\* A step adds to the decisions and leaves those taken alone.
LEMMA DecidedGrows ==
  ASSUME TypeOK, CallInv, [Next]_vars
  PROVE  /\ Len(decided) \in Nat /\ Len(decided') \in Nat /\ Len(decided) <= Len(decided')
         /\ \A j \in 1 .. Len(decided) : decided'[j] = decided[j]
<1>1. decided \in Seq(Decisions) /\ Len(decided) \in Nat
  BY LenProperties DEF TypeOK
<1>2. CASE UNCHANGED decided
  BY <1>1, <1>2
<1>3. ASSUME NEW p \in Ingesters, Dispatch(p), decided' # decided PROVE decided' = Append(decided, Decision(p)) /\ Decision(p) \in Decisions
  BY <1>3, DispatchEnds, DecisionType DEF Dispatch
<1> QED
  BY <1>1, <1>2, <1>3, Appended, DispatchStep

\* No Event is published twice: its call is not over when it is.
LEMMA OnceStep ==
  TypeOK /\ CallInv /\ EventInv /\ LogInv /\ PublishedOnce /\ [Next]_vars => PublishedOnce'
<1> SUFFICES ASSUME TypeOK, CallInv, EventInv, LogInv, PublishedOnce, [Next]_vars
             PROVE  PublishedOnce'
  OBVIOUS
<1>1. ASSUME NEW p \in Ingesters, Publish(p) PROVE PublishedOnce'
  <2>1. Len(log) \in Nat /\ Len(log') = Len(log) + 1
    BY <1>1, PublishEffect
  <2>2. \A i \in 1 .. Len(log) : log'[i] = log[i] /\ log'[i].id # call[p]
    BY <1>1, PublishEffect, LoggedDone DEF CallInv
  <2>3. log'[Len(log) + 1].id = call[p]
    BY <1>1, PublishEffect
  <2> QED
    BY <2>1, <2>2, <2>3 DEF PublishedOnce
<1>2. CASE UNCHANGED log
  BY <1>2 DEF PublishedOnce
<1> QED
  BY <1>1, <1>2, IngestStep DEF Call, Dispatch, PublishClosed, Return

\* What is published is what was decided under the lock.
LEMMA FaithfulStep ==
  TypeOK /\ CallInv /\ EventInv /\ PublishedFaithfully /\ [Next]_vars => PublishedFaithfully'
<1> SUFFICES ASSUME TypeOK, CallInv, EventInv, PublishedFaithfully, [Next]_vars
             PROVE  PublishedFaithfully'
  OBVIOUS
<1>1. \A j \in 1 .. Len(decided) : j \in 1 .. Len(decided') /\ decided'[j] = decided[j]
  BY DecidedGrows
<1>2. ASSUME NEW p \in Ingesters, Publish(p) PROVE PublishedFaithfully'
  <2>1. Len(log) \in Nat /\ Len(log') = Len(log) + 1
    BY <1>2, PublishEffect
  <2>2. PICK j \in 1 .. Len(decided) : ev[p] = decided[j]
    BY <1>2 DEF Publish, EventInv, Carrying
  <2>3. log'[Len(log) + 1] = Normalized(decided'[j]) /\ j \in 1 .. Len(decided')
    BY <1>1, <1>2, <2>2, PublishEffect DEF Event, Normalized
  <2>4. \A i \in 1 .. Len(log) : log'[i] = log[i]
    BY <1>2, PublishEffect
  <2>5. \A i \in 1 .. Len(log) : \E k \in 1 .. Len(decided') : log'[i] = Normalized(decided'[k])
    BY <1>1, <2>4 DEF PublishedFaithfully
  <2>6. \A i \in 1 .. Len(log') : i \in 1 .. Len(log) \/ i = Len(log) + 1
    BY <2>1
  <2> QED
    BY <2>3, <2>5, <2>6 DEF PublishedFaithfully
<1>3. CASE UNCHANGED log
  BY <1>1, <1>3 DEF PublishedFaithfully
<1> QED
  BY <1>2, <1>3, IngestStep DEF Call, Dispatch, PublishClosed, Return

\* Nothing that was decided gets lost while the broadcaster is open.
LEMMA NoneMissingStep ==
  TypeOK /\ CallInv /\ EventInv /\ NoneMissing /\ [Next]_vars => NoneMissing'
<1> SUFFICES ASSUME TypeOK, CallInv, EventInv, NoneMissing, [Next]_vars, open'
             PROVE  \A j \in 1 .. Len(decided') : InLogOrFlight(decided[j].id)'
  BY DEF NoneMissing
<1>1. open /\ \A j \in 1 .. Len(decided) : InLogOrFlight(decided[j].id)
  BY ClosedStep DEF NoneMissing
<1> DEFINE Kept == \A id : InLogOrFlight(id) => InLogOrFlight(id)'
<1>2. Kept /\ UNCHANGED decided => \A j \in 1 .. Len(decided') : InLogOrFlight(decided[j].id)'
  <2> SUFFICES ASSUME Kept, UNCHANGED decided, NEW j \in 1 .. Len(decided')
               PROVE  InLogOrFlight(decided[j].id)'
    OBVIOUS
  <2>1. decided'[j] = decided[j] /\ InLogOrFlight(decided[j].id)
    BY <1>1
  <2> QED
    BY <2>1 DEF InLogOrFlight
<1>3. ASSUME NEW p \in Ingesters, NEW payload \in Payloads, Call(p, payload)
      PROVE  Kept /\ UNCHANGED decided
  <2>1. \A q \in Ingesters : pc[q] = "publish" => pc'[q] = "publish"
    BY <1>3 DEF Call, TypeOK
  <2> QED
    BY <1>3, <2>1 DEF Call, InLogOrFlight
<1>4. ASSUME NEW p \in Ingesters, Finish(p), pc[p] # "publish", UNCHANGED log
      PROVE  Kept
  BY <1>4, FinishEffect DEF InLogOrFlight
<1>5. ASSUME NEW p \in Ingesters, Dispatch(p)
      PROVE  \A j \in 1 .. Len(decided') : InLogOrFlight(decided[j].id)'
  <2>1. pc[p] = "dispatch" /\ UNCHANGED log
    BY <1>5 DEF Dispatch
  <2>2. CASE Finish(p) /\ UNCHANGED decided
    BY <1>2, <1>4, <2>1, <2>2
  <2>3. CASE ~(Finish(p) /\ UNCHANGED decided)
    <3>1. /\ Emits(sessions[req[p].session], req[p].sig)
          /\ ev' = [ev EXCEPT ![p] = Decision(p)]
          /\ decided' = Append(decided, Decision(p))
          /\ pc' = [pc EXCEPT ![p] = "publish"]
      BY <1>5, <2>3, DispatchEnds
    <3>2. Decision(p) \in Decisions /\ decided \in Seq(Decisions)
      BY <2>1, <3>1, DecisionType DEF TypeOK
    <3>3. /\ Len(decided) \in Nat /\ Len(decided') = Len(decided) + 1
          /\ \A j \in 1 .. Len(decided) : decided'[j] = decided[j]
          /\ decided'[Len(decided) + 1] = Decision(p)
      BY <3>1, <3>2, Appended
    <3>4. \A q \in Ingesters : pc'[q] = (IF q = p THEN "publish" ELSE pc[q])
                            /\ ev'[q] = (IF q = p THEN Decision(p) ELSE ev[q])
      BY <3>1 DEF TypeOK
    <3>5. Kept
      BY <2>1, <3>4 DEF InLogOrFlight
    <3>6. ASSUME NEW j \in 1 .. Len(decided') PROVE InLogOrFlight(decided[j].id)'
      <4>1. CASE j = Len(decided) + 1
        <5>1. decided'[j] = Decision(p)
          <6>1. decided'[Len(decided) + 1] = Decision(p)
            BY <3>3
          <6> QED
            BY <4>1, <6>1
        <5>2. ev'[p] = Decision(p) /\ pc'[p] = "publish"
          BY <3>4
        <5> QED
          BY <5>1, <5>2 DEF InLogOrFlight
      <4>2. CASE j \in 1 .. Len(decided)
        <5>1. decided'[j] = decided[j] /\ InLogOrFlight(decided[j].id)
          BY <1>1, <3>3, <4>2
        <5>2. PICK id : id = decided[j].id
          OBVIOUS
        <5>3. InLogOrFlight(id)'
          BY <3>5, <5>1, <5>2
        <5>4. decided'[j].id = id
          BY <5>1, <5>2
        <5> QED
          BY <5>3, <5>4 DEF InLogOrFlight
      <4> QED
        BY <3>3, <4>1, <4>2
    <3> QED
      BY <3>6
  <2> QED
    BY <2>2, <2>3
<1>6. ASSUME NEW p \in Ingesters, Publish(p) PROVE Kept /\ UNCHANGED decided
  <2>1. Len(log) \in Nat /\ Len(log') = Len(log) + 1
    BY <1>6, PublishEffect
  <2>2. \A i \in 1 .. Len(log) : i \in 1 .. Len(log') /\ log'[i] = log[i]
    BY <1>6, <2>1, PublishEffect
  <2>3. Len(log) + 1 \in 1 .. Len(log') /\ log'[Len(log) + 1].id = ev[p].id
    BY <1>6, <2>1, PublishEffect DEF EventInv, Carrying
  <2>4. \A q \in Ingesters : q # p /\ pc[q] = "publish" => pc'[q] = "publish" /\ ev'[q] = ev[q]
    BY <1>6, PublishEffect
  <2> QED
    BY <1>6, <2>2, <2>3, <2>4 DEF Publish, histVars, InLogOrFlight
<1>7. ASSUME NEW p \in Ingesters, PublishClosed(p) \/ Return(p) PROVE Kept /\ UNCHANGED decided
  BY <1>1, <1>4, <1>7 DEF PublishClosed, Return
<1>8. CASE UNCHANGED <<log, ingestVars, histVars>>
  BY <1>2, <1>8 DEF ingestVars, histVars, InLogOrFlight
<1> QED
  BY <1>2, <1>3, <1>5, <1>6, <1>7, <1>8, IngestStep

-----------------------------------------------------------------------------
\* The chain of decisions.

\* What the first decisions of a session led to does not change when more are taken.
LEMMA LeftInKept ==
  ASSUME NEW n \in Nat, NEW m \in 0 .. n, \A i \in 1 .. n : decided'[i] = decided[i],
         NEW state, NEW s, LeftIn(state, s, m)
  PROVE  LeftIn(state, s, m)'
<1>1. \A i \in 1 .. m : decided'[i] = decided[i]
  OBVIOUS
<1>2. (OfSession(decided, s, m))' = OfSession(decided, s, m)
  BY <1>1 DEF OfSession
<1>3. \A i : IsLast(i, decided, s, m) => IsLast(i, decided', s, m)
  BY <1>2 DEF IsLast
<1> QED
  BY <1>1, <1>2, <1>3 DEF LeftIn, Outcome

\* Each decision starts where the one before it left the session.
LEMMA ChainStep == TypeOK /\ CallInv /\ DecisionChain /\ [Next]_vars => DecisionChain'
<1> SUFFICES ASSUME TypeOK, CallInv, DecisionChain, [Next]_vars PROVE DecisionChain'
  OBVIOUS
<1>1. CASE UNCHANGED <<sessions, decided>>
  BY <1>1 DEF DecisionChain, LeftIn, OfSession, IsLast
<1>2. ASSUME NEW p \in Ingesters, Dispatch(p), ~UNCHANGED <<sessions, decided>>
      PROVE  DecisionChain'
  <2> DEFINE s == req[p].session
             sig == req[p].sig
  <2>0. PICK n \in Nat : n = Len(decided)
    BY LenProperties DEF TypeOK
  <2>1. /\ pc[p] = "dispatch" /\ Emits(sessions[s], sig)
        /\ sessions' = [sessions EXCEPT ![s] = NextState(@, sig)]
        /\ decided' = Append(decided, Decision(p))
    BY <1>2 DEF Dispatch, NextState, TypeOK
  <2>2. s \in Sessions /\ sig \in Signals /\ sessions[s] \in SessionStates
    BY <2>1, HubAssumption DEF TypeOK
  <2>3. Decision(p) \in Decisions /\ decided \in Seq(Decisions)
    BY <2>1, DecisionType DEF TypeOK
  <2>4. /\ n \in Nat /\ Len(decided') = n + 1
        /\ \A i \in 1 .. n : decided'[i] = decided[i]
        /\ decided'[n + 1] = Decision(p)
    BY <2>0, <2>1, <2>3, Appended
  <2>5. /\ Decision(p).session = s
        /\ Decision(p).prev = sessions[s].status
        /\ Outcome(Decision(p)) = NextState(sessions[s], sig)
        /\ NextState(sessions[s], sig) # sessions[s]
    BY <2>1, <2>2, TransitionOutcome DEF Decision, Outcome
  <2>6. ASSUME NEW t \in Sessions PROVE LeftIn(sessions[t], t, Len(decided))'
    <3>1. CASE t = s
      <4>1. sessions'[t] = Outcome(decided'[n + 1])
        BY <2>1, <2>2, <2>4, <2>5, <3>1 DEF TypeOK
      <4>2. IsLast(n + 1, decided', t, n + 1)
        BY <2>4, <2>5, <3>1 DEF IsLast, OfSession
      <4>3. n + 1 \in 1 .. n + 1
        BY <2>4
      <4> QED
        BY <2>4, <4>1, <4>2, <4>3 DEF LeftIn
    <3>2. CASE t # s
      <4>1. sessions'[t] = sessions[t]
        BY <2>1, <2>2, <3>2 DEF TypeOK
      <4>2. OfSession(decided', t, n + 1) = OfSession(decided, t, n)
        BY <2>4, <2>5, <3>2 DEF OfSession
      <4>3. LeftIn(sessions[t], t, n)
        BY <2>0 DEF DecisionChain
      <4>4. CASE OfSession(decided, t, n) = {} /\ sessions[t] = FreshSession
        BY <2>4, <4>1, <4>2, <4>4 DEF LeftIn
      <4>5. ASSUME NEW i \in 1 .. n, IsLast(i, decided, t, n), sessions[t] = Outcome(decided[i])
            PROVE  LeftIn(sessions[t], t, Len(decided))'
        <5>1. i \in 1 .. n + 1 /\ decided'[i] = decided[i]
          BY <2>4
        <5>2. IsLast(i, decided', t, n + 1)
          BY <4>2, <4>5 DEF IsLast
        <5> QED
          BY <2>4, <4>1, <4>5, <5>1, <5>2 DEF LeftIn
      <4> QED
        BY <4>3, <4>4, <4>5 DEF LeftIn
    <3> QED
      BY <3>1, <3>2
  <2>7. ASSUME NEW i \in 1 .. n + 1
        PROVE  \E earlier \in SessionStates :
                 /\ LeftIn(earlier, decided[i].session, i - 1)'
                 /\ decided'[i].prev = earlier.status
                 /\ Outcome(decided'[i]) # earlier
    <3>1. CASE i = n + 1
      <4>1. PICK e \in SessionStates : e = sessions[s]
        BY <2>2
      <4>2. PICK t \in Sessions : t = s
        BY <2>2
      <4>3. LeftIn(e, t, n)
        BY <2>0, <4>1, <4>2 DEF DecisionChain
      <4>4. LeftIn(e, t, n)'
        BY <2>4, <4>3, LeftInKept
      <4> QED
        BY <2>4, <2>5, <3>1, <4>1, <4>2, <4>4
    <3>2. CASE i \in 1 .. n
      <4>1. PICK e \in SessionStates : /\ LeftIn(e, decided[i].session, i - 1)
                                       /\ decided[i].prev = e.status
                                       /\ Outcome(decided[i]) # e
        BY <2>0, <3>2 DEF DecisionChain
      <4>2. PICK t : t = decided[i].session
        OBVIOUS
      <4>3. i - 1 \in 0 .. n
        BY <2>4, <3>2
      <4>4. LeftIn(e, t, i - 1)'
        BY <2>4, <4>1, <4>2, <4>3, LeftInKept
      <4> QED
        BY <2>4, <3>2, <4>1, <4>2, <4>4
    <3> QED
      BY <2>4, <3>1, <3>2
  <2> QED
    BY <2>4, <2>6, <2>7 DEF DecisionChain
<1> QED
  BY <1>1, <1>2, DispatchStep

-----------------------------------------------------------------------------
\* Close.

closingVars == <<hubClosed, open, closer, owed, sink>>

\* Goroutines in Ingest, consumers and tags have no part in the closing.
LEMMA ClosingStep ==
  ASSUME [Next]_vars
  PROVE  \/ UNCHANGED closingVars
         \/ \E k \in Sinks : Forwarder(k)
         \/ \E c \in Closers : Close(c) \/ CloseBroadcaster(c) \/ AwaitSinks(c)
<1>1. \A s : Window!Subscribe(s) \/ Window!Offer(s) \/ Window!Receive(s) => UNCHANGED open
  BY DEF Window!Subscribe, Window!Offer, Window!Receive
<1>2. Window!Publish => UNCHANGED open
  BY DEF Window!Publish
<1> QED
  BY <1>1, <1>2
  DEF Next, vars, closingVars, coreVars, bcastVars, sinkVars, closeVars, Ingest,
      RegisterSession, UnregisterSession, Offer, OpenStream, ReadStream, Events,
      Call, Dispatch, Publish, PublishClosed, Return

\* A forwarder's step: where it was and where it is then.
LEMMA ForwarderEffect ==
  ASSUME TypeOK, NEW k \in Sinks, Forwarder(k)
  PROVE  /\ UNCHANGED <<hubClosed, open, closer, owed>>
         /\ sink[k] # "done"
         /\ sink[k] \in Forwarding => sink'[k] \in Forwarding \cup {"done"}
         /\ sink'[k] = "done" => Exhausted(k)
         /\ \A j \in Sinks : j # k => sink'[j] = sink[j]
<1>1. \A s : Window!Subscribe(s) \/ Window!Receive(s) => UNCHANGED open
  BY DEF Window!Subscribe, Window!Receive
<1>2. UNCHANGED <<hubClosed, open, closer, owed>>
  BY <1>1
  DEF Forwarder, AttachSink, StartForwarder, Forward, SendReturns, StopForwarder, Events,
      coreVars, bcastVars, closeVars
<1>3. /\ sink[k] # "done"
      /\ sink[k] \in Forwarding => sink'[k] \in Forwarding \cup {"done"}
      /\ sink'[k] = "done" => Exhausted(k)
      /\ \A j \in Sinks : j # k => sink'[j] = sink[j]
  BY DEF TypeOK, Forwarding, Forwarder, AttachSink, StartForwarder, Forward, SendReturns, StopForwarder
<1> QED
  BY <1>2, <1>3

\* One caller closes; the others only see that it was done.
LEMMA CloseStep == TypeOK /\ CloseInv /\ SinkInv /\ [Next]_vars => CloseInv'
<1> SUFFICES ASSUME TypeOK, CloseInv, SinkInv, [Next]_vars PROVE CloseInv'
  OBVIOUS
<1>1. CASE UNCHANGED closingVars
  BY <1>1 DEF closingVars, CloseInv
<1>2. ASSUME NEW k \in Sinks, Forwarder(k) PROVE CloseInv'
  <2>1. UNCHANGED <<hubClosed, open, closer, owed>>
    BY <1>2, ForwarderEffect
  <2>2. \A j \in owed : /\ sink[j] = "done" => sink'[j] = "done"
                        /\ sink[j] \in Forwarding => sink'[j] \in {"done"} \cup Forwarding
    BY <1>2, ForwarderEffect DEF TypeOK
  <2> QED
    BY <2>1, <2>2 DEF CloseInv
<1>3. ASSUME NEW c \in Closers, Close(c) PROVE CloseInv'
  <2>1. closer[c] = "idle" /\ hubClosed' = TRUE /\ UNCHANGED <<open, sink>>
    BY <1>3 DEF Close, bcastVars, sinkVars
  <2>2. CASE hubClosed
    <3>1. \A d \in Closers : closer'[d] = IF d = c THEN "returned" ELSE closer[d]
      BY <1>3, <2>2 DEF Close, TypeOK
    <3>2. UNCHANGED owed
      BY <1>3, <2>2 DEF Close
    <3> QED
      BY <2>1, <2>2, <3>1, <3>2 DEF CloseInv
  <2>3. CASE ~hubClosed
    <3>1. \A d \in Closers : closer'[d] = IF d = c THEN "bcast" ELSE closer[d]
      BY <1>3, <2>3 DEF Close, TypeOK
    <3>2. owed' = {k \in Sinks : sink[k] \in Forwarding}
      BY <1>3, <2>3 DEF Close
    <3>3. open /\ \A d \in Closers : closer[d] = "idle"
      BY <2>3 DEF CloseInv
    <3> QED
      BY <2>1, <2>3, <3>1, <3>2, <3>3 DEF CloseInv
  <2> QED
    BY <2>2, <2>3
<1>4. ASSUME NEW c \in Closers, CloseBroadcaster(c) PROVE CloseInv'
  <2>1. /\ closer[c] = "bcast" /\ open' = FALSE /\ UNCHANGED <<hubClosed, owed, sink>>
        /\ \A d \in Closers : closer'[d] = IF d = c THEN "wait" ELSE closer[d]
    BY <1>4 DEF CloseBroadcaster, Window!CloseAll, TypeOK, coreVars, sinkVars
  <2> QED
    BY <2>1 DEF CloseInv
<1>5. ASSUME NEW c \in Closers, AwaitSinks(c) PROVE CloseInv'
  <2>1. /\ closer[c] = "wait" /\ WaitGroupZero /\ UNCHANGED <<hubClosed, open, owed, sink>>
        /\ \A d \in Closers : closer'[d] = IF d = c THEN "returned" ELSE closer[d]
    BY <1>5 DEF AwaitSinks, TypeOK, coreVars, bcastVars, sinkVars
  <2>2. \A k \in owed : sink[k] = "done"
    BY <2>1 DEF CloseInv, WaitGroupZero, TypeOK
  <2> QED
    BY <2>1, <2>2 DEF CloseInv
<1> QED
  BY <1>1, <1>2, <1>3, <1>4, <1>5, ClosingStep

\* A closed broadcaster fills no buffer, and a forwarder that stopped leaves nothing.
LEMMA SinkStep == TypeOK /\ CloseInv /\ SinkInv /\ [Next]_vars => SinkInv'
<1> SUFFICES ASSUME TypeOK, CloseInv, SinkInv, [Next]_vars PROVE SinkInv'
  OBVIOUS
<1>a. owed \subseteq Sinks /\ Sinks \subseteq Subs
  BY DEF TypeOK, Subs
<1>b. Window!WindowTypeOK
  BY DEF TypeOK
<1>1. ASSUME UNCHANGED <<bcastVars, sink, owed>> PROVE SinkInv'
  BY <1>1 DEF bcastVars, SinkInv
<1>2. ASSUME NEW p \in Ingesters, Publish(p) PROVE SinkInv'
  BY <1>2 DEF Publish, Window!Publish, sinkVars, closeVars, SinkInv
<1>3. ASSUME NEW p \in Ingesters, NEW s \in Subs, Offer(p, s) PROVE SinkInv'
  <2>1. open /\ UNCHANGED <<open, phase, sink, owed>>
    BY <1>3 DEF Offer, Window!Offer, sinkVars, closeVars, SinkInv
  <2> QED
    BY <2>1 DEF SinkInv
<1>4. ASSUME NEW s \in Subs, Window!Subscribe(s) PROVE open /\ UNCHANGED open /\ phase'[s] = "live"
                             /\ \A r \in Subs : r # s => phase'[r] = phase[r]
  BY <1>4, <1>b DEF Window!Subscribe, Window!WindowTypeOK
<1>5. ASSUME NEW s \in Subs, Window!Receive(s)
      PROVE  /\ UNCHANGED <<open, phase, hi, published>> /\ lo[s] < hi[s]
             /\ \A r \in Subs : r # s => lo'[r] = lo[r]
  BY <1>5, <1>b DEF Window!Receive, Window!WindowTypeOK
<1>6. ASSUME NEW s \in Streams, OpenStream(s) \/ ReadStream(s) PROVE SinkInv'
  <2>1. s \in Subs /\ s \notin Sinks /\ UNCHANGED <<sink, owed>>
    BY <1>6, HubAssumption DEF OpenStream, ReadStream, Subs, sinkVars, closeVars
  <2>2. CASE OpenStream(s)
    <3>1. open /\ UNCHANGED open /\ \A k \in Sinks : phase'[k] = phase[k]
      BY <1>4, <1>a, <2>1, <2>2 DEF OpenStream, Events
    <3> QED
      BY <2>1, <3>1 DEF SinkInv
  <2>3. CASE ReadStream(s)
    <3>1. UNCHANGED <<open, phase, hi, published>> /\ \A k \in Sinks : lo'[k] = lo[k]
      BY <1>5, <1>a, <2>1, <2>3 DEF ReadStream
    <3> QED
      BY <2>1, <3>1 DEF SinkInv
  <2> QED
    BY <1>6, <2>2, <2>3
<1>7. ASSUME NEW k \in Sinks, Forwarder(k) PROVE SinkInv'
  <2>1. UNCHANGED <<open, owed>> /\ sink[k] # "done" /\ (\A j \in Sinks : j # k => sink'[j] = sink[j])
        /\ (sink'[k] = "done" => Exhausted(k))
    BY <1>7, ForwarderEffect
  <2>2. CASE AttachSink(k)
    <3>1. sink'[k] = "subscribed"
      BY <2>2 DEF AttachSink, TypeOK
    <3>2. CASE Events(k)
      <4>1. open /\ phase'[k] = "live" /\ \A j \in Sinks : j # k => phase'[j] = phase[j]
        BY <1>4, <1>a, <3>2 DEF Events
      <4> QED
        BY <2>1, <3>1, <4>1 DEF SinkInv
    <3>3. CASE ~open /\ UNCHANGED bcastVars
      BY <2>1, <3>1, <3>3 DEF SinkInv, bcastVars
    <3> QED
      BY <2>2, <3>2, <3>3 DEF AttachSink
  <2>3. CASE Forward(k)
    <3>1. sink[k] = "running" /\ sink'[k] = "sending" /\ Window!Receive(k)
      BY <2>3 DEF Forward, TypeOK
    <3>2. UNCHANGED <<open, phase, hi, published>> /\ \A j \in Sinks : j # k => lo'[j] = lo[j]
      BY <1>5, <1>a, <3>1
    <3> QED
      BY <2>1, <3>1, <3>2 DEF SinkInv
  <2>4. CASE StartForwarder(k) \/ SendReturns(k) \/ StopForwarder(k)
    <3>1. sink[k] # "unattached" /\ UNCHANGED bcastVars
      BY <2>4 DEF StartForwarder, SendReturns, StopForwarder
    <3> QED
      BY <2>1, <3>1 DEF SinkInv, bcastVars, Exhausted
  <2> QED
    BY <1>7, <2>2, <2>3, <2>4 DEF Forwarder
<1>8. ASSUME NEW c \in Closers, Close(c) PROVE SinkInv'
  <2>1. UNCHANGED <<bcastVars, sink>>
    BY <1>8 DEF Close, sinkVars
  <2>2. CASE hubClosed
    BY <1>1, <1>8, <2>1, <2>2 DEF Close
  <2>3. CASE ~hubClosed
    <3>1. open
      BY <2>3 DEF CloseInv
    <3> QED
      BY <2>1, <3>1 DEF SinkInv, bcastVars
  <2> QED
    BY <2>2, <2>3
<1>9. ASSUME NEW c \in Closers, CloseBroadcaster(c) PROVE SinkInv'
  <2>1. /\ Window!Settled /\ open /\ open' = FALSE /\ UNCHANGED <<sink, owed, lo, hi, published>>
        /\ phase' = [s \in Subs |-> IF s \in Window!Live THEN "detached" ELSE phase[s]]
    BY <1>9 DEF CloseBroadcaster, Window!CloseAll, sinkVars
  <2>2. \A s \in Subs : phase'[s] # "live"
    BY <2>1 DEF Window!Live
  <2>3. ASSUME NEW k \in owed PROVE hi[k] = published
    <3>1. sink[k] # "unattached"
      BY <1>a DEF CloseInv, Forwarding
    <3>2. k \in Window!Live
      BY <1>a, <2>1, <3>1 DEF SinkInv, Window!Live
    <3> QED
      BY <2>1, <3>2 DEF Window!Settled
  <2> QED
    BY <2>1, <2>2, <2>3 DEF SinkInv
<1>10. ASSUME NEW c \in Closers, AwaitSinks(c) PROVE SinkInv'
  BY <1>1, <1>10 DEF AwaitSinks, sinkVars
<1>11. CASE UNCHANGED <<bcastVars, sink, owed>>
  BY <1>1, <1>11
<1> QED
  BY <1>2, <1>3, <1>6, <1>7, <1>8, <1>9, <1>10, <1>11
  DEF Next, vars, Ingest, RegisterSession, UnregisterSession, Call, Dispatch, PublishClosed,
      Return, sinkVars, closeVars

-----------------------------------------------------------------------------
\* The theorems.

\* The inductive invariant holds at first ...
LEMMA IInvInit == Init => IInv
<1> SUFFICES ASSUME Init PROVE IInv
  OBVIOUS
<1>1. TypeOK
  BY TypeInit
<1>2. CallInv /\ EventInv /\ DecidedInv /\ LogInv /\ CloseInv
  BY DEF Init, Window!WindowInit, CallInv, EventInv, DecidedInv, LogInv, CloseInv, Carrying
<1>3. SinkInv
  BY DEF Init, Window!WindowInit, SinkInv
<1>4. PublishedOnce /\ PublishedFaithfully /\ NoneMissing /\ RealTimeOrder
  BY DEF Init, PublishedOnce, PublishedFaithfully, NoneMissing, RealTimeOrder
<1>5. DecisionChain
  BY DEF Init, DecisionChain, LeftIn, OfSession
<1> QED
  BY <1>1, <1>2, <1>3, <1>4, <1>5 DEF IInv

\* ... and every step keeps it.
LEMMA IInvStep == IInv /\ [Next]_vars => IInv'
  BY TypeStep, CallStep, EventStep, DecidedStep, LogStep, CloseStep, SinkStep, OnceStep,
     FaithfulStep, NoneMissingStep, ChainStep, RealTimeStep DEF IInv

\* The inductive invariant holds: whose call every decision is and where its event has got to,
\* who holds b.mu, how far Close is, and the chain of the decisions.
THEOREM Invariance == Spec => []IInv
  BY IInvInit, IInvStep, PTL DEF Spec

\* Every reachable state is well typed.
THEOREM TypeCorrect == Spec => []TypeOK
<1>1. IInv => TypeOK
  BY DEF IInv
<1> QED
  BY <1>1, Invariance, PTL

\* Whichever goroutines decide, the decisions on a session follow from one another.
THEOREM DecisionsChain == Spec => []DecisionChain
<1>1. IInv => DecisionChain
  BY DEF IInv
<1> QED
  BY <1>1, Invariance, PTL

\* Calls that do not overlap are published in their order.
THEOREM PublishedInRealTimeOrder == Spec => []RealTimeOrder
<1>1. IInv => RealTimeOrder
  BY DEF IInv
<1> QED
  BY <1>1, Invariance, PTL

\* An Event is published at most once and as decided, and none gets lost before the close.
THEOREM PublishedOnceAsDecided == Spec => []PublishedAsDecided
<1>1. IInv => PublishedAsDecided
  <2> SUFFICES ASSUME IInv PROVE PublishedAsDecided
    OBVIOUS
  <2>1. \A i, j \in 1 .. Len(log) : log[i].id = log[j].id => i = j
    BY DEF IInv, PublishedOnce
  <2>2. \A i \in 1 .. Len(log) : \E j \in 1 .. Len(decided) :
          log[i] = [decided[j] EXCEPT !.tool = NormalizeToolName(@)]
    BY DEF IInv, PublishedFaithfully, Normalized
  <2>3. open => \A j \in 1 .. Len(decided) :
          decided[j].id \in {log[i].id : i \in 1 .. Len(log)} \cup InFlight
    BY DEF IInv, NoneMissing, InLogOrFlight, InFlight
  <2> QED
    BY <2>1, <2>2, <2>3 DEF PublishedAsDecided
<1> QED
  BY <1>1, Invariance, PTL

\* Once all calls have returned, the subscribers' last word on a session is its state,
\* if the call that decided it overlapped no earlier one.
THEOREM LastWordStands == Spec => []LastWord
<1>1. IInv => LastWord
  <2> SUFFICES ASSUME IInv, NEW s \in Sessions, NEW i \in 1 .. Len(decided),
                      open, \A p \in Ingesters : pc[p] = "idle",
                      IsLast(i, decided, s, Len(decided)),
                      \A j \in OfSession(decided, s, i - 1) :
                        decided[j].id \in before[decided[i].id]
               PROVE  \E k \in 1 .. Len(log) :
                        IsLast(k, log, s, Len(log)) /\ log[k].status = sessions[s].status
    BY DEF LastWord
  <2>1. decided \in Seq(Decisions) /\ log \in Seq(Decisions)
        /\ Len(decided) \in Nat /\ Len(log) \in Nat
    BY LenProperties DEF IInv, TypeOK
  <2>2. sessions[s] = Outcome(decided[i])
    <3>1. LeftIn(sessions[s], s, Len(decided))
      BY DEF IInv, DecisionChain
    <3>2. \A j \in 1 .. Len(decided) : IsLast(j, decided, s, Len(decided)) => j = i
      BY <2>1 DEF IsLast, OfSession
    <3> QED
      BY <3>1, <3>2 DEF LeftIn, IsLast
  <2>3. PICK k \in 1 .. Len(log) : log[k].id = decided[i].id
    BY DEF IInv, NoneMissing, InLogOrFlight
  <2>4. ASSUME NEW m \in 1 .. Len(log)
        PROVE  \E j \in 1 .. Len(decided) : /\ log[m].id = decided[j].id
                                            /\ log[m].session = decided[j].session
                                            /\ log[m].status = decided[j].status
    <3>1. PICK j \in 1 .. Len(decided) : log[m] = Normalized(decided[j])
      BY DEF IInv, PublishedFaithfully
    <3>2. decided[j] \in Decisions
      BY <2>1, ElementOfSeq
    <3> QED
      BY <3>1, <3>2 DEF Normalized, Decisions
  <2>5. log[k].session = s /\ log[k].status = decided[i].status
    <3>1. PICK j \in 1 .. Len(decided) : /\ log[k].id = decided[j].id
                                         /\ log[k].session = decided[j].session
                                         /\ log[k].status = decided[j].status
      BY <2>4
    <3>2. j = i
      BY <2>3, <3>1 DEF IInv, DecidedInv
    <3> QED
      BY <3>1, <3>2 DEF IsLast, OfSession
  <2>6. ASSUME NEW m \in OfSession(log, s, Len(log)) PROVE m <= k
    <3>1. PICK j \in 1 .. Len(decided) : /\ log[m].id = decided[j].id
                                         /\ log[m].session = decided[j].session
      BY <2>4 DEF OfSession
    <3>2. j \in OfSession(decided, s, Len(decided)) /\ j <= i
      BY <3>1 DEF OfSession, IsLast
    <3>3. CASE j = i
      BY <2>3, <3>1, <3>3, <2>1 DEF IInv, PublishedOnce, OfSession
    <3>4. CASE j # i
      <4>1. j \in OfSession(decided, s, i - 1)
        BY <2>1, <3>2, <3>4 DEF OfSession
      <4>2. log[m].id \in before[log[k].id]
        BY <2>3, <3>1, <4>1
      <4> QED
        BY <2>1, <4>2 DEF IInv, RealTimeOrder, OfSession
    <3> QED
      BY <3>3, <3>4
  <2> QED
    BY <2>2, <2>5, <2>6 DEF IsLast, OfSession, Outcome
<1> QED
  BY <1>1, Invariance, PTL

\* The Close that did the work returns to sinks that have been handed everything.
THEOREM CloseDrains == Spec => []CloseDrainsSinks
<1>1. IInv => CloseDrainsSinks
  <2> SUFFICES ASSUME IInv, NEW c \in Closers, closer[c] = "returned",
                      \A d \in Closers : closer[d] \in {"idle", "returned"}
               PROVE  /\ ~open
                      /\ \A k \in owed : sink[k] = "done" /\ lo[k] = hi[k] /\ hi[k] = published
    BY DEF CloseDrainsSinks
  <2>1. ~open /\ \A k \in owed : sink[k] = "done"
    BY DEF IInv, CloseInv
  <2> QED
    BY <2>1 DEF IInv, SinkInv, TypeOK
<1> QED
  BY <1>1, Invariance, PTL

\* A closed Hub decides nothing more and a closed broadcaster publishes nothing more.
THEOREM NothingAfterClose == Spec => QuietAfterClose
<1>1. TypeOK /\ [Next]_vars =>
        [/\ hubClosed => UNCHANGED <<sessions, decided>>
         /\ ~open => UNCHANGED log]_vars
  <2> SUFFICES ASSUME TypeOK, [Next]_vars
               PROVE  /\ hubClosed => UNCHANGED <<sessions, decided>>
                      /\ ~open => UNCHANGED log
    OBVIOUS
  <2>1. hubClosed => UNCHANGED <<sessions, decided>>
    BY DispatchStep DEF Dispatch, AcceptsSignals
  <2>2. ~open => UNCHANGED log
    BY IngestStep DEF Call, Dispatch, Publish, PublishClosed, Return, Window!Publish
  <2> QED
    BY <2>1, <2>2
<1> QED
  BY <1>1, TypeCorrect, PTL DEF Spec, QuietAfterClose
=============================================================================
