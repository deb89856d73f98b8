-------------------------------- MODULE Hub --------------------------------
(***************************************************************************)
(* hub.go, sink.go, stream.go: the Hub, the goroutines that call Ingest,   *)
(* RegisterSession and Close, the forwarders AttachSink starts and the     *)
(* consumers that read a Stream of their own.                              *)
(*                                                                         *)
(* The sections under h.mu do not block and call nothing that could, so    *)
(* each is one step.  The broadcaster is its promise, SlidingWindow.tla,   *)
(* over the log of Events: Broadcast.tla shows the code keeps it.  b.mu is *)
(* held by the goroutine that is handing its Event to the subscribers.     *)
(***************************************************************************)
EXTENDS Decision, Integers, Sequences, FiniteSets

CONSTANTS
  Ingesters,   \* goroutines in Ingest: HTTP handlers or an embedding program's
  Closers,     \* goroutines that may call Close
  Sinks,       \* sinks that AttachSink may be called with, once each
  Streams,     \* consumers that may call Events
  Sessions,    \* session ids
  Registered,  \* bound: the sessions that RegisterSession may be called with
  TagSets,     \* non-nil tag maps
  NoTags,      \* no entry in h.tags, and nil Event.Tags
  Payloads,    \* signals the payloads may map to, with their session
  BufferSize,  \* capacity of each subscriber (NewHub makes it positive)
  MaxCalls     \* bound: signals that may be ingested

ASSUME HubAssumption ==
  /\ Sinks \cap Streams = {}
  /\ NoTags \notin TagSets
  /\ Registered \subseteq Sessions
  /\ Payloads \subseteq [session : Sessions, sig : Signals]
  /\ BufferSize \in Nat \ {0}
  /\ MaxCalls \in Nat

VARIABLES
  sessions,    \* h.sessions, total: an absent entry reads as the zero value
  tags,        \* h.tags
  hubClosed,   \* h.closed
  published, open, phase, lo, hi, last, drops,  \* the broadcaster
  log,         \* the Events published, in order
  pc,          \* per ingester: "idle", "dispatch", "publish" or "offer"
  call,        \* per ingester: the number of its current call
  req,         \* per ingester: the payload it was given
  ev,          \* per ingester: the Event it decided on
  sink,        \* per sink: its AttachSink call and then its forwarder
  closer,      \* per closer: where it is in Close
  \* history
  calls,       \* calls made so far
  decided,     \* the Events decided on, in the order of h.mu
  done,        \* calls that returned nil
  before,      \* per call: the calls done when it was made
  handed,      \* per sink: Sends that returned
  owed         \* sinks whose AttachSink had returned when Close was called

Subs == Sinks \cup Streams

Window == INSTANCE SlidingWindow WITH Size <- BufferSize

bcastVars == <<published, open, phase, lo, hi, last, drops>>
coreVars == <<sessions, tags, hubClosed>>
ingestVars == <<pc, call, req, ev>>
histVars == <<calls, decided, done, before>>
sinkVars == <<sink, handed>>
closeVars == <<closer, owed>>
vars == <<coreVars, bcastVars, log, ingestVars, histVars, sinkVars, closeVars>>

CallIds == 1 .. MaxCalls

Decisions == [id : CallIds, session : Sessions, status : Statuses,
              prev : Statuses \cup {NoStatus}, tool : Tools \cup {NoTool},
              tags : TagSets \cup {NoTags}]

NoEvent == [id |-> 0]

Forwarding == {"running", "sending"}

TypeOK ==
  /\ sessions \in [Sessions -> SessionStates]
  /\ tags \in [Sessions -> TagSets \cup {NoTags}]
  /\ hubClosed \in BOOLEAN
  /\ Window!WindowTypeOK
  /\ log \in Seq(Decisions) /\ decided \in Seq(Decisions)
  /\ pc \in [Ingesters -> {"idle", "dispatch", "publish", "offer"}]
  /\ call \in [Ingesters -> CallIds \cup {0}]
  /\ req \in [Ingesters -> Payloads \cup {NoEvent}]
  /\ \A p \in Ingesters : pc[p] # "idle" => req[p] \in Payloads
  /\ ev \in [Ingesters -> Decisions \cup {NoEvent}]
  /\ sink \in [Sinks -> {"unattached", "subscribed", "done"} \cup Forwarding]
  /\ closer \in [Closers -> {"idle", "bcast", "wait", "returned"}]
  /\ calls \in CallIds \cup {0}
  /\ done \subseteq CallIds
  /\ before \in [CallIds -> SUBSET CallIds]
  /\ handed \in [Sinks -> Nat]
  /\ owed \subseteq Sinks

Init ==
  /\ sessions = [s \in Sessions |-> FreshSession]
  /\ tags = [s \in Sessions |-> NoTags]
  /\ hubClosed = FALSE
  /\ Window!WindowInit
  /\ log = <<>> /\ decided = <<>>
  /\ pc = [p \in Ingesters |-> "idle"]
  /\ call = [p \in Ingesters |-> 0]
  /\ req = [p \in Ingesters |-> NoEvent]
  /\ ev = [p \in Ingesters |-> NoEvent]
  /\ sink = [k \in Sinks |-> "unattached"]
  /\ closer = [c \in Closers |-> "idle"]
  /\ calls = 0
  /\ done = {}
  /\ before = [i \in CallIds |-> {}]
  /\ handed = [k \in Sinks |-> 0]
  /\ owed = {}

-----------------------------------------------------------------------------
\* Definitions named ...Bug are mistakes PROJECT.json's mutants put in place of
\* the definition that follows.

\* b.mu is free unless a Publish is under way.
BMuFree == \A p \in Ingesters : pc[p] # "offer"

RegisterSession(s, t) ==
  /\ tags' = [tags EXCEPT ![s] = t]
  /\ UNCHANGED <<sessions, hubClosed, bcastVars, log, ingestVars, histVars,
                 sinkVars, closeVars>>

UnregisterSession(s) ==
  /\ tags[s] # NoTags
  /\ tags' = [tags EXCEPT ![s] = NoTags]
  /\ UNCHANGED <<sessions, hubClosed, bcastVars, log, ingestVars, histVars,
                 sinkVars, closeVars>>

-----------------------------------------------------------------------------
\* Ingest.  Requests that no adapter maps to a Signal do not touch the Hub's state.

\* A request whose payload the adapter mapped to a Signal.
Call(p, payload) ==
  /\ pc[p] = "idle"
  /\ calls < MaxCalls
  /\ calls' = calls + 1
  /\ call' = [call EXCEPT ![p] = calls + 1]
  /\ before' = [before EXCEPT ![calls + 1] = done]
  /\ req' = [req EXCEPT ![p] = payload]
  /\ pc' = [pc EXCEPT ![p] = "dispatch"]
  /\ UNCHANGED <<coreVars, bcastVars, log, ev, decided, done, sinkVars, closeVars>>

\* Ingest returns nil; its variables are gone.
Finish(p) ==
  /\ pc' = [pc EXCEPT ![p] = "idle"]
  /\ call' = [call EXCEPT ![p] = 0]
  /\ req' = [req EXCEPT ![p] = NoEvent]
  /\ ev' = [ev EXCEPT ![p] = NoEvent]
  /\ done' = done \cup {call[p]}

\* Bug: PrevStatus is read after the new state was stored.
DecisionBug(p) ==
  LET s == req[p].session
      t == Transition(sessions[s], req[p].sig)
  IN  [id |-> call[p], session |-> s, status |-> t.status, prev |-> t.status,
       tool |-> t.tool, tags |-> tags[s]]

\* What dispatchSignal takes along from the section under h.mu.
Decision(p) ==
  LET s == req[p].session
      t == Transition(sessions[s], req[p].sig)
  IN  [id |-> call[p], session |-> s, status |-> t.status, prev |-> t.prev,
       tool |-> t.tool, tags |-> tags[s]]

\* Bug: the fan-out is left to a goroutine of its own, and Ingest returns.
StaysInCallBug(p) == done' = done \cup {call[p]}
\* dispatchSignal goes on to the fan-out before Ingest returns.
StaysInCall(p) == UNCHANGED done

\* Bug: Close does not stop signals that were accepted already.
AcceptsSignalsBug == TRUE
AcceptsSignals == ~hubClosed

\* dispatchSignal's section under h.mu.  A closed Hub discards the signal; one
\* that is no transition leaves nothing to publish.
Dispatch(p) ==
  LET s == req[p].session IN
  /\ pc[p] = "dispatch"
  /\ IF AcceptsSignals
     THEN /\ sessions' = [sessions EXCEPT ![s] = NextState(@, req[p].sig)]
          /\ IF Emits(sessions[s], req[p].sig)
             THEN /\ ev' = [ev EXCEPT ![p] = Decision(p)]
                  /\ decided' = Append(decided, Decision(p))
                  /\ pc' = [pc EXCEPT ![p] = "publish"]
                  /\ StaysInCall(p)
                  /\ UNCHANGED <<call, req>>
             ELSE Finish(p) /\ UNCHANGED decided
     ELSE Finish(p) /\ UNCHANGED <<sessions, decided>>
  /\ UNCHANGED <<tags, hubClosed, bcastVars, log, calls, before,
                 sinkVars, closeVars>>

\* Bug: the tags are looked up again, after the unlock.
EventBug(p) == [ev[p] EXCEPT !.tool = NormalizeToolName(@), !.tags = tags[ev[p].session]]
Event(p) == [ev[p] EXCEPT !.tool = NormalizeToolName(@)]

\* bcast.Publish takes b.mu; h.mu was released before.
Publish(p) ==
  /\ pc[p] = "publish" /\ BMuFree
  /\ Window!Publish
  /\ log' = Append(log, Event(p))
  /\ pc' = [pc EXCEPT ![p] = "offer"]
  /\ UNCHANGED <<coreVars, call, req, ev, histVars, sinkVars, closeVars>>

\* Bug: it gives up when another Publish holds b.mu.
PublishClosedBug(p) ==
  /\ pc[p] = "publish" /\ (~open \/ ~BMuFree)
  /\ Finish(p)
  /\ UNCHANGED <<coreVars, bcastVars, log, calls, decided, before,
                 sinkVars, closeVars>>

\* bcast.Publish finds the broadcaster closed.
PublishClosed(p) ==
  /\ pc[p] = "publish" /\ BMuFree
  /\ ~open
  /\ Finish(p)
  /\ UNCHANGED <<coreVars, bcastVars, log, calls, decided, before,
                 sinkVars, closeVars>>

\* Bug: the fan-out waits for a subscriber whose buffer is full.
OfferBug(p, s) ==
  /\ pc[p] = "offer" /\ hi[s] - lo[s] < BufferSize
  /\ Window!Offer(s)
  /\ UNCHANGED <<coreVars, log, ingestVars, histVars, sinkVars, closeVars>>

\* The fan-out reaches one more subscriber.
Offer(p, s) ==
  /\ pc[p] = "offer"
  /\ Window!Offer(s)
  /\ UNCHANGED <<coreVars, log, ingestVars, histVars, sinkVars, closeVars>>

Return(p) ==
  /\ pc[p] = "offer" /\ Window!Settled
  /\ Finish(p)
  /\ UNCHANGED <<coreVars, bcastVars, log, calls, decided, before,
                 sinkVars, closeVars>>

-----------------------------------------------------------------------------
\* Subscribers.

\* Events on a Hub whose broadcaster is open; otherwise the Stream it returns is
\* closed already and nothing changes here.
Events(s) == BMuFree /\ Window!Subscribe(s)

OpenStream(s) ==
  /\ Events(s)
  /\ UNCHANGED <<coreVars, log, ingestVars, histVars, sinkVars, closeVars>>

ReadStream(s) ==
  /\ Window!Receive(s)
  /\ UNCHANGED <<coreVars, log, ingestVars, histVars, sinkVars, closeVars>>

\* AttachSink, first call: Events.
AttachSink(k) ==
  /\ sink[k] = "unattached"
  /\ \/ Events(k)
     \/ ~open /\ BMuFree /\ UNCHANGED bcastVars
  /\ sink' = [sink EXCEPT ![k] = "subscribed"]
  /\ UNCHANGED <<coreVars, log, ingestVars, histVars, handed, closeVars>>

\* AttachSink, the rest: sinks.Add(1), and the forwarder runs.
StartForwarder(k) ==
  /\ sink[k] = "subscribed"
  /\ sink' = [sink EXCEPT ![k] = "running"]
  /\ UNCHANGED <<coreVars, bcastVars, log, ingestVars, histVars, handed, closeVars>>

\* The forwarder receives an Event and calls Send with it.
Forward(k) ==
  /\ sink[k] = "running"
  /\ Window!Receive(k)
  /\ sink' = [sink EXCEPT ![k] = "sending"]
  /\ UNCHANGED <<coreVars, log, ingestVars, histVars, handed, closeVars>>

\* Send returns.  An error only goes to HubConfig.ErrorHandler.
SendReturns(k) ==
  /\ sink[k] = "sending"
  /\ sink' = [sink EXCEPT ![k] = "running"]
  /\ handed' = [handed EXCEPT ![k] = @ + 1]
  /\ UNCHANGED <<coreVars, bcastVars, log, ingestVars, histVars, closeVars>>

\* Bug: the forwarder stops at the close, whatever is still buffered.
ExhaustedBug(k) == ~open
\* Bug: the channel was never closed.
ExhaustedNeverBug(k) == sink[k] = "unattached"
\* The channel is closed and drained: the range over it ends.
Exhausted(k) == ~open /\ lo[k] = hi[k]

StopForwarder(k) ==
  /\ sink[k] = "running" /\ Exhausted(k)
  /\ sink' = [sink EXCEPT ![k] = "done"]
  /\ UNCHANGED <<coreVars, bcastVars, log, ingestVars, histVars, handed, closeVars>>

-----------------------------------------------------------------------------
\* Close.

\* The section under h.mu.  A second caller returns at once.
Close(c) ==
  /\ closer[c] = "idle"
  /\ hubClosed' = TRUE
  /\ IF hubClosed
     THEN closer' = [closer EXCEPT ![c] = "returned"] /\ UNCHANGED owed
     ELSE /\ closer' = [closer EXCEPT ![c] = "bcast"]
          /\ owed' = {k \in Sinks : sink[k] \in Forwarding}
  /\ UNCHANGED <<sessions, tags, bcastVars, log, ingestVars, histVars, sinkVars>>

CloseBroadcaster(c) ==
  /\ closer[c] = "bcast" /\ BMuFree
  /\ Window!CloseAll
  /\ closer' = [closer EXCEPT ![c] = "wait"]
  /\ UNCHANGED <<coreVars, log, ingestVars, histVars, sinkVars, owed>>

\* Bug: it waits for the Sends under way only.
WaitGroupZeroBug == \A k \in Sinks : sink[k] # "sending"
\* sinks.Wait: every forwarder that was counted has called Done.
WaitGroupZero == \A k \in Sinks : sink[k] \notin Forwarding

AwaitSinks(c) ==
  /\ closer[c] = "wait" /\ WaitGroupZero
  /\ closer' = [closer EXCEPT ![c] = "returned"]
  /\ UNCHANGED <<coreVars, bcastVars, log, ingestVars, histVars, sinkVars, owed>>
-----------------------------------------------------------------------------

Ingest(p) ==
  \/ \E payload \in Payloads : Call(p, payload)
  \/ Dispatch(p) \/ Publish(p) \/ PublishClosed(p) \/ Return(p)
  \/ \E s \in Subs : Offer(p, s)

Forwarder(k) ==
  AttachSink(k) \/ StartForwarder(k) \/ Forward(k) \/ SendReturns(k) \/ StopForwarder(k)

Next ==
  \/ \E s \in Registered : UnregisterSession(s) \/ \E t \in TagSets : RegisterSession(s, t)
  \/ \E p \in Ingesters : Ingest(p)
  \/ \E s \in Streams : OpenStream(s) \/ ReadStream(s)
  \/ \E k \in Sinks : Forwarder(k)
  \/ \E c \in Closers : Close(c) \/ CloseBroadcaster(c) \/ AwaitSinks(c)

Spec == Init /\ [][Next]_vars

\* A goroutine that can run does, and the mutexes starve nobody.  Nothing is
\* assumed of what the environment decides: new calls, readers, Send returning.
Fairness ==
  /\ \A p \in Ingesters :
       /\ WF_vars(Dispatch(p) \/ Return(p) \/ \E s \in Subs : Offer(p, s))
       /\ SF_vars(Publish(p) \/ PublishClosed(p))
  /\ \A k \in Sinks : WF_vars(StartForwarder(k) \/ Forward(k) \/ StopForwarder(k))
  /\ \A c \in Closers : SF_vars(CloseBroadcaster(c)) /\ WF_vars(AwaitSinks(c))

FairSpec == Spec /\ Fairness

-----------------------------------------------------------------------------
(* What is said of it. *)

\* Where the first n entries of seq speak of session s.
OfSession(seq, s, n) == {i \in 1 .. n : seq[i].session = s}

\* The i-th entry is the last of these.
IsLast(i, seq, s, n) == /\ i \in OfSession(seq, s, n)
                        /\ \A j \in OfSession(seq, s, n) : j <= i

Outcome(d) == [status |-> d.status, tool |-> d.tool]

\* The first n decisions leave session s in this state.
LeftIn(state, s, n) ==
  \/ OfSession(decided, s, n) = {} /\ state = FreshSession
  \/ \E i \in 1 .. n : IsLast(i, decided, s, n) /\ state = Outcome(decided[i])

\* The transitions decided on a session form a chain: each starts from the status
\* the one before it led to, changes status or tool (decision.go:83-91), and the
\* stored state is where the chain ends - whichever goroutines took the decisions.
DecisionChain ==
  /\ \A s \in Sessions : LeftIn(sessions[s], s, Len(decided))
  /\ \A i \in 1 .. Len(decided) :
       \E earlier \in SessionStates :
         /\ LeftIn(earlier, decided[i].session, i - 1)
         /\ decided[i].prev = earlier.status
         /\ Outcome(decided[i]) # earlier

InFlight == {ev[p].id : p \in {q \in Ingesters : pc[q] = "publish"}}

\* An Event is published at most once, as it was decided, with the tags its session
\* had at the decision (hub.go:155-174); and unless the broadcaster was closed in
\* between, every decision is published or still on its way.
PublishedAsDecided ==
  /\ \A i, j \in 1 .. Len(log) : log[i].id = log[j].id => i = j
  /\ \A i \in 1 .. Len(log) : \E j \in 1 .. Len(decided) :
       log[i] = [decided[j] EXCEPT !.tool = NormalizeToolName(@)]
  /\ open => \A j \in 1 .. Len(decided) :
       decided[j].id \in {log[i].id : i \in 1 .. Len(log)} \cup InFlight

\* Events of calls that do not overlap reach the log, hence every subscriber, in
\* the order of the calls (what remains of specs/design.md:302).
RealTimeOrder ==
  \A i, j \in 1 .. Len(log) : i < j => log[j].id \notin before[log[i].id]

\* Once all calls have returned, the last Event published for a session tells its
\* stored status, provided the call that decided it overlapped no earlier one of
\* that session and the Hub is open: the subscribers are not left with a stale one.
LastWord ==
  \A s \in Sessions, i \in 1 .. Len(decided) :
    /\ open /\ \A p \in Ingesters : pc[p] = "idle"
    /\ IsLast(i, decided, s, Len(decided))
    /\ \A j \in OfSession(decided, s, i - 1) : decided[j].id \in before[decided[i].id]
    => \E k \in 1 .. Len(log) :
         IsLast(k, log, s, Len(log)) /\ log[k].status = sessions[s].status

\* When the Close that did the work returns, every sink attached before it was called
\* has been handed each Event published, or had it dropped by its full buffer, and no
\* Event follows (sink.go:27-30).
CloseDrainsSinks ==
  \A c \in Closers :
    closer[c] = "returned" /\ (\A d \in Closers : closer[d] \in {"idle", "returned"})
    => /\ ~open
       /\ \A k \in owed : sink[k] = "done" /\ lo[k] = hi[k] /\ hi[k] = published

\* A closed Hub decides nothing more and a closed broadcaster publishes nothing more,
\* although calls that began earlier are still running.
QuietAfterClose ==
  [][/\ hubClosed => UNCHANGED <<sessions, decided>>
     /\ ~open => UNCHANGED log]_vars

\* Ingest never blocks on a subscriber (specs/design.md:318-326): every call returns
\* even if readers never read and a Send never returns.
IngestReturns == \A p \in Ingesters : pc[p] = "dispatch" ~> pc[p] = "idle"

\* Close returns if every Send does.
CloseReturns ==
  (\A k \in Sinks : []<>(sink[k] # "sending"))
  => \A c \in Closers : closer[c] = "bcast" ~> closer[c] = "returned"

\* specs/design.md:302: within a session the order is preserved.  In the log, as the
\* subscribers see it, each Event starts from the status the one before it led to.
PublishedChain ==
  \A s \in Sessions, i, j \in 1 .. Len(log) :
    i \in OfSession(log, s, Len(log)) /\ IsLast(j, log, s, i - 1)
    => log[i].prev = log[j].status

\* sink.go:27-30: when Close has returned, to whichever caller, all forwarders
\* started by AttachSink have drained their channels.
CloseMeansDrained ==
  (\E c \in Closers : closer[c] = "returned") => WaitGroupZero
=============================================================================
