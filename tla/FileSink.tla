------------------------------ MODULE FileSink ------------------------------
(***************************************************************************)
(* sinks/file: a bounded queue between any number of goroutines in Send and *)
(* one worker that writes JSON lines, and a Close that flushes it.         *)
(*                                                                         *)
(* Send is a load of isClosed and up to three non-blocking selects, with no *)
(* lock around them; every one is a step here.  The n-th Send is event n;  *)
(* which file an event belongs to is left open until it is written.        *)
(***************************************************************************)
EXTENDS Integers, Sequences, FiniteSets

CONSTANTS
  Senders,    \* goroutines that call Send
  Closers,    \* goroutines that call Close
  Paths,      \* files the template can expand to
  BufferSize, \* Config.BufferSize; anything below 1 counts as the default
  DefaultBufferSize,
  MaxSends,   \* bound: calls of Send
  NoEvent     \* the worker has nothing in hand

ASSUME FileSinkAssumption ==
  /\ BufferSize \in Int
  /\ DefaultBufferSize \in Nat \ {0}
  /\ MaxSends \in Nat
  /\ NoEvent \notin Nat

VARIABLES
  queue,     \* s.events
  isClosed,
  closed,    \* s.closed is closed
  done,      \* s.done is closed
  drops,
  files,     \* paths with an open handle in s.files
  pc,        \* per sender: idle or the step of Send it is about to take
  event,     \* per sender: the event it sends
  worker,    \* where run is: run, write, drain, flush, closing, stopped
  inHand,    \* the event run took from the queue and has not written
  once,      \* per closer: idle, once, store, wait, returned
  \* history
  calls,     \* calls of Send so far
  returned,  \* events whose Send returned
  refused,   \* events whose Send found the sink closed
  earlier,   \* per event: those whose Send had returned when its Send was called
  inTime,    \* events whose Send had returned when the sink was marked closed
  written,   \* events written, in order
  failed     \* events given up with a log line

queueVars == <<queue, drops>>
closeVars == <<isClosed, closed, once, inTime>>
workerVars == <<done, files, worker, inHand, written, failed>>
sendVars == <<pc, event, calls, returned, refused, earlier>>
vars == <<queueVars, closeVars, workerVars, sendVars>>

Events == 1 .. MaxSends

\* New: a non-positive size means the default.
Capacity == IF BufferSize <= 0 THEN DefaultBufferSize ELSE BufferSize

TypeOK ==
  /\ queue \in Seq(Events) /\ Len(queue) <= Capacity
  /\ drops \in Nat /\ calls \in 0 .. MaxSends
  /\ isClosed \in BOOLEAN /\ closed \in BOOLEAN /\ done \in BOOLEAN
  /\ files \subseteq Paths
  /\ pc \in [Senders -> {"idle", "check", "try", "drain", "send"}]
  /\ event \in [Senders -> 0 .. MaxSends]
  /\ worker \in {"run", "write", "drain", "flush", "closing", "stopped"}
  /\ inHand \in Events \cup {NoEvent}
  /\ once \in [Closers -> {"idle", "once", "store", "wait", "returned"}]
  /\ returned \subseteq Events /\ refused \subseteq returned
  /\ earlier \in [Events -> SUBSET Events]
  /\ inTime \subseteq returned
  /\ written \in Seq(Events) /\ failed \subseteq Events

Init ==
  /\ queue = <<>> /\ drops = 0
  /\ isClosed = FALSE /\ closed = FALSE /\ done = FALSE
  /\ files = {}
  /\ pc = [p \in Senders |-> "idle"]
  /\ event = [p \in Senders |-> 0]
  /\ worker = "run" /\ inHand = NoEvent
  /\ once = [c \in Closers |-> "idle"]
  /\ calls = 0 /\ returned = {} /\ refused = {}
  /\ earlier = [e \in Events |-> {}]
  /\ inTime = {}
  /\ written = <<>> /\ failed = {}

-----------------------------------------------------------------------------
\* A definition whose name ends in "Bug" is a plausible mistake in the one that
\* follows it.  Only the mutants of PROJECT.json use these.

CountedBug == drops      \* the discarded event is not counted
Counted == drops + 1

QueuedBug(e) == <<e>> \o queue  \* a stack for a queue
Queued(e) == Append(queue, e)

RestBug == queue
Rest == Tail(queue)

MadeRoomBug == queue  \* the oldest event stays: the new one will find no room
MadeRoom == Tail(queue)

-----------------------------------------------------------------------------
\* Send.

RoomBug == Len(queue) <= Capacity  \* one too many
Room == Len(queue) < Capacity

Return(p) == /\ pc' = [pc EXCEPT ![p] = "idle"]
             /\ returned' = returned \cup {event[p]}

Call(p) ==
  /\ pc[p] = "idle"
  /\ calls < MaxSends
  /\ calls' = calls + 1
  /\ event' = [event EXCEPT ![p] = calls + 1]
  /\ earlier' = [earlier EXCEPT ![calls + 1] = returned]
  /\ pc' = [pc EXCEPT ![p] = "check"]
  /\ UNCHANGED <<queueVars, closeVars, workerVars, returned, refused>>

\* On a closed sink Send is a silent no-op.
Refuse(p) ==
  /\ pc[p] = "check" /\ isClosed
  /\ refused' = refused \cup {event[p]}
  /\ Return(p)
  /\ UNCHANGED <<queueVars, closeVars, workerVars, event, calls, earlier>>

Accept(p) ==
  /\ pc[p] = "check" /\ ~isClosed
  /\ pc' = [pc EXCEPT ![p] = "try"]
  /\ UNCHANGED <<queueVars, closeVars, workerVars, event, calls, returned, refused, earlier>>

\* First select.
TryEnqueue(p) ==
  /\ pc[p] = "try" /\ Room
  /\ queue' = Queued(event[p])
  /\ Return(p)
  /\ UNCHANGED <<drops, closeVars, workerVars, event, calls, refused, earlier>>

TryFull(p) ==
  /\ pc[p] = "try" /\ ~Room
  /\ pc' = [pc EXCEPT ![p] = "drain"]
  /\ UNCHANGED <<queueVars, closeVars, workerVars, event, calls, returned, refused, earlier>>

\* Second select: the oldest queued event goes, if the worker has left one.
Discard(p) ==
  /\ pc[p] = "drain"
  /\ IF queue = <<>> THEN UNCHANGED queueVars
     ELSE queue' = MadeRoom /\ drops' = Counted
  /\ pc' = [pc EXCEPT ![p] = "send"]
  /\ UNCHANGED <<closeVars, workerVars, event, calls, returned, refused, earlier>>

\* Third select: send, or count the event itself as dropped.
Enqueue(p) ==
  /\ pc[p] = "send"
  /\ IF Room THEN queue' = Queued(event[p]) /\ UNCHANGED drops
     ELSE drops' = Counted /\ UNCHANGED queue
  /\ Return(p)
  /\ UNCHANGED <<closeVars, workerVars, event, calls, refused, earlier>>

-----------------------------------------------------------------------------
\* The worker.  run and drain share the receive and the write; the position tells
\* which loop it goes back to.

Looping == [run |-> "write", drain |-> "flush"]

Take ==
  /\ worker \in DOMAIN Looping
  /\ queue # <<>>
  /\ inHand' = Head(queue)
  /\ queue' = Rest
  /\ worker' = Looping[worker]
  /\ UNCHANGED <<drops, closeVars, done, files, written, failed, sendVars>>

Back == IF worker = "write" THEN "run" ELSE "drain"

\* write: the file is opened unless s.files has it, then the line goes out.
WriteLine(path) ==
  /\ worker \in {"write", "flush"}
  /\ files' = files \cup {path}
  /\ \/ written' = Append(written, inHand) /\ UNCHANGED failed
     \/ failed' = failed \cup {inHand} /\ UNCHANGED written  \* marshal or Write fails
  /\ worker' = Back
  /\ inHand' = NoEvent
  /\ UNCHANGED <<queueVars, closeVars, done, sendVars>>

\* resolvePath, MkdirAll or OpenFile fails.
WriteFails ==
  /\ worker \in {"write", "flush"}
  /\ failed' = failed \cup {inHand}
  /\ worker' = Back
  /\ inHand' = NoEvent
  /\ UNCHANGED <<queueVars, closeVars, done, files, written, sendVars>>

\* The ticker fires: the handles idle for too long are closed.
EvictIdle(stale) ==
  /\ worker = "run"
  /\ files' = files \ stale
  /\ UNCHANGED <<queueVars, closeVars, done, worker, inHand, written, failed, sendVars>>

SeesCloseBug == "closing"  \* stops without draining
SeesClose == "drain"

\* The select picks the closed channel, whatever else is ready.
StartDrain ==
  /\ worker = "run" /\ closed
  /\ worker' = SeesClose
  /\ UNCHANGED <<queueVars, closeVars, done, files, inHand, written, failed, sendVars>>

DrainedBug == FALSE  \* drain's select has no default case
Drained == queue = <<>>

EndDrain ==
  /\ worker = "drain" /\ Drained
  /\ worker' = "closing"
  /\ UNCHANGED <<queueVars, closeVars, done, files, inHand, written, failed, sendVars>>

\* closeFiles and the deferred close of done.
Stop ==
  /\ worker = "closing"
  /\ files' = {}
  /\ done' = TRUE
  /\ worker' = "stopped"
  /\ UNCHANGED <<queueVars, closeVars, inHand, written, failed, sendVars>>

-----------------------------------------------------------------------------
\* Close.

\* Another Close is inside closeOnce.Do.
OnceBusy == \E c \in Closers : once[c] = "store"

CallClose(c) ==
  /\ once[c] = "idle"
  /\ once' = [once EXCEPT ![c] = "once"]
  /\ UNCHANGED <<queueVars, isClosed, closed, inTime, workerVars, sendVars>>

\* The first Close marks the sink closed ...
MarkClosed(c) ==
  /\ once[c] = "once" /\ ~isClosed
  /\ isClosed' = TRUE
  /\ inTime' = returned
  /\ once' = [once EXCEPT ![c] = "store"]
  /\ UNCHANGED <<queueVars, closed, workerVars, sendVars>>

\* ... and wakes the worker.
WakeWorker(c) ==
  /\ once[c] = "store"
  /\ closed' = TRUE
  /\ once' = [once EXCEPT ![c] = "wait"]
  /\ UNCHANGED <<queueVars, isClosed, inTime, workerVars, sendVars>>

\* A later Close gets past closeOnce.Do when the first one has left it.
PassOnce(c) ==
  /\ once[c] = "once" /\ isClosed /\ ~OnceBusy
  /\ once' = [once EXCEPT ![c] = "wait"]
  /\ UNCHANGED <<queueVars, isClosed, closed, inTime, workerVars, sendVars>>

CloseReturnsNow(c) ==
  /\ once[c] = "wait" /\ done
  /\ once' = [once EXCEPT ![c] = "returned"]
  /\ UNCHANGED <<queueVars, isClosed, closed, inTime, workerVars, sendVars>>

-----------------------------------------------------------------------------

InSend(p) == Refuse(p) \/ Accept(p) \/ TryEnqueue(p) \/ TryFull(p) \/ Discard(p) \/ Enqueue(p)
Write == WriteFails \/ \E path \in Paths : WriteLine(path)
InClose(c) == MarkClosed(c) \/ WakeWorker(c) \/ PassOnce(c) \/ CloseReturnsNow(c)

Next ==
  \/ \E p \in Senders : Call(p) \/ InSend(p)
  \/ \E c \in Closers : CallClose(c) \/ InClose(c)
  \/ Take \/ Write \/ StartDrain \/ EndDrain \/ Stop
  \/ \E stale \in SUBSET files : EvictIdle(stale)

Spec == Init /\ [][Next]_vars

\* The worker and whoever is inside Send or Close keep running.  The select of run
\* chooses at random among what is ready, so neither events nor ticks keep it from
\* seeing the closed channel for ever.
Fairness ==
  /\ WF_vars(Take \/ Write \/ EndDrain \/ Stop)
  /\ SF_vars(StartDrain)
  /\ \A p \in Senders : WF_vars(InSend(p))
  /\ \A c \in Closers : WF_vars(InClose(c))

FairSpec == Spec /\ Fairness

-----------------------------------------------------------------------------
(* What is said of it. *)

Elements(seq) == {seq[i] : i \in 1 .. Len(seq)}

\* Events that were accepted and are still somewhere.
Present == Elements(queue) \cup Elements(written) \cup failed \cup ({inHand} \ {NoEvent})

\* Drops is exact: it counts the events whose Send went through and that are
\* nowhere any more, whichever Sends and worker steps ran in between
\* (file.go:148-163).
DropsExact ==
  drops = Cardinality({e \in 1 .. calls :
            /\ e \notin refused /\ e \notin Present
            /\ \A p \in Senders : event[p] = e => pc[p] = "idle"})

\* An event is in one place only: none is written twice or written after it failed.
AtMostOnce ==
  /\ \A i, j \in 1 .. Len(written) : written[i] = written[j] => i = j
  /\ Elements(queue) \cap (Elements(written) \cup failed) = {}
  /\ Elements(written) \cap failed = {}

\* Lines come out in the order of the Sends that did not overlap, across discards
\* and across the switch from run to drain.
SendOrder ==
  \A i, j \in 1 .. Len(written) :
    i < j => written[j] \notin earlier[written[i]]

\* When any Close returns, the handles are closed for good, and everything whose Send
\* returned before the sink was marked closed is written, failed or dropped: nothing
\* of it is still queued (file.go:165-175).  A Send that passed the check before is
\* not covered: its event can stay in the queue for ever.
CloseFlushes ==
  (\E c \in Closers : once[c] = "returned") =>
     /\ files = {} /\ inHand = NoEvent
     /\ Elements(queue) \cap inTime = {}

\* Every Close returns, wherever the Sends under way and the ticks get in between.
CloseReturns == \A c \in Closers : once[c] = "once" ~> once[c] = "returned"
=============================================================================
