--------------------------- MODULE FileSinkProofs ---------------------------
(***************************************************************************)
(* What MCFileSink checks on a small instance, proved for any number of    *)
(* senders, closers, files and events and any buffer size.                 *)
(***************************************************************************)
EXTENDS FileSink, FiniteSetTheorems, SequenceTheorems, TLAPS

\* An event is of one call of Send, which is under way or has returned.
CallInv ==
  /\ returned \subseteq 1 .. calls
  /\ \A e \in Events : earlier[e] \subseteq returned
  /\ \A p \in Senders :
       IF pc[p] = "idle" THEN event[p] \in returned \cup {0}
       ELSE event[p] \in 1 .. calls /\ event[p] \notin returned
  /\ \A p, q \in Senders : pc[p] # "idle" /\ pc[q] # "idle" /\ event[p] = event[q] => p = q
  /\ \A e \in 1 .. calls : e \in returned \/ \E p \in Senders : pc[p] # "idle" /\ event[p] = e

\* Only an event whose Send returned, and was not refused, gets anywhere, and no event
\* is in two places.
PlaceInv ==
  /\ Present \subseteq returned \ refused
  /\ \A i, j \in 1 .. Len(queue) : queue[i] = queue[j] => i = j
  /\ \A i, j \in 1 .. Len(written) : written[i] = written[j] => i = j
  /\ Elements(queue) \cap (Elements(written) \cup failed) = {}
  /\ Elements(written) \cap failed = {}
  /\ inHand \notin Elements(queue) \cup Elements(written) \cup failed

\* The events that went through and are nowhere any more.
Gone == returned \ (refused \cup Present)

DropInv == drops = Cardinality(Gone)

\* What was written, then what the worker has in hand, then what is queued, is in the
\* order of the Sends that did not overlap.
OrderInv ==
  /\ SendOrder
  /\ \A i \in 1 .. Len(written) : inHand \notin earlier[written[i]]
  /\ \A e \in Elements(written), f \in Elements(queue) : f \notin earlier[e]
  /\ inHand # NoEvent => \A f \in Elements(queue) : f \notin earlier[inHand]
  /\ \A i, j \in 1 .. Len(queue) : i < j => queue[j] \notin earlier[queue[i]]

\* How far the worker is with the shutdown, and that nothing is left when it is through.
WorkerInv ==
  /\ worker \in {"write", "flush"} <=> inHand # NoEvent
  /\ worker \notin {"run", "write"} => closed
  /\ closed \/ (\E c \in Closers : once[c] = "store") => isClosed
  /\ done <=> worker = "stopped"
  /\ done => files = {}
  /\ worker \in {"closing", "stopped"} => Elements(queue) \cap inTime = {}
  /\ \A c \in Closers : once[c] = "returned" => done

\* The inductive invariant.
IInv == TypeOK /\ CallInv /\ PlaceInv /\ DropInv /\ OrderInv /\ WorkerInv

-----------------------------------------------------------------------------
\* Sequences.

\* What Append does to the elements and their places.
LEMMA Appended ==
  ASSUME NEW S, NEW seq \in Seq(S), NEW e \in S, NEW new, new = Append(seq, e)
  PROVE  /\ new \in Seq(S)
         /\ Len(seq) \in Nat /\ Len(new) = Len(seq) + 1
         /\ \A i \in 1 .. Len(seq) : new[i] = seq[i]
         /\ new[Len(seq) + 1] = e
         /\ Elements(new) = Elements(seq) \cup {e}
<1>1. /\ new \in Seq(S)
      /\ Len(seq) \in Nat /\ Len(new) = Len(seq) + 1
      /\ \A i \in 1 .. Len(seq) : new[i] = seq[i]
      /\ new[Len(seq) + 1] = e
  BY AppendProperties, LenProperties
<1>2. Elements(new) = Elements(seq) \cup {e}
  <2>1. 1 .. Len(new) = (1 .. Len(seq)) \cup {Len(seq) + 1}
    BY <1>1
  <2> QED
    BY <1>1, <2>1 DEF Elements
<1> QED
  BY <1>1, <1>2

\* What Tail does to them, where no element occurs twice.
LEMMA Shortened ==
  ASSUME NEW S, NEW seq \in Seq(S), seq # <<>>,
         \A i, j \in 1 .. Len(seq) : seq[i] = seq[j] => i = j
  PROVE  /\ Tail(seq) \in Seq(S) /\ Head(seq) \in S /\ Head(seq) = seq[1]
         /\ Len(seq) \in Nat /\ Len(seq) >= 1 /\ Len(Tail(seq)) = Len(seq) - 1
         /\ \A i \in 1 .. Len(Tail(seq)) : i + 1 \in 1 .. Len(seq) /\ Tail(seq)[i] = seq[i + 1]
         /\ Elements(Tail(seq)) = Elements(seq) \ {Head(seq)}
         /\ Head(seq) \in Elements(seq)
<1> DEFINE new == Tail(seq)
<1>1. /\ new \in Seq(S) /\ Head(seq) \in S /\ Head(seq) = seq[1]
      /\ Len(seq) \in Nat /\ Len(seq) >= 1 /\ Len(new) = Len(seq) - 1
      /\ \A i \in 1 .. Len(new) : i + 1 \in 1 .. Len(seq) /\ new[i] = seq[i + 1]
  BY HeadTailProperties, LenProperties, EmptySeq
<1> HIDE DEF new
<1>2. \A j \in 2 .. Len(seq) : j - 1 \in 1 .. Len(new) /\ new[j - 1] = seq[j]
  BY <1>1
<1>3. Elements(new) = {seq[j] : j \in 2 .. Len(seq)}
  <2>1. \A i \in 1 .. Len(new) : i + 1 \in 2 .. Len(seq) /\ new[i] = seq[i + 1]
    BY <1>1
  <2>2. \A i \in 1 .. Len(new) : new[i] \in {seq[j] : j \in 2 .. Len(seq)}
    BY <2>1
  <2>3. \A j \in 2 .. Len(seq) : seq[j] \in {new[i] : i \in 1 .. Len(new)}
    BY <1>2
  <2> QED
    BY <2>2, <2>3 DEF Elements
<1>4. 1 .. Len(seq) = {1} \cup 2 .. Len(seq) /\ 1 \notin 2 .. Len(seq)
  BY <1>1
<1> QED
  BY <1>1, <1>3, <1>4 DEF Elements, new

\* The queue has room for one event at least.
LEMMA CapacityPositive == Capacity \in Nat \ {0}
  BY FileSinkAssumption DEF Capacity

-----------------------------------------------------------------------------
\* A step, seen from the events: nothing happens to them, or one of these.

LineVars == <<inHand, written, failed>>

\* The Send of a new event begins.
Begins(p) ==
  /\ pc[p] = "idle"
  /\ calls' = calls + 1 /\ calls < MaxSends
  /\ earlier' = [earlier EXCEPT ![calls + 1] = returned]
  /\ UNCHANGED <<queueVars, LineVars, returned, refused>>

\* Send returns: its event was refused, is queued, or is dropped itself.
Ends(p) ==
  /\ pc[p] # "idle"
  /\ returned' = returned \cup {event[p]}
  /\ UNCHANGED <<LineVars, calls, earlier>>

Refuses(p) == Ends(p) /\ refused' = refused \cup {event[p]} /\ UNCHANGED queueVars
Puts(p) == Ends(p) /\ Room /\ queue' = Append(queue, event[p]) /\ UNCHANGED <<drops, refused>>
Drops(p) == Ends(p) /\ drops' = drops + 1 /\ UNCHANGED <<queue, refused>>

\* The oldest queued event goes: to nowhere, or into the worker's hand.
DropsOldest ==
  /\ queue # <<>> /\ queue' = Tail(queue) /\ drops' = drops + 1
  /\ UNCHANGED <<LineVars, calls, returned, refused, earlier>>

Takes ==
  /\ queue # <<>> /\ queue' = Tail(queue) /\ worker \in {"run", "drain"}
  /\ inHand' = Head(queue)
  /\ UNCHANGED <<drops, written, failed, calls, returned, refused, earlier>>

\* The worker writes the event in its hand, or gives it up.
PutsDown(ok) ==
  /\ worker \in {"write", "flush"} /\ inHand' = NoEvent
  /\ written' = IF ok THEN Append(written, inHand) ELSE written
  /\ failed' = IF ok THEN failed ELSE failed \cup {inHand}
  /\ UNCHANGED <<queueVars, calls, returned, refused, earlier>>

DataStep ==
  \/ \E p \in Senders : Begins(p) \/ Refuses(p) \/ Puts(p) \/ Drops(p)
  \/ DropsOldest \/ Takes \/ PutsDown(TRUE) \/ PutsDown(FALSE)
  \/ UNCHANGED <<queueVars, LineVars, calls, returned, refused, earlier>>

\* There is no other kind of step.
LEMMA StepData == ASSUME [Next]_vars PROVE DataStep
<1>1. ASSUME NEW p \in Senders, Call(p) \/ InSend(p) PROVE DataStep
  BY <1>1
  DEF DataStep, Begins, Refuses, Puts, Drops, Ends, DropsOldest, LineVars, Call, InSend, Refuse,
      Accept, TryEnqueue, TryFull, Discard, Enqueue, Return, Queued, MadeRoom, Counted,
      workerVars, queueVars
<1>2. ASSUME Take \/ Write PROVE DataStep
  BY <1>2
  DEF DataStep, Takes, PutsDown, LineVars, Take, Write, WriteLine, WriteFails, Rest, Looping,
      queueVars, sendVars
<1> QED
  BY <1>1, <1>2
  DEF Next, vars, DataStep, LineVars, CallClose, InClose, MarkClosed, WakeWorker, PassOnce,
      CloseReturnsNow, StartDrain, EndDrain, Stop, EvictIdle, workerVars, sendVars

-----------------------------------------------------------------------------
\* Calls of Send.

\* CallInv is inductive.
LEMMA CallStep == TypeOK /\ CallInv /\ [Next]_vars => CallInv'
<1> SUFFICES ASSUME TypeOK, CallInv, [Next]_vars PROVE CallInv'
  OBVIOUS
<1>a. calls \in Nat /\ MaxSends \in Nat
  BY FileSinkAssumption DEF TypeOK
<1>1. ASSUME NEW p \in Senders, Call(p) PROVE CallInv'
  <2>1. calls' = calls + 1 /\ UNCHANGED returned /\ calls + 1 \notin returned
    BY <1>1, <1>a DEF Call, CallInv
  <2>2. \A q \in Senders : /\ pc'[q] = (IF q = p THEN "check" ELSE pc[q])
                           /\ event'[q] = (IF q = p THEN calls + 1 ELSE event[q])
    BY <1>1 DEF Call, TypeOK
  <2>3. \A e \in Events : earlier'[e] \subseteq returned
    BY <1>1 DEF Call, TypeOK, CallInv
  <2>4. returned \subseteq 1 .. calls'
    BY <1>a, <2>1 DEF CallInv
  <2>5. \A q \in Senders :
          IF pc'[q] = "idle" THEN event'[q] \in returned \cup {0}
          ELSE event'[q] \in 1 .. calls' /\ event'[q] \notin returned
    BY <1>a, <2>1, <2>2 DEF CallInv
  <2>6. \A q, r \in Senders : pc'[q] # "idle" /\ pc'[r] # "idle" /\ event'[q] = event'[r] => q = r
    BY <1>a, <2>2 DEF CallInv
  <2>7. ASSUME NEW e \in 1 .. calls'
        PROVE  e \in returned \/ \E q \in Senders : pc'[q] # "idle" /\ event'[q] = e
    <3>1. CASE e = calls + 1
      BY <2>2, <3>1
    <3>2. CASE e \in 1 .. calls
      BY <1>1, <2>2, <3>2 DEF CallInv, Call
    <3> QED
      BY <1>a, <2>1, <3>1, <3>2
  <2> QED
    BY <2>1, <2>3, <2>4, <2>5, <2>6, <2>7 DEF CallInv
<1>2. ASSUME NEW p \in Senders, Return(p), pc[p] # "idle", UNCHANGED <<event, calls, earlier>>
      PROVE  CallInv'
  <2>1. returned' = returned \cup {event[p]} /\ event[p] \in 1 .. calls
    BY <1>2 DEF Return, CallInv
  <2>2. \A q \in Senders : pc'[q] = IF q = p THEN "idle" ELSE pc[q]
    BY <1>2 DEF Return, TypeOK
  <2>3. returned' \subseteq 1 .. calls' /\ \A e \in Events : earlier'[e] \subseteq returned'
    BY <1>2, <2>1 DEF CallInv
  <2>4. \A q \in Senders :
          IF pc'[q] = "idle" THEN event'[q] \in returned' \cup {0}
          ELSE event'[q] \in 1 .. calls' /\ event'[q] \notin returned'
    BY <1>2, <2>1, <2>2 DEF CallInv
  <2>5. \A q, r \in Senders : pc'[q] # "idle" /\ pc'[r] # "idle" /\ event'[q] = event'[r] => q = r
    BY <1>2, <2>2 DEF CallInv
  <2>6. \A e \in 1 .. calls' : e \in returned' \/ \E q \in Senders : pc'[q] # "idle" /\ event'[q] = e
    BY <1>2, <2>1, <2>2 DEF CallInv
  <2> QED
    BY <2>3, <2>4, <2>5, <2>6 DEF CallInv
<1>3. ASSUME NEW p \in Senders, Accept(p) \/ TryFull(p) \/ Discard(p) PROVE CallInv'
  <2>1. \A q \in Senders : pc'[q] = "idle" <=> pc[q] = "idle"
    BY <1>3 DEF Accept, TryFull, Discard, TypeOK
  <2>2. UNCHANGED <<event, calls, returned, earlier>>
    BY <1>3 DEF Accept, TryFull, Discard
  <2> QED
    BY <2>1, <2>2 DEF CallInv
<1>4. ASSUME NEW p \in Senders, Refuse(p) \/ TryEnqueue(p) \/ Enqueue(p) PROVE CallInv'
  BY <1>2, <1>4 DEF Refuse, TryEnqueue, Enqueue
<1>5. CASE UNCHANGED sendVars
  BY <1>5 DEF sendVars, CallInv
<1> QED
  BY <1>1, <1>3, <1>4, <1>5
  DEF Next, vars, InSend, CallClose, InClose, MarkClosed, WakeWorker, PassOnce, CloseReturnsNow,
      Take, Write, WriteFails, WriteLine, StartDrain, EndDrain, Stop, EvictIdle

-----------------------------------------------------------------------------
\* Type correctness.

\* What the worker has in hand is an event.
LEMMA HandType ==
  ASSUME TypeOK, WorkerInv, worker \in {"write", "flush"}
  PROVE  inHand \in Events /\ inHand # NoEvent
  BY DEF TypeOK, WorkerInv

SendTypeOK == /\ calls \in 0 .. MaxSends
              /\ pc \in [Senders -> {"idle", "check", "try", "drain", "send"}]
              /\ event \in [Senders -> 0 .. MaxSends]
              /\ returned \subseteq Events /\ refused \subseteq returned
              /\ earlier \in [Events -> SUBSET Events]
              /\ inTime \subseteq returned

QueueTypeOK == queue \in Seq(Events) /\ Len(queue) <= Capacity /\ drops \in Nat

WorkerTypeOK == /\ done \in BOOLEAN /\ files \subseteq Paths
                /\ worker \in {"run", "write", "drain", "flush", "closing", "stopped"}
                /\ inHand \in Events \cup {NoEvent}
                /\ written \in Seq(Events) /\ failed \subseteq Events

CloseTypeOK == /\ isClosed \in BOOLEAN /\ closed \in BOOLEAN
               /\ once \in [Closers -> {"idle", "once", "store", "wait", "returned"}]

\* The types hold at first ...
LEMMA TypeInit == Init => TypeOK
<1> SUFFICES ASSUME Init PROVE TypeOK
  OBVIOUS
<1>1. <<>> \in Seq(Events) /\ Len(<<>>) = 0
  BY EmptySeq
<1>2. queue \in Seq(Events) /\ Len(queue) <= Capacity /\ written \in Seq(Events)
  BY <1>1, CapacityPositive DEF Init
<1>3. SendTypeOK
  BY FileSinkAssumption DEF Init, SendTypeOK
<1>4. WorkerTypeOK /\ CloseTypeOK
  BY <1>2 DEF Init, WorkerTypeOK, CloseTypeOK
<1> QED
  BY <1>2, <1>3, <1>4 DEF Init, TypeOK, SendTypeOK, WorkerTypeOK, CloseTypeOK

\* ... and every step preserves them.
LEMMA TypeStep == TypeOK /\ CallInv /\ PlaceInv /\ WorkerInv /\ [Next]_vars => TypeOK'
<1> SUFFICES ASSUME TypeOK, CallInv, PlaceInv, WorkerInv, [Next]_vars PROVE TypeOK'
  OBVIOUS
<1>a. SendTypeOK /\ QueueTypeOK /\ WorkerTypeOK /\ CloseTypeOK
  BY DEF TypeOK, SendTypeOK, QueueTypeOK, WorkerTypeOK, CloseTypeOK
<1>b. SendTypeOK' /\ QueueTypeOK' /\ WorkerTypeOK' /\ CloseTypeOK' => TypeOK'
  BY DEF TypeOK, SendTypeOK, QueueTypeOK, WorkerTypeOK, CloseTypeOK
<1>c. UNCHANGED sendVars /\ UNCHANGED inTime => SendTypeOK'
  BY <1>a DEF sendVars, SendTypeOK
<1>d. UNCHANGED queueVars => QueueTypeOK'
  BY <1>a DEF queueVars, QueueTypeOK, Capacity
<1>e. UNCHANGED workerVars => WorkerTypeOK'
  BY <1>a DEF workerVars, WorkerTypeOK
<1>f. UNCHANGED closeVars => CloseTypeOK' /\ UNCHANGED inTime
  BY <1>a DEF closeVars, CloseTypeOK
<1>g. Capacity \in Nat \ {0} /\ Capacity' = Capacity
  BY CapacityPositive DEF Capacity
<1> USE <1>a, <1>b, <1>c, <1>d, <1>e, <1>f
<1>1. ASSUME NEW p \in Senders, Call(p) PROVE TypeOK'
  <2>1. calls + 1 \in Events /\ calls + 1 \in 0 .. MaxSends
    BY <1>1, FileSinkAssumption DEF Call, SendTypeOK, Events
  <2>2. SendTypeOK'
    BY <1>1, <2>1 DEF Call, SendTypeOK
  <2> QED
    BY <1>1, <2>2 DEF Call
<1>2. ASSUME NEW p \in Senders, InSend(p) PROVE TypeOK'
  <2>1. UNCHANGED <<closeVars, workerVars>>
    BY <1>2 DEF InSend, Refuse, Accept, TryEnqueue, TryFull, Discard, Enqueue
  <2>2. pc[p] # "idle"
    BY <1>2 DEF InSend, Refuse, Accept, TryEnqueue, TryFull, Discard, Enqueue
  <2>3. event[p] \in Events
    BY <2>2, FileSinkAssumption DEF CallInv, SendTypeOK, Events
  <2>4. SendTypeOK'
    <3>1. UNCHANGED <<event, calls, earlier>> /\ UNCHANGED inTime
      BY <1>2, <2>1 DEF InSend, Refuse, Accept, TryEnqueue, TryFull, Discard, Enqueue
    <3>2. pc' \in [Senders -> {"idle", "check", "try", "drain", "send"}]
      BY <1>2 DEF InSend, Refuse, Accept, TryEnqueue, TryFull, Discard, Enqueue, Return, SendTypeOK
    <3>3. \/ UNCHANGED <<returned, refused>>
          \/ returned' = returned \cup {event[p]} /\ UNCHANGED refused
          \/ returned' = returned \cup {event[p]} /\ refused' = refused \cup {event[p]}
      BY <1>2 DEF InSend, Refuse, Accept, TryEnqueue, TryFull, Discard, Enqueue, Return
    <3>4. returned' \subseteq Events /\ refused' \subseteq returned' /\ returned \subseteq returned'
      BY <2>3, <3>3 DEF SendTypeOK
    <3> QED
      BY <3>1, <3>2, <3>4 DEF SendTypeOK
  <2>5. QueueTypeOK'
    <3>1. CASE queue' = Append(queue, event[p]) /\ Room /\ UNCHANGED drops
      <4>1. queue' \in Seq(Events) /\ Len(queue) \in Nat /\ Len(queue') = Len(queue) + 1
        BY <2>3, <3>1, Appended DEF QueueTypeOK
      <4> QED
        BY <1>g, <3>1, <4>1 DEF QueueTypeOK, Room
    <3>2. CASE queue # <<>> /\ queue' = Tail(queue) /\ drops' = drops + 1
      <4>1. queue' \in Seq(Events) /\ Len(queue) \in Nat /\ Len(queue') = Len(queue) - 1
        BY <3>2, Shortened DEF QueueTypeOK, PlaceInv
      <4> QED
        BY <1>g, <3>2, <4>1 DEF QueueTypeOK
    <3>3. CASE queue' = queue /\ drops' \in {drops, drops + 1}
      BY <1>g, <3>3 DEF QueueTypeOK
    <3> QED
      BY <1>2, <3>1, <3>2, <3>3
      DEF InSend, Refuse, Accept, TryEnqueue, TryFull, Discard, Enqueue, Queued, MadeRoom,
          Counted, queueVars
  <2> QED
    BY <2>1, <2>4, <2>5
<1>3. ASSUME Take PROVE TypeOK'
  <2>1. queue # <<>> /\ queue' = Tail(queue) /\ inHand' = Head(queue)
        /\ UNCHANGED <<drops, closeVars, sendVars>>
    BY <1>3 DEF Take, Rest
  <2>2. queue' \in Seq(Events) /\ Len(queue) \in Nat /\ Len(queue') = Len(queue) - 1
        /\ Head(queue) \in Events
    BY <2>1, Shortened DEF QueueTypeOK, PlaceInv
  <2>3. QueueTypeOK'
    BY <1>g, <2>1, <2>2 DEF QueueTypeOK
  <2>4. worker' \in {"write", "flush"}
    BY <1>3 DEF Take, Looping
  <2>5. WorkerTypeOK'
    BY <1>3, <2>1, <2>2, <2>4 DEF Take, WorkerTypeOK
  <2> QED
    BY <2>1, <2>3, <2>5
<1>4. ASSUME Write PROVE TypeOK'
  <2>1. inHand \in Events /\ worker' \in {"run", "drain"}
    BY <1>4, HandType DEF Write, WriteFails, WriteLine, Back
  <2>2. Append(written, inHand) \in Seq(Events)
    BY <2>1, Appended DEF WorkerTypeOK
  <2>3. WorkerTypeOK'
    BY <1>4, <2>1, <2>2 DEF Write, WriteFails, WriteLine, WorkerTypeOK
  <2> QED
    BY <1>4, <2>3 DEF Write, WriteFails, WriteLine
<1>5. ASSUME StartDrain \/ EndDrain \/ Stop \/ \E stale \in SUBSET files : EvictIdle(stale)
      PROVE  TypeOK'
  <2>1. WorkerTypeOK'
    BY <1>5 DEF StartDrain, SeesClose, EndDrain, Stop, EvictIdle, WorkerTypeOK
  <2> QED
    BY <1>5, <2>1 DEF StartDrain, EndDrain, Stop, EvictIdle
<1>6. ASSUME NEW c \in Closers, CallClose(c) \/ InClose(c) PROVE TypeOK'
  <2>1. CloseTypeOK'
    BY <1>6 DEF CallClose, InClose, MarkClosed, WakeWorker, PassOnce, CloseReturnsNow, CloseTypeOK
  <2>2. UNCHANGED <<queueVars, workerVars, sendVars>> /\ inTime' \in {inTime, returned}
    BY <1>6 DEF CallClose, InClose, MarkClosed, WakeWorker, PassOnce, CloseReturnsNow
  <2>3. SendTypeOK'
    BY <2>2 DEF sendVars, SendTypeOK
  <2> QED
    BY <2>1, <2>2, <2>3
<1>7. CASE UNCHANGED vars
  BY <1>7 DEF vars
<1> QED
  BY <1>1, <1>2, <1>3, <1>4, <1>5, <1>6, <1>7 DEF Next

-----------------------------------------------------------------------------
\* Where the events are.

\* The event of a Send under way is nowhere yet, and no earlier event waited for it.
LEMMA NewEvent ==
  ASSUME TypeOK, CallInv, PlaceInv, NEW p \in Senders, pc[p] # "idle"
  PROVE  /\ event[p] \in Events /\ event[p] \notin returned
         /\ event[p] \notin refused /\ event[p] \notin Present
         /\ \A e \in Events : event[p] \notin earlier[e]
<1>1. event[p] \in 1 .. calls /\ event[p] \notin returned
  BY DEF CallInv
<1>2. event[p] \in Events
  BY <1>1, FileSinkAssumption DEF TypeOK, Events
<1> QED
  BY <1>1, <1>2 DEF TypeOK, PlaceInv, CallInv

\* NoEvent is no event.
LEMMA NoEventOutside == NoEvent \notin Events
  BY FileSinkAssumption DEF Events

\* The queue without its oldest event.
LEMMA QueueShortened ==
  ASSUME TypeOK, PlaceInv, queue # <<>>, queue' = Tail(queue)
  PROVE  /\ Len(queue) \in Nat /\ Len(queue') = Len(queue) - 1
         /\ \A i \in 1 .. Len(queue') : i + 1 \in 1 .. Len(queue) /\ queue'[i] = queue[i + 1]
         /\ Elements(queue') = Elements(queue) \ {Head(queue)}
         /\ Head(queue) = queue[1] /\ 1 \in 1 .. Len(queue)
         /\ Head(queue) \in Elements(queue) /\ Head(queue) \in Events
<1>1. queue \in Seq(Events) /\ \A i, j \in 1 .. Len(queue) : queue[i] = queue[j] => i = j
  BY DEF TypeOK, PlaceInv
<1>2. /\ Head(queue) \in Events /\ Head(queue) = queue[1]
      /\ Len(queue) \in Nat /\ Len(queue) >= 1 /\ Len(Tail(queue)) = Len(queue) - 1
      /\ \A i \in 1 .. Len(Tail(queue)) : i + 1 \in 1 .. Len(queue) /\ Tail(queue)[i] = queue[i + 1]
      /\ Elements(Tail(queue)) = Elements(queue) \ {Head(queue)}
      /\ Head(queue) \in Elements(queue)
  BY <1>1, Shortened
<1>3. 1 \in 1 .. Len(queue)
  BY <1>2
<1>4. Elements(queue') = Elements(queue) \ {Head(queue)}
  BY <1>2, Zenon
<1>5. Len(queue') = Len(Tail(queue)) /\ \A i : queue'[i] = Tail(queue)[i]
  OBVIOUS
<1> QED
  BY <1>2, <1>3, <1>4, <1>5

\* PlaceInv is inductive.
LEMMA PlaceStep == TypeOK /\ CallInv /\ PlaceInv /\ WorkerInv /\ [Next]_vars => PlaceInv'
<1> SUFFICES ASSUME TypeOK, CallInv, PlaceInv, WorkerInv, [Next]_vars PROVE PlaceInv'
  OBVIOUS
<1>a. queue \in Seq(Events) /\ written \in Seq(Events)
  BY DEF TypeOK
<1>b. UNCHANGED <<queueVars, LineVars>> => UNCHANGED Present
  BY DEF queueVars, LineVars, Present, Elements
<1>c. UNCHANGED queueVars => Elements(queue') = Elements(queue)
  BY DEF queueVars
<1>1. ASSUME UNCHANGED <<queueVars, LineVars>>, Present \subseteq returned' \ refused'
      PROVE  PlaceInv'
  BY <1>1, <1>b DEF queueVars, LineVars, PlaceInv, Elements
<1>2. ASSUME NEW p \in Senders, Begins(p) PROVE PlaceInv'
  BY <1>1, <1>2 DEF Begins, PlaceInv
<1>3. ASSUME NEW p \in Senders, Refuses(p) PROVE PlaceInv'
  <2>1. Present \subseteq returned' \ refused'
    BY <1>3, NewEvent DEF Refuses, Ends, PlaceInv
  <2> QED
    BY <1>1, <1>3, <2>1 DEF Refuses, Ends
<1>4. ASSUME NEW p \in Senders, Drops(p) PROVE PlaceInv'
  <2>1. Present \subseteq returned' \ refused'
    BY <1>4 DEF Drops, Ends, PlaceInv
  <2>2. UNCHANGED <<queue, LineVars>>
    BY <1>4 DEF Drops, Ends
  <2> QED
    BY <2>1, <2>2 DEF LineVars, PlaceInv, Present, Elements
<1>5. ASSUME NEW p \in Senders, Puts(p) PROVE PlaceInv'
  <2>1. /\ event[p] \in Events /\ event[p] \notin refused /\ event[p] \notin Present
        /\ returned' = returned \cup {event[p]} /\ refused' = refused
        /\ UNCHANGED <<inHand, written, failed>>
    BY <1>5, NewEvent DEF Puts, Ends, LineVars
  <2>2. /\ Len(queue) \in Nat /\ Len(queue') = Len(queue) + 1
        /\ \A i \in 1 .. Len(queue) : queue'[i] = queue[i] /\ queue[i] \in Elements(queue)
        /\ queue'[Len(queue) + 1] = event[p]
        /\ Elements(queue') = Elements(queue) \cup {event[p]}
    BY <1>5, <1>a, <2>1, Appended DEF Puts, Elements
  <2>3. \A i, j \in 1 .. Len(queue') : queue'[i] = queue'[j] => i = j
    BY <2>1, <2>2 DEF PlaceInv, Present
  <2>4. Present' = Present \cup {event[p]}
    BY <2>1, <2>2 DEF Present
  <2>5. event[p] \notin Elements(written) \cup failed /\ event[p] # inHand
    BY <2>1, NoEventOutside DEF Present
  <2>6. Present' \subseteq returned' \ refused'
    BY <2>1, <2>4 DEF PlaceInv
  <2> QED
    BY <2>1, <2>2, <2>3, <2>5, <2>6 DEF PlaceInv
<1>6. ASSUME DropsOldest PROVE PlaceInv'
  <2>1. /\ Len(queue) \in Nat /\ Len(queue') = Len(queue) - 1
        /\ \A i \in 1 .. Len(queue') : i + 1 \in 1 .. Len(queue) /\ queue'[i] = queue[i + 1]
        /\ Elements(queue') = Elements(queue) \ {Head(queue)}
    BY <1>6, QueueShortened DEF DropsOldest
  <2>2. UNCHANGED <<inHand, written, failed, returned, refused>>
    BY <1>6 DEF DropsOldest, LineVars
  <2>3. \A i, j \in 1 .. Len(queue') : queue'[i] = queue'[j] => i = j
    BY <2>1 DEF PlaceInv
  <2>4. Present' \subseteq Present
    BY <2>1, <2>2 DEF Present
  <2> QED
    BY <2>1, <2>2, <2>3, <2>4 DEF PlaceInv
<1>7. ASSUME Takes PROVE PlaceInv'
  <2>1. /\ Len(queue) \in Nat /\ Len(queue') = Len(queue) - 1
        /\ \A i \in 1 .. Len(queue') : i + 1 \in 1 .. Len(queue) /\ queue'[i] = queue[i + 1]
        /\ Elements(queue') = Elements(queue) \ {Head(queue)}
        /\ Head(queue) \in Elements(queue)
    BY <1>7, QueueShortened DEF Takes
  <2>2. UNCHANGED <<written, failed, returned, refused>> /\ inHand' = Head(queue)
    BY <1>7 DEF Takes
  <2>3. \A i, j \in 1 .. Len(queue') : queue'[i] = queue'[j] => i = j
    BY <2>1 DEF PlaceInv
  <2>4. Present' \subseteq Present
    BY <2>1, <2>2 DEF Present
  <2> QED
    BY <2>1, <2>2, <2>3, <2>4 DEF PlaceInv
<1>8. ASSUME NEW ok \in BOOLEAN, PutsDown(ok) PROVE PlaceInv'
  <2>1. inHand \in Events /\ inHand # NoEvent
    BY <1>8, HandType DEF PutsDown
  <2>2. UNCHANGED <<queue, returned, refused>> /\ inHand' = NoEvent
    BY <1>8 DEF PutsDown, queueVars
  <2>3. inHand' \notin Elements(queue) \cup Elements(written') \cup failed'
    <3>1. Elements(queue) \subseteq Events /\ Elements(written) \subseteq Events /\ failed \subseteq Events
      BY <1>a DEF TypeOK, Elements
    <3>2. Elements(written') \subseteq Elements(written) \cup {inHand}
      <4>1. CASE written' = Append(written, inHand)
        BY <1>a, <2>1, <4>1, Appended DEF Elements
      <4>2. CASE written' = written
        BY <4>2
      <4> QED
        BY <1>8, <4>1, <4>2 DEF PutsDown
    <3> QED
      BY <1>8, <2>1, <2>2, <3>1, <3>2, NoEventOutside DEF PutsDown
  <2>4. CASE ok
    <3>1. /\ Len(written) \in Nat /\ Len(written') = Len(written) + 1
          /\ \A i \in 1 .. Len(written) : written'[i] = written[i] /\ written[i] \in Elements(written)
          /\ written'[Len(written) + 1] = inHand
          /\ Elements(written') = Elements(written) \cup {inHand} /\ failed' = failed
      BY <1>8, <1>a, <2>1, <2>4, Appended DEF PutsDown, Elements
    <3>2. \A i, j \in 1 .. Len(written') : written'[i] = written'[j] => i = j
      BY <3>1 DEF PlaceInv
    <3>3. Present' \subseteq Present
      BY <2>1, <2>2, <3>1 DEF Present
    <3> QED
      BY <2>2, <2>3, <3>1, <3>2, <3>3 DEF PlaceInv
  <2>5. CASE ~ok
    <3>1. written' = written /\ failed' = failed \cup {inHand}
      BY <1>8, <2>5 DEF PutsDown
    <3>2. Present' \subseteq Present
      BY <2>1, <2>2, <3>1 DEF Present
    <3> QED
      BY <2>2, <2>3, <3>1, <3>2 DEF PlaceInv
  <2> QED
    BY <2>4, <2>5
<1>9. CASE UNCHANGED <<queueVars, LineVars, calls, returned, refused, earlier>>
  BY <1>1, <1>9 DEF PlaceInv
<1> QED
  BY <1>2, <1>3, <1>4, <1>5, <1>6, <1>7, <1>8, <1>9, StepData DEF DataStep

-----------------------------------------------------------------------------
\* The drop counter.

\* The events gone can be counted.
LEMMA GoneFinite == ASSUME TypeOK, CallInv PROVE IsFiniteSet(Gone) /\ Cardinality(Gone) \in Nat
<1>1. IsFiniteSet(1 .. calls)
  BY FS_Interval DEF TypeOK
<1>2. Gone \subseteq 1 .. calls
  BY DEF Gone, CallInv
<1> QED
  BY <1>1, <1>2, FS_Subset, FS_CardinalityType

\* What becomes of Present: an event comes in when it is queued, and moves on with the
\* worker.
LEMMA PresentStep ==
  ASSUME TypeOK, CallInv, PlaceInv, WorkerInv
  PROVE  /\ \A p \in Senders : Puts(p) => Present' = Present \cup {event[p]}
         /\ DropsOldest => Present' = Present \ {Head(queue)} /\ Head(queue) \in Present
         /\ Takes => Present' = Present
         /\ \A ok \in BOOLEAN : PutsDown(ok) => Present' = Present
<1>a. queue \in Seq(Events) /\ written \in Seq(Events)
  BY DEF TypeOK
<1>1. ASSUME NEW p \in Senders, Puts(p) PROVE Present' = Present \cup {event[p]}
  <2>1. event[p] \in Events /\ queue' = Append(queue, event[p]) /\ UNCHANGED LineVars
    BY <1>1, NewEvent DEF Puts, Ends
  <2>2. Elements(queue') = Elements(queue) \cup {event[p]}
    BY <1>a, <2>1, Appended DEF Elements
  <2> QED
    BY <2>1, <2>2 DEF LineVars, Present
<1>2. ASSUME DropsOldest PROVE Present' = Present \ {Head(queue)} /\ Head(queue) \in Present
  <2>1. Elements(queue') = Elements(queue) \ {Head(queue)} /\ Head(queue) \in Elements(queue)
        /\ Head(queue) \in Events
    BY <1>2, QueueShortened DEF DropsOldest
  <2>2. Head(queue) \notin Elements(written) \cup failed /\ Head(queue) # inHand
    BY <2>1 DEF PlaceInv
  <2> QED
    BY <1>2, <2>1, <2>2 DEF DropsOldest, LineVars, Present
<1>3. ASSUME Takes PROVE Present' = Present
  <2>1. Elements(queue') = Elements(queue) \ {Head(queue)} /\ Head(queue) \in Elements(queue)
        /\ Head(queue) \in Events
    BY <1>3, QueueShortened DEF Takes
  <2>2. inHand = NoEvent /\ inHand' = Head(queue) /\ Head(queue) # NoEvent
    BY <1>3, <2>1, NoEventOutside DEF Takes, WorkerInv
  <2> QED
    BY <1>3, <2>1, <2>2 DEF Takes, Present
<1>4. ASSUME NEW ok \in BOOLEAN, PutsDown(ok) PROVE Present' = Present
  <2>1. inHand \in Events /\ inHand # NoEvent
    BY <1>4, HandType DEF PutsDown
  <2>2. Elements(written') \cup failed' = Elements(written) \cup failed \cup {inHand}
    <3>1. CASE ok
      <4>1. Elements(written') = Elements(written) \cup {inHand} /\ failed' = failed
        BY <1>4, <1>a, <2>1, <3>1, Appended DEF PutsDown, Elements
      <4> QED
        BY <4>1
    <3>2. CASE ~ok
      BY <1>4, <3>2 DEF PutsDown
    <3> QED
      BY <3>1, <3>2
  <2> QED
    BY <1>4, <2>1, <2>2 DEF PutsDown, queueVars, Present
<1> QED
  BY <1>1, <1>2, <1>3, <1>4

\* DropInv is inductive: the counter goes up whenever an event goes.
LEMMA DropStep ==
  TypeOK /\ CallInv /\ PlaceInv /\ WorkerInv /\ DropInv /\ [Next]_vars => DropInv'
<1> SUFFICES ASSUME TypeOK, CallInv, PlaceInv, WorkerInv, DropInv, [Next]_vars PROVE DropInv'
  OBVIOUS
<1>1. ASSUME Gone' = Gone, UNCHANGED drops PROVE DropInv'
  BY <1>1 DEF DropInv
<1>2. ASSUME NEW e, e \notin Gone, Gone' = Gone \cup {e}, drops' = drops + 1 PROVE DropInv'
  <2>1. Cardinality(Gone \cup {e}) = Cardinality(Gone) + 1
    BY <1>2, GoneFinite, FS_AddElement
  <2> QED
    BY <1>2, <2>1 DEF DropInv
<1>3. ASSUME NEW p \in Senders, Begins(p) PROVE DropInv'
  BY <1>1, <1>3 DEF Begins, queueVars, LineVars, Gone, Present, Elements
<1>4. ASSUME NEW p \in Senders, Refuses(p) PROVE DropInv'
  <2>1. Present' = Present
    BY <1>4 DEF Refuses, Ends, queueVars, LineVars, Present, Elements
  <2>2. Gone' = Gone
    BY <1>4, <2>1, NewEvent DEF Refuses, Ends, Gone
  <2> QED
    BY <1>1, <1>4, <2>2 DEF Refuses, queueVars
<1>5. ASSUME NEW p \in Senders, Drops(p) PROVE DropInv'
  <2>1. Present' = Present
    BY <1>5 DEF Drops, Ends, LineVars, Present, Elements
  <2>2. event[p] \notin Gone /\ Gone' = Gone \cup {event[p]}
    BY <1>5, <2>1, NewEvent DEF Drops, Ends, Gone
  <2> QED
    BY <1>2, <1>5, <2>2 DEF Drops
<1>6. ASSUME NEW p \in Senders, Puts(p) PROVE DropInv'
  <2>1. Gone' = Gone
    BY <1>6, PresentStep, NewEvent DEF Puts, Ends, Gone
  <2> QED
    BY <1>1, <1>6, <2>1 DEF Puts
<1>7. ASSUME DropsOldest PROVE DropInv'
  <2>1. Present' = Present \ {Head(queue)} /\ Head(queue) \in Present
    BY <1>7, PresentStep
  <2>2. Head(queue) \notin Gone /\ Gone' = Gone \cup {Head(queue)}
    BY <1>7, <2>1 DEF DropsOldest, Gone, PlaceInv
  <2> QED
    BY <1>2, <1>7, <2>2 DEF DropsOldest
<1>8. ASSUME Takes \/ \E ok \in BOOLEAN : PutsDown(ok) PROVE DropInv'
  <2>1. Gone' = Gone
    BY <1>8, PresentStep DEF Takes, PutsDown, Gone
  <2> QED
    BY <1>1, <1>8, <2>1 DEF Takes, PutsDown, queueVars
<1>9. CASE UNCHANGED <<queueVars, LineVars, calls, returned, refused, earlier>>
  BY <1>1, <1>9 DEF queueVars, LineVars, Gone, Present, Elements
<1> QED
  BY <1>3, <1>4, <1>5, <1>6, <1>7, <1>8, <1>9, StepData DEF DataStep

-----------------------------------------------------------------------------
\* The order of the lines.

\* What is somewhere is an event of an earlier call.
LEMMA PresentOld ==
  ASSUME TypeOK, CallInv, PlaceInv
  PROVE  /\ \A i \in 1 .. Len(written) : written[i] \in Present
         /\ \A i \in 1 .. Len(queue) : queue[i] \in Present
         /\ inHand # NoEvent => inHand \in Present
         /\ Present \subseteq Events /\ calls + 1 \notin Present
<1>1. Present \subseteq 1 .. calls
  BY DEF PlaceInv, CallInv
<1>2. calls \in Nat /\ MaxSends \in Nat /\ calls <= MaxSends
  BY FileSinkAssumption DEF TypeOK
<1>3. Present \subseteq Events /\ calls + 1 \notin Present
  BY <1>1, <1>2 DEF Events
<1> QED
  BY <1>3 DEF Present, Elements

\* OrderInv is inductive.
LEMMA OrderStep ==
  TypeOK /\ CallInv /\ PlaceInv /\ WorkerInv /\ OrderInv /\ [Next]_vars => OrderInv'
<1> SUFFICES ASSUME TypeOK, CallInv, PlaceInv, WorkerInv, OrderInv, [Next]_vars PROVE OrderInv'
  OBVIOUS
<1>a. queue \in Seq(Events) /\ written \in Seq(Events)
  BY DEF TypeOK
<1>1. ASSUME UNCHANGED <<queue, LineVars>>, \A e \in Present : earlier'[e] = earlier[e]
      PROVE  OrderInv'
  <2>1. UNCHANGED <<queue, inHand, written>>
    BY <1>1 DEF LineVars
  <2>2. \A e \in Elements(written) \cup Elements(queue) : e \in Present
    BY DEF Present
  <2>3. \A i \in 1 .. Len(written) : earlier'[written[i]] = earlier[written[i]]
    BY <1>1, PresentOld
  <2>4. \A i \in 1 .. Len(queue) : earlier'[queue[i]] = earlier[queue[i]]
    BY <1>1, PresentOld
  <2>5. inHand # NoEvent => earlier'[inHand] = earlier[inHand]
    BY <1>1, PresentOld
  <2>6. SendOrder'
    BY <2>1, <2>3 DEF OrderInv, SendOrder
  <2>7. \A e \in Elements(written), f \in Elements(queue) : f \notin earlier'[e]
    BY <1>1, <2>2 DEF OrderInv
  <2> QED
    BY <2>1, <2>3, <2>4, <2>5, <2>6, <2>7 DEF OrderInv, Elements
<1>2. ASSUME NEW p \in Senders, Begins(p) PROVE OrderInv'
  <2>1. \A e \in Present : earlier'[e] = earlier[e]
    BY <1>2, PresentOld DEF Begins, TypeOK
  <2> QED
    BY <1>1, <1>2, <2>1 DEF Begins, queueVars
<1>3. ASSUME NEW p \in Senders, Refuses(p) \/ Drops(p) PROVE OrderInv'
  BY <1>1, <1>3 DEF Refuses, Drops, Ends, queueVars
<1>4. ASSUME NEW p \in Senders, Puts(p) PROVE OrderInv'
  <2>1. /\ event[p] \in Events /\ \A e \in Events : event[p] \notin earlier[e]
        /\ UNCHANGED <<inHand, written, earlier>>
    BY <1>4, NewEvent DEF Puts, Ends, LineVars
  <2>2. /\ Len(queue) \in Nat /\ Len(queue') = Len(queue) + 1
        /\ \A i \in 1 .. Len(queue) : queue'[i] = queue[i]
        /\ queue'[Len(queue) + 1] = event[p]
        /\ Elements(queue') = Elements(queue) \cup {event[p]}
    BY <1>4, <1>a, <2>1, Appended DEF Puts, Elements
  <2>3. \A i, j \in 1 .. Len(queue') : i < j => queue'[j] \notin earlier[queue'[i]]
    <3> SUFFICES ASSUME NEW i \in 1 .. Len(queue'), NEW j \in 1 .. Len(queue'), i < j
                 PROVE  queue'[j] \notin earlier[queue'[i]]
      OBVIOUS
    <3>1. i \in 1 .. Len(queue) /\ queue'[i] = queue[i] /\ queue[i] \in Events
      BY <2>2, PresentOld
    <3>2. j \in 1 .. Len(queue) \/ j = Len(queue) + 1
      BY <2>2
    <3> QED
      BY <2>1, <2>2, <3>1, <3>2 DEF OrderInv
  <2>4. \A e \in Elements(written) : e \in Events
    BY PresentOld DEF Present
  <2>5. \A e \in Elements(written), f \in Elements(queue') : f \notin earlier[e]
    BY <2>1, <2>2, <2>4 DEF OrderInv
  <2>6. inHand # NoEvent => \A f \in Elements(queue') : f \notin earlier[inHand]
    BY <2>1, <2>2, PresentOld DEF OrderInv
  <2>7. /\ SendOrder
        /\ \A i \in 1 .. Len(written) : inHand \notin earlier[written[i]]
    BY DEF OrderInv
  <2> QED
    BY <2>1, <2>3, <2>5, <2>6, <2>7 DEF OrderInv, SendOrder, Elements
<1>5. ASSUME queue # <<>>, queue' = Tail(queue), UNCHANGED <<written, earlier>>,
             inHand' \in {inHand, Head(queue)}
      PROVE  OrderInv'
  <2>1. /\ Len(queue) \in Nat /\ Len(queue') = Len(queue) - 1
        /\ \A i \in 1 .. Len(queue') : i + 1 \in 1 .. Len(queue) /\ queue'[i] = queue[i + 1]
        /\ Elements(queue') = Elements(queue) \ {Head(queue)}
        /\ Head(queue) = queue[1] /\ 1 \in 1 .. Len(queue)
        /\ Head(queue) \in Elements(queue)
    BY <1>5, QueueShortened
  <2>2. \A i, j \in 1 .. Len(queue') : i < j => queue'[j] \notin earlier[queue'[i]]
    <3> SUFFICES ASSUME NEW i \in 1 .. Len(queue'), NEW j \in 1 .. Len(queue'), i < j
                 PROVE  queue'[j] \notin earlier[queue'[i]]
      OBVIOUS
    <3>1. /\ i + 1 \in 1 .. Len(queue) /\ queue'[i] = queue[i + 1]
          /\ j + 1 \in 1 .. Len(queue) /\ queue'[j] = queue[j + 1] /\ i + 1 < j + 1
      BY <2>1
    <3> QED
      BY <3>1 DEF OrderInv
  <2>3. \A e \in Elements(written), f \in Elements(queue') : f \notin earlier[e]
    BY <2>1 DEF OrderInv
  <2>4. \A i \in 1 .. Len(written) : inHand' \notin earlier[written[i]]
    BY <1>5, <2>1 DEF OrderInv, Elements
  <2>5. inHand' # NoEvent => \A f \in Elements(queue') : f \notin earlier[inHand']
    <3>1. \A f \in Elements(queue') : f \notin earlier[queue[1]]
      <4> SUFFICES ASSUME NEW i \in 1 .. Len(queue') PROVE queue'[i] \notin earlier[queue[1]]
        BY DEF Elements
      <4>1. i + 1 \in 1 .. Len(queue) /\ queue'[i] = queue[i + 1] /\ 1 < i + 1
        BY <2>1
      <4> QED
        BY <2>1, <4>1 DEF OrderInv
    <3>2. inHand # NoEvent => \A f \in Elements(queue') : f \notin earlier[inHand]
      BY <2>1 DEF OrderInv
    <3> QED
      BY <1>5, <2>1, <3>1, <3>2
  <2>6. SendOrder
    BY DEF OrderInv
  <2> QED
    BY <1>5, <2>2, <2>3, <2>4, <2>5, <2>6 DEF OrderInv, SendOrder, Elements
<1>6. ASSUME DropsOldest \/ Takes PROVE OrderInv'
  BY <1>5, <1>6 DEF DropsOldest, Takes, LineVars
<1>7. ASSUME NEW ok \in BOOLEAN, PutsDown(ok) PROVE OrderInv'
  <2>1. inHand \in Events /\ inHand # NoEvent
    BY <1>7, HandType DEF PutsDown
  <2>2. UNCHANGED <<queue, earlier>> /\ inHand' = NoEvent
    BY <1>7 DEF PutsDown, queueVars
  <2>3. \A e \in Events : NoEvent \notin earlier[e]
    BY NoEventOutside DEF TypeOK
  <2>4. CASE ok
    <3>1. /\ Len(written) \in Nat /\ Len(written') = Len(written) + 1
          /\ \A i \in 1 .. Len(written) : written'[i] = written[i]
          /\ written'[Len(written) + 1] = inHand
          /\ Elements(written') = Elements(written) \cup {inHand}
      BY <1>7, <1>a, <2>1, <2>4, Appended DEF PutsDown, Elements
    <3>2. \A i \in 1 .. Len(written') :
            (i \in 1 .. Len(written) /\ written'[i] = written[i]) \/ i = Len(written) + 1
      BY <3>1
    <3>3. \A i, j \in 1 .. Len(written') : i < j => written'[j] \notin earlier[written'[i]]
      <4> SUFFICES ASSUME NEW i \in 1 .. Len(written'), NEW j \in 1 .. Len(written'), i < j
                   PROVE  written'[j] \notin earlier[written'[i]]
        OBVIOUS
      <4>1. i \in 1 .. Len(written) /\ written'[i] = written[i]
        BY <3>1
      <4> QED
        BY <3>1, <3>2, <4>1 DEF OrderInv, SendOrder
    <3>4. \A i \in 1 .. Len(written') : NoEvent \notin earlier[written'[i]]
      <4>1. \A i \in 1 .. Len(written') : written'[i] \in Events
        BY <2>1, <3>1, <3>2, PresentOld
      <4> QED
        BY <2>3, <4>1
    <3>5. \A e \in Elements(written'), f \in Elements(queue) : f \notin earlier[e]
      BY <2>1, <3>1 DEF OrderInv
    <3> QED
      BY <2>2, <3>3, <3>4, <3>5 DEF OrderInv, SendOrder, Elements
  <2>5. CASE ~ok
    <3>1. written' = written
      BY <1>7, <2>5 DEF PutsDown
    <3>2. \A i \in 1 .. Len(written) : NoEvent \notin earlier[written[i]]
      BY <2>3, PresentOld
    <3> QED
      BY <2>2, <3>1, <3>2 DEF OrderInv, SendOrder, Elements
  <2> QED
    BY <2>4, <2>5
<1>8. CASE UNCHANGED <<queueVars, LineVars, calls, returned, refused, earlier>>
  BY <1>1, <1>8 DEF queueVars
<1> QED
  BY <1>2, <1>3, <1>4, <1>6, <1>7, <1>8, StepData DEF DataStep

-----------------------------------------------------------------------------
\* The shutdown.

\* WorkerInv is inductive.
LEMMA WorkerStep ==
  TypeOK /\ CallInv /\ PlaceInv /\ WorkerInv /\ [Next]_vars => WorkerInv'
<1> SUFFICES ASSUME TypeOK, CallInv, PlaceInv, WorkerInv, [Next]_vars PROVE WorkerInv'
  OBVIOUS
<1>a. queue \in Seq(Events)
  BY DEF TypeOK
\* Nothing that was sent in time is queued any more once the worker has drained.
<1>b. ASSUME UNCHANGED <<worker, inTime>>, Elements(queue') \cap inTime \subseteq Elements(queue)
      PROVE  worker' \in {"closing", "stopped"} => Elements(queue') \cap inTime' = {}
  BY <1>b DEF WorkerInv
<1>1. ASSUME NEW p \in Senders, Call(p) \/ InSend(p) PROVE WorkerInv'
  <2>1. UNCHANGED <<closeVars, workerVars>>
    BY <1>1 DEF Call, InSend, Refuse, Accept, TryEnqueue, TryFull, Discard, Enqueue
  <2>2. Elements(queue') \cap inTime \subseteq Elements(queue)
    <3>1. CASE queue' = Append(queue, event[p]) /\ pc[p] # "idle"
      <4>1. event[p] \in Events /\ event[p] \notin inTime
        BY <3>1, NewEvent DEF TypeOK
      <4>2. Elements(queue') = Elements(queue) \cup {event[p]}
        BY <1>a, <3>1, <4>1, Appended DEF Elements
      <4> QED
        BY <4>1, <4>2
    <3>2. CASE queue # <<>> /\ queue' = Tail(queue)
      BY <3>2, QueueShortened
    <3>3. CASE queue' = queue
      BY <3>3
    <3> QED
      BY <1>1, <3>1, <3>2, <3>3
      DEF Call, InSend, Refuse, Accept, TryEnqueue, TryFull, Discard, Enqueue, Queued, MadeRoom,
          queueVars
  <2>3. worker' \in {"closing", "stopped"} => Elements(queue') \cap inTime' = {}
    BY <1>b, <2>1, <2>2 DEF closeVars, workerVars
  <2> QED
    BY <2>1, <2>3 DEF closeVars, workerVars, WorkerInv
<1>2. ASSUME Take PROVE WorkerInv'
  <2>1. /\ inHand' = Head(queue) /\ queue # <<>> /\ worker' = IF worker = "run" THEN "write" ELSE "flush"
        /\ worker \in {"run", "drain"} /\ UNCHANGED <<closeVars, done, files>>
    BY <1>2 DEF Take, Looping
  <2>2. Head(queue) # NoEvent
    <3>1. Head(queue) \in Events
      BY <1>2, QueueShortened DEF Take, Rest
    <3> QED
      BY <3>1, NoEventOutside
  <2> QED
    BY <2>1, <2>2 DEF closeVars, WorkerInv
<1>3. ASSUME Write PROVE WorkerInv'
  BY <1>3 DEF Write, WriteFails, WriteLine, Back, queueVars, closeVars, WorkerInv
<1>4. ASSUME StartDrain PROVE WorkerInv'
  BY <1>4 DEF StartDrain, SeesClose, queueVars, closeVars, WorkerInv
<1>5. ASSUME EndDrain PROVE WorkerInv'
  <2>1. Elements(queue) = {}
    BY <1>5, EmptySeq DEF EndDrain, Drained, Elements
  <2> QED
    BY <1>5, <2>1 DEF EndDrain, queueVars, closeVars, WorkerInv, Elements
<1>6. ASSUME Stop PROVE WorkerInv'
  BY <1>6 DEF Stop, queueVars, closeVars, WorkerInv, Elements
<1>7. ASSUME NEW stale \in SUBSET files, EvictIdle(stale) PROVE WorkerInv'
  BY <1>7 DEF EvictIdle, queueVars, closeVars, WorkerInv
<1>8. ASSUME NEW c \in Closers, CallClose(c) \/ InClose(c) PROVE WorkerInv'
  <2>1. UNCHANGED <<queueVars, workerVars>>
    BY <1>8 DEF CallClose, InClose, MarkClosed, WakeWorker, PassOnce, CloseReturnsNow
  <2>2. closed' \/ (\E d \in Closers : once'[d] = "store") => isClosed'
    BY <1>8 DEF CallClose, InClose, MarkClosed, WakeWorker, PassOnce, CloseReturnsNow, WorkerInv, TypeOK
  <2>3. \A d \in Closers : once'[d] = "returned" => done
    BY <1>8 DEF CallClose, InClose, MarkClosed, WakeWorker, PassOnce, CloseReturnsNow, WorkerInv, TypeOK
  <2>4. worker \in {"closing", "stopped"} => UNCHANGED inTime
    BY <1>8 DEF CallClose, InClose, MarkClosed, WakeWorker, PassOnce, CloseReturnsNow, WorkerInv
  <2>5. closed => closed'
    BY <1>8 DEF CallClose, InClose, MarkClosed, WakeWorker, PassOnce, CloseReturnsNow
  <2> QED
    BY <2>1, <2>2, <2>3, <2>4, <2>5 DEF queueVars, workerVars, WorkerInv, Elements
<1>9. CASE UNCHANGED vars
  BY <1>9 DEF vars, queueVars, closeVars, workerVars, WorkerInv, Elements
<1> QED
  BY <1>1, <1>2, <1>3, <1>4, <1>5, <1>6, <1>7, <1>8, <1>9 DEF Next

-----------------------------------------------------------------------------
\* The theorems.

\* The inductive invariant holds at first ...
LEMMA IInvInit == Init => IInv
<1> SUFFICES ASSUME Init PROVE IInv
  OBVIOUS
<1>1. Elements(<<>>) = {}
  BY EmptySeq DEF Elements
<1>2. Len(<<>>) = 0
  BY EmptySeq
<1>3. Present = {} /\ Elements(queue) = {} /\ Elements(written) = {}
  BY <1>1 DEF Init, Present
<1>4. CallInv
  BY DEF Init, CallInv
<1>5. PlaceInv
  BY <1>2, <1>3 DEF Init, PlaceInv
<1>6. DropInv
  BY <1>3, FS_EmptySet DEF Init, DropInv, Gone
<1>7. OrderInv
  BY <1>2, <1>3 DEF Init, OrderInv, SendOrder
<1>8. WorkerInv
  BY DEF Init, WorkerInv
<1> QED
  BY <1>4, <1>5, <1>6, <1>7, <1>8, TypeInit DEF IInv

\* ... and every step preserves it.
LEMMA IInvStep == IInv /\ [Next]_vars => IInv'
  BY TypeStep, CallStep, PlaceStep, DropStep, OrderStep, WorkerStep DEF IInv

\* The inductive invariant of Send, the worker and Close holds in every behaviour.
THEOREM Invariance == Spec => []IInv
<1> QED
  BY IInvInit, IInvStep, PTL DEF Spec

\* The types, and with them the bound of the queue: it never holds more than Capacity
\* events.
THEOREM TypeCorrect == Spec => []TypeOK
<1>1. IInv => TypeOK
  BY DEF IInv
<1> QED
  BY <1>1, Invariance, PTL

\* Drops counts exactly the events that went through Send and are nowhere any more.
THEOREM DropsCounted == Spec => []DropsExact
<1>1. IInv => DropsExact
  <2> SUFFICES ASSUME IInv PROVE DropsExact
    OBVIOUS
  <2>1. ASSUME NEW e \in 1 .. calls
        PROVE  e \in returned <=> \A p \in Senders : event[p] = e => pc[p] = "idle"
    BY DEF IInv, CallInv
  <2>2. Gone = {e \in 1 .. calls :
                  /\ e \notin refused /\ e \notin Present
                  /\ \A p \in Senders : event[p] = e => pc[p] = "idle"}
    BY <2>1 DEF IInv, CallInv, Gone
  <2> QED
    BY <2>2 DEF IInv, DropInv, DropsExact
<1> QED
  BY <1>1, Invariance, PTL

\* No event is written twice, or queued or given up as well as written.
THEOREM WrittenOnce == Spec => []AtMostOnce
<1>1. IInv => AtMostOnce
  BY DEF IInv, PlaceInv, AtMostOnce
<1> QED
  BY <1>1, Invariance, PTL

\* The lines are in the order of the Sends that did not overlap.
THEOREM WrittenInOrder == Spec => []SendOrder
<1>1. IInv => SendOrder
  BY DEF IInv, OrderInv
<1> QED
  BY <1>1, Invariance, PTL

\* When a Close has returned, nothing whose Send had returned before is still waiting.
THEOREM CloseIsAFlush == Spec => []CloseFlushes
<1>1. IInv => CloseFlushes
  BY DEF IInv, WorkerInv, CloseFlushes
<1> QED
  BY <1>1, Invariance, PTL
=============================================================================
