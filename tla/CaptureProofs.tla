---------------------------- MODULE CaptureProofs ----------------------------
(***************************************************************************)
(* What MCCapture checks on a small instance, proved for any number of     *)
(* Events and any sizes of the two buffers.  The sink's part is inherited: *)
(* Capture implements FileSink, so its inductive invariant holds here.     *)
(***************************************************************************)
EXTENDS Capture, FileSinkProofs

\* The forwarder's buffer: it is caught up once the broadcaster is closed, and what the
\* forwarder got and missed is all that is not in it.
OpenInv ==
  /\ phase[Forwarder] \in {"live", "detached"}
  /\ open <=> phase[Forwarder] = "live"
  /\ open <=> hub = "open"

PlacesInv ==
  /\ lo[Forwarder] <= hi[Forwarder] /\ hi[Forwarder] <= published /\ published <= MaxPublished
  /\ phase[Forwarder] = "detached" => hi[Forwarder] = published
  /\ lo[Forwarder] = Len(sent) + missed[Forwarder]

StreamInv == OpenInv /\ PlacesInv

\* The Events go to Send in the order of publication, and the newest is never missed.
SentInv ==
  /\ \A i \in 1 .. Len(sent) : sent[i] <= lo[Forwarder]
  /\ \A i, j \in 1 .. Len(sent) : i < j => sent[i] < sent[j]
  /\ lo[Forwarder] = hi[Forwarder] /\ hi[Forwarder] > 0 =>
       Len(sent) > 0 /\ sent[Len(sent)] = hi[Forwarder]

\* There is one Send at a time.
SingleInv ==
  /\ \A e \in 1 .. calls : earlier[e] = 1 .. e - 1
  /\ pc[Forwarder] # "idle" => event[Forwarder] = calls

\* The newest event is never dropped by the sink: Send makes room before it has to give up,
\* and nobody else takes the place.
NewestInv ==
  /\ pc[Forwarder] = "send" => Room
  /\ pc[Forwarder] = "idle" /\ calls > 0 => calls \in Present

\* The sink is closed only when the forwarder is done.
ClosingInv ==
  /\ hub = "closed" => ForwarderDone
  /\ isClosed \/ once[Program] # "idle" => hub = "closed"
  /\ once[Program] \notin {"idle", "once"} => isClosed
  /\ isClosed => inTime = 1 .. calls
  /\ refused = {}

\* The inductive invariant of the composition.
CaptureInv == CaptureTypeOK /\ StreamInv /\ SentInv /\ SingleInv /\ NewestInv /\ ClosingInv

-----------------------------------------------------------------------------
\* The sink.

\* A step of the composition is one of the sink, or nothing happens to it.
LEMMA SinkInit == CaptureInit => Init
  BY DEF CaptureInit

\* Every step of the composition is one of the sink, or nothing happens to it.
LEMMA SinkStep == [CaptureNext]_allVars => [Next]_vars
<1> SUFFICES ASSUME [CaptureNext]_allVars PROVE [Next]_vars
  OBVIOUS
<1>a. Forwarder \in Senders /\ Program \in Closers
  BY CaptureAssumption
<1>1. CASE Emit \/ Deliver \/ CloseHub \/ HubCloseReturns \/ UNCHANGED allVars
  BY <1>1 DEF Emit, Deliver, CloseHub, HubCloseReturns, allVars
<1>2. CASE Forward \/ Sending
  BY <1>a, <1>2 DEF Forward, Sending, Next
<1>3. CASE CloseSink \/ SinkCloses
  BY <1>a, <1>3 DEF CloseSink, SinkCloses, Next
<1>4. CASE Work \/ NoticeClose \/ Evict
  BY <1>4 DEF Work, NoticeClose, Evict, Next
<1> QED
  BY <1>1, <1>2, <1>3, <1>4 DEF CaptureNext

\* The composition implements the sink on its own.
THEOREM ImplementsFileSink == CaptureSpec => Spec
<1> QED
  BY SinkInit, SinkStep, PTL DEF CaptureSpec, Spec

-----------------------------------------------------------------------------
\* The forwarder's stream.

\* What the actions do to it, for the one subscriber there is.
F == Forwarder

\* Nothing happens to it.
StreamIdle == UNCHANGED <<streamVars, sent>>

Publishes == /\ published < MaxPublished /\ open /\ (phase[F] = "live" => hi[F] = published)
             /\ published' = published + 1
             /\ UNCHANGED <<open, phase, lo, hi, last, missed, sent, hub>>

Offers(k) == /\ phase[F] = "live" /\ hi[F] < published
             /\ lo[F] + k <= hi[F] /\ hi[F] + 1 - (lo[F] + k) <= HubBufferSize
             /\ hi'[F] = hi[F] + 1 /\ lo'[F] = lo[F] + k /\ missed'[F] = missed[F] + k
             /\ UNCHANGED <<published, open, phase, last, sent, hub>>

Receives == /\ lo[F] < hi[F] /\ lo'[F] = lo[F] + 1 /\ last'[F] = lo[F] + 1
            /\ sent' = Append(sent, lo[F] + 1)
            /\ UNCHANGED <<published, open, phase, hi, missed, hub>>

Closes == /\ hub = "open" /\ hub' = "closing"
          /\ open' = FALSE /\ phase'[F] = "detached" /\ (phase[F] = "live" => hi[F] = published)
          /\ UNCHANGED <<published, lo, hi, last, missed, sent>>

\* What the steps of the composition do to the stream of the hub.
LEMMA StreamSteps ==
  ASSUME CaptureTypeOK, StreamInv, [CaptureNext]_allVars
  PROVE  /\ \/ Publishes
            \/ Offers(0)
            \/ Offers(1)
            \/ Receives
            \/ Closes
            \/ StreamIdle /\ UNCHANGED hub
            \/ StreamIdle /\ HubCloseReturns
         /\ Stream!WindowTypeOK'
<1>a. /\ phase \in [{F} -> {"fresh", "live", "detached"}] /\ hi \in [{F} -> Nat] /\ lo \in [{F} -> Nat]
      /\ last \in [{F} -> Nat] /\ missed \in [{F} -> Nat] /\ published \in Nat /\ open \in BOOLEAN
  BY DEF CaptureTypeOK, Stream!WindowTypeOK, F
<1>1. CASE Emit
  <2>1. Publishes
    BY <1>1, <1>a DEF Emit, Stream!Publish, Stream!Settled, Stream!Live, Publishes, F
  <2> QED
    BY <1>a, <2>1 DEF Publishes, Stream!WindowTypeOK, F
<1>2. CASE Deliver
  <2>1. PICK k \in {0, 1} :
          /\ phase[F] = "live" /\ hi[F] < published
          /\ lo[F] + k <= hi[F] /\ hi[F] + 1 - (lo[F] + k) <= HubBufferSize
          /\ hi' = [hi EXCEPT ![F] = @ + 1] /\ lo' = [lo EXCEPT ![F] = @ + k]
          /\ missed' = [missed EXCEPT ![F] = @ + k]
          /\ UNCHANGED <<published, open, phase, last, sent, hub>>
    BY <1>2 DEF Deliver, Stream!Offer, F
  <2>2. hi'[F] = hi[F] + 1 /\ lo'[F] = lo[F] + k /\ missed'[F] = missed[F] + k
    BY <1>a, <2>1
  <2>3. Offers(k)
    BY <2>1, <2>2 DEF Offers
  <2>4. /\ hi' \in [{F} -> Nat] /\ lo' \in [{F} -> Nat] /\ missed' \in [{F} -> Nat]
    BY <1>a, <2>1
  <2>5. Stream!WindowTypeOK'
    BY <1>a, <2>1, <2>4 DEF Stream!WindowTypeOK, F
  <2> QED
    BY <2>3, <2>5
<1>3. CASE Forward
  <2>1. /\ lo[F] < hi[F] /\ lo' = [lo EXCEPT ![F] = @ + 1] /\ last' = [last EXCEPT ![F] = lo[F] + 1]
        /\ sent' = Append(sent, lo[F] + 1)
        /\ UNCHANGED <<published, open, phase, hi, missed, hub>>
    BY <1>3 DEF Forward, Stream!Receive, F
  <2>2. Receives
    BY <1>a, <2>1 DEF Receives
  <2>3. lo' \in [{F} -> Nat] /\ last' \in [{F} -> Nat]
    BY <1>a, <2>1
  <2>4. Stream!WindowTypeOK'
    BY <1>a, <2>1, <2>3 DEF Stream!WindowTypeOK, F
  <2> QED
    BY <2>2, <2>4
<1>4. CASE CloseHub
  <2>1. /\ hub = "open" /\ hub' = "closing" /\ open' = FALSE
        /\ phase' = [s \in {F} |-> IF s \in Stream!Live THEN "detached" ELSE phase[s]]
        /\ (phase[F] = "live" => hi[F] = published)
        /\ UNCHANGED <<published, lo, hi, last, missed, sent>>
    BY <1>4 DEF CloseHub, Stream!CloseAll, Stream!Settled, Stream!Live, F
  <2>2. phase'[F] = "detached"
    BY <2>1 DEF StreamInv, OpenInv, Stream!Live, F
  <2>3. Stream!WindowTypeOK'
    BY <1>a, <2>1, <2>2 DEF Stream!WindowTypeOK, F
  <2> QED
    BY <2>1, <2>2, <2>3 DEF Closes
<1>5. CASE HubCloseReturns
  <2>1. StreamIdle
    BY <1>5 DEF HubCloseReturns, StreamIdle
  <2> QED
    BY <1>a, <1>5, <2>1 DEF StreamIdle, streamVars, Stream!WindowTypeOK, F
<1>6. CASE Sending \/ CloseSink \/ SinkCloses \/ Work \/ NoticeClose \/ Evict \/ UNCHANGED allVars
  <2>1. StreamIdle /\ UNCHANGED hub
    BY <1>6 DEF Sending, CloseSink, SinkCloses, Work, NoticeClose, Evict, allVars, captureVars, StreamIdle
  <2> QED
    BY <1>a, <2>1 DEF StreamIdle, streamVars, Stream!WindowTypeOK, F
<1> QED
  BY <1>1, <1>2, <1>3, <1>4, <1>5, <1>6 DEF CaptureNext

\* The stream of the hub stays a window with room for HubBufferSize events.
LEMMA StreamStep ==
  CaptureTypeOK /\ StreamInv /\ [CaptureNext]_allVars =>
    StreamInv' /\ (hi[F] - lo[F] <= HubBufferSize)'
<1> SUFFICES ASSUME CaptureTypeOK, StreamInv, [CaptureNext]_allVars
             PROVE  StreamInv' /\ (hi[F] - lo[F] <= HubBufferSize)'
  OBVIOUS
<1>a. /\ hi[F] \in Nat /\ lo[F] \in Nat /\ missed[F] \in Nat /\ published \in Nat
      /\ HubBufferSize \in Nat /\ MaxPublished \in Nat
      /\ hi[F] - lo[F] <= HubBufferSize /\ sent \in Seq(1 .. MaxPublished) /\ Len(sent) \in Nat
  BY CaptureAssumption, LenProperties DEF CaptureTypeOK, Stream!WindowTypeOK, F
<1>1. CASE Publishes
  BY <1>a, <1>1 DEF Publishes, StreamInv, OpenInv, PlacesInv, F
<1>2. ASSUME NEW k \in {0, 1}, Offers(k) PROVE StreamInv' /\ (hi[F] - lo[F] <= HubBufferSize)'
  <2>1. OpenInv'
    BY <1>2 DEF Offers, StreamInv, OpenInv, F
  <2>2. PlacesInv' /\ (hi[F] - lo[F] <= HubBufferSize)'
    <3>1. /\ hi[F] < published /\ lo[F] + k <= hi[F] /\ hi[F] + 1 - (lo[F] + k) <= HubBufferSize
          /\ hi'[F] = hi[F] + 1 /\ lo'[F] = lo[F] + k /\ missed'[F] = missed[F] + k
          /\ published' = published /\ sent' = sent /\ phase'[F] # "detached"
      BY <1>2 DEF Offers
    <3>2. lo[F] <= hi[F] /\ published <= MaxPublished /\ lo[F] = Len(sent) + missed[F]
      BY DEF StreamInv, PlacesInv, F
    <3>3. lo'[F] <= hi'[F] /\ hi'[F] <= published
      <4>1. \A l, h, p, j \in Int : l + j <= h /\ h < p => l + j <= h + 1 /\ h + 1 <= p
        OBVIOUS
      <4>2. lo[F] \in Int /\ hi[F] \in Int /\ published \in Int /\ k \in Int
        BY <1>a
      <4>3. lo[F] + k <= hi[F] + 1 /\ hi[F] + 1 <= published
        BY <4>1, <4>2, <3>1
      <4> QED
        BY <4>3, <3>1
    <3>4. hi'[F] - lo'[F] <= HubBufferSize
      <4>1. PICK n \in Int, m \in Int : n = hi[F] + 1 /\ m = lo[F] + k
        BY <1>a
      <4>2. n - m <= HubBufferSize
        <5>1. hi[F] + 1 - m <= HubBufferSize
          <6>1. hi[F] + 1 - (lo[F] + k) <= HubBufferSize
            BY <3>1
          <6>2. m = lo[F] + k
            BY <4>1
          <6> QED
            BY <6>1, <6>2
        <5>2. n = hi[F] + 1 /\ hi[F] \in Int /\ HubBufferSize \in Int
          BY <1>a, <4>1
        <5> QED
          BY <5>1, <5>2
      <4>3. hi'[F] = n /\ lo'[F] = m
        BY <3>1, <4>1
      <4> QED
        BY <4>2, <4>3, Zenon
    <3>5. lo'[F] = Len(sent) + missed'[F]
      BY <1>a, <3>1, <3>2
    <3> QED
      BY <3>1, <3>2, <3>3, <3>4, <3>5 DEF PlacesInv, F
  <2> QED
    BY <2>1, <2>2 DEF StreamInv
<1>3. CASE Receives
  <2>1. lo[F] + 1 \in 1 .. MaxPublished
    <3>1. lo[F] < hi[F] /\ hi[F] <= published /\ published <= MaxPublished
      BY <1>3 DEF Receives, StreamInv, PlacesInv, F
    <3> QED
      BY <1>a, <3>1
  <2>2. Len(sent') = Len(sent) + 1
    BY <1>a, <1>3, <2>1, AppendProperties DEF Receives
  <2>3. OpenInv'
    BY <1>3 DEF Receives, StreamInv, OpenInv, F
  <2>4. PlacesInv' /\ (hi[F] - lo[F] <= HubBufferSize)'
    <3>1. /\ lo[F] < hi[F] /\ lo'[F] = lo[F] + 1
          /\ published' = published /\ hi' = hi /\ missed' = missed /\ phase' = phase
      BY <1>3 DEF Receives
    <3>2. /\ hi[F] <= published /\ published <= MaxPublished /\ lo[F] = Len(sent) + missed[F]
          /\ phase[F] = "detached" => hi[F] = published
      BY DEF StreamInv, PlacesInv, F
    <3>3. lo'[F] <= hi[F] /\ hi[F] - lo'[F] <= HubBufferSize
      <4>1. /\ lo[F] \in Int /\ hi[F] \in Int /\ HubBufferSize \in Int
            /\ hi[F] - lo[F] <= HubBufferSize /\ lo[F] < hi[F]
        BY <1>a, <3>1
      <4>2. lo[F] + 1 <= hi[F] /\ hi[F] - (lo[F] + 1) <= HubBufferSize
        BY <4>1
      <4> QED
        BY <3>1, <4>2
    <3>4. lo'[F] = Len(sent') + missed[F]
      <4>1. \A n, m \in Int : (n + 1) + m = (n + m) + 1
        OBVIOUS
      <4>2. Len(sent) \in Int /\ missed[F] \in Int
        BY <1>a
      <4>3. (Len(sent) + 1) + missed[F] = (Len(sent) + missed[F]) + 1
        BY <4>1, <4>2
      <4> QED
        BY <2>2, <3>1, <3>2, <4>3
    <3> QED
      BY <3>1, <3>2, <3>3, <3>4 DEF PlacesInv, F
  <2> QED
    BY <2>3, <2>4 DEF StreamInv
<1>4. CASE Closes
  BY <1>a, <1>4 DEF Closes, StreamInv, OpenInv, PlacesInv, F
<1>5. CASE StreamIdle /\ UNCHANGED hub
  BY <1>a, <1>5 DEF StreamIdle, streamVars, StreamInv, OpenInv, PlacesInv, F
<1>6. CASE StreamIdle /\ HubCloseReturns
  BY <1>a, <1>6 DEF StreamIdle, streamVars, HubCloseReturns, StreamInv, OpenInv, PlacesInv, F
<1> QED
  BY <1>1, <1>2, <1>3, <1>4, <1>5, <1>6, StreamSteps

\* The Events handed to Send.
LEMMA SentStep ==
  CaptureTypeOK /\ StreamInv /\ SentInv /\ [CaptureNext]_allVars => SentInv'
<1> SUFFICES ASSUME CaptureTypeOK, StreamInv, SentInv, [CaptureNext]_allVars PROVE SentInv'
  OBVIOUS
<1>a. /\ hi[F] \in Nat /\ lo[F] \in Nat /\ published \in Nat /\ MaxPublished \in Nat
      /\ sent \in Seq(1 .. MaxPublished) /\ Len(sent) \in Nat
      /\ \A i \in 1 .. Len(sent) : sent[i] \in Nat
  BY CaptureAssumption, LenProperties DEF CaptureTypeOK, Stream!WindowTypeOK, F
<1>1. CASE Publishes \/ Closes \/ StreamIdle
  <2>1. UNCHANGED <<lo, hi, sent>>
    BY <1>1 DEF Publishes, Closes, StreamIdle, streamVars
  <2> QED
    BY <2>1 DEF SentInv
<1>2. ASSUME NEW k \in {0, 1}, Offers(k) PROVE SentInv'
  <2>1. /\ lo'[F] = lo[F] + k /\ hi'[F] = hi[F] + 1 /\ lo[F] + k <= hi[F] /\ sent' = sent
    BY <1>2 DEF Offers
  <2>2. lo'[F] # hi'[F] /\ lo[F] <= lo'[F] /\ lo'[F] \in Nat
    BY <1>a, <2>1
  <2>3. \A i \in 1 .. Len(sent) : sent[i] <= lo'[F]
    BY <1>a, <2>2 DEF SentInv, F
  <2> QED
    BY <2>1, <2>2, <2>3 DEF SentInv, F
<1>3. CASE Receives
  <2>1. lo[F] + 1 \in 1 .. MaxPublished
    BY <1>a, <1>3 DEF Receives, StreamInv, PlacesInv, F
  <2>2. /\ Len(sent') = Len(sent) + 1 /\ sent'[Len(sent) + 1] = lo[F] + 1
        /\ \A i \in 1 .. Len(sent) : sent'[i] = sent[i]
    BY <1>a, <1>3, <2>1, AppendProperties DEF Receives
  <2>3. \A i \in 1 .. Len(sent') : i \in 1 .. Len(sent) \/ i = Len(sent) + 1
    BY <1>a, <2>2
  <2>4. \A i \in 1 .. Len(sent') : sent'[i] <= lo'[F]
    BY <1>a, <1>3, <2>2, <2>3 DEF Receives, SentInv, F
  <2>5. \A i, j \in 1 .. Len(sent') : i < j => sent'[i] < sent'[j]
    <3> SUFFICES ASSUME NEW i \in 1 .. Len(sent'), NEW j \in 1 .. Len(sent'), i < j
                 PROVE  sent'[i] < sent'[j]
      OBVIOUS
    <3>1. i \in 1 .. Len(sent) /\ sent'[i] = sent[i] /\ sent[i] <= lo[F]
      BY <1>a, <2>2 DEF SentInv, F
    <3>2. CASE j \in 1 .. Len(sent)
      BY <2>2, <3>1, <3>2 DEF SentInv
    <3>3. CASE j = Len(sent) + 1
      <4>1. sent'[j] = lo[F] + 1 /\ sent[i] \in Int /\ lo[F] \in Int
        BY <1>a, <2>2, <3>1, <3>3
      <4> QED
        BY <3>1, <4>1
    <3> QED
      BY <2>3, <3>2, <3>3
  <2> QED
    BY <1>a, <1>3, <2>2, <2>4, <2>5 DEF Receives, SentInv, F
<1> QED
  BY <1>1, <1>2, <1>3, StreamSteps

-----------------------------------------------------------------------------
\* The Sends of the forwarder.

\* There is one forwarder, and the program is the one that closes.
LEMMA TheOnes == F \in Senders /\ Senders = {F} /\ Program \in Closers /\ Closers = {Program}
  BY CaptureAssumption DEF F

\* Between two Sends, all that were called have returned.
LEMMA IdleReturned ==
  ASSUME IInv, pc[F] = "idle"
  PROVE  returned = 1 .. calls
  BY TheOnes DEF IInv, CallInv

\* Only Forward calls Send.
LEMMA NoCall ==
  ASSUME [CaptureNext]_allVars, ~Forward
  PROVE  UNCHANGED <<calls, earlier, event, sent>>
<1>1. CASE Sending
  BY <1>1
  DEF Sending, InSend, Refuse, Accept, TryEnqueue, TryFull, Discard, Enqueue, captureVars
<1>2. CASE ~Sending
  BY <1>2
  DEF CaptureNext, Emit, Deliver, CloseHub, HubCloseReturns, CloseSink, SinkCloses, Work, NoticeClose,
      Evict, CallClose, InClose, MarkClosed, WakeWorker, PassOnce, CloseReturnsNow, Take, Write,
      WriteLine, WriteFails, EndDrain, Stop, StartDrain, EvictIdle, allVars, vars, sendVars,
      captureVars
<1> QED
  BY <1>1, <1>2

\* Outside Forward and Send, the forwarder is where it was.
LEMMA NoSend ==
  ASSUME [CaptureNext]_allVars, ~Forward, ~Sending
  PROVE  UNCHANGED <<pc, returned, refused>>
  BY DEF CaptureNext, Emit, Deliver, CloseHub, HubCloseReturns, CloseSink, SinkCloses, Work, NoticeClose,
      Evict, CallClose, InClose, MarkClosed, WakeWorker, PassOnce, CloseReturnsNow, Take, Write,
      WriteLine, WriteFails, EndDrain, Stop, StartDrain, EvictIdle, allVars, vars, sendVars

\* What was sent are events, one for each call of Send.
LEMMA SentTypeStep ==
  ASSUME CaptureTypeOK, StreamInv, [CaptureNext]_allVars
  PROVE  sent' \in Seq(1 .. MaxPublished) /\ Len(sent') = calls'
<1>1. CASE Forward
  <2>1. sent' = Append(sent, lo[F] + 1) /\ lo[F] < hi[F] /\ calls' = calls + 1
    BY <1>1 DEF Forward, Stream!Receive, Call, F
  <2>2. lo[F] + 1 \in 1 .. MaxPublished
    <3>1. lo[F] \in Nat /\ hi[F] \in Nat /\ published \in Nat /\ MaxPublished \in Nat
      BY CaptureAssumption DEF CaptureTypeOK, Stream!WindowTypeOK, F
    <3> QED
      BY <2>1, <3>1 DEF StreamInv, PlacesInv, F
  <2>3. sent \in Seq(1 .. MaxPublished) /\ Len(sent) = calls
    BY DEF CaptureTypeOK
  <2> QED
    BY <2>1, <2>2, <2>3, AppendProperties
<1>2. CASE ~Forward
  BY <1>2, NoCall DEF CaptureTypeOK
<1> QED
  BY <1>1, <1>2

\* Every step leaves everything well typed.
LEMMA CaptureTypeStep ==
  CaptureTypeOK /\ StreamInv /\ IInv' /\ [CaptureNext]_allVars => CaptureTypeOK'
<1> SUFFICES ASSUME CaptureTypeOK, StreamInv, IInv', [CaptureNext]_allVars PROVE CaptureTypeOK'
  OBVIOUS
<1>1. hub' \in {"open", "closing", "closed"}
  BY StreamSteps
  DEF CaptureTypeOK, Publishes, Offers, Receives, Closes, HubCloseReturns
<1> QED
  BY <1>1, StreamSteps, StreamStep, SentTypeStep DEF IInv, CaptureTypeOK, F

\* There is one Send at a time, of the event called last.
LEMMA SingleStep ==
  IInv /\ CaptureTypeOK /\ SingleInv /\ [CaptureNext]_allVars => SingleInv'
<1> SUFFICES ASSUME IInv, CaptureTypeOK, SingleInv, [CaptureNext]_allVars PROVE SingleInv'
  OBVIOUS
<1>1. CASE Forward
  <2>1. /\ pc[F] = "idle" /\ calls < MaxSends /\ calls' = calls + 1
        /\ earlier' = [earlier EXCEPT ![calls + 1] = returned]
        /\ event' = [event EXCEPT ![F] = calls + 1]
    BY <1>1 DEF Forward, Call, F
  <2>2. calls \in Nat /\ calls + 1 \in Events /\ returned = 1 .. calls
    BY <2>1, IdleReturned, FileSinkAssumption DEF IInv, TypeOK, Events
  <2>3. \A e \in 1 .. calls : e \in Events /\ e # calls + 1
    BY <2>1, <2>2, FileSinkAssumption DEF Events
  <2>4. \A e \in 1 .. calls : earlier'[e] = 1 .. e - 1
    BY <2>1, <2>3 DEF SingleInv, IInv, TypeOK
  <2>5. earlier'[calls + 1] = 1 .. (calls + 1) - 1
    <3>1. earlier'[calls + 1] = 1 .. calls
      BY <2>1, <2>2 DEF IInv, TypeOK
    <3>2. (calls + 1) - 1 = calls
      BY <2>2
    <3> QED
      BY <3>1, <3>2
  <2>6. \A e \in 1 .. calls' : e \in 1 .. calls \/ e = calls + 1
    BY <2>1, <2>2
  <2>7. event'[F] = calls'
    BY <2>1, TheOnes DEF IInv, TypeOK
  <2> QED
    BY <2>4, <2>5, <2>6, <2>7 DEF SingleInv, F
<1>2. CASE ~Forward
  <2>1. UNCHANGED <<calls, earlier, event>>
    BY <1>2, NoCall
  <2>2. pc'[F] # "idle" => pc[F] # "idle"
    <3>1. CASE Sending
      BY <3>1, TheOnes
      DEF Sending, InSend, Refuse, Accept, TryEnqueue, TryFull, Discard, Enqueue, Return, F, IInv, TypeOK
    <3>2. CASE ~Sending
      BY <1>2, <3>2, NoSend
    <3> QED
      BY <3>1, <3>2
  <2> QED
    BY <2>1, <2>2 DEF SingleInv, F
<1> QED
  BY <1>1, <1>2

\* The sink's steps, as module FileSinkProofs sees them.
LEMMA WorkKinds ==
  /\ Take => Takes
  /\ Write => \E ok \in BOOLEAN : PutsDown(ok)
  /\ TryEnqueue(F) => Puts(F)
  /\ Room /\ Enqueue(F) => Puts(F)
<1>1. Take => Takes
  BY DEF Take, Takes, Rest, Looping, sendVars
<1>2. Write => PutsDown(TRUE) \/ PutsDown(FALSE)
  BY DEF Write, WriteLine, WriteFails, PutsDown, queueVars, sendVars
<1>3. TryEnqueue(F) => Puts(F)
  BY DEF TryEnqueue, Puts, Ends, LineVars, Queued, Return, workerVars
<1>4. Room /\ Enqueue(F) => Puts(F)
  BY DEF Enqueue, Puts, Ends, LineVars, Queued, Return, workerVars
<1> QED
  BY <1>1, <1>2, <1>3, <1>4

\* The newest event is in the queue, in the worker's hands or written: the sink never drops it.
LEMMA NewestStep ==
  IInv /\ CaptureTypeOK /\ SingleInv /\ ClosingInv /\ NewestInv /\ [CaptureNext]_allVars
    => NewestInv'
<1> SUFFICES ASSUME IInv, CaptureTypeOK, SingleInv, ClosingInv, NewestInv, [CaptureNext]_allVars
             PROVE  NewestInv'
  OBVIOUS
<1>a. pc \in [Senders -> {"idle", "check", "try", "drain", "send"}] /\ queue \in Seq(Events)
      /\ Len(queue) \in Nat /\ Len(queue) <= Capacity
  BY LenProperties DEF IInv, TypeOK
<1>b. Capacity \in Nat \ {0} /\ Capacity' = Capacity
  BY CapacityPositive DEF Capacity
<1>1. CASE Forward
  <2>1. pc'[F] = "check"
    BY <1>1, <1>a, TheOnes DEF Forward, Call, F
  <2> QED
    BY <2>1 DEF NewestInv, F
<1>2. CASE Sending
  <2>1. UNCHANGED <<calls, event>>
    BY <1>2 DEF Sending, InSend, Refuse, Accept, TryEnqueue, TryFull, Discard, Enqueue
  <2>2. CASE Refuse(F)
    BY <2>2 DEF Refuse, ClosingInv, ForwarderDone, F
  <2>3. CASE Accept(F) \/ TryFull(F)
    <3>1. pc'[F] \in {"try", "drain"}
      BY <1>a, <2>3, TheOnes DEF Accept, TryFull
    <3> QED
      BY <3>1 DEF NewestInv, F
  <2>4. CASE TryEnqueue(F) \/ Enqueue(F)
    <3>1. Puts(F) /\ pc[F] # "idle"
      BY <2>4, WorkKinds DEF TryEnqueue, Enqueue, NewestInv, F
    <3>2. Present' = Present \cup {event[F]} /\ event[F] = calls
      BY <3>1, PresentStep, TheOnes DEF IInv, SingleInv, F
    <3>3. pc'[F] = "idle"
      BY <1>a, <2>4, TheOnes DEF TryEnqueue, Enqueue, Return
    <3> QED
      BY <2>1, <3>2, <3>3 DEF NewestInv, F
  <2>5. CASE Discard(F)
    <3>1. pc'[F] = "send"
      BY <1>a, <2>5, TheOnes DEF Discard
    <3>2. Room'
      <4>1. CASE queue = <<>>
        <5>1. Len(queue') = 0
          BY <2>5, <4>1, EmptySeq DEF Discard, queueVars
        <5> QED
          BY <1>b, <5>1 DEF Room
      <4>2. CASE queue # <<>>
        <5>1. Len(queue') = Len(queue) - 1
          BY <2>5, <4>2, QueueShortened DEF Discard, MadeRoom, IInv
        <5> QED
          BY <1>a, <1>b, <5>1 DEF Room
      <4> QED
        BY <4>1, <4>2
    <3> QED
      BY <3>1, <3>2 DEF NewestInv, F
  <2> QED
    BY <1>2, <2>2, <2>3, <2>4, <2>5 DEF Sending, InSend, F
<1>3. ASSUME ~Forward, ~Sending, Present' = Present, Room => Room' PROVE NewestInv'
  <2>1. UNCHANGED <<calls, pc>>
    BY <1>3, NoCall, NoSend
  <2> QED
    BY <1>3, <2>1 DEF NewestInv
<1>4. CASE ~Forward /\ ~Sending /\ Work
  <2>1. CASE Take
    <3>1. Takes /\ queue # <<>> /\ queue' = Tail(queue)
      BY <2>1, WorkKinds DEF Takes
    <3>2. Present' = Present /\ Len(queue') = Len(queue) - 1
      BY <3>1, PresentStep, QueueShortened DEF IInv
    <3>3. Room'
      BY <1>a, <1>b, <3>2 DEF Room
    <3> QED
      BY <1>3, <1>4, <3>2, <3>3
  <2>2. CASE Write
    <3>1. Present' = Present
      BY <2>2, WorkKinds, PresentStep DEF IInv
    <3>2. UNCHANGED queue
      BY <2>2 DEF Write, WriteLine, WriteFails, queueVars
    <3> QED
      BY <1>3, <1>4, <1>b, <3>1, <3>2 DEF Room
  <2>3. CASE EndDrain \/ Stop
    <3>1. UNCHANGED <<queue, inHand, written, failed>>
      BY <2>3 DEF EndDrain, Stop, queueVars
    <3> QED
      BY <1>3, <1>4, <1>b, <3>1 DEF Room, Present, Elements
  <2> QED
    BY <1>4, <2>1, <2>2, <2>3 DEF Work
<1>5. CASE ~Forward /\ ~Sending /\ ~Work
  <2>1. UNCHANGED <<queue, inHand, written, failed>>
    BY <1>5
    DEF CaptureNext, Emit, Deliver, CloseHub, HubCloseReturns, CloseSink, SinkCloses, NoticeClose,
        Evict, CallClose, InClose, MarkClosed, WakeWorker, PassOnce, CloseReturnsNow, StartDrain,
        EvictIdle, allVars, vars, queueVars, workerVars
  <2> QED
    BY <1>3, <1>5, <1>b, <2>1 DEF Room, Present, Elements
<1> QED
  BY <1>1, <1>2, <1>4, <1>5

\* When the program closes the sink, the forwarder has done its part.
LEMMA ClosingStep ==
  IInv /\ CaptureTypeOK /\ StreamInv /\ ClosingInv /\ [CaptureNext]_allVars => ClosingInv'
<1> SUFFICES ASSUME IInv, CaptureTypeOK, StreamInv, ClosingInv, [CaptureNext]_allVars
             PROVE  ClosingInv'
  OBVIOUS
<1>a. lo[F] \in Nat /\ hi[F] \in Nat /\ once \in [Closers -> {"idle", "once", "store", "wait", "returned"}]
  BY DEF CaptureTypeOK, Stream!WindowTypeOK, TypeOK, F
\* When the forwarder is done it does nothing more, and the Hub does nothing for it.
<1>1. ASSUME hub = "closed" PROVE ~Forward /\ ~Sending /\ ~Deliver /\ ~CloseHub /\ ~HubCloseReturns
  <2>1. phase[F] = "detached" /\ lo[F] = hi[F] /\ pc[F] = "idle"
    BY <1>1 DEF ClosingInv, ForwarderDone, F
  <2>2. ~Forward /\ ~Deliver
    BY <1>a, <2>1 DEF Forward, Deliver, Stream!Receive, Stream!Offer, F
  <2>3. ~Sending
    BY <2>1 DEF Sending, InSend, Refuse, Accept, TryEnqueue, TryFull, Discard, Enqueue, F
  <2> QED
    BY <1>1, <2>2, <2>3 DEF CloseHub, HubCloseReturns
<1>2. hub' = "closed" => ForwarderDone'
  <2>1. CASE hub = "closed"
    <3>1. UNCHANGED pc
      BY <1>1, <2>1, NoSend
    <3>2. UNCHANGED <<phase, lo, hi>>
      BY <1>1, <2>1
      DEF CaptureNext, Emit, Stream!Publish, CloseSink, SinkCloses, Work, NoticeClose, Evict, allVars,
          captureVars, streamVars
    <3> QED
      BY <2>1, <3>1, <3>2 DEF ClosingInv, ForwarderDone
  <2>2. CASE hub # "closed" /\ hub' = "closed"
    <3>1. HubCloseReturns
      BY <2>2, StreamSteps DEF Publishes, Offers, Receives, Closes
    <3> QED
      BY <3>1 DEF HubCloseReturns, ForwarderDone, vars, sendVars, streamVars
  <2> QED
    BY <2>1, <2>2
<1>3. hub = "closed" => hub' = "closed"
  BY <1>1, StreamSteps DEF Publishes, Offers, Receives, Closes
<1>4. refused' = {}
  <2>1. CASE Sending
    <3>1. ~isClosed
      BY <1>1, <2>1 DEF ClosingInv
    <3> QED
      BY <2>1, <3>1
      DEF ClosingInv, Sending, InSend, Refuse, Accept, TryEnqueue, TryFull, Discard, Enqueue
  <2>2. CASE Forward
    BY <2>2 DEF Forward, Call, ClosingInv
  <2> QED
    BY <2>1, <2>2, NoSend DEF ClosingInv
<1>5. CASE CloseSink \/ SinkCloses
  <2>1. hub = "closed" /\ hub' = "closed"
    <3>1. SinkCloses => once[Program] # "idle"
      BY DEF SinkCloses, InClose, MarkClosed, WakeWorker, PassOnce, CloseReturnsNow
    <3> QED
      BY <1>3, <1>5, <3>1 DEF CloseSink, ClosingInv
  <2>2. returned = 1 .. calls /\ UNCHANGED calls
    BY <1>1, <2>1, IdleReturned, NoCall DEF ClosingInv, ForwarderDone, F
  <2>3. once'[Program] \notin {"idle", "once"} => isClosed'
    BY <1>5, <1>a, TheOnes
    DEF CloseSink, SinkCloses, CallClose, InClose, MarkClosed, WakeWorker, PassOnce, CloseReturnsNow, ClosingInv
  <2>4. isClosed' => inTime' = 1 .. calls
    BY <1>5, <2>2
    DEF CloseSink, SinkCloses, CallClose, InClose, MarkClosed, WakeWorker, PassOnce, CloseReturnsNow, ClosingInv
  <2> QED
    BY <1>2, <1>4, <2>1, <2>2, <2>3, <2>4 DEF ClosingInv
<1>6. CASE ~CloseSink /\ ~SinkCloses
  <2>1. UNCHANGED <<isClosed, once, inTime>>
    BY <1>6
    DEF CaptureNext, Emit, Deliver, Forward, Call, Sending, InSend, Refuse, Accept, TryEnqueue, TryFull,
        Discard, Enqueue, CloseHub, HubCloseReturns, Work, NoticeClose, Evict, Take, Write, WriteLine,
        WriteFails, EndDrain, Stop, StartDrain, EvictIdle, allVars, vars, closeVars
  <2>2. isClosed => UNCHANGED calls
    BY <1>1, NoCall DEF ClosingInv
  <2> QED
    BY <1>2, <1>3, <1>4, <2>1, <2>2 DEF ClosingInv
<1> QED
  BY <1>5, <1>6

\* The invariant of the composition holds at first ...
LEMMA CaptureInvInit == CaptureInit => CaptureInv
<1> SUFFICES ASSUME CaptureInit PROVE CaptureInv
  OBVIOUS
<1>1. /\ published = 0 /\ open = TRUE /\ hub = "open" /\ calls = 0 /\ returned = {} /\ refused = {}
      /\ isClosed = FALSE
      /\ phase = [s \in {F} |-> "live"] /\ lo = [s \in {F} |-> 0]
      /\ hi = lo /\ last = lo /\ missed = lo
      /\ sent = <<>> /\ Len(sent) = 0 /\ sent \in Seq(1 .. MaxPublished)
      /\ pc[F] = "idle" /\ once[Program] = "idle"
  BY TheOnes, EmptySeq DEF CaptureInit, Init, F
<1>2. /\ lo[F] = 0 /\ hi[F] = 0 /\ missed[F] = 0 /\ phase[F] = "live"
      /\ MaxPublished \in Nat /\ HubBufferSize \in Nat
  BY <1>1, CaptureAssumption
<1>3. Stream!WindowTypeOK
  BY <1>1 DEF Stream!WindowTypeOK, F
<1>4. CaptureTypeOK
  BY <1>1, <1>2, <1>3, SinkInit, TypeInit DEF CaptureTypeOK, F
<1>5. StreamInv
  BY <1>1, <1>2 DEF StreamInv, OpenInv, PlacesInv, F
<1>6. SentInv
  BY <1>1, <1>2 DEF SentInv, F
<1>7. SingleInv /\ NewestInv
  BY <1>1 DEF SingleInv, NewestInv, F
<1>8. ClosingInv
  BY <1>1 DEF ClosingInv
<1> QED
  BY <1>4, <1>5, <1>6, <1>7, <1>8 DEF CaptureInv

\* ... and every step preserves it, along with the sink's.
LEMMA CaptureInvStep ==
  IInv /\ CaptureInv /\ [CaptureNext]_allVars => IInv' /\ CaptureInv'
<1>1. IInv /\ [CaptureNext]_allVars => IInv'
  BY SinkStep, IInvStep
<1> QED
  BY <1>1, CaptureTypeStep, StreamStep, SentStep, SingleStep, NewestStep, ClosingStep DEF CaptureInv

\* The inductive invariant of the way from Publish to the file holds in every behaviour.
THEOREM CaptureInvariance == CaptureSpec => [](IInv /\ CaptureInv)
<1>1. CaptureInit => IInv /\ CaptureInv
  BY SinkInit, IInvInit, CaptureInvInit
<1> QED
  BY <1>1, CaptureInvStep, PTL DEF CaptureSpec

-----------------------------------------------------------------------------
\* What is said of it.

\* The types of the composition, with the bound of the forwarder's buffer.
THEOREM CaptureTypeCorrect == CaptureSpec => []CaptureTypeOK
<1>1. CaptureInv => CaptureTypeOK
  BY DEF CaptureInv
<1> QED
  BY <1>1, CaptureInvariance, PTL

\* What hub.Close waits for: all that was published has been through a Send or was counted
\* as missed.
LEMMA DoneForwarding ==
  ASSUME IInv, CaptureInv, ForwarderDone
  PROVE  /\ Len(sent) + missed[F] = published /\ returned = 1 .. calls
         /\ lo[F] = hi[F] /\ hi[F] = published /\ pc[F] = "idle"
<1>1. phase[F] = "detached" /\ lo[F] = hi[F] /\ pc[F] = "idle"
  BY DEF ForwarderDone, F
<1>2. hi[F] = published /\ lo[F] = Len(sent) + missed[F]
  BY <1>1 DEF CaptureInv, StreamInv, PlacesInv, F
<1> QED
  BY <1>1, <1>2, IdleReturned

\* When hub.Close returns, each Event published was dropped and counted by the broadcaster
\* or has been through a Send; and no Send finds the sink closed.
THEOREM AllHandedOver == CaptureSpec => []HandedOver
<1>1. IInv /\ CaptureInv => HandedOver
  BY DoneForwarding DEF CaptureInv, ClosingInv, HandedOver, F
<1> QED
  BY <1>1, CaptureInvariance, PTL

\* After the shutdown every event given to Send is a line, failed, or is gone.
LEMMA NothingLeft ==
  ASSUME IInv, CaptureInv, ShutDown
  PROVE  /\ ForwarderDone
         /\ 1 .. calls = Elements(written) \cup failed \cup Gone
         /\ Present = Elements(written) \cup failed
<1>1. done /\ worker = "stopped" /\ inHand = NoEvent
  BY TheOnes DEF ShutDown, IInv, WorkerInv
<1>2. isClosed /\ hub = "closed" /\ ForwarderDone
  BY DEF ShutDown, CaptureInv, ClosingInv
<1>3. inTime = 1 .. calls /\ returned = 1 .. calls /\ refused = {}
  BY <1>2, DoneForwarding DEF CaptureInv, ClosingInv
<1>4. Elements(queue) \cap inTime = {} /\ Elements(queue) \subseteq Present /\ Present \subseteq returned
  BY <1>1 DEF IInv, WorkerInv, PlaceInv, Present
<1>5. Present = Elements(written) \cup failed
  BY <1>1, <1>3, <1>4 DEF Present
<1> QED
  BY <1>2, <1>3, <1>4, <1>5 DEF Gone

\* Counting: from 1 to n, and two sets with nothing in common.
LEMMA CountTo == \A n \in Nat : IsFiniteSet(1 .. n) /\ Cardinality(1 .. n) = n
<1> SUFFICES ASSUME NEW n \in Nat PROVE IsFiniteSet(1 .. n) /\ Cardinality(1 .. n) = n
  OBVIOUS
<1>1. IsFiniteSet(1 .. n) /\ Cardinality(1 .. n) = IF 1 > n THEN 0 ELSE n - 1 + 1
  <2>1. 1 \in Int /\ n \in Int
    OBVIOUS
  <2> QED
    BY <2>1, FS_Interval
<1>2. (IF 1 > n THEN 0 ELSE n - 1 + 1) = n
  OBVIOUS
<1> QED
  BY <1>1, <1>2

\* Disjoint finite sets count up.
LEMMA CountBoth ==
  ASSUME NEW S, NEW T, IsFiniteSet(S), IsFiniteSet(T), S \cap T = {}
  PROVE  /\ IsFiniteSet(S \cup T)
         /\ Cardinality(S \cup T) = Cardinality(S) + Cardinality(T)
<1>1. IsFiniteSet(S \cup T)
      /\ Cardinality(S \cup T) = Cardinality(S) + Cardinality(T) - Cardinality(S \cap T)
  BY FS_Union
<1>2. Cardinality(S \cap T) = 0
  BY FS_EmptySet
<1>3. Cardinality(S) \in Nat /\ Cardinality(T) \in Nat
  BY FS_CardinalityType
<1>4. \A n, m \in Nat : n + m - 0 = n + m
  OBVIOUS
<1> QED
  BY <1>1, <1>2, <1>3, <1>4

\* A sequence that repeats nothing has as many elements as places.
LEMMA Distinct ==
  ASSUME NEW S, NEW seq \in Seq(S), \A i, j \in 1 .. Len(seq) : seq[i] = seq[j] => i = j
  PROVE  IsFiniteSet(Elements(seq)) /\ Cardinality(Elements(seq)) = Len(seq)
<1> DEFINE I == 1 .. Len(seq)
           f == [i \in I |-> seq[i]]
<1>1. Len(seq) \in Nat
  BY LenProperties
<1>2. IsFiniteSet(I) /\ Cardinality(I) = Len(seq)
  BY <1>1, CountTo
<1>3. f \in [I -> Elements(seq)] /\ (\A e \in Elements(seq) : \E i \in I : f[i] = e)
  BY DEF Elements
<1>4. \A i, j \in I : f[i] = f[j] => i = j
  OBVIOUS
<1> HIDE DEF f, I
<1>5. f \in Surjection(I, Elements(seq))
  BY <1>3 DEF Surjection
<1>6. f \in Injection(I, Elements(seq))
  BY <1>3, <1>4 DEF Injection, IsInjective
<1> QED
  BY <1>2, <1>5, <1>6, FS_Surjection

\* After the shutdown every Event published is accounted for just once: a line, a failure,
\* a drop of the sink or a drop of the broadcaster.
THEOREM EveryEventCaptured == CaptureSpec => []Captured
<1>1. ASSUME IInv, CaptureInv, ShutDown
      PROVE  Len(written) + Cardinality(failed) + drops + missed[Forwarder] = published
  <2>1. 1 .. calls = Elements(written) \cup failed \cup Gone /\ ForwarderDone
    BY <1>1, NothingLeft
  <2>2. calls \in Nat /\ IsFiniteSet(1 .. calls) /\ Cardinality(1 .. calls) = calls
    BY <1>1, CountTo DEF IInv, TypeOK
  <2>3. IsFiniteSet(Elements(written)) /\ Cardinality(Elements(written)) = Len(written)
    BY <1>1, Distinct DEF IInv, TypeOK, PlaceInv
  <2>4. IsFiniteSet(failed) /\ IsFiniteSet(Gone) /\ IsFiniteSet(Elements(written) \cup failed)
    BY <2>1, <2>2, FS_Subset
  <2>5. Elements(written) \cap failed = {} /\ (Elements(written) \cup failed) \cap Gone = {}
    BY <1>1 DEF IInv, PlaceInv, Gone, Present
  <2>6. /\ Len(written) \in Nat /\ Cardinality(failed) \in Nat /\ Cardinality(Gone) \in Nat
        /\ Cardinality(Elements(written) \cup failed) \in Nat
    BY <2>3, <2>4, FS_CardinalityType
  <2>7. Cardinality(Elements(written) \cup failed) = Len(written) + Cardinality(failed)
    BY <2>3, <2>4, <2>5, CountBoth
  <2>8. calls = Cardinality(Elements(written) \cup failed) + Cardinality(Gone)
    BY <2>1, <2>2, <2>4, <2>5, CountBoth
  <2>9. drops = Cardinality(Gone) /\ Len(sent) = calls
    BY <1>1 DEF IInv, DropInv, CaptureInv, CaptureTypeOK
  <2>10. Len(sent) + missed[Forwarder] = published
    BY <1>1, <2>1, DoneForwarding DEF F
  <2> QED
    BY <2>7, <2>8, <2>9, <2>10
<1>2. IInv /\ CaptureInv => Captured
  BY <1>1 DEF Captured
<1> QED
  BY <1>2, CaptureInvariance, PTL

\* The lines are in the order the events were called in.
LEMMA WrittenRises ==
  ASSUME IInv, CaptureInv, NEW i \in 1 .. Len(written), NEW j \in 1 .. Len(written), i < j
  PROVE  written[i] \in 1 .. calls /\ written[j] \in 1 .. calls /\ written[i] < written[j]
<1>1. written[i] \in Present /\ written[j] \in Present
  BY DEF Present, Elements
<1>2. written[i] \in 1 .. calls /\ written[j] \in 1 .. calls
  BY <1>1 DEF IInv, PlaceInv, CallInv
<1>3. written[j] \notin earlier[written[i]] /\ earlier[written[i]] = 1 .. written[i] - 1
  BY <1>2 DEF IInv, OrderInv, SendOrder, CaptureInv, SingleInv
<1>4. written[i] # written[j]
  <2>1. i # j
    BY LenProperties DEF IInv, TypeOK
  <2> QED
    BY <2>1 DEF IInv, PlaceInv
<1> QED
  BY <1>2, <1>3, <1>4

\* The lines are in the order of publication.
THEOREM LinesInPublicationOrder == CaptureSpec => []LinesInOrder
<1>1. IInv /\ CaptureInv => LinesInOrder
  <2> SUFFICES ASSUME IInv, CaptureInv, NEW i \in 1 .. Len(written), NEW j \in 1 .. Len(written),
                      i < j
               PROVE  sent[written[i]] < sent[written[j]]
    BY DEF LinesInOrder
  <2>1. written[i] \in 1 .. Len(sent) /\ written[j] \in 1 .. Len(sent) /\ written[i] < written[j]
    BY WrittenRises DEF CaptureInv, CaptureTypeOK
  <2> QED
    BY <2>1 DEF CaptureInv, SentInv
<1> QED
  BY <1>1, CaptureInvariance, PTL

\* After the shutdown the last Event published is the last line, or the one that failed.
THEOREM LastEventCaptured == CaptureSpec => []LastCaptured
<1>1. ASSUME IInv, CaptureInv, ShutDown, published > 0
      PROVE  \/ written # <<>> /\ sent[written[Len(written)]] = published
             \/ \E e \in failed : sent[e] = published
  <2>1. Present = Elements(written) \cup failed /\ lo[F] = hi[F] /\ hi[F] = published /\ pc[F] = "idle"
    BY <1>1, NothingLeft, DoneForwarding
  <2>2. Len(sent) = calls /\ calls > 0 /\ sent[calls] = published
    BY <1>1, <2>1 DEF CaptureInv, CaptureTypeOK, SentInv, F
  <2>3. calls \in Present
    BY <1>1, <2>1, <2>2 DEF CaptureInv, NewestInv, F
  <2>4. CASE calls \in failed
    BY <2>2, <2>4
  <2>5. CASE calls \in Elements(written)
    <3>1. PICK i \in 1 .. Len(written) : written[i] = calls
      BY <2>5 DEF Elements
    <3>2. Len(written) \in Nat /\ Len(written) \in 1 .. Len(written)
      BY <1>1, <3>1, LenProperties DEF IInv, TypeOK
    <3>3. ~(i < Len(written))
      <4> SUFFICES ASSUME i < Len(written) PROVE FALSE
        OBVIOUS
      <4>1. written[Len(written)] \in 1 .. calls /\ written[i] < written[Len(written)]
        BY <1>1, <3>2, WrittenRises
      <4>2. calls \in Int
        BY <1>1 DEF IInv, TypeOK
      <4> QED
        BY <3>1, <4>1, <4>2
    <3>4. i = Len(written)
      BY <3>2, <3>3
    <3>5. written # <<>>
      BY <3>1, <3>2, EmptySeq
    <3> QED
      BY <2>2, <3>1, <3>4, <3>5
  <2> QED
    BY <2>1, <2>3, <2>4, <2>5
<1>2. IInv /\ CaptureInv => LastCaptured
  BY <1>1 DEF LastCaptured
<1> QED
  BY <1>2, CaptureInvariance, PTL
=============================================================================
