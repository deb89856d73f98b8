------------------------------ MODULE Capture ------------------------------
(***************************************************************************)
(* The way of an Event from Publish to a line in a file: the Hub's         *)
(* broadcaster, the forwarder AttachSink started, and the file sink; and   *)
(* the shutdown its README prescribes, hub.Close() and then sink.Close().  *)
(*                                                                         *)
(* The sink is module FileSink with the forwarder as the only sender and   *)
(* the program as the only closer; the forwarder's stream is a             *)
(* SlidingWindow.  The program has attached the sink before it begins.     *)
(***************************************************************************)
EXTENDS FileSink

CONSTANTS
  Forwarder, Program,
  HubBufferSize, \* HubConfig.BufferSize
  MaxPublished   \* bound: Events

ASSUME CaptureAssumption ==
  /\ Senders = {Forwarder} /\ Closers = {Program}
  /\ HubBufferSize \in Nat \ {0}
  /\ MaxPublished \in Nat /\ MaxSends >= MaxPublished

VARIABLES
  published, open, phase, lo, hi, last,
  missed,  \* Events the broadcaster dropped for the forwarder
  hub,     \* hub.Close: open, closing, closed (returned)
  sent     \* history: the position of the n-th Event handed to Send

streamVars == <<published, open, phase, lo, hi, last, missed>>
captureVars == <<streamVars, hub, sent>>
allVars == <<vars, captureVars>>

Stream == INSTANCE SlidingWindow
          WITH Subs <- {Forwarder}, Size <- HubBufferSize, drops <- missed

CaptureTypeOK ==
  /\ TypeOK /\ Stream!WindowTypeOK
  /\ hi[Forwarder] - lo[Forwarder] <= HubBufferSize
  /\ hub \in {"open", "closing", "closed"}
  /\ sent \in Seq(1 .. MaxPublished) /\ Len(sent) = calls

CaptureInit ==
  /\ Init
  /\ published = 0 /\ open = TRUE
  /\ phase = [s \in {Forwarder} |-> "live"]
  /\ lo = [s \in {Forwarder} |-> 0] /\ hi = lo /\ last = lo /\ missed = lo
  /\ hub = "open" /\ sent = <<>>

-----------------------------------------------------------------------------

\* Some Ingest publishes, and the broadcaster serves the forwarder's buffer.
Emit == /\ published < MaxPublished
        /\ Stream!Publish
        /\ UNCHANGED <<vars, hub, sent>>
Deliver == Stream!Offer(Forwarder) /\ UNCHANGED <<vars, hub, sent>>

\* The forwarder reads an Event and calls Send with it.
Forward ==
  /\ Stream!Receive(Forwarder)
  /\ Call(Forwarder)
  /\ sent' = Append(sent, lo[Forwarder] + 1)
  /\ UNCHANGED hub

Sending == InSend(Forwarder) /\ UNCHANGED captureVars

CloseHub ==
  /\ hub = "open"
  /\ Stream!CloseAll
  /\ hub' = "closing"
  /\ UNCHANGED <<vars, sent>>

\* Bug: the WaitGroup is not waited for.
ForwarderDoneBug == TRUE
\* The channel is closed, all of it is read, and the last Send has returned.
ForwarderDone ==
  /\ phase[Forwarder] = "detached" /\ lo[Forwarder] = hi[Forwarder]
  /\ pc[Forwarder] = "idle"

HubCloseReturns ==
  /\ hub = "closing" /\ ForwarderDone
  /\ hub' = "closed"
  /\ UNCHANGED <<vars, streamVars, sent>>

\* The program closes the sink when hub.Close has returned.
CloseSink == hub = "closed" /\ CallClose(Program) /\ UNCHANGED captureVars
SinkCloses == InClose(Program) /\ UNCHANGED captureVars

Work == (Take \/ Write \/ EndDrain \/ Stop) /\ UNCHANGED captureVars
NoticeClose == StartDrain /\ UNCHANGED captureVars
Evict == (\E stale \in SUBSET files : EvictIdle(stale)) /\ UNCHANGED captureVars

CaptureNext ==
  \/ Emit \/ Deliver \/ Forward \/ Sending
  \/ CloseHub \/ HubCloseReturns \/ CloseSink \/ SinkCloses
  \/ Work \/ NoticeClose \/ Evict

\* Goroutines keep running (see FileSink for the select of run); a program that has
\* begun to shut down goes on.  It need not begin, and nothing need be published.
CaptureSpec ==
  /\ CaptureInit /\ [][CaptureNext]_allVars
  /\ WF_allVars(Deliver) /\ WF_allVars(Forward) /\ WF_allVars(Sending)
  /\ WF_allVars(HubCloseReturns) /\ WF_allVars(CloseSink) /\ WF_allVars(SinkCloses)
  /\ WF_allVars(Work) /\ SF_allVars(NoticeClose)

-----------------------------------------------------------------------------
(* What is said of it. *)

ShutDown == once[Program] = "returned"

\* hub.Close followed by sink.Close lets the sink see every Event (specs/design.md:273-276,
\* sink.go:27-30): when hub.Close returns, each Event published was dropped and counted by
\* the broadcaster or has been through a Send, and no Send ever finds the sink closed.
HandedOver ==
  /\ hub = "closed" => Len(sent) + missed[Forwarder] = published /\ returned = 1 .. calls
  /\ refused = {}

\* After the shutdown nothing is unaccounted for: every Event published is a line, was
\* given up with a log line, or is in one of the two drop counters, just once.
Captured ==
  ShutDown =>
    Len(written) + Cardinality(failed) + drops + missed[Forwarder] = published

\* The lines are in the order of publication, through both buffers and their drops.
LinesInOrder ==
  \A i, j \in 1 .. Len(written) : i < j => sent[written[i]] < sent[written[j]]

\* Both buffers drop from the old end, so the last status published is never the one
\* dropped: after the shutdown it is the last line, or the one that failed
\* (sinks/file/README.md:99-100; with one forwarder Send is never called twice at once).
LastCaptured ==
  ShutDown /\ published > 0 =>
    \/ written # <<>> /\ sent[written[Len(written)]] = published
    \/ \E e \in failed : sent[e] = published

\* The shutdown comes to its end, whatever is still buffered anywhere.
ShutDownReturns == hub = "closing" ~> ShutDown
=============================================================================
