----------------------------- MODULE Broadcast -----------------------------
(***************************************************************************)
(* internal/broadcast.Broadcaster at the grain of its channel operations.  *)
(*                                                                         *)
(* Publish holds b.mu across three non-blocking selects per subscriber;    *)
(* readers take from the channels without any lock, between any two of     *)
(* those selects.  Subscribe, Unsubscribe and Close do nothing a reader    *)
(* could see half of, so each is one step taken while b.mu is free.        *)
(* The n-th value published is written n.                                  *)
(***************************************************************************)
EXTENDS Integers, Sequences, FiniteSets

CONSTANTS
  Publishers,  \* goroutines that call Publish
  NoProc,      \* b.mu is held by nobody
  BufferSize,  \* argument of New; anything below 1 counts as 1
  MaxSubs,     \* bound: subscribers that may ever register
  MaxPublish   \* bound: values that may be published

ASSUME BroadcastAssumption ==
  /\ NoProc \notin Publishers
  /\ BufferSize \in Int
  /\ MaxSubs \in Nat
  /\ MaxPublish \in Nat

VARIABLES
  mu,         \* holder of b.mu
  subs,       \* ids in b.subs
  nextID,
  closed,
  ch,         \* per id: the values buffered in its channel
  chOpen,     \* ids whose channel exists and is not closed
  drops,      \* per id: the drop counter
  pc,         \* per publisher: where it is in Publish
  todo,       \* per publisher: subscribers the range loop still has to serve
  tgt,        \* per publisher: the subscriber deliver is working on
  val,        \* per publisher: the value it publishes
  \* history
  published,  \* values published so far
  start,      \* per id: published when it subscribed
  taken,      \* per id: values its reader received
  last        \* per id: the value its reader received last

chanVars == <<ch, chOpen, drops>>
regVars == <<subs, nextID, closed>>
procVars == <<pc, todo, tgt, val>>
histVars == <<published, start, taken, last>>
vars == <<mu, regVars, chanVars, procVars, histVars>>

Ids == 0 .. MaxSubs - 1

\* New: a non-positive size is clamped to 1.
Capacity == IF BufferSize < 1 THEN 1 ELSE BufferSize

RegTypeOK ==
  /\ mu \in Publishers \cup {NoProc}
  /\ subs \subseteq Ids
  /\ nextID \in 0 .. MaxSubs
  /\ closed \in BOOLEAN

ChanTypeOK ==
  /\ ch \in [Ids -> Seq(Nat)]
  /\ chOpen \subseteq Ids
  /\ drops \in [Ids -> Nat]

ProcTypeOK ==
  /\ pc \in [Publishers -> {"idle", "lock", "loop", "drain", "send"}]
  /\ todo \in [Publishers -> SUBSET Ids]
  /\ tgt \in [Publishers -> Ids \cup {-1}]
  /\ val \in [Publishers -> Nat]

HistTypeOK ==
  /\ published \in Nat
  /\ start \in [Ids -> Nat]
  /\ taken \in [Ids -> Nat]
  /\ last \in [Ids -> Nat]

TypeOK == RegTypeOK /\ ChanTypeOK /\ ProcTypeOK /\ HistTypeOK

Init ==
  /\ mu = NoProc
  /\ subs = {} /\ chOpen = {}
  /\ nextID = 0
  /\ closed = FALSE
  /\ ch = [s \in Ids |-> <<>>]
  /\ drops = [s \in Ids |-> 0]
  /\ pc = [p \in Publishers |-> "idle"]
  /\ todo = [p \in Publishers |-> {}]
  /\ tgt = [p \in Publishers |-> -1]
  /\ val = [p \in Publishers |-> 0]
  /\ published = 0
  /\ start = [s \in Ids |-> 0]
  /\ taken = [s \in Ids |-> 0]
  /\ last = [s \in Ids |-> 0]

-----------------------------------------------------------------------------
\* A definition whose name ends in "Bug" is a plausible mistake in the one that
\* follows it.  Only the mutants of PROJECT.json use these.

MuFreeBug == TRUE  \* the map and the channels are not protected
MuFree == mu = NoProc

RegisteredBug == subs \cup {nextID + 1}  \* increments the id before using it
Registered == subs \cup {nextID}

SubsAfterCloseBug == subs  \* closes the channels and keeps the entries
SubsAfterClose == {}

-----------------------------------------------------------------------------
\* Registration.  On a closed broadcaster Subscribe hands out a channel that is
\* closed already and changes nothing here.

Subscribe ==
  /\ MuFree /\ ~closed
  /\ nextID < MaxSubs
  /\ subs' = Registered
  /\ chOpen' = chOpen \cup {nextID}
  /\ nextID' = nextID + 1
  /\ start' = [start EXCEPT ![nextID] = published]
  /\ UNCHANGED <<mu, closed, ch, drops, procVars, published, taken, last>>

\* Anyone may pass any id, also one removed before: then nothing happens.
Unsubscribe(s) ==
  /\ MuFree
  /\ s \in subs
  /\ subs' = subs \ {s}
  /\ chOpen' = chOpen \ {s}
  /\ UNCHANGED <<mu, nextID, closed, ch, drops, procVars, histVars>>

Close ==
  /\ MuFree /\ ~closed
  /\ closed' = TRUE
  /\ chOpen' = chOpen \ subs
  /\ subs' = SubsAfterClose
  /\ UNCHANGED <<mu, nextID, ch, drops, procVars, histVars>>

-----------------------------------------------------------------------------
\* Publish and deliver.

\* Calls of Publish that have not got the lock yet.
Waiting == {p \in Publishers : pc[p] = "lock"}

\* Publish(v) is called and asks for b.mu.  The bound is on values, so a closed
\* broadcaster can be called for ever.
Call(p) ==
  /\ pc[p] = "idle"
  /\ closed \/ published + Cardinality(Waiting) < MaxPublish
  /\ pc' = [pc EXCEPT ![p] = "lock"]
  /\ UNCHANGED <<mu, regVars, chanVars, todo, tgt, val, histVars>>

\* The lock is granted and the broadcaster is open: the range loop starts.
Enter(p) ==
  /\ pc[p] = "lock"
  /\ MuFree /\ ~closed
  /\ mu' = p
  /\ pc' = [pc EXCEPT ![p] = "loop"]
  /\ todo' = [todo EXCEPT ![p] = subs]
  /\ published' = published + 1
  /\ val' = [val EXCEPT ![p] = published + 1]
  /\ UNCHANGED <<regVars, chanVars, tgt, start, taken, last>>

\* Publish on a closed broadcaster is a no-op.
EnterClosed(p) ==
  /\ pc[p] = "lock"
  /\ MuFree /\ closed
  /\ pc' = [pc EXCEPT ![p] = "idle"]
  /\ UNCHANGED <<mu, regVars, chanVars, todo, tgt, val, histVars>>

Room(s) == Len(ch[s]) < Capacity

Put(p, s) == ch' = [ch EXCEPT ![s] = Append(@, val[p])]

\* deliver is done with s: back to the range loop.
Served(p, s) == /\ todo' = [todo EXCEPT ![p] = @ \ {s}]
                /\ pc' = [pc EXCEPT ![p] = "loop"]

\* First select: the value goes in if the buffer has room.
TrySend(p, s) ==
  /\ pc[p] = "loop" /\ s \in todo[p]
  /\ Room(s)
  /\ Put(p, s) /\ Served(p, s)
  /\ UNCHANGED <<mu, regVars, chOpen, drops, tgt, val, histVars>>

\* Bug: the select has no default case, Publish waits for the reader.
TryFullBug(p, s) == ~Room(s) /\ FALSE /\ UNCHANGED vars

\* First select, default case.
TryFull(p, s) ==
  /\ pc[p] = "loop" /\ s \in todo[p]
  /\ ~Room(s)
  /\ tgt' = [tgt EXCEPT ![p] = s]
  /\ pc' = [pc EXCEPT ![p] = "drain"]
  /\ UNCHANGED <<mu, regVars, chanVars, todo, val, histVars>>

\* Bug: the newest buffered value goes instead of the oldest.
DiscardNewestBug(s) == /\ ch' = [ch EXCEPT ![s] = SubSeq(@, 1, Len(@) - 1)]
                       /\ drops' = [drops EXCEPT ![s] = @ + 1]
\* Bug: the buffer is emptied.
DiscardAllBug(s) == /\ ch' = [ch EXCEPT ![s] = <<>>]
                    /\ drops' = [drops EXCEPT ![s] = @ + Len(ch[s])]
DiscardOldest(s) == /\ ch' = [ch EXCEPT ![s] = Tail(@)]
                    /\ drops' = [drops EXCEPT ![s] = @ + 1]

\* Second select: discard the oldest value, if the reader has left one.
Drain(p) ==
  LET s == tgt[p] IN
  /\ pc[p] = "drain"
  /\ IF ch[s] = <<>> THEN UNCHANGED <<ch, drops>> ELSE DiscardOldest(s)
  /\ pc' = [pc EXCEPT ![p] = "send"]
  /\ UNCHANGED <<mu, regVars, chOpen, todo, tgt, val, histVars>>

\* Third select: send, or count a drop on the value itself.
Send(p) ==
  LET s == tgt[p] IN
  /\ pc[p] = "send"
  /\ IF Room(s) THEN Put(p, s) /\ UNCHANGED drops
     ELSE drops' = [drops EXCEPT ![s] = @ + 1] /\ UNCHANGED ch
  /\ Served(p, s)
  /\ UNCHANGED <<mu, regVars, chOpen, tgt, val, histVars>>

\* The deferred unlock.
Leave(p) ==
  /\ pc[p] = "loop" /\ todo[p] = {}
  /\ mu' = NoProc
  /\ pc' = [pc EXCEPT ![p] = "idle"]
  /\ UNCHANGED <<regVars, chanVars, todo, tgt, val, histVars>>

\* A reader receives; a closed channel still hands out what it buffers.
Receive(s) ==
  /\ ch[s] # <<>>
  /\ ch' = [ch EXCEPT ![s] = Tail(@)]
  /\ last' = [last EXCEPT ![s] = Head(ch[s])]
  /\ taken' = [taken EXCEPT ![s] = @ + 1]
  /\ UNCHANGED <<mu, regVars, chOpen, drops, procVars, published, start>>

-----------------------------------------------------------------------------

Deliver(p) == \/ \E s \in Ids : TrySend(p, s) \/ TryFull(p, s)
              \/ Drain(p)
              \/ Send(p)

Next ==
  \/ Subscribe \/ Close
  \/ \E s \in Ids : Unsubscribe(s) \/ Receive(s)
  \/ \E p \in Publishers :
       Call(p) \/ Enter(p) \/ EnterClosed(p) \/ Deliver(p) \/ Leave(p)

Spec == Init /\ [][Next]_vars

\* A goroutine in Publish keeps running, and sync.Mutex does not starve one that
\* waits for it.  Nothing is assumed of readers, nor of calls that need not come.
Fairness ==
  \A p \in Publishers : /\ WF_vars(Deliver(p) \/ Leave(p))
                        /\ SF_vars(Enter(p) \/ EnterClosed(p))

FairSpec == Spec /\ Fairness
-----------------------------------------------------------------------------
(* What is said of it. *)

Lo(s) == start[s] + taken[s] + drops[s]

\* s was drained for the value being published and has not been sent it yet.
InHand(s) == \E p \in Publishers : pc[p] = "send" /\ tgt[p] = s

\* deliver's third select never takes its default case: the value being
\* published is never the one that is lost (broadcast.go:111-117).
NewestKept == \A p \in Publishers : pc[p] = "send" => Room(tgt[p])

\* A publication is under way that has not served s yet.
Pending(s) == \E p \in Publishers : s \in todo[p]

\* The buffer holds a gapless stretch of the log, right after what is gone from it.
Gapless(s) == \A i \in 1 .. Len(ch[s]) : ch[s][i] = Lo(s) + i

\* A subscriber's stretch reaches up to the newest value that was offered to it.
UpToDate(s) ==
  s \in subs => Lo(s) + Len(ch[s]) = published - IF Pending(s) THEN 1 ELSE 0

\* Every value published since the subscription is read, counted as dropped or
\* still buffered, in publication order: nothing is lost silently, duplicated or
\* overtaken, wherever the readers get in between deliver's selects.
Accounted == \A s \in Ids : Gapless(s) /\ UpToDate(s) /\ Len(ch[s]) <= Capacity

\* No goroutine can send on a closed channel or close one twice, which would
\* panic: whatever a running Publish has still to serve, and whatever is left in
\* b.subs for Unsubscribe or Close to close, is open.
NoPanic ==
  /\ subs \subseteq chOpen
  /\ \A p \in Publishers : todo[p] \subseteq chOpen

\* Publish never blocks on a reader: every call returns although no reader ever
\* has to receive (specs/design.md:318-326).
PublishReturns == \A p \in Publishers : pc[p] = "lock" ~> pc[p] = "idle"

\* The refinement mapping: an id not handed out is fresh, a window starts after what
\* was read and dropped, and it takes in the value being delivered when the place
\* for it is made.
windowPhase == [s \in Ids |-> IF s \in subs THEN "live"
                              ELSE IF s < nextID THEN "detached" ELSE "fresh"]
windowLo == [s \in Ids |-> Lo(s)]
windowHi == [s \in Ids |-> Lo(s) + Len(ch[s]) + IF InHand(s) THEN 1 ELSE 0]

Window == INSTANCE SlidingWindow WITH
  Subs <- Ids, Size <- Capacity, open <- ~closed,
  phase <- windowPhase, lo <- windowLo, hi <- windowHi

\* The channel operations of deliver, interleaved with the readers', add up to
\* the sliding window of SlidingWindow.tla, its progress included.
ImplementsWindow == Window!WindowSpec
=============================================================================
