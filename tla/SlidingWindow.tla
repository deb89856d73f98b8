--------------------------- MODULE SlidingWindow ---------------------------
(***************************************************************************)
(* What a Broadcaster promises its callers (internal/broadcast).           *)
(*                                                                         *)
(* Values are named by their position in the order of publication: the     *)
(* n-th value published is n.  Each subscriber sees a window of that log,  *)
(* the positions lo+1..hi that are buffered for it and not yet read.  The  *)
(* window only ever moves forward, holds at most Size values, and always   *)
(* takes in the newest value: what is lost is lost from the old end.       *)
(*                                                                         *)
(* Broadcast.tla is shown to implement this module; Hub.tla is built on it.*)
(***************************************************************************)
EXTENDS Integers

CONSTANTS Subs,   \* identities a subscriber may have
          Size    \* capacity of each subscriber's buffer

VARIABLES
  published,  \* how many values were published so far
  open,       \* the broadcaster is not closed
  phase,      \* per subscriber: "fresh", "live" or "detached"
  lo, hi,     \* per subscriber: lo+1..hi are the positions it can still read
  last,       \* per subscriber: the position it read last, 0 at first
  drops       \* per subscriber: positions discarded unread

winVars == <<published, open, phase, lo, hi, last, drops>>

Live == {s \in Subs : phase[s] = "live"}

\* No value is still on its way to a live subscriber.
Settled == \A s \in Live : hi[s] = published

WindowTypeOK ==
  /\ published \in Nat
  /\ open \in BOOLEAN
  /\ phase \in [Subs -> {"fresh", "live", "detached"}]
  /\ lo \in [Subs -> Nat]
  /\ hi \in [Subs -> Nat]
  /\ last \in [Subs -> Nat]
  /\ drops \in [Subs -> Nat]

WindowInit ==
  /\ published = 0
  /\ open = TRUE
  /\ phase = [s \in Subs |-> "fresh"]
  /\ lo = [s \in Subs |-> 0]
  /\ hi = [s \in Subs |-> 0]
  /\ last = [s \in Subs |-> 0]
  /\ drops = [s \in Subs |-> 0]

-----------------------------------------------------------------------------

\* A new subscriber sees what is published from now on.
Subscribe(s) ==
  /\ open /\ Settled
  /\ phase[s] = "fresh"
  /\ phase' = [phase EXCEPT ![s] = "live"]
  /\ lo' = [lo EXCEPT ![s] = published]
  /\ hi' = [hi EXCEPT ![s] = published]
  /\ UNCHANGED <<published, open, last, drops>>

\* A subscriber leaves; what is already in its window stays readable.
Unsubscribe(s) ==
  /\ Settled
  /\ phase[s] = "live"
  /\ phase' = [phase EXCEPT ![s] = "detached"]
  /\ UNCHANGED <<published, open, lo, hi, last, drops>>

CloseAll ==
  /\ open /\ Settled
  /\ open' = FALSE
  /\ phase' = [s \in Subs |-> IF s \in Live THEN "detached" ELSE phase[s]]
  /\ UNCHANGED <<published, lo, hi, last, drops>>

\* One value enters the log; it then reaches every live subscriber, in no
\* particular order, before anything else is published.
Publish ==
  /\ open /\ Settled
  /\ published' = published + 1
  /\ UNCHANGED <<open, phase, lo, hi, last, drops>>

\* The value being published enters s's window, at the expense of at most one
\* value at the old end.  A full window has to give one up; one that is not
\* full may (the reader can have made room in the middle of the delivery).
Offer(s) ==
  /\ phase[s] = "live"
  /\ hi[s] < published
  /\ hi' = [hi EXCEPT ![s] = @ + 1]
  /\ \E k \in {0, 1} :
       /\ lo[s] + k <= hi[s]
       /\ hi[s] + 1 - (lo[s] + k) <= Size
       /\ lo' = [lo EXCEPT ![s] = @ + k]
       /\ drops' = [drops EXCEPT ![s] = @ + k]
  /\ UNCHANGED <<published, open, phase, last>>

\* The reader takes the oldest value of its window, also after it was detached.
Receive(s) ==
  /\ lo[s] < hi[s]
  /\ lo' = [lo EXCEPT ![s] = @ + 1]
  /\ last' = [last EXCEPT ![s] = lo[s] + 1]
  /\ UNCHANGED <<published, open, phase, hi, drops>>

WindowNext ==
  \/ \E s \in Subs : Subscribe(s) \/ Unsubscribe(s) \/ Offer(s) \/ Receive(s)
  \/ CloseAll
  \/ Publish

WindowSafety == WindowInit /\ [][WindowNext]_winVars

\* Delivery does not depend on the readers: a value that was published reaches
\* every live subscriber even if none of them ever reads again.
WindowSpec == WindowSafety /\ \A s \in Subs : WF_winVars(Offer(s))
=============================================================================
