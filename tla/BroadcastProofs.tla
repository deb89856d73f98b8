-------------------------- MODULE BroadcastProofs --------------------------
(***************************************************************************)
(* What MCBroadcast checks on a small instance, proved for any number of   *)
(* publishers and subscribers, any buffer size and any number of values.   *)
(***************************************************************************)
EXTENDS Broadcast, TLAPS

\* Inside Publish, that is holding b.mu.
Inside == {"loop", "drain", "send"}

\* b.mu is held by the publisher that is inside, and by nobody else.
LockInv == \A p \in Publishers : pc[p] \in Inside <=> mu = p

\* The range loop serves registered subscribers and publishes the newest value;
\* nobody else has anything left to serve.
LoopInv ==
  \A p \in Publishers :
    /\ pc[p] \in Inside => todo[p] \subseteq subs /\ val[p] = published
    /\ pc[p] \notin Inside => todo[p] = {}
    /\ pc[p] \in {"drain", "send"} => tgt[p] \in todo[p]

\* Every registered channel is open, and was made by this broadcaster.
RegInv == /\ subs \subseteq chOpen
          /\ \A s \in subs : s < nextID

\* An id not handed out yet has no history.
FreshInv == \A s \in Ids : s >= nextID =>
              ch[s] = <<>> /\ drops[s] = 0 /\ taken[s] = 0 /\ start[s] = 0

\* The inductive invariant.
IInv == /\ TypeOK /\ LockInv /\ LoopInv /\ RegInv /\ FreshInv
        /\ NewestKept /\ Accounted

-----------------------------------------------------------------------------

\* A channel has room for one value at least: WithBufferSize refuses less (options.go).
LEMMA CapacityPositive == Capacity \in Nat \ {0}
  BY BroadcastAssumption DEF Capacity

\* An update keeps a function's type, also one outside the domain, which does nothing.
LEMMA UpdateType ==
  ASSUME NEW D, NEW R, NEW f \in [D -> R], NEW x, NEW e, x \in D => e \in R
  PROVE  [f EXCEPT ![x] = e] \in [D -> R]
<1>1. CASE x \in D
  BY <1>1
<1>2. CASE x \notin D
  <2>1. [f EXCEPT ![x] = e] = f
    BY <1>2
  <2> QED
    BY <2>1
<1> QED
  BY <1>1, <1>2

\* Type correctness is inductive by itself.
LEMMA TypeStep == TypeOK /\ [Next]_vars => TypeOK'
<1> SUFFICES ASSUME TypeOK, [Next]_vars PROVE TypeOK'
  OBVIOUS
<1> USE BroadcastAssumption
<1>a. RegTypeOK /\ ChanTypeOK /\ ProcTypeOK /\ HistTypeOK
  BY DEF TypeOK
<1>b. ASSUME UNCHANGED <<mu, regVars>> PROVE RegTypeOK'
  BY <1>a, <1>b DEF RegTypeOK, regVars
<1>c. ASSUME UNCHANGED chanVars PROVE ChanTypeOK'
  BY <1>a, <1>c DEF ChanTypeOK, chanVars
<1>d. ASSUME UNCHANGED procVars PROVE ProcTypeOK'
  BY <1>a, <1>d DEF ProcTypeOK, procVars
<1>e. ASSUME UNCHANGED histVars PROVE HistTypeOK'
  BY <1>a, <1>e DEF HistTypeOK, histVars
<1>1. CASE Subscribe
  <2>1. nextID \in Ids /\ nextID + 1 \in 0 .. MaxSubs
    BY <1>a, <1>1 DEF Subscribe, RegTypeOK, Ids
  <2>2. RegTypeOK'
    BY <1>a, <1>1, <2>1 DEF Subscribe, Registered, RegTypeOK
  <2>3. ChanTypeOK'
    BY <1>a, <1>1, <2>1 DEF Subscribe, ChanTypeOK
  <2>4. HistTypeOK'
    BY <1>a, <1>1 DEF Subscribe, HistTypeOK
  <2> QED
    BY <1>1, <1>d, <2>2, <2>3, <2>4 DEF Subscribe, TypeOK
<1>2. CASE Close
  <2>1. RegTypeOK'
    BY <1>a, <1>2 DEF Close, SubsAfterClose, RegTypeOK
  <2>2. ChanTypeOK'
    BY <1>a, <1>2 DEF Close, ChanTypeOK
  <2> QED
    BY <1>2, <1>d, <1>e, <2>1, <2>2 DEF Close, TypeOK
<1>3. ASSUME NEW s \in Ids, Unsubscribe(s) PROVE TypeOK'
  <2>1. RegTypeOK'
    BY <1>a, <1>3 DEF Unsubscribe, RegTypeOK
  <2>2. ChanTypeOK'
    BY <1>a, <1>3 DEF Unsubscribe, ChanTypeOK
  <2> QED
    BY <1>3, <1>d, <1>e, <2>1, <2>2 DEF Unsubscribe, TypeOK
<1>4. ASSUME NEW s \in Ids, Receive(s) PROVE TypeOK'
  <2>1. ch[s] \in Seq(Nat) /\ ch[s] # <<>>
    BY <1>a, <1>4 DEF Receive, ChanTypeOK
  <2>2. Tail(ch[s]) \in Seq(Nat) /\ Head(ch[s]) \in Nat
    BY <2>1
  <2>3. ChanTypeOK'
    BY <1>a, <1>4, <2>2 DEF Receive, ChanTypeOK
  <2>4. HistTypeOK'
    BY <1>a, <1>4, <2>2 DEF Receive, HistTypeOK
  <2> QED
    BY <1>4, <1>b, <1>d, <2>3, <2>4 DEF Receive, TypeOK
<1>5. ASSUME NEW p \in Publishers, Call(p) PROVE TypeOK'
  <2>1. ProcTypeOK'
    BY <1>a, <1>5 DEF Call, ProcTypeOK
  <2> QED
    BY <1>5, <1>b, <1>c, <1>e, <2>1 DEF Call, TypeOK
<1>6. ASSUME NEW p \in Publishers, Enter(p) PROVE TypeOK'
  <2>1. RegTypeOK'
    BY <1>a, <1>6 DEF Enter, RegTypeOK, regVars
  <2>2. ProcTypeOK'
    BY <1>a, <1>6 DEF Enter, ProcTypeOK, RegTypeOK, HistTypeOK
  <2>3. HistTypeOK'
    BY <1>a, <1>6 DEF Enter, HistTypeOK
  <2> QED
    BY <1>6, <1>c, <2>1, <2>2, <2>3 DEF Enter, TypeOK
<1>7. ASSUME NEW p \in Publishers, EnterClosed(p) PROVE TypeOK'
  <2>1. ProcTypeOK'
    BY <1>a, <1>7 DEF EnterClosed, ProcTypeOK
  <2> QED
    BY <1>7, <1>b, <1>c, <1>e, <2>1 DEF EnterClosed, TypeOK
<1>8. ASSUME NEW p \in Publishers, NEW s \in Ids, TrySend(p, s) PROVE TypeOK'
  <2>1. Append(ch[s], val[p]) \in Seq(Nat)
    BY <1>a DEF ChanTypeOK, ProcTypeOK
  <2>2. ChanTypeOK'
    BY <1>a, <1>8, <2>1 DEF TrySend, Put, ChanTypeOK
  <2>3. ProcTypeOK'
    BY <1>a, <1>8 DEF TrySend, Served, ProcTypeOK
  <2> QED
    BY <1>8, <1>b, <1>e, <2>2, <2>3 DEF TrySend, TypeOK
<1>9. ASSUME NEW p \in Publishers, NEW s \in Ids, TryFull(p, s) PROVE TypeOK'
  <2>1. ProcTypeOK'
    BY <1>a, <1>9 DEF TryFull, ProcTypeOK
  <2> QED
    BY <1>9, <1>b, <1>c, <1>e, <2>1 DEF TryFull, TypeOK
<1>10. ASSUME NEW p \in Publishers, Drain(p) PROVE TypeOK'
  <2>a. ASSUME ch[tgt[p]] = <<>> PROVE ChanTypeOK'
    BY <1>a, <1>10, <2>a DEF Drain, ChanTypeOK
  <2>b. ASSUME ch[tgt[p]] # <<>> PROVE ChanTypeOK'
    <3>1. /\ ch' = [ch EXCEPT ![tgt[p]] = Tail(ch[tgt[p]])]
          /\ drops' = [drops EXCEPT ![tgt[p]] = drops[tgt[p]] + 1]
          /\ chOpen' = chOpen
      BY <1>10, <2>b DEF Drain, DiscardOldest
    <3>2. ch \in [Ids -> Seq(Nat)] /\ drops \in [Ids -> Nat]
      BY <1>a DEF ChanTypeOK
    <3>3. ch' \in [Ids -> Seq(Nat)]
      <4>1. tgt[p] \in Ids => Tail(ch[tgt[p]]) \in Seq(Nat)
        BY <2>b, <3>2
      <4> QED
        BY <3>1, <3>2, <4>1, UpdateType
    <3>4. drops' \in [Ids -> Nat]
      <4>1. tgt[p] \in Ids => drops[tgt[p]] + 1 \in Nat
        BY <3>2
      <4> QED
        BY <3>1, <3>2, <4>1, UpdateType
    <3> QED
      BY <1>a, <3>1, <3>3, <3>4 DEF ChanTypeOK
  <2>2. ChanTypeOK'
    BY <2>a, <2>b
  <2>3. ProcTypeOK'
    BY <1>a, <1>10 DEF Drain, ProcTypeOK
  <2> QED
    BY <1>10, <1>b, <1>e, <2>2, <2>3 DEF Drain, TypeOK
<1>11. ASSUME NEW p \in Publishers, Send(p) PROVE TypeOK'
  <2>1. ch \in [Ids -> Seq(Nat)] /\ drops \in [Ids -> Nat]
    BY <1>a DEF ChanTypeOK
  <2>a. ASSUME Room(tgt[p]) PROVE ChanTypeOK'
    <3>1. /\ ch' = [ch EXCEPT ![tgt[p]] = Append(ch[tgt[p]], val[p])]
          /\ UNCHANGED <<chOpen, drops>>
      BY <1>11, <2>a DEF Send, Put
    <3>2. tgt[p] \in Ids => Append(ch[tgt[p]], val[p]) \in Seq(Nat)
      BY <1>a, <2>1 DEF ProcTypeOK
    <3>3. ch' \in [Ids -> Seq(Nat)]
      BY <2>1, <3>1, <3>2, UpdateType
    <3> QED
      BY <1>a, <3>1, <3>3 DEF ChanTypeOK
  <2>b. ASSUME ~Room(tgt[p]) PROVE ChanTypeOK'
    <3>1. /\ drops' = [drops EXCEPT ![tgt[p]] = drops[tgt[p]] + 1]
          /\ UNCHANGED <<ch, chOpen>>
      BY <1>11, <2>b DEF Send
    <3>2. tgt[p] \in Ids => drops[tgt[p]] + 1 \in Nat
      BY <2>1
    <3>3. drops' \in [Ids -> Nat]
      BY <2>1, <3>1, <3>2, UpdateType
    <3> QED
      BY <1>a, <3>1, <3>3 DEF ChanTypeOK
  <2>2. ChanTypeOK'
    BY <2>a, <2>b
  <2>3. ProcTypeOK'
    BY <1>a, <1>11 DEF Send, Served, ProcTypeOK
  <2> QED
    BY <1>11, <1>b, <1>e, <2>2, <2>3 DEF Send, TypeOK
<1>12. ASSUME NEW p \in Publishers, Leave(p) PROVE TypeOK'
  <2>1. RegTypeOK'
    BY <1>a, <1>12 DEF Leave, RegTypeOK, regVars
  <2>2. ProcTypeOK'
    BY <1>a, <1>12 DEF Leave, ProcTypeOK
  <2> QED
    BY <1>12, <1>c, <1>e, <2>1, <2>2 DEF Leave, TypeOK
<1>13. CASE UNCHANGED vars
  BY <1>13, <1>b, <1>c, <1>d, <1>e DEF vars, TypeOK
<1> QED
  BY <1>1, <1>2, <1>3, <1>4, <1>5, <1>6, <1>7, <1>8, <1>9, <1>10, <1>11, <1>12, <1>13,
     Zenon
  DEF Next, Deliver

\* The types hold at first.
LEMMA TypeInit == Init => TypeOK
<1>1. Init => RegTypeOK
  <2>1. Init => mu = NoProc /\ subs = {} /\ nextID = 0 /\ closed = FALSE
    BY DEF Init
  <2>2. 0 \in 0 .. MaxSubs
    BY BroadcastAssumption
  <2> QED
    BY <2>1, <2>2, Zenon DEF RegTypeOK
<1>2. Init => ChanTypeOK
  BY DEF Init, ChanTypeOK
<1>3. Init => ProcTypeOK
  BY DEF Init, ProcTypeOK
<1>4. Init => HistTypeOK
  BY DEF Init, HistTypeOK
<1> QED
  BY <1>1, <1>2, <1>3, <1>4 DEF TypeOK

\* Every reachable state of the broadcaster is well typed.
THEOREM TypeCorrect == Spec => []TypeOK
  BY TypeInit, TypeStep, PTL DEF Spec

-----------------------------------------------------------------------------
\* The lock and the range loop.

\* b.mu is held by the publisher that is inside Publish.
LEMMA LockStep == TypeOK /\ LockInv /\ [Next]_vars => LockInv'
<1> SUFFICES ASSUME TypeOK, LockInv, [Next]_vars PROVE LockInv'
  OBVIOUS
<1> USE BroadcastAssumption DEF LockInv, Inside, MuFree
<1>a. pc \in [Publishers -> {"idle", "lock", "loop", "drain", "send"}]
  BY DEF TypeOK, ProcTypeOK
<1>b. ASSUME UNCHANGED <<mu, pc>> PROVE LockInv'
  BY <1>b
<1>1. ASSUME NEW p \in Publishers, Call(p) PROVE LockInv'
  BY <1>a, <1>1 DEF Call
<1>2. ASSUME NEW p \in Publishers, Enter(p) PROVE LockInv'
  BY <1>a, <1>2 DEF Enter
<1>3. ASSUME NEW p \in Publishers, EnterClosed(p) PROVE LockInv'
  BY <1>a, <1>3 DEF EnterClosed
<1>4. ASSUME NEW p \in Publishers, NEW s \in Ids, TrySend(p, s) PROVE LockInv'
  BY <1>a, <1>4 DEF TrySend, Served
<1>5. ASSUME NEW p \in Publishers, NEW s \in Ids, TryFull(p, s) PROVE LockInv'
  BY <1>a, <1>5 DEF TryFull
<1>6. ASSUME NEW p \in Publishers, Drain(p) PROVE LockInv'
  BY <1>a, <1>6 DEF Drain
<1>7. ASSUME NEW p \in Publishers, Send(p) PROVE LockInv'
  BY <1>a, <1>7 DEF Send, Served
<1>8. ASSUME NEW p \in Publishers, Leave(p) PROVE LockInv'
  BY <1>a, <1>8 DEF Leave
<1>9. CASE Subscribe
  BY <1>9, <1>b DEF Subscribe, procVars
<1>10. CASE Close
  BY <1>10, <1>b DEF Close, procVars
<1>11. ASSUME NEW s \in Ids, Unsubscribe(s) \/ Receive(s) PROVE LockInv'
  BY <1>11, <1>b DEF Unsubscribe, Receive, procVars
<1>12. CASE UNCHANGED vars
  BY <1>12, <1>b DEF vars, procVars
<1> QED
  BY <1>1, <1>2, <1>3, <1>4, <1>5, <1>6, <1>7, <1>8, <1>9, <1>10, <1>11, <1>12, Zenon
  DEF Next, Deliver

\* The range loop serves registered subscribers only, and nothing is left to serve
\* once a publisher has left: whoever could change b.subs waits for b.mu.
LEMMA LoopStep == TypeOK /\ LockInv /\ LoopInv /\ [Next]_vars => LoopInv'
<1> SUFFICES ASSUME TypeOK, LockInv, LoopInv, [Next]_vars PROVE LoopInv'
  OBVIOUS
<1> USE BroadcastAssumption DEF LockInv, LoopInv, Inside, MuFree
<1>a. /\ pc \in [Publishers -> {"idle", "lock", "loop", "drain", "send"}]
      /\ todo \in [Publishers -> SUBSET Ids]
      /\ tgt \in [Publishers -> Ids \cup {-1}]
      /\ val \in [Publishers -> Nat]
  BY DEF TypeOK, ProcTypeOK
<1>b. ASSUME UNCHANGED <<subs, procVars, published>> PROVE LoopInv'
  BY <1>b DEF procVars
<1>1. ASSUME NEW p \in Publishers, Call(p) PROVE LoopInv'
  BY <1>a, <1>1 DEF Call, regVars, histVars
<1>2. ASSUME NEW p \in Publishers, Enter(p) PROVE LoopInv'
  BY <1>a, <1>2 DEF Enter, regVars
<1>3. ASSUME NEW p \in Publishers, EnterClosed(p) PROVE LoopInv'
  BY <1>a, <1>3 DEF EnterClosed, regVars, histVars
<1>4. ASSUME NEW p \in Publishers, NEW s \in Ids, TrySend(p, s) PROVE LoopInv'
  BY <1>a, <1>4 DEF TrySend, Served, regVars, histVars
<1>5. ASSUME NEW p \in Publishers, NEW s \in Ids, TryFull(p, s) PROVE LoopInv'
  BY <1>a, <1>5 DEF TryFull, regVars, histVars
<1>6. ASSUME NEW p \in Publishers, Drain(p) PROVE LoopInv'
  BY <1>a, <1>6 DEF Drain, regVars, histVars
<1>7. ASSUME NEW p \in Publishers, Send(p) PROVE LoopInv'
  BY <1>a, <1>7 DEF Send, Served, regVars, histVars
<1>8. ASSUME NEW p \in Publishers, Leave(p) PROVE LoopInv'
  BY <1>a, <1>8 DEF Leave, regVars, histVars
<1>9. CASE Subscribe
  BY <1>a, <1>9 DEF Subscribe, Registered, procVars
<1>10. CASE Close
  BY <1>a, <1>10 DEF Close, procVars, histVars
<1>11. ASSUME NEW s \in Ids, Unsubscribe(s) PROVE LoopInv'
  BY <1>a, <1>11 DEF Unsubscribe, procVars, histVars
<1>12. ASSUME NEW s \in Ids, Receive(s) PROVE LoopInv'
  BY <1>12, <1>b DEF Receive, regVars
<1>13. CASE UNCHANGED vars
  BY <1>13, <1>b DEF vars, regVars, histVars
<1> QED
  BY <1>1, <1>2, <1>3, <1>4, <1>5, <1>6, <1>7, <1>8, <1>9, <1>10, <1>11, <1>12, <1>13,
     Zenon
  DEF Next, Deliver

\* Who holds b.mu is the only one with anything left to serve.
LEMMA PendingHolder ==
  ASSUME LockInv, LoopInv, NEW s \in Ids
  PROVE  /\ MuFree => ~Pending(s)
         /\ \A p \in Publishers : pc[p] \in Inside => (Pending(s) <=> s \in todo[p])
  BY BroadcastAssumption DEF LockInv, LoopInv, Inside, MuFree, Pending

-----------------------------------------------------------------------------
\* The registry.

\* Registered channels are open, and ids are handed out in order.
LEMMA RegStep == TypeOK /\ RegInv /\ [Next]_vars => RegInv'
<1> SUFFICES ASSUME TypeOK, RegInv, [Next]_vars PROVE RegInv'
  OBVIOUS
<1> USE DEF RegInv
<1>a. subs \subseteq Ids /\ nextID \in Nat
  BY BroadcastAssumption DEF TypeOK, RegTypeOK
<1>b. \A s \in Ids : s \in Nat
  BY DEF Ids
<1>c. ASSUME UNCHANGED <<subs, chOpen, nextID>> PROVE RegInv'
  BY <1>c
<1>1. CASE Subscribe
  BY <1>a, <1>b, <1>1 DEF Subscribe, Registered
<1>2. CASE Close
  BY <1>2 DEF Close, SubsAfterClose
<1>3. ASSUME NEW s \in Ids, Unsubscribe(s) PROVE RegInv'
  BY <1>3 DEF Unsubscribe
<1>4. ASSUME NEW s \in Ids, Receive(s) PROVE RegInv'
  BY <1>4, <1>c DEF Receive, regVars
<1>5. ASSUME NEW p \in Publishers,
             Call(p) \/ Enter(p) \/ EnterClosed(p) \/ Deliver(p) \/ Leave(p)
      PROVE  RegInv'
  BY <1>5, <1>c, Zenon
  DEF Call, Enter, EnterClosed, Deliver, TrySend, TryFull, Drain, Send, Leave,
      regVars, chanVars
<1>6. CASE UNCHANGED vars
  BY <1>6, <1>c DEF vars, regVars, chanVars
<1> QED
  BY <1>1, <1>2, <1>3, <1>4, <1>5, <1>6, Zenon DEF Next

\* Nothing happens to a channel before its id was handed out.
LEMMA FreshStep ==
  TypeOK /\ LoopInv /\ RegInv /\ FreshInv /\ [Next]_vars => FreshInv'
<1> SUFFICES ASSUME TypeOK, LoopInv, RegInv, FreshInv, [Next]_vars,
                    NEW s \in Ids, s >= nextID'
             PROVE  (ch[s] = <<>> /\ drops[s] = 0 /\ taken[s] = 0 /\ start[s] = 0)'
  BY DEF FreshInv
<1> DEFINE Same == UNCHANGED <<ch[s], drops[s], taken[s], start[s]>>
<1>a. /\ nextID \in Nat /\ s \in Nat
      /\ ch \in [Ids -> Seq(Nat)] /\ drops \in [Ids -> Nat]
      /\ taken \in [Ids -> Nat] /\ start \in [Ids -> Nat]
  BY BroadcastAssumption DEF TypeOK, RegTypeOK, ChanTypeOK, HistTypeOK, Ids
<1>b. nextID' \in Nat /\ nextID' >= nextID
  <2>1. nextID' = nextID \/ nextID' = nextID + 1
    BY Zenon DEF Next, Subscribe, Close, Unsubscribe, Receive, Call, Enter, EnterClosed,
       Deliver, TrySend, TryFull, Drain, Send, Leave, regVars, vars
  <2> QED
    BY <1>a, <2>1
<1>c. s >= nextID /\ ch[s] = <<>> /\ drops[s] = 0 /\ taken[s] = 0 /\ start[s] = 0
  BY <1>a, <1>b DEF FreshInv
<1>d. s \notin subs
  BY <1>a, <1>c DEF RegInv
<1> SUFFICES Same
  BY <1>c
<1>1. CASE Subscribe
  BY <1>a, <1>1 DEF Subscribe
<1>2. CASE Close
  BY <1>2 DEF Close, histVars
<1>3. ASSUME NEW i \in Ids, Unsubscribe(i) PROVE Same
  BY <1>3 DEF Unsubscribe, histVars
<1>4. ASSUME NEW i \in Ids, Receive(i) PROVE Same
  <2>1. i # s
    BY <1>4, <1>c DEF Receive
  <2> QED
    BY <1>a, <1>4, <2>1 DEF Receive
<1>5. ASSUME NEW p \in Publishers, Call(p) \/ Enter(p) \/ EnterClosed(p) \/ Leave(p)
      PROVE  Same
  BY <1>5, Zenon DEF Call, Enter, EnterClosed, Leave, chanVars, histVars
<1>6. ASSUME NEW p \in Publishers, NEW i \in Ids, TrySend(p, i) PROVE Same
  <2>1. i # s
    BY <1>6, <1>d DEF TrySend, LoopInv, Inside
  <2> QED
    BY <1>a, <1>6, <2>1 DEF TrySend, Put, histVars
<1>7. ASSUME NEW p \in Publishers, NEW i \in Ids, TryFull(p, i) PROVE Same
  BY <1>7 DEF TryFull, chanVars, histVars
<1>8. ASSUME NEW p \in Publishers, Drain(p) PROVE Same
  <2>1. tgt[p] # s
    BY <1>8, <1>d DEF Drain, LoopInv, Inside
  <2> QED
    BY <1>a, <1>8, <2>1 DEF Drain, DiscardOldest, histVars
<1>9. ASSUME NEW p \in Publishers, Send(p) PROVE Same
  <2>1. tgt[p] # s
    BY <1>9, <1>d DEF Send, LoopInv, Inside
  <2> QED
    BY <1>a, <1>9, <2>1 DEF Send, Put, histVars
<1>10. CASE UNCHANGED vars
  BY <1>10 DEF vars, chanVars, histVars
<1> QED
  BY <1>1, <1>2, <1>3, <1>4, <1>5, <1>6, <1>7, <1>8, <1>9, <1>10, Zenon DEF Next, Deliver

-----------------------------------------------------------------------------
\* The buffers.

\* What Tail and Append do to a sequence, position by position.
LEMMA TailFacts ==
  ASSUME NEW q \in Seq(Nat), q # <<>>
  PROVE  /\ Tail(q) \in Seq(Nat)
         /\ Len(q) \in Nat /\ Len(q) > 0 /\ Len(Tail(q)) = Len(q) - 1
         /\ \A i \in 1 .. Len(Tail(q)) : Tail(q)[i] = q[i + 1]
  OBVIOUS

\* What Append does to a queue.
LEMMA AppendFacts ==
  ASSUME NEW q \in Seq(Nat), NEW v \in Nat
  PROVE  /\ Append(q, v) \in Seq(Nat)
         /\ Len(q) \in Nat /\ Len(Append(q, v)) = Len(q) + 1
         /\ \A i \in 1 .. Len(q) : Append(q, v)[i] = q[i]
         /\ Append(q, v)[Len(q) + 1] = v
  OBVIOUS

\* deliver's third select finds room: b.mu keeps other publishers away, and readers
\* only make more of it.
LEMMA NewestStep ==
  TypeOK /\ LockInv /\ LoopInv /\ Accounted /\ NewestKept /\ [Next]_vars => NewestKept'
<1> SUFFICES ASSUME TypeOK, LockInv, LoopInv, Accounted, NewestKept, [Next]_vars,
                    NEW q \in Publishers, pc'[q] = "send"
             PROVE  Room(tgt[q])'
  BY DEF NewestKept
<1> USE DEF Inside
<1>a. /\ ch \in [Ids -> Seq(Nat)]
      /\ pc \in [Publishers -> {"idle", "lock", "loop", "drain", "send"}]
      /\ todo \in [Publishers -> SUBSET Ids]
  BY DEF TypeOK, ChanTypeOK, ProcTypeOK
<1>b. ASSUME pc'[q] = pc[q] PROVE Room(tgt[q]) /\ tgt[q] \in Ids /\ mu = q
  BY <1>a, <1>b DEF NewestKept, LoopInv, LockInv
<1>c. ASSUME UNCHANGED <<ch, pc, tgt>> PROVE Room(tgt[q])'
  BY <1>b, <1>c DEF Room
<1>1. ASSUME Subscribe \/ Close \/ \E s \in Ids : Unsubscribe(s) PROVE Room(tgt[q])'
  BY <1>1, <1>c, Zenon DEF Subscribe, Close, Unsubscribe, procVars
<1>2. ASSUME NEW s \in Ids, Receive(s) PROVE Room(tgt[q])'
  <2>1. UNCHANGED <<pc, tgt>> /\ ch[s] # <<>> /\ ch' = [ch EXCEPT ![s] = Tail(ch[s])]
    BY <1>2 DEF Receive, procVars
  <2>2. Room(tgt[q]) /\ tgt[q] \in Ids
    BY <1>b, <2>1
  <2>3. CASE s = tgt[q]
    <3>1. Len(ch'[s]) = Len(ch[s]) - 1 /\ Len(ch[s]) \in Nat
      BY <1>a, <2>1, TailFacts
    <3> QED
      BY <2>1, <2>2, <2>3, <3>1, CapacityPositive DEF Room, Capacity
  <2>4. CASE s # tgt[q]
    BY <1>a, <2>1, <2>2, <2>4 DEF Room, Capacity
  <2> QED
    BY <2>3, <2>4
<1>3. ASSUME NEW p \in Publishers, Call(p) \/ Enter(p) \/ EnterClosed(p) \/ Leave(p)
      PROVE  Room(tgt[q])'
  <2>1. UNCHANGED <<ch, tgt>>
    BY <1>3, Zenon DEF Call, Enter, EnterClosed, Leave, chanVars
  <2>2. pc'[q] = pc[q]
    BY <1>3, <1>a DEF Call, Enter, EnterClosed, Leave
  <2> QED
    BY <1>b, <2>1, <2>2 DEF Room
<1>4. ASSUME NEW p \in Publishers, NEW s \in Ids, TrySend(p, s) PROVE Room(tgt[q])'
  <2>1. pc'[q] = pc[q] /\ pc[p] = "loop" /\ q # p
    BY <1>4, <1>a DEF TrySend, Served
  <2> QED
    BY <1>b, <2>1 DEF LockInv
<1>5. ASSUME NEW p \in Publishers, NEW s \in Ids, TryFull(p, s) PROVE Room(tgt[q])'
  <2>1. pc'[q] = pc[q] /\ pc[p] = "loop" /\ q # p
    BY <1>5, <1>a DEF TryFull
  <2> QED
    BY <1>b, <2>1 DEF LockInv
<1>6. ASSUME NEW p \in Publishers, Drain(p) PROVE Room(tgt[q])'
  <2>1. q = p
    <3>1. CASE q # p
      BY <3>1, <1>6, <1>a, <1>b DEF Drain, LockInv
    <3> QED
      BY <3>1
  <2>2. tgt' = tgt /\ tgt[p] \in Ids /\ Len(ch[tgt[p]]) \in Nat
        /\ Len(ch[tgt[p]]) <= Capacity
    BY <1>6, <1>a DEF Drain, LoopInv, Accounted
  <2>3. CASE ch[tgt[p]] = <<>>
    <3>1. ch' = ch
      BY <1>6, <2>3 DEF Drain
    <3>2. Len(ch[tgt[p]]) = 0
      BY <2>3
    <3> QED
      BY <2>1, <2>2, <3>1, <3>2, CapacityPositive DEF Room, Capacity
  <2>4. CASE ch[tgt[p]] # <<>>
    <3>1. ch' = [ch EXCEPT ![tgt[p]] = Tail(ch[tgt[p]])]
      BY <1>6, <2>4 DEF Drain, DiscardOldest
    <3>2. Len(ch'[tgt[p]]) = Len(ch[tgt[p]]) - 1
      BY <1>a, <2>2, <2>4, <3>1, TailFacts
    <3> QED
      BY <2>1, <2>2, <3>2, CapacityPositive DEF Room, Capacity
  <2> QED
    BY <2>3, <2>4
<1>7. ASSUME NEW p \in Publishers, Send(p) PROVE Room(tgt[q])'
  <2>1. pc'[q] = pc[q] /\ pc[p] = "send" /\ q # p
    BY <1>7, <1>a DEF Send, Served
  <2> QED
    BY <1>b, <2>1 DEF LockInv
<1>8. CASE UNCHANGED vars
  BY <1>8, <1>c DEF vars, chanVars, procVars
<1> QED
  BY <1>1, <1>2, <1>3, <1>4, <1>5, <1>6, <1>7, <1>8, Zenon DEF Next, Deliver

\* What Accounted says of one subscriber.
AccountedFor(s) == Gapless(s) /\ UpToDate(s) /\ Len(ch[s]) <= Capacity

\* A value leaves at the old end, read or dropped, and is accounted for.
LEMMA AccountedShift ==
  ASSUME TypeOK, NEW s \in Ids, AccountedFor(s), ch[s] # <<>>,
         ch'[s] = Tail(ch[s]), Lo(s)' = Lo(s) + 1,
         UNCHANGED <<subs, published, todo>>
  PROVE  AccountedFor(s)'
<1>1. /\ ch[s] \in Seq(Nat) /\ published \in Nat
      /\ start[s] \in Nat /\ taken[s] \in Nat /\ drops[s] \in Nat
  BY DEF TypeOK, ChanTypeOK, HistTypeOK
<1>2. Lo(s) \in Nat
  BY <1>1 DEF Lo
<1>3. /\ Len(ch[s]) \in Nat /\ Len(ch'[s]) = Len(ch[s]) - 1 /\ Len(ch[s]) > 0
      /\ \A i \in 1 .. Len(ch'[s]) : ch'[s][i] = ch[s][i + 1]
  BY <1>1, TailFacts
<1>4. Gapless(s)'
  BY <1>2, <1>3 DEF AccountedFor, Gapless
<1>5. UpToDate(s)'
  <2>1. Pending(s)' <=> Pending(s)
    BY DEF Pending
  <2> QED
    BY <1>1, <1>2, <1>3, <2>1 DEF AccountedFor, UpToDate
<1>6. (Len(ch[s]) <= Capacity)'
  BY <1>3, CapacityPositive DEF AccountedFor, Capacity
<1> QED
  BY <1>4, <1>5, <1>6 DEF AccountedFor

\* Arithmetic: one more makes up for the one that was short.
LEMMA OneShort == \A a, b, c \in Nat : a + b = c - 1 => a + (b + 1) = c
  OBVIOUS

\* The value being published enters at the new end.
LEMMA AccountedGrow ==
  ASSUME TypeOK, LockInv, LoopInv, NEW p \in Publishers, pc[p] \in Inside,
         NEW s \in Ids, s \in todo[p], AccountedFor(s), Room(s),
         ch'[s] = Append(ch[s], val[p]), todo' = [todo EXCEPT ![p] = @ \ {s}],
         UNCHANGED <<subs, published, start[s], taken[s], drops[s]>>
  PROVE  AccountedFor(s)'
<1>1. /\ ch[s] \in Seq(Nat) /\ published \in Nat /\ val[p] \in Nat
      /\ start[s] \in Nat /\ taken[s] \in Nat /\ drops[s] \in Nat
      /\ todo \in [Publishers -> SUBSET Ids]
  BY DEF TypeOK, ChanTypeOK, ProcTypeOK, HistTypeOK
<1>2. Lo(s) \in Nat /\ Lo(s)' = Lo(s)
  BY <1>1 DEF Lo
<1>3. s \in subs /\ val[p] = published /\ Pending(s)
  BY DEF LoopInv, Pending
<1>4. Lo(s) + (Len(ch[s]) + 1) = published
  <2>1. Lo(s) + Len(ch[s]) = published - 1
    BY <1>3 DEF AccountedFor, UpToDate
  <2>2. Lo(s) \in Nat /\ Len(ch[s]) \in Nat /\ published \in Nat
    BY <1>1, <1>2
  <2> QED
    BY <2>1, <2>2, OneShort, SMTT(30)
<1>5. /\ Len(ch[s]) \in Nat /\ Len(ch'[s]) = Len(ch[s]) + 1
      /\ \A i \in 1 .. Len(ch[s]) : ch'[s][i] = ch[s][i]
      /\ ch'[s][Len(ch[s]) + 1] = val[p]
  BY <1>1, AppendFacts
<1>6. Gapless(s)'
  <2> SUFFICES ASSUME NEW i \in 1 .. Len(ch'[s]) PROVE ch'[s][i] = Lo(s) + i
    BY <1>2 DEF Gapless
  <2>1. CASE i \in 1 .. Len(ch[s])
    BY <1>5, <2>1 DEF AccountedFor, Gapless
  <2>2. CASE i = Len(ch[s]) + 1
    BY <1>3, <1>4, <1>5, <2>2
  <2> QED
    BY <1>5, <2>1, <2>2
<1>7. UpToDate(s)'
  <2>1. ~Pending(s)'
    <3> SUFFICES ASSUME NEW q \in Publishers, s \in todo'[q] PROVE FALSE
      BY DEF Pending
    <3>1. q # p /\ s \in todo[q]
      BY <1>1
    <3> QED
      BY <3>1 DEF LoopInv, LockInv
  <2>2. Lo(s)' + Len(ch'[s]) = published'
    BY <1>2, <1>4, <1>5
  <2>3. published' - 0 = published'
    BY <1>1
  <2> QED
    BY <2>1, <2>2, <2>3 DEF UpToDate
<1>8. (Len(ch[s]) <= Capacity)'
  BY <1>5, CapacityPositive DEF Room, Capacity
<1> QED
  BY <1>6, <1>7, <1>8 DEF AccountedFor

\* Every step leaves every value accounted for: in a channel, received, dropped or on its way.
LEMMA AccountedStep ==
  TypeOK /\ LockInv /\ LoopInv /\ FreshInv /\ NewestKept /\ Accounted /\ [Next]_vars
  => Accounted'
<1> SUFFICES ASSUME TypeOK, LockInv, LoopInv, FreshInv, NewestKept, Accounted, [Next]_vars,
                    NEW s \in Ids
             PROVE  AccountedFor(s)'
  BY DEF Accounted, AccountedFor
<1> USE DEF Inside
<1>a. /\ ch \in [Ids -> Seq(Nat)] /\ drops \in [Ids -> Nat]
      /\ taken \in [Ids -> Nat] /\ start \in [Ids -> Nat]
      /\ todo \in [Publishers -> SUBSET Ids] /\ published \in Nat
  BY DEF TypeOK, ChanTypeOK, ProcTypeOK, HistTypeOK
<1>b. AccountedFor(s)
  BY DEF Accounted, AccountedFor
<1>c. ASSUME UNCHANGED <<ch[s], start[s], taken[s], drops[s], published>>,
             s \in subs' => s \in subs /\ (Pending(s)' <=> Pending(s))
      PROVE  AccountedFor(s)'
  <2>1. Lo(s)' = Lo(s)
    BY <1>c DEF Lo
  <2>2. Gapless(s)' /\ (Len(ch[s]) <= Capacity)'
    BY <1>b, <1>c, <2>1 DEF AccountedFor, Gapless, Capacity
  <2>3. UpToDate(s)'
    BY <1>b, <1>c, <2>1 DEF AccountedFor, UpToDate
  <2> QED
    BY <2>2, <2>3 DEF AccountedFor
<1>1. CASE Subscribe
  <2>1. UNCHANGED <<ch, taken, drops, published, todo>> /\ subs' = subs \cup {nextID}
        /\ start' = [start EXCEPT ![nextID] = published]
    BY <1>1 DEF Subscribe, Registered, procVars
  <2>2. CASE s = nextID
    <3>1. ch[s] = <<>> /\ taken[s] = 0 /\ drops[s] = 0
      BY <2>2 DEF FreshInv, Ids
    <3>2. Lo(s)' = published /\ Len(ch'[s]) = 0
      BY <1>a, <2>1, <2>2, <3>1 DEF Lo
    <3>3. ~Pending(s)'
      BY <1>1, <2>1, BroadcastAssumption DEF Subscribe, MuFree, LockInv, LoopInv, Pending
    <3>4. Gapless(s)' /\ (Len(ch[s]) <= Capacity)'
      BY <3>2, CapacityPositive DEF Gapless, Capacity
    <3>5. UpToDate(s)'
      BY <1>a, <2>1, <3>2, <3>3 DEF UpToDate
    <3> QED
      BY <3>4, <3>5 DEF AccountedFor
  <2>3. CASE s # nextID
    <3>1. start'[s] = start[s]
      BY <1>a, <2>1, <2>3
    <3> QED
      BY <1>c, <2>1, <2>3, <3>1 DEF Pending
  <2> QED
    BY <2>2, <2>3
<1>2. CASE Close
  BY <1>c, <1>2 DEF Close, SubsAfterClose, histVars
<1>3. ASSUME NEW i \in Ids, Unsubscribe(i) PROVE AccountedFor(s)'
  BY <1>c, <1>3 DEF Unsubscribe, histVars, procVars, Pending
<1>4. ASSUME NEW i \in Ids, Receive(i) PROVE AccountedFor(s)'
  <2>1. /\ ch[i] # <<>> /\ ch' = [ch EXCEPT ![i] = Tail(ch[i])]
        /\ taken' = [taken EXCEPT ![i] = taken[i] + 1]
        /\ UNCHANGED <<subs, published, todo, start, drops>>
    BY <1>4 DEF Receive, regVars, procVars
  <2>2. CASE i = s
    <3>1. ch'[s] = Tail(ch[s]) /\ Lo(s)' = Lo(s) + 1
      BY <1>a, <2>1, <2>2 DEF Lo
    <3> QED
      BY <1>b, <2>1, <2>2, <3>1, AccountedShift
  <2>3. CASE i # s
    <3>1. ch'[s] = ch[s] /\ taken'[s] = taken[s]
      BY <1>a, <2>1, <2>3
    <3> QED
      BY <1>c, <2>1, <3>1 DEF Pending
  <2> QED
    BY <2>2, <2>3
<1>5. ASSUME NEW p \in Publishers, Call(p) \/ EnterClosed(p) \/ Leave(p)
      PROVE  AccountedFor(s)'
  <2>1. UNCHANGED <<ch, start, taken, drops, published, subs, todo>>
    BY <1>5, Zenon DEF Call, EnterClosed, Leave, regVars, chanVars, histVars
  <2> QED
    BY <1>c, <2>1 DEF Pending
<1>6. ASSUME NEW p \in Publishers, Enter(p) PROVE AccountedFor(s)'
  <2>1. /\ UNCHANGED <<ch, start, taken, drops, subs>>
        /\ published' = published + 1
        /\ todo' = [todo EXCEPT ![p] = subs]
    BY <1>6 DEF Enter, regVars, chanVars
  <2>2. ~Pending(s)
    BY <1>6, BroadcastAssumption DEF Enter, MuFree, LockInv, LoopInv, Pending
  <2>3. s \in subs => Pending(s)'
    BY <1>a, <2>1 DEF Pending
  <2>4. Lo(s)' = Lo(s) /\ Lo(s) \in Nat /\ Len(ch[s]) \in Nat
    BY <1>a, <2>1 DEF Lo
  <2>5. Gapless(s)' /\ (Len(ch[s]) <= Capacity)'
    BY <1>b, <2>1, <2>4 DEF AccountedFor, Gapless, Capacity
  <2>6. UpToDate(s)'
    BY <1>a, <1>b, <2>1, <2>2, <2>3, <2>4 DEF AccountedFor, UpToDate
  <2> QED
    BY <2>5, <2>6 DEF AccountedFor
<1>7. ASSUME NEW p \in Publishers, NEW i \in Ids, TrySend(p, i) PROVE AccountedFor(s)'
  <2>1. /\ pc[p] = "loop" /\ i \in todo[p] /\ Room(i)
        /\ ch' = [ch EXCEPT ![i] = Append(ch[i], val[p])]
        /\ todo' = [todo EXCEPT ![p] = todo[p] \ {i}]
        /\ UNCHANGED <<subs, published, start, taken, drops>>
    BY <1>7 DEF TrySend, Put, Served, regVars, histVars
  <2>2. CASE i = s
    <3>1. ch'[s] = Append(ch[s], val[p])
      BY <1>a, <2>1, <2>2
    <3> QED
      BY <1>b, <2>1, <2>2, <3>1, AccountedGrow
  <2>3. CASE i # s
    <3>1. ch'[s] = ch[s] /\ (Pending(s)' <=> Pending(s))
      BY <1>a, <2>1, <2>3 DEF Pending
    <3> QED
      BY <1>c, <2>1, <3>1
  <2> QED
    BY <2>2, <2>3
<1>8. ASSUME NEW p \in Publishers, NEW i \in Ids, TryFull(p, i) PROVE AccountedFor(s)'
  BY <1>c, <1>8 DEF TryFull, regVars, chanVars, histVars, Pending
<1>9. ASSUME NEW p \in Publishers, Drain(p) PROVE AccountedFor(s)'
  <2>1. tgt[p] \in Ids /\ UNCHANGED <<subs, published, todo, start, taken>>
    BY <1>9, <1>a DEF Drain, LoopInv, regVars, histVars
  <2>2. CASE ch[tgt[p]] = <<>>
    BY <1>c, <1>9, <2>1, <2>2 DEF Drain, Pending
  <2>3. CASE ch[tgt[p]] # <<>>
    <3>1. /\ ch' = [ch EXCEPT ![tgt[p]] = Tail(ch[tgt[p]])]
          /\ drops' = [drops EXCEPT ![tgt[p]] = drops[tgt[p]] + 1]
      BY <1>9, <2>3 DEF Drain, DiscardOldest
    <3>2. CASE tgt[p] = s
      <4>1. ch'[s] = Tail(ch[s]) /\ Lo(s)' = Lo(s) + 1
        BY <1>a, <2>1, <3>1, <3>2 DEF Lo
      <4> QED
        BY <1>b, <2>1, <2>3, <3>2, <4>1, AccountedShift
    <3>3. CASE tgt[p] # s
      <4>1. ch'[s] = ch[s] /\ drops'[s] = drops[s]
        BY <1>a, <3>1, <3>3
      <4> QED
        BY <1>c, <2>1, <4>1 DEF Pending
    <3> QED
      BY <3>2, <3>3
  <2> QED
    BY <2>2, <2>3
<1>10. ASSUME NEW p \in Publishers, Send(p) PROVE AccountedFor(s)'
  <2>1. pc[p] = "send" /\ tgt[p] \in todo[p] /\ tgt[p] \in Ids /\ Room(tgt[p])
    BY <1>10, <1>a DEF Send, LoopInv, NewestKept
  <2>2. /\ ch' = [ch EXCEPT ![tgt[p]] = Append(ch[tgt[p]], val[p])]
        /\ todo' = [todo EXCEPT ![p] = todo[p] \ {tgt[p]}]
        /\ UNCHANGED <<subs, published, start, taken, drops>>
    BY <1>10, <2>1 DEF Send, Put, Served, regVars, histVars
  <2>3. CASE tgt[p] = s
    <3>1. ch'[s] = Append(ch[s], val[p])
      BY <1>a, <2>1, <2>2, <2>3
    <3> QED
      BY <1>b, <2>1, <2>2, <2>3, <3>1, AccountedGrow
  <2>4. CASE tgt[p] # s
    <3>1. ch'[s] = ch[s] /\ (Pending(s)' <=> Pending(s))
      BY <1>a, <2>2, <2>4 DEF Pending
    <3> QED
      BY <1>c, <2>2, <3>1
  <2> QED
    BY <2>3, <2>4
<1>11. CASE UNCHANGED vars
  BY <1>c, <1>11 DEF vars, regVars, chanVars, procVars, histVars, Pending
<1> QED
  BY <1>1, <1>2, <1>3, <1>4, <1>5, <1>6, <1>7, <1>8, <1>9, <1>10, <1>11, Zenon
  DEF Next, Deliver

-----------------------------------------------------------------------------
\* The inductive invariant, and what follows from it.

\* The inductive invariant holds at first ...
LEMMA IInvInit == Init => IInv
<1> SUFFICES ASSUME Init PROVE IInv
  OBVIOUS
<1>1. TypeOK
  BY TypeInit
<1>2. LockInv /\ LoopInv /\ NewestKept
  BY BroadcastAssumption DEF Init, LockInv, LoopInv, NewestKept, Inside
<1>3. RegInv /\ FreshInv
  BY DEF Init, RegInv, FreshInv
<1>4. Accounted
  <2> SUFFICES ASSUME NEW s \in Ids PROVE Gapless(s) /\ UpToDate(s) /\ Len(ch[s]) <= Capacity
    BY DEF Accounted
  <2>1. Len(ch[s]) = 0 /\ s \notin subs
    BY DEF Init
  <2> QED
    BY <2>1, CapacityPositive DEF Gapless, UpToDate, Capacity
<1> QED
  BY <1>1, <1>2, <1>3, <1>4 DEF IInv

\* ... and every step keeps it.
LEMMA IInvStep == IInv /\ [Next]_vars => IInv'
  BY TypeStep, LockStep, LoopStep, RegStep, FreshStep, NewestStep, AccountedStep, Zenon
  DEF IInv

\* The inductive invariant holds: types, b.mu, the loop over the subscribers, and where every
\* value of every subscriber is.
THEOREM Invariance == Spec => []IInv
  BY IInvInit, IInvStep, PTL DEF Spec

\* The value being published is never the one dropped.
THEOREM NewestSurvives == Spec => []NewestKept
<1>1. IInv => NewestKept
  BY DEF IInv
<1> QED
  BY <1>1, Invariance, PTL

\* Every value published since a subscription is read, counted as dropped or still
\* buffered, in order.
THEOREM NothingLost == Spec => []Accounted
<1>1. IInv => Accounted
  BY DEF IInv
<1> QED
  BY <1>1, Invariance, PTL

\* No send on a closed channel, and no channel closed twice.
THEOREM NeverPanics == Spec => []NoPanic
<1>1. IInv => NoPanic
  BY DEF IInv, RegInv, LoopInv, NoPanic
<1> QED
  BY <1>1, Invariance, PTL

-----------------------------------------------------------------------------
\* Broadcast implements SlidingWindow, as far as safety goes.

\* The windows are functions on the ids with these values.
WindowValues ==
  /\ windowLo \in [Ids -> Nat] /\ windowHi \in [Ids -> Nat]
  /\ drops \in [Ids -> Nat] /\ last \in [Ids -> Nat] /\ published \in Nat
  /\ \A s \in Ids : /\ Len(ch[s]) \in Nat /\ Lo(s) \in Nat
                    /\ windowLo[s] = Lo(s)
                    /\ windowHi[s] = Lo(s) + Len(ch[s]) + IF InHand(s) THEN 1 ELSE 0

\* The window of a subscriber has its types ...
LEMMA WindowTypes == IInv => WindowValues
<1> SUFFICES ASSUME IInv PROVE WindowValues
  OBVIOUS
<1>1. /\ ch \in [Ids -> Seq(Nat)] /\ drops \in [Ids -> Nat] /\ last \in [Ids -> Nat]
      /\ start \in [Ids -> Nat] /\ taken \in [Ids -> Nat] /\ published \in Nat
  BY DEF IInv, TypeOK, ChanTypeOK, HistTypeOK
<1>2. ASSUME NEW s \in Ids PROVE Lo(s) \in Nat /\ Len(ch[s]) \in Nat
  BY <1>1 DEF Lo
<1>3. ASSUME NEW s \in Ids
      PROVE  Lo(s) + Len(ch[s]) + (IF InHand(s) THEN 1 ELSE 0) \in Nat
  BY <1>2
<1> QED
  BY <1>1, <1>2, <1>3 DEF windowLo, windowHi, WindowValues

\* ... also after a step.
LEMMA WindowTypesNext == IInv' => WindowValues'
  BY WindowTypes, PTL

\* While b.mu is free no window lags behind.
LEMMA SettledWhenFree == ASSUME IInv, MuFree PROVE Window!Settled
<1> SUFFICES ASSUME NEW s \in Ids, windowPhase[s] = "live" PROVE windowHi[s] = published
  BY DEF Window!Settled, Window!Live
<1>1. s \in subs
  BY DEF windowPhase
<1>2. ~InHand(s) /\ ~Pending(s)
  BY BroadcastAssumption DEF IInv, MuFree, LockInv, LoopInv, Inside, InHand, Pending
<1>3. Lo(s) + Len(ch[s]) = published - 0
  BY <1>1, <1>2 DEF IInv, Accounted, UpToDate
<1>4. windowHi[s] = Lo(s) + Len(ch[s]) + 0
  BY <1>2, WindowTypes DEF WindowValues
<1>5. windowHi[s] \in Nat /\ published \in Nat /\ Lo(s) \in Nat /\ Len(ch[s]) \in Nat
  BY WindowTypes DEF WindowValues
<1> QED
  BY <1>3, <1>4, <1>5

\* The steps that move no window.
LEMMA WindowStutter ==
  ASSUME IInv, IInv',
         UNCHANGED <<published, closed, subs, nextID, last, drops, ch, start, taken>>,
         \A s \in Ids : InHand(s)' <=> InHand(s)
  PROVE  UNCHANGED Window!winVars
<1>1. windowPhase' = windowPhase
  BY DEF windowPhase
<1>2. \A s \in Ids : Lo(s)' = Lo(s)
  BY DEF Lo
<1>3. windowLo' = windowLo
  BY <1>2 DEF windowLo
<1>4. windowHi' = windowHi
  BY <1>2 DEF windowHi
<1> QED
  BY <1>1, <1>3, <1>4 DEF Window!winVars

\* The newest value takes its place in s's window: sent where there was room, or a
\* place made for it by discarding k old values.
LEMMA WindowOffer ==
  ASSUME IInv, IInv', NEW s \in subs, Pending(s), ~InHand(s),
         NEW k \in {0, 1}, Lo(s)' = Lo(s) + k, k <= Len(ch[s]),
         windowHi'[s] = windowHi[s] + 1,
         \A i \in Ids : i # s => UNCHANGED <<windowLo[i], windowHi[i]>>,
         drops' = [drops EXCEPT ![s] = @ + k],
         UNCHANGED <<published, closed, subs, nextID, last>>
  PROVE  Window!Offer(s)
<1>1. s \in Ids /\ windowPhase[s] = "live" /\ windowPhase' = windowPhase
  BY DEF IInv, TypeOK, RegTypeOK, windowPhase
<1>2. WindowValues /\ WindowValues'
  BY WindowTypes, WindowTypesNext
<1>3. windowLo' = [windowLo EXCEPT ![s] = @ + k]
  BY <1>1, <1>2 DEF WindowValues
<1>4. windowHi' = [windowHi EXCEPT ![s] = @ + 1]
  BY <1>1, <1>2 DEF WindowValues
<1>5. windowHi[s] = Lo(s) + Len(ch[s]) /\ Lo(s) \in Nat /\ Len(ch[s]) \in Nat
  BY <1>1, <1>2 DEF WindowValues
<1>6. windowHi[s] < published
  <2>1. Lo(s) + Len(ch[s]) = published - 1
    BY <1>1 DEF IInv, Accounted, UpToDate
  <2>2. windowHi[s] = published - 1 /\ published \in Nat
    BY <1>2, <1>5, <2>1 DEF WindowValues
  <2> QED
    BY <2>2
<1>7. windowLo[s] + k <= windowHi[s]
  BY <1>1, <1>2, <1>5 DEF WindowValues
<1>8. windowHi[s] + 1 - (windowLo[s] + k) <= Capacity
  <2>1. windowHi'[s] = windowHi[s] + 1 /\ windowLo'[s] = windowLo[s] + k
    BY <1>1, <1>2, <1>3 DEF WindowValues
  <2>2. windowHi'[s] - windowLo'[s] <= Capacity
    <3>1. /\ windowLo'[s] = Lo(s)' /\ Lo(s)' \in Nat /\ Len(ch'[s]) \in Nat
          /\ windowHi'[s] = Lo(s)' + Len(ch'[s]) + IF InHand(s)' THEN 1 ELSE 0
      BY <1>1, <1>2 DEF WindowValues
    <3>2. Len(ch'[s]) <= Capacity /\ (InHand(s)' => Len(ch'[s]) < Capacity)
      BY <1>1 DEF IInv, Accounted, NewestKept, InHand, Room, Capacity
    <3> QED
      BY <3>1, <3>2, CapacityPositive
  <2>3. /\ windowHi[s] \in Nat /\ windowLo[s] \in Nat /\ Capacity \in Nat
        /\ windowHi'[s] \in Nat /\ windowLo'[s] \in Nat
    BY <1>1, <1>2, CapacityPositive DEF WindowValues
  <2> QED
    BY <2>1, <2>2, <2>3
<1> QED
  BY <1>1, <1>3, <1>4, <1>6, <1>7, <1>8, Zenon DEF Window!Offer

\* Only the holder of b.mu has a value in hand.
LEMMA InHandHolder ==
  ASSUME IInv, NEW s \in Ids
  PROVE  /\ MuFree => ~InHand(s)
         /\ \A p \in Publishers :
              pc[p] \in Inside => (InHand(s) <=> pc[p] = "send" /\ tgt[p] = s)
  BY BroadcastAssumption DEF IInv, LockInv, Inside, MuFree, InHand

\* Every step of the broadcaster is one of the windows, or moves none.
LEMMA WindowStep ==
  IInv /\ IInv' /\ [Next]_vars => [Window!WindowNext]_(Window!winVars)
<1> SUFFICES ASSUME IInv, IInv', [Next]_vars
             PROVE  Window!WindowNext \/ UNCHANGED Window!winVars
  BY Zenon
<1> USE DEF Inside
<1>a. /\ ch \in [Ids -> Seq(Nat)] /\ drops \in [Ids -> Nat]
      /\ taken \in [Ids -> Nat] /\ start \in [Ids -> Nat] /\ last \in [Ids -> Nat]
      /\ todo \in [Publishers -> SUBSET Ids] /\ published \in Nat
      /\ pc \in [Publishers -> {"idle", "lock", "loop", "drain", "send"}]
      /\ tgt \in [Publishers -> Ids \cup {-1}]
      /\ subs \subseteq Ids /\ nextID \in Nat
  BY BroadcastAssumption
  DEF IInv, TypeOK, RegTypeOK, ChanTypeOK, ProcTypeOK, HistTypeOK
<1>b. WindowValues /\ WindowValues'
  BY WindowTypes, WindowTypesNext
<1>v. \A i \in Ids : /\ Len(ch[i]) \in Nat /\ Lo(i) \in Nat /\ windowLo[i] = Lo(i)
                     /\ ~InHand(i) => windowHi[i] = Lo(i) + Len(ch[i])
                     /\ InHand(i) => windowHi[i] = Lo(i) + Len(ch[i]) + 1
  BY <1>b DEF WindowValues
<1>w. \A i \in Ids : /\ Len(ch'[i]) \in Nat /\ Lo(i)' \in Nat /\ windowLo'[i] = Lo(i)'
                     /\ ~InHand(i)' => windowHi'[i] = Lo(i)' + Len(ch'[i])
                     /\ InHand(i)' => windowHi'[i] = Lo(i)' + Len(ch'[i]) + 1
  BY <1>b DEF WindowValues
<1>1. CASE Subscribe
  <2>a. nextID \in Ids
    BY <1>1, <1>a, BroadcastAssumption DEF Subscribe, Ids
  <2>n. PICK n \in Ids : n = nextID
    BY <2>a
  <2>1. /\ UNCHANGED <<ch, taken, drops, last, published, closed, pc, tgt>>
        /\ subs' = subs \cup {n} /\ nextID' = n + 1
        /\ start' = [start EXCEPT ![n] = published] /\ ~closed /\ MuFree
    BY <1>1, <2>n DEF Subscribe, Registered, procVars
  <2>2. \A s \in Ids : ~InHand(s) /\ ~InHand(s)'
    BY <2>1, InHandHolder DEF InHand
  <2>3. ch[n] = <<>> /\ taken[n] = 0 /\ drops[n] = 0 /\ n \notin subs
    BY <1>a, <2>n DEF IInv, FreshInv, RegInv
  <2>4. Lo(n)' = published /\ \A s \in Ids : s # n => Lo(s)' = Lo(s)
    <3>1. start'[n] = published /\ \A s \in Ids : s # n => start'[s] = start[s]
      BY <1>a, <2>1
    <3>2. taken'[n] = 0 /\ drops'[n] = 0
      BY <2>1, <2>3
    <3>3. Lo(n)' = published
      BY <1>a, <3>1, <3>2 DEF Lo
    <3> QED
      BY <2>1, <3>1, <3>3 DEF Lo
  <2>5. windowLo' = [windowLo EXCEPT ![n] = published]
    <3>1. windowLo'[n] = published
      BY <1>w, <2>4
    <3>2. \A s \in Ids : s # n => windowLo'[s] = windowLo[s]
      BY <1>v, <1>w, <2>4
    <3> QED
      BY <1>b, <3>1, <3>2 DEF WindowValues
  <2>6. windowHi' = [windowHi EXCEPT ![n] = published]
    <3>1. windowHi'[n] = published
      <4>1. Len(ch'[n]) = 0
        BY <2>1, <2>3
      <4>2. windowHi'[n] = Lo(n)' + Len(ch'[n])
        BY <1>w, <2>2
      <4> QED
        BY <1>a, <2>4, <4>1, <4>2
    <3>2. \A s \in Ids : s # n => windowHi'[s] = windowHi[s]
      BY <1>v, <1>w, <2>1, <2>2, <2>4
    <3> QED
      BY <1>b, <2>1, <3>1, <3>2 DEF WindowValues
  <2>7. windowPhase[n] = "fresh" /\ windowPhase' = [windowPhase EXCEPT ![n] = "live"]
    <3>1. \A s \in Ids : s \in Nat
      BY DEF Ids
    <3>2. \A s \in Ids : s < n + 1 <=> s < n \/ s = n
      BY <3>1
    <3>3. windowPhase[n] = "fresh"
      BY <2>n, <2>3, <3>1 DEF windowPhase
    <3>4. \A s \in Ids : windowPhase'[s] = IF s = n THEN "live" ELSE windowPhase[s]
      BY <2>1, <2>n, <3>2 DEF windowPhase
    <3> QED
      BY <3>3, <3>4 DEF windowPhase
  <2>8. Window!Subscribe(n)
    BY <2>1, <2>5, <2>6, <2>7, SettledWhenFree, Zenon DEF Window!Subscribe
  <2> QED
    BY <2>8 DEF Window!WindowNext
<1>2. CASE Close
  <2>1. /\ UNCHANGED <<nextID, ch, start, taken, drops, last, published, pc, tgt>>
        /\ closed' = TRUE /\ ~closed /\ subs' = {} /\ MuFree
    BY <1>2 DEF Close, SubsAfterClose, procVars, histVars
  <2>2. windowLo' = windowLo /\ windowHi' = windowHi
    BY <2>1 DEF windowLo, windowHi, Lo, InHand
  <2>3. windowPhase' = [s \in Ids |-> IF s \in Window!Live THEN "detached"
                                      ELSE windowPhase[s]]
    BY <1>a, <2>1 DEF windowPhase, Window!Live, IInv, RegInv
  <2> QED
    BY <2>1, <2>2, <2>3, SettledWhenFree, Zenon DEF Window!WindowNext, Window!CloseAll
<1>3. ASSUME NEW s \in Ids, Unsubscribe(s) PROVE Window!WindowNext
  <2>1. /\ UNCHANGED <<nextID, closed, ch, start, taken, drops, last, published, pc, tgt>>
        /\ s \in subs /\ subs' = subs \ {s} /\ MuFree
    BY <1>3 DEF Unsubscribe, procVars, histVars
  <2>2. windowLo' = windowLo /\ windowHi' = windowHi
    BY <2>1 DEF windowLo, windowHi, Lo, InHand
  <2>3. windowPhase[s] = "live" /\ windowPhase' = [windowPhase EXCEPT ![s] = "detached"]
    BY <1>a, <2>1 DEF windowPhase, IInv, RegInv
  <2> QED
    BY <2>1, <2>2, <2>3, SettledWhenFree, Zenon DEF Window!WindowNext, Window!Unsubscribe
<1>4. ASSUME NEW s \in Ids, Receive(s) PROVE Window!WindowNext
  <2>1. /\ ch[s] # <<>> /\ ch' = [ch EXCEPT ![s] = Tail(ch[s])]
        /\ taken' = [taken EXCEPT ![s] = taken[s] + 1]
        /\ last' = [last EXCEPT ![s] = Head(ch[s])]
        /\ UNCHANGED <<subs, nextID, closed, published, start, drops, pc, tgt>>
    BY <1>4 DEF Receive, regVars, procVars
  <2>2. Lo(s)' = Lo(s) + 1 /\ \A i \in Ids : i # s => Lo(i)' = Lo(i) /\ ch'[i] = ch[i]
    BY <1>a, <2>1 DEF Lo
  <2>3. Len(ch[s]) > 0 /\ Len(ch'[s]) = Len(ch[s]) - 1
    BY <1>a, <2>1, TailFacts
  <2>4. windowLo' = [windowLo EXCEPT ![s] = @ + 1]
    BY <1>b, <2>2 DEF WindowValues
  <2>5. \A i \in Ids : InHand(i)' <=> InHand(i)
    BY <2>1 DEF InHand
  <2>6. windowHi' = windowHi
    <3>1. \A i \in Ids : i # s => windowHi'[i] = windowHi[i]
      BY <1>v, <1>w, <2>2, <2>5
    <3>2. windowHi'[s] = windowHi[s]
      <4>1. \/ /\ windowHi[s] = Lo(s) + Len(ch[s])
               /\ windowHi'[s] = Lo(s)' + Len(ch'[s])
            \/ /\ windowHi[s] = Lo(s) + Len(ch[s]) + 1
               /\ windowHi'[s] = Lo(s)' + Len(ch'[s]) + 1
        BY <1>v, <1>w, <2>5
      <4>2. Lo(s) \in Nat /\ Len(ch[s]) \in Nat
        BY <1>v
      <4> QED
        BY <2>2, <2>3, <4>1, <4>2
    <3> QED
      BY <1>b, <3>1, <3>2 DEF WindowValues
  <2>7. windowLo[s] < windowHi[s]
    BY <1>v, <2>3, <2>5
  <2>8. last' = [last EXCEPT ![s] = windowLo[s] + 1]
    <3>1. ch[s][1] = Lo(s) + 1
      BY <1>b, <2>3 DEF IInv, Accounted, Gapless, WindowValues
    <3>2. Head(ch[s]) = ch[s][1]
      BY <1>a, <2>1
    <3> QED
      BY <1>b, <2>1, <3>1, <3>2 DEF WindowValues
  <2>9. windowPhase' = windowPhase
    BY <2>1 DEF windowPhase
  <2> QED
    BY <2>1, <2>4, <2>6, <2>7, <2>8, <2>9, Zenon DEF Window!WindowNext, Window!Receive
<1>5. ASSUME NEW p \in Publishers, Call(p) \/ EnterClosed(p) \/ Leave(p)
      PROVE  UNCHANGED Window!winVars
  <2>1. UNCHANGED <<published, closed, subs, nextID, last, drops, ch, start, taken, tgt>>
    BY <1>5, Zenon DEF Call, EnterClosed, Leave, regVars, chanVars, histVars
  <2>2. \A q \in Publishers : pc'[q] = "send" <=> pc[q] = "send"
    BY <1>5, <1>a DEF Call, EnterClosed, Leave
  <2>3. \A s \in Ids : InHand(s)' <=> InHand(s)
    BY <2>1, <2>2 DEF InHand
  <2> QED
    BY <2>1, <2>3, WindowStutter
<1>6. ASSUME NEW p \in Publishers, Enter(p) PROVE Window!WindowNext
  <2>1. /\ UNCHANGED <<closed, subs, nextID, last, drops, ch, start, taken, tgt>>
        /\ published' = published + 1 /\ MuFree /\ ~closed
    BY <1>6 DEF Enter, regVars, chanVars
  <2>2. \A q \in Publishers : pc'[q] = "send" <=> pc[q] = "send"
    BY <1>6, <1>a DEF Enter
  <2>3. \A s \in Ids : (InHand(s)' <=> InHand(s)) /\ Lo(s)' = Lo(s)
    BY <2>1, <2>2 DEF InHand, Lo
  <2>4. windowLo' = windowLo /\ windowHi' = windowHi /\ windowPhase' = windowPhase
    BY <2>1, <2>3 DEF windowLo, windowHi, windowPhase
  <2> QED
    BY <2>1, <2>4, SettledWhenFree, Zenon DEF Window!WindowNext, Window!Publish
<1>7. ASSUME NEW p \in Publishers, NEW s \in Ids, TrySend(p, s) PROVE Window!Offer(s)
  <2>1. /\ pc[p] = "loop" /\ s \in todo[p] /\ tgt' = tgt
        /\ ch' = [ch EXCEPT ![s] = Append(ch[s], val[p])]
        /\ UNCHANGED <<published, closed, subs, nextID, start, taken, drops, last>>
    BY <1>7 DEF TrySend, Put, Served, regVars, histVars
  <2>2. s \in subs /\ Pending(s)
    BY <2>1 DEF IInv, LoopInv, Pending
  <2>3. \A i \in Ids : ~InHand(i) /\ ~InHand(i)'
    <3>1. \A i \in Ids : ~InHand(i)
      BY <2>1, InHandHolder
    <3>2. \A q \in Publishers : pc'[q] = "send" => pc[q] = "send"
      BY <1>7, <1>a DEF TrySend, Served
    <3> QED
      BY <2>1, <3>1, <3>2 DEF InHand
  <2>4. \A i \in Ids : Lo(i)' = Lo(i)
    BY <2>1 DEF Lo
  <2>5. Len(ch'[s]) = Len(ch[s]) + 1 /\ \A i \in Ids : i # s => ch'[i] = ch[i]
    <3>1. val[p] \in Nat
      BY DEF IInv, TypeOK, ProcTypeOK
    <3> QED
      BY <1>a, <2>1, <3>1, AppendFacts
  <2>6. windowHi'[s] = windowHi[s] + 1
    <3>1. windowHi[s] = Lo(s) + Len(ch[s]) /\ windowHi'[s] = Lo(s)' + Len(ch'[s])
      BY <1>v, <1>w, <2>3
    <3>2. Lo(s)' = Lo(s) /\ Lo(s) \in Nat /\ Len(ch[s]) \in Nat
      BY <1>v, <2>4
    <3> QED
      BY <2>5, <3>1, <3>2
  <2>7. \A i \in Ids : i # s => UNCHANGED <<windowLo[i], windowHi[i]>>
    BY <1>v, <1>w, <2>3, <2>4, <2>5
  <2>8. Lo(s)' = Lo(s) + 0 /\ 0 <= Len(ch[s])
    BY <1>v, <2>4
  <2>9. drops' = [drops EXCEPT ![s] = @ + 0]
    BY <1>a, <2>1
  <2> QED
    BY <2>1, <2>2, <2>3, <2>6, <2>7, <2>8, <2>9, WindowOffer
<1>8. ASSUME NEW p \in Publishers, NEW s \in Ids, TryFull(p, s)
      PROVE  UNCHANGED Window!winVars
  <2>1. UNCHANGED <<published, closed, subs, nextID, last, drops, ch, start, taken>>
    BY <1>8 DEF TryFull, regVars, chanVars, histVars
  <2>2. pc[p] = "loop" /\ \A q \in Publishers :
          (pc'[q] = "send" <=> pc[q] = "send") /\ (pc[q] = "send" => tgt'[q] = tgt[q])
    BY <1>8, <1>a DEF TryFull
  <2>3. \A i \in Ids : InHand(i)' <=> InHand(i)
    BY <2>2 DEF InHand
  <2> QED
    BY <2>1, <2>3, WindowStutter
<1>9. ASSUME NEW p \in Publishers, Drain(p)
      PROVE  \E s \in Ids : Window!Offer(s)
  <2>s. pc[p] = "drain"
    BY <1>9 DEF Drain
  <2>t. PICK s \in Ids : s = tgt[p]
    BY <1>a, <2>s DEF IInv, LoopInv
  <2>1. /\ pc[p] = "drain" /\ tgt' = tgt /\ pc' = [pc EXCEPT ![p] = "send"]
        /\ UNCHANGED <<published, closed, subs, nextID, start, taken, last>>
    BY <1>9 DEF Drain, regVars, histVars
  <2>2. s \in subs /\ Pending(s)
    BY <1>a, <2>s, <2>t DEF IInv, LoopInv, Pending
  <2>3. \A i \in Ids : ~InHand(i) /\ (InHand(i)' <=> i = s)
    <3>1. \A i \in Ids : ~InHand(i)
      BY <2>1, InHandHolder
    <3>2. \A q \in Publishers : pc'[q] = "send" <=> (pc[q] = "send" \/ q = p)
      BY <1>a, <2>1
    <3> QED
      BY <2>1, <2>t, <3>1, <3>2 DEF InHand
  <2>4. CASE ch[s] = <<>>
    <3>1. UNCHANGED <<ch, drops>>
      BY <1>9, <2>t, <2>4 DEF Drain
    <3>2. \A i \in Ids : Lo(i)' = Lo(i)
      BY <2>1, <3>1 DEF Lo
    <3>3. windowHi'[s] = windowHi[s] + 1
      <4>1. /\ windowHi[s] = Lo(s) + Len(ch[s])
            /\ windowHi'[s] = Lo(s)' + Len(ch'[s]) + 1
        BY <1>v, <1>w, <2>3
      <4>2. Lo(s)' = Lo(s) /\ ch'[s] = ch[s] /\ Lo(s) \in Nat /\ Len(ch[s]) \in Nat
        BY <1>v, <3>1, <3>2
      <4> QED
        BY <4>1, <4>2
    <3>4. \A i \in Ids : i # s => UNCHANGED <<windowLo[i], windowHi[i]>>
      BY <1>v, <1>w, <2>3, <3>1, <3>2
    <3>5. Lo(s)' = Lo(s) + 0 /\ 0 <= Len(ch[s])
      BY <1>v, <3>2
    <3>6. drops' = [drops EXCEPT ![s] = @ + 0]
      BY <1>a, <3>1
    <3> QED
      BY <2>1, <2>2, <2>3, <3>3, <3>4, <3>5, <3>6, WindowOffer
  <2>5. CASE ch[s] # <<>>
    <3>1. /\ ch' = [ch EXCEPT ![s] = Tail(ch[s])]
          /\ drops' = [drops EXCEPT ![s] = drops[s] + 1]
      BY <1>9, <2>t, <2>5 DEF Drain, DiscardOldest
    <3>2. Lo(s)' = Lo(s) + 1 /\ \A i \in Ids : i # s => Lo(i)' = Lo(i) /\ ch'[i] = ch[i]
      BY <1>a, <2>1, <2>2, <3>1 DEF Lo
    <3>3. Len(ch[s]) > 0 /\ Len(ch'[s]) = Len(ch[s]) - 1
      BY <1>a, <2>2, <2>5, <3>1, TailFacts
    <3>4. windowHi'[s] = windowHi[s] + 1
      <4>1. /\ windowHi[s] = Lo(s) + Len(ch[s])
            /\ windowHi'[s] = Lo(s)' + Len(ch'[s]) + 1
        BY <1>v, <1>w, <2>3
      <4>2. Lo(s) \in Nat /\ Len(ch[s]) \in Nat
        BY <1>v
      <4> QED
        BY <3>2, <3>3, <4>1, <4>2
    <3>5. \A i \in Ids : i # s => UNCHANGED <<windowLo[i], windowHi[i]>>
      BY <1>v, <1>w, <2>3, <3>2
    <3>6. 1 <= Len(ch[s])
      BY <1>v, <2>2, <3>3
    <3> QED
      BY <2>1, <2>2, <2>3, <3>1, <3>2, <3>4, <3>5, <3>6, WindowOffer
  <2> QED
    BY <2>4, <2>5
<1>10. ASSUME NEW p \in Publishers, Send(p) PROVE UNCHANGED Window!winVars
  <2> DEFINE s == tgt[p]
  <2>1. pc[p] = "send" /\ s \in Ids /\ Room(s)
    BY <1>10, <1>a DEF Send, IInv, LoopInv, NewestKept
  <2>2. /\ ch' = [ch EXCEPT ![s] = Append(ch[s], val[p])] /\ tgt' = tgt
        /\ UNCHANGED <<published, closed, subs, nextID, start, taken, drops, last>>
    BY <1>10, <2>1 DEF Send, Put, regVars, histVars
  <2>3. \A i \in Ids : (InHand(i) <=> i = s) /\ ~InHand(i)'
    <3>1. \A i \in Ids : InHand(i) <=> i = s
      BY <2>1, InHandHolder
    <3>2. \A q \in Publishers : pc[q] = "send" => q = p
      BY <2>1 DEF IInv, LockInv
    <3>3. \A q \in Publishers : pc'[q] # "send"
      BY <1>10, <1>a, <3>2 DEF Send, Served
    <3> QED
      BY <3>1, <3>3 DEF InHand
  <2>4. \A i \in Ids : Lo(i)' = Lo(i)
    BY <2>2 DEF Lo
  <2>5. Len(ch'[s]) = Len(ch[s]) + 1 /\ \A i \in Ids : i # s => ch'[i] = ch[i]
    <3>1. val[p] \in Nat
      BY DEF IInv, TypeOK, ProcTypeOK
    <3> QED
      BY <1>a, <2>1, <2>2, <3>1, AppendFacts
  <2>6. windowLo' = windowLo
    BY <2>4 DEF windowLo
  <2>7. \A i \in Ids : windowHi'[i] = windowHi[i]
    <3>1. windowHi'[s] = windowHi[s]
      BY <1>v, <1>w, <2>1, <2>3, <2>4, <2>5
    <3>2. \A i \in Ids : i # s => windowHi'[i] = windowHi[i]
      BY <1>v, <1>w, <2>3, <2>4, <2>5
    <3> QED
      BY <3>1, <3>2
  <2>8. windowHi' = windowHi
    BY <1>b, <2>7 DEF WindowValues
  <2>9. windowPhase' = windowPhase
    BY <2>2 DEF windowPhase
  <2> QED
    BY <2>2, <2>6, <2>8, <2>9 DEF Window!winVars
<1>11. CASE UNCHANGED vars
  BY <1>11, WindowStutter DEF vars, regVars, chanVars, procVars, histVars, InHand
<1> QED
  BY <1>1, <1>2, <1>3, <1>4, <1>5, <1>6, <1>7, <1>8, <1>9, <1>10, <1>11, Zenon
  DEF Next, Deliver, Window!WindowNext

\* At first the windows are empty.
LEMMA WindowStart == Init => Window!WindowInit
<1> SUFFICES ASSUME Init PROVE Window!WindowInit
  OBVIOUS
<1>1. /\ published = 0 /\ closed = FALSE /\ subs = {} /\ nextID = 0
      /\ last = [s \in Ids |-> 0] /\ drops = [s \in Ids |-> 0]
  BY DEF Init
<1>2. windowPhase = [s \in Ids |-> "fresh"]
  <2>1. \A s \in Ids : ~(s < 0)
    BY DEF Ids
  <2> QED
    BY <1>1, <2>1 DEF windowPhase
<1>3. \A s \in Ids : Lo(s) = 0 /\ Len(ch[s]) = 0 /\ ~InHand(s)
  BY DEF Init, Lo, InHand
<1>4. windowLo = [s \in Ids |-> 0] /\ windowHi = [s \in Ids |-> 0]
  BY <1>3 DEF windowLo, windowHi
<1> QED
  BY <1>1, <1>2, <1>4 DEF Window!WindowInit

\* Whatever the interleaving of deliver's selects with the readers, the subscribers
\* see sliding windows over the log of publications.
THEOREM Implementation == Spec => Window!WindowSafety
  BY Invariance, IInvInit, WindowStart, WindowStep, PTL DEF Spec, Window!WindowSafety
=============================================================================
