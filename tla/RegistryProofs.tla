-------------------------- MODULE RegistryProofs --------------------------
(***************************************************************************)
(* Installer implements HookRegistry: what the steps of the installers do  *)
(* to the files, failures, crashes and edits by the user included, adds up *)
(* to a table of consumers' hooks.                                         *)
(***************************************************************************)
EXTENDS InstallerProofs

\* What a table has for an endpoint, or for none.
Value(x) == {x} \ {Nothing}

\* What is known of every state: the invariants that PromisesKept rests on.
Sound == IInv /\ PromiseKept /\ DoneInv

-----------------------------------------------------------------------------
\* What the mapping makes of a state.

\* A slot is an agent and a consumer, and has a file; every file has one.
LEMMA SlotParts ==
  ASSUME NEW s \in Slots
  PROVE  /\ s[1] \in HookAgents \cup PluginAgents /\ s[1] \in Agents /\ s[1] \notin OtherAgents
         /\ s[2] \in Markers /\ s = <<s[1], s[2]>>
         /\ SlotFile[s] = Path(s[1], s[2]) /\ SlotFile[s] \in Paths
  BY InstallerAssumption DEF Slots, SlotFile, Paths, Agents

\* Every file is some slot's.
LEMMA FileHasSlot ==
  ASSUME NEW f \in Paths
  PROVE  \E s \in Slots : SlotFile[s] = f
<1>1. PICK a \in HookAgents \cup PluginAgents, m \in Markers : f = Path(a, m)
  BY DEF Paths
<1>2. <<a, m>> \in Slots /\ <<a, m>>[1] = a /\ <<a, m>>[2] = m
  BY DEF Slots
<1> QED
  BY <1>1, <1>2 DEF SlotFile

\* A file that holds what a consumer was promised has hooks for that endpoint and no other.
LEMMA HookedHolds ==
  ASSUME NEW f, NEW content \in {Missing, Foreign} \cup Written(f), NEW m,
         NEW x \in Endpoints \cup {Nothing}, Holds(content, m, x)
  PROVE  Hooked(content, m) = Value(x)
<1>1. CASE content \in [kind : {"hooks"}, hooks : HookMaps]
  <2> DEFINE Commands(e) == {EntryAt(content.hooks[e], s).command : s \in SpotsOf(content.hooks[e], m)}
  <2>1. content.kind = "hooks" /\ InPlace(content.hooks, m, x)
    BY <1>1 DEF Holds
  <2>2. Hooked(content, m) = UNION {Commands(e) : e \in Events}
    BY <2>1 DEF Hooked
  <2>3. ASSUME NEW e \in Events, x # Nothing, e \in InstalledEvents PROVE Commands(e) = {x}
    <3>1. HasOne(content.hooks[e], m, x)
      BY <2>1, <2>3 DEF InPlace
    <3>2. PICK s : SpotsOf(content.hooks[e], m) = {s} /\ EntryAt(content.hooks[e], s).command = x
      BY <3>1 DEF HasOne
    <3> QED
      BY <3>2
  <2>4. ASSUME NEW e \in Events, ~(x # Nothing /\ e \in InstalledEvents) PROVE Commands(e) = {}
    <3>1. SpotsOf(content.hooks[e], m) = {}
      BY <2>1, <2>4 DEF InPlace
    <3> QED
      BY <3>1
  <2> HIDE DEF Commands
  <2>5. CASE x = Nothing
    BY <2>2, <2>4, <2>5 DEF Value
  <2>6. CASE x # Nothing
    <3>1. PICK e \in InstalledEvents : e \in Events
      BY HookMergeAssumption
    <3>2. Commands(e) = {x} /\ \A d \in Events : Commands(d) \in {{x}, {}}
      BY <2>3, <2>4, <2>6, <3>1
    <3> QED
      BY <2>2, <2>6, <3>1, <3>2 DEF Value
  <2> QED
    BY <2>5, <2>6
<1>2. CASE content \in [kind : {"plugin"}, endpoint : Endpoints]
  BY <1>2, InstallerAssumption DEF Holds, Hooked, Value
<1>3. CASE content \in {Missing, Foreign}
  BY <1>3 DEF Holds, Hooked, Value, Missing, Foreign
<1> QED
  BY <1>1, <1>2, <1>3 DEF Written
\* What the table says of a slot: nothing is known of it, or it is as the change that has just
\* been made wants it, or as promised.
HookedAs(a, m) ==
  LET f == Path(a, m) IN
  /\ f \in mixed => hookedNow[<<a, m>>] = {Unknown}
  /\ f \notin mixed => hookedNow[<<a, m>>] # {Unknown}
  /\ \A p \in Procs : f \notin mixed /\ Changed(p, f) /\ call[p].marker = m =>
       hookedNow[<<a, m>>] = Value(call[p].endpoint)
  /\ f \notin mixed /\ ~(\E p \in Procs : Changed(p, f) /\ call[p].marker = m) =>
       hookedNow[<<a, m>>] = Value(promised[a][m])

LEMMA HookedIs ==
  Sound => \A a \in HookAgents \cup PluginAgents, m \in Markers : HookedAs(a, m)
<1> SUFFICES ASSUME Sound, NEW a \in HookAgents \cup PluginAgents, NEW m \in Markers
             PROVE  HookedAs(a, m)
  OBVIOUS
<1> DEFINE f == Path(a, m)
           h == hookedNow[<<a, m>>]
<1>1. TypeOK /\ RunInv /\ DiskInv /\ PromiseKept /\ DoneInv
  BY DEF Sound, IInv
<1>2. <<a, m>> \in Slots /\ SlotFile[<<a, m>>] = f /\ f \in Paths /\ a \in Agents
  BY DEF Slots, SlotFile, Paths, Agents
<1>3. h = IF f \in mixed THEN {Unknown} ELSE Hooked(disk[f].content, m)
  BY <1>2 DEF hookedNow
<1>4. disk[f].content \in {Missing, Foreign} \cup Written(f)
  BY <1>1, <1>2 DEF DiskInv
<1>5. ASSUME NEW x \in Endpoints \cup {Nothing}, Holds(disk[f].content, m, x), f \notin mixed
      PROVE  h = Value(x) /\ h # {Unknown}
  <2>1. h = Value(x)
    BY <1>3, <1>4, <1>5, HookedHolds
  <2>2. Unknown \notin Endpoints
    BY InstallerAssumption
  <2> QED
    BY <2>1, <2>2 DEF Value
<1>6. ASSUME NEW p \in Procs, f \notin mixed, Changed(p, f), call[p].marker = m
      PROVE  h = Value(call[p].endpoint) /\ h # {Unknown}
  <2>1. pc[p] = "unlock" /\ File(p) = f /\ Working(p)
    BY <1>6 DEF Changed, Working
  <2>2. call[p].endpoint \in Endpoints \cup {Nothing}
    BY <1>1, <2>1, KeptType
  <2>3. Holds(disk[f].content, m, call[p].endpoint)
    BY <1>1, <1>6, <2>1 DEF DoneInv
  <2> QED
    BY <1>5, <1>6, <2>2, <2>3
<1>7. ASSUME f \notin mixed, ~(\E p \in Procs : Changed(p, f) /\ call[p].marker = m)
      PROVE  h = Value(promised[a][m]) /\ h # {Unknown}
  <2>1. promised[a][m] \in Endpoints \cup {Nothing}
    BY <1>1, <1>2 DEF TypeOK
  <2>2. Holds(disk[f].content, m, promised[a][m])
    BY <1>1, <1>7 DEF PromiseKept
  <2> QED
    BY <1>5, <1>7, <2>1, <2>2
<1> QED
  BY <1>3, <1>6, <1>7 DEF HookedAs

\* The same of the state after a step.
LEMMA HookedThen ==
  (Sound => \A a \in HookAgents \cup PluginAgents, m \in Markers : HookedAs(a, m))'
  BY HookedIs, PTL

\* What the table says a process is doing.
LEMMA DoingIs ==
  ASSUME TypeOK, RunInv, NEW p \in Procs
  PROVE  /\ ~Working(p) => doingNow[p] = NoProc
         /\ Working(p) =>
              /\ doingNow[p] = [slot |-> <<Agent(p), call[p].marker>>, value |-> Value(call[p].endpoint),
                                done |-> pc[p] = "unlock"]
              /\ doingNow[p] # NoProc
              /\ doingNow[p].slot \in Slots /\ SlotFile[doingNow[p].slot] = File(p)
              /\ doingNow[p].slot = <<Agent(p), call[p].marker>>
              /\ doingNow[p].value = Value(call[p].endpoint)
              /\ doingNow[p].value \in {{}} \cup {{e} : e \in Endpoints}
              /\ doingNow[p].done = (pc[p] = "unlock")
<1>1. CASE ~Working(p)
  BY <1>1 DEF doingNow, Working
<1>2. CASE Working(p)
  <2> DEFINE d == [slot |-> <<Agent(p), call[p].marker>>, value |-> Value(call[p].endpoint),
                   done |-> pc[p] = "unlock"]
  <2>1. doingNow[p] = d
    BY <1>2 DEF doingNow, Working, Value
  <2>2. Agent(p) \in HookAgents \cup PluginAgents /\ call[p].marker \in Markers
        /\ File(p) = Path(Agent(p), call[p].marker)
    BY <1>2, FileIsPath
  <2>3. d.slot \in Slots /\ SlotFile[d.slot] = File(p)
    BY <2>2 DEF Slots, SlotFile
  <2>4. Value(call[p].endpoint) \in SUBSET Endpoints
        /\ Value(call[p].endpoint) \in {{}} \cup {{e} : e \in Endpoints}
    <3>1. call[p].endpoint \in Endpoints \cup {Nothing}
      BY <1>2, KeptType
    <3>2. Nothing \notin Endpoints
      BY InstallerAssumption
    <3>3. CASE call[p].endpoint = Nothing
      BY <3>3 DEF Value
    <3>4. CASE call[p].endpoint # Nothing
      <4>1. Value(call[p].endpoint) = {call[p].endpoint}
        BY <3>4 DEF Value
      <4> QED
        BY <3>1, <3>4, <4>1
    <3> QED
      BY <3>3, <3>4
  <2>5. d \in [slot : (HookAgents \cup PluginAgents) \X Markers, value : SUBSET Endpoints, done : BOOLEAN]
    BY <2>3, <2>4 DEF Slots
  <2>6. d # NoProc
    BY <2>5, InstallerAssumption
  <2> QED
    BY <1>2, <2>1, <2>3, <2>4, <2>6
<1> QED
  BY <1>1, <1>2

\* A file is busy in the table as long as its flock is held.
LEMMA BusyIs ==
  ASSUME TypeOK, RunInv, LockOwned, NEW f \in Paths
  PROVE  Registry!Busy(f) <=> lock[f] # NoProc
<1>1. ASSUME NEW p \in Procs
      PROVE  (doingNow[p] # NoProc /\ SlotFile[doingNow[p].slot] = f) <=> lock[f] = p
  <2>1. lock[f] = p <=> Working(p) /\ File(p) = f
    BY DEF LockOwned, Working
  <2> QED
    BY <2>1, DoingIs
<1>2. lock[f] \in Procs \cup {NoProc} /\ NoProc \notin Procs
  BY InstallerAssumption DEF TypeOK
<1> QED
  BY <1>1, <1>2 DEF Registry!Busy
-----------------------------------------------------------------------------
\* What the steps do to the table.

Registered == <<hookedNow, toldNow, doingNow>>

\* What is looked at when the mapping reads a state.
LEMMA SameTable ==
  ASSUME disk' = disk, mixed' = mixed
  PROVE  hookedNow' = hookedNow
BY DEF hookedNow

\* A process that is where it was, in the same call, does what it did.
LEMMA SameDoing ==
  ASSUME NEW p \in Procs, pc'[p] = pc[p] \/ (Working(p) /\ Working(p)' /\ pc[p] # "unlock" /\ pc'[p] # "unlock"),
         call'[p] = call[p], todo'[p] = todo[p]
  PROVE  doingNow'[p] = doingNow[p]
<1>1. Agent(p)' = Agent(p)
  BY DEF Agent
<1> QED
  BY <1>1 DEF doingNow, Working

\* A step of one process is seen in its own entry only.
LEMMA OneDoes ==
  ASSUME TypeOK, RunInv, LockOwned, NEW p \in Procs, Acts(p)
  PROVE  /\ doingNow' = [doingNow EXCEPT ![p] = doingNow'[p]]
         /\ doingNow'[p] = doingNow[p] => doingNow' = doingNow
<1>1. \A q \in Procs : q # p => doingNow'[q] = doingNow[q]
  BY OthersStay, SameDoing
<1>2. doingNow = [q \in Procs |-> doingNow[q]] /\ doingNow' = [q \in Procs |-> doingNow'[q]]
  BY DEF doingNow
<1> QED
  BY <1>1, <1>2

\* The beginning of a call is not seen yet.
LEMMA BeginsUnseen ==
  ASSUME Sound, NEW p \in Procs, Begins(p)
  PROVE  UNCHANGED Registered
<1>1. TypeOK /\ RunInv /\ LockOwned /\ Acts(p)
  BY DEF Sound, IInv, Acts
<1>2. pc[p] = "idle" /\ pc'[p] = "loop"
  BY <1>1 DEF Begins, Moves, TypeOK
<1>3. doingNow'[p] = doingNow[p]
  BY <1>2 DEF doingNow
<1>4. doingNow' = doingNow
  BY <1>1, <1>3, OneDoes
<1>5. hookedNow' = hookedNow /\ toldNow' = toldNow
  BY SameTable DEF Begins, FileVars, toldNow
<1> QED
  BY <1>4, <1>5 DEF Registered

\* A process begins on an agent when it gets the flock.
LEMMA LocksBegin ==
  ASSUME Sound, Sound', NEW p \in Procs, Locks(p)
  PROVE  Registry!Begin(p)
<1>1. TypeOK /\ RunInv /\ LockOwned /\ Acts(p)
  BY DEF Sound, IInv, Acts
<1>2. /\ pc[p] = "loop" /\ pc'[p] \in {"read", "inspect"} /\ lock[File(p)] = NoProc
      /\ UNCHANGED <<call, todo, disk, mixed, promised>>
  BY <1>1 DEF Locks, Moves, TypeOK, FileVars
<1>3. Agent(p) \in HookAgents \cup PluginAgents /\ call[p] \in Calls /\ Agent(p)' = Agent(p)
  BY <1>1, <1>2 DEF Locks, RunInv, Agent
<1>4. call[p].marker \in Markers /\ call[p].endpoint \in Endpoints \cup {Nothing}
  BY <1>3 DEF Calls
<1> DEFINE d == [slot |-> <<Agent(p), call[p].marker>>, value |-> Value(call[p].endpoint), done |-> FALSE]
<1>5. doingNow[p] = NoProc
  BY <1>2 DEF doingNow
<1>6. doingNow'[p] = d
  BY <1>2, <1>3 DEF doingNow, Value
<1>7. d \in Registry!Operations
  <2>1. Value(call[p].endpoint) \in {{}} \cup {{e} : e \in Endpoints}
    <3>1. CASE call[p].endpoint = Nothing
      BY <3>1 DEF Value
    <3>2. CASE call[p].endpoint # Nothing
      <4>1. Value(call[p].endpoint) = {call[p].endpoint}
        BY <3>2 DEF Value
      <4> QED
        BY <1>4, <3>2, <4>1
    <3> QED
      BY <3>1, <3>2
  <2> QED
    BY <1>3, <1>4, <2>1 DEF Registry!Operations, Slots
<1>8. SlotFile[d.slot] = File(p) /\ File(p) \in Paths
  BY <1>3, <1>4 DEF Slots, SlotFile, File, Paths
<1>9. ~Registry!Busy(SlotFile[d.slot])
  BY <1>1, <1>2, <1>8, BusyIs
<1>10. hookedNow' = hookedNow /\ toldNow' = toldNow
  BY <1>2, SameTable DEF toldNow
<1>11. doingNow' = [doingNow EXCEPT ![p] = doingNow'[p]]
  BY <1>1, OneDoes
<1> HIDE DEF d
<1> QED
  BY <1>5, <1>6, <1>7, <1>9, <1>10, <1>11 DEF Registry!Begin
\* An operation with its change made.
LEMMA DoneSet ==
  ASSUME NEW S, NEW V, NEW B, NEW r \in [slot : S, value : V, done : B], NEW b \in B
  PROVE  [r EXCEPT !.done = b] = [slot |-> r.slot, value |-> r.value, done |-> b]
<1>1. [r EXCEPT !.done = b] \in [slot : S, value : V, done : B]
  OBVIOUS
<1> QED
  BY <1>1

\* What others have changed they had changed before.
LEMMA OthersChangedNot ==
  ASSUME Sound, NEW p \in Procs, Acts(p), NEW q \in Procs, q # p, NEW f
  PROVE  (Changed(q, f)' <=> Changed(q, f)) /\ call'[q] = call[q]
BY OthersChanged DEF Sound

\* The rename, or the removal of a plugin, is the effect; the work before it is not seen.
LEMMA WorksEffect ==
  ASSUME Sound, Sound', NEW p \in Procs, Works(p)
  PROVE  Registry!Effect(p) \/ UNCHANGED Registered
<1>1. TypeOK /\ RunInv /\ LockOwned /\ Acts(p)
  BY DEF Sound, IInv, Acts
<1>2. /\ Working(p) /\ Working(p)' /\ mixed' = mixed /\ File(p)' = File(p) /\ call' = call /\ todo' = todo
      /\ Agent(p) \in HookAgents \cup PluginAgents /\ File(p) \in Paths /\ call[p].marker \in Markers
      /\ disk \in [Paths -> Files] /\ pc \in [Procs -> Steps] /\ promised' = promised
      /\ File(p) = Path(Agent(p), call[p].marker) /\ Agent(p)' = Agent(p)
  BY <1>1, WorksOn, AtWork, FileIsPath DEF Works, Working
<1>3. pc[p] # "unlock"
  BY <1>2
  DEF Works, Edits, Generates, SkipsBackup, ReadsBackup, RenamesBackup, ChmodsBackup, Stages, Renames,
      Finds, Removes, Moves, BackupSteps
<1>4. toldNow' = toldNow
  BY <1>2 DEF toldNow
<1>5. CASE ~(Renames(p) \/ Removes(p))
  <2>1. disk' = disk /\ pc'[p] # "unlock"
    BY <1>2, <1>5
    DEF Works, Edits, Generates, SkipsBackup, ReadsBackup, RenamesBackup, ChmodsBackup, Stages, Finds,
        Moves, FileVars
  <2>2. doingNow'[p] = doingNow[p]
    BY <1>2, <1>3, <2>1, SameDoing
  <2> QED
    BY <1>1, <1>2, <1>4, <2>1, <2>2, OneDoes, SameTable DEF Registered
<1>6. CASE Renames(p) \/ Removes(p)
  <2> DEFINE f == File(p)
             slot == <<Agent(p), call[p].marker>>
             new == IF hookedNow[slot] = {Unknown} THEN {Unknown} ELSE Value(call[p].endpoint)
  <2>1. pc'[p] = "unlock" /\ \A g \in Paths \ {f} : disk'[g] = disk[g]
    BY <1>2, <1>6 DEF Renames, Removes, Moves
  <2>2. Changed(p, f)' /\ ~Changed(p, f)
    BY <1>2, <1>3, <2>1 DEF Changed
  <2>3. slot \in Slots /\ SlotFile[slot] = f
    BY <1>2 DEF Slots, SlotFile
  <2>4. hookedNow'[slot] = new
    <3>1. CASE f \in mixed
      BY <1>2, <3>1, HookedIs, HookedThen DEF HookedAs
    <3>2. CASE f \notin mixed
      <4>1. hookedNow[slot] # {Unknown}
        BY <1>2, <3>2, HookedIs DEF HookedAs
      <4>2. hookedNow'[slot] = Value(call[p].endpoint)
        BY <1>2, <2>2, <3>2, HookedThen DEF HookedAs
      <4> QED
        BY <4>1, <4>2
    <3> QED
      BY <3>1, <3>2
  <2>5. ASSUME NEW s \in Slots, s # slot PROVE hookedNow'[s] = hookedNow[s]
    <3>1. /\ s[1] \in HookAgents \cup PluginAgents /\ s[2] \in Markers /\ s = <<s[1], s[2]>>
          /\ SlotFile[s] = Path(s[1], s[2]) /\ SlotFile[s] \in Paths
      BY SlotParts
    <3>2. CASE SlotFile[s] # f
      BY <1>2, <2>1, <3>1, <3>2 DEF hookedNow
    <3>3. CASE SlotFile[s] = f /\ f \in mixed
      BY <1>2, <3>3 DEF hookedNow
    <3>4. CASE SlotFile[s] = f /\ f \notin mixed
      <4>1. s[1] = Agent(p) /\ s[2] # call[p].marker
        <5>1. s[1] = Agent(p)
          <6>1. Path(s[1], s[2]) = Path(Agent(p), call[p].marker)
            BY <1>2, <3>1, <3>4
          <6> QED
            BY <1>2, <3>1, <6>1, PathsDiffer
        <5> QED
          BY <2>5, <3>1, <5>1
      <4>2. PICK g : g = SlotFile[s]
        OBVIOUS
      <4>3. ASSUME NEW q \in Procs, Changed(q, g) \/ Changed(q, g)', call[q].marker = s[2] PROVE FALSE
        <5>1. q # p
          BY <4>1, <4>3
        <5>2. Changed(q, g)
          BY <1>1, <4>3, <5>1, OthersChangedNot
        <5>3. Working(q) /\ File(q) = File(p)
          BY <3>4, <4>2, <5>2 DEF Changed, Working
        <5> QED
          BY <1>1, <1>2, <5>1, <5>3, OneAtWork
      <4>4. hookedNow[s] = Value(promised[s[1]][s[2]])
        <5>1. HookedAs(s[1], s[2])
          BY <3>1, HookedIs
        <5> QED
          BY <3>1, <3>4, <4>2, <4>3, <5>1 DEF HookedAs
      <4>5. hookedNow'[s] = Value(promised[s[1]][s[2]])
        <5>1. HookedAs(s[1], s[2])'
          BY <3>1, HookedThen
        <5>2. g \notin mixed' /\ ~(\E q \in Procs : Changed(q, g)' /\ call'[q].marker = s[2])
          BY <1>2, <3>4, <4>2, <4>3
        <5> QED
          BY <1>2, <3>1, <4>2, <5>1, <5>2 DEF HookedAs
      <4> QED
        BY <4>4, <4>5
    <3> QED
      BY <3>2, <3>3, <3>4
  <2>6. hookedNow' = [hookedNow EXCEPT ![slot] = new]
    <3>1. hookedNow = [s \in Slots |-> hookedNow[s]] /\ hookedNow' = [s \in Slots |-> hookedNow'[s]]
      BY DEF hookedNow
    <3> HIDE DEF new, slot
    <3> QED
      BY <2>3, <2>4, <2>5, <3>1
  <2>7. /\ doingNow[p] # NoProc /\ doingNow[p].done = FALSE /\ doingNow[p].slot = slot
        /\ doingNow[p].value = Value(call[p].endpoint)
    BY <1>1, <1>2, <1>3, DoingIs
  <2>8. doingNow'[p] = [doingNow[p] EXCEPT !.done = TRUE]
    <3>1. doingNow[p] = [slot |-> slot, value |-> Value(call[p].endpoint), done |-> FALSE]
      BY <1>2, <1>3 DEF doingNow, Working, Value
    <3>2. doingNow'[p] = [slot |-> slot, value |-> Value(call[p].endpoint), done |-> TRUE]
      BY <1>2, <2>1 DEF doingNow, Value
    <3>3. doingNow[p] \in [slot : Slots, value : {Value(call[p].endpoint)}, done : BOOLEAN]
      BY <2>3, <3>1
    <3>4. PICK b \in BOOLEAN : b = TRUE
      OBVIOUS
    <3>5. [doingNow[p] EXCEPT !.done = b] = [slot |-> doingNow[p].slot, value |-> doingNow[p].value, done |-> b]
      BY <3>3, DoneSet
    <3>6. [doingNow[p] EXCEPT !.done = TRUE]
            = [slot |-> doingNow[p].slot, value |-> doingNow[p].value, done |-> TRUE]
      BY <3>4, <3>5, Zenon
    <3> QED
      BY <2>7, <3>2, <3>6
  <2>9. doingNow' = [doingNow EXCEPT ![p] = [doingNow[p] EXCEPT !.done = TRUE]]
    BY <1>1, <2>8, OneDoes
  <2> HIDE DEF slot, f
  <2>10. Registry!Effect(p)
    BY <1>4, <2>6, <2>7, <2>9 DEF Registry!Effect
  <2> QED
    BY <2>10
<1> QED
  BY <1>5, <1>6

\* The end of a call is a success if it keeps its promise, and else gives up.
LEMMA EndsTold ==
  ASSUME Sound, Within = {}, NEW p \in Procs, NEW kept \in BOOLEAN, Ends(p, kept), KeptIf(p, kept)
  PROVE  Registry!Succeed(p) \/ Registry!GiveUp(p) \/ UNCHANGED Registered
<1>1. TypeOK /\ RunInv /\ LockOwned /\ Acts(p) /\ IInv /\ DoneInv
  BY DEF Sound, IInv, Acts
<1>2. hookedNow' = hookedNow /\ pc'[p] \in {"idle", "loop"}
  BY <1>1, SameTable DEF Ends, FileVars, Moves, TypeOK
<1>3. doingNow'[p] = NoProc /\ doingNow' = [doingNow EXCEPT ![p] = doingNow'[p]]
  BY <1>1, <1>2, OneDoes DEF doingNow
<1>4. CASE ~kept
  <2>1. toldNow' = toldNow /\ pc[p] # "unlock"
    BY <1>4 DEF Ends, KeptIf, toldNow
  <2>2. CASE Working(p)
    BY <1>1, <1>2, <1>3, <2>1, <2>2, DoingIs DEF Registry!GiveUp
  <2>3. CASE ~Working(p)
    BY <1>1, <1>2, <1>3, <2>1, <2>3, DoingIs, OneDoes DEF Registered
  <2> QED
    BY <2>2, <2>3
<1>5. CASE kept
  <2> DEFINE slot == <<Agent(p), call[p].marker>>
             f == File(p)
             x == call[p].endpoint
  <2>1. Working(p) /\ promised' = Kept(p) /\ HasKept(p)
    BY <1>5, KeptWorks DEF Ends, KeptIf
  <2>2. /\ doingNow[p] # NoProc /\ doingNow[p].slot = slot /\ slot \in Slots /\ SlotFile[slot] = f
        /\ doingNow[p].value = Value(x)
    BY <1>1, <2>1, DoingIs
  <2>3. /\ Agent(p) \in HookAgents \cup PluginAgents /\ call[p].marker \in Markers /\ f \in Paths
        /\ f = Path(Agent(p), call[p].marker)
    BY <1>1, <2>1, FileIsPath
  <2>4. hookedNow[slot] \in {Value(x), {Unknown}}
    <3>1. CASE f \in mixed
      BY <2>2, <3>1 DEF hookedNow
    <3>2. CASE f \notin mixed
      <4>1. Holds(disk[f].content, call[p].marker, x)
        BY <1>1, <2>1, <3>2, HoldsAtEnd
      <4>2. disk[f].content \in {Missing, Foreign} \cup Written(f)
        BY <2>3 DEF Sound, IInv, DiskInv
      <4>3. x \in Endpoints \cup {Nothing}
        BY <1>1, <2>1, KeptType
      <4>4. Hooked(disk[f].content, call[p].marker) = Value(x)
        BY <4>1, <4>2, <4>3, HookedHolds
      <4> QED
        BY <2>2, <3>2, <4>4 DEF hookedNow
    <3> QED
      BY <3>1, <3>2
  <2>5. toldNow' = [toldNow EXCEPT ![slot] = Value(x)]
    <3>1. toldNow'[slot] = Value(x)
      BY <1>1, <2>1, <2>2, KeptType DEF toldNow, Value
    <3>2. ASSUME NEW s \in Slots, s # slot PROVE toldNow'[s] = toldNow[s]
      <4>1. s[1] # Agent(p) \/ s[2] # call[p].marker
        BY <3>2, SlotParts
      <4>2. promised'[s[1]][s[2]] = promised[s[1]][s[2]]
        BY <1>1, <2>1, <4>1, SlotParts, KeptType
      <4> QED
        BY <4>2 DEF toldNow
    <3>3. toldNow = [s \in Slots |-> toldNow[s]] /\ toldNow' = [s \in Slots |-> toldNow'[s]]
      BY DEF toldNow
    <3> HIDE DEF slot, x
    <3> QED
      BY <2>2, <3>1, <3>2, <3>3
  <2> HIDE DEF slot, x, f
  <2>6. Registry!Succeed(p)
    BY <1>2, <1>3, <2>2, <2>4, <2>5 DEF Registry!Succeed
  <2> QED
    BY <2>6
<1> QED
  BY <1>4, <1>5

\* A write of the user's clears the slots of a file nobody works on, or leaves them unknown.
LEMMA WritesSeen ==
  ASSUME Sound, Sound', NEW f \in Paths, NEW file, Writes(f, file),
         \/ promised' = [a \in Agents |-> [m \in Markers |->
                           IF a \notin OtherAgents /\ Path(a, m) = f THEN Nothing ELSE promised[a][m]]]
         \/ promised' = promised
  PROVE  Registry!UserWrites \/ UNCHANGED Registered
<1>1. TypeOK /\ RunInv /\ LockOwned /\ IInv
  BY DEF Sound, IInv
<1>2. /\ UNCHANGED <<pc, call, todo>> /\ mixed' = (IF lock[f] = NoProc THEN mixed ELSE mixed \cup {f})
      /\ \A g \in Paths : disk'[g] = IF g = f THEN file ELSE disk[g]
  <2>1. \A g \in Paths : disk'[g] = IF g = f THEN file ELSE disk[g]
    BY <1>1, UserStays
  <2>2. UNCHANGED <<pc, call, todo>> /\ mixed' = (IF lock[f] = NoProc THEN mixed ELSE mixed \cup {f})
    BY DEF Writes, procVars
  <2> QED
    BY <2>1, <2>2
<1>3. doingNow' = doingNow
  BY <1>2 DEF doingNow, Agent
<1>4. /\ hookedNow = [s \in Slots |-> hookedNow[s]] /\ hookedNow' = [s \in Slots |-> hookedNow'[s]]
      /\ toldNow = [s \in Slots |-> toldNow[s]] /\ toldNow' = [s \in Slots |-> toldNow'[s]]
  BY DEF hookedNow, toldNow
<1>5. ASSUME NEW s \in Slots, SlotFile[s] # f PROVE hookedNow'[s] = hookedNow[s]
  BY <1>2, <1>5, SlotParts DEF hookedNow
<1>6. ASSUME NEW s \in Slots, SlotFile[s] = f, f \in mixed'
      PROVE  hookedNow'[s] = {Unknown} /\ (f \in mixed => hookedNow[s] = {Unknown})
  BY <1>6 DEF hookedNow
<1>7. toldNow' = toldNow \/ toldNow' = Registry!Cleared(toldNow, f)
  <2>1. CASE promised' = promised
    BY <2>1 DEF toldNow
  <2>2. CASE promised' = [a \in Agents |-> [m \in Markers |->
               IF a \notin OtherAgents /\ Path(a, m) = f THEN Nothing ELSE promised[a][m]]]
    <3>1. ASSUME NEW s \in Slots
          PROVE  toldNow'[s] = IF SlotFile[s] = f THEN {} ELSE toldNow[s]
      <4>1. promised'[s[1]][s[2]] = IF SlotFile[s] = f THEN Nothing ELSE promised[s[1]][s[2]]
        BY <2>2, SlotParts
      <4> QED
        BY <4>1 DEF toldNow
    <3> QED
      BY <1>4, <3>1 DEF Registry!Cleared
  <2> QED
    BY <2>1, <2>2
<1>8. PICK slot \in Slots : SlotFile[slot] = f
  BY FileHasSlot
<1>9. CASE lock[f] # NoProc
  <2>1. f \in mixed' /\ Registry!Busy(f)
    BY <1>1, <1>2, <1>9, BusyIs
  <2>2. hookedNow' = [s \in Slots |-> IF SlotFile[s] = f THEN {Unknown} ELSE hookedNow[s]]
    BY <1>4, <1>5, <1>6, <2>1
  <2>3. Registry!UserInterferes(f)
    BY <1>7, <2>1, <2>2 DEF Registry!UserInterferes
  <2> QED
    BY <1>3, <1>8, <2>3 DEF Registry!UserWrites
<1>10. CASE lock[f] = NoProc
  <2>1. mixed' = mixed /\ ~Registry!Busy(f)
    BY <1>1, <1>2, <1>10, BusyIs
  <2>2. ASSUME NEW s \in Slots, SlotFile[s] = f, f \notin mixed
        PROVE  /\ hookedNow[s] = toldNow[s] /\ hookedNow'[s] = toldNow'[s]
               /\ hookedNow[s] # {Unknown}
    <3>1. s[1] \in HookAgents \cup PluginAgents /\ s[2] \in Markers /\ s = <<s[1], s[2]>>
          /\ Path(s[1], s[2]) = f
      BY <2>2, SlotParts
    <3>2. \A q \in Procs : ~Changed(q, f) /\ ~Changed(q, f)'
      <4>1. \A q \in Procs : lock[f] # q
        BY <1>10, InstallerAssumption
      <4>2. \A q \in Procs : ~Changed(q, f)
        BY <1>1, <4>1 DEF LockOwned, Changed
      <4>3. \A q \in Procs : Changed(q, f)' <=> Changed(q, f)
        BY <1>2 DEF Changed, File, Agent
      <4> QED
        BY <4>2, <4>3
    <3>3. hookedNow[s] = Value(promised[s[1]][s[2]]) /\ hookedNow[s] # {Unknown}
      <4>1. HookedAs(s[1], s[2])
        BY <3>1, HookedIs
      <4> QED
        BY <2>2, <3>1, <3>2, <4>1 DEF HookedAs
    <3>4. hookedNow'[s] = Value(promised'[s[1]][s[2]])
      <4>1. HookedAs(s[1], s[2])'
        BY <3>1, HookedThen
      <4>2. f \notin mixed'
        BY <2>1, <2>2
      <4> QED
        BY <3>1, <3>2, <4>1, <4>2 DEF HookedAs
    <3> QED
      BY <3>3, <3>4 DEF toldNow, Value
  <2>3. CASE toldNow' = toldNow
    <3>1. \A s \in Slots : hookedNow'[s] = hookedNow[s]
      BY <1>5, <1>6, <2>1, <2>2, <2>3
    <3> QED
      BY <1>3, <1>4, <2>3, <3>1 DEF Registered
  <2>4. CASE toldNow' = Registry!Cleared(toldNow, f)
    <3>1. ASSUME NEW s \in Slots
          PROVE  hookedNow'[s] = IF hookedNow[s] = {Unknown} THEN {Unknown}
                                 ELSE Registry!Cleared(hookedNow, f)[s]
      <4>1. CASE SlotFile[s] # f
        BY <1>5, <4>1 DEF Registry!Cleared
      <4>2. CASE SlotFile[s] = f /\ f \in mixed
        BY <1>6, <2>1, <4>2
      <4>3. CASE SlotFile[s] = f /\ f \notin mixed
        BY <2>2, <2>4, <4>3 DEF Registry!Cleared
      <4> QED
        BY <4>1, <4>2, <4>3
    <3>2. Registry!UserReplaces(f)
      BY <1>4, <2>1, <2>4, <3>1 DEF Registry!UserReplaces
    <3> QED
      BY <1>3, <1>8, <3>2 DEF Registry!UserWrites
  <2> QED
    BY <1>7, <2>3, <2>4
<1> QED
  BY <1>9, <1>10

-----------------------------------------------------------------------------
\* The refinement.

\* At first the table is empty.
LEMMA RegistryBegins ==
  ASSUME UsersOwn, Init
  PROVE  Registry!RegistryInit
<1>1. \A s \in Slots : hookedNow[s] = {}
  <2> SUFFICES ASSUME NEW s \in Slots PROVE hookedNow[s] = {}
    OBVIOUS
  <2>1. SlotFile[s] \in Paths /\ s[2] \in Markers
    BY SlotParts
  <2>2. disk[SlotFile[s]] \in UserFiles(SlotFile[s]) /\ mixed = {}
    BY <2>1 DEF Init
  <2>3. Holds(disk[SlotFile[s]].content, s[2], Nothing)
    BY <2>1, <2>2, RestoredHolds
  <2>4. disk[SlotFile[s]].content \in {Missing, Foreign} \cup Written(SlotFile[s])
    BY <2>2, UserFilesType
  <2>5. Hooked(disk[SlotFile[s]].content, s[2]) = {}
    <3>1. Value(Nothing) = {} /\ Nothing \in Endpoints \cup {Nothing}
      BY DEF Value
    <3>2. PICK content : content = disk[SlotFile[s]].content
      OBVIOUS
    <3>3. Hooked(content, s[2]) = Value(Nothing)
      BY <2>3, <2>4, <3>1, <3>2, HookedHolds
    <3> QED
      BY <3>1, <3>2, <3>3
  <2> QED
    BY <2>2, <2>5 DEF hookedNow
<1>2. \A s \in Slots : toldNow[s] = {}
  BY SlotParts DEF Init, toldNow
<1>3. \A p \in Procs : doingNow[p] = NoProc
  BY DEF Init, doingNow
<1>4. /\ hookedNow = [s \in Slots |-> hookedNow[s]] /\ toldNow = [s \in Slots |-> toldNow[s]]
      /\ doingNow = [p \in Procs |-> doingNow[p]]
  BY DEF hookedNow, toldNow, doingNow
<1> QED
  BY <1>1, <1>2, <1>3, <1>4 DEF Registry!RegistryInit

\* Every step of the installers is a step of the table, or not seen in it.
LEMMA RegistryStep ==
  ASSUME Within = {}, Sound, Sound', [Next]_vars
  PROVE  [Registry!RegistryNext]_(Registry!registryVars)
<1>1. TypeOK /\ RunInv /\ LockOwned
  BY DEF Sound, IInv
<1>2. Registered' = Registered => UNCHANGED Registry!registryVars
  BY DEF Registered, Registry!registryVars
<1>3. CASE Rests
  <2>1. hookedNow' = hookedNow
    BY <1>3, SameTable DEF Rests, FileVars
  <2>2. toldNow' = toldNow /\ doingNow' = doingNow
    BY <1>3 DEF Rests, procVars, toldNow, doingNow, Agent
  <2> QED
    BY <1>2, <2>1, <2>2 DEF Registered
<1>4. ASSUME NEW p \in Procs, Begins(p) \/ Locks(p) \/ Works(p)
      PROVE  Registry!RegistryNext \/ UNCHANGED Registered
  BY <1>4, BeginsUnseen, LocksBegin, WorksEffect DEF Registry!RegistryNext
<1>5. ASSUME NEW p \in Procs, NEW kept \in BOOLEAN, Ends(p, kept), KeptIf(p, kept)
      PROVE  Registry!RegistryNext \/ UNCHANGED Registered
  BY <1>5, EndsTold DEF Registry!RegistryNext
<1>6. ASSUME NEW f \in Paths, NEW file \in UserFiles(f), Writes(f, file), UserRestores(f)
      PROVE  Registry!RegistryNext \/ UNCHANGED Registered
  <2>1. Registry!UserWrites \/ UNCHANGED Registered
    BY <1>6, WritesSeen DEF UserRestores
  <2> QED
    BY <2>1 DEF Registry!RegistryNext
<1>7. ASSUME NEW f \in Paths, NEW file, Writes(f, file), UNCHANGED promised
      PROVE  Registry!RegistryNext \/ UNCHANGED Registered
  <2>1. Registry!UserWrites \/ UNCHANGED Registered
    BY <1>7, WritesSeen
  <2> QED
    BY <2>1 DEF Registry!RegistryNext
<1> QED
  BY <1>1, <1>2, <1>3, <1>4, <1>5, <1>6, <1>7, StepKinds

\* The installers implement the table of hooks of HookRegistry: every call changes its own
\* slot, in one step between its start and its end or not at all, and success is told of a slot
\* that is as it was to be (install.go:20-27, specs/design.md:349-350).  The assumptions are
\* those of PromisesKept.
THEOREM Implementation ==
  ASSUME UsersOwn, Within = {}
  PROVE  Spec => ImplementsRegistry
<1>1. Init => Registry!RegistryInit
  BY RegistryBegins
<1>2. Init => PromiseKept /\ DoneInv
  BY KeptInit
<1>3. IInv /\ (PromiseKept /\ DoneInv) /\ [Next]_vars => (PromiseKept /\ DoneInv)'
  BY KeptStep
<1>4. Sound /\ Sound' /\ [Next]_vars => [Registry!RegistryNext]_(Registry!registryVars)
  BY RegistryStep
<1> QED
  BY <1>1, <1>2, <1>3, <1>4, Invariance, PTL DEF Spec, Sound, ImplementsRegistry, Registry!RegistrySpec
=============================================================================
