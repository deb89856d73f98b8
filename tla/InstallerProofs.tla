-------------------------- MODULE InstallerProofs --------------------------
(***************************************************************************)
(* What MCInstaller checks on a small instance, proved for any number of   *)
(* processes, agents, consumers and events, for hooks files of any content *)
(* and for any number of failures, crashes and edits by the user.          *)
(***************************************************************************)
EXTENDS Installer, HookMergeProofs

Working(p) == pc[p] \notin {"idle", "loop"}

\* The steps at which p has the content it is going to write, and no temp file yet.
Ahead == BackupSteps \cup {"stage"}

\* Where a call is: what its steps are for.
RunInv ==
  \A p \in Procs :
    /\ pc[p] # "idle" => todo[p] # <<>> /\ call[p] \in Calls
    /\ Working(p) => Agent(p) \in HookAgents \cup PluginAgents
    /\ pc[p] = "read" => Agent(p) \in HookAgents
    /\ pc[p] \in {"inspect", "remove"} => Agent(p) \in PluginAgents
    /\ pc[p] = "remove" => call[p].op = "uninstall"
    /\ pc[p] \in Ahead \cup {"rename"} /\ Agent(p) \in PluginAgents => call[p].op = "install"

\* What agentstatus writes: hooks into hooks files, plugins into plugin files.
Written(f) == IF IsHooksPath(f) THEN [kind : {"hooks"}, hooks : HookMaps]
              ELSE [kind : {"plugin"}, endpoint : Endpoints]

DiskInv ==
  /\ \A f \in Paths : disk[f].content \in {Missing, Foreign} \cup Written(f)
  /\ \A p \in Procs :
       /\ pc[p] \in Ahead => next[p] \in Written(File(p))
       /\ pc[p] \in {"renamebak", "chmodbak"} => staged[p] # NoFile
       /\ pc[p] = "chmodbak" => bak[File(p)] # NoFile
       /\ pc[p] = "rename" => staged[p].content \in Written(File(p))

\* What p's edit makes of the file as it is.
Result(p) == IF Agent(p) \in HookAgents THEN Edited(call[p], disk[File(p)].content)
             ELSE Plugin(call[p].endpoint)

\* While p has the flock, what it read is what is there, unless the user interfered.
EditInv ==
  \A p \in Procs : pc[p] \in Ahead \cup {"rename"} /\ File(p) \notin mixed =>
    /\ pc[p] \in Ahead => next[p] = Result(p)
    /\ pc[p] = "rename" => staged[p] = [content |-> Result(p), mode |-> WriteMode(disk[File(p)])]
    /\ Agent(p) \in HookAgents => /\ disk[File(p)].content # Foreign
                                  /\ call[p].op = "uninstall" => disk[File(p)].content # Missing

\* How far the backup is.
BackInv ==
  \A p \in Procs :
    Working(p) /\ Agent(p) \in HookAgents /\ File(p) \notin mixed =>
      /\ pc[p] \in {"renamebak", "chmodbak"} => staged[p] = disk[File(p)]
      /\ pc[p] = "chmodbak" => bak[File(p)].content = disk[File(p)].content
      /\ pc[p] \in {"stage", "rename"} =>
           disk[File(p)].content = Missing \/ bak[File(p)] = disk[File(p)]

\* The inductive invariant.
IInv == TypeOK /\ RunInv /\ LockOwned /\ DiskInv /\ EditInv /\ BackInv

\* A change that is made is what the call asked for.
DoneInv ==
  \A p \in Procs : pc[p] = "unlock" /\ File(p) \notin mixed =>
    Holds(disk[File(p)].content, call[p].marker, call[p].endpoint)

\* What the user writes has no entry of a consumer in it.
UsersOwn == \A hooks \in UserHooks : \A e \in Events : \A m \in Markers : SpotsOf(hooks[e], m) = {}

-----------------------------------------------------------------------------
\* Files, and what is written to them.

\* The file a process works on is one of the files there are.
LEMMA FileIsPath ==
  ASSUME TypeOK, RunInv, NEW p \in Procs, Working(p)
  PROVE  /\ call[p] \in Calls /\ call[p].marker \in Markers
         /\ Agent(p) \in HookAgents \cup PluginAgents /\ Agent(p) \in Agents
         /\ File(p) = Path(Agent(p), call[p].marker) /\ File(p) \in Paths
<1>1. call[p] \in Calls /\ Agent(p) \in HookAgents \cup PluginAgents
  BY DEF RunInv, Working
<1>2. call[p].marker \in Markers
  BY <1>1 DEF Calls
<1> QED
  BY <1>1, <1>2 DEF Agents, File, Paths

\* Hooks are kept in hooks files, plugins in plugin files.
LEMMA PathKinds ==
  ASSUME NEW a \in HookAgents \cup PluginAgents, NEW m
  PROVE  IsHooksPath(Path(a, m)) <=> a \in HookAgents
<1>1. Len(<<a>>) = 1 /\ Len(<<a, m>>) = 2
  OBVIOUS
<1> QED
  BY <1>1 DEF IsHooksPath, Path

\* A file belongs to one agent, and a plugin file to one consumer.
LEMMA PathsDiffer ==
  ASSUME NEW a, NEW m, NEW b, NEW n, Path(a, m) = Path(b, n)
  PROVE  /\ a = b \/ a \notin HookAgents \cup PluginAgents \/ b \notin HookAgents \cup PluginAgents
         /\ a \notin HookAgents /\ b \notin HookAgents => a = b /\ m = n
<1>1. /\ Len(<<a>>) = 1 /\ Len(<<b>>) = 1 /\ Len(<<a, m>>) = 2 /\ Len(<<b, n>>) = 2
      /\ <<a>>[1] = a /\ <<b>>[1] = b
      /\ <<a, m>>[1] = a /\ <<a, m>>[2] = m /\ <<b, n>>[1] = b /\ <<b, n>>[2] = n
  OBVIOUS
<1> QED
  BY <1>1 DEF Path

\* The edit of any hooks yields hooks.
LEMMA EditedType ==
  ASSUME NEW c \in Calls, NEW content \in {Missing, Foreign} \cup Contents
  PROVE  Edited(c, content) \in [kind : {"hooks"}, hooks : HookMaps]
<1>1. NoHooks \in HookMaps
  <2>1. <<>> \in Seq(GroupSet)
    BY EmptySeq
  <2>2. NoGroups \in EventValues
    BY <2>1 DEF NoGroups, EventValues
  <2> QED
    BY <2>2 DEF NoHooks, HookMaps
<1>2. HooksOf(content) \in HookMaps
  BY <1>1 DEF HooksOf, Contents, Missing, Foreign
<1>3. CASE c.op = "install"
  <2>1. c.marker \in Markers /\ c.endpoint \in Endpoints
    BY <1>3 DEF Calls
  <2>2. ApplyInstall(HooksOf(content), c.marker, c.endpoint) \in HookMaps
    BY <1>2, <2>1, InstallType
  <2> QED
    BY <1>3, <2>2 DEF Edited, HooksFile
<1>4. CASE c.op # "install"
  <2>1. ApplyUninstall(HooksOf(content), c.marker) \in HookMaps
    BY <1>2, UninstallType
  <2> QED
    BY <1>4, <2>1 DEF Edited, HooksFile
<1> QED
  BY <1>3, <1>4

\* What is written is a content, and no file at all is none.
LEMMA WrittenType ==
  ASSUME NEW f
  PROVE  /\ Written(f) \subseteq Contents /\ Missing \notin Contents /\ Foreign \in Contents
         /\ Missing \notin Written(f) /\ Foreign \notin Written(f) /\ Missing # Foreign
  BY DEF Written, Contents, Missing, Foreign

\* What a file is made of.
LEMMA FileParts ==
  ASSUME NEW file \in Files
  PROVE  /\ file = [content |-> file.content, mode |-> file.mode]
         /\ file.content \in {Missing} \cup Contents
         /\ file.content = Missing <=> file = NoFile
         /\ WriteMode(file) \in Modes
         /\ file # NoFile => file.mode \in Modes
<1>1. CASE file = NoFile
  BY <1>1 DEF NoFile, WriteMode, Modes
<1>2. CASE file \in [content : Contents, mode : Modes]
  <2>1. file.content \in Contents /\ file.mode \in Modes /\ file.content # Missing /\ file # NoFile
    BY <1>2, WrittenType DEF NoFile
  <2> QED
    BY <1>2, <2>1 DEF WriteMode
<1> QED
  BY <1>1, <1>2 DEF Files

\* A content with a mode is a file.
LEMMA AFile ==
  ASSUME NEW content \in Contents, NEW mode \in Modes
  PROVE  [content |-> content, mode |-> mode] \in Files /\ [content |-> content, mode |-> mode] # NoFile
  BY WrittenType DEF Files, NoFile

\* What the user may restore is a file.
LEMMA UserFilesType ==
  ASSUME NEW f, NEW file \in UserFiles(f)
  PROVE  file \in Files /\ file.content \in {Missing, Foreign} \cup Written(f)
<1>1. CASE file = NoFile
  BY <1>1 DEF Files, NoFile
<1>2. CASE file = [content |-> Foreign, mode |-> "0644"]
  BY <1>2, WrittenType, AFile DEF Modes
<1>3. ASSUME NEW h \in UserHooks, IsHooksPath(f), file = [content |-> HooksFile(h), mode |-> "0600"]
      PROVE  file \in Files /\ file.content \in Written(f)
  <2>1. h \in HookMaps
    BY InstallerAssumption
  <2>2. HooksFile(h) \in Written(f)
    BY <1>3, <2>1 DEF HooksFile, Written
  <2> QED
    BY <1>3, <2>2, WrittenType, AFile DEF Modes
<1> QED
  BY <1>1, <1>2, <1>3 DEF UserFiles

\* A file with a hook of the user's added is a hooks file.
LEMMA UserAddsFile ==
  ASSUME NEW f, NEW file \in Files, file.content \in Written(f), file.content.kind = "hooks",
         NEW e \in Events, file.content.hooks[e].list
  PROVE  /\ [content |-> HooksFile(WithUserHook(file.content.hooks, e)), mode |-> file.mode] \in Files
         /\ HooksFile(WithUserHook(file.content.hooks, e)) \in Written(f)
<1> DEFINE hooks == file.content.hooks
<1>1. IsHooksPath(f) /\ file.content = [kind |-> "hooks", hooks |-> hooks] /\ hooks \in HookMaps
  BY DEF Written
<1>2. file.mode \in Modes
  BY <1>1, FileParts DEF NoFile, Missing
<1>3. hooks[e] \in EventValues
  BY <1>1 DEF HookMaps
<1>4. UserGroup \in GroupSet
  <2>1. [marker |-> NoMarker, command |-> UserCommand] \in Entries
    BY DEF Entries
  <2>2. <<[marker |-> NoMarker, command |-> UserCommand]>> \in Seq(Entries)
    BY <2>1
  <2> QED
    BY <2>2, AGroup DEF UserGroup
<1>5. [list |-> TRUE, groups |-> Append(hooks[e].groups, UserGroup)] \in EventValues
  BY <1>3, <1>4, ValueParts, AppendProperties, AValue
<1>6. WithUserHook(hooks, e) \in HookMaps
  BY <1>1, <1>5 DEF WithUserHook, HookMaps
<1>7. HooksFile(WithUserHook(hooks, e)) \in Written(f)
  BY <1>1, <1>6 DEF Written, HooksFile
<1> HIDE DEF hooks
<1>8. HooksFile(WithUserHook(hooks, e)) \in Contents
  BY <1>7, WrittenType
<1> QED
  BY <1>2, <1>7, <1>8, AFile DEF hooks

-----------------------------------------------------------------------------
\* The kinds of steps.

FileVars == <<disk, bak, mixed>>

\* p moves from one step to another, and what the other processes are at stays.
Moves(p, from, to) ==
  /\ pc[p] = from /\ pc' = [pc EXCEPT ![p] = to]
  /\ \A q \in Procs : q # p => /\ call'[q] = call[q] /\ todo'[q] = todo[q]
                               /\ next'[q] = next[q] /\ staged'[q] = staged[q]

\* A call begins.
Begins(p) ==
  /\ Moves(p, "idle", "loop")
  /\ call'[p] \in Calls /\ todo'[p] \in AgentLists
  /\ UNCHANGED <<next, staged, FileVars, lock, promised>>

\* p is through with an agent, whether it got at the file or not, or has crashed.
Ends(p, kept) ==
  /\ pc[p] # "idle"
  /\ \/ Moves(p, pc[p], "loop") /\ Len(todo[p]) > 1 /\ todo'[p] = Tail(todo[p]) /\ call'[p] = call[p]
     \/ Moves(p, pc[p], "idle") /\ todo'[p] \in {Tail(todo[p]), <<>>} /\ call'[p] = NoCall
  /\ next'[p] \in {next[p], Missing} /\ staged'[p] \in {staged[p], NoFile}
  /\ lock' = [f \in Paths |-> IF lock[f] = p THEN NoProc ELSE lock[f]]
  /\ promised' = IF kept THEN Kept(p) ELSE promised
  /\ UNCHANGED FileVars

\* It has the promise of the call kept.
HasKept(p) ==
  \/ pc[p] = "unlock"
  \/ pc[p] = "read" /\ call[p].op = "uninstall" /\ disk[File(p)].content = Missing
  \/ PluginUpToDate(p)
  \/ PluginMissing(p)

KeptIf(p, kept) == (kept => HasKept(p)) /\ (pc[p] = "unlock" => kept)

\* It gets the flock.
Locks(p) ==
  /\ \/ Moves(p, "loop", "read") /\ Agent(p) \in HookAgents
     \/ Moves(p, "loop", "inspect") /\ Agent(p) \in PluginAgents
  /\ lock[File(p)] = NoProc /\ lock' = [lock EXCEPT ![File(p)] = p]
  /\ UNCHANGED <<call, todo, next, staged, FileVars, promised>>

\* It works on the file.
Edits(p) ==
  /\ Moves(p, "read", "backup") /\ next'[p] = Edited(call[p], disk[File(p)].content)
  /\ disk[File(p)].content # Foreign /\ (call[p].op = "uninstall" => disk[File(p)].content # Missing)
  /\ UNCHANGED <<staged, FileVars>>
Generates(p) ==
  /\ Moves(p, "inspect", "backup") /\ call[p].op = "install" /\ next'[p] = Plugin(call[p].endpoint)
  /\ UNCHANGED <<staged, FileVars>>
SkipsBackup(p) ==
  /\ pc[p] \in BackupSteps /\ Moves(p, pc[p], "stage")
  /\ Agent(p) \in HookAgents => disk[File(p)].content = Missing
  /\ UNCHANGED <<next, staged, FileVars>>
ReadsBackup(p) ==
  /\ Moves(p, "backup", "renamebak") /\ disk[File(p)].content # Missing
  /\ staged'[p] = disk[File(p)]
  /\ UNCHANGED <<next, FileVars>>
RenamesBackup(p) ==
  /\ Moves(p, "renamebak", "chmodbak")
  /\ bak' = [bak EXCEPT ![File(p)] = [content |-> staged[p].content, mode |-> WriteMode(bak[File(p)])]]
  /\ UNCHANGED <<next, staged, disk, mixed>>
ChmodsBackup(p) ==
  /\ Moves(p, "chmodbak", "stage")
  /\ bak' = [bak EXCEPT ![File(p)] = [bak[File(p)] EXCEPT !.mode = staged[p].mode]]
  /\ UNCHANGED <<next, staged, disk, mixed>>
Stages(p) ==
  /\ Moves(p, "stage", "rename")
  /\ staged'[p] = [content |-> next[p], mode |-> WriteMode(disk[File(p)])]
  /\ UNCHANGED <<next, FileVars>>
Renames(p) ==
  /\ Moves(p, "rename", "unlock") /\ disk' = [disk EXCEPT ![File(p)] = staged[p]]
  /\ UNCHANGED <<next, staged, bak, mixed>>
Finds(p) ==
  /\ Moves(p, "inspect", "remove") /\ call[p].op = "uninstall"
  /\ UNCHANGED <<next, staged, FileVars>>
Removes(p) ==
  /\ Moves(p, "remove", "unlock") /\ disk' = [disk EXCEPT ![File(p)] = NoFile]
  /\ UNCHANGED <<next, staged, bak, mixed>>

Works(p) ==
  /\ UNCHANGED <<call, todo, lock, promised>>
  /\ \/ Edits(p) \/ Generates(p) \/ SkipsBackup(p) \/ ReadsBackup(p) \/ RenamesBackup(p)
     \/ ChmodsBackup(p) \/ Stages(p) \/ Renames(p) \/ Finds(p) \/ Removes(p)

\* The user writes a file.
Writes(f, file) ==
  /\ disk' = [disk EXCEPT ![f] = file]
  /\ mixed' = IF lock[f] = NoProc THEN mixed ELSE mixed \cup {f}
  /\ UNCHANGED <<bak, lock, procVars>>

Rests == UNCHANGED <<FileVars, lock, procVars, promised>>

\* The step that a process takes when it is through.
LEMMA EndKinds ==
  ASSUME TypeOK, RunInv, LockOwned, NEW p \in Procs, NEW ok \in BOOLEAN,
         NextAgent(p) /\ pc[p] # "idle",
         \/ lock' = lock /\ pc[p] = "loop"
         \/ lock' = [lock EXCEPT ![File(p)] = NoProc] /\ Working(p),
         \/ UNCHANGED <<next, staged>>
         \/ Forget(p),
         promised' = (IF ok THEN Kept(p) ELSE promised),
         UNCHANGED FileVars
  PROVE  Ends(p, ok)
<1>1. lock' = [f \in Paths |-> IF lock[f] = p THEN NoProc ELSE lock[f]]
  <2>1. lock \in [Paths -> Procs \cup {NoProc}] /\ lock = [f \in Paths |-> lock[f]]
    BY DEF TypeOK
  <2>2. CASE lock' = lock /\ pc[p] = "loop"
    <3>1. \A f \in Paths : lock[f] # p
      BY <2>2 DEF LockOwned
    <3> QED
      BY <2>1, <2>2, <3>1
  <2>3. CASE lock' = [lock EXCEPT ![File(p)] = NoProc] /\ Working(p)
    <3>1. \A f \in Paths : lock[f] = p <=> File(p) = f
      BY <2>3 DEF LockOwned, Working
    <3> QED
      BY <2>1, <2>3, <3>1
  <2> QED
    BY <2>2, <2>3
<1>2. /\ \A q \in Procs : q # p => next'[q] = next[q] /\ staged'[q] = staged[q]
      /\ next'[p] \in {next[p], Missing} /\ staged'[p] \in {staged[p], NoFile}
  BY DEF Forget, TypeOK
<1>3. todo' = [todo EXCEPT ![p] = Tail(todo[p])] /\ todo'[p] = Tail(todo[p])
  BY DEF NextAgent, TypeOK
<1>4. \/ Len(todo[p]) > 1 /\ pc' = [pc EXCEPT ![p] = "loop"] /\ UNCHANGED call
      \/ pc' = [pc EXCEPT ![p] = "idle"] /\ call' = [call EXCEPT ![p] = NoCall]
  BY DEF NextAgent, GoTo
<1>5. \A q \in Procs : q # p => call'[q] = call[q] /\ todo'[q] = todo[q]
  BY <1>3, <1>4 DEF TypeOK
<1>6. \/ Moves(p, pc[p], "loop") /\ Len(todo[p]) > 1 /\ UNCHANGED call
      \/ Moves(p, pc[p], "idle") /\ call'[p] = NoCall
  BY <1>2, <1>4, <1>5 DEF Moves, TypeOK
<1> QED
  BY <1>1, <1>2, <1>3, <1>6 DEF Ends

\* Every step is of one of these kinds.
LEMMA StepKinds ==
  ASSUME TypeOK, RunInv, LockOwned, [Next]_vars
  PROVE  \/ Rests
         \/ \E p \in Procs : Begins(p) \/ Locks(p) \/ Works(p)
         \/ \E p \in Procs : \E kept \in BOOLEAN : Ends(p, kept) /\ KeptIf(p, kept)
         \/ \E f \in Paths : \E file \in UserFiles(f) : Writes(f, file) /\ UserRestores(f)
         \/ \E f \in Paths : \E e \in Events :
              /\ disk[f].content.kind = "hooks" /\ disk[f].content.hooks[e].list
              /\ Writes(f, [content |-> HooksFile(WithUserHook(disk[f].content.hooks, e)),
                            mode |-> disk[f].mode])
              /\ UNCHANGED promised
<1> DEFINE Goal == \/ Rests
                   \/ \E p \in Procs : Begins(p) \/ Locks(p) \/ Works(p)
                   \/ \E p \in Procs : \E kept \in BOOLEAN : Ends(p, kept) /\ KeptIf(p, kept)
<1>1. ASSUME NEW p \in Procs, Call(p) PROVE Begins(p)
  <2>1. PICK c \in Calls, agents \in AgentLists :
          call' = [call EXCEPT ![p] = c] /\ todo' = [todo EXCEPT ![p] = agents]
    BY <1>1 DEF Call
  <2> QED
    BY <1>1, <2>1 DEF Call, Begins, Moves, GoTo, FileVars, TypeOK
<1>2. ASSUME NEW p \in Procs, RefuseCall(p) PROVE Rests
  BY <1>2 DEF RefuseCall, Rests, FileVars
<1>3. ASSUME NEW p \in Procs, Lock(p) PROVE Locks(p)
  <2>1. Agent(p) \in HookAgents \cup PluginAgents
    <3>1. todo[p] # <<>> /\ todo[p] \in Seq(Agents)
      BY <1>3 DEF Lock, RunInv, TypeOK
    <3>2. Agent(p) \in Agents
      BY <3>1, HeadTailProperties DEF Agent
    <3> QED
      BY <1>3, <3>2 DEF Lock, Agents
  <2>2. UNCHANGED <<call, todo, next, staged, FileVars, promised>>
        /\ lock[File(p)] = NoProc /\ lock' = [lock EXCEPT ![File(p)] = p]
    BY <1>3 DEF Lock, LockFree, FileVars
  <2>3. CASE Agent(p) \in PluginAgents
    BY <1>3, <2>2, <2>3 DEF Lock, Locks, Moves, GoTo, FirstStep
  <2>4. CASE Agent(p) \in HookAgents
    <3>1. Agent(p) \notin PluginAgents
      BY <2>4, InstallerAssumption
    <3> QED
      BY <1>3, <2>2, <2>4, <3>1 DEF Lock, Locks, Moves, GoTo, FirstStep
  <2> QED
    BY <2>1, <2>3, <2>4
<1>4. ASSUME NEW p \in Procs, SkipAgent(p) \/ FailLock(p)
      PROVE  Ends(p, FALSE) /\ KeptIf(p, FALSE)
  <2>1. NextAgent(p) /\ pc[p] = "loop" /\ lock' = lock /\ promised' = promised
        /\ UNCHANGED <<next, staged>> /\ UNCHANGED FileVars
    BY <1>4 DEF SkipAgent, FailLock, FileVars
  <2>2. pc[p] # "idle" /\ promised' = (IF FALSE THEN Kept(p) ELSE promised)
    BY <2>1
  <2> QED
    BY <2>1, <2>2, EndKinds DEF KeptIf
<1>5. ASSUME NEW p \in Procs, NEW ok \in BOOLEAN, Finish(p, ok), Working(p) PROVE Ends(p, ok)
  <2>1. lock' = [lock EXCEPT ![File(p)] = NoProc] /\ NextAgent(p) /\ Forget(p)
        /\ promised' = (IF ok THEN Kept(p) ELSE promised) /\ UNCHANGED FileVars
    BY <1>5 DEF Finish, Unlocked, FileVars
  <2> QED
    BY <1>5, <2>1, EndKinds DEF Working
<1>6. ASSUME NEW p \in Procs,
             NothingToRemove(p) \/ PluginUpToDate(p) \/ PluginMissing(p) \/ Unlock(p)
      PROVE  Ends(p, TRUE) /\ KeptIf(p, TRUE)
  <2>1. Finish(p, TRUE) /\ Working(p) /\ HasKept(p)
    BY <1>6
    DEF NothingToRemove, PluginUpToDate, PluginMissing, Unlock, InstallPlugin, UninstallPlugin, HasKept, Working
  <2> QED
    BY <1>5, <2>1 DEF KeptIf
<1>7. ASSUME NEW p \in Procs, ReadMalformed(p) \/ RefusePlugin(p) \/ Fail(p)
      PROVE  Ends(p, FALSE) /\ KeptIf(p, FALSE)
  <2>1. Finish(p, FALSE) /\ Working(p) /\ pc[p] # "unlock"
    BY <1>7 DEF ReadMalformed, RefusePlugin, Fail, BackupSteps, Working
  <2> QED
    BY <1>5, <2>1 DEF KeptIf
<1>8. ASSUME NEW p \in Procs, Crash(p)
      PROVE  Ends(p, pc[p] = "unlock") /\ KeptIf(p, pc[p] = "unlock")
  <2>1. /\ Moves(p, pc[p], "idle") /\ todo'[p] = <<>> /\ call'[p] = NoCall
        /\ next'[p] = Missing /\ staged'[p] = NoFile
    BY <1>8 DEF Crash, Moves, GoTo, Forget, TypeOK
  <2> QED
    BY <1>8, <2>1 DEF Crash, Ends, HasKept, KeptIf, FileVars
<1>9. ASSUME NEW p \in Procs, Read(p) PROVE Works(p)
  <2>1. Edits(p)
    BY <1>9 DEF Read, Edits, Moves, GoTo, FileVars, TypeOK
  <2> QED
    BY <1>9, <2>1 DEF Works, Read
<1>10. ASSUME NEW p \in Procs, GeneratePlugin(p) \/ IgnoreFailedRead(p) PROVE Works(p)
  <2>1. Generates(p)
    BY <1>10
    DEF GeneratePlugin, IgnoreFailedRead, InstallPlugin, Generate, Generates, Moves, GoTo, FileVars, TypeOK
  <2> QED
    BY <1>10, <2>1 DEF Works, GeneratePlugin, IgnoreFailedRead, Generate
<1>11. ASSUME NEW p \in Procs, NoBackup(p) \/ IgnoreFailedBackup(p) PROVE Works(p)
  <2>1. SkipsBackup(p)
    BY <1>11, InstallerAssumption
    DEF NoBackup, IgnoreFailedBackup, Backup, BackupSteps, SkipsBackup, Moves, GoTo, FileVars
  <2> QED
    BY <1>11, <2>1 DEF Works, NoBackup, IgnoreFailedBackup
<1>12. ASSUME NEW p \in Procs, ReadForBackup(p) PROVE Works(p)
  <2>1. ReadsBackup(p)
    BY <1>12 DEF ReadForBackup, Backup, ReadsBackup, Moves, GoTo, FileVars, TypeOK
  <2> QED
    BY <1>12, <2>1 DEF Works, ReadForBackup
<1>13. ASSUME NEW p \in Procs, RenameBackup(p) PROVE Works(p)
  <2>1. bak' = [bak EXCEPT ![File(p)] = [content |-> staged[p].content, mode |-> WriteMode(bak[File(p)])]]
    BY <1>13 DEF RenameBackup
  <2>2. RenamesBackup(p)
    BY <1>13, <2>1 DEF RenameBackup, RenamesBackup, Moves, GoTo
  <2> QED
    BY <1>13, <2>2 DEF Works, RenameBackup
<1>14. ASSUME NEW p \in Procs, ChmodBackup(p) PROVE Works(p)
  <2>1. bak' = [bak EXCEPT ![File(p)] = [bak[File(p)] EXCEPT !.mode = staged[p].mode]]
    BY <1>14 DEF ChmodBackup
  <2>2. ChmodsBackup(p)
    BY <1>14, <2>1 DEF ChmodBackup, ChmodsBackup, Moves, GoTo
  <2> QED
    BY <1>14, <2>2 DEF Works, ChmodBackup
<1>15. ASSUME NEW p \in Procs, Stage(p) PROVE Works(p)
  <2>1. Stages(p)
    BY <1>15 DEF Stage, Stages, Moves, GoTo, FileVars, TypeOK
  <2> QED
    BY <1>15, <2>1 DEF Works, Stage
<1>16. ASSUME NEW p \in Procs, Rename(p) \/ FoundPlugin(p) \/ RemovePlugin(p) PROVE Works(p)
  <2>1. Renames(p) \/ Finds(p) \/ Removes(p)
    BY <1>16
    DEF Rename, Renames, FoundPlugin, UninstallPlugin, Finds, RemovePlugin, Removes, Moves, GoTo, FileVars
  <2> QED
    BY <1>16, <2>1 DEF Works, Rename, FoundPlugin, RemovePlugin
<1>17. ASSUME NEW p \in Procs, Step(p) PROVE Goal
  <2>1. CASE NothingToRemove(p) \/ PluginUpToDate(p) \/ PluginMissing(p) \/ Unlock(p)
    BY <1>6, <2>1
  <2>2. CASE SkipAgent(p) \/ ReadMalformed(p) \/ RefusePlugin(p)
    BY <1>4, <1>7, <2>2
  <2>3. CASE \/ Read(p) \/ GeneratePlugin(p) \/ NoBackup(p) \/ ReadForBackup(p) \/ RenameBackup(p)
             \/ ChmodBackup(p) \/ Stage(p) \/ Rename(p) \/ FoundPlugin(p) \/ RemovePlugin(p)
    <3>1. Works(p)
      BY <1>9, <1>10, <1>11, <1>12, <1>13, <1>14, <1>15, <1>16, <2>3
    <3> QED
      BY <3>1
  <2> QED
    BY <1>17, <2>1, <2>2, <2>3 DEF Step, EditHooks, EditPlugin
<1>18. ASSUME NEW p \in Procs,
              Fail(p) \/ FailLock(p) \/ Crash(p) \/ IgnoreFailedBackup(p) \/ IgnoreFailedRead(p)
       PROVE  Goal
  <2>1. (pc[p] = "unlock") \in BOOLEAN
    OBVIOUS
  <2> QED
    BY <1>4, <1>7, <1>8, <1>10, <1>11, <1>18, <2>1
<1>19. ASSUME NEW f \in Paths, UserRestores(f)
       PROVE  \E file \in UserFiles(f) : Writes(f, file) /\ UserRestores(f)
  BY <1>19 DEF UserRestores, UserWrites, Writes
<1>20. ASSUME NEW f \in Paths, UserAdds(f)
       PROVE  \E e \in Events :
                /\ disk[f].content.kind = "hooks" /\ disk[f].content.hooks[e].list
                /\ Writes(f, [content |-> HooksFile(WithUserHook(disk[f].content.hooks, e)),
                              mode |-> disk[f].mode])
                /\ UNCHANGED promised
  BY <1>20 DEF UserAdds, UserWrites, Writes
<1>21. CASE UNCHANGED vars
  BY <1>21 DEF vars, Rests, FileVars, procVars
<1>22. CASE Next
  BY <1>1, <1>2, <1>3, <1>17, <1>18, <1>19, <1>20, <1>22 DEF Next
<1> QED
  BY <1>21, <1>22

-----------------------------------------------------------------------------
\* Type correctness.

\* What a process has stays one value per process.
LEMMA Shapes ==
  ASSUME TypeOK, [Next]_vars
  PROVE  /\ call' = [q \in Procs |-> call'[q]] /\ todo' = [q \in Procs |-> todo'[q]]
         /\ next' = [q \in Procs |-> next'[q]] /\ staged' = [q \in Procs |-> staged'[q]]
         /\ calls' \in 0 .. MaxCalls /\ upsets' \in 0 .. MaxUpsets
<1>a. /\ call \in [Procs -> Calls \cup {NoCall}] /\ todo \in [Procs -> Seq(Agents)]
      /\ next \in [Procs -> {Missing} \cup Contents] /\ staged \in [Procs -> Files]
      /\ calls \in 0 .. MaxCalls /\ upsets \in 0 .. MaxUpsets /\ MaxCalls \in Nat /\ MaxUpsets \in Nat
  BY InstallerAssumption DEF TypeOK
<1>1. CASE UNCHANGED vars
  BY <1>1, <1>a DEF vars, procVars
<1>2. ASSUME NEW p \in Procs, Call(p) \/ RefuseCall(p) \/ Lock(p)
      PROVE  /\ UNCHANGED <<next, staged, upsets>> /\ calls' \in 0 .. MaxCalls
             /\ \/ UNCHANGED <<call, todo>>
                \/ \E c, agents : call' = [call EXCEPT ![p] = c] /\ todo' = [todo EXCEPT ![p] = agents]
  BY <1>2, <1>a DEF Call, RefuseCall, Lock, procVars
<1>3. ASSUME NEW p \in Procs, NextAgent(p)
      PROVE  /\ todo' = [todo EXCEPT ![p] = Tail(todo[p])]
             /\ \E c : call' = [call EXCEPT ![p] = c]
  <2>1. call = [call EXCEPT ![p] = call[p]]
    BY <1>a
  <2> QED
    BY <1>3, <2>1 DEF NextAgent
<1>4. ASSUME NEW p \in Procs, NEW ok, Finish(p, ok)
      PROVE  /\ todo' = [todo EXCEPT ![p] = Tail(todo[p])]
             /\ \E c : call' = [call EXCEPT ![p] = c]
             /\ next' = [next EXCEPT ![p] = Missing] /\ staged' = [staged EXCEPT ![p] = NoFile]
             /\ calls' = calls
  BY <1>3, <1>4 DEF Finish, Forget
<1>5. upsets' = upsets \/ Upset => upsets' \in 0 .. MaxUpsets
  BY <1>a DEF Upset
<1>6. ASSUME NEW p \in Procs,
             \/ NothingToRemove(p) \/ ReadMalformed(p) \/ Unlock(p) \/ PluginUpToDate(p)
             \/ RefusePlugin(p) \/ PluginMissing(p) \/ Fail(p)
      PROVE  (\E ok \in BOOLEAN : Finish(p, ok)) /\ (upsets' = upsets \/ Upset)
  BY <1>6
  DEF NothingToRemove, ReadMalformed, Unlock, PluginUpToDate, RefusePlugin, PluginMissing, Fail
<1>7. ASSUME NEW p \in Procs,
             \/ Read(p) \/ GeneratePlugin(p) \/ NoBackup(p) \/ ReadForBackup(p) \/ RenameBackup(p)
             \/ ChmodBackup(p) \/ Stage(p) \/ Rename(p) \/ FoundPlugin(p) \/ RemovePlugin(p)
             \/ IgnoreFailedBackup(p) \/ IgnoreFailedRead(p)
      PROVE  /\ UNCHANGED <<call, todo, calls>> /\ (upsets' = upsets \/ Upset)
             /\ next' = next \/ \E c : next' = [next EXCEPT ![p] = c]
             /\ staged' = staged \/ \E file : staged' = [staged EXCEPT ![p] = file]
  BY <1>7
  DEF Read, GeneratePlugin, Generate, NoBackup, ReadForBackup, RenameBackup, ChmodBackup, Stage, Rename,
      FoundPlugin, RemovePlugin, IgnoreFailedBackup, IgnoreFailedRead
<1>8. ASSUME NEW p \in Procs, SkipAgent(p) \/ FailLock(p)
      PROVE  NextAgent(p) /\ UNCHANGED <<next, staged, calls>> /\ (upsets' = upsets \/ Upset)
  BY <1>8 DEF SkipAgent, FailLock
<1>9. ASSUME NEW p \in Procs, Crash(p)
      PROVE  /\ call' = [call EXCEPT ![p] = NoCall] /\ todo' = [todo EXCEPT ![p] = <<>>]
             /\ next' = [next EXCEPT ![p] = Missing] /\ staged' = [staged EXCEPT ![p] = NoFile]
             /\ calls' = calls /\ Upset
  BY <1>9 DEF Crash, Forget
<1>10. ASSUME NEW f \in Paths, UserRestores(f) \/ UserAdds(f)
       PROVE  UNCHANGED procVars /\ UNCHANGED calls /\ Upset
  BY <1>10 DEF UserRestores, UserAdds, UserWrites
<1>11. ASSUME NEW p \in Procs, Step(p) \/ Fail(p) \/ IgnoreFailedBackup(p) \/ IgnoreFailedRead(p)
       PROVE  \/ (\E ok \in BOOLEAN : Finish(p, ok)) /\ (upsets' = upsets \/ Upset)
              \/ /\ UNCHANGED <<call, todo, calls>> /\ (upsets' = upsets \/ Upset)
                 /\ next' = next \/ \E c : next' = [next EXCEPT ![p] = c]
                 /\ staged' = staged \/ \E file : staged' = [staged EXCEPT ![p] = file]
              \/ NextAgent(p) /\ UNCHANGED <<next, staged, calls>> /\ (upsets' = upsets \/ Upset)
  BY <1>6, <1>7, <1>8, <1>11 DEF Step, EditHooks, EditPlugin
<1>12. CASE Next
  <2>1. CASE \E p \in Procs : Call(p) \/ RefuseCall(p) \/ Lock(p)
    BY <1>2, <1>a, <2>1
  <2>2. CASE \E p \in Procs : Step(p) \/ Fail(p) \/ IgnoreFailedBackup(p) \/ IgnoreFailedRead(p)
    <3> PICK p \in Procs : Step(p) \/ Fail(p) \/ IgnoreFailedBackup(p) \/ IgnoreFailedRead(p)
      BY <2>2
    <3>1. CASE (\E ok \in BOOLEAN : Finish(p, ok)) /\ (upsets' = upsets \/ Upset)
      BY <1>4, <1>5, <1>a, <3>1
    <3>2. CASE /\ UNCHANGED <<call, todo, calls>> /\ (upsets' = upsets \/ Upset)
               /\ next' = next \/ \E c : next' = [next EXCEPT ![p] = c]
               /\ staged' = staged \/ \E file : staged' = [staged EXCEPT ![p] = file]
      BY <1>5, <1>a, <3>2
    <3>3. CASE NextAgent(p) /\ UNCHANGED <<next, staged, calls>> /\ (upsets' = upsets \/ Upset)
      BY <1>3, <1>5, <1>a, <3>3
    <3> QED
      BY <1>11, <3>1, <3>2, <3>3
  <2>3. CASE \E p \in Procs : FailLock(p)
    BY <1>3, <1>5, <1>8, <1>a, <2>3
  <2>4. CASE \E p \in Procs : Crash(p)
    BY <1>5, <1>9, <1>a, <2>4
  <2>5. CASE \E f \in Paths : UserRestores(f) \/ UserAdds(f)
    BY <1>5, <1>10, <1>a, <2>5 DEF procVars
  <2> QED
    BY <1>12, <2>1, <2>2, <2>3, <2>4, <2>5 DEF Next
<1> QED
  BY <1>1, <1>12

ProcTypeOK == /\ pc \in [Procs -> Steps] /\ call \in [Procs -> Calls \cup {NoCall}]
              /\ todo \in [Procs -> Seq(Agents)]
              /\ next \in [Procs -> {Missing} \cup Contents] /\ staged \in [Procs -> Files]

FileTypeOK == /\ disk \in [Paths -> Files] /\ bak \in [Paths -> Files] /\ mixed \subseteq Paths
              /\ lock \in [Paths -> Procs \cup {NoProc}]

PromiseTypeOK == promised \in [Agents -> [Markers -> Endpoints \cup {Nothing}]]

\* It has a new step, and the rest of what p has is well typed: so it is for all.
LEMMA MovesType ==
  ASSUME TypeOK, [Next]_vars, NEW p \in Procs, NEW from, NEW to \in Steps, Moves(p, from, to),
         call'[p] \in Calls \cup {NoCall}, todo'[p] \in Seq(Agents),
         next'[p] \in {Missing} \cup Contents, staged'[p] \in Files
  PROVE  ProcTypeOK'
<1>1. \A q \in Procs : /\ call'[q] \in Calls \cup {NoCall} /\ todo'[q] \in Seq(Agents)
                       /\ next'[q] \in {Missing} \cup Contents /\ staged'[q] \in Files
  BY DEF Moves, TypeOK
<1>2. pc' \in [Procs -> Steps]
  BY DEF Moves, TypeOK
<1>3. /\ call' = [q \in Procs |-> call'[q]] /\ todo' = [q \in Procs |-> todo'[q]]
      /\ next' = [q \in Procs |-> next'[q]] /\ staged' = [q \in Procs |-> staged'[q]]
  BY Shapes
<1>4. call' \in [Procs -> Calls \cup {NoCall}]
  BY <1>1, <1>3
<1>5. todo' \in [Procs -> Seq(Agents)]
  BY <1>1, <1>3
<1>6. next' \in [Procs -> {Missing} \cup Contents]
  BY <1>1, <1>3
<1>7. staged' \in [Procs -> Files]
  BY <1>1, <1>3
<1> QED
  BY <1>2, <1>4, <1>5, <1>6, <1>7 DEF ProcTypeOK

\* What it means for a promise to be kept.
LEMMA KeptType ==
  ASSUME TypeOK, RunInv, NEW p \in Procs, Working(p)
  PROVE  /\ Kept(p) \in [Agents -> [Markers -> Endpoints \cup {Nothing}]]
         /\ call[p].endpoint \in Endpoints \cup {Nothing}
         /\ Kept(p)[Agent(p)][call[p].marker] = call[p].endpoint
         /\ \A a \in Agents : \A m \in Markers :
              a # Agent(p) \/ m # call[p].marker => Kept(p)[a][m] = promised[a][m]
<1> DEFINE a == Agent(p)
           m == call[p].marker
           e == call[p].endpoint
<1>1. a \in Agents /\ m \in Markers
  BY FileIsPath
<1>2. e \in Endpoints \cup {Nothing}
  BY FileIsPath DEF Calls
<1>3. Kept(p) = [promised EXCEPT ![a] = [promised[a] EXCEPT ![m] = e]]
  BY DEF Kept
<1>4. promised \in [Agents -> [Markers -> Endpoints \cup {Nothing}]]
  BY DEF TypeOK
<1> HIDE DEF a, m, e
<1>5. promised[a] \in [Markers -> Endpoints \cup {Nothing}]
  BY <1>1, <1>4
<1>6. [promised[a] EXCEPT ![m] = e] \in [Markers -> Endpoints \cup {Nothing}]
  BY <1>2, <1>5
<1> QED
  BY <1>1, <1>2, <1>3, <1>4, <1>5, <1>6 DEF a, m, e

\* A step of the work on a file leaves everything well typed.
LEMMA WorkType ==
  ASSUME TypeOK, RunInv, LockOwned, DiskInv, [Next]_vars, NEW p \in Procs, Works(p)
  PROVE  ProcTypeOK' /\ FileTypeOK'
<1>1. Working(p)
  BY DEF Works, Edits, Generates, SkipsBackup, ReadsBackup, RenamesBackup, ChmodsBackup, Stages, Renames,
         Finds, Removes, Moves, BackupSteps, Working
<1> DEFINE f == File(p)
<1>2. /\ f \in Paths /\ call[p] \in Calls /\ disk[f] \in Files /\ bak[f] \in Files
      /\ next[p] \in {Missing} \cup Contents /\ staged[p] \in Files
      /\ call'[p] = call[p] /\ todo'[p] = todo[p] /\ todo[p] \in Seq(Agents)
      /\ disk \in [Paths -> Files] /\ bak \in [Paths -> Files]
      /\ lock' \in [Paths -> Procs \cup {NoProc}] /\ mixed \subseteq Paths
  BY <1>1, FileIsPath DEF TypeOK, Works
<1>3. Ahead \cup {"read", "inspect", "rename", "remove", "unlock", "stage", "renamebak", "chmodbak"} \subseteq Steps
  BY DEF Ahead, BackupSteps, Steps
<1>4. ASSUME NEW from, NEW to \in Steps, Moves(p, from, to), UNCHANGED <<next, staged>>
      PROVE  ProcTypeOK'
  BY <1>2, <1>4, MovesType
<1>6. UNCHANGED FileVars => FileTypeOK'
  BY <1>2 DEF FileVars, FileTypeOK
<1>7. CASE Edits(p)
  <2>1. disk[f].content \in {Missing, Foreign} \cup Contents
    BY <1>2, FileParts
  <2>2. next'[p] \in Contents
    BY <1>2, <1>7, <2>1, EditedType, WrittenType DEF Edits, Contents
  <2>3. ProcTypeOK'
    BY <1>2, <1>3, <1>7, <2>2, MovesType DEF Edits, Ahead, BackupSteps
  <2> QED
    BY <1>6, <1>7, <2>3 DEF Edits
<1>8. CASE Generates(p)
  <2>1. next'[p] \in Contents
    BY <1>2, <1>8 DEF Generates, Calls, Plugin, Contents
  <2>2. ProcTypeOK'
    BY <1>2, <1>3, <1>8, <2>1, MovesType DEF Generates, Ahead, BackupSteps
  <2> QED
    BY <1>6, <1>8, <2>2 DEF Generates
<1>9. CASE SkipsBackup(p) \/ Finds(p)
  <2>1. ProcTypeOK'
    BY <1>3, <1>4, <1>9 DEF SkipsBackup, Finds
  <2> QED
    BY <1>6, <1>9, <2>1 DEF SkipsBackup, Finds
<1>10. CASE ReadsBackup(p)
  <2>1. ProcTypeOK'
    BY <1>2, <1>3, <1>10, MovesType DEF ReadsBackup
  <2> QED
    BY <1>6, <1>10, <2>1 DEF ReadsBackup
<1>11. CASE RenamesBackup(p) \/ ChmodsBackup(p)
  <2>1. ProcTypeOK'
    BY <1>3, <1>4, <1>11 DEF RenamesBackup, ChmodsBackup
  <2>2. staged[p] # NoFile /\ staged[p].content \in Contents /\ staged[p].mode \in Modes
    <3>1. staged[p] # NoFile
      BY <1>11 DEF RenamesBackup, ChmodsBackup, Moves, DiskInv
    <3> QED
      BY <1>2, <3>1, FileParts
  <2>3. PICK file \in Files : bak' = [bak EXCEPT ![f] = file]
    <3>1. CASE RenamesBackup(p)
      BY <1>2, <2>2, <3>1, FileParts, AFile DEF RenamesBackup
    <3>2. CASE ChmodsBackup(p)
      <4>1. [bak[f] EXCEPT !.mode = staged[p].mode] = [content |-> bak[f].content, mode |-> staged[p].mode]
        BY <1>2, FileParts
      <4>2. bak[f] # NoFile
        BY <3>2 DEF ChmodsBackup, Moves, DiskInv
      <4> QED
        BY <1>2, <2>2, <3>2, <4>1, <4>2, FileParts, AFile DEF ChmodsBackup
    <3> QED
      BY <1>11, <3>1, <3>2
  <2>4. bak' \in [Paths -> Files]
    BY <1>2, <2>3
  <2> QED
    BY <1>2, <1>11, <2>1, <2>4 DEF RenamesBackup, ChmodsBackup, FileTypeOK
<1>12. CASE Stages(p)
  <2>1. next[p] \in Contents /\ WriteMode(disk[f]) \in Modes
    BY <1>2, <1>12, WrittenType, FileParts DEF Stages, Moves, DiskInv, Ahead
  <2>2. staged'[p] \in Files
    BY <1>12, <2>1, AFile DEF Stages
  <2>3. ProcTypeOK'
    BY <1>2, <1>3, <1>12, <2>2, MovesType DEF Stages
  <2> QED
    BY <1>6, <1>12, <2>3 DEF Stages
<1>13. CASE Renames(p) \/ Removes(p)
  <2>1. ProcTypeOK'
    BY <1>3, <1>4, <1>13 DEF Renames, Removes
  <2>2. NoFile \in Files
    BY DEF Files
  <2>3. disk' \in [Paths -> Files]
    BY <1>2, <1>13, <2>2 DEF Renames, Removes
  <2> QED
    BY <1>2, <1>13, <2>1, <2>3 DEF Renames, Removes, FileTypeOK
<1> QED
  BY <1>7, <1>8, <1>9, <1>10, <1>11, <1>12, <1>13 DEF Works

\* A process that has kept its promise was at work.
LEMMA KeptWorks ==
  ASSUME NEW p \in Procs, HasKept(p)
  PROVE  Working(p)
BY DEF HasKept, PluginUpToDate, PluginMissing, InstallPlugin, UninstallPlugin, Working

\* Every step leaves everything well typed.
LEMMA TypeStep ==
  ASSUME TypeOK, RunInv, LockOwned, DiskInv, [Next]_vars
  PROVE  TypeOK'
<1>a. /\ pc \in [Procs -> Steps] /\ call \in [Procs -> Calls \cup {NoCall}]
      /\ todo \in [Procs -> Seq(Agents)]
      /\ next \in [Procs -> {Missing} \cup Contents] /\ staged \in [Procs -> Files]
      /\ disk \in [Paths -> Files] /\ bak \in [Paths -> Files] /\ mixed \subseteq Paths
      /\ lock \in [Paths -> Procs \cup {NoProc}]
      /\ promised \in [Agents -> [Markers -> Endpoints \cup {Nothing}]]
  BY DEF TypeOK
<1>b. {"loop", "idle", "read", "inspect"} \subseteq Steps
  BY DEF Steps
<1>c. UNCHANGED <<FileVars, lock>> => FileTypeOK'
  BY <1>a DEF FileVars, FileTypeOK
<1>d. promised' = promised => PromiseTypeOK'
  BY <1>a DEF PromiseTypeOK
<1>e. ProcTypeOK' /\ FileTypeOK' /\ PromiseTypeOK' => TypeOK'
  BY Shapes DEF TypeOK, ProcTypeOK, FileTypeOK, PromiseTypeOK
<1>f. UNCHANGED procVars => ProcTypeOK'
  BY <1>a DEF procVars, ProcTypeOK
<1>1. CASE Rests
  BY <1>1, <1>c, <1>d, <1>e, <1>f DEF Rests
<1>2. ASSUME NEW p \in Procs, Begins(p) PROVE TypeOK'
  <2>1. ProcTypeOK'
    <3>1. call'[p] \in Calls \cup {NoCall} /\ todo'[p] \in Seq(Agents)
      BY <1>2, InstallerAssumption DEF Begins
    <3>2. next'[p] \in {Missing} \cup Contents /\ staged'[p] \in Files /\ Moves(p, "idle", "loop")
      BY <1>2, <1>a DEF Begins
    <3> QED
      BY <1>b, <3>1, <3>2, MovesType
  <2> QED
    BY <1>2, <1>c, <1>d, <1>e, <2>1 DEF Begins
<1>3. ASSUME NEW p \in Procs, Locks(p) PROVE TypeOK'
  <2>1. ProcTypeOK'
    <3>1. /\ call'[p] \in Calls \cup {NoCall} /\ todo'[p] \in Seq(Agents)
          /\ next'[p] \in {Missing} \cup Contents /\ staged'[p] \in Files
      BY <1>3, <1>a DEF Locks
    <3>2. Moves(p, "loop", "read") \/ Moves(p, "loop", "inspect")
      BY <1>3 DEF Locks
    <3> QED
      BY <1>b, <3>1, <3>2, MovesType
  <2>2. FileTypeOK'
    BY <1>3, <1>a DEF Locks, FileVars, FileTypeOK
  <2> QED
    BY <1>3, <1>d, <1>e, <2>1, <2>2 DEF Locks
<1>4. ASSUME NEW p \in Procs, Works(p) PROVE TypeOK'
  BY <1>4, <1>d, <1>e, WorkType DEF Works
<1>5. ASSUME NEW p \in Procs, NEW kept \in BOOLEAN, Ends(p, kept), KeptIf(p, kept) PROVE TypeOK'
  <2>1. ProcTypeOK'
    <3>1. Tail(todo[p]) \in Seq(Agents) /\ <<>> \in Seq(Agents) /\ todo'[p] \in {Tail(todo[p]), <<>>}
      <4>1. todo[p] # <<>> /\ todo[p] \in Seq(Agents)
        BY <1>5, <1>a DEF Ends, RunInv
      <4> QED
        BY <1>5, <4>1, HeadTailProperties, EmptySeq DEF Ends
    <3>2. call'[p] \in Calls \cup {NoCall}
      BY <1>5, <1>a DEF Ends
    <3>3. next'[p] \in {Missing} \cup Contents /\ staged'[p] \in Files
      BY <1>5, <1>a DEF Ends, Files
    <3>4. Moves(p, pc[p], "loop") \/ Moves(p, pc[p], "idle")
      BY <1>5 DEF Ends
    <3> QED
      BY <1>b, <3>1, <3>2, <3>3, <3>4, MovesType
  <2>2. FileTypeOK'
    BY <1>5, <1>a DEF Ends, FileVars, FileTypeOK
  <2>3. PromiseTypeOK'
    <3>1. CASE kept
      <4>1. promised' = Kept(p) /\ Working(p)
        BY <1>5, <3>1, KeptWorks DEF Ends, KeptIf
      <4> QED
        BY <4>1, KeptType DEF PromiseTypeOK
    <3>2. CASE ~kept
      BY <1>5, <1>d, <3>2 DEF Ends
    <3> QED
      BY <3>1, <3>2
  <2> QED
    BY <1>e, <2>1, <2>2, <2>3
<1>6. ASSUME NEW f \in Paths, NEW file \in Files, Writes(f, file), PromiseTypeOK' PROVE TypeOK'
  <2>1. FileTypeOK'
    BY <1>6, <1>a DEF Writes, FileTypeOK
  <2> QED
    BY <1>6, <1>e, <1>f, <2>1 DEF Writes
<1>7. ASSUME NEW f \in Paths, NEW file \in UserFiles(f), Writes(f, file), UserRestores(f) PROVE TypeOK'
  <2>1. PromiseTypeOK'
    BY <1>7, <1>a DEF UserRestores, PromiseTypeOK
  <2> QED
    BY <1>7, <1>6, <2>1, UserFilesType
<1>8. ASSUME NEW f \in Paths, NEW e \in Events,
             disk[f].content.kind = "hooks", disk[f].content.hooks[e].list,
             Writes(f, [content |-> HooksFile(WithUserHook(disk[f].content.hooks, e)),
                        mode |-> disk[f].mode]),
             UNCHANGED promised
      PROVE  TypeOK'
  <2>1. disk[f] \in Files /\ disk[f].content \in Written(f)
    <3>1. disk[f] \in Files
      BY <1>a DEF FileTypeOK
    <3>2. disk[f].content \in {Missing, Foreign} \cup Written(f)
      BY DEF DiskInv
    <3> QED
      BY <1>8, <3>1, <3>2 DEF Missing, Foreign
  <2>2. [content |-> HooksFile(WithUserHook(disk[f].content.hooks, e)), mode |-> disk[f].mode] \in Files
    BY <1>8, <2>1, UserAddsFile
  <2> QED
    BY <1>8, <1>6, <1>d, <2>2
<1> QED
  BY <1>1, <1>2, <1>3, <1>4, <1>5, <1>7, <1>8, StepKinds

-----------------------------------------------------------------------------
\* What a process does leaves the others where they are.

\* A step of a process.
Acts(p) == Begins(p) \/ Locks(p) \/ Works(p) \/ \E kept \in BOOLEAN : Ends(p, kept)

\* The steps at which p has the flock before a step of the work and after it.
LEMMA WorksOn ==
  ASSUME TypeOK, NEW p \in Procs, Works(p)
  PROVE  /\ Working(p) /\ pc'[p] \notin {"idle", "loop"}
         /\ call' = call /\ todo' = todo /\ lock' = lock /\ mixed' = mixed
         /\ Agent(p)' = Agent(p) /\ File(p)' = File(p)
<1>1. /\ pc \in [Procs -> Steps] /\ call' = call /\ todo' = todo /\ lock' = lock
      /\ Agent(p)' = Agent(p) /\ File(p)' = File(p)
  BY DEF TypeOK, Works, Agent, File
<1> QED
  BY <1>1
  DEF Works, Edits, Generates, SkipsBackup, ReadsBackup, RenamesBackup, ChmodsBackup, Stages, Renames,
      Finds, Removes, Moves, BackupSteps, Working, FileVars

\* The others have their own and their files.
LEMMA OthersStay ==
  ASSUME TypeOK, RunInv, LockOwned, NEW p \in Procs, Acts(p), NEW q \in Procs, q # p
  PROVE  /\ pc'[q] = pc[q] /\ call'[q] = call[q] /\ todo'[q] = todo[q]
         /\ next'[q] = next[q] /\ staged'[q] = staged[q]
         /\ Agent(q)' = Agent(q) /\ File(q)' = File(q) /\ mixed' = mixed
         /\ Working(q) => disk'[File(q)] = disk[File(q)] /\ bak'[File(q)] = bak[File(q)]
<1>1. PICK from, to : Moves(p, from, to)
  BY DEF Acts, Begins, Locks, Works, Ends, Edits, Generates, SkipsBackup, ReadsBackup, RenamesBackup,
         ChmodsBackup, Stages, Renames, Finds, Removes
<1>2. /\ pc'[q] = pc[q] /\ call'[q] = call[q] /\ todo'[q] = todo[q]
      /\ next'[q] = next[q] /\ staged'[q] = staged[q]
  BY <1>1 DEF Moves, TypeOK
<1>3. Agent(q)' = Agent(q) /\ File(q)' = File(q)
  BY <1>2 DEF Agent, File
<1>4. CASE Works(p)
  <2>1. Working(p) /\ mixed' = mixed
    BY <1>4, WorksOn
  <2>2. ASSUME Working(q) PROVE File(q) # File(p) /\ File(q) \in Paths /\ File(p) \in Paths
    <3>1. File(q) \in Paths /\ File(p) \in Paths
      BY <2>1, <2>2, FileIsPath
    <3>2. lock[File(q)] = q /\ lock[File(p)] = p
      BY <2>1, <2>2, <3>1 DEF LockOwned, Working
    <3> QED
      BY <3>1, <3>2
  <2>3. /\ disk' = disk \/ \E file : disk' = [disk EXCEPT ![File(p)] = file]
        /\ bak' = bak \/ \E file : bak' = [bak EXCEPT ![File(p)] = file]
    BY <1>4
    DEF Works, Edits, Generates, SkipsBackup, ReadsBackup, RenamesBackup, ChmodsBackup, Stages, Renames,
        Finds, Removes, FileVars
  <2>4. Working(q) => disk'[File(q)] = disk[File(q)] /\ bak'[File(q)] = bak[File(q)]
    BY <2>2, <2>3 DEF TypeOK
  <2> QED
    BY <1>2, <1>3, <2>1, <2>4
<1>5. CASE ~Works(p)
  <2>1. UNCHANGED FileVars
    BY <1>5 DEF Acts, Begins, Locks, Ends
  <2> QED
    BY <1>2, <1>3, <2>1 DEF FileVars
<1> QED
  BY <1>4, <1>5

\* The steps there are, seen from far off.
LEMMA StepShapes ==
  ASSUME TypeOK, RunInv, LockOwned, DiskInv, [Next]_vars
  PROVE  \/ Rests
         \/ \E p \in Procs : Acts(p)
         \/ \E f \in Paths : \E file : /\ Writes(f, file)
                                       /\ file.content \in {Missing, Foreign} \cup Written(f)
<1>1. ASSUME NEW f \in Paths, NEW file \in UserFiles(f), Writes(f, file)
      PROVE  file.content \in {Missing, Foreign} \cup Written(f)
  BY UserFilesType
<1>2. ASSUME NEW f \in Paths, NEW e \in Events,
             disk[f].content.kind = "hooks", disk[f].content.hooks[e].list
      PROVE  HooksFile(WithUserHook(disk[f].content.hooks, e)) \in Written(f)
  <2>1. disk[f] \in Files /\ disk[f].content \in Written(f)
    BY <1>2 DEF TypeOK, DiskInv, Missing, Foreign
  <2> QED
    BY <1>2, <2>1, UserAddsFile
<1>3. ASSUME NEW f \in Paths, NEW e \in Events,
             disk[f].content.kind = "hooks", disk[f].content.hooks[e].list,
             Writes(f, [content |-> HooksFile(WithUserHook(disk[f].content.hooks, e)),
                        mode |-> disk[f].mode])
      PROVE  \E file : Writes(f, file) /\ file.content \in {Missing, Foreign} \cup Written(f)
  BY <1>2, <1>3
<1> QED
  BY StepKinds, <1>1, <1>3 DEF Acts

\* The calls go on as they began.
LEMMA RunStep ==
  ASSUME TypeOK, RunInv, LockOwned, DiskInv, [Next]_vars
  PROVE  RunInv'
<1>1. CASE UNCHANGED procVars
  BY <1>1 DEF RunInv, Working, Agent, procVars
<1>2. ASSUME NEW p \in Procs, Acts(p) PROVE RunInv'
  <2> DEFINE Run(q) ==
        /\ pc[q] # "idle" => todo[q] # <<>> /\ call[q] \in Calls
        /\ Working(q) => Agent(q) \in HookAgents \cup PluginAgents
        /\ pc[q] = "read" => Agent(q) \in HookAgents
        /\ pc[q] \in {"inspect", "remove"} => Agent(q) \in PluginAgents
        /\ pc[q] = "remove" => call[q].op = "uninstall"
        /\ pc[q] \in Ahead \cup {"rename"} /\ Agent(q) \in PluginAgents => call[q].op = "install"
  <2>1. \A q \in Procs : Run(q)
    BY DEF RunInv
  <2>2. ASSUME NEW q \in Procs, q # p PROVE Run(q)'
    <3>1. pc'[q] = pc[q] /\ call'[q] = call[q] /\ todo'[q] = todo[q] /\ Agent(q)' = Agent(q)
      BY <1>2, <2>2, OthersStay
    <3> QED
      BY <2>1, <3>1 DEF Working
  <2>3. pc \in [Procs -> Steps] /\ HookAgents \cap PluginAgents = {}
    BY InstallerAssumption DEF TypeOK
  <2>4. ASSUME Begins(p) PROVE Run(p)'
    <3>1. todo'[p] # <<>> /\ call'[p] \in Calls /\ pc'[p] = "loop"
      BY <2>3, <2>4, InstallerAssumption DEF Begins, Moves
    <3> QED
      BY <3>1 DEF Working, Ahead, BackupSteps
  <2>5. ASSUME Locks(p) PROVE Run(p)'
    <3>1. todo'[p] = todo[p] /\ call'[p] = call[p] /\ pc[p] = "loop" /\ Agent(p)' = Agent(p)
      BY <2>5 DEF Locks, Moves, Agent
    <3>2. \/ pc'[p] = "read" /\ Agent(p) \in HookAgents
          \/ pc'[p] = "inspect" /\ Agent(p) \in PluginAgents
      BY <2>3, <2>5 DEF Locks, Moves
    <3> QED
      BY <2>1, <3>1, <3>2 DEF Working, Ahead, BackupSteps
  <2>6. ASSUME Works(p) PROVE Run(p)'
    <3>1. /\ todo'[p] = todo[p] /\ call'[p] = call[p] /\ Agent(p)' = Agent(p)
          /\ Working(p) /\ pc'[p] \notin {"idle", "loop"}
      BY <2>6, WorksOn
    <3>2. \/ pc[p] = "read" /\ pc'[p] = "backup"
          \/ pc[p] = "inspect" /\ pc'[p] = "backup" /\ call[p].op = "install"
          \/ pc[p] \in Ahead /\ pc'[p] \in Ahead \cup {"rename"}
          \/ pc[p] = "inspect" /\ pc'[p] = "remove" /\ call[p].op = "uninstall"
          \/ pc'[p] = "unlock"
      BY <2>3, <2>6
      DEF Works, Edits, Generates, SkipsBackup, ReadsBackup, RenamesBackup, ChmodsBackup, Stages, Renames,
          Finds, Removes, Moves, Ahead, BackupSteps
    <3> QED
      BY <2>1, <2>3, <3>1, <3>2 DEF Working, Ahead, BackupSteps
  <2>7. ASSUME NEW kept \in BOOLEAN, Ends(p, kept) PROVE Run(p)'
    <3>1. CASE Moves(p, pc[p], "idle")
      <4>1. pc'[p] = "idle"
        BY <2>3, <3>1 DEF Moves
      <4> QED
        BY <4>1 DEF Working, Ahead, BackupSteps
    <3>2. CASE ~Moves(p, pc[p], "idle")
      <4>1. /\ Len(todo[p]) > 1 /\ todo'[p] = Tail(todo[p]) /\ call'[p] = call[p] /\ pc'[p] = "loop"
            /\ pc[p] # "idle"
        BY <2>3, <2>7, <3>2 DEF Ends, Moves
      <4>2. todo'[p] # <<>>
        <5>1. todo[p] \in Seq(Agents) /\ todo[p] # <<>>
          BY <4>1 DEF TypeOK, RunInv
        <5>2. Len(Tail(todo[p])) = Len(todo[p]) - 1 /\ Len(todo[p]) \in Nat
          BY <5>1, HeadTailProperties, LenProperties
        <5>3. Len(<<>>) = 0
          OBVIOUS
        <5>4. \A n \in Nat : n > 1 => n - 1 # 0
          OBVIOUS
        <5> QED
          BY <4>1, <5>2, <5>3, <5>4
      <4> QED
        BY <2>1, <4>1, <4>2 DEF Working, Ahead, BackupSteps
    <3> QED
      BY <3>1, <3>2
  <2>8. \A q \in Procs : Run(q)'
    BY <1>2, <2>2, <2>4, <2>5, <2>6, <2>7 DEF Acts
  <2> QED
    BY <2>8 DEF RunInv
<1> QED
  BY <1>1, <1>2, StepShapes DEF Rests, Writes

\* A flock stays with the process that works on the file.
LEMMA LockStep ==
  ASSUME TypeOK, RunInv, LockOwned, DiskInv, [Next]_vars
  PROVE  LockOwned'
<1>1. CASE UNCHANGED <<lock, procVars>>
  BY <1>1 DEF LockOwned, File, Agent, procVars
<1>a. pc \in [Procs -> Steps] /\ lock \in [Paths -> Procs \cup {NoProc}] /\ NoProc \notin Procs
  BY InstallerAssumption DEF TypeOK
<1>2. ASSUME NEW p \in Procs, Acts(p) PROVE LockOwned'
  <2>1. ASSUME NEW q \in Procs, q # p
        PROVE  pc'[q] = pc[q] /\ File(q)' = File(q)
    BY <1>2, <2>1, OthersStay
  <2>2. ASSUME NEW f \in Paths, NEW q \in Procs
        PROVE  lock[f] = q <=> pc[q] \notin {"idle", "loop"} /\ File(q) = f
    BY DEF LockOwned
  <2>3. CASE Begins(p)
    <3>1. lock' = lock /\ pc[p] = "idle" /\ pc'[p] = "loop"
      BY <1>a, <2>3 DEF Begins, Moves
    <3> QED
      BY <2>1, <2>2, <3>1 DEF LockOwned
  <2>4. CASE Works(p)
    <3>1. lock' = lock /\ Working(p) /\ pc'[p] \notin {"idle", "loop"} /\ File(p)' = File(p)
      BY <2>4, WorksOn
    <3> QED
      BY <2>1, <2>2, <3>1 DEF LockOwned, Working
  <2>5. CASE Locks(p)
    <3>1. /\ pc[p] = "loop" /\ pc'[p] \notin {"idle", "loop"} /\ File(p)' = File(p)
          /\ lock[File(p)] = NoProc /\ lock' = [lock EXCEPT ![File(p)] = p]
      BY <1>a, <2>5 DEF Locks, Moves, File, Agent
    <3>2. ASSUME NEW f \in Paths, NEW q \in Procs
          PROVE  lock'[f] = q <=> pc'[q] \notin {"idle", "loop"} /\ File(q)' = f
      <4>1. CASE f = File(p)
        <5>1. lock'[f] = p /\ lock[f] \notin Procs
          BY <1>a, <3>1, <4>1
        <5> QED
          BY <2>1, <2>2, <3>1, <4>1, <5>1
      <4>2. CASE f # File(p)
        <5>1. lock'[f] = lock[f]
          BY <1>a, <3>1, <4>2
        <5> QED
          BY <2>1, <2>2, <3>1, <4>2, <5>1
      <4> QED
        BY <4>1, <4>2
    <3> QED
      BY <3>2 DEF LockOwned
  <2>6. ASSUME NEW kept \in BOOLEAN, Ends(p, kept) PROVE LockOwned'
    <3>1. pc'[p] \in {"idle", "loop"} /\ lock' = [f \in Paths |-> IF lock[f] = p THEN NoProc ELSE lock[f]]
      BY <1>a, <2>6 DEF Ends, Moves
    <3>2. ASSUME NEW f \in Paths, NEW q \in Procs
          PROVE  lock'[f] = q <=> pc'[q] \notin {"idle", "loop"} /\ File(q)' = f
      BY <1>a, <2>1, <2>2, <3>1
    <3> QED
      BY <3>2 DEF LockOwned
  <2> QED
    BY <1>2, <2>3, <2>4, <2>5, <2>6 DEF Acts
<1> QED
  BY <1>1, <1>2, StepShapes DEF Rests, Writes

-----------------------------------------------------------------------------
\* The edits and the backups.

\* A file that a process has the flock of stays as it is, unless it gets mixed.
LEMMA UserStays ==
  ASSUME TypeOK, RunInv, LockOwned, NEW f \in Paths, NEW file, Writes(f, file)
  PROVE  /\ UNCHANGED <<bak, procVars>> /\ mixed \subseteq mixed'
         /\ \A g \in Paths : disk'[g] = IF g = f THEN file ELSE disk[g]
         /\ \A q \in Procs : File(q)' = File(q) /\ Agent(q)' = Agent(q)
         /\ \A q \in Procs : Working(q) /\ File(q) \notin mixed' =>
              File(q) \in Paths /\ disk'[File(q)] = disk[File(q)]
<1>1. disk \in [Paths -> Files] /\ mixed \subseteq mixed' /\ UNCHANGED <<bak, procVars>>
  BY DEF TypeOK, Writes
<1>2. \A g \in Paths : disk'[g] = IF g = f THEN file ELSE disk[g]
  BY <1>1 DEF Writes
<1>3. \A q \in Procs : File(q)' = File(q) /\ Agent(q)' = Agent(q)
  BY <1>1 DEF File, Agent, procVars
<1>4. ASSUME NEW q \in Procs, Working(q), File(q) \notin mixed'
      PROVE  File(q) \in Paths /\ disk'[File(q)] = disk[File(q)]
  <2>1. File(q) \in Paths
    BY <1>4, FileIsPath
  <2>2. lock[File(q)] = q /\ q # NoProc
    BY <1>4, <2>1, InstallerAssumption DEF LockOwned, Working
  <2>3. File(q) # f
    BY <1>4, <2>2 DEF Writes
  <2> QED
    BY <1>2, <2>1, <2>3
<1> QED
  BY <1>1, <1>2, <1>3, <1>4

\* What is known of a step of the work.
LEMMA AtWork ==
  ASSUME TypeOK, RunInv, LockOwned, NEW p \in Procs, Works(p)
  PROVE  /\ File(p) \in Paths /\ disk[File(p)] \in Files /\ bak[File(p)] \in Files
         /\ disk \in [Paths -> Files] /\ bak \in [Paths -> Files]
         /\ call[p] \in Calls /\ call' = call
         /\ Agent(p) \in HookAgents \cup PluginAgents /\ HookAgents \cap PluginAgents = {}
         /\ Agent(p)' = Agent(p) /\ File(p)' = File(p) /\ mixed' = mixed
         /\ staged[p] \in Files
         /\ IsHooksPath(File(p)) <=> Agent(p) \in HookAgents
         /\ pc \in [Procs -> Steps]
<1>1. Working(p)
  BY WorksOn
<1> QED
  BY <1>1, FileIsPath, WorksOn, PathKinds, InstallerAssumption DEF TypeOK

\* What is on the disk, and on its way there, is of the right kind.
LEMMA DiskStep ==
  ASSUME TypeOK, RunInv, LockOwned, DiskInv, [Next]_vars
  PROVE  DiskInv'
<1> DEFINE Way(q) == /\ pc[q] \in Ahead => next[q] \in Written(File(q))
                     /\ pc[q] \in {"renamebak", "chmodbak"} => staged[q] # NoFile
                     /\ pc[q] = "chmodbak" => bak[File(q)] # NoFile
                     /\ pc[q] = "rename" => staged[q].content \in Written(File(q))
<1>1. /\ \A q \in Procs : Way(q)
      /\ \A f \in Paths : disk[f].content \in {Missing, Foreign} \cup Written(f)
  BY DEF DiskInv
<1>2. (\A q \in Procs : Way(q)') /\ (\A f \in Paths : disk'[f].content \in {Missing, Foreign} \cup Written(f))
        => DiskInv'
  BY DEF DiskInv
<1>3. CASE Rests
  BY <1>3 DEF Rests, DiskInv, FileVars, procVars, File, Agent
<1>4. ASSUME NEW f \in Paths, NEW file, Writes(f, file), file.content \in {Missing, Foreign} \cup Written(f)
      PROVE  DiskInv'
  <2>1. \A q \in Procs : Way(q)'
    BY <1>1, <1>4, UserStays DEF procVars
  <2>2. \A g \in Paths : disk'[g].content \in {Missing, Foreign} \cup Written(g)
    BY <1>1, <1>4, UserStays
  <2> QED
    BY <1>2, <2>1, <2>2
<1>5. ASSUME NEW p \in Procs, Acts(p) PROVE DiskInv'
  <2>1. ASSUME NEW q \in Procs, q # p PROVE Way(q)'
    <3>1. /\ pc'[q] = pc[q] /\ next'[q] = next[q] /\ staged'[q] = staged[q] /\ File(q)' = File(q)
          /\ Working(q) => bak'[File(q)] = bak[File(q)]
      BY <1>5, <2>1, OthersStay
    <3> QED
      BY <1>1, <3>1 DEF Working
  <2>2. CASE ~Works(p)
    <3>1. UNCHANGED disk /\ pc'[p] \in {"idle", "loop", "read", "inspect"}
      BY <1>5, <2>2 DEF Acts, Begins, Locks, Ends, Moves, FileVars, TypeOK
    <3>2. Way(p)'
      BY <3>1 DEF Ahead, BackupSteps
    <3> QED
      BY <1>1, <1>2, <2>1, <3>1, <3>2
  <2>3. CASE Works(p)
    <3> DEFINE f == File(p)
    <3>1. /\ f \in Paths /\ disk[f] \in Files /\ bak[f] \in Files /\ call[p] \in Calls
          /\ disk \in [Paths -> Files] /\ bak \in [Paths -> Files]
          /\ Agent(p) \in HookAgents \cup PluginAgents /\ HookAgents \cap PluginAgents = {}
          /\ File(p)' = f /\ staged[p] \in Files /\ pc \in [Procs -> Steps]
          /\ IsHooksPath(f) <=> Agent(p) \in HookAgents
      BY <2>3, AtWork
    <3> HIDE DEF f
    <3>2. CASE Edits(p)
      <4>1. Agent(p) \in HookAgents /\ pc'[p] = "backup" /\ UNCHANGED disk
        BY <3>1, <3>2 DEF Edits, Moves, FileVars, RunInv
      <4>2. next'[p] \in Written(f)
        <5>1. disk[f].content \in {Missing, Foreign} \cup Contents
          BY <3>1, FileParts
        <5>2. Edited(call[p], disk[f].content) \in [kind : {"hooks"}, hooks : HookMaps]
          BY <3>1, <5>1, EditedType
        <5>3. Written(f) = [kind : {"hooks"}, hooks : HookMaps]
          BY <3>1, <4>1 DEF Written, f
        <5> QED
          BY <3>2, <5>2, <5>3 DEF Edits, f
      <4> QED
        BY <1>1, <1>2, <2>1, <3>1, <4>1, <4>2
    <3>3. CASE Generates(p)
      <4>1. Agent(p) \in PluginAgents /\ pc'[p] = "backup" /\ UNCHANGED disk
        BY <3>1, <3>3 DEF Generates, Moves, FileVars, RunInv
      <4>2. next'[p] \in Written(f)
        <5>1. Plugin(call[p].endpoint) \in [kind : {"plugin"}, endpoint : Endpoints]
          BY <3>1, <3>3 DEF Generates, Calls, Plugin
        <5>2. Written(f) = [kind : {"plugin"}, endpoint : Endpoints]
          BY <3>1, <4>1 DEF Written, f
        <5> QED
          BY <3>3, <5>1, <5>2 DEF Generates
      <4> QED
        BY <1>1, <1>2, <2>1, <3>1, <4>1, <4>2
    <3>4. CASE SkipsBackup(p) \/ ChmodsBackup(p)
      <4>1. /\ pc[p] \in Ahead /\ pc'[p] = "stage" /\ next'[p] = next[p] /\ UNCHANGED disk
        BY <3>1, <3>4 DEF SkipsBackup, ChmodsBackup, Moves, FileVars, Ahead, BackupSteps
      <4> QED
        BY <1>1, <1>2, <2>1, <3>1, <4>1 DEF f, Ahead
    <3>5. CASE ReadsBackup(p)
      <4>1. /\ pc[p] \in Ahead /\ pc'[p] = "renamebak" /\ next'[p] = next[p] /\ UNCHANGED disk
        BY <3>1, <3>5 DEF ReadsBackup, Moves, FileVars, Ahead, BackupSteps
      <4>2. staged'[p] # NoFile
        BY <3>5 DEF ReadsBackup, NoFile
      <4> QED
        BY <1>1, <1>2, <2>1, <3>1, <4>1, <4>2 DEF f
    <3>6. CASE RenamesBackup(p)
      <4>1. /\ pc[p] = "renamebak" /\ pc[p] \in Ahead /\ pc'[p] = "chmodbak"
            /\ next'[p] = next[p] /\ staged'[p] = staged[p] /\ UNCHANGED disk
            /\ bak' = [bak EXCEPT ![f] = [content |-> staged[p].content, mode |-> WriteMode(bak[f])]]
        BY <3>1, <3>6 DEF RenamesBackup, Moves, Ahead, BackupSteps, f
      <4>2. bak'[f] # NoFile
        <5>1. staged[p] # NoFile
          BY <1>1, <4>1
        <5>2. staged[p].content # Missing
          BY <3>1, <5>1, FileParts
        <5>3. bak'[f].content = staged[p].content
          BY <3>1, <4>1
        <5> QED
          BY <5>2, <5>3 DEF NoFile
      <4> QED
        BY <1>1, <1>2, <2>1, <3>1, <4>1, <4>2 DEF f
    <3>7. CASE Stages(p)
      <4>1. /\ pc[p] \in Ahead /\ pc'[p] = "rename" /\ staged'[p].content = next[p] /\ UNCHANGED disk
        BY <3>1, <3>7 DEF Stages, Moves, FileVars, Ahead
      <4> QED
        BY <1>1, <1>2, <2>1, <3>1, <4>1 DEF f, Ahead, BackupSteps
    <3>8. CASE Renames(p) \/ Removes(p)
      <4>1. pc'[p] = "unlock" /\ \E file : /\ disk' = [disk EXCEPT ![f] = file]
                                           /\ file.content \in {Missing, Foreign} \cup Written(f)
        BY <1>1, <3>1, <3>8 DEF Renames, Removes, Moves, f, NoFile
      <4>2. \A g \in Paths : disk'[g].content \in {Missing, Foreign} \cup Written(g)
        BY <1>1, <3>1, <4>1
      <4> QED
        BY <1>2, <2>1, <4>1, <4>2 DEF Ahead, BackupSteps
    <3>9. CASE Finds(p)
      <4>1. pc'[p] = "remove" /\ UNCHANGED disk
        BY <3>1, <3>9 DEF Finds, Moves, FileVars
      <4> QED
        BY <1>1, <1>2, <2>1, <4>1 DEF Ahead, BackupSteps
    <3> QED
      BY <2>3, <3>2, <3>3, <3>4, <3>5, <3>6, <3>7, <3>8, <3>9 DEF Works
  <2> QED
    BY <2>2, <2>3
<1> QED
  BY <1>3, <1>4, <1>5, StepShapes

\* What is about to be written is the edit of what is there.
LEMMA EditStep ==
  ASSUME TypeOK, RunInv, LockOwned, DiskInv, EditInv, [Next]_vars
  PROVE  EditInv'
<1> DEFINE Ed(q) == pc[q] \in Ahead \cup {"rename"} /\ File(q) \notin mixed =>
      /\ pc[q] \in Ahead => next[q] = Result(q)
      /\ pc[q] = "rename" => staged[q] = [content |-> Result(q), mode |-> WriteMode(disk[File(q)])]
      /\ Agent(q) \in HookAgents => /\ disk[File(q)].content # Foreign
                                    /\ call[q].op = "uninstall" => disk[File(q)].content # Missing
<1>1. \A q \in Procs : Ed(q)
  BY DEF EditInv
<1>2. (\A q \in Procs : Ed(q)') => EditInv'
  BY DEF EditInv
<1>w. \A q \in Procs : pc[q] \in Ahead \cup {"rename"} => Working(q)
  BY DEF Ahead, BackupSteps, Working
<1>r. ASSUME NEW q \in Procs, Agent(q)' = Agent(q), call'[q] = call[q], File(q)' = File(q),
             disk'[File(q)] = disk[File(q)]
      PROVE  Result(q)' = Result(q)
  BY <1>r DEF Result
<1>3. CASE Rests
  BY <1>3 DEF Rests, EditInv, FileVars, procVars, File, Agent, Result
<1>4. ASSUME NEW f \in Paths, NEW file, Writes(f, file) PROVE EditInv'
  <2>1. ASSUME NEW q \in Procs, pc'[q] \in Ahead \cup {"rename"}, File(q)' \notin mixed' PROVE Ed(q)'
    <3>1. /\ pc'[q] = pc[q] /\ next'[q] = next[q] /\ staged'[q] = staged[q] /\ call'[q] = call[q]
          /\ File(q)' = File(q) /\ Agent(q)' = Agent(q) /\ mixed \subseteq mixed'
      BY <1>4, UserStays DEF procVars
    <3>2. disk'[File(q)] = disk[File(q)]
      BY <1>4, <1>w, <2>1, <3>1, UserStays
    <3>3. Result(q)' = Result(q)
      BY <1>r, <3>1, <3>2
    <3> QED
      BY <1>1, <2>1, <3>1, <3>2, <3>3
  <2> QED
    BY <1>2, <2>1
<1>5. ASSUME NEW p \in Procs, Acts(p) PROVE EditInv'
  <2>1. ASSUME NEW q \in Procs, q # p, pc'[q] \in Ahead \cup {"rename"} PROVE Ed(q)'
    <3>1. /\ pc'[q] = pc[q] /\ next'[q] = next[q] /\ staged'[q] = staged[q] /\ call'[q] = call[q]
          /\ File(q)' = File(q) /\ Agent(q)' = Agent(q) /\ mixed = mixed'
      BY <1>5, <2>1, OthersStay
    <3>2. disk'[File(q)] = disk[File(q)]
      BY <1>5, <1>w, <2>1, <3>1, OthersStay
    <3>3. Result(q)' = Result(q)
      BY <1>r, <3>1, <3>2
    <3> QED
      BY <1>1, <3>1, <3>2, <3>3
  <2>2. ASSUME pc'[p] \in Ahead \cup {"rename"}, File(p)' \notin mixed' PROVE Ed(p)'
    <3>1. Works(p)
      BY <1>5, <2>2 DEF Acts, Begins, Locks, Ends, Moves, TypeOK, Ahead, BackupSteps
    <3>2. /\ call' = call /\ pc \in [Procs -> Steps] /\ File(p) \notin mixed
          /\ Agent(p) \in HookAgents \cup PluginAgents /\ HookAgents \cap PluginAgents = {}
          /\ Agent(p)' = Agent(p) /\ File(p)' = File(p)
      BY <2>2, <3>1, AtWork
    <3>3. disk' = disk
      BY <2>2, <3>1, <3>2
      DEF Works, Edits, Generates, SkipsBackup, ReadsBackup, RenamesBackup, ChmodsBackup, Stages, Renames,
          Finds, Removes, Moves, FileVars, Ahead, BackupSteps
    <3>4. Result(p)' = Result(p)
      BY <1>r, <3>2, <3>3
    <3>5. CASE Edits(p)
      <4>1. /\ Agent(p) \in HookAgents /\ pc'[p] = "backup" /\ next'[p] = Edited(call[p], disk[File(p)].content)
            /\ disk[File(p)].content # Foreign /\ (call[p].op = "uninstall" => disk[File(p)].content # Missing)
        BY <3>2, <3>5 DEF Edits, Moves, RunInv
      <4> QED
        BY <3>2, <3>3, <3>4, <4>1 DEF Result
    <3>6. CASE Generates(p)
      <4>1. Agent(p) \in PluginAgents /\ pc'[p] = "backup" /\ next'[p] = Plugin(call[p].endpoint)
        BY <3>2, <3>6 DEF Generates, Moves, RunInv
      <4> QED
        BY <3>2, <3>3, <3>4, <4>1 DEF Result
    <3>7. CASE SkipsBackup(p) \/ ReadsBackup(p) \/ RenamesBackup(p) \/ ChmodsBackup(p)
      <4>1. pc[p] \in Ahead /\ pc'[p] \in Ahead /\ next'[p] = next[p] /\ pc'[p] # "rename"
        BY <3>2, <3>7
        DEF SkipsBackup, ReadsBackup, RenamesBackup, ChmodsBackup, Moves, Ahead, BackupSteps
      <4> QED
        BY <1>1, <3>2, <3>3, <3>4, <4>1
    <3>8. CASE Stages(p)
      <4>1. /\ pc[p] \in Ahead /\ pc'[p] = "rename" /\ pc'[p] \notin Ahead
            /\ staged'[p] = [content |-> next[p], mode |-> WriteMode(disk[File(p)])]
        BY <3>2, <3>8 DEF Stages, Moves, Ahead, BackupSteps
      <4> QED
        BY <1>1, <3>2, <3>3, <3>4, <4>1
    <3>9. ~Renames(p) /\ ~Finds(p) /\ ~Removes(p)
      BY <2>2, <3>2 DEF Renames, Finds, Removes, Moves, Ahead, BackupSteps
    <3> QED
      BY <3>1, <3>5, <3>6, <3>7, <3>8, <3>9 DEF Works
  <2> QED
    BY <1>2, <2>1, <2>2
<1> QED
  BY <1>3, <1>4, <1>5, StepShapes

\* The backup is one of what is there.
LEMMA BackStep ==
  ASSUME TypeOK, RunInv, LockOwned, DiskInv, BackInv, [Next]_vars
  PROVE  BackInv'
<1> DEFINE Bk(q) == Working(q) /\ Agent(q) \in HookAgents /\ File(q) \notin mixed =>
      /\ pc[q] \in {"renamebak", "chmodbak"} => staged[q] = disk[File(q)]
      /\ pc[q] = "chmodbak" => bak[File(q)].content = disk[File(q)].content
      /\ pc[q] \in {"stage", "rename"} =>
           disk[File(q)].content = Missing \/ bak[File(q)] = disk[File(q)]
<1>1. \A q \in Procs : Bk(q)
  BY DEF BackInv
<1>2. (\A q \in Procs : Bk(q)') => BackInv'
  BY DEF BackInv
<1>3. CASE Rests
  BY <1>3 DEF Rests, BackInv, Working, FileVars, procVars, File, Agent
<1>4. ASSUME NEW f \in Paths, NEW file, Writes(f, file) PROVE BackInv'
  <2>1. ASSUME NEW q \in Procs, Working(q)', File(q)' \notin mixed' PROVE Bk(q)'
    <3>1. /\ pc'[q] = pc[q] /\ staged'[q] = staged[q] /\ bak' = bak
          /\ File(q)' = File(q) /\ Agent(q)' = Agent(q) /\ mixed \subseteq mixed'
      BY <1>4, UserStays DEF procVars
    <3>2. disk'[File(q)] = disk[File(q)]
      BY <1>4, <2>1, <3>1, UserStays DEF Working
    <3> QED
      BY <1>1, <2>1, <3>1, <3>2 DEF Working
  <2> QED
    BY <1>2, <2>1
<1>5. ASSUME NEW p \in Procs, Acts(p) PROVE BackInv'
  <2>1. ASSUME NEW q \in Procs, q # p, Working(q)' PROVE Bk(q)'
    <3>1. /\ pc'[q] = pc[q] /\ staged'[q] = staged[q]
          /\ File(q)' = File(q) /\ Agent(q)' = Agent(q) /\ mixed = mixed'
      BY <1>5, <2>1, OthersStay
    <3>2. Working(q) /\ disk'[File(q)] = disk[File(q)] /\ bak'[File(q)] = bak[File(q)]
      BY <1>5, <2>1, <3>1, OthersStay DEF Working
    <3> QED
      BY <1>1, <3>1, <3>2
  <2>2. ASSUME pc'[p] \in {"renamebak", "chmodbak", "stage", "rename"},
               Agent(p)' \in HookAgents, File(p)' \notin mixed'
        PROVE  Bk(p)'
    <3>1. Works(p)
      BY <1>5, <2>2 DEF Acts, Begins, Locks, Ends, Moves, TypeOK
    <3> DEFINE f == File(p)
    <3>2. /\ pc \in [Procs -> Steps] /\ f \in Paths /\ f \notin mixed /\ staged[p] \in Files
          /\ disk[f] \in Files /\ bak[f] \in Files /\ bak \in [Paths -> Files]
          /\ Agent(p) \in HookAgents /\ File(p)' = f /\ Working(p)
      BY <2>2, <3>1, AtWork, WorksOn
    <3> HIDE DEF f
    <3>4. CASE SkipsBackup(p)
      <4>1. pc'[p] = "stage" /\ disk' = disk /\ disk[f].content = Missing
        BY <3>2, <3>4 DEF SkipsBackup, Moves, FileVars, f
      <4> QED
        BY <3>2, <4>1
    <3>5. CASE ReadsBackup(p)
      <4>1. pc'[p] = "renamebak" /\ disk' = disk /\ staged'[p] = disk[f]
        BY <3>2, <3>5 DEF ReadsBackup, Moves, FileVars, f
      <4> QED
        BY <3>2, <4>1
    <3>6. CASE RenamesBackup(p)
      <4>1. /\ pc[p] = "renamebak" /\ pc'[p] = "chmodbak" /\ disk' = disk /\ staged'[p] = staged[p]
            /\ bak' = [bak EXCEPT ![f] = [content |-> staged[p].content, mode |-> WriteMode(bak[f])]]
        BY <3>2, <3>6 DEF RenamesBackup, Moves, f
      <4>2. staged[p] = disk[f]
        BY <1>1, <3>2, <4>1 DEF f
      <4>3. bak'[f].content = disk[f].content
        BY <3>2, <4>1, <4>2
      <4> QED
        BY <3>2, <4>1, <4>2, <4>3
    <3>7. CASE ChmodsBackup(p)
      <4>1. /\ pc[p] = "chmodbak" /\ pc'[p] = "stage" /\ disk' = disk
            /\ bak' = [bak EXCEPT ![f] = [bak[f] EXCEPT !.mode = staged[p].mode]]
        BY <3>2, <3>7 DEF ChmodsBackup, Moves, f
      <4>2. staged[p] = disk[f] /\ bak[f].content = disk[f].content
        BY <1>1, <3>2, <4>1 DEF f
      <4>3. bak'[f] = [bak[f] EXCEPT !.mode = staged[p].mode]
        BY <3>2, <4>1
      <4>4. /\ bak[f] = [content |-> bak[f].content, mode |-> bak[f].mode]
            /\ disk[f] = [content |-> disk[f].content, mode |-> disk[f].mode]
        BY <3>2, FileParts
      <4>5. [bak[f] EXCEPT !.mode = staged[p].mode] = [content |-> bak[f].content, mode |-> staged[p].mode]
        BY <4>4
      <4>6. bak'[f] = disk[f]
        BY <4>2, <4>3, <4>4, <4>5
      <4> QED
        BY <3>2, <4>1, <4>6
    <3>8. CASE Stages(p)
      <4>1. /\ pc[p] = "stage" /\ pc'[p] = "rename" /\ disk' = disk /\ bak' = bak
        BY <3>2, <3>8 DEF Stages, Moves, FileVars
      <4> QED
        BY <1>1, <3>2, <4>1 DEF f
    <3>9. ~Edits(p) /\ ~Generates(p) /\ ~Renames(p) /\ ~Finds(p) /\ ~Removes(p)
      BY <2>2, <3>2 DEF Edits, Generates, Renames, Finds, Removes, Moves
    <3> QED
      BY <3>1, <3>4, <3>5, <3>6, <3>7, <3>8, <3>9 DEF Works
  <2> QED
    BY <1>2, <2>1, <2>2
<1> QED
  BY <1>3, <1>4, <1>5, StepShapes

-----------------------------------------------------------------------------
\* The inductive invariant.

\* The inductive invariant holds at first ...
LEMMA IInvInit ==
  ASSUME Init
  PROVE  IInv
<1>1. \A p \in Procs : pc[p] = "idle"
  BY DEF Init
<1>2. TypeOK
  <2>1. \A f \in Paths : disk[f] \in Files
    BY UserFilesType DEF Init
  <2>2. disk \in [Paths -> Files]
    BY <2>1 DEF Init
  <2>3. NoFile \in Files /\ <<>> \in Seq(Agents) /\ "idle" \in Steps
    BY EmptySeq DEF Files, Steps
  <2>4. calls \in 0 .. MaxCalls /\ upsets \in 0 .. MaxUpsets
    BY InstallerAssumption DEF Init
  <2>5. promised \in [Agents -> [Markers -> Endpoints \cup {Nothing}]]
    BY DEF Init
  <2>6. /\ pc \in [Procs -> Steps] /\ call \in [Procs -> Calls \cup {NoCall}]
        /\ todo \in [Procs -> Seq(Agents)]
        /\ next \in [Procs -> {Missing} \cup Contents] /\ staged \in [Procs -> Files]
    BY <2>3 DEF Init
  <2>7. /\ bak \in [Paths -> Files] /\ lock \in [Paths -> Procs \cup {NoProc}] /\ mixed \subseteq Paths
    BY <2>3 DEF Init
  <2> QED
    BY <2>2, <2>4, <2>5, <2>6, <2>7 DEF TypeOK
<1>3. RunInv
  BY <1>1 DEF RunInv, Working, Ahead, BackupSteps
<1>4. LockOwned
  BY <1>1, InstallerAssumption DEF LockOwned, Init
<1>5. DiskInv
  <2>1. \A f \in Paths : disk[f].content \in {Missing, Foreign} \cup Written(f)
    BY UserFilesType DEF Init
  <2> QED
    BY <1>1, <2>1 DEF DiskInv, Ahead, BackupSteps
<1>6. EditInv /\ BackInv
  BY <1>1 DEF EditInv, BackInv, Working, Ahead, BackupSteps
<1> QED
  BY <1>2, <1>3, <1>4, <1>5, <1>6 DEF IInv

\* ... and every step keeps it.
LEMMA IInvStep ==
  ASSUME IInv, [Next]_vars
  PROVE  IInv'
<1>1. TypeOK /\ RunInv /\ LockOwned /\ DiskInv /\ EditInv /\ BackInv
  BY DEF IInv
<1>2. TypeOK' /\ RunInv' /\ LockOwned'
  BY <1>1, TypeStep, RunStep, LockStep
<1>3. DiskInv' /\ EditInv' /\ BackInv'
  BY <1>1, DiskStep, EditStep, BackStep
<1> QED
  BY <1>2, <1>3 DEF IInv

\* The inductive invariant holds: types, the place of every call, the flocks, and what the
\* edits and the backups under way have to do with the files.
THEOREM Invariance == Spec => []IInv
<1>1. Init => IInv
  BY IInvInit
<1>2. IInv /\ [Next]_vars => IInv'
  BY IInvStep
<1> QED
  BY <1>1, <1>2, PTL DEF Spec

\* Everything stays well typed.
THEOREM TypeCorrect == Spec => []TypeOK
<1>1. IInv => TypeOK
  BY DEF IInv
<1> QED
  BY <1>1, Invariance, PTL

\* A flock is held by a process at work on that file and by no other, whatever fails and
\* whoever crashes (configfile.Lock and its deferred unlock).
THEOREM LocksOwned == Spec => []LockOwned
<1>1. IInv => LockOwned
  BY DEF IInv
<1> QED
  BY <1>1, Invariance, PTL

-----------------------------------------------------------------------------
\* What a replaced file has to do with the one before it.

\* The step that replaces a file.
LEMMA TheReplacement ==
  ASSUME IInv, [Next]_vars, NEW p \in Procs, Replaces(p)
  PROVE  /\ Renames(p) /\ Works(p) /\ Working(p)
         /\ File(p) \in Paths /\ disk[File(p)] \in Files
         /\ disk' = [disk EXCEPT ![File(p)] = staged[p]] /\ disk \in [Paths -> Files]
         /\ call[p] \in Calls /\ Agent(p) \in HookAgents \cup PluginAgents
         /\ IsHooksPath(File(p)) <=> Agent(p) \in HookAgents
<1>1. TypeOK /\ RunInv /\ LockOwned /\ DiskInv /\ pc \in [Procs -> Steps]
  BY DEF IInv, TypeOK
<1>2. pc[p] = "rename" /\ pc'[p] = "unlock"
  BY DEF Replaces
<1>3. ~Rests /\ \A f \in Paths : \A file : ~Writes(f, file)
  BY <1>2 DEF Rests, Writes, procVars
<1>4. \A q \in Procs : Acts(q) => q = p
  BY <1>1, <1>2, OthersStay
<1>5. Acts(p)
  BY <1>1, <1>3, <1>4, StepShapes
<1>6. Works(p)
  BY <1>1, <1>2, <1>5 DEF Acts, Begins, Locks, Ends, Moves
<1>7. Renames(p)
  BY <1>1, <1>2, <1>6
  DEF Works, Edits, Generates, SkipsBackup, ReadsBackup, RenamesBackup, ChmodsBackup, Stages, Renames,
      Finds, Removes, Moves, BackupSteps
<1> QED
  BY <1>1, <1>6, <1>7, AtWork, WorksOn DEF Renames

\* Every edit of a hooks file is made of its present content and keeps its mode: no torn
\* file and no lost update (the flock of configfile.Lock, and the read under it).
THEOREM EditsAreAtomic == Spec => AtomicEdits
<1>1. IInv /\ [Next]_vars =>
        \A p \in Procs :
          Replaces(p) /\ File(p) \notin mixed /\ Agent(p) \in HookAgents =>
            /\ disk'[File(p)].content = Edited(call[p], disk[File(p)].content)
            /\ disk'[File(p)].mode =
                 IF disk[File(p)].content = Missing THEN "0644" ELSE disk[File(p)].mode
  <2> SUFFICES ASSUME IInv, [Next]_vars, NEW p \in Procs,
                      Replaces(p), File(p) \notin mixed, Agent(p) \in HookAgents
               PROVE  /\ disk'[File(p)].content = Edited(call[p], disk[File(p)].content)
                      /\ disk'[File(p)].mode =
                           IF disk[File(p)].content = Missing THEN "0644" ELSE disk[File(p)].mode
    OBVIOUS
  <2>1. staged[p] = [content |-> Result(p), mode |-> WriteMode(disk[File(p)])]
    BY DEF IInv, EditInv, Replaces
  <2>2. Result(p) = Edited(call[p], disk[File(p)].content)
    BY DEF Result
  <2>3. disk'[File(p)] = staged[p]
    BY TheReplacement
  <2> QED
    BY <2>1, <2>2, <2>3 DEF WriteMode
<1> QED
  BY <1>1, Invariance, PTL DEF Spec, AtomicEdits

\* A hooks file is replaced only when its backup holds what it was (Backup is called before
\* Write by both functions of the Claude and the Codex adapters).
THEOREM BackedUpFirst == Spec => BackedUp
<1>1. IInv /\ [Next]_vars =>
        \A p \in Procs :
          Replaces(p) /\ File(p) \notin mixed /\ Agent(p) \in HookAgents =>
            disk[File(p)].content = Missing \/ bak[File(p)] = disk[File(p)]
  BY TheReplacement DEF IInv, BackInv, Replaces
<1> QED
  BY <1>1, Invariance, PTL DEF Spec, BackedUp

\* What the edit makes of the hooks it read.
Edit(c, hooks) == IF c.op = "install" THEN ApplyInstall(hooks, c.marker, c.endpoint)
                  ELSE ApplyUninstall(hooks, c.marker)

\* A call has a consumer, and an endpoint or nothing.
LEMMA CallParts ==
  ASSUME NEW c \in Calls
  PROVE  /\ c.marker \in Markers
         /\ c.op = "install" => c.endpoint \in Endpoints /\ c.endpoint # Nothing
         /\ c.op # "install" => c.op = "uninstall" /\ c.endpoint = Nothing
  BY InstallerAssumption DEF Calls

\* What the files read as.
LEMMA ReadsAs ==
  ASSUME NEW content \in {Missing} \cup [kind : {"hooks"}, hooks : HookMaps], NEW c
  PROVE  /\ HooksOf(content) \in HookMaps
         /\ Edited(c, content) = HooksFile(Edit(c, HooksOf(content)))
         /\ content.kind = "hooks" => HooksOf(content) = content.hooks
         /\ content.kind # "hooks" => content = Missing /\ HooksOf(content) = NoHooks
<1>1. NoHooks \in HookMaps
  <2>1. <<>> \in Seq(GroupSet)
    BY EmptySeq
  <2>2. NoGroups \in EventValues
    BY <2>1 DEF NoGroups, EventValues
  <2> QED
    BY <2>2 DEF NoHooks, HookMaps
<1>2. Edited(c, content) = HooksFile(Edit(c, HooksOf(content)))
  BY DEF Edited, Edit
<1> QED
  BY <1>1, <1>2 DEF HooksOf, Missing

\* An edit leaves the entries of the others as they are and in their order.
LEMMA EditSparesOthers ==
  ASSUME NEW c \in Calls, NEW hooks \in HookMaps, NEW e \in Events
  PROVE  SameOthers(hooks[e], Edit(c, hooks)[e], c.marker)
<1>1. CASE c.op = "install"
  BY <1>1, CallParts, InstallSparesOthers DEF Edit
<1>2. CASE c.op # "install"
  BY <1>2, CallParts, UninstallRemovesOwn DEF Edit
<1> QED
  BY <1>1, <1>2

\* An install or an uninstall keeps the entries of the user and of the other consumers, and
\* the other files (the merge of applyInstall and the filter of applyUninstall).
THEOREM OthersUntouched == Spec => OthersKept
<1>1. IInv /\ [Next]_vars =>
        \A p \in Procs :
          Replaces(p) /\ File(p) \notin mixed =>
            /\ \A f \in Paths \ {File(p)} : disk'[f] = disk[f]
            /\ disk[File(p)].content.kind = "hooks" =>
                 \A e \in Events :
                   SameOthers(disk[File(p)].content.hooks[e], disk'[File(p)].content.hooks[e],
                              call[p].marker)
  <2> SUFFICES ASSUME IInv, [Next]_vars, NEW p \in Procs, Replaces(p), File(p) \notin mixed
               PROVE  /\ \A f \in Paths \ {File(p)} : disk'[f] = disk[f]
                      /\ disk[File(p)].content.kind = "hooks" =>
                           \A e \in Events :
                             SameOthers(disk[File(p)].content.hooks[e],
                                        disk'[File(p)].content.hooks[e], call[p].marker)
    OBVIOUS
  <2>1. \A f \in Paths \ {File(p)} : disk'[f] = disk[f]
    BY TheReplacement
  <2>2. ASSUME disk[File(p)].content.kind = "hooks", NEW e \in Events
        PROVE  SameOthers(disk[File(p)].content.hooks[e], disk'[File(p)].content.hooks[e],
                          call[p].marker)
    <3>1. PICK content : content = disk[File(p)].content
      OBVIOUS
    <3>2. content \in [kind : {"hooks"}, hooks : HookMaps] /\ Agent(p) \in HookAgents
      <4>1. content \in {Missing, Foreign} \cup Written(File(p))
        BY <3>1, TheReplacement DEF IInv, DiskInv
      <4> QED
        BY <2>2, <3>1, <4>1, TheReplacement DEF Missing, Foreign, Written
    <3>3. disk'[File(p)].content = Edited(call[p], content)
      <4>1. staged[p] = [content |-> Result(p), mode |-> WriteMode(disk[File(p)])]
        BY DEF IInv, EditInv, Replaces
      <4>2. disk'[File(p)] = staged[p]
        BY TheReplacement
      <4> QED
        BY <3>1, <3>2, <4>1, <4>2 DEF Result
    <3>4. content.hooks \in HookMaps /\ Edited(call[p], content) = HooksFile(Edit(call[p], content.hooks))
      BY <3>2, ReadsAs
    <3>5. SameOthers(content.hooks[e], Edit(call[p], content.hooks)[e], call[p].marker)
      BY <3>4, EditSparesOthers, TheReplacement
    <3> QED
      BY <3>1, <3>3, <3>4, <3>5 DEF HooksFile
  <2> QED
    BY <2>1, <2>2
<1> QED
  BY <1>1, Invariance, PTL DEF Spec, OthersKept

-----------------------------------------------------------------------------
\* Consumers' hooks in place.

\* No hooks at all are what is in place for nothing.
LEMMA NothingInPlace ==
  ASSUME NEW m
  PROVE  InPlace(NoHooks, m, Nothing)
<1>1. NoGroups.groups = <<>> /\ DOMAIN <<>> = {}
  BY DEF NoGroups
<1>2. Spots(NoGroups) = {}
  BY <1>1 DEF Spots
<1>3. SpotsOf(NoGroups, m) = {}
  BY <1>2 DEF SpotsOf
<1> QED
  BY <1>3 DEF InPlace, NoHooks

\* The consumer that installs or uninstalls gets its hooks in place.
LEMMA OwnEdit ==
  ASSUME NEW c \in Calls, NEW hooks \in HookMaps, NEW old, InPlace(hooks, c.marker, old)
  PROVE  InPlace(Edit(c, hooks), c.marker, c.endpoint)
<1>1. ASSUME c.op = "install", NEW e \in Events
      PROVE  IF e \in InstalledEvents THEN HasOne(ApplyInstall(hooks, c.marker, c.endpoint)[e], c.marker, c.endpoint)
             ELSE SpotsOf(ApplyInstall(hooks, c.marker, c.endpoint)[e], c.marker) = {}
  <2>1. c.marker \in Markers /\ c.endpoint \in Endpoints
    BY <1>1, CallParts
  <2>2. SpotsOf(hooks[e], c.marker) = {} \/ (e \in InstalledEvents /\ HasOne(hooks[e], c.marker, old))
    BY DEF InPlace
  <2>3. CASE e \in InstalledEvents
    <3>1. HasOne(InstallEvent(hooks[e], c.marker, c.endpoint), c.marker, c.endpoint)
      BY <2>1, <2>2, InstalledValue, InstalledOnce
    <3> QED
      BY <2>1, <2>3, <3>1, InstalledValue
  <2>4. CASE e \notin InstalledEvents
    BY <2>1, <2>2, <2>4, InstalledValue
  <2> QED
    BY <2>3, <2>4
<1>2. CASE c.op = "install"
  BY <1>1, <1>2, CallParts DEF InPlace, Edit
<1>3. CASE c.op # "install"
  BY <1>3, CallParts, UninstallRemovesOwn DEF InPlace, Edit
<1> QED
  BY <1>2, <1>3

\* The others keep theirs.
LEMMA OthersEdit ==
  ASSUME NEW c \in Calls, NEW hooks \in HookMaps, NEW m, m # c.marker, NEW x, InPlace(hooks, m, x)
  PROVE  InPlace(Edit(c, hooks), m, x)
<1> SUFFICES ASSUME NEW e \in Events
             PROVE  IF x # Nothing /\ e \in InstalledEvents THEN HasOne(Edit(c, hooks)[e], m, x)
                    ELSE SpotsOf(Edit(c, hooks)[e], m) = {}
  BY DEF InPlace
<1>1. SameOthers(hooks[e], Edit(c, hooks)[e], c.marker)
  BY EditSparesOthers
<1>2. /\ SpotsOf(hooks[e], m) = {} => SpotsOf(Edit(c, hooks)[e], m) = {}
      /\ HasOne(hooks[e], m, x) => HasOne(Edit(c, hooks)[e], m, x)
  BY <1>1, OthersSpared
<1> QED
  BY <1>2 DEF InPlace

\* A hook the user adds is nobody's.
LEMMA UserHookEdit ==
  ASSUME NEW hooks \in HookMaps, NEW e \in Events, NEW m \in Markers, NEW x, InPlace(hooks, m, x)
  PROVE  InPlace(WithUserHook(hooks, e), m, x)
<1> DEFINE entry == [marker |-> NoMarker, command |-> UserCommand]
           value == hooks[e]
           new == WithUserHook(hooks, e)[e]
<1>1. UserGroup \in GroupSet /\ UserGroup.inner = <<entry>>
  <2>1. entry \in Entries
    BY DEF Entries
  <2>2. <<entry>> \in Seq(Entries)
    BY <2>1
  <2> QED
    BY <2>2, AGroup DEF UserGroup
<1>2. value \in EventValues
  BY DEF HookMaps
<1>3. new.groups = Append(value.groups, UserGroup)
  BY DEF WithUserHook, HookMaps
<1>4. \A d \in Events : d # e => WithUserHook(hooks, e)[d] = hooks[d]
  BY DEF WithUserHook, HookMaps
<1>5. entry.marker # m
  BY HookMergeAssumption DEF NoMarker
<1> HIDE DEF new, value, entry
<1>6. PICK t : /\ Spots(new) = Spots(value) \cup {t} /\ t \notin Spots(value)
               /\ \A s \in Spots(value) : EntryAt(new, s) = EntryAt(value, s)
               /\ EntryAt(new, t) = entry
  BY <1>1, <1>2, <1>3, AppendedGroup
<1>7. SpotsOf(new, m) = SpotsOf(value, m)
  BY <1>5, <1>6 DEF SpotsOf
<1>8. HasOne(value, m, x) => HasOne(new, m, x)
  BY <1>6, <1>7 DEF HasOne
<1>9. IF x # Nothing /\ e \in InstalledEvents THEN HasOne(new, m, x) ELSE SpotsOf(new, m) = {}
  BY <1>7, <1>8 DEF InPlace, value
<1> QED
  BY <1>4, <1>9 DEF InPlace, new

-----------------------------------------------------------------------------
\* Promises are kept.

\* Two processes do not work on the same file.
LEMMA OneAtWork ==
  ASSUME TypeOK, RunInv, LockOwned, NEW p \in Procs, NEW q \in Procs, Working(p), Working(q),
         File(p) = File(q)
  PROVE  p = q
<1>1. File(p) \in Paths
  BY FileIsPath
<1> QED
  BY <1>1 DEF LockOwned, Working

\* A file that is about to be replaced holds what its consumers were promised.
LEMMA HoldsBefore ==
  ASSUME IInv, PromiseKept, NEW p \in Procs, Working(p), pc[p] # "unlock", File(p) \notin mixed,
         NEW m \in Markers, Path(Agent(p), m) = File(p)
  PROVE  Holds(disk[File(p)].content, m, promised[Agent(p)][m])
<1>1. TypeOK /\ RunInv /\ LockOwned
  BY DEF IInv
<1>2. Agent(p) \in HookAgents \cup PluginAgents
  BY <1>1, FileIsPath
<1>3. ASSUME NEW q \in Procs, Changed(q, File(p)) PROVE FALSE
  <2>1. Working(q) /\ File(q) = File(p) /\ pc[q] = "unlock"
    BY <1>3 DEF Changed, Working
  <2> QED
    BY <1>1, <2>1, OneAtWork
<1> QED
  BY <1>2, <1>3 DEF PromiseKept

\* The file that replaces it has the call done, and the other promises kept.
LEMMA RenamedHolds ==
  ASSUME IInv, PromiseKept, NEW p \in Procs, pc[p] = "rename", File(p) \notin mixed,
         NEW m \in Markers, Path(Agent(p), m) = File(p)
  PROVE  /\ m = call[p].marker => Holds(staged[p].content, m, call[p].endpoint)
         /\ m # call[p].marker => Holds(staged[p].content, m, promised[Agent(p)][m])
<1> DEFINE x == promised[Agent(p)][m]
<1>1. TypeOK /\ RunInv /\ LockOwned /\ Working(p)
  BY DEF IInv, Working
<1>2. call[p] \in Calls /\ Agent(p) \in HookAgents \cup PluginAgents /\ File(p) \in Paths
      /\ File(p) = Path(Agent(p), call[p].marker)
  BY <1>1, FileIsPath
<1>3. PICK content : content = disk[File(p)].content
  OBVIOUS
<1>4. Holds(content, m, x)
  BY <1>1, <1>3, HoldsBefore
<1>5. staged[p].content = Result(p)
  <2>1. staged[p] = [content |-> Result(p), mode |-> WriteMode(disk[File(p)])]
    BY DEF IInv, EditInv
  <2> QED
    BY <2>1
<1> HIDE DEF x
<1>6. CASE Agent(p) \in HookAgents
  <2>1. content \in {Missing} \cup [kind : {"hooks"}, hooks : HookMaps]
    <3>1. content \in {Missing, Foreign} \cup Written(File(p))
      BY <1>2, <1>3 DEF IInv, DiskInv
    <3>2. content # Foreign
      BY <1>3, <1>6 DEF IInv, EditInv
    <3>3. IsHooksPath(File(p))
      BY <1>2, <1>6, PathKinds
    <3> QED
      BY <3>1, <3>2, <3>3 DEF Written
  <2>2. PICK hooks \in HookMaps : hooks = HooksOf(content)
    BY <2>1, ReadsAs
  <2>3. InPlace(hooks, m, x)
    <3>1. CASE content.kind = "hooks"
      BY <1>4, <2>1, <2>2, <3>1, ReadsAs DEF Holds
    <3>2. CASE content.kind # "hooks"
      <4>1. content = Missing /\ hooks = NoHooks
        BY <2>1, <2>2, <3>2, ReadsAs
      <4>2. x = Nothing
        BY <1>4, <4>1 DEF Holds, Missing
      <4> QED
        BY <4>1, <4>2, NothingInPlace
    <3> QED
      BY <3>1, <3>2
  <2>4. staged[p].content = HooksFile(Edit(call[p], hooks))
    BY <1>3, <1>5, <1>6, <2>1, <2>2, ReadsAs DEF Result
  <2>5. CASE m = call[p].marker
    <3>1. InPlace(Edit(call[p], hooks), m, call[p].endpoint)
      BY <1>2, <2>3, <2>5, OwnEdit
    <3> QED
      BY <2>4, <2>5, <3>1 DEF Holds, HooksFile
  <2>6. CASE m # call[p].marker
    <3>1. InPlace(Edit(call[p], hooks), m, x)
      BY <1>2, <2>3, <2>6, OthersEdit
    <3> QED
      BY <2>4, <2>6, <3>1 DEF Holds, HooksFile, x
  <2> QED
    BY <2>5, <2>6
<1>7. CASE Agent(p) \notin HookAgents
  <2>1. m = call[p].marker
    BY <1>2, <1>7, PathsDiffer
  <2>2. staged[p].content = Plugin(call[p].endpoint)
    BY <1>5, <1>7 DEF Result
  <2> QED
    BY <2>1, <2>2 DEF Holds, Plugin
<1> QED
  BY <1>6, <1>7

\* A file that the user has restored holds nothing for any consumer.
LEMMA RestoredHolds ==
  ASSUME UsersOwn, NEW f, NEW file \in UserFiles(f), NEW m \in Markers
  PROVE  Holds(file.content, m, Nothing)
<1>1. CASE file = NoFile
  BY <1>1 DEF NoFile, Missing, Holds
<1>2. CASE file.content = Foreign
  BY <1>2 DEF Foreign, Holds
<1>3. ASSUME NEW h \in UserHooks, file.content = HooksFile(h) PROVE Holds(file.content, m, Nothing)
  <2>1. InPlace(h, m, Nothing)
    BY DEF UsersOwn, InPlace
  <2> QED
    BY <1>3, <2>1 DEF Holds, HooksFile
<1> QED
  BY <1>1, <1>2, <1>3 DEF UserFiles

\* A call that keeps its promise has the file hold it.
LEMMA HoldsAtEnd ==
  ASSUME IInv, DoneInv, Within = {}, NEW p \in Procs, HasKept(p), File(p) \notin mixed
  PROVE  Holds(disk[File(p)].content, call[p].marker, call[p].endpoint)
<1>1. TypeOK /\ RunInv
  BY DEF IInv
<1>2. call[p] \in Calls
  BY <1>1, FileIsPath, KeptWorks
<1>3. CASE pc[p] = "unlock"
  BY <1>3 DEF DoneInv
<1>4. CASE \/ pc[p] = "read" /\ call[p].op = "uninstall" /\ disk[File(p)].content = Missing
           \/ PluginMissing(p)
  <2>1. disk[File(p)].content = Missing /\ call[p].op = "uninstall"
    BY <1>4 DEF PluginMissing, UninstallPlugin
  <2>2. call[p].endpoint = Nothing
    BY <1>2, <2>1, CallParts
  <2> QED
    BY <2>1, <2>2 DEF Holds, Missing
<1>5. CASE PluginUpToDate(p)
  <2>1. EndpointMatches(disk[File(p)].content, call[p].endpoint)
    BY <1>5 DEF PluginUpToDate
  <2> QED
    BY <2>1 DEF EndpointMatches, Holds
<1> QED
  BY <1>3, <1>4, <1>5 DEF HasKept

\* What a file holds for a consumer, or why nothing is said of it.
Slot(a, m) ==
  \/ Path(a, m) \in mixed
  \/ \E p \in Procs : Changed(p, Path(a, m)) /\ call[p].marker = m
  \/ Holds(disk[Path(a, m)].content, m, promised[a][m])

Done(p) == pc[p] = "unlock" /\ File(p) \notin mixed =>
             Holds(disk[File(p)].content, call[p].marker, call[p].endpoint)

\* A step of a process leaves alone what others have changed.
LEMMA OthersChanged ==
  ASSUME IInv, NEW p \in Procs, Acts(p), NEW q \in Procs, q # p
  PROVE  /\ call'[q] = call[q] /\ \A f : Changed(q, f)' <=> Changed(q, f)
         /\ Done(q) => Done(q)'
<1>1. TypeOK /\ RunInv /\ LockOwned
  BY DEF IInv
<1>2. /\ pc'[q] = pc[q] /\ call'[q] = call[q] /\ File(q)' = File(q) /\ mixed' = mixed
      /\ Working(q) => disk'[File(q)] = disk[File(q)]
  BY <1>1, OthersStay
<1> QED
  BY <1>2 DEF Changed, Done, Working

\* A step that changes no file, by a process that had no change made.
LEMMA SlotStays ==
  ASSUME IInv, NEW p \in Procs, Acts(p), NEW a, NEW m, Slot(a, m),
         mixed' = mixed, disk'[Path(a, m)] = disk[Path(a, m)], promised'[a][m] = promised[a][m],
         ~Changed(p, Path(a, m)) \/ call[p].marker # m
  PROVE  Slot(a, m)'
<1>1. CASE \E q \in Procs : Changed(q, Path(a, m)) /\ call[q].marker = m
  <2>1. PICK q \in Procs : Changed(q, Path(a, m)) /\ call[q].marker = m
    BY <1>1
  <2>2. Changed(q, Path(a, m))' /\ call'[q].marker = m
    BY <2>1, OthersChanged
  <2> QED
    BY <2>2 DEF Slot
<1>2. CASE ~\E q \in Procs : Changed(q, Path(a, m)) /\ call[q].marker = m
  BY <1>2 DEF Slot
<1> QED
  BY <1>1, <1>2

\* The end of a call turns what was changed into what is promised.
LEMMA EndKeeps ==
  ASSUME IInv, DoneInv, Within = {}, NEW p \in Procs, NEW kept \in BOOLEAN, Ends(p, kept),
         KeptIf(p, kept), NEW a \in HookAgents \cup PluginAgents, NEW m \in Markers, Slot(a, m)
  PROVE  Slot(a, m)'
<1>1. TypeOK /\ RunInv /\ LockOwned
  BY DEF IInv
<1>2. mixed' = mixed /\ disk' = disk /\ Acts(p)
  BY DEF Ends, FileVars, Acts
<1>3. a \in Agents
  BY DEF Agents
<1>4. CASE kept /\ a = Agent(p) /\ m = call[p].marker
  <2>1. Working(p) /\ promised' = Kept(p) /\ HasKept(p)
    BY <1>4, KeptWorks DEF Ends, KeptIf
  <2>2. File(p) = Path(a, m) /\ promised'[a][m] = call[p].endpoint
    BY <1>1, <1>4, <2>1, FileIsPath, KeptType
  <2>3. Path(a, m) \notin mixed => Holds(disk[Path(a, m)].content, m, call[p].endpoint)
    BY <1>4, <2>1, <2>2, HoldsAtEnd
  <2> QED
    BY <1>2, <2>2, <2>3 DEF Slot
<1>5. CASE ~(kept /\ a = Agent(p) /\ m = call[p].marker)
  <2>1. promised'[a][m] = promised[a][m]
    <3>1. CASE kept
      <4>1. Working(p) /\ promised' = Kept(p)
        BY <3>1, KeptWorks DEF Ends, KeptIf
      <4> QED
        BY <1>1, <1>3, <1>5, <3>1, <4>1, KeptType
    <3>2. CASE ~kept
      BY <3>2 DEF Ends
    <3> QED
      BY <3>1, <3>2
  <2>2. ASSUME Changed(p, Path(a, m)), call[p].marker = m PROVE FALSE
    <3>1. kept /\ Working(p) /\ Path(Agent(p), m) = Path(a, m)
      BY <2>2 DEF Changed, KeptIf, Working, File
    <3>2. Agent(p) = a
      BY <1>1, <3>1, PathsDiffer, FileIsPath
    <3> QED
      BY <1>5, <2>2, <3>1, <3>2
  <2> QED
    BY <1>2, <2>1, <2>2, SlotStays
<1> QED
  BY <1>4, <1>5

\* Work on a file has the promises for it kept, and its own change made at the end.
LEMMA WorkKeeps ==
  ASSUME IInv, PromiseKept, NEW p \in Procs, Works(p),
         NEW a \in HookAgents \cup PluginAgents, NEW m \in Markers
  PROVE  Slot(a, m)'
<1>1. TypeOK /\ RunInv /\ LockOwned /\ Acts(p)
  BY DEF IInv, Acts
<1>2. /\ Working(p) /\ mixed' = mixed /\ File(p)' = File(p) /\ call' = call
      /\ Agent(p) \in HookAgents \cup PluginAgents /\ File(p) \in Paths
      /\ disk \in [Paths -> Files] /\ pc \in [Procs -> Steps] /\ promised' = promised
      /\ File(p) = Path(Agent(p), call[p].marker)
  BY <1>1, WorksOn, AtWork, FileIsPath DEF Works
<1>3. pc[p] # "unlock"
  BY <1>2
  DEF Works, Edits, Generates, SkipsBackup, ReadsBackup, RenamesBackup, ChmodsBackup, Stages, Renames,
      Finds, Removes, Moves, BackupSteps
<1>4. Slot(a, m)
  BY DEF PromiseKept, Slot
<1>5. CASE disk'[Path(a, m)] = disk[Path(a, m)]
  BY <1>1, <1>2, <1>3, <1>4, <1>5, SlotStays DEF Changed
<1>6. CASE disk'[Path(a, m)] # disk[Path(a, m)]
  <2>1. Renames(p) \/ Removes(p)
    BY <1>6
    DEF Works, Edits, Generates, SkipsBackup, ReadsBackup, RenamesBackup, ChmodsBackup, Stages, Finds, FileVars
  <2>2. pc'[p] = "unlock"
    BY <1>2, <2>1 DEF Renames, Removes, Moves
  <2>3. Path(a, m) \in Paths
    BY DEF Paths
  <2>4. Path(a, m) = File(p)
    BY <1>2, <1>6, <2>1, <2>3 DEF Renames, Removes
  <2>5. a = Agent(p)
    BY <1>2, <2>4, PathsDiffer
  <2>6. CASE m = call[p].marker
    BY <1>2, <2>2, <2>4, <2>6 DEF Slot, Changed
  <2>7. CASE m # call[p].marker
    <3>1. Agent(p) \in HookAgents
      BY <1>2, <2>4, <2>5, <2>7, PathsDiffer
    <3>2. Renames(p)
      <4>1. Removes(p) => pc[p] = "remove"
        BY DEF Removes, Moves
      <4> QED
        BY <1>1, <2>1, <3>1, <4>1, InstallerAssumption DEF RunInv
    <3>3. pc[p] = "rename" /\ disk'[Path(a, m)] = staged[p]
      BY <1>2, <2>4, <3>2 DEF Renames, Moves
    <3>4. Path(a, m) \notin mixed => Holds(staged[p].content, m, promised[a][m])
      BY <2>4, <2>5, <2>7, <3>3, RenamedHolds
    <3> QED
      BY <1>2, <3>3, <3>4 DEF Slot
  <2> QED
    BY <2>6, <2>7
<1> QED
  BY <1>5, <1>6

\* A change that work has just made is what the call asked for.
LEMMA WorkDone ==
  ASSUME IInv, PromiseKept, NEW p \in Procs, Works(p)
  PROVE  Done(p)'
<1>1. TypeOK /\ RunInv /\ LockOwned
  BY DEF IInv
<1>2. /\ Working(p) /\ mixed' = mixed /\ File(p)' = File(p) /\ call' = call /\ call[p] \in Calls
      /\ File(p) \in Paths /\ disk \in [Paths -> Files] /\ pc \in [Procs -> Steps]
      /\ File(p) = Path(Agent(p), call[p].marker) /\ call[p].marker \in Markers
  BY <1>1, WorksOn, AtWork, FileIsPath
<1> SUFFICES ASSUME pc'[p] = "unlock", File(p) \notin mixed
             PROVE  Holds(disk'[File(p)].content, call[p].marker, call[p].endpoint)
  BY <1>2 DEF Done
<1>3. Renames(p) \/ Removes(p)
  BY <1>2
  DEF Works, Edits, Generates, SkipsBackup, ReadsBackup, RenamesBackup, ChmodsBackup, Stages, Finds, Moves
<1>4. CASE Renames(p)
  <2>1. pc[p] = "rename" /\ disk'[File(p)] = staged[p]
    BY <1>2, <1>4 DEF Renames, Moves
  <2> QED
    BY <1>2, <2>1, RenamedHolds
<1>5. CASE Removes(p)
  <2>1. pc[p] = "remove" /\ disk'[File(p)] = NoFile
    BY <1>2, <1>5 DEF Removes, Moves
  <2>2. call[p].op = "uninstall"
    BY <1>1, <2>1 DEF RunInv
  <2>3. call[p].endpoint = Nothing
    BY <1>2, <2>2, CallParts
  <2> QED
    BY <2>1, <2>3 DEF Holds, NoFile, Missing
<1> QED
  BY <1>3, <1>4, <1>5

\* What the user writes leaves alone what is promised for the other files, and what is under
\* way in this one.
LEMMA UserKeeps ==
  ASSUME IInv, NEW f \in Paths, NEW file, Writes(f, file), NEW a, NEW m, Slot(a, m),
         Path(a, m) \in Paths,
         Path(a, m) # f => promised'[a][m] = promised[a][m],
         Path(a, m) = f /\ Holds(disk[f].content, m, promised[a][m]) =>
           Holds(file.content, m, promised'[a][m])
  PROVE  Slot(a, m)'
<1>1. TypeOK /\ RunInv /\ LockOwned
  BY DEF IInv
<1>2. /\ mixed \subseteq mixed' /\ UNCHANGED procVars /\ \A q \in Procs : File(q)' = File(q)
      /\ disk'[Path(a, m)] = IF Path(a, m) = f THEN file ELSE disk[Path(a, m)]
  BY <1>1, UserStays
<1>3. \A q \in Procs : Changed(q, Path(a, m)) => Changed(q, Path(a, m))' /\ call'[q] = call[q]
  BY <1>2 DEF Changed, procVars
<1>4. CASE Path(a, m) \in mixed
  BY <1>2, <1>4 DEF Slot
<1>5. CASE \E q \in Procs : Changed(q, Path(a, m)) /\ call[q].marker = m
  BY <1>3, <1>5 DEF Slot
<1>6. CASE Holds(disk[Path(a, m)].content, m, promised[a][m])
  <2>1. Holds(disk'[Path(a, m)].content, m, promised'[a][m])
    BY <1>2, <1>6
  <2> QED
    BY <2>1 DEF Slot
<1> QED
  BY <1>4, <1>5, <1>6 DEF Slot

\* Nor does it undo a change that has been made, unless it gets mixed.
LEMMA UserDone ==
  ASSUME IInv, NEW f \in Paths, NEW file, Writes(f, file), NEW q \in Procs, Done(q)
  PROVE  Done(q)'
<1>1. TypeOK /\ RunInv /\ LockOwned
  BY DEF IInv
<1>2. /\ mixed \subseteq mixed' /\ UNCHANGED procVars /\ File(q)' = File(q)
      /\ Working(q) /\ File(q) \notin mixed' => disk'[File(q)] = disk[File(q)]
  BY <1>1, UserStays
<1> QED
  BY <1>2 DEF Done, Working, procVars

\* A slot keeps its promise when the user adds a hook of his own to the file.
LEMMA AddedHolds ==
  ASSUME NEW content \in [kind : {"hooks"}, hooks : HookMaps], NEW e \in Events, NEW m \in Markers,
         NEW x, Holds(content, m, x)
  PROVE  Holds(HooksFile(WithUserHook(content.hooks, e)), m, x)
<1>1. content.hooks \in HookMaps /\ InPlace(content.hooks, m, x)
  BY DEF Holds
<1>2. InPlace(WithUserHook(content.hooks, e), m, x)
  BY <1>1, UserHookEdit
<1> QED
  BY <1>2 DEF Holds, HooksFile

\* Promises are kept by every step.
LEMMA KeptStep ==
  ASSUME UsersOwn, Within = {}, IInv, PromiseKept, DoneInv, [Next]_vars
  PROVE  PromiseKept' /\ DoneInv'
<1>1. TypeOK /\ RunInv /\ LockOwned /\ DiskInv
  BY DEF IInv
<1>2. /\ \A a \in HookAgents \cup PluginAgents, m \in Markers : Slot(a, m) /\ Path(a, m) \in Paths
      /\ \A q \in Procs : Done(q)
  BY DEF PromiseKept, DoneInv, Slot, Done, Paths
<1>3. /\ (\A a \in HookAgents \cup PluginAgents, m \in Markers : Slot(a, m)') => PromiseKept'
      /\ (\A q \in Procs : Done(q)') => DoneInv'
  BY DEF PromiseKept, DoneInv, Slot, Done
<1>4. CASE Rests
  BY <1>4 DEF Rests, FileVars, procVars, PromiseKept, DoneInv, Changed, File, Agent
<1>5. ASSUME NEW p \in Procs, Begins(p) \/ Locks(p) PROVE PromiseKept' /\ DoneInv'
  <2>1. /\ Acts(p) /\ mixed' = mixed /\ disk' = disk /\ promised' = promised
        /\ pc[p] # "unlock" /\ pc'[p] # "unlock"
    BY <1>1, <1>5 DEF Acts, Begins, Locks, FileVars, Moves, TypeOK
  <2>2. \A a \in HookAgents \cup PluginAgents, m \in Markers : Slot(a, m)'
    BY <1>2, <2>1, SlotStays DEF Changed
  <2>3. \A q \in Procs : Done(q)'
    BY <1>2, <2>1, OthersChanged DEF Done
  <2> QED
    BY <1>3, <2>2, <2>3
<1>6. ASSUME NEW p \in Procs, Works(p) PROVE PromiseKept' /\ DoneInv'
  <2>1. \A q \in Procs : Done(q)'
    BY <1>2, <1>6, WorkDone, OthersChanged DEF Acts
  <2>2. \A a \in HookAgents \cup PluginAgents, m \in Markers : Slot(a, m)'
    BY <1>6, WorkKeeps
  <2> QED
    BY <1>3, <2>1, <2>2
<1>7. ASSUME NEW p \in Procs, NEW kept \in BOOLEAN, Ends(p, kept), KeptIf(p, kept)
      PROVE  PromiseKept' /\ DoneInv'
  <2>1. Acts(p) /\ pc'[p] # "unlock"
    BY <1>1, <1>7 DEF Acts, Ends, Moves, TypeOK
  <2>2. \A q \in Procs : Done(q)'
    BY <1>2, <2>1, OthersChanged DEF Done
  <2>3. \A a \in HookAgents \cup PluginAgents, m \in Markers : Slot(a, m)'
    BY <1>2, <1>7, EndKeeps
  <2> QED
    BY <1>3, <2>2, <2>3
<1>8. ASSUME NEW f \in Paths, NEW file \in UserFiles(f), Writes(f, file), UserRestores(f)
      PROVE  PromiseKept' /\ DoneInv'
  <2>1. \A q \in Procs : Done(q)'
    BY <1>2, <1>8, UserDone
  <2>2. ASSUME NEW a \in HookAgents \cup PluginAgents, NEW m \in Markers PROVE Slot(a, m)'
    <3>1. promised'[a][m] = IF Path(a, m) = f THEN Nothing ELSE promised[a][m]
      <4>1. a \in Agents /\ a \notin OtherAgents
        BY InstallerAssumption DEF Agents
      <4> QED
        BY <1>8, <4>1 DEF UserRestores
    <3>2. Holds(file.content, m, Nothing)
      BY RestoredHolds
    <3> QED
      BY <1>2, <1>8, <3>1, <3>2, UserKeeps
  <2> QED
    BY <1>3, <2>1, <2>2
<1>9. ASSUME NEW f \in Paths, NEW e \in Events,
             disk[f].content.kind = "hooks", disk[f].content.hooks[e].list,
             Writes(f, [content |-> HooksFile(WithUserHook(disk[f].content.hooks, e)),
                        mode |-> disk[f].mode]),
             UNCHANGED promised
      PROVE  PromiseKept' /\ DoneInv'
  <2>1. \A q \in Procs : Done(q)'
    BY <1>2, <1>9, UserDone
  <2>2. ASSUME NEW a \in HookAgents \cup PluginAgents, NEW m \in Markers PROVE Slot(a, m)'
    <3>1. PICK file : file = [content |-> HooksFile(WithUserHook(disk[f].content.hooks, e)),
                              mode |-> disk[f].mode]
      OBVIOUS
    <3>2. disk[f].content \in [kind : {"hooks"}, hooks : HookMaps]
      BY <1>1, <1>9 DEF DiskInv, Written, Missing, Foreign
    <3>3. Holds(disk[f].content, m, promised[a][m]) => Holds(file.content, m, promised'[a][m])
      BY <1>9, <3>1, <3>2, AddedHolds
    <3> QED
      BY <1>2, <1>9, <3>1, <3>3, UserKeeps
  <2> QED
    BY <1>3, <2>1, <2>2
<1> QED
  BY <1>1, <1>4, <1>5, <1>6, <1>7, <1>8, <1>9, StepKinds

\* At first, there is nothing promised, and nothing of agentstatus in any file.
LEMMA KeptInit ==
  ASSUME UsersOwn, Init
  PROVE  PromiseKept /\ DoneInv
<1>1. ASSUME NEW a \in HookAgents \cup PluginAgents, NEW m \in Markers
      PROVE  Holds(disk[Path(a, m)].content, m, promised[a][m])
  <2>1. Path(a, m) \in Paths /\ a \in Agents
    BY DEF Paths, Agents
  <2>2. disk[Path(a, m)] \in UserFiles(Path(a, m)) /\ promised[a][m] = Nothing
    BY <2>1 DEF Init
  <2> QED
    BY <2>2, RestoredHolds
<1>2. \A p \in Procs : pc[p] = "idle"
  BY DEF Init
<1> QED
  BY <1>1, <1>2 DEF PromiseKept, DoneInv

\* Whatever calls are made, by whomever, and whatever fails, crashes or is edited in between:
\* every file holds for every consumer what its last finished call said (install.go:20-27).
\* Given that what the user writes is his own, and that no endpoint is found in a plugin for
\* another one: the code takes such a plugin for up to date, which InstallerNested shows.
THEOREM PromisesKept ==
  ASSUME UsersOwn, Within = {}
  PROVE  Spec => []PromiseKept
<1>1. Init => PromiseKept /\ DoneInv
  BY KeptInit
<1>2. IInv /\ (PromiseKept /\ DoneInv) /\ [Next]_vars => (PromiseKept /\ DoneInv)'
  BY KeptStep
<1> QED
  BY <1>1, <1>2, Invariance, PTL DEF Spec
=============================================================================
