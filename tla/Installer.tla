----------------------------- MODULE Installer -----------------------------
(***************************************************************************)
(* install.go, internal/configfile and adapters/*/install.go: processes    *)
(* that install and uninstall hooks for several consumers (markers), each  *)
(* agent's configuration file edited under a flock, step by step; with     *)
(* failing system calls, crashes, and a user who edits the files as well.  *)
(*                                                                         *)
(* Temp files have names of their own and are read by nobody: they show    *)
(* only as the steps between their creation and the rename.                *)
(***************************************************************************)
EXTENDS HookMerge

CONSTANTS
  Procs,        \* processes, or goroutines, that call InstallHooks or UninstallHooks
  HookAgents,   \* agents with one hooks file for all consumers: Claude, Codex
  PluginAgents, \* agents with a plugin file per consumer: OpenCode
  OtherAgents,  \* not registered, or registered without the function
  AgentLists,   \* values of InstallConfig.Agents; for none, all of them
  UserHooks,    \* hook maps the user writes
  Within,       \* <<e1, e2>>: a plugin for e2 has e1 with "/opencode" behind it somewhere
  NoProc, Nothing, Unknown,
  MaxCalls,     \* bound: calls
  MaxUpsets     \* bound: failing system calls, crashes and edits by the user together

Agents == HookAgents \cup PluginAgents \cup OtherAgents

ASSUME InstallerAssumption ==
  /\ HookAgents \cap PluginAgents = {} /\ OtherAgents \cap (HookAgents \cup PluginAgents) = {}
  /\ AgentLists \subseteq Seq(Agents) \ {<<>>}
  /\ UserHooks \subseteq HookMaps
  /\ Within \subseteq Endpoints \X Endpoints
  /\ NoProc \notin Procs
  /\ NoProc \notin [slot : (HookAgents \cup PluginAgents) \X Markers, value : SUBSET Endpoints,
                     done : BOOLEAN]
  /\ {Nothing, Unknown} \cap Endpoints = {} /\ Nothing # Unknown
  /\ MaxCalls \in Nat /\ MaxUpsets \in Nat

\* resolvePath: a plugin's file name embeds the marker.
Path(agent, marker) == IF agent \in HookAgents THEN <<agent>> ELSE <<agent, marker>>

Paths == {Path(a, m) : a \in HookAgents \cup PluginAgents, m \in Markers}

IsHooksPath(f) == Len(f) = 1

\* What a file holds.  Foreign: malformed JSON, or a plugin agentstatus did not write.
Missing == [kind |-> "missing"]
Foreign == [kind |-> "foreign"]
HooksFile(hooks) == [kind |-> "hooks", hooks |-> hooks]
Plugin(endpoint) == [kind |-> "plugin", endpoint |-> endpoint]

Contents == {Foreign} \cup [kind : {"hooks"}, hooks : HookMaps]
              \cup [kind : {"plugin"}, endpoint : Endpoints]

Modes == {"0600", "0644"}  \* 0600 is what CreateTemp gives; a user may have chosen it, too
NoFile == [content |-> Missing, mode |-> "none"]
Files == {NoFile} \cup [content : Contents, mode : Modes]

VARIABLES
  disk,   \* per path: the file
  bak,    \* per path: the file with ".bak" appended
  lock,   \* per path: who holds the flock on the file with ".lock" appended
  pc,     \* per process: the step it takes next
  call,   \* its InstallConfig, and which of the two functions it called
  todo,   \* agents its loop has left
  next,   \* the content it is going to write
  staged, \* the file Backup read, or the temp file of Write
  \* history
  calls, upsets,
  promised, \* per agent and marker: what the last finished call left behind
  mixed     \* paths the user edited in the middle of an operation

procVars == <<pc, call, todo, next, staged>>
vars == <<disk, bak, lock, procVars, calls, upsets, promised, mixed>>

NoCall == [op |-> "none", marker |-> NoMarker, endpoint |-> Nothing]

\* Uninstall has an endpoint, too, but does not use it.
Calls == [op : {"install"}, marker : Markers, endpoint : Endpoints]
           \cup [op : {"uninstall"}, marker : Markers, endpoint : {Nothing}]

Steps == {"idle", "loop", "read", "inspect", "backup", "renamebak", "chmodbak",
          "stage", "rename", "remove", "unlock"}

TypeOK ==
  /\ disk \in [Paths -> Files] /\ bak \in [Paths -> Files]
  /\ lock \in [Paths -> Procs \cup {NoProc}]
  /\ pc \in [Procs -> Steps]
  /\ call \in [Procs -> Calls \cup {NoCall}]
  /\ todo \in [Procs -> Seq(Agents)]
  /\ next \in [Procs -> {Missing} \cup Contents] /\ staged \in [Procs -> Files]
  /\ calls \in 0 .. MaxCalls /\ upsets \in 0 .. MaxUpsets
  /\ promised \in [Agents -> [Markers -> Endpoints \cup {Nothing}]]
  /\ mixed \subseteq Paths

\* What a user may have in a file, or restore it to.
UserFiles(f) ==
  {NoFile, [content |-> Foreign, mode |-> "0644"]} \cup
    IF IsHooksPath(f) THEN {[content |-> HooksFile(h), mode |-> "0600"] : h \in UserHooks}
    ELSE {}

Init ==
  /\ disk \in [Paths -> UNION {UserFiles(f) : f \in Paths}]
  /\ \A f \in Paths : disk[f] \in UserFiles(f)
  /\ bak = [f \in Paths |-> NoFile]
  /\ lock = [f \in Paths |-> NoProc]
  /\ pc = [p \in Procs |-> "idle"]
  /\ call = [p \in Procs |-> NoCall]
  /\ todo = [p \in Procs |-> <<>>]
  /\ next = [p \in Procs |-> Missing] /\ staged = [p \in Procs |-> NoFile]
  /\ calls = 0 /\ upsets = 0
  /\ promised = [a \in Agents |-> [m \in Markers |-> Nothing]]
  /\ mixed = {}

-----------------------------------------------------------------------------
(* One call: orchestrate. *)

Agent(p) == Head(todo[p])
File(p) == Path(Agent(p), call[p].marker)

GoTo(p, step) == pc' = [pc EXCEPT ![p] = step]

Forget(p) == /\ next' = [next EXCEPT ![p] = Missing]
             /\ staged' = [staged EXCEPT ![p] = NoFile]

Call(p) ==
  /\ pc[p] = "idle" /\ calls < MaxCalls
  /\ calls' = calls + 1
  /\ \E c \in Calls, agents \in AgentLists :
       /\ call' = [call EXCEPT ![p] = c]
       /\ todo' = [todo EXCEPT ![p] = agents]
  /\ GoTo(p, "loop")
  /\ UNCHANGED <<disk, bak, lock, next, staged, upsets, promised, mixed>>

\* The endpoint or the marker is not valid: an error before anything else.
RefuseCall(p) ==
  /\ pc[p] = "idle" /\ calls < MaxCalls
  /\ calls' = calls + 1
  /\ UNCHANGED <<disk, bak, lock, procVars, upsets, promised, mixed>>

\* On to the next agent, or back to the caller.
NextAgent(p) ==
  /\ todo' = [todo EXCEPT ![p] = Tail(@)]
  /\ IF Len(todo[p]) > 1 THEN GoTo(p, "loop") /\ UNCHANGED call
     ELSE GoTo(p, "idle") /\ call' = [call EXCEPT ![p] = NoCall]

\* Nothing to call for this agent: reported as skipped.
SkipAgent(p) ==
  /\ pc[p] = "loop" /\ Agent(p) \in OtherAgents
  /\ NextAgent(p)
  /\ UNCHANGED <<disk, bak, lock, next, staged, calls, upsets, promised, mixed>>

\* Bug: no flock.
LockFreeBug(f) == TRUE
LockFree(f) == lock[f] = NoProc

FirstStep(p) ==
  IF Agent(p) \in PluginAgents THEN "inspect" ELSE "read"

\* configfile.Lock blocks until the flock is free.
Lock(p) ==
  /\ pc[p] = "loop" /\ Agent(p) \notin OtherAgents
  /\ LockFree(File(p))
  /\ lock' = [lock EXCEPT ![File(p)] = p]
  /\ GoTo(p, FirstStep(p))
  /\ UNCHANGED <<disk, bak, call, todo, next, staged, calls, upsets, promised, mixed>>

\* What holds for the agent and the marker once a call has succeeded.
Kept(p) == [promised EXCEPT ![Agent(p)][call[p].marker] =
              call[p].endpoint]

\* Bug: only success unlocks.
UnlockedBug(p, ok) == IF ok THEN [lock EXCEPT ![File(p)] = NoProc] ELSE lock
\* The deferred unlock.
Unlocked(p, ok) == [lock EXCEPT ![File(p)] = NoProc]

\* The adapter's function returns.
Finish(p, ok) ==
  /\ lock' = Unlocked(p, ok)
  /\ NextAgent(p)
  /\ Forget(p)
  /\ promised' = IF ok THEN Kept(p) ELSE promised
  /\ UNCHANGED <<disk, bak, calls, mixed>>

-----------------------------------------------------------------------------
(* Claude and Codex: read, back up, edit, write. *)

\* Uninstall of what is not there: reported as skipped.
NothingToRemove(p) ==
  /\ pc[p] = "read" /\ call[p].op = "uninstall" /\ disk[File(p)].content = Missing
  /\ Finish(p, TRUE) /\ UNCHANGED upsets

\* Malformed JSON is left alone.
ReadMalformed(p) ==
  /\ pc[p] = "read" /\ disk[File(p)].content = Foreign
  /\ Finish(p, FALSE) /\ UNCHANGED upsets

\* A file that is missing or empty reads as an empty object.
HooksOf(content) == IF content.kind = "hooks" THEN content.hooks ELSE NoHooks

Edited(c, content) ==
  HooksFile(IF c.op = "install" THEN ApplyInstall(HooksOf(content), c.marker, c.endpoint)
            ELSE ApplyUninstall(HooksOf(content), c.marker))

\* The edit is made on what was read here, and written below.
Read(p) ==
  /\ pc[p] = "read"
  /\ disk[File(p)].content \notin {Foreign} \cup IF call[p].op = "uninstall" THEN {Missing} ELSE {}
  /\ next' = [next EXCEPT ![p] = Edited(call[p], disk[File(p)].content)]
  /\ GoTo(p, "backup")
  /\ UNCHANGED <<disk, bak, lock, call, todo, staged, calls, upsets, promised, mixed>>

\* Bug: a backup that exists is kept.
BackupBug(f) == disk[f].content # Missing /\ bak[f].content = Missing
Backup(f) == disk[f].content # Missing

NoBackup(p) ==
  /\ pc[p] = "backup" /\ ~Backup(File(p))
  /\ GoTo(p, "stage")
  /\ UNCHANGED <<disk, bak, lock, call, todo, next, staged, calls, upsets, promised, mixed>>

ReadForBackup(p) ==
  /\ pc[p] = "backup" /\ Backup(File(p))
  /\ staged' = [staged EXCEPT ![p] = disk[File(p)]]
  /\ GoTo(p, "renamebak")
  /\ UNCHANGED <<disk, bak, lock, call, todo, next, calls, upsets, promised, mixed>>

\* Bug: no default.
WriteModeBug(file) == file.mode
\* Write: the mode of the file it replaces, or the default.
WriteMode(file) == IF file.content # Missing THEN file.mode ELSE "0644"

RenameBackup(p) ==
  /\ pc[p] = "renamebak"
  /\ bak' = [bak EXCEPT ![File(p)] = [content |-> staged[p].content, mode |-> WriteMode(@)]]
  /\ GoTo(p, "chmodbak")
  /\ UNCHANGED <<disk, lock, call, todo, next, staged, calls, upsets, promised, mixed>>

ChmodBackup(p) ==
  /\ pc[p] = "chmodbak"
  /\ bak' = [bak EXCEPT ![File(p)].mode = staged[p].mode]
  /\ GoTo(p, "stage")
  /\ UNCHANGED <<disk, lock, call, todo, next, staged, calls, upsets, promised, mixed>>

\* Write up to the rename: the mode is looked up, a temp file made and filled.
Stage(p) ==
  /\ pc[p] = "stage"
  /\ staged' = [staged EXCEPT ![p] = [content |-> next[p], mode |-> WriteMode(disk[File(p)])]]
  /\ GoTo(p, "rename")
  /\ UNCHANGED <<disk, bak, lock, call, todo, next, calls, upsets, promised, mixed>>

Rename(p) ==
  /\ pc[p] = "rename"
  /\ disk' = [disk EXCEPT ![File(p)] = staged[p]]
  /\ GoTo(p, "unlock")
  /\ UNCHANGED <<bak, lock, call, todo, next, staged, calls, upsets, promised, mixed>>

Unlock(p) ==
  /\ pc[p] = "unlock"
  /\ Finish(p, TRUE) /\ UNCHANGED upsets

-----------------------------------------------------------------------------
(* OpenCode: the plugin file is generated, or removed. *)

InstallPlugin(p) == pc[p] = "inspect" /\ call[p].op = "install"
UninstallPlugin(p) == pc[p] = "inspect" /\ call[p].op = "uninstall"

\* The code looks for the endpoint with "/opencode" behind it, anywhere in the file.
EndpointMatches(content, endpoint) ==
  content.kind = "plugin" /\ (content.endpoint = endpoint \/ <<endpoint, content.endpoint>> \in Within)

\* Up to date already.
PluginUpToDate(p) ==
  /\ InstallPlugin(p) /\ EndpointMatches(disk[File(p)].content, call[p].endpoint)
  /\ Finish(p, TRUE) /\ UNCHANGED upsets

\* A file without the managed marker is refused, by both functions.
RefusePlugin(p) ==
  /\ pc[p] = "inspect" /\ disk[File(p)].content = Foreign
  /\ Finish(p, FALSE) /\ UNCHANGED upsets

Generate(p) == /\ next' = [next EXCEPT ![p] = Plugin(call[p].endpoint)]
               /\ GoTo(p, "backup")
               /\ UNCHANGED <<disk, bak, lock, call, todo, staged, calls, promised, mixed>>

GeneratePlugin(p) ==
  /\ InstallPlugin(p)
  /\ disk[File(p)].content # Foreign
  /\ ~EndpointMatches(disk[File(p)].content, call[p].endpoint)
  /\ Generate(p) /\ UNCHANGED upsets

PluginMissing(p) ==
  /\ UninstallPlugin(p) /\ disk[File(p)].content = Missing
  /\ Finish(p, TRUE) /\ UNCHANGED upsets

FoundPlugin(p) ==
  /\ UninstallPlugin(p) /\ disk[File(p)].content.kind = "plugin"
  /\ GoTo(p, "remove")
  /\ UNCHANGED <<disk, bak, lock, call, todo, next, staged, calls, upsets, promised, mixed>>

RemovePlugin(p) ==
  /\ pc[p] = "remove"
  /\ disk' = [disk EXCEPT ![File(p)] = NoFile]
  /\ GoTo(p, "unlock")
  /\ UNCHANGED <<bak, lock, call, todo, next, staged, calls, upsets, promised, mixed>>

-----------------------------------------------------------------------------
(* What goes wrong, and what others do. *)

Upset == upsets < MaxUpsets /\ upsets' = upsets + 1

BackupSteps == {"backup", "renamebak", "chmodbak"}

\* A system call fails.  The function returns, and has removed its temp file and
\* unlocked by then ...
Fail(p) ==
  /\ \/ pc[p] \in {"read", "inspect", "backup", "stage", "rename", "remove"}
     \/ pc[p] \in BackupSteps /\ Agent(p) \in HookAgents
  /\ Upset /\ Finish(p, FALSE)

\* ... or goes to the next agent, if it was the lock it failed to get ...
FailLock(p) ==
  /\ pc[p] = "loop" /\ Agent(p) \notin OtherAgents
  /\ Upset /\ NextAgent(p)
  /\ UNCHANGED <<disk, bak, lock, next, staged, calls, promised, mixed>>

\* ... but the OpenCode adapter ignores that its Backup failed ...
IgnoreFailedBackup(p) ==
  /\ pc[p] \in BackupSteps /\ Agent(p) \in PluginAgents
  /\ Upset /\ GoTo(p, "stage")
  /\ UNCHANGED <<disk, bak, lock, call, todo, next, staged, calls, promised, mixed>>

\* ... and takes a plugin file it cannot read for none at all.
IgnoreFailedRead(p) ==
  /\ InstallPlugin(p) /\ disk[File(p)].content # Missing
  /\ Upset /\ Generate(p)

\* The kernel releases the flock; a temp file may stay behind.
Crash(p) ==
  /\ pc[p] # "idle" /\ Upset
  /\ GoTo(p, "idle")
  /\ lock' = [f \in Paths |-> IF lock[f] = p THEN NoProc ELSE lock[f]]
  /\ call' = [call EXCEPT ![p] = NoCall] /\ todo' = [todo EXCEPT ![p] = <<>>]
  /\ Forget(p)
  /\ promised' = IF pc[p] = "unlock" THEN Kept(p) ELSE promised
  /\ UNCHANGED <<disk, bak, calls, mixed>>

UserGroup == [isMap |-> TRUE, inner |-> <<[marker |-> NoMarker, command |-> UserCommand]>>]

\* The user, or the agent itself, writes the file, and asks for no lock.
UserWrites(f, file) ==
  /\ Upset
  /\ disk[f] # file
  /\ disk' = [disk EXCEPT ![f] = file]
  /\ mixed' = IF lock[f] = NoProc THEN mixed ELSE mixed \cup {f}
  /\ UNCHANGED <<bak, lock, procVars, calls>>

\* His own version of it, or none ...
UserRestores(f) ==
  /\ \E file \in UserFiles(f) : UserWrites(f, file)
  /\ promised' = [a \in Agents |-> [m \in Markers |->
                    IF a \notin OtherAgents /\ Path(a, m) = f THEN Nothing ELSE promised[a][m]]]

WithUserHook(hooks, e) ==
  [hooks EXCEPT ![e] = [list |-> TRUE, groups |-> Append(hooks[e].groups, UserGroup)]]

\* ... or a hook of his own next to the others.
UserAdds(f) ==
  /\ disk[f].content.kind = "hooks"
  /\ \E e \in Events :
       /\ disk[f].content.hooks[e].list
       /\ UserWrites(f, [content |-> HooksFile(WithUserHook(disk[f].content.hooks, e)),
                         mode |-> disk[f].mode])
  /\ UNCHANGED promised

-----------------------------------------------------------------------------

EditHooks(p) ==
  \/ NothingToRemove(p) \/ ReadMalformed(p) \/ Read(p)
  \/ NoBackup(p) \/ ReadForBackup(p) \/ RenameBackup(p) \/ ChmodBackup(p)
  \/ Stage(p) \/ Rename(p) \/ Unlock(p)
EditPlugin(p) ==
  \/ PluginUpToDate(p) \/ RefusePlugin(p) \/ GeneratePlugin(p)
  \/ PluginMissing(p) \/ FoundPlugin(p) \/ RemovePlugin(p)

Step(p) == SkipAgent(p) \/ EditHooks(p) \/ EditPlugin(p)

Next ==
  \/ \E p \in Procs : Call(p) \/ RefuseCall(p) \/ Lock(p) \/ Step(p)
  \/ \E p \in Procs : \/ Fail(p) \/ FailLock(p) \/ Crash(p)
                      \/ IgnoreFailedBackup(p) \/ IgnoreFailedRead(p)
  \/ \E f \in Paths : UserRestores(f) \/ UserAdds(f)

Spec == Init /\ [][Next]_vars

-----------------------------------------------------------------------------
(* What is said of it. *)

\* The hooks of the consumer are in place: one entry per event to install and no
\* other.  For Nothing: no entry at all.
InPlace(hooks, marker, endpoint) ==
  \A e \in Events :
    IF endpoint # Nothing /\ e \in InstalledEvents THEN HasOne(hooks[e], marker, endpoint)
    ELSE SpotsOf(hooks[e], marker) = {}

Holds(content, marker, endpoint) ==
  \/ content.kind = "hooks" /\ InPlace(content.hooks, marker, endpoint)
  \/ content.kind = "plugin" /\ content.endpoint = endpoint
  \/ content.kind \in {"missing", "foreign"} /\ endpoint = Nothing

\* p has made its change but has not returned.
Changed(p, f) == pc[p] = "unlock" /\ File(p) = f

\* After any sequence of calls of any consumers, interrupted by failures and crashes at
\* any step, every file holds for every consumer what its last finished call said: all
\* of its hooks for that endpoint, each once, or none (install.go:20-27,
\* specs/design.md:162).  Void for files edited under the hands of an installer.
PromiseKept ==
  \A a \in HookAgents \cup PluginAgents, m \in Markers :
    LET f == Path(a, m) IN
    \/ f \in mixed
    \/ \E p \in Procs : Changed(p, f) /\ call[p].marker = m
    \/ Holds(disk[f].content, m, promised[a][m])

Replaces(p) == pc[p] = "rename" /\ pc'[p] = "unlock"

\* A file is replaced as a whole and by what the edit makes of its present content, with
\* its present mode: no torn file, no lost update of another process
\* (specs/design.md:348-349, configfile.go:14-17).
AtomicEdits ==
  [][\A p \in Procs :
       Replaces(p) /\ File(p) \notin mixed /\ Agent(p) \in HookAgents =>
         /\ disk'[File(p)].content = Edited(call[p], disk[File(p)].content)
         /\ disk'[File(p)].mode =
              IF disk[File(p)].content = Missing THEN "0644" ELSE disk[File(p)].mode]_vars

\* An installer leaves the entries of the user and of other consumers as they are and
\* in their order, and touches no file but its own (specs/design.md:168-171).
OthersKept ==
  [][\A p \in Procs :
       Replaces(p) /\ File(p) \notin mixed =>
         /\ \A f \in Paths \ {File(p)} : disk'[f] = disk[f]
         /\ disk[File(p)].content.kind = "hooks" =>
              \A e \in Events :
                SameOthers(disk[File(p)].content.hooks[e], disk'[File(p)].content.hooks[e],
                           call[p].marker)]_vars

\* A hooks file is replaced only when the one backup there is holds what it was just before,
\* mode included, whatever failed or crashed on the way (configfile.go:62-92; install.go:80-83
\* of the Claude adapter).  It says nothing of earlier versions: BackupsKept does.
BackedUp ==
  [][\A p \in Procs :
       Replaces(p) /\ File(p) \notin mixed /\ Agent(p) \in HookAgents =>
         disk[File(p)].content = Missing \/ bak[File(p)] = disk[File(p)]]_vars

\* A flock is held by a process at work on that file and by no other: whatever fails,
\* and whoever crashes, nobody is left waiting for a lock that is never released.
LockOwned ==
  \A f \in Paths, p \in Procs :
    lock[f] = p <=> pc[p] \notin {"idle", "loop"} /\ File(p) = f

\* The endpoints a file has hooks of the consumer for.
Hooked(content, marker) ==
  IF content.kind = "hooks"
  THEN UNION {{EntryAt(content.hooks[e], s).command : s \in SpotsOf(content.hooks[e], marker)} :
                e \in Events}
  ELSE IF content.kind = "plugin" THEN {content.endpoint} ELSE {}

Slots == (HookAgents \cup PluginAgents) \X Markers

SlotFile == [s \in Slots |-> Path(s[1], s[2])]

hookedNow ==
  [s \in Slots |-> LET f == SlotFile[s] IN
     IF f \in mixed THEN {Unknown} ELSE Hooked(disk[f].content, s[2])]
toldNow == [s \in Slots |-> {promised[s[1]][s[2]]} \ {Nothing}]
doingNow ==
  [p \in Procs |->
     IF pc[p] \in {"idle", "loop"} THEN NoProc
     ELSE [slot |-> <<Agent(p), call[p].marker>>, value |-> {call[p].endpoint} \ {Nothing},
           done |-> pc[p] = "unlock"]]

Registry == INSTANCE HookRegistry WITH
  FileOf <- SlotFile, None <- NoProc,
  hooked <- hookedNow, told <- toldNow, doing <- doingNow

\* All the steps of all the installers add up to a table of consumers' hooks in which every
\* call changes its own entry, at one moment between its start and its end or not at all:
\* concurrent installs behave as if one came after the other (specs/design.md:349-350).
ImplementsRegistry == Registry!RegistrySpec

\* specs/design.md:347, CONTRIBUTING.md:54-55 and configfile/doc.go:3: every backup has a
\* timestamp in its name.  So none takes the place of another, and what an installer has
\* replaced, first of all the user's own version, remains in some backup.
BackupsKept ==
  [][\A f \in Paths :
       bak[f].content # Missing => bak[f].content \in {bak'[f].content, disk'[f].content}]_vars

\* A plugin file agentstatus did not write is neither replaced nor removed (install.go:141-145
\* and 228-234 of the OpenCode adapter: "refusing to overwrite"), and all files are backed up
\* before they are written (specs/design.md:347): at the very least, a copy of it remains.
UserPluginKept ==
  [][\A p \in Procs :
       /\ pc[p] \in {"rename", "remove"} /\ pc'[p] = "unlock" /\ File(p) \notin mixed
       /\ disk[File(p)].content = Foreign
       => bak[File(p)].content = Foreign]_vars
=============================================================================
