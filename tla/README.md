# agentstatus in TLA+

Models, model-checking runs and proofs for the Go library in `src/`. The library turns
the hook payloads of coding agents (Claude, Codex, OpenCode) into a stream of status
transitions per session. Line numbers below are those of the files under `src/`.

## 1. The system

| Part | Source | State | Operations |
|---|---|---|---|
| Broadcaster | `internal/broadcast/broadcast.go` | `b.mu`; `subs`, `nextID`, `closed`; per subscriber a buffered channel and a drop counter | Subscribe, Unsubscribe, Publish (with `deliver`), Close; readers receive from the channels |
| Decision machine | `decision.go` | none: `Decide` is pure; the Hub keeps a `sessionState` per session | Decide |
| Hub | `hub.go`, `stream.go` | `h.mu`; `sessions`, `tags`, `closed`; the broadcaster; a WaitGroup | Ingest (`dispatchSignal`), Handler, Events, RegisterSession, UnregisterSession, Close |
| Sink forwarding | `sink.go` | a goroutine per attached sink | AttachSink |
| File sink | `sinks/file/file.go` | a queue, `isClosed`, a drop counter, the worker's open handles | Send, Drops, Close, the worker (write, evict, drain) |
| Adapter registry | `adapter.go` | `registry` under an RWMutex | RegisterAdapter, Adapters, lookupAdapter |
| Hook mapping | `adapters/*/map.go` | none | MapHookEvent |
| Config files | `internal/configfile/configfile.go` | files: target, `.bak`, `.lock`, temp files | Write, Backup, Lock |
| Hook installers | `adapters/*/install.go`, `install.go` | the agents' config files | InstallHooks, UninstallHooks |
| Stubs | `pipeline`, `sinks/{webhook,slog,funcsink}` | no code yet | |

How they interact. An agent's hook posts a payload; the HTTP handler, or an embedding
program, calls `Ingest`. It looks the adapter up, asks it for a `Signal` and runs
`Decide` on the session's state under `h.mu`. If there is a transition it releases
`h.mu`, builds an `Event` and calls `Publish`, which under `b.mu` puts it into the
channel of every subscriber. Streams are read by the program; an attached sink is read
by a forwarder goroutine that calls `Send`. `Hub.Close` marks the Hub, closes the
broadcaster and waits for the forwarders. The installers are a separate path: they edit
the agents' configuration so that the hooks post here.

What is hard about it:

- Two locks taken one after the other. Between `h.mu` and `b.mu` another call can
  decide, publish or close (`hub.go:160-174`).
- Channel operations nobody else holds a lock for. Readers take values between
  `deliver`'s three selects (`broadcast.go:96-118`); in the file sink the senders
  race each other as well (`file.go:139-159`).
- Shutdown. Close against Ingest, against AttachSink, against a second Close, against a
  Send that has already passed its check.
- Slow or stuck consumers, which must cost nobody but themselves.
- Posts nobody waits for. Every hook is a curl or a fetch of its own: they overtake each other, time
  out, are refused and never repeated, and the sessions they tell of are in the Hub's memory only.
- Files shared with other processes and with the user: concurrent installs, crashes in the
  middle, entries that belong to somebody else.

What makes each part correct:

- *Broadcaster*: what a subscriber reads is a gapless, ordered stretch of the publications,
  moved on only by its reads and by counted drops; the newest value always gets in; nobody
  waits for a reader; no panic on a closed channel.
- *Hub*: the transitions of a session form a chain, whoever takes the decisions; an Event
  is published at most once and as it was decided; calls that do not overlap keep their
  order; Close drains the sinks and is final; Ingest and Close return.
- *File sink*: the drop counter is exact; a line is written at most once and in order; Close
  flushes what was sent in time, closes all handles and returns.
- *Adapters and Ingest*: whatever was lost or late before, a session shows what the agent does as soon as one
  hook that settles it is handled and those after it in order; a subagent's hooks count for the subagent, and its
  parent gets known; a tool is shown only while the session works; a session changes only with an Event that tells.
- *The whole way to a file*: after hub.Close and sink.Close every Event published is a line, in order, or in a
  drop counter, and the last one is not among those dropped.
- *Installers and config files*: edits touch nobody else's entries, repeat without
  effect, are never torn by a crash and never lost to a concurrent one.

`PROJECT.json` lists the hazards line by line, with the properties that cover them.

## 2. The modules

| Module | What it is |
|---|---|
| `SlidingWindow` | What a broadcaster promises: a log, and per subscriber a window on it |
| `Broadcast` | The broadcaster at the grain of its channel operations; implements `SlidingWindow` |
| `Decision` | `Decide` and `NormalizeToolName` as operators |
| `Hub` | Hub, forwarders and streams, composed with `SlidingWindow` and `Decision` |
| `FileSink` | The file sink: senders, queue, worker, closers |
| `Adapters` | `MapHookEvent` of the three adapters as operators |
| `Ingest` | The Hub's end of a request: registry, adapters, `Decision`, replies |
| `Delivery` | The agents' hooks and their posts, composed with `Ingest`: late, lost and overtaking posts, restarts |
| `Capture` | An Event's way from Publish to a line: `SlidingWindow`, the forwarder and `FileSink` composed, with the shutdown |
| `HookMerge` | `applyInstall` and `applyUninstall` as operators on a hooks file |
| `HookRegistry` | What the installers promise: a table of consumers' hooks |
| `Installer` | Processes that install and uninstall, at the grain of flock, read, backup, rename; implements `HookRegistry` |
| `BroadcastProofs`, `HubProofs`, `FileSinkProofs`, `CaptureProofs`, `DeliveryProofs`, `HookMergeProofs`, `InstallerProofs` | Theorems about the module each is named after |
| `RegistryProofs` | The theorem that `Installer` implements `HookRegistry` |
| `MCBroadcast`, `MCHub`, `MCFileSink`, `MCCapture`, `MCDelivery`, `MCInstaller` | The small instances TLC checks |

Definitions whose names end in `Bug` are plausible mistakes in the definition that follows
them. Only the mutants of `PROJECT.json` use them, to show that each property can fail.

### Broadcast

A publisher's `pc` is its place in `Publish`: it waits for `b.mu` (`lock`), is in the range
loop (`loop`), or between two selects of `deliver` (`drain`, `send`). One action stands for
one select with the case it takes: `TrySend` and `TryFull` for the first, `Drain` for the
second, `Send` for the third. The loop picks any subscriber that is left, as Go's map
iteration does. `Receive` is a reader's channel receive and can come between any two of
them. Subscribe, Unsubscribe and Close are one step each: they hold `b.mu`, and a reader
cannot tell a channel that is closed a moment later. The drop counter is incremented
together with the receive it counts; nothing in the code reads the two together. Values are numbered in the order of publication; `published`, `start`, `taken`
and `last` are history variables.

`SlidingWindow` has no locks and no channels. A subscriber's window is the positions
`lo+1 .. hi` of the log. `Offer` takes in the newest position and gives up at most one
old one; `Receive` takes the oldest. The refinement mapping at the end of `Broadcast`
lets the window of a subscriber start after what was read and dropped, and counts the value
in the publisher's hand as taken in once the place for it has been made. `Drain` is
therefore the step that moves the window, and `Send` a stutter.

### Hub

The sections under `h.mu` neither block nor call out, so `Dispatch`, `RegisterSession`,
`UnregisterSession` and the first half of `Close` are one step each. `Publish` takes
`b.mu` in a step of its own, after `h.mu` is released; `Offer` hands the event to one
subscriber after another; `Return` ends the call. The broadcaster is an instance of
`SlidingWindow` over `log`, and its lock is held as long as some ingester is offering.
AttachSink is two steps, for the forwarder is counted in the WaitGroup only after the
subscription: Close can come in between. A sink's `Send` is two steps, so it may take for
ever. `owed` remembers the sinks whose AttachSink had returned when Close was called.

Left out of the Hub: the HTTP layer and the payloads that no adapter maps to a Signal (they
return before any state is touched, and are the subject of `Ingest`); of an Event, the fields the Hub only carries along
(`Work`, `At`, `Raw`, `Agent`, `ParentSessionID`). Tag maps are atomic values: the code
copies them under the lock both when they come in and when they go out.

### FileSink

A sender's `pc` is the step of `Send` it takes next. The worker is at its select (`run`), has
an event in hand (`write`), or does the same after it saw the close (`drain`, `flush`), closes
the handles (`closing`) or is gone. Between the receive and the write others run, so they are
two actions. Which path an event expands to and which handles have become stale is left
open: both depend on the clock. A write may fail before or after the file was opened.
`sync.Once` is modelled with its blocking: a second `Close` waits until the first has left the
function, and then for `done`, like the first.

### Capture

The forwarder's stream is an instance of `SlidingWindow`, the sink an instance of the steps of `FileSink`
with the forwarder as its only sender and the program as its only closer. `Forward` is one step, the receive and the
call of `Send`: nothing can tell the moments between them apart, for the forwarder does not look at `isClosed` before it is in
`Send`. The rest of `Send` goes on in `Sending` at the grain of its selects. The program calls hub.Close at any point, and
sink.Close when that has returned, as `sinks/file/README.md` and `specs/design.md:273-276` say it should. `sent` remembers
which position of the log the n-th call of `Send` had.

### Adapters, Ingest and Delivery

`Adapters` has one payload record per agent, with the fields its `MapHookEvent` looks at, and one
operator that gives the Signal, or `Drop` for a nil one. The events that mean a status are a function
(`ClaudeStatus`, ...); those that mean activity are sets.

`Ingest` has the Hub's end of a request, one step each: the
mapping is pure and the decision is taken under `h.mu`; what overlapping requests do to each other is
the subject of `Hub`. The steps of `handleIngest` and `Ingest` that end early are definitions of their own, in
the code's order: the body is read first, then the name looked up, then the body parsed. Adapters register before there are
requests, from the `init` functions of the packages a program imports (`Programs`); an agent whose adapter the program lacks is answered with 404.
`announced` and `linked` remember which sessions a hook named a parent of, and which had an Event with one.

`Delivery` adds the agents' end. A hook fires at a place: a session, or a subagent in one. `ClaudePayload`, `CodexPayload` and
`OpenCodePayload` say what the installed command or plugin posts for it. A post is in `flight` until it is handled,
refused or lost; any one may be next. `Stray` requests are nobody's hooks. `Restart` starts the Hub's program anew, with
empty sessions. `Doing` is what a reader of all the hooks fired, in order, would say of a place: it is written down without
`Decide` and without the Hub's state, and `Mirror` says when the Hub agrees.

Assumed of the agents: ids of different places differ (an id used twice makes two sessions one, by design), and OpenCode names a
parent in `session.created` only (`specs/design.md:445`, `:516`).

### HookMerge and Installer

The Claude and the Codex adapter contain the same `applyInstall` and `applyUninstall` twice, so `HookMerge`
has them once. A hooks file maps events to lists of groups of entries; an entry is its marker and
its command. Values that are no object or no list are kept apart, for the code steps over them.
What an edit keeps is a set of places, and `Selected` is the elements at these places in their order. `HasOne` and
`SameOthers` are what is said of a file before and after: the consumer has one entry that runs its command; the entries of the
others are the same ones in the same order, in whatever groups they were.

In `Installer` a process's `pc` is the step it takes next: `loop` (waiting for the flock), `read` or
`inspect`, the steps of `Backup` (`backup`, `renamebak`, `chmodbak`) and of `Write` (`stage`,
`rename`), `remove`, `unlock`. What is read at `read` is edited there and written at `rename`; everything
between may interleave with others. The content of a temp file is in `staged`; nobody reads it, so that
its creation and filling are one step. Any system call may fail (`Fail`, `FailLock`, and for the OpenCode adapter
`IgnoreFailedBackup` and `IgnoreFailedRead`), a process may die at any step (`Crash`), and the user or the agent
may write the files without a lock (`UserRestores`, `UserAdds`). Files written that way in the middle of an operation are
collected in `mixed` and excepted from the promises: flock is advisory, and the code promises nothing for them.
`promised` remembers what the last finished call said, per agent and consumer.

`HookRegistry` has no files, locks or backups: a slot is an agent and a consumer, `hooked` the endpoints its hooks post to, and
`told` what the last call that had its way said of it. A process begins when nobody else works on the slot's file, changes its own slot
in one step (`Effect`), and succeeds, which sets `told`: its change is made or was not needed. It can give up only before its change.
A process that dies after its rename has had its way, though nobody was told; one that fails or dies before it has changed nothing.
The mapping at the end of `Installer` reads `hooked` off the disk and `told` off `promised`. The flock is the begin of an operation; the rename,
or the removal of a plugin, is `Effect`; the unlock is the end; everything else a call does is a stutter.
The user puts his own version in place of a file (`UserReplaces`); if somebody is editing it just then (`UserInterferes`),
its slots are `Unknown` from then on, for flock cannot keep him out.

The substring search of `endpointMatches` is kept: `Within` says which endpoints are found in the plugin of which others. `RefuseCall`
is a call whose endpoint or marker is not valid.

Abstractions: of a settings file only "hooks" is modelled. The rest is decoded and encoded again, which keeps the values but
for numbers (they pass through float64, so that an integer above 2^53 may come out rounded), and neither the order of the keys nor the layout;
a missing event and one with an empty list are the same, and so are an empty and a missing file when read.

## 3. The runs

| Run | Bounds | Shows |
|---|---|---|
| `broadcast` | 2 publishers, buffer 2, 2 subscribers, 4 values | all of `Broadcast`'s properties, liveness and the refinement included |
| `hub` | 2 ingesters, 3 calls, 2 sessions, 1 sink, 1 closer, buffer 1 | the Hub's safety properties |
| `hub_live` | 2 ingesters, 2 calls, a sink and an unread stream, 1 closer | Ingest and Close return |
| `hub_chain`, `hub_close_early` | 2 calls; 2 closers in the second | counterexamples: see section 5 |
| `file_sink` | 2 senders, 3 Sends, queue of 2 (the default, chosen by a size of 0), 1 file, 2 closers | the file sink's properties |
| `capture` | both buffers 2, 6 Events, 1 file | the way into a file, with overflow on both buffers and the shutdown |
| `delivery` | 3 hooks fired, 3 requests, 1 restart; 4 places, 10 kinds of hooks | what posts that come late, or never, come to |
| `installer` | 2 processes, 2 markers, 2 endpoints, 3 calls, 1 failure, crash or edit | the installers' promises, the refinement included |
| `installer_backup`, `installer_foreign`, `installer_nested` | 2 calls and no failure; 1 call and 2 failures; 2 calls | counterexamples: see section 5 |

Why the bounds are enough. The safety properties below are proved for all values of the constants (section 4), so that the runs have
to show that they can fail and that what they speak of happens; for the liveness properties the bounds have to do. In `broadcast` four values overflow a buffer of two twice, so that every
case of the three selects that exists is taken with a reader at every point, and two publishers
contend for the lock. In `hub` two calls of one
session can race while a third follows or precedes them, in the same session or another;
the three payloads make a transition with a tool, a heartbeat and the end of a turn,
and include duplicates, for the same payload may come twice. A buffer of one makes the sink lose
events. In `file_sink` three Sends are one more than the queue holds, and two of them can be between their selects at once.
In `capture` six Events are two more than both buffers hold together,
so that either can overflow alone, both one after the other, and the last Events can meet the shutdown in either. In `delivery`
a session has no more than a status and a tool, and the mappings have no state: a first hook sets them,
a second changes them, and the third is a hook of any kind in any state reached that way, on time or late; with a restart or a lost post
in between. The hooks of an instance cover each case of the mappings' results, with and without a parent: a status, a tool, mere
activity, nothing. One session without and one with a parent per mapping suffices, for sessions share no state. In `installer`
two calls can contend for a file and the third finds what a failure or a crash of either has left; processes, markers and
endpoints are symmetric, and none of the properties tells one from another. The user's
hooks file has a hook of his own on one event that is installed, a value that is no list on another, and a group without hooks on an event that is
not installed; more events are treated independently.

`CHECK_DEADLOCK FALSE` stands where all calls the bound allows can have been made and
everything has come to rest. In `broadcast` it is checked: Publish can be called for ever.

Properties, by module:

- `Broadcast`: `NewestKept`, `Accounted`, `NoPanic`, `PublishReturns`, `ImplementsWindow`.
- `Hub`: `DecisionChain`, `PublishedAsDecided`, `RealTimeOrder`, `LastWord`,
  `CloseDrainsSinks`, `QuietAfterClose`, `IngestReturns`, `CloseReturns`.
- `FileSink`: `DropsExact`, `AtMostOnce`, `SendOrder`, `CloseFlushes`, `CloseReturns`.
- `Capture`: `HandedOver`, `Captured`, `LinesInOrder`, `LastCaptured`, `ShutDownReturns`.
- `Delivery`: `Mirror`, `ToolShown`, `ParentLink`, `ChangeIsTold`, `NoFlicker`.
- `Installer`: `PromiseKept`, `LockOwned`, `AtomicEdits`, `OthersKept`, `BackedUp`, `ImplementsRegistry`.

Each is stated in words above its definition, and each of these modules has one type invariant.

Fairness. A goroutine that can take its next step takes it (weak fairness). A goroutine waiting for a
mutex gets it, since `sync.Mutex` hands over to a waiter after a millisecond (strong
fairness of the step that takes it). The file sink's worker notices the closed channel, since
Go's `select` chooses at random among the ready cases (strong fairness). Nothing is
assumed of the environment: no call has to be made, no reader has to read, no `Send` has to
return. `Hub!CloseReturns` states the one condition it needs, that every `Send` returns. In `Capture` that
holds, for the file sink's does; there a program that has called hub.Close is assumed to go on to sink.Close, but none has to begin.
`Delivery` and `Installer` have no fairness and no liveness properties: posts may get lost, and flock(2) promises no order among those who wait.

## 4. What is proved

Every invariant and every action property of the passing runs is a theorem, for all values of the
constants: any number of callers, subscribers, senders, processes and consumers, any buffer size, any bound on calls.
The assumptions are the named ones of the modules (`BroadcastAssumption`, `DecisionAssumption`,
`HubAssumption`, ...), which say of the constants what the code sees to or what names mean: a buffer of at least one,
distinct names, well-formed inputs. Two theorems about the installers have hypotheses of their own, given below.

The form is the same everywhere. `IInv` is an inductive invariant, a conjunction of named parts, each with a
lemma for the steps it can be disturbed by; `Invariance` is `Spec => []IInv`; the properties follow from it.

| Module | Theorems, and the property each states |
|---|---|
| `BroadcastProofs` | `Invariance`, `TypeCorrect` (`TypeOK`), `NewestSurvives` (`NewestKept`), `NothingLost` (`Accounted`), `NeverPanics` (`NoPanic`), `Implementation` (every step is one of `SlidingWindow` or a stutter) |
| `HubProofs` | `Invariance`, `TypeCorrect`, `DecisionsChain` (`DecisionChain`), `PublishedOnceAsDecided` (`PublishedAsDecided`), `PublishedInRealTimeOrder` (`RealTimeOrder`), `LastWordStands` (`LastWord`), `CloseDrains` (`CloseDrainsSinks`), `NothingAfterClose` (`QuietAfterClose`) |
| `FileSinkProofs` | `Invariance`, `TypeCorrect`, `DropsCounted` (`DropsExact`), `WrittenOnce` (`AtMostOnce`), `WrittenInOrder` (`SendOrder`), `CloseIsAFlush` (`CloseFlushes`) |
| `CaptureProofs` | `ImplementsFileSink`, `CaptureInvariance`, `CaptureTypeCorrect` (`CaptureTypeOK`), `AllHandedOver` (`HandedOver`), `EveryEventCaptured` (`Captured`), `LinesInPublicationOrder` (`LinesInOrder`), `LastEventCaptured` (`LastCaptured`) |
| `DeliveryProofs` | `Invariance`, `TypeCorrect`, `Recovers` (`Mirror`), `ToolWhileWorking` (`ToolShown`), `NoOrphan` (`ParentLink`), `ChangesAreTold` (`ChangeIsTold`), `HeartbeatsAreSilent` (`NoFlicker`) |
| `HookMergeProofs` | `InstallSparesOthers`, `UninstallRemovesOwn` |
| `InstallerProofs` | `Invariance`, `TypeCorrect`, `LocksOwned` (`LockOwned`), `EditsAreAtomic` (`AtomicEdits`), `BackedUpFirst` (`BackedUp`), `OthersUntouched` (`OthersKept`), `PromisesKept` (`PromiseKept`) |
| `RegistryProofs` | `Implementation` (`ImplementsRegistry`) |

**Broadcast.** `Accounted` alone is not inductive: whether `Drain` and `Send` keep it depends on who
is inside `Publish` and on what it still has to do. `IInv` adds: the lock is held by exactly the
publisher inside (`LockInv`); its target is still to be served, and what it has to serve is
registered, so that Unsubscribe or Close cannot come in between (`LoopInv`); ids of live subscribers
have been handed out and their channels are open (`RegInv`); an id not handed out yet has empty
counters (`FreshInv`); and a publisher about to send finds room (`NewestKept`). The refinement lemma
`WindowStep` uses the invariant before and after the step: with the lock held nobody else can be in hand, and a free
lock means that all windows have caught up.

**Hub.** The order of the log says nothing by itself, for decisions and publications are made under different locks.
`IInv` ties the two together call by call: calls are numbered once (`CallInv`); what an ingester carries is the
decision it took under its number (`EventInv`), and every decision's call carries it or has returned (`DecidedInv`);
one ingester at a time is offering, and what is in the log is of a call that returned or of that one
(`LogInv`); one closer does the closing, and the sinks owed have stopped when it is through (`CloseInv`); once the
broadcaster is closed no buffer fills any more, and what was owed reaches to the end of the log (`SinkInv`). With them `DecisionChain`, `RealTimeOrder` and the parts of
`PublishedAsDecided` are inductive. `LastWord` follows when all calls have returned: then every
decision is in the log, and the last one of the session is its last Event, or overlapped an earlier one.

**FileSink and Capture.** Calls are numbered once (`CallInv`), and only an event whose `Send` returned is anywhere, in one place: queued, in the
worker's hand, written or failed (`PlaceInv`); `DropInv` that the counter is the number of those that are nowhere; `OrderInv` that the
queue is behind the file, in the order of the Sends that do not overlap; `WorkerInv` what the worker and the closers know of each other.
`ImplementsFileSink` shows that every behaviour of `Capture` is one of `FileSink`, so that all this holds of its sink for free.
`CaptureInv` adds where the stream stands (`StreamInv`), that the n-th `Send` had a later position than those before (`SentInv`), that a single forwarder
never has its newest event dropped (`SingleInv`, `NewestInv`), and the order of the shutdown (`ClosingInv`). `Captured` and
`LastCaptured` need both halves: the windows of the stream and the places in the sink.

**Delivery.** `Mirror` speaks of a whole history: what was fired at a place, in which order, and from where on it
was handled. `MirrorInv` says it of every hook that settles the session, not only of the last one, and that is
inductive: a post that is handled extends the history the Hub agrees with, or breaks the order and promises nothing. `FiredInv` bounds
what is under way by what was fired, `FreshInv` says that a session nobody has posted for is empty, and `LinkInv` carries the parents.
`Doing` goes by the last hook of a set; `LeastOf` and `MaxIs` show by the well-foundedness of `Nat` that there is one.

**HookMerge.** `InstallSparesOthers` and `UninstallRemovesOwn` say for hooks of any size and shape that `ApplyInstall` and
`ApplyUninstall` satisfy `SameOthers`, and that the second leaves nothing of its consumer. The witness of `SameOthers` maps each entry to where it has gone to:
its group's rank among those kept, and its own within the group. `Rank` counts, so that most of the lemmas are
about cardinalities of initial segments.

**Installer and HookRegistry.** `IInv` says which calls are where (`RunInv`), that a flock is held by a process at
work on that file (`LockOwned`), that files are well formed (`DiskInv`), and, unless the user wrote the file meanwhile: what a process has read
is still there, and what it is about to write is the edit of that (`EditInv`), and from `chmodbak` on the backup is the same
(`BackInv`). Each step is one of six kinds (`StepKinds`: a call begins, a flock is taken, work that leaves the files, a
change, an end, a user's write), and most lemmas have a case per kind. `PromiseKept` needs in addition that a change that is
made is what was asked for (`DoneInv`), and that the edits of other consumers keep it (`OthersEdit`, from `SameOthers`).

`PromisesKept` and `RegistryProofs!Implementation` have two hypotheses. `UsersOwn`: what the user writes has no
entry with a consumer's marker; a user who writes one makes it up to himself what the consumer's hooks do. `Within = {}`: no endpoint is a substring
of another one's plugin; without it they are false, as the run `installer_nested` shows. The run `installer` satisfies both. All
other theorems about the installers hold without them.

For the refinement, `HookedHolds` shows that what `hooked` reads off the disk is determined by what a file holds for
the slot, and `PromiseKept` what that is. Then the kinds of steps map as said in section 2: `WorksEffect` for the changes, `EndsTold`
for the ends, `WritesSeen` for the user's.

**Only model-checked** are the liveness properties (`PublishReturns`, `IngestReturns`, `CloseReturns` of the Hub and of the
file sink, `ShutDownReturns`) and the fairness part of `ImplementsWindow`: fairness and ENABLED are out of the prover's
reach.

## 5. Where the code and its documents disagree

Five runs end in a counterexample; each checks a sentence of the documentation.

1. `hub_chain`: `specs/design.md:302` promises the order within a session, by a reordering window. There is no such
   window, and two overlapping calls can publish against the order of their decisions. `RealTimeOrder`
   and `LastWord` say what does hold; `Mirror` says what becomes of posts that overtake each other.
2. `hub_close_early`: `sink.go:27-30` says that Close blocks until the forwarders have drained. A second Close
   returns at once. With one closer the property fails, too, by an AttachSink that has subscribed when Close is called and has not counted
   its forwarder yet. `CloseDrainsSinks` and `HandedOver` say what is guaranteed.
3. `installer_backup`: `specs/design.md:347`, `CONTRIBUTING.md:54-55` and `configfile/doc.go:3` promise backups with a timestamp
   in their names. There is one backup per file, `.bak`, and each install and uninstall overwrites it (`configfile.go:84`). After the
   second, although it may change nothing, no copy of what the user had before the first is left. `BackedUp` says what does hold: the version just before
   the last edit is there.
4. `installer_foreign`: the OpenCode installer refuses to overwrite a plugin file it does not manage
   (`opencode/install.go:141-145`), but asks only if it could read the file, and all files are backed up before they are written
   (`specs/design.md:347`), but a failure to is ignored (`:177`). A file of the user's that it cannot read, neither to look at it nor
   to back it up, is replaced, and no copy remains. (If the second read succeeds, there is a backup.)
5. `installer_nested`: with a plugin for `http://h/opencode` in place, installing for `http://h` finds its own address in it
   (`opencode/install.go:250-253` looks for a substring), reports it as installed and leaves a plugin that posts elsewhere.

More that have no run of their own:

- The doc of Ingest (`hub.go:183`) says that nil means the signal was dispatched. A Close between decision and publication
  (`hub.go:160-174`) discards the Event, and nil is returned; so does a Hub that was closed before. `PublishedAsDecided` says that only a Close does this.
- Installs and uninstalls are to leave the user's config untouched (`install.go:25-26`, `specs/design.md:170`). His entries they do
  (`OthersKept`). But an install replaces a value under "hooks", or for an event, that has not the type expected
  (`claude/install.go:175-183`), and an uninstall removes groups that never had an entry (`:251`).
- The doc of `Publish` (`broadcast.go:76-79`) says a value is dropped only if the buffer has no room.
  A reader that takes one of several values between the full-check and the drain makes room, and the
  drain discards another one all the same. It is counted (`Accounted`).
- The docs of the file sink (`file.go:136-138`) say that the oldest event makes room for the newest. With two Sends
  at once the newest can be the one that is dropped. The counter is right all the same (`DropsExact`), and behind a single
  forwarder it does not happen (`LastCaptured`).
- A Send of the file sink that passed its check before Close was called may queue its event after the
  last drain: it is neither written nor counted. `CloseFlushes` therefore speaks of the events whose Send had
  returned in time; in the documented order of shutdown it does not happen (`Captured`).

## 6. Plan

Done: the event path from an agent's hook to a line in a file, with the faults in between; the installers and their abstract
specification; proofs of every safety property the passing runs check, and of both refinements. To come:

1. The pure parts on their own: what `Decide` and the three mappings promise for every signal and payload,
   stated as theorems instead of lemmas on the way to `Recovers`.
2. About `HookRegistry` itself: that `told` is true of `hooked`, so that what a caller was told follows from the abstract
   specification alone.
3. The hypothesis `Within = {}`: a weaker one that allows endpoints within others as long as no two are used for the same
   plugin.

The project keeps to twelve runs and eight modules with theorems. All are taken; new theorems go into the modules there are.

Not modelled, and not planned: the text of log lines and errors, `NewHub`'s and `New`'s defaults other than sizes, the
expansion of path templates, the encoding of JSON lines, `ServeHTTP`, the snapshot `Adapters()`,
the installers' warnings, the packages without code.
