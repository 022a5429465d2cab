# A TLA+ verification of AI Connector

AI Connector runs on the computer where Codex, Claude Code and Gemini CLI write
their session logs. It watches the logs, keeps one outbound WebSocket to a
server, shows the sessions on a dashboard there, and starts, continues and
cancels local agent processes when the dashboard asks. This directory holds
TLA+ modules for the parts of it that are hard to test, the TLC configurations
that check them on small instances, and TLAPS proofs of the safety properties
the passing runs check, for every value of the constants.

`PROJECT.json` lists the components, the runs, a mutant of the code for every
property, the source lines behind every definition, the findings and the
hazards.

## 1. The system

| Part (under `src/internal` unless said) | State | Operations | Modelled in |
|---|---|---|---|
| Remote control, `observerrelay/relay.go` | `managed`, `cancelRequested`, `starting`, `cooldowns`, `newStarting`, `newCooldowns`, `requests`; the child processes | handlers for start, resume, cancel, detail, input; a watcher goroutine per child | `ManagedRelay` (complete) |
| Process manager, `processmanager/` | process groups | Configure, TerminatePID | `ManagedRelay` (Unix version) |
| Connection, `observerrelay/relay.go` | backoff, the socket, `subscribed`, heartbeat and forwarder goroutines | Run, connect, authenticate, readLoop's exits, heartbeat | `ConnectionLoop` |
| Observation pipeline, `multiobserver/` and `forwardObservation` | the projection, four channels, the pending map | Scan, rebuild, forward, deltas, snapshots | `ObservationPipeline` |
| Codex adapter, `codexobserver/observer.go` | `files`, `sessions`, `resumes` | Scan, reduceLine, RegisterResume, CancelResume, SetManaged | `CodexObserver` |
| Metadata store, `observerstore/` | tables `observed_files`, `session_continuations`, `managed_processes` | one transaction per call | `CodexObserver` (the first two) |
| Line adapter, `lineobserver/`, `claudeobserver/`, `geminiobserver/` | `files`, `sessions` | Scan, reduceLine, markUnknown, Reduce, SetManaged | `LineObserver` |
| A session's row, the same files | status, tool, last activity | reduceLine, Reduce, markUnknown | `SessionRow`, run by `DetailView` |
| Session detail, `codexobserver/detail.go`, `lineobserver` Detail | none | Detail | `DetailView` |
| Command line, `src/cmd/ai-connector/main.go` | none | pair, observe serve, status, doctor | `CommandLine`; signals in `ConnectionLoop` |
| Services, `src/cmd/ai-connector/service_*.go` | a Run value, a systemd unit or a LaunchAgent; the processes | install, uninstall, start, stop | `CommandLine`; the restart policy also in `ConnectionLoop` |
| Configuration and keys, `connectorconfig/` | `connector.json`, at one of three places | LoadDefault with its migration, EnsureIdentity, Save | `ConnectorConfig` |
| Terminal, `terminal/` | a PTY | used by its own tests only | no |

### How the parts interact

* An adapter polls its log directory. Each change of a session goes into its
  `updates` channel (128) or `removals` channel (32) with a `select` that has a
  default case: a full channel drops the newest message.
* `multiobserver` scans all adapters once, rebuilds its projection from them,
  and then runs one `forward` goroutine per adapter that moves messages into the
  projection and into two channels of its own.
* The relay dials, authenticates with a signed challenge, and serves one
  connection at a time: `readLoop` runs the handlers one after the other,
  `heartbeat` writes every few seconds, and `forwardObservation` collects
  messages in a pending map and writes it every 250 ms when a dashboard has
  subscribed. A subscription is answered by a snapshot of the projection.
* A resume handler reads the projection, reserves the session, looks up the
  command, registers the continuation with the Codex adapter (the log that the
  new process writes belongs to the old session), starts the process, records it
  and shows it as managed. A watcher goroutine waits for the process, releases
  the session into a cooldown, clears the indicator and reports a failure.
* Every command of the command line is a process of its own. It looks for a
  configuration at the default path, then where earlier builds kept it, and
  copies what it finds there to the default path. `pair` generates an identity
  if there is none, has it claimed by the server, and then saves it. `observe
  serve` goes on to be the Connector; the services start it, keep it and end it.

### What is hard, and what correctness means

The list with source lines is "hazards" in `PROJECT.json`. In short:

* **Remote control.** Handler, watchers, processes, forward goroutines and
  crashes interleave between critical sections. No two children may work on one
  session or in one directory; no reservation may leak on any failing step; a
  cancelled child is never reported as failed; a redelivered request starts
  nothing; a target becomes usable again.
* **Connection.** Deferred calls, goroutines that wait for each other, a signal
  at any moment. Nothing is written before authentication; the Connector must
  keep dialling and must stop when told to.
* **Pipeline.** Lossy bounded channels, two channels per stage whose messages
  overtake each other, a backlog from before the first projection, snapshots
  against deltas. The dashboard must end up with the adapter's state.
* **Adapters.** Logs are truncated, renamed, deleted, shared and half-written
  while they are scanned; a failing file ends a walk; a restart forgets
  everything but the store. Sessions must exist exactly as long as their logs,
  tailing must equal reading, aliases must be the stored ones.
* **Detail and row.** The two representations of a Codex message in any order,
  limits; two logs of a continued session that share one row.
* **Commands.** Processes share a file that is emptied before it is written,
  and a process list that changes while it is read; any of them may be killed
  between two steps. Only an identity that the server has accepted may serve, a
  paired device must stay paired, start and stop must act on what runs.

## 2. The modules

`ManagedRelay` is the core. `handler` is the goroutine of `readLoop`, with its
position and locals; `children` holds each `exec.Cmd` with its process
(`os`), its watcher goroutine (`watch`) and history flags. One action is one
critical section, one system call or one socket write, so that everything that
may happen between two of them in Go may happen between two actions.
`ReceiveResume`, `ReserveResume`, `ResumeCommand`, `RegisterResume`,
`StartResume`, `WithdrawResume`, `ReleaseReservation`, `ActivateResume`,
`ShowManaged`, `Acknowledge` are `handleResume`; the actions with New and Start
are `handleStart`; `ReceiveCancel`, `SigTerm`, `SigKill`, `AcknowledgeCancel`
are `handleCancel` with `TerminatePID`; `Reap`, `ReleaseManaged`,
`ReleaseStarted`, `ClearManaged`, `Report`, `SendFailure` are the watchers.
`AdapterUpdate`, `AdapterRemove`, `ForwardUpdate`, `ForwardRemoval` move the
projection that the handlers read; `Carried` is what a log line leaves of the
managed indicator, which only Codex always carries over. Time is a tick: each
deadline is kept as the
ticks left to it. `MCManagedRelay` adds symmetry sets.

`ChildSlots` is the abstract promise of remote control: each target has a slot
that is free, reserved, occupied or cooling, and moves only along free,
reserved, occupied, cooling, free. `ManagedRelay!SlotsImplemented` is the
refinement, with `SlotOf` computed from the relay's maps and the real processes.

`ConnectionLoop` follows the goroutine of `Run` with its deferred calls as the
stack that Go keeps; `Forward` and `Heartbeat` are the goroutines, `wire` is the
history of message types on the present socket.

`ObservationPipeline` carries version numbers for states, through
`aUpdates`/`aRemovals` (adapter), `projection`, `mUpdates`/`mRemovals`
(`multiobserver`), `pending`, `snapshot` and `dashboard`; `dropped` remembers
that some send met a full channel. The answer to a subscription is three steps,
`Subscribe` (from which on the ticker flushes), `ReadProjection` and
`WriteSnapshot`; `overtaken` remembers the sessions of which a delta was written
between the last two. One adapter stands for all three, since they
share nothing but `multiobserver`'s channels.

`CodexObserver` has one action per file of a walk (`ScanFile`) and per line
(`ReduceMeta`, `ReduceOther`), so that calls of the relay and changes of the
directory fall in between. A log is a sequence of `session_meta` lines (id and
time) and other lines. `MetaContinued`, `MetaOrphaned`, `MetaMatched`,
`MetaOwn` are the branches of `reduceLine`; `continuations` and `stored` survive
`Restart`.

`LineObserver` counts sizes in half lines, so that a line may be read in two
parts; `agent` decides between the two Reduce functions (Claude Code needs an id
in every line, Gemini CLI only in the first). `shared` and `rewritten` are
history variables that the properties use to say what the code cannot know.

`SessionRow` holds what a line changes of a session's status, tool and last
activity, for each adapter: the `switch` of the Codex `reduceLine`, the two
Reduce functions, and a line that is no JSON. `DetailView` reads the logs of one
session line by line, as both the first scan and Detail do: `Read` changes the
row and turns the line into the events that the adapter's detail function makes
of it (`CodexEvents`, `ClaudeEvents`, `GeminiEvents`), `Take` merges, keeps or
drops them one after the other, `Answer` sorts. `ReadContinuation` goes on to
the log of the session's continuation.

`ConnectorConfig` has the files, the identities the server has accepted and the
processes; its actions are the system calls of LoadDefault (`Look`), of Save
(`Truncate`, `Write`: `os.WriteFile` empties the file first) and the claim of
`pair`. An identity stands for device id, credential id and key pair, which are
generated and stored together. `CommandLine` adds who starts processes (`Run`,
`GoRun` for `go run`, `ManagerStarts`, `LoginAgain`), who ends them (`Die`), and
one action per platform for each service command, step by step where the code
lists processes first and acts later (`StartWindows` and `SpawnObserver`;
`StopLists`, `StopListsRunners`, `StopKills`). A step that asks another program
or writes an entry may fail. Processes in `Renamed` run from a file that is not
named `ai-connector.exe`: `Observing` are all observers, `Observers` those that
the Windows list shows, and `entry` names those that may run from the file of
the process that installed it (`Namesakes`). A `Write` over what another process
has written since the file was emptied may leave a mixture (`Written`).
`MCCommandLine` chooses the machines: new, paired by this or an earlier build,
or with a configuration that names no identity (`Blank`).

Adapters' files and sessions appear in two models on purpose: `CodexObserver`
knows continuations and the store and swallows a vanished file in its callers,
`LineObserver` knows half lines and statuses and swallows it in `Scan`.

## 3. The runs

Bounds are constants of the configurations, each named in its module. Deadlock
is checked for the relay; the other systems may really come to rest (no more
changes, process ended, log read), and their configurations say so.

| Run | What it shows | Bounds and why they are enough |
|---|---|---|
| `relay_control` | The safety of remote control: types, one child per target, reservations owned, cancels silence failures, redelivery, the inductive invariant, and the refinement of `ChildSlots` | 1 Codex session, 1 directory, 2 requests, 2 children, 2 pids, 1 crash: two of everything that competes, and an orphan of an earlier run next to a new child |
| `relay_liveness` | A target whose child exited is usable again; a cancelled child ends; no late `SetManaged(nil)` of an old watcher takes a newer child's indicator | a directory, a session of a line adapter and two children, an old and a new one; cooldown of 2 ticks, watcher stalls of at most 1 tick between release and clear, adapter channels of 1; no crash, which would end the promise |
| `relay_registration_leak` | Finding, see section 6 | 1 session, 1 child |
| `connection` | Backoff, nothing before authentication, one forwarder, redialling and stopping while offline | 2 connections that become ready: an old and a new one |
| `connection_revoked` | Finding | the same |
| `pipeline` | Silence before a subscription, the backlog of the first scan, arrival of what was neither removed nor dropped; a removal that races with no update and finds room empties its row | 2 sessions, of 2 states and of 1, 2 removals, an adapter channel of 2 and forwarding channels of 1, which 3 updates overfill, and the second removal when the first still waits; 1 subscription, which may be withdrawn |
| `pipeline_reorder` | Finding | 1 session of 2 states, 1 removal, channels that never fill |
| `codex` | Sessions and logs, stored aliases, the managed indicator, catching up | 2 logs of 2 lines, 2 ids, 3 changes (failing files included), 1 registration, 1 restart, 1 tick, which is the whole resume window |
| `codex_restart_alias` | Finding | 2 logs of 1 line |
| `line` | Tailing equals reading, sessions and logs, the indicator, catching up | 2 logs of 2 lines, 4 changes, lines of two sessions and without id, and lines that are not JSON where a half line is glued to other text; 4 changes are two half lines, a truncation and a new line |
| `detail` | Limits, nothing forgotten, messages shown once, the row after reading again | 5 lines of each adapter, out of 12 for Codex; limits of 3 events and 5 runes: two messages written twice and one more event; for the row 4 lines out of 13 about turns and tools, in one log or two |
| `commands` | Types, only accepted identities serve, a paired device stays paired, start sees and stop ends what runs | 3 processes: two commands and what they start, or stop, a runner and its child; one is named `ai-connector.exe`, two run from files of another name and in a directory of their own; 5 machines, any platform; the renamed processes are interchangeable, and the run has no liveness property, so symmetry is sound |

`TypeOK` is each module's type invariant. Some properties state what they
except: `CatchesUpUndisturbed` (nothing removed, no channel full; rows of which
a delta was written before an older snapshot), `LoneRemovalArrives` (removals
that race with an update or find no room in `multiobserver`'s channel, and the
same rows), `IndicatorOutlivesChild` (a log line of a session of a line
adapter), `TailingIsReading` (logs rewritten to their old size unnoticed;
sessions of several logs), `ManagedKept` of `LineObserver` (the first line of a
log that joins a session), `LatestDecides` (an unreadable line in a continued session),
`StartSeesRunning` (Linux and macOS, where the service manager looks at its own
process only; on Windows observers that are not named `ai-connector.exe`) and
`StopStops` (the same on Windows; on Linux all but the unit's process; macOS).
The exceptions are what the code does; section 6 says so.

### Fairness

* Relay: weak fairness of the running handler, of each watcher and of the clock.
  Goroutines run, system calls return, time passes. A child need not exit, a
  browser need not send.
* Connection: weak fairness of the steps of the goroutines and of the service
  manager's restart (`Restart=` in the unit). The peer owes nothing. The
  authentication deadline is why `FailAuth` is fair.
* Pipeline: weak fairness of the goroutines; strong fairness of the branches of
  the forwarder's `select`, which picks at random among ready cases, and of its
  ticker. Nothing is assumed of the order in which a delta and a snapshot are
  written.
* Adapters: weak fairness of the scan as a whole, which the poll ticker gives.
  Nothing is assumed of the agents that write the logs.
* `DetailView` and `CommandLine` state safety only: a user owes no command.

## 4. What is proved

Every invariant of the passing runs, their action properties and the refinement
of `ChildSlots` are theorems, for every value of the constants that the named
assumptions of the modules allow. Each module of proofs belongs to one module of
the model; `FoldLemmas` has the laws of `FoldLeft` and of the least element for
any operator, as lemmas, and is instantiated where they are needed. Liveness is not proved
(section 5).

| Module | Theorems (the property they state) | Inductive invariant |
|---|---|---|
| `ManagedRelayProofs` | `TypeCorrect` (`TypeOK`), `OneChild` (`OneChildPerTarget`), `NoLeak` (`ReservationsOwned`), `Invariance` (`RelayInv`) | `RelayInv` |
| | `RedeliveryHarmless` (`RedeliveryStartsNothing`) | with `ForkInv` |
| | `CancelSilent` (`CancelSilencesFailure`) | with `CancelInv` |
| | `IndicatorKept` (`IndicatorOutlivesChild`), `RelayImplementsSlots` (`SlotsImplemented`) | with `CoolInv` |
| `ConnectionLoopProofs` | `TypeCorrect`, `SilentBeforeReady` (`AuthenticatedFirst`), `OneForwarder` (`SingleForwarder`), `ConnectStaysForever` | `ConnInv` |
| `ObservationPipelineProofs` | `PipelineTypes` (`TypeOK`), `SilentBefore` (`SilentUntilSubscribed`), `ProjectionComesTo` (`ProjectionFollows`) | `SilentInv`, `FollowInv` |
| `CodexObserverProofs` | `CodexTypes` (`TypeOK`), `SessionsHaveFiles` (`SessionsReferenced`), `AliasesAreStored` (`AliasesStored`), `IndicatorSurvivesLogs` (`ManagedKept`) | `SessionsInv` |
| `LineObserverProofs` | `LineTypes` (`TypeOK`), `SessionsHaveFiles` (`SessionsReferenced`), `IndicatorSurvivesLogs` (`ManagedKept`), `TailingReads` (`TailingIsReading`) | `SessionsInv`, `ReadingInv` |
| `DetailProofs` | `DetailTypes` (`TypeOK`), `LimitsHold` (`LimitsKept`), `AllShown` (`NothingForgotten`), `ShownOnce` (`MessagesShownOnce`), `LatestLineDecides` (`LatestDecides`) | `TypesInv` with `Limited`, `Queued`, `Shown`, `OnceInv`, `RowInv` |
| `CommandLineProofs` | `TypeCorrect`, `AcceptedServes` (`ServesClaimed`), `NotForgotten` (`PairingNotForgotten`), `StartSees` (`StartSeesRunning`), `StopEnds` (`StopStops`) | `IdentityInv`, `PairInv`, `CommandInv` |

### Remote control

The assumptions are `SetAssumption` (sessions and directories are disjoint, the
null value is none of the others, handles are finitely many) and
`BoundAssumption` (cooldowns are positive, bounds are naturals, and a watcher
stalls for less than the resume cooldown before it clears its indicator).

`OneChildPerTarget` and `ReservationsOwned` are not inductive: that a handler
may fork follows from what it reserved some steps ago, and that the reservation
excludes other children follows from how those are recorded. `RelayInv` adds

* `HandlerOwns`: at each position between a reservation and its end, the target
  is in `starting` (or `newStarting`), `managed` has no entry for it, no child
  holds a directory being reserved, and a child just forked has no watcher yet;
* `HoldersRecorded`: a child that holds a session is the one in `managed` or
  the handler is about to put it there, and one that holds a directory keeps
  `newStarting`;
* `WatchersHold`: a watcher that waits or releases has a process.

`TypeStep`, `WatchersStep` and `OwnershipStep` show that `Next` preserves it,
with one step per action; `QuietStep` and `MoveStep` treat the actions that only
touch the projection or the handler's position. `relay_control` checks
`RelayInv` as well. The other promises need it and more:

* `ForkInv`: a request id that is forgotten has no fork to its account, and one
  whose handler may still fork is remembered and has none. Both are needed
  because requests are forgotten while children run.
* `CancelInv`: a child that was killed is held and marked as cancelled in
  `managed`, or its watcher has taken the silent copy, or it is an orphan. The
  hard case is the SIGTERM that goes to a pid read earlier: as long as the child
  that had it has not been reaped the pid is its own, and then the entry is
  marked already (`SigtermRead`).
* `CoolInv`: nothing is reserved while it cools, and a watcher that is about to
  clear has the cooldown of its session behind it with at most `ClearBound`
  ticks gone. So no newer child can hold the session when the indicator goes;
  this is where the proof uses `ClearBound < ResumeCooldown`: that a watcher
  goroutine is not delayed for the whole resume cooldown of five seconds.
  `IndicatorKept` says that much of handlers and watchers; a log line of a
  session of a line adapter may take the indicator (`Carried`), and does so in a
  step that leaves the relay and the children as they are.
* `SlotStep` maps every action to a step of `ChildSlots` or to a stutter. The
  abstract slots are computed from `Held`, `Reserved` and `Cooling`; `CoolInv`
  gives that a released slot cools before it is free, and `HoldKept` that the
  actions of other targets leave it alone.

### Connection

For every `MaxConns` (`MaxConnsAssumption`). `ConnInv`: the Connector is
`Offline`, with no goroutine and at most one deferred call, or it is `Served` by
its first ready connection. No step leaves `Served`, because the last deferred
call waits for the forwarder and `stop` is still open: `ConnectStaysForever` is
the finding of `connection_revoked` (section 6) for every number of connections,
and the reason why the other two hold. A repair of the order of the deferred
calls needs a new proof of them; the runs of `connection` would go on to check
them.

### Pipeline

`PipelineAssumption`: channels hold something. `SilentInv` says what a flush
could carry to the dashboard before a subscription. `FollowInv` explains why
draining the channel ends with the right projection although `rebuild` has
overtaken the first scan's backlog: the *last* update of a session that waits
has its current state, and if none waits the projection has it. Old updates in
front of it do set the projection back, so nothing weaker is inductive.

### Adapters

* Codex (`ObserverAssumption`: log paths are ordered and finitely many).
  `SessionsReferenced` and `AliasesStored` hold jointly: a continuation keeps its
  parent in the map only because the alias that a file stands for is the stored
  one, and an alias is stored only for a session that has a file. `TableKept`
  says that an untracked file has no state and that lines wait only for a
  tracked one. Matching takes the newest registration, which the proof finds as
  a least element (`SmallestNat`).
* Line adapters (`LineAssumption`). `SessionsInv` is as above, with `shared` for
  sessions of several logs. `ReadingInv` says for each log that was not
  rewritten where the scan stands in it: the lines that wait are those between
  two positions, an odd offset has read the first half of the next line, and the
  file's state is the fold of `Reduced` over the lines before. That tailing is
  reading then is one law, "folding one more line applies `Reduced` once more"
  (`FoldAppend`). The induction behind it is by a least counterexample over the
  length of the sequence, since the provers cannot instantiate an operator.

### Detail and row

`DetailAssumption`: limits are naturals, a text may have a rune, and no line is
newer than the moment it is read at, which only `LatestLineDecides` needs: an
unreadable line stamps the row with that moment.

* `LimitsHold`: the counted runes are the sum of what is shown. A replacement
  keeps the sum because both representations have one content; sorting is shown
  to be a permutation (`SortedPermutes`, by ranks that are pairwise different)
  and the sum not to depend on the order (`SumPermuted`).
* `AllShown`: "some candidate stands for the event" is not inductive, because
  what stands for an event at the edge of the Window could be replaced by
  something beyond it. `Shown` says which representation is shown: a replaced
  candidate is always a response_item, and has replaced nothing itself.
* `ShownOnce`: `OnceInv` counts. Between two messages all that is shown of them
  are event_msgs, as many as there were pairs. After a first half there are
  three cases: it is shown as an event_msg, it is shown as a response_item and
  is the only one, or it was a response_item that equals an earlier message and
  vanished in it; in each the second half restores the balance.
* `LatestLineDecides`: that the row agrees with the latest line is not inductive
  with two logs, since older lines of the continuation are skipped by comparing
  with the time of the *row*. `RowFollows` adds that this time is the time of
  some line read, or of the continuation's start; so what is skipped is never
  the latest.

### Command line

For every set of processes, every initial state of the files that `Found` allows
and all `Searches`. The assumptions are `NamesAssumption`, `SearchAssumption`
and `FoundAssumption` of `ConnectorConfig`, and `RenamedAssumption`: any of the
processes may run under another name.

* `IdentityInv` says that every identity in a whole file or in a process is one
  the server has accepted, and that a process that writes or serves has one.
  `Claim` adds to the accepted ones before anything is written, `Truncate`
  leaves nothing that can be read, so `Write` and `Look` only move accepted
  identities around.
* `PairInv` is what `PairingNotForgotten` needs on top: a process whose own
  identity has been accepted is writing it or over, so that no file holds the
  identity of a process that still looks; and a `pair` that began with
  something at its default path leaves its first look with an identity or ends.
  A file never becomes absent again, which `FilePair` uses.
* `CommandInv` follows what a service command has seen: an observer or a
  `go run` that ran when the command began is one until it ends, and what
  `service stop` has to end is on its list, a `go run` that the second list will
  find, over, or an observer under another name.

Most steps change no file and no accepted identity; `Quiet` names what they may
make of a process, and `QuietPair` treats them together.

## 5. What is only model-checked, and what is not modelled

Model-checked only: all liveness, since fairness and ENABLED are outside the
proof system. These are `TargetReusable` and `CancelTerminates` of
`ManagedRelay`, `RedialsWhileOffline` and `StopEndsOffline` of `ConnectionLoop`,
`CatchesUpUndisturbed` and `LoneRemovalArrives` of `ObservationPipeline`, and
`LogsFollowed` of both adapters. Of the counterexamples of section 6 only that
of `connection_revoked` is also a theorem.

Not modelled:

* text: titles, directories, names of tools, the nesting that text extraction
  looks through, the repair of mis-decoded tool output, the argument quoting;
  and the reports that the commands print, their flags and prompts;
* sockets that block: a write always returns, while in the code a peer that
  stops reading holds `writeMu`;
* the relay over several connections: after the first one that is ready,
  `connect` never returns (section 6), so one connection is all there is, and a
  report to a connection that has ended cannot be told from a lost one;
* the addresses of the configuration, the environment variables that override
  its fields, and a `Save` that fails after the claim (in `Claim` the answer may
  be lost, which leaves the same state); the Windows process manager;
* the terminal package, which nothing in the program uses; `managed_processes`,
  which is written and never read.

## 6. What the code does differently from what is written

Four runs end in a counterexample to a statement of the repository.

* `connection_revoked`. `connect` defers `close(stop)` before
  `<-updatesDone`, so it waits for a forwarder that only ends when `stop` is
  closed (`relay.go:144-148`). After the first accepted connection ends for any
  reason, device revocation included, the goroutine never returns, the socket is
  never closed and the Connector never dials again.
* `pipeline_reorder`. Updates and removals of a session travel in two channels,
  and `select` may take the later one first; a removed session then stays in the
  projection and on the dashboard. The property, `CatchesUpUndropped`, excepts
  full channels and the rows of the next list's `CatchesUp`.
* `codex_restart_alias`. After a restart a continuation whose log is walked
  before its parent's finds no local parent and is deleted from the store.
* `relay_registration_leak`. `CancelResume` needs the session's location; when
  the session has left the projection between registering and a failing start,
  the registration stays, and the next new log in that directory is shown as a
  continuation.

The modules define some more statements of the documents that do not hold. They
are no runs; replacing the property of a configuration by them gives the trace.

* `NeverResumesActive` (`ManagedRelay`): the status is read at the start of
  `handleResume`, and an update before `ResumeCommand` makes the session active.
* `SignalsReachTarget` (`ManagedRelay`; 3 requests): the pid that `handleCancel`
  has read is reaped and given to another child before the signal.
* `IndicatorOnlyWhileOwned` (`ManagedRelay`; adapter channel of 1): the session
  is out of the projection when its child ends, `SetManaged(nil)` does nothing,
  and the next update shows the old indicator again.
* `StopEnds` (`ConnectionLoop`): `readLoop` does not watch the context, so
  SIGTERM does not end a connected Connector.
* `ReadableLogsFollowed` (`CodexObserver`): a log that can never be opened ends
  every walk at its place, and the logs behind it are never read.
* An unreadable line (`LatestDecides` without its exception): it stamps its
  session with the present time (`observer.go:469`), so that after a restart all
  lines of the continuation are older and skipped, and the row stays `unknown`
  until something new is written.
* `CatchesUp` (`ObservationPipeline`; no removals, channels that never fill):
  `subscribed` is set before the projection is read, and that before `write`
  takes its lock (`relay.go:247-248`). The forwarder may write a newer delta
  first, the older snapshot then replaces it, and nothing sends the newer state
  again.
* `StopStopsService` (`CommandLine`, in `Commands.cfg`): the Windows process
  list is filtered by the name `ai-connector.exe` (`service_windows.go:134`), but
  `service install` enters the file the command runs from. With the published
  `ai-connector_<version>_windows_amd64.exe`, which the guide says to run
  directly, `service stop` says that nothing runs, and the observer that a login
  has started goes on.
* `StopStops` without its exception of macOS: the guide's "Temporarily stop the
  service:" does not hold there, where `launchctl kill` sends a SIGTERM and the
  KeepAlive of the LaunchAgent starts the observer again
  (`service_darwin.go:66-68`).

Some more were met while modelling, and no property states them:

* `config.go:47`: "Migration keeps existing pairings usable after upgrading."
  On Windows `Save` stores only the protected key, and the migration of such a
  file always fails (`config.go:164`, `MaySave`), so that every command fails.
* Any command migrates, `status` too: one that has seen the default path empty
  may write the old identity over the one that a `pair` has saved meanwhile. The
  server has accepted both, so `ServesClaimed` holds.
* The guide says the row shows "whether a tool is currently active". A tool is
  only ended by its result (`observer.go:392-396`), so it is shown as running
  after its turn was aborted.
* A user line of Claude Code is shown as its first tool result only, without
  further results or the text beside it.
* On Linux and macOS `service start` starts the unit or the agent beside an
  observer that is run by hand; only Windows looks for one.
* Times are compared as the strings that the logs hold (`detail.go:86`), in which
  `01.010Z` comes before `01Z`: the model's order is that of times written with
  one precision.

The runs also except, and so point at: updates and removals dropped by a full
channel are never sent again; the stored offset is never read; an error during the first
`Scan` of `Run` ends an adapter for good; a log that grows back to its old size
between two polls is read on in its middle; the first line of a second log of
one session of a line adapter resets that session's status and managed
indicator; when the log
directory disappears its sessions stay.

## 7. The plan

Done: `ManagedRelay`, `ChildSlots`, `ConnectionLoop`, `ObservationPipeline`,
`CodexObserver`, `LineObserver`, `SessionRow` and `DetailView`,
`ConnectorConfig` and `CommandLine`, with proofs of the safety properties of
their runs.

Extending the model:

1. Blocking writes under `writeMu` in `ConnectionLoop`.
2. `SessionRow` inside `CodexObserver`: the status while two logs are tailed.
3. The relay with the Codex adapter: a registration from `RegisterResume` to the
   line that consumes it, in place of `ConsumeRegistration`.
4. An abstract specification of the pipeline (the dashboard holds some earlier
   state of each session, and the latest in the end) that it refines.

Proving more:

1. The safety part of item 4: what the dashboard shows of a session is a state
   that the session has had.
2. The step arguments behind the liveness properties, each as an action property
   (what keeps a goal within reach until the fair action is taken).
