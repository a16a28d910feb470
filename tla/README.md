# A verification of Jonsbo Resurrection in TLA+

Jonsbo Resurrection is a Go program for Windows that drives the displays of a
JONSBO TF3-360SC cooler (one pump screen, three fan screens) and of a Raijintek
Cyclops 360. It runs modules that sample the machine, draws their views, sends
the frames over USB, and serves an HTTP API with a display editor. The modules
here model its concurrent and stateful core, TLC checks them on small instances
and TLAPS proves the properties that matter most for every value of the
constants.

## 1. The system

```
 sensors, adapters --> modules --> engine.Runtime --> api event streams
                                      |   ^
                                frames|   |events (HTTP, AI adapters)
                                      v   |
 configurator <--Assign--> output.Manager --> USBDriver --> display protocol --> panels
   state.json, media
 tray --child process, stop event--> serve (composition of all of the above)
```

### Components

| Component | State | Operations | Hard behaviour | Correct means |
| --- | --- | --- | --- | --- |
| Module runtime, `internal/engine` | entries (status, snapshot, run), subscribers with a one-slot channel, started, closing, done | Register, Start, run/publish, Close, Subscribe, Snapshot, Frame, Event | publications, returns, Close and readers in any order; slots overwritten | a reader ends with the latest snapshot and never goes back; done is closed once; after it nothing moves; Close returns |
| Event streams, `internal/api` | one subscription per stream, the snapshot written last | initial snapshot, forwarding, disconnect | a change between Subscribe and the first Snapshot | see the runtime |
| Display manager, `internal/output/manager.go` | per screen: assignment, status, saved; one worker each; parent context | Assign, Run, send, sendImage, farewell | a frame in flight while the screen is reassigned or the context is cancelled; farewells; close of the driver | a live screen shows its assignment; a saved one has its preview; the driver outlives the workers; workers settle and stop |
| USB driver, `internal/output/usb_windows.go` | retained sessions, open handles, closed | Send, Close | open fails, transfer fails, cable pulled, replugged | handles owned exactly once, recovery at a later frame |
| Display protocol, `internal/display`, `internal/protocol` | position in the transaction, endpoint queue | fan, pump and Cyclops transactions | stale acknowledgements, lost replies, deadlines in the middle of a frame | an acknowledged frame is the one shown; frames are not mixed |
| Configurator, `modules/configurator` | layouts, assets, bindings in memory; `state.json`; media folders | PUT and DELETE layout, upload and DELETE asset, apply, New | a failure or crash between any two file operations; renderers, which read in several steps, and direct assignments beside the mutex | the file always loads; references resolve, and a renderer misses media only of a layout that has changed since it read it; assignments agree with bindings; media are accounted |
| AI subscriptions, `modules/aisubscriptions` | accounts, linked, sessions, daily totals, deduplication, `state-v1.json` | Observe, prune, limits, persist, Snapshot | redelivered, late and reordered observations; limits; failed saves | usage is counted once; newer data survive; disk equals memory |
| AI adapters, `internal/aiadapters` | enabled providers, aliases, RPC process, back-off | Run, refresh, check, monitor, disconnect, ingest | refresh, disconnect and shutdown overlap; account changes during a reading | a disconnected provider stays so; readings belong to the verified account; no native process is left |
| RPC client, `rpc.go` | call number, reply queue of 8, done | Call, Initialized, Close, reader goroutine | late replies, writes that hang, Close from three goroutines | a call returns its own reply or an error |
| Tray, `cmd/jonsbo/tray_windows.go` | child process, retries, retry time, wanted | start, finish, tick, stop | exit, retry and stop race; stop times out | at most one child; no restart after Stop; bounded retries |
| Single instance, `control_windows.go` | named mutex, named manual-reset event | monitorControl, signalMonitorStop, cleanup | an event signalled to a finished instance | one instance; a stop reaches the instance it is meant for |
| Startup registration, `internal/startup` | Run value, scheduled task | Enable, Disable, applyChange | second write or rollback fails; crash in between | one of the two stays registered; what is not the program's stays |
| HTTP API, `internal/api` | semaphores of 32 requests, 32 streams, 2 renders, 2 editor requests | routes | early returns, streams that end, posts that break off | every slot taken is given back; metadata is refused for a stated reason only |
| Server composition, `serve_windows.go` | contexts, locks, done channels | start, bounded shutdown | order of start and stop | no work outlives the control that guards it, unless the 5 s ran out; they run out only on what hangs; serve returns |
| Hardware, example, telemetry, config | samples, one file | Run, Load, Token | - | see the runtime |
| Renderers (what they draw), web editor, bridge, observer, extension, installer, scripts, third-party | none, or none of the program's own | - | - | - |

`PROJECT.json` lists every component with its sources and its status, and under
"hazards" each place where the code is hard to test.

## 2. The plan

Written, in this order:

1. `Snapshots`, `StateFeed`, `Engine` - the runtime and its abstract feed
2. `Output` - the display manager
3. `USBDriver` - the connections below it
4. `Display` - the transactions below those
5. `Catalog`, `Library`, `Configurator` - the editor, its files and its abstract store; `Renderer`, which
   composes the editor with a renderer that reads beside it
6. `Subscriptions` - the observations of the AI module and the file they are kept in
7. `Desktop` - the tray, its server, the stop command and what is started by hand,
   composed through named mutexes, stop events and the job object

8. `Startup` - the two startup mechanisms, changed by overlapping callers value by value
9. `Adapters` - rounds, checks, monitoring, refreshes and disconnects under `op`
10. `Projection`, `Server` - the projectors and the module's validation as functions; the
    composed server with its slots, streams, intake and bounded shutdown

To come:

11. `RPC` - the reply queue of the RPC client, late replies and its reader goroutine.
12. `AccountAliases` and rotated quotas of the AI module, which are only displayed.

Each component's proofs are in a module of their own (`EngineProofs`, `OutputProofs`, `DesktopProofs`,
`StartupProofs`, `ServerProofs`, `AdaptersProofs`, `ConfiguratorProofs`, `SubscriptionsProofs`); `OutputProofs`
also proves about the `USBDriver` that the display manager's workers send through and about the
transactions of `Display`, and `ServerProofs` about the functions of `Projection`.

Abstract specifications: `StateFeed` (runtime), `Library` (configurator). The runs
keep two or three actors of each kind, one or two retries, and every limit at its
boundary; section 4 names each bound.

## 3. Modules and code

Definitions keep the source's names; `PROJECT.json` maps each to its lines.

**Engine** (`internal/engine/runtime.go`, event streams of `internal/api/api.go`).
`entry` is a module's status and a version number for its JSON snapshot; `slot` is
a subscriber's channel of capacity one. The lock of `publish` is explicit only
where the code releases it between two writes: `PublishBegin` and `PublishCommit`
are separate because JSON encoding happens before the lock is taken. `Notify` is
`notifyLocked`: empty the channel, then fill it. A stream reads its channel,
then the snapshot. `StateFeed` has no channels: every reader sees some snapshot that
is not older than the one before, and a finished module is frozen.

**Output** (`internal/output/manager.go`). Per screen: `assignment`, `status`, `saved`,
what the panel shows (external), the program counter of its worker, and the locals of
`send`. `BeginSend` copies the assignment, `Render`, `SavePreview`, `Send` are the
calls it makes, `Settle` is its deferred function. Assignments come from `Assign` at
any moment, with their number bounded per screen. `Cancel` is the parent context,
which `Send` may notice or not while it waits.

**USBDriver** (`internal/output/usb_windows.go`). `conn` is what a session holds,
including the typed nil pointer of a failed open; `handles` are the open handles
of the operating system (external), so a leak or a double close shows. What the manager
also has (`Init`, `Next`, `Spec`) carries the driver's name here, so that one proof module extends both.

**Display** (`internal/display`). A transaction is a script of commands with the answer
each waits for; `queue` is the endpoint's buffer with replies of this frame and
of earlier ones. The firmware (external) takes commands in order and answers, or not.

**Configurator** (`modules/configurator`). An edit goes through the phases of its
handler: frames, stage, assign, commit, publish, remove, rollback. Each phase is a step,
so that a direct assignment, another client, a renderer's read (`Renderer`) or the end of the process
comes between any two. `disk` and `folder` survive a crash. `Library` is one store
that each edit changes in one step, mapped to what `New` would load from `disk`. `rerouted` is a ghost: the
displays that were assigned directly, or whose rollback was refused, since they were last bound.

**Renderer** (`render.go`, `mascot.go`, `Module.Frame`). It extends `Configurator` by one variable, the render under
way, and by the renderer's reads, which take neither the editor's mutex nor one lock for all: `ReadLayout` copies the
layout under a read lock, `LookUp` finds the record of an asset under another, `OpenFile` opens its file under none (of a
folder that is being removed, the file may be gone or not). A render changes nothing, so that one at a time is enough.

**Subscriptions** (`modules/aisubscriptions/module.go`, `persistence.go`). `States` is
`diskState`; `Prune`, `Attributed`, `Verified`, `Disconnect`, `ObserveAccount`, `ObserveSession`,
`ObserveUsage`, `Victims` and `Limited` are the parts of `Observe`, as functions from a state and an
observation to the next state. `Observe` folds one observation under the lock into `pending`,
`Replace` is the rename that makes it durable, `Publish` assigns it to memory, `GiveUp` is any
failure on the way, `Restart` is the end of the process at any point and the next `New`. Feeds may
deliver any report late and any number of times: `Reports` is the union of what each kind of feed may report
now, and `Writes` the locals of an `Observe` between its writes. `sent` and `counted` are ghosts: when a request was first
reported, and whether a report of it was acknowledged. Dates and instants are separate: `Date` shifts by the
time zone and divides by the day, `Cutoff` does not. Abstracted: one provider (keys carry the
provider, so providers do not meet), one token per request (the sums' overflow checks
are left out), quotas, provider-day buckets, titles and models (replaced whole, only displayed), the five minutes of
clock skew that `validate` allows, and the 32 MiB limit, which takes the path of the other limits.
Attempts of `replaceFile` with no effect are stuttering steps. A clock tick is much longer than a write.

**Desktop** (`cmd/jonsbo/tray_windows.go`, `control_windows.go`, `internal/tray`). The kernel's
objects are sets of handles: `mutex[n]`, `event[n]` and whether the event is set; an event without handles is
gone, and its signal with it. A process takes its controls in the order of `LocksOf`, one call of Windows per step
(`CreateMutex`, `CreateEvent`), and gives them back in reverse (`CloseEvent`, `CloseMutex`). The tray's message loop is
one thread: `at` is where it is, and `start` and `stopWithin` are several steps, so that the
server, the stop command and crashes come in between: `Launch` and `Assign` are `start`, before and in `AssignChild`; `Stop`,
`OpenControl`, `SetControl`, `CloseControl`, then `StopDone` or `StopTimeout` are `stopWithin`; `Finish` is `finish`, and
`Reap` the goroutine behind `done`. `asked`, `attempts` and `told` are ghosts: what the user last chose, the servers
started since, and the controls that were signalled. Abstracted: one life of the tray, a retry is
due at any tick after it was set, and `monitor` and `serve` differ only in their controls.

**Startup** (`internal/startup/startup_windows.go`, `cmd/jonsbo/startup_windows.go`, the menu items of
`tray_windows.go`). The scheduled task, the Run value and the owner value that marks it as the program's are
each abstracted to the copy they start. Every write is one run of the PowerShell script, which is several steps
(`Check`, `WriteTask`, `FirstValue`, `SecondValue`) since it can be killed between any two or fail at each,
and restores what it can (`RestoreRun`, `RestoreOwner`). `Steps` are the writes of `applyChange`, `Failed`
and `Succeeded` what it does after each, roll-back included. Callers are the tray of one copy and the command
line or uninstaller of another, and nothing orders them. `Overwrite` is another program that writes a value of the same
name, at any time but between the check of a script and its writes. `begun`, `foreign` and `damage` are ghosts: what a command
read, whether another caller wrote since, and whether a script was cut off or could not restore.

**Adapters** (`internal/aiadapters/manager.go`, `monitoring.go`). One record, `job`, is whoever has the mutex `op`, with its
locals; each native call, save and observation of `checkLocked`, `refresh`, `enableLocked` and `disconnect` is a
step that may fail. `Run` is `Start`, `Round`, `Visit`, `RoundOver`, `Leave`, `Shutdown`. The user signs in elsewhere
(`Switch`), the Codex process ends (`Die`) and the program ends (`Crash`) between any two steps. `native`,
`process` and the sink are external: `linked` is the account the AI module shows, `truthful` whether every
reading was recorded for the account it was made with, `linkedKey` the key under which it has the OpenAI account and
`records` the records it has under canonical keys: a disconnect removes the linked account's, and only if the sink accepts it.
The rate limits may name an account by any key of `Ids` or by none. `left` is a ghost: the records there were when a disconnect last cleared the aliases.
`promised` is a ghost: the last action that was answered with success.

**Projection** (`projection.go`, `claude_usage.go`, `projectBrowser`, `validate` of the AI module). Functions from
a message to observations: hooks, status lines, telemetry batches, browser batches and the answers of native
clients, the helper's selection `NativeMetadata`, and the test `Valid` every observation has to pass. Limits of the
code are constants, so that an instance has both sides of each. `validate` runs on a clock of its own: `Clocks` are the
times of day, offsets of the local zone and changes of the clock in the 35 days before that it may have, since it counts
days in local time (`Oldest`, `LocalTomorrow`) where the projectors count UTC's days of 24 hours.

**Server** (`cmd/jonsbo/serve_windows.go`, `internal/api/api.go`, the intake of `manager.go`). `main` is serve; `held` counts
the deferred releases, which happen in reverse. Each client is in one handler at a time: `Request` goes through the
semaphores of `ServeHTTP` up to the first place where it waits (`reading`, `render`, `stream`, `call`), and `Return`
gives back what its route took. `Project` and `Emit` are `ingest`, one observation at a time; `Round` is what
the adapters' own goroutine reads. The adapters, displays and modules are one part each, running or done; a part in
`hung` does not answer in time. `Expire` is the end of the five seconds.

## 4. What the runs check

| Run | Instance and why it is enough | Properties | Distinct states |
| --- | --- | --- | --- |
| `engine` | two modules (one fails while the other runs), one stream, two publications per module: a slot is overwritten, a stream falls two snapshots behind | `LatestSnapshot`, `ImplementsFeed`, `ClosesForGood`, `StreamCatchesUp` | 356,268 |
| `output` | two displays, two views, the first one reassigned twice (away and back), farewells of two frames (first, last), which may fail, hang or be cut after either, previews on | `ScreenTellsTruth`, `FarewellReported`, `AssignmentSettles`, `EndsInOrder` | 277,088 |
| `usb` | a Cyclops with a retained handle and a fan without, both openers, three faults and two replugs: fail, recover, fail again | `HandlesOwned`, `Retried` | 40,613 |
| `display` | the three kinds; three pixel writes per frame, endpoint buffer of four, waits of three reads, drains of four, six replies left over (more than one drain and one wait take), three faults | `FramesWhole`, `Recovers` | 100,656 |
| `configurator` | two clients, two displays of different canvas, two default layouts and one of the user's, which may have a photo, two assets of sizes 1 and 2 under a total of 2 (one excludes the other), one binding, one direct assignment; clients are symmetric. Renders are looked at on a server without displays (CONSTRAINT `RenderBound`), since displays have no part in them | `RestartSound`, `BoundIsLive`, `ImplementsLibrary`, `OnlyStaleRendersFail` | 1,447,370 |
| `subscriptions` | two accounts, one local request and one of an account, a tombstone limit of one, a history of one day of two ticks with a zone offset of one (a date ends half a day before the instant does), four instants | `CountedOnce`, `FileHoldsWhatWasTold`, `LinkFollowsNewest` | 1,792,912 |
| `sub_sessions` | two sessions for one place, stale after zero (browser) or one (native) ticks, contexts in any order, one account | `Loadable`, `LiveSessionsKept` | 550,382 |
| `desktop` | one server of the tray, one started by hand that wants two of its three controls, a stop command for the server or the displays; two menu choices (Stop and Start again), one retry, two failing calls or crashes (the first start and its retry both fail) | `OneOwner`, `TrayInControl`, `LoopReturns` | 1,180,147 |
| `startup` | the tray of one copy and the uninstaller of another, any registration to begin with (each copy's, another program's, none), two commands or writes of another program, two faults: a failed write whose roll-back fails too | `NeverUnregistered`, `OutcomeHolds`, `OwnedOnly` | 5,220,212 |
| `adapters` | both providers, two accounts, two canonical keys and answers without one, one client with three actions (monitor, disconnect, monitor again), one switch of the sign-in, one fault, room for one alias (the second account finds the table full). A third action, and a second canonical key for one account, are looked at for OpenAI alone, and the third action without a switch (CONSTRAINT `Corner`) | `PreferencesKept`, `StaysDisconnected`, `ReadingsAttributed`, `KeysSound`, `NoStrayProcess`, `AdapterStops`, `MonitoredIsShown` | 725,397 |
| `server` | two clients (one posts), two requests or readings in all, a pool of two requests and one of every other kind, every set of hung parts that differs, metadata of each kind with each field inside, at and beyond its bounds and missing, a clock on UTC and one west of it that was put forward, one fault | `SlotsSound`, `ControlsOutliveWork`, `RefusalsExplained`, `ObserverLosesNothing`, `NoNeedlessExpiry`, `ShutdownCompletes` | 236,827 |
| `usb_nil` | as `usb` | one, violated: section 6 | - |

Where a table names a property with several parts, the module states each part on its own: `ClosesForGood` is
`DoneClosedOnce`, `QuiescentAfterDone` and `CloseCompletes`; `ScreenTellsTruth` is `LiveShowsAssignment` and `SavedHasPreview`;
`EndsInOrder` is `DriverOutlivesWorkers` and `OutputStops`; `FramesWhole` is `AcknowledgedIsShown` and `NeverMixed`; `RestartSound`
is `AlwaysLoadable` and `MediaAccounted`; `FileHoldsWhatWasTold` is `AcknowledgedKept` and `ShownIsDurable`; `TrayInControl` is
`NoUnwantedServer`, `RetryBudget` and `TraySparesOthers`; `SlotsSound` is `SlotsAccounted`, `KeysSound` is `KeyStable`; the
type invariant of its module is a part of each that has no theorem for it.

What they show:

* `LatestSnapshot`, `StreamCatchesUp`: with a channel of one, a stream loses intermediate snapshots and
  never the last, and it ends with the present one. `ImplementsFeed`: whatever the route of its initial
  snapshot, no stream goes back, and the state of a finished module is frozen.
* `ClosesForGood`: no order of Start, Close, the end of the
  parent and returning modules closes `done` twice, leaves it open, or lets anything move after it.
* `ScreenTellsTruth`: status and saved flag describe the present assignment although
  transfers and preview files are written outside the lock.
* `EndsInOrder`, `FarewellReported`, `AssignmentSettles`: the end of the
  program, with a farewell cut, failing or hanging at any frame, and a slow display beside a working one. "stopped" is only said
  of a panel with the last farewell frame, and no worker leaves a panel with any farewell frame that is said to be live or in error.
* `HandlesOwned`, `Retried`: each display has exactly the handle its connection owns; a
  display that is attached is opened and written again.
* `FramesWhole`, `Recovers`: stale replies are never taken for the
  answer to this frame, half a frame is never shown with a part of the next, and left-over replies are worked off.
* `RestartSound`, `BoundIsLive`, `ImplementsLibrary`: at every
  point where the process may end the file loads; every folder is
  counted or removed at the next start; outputs agree with bindings; and the file is at all times a
  library that whole edits have led to.
* `OnlyStaleRendersFail`: a renderer does miss media when the layout it copied is saved without them and they are deleted before
  it opens them; it never does while the layout is the one it copied, so that such a failure lasts one frame.
* `CountedOnce`, `FileHoldsWhatWasTold`: no redelivery, crash, disconnect or expiry makes a total exceed the requests
  there were, and what was acknowledged stays for as long as its date is shown.
  `CountedOnce` holds because tombstones outlive the days they protect: the mutant that prunes them
  by date violates it.
* `FileHoldsWhatWasTold`, `LinkFollowsNewest`, `Loadable`, `LiveSessionsKept`: memory never runs ahead of the file, a late
  report does not take the link, New accepts what was written, and room is made at the cost of
  finished or stale sessions only.
* `OneOwner`, `TrayInControl`, `LoopReturns`: one process per control although
  handles are opened before the decision and closed one by one; no server of the tray is left or comes back after Stop,
  Quit or the tray's own crash; Start renews a budget that nothing else exceeds; the tray signals its own server
  only; and a server that hangs does not block the message loop.
* `NeverUnregistered`, `OutcomeHolds`, `OwnedOnly`: a switch between the mechanisms registers the new one before it
  removes the old, so that one of them is there wherever a write fails, the roll-back fails or the process is lost; what a
  command answers is what is registered. `OwnedOnly`: what another program registered before a command or between its scripts
  stays, and a removal takes only its own entries away as long as nobody else writes between its read and its writes; `SparesOtherCopies`,
  the claim without that limit, does not hold. Each leaves out what the code does not keep: section 6.
* `PreferencesKept`, `StaysDisconnected`: what the user last chose for a provider holds through failed saves, actions for
  the other provider, rounds under way and restarts. `ReadingsAttributed`, `KeysSound`: the account is verified after the
  reading, so no reading is filed for another account; and an account that has been linked under its canonical key does not come
  back under its e-mail key, through failing readings, answers without a name, a full table, failed saves and restarts, until a
  disconnect clears the aliases. That an account has one record only is more than the code keeps: section 6.
  `NoStrayProcess`, `AdapterStops`: no Codex process is lost hold of, and Run ends with the server whatever it waits for.
  `MonitoredIsShown`: with no more failures, the account that is signed in is the one shown, if its alias has room.
* `SlotsSound`: no path of the API keeps a slot. `ControlsOutliveWork`, `NoNeedlessExpiry`, `ShutdownCompletes`: the
  shutdown waits for all work before it gives the controls back, runs out of its five seconds only because of a part
  or client that does not answer, and returns even then.
* `RefusalsExplained`, `ObserverLosesNothing`: where a projected observation is refused, it is for one of the listed
  reasons, in which the projector's bounds are wider than the module's or the two disagree on time (an age, a date, a year); the helper's selection is enough for the server to make the same
  observations.

Each property of a passing run has a mutant in `PROJECT.json`: the change to the
model, of a kind a programmer could make in that code, for which TLC finds the
property violated.

### Fairness

Only steps of goroutines the program itself runs are fair, and weakly: the Go
scheduler runs a goroutine that can go on, and every blocking call of theirs has a
deadline (USB transfers, renderer calls) or is a wait on a channel that another fair
step serves. Requests, assignments, faults, plugging, cancellation and crashes are
never fair. `ClosesForGood` also assumes that a module's `Run` returns when its
context is cancelled, as the contract in `pkg/module` requires. `StreamCatchesUp` assumes
that a client that stays connected reads. In `Desktop` the tray's thread and the goroutine that waits for the child are
fair and the servers are not: they may hang. `Retried` and `Recovers` hold once the bounded number
of faults is used up, that is, when faults eventually stop.

In `Adapters` the goroutine of Run and whoever holds `op` are fair, since every native call has a deadline; `Leave` is strongly
fair because Go's `select` chooses at random between the cancelled context and a timer that is due again and again. In
`Server` the goroutines and the deadlines are fair, a handler's `Broken` included (a closed connection ends a body), the end of a
stream strongly so for the same reason; nothing is assumed of clients, which may read and send as slowly as they like. `Startup` has
safety properties only.

A CONSTRAINT prunes the instances of `configurator` and `adapters` (section 4's table): TLC looks at the behaviours that stay inside it, the
proofs at all. For the liveness properties of `adapters` a fair behaviour cannot end at the edge, since the operation under way is still enabled there.

`CHECK_DEADLOCK FALSE` is set where the program ends: `Engine`, `Output` and `USBDriver` after
close, `USBDriver` after the crash of `usb_nil`, `Desktop` when the tray has quit, `Startup` when all commands are done,
`Adapters` after `Shutdown` and `Server` when it has exited. In `Display`, `Configurator` and `Subscriptions` there is always a next step, and TLC checks it.

### Assumptions on the environment

The fan firmware answers what it was sent before within the 100 ms in which
`drainFan` waits for silence: fan replies carry no transaction number, so a reply
later than that cannot be told from the present one. Pump acknowledgements carry a
timestamp in milliseconds (`protocol.PumpTimestamp`), and two commands with the same opcode are a whole
frame apart; the model gives each frame its own.

A Codex process answers for the account it was started with (`manager.go:323` reopens it for this reason). A native client does
not change its sign-in and back again within one Claude reading, whose account is read before and after. A
native process ends when the program does (its job object and its closed input). The back-off of a failed provider
is any delay. `Server` has every part the configuration can turn on; a refused authentication takes no slot. A
client of `Server` may be slow at each place where the code waits for it. `Missing` stands for null, absent and
wrongly typed fields alike, as the projectors' helpers treat them.

## 5. What is proved

tlapm checks every proof to its leaves. The argument is the same for each module: an
inductive invariant `IInv`, its three facts, and the properties as consequences.

* `EngineProofs`: `IInv` is the type invariant with what each module's run may be doing
  in each status (`RunInv`), who has closed or will close `done`, that a subscriber
  without the latest snapshot has it in its channel, and that what a reader was shown is
  not newer than what is in its channel. `TypeCorrect`, `LatestSnapshotKept`, `DoneOnce`
  and `Quiescence` follow. `RefinesFeed` proves the refinement of `StateFeed`: every
  step maps to a step of the feed or to a stutter.
* `OutputProofs`: `IInv` == `TypeOK`, `FlightInv` (what is in flight agrees with the screen's assignment
  unless the screen was reassigned since), `LoopInv` (a live screen between transfers shows what
  was sent), `PreviewInv` (the file is the one of the assignment that was saved), `FarewellInv` (at each place of
  the farewell's loop, which frame the panel shows and what the status may say) and `ShutdownInv` (the driver closes after the last worker).
  `LiveShows`, `PreviewKept`, `FarewellTold`, `ClosedLast` follow.
  Its second part is about `USBDriver`: `DriverInv` == `DriverTypeOK`, `DriverCallInv` (the locals of a call agree with
  the session) and `DriverClosedInv`. `HandlesKept` follows.
  Its third part is about `Display`, for any number of pixel writes and any limits of buffers and reads. `FanInv`: a fan's
  frame starts from an empty endpoint and an empty memory (the drain leaves the one, the awaited reset the other), so that
  the reply to its last write means that the frame is shown. `PumpInv`: only the reply to
  the frame's own last command can be taken for its end, however many older replies are queued. `CyclopsInv`: the
  start of a frame lies in the queue between the commands of earlier frames and its own pixels. `CountInv`: the counts of reads and faults.
  Lemmas on sequences say what taking from the head of a queue and adding at its end do. `FramesAreWhole` follows.
* `DesktopProofs`: `IInv` == `OneOwner`, `HandleInv` (whoever holds a control has a handle to its mutex, so
  that a process that created the mutex found no holder) and `BetweenInv` (a control being taken or given back
  exists). One lemma covers all steps that end processes, one all that only move one. `Exclusion` follows.
  `SInv` adds what the tray knows of its server: at each place of its thread, whether there is a child, who holds a
  handle to its event and whether it is in the job (`TrayInv`), what the retries may still be (`BudgetInv`) and which
  event the thread has open (`EventInv`). `TrayKeepsControl` follows.
* `StartupProofs`: `IInv` is about one caller at a time. Until another caller writes, the registration is at each place
  of a caller's script the one its command found, changed by the writes that are done and by the part of the present one that
  is done (`Stage`), and how the command ended says what is registered (`Ended`). Another program's write ends that knowledge
  like a caller's. Whoever else writes, the plan is the one that
  command and registration call for (`Planned`) and no script goes on over another program's values (`Aliens`); `foreign` and
  `damage` are where these parts stop. `StaysRegistered`, `OutcomesAreTrue` and `OthersAreSpared` follow, the last an action
  property of every step of every caller.
* `ServerProofs`: `IInv` == `HandlerInv` (at every place of a handler, what it waits for and which route led there; a post that
  is being served has the batch its projection gives) and `StageInv` (at every step of serve, what has been started, what was
  waited for and what is still held). `WorkEndsFirst` and `ExpiryHasACause` follow: an expiry without a part that hangs or a slow client
  would need a place that `HandlerInv` excludes. `SlotInv` counts: the slots in use are the handlers at a place that
  holds one, by adding to or removing from a finite set one client per step; `SlotsComeBack` follows. `SelectionKept` is about the functions: by cases on the message, projecting the
  helper's selection gives what projecting the whole message gives, but for one field.
  `RefusalsAreExplained` is about functions and states: one lemma per projector says that what it makes is `WellMade`, whatever
  the numbers of the message are; `WellMadeIsFit` that the sink and the module, on any clock of `Clocks`, refuse a well-made observation only for a
  reason of `Explained` (`Calendar` compares the two ways to count days); and `IntakeInv` that every handler and the adapters hold only well-made observations, and answer
  about the next of them. Two of the lemmas count: `Ranked` gives every observation of a telemetry payload its record, and
  `NewestFit` says that of 36 dates the newest 35 are kept, both by an injection between finite sets.

* `AdaptersProofs`: `IInv` has five parts. `Typed` adds to the types the places each kind of operation and each provider
  can be at; `PreferenceInv` relates what was promised to disk and memory at each place of a monitor and a disconnect,
  and says that a refresh past its first place is of an enabled provider; `ProcessInv` that the RPC client is open
  exactly for a running Codex process; `ReadingInv` whose reading and whose account the job holds from place to place; `KeyInv`
  that every record under a canonical key that came since the aliases were last cleared has an alias, in memory and on disk. Lemmas `After...` say what each action leaves in the job,
  one lemma for each part then goes through the actions. The five safety properties of the run follow.

* `ConfiguratorProofs`: `IInv` says that memory and what `New` makes of the file are `Consistent` (references
  resolve, canvases fit, quotas hold, the default views are there), what each client has in hand at each phase of its
  edit agrees with both (a staged folder is nobody else's, a committed state is the edit applied to the one before it), every
  folder is used, being worked on or a stray, and a bound display shows its binding. The quota is a sum of sizes over a
  set: lemmas about the fold say what adding and removing one asset does to it. `RestartsSoundly` and `BindingShown`
  follow, `RendersMissOnlyIfStale`, since while the layout a render has copied is the saved one its media are referred to and so are there, and `ImplementsStore`, the refinement of `Library`: the rename of the state file is the store's step, all others stutter.

* `SubscriptionsProofs`: `IInv` says that every state in the file or on its way there is `Sound`: its maps are
  within their limits (`Within`), its totals count no request without a tombstone, and the local ones all with one whose
  date is shown (`Counted`), and what was acknowledged has its tombstone for as long as its date is shown
  (`Remembers`); with what the step under way may do to the file (`PendingInv`). The lemma `CutoffDate` joins the two clocks: an instant
  before the cutoff lies on a date that is not shown. One lemma per part of `Observe` (pruning, room, fold, counting) keeps `Sound`.
  `TotalsAreSound`, `ToldIsKept`, `FileIsLoadable`, `LinkIsNewest` and `LiveIsKept` follow.

The proofs assume only the named `ASSUME`s of the modules, and hold for any sets of
modules, readers, screens, displays, processes and bounds. Sets that are counted are assumed finite: the clients of
`Server`, the views, assets and displays of `Catalog` (identifiers have a bounded length), and the accounts, sessions and requests of
`Subscriptions`. Of what comes in as JSON, the assumptions of `Server` say only its shape: lists are finite, times and
dates are integers or missing, and the Claude limits have the adapter's own windows. `Catalog` assumes that the default views fit the limit of layouts, `Subscriptions` that a session is stale before it is
pruned (10 minutes and a day against 35 days).

Only model-checked: everything temporal under fairness (`CloseCompletes` in `ClosesForGood`, `StreamCatchesUp`,
`AssignmentSettles`, `OutputStops` in `EndsInOrder`, `Retried`, `Recovers`, `LoopReturns`, `AdapterStops`, `MonitoredIsShown`,
`ShutdownCompletes`), since liveness and ENABLED are out of the prover's reach. Every safety invariant and every
action property that a run checks has a theorem.

## 6. Findings

One run checks what the code says of itself and finds it violated:

* `usb_nil`: an open that fails leaves a non-nil interface around a nil `*winusb.Connection` in the
  Cyclops session, and the next refresh sends to it (`usb_windows.go:76-91`). `USBDriver` models
  both openers, since an injected one that returns a plain nil does not have the defect.

Four modules state a property that the code violates and no run lists; as an INVARIANT (the last two as a PROPERTY) of the
module's own configuration, TLC gives the behaviour:

* `LiveConfirmsLatestAssign` of `Output`: `send` compares assignments by value, so a frame in flight confirms a
  later `Assign` of the same view (`docs/architecture.md:35`, `manager.go:193-195`).
* `UsedLayoutKept` of `Configurator`: a layout that a display shows through a direct assignment can be deleted
  (`docs/configurator.md:65`, `http.go:238`).
* `DisconnectKeepsLocal` of `Subscriptions`: pausing a provider that has no linked account deletes its sessions without an
  account, active ones included (`docs/ai-subscriptions.md:199`, `module.go:324-336`).
* `SparesOtherCopies` of `Startup`: callers of the startup registration do not exclude each other, and a script checks only that some copy of
  the program owns what it overwrites. A copy that is being removed takes away what another copy registered between its read and its write, against
  `startup_windows.go:90-91` and `docs/windows-app.md:36`. `OwnedOnly` leaves that case out (`foreign`).

Met while modelling, and left out of the properties where they say so:

* `docs/configurator.md:58` gives a limit of 32 layouts where `model.go` has 33, one more for `default-cyclops`.
* The comment at `tray_windows.go:57` says that even an abrupt crash of the tray leaves no server behind. Between
  `cmd.Start` and `AssignChild` it does; `NoUnwantedServer` leaves that one server (`fresh`) out.
* The comment at `startup_windows.go:176` promises a replacement before the previous mechanism goes. When the script of the second write
  removes the old mechanism and is then killed or throws, `applyChange` takes it to be still there and rolls the first write
  back: nothing is registered (`NeverUnregistered` leaves `damage = "second"` out).
* A script of the startup registration reads and checks the present values, and writes afterwards: what another program writes in between is lost
  (`Overwrite` leaves that instant out).
* A script killed between the owner value and the Run value leaves a Run value that later commands refuse as not theirs.
* When the commit of an apply fails and the layout that the display showed before was deleted meanwhile, the output manager
  refuses to go back: the display keeps the view that was not saved, and only the error of that request says so
  (`http.go:457-463`, `rerouted` in `BoundIsLive`). Proving `BindingShown` showed it; the run has an instance of it since.
* With 128 account aliases a new account's refresh returns without an observation, and the account before it stays shown
  (`manager.go:411-425`, `HasRoom`).
* An OpenAI account can get a second record in the AI module: its first rate limits may not name it and later ones do; the name may change; and a disconnect
  clears the aliases of all accounts where the module forgets the linked one only, and that only if it accepts the observation
  (`module.go:324-339`, `left` in `KeysSound`).
* A farewell that is cut after its last frame leaves the status at "stopping" on a panel that shows the last frame, and one cut earlier leaves it so for ever
  (`manager.go:291-294`, `FarewellCut`).
* A renderer can fail on media of a layout that was just saved without them (`OnlyStaleRendersFail` says no more than that it is then overtaken).
* `number` of the projectors admits 0, but the module refuses a context limit or a quota window of 0, a reset before the year 0 or after 9999 cannot be
  encoded, and plans and identifiers of over 128 characters or more than 32 quotas are refused: each loses the whole
  observation (the list of `RefusalsExplained`).
* `validate` counts days in local time: 35 of them are an hour shorter than the projectors' after the clock was put forward (`module.go:237`,
  `projection.go:284`), and west of UTC a bucket of UTC's tomorrow lies after the local tomorrow (`module.go:279`, `projection.go:438`). Both lose the
  whole observation, and are in the list too.
* The comment at `projection.go:462-463` says the helper keeps what the server needs; a status line's
  `process_instance_id`, which the server would project, is not kept (`ObserverLosesNothing`).
* `serve` gives its controls back after five seconds though displays or handlers may still work, and a slow client alone uses the
  five seconds up (`expired` in `ControlsOutliveWork`, the clients in `NoNeedlessExpiry`). A display manager that fails early
  is noticed only when the server is told to stop.

## 7. Not modelled, and why

* What renderers, dashboards, brand images and themes draw: pure functions from a state to pixels. The reads of the configurator's renderer are in `Renderer`;
  a read that fails although the file is there is not.
* Telemetry and hardware sampling: reads of counters; tested as arithmetic.
* `Frame` and `Event` of the runtime: they look the module up under the lock and call it
  outside; no runtime state changes.
* In `Configurator`: rotation, overlay contents, body limits, the 2 MiB limit of the
  state file, a temporary `.state-*` file that a crash leaves behind (it is never read), the
  sample history.
* In `Output`: the bytes of a frame, `OnChange`. In `Display`: a write that arrives in part, and the first of the two commands before a Cyclops frame.
* In `Desktop`: a second tray (it fails at its own mutex like any process), a tray started again after a crash, the
  3 s instead of 8 s at the end of a session, a `Kill` that fails after the job refused a child (its `Wait` would last as long as that server), and the window itself.
* In `Startup`: the XML of a task, quoting, the security descriptor of the task, dialogs. In `Adapters`: the
  opening of the native sign-in page, the wording of statuses. In `Server`: a configuration that leaves parts out, and what each
  editor request does (`Configurator`).
* The reply queue of the RPC client: `Adapters` takes a call to return its own answer or an error.
* Authentication, origin checks and JSON of the API.
* Installer, scripts, editor, extension, third-party code: not part of the running program.
