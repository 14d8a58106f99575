# AgentLight in TLA+

AgentLight shows what coding agents are doing: producers (editor plugins, hooks)
report sessions to a hub, the hub turns them into numbered snapshots, and desktops
and web pages show them and notify the user. This directory models the parts of the
repository whose correctness depends on order, interleaving and failure, checks them
with TLC on small instances, and proves the safety properties of the passing runs with
TLAPS for every value of the constants. Paths below are relative to `src/`.

Check a run with `tlc -config <cfg> <module>` and a proof with `tlapm <module>Proofs.tla`.
`PROJECT.json` lists the runs, the mapping from definitions to source lines, the
hazards, the findings and the theorems.

## 1. The system

```
 producer ──POST /events──> [push source] ──sink──> [engine] ──broadcast──> SSE ──> page
 (plugin, hook)             live set,               revision,               stream   hub client
 user ──POST /commands────> index, tombstones,      edge memories                    └─> desktop engine
                            store file
 clawlight CLI ──state.json──> [clawlight source] ──sink──> [desktop engine] ──> window, tray, alarms
```

| Component | State it keeps | Operations | Interactions | Hard behaviour | Correct when |
|---|---|---|---|---|---|
| Event push source `agentlight-source-events/src/source.rs` | `sessions`, `producers`, `removed`: three mutexes; a JSON store | `apply`, `apply_snapshot`, `remove`, `clear_done`, `persist`, load, `snapshot` | called by HTTP handlers and commands on several threads; wakes the engine through its sinks; writes a file | calls are sequences of lock sections that interleave; writes fail and are ignored; crashes | removed sessions stay away, sessions are pruned by their owner only, the store is a state between two calls, no change is left unpublished |
| File replacement (`write_atomic`, `write_devices`, `Config::save`, `write_state_atomic`) | a temporary file and the path | open, write, close, rename | shared file system, several threads | a shared temporary name, failed writes, a dying process | the path always holds one whole payload |
| Engine `agentlight-core/src/engine.rs` | config, revision counter, two edge memories, sinks, source | `publish`, `refresh`, `set_config`, `set_source`, `dispatch`, `clear_done` | runs on the thread of whoever changed a source; calls the sinks | publishes overlap; settings change between the steps | every revision once, the newest one current, one notification per entry |
| Hub event stream and page `agentlight-server/src/routes.rs`, `app.rs`, `client.html` | broadcast channel of 64, a receiver per stream, the page's `lastRevision` | seed, subscribe, frame, lag, snapshot fetch, reconnect | engine sink at one end, browser at the other | the gap between seed and subscription, lag, two connections, a hub restart | a page that has caught up shows what the sources hold |
| Hub HTTP API `routes.rs` | none of its own | ingest, commands, snapshot | calls the push source and the engine | overlapping requests | each request is one call of the source |
| Paired devices `devices.rs`, `auth.rs` | devices, pairing code, a JSON store | pair, add, revoke, touch, regenerate, save | every request; a rebound server has a second store | stale copies written last, restarts | what a device was told is on file |
| Hub client source `agentlight-hub-client/src/source.rs` | snapshot cache | stream loop, polling, commands | a hub; the desktop's engine | three writers of one cache, streams that break, a hub that goes away | the screen ends with what the hub has |
| Clawlight source `agentlight-core/src/source/clawlight.rs`, `state.rs` | the state file, a signature, an advisory lock | watch, read, clear | the clawlight command line writes the same file | the watcher races with writers; the lock may fail | every change is noticed, no update is lost |
| OpenCode plugin, version 2 `plugins/opencode/agentlight-v2.js` | known sessions, coalescing timers, pending prompts | report, flush, heartbeat | the hub's ingest | lost and reordered requests, answers that are awaited | the hub converges to what the plugin knows |
| Desktop shell, settings `src-tauri/src/lib.rs` | settings in a file and in memory, the source, the pin, a server handle, the last probe | set_config, pick_state_file, pin, style, server start, stop, restart | engine, server, settings file | one step of several fails; a worker thread beside the main one | they agree again after every command |
| Desktop shell, window `src-tauri/src/lib.rs`, `dist/app.js`, `dist/lib/store.js` | position, mode, anchor, last placement, a visible flag; the webview's view | resize, drag, focus loss, hide, show, tray | webview and shell by requests and events, window manager | requests and events under way, moves by user and program | the light returns to where it was left; a click always does something |
| Sessions, snapshots, settings `session.rs`, `snapshot.rs`, `config.rs` | none (pure) | aggregate, retention, ordering, sanitizing | engine, sources | boundaries | against a reference definition |

Also in the repository and listed in `PROJECT.json` as not modelled: the first version
of the plugin, the source trait and its fixture, the hook command, diagnostics and
sound, scripts and packaging. They are older forms of what is modelled, stateless,
pure input and output, or build material.

## 2. Modules and how they correspond to the code

| Module | Models | Notes |
|---|---|---|
| `PushData` | the data of the push source and the pure steps its calls are made of | a status stands for the whole session record; the tombstone list keeps its order, since the cap evicts the oldest |
| `PushStore` | **abstract specification** of the push source: each operation is one step | tombstones are a set; at the cap "the newest stay" |
| `PushSource` | the push source, one lock section per action | `Threads` calls overlap; `disk` is the file of the last rename; `WritesFail` lets a write fail |
| `AtomicFile` | **abstract specification** of replacing a file: one step | |
| `FileReplace` | the four functions that write a temporary file and rename it | an open file keeps its identity when renamed; `TmpName` gives the name each call uses |
| `Engine` | publish, refresh and set_config, one step of `publish` per action | no lock spans `publish`; visibility and trigger rules are translated in full |
| `HubStream` | composes `Engine` with the SSE handler, the channel and the page | the engine's `channel` is the broadcast channel; a receiver is a position in it |
| `Producer` | the OpenCode plugin, its requests under way, and the hub as an `INSTANCE` of `PushStore` | the hub takes a request in one step; a status stands for the session |
| `Display` | what becomes of sessions on their way to the screen: order, retention, links, counts, aggregate; by the engine (`Render`) and by the file alone (`BuildSnapshot`) | pure operators |
| `StateFile` | the clawlight state file, its watcher, an outside writer and the desktop's commands; extends `Display` | a signature is kept as its comparison with the watcher's last one |
| `HubClient` | the desktop's view of a remote hub: stream thread, cache, commands | the hub serves a request in one step; entries have a version as history |
| `Settings` | the desktop's settings and what must agree with them | a command is the list of the steps it has left |
| `Devices` | the paired devices of a hub and its server's life | a store per start of a server |
| `Window` | the desktop's window and the webview's view | one dimension of space |
| `MC...` | small instances of these | constants and symmetry; `MCPushStore`, `MCFollow` and `MCShell` check parts that share no state side by side: a variable `part` says which one moves |
| `PushDataProofs`, `PushStoreProofs`, `PushSourceProofs` | theorems about the push source, its abstract specification, the refinement and the plugin | section 5 |
| `EngineProofs`, `HubStreamProofs` | theorems about publishing, and about the pages behind it | |
| `FileReplaceProofs`, `ShellProofs` | theorems about files, devices, settings and window, and their composition `MCShell` | |
| `FollowProofs` | theorems about the two sources of the desktop, as `MCFollow` composes them | |

**Push source.** `Apply` → `ForgetRemoved` (one per event) → `Upsert` is `apply`;
`ApplySnapshot` → `FilterRemoved` → `ReplaceLive` is `apply_snapshot`; `RemoveSession` →
`RemoveProducer` → `RememberRemoved` is `remove`, with its early return when there was
no session; `ClearDone` → `RememberRemoved` is `clear_done`, which cuts the index down even
when nothing is done and then is over. Each ends in `persist`
(`CopyLive`, `CopyRemoved`, `WriteStore`) and, if it changed the live set, `Emit`.
Sections that hold the sessions and producers locks together are one step. `Restart`
is a death of the process with any calls under way and a load of the store.
`apply` receives batches: `Batches` is every shape an accepted request can have, with
`producer` as the first producer any event names.

**Engine.** `Change` is any change of a source by a thread that then publishes;
`Refresh` is the publish after a command; `SetConfig` publishes nothing. `ReadSources`,
`Render`, `NotificationSettings`, `NotificationEdge`, `AlarmSettings`, `AlarmEdge`, `Number`,
`Deliver` are `publish` in its order. Every build registers one source, so reading the
sources is one step. An edge copies the configuration under its lock, lets that go and then
locks its memory (`engine.rs:405`, `409`): `settings` is the copy, and `SetConfig` may come in
between, so an edge may still fire and remember with notifications already off. `asked`, `due`,
`solo`, `overlap` and `muted` are history variables that no other variable depends on; `muted`
holds the keys that the memory had as asking when notifications were turned off, or got while
they were.

**Hub stream.** `SeedRender`, `SeedRevision`, `Subscribe` are the handler in the order
of its calls; `Greet` and `Receive` hand a frame to the page, `Lag` is the receiver's
error and the `lagged` frame, after which the page fetches; `ServeSnapshot` and
`ShowReply` are the fetch, not ordered with the frames; `Reconnect` keeps the page's
`lastRevision`; `HubRestart` starts the revisions from zero with the sources as they were.

**File replacement.** `Open`, `WriteChunk`, `Close` are `std::fs::write`, `Rename` is
`std::fs::rename`; `WriteFails` leaves the temporary file behind, as the code does;
`Crash` ends every call under way. `PushSource` takes a write as one step; that is what
`FileReplace` justifies for temporary names of their own, and what `file_shared` shows
is not so for the name the push source uses.

**Producer.** `Prompt`, `Reply`, `Busy`, `ExecutionFailed`, `SessionDeleted`, `Remember`,
`Idle` are the cases of `handleEvent`. The subscription awaits each of them, so
all but `Busy`, which stands for the tool hooks as well, need an idle handler. `Idle`
has two steps when the parent of the session is not known: `LookedUp` is what happens
when `getSession` has answered or failed. `Remember` and `SessionDeleted` may tell a parent (`Tell`).
`Flush` is a timer of `report` that fires: it takes the status off the timer and sends it, or,
while the parent is asked for, leaves it among `posts` as "asking" until `SendUpsert`. A restart
of the plugin loses those. `SendSnapshot` is a heartbeat, with the lookups before it as one step.
Requests are served in any order (`Ingest`), or lost.
`parent` holds what was remembered, right or wrong: a failed lookup makes a child a main
session until an event tells its parent.

**State file.** A removal is `Dispatch` → `LockFile` → `ReadDoc` → `WriteDoc` → `Return`;
`ClearDone` lists the done sessions once and dispatches one removal after the other.
`OutsideLock` → `OutsideRead` → `OutsideWrite` is clawlight, `Edit` a user. `WatchStart`,
`Emit`, `Poll` are `watch_loop`. With `Faults` the lock may not be taken, writes fail,
and a rewrite may keep length and modification time. `fresh` says that the engine has
published since the last write.

**Hub client.** `Get` → `StoreEntry` → `EmitChanged` is a poll, or the fetch after connecting
and after a frame without a snapshot; `Connect` → `Join` opens a stream, `ReadLine` puts
frames together; `EndOfStream` drops what is incomplete. `ServeCommand` (or
`RefuseCommand`) → `FetchReply` → `StoreReply` → `EmitReply` is a command.
`DropSource` is `set_source` on the desktop. `modern` tells a hub that sends snapshots with
its frames and replies from one that does not. `newest`, `failed` and the versions
are history.

**Settings.** `Begin` copies the settings, as every command does first, and lays out the
steps in the order of the code: `set_config` changes the server, then saves, then replaces
memory, engine and source; `pick_state_file` saves first and changes the server last.
Each step is an action that may fail and end the command. The main thread has one
command at a time; the file dialog's runs beside it. `server' = NoServer` between stop and
start of a server that keeps its address is a state other threads can see.

**Devices.** `Pair` → `Add` → `SaveCopy` → `WriteCopy`, and `Revoke` or `Touch` → `SaveCopy` →
`WriteCopy`: copied under the lock, written without. `StartAnother` → `StopOld` is a
rebind, which loads a store while the old one is in use; `RestartHub` is a new process.
`told` and `forgotten` hold what clients were answered.

**Window.** `ResizeWindow` is the shell's command, with `ResizeToMini` and `ResizeTo` as its
two halves; `ClickView`, `ConfigChanged`, `HandleEvent` are the webview, whose requests wait in
`asked`, as the shell's events do in `events`. `Drag`, `ClickOutside` and the tray are the user.
`origin` and `dragged` are history: where the light was left.

Operators named `Mut...` are bugs written down: each is a plausible mistake in the
definition it follows, and a property of some run fails when it takes that
definition's place. No specification uses them.

## 3. Runs

| Run | Instance | What it shows |
|---|---|---|
| `push_store` | 3 sessions, 2 producers, cap 2, every batch; a plugin with a main session and a child, 3 events, 1 fault, 1 dismissal, cap 1, one `done` session per heartbeat | the abstract source: no session is live and tombstoned, only an upsert revives. The plugin: it never takes a session with a pending prompt for a finished or paused one, in what it holds and reports from then on (`PromptIsNotFinished`; an older request under way may still show it otherwise for a while), and the hub **converges** to what the plugin knows (`Converges`) |
| `push_threads` | 2 overlapping calls, 2 sessions, cap 1, failing writes, restarts | what survives any interleaving: no index entry is left behind, tombstones stay proper, no change stays unpublished, a session disappears only for a cause |
| `push_serial` | 1 call at a time, 3 sessions, 2 producers, cap 2, restarts anywhere | the durable store **implements `PushStore`** (`StoreIsAtomic`); it is current between calls; every live session keeps its owner |
| `push_resurrect` | as `push_threads` | violated: a heartbeat brings back a session removed between its filter and its merge |
| `engine` | 2 overlapping publishers, a session and a subagent, 3 publishes, notifications toggled between any two steps | revisions are exact; a publish that ran alone repairs what overlapping ones left; a prompt enters the memory only in a publish that tells of it (`PromptsAreTold`); one notification per entry until publishes overlap; the prompts missed are of sessions the memory held as asking while notifications were off |
| `engine_toggle` | 1 publisher, 4 publishes | violated: a prompt that begins after such a gap is never announced |
| `stream` | 1 page, channel of 1, 3 publishes, 1 hub restart | rendering the last frame makes the page current, whatever it showed before; lag never passes over the newest update; a hub that stays up is never behind its page |
| `stream_restart` | 1 page, 2 publishes, 1 hub restart | violated: the page ignores the updates of a restarted hub |
| `shell` | files: 3 calls, 2 pieces, names of their own. Settings: 2 commands, 2 addresses, 2 hubs, 1 relaunch. Devices: 2 requests, 2 devices, 2 stores. Window: 2 monitors, 2 drags, 1 request under way | replacing a file **implements `AtomicFile`**; `ShellAgrees` and `PersistedFollowsServer`: what the settings say and what runs agree after any failure, and the cached probe is of the configured hub unless probes of other addresses came in between; `FileKeepsUp` and `AnswersLast`: the devices on file are those in memory, and those clients were told of; `CollapseRestores`, `ClickIsNeverANoOp` |
| `follow` | file: 2 sessions, 1 caller, 2 outside writes, 1 hour. Hub: 1 row, 2 changes, 1 fault, 1 command | no update of the file is lost while everybody has the lock; clear takes only done sessions, or ones that changed since; the engine renders a file as the file alone was; the screen **catches up** with file or hub; a dropped source's thread **ends** |
| `client_silent` | as the hub of `follow` | violated: a hub that is lost is not shown as unreachable |
| `file_shared` | 3 calls, one shared name | violated: a partial file reaches the path |

**Bounds.** Two threads show every race between two lock sections; a race in this code
is between one call's two sections and another call. Three
sessions against a cap of two make the cap evict; a cap of one with two threads makes it
evict during a race. `push_threads` takes one upsert and two heartbeats that prune each
other's session, so that upserts, both kinds of prune, removals and clears all meet.
Three publishes with two publishers let one overlap another and a third run alone; four
are what a toggle needs (ask, stop, ask again, and the toggles in between). A channel of
one lags as soon as two updates wait; the code's 64 differs only in how long that takes.
A plugin needs three events to ask, be answered and go idle, or to finish two
sessions where a heartbeat has room for one; a cap of one lets the hub forget a
dismissal. Two sessions and two outside writes let clawlight write between the listing
and a removal, and between a removal's read and write; with a stale age of one hour the clock
has to tick once. A hub that changes twice has an old, a newer and a newest state, the
least that lets an older one replace a newer in the cache after both were seen; one
fault breaks the stream, loses a reply or takes the hub down. Two commands are what
overlapping or one after a failed one takes. The second monitor is too narrow for the
settings, so that views are moved to fit; two drags put one before and one after such a move.
Two pieces per file are the least that can be partial or mixed, and a call that truncates
the file another is about to rename needs two calls. `MaxRevision` and `MaxRestarts` are
the only bounds on counters.

**Termination and deadlock.** Deadlock is checked in the runs of the push source, the
engine and the stream; where a bound or the end of all calls stops such a model, a named
stuttering step says so (`Exhausted`, `Finished`). `push_store`, `follow`, `shell` and
`client_silent` do not check it, since a plugin that knows nothing, a dropped source and
a desktop with its bounds used up really do nothing.

**Fairness.** Weak fairness, on the program's own steps only, and never on users, agents,
faults or recoveries:

- the watcher thread (`WatchLoop`) and the stream thread (`StreamLoop`) are loops that
  nothing but dropping their source ends; a sleep is the time a step takes;
- the hub's sending (`Send`) and the steps of a command once it was given (`CommandSteps`):
  requests have timeouts, so they end one way or the other;
- the plugin's timers (`Flush`), its heartbeat interval (`SendSnapshot`; with
  `AGENTLIGHT_HEARTBEAT_MS=0` there is none, and no convergence), the answer to a lookup
  (`LookedUp`, and `SendFirst` for the one a status waits for), and the arrival of the oldest request that is not lost (`IngestFirst`).

Everything from outside is bounded, so "eventually always" asks what remains when it has come
to rest. The conditions of the liveness properties are stated in them: `Converged` asks
for a hub that is up and a connection that is not dead without anybody knowing (the stream
has no timeout, `client.rs:264`), and excepts an entry that an older one replaced
(`Overtaken`) or a failed fetch before the next frame; `CaughtUp` excepts a rewrite that
keeps the signature.

The rest of what must happen appears as safety of the moment it depends on: a change not
yet published is owed an `emit` by a call in progress (`ChangesAreEmitted`), a page that
renders the last frame is current (`RenderingCatchesUp`). The properties
about a publish that ran alone, a quiet source or no overlap name their condition
themselves (`solo`, `Quiet`, `overlap`, `overlapped`, `crossed`, `trespassed`).

## 4. What the code does that its words do not say

Each is the subject of a run that TLC must find violated.

1. `push_resurrect`. `source.rs:53` says a producer snapshot skips tombstones "so the next
   heartbeat cannot resurrect a session the user dismissed". The filter
   (`source.rs:171`) and the merge (`source.rs:177`) are under different locks; a removal
   in between is undone by the merge: the session is live and tombstoned at once, until the
   next heartbeat of its producer, which no longer lists it, prunes it, or an upsert makes it
   legitimate.
2. `engine_toggle`. `engine.rs:477` says needs-help fires on entering the status. With
   notifications off the edge does not update its memory (`engine.rs:406`), so a
   session that left and re-entered the status in the meantime is compared with
   the old entry and fires nothing.
3. `stream_restart`. `docs/protocol.md:258` calls the revision monotonic and has clients
   ignore older ones. A restarted hub counts from zero (`engine.rs:81`) and an open page
   keeps its `lastRevision` (`client.html:351`).
4. `file_shared`. `source.rs:338` writes "through a same-directory temp file and atomic
   rename". The name is per process (`source.rs:527`), and two `persist` calls of one
   process may overlap. `state.rs:343` makes its own unique per call for this reason.

5. `client_silent`. `README.md:118`: "a hub that cannot be reached says so". `poll_once`
   (`hub-client/src/source.rs:301`) signals when the entry differs from the last one it
   polled, and the cache is also replaced by the stream and by commands. A hub that was unreachable
   at the start, then reached, then lost, is polled with the same result as at the start:
   the cache says so and the screen does not.

Further limits, which the properties above state as conditions and no run of
its own repeats:

- Two overlapping calls may copy the live set in one order and write in the other
  (`source.rs:344`): `StoreIsCurrent` holds with one call at a time.
- An upsert between the two sections of `remove` loses its owner (`source.rs:228`):
  `LiveAreOwned`, likewise.
- The newest revision of overlapping publishes may carry the older view
  (`engine.rs:301`), and one entry may then be announced twice (`engine.rs:404`):
  `NewestIsCurrent`, `NotifiedOncePerEntry`, `OnlyMutedAreMissed`, `RenderingCatchesUp` and
  `CatchingUpSeesNewest` name the condition.
- An update published between seed and subscription is not sent (`routes.rs:144`), and
  a late snapshot may replace a newer frame (`client.html:317`): the page is right again with
  the next frame (`RenderingCatchesUp`).

- A slow `save` writes an older copy of the devices over a newer one (`devices.rs:243`), and
  a rebound server reads the file while the old store is still saved (`server/src/lib.rs:113`):
  `FileKeepsUp` and `AnswersLast` hold until then (`crossed`).
- `clear_done` removes by key what was done when it listed (`engine.rs:258`): a session that
  clawlight has made active since goes too (`ClearTakesOnlyDone`, `touched`).
- An entry of the hub client's cache may be replaced by an older one (`Overtaken`): the first
  frame of a stream is computed before the snapshot is fetched, and a reply may be overtaken by a
  frame (`hub-client/src/source.rs:257`). The next frame repairs it.
- `pick_state_file` works on a copy of the settings beside the main thread
  (`src-tauri/src/lib.rs:421`), and a failed save leaves a changed server
  (`src-tauri/src/lib.rs:291`): `ShellAgrees` names both (`overlapped`, `unsaved`).
- A probe stores its result whatever it was of (`src-tauri/src/lib.rs:182`, `228`): after a
  Refresh of an address that is not saved, or when two addresses are being probed and the
  older one answers last, the cached status is of a hub that is not configured.
  `ShellAgrees` excepts both (`raced`), until the configured hub is next probed with no other
  address under way. Settings compares the address before it shows the status; diagnostics do
  not.
- A rewrite of the state file that keeps its length and modification time is not noticed
  (`clawlight.rs:226`; `CaughtUp`, `blind`), and a removal that could not take the lock may undo
  what clawlight wrote (`state.rs:327`; `UpdatesAreNotLost`, `trespassed`).
- A drag is told from the program's move by the position alone (`src-tauri/src/lib.rs:590`):
  dragged back to where the program had put it, or moved to fit after a drag, the window
  returns to where the light was before (`CollapseRestores`).

Such a condition takes the event it names out of the property: the property does not catch
that event, it says that nothing else goes wrong, and the notes of the hazards in
`PROJECT.json` repeat it.

## 5. Proofs

Every safety invariant, every action property and both refinements that the passing
runs check are proved. All proofs are checked by `tlapm` with no assumption beyond
those the modules name (`DataAssumption`, `RequestAssumption`, `ProducerAssumption`,
`EngineAssumption`, `StreamAssumption`, `FileAssumption`, `DevicesAssumption`,
`SettingsAssumption`, `WindowAssumption`, `StateFileAssumption`, `DisplayAssumption`,
`ClientAssumption`), which TLC evaluates in the runs, and the hypotheses listed here. The
numbers of threads, sessions, producers, publishers, pages, requests, devices and
monitors, the capacities, caps and bounds are arbitrary. A theorem about a composition
(`StoreSpec`, `ShellSpec`, `FollowSpec`) follows from one about its part, since a step of
the composition is a step or a stutter of each part.

**Hypotheses.** They are written as `ASSUME` in the theorem, since only part of the code
satisfies them:

- `OwnName` (two calls never share a temporary name): `state.rs` does it, the other
  stores do not, and `file_shared` is what happens then.
- `OneCall` (one thread): `push_resurrect` and section 4 show what two overlapping calls of
  the push source break. The theorems that do not name it hold for any number of calls.
- `WritesFail = FALSE` in `NothingUnsaved` and `StoreIsRefined`: `persist` ignores an error, after
  which the store is simply older than memory.
- events that name their producer (`Signed`) in `LiveSessionsOwned`: a session nobody signed
  has no owner by design.
- `IsFiniteSet(SessionIds)` in `CapHolds` and `StoreIsRefined`, for counting tombstones.

**Push source.**

- `PushDataProofs`: lemmas on the pure steps: what dropping, adding and capping does
  to a tombstone list, what the upserts and prunes do to their types.
- `PushStoreProofs`: `TypeCorrect`; `RemovedStayAway` and `OwnersLive` from the
  inductive `Agreement` (both at once, relative to the types); `CapHolds`;
  `ReviveNeedsUpsert`, an action property. `PromptsStay`, of the plugin, needs in
  `PromptsKept` that no session has a prompt while its parent is asked for: the answer
  comes after an `await` and overwrites whatever is known by then. It is about the plugin, not
  about what the hub shows while older requests are under way.
- `PushSourceProofs`, for any number of overlapping calls: `TypeCorrect`;
  `TombstonesAreProper`: the list is proper in memory, in every copy under way and in
  the store at once, which is inductive as it stands; `EntriesOwned`: the
  invariant has to add that the index in every image and in the store is cut down to
  its live set, or a restart could bring an ownerless entry back; `NoChangeUnsignalled`:
  the invariant adds what `changed` means at each point of a call;
  `NoSessionJustVanishes`, an action property, which needs of a heartbeat only the types.
- With one call: `RemovedStayAway`, from `Exclusive`, which says at each point of a call
  which sessions may not have a tombstone yet, or any more, and says it of the store and of
  the copy under way too, since a restart loads one of them; writes may fail.
  `LiveSessionsOwned`, from `AllClaimed`, likewise. `NothingUnsaved`, from `Course`: at every
  point of a call, how much of it memory shows and that the store shows nothing of it yet.
  `StoreIsRefined`: the write of the store is the step of `PushStore` that the call stands
  for (`Leads`), every other step is a stutter. For a clear that needs `Buried`: ids
  are remembered one after the other, and the cap evicts an id of the same clear only when
  no older one is left, which is what the abstract `Bury` allows.

**Engine and pages.**

- `EngineProofs`, for any number of overlapping publishers: `TypeCorrect`;
  `RevisionsAreExact`; `NoPromptInSilence`, an action property: a prompt enters the memory only
  in a publish that tells of it, and what a publish has to tell stays with it until the sinks
  have it; `LonePublishIsExact`, whose `LoneInv` follows a publish
  nothing has overlapped through its steps; `NewestWins`, whose `DoneInv` says what such
  a publish leaves when it has ended. Until two publishers overlap: `OnceIsEnough`, from
  `Counted`: announcements in the channel, one under way and one that the edge will see
  together are no more than the entries; `NoOtherIsMissed`, from `Prompted`: whoever is due
  and not muted is about to be announced by the publish under way, and the settings an edge
  has taken are ones that alert.
- `HubStreamProofs`: `HubInv` joins the engine's invariants, which must survive a restart of the
  hub, with the types of the pages (`HubTypeCorrect`) and `NothingAhead`: neither a seed nor
  what a page has seen is newer than the counter. From it `NoPageAhead`, and with
  `NewestWins` the action properties `LastFrameIsCurrent` and `LagMissesNoNewest`.

**Files, devices, settings, window.**

- `FileReplaceProofs`: `FileTypeCorrect`, for shared names too. `Private` says that a call's
  temporary name, its open file and what it wrote belong to it until its rename; from it
  `StoreIsWhole`, `RenameSucceeds` and `ReplaceIsAtomic`, the refinement of `AtomicFile`.
- `ShellProofs`, devices: `DevicesFileKeepsUp` and `DevicesAnswersLast` from `DevicesInv`. A copy of
  the devices is made under the lock and written without, so the file is right only
  because of somebody else's write to come: `Owned` says which request has which device,
  `Followed` that what a copy lacks another request will copy or write, `Filed` that the
  file is what the store holds or will be, for the store in use and the one a rebound
  server has loaded.
- Settings: `SettingsAgree` and `DiskFollowsServer` from `SettingsInv`. `Progress` gives for every set
  of steps a command has left what memory, file, engine, pin and server hold of the old
  and the new settings (`Held`, `Applied`, `Served`), which is what a failure at that step leaves;
  `Probed` follows the probes of the hub, from the last that began with no other address under
  way.
- Window: `ClickAlwaysActs`, from the agreement of the shell's flag with the window;
  `CollapseIsExact`, from `Placed`: where the light belongs and what the anchor and the last
  placement have to do with it, collapsed and expanded.
- `ShellTypeCorrect`, `ShellKeepsItsWord` and `ShellFilesAreWhole` state them of `MCShell`.

**The sources of the desktop** (`FollowProofs`).

- State file: `UpdatesSurvive` and `ClearSparesTheLiving` from `FileInv`: the lock belongs to whoever is
  between reading and writing (`Holding`), what is about to be written was made of the file as
  it is (`Orderly`), and what a clear has yet to remove was done or was written since
  (`Chosen`). `ClearSparesTheLiving` therefore excepts a live session that was written since the
  listing. Both action properties hold until somebody does without the lock, which includes
  the step at which that happens. `FilesAreRenderedAlike`, from `OneSourceRendersAlike`, which is
  about the operators of `Display` alone.
- Hub client: `DrainedStreamIsCurrent`, from `ClientInv`. Every entry in a cache, a frame, a
  thread or a reply was made of the hub as it is or was (`Carried`); the last frame of the queue
  carries the hub as it is, however many it passed over (`Queueing`); what was sent is one
  frame, of which a part may have been read or lost (`Sent`); a thread that is not at its stream has
  none (`Linked`); and while the stream is open the hub's state was cached, is on its way or is
  about to be fetched, unless a fetch failed (`Abreast`). The fetch after connecting is what
  keeps the last part through the gap between first frame and subscription.
- `FollowTypeCorrect` states the types of both.

**Only model-checked**: liveness under fairness (`Converges`, `ScreenCatchesUp`, `DroppedEnds`), which is
out of the prover's reach, like `ENABLED`, induction over data and recursive operators (none
is used); and, since TLC has to find them violated, the properties of the other five runs.

## 6. Not modelled

- Clocks in the push source: `last_ingest`, stale health, the `seen` flag and the
  downgrade of sessions after 24 h change what is read and no state that is modelled.
- A publish of an old source's watcher during `set_source`: it reads the sources as they are by
  then, so it is one of the overlapping publishes of `Engine`; `HubClient` has what it shows.
- Hashes, tokens and wording: a token is its device, an error is that there was one. The 401
  paths of the page, and its form for pairing.
- Sinks are called in turn with the same update; one stands for them. Sinks of a stopped server
  stay subscribed and send to nobody.
- The exact interleaving of locks held together (`source.rs:178`): one step.
- The second dimension of the window, scale factors, monitors that come and go, and a window
  manager that does not do as it is told.
- A settings form that was opened before the settings last changed, or with several fields edited
  at once: `Forms` edits one field of the settings in memory. `SettingsAgree` uses of the form only
  that what it is saved as is a setting.
- Commands to a remote hub that overlap: `HubClient` has one at a time, beside the stream thread.
- The requests of one heartbeat for several parents, one after the other (`agentlight-v2.js:356`):
  one step with the sending.
- Starting a hub from the plugin, autostart of the desktop, diagnostics, sound, the first
  version of the plugin, the hook command, command lines and packaging.

## 7. Plan

Done: push source, its store, its abstract specification and its producer; file
replacement; engine publish pipeline and rendering; hub stream and page; state file; hub
client; settings, devices and window of the desktop; the theorems of section 5. Next:

1. Theorems about what the runs do not state: that the hub of `Producer` shows only sessions its
   plugin has reported, and that what `Display` renders is a subset of what the source has.
2. Clocks of the push source, with what a client is told when a source turns unreadable.
