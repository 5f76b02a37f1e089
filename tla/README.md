# A TLA+ model of Spore Tunnel

TLA+ modules, TLC configurations and machine-checked proofs about the tunnel
engine of Spore Tunnel (`src-tauri/src`) and the part of the frontend store
(`src/store`) that its events feed. Paths below are relative to the repository
root; `sup:` stands for `src-tauri/src/tunnel/supervisor.rs`, `man:` for
`src-tauri/src/tunnel/manager.rs`, `cli:` for `src-tauri/src/tunnel/client.rs` and
`fwd:` for `src-tauri/src/tunnel/forward.rs`.

- [The system](#the-system)
- [The modules](#the-modules)
- [The runs](#the-runs)
- [Bounds](#bounds)
- [Fairness](#fairness)
- [What is proved](#what-is-proved)
- [Where code and documents disagree](#where-code-and-documents-disagree)
- [Simplifications](#simplifications)
- [What is not modelled](#what-is-not-modelled)
- [Plan](#plan)
- [Running it](#running-it)

## The system

Spore Tunnel exposes a local TCP service through a Bore or Spore server. Its
parts, from the network up:

| Part | State | Operations | Hard part | Correct when |
|---|---|---|---|---|
| Wire protocol (`tunnel/protocol.rs`) | decoder buffer | encode, decode NUL-delimited frames, map messages, answer the challenge | partial frames, dropped calls, a limit, end of stream | every split of a byte stream decodes alike and loses no byte; the buffer is bounded |
| Tunnel client (`tunnel/client.rs`) | none between calls | connect, attempt, wait for the challenge, open a data connection | two server dialects, per-frame timeouts, retry in the other dialect | a handshake ends, and agrees with its server |
| Forwarder (`tunnel/forward.rs`) | two pump tasks per visitor | copy both ways until EOF, failure or abort | half-closes, errors beside a direction that waits | each direction is a pipe; an error ends both |
| Supervisor (`tunnel/supervisor.rs`) | `InnerState`, log ring, stop watch channel, task handle, forwarder set, counters | `start`, `stop`, the task (dial, session, teardown, backoff), `is_running`, `status` | lost stop signals, abort at the next await, forwarders that outlive a session | complete teardown before a redial; a stopped task ends; the status is true |
| Event pump (`man:213-285`) | last log index, time of the last emission, pending flush | wake on a change, flush logs, emit or coalesce a status, 1 s timer | two writers that publish out of order; lines without changes and changes without lines | no line lost; the last status reaches the frontend; no step back in time |
| Tunnel manager (`tunnel/manager.rs`) | map of profile to entry (supervisor, pump, stopped mark) | `start`, `stop`, `stop_all`, queries | `stop` works without the map lock; a restart overlaps the old stop | no live tunnel out of reach; a fresh tunnel keeps its pump; Quit stops all |
| Commands (`commands.rs`) | none | profile and tunnel commands, resolution of profile and secret | checks before an await that are stale after it; read-change-write of one file | an answer given is kept; a deleted profile has no tunnel |
| Configuration and secrets (`config.rs`) | config file, keyring | load, save, store, delete, import of the legacy config | a crash or failure between file and keyring | a file that can be read is a config; a torn one is not lost |
| Frontend store (`src/store/reducers.ts`, `events.ts`) | status, stats and logs per profile | one reducer per event, hydration at startup | live events that arrive before the backfill; runs told apart only by an index | the buffer is the end of the run's log, once and in order; the status is the last |
| Tray (`tray.rs`) | last bit of each tunnel, last menu built | rebuild when a bit flips, start, stop, Quit | overlapping refreshes, statuses that are never emitted | the menu follows the tunnels |
| Application shell (`main.rs`, `lib.rs`) | none | launch auto-connect, fan-out of events, close to tray | autostart beside user commands | only calls the manager |
| Mock server (`tunnel/mock_server.rs`) | counters | handle a connection in either dialect | the server's half of the handshake | — |
| Discovery, update check, views, frontend helpers | little or none | one question, one answer; rendering | none of their own | — |

How they interact. A command, the tray, or the launch auto-connect calls
`TunnelManager::start` or `stop`. `start` holds the map lock, makes a fresh
supervisor and its event pump, starts the supervisor's task and puts all of it
in the map. The task dials through the client, runs a session that spawns one
forwarder per visitor, tears everything down when the session ends and backs off
before it dials again. Task, forwarders and `stop` write `InnerState` under its
lock and publish a snapshot to a watch channel; the pump reads the channel and
emits status and log events, which the frontend's reducers fold into the store
and the tray into its menu. `stop` marks the entry and takes its pump under the map
lock, and then, without the lock, signals the task, waits for it up to a grace period,
aborts it if need be, writes `stopped`, aborts the pump and emits the last status
itself. Profile commands read, change and write one config file and one keyring
beside all this, with no lock.

## The modules

| Module | Models | Uses |
|---|---|---|
| `TunnelLifecycle` | abstract: what one run of a tunnel promises | — |
| `StatusMoves` | the states a tunnel reports and the moves its task makes | — |
| `Supervisor` | the supervisor, its task, its forwarders and their pumps, callers of `stop` | `StatusMoves`; instantiates `TunnelLifecycle` |
| `BytePipe` | abstract: what one direction of a forwarded connection promises | — |
| `Forwarder` | one visitor's connection, byte by byte | instantiates `BytePipe` twice |
| `ControlMessages` | the messages of the control channel and the frames of both dialects | — |
| `Handshake` | a dial or a claim against a server | `ControlMessages` |
| `FrameCodec` | frames over a byte stream, and the switch to raw bytes | — |
| `LogRun` | the frontend's log reducers as functions | — |
| `EventPump` | writers, status watch, event pump, frontend log buffer of one run | `LogRun`, `StatusMoves` |
| `TunnelManager` | the manager's map and the commands around it | `StatusMoves` |
| `ConfigStore` | the commands over the config file and the keyring | — |
| `FrontendStore` | subscription, hydration and reducers over several runs | `LogRun` |
| `Tray` | the tray's sink, its refreshes and its menu | — |
| `SupervisorProofs`, `TunnelManagerProofs`, `ForwarderProofs`, `ConfigStoreProofs`, `FrameCodecProofs`, `HandshakeProofs`, `FrontendStoreProofs` | theorems | the component |
| `EventProofs` | theorems about the events of a run and what the tray makes of them | `EventPump`, `Tray` |
| `MC...` | instances for TLC | the component |

`Supervisor`, `EventPump`, `TunnelManager`, `FrontendStore` and `Tray` look at the same
tunnels from different distances. The first three meet in `StatusMoves`:
`Supervisor` *proves* that the state moves so (`StatusMovesAllowed`), the other
two *assume* it of the tasks they contain. `TunnelManager` takes from
`EventPump` that a pump shows its supervisor's state some time after each change
(`RestShowsLatest`), and so do `FrontendStore` and `Tray`. `Supervisor` takes from `Handshake` that a
dial succeeds, fails or lasts, and from `Forwarder` how a connection's pumps end;
`Handshake` takes from `FrameCodec` that a connection is a channel of whole frames.

Actions whose name has a suffix and whose comment begins with *Mutant* are no
part of any specification: each changes one action the way a bug would, and
`PROJECT.json` says which property TLC then finds broken.

### Supervisor

One action is the code between two points where another thread can get in: an
await, or a lock or channel operation on shared state. `pc[r]` is where the
`supervisor_task` of run `r` is: in one of the `AwaitPcs`, where an abort can end
it, or between awaits. `status` is `InnerState` reduced to what the properties
tell apart (state, whether there is an address, a start time and an error, and the
reconnect count). `fwd`, `owner`, `activeConns` and `pump` are the forwarder tasks, the
counter their `ConnGuard` keeps, and the pump tasks. `stopper` is where each caller
of `stop` is: before the signal, before it takes the handle, waiting for the task, before it
writes `stopped`, or back.

The stop signal is a `tokio::sync::watch` channel whose only long-lived receiver
`TunnelSupervisor::new` drops (`sup:258-272`). `send` on a channel without
receivers stores nothing, so a signal reaches a task only while it is
subscribed: in a session or in its backoff. This is why `stop` needs its grace
period and its abort, and it is the centre of the model.

### Forwarder

`task` is the future that `spawn_forwarder` spawns, from the dial of the local service to
the return of `forward_bidirectional`; `pump["up"]` copies from the visitor to
the local service, `pump["down"]` back. A byte is its position in what
its source sent. `inbox` and `outbox` are the two sockets of a
direction, `chunk` what a pump has read and still writes, one byte at a time as
the sink's socket has room, so that an abort or a reset can fall in the middle of
`write_all`. `FirstSettles` and `SecondSettles` are the two halves of
`forward_bidirectional` behind its select. Peers send, finish, read or do not
read, and reset as they like.

`BytePipe` knows nothing of chunks, counters or tasks. `Up` and `Down` map its
`received` to what a pump has handed to the sink's socket, its `ended` to a
half-close or to both pumps being over (the sockets are dropped then, and the peer
sees an end), its `broken` to a reset of either peer: an error passes
from one direction to the other.

### ControlMessages and Handshake

A frame is a bare string, a tagged object or junk; `WireForm` is how a server of a dialect
writes a message and `Parse` how the client reads a frame. Both are where the
dialects differ: a Spore challenge is a bare string, and a bare string
that is no keepalive is a challenge.

`Handshake` has one call in progress: `connect` or `open_data_connection` (`job`). `pc` is the await
the client is in; `conn` counts its connections. `FailRetryable` is the `retry` of `Fail`, taken once.
The timers (`WindowCloses`, `ReplyTimesOut`) may fire at any time, also with the frame
on its way. `handler` is `handle_conn` of the mock server, one for each
connection, so the first connection's handler can still write when the second is open.
The network loses a connection with any part of what was on its way, and a
server may send keepalives and frames out of place. `mishaps` is a history
variable: what went wrong outside the client, for properties about servers that do nothing wrong.

### FrameCodec

A byte is the delimiter or the number of its message. `write_frame` makes two writes
(`WritesPayload`, `WritesDelimiter`), so the stream can be cut or closed between them.
`ReadsChunk` takes any part of what the network has. `call` is where `next_frame`
is: `scanning` the buffer, or `awaiting` a read, where `Cancelled` drops the call.
The sender is this program (`checks`) or one without a limit. `TurnsRaw` is `into_parts` with
`drain_buffer`, `CopiesRaw` the forwarder behind it. `written`, `framed` and `delivered` record both ends.

### EventPump

`inner` is the state with a revision number, `outbox` the snapshot each writer has taken
under the lock and not yet published (`sup:209-216` publishes after the lock is
released), `watch` the published one. `StartResets`, `StartLogs` and `StartSpawns` are
the first writes of `start`; `TaskWrites` is any later write of the task or its
forwarders; `StopMarks` and `StopLogs` are those of `stop`. The pump's select is
`PumpWakes`, followed by `PumpShowsStop` or `PumpDecides`, and `PumpTimer`; `PumpReads`
and `PumpEmits` are the two halves of `emit_status(&id, &supervisor.status())`.
`view` is the store's log buffer, folded by `LogRun`.

### TunnelManager

`entry`, `stopped` and `pumpHeld` are the map of `RunningTunnel`s, `state`, `task`,
`handle` and `signalled` a supervisor seen from outside, `pump`, `dirty` and `shown` its
pump and what the frontend shows. Each caller runs one command: `StartLooksUp`,
then `StartRefused` or `StartRuns`; `StopMarks`, `SupSignals`, `SupJoins`, `SupMarks`,
`StopAborts`, `StopEmits`; `QuitCollects`, then `QuitStops` and the rest of a stop for
each profile, then `QuitExits`; `DeleteChecks`, `DeleteSaves`. Everything under the
map lock is one action.

### ConfigStore

`names`, `active` and `theme` are the config file's content and `torn` says that it
cannot be parsed; `keyring` holds the profiles' secrets. Each call runs one request of `Requests`:
`Loads` is `load_config` with the command's checks and its change to the copy, `Opens` and `Writes` the two halves of
`fs::write`, then the keyring (`EditStores`, `DeleteDrops`); a start resolves its secret
(`StartResolves`) and starts. Two writes of one file can overlap: a call that is
`overwriting` truncated the file before another wrote it. `Killed` ends the process at any
step, `WriteFails`, `Opens` and the keyring calls may fail. `acked` is the history of what the
commands answered; `contended`, `failed` and `ruined` are histories of what went wrong.

### FrontendStore

The backend is the pump of `EventPump`, coarser: a line has its run and its
index, a status its revision. The webview side is `doInit`: `Subscribes` (each `listen` succeeds or fails; a
second `init` listens again), `ReadsStatus`, `ReadsLog`, `Hydrates` with `MergeLogRuns`
and `StatusMerged`, while `Delivers` applies events that arrive in between. `Restarts` gives the profile a
fresh supervisor whose indexes begin at zero; `late` are lines the old pump emits after that.

### Tray

`live` is a tunnel's running bit and `due` the tunnels whose last status has not been
emitted. A start publishes an idle status, which is not live (`Starts`); whatever a started tunnel reports
afterwards is a bit (`Reports`). `Tells` is `TraySink.emit_status`, which spawns a refresh when the
remembered bit (`seen`) flips. It is called with the last status (`Emits`) or late (`EmitsLate`): by a stop that a restart
has overtaken, or by a pump that is aborted between reading a status and emitting it. A refresh reads the config (`RefreshLoads`), then the statuses
(`RefreshCollects`), then installs a menu under the lock of `MenuState` if the
signature differs (`RefreshInstalls`). Building that menu may fail, and then the next refresh tries again; setting it may
fail too, which the code does not look at (`tray.rs:305`): an older menu is on screen, and `menu`, which stands for what
counts as built, is not what one sees (`unset`). `Clicks` does what an item said when it was built.

`stale` is a history variable for the exceptions of `TrayCurrent`: since the last refresh that began while no other was
reading, a profile was edited, a refresh overlapped another or gave up, a refresh read a bit that flipped back before it was emitted, or
a menu could not be built; or a menu that counts as built is not on screen. The definitions are `TrayInit`, `TrayNext` and so on, because
`EventProofs` extends the module beside `EventPump`: tray and frontend are the two sinks of the pump's events.

The system may rest for ever with no profile saved, no tunnel left and no edit left, so the run does not check deadlock.

## The runs

| Run | Question | Result |
|---|---|---|
| `supervisor_safety` | Two visitors and two concurrent `stop`s against one run whose sessions die twice: is the teardown complete before every redial (`TeardownBeforeRedial`), the counter exact (`ActiveConnsExact`), `connected` true (`ConnectedHasSession`), no task lost (`NoOrphanTask`), no rest after a stored stop (`NoRestOnceStopStored`), the last word `stopped` unless a task had to be aborted (`StoppedUnlessAborted`), every move of the state one of `StatusMoves` (`StatusMovesAllowed`)? | holds |
| `supervisor_live` | Does a task that is stopped end (`StoppedTaskEnds`), does silence end a session (`SilenceEndsSession`), and is the whole a `TunnelLifecycle` with its liveness (`LifeRefined`)? | holds |
| `forwarder` | Is each direction a pipe (`PipesKept`), are the counters right (`CountsForwarded`), does a direction flow whatever the other does (`BytesFlow`), does an error in one end both (`ErrorEndsBoth`)? | holds |
| `handshake` | Against a server that does nothing wrong, is the result the one the dialects and secrets call for (`SoundDial`)? Whatever goes wrong: is a joined client's server joined to it (`JoinedAgrees`), are a claim's bytes the visitor's (`ClaimIsClean`), does the call end (`EndsUnlessKeptAlive`)? | holds |
| `frames` | Is no byte lost (`BytesConserved`), the buffer bounded (`BufferBounded`), the end true (`EndIsTrue`), no whole frame left behind (`FramesArrive`)? | holds |
| `event_pump` | Whatever the writers and the pump interleave: is the frontend's buffer the end of the log once the pump rests (`ViewMatchesRing`), has a resting pump shown the latest status (`RestShowsLatest`), does the shown status never go back (`StatusForward`)? | holds |
| `manager` | Four overlapping commands on two profiles, Quit among them: is no tunnel out of reach (`NoLeakedTunnel`), no fresh tunnel silenced by an old stop (`FreshPumpAlive`), no stopped tunnel shown as anything else (`StoppedIsShown`), and all that was started before Quit stopped when the process ends (`QuitStopsAll`)? | holds |
| `config_store` | Is a file that can be read a config (`FileSound`), a torn one never written over from nothing (`TornIsKept`), an answer kept (`AnswersKept`), no secret left without a profile (`NoOrphanSecrets`), a tunnel started with the secret last given (`StartedWithItsSecret`)? | holds |
| `frontend_store` | Do the buffered indexes increase (`BufferIncreases`), is the buffer the end of the ring (`BufferIsTail`) and the status the last one (`StatusCurrentAtRest`) once everything is delivered? | holds |
| `tray` | Do menu and tooltip follow the tunnels at rest (`TrayCurrent`)? | holds |
| `supervisor_visitors`, `manager_deleted` | Does the code keep what its documents and messages say? | violated, see [below](#where-code-and-documents-disagree) |

The properties are stated over reachable states where the hazard exists:
`ViewMatchesRing` would be broken by a pump that coalesces log lines, `NoLeakedTunnel` by
a restart check that trusts `is_running` (false during the first dial), `FreshPumpAlive`
by a stop that takes the pump after it has stopped the supervisor, `JoinedAgrees` by a
decoder that is kept for the retry, `FramesArrive` by a `next_frame` that reads before it looks at
its buffer, `BytesFlow` by a forwarder that returns at the first clean end.

Some properties hold with exceptions, which are behaviours of the code and not of the model.
`AnswersKept` and `NoOrphanSecrets` are about calls that do not overlap: no command takes a lock, and
overlapping ones lose updates. `ClaimIsClean` is about challenges that come within their
window. `BufferIsTail` excludes two runs that only their index could tell apart, and after a
line that arrived behind a backfill that holds it asks for an unbroken end of the ring only. `TrayCurrent` names five: an edit of the profiles, overlapping refreshes, a bit that flips back unemitted, a refresh that fails, a menu that is not set. Each exception is
a state the run reaches, and each is told [below](#where-code-and-documents-disagree).

## Bounds

| Constant | Value | Why it is enough |
|---|---|---|
| `Visitors` | 2 (1 for liveness) | a forwarder only meets its own session and the shared counter |
| `Stoppers` | 2 | the second `stop` finds no handle: the one case two callers add |
| `MaxStarts` | 1 | the manager starts each supervisor once (`man:97`); the model allows more |
| `MaxDeaths` | 2 (1 for liveness) | two sessions after the first show a death, a redial and a death again; from then on the server only refuses |
| `Chunk`, `SocketRoom`, `MaxBytes` | 2, 1, 3 | a chunk is more than a socket takes, and two reads are needed |
| `MaxDown` | 2 | two frames in a row on the way: what a handler wrote, and a keepalive or stray behind or before it |
| `MaxFrame`, `ReadChunk` | 3, 4 | a read holds a frame and a part of the next, or several short frames |
| `MaxMsgs`, `MaxLen`, `MaxRaw` | 3, 4, 2 | payloads at, below and above the limit (the delimiter counts); three frames in one stream with raw bytes behind |
| `RingCap`, `ViewCap` (`EventPump`) | 3, 2 | the ring evicts, and is longer than the buffer, as 1024 is longer than 1000 |
| `MaxWrites` | 2 | the task's writes beside the two of `start` and the two of `stop`: five lines at most pass through a ring of three |
| `MaxSups`, `Callers` (`TunnelManager`) | 2 and 4 on two profiles | an old and a fresh supervisor of one profile, or one of each; start, stop, start and stop overlap, or Quit with a start and a stop beside it |
| `Profiles`, `Names`, `Secrets`, `Callers` (`ConfigStore`) | 2, 2, 1, 3 | a profile can take the other's name; two calls race for the file and a third finds what they left; the legacy secret is a second one |
| `RingCap`, `ViewCap`, `MaxRuns`, `MaxLines`, `MaxRevs` (`FrontendStore`) | 3, 3, 2, 4, 3 | ring and buffer both evict, and a backfill can hold a line before and a line after one that is on its way (with room for two, `BackfillKept` would hold); one restart lets old and new lines meet |
| `Profiles`, `Names`, `Refreshes`, `MaxEdits` (`Tray`) | 2, 2, 2, 2 | two refreshes overlap; a profile is deleted and its name given to the other one |

`Symmetry` permutes what no action tells apart (visitors, callers, profiles, names, refresh
tasks); it is not used with liveness.

## Fairness

Weak fairness is assumed of what the runtime runs, and of nothing else.

- `Supervisor`: each task's own steps (the runtime polls a task that is ready, and its timers fire), each
  forwarder's own end, and each caller's `stop`. Nothing is assumed of the server, of the visitors'
  traffic or of the user: a dial may hang for ever, a session may stay silent or be kept alive
  for ever. `SilenceEndsSession` is therefore about a server that has stopped beating, and
  `StoppedTaskEnds` rests on the abort that follows the grace period.
- `Handshake`: the client only. Its timers make it end; `EndsUnlessKeptAlive` has the premise that the server
  at some time stops to send keepalives, because the reply timeout begins again at each frame.
- `FrameCodec`: the reader runs, and a read that is ready again and again is taken (strong fairness of `ReadsChunk`,
  because the select that calls `next_frame` may drop the call before it, but polls it again).
- `Forwarder`: the task and each pump. The peers are unfair; `BytesFlow` has the
  premise that the sink reads.

The other modules have no fairness. What would be a liveness property of the event pump,
that the last status is shown, is the invariant `RestShowsLatest`: a pump that has nothing
to do, no change to look at and no timer armed, has shown the latest status. `FrontendStore` and `Tray` are
stated at rest in the same way.

## What is proved

TLAPS checks these for every value of the constants.

| Theorem | Property | Rests on |
|---|---|---|
| `SupervisorProofs!TypeCorrect` | `TypeOK` | `CountedTypeOK` |
| `SupervisorProofs!ActiveConnsCounted` | `ActiveConnsExact` | `CountedTypeOK` |
| `SupervisorProofs!TeardownComplete` | `TeardownBeforeRedial` | `TeardownInv` |
| `SupervisorProofs!NoTaskOrphaned` | `NoOrphanTask`, given `MaxStarts = 1` | `OrphanInv` |
| `SupervisorProofs!StopIsNotSleptThrough` | `NoRestOnceStopStored`, given `MaxStarts = 1` | itself |
| `SupervisorProofs!StopsEndStopped` | `StoppedUnlessAborted`, given `MaxStarts = 1` | `StopInv` |
| `SupervisorProofs!ConnectedIsTrue` | `ConnectedHasSession` | `ConnectedInv` |
| `SupervisorProofs!MovesKept` | `StatusMovesAllowed`, given `MaxStarts = 1` | `MovesInv` |
| `SupervisorProofs!LifeImplemented` | the safety part of `LifeRefined` | `SpawnedInv` |
| `TunnelManagerProofs!TypeCorrect` | `TypeOK` | `Base` |
| `TunnelManagerProofs!NothingLeaked` | `NoLeakedTunnel` | `LeakInv` |
| `TunnelManagerProofs!FreshPumpKept` | `FreshPumpAlive` | `PumpInv` |
| `TunnelManagerProofs!QuitReachesAll` | `QuitStopsAll` | `QuitInv` |
| `TunnelManagerProofs!StoppedStaysShown` | `StoppedIsShown` | `ShownInv` |
| `ForwarderProofs!PipeInvariant` | `PipeInv` and the types | itself |
| `ForwarderProofs!BytesCounted` | `CountsForwarded` | `PipeInv` |
| `ForwarderProofs!ForwarderIsPipes` | `PipesKept` | `PipeInv`, `EndsFull` |
| `ConfigStoreProofs!TypeCorrect` | `TypeOK` | `SoundInv`, `AloneInv` |
| `ConfigStoreProofs!FileIsSound` | `FileSound` | `SoundInv` |
| `ConfigStoreProofs!TornFileIsKept` | `TornIsKept` | `NoCopyHeld` |
| `ConfigStoreProofs!AnswersAreKept` | `AnswersKept` | `AloneInv` |
| `ConfigStoreProofs!SecretsHaveProfiles` | `NoOrphanSecrets` | `StoreInv` |
| `ConfigStoreProofs!StartedAsAnswered` | `StartedWithItsSecret` | `StoreInv` |
| `FrameCodecProofs!BufferIsBounded` | `BufferBounded` | `BufferInv` |
| `FrameCodecProofs!FramesCutWritten`, `CodecTyped` | `FrameInv`, with `TypeOK` | itself |
| `FrameCodecProofs!EndsTruly` | `EndIsTrue` | `FrameInv` |
| `FrameCodecProofs!NoByteIsLost` | `BytesConserved` | `FrameInv` |
| `HandshakeProofs!JoinedIsTrue` | `JoinedAgrees` | `JoinInv` |
| `HandshakeProofs!DialIsSound` | `SoundDial` | `JoinInv`, `StageInv` |
| `HandshakeProofs!ClaimsAreClean` | `ClaimIsClean` | `JoinInv`, `StageInv` |
| `HandshakeProofs!HandshakeTyped` | `TypeOK` | `JoinInv`, `StageInv` |
| `EventProofs!PumpTyped` | `TypeOK` | `ViewInv` |
| `EventProofs!BufferFollowsRing` | `ViewMatchesRing` | `ViewInv` |
| `EventProofs!RestIsLatest` | `RestShowsLatest` | `ShownInv` |
| `EventProofs!NeverBack` | `StatusForward` | `ShownInv` |
| `EventProofs!TrayTyped` | `TrayTypeOK` | itself and `MenuInv` |
| `EventProofs!MenuFollows` | `TrayCurrent` | `MenuInv` |
| `FrontendStoreProofs!StoreTyped` | `TypeOK` | `LinesInv` |
| `FrontendStoreProofs!LinesInOrder` | `BufferIncreases` | `LinesInv` |
| `FrontendStoreProofs!ShowsLastStatus` | `StatusCurrentAtRest` | `StatusInv` |
| `FrontendStoreProofs!EndIsShown` | `BufferIsTail` | `LinesInv`, `TailInv` |

The assumptions are the named `ASSUME`s of the modules: positive bounds and chunk sizes, finitely
many visitors and profiles, a value that is no profile, name or secret, and room for two frames on a
connection. `EventPump` and `FrontendStore` assume `ViewCap <= RingCap`, as `MAX_LOG_LINES` is 1000
(`reducers.ts:18`) and the ring's capacity 1024 (`sup:34`): with a shorter ring, a pump that comes late or a backfill would leave
a gap in the buffer.

*Counting.* `activeConns \in Nat` is not inductive by itself, since a guard's drop decrements it:
`CountedTypeOK` adds that the counter is the number of guards, so that every decrement has a
guard to give back.

*Teardown.* `TeardownInv` adds that a run that was not started has no forwarders. The heart of
the proof is that only a task in `session` spawns forwarders, and that it leaves `teardown` only
when none of its own is left.

*No orphan.* With one start, the handle is stored when the task is made and given up only by
a `stop` that takes it, which waits for the task until it is over or aborted. With two starts it
is false: `start` checks `is_running`, which is false during the first dial, and the second
start forgets the first handle. The manager never does this, hence the premise.

*The last word.* `StopInv` adds to `OrphanInv` that nobody stops a supervisor before its start, and that a stop
which is past its signal leaves no handle. When all stops are back, a task that may still write a status is
neither held nor joined, so it was aborted.

*Connected.* Only `ReportConnected` writes `connected`. `Backed` lists where its run is until it
writes something else; a run that leaves this list by its own step writes `starting`, `stopped` or `failed` in
that step, except when a stop is stored, which makes the run exit, or when it was aborted.

*Moves.* `MovesInv` bounds, for each place the task is in, the states it can find there (`Found`):
a stop may have put `stopped` under it at any time, which is why every row of the table of `StatusMoves` has it.

*Life.* Every step maps to a step or a stutter of `TunnelLifecycle`; the cases to watch are the end of a session, where the
loop over `join_next` leaves nobody carried, and the abort, where `SpawnedInv` shows that what is aborted was begun.

*No leak.* `LeakInv` follows one tunnel through a stop. A mark comes first (`MarkedFirst`:
signals, `stopped` reports and every later stage of a stop are on marked tunnels). A task that
lives has its handle or a stop that waits for it; if it is marked and still has its handle, a stop is about
to signal it; if it has not failed, its profile's entry names it or it is marked (`TasksHeld`). A
restart replaces only an entry that is marked or has failed, so a replaced tunnel that lives
always has a stop on it.

*Fresh pump.* `PumpKept`: a supervisor that is neither marked nor replaced has a live pump. A stop
aborts the pump of the supervisor it marked, a restart the one it replaces, and a pump ends by itself only after
`stopped`, which implies the mark.

*Quit.* A tunnel that was there when Quit took its list has its profile on the list still, or is over, signalled or
being stopped (`QuitPending`). When its profile leaves the list it is either the entry, which Quit's own stop
marks, or was replaced, and then `LeakInv` has a stop on it if it lives; a stop past its signal has signalled (`SignalsKept`).

*Stopped stays shown.* A stop past its join has taken the handle (`HandlesTaken`) and found the task over, so the
`stopped` it wrote is the last state (`Settled`); whatever shows that supervisor afterwards, its pump before the abort
takes effect or the stop itself (`TargetsOwned`), shows `stopped` (`ShownLast`).

*Pipes.* `Accounted(d)`: what the source has sent is what was written, then what the pump holds, then what waits in
the socket. Everything else follows: at an end of the stream the last two are empty. `Tasked` relates the
forwarder to its pumps: an abort was asked only after the other direction failed, so that a cut
stream has a reset behind it (`EndsFull`).

*Files.* `SoundInv`: what is in the file and every copy in flight is a sound config, since a copy was made by
a sound change of a sound file and is written whole. `NoCopyHeld`: once a call had to begin
on a torn file alone, no call holds a copy to write over it, and none can load one. `AloneInv`: as long as calls have not overlapped, at most one is in
flight, and its copy differs from the file by what it will answer.

*Buffer.* `next_frame` reads only with a buffer within the limit, so a read adds to at most `MaxFrame` bytes.

*Joined.* `JoinInv` says of every `Hello` or `HelloEx` on its way that the handler that wrote it has greeted the client and
authenticated it; frames of an older connection are never read.

*Secrets.* `SecretInv`: the keyring is what the answers said, and as long as nothing overlapped or failed, a secret without a
saved profile belongs to the one call in flight that is about to save or to drop it. A call past its load
works on a profile that is saved, and what a start has resolved is the keyring's entry.

*Frames.* `FrameInv` cuts what was written at the places of its delimiters: `cut[k]` is the place of the k-th, every frame
lies between two cuts and holds no delimiter, and what the reader has delivered are the frames up to some cut. What is buffered, and
then what is on its way, is the rest. So the first delimiter in the buffer is the next cut wherever the network splits the stream,
a buffer without one is within one frame, and a buffer over the limit shows a sender without one. `NoByteIsLost` is an
induction of its own: each step moves bytes between neighbours in `Encoded(delivered) \o raw \o buf \o net`.

*Stages.* `StageInv` pairs, for a dial that nothing disturbs, what the client waits for with where its handler is and with the frames
on their way in both directions (`DialStages`), and likewise for a claim whose challenge comes in time (`ClaimStages`). A handler that
moves and a client that reads both go from one stage to another; the last stages are the outcomes `SoundDial` lists.

*Buffer and ring.* `ViewInv` names a number p of lines the store has got: the buffer is the window that ends at p, `last_log` is its
last line or reset, and p is the length of the log unless something was not looked at. The lemmas on bursts (`BurstCatchesUp`) say that a burst up to
line n makes the window of n, wherever it begins (further back the buffer starts again, at its end it repeats, beyond it
appends), if it leaves no gap or is longer than the buffer. That the ring holds at least as much as the
buffer is what makes a burst from the oldest line long enough.

*Statuses.* `ShownInv`: no snapshot in use is newer than the state (`NoneNewer`), and everything not older than a stop is stopped
(`StopsLast`), unless the task was aborted. The pump reads the state itself and not the watched snapshot, so what it has read is the latest, or
there is still something it has not looked at; that carries the latest through emission, coalescing and timer.

*Lines.* `LinesInv`: the ring, the backfill and the buffer are ordered, whatever is on its way. One event keeps the order, since it appends above the last
index, repeats it, or starts anew; a merge keeps it, since the live tail is what lies beyond the backfill.

*Menu.* `MenuInv` says that, unless the menu may be outdated (`stale`), a refresh is spawned that has read nothing yet (`Spawned`), or
whatever was read last fits (`Follows`): at most one refresh is reading, with the names of the saved profiles or with entries that fit, or none is, and
the built menu and its count fit. Entries fit (`Fits`) if each has the bit of the tunnel whose name it has, or that tunnel's
status has yet to be emitted. An emission takes this excuse away. If it flips the remembered bit, it spawns a refresh. If not, the bit was
emitted before, and what was read with the other bit in between is the exception `stale` records. The remaining step is the
signature, which has names and bits but no ids: entries that have no name twice (`Apart`) and an equal signature have equal
labels (`SignatureTells`), and as many of them run (`CountByLabels`). So a menu that is kept is as good as the one not built.

*Last status.* `StatusInv`: once the pump owes nothing, the status that will be shown when the channel is
empty (`WillShow`) is the current one, or nothing was emitted to a listener and the snapshot on its way is. The page
subscribes before it asks, so whatever changes after the snapshot comes as an event.

*End of the buffer.* `TailInv` follows the lines of the current run from the pump to the buffer (`OnTheWay`): from some place
on, the channel brings, in order and without a gap, those from a line f to the last one emitted. Either f is so far back that they
fill the buffer whatever it holds, or the stretch is the whole channel and the buffer waits for f (`InStep`). It waits
with the lines before f at its end, as many as there is room for or all that it holds; or empty, with a backfill that was
read later and so goes at least to f. Hydration is the step that matters: the backfill is the ring of an earlier moment, so it is
as long as the buffer or begins with the first line, and what the merge puts together of it and the live lines has no gap, in all of its
three branches. From then on the buffer may be ahead of the channel, and a line that it already has is dropped, or, if it
is not the last one, starts the buffer anew: the one case in which the buffer does not reach back as far as it could (`receded`).

Recursion over data (a burst of lines, the bytes of a list of frames, a filter) is written with recursive
functions; the proofs show that there is one such function and reason about its values by the least number
at which a claim fails (`LeastElement` of `FrameCodecProofs`, `EventProofs` and `FrontendStoreProofs`), which needs no
theorem with an operator as parameter.

Only model-checked is all liveness, since TLAPS has no rules here for fairness and `ENABLED`: `StoppedTaskEnds`, `SilenceEndsSession`,
`LifeRefined` with its fairness, `BytesFlow`, `ErrorEndsBoth`, `FramesArrive`, `EndsUnlessKeptAlive`. Every invariant and every
action property of a passing run has its theorem.

## Where code and documents disagree

Two have runs:

1. `supervisor_visitors`: an aborted forwarder leaves its two pump tasks running, detached,
   with the visitor's sockets (`fwd:113`); `README.md:113-115` says that every
   teardown closes everything.
2. `manager_deleted`: `delete_profile` asks `is_running` (`commands.rs:80`), which is false during the
   first dial; the tunnel connects after its profile is gone.

The following have a formula in their module that no configuration checks; added to the
configuration of the passing run, it shows the behaviour.

3. `Supervisor!AddressOnlyWhenConnected`: `stop` keeps `remote_addr` and `assigned_port` (`sup:362-365`);
   `docs/EVENTS.md:43` says `null` while not connected.
4. `Supervisor!StoppedIsFinal`: an aborted task that is between two awaits can report `connected` after
   `stop` has returned (`sup:357-361`); `docs/EVENTS.md:58` and `man:127` call the `stopped` status final.
5. `EventPump!LogEmittedOnce`: a status change without a new line resets `last_log` to `None`
   (`man:247`) and the next wake emits the whole ring again; `tunnel/events.rs:23` says each
   line is emitted exactly once. The store recovers (`ViewMatchesRing`).
6. `TunnelManager!ShownIsCurrent`: `stop` emits its last status without the map lock (`man:145`), after a restart
   of the same profile may have shown the fresh tunnel; `docs/EVENTS.md:55-57` says the frontend is
   never stuck on a stale state.
7. `FrontendStore!BackfillKept`: a line that is on its way when the page hydrates arrives behind the
   backfill that already holds it and later ones; `applyLogEvent` takes the smaller index for a new run and drops the
   backfill (`reducers.ts:116-119`), although `events.ts:56-57` hydrates after subscribing "so nothing emitted in between is lost".
8. `Handshake!ClaimCarriesVisitorOnly`: a challenge that comes after its window is handed to the local service as the
   visitor's bytes; `cli:294-295` speaks of bytes the server pushed before the switch to raw mode as payload.

Seen while modelling, without a formula:

- `cli:3-7` says the extended Hello follows a dropped connection or an undecodable reply; a connection that ends in the challenge window, before any Hello, is retried with `HelloEx` too.
- `docs/EVENTS.md:46-47` calls `bytesUp` the bytes from the local service to visitors; `fwd:109` counts the other direction as `up`.
- `README.md:90-91` says a start checks that the local service is reachable; the code dials it only for each visitor.
- `next_frame` reports a "clean end of stream" also for a stream that ends within a frame, and accepts a frame above the limit whose delimiter is already buffered.
- Names: an import does not look whether its name is taken (`commands.rs:109`), the reason for the exception in `SavedNamesUnique`.
- Overlapping profile commands lose updates or tear the file, which every later command then refuses to read.
- Log lines of a fresh run are dropped as duplicates where the old run's buffer ends at the same index; an old pump's last lines may arrive after a restart.
- `reducers.ts:168-170` calls an event's status strictly fresher than the snapshot; an event emitted before the snapshot was taken can arrive first, and is corrected by the next event.
- Tray: overlapping refreshes install in any order; a flip that is not emitted before it flips back leaves what a refresh read of it in the menu; the signature has no ids, so two profiles that swap names keep their old items; a failed `set_menu` counts as set (`tray.rs:305`), and a refresh that finds the same signature leaves the older menu on screen.
- Forwarder: to a peer, dropped sockets look like a clean end; a half-closed connection may stay for ever, there is no idle timeout.

## Simplifications

- `Supervisor`: an await may be ready at once and let an aborted task run on to the next; here an aborted
  task ends at its next await. A server's `Error` message in a session is only logged and is left out.
  The backoff's length is left out: a sleep ends some time.
- `Forwarder`: the bytes left over in the frame decoder, which are written to the local service first, are left
  out; an aborted pump ends at its next await; a connection that fails before it is piped just drops its sockets.
- `Handshake`: ports, ids and nonces are left out; an answer is right or wrong. A connection keeps the order of its frames
  and is whole or lost.
- `FrameCodec`: JSON is not spelled out; a payload is a sequence of bytes that are not the delimiter.
- `EventPump`: one run; statuses carry only the state and a revision; the stats tick, which changes
  nothing the pump decides on, is left out; an event reaches the frontend at once and in order.
- `TunnelManager`: a task that is aborted is over at once (`Supervisor` has the late report of
  such a task, item 4 above); the pump is `PumpShows`; secrets and the config file's content are reduced to
  which profiles are saved; a command's wait for the first connect changes nothing and is left out.
- `ConfigStore`: a profile is its id and name, its other fields change with it; names are told apart as the code does, without their
  case; the profile editor's two commands, one after the other, are one request; of the manager only which
  tunnels run.
- `FrontendStore`: one profile, never deleted; stats and samples are left out.
- `Tray`: the order of the items, the icon and the window are left out; the tray is there, and setting its tooltip does not fail. Which task of a
  tunnel may still report is not kept (`TunnelManager` has that): a started tunnel reports any bit at any time, and a late
  emission has the bit that is not the live one, whether or not the tunnel ever had it. An edit happens between two steps of a refresh, never within its read of the config.

## What is not modelled

Server discovery probes well-known ports of this machine and lists those that answer; the update check is one
request and a comparison; views and frontend helpers draw and format. None keeps state of its own
that another part reads. Queries of the manager and the reading commands change nothing. The
rate computation of the stats samples and the backoff's delay are arithmetic without concurrency.

## Plan

Done, in this order: what the program can least afford came first (a tunnel that is not torn down, not stopped or not shown:
`Supervisor`, `EventPump`, `TunnelManager`), then the network side (`Handshake`, `FrameCodec`, `Forwarder`), then what persists and
what shows it (`ConfigStore`, `FrontendStore`, `Tray`).

Left:

1. The backoff's delay as a function with its bounds, and the stats samples of the store.
2. Two profiles in `FrontendStore`, with the deletion of one.

## Running it

    tlc -config MCSupervisor_safety.cfg MCSupervisor
    tlapm TunnelManagerProofs.tla

and likewise for the other configurations and proofs. The longest runs take a few minutes on two workers,
the longest proof a few minutes.
