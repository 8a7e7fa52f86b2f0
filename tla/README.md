# TLA+ models of CVDS2020

This directory holds TLA+ specifications of the concurrent parts of the
CVDS2020 repository (`src/`). Each has TLC configurations that model-check it
on small instances, and most have TLAPS proofs of their main invariants.
`PROJECT.json` lists the components, the runs, the mutants, the mapping from
every definition to the source lines it translates, the findings and the
hazards.

## The system

The repository has two programs and a shared library.

- **common/lifecycle**: a start/run/close state machine that both programs use.
  - The state is a bit set (`state.go`): Closed, Running, Closing, Restarting.
  - A mutex guards every method.
  - Waiters register one-slot "future" channels: running futures are fired by
    `doStart`, closed futures by the run goroutine's exit (`run`).
  - `Start` runs `DoStart` under the mutex, then starts `go l.run()`. That
    goroutine executes `DoRun` and then moves to Closed.
  - `Close`/`CloseWait` call `DoClose` once (later closes join the one in
    progress) and wait for the closed future.
  - `Restart` closes, waits with the mutex released, and starts again.
- **cvds-msu** (media storage unit): records RTSP streams to disk.
  - A *recording channel* (`storage/channel.go`) is a lifecycle whose runner is
    the channel itself:
    - `doStart` ensures the directories and moves old segments.
    - `doRun` starts three goroutines. The ffmpeg *supervisor* starts ffmpeg
      and restarts it when it exits. On close it interrupts ffmpeg and, after a
      timeout, kills it. The *mover* moves finished segments from `.tmp` to
      per-day directories. The *deleter* removes expired files.
    - `doRun` then waits for `closeSignal`, stops the three goroutines, and
      records a pending destroy.
    - `doClose` sends on `closeSignal`.
    - `Destroy` sets `destroyRequest` and calls `CloseWait`.
    - `startChecker` refuses to start a destroyed channel.
  - The *registry* (`service/channel.go`) maps UUIDs and names to channels,
    behind a mutex.
  - The HTTP handlers (`controller/channel.go`) create and start a channel, or
    remove and destroy one. The server's shutdown hook removes and destroys
    them all.
- **cvds-mdu** (media distribution unit): an RTSP server that pulls streams
  and fans RTP packets out to players.
  - `routers/streams.go`: `StreamStart` checks that no pusher holds the path
    (`GetPusher`), starts an RTSP client, then calls `AddPusher` and answers
    200. `StreamStop` finds the pusher by ID in a snapshot of the map and
    stops it.
  - `rtsp/rtsp-server.go`: the `pushers` map from path to pusher, behind a
    RWMutex. `AddPusher` refuses a taken path. `RemovePusher` deletes the
    entry only if it holds this pusher. `Stop` (called by `/restart` in
    `main.go`) empties the map.
  - `rtsp/client.go`: `Start` runs the handshake (`requestStream`: dial,
    OPTIONS, DESCRIBE, a SETUP per medium, PLAY) and then `go
    startStream()`, the read loop, which calls `Stop` when it returns.
    `Stop` tests and sets `Stopped`, runs the stop handlers (the pusher's
    removes it from the map), closes `Conn` and stops the `UDPServer`.
  - `rtsp/udp-server.go`: in UDP mode each SETUP opens sockets and starts a
    reader goroutine per socket that loops `for !s.Stoped`.
  - `rtsp/player.go`: a player's queue is bounded (`queue-limit`, dropping
    the oldest) and guarded by a condition variable. `QueueRTP` appends and
    signals, the drain loop (`Start`) waits and sends, `Pause` may flush, and
    the session's stop handler broadcasts.
  - `Pusher` and `Session` are not under `src/`; where they matter the models
    follow the spec (sections 2, 4.4-4.6).

## Modules

| Module | Models | State | Actions |
|---|---|---|---|
| `Lifecycle` | `common/lifecycle` | `state` (a set of flags), `nRun` (run goroutines), `runningFutures`, `closedFutures`, `fut` (each caller's buffered future value), `pc`, `ret` | `Start` (`StartWith` the start checker's verdict), `Close` (CloseWait, with `DoClose`), `AddRunningFuture`, `AddClosedFutureIfRunning`, `FutureReturn`, `RunExit`, `RestartBegin` and `RestartResume` (Restart, split where it unlocks) |
| `RecordingChannel` | `storage/channel.go` composed with `Lifecycle` (it EXTENDS it) | the lifecycle plus `destroyRequest`, `destroyed`, `closeSignal`, the mover and deleter (`task`, `stopChan`), the supervisor (`sup`, `started`, `closing`, `timer`, `ffmpegSignal`, `killTimer`, `killChan`) and the ffmpeg process (`proc`) | `ChannelStart` (`StartWith` + spawn doRun), `ChannelDestroy` (`Close` + `doClose`), `CloseReceived`, `TaskStop`, `SupTimer`, `SupExit`, `SupSignal`, `SupKill`, `KillTimerFire`, `ProcExit`, `ChannelRunExit` (doRun's end + `RunExit`) |
| `Archive` | what the mover and deleter of `storage/channel.go` do to files | `now`, `tmp`, `data`, `dirs`, `writing` | `moveTmpToData`, `checkAndDelete`; the environment: `Tick`, `SegmentStart`, `SegmenterExit` |
| `ChannelRegistry` | `service/channel.go`, `controller/channel.go`, the shutdown hook of `controller/server.go` | the two maps, each channel abstracted to `lc` / `destroyRequest` / `destroyed`, each request's `pc`/`cur`, the shutdown hook's `sdPc`/`pending`/`sdCur`, the UUIDs already `published` to clients | `CreateChannel`, `StartStep`, `StartFailRemove`, `StopChannel`, `DestroyReturn`, `ChannelClosed`, `RemoveAll`, `RemoveAllDestroy`, `RemoveAllDestroyReturn` |
| `Player` | `rtsp/player.go` (one player, its pusher and session) | `produced`, `inFlight` (a QueueRTP call past its unlocked `paused` test), `queue`, `paused`, `attached`, `session` (open, stopping, closed), the drain loop's `dpc` and `hand`; history: `sent`, `overflowDropped`, `pauseDropped` | `QueueRTP` (unlocked test), `QueueRTPLocked` (append, drop oldest, Signal), `DrainLoop` (`for !Stopped`), `DrainLock` (empty: Wait, else take), `DrainWoken`, `DrainSend`, `Pause(p)`, `SessionStop` and `StopHandler` (RemovePlayer + Broadcast) |
| `PusherRegistry` | `routers/streams.go`, the pushers map of `rtsp/rtsp-server.go`, `Start`/`startStream`/`Stop` of `rtsp/client.go`, `UDPServer` of `rtsp/udp-server.go`, `/restart` | `pushers`, each request's `rpc` and `rpath`, each client's `reading`, `stopped`, `conn`, `udpSrv`, `udpStoped`, `udpReading`, each Stop call's `stopPc` (per client, for the two callers `api` and `reader`), `panicked`, `restarts` | `StreamStartCheck`, `ClientStart` (transport, outcome, UDP sockets opened), `AddPusher`, `StreamStop`, `ReadError`, `StopCheck`, `StopRun`, `StopConnCheck`, `StopClose`, `StopUdpCheck`, `StopUdp`, `UdpReaderExit`, `ServerRestart` |
| `LifecycleProofs` | proofs about `Lifecycle` | | |
| `PusherRegistryProofs` | proofs about `PusherRegistry` | | |
| `PlayerProofs` | proofs about `Player` | | |
| `ArchiveProofs` | proofs about `Archive` | | |
| `ChannelRegistryProofs` | proofs about `ChannelRegistry` | | |
| `RecordingChannelProofs` | proofs about `RecordingChannel` (reuses `LifecycleProofs`' lemmas) | | |
| `PlayerDelivery` | what a player promises (spec sections 3, 7, 8), with no queue, lock or goroutine | `produced`, `delivered`, `dropped` | `Produce` (possibly dropped at once), `Deliver(p)` (a pending packet younger than all delivered), `Drop(S)` (pending packets) |
| `PlayerRefinement` | the proof that `Player` implements `PlayerDelivery` | | |

`MC_*` modules give the constants values for TLC.

### How the models follow the code

- **Critical sections are atomic steps.** Each critical section under a mutex
  is one atomic step: a lifecycle method, a registry method, one pass of the
  mover or the deleter, or one case of the supervisor's `select`.
  - `Restart` is two steps because it releases the mutex while it waits.
  - Buffered Go channels of capacity one are Booleans ("holds a value").
- **Futures.** The caller's future channel is modelled by membership in
  `runningFutures` / `closedFutures` plus the value `fut[c]` sitting in it. A
  blocked caller is in a `pc` state until `FutureReturn`.
- **The lifecycle's runner is abstract.** `DoStart`, `DoRun`, `DoClose` and the
  start checker each return any member of a constant result set.
  `RecordingChannel` replaces them with the channel's own runner:
  - the start checker is `destroyed`;
  - `DoClose` is `doClose` (always nil, sends on `closeSignal`);
  - `DoRun` is the goroutine model.
  - Lifecycle's `StartWith` and `Close` are reused as they are, conjoined with
    the channel's effects.
- **Channels in the registry.** In `ChannelRegistry` a channel is the abstraction
  of `RecordingChannel` that a registry user observes:
  - Start succeeds only on a closed, undestroyed channel, and may still fail in
    `doStart`.
  - Destroy closes a running channel and waits.
  - Destroy of a closed channel returns at once, without marking it destroyed.
- **Unsynchronized reads are steps of their own.** `player.paused`,
  `player.Stopped`, `client.Stopped`, `client.Conn` and `client.UDPServer` are
  read and written without a lock. Each read is its own step, so every
  interleaving with the writer is explored. Where the code reads a field twice
  (`if client.Conn != nil { client.Conn.Close() }`), that is two steps. A nil
  dereference is recorded in `panicked`.
- **The condition variable.** The drain loop's `cond.Wait` is the place
  `wait`. `Signal`/`Broadcast` moves a waiting drain loop to `woken`; with
  nobody waiting it does nothing, as in Go.
- **requestStream is one step.** No other goroutine can see a client before
  `AddPusher`, so the handshake is atomic. It ends in one of three ways: the
  dial fails (nothing opened), a later request fails (`Conn` open, and in UDP
  mode perhaps sockets and their readers), or it plays. A failed client is
  never stopped, as in the code.
- **Files.** In `Archive` a file is its timestamp in clock slots. Its day
  directory is `t \div SlotsPerDay`. It has expired when
  `now - t > Cover`, as at line 273.
  - Mover errors (EnsureDir, Rename) skip any subset of the files.
  - ffmpeg's segment names come from the current clock.

## Runs

| Run | Module / cfg | Expect | Checks |
|---|---|---|---|
| `lifecycle` | `MC_Lifecycle` / `lifecycle.cfg` | pass | `TypeOK`, `RunGoroutineIffRunning` (one run goroutine exactly while Running), `WaitersAccounted` (each blocked caller's future is in the one list that will fire it, or already holds its value: never both, never neither), `CloseWaitCompletes` (every CloseWait returns) |
| `lifecycle_restart` | `MC_Lifecycle` / `lifecycle_restart.cfg` | pass | `WaitersAccounted` with a caller that may Restart |
| `channel` | `MC_RecordingChannel` / `channel.cfg` | pass | `ChTypeOK`; `CloseSignalNeverBlocks` (doClose's send under the mutex always finds the buffer empty); `NoOrphanFfmpeg` (no ffmpeg process outlives the Running state); `DestroyCompletes` (every Destroy returns, through interrupt, kill and exit) |
| `archive` | `MC_Archive` / `archive.cfg` | pass | `TypeOK`; `CurrentNeverMoved` (the segment ffmpeg writes stays in `.tmp`) |
| `retention_stall` | `MC_Archive` / `retention_stall.cfg` | violation | `ExpiredEventuallyDeleted` fails |
| `registry` | `MC_ChannelRegistry` / `registry.cfg` | pass | `TypeOK`; `RegisteredNotDestroyed` (a registered channel is never being destroyed, and no two requests destroy the same channel); `DestroysComplete` (every Destroy a handler or StopAll starts returns, and StopAll finishes) |
| `registry_shutdown` | `MC_ChannelRegistry` / `registry_shutdown.cfg` | violation | `ShutdownStopsAll` fails |
| `player` | `MC_Player` / `player.cfg` | pass | `TypeOK`; `QueueBound` (the queue never exceeds the limit); `DropsOldest` (every packet the limit dropped is older than every queued one); `DeliveredInOrder` (packets reach SendRTP in production order, each once, across overflow, pause flushes and wake-ups); `QueuedEventuallyTaken` (no packet is stranded in a live player's queue); `DeliverySpec` (the player implements `PlayerDelivery` under the mapping `delivered <- sent`, `dropped <- overflowDropped \cup pauseDropped`) |
| `player_stop_hang` | `MC_Player` / `player_stop_hang.cfg` | violation | `DrainExitsAfterStop` fails |
| `pushers` | `MC_PusherRegistry` / `pushers.cfg` | pass | `StopReleases` (a stopped pull's connection is closed, its read loop and UDP readers end); `StreamStopFreesPath` (a StreamStop of a live pull stops it and frees its path) |
| `pusher_tracking` | `MC_PusherRegistry` / `pusher_tracking.cfg` | violation | `RegistryTracksPulls` fails |
| `stop_panic` | `MC_PusherRegistry` / `stop_panic.cfg` | violation | `StopNeverPanics` fails |

Every property of a passing run has a mutant in `PROJECT.json`. A mutant is a
plausible slip in the mapped code, and TLC finds the property violated under
it. Examples:
- the Closed bit OR-ed in instead of assigned;
- the Running check dropped from `startCheck`;
- the closed-future list not truncated;
- `return` instead of `continue` after the kill;
- `closing = true` forgotten;
- channels keyed by name;
- the registry delete forgotten;
- the queue-limit test off by one, or the newest packet dropped;
- the Signal in QueueRTP lost;
- the drain loop taking the head without popping it (`player.queue[1:]`
  forgotten), which sends a packet twice and breaks `DeliverySpec`;
- UDPServer.Stop not setting `Stoped`.

`PusherRegistry`'s `TypeOK` is not in a run: no plausible slip in the code
breaks it, and `PusherRegistryProofs` proves it for every instance.

### Findings

1. **Retention stops for good** (`storage/channel.go:241`). `checkAndDelete`
   scans only the smallest day directory and never removes a directory. After
   it has emptied that directory, nothing is ever deleted again
   (`retention_stall`: files of day 1 expire while the empty day 0 stays the
   minimum).
2. **Shutdown can leave a recording running**
   (`controller/server.go:137`, `storage/channel.go:512`). StopAll runs
   while requests are served, and it can take a channel that StartChannel has
   created but not yet started. Its Destroy finds the channel closed, returns
   the closed error and does not mark it destroyed, so StartChannel's Start then
   succeeds. StopAll returns, and ffmpeg keeps recording
   (`registry_shutdown`).
3. **A stopped player's drain goroutine can hang** (`rtsp/player.go:68`,
   `:32`). The drain loop tests `Stopped` without the lock, and the stop
   handler broadcasts without it. A stop between the test and `cond.Wait`
   wakes nobody. The player is detached, so no packet ever comes, and the
   goroutine waits forever (`player_stop_hang`).
4. **A concurrent StreamStart leaves an untracked pull**
   (`routers/streams.go:64`, `:74`). Two requests for one path both pass
   `GetPusher` and both start a client. The loser's `AddPusher` returns false,
   which is ignored, and it answers 200 with its ID. That pull runs on, holds
   its upstream, and `StreamStop` answers "not found" for it
   (`pusher_tracking`).
5. **Two Stops of one client panic** (`rtsp/client.go:518`, `:527`). `Stop`
   tests and sets `Stopped` without a lock. `StreamStop` and the read loop's
   deferred `Stop` can both pass the test. The second then closes the nil
   `Conn` the first stored (likewise `UDPServer`). The panic happens outside
   any HTTP handler, where `gin.Recovery` does not reach, and it ends the MDU
   process (`stop_panic`).

Other defects found while modelling are hazards in `PROJECT.json` with a note,
not runs:
- `Restart` never starts a run goroutine (`lifecycle.go:162`), so a later
  `CloseWait` hangs. The repository never calls `Restart`, so this is latent.
- `channelNames` is keyed by UUID (`service/channel.go:39`), so two channels
  may share a name and a directory. The spec leaves name uniqueness open.
- A failed `client.Start` leaks its connection, its UDP sockets and their
  readers (`streams.go:69`).
- `/restart` empties the pushers map without stopping the clients
  (`rtsp-server.go:118`).
- `Restart`'s Restarting bit is wiped by `ToClosed` (`state.go:45`).
- `NewStateClosedError` uses the closing TypeId (`error.go:35`).
- The teardown signals all three goroutines at once, where the spec orders
  them.
- The mover moves the file being written when the clock steps back.

### Bounds

- **Lifecycle**: two callers is the smallest number where one closes while
  another waits, starts or joins. With `Restarters = {c1}` a restart meets a
  concurrent start and close. Each runner result set is `{nil, err}`.
- **RecordingChannel**: two users, which covers Start racing Destroy and two
  Destroys joining. `doStart` may fail. The supervisor loop is unbounded, but
  its state is finite.
- **Archive**: six clock slots, two per day directory, and a cover of one slot.
  So three day directories exist, files expire while newer ones do not, and the
  mover and deleter interleave with segment creation in every order.
- **ChannelRegistry**: two requests and two UUIDs, which covers a StartChannel
  racing a StopChannel, StopAll or a second StartChannel. It uses two names.
- **Player**: four packets through a queue of two. The limit is exceeded
  twice, a pause can flush a non-empty queue, and a stop can come at every
  point of the drain loop. `DropWhenPaused` is TRUE, which makes the pause
  path drop packets as well.
- **PusherRegistry**: two requests over two paths. That covers two pulls on
  one path, as well as two on different paths. Both TCP and UDP are used, and
  there is one `/restart`. The violation runs use one path (and one request in
  `stop_panic`) and no restart. This gives a short trace.

Symmetry is not used: the liveness properties and the asymmetric Restarters
would make it unsound. Some configs say `CHECK_DEADLOCK FALSE`, and the cfg
says why:
- In the lifecycle, callers may all block in AddRunningFuture with nobody left
  to start.
- In the registry, the model's UUIDs run out and the shutdown hook has run.
- In the player, the pusher has produced its last packet and the drain loop
  waits, or the session is closed.
- In the pusher registry, every request has been answered and every pull
  stopped or failed.

### Fairness

- A goroutine that can proceed is eventually scheduled (weak fairness):
  - a caller whose future holds a value;
  - doRun receiving `closeSignal`;
  - a task receiving its stop value;
  - each `select` case of the supervisor;
  - a registry handler with work to do.
- A timer that is armed eventually fires: the kill `AfterFunc`, the mover's and
  the deleter's timers.
- A killed process exits (SIGKILL).
- In the player: the drain loop's steps, a QueueRTP call that has taken its
  packet (it only needs the lock), and the session's stop handlers once
  `Stop` has set `Stopped`. Producing packets, pausing and stopping are not
  required.
- In the pusher registry: a started StreamStart finishes, every step of a
  Stop call runs, and a read loop whose client is stopped (its connection
  closed) gets its read error. The same holds for UDP readers after
  `UDPServer.Stop`. Upstream failures, requests and `/restart` are not
  required.
- Nothing requires a user to call anything. Nothing requires a running or
  merely interrupted ffmpeg to exit.
- In `Lifecycle` the runner is abstract, so `DoRun` is assumed to return once
  `DoClose` has been called. That is the contract, and `RecordingChannel`
  shows that the channel's runner meets it under the fairness above
  (`DestroyCompletes`).

## Proofs

`LifecycleProofs` (TLAPS; checked by `tlapm LifecycleProofs.tla`) proves the
following for every set of callers and every set of runner results allowed by
`LifecycleAssumption`:

- `TypeCorrect`: `Spec => []TypeOK`. It rests on these lemmas:
  - `TransitionsLegal`: every state.go transition maps a legal flag set to a
    legal one. It is proved by cases over the six legal states.
  - `AfterDoStartLegal`.
  - `TypeStep`: one step per action.
- `RunnerMatchesState`: with `Restarters = {}` (as in the repository),
  `Spec => []RunGoroutineIffRunning`.
  - The invariant is not inductive alone. It is strengthened to `RunnerInv`,
    which adds `TypeOK` and "a caller in restartWait is a Restarter". With no
    Restarters, the Restart actions are disabled.
- `FuturesAccounted`: `Spec => []WaitersAccounted`, with or without Restart.
  - The inductive invariant is `TypeOK /\ WaitersAccounted`.
  - Its last conjunct ("registered closed futures exist only while Running")
    is what makes `RunExit`'s broadcast sound. `RunExit` is the only step that
    leaves Running, and it empties the closed list in the same step.

`PusherRegistryProofs` proves, for every set of requests and paths and
every `MaxRestarts` allowed by `RegistryAssumption`:

- `TypeCorrect`: `Spec => []TypeOK`. `TypeStep` has one step per action, and
  `StopClose` and `StopUdp` are split on the nil test.

`PlayerProofs` proves, for every `MaxPackets`, `QueueLimit` and
`DropWhenPaused` allowed by `PlayerAssumption`:

- `QueueBounded`: `Spec => []QueueBound`.
- `OverflowDropsOldest`: `Spec => []DropsOldest`.
- `SendsInOrder`: `Spec => []DeliveredInOrder`.

All three follow from `IInvHolds`: `Spec => []IInv`. `InitIInv` and
`IInvStep` are its base and step, and `IInvStep` has one step per action.
None of the three properties is inductive alone. The strengthening `IInv`
says that the packets form a line:

- `QueueSorted`: the queue is increasing.
- `SentBeforeQueue`: everything sent is older than everything queued.
- `HandBetween`: the drain loop's `hand` lies between what was sent and what
  is queued. `HandClear` says `hand` is nil outside "send".
- `InFlightNewest`: the packet of a QueueRTP call between its two steps is
  the newest one produced. It is newer than every packet already sent,
  queued, held or dropped (`Old`).
- `OldProduced`: no packet in `Old` is newer than `produced`.

The crucial step is `QueueRTPLocked`. The appended packet is newer than
everything in `Old`, so the queue stays sorted. The overflow drops
`Head(q)`, which is older than the rest of the queue. The lemmas `ElemsTail`
and `ElemsAppend` give what `Tail` and `Append` do to `Elems`.

`PlayerProofs` also proves `TypeCorrect` (`Spec => []TypeOK`) from `IInv`.

`PlayerRefinement` proves `DeliveryRefined`: `Spec => DeliverySpec`, i.e.
the player implements `PlayerDelivery` (the `Delivery` instance in
`Player.tla`) for every instance. The argument:

- `RInv` strengthens `IInv` with `LiveNotDropped` (no packet the player still
  holds, in the queue, in `hand` or in flight, has been dropped) and
  `PauseDroppedProduced`. `RInvHolds` proves `Spec => []RInv`. `IInvStep`
  gives the `IInv` part; each action is then checked for the two new
  conjuncts. The hard cases are `QueueRTPLocked`, whose overflow drops a
  packet that is neither `hand` nor still queued, and Pause's flush, which
  drops only queued packets (lemma `Apart`: hand, in-flight packet and queue
  are pairwise apart).
- `LivePending`: every packet the player holds is pending in the abstract
  player: produced, not sent, not dropped.
- `StepRefined`: `QueueRTP` is `Produce`; `DrainSend` either is
  `Deliver(hand)` (in order by `HandBetween`) or drops `hand`;
  `QueueRTPLocked` and a flushing `Pause` are `Drop` of held packets
  (`DropLive`); every other step leaves the abstract variables unchanged.
  `InitRefined` maps the initial state.

`ArchiveProofs` proves, for every `MaxTime`, `SlotsPerDay` and cover allowed by
`ArchiveAssumption`:

- `TypeCorrect`: `Spec => []TypeOK`.
- `WritingStaysInTmp`: `Spec => []CurrentNeverMoved`. The inductive invariant
  `IInv` adds `TimesBelowNow` and `WritingNewest`: the segment being written
  is in `.tmp` and is the newest file there. The mover takes only files
  strictly older than the newest (`Latest`). The lemma `MaxOfBounded` shows
  that FiniteSetsExt's `Max` of a non-empty bounded set of naturals is its
  largest element; it is proved with `WFMin` and `NatLessThanWellFounded`
  of WellFoundedInduction.

`ChannelRegistryProofs` proves, for all ids, names and requests allowed by
`RegistryAssumption` (`None` is not an id; some name exists):

- `TypeCorrect`: `Spec => []TypeOK`.
- `NeverHandsOutDestroyed`: `Spec => []RegisteredNotDestroyed`.
  - The inductive invariant adds four facts. `FreshClean`: an unused id has no
    destroy request. `CurUsed`: a busy request's channel id was used.
    `WaitOffMap`: a request waiting on Destroy holds a channel already removed
    from the maps. `PendingOffMap`: the shutdown hook's pending channels are
    off the maps.
  - `RemoveChannelStep` is the shared step of `StopChannel` and
    `StartFailRemove`.

`RecordingChannelProofs` proves, for every set of callers and runner results:

- `ChTypeCorrect`: `ChSpec => []ChTypeOK`.
- `CloseSignalFree`: `ChSpec => []CloseSignalNeverBlocks`.
- `NoOrphanProcess`: `ChSpec => []NoOrphanFfmpeg`.

All three come from `ChIInv`, the lifecycle's `TypeOK` and
`RunGoroutineIffRunning` plus doRun's facts:

- `DrainingClosing`: a doRun that has taken the close signal belongs to a
  Closing run.
- `SupHoldsProc` and `StartedHoldsProc`: no process without the supervisor,
  or before it started one.
- `IdleRun`: no supervisor and no drain without a run goroutine.

`ChannelStart` is split on whether `StartWith` spawned doRun (lemma
`StartWithStep`). `ChannelDestroy` is split on whether its `Close` added
Closing; it does so only from Running, when no signal is pending. The
goroutine steps keep the lifecycle variables (`StepKept`). `Restarters` is
empty in the channel's cfg, as in the repository; the proof does not need
it, since `ChannelStart` and `ChannelDestroy` are the only caller actions.

**Only model-checked**:
- Liveness: `CloseWaitCompletes`, `DestroyCompletes`, `DestroysComplete`,
  `ExpiredEventuallyDeleted`, `QueuedEventuallyTaken`, `StopReleases` and
  `StreamStopFreesPath`. TLAPS does not reason about fairness or ENABLED.
- The violation runs, which TLC settles with a counterexample.

Every safety invariant and action property of a passing run is proved.

## Not modelled

- The MDU's sessions (`Session`, not under `src/`): `Server.Start`'s accept
  loop, `TryAttachToPusher` and `udp-client.go`, which sends to players over
  UDP from a session. The player's session and the pusher's client side are
  the only parts of them in the models, taken from the spec.
- The RTSP message exchange: `RequestWithPath`, `checkAuth` and `DigestAuth`
  (text formatting, parsing and MD5), and RTP demultiplexing in
  `startStream`. Only their outcome (success or failure) is in
  `ClientStart` and `ReadError`.
- Process wiring and `/sys/restart` (`main.go`, `controller/sys.go`,
  `routers/sys.go`).
- Configuration loading (`common/config`, `*/config`), logging, pools,
  defaults and assertions. This is reflection-driven data transformation and
  I/O, with no concurrency.
- File-name formatting and parsing are abstracted to timestamps. As a result
  the slicing hazards at `storage/channel.go:118` and `:266` are listed in
  `PROJECT.json` but not checked.
- `EnsureDir`'s permission bits.

## Plan

1. Done: `RecordingChannel`, `Archive`, `ChannelRegistry`, and
   `Lifecycle`, `Player` and `PusherRegistry` with their proofs.
2. Done: proofs of every safety invariant of `RecordingChannel`, `Archive`
   and `ChannelRegistry`, and the refinement of `PlayerDelivery` by `Player`.
3. The RTSP handshake (`requestStream`, `checkAuth`) as its own model: the
   single Digest retry and the Session header carried from SETUP to PLAY.
4. A refinement: `ChannelRegistry`'s abstract channel as the specification
   that `RecordingChannel` implements (INSTANCE ... WITH).
