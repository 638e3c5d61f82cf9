# TLA+ models of remote-ac-controller

Models, model-checking runs and machine-checked proofs for the control path of
this repository: a web backend that publishes infrared commands over MQTT to an
ESP8266, which emits them at an air conditioner that never answers. Nothing in
the system can observe the appliance, so what the software promises about
commands (once, in time, truthfully reported) is all the safety there is.
Beside it stand the Python programs of the infrared bench, which learn the
frames the device later sends, and the tools that build releases: their models
are about what ends up on disk and in the firmware.

Sources are named relative to the repository root (`src/`). `backend/` below
stands for `src/cloud/backend/src/` and `core/` for
`src/firmware/shared/RemoteACCore/src/`, `tools/` for
`src/firmware/agent-platformio/tools/`. `PROJECT.json` maps every definition
to the lines it models.

To run a check: `tlc -config MCBackend.cfg MCBackend.tla`; to check
the proofs of a module: `tlapm CommandPipelineProofs.tla`, likewise for
`SchedulesProofs`, `BackendProofs`, `TemperatureRuleProofs`, `CampusProofs`,
`LibraryProofs`, `StoresProofs` and `BenchProofs`.

## 1. The system

```
 browser --REST--> backend (Fastify, one Node process, node:sqlite)
                     |  automation worker: two scanners, every 10 s
                     |  mqtt_bridge: publish commands, receive acks, telemetry, state
                     v
                  MQTT broker (external)
                     ^
                     |  clean session, QoS 1 subscription, QoS 0 publishes
                  ESP8266: connectivity SM -> MQTT client -> CommandService -> IrModule
                                                                  | UART
                                                             IR module -> AC
```

| Component | State it keeps | Operations | Talks to |
|---|---|---|---|
| MQTT bridge, `backend/mqtt_bridge.ts` | `client`, `connected`; the unacknowledged QoS 1 publishes inside mqtt.js | `dispatchCommand`, `dispatchIrAction`, `publishIrAction`, `handleMessage`, reconnect | broker, command table, bus |
| Command table, `backend/db.ts` | `commands`, `ac_schedules`, `ac_temperature_rules`, `device_state`, `telemetry` | `tryInsert*`, `markCommandPublished`, `updateCommandAck`, `expireStaleIrDebugCommands`, schedule and rule statements | everything in the backend |
| Automation worker, `backend/automation.ts` | `pendingAction`, `pendingCount`, timer | `scanSchedules`, `scanTemperatureRule` | command table, bridge |
| AC routes, `backend/routes/ac.ts` | none of its own | commands, schedules, rule, states | bridge, database |
| Device liveness, `backend/device_liveness.ts` | reads `device_state` | `evaluateDeviceLiveness` | dispatch gate, dashboard |
| IR debug window, `backend/ir_debug.ts`, `routes/ir_debug.ts` | rows of `commands`, environment | status, create, window limits | bridge, database |
| Sessions, `backend/auth.ts`, `guards.ts` | session rows or a memory map, password hash and its source | login, validate, revoke | every route |
| Command service, `core/cloud/command_service.cpp` | `_recentIds`, `_recentIdx`, counters | `handleMessage`, `validateCommand`, `dispatchIrAction`, `sendAck` | MQTT client, IR module |
| IR module, `core/ir_module.cpp` | `m_execCache`, receive buffer, send lock | `sendExternalFrameOnce`, frame scanner, learning | UART |
| Device MQTT client, `core/cloud/mqtt_client.cpp` | session, clock state, counters | `connect`, `syncTime`, `loop` | broker |
| Connectivity state machine, `core/cloud/connectivity_state_machine.cpp` | state, backoff, failure counters | one tick per loop | Wi-Fi, campus login, MQTT client |
| Wi-Fi manager and campus login, `core/network/` | association state, authentication epoch, quota, lockout | association, portal check, login, retry policy | portal (external) |
| Telemetry, `core/cloud/telemetry_service.cpp`, `core/sensors/` | last sample, timers | sample, publish | MQTT client |
| Broker | queues, retained messages (external) | route, acknowledge, last will | both MQTT clients |

The frames come from a bench: a PC program drives the learning mode of the
module over the serial console of the ESP8266, keeps what a remote control sent,
and a person approves one capture per air-conditioner state for the firmware.
The tools share files and the serial port, nothing else.

| Tool | State it keeps | Operations |
|---|---|---|
| Learning Studio, `tools/ir_learning_studio/` | SQLite library, named mutex, the worker thread with its two queues | connect, capture, approve, fork, migrate, export, write the firmware include |
| its older file store, `library_store.py` (and `legacy_library_migration.py`, the same file) | a directory per state | draft, capture, approve, fork, import of capture 002 |
| Simple Learner, `tools/ir_simple_learner/` (copied to `src/tools/ir-simple-learner/`) | the flow of one capture, a directory per state | connect, start a slot, cancel, compare, approve |
| generators, `tools/gen_ir_state_registry.py`, `gen_ir_code.py` | none | state files to C tables |
| Capture Studio, `tools/ir_capture_studio/` | session directories, counters | build a task, capture, cancel |
| capture console, `tools/ir_capture_console.py` | numbered files | repeated capture in a terminal |
| authorised replay, `tools/ir_replay_once.py` | progress of one replay; the device's staging buffer | load in chunks, read back, send once |
| `download_verify.py` | the partly downloaded archive | resume, verify |
| PCB release, `src/tools/package-pcb-release.py` and its contract and check | the package being built | read a git ref entry by entry, verify, sabotage tests |
| Srun library, `src/tools/prepare_srun_arduino_library.py` | the output directory and its manifest | audit, copy, manifest, verify |

What makes it hard:

- **Two lossy links with different rules.** mqtt.js resends every QoS 1
  publish it has no PUBACK for after a reconnect, which may be long after the
  device acted; the device has a clean session, so the broker keeps nothing
  for it; acks are QoS 0 and may vanish. No component can tell a lost command
  from a lost ack.
- **Deduplication in RAM.** A ring of 32 ids and a small cache with a 30 s
  life stand between a redelivery and a second emission. Both are bounded and
  both disappear on a reboot. So does the clock that expiry needs.
- **Three writers of one column.** `commands.status` is written by the PUBACK
  callback, by acks and by an expiry sweep which a status poll triggers.
- **Crashes between two writes.** Schedules are marked before they are
  dispatched, the temperature rule records after it has dispatched, and votes
  live in memory.
- **Three processes and a file.** The tools keep their truth in files which
  are replaced one by one, by programs that may be killed between any two of
  them and may run beside each other.
- **A text line to a slow device.** Answers come late, in the middle of log
  lines or damaged; the device stays in learning mode until it is told to
  leave it, and the tool that told it may be gone.
- **Time.** Whole seconds on the device against milliseconds in the backend,
  a 10 s scan against a minute anchor, server clocks that step back, and
  `millis()` that wraps.

What would make each part correct:

| Component | Properties |
|---|---|
| Command path | one emission per command and per idempotency key; never late; the row tells the truth; a device verdict is final; an accepted publish settles |
| Schedules | at most once per minute; no retry storm; none missed by a completed scan; a one-shot runs once; keys never inherited |
| Temperature rule | no reversal within the interval; one command per minute; two agreeing evaluations; one outlier never acts; refusals are retried |
| Liveness | an offline device is never commanded on the strength of a retained message; a live one does not stay shut out |
| Connectivity, campus login | backoffs end; a rejected password is not replayed; every recoverable failure is retried; the two machines settle online |
| IR debug | cooldown, in-flight limit and window limit hold for every command created |
| Sessions | a password change ends every session; concurrent first logins agree |
| Learning tools | a saved frame is what the remote control sent in that session; the device is told to leave learning mode; a disconnect ends; no capture is busy for ever |
| Libraries | one owner; an approved state never changes; a canonical frame is one of its state's captures; nothing is half migrated |
| Generators | what the firmware is compiled with was captured for what it stands for |
| Replay | only the candidate, once, and only when authorised |
| Downloads, packages | what is accepted is what it claims to be, whatever is interrupted |

## 2. What is modelled

| Module | Models | Used by |
|---|---|---|
| `CommandPipeline` | bridge, command table, broker, device client, command service, execution cache | `MCCommandPipeline`, `CommandPipelineProofs` |
| `ActuationContract` | abstract promise: one key, one command; one command, one emission per boot | refined by `CommandPipeline` |
| `Automation` | the outcomes of `dispatchForAutomation` | the next two |
| `TemperatureRule` | `scanTemperatureRule`, its settings route, telemetry and manual commands as inputs | `MCTemperatureRule` |
| `Schedules` | `scanSchedules`, the schedule routes, the server's clock | `MCSchedules` |
| `MCBackend` | one run of `CommandPipeline` and `Schedules`, which share no state | `BackendProofs` |
| `BackendProofs` | theorems about the run that combines the two | |
| `CampusWifi` | the Wi-Fi manager, the epoch and the policy of its campus login, the console's Wi-Fi commands | `CloudLink` |
| `CloudLink` | the connectivity state machine on top of it, and the callbacks between the two | `MCCampus`, `CampusProofs` |
| `CommandPipelineProofs` | theorems about `CommandPipeline` | |
| `SchedulesProofs`, `TemperatureRuleProofs` | theorems about the two scanners | |
| `StudioRuntime` | processes of the Learning Studio and the named mutex | `IrLibrary` |
| `IrLibrary` | the SQLite library: transactions, migration, export, firmware include | `MCIrStores`, `LibraryProofs` |
| `LegacyStore` | the file store and its plans of single writes | `MCIrStores`, `LibraryProofs` |
| `LearnedStates` | Simple Learner's files per state and the two generators | `MCIrStores`, `LibraryProofs` |
| `CaptureStudio` | window, capture thread and session directories | `MCIrStores`, `StoresProofs` |
| `CaptureConsole` | the capture loop in a terminal | `MCIrStores`, `StoresProofs` |
| `DependencyDownload` | resumed downloads | `MCIrStores`, `StoresProofs` |
| `FrameFormat` | the 22H frame and its five validators | `MCIrStores`, `StoresProofs` |
| `PcbRelease` | packager and checker of the manufacturing files | `MCIrStores`, `StoresProofs` |
| `SrunLibrary` | the library made for the Arduino build | `MCIrStores`, `StoresProofs` |
| `LearnDevice` | the device's learning mode behind its serial line | the next two |
| `LearningStudio` | window, worker thread and learning conversation | `MCIrBench` |
| `SimpleLearner` | capture flow, its timers and the capture files | `MCIrBench` |
| `ReplayOnce` | the authorised replay with the device's staging buffer | `MCIrBench` |
| `ExportAssembly` | an exported frame in chunks and the two assemblers | `MCIrBench` |
| `MCIrStores`, `MCIrBench` | one run of the programs that keep files, one of those at the serial port | `StoresProofs`, `BenchProofs` |
| `LibraryProofs` | theorems about the database, the file store and the learned states | `StoresProofs` |
| `StoresProofs` | theorems about the other programs that keep files, and about `MCIrStores` | |
| `BenchProofs` | theorems about the device with each program at the port, and about `MCIrBench` | |

Beside the definitions of a mapped operation some modules keep a changed form of
it, a plausible bug (a dropped guard, a missing reset, another order), commented
as what it does wrong. A property is worth its place only if one of them breaks
it. No specification uses them.

### 2.1 CommandPipeline

State and code:

| Variable | Code |
|---|---|
| `row` | table `commands`: idempotency key, payload, `expires_at`, status; `acked` says whether an ack was ever written |
| `connected`, `outgoing` | `connected` of the bridge; mqtt.js' store of unacknowledged QoS 1 publishes |
| `toBroker`, `fromBroker`, `toDevice`, `fromDevice` | the bytes in flight on the two TCP connections |
| `devUp`, `synced` | MQTT session of the device; `time(nullptr)` has been set |
| `recent` | `_recentIds`, as the age of each id in the ring; `RingSize` means evicted or never there |
| `cacheAge`, `cacheAt` | `m_execCache` likewise, with the time of the execution |
| `shots`, `total`, `handled`, `mark` | history: emissions since boot and ever, ids recorded since boot, `handled` at the last emission |

Actions and code. One action is one handler with everything it does.

| Action | Code |
|---|---|
| `DispatchIr` | `dispatchIrAction`: clamp the life, insert, publish QoS 1 if connected |
| `DispatchPlain` | `dispatchCommand`: the same with QoS 0, where the callback runs at once |
| `ReceivePuback` | the publish callback: `markCommandPublished`, which looks at no old status |
| `ReceiveAck` | `handleMessage`, ack branch: `updateCommandAck`, last ack wins |
| `ExpireStale` | `expireStaleIrDebugCommands`, called by every poll of the debug status |
| `BackendDrop`, `BackendReconnect`, `BackendRestart` | `close`/`offline`, `connect` with the resend, process death |
| `BrokerRoute`, `BrokerForwardAck` | external broker |
| `DeviceConnect`, `ClockSync`, `DeviceDrop`, `DeviceReboot` | `MqttClientWrapper`, SNTP, power loss |
| `HandleCommand` | `handleMessage` to `sendAck` on the device: validate, refuse or emit, record, acknowledge, in one MQTT callback |

`HandleCommand` keeps the code's order of checks (expiry, ring, payload, policy,
code table, execution cache, UART) because the order is what decides which
verdict a redelivery gets and whether its id enters the ring: `expired`,
`duplicate` and `rejected` do not.

A request whose idempotency key exists is answered from the table and changes
nothing, so it is no step. The kill switch and the offline gate only decide
whether a dispatch is allowed; the model lets it happen at any time, which
covers every answer they may give.

### 2.2 TemperatureRule

The unit of time is one scan interval (10 s). A time stamp is stored as an age
that saturates at `Cap`, above every period a rule can hold. Each way
`scanTemperatureRule` returns is an action: `ScanIdle` (disabled, not enough
samples, stale, inside the band, already there; all clear the votes), `ScanHeld`
(minimum interval, manual suppression; both keep the votes), `ScanVote`,
`ScanAct`; `ScanCrash` is a death between the dispatch and
`recordTemperatureRuleAction`. `usedKeys` holds the directions whose
idempotency key of this minute is in the command table, so a repetition is a
replay. `Sample`, `ManualCommand`, `PutRule` and `Restart` are the surroundings.

### 2.3 Schedules

`ScanBegin`, `Mark`, `Dispatch`, `ScanEnd` are the writes of one synchronous
`scanSchedules`; requests (`Create`, `Patch`, `Delete`) run between scans, while
`MinutePasses`, `StepBack` and `Abort` (process death, or a statement that throws and is
caught by the timer callback) may come anywhere. A patch overwrites a subset of
columns and leaves `last_fired_minute` alone, as `updateAcSchedule` does.
`FreshId` is AUTOINCREMENT. A minute is a number and stands for the dated
`minuteKey`; a day has `SlotsPerDay` minutes and a week `DaysPerWeek` days.

### 2.4 The Learning Studio

`LearnDevice` is the device: `dev` is `_labLearnActive`, `_labLearnCaptured`, the
learning mode of the module and the ids of the last begin; `toDev` and `toHost`
are the serial line. `DeviceReceive` is one console command (`begin`, `cancel`,
`export`, `clear`, `status`), `PollCaptured` and `PollTimeout` are the two ends of
a session. A frame is named by the session its key was pressed in.

`LearningStudio` puts the window and the worker thread beside it. A step of the
worker is what `SerialIoWorker` does between two waits, and each wait has the
timeout the code gives it: `ConnectPort`, `ReadStatus`; `CheckBegin`,
`BeginCapture`, `Enter`, `AwaitRemote`, `ExportFrame`, `ExitLearning`,
`FinishCapture`, `Cleanup` are `_begin_capture`; `CancelCapture`, `Disconnect`,
`AwaitCancelled`, `AfterCancel`, `Terminate` the rest of its loop. The window's
buttons and its 100 ms drain are `WindowNext`. `confirmed` is history: which
sessions the module acknowledged as left.

`StudioRuntime` is `create_runtime`: root check, mutex, database, health check,
owner of the database. `IrLibrary` takes one SQLite transaction as one action; what
takes several (migration, snapshot, include) is a `job` whose process may end in
between. The triggers on approved rows are guards of every operation they apply
to.

What the model follows and a reader may not expect: an update may give a draft
another code id; `migrate-legacy` cannot import a captured state 002, since the
trigger on approved captures refuses it; the snapshot has a window between
`rmtree` and rename in which there is none; `migrate-existing` of the file store
writes the approved definition before anything else, and reports PASS also when
it did nothing. With a real device the desktop's connect never passes the
handshake: it tells the worker the port's name only, and
`validate_device_status` wants the USB identity. `UsbIds` stands for mock mode or a
worker that knows it, without which no learning could happen.

### 2.5 Simple Learner, generators, Capture Studio, console

`SimpleLearner`: buttons, events and the half-second check run on one Tk thread,
so each is a step. `loops` is the set of timers that still reschedule
themselves: a write to a port that is gone raises and ends one for good.
`exitConfirmed` is written as true whatever the device said, and a completed flow
may be saved again by a late event; both are as in the code.

`LearnedStates` is the other half of the same program, the files per state, with
`OnPreset`, `DoSave`, `Compare`, `Approve`, each a list of atomic writes; and the
two generators, which read these files one at a time while they change. Captures
stay in the window when another state is chosen in the form, and approval takes
the last one: the compared source is what the generator checks.

`CaptureStudio`: `StartCapturing` begins a daemon thread, `SaveStep` and `SaveFails`
are its single writes, `PollQueue` counts what it reports. Nothing prevents a
second start, and leaving the program does not join the thread.

`CaptureConsole`: `Round`, `Attempt`, `Captured`, `SavingFails`, `NotCaptured`,
`AfterFailure` and `Interrupt` are the ways through `run_loop`; a file of an earlier
run may be kept unread and is counted.

### 2.6 Replay, export, frames

`ReplayOnce`: `SendCmd`, `ReadAnswer`, `NoAnswer`, `BadEcho`, `GiveUp` are the program,
`DeviceLine` the device reading a line, `DropLine` the line. There are no sequence
numbers: a chunk without an answer is written again and appended twice; what
saves the transmission is the read-back of the committed frame.

`ExportAssembly`: the device's events of one export may be lost or changed
(`LoseEvent`, `GarbleEvent`), and the end of an earlier export may precede them. The
two assemblers differ in what they tolerate, so `tool` chooses one. A digest is
the frame it was made of: it stands for a hash without collisions.

`FrameFormat` builds a frame as the module does and applies each validator to what
the line made of it; `errors` counts the damage.

### 2.7 Downloads, packages

`DependencyDownload`: `Resolve`, `Request`, `ReadBlock`, `Interrupted`, `EndOfReply`
are `download` and its helpers; `RunAgain` is the next start, which always comes,
since the call after the download has arguments its function does not take. A
range that begins at the end of the file has an error for an answer, again and
again. A checksum is the content.

`PcbRelease` reads one `git show` per step while the ref may move; `SpoilRows` and
`SpoilZip` are the checker's sabotage tests. `SrunLibrary` copies one file per step
while the source may be edited and the program killed. A content is a number.

### 2.8 The campus network

Two state machines run in one loop of the firmware and look at the same network:
`WifiManager` associates, finds a captive portal, logs in and verifies;
`ConnectivityStateMachine` waits for it and then connects with the broker. Each
has its own backoff and its own idea of when a login is due, and both log in.

| Variable | Code |
|---|---|
| `build` | `ENABLE_CAMPUS_AUTH`, `ENABLE_AUTO_CAMPUS_AUTH`, compiled credentials, `WIFI_AUTOCONNECT_ON_BOOT` |
| `air` | the surroundings: no link, a link to nowhere (`dead`), a captive portal, an open network |
| `wifi`, `detected` | `_state` with `_portalChecked`; `_portalDetected`, which only a new detection changes |
| `triggered` | `AutoAuthEpoch::_triggered` |
| `asked` | `_authRequested`, which a manual build needs |
| `blocked`, `streak` | `CampusAuthPolicy::_hardBlocked` and its `_failStreak` |
| `verify`, `failStreak` | the rounds of a verification; failed checks while online |
| `cloud`, `guard`, `verifyFails` | `_state`, `AuthGuard` and `_verifyFailStreak` of the cloud side |
| `broker` | the MQTT connection |
| `unasked` | history: logins that were rejected, or that a manual build started, since the operator last asked or one succeeded |

`WifiUpdate` is one call of `update()`: first the link and the lease, then the case
of the state. `CloudTick` is one call of `tick()`. A login blocks, so its outcome
belongs to the call: `success`, `retryable`, `rejected`, or `pin`. The last is what
`tlsPinValid` answers to a wrong certificate and to a host that does not answer
alike; the manager takes both for a reason to block. `Console` is what an operator
types, `NetworkChange` and `BrokerLost` the surroundings, `Reboot` a reset.

Lengths of time are not counted. An interval, a backoff, what is left of a quota:
each may be over at any call. What depends on how long a wait is (attempts an
hour, `millis()` with its wrap) is out of the model; what depends on the order of
events is in it for every length.

What the code does and a reader may not expect: `wifi connect` forgets the epoch
but neither a pending request nor the block; the cloud side counts the manager as
connected while it is blocked or in a backoff, and reads a portal that may have
been detected before the last login; its login passes neither the policy nor the
block, and does not tell the manager that it succeeded.

## 3. Runs

| Run | Question | Result |
|---|---|---|
| `backend` | redelivery after broken backend links, both dedupe structures of size one; and: do minute anchor and key suffice for schedules through edits, deletions, crashes and clock steps | holds |
| `pipeline_reliable` | all payload classes, device drops, reboots, a backend restart, no broken backend link: is a device's verdict final | holds |
| `pipeline_contract` | does the pipeline implement `ActuationContract`, and does a publish settle | holds |
| `pipeline_replay` | does deduplication survive a device reboot | violated: a finding |
| `pipeline_stale` | does a device always reject stale intent | violated: a finding |
| `temperature_rule` | do the guards hold together through refusals, edits and crashes | holds |
| `temperature_record` | was what the rule recorded ever sent | violated: a finding |
| `schedules_fired` | does a marked row imply a dispatch | violated: a finding |
| `ir_stores` | do the programs that keep files keep them true through kills, failing writes and each other | holds |
| `ir_bench` | do the programs on the serial line save and send only what the remote control sent, and do they end | holds |
| `campus` | do the two machines keep rejected logins few, and do they come back online together, in every build | holds |
| `campus_keeps_trying` | does an unattended device retry a login that failed for the moment | violated: a finding |

What the properties say, and why they are not obvious:

- `EmissionBudget`, `OneEmissionPerKey`: a command is emitted again in one boot
  only if the ring was turned over in between, whatever the links redeliver.
- `ReplayNeedsEviction`: with a set clock the second emission needs *both*
  layers evicted by other commands. The execution cache forgets by time too;
  that it makes no difference relies on the clamp of the life, the whole-second
  clock and the cache's 30 s, and is where they meet (`CacheOutlivesCommands`).
- `EmissionIsTimely`: the second lost to the device's whole-second clock is the
  only lateness.
- `OutcomeTruth`: after redeliveries, expiry sweeps and PUBACKs, a row still does
  not claim an emission that never was, or deny one.
- `VerdictIsFinal`: what lets three writers share `status`. It needs an
  unbroken backend link: the broker answers on one FIFO stream, PUBACK first.
  After a resend the row may go back to `published`, so this property is not
  part of `backend`.
- `Contract`: refinement of `ActuationContract`, for a ring that holds all commands
  of a boot.
- `PublishSettles`: what mqtt.js has accepted does not stay `pending`.
- `NoEarlyReversal`, `OneCommandPerMinute`, `AgreedBefore`: recorded action,
  minimum interval, votes and minute key cover for one another after a crash.
  All three start once the row holds an action. Before it does, a crash on the
  very first dispatch leaves neither `last_action` nor a time to hold on to.
- `SpikeImmune`, `RefusalIsRetried`: two of three samples behind every
  command; refused dispatches are confirmed and tried anew for ever.
- `AtMostOncePerMinute`: after a step back of the clock and an edit
  `last_fired_minute` has forgotten a minute; the idempotency key has not.
- `NoRetryStorm`, `OneShotOnce`, `KeysAreOwn`, `NoMissedFiring`: six scans a
  minute make one attempt; a one-shot runs once per arming; a new schedule
  never inherits a deleted one's keys; an undisturbed scan leaves nothing out.

- `LibraryTruth`: one owner and true selections (`OneLibraryOwner`, where
  `CreateMutexW` succeeds for the second process too, and `CanonicalTruth`).
- `ApprovedKept`: no approved row of the database changes, no recorded frame of
  the file store is replaced (`ApprovedFrozen`, `FramesKept`).
- `MigrationAllOrNothing`: the triggers, the status tests of each operation and
  the transactions together, against two processes, forks and old files.
- `ApprovedComplete`: the order of single file writes is all that
  protects the file store from a kill.
- `GeneratedBacked`: three generated files (`IncludeBacked`, `TableOwned`,
  `FixedListed`) against inputs that change before, while and after they are read.
- `CountedOnDisk`: what two programs count is still there, undamaged
  (`CountedComplete`, `KeptOrSound`).
- `DeliveredExact`: a download without a checksum (`ResumeExact`), a package read
  from a moving ref (`PackageExact`), a copied library (`SrunExact`). The
  verifying packager reads everything twice, and the copier makes two copies. With
  one move of the ref, or one edit, one of the two readings has met none, so what
  passes is one tree; two are enough to let a mixture through, and
  the property is about one. A checker's sabotage is always noticed, and an
  undisturbed verification accepts a complete and right tree and nothing else.
- `FramesAgreed`: five validators written apart accept the same frames, and one
  error is always noticed.
- `ValidatedTruth`, `SlotsDistinct`: late answers of an earlier session, resent
  cancels and adopted captures never give a session a frame that is not its own.
- `NoLearningAbandoned`: no path through the worker forgets to tell the device
  to leave learning mode. Closing the window may, and does: it stops the worker
  without a command, which is why the property speaks of a worker that waits.
- `EmittedIsCandidate`, `ExportExact`: see 2.6.
- `DisconnectEnds`, `FlowEnds`: whatever is waited for, a disconnect ends the
  worker and a capture ends.
- `LoginBudget`: a campus account locks after a few wrong passwords. Block, epoch,
  request and two counters are set and cleared at different moments by two
  machines, link loss, leases and the console; together they let at most
  1 + `max_auth_attempts` rejected passwords through until somebody asks for
  another or one succeeds, and a manual build starts at most `MAX_AUTH_RETRIES`
  more, in any order of events short of a reset.
- `OnlineOrParked`: once nothing is disturbed any more and the Internet can be
  reached, the device is connected with the broker for good, or its manager waits
  for an operator for good: switched off, blocked, or in `AUTH_READY`. Neither of
  the machines keeps sending the other back, and a connection that dies silently
  is noticed.

### Findings

1. `pipeline_replay`: an unacknowledged QoS 1 command that is resent after the
   device rebooted is emitted twice with one `command_id`.
   `mqtt-protocol.md` says the deduplication survives QoS 1 duplicates.
2. `pipeline_stale`: a fingerprint-pinned device may listen with an unset clock,
   and then nothing expires. `architecture.md` says stale intent is rejected.
3. `temperature_record`: `failed_to_publish` counts as dispatched, so the rule
   records an action that was never sent and then answers `already_on`.
4. `schedules_fired`: the row is marked before the dispatch, and a crash in
   between loses the firing (for a one-shot, for good). `scheduling.md`
   describes the opposite order.
5. `campus_keeps_trying`: after one retryable failure an unattended device waits in
   `AUTH_READY` with the epoch's latch set, which only a link loss, a new lease or the
   console clears. The comments of `wifi_manager.cpp` say it keeps trying and that
   retries do not consume the latch.

Seen while modelling, without a run: the login of `connectivity_state_machine.cpp`
happens although `wifi_manager.cpp:192` calls `AUTH_READY` "the ONLY place a login may
start", and after the policy has latched its block; it is what makes
`max_auth_attempts` part of `LoginBudget`. And a portal that cannot be reached for a
moment blocks the manager like a wrong certificate.

### Bounds

- *Two commands and two keys.* One command to be replayed and one other to turn
  over a ring of size 1, the smallest at which every dedupe argument can fail.
  The 32 of the code is covered by the proofs, which hold for every size.
  `pipeline_contract` has a ring of 2, which is all commands of the run. The two
  runs with a finding need one drop, one reboot and at most two commands.
- *Time.* `MaxTime` 2 with a life of 1 and `Grain` 1: alive, at the deadline and
  past it. `CacheTtl` is 1 in `backend`, so that the cache expires within
  the run, and `MaxTtl` 2. `Grain` larger than 1 is covered by the proofs.
- *Drops, reboots, restarts*: one of each kind a run is about. A second drop
  repeats the state after the first with older rows.
- *Temperature*: three temperatures (above, inside and below the band), three
  scans a minute instead of six (more than the two a vote needs), `Cap` 3 = the
  minimum interval = one minute, which the settings schema has as its minimum;
  one crash; a rule, the same rule switched off, and an inverted band that the
  route must refuse.
- *Schedules*: two schedules, two minutes a day and two days, clock over three
  minutes, so that a slot comes round again on another weekday; one abort, one
  step back, two edits.
- *Stores*: two processes, two codes of one key in two versions, one frame and
  one that does not validate, two captures per state: enough for a fork, a
  canonical choice among several and an orphan. Three captures wanted by the
  console of at most four attempts; an archive of three blocks with two
  interruptions a run; frames of up to nine bytes with two errors; two
  air-conditioner states and two slots; two files in a package and in a library
  with two moves or edits, one more than is harmless, and among the trees one
  whose list has a row too many.
- *Bench*: two sessions, so that answers of the first meet the second; four
  posted commands (connect, capture, cancel, disconnect); two chunks for replay
  and export, buffer of four, so that a doubled chunk still fits; a frame of
  three chunks or more and other buffers are covered by the proofs.
- *Campus*: all four builds; two attempts of the cloud side for the code's three,
  one retry of a manual build for two, two rounds of verification for three; link,
  portal, leases, broker, console and resets as often as they like. The state
  space is finite without a bound on them. `CountCap` is one above the budget.
- The programs of `MCBackend`, of `MCIrStores` and of `MCIrBench` share no state (of the bench,
  the port, which one program has at a time; a schedule reaches the pipeline only
  through the outcome of its dispatch). `program` says which one an
  execution is about and the others rest in one initial state: the run is the
  union of their behaviours and not their product.
- Symmetry of command ids and keys is used in safety runs only.

`CHECK_DEADLOCK FALSE` stands in the configurations whose bounds on time and
failures let the model stop. The temperature and campus runs have no such
bound and check deadlock.

### Fairness

- `CommandPipeline`: `BackendReconnect` (mqtt.js, `reconnectPeriod` 3000), the
  broker's forwarding, and the bridge draining its socket, all weak. Nothing is
  assumed of the device, the user or the clock.
- `TemperatureRule`: the interval timer fires and its callback runs. The scan
  is synchronous, waits for nothing, and its exceptions are caught.
- `Schedules`: none; all its properties are safety.
- `LearningStudio`: the worker thread, whose every wait has a deadline, and the
  window's drain, which reschedules itself. Nothing of the device: it may be
  silent.
- `CloudLink`: `loop()` calls `update()` and `tick()` for ever, and every wait is
  finite, so weak fairness of a step of each. Strong fairness of connecting with a
  broker that is tried and can be reached again and again: a broker that refuses
  for ever is not the firmware's. Nothing of the login's outcome or of the network.
- `SimpleLearner`: the deadline check on its own timer, only while that timer
  lives; after an unplug a write of the check itself ends it.

## 4. Proofs

Eight modules prove for every value of the constants what the runs show on small
instances: every invariant and every action property of every passing run.

| Module | Theorem | Statement |
|---|---|---|
| `CommandPipelineProofs` | `Inductive` | `Spec => []PipelineInv` |
| | `Typing` | `TypeOK`, and every id on a link has a row |
| | `Budget`, `OnePerKey` | `EmissionBudget`, `OneEmissionPerKey` |
| | `Timely`, `NeedsEviction` | `EmissionIsTimely`, `ReplayNeedsEviction` |
| | `Refinement` | `Contract`, while a boot records no more ids than the ring holds |
| | `OutcomeInductive`, `OutcomesAreTrue` | `OutcomeInv`, `OutcomeTruth` |
| | `VerdictsAreFinal` | `VerdictIsFinal`, while the bridge's link never breaks |
| `SchedulesProofs` | `SchedulesInductive`, `SchedulesTyped` | `SchedulesInv`, `SchedulesTypeOK` |
| | `MinuteOnce`, `NoStorm`, `ShotOnce`, `OwnKeys`, `NoneMissed` | `AtMostOncePerMinute`, `NoRetryStorm`, `OneShotOnce`, `KeysAreOwn`, `NoMissedFiring` |
| `BackendProofs` | `BackendTyped`, `BackendIsTrue`, `BackendEmitsInTime` | all properties of the run `backend`, of its own specification |
| `TemperatureRuleProofs` | `Inductive`, `Typing` | `RuleInv`, `TypeOK` |
| | `NoReversal`, `MinuteOnce`, `Agreed`, `Spike` | `NoEarlyReversal`, `OneCommandPerMinute`, `AgreedBefore`, `SpikeImmune` |
| `CampusProofs` | `CampusInductive`, `CampusTyping`, `BudgetIsKept` | `BudgetInv`, `TypeOK`, `LoginBudget` |
| `LibraryProofs` | `LibraryInductive`, `OneOwner`, `SelectionsTrue`, `ApprovedStays`, `MigrationWhole`, `IncludeStaysBacked` | `LibraryInv`, `OneLibraryOwner`, `CanonicalTruth`, `ApprovedFrozen`, `MigrationAllOrNothing`, `IncludeBacked` |
| | `StoreInductive`, `ApprovalsComplete`, `FramesStay` | `StoreInv`, `ApprovedComplete`, `FramesKept` |
| | `LearnedInductive`, `TableIsOwned`, `FixedIsListed` | `LearnedInv`, `TableOwned`, `FixedListed` |
| `StoresProofs` | `ConsoleInductive`, `DownloadInductive`, `StudioInductive`, `PackageInductive`, `SrunInductive`, `FrameInductive` | one inductive invariant for each program |
| | `OneOwnerAndTruth`, `ApprovedIsKept`, `MigrationsWhole`, `ApprovedAreComplete`, `GeneratedIsBacked`, `CountsAreOnDisk`, `DeliveriesAreExact`, `ToolsAgree`, `StoresTyped` | all properties of the run `ir_stores`, of its own specification |
| `BenchProofs` | `LearnerInductive`, `SlotsAreDistinct` | `LearnerInv`, `SlotsDistinct` |
| | `LearningInductive`, `ValidatedIsTrue`, `NoneAbandoned` | `StudioInv`, `ValidatedTruth`, `NoLearningAbandoned` |
| | `ReplayInductive`, `ReplaySafe` | `ReplayInv`, `EmittedIsCandidate` |
| | `ExportInductive`, `ExportIsExact` | `ExportInv`, `ExportExact` |
| | `BenchInductive`, `BenchTyped`, `BenchIsTrue`, `BenchLeavesNothing` | all invariants of the run `ir_bench`, of its own specification |

The assumptions are the named ASSUMEs of the modules, which the runs evaluate.
Sizes are positive integers, times are naturals, null values are not keys or
payloads, flags are Boolean (`CommandPipeline`); slots, days, periods and bands as
their sections declare them (`Schedules`, `TemperatureRule`); builds are records of
switches, retries and attempts naturals, and there is a round of verification
(`BuildsAssumption`, `NumbersAssumption`, `AttemptsAssumption`). Of the tools: the
mark of no process is no process (`RuntimeAssumption`); what a user types is a
definition, and a directory has finitely many frames (`LibraryAssumption`); the
state 002 is one of the states (`StoreAssumption`); states are finitely many
(`LearnedAssumption`); an archive has a block and the disk has room for it
(`DownloadAssumption`); a target is positive (`CaptureAssumption`); a tree holds
finitely many files, none of them the manifest or with the content the
checker's sabotage writes (`PcbAssumption`, `SrunAssumption`); bytes are
bytes, and a frame is shorter than 65536, what two bytes of length can say
(`FrameAssumption`); a first slot exists (`SlotsAssumption`); at least one chunk and
room for one (`ReplayAssumption`, `ExportAssumption`); the bounds of the models are
naturals.

### The command path

`PipelineInv` strengthens the properties to something inductive:

- `TypeOK` alone is not inductive: an ack for an id without a row would turn the
  null row into something that is not a row. `StreamsOK` adds that only ids of
  existing rows travel, and rows are never removed.
- `RingOK` is the heart. An id is younger in the ring than the number of ids
  recorded since its last emission, and all earlier emissions have cost a whole
  turn each: `(shots - 1) * (RingSize + 1) < mark`. `EmissionBudget` mentions only
  `handled`; without `mark` nothing links it to the ring.
- `RowsOK`: different rows have different keys (the second half of
  `OneEmissionPerKey`), and an IR deadline is at most one requested life away.
- `EmittedOK`: an emitted command is an IR command, and the cache entry was not
  written before its deadline minus a life. `ReplayNeedsEviction` follows: if the
  cache entry has timed out, the command has expired on the device's clock.
- `ClockOK`: a CA-pinned session implies a set clock, for `EmissionIsTimely`.

Each action has its own step. The action properties are then proved from the
invariant for one step (`EmittingStep`, `GrainBound`).

`Refinement` maps the pipeline to `ActuationContract`: initial states to initial
states (`Ledger` ties its counters to the pipeline's), and every step to a step of
it or a stutter (`ContractStep`). Its premise `[](handled <= RingSize)` is what the
contract of "once per boot" costs: with more commands in a boot than the ring
holds it is false, as `EmissionBudget` says.

`OutcomeInv` relates three places that speak of one emission: the row (`RowsTrue`),
every ack still on a link (`AcksTrue`), and what the device remembers
(`EmittedTrue`). `OutcomeTruth` is about rows only, and an ack on its way can break
it later.

`OnceInv` is what an unbroken link of the bridge adds, and it does not mention the
ring: a command is in one place at a time on its way from the bridge to the device
and back into the row (`Places`), is on no link twice, and its ack is the last that
any link says of it (`Ordered`). A reboot of the device, or a drop of its own link,
may lose a command there, but nobody sends it again. The premise
`[](spent.backendDrops = 0)` stands for the run's `MaxBackendDrops = 0`; with one
drop the property is false, which is why `backend` does not check it.

`SchedulesInv`: `IdsOK` and `KeysOK` say which ids can be in use, in keys and in
history; `SentOK` that a command of a minute left its key, which outlives every
edit; `ArmedOK` counts a one-shot from its arming to its mark. While the clock
never stepped back, `OrderOK` keeps marks and attempts on this side of `minute`, and
`WatchOK` is what the scan has done so far in the order of the table.

`RuleInv`: `SamplesOK` and `VotesOK` say what the votes stand for, and `AiredOK` ties
the recorded action and its age to what was sent, which differ only between a
crash and the next action.

`BudgetInv` shares the rejected logins out: `Shared` says that they are at most the
failures of the cloud side's guard plus the manager's own (the streak of a manual
build, or all that is allowed once it is blocked). `RetriesLeft` and `Permitted` add
that neither machine begins a login beyond its share. `LoginBudget` alone is not
inductive: it does not say whose turn was used.

### Programs that keep files

`LibraryInv`: the process that has the database holds the mutex (`OwnerHolds`), a
row's selection is true (`RowTrue`), a migrated row has every frame of its directory
(`RowWhole`), and what an include is being made of, or was made of, is approved
(`IncludesTrue`). The last needs that approved rows stay (`Frozen`, proved of each
step), since rows change between the two writes of an include.

`StoreInv` is about the writes still to come: the frame to be written is the next of
its state and the only one (`BinsNext`); and either no write left approves a state or
touches canonical files, or what is left is an end of one approval, whose earlier
writes are on disk (`PlanShape`). A kill drops what is left, so what is on disk has
to be complete at every point of it.

`LearnedInv` adds to the files (`GoodFolder`) the writes still to come (`GoodPut`) and
what a generator has read (`GenInv`): a list whose k-th frame was captured for the
k-th state. A frame belongs for good to the state it was captured for, so later
edits cannot make a table wrong (`InOrderStays`).

`ConsoleInv`: the count is how far the numbers have come (`Counted`) and everything
behind is done with (`Done`). `DownloadInv`: the file is a beginning of the archive
(`Begun`), and byte count, length and reply stay together (`InStep`). `StudioInv` of
the Capture Studio: the thread works on the number the window waits for and what it
has written of it is of this attempt (`AtWork`); what was counted is behind it, and
there are as many as the counter says (`CountedBehind`).

`PcbInv`: a package under construction is the entries of the list in their order
(`Placed`); without a move it is the tree's (`Rest`), and each check has judged what
it looked at (`Verdict`); with one move either the package was read before it, or
the second reading saw the bytes of the tree that came (`OneTree`); a spoilt row or
entry is still there to be found until the verdict is no (`Spoiled`). `SrunInv` is
the same for two copies: a library with a manifest is no more than it lists
(`Covered`), and of the two passes one met no edit (`OneSource`).

`FrameInv` says that one error is refused, in the form of the strictest validator;
the rest of `FramesAgreed` follows by comparing them. It rests on
`ChangeShows`, `LossShows` and `DoubleShows`, which follow a damaged byte through
what is fixed, the length and the checksum. The checksum is a recursive function
over sequences of any length: that one changed byte changes it (`OneByteTells`) is
an induction, made through a least counterexample (`LeastOf`, `StepByStep`, from the
well-foundedness of the naturals).

### Programs at the serial line

`DeviceInv` and `DeviceStep` say once what the device may do, in three forms: it
shows nothing (`Quiet`), it tells of a key press or of a timeout (`Notifies`), or it
answers the oldest line (`Answers`). Both programs are proved from these forms.

`LearnerInv`: on the line a session is begun once and captured once (`BeginOnce`,
`CapturedOnce`), and neither is followed by the other again (`Captures`). A flow past
its capture, and a slot that is filled, hold a session whose capture is spent
(`Consumed`): no line and no event of it is left, and the device will not tell again.
`SlotsDistinct` alone is not inductive: a second "captured" of an old session could
be on its way.

`StudioInv` of the Learning Studio has two halves. For `ValidatedTruth`: a session that
is to begin is one the device never heard of (`BeginsFresh`), so behind its "waiting"
there is no reply to an earlier cancel (`EnteringInv`), so every reply to a cancel
that is read from then on is the session's own (`OwnCancels`), and such a reply
stands for an exit the module acknowledged (`ExitsNoted`). For `NoLearningAbandoned`:
a begin without a cancel is under way, or its cancel is queued, also where the cancel
overtook the begin or only the flag that ends a capture was set (`OwedInv`).

`ReplayInv` follows the cable: what a pending answer belongs to (`Echoed`), what
the buffer holds once the commit was answered (`Settled`), that the order to send
is armed by an equal echo (`Armed`) and is written once (`Single`), with `Phases` and
`Ordered` for the places of program and lines.

`ExportInv`: no event of this export names another frame (`WireOK`), and if nothing
was harmed the assembler is as far as the line is (`CleanOK`, `ReadSoFar`).

### Compositions

`BothRun` and `ProgramsRun` show that a behaviour of `MCBackend`, or of `MCIrStores`,
is one of each of its parts, which share no state; the theorems of the parts then
hold of the whole. The programs of `MCIrBench` share the device, so `BenchInv` says
which of them holds the port, that its invariant holds, and that the others are as
they started.

### What is only model-checked

- `PublishSettles`, `RefusalIsRetried`, `OnlineOrParked`, `DisconnectEnds` and
  `FlowEnds`: liveness under fairness, and ENABLED, are outside what the proof system
  does. So are the fairness conditions themselves.
- `Contract` without its premise, on the run's instance, where the ring holds all
  commands.
- The findings: a counterexample needs no proof.

The library's induction theorems take an operator as a parameter, which no
installed prover can instantiate, so inductions go through a least counterexample as
above. RECURSIVE operators cannot be proved about; no module here declares one.

## 5. Not modelled, and why

- JSON parsing and building, topics, wording of answers, logging, counters:
  data the properties do not tell apart. A malformed command cannot come from
  the backend's own serialiser, the only publisher the broker admits.
- Retention (180 days of commands, 7 days of telemetry): an idempotency key
  outlives every life and every minute anchor by far. With it, `KeysAreOwn`
  and `AtMostOncePerMinute` would need a clock step of months.
- `device_state`, availability and the offline gate: planned (Presence). Until
  then a dispatch may happen to a device that is gone, which is the general case.
- The learning mode and the frame scanner of the IR module: planned (IrFrame).
- Frontend, weather cache, serial console, hardware: presentation, a read-only
  cache, manual diagnostics, and things outside the running system.
- The port lock of the Capture Studio (`serial_device.py`): the device it guards is
  switched off in this version.
- The checkers of documents and secrets, the builders of deliveries and the
  terminals among the tools: one pass over files that prints what it found,
  without state to be wrong about.
- Widgets, statistics, reports and listings of the learning tools.

## 6. Plan

In order of importance. The remaining runs are few, so a run checks a composed
or a combined module where the parts really meet.

1. `Presence` (`device_liveness.ts`, the state and availability branches of
   `handleMessage`, the offline gate, the broker's retained messages and last
   will): no command for a device that is known dead; a live device does not
   stay shut out. The retained `state` topic and the ack that does not count as
   activity are the hazards.
2. Time in `CampusWifi`: the hourly quota of `campus_auth_policy.h`, which counts in a
   fixed window, and `millis()` with its wrap in the absolute comparisons of
   `connectivity_state_machine.cpp` and `wifi_manager.cpp`.
3. `IrDebug` (window, cooldown, in-flight) and `OwnerSessions` (first login,
   password change, expiry, the memory fallback).
4. `DedupRing`: the array and the `uint8_t` index, shown to implement the ages
   of `CommandPipeline`. `IrFrame`: resynchronisation of the frame scanner as a
   recursive function against a reference definition.
5. Theorems: every safety property of the passing runs is proved. Next are the
   refinement of the ages by `DedupRing` and the invariants of the modules above.
