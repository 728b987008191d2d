# MagicHandy: TLA+ models, checks and proofs

MagicHandy is a local server, written in Go, that plans motion for haptic
devices and drives them over Cloud REST, Bluetooth, Intiface and other
transports. Its hard requirement is the Emergency Stop contract of
`docs/decisions/0002-motion-transport-contract.md`: whatever planners, chats,
browsers, retries and half-finished startups are doing, a Stop is the last
command the device gets until somebody starts motion again. That contract is
kept by several layers, each with its own lock, epoch counter and barrier. This
directory models those layers, checks them with TLC on small instances and
proves what matters most with TLAPS.

## Inventory

| Component | State | Operations | Talks to | What is hard | Module |
|---|---|---|---|---|---|
| Handy transports (`transport/motion_gate.go`, `cloud_client.go`, `handy_bluetooth_transport.go`) | gate generation and Stop count (two atomics), `hspMu`, active stream, playback origin | Stop, SetStrokeWindow, AppendPoints, Play, ReadMotionStartupState | the device, through HTTP or GATT | commands that wait for `hspMu` while a Stop comes; lost acknowledgements | DeviceFence, HandyTransport |
| Motion engine (`motion/engine.go`, `dispatch.go`, `startup.go`, `startup_reset.go`, `vibration.go`) | running, starting, completing, paused; run and Stop epochs; `stopBarriers`; plan; loop handles; `mu`, `commandMu`, `targetMu` | Start, Resume, ApplyTarget, RefreshSettings, ApplyVibration, Pause, Stop, ResetStartupPosition, the dispatch loop | one transport; called by handlers, modes and chat | every pair of operations may overlap; a startup is a dozen commands, each may fail after taking effect | MotionEngine |
| Native Bluetooth owner and session (`transport/native_bluetooth.go`, `handyble/session.go`) | owner generation and session; a session's gate, generation and stream | Connect, Disconnect, Interrupt, SendCommand, Execute | Bluetooth transport | a Stop or a Disconnect during a setup; streams the device no longer has | NativeBluetooth |
| Browser Bluetooth bridge (`transport/browser_bluetooth.go`, `browser_bluetooth_feedback.go`, `httpapi/bluetooth_gateway.go`) | queue, fetched commands, acknowledgements, session; gateway lease | send, fetch, acknowledge, report, connect, end | Bluetooth transport, browser tabs | late and repeated acknowledgements; five ways to end a lease at once | BluetoothBridge |
| Fan-out and leased transports (`transport/fanout.go`, `leased.go`) | participants, retired ones, fault latch, validity of leases | the Transport interface, Diagnostics | engine, one transport per device | partial failure of linked devices | FanOut |
| Intiface and Coyote transports | generations, pacers | the Transport interface | engine | as the Handy transports | - |
| Controller lease (`httpapi/controller_state.go`) | holder, expiry, takeover, Stop generation | observe, heartbeat, takeover, loss | handlers | expiry racing a heartbeat or a takeover | ControllerLease |
| Command delivery (`httpapi/command_state.go`, `command_delivery.go`, `command_motion.go`) | receipts, sequences, lane | begin, complete, prune, deferred motion | handlers | retries of what was applied | CommandDelivery |
| Emergency Stop and handlers (`httpapi/motion.go`, `stop_admission.go`, `request_admission.go`) | engine reference, shared Stops | start, stop, pause, replace | engine, modes | concurrent Stops, Stop against a delayed start | ControllerLease (in part) |
| Modes and autopilot (`modes`) | mode loop, generation, operation, pause, chat handoff, edge hold | start, four kinds of stop, pause, resume, chat, review, hold, return | engine | a planner's late result; controls that overlap | ModeManager |
| LLM coordinator and runtime (`httpapi/llm*.go`) | the slot, waiters, generation, cached provider, autoload | acquire, release, prepare, save, restart, unload | model provider | preemption; settings saved under a stream | LLMSlot, LLMScheduler, LLMRuntime |
| Session activity and remote control (`httpapi/session_activity.go`, `remote`) | bound requests; claims, guests | watchdog; claim, release, relay | lease | a guest's late command | ControllerLease (in part) |
| Motion planning and sampling (`motion/plan*.go`, `content.go`) | none (pure) | curves to samples | engine | floating-point geometry | - |
| Media synchronisation (`httpapi/media_sync.go`) | player epoch, offset | player events | engine | events out of order | - |
| Voice | queues, workers | submit, cancel, supervise | handlers | worker death | - |
| Chat, accounts, persistence, configuration, tooling, web client | - | - | - | see "Not modelled" | - |

What makes each correct: the transports never dispatch a command that a delivered
Stop overtook; the engine's transport Stop is final for every earlier run, no
motion is left without a run that owns it, nothing resumes across a Stop, the
timeline has no hole, and every call returns; a lease has one holder, and motion
that is not the owner's has a Stop ahead of it; a retried command is applied once;
concurrent Stops share one dispatch and none is lost; a mode's result is applied
only in the generation that asked for it, and never over newer motion; a linked
session starts with every device or not at all, and a Stop of it leaves none
moving; a tab sends only what was queued for its session; the one model slot
serves chat first, under the configuration of now; no link stays open that nobody
owns, and points go only to a stream the device has.

How the parts meet: a handler is admitted by the lease and, for protected
commands, by a delivery receipt; it calls the engine, the mode manager or both.
The engine owns one transport, which is a Handy transport, a fan-out over several
leased ones, or another device's. A Handy transport over Bluetooth sends through
the native owner or the browser bridge. Chat and autopilot turns take the model
slot before they ask the manager for motion. Every module represents its
neighbours by what it can tell apart of them: ModeManager has an engine of three
states and a plan number, FanOut has devices that move or not, NativeBluetooth has
the gate as its outcome, ControllerLease has an engine whose `motion` is an actor.

## Modules

### DeviceFence, HandyTransport

`DeviceFence` is the abstract specification of the gate: a command changes what the
device does only while it is admitted, and a Stop that reaches the device stills it
and ends every admission at once. `HandyTransport` implements it under the mapping
`Fence`: the commands that may still take effect are those that were admitted and
that no delivered Stop has overtaken, and the device is the device. That nothing
overtaken takes effect is what the generation, the lock and the repeated validation
achieve together; no single one of them does.

HandyTransport is one connection, Cloud (`Cloud = TRUE`) or Bluetooth. `place` says where each
goroutine stands between two statements that another goroutine can observe:
every atomic load and add of the gate, the acquisition of `hspMu`, every
dispatch and every reply is a step. `AdmitLoad`/`AdmitTest` are `admit`,
`ValidateStops`/`ValidateGeneration` the two halves of `validate` (Go evaluates
them in that order), `BeginStopRaise`/`BeginStopAdvance`/`EndStop` the Stop side.
`AfterFirstValidate` holds the differences between the methods: Cloud's
AppendPoints may set up a stream first and validates again; Cloud's play
refreshes the server clock and validates again. `BuildError` is every refusal of
a malformed command.

The device is external: `Deliver` lets a request reach it or get lost before its
dispatch returns, and a reply may report a failure although the request had its
effect. A request that the service processes only after its dispatch has
returned is outside the model: no code of the transport could order it.
`overtaken` (callers that a delivered Stop has passed since their admission) and
`quiet` (a Stop was delivered and nothing was admitted since) are history.

### MotionEngine

All exported engine methods that change state, and the dispatch loop. `at[g]`
is the frame of goroutine `g`: a request, or the loop of run `k`. A section of
`mu` is one step. `commandMu` and `targetMu` are explicit, since they are held
across transport calls and across whole target operations. A transport call is
two steps: `AdmitCommand` takes `commandMu` and validates the run
(`contextForRun`), then `CommandSucceeded`, `CommandFailed` or
`CommandFailedRecovering` ends it; everything that needs only `mu` can happen in
between. `NextCommand` is the order of commands of each operation: the startup
of `prepareMotionStartupOwner` with its lead-in, arrival reads and verification,
the first chunk, the prebuffer and play; the refills of a retarget; the refresh;
the loop's append and its vibration frame.

Six paths stop the device (Stop, Pause, recovery, aborted startup, completion,
reset). Each raises `stopBarriers` and ends the run in one step, waits in
`HaltLock` for the loop it took over and for `commandMu`, and finishes with a
transport Stop that may fail. A promotion (a linear target for a vibration-only
run) is a Stop followed by a start inside one target operation.

Abstractions: the plan is its identifier and whether it is vibration-only; a
chunk is accepted, refused or lost (`gap` says that samples were taken from the
plan and not accepted); time, telemetry values, diagnostics and traces are
nondeterministic choices; a linked session's participants are positioned as one
owner. `fenced`, `pausedAt`, `admittedAt` and the field `late` are history.

Definitions marked "Mutant" in the modules are wrong variants of the definition
that follows them. No specification uses them: each is substituted for the
definition to confirm that a property notices.

### ControllerLease

Who may command the device, from the browser's request to the engine. Each
section of `controllerRuntime.mu` is one step; the variables `active`, `pending`,
`generation`, `stopping`, `ownerLive`, `tickets` and `bound` are its fields. Times
are ages in ticks (`idle` since `lastSeenAt`, `remote` since `remoteSeenAt`, the
ages in `tickets`), so expiry can fall between any two steps. An identity (tab and
session) is one actor; `Local` actors are unprotected loopback clients.

| Code | Actions |
|---|---|
| `Observe`, `heartbeatTransition`, `RemoteRenew` | `Observe`, `Heartbeat`, `RemoteRenew` |
| `trackSessionActivity`, `requireController`, `bindRequestCause`, `admitCommand` | `Enter`, `Authorize`, `AuthorizeLocal`, `Bind`, `Admit` |
| `handleMotionStart` | `LoadStopSequence`, `motionEngineForStart`, `StartMotion`, `Leave` |
| `handleControllerTakeover`, `bootstrapController` | `BeginTakeover`, `RequireAuthentication`, `Bootstrap`, `CompleteTakeover`, `TakeoverGone`, `CancelTakeover` |
| `checkAccessLifetimes`, `BeginLocalLoss`, `stopLostController` | `ExpiredLoss`, `SessionLoss`, `BeginLocalLoss`, `FinishLoss` |
| `emergencyStopWithAdmission`, `stopAdmissionRuntime` | `RequestStop`, `Invalidate`, `EnterBatch`, `FollowerReply`, `StopEngine`, `ReleaseEngine`, `StopReply` |

A member of `Jobs` is a goroutine that runs an Emergency Stop; its `kind` is the
cause. `batch` is the shared Stop in progress, `lifecycleMu` the engine's lock. The
engine is external: `motion` says for whom it moves. A start is atomic because the
engine compares the admission that `motionEngineForStart` took under
`lifecycleMu` (module MotionEngine shows what that comparison is worth). `stale`
and `outdated` are the requests whose `stopSequence` and whose engine admission a
Stop has overtaken. `heard` is history: since this Stop invalidated work, the
engine has been still. Accounts are external: `GrantEnds` and `Revoke` happen at
any time. Local clients have no binding and no generation, so the session
properties exclude them.

### CommandDelivery

`commandRuntime` and the admission of protected commands. The tab issues numbered
commands (`Issue`; after a reload it continues from the number the server
reports), the network delivers any number of copies in any order (`Deliver`), and
a request goes through `Lookup` (a retained receipt is replayed), `Acquire` (the
lane), `Begin` (`commandRuntime.begin` with its prune for capacity), its effect and
the deferred part of `trackCommandDelivery` (`Return`). A model's reply releases
the lane during inference, takes it again (`AcquireDeferred`) and checks that no
newer motion command was admitted (`CheckDeferred`). The lease is reduced to its
generation: `AdvanceGeneration` is a Stop, a takeover or a loss. Any finished
receipt may be pruned at any time; the code prunes the oldest, and those older
than its retention. An expired ticket is one of the refusals of `Return`. `count`
and `mark` are history.

### ModeManager

The mode manager and everything that competes with it for the engine. Users are
request goroutines, `run k` is the `k`-th mode loop, and `Reaper(k)` the goroutine a
loop spawns to end itself. Everything `Manager.mu` protects is one record, and a
section of `mu` is one step; `lifecycleMu`, `userControlMu` and the engine's
`targetMu` are held across steps. Helper operators carry the code's names
(`Advance`, `CancelOperation`, `SuspendEdge`, `NotifyChatStop`, `OperationAdmitted`):
they take the record and return it changed, so that an action reads as the section
of the code does.

| Code | Actions |
|---|---|
| `Start`, `beginModeStart`, `handleModeStart` | `StartRegister`, `StartControl`, `StartAdmit`, `StartInstall`, `StartVerify` |
| the four stops: mode stop, chat stop, global Stop, settings halt | `StopFence`, `StopNotify`, `StopBegin`, `HaltEnter`, `Drain`, `ManagerStop`, `StopLoopAtGeneration` |
| `BeginUserPause`, `BeginUserResume` | `PauseRegister`, `PauseControl`, `PauseFinish`, `ResumeRegister` |
| chat handoff and its target | `ChatBegin`, `ChatReply`, `ChatPrepare`, `ChatNotify`, `ChatComplete` |
| review of the autopilot by a model | `ReviewBegin`, `ReviewApply`, `ReviewFinish` |
| edge hold and return | `EdgeHold`, `EdgeApplied`, `ReturnBegin`, `ReturnRegister`, `ReturnControl`, `ReturnFinish` |
| the loop | `Tick`, `TickEdge`, `DecideIdle`, `DecideRunning`, `Plan`, `ApplyChoice`, `Texture`, `Applied`, `Failed`, `LoopExit` |

Deadlines, votes and the model's answers are choices: whatever a tick may find due,
it may find due now. `engine` is a state, the plan, its source and the generations
the motion (`gen`) and the run it plays in (`began`) were prepared in, both history; `EngineBegin` refuses a start that a
Stop overtook and `EngineLead`/`EngineCommit` a target of a run that is over or of a
plan that was replaced, which is what module MotionEngine shows of the real one.

### FanOut

A session of linked devices: `FanOutTransport` over one `LeasedTransport` per
device. A command (`op`) works on the snapshot `active`; `Send(p)` asks one
participant, `Judge` collects the failures and either retires one of them
(`RetireStop`) or latches the fault and stops everybody (`FailedLatch`,
`FailedStop`). A `Play` asks the clock's participant first. Diagnostics is another
goroutine (`Readers`): it reads every participant's state without the lock and
then retires those which it finds lost (`RetireLost`) or latches the fault. The
engine around it is `run`: it starts, plays, may cancel the command in flight and
owes a Stop when a command failed. A participant is `live`, `lost`, or `replaced` by
a new connection; `moving` and `strength` say what the devices do. `quiet` (what the
last Stop achieved), `silenced` (who has acknowledged the Stop of its retirement) and
`former` (who was connected again before the run began) are history.

A leased call has two parts: `Valid`, the lease's test (`leased.go:29`), and `Owner`,
the owner's call behind it. A connection may be replaced between them. All tests made
before the replacement pass and all tests after it fail, and nothing else depends on
when a test was made; so the model settles a test where it counts: `Replace(p)`
chooses, for each call on `p` in flight (`Calling` of the command, `Stopping` of
Diagnostics), whether it has passed its test already (`passed`, `rpc = "call"`), and
`Call` refuses the others. What the owner makes of such a late call is `Bound`: a
native Bluetooth, Coyote or vibrator owner compares its own connection again where it
writes and drops the command (a Stop may still return OK); a Cloud REST owner only
knows a key and sends it, to the device that has meanwhile been connected again. So
"Replacing the connection never lets delayed work reach the newly connected device"
(`leased.go:9`) is not quite so: in the run in which a Cloud device is connected
again, one call that had passed the lease does reach it. What does hold, and
`OldWorkIsFenced` says, is that this ends with the run: no later run of the session
sets a device in motion that was connected again before it.

### BluetoothBridge

The queue between a transport and a browser tab, and the gateway lease that ties
the tab to an account. `pending`, `inflight` and `acks` are the bridge's maps,
`received` what the tabs still hold. A handler is an HTTP request of a tab: it
passes the gateway's check under one lock and the bridge's section under another,
and every gap between the two is a step. `PollReply` may be lost, and
`Acknowledge` may come twice. `CheckLifetime` and `FinishLost` are the ticker,
`RemoveConnection` the removal of the engine's connection, `RequireAuthentication`
the switch to accounts. Waiters look again after every broadcast and after 250 ms,
so a waiter may look at any time.

### NativeBluetooth

`NativeBluetoothOwner` (`session`, `generation`, one setup at a time) and
`handyble.Session` (the gate held across writes, its generation, `activeStream`).
`BeginConnect`, `CloseOld`, `Dial`, `Initialize`, `Publish`, `Discard` are a setup.
`Dial` opens a link or finds none; a device that `NewSession` refuses has no session,
and its link stays open until `Discard`. `Initialize` ends well, with the link open
because the context ended before or during its Stop, or by failing the session;
what it sends (a Stop, the last will, the clock probe) has no other effect here, the
session being unknown to everybody else. `Disconnect`, `WaitConnecting`,
`StopRetired`, `CloseRetired` are the retirement of a connection; `SendCommand`,
`Execute`, `EnterGate`, `Written`, `WriteFails`, `Abandon` one RPC, whose context may end at any of them. A link is `device[s]`: the stream it has set
up. The gate of the transport is its outcome: a command that holds `hspMu` was
admitted when no Stop was in progress (module HandyTransport).

### LLMSlot, LLMScheduler, LLMRuntime

`LLMSlot` is the abstract specification: one slot, whose holder keeps it until it
gives it back and may be told to go, and which is not handed out during a change of
the configuration, nor to autonomous work while a chat turn asks. `LLMScheduler` is
`llmRequestCoordinator` with its flag, its counters and its channel; it implements
`LLMSlot` under the mapping `Slot` (the holder is the client the coordinator can
cancel, the chat turns that ask are the registered ones). `LLMRuntime` extends it by the
callers: turns that prepare a provider before they are admitted, the load handler
that reads settings after, autoloads, and the handlers that retire the model
(`SaveSettings`, `SavePolicy`, `RestartSelected`, `TerminateDuplicates`, `Unload`),
each of which stops the autoload, waits for it, closes the provider and starts the
autoload again. A configuration is the number of the save that made it.

### MC modules

`MCMotionEngine`, `MCControllerLease`, `MCCommandDelivery`, `MCModeManager` and
`MCBluetoothBridge` hold the symmetry sets of the safety runs, and the sessions of
the lease's tabs. `MCHandyTransport` lets one run choose a Cloud or a Bluetooth
connection for its whole behaviour (`cloud`). `MCFanOut`, `MCLLMRuntime` and
`MCNativeBluetooth` are plain instances.

### The proof modules

`ControllerLeaseProofs`, `CommandDeliveryProofs`, `MotionEngineProofs`,
`FanOutProofs`, `NativeBluetoothProofs`, `BluetoothBridgeProofs` and
`LLMRuntimeProofs` (which is also the development of LLMScheduler) extend the module
of their component. `StopFenceProofs` extends two, HandyTransport and ModeManager:
the command gate of a transport and the fence of the mode manager, which keep the
same promise with the same kind of counter at the two ends of a command's way. For
this the two modules share no name (`HandyInit`, `HandyNext`, `HandySpec`, `Nil`,
`place` in HandyTransport). See "Proofs".

## Runs

| Run | Configuration | Shows |
|---|---|---|
| `handy` | 2 callers, 1 Stop, 1 stream, Cloud or Bluetooth, fair | `DispatchIsFresh`, `FenceSpec` (refinement), `StopReturns` |
| `engine` | 2 requests; start, resume, target, refresh, pause, stop, reset; a slider that can be read; 2 runs or a run and an edit, 1 Stop | `NothingToResume`, `StopIsLast`, `NoOrphanMotion`, `PlanIsCurrent`, `NoSkippedChunk` |
| `engine_returns` | 2 requests; start, vibrate, pause, stop; 1 run, 1 Stop, 2 tries, fair | `RunIsAdmitted`, `EveryCallReturns` |
| `engine_never_starts` | start, target, pause | violates `NeverStartsMotion` |
| `lease_owners` | 1 local tab and 2 sessions, 1 request, 2 jobs; Stops, takeovers, losses and the switch to accounts; 2 generations | `LiveRequestIsOwners`, `StrayMotionIsStopped`, `SharedStopCovers` |
| `lease_returns` | 2 tabs of a session, takeovers and losses, fair | `AbandonedMotionStops`, `HandoffSettles` |
| `delivery` | 2 commands, 3 requests, 2 numbers, 2 generations, room for 2 receipts | `AppliedOnce`, `OneCommandPerSequence`, `MotionInOrder` |
| `modes` | 2 users, 3 modes, 14 kinds of call; 2 calls, 2 loops, 2 plans | `NoRevival`, `WorkIsCurrent`, `NewerMotionStands`, `ReturnEndsHold` |
| `fanout` | 2 devices, one a vibrator, 1 Diagnostics goroutine, 2 runs, 1 failure, fair | `StoppedMeansStill`, `NoHotJoin`, `OldWorkIsFenced`, `StartNeedsEveryone`, `LossIsNoticed` |
| `bridge` | 2 transports, 2 handlers, 2 tabs, a queue of one, 2 commands, 3 connection changes | `CommandOfSession`, `HandedInOrder`, `PlaybackIsLive`, `StoppingEnds` |
| `llm` | 1 request, 1 autoload, 1 saver, 1 other handler, 2 changes, fair | `ChatComesFirst`, `StreamIsCurrent`, `ActiveModelStays`, `SlotSpec` (refinement), `ChangesEnd`, `ChatGetsSlot` |
| `native` | 1 sender, 1 Emergency Stop, 1 Connect, 1 Disconnect; 2 links, 2 streams, 2 chunks | `NoOrphanLink`, `WrittenToItsStream`, `StopCancelsSetup` |

Bounds of the engine. Two requests and the loop are three goroutines, which is what
each hazard needs: one inside a call, one that stops, one loop. `MaxEdits` bounds the
engine's edit generation, which starts advance too: two of them are two runs, or a
run and a retarget that waited behind another. A Stop and a Pause that overlap both
raise the barrier, so one Stop suffices for overlapping barriers. `MaxTries`
replaces the code's 64, 6 and 3: what matters is that a loop can go round, succeed
and give up. The epochs are unsigned 64-bit counters in the code and do not wrap in
practice; the bounds `MaxGeneration`, `MaxEpoch`, `MaxStops` and `MaxEdits` cap them.
Where a bound disables a step, the code's own refusal (a cancelled request) stays
enabled, so no run of the engine stops at a bound.

Bounds of the lease. One request and two jobs are what an overlap of a handoff, a
loss and a delayed start needs, and what a leader and a follower of a shared Stop
need. A generation is spent by every change of ownership, so two suffice for a lease
that is lost and regained; beyond `MaxGeneration` clients start nothing new, while
everything under way goes on. A `TTL` of 0 ticks and a `TicketLife` of 1 put expiry
before, between and after the renewals. One ticket at a time is kept, so the runs
do not have two tickets whose lifetimes overlap; the proofs hold for any number.

Bounds of the delivery. Three requests carry two copies of one command and a newer
one, and the second command is always the one that could repeat the number or
overtake the reply of the first. Retention prunes receipts in the run; pruning for
capacity needs a third command and is not reached with room for two.

Bounds of the others. In `modes` two calls overlap each other, a loop of each mode
and its reaper, and two plans are what a decision and the one it overrides need; a
third call over a second loop's leftovers is not reached. Three calls of one loop,
two users and three kinds of call also pass for chat, start and mode stop; review,
chat and mode stop; hold, return and mode stop; pause, resume and mode stop; and chat,
settings and chat stop. The exception of `NoRevival` needs three: a chat turn, a mode
stop, and another chat turn that begins motion. In `fanout` two devices
are one that fails and one that stays, and a second run is needed for a retired
device to be started again, or for a replaced one to be reached by a later run; the
first device's owner is not `Bound`, the vibrator's is; two failures in a row are not
reached. A bridge queue
of one makes the second command meet a full queue, and three connection changes are a
connection, a loss and a new one. In `llm` the request and the autoload are the
two priorities, and two changes overlap. In `native` one Connect is enough, since
`connectingDone` refuses a second while one is under way, and two links are the old
and the new one; a Connect after a Disconnect comes from the order of the two.
`fanout`, `bridge` and `native` do not check deadlock: with nothing asked of them
they really do rest.

Fairness. A goroutine inside a method keeps running, because transport calls are
bounded by a context or a client timeout. Mutex acquisition is strongly fair:
Go's `sync.Mutex` hands the lock to a waiter starved for a millisecond. A loop's
exit is strongly fair: `select` chooses at random between a done context and a
tick, so it does not choose the tick for ever. Nobody is obliged to call a
method, and ticks are not obliged to come at any particular rate. In the lease,
the goroutine of a Stop goes on and gets `lifecycleMu` in the end, and the watchdog,
a ticker in its own goroutine, runs again and again; no client has to send
anything. In the fan-out, a command in flight is answered or times out, the engine
sends the Stop it owes, and the loop's ticker calls Diagnostics again and again. In
the model runtime, goroutines run on, a stream ends because the provider has a
timeout, and so does the context of an autoload (`llmAutoloadTimeout`); a request's
context need not end. Every other run is checked for safety only.

## Disagreements with the documentation

`engine_never_starts`: `engine.go:272` says that `ApplyTargetIfCurrent` "never
starts motion". `applyTarget` checks the run and decides on a promotion in two
separate sections of `mu`. A Pause that completes between them is overridden: the
promotion stops an engine that has nothing running and starts a run.

The rest of this section was met while modelling and is part of the models; no
run is kept for it.

* `engine.go:110` calls `LastSample` the accepted buffer tail, and ADR 0002 says that
  a failed chunk must not be skipped. When a refill needs several sampler windows and
  a later one is refused, `nextChunkThrough` returns the error without restoring
  `nextSampleMillis` and `lastSample`; the loop remembers the error and goes on
  behind the hole. `DenseContent = TRUE` models content with such a window, and
  violates `NoSkippedChunk`. With content every window of which can be sampled, the
  run `engine` shows that the timeline has no hole: a failed append always ends its
  run.
* `docs/controller-dispatch-semantics.md:24` says that a takeover runs the Emergency
  Stop "and only then assigns the lease". `CompleteTakeover` recognises its handoff by
  the actor alone. If the watchdog's `BeginLoss` clears the pending takeover of a slow
  request and the same tab asks again after another tab has taken control and moved,
  the first request completes the second handoff before the second request's Stop
  (three jobs and four generations). `StrayMotionIsStopped` holds in that state too:
  the second Stop is still ahead, so the motion ends, but the new owner holds the
  lease first.
* `command_motion.go:35` says that a reply "cannot apply an older motion intention
  after a newer accepted action". That lane is held for requests with a receipt; a
  local request without one passes it. A mode stop (`httpapi/modes.go:194`) leaves
  a chat turn in dispatch alone, and `ApplyTarget` (`chat_response_repair.go:179`)
  asks only that some motion runs: a target prepared before the stop adjusts motion that was
  begun after it. It never begins motion, so `NoRevival` bounds the generation of the run in
  every case and that of the target for every source but chat.
* `fanout.go:110` keeps the strength of an electrostimulation device on an ordinary
  Pause. A Pause, a Stop or a leaving client that cancels a command in flight is
  taken for the failure of the participant that command was with: `dispatchSelected`
  retires it, or latches the fault and sends a Stop with `Fault`. Only the
  vibration-only branch (line 212) looks at the context.
* `faultStopped` (`fanout.go:148`) stays set for the rest of a run once a Stop with
  `Fault` succeeded, so a fault that is latched later in that run does not turn its
  ordinary Stop into one with `Fault`.
* `bluetooth_gateway.go:244` says that a replacement gateway remains blocked until
  the worker of a lost one finishes. `removeHandyConnection` (`device_connections.go:98`)
  clears the gateway's lease and not its `stopping`. When it runs while a Disconnect or
  a lost lease is being ended, the goroutine that set the flag finds another lease, or
  none, and does not reset it: every later gateway is refused until the server is
  restarted. `RemoveConnection` models it, and `StoppingEnds` excludes this one state
  (`stranded`).
* Between `SendCommand`, which takes the session, and `Execute`, which captures the
  session's generation, a Disconnect may interrupt the session and write its Stop; a
  Play may follow that Stop before the link closes, if a new run began after the
  handler had stopped the engine. An Emergency Stop is not exposed: it waits for
  `hspMu` and writes its own Stop last.

## Proofs

`StopFenceProofs` proves of HandyTransport, for any sets of callers, streams and
(finitely many) stoppers, for any bound on the generations and for both transports,
from `HandyAssumption` only:

* `HandyTypeCorrect`: `HandySpec => []HandyTypeOK`;
* `GateFences`: `HandySpec => []DispatchIsFresh`;
* `GateCounts`: `HandySpec => []StopsCounted`;
* `StopIsFinal`: `HandySpec => []StopHolds`;
* `TransportImplementsFence`: `HandySpec => FenceSpec`, the refinement.

None of the three invariants after the first is inductive. The invariant `HandyInv` adds: who holds `hspMu`
(`LockInv`: exactly the goroutines between the lock and the deferred unlock); that
an admission is at most the current generation (`LoadInv`); that a caller which a
Stop has overtaken either has an older generation or sits behind a Stop that is
still in progress (`AgeInv`); and that the device is still while `quiet`
(`QuietInv`). The argument is the reason for the order in `beginStop`: the count is
raised before the generation advances, and `admit` reads them in the opposite
order, so a command admitted under an open gate carries a generation older than
every Stop that follows. `OpenGate` turns "the count is not positive" into "no
Stop is in progress" with the cardinality lemmas of FiniteSetTheorems. In the
refinement only the test of an open gate is the abstract `Admit`, and a Stop is the
abstract `Stop` at the moment it reaches the device, not when it raises the gate; a
request that reaches the device is `TakeEffect`, which is where `DispatchIsFresh` is
needed (`FenceActs`); every other step is a `Leave` or invisible (`FenceWaits`).

It proves of ModeManager, for any finite set of requests, any modes and kinds of
call, any number of loops from one on, of calls and of plans, from `ModesAssumption`
only:

* `TypeCorrect`: `Spec => []TypeOK`;
* `AtMostOneLoop`: `Spec => []OneLoop`;
* `StoppedWorkStays`: `Spec => []NoRevival`;
* `LoopsWorkIsCurrent`: `Spec => WorkIsCurrent` (an action property, like the next two);
* `NewerMotionIsKept`: `Spec => NewerMotionStands`;
* `ReturnReplacesTheHold`: `Spec => ReturnEndsHold`.

`NoRevival` says that what plays, or may be resumed, is not older than the last Stop.
To be inductive it needs everything that is on its way to the engine, and the
invariant `IInv` has a part for each way a Stop can be overtaken:

* `EngineInv`: a barrier and a run exclude each other, a Stop in progress has emptied
  the engine, and what a pause under way may still mark as paused counts as playing.
* `ArrivalInv`: a start that is still admitted began after every Stop under way; a
  target that is bound to the run, or a guarded one whose plan is still the current
  one, is not older than the Stop that ended the run before.
* `WorkInv`: a loop that works and whose operation nobody has revoked works in the
  current generation, of a mode that is neither stopped nor paused nor in a handoff.
  It holds because every section of `Manager.mu` that makes a loop's work stale also
  revokes the operation (`cancelOperationLocked`): `Orderly` says so of a section,
  and is proved of each of the section operators once, not of each action. A loop
  that is still live at the engine is therefore newer than every Stop (`LiveWork`).
* `PlanInv`: a plan names one motion, so a hold, a return or a reconciliation that has
  kept its number knows whose motion it replaces. `HoldInv` says it of the hold.
* `LoopInv`: the loop that lives is the installed one, or the one for which the holder
  of `lifecycleMu` waits; run goroutines are used in their order.
* `PlaceInv`: each goroutine stands in its call, holds the locks of that place and
  works for no generation that is yet to come; `StateOK` and `GenInv` are the types
  and the order of the counters. `ManagerOK` says what a section relies on alone: the
  pause latch is what the intents say, and a hold whose return is decided belongs to
  a mode that was not stopped.

The proof is organised by what a step disturbs. A step away from the engine is a
request's (`RequestStep`), one that takes or returns `lifecycleMu`
(`LifecycleStep`), or a loop's (`LoopSectionStep`), and has to account for the
goroutines that moved (`PlaceFrame`, `WorkFrame`, `EngineFrame`, `PlanFrame`). A step
of the engine keeps the plan (`EngineKeeps`) or names a new one (`EngineRenews`). The
three action properties then ask who can be about to start or commit: nobody but the
engine's own step moves such a goroutine (`OnlyTheEngine`).

`ControllerLeaseProofs` proves, for any sets of actors, local actors, requests and
(finitely many) jobs, any causes and any lifetimes, from `LeaseAssumption` only:

* `LeaseTypeCorrect`: `Spec => []TypeOK`;
* `RequestsAreOwners`: `Spec => []LiveRequestIsOwners`;
* `NoStrayMotion`: `Spec => []StrayMotionIsStopped`;
* `OneLoss`: `Spec => []LossIsFenced`;
* `SharedReplyIsTrue`: `Spec => []SharedStopCovers`;
* `ExpiryIsFinal`: `Spec => ExpiredStaysExpired` (an action property).

Its invariant `IInv` adds: a bound request has an undisturbed owner (`BoundInv`); a
session's request is bound before it is admitted and, unless canceled, still bound
and of the current generation (`RequestInv`); which kinds of Stop may stand where
(`JobInv`); motion that is not an undisturbed owner's has a Stop ahead of it
(`MotionInv`, stronger than `StrayMotionIsStopped` because a handoff that has not
changed the owner yet must have its Stop ahead already); and, while a Stop holds
the engine, nothing moves, no admission is valid and every Stop that has
invalidated work has seen the engine still (`EngineInv`). The argument for the
first theorem is that every section which changes the owner, the generation or a
fence also calls `cancelRequestsLocked`. The argument for shared replies is that
`complete` publishes the outcome before `lifecycleMu` is released: between
`StopEngine` and that moment `EngineInv` makes every waiter's reply true. The
invariants were checked with TLC on small instances with sessions, with local tabs
and with three Stops sharing a batch before they were proved.

`CommandDeliveryProofs` proves, for any finite set of commands, any requests and any
bounds, from `DeliveryAssumption` only:

* `DeliveryTypeCorrect`: `Spec => []TypeOK`;
* `NothingIsRepeated`: `Spec => []AppliedOnce`;
* `NumbersAreUsedOnce`: `Spec => []OneCommandPerSequence`;
* `ReceiptsLast`: `Spec => []RunningHasReceipt`;
* `MotionKeepsOrder`: `Spec => MotionInOrder` (an action property).

The receipts alone cannot carry the first one, since they are pruned. What does is
the number: `begin` admits a command only beyond the last number of its generation
(`NumberInv`), so what has begun never begins again, with or without its receipt, and
no two that have begun share a number (`DistinctInv`). Receipts are needed while a
command runs, where the number cannot tell its copies apart (`OneRequestInv` with
`RunningHasReceipt`). Motion keeps the lane from `begin` to its effect, and a reply's
motion from its check on, so `motionSequence` is its own number when it takes effect
(`CurrentInv`), and what took effect before has a smaller one (`MarkInv`).

`MotionEngineProofs` proves, for any finite set of requests, any subset of the
operations, any bounds, with and without positions, from `EngineAssumption` only:

* `EngineTypeCorrect`, `BarriersAreCounted` (`[]BarriersCounted`),
  `BarrierShutsRunsOut` (`[]BarrierExcludesRun`);
* `StopHasTheLastWord`: `Spec => []StopIsLast`;
* `MotionHasAnOwner`: `Spec => []NoOrphanMotion`;
* `StopLeavesNothingToResume`: `Spec => []NothingToResume`;
* `RunsAreAdmitted`: `Spec => []RunIsAdmitted`;
* `RetargetsAreCurrent`: `Spec => []PlanIsCurrent`;
* `ChunksAreNotSkipped`: `~DenseContent => (Spec => []NoSkippedChunk)`. With dense
  content the property is false (see above), so that is its hypothesis.

A section of `mu` that ends a run raises `stopBarriers`, and `begin` wants them down:
while anybody is inside a stop no run is active (`BarriersCounted`, `RunInv`). The
part that took strengthening is a command that `contextForRun` validated and whose
run ended meanwhile. `SendInv` says that somebody who ended a run is then waiting
for `commandMu`, which the command holds (`LockInv`), to send a Stop behind it. With
it `DeviceInv` is inductive: a device which executes a stream is the business of an
active run, of a stop on its way, or of a Stop that was reported failed. `reset`
ends a run too and sends no Stop, so `SendInv` must not count on it. `StartupInv`
(one startup at a time for a run, and its loop not launched), `EditInv` (an edit that
is still valid has held `targetMu` since it looked at the plan), `CompletingInv` and
`GapInv` carry the rest.

`FanOutProofs` proves, for any number of participants and readers, from
`FanOutAssumption` only:

* `FanOutTypeCorrect`;
* `StopLeavesStill`: `Spec => []StoppedMeansStill`;
* `RetiredStaysStill`: `Spec => NoHotJoin` (an action property);
* `ReplacedStaysStill`: `Spec => OldWorkIsFenced` (an action property);
* `RetireKeepsSomeone`: `Spec => []SomeoneHealthy` of an established run;
* `PlayNeedsEveryone`: `Spec => StartNeedsEveryone` (an action property).

`retire` asks for `f.playing`, which is down from a Stop until Play's return, so while
a Play calls its snapshot nobody of it is retired (`RunInv`, `SnapshotInv`), and it
sets nobody in motion who has acknowledged the Stop of its retirement
(`RetiredInv`). Whoever answered a Stop in progress stays still until the next Play
(`AnsweredInv`). `HealthyInv` is why two retirements, by dispatch and by Diagnostics,
cannot leave an established run with nobody: each asks for another healthy
participant in the section of the session's lock that takes its own out. `FenceInv`
is about the calls that passed their lease before it was replaced: the command in
flight is making them (`passed \subseteq Calling`), and none of them is on a device
that was replaced before the run. A run begins between two commands, when every call
has returned, and this makes it inductive; `OnlyPlayBegins` says that nothing but a
Play's call of its snapshot, through a lease that let it pass, starts a device.

`NativeBluetoothProofs` proves, for any senders, stoppers, connects and disconnects
and any bounds, from `NativeAssumption` only:

* `NativeTypeCorrect`;
* `OvertakenSetupStays`: `Spec => StopCancelsSetup` (an action property);
* `OpenLinksAreHeld`: `Spec => []NoOrphanLink`;
* `PointsFindTheirStream`: `Spec => []WrittenToItsStream`.

The first two need only the setups and links (`SetupInv`: a setup of the current
generation is the one `cancel` names; `LinkInv`: an open link is the owner's or has a
goroutine that publishes or closes it, and the session of a setup is known to nobody
else from `Dial` to its end). `NoOrphanLink` names those goroutines: a Connect that has
not come to its deferred part, or a Disconnect. The last is the longest argument of the
project. The session's belief that a stream is set up may be wrong (`Stale`): the
Stop of a command that had passed `Interrupt` wipes the device behind it, and a setup
whose context ended may have been written after all. `MatchInv` says that no command
of a stale stream comes to the gate any more: in the owner's session it is not the
last stream, which is the one a new command carries, and no command under way that
may still come to the gate carries it. It needs `CallInv` (who
has `hspMu`, and that a session is used with one generation only), `StreamInv`
(streams only grow, and a Stop in progress is later than every one in use), `GateInv`
and `RetiredInv` (a Disconnect finds a stream in an interrupted session only by the
command that was writing).

`BluetoothBridgeProofs` proves, for any callers, handlers and tabs, any limit of the
queue and of a batch, from `BridgeAssumption` only:

* `BridgeTypeCorrect`, with `Len(pending) <= QueueLimit`;
* `CommandsStayInSession`: `Spec => []CommandOfSession`;
* `CommandsInOrder`: `Spec => []HandedInOrder`;
* `ReportsAreLive`: `Spec => []PlaybackIsLive`;
* `GatewayIsEnded`: `Spec => []StoppingEnds`.

`Ordered(pending, Taken)` adds that the queue is in the order of its numbers and later
than all that was handed out or sits in a reply; without the replies a poll that
has taken its batch and not answered would break it. `DownInv` says that a link that
is down holds nothing, so a new session starts empty. The sections of the bridge's
`mu` are alike to all of this, and the proof has one lemma for them (`Keeps`), one for
the moves of a handler and one for the gateway, instead of one argument per action.

`LLMRuntimeProofs` proves of the coordinator, for any finite set of clients, from
`ClientsAssumption` only:

* `SchedulerTypeCorrect`: `Spec => []SchedulerTypeOK`;
* `CoordinatorCounts`: `Spec => []WaitersCounted`;
* `ChatHasPrecedence`: `Spec => []ChatComesFirst`;
* `LeasesAreCurrent`: `Spec => []LiveLeaseIsCurrent`;
* `CoordinatorImplementsSlot`: `Spec => SlotSpec`, the refinement.

Its invariant adds `Locals`: what a client's local variables can be at each place
of `acquire`, in particular that only an interactive client that has not returned is
registered. With it, every decrement of the counter has its increment, so the
counter is the cardinality of the registered clients and never below it; the flag
names the one holder, so `Admit` and `ReleaseSlot` are the abstract `Grant` and
`GiveBack`; and an autonomous holder is cancelled by the first chat turn that
registers, and nobody autonomous is admitted after. `LiveLeaseIsCurrent` is part of
the induction because a settings transition cancels the holder in the section that
advances the generation.

And of the server around it, for any requests, autoloads, savers and other handlers
(finitely many), from `RuntimeAssumption`:

* `RuntimeUsesCoordinator`: `RuntimeSpec => Spec`: the server uses the coordinator
  as LLMScheduler says, so the theorems above hold in it;
* `RuntimeTypeCorrect`: `RuntimeSpec => []RuntimeTypeOK`;
* `StreamsAreCurrent`: `RuntimeSpec => []StreamIsCurrent`;
* `ModelStaysUnderTurn`: `RuntimeSpec => []ActiveModelStays`;
* `TransitionsRunAlone`: `RuntimeSpec => []TransitionsAreAlone`: between `beginChange`
  and `finishChange` nobody streams who was not told to stop.

`StreamIsCurrent` speaks of clients that stream; what is inductive is
`CheckedIsCurrent`, of all that are past their check. `ChangesCounted` ties the
coordinator's `changing` to the handlers between `beginChange` and `finishChange`, so
one that finishes does not admit anybody under another; `PreparedBefore` is what makes
a provider prepared before a retirement unusable for ever.

Every invariant above was checked with TLC on the instances of the runs, or smaller
ones, before it was proved. The assumptions are of two kinds: that sets which a
counter counts are finite, and that the sorts of model values differ from each other
and from numbers (`None` is no goroutine). Bounds are natural numbers, positive only
where the code's own constant is (a queue has room, a batch has one command).

Proved and checked by a run: `DispatchIsFresh`, `FenceSpec`, `NoRevival`,
`WorkIsCurrent`, `NewerMotionStands`, `ReturnEndsHold`, `LiveRequestIsOwners`,
`StrayMotionIsStopped`, `SharedStopCovers`, `AppliedOnce`, `OneCommandPerSequence`,
`MotionInOrder`, `StopIsLast`, `NoOrphanMotion`, `NothingToResume`, `RunIsAdmitted`,
`PlanIsCurrent`, `NoSkippedChunk`, `StoppedMeansStill`, `NoHotJoin`,
`OldWorkIsFenced`, `StartNeedsEveryone`, `StopCancelsSetup`, `NoOrphanLink`,
`WrittenToItsStream`, `CommandOfSession`, `HandedInOrder`, `PlaybackIsLive`,
`StoppingEnds`, `ChatComesFirst`, `SlotSpec`, `StreamIsCurrent` and
`ActiveModelStays`. Proved, and repeated by no run: the type invariants of these
modules, `StopHolds`, `StopsCounted`, `OneLoop`, `LossIsFenced`, `ExpiredStaysExpired`, `RunningHasReceipt`,
`BarriersCounted`, `BarrierExcludesRun`, `SomeoneHealthy`, `WaitersCounted`,
`LiveLeaseIsCurrent` and `TransitionsAreAlone`.

Only model-checked:

* all liveness, since fairness and ENABLED are outside this prover: `StopReturns`,
  `EveryCallReturns`, `AbandonedMotionStops`, `HandoffSettles`, `LossIsNoticed`,
  `ChangesEnd`, `ChatGetsSlot`;
* the disagreement of `engine_never_starts`.

## Plan

Done: all ten components of "Modules", modelled, checked and proved: every safety
property that a passing run checks is also a theorem.

Left, in this order:

1. The same fence one level up: DeviceFence stated for MotionEngine and
   ControllerLease, whose theorems say it of each in their own terms.
2. Engine replacement and the pause and retarget handlers; the remote hub; the
   Intiface and Coyote transports; the voice supervisor; media synchronisation.

## Not modelled

Out of reach: planning geometry and sampling (floating point, pure). Not protocols:
wire encodings, prompts and the parsing of model output, storage (the database's
transactions), settings validation, accounts and network policy, diagnostics,
installers, simulators and the web client. Left for later: the Intiface and Coyote
transports, media synchronisation, the voice supervisor, the remote hub, and the
handlers that replace the engine.

Inside the modelled parts: `CheckConnection`, the server-clock estimate and point
encoding of the Handy transports; the positioning loop of linked devices and the
lead-ins of their single sliders; the clock probe, the reported playback state and
the wait for a link's close in the native session; connecting and disposing of a
named Handy, which FanOut takes as one step of its environment; what
the autopilot chooses; and the bodies of commands everywhere. `PROJECT.json` lists
every component with its status.
