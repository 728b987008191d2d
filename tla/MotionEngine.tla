---------------------------- MODULE MotionEngine ----------------------------
(***************************************************************************)
(* internal/motion: the engine that owns one motion loop and one device.   *)
(*                                                                         *)
(* Requests are goroutines inside an exported method (Start, Resume,       *)
(* ApplyTarget, RefreshSettings, ApplyVibration, Pause, Stop,              *)
(* ResetStartupPosition).  Loop k is the dispatch goroutine of run k.      *)
(* The three mutexes are modelled as the code uses them: mu guards a       *)
(* section of code that is one step here, commandMu is held across a       *)
(* transport call, targetMu across a whole target operation.  A transport  *)
(* call is two steps: the command is admitted under commandMu, and later   *)
(* its outcome is known and commandMu is released; in between every other  *)
(* goroutine may run any section that only needs mu.                       *)
(*                                                                         *)
(* The transport is external: a command may succeed, fail without effect,  *)
(* or take effect and report a failure.  Cancelling a context never        *)
(* prevents a command that is already in flight from taking effect.        *)
(***************************************************************************)
EXTENDS Integers, FiniteSets

CONSTANTS
  Requests,        \* request goroutines
  None,            \* no goroutine
  Operations,      \* the engine methods that requests call
  Positioned,      \* the transport can read the slider (MotionStartupStateProvider)
  DenseContent,    \* content with a window the sampler refuses after an accepted one
  MaxEpoch,        \* bound on the runs of a behaviour
  MaxStops,        \* bound on the Stops of a behaviour
  MaxEdits,        \* bound on e.generation
  MaxTries         \* bound of every retry loop (64 appends, 6 or 3 reads in the code)

Loops   == 1 .. MaxEpoch
Workers == Requests \cup Loops

AllOperations == {"start", "resume", "target", "refresh", "vibrate", "pause", "stop", "reset"}

ASSUME EngineAssumption ==
  /\ IsFiniteSet(Requests)
  /\ Requests \cap Nat = {}
  /\ None \notin Requests \cup Nat
  /\ Operations \subseteq AllOperations
  /\ Positioned \in BOOLEAN
  /\ DenseContent \in BOOLEAN
  /\ MaxEpoch \in Nat
  /\ MaxStops \in Nat
  /\ MaxEdits \in Nat
  /\ MaxTries \in Nat

VARIABLES
  running, starting, completing, paused,   \* Engine fields of the same names
  runEpoch, stopGeneration, stopBarriers,
  linearStartPending,
  generation,      \* counts plan edits; names the plans
  planID,          \* the generation the installed plan was named after
  only,            \* the installed plan is VibrationOnly
  gap,             \* nextSampleMillis has passed samples that nobody accepted
  recovery,        \* startupRecovery: the run that failed to position, or 0
  resetting,       \* the request that holds startupResetCancel, or None
  done,            \* e.done: the loop whose channel is installed, or 0
  cancelled,       \* runs, and resets, whose context is cancelled
  commandMu, targetMu,
  at,              \* where each goroutine stands, and its local variables
  device,          \* external: the run whose stream the device executes, or 0
  stopFailed,      \* external: the last transport Stop reported a failure
  fenced,          \* history: runs up to this one were stopped on the wire
  pausedAt,        \* history: the Stop epoch the last pause was admitted in
  admittedAt       \* history: the Stop epoch the last run was admitted in

flags   == <<running, starting, completing, paused>>
epochs  == <<runEpoch, stopGeneration, stopBarriers>>
plan    == <<generation, planID, only, gap>>
resets  == <<recovery, resetting>>
loopRef == <<done, cancelled>>
wire    == <<device, stopFailed, fenced>>
history == <<pausedAt, admittedAt>>

vars == <<flags, epochs, linearStartPending, plan, resets, loopRef, commandMu, targetMu,
          at, wire, history>>

(* The commands of a startup, in the order startAtGeneration and           *)
(* prepareMotionStartup issue them, and those of the other operations.     *)
StartupCommands == {"stop", "read", "unionWindow", "leadIn", "leadPlay", "arrive",
                    "leadStop", "verify", "window", "points", "play"}
Commands == StartupCommands \cup {"lead", "settingsWindow", "editPoints", "append", "vibration"}

(* The appends that advance the sampler (dispatchThrough).                 *)
Appends == {"points", "lead", "editPoints", "append"}

Halts == {"stop", "pause", "recovery", "abort", "complete", "reset"}

PCs == {"idle", "begin", "health", "command", "send", "launch", "abort", "restore",
        "targetLock", "edit", "takeover", "commit", "vibrate", "vibrateFault",
        "halt", "halting", "resetCall", "resetRead", "resetEnd", "return", "none", "select", "exited"}

(* A goroutine's local state: the method, the run it validated against, the *)
(* Stop epoch it was admitted in, the plan, edit or failure it names, its   *)
(* command, why and for which loop it waits in a stop, the tries of a retry *)
(* loop, and a verdict: a startup's slider did not arrive, a reset's did.   *)
(* late is history: a promotion's Stop found the run it had checked over.   *)
Idle == [pc |-> "idle", op |-> "none", epoch |-> 0, admission |-> 0, want |-> 0,
         cmd |-> "none", halt |-> "none", awaits |-> 0, tries |-> 0, verdict |-> FALSE, late |-> FALSE]

Frames == [pc : PCs, op : AllOperations \cup {"promote", "loop", "none"},
           epoch : 0 .. MaxEpoch, admission : Nat, want : Nat,
           cmd : Commands \cup {"none"}, halt : Halts \cup {"none"},
           awaits : 0 .. MaxEpoch, tries : Nat, verdict : BOOLEAN, late : BOOLEAN]

TypeOK ==
  /\ running \in BOOLEAN /\ starting \in BOOLEAN /\ completing \in BOOLEAN /\ paused \in BOOLEAN
  /\ runEpoch \in 0 .. MaxEpoch /\ stopGeneration \in Nat /\ stopBarriers \in Nat
  /\ linearStartPending \in BOOLEAN
  /\ generation \in Nat /\ planID \in Nat /\ only \in BOOLEAN /\ gap \in BOOLEAN
  /\ recovery \in 0 .. MaxEpoch /\ resetting \in Requests \cup {None}
  /\ done \in 0 .. MaxEpoch /\ cancelled \subseteq Workers
  /\ commandMu \in Workers \cup {None} /\ targetMu \in Requests \cup {None}
  /\ at \in [Workers -> Frames]
  /\ device \in 0 .. MaxEpoch /\ stopFailed \in BOOLEAN /\ fenced \in 0 .. MaxEpoch
  /\ pausedAt \in Nat /\ admittedAt \in Nat

Init ==
  /\ running = FALSE /\ starting = FALSE /\ completing = FALSE /\ paused = FALSE
  /\ runEpoch = 0 /\ stopGeneration = 0 /\ stopBarriers = 0
  /\ linearStartPending = FALSE
  /\ generation = 0 /\ planID = 0 /\ only = FALSE /\ gap = FALSE
  /\ recovery = 0 /\ resetting = None
  /\ done = 0 /\ cancelled = {}
  /\ commandMu = None /\ targetMu = None
  /\ at = [g \in Workers |->
             IF g \in Requests THEN Idle
             ELSE [Idle EXCEPT !.pc = "none", !.op = "loop", !.epoch = g]]
  /\ device = 0 /\ stopFailed = FALSE /\ fenced = 0
  /\ pausedAt = 0 /\ admittedAt = 0

-----------------------------------------------------------------------------
(* validateRunLocked.                                                      *)
Valid(g) == running /\ runEpoch = at[g].epoch

(* Goroutine g leaves "from" with the local state f.                       *)
Step(g, from, f) == at[g].pc = from /\ at' = [at EXCEPT ![g] = f]
Goto(g, from, to) == Step(g, from, [at[g] EXCEPT !.pc = to])

(* A request that calls method o.                                          *)
Called(g, o, to) == [Idle EXCEPT !.pc = to, !.op = o]

(* An operation that unlocks targetMu in a defer has a return step; a loop *)
(* returns to its select.  Locals are forgotten on the way.                *)
Returned(g) ==
  IF at[g].op \in {"target", "promote", "refresh", "vibrate"}
    THEN [Idle EXCEPT !.pc = "return", !.op = at[g].op] ELSE Idle

(* Where an error takes the caller of a command: a startup is aborted, a   *)
(* loop goes on with its tick, the other operations return.                *)
Failed(g) ==
  CASE at[g].op \in {"start", "resume", "promote"} -> [at[g] EXCEPT !.pc = "abort"]
    [] at[g].op = "loop" /\ at[g].cmd = "append"   -> [at[g] EXCEPT !.pc = "vibrate"]
    [] at[g].op = "loop" /\ at[g].cmd # "append"   -> [at[g] EXCEPT !.pc = "select", !.cmd = "none"]
    [] OTHER                                       -> Returned(g)

(* endStopBarrierLocked saturates at zero.                                 *)
endStopBarrier == stopBarriers' = IF stopBarriers > 0 THEN stopBarriers - 1 ELSE 0

(* Mutant: the context of the run is not cancelled.                        *)
EndRunUncancelled ==
  /\ running' = FALSE /\ starting' = FALSE
  /\ done' = 0
  /\ UNCHANGED cancelled

(* The run in progress ends: its flags drop, its handles are taken from    *)
(* the engine and its context is cancelled.                                *)
EndRun ==
  /\ running' = FALSE /\ starting' = FALSE
  /\ cancelled' = cancelled \cup {runEpoch}
  /\ done' = 0

(* A transport Stop, sent on a detached context while commandMu is held:   *)
(* acknowledged, or failed with or without effect.  It is the last word    *)
(* for every run that has begun.                                           *)
TransportStop(ok) ==
  /\ device' \in IF ok THEN {0} ELSE {0, device}
  /\ stopFailed' = ~ok
  /\ fenced' = runEpoch

-----------------------------------------------------------------------------
(* Start: the caller takes its admission, and begin refuses it when a Stop *)
(* has come since, when the run is not over, or when its context ended.    *)
StartAdmission(g) ==
  /\ Step(g, "idle", [Called(g, "start", "begin") EXCEPT !.admission = stopGeneration])
  /\ UNCHANGED <<flags, epochs, linearStartPending, plan, resets, loopRef, commandMu, targetMu,
                 wire, history>>

(* A promotion counts its own Stop.                                        *)
Admission(g) == at[g].admission + (IF at[g].op = "promote" THEN 1 ELSE 0)

(* Mutants: begin overlooks a Stop since the admission, or in progress.    *)
BeginUnadmitted(g) == (linearStartPending => at[g].op = "promote") /\ ~running /\ ~completing /\ stopBarriers = 0

BeginDuringStop(g) ==
  /\ stopGeneration = Admission(g)
  /\ linearStartPending => at[g].op = "promote"
  /\ ~running /\ ~completing

BeginAdmitted(g) ==
  /\ stopGeneration = Admission(g)
  /\ linearStartPending => at[g].op = "promote"
  /\ ~running /\ ~completing /\ stopBarriers = 0

BeginRefused(g) ==
  /\ Step(g, "begin", Returned(g))
  /\ UNCHANGED <<flags, epochs, linearStartPending, plan, resets, loopRef, commandMu, targetMu,
                 wire, history>>

(* prepareMotionStartup decides the first command of the startup.          *)
FirstCommand(vibrationOnly) ==
  CASE vibrationOnly -> [pc |-> "health", cmd |-> "points"]
    [] ~vibrationOnly /\ ~Positioned -> [pc |-> "command", cmd |-> "window"]
    [] ~vibrationOnly /\ Positioned  -> [pc |-> "command", cmd |-> "stop"]

Startup(g, o, admitted, vibrationOnly) ==
  [Idle EXCEPT !.pc = FirstCommand(vibrationOnly).pc, !.cmd = FirstCommand(vibrationOnly).cmd,
               !.op = o, !.epoch = runEpoch + 1, !.admission = admitted, !.late = at[g].late]

(* A run is installed: the fields begin and beginResume both assign.       *)
InstallRun ==
  /\ runEpoch < MaxEpoch /\ generation < MaxEdits
  /\ running' = TRUE /\ starting' = TRUE
  /\ runEpoch' = runEpoch + 1
  /\ generation' = generation + 1 /\ planID' = generation + 1
  /\ gap' = FALSE
  /\ done' = 0
  /\ recovery' = 0

Begin(g, vibrationOnly) ==
  /\ BeginAdmitted(g)
  /\ at[g].op = "promote" => ~vibrationOnly
  /\ InstallRun
  /\ paused' = FALSE /\ completing' = FALSE
  /\ only' = vibrationOnly
  /\ admittedAt' = Admission(g)
  /\ Step(g, "begin", Startup(g, at[g].op, at[g].admission, vibrationOnly))
  /\ UNCHANGED <<stopGeneration, stopBarriers, linearStartPending, resetting, cancelled,
                 commandMu, targetMu, wire, pausedAt>>

(* The plan does not compile: the pause it replaced is gone all the same.  *)
BeginUncompiled(g) ==
  /\ BeginAdmitted(g)
  /\ runEpoch < MaxEpoch /\ generation < MaxEdits
  /\ runEpoch' = runEpoch + 1 /\ generation' = generation + 1
  /\ paused' = FALSE /\ recovery' = 0 /\ done' = 0
  /\ Step(g, "begin", Returned(g))
  /\ UNCHANGED <<running, starting, completing, stopGeneration, stopBarriers, linearStartPending,
                 planID, only, gap, resetting, cancelled, commandMu, targetMu, wire, history>>

(* beginResume keeps the paused target and takes no admission: it records  *)
(* the Stop epoch it started in for restorePaused.                         *)
ResumeAdmitted == ~running /\ ~completing /\ stopBarriers = 0 /\ paused

BeginResume(g) ==
  /\ ResumeAdmitted
  /\ InstallRun
  /\ paused' = FALSE
  /\ admittedAt' = stopGeneration
  /\ Step(g, "idle", Startup(g, "resume", stopGeneration, only))
  /\ UNCHANGED <<completing, stopGeneration, stopBarriers, linearStartPending, only, resetting,
                 cancelled, commandMu, targetMu, wire, pausedAt>>

BeginResumeUncompiled(g) ==
  /\ ResumeAdmitted
  /\ at[g].pc = "idle"
  /\ runEpoch < MaxEpoch /\ generation < MaxEdits
  /\ runEpoch' = runEpoch + 1 /\ generation' = generation + 1
  /\ recovery' = 0 /\ done' = 0
  /\ UNCHANGED <<flags, stopGeneration, stopBarriers, linearStartPending, planID, only, gap,
                 resetting, cancelled, commandMu, targetMu, at, wire, history>>

-----------------------------------------------------------------------------
(* ensurePlaybackHealthy, then the caller's decision whether the buffer    *)
(* already covers its lead: a startup always sends, a target edit goes on  *)
(* to its commit, a loop to the rest of its tick.                          *)
HealthyNext(g) ==
  CASE at[g].cmd = "lead"   -> {"command", "commit"}
    [] at[g].cmd = "append" -> {"command", "vibrate"}
    [] OTHER                -> {"command"}

Healthy(g) ==
  /\ Valid(g)
  /\ \E to \in HealthyNext(g) : Goto(g, "health", to)
  /\ UNCHANGED <<flags, epochs, linearStartPending, plan, resets, loopRef, commandMu, targetMu,
                 wire, history>>

Invalidated(g) ==
  /\ ~Valid(g)
  /\ Step(g, "health", Failed(g))
  /\ UNCHANGED <<flags, epochs, linearStartPending, plan, resets, loopRef, commandMu, targetMu,
                 wire, history>>

(* Mutant: no barrier, and no Stop at all.                                 *)
RecoveryWithoutStop(g) ==
  /\ Valid(g)
  /\ EndRun
  /\ at' = [at EXCEPT ![g] = Failed(g)]
  /\ UNCHANGED <<completing, paused, epochs>>

(* prepareRecovery: the run is over before anyone waits.  A request waits  *)
(* for the loop it took the channel of, the loop itself does not.          *)
PrepareRecovery(g) ==
  /\ Valid(g)
  /\ stopBarriers' = stopBarriers + 1
  /\ EndRun
  /\ at' = [at EXCEPT ![g].pc = "halt", ![g].halt = "recovery",
                      ![g].awaits = IF g \in Loops THEN 0 ELSE done]
  /\ UNCHANGED <<completing, paused, runEpoch, stopGeneration>>

(* Diagnostics report a paused, starved or rejected stream.                *)
Unhealthy(g) ==
  /\ at[g].pc = "health"
  /\ PrepareRecovery(g)
  /\ UNCHANGED <<linearStartPending, plan, resets, commandMu, targetMu, wire, history>>

(* The first half of every transport call: commandMu is taken and the run  *)
(* validated (contextForRun); an append also takes its chunk from the      *)
(* sampler.  A caller whose run is over gives commandMu back.              *)
AdmitCommand(g) ==
  /\ commandMu = None
  /\ IF Valid(g) THEN Goto(g, "command", "send") /\ commandMu' = g
                 ELSE Step(g, "command", Failed(g)) /\ UNCHANGED commandMu
  /\ UNCHANGED <<flags, epochs, linearStartPending, plan, resets, loopRef, targetMu, wire, history>>

(* nextChunkThrough fails.  A failure in a later window of the same chunk  *)
(* leaves nextSampleMillis behind the windows already taken.               *)
SampleFailed(g) ==
  /\ commandMu = None
  /\ Valid(g) /\ at[g].cmd \in Appends
  /\ Step(g, "command", Failed(g))
  /\ gap' \in IF DenseContent THEN {gap, TRUE} ELSE {gap}
  /\ UNCHANGED <<flags, epochs, linearStartPending, generation, planID, only, resets, loopRef,
                 commandMu, targetMu, wire, history>>

(* What follows a successful command: the next command of its operation.   *)
(* readStationaryStartupState and waitForStartupArrival read again while   *)
(* the slider moves; an already positioned slider skips the lead-in; the   *)
(* union window may be the final one; prebufferBeforePlay and              *)
(* ensureLeadBuffer may ask for more.                                      *)
NextCommand(g) ==
  LET cmd == at[g].cmd
      to(p, c) == [at[g] EXCEPT !.pc = p, !.cmd = c, !.tries = 0]
      again(p) == [at[g] EXCEPT !.pc = p, !.tries = @ + 1]
      reread   == IF at[g].tries + 1 < MaxTries THEN {again("command")} ELSE {}
  IN CASE cmd = "stop"           -> {to("command", "read")}
       [] cmd = "read"           -> {to("command", "unionWindow"), to("command", "window")} \cup reread
       [] cmd = "unionWindow"    -> {to("command", "leadIn")}
       [] cmd = "leadIn"         -> {to("command", "leadPlay")}
       [] cmd = "leadPlay"       -> {to("command", "arrive")}
       [] cmd = "arrive"         -> {to("command", "leadStop")} \cup reread
       [] cmd = "leadStop"       -> {to("command", "verify")}
       [] cmd = "verify"         -> {to("command", "window"), to("health", "points")}
       [] cmd = "window"         -> {to("health", "points")}
       [] cmd = "points"         -> IF at[g].tries < MaxTries
                                      THEN {to("command", "play"), again("health")} ELSE {Failed(g)}
       [] cmd = "play"           -> {to("launch", "play")}
       [] cmd = "lead"           -> IF at[g].tries + 1 < MaxTries THEN {again("health")} ELSE {Failed(g)}
       [] cmd = "settingsWindow" -> {to("health", "editPoints")}
       [] cmd = "editPoints"     -> {Returned(g)}
       [] cmd = "append"         -> {to("vibrate", "append")}
       [] cmd = "vibration"      -> {IF g \in Loops THEN to("select", "none") ELSE Returned(g)}

(* The device when the command of g takes effect.                          *)
Effect(g) ==
  /\ device' = CASE at[g].cmd \in {"play", "leadPlay"} -> at[g].epoch
                 [] at[g].cmd \in {"stop", "leadStop"} -> 0
                 [] OTHER                              -> device
  /\ stopFailed' = (stopFailed /\ at[g].cmd \notin {"play", "leadPlay", "stop", "leadStop"})
  /\ UNCHANGED fenced

CommandSucceeded(g) ==
  /\ at[g].pc = "send"
  /\ \E f \in NextCommand(g) : Step(g, "send", f)
  /\ commandMu' = None
  /\ Effect(g)
  /\ UNCHANGED <<flags, epochs, linearStartPending, plan, resets, loopRef, targetMu, history>>

(* A failed command may have taken effect.                                 *)
Uncertain(g) == Effect(g) \/ UNCHANGED wire

(* Mutant: a failed append is only reported.                               *)
RecoversWindowOnly(g) == at[g].cmd = "settingsWindow"

(* dispatchThrough and setStrokeWindowCommand(recoverFailure) stop the run *)
(* for recovery before they give commandMu back.                           *)
Recovers(g) == at[g].cmd \in Appends \cup {"settingsWindow"}

CommandFailedRecovering(g) ==
  /\ at[g].pc = "send"
  /\ Recovers(g)
  /\ PrepareRecovery(g)
  /\ commandMu' = None
  /\ Uncertain(g)
  /\ gap' = (gap \/ at[g].cmd \in Appends)
  /\ UNCHANGED <<linearStartPending, generation, planID, only, resets, targetMu, history>>

(* The other failures return to the caller; a vibration frame is recovered *)
(* after commandMu is released.  Startup reads tell a slider that did not  *)
(* arrive from a failed command.                                           *)
CommandFailed(g, notArrived) ==
  /\ Recovers(g) => ~Valid(g)
  /\ notArrived => at[g].cmd \in {"read", "arrive", "verify"}
  /\ Step(g, "send", IF at[g].cmd = "vibration" THEN [at[g] EXCEPT !.pc = "vibrateFault"]
                     ELSE [Failed(g) EXCEPT !.verdict = notArrived])
  /\ commandMu' = None
  /\ Uncertain(g)
  /\ gap' = (gap \/ at[g].cmd \in Appends)
  /\ UNCHANGED <<flags, epochs, linearStartPending, generation, planID, only, resets, loopRef,
                 targetMu, history>>

VibrateRecovery(g) ==
  /\ at[g].pc = "vibrateFault"
  /\ PrepareRecovery(g)
  /\ UNCHANGED <<linearStartPending, plan, resets, commandMu, targetMu, wire, history>>

(* Its run is over, or the device cannot vibrate (ErrVibrationUnavailable). *)
VibrateUnrecovered(g) ==
  /\ Step(g, "vibrateFault", Failed(g))
  /\ UNCHANGED <<flags, epochs, linearStartPending, plan, resets, loopRef, commandMu, targetMu,
                 wire, history>>

-----------------------------------------------------------------------------
(* The end of a startup: startLoop launches the loop of a run that is      *)
(* still valid.  The request may have been cancelled meanwhile.            *)
StartLoop(g) ==
  /\ Valid(g)
  /\ starting' = FALSE
  /\ done' = runEpoch
  /\ at[g].pc = "launch"
  /\ at' = [at EXCEPT ![g] = Returned(g), ![runEpoch].pc = "select"]
  /\ UNCHANGED <<running, completing, paused, epochs, linearStartPending, plan, resets, cancelled,
                 commandMu, targetMu, wire, history>>

StartLoopInvalidated(g) ==
  /\ ~Valid(g)
  /\ Step(g, "launch", Returned(g))
  /\ UNCHANGED <<flags, epochs, linearStartPending, plan, resets, loopRef, commandMu, targetMu,
                 wire, history>>

RequestCancelled(g) ==
  /\ Step(g, "launch", [at[g] EXCEPT !.pc = "abort"])
  /\ UNCHANGED <<flags, epochs, linearStartPending, plan, resets, loopRef, commandMu, targetMu,
                 wire, history>>

(* abortStartup and forceStopped: only the run of this startup is stopped. *)
AfterAbort(g) == IF at[g].op = "resume" THEN [at[g] EXCEPT !.pc = "restore"] ELSE Returned(g)

ForceStopped(g) ==
  /\ Valid(g)
  /\ at[g].pc = "abort"
  /\ stopBarriers' = stopBarriers + 1
  /\ EndRun
  /\ completing' = FALSE
  /\ at' = [at EXCEPT ![g].pc = "halt", ![g].halt = "abort", ![g].awaits = 0]
  /\ UNCHANGED <<paused, runEpoch, stopGeneration, linearStartPending, plan, resets, commandMu,
                 targetMu, wire, history>>

AbortUnneeded(g) ==
  /\ ~Valid(g)
  /\ Step(g, "abort", AfterAbort(g))
  /\ UNCHANGED <<flags, epochs, linearStartPending, plan, resets, loopRef, commandMu, targetMu,
                 wire, history>>

RestorePaused(g) ==
  /\ Step(g, "restore", Idle)
  /\ IF runEpoch = at[g].epoch /\ stopGeneration = at[g].admission /\ ~running /\ stopBarriers = 0
       THEN paused' = TRUE /\ pausedAt' = at[g].admission
       ELSE UNCHANGED <<paused, pausedAt>>
  /\ UNCHANGED <<running, starting, completing, epochs, linearStartPending, plan, resets, loopRef,
                 commandMu, targetMu, wire, admittedAt>>

-----------------------------------------------------------------------------
(* ApplyTarget, with the plan the caller saw or (want = 0) with any plan.  *)
TargetCall(g, id) ==
  /\ id \in {0, planID}
  /\ Step(g, "idle", [Called(g, "target", "targetLock") EXCEPT !.want = id])
  /\ UNCHANGED <<flags, epochs, linearStartPending, plan, resets, loopRef, commandMu, targetMu,
                 wire, history>>

RefreshCall(g) ==
  /\ Step(g, "idle", Called(g, "refresh", "targetLock"))
  /\ UNCHANGED <<flags, epochs, linearStartPending, plan, resets, loopRef, commandMu, targetMu,
                 wire, history>>

(* Mutant: the plan the caller saw is not compared once targetMu is held.  *)
TargetLockAnyPlan(g) ==
  /\ at[g].op \in {"target", "refresh"}
  /\ targetMu = None
  /\ targetMu' = g
  /\ IF running /\ ~starting
       THEN Step(g, "targetLock", [at[g] EXCEPT !.epoch = runEpoch, !.cmd = "lead",
                                     !.pc = IF at[g].op = "target" THEN "edit" ELSE "health"])
       ELSE Step(g, "targetLock", Returned(g))
  /\ UNCHANGED <<flags, epochs, linearStartPending, plan, resets, loopRef, commandMu, wire, history>>

(* activeRunEpoch and runEpochIfActive, under targetMu.                    *)
TargetLock(g) ==
  /\ at[g].op \in {"target", "refresh"}
  /\ targetMu = None
  /\ targetMu' = g
  /\ IF running /\ ~starting /\ at[g].want \in {0, planID}
       THEN Step(g, "targetLock", [at[g] EXCEPT !.epoch = runEpoch, !.cmd = "lead",
                                     !.pc = IF at[g].op = "target" THEN "edit" ELSE "health"])
       ELSE Step(g, "targetLock", Returned(g))
  /\ UNCHANGED <<flags, epochs, linearStartPending, plan, resets, loopRef, commandMu, wire, history>>

(* A linear target for a vibration-only run takes the run over; any other  *)
(* target is committed to the plan behind a replenished buffer.  The       *)
(* choice, and the Stop epoch it rests on, are read in a section of their  *)
(* own, after the run was checked.                                         *)
EditPlan(g) ==
  /\ Goto(g, "edit", "health")
  /\ UNCHANGED <<flags, epochs, linearStartPending, plan, resets, loopRef, commandMu, targetMu,
                 wire, history>>

EditPromotes(g) ==
  /\ only
  /\ linearStartPending' = TRUE
  /\ Step(g, "edit", [at[g] EXCEPT !.pc = "takeover", !.op = "promote",
                                   !.admission = stopGeneration])
  /\ UNCHANGED <<flags, epochs, plan, resets, loopRef, commandMu, targetMu, wire, history>>

(* The new linear target does not validate or compile.                     *)
PromoteRefused(g) ==
  /\ Step(g, "takeover", Returned(g))
  /\ UNCHANGED <<flags, epochs, linearStartPending, plan, resets, loopRef, commandMu, targetMu,
                 wire, history>>

(* retarget and refreshSettings: the plan changes under a valid run; a     *)
(* plan that does not compile only counts.                                 *)
Commit(g, compiles) ==
  /\ Valid(g)
  /\ generation < MaxEdits
  /\ generation' = generation + 1
  /\ planID' = IF compiles THEN generation + 1 ELSE planID
  /\ Step(g, "commit",
       CASE ~compiles                           -> Returned(g)
         [] compiles /\ at[g].op = "target"     -> [at[g] EXCEPT !.pc = "health", !.cmd = "editPoints"]
         [] compiles /\ at[g].op = "refresh"    -> [at[g] EXCEPT !.pc = "command", !.cmd = "settingsWindow"])
  /\ UNCHANGED <<flags, epochs, linearStartPending, only, gap, resets, loopRef, commandMu, targetMu,
                 wire, history>>

(* The request was cancelled, or its run is over.                          *)
CommitRefused(g) ==
  /\ Step(g, "commit", Returned(g))
  /\ UNCHANGED <<flags, epochs, linearStartPending, plan, resets, loopRef, commandMu, targetMu,
                 wire, history>>

(* ApplyVibration, or with id # 0 ApplyVibrationIfCurrent.                 *)
VibrateCall(g, id) ==
  /\ id \in {0, generation}
  /\ Step(g, "idle", [Called(g, "vibrate", "targetLock") EXCEPT !.want = id,
                                                              !.admission = stopGeneration])
  /\ UNCHANGED <<flags, epochs, linearStartPending, plan, resets, loopRef, commandMu, targetMu,
                 wire, history>>

VibrateLock(g) ==
  /\ at[g].op = "vibrate"
  /\ targetMu = None
  /\ targetMu' = g
  /\ Goto(g, "targetLock", "vibrate")
  /\ UNCHANGED <<flags, epochs, linearStartPending, plan, resets, loopRef, commandMu, wire, history>>

(* With both locks: the run, the Stop epoch and the edit are checked.      *)
VibrateAdmit(g) ==
  /\ g \in Requests
  /\ commandMu = None
  /\ running /\ ~starting
  /\ stopGeneration = at[g].admission
  /\ at[g].want \in {0, generation}
  /\ generation < MaxEdits
  /\ generation' = generation + 1
  /\ commandMu' = g
  /\ Step(g, "vibrate", [at[g] EXCEPT !.pc = "send", !.cmd = "vibration", !.epoch = runEpoch])
  /\ UNCHANGED <<flags, epochs, linearStartPending, planID, only, gap, resets, loopRef, targetMu,
                 wire, history>>

(* One of them has changed, or the request was cancelled.                  *)
VibrateRefused(g) ==
  /\ g \in Requests
  /\ commandMu = None
  /\ Step(g, "vibrate", Returned(g))
  /\ UNCHANGED <<flags, epochs, linearStartPending, plan, resets, loopRef, commandMu, targetMu,
                 wire, history>>

(* The deferred unlock of a target operation; a promotion also withdraws   *)
(* linearStartPending.                                                     *)
Return(g) ==
  /\ Step(g, "return", Idle)
  /\ targetMu' = None
  /\ linearStartPending' = (linearStartPending /\ at[g].op # "promote")
  /\ UNCHANGED <<flags, epochs, plan, resets, loopRef, commandMu, wire, history>>

-----------------------------------------------------------------------------
(* Every path that stops the device raises stopBarriers and ends the run   *)
(* in one section of mu, waits for the loop it took over, then for         *)
(* commandMu, and lowers the barrier after its transport Stop.             *)
PauseBegin(g) ==
  /\ running
  /\ EndRun
  /\ stopBarriers' = stopBarriers + 1
  /\ Step(g, "idle", [Called(g, "pause", "halt") EXCEPT !.halt = "pause", !.awaits = done,
                                                      !.admission = stopGeneration])
  /\ UNCHANGED <<completing, paused, runEpoch, stopGeneration, linearStartPending, plan, resets,
                 commandMu, targetMu, wire, history>>

(* Stop: stopLoopLocked leaves the channel of a completing run installed.  *)
StopBegin(g, f) ==
  /\ stopGeneration < MaxStops
  /\ stopGeneration' = stopGeneration + 1
  /\ stopBarriers' = stopBarriers + 1
  /\ running' = FALSE
  /\ starting' = (starting /\ ~running)
  /\ done' = IF running THEN 0 ELSE done
  /\ cancelled' = cancelled \cup (IF running THEN {runEpoch} ELSE {})
                            \cup (IF resetting # None THEN {resetting} ELSE {})
  /\ paused' = (paused /\ (running \/ completing))
  /\ at' = [at EXCEPT ![g] = [f EXCEPT !.pc = "halt", !.halt = "stop",
                                       !.awaits = IF running \/ completing THEN done ELSE 0]]
  /\ UNCHANGED <<completing, runEpoch, linearStartPending, plan, resets, commandMu, targetMu, wire,
                 history>>

Stop(g) == at[g].pc = "idle" /\ StopBegin(g, Called(g, "stop", "halt"))

TakeoverStop(g) == at[g].pc = "takeover" /\ StopBegin(g, [at[g] EXCEPT !.late = ~Valid(g)])

(* completeProgramIfNeeded: finite content has played to its end.          *)
CompleteProgram(k) ==
  /\ Valid(k)
  /\ running' = FALSE /\ starting' = FALSE /\ completing' = TRUE
  /\ stopBarriers' = stopBarriers + 1
  /\ cancelled' = cancelled \cup {k}
  /\ Step(k, "select", [at[k] EXCEPT !.pc = "halt", !.halt = "complete", !.awaits = 0])
  /\ UNCHANGED <<paused, runEpoch, stopGeneration, linearStartPending, plan, resets, done,
                 commandMu, targetMu, wire, history>>

(* waitForLoop, then commandMu.                                            *)
HaltLock(g) ==
  /\ at[g].awaits # 0 => at[at[g].awaits].pc = "exited"
  /\ commandMu = None
  /\ commandMu' = g
  /\ Goto(g, "halt", "halting")
  /\ UNCHANGED <<flags, epochs, linearStartPending, plan, resets, loopRef, targetMu, wire, history>>

(* The transport Stop, its outcome and the section of mu that follows it   *)
(* are all under commandMu.                                                *)
Finish(g, kind, ok, f) ==
  /\ at[g].halt = kind
  /\ Step(g, "halting", f)
  /\ TransportStop(ok)
  /\ endStopBarrier
  /\ commandMu' = None
  /\ UNCHANGED <<running, starting, runEpoch, stopGeneration, linearStartPending, plan, resetting,
                 cancelled, targetMu, admittedAt>>

StopFinish(g, ok) ==
  /\ Finish(g, "stop", ok, CASE at[g].op = "stop"          -> Idle
                             [] at[g].op = "promote" /\ ok -> [at[g] EXCEPT !.pc = "begin", !.halt = "none",
                                                                           !.awaits = 0]
                             [] OTHER                      -> Returned(g))
  /\ paused' = FALSE
  /\ UNCHANGED <<completing, recovery, done, pausedAt>>

(* Mutant: Pause does not look for a Stop that came meanwhile.             *)
PauseFinishAlways(g, ok) ==
  /\ Finish(g, "pause", ok, Idle)
  /\ paused' = TRUE /\ pausedAt' = at[g].admission
  /\ UNCHANGED <<completing, recovery, done>>

PauseFinish(g, ok) ==
  /\ Finish(g, "pause", ok, Idle)
  /\ IF stopGeneration = at[g].admission
       THEN paused' = TRUE /\ pausedAt' = stopGeneration
       ELSE UNCHANGED <<paused, pausedAt>>
  /\ UNCHANGED <<completing, recovery, done>>

FinishRecovery(g, ok) ==
  /\ Finish(g, "recovery", ok, [Failed(g) EXCEPT !.halt = "none", !.awaits = 0])
  /\ UNCHANGED <<completing, paused, recovery, done, pausedAt>>

(* rememberStartupRecoveryLocked names the failed run.                     *)
AbortFinish(g, ok) ==
  /\ Finish(g, "abort", ok, AfterAbort(g))
  /\ recovery' = IF at[g].verdict THEN at[g].epoch ELSE recovery
  /\ UNCHANGED <<completing, paused, done, pausedAt>>

CompleteFinish(k, ok) ==
  /\ Finish(k, "complete", ok, [at[k] EXCEPT !.pc = "exited"])
  /\ completing' = FALSE
  /\ done' = 0
  /\ UNCHANGED <<paused, recovery, pausedAt>>

-----------------------------------------------------------------------------
(* ResetStartupPosition, for the failure the caller saw.                   *)
ResetCall(g) ==
  /\ recovery # 0
  /\ Step(g, "idle", [Called(g, "reset", "resetCall") EXCEPT !.want = recovery,
                                                            !.admission = stopGeneration])
  /\ UNCHANGED <<flags, epochs, linearStartPending, plan, resets, loopRef, commandMu, targetMu,
                 wire, history>>

ResetBegin(g) ==
  /\ stopGeneration = at[g].admission
  /\ recovery = at[g].want
  /\ resetting = None
  /\ ~running /\ ~starting /\ ~completing /\ stopBarriers = 0
  /\ stopBarriers' = stopBarriers + 1
  /\ resetting' = g
  /\ cancelled' = cancelled \ {g}
  /\ paused' = FALSE
  /\ Step(g, "resetCall", [at[g] EXCEPT !.pc = "halt", !.halt = "reset"])
  /\ UNCHANGED <<running, starting, completing, runEpoch, stopGeneration, linearStartPending, plan,
                 recovery, done, commandMu, targetMu, wire, history>>

ResetRefused(g) ==
  /\ Step(g, "resetCall", Idle)
  /\ UNCHANGED <<flags, epochs, linearStartPending, plan, resets, loopRef, commandMu, targetMu,
                 wire, history>>

(* resetStartupOwners: a Stop that may be cancelled, and the reads that    *)
(* follow it when it succeeded.                                            *)
ResetStop(g, ok) ==
  /\ at[g].halt = "reset"
  /\ ok => g \notin cancelled
  /\ Goto(g, "halting", IF ok THEN "resetRead" ELSE "resetEnd")
  /\ IF g \in cancelled THEN UNCHANGED wire ELSE TransportStop(ok)
  /\ commandMu' = IF ok THEN g ELSE None
  /\ UNCHANGED <<flags, epochs, linearStartPending, plan, resets, loopRef, targetMu, history>>

ResetRead(g, ok) ==
  /\ Step(g, "resetRead", [at[g] EXCEPT !.pc = "resetEnd", !.verdict = ok])
  /\ commandMu' = None
  /\ UNCHANGED <<flags, epochs, linearStartPending, plan, resets, loopRef, targetMu, wire, history>>

ResetEnd(g) ==
  /\ Step(g, "resetEnd", Idle)
  /\ resetting' = None
  /\ endStopBarrier
  /\ recovery' = IF /\ recovery = at[g].want /\ stopGeneration = at[g].admission
                    /\ g \notin cancelled /\ at[g].verdict
                   THEN 0 ELSE recovery
  /\ UNCHANGED <<flags, runEpoch, stopGeneration, linearStartPending, plan, loopRef, commandMu,
                 targetMu, wire, history>>

-----------------------------------------------------------------------------
(* runLoop: the select may take a tick although the context is cancelled.  *)
LoopExit(k) ==
  /\ k \in cancelled
  /\ Goto(k, "select", "exited")
  /\ UNCHANGED <<flags, epochs, linearStartPending, plan, resets, loopRef, commandMu, targetMu,
                 wire, history>>

Tick(k) ==
  /\ Step(k, "select", [at[k] EXCEPT !.pc = "health", !.cmd = "append"])
  /\ UNCHANGED <<flags, epochs, linearStartPending, plan, resets, loopRef, commandMu, targetMu,
                 wire, history>>

(* dispatchVibrationIfNeeded looks at the envelope under commandMu.        *)
VibrationNeeded(k) ==
  /\ k \in Loops
  /\ Step(k, "vibrate", [at[k] EXCEPT !.pc = "command", !.cmd = "vibration"])
  /\ UNCHANGED <<flags, epochs, linearStartPending, plan, resets, loopRef, commandMu, targetMu,
                 wire, history>>

VibrationUnneeded(k) ==
  /\ k \in Loops
  /\ commandMu = None
  /\ Step(k, "vibrate", [at[k] EXCEPT !.pc = "select", !.cmd = "none"])
  /\ UNCHANGED <<flags, epochs, linearStartPending, plan, resets, loopRef, commandMu, targetMu,
                 wire, history>>

-----------------------------------------------------------------------------
(* A request calls a method; nobody is obliged to.                         *)
Call(g) ==
  \/ "start" \in Operations /\ StartAdmission(g)
  \/ "resume" \in Operations /\ (BeginResume(g) \/ BeginResumeUncompiled(g))
  \/ "target" \in Operations /\ \E id \in {0, planID} : TargetCall(g, id)
  \/ "refresh" \in Operations /\ RefreshCall(g)
  \/ "vibrate" \in Operations /\ \E id \in {0, generation} : VibrateCall(g, id)
  \/ "pause" \in Operations /\ PauseBegin(g)
  \/ "stop" \in Operations /\ Stop(g)
  \/ "reset" \in Operations /\ ResetCall(g)

(* A goroutine takes a mutex it waits for.                                 *)
Acquire(g) ==
  \/ AdmitCommand(g)
  \/ SampleFailed(g)
  \/ HaltLock(g)
  \/ VibrationUnneeded(g)

AcquireTarget(g) ==
  \/ TargetLock(g)
  \/ VibrateLock(g)
  \/ VibrateAdmit(g)
  \/ VibrateRefused(g)

(* What a request and a loop have in common: health, commands, recovery.   *)
Dispatch(g) ==
  \/ Healthy(g)
  \/ Invalidated(g)
  \/ Unhealthy(g)
  \/ CommandSucceeded(g)
  \/ CommandFailedRecovering(g)
  \/ \E notArrived \in BOOLEAN : CommandFailed(g, notArrived)
  \/ VibrateRecovery(g)
  \/ VibrateUnrecovered(g)
  \/ \E ok \in BOOLEAN : FinishRecovery(g, ok)

RequestStep(g) ==
  \/ Dispatch(g)
  \/ BeginRefused(g)
  \/ \E vibrationOnly \in BOOLEAN : Begin(g, vibrationOnly)
  \/ BeginUncompiled(g)
  \/ StartLoop(g)
  \/ StartLoopInvalidated(g)
  \/ RequestCancelled(g)
  \/ ForceStopped(g)
  \/ AbortUnneeded(g)
  \/ RestorePaused(g)
  \/ EditPlan(g)
  \/ EditPromotes(g)
  \/ PromoteRefused(g)
  \/ TakeoverStop(g)
  \/ \E compiles \in BOOLEAN : Commit(g, compiles)
  \/ CommitRefused(g)
  \/ Return(g)
  \/ ResetBegin(g)
  \/ ResetRefused(g)
  \/ ResetEnd(g)
  \/ \E ok \in BOOLEAN : \/ StopFinish(g, ok) \/ PauseFinish(g, ok) \/ AbortFinish(g, ok)
                         \/ ResetStop(g, ok) \/ ResetRead(g, ok)

LoopStep(k) ==
  \/ Dispatch(k)
  \/ LoopExit(k)
  \/ Tick(k)
  \/ CompleteProgram(k)
  \/ VibrationNeeded(k)
  \/ \E ok \in BOOLEAN : CompleteFinish(k, ok)

Next ==
  \/ \E g \in Requests : Call(g) \/ Acquire(g) \/ AcquireTarget(g) \/ RequestStep(g)
  \/ \E k \in Loops : Acquire(k) \/ LoopStep(k)

Spec == Init /\ [][Next]_vars

(* A goroutine inside a method keeps running: a transport call is bounded  *)
(* by its context or the client's timeout.  sync.Mutex serves a starved    *)
(* waiter, and a select over a done context and a ticker does not choose   *)
(* the ticker for ever.                                                    *)
Fairness ==
  /\ \A g \in Requests :
       /\ WF_vars(RequestStep(g))
       /\ SF_vars(Acquire(g) \/ AcquireTarget(g))
  /\ \A k \in Loops : WF_vars(LoopStep(k)) /\ SF_vars(LoopExit(k)) /\ SF_vars(Acquire(k))

FairSpec == Spec /\ Fairness

-----------------------------------------------------------------------------
(* The goroutines inside a stop: they hold stopBarriers up.                *)
Stopping == {g \in Workers : at[g].pc \in {"halt", "halting", "resetRead", "resetEnd"}}

(* stopBarriers counts exactly the stops in progress, whichever of the six *)
(* paths they came by and however they end: endStopBarrierLocked never     *)
(* saturates, and no start is shut out when the last stop has left.        *)
BarriersCounted == stopBarriers = Cardinality(Stopping)

(* While any stop is in progress no run is active, so nothing can be       *)
(* started between the end of a run and its transport Stop.                *)
BarrierExcludesRun == stopBarriers > 0 => ~running /\ ~starting

(* A transport Stop is the last word for every run that began before it:   *)
(* no command of such a run is on the wire, or will be, whichever          *)
(* goroutine waited for commandMu when the Stop was sent.                  *)
StopIsLast == \A g \in Workers : at[g].pc = "send" => at[g].epoch > fenced

(* The device executes a stream only while a run is active, a stop is on   *)
(* its way, or the last transport Stop was reported failed.                *)
NoOrphanMotion == device # 0 => running \/ stopBarriers > 0 \/ stopFailed

(* After Stop there is nothing to resume: a pause survives only in the     *)
(* Stop epoch it was admitted in, also when Pause, a failed Resume and     *)
(* Stop overlap.                                                           *)
NothingToResume == paused => ~running /\ pausedAt = stopGeneration

(* A run belongs to the current Stop epoch: no Stop has been called since  *)
(* it was admitted.                                                        *)
RunIsAdmitted == running => admittedAt = stopGeneration

(* A conditional retarget commits only to the plan its caller saw, also    *)
(* when it waited behind another target operation.                         *)
PlanIsCurrent ==
  \A g \in Requests :
    at[g].op = "target" /\ at[g].pc = "commit" /\ Valid(g) => at[g].want \in {0, planID}

(* The timeline of an active run has no hole: samples that were taken from *)
(* the plan and not accepted end the run (ADR 0002: the engine must not    *)
(* skip the failed chunk and continue the timeline).                       *)
NoSkippedChunk == running /\ commandMu = None => ~gap

(* ApplyTargetIfCurrent never starts motion: a promotion that found its    *)
(* run over when it stopped it installs no new run.                        *)
NeverStartsMotion ==
  \A g \in Requests :
    at[g].late => at[g].pc \in {"halt", "halting", "begin"}

(* Every call returns: Stop, Pause, Resume, Start, reset and every target  *)
(* operation, although they wait for each other's locks and for the loop.  *)
EveryCallReturns == \A g \in Requests : at[g].pc # "idle" ~> at[g].pc = "idle"

=============================================================================
