----------------------------- MODULE ModeManager -----------------------------
(***************************************************************************)
(* internal/modes: the manager that owns at most one mode loop and shares  *)
(* the motion engine with the user's controls, chat and the edge hold.     *)
(*                                                                         *)
(* Users are request goroutines, run k is the goroutine of the k-th mode   *)
(* loop, and Reaper(k) the goroutine that loop k spawns when it finds that *)
(* it should end.  Everything Manager.mu protects is the record manager,   *)
(* and a section under mu is one step.  lifecycleMu and userControlMu are  *)
(* held across several steps; userIntentMu is only held across steps by    *)
(* Start, which then holds lifecycleMu too (IntentFree).                   *)
(*                                                                         *)
(* Deadlines, retries and the model's answers are choices: whatever a tick *)
(* may find due, it may find due now.  chat.version is left out, because   *)
(* every change of it comes with a change of the generation, and so is     *)
(* chat.target, which keepalive implies.  The engine is the part of        *)
(* MotionEngine that the manager can tell apart: a start that a Stop       *)
(* overtook, a target of a run that is over, a guard on the plan.          *)
(***************************************************************************)
EXTENDS Integers, FiniteSets

CONSTANTS
  Users,           \* request goroutines
  None,            \* no goroutine, hold or planned choice
  Modes,           \* the modes that are started
  Calls,           \* what requests ask for
  MaxRuns,         \* bound on the mode loops of a behaviour
  MaxCalls,        \* bound on the requests of a behaviour
  MaxPlans         \* bound on the plans the loops give the engine

AllModes == {"autopilot", "freestyle", "chat"}
AllCalls == {"start", "stop", "chatstop", "modestop", "end", "halt", "pause", "resume", "chat",
             "review", "edge", "return", "status", "settings"}

Runs       == 1 .. MaxRuns
Reaper(k)  == MaxRuns + k
Reapers    == {Reaper(k) : k \in Runs}
Goroutines == Users \cup Runs \cup Reapers

ASSUME ModesAssumption ==
  /\ IsFiniteSet(Users)
  /\ Users \cap Nat = {}
  /\ None \notin Users \cup Nat
  /\ Modes \subseteq AllModes
  /\ Calls \subseteq AllCalls
  /\ MaxRuns \in Nat \ {0} /\ MaxCalls \in Nat /\ MaxPlans \in Nat

VARIABLES
  manager,         \* what Manager.mu protects
  engine,          \* the shared motion engine
  lifecycleMu, userControlMu,
  fenced,          \* requests whose context or Stop sequence a global Stop overtook
  at,              \* where each goroutine stands, and its local variables
  calls,           \* requests so far
  halted           \* history: the generation of the last user Stop that stopped the engine

vars == <<manager, engine, lifecycleMu, userControlMu, fenced, at, calls, halted>>
locks == <<lifecycleMu, userControlMu>>

(* What Engine.Snapshot shows of the engine: Running is starting or running. *)
Snapshot == [state |-> engine.state, source |-> engine.source, run |-> engine.run, plan |-> engine.plan]
Unseen   == [state |-> "idle", source |-> "none", run |-> 0, plan |-> 0]

(* A goroutine's local variables: its call, the mode it runs or starts (or  *)
(* the source it restores), the intent, activity, hold or sway it is about, *)
(* the generation it works for, the snapshot it took, the engine's answer   *)
(* and the loop it waits for.                                               *)
Idle == [pc |-> "idle", call |-> "none", mode |-> "none", id |-> 0, gen |-> 0,
         saw |-> Unseen, ok |-> "none", loop |-> 0]

Running(s) == s.state \in {"starting", "running"}

IntentFree == lifecycleMu # None => at[lifecycleMu].call # "start"

-----------------------------------------------------------------------------
(* Sections under Manager.mu, as functions of what it protects. *)

CancelOperation(m) == [m EXCEPT !.revoked = @ \cup ({m.operation} \ {None})]

(* Mutant: a newer generation leaves the running operation alone.          *)
AdvanceOnly(m) == [m EXCEPT !.generation = @ + 1]

Advance(m) == [CancelOperation(m) EXCEPT !.generation = @ + 1]

SuspendEdge(m) == IF m.edge = None THEN m ELSE [m EXCEPT !.edge.automatic = FALSE]

ResetUserPause(m) ==
  [m EXCEPT !.intent = @ + 1, !.pauseConfirmed = 0, !.resumeConfirmed = m.intent + 1,
            !.pauses = {}, !.paused = FALSE]

RefreshUserPause(m) ==
  [m EXCEPT !.paused = /\ m.run # 0 \/ m.edge # None
                       /\ \/ m.pauseConfirmed > m.resumeConfirmed
                          \/ \E id \in m.pauses : id > m.resumeConfirmed]

Detach(m) ==
  [Advance(ResetUserPause(m)) EXCEPT !.cancelled = (@ \cup {m.run}) \ {0}, !.run = 0]

StopLoop(m) == IF m.run = 0 THEN SuspendEdge(m) ELSE Detach(SuspendEdge(m))

ForgetMotion(m) ==
  [m EXCEPT !.edge = None, !.stopped = TRUE, !.keepalive = FALSE, !.pending = FALSE, !.activity = FALSE]

BeginUserStop(m)  == Detach(ForgetMotion(m))
NotifyChatStop(m) == Advance(ResetUserPause(ForgetMotion(m)))

ResetForModeStart(m, k) ==
  [ResetUserPause(m) EXCEPT !.generation = @ + 1, !.run = k, !.edge = None, !.stopped = FALSE,
                            !.keepalive = FALSE, !.pending = FALSE, !.planned = None]

(* beginModeOperation; mode and hold say which of its clauses apply. *)
OperationAdmitted(m, k, mode, hold) ==
  /\ k \notin m.cancelled /\ m.run = k
  /\ ~m.stopped /\ ~m.paused /\ ~m.pending
  /\ m.edge # None => hold
  /\ mode = "autopilot" => ~m.activity
  /\ mode = "chat" => m.keepalive

BeginOperation(m, t)  == [m EXCEPT !.operation = t, !.revoked = @ \ {t}]
FinishOperation(m, t) == [m EXCEPT !.operation = IF @ = t THEN None ELSE @, !.revoked = @ \ {t}]

ModeActive(m, k, mode) ==
  /\ k \notin m.cancelled /\ m.run = k
  /\ ~m.stopped /\ ~m.pending /\ (mode = "autopilot" => ~m.activity)

Current(m, k, gen) == m.run = k /\ m.generation = gen

ArmChoice(m, k, gen) ==
  IF Current(m, k, gen) /\ ~m.stopped /\ ~m.paused /\ ~m.pending
  THEN [m EXCEPT !.planned = None, !.tickets = {}]
  ELSE m

PrepareChatTarget(m) ==
  [Advance(m) EXCEPT !.pending = TRUE, !.owner = m.generation + 1]

CancelChatTarget(m, gen) ==
  IF m.pending /\ m.owner = gen THEN [m EXCEPT !.pending = FALSE] ELSE m

(* notifyTarget: loops are the targets a mode can repeat (adoptable). *)
NotifyTarget(m, gen, loops) ==
  IF ~m.pending \/ m.generation # gen \/ m.stopped
  THEN m
  ELSE LET adopted == m.run # 0 /\ at[m.run].mode = "autopilot" /\ loops
       IN [Advance(m) EXCEPT !.pending = FALSE, !.edge = None, !.keepalive = loops,
                             !.planned = IF adopted THEN None ELSE @,
                             !.tickets = IF adopted THEN {} ELSE @]

AdoptEdgeReturn(m, keepalive, loops) ==
  [m EXCEPT !.keepalive = keepalive /\ loops, !.planned = None]

(* reconcileEdge, after its snapshot s of the engine was taken for hold id. *)
ReconcileEdge(m, id, s, loops) ==
  IF m.edge = None THEN m
  ELSE IF m.edge.id # id \/ ~m.edge.applied \/ m.paused \/ s.state = "paused" THEN m
  ELSE IF ~Running(s)
    THEN [CancelOperation(m) EXCEPT !.edge = None, !.keepalive = FALSE, !.stopped = TRUE]
  ELSE IF s.plan = m.edge.plan THEN m
  ELSE IF s.source = "edge" THEN [SuspendEdge(m) EXCEPT !.edge.plan = s.plan]
  ELSE IF m.pending THEN [m EXCEPT !.edge = None]
  ELSE AdoptEdgeReturn([m EXCEPT !.edge = None], m.edge.keepalive, loops)

AutopilotRuns(m) == m.run # 0 /\ at[m.run].mode = "autopilot"

NotifyChatActivity(m) ==
  LET s == SuspendEdge([m EXCEPT !.activity = TRUE, !.activityID = @ + 1])
  IN IF AutopilotRuns(m) /\ ~m.stopped THEN [Advance(s) EXCEPT !.planned = None] ELSE s

NotifySettings(m) ==
  LET s == SuspendEdge(m)
  IN IF AutopilotRuns(m) /\ ~m.stopped THEN [Advance(s) EXCEPT !.planned = None] ELSE s

ReconsiderAfterChat(m) ==
  IF AutopilotRuns(m) /\ ~m.stopped /\ ~m.paused /\ ~m.pending
  THEN [m EXCEPT !.planned = None] ELSE m

ReviewEligible(m) ==
  /\ m.run # 0 => at[m.run].mode \in {"chat", "autopilot"}
  /\ ~m.stopped /\ ~m.paused /\ ~m.pending /\ ~m.activity

-----------------------------------------------------------------------------
(* Steps.  Go moves a goroutine on, Leave ends a request. *)

Go(t, pc)     == at' = [at EXCEPT ![t].pc = pc]
Answer(t, ok) == at' = [at EXCEPT ![t].pc = "answered", ![t].ok = ok]
Leave(u)      == at' = [at EXCEPT ![u] = Idle] /\ fenced' = fenced \ {u}
Wait(k)       == [at EXCEPT ![k] = [Idle EXCEPT !.pc = "wait", !.call = "loop", !.mode = at[k].mode]]

Live(t) == t \notin manager.revoked \cup manager.cancelled \cup fenced

(* The engine, as Start, Resume, ApplyTarget, Pause and Stop change it.    *)

Aim(t) ==
  CASE at[t].call = "settings" -> <<engine.source, engine.run, engine.gen>>
    [] at[t].call = "loop"     -> <<at[t].mode, t, at[t].gen>>
    [] at[t].call = "review"   -> <<at[t].saw.source, 0, at[t].gen>>
    [] OTHER                   -> <<at[t].mode, 0, at[t].gen>>

Aimed(t) ==
  [engine EXCEPT !.source = Aim(t)[1], !.run = Aim(t)[2], !.gen = Aim(t)[3], !.plan = @ + 1]

(* Mutant: a start does not look whether a Stop has come since.            *)
EngineBeginUnadmitted(t) ==
  /\ at[t].pc = "begin"
  /\ IF Live(t) /\ ~Running(engine) /\ engine.barriers = {}
     THEN /\ engine' = [Aimed(t) EXCEPT !.state = "starting", !.began = at[t].gen,
                                        !.bound = {t}, !.admitted = @ \ {t}]
          /\ Go(t, "startup")
     ELSE /\ engine' = [engine EXCEPT !.admitted = @ \ {t}]
          /\ Answer(t, "no")
  /\ UNCHANGED <<manager, locks, fenced, calls, halted>>

EngineBegin(t) ==
  /\ at[t].pc = "begin"
  /\ IF /\ Live(t) /\ t \in engine.admitted
        /\ ~Running(engine) /\ engine.barriers = {}
     THEN /\ engine' = [Aimed(t) EXCEPT !.state = "starting", !.began = at[t].gen,
                                        !.bound = {t}, !.admitted = @ \ {t}]
          /\ Go(t, "startup")
     ELSE /\ engine' = [engine EXCEPT !.admitted = @ \ {t}]
          /\ Answer(t, "no")
  /\ UNCHANGED <<manager, locks, fenced, calls, halted>>

EngineResume(u) ==
  /\ at[u].pc = "resume"
  /\ IF engine.state = "paused" /\ engine.barriers = {}
     THEN /\ engine' = [engine EXCEPT !.state = "starting", !.plan = @ + 1, !.bound = {u}]
          /\ Go(u, "startup")
     ELSE Answer(u, "no") /\ UNCHANGED engine
  /\ UNCHANGED <<manager, locks, fenced, calls, halted>>

EngineStartup(t) ==
  /\ at[t].pc = "startup"
  /\ \/ /\ t \in engine.bound /\ Live(t)
        /\ engine' = [engine EXCEPT !.state = "running", !.bound = {}]
        /\ Answer(t, "yes")
     \/ /\ t \in engine.bound
        /\ engine' = [engine EXCEPT !.state = IF at[t].call = "resume" THEN "paused" ELSE "idle",
                                    !.bound = {}]
        /\ Answer(t, "no")
     \/ /\ t \notin engine.bound
        /\ Answer(t, "no")
        /\ UNCHANGED engine
  /\ UNCHANGED <<manager, locks, fenced, calls, halted>>

(* ApplyTargetIfCurrent is used for these, ApplyTarget for the others. *)
Guarded(t) == at[t].call \in {"edge", "return", "review"}

EngineTarget(t) ==
  /\ at[t].pc = "target"
  /\ engine.targetMu = None
  /\ IF engine.state = "running" /\ Live(t) /\ (Guarded(t) => at[t].saw.plan = engine.plan)
     THEN /\ engine' = [engine EXCEPT !.targetMu = t, !.bound = @ \cup {t}]
          /\ Go(t, "lead")
     ELSE Answer(t, "no") /\ UNCHANGED engine
  /\ UNCHANGED <<manager, locks, fenced, calls, halted>>

(* After the lead points the caller is checked once more; the run is still *)
(* checked when the target is committed.  "late" is a target that is       *)
(* committed and whose dispatch then fails.                                *)
EngineLead(t) ==
  /\ at[t].pc = "lead"
  /\ \/ Live(t) /\ Go(t, "commit") /\ UNCHANGED engine
     \/ engine' = [engine EXCEPT !.targetMu = None, !.bound = @ \ {t}] /\ Answer(t, "no")
  /\ UNCHANGED <<manager, locks, fenced, calls, halted>>

(* Mutant: a target is committed to whatever run is active now.            *)
EngineCommitAnyRun(t) ==
  /\ at[t].pc = "commit"
  /\ engine' = [Aimed(t) EXCEPT !.targetMu = None, !.bound = @ \ {t}]
  /\ at' = [at EXCEPT ![t].pc = "answered", ![t].ok = "yes", ![t].saw.plan = engine.plan + 1]
  /\ UNCHANGED <<manager, locks, fenced, calls, halted>>

EngineCommit(t) ==
  /\ at[t].pc = "commit"
  /\ \/ /\ t \in engine.bound
        /\ engine' = [Aimed(t) EXCEPT !.targetMu = None, !.bound = @ \ {t}]
        /\ \E ok \in {"yes", "late"} :
             at' = [at EXCEPT ![t].pc = "answered", ![t].ok = ok, ![t].saw.plan = engine.plan + 1]
     \/ /\ t \notin engine.bound
        /\ engine' = [engine EXCEPT !.targetMu = None]
        /\ Answer(t, "no")
  /\ UNCHANGED <<manager, locks, fenced, calls, halted>>

EngineStop(t) ==
  /\ at[t].pc = "halt"
  /\ engine' = [engine EXCEPT !.state = "idle", !.barriers = @ \cup {t}, !.admitted = {}, !.bound = {}]
  /\ Go(t, "halting")
  /\ UNCHANGED <<manager, locks, fenced, calls, halted>>

EngineStopped(u) ==
  /\ at[u].pc = "halting"
  /\ engine' = [engine EXCEPT !.barriers = @ \ {u}]
  /\ halted' = IF at[u].gen > halted THEN at[u].gen ELSE halted
  /\ IF at[u].loop = 0 THEN Leave(u) ELSE Go(u, "drain") /\ UNCHANGED fenced
  /\ UNCHANGED <<manager, locks, calls>>

EnginePause(u) ==
  /\ at[u].pc = "pause"
  /\ IF Running(engine)
     THEN /\ engine' = [engine EXCEPT !.state = "idle", !.barriers = @ \cup {u},
                                      !.admitted = @ \cup {u}, !.bound = {}]
          /\ Go(u, "pausing")
     ELSE Answer(u, IF engine.state = "paused" THEN "yes" ELSE "no") /\ UNCHANGED engine
  /\ UNCHANGED <<manager, locks, fenced, calls, halted>>

EnginePaused(u) ==
  /\ at[u].pc = "pausing"
  /\ LET paused == u \in engine.admitted
     IN /\ engine' = [engine EXCEPT !.barriers = @ \ {u}, !.admitted = @ \ {u},
                                    !.state = IF paused THEN "paused" ELSE @]
        /\ Answer(u, IF paused THEN "yes" ELSE "no")
  /\ UNCHANGED <<manager, locks, fenced, calls, halted>>

(* A run that ends by itself: transport recovery, or a finished program. *)
EngineFails ==
  /\ engine.state = "running"
  /\ engine' = [engine EXCEPT !.state = "idle", !.bound = {}]
  /\ UNCHANGED <<manager, locks, fenced, at, calls, halted>>

-----------------------------------------------------------------------------
(* Requests. *)

Enter(u, call) == at[u].pc = "idle" /\ call \in Calls /\ calls < MaxCalls /\ calls' = calls + 1

New(call, pc)  == [Idle EXCEPT !.pc = pc, !.call = call]
Open(u, frame) == at' = [at EXCEPT ![u] = frame]

(* Start registers its intent before it waits for the control and the      *)
(* lifecycle lock; a newer control invalidates it while it waits.          *)
Used == {k \in Runs : at[k].pc # "none"}
NextRun == Cardinality(Used) + 1

StartRegister(u) ==
  /\ Enter(u, "start")
  /\ IntentFree
  /\ manager' = [manager EXCEPT !.intent = @ + 1]
  /\ \E mode \in Modes :
       Open(u, [New("start", "control") EXCEPT !.mode = mode, !.id = manager.intent + 1])
  /\ UNCHANGED <<engine, locks, fenced, halted>>

StartControl(u) ==
  /\ at[u].pc = "control" /\ at[u].call = "start"
  /\ userControlMu = None
  /\ userControlMu' = u
  /\ Go(u, "lifecycle")
  /\ UNCHANGED <<manager, engine, lifecycleMu, fenced, calls, halted>>

(* A superseded or cancelled start returns; the other ends the live loop. *)
StartAdmit(u) ==
  /\ at[u].pc = "lifecycle"
  /\ lifecycleMu = None
  /\ \/ /\ at[u].id = manager.intent /\ NextRun \in Runs
        /\ lifecycleMu' = u
        /\ manager' = StopLoop(manager)
        /\ at' = [at EXCEPT ![u].pc = "install", ![u].loop = manager.run]
        /\ UNCHANGED <<userControlMu, fenced>>
     \/ /\ userControlMu' = None
        /\ Leave(u)
        /\ UNCHANGED <<manager, lifecycleMu>>
  /\ UNCHANGED <<engine, calls, halted>>

Drained(t) == at[t].loop # 0 => at[at[t].loop].pc = "exited"

StartInstall(u) ==
  /\ at[u].pc = "install"
  /\ Drained(u)
  /\ lifecycleMu' = None /\ userControlMu' = None
  /\ \/ /\ manager' = ResetForModeStart(manager, NextRun)
        /\ at' = [at EXCEPT ![u].pc = "verify",
                            ![NextRun] = [New("loop", "wait") EXCEPT !.mode = at[u].mode]]
        /\ UNCHANGED fenced
     \/ Leave(u) /\ UNCHANGED manager
  /\ UNCHANGED <<engine, calls, halted>>

(* A start that a global Stop overtook is undone like a user stop. *)
StartVerify(u) ==
  /\ at[u].pc = "verify"
  /\ IF u \in fenced THEN Go(u, "stop") /\ UNCHANGED fenced ELSE Leave(u)
  /\ UNCHANGED <<manager, engine, locks, calls, halted>>

(* stop is the emergency Stop, chatstop its chat command, modestop and end  *)
(* the mode's own stop with and without stop_motion.                        *)
Abandonable == {"start", "chat", "review"}

StopFence(u) ==
  /\ \E call \in {"stop", "chatstop", "modestop", "end"} :
       /\ Enter(u, call)
       /\ Open(u, New(call, IF call = "chatstop" THEN "notify" ELSE "stop"))
       /\ fenced' = IF call \in {"stop", "chatstop"}
                    THEN fenced \cup {v \in Users \ {u} : at[v].call \in Abandonable} ELSE fenced
  /\ UNCHANGED <<manager, engine, locks, halted>>

StopNotify(u) ==
  /\ at[u].pc = "notify"
  /\ manager' = NotifyChatStop(manager)
  /\ Go(u, "stop")
  /\ UNCHANGED <<engine, locks, fenced, calls, halted>>

StopBegin(u) ==
  /\ at[u].pc = "stop"
  /\ lifecycleMu = None
  /\ manager' = BeginUserStop(manager)
  /\ lifecycleMu' = IF manager.run = 0 THEN None ELSE u
  /\ at' = [at EXCEPT ![u].loop = manager.run, ![u].gen = manager.generation + 1,
                      ![u].pc = IF at[u].call \in {"start", "end"} THEN "drain" ELSE "halt"]
  /\ UNCHANGED <<engine, userControlMu, fenced, calls, halted>>

(* The loop is waited for under lifecycleMu: after the engine's Stop, or   *)
(* before it in NotifyUserStop and Manager.Stop.                           *)
Drain(t) ==
  /\ at[t].pc = "drain"
  /\ Drained(t)
  /\ lifecycleMu' = IF lifecycleMu = t THEN None ELSE lifecycleMu
  /\ IF at[t].call \in {"start", "halt"}
     THEN at' = [at EXCEPT ![t].pc = "halt", ![t].loop = 0] /\ UNCHANGED fenced
     ELSE IF t \in Users THEN Leave(t) ELSE Go(t, "exited") /\ UNCHANGED fenced
  /\ UNCHANGED <<manager, engine, userControlMu, calls, halted>>

(* Manager.Stop, by a request that changes devices and then stops the      *)
(* engine, or by a loop that saw the user's stop; the latter and the bound *)
(* stopLoopAtGeneration run in the goroutine the loop spawned.             *)
HaltEnter(u) ==
  /\ Enter(u, "halt")
  /\ Open(u, New("halt", "stopLoop"))
  /\ UNCHANGED <<manager, engine, locks, fenced, halted>>

ManagerStop(t) ==
  /\ at[t].pc = "stopLoop"
  /\ lifecycleMu = None
  /\ manager' = StopLoop(manager)
  /\ lifecycleMu' = t
  /\ at' = [at EXCEPT ![t].pc = "drain", ![t].loop = manager.run]
  /\ UNCHANGED <<engine, userControlMu, fenced, calls, halted>>

StopLoopAtGeneration(t) ==
  /\ at[t].pc = "stopBound"
  /\ lifecycleMu = None
  /\ IF Current(manager, at[t].id, at[t].gen)
     THEN /\ manager' = Detach(manager)
          /\ lifecycleMu' = t
          /\ at' = [at EXCEPT ![t].pc = "drain", ![t].loop = manager.run]
     ELSE Go(t, "exited") /\ UNCHANGED <<manager, lifecycleMu>>
  /\ UNCHANGED <<engine, userControlMu, fenced, calls, halted>>

(* Pause latches the mode before the engine's transport Stop; Resume       *)
(* releases the latch.  Both run one at a time under userControlMu, and a  *)
(* request that a newer intent overtook leaves the engine alone.           *)
PauseRegister(u) ==
  /\ Enter(u, "pause")
  /\ IntentFree
  /\ LET m == SuspendEdge([manager EXCEPT !.intent = @ + 1])
         latched == m.run # 0 \/ m.edge # None
     IN /\ manager' = IF latched
                      THEN [Advance(m) EXCEPT !.pauses = @ \cup {m.intent}, !.paused = TRUE]
                      ELSE m
        /\ Open(u, [New("pause", "control") EXCEPT !.id = m.intent])
  /\ UNCHANGED <<engine, locks, fenced, halted>>

ResumeRegister(u) ==
  /\ Enter(u, "resume")
  /\ IntentFree
  /\ manager' = [manager EXCEPT !.intent = @ + 1]
  /\ Open(u, [New("resume", "control") EXCEPT !.id = manager.intent + 1])
  /\ UNCHANGED <<engine, locks, fenced, halted>>

FinishPause(m, id, admitted, keep) ==
  IF id \notin m.pauses THEN m
  ELSE RefreshUserPause(
         [m EXCEPT !.pauses = @ \ {id},
                   !.pauseConfirmed = IF admitted /\ keep /\ id > m.resumeConfirmed /\ id > @
                                      THEN id ELSE @])

FinishResume(m, id) ==
  RefreshUserPause([m EXCEPT !.resumeConfirmed = IF id > @ THEN id ELSE @])

PauseControl(u) ==
  /\ at[u].pc = "control" /\ at[u].call \in {"pause", "resume"}
  /\ userControlMu = None
  /\ IF at[u].id = manager.intent
     THEN /\ userControlMu' = u
          /\ Go(u, at[u].call)
          /\ UNCHANGED <<manager, fenced>>
     ELSE /\ manager' = IF at[u].call = "pause" THEN FinishPause(manager, at[u].id, FALSE, FALSE) ELSE manager
          /\ Leave(u)
          /\ UNCHANGED userControlMu
  /\ UNCHANGED <<engine, lifecycleMu, calls, halted>>

PauseFinish(u) ==
  /\ at[u].pc = "answered" /\ at[u].call \in {"pause", "resume"}
  /\ manager' = IF at[u].call = "pause"
                THEN FinishPause(manager, at[u].id, TRUE, at[u].ok = "yes")
                ELSE IF at[u].ok = "yes" THEN FinishResume(manager, at[u].id) ELSE manager
  /\ userControlMu' = None
  /\ Leave(u)
  /\ UNCHANGED <<engine, lifecycleMu, calls, halted>>

(* A chat turn postpones the autopilot, asks the model, and then leaves    *)
(* the motion alone or hands a target over to the engine.                  *)
ChatBegin(u) ==
  /\ Enter(u, "chat")
  /\ manager' = NotifyChatActivity(manager)
  /\ Open(u, [New("chat", "model") EXCEPT !.mode = "chat", !.id = manager.activityID + 1])
  /\ UNCHANGED <<engine, locks, fenced, halted>>

ChatReply(u) ==
  /\ at[u].pc = "model"
  /\ \/ /\ manager' = ReconsiderAfterChat(manager)
        /\ Go(u, "complete")
        /\ UNCHANGED engine
     \/ /\ u \notin fenced
        /\ engine' = IF Running(engine) THEN engine ELSE [engine EXCEPT !.admitted = @ \cup {u}]
        /\ at' = [at EXCEPT ![u].pc = "prepare", ![u].saw = Snapshot]
        /\ UNCHANGED manager
     \/ /\ Go(u, "complete")
        /\ UNCHANGED <<manager, engine>>
  /\ UNCHANGED <<locks, fenced, calls, halted>>

ChatPrepare(u) ==
  /\ at[u].pc = "prepare"
  /\ manager' = PrepareChatTarget(manager)
  /\ at' = [at EXCEPT ![u].gen = manager.generation + 1, ![u].saw = Unseen,
                      ![u].pc = IF Running(at[u].saw) THEN "target" ELSE "begin"]
  /\ UNCHANGED <<engine, locks, fenced, calls, halted>>

ChatNotify(u) ==
  /\ at[u].pc = "answered" /\ at[u].call = "chat"
  /\ IF at[u].ok = "yes"
     THEN \E loops \in BOOLEAN : manager' = NotifyTarget(manager, at[u].gen, loops)
     ELSE manager' = CancelChatTarget(manager, at[u].gen)
  /\ Go(u, "complete")
  /\ UNCHANGED <<engine, locks, fenced, calls, halted>>

ChatComplete(u) ==
  /\ at[u].pc = "complete"
  /\ manager' = IF at[u].id = manager.activityID THEN [manager EXCEPT !.activity = FALSE] ELSE manager
  /\ Leave(u)
  /\ UNCHANGED <<engine, locks, calls, halted>>

(* A second opinion on the motion that plays.  Its ticket is the mode's    *)
(* generation, the chat activity and the segment it was taken in.          *)
ReviewBegin(u) ==
  /\ Enter(u, "review")
  /\ engine.state = "running" /\ engine.source \in {"chat", "autopilot"}
  /\ ReviewEligible(manager)
  /\ manager' = [manager EXCEPT !.tickets = @ \cup {u}]
  /\ Open(u, [New("review", "apply") EXCEPT !.saw = Snapshot, !.id = manager.activityID,
                                            !.gen = manager.generation])
  /\ UNCHANGED <<engine, locks, fenced, halted>>

ReviewApply(u) ==
  /\ at[u].pc = "apply"
  /\ \/ /\ Live(u) /\ ReviewEligible(manager) /\ u \in manager.tickets
        /\ at[u].gen = manager.generation /\ at[u].id = manager.activityID
        /\ manager' = BeginOperation([PrepareChatTarget(manager) EXCEPT !.planned = None], u)
        /\ at' = [at EXCEPT ![u].pc = "target", ![u].gen = manager.generation + 1]
        /\ UNCHANGED fenced
     \/ /\ manager' = [manager EXCEPT !.tickets = @ \ {u}]
        /\ Leave(u)
  /\ UNCHANGED <<engine, locks, calls, halted>>

ReviewFinish(u) ==
  /\ at[u].pc = "answered" /\ at[u].call = "review"
  /\ \E loops \in BOOLEAN :
       LET m == IF at[u].ok = "yes" THEN NotifyTarget(manager, at[u].gen, loops) ELSE manager
       IN manager' = [CancelChatTarget(FinishOperation(m, u), at[u].gen) EXCEPT !.tickets = @ \ {u}]
  /\ Leave(u)
  /\ UNCHANGED <<engine, locks, calls, halted>>

(* The edge hold.  ActivateEdge and Status first reconcile the hold with a *)
(* snapshot of the engine that was taken before mu was.                    *)
HoldID == IF manager.edge = None THEN 0 ELSE manager.edge.id

Observe(u) ==
  /\ \/ /\ Enter(u, "status")
        /\ Open(u, [New("status", "reconcile") EXCEPT !.id = HoldID, !.saw = Snapshot])
        /\ UNCHANGED userControlMu
     \/ /\ Enter(u, "edge")
        /\ userControlMu = None
        /\ userControlMu' = u
        /\ Open(u, [New("edge", "reconcile") EXCEPT !.id = HoldID, !.saw = Snapshot, !.mode = "edge"])
  /\ UNCHANGED <<manager, engine, lifecycleMu, fenced, halted>>

(* A second press keeps an active hold and only revokes its return. *)
Reconcile(u) ==
  /\ at[u].pc = "reconcile"
  /\ \E loops \in BOOLEAN :
       LET m == ReconcileEdge(manager, at[u].id, at[u].saw, loops)
           held == m.edge # None /\ m.edge.active
       IN IF at[u].call = "edge" /\ ~held
          THEN /\ manager' = m
               /\ at' = [at EXCEPT ![u].pc = "hold", ![u].saw = Snapshot]
               /\ UNCHANGED <<userControlMu, fenced>>
          ELSE /\ manager' = IF at[u].call = "edge" THEN SuspendEdge(Advance(m)) ELSE m
               /\ userControlMu' = IF userControlMu = u THEN None ELSE userControlMu
               /\ Leave(u)
  /\ UNCHANGED <<engine, lifecycleMu, calls, halted>>

EdgeHold(u) ==
  /\ at[u].pc = "hold"
  /\ IF ~Running(at[u].saw) \/ manager.paused
     THEN /\ userControlMu' = None
          /\ Leave(u)
          /\ UNCHANGED manager
     ELSE /\ manager' = [Advance(manager) EXCEPT
                !.pending = FALSE, !.keepalive = FALSE, !.planned = None,
                !.edge = [id |-> manager.generation + 1, active |-> TRUE, applied |-> FALSE,
                          automatic |-> AutopilotRuns(manager), decided |-> FALSE, plan |-> 0,
                          keepalive |-> manager.keepalive, previous |-> at[u].saw.source]]
          /\ at' = [at EXCEPT ![u].pc = "target", ![u].id = manager.generation + 1,
                              ![u].gen = manager.generation + 1]
          /\ UNCHANGED <<userControlMu, fenced>>
  /\ UNCHANGED <<engine, lifecycleMu, calls, halted>>

(* Mutant: a hold that the engine refused is taken for applied.            *)
EdgeAppliedAnyway(u) ==
  /\ at[u].pc = "answered" /\ at[u].call = "edge"
  /\ manager' = IF HoldID # at[u].id THEN manager
                ELSE [manager EXCEPT !.edge.applied = TRUE, !.edge.plan = at[u].saw.plan]
  /\ userControlMu' = None
  /\ Leave(u)
  /\ UNCHANGED <<engine, lifecycleMu, calls, halted>>

EdgeApplied(u) ==
  /\ at[u].pc = "answered" /\ at[u].call = "edge"
  /\ manager' = IF HoldID # at[u].id THEN manager
                ELSE [manager EXCEPT !.edge =
                       [manager.edge EXCEPT
                          !.active = at[u].ok = "yes",
                          !.applied = at[u].ok \in {"yes", "late"},
                          !.plan = IF at[u].ok \in {"yes", "late"} THEN at[u].saw.plan ELSE 0,
                          !.automatic = @ /\ at[u].ok = "yes" /\ manager.generation = at[u].gen]]
  /\ userControlMu' = None
  /\ Leave(u)
  /\ UNCHANGED <<engine, lifecycleMu, calls, halted>>

(* resumeEdge, for the user who asks for it or for a loop whose hold is    *)
(* over.  The loop only tries the control lock: a user control that holds  *)
(* it may be waiting for this loop to end.                                 *)
ReturnAdmitted(t, automatic) ==
  /\ at[t].id # 0 /\ HoldID = at[t].id /\ manager.generation = at[t].gen
  /\ manager.edge.applied /\ ~manager.paused
  /\ automatic => manager.edge.automatic

ReturnBegin(t, source) ==
  /\ manager' = BeginOperation(SuspendEdge(Advance(manager)), t)
  /\ userControlMu' = t
  /\ at' = [at EXCEPT ![t].call = "return", ![t].pc = "target", ![t].mode = source,
                      ![t].gen = manager.generation + 1, ![t].saw.plan = manager.edge.plan]

ReturnRegister(u) ==
  /\ Enter(u, "return")
  /\ Open(u, [New("return", "control") EXCEPT !.id = HoldID, !.gen = manager.generation])
  /\ UNCHANGED <<manager, engine, locks, fenced, halted>>

ReturnControl(u) ==
  /\ at[u].pc = "control" /\ at[u].call = "return"
  /\ userControlMu = None
  /\ IF ReturnAdmitted(u, FALSE)
     THEN ReturnBegin(u, manager.edge.previous) /\ UNCHANGED fenced
     ELSE Leave(u) /\ UNCHANGED <<manager, userControlMu>>
  /\ UNCHANGED <<engine, lifecycleMu, calls, halted>>

Returned(t, loops) ==
  LET m == FinishOperation(manager, t)
      gone == [m EXCEPT !.edge = None]
  IN IF HoldID # at[t].id THEN m
     ELSE IF at[t].ok # "yes" THEN SuspendEdge(m)
     ELSE IF m.generation = at[t].gen THEN AdoptEdgeReturn(gone, m.edge.keepalive, loops)
     ELSE gone

ReturnFinish(t) ==
  /\ at[t].pc = "answered" /\ at[t].call = "return"
  /\ \E loops \in BOOLEAN : manager' = Returned(t, loops)
  /\ userControlMu' = None
  /\ IF t \in Users THEN Leave(t) ELSE at' = Wait(t) /\ UNCHANGED fenced
  /\ UNCHANGED <<engine, lifecycleMu, calls, halted>>

(* Saved settings: the autopilot's clocks start over and the engine takes  *)
(* the new limits, which names a new plan for the same motion.             *)
SettingsSaved(u) ==
  /\ Enter(u, "settings")
  /\ manager' = NotifySettings(manager)
  /\ Open(u, New("settings", "target"))
  /\ UNCHANGED <<engine, locks, fenced, halted>>

SettingsApplied(u) ==
  /\ at[u].pc = "answered" /\ at[u].call = "settings"
  /\ Leave(u)
  /\ UNCHANGED <<manager, engine, locks, calls, halted>>

-----------------------------------------------------------------------------
(* The mode loop.  A tick that is ready may still be taken after the loop  *)
(* was cancelled; only the edge part of it works then.                     *)

LoopExit(k) ==
  /\ at[k].pc = "wait" /\ k \in manager.cancelled
  /\ Go(k, "exited")
  /\ UNCHANGED <<manager, engine, locks, fenced, calls, halted>>

Decide(k) ==
  [Wait(k) EXCEPT ![k].pc = "decide", ![k].saw = [Snapshot EXCEPT !.plan = 0]]

Tick(k) ==
  /\ at[k].pc = "wait"
  /\ IF manager.edge # None
     THEN at' = [at EXCEPT ![k].pc = "tickEdge", ![k].id = HoldID, ![k].saw = Snapshot]
     ELSE /\ ModeActive(manager, k, at[k].mode)
          /\ at' = Decide(k)
  /\ UNCHANGED <<manager, engine, locks, fenced, calls, halted>>

TickEdge(k) ==
  /\ at[k].pc = "tickEdge"
  /\ \E loops \in BOOLEAN : manager' = ReconcileEdge(manager, at[k].id, at[k].saw, loops)
  /\ IF manager'.edge # None
     THEN at' = [at EXCEPT ![k].pc = "edge", ![k].id = manager'.edge.id, ![k].gen = manager'.generation,
                              ![k].saw = Unseen]
     ELSE IF ModeActive(manager', k, at[k].mode)
     THEN at' = Decide(k)
     ELSE at' = Wait(k)
  /\ UNCHANGED <<engine, locks, fenced, calls, halted>>

(* Only an automatic hold that is applied and undisturbed is worked on: it *)
(* gets one decision, and at its end the return.                           *)
EdgeQuiet(k) ==
  /\ HoldID = at[k].id /\ manager.edge.applied /\ manager.edge.automatic
  /\ engine.state # "paused" /\ ~manager.paused /\ ~manager.pending /\ ~manager.activity

EdgeTick(k) ==
  /\ at[k].pc = "edge"
  /\ IF EdgeQuiet(k) /\ ~manager.edge.decided /\ manager.generation = at[k].gen
        /\ OperationAdmitted(manager, k, "autopilot", TRUE)
     THEN manager' = BeginOperation(manager, k) /\ Go(k, "edgePlan")
     ELSE /\ \/ EdgeQuiet(k) /\ manager.edge.decided /\ Go(k, "edgeReturn")
             \/ at' = Wait(k)
          /\ UNCHANGED manager
  /\ UNCHANGED <<engine, locks, fenced, calls, halted>>

PlanEdgeReturn(k) ==
  /\ at[k].pc = "edgePlan"
  /\ \E planned \in BOOLEAN :
       LET m == FinishOperation(manager, k)
       IN manager' =
            IF HoldID # at[k].id \/ m.generation # at[k].gen \/ ~Live(k) \/ ~m.edge.automatic THEN m
            ELSE IF planned THEN [m EXCEPT !.edge.decided = TRUE] ELSE SuspendEdge(m)
  /\ at' = Wait(k)
  /\ UNCHANGED <<engine, locks, fenced, calls, halted>>

EdgeReturn(k) ==
  /\ at[k].pc = "edgeReturn"
  /\ IF userControlMu = None /\ ReturnAdmitted(k, TRUE)
     THEN ReturnBegin(k, "autopilot")
     ELSE at' = Wait(k) /\ UNCHANGED <<manager, userControlMu>>
  /\ UNCHANGED <<engine, lifecycleMu, fenced, calls, halted>>

(* tickAutopilot, tickFreestyle and tickChat on the snapshot they took.    *)
(* What a running autopilot does depends on its clocks; freestyle only     *)
(* extends a stream of its own run.                                        *)
Spawn(k, pc, gen) ==
  at' = [Wait(k) EXCEPT ![Reaper(k)] = [New("reap", pc) EXCEPT !.id = k, !.gen = gen]]

Work(k, pc) ==
  at' = [at EXCEPT ![k].pc = pc, ![k].gen = manager.generation,
                   ![k].saw = [Unseen EXCEPT !.state = at[k].saw.state]]

DecideIdle(k) ==
  /\ at[k].pc = "decide"
  /\ ~Running(at[k].saw) /\ at[k].saw.state # "paused" /\ ~manager.paused
  /\ \/ /\ manager.stopped /\ at[k].mode # "chat" /\ at[Reaper(k)].pc = "none"
        /\ Spawn(k, "stopLoop", 0)
        /\ UNCHANGED manager
     \/ /\ ~manager.stopped /\ at[k].mode = "freestyle" /\ at[Reaper(k)].pc = "none"
        /\ at[k].saw.run = k
        /\ Spawn(k, "stopBound", manager.generation)
        /\ UNCHANGED manager
     \/ /\ OperationAdmitted(manager, k, at[k].mode, FALSE)
        /\ engine.plan < MaxPlans
        /\ manager' = BeginOperation(manager, k)
        /\ Work(k, "ensure")
  /\ UNCHANGED <<engine, locks, fenced, calls, halted>>

DecideRunning(k) ==
  /\ at[k].pc = "decide"
  /\ Running(at[k].saw) /\ ~manager.paused
  /\ engine.plan < MaxPlans
  /\ OperationAdmitted(manager, k, at[k].mode, FALSE)
  /\ LET m == BeginOperation(manager, k)
     IN \/ /\ at[k].mode = "autopilot" /\ m.planned # None
           /\ manager' = [m EXCEPT !.planned = None]
           /\ Work(k, "choice")
        \/ /\ at[k].mode = "autopilot" /\ m.planned = None
           /\ manager' = m
           /\ Work(k, "plan")
        \/ /\ at[k].mode = "autopilot"
           /\ manager' = m
           /\ Work(k, "texture")
        \/ /\ at[k].mode = "freestyle" /\ at[k].saw.source = "freestyle" /\ at[k].saw.run = k
           /\ manager' = m
           /\ Work(k, "target")
  /\ UNCHANGED <<engine, locks, fenced, calls, halted>>

(* Nothing is due, or the tick finds the mode paused or no longer eligible. *)
DecideNothing(k) ==
  /\ at[k].pc = "decide"
  /\ at' = Wait(k)
  /\ UNCHANGED <<manager, engine, locks, fenced, calls, halted>>

EndTick(k) == manager' = FinishOperation(manager, k) /\ at' = Wait(k)

(* startNextSegment, startFreestyle and the chat keepalive: the engine's   *)
(* admission is taken before the model chooses what to start with.         *)
Ensure(k) ==
  /\ at[k].pc = "ensure"
  /\ \/ /\ engine' = [engine EXCEPT !.admitted = @ \cup {k}]
        /\ Go(k, "begin")
        /\ UNCHANGED manager
     \/ EndTick(k) /\ UNCHANGED engine
  /\ UNCHANGED <<locks, fenced, calls, halted>>

(* planAutopilotMotion: keep the choice for its deadline, or apply it. *)
Plan(k) ==
  /\ at[k].pc = "plan"
  /\ IF Live(k) /\ Current(manager, k, at[k].gen) /\ ~manager.stopped /\ ~manager.paused /\ ~manager.pending
     THEN \/ Go(k, "choice") /\ UNCHANGED manager
          \/ /\ manager' = [FinishOperation(manager, k) EXCEPT !.planned = at[k].gen]
             /\ at' = Wait(k)
     ELSE EndTick(k)
  /\ UNCHANGED <<engine, locks, fenced, calls, halted>>

(* applyAutopilotChoice: a hold only starts the clocks over. *)
ApplyChoice(k) ==
  /\ at[k].pc = "choice"
  /\ \/ /\ manager' = FinishOperation(ArmChoice(manager, k, at[k].gen), k)
        /\ at' = Wait(k)
     \/ Go(k, "target") /\ UNCHANGED manager
  /\ UNCHANGED <<engine, locks, fenced, calls, halted>>

(* A sway or a spoken turn adjusts the motion, or nothing; a sway leaves   *)
(* the segment and its clocks alone.                                       *)
Texture(k) ==
  /\ at[k].pc = "texture"
  /\ \/ EndTick(k)
     \/ \E sway \in BOOLEAN :
          /\ at' = [at EXCEPT ![k].pc = "target", ![k].id = IF sway THEN k ELSE 0]
          /\ UNCHANGED manager
  /\ UNCHANGED <<engine, locks, fenced, calls, halted>>

Applied(k) ==
  /\ at[k].pc = "answered" /\ at[k].call = "loop" /\ at[k].ok = "yes"
  /\ manager' = FinishOperation(IF at[k].id = k THEN manager ELSE ArmChoice(manager, k, at[k].gen), k)
  /\ at' = Wait(k)
  /\ UNCHANGED <<engine, locks, fenced, calls, halted>>

(* A failed call is retried later; an unsafe start ends the loop. *)
Failed(k) ==
  /\ at[k].pc = "answered" /\ at[k].call = "loop" /\ at[k].ok # "yes"
  /\ \/ EndTick(k)
     \/ /\ Current(manager, k, at[k].gen) /\ ~manager.stopped /\ ~manager.pending
        /\ at[k].saw.state = "idle" /\ Live(k) /\ at[Reaper(k)].pc = "none"
        /\ manager' = FinishOperation([manager EXCEPT !.cancelled = @ \cup {k}], k)
        /\ Spawn(k, "stopBound", at[k].gen)
  /\ UNCHANGED <<engine, locks, fenced, calls, halted>>

-----------------------------------------------------------------------------
Finished ==
  /\ \A t \in Goroutines : at[t].pc \in {"idle", "none", "exited", "wait"}
  /\ UNCHANGED vars

NewManager ==
  [run |-> 0, generation |-> 0, operation |-> None, revoked |-> {}, cancelled |-> {},
   intent |-> 0, pauseConfirmed |-> 0, resumeConfirmed |-> 0, pauses |-> {}, paused |-> FALSE,
   stopped |-> FALSE, keepalive |-> FALSE, pending |-> FALSE, owner |-> 0, activity |-> FALSE,
   activityID |-> 0, planned |-> None, edge |-> None, tickets |-> {}]

NewEngine ==
  [state |-> "idle", source |-> "none", run |-> 0, gen |-> 0, began |-> 0, plan |-> 0, barriers |-> {},
   targetMu |-> None, admitted |-> {}, bound |-> {}]

(* A server that has started nothing, or whose first mode has just started. *)
Init ==
  /\ \E mode \in Modes \cup {"none"} :
       /\ manager = IF mode = "none" THEN NewManager ELSE ResetForModeStart(NewManager, 1)
       /\ at = [t \in Goroutines |->
                  IF t \in Users THEN Idle
                  ELSE IF t = 1 /\ mode # "none" THEN [New("loop", "wait") EXCEPT !.mode = mode]
                  ELSE New("none", "none")]
  /\ engine = NewEngine
  /\ lifecycleMu = None /\ userControlMu = None
  /\ fenced = {} /\ calls = 0 /\ halted = 0

UserStep(u) ==
  \/ StartRegister(u) \/ StartControl(u) \/ StartAdmit(u) \/ StartInstall(u) \/ StartVerify(u)
  \/ StopFence(u) \/ StopNotify(u) \/ StopBegin(u) \/ HaltEnter(u)
  \/ PauseRegister(u) \/ ResumeRegister(u) \/ PauseControl(u) \/ PauseFinish(u)
  \/ ChatBegin(u) \/ ChatReply(u) \/ ChatPrepare(u) \/ ChatNotify(u) \/ ChatComplete(u)
  \/ ReviewBegin(u) \/ ReviewApply(u) \/ ReviewFinish(u)
  \/ Observe(u) \/ Reconcile(u) \/ EdgeHold(u) \/ EdgeApplied(u)
  \/ ReturnRegister(u) \/ ReturnControl(u)
  \/ SettingsSaved(u) \/ SettingsApplied(u)
  \/ EngineResume(u) \/ EnginePause(u) \/ EnginePaused(u) \/ EngineStop(u) \/ EngineStopped(u)

LoopStep(k) ==
  \/ LoopExit(k) \/ Tick(k) \/ TickEdge(k) \/ EdgeTick(k) \/ PlanEdgeReturn(k) \/ EdgeReturn(k)
  \/ DecideIdle(k) \/ DecideRunning(k) \/ DecideNothing(k) \/ Ensure(k) \/ Plan(k)
  \/ ApplyChoice(k) \/ Texture(k) \/ Applied(k) \/ Failed(k)

(* What requests and loops, or requests and reapers, have in common. *)
EngineStep(t) == EngineBegin(t) \/ EngineStartup(t) \/ EngineTarget(t) \/ EngineLead(t) \/ EngineCommit(t) \/ ReturnFinish(t)
StopStep(t)   == Drain(t) \/ ManagerStop(t)

Next ==
  \/ \E u \in Users : UserStep(u)
  \/ \E k \in Runs : LoopStep(k)
  \/ \E t \in Users \cup Runs : EngineStep(t)
  \/ \E t \in Users \cup Reapers : StopStep(t)
  \/ \E t \in Reapers : StopLoopAtGeneration(t)
  \/ EngineFails
  \/ Finished

Spec == Init /\ [][Next]_vars

-----------------------------------------------------------------------------
(* Properties. *)

Holds == [id : Nat, active : BOOLEAN, applied : BOOLEAN, automatic : BOOLEAN, decided : BOOLEAN,
          plan : Nat, keepalive : BOOLEAN, previous : AllModes \cup {"edge", "none"}]

(* The manager's fields hold what modeLoopState, userControlState,         *)
(* chatRecoveryState and edgeState can hold, and a lock is held by a       *)
(* goroutine that is inside the code it protects.                          *)
TypeOK ==
  /\ manager.run \in 0 .. MaxRuns /\ manager.generation \in Nat
  /\ manager.operation \in Goroutines \cup {None}
  /\ manager.revoked \subseteq Goroutines /\ manager.cancelled \subseteq Runs
  /\ manager.pauses \subseteq 1 .. manager.intent
  /\ manager.edge # None => manager.edge \in Holds
  /\ manager.planned # None => manager.planned \in Nat
  /\ manager.tickets \subseteq Users
  /\ engine.state \in {"idle", "starting", "running", "paused"}
  /\ lifecycleMu # None => at[lifecycleMu].pc \in {"install", "halt", "halting", "drain"}
  /\ userControlMu # None => at[userControlMu].call \in {"start", "pause", "resume", "edge", "return"}
  /\ engine.targetMu # None => at[engine.targetMu].pc \in {"lead", "commit"}

LiveLoops == {k \in Runs : at[k].pc \notin {"none", "exited"}}

(* "Manager owns at most one active mode loop": Start drains the loop it   *)
(* replaces before it installs the next, and a loop that is no longer      *)
(* installed has been told to end.                                         *)
OneLoop ==
  /\ Cardinality(LiveLoops) <= 1
  /\ \A k \in LiveLoops : k = manager.run \/ k \in manager.cancelled

(* Work from before a user's Stop does not move the device after it: a run *)
(* that plays was begun in a generation that is not older than the last    *)
(* Stop that has stopped the engine (began), and so was the target it      *)
(* plays (gen).  Only a chat turn's target may be older: a mode's Stop     *)
(* leaves a turn in dispatch alone, ApplyTarget does not look at the plan, *)
(* and so the turn adjusts motion that was begun since.                    *)
NoRevival ==
  Running(engine) => /\ engine.began >= halted
                     /\ engine.source # "chat" => engine.gen >= halted

(* A mode loop or an automatic return puts motion on the engine only while *)
(* its generation is the current one and the user has neither stopped nor  *)
(* paused nor begun a chat handoff: every control revokes the operation    *)
(* that was admitted before it (cancelOperationLocked).                    *)
PutsMotion(k) ==
  \/ at[k].pc = "begin" /\ at'[k].pc = "startup"
  \/ at[k].pc = "lead" /\ at'[k].pc = "commit"

WorkIsCurrent ==
  [][\A k \in Runs : PutsMotion(k) =>
       /\ Current(manager, k, at[k].gen)
       /\ ~manager.stopped /\ ~manager.paused /\ ~manager.pending]_vars

(* A decision of the mode never replaces motion of a newer generation: not *)
(* a chat target, not a hold, not a reviewed correction.                   *)
NewerMotionStands ==
  [][\A k \in Runs : at[k].pc = "commit" /\ at'[k].ok \in {"yes", "late"} =>
       engine.gen <= at[k].gen]_vars

(* A return, asked for or automatic, replaces the gentle hold and nothing  *)
(* else, whatever was targeted, paused, resumed or refreshed meanwhile.    *)
ReturnEndsHold ==
  [][\A t \in Users \cup Runs :
       at[t].call = "return" /\ at[t].pc = "commit" /\ at'[t].ok \in {"yes", "late"} =>
         engine.source = "edge"]_vars

=============================================================================
