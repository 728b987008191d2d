-------------------------- MODULE MotionEngineProofs --------------------------
(***************************************************************************)
(* Proofs about MotionEngine for any requests, operations and bounds: the  *)
(* barrier counts the stops and shuts runs out, a transport Stop is the    *)
(* last word for every run before it, nothing moves without a run or a     *)
(* stop behind it, and pauses, runs and edits belong to the Stop epoch,    *)
(* the admission and the plan they were checked against.                   *)
(*                                                                         *)
(* The argument: a section of mu that ends a run raises stopBarriers, and  *)
(* begin asks for a lowered barrier, so while anybody is inside a stop no  *)
(* run is active (BarriersCounted, RunInv).  Whoever has a command in      *)
(* flight holds commandMu (LockInv), and either its run is still active or *)
(* somebody who ended a run waits for commandMu to send a Stop behind it   *)
(* (SendInv): this is what makes a device that still executes a stream the *)
(* business of a run, of a stop on its way or of a failed Stop (DeviceInv).*)
(* A startup in progress is the only one of its run (StartupInv), an edit  *)
(* that is still valid holds targetMu since it looked at the plan          *)
(* (EditInv), and a chunk that was refused has ended its run (GapInv).     *)
(***************************************************************************)
EXTENDS MotionEngine, FiniteSetTheorems, TLAPS

(* The methods that start a run, and the commands of a target edit.        *)
Startups == {"start", "resume", "promote"}
Edits    == {"lead", "settingsWindow", "editPoints"}

(* A frame inside the startup of its run, with its chunk or its command.   *)
InStartup(f) == f.op \in Startups /\ f.pc \in {"health", "command", "send", "launch", "abort"}

(* A frame of ApplyTarget between its look at the plan and its commit.     *)
Editing(f) == f.op = "target" /\ f.cmd = "lead" /\ f.pc \in {"edit", "health", "command", "send", "commit"}

(* A frame in a stop, one that holds commandMu, one that holds targetMu.   *)
InStop(f)       == f.pc \in {"halt", "halting", "resetRead", "resetEnd"}
HoldsCommand(f) == f.pc \in {"send", "halting", "resetRead"}
HoldsTarget(f)  == f.op \in {"target", "refresh", "vibrate", "promote"} /\ f.pc # "targetLock"

(* A frame in a stop that ended a run, or that Stop called.                *)
EndsMotion(f) == f.pc \in {"halt", "halting"} /\ f.halt # "reset"

(* Which command a frame may be about, and where each method passes.       *)
RequestFrame(f) ==
  /\ f.pc \in {"health", "command", "send"} =>
       \/ f.op \in Startups /\ f.cmd \in StartupCommands
       \/ f.op \in {"target", "refresh"} /\ f.cmd \in Edits
       \/ f.op = "vibrate" /\ f.cmd = "vibration"
  /\ f.pc = "edit" => f.op = "target" /\ f.cmd = "lead"
  /\ f.pc = "commit" => f.op \in {"target", "refresh"} /\ f.cmd = "lead"
  /\ f.pc \in {"vibrate", "vibrateFault"} => f.op = "vibrate"
  /\ f.op # "loop"
  /\ f.pc = "begin" => f.op \in {"start", "promote"}
  /\ f.pc = "launch" => f.op \in Startups
  /\ f.pc = "return" => f.op \in {"target", "refresh", "vibrate", "promote"}
  /\ f.pc = "takeover" => f.op = "promote"

(* A loop dispatches its own run: chunks and vibration.                    *)
LoopFrame(k, f) ==
  /\ f.op = "loop" /\ f.epoch = k
  /\ f.pc \in {"none", "select", "health", "command", "send", "vibrate", "vibrateFault",
               "halt", "halting", "exited"}
  /\ f.pc = "health" => f.cmd = "append"
  /\ f.pc \in {"command", "send", "vibrateFault"} => f.cmd \in {"append", "vibration"}

(* Requests and loops are where their methods take them.                   *)
FrameInv ==
  /\ \A r \in Requests : RequestFrame(at[r])
  /\ \A k \in Loops : LoopFrame(k, at[k])

(* Who is where holds the lock that the place is under.                    *)
LockInv ==
  \A g \in Workers :
    /\ HoldsCommand(at[g]) => commandMu = g
    /\ HoldsTarget(at[g]) => targetMu = g

(* An active run is the newest, past every transport Stop, and no stop is  *)
(* in progress; nobody is of a later run.                                  *)
RunInv ==
  /\ starting => running
  /\ running => stopBarriers = 0 /\ fenced < runEpoch /\ ~completing
  /\ fenced <= runEpoch
  /\ \A g \in Workers : at[g].pc = "none" \/ at[g].epoch <= runEpoch

(* The loop of a starting run is not launched, and one request starts it.  *)
StartupInv ==
  /\ starting => at[runEpoch].pc = "none"
  /\ \A r \in Requests : InStartup(at[r]) /\ Valid(r) => starting
  /\ \A r, q \in Requests :
       InStartup(at[r]) /\ Valid(r) /\ InStartup(at[q]) /\ Valid(q) => r = q

(* A command in flight is of the active run, or somebody who ended a run   *)
(* waits for commandMu.                                                    *)
SendInv ==
  \A g \in Workers :
    at[g].pc = "send" => Valid(g) \/ \E h \in Workers : at[h].pc = "halt" /\ at[h].halt # "reset"

(* A device in motion has a run, a failed Stop or a stop on its way.       *)
DeviceInv == device # 0 => running \/ stopFailed \/ \E h \in Workers : EndsMotion(at[h])

(* A completion is in progress while its loop is in the stop, and no pause *)
(* overlaps it.                                                            *)
CompletingInv ==
  /\ completing => ~paused
  /\ completing => \E h \in Workers : at[h].pc \in {"halt", "halting"} /\ at[h].halt = "complete"
  /\ \A h \in Workers : at[h].pc \in {"halt", "halting"} /\ at[h].halt = "pause" => ~completing

(* An edit of the active run still sees the plan it compared.              *)
EditInv == \A r \in Requests : Editing(at[r]) /\ Valid(r) => at[r].want \in {0, planID}

(* Without dense windows, a refused chunk has ended its run.               *)
GapInv == ~DenseContent /\ running => ~gap

IInv ==
  /\ TypeOK /\ FrameInv /\ LockInv /\ BarriersCounted /\ RunInv /\ StartupInv /\ SendInv
  /\ StopIsLast /\ DeviceInv /\ CompletingInv /\ NothingToResume /\ RunIsAdmitted
  /\ EditInv /\ GapInv

-----------------------------------------------------------------------------
(* What every step needs to know of the state it starts in.                *)
LEMMA Parts ==
  ASSUME IInv
  PROVE  /\ TypeOK /\ FrameInv /\ LockInv /\ BarriersCounted /\ RunInv /\ StartupInv /\ SendInv
         /\ StopIsLast /\ DeviceInv /\ CompletingInv /\ NothingToResume /\ RunIsAdmitted
         /\ EditInv /\ GapInv
  BY DEF IInv

(* The goroutines inside a stop are finitely many.                         *)
LEMMA StoppingFinite == IsFiniteSet(Stopping)
  <1>1. IsFiniteSet(Loops)
    BY EngineAssumption, FS_Interval DEF Loops
  <1>2. IsFiniteSet(Workers)
    BY <1>1, EngineAssumption, FS_Union DEF Workers
  <1>3. QED
    BY <1>2, FS_Subset DEF Stopping

(* While somebody is inside a stop the barrier is up.                      *)
LEMMA StopRaisesBarrier ==
  ASSUME IInv, NEW g \in Workers, InStop(at[g])
  PROVE  stopBarriers > 0
  <1>1. g \in Stopping
    BY DEF Stopping, InStop
  <1>2. QED
    BY <1>1, StoppingFinite, FS_EmptySet, FS_CardinalityType, Parts DEF BarriersCounted

(* A run is one of the loops.                                              *)
LEMMA RunIsLoop ==
  ASSUME IInv, running
  PROVE  runEpoch \in Loops
  BY Parts, EngineAssumption DEF RunInv, TypeOK, Loops

(* A worker is a request or a loop, and not both.                          *)
LEMMA TwoKinds ==
  ASSUME NEW g \in Workers
  PROVE  /\ g \in Requests \/ g \in Loops
         /\ ~(g \in Requests /\ g \in Loops)
  BY EngineAssumption DEF Workers, Loops

(* A step of g to the frame f that takes it neither into a stop nor out of *)
(* one, and changes no run: the invariant asks only for what f claims.     *)
LEMMA QuietKeeps ==
  ASSUME IInv, TypeOK', NEW g \in Workers, NEW f \in Frames,
         at'[g] = f, \A h \in Workers : h # g => at'[h] = at[h],
         UNCHANGED <<flags, epochs, fenced, history>>,
         ~InStop(f), ~InStop(at[g]), f.pc # "none", at[g].pc # "none",
         g \in Requests => RequestFrame(f),
         g \in Loops => LoopFrame(g, f),
         f.epoch <= runEpoch,
         InStartup(f) /\ f.epoch = runEpoch /\ running => InStartup(at[g]) /\ at[g].epoch = runEpoch,
         Editing(f) /\ f.epoch = runEpoch /\ running => f.want \in {0, planID'},
         planID' = planID \/ targetMu = g,
         f.pc = "send" => running /\ f.epoch = runEpoch /\ commandMu' = g,
         \A h \in Workers : h # g /\ commandMu = h => commandMu' = h,
         HoldsTarget(f) => targetMu' = g,
         \A h \in Workers : h # g /\ targetMu = h => targetMu' = h,
         gap' = gap \/ ~running \/ DenseContent,
         (device' = device /\ stopFailed' = stopFailed) \/ device' = 0 \/ at[g].pc = "send"
  PROVE  IInv'
  <1>1. /\ running' = running /\ starting' = starting /\ completing' = completing /\ paused' = paused
        /\ runEpoch' = runEpoch /\ stopGeneration' = stopGeneration /\ stopBarriers' = stopBarriers
        /\ fenced' = fenced /\ pausedAt' = pausedAt /\ admittedAt' = admittedAt
    BY DEF flags, epochs, history
  <1>2. FrameInv'
    BY Parts DEF FrameInv, Workers
  <1>3. LockInv'
    BY Parts DEF LockInv, HoldsCommand, InStop
  <1>4. BarriersCounted'
    <2>1. Stopping' = Stopping
      BY DEF Stopping, InStop
    <2>2. QED
      BY <1>1, <2>1, Parts DEF BarriersCounted
  <1>5. RunInv'
    BY <1>1, Parts DEF RunInv
  <1>6. StartupInv'
    <2>1. starting => at'[runEpoch].pc = "none"
      BY RunIsLoop, Parts DEF StartupInv, RunInv, Workers
    <2>2. \A r \in Requests : InStartup(at'[r]) /\ running /\ runEpoch = at'[r].epoch => InStartup(at[r]) /\ Valid(r)
      BY DEF Workers, Valid
    <2>3. QED
      BY <1>1, <2>1, <2>2, Parts DEF StartupInv, Valid
  <1>7. SendInv'
    <2>1. \A h \in Workers : at[h].pc = "halt" => at'[h] = at[h]
      BY DEF InStop
    <2>2. \A h \in Workers : at'[h].pc = "send" => Valid(h)' \/ (at[h].pc = "send" /\ at'[h] = at[h])
      BY <1>1 DEF Valid
    <2>3. QED
      BY <1>1, <2>1, <2>2, Parts DEF SendInv, Valid
  <1>8. StopIsLast'
    BY <1>1, Parts DEF StopIsLast, RunInv
  <1>9. DeviceInv'
    <2>1. \A h \in Workers : EndsMotion(at[h]) => EndsMotion(at'[h])
      BY DEF InStop, EndsMotion
    <2>2. at[g].pc = "send" => running \/ \E h \in Workers : EndsMotion(at[h])
      BY Parts DEF SendInv, Valid, EndsMotion
    <2>3. QED
      BY <1>1, <2>1, <2>2, Parts DEF DeviceInv
  <1>10. CompletingInv'
    BY <1>1, Parts DEF CompletingInv, InStop
  <1>11. NothingToResume' /\ RunIsAdmitted'
    BY <1>1, Parts DEF NothingToResume, RunIsAdmitted
  <1>12. EditInv'
    <2>1. CASE planID' = planID
      BY <1>1, <2>1, Parts DEF EditInv, Valid, Workers
    <2>2. CASE targetMu = g
      <3>1. \A r \in Requests : r # g => ~Editing(at'[r])
        BY <2>2, Parts DEF LockInv, HoldsTarget, Editing, Workers
      <3>2. QED
        BY <1>1, <3>1 DEF EditInv, Valid
    <2>3. QED
      BY <2>1, <2>2
  <1>13. GapInv'
    BY <1>1, Parts DEF GapInv
  <1>14. QED
    BY <1>2, <1>3, <1>4, <1>5, <1>6, <1>7, <1>8, <1>9, <1>10, <1>11, <1>12, <1>13 DEF IInv

(* What g may go on with in its run, without a lock it does not hold.      *)
Continues(g, f) ==
  /\ f \in Frames /\ f.pc \notin {"none", "send"} /\ ~InStop(f) /\ f.epoch <= runEpoch
  /\ g \in Requests => RequestFrame(f)
  /\ g \in Loops => LoopFrame(g, f)
  /\ InStartup(f) /\ running /\ f.epoch = runEpoch => InStartup(at[g]) /\ at[g].epoch = runEpoch
  /\ Editing(f) => Editing(at[g]) /\ f.epoch = at[g].epoch /\ f.want = at[g].want
  /\ HoldsTarget(f) => HoldsTarget(at[g])

(* A step that does no more than that.                                     *)
LEMMA ContinueKeeps ==
  ASSUME IInv, NEW g \in Workers, NEW f, Continues(g, f), ~InStop(at[g]), at[g].pc # "none",
         at' = [at EXCEPT ![g] = f],
         UNCHANGED <<flags, epochs, linearStartPending, plan, resets, loopRef, commandMu, targetMu,
                     wire, history>>
  PROVE  IInv'
  <1>1. /\ running' = running /\ starting' = starting /\ completing' = completing /\ paused' = paused
        /\ runEpoch' = runEpoch /\ stopGeneration' = stopGeneration /\ stopBarriers' = stopBarriers
        /\ generation' = generation /\ planID' = planID /\ only' = only /\ gap' = gap
        /\ recovery' = recovery /\ resetting' = resetting /\ done' = done /\ cancelled' = cancelled
        /\ device' = device /\ stopFailed' = stopFailed /\ fenced' = fenced
        /\ pausedAt' = pausedAt /\ admittedAt' = admittedAt
        /\ linearStartPending' = linearStartPending /\ commandMu' = commandMu /\ targetMu' = targetMu
    BY DEF flags, epochs, plan, resets, loopRef, wire, history
  <1>2. f \in Frames /\ at'[g] = f /\ \A h \in Workers : h # g => at'[h] = at[h]
    BY Parts DEF Continues, TypeOK
  <1>3. TypeOK'
    BY <1>1, Parts DEF TypeOK, Continues
  <1>4. HoldsTarget(f) => targetMu' = g
    BY <1>1, Parts DEF Continues, LockInv
  <1>5. Editing(f) /\ f.epoch = runEpoch /\ running => f.want \in {0, planID'}
    <2>1. Editing(f) => g \in Requests
      BY TwoKinds DEF Continues, Editing, LoopFrame
    <2>2. QED
      BY <1>1, <2>1, Parts DEF Continues, EditInv, Valid
  <1>6. QED
    BY <1>1, <1>2, <1>3, <1>4, <1>5, QuietKeeps DEF Continues, flags, epochs, history

(* The frames that the model's steps go to.                                *)
LEMMA IdleFrame ==
  /\ Idle \in Frames
  /\ Idle.pc = "idle" /\ Idle.op = "none" /\ Idle.epoch = 0 /\ Idle.cmd = "none" /\ Idle.halt = "none"
  BY EngineAssumption DEF Idle, Frames, PCs

(* A method that returns gives nothing up but its locks.                   *)
LEMMA ReturnedContinues ==
  ASSUME IInv, NEW g \in Requests, at[g].pc # "targetLock"
  PROVE  Continues(g, Returned(g))
  <1>1. Idle \in Frames /\ runEpoch >= 0
    BY IdleFrame, Parts DEF TypeOK
  <1>2. CASE at[g].op \in {"target", "promote", "refresh", "vibrate"}
    <2> DEFINE f == [Idle EXCEPT !.pc = "return", !.op = at[g].op]
    <2>1. f \in Frames /\ f.pc = "return" /\ f.op = at[g].op /\ f.epoch = 0
      BY ZenonT(40), <1>2, IdleFrame DEF Frames, PCs, AllOperations
    <2>2. Returned(g) = f
      BY <1>2 DEF Returned
    <2>3. RequestFrame(f) /\ ~InStop(f) /\ ~InStartup(f) /\ ~Editing(f) /\ HoldsTarget(at[g])
      BY <1>2, <2>1 DEF RequestFrame, InStop, InStartup, Editing, HoldsTarget
    <2>4. QED
      BY <1>1, <2>1, <2>2, <2>3, TwoKinds DEF Continues, Workers
  <1>3. CASE at[g].op \notin {"target", "promote", "refresh", "vibrate"}
    <2>1. Returned(g) = Idle
      BY <1>3 DEF Returned
    <2>2. RequestFrame(Idle) /\ ~InStop(Idle) /\ ~InStartup(Idle) /\ ~Editing(Idle) /\ ~HoldsTarget(Idle)
      BY IdleFrame DEF RequestFrame, InStop, InStartup, Editing, HoldsTarget
    <2>3. QED
      BY <1>1, <2>1, <2>2, IdleFrame, TwoKinds DEF Continues, Workers
  <1>4. QED
    BY <1>2, <1>3

(* It unlocks targetMu on the way, or is idle at once.                     *)
LEMMA ReturnedPlace ==
  ASSUME NEW g \in Requests
  PROVE  Returned(g).pc \in {"idle", "return"}
  <1>1. CASE at[g].op \in {"target", "promote", "refresh", "vibrate"}
    <2> DEFINE f == [Idle EXCEPT !.pc = "return", !.op = at[g].op]
    <2>1. f.pc = "return"
      BY IdleFrame DEF Frames
    <2>2. QED
      BY <1>1, <2>1 DEF Returned
  <1>2. CASE at[g].op \notin {"target", "promote", "refresh", "vibrate"}
    BY <1>2, IdleFrame DEF Returned
  <1>3. QED
    BY <1>1, <1>2

(* Where an error takes the caller of a command.                           *)
LEMMA FailedContinues ==
  ASSUME IInv, NEW g \in Workers, at[g].pc \in {"health", "command", "send", "vibrateFault"}
  PROVE  Continues(g, Failed(g))
  <1>1. at[g] \in Frames /\ at[g].epoch <= runEpoch
    BY Parts DEF TypeOK, RunInv
  <1>2. CASE g \in Requests /\ at[g].op \in Startups
    <2> DEFINE f == [at[g] EXCEPT !.pc = "abort"]
    <2>1. f \in Frames /\ f.pc = "abort" /\ f.op = at[g].op /\ f.epoch = at[g].epoch
      BY <1>1 DEF Frames, PCs
    <2>2. Failed(g) = f
      BY <1>2 DEF Failed, Startups
    <2>3. InStartup(at[g])
      BY <1>2, Parts DEF FrameInv, RequestFrame, InStartup, Startups
    <2>4. RequestFrame(f) /\ ~InStop(f) /\ ~Editing(f) /\ (HoldsTarget(f) => HoldsTarget(at[g]))
      BY <1>2, <2>1 DEF RequestFrame, InStop, Editing, HoldsTarget, Startups
    <2>5. QED
      BY <1>1, <1>2, <2>1, <2>2, <2>3, <2>4, TwoKinds DEF Continues
  <1>3. CASE g \in Requests /\ at[g].op \notin Startups
    <2>1. at[g].op # "loop"
      BY <1>3, Parts DEF FrameInv, RequestFrame
    <2>2. Failed(g) = Returned(g)
      BY <1>3, <2>1 DEF Failed, Startups
    <2>3. QED
      BY <1>3, <2>2, ReturnedContinues
  <1>4. CASE g \in Loops /\ at[g].cmd = "append"
    <2> DEFINE f == [at[g] EXCEPT !.pc = "vibrate"]
    <2>1. f \in Frames /\ f.pc = "vibrate" /\ f.op = at[g].op /\ f.epoch = at[g].epoch
      BY <1>1 DEF Frames, PCs
    <2>2. LoopFrame(g, at[g])
      BY <1>4, Parts DEF FrameInv
    <2>3. Failed(g) = f
      BY <1>4, <2>2 DEF Failed, LoopFrame
    <2>4. /\ LoopFrame(g, f) /\ ~InStop(f) /\ ~Editing(f) /\ ~InStartup(f) /\ ~HoldsTarget(f)
      BY <2>1, <2>2 DEF LoopFrame, InStop, Editing, HoldsTarget, InStartup, Startups
    <2>5. QED
      BY <1>1, <1>4, <2>1, <2>3, <2>4, TwoKinds DEF Continues
  <1>5. CASE g \in Loops /\ at[g].cmd # "append"
    <2> DEFINE f == [at[g] EXCEPT !.pc = "select", !.cmd = "none"]
    <2>1. f \in Frames /\ f.pc = "select" /\ f.op = at[g].op /\ f.epoch = at[g].epoch
      BY <1>1 DEF Frames, PCs
    <2>2. LoopFrame(g, at[g])
      BY <1>5, Parts DEF FrameInv
    <2>3. Failed(g) = f
      BY <1>5, <2>2 DEF Failed, LoopFrame
    <2>4. /\ LoopFrame(g, f) /\ ~InStop(f) /\ ~Editing(f) /\ ~InStartup(f) /\ ~HoldsTarget(f)
      BY <2>1, <2>2 DEF LoopFrame, InStop, Editing, HoldsTarget, InStartup, Startups
    <2>5. QED
      BY <1>1, <1>5, <2>1, <2>3, <2>4, TwoKinds DEF Continues
  <1>6. QED
    BY <1>2, <1>3, <1>4, <1>5, TwoKinds

(* Where a success takes it.                                               *)
LEMMA NextContinues ==
  ASSUME IInv, NEW g \in Workers, at[g].pc = "send", NEW f \in NextCommand(g)
  PROVE  Continues(g, f)
  <1>1. at[g] \in Frames /\ at[g].epoch <= runEpoch /\ at[g].tries \in Nat
    BY Parts DEF TypeOK, RunInv, Frames
  <1>2. g \in Requests => RequestFrame(at[g])
    BY Parts DEF FrameInv
  <1>3. g \in Loops => LoopFrame(g, at[g])
    BY Parts DEF FrameInv
  <1>4. Continues(g, Failed(g)) /\ (g \in Requests => Continues(g, Returned(g)))
    BY FailedContinues, ReturnedContinues
  <1>5. CASE f = Failed(g) \/ (g \in Requests /\ f = Returned(g))
    BY <1>4, <1>5
  <1>6. CASE g \in Requests /\ at[g].op \in Startups /\ f # Failed(g)
    <2>1. at[g].cmd \in StartupCommands
      BY <1>2, <1>6 DEF RequestFrame, Startups, Edits
    <2>2. \/ \E p \in {"command", "health", "launch"}, c \in StartupCommands :
               f = [at[g] EXCEPT !.pc = p, !.cmd = c, !.tries = 0]
          \/ \E p \in {"command", "health"} : f = [at[g] EXCEPT !.pc = p, !.tries = at[g].tries + 1]
      BY <1>6, <2>1 DEF NextCommand, StartupCommands
    <2>3. /\ f \in Frames /\ f.pc \in {"command", "health", "launch"} /\ f.op = at[g].op
          /\ f.epoch = at[g].epoch /\ f.cmd \in StartupCommands
      <3>1. CASE \E p \in {"command", "health", "launch"}, c \in StartupCommands :
                   f = [at[g] EXCEPT !.pc = p, !.cmd = c, !.tries = 0]
        <4>1. PICK p \in {"command", "health", "launch"}, c \in StartupCommands :
                f = [at[g] EXCEPT !.pc = p, !.cmd = c, !.tries = 0]
          BY <3>1
        <4>2. p \in PCs /\ c \in Commands \cup {"none"} /\ 0 \in Nat
          BY DEF PCs, Commands
        <4>3. QED
          BY <1>1, <4>1, <4>2 DEF Frames
      <3>2. CASE \E p \in {"command", "health"} : f = [at[g] EXCEPT !.pc = p, !.tries = at[g].tries + 1]
        <4>1. PICK p \in {"command", "health"} : f = [at[g] EXCEPT !.pc = p, !.tries = at[g].tries + 1]
          BY <3>2
        <4>2. p \in PCs /\ at[g].tries + 1 \in Nat
          BY <1>1 DEF PCs
        <4>3. QED
          BY <1>1, <2>1, <4>1, <4>2 DEF Frames
      <3>3. QED
        BY <2>2, <3>1, <3>2
    <2>4. /\ RequestFrame(f) /\ ~InStop(f) /\ ~Editing(f) /\ InStartup(at[g])
          /\ HoldsTarget(f) => HoldsTarget(at[g])
      BY <1>6, <2>3 DEF RequestFrame, InStop, Editing, InStartup, HoldsTarget, Startups
    <2>5. QED
      BY <1>1, <1>6, <2>3, <2>4, TwoKinds DEF Continues
  <1>7. CASE g \in Requests /\ at[g].op \in {"target", "refresh"} /\ f # Failed(g) /\ f # Returned(g)
    <2>1. at[g].cmd \in Edits
      BY <1>2, <1>7 DEF RequestFrame, Startups, Edits
    <2>2. \/ at[g].cmd = "lead" /\ f = [at[g] EXCEPT !.pc = "health", !.tries = at[g].tries + 1]
          \/ f = [at[g] EXCEPT !.pc = "health", !.cmd = "editPoints", !.tries = 0]
      BY <1>7, <2>1 DEF NextCommand, Edits
    <2>3. /\ f \in Frames /\ f.pc = "health" /\ f.op = at[g].op /\ f.epoch = at[g].epoch /\ f.cmd \in Edits
          /\ f.want = at[g].want /\ (f.cmd = "lead" => at[g].cmd = "lead")
      <3>1. /\ "health" \in PCs /\ at[g].tries + 1 \in Nat /\ 0 \in Nat
            /\ "editPoints" \in Edits /\ "editPoints" # "lead" /\ "editPoints" \in Commands \cup {"none"}
        BY <1>1 DEF PCs, Commands, Edits
      <3>2. CASE at[g].cmd = "lead" /\ f = [at[g] EXCEPT !.pc = "health", !.tries = at[g].tries + 1]
        BY <1>1, <2>1, <3>1, <3>2 DEF Frames
      <3>3. CASE f = [at[g] EXCEPT !.pc = "health", !.cmd = "editPoints", !.tries = 0]
        BY <1>1, <3>1, <3>3 DEF Frames
      <3>4. QED
        BY <2>2, <3>2, <3>3
    <2>4. /\ RequestFrame(f) /\ ~InStop(f) /\ ~InStartup(f)
          /\ Editing(f) => Editing(at[g])
          /\ HoldsTarget(f) => HoldsTarget(at[g])
      BY <1>7, <2>2, <2>3 DEF RequestFrame, InStop, Editing, InStartup, HoldsTarget, Startups
    <2>5. QED
      BY <1>1, <1>7, <2>3, <2>4, TwoKinds DEF Continues
  <1>8. CASE g \in Requests /\ at[g].op = "vibrate"
    <2>1. f = Returned(g)
      BY <1>2, <1>8, TwoKinds DEF RequestFrame, Startups, NextCommand
    <2>2. QED
      BY <1>4, <1>8, <2>1
  <1>9. CASE g \in Loops
    <2>1. PICK p \in {"vibrate", "select"}, c \in {"append", "none"} :
            f = [at[g] EXCEPT !.pc = p, !.cmd = c, !.tries = 0]
      BY <1>3, <1>9 DEF NextCommand, LoopFrame
    <2>2. f \in Frames /\ f.pc = p /\ f.op = at[g].op /\ f.epoch = at[g].epoch
      BY <1>1, <2>1 DEF Frames, PCs, Commands
    <2>3. LoopFrame(g, f) /\ ~InStop(f) /\ ~Editing(f) /\ ~InStartup(f) /\ ~HoldsTarget(f)
      BY <1>3, <1>9, <2>2 DEF LoopFrame, InStop, Editing, HoldsTarget, InStartup, Startups
    <2>4. QED
      BY <1>1, <1>9, <2>2, <2>3, TwoKinds DEF Continues
  <1>10. QED
    BY <1>2, <1>5, <1>6, <1>7, <1>8, <1>9, TwoKinds DEF RequestFrame

(* A request calls a method that first waits for a lock or its admission.  *)
LEMMA CallContinues ==
  ASSUME IInv, NEW g \in Requests, NEW f \in Frames, f.epoch = 0, f.cmd = "none",
         \/ f.op = "start" /\ f.pc = "begin"
         \/ f.op \in {"target", "refresh", "vibrate"} /\ f.pc = "targetLock"
         \/ f.op = "reset" /\ f.pc = "resetCall"
  PROVE  Continues(g, f)
  <1>1. RequestFrame(f) /\ ~InStop(f) /\ ~Editing(f) /\ ~InStartup(f) /\ ~HoldsTarget(f)
    BY DEF RequestFrame, InStop, Editing, HoldsTarget, InStartup, Startups
  <1>2. QED
    BY <1>1, Parts, TwoKinds DEF Continues, TypeOK, Workers

(* The calls that only wait for a lock, or take their admission.           *)
LEMMA CallKeeps ==
  ASSUME IInv, NEW g \in Requests,
         \/ StartAdmission(g)
         \/ \E id \in {0, planID} : TargetCall(g, id)
         \/ RefreshCall(g)
         \/ \E id \in {0, generation} : VibrateCall(g, id)
         \/ ResetCall(g)
  PROVE  IInv'
  <1>1. stopGeneration \in Nat /\ planID \in Nat /\ generation \in Nat /\ recovery \in Nat
    BY Parts DEF TypeOK
  <1>2. CASE StartAdmission(g)
    <2> DEFINE f == [Called(g, "start", "begin") EXCEPT !.admission = stopGeneration]
    <2>1. f \in Frames /\ f.pc = "begin" /\ f.op = "start" /\ f.epoch = 0 /\ f.cmd = "none"
      BY <1>1, <1>2, IdleFrame DEF Called, Frames, PCs, AllOperations
    <2>2. Continues(g, f)
      BY <2>1, CallContinues
    <2>3. QED
      BY <1>2, <2>2, ContinueKeeps DEF StartAdmission, Step, InStop, Workers
  <1>3. ASSUME NEW id \in {0, planID}, TargetCall(g, id) PROVE IInv'
    <2> DEFINE f == [Called(g, "target", "targetLock") EXCEPT !.want = id]
    <2>0. id \in Nat
      BY <1>1
    <2>1. f \in Frames /\ f.pc = "targetLock" /\ f.op = "target" /\ f.epoch = 0 /\ f.cmd = "none"
      BY <1>1, <2>0, IdleFrame DEF Called, Frames, PCs, AllOperations
    <2>2. Continues(g, f)
      BY <2>1, CallContinues
    <2>3. QED
      BY <1>3, <2>2, ContinueKeeps DEF TargetCall, Step, InStop, Workers
  <1>4. CASE RefreshCall(g)
    <2> DEFINE f == Called(g, "refresh", "targetLock")
    <2>1. f \in Frames /\ f.pc = "targetLock" /\ f.op = "refresh" /\ f.epoch = 0 /\ f.cmd = "none"
      BY <1>1, <1>4, IdleFrame DEF Called, Frames, PCs, AllOperations
    <2>2. Continues(g, f)
      BY <2>1, CallContinues
    <2>3. QED
      BY <1>4, <2>2, ContinueKeeps DEF RefreshCall, Step, InStop, Workers
  <1>5. ASSUME NEW id \in {0, generation}, VibrateCall(g, id) PROVE IInv'
    <2> DEFINE f == [Called(g, "vibrate", "targetLock") EXCEPT !.want = id, !.admission = stopGeneration]
    <2>0. id \in Nat
      BY <1>1
    <2>1. f \in Frames /\ f.pc = "targetLock" /\ f.op = "vibrate" /\ f.epoch = 0 /\ f.cmd = "none"
      BY <1>1, <2>0, IdleFrame DEF Called, Frames, PCs, AllOperations
    <2>2. Continues(g, f)
      BY <2>1, CallContinues
    <2>3. QED
      BY <1>5, <2>2, ContinueKeeps DEF VibrateCall, Step, InStop, Workers
  <1>6. CASE ResetCall(g)
    <2> DEFINE f == [Called(g, "reset", "resetCall") EXCEPT !.want = recovery, !.admission = stopGeneration]
    <2>1. f \in Frames /\ f.pc = "resetCall" /\ f.op = "reset" /\ f.epoch = 0 /\ f.cmd = "none"
      BY <1>1, <1>6, IdleFrame DEF Called, Frames, PCs, AllOperations
    <2>2. Continues(g, f)
      BY <2>1, CallContinues
    <2>3. QED
      BY <1>6, <2>2, ContinueKeeps DEF ResetCall, Step, InStop, Workers
  <1>7. QED
    BY <1>2, <1>3, <1>4, <1>5, <1>6

(* The rest of a command's caller: it finds its run over and returns, goes *)
(* to the next place of its method or its loop, or gives up what it began. *)
LEMMA GoesOnKeeps ==
  ASSUME IInv, NEW g \in Workers,
         \/ Healthy(g) \/ Invalidated(g) \/ VibrateUnrecovered(g)
         \/ VibrationNeeded(g) \/ VibrationUnneeded(g)
  PROVE  IInv'
  <1>1. /\ at[g] \in Frames /\ at[g].epoch <= runEpoch
        /\ g \in Requests => RequestFrame(at[g])
        /\ g \in Loops => LoopFrame(g, at[g])
    <2>1. at[g].pc # "none"
      BY DEF Healthy, Invalidated, VibrateUnrecovered, VibrationNeeded, VibrationUnneeded, Goto, Step
    <2>2. QED
      BY <2>1, Parts DEF TypeOK, RunInv, FrameInv
  <1>2. CASE Healthy(g)
    <2>1. PICK to \in HealthyNext(g) : Goto(g, "health", to)
      BY <1>2 DEF Healthy
    <2> DEFINE f == [at[g] EXCEPT !.pc = to]
    <2>2. /\ to \in {"command", "commit", "vibrate"} /\ at[g].pc = "health"
          /\ to = "commit" => at[g].cmd = "lead"
          /\ to = "vibrate" => at[g].cmd = "append"
      BY <2>1 DEF HealthyNext, Goto, Step
    <2>3. to \in PCs
      BY <2>2 DEF PCs
    <2>4. f \in Frames /\ f.pc = to /\ f.op = at[g].op /\ f.epoch = at[g].epoch /\ f.cmd = at[g].cmd
          /\ f.want = at[g].want
      BY <1>1, <2>3 DEF Frames
    <2>5. g \in Requests => RequestFrame(f) /\ (InStartup(f) => InStartup(at[g]))
      BY <1>1, <2>2, <2>4 DEF RequestFrame, InStartup, Edits, Startups, StartupCommands
    <2>6. g \in Loops => LoopFrame(g, f) /\ ~InStartup(f)
      BY <1>1, <2>2, <2>4 DEF LoopFrame, InStartup, Startups
    <2>7. /\ ~InStop(f) /\ (HoldsTarget(f) => HoldsTarget(at[g]))
          /\ Editing(f) => Editing(at[g])
      BY <2>2, <2>4 DEF InStop, HoldsTarget, Editing
    <2>8. Continues(g, f)
      BY <1>1, <2>2, <2>4, <2>5, <2>6, <2>7, TwoKinds DEF Continues
    <2>9. QED
      BY <1>2, <2>1, <2>2, <2>8, ContinueKeeps DEF Healthy, Goto, Step, InStop
  <1>3. CASE Invalidated(g)
    BY <1>3, FailedContinues, ContinueKeeps DEF Invalidated, Step, InStop
  <1>4. CASE VibrateUnrecovered(g)
    BY <1>4, FailedContinues, ContinueKeeps DEF VibrateUnrecovered, Step, InStop
  <1>5. CASE VibrationNeeded(g)
    <2> DEFINE f == [at[g] EXCEPT !.pc = "command", !.cmd = "vibration"]
    <2>1. /\ f \in Frames /\ f.pc = "command" /\ f.op = at[g].op /\ f.epoch = at[g].epoch
          /\ f.cmd = "vibration"
      BY <1>1 DEF Frames, PCs, Commands
    <2>2. g \in Loops /\ LoopFrame(g, f)
      BY <1>1, <1>5, <2>1 DEF VibrationNeeded, LoopFrame
    <2>3. ~InStop(f) /\ ~InStartup(f) /\ ~HoldsTarget(f) /\ ~Editing(f)
      BY <2>1, <2>2 DEF InStop, HoldsTarget, Editing, InStartup, Startups, LoopFrame
    <2>4. Continues(g, f)
      BY <1>1, <2>1, <2>2, <2>3, TwoKinds DEF Continues
    <2>5. QED
      BY <1>5, <2>4, ContinueKeeps DEF VibrationNeeded, Step, InStop
  <1>6. CASE VibrationUnneeded(g)
    <2> DEFINE f == [at[g] EXCEPT !.pc = "select", !.cmd = "none"]
    <2>1. /\ f \in Frames /\ f.pc = "select" /\ f.op = at[g].op /\ f.epoch = at[g].epoch
      BY <1>1 DEF Frames, PCs
    <2>2. g \in Loops /\ LoopFrame(g, f)
      BY <1>1, <1>6, <2>1 DEF VibrationUnneeded, LoopFrame
    <2>3. ~InStop(f) /\ ~InStartup(f) /\ ~HoldsTarget(f) /\ ~Editing(f)
      BY <2>1, <2>2 DEF InStop, HoldsTarget, Editing, InStartup, Startups, LoopFrame
    <2>4. Continues(g, f)
      BY <1>1, <2>1, <2>2, <2>3, TwoKinds DEF Continues
    <2>5. QED
      BY <1>6, <2>4, ContinueKeeps DEF VibrationUnneeded, Step, InStop
  <1>7. QED
    BY <1>2, <1>3, <1>4, <1>5, <1>6

(* A loop takes a tick, or exits when its context is cancelled.            *)
LEMMA LoopGoesOnKeeps ==
  ASSUME IInv, NEW k \in Loops, LoopExit(k) \/ Tick(k)
  PROVE  IInv'
  <1>1. at[k] \in Frames /\ at[k].epoch <= runEpoch /\ LoopFrame(k, at[k]) /\ k \in Workers
    <2>1. k \in Workers
      BY DEF Workers
    <2>2. at[k].pc = "select"
      BY DEF LoopExit, Tick, Goto, Step
    <2>3. QED
      BY <2>1, <2>2, Parts DEF TypeOK, RunInv, FrameInv
  <1>2. CASE LoopExit(k)
    <2> DEFINE f == [at[k] EXCEPT !.pc = "exited"]
    <2>1. f \in Frames /\ f.pc = "exited" /\ f.op = at[k].op /\ f.epoch = at[k].epoch
      BY <1>1 DEF Frames, PCs
    <2>2. LoopFrame(k, f) /\ ~InStop(f) /\ ~InStartup(f) /\ ~HoldsTarget(f) /\ ~Editing(f)
      BY <1>1, <2>1 DEF InStop, HoldsTarget, Editing, InStartup, Startups, LoopFrame
    <2>3. Continues(k, f)
      BY <1>1, <2>1, <2>2, TwoKinds DEF Continues
    <2>4. QED
      BY <1>1, <1>2, <2>3, ContinueKeeps DEF LoopExit, Goto, Step, InStop
  <1>3. CASE Tick(k)
    <2> DEFINE f == [at[k] EXCEPT !.pc = "health", !.cmd = "append"]
    <2>1. /\ f \in Frames /\ f.pc = "health" /\ f.op = at[k].op /\ f.epoch = at[k].epoch
          /\ f.cmd = "append"
      BY <1>1 DEF Frames, PCs, Commands
    <2>2. LoopFrame(k, f) /\ ~InStop(f) /\ ~InStartup(f) /\ ~HoldsTarget(f) /\ ~Editing(f)
      BY <1>1, <2>1 DEF InStop, HoldsTarget, Editing, InStartup, Startups, LoopFrame
    <2>3. Continues(k, f)
      BY <1>1, <2>1, <2>2, TwoKinds DEF Continues
    <2>4. QED
      BY <1>1, <1>3, <2>3, ContinueKeeps DEF Tick, Step, InStop
  <1>4. QED
    BY <1>2, <1>3

(* A request gives up or goes to the next place of its method.             *)
LEMMA RequestGoesOnKeeps ==
  ASSUME IInv, NEW g \in Requests,
         \/ BeginRefused(g) \/ StartLoopInvalidated(g) \/ PromoteRefused(g) \/ CommitRefused(g)
         \/ VibrateRefused(g) \/ ResetRefused(g) \/ RequestCancelled(g) \/ AbortUnneeded(g)
         \/ EditPlan(g)
  PROVE  IInv'
  <1>1. /\ at[g] \in Frames /\ RequestFrame(at[g]) /\ g \in Workers
        /\ at[g].pc # "none" => at[g].epoch <= runEpoch
    BY Parts DEF TypeOK, RunInv, FrameInv, Workers
  <1>2. CASE \/ BeginRefused(g) \/ StartLoopInvalidated(g) \/ PromoteRefused(g) \/ CommitRefused(g)
             \/ VibrateRefused(g)
    BY <1>1, <1>2, ReturnedContinues, ContinueKeeps
       DEF BeginRefused, StartLoopInvalidated, PromoteRefused, CommitRefused, VibrateRefused, Step, InStop
  <1>3. CASE ResetRefused(g)
    <2>1. RequestFrame(Idle) /\ ~InStop(Idle) /\ ~InStartup(Idle) /\ ~Editing(Idle) /\ ~HoldsTarget(Idle)
      BY IdleFrame DEF RequestFrame, InStop, InStartup, Editing, HoldsTarget
    <2>2. Continues(g, Idle)
      BY <2>1, IdleFrame, TwoKinds, Parts DEF Continues, Workers, TypeOK
    <2>3. QED
      BY <1>1, <1>3, <2>2, ContinueKeeps DEF ResetRefused, Step, InStop
  <1>4. CASE RequestCancelled(g)
    <2> DEFINE f == [at[g] EXCEPT !.pc = "abort"]
    <2>1. f \in Frames /\ f.pc = "abort" /\ f.op = at[g].op /\ f.epoch = at[g].epoch /\ at[g].pc = "launch"
      BY <1>1, <1>4 DEF RequestCancelled, Step, Frames, PCs
    <2>2. /\ RequestFrame(f) /\ ~InStop(f) /\ InStartup(at[g]) /\ ~Editing(f)
          /\ HoldsTarget(f) => HoldsTarget(at[g])
      BY <1>1, <2>1 DEF InStop, HoldsTarget, Editing, InStartup, RequestFrame
    <2>3. Continues(g, f)
      BY <1>1, <2>1, <2>2, TwoKinds DEF Continues
    <2>4. QED
      BY <1>1, <1>4, <2>3, ContinueKeeps DEF RequestCancelled, Step, InStop
  <1>5. CASE AbortUnneeded(g)
    <2>1. at[g].pc = "abort" /\ Continues(g, Returned(g))
      BY <1>5, ReturnedContinues DEF AbortUnneeded, Step
    <2> DEFINE f == [at[g] EXCEPT !.pc = "restore"]
    <2>2. f \in Frames /\ f.pc = "restore" /\ f.op = at[g].op /\ f.epoch = at[g].epoch
      BY <1>1 DEF Frames, PCs
    <2>3. /\ RequestFrame(f) /\ ~InStop(f) /\ ~InStartup(f) /\ ~Editing(f)
          /\ HoldsTarget(f) => HoldsTarget(at[g])
      BY <1>1, <2>1, <2>2 DEF InStop, HoldsTarget, Editing, InStartup, RequestFrame
    <2>4. Continues(g, f)
      BY <1>1, <2>1, <2>2, <2>3, TwoKinds DEF Continues
    <2>5. AfterAbort(g) = f \/ AfterAbort(g) = Returned(g)
      BY DEF AfterAbort
    <2>6. Continues(g, AfterAbort(g))
      BY <2>1, <2>4, <2>5
    <2>7. QED
      BY <1>1, <1>5, <2>6, ContinueKeeps DEF AbortUnneeded, Step, InStop
  <1>6. CASE EditPlan(g)
    <2> DEFINE f == [at[g] EXCEPT !.pc = "health"]
    <2>1. /\ f \in Frames /\ f.pc = "health" /\ f.op = at[g].op /\ f.epoch = at[g].epoch /\ f.cmd = at[g].cmd
          /\ f.want = at[g].want /\ at[g].pc = "edit"
      BY <1>1, <1>6 DEF EditPlan, Goto, Step, Frames, PCs
    <2>2. /\ RequestFrame(f) /\ ~InStop(f) /\ ~InStartup(f) /\ Editing(at[g])
          /\ HoldsTarget(f) => HoldsTarget(at[g])
      BY <1>1, <2>1 DEF InStop, HoldsTarget, Editing, InStartup, RequestFrame, Edits, Startups
    <2>3. Continues(g, f)
      BY <1>1, <2>1, <2>2, TwoKinds DEF Continues
    <2>4. QED
      BY <1>1, <1>6, <2>3, ContinueKeeps DEF EditPlan, Goto, Step, InStop
  <1>7. QED
    BY <1>2, <1>3, <1>4, <1>5, <1>6

-----------------------------------------------------------------------------
(* What a frame that goes on with an edit knows of the plan.               *)
LEMMA ContinuesEdit ==
  ASSUME IInv, NEW g \in Workers, NEW f, Continues(g, f), Editing(f), f.epoch = runEpoch, running
  PROVE  f.want \in {0, planID}
  <1>1. g \in Requests
    BY TwoKinds DEF Continues, Editing, LoopFrame
  <1>2. QED
    BY <1>1, Parts DEF Continues, EditInv, Valid

(* What the fields of a frame may be.                                      *)
LEMMA FrameTypes ==
  ASSUME TypeOK, NEW g \in Workers
  PROVE  /\ at[g] \in Frames /\ at[g].epoch \in 0 .. MaxEpoch /\ at[g].awaits \in 0 .. MaxEpoch
         /\ at[g].admission \in Nat /\ at[g].want \in Nat /\ at[g].verdict \in BOOLEAN
  BY DEF TypeOK, Frames

(* Steps that take or leave a lock.                                        *)
LEMMA AdmitKeeps ==
  ASSUME IInv, NEW g \in Workers, AdmitCommand(g)
  PROVE  IInv'
  <1>1. CASE ~Valid(g)
    BY <1>1, FailedContinues, ContinueKeeps DEF AdmitCommand, Step, InStop
  <1>2. CASE Valid(g)
    <2> DEFINE f == [at[g] EXCEPT !.pc = "send"]
    <2>1. /\ at[g].pc = "command" /\ at' = [at EXCEPT ![g] = f] /\ commandMu = None /\ commandMu' = g
          /\ running /\ runEpoch = at[g].epoch /\ at[g] \in Frames /\ at[g].epoch <= runEpoch
      BY <1>2, Parts DEF AdmitCommand, Goto, Step, Valid, TypeOK, RunInv
    <2>2. /\ f \in Frames /\ f.pc = "send" /\ f.op = at[g].op /\ f.epoch = at[g].epoch /\ f.cmd = at[g].cmd
          /\ f.want = at[g].want
      BY <2>1 DEF Frames, PCs
    <2>3. /\ running' = running /\ starting' = starting /\ completing' = completing /\ paused' = paused
          /\ runEpoch' = runEpoch /\ stopGeneration' = stopGeneration /\ stopBarriers' = stopBarriers
          /\ generation' = generation /\ planID' = planID /\ only' = only /\ gap' = gap
          /\ recovery' = recovery /\ resetting' = resetting /\ done' = done /\ cancelled' = cancelled
          /\ device' = device /\ stopFailed' = stopFailed /\ fenced' = fenced
          /\ pausedAt' = pausedAt /\ admittedAt' = admittedAt
          /\ linearStartPending' = linearStartPending /\ targetMu' = targetMu
      BY DEF AdmitCommand, flags, epochs, plan, resets, loopRef, wire, history
    <2>4. at'[g] = f /\ \A h \in Workers : h # g => at'[h] = at[h]
      BY <2>1, Parts DEF TypeOK
    <2>5. TypeOK'
      BY <2>1, <2>2, <2>3, Parts DEF TypeOK
    <2>6. g \in Requests => RequestFrame(f)
      BY <2>1, <2>2, Parts DEF FrameInv, RequestFrame
    <2>7. g \in Loops => LoopFrame(g, f)
      BY <2>1, <2>2, Parts DEF FrameInv, LoopFrame
    <2>8. InStartup(f) => InStartup(at[g])
      BY <2>1, <2>2 DEF InStartup
    <2>9. Editing(f) => f.want \in {0, planID'}
      <3>1. Editing(f) => Editing(at[g]) /\ g \in Requests
        BY <2>1, <2>2, <2>7, TwoKinds DEF Editing, LoopFrame
      <3>2. QED
        BY <1>2, <2>2, <2>3, <3>1, Parts DEF EditInv
    <2>10. /\ HoldsTarget(f) => targetMu' = g
           /\ ~InStop(f) /\ ~InStop(at[g])
      BY <2>1, <2>2, <2>3, Parts DEF LockInv, HoldsTarget, InStop
    <2>11. \A h \in Workers : h # None
      BY EngineAssumption DEF Workers, Loops
    <2>12. UNCHANGED <<flags, epochs, fenced, history>>
      BY <2>3 DEF flags, epochs, history
    <2>13. QED
      BY <2>1, <2>2, <2>3, <2>4, <2>5, <2>6, <2>7, <2>8, <2>9, <2>10, <2>11, <2>12, QuietKeeps
  <1>3. QED
    BY <1>1, <1>2

(* A chunk that the sampler refuses, in content without dense windows,     *)
(* leaves no gap.                                                          *)
LEMMA SampleFailedKeeps ==
  ASSUME IInv, NEW g \in Workers, SampleFailed(g)
  PROVE  IInv'
  <1> DEFINE f == Failed(g)
  <1>1. /\ at[g].pc = "command" /\ at' = [at EXCEPT ![g] = f]
        /\ gap' = gap \/ DenseContent
        /\ gap' = gap \/ gap' = TRUE
        /\ Continues(g, f)
    BY FailedContinues, EngineAssumption DEF SampleFailed, Step
  <1>2. /\ running' = running /\ starting' = starting /\ completing' = completing /\ paused' = paused
        /\ runEpoch' = runEpoch /\ stopGeneration' = stopGeneration /\ stopBarriers' = stopBarriers
        /\ generation' = generation /\ planID' = planID /\ only' = only
        /\ recovery' = recovery /\ resetting' = resetting /\ done' = done /\ cancelled' = cancelled
        /\ device' = device /\ stopFailed' = stopFailed /\ fenced' = fenced
        /\ pausedAt' = pausedAt /\ admittedAt' = admittedAt
        /\ linearStartPending' = linearStartPending /\ targetMu' = targetMu /\ commandMu' = commandMu
    BY DEF SampleFailed, flags, epochs, resets, loopRef, wire, history
  <1>3. f \in Frames /\ at'[g] = f /\ \A h \in Workers : h # g => at'[h] = at[h]
    BY <1>1, Parts DEF TypeOK, Continues
  <1>4. TypeOK'
    <2>1. gap' \in BOOLEAN
      BY <1>1, Parts DEF TypeOK
    <2>2. at' \in [Workers -> Frames]
      BY <1>1, <1>3, Parts DEF TypeOK
    <2>3. QED
      BY SMTT(30), <1>2, <2>1, <2>2, Parts DEF TypeOK
  <1>5. UNCHANGED <<flags, epochs, fenced, history>>
    BY <1>2 DEF flags, epochs, history
  <1>6. Editing(f) /\ f.epoch = runEpoch /\ running => f.want \in {0, planID'}
    BY <1>1, <1>2, ContinuesEdit
  <1>7. HoldsTarget(f) => targetMu' = g
    BY <1>1, <1>2, Parts DEF Continues, LockInv
  <1>8. ~InStop(at[g]) /\ at[g].pc # "none" /\ (gap' = gap \/ DenseContent)
    BY <1>1 DEF InStop
  <1>9. QED
    BY <1>1, <1>2, <1>3, <1>4, <1>5, <1>6, <1>7, <1>8, QuietKeeps DEF Continues

(* What the transport and the device may be after a command.               *)
LEMMA UncertainTypes ==
  ASSUME TypeOK, NEW g \in Workers, Uncertain(g)
  PROVE  fenced' = fenced /\ device' \in 0 .. MaxEpoch /\ stopFailed' \in BOOLEAN
  <1>1. device \in 0 .. MaxEpoch /\ 0 \in 0 .. MaxEpoch /\ at[g].epoch \in 0 .. MaxEpoch
    BY FrameTypes, EngineAssumption DEF TypeOK
  <1>2. stopFailed \in BOOLEAN
    BY DEF TypeOK
  <1>3. CASE UNCHANGED wire
    BY <1>1, <1>2, <1>3 DEF wire
  <1>4. CASE Effect(g)
    <2>1. fenced' = fenced /\ device' \in {at[g].epoch, 0, device}
      BY <1>4 DEF Effect
    <2>2. stopFailed' \in BOOLEAN
      BY <1>4 DEF Effect
    <2>3. QED
      BY <1>1, <2>1, <2>2
  <1>5. QED
    BY <1>3, <1>4 DEF Uncertain

(* The outcome of a command: a success, or a failure that returns to the   *)
(* caller, after which commandMu is free.                                  *)
LEMMA OutcomeKeeps ==
  ASSUME IInv, NEW g \in Workers, at[g].pc = "send", NEW f, Continues(g, f),
         at' = [at EXCEPT ![g] = f],
         commandMu' = None,
         Uncertain(g),
         gap' = gap \/ (gap' = TRUE /\ ~Valid(g)),
         UNCHANGED <<flags, epochs, linearStartPending, generation, planID, only, resets, loopRef,
                     targetMu, history>>
  PROVE  IInv'
  <1>1. /\ running' = running /\ starting' = starting /\ completing' = completing /\ paused' = paused
        /\ runEpoch' = runEpoch /\ stopGeneration' = stopGeneration /\ stopBarriers' = stopBarriers
        /\ generation' = generation /\ planID' = planID /\ only' = only
        /\ recovery' = recovery /\ resetting' = resetting /\ done' = done /\ cancelled' = cancelled
        /\ pausedAt' = pausedAt /\ admittedAt' = admittedAt
        /\ linearStartPending' = linearStartPending /\ targetMu' = targetMu
    BY DEF flags, epochs, resets, loopRef, history
  <1>2. /\ fenced' = fenced
        /\ device' \in 0 .. MaxEpoch /\ stopFailed' \in BOOLEAN
    BY Parts, UncertainTypes
  <1>3. f \in Frames /\ at'[g] = f /\ \A h \in Workers : h # g => at'[h] = at[h]
    BY Parts DEF TypeOK, Continues
  <1>4. gap' = gap \/ ~running
    <2>1. ASSUME ~Valid(g) PROVE ~running
      <3>1. PICK h \in Workers : at[h].pc = "halt"
        BY <2>1, Parts DEF SendInv
      <3>2. QED
        BY <3>1, StopRaisesBarrier, Parts DEF InStop, RunInv, TypeOK
    <2>2. QED
      BY <2>1
  <1>5. TypeOK'
    BY <1>1, <1>2, <1>3, Parts DEF TypeOK
  <1>6. UNCHANGED <<flags, epochs, fenced, history>>
    BY <1>1, <1>2 DEF flags, epochs, history
  <1>7. Editing(f) /\ f.epoch = runEpoch /\ running => f.want \in {0, planID'}
    BY <1>1, ContinuesEdit
  <1>8. HoldsTarget(f) => targetMu' = g
    BY <1>1, Parts DEF Continues, LockInv
  <1>9. ~InStop(at[g]) /\ at[g].pc # "none" /\ commandMu = g
    BY Parts DEF InStop, LockInv, HoldsCommand
  <1>10. QED
    BY <1>1, <1>2, <1>3, <1>4, <1>5, <1>6, <1>7, <1>8, <1>9, QuietKeeps DEF Continues

(* A command succeeds.                                                     *)
LEMMA SucceededKeeps ==
  ASSUME IInv, NEW g \in Workers, CommandSucceeded(g)
  PROVE  IInv'
  <1>1. PICK f \in NextCommand(g) : Step(g, "send", f)
    BY DEF CommandSucceeded
  <1>2. gap' = gap
    BY DEF CommandSucceeded, plan
  <1>3. UNCHANGED <<flags, epochs, linearStartPending, generation, planID, only, resets, loopRef,
                     targetMu, history>>
    BY DEF CommandSucceeded, plan
  <1>4. QED
    BY <1>1, <1>2, <1>3, NextContinues, OutcomeKeeps DEF CommandSucceeded, Step, Uncertain

(* A command fails and its caller learns of it.                            *)
LEMMA CommandFailedKeeps ==
  ASSUME IInv, NEW g \in Workers, NEW notArrived \in BOOLEAN, CommandFailed(g, notArrived)
  PROVE  IInv'
  <1>1. /\ at[g].pc = "send" /\ at[g] \in Frames /\ at[g].epoch <= runEpoch
        /\ Continues(g, Failed(g))
    BY FailedContinues, Parts DEF CommandFailed, Step, TypeOK, RunInv
  <1>2. gap' = gap \/ (gap' = TRUE /\ ~Valid(g))
    BY Parts DEF CommandFailed, Recovers, TypeOK
  <1>3. CASE at[g].cmd = "vibration"
    <2> DEFINE f == [at[g] EXCEPT !.pc = "vibrateFault"]
    <2>1. /\ f \in Frames /\ f.pc = "vibrateFault" /\ f.op = at[g].op /\ f.epoch = at[g].epoch
          /\ f.cmd = at[g].cmd
      BY <1>1 DEF Frames, PCs
    <2>2. g \in Requests => RequestFrame(f)
      BY <1>1, <1>3, <2>1, Parts DEF FrameInv, RequestFrame, Startups, StartupCommands, Edits
    <2>3. g \in Loops => LoopFrame(g, f)
      BY <1>1, <2>1, Parts DEF FrameInv, LoopFrame
    <2>4. /\ ~InStop(f) /\ ~InStartup(f) /\ ~Editing(f) /\ (HoldsTarget(f) => HoldsTarget(at[g]))
      BY <1>1, <2>1 DEF InStop, InStartup, Editing, HoldsTarget
    <2>5. Continues(g, f)
      BY <1>1, <2>1, <2>2, <2>3, <2>4 DEF Continues
    <2>6. QED
      BY <1>1, <1>2, <1>3, <2>5, OutcomeKeeps DEF CommandFailed, Step
  <1>4. CASE at[g].cmd # "vibration"
    <2> DEFINE f == [Failed(g) EXCEPT !.verdict = notArrived]
    <2>1. Failed(g) \in Frames
      BY <1>1 DEF Continues
    <2>2. /\ f \in Frames /\ f.pc = Failed(g).pc /\ f.op = Failed(g).op /\ f.epoch = Failed(g).epoch
          /\ f.cmd = Failed(g).cmd /\ f.want = Failed(g).want
      BY <2>1 DEF Frames
    <2>3. Continues(g, f)
      BY <1>1, <2>2 DEF Continues, InStop, RequestFrame, LoopFrame, InStartup, Editing, HoldsTarget
    <2>4. QED
      BY <1>1, <1>2, <1>4, <2>3, OutcomeKeeps DEF CommandFailed, Step
  <1>5. QED
    BY <1>3, <1>4

(* A target operation takes targetMu, and looks at the run and the plan.   *)
LEMMA TargetLockKeeps ==
  ASSUME IInv, NEW g \in Requests, TargetLock(g)
  PROVE  IInv'
  <1> DEFINE edit == [at[g] EXCEPT !.epoch = runEpoch, !.cmd = "lead",
                                   !.pc = IF at[g].op = "target" THEN "edit" ELSE "health"]
             taken == running /\ ~starting /\ at[g].want \in {0, planID}
             f == IF taken THEN edit ELSE Returned(g)
  <1>1. /\ at[g].pc = "targetLock" /\ at' = [at EXCEPT ![g] = f] /\ g \in Workers
        /\ at[g].op \in {"target", "refresh"} /\ targetMu = None /\ targetMu' = g
        /\ runEpoch \in 0 .. MaxEpoch /\ at[g] \in Frames
    BY Parts, FrameTypes DEF TargetLock, Step, Workers, TypeOK
  <1>2. /\ running' = running /\ starting' = starting /\ completing' = completing /\ paused' = paused
        /\ runEpoch' = runEpoch /\ stopGeneration' = stopGeneration /\ stopBarriers' = stopBarriers
        /\ generation' = generation /\ planID' = planID /\ only' = only /\ gap' = gap /\ recovery' = recovery
        /\ resetting' = resetting /\ done' = done /\ cancelled' = cancelled /\ device' = device
        /\ stopFailed' = stopFailed /\ fenced' = fenced /\ pausedAt' = pausedAt /\ admittedAt' = admittedAt
        /\ linearStartPending' = linearStartPending /\ commandMu' = commandMu
    BY DEF TargetLock, flags, epochs, plan, resets, loopRef, wire, history
  <1>3. /\ f \in Frames /\ f.pc \in {"edit", "health", "return"} /\ f.op = at[g].op
        /\ f.epoch <= runEpoch
        /\ f.pc # "return" => f.cmd = "lead" /\ f.want \in {0, planID}
        /\ f.pc = "edit" => f.op = "target"
    <2>1. /\ edit \in Frames /\ edit.pc \in {"edit", "health"} /\ edit.op = at[g].op
          /\ edit.epoch = runEpoch /\ edit.cmd = "lead" /\ edit.want = at[g].want
          /\ edit.pc = "edit" => at[g].op = "target"
      BY <1>1 DEF Frames, PCs, Commands
    <2> DEFINE r == [Idle EXCEPT !.pc = "return", !.op = at[g].op]
    <2>2. r \in Frames /\ r.pc = "return" /\ r.op = at[g].op /\ r.epoch = 0
      BY ZenonT(40), <1>1, IdleFrame DEF Frames, PCs, AllOperations
    <2>3. Returned(g) = r
      BY <1>1 DEF Returned
    <2>4. runEpoch >= 0 /\ runEpoch <= runEpoch
      BY <1>1, EngineAssumption
    <2> HIDE DEF r, edit
    <2>5. CASE taken
      BY <2>1, <2>4, <2>5
    <2>6. CASE ~taken
      BY <2>2, <2>3, <2>4, <2>6
    <2>7. QED
      BY <2>5, <2>6
  <1> HIDE DEF f
  <1>4. at'[g] = f /\ \A h \in Workers : h # g => at'[h] = at[h]
    BY <1>1, Parts DEF TypeOK
  <1>5. TypeOK'
    BY <1>1, <1>2, <1>3, Parts DEF TypeOK
  <1>6. /\ RequestFrame(f) /\ ~InStop(f) /\ ~InStop(at[g]) /\ ~InStartup(f)
        /\ Editing(f) => f.want \in {0, planID'}
    BY <1>1, <1>2, <1>3 DEF RequestFrame, InStop, InStartup, Editing, Edits, Startups
  <1>7. \A h \in Workers : h # None
    BY EngineAssumption DEF Workers, Loops
  <1>8. UNCHANGED <<flags, epochs, fenced, history>>
    BY <1>2 DEF flags, epochs, history
  <1>9. QED
    BY <1>1, <1>2, <1>3, <1>4, <1>5, <1>6, <1>7, <1>8, TwoKinds, QuietKeeps

(* A vibration edit takes targetMu.                                        *)
LEMMA VibrateLockKeeps ==
  ASSUME IInv, NEW g \in Requests, VibrateLock(g)
  PROVE  IInv'
  <1> DEFINE f == [at[g] EXCEPT !.pc = "vibrate"]
  <1>1. /\ at[g].pc = "targetLock" /\ at' = [at EXCEPT ![g] = f] /\ g \in Workers
        /\ at[g].op = "vibrate" /\ targetMu = None /\ targetMu' = g /\ at[g] \in Frames
        /\ at[g].epoch <= runEpoch
    BY Parts, FrameTypes DEF VibrateLock, Goto, Step, Workers, RunInv
  <1>2. /\ running' = running /\ starting' = starting /\ completing' = completing /\ paused' = paused
        /\ runEpoch' = runEpoch /\ stopGeneration' = stopGeneration /\ stopBarriers' = stopBarriers
        /\ generation' = generation /\ planID' = planID /\ only' = only /\ gap' = gap /\ recovery' = recovery
        /\ resetting' = resetting /\ done' = done /\ cancelled' = cancelled /\ device' = device
        /\ stopFailed' = stopFailed /\ fenced' = fenced /\ pausedAt' = pausedAt /\ admittedAt' = admittedAt
        /\ linearStartPending' = linearStartPending /\ commandMu' = commandMu
    BY DEF VibrateLock, flags, epochs, plan, resets, loopRef, wire, history
  <1>3. f \in Frames /\ f.pc = "vibrate" /\ f.op = "vibrate" /\ f.epoch = at[g].epoch
    BY <1>1 DEF Frames, PCs
  <1> HIDE DEF f
  <1>4. at'[g] = f /\ \A h \in Workers : h # g => at'[h] = at[h]
    BY <1>1, Parts DEF TypeOK
  <1>5. TypeOK'
    BY <1>1, <1>2, <1>3, Parts DEF TypeOK
  <1>6. RequestFrame(f) /\ ~InStop(f) /\ ~InStop(at[g]) /\ ~InStartup(f) /\ ~Editing(f)
    BY <1>1, <1>3 DEF RequestFrame, InStop, InStartup, Editing, Startups
  <1>7. \A h \in Workers : h # None
    BY EngineAssumption DEF Workers, Loops
  <1>8. UNCHANGED <<flags, epochs, fenced, history>>
    BY <1>2 DEF flags, epochs, history
  <1>9. QED
    BY <1>1, <1>2, <1>3, <1>4, <1>5, <1>6, <1>7, <1>8, TwoKinds, QuietKeeps

(* An edit turns into a takeover; a promotion returns.                     *)
LEMMA EditPromotesKeeps ==
  ASSUME IInv, NEW g \in Requests, EditPromotes(g)
  PROVE  IInv'
  <1> DEFINE f == [at[g] EXCEPT !.pc = "takeover", !.op = "promote", !.admission = stopGeneration]
  <1>1. /\ at[g].pc = "edit" /\ at' = [at EXCEPT ![g] = f] /\ g \in Workers /\ linearStartPending' = TRUE
        /\ at[g] \in Frames /\ at[g].epoch <= runEpoch /\ stopGeneration \in Nat /\ at[g].op = "target"
    BY Parts, FrameTypes DEF EditPromotes, Step, Workers, RunInv, TypeOK, FrameInv, RequestFrame
  <1>2. /\ running' = running /\ starting' = starting /\ completing' = completing /\ paused' = paused
        /\ runEpoch' = runEpoch /\ stopGeneration' = stopGeneration /\ stopBarriers' = stopBarriers
        /\ generation' = generation /\ planID' = planID /\ only' = only /\ gap' = gap /\ recovery' = recovery
        /\ resetting' = resetting /\ done' = done /\ cancelled' = cancelled /\ device' = device
        /\ stopFailed' = stopFailed /\ fenced' = fenced /\ pausedAt' = pausedAt /\ admittedAt' = admittedAt
        /\ commandMu' = commandMu /\ targetMu' = targetMu
    BY DEF EditPromotes, flags, epochs, plan, resets, loopRef, wire, history
  <1>3. f \in Frames /\ f.pc = "takeover" /\ f.op = "promote" /\ f.epoch = at[g].epoch
    BY <1>1 DEF Frames, PCs
  <1> HIDE DEF f
  <1>4. at'[g] = f /\ \A h \in Workers : h # g => at'[h] = at[h]
    BY <1>1, Parts DEF TypeOK
  <1>5. TypeOK'
    BY <1>1, <1>2, <1>3, Parts DEF TypeOK
  <1>6. RequestFrame(f) /\ ~InStop(f) /\ ~InStop(at[g]) /\ ~InStartup(f) /\ ~Editing(f)
    BY <1>1, <1>3 DEF RequestFrame, InStop, InStartup, Editing, Startups
  <1>7. targetMu = g
    BY <1>1, Parts DEF LockInv, HoldsTarget
  <1>8. UNCHANGED <<flags, epochs, fenced, history>>
    BY <1>2 DEF flags, epochs, history
  <1>9. QED
    BY <1>1, <1>2, <1>3, <1>4, <1>5, <1>6, <1>7, <1>8, TwoKinds, QuietKeeps

(* The deferred unlock of targetMu.                                        *)
LEMMA ReturnKeeps ==
  ASSUME IInv, NEW g \in Requests, Return(g)
  PROVE  IInv'
  <1>1. /\ at[g].pc = "return" /\ at' = [at EXCEPT ![g] = Idle] /\ g \in Workers /\ targetMu' = None
        /\ linearStartPending' \in BOOLEAN /\ at[g].op \in {"target", "refresh", "vibrate", "promote"}
        /\ runEpoch >= 0
    BY Parts DEF Return, Step, Workers, TypeOK, FrameInv, RequestFrame
  <1>2. /\ running' = running /\ starting' = starting /\ completing' = completing /\ paused' = paused
        /\ runEpoch' = runEpoch /\ stopGeneration' = stopGeneration /\ stopBarriers' = stopBarriers
        /\ generation' = generation /\ planID' = planID /\ only' = only /\ gap' = gap /\ recovery' = recovery
        /\ resetting' = resetting /\ done' = done /\ cancelled' = cancelled /\ device' = device
        /\ stopFailed' = stopFailed /\ fenced' = fenced /\ pausedAt' = pausedAt /\ admittedAt' = admittedAt
        /\ commandMu' = commandMu
    BY DEF Return, flags, epochs, plan, resets, loopRef, wire, history
  <1>3. at'[g] = Idle /\ \A h \in Workers : h # g => at'[h] = at[h]
    BY <1>1, Parts DEF TypeOK
  <1>4. TypeOK'
    BY <1>1, <1>2, IdleFrame, Parts DEF TypeOK
  <1>5. /\ RequestFrame(Idle) /\ ~InStop(Idle) /\ ~InStop(at[g]) /\ ~InStartup(Idle) /\ ~Editing(Idle)
        /\ ~HoldsTarget(Idle)
    BY <1>1, IdleFrame DEF RequestFrame, InStop, InStartup, Editing, HoldsTarget
  <1>6. targetMu = g
    BY <1>1, Parts DEF LockInv, HoldsTarget
  <1>7. UNCHANGED <<flags, epochs, fenced, history>>
    BY <1>2 DEF flags, epochs, history
  <1>8. QED
    BY <1>1, <1>2, <1>3, <1>4, <1>5, <1>6, <1>7, IdleFrame, TwoKinds, QuietKeeps

(* The plan changes under targetMu: nobody else has an edit under way.     *)
LEMMA CommitKeeps ==
  ASSUME IInv, NEW g \in Requests, NEW compiles \in BOOLEAN, Commit(g, compiles)
  PROVE  IInv'
  <1>1. /\ at[g].pc = "commit" /\ g \in Workers /\ at[g] \in Frames /\ at[g].epoch <= runEpoch
        /\ at[g].op \in {"target", "refresh"} /\ running
        /\ generation \in Nat /\ generation' = generation + 1 /\ planID' \in {planID, generation + 1}
        /\ planID \in Nat
    BY Parts, FrameTypes DEF Commit, Step, Valid, Workers, TypeOK, RunInv, FrameInv, RequestFrame
  <1>2. /\ running' = running /\ starting' = starting /\ completing' = completing /\ paused' = paused
        /\ runEpoch' = runEpoch /\ stopGeneration' = stopGeneration /\ stopBarriers' = stopBarriers
        /\ only' = only /\ gap' = gap /\ recovery' = recovery /\ resetting' = resetting /\ done' = done
        /\ cancelled' = cancelled /\ device' = device /\ stopFailed' = stopFailed /\ fenced' = fenced
        /\ pausedAt' = pausedAt /\ admittedAt' = admittedAt /\ linearStartPending' = linearStartPending
        /\ commandMu' = commandMu /\ targetMu' = targetMu
    BY DEF Commit, flags, epochs, plan, resets, loopRef, wire, history
  <1>3. PICK f \in {Returned(g), [at[g] EXCEPT !.pc = "health", !.cmd = "editPoints"],
                   [at[g] EXCEPT !.pc = "command", !.cmd = "settingsWindow"]} :
            at' = [at EXCEPT ![g] = f]
    BY <1>1 DEF Commit, Step
  <1>4. /\ f \in Frames /\ f.pc \in {"idle", "return", "health", "command"} /\ f.epoch <= runEpoch
        /\ RequestFrame(f) /\ ~InStop(f) /\ ~InStartup(f) /\ ~Editing(f)
    <2>1. CASE f = Returned(g)
      <3>1. Continues(g, f)
        BY <1>1, <2>1, ReturnedContinues
      <3>2. f.pc = "return" /\ f.op = at[g].op
        BY <1>1, <2>1, IdleFrame DEF Returned, Frames
      <3>3. QED
        BY <3>1, <3>2, <1>1 DEF Continues, InStartup, Editing
    <2>2. CASE f = [at[g] EXCEPT !.pc = "health", !.cmd = "editPoints"]
      <3>1. /\ f \in Frames /\ f.pc = "health" /\ f.cmd = "editPoints" /\ f.op = at[g].op
            /\ f.epoch = at[g].epoch
        BY <1>1, <2>2 DEF Frames, PCs, Commands
      <3>2. QED
        BY <1>1, <3>1 DEF RequestFrame, InStop, InStartup, Editing, Edits, Startups
    <2>3. CASE f = [at[g] EXCEPT !.pc = "command", !.cmd = "settingsWindow"]
      <3>1. /\ f \in Frames /\ f.pc = "command" /\ f.cmd = "settingsWindow" /\ f.op = at[g].op
            /\ f.epoch = at[g].epoch
        BY <1>1, <2>3 DEF Frames, PCs, Commands
      <3>2. QED
        BY <1>1, <3>1 DEF RequestFrame, InStop, InStartup, Editing, Edits, Startups
    <2>4. QED
      BY <2>1, <2>2, <2>3
  <1>5. at'[g] = f /\ \A h \in Workers : h # g => at'[h] = at[h]
    BY <1>1, <1>3, Parts DEF TypeOK
  <1>6. TypeOK'
    BY <1>1, <1>2, <1>3, <1>4, Parts DEF TypeOK
  <1>7. targetMu = g
    BY <1>1, Parts DEF LockInv, HoldsTarget
  <1>8. UNCHANGED <<flags, epochs, fenced, history>>
    BY <1>2 DEF flags, epochs, history
  <1>9. ~InStop(at[g])
    BY <1>1 DEF InStop
  <1>10. QED
    BY <1>1, <1>2, <1>4, <1>5, <1>6, <1>7, <1>8, <1>9, TwoKinds, QuietKeeps

(* A vibration edit is sent for the run that is active when it is admitted.*)
LEMMA VibrateAdmitKeeps ==
  ASSUME IInv, NEW g \in Requests, VibrateAdmit(g)
  PROVE  IInv'
  <1> DEFINE f == [at[g] EXCEPT !.pc = "send", !.cmd = "vibration", !.epoch = runEpoch]
  <1>1. /\ at[g].pc = "vibrate" /\ at' = [at EXCEPT ![g] = f] /\ g \in Workers /\ at[g] \in Frames
        /\ at[g].op = "vibrate" /\ running /\ commandMu = None /\ commandMu' = g
        /\ runEpoch \in 0 .. MaxEpoch /\ runEpoch <= runEpoch /\ generation' \in Nat
    BY Parts, FrameTypes DEF VibrateAdmit, Step, Workers, TypeOK, FrameInv, RequestFrame
  <1>2. /\ running' = running /\ starting' = starting /\ completing' = completing /\ paused' = paused
        /\ runEpoch' = runEpoch /\ stopGeneration' = stopGeneration /\ stopBarriers' = stopBarriers
        /\ planID' = planID /\ only' = only /\ gap' = gap /\ recovery' = recovery /\ resetting' = resetting
        /\ done' = done /\ cancelled' = cancelled /\ device' = device /\ stopFailed' = stopFailed
        /\ fenced' = fenced /\ pausedAt' = pausedAt /\ admittedAt' = admittedAt /\ linearStartPending' = linearStartPending
        /\ targetMu' = targetMu
    BY DEF VibrateAdmit, flags, epochs, plan, resets, loopRef, wire, history
  <1>3. f \in Frames /\ f.pc = "send" /\ f.op = "vibrate" /\ f.epoch = runEpoch /\ f.cmd = "vibration"
    BY <1>1 DEF Frames, PCs, Commands
  <1> HIDE DEF f
  <1>4. at'[g] = f /\ \A h \in Workers : h # g => at'[h] = at[h]
    BY <1>1, Parts DEF TypeOK
  <1>5. TypeOK'
    BY <1>1, <1>2, <1>3, Parts DEF TypeOK
  <1>6. RequestFrame(f) /\ ~InStop(f) /\ ~InStop(at[g]) /\ ~InStartup(f) /\ ~Editing(f)
    BY <1>1, <1>3 DEF RequestFrame, InStop, InStartup, Editing, Startups
  <1>7. targetMu = g /\ \A h \in Workers : h # None
    BY <1>1, Parts, EngineAssumption DEF LockInv, HoldsTarget, Workers, Loops
  <1>8. UNCHANGED <<flags, epochs, fenced, history>>
    BY <1>2 DEF flags, epochs, history
  <1>9. QED
    BY <1>1, <1>2, <1>3, <1>4, <1>5, <1>6, <1>7, <1>8, TwoKinds, QuietKeeps

-----------------------------------------------------------------------------
(* A step within a stop.  commandMu is free or g's, so no command is in    *)
(* flight, and a transport Stop is the last word for every run so far.     *)
LEMMA StopGoesOnKeeps ==
  ASSUME IInv, TypeOK', NEW g \in Workers, NEW f \in Frames,
         at'[g] = f, \A h \in Workers : h # g => at'[h] = at[h],
         InStop(at[g]), InStop(f), f.pc # "halt",
         f.op = at[g].op, f.epoch = at[g].epoch, f.halt = at[g].halt,
         g \in Loops => f.pc = "halting",
         EndsMotion(at[g]) => EndsMotion(f),
         f.pc = "halting" => at[g].pc = "halt",
         UNCHANGED <<flags, epochs, planID, gap, targetMu, history>>,
         fenced' = fenced \/ fenced' = runEpoch,
         (device' = device /\ stopFailed' = stopFailed) \/ device' = 0 \/ stopFailed',
         commandMu = None \/ commandMu = g,
         commandMu' = g \/ (commandMu' = None /\ ~HoldsCommand(f))
  PROVE  IInv'
  <1>1. /\ running' = running /\ starting' = starting /\ completing' = completing /\ paused' = paused
        /\ runEpoch' = runEpoch /\ stopGeneration' = stopGeneration /\ stopBarriers' = stopBarriers
        /\ pausedAt' = pausedAt /\ admittedAt' = admittedAt
    BY DEF flags, epochs, history
  <1>2. ~running
    BY StopRaisesBarrier, Parts DEF RunInv, TypeOK
  <1>3. \A h \in Workers : h # None
    BY EngineAssumption DEF Workers, Loops
  <1>4. \A h \in Workers : h # g => ~HoldsCommand(at[h])
    BY <1>3, Parts DEF LockInv
  <1>5. FrameInv'
    <2>1. \A r \in Requests : RequestFrame(at'[r])
      BY Parts DEF FrameInv, RequestFrame, InStop, Workers
    <2>2. \A k \in Loops : LoopFrame(k, at'[k])
      BY Parts DEF FrameInv, LoopFrame, Workers
    <2>3. QED
      BY <2>1, <2>2 DEF FrameInv
  <1>6. LockInv'
    <2>1. HoldsTarget(f) => HoldsTarget(at[g])
      BY DEF HoldsTarget, InStop
    <2>2. HoldsCommand(f) => commandMu' = g
      OBVIOUS
    <2>3. QED
      BY <1>4, <2>1, <2>2, Parts DEF LockInv
  <1>7. BarriersCounted'
    <2>1. Stopping' = Stopping
      BY DEF Stopping, InStop
    <2>2. QED
      BY <1>1, <2>1, Parts DEF BarriersCounted
  <1>8. RunInv' /\ StartupInv' /\ GapInv'
    BY <1>1, <1>2, Parts DEF RunInv, StartupInv, GapInv, InStop, InStartup, Valid, TypeOK
  <1>9. SendInv' /\ StopIsLast'
    BY <1>4 DEF SendInv, StopIsLast, HoldsCommand, InStop
  <1>10. DeviceInv'
    BY <1>1, <1>2, Parts DEF DeviceInv
  <1>11. CompletingInv'
    BY <1>1, Parts DEF CompletingInv, InStop, EndsMotion
  <1>12. NothingToResume' /\ RunIsAdmitted' /\ EditInv'
    BY <1>1, <1>2, Parts DEF NothingToResume, RunIsAdmitted, EditInv, Valid
  <1>13. QED
    BY <1>5, <1>6, <1>7, <1>8, <1>9, <1>10, <1>11, <1>12 DEF IInv

(* A stop takes commandMu: no command is in flight from here on.           *)
LEMMA HaltLockKeeps ==
  ASSUME IInv, NEW g \in Workers, HaltLock(g)
  PROVE  IInv'
  <1> DEFINE f == [at[g] EXCEPT !.pc = "halting"]
  <1>1. /\ at[g].pc = "halt" /\ at' = [at EXCEPT ![g] = f] /\ commandMu = None /\ commandMu' = g
        /\ at[g] \in Frames
    BY Parts, FrameTypes DEF HaltLock, Goto, Step
  <1>2. /\ running' = running /\ starting' = starting /\ completing' = completing /\ paused' = paused
        /\ runEpoch' = runEpoch /\ stopGeneration' = stopGeneration /\ stopBarriers' = stopBarriers
        /\ generation' = generation /\ planID' = planID /\ only' = only /\ gap' = gap /\ recovery' = recovery
        /\ resetting' = resetting /\ done' = done /\ cancelled' = cancelled /\ device' = device
        /\ stopFailed' = stopFailed /\ fenced' = fenced /\ pausedAt' = pausedAt /\ admittedAt' = admittedAt
        /\ linearStartPending' = linearStartPending /\ targetMu' = targetMu
    BY DEF HaltLock, flags, epochs, plan, resets, loopRef, wire, history
  <1>3. /\ f \in Frames /\ f.pc = "halting" /\ f.op = at[g].op /\ f.epoch = at[g].epoch
        /\ f.halt = at[g].halt
    BY <1>1 DEF Frames, PCs
  <1> HIDE DEF f
  <1>4. at'[g] = f /\ \A h \in Workers : h # g => at'[h] = at[h]
    BY <1>1, Parts DEF TypeOK
  <1>5. TypeOK'
    BY <1>1, <1>2, <1>3, Parts DEF TypeOK
  <1>6. InStop(at[g]) /\ InStop(f) /\ (EndsMotion(at[g]) => EndsMotion(f))
    BY <1>1, <1>3 DEF InStop, EndsMotion
  <1>7. UNCHANGED <<flags, epochs, planID, gap, targetMu, history>>
    BY <1>2 DEF flags, epochs, history
  <1>8. QED
    BY <1>1, <1>2, <1>3, <1>4, <1>5, <1>6, <1>7, StopGoesOnKeeps

(* The transport Stop of a reset, which may not be sent at all.            *)
LEMMA ResetStopKeeps ==
  ASSUME IInv, NEW g \in Requests, NEW ok \in BOOLEAN, ResetStop(g, ok)
  PROVE  IInv'
  <1>1. PICK p \in {"resetRead", "resetEnd"} :
          /\ at' = [at EXCEPT ![g] = [at[g] EXCEPT !.pc = p]]
          /\ p = "resetRead" => commandMu' = g
          /\ p = "resetEnd" => commandMu' = None
    <2>1. CASE ok
      BY <2>1 DEF ResetStop, Goto, Step
    <2>2. CASE ~ok
      BY <2>2 DEF ResetStop, Goto, Step
    <2>3. QED
      BY <2>1, <2>2
  <1> DEFINE f == [at[g] EXCEPT !.pc = p]
  <1>2. /\ at[g].pc = "halting" /\ at[g].halt = "reset" /\ g \in Workers /\ at[g] \in Frames /\ p \in PCs
        /\ commandMu = g
    <2>1. at[g].pc = "halting" /\ at[g].halt = "reset" /\ g \in Workers
      BY DEF ResetStop, Goto, Step, Workers
    <2>2. QED
      BY <2>1, Parts, FrameTypes DEF LockInv, HoldsCommand, PCs
  <1>3. /\ running' = running /\ starting' = starting /\ completing' = completing /\ paused' = paused
        /\ runEpoch' = runEpoch /\ stopGeneration' = stopGeneration /\ stopBarriers' = stopBarriers
        /\ generation' = generation /\ planID' = planID /\ only' = only /\ gap' = gap /\ recovery' = recovery
        /\ resetting' = resetting /\ done' = done /\ cancelled' = cancelled /\ pausedAt' = pausedAt
        /\ admittedAt' = admittedAt /\ linearStartPending' = linearStartPending /\ targetMu' = targetMu
    BY DEF ResetStop, flags, epochs, plan, resets, loopRef, wire, history
  <1>4. \/ device' = device /\ stopFailed' = stopFailed /\ fenced' = fenced
        \/ device' = 0 /\ stopFailed' = FALSE /\ fenced' = runEpoch
        \/ device' \in {0, device} /\ stopFailed' = TRUE /\ fenced' = runEpoch
    <2>1. CASE g \in cancelled
      BY <2>1 DEF ResetStop, wire
    <2>2. CASE g \notin cancelled
      BY <2>2 DEF ResetStop, TransportStop
    <2>3. QED
      BY <2>1, <2>2
  <1>5. /\ f \in Frames /\ f.pc = p /\ f.op = at[g].op /\ f.epoch = at[g].epoch
        /\ f.halt = at[g].halt
    BY <1>2 DEF Frames
  <1> HIDE DEF f
  <1>6. at'[g] = f /\ \A h \in Workers : h # g => at'[h] = at[h]
    BY <1>1, <1>2, Parts DEF TypeOK, f
  <1>7. TypeOK'
    <2>1. at' \in [Workers -> Frames]
      BY <1>1, <1>5, Parts DEF TypeOK, f
    <2>2. device' \in 0 .. MaxEpoch /\ stopFailed' \in BOOLEAN /\ fenced' \in 0 .. MaxEpoch
      <3>1. /\ device \in 0 .. MaxEpoch /\ 0 \in 0 .. MaxEpoch /\ fenced \in 0 .. MaxEpoch
            /\ runEpoch \in 0 .. MaxEpoch /\ stopFailed \in BOOLEAN
        BY Parts, EngineAssumption DEF TypeOK
      <3>2. device' \in {0, device} /\ fenced' \in {fenced, runEpoch}
        BY <1>4
      <3>3. stopFailed' \in BOOLEAN
        BY <1>4, <3>1, Zenon
      <3>4. QED
        BY <3>1, <3>2, <3>3
    <2>3. commandMu' \in Workers \cup {None}
      BY <1>1, <1>2
    <2>4. QED
      BY <1>3, <2>1, <2>2, <2>3, Parts DEF TypeOK
  <1>8. /\ InStop(at[g]) /\ InStop(f) /\ ~EndsMotion(at[g])
        /\ p = "resetEnd" => ~HoldsCommand(f)
    BY <1>1, <1>2, <1>5 DEF InStop, EndsMotion, HoldsCommand
  <1>9. UNCHANGED <<flags, epochs, planID, gap, targetMu, history>>
    BY <1>3 DEF flags, epochs, history
  <1>10. (device' = device /\ stopFailed' = stopFailed) \/ device' = 0 \/ stopFailed'
    BY <1>4
  <1>11. fenced' = fenced \/ fenced' = runEpoch
    BY <1>4
  <1>12. QED
    BY <1>1, <1>2, <1>5, <1>6, <1>7, <1>8, <1>9, <1>10, <1>11, TwoKinds, StopGoesOnKeeps

(* The reads of a reset, under commandMu.                                  *)
LEMMA ResetReadKeeps ==
  ASSUME IInv, NEW g \in Requests, NEW ok \in BOOLEAN, ResetRead(g, ok)
  PROVE  IInv'
  <1> DEFINE f == [at[g] EXCEPT !.pc = "resetEnd", !.verdict = ok]
  <1>1. /\ at[g].pc = "resetRead" /\ at' = [at EXCEPT ![g] = f] /\ g \in Workers /\ at[g] \in Frames
        /\ commandMu = g /\ commandMu' = None
    <2>1. at[g].pc = "resetRead" /\ g \in Workers
      BY DEF ResetRead, Step, Workers
    <2>2. QED
      BY <2>1, Parts, FrameTypes DEF ResetRead, Step, LockInv, HoldsCommand
  <1>2. /\ running' = running /\ starting' = starting /\ completing' = completing /\ paused' = paused
        /\ runEpoch' = runEpoch /\ stopGeneration' = stopGeneration /\ stopBarriers' = stopBarriers
        /\ generation' = generation /\ planID' = planID /\ only' = only /\ gap' = gap /\ recovery' = recovery
        /\ resetting' = resetting /\ done' = done /\ cancelled' = cancelled /\ device' = device
        /\ stopFailed' = stopFailed /\ fenced' = fenced /\ pausedAt' = pausedAt /\ admittedAt' = admittedAt
        /\ linearStartPending' = linearStartPending /\ targetMu' = targetMu
    BY DEF ResetRead, flags, epochs, plan, resets, loopRef, wire, history
  <1>3. /\ f \in Frames /\ f.pc = "resetEnd" /\ f.op = at[g].op /\ f.epoch = at[g].epoch
        /\ f.halt = at[g].halt
    BY <1>1 DEF Frames, PCs
  <1> HIDE DEF f
  <1>4. at'[g] = f /\ \A h \in Workers : h # g => at'[h] = at[h]
    BY <1>1, Parts DEF TypeOK
  <1>5. TypeOK'
    BY <1>1, <1>2, <1>3, Parts DEF TypeOK
  <1>6. InStop(at[g]) /\ InStop(f) /\ ~EndsMotion(at[g]) /\ ~HoldsCommand(f)
    BY <1>1, <1>3 DEF InStop, EndsMotion, HoldsCommand
  <1>7. UNCHANGED <<flags, epochs, planID, gap, targetMu, history>>
    BY <1>2 DEF flags, epochs, history
  <1>8. QED
    BY <1>1, <1>2, <1>3, <1>4, <1>5, <1>6, <1>7, TwoKinds, StopGoesOnKeeps

(* A startup ends: its loop starts to dispatch.                            *)
LEMMA StartLoopKeeps ==
  ASSUME IInv, NEW g \in Requests, StartLoop(g)
  PROVE  IInv'
  <1> DEFINE f == Returned(g)
             k == runEpoch
  <1>1. /\ at[g].pc = "launch" /\ Valid(g) /\ running /\ k = at[g].epoch /\ g \in Workers
        /\ k \in Loops /\ k \in Workers /\ k # g
        /\ InStartup(at[g]) /\ starting /\ at[k].pc = "none"
    <2>1. at[g].pc = "launch" /\ Valid(g) /\ running /\ k = at[g].epoch
      BY DEF StartLoop, Valid
    <2>2. k \in Loops /\ k \in Workers /\ k # g /\ g \in Workers
      BY <2>1, RunIsLoop, TwoKinds DEF Workers
    <2>3. InStartup(at[g])
      BY <2>1, Parts DEF FrameInv, RequestFrame, InStartup
    <2>4. QED
      BY <2>1, <2>2, <2>3, Parts DEF StartupInv
  <1>2. Continues(g, f)
    BY <1>1, ReturnedContinues
  <1>3. f.pc \in {"idle", "return"}
    BY <1>1, IdleFrame, ReturnedPlace
  <1> HIDE DEF f
  <1>4. /\ at' \in [Workers -> Frames]
        /\ at'[g] = f
        /\ at'[k].pc = "select" /\ at'[k].op = at[k].op /\ at'[k].epoch = at[k].epoch
        /\ \A h \in Workers : h # g /\ h # k => at'[h] = at[h]
    <2>1. at' = [at EXCEPT ![g] = f, ![k].pc = "select"]
      BY DEF StartLoop, f
    <2>2. at[k] \in Frames
      BY <1>1, FrameTypes, Parts
    <2> DEFINE fk == [at[k] EXCEPT !.pc = "select"]
    <2>3. fk \in Frames /\ fk.pc = "select" /\ fk.op = at[k].op /\ fk.epoch = at[k].epoch
      BY <2>2 DEF Frames, PCs
    <2>4. at' = [at EXCEPT ![g] = f, ![k] = fk]
      BY <1>1, <2>1, Parts DEF TypeOK
    <2> HIDE DEF fk
    <2>5. QED
      BY <1>1, <1>2, <2>3, <2>4, Parts DEF TypeOK, Continues
  <1>5. /\ running' = running /\ completing' = completing /\ paused' = paused /\ runEpoch' = runEpoch
        /\ stopGeneration' = stopGeneration /\ stopBarriers' = stopBarriers /\ generation' = generation
        /\ planID' = planID /\ only' = only /\ gap' = gap /\ recovery' = recovery /\ resetting' = resetting
        /\ cancelled' = cancelled /\ device' = device /\ stopFailed' = stopFailed /\ fenced' = fenced
        /\ pausedAt' = pausedAt /\ admittedAt' = admittedAt /\ linearStartPending' = linearStartPending
        /\ commandMu' = commandMu /\ targetMu' = targetMu
    BY DEF StartLoop, flags, epochs, plan, resets, loopRef, wire, history
  <1>6. starting' = FALSE /\ done' = k
    BY DEF StartLoop
  <1>7. \A h \in Workers : InStop(at'[h]) <=> InStop(at[h])
    BY <1>1, <1>2, <1>4 DEF InStop, Continues
  <1>8. \A h \in Workers : InStop(at[h]) => at'[h] = at[h]
    BY <1>1, <1>4 DEF InStop
  <1>9. TypeOK'
    BY <1>1, <1>4, <1>5, <1>6, Parts DEF TypeOK
  <1>10. FrameInv'
    <2>1. LoopFrame(k, at'[k])
      BY <1>1, <1>4, Parts DEF FrameInv, LoopFrame
    <2>2. QED
      BY <1>1, <1>2, <1>4, <2>1, Parts, TwoKinds DEF FrameInv, Continues, Workers
  <1>11. LockInv'
    <2>1. ~HoldsCommand(f) /\ ~HoldsCommand(at'[k])
      BY <1>2, <1>4 DEF HoldsCommand, Continues, InStop
    <2>2. ~HoldsTarget(at'[k])
      BY <1>1, <1>4, Parts DEF FrameInv, LoopFrame, HoldsTarget
    <2>3. QED
      BY <1>2, <1>4, <1>5, <2>1, <2>2, Parts DEF LockInv, Continues
  <1>12. BarriersCounted'
    <2>1. Stopping' = Stopping
      BY <1>7 DEF Stopping, InStop
    <2>2. QED
      BY <1>5, <2>1, Parts DEF BarriersCounted
  <1>13. RunInv'
    <2>1. at'[k].epoch = k /\ k <= runEpoch
      BY <1>1, <1>4, Parts DEF FrameInv, LoopFrame, TypeOK
    <2>2. QED
      BY <1>1, <1>2, <1>4, <1>5, <1>6, <2>1, Parts DEF RunInv, Continues
  <1>14. StartupInv'
    <2>1. \A r \in Requests : InStartup(at'[r]) /\ Valid(r)' => r # g /\ InStartup(at[r]) /\ Valid(r)
      BY <1>1, <1>3, <1>4, <1>5, TwoKinds DEF InStartup, Valid, Workers
    <2>2. \A r \in Requests : ~(InStartup(at'[r]) /\ Valid(r)')
      BY <1>1, <2>1, Parts DEF StartupInv
    <2>3. QED
      BY <1>6, <2>2 DEF StartupInv
  <1>15. SendInv'
    <2>1. \A h \in Workers : at'[h].pc = "send" => at[h].pc = "send" /\ at'[h] = at[h]
      BY <1>3, <1>4
    <2>2. \A h \in Workers : at[h].pc = "halt" => at'[h] = at[h]
      BY <1>8 DEF InStop
    <2>3. QED
      BY <1>5, <2>1, <2>2, Parts DEF SendInv, Valid
  <1>16. StopIsLast'
    BY <1>3, <1>4, <1>5, Parts DEF StopIsLast
  <1>17. DeviceInv'
    BY <1>5, <1>1, Parts DEF DeviceInv
  <1>18. CompletingInv'
    <2>1. \A h \in Workers : at'[h].pc \in {"halt", "halting"} => at'[h] = at[h]
      BY <1>3, <1>4
    <2>2. \A h \in Workers : at[h].pc \in {"halt", "halting"} => at'[h] = at[h]
      BY <1>8 DEF InStop
    <2>3. QED
      BY <1>5, <2>1, <2>2, Parts DEF CompletingInv
  <1>19. NothingToResume' /\ RunIsAdmitted' /\ GapInv'
    BY <1>5, Parts DEF NothingToResume, RunIsAdmitted, GapInv
  <1>20. EditInv'
    <2>1. ~Editing(f)
      BY <1>3 DEF Editing
    <2>2. QED
      BY <1>1, <1>4, <1>5, <2>1, Parts, TwoKinds DEF EditInv, Valid, Workers
  <1>21. QED
    BY <1>9, <1>10, <1>11, <1>12, <1>13, <1>14, <1>15, <1>16, <1>17, <1>18, <1>19, <1>20 DEF IInv

(* A failed Resume leaves its pause behind if no Stop has come since.      *)
LEMMA RestorePausedKeeps ==
  ASSUME IInv, NEW g \in Requests, RestorePaused(g)
  PROVE  IInv'
  <1>1. /\ at[g].pc = "restore" /\ at' = [at EXCEPT ![g] = Idle] /\ g \in Workers
    BY DEF RestorePaused, Step, Workers
  <1>2. /\ running' = running /\ starting' = starting /\ completing' = completing /\ runEpoch' = runEpoch
        /\ stopGeneration' = stopGeneration /\ stopBarriers' = stopBarriers /\ generation' = generation
        /\ planID' = planID /\ only' = only /\ gap' = gap /\ recovery' = recovery /\ resetting' = resetting
        /\ done' = done /\ cancelled' = cancelled /\ device' = device /\ stopFailed' = stopFailed
        /\ fenced' = fenced /\ admittedAt' = admittedAt /\ linearStartPending' = linearStartPending
        /\ commandMu' = commandMu /\ targetMu' = targetMu
    BY DEF RestorePaused, flags, epochs, plan, resets, loopRef, wire, history
  <1>3. \/ paused' = paused /\ pausedAt' = pausedAt
        \/ paused' = TRUE /\ pausedAt' = stopGeneration /\ ~running /\ stopBarriers = 0
    BY DEF RestorePaused
  <1>4. at'[g] = Idle /\ \A h \in Workers : h # g => at'[h] = at[h]
    BY <1>1, Parts DEF TypeOK
  <1>5. at' \in [Workers -> Frames]
    BY <1>1, IdleFrame, Parts DEF TypeOK
  <1>6. TypeOK'
    BY ZenonT(40), <1>2, <1>3, <1>5, Parts DEF TypeOK
  <1>7. \A h \in Workers : InStop(at[h]) \/ InStop(at'[h]) => at'[h] = at[h]
    BY <1>1, <1>4, IdleFrame DEF InStop
  <1>8. FrameInv'
    <2>1. RequestFrame(Idle)
      BY IdleFrame DEF RequestFrame
    <2>2. QED
      BY <1>4, <2>1, TwoKinds, Parts DEF FrameInv, Workers
  <1>9. LockInv'
    BY <1>2, <1>4, IdleFrame, Parts DEF LockInv, HoldsCommand, HoldsTarget
  <1>10. BarriersCounted'
    <2>1. Stopping' = Stopping
      BY <1>7 DEF Stopping, InStop
    <2>2. QED
      BY <1>2, <2>1, Parts DEF BarriersCounted
  <1>11. RunInv' /\ StartupInv'
    <2>1. 0 <= runEpoch
      BY Parts DEF TypeOK
    <2>2. RunInv'
      BY <1>2, <1>4, <2>1, IdleFrame, Parts DEF RunInv
    <2>3. starting => at'[runEpoch].pc = "none"
      BY <1>1, <1>4, RunIsLoop, Parts DEF StartupInv, RunInv, Workers
    <2>4. \A r \in Requests : InStartup(at'[r]) => at'[r] = at[r]
      BY <1>4, IdleFrame DEF InStartup, Workers
    <2>5. QED
      BY <1>2, <2>2, <2>3, <2>4, Parts DEF StartupInv, Valid
  <1>12. SendInv' /\ StopIsLast'
    <2>1. \A h \in Workers : at'[h].pc = "send" => at'[h] = at[h]
      BY <1>4, IdleFrame
    <2>2. \A h \in Workers : at[h].pc = "halt" => at'[h] = at[h]
      BY <1>7 DEF InStop
    <2>3. QED
      BY <1>2, <2>1, <2>2, Parts DEF SendInv, StopIsLast, Valid
  <1>13. DeviceInv'
    BY <1>2, <1>7, Parts DEF DeviceInv, EndsMotion, InStop
  <1>14. CompletingInv'
    <2>1. stopBarriers = 0 => ~completing
      BY StopRaisesBarrier, Parts DEF CompletingInv, InStop, TypeOK
    <2>2. QED
      BY <1>2, <1>3, <1>7, <2>1, Parts DEF CompletingInv, InStop
  <1>15. NothingToResume' /\ RunIsAdmitted' /\ GapInv'
    BY <1>2, <1>3, Parts DEF NothingToResume, RunIsAdmitted, GapInv
  <1>16. EditInv'
    <2>1. \A r \in Requests : Editing(at'[r]) => at'[r] = at[r]
      BY <1>4, IdleFrame DEF Editing, Workers
    <2>2. QED
      BY <1>2, <2>1, Parts DEF EditInv, Valid
  <1>17. QED
    BY <1>6, <1>8, <1>9, <1>10, <1>11, <1>12, <1>13, <1>14, <1>15, <1>16 DEF IInv

-----------------------------------------------------------------------------
(* Where no run is active and the barrier is down, no command is in flight *)
(* and nobody stops; the next loop has not begun.                          *)
LEMMA Quiescent ==
  ASSUME IInv, ~running, stopBarriers = 0
  PROVE  /\ ~starting
         /\ \A h \in Workers : ~InStop(at[h]) /\ at[h].pc # "send"
         /\ runEpoch + 1 \in Loops => at[runEpoch + 1].pc = "none"
  <1>1. ~starting
    BY Parts DEF RunInv
  <1>2. \A h \in Workers : ~InStop(at[h])
    BY StopRaisesBarrier
  <1>3. \A h \in Workers : at[h].pc # "send"
    BY <1>2, Parts DEF SendInv, Valid, InStop
  <1>4. runEpoch + 1 \in Loops => at[runEpoch + 1].pc = "none"
    BY Parts DEF FrameInv, LoopFrame, RunInv, TypeOK, Workers
  <1>5. QED
    BY <1>1, <1>2, <1>3, <1>4

(* A run that is installed has a number of its own, and the Stop epoch it  *)
(* was admitted in is the current one.                                     *)
LEMMA InstallKeeps ==
  ASSUME IInv, TypeOK', NEW g \in Requests, NEW f \in Frames,
         at'[g] = f, \A h \in Workers : h # g => at'[h] = at[h],
         ~running, stopBarriers = 0, ~completing, runEpoch < MaxEpoch,
         InStartup(f), RequestFrame(f), f.pc # "send", f.epoch = runEpoch + 1,
         HoldsTarget(f) => HoldsTarget(at[g]),
         running', starting', ~completing', ~paused', ~gap',
         runEpoch' = runEpoch + 1, stopGeneration' = stopGeneration, stopBarriers' = stopBarriers,
         admittedAt' = stopGeneration,
         UNCHANGED <<commandMu, targetMu, wire>>
  PROVE  IInv'
  <1>1. device' = device /\ stopFailed' = stopFailed /\ fenced' = fenced
    BY DEF wire
  <1>2. /\ g \in Workers /\ runEpoch \in Nat /\ runEpoch + 1 \in Loops /\ fenced <= runEpoch
        /\ fenced \in Nat
        /\ \A h \in Workers : at[h].epoch \in Nat /\ (at[h].pc = "none" \/ at[h].epoch <= runEpoch)
    <2>1. \A h \in Workers : at[h].epoch \in Nat
      BY FrameTypes, EngineAssumption, Parts
    <2>2. QED
      BY <2>1, EngineAssumption, Parts DEF TypeOK, RunInv, Loops, Workers
  <1>3. /\ \A h \in Workers : ~InStop(at[h]) /\ at[h].pc # "send"
        /\ at[runEpoch + 1].pc = "none"
    BY <1>2, Quiescent
  <1>4. \A h \in Workers : ~InStop(at'[h]) /\ at'[h].pc # "send"
    BY <1>3 DEF InStartup, InStop
  <1>5. FrameInv'
    BY <1>2, Parts, TwoKinds DEF FrameInv, Workers
  <1>6. LockInv'
    BY <1>2, <1>4, Parts DEF LockInv, HoldsCommand, InStop
  <1>7. BarriersCounted'
    <2>1. Stopping' = Stopping
      BY <1>3, <1>4 DEF Stopping, InStop
    <2>2. QED
      BY <2>1, Parts DEF BarriersCounted
  <1>8. RunInv'
    BY <1>1, <1>2 DEF RunInv
  <1>9. StartupInv'
    <2>1. at'[runEpoch + 1].pc = "none"
      BY <1>2, <1>3, TwoKinds DEF Workers
    <2>2. \A r \in Requests : InStartup(at'[r]) /\ Valid(r)' => r = g
      BY <1>2 DEF InStartup, Valid, Workers
    <2>3. QED
      BY <2>1, <2>2 DEF StartupInv
  <1>10. SendInv' /\ StopIsLast'
    BY <1>4 DEF SendInv, StopIsLast
  <1>11. DeviceInv' /\ CompletingInv' /\ NothingToResume' /\ RunIsAdmitted' /\ GapInv'
    BY DEF DeviceInv, CompletingInv, NothingToResume, RunIsAdmitted, GapInv
  <1>12. EditInv'
    <2>1. \A r \in Requests : Editing(at'[r]) => ~Valid(r)'
      BY <1>2 DEF InStartup, Editing, Valid, Workers, Startups
    <2>2. QED
      BY <2>1 DEF EditInv
  <1>13. QED
    BY <1>5, <1>6, <1>7, <1>8, <1>9, <1>10, <1>11, <1>12 DEF IInv

(* The frame of a startup.                                                 *)
LEMMA StartupFrame ==
  ASSUME IInv, NEW g \in Requests, NEW o \in Startups, NEW admitted \in Nat, NEW vibrationOnly \in BOOLEAN,
         runEpoch < MaxEpoch
  PROVE  LET f == Startup(g, o, admitted, vibrationOnly)
         IN  /\ f \in Frames /\ InStartup(f) /\ RequestFrame(f) /\ f.op = o /\ f.pc \in {"health", "command"}
             /\ f.epoch = runEpoch + 1
  <1> DEFINE c == FirstCommand(vibrationOnly)
             f == Startup(g, o, admitted, vibrationOnly)
  <1>1. c.pc \in {"health", "command"} /\ c.cmd \in {"points", "window", "stop"}
    <2>1. Positioned \in BOOLEAN
      BY EngineAssumption
    <2>2. CASE vibrationOnly
      BY <2>2 DEF FirstCommand
    <2>3. CASE ~vibrationOnly /\ Positioned
      BY <2>3 DEF FirstCommand
    <2>4. CASE ~vibrationOnly /\ ~Positioned
      BY <2>4 DEF FirstCommand
    <2>5. QED
      BY <2>2, <2>3, <2>4
  <1> HIDE DEF c
  <1>2. runEpoch + 1 \in 0 .. MaxEpoch /\ at[g].late \in BOOLEAN
    <2>1. at[g] \in Frames
      BY FrameTypes, Parts DEF Workers
    <2>2. QED
      BY <2>1, Parts, EngineAssumption DEF TypeOK, Frames
  <1>3. f = [Idle EXCEPT !.pc = c.pc, !.cmd = c.cmd, !.op = o, !.epoch = runEpoch + 1,
                         !.admission = admitted, !.late = at[g].late]
    BY DEF Startup, c
  <1>4. c.pc \in PCs /\ c.cmd \in Commands \cup {"none"} /\ o \in AllOperations \cup {"promote", "loop", "none"}
    BY <1>1 DEF PCs, Commands, StartupCommands, AllOperations, Startups
  <1>5. /\ f \in Frames /\ f.pc = c.pc /\ f.cmd = c.cmd /\ f.op = o /\ f.epoch = runEpoch + 1
    BY ZenonT(40), <1>2, <1>3, <1>4, IdleFrame DEF Frames
  <1> HIDE DEF f
  <1>6. InStartup(f) /\ RequestFrame(f)
    BY <1>1, <1>5 DEF InStartup, RequestFrame, Startups, StartupCommands
  <1>7. QED
    BY <1>1, <1>5, <1>6 DEF f

(* begin installs a run for the Stop epoch its caller was admitted in.     *)
LEMMA BeginKeeps ==
  ASSUME IInv, NEW g \in Requests, NEW vibrationOnly \in BOOLEAN, Begin(g, vibrationOnly)
  PROVE  IInv'
  <1> DEFINE f == Startup(g, at[g].op, at[g].admission, vibrationOnly)
  <1>1. /\ at[g].pc = "begin" /\ at' = [at EXCEPT ![g] = f] /\ g \in Workers
        /\ stopGeneration = Admission(g) /\ ~running /\ ~completing /\ stopBarriers = 0
        /\ runEpoch < MaxEpoch /\ running' = TRUE /\ starting' = TRUE /\ runEpoch' = runEpoch + 1
        /\ generation' = generation + 1 /\ planID' = generation + 1 /\ gap' = FALSE /\ done' = 0 /\ recovery' = 0
        /\ paused' = FALSE /\ completing' = FALSE /\ only' = vibrationOnly /\ admittedAt' = Admission(g)
    BY DEF Begin, BeginAdmitted, InstallRun, Step, Workers
  <1>2. /\ stopGeneration' = stopGeneration /\ stopBarriers' = stopBarriers /\ resetting' = resetting
        /\ cancelled' = cancelled /\ device' = device /\ stopFailed' = stopFailed /\ fenced' = fenced
        /\ pausedAt' = pausedAt /\ linearStartPending' = linearStartPending /\ commandMu' = commandMu
        /\ targetMu' = targetMu
    BY DEF Begin, flags, epochs, plan, resets, loopRef, wire, history
  <1>3. at[g].op \in {"start", "promote"} /\ at[g].admission \in Nat
    BY <1>1, FrameTypes, Parts DEF FrameInv, RequestFrame
  <1>4. /\ f \in Frames /\ InStartup(f) /\ RequestFrame(f) /\ f.pc \in {"health", "command"}
        /\ f.op = at[g].op /\ f.epoch = runEpoch + 1
    BY <1>1, <1>3, StartupFrame DEF Startups
  <1> HIDE DEF f
  <1>5. at'[g] = f /\ \A h \in Workers : h # g => at'[h] = at[h]
    BY <1>1, Parts DEF TypeOK
  <1>6. TypeOK'
    <2>1. 0 \in 0 .. MaxEpoch /\ runEpoch + 1 \in 0 .. MaxEpoch /\ generation + 1 \in Nat
          /\ stopGeneration \in Nat /\ only' \in BOOLEAN /\ admittedAt' \in Nat
      BY <1>1, Parts, EngineAssumption DEF TypeOK
    <2>2. QED
      BY <1>1, <1>2, <1>4, <2>1, Parts DEF TypeOK
  <1>7. HoldsTarget(f) => HoldsTarget(at[g])
    BY <1>1, <1>4 DEF HoldsTarget
  <1>8. UNCHANGED <<commandMu, targetMu, wire>>
    BY <1>2 DEF wire
  <1>9. QED
    BY <1>1, <1>2, <1>4, <1>5, <1>6, <1>7, <1>8, InstallKeeps

(* beginResume installs one for the current Stop epoch.                    *)
LEMMA BeginResumeKeeps ==
  ASSUME IInv, NEW g \in Requests, BeginResume(g)
  PROVE  IInv'
  <1> DEFINE f == Startup(g, "resume", stopGeneration, only)
  <1>1. /\ at[g].pc = "idle" /\ at' = [at EXCEPT ![g] = f] /\ g \in Workers
        /\ ~running /\ ~completing /\ stopBarriers = 0
        /\ runEpoch < MaxEpoch /\ running' = TRUE /\ starting' = TRUE /\ runEpoch' = runEpoch + 1
        /\ generation' = generation + 1 /\ planID' = generation + 1 /\ gap' = FALSE /\ done' = 0 /\ recovery' = 0
        /\ paused' = FALSE /\ admittedAt' = stopGeneration
    BY DEF BeginResume, ResumeAdmitted, InstallRun, Step, Workers
  <1>2. /\ completing' = completing /\ stopGeneration' = stopGeneration /\ stopBarriers' = stopBarriers
        /\ only' = only /\ resetting' = resetting /\ cancelled' = cancelled /\ device' = device
        /\ stopFailed' = stopFailed /\ fenced' = fenced /\ pausedAt' = pausedAt /\ linearStartPending' = linearStartPending
        /\ commandMu' = commandMu /\ targetMu' = targetMu
    BY DEF BeginResume, flags, epochs, plan, resets, loopRef, wire, history
  <1>3. /\ f \in Frames /\ InStartup(f) /\ RequestFrame(f) /\ f.pc \in {"health", "command"}
        /\ f.op = "resume" /\ f.epoch = runEpoch + 1
    <2>1. "resume" \in Startups /\ stopGeneration \in Nat /\ only \in BOOLEAN
      BY Parts DEF Startups, TypeOK
    <2>2. QED
      BY <1>1, <2>1, StartupFrame
  <1> HIDE DEF f
  <1>4. at'[g] = f /\ \A h \in Workers : h # g => at'[h] = at[h]
    BY <1>1, Parts DEF TypeOK
  <1>5. TypeOK'
    <2>1. 0 \in 0 .. MaxEpoch /\ runEpoch + 1 \in 0 .. MaxEpoch /\ generation + 1 \in Nat
          /\ stopGeneration \in Nat
      BY <1>1, Parts, EngineAssumption DEF TypeOK
    <2>2. QED
      BY <1>1, <1>2, <1>3, <2>1, Parts DEF TypeOK
  <1>6. ~HoldsTarget(f)
    BY <1>3 DEF HoldsTarget
  <1>7. UNCHANGED <<commandMu, targetMu, wire>>
    BY <1>2 DEF wire
  <1>8. QED
    BY <1>1, <1>2, <1>3, <1>4, <1>5, <1>6, <1>7, InstallKeeps

(* A run that does not compile takes a number all the same.                *)
LEMMA UncompiledKeeps ==
  ASSUME IInv, TypeOK', NEW g \in Requests, NEW f, Continues(g, f),
         at'[g] = f, \A h \in Workers : h # g => at'[h] = at[h],
         ~running, stopBarriers = 0, ~InStop(at[g]),
         runEpoch' = runEpoch + 1, paused' \in {paused, FALSE},
         UNCHANGED <<running, starting, completing, stopGeneration, stopBarriers, planID, gap, commandMu,
                     targetMu, wire, history>>
  PROVE  IInv'
  <1>1. /\ device' = device /\ stopFailed' = stopFailed /\ fenced' = fenced
        /\ pausedAt' = pausedAt /\ admittedAt' = admittedAt
    BY DEF wire, history
  <1>2. /\ g \in Workers /\ runEpoch \in Nat /\ fenced <= runEpoch /\ ~starting /\ fenced \in Nat
        /\ \A h \in Workers : at[h].epoch \in Nat /\ (at[h].pc = "none" \/ at[h].epoch <= runEpoch)
    <2>1. \A h \in Workers : at[h].epoch \in Nat
      BY FrameTypes, EngineAssumption, Parts
    <2>2. QED
      BY <2>1, EngineAssumption, Parts DEF TypeOK, RunInv, Workers
  <1>3. \A h \in Workers : ~InStop(at[h]) /\ at[h].pc # "send"
    BY Quiescent
  <1>4. \A h \in Workers : ~InStop(at'[h]) /\ at'[h].pc # "send"
    BY <1>3 DEF Continues
  <1>5. FrameInv'
    BY <1>2, Parts, TwoKinds DEF FrameInv, Workers, Continues
  <1>6. LockInv'
    BY <1>2, <1>4, Parts DEF LockInv, HoldsCommand, InStop, Continues
  <1>7. BarriersCounted'
    <2>1. Stopping' = Stopping
      BY <1>3, <1>4 DEF Stopping, InStop
    <2>2. QED
      BY <2>1, Parts DEF BarriersCounted
  <1>8. RunInv'
    <2>1. f.epoch \in Nat /\ f.epoch <= runEpoch
      BY EngineAssumption DEF Continues, Frames
    <2>2. QED
      BY <1>1, <1>2, <2>1 DEF RunInv
  <1>9. StartupInv' /\ EditInv' /\ GapInv'
    BY <1>2 DEF StartupInv, EditInv, GapInv, Valid
  <1>10. SendInv' /\ StopIsLast'
    BY <1>4 DEF SendInv, StopIsLast
  <1>11. DeviceInv' /\ CompletingInv'
    <2>1. ~completing
      BY <1>3, Parts DEF CompletingInv, InStop
    <2>2. QED
      BY <1>1, <1>3, <1>4, <2>1, Parts DEF DeviceInv, CompletingInv, EndsMotion, InStop
  <1>12. NothingToResume' /\ RunIsAdmitted'
    <2>1. paused' => paused
      OBVIOUS
    <2>2. QED
      BY <1>1, <2>1, Parts DEF NothingToResume, RunIsAdmitted
  <1>13. QED
    BY <1>5, <1>6, <1>7, <1>8, <1>9, <1>10, <1>11, <1>12 DEF IInv

(* begin, when the plan does not compile.                                  *)
LEMMA BeginUncompiledKeeps ==
  ASSUME IInv, NEW g \in Requests, BeginUncompiled(g)
  PROVE  IInv'
  <1> DEFINE f == Returned(g)
  <1>1. /\ at[g].pc = "begin" /\ at' = [at EXCEPT ![g] = f] /\ g \in Workers
        /\ ~running /\ ~completing /\ stopBarriers = 0
        /\ runEpoch < MaxEpoch /\ runEpoch' = runEpoch + 1
        /\ generation' = generation + 1 /\ done' = 0 /\ recovery' = 0 /\ paused' = FALSE
    BY DEF BeginUncompiled, BeginAdmitted, Step, Workers
  <1>2. /\ running' = running /\ starting' = starting /\ completing' = completing /\ stopGeneration' = stopGeneration
        /\ stopBarriers' = stopBarriers /\ planID' = planID /\ only' = only /\ gap' = gap /\ resetting' = resetting
        /\ cancelled' = cancelled /\ device' = device /\ stopFailed' = stopFailed /\ fenced' = fenced
        /\ pausedAt' = pausedAt /\ admittedAt' = admittedAt /\ linearStartPending' = linearStartPending
        /\ commandMu' = commandMu /\ targetMu' = targetMu
    BY DEF BeginUncompiled, flags, epochs, plan, resets, loopRef, wire, history
  <1>3. Continues(g, f) /\ ~InStop(at[g])
    BY <1>1, ReturnedContinues DEF InStop
  <1> HIDE DEF f
  <1>4. at'[g] = f /\ \A h \in Workers : h # g => at'[h] = at[h]
    BY <1>1, Parts DEF TypeOK
  <1>5. TypeOK'
    <2>1. 0 \in 0 .. MaxEpoch /\ runEpoch + 1 \in 0 .. MaxEpoch /\ generation + 1 \in Nat
          /\ stopGeneration \in Nat
      BY <1>1, Parts, EngineAssumption DEF TypeOK
    <2>2. QED
      BY <1>1, <1>2, <1>3, <2>1, Parts DEF TypeOK, Continues
  <1>6. UNCHANGED <<running, starting, completing, stopGeneration, stopBarriers, planID, gap, commandMu,
                    targetMu, wire, history>>
    BY <1>2 DEF wire, history
  <1>7. QED
    BY <1>1, <1>3, <1>4, <1>5, <1>6, UncompiledKeeps

(* beginResume, when the plan does not compile: the pause stays.           *)
LEMMA BeginResumeUncompiledKeeps ==
  ASSUME IInv, NEW g \in Requests, BeginResumeUncompiled(g)
  PROVE  IInv'
  <1>1. /\ at[g].pc = "idle" /\ at' = at /\ g \in Workers
        /\ ~running /\ ~completing /\ stopBarriers = 0
        /\ runEpoch < MaxEpoch /\ runEpoch' = runEpoch + 1
        /\ generation' = generation + 1 /\ done' = 0 /\ recovery' = 0
    BY DEF BeginResumeUncompiled, ResumeAdmitted, Workers
  <1>2. /\ running' = running /\ starting' = starting /\ completing' = completing /\ paused' = paused
        /\ stopGeneration' = stopGeneration /\ stopBarriers' = stopBarriers /\ planID' = planID
        /\ only' = only /\ gap' = gap /\ resetting' = resetting /\ cancelled' = cancelled /\ device' = device
        /\ stopFailed' = stopFailed /\ fenced' = fenced /\ pausedAt' = pausedAt /\ admittedAt' = admittedAt
        /\ linearStartPending' = linearStartPending /\ commandMu' = commandMu /\ targetMu' = targetMu
    BY DEF BeginResumeUncompiled, flags, epochs, plan, resets, loopRef, wire, history
  <1>3. Continues(g, at[g]) /\ ~InStop(at[g])
    BY <1>1, Parts, FrameTypes, TwoKinds DEF Continues, FrameInv, RunInv, InStop
  <1>4. TypeOK'
    <2>1. 0 \in 0 .. MaxEpoch /\ runEpoch + 1 \in 0 .. MaxEpoch /\ generation + 1 \in Nat
          /\ stopGeneration \in Nat
      BY <1>1, Parts, EngineAssumption DEF TypeOK
    <2>2. QED
      BY <1>1, <1>2, <2>1, Parts DEF TypeOK
  <1>5. UNCHANGED <<running, starting, completing, stopGeneration, stopBarriers, planID, gap, commandMu,
                    targetMu, wire, history>>
    BY <1>2 DEF wire, history
  <1>6. at'[g] = at[g] /\ (\A h \in Workers : h # g => at'[h] = at[h]) /\ paused' \in {paused, FALSE}
    BY <1>1, <1>2
  <1>7. QED
    BY <1>1, <1>3, <1>4, <1>5, <1>6, UncompiledKeeps

-----------------------------------------------------------------------------
(* A stop begins: the run is over and the barrier is up in one step, so    *)
(* what is in flight has a stop behind it that waits for commandMu.        *)
LEMMA RaiseKeeps ==
  ASSUME IInv, TypeOK', NEW g \in Workers, NEW f \in Frames,
         at'[g] = f, \A h \in Workers : h # g => at'[h] = at[h],
         ~InStop(at[g]), f.pc = "halt", f.epoch <= runEpoch,
         g \in Requests => RequestFrame(f),
         g \in Loops => LoopFrame(g, f),
         HoldsTarget(f) => HoldsTarget(at[g]),
         stopBarriers' = stopBarriers + 1, ~running', ~starting', runEpoch' = runEpoch, fenced' = fenced,
         completing' => completing \/ (running /\ f.halt = "complete"),
         f.halt = "pause" => running /\ completing' = completing,
         f.halt = "reset" => ~running /\ stopBarriers = 0 /\ device' = device /\ stopFailed' = stopFailed,
         paused' => paused /\ stopGeneration' = stopGeneration,
         UNCHANGED <<targetMu, history>>,
         \A h \in Workers : h # g /\ commandMu = h => commandMu' = h
  PROVE  IInv'
  <1>1. pausedAt' = pausedAt /\ admittedAt' = admittedAt
    BY DEF history
  <1>2. FrameInv'
    BY Parts DEF FrameInv, Workers
  <1>3. LockInv'
    <2>1. ~HoldsCommand(f)
      BY DEF HoldsCommand
    <2>2. QED
      BY <2>1, Parts DEF LockInv
  <1>4. BarriersCounted'
    <2>1. Stopping' = Stopping \cup {g} /\ g \notin Stopping
      BY DEF Stopping, InStop
    <2>2. Cardinality(Stopping') = Cardinality(Stopping) + 1
      BY <2>1, StoppingFinite, FS_AddElement
    <2>3. QED
      BY <2>2, Parts DEF BarriersCounted
  <1>5. RunInv' /\ StartupInv' /\ EditInv' /\ GapInv' /\ RunIsAdmitted'
    BY Parts DEF RunInv, StartupInv, EditInv, GapInv, RunIsAdmitted, Valid
  <1>6. SendInv'
    <2>1. CASE f.halt = "reset"
      <3>1. \A h \in Workers : at[h].pc # "send"
        BY <2>1, Quiescent
      <3>2. QED
        BY <3>1 DEF SendInv
    <2>2. CASE f.halt # "reset"
      BY <2>2 DEF SendInv
    <2>3. QED
      BY <2>1, <2>2
  <1>7. StopIsLast'
    BY Parts DEF StopIsLast
  <1>8. DeviceInv'
    <2>1. CASE f.halt = "reset"
      <3>1. \A h \in Workers : ~EndsMotion(at[h])
        BY <2>1, Quiescent DEF InStop, EndsMotion
      <3>2. QED
        BY <2>1, <3>1, Parts DEF DeviceInv
    <2>2. CASE f.halt # "reset"
      BY <2>2 DEF DeviceInv, EndsMotion
    <2>3. QED
      BY <2>1, <2>2
  <1>9. CompletingInv'
    <2>1. running => \A h \in Workers : ~InStop(at[h])
      BY StopRaisesBarrier, Parts DEF RunInv, TypeOK
    <2>2. running => ~completing /\ ~paused
      BY Parts DEF RunInv, NothingToResume
    <2>3. completing' => \E h \in Workers : at'[h].pc \in {"halt", "halting"} /\ at'[h].halt = "complete"
      BY Parts DEF CompletingInv, InStop
    <2>4. completing' => ~paused'
      BY <2>2, Parts DEF CompletingInv
    <2>5. \A h \in Workers : at'[h].pc \in {"halt", "halting"} /\ at'[h].halt = "pause" => ~completing'
      <3>1. f.halt = "pause" => ~completing'
        BY <2>2
      <3>2. \A h \in Workers : at[h].pc \in {"halt", "halting"} /\ at[h].halt = "pause" => ~completing /\ ~running
        BY <2>1, Parts DEF CompletingInv, InStop
      <3>3. QED
        BY <3>1, <3>2
    <2>6. QED
      BY <2>3, <2>4, <2>5 DEF CompletingInv
  <1>10. NothingToResume'
    BY <1>1, Parts DEF NothingToResume
  <1>11. QED
    BY <1>2, <1>3, <1>4, <1>5, <1>6, <1>7, <1>8, <1>9, <1>10 DEF IInv

(* Pause ends the run and raises the barrier.                              *)
LEMMA PauseBeginKeeps ==
  ASSUME IInv, NEW g \in Requests, PauseBegin(g)
  PROVE  IInv'
  <1> DEFINE f == [Called(g, "pause", "halt") EXCEPT !.halt = "pause", !.awaits = done, !.admission = stopGeneration]
  <1>1. /\ at[g].pc = "idle" /\ at' = [at EXCEPT ![g] = f] /\ g \in Workers
        /\ running /\ running' = FALSE /\ starting' = FALSE /\ cancelled' = cancelled \cup {runEpoch} /\ done' = 0
        /\ stopBarriers' = stopBarriers + 1
    BY DEF PauseBegin, EndRun, Step, Workers
  <1>2. /\ completing' = completing /\ paused' = paused /\ runEpoch' = runEpoch /\ stopGeneration' = stopGeneration
        /\ generation' = generation /\ planID' = planID /\ only' = only /\ gap' = gap /\ recovery' = recovery
        /\ resetting' = resetting /\ device' = device /\ stopFailed' = stopFailed /\ fenced' = fenced
        /\ pausedAt' = pausedAt /\ admittedAt' = admittedAt /\ linearStartPending' = linearStartPending
        /\ commandMu' = commandMu /\ targetMu' = targetMu
    BY DEF PauseBegin, flags, epochs, plan, resets, loopRef, wire, history
  <1>3. /\ done \in 0 .. MaxEpoch /\ stopGeneration \in Nat /\ 0 \in 0 .. MaxEpoch /\ runEpoch \in Workers
        /\ stopBarriers + 1 \in Nat /\ 0 <= runEpoch
    BY <1>1, Parts, EngineAssumption, RunIsLoop DEF TypeOK, Workers
  <1>4. f \in Frames /\ f.pc = "halt" /\ f.op = "pause" /\ f.epoch = 0 /\ f.halt = "pause"
    BY <1>3, IdleFrame DEF Called, Frames, PCs, Halts, AllOperations
  <1> HIDE DEF f
  <1>5. at'[g] = f /\ \A h \in Workers : h # g => at'[h] = at[h]
    BY <1>1, Parts DEF TypeOK
  <1>6. TypeOK'
    BY <1>1, <1>2, <1>3, <1>4, Parts DEF TypeOK
  <1>7. RequestFrame(f) /\ ~HoldsTarget(f) /\ ~InStop(at[g])
    BY <1>1, <1>4 DEF RequestFrame, HoldsTarget, InStop
  <1>8. UNCHANGED <<targetMu, history>>
    BY <1>2 DEF history
  <1>9. QED
    BY <1>1, <1>2, <1>3, <1>4, <1>5, <1>6, <1>7, <1>8, TwoKinds, RaiseKeeps

(* Stop and the Stop of a promotion: nothing is left to resume.            *)
LEMMA StopBeginKeeps ==
  ASSUME IInv, NEW g \in Requests, Stop(g) \/ TakeoverStop(g)
  PROVE  IInv'
  <1> DEFINE base == IF at[g].pc = "idle" THEN Called(g, "stop", "halt") ELSE [at[g] EXCEPT !.late = ~Valid(g)]
             waits == IF running \/ completing THEN done ELSE 0
             f == [base EXCEPT !.pc = "halt", !.halt = "stop", !.awaits = waits]
  <1>1. /\ at[g].pc \in {"idle", "takeover"} /\ at' = [at EXCEPT ![g] = f] /\ g \in Workers
        /\ stopGeneration' = stopGeneration + 1 /\ stopBarriers' = stopBarriers + 1
        /\ running' = FALSE /\ starting' = (starting /\ ~running) /\ done' = IF running THEN 0 ELSE done
        /\ cancelled' = cancelled \cup (IF running THEN {runEpoch} ELSE {})
                                  \cup (IF resetting # None THEN {resetting} ELSE {})
        /\ paused' = (paused /\ (running \/ completing))
    <2>1. CASE Stop(g)
      BY <2>1 DEF Stop, StopBegin, Workers
    <2>2. CASE TakeoverStop(g)
      BY <2>2 DEF TakeoverStop, StopBegin, Workers
    <2>3. QED
      BY <2>1, <2>2
  <1>2. /\ completing' = completing /\ runEpoch' = runEpoch /\ generation' = generation /\ planID' = planID
        /\ only' = only /\ gap' = gap /\ recovery' = recovery /\ resetting' = resetting /\ device' = device
        /\ stopFailed' = stopFailed /\ fenced' = fenced /\ pausedAt' = pausedAt /\ admittedAt' = admittedAt
        /\ linearStartPending' = linearStartPending /\ commandMu' = commandMu /\ targetMu' = targetMu
    BY DEF Stop, TakeoverStop, StopBegin, flags, epochs, plan, resets, loopRef, wire, history
  <1>3. /\ done \in 0 .. MaxEpoch /\ 0 \in 0 .. MaxEpoch /\ at[g].epoch <= runEpoch /\ 0 <= runEpoch
        /\ stopBarriers + 1 \in Nat /\ stopGeneration + 1 \in Nat /\ at[g] \in Frames /\ RequestFrame(at[g])
        /\ running => runEpoch \in Workers
        /\ resetting # None => resetting \in Workers
    BY <1>1, Parts, EngineAssumption, RunIsLoop, FrameTypes DEF TypeOK, Workers, RunInv, FrameInv
  <1>4. ~starting' /\ ~paused'
    BY <1>1, Parts DEF RunInv, NothingToResume, CompletingInv
  <1>5. waits \in 0 .. MaxEpoch
    BY <1>3
  <1> HIDE DEF waits
  <1>6. /\ base \in Frames /\ base.op \in {"stop", "promote"} /\ base.epoch <= runEpoch
        /\ base.op = "promote" => at[g].op = "promote" /\ at[g].pc = "takeover"
    <2>1. CASE at[g].pc = "idle"
      <3>1. Called(g, "stop", "halt") \in Frames /\ Called(g, "stop", "halt").op = "stop"
            /\ Called(g, "stop", "halt").epoch = 0
        BY ZenonT(40), IdleFrame DEF Called, Frames, PCs, AllOperations
      <3>2. QED
        BY <1>3, <2>1, <3>1
    <2>2. CASE at[g].pc = "takeover"
      <3>1. at[g].op = "promote"
        BY <1>3, <2>2 DEF RequestFrame
      <3> DEFINE b == [at[g] EXCEPT !.late = ~Valid(g)]
      <3>2. b \in Frames /\ b.op = at[g].op /\ b.epoch = at[g].epoch
        BY <1>3 DEF Frames, Valid
      <3>3. QED
        BY <1>3, <2>2, <3>1, <3>2
    <2>3. QED
      BY <1>1, <2>1, <2>2
  <1> HIDE DEF base
  <1>7. f \in Frames /\ f.pc = "halt" /\ f.op = base.op /\ f.epoch = base.epoch /\ f.halt = "stop"
    BY ZenonT(40), <1>5, <1>6 DEF Frames, PCs, Halts
  <1> HIDE DEF f
  <1>8. at'[g] = f /\ \A h \in Workers : h # g => at'[h] = at[h]
    BY <1>1, Parts DEF TypeOK
  <1>9. TypeOK'
    <2>1. done' \in 0 .. MaxEpoch /\ cancelled' \subseteq Workers /\ running' \in BOOLEAN
          /\ starting' = FALSE /\ paused' = FALSE
      BY <1>1, <1>3, <1>4, Parts DEF TypeOK
    <2>2. at' \in [Workers -> Frames]
      BY <1>1, <1>7, Parts DEF TypeOK
    <2>3. QED
      BY <1>1, <1>2, <1>3, <2>1, <2>2, Parts DEF TypeOK
  <1>10. RequestFrame(f) /\ ~InStop(at[g]) /\ (HoldsTarget(f) => HoldsTarget(at[g]))
    BY <1>1, <1>6, <1>7 DEF RequestFrame, HoldsTarget, InStop
  <1>11. UNCHANGED <<targetMu, history>>
    BY <1>2 DEF history
  <1>12. QED
    BY <1>1, <1>2, <1>4, <1>6, <1>7, <1>8, <1>9, <1>10, <1>11, TwoKinds, RaiseKeeps

(* The content has played to its end, and its loop stops the device.       *)
LEMMA CompleteProgramKeeps ==
  ASSUME IInv, NEW k \in Loops, CompleteProgram(k)
  PROVE  IInv'
  <1> DEFINE f == [at[k] EXCEPT !.pc = "halt", !.halt = "complete", !.awaits = 0]
  <1>1. /\ at[k].pc = "select" /\ at' = [at EXCEPT ![k] = f] /\ k \in Workers
        /\ running /\ running' = FALSE /\ starting' = FALSE /\ completing' = TRUE
        /\ cancelled' = cancelled \cup {k} /\ stopBarriers' = stopBarriers + 1
    BY DEF CompleteProgram, Step, Workers, Valid
  <1>2. /\ paused' = paused /\ runEpoch' = runEpoch /\ stopGeneration' = stopGeneration /\ generation' = generation
        /\ planID' = planID /\ only' = only /\ gap' = gap /\ recovery' = recovery /\ resetting' = resetting
        /\ done' = done /\ device' = device /\ stopFailed' = stopFailed /\ fenced' = fenced /\ pausedAt' = pausedAt
        /\ admittedAt' = admittedAt /\ linearStartPending' = linearStartPending /\ commandMu' = commandMu
        /\ targetMu' = targetMu
    BY DEF CompleteProgram, flags, epochs, plan, resets, loopRef, wire, history
  <1>3. /\ at[k] \in Frames /\ at[k].epoch <= runEpoch /\ LoopFrame(k, at[k]) /\ 0 \in 0 .. MaxEpoch
        /\ stopBarriers + 1 \in Nat
    BY <1>1, Parts, EngineAssumption, FrameTypes DEF TypeOK, RunInv, FrameInv
  <1>4. f \in Frames /\ f.pc = "halt" /\ f.op = at[k].op /\ f.epoch = at[k].epoch /\ f.halt = "complete"
    BY <1>3 DEF Frames, PCs, Halts
  <1> HIDE DEF f
  <1>5. at'[k] = f /\ \A h \in Workers : h # k => at'[h] = at[h]
    BY <1>1, Parts DEF TypeOK
  <1>6. TypeOK'
    BY <1>1, <1>2, <1>3, <1>4, Parts DEF TypeOK
  <1>7. LoopFrame(k, f) /\ ~HoldsTarget(f) /\ ~InStop(at[k])
    BY <1>1, <1>3, <1>4 DEF LoopFrame, HoldsTarget, InStop
  <1>8. UNCHANGED <<targetMu, history>>
    BY <1>2 DEF history
  <1>9. QED
    BY <1>1, <1>2, <1>3, <1>4, <1>5, <1>6, <1>7, <1>8, TwoKinds, RaiseKeeps

(* A recovery, from wherever its failure was noticed.                      *)
LEMMA RecoveryKeeps ==
  ASSUME IInv, NEW g \in Workers, PrepareRecovery(g), at[g].pc \in {"health", "send", "vibrateFault"},
         device' \in 0 .. MaxEpoch, stopFailed' \in BOOLEAN, fenced' = fenced, gap' \in BOOLEAN,
         commandMu' = commandMu \/ (commandMu = g /\ commandMu' = None),
         UNCHANGED <<linearStartPending, generation, planID, only, resets, targetMu, history>>
  PROVE  IInv'
  <1> DEFINE waits == IF g \in Loops THEN 0 ELSE done
             f == [at[g] EXCEPT !.pc = "halt", !.halt = "recovery", !.awaits = waits]
  <1>1. /\ at' = [at EXCEPT ![g] = f]
        /\ running /\ running' = FALSE /\ starting' = FALSE /\ cancelled' = cancelled \cup {runEpoch} /\ done' = 0
        /\ stopBarriers' = stopBarriers + 1
    BY Parts DEF PrepareRecovery, EndRun, Valid, TypeOK
  <1>2. /\ completing' = completing /\ paused' = paused /\ runEpoch' = runEpoch /\ stopGeneration' = stopGeneration
        /\ generation' = generation /\ planID' = planID /\ only' = only /\ recovery' = recovery
        /\ resetting' = resetting /\ pausedAt' = pausedAt /\ admittedAt' = admittedAt
        /\ linearStartPending' = linearStartPending /\ targetMu' = targetMu
    BY DEF PrepareRecovery, flags, epochs, plan, resets, loopRef, wire, history
  <1>3. /\ done \in 0 .. MaxEpoch /\ 0 \in 0 .. MaxEpoch /\ runEpoch \in Workers
        /\ stopBarriers + 1 \in Nat /\ at[g] \in Frames /\ at[g].epoch <= runEpoch
    BY <1>1, Parts, EngineAssumption, RunIsLoop, FrameTypes DEF TypeOK, Workers, RunInv
  <1>4. waits \in 0 .. MaxEpoch
    BY <1>3
  <1> HIDE DEF waits
  <1>5. f \in Frames /\ f.pc = "halt" /\ f.op = at[g].op /\ f.epoch = at[g].epoch /\ f.halt = "recovery"
    BY <1>3, <1>4 DEF Frames, PCs, Halts
  <1> HIDE DEF f
  <1>6. at'[g] = f /\ \A h \in Workers : h # g => at'[h] = at[h]
    BY <1>1, Parts DEF TypeOK
  <1>7. TypeOK'
    BY <1>1, <1>2, <1>3, <1>5, Parts DEF TypeOK
  <1>8. /\ ~InStop(at[g]) /\ (HoldsTarget(f) => HoldsTarget(at[g]))
        /\ g \in Requests => RequestFrame(f)
        /\ g \in Loops => LoopFrame(g, f)
    BY <1>5, Parts DEF FrameInv, RequestFrame, LoopFrame, HoldsTarget, InStop
  <1>9. UNCHANGED <<targetMu, history>>
    BY <1>2 DEF history
  <1>10. QED
    BY <1>1, <1>2, <1>3, <1>5, <1>6, <1>7, <1>8, <1>9, TwoKinds, RaiseKeeps

(* A recovery that diagnostics or a vibration frame asked for.             *)
LEMMA UnhealthyKeeps ==
  ASSUME IInv, NEW g \in Workers, Unhealthy(g) \/ VibrateRecovery(g)
  PROVE  IInv'
  <1>1. at[g].pc \in {"health", "vibrateFault"} /\ PrepareRecovery(g)
    BY DEF Unhealthy, VibrateRecovery
  <1>2. /\ device' = device /\ stopFailed' = stopFailed /\ fenced' = fenced /\ gap' = gap /\ commandMu' = commandMu
        /\ UNCHANGED <<linearStartPending, generation, planID, only, resets, targetMu, history>>
    BY DEF Unhealthy, VibrateRecovery, wire, plan
  <1>3. device' \in 0 .. MaxEpoch /\ stopFailed' \in BOOLEAN /\ gap' \in BOOLEAN
    BY <1>2, Parts DEF TypeOK
  <1>4. QED
    BY <1>1, <1>2, <1>3, RecoveryKeeps

(* A recovery after a failed chunk or window.                              *)
LEMMA FailedRecoveringKeeps ==
  ASSUME IInv, NEW g \in Workers, CommandFailedRecovering(g)
  PROVE  IInv'
  <1>1. at[g].pc = "send" /\ PrepareRecovery(g) /\ commandMu' = None /\ Uncertain(g) /\ gap' \in BOOLEAN
    BY Parts DEF CommandFailedRecovering, TypeOK
  <1>2. UNCHANGED <<linearStartPending, generation, planID, only, resets, targetMu, history>>
    BY DEF CommandFailedRecovering
  <1>3. commandMu = g
    BY <1>1, Parts DEF LockInv, HoldsCommand
  <1>4. fenced' = fenced /\ device' \in 0 .. MaxEpoch /\ stopFailed' \in BOOLEAN
    BY <1>1, Parts, UncertainTypes
  <1>5. QED
    BY <1>1, <1>2, <1>3, <1>4, RecoveryKeeps

(* A failed startup stops its own run.                                     *)
LEMMA ForceStoppedKeeps ==
  ASSUME IInv, NEW g \in Requests, ForceStopped(g)
  PROVE  IInv'
  <1> DEFINE f == [at[g] EXCEPT !.pc = "halt", !.halt = "abort", !.awaits = 0]
  <1>1. /\ at[g].pc = "abort" /\ at' = [at EXCEPT ![g] = f] /\ g \in Workers
        /\ running /\ running' = FALSE /\ starting' = FALSE /\ cancelled' = cancelled \cup {runEpoch} /\ done' = 0
        /\ completing' = FALSE /\ stopBarriers' = stopBarriers + 1
    BY Parts DEF ForceStopped, EndRun, Valid, Workers, TypeOK
  <1>2. /\ paused' = paused /\ runEpoch' = runEpoch /\ stopGeneration' = stopGeneration /\ generation' = generation
        /\ planID' = planID /\ only' = only /\ gap' = gap /\ recovery' = recovery /\ resetting' = resetting
        /\ device' = device /\ stopFailed' = stopFailed /\ fenced' = fenced /\ pausedAt' = pausedAt
        /\ admittedAt' = admittedAt /\ linearStartPending' = linearStartPending /\ commandMu' = commandMu
        /\ targetMu' = targetMu
    BY DEF ForceStopped, flags, epochs, plan, resets, loopRef, wire, history
  <1>3. /\ 0 \in 0 .. MaxEpoch /\ runEpoch \in Workers
        /\ stopBarriers + 1 \in Nat /\ at[g] \in Frames /\ at[g].epoch <= runEpoch /\ RequestFrame(at[g])
    BY <1>1, Parts, EngineAssumption, RunIsLoop, FrameTypes DEF TypeOK, Workers, RunInv, FrameInv
  <1>4. f \in Frames /\ f.pc = "halt" /\ f.op = at[g].op /\ f.epoch = at[g].epoch /\ f.halt = "abort"
    BY <1>3 DEF Frames, PCs, Halts
  <1> HIDE DEF f
  <1>5. at'[g] = f /\ \A h \in Workers : h # g => at'[h] = at[h]
    BY <1>1, Parts DEF TypeOK
  <1>6. TypeOK'
    BY <1>1, <1>2, <1>3, <1>4, Parts DEF TypeOK
  <1>7. RequestFrame(f) /\ ~InStop(at[g]) /\ (HoldsTarget(f) => HoldsTarget(at[g]))
    BY <1>1, <1>3, <1>4 DEF RequestFrame, HoldsTarget, InStop
  <1>8. UNCHANGED <<targetMu, history>>
    BY <1>2 DEF history
  <1>9. QED
    BY <1>1, <1>2, <1>3, <1>4, <1>5, <1>6, <1>7, <1>8, TwoKinds, RaiseKeeps

(* A reset raises the barrier where nothing runs.                          *)
LEMMA ResetBeginKeeps ==
  ASSUME IInv, NEW g \in Requests, ResetBegin(g)
  PROVE  IInv'
  <1> DEFINE f == [at[g] EXCEPT !.pc = "halt", !.halt = "reset"]
  <1>1. /\ at[g].pc = "resetCall" /\ at' = [at EXCEPT ![g] = f] /\ g \in Workers
        /\ ~running /\ ~starting /\ ~completing /\ stopBarriers = 0
        /\ stopBarriers' = stopBarriers + 1 /\ resetting' = g /\ cancelled' = cancelled \ {g} /\ paused' = FALSE
    BY DEF ResetBegin, Step, Workers
  <1>2. /\ running' = running /\ starting' = starting /\ completing' = completing /\ runEpoch' = runEpoch
        /\ stopGeneration' = stopGeneration /\ generation' = generation /\ planID' = planID /\ only' = only
        /\ gap' = gap /\ recovery' = recovery /\ done' = done /\ device' = device /\ stopFailed' = stopFailed
        /\ fenced' = fenced /\ pausedAt' = pausedAt /\ admittedAt' = admittedAt /\ linearStartPending' = linearStartPending
        /\ commandMu' = commandMu /\ targetMu' = targetMu
    BY DEF ResetBegin, flags, epochs, plan, resets, loopRef, wire, history
  <1>3. stopBarriers + 1 \in Nat /\ at[g] \in Frames /\ at[g].epoch <= runEpoch /\ RequestFrame(at[g])
    BY <1>1, Parts, FrameTypes DEF TypeOK, RunInv, FrameInv
  <1>4. f \in Frames /\ f.pc = "halt" /\ f.op = at[g].op /\ f.epoch = at[g].epoch /\ f.halt = "reset"
    BY <1>3 DEF Frames, PCs, Halts
  <1> HIDE DEF f
  <1>5. at'[g] = f /\ \A h \in Workers : h # g => at'[h] = at[h]
    BY <1>1, Parts DEF TypeOK
  <1>6. TypeOK'
    BY <1>1, <1>2, <1>3, <1>4, Parts DEF TypeOK
  <1>7. RequestFrame(f) /\ ~InStop(at[g]) /\ (HoldsTarget(f) => HoldsTarget(at[g]))
    BY <1>1, <1>3, <1>4 DEF RequestFrame, HoldsTarget, InStop
  <1>8. UNCHANGED <<targetMu, history>>
    BY <1>2 DEF history
  <1>9. QED
    BY <1>1, <1>2, <1>3, <1>4, <1>5, <1>6, <1>7, <1>8, TwoKinds, RaiseKeeps

-----------------------------------------------------------------------------
(* A stop ends: nothing was started while it was in progress, its          *)
(* transport Stop was sent under commandMu, so no command is in flight     *)
(* that it does not overrule, and the barrier is lowered by its own share. *)
LEMMA LowerKeeps ==
  ASSUME IInv, TypeOK', NEW g \in Workers, NEW f, Continues(g, f),
         at'[g] = f, \A h \in Workers : h # g => at'[h] = at[h],
         InStop(at[g]), at[g].pc # "halt", endStopBarrier,
         UNCHANGED <<running, starting, runEpoch, stopGeneration, admittedAt, targetMu>>,
         fenced' = fenced \/ (fenced' = runEpoch /\ commandMu = g),
         device' = 0 \/ stopFailed' \/ (~EndsMotion(at[g]) /\ device' = device /\ stopFailed' = stopFailed),
         \A h \in Workers : h # g /\ commandMu = h => commandMu' = h,
         completing' => completing /\ (at[g].pc = "halting" => at[g].halt # "complete"),
         paused' => \/ paused /\ pausedAt' = pausedAt
                    \/ pausedAt' = stopGeneration /\ ~completing
  PROVE  IInv'
  <1>1. /\ running' = running /\ starting' = starting /\ runEpoch' = runEpoch /\ targetMu' = targetMu
        /\ stopGeneration' = stopGeneration /\ admittedAt' = admittedAt
    OBVIOUS
  <1>2. stopBarriers > 0 /\ stopBarriers \in Nat /\ stopBarriers' = stopBarriers - 1
    BY StopRaisesBarrier, Parts DEF TypeOK, endStopBarrier
  <1>3. ~running /\ ~starting
    BY <1>2, Parts DEF RunInv, TypeOK
  <1>4. FrameInv'
    BY Parts DEF FrameInv, Workers, Continues
  <1>5. LockInv'
    <2>1. ~HoldsCommand(f)
      BY DEF HoldsCommand, Continues, InStop
    <2>2. QED
      BY <1>1, <2>1, Parts DEF LockInv, Continues
  <1>6. BarriersCounted'
    <2>1. Stopping' = Stopping \ {g} /\ g \in Stopping
      BY DEF Stopping, InStop, Continues
    <2>2. Cardinality(Stopping') = Cardinality(Stopping) - 1
      BY <2>1, StoppingFinite, FS_RemoveElement
    <2>3. QED
      BY <1>2, <2>2, Parts DEF BarriersCounted
  <1>7. RunInv'
    <2>1. runEpoch \in Nat /\ fenced <= runEpoch /\ fenced' <= runEpoch
      BY Parts, EngineAssumption DEF TypeOK, RunInv
    <2>2. QED
      BY <1>1, <1>3, <2>1, Parts DEF RunInv, Continues
  <1>8. StartupInv' /\ EditInv' /\ GapInv' /\ RunIsAdmitted'
    BY <1>1, <1>3 DEF StartupInv, EditInv, GapInv, RunIsAdmitted, Valid
  <1>9. SendInv'
    <2>1. \A h \in Workers : at'[h].pc = "send" => h # g /\ at[h].pc = "send"
      BY DEF Continues
    <2>2. \A h \in Workers : at[h].pc = "halt" => at'[h] = at[h]
      OBVIOUS
    <2>3. QED
      BY <1>3, <2>1, <2>2, Parts DEF SendInv, Valid
  <1>10. StopIsLast'
    <2>1. \A h \in Workers : at'[h].pc = "send" => h # g /\ at'[h] = at[h] /\ commandMu = h
      BY Parts DEF Continues, LockInv, HoldsCommand
    <2>2. QED
      BY <2>1, Parts DEF StopIsLast
  <1>11. DeviceInv'
    <2>1. ~EndsMotion(at[g]) => \A h \in Workers : EndsMotion(at[h]) => at'[h] = at[h]
      OBVIOUS
    <2>2. QED
      BY <1>3, <2>1, Parts DEF DeviceInv
  <1>12. CompletingInv'
    <2>1. ~InStop(f)
      BY DEF Continues
    <2>2. QED
      BY <2>1, Parts DEF CompletingInv, InStop
  <1>13. NothingToResume'
    BY <1>1, <1>3, Parts DEF NothingToResume
  <1>14. QED
    BY <1>4, <1>5, <1>6, <1>7, <1>8, <1>9, <1>10, <1>11, <1>12, <1>13 DEF IInv

(* The section of mu that follows a transport Stop, but for what it says   *)
(* of the pause and the completion.                                        *)
LEMMA FinishKeeps ==
  ASSUME IInv, NEW g \in Workers, NEW kind \in Halts \ {"reset"}, NEW ok \in BOOLEAN, NEW f,
         Continues(g, f), Finish(g, kind, ok, f),
         completing' \in BOOLEAN, paused' \in BOOLEAN, recovery' \in 0 .. MaxEpoch,
         done' \in 0 .. MaxEpoch, pausedAt' \in Nat,
         completing' => completing /\ kind # "complete",
         paused' => \/ paused /\ pausedAt' = pausedAt
                    \/ pausedAt' = stopGeneration /\ ~completing
  PROVE  IInv'
  <1>1. /\ at[g].pc = "halting" /\ at[g].halt = kind /\ at' = [at EXCEPT ![g] = f]
        /\ device' \in (IF ok THEN {0} ELSE {0, device}) /\ stopFailed' = ~ok /\ fenced' = runEpoch
        /\ endStopBarrier /\ commandMu' = None
    BY DEF Finish, Step, TransportStop
  <1>2. /\ running' = running /\ starting' = starting /\ runEpoch' = runEpoch /\ stopGeneration' = stopGeneration
        /\ linearStartPending' = linearStartPending /\ generation' = generation /\ planID' = planID
        /\ only' = only /\ gap' = gap /\ resetting' = resetting /\ cancelled' = cancelled
        /\ targetMu' = targetMu /\ admittedAt' = admittedAt
    BY DEF Finish, plan
  <1>3. f \in Frames /\ at'[g] = f /\ \A h \in Workers : h # g => at'[h] = at[h]
    BY <1>1, Parts DEF TypeOK, Continues
  <1>4. InStop(at[g]) /\ commandMu = g
    BY <1>1, Parts DEF InStop, LockInv, HoldsCommand
  <1>5. stopBarriers' \in Nat /\ device' \in 0 .. MaxEpoch
    <2>1. stopBarriers > 0 /\ stopBarriers \in Nat
      BY <1>4, StopRaisesBarrier, Parts DEF TypeOK
    <2>2. 0 \in 0 .. MaxEpoch /\ device \in 0 .. MaxEpoch
      BY Parts, EngineAssumption DEF TypeOK
    <2>3. device' \in {0, device}
      BY <1>1
    <2>4. QED
      BY <1>1, <2>1, <2>2, <2>3 DEF endStopBarrier
  <1>6. TypeOK'
    <2>1. at' \in [Workers -> Frames]
      BY <1>1, <1>3, Parts DEF TypeOK
    <2>2. stopFailed' \in BOOLEAN /\ commandMu' \in Workers \cup {None} /\ fenced' \in 0 .. MaxEpoch
      BY <1>1, Parts DEF TypeOK
    <2>3. QED
      BY <1>2, <1>5, <2>1, <2>2, Parts DEF TypeOK
  <1>7. device' = 0 \/ stopFailed'
    BY <1>1
  <1>8. QED
    BY <1>1, <1>2, <1>3, <1>4, <1>6, <1>7, LowerKeeps

(* Stop and the Stop of a promotion end.                                   *)
LEMMA StopFinishKeeps ==
  ASSUME IInv, NEW g \in Requests, NEW ok \in BOOLEAN, StopFinish(g, ok)
  PROVE  IInv'
  <1> DEFINE b == [at[g] EXCEPT !.pc = "begin", !.halt = "none", !.awaits = 0]
             f == CASE at[g].op = "stop" -> Idle
                    [] at[g].op = "promote" /\ ok -> b
                    [] OTHER -> Returned(g)
  <1>1. /\ Finish(g, "stop", ok, f) /\ at[g].pc = "halting" /\ g \in Workers
        /\ completing' = completing /\ paused' = FALSE /\ recovery' = recovery /\ done' = done
        /\ pausedAt' = pausedAt /\ at[g].halt = "stop"
    BY DEF StopFinish, Finish, Step, Workers
  <1>2. Continues(g, Idle)
    <2>1. RequestFrame(Idle) /\ ~InStop(Idle) /\ ~InStartup(Idle) /\ ~Editing(Idle) /\ ~HoldsTarget(Idle)
      BY IdleFrame DEF RequestFrame, InStop, InStartup, Editing, HoldsTarget
    <2>2. QED
      BY <2>1, IdleFrame, Parts, TwoKinds, <1>1 DEF Continues, TypeOK
  <1>3. ASSUME at[g].op = "promote" PROVE Continues(g, b)
    <2>1. at[g] \in Frames /\ at[g].epoch <= runEpoch /\ 0 \in 0 .. MaxEpoch
      BY <1>1, Parts, FrameTypes, EngineAssumption DEF RunInv
    <2>2. b \in Frames /\ b.pc = "begin" /\ b.op = "promote" /\ b.epoch = at[g].epoch
      BY <1>3, <2>1 DEF Frames, PCs
    <2> HIDE DEF b
    <2>3. RequestFrame(b) /\ ~InStop(b) /\ ~InStartup(b) /\ ~Editing(b) /\ HoldsTarget(at[g])
      BY <1>1, <1>3, <2>2 DEF RequestFrame, InStop, InStartup, Editing, HoldsTarget
    <2>4. QED
      BY <1>1, <2>1, <2>2, <2>3, TwoKinds DEF Continues
  <1>4. Continues(g, f)
    BY <1>1, <1>2, <1>3, ReturnedContinues
  <1> HIDE DEF f
  <1>5. QED
    BY <1>1, <1>4, FinishKeeps, Parts DEF TypeOK, Halts

(* Pause ends: unless a Stop has come since, there is something to resume. *)
LEMMA PauseFinishKeeps ==
  ASSUME IInv, NEW g \in Requests, NEW ok \in BOOLEAN, PauseFinish(g, ok)
  PROVE  IInv'
  <1>1. /\ Finish(g, "pause", ok, Idle) /\ at[g].pc = "halting" /\ g \in Workers /\ at[g].halt = "pause"
        /\ completing' = completing /\ recovery' = recovery /\ done' = done
    BY DEF PauseFinish, Finish, Step, Workers
  <1>2. Continues(g, Idle)
    <2>1. RequestFrame(Idle) /\ ~InStop(Idle) /\ ~InStartup(Idle) /\ ~Editing(Idle) /\ ~HoldsTarget(Idle)
      BY IdleFrame DEF RequestFrame, InStop, InStartup, Editing, HoldsTarget
    <2>2. QED
      BY <2>1, IdleFrame, Parts, TwoKinds, <1>1 DEF Continues, TypeOK
  <1>3. ~completing
    BY <1>1, Parts DEF CompletingInv
  <1>4. /\ paused' \in BOOLEAN /\ pausedAt' \in Nat
        /\ paused' => (paused /\ pausedAt' = pausedAt) \/ pausedAt' = stopGeneration
    BY Parts DEF PauseFinish, TypeOK
  <1>5. QED
    BY <1>1, <1>2, <1>3, <1>4, FinishKeeps, Parts DEF TypeOK, Halts

(* A failed startup has stopped its run.                                   *)
LEMMA AbortFinishKeeps ==
  ASSUME IInv, NEW g \in Requests, NEW ok \in BOOLEAN, AbortFinish(g, ok)
  PROVE  IInv'
  <1>1. /\ Finish(g, "abort", ok, AfterAbort(g)) /\ at[g].pc = "halting" /\ g \in Workers
        /\ completing' = completing /\ paused' = paused /\ done' = done
        /\ pausedAt' = pausedAt
        /\ recovery' \in {at[g].epoch, recovery}
    BY DEF AbortFinish, Finish, Step, Workers
  <1>2. /\ at[g] \in Frames /\ at[g].epoch <= runEpoch /\ at[g].epoch \in 0 .. MaxEpoch
        /\ recovery' \in 0 .. MaxEpoch
    <2>1. at[g] \in Frames /\ at[g].epoch <= runEpoch
      BY <1>1, Parts, FrameTypes DEF RunInv
    <2>2. at[g].epoch \in 0 .. MaxEpoch
      BY <2>1 DEF Frames
    <2>3. QED
      BY <1>1, <2>1, <2>2, Parts DEF TypeOK
  <1>3. Continues(g, AfterAbort(g))
    <2>1. CASE at[g].op = "resume"
      <3> DEFINE b == [at[g] EXCEPT !.pc = "restore"]
      <3>1. b \in Frames /\ b.pc = "restore" /\ b.op = "resume" /\ b.epoch = at[g].epoch
        BY <1>2, <2>1 DEF Frames, PCs
      <3>2. AfterAbort(g) = b
        BY <2>1 DEF AfterAbort
      <3> HIDE DEF b
      <3>3. RequestFrame(b) /\ ~InStop(b) /\ ~InStartup(b) /\ ~Editing(b) /\ ~HoldsTarget(b)
        BY <3>1 DEF RequestFrame, InStop, InStartup, Editing, HoldsTarget
      <3>4. QED
        BY <1>1, <1>2, <3>1, <3>2, <3>3, TwoKinds DEF Continues
    <2>2. CASE at[g].op # "resume"
      BY <1>1, <2>2, ReturnedContinues DEF AfterAbort
    <2>3. QED
      BY <2>1, <2>2
  <1>4. QED
    BY <1>1, <1>2, <1>3, FinishKeeps, Parts DEF TypeOK, Halts

(* Finite content has played to its end, and its loop is over.             *)
LEMMA CompleteFinishKeeps ==
  ASSUME IInv, NEW k \in Loops, NEW ok \in BOOLEAN, CompleteFinish(k, ok)
  PROVE  IInv'
  <1> DEFINE f == [at[k] EXCEPT !.pc = "exited"]
  <1>1. /\ Finish(k, "complete", ok, f) /\ at[k].pc = "halting" /\ k \in Workers
        /\ completing' = FALSE /\ done' = 0 /\ paused' = paused /\ recovery' = recovery
        /\ pausedAt' = pausedAt
    BY DEF CompleteFinish, Finish, Step, Workers
  <1>2. at[k] \in Frames /\ at[k].epoch <= runEpoch /\ LoopFrame(k, at[k])
    BY <1>1, Parts, FrameTypes DEF RunInv, FrameInv
  <1>3. Continues(k, f)
    <2>1. f \in Frames /\ f.pc = "exited" /\ f.op = "loop" /\ f.epoch = at[k].epoch /\ f.epoch = k
      BY <1>2 DEF Frames, PCs, LoopFrame
    <2> HIDE DEF f
    <2>2. LoopFrame(k, f) /\ ~InStop(f) /\ ~InStartup(f) /\ ~Editing(f) /\ ~HoldsTarget(f)
      BY <2>1 DEF LoopFrame, InStop, InStartup, Editing, HoldsTarget
    <2>3. QED
      BY <1>1, <1>2, <2>1, <2>2, TwoKinds DEF Continues
  <1> HIDE DEF f
  <1>4. 0 \in 0 .. MaxEpoch
    BY EngineAssumption
  <1>5. QED
    BY <1>1, <1>3, <1>4, FinishKeeps, Parts DEF TypeOK, Halts

(* A run was stopped for recovery, by a request or by its own loop, which  *)
(* then goes where the failure takes it.                                   *)
LEMMA FinishRecoveryKeeps ==
  ASSUME IInv, NEW g \in Workers, NEW ok \in BOOLEAN, FinishRecovery(g, ok)
  PROVE  IInv'
  <1> DEFINE f == [Failed(g) EXCEPT !.halt = "none", !.awaits = 0]
  <1>1. /\ Finish(g, "recovery", ok, f) /\ at[g].pc = "halting"
        /\ completing' = completing /\ paused' = paused /\ recovery' = recovery /\ done' = done
        /\ pausedAt' = pausedAt
    BY DEF FinishRecovery, Finish, Step
  <1>2. at[g] \in Frames /\ at[g].epoch <= runEpoch /\ 0 \in 0 .. MaxEpoch /\ 0 <= runEpoch
    BY <1>1, Parts, FrameTypes, EngineAssumption DEF RunInv, TypeOK
  <1>3. /\ Failed(g) \in Frames /\ Failed(g).epoch <= runEpoch
        /\ Failed(g).pc \in {"abort", "vibrate", "select", "idle", "return"}
        /\ g \in Requests => RequestFrame(Failed(g))
        /\ g \in Loops => LoopFrame(g, Failed(g))
        /\ HoldsTarget(Failed(g)) => HoldsTarget(at[g])
    <2>1. CASE g \in Requests /\ at[g].op \in Startups
      <3> DEFINE b == [at[g] EXCEPT !.pc = "abort"]
      <3>1. b \in Frames /\ b.pc = "abort" /\ b.op = at[g].op /\ b.epoch = at[g].epoch
        BY <1>2 DEF Frames, PCs
      <3>2. Failed(g) = b
        BY <2>1 DEF Failed, Startups
      <3> HIDE DEF b
      <3>3. RequestFrame(b) /\ (HoldsTarget(b) => HoldsTarget(at[g]))
        BY <1>1, <2>1, <3>1 DEF RequestFrame, HoldsTarget, Startups
      <3>4. QED
        BY <1>2, <2>1, <3>1, <3>2, <3>3, TwoKinds
    <2>2. CASE g \in Requests /\ at[g].op \notin Startups
      <3>1. Failed(g) = Returned(g)
        BY <2>2, Parts DEF Failed, Startups, FrameInv, RequestFrame
      <3>2. QED
        BY <1>1, <2>2, <3>1, ReturnedContinues, ReturnedPlace, TwoKinds DEF Continues
    <2>3. CASE g \in Loops
      <3> DEFINE v == [at[g] EXCEPT !.pc = "vibrate"]
                 s == [at[g] EXCEPT !.pc = "select", !.cmd = "none"]
      <3>1. v \in Frames /\ v.pc = "vibrate" /\ v.op = at[g].op /\ v.epoch = at[g].epoch
        BY <1>2 DEF Frames, PCs
      <3>2. s \in Frames /\ s.pc = "select" /\ s.op = at[g].op /\ s.epoch = at[g].epoch
        BY <1>2 DEF Frames, PCs
      <3>3. LoopFrame(g, at[g])
        BY <2>3, Parts DEF FrameInv
      <3>4. Failed(g) \in {v, s}
        BY <3>3 DEF Failed, LoopFrame
      <3> HIDE DEF v, s
      <3>5. LoopFrame(g, v) /\ LoopFrame(g, s) /\ ~HoldsTarget(v) /\ ~HoldsTarget(s)
        BY <3>1, <3>2, <3>3 DEF LoopFrame, HoldsTarget
      <3>6. QED
        BY <1>2, <2>3, <3>1, <3>2, <3>4, <3>5, TwoKinds
    <2>4. QED
      BY <2>1, <2>2, <2>3, TwoKinds
  <1>4. /\ f \in Frames /\ f.pc = Failed(g).pc /\ f.op = Failed(g).op /\ f.epoch = Failed(g).epoch
        /\ f.cmd = Failed(g).cmd
    BY <1>2, <1>3 DEF Frames
  <1> HIDE DEF f
  <1>5. Continues(g, f)
    <2>1. ~InStop(f) /\ ~Editing(f) /\ (HoldsTarget(f) => HoldsTarget(at[g]))
      BY <1>3, <1>4 DEF InStop, Editing, HoldsTarget
    <2>2. (g \in Requests => RequestFrame(f)) /\ (g \in Loops => LoopFrame(g, f))
      BY <1>3, <1>4 DEF RequestFrame, LoopFrame
    <2>3. ~running
      BY <1>1, StopRaisesBarrier, Parts DEF InStop, RunInv, TypeOK
    <2>4. QED
      BY <1>3, <1>4, <2>1, <2>2, <2>3 DEF Continues
  <1>6. QED
    BY <1>1, <1>5, FinishKeeps, Parts DEF TypeOK, Halts

(* A reset is over; its transport Stop came before.                        *)
LEMMA ResetEndKeeps ==
  ASSUME IInv, NEW g \in Requests, ResetEnd(g)
  PROVE  IInv'
  <1>1. /\ at[g].pc = "resetEnd" /\ at' = [at EXCEPT ![g] = Idle] /\ g \in Workers
        /\ resetting' = None /\ endStopBarrier /\ recovery' \in {0, recovery}
    BY DEF ResetEnd, Step, Workers
  <1>2. /\ running' = running /\ starting' = starting /\ completing' = completing /\ paused' = paused
        /\ runEpoch' = runEpoch /\ stopGeneration' = stopGeneration
        /\ generation' = generation /\ planID' = planID /\ only' = only /\ gap' = gap
        /\ done' = done /\ cancelled' = cancelled /\ device' = device
        /\ stopFailed' = stopFailed /\ fenced' = fenced /\ pausedAt' = pausedAt /\ admittedAt' = admittedAt
        /\ linearStartPending' = linearStartPending /\ targetMu' = targetMu /\ commandMu' = commandMu
    BY DEF ResetEnd, flags, epochs, plan, resets, loopRef, wire, history
  <1>3. Continues(g, Idle)
    <2>1. RequestFrame(Idle) /\ ~InStop(Idle) /\ ~InStartup(Idle) /\ ~Editing(Idle) /\ ~HoldsTarget(Idle)
      BY IdleFrame DEF RequestFrame, InStop, InStartup, Editing, HoldsTarget
    <2>2. QED
      BY <2>1, IdleFrame, Parts, TwoKinds, <1>1 DEF Continues, TypeOK
  <1>4. at'[g] = Idle /\ \A h \in Workers : h # g => at'[h] = at[h]
    BY <1>1, Parts DEF TypeOK
  <1>5. InStop(at[g]) /\ ~EndsMotion(at[g])
    BY <1>1 DEF InStop, EndsMotion
  <1>6. TypeOK'
    <2>1. stopBarriers > 0 /\ stopBarriers \in Nat
      BY <1>1, <1>5, StopRaisesBarrier, Parts DEF TypeOK
    <2>2. stopBarriers' \in Nat
      BY <1>1, <2>1 DEF endStopBarrier
    <2>3. recovery' \in 0 .. MaxEpoch
      BY <1>1, Parts, EngineAssumption DEF TypeOK
    <2>4. at' \in [Workers -> Frames]
      BY <1>1, IdleFrame, Parts DEF TypeOK
    <2>5. QED
      BY <1>1, <1>2, <2>2, <2>3, <2>4, Parts DEF TypeOK
  <1>7. QED
    BY <1>1, <1>2, <1>3, <1>4, <1>5, <1>6, LowerKeeps

-----------------------------------------------------------------------------
(* The engine begins with every request idle and no loop launched.         *)
LEMMA InitEstablishes == Init => IInv
  <1> SUFFICES ASSUME Init PROVE IInv
    OBVIOUS
  <1>1. 0 \in 0 .. MaxEpoch /\ None \notin Workers
    BY EngineAssumption DEF Workers, Loops
  <1>2. /\ at \in [Workers -> Frames]
        /\ \A r \in Requests : at[r] = Idle
        /\ \A k \in Loops : at[k] = [Idle EXCEPT !.pc = "none", !.op = "loop", !.epoch = k]
    <2>1. \A k \in Loops : [Idle EXCEPT !.pc = "none", !.op = "loop", !.epoch = k] \in Frames
      <3> SUFFICES ASSUME NEW k \in Loops
                   PROVE  [Idle EXCEPT !.pc = "none", !.op = "loop", !.epoch = k] \in Frames
        OBVIOUS
      <3>1. k \in 0 .. MaxEpoch
        BY EngineAssumption DEF Loops
      <3>2. QED
        BY <3>1, IdleFrame DEF Frames, PCs
    <2>2. QED
      BY <2>1, IdleFrame, TwoKinds DEF Init, Workers
  <1>3. \A k \in Loops : at[k].pc = "none" /\ at[k].op = "loop" /\ at[k].epoch = k
    <2> SUFFICES ASSUME NEW k \in Loops PROVE at[k].pc = "none" /\ at[k].op = "loop" /\ at[k].epoch = k
      OBVIOUS
    <2>1. Idle \in Frames
      BY IdleFrame
    <2>2. QED
      BY <1>2, <2>1 DEF Frames
  <1>4. \A g \in Workers : at[g].pc \in {"idle", "none"}
    BY <1>2, <1>3, IdleFrame DEF Workers
  <1>5. TypeOK
    BY <1>1, <1>2 DEF Init, TypeOK
  <1>6. FrameInv
    <2>1. RequestFrame(Idle)
      BY IdleFrame DEF RequestFrame
    <2>2. \A k \in Loops : LoopFrame(k, at[k])
      BY <1>3 DEF LoopFrame
    <2>3. QED
      BY <1>2, <2>1, <2>2 DEF FrameInv
  <1>7. LockInv
    <2>1. \A g \in Workers : ~HoldsTarget(at[g])
      BY <1>2, <1>3, IdleFrame DEF HoldsTarget, Workers
    <2>2. QED
      BY <1>4, <2>1 DEF LockInv, HoldsCommand
  <1>8. BarriersCounted
    <2>1. Stopping = {}
      BY <1>4 DEF Stopping
    <2>2. QED
      BY <2>1, FS_EmptySet DEF Init, BarriersCounted
  <1>9. RunInv /\ StartupInv /\ EditInv /\ GapInv
    <2>1. \A g \in Workers : at[g].pc = "none" \/ at[g].epoch = 0
      BY <1>2, <1>3, IdleFrame DEF Workers
    <2>2. RunInv
      <3>1. runEpoch = 0 /\ fenced = 0 /\ running = FALSE /\ starting = FALSE
        BY DEF Init
      <3>2. \A g \in Workers : at[g].pc = "none" \/ at[g].epoch <= runEpoch
        BY <2>1, <3>1
      <3>3. QED
        BY <3>1, <3>2 DEF RunInv
    <2>3. QED
      BY <2>2 DEF Init, StartupInv, EditInv, GapInv, Valid
  <1>10. SendInv /\ StopIsLast /\ DeviceInv /\ CompletingInv
    BY <1>4 DEF Init, SendInv, StopIsLast, DeviceInv, CompletingInv
  <1>11. NothingToResume /\ RunIsAdmitted
    BY DEF Init, NothingToResume, RunIsAdmitted
  <1>12. QED
    BY <1>5, <1>6, <1>7, <1>8, <1>9, <1>10, <1>11 DEF IInv

(* A method is called.                                                     *)
LEMMA CalledKeeps ==
  ASSUME IInv, NEW g \in Requests, Call(g)
  PROVE  IInv'
  <1>1. CASE \/ StartAdmission(g)
             \/ \E id \in {0, planID} : TargetCall(g, id)
             \/ RefreshCall(g)
             \/ \E id \in {0, generation} : VibrateCall(g, id)
             \/ ResetCall(g)
    BY <1>1, CallKeeps
  <1>2. CASE BeginResume(g)
    BY <1>2, BeginResumeKeeps
  <1>3. CASE BeginResumeUncompiled(g)
    BY <1>3, BeginResumeUncompiledKeeps
  <1>4. CASE PauseBegin(g)
    BY <1>4, PauseBeginKeeps
  <1>5. CASE Stop(g)
    BY <1>5, StopBeginKeeps
  <1>6. QED
    BY <1>1, <1>2, <1>3, <1>4, <1>5 DEF Call

(* A mutex is taken.                                                       *)
LEMMA AcquireKeeps ==
  ASSUME IInv, NEW g \in Workers, Acquire(g) \/ (g \in Requests /\ AcquireTarget(g))
  PROVE  IInv'
  <1>1. CASE AdmitCommand(g)
    BY <1>1, AdmitKeeps
  <1>2. CASE SampleFailed(g)
    BY <1>2, SampleFailedKeeps
  <1>3. CASE HaltLock(g)
    BY <1>3, HaltLockKeeps
  <1>4. CASE VibrationUnneeded(g)
    BY <1>4, GoesOnKeeps
  <1>5. CASE g \in Requests /\ TargetLock(g)
    BY <1>5, TargetLockKeeps
  <1>6. CASE g \in Requests /\ VibrateLock(g)
    BY <1>6, VibrateLockKeeps
  <1>7. CASE g \in Requests /\ VibrateAdmit(g)
    BY <1>7, VibrateAdmitKeeps
  <1>8. CASE g \in Requests /\ VibrateRefused(g)
    BY <1>8, RequestGoesOnKeeps
  <1>9. QED
    BY <1>1, <1>2, <1>3, <1>4, <1>5, <1>6, <1>7, <1>8 DEF Acquire, AcquireTarget

(* A command goes out, returns or fails, for a request or for a loop.      *)
LEMMA DispatchKeeps ==
  ASSUME IInv, NEW g \in Workers, Dispatch(g)
  PROVE  IInv'
  <1>1. CASE Healthy(g) \/ Invalidated(g) \/ VibrateUnrecovered(g)
    BY <1>1, GoesOnKeeps
  <1>2. CASE Unhealthy(g) \/ VibrateRecovery(g)
    BY <1>2, UnhealthyKeeps
  <1>3. CASE CommandSucceeded(g)
    BY <1>3, SucceededKeeps
  <1>4. CASE CommandFailedRecovering(g)
    BY <1>4, FailedRecoveringKeeps
  <1>5. CASE \E notArrived \in BOOLEAN : CommandFailed(g, notArrived)
    BY <1>5, CommandFailedKeeps
  <1>6. CASE \E ok \in BOOLEAN : FinishRecovery(g, ok)
    BY <1>6, FinishRecoveryKeeps
  <1>7. QED
    BY <1>1, <1>2, <1>3, <1>4, <1>5, <1>6 DEF Dispatch

(* A request goes on.                                                      *)
LEMMA RequestKeeps ==
  ASSUME IInv, NEW g \in Requests, RequestStep(g)
  PROVE  IInv'
  <1>1. CASE Dispatch(g)
    BY <1>1, DispatchKeeps DEF Workers
  <1>2. CASE \/ BeginRefused(g) \/ StartLoopInvalidated(g) \/ PromoteRefused(g) \/ CommitRefused(g)
             \/ ResetRefused(g) \/ RequestCancelled(g) \/ AbortUnneeded(g) \/ EditPlan(g)
    BY <1>2, RequestGoesOnKeeps
  <1>3. CASE \E vibrationOnly \in BOOLEAN : Begin(g, vibrationOnly)
    BY <1>3, BeginKeeps
  <1>4. CASE BeginUncompiled(g)
    BY <1>4, BeginUncompiledKeeps
  <1>5. CASE StartLoop(g)
    BY <1>5, StartLoopKeeps
  <1>6. CASE ForceStopped(g)
    BY <1>6, ForceStoppedKeeps
  <1>7. CASE RestorePaused(g)
    BY <1>7, RestorePausedKeeps
  <1>8. CASE EditPromotes(g)
    BY <1>8, EditPromotesKeeps
  <1>9. CASE TakeoverStop(g)
    BY <1>9, StopBeginKeeps
  <1>10. CASE \E compiles \in BOOLEAN : Commit(g, compiles)
    BY <1>10, CommitKeeps
  <1>11. CASE Return(g)
    BY <1>11, ReturnKeeps
  <1>12. CASE ResetBegin(g)
    BY <1>12, ResetBeginKeeps
  <1>13. CASE ResetEnd(g)
    BY <1>13, ResetEndKeeps
  <1>14. ASSUME NEW ok \in BOOLEAN,
                StopFinish(g, ok) \/ PauseFinish(g, ok) \/ AbortFinish(g, ok) \/ ResetStop(g, ok) \/ ResetRead(g, ok)
         PROVE  IInv'
    BY <1>14, StopFinishKeeps, PauseFinishKeeps, AbortFinishKeeps, ResetStopKeeps, ResetReadKeeps
  <1>15. QED
    BY <1>1, <1>2, <1>3, <1>4, <1>5, <1>6, <1>7, <1>8, <1>9, <1>10, <1>11, <1>12, <1>13, <1>14 DEF RequestStep

(* A loop goes on.                                                         *)
LEMMA LoopKeeps ==
  ASSUME IInv, NEW k \in Loops, LoopStep(k)
  PROVE  IInv'
  <1>1. CASE Dispatch(k)
    BY <1>1, DispatchKeeps DEF Workers
  <1>2. CASE LoopExit(k) \/ Tick(k)
    BY <1>2, LoopGoesOnKeeps
  <1>3. CASE CompleteProgram(k)
    BY <1>3, CompleteProgramKeeps
  <1>4. CASE VibrationNeeded(k)
    BY <1>4, GoesOnKeeps DEF Workers
  <1>5. CASE \E ok \in BOOLEAN : CompleteFinish(k, ok)
    BY <1>5, CompleteFinishKeeps
  <1>6. QED
    BY <1>1, <1>2, <1>3, <1>4, <1>5 DEF LoopStep

(* Every step of the engine keeps the invariant.                           *)
LEMMA NextKeeps == IInv /\ [Next]_vars => IInv'
  <1> SUFFICES ASSUME IInv, [Next]_vars PROVE IInv'
    OBVIOUS
  <1>1. CASE UNCHANGED vars
    BY <1>1, Parts DEF vars, flags, epochs, plan, resets, loopRef, wire, history, IInv, TypeOK, FrameInv, LockInv,
       BarriersCounted, Stopping, RunInv, StartupInv, SendInv, StopIsLast, DeviceInv, CompletingInv,
       NothingToResume, RunIsAdmitted, EditInv, GapInv, Valid
  <1>2. ASSUME NEW g \in Requests, Call(g) PROVE IInv'
    BY <1>2, CalledKeeps
  <1>3. ASSUME NEW g \in Requests, Acquire(g) \/ AcquireTarget(g) PROVE IInv'
    BY <1>3, AcquireKeeps DEF Workers
  <1>4. ASSUME NEW g \in Requests, RequestStep(g) PROVE IInv'
    BY <1>4, RequestKeeps
  <1>5. ASSUME NEW k \in Loops, Acquire(k) PROVE IInv'
    BY <1>5, AcquireKeeps DEF Workers
  <1>6. ASSUME NEW k \in Loops, LoopStep(k) PROVE IInv'
    BY <1>6, LoopKeeps
  <1>7. QED
    BY <1>1, <1>2, <1>3, <1>4, <1>5, <1>6 DEF Next

(* The invariant holds in every behaviour of the engine.                   *)
LEMMA InvariantHolds == Spec => []IInv
  BY InitEstablishes, NextKeeps, PTL DEF Spec

-----------------------------------------------------------------------------
(* The engine's fields, the goroutines and the device keep their types.    *)
THEOREM EngineTypeCorrect == Spec => []TypeOK
  <1>1. IInv => TypeOK
    BY DEF IInv
  <1>2. QED
    BY <1>1, InvariantHolds, PTL

(* stopBarriers counts the stops in progress, so endStopBarrierLocked      *)
(* never saturates and no start is shut out by a stop that is over.        *)
THEOREM BarriersAreCounted == Spec => []BarriersCounted
  <1>1. IInv => BarriersCounted
    BY DEF IInv
  <1>2. QED
    BY <1>1, InvariantHolds, PTL

(* No run is active while any stop is in progress: nothing can be started  *)
(* between the end of a run and its transport Stop.                        *)
THEOREM BarrierShutsRunsOut == Spec => []BarrierExcludesRun
  <1>1. IInv => BarrierExcludesRun
    BY Parts DEF RunInv, TypeOK, BarrierExcludesRun
  <1>2. QED
    BY <1>1, InvariantHolds, PTL

(* A transport Stop is the last word for every run that began before it,   *)
(* whichever goroutines waited for commandMu when it was sent.             *)
THEOREM StopHasTheLastWord == Spec => []StopIsLast
  <1>1. IInv => StopIsLast
    BY DEF IInv
  <1>2. QED
    BY <1>1, InvariantHolds, PTL

(* The device executes a stream only for an active run, with a stop on its *)
(* way, or after a transport Stop that was reported failed.                *)
THEOREM MotionHasAnOwner == Spec => []NoOrphanMotion
  <1>1. IInv => NoOrphanMotion
    <2> SUFFICES ASSUME IInv PROVE NoOrphanMotion
      OBVIOUS
    <2>1. (\E h \in Workers : EndsMotion(at[h])) => stopBarriers > 0
      BY StopRaisesBarrier DEF EndsMotion, InStop
    <2>2. QED
      BY <2>1, Parts DEF DeviceInv, NoOrphanMotion
  <1>2. QED
    BY <1>1, InvariantHolds, PTL

(* What can be resumed was paused in the current Stop epoch, however       *)
(* Pause, a failed Resume and Stop overlap.                                *)
THEOREM StopLeavesNothingToResume == Spec => []NothingToResume
  <1>1. IInv => NothingToResume
    BY DEF IInv
  <1>2. QED
    BY <1>1, InvariantHolds, PTL

(* The active run was admitted in the current Stop epoch: every Stop that  *)
(* came later would have ended it.                                         *)
THEOREM RunsAreAdmitted == Spec => []RunIsAdmitted
  <1>1. IInv => RunIsAdmitted
    BY DEF IInv
  <1>2. QED
    BY <1>1, InvariantHolds, PTL

(* A conditional retarget commits only to the plan its caller saw, however *)
(* many target operations queued for targetMu before it.                   *)
THEOREM RetargetsAreCurrent == Spec => []PlanIsCurrent
  <1>1. IInv => PlanIsCurrent
    <2> SUFFICES ASSUME IInv, NEW g \in Requests, at[g].op = "target", at[g].pc = "commit", Valid(g)
                 PROVE  at[g].want \in {0, planID}
      BY DEF PlanIsCurrent
    <2>1. Editing(at[g])
      BY Parts DEF FrameInv, RequestFrame, Editing
    <2>2. QED
      BY <2>1, Parts DEF EditInv
  <1>2. QED
    BY <1>1, InvariantHolds, PTL

(* For content without dense windows, samples that were taken from the     *)
(* plan and not accepted end the run (dispatchThrough).                    *)
THEOREM ChunksAreNotSkipped == ~DenseContent => (Spec => []NoSkippedChunk)
  <1> SUFFICES ASSUME ~DenseContent PROVE Spec => []NoSkippedChunk
    OBVIOUS
  <1>1. IInv => NoSkippedChunk
    BY DEF IInv, GapInv, NoSkippedChunk
  <1>2. QED
    BY <1>1, InvariantHolds, PTL

=============================================================================
