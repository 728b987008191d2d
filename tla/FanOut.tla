-------------------------------- MODULE FanOut --------------------------------
(***************************************************************************)
(* One linked session: the FanOut transport that drives several devices as *)
(* one (src/internal/transport/fanout.go), each behind the lease of its    *)
(* connection (leased.go).  A connection may be replaced between the check *)
(* of the lease and the owner's call.  Every check before the replacement  *)
(* passes, so Replace is where it is settled which of the calls in flight  *)
(* have been checked already.                                              *)
(*                                                                         *)
(* The engine's commandMu lets one command run at a time, so a command is  *)
(* one set of variables.  Diagnostics runs beside it on the goroutines in  *)
(* Readers: the dispatch loop, and edits that a Stop does not wait for.    *)
(* They meet at f.mu, and every section of f.mu is a step.                 *)
(*                                                                         *)
(* The devices are external: a command reaches one and is acknowledged, or *)
(* fails, having reached it or not.                                        *)
(***************************************************************************)
EXTENDS Naturals, Sequences, FiniteSetsExt

CONSTANTS
  N,            \* number of participants, in run-clock order
  Vibrators,    \* the participants with the ID "vibrator"
  Bound,        \* those whose owner checks the connection again where it writes
  Readers,      \* goroutines that call Diagnostics
  None,
  MaxRuns,      \* bound: runs of the engine on this session
  MaxFailures   \* bound: failed calls on a connected device, lost connections, starved devices

Participants == 1..N

ASSUME FanOutAssumption ==
  /\ N \in Nat \ {0}
  /\ Vibrators \subseteq Participants
  /\ Bound \subseteq Participants
  /\ None \notin Participants
  /\ MaxRuns \in Nat
  /\ MaxFailures \in Nat

VARIABLES
  continueHealthy, playing, vibrationOnly, fault, retired, faultStopped,
  op,         \* the command that runs
  pc,         \* where it stands
  active,     \* the participants of a Play's snapshot
  pending,    \* those that have not answered
  passed,     \* those whose lease was checked before the connection was replaced
  errs,       \* those that failed and have not been dealt with
  acked,      \* those a Play started
  stopFault,  \* command.Fault of its Stop
  leaving,    \* the participant it retires
  rpc, sample, work, seen,  \* a Diagnostics call: place, states read, participants to judge, run
  run, only,  \* the engine's run, and whether it is vibration only
  runs, owedFault,          \* runs so far; the Fault of the Stop that ends the run
  link, moving, strength,   \* external: connection; devices that move; with electrical strength
  failures,
  quiet, silenced, former   \* history: what the last Stop achieved; retired and stopped;
                            \* connected again before the run began

session  == <<continueHealthy, playing, vibrationOnly, fault, retired, faultStopped>>
command  == <<op, pc, active, pending, passed, errs, acked, stopFault, leaving>>
readers  == <<rpc, sample, work, seen>>
engine   == <<run, only, runs, owedFault>>
devices  == <<link, moving, strength, failures>>
history  == <<quiet, silenced, former>>
vars == <<session, command, readers, engine, devices, history>>

Sends == {"stroke", "append", "scalar"}   \* SetStrokeWindow; AppendPoints with and without points
Live  == {p \in Participants : link[p] = "live"}

TypeOK ==
  /\ {continueHealthy, playing, vibrationOnly, fault, faultStopped,
      stopFault, only, owedFault} \subseteq BOOLEAN
  /\ op \in {"none", "points", "scalar", "play", "startupStop", "stop"}
  /\ pc \in {"idle", "clock", "send", "judge", "retire", "latch", "stopping"}
  /\ {retired, active, pending, passed, errs, acked, moving, strength, silenced, former}
       \subseteq SUBSET Participants
  /\ leaving \in Participants \cup {None}
  /\ rpc \in [Readers -> {"idle", "sample", "work", "latch", "stop", "call"}]
  /\ \A r \in Readers : Len(sample[r]) <= N
  /\ work \in [Readers -> SUBSET Participants]
  /\ seen \in [Readers -> 0..MaxRuns]
  /\ run \in {"none", "starting", "playing", "ending"}
  /\ runs \in 0..MaxRuns
  /\ link \in [Participants -> {"live", "lost", "replaced"}]
  /\ failures \in 0..MaxFailures
  /\ quiet \in {"no", "stopped", "zeroed"}

Init ==
  /\ continueHealthy \in BOOLEAN
  /\ playing = FALSE /\ vibrationOnly = FALSE /\ fault = FALSE
  /\ retired = {} /\ faultStopped = FALSE
  /\ op = "none" /\ pc = "idle"
  /\ active = {} /\ pending = {} /\ passed = {} /\ errs = {} /\ acked = {}
  /\ stopFault = FALSE /\ leaving = None
  /\ rpc = [r \in Readers |-> "idle"]
  /\ sample = [r \in Readers |-> <<>>]
  /\ work = [r \in Readers |-> {}]
  /\ seen = [r \in Readers |-> 0]
  /\ run = "none" /\ only = FALSE /\ runs = 0 /\ owedFault = FALSE
  /\ link = [p \in Participants |-> "live"]
  /\ moving = {} /\ strength = {} /\ failures = 0
  /\ quiet = "no" /\ silenced = {} /\ former = {}

-----------------------------------------------------------------------------
(* One call on one participant, through its lease. *)

(* Mutant: a lease does not compare the connection's generation.           *)
ValidAlways(p) == TRUE

Valid(p) == link[p] # "replaced"

FailOne == failures < MaxFailures /\ failures' = failures + 1

Stops == {"stop", "startupStop"}

Reaches(p, method, f) ==
  /\ moving' = CASE method = "play"  -> moving \cup {p}
                 [] method \in Stops -> moving \ {p}
                 [] OTHER            -> moving
  /\ strength' = CASE method = "play"       -> strength \cup {p}
                   [] method \in Stops /\ f -> strength \ {p}
                   [] OTHER                 -> strength

(* The run's context is cancelled once the run ends; a Stop is detached,   *)
(* but for the one a start begins with.                                    *)
Cancelled(method) == method # "stop" /\ run = "ending"

(* The owner knows only its own connection.  One that checks it again where*)
(* it writes drops the work of the connection before (a Stop may still     *)
(* return OK); any other owner sends it to the device connected again.     *)
Attached(p) == link[p] = "live" \/ (link[p] = "replaced" /\ p \notin Bound)

Owner(p, method, f, ok) ==
  \/ /\ Attached(p) /\ ok
     /\ Reaches(p, method, f)
     /\ UNCHANGED failures
  \/ /\ Attached(p) /\ ~ok
     /\ IF Cancelled(method) THEN UNCHANGED failures ELSE FailOne
     /\ Reaches(p, method, f) \/ UNCHANGED <<moving, strength>>
  \/ /\ ~Attached(p)
     /\ ok => link[p] = "replaced" /\ method \in Stops
     /\ UNCHANGED <<moving, strength, failures>>

(* The lease lets the call pass or refuses it.  A check that passed before *)
(* the connection was replaced is not made again.                          *)
Call(p, checked, method, f, ok) ==
  /\ UNCHANGED link
  /\ IF checked \/ Valid(p)
     THEN Owner(p, method, f, ok)
     ELSE ok = (method \in Stops) /\ UNCHANGED <<moving, strength, failures>>

-----------------------------------------------------------------------------
(* Helpers under f.mu. *)

(* Mutant: a retired participant is not excluded.                          *)
InactiveRetiredIn(vibration) == IF vibration THEN Participants \ Vibrators ELSE {}

Inactive(vibration) == retired \cup IF vibration THEN Participants \ Vibrators ELSE {}

HealthyOthers(i) == {p \in Participants \ retired : p # i /\ (vibrationOnly => p \in Vibrators)}

(* Mutant: retire without its test for an established run.                 *)
CanRetireAtStartup(i) == continueHealthy /\ HealthyOthers(i) # {}

CanRetire(i) == playing /\ continueHealthy /\ HealthyOthers(i) # {}

-----------------------------------------------------------------------------
(* The engine returns from a command: an error ends the run, and its       *)
(* recovery owes a Stop with Fault; the owed Stop is the run's last.       *)
Fails == IF run \in {"starting", "playing"}
         THEN run' = "ending" /\ owedFault' = TRUE
         ELSE UNCHANGED <<run, owedFault>>

Return(failed) ==
  /\ op' = "none" /\ pc' = "idle"
  /\ active' = {} /\ pending' = {} /\ passed' = {} /\ errs' = {} /\ acked' = {}
  /\ stopFault' = FALSE /\ leaving' = None
  /\ UNCHANGED <<only, runs>>
  /\ \/ op = "stop" /\ run' = "none" /\ owedFault' = FALSE
     \/ op # "stop" /\ failed /\ Fails
     \/ op = "play" /\ ~failed /\ run' = (IF run = "starting" THEN "playing" ELSE run)
        /\ UNCHANGED owedFault
     \/ op \notin {"stop", "play"} /\ ~failed /\ UNCHANGED <<run, owedFault>>

MayCommand == op = "none" /\ run \in {"starting", "playing"}

(* A latched fault answers every command; the participants are not called. *)
RefusedByFault ==
  /\ MayCommand /\ fault /\ Fails
  /\ vibrationOnly' \in {vibrationOnly, only}  \* set before the fault is looked at
  /\ UNCHANGED <<continueHealthy, playing, fault, retired, faultStopped, command, readers,
                 only, runs, devices, history>>

(* The errors are looked at when all calls have answered.                  *)
Waits(calls) == IF calls = {} THEN "judge" ELSE "send"

(* SetStrokeWindow, AppendPoints with points, AppendPoints with only a     *)
(* vibration frame.                                                        *)
Dispatch(o) ==
  /\ MayCommand /\ ~fault
  /\ o \in {"append", "stroke"} \/ run = "playing"
  /\ vibrationOnly' = IF o = "append" THEN only ELSE vibrationOnly
  /\ LET targets == (Participants \ Inactive(vibrationOnly'))
                      \cap (IF o = "scalar" THEN Vibrators ELSE Participants)
     IN /\ o = "scalar" => targets # {}       \* else ErrVibrationUnavailable
        /\ pending' = targets
  /\ op' = (IF o = "scalar" THEN "scalar" ELSE "points") /\ pc' = Waits(pending')
  /\ UNCHANGED <<continueHealthy, playing, fault, retired, faultStopped, active, passed, errs,
                 acked, stopFault, leaving, readers, engine, devices, history>>

(* Play: the clock is the first participant that starts ...                *)
Play ==
  /\ MayCommand /\ ~fault /\ run = "starting"
  /\ vibrationOnly' = only
  /\ active' = Participants \ Inactive(only) /\ pending' = active'
  /\ op' = "play" /\ pc' = "clock"
  /\ quiet' = "no"
  /\ UNCHANGED <<continueHealthy, playing, fault, retired, faultStopped, passed, errs, acked,
                 stopFault, leaving, readers, engine, devices, silenced, former>>

PlayClock ==
  /\ pc = "clock" /\ pending # {}
  /\ LET i == Min(pending) IN
       \E ok \in BOOLEAN :
         /\ Call(i, i \in passed, "play", FALSE, ok)
         /\ pending' = pending \ {i} /\ passed' = passed \ {i}
         /\ IF ok THEN pc' = Waits(pending') /\ acked' = {i} /\ UNCHANGED errs
                  ELSE pc' = "judge" /\ errs' = {i} /\ UNCHANGED acked
  /\ UNCHANGED <<session, op, active, stopFault, leaving, readers, engine, history>>

NoClock ==
  /\ pc = "clock" /\ pending = {} /\ Return(TRUE)
  /\ UNCHANGED <<session, readers, devices, history>>

(* ... and the others are called in parallel; so are a dispatch's.         *)
Send(p) ==
  /\ pc = "send" /\ p \in pending
  /\ pending' = pending \ {p} /\ passed' = passed \ {p}
  /\ pc' = Waits(pending')
  /\ \E ok \in BOOLEAN :
       /\ Call(p, p \in passed, op, FALSE, ok)
       /\ errs' = IF ok THEN errs ELSE errs \cup {p}
       /\ acked' = IF ok /\ op = "play" THEN acked \cup {p} ELSE acked
  /\ UNCHANGED <<session, op, active, stopFault, leaving, readers, engine, history>>

-----------------------------------------------------------------------------
(* The errors, in participant order. *)

(* A cancelled vibration frame is no device failure.                       *)
JudgeCancelled ==
  /\ pc = "judge" /\ errs # {} /\ op = "scalar" /\ Cancelled(op)
  /\ Return(TRUE)
  /\ UNCHANGED <<session, readers, devices, history>>

Judge ==
  /\ pc = "judge" /\ errs # {} /\ ~(op = "scalar" /\ Cancelled(op))
  /\ LET i == Min(errs) IN
       IF CanRetire(i)
       THEN /\ retired' = retired \cup {i}
            /\ errs' = errs \ {i}
            /\ IF i \in retired THEN UNCHANGED <<pc, leaving>>
                                ELSE pc' = "retire" /\ leaving' = i
       ELSE pc' = "latch" /\ UNCHANGED <<retired, errs, leaving>>
  /\ UNCHANGED <<continueHealthy, playing, vibrationOnly, fault, faultStopped, op, active,
                 pending, passed, acked, stopFault, readers, engine, devices, history>>

(* retire's own Stop; its failure is only a warning.                       *)
RetireStop ==
  /\ pc = "retire" /\ pc' = "judge" /\ leaving' = None /\ passed' = passed \ {leaving}
  /\ \E ok \in BOOLEAN :
       /\ Call(leaving, leaving \in passed, "stop", TRUE, ok)
       /\ silenced' = IF ok THEN silenced \cup {leaving} ELSE silenced
  /\ UNCHANGED <<session, op, active, pending, errs, acked, stopFault, readers, engine, quiet,
                 former>>

Judged ==
  /\ pc = "judge" /\ errs = {}
  /\ IF op = "play" /\ acked = {}
     THEN /\ pc' = "clock"
          /\ UNCHANGED <<playing, op, active, pending, passed, errs, acked, stopFault, leaving,
                         engine>>
     ELSE Return(FALSE) /\ playing' = (playing \/ op = "play")
  /\ UNCHANGED <<continueHealthy, vibrationOnly, fault, retired, faultStopped, readers,
                 devices, history>>

-----------------------------------------------------------------------------
(* Stop. *)

(* Mutant: the participants still in the run are stopped.                  *)
StopSetActive == Participants \ retired

StopSet == Participants

StopSection(f) ==
  /\ stopFault' = (f \/ (fault /\ ~faultStopped))
  /\ playing' = FALSE /\ vibrationOnly' = FALSE
  /\ pending' = StopSet /\ errs' = {} /\ pc' = "stopping"

Stop ==
  /\ op = "none"
  /\ \/ run = "ending" /\ op' = "stop" /\ StopSection(owedFault)
     \/ run = "starting" /\ op' = "startupStop" /\ StopSection(FALSE)
  /\ UNCHANGED <<continueHealthy, fault, retired, faultStopped, active, passed, acked, leaving,
                 readers, engine, devices, history>>

(* failedCommand: latch, then stop everyone.                               *)
FailedLatch ==
  /\ pc = "latch" /\ ~fault /\ fault' = TRUE
  /\ UNCHANGED <<continueHealthy, playing, vibrationOnly, retired, faultStopped, command,
                 readers, engine, devices, history>>

FailedStop ==
  /\ pc = "latch" /\ fault
  /\ StopSection(TRUE)
  /\ UNCHANGED <<continueHealthy, fault, retired, faultStopped, op, active, passed, acked, leaving,
                 readers, engine, devices, history>>

StopSend(p) ==
  /\ pc = "stopping" /\ p \in pending
  /\ pending' = pending \ {p} /\ passed' = passed \ {p}
  /\ \E ok \in BOOLEAN :
       /\ Call(p, p \in passed, IF op \in Stops THEN op ELSE "stop", stopFault, ok)
       /\ errs' = IF ok THEN errs ELSE errs \cup {p}
  /\ UNCHANGED <<session, op, pc, active, acked, stopFault, leaving, readers, engine, history>>

StopJoin ==
  /\ pc = "stopping" /\ pending = {}
  /\ fault' = (fault \/ errs # {})
  /\ faultStopped' = (faultStopped \/ (errs = {} /\ stopFault))
  /\ quiet' = IF errs # {} THEN quiet ELSE IF stopFault THEN "zeroed" ELSE "stopped"
  /\ Return(op \notin Stops \/ errs # {})
  /\ UNCHANGED <<continueHealthy, playing, vibrationOnly, retired, readers, devices, silenced,
                 former>>

-----------------------------------------------------------------------------
(* Diagnostics. *)

Reads(r, p) ==
  IF link[p] # "live" THEN {"lost"}
  ELSE (IF p \in moving THEN {"playing"} ELSE {"stopped"})
         \cup (IF pc = "stopping" /\ p \in pending THEN {"stopping"} ELSE {})

(* Mutant: a participant that lost its connection passes by its state.     *)
UnhealthyByState(s) == s = "stopped"

(* !Connected || linkedPlaybackUnhealthy                                   *)
Unhealthy(s) == s \in {"lost", "stopped"}

Diagnostics(r) ==
  /\ rpc[r] = "idle" /\ run \in {"starting", "playing"}
  /\ rpc' = [rpc EXCEPT ![r] = "sample"]
  /\ seen' = [seen EXCEPT ![r] = runs]
  /\ \E s \in Reads(r, 1) : sample' = [sample EXCEPT ![r] = <<s>>]
  /\ UNCHANGED <<session, command, work, engine, devices, history>>

SampleNext(r) ==
  /\ rpc[r] = "sample" /\ Len(sample[r]) < N
  /\ \E s \in Reads(r, Len(sample[r]) + 1) : sample' = [sample EXCEPT ![r] = Append(@, s)]
  /\ UNCHANGED <<session, command, rpc, work, seen, engine, devices, history>>

SnapshotRun(r) ==
  /\ rpc[r] = "sample" /\ Len(sample[r]) = N
  /\ rpc' = [rpc EXCEPT ![r] = "work"]
  /\ LET in       == Participants \ Inactive(vibrationOnly)
         stopping == \E i \in in : sample[r][i] = "stopping"
     IN work' = [work EXCEPT ![r] = IF ~fault /\ playing /\ ~stopping
                                    THEN {i \in in : Unhealthy(sample[r][i])} ELSE {}]
  /\ UNCHANGED <<session, command, sample, seen, engine, devices, history>>

Lost(r) == Min(work[r])

RetireLost(r) ==
  /\ rpc[r] = "work" /\ work[r] # {}
  /\ IF CanRetire(Lost(r))
     THEN /\ retired' = retired \cup {Lost(r)}
          /\ IF Lost(r) \in retired
             THEN work' = [work EXCEPT ![r] = @ \ {Lost(r)}] /\ UNCHANGED rpc
             ELSE rpc' = [rpc EXCEPT ![r] = "stop"] /\ UNCHANGED work
     ELSE rpc' = [rpc EXCEPT ![r] = "latch"] /\ UNCHANGED <<retired, work>>
  /\ UNCHANGED <<continueHealthy, playing, vibrationOnly, fault, faultStopped, command,
                 sample, seen, engine, devices, history>>

NextLost(r) == /\ rpc' = [rpc EXCEPT ![r] = "work"]
               /\ work' = [work EXCEPT ![r] = @ \ {Lost(r)}]

LatchLost(r) ==
  /\ rpc[r] = "latch" /\ fault' = TRUE /\ NextLost(r)
  /\ UNCHANGED <<continueHealthy, playing, vibrationOnly, retired, faultStopped, command,
                 sample, seen, engine, devices, history>>

StopLost(r) ==
  /\ rpc[r] \in {"stop", "call"} /\ NextLost(r)
  /\ \E ok \in BOOLEAN :
       /\ Call(Lost(r), rpc[r] = "call", "stop", TRUE, ok)
       /\ silenced' = IF ok THEN silenced \cup {Lost(r)} ELSE silenced
  /\ UNCHANGED <<session, command, sample, seen, engine, quiet, former>>

(* The reported state: the fault, or the first participant in the run.     *)
Reported(r) == LET in == Participants \ Inactive(vibrationOnly)
               IN sample[r][IF in = {} THEN 1 ELSE Min(in)]

(* Some of the stopped states need recovery, and some do not while a run starts. *)
NeedsRecovery(r) == IF fault THEN {TRUE} ELSE {Reported(r) = "stopped", FALSE}

(* ensurePlaybackHealthy ends the run it was called for, if it still is.   *)
Summary(r) ==
  /\ rpc[r] = "work" /\ work[r] = {}
  /\ \E recover \in NeedsRecovery(r) :
       IF recover /\ seen[r] = runs THEN Fails ELSE UNCHANGED <<run, owedFault>>
  /\ rpc' = [rpc EXCEPT ![r] = "idle"]
  /\ sample' = [sample EXCEPT ![r] = <<>>]
  /\ seen' = [seen EXCEPT ![r] = 0]
  /\ UNCHANGED <<session, command, work, only, runs, devices, history>>

-----------------------------------------------------------------------------
(* The engine around the session, and the devices. *)

(* A start or a resume; the session keeps its fault and its retired.       *)
StartRun ==
  /\ run = "none" /\ runs < MaxRuns
  /\ run' = "starting" /\ runs' = runs + 1
  /\ only' \in (IF Vibrators = {} THEN {FALSE} ELSE BOOLEAN)
  /\ former' = {p \in Participants : link[p] = "replaced"}
  /\ UNCHANGED <<session, command, readers, owedFault, devices, quiet, silenced>>

(* Pause and Stop cancel the run at any point of the command in flight.    *)
CancelRun ==
  /\ run \in {"starting", "playing"}
  /\ run' = "ending" /\ owedFault' = FALSE
  /\ UNCHANGED <<session, command, readers, only, runs, devices, history>>

(* The positions of the clock participant cannot be read before a start.   *)
ReadMotionStartupStateFails ==
  /\ op = "none" /\ run = "starting"
  /\ fault' = TRUE
  /\ Fails
  /\ UNCHANGED <<continueHealthy, playing, vibrationOnly, retired, faultStopped, command,
                 readers, only, runs, devices, history>>

Lose(p) ==
  /\ link[p] = "live" /\ link' = [link EXCEPT ![p] = "lost"]
  /\ FailOne
  /\ UNCHANGED <<session, command, readers, engine, moving, strength, history>>

(* The participants the command may be calling now; the readers that may be*)
(* calling p's Stop.                                                       *)
Calling ==
  CASE pc = "clock" /\ pending # {} -> {Min(pending)}
    [] pc \in {"send", "stopping"} -> pending
    [] pc = "retire"               -> {leaving}
    [] OTHER                       -> {}

Stopping(p) == {r \in Readers : rpc[r] = "stop" /\ Lost(r) = p}

(* The user connects a lost device again: a new incarnation.  Each call on *)
(* it in flight has passed its check already, or will be refused by it.    *)
(* From here moving and strength hold what this session does to the device.*)
Replace(p) ==
  /\ link[p] = "lost" /\ link' = [link EXCEPT ![p] = "replaced"]
  /\ passed' \in {passed, passed \cup ({p} \cap Calling)}
  /\ \E R \in SUBSET Stopping(p) :
       rpc' = [r \in Readers |-> IF r \in R THEN "call" ELSE rpc[r]]
  /\ moving' = moving \ {p} /\ strength' = strength \ {p}
  /\ UNCHANGED <<session, op, pc, active, pending, errs, acked, stopFault, leaving,
                 sample, work, seen, engine, failures, history>>

(* A device runs out of points or is stopped by hand.                      *)
Starve(p) ==
  /\ p \in moving /\ moving' = moving \ {p}
  /\ FailOne
  /\ UNCHANGED <<session, command, readers, engine, link, strength, history>>

Command ==
  \/ RefusedByFault
  \/ \E o \in Sends : Dispatch(o)
  \/ Play \/ PlayClock \/ NoClock
  \/ \E p \in Participants : Send(p)
  \/ JudgeCancelled \/ Judge \/ RetireStop \/ Judged
  \/ Stop \/ FailedLatch \/ FailedStop \/ StopJoin
  \/ \E p \in Participants : StopSend(p)

Reader(r) ==
  \/ Diagnostics(r) \/ SampleNext(r) \/ SnapshotRun(r) \/ RetireLost(r)
  \/ LatchLost(r) \/ StopLost(r) \/ Summary(r)

Next ==
  \/ Command
  \/ \E r \in Readers : Reader(r)
  \/ StartRun \/ CancelRun \/ ReadMotionStartupStateFails
  \/ \E p \in Participants : Lose(p) \/ Replace(p) \/ Starve(p)

(* A command in flight is answered or times out, and the engine sends the  *)
(* Stop it owes; the loop's ticker calls Diagnostics again and again.      *)
Returns == (op # "none" \/ run = "ending") /\ Command

Spec == Init /\ [][Next]_vars
FairSpec == Spec /\ WF_vars(Returns) /\ \A r \in Readers : WF_vars(Reader(r))
-----------------------------------------------------------------------------
(* A Stop of the session that succeeded leaves no device moving until the  *)
(* next Play, and with Fault none with strength: also a device that was    *)
(* retired and whose own Stop failed, and whatever Diagnostics does beside *)
(* it.  A lost device cannot confirm; a replaced one is out of its reach.  *)
StoppedMeansStill ==
  /\ quiet # "no" => moving \cap Live = {}
  /\ quiet = "zeroed" => strength \cap Live = {}

(* However the dispatch and Diagnostics retire participants, an            *)
(* established run keeps one that can play it.                             *)
SomeoneHealthy ==
  playing => (IF vibrationOnly THEN Vibrators ELSE Participants) \ retired # {}

Begun == (moving' \ moving) \cup (strength' \ strength)

(* A participant that was retired and has acknowledged its Stop is never   *)
(* set in motion again, by a command whose snapshot is older or by a later *)
(* run: it does not hot-join.                                              *)
NoHotJoin == [][Begun \cap silenced = {}]_vars

(* A device that was connected again before the run began is reached by no *)
(* work of the run, whatever calls were in flight when the connection was  *)
(* replaced, and whichever run they belong to: they have all returned.     *)
(* (In the run itself a call that had passed its check does reach the      *)
(* device if its owner is not Bound.)                                      *)
OldWorkIsFenced == [][Begun \cap former = {}]_vars

(* A start needs every participant: the session plays only once each of    *)
(* the participants of Play's snapshot has started.                        *)
StartNeedsEveryone == [][~playing /\ playing' => acked = active]_vars

(* A participant that lost its connection or its playback in an            *)
(* established run is noticed: it is retired, or the run ends.             *)
LossIsNoticed ==
  []<>~(\E p \in Participants \ Inactive(vibrationOnly) :
          run = "playing" /\ (link[p] # "live" \/ p \notin moving))
=============================================================================
