----------------------------- MODULE FanOutProofs -----------------------------
(***************************************************************************)
(* Proofs about FanOut for any number of participants and readers and any  *)
(* bounds: a successful Stop leaves every device still, a device that was  *)
(* retired is not set in motion again, no run reaches a device that was    *)
(* connected again before it, and an established run keeps a healthy       *)
(* device.                                                                 *)
(*                                                                         *)
(* The argument: f.playing is down from a Stop until Play's return, and    *)
(* retire asks for it, so while a Play calls its snapshot nobody is        *)
(* retired (RunInv, SnapshotInv): it sets nobody in motion who had been    *)
(* retired before (RetiredInv).  A Stop calls every participant, and who   *)
(* answered it stays still until the next Play, since no other method      *)
(* starts a device (AnsweredInv).  A command waits for all its calls, and  *)
(* a run begins only between commands: the calls whose leases had been     *)
(* checked before the connection was replaced have all returned by then    *)
(* (FenceInv).                                                             *)
(***************************************************************************)
EXTENDS FanOut, WellFoundedInduction, TLAPS

States == {"lost", "playing", "stopped", "stopping"}

(* A Play that has not failed yet.                                         *)
Starting == op = "play" /\ pc \in {"clock", "send", "judge"}

SessionTyped ==
  /\ continueHealthy \in BOOLEAN /\ playing \in BOOLEAN /\ vibrationOnly \in BOOLEAN
  /\ fault \in BOOLEAN /\ faultStopped \in BOOLEAN
  /\ retired \subseteq Participants

CommandTyped ==
  /\ op \in {"none", "points", "scalar", "play", "startupStop", "stop"}
  /\ pc \in {"idle", "clock", "send", "judge", "retire", "latch", "stopping"}
  /\ active \subseteq Participants /\ pending \subseteq Participants
  /\ errs \subseteq Participants /\ acked \subseteq Participants
  /\ stopFault \in BOOLEAN /\ leaving \in Participants \cup {None}

ReadersTyped ==
  /\ rpc \in [Readers -> {"idle", "sample", "work", "latch", "stop", "call"}]
  /\ sample \in [Readers -> Seq(States)]
  /\ \A r \in Readers : Len(sample[r]) <= N
  /\ work \in [Readers -> SUBSET Participants]
  /\ seen \in [Readers -> 0 .. MaxRuns]

EngineTyped ==
  /\ run \in {"none", "starting", "playing", "ending"}
  /\ only \in BOOLEAN /\ owedFault \in BOOLEAN /\ runs \in 0 .. MaxRuns

DevicesTyped ==
  /\ link \in [Participants -> {"live", "lost", "replaced"}]
  /\ moving \subseteq Participants /\ strength \subseteq Participants
  /\ failures \in 0 .. MaxFailures

HistoryTyped == quiet \in {"no", "stopped", "zeroed"} /\ silenced \subseteq Participants

Typed == SessionTyped /\ CommandTyped /\ ReadersTyped /\ EngineTyped /\ DevicesTyped /\ HistoryTyped

(* Which command is where; an established run has no Play, and no Stop of  *)
(* its own.                                                                *)
RunInv ==
  /\ run = "none" => op = "none"
  /\ op = "none" => pc = "idle"
  /\ pc = "idle" \/ pc = "clock" => acked = {} /\ errs = {}
  /\ pc = "clock" => op = "play"
  /\ pc = "retire" => op # "play"
  /\ playing => run \in {"playing", "ending"} /\ op \notin {"play", "stop", "startupStop"}

(* Play's snapshot: its members are healthy, and each of them is waited    *)
(* for, has started or has failed.                                         *)
SnapshotInv ==
  Starting =>
    /\ vibrationOnly = only /\ quiet = "no"
    /\ active \cap retired = {} /\ (only => active \subseteq Vibrators)
    /\ active = pending \cup acked \cup errs
    /\ pc = "judge" /\ errs = {} => pending = {}

(* Who has acknowledged its Stop had been retired.                         *)
RetiredInv ==
  /\ silenced \subseteq retired
  /\ pc = "retire" => leaving \in retired
  /\ \A r \in Readers :
       /\ rpc[r] \in {"stop", "call", "latch"} => work[r] # {}
       /\ rpc[r] \in {"stop", "call"} => Lost(r) \in retired

(* A participant whose call of a Stop in progress succeeded is still.      *)
AnsweredInv ==
  pc = "stopping" =>
    \A p \in Live \ (pending \cup errs) : p \notin moving /\ (stopFault => p \notin strength)

(* An established run keeps the kind of its plan, and somebody to play it. *)
HealthyInv == playing => vibrationOnly = only /\ SomeoneHealthy

IInv == Typed /\ RunInv /\ SnapshotInv /\ RetiredInv /\ AnsweredInv /\ HealthyInv /\ StoppedMeansStill

(* The calls that have passed the check of a lease since replaced are      *)
(* calls of the command in flight, and of no device that was connected     *)
(* again before the run.                                                   *)
FenceInv ==
  /\ passed \subseteq Participants /\ former \subseteq Participants
  /\ passed \subseteq Calling
  /\ passed \cap former = {}
  /\ \A p \in former : link[p] = "replaced"

-----------------------------------------------------------------------------
(* What every step needs to know of the state it starts in.                *)
LEMMA Parts ==
  ASSUME IInv
  PROVE  /\ SessionTyped /\ CommandTyped /\ ReadersTyped /\ EngineTyped /\ DevicesTyped /\ HistoryTyped
         /\ RunInv /\ SnapshotInv /\ RetiredInv /\ AnsweredInv /\ HealthyInv
         /\ StoppedMeansStill
  BY DEF IInv, Typed

(* The first participant of a set, in run-clock order, is one of the set.  *)
LEMMA FirstOf ==
  ASSUME NEW S \in SUBSET Participants, S # {}
  PROVE  Min(S) \in S
  <1> DEFINE R == OpToRel(<, Nat)
  <1>1. S \subseteq Nat
    BY FanOutAssumption DEF Participants
  <1>2. IsWellFoundedOn(R, Nat)
    BY NatLessThanWellFounded
  <1> HIDE DEF R
  <1>3. PICK x \in S : \A y \in S : ~(<<y, x>> \in R)
    BY <1>1, <1>2, WFMin
  <1>4. \A y \in S : x <= y
    <2> SUFFICES ASSUME NEW y \in S PROVE x <= y
      OBVIOUS
    <2>1. ~(y < x)
      BY <1>1, <1>3 DEF R, OpToRel
    <2>2. QED
      BY <1>1, <2>1
  <1>5. \E z \in S : \A y \in S : z =< y
    BY <1>4
  <1>6. QED
    BY <1>5 DEF Min

(* What a call on one participant can do to the devices.                   *)
LEMMA CallEffect ==
  ASSUME IInv, NEW p \in Participants, NEW checked \in BOOLEAN, NEW method, NEW f \in BOOLEAN, NEW ok \in BOOLEAN,
         Call(p, checked, method, f, ok)
  PROVE  /\ link' = link /\ failures' \in 0 .. MaxFailures
         /\ moving' \subseteq moving \cup {p} /\ strength' \subseteq strength \cup {p}
         /\ method # "play" => moving' \subseteq moving /\ strength' \subseteq strength
         /\ ok /\ method \in Stops /\ link[p] = "live" => p \notin moving' /\ (f => p \notin strength')
  <1>1. link' = link /\ link[p] \in {"live", "lost", "replaced"}
    BY Parts DEF Call, DevicesTyped
  <1>2. failures' \in 0 .. MaxFailures
    BY Parts, FanOutAssumption DEF Call, Owner, FailOne, DevicesTyped
  <1>3. (moving' = moving /\ strength' = strength) \/ Reaches(p, method, f)
    BY DEF Call, Owner
  <1>4. /\ moving' \subseteq moving \cup {p} /\ strength' \subseteq strength \cup {p}
        /\ method # "play" => moving' \subseteq moving /\ strength' \subseteq strength
    BY <1>3 DEF Reaches, Stops
  <1>5. ok /\ method \in Stops /\ link[p] = "live" => Reaches(p, method, f)
    BY DEF Call, Owner, Attached, Valid
  <1>6. method \in Stops /\ Reaches(p, method, f) => p \notin moving' /\ (f => p \notin strength')
    BY DEF Reaches, Stops
  <1>7. QED
    BY <1>1, <1>2, <1>3, <1>4, <1>5, <1>6

(* A command's call has passed its lease before the replacement or not.    *)
LEMMA CommandCall ==
  ASSUME NEW p, NEW method, NEW f \in BOOLEAN, NEW ok, Call(p, p \in passed, method, f, ok)
  PROVE  \E g \in BOOLEAN, checked \in BOOLEAN :
           (checked => p \in passed) /\ g = f /\ Call(p, checked, method, g, ok)
  <1>1. CASE p \in passed
    <2>1. Call(p, TRUE, method, f, ok)
      BY <1>1 DEF Call
    <2>2. QED
      BY <1>1, <2>1
  <1>2. CASE p \notin passed
    <2>1. Call(p, FALSE, method, f, ok)
      BY <1>2 DEF Call
    <2>2. QED
      BY <2>1
  <1>3. QED
    BY <1>1, <1>2

-----------------------------------------------------------------------------
(* What happens beside the command in flight: devices only come to rest,   *)
(* are lost or replaced, a run only ends, and who is retired leaves        *)
(* somebody that can play.                                                 *)
LEMMA BesideKeeps ==
  ASSUME IInv, SessionTyped', ReadersTyped', EngineTyped', DevicesTyped', RetiredInv',
         UNCHANGED <<op, pc, active, pending, errs, acked, stopFault, leaving, only, quiet, playing>>,
         vibrationOnly' = vibrationOnly \/ (op = "none" /\ vibrationOnly' = only),
         retired \subseteq retired', retired' = retired \/ (playing /\ SomeoneHealthy'),
         run' = run \/ (run \in {"starting", "playing"} /\ run' = "ending"),
         moving' \subseteq moving, strength' \subseteq strength,
         silenced' \subseteq Participants,
         \A p \in Participants : link'[p] = "live" => link[p] = "live"
  PROVE  IInv'
  <1>1. /\ op' = op /\ pc' = pc /\ active' = active /\ pending' = pending /\ errs' = errs /\ acked' = acked
        /\ stopFault' = stopFault /\ leaving' = leaving /\ only' = only /\ quiet' = quiet /\ playing' = playing
    OBVIOUS
  <1>2. Typed'
    BY <1>1, Parts DEF Typed, CommandTyped, HistoryTyped
  <1>3. RunInv'
    BY <1>1, Parts DEF RunInv
  <1>4. SnapshotInv'
    <2>1. Starting' => Starting /\ retired' = retired /\ vibrationOnly' = vibrationOnly
      BY <1>1, Parts DEF Starting, RunInv
    <2>2. QED
      BY <1>1, <2>1, Parts DEF SnapshotInv
  <1>5. Live' \subseteq Live
    BY DEF Live
  <1>6. AnsweredInv' /\ StoppedMeansStill'
    BY <1>1, <1>5, Parts DEF AnsweredInv, StoppedMeansStill
  <1>7. HealthyInv'
    <2>1. playing => vibrationOnly' = only
      BY Parts DEF HealthyInv
    <2>2. SomeoneHealthy /\ retired' = retired /\ playing => SomeoneHealthy'
      BY <1>1, <2>1, Parts DEF SomeoneHealthy, HealthyInv
    <2>3. QED
      BY <1>1, <2>1, <2>2, Parts DEF HealthyInv
  <1>8. QED
    BY <1>2, <1>3, <1>4, <1>6, <1>7 DEF IInv

(* The engine gives a run up.                                              *)
LEMMA FailsEffect ==
  ASSUME IInv, Fails
  PROVE  /\ run' = run \/ (run \in {"starting", "playing"} /\ run' = "ending")
         /\ run' \in {"none", "starting", "playing", "ending"} /\ owedFault' \in BOOLEAN
         /\ run' \notin {"starting", "playing"}
  BY Parts DEF Fails, EngineTyped

(* Diagnostics reads the participants one by one.                          *)
LEMMA ReadingKeeps ==
  ASSUME IInv, NEW r \in Readers, Diagnostics(r) \/ SampleNext(r) \/ SnapshotRun(r)
  PROVE  IInv'
  <1>1. UNCHANGED <<session, command, engine, devices, history>>
    BY DEF Diagnostics, SampleNext, SnapshotRun
  <1>2. /\ continueHealthy' = continueHealthy /\ playing' = playing /\ vibrationOnly' = vibrationOnly
        /\ fault' = fault /\ retired' = retired /\ faultStopped' = faultStopped /\ run' = run /\ only' = only
        /\ runs' = runs /\ owedFault' = owedFault /\ link' = link /\ moving' = moving /\ strength' = strength
        /\ failures' = failures /\ quiet' = quiet /\ silenced' = silenced /\ leaving' = leaving /\ pc' = pc
    BY <1>1 DEF session, command, engine, devices, history
  <1>3. \A p \in Participants : Reads(r, p) \subseteq States
    BY DEF Reads, States
  <1>4. N \in Nat /\ N >= 1 /\ 1 \in Participants
    BY FanOutAssumption DEF Participants
  <1>5. /\ ReadersTyped'
        /\ \A q \in Readers : rpc'[q] \in {"stop", "call", "latch"} => rpc'[q] = rpc[q] /\ work'[q] = work[q]
    <2>1. CASE Diagnostics(r)
      <3>1. PICK s \in Reads(r, 1) : sample' = [sample EXCEPT ![r] = <<s>>]
        BY <2>1 DEF Diagnostics
      <3>2. <<s>> \in Seq(States) /\ Len(<<s>>) <= N
        BY <1>3, <1>4, <3>1
      <3>3. /\ rpc' = [rpc EXCEPT ![r] = "sample"] /\ seen' = [seen EXCEPT ![r] = runs] /\ work' = work
        BY <2>1 DEF Diagnostics
      <3>4. sample' \in [Readers -> Seq(States)] /\ \A q \in Readers : Len(sample'[q]) <= N
        BY <3>1, <3>2, Parts DEF ReadersTyped
      <3>5. QED
        BY <3>3, <3>4, Parts DEF ReadersTyped, EngineTyped
    <2>2. CASE SampleNext(r)
      <3>1. Len(sample[r]) < N /\ sample[r] \in Seq(States) /\ Len(sample[r]) \in Nat
        BY <2>2, Parts DEF SampleNext, ReadersTyped
      <3>2. Len(sample[r]) + 1 \in Participants
        BY <1>4, <3>1 DEF Participants
      <3>3. PICK s \in States : sample' = [sample EXCEPT ![r] = Append(sample[r], s)]
        BY <1>3, <2>2, <3>2 DEF SampleNext
      <3>4. Append(sample[r], s) \in Seq(States) /\ Len(Append(sample[r], s)) <= N
        BY <1>4, <3>1
      <3>5. rpc' = rpc /\ work' = work /\ seen' = seen
        BY <2>2 DEF SampleNext
      <3>6. sample' \in [Readers -> Seq(States)] /\ \A q \in Readers : Len(sample'[q]) <= N
        BY <3>3, <3>4, Parts DEF ReadersTyped
      <3>7. QED
        BY <3>5, <3>6, Parts DEF ReadersTyped
    <2>3. CASE SnapshotRun(r)
      <3>1. PICK w \in SUBSET Participants : work' = [work EXCEPT ![r] = w]
        <4> DEFINE in == Participants \ Inactive(vibrationOnly)
                   w == IF ~fault /\ playing /\ ~(\E i \in in : sample[r][i] = "stopping")
                        THEN {i \in in : Unhealthy(sample[r][i])} ELSE {}
        <4>1. w \in SUBSET Participants
          OBVIOUS
        <4>2. work' = [work EXCEPT ![r] = w]
          BY <2>3 DEF SnapshotRun
        <4>3. QED
          BY <4>1, <4>2
      <3>2. rpc' = [rpc EXCEPT ![r] = "work"] /\ sample' = sample /\ seen' = seen
        BY <2>3 DEF SnapshotRun
      <3>3. QED
        BY <3>1, <3>2, Parts DEF ReadersTyped
    <2>4. QED
      BY <2>1, <2>2, <2>3
  <1>6. SessionTyped' /\ EngineTyped' /\ DevicesTyped'
    BY <1>2, Parts DEF SessionTyped, EngineTyped, DevicesTyped
  <1>7. RetiredInv'
    BY <1>2, <1>5, Parts DEF RetiredInv, Lost
  <1>8. UNCHANGED <<op, pc, active, pending, errs, acked, stopFault, leaving, only, quiet, playing>>
    BY <1>1, <1>2 DEF command
  <1>9. silenced' \subseteq Participants
    BY <1>2, Parts DEF HistoryTyped
  <1>10. QED
    BY <1>2, <1>5, <1>6, <1>7, <1>8, <1>9, BesideKeeps

(* A participant that can be retired leaves somebody that plays the run.   *)
LEMMA RetireLeaves ==
  ASSUME IInv, NEW i \in Participants, CanRetire(i)
  PROVE  /\ playing /\ ~Starting
         /\ (IF vibrationOnly THEN Vibrators ELSE Participants) \ (retired \cup {i}) # {}
  BY Parts DEF CanRetire, HealthyOthers, RunInv, Starting

(* Diagnostics retires a lost participant, or lets the run fail.           *)
LEMMA RetireLostKeeps ==
  ASSUME IInv, NEW r \in Readers, RetireLost(r)
  PROVE  IInv'
  <1> DEFINE i == Lost(r)
  <1>1. /\ rpc[r] = "work" /\ work[r] # {}
        /\ UNCHANGED <<continueHealthy, playing, vibrationOnly, fault, faultStopped, command, sample, seen, engine,
                       devices, history>>
    BY DEF RetireLost
  <1>2. /\ continueHealthy' = continueHealthy /\ playing' = playing /\ vibrationOnly' = vibrationOnly
        /\ fault' = fault /\ faultStopped' = faultStopped /\ run' = run /\ only' = only
        /\ runs' = runs /\ owedFault' = owedFault /\ link' = link /\ moving' = moving /\ strength' = strength
        /\ failures' = failures /\ quiet' = quiet /\ silenced' = silenced /\ leaving' = leaving /\ pc' = pc
        /\ sample' = sample /\ seen' = seen
    BY <1>1 DEF command, engine, devices, history
  <1>3. i \in work[r] /\ i \in Participants
    BY <1>1, FirstOf, Parts DEF ReadersTyped, Lost
  <1>4. \/ retired' = retired
        \/ CanRetire(i) /\ retired' = retired \cup {i}
    BY DEF RetireLost
  <1>5. \/ rpc' = [rpc EXCEPT ![r] = "latch"] /\ work' = work
        \/ rpc' = [rpc EXCEPT ![r] = "stop"] /\ work' = work /\ i \in retired'
        \/ rpc' = rpc /\ work' = [work EXCEPT ![r] = @ \ {i}]
    BY DEF RetireLost
  <1> HIDE DEF i
  <1>6. ReadersTyped'
    BY <1>2, <1>5, Parts DEF ReadersTyped
  <1>7. SessionTyped' /\ EngineTyped' /\ DevicesTyped'
    BY <1>2, <1>3, <1>4, Parts DEF SessionTyped, EngineTyped, DevicesTyped
  <1>8. retired \subseteq retired'
    BY <1>4
  <1>9. RetiredInv'
    <2>1. silenced' \subseteq retired' /\ (pc' = "retire" => leaving' \in retired')
      BY <1>2, <1>8, Parts DEF RetiredInv
    <2>2. ASSUME NEW q \in Readers
          PROVE  /\ rpc'[q] \in {"stop", "call", "latch"} => work'[q] # {}
                 /\ rpc'[q] \in {"stop", "call"} => Min(work'[q]) \in retired'
      <3>1. CASE q = r
        BY <1>1, <1>5, <3>1, Parts DEF ReadersTyped, i, Lost
      <3>2. CASE q # r
        <4>1. rpc'[q] = rpc[q] /\ work'[q] = work[q]
          BY <1>5, <3>2, Parts DEF ReadersTyped
        <4>2. QED
          BY <1>8, <4>1, Parts DEF RetiredInv, Lost
      <3>3. QED
        BY <3>1, <3>2
    <2>3. QED
      BY <2>1, <2>2 DEF RetiredInv, Lost
  <1>10. retired' = retired \/ (playing /\ SomeoneHealthy')
    BY <1>2, <1>3, <1>4, RetireLeaves DEF SomeoneHealthy
  <1>11. UNCHANGED <<op, pc, active, pending, errs, acked, stopFault, leaving, only, quiet, playing>>
    BY <1>1, <1>2 DEF command
  <1>12. silenced' \subseteq Participants
    BY <1>2, Parts DEF HistoryTyped
  <1>13. QED
    BY <1>2, <1>6, <1>7, <1>8, <1>9, <1>10, <1>11, <1>12, BesideKeeps

(* A lost participant is dealt with: the fault is latched, or its own Stop *)
(* answered.                                                               *)
LEMMA LostKeeps ==
  ASSUME IInv, NEW r \in Readers, LatchLost(r) \/ StopLost(r)
  PROVE  IInv'
  <1> DEFINE i == Lost(r)
  <1>1. /\ rpc[r] \in {"latch", "stop", "call"} /\ NextLost(r)
        /\ UNCHANGED <<continueHealthy, playing, vibrationOnly, retired, faultStopped, command, sample, seen, engine,
                       quiet>>
        /\ fault' \in {fault, TRUE}
    <2>1. CASE LatchLost(r)
      BY <2>1 DEF LatchLost, history
    <2>2. CASE StopLost(r)
      BY <2>2 DEF StopLost, session
    <2>3. QED
      BY <2>1, <2>2
  <1>2. /\ continueHealthy' = continueHealthy /\ playing' = playing /\ vibrationOnly' = vibrationOnly
        /\ retired' = retired /\ faultStopped' = faultStopped /\ run' = run /\ only' = only
        /\ runs' = runs /\ owedFault' = owedFault /\ quiet' = quiet /\ leaving' = leaving /\ pc' = pc
        /\ sample' = sample /\ seen' = seen
    BY <1>1 DEF command, engine
  <1>3. i \in Participants /\ (rpc[r] \in {"stop", "call"} => i \in retired)
    BY <1>1, FirstOf, Parts DEF ReadersTyped, RetiredInv, Lost
  <1>4. rpc' = [rpc EXCEPT ![r] = "work"] /\ work' = [work EXCEPT ![r] = @ \ {i}]
    BY <1>1 DEF NextLost
  <1>5. \/ link' = link /\ moving' = moving /\ strength' = strength /\ failures' = failures /\ silenced' = silenced
        \/ /\ rpc[r] \in {"stop", "call"}
           /\ \E ok \in BOOLEAN : /\ Call(i, rpc[r] = "call", "stop", TRUE, ok)
                              /\ silenced' = IF ok THEN silenced \cup {i} ELSE silenced
    BY DEF LatchLost, StopLost, devices, history
  <1>6. /\ link' = link /\ failures' \in 0 .. MaxFailures
        /\ moving' \subseteq moving /\ strength' \subseteq strength
        /\ silenced' = silenced \/ (i \in retired /\ silenced' = silenced \cup {i})
    <2>1. CASE link' = link /\ moving' = moving /\ strength' = strength /\ failures' = failures /\ silenced' = silenced
      BY <2>1, Parts DEF DevicesTyped
    <2>2. ASSUME rpc[r] \in {"stop", "call"}, NEW ok \in BOOLEAN, Call(i, rpc[r] = "call", "stop", TRUE, ok),
                 silenced' = IF ok THEN silenced \cup {i} ELSE silenced
          PROVE  /\ link' = link /\ failures' \in 0 .. MaxFailures
                 /\ moving' \subseteq moving /\ strength' \subseteq strength
                 /\ silenced' = silenced \/ (i \in retired /\ silenced' = silenced \cup {i})
      <3> HIDE DEF i
      <3>1. PICK f \in BOOLEAN, checked \in BOOLEAN : Call(i, checked, "stop", f, ok)
        BY <2>2
      <3>2. "stop" \in Stops /\ "stop" # "play"
        BY DEF Stops
      <3>3. /\ link' = link /\ failures' \in 0 .. MaxFailures
            /\ moving' \subseteq moving /\ strength' \subseteq strength
        BY <1>3, <3>1, <3>2, CallEffect
      <3>4. QED
        BY <1>3, <2>2, <3>3
    <2>3. QED
      BY <1>5, <2>1, <2>2
  <1> HIDE DEF i
  <1>7. ReadersTyped'
    BY <1>2, <1>4, Parts DEF ReadersTyped
  <1>8. SessionTyped' /\ EngineTyped' /\ DevicesTyped'
    BY <1>1, <1>2, <1>6, Parts DEF SessionTyped, EngineTyped, DevicesTyped
  <1>9. RetiredInv'
    <2>1. silenced' \subseteq retired' /\ (pc' = "retire" => leaving' \in retired')
      BY <1>2, <1>6, Parts DEF RetiredInv
    <2>2. \A q \in Readers : rpc'[q] \in {"stop", "call", "latch"} => rpc'[q] = rpc[q] /\ work'[q] = work[q]
      BY <1>4, Parts DEF ReadersTyped
    <2>3. QED
      BY <1>2, <2>1, <2>2, Parts DEF RetiredInv, Lost
  <1>10. UNCHANGED <<op, pc, active, pending, errs, acked, stopFault, leaving, only, quiet, playing>>
    BY <1>1, <1>2 DEF command
  <1>11. silenced' \subseteq Participants
    BY <1>3, <1>6, Parts DEF HistoryTyped
  <1>12. QED
    BY <1>2, <1>6, <1>7, <1>8, <1>9, <1>10, <1>11, BesideKeeps

(* Diagnostics answers, and the engine may end the run for it.             *)
LEMMA SummaryKeeps ==
  ASSUME IInv, NEW r \in Readers, Summary(r)
  PROVE  IInv'
  <1>1. /\ UNCHANGED <<session, command, work, only, runs, devices, history>>
        /\ rpc' = [rpc EXCEPT ![r] = "idle"] /\ sample' = [sample EXCEPT ![r] = <<>>] /\ seen' = [seen EXCEPT ![r] = 0]
        /\ Fails \/ UNCHANGED <<run, owedFault>>
    BY DEF Summary
  <1>2. /\ continueHealthy' = continueHealthy /\ playing' = playing /\ vibrationOnly' = vibrationOnly
        /\ fault' = fault /\ retired' = retired /\ faultStopped' = faultStopped /\ only' = only
        /\ runs' = runs /\ link' = link /\ moving' = moving /\ strength' = strength
        /\ failures' = failures /\ quiet' = quiet /\ silenced' = silenced /\ leaving' = leaving /\ pc' = pc
        /\ work' = work
    BY <1>1 DEF session, command, devices, history
  <1>3. /\ run' = run \/ (run \in {"starting", "playing"} /\ run' = "ending")
        /\ run' \in {"none", "starting", "playing", "ending"} /\ owedFault' \in BOOLEAN
    BY <1>1, FailsEffect, Parts DEF EngineTyped
  <1>4. ReadersTyped'
    <2>1. <<>> \in Seq(States) /\ Len(<<>>) <= N /\ 0 \in 0 .. MaxRuns
      BY FanOutAssumption
    <2>2. QED
      BY <1>1, <1>2, <2>1, Parts DEF ReadersTyped
  <1>5. SessionTyped' /\ EngineTyped' /\ DevicesTyped'
    BY <1>2, <1>3, Parts DEF SessionTyped, EngineTyped, DevicesTyped
  <1>6. RetiredInv'
    <2>1. \A q \in Readers : rpc'[q] \in {"stop", "call", "latch"} => rpc'[q] = rpc[q] /\ work'[q] = work[q]
      BY <1>1, <1>2, Parts DEF ReadersTyped
    <2>2. QED
      BY <1>2, <2>1, Parts DEF RetiredInv, Lost
  <1>7. UNCHANGED <<op, pc, active, pending, errs, acked, stopFault, leaving, only, quiet, playing>>
    BY <1>1, <1>2 DEF command
  <1>8. silenced' \subseteq Participants
    BY <1>2, Parts DEF HistoryTyped
  <1>9. QED
    BY <1>2, <1>3, <1>4, <1>5, <1>6, <1>7, <1>8, BesideKeeps
(* The run ends beside the command in flight.                              *)
LEMMA EndingKeeps ==
  ASSUME IInv, CancelRun \/ ReadMotionStartupStateFails \/ RefusedByFault
  PROVE  IInv'
  <1>1. /\ continueHealthy' = continueHealthy /\ playing' = playing /\ retired' = retired
        /\ faultStopped' = faultStopped /\ fault' \in {fault, TRUE}
        /\ vibrationOnly' = vibrationOnly \/ (op = "none" /\ vibrationOnly' = only)
    BY DEF CancelRun, ReadMotionStartupStateFails, RefusedByFault, MayCommand, session
  <1>2. UNCHANGED <<command, readers, only, runs, devices, history>>
    BY DEF CancelRun, ReadMotionStartupStateFails, RefusedByFault
  <1>3. /\ only' = only /\ runs' = runs /\ link' = link /\ moving' = moving /\ strength' = strength
        /\ failures' = failures /\ quiet' = quiet /\ silenced' = silenced /\ leaving' = leaving /\ pc' = pc
        /\ rpc' = rpc /\ sample' = sample /\ work' = work /\ seen' = seen
    BY <1>2 DEF command, readers, devices, history
  <1>4. /\ run' = run \/ (run \in {"starting", "playing"} /\ run' = "ending")
        /\ run' \in {"none", "starting", "playing", "ending"} /\ owedFault' \in BOOLEAN
    <2>1. CASE CancelRun
      BY <2>1 DEF CancelRun
    <2>2. CASE Fails
      BY <2>2, FailsEffect
    <2>3. QED
      BY <2>1, <2>2 DEF ReadMotionStartupStateFails, RefusedByFault
  <1>5. SessionTyped' /\ ReadersTyped' /\ EngineTyped' /\ DevicesTyped'
    BY <1>1, <1>3, <1>4, Parts DEF SessionTyped, ReadersTyped, EngineTyped, DevicesTyped
  <1>6. RetiredInv'
    BY <1>1, <1>3, Parts DEF RetiredInv, Lost
  <1>7. UNCHANGED <<op, pc, active, pending, errs, acked, stopFault, leaving, only, quiet, playing>>
    BY <1>1, <1>2, <1>3 DEF command
  <1>8. silenced' \subseteq Participants
    BY <1>3, Parts DEF HistoryTyped
  <1>9. QED
    BY <1>1, <1>3, <1>4, <1>5, <1>6, <1>7, <1>8, BesideKeeps

(* A device is lost, is connected again, or comes to rest.                 *)
LEMMA DeviceKeeps ==
  ASSUME IInv, NEW p \in Participants, Lose(p) \/ Replace(p) \/ Starve(p)
  PROVE  IInv'
  <1>1. /\ UNCHANGED <<session, op, pc, active, pending, errs, acked, stopFault, leaving,
                        sample, work, seen, engine, history>>
        /\ \E R \in SUBSET Readers :
             /\ rpc' = [r \in Readers |-> IF r \in R THEN "call" ELSE rpc[r]]
             /\ \A r \in R : rpc[r] = "stop"
    <2>1. CASE Lose(p) \/ Starve(p)
      <3>1. UNCHANGED <<session, command, readers, engine, history>>
        BY <2>1 DEF Lose, Starve
      <3>2. rpc' = rpc /\ rpc = [r \in Readers |-> rpc[r]]
        BY <3>1, Parts DEF readers, ReadersTyped
      <3>3. {} \in SUBSET Readers /\ rpc' = [r \in Readers |-> IF r \in {} THEN "call" ELSE rpc[r]]
        BY <3>2
      <3>4. QED
        BY <3>1, <3>3 DEF command, readers
    <2>2. CASE Replace(p)
      BY <2>2 DEF Replace, Stopping
    <2>3. QED
      BY <2>1, <2>2
  <1>2. /\ continueHealthy' = continueHealthy /\ playing' = playing /\ vibrationOnly' = vibrationOnly
        /\ fault' = fault /\ retired' = retired /\ faultStopped' = faultStopped /\ run' = run /\ only' = only
        /\ runs' = runs /\ owedFault' = owedFault /\ quiet' = quiet /\ silenced' = silenced
        /\ leaving' = leaving /\ pc' = pc
        /\ sample' = sample /\ work' = work /\ seen' = seen
    BY <1>1 DEF session, engine, history
  <1>3. /\ moving' \subseteq moving /\ strength' \subseteq strength /\ failures' \in 0 .. MaxFailures
        /\ link' \in [Participants -> {"live", "lost", "replaced"}]
        /\ \A q \in Participants : link'[q] = "live" => link[q] = "live"
    <2>1. CASE Lose(p)
      <3>1. failures' \in 0 .. MaxFailures
        BY <2>1, Parts, FanOutAssumption DEF Lose, FailOne, DevicesTyped
      <3>2. moving' = moving /\ strength' = strength /\ link' = [link EXCEPT ![p] = "lost"]
        BY <2>1 DEF Lose
      <3>3. QED
        BY <3>1, <3>2, Parts DEF DevicesTyped
    <2>2. CASE Replace(p)
      <3>1. /\ link' = [link EXCEPT ![p] = "replaced"] /\ failures' = failures
            /\ moving' = moving \ {p} /\ strength' = strength \ {p}
        BY <2>2 DEF Replace
      <3>2. QED
        BY <3>1, Parts DEF DevicesTyped
    <2>3. CASE Starve(p)
      <3>1. failures' \in 0 .. MaxFailures
        BY <2>3, Parts, FanOutAssumption DEF Starve, FailOne, DevicesTyped
      <3>2. moving' = moving \ {p} /\ strength' = strength /\ link' = link
        BY <2>3 DEF Starve
      <3>3. QED
        BY <3>1, <3>2, Parts DEF DevicesTyped
    <2>4. QED
      BY <2>1, <2>2, <2>3
  <1>4. SessionTyped' /\ ReadersTyped' /\ EngineTyped' /\ DevicesTyped'
    BY <1>1, <1>2, <1>3, Parts DEF SessionTyped, ReadersTyped, EngineTyped, DevicesTyped
  <1>5. RetiredInv'
    BY <1>1, <1>2, Parts DEF RetiredInv, Lost
  <1>6. UNCHANGED <<op, pc, active, pending, errs, acked, stopFault, leaving, only, quiet, playing>>
    BY <1>1, <1>2 DEF command
  <1>7. silenced' \subseteq Participants
    BY <1>2, <1>3, Parts DEF HistoryTyped
  <1>8. QED
    BY <1>2, <1>3, <1>4, <1>5, <1>6, <1>7, BesideKeeps
-----------------------------------------------------------------------------
(* The command in flight leaves the readers where they are.                *)
LEMMA ReadersWait ==
  ASSUME IInv, UNCHANGED readers, retired \subseteq retired', silenced' \subseteq retired',
         pc' = "retire" => leaving' \in retired'
  PROVE  ReadersTyped' /\ RetiredInv'
  <1>1. rpc' = rpc /\ sample' = sample /\ work' = work /\ seen' = seen
    BY DEF readers
  <1>2. QED
    BY <1>1, Parts DEF ReadersTyped, RetiredInv, Lost

(* What the engine makes of a command's return.                            *)
LEMMA ReturnEffect ==
  ASSUME IInv, NEW failed \in BOOLEAN, Return(failed)
  PROVE  /\ op' = "none" /\ pc' = "idle" /\ acked' = {} /\ errs' = {} /\ only' = only /\ leaving' = None
         /\ CommandTyped' /\ EngineTyped'
         /\ op # "stop" /\ run \in {"playing", "ending"} => run' \in {"playing", "ending"}
         /\ op = "play" /\ ~failed => run' \in {"playing", "ending"}
  <1>1. /\ op' = "none" /\ pc' = "idle" /\ active' = {} /\ pending' = {} /\ errs' = {} /\ acked' = {}
        /\ stopFault' = FALSE /\ leaving' = None /\ only' = only /\ runs' = runs
    BY DEF Return
  <1>2. CommandTyped'
    BY <1>1 DEF CommandTyped
  <1>3. Fails => run' \in {"none", "starting", "playing", "ending"} /\ owedFault' \in BOOLEAN
    BY FailsEffect
  <1>4. run' \in {"none", "starting", "playing", "ending"} /\ owedFault' \in BOOLEAN
    BY <1>3, Parts DEF Return, EngineTyped
  <1>5. EngineTyped'
    BY <1>1, <1>4, Parts DEF EngineTyped
  <1>6. op # "stop" /\ run \in {"playing", "ending"} => run' \in {"playing", "ending"}
    BY DEF Return, Fails
  <1>7. op = "play" /\ ~failed => run' \in {"playing", "ending"}
    BY Parts DEF Return, EngineTyped, RunInv
  <1>8. QED
    BY <1>1, <1>2, <1>5, <1>6, <1>7

(* A command returns: what it leaves is an established run or none.        *)
LEMMA ReturnKeeps ==
  ASSUME IInv, NEW failed \in BOOLEAN, Return(failed),
         UNCHANGED <<continueHealthy, vibrationOnly, retired, readers, devices, silenced>>,
         fault' \in BOOLEAN, faultStopped' \in BOOLEAN,
         playing' = playing \/ (playing' = TRUE /\ Starting /\ ~failed /\ SomeoneHealthy'),
         quiet' \in {"no", "stopped", "zeroed"}, StoppedMeansStill'
  PROVE  IInv'
  <1>1. /\ link' = link /\ moving' = moving /\ strength' = strength /\ failures' = failures
        /\ vibrationOnly' = vibrationOnly /\ retired' = retired /\ silenced' = silenced
        /\ continueHealthy' = continueHealthy
    BY DEF devices
  <1>2. /\ op' = "none" /\ pc' = "idle" /\ acked' = {} /\ errs' = {} /\ only' = only
        /\ CommandTyped' /\ EngineTyped'
        /\ op # "stop" /\ run \in {"playing", "ending"} => run' \in {"playing", "ending"}
        /\ op = "play" /\ ~failed => run' \in {"playing", "ending"}
    BY ReturnEffect
  <1>3. SessionTyped' /\ DevicesTyped' /\ HistoryTyped'
    BY <1>1, Parts DEF SessionTyped, DevicesTyped, HistoryTyped
  <1>4. ReadersTyped' /\ RetiredInv'
    BY <1>1, <1>2, ReadersWait, Parts DEF RetiredInv
  <1>5. RunInv' /\ HealthyInv'
    <2>1. CASE playing' = playing
      BY <1>1, <1>2, <2>1, Parts DEF RunInv, HealthyInv, SomeoneHealthy
    <2>2. CASE playing' = TRUE /\ Starting /\ ~failed /\ SomeoneHealthy'
      BY <1>1, <1>2, <2>2, Parts DEF RunInv, HealthyInv, SnapshotInv, Starting
    <2>3. QED
      BY <2>1, <2>2
  <1>6. SnapshotInv' /\ AnsweredInv'
    BY <1>2 DEF SnapshotInv, AnsweredInv, Starting
  <1>7. QED
    BY <1>2, <1>3, <1>4, <1>5, <1>6 DEF IInv, Typed

(* A Play without a clock, and a cancelled vibration frame, fail.          *)
LEMMA FailureKeeps ==
  ASSUME IInv, NoClock \/ JudgeCancelled
  PROVE  IInv'
  <1>1. PICK failed \in BOOLEAN : Return(failed)
    BY DEF NoClock, JudgeCancelled
  <1>2. UNCHANGED <<session, readers, devices, history>>
    BY DEF NoClock, JudgeCancelled
  <1>3. /\ continueHealthy' = continueHealthy /\ playing' = playing /\ vibrationOnly' = vibrationOnly
        /\ fault' = fault /\ retired' = retired /\ faultStopped' = faultStopped
        /\ quiet' = quiet /\ silenced' = silenced /\ readers' = readers /\ devices' = devices
    BY <1>2 DEF session, history
  <1>4. StoppedMeansStill'
    BY <1>3, Parts DEF StoppedMeansStill, Live, devices
  <1>5. fault' \in BOOLEAN /\ faultStopped' \in BOOLEAN /\ quiet' \in {"no", "stopped", "zeroed"}
    BY <1>3, Parts DEF SessionTyped, HistoryTyped
  <1>6. QED
    BY <1>1, <1>3, <1>4, <1>5, ReturnKeeps

(* All errors of a command are dealt with: it returns, or Play tries the   *)
(* next clock.                                                             *)
LEMMA JudgedKeeps ==
  ASSUME IInv, Judged
  PROVE  IInv'
  <1>1. /\ pc = "judge" /\ errs = {}
        /\ UNCHANGED <<continueHealthy, vibrationOnly, fault, retired, faultStopped, readers, devices, history>>
    BY DEF Judged
  <1>2. /\ continueHealthy' = continueHealthy /\ vibrationOnly' = vibrationOnly
        /\ fault' = fault /\ retired' = retired /\ faultStopped' = faultStopped
        /\ quiet' = quiet /\ silenced' = silenced /\ readers' = readers /\ devices' = devices
        /\ link' = link /\ moving' = moving /\ strength' = strength /\ failures' = failures
    BY <1>1 DEF history, devices
  <1>3. StoppedMeansStill'
    BY <1>2, Parts DEF StoppedMeansStill, Live
  <1>4. fault' \in BOOLEAN /\ faultStopped' \in BOOLEAN /\ quiet' \in {"no", "stopped", "zeroed"}
    BY <1>2, Parts DEF SessionTyped, HistoryTyped
  <1>5. CASE op = "play" /\ acked = {}
    <2>1. /\ pc' = "clock" /\ playing' = playing /\ op' = op /\ active' = active /\ pending' = pending
          /\ errs' = errs /\ acked' = acked /\ stopFault' = stopFault /\ leaving' = leaving /\ engine' = engine
      BY <1>5 DEF Judged
    <2>2. run' = run /\ only' = only /\ runs' = runs /\ owedFault' = owedFault
      BY <2>1 DEF engine
    <2>3. SessionTyped' /\ CommandTyped' /\ EngineTyped' /\ DevicesTyped' /\ HistoryTyped'
      BY <1>2, <2>1, <2>2, Parts DEF SessionTyped, CommandTyped, EngineTyped, DevicesTyped, HistoryTyped
    <2>4. ReadersTyped' /\ RetiredInv'
      BY <1>2, <2>1, ReadersWait, Parts DEF RetiredInv
    <2>5. RunInv' /\ HealthyInv'
      BY <1>1, <1>2, <1>5, <2>1, <2>2, Parts DEF RunInv, HealthyInv, SomeoneHealthy
    <2>6. SnapshotInv' /\ AnsweredInv'
      BY <1>1, <1>2, <1>5, <2>1, <2>2, Parts DEF SnapshotInv, AnsweredInv, Starting
    <2>7. QED
      BY <1>3, <2>3, <2>4, <2>5, <2>6 DEF IInv, Typed
  <1>6. CASE ~(op = "play" /\ acked = {})
    <2>1. Return(FALSE) /\ playing' = (playing \/ op = "play")
      BY <1>6 DEF Judged
    <2>2. Starting => SomeoneHealthy'
      <3>1. Starting => acked # {} /\ acked \cap retired = {} /\ (vibrationOnly => acked \subseteq Vibrators)
        BY <1>1, <1>6, Parts DEF SnapshotInv, Starting
      <3>2. acked \subseteq Participants /\ vibrationOnly' = vibrationOnly /\ retired' = retired
        BY <1>2, Parts DEF CommandTyped
      <3>3. QED
        BY <3>1, <3>2 DEF SomeoneHealthy
    <2>3. op = "play" => Starting
      BY <1>1 DEF Starting
    <2>4. playing' = playing \/ (playing' = TRUE /\ Starting /\ SomeoneHealthy')
      BY <2>1, <2>2, <2>3, Parts DEF SessionTyped
    <2>5. PICK failed \in BOOLEAN : failed = FALSE /\ Return(failed)
      BY <2>1
    <2>6. UNCHANGED <<continueHealthy, vibrationOnly, retired, readers, devices, silenced>>
      BY <1>2
    <2>7. QED
      BY <1>3, <1>4, <2>4, <2>5, <2>6, ReturnKeeps
  <1>7. QED
    BY <1>5, <1>6

(* Everyone has answered a Stop.                                           *)
LEMMA StopJoinKeeps ==
  ASSUME IInv, StopJoin
  PROVE  IInv'
  <1>1. /\ pc = "stopping" /\ pending = {}
        /\ fault' = (fault \/ errs # {})
        /\ faultStopped' = (faultStopped \/ (errs = {} /\ stopFault))
        /\ quiet' = IF errs # {} THEN quiet ELSE IF stopFault THEN "zeroed" ELSE "stopped"
        /\ UNCHANGED <<continueHealthy, playing, vibrationOnly, retired, readers, devices, silenced>>
    BY DEF StopJoin
  <1>2. PICK failed \in BOOLEAN : Return(failed)
    BY DEF StopJoin
  <1>3. link' = link /\ moving' = moving /\ strength' = strength /\ playing' = playing
    BY <1>1 DEF devices
  <1>4. fault' \in BOOLEAN /\ faultStopped' \in BOOLEAN /\ quiet' \in {"no", "stopped", "zeroed"}
    BY <1>1, Parts DEF SessionTyped, HistoryTyped
  <1>5. StoppedMeansStill'
    <2>1. Live' = Live
      BY <1>3 DEF Live
    <2>2. CASE errs = {}
      <3>1. \A p \in Live : p \notin moving /\ (stopFault => p \notin strength)
        BY <1>1, <2>2, Parts DEF AnsweredInv
      <3>2. quiet' = "zeroed" => stopFault
        BY <1>1, <2>2
      <3>3. QED
        BY <1>3, <2>1, <3>1, <3>2 DEF StoppedMeansStill
    <2>3. CASE errs # {}
      BY <1>1, <1>3, <2>1, <2>3, Parts DEF StoppedMeansStill
    <2>4. QED
      BY <2>2, <2>3
  <1>6. UNCHANGED <<continueHealthy, vibrationOnly, retired, readers, devices, silenced>>
    BY <1>1
  <1>7. QED
    BY <1>2, <1>3, <1>4, <1>5, <1>6, ReturnKeeps
-----------------------------------------------------------------------------
(* A command changes its own variables and its devices, and no device that *)
(* it must not: what is left to show of a step that keeps the engine, the  *)
(* history and who is retired.                                             *)
LEMMA CallsKeep ==
  ASSUME IInv, UNCHANGED <<session, readers, engine, history>>, pc # "idle", op' = op, CommandTyped',
         pc' \notin {"idle", "clock", "retire"}, link' = link, failures' \in 0 .. MaxFailures,
         moving' \subseteq moving \/ Starting, strength' \subseteq strength \/ Starting,
         moving' \cup strength' \subseteq Participants,
         SnapshotInv', AnsweredInv'
  PROVE  IInv'
  <1>1. /\ continueHealthy' = continueHealthy /\ playing' = playing /\ vibrationOnly' = vibrationOnly
        /\ fault' = fault /\ retired' = retired /\ faultStopped' = faultStopped /\ run' = run /\ only' = only
        /\ runs' = runs /\ owedFault' = owedFault /\ quiet' = quiet /\ silenced' = silenced
    BY DEF session, engine, history
  <1>2. SessionTyped' /\ EngineTyped' /\ DevicesTyped' /\ HistoryTyped'
    BY <1>1, Parts DEF SessionTyped, EngineTyped, DevicesTyped, HistoryTyped
  <1>3. ReadersTyped' /\ RetiredInv'
    BY <1>1, ReadersWait, Parts DEF RetiredInv
  <1>4. RunInv' /\ HealthyInv'
    BY <1>1, Parts DEF RunInv, HealthyInv, SomeoneHealthy
  <1>5. Live' = Live
    BY DEF Live
  <1>6. StoppedMeansStill'
    <2>1. quiet' # "no" => moving' \subseteq moving /\ strength' \subseteq strength
      BY <1>1, Parts DEF SnapshotInv
    <2>2. QED
      BY <1>1, <1>5, <2>1, Parts DEF StoppedMeansStill
  <1>7. QED
    BY <1>2, <1>3, <1>4, <1>6 DEF IInv, Typed

(* Play's first call: its clock starts, or the start fails.                *)
LEMMA PlayClockKeeps ==
  ASSUME IInv, PlayClock
  PROVE  IInv'
  <1> DEFINE i == Min(pending)
  <1>1. /\ pc = "clock" /\ pending # {} /\ pending' = pending \ {i}
        /\ op' = op /\ active' = active /\ stopFault' = stopFault /\ leaving' = leaving
        /\ UNCHANGED <<session, readers, engine, history>>
    BY DEF PlayClock
  <1>2. PICK ok \in BOOLEAN :
          /\ Call(i, i \in passed, "play", FALSE, ok)
          /\ IF ok THEN pc' = Waits(pending') /\ acked' = {i} /\ errs' = errs
                   ELSE pc' = "judge" /\ errs' = {i} /\ acked' = acked
    BY DEF PlayClock
  <1>3. i \in pending /\ i \in Participants
    BY <1>1, FirstOf, Parts DEF CommandTyped
  <1>4. op = "play" /\ acked = {} /\ errs = {} /\ Starting
    BY <1>1, Parts DEF RunInv, Starting
  <1>5. vibrationOnly' = vibrationOnly /\ quiet' = quiet /\ retired' = retired /\ only' = only
    BY <1>1 DEF session, history, engine
  <1> HIDE DEF i
  <1>6. i \in active /\ active = pending
    BY <1>3, <1>4, Parts DEF SnapshotInv
  <1>7. /\ link' = link /\ failures' \in 0 .. MaxFailures
        /\ moving' \subseteq moving \cup {i} /\ strength' \subseteq strength \cup {i}
    <2>1. PICK f \in BOOLEAN, checked \in BOOLEAN : Call(i, checked, "play", f, ok)
      <3>1. PICK f \in BOOLEAN : Call(i, i \in passed, "play", f, ok)
        BY <1>2
      <3>2. QED
        BY <3>1, CommandCall
    <2>2. QED
      BY <1>3, <2>1, CallEffect
  <1>8. pc' \in {"send", "judge"} /\ (pc' = "judge" /\ errs' = {} => pending' = {})
    BY <1>2, <1>4 DEF Waits
  <1>9. active' = pending' \cup acked' \cup errs' /\ acked' \subseteq {i} /\ errs' \subseteq {i}
    BY <1>1, <1>2, <1>3, <1>4, <1>6
  <1>10. CommandTyped'
    BY <1>1, <1>3, <1>4, <1>8, <1>9, Parts DEF CommandTyped
  <1>11. SnapshotInv'
    BY <1>1, <1>4, <1>5, <1>8, <1>9, Parts DEF SnapshotInv
  <1>12. AnsweredInv'
    BY <1>8 DEF AnsweredInv
  <1>13. moving' \cup strength' \subseteq Participants
    BY <1>3, <1>7, Parts DEF DevicesTyped
  <1>14. pc # "idle" /\ pc' \notin {"idle", "clock", "retire"}
    BY <1>1, <1>8
  <1>15. QED
    BY <1>1, <1>4, <1>7, <1>10, <1>11, <1>12, <1>13, <1>14, CallsKeep

(* One of the calls that run in parallel is answered.                      *)
LEMMA SendKeeps ==
  ASSUME IInv, NEW p \in Participants, Send(p)
  PROVE  IInv'
  <1>1. /\ pc = "send" /\ p \in pending /\ pending' = pending \ {p} /\ pc' = Waits(pending')
        /\ op' = op /\ active' = active /\ stopFault' = stopFault /\ leaving' = leaving
        /\ UNCHANGED <<session, readers, engine, history>>
    BY DEF Send
  <1>2. PICK ok \in BOOLEAN :
          /\ Call(p, p \in passed, op, FALSE, ok)
          /\ errs' = IF ok THEN errs ELSE errs \cup {p}
          /\ acked' = IF ok /\ op = "play" THEN acked \cup {p} ELSE acked
    BY DEF Send
  <1>3. vibrationOnly' = vibrationOnly /\ quiet' = quiet /\ retired' = retired /\ only' = only
    BY <1>1 DEF session, history, engine
  <1>4. /\ link' = link /\ failures' \in 0 .. MaxFailures
        /\ moving' \subseteq moving \cup {p} /\ strength' \subseteq strength \cup {p}
        /\ op # "play" => moving' \subseteq moving /\ strength' \subseteq strength
    <2> DEFINE method == op
    <2>1. PICK f \in BOOLEAN, checked \in BOOLEAN : Call(p, checked, method, f, ok)
      <3>1. PICK f \in BOOLEAN : Call(p, p \in passed, method, f, ok)
        BY <1>2
      <3>2. QED
        BY <3>1, CommandCall
    <2> HIDE DEF method
    <2>2. link' = link /\ failures' \in 0 .. MaxFailures
      BY <2>1, CallEffect
    <2>3. moving' \subseteq moving \cup {p} /\ strength' \subseteq strength \cup {p}
      BY <2>1, CallEffect
    <2>4. method # "play" => moving' \subseteq moving /\ strength' \subseteq strength
      BY <2>1 DEF Call, Owner, Reaches, Stops
    <2>5. QED
      BY <2>2, <2>3, <2>4 DEF method
  <1>5. pc' \in {"send", "judge"} /\ (pc' = "judge" => pending' = {})
    BY <1>1 DEF Waits
  <1>6. CommandTyped'
    BY <1>1, <1>2, <1>5, Parts DEF CommandTyped
  <1>7. op = "play" => pending' \cup acked' \cup errs' = pending \cup acked \cup errs
    BY <1>1, <1>2
  <1>8. SnapshotInv'
    <2>1. Starting' => Starting /\ op = "play"
      BY <1>1 DEF Starting
    <2>2. QED
      BY <1>1, <1>3, <1>5, <1>7, <2>1, Parts DEF SnapshotInv
  <1>9. AnsweredInv'
    BY <1>5 DEF AnsweredInv
  <1>10. op = "play" => Starting
    BY <1>1 DEF Starting
  <1>11. moving' \cup strength' \subseteq Participants
    BY <1>4, Parts DEF DevicesTyped
  <1>12. pc # "idle" /\ pc' \notin {"idle", "clock", "retire"}
    BY <1>1, <1>5
  <1>13. QED
    BY <1>1, <1>4, <1>6, <1>8, <1>9, <1>10, <1>11, <1>12, CallsKeep

(* One participant answers a Stop.                                         *)
LEMMA StopSendKeeps ==
  ASSUME IInv, NEW p \in Participants, StopSend(p)
  PROVE  IInv'
  <1> DEFINE method == IF op \in Stops THEN op ELSE "stop"
  <1>1. /\ pc = "stopping" /\ p \in pending /\ pending' = pending \ {p} /\ pc' = pc /\ acked' = acked
        /\ op' = op /\ active' = active /\ stopFault' = stopFault /\ leaving' = leaving
        /\ UNCHANGED <<session, readers, engine, history>>
    BY DEF StopSend
  <1>2. PICK ok \in BOOLEAN :
          Call(p, p \in passed, method, stopFault, ok) /\ errs' = IF ok THEN errs ELSE errs \cup {p}
    BY DEF StopSend
  <1>3. method \in Stops /\ method # "play"
    BY DEF Stops
  <1> HIDE DEF method
  <1>4. stopFault \in BOOLEAN
    BY Parts DEF CommandTyped
  <1>5. /\ link' = link /\ failures' \in 0 .. MaxFailures
        /\ moving' \subseteq moving /\ strength' \subseteq strength
        /\ ok /\ link[p] = "live" => p \notin moving' /\ (stopFault => p \notin strength')
    <2>1. PICK f \in BOOLEAN, checked \in BOOLEAN : f = stopFault /\ Call(p, checked, method, f, ok)
      BY <1>2, <1>4, CommandCall
    <2>2. QED
      BY <1>3, <2>1, CallEffect
  <1>6. CommandTyped'
    BY <1>1, <1>2, Parts DEF CommandTyped
  <1>7. SnapshotInv'
    BY <1>1 DEF SnapshotInv, Starting
  <1>8. AnsweredInv'
    <2>1. ASSUME NEW q \in Live \ (pending' \cup errs')
          PROVE  q \notin moving' /\ (stopFault => q \notin strength')
      <3>1. CASE q = p
        BY <1>2, <1>5, <2>1, <3>1 DEF Live
      <3>2. CASE q # p
        BY <1>1, <1>2, <1>5, <2>1, <3>2, Parts DEF AnsweredInv
      <3>3. QED
        BY <3>1, <3>2
    <2>2. Live' = Live
      BY <1>5 DEF Live
    <2>3. QED
      BY <1>1, <2>1, <2>2 DEF AnsweredInv
  <1>9. moving' \cup strength' \subseteq Participants
    BY <1>5, Parts DEF DevicesTyped
  <1>10. pc # "idle" /\ pc' \notin {"idle", "clock", "retire"}
    BY <1>1
  <1>11. QED
    BY <1>1, <1>5, <1>6, <1>7, <1>8, <1>9, <1>10, CallsKeep
-----------------------------------------------------------------------------
(* A run starts on an idle session, and a command begins without a call:   *)
(* what is left to show of a step that leaves the devices alone.           *)
LEMMA BeginKeeps ==
  ASSUME IInv, UNCHANGED <<continueHealthy, faultStopped, readers, devices, silenced>>,
         SessionTyped', CommandTyped', EngineTyped', quiet' \in {quiet, "no"}, retired' \in SUBSET Participants,
         retired \subseteq retired', pc' = "retire" => leaving' \in retired',
         RunInv', SnapshotInv', AnsweredInv', HealthyInv'
  PROVE  IInv'
  <1>1. /\ link' = link /\ moving' = moving /\ strength' = strength /\ failures' = failures
        /\ silenced' = silenced /\ readers' = readers
    BY DEF devices
  <1>2. DevicesTyped' /\ HistoryTyped'
    BY <1>1, Parts DEF DevicesTyped, HistoryTyped
  <1>3. ReadersTyped' /\ RetiredInv'
    BY <1>1, ReadersWait, Parts DEF RetiredInv
  <1>4. StoppedMeansStill'
    BY <1>1, Parts DEF StoppedMeansStill, Live
  <1>5. QED
    BY <1>2, <1>3, <1>4 DEF IInv, Typed

(* The engine starts a run.                                                *)
LEMMA StartRunKeeps ==
  ASSUME IInv, StartRun
  PROVE  IInv'
  <1>1. /\ run = "none" /\ run' = "starting" /\ runs < MaxRuns /\ runs' = runs + 1 /\ only' \in BOOLEAN
        /\ owedFault' = owedFault /\ UNCHANGED <<session, command, readers, devices, quiet, silenced>>
    BY DEF StartRun
  <1>2. /\ continueHealthy' = continueHealthy /\ playing' = playing /\ vibrationOnly' = vibrationOnly
        /\ fault' = fault /\ retired' = retired /\ faultStopped' = faultStopped
        /\ op' = op /\ pc' = pc /\ active' = active /\ pending' = pending /\ errs' = errs /\ acked' = acked
        /\ stopFault' = stopFault /\ leaving' = leaving /\ quiet' = quiet /\ silenced' = silenced
    BY <1>1 DEF session, command
  <1>3. runs' \in 0 .. MaxRuns
    BY <1>1, Parts, FanOutAssumption DEF EngineTyped
  <1>4. SessionTyped' /\ CommandTyped' /\ EngineTyped'
    BY <1>1, <1>2, <1>3, Parts DEF SessionTyped, CommandTyped, EngineTyped
  <1>5. op = "none" /\ pc = "idle" /\ ~playing
    BY <1>1, Parts DEF RunInv
  <1>6. RunInv' /\ SnapshotInv' /\ AnsweredInv' /\ HealthyInv'
    BY <1>1, <1>2, <1>5, Parts DEF RunInv, SnapshotInv, AnsweredInv, HealthyInv, Starting
  <1>7. /\ UNCHANGED <<continueHealthy, faultStopped, readers, devices, silenced>>
        /\ quiet' \in {quiet, "no"} /\ retired' \in SUBSET Participants
        /\ retired \subseteq retired' /\ pc' # "retire"
    BY <1>1, <1>2, <1>5, Parts DEF SessionTyped
  <1>8. QED
    BY <1>4, <1>6, <1>7, BeginKeeps

(* A dispatch begins.                                                      *)
LEMMA DispatchKeeps ==
  ASSUME IInv, NEW o \in Sends, Dispatch(o)
  PROVE  IInv'
  <1> DEFINE targets == (Participants \ Inactive(vibrationOnly'))
                          \cap (IF o = "scalar" THEN Vibrators ELSE Participants)
  <1>1. /\ op = "none" /\ run \in {"starting", "playing"} /\ vibrationOnly' \in {vibrationOnly, only}
        /\ op' \in {"points", "scalar"} /\ pending' = targets /\ pc' = Waits(pending')
        /\ UNCHANGED <<continueHealthy, playing, fault, retired, faultStopped, active, errs, acked,
                       stopFault, leaving, readers, engine, devices, history>>
    BY DEF Dispatch, MayCommand
  <1>2. targets \subseteq Participants
    OBVIOUS
  <1> HIDE DEF targets
  <1>3. /\ continueHealthy' = continueHealthy /\ playing' = playing /\ fault' = fault /\ retired' = retired
        /\ faultStopped' = faultStopped /\ active' = active /\ errs' = errs /\ acked' = acked
        /\ stopFault' = stopFault /\ leaving' = leaving /\ run' = run /\ only' = only /\ runs' = runs
        /\ owedFault' = owedFault /\ quiet' = quiet /\ silenced' = silenced
    BY <1>1 DEF engine, history
  <1>4. pc' \in {"send", "judge"}
    BY <1>1 DEF Waits
  <1>5. SessionTyped' /\ CommandTyped' /\ EngineTyped'
    BY <1>1, <1>2, <1>3, <1>4, Parts DEF SessionTyped, CommandTyped, EngineTyped
  <1>6. RunInv' /\ HealthyInv'
    <2>1. playing => vibrationOnly' = vibrationOnly /\ vibrationOnly = only
      BY <1>1, Parts DEF HealthyInv
    <2>2. QED
      BY <1>1, <1>3, <1>4, <2>1, Parts DEF RunInv, HealthyInv, SomeoneHealthy
  <1>7. SnapshotInv' /\ AnsweredInv'
    BY <1>1, <1>4 DEF SnapshotInv, AnsweredInv, Starting
  <1>8. /\ UNCHANGED <<continueHealthy, faultStopped, readers, devices, silenced>>
        /\ quiet' \in {quiet, "no"} /\ retired' \in SUBSET Participants
        /\ retired \subseteq retired' /\ pc' # "retire"
    BY <1>1, <1>3, <1>4, Parts DEF SessionTyped
  <1>9. QED
    BY <1>5, <1>6, <1>7, <1>8, BeginKeeps

(* A Play takes its snapshot.                                              *)
LEMMA PlayKeeps ==
  ASSUME IInv, Play
  PROVE  IInv'
  <1>1. /\ op = "none" /\ run = "starting" /\ vibrationOnly' = only
        /\ active' = Participants \ Inactive(only) /\ pending' = active'
        /\ op' = "play" /\ pc' = "clock" /\ quiet' = "no"
        /\ UNCHANGED <<continueHealthy, playing, fault, retired, faultStopped, errs, acked,
                       stopFault, leaving, readers, engine, devices, silenced>>
    BY DEF Play, MayCommand
  <1>2. /\ continueHealthy' = continueHealthy /\ playing' = playing /\ fault' = fault /\ retired' = retired
        /\ faultStopped' = faultStopped /\ errs' = errs /\ acked' = acked
        /\ stopFault' = stopFault /\ leaving' = leaving /\ run' = run /\ only' = only /\ runs' = runs
        /\ owedFault' = owedFault
    BY <1>1 DEF engine
  <1>3. SessionTyped' /\ CommandTyped' /\ EngineTyped'
    BY <1>1, <1>2, Parts DEF SessionTyped, CommandTyped, EngineTyped
  <1>4. ~playing /\ acked = {} /\ errs = {}
    BY <1>1, Parts DEF RunInv
  <1>5. RunInv' /\ HealthyInv'
    BY <1>1, <1>2, <1>4, Parts DEF RunInv, HealthyInv
  <1>6. SnapshotInv'
    <2>1. active' \cap retired' = {} /\ (only' => active' \subseteq Vibrators)
      BY <1>1, <1>2 DEF Inactive
    <2>2. QED
      BY <1>1, <1>2, <1>4, <2>1 DEF SnapshotInv
  <1>7. AnsweredInv'
    BY <1>1 DEF AnsweredInv
  <1>8. /\ UNCHANGED <<continueHealthy, faultStopped, readers, devices, silenced>>
        /\ quiet' \in {quiet, "no"} /\ retired' \in SUBSET Participants
        /\ retired \subseteq retired' /\ pc' # "retire"
    BY <1>1, <1>2, Parts DEF SessionTyped
  <1>9. QED
    BY <1>3, <1>5, <1>6, <1>7, <1>8, BeginKeeps

(* A failed participant is retired, or the command fails.                  *)
LEMMA JudgeKeeps ==
  ASSUME IInv, Judge
  PROVE  IInv'
  <1> DEFINE i == Min(errs)
  <1>1. /\ pc = "judge" /\ errs # {}
        /\ UNCHANGED <<continueHealthy, playing, vibrationOnly, fault, faultStopped, op, active,
                       pending, acked, stopFault, readers, engine, devices, history>>
    BY DEF Judge
  <1>2. i \in errs /\ i \in Participants
    BY <1>1, FirstOf, Parts DEF CommandTyped
  <1>3. \/ /\ CanRetire(i) /\ retired' = retired \cup {i} /\ errs' = errs \ {i}
           /\ (pc' = pc /\ leaving' = leaving) \/ (pc' = "retire" /\ leaving' = i)
        \/ pc' = "latch" /\ retired' = retired /\ errs' = errs /\ leaving' = leaving
    BY DEF Judge
  <1> HIDE DEF i
  <1>4. /\ continueHealthy' = continueHealthy /\ playing' = playing /\ vibrationOnly' = vibrationOnly
        /\ fault' = fault /\ faultStopped' = faultStopped /\ op' = op /\ active' = active /\ pending' = pending
        /\ acked' = acked /\ stopFault' = stopFault /\ run' = run /\ only' = only /\ runs' = runs
        /\ owedFault' = owedFault /\ quiet' = quiet /\ silenced' = silenced
    BY <1>1 DEF engine, history
  <1>5. SessionTyped' /\ CommandTyped' /\ EngineTyped'
    BY <1>1, <1>2, <1>3, <1>4, Parts DEF SessionTyped, CommandTyped, EngineTyped
  <1>6. pc' \in {"judge", "latch"} \/ (pc' = "retire" /\ op # "play" /\ leaving' \in retired')
    BY <1>1, <1>2, <1>3, RetireLeaves, Parts DEF RunInv
  <1>7. RunInv'
    BY <1>1, <1>4, <1>6, Parts DEF RunInv
  <1>8. SnapshotInv'
    <2>1. ~Starting'
      BY <1>1, <1>2, <1>3, <1>4, RetireLeaves DEF Starting
    <2>2. QED
      BY <2>1 DEF SnapshotInv
  <1>9. AnsweredInv'
    BY <1>6 DEF AnsweredInv
  <1>10. HealthyInv'
    <2>1. CASE CanRetire(i) /\ retired' = retired \cup {i}
      BY <1>2, <1>4, <2>1, RetireLeaves, Parts DEF HealthyInv, SomeoneHealthy
    <2>2. CASE retired' = retired
      BY <1>4, <2>2, Parts DEF HealthyInv, SomeoneHealthy
    <2>3. QED
      BY <1>3, <2>1, <2>2
  <1>11. /\ UNCHANGED <<continueHealthy, faultStopped, readers, devices, silenced>>
         /\ quiet' \in {quiet, "no"} /\ retired' \in SUBSET Participants
         /\ retired \subseteq retired' /\ (pc' = "retire" => leaving' \in retired')
    BY <1>1, <1>2, <1>3, <1>4, <1>6, Parts DEF SessionTyped
  <1>12. QED
    BY <1>5, <1>7, <1>8, <1>9, <1>10, <1>11, BeginKeeps

(* The Stop of a participant that a dispatch retires.                      *)
LEMMA RetireStopKeeps ==
  ASSUME IInv, RetireStop
  PROVE  IInv'
  <1> DEFINE i == leaving
  <1>1. /\ pc = "retire" /\ pc' = "judge" /\ leaving' = None
        /\ UNCHANGED <<session, op, active, pending, errs, acked, stopFault, readers, engine, quiet>>
    BY DEF RetireStop
  <1>2. PICK ok \in BOOLEAN :
          Call(i, i \in passed, "stop", TRUE, ok) /\ silenced' = IF ok THEN silenced \cup {i} ELSE silenced
    BY DEF RetireStop
  <1>3. i \in retired /\ i \in Participants /\ op # "play"
    BY <1>1, Parts DEF RetiredInv, SessionTyped, RunInv
  <1> HIDE DEF i
  <1>4. /\ continueHealthy' = continueHealthy /\ playing' = playing /\ vibrationOnly' = vibrationOnly
        /\ fault' = fault /\ retired' = retired /\ faultStopped' = faultStopped /\ run' = run /\ only' = only
        /\ runs' = runs /\ owedFault' = owedFault /\ op' = op /\ active' = active /\ pending' = pending
        /\ errs' = errs /\ acked' = acked /\ stopFault' = stopFault /\ quiet' = quiet
    BY <1>1 DEF session, engine
  <1>5. /\ link' = link /\ failures' \in 0 .. MaxFailures /\ moving' \subseteq moving /\ strength' \subseteq strength
        /\ silenced' = silenced \/ silenced' = silenced \cup {i}
    <2>1. PICK f \in BOOLEAN, checked \in BOOLEAN : Call(i, checked, "stop", f, ok)
      <3>1. PICK f \in BOOLEAN : Call(i, i \in passed, "stop", f, ok)
        BY <1>2
      <3>2. QED
        BY <3>1, CommandCall
    <2>2. "stop" \in Stops /\ "stop" # "play"
      BY DEF Stops
    <2>3. /\ link' = link /\ failures' \in 0 .. MaxFailures
          /\ moving' \subseteq moving /\ strength' \subseteq strength
      BY <1>3, <2>1, <2>2, CallEffect
    <2>4. QED
      BY <1>2, <2>3
  <1>6. SessionTyped' /\ EngineTyped' /\ DevicesTyped' /\ HistoryTyped'
    BY <1>3, <1>4, <1>5, Parts DEF SessionTyped, EngineTyped, DevicesTyped, HistoryTyped
  <1>7. CommandTyped'
    BY <1>1, <1>4, Parts DEF CommandTyped
  <1>8. ReadersTyped' /\ RetiredInv'
    BY <1>1, <1>3, <1>4, <1>5, ReadersWait, Parts DEF RetiredInv
  <1>9. RunInv' /\ HealthyInv'
    BY <1>1, <1>4, Parts DEF RunInv, HealthyInv, SomeoneHealthy
  <1>10. SnapshotInv' /\ AnsweredInv'
    BY <1>1, <1>3, <1>4 DEF SnapshotInv, AnsweredInv, Starting
  <1>11. StoppedMeansStill'
    BY <1>4, <1>5, Parts DEF StoppedMeansStill, Live
  <1>12. QED
    BY <1>6, <1>7, <1>8, <1>9, <1>10, <1>11 DEF IInv, Typed

(* A Stop begins, the engine's own or that of a failed command.            *)
LEMMA StopKeeps ==
  ASSUME IInv, Stop \/ FailedStop
  PROVE  IInv'
  <1>1. /\ playing' = FALSE /\ vibrationOnly' = FALSE /\ pending' = Participants /\ errs' = {} /\ pc' = "stopping"
        /\ UNCHANGED <<continueHealthy, fault, retired, faultStopped, active, acked, leaving,
                       readers, engine, devices, history>>
    BY DEF Stop, FailedStop, StopSection, StopSet
  <1>2. stopFault' \in BOOLEAN
    BY Parts DEF Stop, FailedStop, StopSection, EngineTyped, SessionTyped
  <1>3. op' \in {"stop", "startupStop", "points", "scalar", "play"} /\ (run = "none" => op' = op)
    BY Parts DEF Stop, FailedStop, RunInv, CommandTyped
  <1>4. op' # "none" /\ run # "none"
    BY <1>3, Parts DEF Stop, FailedStop, RunInv
  <1>5. /\ continueHealthy' = continueHealthy /\ fault' = fault /\ retired' = retired /\ faultStopped' = faultStopped
        /\ active' = active /\ acked' = acked /\ leaving' = leaving /\ run' = run /\ only' = only /\ runs' = runs
        /\ owedFault' = owedFault /\ quiet' = quiet /\ silenced' = silenced
    BY <1>1 DEF engine, history
  <1>6. SessionTyped' /\ CommandTyped' /\ EngineTyped'
    BY <1>1, <1>2, <1>3, <1>5, Parts DEF SessionTyped, CommandTyped, EngineTyped
  <1>7. RunInv' /\ SnapshotInv' /\ HealthyInv'
    BY <1>1, <1>4, <1>5 DEF RunInv, SnapshotInv, HealthyInv, Starting
  <1>8. AnsweredInv'
    BY <1>1 DEF AnsweredInv, Live
  <1>9. /\ UNCHANGED <<continueHealthy, faultStopped, readers, devices, silenced>>
        /\ quiet' \in {quiet, "no"} /\ retired' \in SUBSET Participants
        /\ retired \subseteq retired' /\ pc' # "retire"
    BY <1>1, <1>5, Parts DEF SessionTyped
  <1>10. QED
    BY <1>6, <1>7, <1>8, <1>9, BeginKeeps

(* A failed command latches its fault.                                     *)
LEMMA FailedLatchKeeps ==
  ASSUME IInv, FailedLatch
  PROVE  IInv'
  <1>1. /\ fault' = TRUE
        /\ UNCHANGED <<continueHealthy, playing, vibrationOnly, retired, faultStopped, command,
                       readers, engine, devices, history>>
    BY DEF FailedLatch
  <1>2. /\ op' = op /\ pc' = pc /\ active' = active /\ pending' = pending /\ errs' = errs /\ acked' = acked
        /\ stopFault' = stopFault /\ leaving' = leaving /\ run' = run /\ only' = only /\ runs' = runs
        /\ owedFault' = owedFault /\ quiet' = quiet /\ silenced' = silenced
        /\ link' = link /\ moving' = moving /\ strength' = strength
        /\ continueHealthy' = continueHealthy /\ playing' = playing /\ vibrationOnly' = vibrationOnly
        /\ retired' = retired /\ faultStopped' = faultStopped
    BY <1>1 DEF command, engine, history, devices
  <1>3. SessionTyped' /\ CommandTyped' /\ EngineTyped'
    BY <1>1, <1>2, Parts DEF SessionTyped, CommandTyped, EngineTyped
  <1>4. RunInv' /\ HealthyInv'
    BY <1>2, Parts DEF RunInv, HealthyInv, SomeoneHealthy
  <1>5. SnapshotInv' /\ AnsweredInv'
    BY <1>2, Parts DEF SnapshotInv, AnsweredInv, Starting, Live
  <1>6. /\ UNCHANGED <<continueHealthy, faultStopped, readers, devices, silenced>>
        /\ quiet' \in {quiet, "no"} /\ retired' \in SUBSET Participants
        /\ retired \subseteq retired' /\ (pc' = "retire" => leaving' \in retired')
    BY <1>1, <1>2, Parts DEF SessionTyped, RetiredInv
  <1>7. QED
    BY <1>3, <1>4, <1>5, <1>6, BeginKeeps
-----------------------------------------------------------------------------
LEMMA InitEstablishes == Init => IInv
  <1> SUFFICES ASSUME Init PROVE IInv
    OBVIOUS
  <1>1. N \in Nat /\ MaxRuns \in Nat /\ MaxFailures \in Nat /\ 0 \in 0 .. MaxRuns /\ 0 \in 0 .. MaxFailures
    BY FanOutAssumption
  <1>2. SessionTyped /\ CommandTyped /\ EngineTyped /\ DevicesTyped /\ HistoryTyped
    BY <1>1 DEF Init, SessionTyped, CommandTyped, EngineTyped, DevicesTyped, HistoryTyped
  <1>3. ReadersTyped
    <2>1. <<>> \in Seq(States) /\ Len(<<>>) <= N
      BY <1>1
    <2>2. QED
      BY <1>1, <2>1 DEF Init, ReadersTyped
  <1>4. RunInv /\ SnapshotInv /\ RetiredInv /\ AnsweredInv /\ HealthyInv
    BY DEF Init, RunInv, SnapshotInv, RetiredInv, AnsweredInv, HealthyInv, Starting
  <1>5. StoppedMeansStill
    BY DEF Init, StoppedMeansStill
  <1>6. QED
    BY <1>2, <1>3, <1>4, <1>5 DEF IInv, Typed

LEMMA StutterKeeps ==
  ASSUME IInv, UNCHANGED vars
  PROVE  IInv'
  <1>1. UNCHANGED <<session, readers, engine, devices, command, history>>
    BY DEF vars
  <1>2. /\ op' = op /\ pc' = pc /\ active' = active /\ pending' = pending /\ errs' = errs /\ acked' = acked
        /\ stopFault' = stopFault /\ leaving' = leaving /\ run' = run /\ only' = only /\ runs' = runs
        /\ owedFault' = owedFault /\ quiet' = quiet /\ silenced' = silenced
        /\ link' = link /\ moving' = moving /\ strength' = strength
        /\ continueHealthy' = continueHealthy /\ playing' = playing /\ vibrationOnly' = vibrationOnly
        /\ fault' = fault /\ faultStopped' = faultStopped /\ retired' = retired
    BY <1>1 DEF session, command, engine, history, devices
  <1>3. SessionTyped' /\ CommandTyped' /\ EngineTyped'
    BY <1>2, Parts DEF SessionTyped, CommandTyped, EngineTyped
  <1>4. RunInv' /\ SnapshotInv' /\ AnsweredInv' /\ HealthyInv'
    BY <1>2, Parts DEF RunInv, HealthyInv, SomeoneHealthy, SnapshotInv, AnsweredInv, Starting, Live
  <1>5. /\ UNCHANGED <<continueHealthy, faultStopped, readers, devices, silenced>>
        /\ quiet' \in {quiet, "no"} /\ retired' \in SUBSET Participants
        /\ retired \subseteq retired' /\ (pc' = "retire" => leaving' \in retired')
    BY <1>1, <1>2, Parts DEF SessionTyped, RetiredInv
  <1>6. QED
    BY <1>3, <1>4, <1>5, BeginKeeps

LEMMA NextKeeps == IInv /\ [Next]_vars => IInv'
  <1> SUFFICES ASSUME IInv, [Next]_vars PROVE IInv'
    OBVIOUS
  <1>1. CASE Command
    <2>1. CASE RefusedByFault
      BY <2>1, EndingKeeps
    <2>2. CASE \E o \in Sends : Dispatch(o)
      BY <2>2, DispatchKeeps
    <2>3. CASE Play
      BY <2>3, PlayKeeps
    <2>4. CASE PlayClock
      BY <2>4, PlayClockKeeps
    <2>5. CASE NoClock \/ JudgeCancelled
      BY <2>5, FailureKeeps
    <2>6. CASE \E p \in Participants : Send(p)
      BY <2>6, SendKeeps
    <2>7. CASE Judge
      BY <2>7, JudgeKeeps
    <2>8. CASE RetireStop
      BY <2>8, RetireStopKeeps
    <2>9. CASE Judged
      BY <2>9, JudgedKeeps
    <2>10. CASE Stop \/ FailedStop
      BY <2>10, StopKeeps
    <2>11. CASE FailedLatch
      BY <2>11, FailedLatchKeeps
    <2>12. CASE StopJoin
      BY <2>12, StopJoinKeeps
    <2>13. CASE \E p \in Participants : StopSend(p)
      BY <2>13, StopSendKeeps
    <2>14. QED
      BY <1>1, <2>1, <2>2, <2>3, <2>4, <2>5, <2>6, <2>7, <2>8, <2>9, <2>10, <2>11, <2>12, <2>13 DEF Command
  <1>2. CASE \E r \in Readers : Reader(r)
    BY <1>2, ReadingKeeps, RetireLostKeeps, LostKeeps, SummaryKeeps DEF Reader
  <1>3. CASE StartRun
    BY <1>3, StartRunKeeps
  <1>4. CASE CancelRun \/ ReadMotionStartupStateFails
    BY <1>4, EndingKeeps
  <1>5. CASE \E p \in Participants : Lose(p) \/ Replace(p) \/ Starve(p)
    BY <1>5, DeviceKeeps
  <1>6. CASE UNCHANGED vars
    BY <1>6, StutterKeeps
  <1>7. QED
    BY <1>1, <1>2, <1>3, <1>4, <1>5, <1>6 DEF Next

LEMMA InvariantHolds == Spec => []IInv
  BY InitEstablishes, NextKeeps, PTL DEF Spec

-----------------------------------------------------------------------------
(* A call of the command is answered: what it still has to call are the    *)
(* others.                                                                 *)
LEMMA AnswerFences ==
  ASSUME IInv, FenceInv, NEW p, passed' = passed \ {p}, UNCHANGED <<former, link>>,
         \/ pc = "clock" /\ pending # {} /\ p = Min(pending) /\ pc' \in {"send", "judge"}
         \/ pc = "retire" /\ p = leaving /\ pc' = "judge"
         \/ /\ pc \in {"send", "stopping"} /\ pending' = pending \ {p}
            /\ pc' = pc \/ (pc' = "judge" /\ pending' = {})
  PROVE  FenceInv'
  <1>1. passed' \subseteq Calling'
    <2>1. CASE pc = "clock" /\ pending # {} /\ p = Min(pending)
      BY <2>1 DEF FenceInv, Calling
    <2>2. CASE pc = "retire" /\ p = leaving
      BY <2>2 DEF FenceInv, Calling
    <2>3. CASE /\ pc \in {"send", "stopping"} /\ pending' = pending \ {p}
               /\ pc' = pc \/ (pc' = "judge" /\ pending' = {})
      <3>1. passed' \subseteq pending'
        BY <2>3 DEF FenceInv, Calling
      <3>2. CASE pc' = pc
        BY <2>3, <3>1, <3>2 DEF Calling
      <3>3. CASE pending' = {}
        BY <3>1, <3>3
      <3>4. QED
        BY <2>3, <3>2, <3>3
    <2>4. QED
      BY <2>1, <2>2, <2>3
  <1>2. QED
    BY <1>1 DEF FenceInv

(* A step that leaves the fence of the leases alone, or after which the    *)
(* command calls nobody.                                                   *)
LEMMA IdleFences ==
  ASSUME FenceInv, UNCHANGED <<former, link>>,
         passed' = {} \/ (passed' = passed /\ Calling \subseteq Calling')
  PROVE  FenceInv'
  BY DEF FenceInv

(* A command that begins, errs or joins has no call in flight.             *)
LEMMA CommandFences ==
  ASSUME IInv, FenceInv, Command
  PROVE  FenceInv'
  <1>1. CASE RefusedByFault \/ (\E o \in Sends : Dispatch(o)) \/ Play \/ NoClock \/ JudgeCancelled \/ Judge
             \/ Judged \/ Stop \/ FailedLatch \/ FailedStop \/ StopJoin
    <2>1. UNCHANGED <<former, link>> /\ passed' \in {passed, {}}
      BY <1>1 DEF RefusedByFault, Dispatch, Play, NoClock, JudgeCancelled, Judge, Judged, Stop, FailedLatch,
         FailedStop, StopJoin, Return, command, devices, history
    <2>2. pc \in {"idle", "judge", "latch"} \/ (pc = "clock" /\ pending = {}) \/ passed' = {}
      BY <1>1, Parts DEF RefusedByFault, Dispatch, Play, NoClock, JudgeCancelled, Judge, Judged, Stop, FailedLatch,
         FailedStop, StopJoin, Return, MayCommand, RunInv
    <2>3. passed' = {}
      BY <2>1, <2>2 DEF FenceInv, Calling
    <2>4. QED
      BY <2>1, <2>3, IdleFences
  <1>2. CASE PlayClock
    <2>1. /\ pc = "clock" /\ pending # {} /\ passed' = passed \ {Min(pending)} /\ former' = former /\ link' = link
          /\ pc' \in {"send", "judge"}
      BY <1>2 DEF PlayClock, Call, Waits, history
    <2>2. QED
      BY <2>1, AnswerFences
  <1>3. ASSUME NEW p \in Participants, Send(p) PROVE FenceInv'
    <2>1. /\ pc = "send" /\ passed' = passed \ {p} /\ former' = former /\ link' = link /\ pending' = pending \ {p}
          /\ pc' = pc \/ (pc' = "judge" /\ pending' = {})
      BY <1>3 DEF Send, Call, Waits, history
    <2>2. QED
      BY <2>1, AnswerFences
  <1>4. CASE RetireStop
    <2>1. pc = "retire" /\ passed' = passed \ {leaving} /\ former' = former /\ link' = link /\ pc' = "judge"
      BY <1>4 DEF RetireStop, Call
    <2>2. QED
      BY <2>1, AnswerFences
  <1>5. ASSUME NEW p \in Participants, StopSend(p) PROVE FenceInv'
    <2>1. /\ pc = "stopping" /\ passed' = passed \ {p} /\ former' = former /\ link' = link
          /\ pending' = pending \ {p} /\ pc' = pc
      BY <1>5 DEF StopSend, Call, history
    <2>2. QED
      BY <2>1, AnswerFences
  <1>6. QED
    BY <1>1, <1>2, <1>3, <1>4, <1>5 DEF Command

(* A connection is replaced: the calls on it that have passed their check  *)
(* are calls of the command in flight, on a device that was only lost when *)
(* the run began.                                                          *)
LEMMA ReplaceFences ==
  ASSUME IInv, FenceInv, NEW p \in Participants, Replace(p)
  PROVE  FenceInv'
  <1>1. /\ link[p] = "lost" /\ link' = [link EXCEPT ![p] = "replaced"]
        /\ passed' \subseteq passed \cup ({p} \cap Calling)
        /\ pc' = pc /\ pending' = pending /\ leaving' = leaving /\ former' = former
    BY DEF Replace, history
  <1>2. Calling' = Calling
    BY <1>1 DEF Calling
  <1>3. p \notin former
    BY <1>1 DEF FenceInv
  <1>4. \A q \in former' : link'[q] = "replaced"
    BY <1>1, Parts DEF FenceInv, DevicesTyped
  <1>5. QED
    BY <1>1, <1>2, <1>3, <1>4 DEF FenceInv

LEMMA NextFences == IInv /\ FenceInv /\ [Next]_vars => FenceInv'
  <1> SUFFICES ASSUME IInv, FenceInv, [Next]_vars PROVE FenceInv'
    OBVIOUS
  <1>1. CASE Command
    BY <1>1, CommandFences
  <1>2. CASE (\E r \in Readers : Reader(r)) \/ CancelRun \/ ReadMotionStartupStateFails
             \/ (\E p \in Participants : Starve(p)) \/ UNCHANGED vars
    <2>1. UNCHANGED <<former, link, passed, pc, pending, leaving>>
      BY <1>2 DEF Reader, Diagnostics, SampleNext, SnapshotRun, RetireLost, LatchLost, StopLost, Call, Summary,
         CancelRun, ReadMotionStartupStateFails, Starve, vars, command, devices, history
    <2>2. Calling' = Calling
      BY <2>1 DEF Calling
    <2>3. QED
      BY <2>1, <2>2, IdleFences
  <1>3. CASE StartRun
    <2>1. /\ run = "none" /\ former' = {p \in Participants : link[p] = "replaced"} /\ link' = link
          /\ passed' = passed
      BY <1>3 DEF StartRun, command, devices
    <2>2. pc = "idle"
      BY <2>1, Parts DEF RunInv
    <2>3. passed = {}
      BY <2>2 DEF FenceInv, Calling
    <2>4. QED
      BY <2>1, <2>3 DEF FenceInv
  <1>4. ASSUME NEW p \in Participants, Lose(p) PROVE FenceInv'
    <2>1. /\ link[p] = "live" /\ link' = [link EXCEPT ![p] = "lost"]
          /\ UNCHANGED <<former, passed, pc, pending, leaving>>
      BY <1>4 DEF Lose, command, history
    <2>2. Calling' = Calling
      BY <2>1 DEF Calling
    <2>3. \A q \in former' : link'[q] = "replaced"
      BY <2>1, Parts DEF FenceInv, DevicesTyped
    <2>4. QED
      BY <2>1, <2>2, <2>3 DEF FenceInv
  <1>5. ASSUME NEW p \in Participants, Replace(p) PROVE FenceInv'
    BY <1>5, ReplaceFences
  <1>6. QED
    BY <1>1, <1>2, <1>3, <1>4, <1>5 DEF Next

LEMMA FenceHolds == Spec => []FenceInv
  <1>1. Init => FenceInv
    BY DEF Init, FenceInv
  <1>2. QED
    BY <1>1, NextFences, InvariantHolds, PTL DEF Spec

(* Only a Play sets a device in motion or gives it strength, one of its    *)
(* snapshot, through a lease that it has checked.                          *)
LEMMA OnlyPlayBegins ==
  ASSUME IInv, Next
  PROVE  \/ Begun = {}
         \/ /\ Starting
            /\ \E p \in active : Begun \subseteq {p} /\ (p \in passed \/ Valid(p))
  <1>1. CASE PlayClock
    <2> DEFINE i == Min(pending)
    <2>1. pc = "clock" /\ pending # {} /\ \E ok \in BOOLEAN : Call(i, i \in passed, "play", FALSE, ok)
      BY <1>1 DEF PlayClock
    <2>2. i \in pending /\ i \in Participants
      BY <2>1, FirstOf, Parts DEF CommandTyped
    <2> HIDE DEF i
    <2>3. Starting /\ i \in active
      BY <2>1, <2>2, Parts DEF RunInv, SnapshotInv, Starting
    <2>4. PICK ok \in BOOLEAN, f \in BOOLEAN, checked \in BOOLEAN :
            (checked => i \in passed) /\ Call(i, checked, "play", f, ok)
      <3>1. PICK ok \in BOOLEAN, f \in BOOLEAN : Call(i, i \in passed, "play", f, ok)
        BY <2>1
      <3>2. QED
        BY <3>1, CommandCall
    <2>5. /\ moving' \subseteq moving \cup {i} /\ strength' \subseteq strength \cup {i}
          /\ (moving' = moving /\ strength' = strength) \/ checked \/ Valid(i)
      BY <2>4 DEF Call, Owner, Reaches
    <2>6. Begun \subseteq {i} /\ (i \in Begun => i \in passed \/ Valid(i))
      BY <2>4, <2>5 DEF Begun
    <2>7. QED
      BY <2>3, <2>6
  <1>2. ASSUME NEW p \in Participants, Send(p)
        PROVE  Begun = {} \/ (Starting /\ p \in active /\ Begun \subseteq {p} /\ (p \in passed \/ Valid(p)))
    <2> DEFINE method == op
    <2>1. pc = "send" /\ p \in pending /\ \E ok \in BOOLEAN : Call(p, p \in passed, method, FALSE, ok)
      BY <1>2 DEF Send
    <2>2. op = "play" => Starting /\ p \in active
      BY <2>1, Parts DEF SnapshotInv, Starting
    <2>3. method = op
      OBVIOUS
    <2> HIDE DEF method
    <2>4. PICK ok \in BOOLEAN, f \in BOOLEAN, checked \in BOOLEAN :
            (checked => p \in passed) /\ Call(p, checked, method, f, ok)
      <3>1. PICK ok \in BOOLEAN, f \in BOOLEAN : Call(p, p \in passed, method, f, ok)
        BY <2>1
      <3>2. QED
        BY <3>1, CommandCall
    <2>5. /\ moving' \subseteq moving \cup {p} /\ strength' \subseteq strength \cup {p}
          /\ method # "play" => moving' \subseteq moving /\ strength' \subseteq strength
          /\ (moving' = moving /\ strength' = strength) \/ checked \/ Valid(p)
      BY <2>4 DEF Call, Owner, Reaches, Stops
    <2>6. Begun \subseteq {p} /\ (p \in Begun => p \in passed \/ Valid(p)) /\ (method # "play" => Begun = {})
      BY <2>4, <2>5 DEF Begun
    <2>7. QED
      BY <2>2, <2>3, <2>6
  <1>3. ASSUME NEW p \in Participants, StopSend(p) PROVE Begun = {}
    <2>1. PICK method \in Stops : \E ok \in BOOLEAN : Call(p, p \in passed, method, stopFault, ok)
      BY <1>3 DEF StopSend, Stops
    <2>2. moving' \subseteq moving /\ strength' \subseteq strength
      BY <2>1 DEF Call, Owner, Reaches, Stops
    <2>3. QED
      BY <2>2 DEF Begun
  <1>4. CASE RetireStop \/ (\E r \in Readers : StopLost(r))
    <2>1. moving' \subseteq moving /\ strength' \subseteq strength
      BY <1>4 DEF RetireStop, StopLost, Call, Owner, Reaches, Stops
    <2>2. QED
      BY <2>1 DEF Begun
  <1>5. CASE RefusedByFault \/ (\E o \in Sends : Dispatch(o)) \/ Play \/ NoClock \/ JudgeCancelled \/ Judge
             \/ Judged \/ Stop \/ FailedLatch \/ FailedStop \/ StopJoin
             \/ StartRun \/ CancelRun \/ ReadMotionStartupStateFails
    <2>1. moving' = moving /\ strength' = strength
      BY <1>5 DEF RefusedByFault, Dispatch, Play, NoClock, JudgeCancelled, Judge, Judged, Stop, FailedLatch,
         FailedStop, StopJoin, StartRun, CancelRun, ReadMotionStartupStateFails, devices
    <2>2. QED
      BY <2>1 DEF Begun
  <1>6. ASSUME NEW r \in Readers, Reader(r), ~StopLost(r) PROVE Begun = {}
    <2>1. moving' = moving /\ strength' = strength
      BY <1>6 DEF Reader, Diagnostics, SampleNext, SnapshotRun, RetireLost, LatchLost, Summary, devices
    <2>2. QED
      BY <2>1 DEF Begun
  <1>7. ASSUME NEW p \in Participants, Lose(p) \/ Replace(p) \/ Starve(p) PROVE Begun = {}
    <2>1. moving' \subseteq moving /\ strength' \subseteq strength
      BY <1>7 DEF Lose, Replace, Starve
    <2>2. QED
      BY <2>1 DEF Begun
  <1>8. CASE Command
    BY <1>1, <1>2, <1>3, <1>4, <1>5, <1>8 DEF Command
  <1>9. QED
    BY <1>4, <1>5, <1>6, <1>7, <1>8 DEF Next

-----------------------------------------------------------------------------
(* Every variable of the session, of its command and of its readers keeps  *)
(* its type: a Diagnostics call reads no more states than there are        *)
(* participants (FanOut.Diagnostics).                                      *)
THEOREM FanOutTypeCorrect == Spec => []TypeOK
  <1>1. IInv /\ FenceInv => TypeOK
    <2> SUFFICES ASSUME IInv, FenceInv PROVE TypeOK
      OBVIOUS
    <2>1. {continueHealthy, playing, vibrationOnly, fault, faultStopped,
           stopFault, only, owedFault} \subseteq BOOLEAN
      BY Parts DEF SessionTyped, CommandTyped, EngineTyped
    <2>2. {retired, active, pending, passed, errs, acked, moving, strength, silenced, former}
             \subseteq SUBSET Participants
      BY Parts DEF SessionTyped, CommandTyped, DevicesTyped, HistoryTyped, FenceInv
    <2>3. QED
      BY <2>1, <2>2, Parts DEF TypeOK, CommandTyped, ReadersTyped, EngineTyped, DevicesTyped, HistoryTyped
  <1>2. QED
    BY <1>1, InvariantHolds, FenceHolds, PTL

(* After a Stop of the session that succeeded no connected device moves    *)
(* until the next Play, and with Fault none has strength: also one that    *)
(* was retired and whose own Stop failed (FanOut.Stop calls every          *)
(* participant, the retired included), and whatever Diagnostics does.      *)
THEOREM StopLeavesStill == Spec => []StoppedMeansStill
  <1>1. IInv => StoppedMeansStill
    BY Parts
  <1>2. QED
    BY <1>1, InvariantHolds, PTL

(* A participant that was retired and has acknowledged its Stop is never   *)
(* set in motion again: Play's snapshot leaves it out, and retire does     *)
(* nothing before the session plays (FanOut.retire asks for f.playing).    *)
THEOREM RetiredStaysStill == Spec => NoHotJoin
  <1>1. IInv /\ [Next]_vars => [Begun \cap silenced = {}]_vars
    <2> SUFFICES ASSUME IInv, Next PROVE Begun \cap silenced = {}
      OBVIOUS
    <2>1. Starting => active \cap silenced = {}
      BY Parts DEF SnapshotInv, RetiredInv
    <2>2. QED
      BY <2>1, OnlyPlayBegins
  <1>2. QED
    BY <1>1, InvariantHolds, PTL DEF Spec, NoHotJoin

(* No run reaches a device that was connected again before it began: the   *)
(* lease of the old connection refuses the calls of the run, and those     *)
(* that had passed its check before (leasedTransport) have returned, since *)
(* a command waits for all its calls (FanOut.AppendPoints, Play, Stop).    *)
THEOREM ReplacedStaysStill == Spec => OldWorkIsFenced
  <1>1. IInv /\ FenceInv /\ [Next]_vars => [Begun \cap former = {}]_vars
    <2> SUFFICES ASSUME IInv, FenceInv, Next PROVE Begun \cap former = {}
      OBVIOUS
    <2>1. \A p : p \in passed \/ Valid(p) => p \notin former
      BY DEF FenceInv, Valid
    <2>2. QED
      BY <2>1, OnlyPlayBegins
  <1>2. QED
    BY <1>1, InvariantHolds, FenceHolds, PTL DEF Spec, OldWorkIsFenced

(* An established run keeps a participant that can play it, whichever of   *)
(* the dispatch and the Diagnostics calls retires one (FanOut.retire       *)
(* counts the healthy others in the section that retires).                 *)
THEOREM RetireKeepsSomeone == Spec => []SomeoneHealthy
  <1>1. IInv => SomeoneHealthy
    BY Parts DEF HealthyInv, SomeoneHealthy
  <1>2. QED
    BY <1>1, InvariantHolds, PTL

(* The session plays only once each participant of Play's snapshot has     *)
(* started (FanOut.Play): one that failed fails the start, since nobody    *)
(* is retired before.                                                      *)
THEOREM PlayNeedsEveryone == Spec => StartNeedsEveryone
  <1>1. IInv /\ [Next]_vars => [~playing /\ playing' => acked = active]_vars
    <2> SUFFICES ASSUME IInv, Next, ~playing, playing' PROVE acked = active
      OBVIOUS
    <2>1. playing' # playing
      OBVIOUS
    <2>2. CASE Judged
      <3>1. op = "play" /\ pc = "judge" /\ errs = {}
        BY <2>1, <2>2 DEF Judged
      <3>2. QED
        BY <3>1, Parts DEF SnapshotInv, Starting
    <2>3. CASE Command /\ ~Judged
      BY <2>1, <2>3 DEF Command, RefusedByFault, Dispatch, Play, PlayClock, NoClock, Send, JudgeCancelled, Judge,
         RetireStop, Stop, StopSection, FailedLatch, FailedStop, StopSend, StopJoin, session
    <2>4. CASE \E r \in Readers : Reader(r)
      BY <2>1, <2>4 DEF Reader, Diagnostics, SampleNext, SnapshotRun, RetireLost, LatchLost, StopLost, Summary, session
    <2>5. CASE StartRun \/ CancelRun \/ ReadMotionStartupStateFails
               \/ \E p \in Participants : Lose(p) \/ Replace(p) \/ Starve(p)
      BY <2>1, <2>5 DEF StartRun, CancelRun, ReadMotionStartupStateFails, Lose, Replace, Starve, session
    <2>6. QED
      BY <2>2, <2>3, <2>4, <2>5 DEF Next
  <1>2. QED
    BY <1>1, InvariantHolds, PTL DEF Spec, StartNeedsEveryone

=============================================================================
