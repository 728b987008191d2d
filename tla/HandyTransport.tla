--------------------------- MODULE HandyTransport ---------------------------
(***************************************************************************)
(* One Handy connection: the Cloud REST transport or the Bluetooth         *)
(* transport, and the motionCommandGate both share.  Every exported method *)
(* runs on a caller's goroutine.  A mutating command is admitted by the    *)
(* gate, waits for hspMu, is validated again and only then dispatched; a   *)
(* Stop raises the gate first and then waits for hspMu.  The gate's two    *)
(* counters are separate atomics, so every load and every add is a step    *)
(* of its own.                                                             *)
(*                                                                         *)
(* The device end of the connection is external: a request may reach it    *)
(* and be acknowledged, reach it and lose its acknowledgement, or be lost. *)
(***************************************************************************)
EXTENDS Integers, FiniteSets

CONSTANTS
  Callers,        \* goroutines that issue mutating commands and reads
  Stoppers,       \* goroutines that issue Stop
  Streams,        \* semantic stream identifiers of the engine's runs
  Nil,            \* no stream, no lock holder
  Cloud,          \* TRUE: CloudRESTTransport, FALSE: HandyBluetoothTransport
  MaxGeneration   \* bound on the number of Stops of a behaviour

ASSUME HandyAssumption ==
  /\ Callers \cap Stoppers = {}
  /\ IsFiniteSet(Stoppers)
  /\ Nil \notin Callers \cup Stoppers \cup Streams
  /\ Cloud \in BOOLEAN
  /\ MaxGeneration \in Nat

VARIABLES
  generation,     \* motionCommandGate.generation
  stops,          \* motionCommandGate.stops
  hspMu,          \* the goroutine that holds hspMu, or Nil
  activeStreamID, \* the stream the transport believes is set up
  started,        \* playbackStartedAt is not the zero time
  place,          \* where each goroutine stands
  op,             \* the method a caller is executing
  stream,         \* the StreamID argument of that method
  admission,      \* the generation the caller was admitted against
  retired,        \* Bluetooth: another connection has replaced this one
  playing,        \* external: the device executes a stream
  reached,        \* the request in flight reached the device
  overtaken,      \* history: the callers a delivered Stop has overtaken since admission
  quiet           \* history: a Stop reached the device and nothing was admitted since

handyVars == <<generation, stops, hspMu, activeStreamID, started, place, op, stream,
               admission, retired, playing, reached, overtaken, quiet>>

gate == <<generation, stops>>
args == <<op, stream, admission>>
wire == <<playing, reached>>
history == <<overtaken, quiet>>

Ops == {"stroke", "append", "play", "read"}

CallerPC == {"idle", "admit", "lock", "check", "compare", "setup", "setupReply",
             "recheck", "recompare", "send", "reply", "result"}
StopPC   == {"idle", "raise", "interrupt", "wait", "stop", "stopReply", "lower"}

(* The goroutines that have been admitted and have not returned.           *)
Admitted == {c \in Callers : place[c] \notin {"idle", "admit"}}

(* The Stops between beginStop's first step and the deferred endStop.      *)
InStop == {s \in Stoppers : place[s] # "idle"}

(* The Stops that have completed beginStop.                                *)
Raised == {s \in Stoppers : place[s] \notin {"idle", "raise"}}

HandyTypeOK ==
  /\ generation \in Nat
  /\ stops \in Int
  /\ hspMu \in Callers \cup Stoppers \cup {Nil}
  /\ activeStreamID \in Streams \cup {Nil}
  /\ started \in BOOLEAN
  /\ place \in [Callers \cup Stoppers -> CallerPC \cup StopPC]
  /\ \A c \in Callers : place[c] \in CallerPC
  /\ \A s \in Stoppers : place[s] \in StopPC
  /\ op \in [Callers -> Ops]
  /\ stream \in [Callers -> Streams \cup {Nil}]
  /\ admission \in [Callers -> Nat]
  /\ retired \in BOOLEAN
  /\ reached \in BOOLEAN
  /\ playing \in BOOLEAN
  /\ overtaken \subseteq Callers
  /\ quiet \in BOOLEAN

HandyInit ==
  /\ generation = 0
  /\ stops = 0
  /\ hspMu = Nil
  /\ activeStreamID = Nil
  /\ started = FALSE
  /\ place = [g \in Callers \cup Stoppers |-> "idle"]
  /\ op = [c \in Callers |-> "read"]
  /\ stream = [c \in Callers |-> Nil]
  /\ admission = [c \in Callers |-> 0]
  /\ retired = FALSE
  /\ reached = FALSE
  /\ playing = FALSE
  /\ overtaken = {}
  /\ quiet = FALSE

Goto(g, from, to) == place[g] = from /\ place' = [place EXCEPT ![g] = to]

(* Go unlocks hspMu in a defer, after the method's last statement.         *)
ReturnUnlocked(g, from) == Goto(g, from, "idle") /\ hspMu = g /\ hspMu' = Nil

-----------------------------------------------------------------------------
(* The gate: admit loads the generation, then tests for a Stop in          *)
(* progress.                                                               *)
AdmitLoad(c, m, s) ==
  /\ Goto(c, "idle", "admit")
  /\ m \in {"append", "play"} <=> s # Nil
  /\ m = "read" => Cloud
  /\ op' = [op EXCEPT ![c] = m]
  /\ stream' = [stream EXCEPT ![c] = s]
  /\ admission' = [admission EXCEPT ![c] = generation]
  /\ UNCHANGED <<gate, hspMu, activeStreamID, started, retired, wire, history>>

AdmitTest(c) ==
  /\ \/ stops > 0 /\ Goto(c, "admit", "idle") /\ UNCHANGED history
     \/ /\ stops <= 0
        /\ Goto(c, "admit", "lock")
        /\ overtaken' = overtaken \ {c}
        /\ quiet' = FALSE
  /\ UNCHANGED <<gate, hspMu, activeStreamID, started, args, retired, wire>>

(* Mutant: a command waits for the Stop to end instead of being rejected.  *)
ValidateStopsSpins(c, from, to) ==
  /\ Goto(c, from, IF stops > 0 THEN from ELSE to)
  /\ UNCHANGED <<gate, hspMu, activeStreamID, started, args, retired, wire, history>>

(* validate tests the Stops, then compares the generation; a failed check  *)
(* returns through the deferred unlock.                                    *)
ValidateStops(c, from, to) ==
  /\ IF stops > 0 THEN ReturnUnlocked(c, from)
                  ELSE Goto(c, from, to) /\ UNCHANGED hspMu
  /\ UNCHANGED <<gate, activeStreamID, started, args, retired, wire, history>>

(* Mutant: the generation is not compared.                                 *)
ValidateGenerationAlways(c, from, to) ==
  /\ Goto(c, from, to)
  /\ UNCHANGED <<gate, hspMu, activeStreamID, started, args, retired, wire, history>>

ValidateGeneration(c, from, to) ==
  /\ IF generation # admission[c] THEN ReturnUnlocked(c, from)
                                  ELSE Goto(c, from, to) /\ UNCHANGED hspMu
  /\ UNCHANGED <<gate, activeStreamID, started, args, retired, wire, history>>

BeginStopRaise(s) ==
  /\ ~retired
  /\ generation < MaxGeneration
  /\ Goto(s, "idle", "raise")
  /\ stops' = stops + 1
  /\ UNCHANGED <<generation, hspMu, activeStreamID, started, args, retired, wire, history>>

BeginStopAdvance(s) ==
  /\ Goto(s, "raise", "interrupt")
  /\ generation' = generation + 1
  /\ UNCHANGED <<stops, hspMu, activeStreamID, started, args, retired, wire, history>>

EndStop(s) ==
  /\ Goto(s, "lower", "idle")
  /\ stops' = stops - 1
  /\ UNCHANGED <<generation, hspMu, activeStreamID, started, args, retired, wire, history>>

-----------------------------------------------------------------------------
LockHsp(c) ==
  /\ hspMu = Nil
  /\ hspMu' = c
  /\ Goto(c, "lock", "check")
  /\ UNCHANGED <<gate, activeStreamID, started, args, retired, wire, history>>

(* The code between the first successful validate and the next dispatch    *)
(* or validate: Cloud's AppendPoints sets up a stream it does not hold and *)
(* validates again, Cloud's playAt refreshes the server clock and          *)
(* validates again.  Everything else is dispatched at once.                *)
AfterFirstValidate(c) ==
  CASE Cloud /\ op[c] = "append" /\ stream[c] # activeStreamID -> "setup"
    [] Cloud /\ op[c] = "append" /\ stream[c] = activeStreamID -> "recheck"
    [] Cloud /\ op[c] = "play" -> "recheck"
    [] OTHER -> "send"

Validate(c) ==
  \/ ValidateStops(c, "check", "compare")
  \/ ValidateGeneration(c, "compare", AfterFirstValidate(c))

(* A malformed command is refused before anything is sent.                 *)
BuildError(c) ==
  /\ op[c] # "read"
  /\ ReturnUnlocked(c, "compare")
  /\ UNCHANGED <<gate, activeStreamID, started, args, retired, wire, history>>

(* A read that both endpoints answered is validated before it is returned. *)
Revalidate(c) ==
  \/ ValidateStops(c, "recheck", "recompare")
  \/ ValidateGeneration(c, "recompare", IF op[c] = "read" THEN "result" ELSE "send")

(* Whether the device moves after a request that reaches it.               *)
MovesAfter(request) ==
  CASE request = "setup" -> FALSE
    [] request = "play"  -> TRUE
    [] OTHER             -> playing

(* A request is lost or reaches the device before its dispatch returns; a  *)
(* retired connection carries nothing to the device.                       *)
Deliver(c, request) ==
  \/ ~retired /\ reached' = TRUE /\ playing' = MovesAfter(request)
  \/ reached' = FALSE /\ UNCHANGED playing

(* The setup's dispatch: its failure returns before the add.               *)
CloudSetup(c) ==
  /\ Goto(c, "setup", "setupReply")
  /\ Deliver(c, "setup")
  /\ UNCHANGED <<gate, hspMu, activeStreamID, started, args, retired, history>>

CloudSetupReply(c, ok) ==
  /\ ok => reached
  /\ IF ok
     THEN /\ Goto(c, "setupReply", "recheck")
          /\ activeStreamID' = stream[c]
          /\ started' = FALSE
          /\ UNCHANGED hspMu
     ELSE /\ ReturnUnlocked(c, "setupReply")
          /\ UNCHANGED <<activeStreamID, started>>
  /\ UNCHANGED <<gate, args, retired, wire, history>>

Send(c) ==
  /\ Goto(c, "send", "reply")
  /\ Deliver(c, op[c])
  /\ UNCHANGED <<gate, hspMu, activeStreamID, started, args, retired, history>>

(* The reply of a mutating command; only playAt records a playback origin, *)
(* and drops it on a failure.                                              *)
CloudReply(c, ok) ==
  /\ Cloud /\ op[c] # "read"
  /\ ok => reached
  /\ ReturnUnlocked(c, "reply")
  /\ started' = IF op[c] = "play" THEN ok ELSE started
  /\ UNCHANGED <<gate, activeStreamID, args, retired, wire, history>>

ReadReply(c, ok) ==
  /\ op[c] = "read"
  /\ ok => reached
  /\ IF ok THEN Goto(c, "reply", "recheck") /\ UNCHANGED hspMu
           ELSE ReturnUnlocked(c, "reply")
  /\ UNCHANGED <<gate, activeStreamID, started, args, retired, wire, history>>

ReadResult(c) ==
  /\ ReturnUnlocked(c, "result")
  /\ UNCHANGED <<gate, activeStreamID, started, args, retired, wire, history>>

BluetoothReply(c, ok) ==
  /\ ~Cloud
  /\ ok => reached
  /\ ReturnUnlocked(c, "reply")
  /\ started' = IF op[c] = "play" THEN ok ELSE started
  /\ activeStreamID' = IF ok /\ op[c] \in {"append", "play"} THEN stream[c] ELSE activeStreamID
  /\ UNCHANGED <<gate, args, retired, wire, history>>

-----------------------------------------------------------------------------
(* Stop, after beginStop: Bluetooth interrupts its channel, which makes a  *)
(* request in flight return; then the Stop waits for hspMu, dispatches and *)
(* forgets the stream when the device acknowledged.                        *)
Interrupt(s) ==
  /\ Goto(s, "interrupt", "wait")
  /\ UNCHANGED <<gate, hspMu, activeStreamID, started, args, retired, wire, history>>

StopLock(s) ==
  /\ hspMu = Nil
  /\ hspMu' = s
  /\ Goto(s, "wait", "stop")
  /\ UNCHANGED <<gate, activeStreamID, started, args, retired, wire, history>>

(* Mutant: a Stop is taken for delivered when no playback is known.        *)
StopSendIfStarted(s) ==
  /\ Goto(s, "stop", "stopReply")
  /\ ~retired
  /\ reached' = TRUE
  /\ playing' = (playing /\ ~started)
  /\ overtaken' = overtaken \cup Admitted
  /\ quiet' = TRUE
  /\ UNCHANGED <<gate, hspMu, activeStreamID, started, args, retired>>

StopSend(s) ==
  /\ Goto(s, "stop", "stopReply")
  /\ \/ /\ ~retired
        /\ reached' = TRUE
        /\ playing' = FALSE
        /\ overtaken' = overtaken \cup Admitted
        /\ quiet' = TRUE
     \/ reached' = FALSE /\ UNCHANGED <<playing, history>>
  /\ UNCHANGED <<gate, hspMu, activeStreamID, started, args, retired>>

StopReply(s, ok) ==
  /\ ok => reached
  /\ Goto(s, "stopReply", "lower")
  /\ hspMu' = Nil
  /\ started' = FALSE
  /\ activeStreamID' = IF ok THEN Nil ELSE activeStreamID
  /\ UNCHANGED <<gate, args, retired, wire, history>>

(* Another Bluetooth connection takes the session: this transport's Stop   *)
(* now returns connection_retired at once.                                 *)
Retire ==
  /\ ~Cloud
  /\ retired' = TRUE
  /\ UNCHANGED <<gate, hspMu, activeStreamID, started, place, args, wire, history>>

-----------------------------------------------------------------------------
CallerStep(c) ==
  \/ \E m \in Ops, s \in Streams \cup {Nil} : AdmitLoad(c, m, s)
  \/ AdmitTest(c)
  \/ LockHsp(c)
  \/ Validate(c)
  \/ BuildError(c)
  \/ CloudSetup(c)
  \/ \E ok \in BOOLEAN : CloudSetupReply(c, ok)
  \/ Revalidate(c)
  \/ Send(c)
  \/ \E ok \in BOOLEAN : CloudReply(c, ok) \/ ReadReply(c, ok) \/ BluetoothReply(c, ok)
  \/ ReadResult(c)

StopperStep(s) ==
  \/ BeginStopRaise(s)
  \/ BeginStopAdvance(s)
  \/ Interrupt(s)
  \/ StopLock(s)
  \/ StopSend(s)
  \/ \E ok \in BOOLEAN : StopReply(s, ok)
  \/ EndStop(s)

HandyNext ==
  \/ \E c \in Callers : CallerStep(c)
  \/ \E s \in Stoppers : StopperStep(s)
  \/ Retire

HandySpec == HandyInit /\ [][HandyNext]_handyVars

-----------------------------------------------------------------------------
(* Every request a caller is about to put on the wire, or has in flight,   *)
(* is younger than every Stop that reached the device: the generation the  *)
(* command was admitted against is still the current one for the device.   *)
(* This is the contract of motion_gate.go: a command admitted before a     *)
(* concurrent Stop is rejected, even when it waited behind another call.   *)
DispatchIsFresh ==
  \A c \in Callers :
    place[c] \in {"setup", "setupReply", "send", "reply", "result"} => c \notin overtaken

(* The gate counts exactly the Stops in progress, so endStop's underflow   *)
(* panic is unreachable and the gate reopens when the last Stop has left.  *)
StopsCounted == stops = Cardinality(InStop)

(* After a Stop has reached the device, the device stays still until some  *)
(* command has been admitted after it, whatever was waiting for hspMu or   *)
(* between its admission and its dispatch when the Stop came.              *)
StopHolds == quiet => ~playing

(* The transport implements the fence that a Stop is to the device: the    *)
(* commands that may still take effect are the admitted ones that no       *)
(* delivered Stop has overtaken, although most of them still have to wait  *)
(* for hspMu and to be validated twice.                                    *)
Fence == INSTANCE DeviceFence WITH Commands <- Callers,
                                   admitted <- Admitted \ overtaken,
                                   moving <- playing

FenceSpec == Fence!Spec

(* A Stop always gets through: it leaves the transport however many        *)
(* commands and Stops compete for hspMu.                                   *)
StopReturns == \A s \in Stoppers : place[s] = "raise" ~> place[s] = "idle"

=============================================================================
