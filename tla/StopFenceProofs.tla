--------------------------- MODULE StopFenceProofs ---------------------------
(***************************************************************************)
(* The two fences by which a Stop outlives what was admitted before it:    *)
(* the motionCommandGate of a transport (HandyTransport), for any number   *)
(* of callers and Stops, and the generations and operations of the mode    *)
(* manager (ModeManager), for any number of requests and mode loops.       *)
(*                                                                         *)
(* The gate: a command is admitted on the generation it has loaded, and a  *)
(* Stop raises the gate before it waits for hspMu; so whatever a delivered *)
(* Stop has overtaken is older than the gate (AgeInv) and what holds hspMu *)
(* has been compared with it (HandyInv).  Hence the transport implements   *)
(* the fence of DeviceFence (FenceStep).                                   *)
(*                                                                         *)
(* The manager: what plays, or may be resumed, is not older than the last  *)
(* Stop of the engine (EngineInv), which is NoRevival.  This is inductive  *)
(* only together with what is on its way to the engine.  A start that is   *)
(* still admitted began after every Stop that is under way, a target that  *)
(* is bound to the run is not older than the Stop that ended the run       *)
(* before (ArrivalInv), and a loop's operation that nobody has revoked     *)
(* works in the current generation (WorkInv), because every section of     *)
(* Manager.mu that makes work stale revokes the operation in the same      *)
(* section (Orderly, Section, Steady).  A plan names one motion, so who    *)
(* has kept its number knows whose motion it replaces (PlanInv).  One loop *)
(* lives, and it is the installed one unless the holder of lifecycleMu     *)
(* waits for it (LoopInv); who holds a lock stands in the code the lock    *)
(* protects (PlaceInv).                                                    *)
(*                                                                         *)
(* The steps that do not touch the engine share RequestStep (a request),   *)
(* LifecycleStep (who starts and stops loops) and LoopSectionStep (a       *)
(* loop); the steps of the engine have a lemma each.                       *)
(***************************************************************************)
EXTENDS HandyTransport, ModeManager, FiniteSetTheorems, TLAPS

-----------------------------------------------------------------------------
(* The command gate of a transport.                                        *)

Holding == {"check", "compare", "setup", "setupReply", "recheck", "recompare",
            "send", "reply", "result"}

(* hspMu is held by the goroutine that stands behind its Lock.             *)
LockInv ==
  /\ \A c \in Callers : place[c] \in Holding => hspMu = c
  /\ \A s \in Stoppers : place[s] \in {"stop", "stopReply"} => hspMu = s

(* An admitted command is strictly older than every Stop that has raised   *)
(* the gate completely, and than every Stop that has reached the device.   *)
AgeInv ==
  \A c \in Admitted :
    /\ Raised # {} => admission[c] < generation
    /\ c \in overtaken => admission[c] < generation

LoadInv == \A c \in Callers : place[c] # "idle" => admission[c] <= generation

(* While nothing has been admitted since the last Stop, the device is      *)
(* still and everything in flight is older than that Stop.                 *)
QuietInv == quiet => ~playing /\ Admitted \subseteq overtaken

HandyInv ==
  /\ HandyTypeOK
  /\ StopsCounted
  /\ LockInv
  /\ LoadInv
  /\ AgeInv
  /\ DispatchIsFresh
  /\ QuietInv

-----------------------------------------------------------------------------
(* The Stops in progress are finitely many.                                *)
LEMMA InStopFinite == IsFiniteSet(InStop)
  <1>1. InStop \subseteq Stoppers
    BY DEF InStop
  <1>2. QED
    BY <1>1, HandyAssumption, FS_Subset

(* A gate that counts its Stops and reads zero has none in progress: what  *)
(* admit's second load is worth.                                           *)
LEMMA OpenGate ==
  ASSUME StopsCounted, stops <= 0
  PROVE  InStop = {} /\ Raised = {}
  <1>1. Cardinality(InStop) \in Nat
    BY InStopFinite, FS_CardinalityType
  <1>2. Cardinality(InStop) = 0
    BY <1>1 DEF StopsCounted
  <1>3. InStop = {}
    BY <1>2, InStopFinite, FS_EmptySet
  <1>4. QED
    BY <1>3 DEF InStop, Raised

(* A step of a caller leaves the Stops where they are.                     *)
LEMMA CallerFrame ==
  ASSUME HandyTypeOK, NEW c \in Callers, NEW from, NEW to, Goto(c, from, to)
  PROVE  /\ InStop' = InStop
         /\ Raised' = Raised
         /\ \A s \in Stoppers : place'[s] = place[s]
         /\ place'[c] = to
         /\ \A d \in Callers : d # c => place'[d] = place[d]
  BY HandyAssumption DEF HandyTypeOK, Goto, InStop, Raised

(* A step of a Stop leaves the callers where they are.                     *)
LEMMA StopperFrame ==
  ASSUME HandyTypeOK, NEW s \in Stoppers, NEW from, NEW to, Goto(s, from, to)
  PROVE  /\ Admitted' = Admitted
         /\ \A c \in Callers : place'[c] = place[c]
         /\ place'[s] = to
         /\ \A t \in Stoppers : t # s => place'[t] = place[t]
  BY HandyAssumption DEF HandyTypeOK, Goto, Admitted

(* The initial state satisfies the inductive invariant.                    *)
LEMMA HandyInitInv == HandyInit => HandyInv
  <1> SUFFICES ASSUME HandyInit PROVE HandyInv
    OBVIOUS
  <1>1. InStop = {} /\ Raised = {} /\ Admitted = {}
    BY DEF HandyInit, InStop, Raised, Admitted
  <1>2. StopsCounted
    BY <1>1, FS_EmptySet DEF HandyInit, StopsCounted
  <1>3. HandyTypeOK
    <2>1. retired \in BOOLEAN /\ reached \in BOOLEAN /\ playing \in BOOLEAN
          /\ quiet \in BOOLEAN /\ started \in BOOLEAN
      BY DEF HandyInit
    <2>2. QED
      BY <2>1, HandyAssumption DEF HandyInit, HandyTypeOK, CallerPC, StopPC, Ops
  <1>4. LockInv /\ LoadInv /\ AgeInv /\ DispatchIsFresh /\ QuietInv
    BY <1>1, HandyAssumption DEF HandyInit, LockInv, LoadInv, AgeInv, DispatchIsFresh, QuietInv, Holding
  <1>5. QED
    BY <1>2, <1>3, <1>4 DEF HandyInv

(* Every step preserves the types.                                         *)
LEMMA HandyTypeStep == HandyTypeOK /\ [HandyNext]_handyVars => HandyTypeOK'
  <1> SUFFICES ASSUME HandyTypeOK, [HandyNext]_handyVars PROVE HandyTypeOK'
    OBVIOUS
  <1> USE HandyAssumption DEF HandyTypeOK, Goto, CallerPC, StopPC, Ops, gate, args, wire, history
  <1>1. ASSUME NEW c \in Callers, NEW m \in Ops, NEW r \in Streams \cup {Nil}, AdmitLoad(c, m, r) PROVE HandyTypeOK'
    BY <1>1 DEF AdmitLoad
  <1>2. ASSUME NEW c \in Callers, AdmitTest(c) PROVE HandyTypeOK'
    <2>1. quiet' \in BOOLEAN /\ overtaken' \subseteq Callers
      BY <1>2 DEF AdmitTest
    <2>2. place' = [place EXCEPT ![c] = "idle"] \/ place' = [place EXCEPT ![c] = "lock"]
      BY <1>2 DEF AdmitTest
    <2>3. QED
      BY <1>2, <2>1, <2>2 DEF AdmitTest
  <1>3. ASSUME NEW c \in Callers, LockHsp(c) PROVE HandyTypeOK'
    BY <1>3 DEF LockHsp
  <1>4. ASSUME NEW c \in Callers, Validate(c) PROVE HandyTypeOK'
    BY <1>4 DEF Validate, ValidateStops, ValidateGeneration, AfterFirstValidate, ReturnUnlocked
  <1>5. ASSUME NEW c \in Callers, CloudSetup(c) PROVE HandyTypeOK'
    BY <1>5 DEF CloudSetup, Deliver, MovesAfter
  <1>6. ASSUME NEW c \in Callers, NEW ok \in BOOLEAN, CloudSetupReply(c, ok) PROVE HandyTypeOK'
    <2>1. CASE ok
      <3>1. started' \in BOOLEAN
        BY <1>6, <2>1 DEF CloudSetupReply
      <3>2. activeStreamID' = stream[c] /\ hspMu' = hspMu
            /\ place' = [place EXCEPT ![c] = "recheck"]
        BY <1>6, <2>1 DEF CloudSetupReply
      <3>3. QED
        BY <1>6, <3>1, <3>2 DEF CloudSetupReply
    <2>2. CASE ~ok
      BY <1>6, <2>2 DEF CloudSetupReply, ReturnUnlocked
    <2>3. QED
      BY <2>1, <2>2
  <1>7. ASSUME NEW c \in Callers, Revalidate(c) PROVE HandyTypeOK'
    BY <1>7 DEF Revalidate, ValidateStops, ValidateGeneration, ReturnUnlocked
  <1>8. ASSUME NEW c \in Callers, Send(c) PROVE HandyTypeOK'
    BY <1>8 DEF Send, Deliver, MovesAfter
  <1>9. ASSUME NEW c \in Callers, NEW ok \in BOOLEAN, CloudReply(c, ok) PROVE HandyTypeOK'
    BY <1>9 DEF CloudReply, ReturnUnlocked
  <1>10. ASSUME NEW c \in Callers, NEW ok \in BOOLEAN, ReadReply(c, ok) PROVE HandyTypeOK'
    BY <1>10 DEF ReadReply, ReturnUnlocked
  <1>11. ASSUME NEW c \in Callers, NEW ok \in BOOLEAN, BluetoothReply(c, ok) PROVE HandyTypeOK'
    BY <1>11 DEF BluetoothReply, ReturnUnlocked
  <1>12. ASSUME NEW c \in Callers, ReadResult(c) \/ BuildError(c) PROVE HandyTypeOK'
    BY <1>12 DEF ReadResult, BuildError, ReturnUnlocked
  <1>13. ASSUME NEW s \in Stoppers, BeginStopRaise(s) PROVE HandyTypeOK'
    BY <1>13 DEF BeginStopRaise
  <1>14. ASSUME NEW s \in Stoppers, BeginStopAdvance(s) PROVE HandyTypeOK'
    BY <1>14 DEF BeginStopAdvance
  <1>15. ASSUME NEW s \in Stoppers, Interrupt(s) PROVE HandyTypeOK'
    BY <1>15 DEF Interrupt
  <1>16. ASSUME NEW s \in Stoppers, StopLock(s) PROVE HandyTypeOK'
    BY <1>16 DEF StopLock
  <1>17. ASSUME NEW s \in Stoppers, StopSend(s) PROVE HandyTypeOK'
    <2>1. overtaken' \subseteq Callers
      BY <1>17 DEF StopSend, Admitted
    <2>2. quiet' \in BOOLEAN /\ playing' \in BOOLEAN /\ reached' \in BOOLEAN
      BY <1>17 DEF StopSend
    <2>3. QED
      BY <1>17, <2>1, <2>2 DEF StopSend
  <1>18. ASSUME NEW s \in Stoppers, NEW ok \in BOOLEAN, StopReply(s, ok) PROVE HandyTypeOK'
    BY <1>18 DEF StopReply
  <1>19. ASSUME NEW s \in Stoppers, EndStop(s) PROVE HandyTypeOK'
    BY <1>19 DEF EndStop
  <1>20. CASE Retire
    BY <1>20 DEF Retire
  <1>21. CASE UNCHANGED handyVars
    BY <1>21 DEF handyVars
  <1>22. QED
    BY <1>1, <1>2, <1>3, <1>4, <1>5, <1>6, <1>7, <1>8, <1>9, <1>10, <1>11, <1>12, <1>13, <1>14, <1>15, <1>16, <1>17, <1>18, <1>19, <1>20, <1>21 DEF HandyNext, CallerStep, StopperStep

(* The inductive step.  Callers cannot move a Stop, so their steps keep    *)
(* StopsCounted; a Stop reaches the device only while it holds hspMu, so   *)
(* nothing behind hspMu is overtaken.                                      *)
LEMMA HandyStepInv == HandyInv /\ [HandyNext]_handyVars => HandyInv'
  <1> SUFFICES ASSUME HandyInv, [HandyNext]_handyVars PROVE HandyInv'
    OBVIOUS
  <1> USE DEF Holding
  <1>1. HandyTypeOK /\ HandyTypeOK'
    BY HandyTypeStep DEF HandyInv
  <1> DEFINE Rest == LockInv /\ LoadInv /\ AgeInv /\ DispatchIsFresh /\ QuietInv
  <1>2. ASSUME NEW c \in Callers, CallerStep(c) PROVE StopsCounted' /\ Raised' = Raised
    <2>1. stops' = stops
      BY <1>2 DEF CallerStep, AdmitLoad, AdmitTest, LockHsp, Validate, ValidateStops,
        ValidateGeneration, CloudSetup, CloudSetupReply, Revalidate, Send, CloudReply,
        ReadReply, ReadResult, BuildError, BluetoothReply, gate
    <2>2. \E from, to : Goto(c, from, to)
      BY <1>2 DEF CallerStep, AdmitLoad, AdmitTest, LockHsp, Validate, ValidateStops,
        ValidateGeneration, CloudSetup, CloudSetupReply, Revalidate, Send, CloudReply,
        ReadReply, ReadResult, BuildError, BluetoothReply, ReturnUnlocked
    <2>3. InStop' = InStop /\ Raised' = Raised
      BY <1>1, <2>2, CallerFrame
    <2>4. QED
      BY <2>1, <2>3 DEF HandyInv, StopsCounted
  <1>3. ASSUME NEW c \in Callers, NEW m \in Ops, NEW r \in Streams \cup {Nil}, AdmitLoad(c, m, r), Raised' = Raised PROVE Rest'
    BY <1>3, <1>1, HandyAssumption DEF AdmitLoad, HandyInv, LockInv, LoadInv, AgeInv, DispatchIsFresh, QuietInv, HandyTypeOK, Admitted, Goto, gate, args, wire, history
  <1>4. ASSUME NEW c \in Callers, LockHsp(c), Raised' = Raised PROVE Rest'
    BY <1>4, <1>1, HandyAssumption DEF LockHsp, HandyInv, LockInv, LoadInv, AgeInv, DispatchIsFresh, QuietInv, HandyTypeOK, Admitted, Goto, gate, args, wire, history
  <1>5. ASSUME NEW c \in Callers, Validate(c), Raised' = Raised PROVE Rest'
    BY <1>5, <1>1, HandyAssumption DEF Validate, ValidateStops, ValidateGeneration, AfterFirstValidate, ReturnUnlocked, HandyInv, LockInv, LoadInv, AgeInv, DispatchIsFresh, QuietInv, HandyTypeOK, Admitted, Goto, gate, args, wire, history
  <1>6. ASSUME NEW c \in Callers, CloudSetup(c), Raised' = Raised PROVE Rest'
    BY <1>6, <1>1, HandyAssumption DEF CloudSetup, Deliver, MovesAfter, HandyInv, LockInv, LoadInv, AgeInv, DispatchIsFresh, QuietInv, HandyTypeOK, Admitted, Goto, gate, args, wire, history
  <1>7. ASSUME NEW c \in Callers, NEW ok \in BOOLEAN, CloudSetupReply(c, ok), Raised' = Raised PROVE Rest'
    BY <1>7, <1>1, HandyAssumption DEF CloudSetupReply, ReturnUnlocked, HandyInv, LockInv, LoadInv, AgeInv, DispatchIsFresh, QuietInv, HandyTypeOK, Admitted, Goto, gate, args, wire, history
  <1>8. ASSUME NEW c \in Callers, Revalidate(c), Raised' = Raised PROVE Rest'
    BY <1>8, <1>1, HandyAssumption DEF Revalidate, ValidateStops, ValidateGeneration, ReturnUnlocked, HandyInv, LockInv, LoadInv, AgeInv, DispatchIsFresh, QuietInv, HandyTypeOK, Admitted, Goto, gate, args, wire, history
  <1>9. ASSUME NEW c \in Callers, Send(c), Raised' = Raised PROVE Rest'
    BY <1>9, <1>1, HandyAssumption DEF Send, Deliver, MovesAfter, HandyInv, LockInv, LoadInv, AgeInv, DispatchIsFresh, QuietInv, HandyTypeOK, Admitted, Goto, gate, args, wire, history
  <1>10. ASSUME NEW c \in Callers, NEW ok \in BOOLEAN, CloudReply(c, ok), Raised' = Raised PROVE Rest'
    BY <1>10, <1>1, HandyAssumption DEF CloudReply, ReturnUnlocked, HandyInv, LockInv, LoadInv, AgeInv, DispatchIsFresh, QuietInv, HandyTypeOK, Admitted, Goto, gate, args, wire, history
  <1>11. ASSUME NEW c \in Callers, NEW ok \in BOOLEAN, ReadReply(c, ok), Raised' = Raised PROVE Rest'
    BY <1>11, <1>1, HandyAssumption DEF ReadReply, ReturnUnlocked, HandyInv, LockInv, LoadInv, AgeInv, DispatchIsFresh, QuietInv, HandyTypeOK, Admitted, Goto, gate, args, wire, history
  <1>12. ASSUME NEW c \in Callers, NEW ok \in BOOLEAN, BluetoothReply(c, ok), Raised' = Raised PROVE Rest'
    BY <1>12, <1>1, HandyAssumption DEF BluetoothReply, ReturnUnlocked, HandyInv, LockInv, LoadInv, AgeInv, DispatchIsFresh, QuietInv, HandyTypeOK, Admitted, Goto, gate, args, wire, history
  <1>13. ASSUME NEW c \in Callers, ReadResult(c) \/ BuildError(c), Raised' = Raised PROVE Rest'
    BY <1>13, <1>1, HandyAssumption DEF ReadResult, BuildError, ReturnUnlocked, HandyInv, LockInv, LoadInv, AgeInv, DispatchIsFresh, QuietInv, HandyTypeOK, Admitted, Goto, gate, args, wire, history
  <1>14. ASSUME NEW c \in Callers, AdmitTest(c), Raised' = Raised PROVE Rest'
    <2>1. CASE stops > 0
      BY <1>14, <2>1, <1>1, HandyAssumption DEF AdmitTest, HandyInv, LockInv, LoadInv, AgeInv, DispatchIsFresh, QuietInv, HandyTypeOK, Admitted, Goto, gate, args, wire, history
    <2>2. CASE stops <= 0
      <3>1. Raised = {}
        BY <2>2, OpenGate DEF HandyInv
      <3>2. place[c] = "admit" /\ place' = [place EXCEPT ![c] = "lock"]
            /\ overtaken' = overtaken \ {c} /\ ~quiet'
        BY <1>1, <1>14, <2>2 DEF AdmitTest, Goto, HandyTypeOK
      <3>3. QED
        BY <1>1, <1>14, <3>1, <3>2, HandyAssumption DEF AdmitTest, HandyInv, LockInv, LoadInv, AgeInv, DispatchIsFresh, QuietInv, HandyTypeOK, Admitted, Goto, gate, args, wire, history
    <2>3. QED
      BY <1>1, <2>1, <2>2 DEF HandyTypeOK
  <1>15. ASSUME NEW s \in Stoppers, BeginStopRaise(s) PROVE Rest'
    BY <1>15, <1>1, HandyAssumption DEF BeginStopRaise, Raised, HandyInv, LockInv, LoadInv, AgeInv, DispatchIsFresh, QuietInv, HandyTypeOK, Admitted, Goto, gate, args, wire, history
  <1>16. ASSUME NEW s \in Stoppers, BeginStopAdvance(s) PROVE Rest'
    BY <1>16, <1>1, HandyAssumption DEF BeginStopAdvance, Raised, HandyInv, LockInv, LoadInv, AgeInv, DispatchIsFresh, QuietInv, HandyTypeOK, Admitted, Goto, gate, args, wire, history
  <1>17. ASSUME NEW s \in Stoppers, Interrupt(s) PROVE Rest'
    BY <1>17, <1>1, HandyAssumption DEF Interrupt, Raised, HandyInv, LockInv, LoadInv, AgeInv, DispatchIsFresh, QuietInv, HandyTypeOK, Admitted, Goto, gate, args, wire, history
  <1>18. ASSUME NEW s \in Stoppers, StopLock(s) PROVE Rest'
    BY <1>18, <1>1, HandyAssumption DEF StopLock, Raised, HandyInv, LockInv, LoadInv, AgeInv, DispatchIsFresh, QuietInv, HandyTypeOK, Admitted, Goto, gate, args, wire, history
  <1>19. ASSUME NEW s \in Stoppers, StopSend(s) PROVE Rest'
    BY <1>19, <1>1, HandyAssumption DEF StopSend, Raised, HandyInv, LockInv, LoadInv, AgeInv, DispatchIsFresh, QuietInv, HandyTypeOK, Admitted, Goto, gate, args, wire, history
  <1>20. ASSUME NEW s \in Stoppers, NEW ok \in BOOLEAN, StopReply(s, ok) PROVE Rest'
    BY <1>20, <1>1, HandyAssumption DEF StopReply, Raised, HandyInv, LockInv, LoadInv, AgeInv, DispatchIsFresh, QuietInv, HandyTypeOK, Admitted, Goto, gate, args, wire, history
  <1>21. ASSUME NEW s \in Stoppers, EndStop(s) PROVE Rest'
    BY <1>21, <1>1, HandyAssumption DEF EndStop, Raised, HandyInv, LockInv, LoadInv, AgeInv, DispatchIsFresh, QuietInv, HandyTypeOK, Admitted, Goto, gate, args, wire, history
  <1>22. ASSUME NEW s \in Stoppers, BeginStopRaise(s) PROVE StopsCounted'
    <2>1. InStop' = InStop \cup {s} /\ s \notin InStop
      BY <1>22, <1>1, HandyAssumption DEF BeginStopRaise, Goto, InStop, HandyTypeOK
    <2>2. Cardinality(InStop') = Cardinality(InStop) + 1
      BY <2>1, InStopFinite, FS_AddElement
    <2>3. QED
      BY <1>22, <2>2 DEF BeginStopRaise, HandyInv, StopsCounted
  <1>23. ASSUME NEW s \in Stoppers, EndStop(s) PROVE StopsCounted'
    <2>1. InStop' = InStop \ {s} /\ s \in InStop
      BY <1>23, <1>1, HandyAssumption DEF EndStop, Goto, InStop, HandyTypeOK
    <2>2. Cardinality(InStop') = Cardinality(InStop) - 1
      BY <2>1, InStopFinite, FS_RemoveElement
    <2>3. QED
      BY <1>23, <2>2 DEF EndStop, HandyInv, StopsCounted
  <1>24. ASSUME NEW s \in Stoppers, NEW ok \in BOOLEAN,
                BeginStopAdvance(s) \/ Interrupt(s) \/ StopLock(s) \/ StopSend(s) \/ StopReply(s, ok)
         PROVE StopsCounted'
    <2>1. InStop' = InStop
      BY <1>24, <1>1, HandyAssumption DEF BeginStopAdvance, Interrupt, StopLock, StopSend,
        StopReply, Goto, InStop, HandyTypeOK
    <2>2. stops' = stops
      BY <1>24 DEF BeginStopAdvance, Interrupt, StopLock, StopSend, StopReply, gate
    <2>3. QED
      BY <2>1, <2>2 DEF HandyInv, StopsCounted
  <1>25. CASE Retire \/ UNCHANGED handyVars
    <2>1. UNCHANGED <<generation, stops, hspMu, place, admission, playing, overtaken, quiet>>
      BY <1>25 DEF Retire, handyVars, gate, args, wire, history
    <2>2. InStop' = InStop /\ Raised' = Raised /\ Admitted' = Admitted
      BY <2>1 DEF InStop, Raised, Admitted
    <2>3. StopsCounted'
      BY <2>1, <2>2 DEF HandyInv, StopsCounted
    <2>4. QED
      BY <1>1, <2>1, <2>2, <2>3 DEF HandyInv, LockInv, LoadInv, AgeInv, DispatchIsFresh, QuietInv
  <1>26. ASSUME NEW c \in Callers, CallerStep(c) PROVE HandyInv'
    BY <1>1, <1>26, <1>2, <1>3, <1>4, <1>5, <1>6, <1>7, <1>8, <1>9, <1>10, <1>11, <1>12, <1>13,
       <1>14 DEF CallerStep, HandyInv
  <1>27. ASSUME NEW s \in Stoppers, StopperStep(s) PROVE HandyInv'
    BY <1>1, <1>27, <1>15, <1>16, <1>17, <1>18, <1>19, <1>20, <1>21, <1>22, <1>23, <1>24
       DEF StopperStep, HandyInv
  <1>28. QED
    BY <1>25, <1>26, <1>27 DEF HandyNext

(* Any number of goroutines: the inductive invariant holds throughout.     *)
THEOREM HandyInductive == HandySpec => []HandyInv
  BY HandyInitInv, HandyStepInv, PTL DEF HandySpec

(* Type correctness, and with it the shape of every goroutine's control.   *)
THEOREM HandyTypeCorrect == HandySpec => []HandyTypeOK
  <1>1. HandyInv => HandyTypeOK
    BY DEF HandyInv
  <1>2. QED
    BY <1>1, HandyInductive, PTL

(* No request leaves a transport for a command that a delivered Stop has   *)
(* overtaken since its admission.                                          *)
THEOREM GateFences == HandySpec => []DispatchIsFresh
  <1>1. HandyInv => DispatchIsFresh
    BY DEF HandyInv
  <1>2. QED
    BY <1>1, HandyInductive, PTL

(* The gate counts exactly the Stops in progress: no underflow panic.      *)
THEOREM GateCounts == HandySpec => []StopsCounted
  <1>1. HandyInv => StopsCounted
    BY DEF HandyInv
  <1>2. QED
    BY <1>1, HandyInductive, PTL

(* A Stop that reached the device keeps it still until something is        *)
(* admitted after it.                                                      *)
THEOREM StopIsFinal == HandySpec => []StopHolds
  <1>1. HandyInv => StopHolds
    BY DEF HandyInv, QuietInv, StopHolds
  <1>2. QED
    BY <1>1, HandyInductive, PTL

(* The refinement of DeviceFence.  A command that waits, is validated or   *)
(* leaves changes nothing that the fence sees but its own admission.       *)
LEMMA FenceWaits ==
  ASSUME HandyTypeOK, NEW c \in Callers, NEW from, NEW to, Goto(c, from, to),
         from \notin {"idle", "admit"} \/ to \in {"idle", "admit"},
         playing' = playing, overtaken' = overtaken
  PROVE  [Fence!Next]_(Fence!vars)
  <1>1. \A d \in Callers \ {c} : place'[d] = place[d]
    BY DEF HandyTypeOK, Goto
  <1>2. place[c] = from /\ place'[c] = to
    BY DEF HandyTypeOK, Goto
  <1>3. CASE to \in {"idle", "admit"} /\ c \in Admitted \ overtaken
    <2>1. Admitted' \ overtaken' = (Admitted \ overtaken) \ {c}
      BY <1>1, <1>2, <1>3 DEF Admitted
    <2>2. Fence!Leave(c)
      BY <1>3, <2>1 DEF Fence!Leave
    <2>3. QED
      BY <2>2 DEF Fence!Next
  <1>4. CASE ~(to \in {"idle", "admit"} /\ c \in Admitted \ overtaken)
    <2>1. Admitted' \ overtaken' = Admitted \ overtaken
      BY <1>1, <1>2, <1>4 DEF Admitted
    <2>2. QED
      BY <2>1 DEF Fence!vars
  <1>5. QED
    BY <1>3, <1>4

(* A request changes what the device does on behalf of a fresh command     *)
(* only.                                                                   *)
LEMMA FenceActs ==
  ASSUME HandyInv, NEW c \in Callers, NEW to \in {"setupReply", "reply"},
         place[c] \in {"setup", "send"}, place' = [place EXCEPT ![c] = to],
         playing' \in BOOLEAN, overtaken' = overtaken
  PROVE  Fence!Next
  <1>1. c \in Admitted \ overtaken
    BY DEF HandyInv, DispatchIsFresh, Admitted
  <1>2. Admitted' = Admitted
    BY DEF HandyInv, HandyTypeOK, Admitted
  <1>3. Fence!TakeEffect(c)
    BY <1>1, <1>2 DEF Fence!TakeEffect
  <1>4. QED
    BY <1>3 DEF Fence!Next

LEMMA FenceInit == HandyInit => Fence!Init
  BY DEF HandyInit, Fence!Init, Admitted

(* Every step of the transport is a step of the fence, or none: only the   *)
(* test of an open gate admits, and only a Stop that reaches the device    *)
(* ends the admissions of others.                                          *)
LEMMA FenceStep == HandyInv /\ HandyInv' /\ [HandyNext]_handyVars => [Fence!Next]_(Fence!vars)
  <1> SUFFICES ASSUME HandyInv, HandyInv', [HandyNext]_handyVars PROVE [Fence!Next]_(Fence!vars)
    OBVIOUS
  <1>0. HandyTypeOK /\ HandyTypeOK'
    BY DEF HandyInv
  <1>1. ASSUME NEW c \in Callers, NEW m \in Ops, NEW r \in Streams \cup {Nil}, AdmitLoad(c, m, r)
        PROVE  [Fence!Next]_(Fence!vars)
    BY <1>0, <1>1, FenceWaits DEF AdmitLoad, wire, history
  <1>2. ASSUME NEW c \in Callers, AdmitTest(c) PROVE [Fence!Next]_(Fence!vars)
    <2>1. playing' = playing
      BY <1>2 DEF AdmitTest, wire
    <2>2. CASE stops > 0 /\ Goto(c, "admit", "idle") /\ UNCHANGED history
      BY <1>0, <2>1, <2>2, FenceWaits DEF history
    <2>3. CASE Goto(c, "admit", "lock") /\ overtaken' = overtaken \ {c}
      <3>1. c \notin Admitted /\ Admitted' = Admitted \cup {c}
        BY <1>0, <2>3 DEF HandyTypeOK, Goto, Admitted
      <3>2. Admitted' \ overtaken' = (Admitted \ overtaken) \cup {c}
        BY <2>3, <3>1
      <3>3. Fence!Admit(c)
        BY <2>1, <3>1, <3>2 DEF Fence!Admit
      <3>4. QED
        BY <3>3 DEF Fence!Next
    <2>4. QED
      BY <1>2, <2>2, <2>3 DEF AdmitTest
  <1>3. ASSUME NEW c \in Callers, LockHsp(c) PROVE [Fence!Next]_(Fence!vars)
    BY <1>0, <1>3, FenceWaits DEF LockHsp, wire, history
  <1>4. ASSUME NEW c \in Callers, NEW from \in {"check", "compare", "recheck", "recompare"}, NEW to,
               ValidateStops(c, from, to) \/ ValidateGeneration(c, from, to)
        PROVE  [Fence!Next]_(Fence!vars)
    <2>1. playing' = playing /\ overtaken' = overtaken
      BY <1>4 DEF ValidateStops, ValidateGeneration, wire, history
    <2>2. CASE Goto(c, from, "idle")
      BY <1>0, <2>1, <2>2, FenceWaits
    <2>3. CASE Goto(c, from, to)
      BY <1>0, <1>4, <2>1, <2>3, FenceWaits
    <2>4. QED
      BY <1>4, <2>2, <2>3 DEF ValidateStops, ValidateGeneration, ReturnUnlocked
  <1>5. ASSUME NEW c \in Callers, Validate(c) \/ Revalidate(c) PROVE [Fence!Next]_(Fence!vars)
    BY <1>4, <1>5 DEF Validate, Revalidate
  <1>6. ASSUME NEW c \in Callers, CloudSetup(c) \/ Send(c) PROVE [Fence!Next]_(Fence!vars)
    <2>1. overtaken' = overtaken /\ playing' \in BOOLEAN
      BY <1>0, <1>6 DEF CloudSetup, Send, history, HandyTypeOK
    <2>2. CASE Goto(c, "setup", "setupReply")
      BY <2>1, <2>2, FenceActs DEF Goto
    <2>3. CASE Goto(c, "send", "reply")
      BY <2>1, <2>3, FenceActs DEF Goto
    <2>4. QED
      BY <1>6, <2>2, <2>3 DEF CloudSetup, Send
  <1>7. ASSUME NEW c \in Callers, NEW ok \in BOOLEAN, CloudSetupReply(c, ok)
        PROVE  [Fence!Next]_(Fence!vars)
    <2>1. playing' = playing /\ overtaken' = overtaken
      BY <1>7 DEF CloudSetupReply, wire, history
    <2>2. Goto(c, "setupReply", "recheck") \/ Goto(c, "setupReply", "idle")
      BY <1>7 DEF CloudSetupReply, ReturnUnlocked
    <2>3. QED
      BY <1>0, <2>1, <2>2, FenceWaits
  <1>8. ASSUME NEW c \in Callers, NEW ok \in BOOLEAN,
               CloudReply(c, ok) \/ ReadReply(c, ok) \/ BluetoothReply(c, ok)
        PROVE  [Fence!Next]_(Fence!vars)
    <2>1. playing' = playing /\ overtaken' = overtaken
      BY <1>8 DEF CloudReply, ReadReply, BluetoothReply, wire, history
    <2>2. Goto(c, "reply", "idle") \/ Goto(c, "reply", "recheck")
      BY <1>8 DEF CloudReply, ReadReply, BluetoothReply, ReturnUnlocked
    <2>3. QED
      BY <1>0, <2>1, <2>2, FenceWaits
  <1>9. ASSUME NEW c \in Callers, BuildError(c) \/ ReadResult(c) PROVE [Fence!Next]_(Fence!vars)
    <2>1. playing' = playing /\ overtaken' = overtaken
      BY <1>9 DEF BuildError, ReadResult, wire, history
    <2>2. Goto(c, "compare", "idle") \/ Goto(c, "result", "idle")
      BY <1>9 DEF BuildError, ReadResult, ReturnUnlocked
    <2>3. QED
      BY <1>0, <2>1, <2>2, FenceWaits
  <1>10. ASSUME NEW s \in Stoppers, StopSend(s) PROVE [Fence!Next]_(Fence!vars)
    <2>1. Admitted' = Admitted
      BY <1>0, <1>10, StopperFrame DEF StopSend
    <2>2. CASE playing' = FALSE /\ overtaken' = overtaken \cup Admitted
      <3>1. Admitted' \ overtaken' = {}
        BY <2>1, <2>2
      <3>2. Fence!Stop
        BY <2>2, <3>1 DEF Fence!Stop
      <3>3. QED
        BY <3>2 DEF Fence!Next
    <2>3. CASE playing' = playing /\ overtaken' = overtaken
      BY <2>1, <2>3 DEF Fence!vars
    <2>4. QED
      BY <1>10, <2>2, <2>3 DEF StopSend, history
  <1>11. ASSUME NEW s \in Stoppers, NEW ok \in BOOLEAN,
                \/ BeginStopRaise(s) \/ BeginStopAdvance(s) \/ Interrupt(s)
                \/ StopLock(s) \/ StopReply(s, ok) \/ EndStop(s)
         PROVE  UNCHANGED Fence!vars
    <2>1. playing' = playing /\ overtaken' = overtaken
      BY <1>11 DEF BeginStopRaise, BeginStopAdvance, Interrupt, StopLock, StopReply, EndStop, wire, history
    <2>2. \E from, to : Goto(s, from, to)
      BY <1>11 DEF BeginStopRaise, BeginStopAdvance, Interrupt, StopLock, StopReply, EndStop
    <2>3. Admitted' = Admitted
      BY <1>0, <2>2, StopperFrame
    <2>4. QED
      BY <2>1, <2>3 DEF Fence!vars
  <1>12. CASE Retire \/ UNCHANGED handyVars
    <2>1. UNCHANGED <<place, playing, overtaken>>
      BY <1>12 DEF Retire, handyVars, wire, history
    <2>2. QED
      BY <2>1 DEF Fence!vars, Admitted
  <1>13. QED
    BY <1>1, <1>2, <1>3, <1>5, <1>6, <1>7, <1>8, <1>9, <1>10, <1>11, <1>12
    DEF HandyNext, CallerStep, StopperStep

(* The transport implements the fence: whatever waits for hspMu, a command *)
(* takes effect only while it is admitted and not overtaken, and a Stop    *)
(* that reaches the device ends every admission at once.                   *)
THEOREM TransportImplementsFence == HandySpec => FenceSpec
  <1>1. HandySpec => []HandyInv
    BY HandyInductive
  <1>2. QED
    BY <1>1, FenceInit, FenceStep, PTL DEF HandySpec, FenceSpec, Fence!Spec

-----------------------------------------------------------------------------
(* The mode manager.                                                       *)

-----------------------------------------------------------------------------
(* What the fields hold. *)

EngineStates == {"idle", "starting", "running", "paused"}
Sources      == AllModes \cup {"edge", "none"}

UserPC == {"idle", "control", "lifecycle", "install", "verify", "stop", "notify", "drain", "halt",
           "halting", "stopLoop", "pause", "pausing", "resume", "startup", "answered", "model",
           "complete", "prepare", "target", "begin", "lead", "commit", "apply", "reconcile", "hold"}
LoopPC == {"none", "wait", "exited", "tickEdge", "edge", "edgePlan", "edgeReturn", "decide", "ensure",
           "plan", "choice", "texture", "begin", "startup", "target", "lead", "commit", "answered"}
ReapPC == {"none", "stopLoop", "stopBound", "drain", "exited"}

Snapshots == [state : EngineStates, source : Sources, run : 0 .. MaxRuns, plan : Nat]

Frames ==
  [pc : UserPC \cup LoopPC \cup ReapPC, call : AllCalls \cup {"none", "loop", "reap"}, mode : Sources,
   id : Nat, gen : Nat, saw : Snapshots, ok : {"none", "yes", "no", "late"}, loop : 0 .. MaxRuns]

Engines ==
  [state : EngineStates, source : Sources, run : 0 .. MaxRuns, gen : Nat, began : Nat, plan : Nat,
   barriers : SUBSET Users, targetMu : Users \cup Runs \cup {None},
   admitted : SUBSET (Users \cup Runs), bound : SUBSET (Users \cup Runs)]

Managers ==
  [run : 0 .. MaxRuns, generation : Nat, operation : Goroutines \cup {None},
   revoked : SUBSET Goroutines, cancelled : SUBSET Runs,
   intent : Nat, pauseConfirmed : Nat, resumeConfirmed : Nat, pauses : SUBSET Nat, paused : BOOLEAN,
   stopped : BOOLEAN, keepalive : BOOLEAN, pending : BOOLEAN, owner : Nat, activity : BOOLEAN,
   activityID : Nat, planned : Nat \cup {None}, edge : Holds \cup {None}, tickets : SUBSET Users]

(* The intents by which the mode is to stay paused. *)
Latched(m) == \/ m.pauseConfirmed > m.resumeConfirmed
              \/ \E id \in m.pauses : id > m.resumeConfirmed

(* What Manager.mu protects, by itself: the pause latch is what the user's *)
(* intents say, and a hold whose return is decided belongs to a mode that  *)
(* runs.                                                                   *)
ManagerOK(m) ==
  /\ m \in Managers
  /\ m.pauses \subseteq 1 .. m.intent
  /\ m.resumeConfirmed <= m.intent
  /\ m.run # 0 => (m.paused <=> Latched(m))
  /\ m.edge # None => m.edge.id > 0 /\ (m.edge.decided => ~m.stopped)

StateOK ==
  /\ ManagerOK(manager)
  /\ engine \in Engines
  /\ at \in [Goroutines -> Frames]
  /\ lifecycleMu \in Users \cup Reapers \cup {None}
  /\ userControlMu \in Users \cup Runs \cup {None}
  /\ fenced \subseteq Users
  /\ calls \in Nat /\ halted \in Nat

(* Where a goroutine can stand in the call it executes. *)
UserShape(f) ==
  \/ f.pc = "idle" /\ f.call = "none"
  \/ f.call = "start" /\ f.pc \in {"control", "lifecycle", "install", "verify", "stop", "drain", "halt", "halting"}
  \/ f.call \in {"stop", "chatstop", "modestop", "end"} /\ f.pc \in {"notify", "stop", "halt", "halting", "drain"}
  \/ f.call = "halt" /\ f.pc \in {"stopLoop", "drain", "halt", "halting"}
  \/ f.call = "pause" /\ f.pc \in {"control", "pause", "pausing", "answered"}
  \/ f.call = "resume" /\ f.pc \in {"control", "resume", "startup", "answered"} /\ f.id <= manager.intent
  \/ /\ f.call = "chat" /\ f.mode = "chat"
     /\ f.pc \in {"model", "complete", "prepare", "target", "begin", "startup", "lead", "commit", "answered"}
  \/ f.call = "review" /\ f.pc \in {"apply", "target", "lead", "commit", "answered"}
  \/ f.call = "status" /\ f.pc = "reconcile"
  \/ /\ f.call = "edge" /\ f.mode = "edge"
     /\ f.pc \in {"reconcile", "hold"} \/ (f.pc \in {"target", "lead", "commit", "answered"} /\ f.id > 0)
  \/ f.call = "return" /\ (f.pc = "control" \/ (f.pc \in {"target", "lead", "commit", "answered"} /\ f.id > 0))
  \/ f.call = "settings" /\ f.pc \in {"target", "lead", "commit", "answered"}

LoopShape(f) ==
  \/ f.call = "none" /\ f.pc = "none"
  \/ f.call = "loop" /\ f.pc \in LoopPC \ {"none", "edge", "edgePlan", "edgeReturn"}
  \/ f.call = "loop" /\ f.pc \in {"edge", "edgePlan", "edgeReturn"} /\ f.id > 0
  \/ f.call = "return" /\ f.pc \in {"target", "lead", "commit", "answered"} /\ f.id > 0

ReapShape(f) ==
  \/ f.call = "none" /\ f.pc = "none"
  \/ f.call = "reap" /\ f.pc \in ReapPC \ {"none"}

(* A lock is held by the goroutine that stands in the code it protects.    *)
InLifecycle(f) ==
  \/ f.pc = "install"
  \/ f.pc \in {"halt", "halting", "drain"} /\ f.loop # 0
  \/ f.pc = "drain" /\ f.call \in {"halt", "reap"}

InControl(f) ==
  \/ f.call = "start" /\ f.pc \in {"lifecycle", "install"}
  \/ f.call \in {"pause", "resume", "return"} /\ f.pc # "control"
  \/ f.call = "edge"

InTarget(f) == f.pc \in {"lead", "commit"}

(* Each goroutine is somewhere in its call, holds the locks of the place,  *)
(* and works for no generation that is yet to come.                        *)
Placed(t) ==
  /\ t \in Users => UserShape(at[t])
  /\ t \in Runs => LoopShape(at[t])
  /\ t \in Reapers => ReapShape(at[t])
  /\ at[t].pc \notin {"answered", "complete"} => at[t].ok = "none"
  /\ InLifecycle(at[t]) <=> lifecycleMu = t
  /\ InControl(at[t]) <=> userControlMu = t
  /\ InTarget(at[t]) <=> engine.targetMu = t
  /\ at[t].gen <= manager.generation

PlaceInv == \A t \in Goroutines : Placed(t)

(* Run goroutines are used in their order; the loop that lives is the one  *)
(* that is installed, or the one that the holder of lifecycleMu waits for. *)
LoopInv ==
  /\ \E n \in 0 .. MaxRuns : Used = 1 .. n
  /\ \A k \in LiveLoops : k = manager.run \/ k \in manager.cancelled
  /\ lifecycleMu = None => \A k \in LiveLoops : k = manager.run
  /\ lifecycleMu # None => manager.run = 0 /\ \A k \in LiveLoops : k = at[lifecycleMu].loop
  /\ \A u \in Users : at[u].pc = "install" => NextRun \in Runs

(* A loop that works and whose operation is neither revoked nor cancelled  *)
(* works in the current generation of a mode that is neither stopped nor   *)
(* paused.                                                                 *)
Working == {"edgePlan", "ensure", "plan", "choice", "texture", "begin", "startup", "target", "lead",
            "commit", "answered"}

InForce(k, gen) ==
  /\ manager.operation = k /\ Current(manager, k, gen)
  /\ ~manager.stopped /\ ~manager.paused /\ ~manager.pending

WorkInv ==
  \A k \in Runs :
    /\ at[k].pc \in Working /\ k \notin manager.revoked \cup manager.cancelled => InForce(k, at[k].gen)
    /\ at[k].pc = "edgeReturn" /\ manager.generation = at[k].gen /\ HoldID = at[k].id =>
         ~manager.stopped /\ ~manager.pending

(* No generation is newer than the current one. *)
GenInv ==
  /\ engine.gen <= manager.generation
  /\ engine.began <= manager.generation
  /\ halted <= manager.generation

(* What plays, or may be resumed, is not older than the last Stop. *)
Pausing == \E v \in Users : at[v].pc = "pausing" /\ v \in engine.admitted

Fresh == /\ engine.began >= halted
         /\ engine.source # "chat" => engine.gen >= halted

EngineInv ==
  /\ engine.bound # {} => Running(engine)
  /\ engine.barriers # {} => ~Running(engine)
  /\ \A u \in Users : at[u].pc \in {"halting", "pausing"} => u \in engine.barriers
  /\ \A u \in Users : at[u].pc = "halting" => engine.state = "idle" /\ ~Pausing
  /\ engine.state # "idle" \/ Pausing => Fresh

(* Motion that is on its way to the engine and that a Stop has not cut off *)
(* is not older than that Stop.                                            *)
Arrives(t) ==
  /\ t \in Users /\ at[t].pc = "begin" /\ t \in engine.admitted =>
       /\ at[t].gen >= halted
       /\ \A v \in Users : at[v].pc = "halting" => at[t].gen >= at[v].gen
  /\ at[t].pc = "target" /\ Guarded(t) /\ at[t].saw.plan = engine.plan /\ Running(engine) =>
       at[t].gen >= halted
  /\ at[t].pc = "lead" /\ Guarded(t) /\ t \in engine.bound => at[t].gen >= halted
  /\ at[t].pc = "commit" /\ at[t].call \notin {"chat", "settings"} /\ t \in engine.bound =>
       at[t].gen >= halted
  /\ t \in Runs /\ at[t].pc = "commit" /\ t \in engine.bound => engine.gen <= at[t].gen

ArrivalInv == \A t \in Users \cup Runs : Arrives(t)

(* A plan names one motion: who has kept its number knows its source.      *)
HoldInv ==
  manager.edge # None =>
    /\ manager.edge.plan <= engine.plan
    /\ manager.edge.applied /\ manager.edge.plan = engine.plan => engine.source = "edge"

Sees(t) ==
  /\ at[t].saw.plan <= engine.plan
  /\ at[t].saw.plan = engine.plan =>
       /\ at[t].pc \in {"tickEdge", "reconcile"} => at[t].saw.source = engine.source
       /\ at[t].call = "return" /\ at[t].pc = "target" => engine.source = "edge"
       /\ at[t].call = "edge" /\ at[t].pc = "answered" /\ at[t].ok # "no" => engine.source = "edge"
  /\ at[t].call = "return" /\ at[t].pc \in {"lead", "commit"} /\ t \in engine.bound =>
       engine.source = "edge"

PlanInv == HoldInv /\ \A t \in Users \cup Runs : Sees(t)

IInv == StateOK /\ PlaceInv /\ LoopInv /\ WorkInv /\ GenInv /\ EngineInv /\ ArrivalInv /\ PlanInv

-----------------------------------------------------------------------------
(* What a section of mu by a request or a reaper leaves to the loops: an   *)
(* operation in force goes on or is revoked, and a hold that is still the  *)
(* same is as good as it was.                                              *)

Monotone(m, n) ==
  /\ m.generation <= n.generation
  /\ m.intent <= n.intent
  /\ m.cancelled \subseteq n.cancelled

Allows(m, n) ==
  /\ \A k \in Runs : k \in m.revoked => k \in n.revoked
  /\ \A k \in Runs :
       m.operation = k /\ m.run = k /\ k \notin n.revoked \cup n.cancelled /\ ~m.stopped /\ ~m.paused /\ ~m.pending =>
         /\ n.operation = k /\ n.run = k /\ n.generation = m.generation
         /\ ~n.stopped /\ ~n.paused /\ ~n.pending
  /\ n.edge # None /\ n.generation = m.generation =>
       /\ m.edge # None /\ n.edge.id = m.edge.id
       /\ n.stopped => m.stopped
       /\ n.pending => m.pending

SameHold(m, n) ==
  n.edge # None => /\ m.edge # None
                   /\ n.edge.id = m.edge.id /\ n.edge.plan = m.edge.plan /\ n.edge.applied = m.edge.applied

(* A section that keeps the manager in order, and one that besides takes   *)
(* up no new plan for its hold.                                            *)
Orderly(m, n) == ManagerOK(n) /\ Monotone(m, n) /\ Allows(m, n)
Section(m, n) == Orderly(m, n) /\ SameHold(m, n)

(* Doing nothing is a section.                                             *)
LEMMA SectionStays ==
  ASSUME NEW m, ManagerOK(m)
  PROVE  Section(m, m)
  BY DEF Section, Orderly, ManagerOK, Managers, Monotone, Allows, SameHold

(* One after the other is as good as one.                                  *)
LEMMA OrderlyTrans ==
  ASSUME NEW m, NEW n, NEW p, ManagerOK(m), Orderly(m, n), Orderly(n, p)
  PROVE  Orderly(m, p)
  <1>1. m.generation \in Nat /\ n.generation \in Nat /\ p.generation \in Nat
    BY DEF Orderly, ManagerOK, Managers
  <1>2. Monotone(m, p)
    BY DEF Orderly, Monotone, ManagerOK, Managers
  <1>3. m.generation <= n.generation /\ n.generation <= p.generation /\ n.cancelled \subseteq p.cancelled
    BY DEF Orderly, Monotone
  <1>4. Allows(m, p)
    BY <1>1, <1>3 DEF Orderly, Allows
  <1> QED
    BY <1>2, <1>4 DEF Orderly

(* Two sections under Manager.mu, one after the other, are a section.      *)
LEMMA SectionTrans ==
  ASSUME NEW m, NEW n, NEW p, ManagerOK(m), Section(m, n), Section(n, p)
  PROVE  Section(m, p)
  <1>1. SameHold(m, p)
    BY DEF Section, SameHold
  <1> QED
    BY <1>1, OrderlyTrans DEF Section

(* The fields that the latch, the operation and the hold are about.        *)
SamePause(m, n) ==
  /\ n.intent = m.intent /\ n.pauses = m.pauses /\ n.paused = m.paused
  /\ n.pauseConfirmed = m.pauseConfirmed /\ n.resumeConfirmed = m.resumeConfirmed

SameWork(m, n) ==
  /\ n.run = m.run /\ n.generation = m.generation /\ n.operation = m.operation
  /\ n.revoked = m.revoked /\ n.cancelled = m.cancelled

SameState(m, n) == n.edge = m.edge /\ n.stopped = m.stopped /\ n.pending = m.pending

(* Every operation under way is revoked.                                   *)
LEMMA CancelOperationFields ==
  ASSUME NEW m \in Managers
  PROVE  /\ CancelOperation(m) \in Managers /\ SamePause(m, CancelOperation(m))
         /\ CancelOperation(m).run = m.run /\ CancelOperation(m).generation = m.generation
         /\ CancelOperation(m).operation = m.operation
         /\ CancelOperation(m).cancelled = m.cancelled /\ SameState(m, CancelOperation(m))
         /\ CancelOperation(m).revoked = m.revoked \cup ({m.operation} \ {None})
  <1> DEFINE xRevoked == m.revoked \cup ({m.operation} \ {None})
             n == [m EXCEPT !.revoked = xRevoked]
  <1>1. xRevoked \in SUBSET Goroutines
    BY DEF Managers
  <1>2. CancelOperation(m) = n
    BY DEF CancelOperation, Managers
  <1> HIDE DEF xRevoked
  <1>3. /\ n \in Managers /\ SamePause(m, n) /\ n.run = m.run /\ n.generation = m.generation
         /\ n.operation = m.operation /\ n.cancelled = m.cancelled /\ SameState(m, n)
         /\ n.revoked = xRevoked
    BY <1>1 DEF Managers, SamePause, SameWork, SameState
  <1> QED
    BY <1>2, <1>3 DEF xRevoked

(* A newer generation revokes it too.                                      *)
LEMMA AdvanceFields ==
  ASSUME NEW m \in Managers
  PROVE  /\ Advance(m) \in Managers /\ SamePause(m, Advance(m)) /\ Advance(m).run = m.run
         /\ Advance(m).operation = m.operation /\ Advance(m).cancelled = m.cancelled
         /\ SameState(m, Advance(m))
         /\ Advance(m).revoked = m.revoked \cup ({m.operation} \ {None})
         /\ Advance(m).generation = m.generation + 1
  <1> DEFINE xRevoked == m.revoked \cup ({m.operation} \ {None})
             xGeneration == m.generation + 1
             n == [m EXCEPT !.revoked = xRevoked, !.generation = xGeneration]
  <1>1. xRevoked \in SUBSET Goroutines /\ xGeneration \in Nat
    BY DEF Managers
  <1>2. Advance(m) = n
    BY DEF Advance, CancelOperation, Managers
  <1> HIDE DEF xRevoked, xGeneration
  <1>3. /\ n \in Managers /\ SamePause(m, n) /\ n.run = m.run /\ n.operation = m.operation
         /\ n.cancelled = m.cancelled /\ SameState(m, n) /\ n.revoked = xRevoked
         /\ n.generation = xGeneration
    BY <1>1 DEF Managers, SamePause, SameWork, SameState
  <1> QED
    BY <1>2, <1>3 DEF xRevoked, xGeneration

(* A hold that is suspended is not returned from automatically. *)
LEMMA SuspendEdgeFields ==
  ASSUME NEW m \in Managers
  PROVE  /\ SuspendEdge(m) \in Managers
         /\ SamePause(m, SuspendEdge(m)) /\ SameWork(m, SuspendEdge(m))
         /\ SuspendEdge(m).stopped = m.stopped /\ SuspendEdge(m).pending = m.pending
         /\ m.edge # None => SuspendEdge(m).edge = [m.edge EXCEPT !.automatic = FALSE]
         /\ m.edge = None => SuspendEdge(m).edge = None
  <1>1. CASE m.edge = None
    BY <1>1 DEF SuspendEdge, SamePause, SameWork
  <1>2. CASE m.edge # None
    <2> DEFINE e == [m.edge EXCEPT !.automatic = FALSE]
    <2>1. m.edge \in Holds
      BY <1>2 DEF Managers
    <2>2. e \in Holds
      BY <2>1 DEF Holds
    <2>3. SuspendEdge(m) = [m EXCEPT !.edge = e]
      BY <1>2 DEF SuspendEdge, Managers
    <2> HIDE DEF e
    <2> QED
      BY <1>2, <2>2, <2>3 DEF Managers, SamePause, SameWork, e
  <1> QED
    BY <1>1, <1>2

(* The user's pauses are over.                                             *)
LEMMA ResetUserPauseFields ==
  ASSUME NEW m \in Managers
  PROVE  /\ ResetUserPause(m) \in Managers /\ SameWork(m, ResetUserPause(m))
         /\ SameState(m, ResetUserPause(m)) /\ ResetUserPause(m).intent = m.intent + 1
         /\ ResetUserPause(m).pauseConfirmed = 0
         /\ ResetUserPause(m).resumeConfirmed = m.intent + 1 /\ ResetUserPause(m).pauses = {}
         /\ ResetUserPause(m).paused = FALSE
  <1> DEFINE xIntent == m.intent + 1
             xResumeConfirmed == m.intent + 1
             n == [m EXCEPT !.intent = xIntent, !.pauseConfirmed = 0, !.resumeConfirmed = xResumeConfirmed, !.pauses = {}, !.paused = FALSE]
  <1>1. xIntent \in Nat /\ xResumeConfirmed \in Nat
    BY DEF Managers
  <1>2. ResetUserPause(m) = n
    BY DEF ResetUserPause, Managers
  <1> HIDE DEF xIntent, xResumeConfirmed
  <1>3. /\ n \in Managers /\ SameWork(m, n) /\ SameState(m, n) /\ n.intent = xIntent
         /\ n.pauseConfirmed = 0 /\ n.resumeConfirmed = xResumeConfirmed /\ n.pauses = {}
         /\ n.paused = FALSE
    BY <1>1 DEF Managers, SamePause, SameWork, SameState
  <1> QED
    BY <1>2, <1>3 DEF xIntent, xResumeConfirmed

(* A stop forgets the hold and the handoff.                                *)
LEMMA ForgetMotionFields ==
  ASSUME NEW m \in Managers
  PROVE  /\ ForgetMotion(m) \in Managers /\ SamePause(m, ForgetMotion(m))
         /\ SameWork(m, ForgetMotion(m)) /\ ForgetMotion(m).edge = None
         /\ ForgetMotion(m).stopped = TRUE /\ ForgetMotion(m).pending = FALSE
  <1> DEFINE n == [m EXCEPT !.edge = None, !.stopped = TRUE, !.keepalive = FALSE, !.pending = FALSE, !.activity = FALSE]
  <1>1. ForgetMotion(m) = n
    BY DEF ForgetMotion, Managers
  <1>2. /\ n \in Managers /\ SamePause(m, n) /\ SameWork(m, n) /\ n.edge = None
         /\ n.stopped = TRUE /\ n.pending = FALSE
    BY DEF Managers, SamePause, SameWork, SameState
  <1> QED
    BY <1>1, <1>2

(* An operation is admitted.                                               *)
LEMMA BeginOperationFields ==
  ASSUME NEW m \in Managers, NEW t \in Goroutines
  PROVE  /\ BeginOperation(m, t) \in Managers /\ SamePause(m, BeginOperation(m, t))
         /\ BeginOperation(m, t).run = m.run /\ BeginOperation(m, t).generation = m.generation
         /\ BeginOperation(m, t).cancelled = m.cancelled /\ SameState(m, BeginOperation(m, t))
         /\ BeginOperation(m, t).operation = t /\ BeginOperation(m, t).revoked = m.revoked \ {t}
  <1> DEFINE xOperation == t
             xRevoked == m.revoked \ {t}
             n == [m EXCEPT !.operation = xOperation, !.revoked = xRevoked]
  <1>1. xOperation \in Goroutines \cup {None} /\ xRevoked \in SUBSET Goroutines
    BY DEF Managers
  <1>2. BeginOperation(m, t) = n
    BY DEF BeginOperation, Managers
  <1> HIDE DEF xOperation, xRevoked
  <1>3. /\ n \in Managers /\ SamePause(m, n) /\ n.run = m.run /\ n.generation = m.generation
         /\ n.cancelled = m.cancelled /\ SameState(m, n) /\ n.operation = xOperation
         /\ n.revoked = xRevoked
    BY <1>1 DEF Managers, SamePause, SameWork, SameState
  <1> QED
    BY <1>2, <1>3 DEF xOperation, xRevoked

(* An operation is over.                                                   *)
LEMMA FinishOperationFields ==
  ASSUME NEW m \in Managers, NEW t \in Goroutines
  PROVE  /\ FinishOperation(m, t) \in Managers /\ SamePause(m, FinishOperation(m, t))
         /\ FinishOperation(m, t).run = m.run /\ FinishOperation(m, t).generation = m.generation
         /\ FinishOperation(m, t).cancelled = m.cancelled /\ SameState(m, FinishOperation(m, t))
         /\ FinishOperation(m, t).operation = (IF m.operation = t THEN None ELSE m.operation)
         /\ FinishOperation(m, t).revoked = m.revoked \ {t}
  <1> DEFINE xOperation == (IF m.operation = t THEN None ELSE m.operation)
             xRevoked == m.revoked \ {t}
             n == [m EXCEPT !.operation = xOperation, !.revoked = xRevoked]
  <1>1. xOperation \in Goroutines \cup {None} /\ xRevoked \in SUBSET Goroutines
    BY DEF Managers
  <1>2. FinishOperation(m, t) = n
    BY DEF FinishOperation, Managers
  <1> HIDE DEF xOperation, xRevoked
  <1>3. /\ n \in Managers /\ SamePause(m, n) /\ n.run = m.run /\ n.generation = m.generation
         /\ n.cancelled = m.cancelled /\ SameState(m, n) /\ n.operation = xOperation
         /\ n.revoked = xRevoked
    BY <1>1 DEF Managers, SamePause, SameWork, SameState
  <1> QED
    BY <1>2, <1>3 DEF xOperation, xRevoked

(* A chat target is on its way.                                            *)
LEMMA PrepareChatTargetFields ==
  ASSUME NEW m \in Managers
  PROVE  /\ PrepareChatTarget(m) \in Managers /\ SamePause(m, PrepareChatTarget(m))
         /\ PrepareChatTarget(m).run = m.run /\ PrepareChatTarget(m).operation = m.operation
         /\ PrepareChatTarget(m).cancelled = m.cancelled /\ PrepareChatTarget(m).edge = m.edge
         /\ PrepareChatTarget(m).stopped = m.stopped
         /\ PrepareChatTarget(m).revoked = m.revoked \cup ({m.operation} \ {None})
         /\ PrepareChatTarget(m).generation = m.generation + 1
         /\ PrepareChatTarget(m).pending = TRUE
  <1> DEFINE b == Advance(m)
  <1>1. /\ b \in Managers /\ SamePause(m, b) /\ b.run = m.run /\ b.operation = m.operation
         /\ b.cancelled = m.cancelled /\ SameState(m, b)
         /\ b.revoked = m.revoked \cup ({m.operation} \ {None})
         /\ b.generation = m.generation + 1
    BY AdvanceFields
  <1> DEFINE xOwner == m.generation + 1
             n == [b EXCEPT !.pending = TRUE, !.owner = xOwner]
  <1>2. PrepareChatTarget(m) = n
    BY <1>1 DEF PrepareChatTarget, Managers, SamePause, SameWork, SameState
  <1> HIDE DEF b
  <1>3. /\ xOwner \in Nat
    BY <1>1, ModesAssumption DEF Managers, SamePause, SameWork, SameState, Runs
  <1> HIDE DEF xOwner
  <1>4. /\ n \in Managers /\ SamePause(b, n) /\ SameWork(b, n) /\ n.edge = b.edge
         /\ n.stopped = b.stopped /\ n.pending = TRUE
    BY <1>1, <1>3 DEF Managers, SamePause, SameWork, SameState
  <1> HIDE DEF n
  <1> QED
    BY <1>2, <1>4, <1>1 DEF SamePause, SameWork, SameState, xOwner

(* A mode loop is told to end.                                             *)
LEMMA DetachFields ==
  ASSUME NEW m \in Managers
  PROVE  /\ Detach(m) \in Managers /\ Detach(m).operation = m.operation
         /\ SameState(m, Detach(m)) /\ Detach(m).intent = m.intent + 1
         /\ Detach(m).pauseConfirmed = 0 /\ Detach(m).resumeConfirmed = m.intent + 1
         /\ Detach(m).pauses = {} /\ Detach(m).paused = FALSE
         /\ Detach(m).revoked = m.revoked \cup ({m.operation} \ {None})
         /\ Detach(m).generation = m.generation + 1
         /\ Detach(m).cancelled = (m.cancelled \cup {m.run}) \ {0} /\ Detach(m).run = 0
  <1> DEFINE c == ResetUserPause(m)
             b == Advance(c)
  <1>1. /\ c \in Managers /\ SameWork(m, c) /\ SameState(m, c) /\ c.intent = m.intent + 1
         /\ c.pauseConfirmed = 0 /\ c.resumeConfirmed = m.intent + 1 /\ c.pauses = {}
         /\ c.paused = FALSE
    BY ResetUserPauseFields
  <1>2. /\ b \in Managers /\ SamePause(c, b) /\ b.run = c.run /\ b.operation = c.operation
         /\ b.cancelled = c.cancelled /\ SameState(c, b)
         /\ b.revoked = c.revoked \cup ({c.operation} \ {None})
         /\ b.generation = c.generation + 1
    BY <1>1, AdvanceFields
  <1> DEFINE xCancelled == (m.cancelled \cup {m.run}) \ {0}
             xRun == 0
             n == [b EXCEPT !.cancelled = xCancelled, !.run = xRun]
  <1>3. Detach(m) = n
    BY <1>1, <1>2 DEF Detach, Managers, SamePause, SameWork, SameState
  <1> HIDE DEF c, b
  <1>4. /\ xCancelled \in SUBSET Runs /\ xRun \in 0 .. MaxRuns
    BY <1>1, <1>2, ModesAssumption DEF Managers, SamePause, SameWork, SameState, Runs
  <1> HIDE DEF xCancelled, xRun
  <1>5. /\ n \in Managers /\ SamePause(b, n) /\ n.generation = b.generation
         /\ n.operation = b.operation /\ n.revoked = b.revoked /\ SameState(b, n)
         /\ n.cancelled = xCancelled /\ n.run = xRun
    BY <1>2, <1>4 DEF Managers, SamePause, SameWork, SameState
  <1> HIDE DEF n
  <1> QED
    BY <1>3, <1>5, <1>1, <1>2 DEF SamePause, SameWork, SameState, xCancelled, xRun

(* A mode starts.                                                          *)
LEMMA ResetForModeStartFields ==
  ASSUME NEW m \in Managers, NEW k \in Runs
  PROVE  /\ ResetForModeStart(m, k) \in Managers
         /\ ResetForModeStart(m, k).operation = m.operation
         /\ ResetForModeStart(m, k).revoked = m.revoked
         /\ ResetForModeStart(m, k).cancelled = m.cancelled
         /\ ResetForModeStart(m, k).intent = m.intent + 1
         /\ ResetForModeStart(m, k).pauseConfirmed = 0
         /\ ResetForModeStart(m, k).resumeConfirmed = m.intent + 1
         /\ ResetForModeStart(m, k).pauses = {} /\ ResetForModeStart(m, k).paused = FALSE
         /\ ResetForModeStart(m, k).generation = m.generation + 1
         /\ ResetForModeStart(m, k).run = k /\ ResetForModeStart(m, k).edge = None
         /\ ResetForModeStart(m, k).stopped = FALSE /\ ResetForModeStart(m, k).pending = FALSE
  <1> DEFINE b == ResetUserPause(m)
  <1>1. /\ b \in Managers /\ SameWork(m, b) /\ SameState(m, b) /\ b.intent = m.intent + 1
         /\ b.pauseConfirmed = 0 /\ b.resumeConfirmed = m.intent + 1 /\ b.pauses = {}
         /\ b.paused = FALSE
    BY ResetUserPauseFields
  <1> DEFINE xGeneration == m.generation + 1
             xRun == k
             n == [b EXCEPT !.generation = xGeneration, !.run = xRun, !.edge = None, !.stopped = FALSE, !.keepalive = FALSE, !.pending = FALSE, !.planned = None]
  <1>2. ResetForModeStart(m, k) = n
    BY <1>1 DEF ResetForModeStart, Managers, SamePause, SameWork, SameState
  <1> HIDE DEF b
  <1>3. /\ xGeneration \in Nat /\ xRun \in 0 .. MaxRuns
    BY <1>1, ModesAssumption DEF Managers, SamePause, SameWork, SameState, Runs
  <1> HIDE DEF xGeneration, xRun
  <1>4. /\ n \in Managers /\ SamePause(b, n) /\ n.operation = b.operation
         /\ n.revoked = b.revoked /\ n.cancelled = b.cancelled /\ n.generation = xGeneration
         /\ n.run = xRun /\ n.edge = None /\ n.stopped = FALSE /\ n.pending = FALSE
    BY <1>1, <1>3 DEF Managers, SamePause, SameWork, SameState
  <1> HIDE DEF n
  <1> QED
    BY <1>2, <1>4, <1>1 DEF SamePause, SameWork, SameState, xGeneration, xRun

(* What a user's stop leaves of the mode.                                  *)
LEMMA BeginUserStopFields ==
  ASSUME NEW m \in Managers
  PROVE  /\ BeginUserStop(m) \in Managers /\ BeginUserStop(m).operation = m.operation
         /\ BeginUserStop(m).edge = None /\ BeginUserStop(m).stopped = TRUE
         /\ BeginUserStop(m).pending = FALSE /\ BeginUserStop(m).intent = m.intent + 1
         /\ BeginUserStop(m).pauseConfirmed = 0
         /\ BeginUserStop(m).resumeConfirmed = m.intent + 1 /\ BeginUserStop(m).pauses = {}
         /\ BeginUserStop(m).paused = FALSE
         /\ BeginUserStop(m).revoked = m.revoked \cup ({m.operation} \ {None})
         /\ BeginUserStop(m).generation = m.generation + 1
         /\ BeginUserStop(m).cancelled = (m.cancelled \cup {m.run}) \ {0}
         /\ BeginUserStop(m).run = 0
  <1> DEFINE b == ForgetMotion(m)
             c == Detach(b)
  <1>1. /\ b \in Managers /\ SamePause(m, b) /\ SameWork(m, b) /\ b.edge = None
         /\ b.stopped = TRUE /\ b.pending = FALSE
    BY ForgetMotionFields
  <1>2. /\ c \in Managers /\ c.operation = b.operation /\ SameState(b, c)
         /\ c.intent = b.intent + 1 /\ c.pauseConfirmed = 0 /\ c.resumeConfirmed = b.intent + 1
         /\ c.pauses = {} /\ c.paused = FALSE
         /\ c.revoked = b.revoked \cup ({b.operation} \ {None})
         /\ c.generation = b.generation + 1 /\ c.cancelled = (b.cancelled \cup {b.run}) \ {0}
         /\ c.run = 0
    BY <1>1, DetachFields
  <1>3. BeginUserStop(m) = c
    BY DEF BeginUserStop
  <1> HIDE DEF b, c
  <1> QED
    BY <1>3, <1>1, <1>2 DEF SamePause, SameWork, SameState

(* What a chat stop leaves of the mode.                                    *)
LEMMA NotifyChatStopFields ==
  ASSUME NEW m \in Managers
  PROVE  /\ NotifyChatStop(m) \in Managers /\ NotifyChatStop(m).run = m.run
         /\ NotifyChatStop(m).operation = m.operation
         /\ NotifyChatStop(m).cancelled = m.cancelled /\ NotifyChatStop(m).edge = None
         /\ NotifyChatStop(m).stopped = TRUE /\ NotifyChatStop(m).pending = FALSE
         /\ NotifyChatStop(m).intent = m.intent + 1 /\ NotifyChatStop(m).pauseConfirmed = 0
         /\ NotifyChatStop(m).resumeConfirmed = m.intent + 1 /\ NotifyChatStop(m).pauses = {}
         /\ NotifyChatStop(m).paused = FALSE
         /\ NotifyChatStop(m).revoked = m.revoked \cup ({m.operation} \ {None})
         /\ NotifyChatStop(m).generation = m.generation + 1
  <1> DEFINE b == ForgetMotion(m)
             c == ResetUserPause(b)
             d == Advance(c)
  <1>1. /\ b \in Managers /\ SamePause(m, b) /\ SameWork(m, b) /\ b.edge = None
         /\ b.stopped = TRUE /\ b.pending = FALSE
    BY ForgetMotionFields
  <1>2. /\ c \in Managers /\ SameWork(b, c) /\ SameState(b, c) /\ c.intent = b.intent + 1
         /\ c.pauseConfirmed = 0 /\ c.resumeConfirmed = b.intent + 1 /\ c.pauses = {}
         /\ c.paused = FALSE
    BY <1>1, ResetUserPauseFields
  <1>3. /\ d \in Managers /\ SamePause(c, d) /\ d.run = c.run /\ d.operation = c.operation
         /\ d.cancelled = c.cancelled /\ SameState(c, d)
         /\ d.revoked = c.revoked \cup ({c.operation} \ {None})
         /\ d.generation = c.generation + 1
    BY <1>2, AdvanceFields
  <1>4. NotifyChatStop(m) = d
    BY DEF NotifyChatStop
  <1> HIDE DEF b, c, d
  <1> QED
    BY <1>4, <1>1, <1>2, <1>3 DEF SamePause, SameWork, SameState

-----------------------------------------------------------------------------
(* The sections of mu, one by one.                                         *)

(* Clocks, tickets and the chat's bookkeeping do not matter to the loops.  *)
LEMMA SameSection ==
  ASSUME NEW m, NEW n, ManagerOK(m), n \in Managers, SamePause(m, n), SameWork(m, n), SameState(m, n)
  PROVE  Section(m, n)
  <1>1. ManagerOK(n)
    BY DEF ManagerOK, SamePause, SameWork, SameState, Latched
  <1>2. Monotone(m, n) /\ SameHold(m, n)
    BY DEF Monotone, SameHold, SamePause, SameWork, SameState, ManagerOK, Managers
  <1>3. Allows(m, n)
    BY DEF Allows, SamePause, SameWork, SameState
  <1> QED
    BY <1>1, <1>2, <1>3 DEF Section, Orderly

(* A section that revokes what is under way may do what it wants else.     *)
LEMMA RevokingSection ==
  ASSUME NEW m, NEW n, ManagerOK(m), ManagerOK(n),
         m.generation < n.generation, m.intent <= n.intent, m.cancelled \subseteq n.cancelled,
         \A k \in Runs : k \in m.revoked \/ m.operation = k => k \in n.revoked
  PROVE  Orderly(m, n)
  <1>1. m.generation \in Nat /\ n.generation \in Nat
    BY DEF ManagerOK, Managers
  <1> QED
    BY <1>1 DEF Orderly, Monotone, Allows

(* advance revokes the operation that runs and makes everything older      *)
(* stale.                                                                  *)
LEMMA AdvanceSection ==
  ASSUME NEW m, ManagerOK(m)
  PROVE  Section(m, Advance(m)) /\ ManagerOK(Advance(m)) /\ Advance(m).generation > m.generation
  <1> DEFINE n == Advance(m)
  <1>1. m \in Managers
    BY DEF ManagerOK
  <1>2. /\ n \in Managers /\ SamePause(m, n) /\ SameState(m, n)
        /\ n.run = m.run /\ n.cancelled = m.cancelled /\ n.operation = m.operation
        /\ n.generation = m.generation + 1 /\ n.revoked = m.revoked \cup ({m.operation} \ {None})
    BY <1>1, AdvanceFields
  <1> HIDE DEF n
  <1>3. m.generation \in Nat /\ m.intent \in Nat
    BY <1>1 DEF Managers
  <1>4. ManagerOK(n)
    BY <1>1, <1>2 DEF ManagerOK, SamePause, SameState, Latched
  <1>5. \A k \in Runs : k \in m.revoked \/ m.operation = k => k \in n.revoked
    BY <1>2, ModesAssumption DEF Runs
  <1>6. SameHold(m, n)
    BY <1>2 DEF SameHold, SameState
  <1>7. Orderly(m, n)
    BY <1>2, <1>3, <1>4, <1>5, RevokingSection DEF SamePause
  <1> QED
    BY <1>2, <1>3, <1>4, <1>6, <1>7 DEF Section, n

(* suspendEdge keeps the hold and only withdraws its automatic return.     *)
LEMMA SuspendEdgeSection ==
  ASSUME NEW m, ManagerOK(m)
  PROVE  Section(m, SuspendEdge(m)) /\ ManagerOK(SuspendEdge(m)) /\ SuspendEdge(m).run = m.run
         /\ SuspendEdge(m).generation = m.generation /\ SuspendEdge(m).cancelled = m.cancelled
         /\ SuspendEdge(m).intent = m.intent
  <1> DEFINE n == SuspendEdge(m)
  <1>1. m \in Managers
    BY DEF ManagerOK
  <1>2. /\ n \in Managers /\ SamePause(m, n) /\ SameWork(m, n)
        /\ n.stopped = m.stopped /\ n.pending = m.pending
        /\ m.edge # None => n.edge = [m.edge EXCEPT !.automatic = FALSE]
        /\ m.edge = None => n.edge = None
    BY <1>1, SuspendEdgeFields
  <1> HIDE DEF n
  <1>3. m.edge # None => /\ n.edge.id = m.edge.id /\ n.edge.plan = m.edge.plan
                         /\ n.edge.applied = m.edge.applied /\ n.edge.decided = m.edge.decided
    BY <1>1, <1>2 DEF Managers, Holds
  <1>4. ManagerOK(n)
    BY <1>1, <1>2, <1>3 DEF ManagerOK, SamePause, SameWork, Latched
  <1>5. Monotone(m, n) /\ SameHold(m, n)
    BY <1>1, <1>2, <1>3 DEF Monotone, SameHold, SamePause, SameWork, Managers
  <1>6. Allows(m, n)
    BY <1>2, <1>3 DEF Allows, SamePause, SameWork
  <1> QED
    BY <1>2, <1>4, <1>5, <1>6 DEF Section, Orderly, SamePause, SameWork, n

(* prepareChatTarget makes the loop's work stale before it sets pending.   *)
LEMMA PrepareChatTargetSection ==
  ASSUME NEW m, ManagerOK(m)
  PROVE  Section(m, PrepareChatTarget(m)) /\ ManagerOK(PrepareChatTarget(m))
         /\ PrepareChatTarget(m).generation = m.generation + 1 /\ PrepareChatTarget(m).run = m.run
  <1> DEFINE n == PrepareChatTarget(m)
  <1>1. m \in Managers
    BY DEF ManagerOK
  <1>2. /\ n \in Managers /\ SamePause(m, n) /\ n.run = m.run /\ n.operation = m.operation
        /\ n.cancelled = m.cancelled /\ n.edge = m.edge /\ n.stopped = m.stopped
        /\ n.revoked = m.revoked \cup ({m.operation} \ {None})
        /\ n.generation = m.generation + 1
    BY <1>1, PrepareChatTargetFields
  <1> HIDE DEF n
  <1>3. m.generation \in Nat /\ m.intent \in Nat
    BY <1>1 DEF Managers
  <1>4. ManagerOK(n)
    BY <1>1, <1>2 DEF ManagerOK, SamePause, Latched
  <1>5. \A k \in Runs : k \in m.revoked \/ m.operation = k => k \in n.revoked
    BY <1>2, ModesAssumption DEF Runs
  <1>6. SameHold(m, n)
    BY <1>2 DEF SameHold
  <1>7. Orderly(m, n)
    BY <1>2, <1>3, <1>4, <1>5, RevokingSection DEF SamePause
  <1> QED
    BY <1>2, <1>4, <1>6, <1>7 DEF Section, n

(* Detaching a loop revokes its operation, cancels it and leaves no pause  *)
(* behind.                                                                 *)
LEMMA DetachSection ==
  ASSUME NEW m, ManagerOK(m)
  PROVE  /\ Section(m, Detach(m)) /\ ManagerOK(Detach(m))
         /\ Detach(m).generation = m.generation + 1 /\ Detach(m).run = 0
         /\ Detach(m).cancelled = (m.cancelled \cup {m.run}) \ {0}
  <1> DEFINE n == Detach(m)
  <1>1. m \in Managers
    BY DEF ManagerOK
  <1>2. /\ n \in Managers /\ n.operation = m.operation /\ SameState(m, n)
        /\ n.intent = m.intent + 1 /\ n.pauseConfirmed = 0 /\ n.resumeConfirmed = m.intent + 1
        /\ n.pauses = {} /\ n.paused = FALSE
        /\ n.revoked = m.revoked \cup ({m.operation} \ {None})
        /\ n.generation = m.generation + 1 /\ n.cancelled = (m.cancelled \cup {m.run}) \ {0}
        /\ n.run = 0
    BY <1>1, DetachFields
  <1> HIDE DEF n
  <1>3. m.generation \in Nat /\ m.intent \in Nat /\ 0 \notin m.cancelled
    BY <1>1, ModesAssumption DEF Managers, Runs
  <1>4. ManagerOK(n)
    BY <1>1, <1>2, <1>3 DEF ManagerOK, Latched, SameState
  <1>5. \A k \in Runs : k \in m.revoked \/ m.operation = k => k \in n.revoked
    BY <1>2, ModesAssumption DEF Runs
  <1>6. SameHold(m, n)
    BY <1>2 DEF SameHold, SameState
  <1>7. m.generation < n.generation /\ m.intent <= n.intent /\ m.cancelled \subseteq n.cancelled
    BY <1>2, <1>3
  <1>8. Orderly(m, n)
    BY <1>4, <1>5, <1>7, RevokingSection
  <1> QED
    BY <1>2, <1>4, <1>6, <1>8 DEF Section, n

(* A user stop is a detach that also forgets what the mode would resume.   *)
LEMMA BeginUserStopSection ==
  ASSUME NEW m, ManagerOK(m)
  PROVE  /\ Section(m, BeginUserStop(m)) /\ ManagerOK(BeginUserStop(m))
         /\ BeginUserStop(m).generation = m.generation + 1 /\ BeginUserStop(m).run = 0
         /\ BeginUserStop(m).cancelled = (m.cancelled \cup {m.run}) \ {0}
  <1> DEFINE n == BeginUserStop(m)
  <1>1. m \in Managers
    BY DEF ManagerOK
  <1>2. /\ n \in Managers /\ n.operation = m.operation /\ n.edge = None /\ n.stopped = TRUE
        /\ n.pending = FALSE /\ n.intent = m.intent + 1 /\ n.pauseConfirmed = 0
        /\ n.resumeConfirmed = m.intent + 1 /\ n.pauses = {} /\ n.paused = FALSE
        /\ n.revoked = m.revoked \cup ({m.operation} \ {None})
        /\ n.generation = m.generation + 1 /\ n.cancelled = (m.cancelled \cup {m.run}) \ {0}
        /\ n.run = 0
    BY <1>1, BeginUserStopFields
  <1> HIDE DEF n
  <1>3. m.generation \in Nat /\ m.intent \in Nat /\ 0 \notin m.cancelled
    BY <1>1, ModesAssumption DEF Managers, Runs
  <1>4. ManagerOK(n)
    BY <1>1, <1>2, <1>3 DEF ManagerOK, Latched, SameState
  <1>5. \A k \in Runs : k \in m.revoked \/ m.operation = k => k \in n.revoked
    BY <1>2, ModesAssumption DEF Runs
  <1>6. SameHold(m, n)
    BY <1>2 DEF SameHold, SameState
  <1>7. m.generation < n.generation /\ m.intent <= n.intent /\ m.cancelled \subseteq n.cancelled
    BY <1>2, <1>3
  <1>8. Orderly(m, n)
    BY <1>4, <1>5, <1>7, RevokingSection
  <1> QED
    BY <1>2, <1>4, <1>6, <1>8 DEF Section, n

(* The chat's stop forgets the motion and leaves the loop installed.       *)
LEMMA NotifyChatStopSection ==
  ASSUME NEW m, ManagerOK(m)
  PROVE  /\ Section(m, NotifyChatStop(m)) /\ ManagerOK(NotifyChatStop(m))
         /\ NotifyChatStop(m).generation = m.generation + 1 /\ NotifyChatStop(m).run = m.run
         /\ NotifyChatStop(m).cancelled = m.cancelled
  <1> DEFINE n == NotifyChatStop(m)
  <1>1. m \in Managers
    BY DEF ManagerOK
  <1>2. /\ n \in Managers /\ n.run = m.run /\ n.operation = m.operation
        /\ n.cancelled = m.cancelled /\ n.edge = None /\ n.stopped = TRUE /\ n.pending = FALSE
        /\ n.intent = m.intent + 1 /\ n.pauseConfirmed = 0 /\ n.resumeConfirmed = m.intent + 1
        /\ n.pauses = {} /\ n.paused = FALSE
        /\ n.revoked = m.revoked \cup ({m.operation} \ {None})
        /\ n.generation = m.generation + 1
    BY <1>1, NotifyChatStopFields
  <1> HIDE DEF n
  <1>3. m.generation \in Nat /\ m.intent \in Nat /\ 0 \notin m.cancelled
    BY <1>1, ModesAssumption DEF Managers, Runs
  <1>4. ManagerOK(n)
    BY <1>1, <1>2, <1>3 DEF ManagerOK, Latched, SameState
  <1>5. \A k \in Runs : k \in m.revoked \/ m.operation = k => k \in n.revoked
    BY <1>2, ModesAssumption DEF Runs
  <1>6. SameHold(m, n)
    BY <1>2 DEF SameHold, SameState
  <1>7. m.generation < n.generation /\ m.intent <= n.intent /\ m.cancelled \subseteq n.cancelled
    BY <1>2, <1>3
  <1>8. Orderly(m, n)
    BY <1>4, <1>5, <1>7, RevokingSection
  <1> QED
    BY <1>2, <1>4, <1>6, <1>8 DEF Section, n

(* stopLoop cancels the loop that is installed, if there is one.           *)
LEMMA StopLoopSection ==
  ASSUME NEW m, ManagerOK(m)
  PROVE  /\ Section(m, StopLoop(m)) /\ ManagerOK(StopLoop(m)) /\ StopLoop(m).run = 0
         /\ m.run # 0 => m.run \in StopLoop(m).cancelled
  <1> DEFINE s == SuspendEdge(m)
  <1>1. Section(m, s) /\ ManagerOK(s) /\ s.run = m.run
    BY SuspendEdgeSection
  <1> HIDE DEF s
  <1>2. CASE m.run = 0
    BY <1>1, <1>2 DEF StopLoop, s
  <1>3. CASE m.run # 0
    <2>1. Section(s, Detach(s)) /\ ManagerOK(Detach(s)) /\ Detach(s).run = 0
          /\ Detach(s).cancelled = (s.cancelled \cup {s.run}) \ {0}
      BY <1>1, DetachSection
    <2>2. Section(m, Detach(s))
      BY <1>1, <2>1, SectionTrans
    <2>3. StopLoop(m) = Detach(s)
      BY <1>3 DEF StopLoop, s
    <2> QED
      BY <1>1, <1>3, <2>1, <2>2, <2>3
  <1> QED
    BY <1>2, <1>3

(* A mode starts when no other is installed.                               *)
LEMMA ResetForModeStartSection ==
  ASSUME NEW m, ManagerOK(m), m.run = 0, NEW k \in Runs
  PROVE  /\ Section(m, ResetForModeStart(m, k)) /\ ManagerOK(ResetForModeStart(m, k))
         /\ ResetForModeStart(m, k).run = k /\ ResetForModeStart(m, k).cancelled = m.cancelled
         /\ ResetForModeStart(m, k).generation = m.generation + 1
  <1> DEFINE n == ResetForModeStart(m, k)
  <1>1. m \in Managers
    BY DEF ManagerOK
  <1>2. /\ n \in Managers /\ n.operation = m.operation /\ n.revoked = m.revoked
        /\ n.cancelled = m.cancelled /\ n.intent = m.intent + 1 /\ n.pauseConfirmed = 0
        /\ n.resumeConfirmed = m.intent + 1 /\ n.pauses = {} /\ n.paused = FALSE
        /\ n.generation = m.generation + 1 /\ n.run = k /\ n.edge = None
        /\ n.stopped = FALSE /\ n.pending = FALSE
    BY <1>1, ResetForModeStartFields
  <1> HIDE DEF n
  <1>3. m.generation \in Nat /\ m.intent \in Nat
    BY <1>1 DEF Managers
  <1>4. ManagerOK(n)
    BY <1>2, <1>3 DEF ManagerOK, Latched
  <1>5. Monotone(m, n) /\ SameHold(m, n)
    BY <1>2, <1>3 DEF Monotone, SameHold
  <1>6. Allows(m, n)
    BY <1>2, ModesAssumption DEF Allows, Runs
  <1> QED
    BY <1>2, <1>4, <1>5, <1>6 DEF Section, Orderly, n

(* A control registers its intent.                                         *)
LEMMA IntentSection ==
  ASSUME NEW m, ManagerOK(m)
  PROVE  LET n == [m EXCEPT !.intent = @ + 1]
         IN /\ Section(m, n) /\ ManagerOK(n) /\ SameWork(m, n) /\ n.intent = m.intent + 1
            /\ n.resumeConfirmed <= m.intent
  <1> DEFINE i == m.intent + 1
             n == [m EXCEPT !.intent = i]
  <1>1. m \in Managers /\ m.intent \in Nat /\ i \in Nat /\ i = m.intent + 1
    BY DEF ManagerOK, Managers
  <1>2. m.resumeConfirmed \in Nat /\ m.resumeConfirmed <= m.intent
    BY DEF ManagerOK, Managers
  <1>3. [m EXCEPT !.intent = @ + 1] = n
    BY <1>1 DEF Managers
  <1> HIDE DEF i
  <1>4. /\ n \in Managers /\ SameWork(m, n) /\ SameState(m, n) /\ n.intent = i /\ n.pauses = m.pauses
        /\ n.paused = m.paused /\ n.pauseConfirmed = m.pauseConfirmed
        /\ n.resumeConfirmed = m.resumeConfirmed
    BY <1>1 DEF Managers, SameWork, SameState
  <1> HIDE DEF n
  <1>5. ManagerOK(n)
    BY <1>1, <1>2, <1>4 DEF ManagerOK, SameWork, SameState, Latched
  <1>6. Monotone(m, n) /\ SameHold(m, n)
    BY <1>1, <1>4 DEF Monotone, SameHold, SameWork, SameState, Managers
  <1>7. Allows(m, n)
    BY <1>4 DEF Allows, SameWork, SameState
  <1> QED
    BY <1>1, <1>2, <1>3, <1>4, <1>5, <1>6, <1>7 DEF Section, Orderly

(* Pause latches the mode that is installed, or the hold.                  *)
PauseLatch(m) ==
  LET s == SuspendEdge([m EXCEPT !.intent = @ + 1])
  IN IF s.run # 0 \/ s.edge # None
     THEN [Advance(s) EXCEPT !.pauses = @ \cup {s.intent}, !.paused = TRUE]
     ELSE s

(* A pause is latched in the section that makes the loop's work stale.     *)
LEMMA PauseLatchSection ==
  ASSUME NEW m, ManagerOK(m)
  PROVE  /\ Section(m, PauseLatch(m)) /\ ManagerOK(PauseLatch(m))
         /\ PauseLatch(m).run = m.run /\ PauseLatch(m).cancelled = m.cancelled
  <1> DEFINE i == [m EXCEPT !.intent = @ + 1]
             s == SuspendEdge(i)
             a == Advance(s)
  <1>1. /\ Section(m, i) /\ ManagerOK(i) /\ i.run = m.run /\ i.cancelled = m.cancelled
        /\ i.intent = m.intent + 1 /\ i.resumeConfirmed <= m.intent
    BY IntentSection DEF SameWork
  <1> HIDE DEF i
  <1>2. /\ Section(i, s) /\ ManagerOK(s) /\ s.run = i.run /\ s.cancelled = i.cancelled /\ s.intent = i.intent
        /\ s.resumeConfirmed = i.resumeConfirmed
    BY <1>1, SuspendEdgeSection, SuspendEdgeFields DEF SamePause, ManagerOK
  <1> HIDE DEF s
  <1>3. Section(m, s)
    BY <1>1, <1>2, SectionTrans
  <1>4. CASE ~(s.run # 0 \/ s.edge # None)
    BY <1>1, <1>2, <1>3, <1>4 DEF PauseLatch, s, i
  <1>5. CASE s.run # 0 \/ s.edge # None
    <2>1. /\ Section(s, a) /\ ManagerOK(a)
      BY <1>2, AdvanceSection
    <2>2. s \in Managers
      BY <1>2 DEF ManagerOK
    <2>3. /\ a \in Managers /\ SamePause(s, a) /\ SameState(s, a)
          /\ a.run = s.run /\ a.cancelled = s.cancelled /\ a.operation = s.operation
          /\ a.generation = s.generation + 1 /\ a.revoked = s.revoked \cup ({s.operation} \ {None})
      BY <2>2, AdvanceFields
    <2> DEFINE p == s.pauses \cup {s.intent}
               n == [a EXCEPT !.pauses = p, !.paused = TRUE]
    <2>4. PauseLatch(m) = n
      BY <1>5, <2>3 DEF PauseLatch, s, i, a, Managers, SamePause
    <2>5. /\ s.intent \in Nat /\ m.intent \in Nat /\ s.generation \in Nat /\ s.resumeConfirmed \in Nat
          /\ s.pauses \subseteq 1 .. s.intent /\ p \in SUBSET Nat
      BY <1>2, <2>2 DEF ManagerOK, Managers
    <2>6. p \subseteq 1 .. s.intent
      BY <1>1, <1>2, <2>5
    <2> HIDE DEF a
    <2>7. /\ n \in Managers /\ SameWork(a, n) /\ SameState(a, n) /\ n.intent = a.intent /\ n.pauses = p
          /\ n.paused = TRUE /\ n.pauseConfirmed = a.pauseConfirmed /\ n.resumeConfirmed = a.resumeConfirmed
      BY <2>3, <2>5 DEF Managers, SameWork, SameState
    <2> HIDE DEF n
    <2>8. Latched(n)
      <3>1. s.intent \in n.pauses /\ s.intent > n.resumeConfirmed
        BY <1>1, <1>2, <2>3, <2>5, <2>7 DEF SamePause
      <3> QED
        BY <3>1 DEF Latched
    <2>9. ManagerOK(n)
      BY <1>2, <2>3, <2>6, <2>7, <2>8 DEF ManagerOK, SamePause, SameWork, SameState
    <2>10. \A k \in Runs : k \in s.revoked \/ s.operation = k => k \in n.revoked
      BY <2>3, <2>7, ModesAssumption DEF Runs, SameWork
    <2>11. SameHold(s, n)
      BY <2>3, <2>7 DEF SameHold, SameState
    <2>12. Orderly(s, n)
      BY <1>2, <2>3, <2>5, <2>7, <2>9, <2>10, RevokingSection DEF SamePause, SameWork
    <2>13. Section(m, n)
      BY <1>3, <2>11, <2>12, SectionTrans DEF Section
    <2> QED
      BY <1>1, <1>2, <2>3, <2>4, <2>7, <2>9, <2>13 DEF SameWork
  <1> QED
    BY <1>4, <1>5

(* A finished pause leaves what the remaining intents ask for.             *)
LEMMA FinishPauseSection ==
  ASSUME NEW m, ManagerOK(m), NEW id \in Nat, NEW admitted \in BOOLEAN, NEW keep \in BOOLEAN
  PROVE  LET n == FinishPause(m, id, admitted, keep)
         IN Section(m, n) /\ ManagerOK(n) /\ SameWork(m, n)
  <1>1. CASE id \notin m.pauses
    BY <1>1, SectionStays DEF FinishPause, SameWork
  <1>2. CASE id \in m.pauses
    <2> DEFINE p == m.pauses \ {id}
               c == IF admitted /\ keep /\ id > m.resumeConfirmed /\ id > m.pauseConfirmed THEN id ELSE m.pauseConfirmed
               b == [m EXCEPT !.pauses = p, !.pauseConfirmed = c]
               x == (m.run # 0 \/ m.edge # None) /\ Latched(b)
               n == [b EXCEPT !.paused = x]
    <2>1. m \in Managers /\ p \in SUBSET Nat /\ c \in Nat
      BY DEF ManagerOK, Managers
    <2>2. c = m.pauseConfirmed \/ (c = id /\ id > m.resumeConfirmed)
      OBVIOUS
    <2> HIDE DEF p, c
    <2>3. /\ b \in Managers /\ SameWork(m, b) /\ SameState(m, b) /\ b.intent = m.intent /\ b.pauses = p
          /\ b.paused = m.paused /\ b.pauseConfirmed = c /\ b.resumeConfirmed = m.resumeConfirmed
      BY <2>1 DEF Managers, SameWork, SameState
    <2>4. FinishPause(m, id, admitted, keep) = n
      BY <1>2, <2>1, <2>3 DEF FinishPause, RefreshUserPause, Latched, Managers, p, c, SameWork, SameState
    <2> HIDE DEF b
    <2>5. x \in BOOLEAN
      BY DEF Latched
    <2>6. x => (m.run # 0 \/ m.edge # None) /\ Latched(b)
      OBVIOUS
    <2>7. Latched(b) /\ (m.run # 0 \/ m.edge # None) => x
      OBVIOUS
    <2> HIDE DEF x
    <2>8. /\ n \in Managers /\ SameWork(m, n) /\ SameState(m, n) /\ n.intent = m.intent /\ n.pauses = p
          /\ n.paused = x /\ n.pauseConfirmed = c /\ n.resumeConfirmed = m.resumeConfirmed
      BY <2>3, <2>5 DEF Managers, SameWork, SameState
    <2> HIDE DEF n
    <2>9. Latched(n) <=> Latched(b)
      BY <2>3, <2>8 DEF Latched
    <2>10. Latched(b) => Latched(m)
      BY <1>2, <2>2, <2>3 DEF Latched, p
    <2>11. ManagerOK(n)
      <3>1. p \subseteq 1 .. m.intent
        BY DEF ManagerOK, p
      <3>2. n.run # 0 => (n.paused <=> Latched(n))
        BY <2>6, <2>7, <2>8, <2>9 DEF SameWork
      <3> QED
        BY <2>8, <3>1, <3>2 DEF ManagerOK, SameState
    <2>12. Monotone(m, n) /\ SameHold(m, n)
      BY <2>1, <2>8 DEF Monotone, SameHold, SameWork, SameState, Managers
    <2>13. \A k \in Runs : m.run = k /\ ~m.paused => ~n.paused
      BY <2>6, <2>8, <2>10, ModesAssumption DEF ManagerOK, Runs
    <2>14. Allows(m, n)
      BY <2>8, <2>13 DEF Allows, SameWork, SameState
    <2> QED
      BY <2>4, <2>8, <2>11, <2>12, <2>14 DEF Section, Orderly
  <1> QED
    BY <1>1, <1>2

(* A resume confirms its own intent, which is never one that is yet to     *)
(* come.                                                                   *)
LEMMA FinishResumeSection ==
  ASSUME NEW m, ManagerOK(m), NEW id \in Nat, id <= m.intent
  PROVE  LET n == FinishResume(m, id)
         IN Section(m, n) /\ ManagerOK(n) /\ SameWork(m, n)
  <1> DEFINE r == IF id > m.resumeConfirmed THEN id ELSE m.resumeConfirmed
             b == [m EXCEPT !.resumeConfirmed = r]
             x == (m.run # 0 \/ m.edge # None) /\ Latched(b)
             n == [b EXCEPT !.paused = x]
  <1>1. m \in Managers /\ r \in Nat /\ m.resumeConfirmed \in Nat
    BY DEF ManagerOK, Managers
  <1>2. m.resumeConfirmed <= r /\ r <= m.intent
    BY <1>1 DEF ManagerOK
  <1> HIDE DEF r
  <1>3. /\ b \in Managers /\ SameWork(m, b) /\ SameState(m, b) /\ b.intent = m.intent /\ b.pauses = m.pauses
        /\ b.paused = m.paused /\ b.pauseConfirmed = m.pauseConfirmed /\ b.resumeConfirmed = r
    BY <1>1 DEF Managers, SameWork, SameState
  <1>4. FinishResume(m, id) = n
    BY <1>1, <1>3 DEF FinishResume, RefreshUserPause, Latched, Managers, r, SameWork, SameState
  <1> HIDE DEF b
  <1>5. x \in BOOLEAN
    BY DEF Latched
  <1>6. x <=> (m.run # 0 \/ m.edge # None) /\ Latched(b)
    OBVIOUS
  <1> HIDE DEF x
  <1>7. /\ n \in Managers /\ SameWork(m, n) /\ SameState(m, n) /\ n.intent = m.intent /\ n.pauses = m.pauses
        /\ n.paused = x /\ n.pauseConfirmed = m.pauseConfirmed /\ n.resumeConfirmed = r
    BY <1>3, <1>5 DEF Managers, SameWork, SameState
  <1> HIDE DEF n
  <1>8. Latched(n) <=> Latched(b)
    BY <1>3, <1>7 DEF Latched
  <1>9. Latched(b) => Latched(m)
    <2>1. m.pauseConfirmed \in Nat /\ \A i \in m.pauses : i \in Nat
      BY <1>1 DEF Managers
    <2> QED
      BY <1>1, <1>2, <1>3, <2>1 DEF Latched
  <1>10. ManagerOK(n)
    BY <1>2, <1>6, <1>7, <1>8 DEF ManagerOK, SameWork, SameState
  <1>11. Monotone(m, n) /\ SameHold(m, n)
    BY <1>1, <1>7 DEF Monotone, SameHold, SameWork, SameState, Managers
  <1>12. \A k \in Runs : m.run = k /\ ~m.paused => ~n.paused
    BY <1>6, <1>7, <1>9, ModesAssumption DEF ManagerOK, Runs
  <1>13. Allows(m, n)
    BY <1>7, <1>12 DEF Allows, SameWork, SameState
  <1> QED
    BY <1>4, <1>7, <1>10, <1>11, <1>13 DEF Section, Orderly

-----------------------------------------------------------------------------
(* Clocks, plans, tickets and what the chat is busy with.                  *)
LEMMA BookkeepingSame ==
  ASSUME NEW m \in Managers, NEW x \in Nat \cup {None}, NEW y \in SUBSET Users, NEW b \in BOOLEAN,
         NEW n \in Managers,
         \/ n = [m EXCEPT !.planned = x]
         \/ n = [m EXCEPT !.planned = x, !.tickets = y]
         \/ n = [m EXCEPT !.tickets = y]
         \/ n = [m EXCEPT !.activity = b]
         \/ n = [m EXCEPT !.keepalive = b, !.planned = x]
  PROVE  SamePause(m, n) /\ SameWork(m, n) /\ SameState(m, n)
  BY DEF Managers, SamePause, SameWork, SameState

(* A section that keeps only the planner's books disturbs nothing.         *)
LEMMA BookkeepingSection ==
  ASSUME NEW m, ManagerOK(m), NEW x \in Nat \cup {None}, NEW y \in SUBSET Users, NEW b \in BOOLEAN, NEW n,
         \/ n = [m EXCEPT !.planned = x]
         \/ n = [m EXCEPT !.planned = x, !.tickets = y]
         \/ n = [m EXCEPT !.tickets = y]
         \/ n = [m EXCEPT !.activity = b]
         \/ n = [m EXCEPT !.keepalive = b, !.planned = x]
  PROVE  /\ Section(m, n) /\ ManagerOK(n)
         /\ SamePause(m, n) /\ SameWork(m, n) /\ SameState(m, n)
  <1>1. m \in Managers
    BY DEF ManagerOK
  <1>2. n \in Managers
    <2>1. CASE n = [m EXCEPT !.planned = x]
      BY <1>1, <2>1 DEF Managers
    <2>2. CASE n = [m EXCEPT !.planned = x, !.tickets = y]
      BY <1>1, <2>2 DEF Managers
    <2>3. CASE n = [m EXCEPT !.tickets = y]
      BY <1>1, <2>3 DEF Managers
    <2>4. CASE n = [m EXCEPT !.activity = b]
      BY <1>1, <2>4 DEF Managers
    <2>5. CASE n = [m EXCEPT !.keepalive = b, !.planned = x]
      BY <1>1, <2>5 DEF Managers
    <2> QED
      BY <2>1, <2>2, <2>3, <2>4, <2>5
  <1>3. SamePause(m, n) /\ SameWork(m, n) /\ SameState(m, n)
    BY <1>1, <1>2, BookkeepingSame
  <1>4. Section(m, n)
    BY <1>2, <1>3, SameSection
  <1> QED
    BY <1>3, <1>4 DEF Section, Orderly

(* An operation begins and ends; what a loop does to its own operation is  *)
(* no section for that loop.                                               *)
Steady(m, n) == ManagerOK(n) /\ Monotone(m, n) /\ SameHold(m, n)

(* A section is steady: it leaves alone whatever hold there is.            *)
LEMMA SectionSteady ==
  ASSUME NEW m, NEW n, Section(m, n)
  PROVE  Steady(m, n)
  BY DEF Section, Orderly, Steady

(* Two steady sections, one after the other, are steady.                   *)
LEMMA SteadyTrans ==
  ASSUME NEW m, NEW n, NEW p, ManagerOK(m), Steady(m, n), Steady(n, p)
  PROVE  Steady(m, p)
  <1>1. m.generation \in Nat /\ n.generation \in Nat /\ p.generation \in Nat
        /\ m.intent \in Nat /\ n.intent \in Nat /\ p.intent \in Nat
    BY DEF Steady, ManagerOK, Managers
  <1>2. Monotone(m, p)
    BY <1>1 DEF Steady, Monotone
  <1>3. SameHold(m, p)
    BY DEF Steady, SameHold
  <1> QED
    BY <1>2, <1>3 DEF Steady

(* beginModeOperation changes the operation and nothing else.              *)
LEMMA BeginOperationSteady ==
  ASSUME NEW m, ManagerOK(m), NEW t \in Goroutines
  PROVE  LET n == BeginOperation(m, t)
         IN /\ Steady(m, n) /\ ManagerOK(n) /\ SamePause(m, n) /\ SameState(m, n)
            /\ n.run = m.run /\ n.generation = m.generation /\ n.cancelled = m.cancelled
            /\ n.operation = t /\ n.revoked = m.revoked \ {t}
  <1> DEFINE n == BeginOperation(m, t)
  <1>1. m \in Managers
    BY DEF ManagerOK
  <1>2. /\ n \in Managers /\ SamePause(m, n) /\ SameState(m, n)
        /\ n.run = m.run /\ n.generation = m.generation /\ n.cancelled = m.cancelled
        /\ n.operation = t /\ n.revoked = m.revoked \ {t}
    BY <1>1, BeginOperationFields
  <1> HIDE DEF n
  <1>3. ManagerOK(n)
    BY <1>2 DEF ManagerOK, SamePause, SameState, Latched
  <1>4. Monotone(m, n) /\ SameHold(m, n)
    BY <1>1, <1>2 DEF Monotone, SameHold, SamePause, SameState, Managers
  <1> QED
    BY <1>2, <1>3, <1>4 DEF Steady, n

(* finishModeOperation changes the operation and nothing else.             *)
LEMMA FinishOperationSteady ==
  ASSUME NEW m, ManagerOK(m), NEW t \in Goroutines
  PROVE  LET n == FinishOperation(m, t)
         IN /\ Steady(m, n) /\ ManagerOK(n) /\ SamePause(m, n) /\ SameState(m, n)
            /\ n.run = m.run /\ n.generation = m.generation /\ n.cancelled = m.cancelled
            /\ t \notin Runs => Section(m, n)
  <1> DEFINE n == FinishOperation(m, t)
  <1>1. m \in Managers
    BY DEF ManagerOK
  <1>2. /\ n \in Managers /\ SamePause(m, n) /\ SameState(m, n)
        /\ n.run = m.run /\ n.generation = m.generation /\ n.cancelled = m.cancelled
        /\ n.operation = (IF m.operation = t THEN None ELSE m.operation) /\ n.revoked = m.revoked \ {t}
    BY <1>1, FinishOperationFields
  <1> HIDE DEF n
  <1>3. ManagerOK(n)
    BY <1>2 DEF ManagerOK, SamePause, SameState, Latched
  <1>4. Monotone(m, n) /\ SameHold(m, n)
    BY <1>1, <1>2 DEF Monotone, SameHold, SamePause, SameState, Managers
  <1>5. t \notin Runs => Allows(m, n)
    BY <1>2 DEF Allows, SamePause, SameState
  <1> QED
    BY <1>2, <1>3, <1>4, <1>5 DEF Steady, Section, Orderly, n

(* A request that has revoked what was under way begins its own operation. *)
LEMMA BeginAfterRevoking ==
  ASSUME NEW m, NEW a, ManagerOK(m), ManagerOK(a), NEW t \in Users,
         m.generation < a.generation, m.intent <= a.intent, m.cancelled \subseteq a.cancelled,
         \A k \in Runs : k \in m.revoked \/ m.operation = k => k \in a.revoked,
         SameHold(m, a)
  PROVE  Section(m, BeginOperation(a, t)) /\ ManagerOK(BeginOperation(a, t))
         /\ BeginOperation(a, t).generation = a.generation
  <1> DEFINE n == BeginOperation(a, t)
  <1>1. t \in Goroutines /\ t \notin Runs
    BY ModesAssumption DEF Goroutines, Runs
  <1>2. /\ Steady(a, n) /\ ManagerOK(n) /\ SamePause(a, n) /\ SameState(a, n)
        /\ n.run = a.run /\ n.generation = a.generation /\ n.cancelled = a.cancelled
        /\ n.operation = t /\ n.revoked = a.revoked \ {t}
    BY <1>1, BeginOperationSteady
  <1> HIDE DEF n
  <1>3. \A k \in Runs : k \in m.revoked \/ m.operation = k => k \in n.revoked
    BY <1>1, <1>2
  <1>4. Orderly(m, n)
    BY <1>2, <1>3, RevokingSection DEF SamePause
  <1>5. SameHold(m, n)
    BY <1>2 DEF SameHold, SameState
  <1> QED
    BY <1>2, <1>4, <1>5 DEF Section, n

(* A return takes the hold over, and so does a review the motion.          *)
TakeReturn(m, t) == BeginOperation(SuspendEdge(Advance(m)), t)
TakeReview(m, t) == BeginOperation([PrepareChatTarget(m) EXCEPT !.planned = None], t)

(* Advancing and suspending the hold at once makes every operation stale.  *)
LEMMA SuspendedAdvance ==
  ASSUME NEW m, ManagerOK(m)
  PROVE  LET n == SuspendEdge(Advance(m))
         IN /\ Section(m, n) /\ ManagerOK(n) /\ n.generation = m.generation + 1
            /\ n.run = m.run /\ n.cancelled = m.cancelled /\ n.intent = m.intent
            /\ n.stopped = m.stopped /\ n.pending = m.pending /\ n.paused = m.paused
            /\ \A k \in Runs : k \in m.revoked \/ m.operation = k => k \in n.revoked
  <1> DEFINE a == Advance(m)
             n == SuspendEdge(a)
  <1>1. m \in Managers
    BY DEF ManagerOK
  <1>2. Section(m, a) /\ ManagerOK(a)
    BY AdvanceSection
  <1>3. /\ a \in Managers /\ SamePause(m, a) /\ SameState(m, a)
        /\ a.run = m.run /\ a.cancelled = m.cancelled /\ a.operation = m.operation
        /\ a.generation = m.generation + 1 /\ a.revoked = m.revoked \cup ({m.operation} \ {None})
    BY <1>1, AdvanceFields
  <1> HIDE DEF a
  <1>4. Section(a, n) /\ ManagerOK(n)
    BY <1>2, SuspendEdgeSection
  <1>5. /\ SamePause(a, n) /\ SameWork(a, n) /\ n.stopped = a.stopped /\ n.pending = a.pending
    BY <1>3, SuspendEdgeFields
  <1> HIDE DEF n
  <1>6. Section(m, n)
    BY <1>2, <1>4, SectionTrans
  <1>7. \A k \in Runs : k \in m.revoked \/ m.operation = k => k \in n.revoked
    BY <1>3, <1>5, ModesAssumption DEF SameWork, Runs
  <1> QED
    BY <1>3, <1>4, <1>5, <1>6, <1>7 DEF SamePause, SameWork, SameState, n, a

(* resumeEdge advances before it begins its own operation, so that no loop *)
(* works on.                                                               *)
LEMMA TakeReturnSection ==
  ASSUME NEW m, ManagerOK(m), NEW t \in Goroutines
  PROVE  LET n == TakeReturn(m, t)
         IN /\ Steady(m, n) /\ ManagerOK(n) /\ n.generation = m.generation + 1 /\ n.run = m.run
            /\ n.cancelled = m.cancelled /\ n.operation = t
            /\ n.stopped = m.stopped /\ n.pending = m.pending /\ n.paused = m.paused
            /\ t \in Users => Section(m, n)
  <1> DEFINE s == SuspendEdge(Advance(m))
             n == BeginOperation(s, t)
  <1>1. /\ Section(m, s) /\ ManagerOK(s) /\ s.generation = m.generation + 1
        /\ s.run = m.run /\ s.cancelled = m.cancelled /\ s.intent = m.intent
        /\ s.stopped = m.stopped /\ s.pending = m.pending /\ s.paused = m.paused
        /\ \A k \in Runs : k \in m.revoked \/ m.operation = k => k \in s.revoked
    BY SuspendedAdvance
  <1> HIDE DEF s
  <1>2. /\ Steady(s, n) /\ ManagerOK(n) /\ SamePause(s, n) /\ SameState(s, n)
        /\ n.run = s.run /\ n.generation = s.generation /\ n.cancelled = s.cancelled
        /\ n.operation = t /\ n.revoked = s.revoked \ {t}
    BY <1>1, BeginOperationSteady
  <1>3. m.generation \in Nat /\ m.intent \in Nat
    BY DEF ManagerOK, Managers
  <1>4. Steady(m, n)
    BY <1>1, <1>2, SectionSteady, SteadyTrans
  <1>5. t \in Users => Section(m, n)
    BY <1>1, <1>3, BeginAfterRevoking DEF Section
  <1> HIDE DEF n
  <1> QED
    BY <1>1, <1>2, <1>4, <1>5 DEF SamePause, SameState, n, s, TakeReturn

(* A review that is applied advances before it begins its own operation.   *)
LEMMA TakeReviewSection ==
  ASSUME NEW m, ManagerOK(m), NEW t \in Users
  PROVE  LET n == TakeReview(m, t)
         IN /\ Section(m, n) /\ ManagerOK(n) /\ n.generation = m.generation + 1
            /\ n.run = m.run /\ n.cancelled = m.cancelled
  <1> DEFINE c == PrepareChatTarget(m)
             p == [c EXCEPT !.planned = None]
             n == BeginOperation(p, t)
  <1>1. m \in Managers /\ m.generation \in Nat /\ m.intent \in Nat
    BY DEF ManagerOK, Managers
  <1>2. Section(m, c) /\ ManagerOK(c)
    BY PrepareChatTargetSection
  <1>3. /\ SamePause(m, c) /\ c.run = m.run /\ c.cancelled = m.cancelled
        /\ c.revoked = m.revoked \cup ({m.operation} \ {None}) /\ c.generation = m.generation + 1
    BY <1>1, PrepareChatTargetFields
  <1> HIDE DEF c
  <1>4. Section(c, p) /\ ManagerOK(p) /\ SamePause(c, p) /\ SameWork(c, p)
    BY <1>2, BookkeepingSection
  <1> HIDE DEF p
  <1>5. Section(m, p)
    BY <1>2, <1>4, SectionTrans
  <1>6. \A k \in Runs : k \in m.revoked \/ m.operation = k => k \in p.revoked
    BY <1>3, <1>4, ModesAssumption DEF SameWork, Runs
  <1>7. m.generation < p.generation /\ m.intent <= p.intent /\ m.cancelled \subseteq p.cancelled
    BY <1>1, <1>3, <1>4 DEF SamePause, SameWork
  <1>8. Section(m, n) /\ ManagerOK(n) /\ n.generation = p.generation
    BY <1>4, <1>5, <1>6, <1>7, BeginAfterRevoking DEF Section
  <1>9. t \in Goroutines
    BY DEF Goroutines
  <1>10. n.run = p.run /\ n.cancelled = p.cancelled
    BY <1>4, <1>9, BeginOperationSteady
  <1> HIDE DEF n
  <1> QED
    BY <1>3, <1>4, <1>8, <1>10 DEF SameWork, n, p, c, TakeReview

-----------------------------------------------------------------------------
(* A chat target that was committed takes the motion over.                 *)
LEMMA NotifyTargetSection ==
  ASSUME NEW m, ManagerOK(m), NEW gen, NEW loops \in BOOLEAN
  PROVE  LET n == NotifyTarget(m, gen, loops)
         IN Section(m, n) /\ ManagerOK(n) /\ n.run = m.run
  <1> DEFINE adopted == m.run # 0 /\ at[m.run].mode = "autopilot" /\ loops
             a == Advance(m)
             x == IF adopted THEN None ELSE a.planned
             y == IF adopted THEN {} ELSE a.tickets
             n == [a EXCEPT !.pending = FALSE, !.edge = None, !.keepalive = loops, !.planned = x, !.tickets = y]
  <1>1. CASE ~m.pending \/ m.generation # gen \/ m.stopped
    BY <1>1, SectionStays DEF NotifyTarget
  <1>2. CASE ~(~m.pending \/ m.generation # gen \/ m.stopped)
    <2>1. m \in Managers
      BY DEF ManagerOK
    <2>2. /\ a \in Managers /\ SamePause(m, a) /\ a.run = m.run /\ a.operation = m.operation
          /\ a.cancelled = m.cancelled /\ SameState(m, a)
          /\ a.revoked = m.revoked \cup ({m.operation} \ {None}) /\ a.generation = m.generation + 1
      BY <2>1, AdvanceFields
    <2>3. x \in Nat \cup {None} /\ y \in SUBSET Users
      BY <2>2 DEF Managers
    <2>4. NotifyTarget(m, gen, loops) = n
      BY <1>2, <2>2 DEF NotifyTarget, Managers
    <2> HIDE DEF a, x, y
    <2>5. /\ n \in Managers /\ SamePause(a, n) /\ SameWork(a, n) /\ n.edge = None /\ n.pending = FALSE
          /\ n.stopped = a.stopped
      BY <2>2, <2>3 DEF Managers, SamePause, SameWork
    <2> HIDE DEF n
    <2>6. m.generation \in Nat /\ m.intent \in Nat
      BY <2>1 DEF Managers
    <2>7. ManagerOK(n)
      BY <2>2, <2>5 DEF ManagerOK, SamePause, SameWork, Latched
    <2>8. \A k \in Runs : k \in m.revoked \/ m.operation = k => k \in n.revoked
      BY <2>2, <2>5, ModesAssumption DEF Runs, SameWork
    <2>9. Orderly(m, n)
      BY <2>2, <2>5, <2>6, <2>7, <2>8, RevokingSection DEF SamePause, SameWork
    <2>10. SameHold(m, n)
      BY <2>5 DEF SameHold
    <2> QED
      BY <2>2, <2>4, <2>5, <2>7, <2>9, <2>10 DEF Section, SameWork
  <1> QED
    BY <1>1, <1>2

(* A chat target that was not, does not.                                   *)
LEMMA CancelChatTargetSection ==
  ASSUME NEW m, ManagerOK(m), NEW gen
  PROVE  LET n == CancelChatTarget(m, gen)
         IN Section(m, n) /\ ManagerOK(n) /\ n.run = m.run
  <1>1. CASE ~(m.pending /\ m.owner = gen)
    BY <1>1, SectionStays DEF CancelChatTarget
  <1>2. CASE m.pending /\ m.owner = gen
    <2> DEFINE n == [m EXCEPT !.pending = FALSE]
    <2>1. CancelChatTarget(m, gen) = n
      BY <1>2 DEF CancelChatTarget
    <2>2. /\ n \in Managers /\ SamePause(m, n) /\ SameWork(m, n) /\ n.edge = m.edge /\ n.stopped = m.stopped
          /\ n.pending = FALSE
      BY DEF ManagerOK, Managers, SamePause, SameWork
    <2> HIDE DEF n
    <2>3. ManagerOK(n)
      BY <2>2 DEF ManagerOK, SamePause, SameWork, Latched
    <2>4. Monotone(m, n) /\ SameHold(m, n)
      BY <2>2 DEF Monotone, SameHold, SamePause, SameWork, ManagerOK, Managers
    <2>5. Allows(m, n)
      BY <1>2, <2>2 DEF Allows, SamePause, SameWork
    <2> QED
      BY <2>1, <2>2, <2>3, <2>4, <2>5 DEF Section, Orderly, SameWork
  <1> QED
    BY <1>1, <1>2

(* The activity of a chat turn, and saved settings, start the autopilot's  *)
(* clocks over in a newer generation.                                      *)
LEMMA RestartSection ==
  ASSUME NEW m, ManagerOK(m), NEW n,
         n = (IF AutopilotRuns(m) /\ ~m.stopped THEN [Advance(m) EXCEPT !.planned = None] ELSE m)
  PROVE  Section(m, n) /\ ManagerOK(n) /\ n.run = m.run
  <1>1. CASE n = m
    BY <1>1, SectionStays
  <1>2. CASE n = [Advance(m) EXCEPT !.planned = None]
    <2> DEFINE a == Advance(m)
    <2>1. Section(m, a) /\ ManagerOK(a) /\ a.run = m.run
      BY AdvanceSection, AdvanceFields DEF ManagerOK
    <2> HIDE DEF a
    <2>2. n = [a EXCEPT !.planned = None]
      BY <1>2 DEF a
    <2>3. Section(a, n) /\ ManagerOK(n) /\ SameWork(a, n)
      BY <2>1, <2>2, BookkeepingSection
    <2> QED
      BY <2>1, <2>3, SectionTrans DEF SameWork
  <1> QED
    BY <1>1, <1>2

(* Saved settings restart the autopilot in a new generation.               *)
LEMMA NotifySettingsSection ==
  ASSUME NEW m, ManagerOK(m)
  PROVE  LET n == NotifySettings(m)
         IN Section(m, n) /\ ManagerOK(n) /\ n.run = m.run
  <1> DEFINE s == SuspendEdge(m)
             n == NotifySettings(m)
  <1>1. Section(m, s) /\ ManagerOK(s) /\ s.run = m.run
    BY SuspendEdgeSection
  <1>2. s.stopped = m.stopped
    BY SuspendEdgeFields DEF ManagerOK
  <1>3. AutopilotRuns(s) = AutopilotRuns(m)
    BY <1>1 DEF AutopilotRuns
  <1>4. n = (IF AutopilotRuns(s) /\ ~s.stopped THEN [Advance(s) EXCEPT !.planned = None] ELSE s)
    BY <1>2, <1>3 DEF NotifySettings
  <1> HIDE DEF s, n
  <1>5. Section(s, n) /\ ManagerOK(n) /\ n.run = s.run
    BY <1>1, <1>4, RestartSection
  <1>6. Section(m, n)
    BY <1>1, <1>5, SectionTrans
  <1> QED
    BY <1>1, <1>5, <1>6 DEF n

(* A chat turn postpones the autopilot in a new generation.                *)
LEMMA NotifyChatActivitySection ==
  ASSUME NEW m, ManagerOK(m)
  PROVE  LET n == NotifyChatActivity(m)
         IN Section(m, n) /\ ManagerOK(n) /\ n.run = m.run
  <1> DEFINE i == m.activityID + 1
             b == [m EXCEPT !.activity = TRUE, !.activityID = i]
             s == SuspendEdge(b)
             n == NotifyChatActivity(m)
  <1>1. m \in Managers /\ i \in Nat
    BY DEF ManagerOK, Managers
  <1>2. n = (IF AutopilotRuns(m) /\ ~m.stopped THEN [Advance(s) EXCEPT !.planned = None] ELSE s)
    BY <1>1 DEF NotifyChatActivity, Managers
  <1> HIDE DEF i
  <1>3. b \in Managers /\ SamePause(m, b) /\ SameWork(m, b) /\ SameState(m, b)
    BY <1>1 DEF Managers, SamePause, SameWork, SameState
  <1> HIDE DEF b
  <1>4. Section(m, b) /\ ManagerOK(b)
    BY <1>3, SameSection DEF Section, Orderly
  <1>5. Section(b, s) /\ ManagerOK(s) /\ s.run = b.run
    BY <1>4, SuspendEdgeSection
  <1>6. s.stopped = b.stopped
    BY <1>3, SuspendEdgeFields
  <1> HIDE DEF s, n
  <1>7. s.run = m.run /\ s.stopped = m.stopped
    BY <1>3, <1>5, <1>6 DEF SameWork, SameState
  <1>8. AutopilotRuns(s) = AutopilotRuns(m)
    BY <1>7 DEF AutopilotRuns
  <1>9. n = (IF AutopilotRuns(s) /\ ~s.stopped THEN [Advance(s) EXCEPT !.planned = None] ELSE s)
    BY <1>2, <1>7, <1>8
  <1>10. Section(s, n) /\ ManagerOK(n) /\ n.run = s.run
    BY <1>5, <1>9, RestartSection
  <1>11. Section(m, n)
    BY <1>4, <1>5, <1>10, SectionTrans
  <1> QED
    BY <1>7, <1>10, <1>11 DEF n

(* After a turn without motion the autopilot only drops its planned        *)
(* choice.                                                                 *)
LEMMA ReconsiderSection ==
  ASSUME NEW m, ManagerOK(m)
  PROVE  LET n == ReconsiderAfterChat(m)
         IN Section(m, n) /\ ManagerOK(n) /\ n.run = m.run
  <1> DEFINE n == ReconsiderAfterChat(m)
  <1>1. n = m \/ n = [m EXCEPT !.planned = None]
    BY DEF ReconsiderAfterChat
  <1> HIDE DEF n
  <1>2. ASSUME n = m PROVE Section(m, n) /\ ManagerOK(n) /\ n.run = m.run
    BY <1>2, SectionStays
  <1>3. ASSUME n = [m EXCEPT !.planned = None] PROVE Section(m, n) /\ ManagerOK(n) /\ n.run = m.run
    <2>1. None \in Nat \cup {None} /\ {} \in SUBSET Users /\ TRUE \in BOOLEAN
      OBVIOUS
    <2>2. Section(m, n) /\ ManagerOK(n) /\ SameWork(m, n)
      BY <1>3, <2>1, BookkeepingSection
    <2> QED
      BY <2>2 DEF SameWork
  <1> QED
    BY <1>1, <1>2, <1>3 DEF n

(* The clocks of a segment that starts now.                                *)
LEMMA ArmChoiceSection ==
  ASSUME NEW m, ManagerOK(m), NEW k, NEW gen
  PROVE  LET n == ArmChoice(m, k, gen)
         IN Section(m, n) /\ ManagerOK(n) /\ n.run = m.run /\ n.cancelled = m.cancelled
  <1> DEFINE n == ArmChoice(m, k, gen)
  <1>1. n = m \/ n = [m EXCEPT !.planned = None, !.tickets = {}]
    BY DEF ArmChoice
  <1> HIDE DEF n
  <1>2. ASSUME n = m PROVE Section(m, n) /\ ManagerOK(n) /\ n.run = m.run /\ n.cancelled = m.cancelled
    BY <1>2, SectionStays
  <1>3. ASSUME n = [m EXCEPT !.planned = None, !.tickets = {}] PROVE Section(m, n) /\ ManagerOK(n) /\ n.run = m.run /\ n.cancelled = m.cancelled
    <2>1. None \in Nat \cup {None} /\ {} \in SUBSET Users /\ TRUE \in BOOLEAN
      OBVIOUS
    <2>2. Section(m, n) /\ ManagerOK(n) /\ SameWork(m, n)
      BY <1>3, <2>1, BookkeepingSection
    <2> QED
      BY <2>2 DEF SameWork
  <1> QED
    BY <1>1, <1>2, <1>3 DEF n

(* A hold is dropped: what it was applied for is over, or was returned to. *)
LEMMA DropEdgeSection ==
  ASSUME NEW m, ManagerOK(m)
  PROVE  LET n == [m EXCEPT !.edge = None]
         IN /\ Section(m, n) /\ ManagerOK(n) /\ SamePause(m, n) /\ SameWork(m, n)
            /\ n.edge = None /\ n.stopped = m.stopped /\ n.pending = m.pending
  <1> DEFINE n == [m EXCEPT !.edge = None]
  <1>1. /\ n \in Managers /\ SamePause(m, n) /\ SameWork(m, n) /\ n.edge = None /\ n.stopped = m.stopped
        /\ n.pending = m.pending
    BY DEF ManagerOK, Managers, SamePause, SameWork
  <1> HIDE DEF n
  <1>2. ManagerOK(n)
    BY <1>1 DEF ManagerOK, SamePause, SameWork, Latched
  <1>3. Monotone(m, n) /\ SameHold(m, n)
    BY <1>1 DEF Monotone, SameHold, SamePause, SameWork, ManagerOK, Managers
  <1>4. Allows(m, n)
    BY <1>1 DEF Allows, SamePause, SameWork
  <1> QED
    BY <1>1, <1>2, <1>3, <1>4 DEF Section, Orderly, n

(* Adopting the motion a hold returned to keeps generation, loop and       *)
(* pause.                                                                  *)
LEMMA AdoptEdgeReturnSection ==
  ASSUME NEW m, ManagerOK(m), NEW keepalive \in BOOLEAN, NEW loops \in BOOLEAN
  PROVE  LET n == AdoptEdgeReturn(m, keepalive, loops)
         IN Section(m, n) /\ ManagerOK(n) /\ SamePause(m, n) /\ SameWork(m, n) /\ SameState(m, n)
  <1> DEFINE b == keepalive /\ loops
             n == [m EXCEPT !.keepalive = b, !.planned = None]
  <1>1. b \in BOOLEAN
    OBVIOUS
  <1>2. AdoptEdgeReturn(m, keepalive, loops) = n
    BY DEF AdoptEdgeReturn
  <1> HIDE DEF b
  <1>3. Section(m, n) /\ ManagerOK(n) /\ SamePause(m, n) /\ SameWork(m, n) /\ SameState(m, n)
    BY <1>1, BookkeepingSection
  <1> QED
    BY <1>2, <1>3
(* What the reconciliation with the snapshot s leaves of a hold is the hold *)
(* it found, or the hold moved to the plan that s showed the hold play.    *)
HoldKept(m, n, s) ==
  n.edge # None =>
    /\ m.edge # None
    /\ \/ n.edge.plan = m.edge.plan /\ n.edge.applied = m.edge.applied
       \/ n.edge.plan = s.plan /\ s.source = "edge"

(* A section keeps the hold's plan, or takes the one of a snapshot.        *)
LEMMA SectionKeepsHold ==
  ASSUME NEW m, NEW n, NEW s, Section(m, n)
  PROVE  Orderly(m, n) /\ HoldKept(m, n, s)
  BY DEF Section, SameHold, HoldKept

(* reconcileEdge takes a plan over only from a snapshot that shows the     *)
(* edge's motion.                                                          *)
LEMMA ReconcileEdgeSection ==
  ASSUME NEW m, ManagerOK(m), NEW id, NEW s \in Snapshots, NEW loops \in BOOLEAN
  PROVE  LET n == ReconcileEdge(m, id, s, loops)
         IN Orderly(m, n) /\ ManagerOK(n) /\ HoldKept(m, n, s) /\ n.run = m.run
  <1> DEFINE n == ReconcileEdge(m, id, s, loops)
             stale == \/ m.edge = None
                      \/ m.edge.id # id \/ ~m.edge.applied \/ m.paused \/ s.state = "paused"
             d == [m EXCEPT !.edge = None]
  <1>1. m \in Managers
    BY DEF ManagerOK
  <1>2. /\ Section(m, d) /\ ManagerOK(d) /\ d.run = m.run
    BY DropEdgeSection DEF SameWork
  <1>3. CASE stale \/ (Running(s) /\ s.plan = m.edge.plan)
    <2>1. n = m
      BY <1>3 DEF ReconcileEdge
    <2> HIDE DEF n
    <2>2. Orderly(m, n) /\ ManagerOK(n) /\ HoldKept(m, n, s) /\ n.run = m.run
      BY <2>1, SectionStays, SectionKeepsHold
    <2> QED
      BY <2>2 DEF n
  <1>4. CASE ~stale /\ ~Running(s)
    <2> DEFINE c == CancelOperation(m)
               e == [c EXCEPT !.edge = None, !.keepalive = FALSE, !.stopped = TRUE]
    <2>1. n = e
      BY <1>4 DEF ReconcileEdge
    <2>2. /\ c \in Managers /\ SamePause(m, c) /\ c.run = m.run /\ c.generation = m.generation
          /\ c.cancelled = m.cancelled /\ SameState(m, c)
          /\ c.revoked = m.revoked \cup ({m.operation} \ {None})
      BY <1>1, CancelOperationFields
    <2> HIDE DEF c, n
    <2>3. /\ e \in Managers /\ SamePause(c, e) /\ SameWork(c, e) /\ e.edge = None /\ e.stopped = TRUE
          /\ e.pending = c.pending
      BY <2>2 DEF Managers, SamePause, SameWork
    <2> HIDE DEF e
    <2>4. ManagerOK(e)
      BY <2>2, <2>3 DEF ManagerOK, SamePause, SameWork, Latched
    <2>5. \A k \in Runs : k \in m.revoked \/ m.operation = k => k \in e.revoked
      BY <2>2, <2>3, ModesAssumption DEF Runs, SameWork
    <2>6. Monotone(m, e)
      BY <1>1, <2>2, <2>3 DEF Monotone, SamePause, SameWork, Managers
    <2>7. Allows(m, e)
      BY <2>3, <2>5 DEF Allows
    <2>8. Orderly(m, n) /\ ManagerOK(n) /\ HoldKept(m, n, s) /\ n.run = m.run
      BY <2>1, <2>2, <2>3, <2>4, <2>6, <2>7 DEF Orderly, HoldKept, SameWork
    <2> QED
      BY <2>8 DEF n
  <1>5. CASE ~stale /\ Running(s) /\ s.plan # m.edge.plan /\ s.source = "edge"
    <2> DEFINE b == SuspendEdge(m)
               e == [b.edge EXCEPT !.plan = s.plan]
               p == [b EXCEPT !.edge = e]
    <2>1. /\ SamePause(m, b) /\ SameWork(m, b) /\ b.stopped = m.stopped /\ b.pending = m.pending
      BY <1>1, SuspendEdgeFields
    <2>2. m.edge \in Holds /\ s.plan \in Nat
      BY <1>1, <1>5 DEF Managers, Snapshots
    <2>3. b \in Managers /\ b.edge = [m.edge EXCEPT !.automatic = FALSE]
      BY <1>1, <1>5, SuspendEdgeFields
    <2>4. /\ b.edge \in Holds /\ b.edge.id = m.edge.id /\ b.edge.applied = m.edge.applied
          /\ b.edge.decided = m.edge.decided
      BY <2>2, <2>3 DEF Holds
    <2>5. n = [b EXCEPT !.edge.plan = s.plan]
      BY <1>5 DEF ReconcileEdge
    <2>6. n = p
      BY <2>3, <2>4, <2>5 DEF Managers
    <2> HIDE DEF b, n
    <2>7. e \in Holds /\ e.id = b.edge.id /\ e.applied = b.edge.applied /\ e.decided = b.edge.decided /\ e.plan = s.plan
      BY <2>2, <2>4 DEF Holds
    <2> HIDE DEF e
    <2>8. p \in Managers /\ SamePause(b, p) /\ SameWork(b, p) /\ p.edge = e /\ p.stopped = b.stopped /\ p.pending = b.pending
      BY <2>3, <2>7 DEF Managers, SamePause, SameWork
    <2> HIDE DEF p
    <2>9. ManagerOK(p)
      BY <1>5, <2>1, <2>4, <2>7, <2>8 DEF ManagerOK, SamePause, SameWork, Latched
    <2>10. Monotone(m, p)
      BY <1>1, <2>1, <2>8 DEF Monotone, SamePause, SameWork, Managers
    <2>11. Allows(m, p)
      BY <1>5, <2>1, <2>4, <2>7, <2>8 DEF Allows, SamePause, SameWork
    <2>12. Orderly(m, p)
      BY <2>9, <2>10, <2>11 DEF Orderly
    <2>13. Orderly(m, n) /\ ManagerOK(n) /\ HoldKept(m, n, s) /\ n.run = m.run
      BY <1>5, <2>1, <2>6, <2>7, <2>8, <2>9, <2>12 DEF HoldKept, SameWork
    <2> QED
      BY <2>13 DEF n
  <1>6. CASE ~stale /\ Running(s) /\ s.plan # m.edge.plan /\ s.source # "edge"
    <2> DEFINE k == m.edge.keepalive
               p == AdoptEdgeReturn(d, k, loops)
    <2>1. k \in BOOLEAN
      BY <1>1, <1>6 DEF Managers, Holds
    <2>2. n = d \/ n = p
      BY <1>6 DEF ReconcileEdge
    <2> HIDE DEF d, k, n
    <2>3. Section(d, p) /\ ManagerOK(p) /\ SameWork(d, p)
      BY <1>2, <2>1, AdoptEdgeReturnSection
    <2> HIDE DEF p
    <2>4. Section(m, p) /\ p.run = m.run
      BY <1>2, <2>3, SectionTrans DEF SameWork
    <2>5. Orderly(m, n) /\ ManagerOK(n) /\ HoldKept(m, n, s) /\ n.run = m.run
      BY <1>2, <2>2, <2>3, <2>4, SectionKeepsHold
    <2> QED
      BY <2>5 DEF n
  <1> QED
    BY <1>3, <1>4, <1>5, <1>6

(* The user holds the edge.                                                *)
TakeHold(m, source) ==
  [Advance(m) EXCEPT !.pending = FALSE, !.keepalive = FALSE, !.planned = None,
     !.edge = [id |-> m.generation + 1, active |-> TRUE, applied |-> FALSE, automatic |-> AutopilotRuns(m),
               decided |-> FALSE, plan |-> 0, keepalive |-> m.keepalive, previous |-> source]]

(* A new hold is not applied and names no plan until the engine has        *)
(* answered.                                                               *)
LEMMA TakeHoldSection ==
  ASSUME NEW m, ManagerOK(m), NEW source \in Sources
  PROVE  LET n == TakeHold(m, source)
         IN /\ Orderly(m, n) /\ ManagerOK(n) /\ n.run = m.run /\ n.generation = m.generation + 1
            /\ n.edge.plan = 0 /\ n.edge.applied = FALSE
  <1> DEFINE a == Advance(m)
             e == [id |-> m.generation + 1, active |-> TRUE, applied |-> FALSE, automatic |-> AutopilotRuns(m),
                   decided |-> FALSE, plan |-> 0, keepalive |-> m.keepalive, previous |-> source]
             n == [a EXCEPT !.pending = FALSE, !.keepalive = FALSE, !.planned = None, !.edge = e]
  <1>1. m \in Managers /\ m.generation \in Nat /\ m.intent \in Nat
    BY DEF ManagerOK, Managers
  <1>2. /\ a \in Managers /\ SamePause(m, a) /\ a.run = m.run /\ a.operation = m.operation
        /\ a.cancelled = m.cancelled /\ SameState(m, a)
        /\ a.revoked = m.revoked \cup ({m.operation} \ {None}) /\ a.generation = m.generation + 1
    BY <1>1, AdvanceFields
  <1>3. AutopilotRuns(m) \in BOOLEAN
    BY DEF AutopilotRuns
  <1>4. e \in Holds
    BY <1>1, <1>3 DEF Managers, Holds, Sources
  <1>5. e.id = m.generation + 1 /\ e.decided = FALSE /\ e.plan = 0 /\ e.applied = FALSE
    OBVIOUS
  <1>6. TakeHold(m, source) = n
    BY DEF TakeHold
  <1> HIDE DEF a, e
  <1>7. n \in Managers /\ SamePause(a, n) /\ SameWork(a, n) /\ n.edge = e /\ n.stopped = a.stopped /\ n.pending = FALSE
    BY <1>2, <1>4 DEF Managers, SamePause, SameWork
  <1> HIDE DEF n
  <1>8. ManagerOK(n)
    BY <1>1, <1>2, <1>5, <1>7 DEF ManagerOK, SamePause, SameWork, Latched
  <1>9. \A k \in Runs : k \in m.revoked \/ m.operation = k => k \in n.revoked
    BY <1>2, <1>7, ModesAssumption DEF Runs, SameWork
  <1>10. Orderly(m, n)
    BY <1>1, <1>2, <1>7, <1>8, <1>9, RevokingSection DEF SamePause, SameWork
  <1> QED
    BY <1>2, <1>5, <1>6, <1>7, <1>8, <1>10 DEF SameWork

(* The engine has answered for the hold.                                   *)
ConfirmHold(m, ok, plan, gen) ==
  [m EXCEPT !.edge = [m.edge EXCEPT !.active = ok = "yes", !.applied = ok \in {"yes", "late"},
                                    !.plan = IF ok \in {"yes", "late"} THEN plan ELSE 0,
                                    !.automatic = @ /\ ok = "yes" /\ m.generation = gen]]

(* Only a target that was committed makes the hold applied, with that      *)
(* target's plan.                                                          *)
LEMMA ConfirmHoldSection ==
  ASSUME NEW m, ManagerOK(m), m.edge # None, NEW ok, NEW plan \in Nat, NEW gen
  PROVE  LET n == ConfirmHold(m, ok, plan, gen)
         IN /\ Orderly(m, n) /\ ManagerOK(n) /\ n.run = m.run
            /\ n.edge.applied => ok \in {"yes", "late"}
            /\ n.edge.plan = IF ok \in {"yes", "late"} THEN plan ELSE 0
  <1> DEFINE x == ok = "yes"
             y == ok \in {"yes", "late"}
             p == IF y THEN plan ELSE 0
             z == m.edge.automatic /\ ok = "yes" /\ m.generation = gen
             e == [m.edge EXCEPT !.active = x, !.applied = y, !.plan = p, !.automatic = z]
             n == [m EXCEPT !.edge = e]
  <1>1. m \in Managers /\ m.edge \in Holds
    BY DEF ManagerOK, Managers
  <1>2. x \in BOOLEAN /\ y \in BOOLEAN /\ z \in BOOLEAN /\ p \in Nat
    OBVIOUS
  <1>3. ConfirmHold(m, ok, plan, gen) = n
    BY DEF ConfirmHold
  <1> HIDE DEF x, y, z, p
  <1>4. e \in Holds /\ e.id = m.edge.id /\ e.decided = m.edge.decided /\ e.applied = y /\ e.plan = p
    BY <1>1, <1>2 DEF Holds
  <1> HIDE DEF e
  <1>5. n \in Managers /\ SamePause(m, n) /\ SameWork(m, n) /\ n.edge = e /\ n.stopped = m.stopped /\ n.pending = m.pending
    BY <1>1, <1>4 DEF Managers, SamePause, SameWork
  <1> HIDE DEF n
  <1>6. ManagerOK(n)
    BY <1>4, <1>5 DEF ManagerOK, SamePause, SameWork, Latched
  <1>7. Monotone(m, n)
    BY <1>1, <1>5 DEF Monotone, SamePause, SameWork, Managers
  <1>8. Allows(m, n)
    BY <1>4, <1>5 DEF Allows, SamePause, SameWork
  <1> QED
    BY <1>3, <1>4, <1>5, <1>6, <1>7, <1>8 DEF Orderly, SameWork, y, p

(* A return ends with the hold forgotten, or suspended.                    *)
LEMMA ReturnedSection ==
  ASSUME ManagerOK(manager), NEW t \in Goroutines, at[t].id > 0, NEW loops \in BOOLEAN
  PROVE  LET n == Returned(t, loops)
         IN /\ Steady(manager, n) /\ ManagerOK(n) /\ n.run = manager.run
            /\ t \notin Runs => Section(manager, n)
  <1> DEFINE m == FinishOperation(manager, t)
             gone == [m EXCEPT !.edge = None]
             n == Returned(t, loops)
  <1>1. /\ Steady(manager, m) /\ ManagerOK(m) /\ m.run = manager.run /\ SameState(manager, m)
        /\ t \notin Runs => Section(manager, m)
    BY FinishOperationSteady
  <1>2. \/ n = m \/ n = SuspendEdge(m) \/ n = gone
        \/ m.edge # None /\ n = AdoptEdgeReturn(gone, m.edge.keepalive, loops)
    BY <1>1 DEF Returned, HoldID, SameState
  <1>3. m \in Managers
    BY <1>1 DEF ManagerOK
  <1> HIDE DEF m, n
  <1>4. Section(m, m) /\ Section(m, SuspendEdge(m)) /\ SuspendEdge(m).run = m.run
    BY <1>1, SectionStays, SuspendEdgeSection
  <1>5. Section(m, gone) /\ ManagerOK(gone) /\ gone.run = m.run
    BY <1>1, DropEdgeSection DEF SameWork
  <1> HIDE DEF gone
  <1>6. ASSUME m.edge # None, n = AdoptEdgeReturn(gone, m.edge.keepalive, loops)
        PROVE  Section(m, n) /\ n.run = m.run
    <2>1. m.edge.keepalive \in BOOLEAN
      BY <1>3, <1>6 DEF Managers, Holds
    <2>2. Section(gone, n) /\ SameWork(gone, n)
      BY <1>5, <1>6, <2>1, AdoptEdgeReturnSection
    <2> QED
      BY <1>1, <1>5, <2>2, SectionTrans DEF SameWork
  <1>7. Section(m, n) /\ n.run = m.run
    BY <1>2, <1>4, <1>5, <1>6
  <1>8. ManagerOK(n)
    BY <1>7 DEF Section, Orderly
  <1>9. Steady(manager, n)
    BY <1>1, <1>7, SectionSteady, SteadyTrans
  <1>10. t \notin Runs => Section(manager, n)
    BY <1>1, <1>7, SectionTrans
  <1> QED
    BY <1>1, <1>7, <1>8, <1>9, <1>10 DEF n
-----------------------------------------------------------------------------
(* A step moves one goroutine, or two when one starts the other.           *)

Moved(S) ==
  /\ at' \in [Goroutines -> Frames]
  /\ \A t \in Goroutines \ S : at'[t] = at[t]

(* Requests, loops and reapers are different goroutines, and None is none  *)
(* of them.                                                                *)
LEMMA Kinds ==
  /\ Users \subseteq Goroutines /\ Runs \subseteq Goroutines /\ Reapers \subseteq Goroutines
  /\ Users \cap Runs = {} /\ Users \cap Reapers = {} /\ Runs \cap Reapers = {}
  /\ None \notin Goroutines /\ 0 \notin Runs /\ 1 \in Runs
  /\ \A k \in Runs : k \in Nat /\ Reaper(k) \in Reapers
  <1>1. \A k \in Runs : k \in Nat /\ Reaper(k) \in Reapers /\ Reaper(k) \in Nat
    BY ModesAssumption DEF Runs, Reapers, Reaper
  <1>2. \A r \in Reapers : r \in Nat /\ r \notin Runs
    BY ModesAssumption DEF Runs, Reapers, Reaper
  <1>3. 0 \notin Runs /\ 1 \in Runs /\ None \notin Runs /\ None \notin Reapers
    BY <1>1, <1>2, ModesAssumption DEF Runs
  <1> QED
    BY <1>1, <1>2, <1>3, ModesAssumption DEF Goroutines

(* Who stays where it is stays in order: only locks change, and only       *)
(* between those who move.                                                 *)
Passed(mu, new, S) == new = mu \/ (mu \in S \cup {None} /\ new \in S \cup {None})

(* Who did not move stays placed: the manager's generation only grows, and *)
(* a lock is only passed to or from those that moved.                      *)
LEMMA PlaceFrame ==
  ASSUME StateOK, PlaceInv, NEW S \in SUBSET Goroutines, Moved(S), Monotone(manager, manager'),
         ManagerOK(manager'),
         Passed(lifecycleMu, lifecycleMu', S), Passed(userControlMu, userControlMu', S),
         Passed(engine.targetMu, engine'.targetMu, S),
         \A t \in S : Placed(t)'
  PROVE  PlaceInv'
  <1> SUFFICES ASSUME NEW t \in Goroutines, t \notin S PROVE Placed(t)'
    BY DEF PlaceInv
  <1>1. Placed(t) /\ at'[t] = at[t]
    BY DEF PlaceInv, Moved
  <1>2. t # None
    BY Kinds
  <1>3. lifecycleMu = t <=> lifecycleMu' = t
    BY <1>2 DEF Passed
  <1>4. userControlMu = t <=> userControlMu' = t
    BY <1>2 DEF Passed
  <1>5. engine.targetMu = t <=> engine'.targetMu = t
    BY <1>2 DEF Passed
  <1>6. at[t] \in Frames
    BY DEF StateOK
  <1>7. at'[t].gen <= manager'.generation
    <2>1. at[t].gen \in Nat /\ manager.generation \in Nat /\ manager'.generation \in Nat
      BY <1>6 DEF Frames, StateOK, ManagerOK, Managers
    <2> QED
      BY <1>1, <2>1 DEF Placed, Monotone
  <1>8. t \in Users => UserShape(at[t])'
    <2>1. at[t].id \in Nat /\ manager.intent \in Nat /\ manager'.intent \in Nat
      BY <1>6 DEF Frames, StateOK, ManagerOK, Managers
    <2> QED
      BY <1>1, <2>1 DEF Placed, UserShape, Monotone
  <1>9. (t \in Runs => LoopShape(at[t])') /\ (t \in Reapers => ReapShape(at[t])')
    BY <1>1 DEF Placed, LoopShape, ReapShape
  <1> QED
    BY <1>1, <1>3, <1>4, <1>5, <1>7, <1>8, <1>9 DEF Placed, InLifecycle, InControl, InTarget

(* There is one loop that lives, and it is the only one that works.        *)
LEMMA OnlyLoop ==
  ASSUME StateOK, LoopInv, NEW j \in LiveLoops, NEW k \in LiveLoops
  PROVE  j = k
  BY DEF LoopInv

(* A loop that works has been started and has not exited.                  *)
LEMMA WorkingLives ==
  ASSUME StateOK, NEW k \in Runs, at[k].pc \in Working \cup {"edgeReturn"}
  PROVE  k \in LiveLoops
  BY DEF LiveLoops, Working

(* A section of a request leaves the loop's work as it was, or revokes it. *)
LEMMA WorkFrame ==
  ASSUME StateOK, PlaceInv, WorkInv, NEW S, Moved(S), S \cap Runs = {}, Orderly(manager, manager')
  PROVE  WorkInv'
  <1> SUFFICES ASSUME NEW k \in Runs
               PROVE  /\ at'[k].pc \in Working /\ k \notin manager'.revoked \cup manager'.cancelled =>
                           InForce(k, at[k].gen)'
                      /\ at'[k].pc = "edgeReturn" /\ manager'.generation = at'[k].gen /\ HoldID' = at'[k].id =>
                           ~manager'.stopped /\ ~manager'.pending
    BY DEF WorkInv
  <1>1. at'[k] = at[k] /\ Placed(k)
    BY Kinds DEF Moved, PlaceInv
  <1>2. /\ at[k].pc \in Working /\ k \notin manager.revoked \cup manager.cancelled => InForce(k, at[k].gen)
        /\ at[k].pc = "edgeReturn" /\ manager.generation = at[k].gen /\ HoldID = at[k].id =>
             ~manager.stopped /\ ~manager.pending
    BY DEF WorkInv
  <1>3. ASSUME at'[k].pc \in Working, k \notin manager'.revoked \cup manager'.cancelled
        PROVE  InForce(k, at[k].gen)'
    <2>1. k \notin manager.revoked \cup manager.cancelled
      BY <1>3 DEF Orderly, Allows, Monotone
    <2>2. InForce(k, at[k].gen)
      BY <1>1, <1>2, <1>3, <2>1
    <2> QED
      BY <1>1, <1>3, <2>2 DEF Orderly, Allows, InForce, Current
  <1>4. ASSUME at'[k].pc = "edgeReturn", manager'.generation = at'[k].gen, HoldID' = at'[k].id
        PROVE  ~manager'.stopped /\ ~manager'.pending
    <2>1. at[k].gen <= manager.generation /\ manager.generation <= manager'.generation
      BY <1>1 DEF Placed, Orderly, Monotone
    <2>2. at[k].gen \in Nat /\ at[k].id \in Nat /\ manager.generation \in Nat /\ manager'.generation \in Nat
      BY Kinds DEF StateOK, Frames, Orderly, ManagerOK, Managers
    <2>3. manager.generation = at[k].gen /\ manager'.generation = manager.generation
      BY <1>1, <1>4, <2>1, <2>2
    <2>4. at[k].id > 0
      BY <1>1, <1>4 DEF Placed, LoopShape
    <2>5. manager'.edge # None
      BY <1>1, <1>4, <2>4, <2>2 DEF HoldID
    <2>6. HoldID = at[k].id
      BY <1>1, <1>4, <2>3, <2>5 DEF Orderly, Allows, HoldID
    <2> QED
      BY <1>1, <1>2, <1>4, <2>3, <2>5, <2>6 DEF Orderly, Allows
  <1> QED
    BY <1>3, <1>4

(* A loop's own section answers for that loop only.                        *)
WorkOK(k) ==
  /\ at[k].pc \in Working /\ k \notin manager.revoked \cup manager.cancelled => InForce(k, at[k].gen)
  /\ at[k].pc = "edgeReturn" /\ manager.generation = at[k].gen /\ HoldID = at[k].id =>
       ~manager.stopped /\ ~manager.pending

(* A step of the one live loop only has to account for that loop's own     *)
(* work.                                                                   *)
LEMMA WorkFrameLoop ==
  ASSUME StateOK, LoopInv, NEW k \in LiveLoops, NEW S, Moved(S), S \cap Runs = {k}, WorkOK(k)'
  PROVE  WorkInv'
  <1> SUFFICES ASSUME NEW j \in Runs, j # k PROVE WorkOK(j)'
    BY DEF WorkInv, WorkOK
  <1>1. at'[j] = at[j]
    BY Kinds DEF Moved
  <1>2. j \notin LiveLoops
    BY OnlyLoop
  <1>3. at[j].pc \notin Working \cup {"edgeReturn"}
    BY <1>2, WorkingLives
  <1> QED
    BY <1>1, <1>3 DEF WorkOK

(* The loops that live stay, and the locks on them.                        *)
LEMMA LoopFrame ==
  ASSUME StateOK, LoopInv, NEW S \in SUBSET Goroutines, Moved(S), lifecycleMu' = lifecycleMu,
         manager'.run = manager.run, manager.cancelled \subseteq manager'.cancelled,
         lifecycleMu \in S => at'[lifecycleMu].loop = at[lifecycleMu].loop,
         \A t \in S \cap Runs : at[t].pc \notin {"none", "exited"} /\ at'[t].pc # "none",
         \A t \in S \cap Users : at'[t].pc # "install"
  PROVE  LoopInv'
  <1>1. \A t \in Runs : at'[t].pc # "none" <=> at[t].pc # "none"
    BY Kinds DEF Moved
  <1>2. Used' = Used
    BY <1>1 DEF Used
  <1>3. LiveLoops' \subseteq LiveLoops
    BY Kinds DEF LiveLoops, Moved
  <1>4. NextRun' = NextRun
    BY <1>2 DEF NextRun
  <1>5. \A u \in Users : at'[u].pc = "install" => NextRun' \in Runs
    BY <1>4, Kinds DEF LoopInv, Moved
  <1>6. lifecycleMu # None => at'[lifecycleMu].loop = at[lifecycleMu].loop
    BY Kinds DEF StateOK, Moved
  <1> QED
    BY <1>2, <1>3, <1>5, <1>6 DEF LoopInv
(* The engine is left alone, or only asked for an admission.               *)
Admits(S) ==
  \E a \in SUBSET S : engine' = [engine EXCEPT !.admitted = @ \cup a]

(* Recording an admission changes nothing else of the engine.              *)
LEMMA AdmitsEffect ==
  ASSUME StateOK, NEW S \in SUBSET (Users \cup Runs), Admits(S)
  PROVE  /\ engine' \in Engines
         /\ engine'.state = engine.state /\ engine'.source = engine.source /\ engine'.run = engine.run
         /\ engine'.gen = engine.gen /\ engine'.began = engine.began /\ engine'.plan = engine.plan
         /\ engine'.barriers = engine.barriers /\ engine'.targetMu = engine.targetMu
         /\ engine'.bound = engine.bound
         /\ engine.admitted \subseteq engine'.admitted /\ engine'.admitted \subseteq engine.admitted \cup S
  <1>1. PICK a \in SUBSET S : engine' = [engine EXCEPT !.admitted = @ \cup a]
    BY DEF Admits
  <1> QED
    BY <1>1 DEF StateOK, Engines

(* An engine that is left alone admits nobody.                             *)
LEMMA SameEngine ==
  ASSUME StateOK, engine' = engine
  PROVE  Admits({})
  <1>1. engine = [engine EXCEPT !.admitted = engine.admitted \cup {}]
    BY DEF StateOK, Engines
  <1> QED
    BY <1>1 DEF Admits

(* Who moves outside the engine brings motion of the current generation.   *)
Enters(t) ==
  /\ at[t].pc \notin {"halting", "pausing", "lead", "commit"}
  /\ at[t].pc = "begin" /\ t \in Users => at[t].gen = manager.generation
  /\ at[t].pc = "target" /\ Guarded(t) => at[t].gen = manager.generation

(* A step away from the engine brings nothing old to it: whoever has moved *)
(* into the engine's way is accounted for by Enters.                       *)
LEMMA EngineFrame ==
  ASSUME StateOK, PlaceInv, GenInv, EngineInv, ArrivalInv, NEW S \in SUBSET Goroutines, Moved(S),
         Monotone(manager, manager'), ManagerOK(manager'), halted' = halted,
         NEW A \in SUBSET (Users \cup Runs), Admits(A), \A t \in A : t \in S,
         \A t \in S : at[t].pc \notin {"halting", "pausing"} /\ Enters(t)'
  PROVE  GenInv' /\ EngineInv' /\ ArrivalInv'
  <1>1. /\ engine'.state = engine.state /\ engine'.source = engine.source
        /\ engine'.gen = engine.gen /\ engine'.began = engine.began /\ engine'.plan = engine.plan
        /\ engine'.barriers = engine.barriers /\ engine'.bound = engine.bound
        /\ engine.admitted \subseteq engine'.admitted /\ engine'.admitted \subseteq engine.admitted \cup S
    BY AdmitsEffect
  <1>2. /\ manager.generation \in Nat /\ manager'.generation \in Nat /\ manager.generation <= manager'.generation
        /\ halted \in Nat /\ engine.gen \in Nat /\ engine.began \in Nat
    BY DEF StateOK, ManagerOK, Managers, Engines, Monotone
  <1>3. GenInv'
    BY <1>1, <1>2 DEF GenInv
  <1>4. \A t \in Goroutines : at[t].gen \in Nat /\ at[t].gen <= manager.generation
    BY DEF StateOK, Frames, PlaceInv, Placed
  <1>5. \A v \in Users : at'[v].pc \in {"halting", "pausing"} => v \notin S /\ at'[v] = at[v]
    BY Kinds DEF Moved, Enters
  <1>6. \A v \in Users : at[v].pc \in {"halting", "pausing"} => v \notin S /\ at'[v] = at[v]
    BY Kinds DEF Moved
  <1>7. Running(engine') = Running(engine)
    BY <1>1 DEF Running
  <1>8. Pausing' <=> Pausing
    BY <1>1, <1>5, <1>6 DEF Pausing
  <1>9. EngineInv'
    <2>1. /\ engine'.bound # {} => Running(engine')
          /\ engine'.barriers # {} => ~Running(engine')
      BY <1>1, <1>7 DEF EngineInv
    <2>2. \A u \in Users : at'[u].pc \in {"halting", "pausing"} => u \in engine'.barriers
      BY <1>1, <1>5 DEF EngineInv
    <2>3. \A u \in Users : at'[u].pc = "halting" => engine'.state = "idle" /\ ~Pausing'
      BY <1>1, <1>5, <1>8 DEF EngineInv
    <2>4. engine'.state # "idle" \/ Pausing' => Fresh'
      BY <1>1, <1>8 DEF EngineInv, Fresh
    <2> QED
      BY <2>1, <2>2, <2>3, <2>4 DEF EngineInv
  <1>10. ASSUME NEW t \in Users \cup Runs
         PROVE  Arrives(t)'
    <2>1. CASE t \in S
      <3>1. Enters(t)'
        BY <2>1
      <3>2. \A v \in Users : at'[v].pc = "halting" => manager'.generation >= at'[v].gen
        BY <1>2, <1>4, <1>5, Kinds
      <3>3. halted <= manager'.generation /\ halted' = halted
        BY <1>2 DEF GenInv
      <3> QED
        BY <3>1, <3>2, <3>3, <1>2 DEF Enters, Arrives
    <2>2. CASE t \notin S
      <3>1. at'[t] = at[t] /\ Arrives(t) /\ (Guarded(t)' <=> Guarded(t))
        BY <2>2, <1>10, Kinds DEF Moved, ArrivalInv, Guarded
      <3>2. t \in engine'.admitted <=> t \in engine.admitted
        BY <1>1, <2>2
      <3> QED
        BY <1>1, <1>5, <1>7, <3>1, <3>2 DEF Arrives
    <2> QED
      BY <2>1, <2>2
  <1> QED
    BY <1>3, <1>9, <1>10 DEF ArrivalInv

(* While the plan and its source stay, only the goroutines that moved have *)
(* to look again.                                                          *)
LEMMA PlanFrame ==
  ASSUME StateOK, PlanInv, NEW S \in SUBSET Goroutines, Moved(S), HoldInv',
         engine'.plan = engine.plan, engine'.source = engine.source, engine'.bound = engine.bound,
         \A t \in S : t \in Users \cup Runs => Sees(t)'
  PROVE  PlanInv'
  <1> SUFFICES ASSUME NEW t \in Users \cup Runs, t \notin S PROVE Sees(t)'
    BY DEF PlanInv
  <1>1. at'[t] = at[t] /\ Sees(t)
    BY Kinds DEF Moved, PlanInv
  <1> QED
    BY <1>1 DEF Sees

(* A hold that is left alone still knows the source of its plan.           *)
LEMMA HoldFrame ==
  ASSUME PlanInv, SameHold(manager, manager'), engine'.plan = engine.plan, engine'.source = engine.source
  PROVE  HoldInv'
  BY DEF PlanInv, HoldInv, SameHold

(* What a step owes when it leaves the engine's motion alone.              *)
Elsewhere(S, A) ==
  /\ Moved(S) /\ Admits(A) /\ halted' = halted
  /\ Passed(lifecycleMu, lifecycleMu', S) /\ Passed(userControlMu, userControlMu', S)
  /\ lifecycleMu' \in Users \cup Reapers \cup {None} /\ userControlMu' \in Users \cup Runs \cup {None}
  /\ fenced' \in SUBSET Users /\ calls' \in Nat
  /\ \A t \in S : /\ at[t].pc \notin {"halting", "pausing"}
                  /\ Placed(t)' /\ Enters(t)' /\ (t \in Users \cup Runs => Sees(t)')

(* A step away from the engine, given what it did to the hold and the      *)
(* loops.                                                                  *)
LEMMA ElsewhereStep ==
  ASSUME IInv, NEW S \in SUBSET Goroutines, NEW A \in SUBSET (Users \cup Runs), Elsewhere(S, A), A \subseteq S,
         ManagerOK(manager'), Monotone(manager, manager'), HoldInv', WorkInv', LoopInv'
  PROVE  IInv'
  <1> USE DEF IInv
  <1>1. /\ engine' \in Engines /\ engine'.targetMu = engine.targetMu
        /\ engine'.plan = engine.plan /\ engine'.source = engine.source /\ engine'.bound = engine.bound
    BY AdmitsEffect DEF Elsewhere
  <1>2. StateOK'
    BY <1>1 DEF StateOK, Elsewhere, GenInv, Moved
  <1>3. PlaceInv'
    BY <1>1, PlaceFrame DEF Elsewhere, Passed
  <1>4. GenInv' /\ EngineInv' /\ ArrivalInv'
    BY EngineFrame DEF Elsewhere
  <1>5. PlanInv'
    BY <1>1, PlanFrame DEF Elsewhere
  <1> QED
    BY <1>2, <1>3, <1>4, <1>5

(* A section of a request that keeps the loop, and one of the loop itself. *)
LEMMA RequestStep ==
  ASSUME IInv, NEW u \in Users, NEW A \in SUBSET {u}, Elsewhere({u}, A),
         Orderly(manager, manager'), HoldInv', lifecycleMu' = lifecycleMu, manager'.run = manager.run,
         at[u].pc # "install" /\ at'[u].pc # "install",
         lifecycleMu # u
  PROVE  IInv'
  <1>1. Moved({u}) /\ {u} \in SUBSET Goroutines /\ {u} \cap Runs = {} /\ A \in SUBSET (Users \cup Runs)
    BY Kinds DEF Elsewhere
  <1>2. WorkInv'
    BY <1>1, WorkFrame DEF IInv
  <1>3. LoopInv'
    BY <1>1, LoopFrame DEF IInv, Orderly, Monotone
  <1> QED
    BY <1>1, <1>2, <1>3, ElsewhereStep DEF Orderly

(* A step of the live loop, and of a reaper it spawns, that leaves         *)
(* lifecycleMu alone.                                                      *)
LEMMA LoopSectionStep ==
  ASSUME IInv, NEW k \in LiveLoops, NEW R \in SUBSET Reapers, NEW A \in SUBSET {k}, Elsewhere({k} \cup R, A),
         ManagerOK(manager'), Monotone(manager, manager'), HoldInv', lifecycleMu' = lifecycleMu,
         manager'.run = manager.run, at'[k].pc # "none", lifecycleMu \notin R, WorkOK(k)'
  PROVE  IInv'
  <1> DEFINE S == {k} \cup R
  <1>1. k \in Runs /\ at[k].pc \notin {"none", "exited"}
    BY DEF LiveLoops
  <1>2. /\ Moved(S) /\ S \in SUBSET Goroutines /\ S \cap Runs = {k} /\ S \cap Users = {}
        /\ A \in SUBSET (Users \cup Runs) /\ A \subseteq S
    BY <1>1, Kinds DEF Elsewhere
  <1>3. lifecycleMu \notin S
    BY <1>1, Kinds DEF IInv, StateOK
  <1>4. WorkInv'
    BY <1>2, WorkFrameLoop DEF IInv
  <1>5. LoopInv'
    BY <1>1, <1>2, <1>3, LoopFrame DEF IInv, Monotone
  <1> HIDE DEF S
  <1> QED
    BY <1>2, <1>4, <1>5, ElsewhereStep DEF S
-----------------------------------------------------------------------------
(* How the steps move a goroutine. *)

PCs == UserPC \cup LoopPC \cup ReapPC

(* What a goroutine's call is about.                                       *)
SameCall(f, g) == g.call = f.call /\ g.mode = f.mode /\ g.id = f.id /\ g.loop = f.loop

(* The frame of a goroutine that is in no call.                            *)
LEMMA IdleType ==
  /\ Idle \in Frames /\ Unseen \in Snapshots
  /\ Idle.pc = "idle" /\ Idle.call = "none" /\ Idle.mode = "none" /\ Idle.id = 0 /\ Idle.gen = 0
  /\ Idle.saw = Unseen /\ Idle.ok = "none" /\ Idle.loop = 0
  <1>1. Unseen \in Snapshots
    BY ModesAssumption DEF Unseen, Snapshots, EngineStates, Sources
  <1> HIDE DEF Unseen
  <1> QED
    BY <1>1, ModesAssumption DEF Idle, Frames, UserPC, Sources

(* The frame of a call that has just begun.                                *)
LEMMA NewType ==
  ASSUME NEW call \in AllCalls \cup {"none", "loop", "reap"}, NEW pc \in PCs
  PROVE  /\ New(call, pc) \in Frames
         /\ New(call, pc).pc = pc /\ New(call, pc).call = call /\ New(call, pc).mode = "none"
         /\ New(call, pc).id = 0 /\ New(call, pc).gen = 0 /\ New(call, pc).saw = Unseen
         /\ New(call, pc).ok = "none" /\ New(call, pc).loop = 0
  <1>1. Idle \in Frames
    BY IdleType
  <1>2. New(call, pc) = [Idle EXCEPT !.pc = pc, !.call = call]
    BY DEF New
  <1>3. /\ Idle.mode = "none" /\ Idle.id = 0 /\ Idle.gen = 0
        /\ Idle.saw = Unseen /\ Idle.ok = "none" /\ Idle.loop = 0
    BY IdleType
  <1> HIDE DEF Idle, Unseen
  <1> QED
    BY <1>1, <1>2, <1>3 DEF Frames, PCs

(* What Engine.Snapshot shows.                                             *)
LEMMA SnapshotType ==
  ASSUME StateOK
  PROVE  /\ Snapshot \in Snapshots
         /\ Snapshot.state = engine.state /\ Snapshot.source = engine.source
         /\ Snapshot.run = engine.run /\ Snapshot.plan = engine.plan
  BY DEF StateOK, Engines, Snapshot, Snapshots

(* Entering a call moves one goroutine.                                    *)
LEMMA OpenEffect ==
  ASSUME StateOK, NEW t \in Goroutines, NEW f \in Frames, at' = [at EXCEPT ![t] = f]
  PROVE  Moved({t}) /\ at'[t] = f
  BY DEF StateOK, Moved

(* Going on moves one goroutine within its call.                           *)
LEMMA GoEffect ==
  ASSUME StateOK, NEW t \in Goroutines, NEW pc \in PCs, Go(t, pc)
  PROVE  /\ Moved({t}) /\ at'[t].pc = pc /\ SameCall(at[t], at'[t])
         /\ at'[t].gen = at[t].gen /\ at'[t].saw = at[t].saw /\ at'[t].ok = at[t].ok
  <1> DEFINE f == [at[t] EXCEPT !.pc = pc]
  <1>1. at[t] \in Frames
    BY DEF StateOK
  <1>2. /\ f \in Frames /\ f.pc = pc /\ SameCall(at[t], f)
        /\ f.gen = at[t].gen /\ f.saw = at[t].saw /\ f.ok = at[t].ok
    BY <1>1 DEF Frames, PCs, SameCall
  <1>3. at' = [at EXCEPT ![t] = f]
    BY DEF Go
  <1> HIDE DEF f
  <1> QED
    BY <1>2, <1>3, OpenEffect

(* The engine's answer moves one goroutine within its call.                *)
LEMMA AnswerEffect ==
  ASSUME StateOK, NEW t \in Goroutines, NEW ok \in {"none", "yes", "no", "late"}, Answer(t, ok)
  PROVE  /\ Moved({t}) /\ at'[t].pc = "answered" /\ at'[t].ok = ok /\ SameCall(at[t], at'[t])
         /\ at'[t].gen = at[t].gen /\ at'[t].saw = at[t].saw
  <1> DEFINE f == [at[t] EXCEPT !.pc = "answered", !.ok = ok]
  <1>1. at[t] \in Frames
    BY DEF StateOK
  <1>2. /\ f \in Frames /\ f.pc = "answered" /\ SameCall(at[t], f)
        /\ f.gen = at[t].gen /\ f.saw = at[t].saw /\ f.ok = ok
    BY <1>1 DEF Frames, UserPC, SameCall
  <1>3. at' = [at EXCEPT ![t] = f]
    BY <1>1 DEF Answer, StateOK
  <1> HIDE DEF f
  <1> QED
    BY <1>2, <1>3, OpenEffect

(* A request that returns is idle and no longer fenced.                    *)
LEMMA LeaveEffect ==
  ASSUME StateOK, NEW u \in Users, Leave(u)
  PROVE  Moved({u}) /\ at'[u] = Idle /\ fenced' \in SUBSET Users
  BY IdleType, OpenEffect, Kinds DEF Leave, StateOK

(* A loop whose tick is over waits and has forgotten what the tick saw.    *)
LEMMA WaitEffect ==
  ASSUME StateOK, NEW k \in Runs, at' = Wait(k)
  PROVE  /\ Moved({k}) /\ at'[k].pc = "wait" /\ at'[k].call = "loop" /\ at'[k].mode = at[k].mode
         /\ at'[k].id = 0 /\ at'[k].gen = 0 /\ at'[k].saw = Unseen /\ at'[k].ok = "none" /\ at'[k].loop = 0
  <1> DEFINE f == [Idle EXCEPT !.pc = "wait", !.call = "loop", !.mode = at[k].mode]
  <1>1. at[k] \in Frames /\ k \in Goroutines
    BY Kinds DEF StateOK
  <1>2. /\ Idle \in Frames /\ Idle.id = 0 /\ Idle.gen = 0 /\ Idle.saw = Unseen /\ Idle.ok = "none" /\ Idle.loop = 0
    BY IdleType
  <1>3. at' = [at EXCEPT ![k] = f]
    BY DEF Wait
  <1> HIDE DEF Idle, Unseen
  <1>4. /\ f \in Frames /\ f.pc = "wait" /\ f.call = "loop" /\ f.mode = at[k].mode
        /\ f.id = 0 /\ f.gen = 0 /\ f.saw = Unseen /\ f.ok = "none" /\ f.loop = 0
    BY <1>1, <1>2 DEF Frames, LoopPC
  <1> HIDE DEF f
  <1> QED
    BY <1>1, <1>3, <1>4, OpenEffect

(* A request's section.                                                    *)
LEMMA UserSection ==
  ASSUME IInv, NEW u \in Users, Moved({u}), engine' = engine, halted' = halted, lifecycleMu' = lifecycleMu,
         userControlMu' = userControlMu \/ (userControlMu \in {None, u} /\ userControlMu' \in {None, u}),
         calls' \in Nat, fenced' \in SUBSET Users,
         at[u].pc \notin {"halting", "pausing", "lead", "commit", "install"}, ~InLifecycle(at[u]),
         at'[u].pc # "install", ~InLifecycle(at'[u]),
         UserShape(at[u])', at'[u].pc \notin {"answered", "complete"} => at'[u].ok = "none",
         InControl(at'[u]) <=> userControlMu' = u,
         at'[u].gen <= manager'.generation, Enters(u)', Sees(u)',
         Orderly(manager, manager'), HoldInv', manager'.run = manager.run
  PROVE  IInv'
  <1>1. Admits({})
    BY SameEngine DEF IInv
  <1>2. Placed(u) /\ u # None /\ u \notin Runs /\ u \notin Reapers
    BY Kinds DEF IInv, PlaceInv
  <1>3. lifecycleMu # u /\ engine.targetMu # u
    BY <1>2 DEF Placed, InTarget
  <1>4. Placed(u)'
    BY <1>2, <1>3 DEF Placed, Enters, InTarget
  <1>5. /\ Passed(lifecycleMu, lifecycleMu', {u}) /\ Passed(userControlMu, userControlMu', {u})
        /\ lifecycleMu' \in Users \cup Reapers \cup {None} /\ userControlMu' \in Users \cup Runs \cup {None}
    BY DEF Passed, IInv, StateOK
  <1>6. Elsewhere({u}, {})
    BY <1>1, <1>4, <1>5 DEF Elsewhere
  <1> QED
    BY <1>3, <1>6, RequestStep

(* A request that ends.                                                    *)
LEMMA UserLeaves ==
  ASSUME IInv, NEW u \in Users, Leave(u), engine' = engine, halted' = halted, lifecycleMu' = lifecycleMu,
         userControlMu' = (IF InControl(at[u]) THEN None ELSE userControlMu),
         calls' = calls, at[u].pc \notin {"halting", "pausing", "lead", "commit", "install"}, ~InLifecycle(at[u]),
         Orderly(manager, manager'), HoldInv', manager'.run = manager.run
  PROVE  IInv'
  <1>1. Moved({u}) /\ at'[u] = Idle /\ fenced' \in SUBSET Users
    BY LeaveEffect DEF IInv
  <1>2. /\ at'[u].pc = "idle" /\ at'[u].call = "none" /\ at'[u].ok = "none" /\ at'[u].gen = 0 /\ at'[u].loop = 0
        /\ at'[u].saw.plan = 0
    BY <1>1, IdleType DEF Unseen
  <1>3. Placed(u) /\ u # None
    BY Kinds DEF IInv, PlaceInv
  <1>4. ~InControl(at'[u]) /\ ~InLifecycle(at'[u]) /\ userControlMu' # u
    BY <1>2, <1>3 DEF InControl, InLifecycle, Placed
  <1>5. userControlMu' = userControlMu \/ (userControlMu = u /\ userControlMu' = None)
    BY <1>3 DEF Placed
  <1>6. UserShape(at[u])' /\ Enters(u)'
    BY <1>2 DEF UserShape, Enters
  <1>7. engine.plan \in Nat /\ manager'.generation \in Nat /\ calls \in Nat
    BY DEF IInv, StateOK, Engines, Orderly, ManagerOK, Managers
  <1>8. Sees(u)'
    BY <1>2, <1>7 DEF Sees
  <1> QED
    BY <1>1, <1>2, <1>4, <1>5, <1>6, <1>7, <1>8, UserSection
(* A section keeps the hold's knowledge of its plan.                       *)
LEMMA SectionHold ==
  ASSUME IInv, Section(manager, manager'), engine' = engine
  PROVE  Orderly(manager, manager') /\ HoldInv'
  BY HoldFrame DEF IInv, Section

(* So does a step that leaves the manager alone.                           *)
LEMMA IntactHold ==
  ASSUME IInv, manager' = manager, engine' = engine
  PROVE  Orderly(manager, manager') /\ HoldInv' /\ manager'.run = manager.run /\ ManagerOK(manager)
  BY SectionStays, SectionHold DEF IInv, StateOK

(* A request that begins.                                                  *)
LEMMA UserEnters ==
  ASSUME IInv, NEW u \in Users, at[u].pc = "idle", calls' = calls + 1, NEW f \in Frames, at' = [at EXCEPT ![u] = f],
         engine' = engine, halted' = halted, lifecycleMu' = lifecycleMu, fenced' \in SUBSET Users,
         IF InControl(f) THEN userControlMu = None /\ userControlMu' = u ELSE userControlMu' = userControlMu,
         UserShape(at[u])', f.ok = "none", f.loop = 0,
         f.pc \notin {"halting", "pausing", "lead", "commit", "begin", "install", "drain"},
         f.pc = "target" => f.call = "settings",
         f.gen <= manager'.generation, Sees(u)',
         Orderly(manager, manager'), HoldInv', manager'.run = manager.run
  PROVE  IInv'
  <1>1. Moved({u}) /\ at'[u] = f
    BY OpenEffect, Kinds DEF IInv
  <1>2. Placed(u) /\ u # None
    BY Kinds DEF IInv, PlaceInv
  <1>3. UserShape(at[u]) /\ at[u].call = "none"
    BY <1>2 DEF Placed, UserShape
  <1>4. ~InControl(at[u]) /\ ~InLifecycle(at[u]) /\ userControlMu # u
    BY <1>2, <1>3 DEF InControl, InLifecycle, Placed
  <1>5. ~InLifecycle(f)
    <2>1. f.loop = 0 /\ f.pc \notin {"install", "drain"}
      OBVIOUS
    <2> QED
      BY <2>1 DEF InLifecycle
  <1>6. calls' \in Nat
    BY DEF IInv, StateOK
  <1>7. Enters(u)'
    BY <1>1 DEF Enters, Guarded
  <1> QED
    BY <1>1, <1>2, <1>4, <1>5, <1>6, <1>7, UserSection

(* What a request that has seen no motion sees.                            *)
LEMMA SeesNothing ==
  ASSUME StateOK, engine' = engine, NEW t \in Goroutines, at'[t].saw = Unseen,
         at'[t].pc \notin {"tickEdge", "reconcile", "lead", "commit"},
         at'[t].call = "return" => at'[t].pc # "target",
         at'[t].call = "edge" /\ at'[t].pc = "answered" => at'[t].ok = "no"
  PROVE  Sees(t)'
  <1>1. engine.plan \in Nat /\ Unseen.plan = 0
    BY DEF StateOK, Engines, Unseen
  <1> QED
    BY <1>1 DEF Sees

(* The counters of a manager in order are naturals.                        *)
LEMMA GenerationType ==
  ASSUME NEW m, ManagerOK(m)
  PROVE  m.generation \in Nat /\ m.intent \in Nat /\ 0 <= m.generation /\ m.activityID \in Nat
  BY DEF ManagerOK, Managers

(* Start registers its intent: nothing but the intent counter moves.       *)
LEMMA StartRegisterStep ==
  ASSUME IInv, NEW u \in Users, StartRegister(u)
  PROVE  IInv'
  <1>1. Section(manager, manager') /\ ManagerOK(manager') /\ manager'.run = manager.run
    BY IntentSection DEF StartRegister, IInv, StateOK, SameWork
  <1>2. PICK mode \in Modes : at' = [at EXCEPT ![u] = [New("start", "control") EXCEPT !.mode = mode, !.id = manager.intent + 1]]
    BY DEF StartRegister, Open
  <1> DEFINE i == manager.intent + 1
             b == New("start", "control")
             f == [b EXCEPT !.mode = mode, !.id = i]
  <1>3. /\ b \in Frames /\ b.pc = "control" /\ b.call = "start" /\ b.gen = 0 /\ b.saw = Unseen
        /\ b.ok = "none" /\ b.loop = 0
    BY NewType DEF AllCalls, PCs, UserPC
  <1>4. i \in Nat /\ mode \in Sources
    BY GenerationType, ModesAssumption DEF IInv, StateOK, Sources
  <1> HIDE DEF i, b
  <1>5. /\ f \in Frames /\ f.pc = "control" /\ f.call = "start" /\ f.gen = 0 /\ f.saw = Unseen
        /\ f.ok = "none" /\ f.loop = 0
    BY <1>3, <1>4 DEF Frames
  <1>6. at' = [at EXCEPT ![u] = f]
    BY <1>2 DEF i, b
  <1> HIDE DEF f
  <1>7. at'[u] = f
    BY <1>5, <1>6, OpenEffect, Kinds DEF IInv
  <1>8. /\ at[u].pc = "idle" /\ calls' = calls + 1 /\ engine' = engine /\ halted' = halted
        /\ lifecycleMu' = lifecycleMu /\ userControlMu' = userControlMu /\ fenced' = fenced
    BY DEF StartRegister, Enter, locks
  <1>9. ~InControl(f) /\ UserShape(at[u])'
    BY <1>5, <1>7 DEF InControl, UserShape
  <1>10. Sees(u)'
    BY <1>5, <1>7, <1>8, SeesNothing, Kinds DEF IInv
  <1>11. f.gen <= manager'.generation /\ fenced \in SUBSET Users
    BY <1>1, <1>5, GenerationType DEF IInv, StateOK
  <1>12. Orderly(manager, manager') /\ HoldInv'
    BY <1>1, <1>8, SectionHold
  <1> QED
    BY <1>1, <1>5, <1>6, <1>8, <1>9, <1>10, <1>11, <1>12, UserEnters
(* Resume registers its intent: nothing but the intent counter moves.      *)
LEMMA ResumeRegisterStep ==
  ASSUME IInv, NEW u \in Users, ResumeRegister(u)
  PROVE  IInv'
  <1>1. Section(manager, manager') /\ ManagerOK(manager') /\ manager'.run = manager.run
    BY IntentSection DEF ResumeRegister, IInv, StateOK, SameWork
  <1> DEFINE newId == manager.intent + 1
             b == New("resume", "control")
             f == [b EXCEPT !.id = newId]
  <1>2. /\ b \in Frames /\ b.pc = "control" /\ b.call = "resume" /\ b.mode = "none" /\ b.id = 0 /\ b.gen = 0
        /\ b.saw = Unseen /\ b.ok = "none" /\ b.loop = 0
    BY NewType DEF AllCalls, PCs, UserPC
  <1>3. newId \in Nat
    BY GenerationType DEF IInv, StateOK, Sources, AllModes
  <1> HIDE DEF newId, b
  <1>4. /\ f \in Frames /\ f.pc = "control" /\ f.call = "resume" /\ f.mode = "none" /\ f.id = newId /\ f.gen = 0 /\ f.saw = Unseen
        /\ f.ok = "none" /\ f.loop = 0
    BY <1>2, <1>3 DEF Frames, Sources
  <1>5. at' = [at EXCEPT ![u] = f]
    BY DEF ResumeRegister, Open, newId, b
  <1> HIDE DEF f
  <1>6. at'[u] = f
    BY <1>4, <1>5, OpenEffect, Kinds DEF IInv
  <1>7. /\ at[u].pc = "idle" /\ calls' = calls + 1 /\ engine' = engine /\ halted' = halted
        /\ lifecycleMu' = lifecycleMu /\ userControlMu' = userControlMu
    BY DEF ResumeRegister, Enter, locks
  <1>8. fenced' \in SUBSET Users
    BY DEF ResumeRegister, IInv, StateOK
  <1>13. f.id <= manager'.intent
    <2>1. manager'.intent = newId /\ newId \in Nat
      BY GenerationType, IntentSection DEF ResumeRegister, IInv, StateOK, newId
    <2> QED
      BY <1>4, <2>1
  <1>9. ~InControl(f) /\ UserShape(at[u])'
    BY <1>4, <1>6, <1>13 DEF InControl, UserShape
  <1>10. Sees(u)'
    BY <1>4, <1>6, <1>7, SeesNothing, Kinds DEF IInv
  <1>11. f.gen <= manager'.generation
    BY <1>1, <1>4, GenerationType
  <1>12. Orderly(manager, manager') /\ HoldInv'
    BY <1>1, <1>7, SectionHold
  <1> QED
    BY <1>1, <1>4, <1>5, <1>7, <1>8, <1>9, <1>10, <1>11, <1>12, UserEnters

(* A device change that will stop the modes has only begun.                *)
LEMMA HaltEnterStep ==
  ASSUME IInv, NEW u \in Users, HaltEnter(u)
  PROVE  IInv'
  <1>1. Section(manager, manager') /\ ManagerOK(manager') /\ manager'.run = manager.run
    BY SectionStays DEF HaltEnter, IInv, StateOK
  <1> DEFINE b == New("halt", "stopLoop")
             f == b
  <1>2. /\ b \in Frames /\ b.pc = "stopLoop" /\ b.call = "halt" /\ b.mode = "none" /\ b.id = 0 /\ b.gen = 0
        /\ b.saw = Unseen /\ b.ok = "none" /\ b.loop = 0
    BY NewType DEF AllCalls, PCs, UserPC
  <1> HIDE DEF b
  <1>3. /\ f \in Frames /\ f.pc = "stopLoop" /\ f.call = "halt" /\ f.mode = "none" /\ f.id = 0 /\ f.gen = 0 /\ f.saw = Unseen
        /\ f.ok = "none" /\ f.loop = 0
    BY <1>2 DEF Frames, Sources
  <1>4. at' = [at EXCEPT ![u] = f]
    BY DEF HaltEnter, Open, b
  <1> HIDE DEF f
  <1>5. at'[u] = f
    BY <1>3, <1>4, OpenEffect, Kinds DEF IInv
  <1>6. /\ at[u].pc = "idle" /\ calls' = calls + 1 /\ engine' = engine /\ halted' = halted
        /\ lifecycleMu' = lifecycleMu /\ userControlMu' = userControlMu
    BY DEF HaltEnter, Enter, locks
  <1>7. fenced' \in SUBSET Users
    BY DEF HaltEnter, IInv, StateOK
  <1>8. ~InControl(f) /\ UserShape(at[u])'
    BY <1>3, <1>5 DEF InControl, UserShape
  <1>9. Sees(u)'
    BY <1>3, <1>5, <1>6, SeesNothing, Kinds DEF IInv
  <1>10. f.gen <= manager'.generation
    BY <1>1, <1>3, GenerationType
  <1>11. Orderly(manager, manager') /\ HoldInv'
    BY <1>1, <1>6, SectionHold
  <1> QED
    BY <1>1, <1>3, <1>4, <1>6, <1>7, <1>8, <1>9, <1>10, <1>11, UserEnters

(* Saved settings are the one target that goes to the engine without a     *)
(* generation of its own.                                                  *)
LEMMA SettingsSavedStep ==
  ASSUME IInv, NEW u \in Users, SettingsSaved(u)
  PROVE  IInv'
  <1>1. Section(manager, manager') /\ ManagerOK(manager') /\ manager'.run = manager.run
    BY NotifySettingsSection DEF SettingsSaved, IInv, StateOK
  <1> DEFINE b == New("settings", "target")
             f == b
  <1>2. /\ b \in Frames /\ b.pc = "target" /\ b.call = "settings" /\ b.mode = "none" /\ b.id = 0 /\ b.gen = 0
        /\ b.saw = Unseen /\ b.ok = "none" /\ b.loop = 0
    BY NewType DEF AllCalls, PCs, UserPC
  <1> HIDE DEF b
  <1>3. /\ f \in Frames /\ f.pc = "target" /\ f.call = "settings" /\ f.mode = "none" /\ f.id = 0 /\ f.gen = 0 /\ f.saw = Unseen
        /\ f.ok = "none" /\ f.loop = 0
    BY <1>2 DEF Frames, Sources
  <1>4. at' = [at EXCEPT ![u] = f]
    BY DEF SettingsSaved, Open, b
  <1> HIDE DEF f
  <1>5. at'[u] = f
    BY <1>3, <1>4, OpenEffect, Kinds DEF IInv
  <1>6. /\ at[u].pc = "idle" /\ calls' = calls + 1 /\ engine' = engine /\ halted' = halted
        /\ lifecycleMu' = lifecycleMu /\ userControlMu' = userControlMu
    BY DEF SettingsSaved, Enter, locks
  <1>7. fenced' \in SUBSET Users
    BY DEF SettingsSaved, IInv, StateOK
  <1>8. ~InControl(f) /\ UserShape(at[u])'
    BY <1>3, <1>5 DEF InControl, UserShape
  <1>9. Sees(u)'
    BY <1>3, <1>5, <1>6, SeesNothing, Kinds DEF IInv
  <1>10. f.gen <= manager'.generation
    BY <1>1, <1>3, GenerationType
  <1>11. Orderly(manager, manager') /\ HoldInv'
    BY <1>1, <1>6, SectionHold
  <1> QED
    BY <1>1, <1>3, <1>4, <1>6, <1>7, <1>8, <1>9, <1>10, <1>11, UserEnters

(* A chat turn postpones the autopilot before it asks the model.           *)
LEMMA ChatBeginStep ==
  ASSUME IInv, NEW u \in Users, ChatBegin(u)
  PROVE  IInv'
  <1>1. Section(manager, manager') /\ ManagerOK(manager') /\ manager'.run = manager.run
    BY NotifyChatActivitySection DEF ChatBegin, IInv, StateOK
  <1> DEFINE newId == manager.activityID + 1
             b == New("chat", "model")
             f == [b EXCEPT !.mode = "chat", !.id = newId]
  <1>2. /\ b \in Frames /\ b.pc = "model" /\ b.call = "chat" /\ b.mode = "none" /\ b.id = 0 /\ b.gen = 0
        /\ b.saw = Unseen /\ b.ok = "none" /\ b.loop = 0
    BY NewType DEF AllCalls, PCs, UserPC
  <1>3. "chat" \in Sources /\ newId \in Nat
    BY GenerationType DEF IInv, StateOK, Sources, AllModes
  <1> HIDE DEF newId, b
  <1>4. /\ f \in Frames /\ f.pc = "model" /\ f.call = "chat" /\ f.mode = "chat" /\ f.id = newId /\ f.gen = 0 /\ f.saw = Unseen
        /\ f.ok = "none" /\ f.loop = 0
    BY <1>2, <1>3 DEF Frames, Sources
  <1>5. at' = [at EXCEPT ![u] = f]
    BY DEF ChatBegin, Open, newId, b
  <1> HIDE DEF f
  <1>6. at'[u] = f
    BY <1>4, <1>5, OpenEffect, Kinds DEF IInv
  <1>7. /\ at[u].pc = "idle" /\ calls' = calls + 1 /\ engine' = engine /\ halted' = halted
        /\ lifecycleMu' = lifecycleMu /\ userControlMu' = userControlMu
    BY DEF ChatBegin, Enter, locks
  <1>8. fenced' \in SUBSET Users
    BY DEF ChatBegin, IInv, StateOK
  <1>9. ~InControl(f) /\ UserShape(at[u])'
    BY <1>4, <1>6 DEF InControl, UserShape
  <1>10. Sees(u)'
    BY <1>4, <1>6, <1>7, SeesNothing, Kinds DEF IInv
  <1>11. f.gen <= manager'.generation
    BY <1>1, <1>4, GenerationType
  <1>12. Orderly(manager, manager') /\ HoldInv'
    BY <1>1, <1>7, SectionHold
  <1> QED
    BY <1>1, <1>4, <1>5, <1>7, <1>8, <1>9, <1>10, <1>11, <1>12, UserEnters

(* A return remembers the hold and the generation it was asked for.        *)
LEMMA ReturnRegisterStep ==
  ASSUME IInv, NEW u \in Users, ReturnRegister(u)
  PROVE  IInv'
  <1>1. Section(manager, manager') /\ ManagerOK(manager') /\ manager'.run = manager.run
    BY SectionStays DEF ReturnRegister, IInv, StateOK
  <1> DEFINE newId == HoldID
             newGen == manager.generation
             b == New("return", "control")
             f == [b EXCEPT !.id = newId, !.gen = newGen]
  <1>2. /\ b \in Frames /\ b.pc = "control" /\ b.call = "return" /\ b.mode = "none" /\ b.id = 0 /\ b.gen = 0
        /\ b.saw = Unseen /\ b.ok = "none" /\ b.loop = 0
    BY NewType DEF AllCalls, PCs, UserPC
  <1>3. newId \in Nat /\ newGen \in Nat
    BY GenerationType DEF IInv, StateOK, HoldID, Holds, ManagerOK, Managers
  <1> HIDE DEF newId, newGen, b
  <1>4. /\ f \in Frames /\ f.pc = "control" /\ f.call = "return" /\ f.mode = "none" /\ f.id = newId /\ f.gen = newGen /\ f.saw = Unseen
        /\ f.ok = "none" /\ f.loop = 0
    BY <1>2, <1>3 DEF Frames, Sources
  <1>5. at' = [at EXCEPT ![u] = f]
    BY DEF ReturnRegister, Open, newId, newGen, b
  <1> HIDE DEF f
  <1>6. at'[u] = f
    BY <1>4, <1>5, OpenEffect, Kinds DEF IInv
  <1>7. /\ at[u].pc = "idle" /\ calls' = calls + 1 /\ engine' = engine /\ halted' = halted
        /\ lifecycleMu' = lifecycleMu /\ userControlMu' = userControlMu
    BY DEF ReturnRegister, Enter, locks
  <1>8. fenced' \in SUBSET Users
    BY DEF ReturnRegister, IInv, StateOK
  <1>9. ~InControl(f) /\ UserShape(at[u])'
    BY <1>4, <1>6 DEF InControl, UserShape
  <1>10. Sees(u)'
    BY <1>4, <1>6, <1>7, SeesNothing, Kinds DEF IInv
  <1>13. newGen = manager'.generation
    BY DEF ReturnRegister, newGen
  <1>11. f.gen <= manager'.generation
    BY <1>1, <1>4, GenerationType, <1>13
  <1>12. Orderly(manager, manager') /\ HoldInv'
    BY <1>1, <1>7, SectionHold
  <1> QED
    BY <1>1, <1>4, <1>5, <1>7, <1>8, <1>9, <1>10, <1>11, <1>12, UserEnters

(* A pause is latched before the request waits for the control lock.       *)
LEMMA PauseRegisterStep ==
  ASSUME IInv, NEW u \in Users, PauseRegister(u)
  PROVE  IInv'
  <1>1. Section(manager, manager') /\ ManagerOK(manager') /\ manager'.run = manager.run
    BY PauseLatchSection DEF PauseRegister, PauseLatch, IInv, StateOK
  <1> DEFINE newId == SuspendEdge([manager EXCEPT !.intent = @ + 1]).intent
             b == New("pause", "control")
             f == [b EXCEPT !.id = newId]
  <1>2. /\ b \in Frames /\ b.pc = "control" /\ b.call = "pause" /\ b.mode = "none" /\ b.id = 0 /\ b.gen = 0
        /\ b.saw = Unseen /\ b.ok = "none" /\ b.loop = 0
    BY NewType DEF AllCalls, PCs, UserPC
  <1>3. newId \in Nat
    BY IntentSection, SuspendEdgeSection DEF IInv, StateOK, ManagerOK, Managers
  <1> HIDE DEF newId, b
  <1>4. /\ f \in Frames /\ f.pc = "control" /\ f.call = "pause" /\ f.mode = "none" /\ f.id = newId /\ f.gen = 0 /\ f.saw = Unseen
        /\ f.ok = "none" /\ f.loop = 0
    BY <1>2, <1>3 DEF Frames, Sources
  <1>5. at' = [at EXCEPT ![u] = f]
    BY DEF PauseRegister, Open, newId, b
  <1> HIDE DEF f
  <1>6. at'[u] = f
    BY <1>4, <1>5, OpenEffect, Kinds DEF IInv
  <1>7. /\ at[u].pc = "idle" /\ calls' = calls + 1 /\ engine' = engine /\ halted' = halted
        /\ lifecycleMu' = lifecycleMu /\ userControlMu' = userControlMu
    BY DEF PauseRegister, Enter, locks
  <1>8. fenced' \in SUBSET Users
    BY DEF PauseRegister, IInv, StateOK
  <1>9. ~InControl(f) /\ UserShape(at[u])'
    BY <1>4, <1>6 DEF InControl, UserShape
  <1>10. Sees(u)'
    BY <1>4, <1>6, <1>7, SeesNothing, Kinds DEF IInv
  <1>11. f.gen <= manager'.generation
    BY <1>1, <1>4, GenerationType
  <1>12. Orderly(manager, manager') /\ HoldInv'
    BY <1>1, <1>7, SectionHold
  <1> QED
    BY <1>1, <1>4, <1>5, <1>7, <1>8, <1>9, <1>10, <1>11, <1>12, UserEnters

(* A review takes its ticket in the current generation.                    *)
LEMMA ReviewBeginStep ==
  ASSUME IInv, NEW u \in Users, ReviewBegin(u)
  PROVE  IInv'
  <1>13. Section(manager, manager') /\ ManagerOK(manager') /\ SameWork(manager, manager') /\ manager'.run = manager.run
    <2>1. manager.tickets \cup {u} \in SUBSET Users /\ TRUE \in BOOLEAN /\ None \in Nat \cup {None}
      BY DEF IInv, StateOK, ManagerOK, Managers
    <2>2. manager' = [manager EXCEPT !.tickets = manager.tickets \cup {u}]
      BY DEF ReviewBegin
    <2>3. Section(manager, manager') /\ ManagerOK(manager') /\ SameWork(manager, manager')
      BY <2>1, <2>2, BookkeepingSection DEF IInv, StateOK
    <2> QED
      BY <2>3 DEF SameWork
  <1>1. Section(manager, manager') /\ ManagerOK(manager') /\ manager'.run = manager.run
    BY <1>13
  <1> DEFINE newSaw == Snapshot
             newId == manager.activityID
             newGen == manager.generation
             b == New("review", "apply")
             f == [b EXCEPT !.saw = newSaw, !.id = newId, !.gen = newGen]
  <1>2. /\ b \in Frames /\ b.pc = "apply" /\ b.call = "review" /\ b.mode = "none" /\ b.id = 0 /\ b.gen = 0
        /\ b.saw = Unseen /\ b.ok = "none" /\ b.loop = 0
    BY NewType DEF AllCalls, PCs, UserPC
  <1>3. newSaw \in Snapshots /\ newId \in Nat /\ newGen \in Nat
    BY GenerationType, SnapshotType DEF IInv, StateOK
  <1> HIDE DEF newSaw, newId, newGen, b
  <1>4. /\ f \in Frames /\ f.pc = "apply" /\ f.call = "review" /\ f.mode = "none" /\ f.id = newId /\ f.gen = newGen /\ f.saw = newSaw
        /\ f.ok = "none" /\ f.loop = 0
    BY <1>2, <1>3 DEF Frames, Sources
  <1>5. at' = [at EXCEPT ![u] = f]
    BY DEF ReviewBegin, Open, newSaw, newId, newGen, b
  <1> HIDE DEF f
  <1>6. at'[u] = f
    BY <1>4, <1>5, OpenEffect, Kinds DEF IInv
  <1>7. /\ at[u].pc = "idle" /\ calls' = calls + 1 /\ engine' = engine /\ halted' = halted
        /\ lifecycleMu' = lifecycleMu /\ userControlMu' = userControlMu
    BY DEF ReviewBegin, Enter, locks
  <1>8. fenced' \in SUBSET Users
    BY DEF ReviewBegin, IInv, StateOK
  <1>9. ~InControl(f) /\ UserShape(at[u])'
    BY <1>4, <1>6 DEF InControl, UserShape
  <1>15. f.saw.plan <= engine'.plan
    <2>1. newSaw.plan = engine.plan /\ engine.plan \in Nat
      BY SnapshotType DEF IInv, StateOK, Engines, newSaw
    <2> QED
      BY <1>4, <1>7, <2>1
  <1>10. Sees(u)'
    BY <1>15, <1>4, <1>6 DEF Sees
  <1>14. newGen = manager'.generation
    BY <1>13 DEF SameWork, newGen
  <1>11. f.gen <= manager'.generation
    BY <1>1, <1>4, GenerationType, <1>14
  <1>12. Orderly(manager, manager') /\ HoldInv'
    BY <1>1, <1>7, SectionHold
  <1> QED
    BY <1>1, <1>4, <1>5, <1>7, <1>8, <1>9, <1>10, <1>11, <1>12, UserEnters

(* A Stop fences the requests it overtakes and has not stopped anything    *)
(* yet.                                                                    *)
LEMMA StopFenceStep ==
  ASSUME IInv, NEW u \in Users, StopFence(u)
  PROVE  IInv'
  <1>1. Section(manager, manager') /\ ManagerOK(manager') /\ manager'.run = manager.run
    BY SectionStays DEF StopFence, IInv, StateOK
  <1>2. PICK call \in {"stop", "chatstop", "modestop", "end"} :
          /\ Enter(u, call) /\ Open(u, New(call, IF call = "chatstop" THEN "notify" ELSE "stop"))
          /\ fenced' = IF call \in {"stop", "chatstop"}
                       THEN fenced \cup {v \in Users \ {u} : at[v].call \in Abandonable} ELSE fenced
    BY DEF StopFence
  <1> DEFINE first == IF call = "chatstop" THEN "notify" ELSE "stop"
             b == New(call, first)
             f == b
  <1>3. /\ b \in Frames /\ b.pc = first /\ b.call = call /\ b.mode = "none" /\ b.id = 0 /\ b.gen = 0
        /\ b.saw = Unseen /\ b.ok = "none" /\ b.loop = 0
    BY <1>2, NewType DEF AllCalls, PCs, UserPC
  <1> HIDE DEF b
  <1>4. /\ f \in Frames /\ f.pc = first /\ f.call = call /\ f.mode = "none" /\ f.id = 0 /\ f.gen = 0 /\ f.saw = Unseen
        /\ f.ok = "none" /\ f.loop = 0
    BY <1>3 DEF Frames, Sources
  <1>5. at' = [at EXCEPT ![u] = f]
    BY <1>2 DEF StopFence, Open, b
  <1> HIDE DEF f
  <1>6. at'[u] = f
    BY <1>4, <1>5, OpenEffect, Kinds DEF IInv
  <1>7. /\ at[u].pc = "idle" /\ calls' = calls + 1 /\ engine' = engine /\ halted' = halted
        /\ lifecycleMu' = lifecycleMu /\ userControlMu' = userControlMu
    BY DEF StopFence, Enter, locks
  <1>8. fenced' \in SUBSET Users
    BY DEF StopFence, IInv, StateOK
  <1>9. ~InControl(f) /\ UserShape(at[u])'
    BY <1>2, <1>4, <1>6 DEF InControl, UserShape
  <1>10. Sees(u)'
    BY <1>2, <1>4, <1>6, <1>7, SeesNothing, Kinds DEF IInv
  <1>11. f.gen <= manager'.generation
    BY <1>1, <1>4, GenerationType
  <1>12. Orderly(manager, manager') /\ HoldInv'
    BY <1>1, <1>7, SectionHold
  <1> QED
    BY <1>2, <1>1, <1>4, <1>5, <1>7, <1>8, <1>9, <1>10, <1>11, <1>12, UserEnters

(* Status takes the snapshot that its reconciliation will use.             *)
LEMMA ObserveStatusStep ==
  ASSUME IInv, NEW u \in Users, at[u].pc = "idle",
         calls' = calls + 1,
         at' = [at EXCEPT ![u] = [New("status", "reconcile") EXCEPT !.id = HoldID, !.saw = Snapshot]],
         userControlMu' = userControlMu,
         UNCHANGED <<manager, engine, lifecycleMu, fenced, halted>>
  PROVE  IInv'
  <1>1. Section(manager, manager') /\ ManagerOK(manager') /\ manager'.run = manager.run
    BY SectionStays DEF IInv, StateOK
  <1> DEFINE newId == HoldID
             newSaw == Snapshot
             b == New("status", "reconcile")
             f == [b EXCEPT !.id = newId, !.saw = newSaw]
  <1>2. /\ b \in Frames /\ b.pc = "reconcile" /\ b.call = "status" /\ b.mode = "none" /\ b.id = 0 /\ b.gen = 0
        /\ b.saw = Unseen /\ b.ok = "none" /\ b.loop = 0
    BY NewType DEF AllCalls, PCs, UserPC
  <1>3. newId \in Nat /\ newSaw \in Snapshots
    BY GenerationType, SnapshotType DEF IInv, StateOK, HoldID, Holds, ManagerOK, Managers, Sources
  <1> HIDE DEF newId, newSaw, b
  <1>4. /\ f \in Frames /\ f.pc = "reconcile" /\ f.call = "status" /\ f.mode = "none" /\ f.id = newId /\ f.gen = 0 /\ f.saw = newSaw
        /\ f.ok = "none" /\ f.loop = 0
    BY <1>2, <1>3 DEF Frames, Sources
  <1>5. at' = [at EXCEPT ![u] = f]
    BY DEF newId, newSaw, b
  <1> HIDE DEF f
  <1>6. at'[u] = f
    BY <1>4, <1>5, OpenEffect, Kinds DEF IInv
  <1>7. /\ at[u].pc = "idle" /\ calls' = calls + 1 /\ engine' = engine /\ halted' = halted
        /\ lifecycleMu' = lifecycleMu /\ userControlMu' = userControlMu
    OBVIOUS
  <1>8. fenced' \in SUBSET Users
    BY DEF IInv, StateOK
  <1>9. ~InControl(f) /\ UserShape(at[u])'
    BY <1>4, <1>6 DEF InControl, UserShape
  <1>13. f.saw.plan = engine'.plan /\ f.saw.source = engine'.source /\ engine'.plan <= engine'.plan
    <2>1. newSaw.plan = engine.plan /\ newSaw.source = engine.source /\ engine.plan \in Nat
      BY SnapshotType DEF IInv, StateOK, Engines, newSaw
    <2> QED
      BY <1>4, <1>7, <2>1
  <1>10. Sees(u)'
    BY <1>13, <1>4, <1>6 DEF Sees
  <1>11. f.gen <= manager'.generation
    BY <1>1, <1>4, GenerationType
  <1>12. Orderly(manager, manager') /\ HoldInv'
    BY <1>1, <1>7, SectionHold
  <1> QED
    BY <1>1, <1>4, <1>5, <1>7, <1>8, <1>9, <1>10, <1>11, <1>12, UserEnters

(* A press of edge takes its snapshot under the control lock.              *)
LEMMA ObserveEdgeStep ==
  ASSUME IInv, NEW u \in Users, at[u].pc = "idle",
         calls' = calls + 1,
         at' = [at EXCEPT ![u] = [New("edge", "reconcile") EXCEPT !.id = HoldID, !.saw = Snapshot, !.mode = "edge"]],
         userControlMu = None, userControlMu' = u,
         UNCHANGED <<manager, engine, lifecycleMu, fenced, halted>>
  PROVE  IInv'
  <1>1. Section(manager, manager') /\ ManagerOK(manager') /\ manager'.run = manager.run
    BY SectionStays DEF IInv, StateOK
  <1> DEFINE newId == HoldID
             newSaw == Snapshot
             b == New("edge", "reconcile")
             f == [b EXCEPT !.id = newId, !.saw = newSaw, !.mode = "edge"]
  <1>2. /\ b \in Frames /\ b.pc = "reconcile" /\ b.call = "edge" /\ b.mode = "none" /\ b.id = 0 /\ b.gen = 0
        /\ b.saw = Unseen /\ b.ok = "none" /\ b.loop = 0
    BY NewType DEF AllCalls, PCs, UserPC
  <1>3. newId \in Nat /\ newSaw \in Snapshots /\ "edge" \in Sources
    BY GenerationType, SnapshotType DEF IInv, StateOK, HoldID, Holds, ManagerOK, Managers, Sources
  <1> HIDE DEF newId, newSaw, b
  <1>4. /\ f \in Frames /\ f.pc = "reconcile" /\ f.call = "edge" /\ f.mode = "edge" /\ f.id = newId /\ f.gen = 0 /\ f.saw = newSaw
        /\ f.ok = "none" /\ f.loop = 0
    BY <1>2, <1>3 DEF Frames, Sources
  <1>5. at' = [at EXCEPT ![u] = f]
    BY DEF newId, newSaw, b
  <1> HIDE DEF f
  <1>6. at'[u] = f
    BY <1>4, <1>5, OpenEffect, Kinds DEF IInv
  <1>7. /\ at[u].pc = "idle" /\ calls' = calls + 1 /\ engine' = engine /\ halted' = halted
        /\ lifecycleMu' = lifecycleMu /\ userControlMu = None /\ userControlMu' = u
    OBVIOUS
  <1>8. fenced' \in SUBSET Users
    BY DEF IInv, StateOK
  <1>9. InControl(f) /\ UserShape(at[u])'
    BY <1>4, <1>6 DEF InControl, UserShape
  <1>13. f.saw.plan = engine'.plan /\ f.saw.source = engine'.source /\ engine'.plan <= engine'.plan
    <2>1. newSaw.plan = engine.plan /\ newSaw.source = engine.source /\ engine.plan \in Nat
      BY SnapshotType DEF IInv, StateOK, Engines, newSaw
    <2> QED
      BY <1>4, <1>7, <2>1
  <1>10. Sees(u)'
    BY <1>13, <1>4, <1>6 DEF Sees
  <1>11. f.gen <= manager'.generation
    BY <1>1, <1>4, GenerationType
  <1>12. Orderly(manager, manager') /\ HoldInv'
    BY <1>1, <1>7, SectionHold
  <1> QED
    BY <1>1, <1>4, <1>5, <1>7, <1>8, <1>9, <1>10, <1>11, <1>12, UserEnters

(* Both ways to a reconciliation.                                          *)
LEMMA ObserveStep ==
  ASSUME IInv, NEW u \in Users, Observe(u)
  PROVE  IInv'
  BY ObserveStatusStep, ObserveEdgeStep DEF Observe, Enter, Open

(* A request that goes on to the next part of its call.                    *)
LEMMA UserGoes ==
  ASSUME IInv, NEW u \in Users, NEW pc \in {"lifecycle", "stop", "pause", "resume", "complete"}, Go(u, pc),
         engine' = engine, halted' = halted, lifecycleMu' = lifecycleMu, fenced' = fenced, calls' = calls,
         userControlMu' = userControlMu \/ (userControlMu = None /\ userControlMu' = u),
         at[u].pc \notin {"halting", "pausing", "lead", "commit", "install", "halt", "drain"},
         at[u].pc \in {"answered", "complete"} => pc = "complete",
         UserShape(at[u])', InControl(at'[u]) <=> userControlMu' = u,
         Orderly(manager, manager'), HoldInv', manager'.run = manager.run
  PROVE  IInv'
  <1>1. pc \in PCs /\ u \in Goroutines
    BY Kinds DEF PCs, UserPC
  <1>2. /\ Moved({u}) /\ at'[u].pc = pc /\ SameCall(at[u], at'[u])
        /\ at'[u].gen = at[u].gen /\ at'[u].saw = at[u].saw /\ at'[u].ok = at[u].ok
    BY <1>1, GoEffect DEF IInv
  <1>3. Placed(u) /\ Sees(u)
    BY <1>1 DEF IInv, PlaceInv, PlanInv
  <1>4. ~InLifecycle(at[u]) /\ ~InLifecycle(at'[u])
    BY <1>2 DEF InLifecycle
  <1>5. at[u].gen \in Nat /\ manager.generation \in Nat /\ manager'.generation \in Nat
        /\ manager.generation <= manager'.generation
    BY <1>1, GenerationType DEF IInv, StateOK, Frames, Orderly, Monotone
  <1>6. at'[u].gen <= manager'.generation
    BY <1>2, <1>3, <1>5 DEF Placed
  <1>7. Enters(u)' /\ Sees(u)'
    BY <1>2, <1>3 DEF Enters, Sees
  <1>8. at'[u].pc \notin {"answered", "complete"} => at'[u].ok = "none"
    BY <1>2, <1>3 DEF Placed
  <1>9. calls' \in Nat /\ fenced' \in SUBSET Users
    BY DEF IInv, StateOK
  <1> QED
    BY <1>2, <1>4, <1>6, <1>7, <1>8, <1>9, UserSection

(* A start takes the control lock.                                         *)
LEMMA StartControlStep ==
  ASSUME IInv, NEW u \in Users, StartControl(u)
  PROVE  IInv'
  <1>1. /\ at[u].pc = "control" /\ at[u].call = "start" /\ userControlMu = None /\ userControlMu' = u /\ Go(u, "lifecycle")
        /\ manager' = manager /\ engine' = engine /\ halted' = halted /\ lifecycleMu' = lifecycleMu
        /\ fenced' = fenced /\ calls' = calls
    BY DEF StartControl
  <1>2. at'[u].pc = "lifecycle" /\ SameCall(at[u], at'[u])
    BY <1>1, GoEffect, Kinds DEF IInv, PCs, UserPC
  <1>3. UserShape(at[u])' /\ InControl(at'[u])
    BY <1>1, <1>2 DEF SameCall, UserShape, InControl
  <1> QED
    BY <1>1, <1>2, <1>3, IntactHold, UserGoes

(* A start that a Stop fenced goes on to undo itself; any other returns.   *)
LEMMA StartVerifyStep ==
  ASSUME IInv, NEW u \in Users, StartVerify(u)
  PROVE  IInv'
  <1>1. /\ at[u].pc = "verify" /\ manager' = manager /\ engine' = engine /\ halted' = halted
        /\ lifecycleMu' = lifecycleMu /\ userControlMu' = userControlMu /\ calls' = calls
    BY DEF StartVerify, locks
  <1>2. Placed(u)
    BY Kinds DEF IInv, PlaceInv
  <1>3. at[u].call = "start" /\ ~InControl(at[u]) /\ ~InLifecycle(at[u])
    BY <1>1, <1>2 DEF Placed, UserShape, InControl, InLifecycle
  <1>4. CASE u \in fenced
    <2>1. Go(u, "stop") /\ fenced' = fenced
      BY <1>4 DEF StartVerify
    <2>2. at'[u].pc = "stop" /\ SameCall(at[u], at'[u])
      BY <2>1, GoEffect, Kinds DEF IInv, PCs, UserPC
    <2>3. UserShape(at[u])' /\ ~InControl(at'[u]) /\ userControlMu # u
      BY <1>2, <1>3, <2>2 DEF SameCall, UserShape, InControl, Placed
    <2> QED
      BY <1>1, <2>1, <2>2, <2>3, IntactHold, UserGoes
  <1>5. CASE u \notin fenced
    <2>1. Leave(u)
      BY <1>5 DEF StartVerify
    <2> QED
      BY <1>1, <1>3, <2>1, IntactHold, UserLeaves
  <1> QED
    BY <1>4, <1>5

(* The chat's stop makes all work stale before the loop is detached.       *)
LEMMA StopNotifyStep ==
  ASSUME IInv, NEW u \in Users, StopNotify(u)
  PROVE  IInv'
  <1>1. /\ at[u].pc = "notify" /\ manager' = NotifyChatStop(manager) /\ Go(u, "stop")
        /\ engine' = engine /\ halted' = halted /\ lifecycleMu' = lifecycleMu /\ userControlMu' = userControlMu
        /\ fenced' = fenced /\ calls' = calls
    BY DEF StopNotify, locks
  <1>2. Section(manager, manager') /\ manager'.run = manager.run
    BY <1>1, NotifyChatStopSection DEF IInv, StateOK
  <1>3. Placed(u)
    BY Kinds DEF IInv, PlaceInv
  <1>4. at'[u].pc = "stop" /\ SameCall(at[u], at'[u])
    BY <1>1, GoEffect, Kinds DEF IInv, PCs, UserPC
  <1>5. UserShape(at[u])' /\ ~InControl(at'[u]) /\ userControlMu # u
    BY <1>1, <1>3, <1>4 DEF SameCall, UserShape, InControl, Placed
  <1> QED
    BY <1>1, <1>2, <1>4, <1>5, SectionHold, UserGoes

(* A pause or resume that a newer control overtook takes back its latch    *)
(* and leaves.                                                             *)
LEMMA PauseControlStep ==
  ASSUME IInv, NEW u \in Users, PauseControl(u)
  PROVE  IInv'
  <1>1. /\ at[u].pc = "control" /\ at[u].call \in {"pause", "resume"} /\ userControlMu = None
        /\ engine' = engine /\ halted' = halted /\ lifecycleMu' = lifecycleMu /\ calls' = calls
    BY DEF PauseControl
  <1>2. Placed(u) /\ at[u].id \in Nat
    BY Kinds DEF IInv, PlaceInv, StateOK, Frames
  <1>3. CASE at[u].id = manager.intent
    <2>1. /\ userControlMu' = u /\ Go(u, at[u].call) /\ manager' = manager /\ fenced' = fenced
      BY <1>3 DEF PauseControl
    <2>2. at'[u].pc = at[u].call /\ SameCall(at[u], at'[u])
      BY <1>1, <2>1, GoEffect, Kinds DEF IInv, PCs, UserPC
    <2>3. UserShape(at[u])' /\ InControl(at'[u])
      BY <1>1, <1>2, <2>1, <2>2 DEF SameCall, UserShape, InControl, Placed
    <2> QED
      BY <1>1, <2>1, <2>2, <2>3, IntactHold, UserGoes
  <1>4. CASE at[u].id # manager.intent
    <2>1. /\ manager' = IF at[u].call = "pause" THEN FinishPause(manager, at[u].id, FALSE, FALSE) ELSE manager
          /\ Leave(u) /\ userControlMu' = userControlMu
      BY <1>4 DEF PauseControl
    <2>2. Section(manager, manager') /\ manager'.run = manager.run
      BY <1>2, <2>1, FinishPauseSection, SectionStays DEF IInv, StateOK, SameWork
    <2>3. ~InControl(at[u]) /\ ~InLifecycle(at[u])
      BY <1>1 DEF InControl, InLifecycle
    <2> QED
      BY <1>1, <2>1, <2>2, <2>3, SectionHold, UserLeaves
  <1> QED
    BY <1>3, <1>4

(* The latch is confirmed by the engine's answer, or taken back.           *)
LEMMA PauseFinishStep ==
  ASSUME IInv, NEW u \in Users, PauseFinish(u)
  PROVE  IInv'
  <1>1. /\ at[u].pc = "answered" /\ at[u].call \in {"pause", "resume"} /\ userControlMu' = None /\ Leave(u)
        /\ engine' = engine /\ halted' = halted /\ lifecycleMu' = lifecycleMu /\ calls' = calls
    BY DEF PauseFinish
  <1>2. Placed(u) /\ at[u].id \in Nat
    BY Kinds DEF IInv, PlaceInv, StateOK, Frames
  <1>3. InControl(at[u]) /\ ~InLifecycle(at[u])
    BY <1>1 DEF InControl, InLifecycle
  <1>4. at[u].call = "resume" => at[u].id <= manager.intent
    BY <1>1, <1>2 DEF Placed, UserShape
  <1>5. Section(manager, manager') /\ manager'.run = manager.run
    <2>1. CASE at[u].call = "pause"
      <3>1. manager' = FinishPause(manager, at[u].id, TRUE, at[u].ok = "yes") /\ (at[u].ok = "yes") \in BOOLEAN
        BY <2>1 DEF PauseFinish
      <3> QED
        BY <1>2, <3>1, FinishPauseSection DEF IInv, StateOK, SameWork
    <2>2. CASE at[u].call = "resume"
      <3>1. manager' = FinishResume(manager, at[u].id) \/ manager' = manager
        BY <2>2 DEF PauseFinish
      <3> QED
        BY <1>2, <1>4, <2>2, <3>1, FinishResumeSection, SectionStays DEF IInv, StateOK, SameWork
    <2> QED
      BY <1>1, <2>1, <2>2
  <1> QED
    BY <1>1, <1>3, <1>5, SectionHold, UserLeaves

(* A chat target that was committed is adopted; one that failed is         *)
(* withdrawn.                                                              *)
LEMMA ChatNotifyStep ==
  ASSUME IInv, NEW u \in Users, ChatNotify(u)
  PROVE  IInv'
  <1>1. /\ at[u].pc = "answered" /\ at[u].call = "chat" /\ Go(u, "complete")
        /\ engine' = engine /\ halted' = halted /\ lifecycleMu' = lifecycleMu /\ userControlMu' = userControlMu
        /\ fenced' = fenced /\ calls' = calls
    BY DEF ChatNotify, locks
  <1>2. Section(manager, manager') /\ manager'.run = manager.run
    BY NotifyTargetSection, CancelChatTargetSection DEF ChatNotify, IInv, StateOK
  <1>3. Placed(u)
    BY Kinds DEF IInv, PlaceInv
  <1>4. at'[u].pc = "complete" /\ SameCall(at[u], at'[u])
    BY <1>1, GoEffect, Kinds DEF IInv, PCs, UserPC
  <1>5. UserShape(at[u])' /\ ~InControl(at'[u]) /\ userControlMu # u
    BY <1>1, <1>3, <1>4 DEF SameCall, UserShape, InControl, Placed
  <1> QED
    BY <1>1, <1>2, <1>4, <1>5, SectionHold, UserGoes

(* A turn that is over ends the activity it began.                         *)
LEMMA ChatCompleteStep ==
  ASSUME IInv, NEW u \in Users, ChatComplete(u)
  PROVE  IInv'
  <1>1. /\ at[u].pc = "complete" /\ Leave(u)
        /\ engine' = engine /\ halted' = halted /\ lifecycleMu' = lifecycleMu /\ userControlMu' = userControlMu
        /\ calls' = calls
    BY DEF ChatComplete, locks
  <1>2. manager' = [manager EXCEPT !.activity = FALSE] \/ manager' = manager
    BY DEF ChatComplete
  <1>3. Section(manager, manager') /\ manager'.run = manager.run
    <2>1. FALSE \in BOOLEAN /\ {} \in SUBSET Users /\ None \in Nat \cup {None}
      OBVIOUS
    <2>2. CASE manager' = [manager EXCEPT !.activity = FALSE]
      <3>1. ManagerOK(manager)
        BY DEF IInv, StateOK
      <3>2. Section(manager, manager') /\ SameWork(manager, manager')
        BY <2>1, <2>2, <3>1, BookkeepingSection
      <3> QED
        BY <3>2 DEF SameWork
    <2>3. CASE manager' = manager
      BY <2>3, SectionStays DEF IInv, StateOK
    <2> QED
      BY <1>2, <2>2, <2>3
  <1>4. Placed(u)
    BY Kinds DEF IInv, PlaceInv
  <1>5. ~InControl(at[u]) /\ ~InLifecycle(at[u])
    BY <1>1, <1>4 DEF Placed, UserShape, InControl, InLifecycle
  <1> QED
    BY <1>1, <1>3, <1>5, SectionHold, UserLeaves

(* The settings request returns.                                           *)
LEMMA SettingsAppliedStep ==
  ASSUME IInv, NEW u \in Users, SettingsApplied(u)
  PROVE  IInv'
  <1>1. /\ at[u].pc = "answered" /\ at[u].call = "settings" /\ Leave(u) /\ manager' = manager
        /\ engine' = engine /\ halted' = halted /\ lifecycleMu' = lifecycleMu /\ userControlMu' = userControlMu
        /\ calls' = calls
    BY DEF SettingsApplied, locks
  <1>2. ~InControl(at[u]) /\ ~InLifecycle(at[u])
    BY <1>1 DEF InControl, InLifecycle
  <1> QED
    BY <1>1, <1>2, IntactHold, UserLeaves
(* The steps that set more than where a goroutine stands.                  *)
LEMMA MoveGen ==
  ASSUME StateOK, NEW t \in Goroutines, NEW pc \in PCs, NEW gen \in Nat,
         at' = [at EXCEPT ![t].pc = pc, ![t].gen = gen]
  PROVE  /\ Moved({t}) /\ at'[t].pc = pc /\ at'[t].gen = gen /\ at'[t].call = at[t].call
         /\ at'[t].mode = at[t].mode /\ at'[t].id = at[t].id /\ at'[t].saw = at[t].saw
         /\ at'[t].ok = at[t].ok /\ at'[t].loop = at[t].loop
  <1> DEFINE f == [at[t] EXCEPT !.pc = pc, !.gen = gen]
  <1>1. at[t] \in Frames
    BY DEF StateOK
  <1>2. /\ f \in Frames /\ f.pc = pc /\ f.gen = gen /\ f.call = at[t].call /\ f.mode = at[t].mode
        /\ f.id = at[t].id /\ f.saw = at[t].saw /\ f.ok = at[t].ok /\ f.loop = at[t].loop
    BY <1>1 DEF Frames, PCs
  <1>3. at' = [at EXCEPT ![t] = f]
    BY <1>1 DEF StateOK
  <1> HIDE DEF f
  <1> QED
    BY <1>2, <1>3, OpenEffect

(* A goroutine moves and takes a snapshot.                                 *)
LEMMA MoveSaw ==
  ASSUME StateOK, NEW t \in Goroutines, NEW pc \in PCs, NEW saw \in Snapshots,
         at' = [at EXCEPT ![t].pc = pc, ![t].saw = saw]
  PROVE  /\ Moved({t}) /\ at'[t].pc = pc /\ at'[t].saw = saw /\ at'[t].call = at[t].call
         /\ at'[t].mode = at[t].mode /\ at'[t].id = at[t].id /\ at'[t].gen = at[t].gen
         /\ at'[t].ok = at[t].ok /\ at'[t].loop = at[t].loop
  <1> DEFINE f == [at[t] EXCEPT !.pc = pc, !.saw = saw]
  <1>1. at[t] \in Frames
    BY DEF StateOK
  <1>2. /\ f \in Frames /\ f.pc = pc /\ f.saw = saw /\ f.call = at[t].call /\ f.mode = at[t].mode
        /\ f.id = at[t].id /\ f.gen = at[t].gen /\ f.ok = at[t].ok /\ f.loop = at[t].loop
    BY <1>1 DEF Frames, PCs
  <1>3. at' = [at EXCEPT ![t] = f]
    BY <1>1 DEF StateOK
  <1> HIDE DEF f
  <1> QED
    BY <1>2, <1>3, OpenEffect

(* A goroutine moves, enters a generation and forgets its snapshot.        *)
LEMMA MoveBlank ==
  ASSUME StateOK, NEW t \in Goroutines, NEW gen \in Nat, NEW pc \in PCs,
         at' = [at EXCEPT ![t].gen = gen, ![t].saw = Unseen, ![t].pc = pc]
  PROVE  /\ Moved({t}) /\ at'[t].gen = gen /\ at'[t].saw = Unseen /\ at'[t].pc = pc
         /\ at'[t].call = at[t].call /\ at'[t].mode = at[t].mode /\ at'[t].id = at[t].id
         /\ at'[t].ok = at[t].ok /\ at'[t].loop = at[t].loop
  <1> DEFINE f == [at[t] EXCEPT !.gen = gen, !.saw = Unseen, !.pc = pc]
  <1>1. at[t] \in Frames
    BY DEF StateOK
  <1>2. /\ f \in Frames /\ f.gen = gen /\ f.saw = Unseen /\ f.pc = pc /\ f.call = at[t].call
        /\ f.mode = at[t].mode /\ f.id = at[t].id /\ f.ok = at[t].ok /\ f.loop = at[t].loop
    BY <1>1, IdleType DEF Frames, PCs
  <1>3. at' = [at EXCEPT ![t] = f]
    BY <1>1 DEF StateOK
  <1> HIDE DEF f
  <1> QED
    BY <1>2, <1>3, OpenEffect

(* A goroutine moves and names its hold by the generation of it.           *)
LEMMA MoveHold ==
  ASSUME StateOK, NEW t \in Goroutines, NEW pc \in PCs, NEW gen \in Nat,
         at' = [at EXCEPT ![t].pc = pc, ![t].id = gen, ![t].gen = gen]
  PROVE  /\ Moved({t}) /\ at'[t].pc = pc /\ at'[t].id = gen /\ at'[t].gen = gen
         /\ at'[t].call = at[t].call /\ at'[t].mode = at[t].mode /\ at'[t].saw = at[t].saw
         /\ at'[t].ok = at[t].ok /\ at'[t].loop = at[t].loop
  <1> DEFINE f == [at[t] EXCEPT !.pc = pc, !.id = gen, !.gen = gen]
  <1>1. at[t] \in Frames
    BY DEF StateOK
  <1>2. /\ f \in Frames /\ f.pc = pc /\ f.id = gen /\ f.gen = gen /\ f.call = at[t].call
        /\ f.mode = at[t].mode /\ f.saw = at[t].saw /\ f.ok = at[t].ok /\ f.loop = at[t].loop
    BY <1>1 DEF Frames, PCs
  <1>3. at' = [at EXCEPT ![t] = f]
    BY <1>1 DEF StateOK
  <1> HIDE DEF f
  <1> QED
    BY <1>2, <1>3, OpenEffect

(* A goroutine moves and names what it is about.                           *)
LEMMA MoveId ==
  ASSUME StateOK, NEW t \in Goroutines, NEW pc \in PCs, NEW id \in Nat,
         at' = [at EXCEPT ![t].pc = pc, ![t].id = id]
  PROVE  /\ Moved({t}) /\ at'[t].pc = pc /\ at'[t].id = id /\ at'[t].call = at[t].call
         /\ at'[t].mode = at[t].mode /\ at'[t].gen = at[t].gen /\ at'[t].saw = at[t].saw
         /\ at'[t].ok = at[t].ok /\ at'[t].loop = at[t].loop
  <1> DEFINE f == [at[t] EXCEPT !.pc = pc, !.id = id]
  <1>1. at[t] \in Frames
    BY DEF StateOK
  <1>2. /\ f \in Frames /\ f.pc = pc /\ f.id = id /\ f.call = at[t].call /\ f.mode = at[t].mode
        /\ f.gen = at[t].gen /\ f.saw = at[t].saw /\ f.ok = at[t].ok /\ f.loop = at[t].loop
    BY <1>1 DEF Frames, PCs
  <1>3. at' = [at EXCEPT ![t] = f]
    BY <1>1 DEF StateOK
  <1> HIDE DEF f
  <1> QED
    BY <1>2, <1>3, OpenEffect

(* A goroutine moves and names the loop it waits for.                      *)
LEMMA MoveLoop ==
  ASSUME StateOK, NEW t \in Goroutines, NEW pc \in PCs, NEW loop \in 0 .. MaxRuns,
         at' = [at EXCEPT ![t].pc = pc, ![t].loop = loop]
  PROVE  /\ Moved({t}) /\ at'[t].pc = pc /\ at'[t].loop = loop /\ at'[t].call = at[t].call
         /\ at'[t].mode = at[t].mode /\ at'[t].id = at[t].id /\ at'[t].gen = at[t].gen
         /\ at'[t].saw = at[t].saw /\ at'[t].ok = at[t].ok
  <1> DEFINE f == [at[t] EXCEPT !.pc = pc, !.loop = loop]
  <1>1. at[t] \in Frames
    BY DEF StateOK
  <1>2. /\ f \in Frames /\ f.pc = pc /\ f.loop = loop /\ f.call = at[t].call /\ f.mode = at[t].mode
        /\ f.id = at[t].id /\ f.gen = at[t].gen /\ f.saw = at[t].saw /\ f.ok = at[t].ok
    BY <1>1 DEF Frames, PCs
  <1>3. at' = [at EXCEPT ![t] = f]
    BY <1>1 DEF StateOK
  <1> HIDE DEF f
  <1> QED
    BY <1>2, <1>3, OpenEffect

(* A review is applied only on the ticket's own generation, and begins a   *)
(* new one.                                                                *)
LEMMA ReviewApplyStep ==
  ASSUME IInv, NEW u \in Users, ReviewApply(u)
  PROVE  IInv'
  <1>1. /\ at[u].pc = "apply" /\ engine' = engine /\ halted' = halted /\ lifecycleMu' = lifecycleMu
        /\ userControlMu' = userControlMu /\ calls' = calls
    BY DEF ReviewApply, locks
  <1>2. Placed(u) /\ Sees(u) /\ ManagerOK(manager) /\ StateOK /\ u \in Goroutines
    BY Kinds DEF IInv, PlaceInv, PlanInv, StateOK
  <1>3. at[u].call = "review" /\ ~InControl(at[u]) /\ ~InLifecycle(at[u]) /\ userControlMu # u /\ at[u].ok = "none"
    BY <1>1, <1>2 DEF Placed, UserShape, InControl, InLifecycle
  <1>4. CASE /\ manager' = BeginOperation([PrepareChatTarget(manager) EXCEPT !.planned = None], u)
             /\ at' = [at EXCEPT ![u].pc = "target", ![u].gen = manager.generation + 1]
             /\ fenced' = fenced
    <2> DEFINE g == manager.generation + 1
    <2>1. g \in Nat /\ "target" \in PCs
      BY <1>2, GenerationType DEF PCs, UserPC
    <2>2. Section(manager, manager') /\ ManagerOK(manager') /\ manager'.generation = g /\ manager'.run = manager.run
      BY <1>2, <1>4, TakeReviewSection DEF TakeReview
    <2>3. at' = [at EXCEPT ![u].pc = "target", ![u].gen = g]
      BY <1>4
    <2> HIDE DEF g
    <2>4. /\ Moved({u}) /\ at'[u].pc = "target" /\ at'[u].gen = g /\ at'[u].call = at[u].call
          /\ at'[u].saw = at[u].saw /\ at'[u].ok = at[u].ok /\ at'[u].loop = at[u].loop
      BY <1>2, <2>1, <2>3, MoveGen
    <2>5. UserShape(at[u])' /\ ~InControl(at'[u]) /\ ~InLifecycle(at'[u])
      BY <1>3, <2>4 DEF UserShape, InControl, InLifecycle
    <2>6. Enters(u)' /\ Sees(u)' /\ g <= g
      BY <1>1, <1>2, <1>3, <2>1, <2>2, <2>4 DEF Enters, Sees
    <2>7. calls' \in Nat /\ fenced' \in SUBSET Users
      BY <1>1, <1>2, <1>4 DEF StateOK
    <2> QED
      BY <1>1, <1>3, <2>2, <2>4, <2>5, <2>6, <2>7, SectionHold, UserSection
  <1>5. CASE manager' = [manager EXCEPT !.tickets = @ \ {u}] /\ Leave(u)
    <2>1. manager.tickets \ {u} \in SUBSET Users /\ TRUE \in BOOLEAN /\ None \in Nat \cup {None}
      BY <1>2 DEF ManagerOK, Managers
    <2>2. manager' = [manager EXCEPT !.tickets = manager.tickets \ {u}]
      BY <1>5
    <2>3. Section(manager, manager') /\ SameWork(manager, manager')
      BY <1>2, <2>1, <2>2, BookkeepingSection
    <2> QED
      BY <1>1, <1>3, <1>5, <2>3, SectionHold, UserLeaves DEF SameWork
  <1> QED
    BY <1>4, <1>5 DEF ReviewApply

(* A review ends its operation and withdraws a target that was not         *)
(* adopted.                                                                *)
LEMMA ReviewFinishStep ==
  ASSUME IInv, NEW u \in Users, ReviewFinish(u)
  PROVE  IInv'
  <1>1. /\ at[u].pc = "answered" /\ at[u].call = "review" /\ Leave(u)
        /\ engine' = engine /\ halted' = halted /\ lifecycleMu' = lifecycleMu
        /\ userControlMu' = userControlMu /\ calls' = calls
    BY DEF ReviewFinish, locks
  <1>2. ManagerOK(manager) /\ u \in Goroutines /\ u \notin Runs
    BY Kinds DEF IInv, StateOK
  <1>3. PICK loops \in BOOLEAN :
          LET m == IF at[u].ok = "yes" THEN NotifyTarget(manager, at[u].gen, loops) ELSE manager
          IN manager' = [CancelChatTarget(FinishOperation(m, u), at[u].gen) EXCEPT !.tickets = @ \ {u}]
    BY DEF ReviewFinish
  <1> DEFINE m == IF at[u].ok = "yes" THEN NotifyTarget(manager, at[u].gen, loops) ELSE manager
             o == FinishOperation(m, u)
             c == CancelChatTarget(o, at[u].gen)
  <1>4. Section(manager, m) /\ ManagerOK(m) /\ m.run = manager.run
    BY <1>2, NotifyTargetSection, SectionStays
  <1> HIDE DEF m
  <1>5. Section(m, o) /\ ManagerOK(o) /\ o.run = m.run
    BY <1>2, <1>4, FinishOperationSteady
  <1> HIDE DEF o
  <1>6. Section(o, c) /\ ManagerOK(c) /\ c.run = o.run
    BY <1>5, CancelChatTargetSection
  <1> HIDE DEF c
  <1>7. c.tickets \ {u} \in SUBSET Users /\ TRUE \in BOOLEAN /\ None \in Nat \cup {None}
    BY <1>6 DEF ManagerOK, Managers
  <1>8. manager' = [c EXCEPT !.tickets = c.tickets \ {u}]
    BY <1>3 DEF m, o, c
  <1>9. Section(c, manager') /\ SameWork(c, manager')
    BY <1>6, <1>7, <1>8, BookkeepingSection
  <1>10. Section(manager, c)
    BY <1>2, <1>4, <1>5, <1>6, SectionTrans
  <1>11. Section(manager, manager') /\ manager'.run = manager.run
    BY <1>2, <1>4, <1>5, <1>6, <1>9, <1>10, SectionTrans DEF SameWork
  <1>12. ~InControl(at[u]) /\ ~InLifecycle(at[u])
    BY <1>1 DEF InControl, InLifecycle
  <1> QED
    BY <1>1, <1>11, <1>12, SectionHold, UserLeaves

(* A hold that the reconciliation leaves is applied to what plays, or not. *)
LEMMA KeptHold ==
  ASSUME IInv, NEW n, NEW t \in Users \cup Runs, HoldKept(manager, n, at[t].saw), ManagerOK(n),
         at[t].pc \in {"tickEdge", "reconcile"}
  PROVE  n.edge # None => /\ n.edge.plan <= engine.plan
                          /\ n.edge.applied /\ n.edge.plan = engine.plan => engine.source = "edge"
  BY DEF IInv, PlanInv, HoldInv, Sees, HoldKept

(* A press or a status read reconciles the hold with the snapshot it has   *)
(* kept: the plan number tells whether it is out of date.                  *)
LEMMA ReconcileStep ==
  ASSUME IInv, NEW u \in Users, Reconcile(u)
  PROVE  IInv'
  <1>1. /\ at[u].pc = "reconcile" /\ engine' = engine /\ halted' = halted /\ lifecycleMu' = lifecycleMu
        /\ calls' = calls
    BY DEF Reconcile
  <1>2. Placed(u) /\ Sees(u) /\ ManagerOK(manager) /\ StateOK /\ u \in Goroutines /\ at[u] \in Frames
    BY Kinds DEF IInv, PlaceInv, PlanInv, StateOK
  <1>3. at[u].call \in {"status", "edge"} /\ at[u].ok = "none" /\ ~InLifecycle(at[u])
        /\ (at[u].call = "edge" => at[u].mode = "edge")
    BY <1>1, <1>2 DEF Placed, UserShape, InLifecycle
  <1>4. (at[u].call = "edge" <=> userControlMu = u) /\ (InControl(at[u]) <=> userControlMu = u)
    BY <1>1, <1>2, <1>3 DEF Placed, InControl
  <1>5. PICK loops \in BOOLEAN :
          LET m == ReconcileEdge(manager, at[u].id, at[u].saw, loops)
              held == m.edge # None /\ m.edge.active
          IN IF at[u].call = "edge" /\ ~held
             THEN /\ manager' = m
                  /\ at' = [at EXCEPT ![u].pc = "hold", ![u].saw = Snapshot]
                  /\ UNCHANGED <<userControlMu, fenced>>
             ELSE /\ manager' = IF at[u].call = "edge" THEN SuspendEdge(Advance(m)) ELSE m
                  /\ userControlMu' = IF userControlMu = u THEN None ELSE userControlMu
                  /\ Leave(u)
    BY DEF Reconcile
  <1> DEFINE m == ReconcileEdge(manager, at[u].id, at[u].saw, loops)
             held == m.edge # None /\ m.edge.active
  <1>6. at[u].saw \in Snapshots
    BY <1>2 DEF Frames
  <1>7. Orderly(manager, m) /\ ManagerOK(m) /\ HoldKept(manager, m, at[u].saw) /\ m.run = manager.run
    BY <1>2, <1>6, ReconcileEdgeSection
  <1> HIDE DEF m
  <1>8. m.edge # None => /\ m.edge.plan <= engine.plan
                         /\ m.edge.applied /\ m.edge.plan = engine.plan => engine.source = "edge"
    BY <1>1, <1>7, KeptHold
  <1>9. CASE at[u].call = "edge" /\ ~held
    <2>1. /\ manager' = m /\ at' = [at EXCEPT ![u].pc = "hold", ![u].saw = Snapshot]
          /\ userControlMu' = userControlMu /\ fenced' = fenced
      BY <1>5, <1>9 DEF m
    <2>2. Snapshot \in Snapshots /\ "hold" \in PCs /\ Snapshot.plan = engine.plan
      BY <1>2, SnapshotType DEF PCs, UserPC
    <2> DEFINE s == Snapshot
    <2> HIDE DEF s
    <2>3. /\ Moved({u}) /\ at'[u].pc = "hold" /\ at'[u].gen = at[u].gen /\ at'[u].call = at[u].call
          /\ at'[u].saw = s /\ at'[u].ok = at[u].ok /\ at'[u].loop = at[u].loop /\ at'[u].mode = at[u].mode
      BY <1>2, <2>1, <2>2, MoveSaw DEF s
    <2>4. UserShape(at[u])' /\ InControl(at'[u]) /\ ~InLifecycle(at'[u])
      BY <1>3, <1>9, <2>3 DEF UserShape, InControl, InLifecycle
    <2>5. at[u].gen \in Nat /\ manager.generation \in Nat /\ m.generation \in Nat /\ engine.plan \in Nat
          /\ manager.generation <= m.generation
      BY <1>2, <1>7, GenerationType DEF Frames, StateOK, Engines, Orderly, Monotone
    <2>6. Enters(u)' /\ Sees(u)' /\ at'[u].gen <= manager'.generation
      BY <1>1, <1>2, <1>9, <2>1, <2>2, <2>3, <2>5 DEF Enters, Sees, Placed, s
    <2>7. calls' \in Nat /\ fenced' \in SUBSET Users /\ HoldInv'
      BY <1>1, <1>2, <1>8, <2>1 DEF StateOK, HoldInv
    <2> QED
      BY <1>1, <1>3, <1>4, <1>7, <1>9, <2>1, <2>3, <2>4, <2>6, <2>7, UserSection
  <1>10. CASE ~(at[u].call = "edge" /\ ~held)
    <2>1. /\ manager' = IF at[u].call = "edge" THEN SuspendEdge(Advance(m)) ELSE m
          /\ userControlMu' = IF userControlMu = u THEN None ELSE userControlMu
          /\ Leave(u)
      BY <1>5, <1>10 DEF m
    <2>2. Section(m, manager') /\ ManagerOK(manager') /\ manager'.run = m.run
      BY <1>7, <2>1, SuspendedAdvance, SectionStays
    <2>3. Orderly(manager, manager')
      BY <1>2, <1>7, <2>2, OrderlyTrans DEF Section
    <2>4. HoldInv'
      BY <1>1, <1>8, <2>2 DEF HoldInv, Section, SameHold
    <2> QED
      BY <1>1, <1>3, <1>4, <1>7, <2>1, <2>2, <2>3, <2>4, UserLeaves
  <1> QED
    BY <1>9, <1>10

(* A new hold begins a generation, so that nothing older follows it to the *)
(* engine.                                                                 *)
LEMMA EdgeHoldStep ==
  ASSUME IInv, NEW u \in Users, EdgeHold(u)
  PROVE  IInv'
  <1>1. /\ at[u].pc = "hold" /\ engine' = engine /\ halted' = halted /\ lifecycleMu' = lifecycleMu
        /\ calls' = calls
    BY DEF EdgeHold
  <1>2. Placed(u) /\ Sees(u) /\ ManagerOK(manager) /\ StateOK /\ u \in Goroutines /\ at[u] \in Frames
    BY Kinds DEF IInv, PlaceInv, PlanInv, StateOK
  <1>3. at[u].call = "edge" /\ at[u].mode = "edge" /\ at[u].ok = "none" /\ ~InLifecycle(at[u]) /\ InControl(at[u])
        /\ userControlMu = u
    BY <1>1, <1>2 DEF Placed, UserShape, InLifecycle, InControl
  <1>4. CASE ~Running(at[u].saw) \/ manager.paused
    <2>1. userControlMu' = None /\ Leave(u) /\ manager' = manager
      BY <1>4 DEF EdgeHold
    <2> QED
      BY <1>1, <1>3, <2>1, IntactHold, UserLeaves
  <1>5. CASE ~(~Running(at[u].saw) \/ manager.paused)
    <2> DEFINE g == manager.generation + 1
    <2>1. /\ manager' = TakeHold(manager, at[u].saw.source)
          /\ at' = [at EXCEPT ![u].pc = "target", ![u].id = g, ![u].gen = g]
          /\ userControlMu' = userControlMu /\ fenced' = fenced
      BY <1>5 DEF EdgeHold, TakeHold
    <2>2. g \in Nat /\ g > 0 /\ "target" \in PCs /\ at[u].saw.source \in Sources
      BY <1>2, GenerationType DEF PCs, UserPC, Frames, Snapshots
    <2>3. /\ Orderly(manager, manager') /\ manager'.run = manager.run /\ manager'.generation = g
          /\ manager'.edge.plan = 0 /\ manager'.edge.applied = FALSE
      BY <1>2, <2>1, <2>2, TakeHoldSection
    <2> HIDE DEF g
    <2>4. /\ Moved({u}) /\ at'[u].pc = "target" /\ at'[u].gen = g /\ at'[u].id = g /\ at'[u].call = at[u].call
          /\ at'[u].saw = at[u].saw /\ at'[u].ok = at[u].ok /\ at'[u].loop = at[u].loop /\ at'[u].mode = at[u].mode
      <3>1. at' = [at EXCEPT ![u].pc = "target", ![u].id = g, ![u].gen = g]
        BY <2>1
      <3> QED
        BY <1>2, <2>2, <3>1, MoveHold
    <2>5. UserShape(at[u])' /\ InControl(at'[u]) /\ ~InLifecycle(at'[u])
      BY <1>3, <2>2, <2>4 DEF UserShape, InControl, InLifecycle
    <2>6. Enters(u)' /\ Sees(u)' /\ g <= g
      BY <1>1, <1>2, <1>3, <2>2, <2>3, <2>4 DEF Enters, Sees
    <2>7. calls' \in Nat /\ fenced' \in SUBSET Users /\ HoldInv'
      BY <1>1, <1>2, <2>1, <2>3 DEF StateOK, HoldInv, Engines
    <2> QED
      BY <1>1, <1>3, <2>1, <2>3, <2>4, <2>5, <2>6, <2>7, UserSection
  <1> QED
    BY <1>4, <1>5

(* The engine's answer to the hold is taken over only if it is still the   *)
(* same hold.                                                              *)
LEMMA EdgeAppliedStep ==
  ASSUME IInv, NEW u \in Users, EdgeApplied(u)
  PROVE  IInv'
  <1>1. /\ at[u].pc = "answered" /\ at[u].call = "edge" /\ engine' = engine /\ halted' = halted
        /\ lifecycleMu' = lifecycleMu /\ calls' = calls /\ userControlMu' = None /\ Leave(u)
    BY DEF EdgeApplied
  <1>2. Placed(u) /\ Sees(u) /\ ManagerOK(manager) /\ StateOK /\ at[u] \in Frames
    BY Kinds DEF IInv, PlaceInv, PlanInv, StateOK
  <1>3. InControl(at[u]) /\ ~InLifecycle(at[u]) /\ at[u].id > 0
    BY <1>1, <1>2 DEF InControl, InLifecycle, Placed, UserShape
  <1>4. Orderly(manager, manager') /\ HoldInv' /\ manager'.run = manager.run
    <2>1. CASE HoldID # at[u].id
      <3>1. manager' = manager
        BY <2>1 DEF EdgeApplied
      <3> QED
        BY <1>1, <3>1, IntactHold
    <2>2. CASE HoldID = at[u].id
      <3>1. manager.edge # None
        BY <1>2, <1>3, <2>2 DEF HoldID, Frames
      <3>2. manager' = ConfirmHold(manager, at[u].ok, at[u].saw.plan, at[u].gen)
        BY <2>2 DEF EdgeApplied, ConfirmHold
      <3>3. at[u].saw.plan \in Nat
        BY <1>2 DEF Frames, Snapshots
      <3>4. /\ Orderly(manager, manager') /\ manager'.run = manager.run
            /\ manager'.edge.applied => at[u].ok \in {"yes", "late"}
            /\ manager'.edge.plan = IF at[u].ok \in {"yes", "late"} THEN at[u].saw.plan ELSE 0
        BY <1>2, <3>1, <3>2, <3>3, ConfirmHoldSection
      <3>5. HoldInv'
        BY <1>1, <1>2, <3>4 DEF HoldInv, Sees, StateOK, Engines
      <3> QED
        BY <3>4, <3>5
    <2> QED
      BY <2>1, <2>2
  <1> QED
    BY <1>1, <1>3, <1>4, UserLeaves
(* A return, asked for or automatic, begins with the plan of the hold.     *)
LEMMA ReturnBeginEffect ==
  ASSUME IInv, NEW t \in Users \cup Runs, NEW source \in Sources, ReturnBegin(t, source), engine' = engine,
         HoldID = at[t].id, at[t].id # 0, manager.edge.applied
  PROVE  /\ Moved({t}) /\ at'[t].call = "return" /\ at'[t].pc = "target" /\ at'[t].gen = manager.generation + 1
         /\ at'[t].id = at[t].id /\ at'[t].ok = at[t].ok /\ at'[t].loop = at[t].loop /\ at[t].id > 0
         /\ Sees(t)' /\ manager' = TakeReturn(manager, t) /\ userControlMu' = t
  <1> DEFINE x == manager.edge.plan
             g == manager.generation + 1
             s == [at[t].saw EXCEPT !.plan = x]
             f == [at[t] EXCEPT !.call = "return", !.pc = "target", !.mode = source, !.gen = g, !.saw = s]
  <1>1. ManagerOK(manager) /\ StateOK /\ t \in Goroutines /\ at[t] \in Frames
    BY Kinds DEF IInv, StateOK
  <1>2. manager.edge # None /\ manager.edge \in Holds
    BY <1>1 DEF HoldID, ManagerOK, Managers
  <1>3. x \in Nat /\ g \in Nat /\ at[t].saw \in Snapshots
    BY <1>1, <1>2, GenerationType DEF Holds, Frames
  <1>4. x <= engine.plan /\ (x = engine.plan => engine.source = "edge")
    BY <1>2 DEF IInv, PlanInv, HoldInv
  <1>5. at' = [at EXCEPT ![t].call = "return", ![t].pc = "target", ![t].mode = source, ![t].gen = g, ![t].saw.plan = x]
        /\ manager' = TakeReturn(manager, t) /\ userControlMu' = t
    BY DEF ReturnBegin, TakeReturn
  <1> HIDE DEF x, g
  <1>6. s \in Snapshots /\ s.plan = x
    BY <1>3 DEF Snapshots
  <1>7. at' = [at EXCEPT ![t] = f]
    BY <1>1, <1>3, <1>5 DEF StateOK, Frames
  <1> HIDE DEF s
  <1>8. /\ f \in Frames /\ f.call = "return" /\ f.pc = "target" /\ f.gen = g /\ f.saw = s
        /\ f.id = at[t].id /\ f.ok = at[t].ok /\ f.loop = at[t].loop
    BY <1>1, <1>3, <1>6 DEF Frames, AllCalls, UserPC
  <1> HIDE DEF f
  <1>9. Moved({t}) /\ at'[t] = f
    BY <1>1, <1>7, <1>8, OpenEffect
  <1>10. Sees(t)'
    BY <1>4, <1>6, <1>8, <1>9 DEF Sees
  <1>11. at[t].id > 0
    BY <1>1 DEF Frames
  <1> QED
    BY <1>5, <1>8, <1>9, <1>10, <1>11 DEF g

(* A return begins only on the hold and the generation it was asked for.   *)
LEMMA ReturnControlStep ==
  ASSUME IInv, NEW u \in Users, ReturnControl(u)
  PROVE  IInv'
  <1>1. /\ at[u].pc = "control" /\ at[u].call = "return" /\ userControlMu = None
        /\ engine' = engine /\ halted' = halted /\ lifecycleMu' = lifecycleMu /\ calls' = calls
    BY DEF ReturnControl
  <1>2. Placed(u) /\ ManagerOK(manager) /\ StateOK
    BY Kinds DEF IInv, PlaceInv, StateOK
  <1>3. ~InLifecycle(at[u]) /\ ~InControl(at[u]) /\ at[u].ok = "none"
    BY <1>1, <1>2 DEF InControl, InLifecycle, Placed
  <1>4. CASE ReturnAdmitted(u, FALSE)
    <2>1. ReturnBegin(u, manager.edge.previous) /\ fenced' = fenced
      BY <1>4 DEF ReturnControl
    <2>2. HoldID = at[u].id /\ at[u].id # 0 /\ manager.edge.applied
      BY <1>4 DEF ReturnAdmitted
    <2>3. manager.edge.previous \in Sources
      BY <1>2, <2>2 DEF HoldID, ManagerOK, Managers, Holds, Sources
    <2>4. /\ Moved({u}) /\ at'[u].call = "return" /\ at'[u].pc = "target" /\ at'[u].gen = manager.generation + 1
          /\ at'[u].id = at[u].id /\ at'[u].ok = at[u].ok /\ at'[u].loop = at[u].loop /\ at[u].id > 0
          /\ Sees(u)' /\ manager' = TakeReturn(manager, u) /\ userControlMu' = u
      BY <1>1, <2>1, <2>2, <2>3, ReturnBeginEffect
    <2>5. Section(manager, manager') /\ manager'.run = manager.run /\ manager'.generation = manager.generation + 1
      BY <1>2, <2>4, TakeReturnSection, Kinds
    <2>6. UserShape(at[u])' /\ InControl(at'[u]) /\ ~InLifecycle(at'[u])
      BY <2>4 DEF UserShape, InControl, InLifecycle
    <2>7. manager.generation + 1 <= manager'.generation /\ Enters(u)'
      BY <1>2, <2>4, <2>5, GenerationType DEF Enters
    <2>8. calls' \in Nat /\ fenced' \in SUBSET Users
      BY <1>1, <1>2, <2>1 DEF StateOK
    <2> QED
      BY <1>1, <1>3, <2>4, <2>5, <2>6, <2>7, <2>8, SectionHold, UserSection
  <1>5. CASE ~ReturnAdmitted(u, FALSE)
    <2>1. Leave(u) /\ manager' = manager /\ userControlMu' = userControlMu
      BY <1>5 DEF ReturnControl
    <2> QED
      BY <1>1, <1>3, <2>1, IntactHold, UserLeaves
  <1> QED
    BY <1>4, <1>5

(* A user's return ends the hold it was for, and no other.                 *)
LEMMA ReturnFinishUserStep ==
  ASSUME IInv, NEW u \in Users, ReturnFinish(u)
  PROVE  IInv'
  <1>1. /\ at[u].pc = "answered" /\ at[u].call = "return" /\ userControlMu' = None /\ Leave(u)
        /\ engine' = engine /\ halted' = halted /\ lifecycleMu' = lifecycleMu /\ calls' = calls
    BY DEF ReturnFinish
  <1>2. Placed(u) /\ u \in Goroutines /\ u \notin Runs /\ ManagerOK(manager)
    BY Kinds DEF IInv, PlaceInv, StateOK
  <1>3. InControl(at[u]) /\ ~InLifecycle(at[u]) /\ at[u].id > 0
    BY <1>1, <1>2 DEF InControl, InLifecycle, Placed, UserShape
  <1>4. Section(manager, manager') /\ manager'.run = manager.run
    BY <1>2, <1>3, ReturnedSection DEF ReturnFinish
  <1> QED
    BY <1>1, <1>3, <1>4, SectionHold, UserLeaves

(* A chat target begins its generation before it goes to the engine, with  *)
(* an admission from before that.                                          *)
LEMMA ChatPrepareStep ==
  ASSUME IInv, NEW u \in Users, ChatPrepare(u)
  PROVE  IInv'
  <1> DEFINE g == manager.generation + 1
             p == IF Running(at[u].saw) THEN "target" ELSE "begin"
  <1>1. /\ at[u].pc = "prepare" /\ engine' = engine /\ halted' = halted /\ lifecycleMu' = lifecycleMu
        /\ userControlMu' = userControlMu /\ fenced' = fenced /\ calls' = calls
        /\ manager' = PrepareChatTarget(manager)
        /\ at' = [at EXCEPT ![u].gen = g, ![u].saw = Unseen, ![u].pc = p]
    BY DEF ChatPrepare, locks
  <1>2. Placed(u) /\ u \in Goroutines /\ ManagerOK(manager) /\ StateOK
    BY Kinds DEF IInv, PlaceInv, StateOK
  <1>3. p \in PCs /\ p \in {"target", "begin"} /\ g \in Nat /\ Unseen \in Snapshots
    BY <1>2, IdleType, GenerationType DEF PCs, UserPC
  <1>4. Section(manager, manager') /\ manager'.generation = g /\ manager'.run = manager.run
    BY <1>1, <1>2, PrepareChatTargetSection
  <1> HIDE DEF g, p
  <1>5. /\ Moved({u}) /\ at'[u].gen = g /\ at'[u].saw = Unseen /\ at'[u].pc = p /\ at'[u].call = at[u].call
        /\ at'[u].mode = at[u].mode /\ at'[u].ok = at[u].ok /\ at'[u].loop = at[u].loop
    BY <1>1, <1>2, <1>3, MoveBlank
  <1>6. /\ at[u].call = "chat" /\ at[u].mode = "chat" /\ at[u].ok = "none" /\ ~InControl(at[u]) /\ ~InLifecycle(at[u])
        /\ userControlMu # u
    BY <1>1, <1>2 DEF Placed, UserShape, InControl, InLifecycle
  <1>7. UserShape(at[u])' /\ ~InControl(at'[u]) /\ ~InLifecycle(at'[u])
    BY <1>3, <1>5, <1>6 DEF UserShape, InControl, InLifecycle
  <1>8. Enters(u)' /\ g <= manager'.generation
    BY <1>3, <1>4, <1>5 DEF Enters
  <1>9. Sees(u)'
    BY <1>1, <1>2, <1>3, <1>5, <1>6, SeesNothing
  <1>10. calls' \in Nat /\ fenced' \in SUBSET Users
    BY <1>1, <1>2 DEF StateOK
  <1> QED
    BY <1>1, <1>3, <1>4, <1>5, <1>6, <1>7, <1>8, <1>9, <1>10, SectionHold, UserSection

(* The model's answer: no motion, or a start that is admitted now.         *)
LEMMA ChatReplyStep ==
  ASSUME IInv, NEW u \in Users, ChatReply(u)
  PROVE  IInv'
  <1>1. /\ at[u].pc = "model" /\ halted' = halted /\ lifecycleMu' = lifecycleMu
        /\ userControlMu' = userControlMu /\ fenced' = fenced /\ calls' = calls
    BY DEF ChatReply, locks
  <1>2. Placed(u) /\ u \in Goroutines /\ ManagerOK(manager) /\ StateOK
    BY Kinds DEF IInv, PlaceInv, StateOK
  <1>3. /\ at[u].call = "chat" /\ at[u].mode = "chat" /\ at[u].ok = "none" /\ ~InControl(at[u]) /\ ~InLifecycle(at[u])
        /\ userControlMu # u /\ lifecycleMu # u /\ engine.targetMu # u
    BY <1>1, <1>2 DEF Placed, UserShape, InControl, InLifecycle, InTarget
  <1>4. CASE Go(u, "complete") /\ engine' = engine /\ manager' \in {manager, ReconsiderAfterChat(manager)}
    <2>1. Section(manager, manager') /\ manager'.run = manager.run
      BY <1>2, <1>4, SectionStays, ReconsiderSection
    <2>2. at'[u].pc = "complete" /\ SameCall(at[u], at'[u])
      BY <1>2, <1>4, GoEffect DEF PCs, UserPC
    <2>3. UserShape(at[u])' /\ ~InControl(at'[u])
      BY <1>3, <2>2 DEF SameCall, UserShape, InControl
    <2> QED
      BY <1>1, <1>3, <1>4, <2>1, <2>3, SectionHold, UserGoes
  <1>5. CASE /\ engine' = IF Running(engine) THEN engine ELSE [engine EXCEPT !.admitted = @ \cup {u}]
             /\ at' = [at EXCEPT ![u].pc = "prepare", ![u].saw = Snapshot]
             /\ manager' = manager
    <2>1. PICK A \in SUBSET {u} : Admits(A)
      <3>1. engine' = engine \/ engine' = [engine EXCEPT !.admitted = @ \cup {u}]
        BY <1>5
      <3>2. engine' = engine => Admits({})
        BY <1>2, SameEngine
      <3>3. engine' = [engine EXCEPT !.admitted = @ \cup {u}] => Admits({u})
        BY DEF Admits
      <3> QED
        BY <3>1, <3>2, <3>3
    <2> DEFINE s == Snapshot
    <2>2. s \in Snapshots /\ s.plan = engine.plan /\ "prepare" \in PCs /\ engine.plan \in Nat
      BY <1>2, SnapshotType DEF PCs, UserPC, StateOK, Engines
    <2> HIDE DEF s
    <2>3. /\ Moved({u}) /\ at'[u].pc = "prepare" /\ at'[u].saw = s /\ at'[u].gen = at[u].gen /\ at'[u].call = at[u].call
          /\ at'[u].mode = at[u].mode /\ at'[u].ok = at[u].ok /\ at'[u].loop = at[u].loop
      BY <1>2, <1>5, <2>2, MoveSaw DEF s
    <2>4. engine'.plan = engine.plan /\ engine'.targetMu = engine.targetMu /\ engine'.source = engine.source
      BY <1>2, <2>1, AdmitsEffect
    <2>5. UserShape(at[u])' /\ ~InControl(at'[u]) /\ ~InLifecycle(at'[u])
      BY <1>3, <2>3 DEF UserShape, InControl, InLifecycle
    <2>6. Section(manager, manager')
      BY <1>2, <1>5, SectionStays
    <2>7. Enters(u)' /\ Sees(u)'
      BY <1>3, <2>2, <2>3, <2>4 DEF Enters, Sees
    <2>8. Placed(u)'
      BY <1>1, <1>2, <1>3, <1>5, <2>3, <2>4, <2>5, Kinds DEF Placed, InTarget
    <2>9. Elsewhere({u}, A)
      BY <1>1, <1>2, <2>1, <2>3, <2>7, <2>8 DEF Elsewhere, Passed, StateOK
    <2>10. HoldInv'
      BY <2>4, <2>6, HoldFrame DEF IInv, Section
    <2> QED
      BY <1>1, <1>3, <1>5, <2>3, <2>6, <2>9, <2>10, RequestStep DEF Section
  <1> QED
    BY <1>4, <1>5 DEF ChatReply
-----------------------------------------------------------------------------
(* Starting and stopping mode loops. *)

(* Who holds lifecycleMu and has seen its loop end is alone.               *)
LEMMA Unlooped ==
  ASSUME IInv, NEW t \in Goroutines, lifecycleMu = t, Drained(t)
  PROVE  LiveLoops = {} /\ manager.run = 0
  <1>1. t # None
    BY Kinds
  <1>2. manager.run = 0 /\ \A k \in LiveLoops : k = at[t].loop
    BY <1>1 DEF IInv, LoopInv
  <1>3. \A k \in LiveLoops : k # 0 /\ at[k].pc # "exited"
    BY Kinds DEF LiveLoops
  <1> QED
    BY <1>2, <1>3 DEF Drained

(* A step that takes or returns lifecycleMu: while it is held no loop is   *)
(* installed, and the holder waits for the live one.                       *)
LEMMA LifecycleStep ==
  ASSUME IInv, NEW t \in Users \cup Reapers, Moved({t}), engine' = engine, halted' = halted,
         Passed(lifecycleMu, lifecycleMu', {t}), userControlMu' = userControlMu \/ userControlMu' = None,
         Passed(userControlMu, userControlMu', {t}),
         calls' = calls, fenced' \in SUBSET Users,
         at[t].pc \notin {"halting", "pausing"}, Placed(t)', Enters(t)', t \in Users => Sees(t)',
         Section(manager, manager'),
         \A k \in LiveLoops : k = manager'.run \/ k \in manager'.cancelled,
         lifecycleMu' = None => \A k \in LiveLoops : k = manager'.run,
         lifecycleMu' # None => manager'.run = 0 /\ \A k \in LiveLoops : k = at'[lifecycleMu'].loop,
         at'[t].pc = "install" => NextRun \in Runs
  PROVE  IInv'
  <1>1. t \notin Runs /\ {t} \cap Runs = {} /\ {t} \in SUBSET Goroutines /\ {} \in SUBSET (Users \cup Runs) /\ {} \subseteq {t}
        /\ (t \in Runs => Sees(t)')
    BY Kinds
  <1>2. \A k \in Runs : at'[k] = at[k]
    BY <1>1, Kinds DEF Moved
  <1>3. Used' = Used /\ LiveLoops' = LiveLoops
    BY <1>2 DEF Used, LiveLoops
  <1>4. NextRun' = NextRun
    BY <1>3 DEF NextRun
  <1>5. \A u \in Users : at'[u].pc = "install" => NextRun' \in Runs
    BY <1>4, Kinds DEF IInv, LoopInv, Moved
  <1>6. LoopInv'
    BY <1>3, <1>5 DEF IInv, LoopInv
  <1>7. Orderly(manager, manager') /\ HoldInv'
    BY SectionHold
  <1>8. WorkInv'
    BY <1>1, <1>7, WorkFrame DEF IInv
  <1>9. Admits({})
    BY SameEngine DEF IInv
  <1>10. lifecycleMu' \in Users \cup Reapers \cup {None} /\ userControlMu' \in Users \cup Runs \cup {None} /\ calls' \in Nat
    BY DEF IInv, StateOK, Passed
  <1>11. Elsewhere({t}, {})
    BY <1>1, <1>9, <1>10 DEF Elsewhere
  <1> QED
    BY <1>1, <1>6, <1>7, <1>8, <1>11, ElsewhereStep DEF Orderly

(* An admitted start takes lifecycleMu and cancels the live loop.          *)
LEMMA StartAdmitStep ==
  ASSUME IInv, NEW u \in Users, StartAdmit(u)
  PROVE  IInv'
  <1>1. /\ at[u].pc = "lifecycle" /\ lifecycleMu = None /\ engine' = engine /\ halted' = halted /\ calls' = calls
    BY DEF StartAdmit
  <1>2. Placed(u) /\ Sees(u) /\ ManagerOK(manager) /\ StateOK /\ u \in Goroutines /\ u # None /\ u \notin Runs /\ u \notin Reapers
    BY Kinds DEF IInv, PlaceInv, PlanInv, StateOK
  <1>3. at[u].call = "start" /\ InControl(at[u]) /\ ~InLifecycle(at[u]) /\ at[u].ok = "none" /\ userControlMu = u
        /\ engine.targetMu # u
    BY <1>1, <1>2 DEF Placed, UserShape, InControl, InLifecycle, InTarget
  <1>4. CASE /\ NextRun \in Runs /\ lifecycleMu' = u /\ manager' = StopLoop(manager)
             /\ at' = [at EXCEPT ![u].pc = "install", ![u].loop = manager.run]
             /\ UNCHANGED <<userControlMu, fenced>>
    <2>1. manager.run \in 0 .. MaxRuns /\ "install" \in PCs /\ at[u].gen \in Nat
      BY <1>2 DEF ManagerOK, Managers, PCs, UserPC, StateOK, Frames
    <2> DEFINE r == manager.run
    <2>2. at' = [at EXCEPT ![u].pc = "install", ![u].loop = r]
      BY <1>4
    <2> HIDE DEF r
    <2>3. /\ Moved({u}) /\ at'[u].pc = "install" /\ at'[u].loop = r /\ at'[u].call = at[u].call
          /\ at'[u].gen = at[u].gen /\ at'[u].ok = at[u].ok /\ at'[u].saw = at[u].saw
      BY <1>2, <2>1, <2>2, MoveLoop DEF r
    <2>4. /\ Section(manager, manager') /\ ManagerOK(manager') /\ manager'.run = 0
          /\ manager.run # 0 => manager.run \in manager'.cancelled
      BY <1>2, <1>4, StopLoopSection
    <2>5. UserShape(at[u])' /\ InControl(at'[u]) /\ InLifecycle(at'[u]) /\ ~InTarget(at'[u])
      BY <1>3, <2>3 DEF UserShape, InControl, InLifecycle, InTarget
    <2>6. at'[u].gen <= manager'.generation
      BY <1>2, <2>1, <2>3, <2>4, GenerationType DEF Placed, Section, Orderly, Monotone
    <2>7. Placed(u)'
      BY <1>1, <1>2, <1>3, <1>4, <2>3, <2>5, <2>6 DEF Placed
    <2>8. Enters(u)' /\ Sees(u)'
      BY <1>1, <1>2, <1>3, <2>3 DEF Enters, Sees
    <2>9. \A k \in LiveLoops : k = r /\ k # 0
      BY <1>1, Kinds DEF IInv, LoopInv, LiveLoops, r
    <2>10. /\ Passed(lifecycleMu, lifecycleMu', {u}) /\ Passed(userControlMu, userControlMu', {u})
           /\ fenced' \in SUBSET Users
      BY <1>1, <1>2, <1>4 DEF Passed, StateOK
    <2>11. \A k \in LiveLoops : k \in manager'.cancelled
      BY <2>4, <2>9 DEF r
    <2> QED
      BY <1>1, <1>2, <1>4, <2>3, <2>4, <2>7, <2>8, <2>9, <2>10, <2>11, LifecycleStep
  <1>5. CASE userControlMu' = None /\ Leave(u) /\ UNCHANGED <<manager, lifecycleMu>>
    BY <1>1, <1>3, <1>5, IntactHold, UserLeaves
  <1> QED
    BY <1>4, <1>5 DEF StartAdmit

(* A stop cancels the loop, and holds lifecycleMu if there is one to wait  *)
(* for.                                                                    *)
LEMMA StopBeginStep ==
  ASSUME IInv, NEW u \in Users, StopBegin(u)
  PROVE  IInv'
  <1> DEFINE r == manager.run
             g == manager.generation + 1
             p == IF at[u].call \in {"start", "end"} THEN "drain" ELSE "halt"
  <1>1. /\ at[u].pc = "stop" /\ lifecycleMu = None /\ manager' = BeginUserStop(manager)
        /\ lifecycleMu' = (IF r = 0 THEN None ELSE u)
        /\ at' = [at EXCEPT ![u].loop = r, ![u].gen = g, ![u].pc = p]
        /\ engine' = engine /\ halted' = halted /\ calls' = calls /\ fenced' = fenced /\ userControlMu' = userControlMu
    BY DEF StopBegin
  <1>2. Placed(u) /\ Sees(u) /\ ManagerOK(manager) /\ StateOK /\ u \in Goroutines /\ u # None /\ u \notin Runs /\ u \notin Reapers
    BY Kinds DEF IInv, PlaceInv, PlanInv, StateOK
  <1>3. /\ at[u].call \in {"start", "stop", "chatstop", "modestop", "end"} /\ at[u].ok = "none"
        /\ userControlMu # u /\ engine.targetMu # u
    BY <1>1, <1>2 DEF Placed, UserShape, InControl, InTarget
  <1>4. r \in 0 .. MaxRuns /\ g \in Nat /\ p \in PCs /\ p \in {"drain", "halt"} /\ (at[u].call = "end" => p = "drain")
    BY <1>2, GenerationType DEF ManagerOK, Managers, PCs, UserPC
  <1>5. \A k \in LiveLoops : k = r /\ k # 0
    BY <1>1, Kinds DEF IInv, LoopInv, LiveLoops
  <1>6. /\ Section(manager, manager') /\ manager'.generation = g /\ manager'.run = 0
        /\ manager'.cancelled = (manager.cancelled \cup {r}) \ {0}
    BY <1>1, <1>2, BeginUserStopSection
  <1>7. /\ Moved({u}) /\ at'[u].loop = r /\ at'[u].gen = g /\ at'[u].pc = p /\ at'[u].call = at[u].call
        /\ at'[u].ok = at[u].ok /\ at'[u].saw = at[u].saw
    <2> HIDE DEF r, g, p
    <2> DEFINE f == [at[u] EXCEPT !.loop = r, !.gen = g, !.pc = p]
    <2>1. at[u] \in Frames
      BY <1>2 DEF StateOK
    <2>2. /\ f \in Frames /\ f.loop = r /\ f.gen = g /\ f.pc = p /\ f.call = at[u].call
          /\ f.saw = at[u].saw /\ f.ok = at[u].ok
      BY <1>4, <2>1 DEF Frames, PCs
    <2>3. at' = [at EXCEPT ![u] = f]
      BY <1>1, <1>2 DEF StateOK
    <2> HIDE DEF f
    <2> QED
      BY <1>2, <2>2, <2>3, OpenEffect
  <1> HIDE DEF r, g, p
  <1>8. UserShape(at[u])' /\ ~InControl(at'[u]) /\ (InLifecycle(at'[u]) <=> r # 0) /\ ~InTarget(at'[u])
    <2>1. InLifecycle(at'[u]) <=> r # 0
      BY <1>3, <1>4, <1>7 DEF InLifecycle
    <2>2. UserShape(at[u])'
      BY <1>3, <1>4, <1>7 DEF UserShape, p
    <2> QED
      BY <1>3, <1>4, <1>7, <2>1, <2>2 DEF InControl, InTarget
  <1>9. Placed(u)'
    BY <1>1, <1>2, <1>3, <1>4, <1>6, <1>7, <1>8 DEF Placed
  <1>10. Enters(u)' /\ Sees(u)'
    BY <1>1, <1>2, <1>3, <1>4, <1>7 DEF Enters, Sees
  <1>11. \A k \in LiveLoops : k \in manager'.cancelled
    BY <1>5, <1>6
  <1>12. /\ Passed(lifecycleMu, lifecycleMu', {u}) /\ Passed(userControlMu, userControlMu', {u})
         /\ fenced' \in SUBSET Users
    BY <1>1, <1>2 DEF Passed, StateOK
  <1>13. /\ lifecycleMu' = None => \A k \in LiveLoops : k = manager'.run
         /\ lifecycleMu' # None => \A k \in LiveLoops : k = at'[lifecycleMu'].loop
    BY <1>1, <1>2, <1>5, <1>7
  <1> QED
    BY <1>1, <1>2, <1>4, <1>6, <1>7, <1>9, <1>10, <1>11, <1>12, <1>13, LifecycleStep

(* A request, or the goroutine a loop spawned.                             *)
LEMMA ManagerStopStep ==
  ASSUME IInv, NEW t \in Users \cup Reapers, ManagerStop(t)
  PROVE  IInv'
  <1> DEFINE r == manager.run
  <1>1. /\ at[t].pc = "stopLoop" /\ lifecycleMu = None /\ manager' = StopLoop(manager) /\ lifecycleMu' = t
        /\ at' = [at EXCEPT ![t].pc = "drain", ![t].loop = r]
        /\ engine' = engine /\ halted' = halted /\ calls' = calls /\ fenced' = fenced /\ userControlMu' = userControlMu
    BY DEF ManagerStop
  <1>2. Placed(t) /\ ManagerOK(manager) /\ StateOK /\ t \in Goroutines /\ t # None /\ t \notin Runs
        /\ (t \in Users => t \notin Reapers) /\ at[t].gen \in Nat
    BY Kinds DEF IInv, PlaceInv, StateOK, Frames
  <1>3. /\ t \in Users => at[t].call = "halt"
        /\ t \in Reapers => at[t].call = "reap"
        /\ at[t].ok = "none" /\ userControlMu # t /\ engine.targetMu # t
    BY <1>1, <1>2 DEF Placed, UserShape, ReapShape, InControl, InTarget
  <1>4. r \in 0 .. MaxRuns /\ "drain" \in PCs
    BY <1>2 DEF ManagerOK, Managers, PCs, UserPC
  <1>5. \A k \in LiveLoops : k = r /\ k # 0
    BY <1>1, Kinds DEF IInv, LoopInv, LiveLoops
  <1>6. /\ Section(manager, manager') /\ ManagerOK(manager') /\ manager'.run = 0
        /\ r # 0 => r \in manager'.cancelled
    BY <1>1, <1>2, StopLoopSection
  <1>7. /\ Moved({t}) /\ at'[t].loop = r /\ at'[t].gen = at[t].gen /\ at'[t].pc = "drain" /\ at'[t].call = at[t].call
        /\ at'[t].ok = at[t].ok /\ at'[t].saw = at[t].saw
    <2>1. at' = [at EXCEPT ![t].pc = "drain", ![t].loop = r]
      BY <1>1
    <2> HIDE DEF r
    <2> QED
      BY <1>2, <1>4, <2>1, MoveLoop
  <1> HIDE DEF r
  <1>8. /\ t \in Users => UserShape(at[t])'
        /\ t \in Reapers => ReapShape(at[t])'
        /\ ~InControl(at'[t]) /\ InLifecycle(at'[t]) /\ ~InTarget(at'[t])
    BY <1>3, <1>7 DEF UserShape, ReapShape, ReapPC, InControl, InLifecycle, InTarget
  <1>9. at'[t].gen <= manager'.generation
    BY <1>2, <1>6, <1>7, GenerationType DEF Placed, Section, Orderly, Monotone
  <1>10. Placed(t)'
    BY <1>1, <1>2, <1>3, <1>7, <1>8, <1>9 DEF Placed
  <1>11. Enters(t)'
    BY <1>7 DEF Enters
  <1>12. t \in Users => Sees(t)'
    BY <1>1, <1>3, <1>7 DEF Sees, IInv, PlanInv
  <1>13. \A k \in LiveLoops : k \in manager'.cancelled
    BY <1>5, <1>6
  <1>14. /\ Passed(lifecycleMu, lifecycleMu', {t}) /\ Passed(userControlMu, userControlMu', {t})
         /\ fenced' \in SUBSET Users
    BY <1>1, <1>2 DEF Passed, StateOK
  <1>15. \A k \in LiveLoops : k = at'[lifecycleMu'].loop
    BY <1>1, <1>5, <1>7
  <1> QED
    BY <1>1, <1>2, <1>6, <1>7, <1>10, <1>11, <1>12, <1>13, <1>14, <1>15, LifecycleStep

(* A reaper with a bound leaves a newer mode alone.                        *)
LEMMA StopLoopAtGenerationStep ==
  ASSUME IInv, NEW t \in Reapers, StopLoopAtGeneration(t)
  PROVE  IInv'
  <1>1. /\ at[t].pc = "stopBound" /\ lifecycleMu = None
        /\ engine' = engine /\ halted' = halted /\ calls' = calls /\ fenced' = fenced /\ userControlMu' = userControlMu
    BY DEF StopLoopAtGeneration
  <1>2. Placed(t) /\ ManagerOK(manager) /\ StateOK /\ t \in Goroutines /\ t # None /\ t \notin Runs
        /\ t \notin Users /\ at[t].gen \in Nat
    BY Kinds DEF IInv, PlaceInv, StateOK, Frames
  <1>3. /\ at[t].call = "reap" /\ at[t].ok = "none" /\ userControlMu # t /\ engine.targetMu # t
    BY <1>1, <1>2 DEF Placed, ReapShape, InControl, InTarget
  <1>4. Passed(userControlMu, userControlMu', {t}) /\ fenced' \in SUBSET Users
    BY <1>1, <1>2 DEF Passed, StateOK
  <1>5. CASE Current(manager, at[t].id, at[t].gen)
    <2> DEFINE r == manager.run
    <2>1. manager' = Detach(manager) /\ lifecycleMu' = t /\ at' = [at EXCEPT ![t].pc = "drain", ![t].loop = r]
      BY <1>5 DEF StopLoopAtGeneration
    <2>2. r \in 0 .. MaxRuns /\ "drain" \in PCs
      BY <1>2 DEF ManagerOK, Managers, PCs, UserPC
    <2>3. \A k \in LiveLoops : k = r /\ k # 0
      BY <1>1, Kinds DEF IInv, LoopInv, LiveLoops
    <2>4. /\ Section(manager, manager') /\ ManagerOK(manager') /\ manager'.run = 0
          /\ manager'.cancelled = (manager.cancelled \cup {r}) \ {0}
      BY <1>2, <2>1, DetachSection
    <2>5. /\ Moved({t}) /\ at'[t].loop = r /\ at'[t].gen = at[t].gen /\ at'[t].pc = "drain" /\ at'[t].call = at[t].call
          /\ at'[t].ok = at[t].ok
      <3>1. at' = [at EXCEPT ![t].pc = "drain", ![t].loop = r]
        BY <2>1
      <3> HIDE DEF r
      <3> QED
        BY <1>2, <2>2, <3>1, MoveLoop
    <2> HIDE DEF r
    <2>6. ReapShape(at[t])' /\ ~InControl(at'[t]) /\ InLifecycle(at'[t]) /\ ~InTarget(at'[t])
      BY <1>3, <2>5 DEF ReapShape, ReapPC, InControl, InLifecycle, InTarget
    <2>7. at'[t].gen <= manager'.generation
      BY <1>2, <2>4, <2>5, GenerationType DEF Placed, Section, Orderly, Monotone
    <2>8. Placed(t)'
      BY <1>1, <1>2, <1>3, <2>1, <2>5, <2>6, <2>7 DEF Placed
    <2>9. Enters(t)'
      BY <2>5 DEF Enters
    <2>10. \A k \in LiveLoops : k \in manager'.cancelled
      BY <2>3, <2>4
    <2>11. Passed(lifecycleMu, lifecycleMu', {t})
      BY <1>1, <2>1 DEF Passed
    <2>12. \A k \in LiveLoops : k = at'[lifecycleMu'].loop
      BY <2>1, <2>3, <2>5
    <2> QED
      BY <1>1, <1>2, <1>4, <2>1, <2>4, <2>5, <2>8, <2>9, <2>10, <2>11, <2>12, LifecycleStep
  <1>6. CASE ~Current(manager, at[t].id, at[t].gen)
    <2>1. Go(t, "exited") /\ manager' = manager /\ lifecycleMu' = lifecycleMu
      BY <1>6 DEF StopLoopAtGeneration
    <2>2. Moved({t}) /\ at'[t].pc = "exited" /\ SameCall(at[t], at'[t]) /\ at'[t].gen = at[t].gen /\ at'[t].ok = at[t].ok
      BY <1>2, <2>1, GoEffect DEF PCs, ReapPC
    <2>3. Section(manager, manager')
      BY <1>2, <2>1, SectionStays
    <2>4. ReapShape(at[t])' /\ ~InControl(at'[t]) /\ ~InLifecycle(at'[t]) /\ ~InTarget(at'[t])
      BY <1>3, <2>2 DEF ReapShape, ReapPC, InControl, InLifecycle, InTarget, SameCall
    <2>5. Placed(t)'
      BY <1>1, <1>2, <1>3, <2>1, <2>2, <2>4 DEF Placed
    <2>6. Enters(t)' /\ Passed(lifecycleMu, lifecycleMu', {t})
      BY <2>1, <2>2 DEF Enters, Passed
    <2>7. /\ \A k \in LiveLoops : k = manager'.run
          /\ lifecycleMu' = None
      BY <1>1, <2>1 DEF IInv, LoopInv
    <2> QED
      BY <1>1, <1>2, <1>4, <2>2, <2>3, <2>5, <2>6, <2>7, LifecycleStep
  <1> QED
    BY <1>5, <1>6

(* The loop has ended: who waited for it lets the next one in.             *)
LEMMA DrainStep ==
  ASSUME IInv, NEW t \in Users \cup Reapers, Drain(t)
  PROVE  IInv'
  <1>1. /\ at[t].pc = "drain" /\ Drained(t) /\ lifecycleMu' = (IF lifecycleMu = t THEN None ELSE lifecycleMu)
        /\ manager' = manager /\ engine' = engine /\ halted' = halted /\ calls' = calls /\ userControlMu' = userControlMu
    BY DEF Drain
  <1>2. Placed(t) /\ ManagerOK(manager) /\ StateOK /\ t \in Goroutines /\ t # None /\ t \notin Runs
        /\ (t \in Users => t \notin Reapers) /\ at[t].gen \in Nat
    BY Kinds DEF IInv, PlaceInv, StateOK, Frames
  <1>3. /\ t \in Users => at[t].call \in {"start", "stop", "chatstop", "modestop", "end", "halt"}
        /\ t \in Reapers => at[t].call = "reap"
        /\ at[t].ok = "none" /\ userControlMu # t /\ engine.targetMu # t
    BY <1>1, <1>2 DEF Placed, UserShape, ReapShape, InControl, InTarget
  <1>4. fenced \in SUBSET Users /\ engine.plan \in Nat /\ manager.generation \in Nat
    BY <1>2, GenerationType DEF StateOK, Engines
  <1>5. /\ Moved({t}) /\ fenced' \in SUBSET Users /\ at'[t].ok = "none" /\ at'[t].gen <= manager.generation
        /\ ~InControl(at'[t]) /\ ~InLifecycle(at'[t]) /\ ~InTarget(at'[t])
        /\ t \in Users => UserShape(at[t])'
        /\ t \in Reapers => ReapShape(at[t])'
        /\ at'[t].pc \notin {"target", "begin", "lead", "commit", "install", "halting", "pausing"}
        /\ t \in Users => Sees(t)'
    <2>1. CASE at[t].call \in {"start", "halt"}
      <3>1. at' = [at EXCEPT ![t].pc = "halt", ![t].loop = 0] /\ fenced' = fenced
        BY <1>1, <2>1 DEF Drain
      <3>2. 0 \in 0 .. MaxRuns /\ "halt" \in PCs
        BY ModesAssumption DEF PCs, UserPC
      <3>3. /\ Moved({t}) /\ at'[t].pc = "halt" /\ at'[t].loop = 0 /\ at'[t].call = at[t].call
            /\ at'[t].gen = at[t].gen /\ at'[t].ok = at[t].ok /\ at'[t].saw = at[t].saw
        BY <1>2, <3>1, <3>2, MoveLoop
      <3>4. t \in Users
        BY <1>3, <2>1
      <3>5. UserShape(at[t])' /\ ~InControl(at'[t]) /\ ~InLifecycle(at'[t]) /\ ~InTarget(at'[t])
        BY <2>1, <3>3 DEF UserShape, InControl, InLifecycle, InTarget
      <3>6. Sees(t)'
        BY <1>1, <1>3, <2>1, <3>3, <3>4 DEF Sees, IInv, PlanInv
      <3> QED
        BY <1>2, <1>3, <1>4, <3>1, <3>3, <3>4, <3>5, <3>6 DEF Placed
    <2>2. CASE at[t].call \notin {"start", "halt"} /\ t \in Users
      <3>1. Leave(t)
        BY <1>1, <2>2 DEF Drain
      <3>2. Moved({t}) /\ at'[t] = Idle /\ fenced' \in SUBSET Users
        BY <1>2, <2>2, <3>1, LeaveEffect
      <3>3. /\ at'[t].pc = "idle" /\ at'[t].call = "none" /\ at'[t].ok = "none" /\ at'[t].gen = 0 /\ at'[t].loop = 0
            /\ at'[t].saw = Unseen
        BY <3>2, IdleType
      <3>4. UserShape(at[t])' /\ ~InControl(at'[t]) /\ ~InLifecycle(at'[t]) /\ ~InTarget(at'[t])
        BY <3>3 DEF UserShape, InControl, InLifecycle, InTarget
      <3>5. Sees(t)'
        BY <1>1, <1>2, <3>3, SeesNothing
      <3> QED
        BY <1>2, <1>4, <2>2, <3>2, <3>3, <3>4, <3>5
    <2>3. CASE t \notin Users
      <3>1. Go(t, "exited") /\ fenced' = fenced
        BY <1>1, <1>3, <2>3 DEF Drain
      <3>2. Moved({t}) /\ at'[t].pc = "exited" /\ SameCall(at[t], at'[t]) /\ at'[t].gen = at[t].gen /\ at'[t].ok = at[t].ok
        BY <1>2, <3>1, GoEffect DEF PCs, ReapPC
      <3>3. ReapShape(at[t])' /\ ~InControl(at'[t]) /\ ~InLifecycle(at'[t]) /\ ~InTarget(at'[t])
        BY <1>3, <2>3, <3>2 DEF ReapShape, ReapPC, InControl, InLifecycle, InTarget, SameCall
      <3> QED
        BY <1>2, <1>3, <1>4, <2>3, <3>1, <3>2, <3>3 DEF Placed
    <2> QED
      BY <2>1, <2>2, <2>3
  <1>6. Enters(t)'
    BY <1>5 DEF Enters
  <1>7. Placed(t)'
    BY <1>1, <1>2, <1>3, <1>5 DEF Placed
  <1>8. Passed(lifecycleMu, lifecycleMu', {t}) /\ Passed(userControlMu, userControlMu', {t})
    BY <1>1 DEF Passed
  <1>9. lifecycleMu = t => LiveLoops = {} /\ manager.run = 0
    BY <1>1, <1>2, Unlooped
  <1>10. /\ \A k \in LiveLoops : k = manager'.run \/ k \in manager'.cancelled
         /\ lifecycleMu' = None => \A k \in LiveLoops : k = manager'.run
    BY <1>1, <1>9 DEF IInv, LoopInv
  <1>11. lifecycleMu' # None => manager'.run = 0 /\ \A k \in LiveLoops : k = at'[lifecycleMu'].loop
    <2> SUFFICES ASSUME lifecycleMu' # None PROVE manager'.run = 0 /\ \A k \in LiveLoops : k = at'[lifecycleMu'].loop
      OBVIOUS
    <2>1. lifecycleMu' = lifecycleMu /\ lifecycleMu # t /\ lifecycleMu \in Goroutines
      BY <1>1, <1>2, Kinds DEF StateOK
    <2>2. at'[lifecycleMu'] = at[lifecycleMu]
      BY <1>5, <2>1 DEF Moved
    <2> QED
      BY <1>1, <2>1, <2>2 DEF IInv, LoopInv
  <1>12. Section(manager, manager')
    BY <1>1, <1>2, SectionStays
  <1> QED
    BY <1>1, <1>5, <1>6, <1>7, <1>8, <1>10, <1>11, <1>12, LifecycleStep

(* The next loop takes the first run that was never used.                  *)
LEMMA NextRunIsFree ==
  ASSUME StateOK, PlaceInv, LoopInv, NextRun \in Runs
  PROVE  /\ at[NextRun].pc = "none" /\ Placed(NextRun)
         /\ \E n \in 0 .. MaxRuns : Used = 1 .. n /\ NextRun = n + 1
  <1>1. PICK n \in 0 .. MaxRuns : Used = 1 .. n
    BY DEF LoopInv
  <1>2. Cardinality(1 .. n) = n
    <2>1. 1 \in Int /\ n \in Int /\ n \in Nat
      BY <1>1, ModesAssumption
    <2>2. Cardinality(1 .. n) = IF 1 > n THEN 0 ELSE n - 1 + 1
      BY <2>1, FS_Interval
    <2> QED
      BY <2>1, <2>2
  <1>3. NextRun = n + 1 /\ n \in Nat
    BY <1>1, <1>2, ModesAssumption DEF NextRun
  <1>4. NextRun \notin Used
    BY <1>1, <1>3
  <1> HIDE DEF NextRun
  <1> QED
    BY <1>1, <1>3, <1>4, Kinds DEF Used, PlaceInv

(* A start puts its loop on a goroutine and goes on.                       *)
LEMMA InstallEffect ==
  ASSUME StateOK, NEW u \in Users, NEW n \in Runs, NEW mode \in Sources,
         at' = [at EXCEPT ![u].pc = "verify", ![n] = [New("loop", "wait") EXCEPT !.mode = mode]]
  PROVE  /\ Moved({u, n}) /\ at'[u].pc = "verify" /\ at'[u].call = at[u].call /\ at'[u].gen = at[u].gen
         /\ at'[u].ok = at[u].ok /\ at'[u].saw = at[u].saw /\ at'[u].loop = at[u].loop
         /\ at'[n].pc = "wait" /\ at'[n].call = "loop" /\ at'[n].gen = 0 /\ at'[n].ok = "none"
         /\ at'[n].saw = Unseen /\ at'[n].loop = 0
  <1> DEFINE b == New("loop", "wait")
             g == [b EXCEPT !.mode = mode]
             f == [at[u] EXCEPT !.pc = "verify"]
  <1>1. u \in Goroutines /\ n \in Goroutines /\ u # n /\ at[u] \in Frames
    BY Kinds DEF StateOK
  <1>2. /\ b \in Frames /\ b.pc = "wait" /\ b.call = "loop" /\ b.gen = 0 /\ b.saw = Unseen
        /\ b.ok = "none" /\ b.loop = 0
    BY NewType DEF PCs, LoopPC
  <1> HIDE DEF b
  <1>3. /\ g \in Frames /\ g.pc = "wait" /\ g.call = "loop" /\ g.gen = 0 /\ g.saw = Unseen
        /\ g.ok = "none" /\ g.loop = 0
    BY <1>2 DEF Frames
  <1>4. /\ f \in Frames /\ f.pc = "verify" /\ f.call = at[u].call /\ f.gen = at[u].gen /\ f.saw = at[u].saw
        /\ f.ok = at[u].ok /\ f.loop = at[u].loop
    BY <1>1 DEF Frames, UserPC
  <1>5. at' = [at EXCEPT ![u] = f, ![n] = g]
    BY DEF b
  <1> HIDE DEF f, g
  <1>6. Moved({u, n}) /\ at'[u] = f /\ at'[n] = g
    BY <1>1, <1>3, <1>4, <1>5 DEF Moved, StateOK
  <1> QED
    BY <1>3, <1>4, <1>6

(* The new loop is the only live one: the start has waited for the old one *)
(* under lifecycleMu.                                                      *)
LEMMA StartInstallStep ==
  ASSUME IInv, NEW u \in Users, StartInstall(u)
  PROVE  IInv'
  <1>1. /\ at[u].pc = "install" /\ Drained(u) /\ lifecycleMu' = None /\ userControlMu' = None
        /\ engine' = engine /\ halted' = halted /\ calls' = calls
    BY DEF StartInstall
  <1>2. Placed(u) /\ Sees(u) /\ ManagerOK(manager) /\ StateOK /\ u \in Goroutines /\ u # None /\ u \notin Runs /\ u \notin Reapers
    BY Kinds DEF IInv, PlaceInv, PlanInv, StateOK
  <1>3. at[u].call = "start" /\ at[u].ok = "none" /\ userControlMu = u /\ lifecycleMu = u /\ engine.targetMu # u
    BY <1>1, <1>2 DEF Placed, UserShape, InControl, InLifecycle, InTarget
  <1>4. LiveLoops = {} /\ manager.run = 0
    BY <1>1, <1>2, <1>3, Unlooped
  <1>5. NextRun \in Runs
    BY <1>1 DEF IInv, LoopInv
  <1>6. /\ Passed(lifecycleMu, lifecycleMu', {u}) /\ Passed(userControlMu, userControlMu', {u})
    BY <1>1, <1>3 DEF Passed
  <1>7. CASE /\ manager' = ResetForModeStart(manager, NextRun)
             /\ at' = [at EXCEPT ![u].pc = "verify",
                                 ![NextRun] = [New("loop", "wait") EXCEPT !.mode = at[u].mode]]
             /\ fenced' = fenced
    <2>1. PICK m \in 0 .. MaxRuns : Used = 1 .. m /\ NextRun = m + 1
      BY <1>5, NextRunIsFree DEF IInv
    <2>23. PICK n \in Runs : n = NextRun
      BY <1>5
    <2>2. at[n].pc = "none" /\ Placed(n)
      BY <1>5, <2>23, NextRunIsFree DEF IInv
    <2>3. n \in Runs /\ n = m + 1 /\ n # u /\ n # None /\ n \in Goroutines /\ n \notin Users /\ n \notin Reapers /\ n # 0
      BY <1>2, <2>1, <2>23, Kinds
    <2>4. at[u].mode \in Sources /\ at[u].gen \in Nat
      BY <1>2 DEF StateOK, Frames
    <2>5. /\ Moved({u, n}) /\ at'[u].pc = "verify" /\ at'[u].call = at[u].call /\ at'[u].gen = at[u].gen
          /\ at'[u].ok = at[u].ok /\ at'[u].saw = at[u].saw /\ at'[u].loop = at[u].loop
          /\ at'[n].pc = "wait" /\ at'[n].call = "loop" /\ at'[n].gen = 0 /\ at'[n].ok = "none"
          /\ at'[n].saw = Unseen /\ at'[n].loop = 0
      <3>1. at' = [at EXCEPT ![u].pc = "verify", ![n] = [New("loop", "wait") EXCEPT !.mode = at[u].mode]]
        BY <1>7, <2>23
      <3> QED
        BY <1>2, <2>3, <2>4, <3>1, InstallEffect
    <2>6. /\ Section(manager, manager') /\ ManagerOK(manager') /\ manager'.run = n /\ manager'.cancelled = manager.cancelled
      BY <1>2, <1>4, <1>7, <2>23, <2>3, ResetForModeStartSection
    <2>7. manager.generation \in Nat /\ manager'.generation \in Nat /\ manager.generation <= manager'.generation
      BY <1>2, <2>6, GenerationType DEF Section, Orderly, Monotone
    <2>8. Placed(u)'
      <3>1. UserShape(at[u])' /\ ~InControl(at'[u]) /\ ~InLifecycle(at'[u]) /\ ~InTarget(at'[u])
        BY <1>3, <2>5 DEF UserShape, InControl, InLifecycle, InTarget
      <3>2. at'[u].gen <= manager'.generation
        BY <1>2, <2>4, <2>5, <2>7 DEF Placed
      <3> QED
        BY <1>1, <1>2, <1>3, <2>5, <3>1, <3>2 DEF Placed
    <2>9. Placed(n)'
      <3>1. LoopShape(at[n])' /\ ~InControl(at'[n]) /\ ~InLifecycle(at'[n]) /\ ~InTarget(at'[n])
        BY <2>5 DEF LoopShape, LoopPC, InControl, InLifecycle, InTarget
      <3>2. engine.targetMu # n
        BY <2>2 DEF Placed, InTarget
      <3>3. at'[n].gen <= manager'.generation
        BY <2>5, <2>7
      <3> QED
        BY <1>1, <2>3, <2>5, <3>1, <3>2, <3>3 DEF Placed
    <2>10. Sees(u)' /\ Enters(u)'
      BY <1>1, <1>2, <1>3, <2>5 DEF Sees, Enters
    <2>11. Sees(n)' /\ Enters(n)'
      <3>1. Enters(n)'
        BY <2>5 DEF Enters
      <3> QED
        BY <1>1, <1>2, <2>3, <2>5, <3>1, SeesNothing
    <2>12. \A k \in Runs : k # n => at'[k] = at[k]
      BY <1>2, Kinds, <2>5 DEF Moved
    <2>13. Used' = 1 .. (m + 1) /\ m + 1 \in 0 .. MaxRuns
      <3>1. Used' = Used \cup {n}
        BY <2>3, <2>5, <2>12 DEF Used
      <3>2. m \in Nat /\ m + 1 <= MaxRuns /\ MaxRuns \in Nat
        BY <2>1, <2>3, ModesAssumption DEF Runs
      <3>3. (1 .. m) \cup {n} = 1 .. (m + 1)
        BY <2>3, <3>2
      <3> QED
        BY <2>1, <3>1, <3>2, <3>3
    <2>14. LiveLoops' = {n}
      BY <1>4, <2>3, <2>5, <2>12 DEF LiveLoops
    <2>15. \A v \in Users : at'[v].pc # "install"
      <3> SUFFICES ASSUME NEW v \in Users, at'[v].pc = "install" PROVE FALSE
        OBVIOUS
      <3>1. v # u /\ v # n /\ at'[v] = at[v] /\ v \in Goroutines
        BY <2>3, <2>5, Kinds DEF Moved
      <3>2. Placed(v) /\ InLifecycle(at[v])
        BY <3>1 DEF IInv, PlaceInv, InLifecycle
      <3> QED
        BY <1>3, <3>1, <3>2 DEF Placed
    <2>16. LoopInv'
      BY <1>1, <2>6, <2>13, <2>14, <2>15 DEF LoopInv
    <2>17. WorkInv'
      <3> SUFFICES ASSUME NEW k \in Runs PROVE at'[k].pc \notin Working \cup {"edgeReturn"}
        BY DEF WorkInv
      <3>1. CASE k = n
        BY <2>5, <3>1 DEF Working
      <3>2. CASE k # n
        BY <1>2, <1>4, <2>12, <3>2, WorkingLives
      <3> QED
        BY <3>1, <3>2
    <2>18. HoldInv'
      BY <1>1, <2>6, SectionHold
    <2> DEFINE S == {u, n}
    <2>19. S \in SUBSET Goroutines /\ {} \in SUBSET (Users \cup Runs) /\ {} \subseteq S
      BY <1>2, <2>3
    <2>20. Admits({})
      BY <1>1, <1>2, SameEngine
    <2>21. fenced' \in SUBSET Users /\ calls' \in Nat
      BY <1>1, <1>2, <1>7 DEF StateOK
    <2>22. Elsewhere(S, {})
      BY <1>1, <1>3, <2>2, <2>5, <2>8, <2>9, <2>10, <2>11, <2>20, <2>21 DEF Elsewhere, Passed
    <2> HIDE DEF S
    <2> QED
      BY <2>6, <2>16, <2>17, <2>18, <2>19, <2>22, ElsewhereStep DEF Section, Orderly
  <1>8. CASE Leave(u) /\ manager' = manager
    <2>1. Moved({u}) /\ at'[u] = Idle /\ fenced' \in SUBSET Users
      BY <1>2, <1>8, LeaveEffect
    <2>2. /\ at'[u].pc = "idle" /\ at'[u].call = "none" /\ at'[u].ok = "none" /\ at'[u].gen = 0 /\ at'[u].loop = 0
          /\ at'[u].saw = Unseen
      BY <2>1, IdleType
    <2>3. UserShape(at[u])' /\ ~InControl(at'[u]) /\ ~InLifecycle(at'[u]) /\ ~InTarget(at'[u])
      BY <2>2 DEF UserShape, InControl, InLifecycle, InTarget
    <2>4. Placed(u)' /\ Enters(u)'
      BY <1>1, <1>2, <1>3, <1>8, <2>2, <2>3, GenerationType DEF Placed, Enters
    <2>5. Sees(u)'
      BY <1>1, <1>2, <2>2, SeesNothing
    <2>6. Section(manager, manager')
      BY <1>2, <1>8, SectionStays
    <2> QED
      BY <1>1, <1>2, <1>4, <1>6, <1>8, <2>1, <2>2, <2>4, <2>5, <2>6, LifecycleStep
  <1> QED
    BY <1>7, <1>8 DEF StartInstall

-----------------------------------------------------------------------------
(* The sections of the mode loop. *)

(* A steady section of a loop keeps the manager in order and the hold as   *)
(* it is.                                                                  *)
LEMMA SteadyHold ==
  ASSUME IInv, Steady(manager, manager'), NEW A \in SUBSET (Users \cup Runs), Admits(A)
  PROVE  ManagerOK(manager') /\ Monotone(manager, manager') /\ HoldInv'
  <1>1. engine'.plan = engine.plan /\ engine'.source = engine.source
    BY AdmitsEffect DEF IInv
  <1> QED
    BY <1>1, HoldFrame DEF IInv, Steady

(* A loop that steps outside the engine.                                   *)
LEMMA LoopSection ==
  ASSUME IInv, NEW k \in Runs, at[k].pc \notin {"none", "exited", "lead", "commit"},
         NEW A \in SUBSET {k}, Admits(A), Moved({k}), halted' = halted, lifecycleMu' = lifecycleMu,
         Passed(userControlMu, userControlMu', {k}), calls' = calls, fenced' = fenced,
         LoopShape(at'[k]), at'[k].pc \notin {"none", "lead", "commit"},
         at'[k].pc # "answered" => at'[k].ok = "none",
         InControl(at'[k]) <=> userControlMu' = k,
         at'[k].gen <= manager'.generation,
         at'[k].call = "return" /\ at'[k].pc = "target" => at'[k].gen = manager'.generation,
         Sees(k)', ManagerOK(manager'), Monotone(manager, manager'), HoldInv',
         manager'.run = manager.run, WorkOK(k)'
  PROVE  IInv'
  <1>1. Placed(k) /\ k \in Goroutines /\ k # None /\ k \notin Users /\ k \notin Reapers /\ k \in LiveLoops
    BY Kinds DEF IInv, PlaceInv, LiveLoops
  <1>2. LoopShape(at[k]) /\ A \in SUBSET (Users \cup Runs)
    BY <1>1 DEF Placed
  <1>3. ~InLifecycle(at[k]) /\ ~InTarget(at[k]) /\ at[k].pc \notin {"halting", "pausing"}
    BY <1>2 DEF LoopShape, LoopPC, InLifecycle, InTarget
  <1>4. ~InLifecycle(at'[k]) /\ ~InTarget(at'[k]) /\ at'[k].pc \notin {"halting", "pausing"}
    BY DEF LoopShape, LoopPC, InLifecycle, InTarget
  <1>5. engine'.targetMu = engine.targetMu
    BY <1>2, AdmitsEffect DEF IInv
  <1>6. lifecycleMu # k /\ engine.targetMu # k
    BY <1>1, <1>3 DEF Placed
  <1>7. at'[k].pc \notin {"answered", "complete"} => at'[k].ok = "none"
    OBVIOUS
  <1>8. Placed(k)'
    BY <1>1, <1>4, <1>5, <1>6, <1>7 DEF Placed
  <1>9. Enters(k)'
    <2>1. at'[k].pc = "target" => at'[k].call \in {"loop", "return"}
      BY DEF LoopShape
    <2>2. Guarded(k)' => at'[k].call \in {"edge", "return", "review"}
      BY DEF Guarded
    <2> QED
      BY <1>1, <1>4, <2>1, <2>2 DEF Enters
  <1>10. /\ lifecycleMu' \in Users \cup Reapers \cup {None} /\ userControlMu' \in Users \cup Runs \cup {None}
         /\ fenced' \in SUBSET Users /\ calls' \in Nat /\ Passed(lifecycleMu, lifecycleMu', {k})
    BY DEF Passed, IInv, StateOK
  <1>11. Elsewhere({k} \cup {}, A)
    <2>1. Elsewhere({k}, A)
      BY <1>3, <1>8, <1>9, <1>10 DEF Elsewhere
    <2>2. {k} \cup {} = {k}
      OBVIOUS
    <2> QED
      BY <2>1, <2>2
  <1> QED
    BY <1>1, <1>11, LoopSectionStep

(* A loop that does not reconcile the hold makes nothing of the plan.      *)
LEMMA SeesNoPlan ==
  ASSUME IInv, NEW k \in Runs, NEW A \in SUBSET {k}, Admits(A), at'[k].saw.plan <= engine.plan, at'[k].call = "loop",
         at'[k].pc # "tickEdge", at'[k].pc # "reconcile"
  PROVE  Sees(k)'
  <1>1. engine'.plan = engine.plan /\ engine.plan \in Nat
    BY AdmitsEffect DEF IInv, StateOK, Engines
  <1> QED
    BY <1>1 DEF Sees

(* The end of a tick.                                                      *)
LEMMA LoopRests ==
  ASSUME IInv, NEW k \in Runs, at[k].pc \notin {"none", "exited", "lead", "commit"}, at' = Wait(k),
         engine' = engine, halted' = halted, lifecycleMu' = lifecycleMu,
         userControlMu' = (IF InControl(at[k]) THEN None ELSE userControlMu), calls' = calls, fenced' = fenced,
         ManagerOK(manager'), Monotone(manager, manager'), HoldInv', manager'.run = manager.run
  PROVE  IInv'
  <1>1. /\ Moved({k}) /\ at'[k].pc = "wait" /\ at'[k].call = "loop" /\ at'[k].gen = 0 /\ at'[k].saw = Unseen
        /\ at'[k].ok = "none" /\ at'[k].loop = 0
    BY WaitEffect DEF IInv
  <1>2. Placed(k) /\ k # None
    BY Kinds DEF IInv, PlaceInv
  <1>3. Admits({})
    BY SameEngine DEF IInv
  <1>4. Passed(userControlMu, userControlMu', {k}) /\ userControlMu' # k
    BY <1>2 DEF Placed, Passed
  <1>5. LoopShape(at'[k]) /\ ~InControl(at'[k])
    BY <1>1 DEF LoopShape, LoopPC, InControl
  <1>6. at'[k].gen <= manager'.generation
    BY <1>1, GenerationType
  <1>7. Sees(k)'
    <2>1. at'[k].saw.plan <= engine.plan
      BY <1>1 DEF Unseen, IInv, StateOK, Engines
    <2> QED
      BY <1>1, <1>3, <2>1, SeesNoPlan
  <1>8. WorkOK(k)'
    BY <1>1 DEF WorkOK, Working
  <1>9. {} \in SUBSET {k}
    OBVIOUS
  <1> QED
    BY <1>1, <1>3, <1>4, <1>5, <1>6, <1>7, <1>8, <1>9, LoopSection

(* So does a step that leaves the manager alone.                           *)
LEMMA LoopIntact ==
  ASSUME IInv, manager' = manager, NEW A \in SUBSET (Users \cup Runs), Admits(A)
  PROVE  ManagerOK(manager') /\ Monotone(manager, manager') /\ HoldInv' /\ manager'.run = manager.run
  <1>1. Steady(manager, manager')
    BY SectionStays, SectionSteady DEF IInv, StateOK
  <1> QED
    BY <1>1, SteadyHold

(* A loop moves on in what it does.                                        *)
LEMMA LoopGoes ==
  ASSUME IInv, NEW k \in Runs, at[k].pc \notin {"none", "exited", "lead", "commit"}, at[k].call = "loop",
         Moved({k}), at'[k].call = "loop", at'[k].ok = "none", at'[k].gen \in Nat, at'[k].gen <= manager'.generation,
         at'[k].saw.plan <= engine.plan,
         at'[k].pc \in {"exited", "decide", "ensure", "plan", "choice", "texture", "begin", "target"},
         NEW A \in SUBSET {k}, Admits(A), halted' = halted, lifecycleMu' = lifecycleMu,
         userControlMu' = userControlMu, calls' = calls, fenced' = fenced,
         ManagerOK(manager'), Monotone(manager, manager'), HoldInv', manager'.run = manager.run,
         WorkOK(k)'
  PROVE  IInv'
  <1>1. Placed(k) /\ k # None
    BY Kinds DEF IInv, PlaceInv
  <1>2. userControlMu # k
    BY <1>1 DEF Placed, InControl
  <1>3. LoopShape(at'[k]) /\ ~InControl(at'[k])
    BY DEF LoopShape, LoopPC, InControl
  <1>4. Sees(k)'
    BY SeesNoPlan
  <1>5. Passed(userControlMu, userControlMu', {k})
    BY DEF Passed
  <1> QED
    BY <1>2, <1>3, <1>4, <1>5, LoopSection

(* What is in force stays in force when nothing changed.                   *)
LEMMA WorkGoesOn ==
  ASSUME IInv, NEW k \in Runs, at[k].pc \in Working, at'[k].pc # "edgeReturn", at'[k].gen = at[k].gen,
         manager' = manager
  PROVE  WorkOK(k)'
  BY DEF IInv, WorkInv, WorkOK, InForce, Current

(* What is known of a loop wherever it stands.                             *)
LEMMA LoopShapes ==
  ASSUME IInv, NEW k \in Runs
  PROVE  /\ StateOK /\ ManagerOK(manager) /\ k \in Goroutines /\ at[k] \in Frames /\ at[k].gen \in Nat
         /\ at[k].id \in Nat /\ at[k].saw \in Snapshots /\ at[k].mode \in Sources
         /\ Placed(k) /\ LoopShape(at[k]) /\ Sees(k) /\ at[k].gen <= manager.generation
         /\ at[k].pc \notin {"answered", "complete"} => at[k].ok = "none"
         /\ at[k].call = "loop" => ~InControl(at[k])
  <1>1. StateOK /\ Placed(k) /\ k \in Goroutines /\ Sees(k)
    BY Kinds DEF IInv, PlaceInv, PlanInv
  <1>2. at[k] \in Frames
    BY <1>1 DEF StateOK
  <1>3. at[k].call = "loop" => ~InControl(at[k])
    BY DEF InControl
  <1> QED
    BY <1>1, <1>2, <1>3 DEF StateOK, Placed, Frames

(* A cancelled loop exits; no tick of it is under way.                     *)
LEMMA LoopExitStep ==
  ASSUME IInv, NEW k \in Runs, LoopExit(k)
  PROVE  IInv'
  <1>1. /\ at[k].pc = "wait" /\ Go(k, "exited") /\ manager' = manager /\ engine' = engine /\ halted' = halted
        /\ lifecycleMu' = lifecycleMu /\ userControlMu' = userControlMu /\ calls' = calls /\ fenced' = fenced
    BY DEF LoopExit, locks
  <1>2. /\ StateOK /\ Placed(k) /\ k \in Goroutines /\ LoopShape(at[k]) /\ at[k].gen \in Nat
        /\ at[k].gen <= manager.generation /\ at[k].ok = "none" /\ Sees(k)
    BY <1>1, LoopShapes
  <1>3. /\ Moved({k}) /\ at'[k].pc = "exited" /\ at'[k].call = at[k].call /\ at'[k].gen = at[k].gen
        /\ at'[k].saw = at[k].saw /\ at'[k].ok = at[k].ok
    BY <1>1, <1>2, GoEffect DEF PCs, LoopPC, SameCall
  <1>4. at[k].call = "loop"
    BY <1>1, <1>2 DEF LoopShape
  <1>5. Admits({}) /\ {} \in SUBSET {k} /\ {} \in SUBSET (Users \cup Runs)
    BY <1>1, <1>2, SameEngine
  <1>6. ManagerOK(manager') /\ Monotone(manager, manager') /\ HoldInv' /\ manager'.run = manager.run
    BY <1>1, <1>5, LoopIntact
  <1>7. WorkOK(k)'
    BY <1>3 DEF WorkOK, Working
  <1>8. LoopShape(at'[k]) /\ ~InControl(at'[k]) /\ userControlMu # k
    BY <1>2, <1>3, <1>4, Kinds DEF LoopShape, LoopPC, InControl, Placed
  <1>9. Sees(k)' /\ Passed(userControlMu, userControlMu', {k})
    BY <1>1, <1>2, <1>3, <1>4 DEF Sees, Passed
  <1> QED
    BY <1>1, <1>2, <1>3, <1>4, <1>5, <1>6, <1>7, <1>8, <1>9, LoopSection

(* A tick that goes on to its decision keeps the snapshot but no plan      *)
(* number.                                                                 *)
LEMMA DecideEffect ==
  ASSUME StateOK, NEW k \in Runs, at' = Decide(k)
  PROVE  /\ Moved({k}) /\ at'[k].pc = "decide" /\ at'[k].call = "loop" /\ at'[k].gen = 0
         /\ at'[k].saw.plan = 0 /\ at'[k].ok = "none"
  <1> DEFINE w == [Idle EXCEPT !.pc = "wait", !.call = "loop", !.mode = at[k].mode]
             s == [Snapshot EXCEPT !.plan = 0]
             f == [w EXCEPT !.pc = "decide", !.saw = s]
  <1>1. at[k] \in Frames /\ k \in Goroutines
    BY Kinds DEF StateOK
  <1>2. /\ Idle \in Frames /\ Idle.id = 0 /\ Idle.gen = 0 /\ Idle.saw = Unseen /\ Idle.ok = "none" /\ Idle.loop = 0
    BY IdleType
  <1>3. s \in Snapshots /\ s.plan = 0
    BY SnapshotType DEF Snapshots
  <1>4. at' = [[at EXCEPT ![k] = w] EXCEPT ![k].pc = "decide", ![k].saw = s]
    BY DEF Decide, Wait
  <1> HIDE DEF s
  <1>5. w \in Frames /\ w.gen = 0 /\ w.ok = "none" /\ w.call = "loop"
    BY <1>1, <1>2 DEF Frames, LoopPC
  <1> HIDE DEF w
  <1>6. /\ f \in Frames /\ f.pc = "decide" /\ f.call = "loop" /\ f.gen = 0 /\ f.saw = s /\ f.ok = "none"
    BY <1>3, <1>5 DEF Frames, LoopPC
  <1>7. at' = [at EXCEPT ![k] = f]
    BY <1>1, <1>4 DEF StateOK
  <1> HIDE DEF f
  <1> QED
    BY <1>1, <1>3, <1>6, <1>7, OpenEffect

(* Going on to a decision needs nothing of the mode: it is looked at then. *)
LEMMA LoopDecides ==
  ASSUME IInv, NEW k \in Runs, at[k].pc \in {"wait", "tickEdge"}, at' = Decide(k), engine' = engine,
         halted' = halted, lifecycleMu' = lifecycleMu, userControlMu' = userControlMu, calls' = calls, fenced' = fenced,
         ManagerOK(manager'), Monotone(manager, manager'), HoldInv', manager'.run = manager.run
  PROVE  IInv'
  <1>1. /\ StateOK /\ LoopShape(at[k])
    BY LoopShapes
  <1>2. at[k].call = "loop"
    BY <1>1 DEF LoopShape
  <1>3. /\ Moved({k}) /\ at'[k].pc = "decide" /\ at'[k].call = "loop" /\ at'[k].gen = 0
        /\ at'[k].saw.plan = 0 /\ at'[k].ok = "none"
    BY <1>1, DecideEffect
  <1>4. Admits({}) /\ {} \in SUBSET {k}
    BY <1>1, SameEngine
  <1>5. at'[k].gen \in Nat /\ at'[k].gen <= manager'.generation /\ at'[k].saw.plan <= engine.plan
    BY <1>1, <1>3, GenerationType DEF StateOK, Engines
  <1>6. WorkOK(k)'
    BY <1>3 DEF WorkOK, Working
  <1> QED
    BY <1>2, <1>3, <1>4, <1>5, <1>6, LoopGoes

(* A tick first takes a snapshot, with or without a hold.                  *)
LEMMA TickStep ==
  ASSUME IInv, NEW k \in Runs, Tick(k)
  PROVE  IInv'
  <1>1. /\ at[k].pc = "wait" /\ manager' = manager /\ engine' = engine /\ halted' = halted
        /\ lifecycleMu' = lifecycleMu /\ userControlMu' = userControlMu /\ calls' = calls /\ fenced' = fenced
    BY DEF Tick, locks
  <1>2. /\ StateOK /\ ManagerOK(manager) /\ Placed(k) /\ k \in Goroutines /\ LoopShape(at[k]) /\ at[k].gen \in Nat
        /\ at[k].gen <= manager.generation /\ at[k].ok = "none" /\ Sees(k)
    BY <1>1, LoopShapes
  <1>3. at[k].call = "loop"
    BY <1>1, <1>2 DEF LoopShape
  <1>4. Admits({}) /\ {} \in SUBSET {k} /\ {} \in SUBSET (Users \cup Runs)
    BY <1>1, <1>2, SameEngine
  <1>5. ManagerOK(manager') /\ Monotone(manager, manager') /\ HoldInv' /\ manager'.run = manager.run
    BY <1>1, <1>4, LoopIntact
  <1>6. CASE manager.edge # None
    <2> DEFINE i == HoldID
               s == Snapshot
    <2>1. at' = [at EXCEPT ![k].pc = "tickEdge", ![k].id = i, ![k].saw = s]
      BY <1>6 DEF Tick
    <2>2. i \in Nat /\ s \in Snapshots /\ s.plan = engine.plan /\ s.source = engine.source /\ engine.plan \in Nat
      BY <1>2, <1>6, SnapshotType DEF HoldID, ManagerOK, Managers, Holds, StateOK, Engines
    <2> HIDE DEF i, s
    <2> DEFINE f == [at[k] EXCEPT !.pc = "tickEdge", !.id = i, !.saw = s]
    <2>3. /\ f \in Frames /\ f.pc = "tickEdge" /\ f.saw = s /\ f.call = at[k].call /\ f.gen = at[k].gen
          /\ f.ok = at[k].ok
      BY <1>2, <2>2 DEF Frames, LoopPC, StateOK
    <2>4. at' = [at EXCEPT ![k] = f]
      BY <1>2, <2>1 DEF StateOK
    <2> HIDE DEF f
    <2>5. Moved({k}) /\ at'[k] = f
      BY <1>2, <2>3, <2>4, OpenEffect
    <2>6. LoopShape(at'[k]) /\ ~InControl(at'[k]) /\ userControlMu # k
      BY <1>2, <1>3, <2>3, <2>5, Kinds DEF LoopShape, LoopPC, InControl, Placed
    <2>7. Sees(k)' /\ WorkOK(k)' /\ Passed(userControlMu, userControlMu', {k})
      BY <1>1, <1>3, <2>2, <2>3, <2>5 DEF Sees, WorkOK, Working, Passed
    <2>8. at'[k].pc = "tickEdge" /\ at'[k].ok = "none" /\ at'[k].gen = at[k].gen /\ at'[k].call = "loop"
      BY <1>2, <1>3, <2>3, <2>5
    <2> QED
      BY <1>1, <1>2, <1>4, <1>5, <2>5, <2>6, <2>7, <2>8, LoopSection
  <1>7. CASE manager.edge = None
    <2>1. at' = Decide(k)
      BY <1>7 DEF Tick
    <2> QED
      BY <1>1, <1>5, <2>1, LoopDecides
  <1> QED
    BY <1>6, <1>7

(* A tick reconciles the hold with a snapshot taken before Manager.mu was. *)
LEMMA TickEdgeStep ==
  ASSUME IInv, NEW k \in Runs, TickEdge(k)
  PROVE  IInv'
  <1>1. /\ at[k].pc = "tickEdge" /\ engine' = engine /\ halted' = halted
        /\ lifecycleMu' = lifecycleMu /\ userControlMu' = userControlMu /\ calls' = calls /\ fenced' = fenced
    BY DEF TickEdge, locks
  <1>2. /\ StateOK /\ ManagerOK(manager) /\ Placed(k) /\ k \in Goroutines /\ LoopShape(at[k]) /\ at[k].ok = "none"
        /\ at[k].saw \in Snapshots /\ Sees(k) /\ at[k] \in Frames
    BY <1>1, LoopShapes
  <1>3. at[k].call = "loop"
    BY <1>1, <1>2 DEF LoopShape
  <1>4. ~InControl(at[k]) /\ userControlMu # k
    BY <1>2, <1>3 DEF InControl, Placed
  <1>5. Admits({}) /\ {} \in SUBSET {k}
    BY <1>1, <1>2, SameEngine
  <1>6. PICK loops \in BOOLEAN : manager' = ReconcileEdge(manager, at[k].id, at[k].saw, loops)
    BY DEF TickEdge
  <1>7. Orderly(manager, manager') /\ ManagerOK(manager') /\ HoldKept(manager, manager', at[k].saw) /\ manager'.run = manager.run
    BY <1>2, <1>6, ReconcileEdgeSection
  <1>8. manager'.edge # None => /\ manager'.edge.plan <= engine.plan
                                /\ manager'.edge.applied /\ manager'.edge.plan = engine.plan => engine.source = "edge"
    BY <1>1, <1>7, KeptHold
  <1>9. HoldInv' /\ Monotone(manager, manager')
    BY <1>1, <1>7, <1>8 DEF HoldInv, Orderly
  <1>10. CASE manager'.edge # None
    <2> DEFINE i == manager'.edge.id
               g == manager'.generation
    <2>1. at' = [at EXCEPT ![k].pc = "edge", ![k].id = i, ![k].gen = g, ![k].saw = Unseen]
      BY <1>10 DEF TickEdge
    <2>2. i \in Nat /\ i > 0 /\ g \in Nat
      BY <1>7, <1>10 DEF ManagerOK, Managers, Holds
    <2>10. PICK h \in Nat : h = g
      BY <2>2
    <2>11. PICK j \in Nat : j = i
      BY <2>2
    <2> HIDE DEF i, g
    <2> DEFINE f == [at[k] EXCEPT !.pc = "edge", !.id = j, !.gen = h, !.saw = Unseen]
    <2>3. /\ f \in Frames /\ f.pc = "edge" /\ f.saw = Unseen /\ f.call = at[k].call /\ f.gen = h /\ f.id = j
          /\ f.ok = at[k].ok
      BY <1>2, IdleType DEF Frames, LoopPC
    <2>4. at' = [at EXCEPT ![k] = f]
      BY <1>2, <2>1, <2>10, <2>11 DEF StateOK
    <2> HIDE DEF f
    <2>5. Moved({k}) /\ at'[k] = f
      BY <1>2, <2>3, <2>4, OpenEffect
    <2>6. /\ at'[k].pc = "edge" /\ at'[k].saw = Unseen /\ at'[k].call = "loop" /\ at'[k].gen = g /\ at'[k].id > 0
          /\ at'[k].ok = "none"
      BY <1>2, <1>3, <2>10, <2>11, <2>2, <2>3, <2>5
    <2>7. LoopShape(at'[k]) /\ ~InControl(at'[k])
      BY <2>6 DEF LoopShape, LoopPC, InControl
    <2>8. Sees(k)'
      BY <1>1, <1>2, <2>6, SeesNothing
    <2>9. WorkOK(k)' /\ Passed(userControlMu, userControlMu', {k}) /\ at'[k].gen <= manager'.generation
      BY <1>1, <2>2, <2>6 DEF WorkOK, Working, Passed, g
    <2> QED
      BY <1>1, <1>4, <1>5, <1>7, <1>9, <2>5, <2>6, <2>7, <2>8, <2>9, LoopSection
  <1>11. CASE manager'.edge = None
    <2>1. at' = Decide(k) \/ at' = Wait(k)
      BY <1>11 DEF TickEdge
    <2> QED
      BY <1>1, <1>4, <1>7, <1>9, <2>1, LoopDecides, LoopRests
  <1> QED
    BY <1>10, <1>11

(* A tick under a hold begins the one decision about its return.           *)
LEMMA EdgeTickStep ==
  ASSUME IInv, NEW k \in Runs, EdgeTick(k)
  PROVE  IInv'
  <1>1. /\ at[k].pc = "edge" /\ engine' = engine /\ halted' = halted
        /\ lifecycleMu' = lifecycleMu /\ userControlMu' = userControlMu /\ calls' = calls /\ fenced' = fenced
    BY DEF EdgeTick, locks
  <1>2. /\ StateOK /\ ManagerOK(manager) /\ Placed(k) /\ k \in Goroutines /\ LoopShape(at[k]) /\ at[k].ok = "none"
        /\ at[k].gen \in Nat /\ at[k].gen <= manager.generation /\ Sees(k)
    BY <1>1, LoopShapes
  <1>3. at[k].call = "loop" /\ at[k].id > 0
    BY <1>1, <1>2 DEF LoopShape
  <1>4. ~InControl(at[k]) /\ userControlMu # k /\ Passed(userControlMu, userControlMu', {k})
    BY <1>1, <1>2, <1>3 DEF InControl, Placed, Passed
  <1>5. Admits({}) /\ {} \in SUBSET {k} /\ {} \in SUBSET (Users \cup Runs)
    BY <1>1, <1>2, SameEngine
  <1>6. CASE /\ manager.generation = at[k].gen /\ OperationAdmitted(manager, k, "autopilot", TRUE)
             /\ manager' = BeginOperation(manager, k) /\ Go(k, "edgePlan")
    <2>1. /\ Steady(manager, manager') /\ SameState(manager, manager') /\ SamePause(manager, manager')
          /\ manager'.run = manager.run /\ manager'.generation = manager.generation /\ manager'.operation = k
      BY <1>2, <1>6, BeginOperationSteady
    <2>2. /\ Moved({k}) /\ at'[k].pc = "edgePlan" /\ SameCall(at[k], at'[k]) /\ at'[k].gen = at[k].gen
          /\ at'[k].saw = at[k].saw /\ at'[k].ok = at[k].ok
      BY <1>2, <1>6, GoEffect DEF PCs, LoopPC
    <2>3. ManagerOK(manager') /\ Monotone(manager, manager') /\ HoldInv'
      BY <1>5, <2>1, SteadyHold
    <2>4. LoopShape(at'[k]) /\ ~InControl(at'[k]) /\ at'[k].call = "loop"
      BY <1>3, <2>2 DEF LoopShape, InControl, SameCall
    <2>5. Sees(k)'
      BY <1>1, <1>2, <1>3, <2>2, <2>4 DEF Sees
    <2>6. WorkOK(k)'
      BY <1>6, <2>1, <2>2 DEF OperationAdmitted, WorkOK, InForce, Current, SameState, SamePause
    <2> QED
      BY <1>1, <1>2, <1>4, <1>5, <2>1, <2>2, <2>3, <2>4, <2>5, <2>6, LoopSection
  <1>7. CASE EdgeQuiet(k) /\ manager.edge.decided /\ Go(k, "edgeReturn") /\ manager' = manager
    <2>1. ManagerOK(manager') /\ Monotone(manager, manager') /\ HoldInv' /\ manager'.run = manager.run
      BY <1>5, <1>7, LoopIntact
    <2>2. /\ Moved({k}) /\ at'[k].pc = "edgeReturn" /\ SameCall(at[k], at'[k]) /\ at'[k].gen = at[k].gen
          /\ at'[k].saw = at[k].saw /\ at'[k].ok = at[k].ok
      BY <1>2, <1>7, GoEffect DEF PCs, LoopPC
    <2>3. LoopShape(at'[k]) /\ ~InControl(at'[k]) /\ at'[k].call = "loop"
      BY <1>3, <2>2 DEF LoopShape, InControl, SameCall
    <2>4. Sees(k)'
      BY <1>1, <1>2, <1>3, <2>2, <2>3 DEF Sees
    <2>5. manager.edge # None
      BY <1>3, <1>7 DEF EdgeQuiet, HoldID
    <2>6. WorkOK(k)'
      BY <1>2, <1>7, <2>2, <2>5 DEF EdgeQuiet, WorkOK, Working, ManagerOK
    <2> QED
      BY <1>1, <1>2, <1>4, <1>5, <1>7, <2>1, <2>2, <2>3, <2>4, <2>6, LoopSection
  <1>8. CASE at' = Wait(k) /\ manager' = manager
    <2>1. ManagerOK(manager') /\ Monotone(manager, manager') /\ HoldInv' /\ manager'.run = manager.run
      BY <1>5, <1>8, LoopIntact
    <2> QED
      BY <1>1, <1>4, <1>8, <2>1, LoopRests
  <1> QED
    BY <1>6, <1>7, <1>8 DEF EdgeTick

(* A decision is noted on a hold of a mode that has not been stopped.      *)
LEMMA DecidedSteady ==
  ASSUME NEW m, ManagerOK(m), m.edge # None, ~m.stopped
  PROVE  LET n == [m EXCEPT !.edge.decided = TRUE]
         IN Steady(m, n) /\ n.run = m.run
  <1> DEFINE e == [m.edge EXCEPT !.decided = TRUE]
             n == [m EXCEPT !.edge = e]
  <1>1. m \in Managers /\ m.edge \in Holds
    BY DEF ManagerOK, Managers
  <1>2. /\ e \in Holds /\ e.id = m.edge.id /\ e.plan = m.edge.plan /\ e.applied = m.edge.applied
    BY <1>1 DEF Holds
  <1> HIDE DEF e
  <1>3. /\ n \in Managers /\ n.edge = e /\ SamePause(m, n) /\ SameWork(m, n) /\ n.stopped = m.stopped
    BY <1>1, <1>2 DEF Managers, SamePause, SameWork
  <1>4. n = [m EXCEPT !.edge.decided = TRUE]
    BY <1>1 DEF e, Managers
  <1> HIDE DEF n
  <1>5. m.generation \in Nat /\ m.intent \in Nat
    BY <1>1 DEF Managers
  <1>6. ManagerOK(n)
    BY <1>2, <1>3 DEF ManagerOK, SamePause, SameWork, Latched
  <1>7. Steady(m, n) /\ n.run = m.run
    BY <1>2, <1>3, <1>5, <1>6 DEF Steady, Monotone, SameHold, SamePause, SameWork
  <1> QED
    BY <1>4, <1>7

(* The decision is kept only for the hold and the generation it was made   *)
(* for.                                                                    *)
LEMMA PlanEdgeReturnStep ==
  ASSUME IInv, NEW k \in Runs, PlanEdgeReturn(k)
  PROVE  IInv'
  <1>1. /\ at[k].pc = "edgePlan" /\ at' = Wait(k) /\ engine' = engine /\ halted' = halted
        /\ lifecycleMu' = lifecycleMu /\ userControlMu' = userControlMu /\ calls' = calls /\ fenced' = fenced
    BY DEF PlanEdgeReturn, locks
  <1>2. /\ StateOK /\ ManagerOK(manager) /\ k \in Goroutines /\ LoopShape(at[k])
    BY LoopShapes
  <1>3. at[k].call = "loop" /\ at[k].id > 0 /\ ~InControl(at[k])
    BY <1>1, <1>2 DEF LoopShape, InControl
  <1> DEFINE m == FinishOperation(manager, k)
  <1>4. Steady(manager, m) /\ ManagerOK(m) /\ m.run = manager.run /\ m.edge = manager.edge /\ m.stopped = manager.stopped
    BY <1>2, FinishOperationSteady DEF SameState
  <1>5. PICK planned \in BOOLEAN :
          manager' = IF HoldID # at[k].id \/ m.generation # at[k].gen \/ ~Live(k) \/ ~m.edge.automatic THEN m
                     ELSE IF planned THEN [m EXCEPT !.edge.decided = TRUE] ELSE SuspendEdge(m)
    BY DEF PlanEdgeReturn
  <1> HIDE DEF m
  <1>6. Steady(manager, manager') /\ manager'.run = manager.run
    <2>1. CASE manager' = m
      BY <1>4, <2>1
    <2>2. CASE manager' = SuspendEdge(m)
      <3>1. Section(m, SuspendEdge(m)) /\ SuspendEdge(m).run = m.run
        BY <1>4, SuspendEdgeSection
      <3>2. Steady(m, manager')
        BY <2>2, <3>1, SectionSteady
      <3> QED
        BY <1>2, <1>4, <2>2, <3>1, <3>2, SteadyTrans
    <2>3. CASE HoldID = at[k].id /\ Live(k) /\ manager' = [m EXCEPT !.edge.decided = TRUE]
      <3>1. m.edge # None
        BY <1>3, <1>4, <2>3 DEF HoldID
      <3>2. InForce(k, at[k].gen)
        BY <1>1, <2>3 DEF IInv, WorkInv, Working, Live
      <3>3. ~m.stopped
        BY <1>4, <3>2 DEF InForce
      <3>4. Steady(m, manager') /\ manager'.run = m.run
        BY <1>4, <2>3, <3>1, <3>3, DecidedSteady
      <3> QED
        BY <1>2, <1>4, <3>4, SteadyTrans
    <2> QED
      BY <1>5, <2>1, <2>2, <2>3
  <1>7. Admits({}) /\ {} \in SUBSET (Users \cup Runs)
    BY <1>1, <1>2, SameEngine
  <1>8. ManagerOK(manager') /\ Monotone(manager, manager') /\ HoldInv'
    BY <1>6, <1>7, SteadyHold
  <1> QED
    BY <1>1, <1>3, <1>6, <1>8, LoopRests

(* A loop's return is admitted like a user's, and needs the control lock   *)
(* at once.                                                                *)
LEMMA EdgeReturnStep ==
  ASSUME IInv, NEW k \in Runs, EdgeReturn(k)
  PROVE  IInv'
  <1>1. /\ at[k].pc = "edgeReturn" /\ engine' = engine /\ halted' = halted
        /\ lifecycleMu' = lifecycleMu /\ calls' = calls /\ fenced' = fenced
    BY DEF EdgeReturn
  <1>2. /\ StateOK /\ ManagerOK(manager) /\ Placed(k) /\ k \in Goroutines /\ LoopShape(at[k]) /\ at[k].ok = "none"
        /\ at[k].gen \in Nat
    BY <1>1, LoopShapes
  <1>3. at[k].call = "loop" /\ at[k].id > 0 /\ ~InControl(at[k])
    BY <1>1, <1>2 DEF LoopShape, InControl
  <1>4. Admits({}) /\ {} \in SUBSET {k} /\ {} \in SUBSET (Users \cup Runs)
    BY <1>1, <1>2, SameEngine
  <1>5. CASE userControlMu = None /\ ReturnAdmitted(k, TRUE) /\ ReturnBegin(k, "autopilot")
    <2>1. HoldID = at[k].id /\ at[k].id # 0 /\ manager.edge.applied /\ manager.generation = at[k].gen /\ ~manager.paused
      BY <1>5 DEF ReturnAdmitted
    <2>2. "autopilot" \in Sources
      BY DEF Sources, AllModes
    <2>3. /\ Moved({k}) /\ at'[k].call = "return" /\ at'[k].pc = "target" /\ at'[k].gen = manager.generation + 1
          /\ at'[k].id = at[k].id /\ at'[k].ok = at[k].ok
          /\ Sees(k)' /\ manager' = TakeReturn(manager, k) /\ userControlMu' = k
      BY <1>1, <1>5, <2>1, <2>2, ReturnBeginEffect
    <2>4. /\ Steady(manager, manager') /\ manager'.generation = manager.generation + 1 /\ manager'.run = manager.run
          /\ manager'.cancelled = manager.cancelled /\ manager'.operation = k
          /\ manager'.stopped = manager.stopped /\ manager'.pending = manager.pending /\ manager'.paused = manager.paused
      BY <1>2, <2>3, TakeReturnSection
    <2>5. ManagerOK(manager') /\ Monotone(manager, manager') /\ HoldInv'
      BY <1>4, <2>4, SteadyHold
    <2>6. ~manager.stopped /\ ~manager.pending
      BY <1>1, <2>1 DEF IInv, WorkInv
    <2>7. k \in manager.cancelled \/ manager.run = k
      <3>1. k \in LiveLoops
        BY <1>1 DEF LiveLoops
      <3> QED
        BY <3>1 DEF IInv, LoopInv
    <2>8. WorkOK(k)'
      BY <2>1, <2>3, <2>4, <2>6, <2>7 DEF WorkOK, InForce, Current
    <2>9. LoopShape(at'[k]) /\ InControl(at'[k]) /\ Passed(userControlMu, userControlMu', {k})
      BY <1>3, <1>5, <2>3 DEF LoopShape, InControl, Passed
    <2>10. manager'.generation \in Nat
      BY <2>5, GenerationType
    <2> QED
      BY <1>1, <1>2, <1>4, <2>3, <2>4, <2>5, <2>8, <2>9, <2>10, LoopSection
  <1>6. CASE at' = Wait(k) /\ manager' = manager /\ userControlMu' = userControlMu
    <2>1. ManagerOK(manager') /\ Monotone(manager, manager') /\ HoldInv' /\ manager'.run = manager.run
      BY <1>4, <1>6, LoopIntact
    <2> QED
      BY <1>1, <1>3, <1>6, <2>1, LoopRests
  <1> QED
    BY <1>5, <1>6 DEF EdgeReturn

(* A loop's return ends the hold it was for, and no other.                 *)
LEMMA ReturnFinishLoopStep ==
  ASSUME IInv, NEW k \in Runs, ReturnFinish(k)
  PROVE  IInv'
  <1>1. /\ at[k].pc = "answered" /\ at[k].call = "return" /\ userControlMu' = None
        /\ engine' = engine /\ halted' = halted /\ lifecycleMu' = lifecycleMu /\ calls' = calls
    BY DEF ReturnFinish
  <1>2. /\ StateOK /\ ManagerOK(manager) /\ k \in Goroutines /\ k \notin Users /\ LoopShape(at[k])
    BY LoopShapes, Kinds
  <1>3. at' = Wait(k) /\ fenced' = fenced
    BY <1>2 DEF ReturnFinish
  <1>4. InControl(at[k]) /\ at[k].id > 0
    BY <1>1, <1>2 DEF LoopShape, InControl
  <1>5. PICK loops \in BOOLEAN : manager' = Returned(k, loops)
    BY DEF ReturnFinish
  <1>6. Steady(manager, manager') /\ manager'.run = manager.run
    BY <1>2, <1>4, <1>5, ReturnedSection
  <1>7. Admits({}) /\ {} \in SUBSET (Users \cup Runs)
    BY <1>1, <1>2, SameEngine
  <1>8. ManagerOK(manager') /\ Monotone(manager, manager') /\ HoldInv'
    BY <1>6, <1>7, SteadyHold
  <1> QED
    BY <1>1, <1>3, <1>4, <1>6, <1>8, LoopRests

(* The goroutine that a loop leaves behind to end it.                      *)
LEMMA SpawnEffect ==
  ASSUME StateOK, NEW k \in Runs, NEW pc \in PCs, NEW gen \in Nat, Spawn(k, pc, gen)
  PROVE  /\ Moved({k, Reaper(k)})
         /\ at'[k].pc = "wait" /\ at'[k].call = "loop" /\ at'[k].gen = 0 /\ at'[k].saw = Unseen /\ at'[k].ok = "none"
         /\ at'[Reaper(k)].pc = pc /\ at'[Reaper(k)].call = "reap" /\ at'[Reaper(k)].gen = gen
         /\ at'[Reaper(k)].ok = "none" /\ at'[Reaper(k)].loop = 0
  <1> DEFINE r == Reaper(k)
             w == [Idle EXCEPT !.pc = "wait", !.call = "loop", !.mode = at[k].mode]
             b == New("reap", pc)
             f == [b EXCEPT !.id = k, !.gen = gen]
  <1>1. at[k] \in Frames /\ k \in Goroutines /\ r \in Goroutines /\ r # k /\ k \in Nat
    BY Kinds DEF StateOK
  <1>2. /\ Idle \in Frames /\ Idle.id = 0 /\ Idle.gen = 0 /\ Idle.saw = Unseen /\ Idle.ok = "none" /\ Idle.loop = 0
    BY IdleType
  <1>3. b \in Frames /\ b.pc = pc /\ b.call = "reap" /\ b.ok = "none" /\ b.loop = 0
    <2>1. "reap" \in AllCalls \cup {"none", "loop", "reap"}
      OBVIOUS
    <2> QED
      BY <2>1, NewType, Zenon
  <1>4. at' = [at EXCEPT ![k] = w, ![r] = f]
    BY DEF Spawn, Wait
  <1> HIDE DEF b, r
  <1>5. /\ w \in Frames /\ w.pc = "wait" /\ w.call = "loop" /\ w.gen = 0 /\ w.saw = Unseen /\ w.ok = "none"
    BY <1>1, <1>2 DEF Frames, LoopPC
  <1>6. f \in Frames /\ f.pc = pc /\ f.call = "reap" /\ f.gen = gen /\ f.ok = "none" /\ f.loop = 0
    BY <1>1, <1>3 DEF Frames
  <1> HIDE DEF w, f
  <1>7. Moved({k, r}) /\ at'[k] = w /\ at'[r] = f
    BY <1>1, <1>4, <1>5, <1>6 DEF Moved, StateOK
  <1> QED
    BY <1>5, <1>6, <1>7 DEF r

(* A loop that ends its mode leaves that to a reaper and waits.            *)
LEMMA SpawnStep ==
  ASSUME IInv, NEW k \in Runs, at[k].pc \in {"decide", "answered"}, at[k].call = "loop", at[Reaper(k)].pc = "none",
         NEW pc \in {"stopLoop", "stopBound"}, NEW gen \in Nat, gen <= manager'.generation, Spawn(k, pc, gen),
         engine' = engine, halted' = halted, lifecycleMu' = lifecycleMu, userControlMu' = userControlMu,
         calls' = calls, fenced' = fenced,
         ManagerOK(manager'), Monotone(manager, manager'), HoldInv', manager'.run = manager.run
  PROVE  IInv'
  <1>20. PICK r \in Reapers : r = Reaper(k)
    BY Kinds
  <1>1. StateOK /\ Placed(k) /\ Placed(r) /\ k \in Goroutines /\ r \in Goroutines /\ k # None /\ r # None
        /\ k \notin Users /\ k \notin Reapers /\ r \notin Users /\ r \notin Runs /\ k \in LiveLoops
    BY Kinds DEF IInv, PlaceInv, LiveLoops
  <1>2. pc \in PCs
    BY DEF PCs, ReapPC
  <1>3. /\ Moved({k, r})
        /\ at'[k].pc = "wait" /\ at'[k].call = "loop" /\ at'[k].gen = 0 /\ at'[k].saw = Unseen /\ at'[k].ok = "none"
        /\ at'[r].pc = pc /\ at'[r].call = "reap" /\ at'[r].gen = gen
        /\ at'[r].ok = "none" /\ at'[r].loop = 0
    BY <1>20, <1>1, <1>2, SpawnEffect
  <1>4. ~InLifecycle(at[k]) /\ ~InControl(at[k]) /\ ~InTarget(at[k])
    BY DEF InLifecycle, InControl, InTarget
  <1>5. at[r].pc = "none" /\ at[r].call = "none"
    BY <1>20, <1>1 DEF Placed, ReapShape
  <1>6. ~InLifecycle(at[r]) /\ ~InControl(at[r]) /\ ~InTarget(at[r])
    BY <1>5 DEF InLifecycle, InControl, InTarget
  <1>7. /\ lifecycleMu # k /\ userControlMu # k /\ engine.targetMu # k
        /\ lifecycleMu # r /\ userControlMu # r /\ engine.targetMu # r
    BY <1>1, <1>4, <1>6 DEF Placed
  <1>8. LoopShape(at'[k]) /\ ~InLifecycle(at'[k]) /\ ~InControl(at'[k]) /\ ~InTarget(at'[k])
    BY <1>3 DEF LoopShape, LoopPC, InLifecycle, InControl, InTarget
  <1>9. ReapShape(at'[r]) /\ ~InLifecycle(at'[r]) /\ ~InControl(at'[r]) /\ ~InTarget(at'[r])
    BY <1>3 DEF ReapShape, ReapPC, InLifecycle, InControl, InTarget
  <1>10. Placed(k)'
    BY <1>1, <1>3, <1>7, <1>8, GenerationType DEF Placed
  <1>11. Placed(r)'
    BY <1>1, <1>3, <1>7, <1>9 DEF Placed
  <1>12. Enters(k)' /\ Enters(r)'
    BY <1>3 DEF Enters
  <1>13. Sees(k)'
    BY <1>1, <1>3, SeesNothing
  <1>14. Admits({}) /\ {} \in SUBSET {k}
    BY <1>1, SameEngine
  <1>15. fenced' \in SUBSET Users /\ calls' \in Nat /\ lifecycleMu' \in Users \cup Reapers \cup {None}
         /\ userControlMu' \in Users \cup Runs \cup {None}
    BY <1>1 DEF StateOK
  <1>16. WorkOK(k)'
    BY <1>3 DEF WorkOK, Working
  <1> DEFINE R == {r}
  <1>17. R \in SUBSET Reapers /\ {k} \cup R = {k, r} /\ lifecycleMu \notin R
    BY <1>7
  <1>18. Elsewhere({k, r}, {})
    BY <1>1, <1>3, <1>5, <1>10, <1>11, <1>12, <1>13, <1>14, <1>15 DEF Elsewhere, Passed
  <1>19. Elsewhere({k} \cup R, {})
    BY <1>17, <1>18
  <1> HIDE DEF R
  <1> QED
    BY <1>1, <1>3, <1>14, <1>16, <1>17, <1>19, LoopSectionStep

(* A loop that begins to work does so for the generation it reads.         *)
LEMMA WorkEffect ==
  ASSUME IInv, NEW k \in Runs, NEW pc \in PCs, Work(k, pc)
  PROVE  /\ Moved({k}) /\ at'[k].pc = pc /\ at'[k].call = at[k].call /\ at'[k].gen = manager.generation
         /\ at'[k].saw.plan = 0 /\ at'[k].ok = at[k].ok
  <1> DEFINE x == at[k].saw.state
             s == [Unseen EXCEPT !.state = x]
             g == manager.generation
             f == [at[k] EXCEPT !.pc = pc, !.gen = g, !.saw = s]
  <1>1. StateOK /\ at[k] \in Frames /\ k \in Goroutines /\ at[k].saw \in Snapshots /\ g \in Nat
    BY LoopShapes, GenerationType
  <1>2. at' = [at EXCEPT ![k].pc = pc, ![k].gen = g, ![k].saw = s]
    BY DEF Work
  <1>3. x \in EngineStates /\ Unseen \in Snapshots /\ Unseen.plan = 0
    BY <1>1, IdleType DEF Snapshots, Unseen
  <1> HIDE DEF x, g, Unseen
  <1>4. s \in Snapshots /\ s.plan = 0
    BY <1>3 DEF Snapshots
  <1> HIDE DEF s
  <1>5. f \in Frames /\ f.pc = pc /\ f.call = at[k].call /\ f.gen = g /\ f.saw = s /\ f.ok = at[k].ok
    BY <1>1, <1>4 DEF Frames, PCs
  <1>6. at' = [at EXCEPT ![k] = f]
    BY <1>1, <1>2 DEF StateOK
  <1> HIDE DEF f
  <1>7. Moved({k}) /\ at'[k] = f
    BY <1>1, <1>5, <1>6, OpenEffect
  <1> QED
    BY <1>4, <1>5, <1>7 DEF g

(* Taking the planned choice disturbs nothing.                             *)
LEMMA ForgetPlanSection ==
  ASSUME NEW m, ManagerOK(m)
  PROVE  LET n == [m EXCEPT !.planned = None]
         IN Section(m, n) /\ SamePause(m, n) /\ SameWork(m, n) /\ SameState(m, n)
  <1> DEFINE n == [m EXCEPT !.planned = None]
  <1>1. m \in Managers
    BY DEF ManagerOK
  <1>2. n \in Managers /\ SamePause(m, n) /\ SameWork(m, n) /\ SameState(m, n)
    BY <1>1 DEF Managers, SamePause, SameWork, SameState
  <1> HIDE DEF n
  <1>3. Section(m, n)
    BY <1>2, SameSection
  <1> QED
    BY <1>2, <1>3 DEF n

(* The choice that was planned is taken up with the operation.             *)
LEMMA BeginsOperation ==
  ASSUME NEW m, ManagerOK(m), NEW t \in Goroutines, NEW n,
         n = BeginOperation(m, t) \/ n = [BeginOperation(m, t) EXCEPT !.planned = None]
  PROVE  /\ Steady(m, n) /\ SameState(m, n) /\ SamePause(m, n)
         /\ n.run = m.run /\ n.generation = m.generation /\ n.operation = t
  <1> DEFINE o == BeginOperation(m, t)
             p == [o EXCEPT !.planned = None]
  <1>1. /\ Steady(m, o) /\ ManagerOK(o) /\ SameState(m, o) /\ SamePause(m, o)
        /\ o.run = m.run /\ o.generation = m.generation /\ o.operation = t
    BY BeginOperationSteady
  <1>2. n = o \/ n = p
    OBVIOUS
  <1> HIDE DEF o
  <1>4. Section(o, p) /\ SamePause(o, p) /\ SameWork(o, p) /\ SameState(o, p)
    BY <1>1, ForgetPlanSection
  <1> HIDE DEF p
  <1>5. Steady(m, p)
    BY <1>1, <1>4, SectionSteady, SteadyTrans
  <1>6. p.run = m.run /\ p.generation = m.generation /\ p.operation = t /\ SameState(m, p) /\ SamePause(m, p)
    BY <1>1, <1>4 DEF SamePause, SameWork, SameState
  <1> QED
    BY <1>1, <1>2, <1>5, <1>6

(* A loop whose operation is admitted works in the current generation.     *)
LEMMA BeginsWork ==
  ASSUME IInv, NEW k \in Runs, at[k].pc = "decide", NEW mode, NEW hold, OperationAdmitted(manager, k, mode, hold),
         \/ manager' = BeginOperation(manager, k)
         \/ manager' = [BeginOperation(manager, k) EXCEPT !.planned = None],
         NEW pc \in {"ensure", "choice", "plan", "texture", "target"}, Work(k, pc),
         engine' = engine, halted' = halted, lifecycleMu' = lifecycleMu, userControlMu' = userControlMu,
         calls' = calls, fenced' = fenced
  PROVE  IInv'
  <1>1. /\ StateOK /\ ManagerOK(manager) /\ k \in Goroutines /\ LoopShape(at[k]) /\ at[k].ok = "none"
    BY LoopShapes
  <1>2. at[k].call = "loop" /\ pc \in PCs
    BY <1>1 DEF LoopShape, PCs, LoopPC
  <1>3. /\ Moved({k}) /\ at'[k].pc = pc /\ at'[k].call = "loop" /\ at'[k].gen = manager.generation
        /\ at'[k].saw.plan = 0 /\ at'[k].ok = "none"
    BY <1>1, <1>2, WorkEffect
  <1>5. /\ Steady(manager, manager') /\ SameState(manager, manager') /\ SamePause(manager, manager')
        /\ manager'.run = manager.run /\ manager'.generation = manager.generation /\ manager'.operation = k
    BY <1>1, BeginsOperation
  <1>6. Admits({}) /\ {} \in SUBSET {k} /\ {} \in SUBSET (Users \cup Runs)
    BY <1>1, SameEngine
  <1>7. ManagerOK(manager') /\ Monotone(manager, manager') /\ HoldInv'
    BY <1>5, <1>6, SteadyHold
  <1>8. WorkOK(k)'
    BY <1>3, <1>5 DEF OperationAdmitted, WorkOK, InForce, Current, SameState, SamePause
  <1>9. at'[k].gen \in Nat /\ at'[k].gen <= manager'.generation /\ at'[k].saw.plan <= engine.plan
    BY <1>1, <1>3, <1>5, GenerationType DEF StateOK, Engines
  <1> QED
    BY <1>2, <1>3, <1>5, <1>6, <1>7, <1>8, <1>9, LoopGoes

(* On an idle engine a loop ends its mode, or begins an operation to start *)
(* a segment.                                                              *)
LEMMA DecideIdleStep ==
  ASSUME IInv, NEW k \in Runs, DecideIdle(k)
  PROVE  IInv'
  <1>1. /\ at[k].pc = "decide" /\ engine' = engine /\ halted' = halted
        /\ lifecycleMu' = lifecycleMu /\ userControlMu' = userControlMu /\ calls' = calls /\ fenced' = fenced
    BY DEF DecideIdle, locks
  <1>2. /\ StateOK /\ ManagerOK(manager) /\ LoopShape(at[k])
    BY LoopShapes
  <1>3. at[k].call = "loop"
    BY <1>1, <1>2 DEF LoopShape
  <1>4. Admits({}) /\ {} \in SUBSET (Users \cup Runs)
    BY <1>1, <1>2, SameEngine
  <1>5. ASSUME at[Reaper(k)].pc = "none", NEW pc \in {"stopLoop", "stopBound"}, NEW gen \in Nat,
               gen <= manager.generation, Spawn(k, pc, gen), manager' = manager
        PROVE  IInv'
    <2>1. ManagerOK(manager') /\ Monotone(manager, manager') /\ HoldInv' /\ manager'.run = manager.run
      BY <1>4, <1>5, LoopIntact
    <2> QED
      BY <1>1, <1>3, <1>5, <2>1, SpawnStep
  <1>6. manager.generation \in Nat /\ 0 <= manager.generation /\ 0 \in Nat /\ manager.generation <= manager.generation
    BY <1>2, GenerationType
  <1>7. CASE at[Reaper(k)].pc = "none" /\ Spawn(k, "stopLoop", 0) /\ manager' = manager
    BY <1>5, <1>6, <1>7
  <1>8. CASE at[Reaper(k)].pc = "none" /\ Spawn(k, "stopBound", manager.generation) /\ manager' = manager
    BY <1>5, <1>6, <1>8
  <1>9. CASE /\ OperationAdmitted(manager, k, at[k].mode, FALSE) /\ manager' = BeginOperation(manager, k)
             /\ Work(k, "ensure")
    BY <1>1, <1>9, BeginsWork
  <1> QED
    BY <1>7, <1>8, <1>9 DEF DecideIdle

(* On a running engine a loop begins an operation for the motion it will   *)
(* change.                                                                 *)
LEMMA DecideRunningStep ==
  ASSUME IInv, NEW k \in Runs, DecideRunning(k)
  PROVE  IInv'
  <1>1. /\ at[k].pc = "decide" /\ engine' = engine /\ halted' = halted
        /\ lifecycleMu' = lifecycleMu /\ userControlMu' = userControlMu /\ calls' = calls /\ fenced' = fenced
        /\ OperationAdmitted(manager, k, at[k].mode, FALSE)
    BY DEF DecideRunning, locks
  <1>2. PICK pc \in {"choice", "plan", "texture", "target"} :
          /\ Work(k, pc)
          /\ \/ manager' = BeginOperation(manager, k)
             \/ manager' = [BeginOperation(manager, k) EXCEPT !.planned = None]
    BY DEF DecideRunning
  <1> QED
    BY <1>1, <1>2, BeginsWork

(* A tick with nothing due is over.                                        *)
LEMMA DecideNothingStep ==
  ASSUME IInv, NEW k \in Runs, DecideNothing(k)
  PROVE  IInv'
  <1>1. /\ at[k].pc = "decide" /\ at' = Wait(k) /\ manager' = manager /\ engine' = engine /\ halted' = halted
        /\ lifecycleMu' = lifecycleMu /\ userControlMu' = userControlMu /\ calls' = calls /\ fenced' = fenced
    BY DEF DecideNothing, locks
  <1>2. /\ StateOK /\ LoopShape(at[k])
    BY LoopShapes
  <1>3. ~InControl(at[k])
    BY <1>1, <1>2 DEF LoopShape, InControl
  <1>4. Admits({}) /\ {} \in SUBSET (Users \cup Runs)
    BY <1>1, <1>2, SameEngine
  <1>5. ManagerOK(manager') /\ Monotone(manager, manager') /\ HoldInv' /\ manager'.run = manager.run
    BY <1>1, <1>4, LoopIntact
  <1> QED
    BY <1>1, <1>3, <1>5, LoopRests

(* Keeping a choice for its deadline disturbs nothing.                     *)
LEMMA KeepPlanSection ==
  ASSUME NEW m, ManagerOK(m), NEW x \in Nat
  PROVE  LET n == [m EXCEPT !.planned = x]
         IN Section(m, n) /\ ManagerOK(n) /\ n.run = m.run
  <1> DEFINE n == [m EXCEPT !.planned = x]
  <1>1. m \in Managers
    BY DEF ManagerOK
  <1>2. n \in Managers /\ SamePause(m, n) /\ SameWork(m, n) /\ SameState(m, n)
    BY <1>1 DEF Managers, SamePause, SameWork, SameState
  <1> HIDE DEF n
  <1>3. Section(m, n)
    BY <1>2, SameSection
  <1> QED
    BY <1>2, <1>3 DEF n, SameWork, Section, Orderly

(* An unsafe start cancels the loop's context.                             *)
LEMMA CancelLoopSteady ==
  ASSUME NEW m, ManagerOK(m), NEW k \in Runs
  PROVE  LET n == [m EXCEPT !.cancelled = @ \cup {k}]
         IN Steady(m, n) /\ ManagerOK(n) /\ n.run = m.run
  <1> DEFINE n == [m EXCEPT !.cancelled = @ \cup {k}]
  <1>1. m \in Managers
    BY DEF ManagerOK
  <1>2. /\ n \in Managers /\ SamePause(m, n) /\ SameState(m, n) /\ n.run = m.run /\ n.generation = m.generation
        /\ n.cancelled = m.cancelled \cup {k}
    BY <1>1 DEF Managers, SamePause, SameState
  <1> HIDE DEF n
  <1>3. m.generation \in Nat /\ m.intent \in Nat
    BY <1>1 DEF Managers
  <1>4. ManagerOK(n)
    BY <1>2 DEF ManagerOK, SamePause, SameState, Latched
  <1>5. Steady(m, n)
    BY <1>2, <1>3, <1>4 DEF Steady, Monotone, SameHold, SamePause, SameState
  <1> QED
    BY <1>2, <1>4, <1>5 DEF n

(* A tick that is over ends its operation.                                 *)
LEMMA TickEnds ==
  ASSUME IInv, NEW k \in Runs, at[k].pc \notin {"none", "exited", "lead", "commit"}, at[k].call = "loop", at' = Wait(k),
         NEW m, Steady(manager, m), m.run = manager.run, manager' = FinishOperation(m, k),
         engine' = engine, halted' = halted, lifecycleMu' = lifecycleMu, userControlMu' = userControlMu,
         calls' = calls, fenced' = fenced
  PROVE  IInv'
  <1>1. /\ StateOK /\ ManagerOK(manager) /\ k \in Goroutines /\ ~InControl(at[k])
    BY LoopShapes
  <1>2. Steady(m, manager') /\ manager'.run = m.run
    BY <1>1, FinishOperationSteady DEF Steady
  <1>3. Steady(manager, manager') /\ manager'.run = manager.run
    BY <1>1, <1>2, SteadyTrans
  <1>4. Admits({}) /\ {} \in SUBSET (Users \cup Runs)
    BY <1>1, SameEngine
  <1>5. ManagerOK(manager') /\ Monotone(manager, manager') /\ HoldInv'
    BY <1>3, <1>4, SteadyHold
  <1> QED
    BY <1>1, <1>3, <1>5, LoopRests

(* Doing nothing is steady.                                                *)
LEMMA StaysSteady ==
  ASSUME IInv
  PROVE  Steady(manager, manager) /\ ManagerOK(manager)
  BY SectionStays, SectionSteady DEF IInv, StateOK

(* A loop that goes on with the work it has begun.                         *)
LEMMA WorksOn ==
  ASSUME IInv, NEW k \in Runs, at[k].pc \in Working, at[k].pc \notin {"lead", "commit"}, at[k].call = "loop",
         at[k].ok = "none", Moved({k}), at'[k].pc \in {"choice", "begin", "target"},
         at'[k].call = "loop", at'[k].gen = at[k].gen, at'[k].saw = at[k].saw, at'[k].ok = "none",
         NEW A \in SUBSET {k}, Admits(A), manager' = manager, halted' = halted, lifecycleMu' = lifecycleMu,
         userControlMu' = userControlMu, calls' = calls, fenced' = fenced
  PROVE  IInv'
  <1>1. /\ StateOK /\ ManagerOK(manager) /\ Sees(k) /\ at[k].gen \in Nat /\ at[k].gen <= manager.generation
    BY LoopShapes
  <1>2. ManagerOK(manager') /\ Monotone(manager, manager') /\ HoldInv' /\ manager'.run = manager.run
    <2>1. A \in SUBSET (Users \cup Runs)
      OBVIOUS
    <2> QED
      BY <2>1, LoopIntact
  <1>3. WorkOK(k)'
    BY WorkGoesOn
  <1>4. at'[k].saw.plan <= engine.plan /\ at[k].pc \notin {"none", "exited"}
    BY <1>1 DEF Sees, Working
  <1> QED
    BY <1>1, <1>2, <1>3, <1>4, LoopGoes

(* A start is admitted before the model is asked what to start with.       *)
LEMMA EnsureStep ==
  ASSUME IInv, NEW k \in Runs, Ensure(k)
  PROVE  IInv'
  <1>1. /\ at[k].pc = "ensure" /\ halted' = halted /\ lifecycleMu' = lifecycleMu
        /\ userControlMu' = userControlMu /\ calls' = calls /\ fenced' = fenced
    BY DEF Ensure, locks
  <1>2. /\ StateOK /\ k \in Goroutines /\ LoopShape(at[k]) /\ at[k].ok = "none"
    BY <1>1, LoopShapes
  <1>3. at[k].call = "loop" /\ at[k].pc \in Working
    BY <1>1, <1>2 DEF LoopShape, Working
  <1>4. CASE engine' = [engine EXCEPT !.admitted = @ \cup {k}] /\ Go(k, "begin") /\ manager' = manager
    <2>1. Admits({k}) /\ {k} \in SUBSET {k}
      BY <1>4 DEF Admits
    <2>2. /\ Moved({k}) /\ at'[k].pc = "begin" /\ at'[k].call = at[k].call /\ at'[k].gen = at[k].gen
          /\ at'[k].saw = at[k].saw /\ at'[k].ok = at[k].ok
      BY <1>2, <1>4, GoEffect DEF PCs, LoopPC, SameCall
    <2> QED
      BY <1>1, <1>2, <1>3, <1>4, <2>1, <2>2, WorksOn
  <1>5. CASE EndTick(k) /\ engine' = engine
    BY <1>1, <1>3, <1>5, StaysSteady, TickEnds DEF EndTick
  <1> QED
    BY <1>4, <1>5 DEF Ensure

(* A plan that is stale when the model answers ends the tick.              *)
LEMMA PlanStep ==
  ASSUME IInv, NEW k \in Runs, Plan(k)
  PROVE  IInv'
  <1>1. /\ at[k].pc = "plan" /\ engine' = engine /\ halted' = halted /\ lifecycleMu' = lifecycleMu
        /\ userControlMu' = userControlMu /\ calls' = calls /\ fenced' = fenced
    BY DEF Plan, locks
  <1>2. /\ StateOK /\ ManagerOK(manager) /\ k \in Goroutines /\ LoopShape(at[k]) /\ at[k].ok = "none" /\ at[k].gen \in Nat
    BY <1>1, LoopShapes
  <1>3. at[k].call = "loop" /\ at[k].pc \in Working /\ ~InControl(at[k])
    BY <1>1, <1>2 DEF LoopShape, Working, InControl
  <1>4. Admits({}) /\ {} \in SUBSET {k} /\ {} \in SUBSET (Users \cup Runs)
    BY <1>1, <1>2, SameEngine
  <1>5. CASE Go(k, "choice") /\ manager' = manager
    <2>1. /\ Moved({k}) /\ at'[k].pc = "choice" /\ at'[k].call = at[k].call /\ at'[k].gen = at[k].gen
          /\ at'[k].saw = at[k].saw /\ at'[k].ok = at[k].ok
      BY <1>2, <1>5, GoEffect DEF PCs, LoopPC, SameCall
    <2> QED
      BY <1>1, <1>2, <1>3, <1>4, <1>5, <2>1, WorksOn
  <1>6. CASE manager' = [FinishOperation(manager, k) EXCEPT !.planned = at[k].gen] /\ at' = Wait(k)
    <2> DEFINE m == FinishOperation(manager, k)
               g == at[k].gen
    <2>1. Steady(manager, m) /\ ManagerOK(m) /\ m.run = manager.run
      BY <1>2, FinishOperationSteady
    <2>2. g \in Nat
      BY <1>2
    <2>3. manager' = [m EXCEPT !.planned = g]
      BY <1>6
    <2> HIDE DEF m, g
    <2>4. Section(m, [m EXCEPT !.planned = g]) /\ [m EXCEPT !.planned = g].run = m.run
      BY <2>1, <2>2, KeepPlanSection
    <2>5. Steady(m, manager') /\ manager'.run = manager.run
      BY <2>1, <2>3, <2>4, SectionSteady
    <2>6. Steady(manager, manager')
      BY <1>2, <2>1, <2>5, SteadyTrans
    <2>7. ManagerOK(manager') /\ Monotone(manager, manager') /\ HoldInv'
      BY <1>4, <2>6, SteadyHold
    <2> QED
      BY <1>1, <1>3, <1>6, <2>5, <2>7, LoopRests
  <1>7. CASE EndTick(k)
    BY <1>1, <1>3, <1>7, StaysSteady, TickEnds DEF EndTick
  <1> QED
    BY <1>5, <1>6, <1>7 DEF Plan

(* Arming the next choice disturbs nothing, whether it is current or not.  *)
LEMMA ArmChoiceSteady ==
  ASSUME IInv, NEW k, NEW gen
  PROVE  Steady(manager, ArmChoice(manager, k, gen)) /\ ArmChoice(manager, k, gen).run = manager.run
  BY StaysSteady, ArmChoiceSection, SectionSteady

(* A choice goes to the engine, or only starts the clocks over.            *)
LEMMA ApplyChoiceStep ==
  ASSUME IInv, NEW k \in Runs, ApplyChoice(k)
  PROVE  IInv'
  <1>1. /\ at[k].pc = "choice" /\ engine' = engine /\ halted' = halted /\ lifecycleMu' = lifecycleMu
        /\ userControlMu' = userControlMu /\ calls' = calls /\ fenced' = fenced
    BY DEF ApplyChoice, locks
  <1>2. /\ StateOK /\ k \in Goroutines /\ LoopShape(at[k]) /\ at[k].ok = "none"
    BY <1>1, LoopShapes
  <1>3. at[k].call = "loop" /\ at[k].pc \in Working
    BY <1>1, <1>2 DEF LoopShape, Working
  <1>4. Admits({}) /\ {} \in SUBSET {k}
    BY <1>1, <1>2, SameEngine
  <1>5. CASE manager' = FinishOperation(ArmChoice(manager, k, at[k].gen), k) /\ at' = Wait(k)
    BY <1>1, <1>3, <1>5, ArmChoiceSteady, TickEnds
  <1>6. CASE Go(k, "target") /\ manager' = manager
    <2>1. /\ Moved({k}) /\ at'[k].pc = "target" /\ at'[k].call = at[k].call /\ at'[k].gen = at[k].gen
          /\ at'[k].saw = at[k].saw /\ at'[k].ok = at[k].ok
      BY <1>2, <1>6, GoEffect DEF PCs, LoopPC, SameCall
    <2> QED
      BY <1>1, <1>2, <1>3, <1>4, <1>6, <2>1, WorksOn
  <1> QED
    BY <1>5, <1>6 DEF ApplyChoice

(* A sway goes to the engine as an adjustment of what plays.               *)
LEMMA TextureStep ==
  ASSUME IInv, NEW k \in Runs, Texture(k)
  PROVE  IInv'
  <1>1. /\ at[k].pc = "texture" /\ engine' = engine /\ halted' = halted /\ lifecycleMu' = lifecycleMu
        /\ userControlMu' = userControlMu /\ calls' = calls /\ fenced' = fenced
    BY DEF Texture, locks
  <1>2. /\ StateOK /\ k \in Goroutines /\ LoopShape(at[k]) /\ at[k].ok = "none"
    BY <1>1, LoopShapes
  <1>3. at[k].call = "loop" /\ at[k].pc \in Working
    BY <1>1, <1>2 DEF LoopShape, Working
  <1>4. Admits({}) /\ {} \in SUBSET {k}
    BY <1>1, <1>2, SameEngine
  <1>5. CASE EndTick(k)
    BY <1>1, <1>3, <1>5, StaysSteady, TickEnds DEF EndTick
  <1>6. ASSUME NEW sway \in BOOLEAN, manager' = manager,
               at' = [at EXCEPT ![k].pc = "target", ![k].id = IF sway THEN k ELSE 0]
        PROVE  IInv'
    <2> DEFINE i == IF sway THEN k ELSE 0
    <2>1. i \in Nat /\ "target" \in PCs
      BY Kinds DEF PCs, LoopPC
    <2>2. at' = [at EXCEPT ![k].pc = "target", ![k].id = i]
      BY <1>6
    <2> HIDE DEF i
    <2>3. /\ Moved({k}) /\ at'[k].pc = "target" /\ at'[k].call = at[k].call /\ at'[k].gen = at[k].gen
          /\ at'[k].saw = at[k].saw /\ at'[k].ok = at[k].ok
      BY <1>2, <2>1, <2>2, MoveId
    <2> QED
      BY <1>1, <1>2, <1>3, <1>4, <1>6, <2>3, WorksOn
  <1> QED
    BY <1>5, <1>6 DEF Texture

(* A target that was applied arms the next choice and ends the tick.       *)
LEMMA AppliedStep ==
  ASSUME IInv, NEW k \in Runs, Applied(k)
  PROVE  IInv'
  <1>1. /\ at[k].pc = "answered" /\ at[k].call = "loop" /\ at' = Wait(k)
        /\ engine' = engine /\ halted' = halted /\ lifecycleMu' = lifecycleMu
        /\ userControlMu' = userControlMu /\ calls' = calls /\ fenced' = fenced
    BY DEF Applied, locks
  <1>2. \/ manager' = FinishOperation(manager, k)
        \/ manager' = FinishOperation(ArmChoice(manager, k, at[k].gen), k)
    BY DEF Applied
  <1>3. CASE manager' = FinishOperation(manager, k)
    BY <1>1, <1>3, StaysSteady, TickEnds
  <1>4. CASE manager' = FinishOperation(ArmChoice(manager, k, at[k].gen), k)
    BY <1>1, <1>4, ArmChoiceSteady, TickEnds
  <1> QED
    BY <1>2, <1>3, <1>4

(* An unsafe start ends its mode, if it is still the current one.          *)
LEMMA FailedStep ==
  ASSUME IInv, NEW k \in Runs, Failed(k)
  PROVE  IInv'
  <1>1. /\ at[k].pc = "answered" /\ at[k].call = "loop"
        /\ engine' = engine /\ halted' = halted /\ lifecycleMu' = lifecycleMu
        /\ userControlMu' = userControlMu /\ calls' = calls /\ fenced' = fenced
    BY DEF Failed, locks
  <1>2. /\ StateOK /\ ManagerOK(manager) /\ k \in Goroutines /\ at[k].gen \in Nat /\ at[k].gen <= manager.generation
    BY LoopShapes
  <1>3. CASE EndTick(k)
    BY <1>1, <1>3, StaysSteady, TickEnds DEF EndTick
  <1>4. CASE /\ at[Reaper(k)].pc = "none"
             /\ manager' = FinishOperation([manager EXCEPT !.cancelled = @ \cup {k}], k)
             /\ Spawn(k, "stopBound", at[k].gen)
    <2> DEFINE c == [manager EXCEPT !.cancelled = @ \cup {k}]
    <2>1. Steady(manager, c) /\ ManagerOK(c) /\ c.run = manager.run
      BY <1>2, CancelLoopSteady
    <2> HIDE DEF c
    <2>2. Steady(c, manager') /\ manager'.run = c.run
      BY <1>2, <1>4, <2>1, FinishOperationSteady DEF c
    <2>3. Steady(manager, manager')
      BY <1>2, <2>1, <2>2, SteadyTrans
    <2>4. Admits({}) /\ {} \in SUBSET (Users \cup Runs)
      BY <1>1, <1>2, SameEngine
    <2>5. ManagerOK(manager') /\ Monotone(manager, manager') /\ HoldInv'
      BY <2>3, <2>4, SteadyHold
    <2>6. at[k].gen <= manager'.generation
      BY <1>2, <2>5, GenerationType DEF Monotone
    <2> QED
      BY <1>1, <1>2, <1>4, <2>1, <2>2, <2>5, <2>6, SpawnStep
  <1> QED
    BY <1>3, <1>4 DEF Failed

-----------------------------------------------------------------------------
(* The engine. *)

(* A step of a call on the engine moves the caller and leaves the manager  *)
(* alone: its place, the loops and the loop's work are as they were.       *)
LEMMA EnginePlace ==
  ASSUME IInv, NEW t \in Users \cup Runs, Moved({t}), engine' \in Engines, manager' = manager,
         lifecycleMu' = lifecycleMu, userControlMu' = userControlMu, fenced' \in SUBSET Users, calls' = calls,
         halted' \in Nat, Passed(engine.targetMu, engine'.targetMu, {t}),
         t \in Users => UserShape(at[t])', t \in Runs => LoopShape(at'[t]),
         at'[t].pc # "answered" => at'[t].ok = "none",
         InLifecycle(at'[t]) <=> InLifecycle(at[t]), InControl(at'[t]) <=> InControl(at[t]),
         InTarget(at'[t]) <=> engine'.targetMu = t, at'[t].gen <= manager.generation,
         lifecycleMu = t => at'[t].loop = at[t].loop,
         at'[t].pc # "install",
         t \in Runs => at[t].pc \in Working /\ at'[t].pc \in Working /\ at'[t].gen = at[t].gen
  PROVE  StateOK' /\ PlaceInv' /\ LoopInv' /\ WorkInv'
  <1>1. Placed(t) /\ t \in Goroutines /\ t \notin Reapers /\ {t} \in SUBSET Goroutines /\ t # None
        /\ StateOK /\ PlaceInv /\ LoopInv /\ ManagerOK(manager)
    BY Kinds DEF IInv, PlaceInv, StateOK
  <1>2. Monotone(manager, manager') /\ ManagerOK(manager')
    BY <1>1, SectionStays DEF Section, Orderly
  <1>3. StateOK'
    BY <1>1, <1>2 DEF StateOK, Moved
  <1>4. Placed(t)'
    BY <1>1 DEF Placed
  <1>5. PlaceInv'
    <2>1. Passed(lifecycleMu, lifecycleMu', {t}) /\ Passed(userControlMu, userControlMu', {t})
      BY DEF Passed
    <2> QED
      BY <1>1, <1>2, <1>4, <2>1, PlaceFrame
  <1>6. LoopInv'
    <2> DEFINE S == {t}
    <2>1. /\ S \in SUBSET Goroutines /\ Moved(S)
          /\ lifecycleMu \in S => at'[lifecycleMu].loop = at[lifecycleMu].loop
          /\ \A v \in S \cap Runs : at[v].pc \notin {"none", "exited"} /\ at'[v].pc # "none"
          /\ \A v \in S \cap Users : at'[v].pc # "install"
          /\ manager'.run = manager.run /\ manager.cancelled \subseteq manager'.cancelled
      BY <1>1 DEF Working
    <2> HIDE DEF S
    <2> QED
      BY <1>1, <2>1, LoopFrame
  <1>7. WorkInv'
    <2> SUFFICES ASSUME NEW k \in Runs PROVE WorkOK(k)'
      BY DEF WorkInv, WorkOK
    <2>1. CASE k = t
      <3>1. at'[k].pc # "edgeReturn"
        BY <2>1 DEF Working
      <3> QED
        BY <2>1, <3>1, WorkGoesOn
    <2>2. CASE k # t
      <3>1. at'[k] = at[k] /\ WorkOK(k)
        BY <2>2, Kinds DEF Moved, IInv, WorkInv, WorkOK
      <3>2. manager' = manager /\ (HoldID' = HoldID)
        BY DEF HoldID
      <3>3. InForce(k, at[k].gen)' <=> InForce(k, at[k].gen)
        BY <3>1 DEF InForce, Current
      <3> QED
        BY <3>1, <3>2, <3>3 DEF WorkOK
    <2> QED
      BY <2>1, <2>2
  <1> QED
    BY <1>3, <1>5, <1>6, <1>7

(* The motion stays, and nobody but the one who moves gets nearer to it.   *)
LEMMA EngineKeeps ==
  ASSUME IInv, NEW S \in SUBSET (Users \cup Runs), Moved(S), manager' = manager, halted' = halted,
         engine'.plan = engine.plan, engine'.source = engine.source, engine'.gen = engine.gen,
         Running(engine') => Running(engine),
         engine'.bound \subseteq engine.bound \cup S, engine'.admitted \subseteq engine.admitted \cup S,
         \A t \in S : at'[t].pc # "halting" /\ Arrives(t)' /\ Sees(t)'
  PROVE  ArrivalInv' /\ PlanInv'
  <1>1. HoldInv'
    BY DEF IInv, PlanInv, HoldInv
  <1>2. ASSUME NEW v \in Users \cup Runs PROVE Arrives(v)' /\ Sees(v)'
    <2>1. CASE v \in S
      BY <2>1
    <2>2. CASE v \notin S
      <3>1. at'[v] = at[v] /\ Arrives(v) /\ Sees(v)
        BY <2>2, Kinds DEF Moved, IInv, ArrivalInv, PlanInv
      <3>2. Guarded(v)' <=> Guarded(v)
        BY <3>1 DEF Guarded
      <3>3. (v \in engine'.bound => v \in engine.bound) /\ (v \in engine'.admitted => v \in engine.admitted)
        BY <2>2
      <3>4. \A w \in Users : at'[w].pc = "halting" => at[w].pc = "halting" /\ at'[w].gen = at[w].gen
        BY Kinds DEF Moved
      <3>5. Arrives(v)'
        BY <3>1, <3>2, <3>3, <3>4 DEF Arrives
      <3>6. Sees(v)'
        BY <3>1, <3>3 DEF Sees
      <3> QED
        BY <3>5, <3>6
    <2> QED
      BY <2>1, <2>2
  <1> QED
    BY <1>1, <1>2 DEF ArrivalInv, PlanInv

(* New motion has a plan that nobody has seen.                             *)
LEMMA EngineRenews ==
  ASSUME IInv, NEW t \in Users \cup Runs, Moved({t}), manager' = manager, halted' = halted,
         engine'.plan = engine.plan + 1,
         \A v \in Users \cup Runs : v # t => v \notin engine'.bound \/ ~InTarget(at[v]),
         engine'.admitted \subseteq engine.admitted,
         at'[t].pc # "halting", Arrives(t)', Sees(t)'
  PROVE  ArrivalInv' /\ PlanInv'
  <1>1. StateOK /\ engine.plan \in Nat
    BY DEF IInv, StateOK, Engines
  <1>2. HoldInv'
    <2> SUFFICES ASSUME manager.edge # None
                 PROVE  manager.edge.plan <= engine'.plan /\ manager.edge.plan # engine'.plan
      BY DEF HoldInv
    <2>1. manager.edge.plan \in Nat /\ manager.edge.plan <= engine.plan
      BY <1>1 DEF StateOK, ManagerOK, Managers, Holds, IInv, PlanInv, HoldInv
    <2> QED
      BY <1>1, <2>1
  <1>3. ASSUME NEW v \in Users \cup Runs PROVE Arrives(v)' /\ Sees(v)'
    <2>1. CASE v = t
      BY <2>1
    <2>2. CASE v # t
      <3>1. at'[v] = at[v] /\ Arrives(v) /\ Sees(v) /\ at[v] \in Frames
        BY <1>1, <2>2, Kinds DEF Moved, IInv, ArrivalInv, PlanInv, StateOK
      <3>2. at[v].saw.plan \in Nat
        BY <3>1 DEF Frames, Snapshots
      <3>3. at[v].saw.plan <= engine'.plan /\ at[v].saw.plan # engine'.plan
        BY <1>1, <3>1, <3>2 DEF Sees
      <3>4. \A w \in Users : at'[w].pc = "halting" => at[w].pc = "halting" /\ at'[w].gen = at[w].gen
        BY Kinds DEF Moved
      <3>5. at[v].pc \in {"lead", "commit"} => v \notin engine'.bound
        BY <2>2 DEF InTarget
      <3>6. Arrives(v)'
        BY <3>1, <3>3, <3>4, <3>5 DEF Arrives
      <3>7. Sees(v)'
        BY <3>1, <3>3, <3>5 DEF Sees
      <3> QED
        BY <3>6, <3>7
    <2> QED
      BY <2>1, <2>2
  <1> QED
    BY <1>2, <1>3 DEF ArrivalInv, PlanInv

(* Nobody stands in the engine's Stop or Pause while it runs.              *)
LEMMA EngineOpen ==
  ASSUME EngineInv, engine.barriers = {}
  PROVE  ~Pausing /\ \A u \in Users : at[u].pc \notin {"halting", "pausing"}
  BY DEF EngineInv, Pausing

(* What is in force is not older than the last Stop.                       *)
LEMMA LiveWork ==
  ASSUME IInv, NEW k \in Runs, at[k].pc \in Working, Live(k)
  PROVE  /\ at[k].gen = manager.generation /\ at[k].gen >= halted /\ at[k].gen >= engine.gen
         /\ InForce(k, at[k].gen)
  <1>1. InForce(k, at[k].gen)
    BY DEF IInv, WorkInv, Live
  <1>2. manager.generation \in Nat /\ engine.gen \in Nat /\ halted \in Nat
    BY DEF IInv, StateOK, ManagerOK, Managers, Engines
  <1> QED
    BY <1>1, <1>2 DEF InForce, Current, IInv, GenInv

(* The source, loop and generation that a target gives the engine's        *)
(* motion; settings keep those of the motion that plays.                   *)
LEMMA AimType ==
  ASSUME IInv, NEW t \in Users \cup Runs
  PROVE  /\ Aim(t)[1] \in Sources /\ Aim(t)[2] \in 0 .. MaxRuns /\ Aim(t)[3] \in Nat
         /\ at[t].call # "settings" => Aim(t)[3] = at[t].gen
         /\ at[t].call = "settings" => Aim(t)[1] = engine.source /\ Aim(t)[3] = engine.gen
         /\ at[t].call \in {"chat", "edge"} => Aim(t)[1] = at[t].mode
  <1>1. StateOK /\ at[t] \in Frames /\ Placed(t)
    BY Kinds DEF IInv, StateOK, PlaceInv
  <1>2. engine.source \in Sources /\ engine.run \in 0 .. MaxRuns /\ engine.gen \in Nat
    BY <1>1 DEF StateOK, Engines
  <1>3. at[t].mode \in Sources /\ at[t].gen \in Nat /\ at[t].saw.source \in Sources /\ 0 \in 0 .. MaxRuns
    BY <1>1, ModesAssumption DEF Frames, Snapshots
  <1>4. at[t].call = "loop" => t \in 0 .. MaxRuns
    <2>1. at[t].call = "loop" => t \in Runs
      BY <1>1 DEF Placed, UserShape
    <2> QED
      BY <2>1, ModesAssumption DEF Runs
  <1>5. CASE at[t].call = "settings"
    <2>1. Aim(t) = <<engine.source, engine.run, engine.gen>>
      BY <1>5 DEF Aim
    <2> QED
      BY <1>2, <1>5, <2>1
  <1>6. CASE at[t].call = "loop"
    <2>1. Aim(t) = <<at[t].mode, t, at[t].gen>>
      BY <1>6 DEF Aim
    <2> QED
      BY <1>3, <1>4, <1>6, <2>1
  <1>7. CASE at[t].call = "review"
    <2>1. Aim(t) = <<at[t].saw.source, 0, at[t].gen>>
      BY <1>7 DEF Aim
    <2> QED
      BY <1>3, <1>7, <2>1
  <1>8. CASE at[t].call \notin {"settings", "loop", "review"}
    <2>1. Aim(t) = <<at[t].mode, 0, at[t].gen>>
      BY <1>8 DEF Aim
    <2> QED
      BY <1>3, <1>8, <2>1
  <1> QED
    BY <1>5, <1>6, <1>7, <1>8

(* What the engine keeps of the motion it plays.                           *)
SameMotion ==
  /\ engine'.source = engine.source /\ engine'.gen = engine.gen /\ engine'.began = engine.began
  /\ engine'.plan = engine.plan

(* Where goroutines stand in a call of the engine.                         *)
Calling == {"begin", "startup", "target", "lead", "commit", "resume", "pause", "pausing"}

(* The state and the barriers stay.                                        *)
LEMMA EngineQuiet ==
  ASSUME EngineInv, NEW S \in SUBSET Goroutines, Moved(S), SameMotion, halted' = halted, engine'.state = engine.state,
         engine'.barriers = engine.barriers, engine'.admitted \subseteq engine.admitted,
         engine'.bound # {} => Running(engine'),
         \A t \in S : at'[t].pc \notin {"halting", "pausing"}
  PROVE  EngineInv'
  <1>1. \A v \in Users : at'[v].pc \in {"halting", "pausing"} => at'[v] = at[v]
    BY Kinds DEF Moved
  <1>2. Pausing' => Pausing
    BY <1>1 DEF Pausing
  <1>3. Running(engine') <=> Running(engine)
    BY DEF Running
  <1>4. Fresh => Fresh'
    BY DEF Fresh, SameMotion
  <1> QED
    BY <1>1, <1>2, <1>3, <1>4 DEF EngineInv

(* A run that is on ends, or takes its start for done.                     *)
LEMMA EngineSettles ==
  ASSUME EngineInv, NEW S \in SUBSET Goroutines, Moved(S), SameMotion, halted' = halted, Running(engine),
         engine'.barriers = engine.barriers, engine'.bound = {},
         \A t \in S : at'[t].pc \notin {"halting", "pausing"}
  PROVE  EngineInv'
  <1>1. engine.barriers = {} /\ Fresh
    BY DEF EngineInv, Running
  <1>2. \A v \in Users : at'[v].pc \in {"halting", "pausing"} => at'[v] = at[v]
    BY Kinds DEF Moved
  <1>3. \A v \in Users : at'[v].pc \notin {"halting", "pausing"}
    BY <1>1, <1>2, EngineOpen
  <1>4. Fresh'
    BY <1>1 DEF Fresh, SameMotion
  <1> QED
    BY <1>1, <1>3, <1>4 DEF EngineInv, Pausing

(* The engine has answered: what else is true of it is for the caller to   *)
(* say.                                                                    *)
LEMMA EngineAnswers ==
  ASSUME IInv, NEW t \in Users \cup Runs, at[t].pc \in Calling, NEW ok \in {"yes", "no"}, Answer(t, ok),
         ok = "no" \/ at[t].call # "edge", engine' \in Engines, SameMotion,
         engine'.targetMu = (IF engine.targetMu = t THEN None ELSE engine.targetMu),
         Running(engine') => Running(engine), engine'.bound \subseteq engine.bound,
         engine'.admitted \subseteq engine.admitted, EngineInv',
         UNCHANGED <<manager, locks, fenced, calls, halted>>
  PROVE  IInv'
  <1>1. /\ manager' = manager /\ lifecycleMu' = lifecycleMu /\ userControlMu' = userControlMu /\ fenced' = fenced
        /\ calls' = calls /\ halted' = halted
    BY DEF locks
  <1>2. Placed(t) /\ t \in Goroutines /\ t # None /\ t \notin Reapers /\ StateOK /\ {t} \in SUBSET (Users \cup Runs)
    BY Kinds DEF IInv, PlaceInv, StateOK
  <1>3. /\ Moved({t}) /\ at'[t].pc = "answered" /\ at'[t].ok = ok /\ at'[t].call = at[t].call /\ at'[t].id = at[t].id
        /\ at'[t].gen = at[t].gen /\ at'[t].saw = at[t].saw /\ at'[t].loop = at[t].loop /\ at'[t].mode = at[t].mode
    BY <1>2, AnswerEffect DEF SameCall
  <1>4. t \in Users => UserShape(at[t])' /\ at[t].call \in {"pause", "resume", "chat", "review", "edge", "return", "settings"}
    BY <1>1, <1>2, <1>3 DEF Placed, UserShape, Calling
  <1>5. t \in Runs => LoopShape(at'[t]) /\ at[t].pc \in Working
    BY <1>2, <1>3 DEF Placed, LoopShape, LoopPC, Calling, Working
  <1>6. /\ ~InLifecycle(at[t]) /\ ~InLifecycle(at'[t]) /\ ~InTarget(at'[t])
        /\ InControl(at'[t]) <=> InControl(at[t])
    BY <1>2, <1>3, <1>4, <1>5 DEF Calling, LoopShape, InLifecycle, InTarget, InControl
  <1>7. StateOK' /\ PlaceInv' /\ LoopInv' /\ WorkInv'
    <2>1. fenced' \in SUBSET Users /\ halted' \in Nat /\ Passed(engine.targetMu, engine'.targetMu, {t})
      BY <1>1, <1>2 DEF StateOK, Passed
    <2>2. InTarget(at'[t]) <=> engine'.targetMu = t
      BY <1>2, <1>6
    <2>3. at'[t].gen <= manager.generation /\ at'[t].pc # "install" /\ (at'[t].pc # "answered" => at'[t].ok = "none")
      BY <1>2, <1>3 DEF Placed
    <2>4. t \in Runs => at[t].pc \in Working /\ at'[t].pc \in Working /\ at'[t].gen = at[t].gen
      BY <1>3, <1>5 DEF Working
    <2> QED
      BY <1>1, <1>3, <1>4, <1>5, <1>6, <2>1, <2>2, <2>3, <2>4, EnginePlace
  <1>8. Arrives(t)'
    BY <1>3 DEF Arrives
  <1>9. Sees(t)'
    BY <1>2, <1>3, Kinds DEF Sees, SameMotion, IInv, PlanInv
  <1>10. ArrivalInv' /\ PlanInv'
    <2>1. \A s \in {t} : at'[s].pc # "halting" /\ Arrives(s)' /\ Sees(s)'
      BY <1>3, <1>8, <1>9
    <2>2. engine'.bound \subseteq engine.bound \cup {t} /\ engine'.admitted \subseteq engine.admitted \cup {t}
      OBVIOUS
    <2> QED
      BY <1>1, <1>2, <1>3, <2>1, <2>2, EngineKeeps DEF SameMotion
  <1>11. GenInv'
    BY <1>1 DEF IInv, GenInv, SameMotion
  <1> QED
    BY <1>7, <1>10, <1>11 DEF IInv

(* What the engine itself is.                                              *)
LEMMA EngineType ==
  ASSUME IInv
  PROVE  /\ engine \in Engines /\ engine.plan \in Nat /\ engine.gen \in Nat /\ engine.began \in Nat
         /\ halted \in Nat /\ manager.generation \in Nat
         /\ engine.bound \subseteq Users \cup Runs /\ engine.admitted \subseteq Users \cup Runs
         /\ engine.barriers \subseteq Users /\ EngineInv /\ StateOK
  BY DEF IInv, StateOK, Engines, ManagerOK, Managers

(* A startup that was not cut off confirms the run that its start began.   *)
LEMMA EngineStartupStep ==
  ASSUME IInv, NEW t \in Users \cup Runs, EngineStartup(t)
  PROVE  IInv'
  <1>1. /\ at[t].pc = "startup" /\ UNCHANGED <<manager, locks, fenced, calls, halted>> /\ halted' = halted
    BY DEF EngineStartup
  <1>2. /\ Placed(t) /\ t \in Goroutines /\ engine \in Engines /\ EngineInv /\ StateOK
        /\ {t} \in SUBSET Goroutines /\ engine.targetMu # t
    BY <1>1, Kinds DEF IInv, PlaceInv, StateOK, Placed, InTarget
  <1>3. at[t].call # "edge" /\ at[t].pc \in Calling
    <2>1. t \in Users => at[t].call \in {"chat", "resume"}
      BY <1>1, <1>2 DEF Placed, UserShape
    <2>2. t \in Runs => at[t].call = "loop"
      BY <1>1, <1>2 DEF Placed, LoopShape
    <2> QED
      BY <1>1, <2>1, <2>2 DEF Calling
  <1>4. ASSUME t \in engine.bound, NEW state \in {"running", "paused", "idle"}, NEW ok \in {"yes", "no"},
               engine' = [engine EXCEPT !.state = state, !.bound = {}], Answer(t, ok)
        PROVE  IInv'
    <2>1. /\ engine' \in Engines /\ engine'.bound = {} /\ engine'.admitted = engine.admitted
          /\ engine'.barriers = engine.barriers /\ engine'.targetMu = engine.targetMu /\ SameMotion
      BY <1>2, <1>4 DEF Engines, EngineStates, SameMotion
    <2>2. Running(engine)
      BY <1>2, <1>4 DEF EngineInv
    <2>3. Moved({t}) /\ at'[t].pc = "answered"
      BY <1>2, <1>4, AnswerEffect
    <2>4. EngineInv'
      BY <1>1, <1>2, <2>1, <2>2, <2>3, EngineSettles
    <2> QED
      BY <1>1, <1>2, <1>3, <1>4, <2>1, <2>2, <2>4, EngineAnswers
  <1>5. CASE engine' = engine /\ Answer(t, "no")
    <2>1. SameMotion /\ Moved({t}) /\ at'[t].pc = "answered"
      BY <1>2, <1>5, AnswerEffect DEF SameMotion
    <2>2. EngineInv'
      BY <1>1, <1>2, <1>5, <2>1, EngineQuiet DEF EngineInv
    <2> QED
      BY <1>1, <1>2, <1>3, <1>5, <2>1, <2>2, EngineAnswers
  <1>6. \/ /\ t \in engine.bound
           /\ engine' = [engine EXCEPT !.state = "running", !.bound = {}]
           /\ Answer(t, "yes")
        \/ /\ t \in engine.bound
           /\ \E state \in {"paused", "idle"} : engine' = [engine EXCEPT !.state = state, !.bound = {}]
           /\ Answer(t, "no")
        \/ engine' = engine /\ Answer(t, "no")
    BY DEF EngineStartup
  <1> QED
    BY <1>4, <1>5, <1>6

(* A call that the engine turns away changes nothing but its ticket.       *)
LEMMA EngineRefuses ==
  ASSUME IInv, NEW t \in Users \cup Runs, at[t].pc \in Calling, at[t].pc \notin {"lead", "commit"},
         NEW ok \in {"yes", "no"}, Answer(t, ok), ok = "no" \/ at[t].call # "edge",
         engine' = engine \/ engine' = [engine EXCEPT !.admitted = @ \ {t}],
         UNCHANGED <<manager, locks, fenced, calls, halted>>
  PROVE  IInv'
  <1>1. /\ Placed(t) /\ t \in Goroutines /\ engine \in Engines /\ EngineInv /\ StateOK
        /\ {t} \in SUBSET Goroutines /\ engine.targetMu # t
    BY Kinds DEF IInv, PlaceInv, StateOK, Placed, InTarget
  <1>2. /\ engine' \in Engines /\ engine'.bound = engine.bound /\ engine'.admitted \subseteq engine.admitted
        /\ engine'.state = engine.state /\ engine'.barriers = engine.barriers /\ engine'.targetMu = engine.targetMu
        /\ SameMotion
    BY <1>1 DEF Engines, SameMotion
  <1>3. Moved({t}) /\ at'[t].pc = "answered" /\ halted' = halted
    BY <1>1, AnswerEffect
  <1>4. Running(engine') <=> Running(engine)
    BY <1>2 DEF Running
  <1>5. EngineInv'
    <2>1. engine'.bound # {} => Running(engine')
      BY <1>1, <1>2, <1>4 DEF EngineInv
    <2> QED
      BY <1>1, <1>2, <1>3, <2>1, EngineQuiet
  <1> QED
    BY <1>1, <1>2, <1>4, <1>5, EngineAnswers

(* A target that is not taken gives the engine's lock back.                *)
LEMMA EngineDrops ==
  ASSUME IInv, NEW t \in Users \cup Runs, at[t].pc \in {"lead", "commit"}, Answer(t, "no"),
         \/ engine' = [engine EXCEPT !.targetMu = None]
         \/ engine' = [engine EXCEPT !.targetMu = None, !.bound = @ \ {t}],
         UNCHANGED <<manager, locks, fenced, calls, halted>>
  PROVE  IInv'
  <1>1. /\ Placed(t) /\ t \in Goroutines /\ engine \in Engines /\ EngineInv /\ StateOK
        /\ {t} \in SUBSET Goroutines /\ engine.targetMu = t /\ at[t].pc \in Calling
    BY Kinds DEF IInv, PlaceInv, StateOK, Placed, InTarget, Calling
  <1>2. /\ engine' \in Engines /\ engine'.bound \subseteq engine.bound /\ engine'.admitted = engine.admitted
        /\ engine'.state = engine.state /\ engine'.barriers = engine.barriers /\ engine'.targetMu = None
        /\ SameMotion
    <2>1. PICK bound \in {engine.bound, engine.bound \ {t}} : engine' = [engine EXCEPT !.targetMu = None, !.bound = bound]
      BY <1>1 DEF Engines
    <2>2. bound \in SUBSET (Users \cup Runs) /\ bound \subseteq engine.bound
      BY <1>1, <2>1 DEF Engines
    <2> QED
      BY <1>1, <2>1, <2>2 DEF Engines, SameMotion
  <1>3. Moved({t}) /\ at'[t].pc = "answered" /\ halted' = halted
    BY <1>1, AnswerEffect
  <1>4. Running(engine') <=> Running(engine)
    BY <1>2 DEF Running
  <1>5. EngineInv'
    <2>1. engine'.bound # {} => Running(engine')
      BY <1>1, <1>2, <1>4 DEF EngineInv
    <2> QED
      BY <1>1, <1>2, <1>3, <2>1, EngineQuiet
  <1> QED
    BY <1>1, <1>2, <1>4, <1>5, EngineAnswers

(* How a goroutine goes on inside the engine.                              *)
GoesOn(pc, next) ==
  \/ pc \in {"begin", "resume"} /\ next = "startup"
  \/ pc = "target" /\ next = "lead"
  \/ pc = "lead" /\ next = "commit"
  \/ pc = "pause" /\ next = "pausing"
  \/ pc = "halt" /\ next = "halting"

(* A call goes on inside the engine: what it does to everything but the    *)
(* engine.                                                                 *)
LEMMA EngineGoes ==
  ASSUME IInv, NEW t \in Users \cup Runs, NEW pc \in PCs, GoesOn(at[t].pc, pc), Go(t, pc), engine' \in Engines,
         engine'.targetMu = (IF pc = "lead" THEN t ELSE engine.targetMu), pc = "lead" => engine.targetMu = None,
         UNCHANGED <<manager, locks, fenced, calls, halted>>
  PROVE  /\ StateOK' /\ PlaceInv' /\ LoopInv' /\ WorkInv' /\ Moved({t})
         /\ at'[t].pc = pc /\ at'[t].call = at[t].call /\ at'[t].gen = at[t].gen /\ at'[t].saw = at[t].saw
         /\ at'[t].loop = at[t].loop /\ at'[t].mode = at[t].mode /\ at'[t].ok = "none"
         /\ manager' = manager /\ halted' = halted
  <1>1. /\ manager' = manager /\ lifecycleMu' = lifecycleMu /\ userControlMu' = userControlMu /\ fenced' = fenced
        /\ calls' = calls /\ halted' = halted
    BY DEF locks
  <1>2. Placed(t) /\ t \in Goroutines /\ t # None /\ t \notin Reapers /\ StateOK
    BY Kinds DEF IInv, PlaceInv, StateOK
  <1>3. /\ Moved({t}) /\ at'[t].pc = pc /\ at'[t].call = at[t].call /\ at'[t].id = at[t].id
        /\ at'[t].gen = at[t].gen /\ at'[t].saw = at[t].saw /\ at'[t].loop = at[t].loop
        /\ at'[t].mode = at[t].mode /\ at'[t].ok = at[t].ok
    BY <1>2, GoEffect DEF SameCall
  <1>4. at[t].pc \in {"begin", "resume", "target", "lead", "pause", "halt"} /\ at[t].ok = "none"
    BY <1>2 DEF GoesOn, Placed
  <1>5. t \in Users => UserShape(at[t])'
    BY <1>1, <1>2, <1>3 DEF Placed, UserShape, GoesOn
  <1>6. t \in Runs => LoopShape(at'[t]) /\ at[t].pc \in Working /\ pc \in Working
    BY <1>2, <1>3, <1>4 DEF Placed, LoopShape, LoopPC, Working, GoesOn
  <1>7. /\ InLifecycle(at'[t]) <=> InLifecycle(at[t])
        /\ InControl(at'[t]) <=> InControl(at[t])
    BY <1>2, <1>3, <1>4 DEF InLifecycle, InControl, GoesOn
  <1>8. /\ InTarget(at'[t]) <=> engine'.targetMu = t
        /\ Passed(engine.targetMu, engine'.targetMu, {t})
    BY <1>2, <1>3, <1>4 DEF Placed, InTarget, GoesOn, Passed
  <1>9. StateOK' /\ PlaceInv' /\ LoopInv' /\ WorkInv'
    <2>1. fenced' \in SUBSET Users /\ halted' \in Nat /\ pc # "install" /\ at'[t].gen <= manager.generation
      BY <1>1, <1>2, <1>3, <1>4 DEF StateOK, Placed, GoesOn
    <2> QED
      BY <1>1, <1>3, <1>4, <1>5, <1>6, <1>7, <1>8, <2>1, EnginePlace
  <1> QED
    BY <1>1, <1>3, <1>4, <1>9

(* A target is checked once more behind the lead points.                   *)
LEMMA EngineLeadStep ==
  ASSUME IInv, NEW t \in Users \cup Runs, EngineLead(t)
  PROVE  IInv'
  <1>1. at[t].pc = "lead" /\ UNCHANGED <<manager, locks, fenced, calls, halted>>
    BY DEF EngineLead
  <1>2. CASE Live(t) /\ Go(t, "commit") /\ engine' = engine
    <2>1. Placed(t) /\ {t} \in SUBSET (Users \cup Runs) /\ {t} \in SUBSET Goroutines /\ Arrives(t) /\ Sees(t)
      BY Kinds DEF IInv, PlaceInv, ArrivalInv, PlanInv
    <2>2. GoesOn(at[t].pc, "commit") /\ "commit" \in PCs /\ engine' \in Engines
      BY <1>1, <1>2, EngineType DEF GoesOn, PCs, UserPC
    <2>3. /\ StateOK' /\ PlaceInv' /\ LoopInv' /\ WorkInv' /\ Moved({t})
          /\ at'[t].pc = "commit" /\ at'[t].call = at[t].call /\ at'[t].gen = at[t].gen /\ at'[t].saw = at[t].saw
          /\ manager' = manager /\ halted' = halted
      BY <1>1, <1>2, <2>2, EngineGoes
    <2>4. at'[t].pc = "commit" /\ at'[t].call \notin {"chat", "settings"} /\ t \in engine.bound => at'[t].gen >= halted
      <3>1. CASE t \in Runs
        BY <1>1, <1>2, <2>3, <3>1, LiveWork DEF Working
      <3>2. CASE t \in Users
        <4>1. at[t].call \in {"chat", "settings"} \/ Guarded(t)
          BY <1>1, <2>1, <3>2 DEF Placed, UserShape, Guarded
        <4> QED
          BY <1>1, <2>1, <2>3, <4>1 DEF Arrives
      <3> QED
        BY <3>1, <3>2
    <2>5. t \in Runs => engine.gen <= at'[t].gen
      BY <1>1, <1>2, <2>3, LiveWork, EngineType DEF Working
    <2>6. Arrives(t)'
      BY <1>2, <2>3, <2>4, <2>5 DEF Arrives
    <2>7. Sees(t)'
      BY <1>1, <1>2, <2>1, <2>3 DEF Sees
    <2>8. ArrivalInv' /\ PlanInv'
      <3>1. \A s \in {t} : at'[s].pc # "halting" /\ Arrives(s)' /\ Sees(s)'
        BY <2>3, <2>6, <2>7
      <3>2. engine'.bound \subseteq engine.bound \cup {t} /\ engine'.admitted \subseteq engine.admitted \cup {t}
        BY <1>2
      <3> QED
        BY <1>2, <2>1, <2>3, <3>1, <3>2, EngineKeeps
    <2>9. GenInv' /\ SameMotion
      BY <1>2, <2>3 DEF IInv, GenInv, SameMotion
    <2>10. EngineInv'
      <3>1. engine'.bound # {} => Running(engine')
        BY <1>2, EngineType DEF EngineInv
      <3> QED
        BY <1>2, <2>1, <2>3, <2>9, <3>1, EngineQuiet, EngineType
    <2> QED
      BY <2>3, <2>8, <2>9, <2>10 DEF IInv
  <1>3. CASE engine' = [engine EXCEPT !.targetMu = None, !.bound = @ \ {t}] /\ Answer(t, "no")
    <2>1. at[t].pc \in {"lead", "commit"} /\ Answer(t, "no")
      BY <1>1, <1>3
    <2> QED
      BY <1>1, <1>3, <2>1, EngineDrops, Zenon
  <1> QED
    BY <1>2, <1>3 DEF EngineLead

(* A guarded target is bound to the run only while the plan is the one its *)
(* caller saw.                                                             *)
LEMMA EngineTargetStep ==
  ASSUME IInv, NEW t \in Users \cup Runs, EngineTarget(t)
  PROVE  IInv'
  <1>1. at[t].pc = "target" /\ engine.targetMu = None /\ UNCHANGED <<manager, locks, fenced, calls, halted>>
    BY DEF EngineTarget
  <1>2. CASE /\ engine.state = "running" /\ Live(t) /\ (Guarded(t) => at[t].saw.plan = engine.plan)
             /\ engine' = [engine EXCEPT !.targetMu = t, !.bound = @ \cup {t}]
             /\ Go(t, "lead")
    <2>1. /\ Placed(t) /\ {t} \in SUBSET (Users \cup Runs) /\ {t} \in SUBSET Goroutines /\ Arrives(t) /\ Sees(t)
          /\ engine \in Engines /\ EngineInv /\ Running(engine)
      BY <1>2, Kinds, EngineType DEF IInv, PlaceInv, ArrivalInv, PlanInv, Running
    <2>2. /\ engine' \in Engines /\ engine'.bound = engine.bound \cup {t} /\ engine'.admitted = engine.admitted
          /\ engine'.state = engine.state /\ engine'.barriers = engine.barriers /\ engine'.targetMu = t /\ SameMotion
      BY <1>2, <2>1 DEF Engines, SameMotion
    <2>3. GoesOn(at[t].pc, "lead") /\ "lead" \in PCs
      BY <1>1 DEF GoesOn, PCs, UserPC
    <2>4. /\ StateOK' /\ PlaceInv' /\ LoopInv' /\ WorkInv' /\ Moved({t})
          /\ at'[t].pc = "lead" /\ at'[t].call = at[t].call /\ at'[t].gen = at[t].gen /\ at'[t].saw = at[t].saw
          /\ manager' = manager /\ halted' = halted
      BY <1>1, <1>2, <2>2, <2>3, EngineGoes
    <2>5. Running(engine') /\ (Guarded(t)' <=> Guarded(t))
      BY <2>1, <2>2, <2>4 DEF Running, Guarded
    <2>6. Arrives(t)'
      BY <1>1, <1>2, <2>1, <2>4, <2>5 DEF Arrives
    <2>7. Sees(t)'
      <3>1. at[t].call = "return" => engine.source = "edge"
        BY <1>1, <1>2, <2>1 DEF Sees, Guarded
      <3> QED
        BY <1>1, <2>1, <2>2, <2>4, <3>1 DEF Sees, SameMotion
    <2>8. ArrivalInv' /\ PlanInv'
      <3>1. \A s \in {t} : at'[s].pc # "halting" /\ Arrives(s)' /\ Sees(s)'
        BY <2>4, <2>6, <2>7
      <3>2. engine'.bound \subseteq engine.bound \cup {t} /\ engine'.admitted \subseteq engine.admitted \cup {t}
        BY <2>2
      <3> QED
        BY <2>1, <2>2, <2>4, <3>1, <3>2, EngineKeeps DEF SameMotion
    <2>9. GenInv'
      BY <2>2, <2>4 DEF IInv, GenInv, SameMotion
    <2>10. EngineInv'
      BY <2>1, <2>2, <2>4, <2>5, EngineQuiet
    <2> QED
      BY <2>4, <2>8, <2>9, <2>10 DEF IInv
  <1>3. CASE Answer(t, "no") /\ engine' = engine
    BY <1>1, <1>3, EngineRefuses DEF Calling
  <1> QED
    BY <1>2, <1>3 DEF EngineTarget

(* Nobody stops the run that is on, and what it plays is new enough.       *)
LEMMA EngineStarts ==
  ASSUME EngineInv, NEW t \in Users \cup Runs, Moved({t}), at'[t].pc \notin {"halting", "pausing"},
         engine.barriers = {}, engine'.barriers = {}, engine'.bound # {} => Running(engine'), Fresh'
  PROVE  EngineInv'
  <1>1. \A v \in Users : at'[v].pc \in {"halting", "pausing"} => at'[v] = at[v]
    BY Kinds DEF Moved
  <1>2. \A v \in Users : at'[v].pc \notin {"halting", "pausing"}
    BY <1>1, EngineOpen
  <1> QED
    BY <1>2 DEF EngineInv, Pausing

(* The target is committed, and has a plan of its own.                     *)
LEMMA CommitEffect ==
  ASSUME StateOK, NEW t \in Goroutines, NEW ok \in {"yes", "late"},
         at' = [at EXCEPT ![t].pc = "answered", ![t].ok = ok, ![t].saw.plan = engine.plan + 1]
  PROVE  /\ Moved({t}) /\ at'[t].pc = "answered" /\ at'[t].ok = ok /\ at'[t].saw.plan = engine.plan + 1
         /\ at'[t].call = at[t].call /\ at'[t].mode = at[t].mode /\ at'[t].id = at[t].id
         /\ at'[t].gen = at[t].gen /\ at'[t].loop = at[t].loop
  <1> DEFINE x == engine.plan + 1
             s == [at[t].saw EXCEPT !.plan = x]
             f == [at[t] EXCEPT !.pc = "answered", !.ok = ok, !.saw = s]
  <1>1. at[t] \in Frames /\ x \in Nat
    BY DEF StateOK, Engines
  <1>2. at[t].saw \in Snapshots
    BY <1>1 DEF Frames
  <1> HIDE DEF x
  <1>3. s \in Snapshots /\ s.plan = x
    BY <1>1, <1>2 DEF Snapshots
  <1>4. at' = [at EXCEPT ![t] = f]
    BY <1>1, <1>2 DEF StateOK, Frames, x
  <1> HIDE DEF s
  <1>5. /\ f \in Frames /\ f.pc = "answered" /\ f.ok = ok /\ f.saw = s /\ f.call = at[t].call
        /\ f.mode = at[t].mode /\ f.id = at[t].id /\ f.gen = at[t].gen /\ f.loop = at[t].loop
    BY <1>1, <1>3 DEF Frames, UserPC
  <1> HIDE DEF f
  <1>6. Moved({t}) /\ at'[t] = f
    BY <1>4, <1>5, OpenEffect
  <1> QED
    BY <1>3, <1>5, <1>6 DEF x

(* What the engine is when it has taken t's motion up.                     *)
LEMMA AimedEffect ==
  ASSUME IInv, NEW t \in Users \cup Runs
  PROVE  /\ Aimed(t) \in Engines /\ Aimed(t).source = Aim(t)[1] /\ Aimed(t).gen = Aim(t)[3]
         /\ Aimed(t).plan = engine.plan + 1 /\ Aimed(t).state = engine.state
         /\ Aimed(t).began = engine.began /\ Aimed(t).barriers = engine.barriers
         /\ Aimed(t).targetMu = engine.targetMu /\ Aimed(t).admitted = engine.admitted
         /\ Aimed(t).bound = engine.bound
  <1> DEFINE a == Aim(t)[1]
             b == Aim(t)[2]
             c == Aim(t)[3]
             p == engine.plan + 1
             e == [engine EXCEPT !.source = a, !.run = b, !.gen = c, !.plan = p]
  <1>1. a \in Sources /\ b \in 0 .. MaxRuns /\ c \in Nat /\ p \in Nat /\ engine \in Engines
    BY AimType, EngineType
  <1>2. Aimed(t) = e
    BY <1>1 DEF Aimed, Engines
  <1> HIDE DEF a, b, c, p
  <1>3. /\ e \in Engines /\ e.source = a /\ e.gen = c
        /\ e.plan = p /\ e.state = engine.state
        /\ e.began = engine.began /\ e.barriers = engine.barriers
        /\ e.targetMu = engine.targetMu /\ e.admitted = engine.admitted
        /\ e.bound = engine.bound
    BY <1>1 DEF Engines
  <1> QED
    BY <1>2, <1>3 DEF a, c, p

(* A committed target is not older than the last Stop, for the run it was  *)
(* bound to still plays, and it names a new plan.                          *)
LEMMA EngineCommitStep ==
  ASSUME IInv, NEW t \in Users \cup Runs, EngineCommit(t)
  PROVE  IInv'
  <1>1. /\ at[t].pc = "commit" /\ UNCHANGED <<manager, locks, fenced, calls, halted>>
        /\ manager' = manager /\ lifecycleMu' = lifecycleMu /\ userControlMu' = userControlMu /\ fenced' = fenced
        /\ calls' = calls /\ halted' = halted
    BY DEF EngineCommit, locks
  <1>2. ASSUME t \in engine.bound, engine' = [Aimed(t) EXCEPT !.targetMu = None, !.bound = @ \ {t}],
               NEW ok \in {"yes", "late"},
               at' = [at EXCEPT ![t].pc = "answered", ![t].ok = ok, ![t].saw.plan = engine.plan + 1]
        PROVE  IInv'
    <2> DEFINE a == Aimed(t)
    <2>1. /\ Placed(t) /\ {t} \in SUBSET (Users \cup Runs) /\ {t} \in SUBSET Goroutines /\ Arrives(t) /\ Sees(t)
          /\ EngineInv /\ StateOK /\ t \in Goroutines /\ t # None /\ t \notin Reapers
      BY Kinds, EngineType DEF IInv, PlaceInv, ArrivalInv, PlanInv
    <2>2. a \in Engines
      BY AimedEffect
    <2> HIDE DEF a
    <2>3. /\ engine' \in Engines /\ engine'.targetMu = None /\ engine'.bound = a.bound \ {t}
          /\ engine'.source = a.source /\ engine'.gen = a.gen /\ engine'.plan = a.plan /\ engine'.state = a.state
          /\ engine'.began = a.began /\ engine'.barriers = a.barriers /\ engine'.admitted = a.admitted
      <3>1. engine' = [a EXCEPT !.targetMu = None, !.bound = a.bound \ {t}]
        BY <1>2, <2>2 DEF Engines, a
      <3> QED
        BY <2>2, <3>1 DEF Engines
    <2>4. /\ engine'.source = Aim(t)[1] /\ engine'.gen = Aim(t)[3] /\ engine'.plan = engine.plan + 1
          /\ engine'.state = engine.state /\ engine'.began = engine.began /\ engine'.barriers = engine.barriers
          /\ engine'.admitted = engine.admitted /\ engine'.bound = engine.bound \ {t}
      BY <2>3, AimedEffect DEF a
    <2>5. /\ Moved({t}) /\ at'[t].pc = "answered" /\ at'[t].ok = ok /\ at'[t].saw.plan = engine.plan + 1
          /\ at'[t].call = at[t].call /\ at'[t].mode = at[t].mode /\ at'[t].id = at[t].id
          /\ at'[t].gen = at[t].gen /\ at'[t].loop = at[t].loop
      BY <1>2, <2>1, CommitEffect, Zenon
    <2>6. t \in Users => UserShape(at[t])' /\ at[t].call \in {"chat", "review", "edge", "return", "settings"}
      BY <1>1, <2>1, <2>5 DEF Placed, UserShape
    <2>7. t \in Runs => LoopShape(at'[t]) /\ at[t].pc \in Working /\ at[t].call \in {"loop", "return"}
      BY <1>1, <2>1, <2>5 DEF Placed, LoopShape, LoopPC, Working
    <2>8. /\ ~InLifecycle(at[t]) /\ ~InLifecycle(at'[t]) /\ ~InTarget(at'[t]) /\ engine.targetMu = t
          /\ InControl(at'[t]) <=> InControl(at[t])
      BY <1>1, <2>1, <2>5, <2>6, <2>7 DEF InLifecycle, InTarget, InControl, Placed
    <2>9. StateOK' /\ PlaceInv' /\ LoopInv' /\ WorkInv'
      <3>1. /\ fenced' \in SUBSET Users /\ halted' \in Nat /\ Passed(engine.targetMu, engine'.targetMu, {t})
            /\ at'[t].gen <= manager.generation
            /\ InTarget(at'[t]) <=> engine'.targetMu = t
        BY <1>1, <2>1, <2>3, <2>5, <2>8 DEF StateOK, Passed, Placed
      <3>2. at'[t].pc # "install" /\ (at'[t].pc # "answered" => at'[t].ok = "none")
        BY <2>5
      <3>3. t \in Runs => at[t].pc \in Working /\ at'[t].pc \in Working /\ at'[t].gen = at[t].gen
        BY <2>5, <2>7 DEF Working
      <3> QED
        BY <1>1, <2>3, <2>5, <2>6, <2>7, <2>8, <3>1, <3>2, <3>3, EnginePlace
    <2>10. Running(engine) /\ engine.barriers = {} /\ Fresh
      BY <1>2, <2>1 DEF EngineInv, Running
    <2>11. Fresh'
      <3>1. CASE at[t].call = "settings"
        BY <1>1, <2>4, <2>10, <3>1, AimType DEF Fresh
      <3>2. CASE at[t].call = "chat"
        <4>1. engine'.source = "chat"
          BY <2>1, <2>4, <2>6, <2>7, <3>2, AimType DEF Placed, UserShape
        <4> QED
          BY <1>1, <2>4, <2>10, <4>1 DEF Fresh
      <3>3. CASE at[t].call \notin {"settings", "chat"}
        BY <1>1, <1>2, <2>1, <2>4, <2>10, <3>3, AimType DEF Fresh, Arrives
      <3> QED
        BY <3>1, <3>2, <3>3
    <2>12. EngineInv'
      <3>1. Running(engine')
        BY <2>4, <2>10 DEF Running
      <3> QED
        BY <2>1, <2>4, <2>5, <2>10, <2>11, <3>1, EngineStarts
    <2>13. GenInv'
      <3>1. Aim(t)[3] <= manager.generation
        BY <2>1, AimType DEF IInv, GenInv, Placed
      <3> QED
        BY <1>1, <2>4, <3>1 DEF IInv, GenInv
    <2>14. ArrivalInv' /\ PlanInv'
      <3>1. Arrives(t)'
        BY <2>5 DEF Arrives
      <3>2. at'[t].call = "edge" => engine'.source = "edge"
        BY <2>1, <2>4, <2>5, <2>6, <2>7, AimType DEF Placed, UserShape
      <3>3. engine'.plan \in Nat
        BY <2>3 DEF Engines
      <3>4. Sees(t)'
        BY <2>4, <2>5, <3>2, <3>3 DEF Sees
      <3>5. \A v \in Users \cup Runs : v # t => v \notin engine'.bound \/ ~InTarget(at[v])
        BY <2>8, Kinds DEF IInv, PlaceInv, Placed
      <3> QED
        BY <1>1, <2>4, <2>5, <3>1, <3>4, <3>5, EngineRenews
    <2> QED
      BY <2>9, <2>12, <2>13, <2>14 DEF IInv
  <1>3. CASE engine' = [engine EXCEPT !.targetMu = None] /\ Answer(t, "no")
    <2>1. at[t].pc \in {"lead", "commit"} /\ Answer(t, "no")
      BY <1>1, <1>3
    <2> QED
      BY <1>1, <1>3, <2>1, EngineDrops, Zenon
  <1> QED
    BY <1>2, <1>3 DEF EngineCommit

(* A start that is still admitted was not overtaken by a Stop, and while   *)
(* no barrier is up none is on its way.                                    *)
LEMMA EngineBeginStep ==
  ASSUME IInv, NEW t \in Users \cup Runs, EngineBegin(t)
  PROVE  IInv'
  <1>1. at[t].pc = "begin" /\ UNCHANGED <<manager, locks, fenced, calls, halted>> /\ halted' = halted
    BY DEF EngineBegin
  <1>2. CASE /\ Live(t) /\ t \in engine.admitted /\ ~Running(engine) /\ engine.barriers = {}
             /\ engine' = [Aimed(t) EXCEPT !.state = "starting", !.began = at[t].gen,
                                           !.bound = {t}, !.admitted = @ \ {t}]
             /\ Go(t, "startup")
    <2> DEFINE a == Aimed(t)
               g == at[t].gen
    <2>1. /\ Placed(t) /\ {t} \in SUBSET (Users \cup Runs) /\ {t} \in SUBSET Goroutines /\ Arrives(t) /\ Sees(t)
          /\ EngineInv /\ StateOK /\ t \in Goroutines
      BY Kinds, EngineType DEF IInv, PlaceInv, ArrivalInv, PlanInv
    <2>2. a \in Engines /\ g \in Nat /\ g <= manager.generation
      BY <2>1, AimedEffect DEF StateOK, Frames, Placed
    <2> HIDE DEF a, g
    <2>3. /\ engine' \in Engines /\ engine'.targetMu = a.targetMu /\ engine'.bound = {t}
          /\ engine'.source = a.source /\ engine'.gen = a.gen /\ engine'.plan = a.plan /\ engine'.state = "starting"
          /\ engine'.began = g /\ engine'.barriers = a.barriers /\ engine'.admitted = a.admitted \ {t}
      <3>1. engine' = [a EXCEPT !.state = "starting", !.began = g, !.bound = {t}, !.admitted = a.admitted \ {t}]
        BY <1>2, <2>2 DEF Engines, a, g
      <3> QED
        BY <2>1, <2>2, <3>1 DEF Engines, EngineStates
    <2>4. /\ engine'.gen = Aim(t)[3] /\ engine'.plan = engine.plan + 1 /\ engine'.targetMu = engine.targetMu
          /\ engine'.barriers = {} /\ engine'.admitted \subseteq engine.admitted
      BY <1>2, <2>3, AimedEffect DEF a
    <2>5. at[t].call # "settings"
      BY <1>1, <2>1 DEF Placed, UserShape, LoopShape
    <2>6. engine'.gen = g
      BY <2>4, <2>5, AimType DEF g
    <2>7. GoesOn(at[t].pc, "startup") /\ "startup" \in PCs
      BY <1>1 DEF GoesOn, PCs, UserPC
    <2>8. /\ StateOK' /\ PlaceInv' /\ LoopInv' /\ WorkInv' /\ Moved({t})
          /\ at'[t].pc = "startup" /\ at'[t].call = at[t].call /\ at'[t].gen = at[t].gen /\ at'[t].saw = at[t].saw
          /\ manager' = manager
      BY <1>1, <1>2, <2>3, <2>4, <2>7, EngineGoes
    <2>9. g >= halted
      <3>1. CASE t \in Users
        BY <1>1, <1>2, <2>1, <3>1 DEF Arrives, g
      <3>2. CASE t \in Runs
        BY <1>1, <1>2, <3>2, LiveWork DEF Working, g
      <3> QED
        BY <3>1, <3>2
    <2>10. Fresh' /\ GenInv'
      BY <1>1, <2>2, <2>3, <2>6, <2>8, <2>9 DEF Fresh, IInv, GenInv
    <2>11. EngineInv'
      <3>1. Running(engine')
        BY <2>3 DEF Running
      <3> QED
        BY <1>2, <2>1, <2>4, <2>8, <2>10, <3>1, EngineStarts
    <2>12. ArrivalInv' /\ PlanInv'
      <3>1. Arrives(t)'
        BY <2>8 DEF Arrives
      <3>2. at[t].saw.plan \in Nat
        BY <2>1 DEF StateOK, Frames, Snapshots
      <3>3. Sees(t)'
        BY <1>1, <2>1, <2>4, <2>8, <3>2, EngineType DEF Sees
      <3>4. \A v \in Users \cup Runs : v # t => v \notin engine'.bound \/ ~InTarget(at[v])
        BY <2>3
      <3> QED
        BY <1>1, <2>4, <2>8, <3>1, <3>3, <3>4, EngineRenews
    <2> QED
      BY <2>8, <2>10, <2>11, <2>12 DEF IInv
  <1>3. CASE engine' = [engine EXCEPT !.admitted = @ \ {t}] /\ Answer(t, "no")
    BY <1>1, <1>3, EngineRefuses DEF Calling
  <1> QED
    BY <1>2, <1>3 DEF EngineBegin

(* A resume starts what was paused, which is not older than the last Stop. *)
LEMMA EngineResumeStep ==
  ASSUME IInv, NEW t \in Users, EngineResume(t)
  PROVE  IInv'
  <1>1. at[t].pc = "resume" /\ UNCHANGED <<manager, locks, fenced, calls, halted>> /\ halted' = halted
    BY DEF EngineResume
  <1>2. CASE /\ engine.state = "paused" /\ engine.barriers = {}
             /\ engine' = [engine EXCEPT !.state = "starting", !.plan = @ + 1, !.bound = {t}]
             /\ Go(t, "startup")
    <2>1. /\ {t} \in SUBSET (Users \cup Runs) /\ {t} \in SUBSET Goroutines /\ Sees(t) /\ t \in Users \cup Runs
          /\ EngineInv /\ StateOK /\ t \in Goroutines /\ engine \in Engines
      BY Kinds, EngineType DEF IInv, PlanInv
    <2>2. /\ engine' \in Engines /\ engine'.targetMu = engine.targetMu /\ engine'.bound = {t}
          /\ engine'.source = engine.source /\ engine'.gen = engine.gen /\ engine'.plan = engine.plan + 1
          /\ engine'.state = "starting" /\ engine'.began = engine.began /\ engine'.barriers = {}
          /\ engine'.admitted = engine.admitted
      <3> DEFINE p == engine.plan + 1
      <3>1. p \in Nat /\ engine' = [engine EXCEPT !.state = "starting", !.plan = p, !.bound = {t}]
        BY <1>2, <2>1, EngineType DEF Engines
      <3> HIDE DEF p
      <3>2. /\ engine' \in Engines /\ engine'.targetMu = engine.targetMu /\ engine'.bound = {t}
            /\ engine'.source = engine.source /\ engine'.gen = engine.gen /\ engine'.plan = p
            /\ engine'.state = "starting" /\ engine'.began = engine.began /\ engine'.barriers = engine.barriers
            /\ engine'.admitted = engine.admitted
        BY <2>1, <3>1 DEF Engines, EngineStates
      <3> QED
        BY <1>2, <3>2 DEF p
    <2>3. GoesOn(at[t].pc, "startup") /\ "startup" \in PCs
      BY <1>1 DEF GoesOn, PCs, UserPC
    <2>4. /\ StateOK' /\ PlaceInv' /\ LoopInv' /\ WorkInv' /\ Moved({t})
          /\ at'[t].pc = "startup" /\ at'[t].call = at[t].call /\ at'[t].gen = at[t].gen /\ at'[t].saw = at[t].saw
          /\ manager' = manager
      BY <1>1, <1>2, <2>1, <2>2, <2>3, EngineGoes
    <2>5. Fresh' /\ GenInv'
      BY <1>1, <1>2, <2>1, <2>2, <2>4 DEF Fresh, IInv, GenInv, EngineInv
    <2>6. EngineInv'
      <3>1. Running(engine')
        BY <2>2 DEF Running
      <3> QED
        BY <1>2, <2>1, <2>2, <2>4, <2>5, <3>1, EngineStarts
    <2>7. ArrivalInv' /\ PlanInv'
      <3>1. Arrives(t)'
        BY <2>4 DEF Arrives
      <3>2. at[t].saw.plan \in Nat
        BY <2>1 DEF StateOK, Frames, Snapshots
      <3>3. Sees(t)'
        BY <1>1, <2>1, <2>2, <2>4, <3>2, EngineType DEF Sees
      <3>4. \A v \in Users \cup Runs : v # t => v \notin engine'.bound \/ ~InTarget(at[v])
        BY <2>2
      <3> QED
        BY <1>1, <2>1, <2>2, <2>4, <3>1, <3>3, <3>4, EngineRenews
    <2> QED
      BY <2>4, <2>5, <2>6, <2>7 DEF IInv
  <1>3. CASE Answer(t, "no") /\ engine' = engine
    BY <1>1, <1>3, EngineRefuses DEF Calling
  <1> QED
    BY <1>2, <1>3 DEF EngineResume

(* A pause raises its barrier and cuts off the run, which it may then mark *)
(* as paused.                                                              *)
LEMMA EnginePauseStep ==
  ASSUME IInv, NEW t \in Users, EnginePause(t)
  PROVE  IInv'
  <1>1. /\ at[t].pc = "pause" /\ UNCHANGED <<manager, locks, fenced, calls, halted>> /\ halted' = halted
        /\ t \in Users \cup Runs
    BY DEF EnginePause
  <1>2. CASE /\ Running(engine)
             /\ engine' = [engine EXCEPT !.state = "idle", !.barriers = @ \cup {t},
                                         !.admitted = @ \cup {t}, !.bound = {}]
             /\ Go(t, "pausing")
    <2>1. /\ {t} \in SUBSET (Users \cup Runs) /\ Sees(t) /\ EngineInv /\ StateOK /\ t \in Goroutines
          /\ engine \in Engines
      BY <1>1, Kinds, EngineType DEF IInv, PlanInv
    <2>2. /\ engine' \in Engines /\ engine'.targetMu = engine.targetMu /\ engine'.bound = {} /\ SameMotion
          /\ engine'.state = "idle" /\ engine'.barriers = engine.barriers \cup {t}
          /\ engine'.admitted = engine.admitted \cup {t}
      BY <1>2, <2>1 DEF Engines, EngineStates, SameMotion
    <2>3. GoesOn(at[t].pc, "pausing") /\ "pausing" \in PCs
      BY <1>1 DEF GoesOn, PCs, UserPC
    <2>4. /\ StateOK' /\ PlaceInv' /\ LoopInv' /\ WorkInv' /\ Moved({t})
          /\ at'[t].pc = "pausing" /\ at'[t].call = at[t].call /\ at'[t].gen = at[t].gen /\ at'[t].saw = at[t].saw
          /\ manager' = manager
      BY <1>1, <1>2, <2>2, <2>3, EngineGoes
    <2>5. engine.barriers = {} /\ Fresh
      BY <1>2, <2>1 DEF EngineInv, Running
    <2>6. EngineInv'
      <3>1. \A v \in Users : v # t => at'[v] = at[v] /\ at'[v].pc \notin {"halting", "pausing"}
        BY <2>1, <2>4, <2>5, EngineOpen, Kinds DEF Moved
      <3>2. Fresh' /\ ~Running(engine')
        BY <1>1, <2>2, <2>5 DEF Fresh, SameMotion, Running
      <3> QED
        BY <2>2, <2>4, <3>1, <3>2 DEF EngineInv
    <2>7. GenInv'
      BY <1>1, <2>2, <2>4 DEF IInv, GenInv, SameMotion
    <2>8. ArrivalInv' /\ PlanInv'
      <3>1. Arrives(t)'
        BY <2>4 DEF Arrives
      <3>2. Sees(t)'
        BY <1>1, <2>1, <2>2, <2>4 DEF Sees, SameMotion
      <3>3. ~Running(engine')
        BY <2>2 DEF Running
      <3> QED
        BY <1>1, <2>1, <2>2, <2>4, <3>1, <3>2, <3>3, EngineKeeps DEF SameMotion
    <2> QED
      BY <2>4, <2>6, <2>7, <2>8 DEF IInv
  <1>3. CASE Answer(t, IF engine.state = "paused" THEN "yes" ELSE "no") /\ engine' = engine
    <2>1. at[t].pc \in Calling /\ at[t].call # "edge"
      BY <1>1, Kinds DEF Calling, IInv, PlaceInv, Placed, UserShape
    <2>2. PICK ok \in {"yes", "no"} : Answer(t, ok)
      BY <1>3
    <2> QED
      BY <1>1, <1>3, <2>1, <2>2, EngineRefuses
  <1> QED
    BY <1>2, <1>3 DEF EnginePause

(* A run is paused only if no Stop came while the pause was under way.     *)
LEMMA EnginePausedStep ==
  ASSUME IInv, NEW t \in Users, EnginePaused(t)
  PROVE  IInv'
  <1>1. /\ at[t].pc = "pausing" /\ UNCHANGED <<manager, locks, fenced, calls, halted>> /\ halted' = halted
        /\ t \in Users \cup Runs
    BY DEF EnginePaused
  <1>2. PICK ok \in {"yes", "no"} : Answer(t, ok) /\ (ok = "yes" <=> t \in engine.admitted)
    BY DEF EnginePaused
  <1>3. PICK state \in EngineStates :
          /\ engine' = [engine EXCEPT !.barriers = @ \ {t}, !.admitted = @ \ {t}, !.state = state]
          /\ state = IF t \in engine.admitted THEN "paused" ELSE engine.state
    BY EngineType DEF EnginePaused, Engines, EngineStates
  <1>4. /\ Placed(t) /\ EngineInv /\ StateOK /\ t \in Goroutines /\ engine \in Engines
    BY Kinds, EngineType DEF IInv, PlaceInv
  <1>5. at[t].call # "edge" /\ at[t].pc \in Calling /\ engine.targetMu # t
    BY <1>1, <1>4 DEF Calling, Placed, UserShape, InTarget
  <1>6. /\ engine' \in Engines /\ engine'.targetMu = engine.targetMu /\ engine'.bound = engine.bound /\ SameMotion
        /\ engine'.state = state /\ engine'.barriers = engine.barriers \ {t}
        /\ engine'.admitted = engine.admitted \ {t}
    BY <1>3, <1>4 DEF Engines, SameMotion
  <1>7. Moved({t}) /\ at'[t].pc = "answered"
    BY <1>2, <1>4, AnswerEffect
  <1>8. \A v \in Users : at'[v].pc \in {"halting", "pausing"} => v # t /\ at'[v] = at[v]
    BY <1>7, Kinds DEF Moved
  <1>9. ~Running(engine) /\ engine.bound = {} /\ ~Running(engine')
    <2>1. ~Running(engine) /\ engine.bound = {}
      BY <1>1, <1>4 DEF EngineInv
    <2> QED
      BY <1>3, <1>6, <2>1 DEF Running
  <1>10. Fresh => Fresh'
    BY <1>1, <1>6 DEF Fresh, SameMotion
  <1>11. Pausing' => Pausing
    BY <1>6, <1>8 DEF Pausing
  <1>12. EngineInv'
    <2>1. CASE t \in engine.admitted
      <3>1. Pausing
        BY <1>1, <2>1 DEF Pausing
      <3>2. Fresh /\ \A v \in Users : at[v].pc # "halting"
        BY <1>4, <3>1 DEF EngineInv
      <3> QED
        BY <1>4, <1>6, <1>8, <1>9, <1>10, <3>2 DEF EngineInv
    <2>2. CASE t \notin engine.admitted
      BY <1>3, <1>4, <1>6, <1>8, <1>9, <1>10, <1>11, <2>2 DEF EngineInv
    <2> QED
      BY <2>1, <2>2
  <1> QED
    BY <1>1, <1>2, <1>5, <1>6, <1>9, <1>12, EngineAnswers

(* A run that ends by itself leaves nothing bound to it.                   *)
LEMMA EngineFailsStep ==
  ASSUME IInv, EngineFails
  PROVE  IInv'
  <1>1. /\ engine.state = "running" /\ engine' = [engine EXCEPT !.state = "idle", !.bound = {}]
        /\ manager' = manager /\ lifecycleMu' = lifecycleMu /\ userControlMu' = userControlMu
        /\ fenced' = fenced /\ at' = at /\ calls' = calls /\ halted' = halted
    BY DEF EngineFails, locks
  <1>2. engine \in Engines /\ EngineInv /\ StateOK
    BY EngineType
  <1>3. /\ engine' \in Engines /\ engine'.targetMu = engine.targetMu /\ engine'.bound = {} /\ SameMotion
        /\ engine'.state = "idle" /\ engine'.barriers = engine.barriers
        /\ engine'.admitted = engine.admitted
    BY <1>1, <1>2 DEF Engines, EngineStates, SameMotion
  <1>4. Running(engine) /\ ~Running(engine') /\ Moved({})
    BY <1>1, <1>2, <1>3 DEF Running, Moved, StateOK
  <1>5. StateOK' /\ GenInv'
    BY <1>1, <1>2, <1>3 DEF StateOK, ManagerOK, Latched, IInv, GenInv, SameMotion
  <1>6. PlaceInv'
    <2>1. \A t \in Goroutines : Placed(t)'
      BY <1>1, <1>3 DEF IInv, PlaceInv, Placed, UserShape
    <2> QED
      BY <2>1 DEF PlaceInv
  <1>7. LoopInv'
    BY <1>1 DEF IInv, LoopInv, Used, LiveLoops, NextRun
  <1>8. WorkInv'
    BY <1>1 DEF IInv, WorkInv, InForce, Current, HoldID
  <1>9. EngineInv'
    BY <1>1, <1>2, <1>3, <1>4, EngineSettles
  <1>10. ArrivalInv' /\ PlanInv'
    BY <1>1, <1>3, <1>4, EngineKeeps DEF SameMotion
  <1> QED
    BY <1>5, <1>6, <1>7, <1>8, <1>9, <1>10 DEF IInv

(* A Stop withdraws every admission and cuts off every target that is      *)
(* bound to the run.                                                       *)
LEMMA EngineStopStep ==
  ASSUME IInv, NEW t \in Users, EngineStop(t)
  PROVE  IInv'
  <1>1. /\ at[t].pc = "halt" /\ UNCHANGED <<manager, locks, fenced, calls, halted>> /\ halted' = halted
        /\ t \in Users \cup Runs /\ Go(t, "halting")
        /\ engine' = [engine EXCEPT !.state = "idle", !.barriers = @ \cup {t}, !.admitted = {}, !.bound = {}]
    BY DEF EngineStop
  <1>2. Sees(t) /\ EngineInv /\ StateOK /\ t \in Goroutines /\ engine \in Engines
    BY <1>1, Kinds, EngineType DEF IInv, PlanInv
  <1>3. /\ engine' \in Engines /\ engine'.targetMu = engine.targetMu /\ engine'.bound = {} /\ SameMotion
        /\ engine'.state = "idle" /\ engine'.barriers = engine.barriers \cup {t} /\ engine'.admitted = {}
    BY <1>1, <1>2 DEF Engines, EngineStates, SameMotion
  <1>4. GoesOn(at[t].pc, "halting") /\ "halting" \in PCs
    BY <1>1 DEF GoesOn, PCs, UserPC
  <1>5. /\ StateOK' /\ PlaceInv' /\ LoopInv' /\ WorkInv' /\ Moved({t})
        /\ at'[t].pc = "halting" /\ at'[t].call = at[t].call /\ at'[t].gen = at[t].gen /\ at'[t].saw = at[t].saw
        /\ manager' = manager
    BY <1>1, <1>3, <1>4, EngineGoes
  <1>6. ~Running(engine') /\ ~Pausing'
    BY <1>3 DEF Running, Pausing
  <1>7. EngineInv'
    <2>1. \A v \in Users : v # t => at'[v] = at[v]
      BY <1>5, Kinds DEF Moved
    <2>2. \A v \in Users : at'[v].pc \in {"halting", "pausing"} => v \in engine'.barriers
      BY <1>2, <1>3, <2>1 DEF EngineInv
    <2> QED
      BY <1>3, <1>6, <2>2 DEF EngineInv
  <1>8. GenInv'
    BY <1>1, <1>3, <1>5 DEF IInv, GenInv, SameMotion
  <1>9. ArrivalInv'
    BY <1>3, <1>6 DEF ArrivalInv, Arrives
  <1>10. PlanInv'
    <2>1. HoldInv'
      BY <1>3, <1>5 DEF IInv, PlanInv, HoldInv, SameMotion
    <2>2. ASSUME NEW v \in Users \cup Runs PROVE Sees(v)'
      <3>1. CASE v = t
        BY <1>2, <1>3, <1>5, <3>1 DEF Sees, SameMotion
      <3>2. CASE v # t
        <4>1. at'[v] = at[v] /\ Sees(v)
          BY <1>5, <3>2, Kinds DEF Moved, IInv, PlanInv
        <4> QED
          BY <1>3, <4>1 DEF Sees, SameMotion
      <3> QED
        BY <3>1, <3>2
    <2> QED
      BY <2>1, <2>2 DEF PlanInv
  <1> QED
    BY <1>5, <1>7, <1>8, <1>9, <1>10 DEF IInv

(* A Stop that returns moves the fence: whatever was admitted since it     *)
(* began is of its generation or newer.                                    *)
LEMMA EngineStoppedStep ==
  ASSUME IInv, NEW t \in Users, EngineStopped(t)
  PROVE  IInv'
  <1>1. /\ at[t].pc = "halting" /\ manager' = manager /\ calls' = calls /\ lifecycleMu' = lifecycleMu
        /\ userControlMu' = userControlMu /\ engine' = [engine EXCEPT !.barriers = @ \ {t}]
        /\ halted' = (IF at[t].gen > halted THEN at[t].gen ELSE halted)
        /\ t \in Users \cup Runs
        /\ (at[t].loop = 0 => Leave(t)) /\ (at[t].loop # 0 => Go(t, "drain") /\ fenced' = fenced)
    BY DEF EngineStopped, locks
  <1>2. /\ Placed(t) /\ Sees(t) /\ EngineInv /\ StateOK /\ t \in Goroutines /\ engine \in Engines
        /\ at[t].gen \in Nat /\ halted \in Nat /\ t # None /\ t \notin Reapers /\ t \notin Runs
    BY <1>1, Kinds, EngineType DEF IInv, PlanInv, PlaceInv, StateOK, Frames
  <1>3. /\ engine' \in Engines /\ engine'.targetMu = engine.targetMu /\ engine'.bound = engine.bound /\ SameMotion
        /\ engine'.state = engine.state /\ engine'.barriers = engine.barriers \ {t}
        /\ engine'.admitted = engine.admitted
    BY <1>1, <1>2 DEF Engines, SameMotion
  <1>4. /\ engine.state = "idle" /\ ~Pausing /\ ~Running(engine) /\ ~Running(engine') /\ engine.bound = {}
    BY <1>1, <1>2, <1>3 DEF EngineInv, Running
  <1>5. /\ Moved({t}) /\ at'[t].pc \in {"idle", "drain"} /\ fenced' \in SUBSET Users
        /\ StateOK' /\ PlaceInv' /\ LoopInv' /\ WorkInv' /\ Sees(t)'
    <2>1. ~InTarget(at[t]) /\ ~InControl(at[t]) /\ engine.targetMu # t /\ at[t].ok = "none"
      BY <1>1, <1>2 DEF Placed, UserShape, InTarget, InControl
    <2>2. halted' \in Nat /\ Passed(engine.targetMu, engine'.targetMu, {t}) /\ at[t].gen <= manager.generation
      BY <1>1, <1>2, <1>3 DEF Passed, Placed
    <2>3. CASE at[t].loop = 0
      <3>1. Moved({t}) /\ at'[t] = Idle /\ fenced' \in SUBSET Users
        BY <1>1, <1>2, <2>3, LeaveEffect
      <3>2. /\ ~InLifecycle(at[t]) /\ ~InLifecycle(Idle) /\ ~InTarget(Idle) /\ ~InControl(Idle)
            /\ UserShape(at[t])' /\ lifecycleMu # t
        BY <1>1, <1>2, <2>3, <3>1, IdleType DEF InLifecycle, InTarget, InControl, UserShape, Placed
      <3>3. Idle.gen <= manager.generation /\ Idle.pc # "install" /\ Idle.ok = "none" /\ Idle.pc = "idle"
        BY EngineType, IdleType
      <3>4. StateOK' /\ PlaceInv' /\ LoopInv' /\ WorkInv'
        BY <1>1, <1>2, <1>3, <2>1, <2>2, <3>1, <3>2, <3>3, EnginePlace
      <3>5. Sees(t)'
        BY <1>3, <3>1, <3>3, IdleType, EngineType DEF Sees, SameMotion, Unseen
      <3> QED
        BY <3>1, <3>3, <3>4, <3>5
    <2>4. CASE at[t].loop # 0
      <3>1. /\ Moved({t}) /\ at'[t].pc = "drain" /\ at'[t].call = at[t].call /\ at'[t].id = at[t].id
            /\ at'[t].gen = at[t].gen /\ at'[t].saw = at[t].saw /\ at'[t].loop = at[t].loop
            /\ at'[t].mode = at[t].mode /\ at'[t].ok = at[t].ok /\ fenced' \in SUBSET Users
        BY <1>1, <1>2, <2>4, GoEffect DEF SameCall, PCs, UserPC, StateOK
      <3>2. /\ InLifecycle(at[t]) /\ InLifecycle(at'[t]) /\ ~InTarget(at'[t]) /\ ~InControl(at'[t])
            /\ UserShape(at[t])'
        BY <1>1, <1>2, <2>1, <2>4, <3>1 DEF InLifecycle, InTarget, InControl, UserShape, Placed
      <3>3. StateOK' /\ PlaceInv' /\ LoopInv' /\ WorkInv'
        BY <1>1, <1>2, <1>3, <2>1, <2>2, <3>1, <3>2, EnginePlace
      <3>4. Sees(t)'
        BY <1>2, <1>3, <3>1 DEF Sees, SameMotion
      <3> QED
        BY <3>1, <3>3, <3>4
    <2> QED
      BY <2>3, <2>4
  <1>6. \A v \in Users \cup Runs : v # t => at'[v] = at[v]
    BY <1>5, Kinds DEF Moved
  <1>7. ~Pausing'
    BY <1>3, <1>4, <1>5, <1>6 DEF Pausing
  <1>8. EngineInv'
    <2>1. \A v \in Users : at'[v].pc \in {"halting", "pausing"} => v \in engine'.barriers
      BY <1>2, <1>3, <1>5, <1>6 DEF EngineInv
    <2> QED
      BY <1>3, <1>4, <1>7, <2>1 DEF EngineInv
  <1>9. GenInv'
    BY <1>1, <1>2, <1>3 DEF IInv, GenInv, SameMotion, Placed
  <1>10. ASSUME NEW v \in Users \cup Runs PROVE Arrives(v)' /\ Sees(v)'
    <2>1. CASE v = t
      BY <1>5, <2>1, <1>2, Kinds DEF Arrives
    <2>2. CASE v # t
      <3>1. at'[v] = at[v] /\ Arrives(v) /\ Sees(v)
        BY <1>6, <2>2 DEF IInv, ArrivalInv, PlanInv
      <3>2. v \in Users /\ at[v].pc = "begin" /\ v \in engine.admitted => at[v].gen >= halted'
        BY <1>1, <3>1 DEF Arrives
      <3>3. \A w \in Users : at'[w].pc = "halting" => at[w].pc = "halting" /\ at'[w].gen = at[w].gen
        BY <1>5, <1>6
      <3>4. Arrives(v)'
        BY <1>3, <1>4, <3>1, <3>2, <3>3 DEF Arrives
      <3>5. Sees(v)'
        BY <1>3, <3>1 DEF Sees, SameMotion
      <3> QED
        BY <3>4, <3>5
    <2> QED
      BY <2>1, <2>2
  <1>11. HoldInv'
    BY <1>1, <1>3 DEF IInv, PlanInv, HoldInv, SameMotion
  <1> QED
    BY <1>5, <1>8, <1>9, <1>10, <1>11 DEF IInv, ArrivalInv, PlanInv

-----------------------------------------------------------------------------
(* The server when it starts, and every step of it. *)

(* The manager of a server that has started nothing.                       *)
LEMMA NewManagerInOrder ==
  /\ ManagerOK(NewManager) /\ NewManager.run = 0 /\ NewManager.generation = 0 /\ NewManager.edge = None
  <1>1. 0 \in 0 .. MaxRuns
    BY ModesAssumption
  <1>2. NewManager \in Managers
    BY <1>1 DEF NewManager, Managers
  <1> QED
    BY <1>2 DEF NewManager, ManagerOK, Latched

(* The engine of a server that has started nothing.                        *)
LEMMA NewEngineType ==
  /\ NewEngine \in Engines /\ NewEngine.state = "idle" /\ NewEngine.source = "none" /\ NewEngine.gen = 0
  /\ NewEngine.began = 0 /\ NewEngine.plan = 0 /\ NewEngine.barriers = {} /\ NewEngine.targetMu = None
  /\ NewEngine.admitted = {} /\ NewEngine.bound = {}
  <1>1. 0 \in 0 .. MaxRuns
    BY ModesAssumption
  <1> QED
    BY <1>1 DEF NewEngine, Engines, EngineStates, Sources

(* The server has started nothing, or its first mode.                      *)
LEMMA InitInv ==
  Init => IInv
  <1> SUFFICES ASSUME Init PROVE IInv
    OBVIOUS
  <1>1. PICK mode \in Modes \cup {"none"} :
          /\ manager = IF mode = "none" THEN NewManager ELSE ResetForModeStart(NewManager, 1)
          /\ at = [t \in Goroutines |->
                     IF t \in Users THEN Idle
                     ELSE IF t = 1 /\ mode # "none" THEN [New("loop", "wait") EXCEPT !.mode = mode]
                     ELSE New("none", "none")]
    BY DEF Init
  <1>2. engine = NewEngine /\ lifecycleMu = None /\ userControlMu = None /\ fenced = {} /\ calls = 0 /\ halted = 0
    BY DEF Init
  <1>3. /\ ManagerOK(manager) /\ manager.edge = None /\ manager.generation \in Nat
        /\ manager.run = IF mode = "none" THEN 0 ELSE 1
    <2>1. CASE mode = "none"
      BY <1>1, <2>1, NewManagerInOrder
    <2>2. CASE mode # "none"
      <3>1. 1 \in Runs /\ NewManager \in Managers
        BY Kinds, NewManagerInOrder DEF ManagerOK
      <3>2. /\ ManagerOK(manager) /\ manager.run = 1 /\ manager.edge = None
        BY <1>1, <2>2, <3>1, NewManagerInOrder, ResetForModeStartSection, ResetForModeStartFields
      <3> QED
        BY <2>2, <3>2, GenerationType
    <2> QED
      BY <2>1, <2>2
  <1> DEFINE loop == [New("loop", "wait") EXCEPT !.mode = mode]
  <1>4. /\ loop \in Frames /\ loop.pc = "wait" /\ loop.call = "loop" /\ loop.gen = 0 /\ loop.ok = "none"
        /\ loop.loop = 0 /\ loop.saw = Unseen
    <2>1. "wait" \in PCs /\ "loop" \in AllCalls \cup {"none", "loop", "reap"} /\ mode \in Sources
      BY ModesAssumption DEF PCs, LoopPC, Sources
    <2>2. /\ New("loop", "wait") \in Frames
          /\ New("loop", "wait").pc = "wait" /\ New("loop", "wait").call = "loop" /\ New("loop", "wait").mode = "none"
          /\ New("loop", "wait").id = 0 /\ New("loop", "wait").gen = 0 /\ New("loop", "wait").saw = Unseen
          /\ New("loop", "wait").ok = "none" /\ New("loop", "wait").loop = 0
      BY <2>1, NewType
    <2> QED
      BY <2>1, <2>2 DEF Frames
  <1> HIDE DEF loop
  <1>5. /\ New("none", "none") \in Frames /\ New("none", "none").pc = "none" /\ New("none", "none").call = "none"
        /\ New("none", "none").gen = 0 /\ New("none", "none").ok = "none" /\ New("none", "none").loop = 0
        /\ New("none", "none").saw = Unseen
    <2>1. "none" \in PCs
      BY DEF PCs, LoopPC
    <2> QED
      BY <2>1, NewType
  <1>6. \A t \in Goroutines : /\ t \in Users => at[t] = Idle
                              /\ t \notin Users /\ t = 1 /\ mode # "none" => at[t] = loop
                              /\ t \notin Users /\ ~(t = 1 /\ mode # "none") => at[t] = New("none", "none")
    BY <1>1 DEF loop
  <1>7. at \in [Goroutines -> Frames]
    <2>1. \A t \in Goroutines : (IF t \in Users THEN Idle
                                 ELSE IF t = 1 /\ mode # "none" THEN [New("loop", "wait") EXCEPT !.mode = mode]
                                 ELSE New("none", "none")) \in Frames
      BY <1>4, <1>5, IdleType DEF loop
    <2> QED
      BY <1>1, <2>1
  <1>8. \A t \in Goroutines : /\ at[t].pc \in {"idle", "wait", "none"} /\ at[t].gen = 0 /\ at[t].ok = "none"
                              /\ at[t].saw = Unseen
    BY <1>4, <1>5, <1>6, IdleType
  <1>9. StateOK
    BY <1>2, <1>3, <1>7, NewEngineType DEF StateOK
  <1>10. PlaceInv
    <2> SUFFICES ASSUME NEW t \in Goroutines PROVE Placed(t)
      BY DEF PlaceInv
    <2>1. t \in Users => UserShape(at[t])
      BY <1>6, IdleType DEF UserShape
    <2>2. t \in Runs => LoopShape(at[t])
      BY <1>4, <1>5, <1>6, Kinds DEF LoopShape, LoopPC
    <2>3. t \in Reapers => ReapShape(at[t])
      BY <1>5, <1>6, Kinds DEF ReapShape
    <2>4. ~InLifecycle(at[t]) /\ ~InTarget(at[t]) /\ t # None
      BY <1>8, Kinds DEF InLifecycle, InTarget
    <2>5. ~InControl(at[t])
      <3>1. at[t].call \in {"none", "loop"}
        BY <1>4, <1>5, <1>6, IdleType
      <3> QED
        BY <3>1 DEF InControl
    <2> QED
      BY <1>2, <1>3, <1>8, <2>1, <2>2, <2>3, <2>4, <2>5, NewEngineType, GenerationType DEF Placed
  <1>11. LoopInv
    <2>1. /\ mode = "none" => Used = {} /\ LiveLoops = {}
          /\ mode # "none" => Used = {1} /\ LiveLoops = {1}
      BY <1>4, <1>5, <1>6, Kinds DEF Used, LiveLoops
    <2>2. {} = 1 .. 0 /\ {1} = 1 .. 1 /\ 0 \in 0 .. MaxRuns /\ 1 \in 0 .. MaxRuns
      BY ModesAssumption
    <2>3. \E n \in 0 .. MaxRuns : Used = 1 .. n
      BY <2>1, <2>2
    <2>4. \A k \in LiveLoops : k = manager.run
      BY <1>3, <2>1
    <2>5. \A u \in Users : at[u].pc # "install"
      BY <1>8, Kinds
    <2> QED
      BY <1>2, <2>3, <2>4, <2>5 DEF LoopInv
  <1>12. WorkInv
    <2>1. \A k \in Runs : at[k].pc \notin Working /\ at[k].pc # "edgeReturn"
      BY <1>8, Kinds DEF Working
    <2> QED
      BY <2>1 DEF WorkInv
  <1>13. GenInv
    BY <1>2, <1>3, NewEngineType, GenerationType DEF GenInv
  <1>14. EngineInv
    <2>1. \A u \in Users : at[u].pc \notin {"halting", "pausing"}
      BY <1>8, Kinds
    <2> QED
      BY <1>2, <2>1, NewEngineType DEF EngineInv, Pausing
  <1>15. ArrivalInv
    BY <1>8, Kinds DEF ArrivalInv, Arrives
  <1>16. PlanInv
    <2>1. HoldInv
      BY <1>3 DEF HoldInv
    <2>2. ASSUME NEW t \in Users \cup Runs PROVE Sees(t)
      <3>1. at[t].saw = Unseen /\ Unseen.plan = 0 /\ at[t].pc \in {"idle", "wait", "none"}
        BY <1>8, Kinds DEF Unseen
      <3>2. engine.plan = 0
        BY <1>2, NewEngineType
      <3> QED
        BY <3>1, <3>2 DEF Sees
    <2> QED
      BY <2>1, <2>2 DEF PlanInv
  <1> QED
    BY <1>9, <1>10, <1>11, <1>12, <1>13, <1>14, <1>15, <1>16 DEF IInv

(* Every step of a request preserves the inductive invariant.              *)
LEMMA UserStepInv ==
  ASSUME IInv, NEW u \in Users, UserStep(u)
  PROVE  IInv'
  <1>1. CASE StartRegister(u) \/ StartControl(u) \/ StartAdmit(u) \/ StartInstall(u) \/ StartVerify(u)
    BY <1>1, StartRegisterStep, StartControlStep, StartAdmitStep, StartInstallStep, StartVerifyStep
  <1>2. CASE StopFence(u) \/ StopNotify(u) \/ StopBegin(u) \/ HaltEnter(u)
    BY <1>2, StopFenceStep, StopNotifyStep, StopBeginStep, HaltEnterStep
  <1>3. CASE PauseRegister(u) \/ ResumeRegister(u) \/ PauseControl(u) \/ PauseFinish(u)
    BY <1>3, PauseRegisterStep, ResumeRegisterStep, PauseControlStep, PauseFinishStep
  <1>4. CASE ChatBegin(u) \/ ChatReply(u) \/ ChatPrepare(u) \/ ChatNotify(u) \/ ChatComplete(u)
    BY <1>4, ChatBeginStep, ChatReplyStep, ChatPrepareStep, ChatNotifyStep, ChatCompleteStep
  <1>5. CASE ReviewBegin(u) \/ ReviewApply(u) \/ ReviewFinish(u)
    BY <1>5, ReviewBeginStep, ReviewApplyStep, ReviewFinishStep
  <1>6. CASE Observe(u) \/ Reconcile(u) \/ EdgeHold(u) \/ EdgeApplied(u)
    BY <1>6, ObserveStep, ReconcileStep, EdgeHoldStep, EdgeAppliedStep
  <1>7. CASE ReturnRegister(u) \/ ReturnControl(u) \/ SettingsSaved(u) \/ SettingsApplied(u)
    BY <1>7, ReturnRegisterStep, ReturnControlStep, SettingsSavedStep, SettingsAppliedStep
  <1>8. CASE EngineResume(u) \/ EnginePause(u) \/ EnginePaused(u) \/ EngineStop(u) \/ EngineStopped(u)
    BY <1>8, EngineResumeStep, EnginePauseStep, EnginePausedStep, EngineStopStep, EngineStoppedStep
  <1> QED
    BY <1>1, <1>2, <1>3, <1>4, <1>5, <1>6, <1>7, <1>8 DEF UserStep

(* Every step of a mode loop preserves the inductive invariant.            *)
LEMMA LoopStepInv ==
  ASSUME IInv, NEW k \in Runs, LoopStep(k)
  PROVE  IInv'
  <1>1. CASE LoopExit(k) \/ Tick(k) \/ TickEdge(k) \/ EdgeTick(k) \/ PlanEdgeReturn(k) \/ EdgeReturn(k)
    BY <1>1, LoopExitStep, TickStep, TickEdgeStep, EdgeTickStep, PlanEdgeReturnStep, EdgeReturnStep
  <1>2. CASE DecideIdle(k) \/ DecideRunning(k) \/ DecideNothing(k) \/ Ensure(k) \/ Plan(k)
    BY <1>2, DecideIdleStep, DecideRunningStep, DecideNothingStep, EnsureStep, PlanStep
  <1>3. CASE ApplyChoice(k) \/ Texture(k) \/ Applied(k) \/ Failed(k)
    BY <1>3, ApplyChoiceStep, TextureStep, AppliedStep, FailedStep
  <1> QED
    BY <1>1, <1>2, <1>3 DEF LoopStep

(* Every step inside the engine preserves the inductive invariant.         *)
LEMMA EngineStepInv ==
  ASSUME IInv, NEW t \in Users \cup Runs, EngineStep(t)
  PROVE  IInv'
  <1>1. CASE EngineBegin(t) \/ EngineStartup(t) \/ EngineTarget(t) \/ EngineLead(t) \/ EngineCommit(t)
    BY <1>1, EngineBeginStep, EngineStartupStep, EngineTargetStep, EngineLeadStep, EngineCommitStep
  <1>2. CASE ReturnFinish(t)
    BY <1>2, ReturnFinishUserStep, ReturnFinishLoopStep
  <1> QED
    BY <1>1, <1>2 DEF EngineStep

(* So does a step that changes nothing.                                    *)
LEMMA StutterInv ==
  ASSUME IInv, UNCHANGED vars
  PROVE  IInv'
  <1>1. /\ manager' = manager /\ engine' = engine /\ lifecycleMu' = lifecycleMu /\ userControlMu' = userControlMu
        /\ fenced' = fenced /\ at' = at /\ calls' = calls /\ halted' = halted
    BY DEF vars
  <1>2. StateOK' /\ GenInv' /\ LoopInv' /\ WorkInv'
    BY <1>1 DEF IInv, StateOK, ManagerOK, Latched, GenInv, LoopInv, Used, LiveLoops, NextRun, WorkInv, InForce, Current,
                HoldID
  <1>3. PlaceInv'
    BY <1>1 DEF IInv, PlaceInv, Placed, UserShape
  <1>4. EngineInv' /\ ArrivalInv' /\ PlanInv'
    BY <1>1 DEF IInv, EngineInv, Pausing, Fresh, ArrivalInv, Arrives, Guarded, PlanInv, HoldInv, Sees
  <1> QED
    BY <1>2, <1>3, <1>4 DEF IInv

(* Every step preserves the inductive invariant.                           *)
LEMMA StepInv ==
  IInv /\ [Next]_vars => IInv'
  <1> SUFFICES ASSUME IInv, [Next]_vars PROVE IInv'
    OBVIOUS
  <1>1. ASSUME NEW u \in Users, UserStep(u) PROVE IInv'
    BY <1>1, UserStepInv
  <1>2. ASSUME NEW k \in Runs, LoopStep(k) PROVE IInv'
    BY <1>2, LoopStepInv
  <1>3. ASSUME NEW t \in Users \cup Runs, EngineStep(t) PROVE IInv'
    BY <1>3, EngineStepInv
  <1>4. ASSUME NEW t \in Users \cup Reapers, StopStep(t) PROVE IInv'
    BY <1>4, DrainStep, ManagerStopStep DEF StopStep
  <1>5. ASSUME NEW t \in Reapers, StopLoopAtGeneration(t) PROVE IInv'
    BY <1>5, StopLoopAtGenerationStep
  <1>6. CASE EngineFails
    BY <1>6, EngineFailsStep
  <1>7. CASE UNCHANGED vars
    BY <1>7, StutterInv
  <1> QED
    BY <1>1, <1>2, <1>3, <1>4, <1>5, <1>6, <1>7 DEF Next, Finished

-----------------------------------------------------------------------------
(* What the steps do to a goroutine that moves the engine's motion. *)

(* A request's own steps leave alone who stands in the engine, itself      *)
(* included.                                                               *)
LEMMA UserElsewhere ==
  ASSUME IInv, NEW u \in Users, UserStep(u), NEW t \in Users \cup Runs, at[t].pc \in {"begin", "lead", "commit"}
  PROVE  at'[t] = at[t]
  <1>1. at \in [Goroutines -> Frames] /\ t \in Goroutines /\ u \in Goroutines
    BY Kinds DEF IInv, StateOK
  <1>2. CASE StartRegister(u) \/ StartControl(u) \/ StartAdmit(u) \/ StartVerify(u)
    <2>1. CASE StartRegister(u)
      BY <1>1, <2>1 DEF StartRegister, Enter, Open
    <2>2. CASE StartControl(u) \/ StartVerify(u)
      BY <1>1, <2>2 DEF StartControl, StartVerify, Go, Leave
    <2>3. CASE StartAdmit(u)
      BY <1>1, <2>3 DEF StartAdmit, Leave
    <2> QED
      BY <1>2, <2>1, <2>2, <2>3
  <1>3. CASE StartInstall(u)
    <2>1. NextRun # t
      <3>1. NextRun \in Runs
        BY <1>3 DEF StartInstall, IInv, LoopInv
      <3> QED
        BY <3>1, NextRunIsFree DEF IInv
    <2> QED
      BY <1>1, <1>3, <2>1 DEF StartInstall, Leave
  <1>4. CASE StopFence(u) \/ StopNotify(u) \/ StopBegin(u) \/ HaltEnter(u)
    BY <1>1, <1>4 DEF StopFence, StopNotify, StopBegin, HaltEnter, Enter, Open, Go
  <1>5. CASE PauseRegister(u) \/ ResumeRegister(u) \/ PauseControl(u) \/ PauseFinish(u)
    BY <1>1, <1>5 DEF PauseRegister, ResumeRegister, PauseControl, PauseFinish, Enter, Open, Go, Leave
  <1>6. CASE ChatBegin(u) \/ ChatReply(u) \/ ChatPrepare(u) \/ ChatNotify(u) \/ ChatComplete(u)
    BY <1>1, <1>6 DEF ChatBegin, ChatReply, ChatPrepare, ChatNotify, ChatComplete, Enter, Open, Go, Leave
  <1>7. CASE ReviewBegin(u) \/ ReviewApply(u) \/ ReviewFinish(u)
    BY <1>1, <1>7 DEF ReviewBegin, ReviewApply, ReviewFinish, Enter, Open, Leave
  <1>8. CASE Observe(u) \/ Reconcile(u) \/ EdgeHold(u) \/ EdgeApplied(u)
    BY <1>1, <1>8 DEF Observe, Reconcile, EdgeHold, EdgeApplied, Enter, Open, Leave
  <1>9. CASE ReturnRegister(u) \/ ReturnControl(u) \/ SettingsSaved(u) \/ SettingsApplied(u)
    BY <1>1, <1>9 DEF ReturnRegister, ReturnControl, ReturnBegin, SettingsSaved, SettingsApplied, Enter, Open, Leave
  <1>10. CASE EngineResume(u) \/ EnginePause(u) \/ EnginePaused(u) \/ EngineStop(u) \/ EngineStopped(u)
    BY <1>1, <1>10 DEF EngineResume, EnginePause, EnginePaused, EngineStop, EngineStopped, Go, Leave, Answer
  <1> QED
    BY <1>2, <1>3, <1>4, <1>5, <1>6, <1>7, <1>8, <1>9, <1>10 DEF UserStep

(* So do a loop's own steps.                                               *)
LEMMA LoopElsewhere ==
  ASSUME IInv, NEW k \in Runs, LoopStep(k), NEW t \in Users \cup Runs, at[t].pc \in {"begin", "lead", "commit"}
  PROVE  at'[t] = at[t]
  <1>1. at \in [Goroutines -> Frames] /\ t \in Goroutines /\ k \in Goroutines /\ Reaper(k) \in Goroutines /\ t # Reaper(k)
    BY Kinds DEF IInv, StateOK
  <1>2. at[k].pc \notin {"begin", "lead", "commit"}
    BY DEF LoopStep, LoopExit, Tick, TickEdge, EdgeTick, PlanEdgeReturn, EdgeReturn, DecideIdle, DecideRunning,
           DecideNothing, Ensure, Plan, ApplyChoice, Texture, Applied, Failed
  <1>3. t # k /\ Wait(k) \in [Goroutines -> Frames] /\ Wait(k)[t] = at[t]
    <2>1. [Idle EXCEPT !.pc = "wait", !.call = "loop", !.mode = at[k].mode] \in Frames
      BY <1>1, IdleType DEF Frames, LoopPC
    <2> QED
      BY <1>1, <1>2, <2>1 DEF Wait
  <1>4. at' = Wait(k) => at'[t] = at[t]
    BY <1>3
  <1>5. \A pc : Go(k, pc) => at'[t] = at[t]
    BY <1>1, <1>3 DEF Go
  <1>6. at' = Decide(k) => at'[t] = at[t]
    BY <1>1, <1>3 DEF Decide
  <1>7. \A pc, gen : Spawn(k, pc, gen) => at'[t] = at[t]
    BY <1>1, <1>3 DEF Spawn
  <1>8. \A pc : Work(k, pc) => at'[t] = at[t]
    BY <1>1, <1>3 DEF Work
  <1>9. CASE LoopExit(k) \/ EdgeTick(k) \/ PlanEdgeReturn(k) \/ DecideNothing(k) \/ Ensure(k) \/ Plan(k)
             \/ ApplyChoice(k) \/ Applied(k)
    BY <1>4, <1>5, <1>9 DEF LoopExit, EdgeTick, PlanEdgeReturn, DecideNothing, Ensure, Plan, ApplyChoice, Applied,
                            EndTick
  <1>10. CASE Tick(k) \/ TickEdge(k)
    BY <1>1, <1>3, <1>4, <1>6, <1>10 DEF Tick, TickEdge
  <1>11. CASE EdgeReturn(k)
    BY <1>1, <1>3, <1>4, <1>11 DEF EdgeReturn, ReturnBegin
  <1>12. CASE DecideIdle(k) \/ DecideRunning(k) \/ Failed(k)
    BY <1>4, <1>7, <1>8, <1>12 DEF DecideIdle, DecideRunning, Failed, EndTick
  <1>13. CASE Texture(k)
    BY <1>1, <1>3, <1>4, <1>13 DEF Texture, EndTick
  <1> QED
    BY <1>9, <1>10, <1>11, <1>12, <1>13 DEF LoopStep

(* In the engine a call is moved by itself alone.                          *)
LEMMA EngineElsewhere ==
  ASSUME IInv, NEW v \in Users \cup Runs, EngineStep(v), NEW t \in Users \cup Runs,
         at[t].pc \in {"begin", "lead", "commit"}
  PROVE  at'[t] = at[t] \/ EngineBegin(t) \/ EngineLead(t) \/ EngineCommit(t)
  <1>1. at \in [Goroutines -> Frames] /\ t \in Goroutines /\ v \in Goroutines
    BY Kinds DEF IInv, StateOK
  <1>2. CASE v = t
    BY <1>2 DEF EngineStep, EngineStartup, EngineTarget, ReturnFinish
  <1>3. CASE v # t
    <2>1. CASE EngineBegin(v) \/ EngineStartup(v) \/ EngineTarget(v)
      BY <1>1, <1>3, <2>1 DEF EngineBegin, EngineStartup, EngineTarget, Go, Answer
    <2>2. CASE EngineLead(v) \/ EngineCommit(v)
      BY <1>1, <1>3, <2>2 DEF EngineLead, EngineCommit, Go, Answer
    <2>3. CASE ReturnFinish(v)
      BY <1>1, <1>3, <2>3 DEF ReturnFinish, Leave, Wait
    <2> QED
      BY <2>1, <2>2, <2>3 DEF EngineStep
  <1> QED
    BY <1>2, <1>3

(* Whoever is about to start, or to commit a target, is moved by no step   *)
(* but the engine's.                                                       *)
LEMMA OnlyTheEngine ==
  ASSUME IInv, [Next]_vars, NEW t \in Users \cup Runs, at[t].pc \in {"begin", "lead", "commit"}
  PROVE  at'[t] = at[t] \/ EngineBegin(t) \/ EngineLead(t) \/ EngineCommit(t)
  <1>1. at \in [Goroutines -> Frames] /\ t \in Goroutines /\ t \notin Reapers
    BY Kinds DEF IInv, StateOK
  <1>2. ASSUME NEW u \in Users, UserStep(u) PROVE at'[t] = at[t]
    BY <1>2, UserElsewhere
  <1>3. ASSUME NEW k \in Runs, LoopStep(k) PROVE at'[t] = at[t]
    BY <1>3, LoopElsewhere
  <1>4. ASSUME NEW v \in Users \cup Runs, EngineStep(v)
        PROVE  at'[t] = at[t] \/ EngineBegin(t) \/ EngineLead(t) \/ EngineCommit(t)
    BY <1>4, EngineElsewhere
  <1>5. ASSUME NEW v \in Users \cup Reapers, StopStep(v) PROVE at'[t] = at[t]
    BY <1>1, <1>5, Kinds DEF StopStep, Drain, ManagerStop, Leave, Go
  <1>6. ASSUME NEW v \in Reapers, StopLoopAtGeneration(v) PROVE at'[t] = at[t]
    BY <1>1, <1>6, Kinds DEF StopLoopAtGeneration, Go
  <1>7. CASE EngineFails
    BY <1>7 DEF EngineFails
  <1>8. CASE UNCHANGED vars
    BY <1>8 DEF vars
  <1> QED
    BY <1>2, <1>3, <1>4, <1>5, <1>6, <1>7, <1>8 DEF Next, Finished

-----------------------------------------------------------------------------
(* Theorems. *)

(* Any number of requests and mode loops: the inductive invariant holds    *)
(* throughout.                                                             *)
THEOREM Inductive ==
  Spec => []IInv
  BY InitInv, StepInv, PTL DEF Spec

(* Type correctness, and that a lock is held by a call that needs it:      *)
(* lifecycleMu by a start or a stop, userControlMu by a control, targetMu  *)
(* by a target.                                                            *)
THEOREM TypeCorrect ==
  Spec => []TypeOK
  <1>1. IInv => TypeOK
    <2> SUFFICES ASSUME IInv PROVE TypeOK
      OBVIOUS
    <2>1. StateOK /\ ManagerOK(manager) /\ engine \in Engines /\ \A t \in Goroutines : Placed(t)
      BY DEF IInv, StateOK, PlaceInv
    <2>2. /\ manager.run \in 0 .. MaxRuns /\ manager.generation \in Nat
          /\ manager.operation \in Goroutines \cup {None}
          /\ manager.revoked \subseteq Goroutines /\ manager.cancelled \subseteq Runs
          /\ manager.pauses \subseteq 1 .. manager.intent
          /\ manager.edge # None => manager.edge \in Holds
          /\ manager.planned # None => manager.planned \in Nat
          /\ manager.tickets \subseteq Users
      BY <2>1 DEF ManagerOK, Managers
    <2>3. engine.state \in {"idle", "starting", "running", "paused"}
      BY <2>1 DEF Engines, EngineStates
    <2>4. lifecycleMu # None => at[lifecycleMu].pc \in {"install", "halt", "halting", "drain"}
      BY <2>1, Kinds DEF StateOK, Placed, InLifecycle
    <2>5. userControlMu # None => at[userControlMu].call \in {"start", "pause", "resume", "edge", "return"}
      BY <2>1, Kinds DEF StateOK, Placed, InControl
    <2>6. engine.targetMu # None => at[engine.targetMu].pc \in {"lead", "commit"}
      BY <2>1, Kinds DEF Engines, Placed, InTarget
    <2> QED
      BY <2>2, <2>3, <2>4, <2>5, <2>6 DEF TypeOK
  <1> QED
    BY <1>1, Inductive, PTL

(* At most one mode loop lives, and while nobody holds lifecycleMu it is   *)
(* the one that the manager has installed.                                 *)
THEOREM AtMostOneLoop ==
  Spec => []OneLoop
  <1>1. IInv => OneLoop
    <2> SUFFICES ASSUME IInv PROVE OneLoop
      OBVIOUS
    <2>1. Cardinality(LiveLoops) <= 1
      <3>1. CASE LiveLoops = {}
        BY <3>1, FS_EmptySet
      <3>2. CASE LiveLoops # {}
        <4>1. PICK k \in LiveLoops : LiveLoops = {k}
          BY <3>2, OnlyLoop DEF IInv
        <4>2. Cardinality({k}) = 1
          BY FS_Singleton
        <4> QED
          BY <4>1, <4>2
      <3> QED
        BY <3>1, <3>2
    <2> QED
      BY <2>1 DEF OneLoop, IInv, LoopInv
  <1> QED
    BY <1>1, Inductive, PTL

(* What the engine plays, starts or may resume was admitted after the last *)
(* Stop: no operation, hold, return, chat turn or edit that a Stop         *)
(* overtook brings its motion back.                                        *)
THEOREM StoppedWorkStays ==
  Spec => []NoRevival
  <1>1. IInv => NoRevival
    BY DEF IInv, EngineInv, Fresh, Running, NoRevival
  <1> QED
    BY <1>1, Inductive, PTL

(* A loop puts motion on the engine only for its own current generation,   *)
(* while the user has neither stopped nor paused nor begun a chat handoff. *)
THEOREM LoopsWorkIsCurrent ==
  Spec => WorkIsCurrent
  <1>1. IInv /\ [Next]_vars =>
          [\A k \in Runs : PutsMotion(k) =>
             /\ Current(manager, k, at[k].gen)
             /\ ~manager.stopped /\ ~manager.paused /\ ~manager.pending]_vars
    <2> SUFFICES ASSUME IInv, [Next]_vars, NEW k \in Runs, PutsMotion(k)
                 PROVE  InForce(k, at[k].gen)
      BY DEF InForce
    <2>1. at[k].pc \in {"begin", "lead"} /\ at'[k].pc \in {"startup", "commit"} /\ k \in Users \cup Runs
      BY DEF PutsMotion
    <2>2. EngineBegin(k) \/ EngineLead(k)
      <3>1. at'[k] # at[k] /\ ~EngineCommit(k)
        BY <2>1 DEF EngineCommit
      <3> QED
        BY <2>1, <3>1, OnlyTheEngine
    <2>3. Live(k)
      <3>1. StateOK /\ k \in Goroutines
        BY Kinds DEF IInv
      <3>2. Answer(k, "no") => at'[k].pc = "answered"
        BY <3>1, AnswerEffect
      <3> QED
        BY <2>1, <2>2, <3>2 DEF EngineBegin, EngineLead
    <2> QED
      BY <2>1, <2>3, LiveWork DEF Working
  <1> QED
    BY <1>1, Inductive, PTL DEF Spec, WorkIsCurrent

(* Who stands at the commit and is answered with more than a refusal has   *)
(* committed for the run that is on.                                       *)
LEMMA Commits ==
  ASSUME IInv, [Next]_vars, NEW t \in Users \cup Runs, at[t].pc = "commit", at'[t].ok \in {"yes", "late"}
  PROVE  t \in engine.bound
  <1>1. StateOK /\ t \in Goroutines /\ at[t].ok = "none"
    BY Kinds DEF IInv, PlaceInv, Placed
  <1>2. EngineCommit(t)
    <2>1. at'[t] = at[t] \/ EngineBegin(t) \/ EngineLead(t) \/ EngineCommit(t)
      BY OnlyTheEngine
    <2> QED
      BY <1>1, <2>1 DEF EngineBegin, EngineLead
  <1>3. Answer(t, "no") => at'[t].ok = "no"
    BY <1>1, AnswerEffect
  <1> QED
    BY <1>2, <1>3 DEF EngineCommit

(* A decision of the mode never replaces motion of a newer generation.     *)
THEOREM NewerMotionIsKept ==
  Spec => NewerMotionStands
  <1>1. IInv /\ [Next]_vars =>
          [\A k \in Runs : at[k].pc = "commit" /\ at'[k].ok \in {"yes", "late"} => engine.gen <= at[k].gen]_vars
    <2> SUFFICES ASSUME IInv, [Next]_vars, NEW k \in Runs, at[k].pc = "commit", at'[k].ok \in {"yes", "late"}
                 PROVE  engine.gen <= at[k].gen
      OBVIOUS
    <2>1. k \in engine.bound
      BY Commits
    <2> QED
      BY <2>1 DEF IInv, ArrivalInv, Arrives
  <1> QED
    BY <1>1, Inductive, PTL DEF Spec, NewerMotionStands

(* A return replaces the motion of the gentle hold and no other.           *)
THEOREM ReturnReplacesTheHold ==
  Spec => ReturnEndsHold
  <1>1. IInv /\ [Next]_vars =>
          [\A t \in Users \cup Runs :
             at[t].call = "return" /\ at[t].pc = "commit" /\ at'[t].ok \in {"yes", "late"} =>
               engine.source = "edge"]_vars
    <2> SUFFICES ASSUME IInv, [Next]_vars, NEW t \in Users \cup Runs, at[t].call = "return", at[t].pc = "commit",
                        at'[t].ok \in {"yes", "late"}
                 PROVE  engine.source = "edge"
      OBVIOUS
    <2>1. t \in engine.bound
      BY Commits
    <2> QED
      BY <2>1 DEF IInv, PlanInv, Sees
  <1> QED
    BY <1>1, Inductive, PTL DEF Spec, ReturnEndsHold

=============================================================================
