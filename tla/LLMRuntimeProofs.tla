--------------------------- MODULE LLMRuntimeProofs ---------------------------
(***************************************************************************)
(* The coordinator of the local model, for any finite set of clients, and  *)
(* the server around it, for any requests, autoloads and changers.         *)
(*                                                                         *)
(* First the coordinator: its bookkeeping, the precedence of chat, the     *)
(* currency of leases, and that it implements the slot of LLMSlot.  Then   *)
(* the server: a step of LLMRuntime is a step of the coordinator, or none, *)
(* so that IInv holds of it as well.  RInv adds what the callers rely on.  *)
(* A request that is past its check and was not told to stop has the saved *)
(* configuration (CheckedIsCurrent), or a save has not begun its transition*)
(* yet: beginChange cancels the holder, and as long as the transition is   *)
(* counted (ChangesCounted) nobody is admitted.                            *)
(***************************************************************************)
EXTENDS LLMRuntime, FiniteSetTheorems, TLAPS

(* What a client's locals are at its stations: only a chat turn in the loop *)
(* is counted, and a lease being released has been cancelled.               *)
Locals ==
  \A r \in Clients :
    /\ registered[r] => priority[r] = "interactive" /\ pc[r] \in {"loop", "wait"}
    /\ pc[r] = "free" => cancelled[r]

IInv ==
  /\ SchedulerTypeOK
  /\ WaitersCounted
  /\ Locals
  /\ ChatComesFirst
  /\ LiveLeaseIsCurrent

-------------------------------------------------------------------------------
(* Waking the waiters moves nobody into or out of a lease.                  *)
LEMMA SignalType ==
  ASSUME SchedulerTypeOK, NEW r, NEW next \in PCs
  PROVE  /\ Signal(r, next) \in [Clients -> PCs]
         /\ \A x \in Clients : /\ x = r => Signal(r, next)[x] = next
                               /\ x # r => \/ Signal(r, next)[x] = pc[x]
                                           \/ pc[x] = "wait" /\ Signal(r, next)[x] = "loop"
  BY DEF Signal, SchedulerTypeOK, PCs

LEMMA SignalAllType ==
  ASSUME SchedulerTypeOK
  PROVE  /\ SignalAll \in [Clients -> PCs]
         /\ \A x \in Clients : \/ SignalAll[x] = pc[x]
                               \/ pc[x] = "wait" /\ SignalAll[x] = "loop"
  BY ClientsAssumption DEF SignalAll, Signal, SchedulerTypeOK, PCs

LEMMA CancelType ==
  ASSUME SchedulerTypeOK, NEW r \in Clients \cup {None}
  PROVE  /\ Cancel(r) \in [Clients -> BOOLEAN]
         /\ \A x \in Clients : Cancel(r)[x] = (x = r \/ cancelled[x])
  BY ClientsAssumption DEF Cancel, SchedulerTypeOK

LEMMA WaitingFinite ==
  ASSUME SchedulerTypeOK
  PROVE  IsFiniteSet(Waiting) /\ Cardinality(Waiting) \in Nat
  BY ClientsAssumption, FS_Subset, FS_CardinalityType DEF Waiting

(* A chat turn that joins the waiting ones counts once ...                  *)
LEMMA Joins ==
  ASSUME SchedulerTypeOK, NEW r \in Clients, ~registered[r]
  PROVE  Cardinality(Waiting \cup {r}) = Cardinality(Waiting) + 1
  BY WaitingFinite, FS_AddElement DEF Waiting

(* ... and leaves the count as it joined it.                                *)
LEMMA Leaves ==
  ASSUME SchedulerTypeOK, NEW r \in Clients
  PROVE  Cardinality(Waiting \ {r})
           = Cardinality(Waiting) - (IF registered[r] THEN 1 ELSE 0)
  <1>1. Cardinality(Waiting \ {r})
          = IF r \in Waiting THEN Cardinality(Waiting) - 1 ELSE Cardinality(Waiting)
    BY WaitingFinite, FS_RemoveElement
  <1>2. r \in Waiting <=> registered[r]
    BY DEF Waiting
  <1>3. QED
    BY <1>1, <1>2, WaitingFinite

-------------------------------------------------------------------------------
(* The count stays a natural number because it is the size of a set.         *)
LEMMA TypeStep == IInv /\ [Next]_schedulerVars => SchedulerTypeOK'
  <1> SUFFICES ASSUME IInv, [Next]_schedulerVars PROVE SchedulerTypeOK'
    OBVIOUS
  <1> USE DEF SchedulerTypeOK
  <1>0. SchedulerTypeOK
    BY DEF IInv
  <1>c. /\ \A r \in Clients, next \in PCs : Signal(r, next) \in [Clients -> PCs]
        /\ SignalAll \in [Clients -> PCs]
        /\ \A r \in Clients \cup {None} : Cancel(r) \in [Clients -> BOOLEAN]
    BY <1>0, SignalType, SignalAllType, CancelType
  <1>d. \A r \in Clients : registered[r] => interactiveWaiters - 1 \in Nat
    <2> SUFFICES ASSUME NEW r \in Clients, registered[r] PROVE interactiveWaiters - 1 \in Nat
      OBVIOUS
    <2>1. interactiveWaiters = Cardinality(Waiting) /\ r \in Waiting
      BY DEF IInv, WaitersCounted, Waiting
    <2>2. Cardinality(Waiting) # 0
      BY <1>0, <2>1, WaitingFinite, FS_EmptySet
    <2>3. QED
      BY <1>0, <2>1, <2>2
  <1>1. ASSUME NEW r \in Clients, NEW p \in Priorities, Acquire(r, p)
        PROVE  SchedulerTypeOK'
    BY <1>0, <1>1 DEF Acquire, coordinator, PCs
  <1>2. ASSUME NEW r \in Clients, ContextDone(r) PROVE SchedulerTypeOK'
    BY <1>0, <1>2 DEF ContextDone, coordinator, PCs
  <1>3. ASSUME NEW r \in Clients, ReleaseCancel(r) PROVE SchedulerTypeOK'
    BY <1>0, <1>3, <1>c DEF ReleaseCancel, coordinator, PCs
  <1>4. ASSUME NEW r \in Clients, LoadGeneration(r) PROVE SchedulerTypeOK'
    BY <1>0, <1>4 DEF LoadGeneration, coordinator, PCs
  <1>5. ASSUME NEW r \in Clients, Refuse(r) PROVE SchedulerTypeOK'
    <2>1. interactiveWaiters' \in Nat
      BY <1>0, <1>5, <1>d DEF Refuse
    <2>2. pc' \in [Clients -> PCs]
      BY <1>0, <1>5, <1>c DEF Refuse, PCs
    <2>3. QED
      BY <1>0, <1>5, <2>1, <2>2 DEF Refuse, Forget, Priorities
  <1>6. ASSUME NEW r \in Clients, Admit(r) PROVE SchedulerTypeOK'
    <2>1. interactiveWaiters' \in Nat
      BY <1>0, <1>6, <1>d DEF Admit, WaitersWith, Registers
    <2>2. pc' \in [Clients -> PCs]
      BY <1>0, <1>6, <1>c DEF Admit, PCs
    <2>3. QED
      BY <1>0, <1>6, <2>1, <2>2 DEF Admit
  <1>7. ASSUME NEW r \in Clients, Wait(r) PROVE SchedulerTypeOK'
    <2>1. interactiveWaiters' \in Nat
      BY <1>0, <1>7 DEF Wait, WaitersWith
    <2>2. pc' \in [Clients -> PCs]
      BY <1>0, <1>7, <1>c DEF Wait, PCs
    <2>3. cancelled' \in [Clients -> BOOLEAN]
      BY <1>0, <1>7, <1>c DEF Wait
    <2>4. registered' \in [Clients -> BOOLEAN]
      BY <1>0, <1>7 DEF Wait
    <2>5. QED
      BY <1>0, <1>7, <2>1, <2>2, <2>3, <2>4 DEF Wait
  <1>8. ASSUME NEW r \in Clients, ReleaseSlot(r) PROVE SchedulerTypeOK'
    BY <1>0, <1>8, <1>c DEF ReleaseSlot, PCs
  <1>9. ASSUME NEW r \in Clients, ReleaseAgain(r) PROVE SchedulerTypeOK'
    BY <1>0, <1>9 DEF ReleaseAgain, Forget, coordinator, PCs, Priorities
  <1>10. CASE Invalidate
    BY <1>0, <1>10, <1>c DEF Invalidate
  <1>11. CASE BeginChange
    BY <1>0, <1>11, <1>c DEF BeginChange
  <1>12. CASE FinishChange
    BY <1>0, <1>12, <1>c DEF FinishChange
  <1>13. CASE UNCHANGED schedulerVars
    BY <1>0, <1>13 DEF schedulerVars, coordinator, clients
  <1>14. QED
    BY <1>1, <1>2, <1>3, <1>4, <1>5, <1>6, <1>7, <1>8, <1>9, <1>10, <1>11, <1>12, <1>13
    DEF Next, Client

-------------------------------------------------------------------------------
(* What an action does to the set of waiting chat turns, and so to its size. *)
LEMMA CountStep == IInv /\ [Next]_schedulerVars => interactiveWaiters' = Cardinality(Waiting')
  <1> SUFFICES ASSUME IInv, [Next]_schedulerVars PROVE interactiveWaiters' = Cardinality(Waiting')
    OBVIOUS
  <1>0. SchedulerTypeOK /\ Locals /\ interactiveWaiters = Cardinality(Waiting)
    BY DEF IInv, WaitersCounted
  <1>a. Cardinality(Waiting) \in Nat
    BY <1>0, WaitingFinite
  <1>1. CASE UNCHANGED <<interactiveWaiters, registered>>
    BY <1>0, <1>1 DEF Waiting
  <1>2. ASSUME NEW r \in Clients, Refuse(r) PROVE interactiveWaiters' = Cardinality(Waiting')
    <2>1. Waiting' = Waiting \ {r}
      BY <1>0, <1>2 DEF Refuse, Forget, Waiting, SchedulerTypeOK
    <2>2. QED
      BY <1>0, <1>2, <2>1, Leaves DEF Refuse
  <1>3. ASSUME NEW r \in Clients, Admit(r) PROVE interactiveWaiters' = Cardinality(Waiting')
    <2>1. Waiting' = Waiting \ {r}
      BY <1>0, <1>3 DEF Admit, Waiting, SchedulerTypeOK
    <2>2. interactiveWaiters' = interactiveWaiters - (IF registered[r] THEN 1 ELSE 0)
      BY <1>0, <1>3 DEF Admit, WaitersWith, Registers, SchedulerTypeOK, Locals
    <2>3. QED
      BY <1>0, <2>1, <2>2, Leaves
  <1>4. ASSUME NEW r \in Clients, Wait(r) PROVE interactiveWaiters' = Cardinality(Waiting')
    <2>1. CASE Registers(r)
      <3>1. Waiting' = Waiting \cup {r}
        BY <1>0, <1>4, <2>1 DEF Wait, Waiting, SchedulerTypeOK, Registers
      <3>2. interactiveWaiters' = interactiveWaiters + 1
        BY <1>0, <1>4, <2>1 DEF Wait, WaitersWith
      <3>3. QED
        BY <1>0, <2>1, <3>1, <3>2, Joins DEF Registers
    <2>2. CASE ~Registers(r)
      <3>1. Waiting' = Waiting
        BY <1>0, <1>4, <2>2 DEF Wait, Waiting, SchedulerTypeOK, Registers, Locals
      <3>2. interactiveWaiters' = interactiveWaiters
        BY <1>0, <1>4, <2>2 DEF Wait, WaitersWith, SchedulerTypeOK
      <3>3. QED
        BY <1>0, <3>1, <3>2
    <2>3. QED
      BY <2>1, <2>2
  <1>5. ASSUME NEW r \in Clients, ReleaseAgain(r) PROVE interactiveWaiters' = Cardinality(Waiting')
    <2>1. Waiting' = Waiting
      BY <1>0, <1>5 DEF ReleaseAgain, Forget, Waiting, SchedulerTypeOK, Locals
    <2>2. QED
      BY <1>0, <1>5, <2>1 DEF ReleaseAgain, coordinator
  <1>6. QED
    BY <1>1, <1>2, <1>3, <1>4, <1>5
    DEF Next, Client, Acquire, ContextDone, ReleaseCancel, LoadGeneration, ReleaseSlot,
        Invalidate, BeginChange, FinishChange, schedulerVars, coordinator, clients

-------------------------------------------------------------------------------
(* The parts of the invariant that say who holds the slot and how.           *)
Holding == /\ Holders = IF active THEN {activeCancel} ELSE {}
           /\ active <=> activeCancel # None

Rest == Holding /\ Locals /\ ChatComesFirst /\ LiveLeaseIsCurrent

(* Waking leaves the holders alone, a cancel or a release settles the lease, *)
(* and an admission finds no holder.                                         *)
LEMMA HolderStep == IInv /\ [Next]_schedulerVars => Rest'
  <1> SUFFICES ASSUME IInv, [Next]_schedulerVars PROVE Rest'
    OBVIOUS
  <1> USE DEF Rest
  <1>0. SchedulerTypeOK /\ Holding /\ Locals /\ ChatComesFirst /\ LiveLeaseIsCurrent
    BY DEF IInv, WaitersCounted, Holding
  <1>t. SchedulerTypeOK'
    BY TypeStep
  <1>s. ASSUME NEW r, NEW next \in PCs
        PROVE  \A x \in Clients : /\ x = r => Signal(r, next)[x] = next
                                  /\ x # r => \/ Signal(r, next)[x] = pc[x]
                                              \/ pc[x] = "wait" /\ Signal(r, next)[x] = "loop"
    BY <1>0, SignalType
  <1>a. \A x \in Clients : SignalAll[x] = pc[x] \/ (pc[x] = "wait" /\ SignalAll[x] = "loop")
    BY <1>0, SignalAllType
  <1>c. \A r \in Clients \cup {None}, x \in Clients : Cancel(r)[x] = (x = r \/ cancelled[x])
    BY <1>0, CancelType
  <1>1. ASSUME NEW r \in Clients, NEW p \in Priorities, Acquire(r, p) PROVE Rest'
    BY <1>0, <1>1 DEF Acquire, SchedulerTypeOK, coordinator, Holding, Holders, Locals,
                      ChatComesFirst, LiveLeaseIsCurrent
  <1>2. ASSUME NEW r \in Clients, ContextDone(r) PROVE Rest'
    BY <1>0, <1>2 DEF ContextDone, Live, SchedulerTypeOK, coordinator, Holding, Holders, Locals,
                      ChatComesFirst, LiveLeaseIsCurrent
  <1>3. ASSUME NEW r \in Clients, ReleaseCancel(r) PROVE Rest'
    BY <1>0, <1>3, <1>c DEF ReleaseCancel, SchedulerTypeOK, coordinator, Holding, Holders, Locals,
                      ChatComesFirst, LiveLeaseIsCurrent
  <1>4. ASSUME NEW r \in Clients, LoadGeneration(r) PROVE Rest'
    BY <1>0, <1>4 DEF LoadGeneration, SchedulerTypeOK, coordinator, Holding, Holders, Locals,
                      ChatComesFirst, LiveLeaseIsCurrent
  <1>13. CASE UNCHANGED schedulerVars
    BY <1>0, <1>13 DEF schedulerVars, coordinator, clients, Holding, Holders, Locals,
                      ChatComesFirst, LiveLeaseIsCurrent
  <1>9. ASSUME NEW r \in Clients, ReleaseAgain(r) PROVE Rest'
    BY <1>0, <1>9 DEF ReleaseAgain, Forget, SchedulerTypeOK, coordinator, Holding, Holders, Locals,
                      ChatComesFirst, LiveLeaseIsCurrent
  <1>10. CASE Invalidate
    <2>1. Holders' = Holders
      BY <1>0, <1>10, <1>a DEF Invalidate, Holders
    <2>2. \A x \in Holders : cancelled'[x]
      BY <1>0, <1>10, <1>c DEF Invalidate, Holding, SchedulerTypeOK
    <2>3. Locals'
      BY <1>0, <1>10, <1>a, <1>c DEF Invalidate, Locals, SchedulerTypeOK
    <2>4. QED
      BY <1>0, <1>10, <2>1, <2>2, <2>3 DEF Invalidate, Holding, ChatComesFirst, LiveLeaseIsCurrent
  <1>11. CASE BeginChange
    <2>1. Holders' = Holders
      BY <1>0, <1>11, <1>a DEF BeginChange, Holders
    <2>2. \A x \in Holders : cancelled'[x]
      BY <1>0, <1>11, <1>c DEF BeginChange, Holding, SchedulerTypeOK
    <2>3. Locals'
      BY <1>0, <1>11, <1>a, <1>c DEF BeginChange, Locals, SchedulerTypeOK
    <2>4. QED
      BY <1>0, <1>11, <2>1, <2>2, <2>3 DEF BeginChange, Holding, ChatComesFirst, LiveLeaseIsCurrent
  <1>12. CASE FinishChange
    <2>1. Holders' = Holders
      BY <1>0, <1>12, <1>a DEF FinishChange, Holders
    <2>2. Locals'
      BY <1>0, <1>12, <1>a DEF FinishChange, Locals
    <2>3. changing # 0
      BY <1>0, <1>12 DEF FinishChange, SchedulerTypeOK
    <2>4. QED
      BY <1>0, <1>12, <2>1, <2>2, <2>3 DEF FinishChange, Holding, ChatComesFirst, LiveLeaseIsCurrent
  <1>5. ASSUME NEW r \in Clients, Refuse(r) PROVE Rest'
    <2>1. Holders' = Holders
      BY <1>0, <1>5, <1>s DEF Refuse, Holders, SchedulerTypeOK, PCs
    <2>2. Locals'
      BY <1>0, <1>5, <1>s DEF Refuse, Forget, Locals, SchedulerTypeOK, PCs
    <2>3. interactiveWaiters' > 0 => interactiveWaiters > 0
      BY <1>0, <1>5 DEF Refuse, SchedulerTypeOK
    <2>4. r \notin Holders
      BY <1>5 DEF Refuse, Holders
    <2>5. QED
      BY <1>0, <1>5, <2>1, <2>2, <2>3, <2>4
      DEF Refuse, Forget, Holding, Holders, SchedulerTypeOK, ChatComesFirst, LiveLeaseIsCurrent
  <1>6. ASSUME NEW r \in Clients, Admit(r) PROVE Rest'
    <2>1. Holders = {} /\ r # None
      BY <1>0, <1>6, ClientsAssumption DEF Admit, SlotFree, Holding
    <2>2. Holders' = {r}
      BY <1>0, <1>6, <1>s, <2>1 DEF Admit, Holders, SchedulerTypeOK, PCs
    <2>3. Locals'
      BY <1>0, <1>6, <1>s DEF Admit, Locals, SchedulerTypeOK, PCs
    <2>4. priority[r] = "autonomous" => interactiveWaiters' = 0
      BY <1>0, <1>6 DEF Admit, SlotFree, WaitersWith, Registers, SchedulerTypeOK
    <2>5. loaded[r] = generation /\ changing = 0
      BY <1>6 DEF Admit, Fails, SlotFree
    <2>6. QED
      BY <1>6, <2>1, <2>2, <2>3, <2>4, <2>5 DEF Admit, Holding, ChatComesFirst, LiveLeaseIsCurrent
  <1>7. ASSUME NEW r \in Clients, Wait(r) PROVE Rest'
    <2>1. Holders' = Holders
      BY <1>0, <1>7, <1>s DEF Wait, Holders, SchedulerTypeOK, PCs
    <2>2. \A x \in Clients : cancelled[x] => cancelled'[x]
      BY <1>0, <1>7, <1>c DEF Wait, SchedulerTypeOK
    <2>3. Locals'
      BY <1>0, <1>7, <1>s, <2>2 DEF Wait, Locals, SchedulerTypeOK, PCs
    <2>4. CASE Registers(r)
      <3>1. \A x \in Holders : priority[x] = "autonomous" => cancelled'[x]
        BY <1>0, <1>7, <1>c, <2>4 DEF Wait, Preempts, ActivePriority, Holding, SchedulerTypeOK
      <3>2. QED
        BY <1>0, <1>7, <2>1, <2>2, <2>3, <3>1 DEF Wait, Holding, Holders, ChatComesFirst, LiveLeaseIsCurrent
    <2>5. CASE ~Registers(r)
      <3>1. interactiveWaiters' = interactiveWaiters
        BY <1>0, <1>7, <2>5 DEF Wait, WaitersWith, SchedulerTypeOK
      <3>2. QED
        BY <1>0, <1>7, <2>1, <2>2, <2>3, <3>1 DEF Wait, Holding, Holders, ChatComesFirst, LiveLeaseIsCurrent
    <2>6. QED
      BY <2>4, <2>5
  <1>8. ASSUME NEW r \in Clients, ReleaseSlot(r) PROVE Rest'
    <2>1. Holders = {r}
      BY <1>0, <1>8 DEF ReleaseSlot, Holders, Holding
    <2>2. Holders' = {}
      BY <1>0, <1>8, <1>s, <2>1 DEF ReleaseSlot, Holders, SchedulerTypeOK, PCs
    <2>3. Locals'
      BY <1>0, <1>8, <1>s DEF ReleaseSlot, Locals, SchedulerTypeOK, PCs
    <2>4. QED
      BY <1>8, <2>2, <2>3 DEF ReleaseSlot, Holding, ChatComesFirst, LiveLeaseIsCurrent
  <1>14. QED
    BY <1>1, <1>2, <1>3, <1>4, <1>5, <1>6, <1>7, <1>8, <1>9, <1>10, <1>11, <1>12, <1>13
    DEF Next, Client

-------------------------------------------------------------------------------
LEMMA InitInv == Init => IInv
  <1> SUFFICES ASSUME Init PROVE IInv
    OBVIOUS
  <1>1. SchedulerTypeOK
    BY DEF Init, SchedulerTypeOK, PCs, Priorities
  <1>2. Waiting = {} /\ Holders = {}
    BY DEF Init, Waiting, Holders
  <1>3. WaitersCounted
    BY <1>2, FS_EmptySet DEF Init, WaitersCounted
  <1>4. QED
    BY <1>1, <1>2, <1>3 DEF Init, IInv, Locals, ChatComesFirst, LiveLeaseIsCurrent

LEMMA NextInv == IInv /\ [Next]_schedulerVars => IInv'
  BY TypeStep, CountStep, HolderStep DEF IInv, WaitersCounted, Rest, Holding

LEMMA Inductive == Spec => []IInv
  BY InitInv, NextInv, PTL DEF Spec

(* The state of the coordinator and of its clients is what the Go types say *)
(* for every set of clients; the count of waiting turns never goes below 0. *)
THEOREM SchedulerTypeCorrect == Spec => []SchedulerTypeOK
  <1>1. IInv => SchedulerTypeOK
    BY DEF IInv
  <1>2. QED
    BY <1>1, Inductive, PTL

(* active, activeCancel and interactiveWaiters agree with what the clients   *)
(* of acquire and release are doing: at most one holds the model.            *)
THEOREM CoordinatorCounts == Spec => []WaitersCounted
  <1>1. IInv => WaitersCounted
    BY DEF IInv
  <1>2. QED
    BY <1>1, Inductive, PTL

(* While a chat turn waits, autonomous work that has the slot is cancelled.  *)
THEOREM ChatHasPrecedence == Spec => []ChatComesFirst
  <1>1. IInv => ChatComesFirst
    BY DEF IInv
  <1>2. QED
    BY <1>1, Inductive, PTL

(* A lease whose context has not been cancelled was given in the present     *)
(* generation, with no settings transition under way.                       *)
THEOREM LeasesAreCurrent == Spec => []LiveLeaseIsCurrent
  <1>1. IInv => LiveLeaseIsCurrent
    BY DEF IInv
  <1>2. QED
    BY <1>1, Inductive, PTL

-------------------------------------------------------------------------------
(* The refinement: a step of the coordinator is a step of the slot, or none. *)
SlotRevoked == activeCancel # None /\ cancelled[activeCancel]

LEMMA SlotInit == Init => Slot!Init
  BY DEF Init, Slot!Init, Waiting, ActivePriority

LEMMA SlotStep == IInv /\ IInv' /\ [Next]_schedulerVars => [Slot!Next]_(Slot!vars)
  <1> SUFFICES ASSUME IInv, IInv', [Next]_schedulerVars PROVE [Slot!Next]_(Slot!vars)
    OBVIOUS
  <1>0. SchedulerTypeOK /\ Holding /\ Locals
    BY DEF IInv, WaitersCounted, Holding
  <1>c. \A r \in Clients \cup {None}, x \in Clients : Cancel(r)[x] = (x = r \/ cancelled[x])
    BY <1>0, CancelType
  <1>h. activeCancel # None => activeCancel \in Clients /\ pc[activeCancel] \in {"lease", "free"}
    BY <1>0 DEF Holding, Holders
  <1>1. CASE UNCHANGED <<activeCancel, priority, cancelled, registered, changing>>
    BY <1>1 DEF Slot!vars, ActivePriority, Waiting
  <1>2. ASSUME NEW r \in Clients, NEW p \in Priorities, Acquire(r, p)
        PROVE  UNCHANGED Slot!vars
    BY <1>0, <1>2, <1>h DEF Acquire, SchedulerTypeOK, coordinator, Slot!vars, ActivePriority, Waiting
  <1>3. ASSUME NEW r \in Clients, ContextDone(r) PROVE [Slot!Next]_(Slot!vars)
    <2>1. UNCHANGED <<activeCancel, ActivePriority, Waiting, changing>>
      BY <1>3 DEF ContextDone, coordinator, ActivePriority, Waiting
    <2>2. CASE r = activeCancel
      <3>1. r # None /\ cancelled'[r]
        BY <1>0, <1>3, <1>h, <2>2, ClientsAssumption DEF ContextDone, Live, SchedulerTypeOK
      <3>2. Slot!Revoke
        BY <2>1, <2>2, <3>1 DEF Slot!Revoke
      <3>3. QED
        BY <3>2 DEF Slot!Next
    <2>3. CASE r # activeCancel
      BY <1>0, <1>3, <1>h, <2>1, <2>3 DEF ContextDone, SchedulerTypeOK, Slot!vars
    <2>4. QED
      BY <2>2, <2>3
  <1>4. ASSUME NEW r \in Clients, ReleaseCancel(r) PROVE [Slot!Next]_(Slot!vars)
    <2>1. UNCHANGED <<activeCancel, ActivePriority, Waiting, changing>>
      BY <1>4 DEF ReleaseCancel, coordinator, ActivePriority, Waiting
    <2>2. r = activeCancel /\ r # None
      BY <1>0, <1>4, ClientsAssumption DEF ReleaseCancel, Holding, Holders
    <2>3. cancelled'[r]
      BY <1>c, <1>4 DEF ReleaseCancel
    <2>4. Slot!Revoke
      BY <2>1, <2>2, <2>3 DEF Slot!Revoke
    <2>5. QED
      BY <2>4 DEF Slot!Next
  <1>5. ASSUME NEW r \in Clients, Refuse(r) PROVE [Slot!Next]_(Slot!vars)
    <2>1. Waiting' = Waiting \ {r} /\ UNCHANGED <<activeCancel, cancelled, changing>>
      BY <1>0, <1>5 DEF Refuse, Forget, Waiting, SchedulerTypeOK
    <2>2. UNCHANGED ActivePriority
      BY <1>0, <1>5, <1>h DEF Refuse, Forget, ActivePriority, SchedulerTypeOK
    <2>3. CASE r \in Waiting
      <3>1. Slot!Leave(r)
        BY <2>1, <2>2, <2>3 DEF Slot!Leave
      <3>2. QED
        BY <3>1 DEF Slot!Next
    <2>4. CASE r \notin Waiting
      BY <2>1, <2>2, <2>4 DEF Slot!vars
    <2>5. QED
      BY <2>3, <2>4
  <1>6. ASSUME NEW r \in Clients, Admit(r) PROVE Slot!Next
    <2>1. activeCancel = None /\ activeCancel' = r /\ changing = 0 /\ changing' = changing
      BY <1>0, <1>6 DEF Admit, SlotFree, Holding
    <2>2. Waiting' = Waiting \ {r}
      BY <1>0, <1>6 DEF Admit, Waiting, SchedulerTypeOK
    <2>3. ActivePriority' = priority[r] /\ ~cancelled'[r]
      BY <1>0, <1>6, ClientsAssumption DEF Admit, ActivePriority, SchedulerTypeOK
    <2>4. priority[r] = "autonomous" => Waiting = {}
      <3>1. interactiveWaiters = Cardinality(Waiting)
        BY DEF IInv, WaitersCounted
      <3>2. interactiveWaiters = 0 => Waiting = {}
        BY <1>0, <3>1, WaitingFinite, FS_EmptySet
      <3>3. QED
        BY <1>6, <3>2 DEF Admit, SlotFree
    <2>5. Slot!Grant(r, priority[r])
      BY <2>1, <2>2, <2>3, <2>4, ClientsAssumption DEF Slot!Grant
    <2>6. priority[r] \in Slot!Kinds
      BY <1>0 DEF SchedulerTypeOK, Priorities, Slot!Kinds
    <2>7. QED
      BY <2>5, <2>6 DEF Slot!Next
  <1>7. ASSUME NEW r \in Clients, Wait(r) PROVE [Slot!Next]_(Slot!vars)
    <2>1. UNCHANGED <<activeCancel, ActivePriority, changing>>
      BY <1>7 DEF Wait, ActivePriority
    <2>2. CASE Registers(r)
      <3>1. Waiting' = Waiting \cup {r} /\ r \notin Waiting
        BY <1>0, <1>7, <2>2 DEF Wait, Waiting, SchedulerTypeOK, Registers
      <3>2. SlotRevoked' = (SlotRevoked \/ (activeCancel # None /\ ActivePriority = "autonomous"))
        BY <1>0, <1>7, <1>c, <1>h, <2>1, <2>2 DEF Wait, Preempts, Holding, SlotRevoked
      <3>3. Slot!Ask(r)
        BY <2>1, <3>1, <3>2 DEF Slot!Ask, SlotRevoked
      <3>4. QED
        BY <3>3 DEF Slot!Next
    <2>3. CASE ~Registers(r)
      <3>1. Waiting' = Waiting
        BY <1>0, <1>7, <2>3 DEF Wait, Waiting, SchedulerTypeOK, Registers, Locals
      <3>2. cancelled' = cancelled
        BY <1>7, <2>3 DEF Wait, Preempts
      <3>3. QED
        BY <2>1, <3>1, <3>2 DEF Slot!vars
    <2>4. QED
      BY <2>2, <2>3
  <1>8. ASSUME NEW r \in Clients, ReleaseSlot(r) PROVE Slot!Next
    <2>1. r = activeCancel /\ r # None /\ cancelled[r]
      BY <1>0, <1>8, ClientsAssumption DEF ReleaseSlot, Holding, Holders, Locals
    <2>2. activeCancel' = None /\ Waiting' = Waiting /\ changing' = changing
      BY <1>8 DEF ReleaseSlot, Waiting
    <2>3. Slot!GiveBack
      BY <2>1, <2>2 DEF Slot!GiveBack, ActivePriority
    <2>4. QED
      BY <2>3 DEF Slot!Next
  <1>9. ASSUME NEW r \in Clients, ReleaseAgain(r) PROVE UNCHANGED Slot!vars
    <2>1. Waiting' = Waiting
      BY <1>0, <1>9 DEF ReleaseAgain, Forget, Waiting, SchedulerTypeOK, Locals
    <2>2. ActivePriority' = ActivePriority
      BY <1>0, <1>9, <1>h DEF ReleaseAgain, Forget, coordinator, ActivePriority, SchedulerTypeOK
    <2>3. QED
      BY <1>9, <2>1, <2>2 DEF ReleaseAgain, coordinator, Slot!vars
  <1>10. CASE Invalidate
    <2>1. UNCHANGED <<activeCancel, ActivePriority, Waiting, changing>>
      BY <1>10 DEF Invalidate, ActivePriority, Waiting
    <2>2. CASE activeCancel = None
      BY <1>10, <2>1, <2>2 DEF Slot!vars
    <2>3. CASE activeCancel # None
      <3>1. cancelled'[activeCancel]
        BY <1>10, <1>c, <1>h, <2>3 DEF Invalidate
      <3>2. Slot!Revoke
        BY <2>1, <2>3, <3>1 DEF Slot!Revoke
      <3>3. QED
        BY <3>2 DEF Slot!Next
    <2>4. QED
      BY <2>2, <2>3
  <1>11. CASE BeginChange
    <2>1. UNCHANGED <<activeCancel, ActivePriority, Waiting>> /\ changing' = changing + 1
      BY <1>11 DEF BeginChange, ActivePriority, Waiting
    <2>2. activeCancel # None => cancelled'[activeCancel]
      BY <1>11, <1>c, <1>h DEF BeginChange
    <2>3. Slot!BeginChange
      BY <2>1, <2>2 DEF Slot!BeginChange
    <2>4. QED
      BY <2>3 DEF Slot!Next
  <1>12. CASE FinishChange
    <2>1. UNCHANGED <<activeCancel, ActivePriority, Waiting, cancelled>>
          /\ changing > 0 /\ changing' = changing - 1
      BY <1>12 DEF FinishChange, ActivePriority, Waiting
    <2>2. Slot!EndChange
      BY <2>1 DEF Slot!EndChange
    <2>3. QED
      BY <2>2 DEF Slot!Next
  <1>13. QED
    BY <1>1, <1>2, <1>3, <1>4, <1>5, <1>6, <1>7, <1>8, <1>9, <1>10, <1>11, <1>12
    DEF Next, Client, LoadGeneration, schedulerVars, coordinator, clients

(* The coordinator implements the slot: nobody is admitted while the slot is *)
(* taken or the configuration changes, autonomous work never before a        *)
(* waiting chat turn, and only a cancelled holder gives the slot back.       *)
THEOREM CoordinatorImplementsSlot == Spec => SlotSpec
  <1>1. Spec => []IInv
    BY Inductive
  <1>2. QED
    BY <1>1, SlotInit, SlotStep, PTL DEF Spec, SlotSpec, Slot!Spec
-------------------------------------------------------------------------------
(* The server around the coordinator.                                        *)

Transitions == {"settings", "policy", "restart"}
CallTypes   == Transitions \cup {"duplicates", "unload"}
Places      == {"idle", "begin", "stop", "drain", "close", "start", "finish", "invalidate"}
Steps       == {"idle", "settings", "acquire", "check", "read", "resolve", "stream", "release"}

(* Where the handlers of each call can be.                                  *)
ChangersTyped ==
  /\ dpc \in [Changers -> Places]
  /\ call \in [Changers -> CallTypes \cup {None}]
  /\ given \in [Changers -> Nat \cup {None}]
  /\ \A d \in Changers :
       /\ dpc[d] \in {"begin", "close", "finish"} => call[d] \in Transitions
       /\ dpc[d] = "start" => call[d] \in Transitions \cup {"duplicates"}
       /\ dpc[d] \in {"stop", "drain"} => call[d] \in CallTypes
       /\ dpc[d] = "invalidate" => call[d] = "unload"
       /\ dpc[d] # "idle" => given[d] \in Nat

(* A handler between its beginChange and its finishChange.                  *)
Transitional == {"stop", "drain", "close", "start", "finish"}
InTransition == {d \in Changers : call[d] \in Transitions /\ dpc[d] \in Transitional}

(* Every transition is counted once, from its beginning to its end.         *)
ChangesCounted == changing = Cardinality(InTransition)

(* A provider was prepared in some generation so far.                       *)
PreparedBefore == \A r \in Clients : prepared[r] # None => prepared[r] <= llmGeneration

(* A request that is past its check, and has not been told to stop, still    *)
(* has the saved configuration, or a save is about to tell it.               *)
PastCheck(r) == step[r] \in {"resolve", "stream"} /\ pc[r] = "lease" /\ ~cancelled[r]

CheckedIsCurrent == \A r \in Requests : PastCheck(r) => uses[r] = saved \/ Applying

RInv == /\ IInv /\ RuntimeTypeOK /\ ChangersTyped /\ ChangesCounted
        /\ PreparedBefore /\ CheckedIsCurrent /\ ActiveModelStays

(* While a transition closes or replaces the model nobody streams from it    *)
(* without having been told to stop.                                         *)
TransitionsAreAlone ==
  InTransition # {} => \A r \in Clients : ~Streams(r)

-------------------------------------------------------------------------------
(* The server uses the coordinator as LLMScheduler says.                     *)
LEMMA RuntimeStep ==
  ASSUME RuntimeTypeOK, [RuntimeNext]_vars PROVE [Next]_schedulerVars
  <1>0. Requests \subseteq Clients /\ Loads \subseteq Clients
    BY RuntimeAssumption
  <1>1. CASE \E r \in Requests : TakeSettings(r) \/ PrepareProvider(r) \/ LoadHandler(r)
    <2>1. "interactive" \in Priorities
      BY DEF Priorities
    <2>2. QED
      BY <1>0, <1>1, <2>1 DEF TakeSettings, PrepareProvider, LoadHandler, Next
  <1>2. CASE \E r \in Clients : Serve(r) \/ ContextEnds(r)
    BY <1>2 DEF Serve, ContextEnds, Schedule, Admitted, Refused, CheckPrepared, Retired, ReadSettings, Resolve,
                ResolveFails, EndStream, Release, Returned, Holds, Ends, Next, Client
  <1>3. CASE \/ \E d \in Savers : SaveSettings(d) \/ SavePolicy(d)
             \/ \E d \in Handlers : RestartSelected(d) \/ TerminateDuplicates(d) \/ Unload(d)
    BY <1>3 DEF SaveSettings, SavePolicy, RestartSelected, TerminateDuplicates, Unload, Called
  <1>4. CASE \E d \in Changers : Change(d)
    <2>1. PICK d \in Changers : Change(d)
      BY <1>4
    <2>2. CASE StopAutoload(d)
      <3>1. autoloadCancel # None /\ Live(autoloadCancel) => autoloadCancel \in Clients
        BY <1>0 DEF RuntimeTypeOK
      <3>2. QED
        BY <2>2, <3>1 DEF StopAutoload, Next
    <2>3. CASE StartAutoload(d)
      <3>1. "autonomous" \in Priorities
        BY DEF Priorities
      <3>2. QED
        BY <1>0, <2>3, <3>1 DEF StartAutoload, Next
    <2>4. CASE Begin(d) \/ InvalidateRequests(d) \/ Finish(d)
      BY <2>4 DEF Begin, InvalidateRequests, Finish, Next
    <2>5. CASE DrainAutoload(d) \/ RetireLLM(d) \/ KeepLLM(d) \/ NoAutoload(d)
      BY <2>5 DEF DrainAutoload, RetireLLM, CloseLLM, KeepLLM, NoAutoload
    <2>6. QED
      BY <2>1, <2>2, <2>3, <2>4, <2>5 DEF Change
  <1>5. CASE EmergencyStop \/ BuildRuntime
    BY <1>5 DEF EmergencyStop, BuildRuntime, CloseLLM, Next
  <1>6. CASE UNCHANGED vars
    BY <1>6 DEF vars
  <1>7. QED
    BY <1>1, <1>2, <1>3, <1>4, <1>5, <1>6 DEF RuntimeNext

(* A lease is live after a step only if it was, or is admitted by it.         *)
LEMMA LiveLeases ==
  ASSUME SchedulerTypeOK, [Next]_schedulerVars, NEW r \in Clients, pc'[r] = "lease", ~cancelled'[r]
  PROVE  Admit(r) \/ (pc[r] = "lease" /\ ~cancelled[r])
  <1>s. \A x \in Clients, next \in PCs \ {"lease"} :
          /\ Signal(x, next)[r] = "lease" => pc[r] = "lease" /\ r # x
          /\ Signal(x, "lease")[r] = "lease" => pc[r] = "lease" \/ r = x
    BY SignalType DEF PCs
  <1>a. SignalAll[r] = "lease" => pc[r] = "lease"
    BY SignalAllType
  <1>c. \A x \in Clients \cup {None} : Cancel(x)[r] = (r = x \/ cancelled[r])
    BY CancelType
  <1>p. {"loop", "wait", "free", "freed", "idle"} \subseteq PCs \ {"lease"}
    BY DEF PCs
  <1>1. ASSUME NEW x \in Clients, NEW p \in Priorities, Acquire(x, p) PROVE pc[r] = "lease" /\ ~cancelled[r]
    BY <1>1 DEF Acquire, SchedulerTypeOK
  <1>2. ASSUME NEW x \in Clients, ContextDone(x) PROVE pc[r] = "lease" /\ ~cancelled[r]
    BY <1>2 DEF ContextDone, SchedulerTypeOK
  <1>3. ASSUME NEW x \in Clients, ReleaseCancel(x) PROVE pc[r] = "lease" /\ ~cancelled[r]
    BY <1>3, <1>c DEF ReleaseCancel, SchedulerTypeOK
  <1>4. ASSUME NEW x \in Clients, LoadGeneration(x) \/ ReleaseAgain(x) PROVE pc[r] = "lease" /\ ~cancelled[r]
    BY <1>4 DEF LoadGeneration, ReleaseAgain, SchedulerTypeOK
  <1>5. ASSUME NEW x \in Clients, Refuse(x) PROVE pc[r] = "lease" /\ ~cancelled[r]
    BY <1>5, <1>s, <1>p DEF Refuse, SchedulerTypeOK
  <1>6. ASSUME NEW x \in Clients, Admit(x) PROVE Admit(r) \/ (pc[r] = "lease" /\ ~cancelled[r])
    <2>1. r = x \/ pc[r] = "lease"
      BY <1>6, <1>s, <1>p DEF Admit
    <2>2. r # x => cancelled'[r] = cancelled[r]
      BY <1>6 DEF Admit, SchedulerTypeOK
    <2>3. QED
      BY <1>6, <2>1, <2>2
  <1>7. ASSUME NEW x \in Clients, Wait(x) PROVE pc[r] = "lease" /\ ~cancelled[r]
    <2>1. pc[r] = "lease"
      BY <1>7, <1>s, <1>p DEF Wait, SchedulerTypeOK
    <2>2. ~cancelled[r]
      BY <1>7, <1>c DEF Wait, SchedulerTypeOK
    <2>3. QED
      BY <2>1, <2>2
  <1>8. ASSUME NEW x \in Clients, ReleaseSlot(x) PROVE pc[r] = "lease" /\ ~cancelled[r]
    <2>1. pc[r] = "lease" /\ r # x
      BY <1>8, <1>s, <1>p DEF ReleaseSlot
    <2>2. QED
      BY <1>8, <2>1 DEF ReleaseSlot, SchedulerTypeOK
  <1>9. CASE Invalidate \/ BeginChange
    <2>1. pc[r] = "lease"
      BY <1>9, <1>a DEF Invalidate, BeginChange
    <2>2. ~cancelled[r]
      BY <1>9, <1>c DEF Invalidate, BeginChange, SchedulerTypeOK
    <2>3. QED
      BY <2>1, <2>2
  <1>10. CASE FinishChange
    BY <1>10, <1>a DEF FinishChange
  <1>11. CASE UNCHANGED schedulerVars
    BY <1>11 DEF schedulerVars, clients
  <1>12. QED
    BY <1>1, <1>2, <1>3, <1>4, <1>5, <1>6, <1>7, <1>8, <1>9, <1>10, <1>11 DEF Next, Client
-------------------------------------------------------------------------------
(* Steps of requests and autoloads.                                          *)

Asking(r)     == r \in Requests /\ (TakeSettings(r) \/ PrepareProvider(r) \/ LoadHandler(r))
ClientStep(r) == Asking(r) \/ Serve(r) \/ ContextEnds(r)

(* They leave the settings, the handlers and other clients alone.            *)
LEMMA ClientFrame ==
  ASSUME RuntimeTypeOK, NEW r \in Clients, ClientStep(r)
  PROVE  /\ saved' = saved /\ llmGeneration' = llmGeneration /\ changing' = changing
         /\ dpc' = dpc /\ call' = call /\ given' = given /\ calls' = calls
         /\ \A x \in Clients : x # r => step'[x] = step[x] /\ uses'[x] = uses[x] /\ prepared'[x] = prepared[x]
         /\ step' \in [Clients -> Steps] /\ uses' \in [Clients -> Nat \cup {None}] /\ prepared' \in [Clients -> Nat \cup {None}]
         /\ cached' \in Nat \cup {None} /\ autoloadCancel' \in Loads \cup {None}
         /\ prepared'[r] \in {prepared[r], None, llmGeneration}
  <1>t. /\ step \in [Clients -> Steps] /\ uses \in [Clients -> Nat \cup {None}] /\ prepared \in [Clients -> Nat \cup {None}]
        /\ cached \in Nat \cup {None} /\ autoloadCancel \in Loads \cup {None} /\ saved \in Nat /\ llmGeneration \in Nat
    BY DEF RuntimeTypeOK, Steps
  <1>s. /\ {"settings", "acquire", "resolve", "read", "check", "idle", "release", "stream"} \subseteq Steps
        /\ None \in Nat \cup {None} /\ None \in Loads \cup {None}
    BY DEF Steps
  <1>1. CASE TakeSettings(r)
    BY <1>1, <1>t, <1>s DEF TakeSettings, Goto, schedulerVars, coordinator, changerVars
  <1>2. CASE PrepareProvider(r)
    BY <1>2, <1>t, <1>s DEF PrepareProvider, Goto, Acquire, coordinator, changerVars
  <1>3. CASE LoadHandler(r)
    BY <1>3, <1>t, <1>s DEF LoadHandler, Goto, Acquire, coordinator, changerVars
  <1>4. CASE Schedule(r)
    BY <1>4, <1>t DEF Schedule, LoadGeneration, Wait, coordinator, runtimeVars
  <1>5. CASE Admitted(r)
    <2>1. PICK next \in Steps : next = IF r \in Loads THEN "resolve" ELSE IF prepared[r] = None THEN "read" ELSE "check"
      BY <1>s
    <2>2. step' = [step EXCEPT ![r] = next] /\ Admit(r)
          /\ UNCHANGED <<saved, llmGeneration, cached, autoloadCancel, uses, prepared, changerVars>>
      BY <1>5, <2>1 DEF Admitted, Goto
    <2>3. QED
      BY <1>t, <2>2 DEF Admit, changerVars
  <1>6. CASE Refused(r) \/ Returned(r)
    BY <1>6, <1>t, <1>s DEF Refused, Returned, Over, Refuse, ReleaseAgain, coordinator, changerVars, Goto
  <1>7. CASE CheckPrepared(r) \/ ReadSettings(r) \/ Resolve(r)
    BY <1>7, <1>t, <1>s DEF CheckPrepared, ReadSettings, Resolve, Holds, Goto, schedulerVars, coordinator, changerVars
  <1>8. CASE Retired(r) \/ ResolveFails(r) \/ EndStream(r)
    <2>1. Ends(r) /\ cached' \in {cached, None}
      BY <1>8 DEF Retired, ResolveFails, EndStream
    <2>2. QED
      BY <1>t, <1>s, <2>1 DEF Ends, Goto, ReleaseCancel, coordinator, changerVars
  <1>9. CASE Release(r)
    BY <1>9, <1>t DEF Release, ReleaseSlot, runtimeVars
  <1>10. CASE ContextEnds(r)
    BY <1>10, <1>t DEF ContextEnds, ContextDone, coordinator, runtimeVars
  <1>11. QED
    BY <1>1, <1>2, <1>3, <1>4, <1>5, <1>6, <1>7, <1>8, <1>9, <1>10 DEF ClientStep, Asking, Serve

(* Where the step of a client that holds a live lease leads.                  *)
LEMMA ClientLease ==
  ASSUME RuntimeTypeOK, NEW r \in Clients, ClientStep(r), pc[r] = "lease"
  PROVE  \/ step'[r] = step[r] /\ uses'[r] = uses[r] /\ prepared'[r] = prepared[r] /\ cached' = cached
         \/ step[r] \in {"check", "read"} /\ step'[r] = "resolve" /\ uses'[r] = saved /\ prepared'[r] = prepared[r] /\ cached' = cached
         \/ step[r] = "resolve" /\ step'[r] = "stream" /\ uses'[r] = uses[r] /\ prepared'[r] = prepared[r] /\ cached' = uses[r]
         \/ step'[r] \in {"settings", "release"}
  <1>t. /\ step \in [Clients -> Steps] /\ uses \in [Clients -> Nat \cup {None}] /\ prepared \in [Clients -> Nat \cup {None}]
        /\ pc \in [Clients -> PCs]
    BY DEF RuntimeTypeOK, Steps, SchedulerTypeOK
  <1>1. CASE TakeSettings(r)
    BY <1>1, <1>t DEF TakeSettings, Goto
  <1>2. CASE PrepareProvider(r) \/ LoadHandler(r)
    BY <1>2 DEF PrepareProvider, LoadHandler, Acquire
  <1>4. CASE Schedule(r)
    BY <1>4 DEF Schedule, LoadGeneration, Wait
  <1>5. CASE Admitted(r) \/ Refused(r)
    BY <1>5 DEF Admitted, Refused, Admit, Refuse
  <1>6. CASE Release(r) \/ Returned(r)
    BY <1>6 DEF Release, Returned, ReleaseSlot, ReleaseAgain
  <1>7. CASE CheckPrepared(r) \/ ReadSettings(r) \/ Resolve(r)
    BY <1>7, <1>t DEF CheckPrepared, ReadSettings, Resolve, Holds, Goto, Usable
  <1>8. CASE Retired(r) \/ ResolveFails(r) \/ EndStream(r)
    <2>1. Ends(r)
      BY <1>8 DEF Retired, ResolveFails, EndStream
    <2>2. QED
      BY <1>t, <2>1 DEF Ends, Goto, ReleaseCancel
  <1>10. CASE ContextEnds(r)
    BY <1>10 DEF ContextEnds, runtimeVars
  <1>11. QED
    BY <1>1, <1>2, <1>4, <1>5, <1>6, <1>7, <1>8, <1>10 DEF ClientStep, Asking, Serve

(* Whoever replaces or loses the cached provider holds the slot.              *)
LEMMA ClientCached ==
  ASSUME RuntimeTypeOK, NEW r \in Clients, ClientStep(r)
  PROVE  cached' = cached \/ pc[r] = "lease"
  <1>1. CASE Asking(r)
    BY <1>1 DEF Asking, TakeSettings, PrepareProvider, LoadHandler
  <1>2. CASE Schedule(r) \/ Admitted(r) \/ Refused(r) \/ Release(r) \/ Returned(r) \/ ContextEnds(r)
    BY <1>2 DEF Schedule, Admitted, Refused, Release, Returned, ContextEnds, Over, runtimeVars
  <1>3. CASE CheckPrepared(r) \/ ReadSettings(r) \/ Resolve(r) \/ Retired(r) \/ ResolveFails(r) \/ EndStream(r)
    BY <1>3 DEF CheckPrepared, ReadSettings, Resolve, Retired, ResolveFails, EndStream, Holds, Ends, ReleaseCancel
  <1>4. QED
    BY <1>1, <1>2, <1>3 DEF ClientStep, Serve

(* A request is admitted to its check, not past it.                           *)
LEMMA AdmittedToCheck ==
  ASSUME RuntimeTypeOK, NEW r \in Requests, NEW x \in Clients, ClientStep(x), Admit(r)
  PROVE  step'[r] \in {"read", "check"}
  <1>0. /\ r \in Clients /\ r \notin Loads /\ pc[r] = "loop" /\ pc'[r] = "lease" /\ SchedulerTypeOK
        /\ pc \in [Clients -> PCs] /\ step \in [Clients -> Steps]
    <2>1. r \in Clients /\ r \notin Loads /\ SchedulerTypeOK
      BY RuntimeAssumption DEF RuntimeTypeOK
    <2>2. pc' = Signal(r, "lease") /\ pc[r] = "loop" /\ "lease" \in PCs
      BY DEF Admit, PCs
    <2>3. pc'[r] = "lease"
      BY <2>1, <2>2, SignalType
    <2>4. QED
      BY <2>1, <2>2, <2>3 DEF SchedulerTypeOK, RuntimeTypeOK, Steps
  <1>s. \A next \in PCs : Signal(x, next)[r] = "lease" => r = x /\ next = "lease"
    BY <1>0, SignalType
  <1>p. {"loop", "wait", "free", "freed", "idle", "lease"} \subseteq PCs
    BY DEF PCs
  <1>1. CASE Asking(x)
    BY <1>0, <1>1 DEF Asking, TakeSettings, PrepareProvider, LoadHandler, Acquire, schedulerVars, clients
  <1>2. CASE Schedule(x)
    BY <1>0, <1>s, <1>p, <1>2 DEF Schedule, LoadGeneration, Wait
  <1>3. CASE Admitted(x)
    <2>1. r = x
      BY <1>0, <1>s, <1>p, <1>3 DEF Admitted, Admit
    <2>2. QED
      BY <1>0, <1>3, <2>1 DEF Admitted, Goto
  <1>4. CASE Refused(x) \/ Returned(x) \/ Release(x)
    BY <1>0, <1>s, <1>p, <1>4 DEF Refused, Returned, Release, Refuse, ReleaseAgain, ReleaseSlot
  <1>5. CASE CheckPrepared(x) \/ ReadSettings(x) \/ Resolve(x)
    BY <1>0, <1>5 DEF CheckPrepared, ReadSettings, Resolve, Holds, schedulerVars, clients
  <1>6. CASE Retired(x) \/ ResolveFails(x) \/ EndStream(x)
    BY <1>0, <1>6 DEF Retired, ResolveFails, EndStream, Ends, ReleaseCancel
  <1>7. CASE ContextEnds(x)
    BY <1>0, <1>7 DEF ContextEnds, ContextDone
  <1>8. QED
    BY <1>1, <1>2, <1>3, <1>4, <1>5, <1>6, <1>7 DEF ClientStep, Serve

(* A request or an autoload keeps the invariant. *)
LEMMA ClientInv ==
  ASSUME RInv, IInv', NEW r \in Clients, ClientStep(r), [Next]_schedulerVars
  PROVE  RInv'
  <1>0. RuntimeTypeOK /\ SchedulerTypeOK /\ Requests \subseteq Clients
    BY RuntimeAssumption DEF RInv, RuntimeTypeOK
  <1>f. /\ saved' = saved /\ llmGeneration' = llmGeneration /\ changing' = changing
        /\ dpc' = dpc /\ call' = call /\ given' = given /\ calls' = calls
        /\ \A x \in Clients : x # r => step'[x] = step[x] /\ uses'[x] = uses[x] /\ prepared'[x] = prepared[x]
        /\ step' \in [Clients -> Steps] /\ uses' \in [Clients -> Nat \cup {None}] /\ prepared' \in [Clients -> Nat \cup {None}]
        /\ cached' \in Nat \cup {None} /\ autoloadCancel' \in Loads \cup {None}
        /\ prepared'[r] \in {prepared[r], None, llmGeneration}
    BY <1>0, ClientFrame
  <1>1. RuntimeTypeOK'
    BY <1>0, <1>f DEF RuntimeTypeOK, Steps, IInv
  <1>2. ChangersTyped'
    BY <1>f DEF RInv, ChangersTyped
  <1>3. ChangesCounted' /\ (Applying' <=> Applying)
    <2>1. InTransition' = InTransition /\ (Applying' <=> Applying)
      BY <1>f DEF InTransition, Applying
    <2>2. QED
      BY <1>f, <2>1 DEF RInv, ChangesCounted
  <1>4. PreparedBefore'
    <2>1. llmGeneration \in Nat /\ PreparedBefore
      BY <1>0 DEF RInv, RuntimeTypeOK
    <2>2. QED
      BY <1>f, <2>1 DEF PreparedBefore
  <1>5. ASSUME NEW q \in Requests, PastCheck(q)'
        PROVE  pc[q] = "lease" /\ ~cancelled[q]
    <2>1. pc'[q] = "lease" /\ ~cancelled'[q] /\ step'[q] \in {"resolve", "stream"} /\ q \in Clients
      BY <1>0, <1>5 DEF PastCheck
    <2>2. Admit(q) \/ (pc[q] = "lease" /\ ~cancelled[q])
      BY <1>0, <2>1, LiveLeases
    <2>3. ~Admit(q)
      BY <1>0, <2>1, AdmittedToCheck
    <2>4. QED
      BY <2>2, <2>3
  <1>6. CheckedIsCurrent'
    <2>1. ASSUME NEW q \in Requests, PastCheck(q)'
          PROVE  uses'[q] = saved \/ Applying
      <3>1. pc[q] = "lease" /\ ~cancelled[q] /\ step'[q] \in {"resolve", "stream"} /\ q \in Clients
        BY <1>0, <1>5, <2>1 DEF PastCheck
      <3>2. PastCheck(q) => uses[q] = saved \/ Applying
        BY DEF RInv, CheckedIsCurrent
      <3>3. CASE q = r
        BY <1>0, <3>1, <3>2, <3>3, ClientLease DEF PastCheck
      <3>4. CASE q # r
        BY <1>f, <3>1, <3>2, <3>4 DEF PastCheck
      <3>5. QED
        BY <3>3, <3>4
    <2>2. QED
      BY <1>f, <1>3, <2>1 DEF CheckedIsCurrent
  <1>7. ActiveModelStays'
    <2>1. ASSUME NEW q \in Requests, Streams(q)', prepared'[q] = llmGeneration
          PROVE  cached' = uses'[q]
      <3>1. pc[q] = "lease" /\ ~cancelled[q] /\ step'[q] = "stream" /\ q \in Clients
        BY <1>0, <1>5, <2>1 DEF PastCheck, Streams
      <3>2. step[q] = "stream" /\ prepared[q] = llmGeneration => cached = uses[q]
        BY <3>1 DEF RInv, ActiveModelStays, Streams
      <3>3. CASE q = r
        BY <1>0, <2>1, <3>1, <3>2, <3>3, ClientLease
      <3>4. CASE q # r
        <4>1. pc[r] # "lease"
          BY <3>1, <3>4 DEF RInv, IInv, WaitersCounted, Holders
        <4>2. cached' = cached
          BY <1>0, <4>1, ClientCached
        <4>3. QED
          BY <1>f, <2>1, <3>1, <3>2, <3>4, <4>2
      <3>5. QED
        BY <3>3, <3>4
    <2>2. QED
      BY <1>f, <2>1 DEF ActiveModelStays
  <1>8. QED
    BY <1>1, <1>2, <1>3, <1>4, <1>6, <1>7 DEF RInv
-------------------------------------------------------------------------------
(* Steps of the handlers that change the model's runtime.                     *)

(* They admit nobody and move no request. *)
LEMMA ServerInv ==
  ASSUME RInv, IInv', [Next]_schedulerVars, RuntimeTypeOK', ChangersTyped', ChangesCounted',
         active' = active,
         \A r \in Requests : step'[r] = step[r] /\ uses'[r] = uses[r],
         prepared' = prepared,
         saved' = saved \/ Applying',
         (Applying => Applying') \/ changing' > 0,
         (llmGeneration' = llmGeneration /\ cached' = cached) \/ llmGeneration' = llmGeneration + 1
  PROVE  RInv'
  <1>0. /\ SchedulerTypeOK /\ Requests \subseteq Clients /\ llmGeneration \in Nat /\ prepared \in [Clients -> Nat \cup {None}]
        /\ PreparedBefore
    BY RuntimeAssumption DEF RInv, RuntimeTypeOK
  <1>1. PreparedBefore'
    BY <1>0 DEF PreparedBefore
  <1>2. ASSUME NEW q \in Requests, pc'[q] = "lease", ~cancelled'[q]
        PROVE  pc[q] = "lease" /\ ~cancelled[q] /\ (Applying => Applying')
    <2>1. ~Admit(q)
      BY DEF Admit, SlotFree
    <2>2. pc[q] = "lease" /\ ~cancelled[q]
      BY <1>0, <1>2, <2>1, LiveLeases
    <2>3. changing' = 0
      BY <1>0, <1>2 DEF IInv, LiveLeaseIsCurrent, Holders
    <2>4. QED
      BY <2>2, <2>3
  <1>3. CheckedIsCurrent'
    <2>1. ASSUME NEW q \in Requests, PastCheck(q)'
          PROVE  uses'[q] = saved' \/ Applying'
      <3>1. PastCheck(q) /\ (Applying => Applying')
        BY <1>2, <2>1 DEF PastCheck
      <3>2. QED
        BY <3>1 DEF RInv, CheckedIsCurrent
    <2>2. QED
      BY <2>1 DEF CheckedIsCurrent
  <1>4. ActiveModelStays'
    <2>1. ASSUME NEW q \in Requests, Streams(q)', prepared'[q] = llmGeneration'
          PROVE  cached' = uses'[q]
      <3>1. Streams(q)
        BY <1>2, <2>1 DEF Streams
      <3>2. llmGeneration' # llmGeneration + 1
        BY <1>0, <2>1, RuntimeAssumption DEF PreparedBefore
      <3>3. QED
        BY <2>1, <3>1, <3>2 DEF RInv, ActiveModelStays
    <2>2. QED
      BY <2>1 DEF ActiveModelStays
  <1>5. QED
    BY <1>1, <1>3, <1>4 DEF RInv

(* The handlers that are counted. *)
LEMMA TransitionsFinite == IsFiniteSet(InTransition) /\ Cardinality(InTransition) \in Nat
  BY RuntimeAssumption, FS_Subset, FS_CardinalityType DEF InTransition

LEMMA SameCount ==
  ASSUME RInv, InTransition' = InTransition, changing' = changing
  PROVE  ChangesCounted'
  BY DEF RInv, ChangesCounted

(* A handler begins. *)
LEMMA CalledInv ==
  ASSUME RInv, IInv', [Next]_schedulerVars, NEW d \in Changers, NEW c \in CallTypes, NEW s \in Places, NEW v \in Nat,
         (s = "begin" /\ c \in Transitions) \/ (s = "stop" /\ c \notin Transitions),
         Called(d, c, s, v), saved' = saved \/ (saved' = saved + 1 /\ c = "settings")
  PROVE  RInv'
  <1>1. /\ dpc[d] = "idle" /\ calls < MaxCalls /\ calls' = calls + 1 /\ dpc' = [dpc EXCEPT ![d] = s]
        /\ call' = [call EXCEPT ![d] = c] /\ given' = [given EXCEPT ![d] = v]
        /\ llmGeneration' = llmGeneration /\ cached' = cached /\ autoloadCancel' = autoloadCancel
        /\ step' = step /\ uses' = uses /\ prepared' = prepared /\ active' = active /\ changing' = changing
    BY DEF Called, schedulerVars, coordinator
  <1>2. RuntimeTypeOK /\ ChangersTyped /\ ChangesCounted
    BY DEF RInv
  <1>3. /\ dpc \in [Changers -> Places] /\ call \in [Changers -> CallTypes \cup {None}] /\ given \in [Changers -> Nat \cup {None}]
    BY <1>2 DEF ChangersTyped
  <1>4. /\ dpc' \in [Changers -> Places] /\ call' \in [Changers -> CallTypes \cup {None}] /\ given' \in [Changers -> Nat \cup {None}]
        /\ dpc'[d] = s /\ call'[d] = c /\ given'[d] = v
        /\ \A e \in Changers : e # d => dpc'[e] = dpc[e] /\ call'[e] = call[e] /\ given'[e] = given[e]
    BY <1>1, <1>3
  <1>5. RuntimeTypeOK'
    <2>1. calls' \in 0 .. MaxCalls /\ saved' \in Nat
      BY <1>1, <1>2, RuntimeAssumption DEF RuntimeTypeOK
    <2>2. QED
      BY <1>1, <1>2, <2>1 DEF RuntimeTypeOK, IInv
  <1>6. ChangersTyped'
    BY <1>2, <1>4 DEF ChangersTyped
  <1>7. InTransition' = InTransition
    <2>1. ~(c \in Transitions /\ s \in Transitional)
      BY DEF Transitional, Transitions
    <2>2. dpc[d] \notin Transitional
      BY <1>1 DEF Transitional
    <2>3. QED
      BY <1>4, <2>1, <2>2 DEF InTransition
  <1>8. saved' = saved \/ Applying'
    BY <1>4 DEF Applying, Transitions
  <1>9. Applying => Applying'
    BY <1>1, <1>4 DEF Applying
  <1>10. QED
    BY <1>1, <1>5, <1>6, <1>7, <1>8, <1>9, SameCount, ServerInv

(* A handler goes on in its transition, or ends outside of one. *)
Goes(d, s) == dpc' = [dpc EXCEPT ![d] = s] /\ call' = call /\ given' = given

LEMMA GoesTyped ==
  ASSUME ChangersTyped, NEW d \in Changers, NEW s \in Places,
         \/ Goes(d, s) /\ s # "idle" /\ dpc[d] # "idle"
         \/ s = "idle" /\ Idle(d),
         s \in {"begin", "close", "finish"} => call[d] \in Transitions,
         s = "start" => call[d] \in Transitions \cup {"duplicates"},
         s \in {"stop", "drain"} => call[d] \in CallTypes,
         s = "invalidate" => call[d] = "unload"
  PROVE  /\ ChangersTyped' /\ dpc'[d] = s /\ (s # "idle" => call'[d] = call[d])
         /\ \A e \in Changers : e # d => dpc'[e] = dpc[e] /\ call'[e] = call[e]
  <1>1. /\ dpc \in [Changers -> Places] /\ call \in [Changers -> CallTypes \cup {None}] /\ given \in [Changers -> Nat \cup {None}]
    BY DEF ChangersTyped
  <1>2. CASE Goes(d, s) /\ s # "idle" /\ dpc[d] # "idle"
    BY <1>1, <1>2 DEF Goes, ChangersTyped
  <1>3. CASE s = "idle" /\ Idle(d)
    <2>1. dpc' = [dpc EXCEPT ![d] = "idle"] /\ call' = [call EXCEPT ![d] = None] /\ given' = [given EXCEPT ![d] = None]
      BY <1>3 DEF Idle
    <2>2. QED
      BY <1>1, <1>3, <2>1 DEF ChangersTyped
  <1>4. QED
    BY <1>2, <1>3

(* It leaves the saved settings, the requests and the coordinator's count as they are. *)
LEMMA GoesInv ==
  ASSUME RInv, IInv', [Next]_schedulerVars, NEW d \in Changers, NEW s \in Places,
         \/ Goes(d, s) /\ s # "idle" /\ dpc[d] # "idle"
         \/ s = "idle" /\ Idle(d),
         s \in {"close", "finish"} => call[d] \in Transitions,
         s = "start" => call[d] \in Transitions \cup {"duplicates"},
         s = "drain" => call[d] \in CallTypes, s = "invalidate" => call[d] = "unload",
         dpc[d] # "begin", s \notin {"begin", "stop"},
         call[d] \in Transitions => dpc[d] \in Transitional /\ s \in Transitional,
         saved' = saved, prepared' = prepared, active' = active, changing' = changing,
         \A r \in Requests : step'[r] = step[r] /\ uses'[r] = uses[r],
         (llmGeneration' = llmGeneration /\ cached' = cached) \/ llmGeneration' = llmGeneration + 1,
         RuntimeTypeOK'
  PROVE  RInv'
  <1>1. ChangersTyped
    BY DEF RInv
  <1>2. /\ ChangersTyped' /\ dpc'[d] = s /\ (s # "idle" => call'[d] = call[d])
        /\ \A e \in Changers : e # d => dpc'[e] = dpc[e] /\ call'[e] = call[e]
    BY <1>1, GoesTyped
  <1>3. d \in InTransition' <=> d \in InTransition
    <2>1. "idle" \notin Transitional
      BY DEF Transitional
    <2>2. CASE call[d] \in Transitions
      BY <1>2, <2>1, <2>2 DEF InTransition
    <2>3. CASE call[d] \notin Transitions
      BY <1>2, <2>1, <2>3 DEF InTransition
    <2>4. QED
      BY <2>2, <2>3
  <1>4. InTransition' = InTransition
    BY <1>2, <1>3 DEF InTransition
  <1>5. Applying => Applying'
    <2>1. ASSUME NEW e \in Changers, call[e] = "settings", dpc[e] = "begin"
          PROVE  call'[e] = "settings" /\ dpc'[e] = "begin"
      BY <1>2, <2>1
    <2>2. QED
      BY <2>1 DEF Applying
  <1>6. QED
    BY <1>2, <1>4, <1>5, SameCount, ServerInv

(* What a handler finds of itself. *)
LEMMA ChangerAt ==
  ASSUME RInv, NEW d \in Changers
  PROVE  /\ RuntimeTypeOK /\ ChangersTyped /\ ChangesCounted
         /\ dpc[d] \in {"begin", "close", "finish"} => call[d] \in Transitions
         /\ dpc[d] = "start" => call[d] \in Transitions \cup {"duplicates"}
         /\ dpc[d] \in {"stop", "drain"} => call[d] \in CallTypes
         /\ dpc[d] = "invalidate" => call[d] = "unload"
         /\ dpc[d] # "idle" => given[d] \in Nat
         /\ {"stop", "drain", "close", "start", "finish"} \subseteq Transitional
         /\ {"idle", "begin", "stop", "drain", "close", "start", "finish", "invalidate"} \subseteq Places
         /\ "duplicates" \notin Transitions /\ "unload" \notin Transitions /\ Transitions \subseteq CallTypes
  BY DEF RInv, ChangersTyped, Transitional, Places, Transitions, CallTypes

LEMMA ContinuesGoes ==
  ASSUME NEW d \in Changers, NEW s, Continues(d, s)
  PROVE  Goes(d, s) /\ calls' = calls
  BY DEF Continues, ChangerGoto, Goes

LEMMA BeginInv ==
  ASSUME RInv, IInv', [Next]_schedulerVars, NEW d \in Changers, Begin(d) PROVE RInv'
  <1>1. /\ dpc[d] = "begin" /\ Goes(d, "stop") /\ calls' = calls /\ changing' = changing + 1 /\ active' = active
        /\ saved' = saved /\ llmGeneration' = llmGeneration /\ cached' = cached /\ autoloadCancel' = autoloadCancel
        /\ step' = step /\ uses' = uses /\ prepared' = prepared
    BY ContinuesGoes DEF Begin, BeginChange
  <1>2. RuntimeTypeOK /\ ChangersTyped /\ ChangesCounted /\ call[d] \in Transitions /\ call[d] \in CallTypes
        /\ "stop" \in Places /\ "stop" \in Transitional /\ changing \in Nat
    BY <1>1, ChangerAt DEF RuntimeTypeOK, SchedulerTypeOK
  <1>3. RuntimeTypeOK'
    BY <1>1, <1>2 DEF RuntimeTypeOK, IInv
  <1>4. PICK s \in Places : s = "stop"
    BY <1>2
  <1>5. /\ ChangersTyped' /\ dpc'[d] = "stop" /\ call'[d] = call[d]
        /\ \A e \in Changers : e # d => dpc'[e] = dpc[e] /\ call'[e] = call[e]
    BY <1>1, <1>2, <1>4, GoesTyped
  <1>6. d \notin InTransition /\ InTransition' = InTransition \cup {d}
    BY <1>1, <1>2, <1>5 DEF InTransition, Transitional
  <1>7. ChangesCounted'
    <2>1. Cardinality(InTransition \cup {d}) = Cardinality(InTransition) + 1
      BY <1>6, TransitionsFinite, FS_AddElement
    <2>2. QED
      BY <1>1, <1>2, <1>6, <2>1 DEF ChangesCounted
  <1>8. changing' > 0
    BY <1>1, <1>2
  <1>9. QED
    BY <1>1, <1>3, <1>5, <1>7, <1>8, ServerInv

LEMMA FinishInv ==
  ASSUME RInv, IInv', [Next]_schedulerVars, NEW d \in Changers, Finish(d) PROVE RInv'
  <1>1. /\ dpc[d] = "finish" /\ Idle(d) /\ changing' = changing - 1 /\ active' = active
        /\ saved' = saved /\ llmGeneration' = llmGeneration /\ cached' = cached /\ autoloadCancel' = autoloadCancel
        /\ step' = step /\ uses' = uses /\ prepared' = prepared
    BY DEF Finish, FinishChange
  <1>2. RuntimeTypeOK /\ ChangersTyped /\ ChangesCounted /\ call[d] \in Transitions /\ "idle" \in Places
        /\ "finish" \in Transitional /\ "idle" \notin Transitional
    BY <1>1, ChangerAt DEF Transitional
  <1>3. RuntimeTypeOK'
    BY <1>1, <1>2 DEF RuntimeTypeOK, IInv, Idle
  <1>4. PICK s \in Places : s = "idle"
    BY <1>2
  <1>5. /\ ChangersTyped' /\ dpc'[d] = "idle"
        /\ \A e \in Changers : e # d => dpc'[e] = dpc[e] /\ call'[e] = call[e]
    BY <1>1, <1>2, <1>4, GoesTyped
  <1>6. d \in InTransition /\ InTransition' = InTransition \ {d}
    BY <1>1, <1>2, <1>5 DEF InTransition
  <1>7. ChangesCounted'
    <2>1. Cardinality(InTransition \ {d}) = Cardinality(InTransition) - 1
      BY <1>6, TransitionsFinite, FS_RemoveElement
    <2>2. QED
      BY <1>1, <1>2, <1>6, <2>1 DEF ChangesCounted
  <1>8. Applying => Applying'
    <2>1. ASSUME NEW e \in Changers, call[e] = "settings", dpc[e] = "begin"
          PROVE  call'[e] = "settings" /\ dpc'[e] = "begin"
      BY <1>1, <1>5, <2>1
    <2>2. QED
      BY <2>1 DEF Applying
  <1>9. QED
    BY <1>1, <1>3, <1>5, <1>7, <1>8, ServerInv

LEMMA StopAutoloadInv ==
  ASSUME RInv, IInv', [Next]_schedulerVars, NEW d \in Changers, StopAutoload(d) PROVE RInv'
  <1>1. /\ dpc[d] = "stop" /\ Goes(d, "drain") /\ calls' = calls /\ changing' = changing /\ active' = active
        /\ saved' = saved /\ llmGeneration' = llmGeneration /\ cached' = cached /\ autoloadCancel' = None
        /\ step' = step /\ uses' = uses /\ prepared' = prepared
    BY ContinuesGoes DEF StopAutoload, ContextDone, schedulerVars, coordinator
  <1>2. RuntimeTypeOK /\ "drain" \in Places /\ call[d] \in CallTypes /\ {"stop", "drain"} \subseteq Transitional
    BY <1>1, ChangerAt
  <1>3. RuntimeTypeOK'
    BY <1>1, <1>2 DEF RuntimeTypeOK, IInv
  <1>4. PICK s \in Places : s = "drain"
    BY <1>2
  <1>5. QED
    BY <1>1, <1>2, <1>3, <1>4, GoesInv

LEMMA DrainInv ==
  ASSUME RInv, IInv', [Next]_schedulerVars, NEW d \in Changers, DrainAutoload(d) PROVE RInv'
  <1>1. /\ dpc[d] = "drain" /\ Goes(d, AfterDrain[call[d]]) /\ calls' = calls /\ changing' = changing /\ active' = active
        /\ saved' = saved /\ llmGeneration' = llmGeneration /\ cached' = cached /\ autoloadCancel' = autoloadCancel
        /\ step' = step /\ uses' = uses /\ prepared' = prepared
    BY ContinuesGoes DEF DrainAutoload, schedulerVars, coordinator
  <1>2. RuntimeTypeOK /\ call[d] \in CallTypes
    BY <1>1, ChangerAt
  <1>3. RuntimeTypeOK'
    BY <1>1, <1>2 DEF RuntimeTypeOK, IInv
  <1>4. PICK s : s = AfterDrain[call[d]]
    OBVIOUS
  <1>5. \/ call[d] \in Transitions /\ s = "close"
        \/ call[d] = "duplicates" /\ s = "start"
        \/ call[d] = "unload" /\ s = "invalidate"
    BY <1>2, <1>4 DEF CallTypes, Transitions, AfterDrain
  <1>6. s \in Places /\ s # "idle" /\ (call[d] \in Transitions => s \in Transitional /\ dpc[d] \in Transitional)
    BY <1>1, <1>5, ChangerAt DEF Places, Transitional
  <1>7. /\ s \in {"close", "finish"} => call[d] \in Transitions
        /\ s = "start" => call[d] \in Transitions \cup {"duplicates"}
        /\ s # "drain" /\ (s = "invalidate" => call[d] = "unload") /\ s \notin {"begin", "stop"}
    BY <1>5
  <1>8. QED
    BY <1>1, <1>3, <1>4, <1>6, <1>7, GoesInv

LEMMA InvalidateInv ==
  ASSUME RInv, IInv', [Next]_schedulerVars, NEW d \in Changers, InvalidateRequests(d) PROVE RInv'
  <1>1. /\ dpc[d] = "invalidate" /\ Idle(d) /\ calls' = calls /\ changing' = changing /\ active' = active
        /\ saved' = saved /\ llmGeneration' = llmGeneration /\ cached' = cached /\ autoloadCancel' = autoloadCancel
        /\ step' = step /\ uses' = uses /\ prepared' = prepared
    BY DEF InvalidateRequests, Invalidate, Idle
  <1>2. RuntimeTypeOK /\ call[d] \notin Transitions /\ "idle" \in Places
    BY <1>1, ChangerAt
  <1>3. RuntimeTypeOK'
    BY <1>1, <1>2 DEF RuntimeTypeOK, IInv
  <1>4. PICK s \in Places : s = "idle"
    BY <1>2
  <1>5. QED
    BY <1>1, <1>2, <1>3, <1>4, GoesInv

LEMMA RetireInv ==
  ASSUME RInv, IInv', [Next]_schedulerVars, NEW d \in Changers, RetireLLM(d) \/ KeepLLM(d) PROVE RInv'
  <1>1. /\ dpc[d] = "close" /\ Goes(d, "start") /\ calls' = calls /\ changing' = changing /\ active' = active
        /\ saved' = saved /\ autoloadCancel' = autoloadCancel /\ step' = step /\ uses' = uses /\ prepared' = prepared
        /\ cached' \in {cached, None}
        /\ (llmGeneration' = llmGeneration /\ cached' = cached) \/ llmGeneration' = llmGeneration + 1
    BY ContinuesGoes DEF RetireLLM, CloseLLM, KeepLLM, schedulerVars, coordinator
  <1>2. RuntimeTypeOK /\ "start" \in Places /\ call[d] \in Transitions /\ {"close", "start"} \subseteq Transitional
    BY <1>1, ChangerAt
  <1>3. RuntimeTypeOK'
    BY <1>1, <1>2 DEF RuntimeTypeOK, IInv
  <1>4. PICK s \in Places : s = "start"
    BY <1>2
  <1>5. QED
    BY <1>1, <1>2, <1>3, <1>4, GoesInv

LEMMA StartInv ==
  ASSUME RInv, IInv', [Next]_schedulerVars, NEW d \in Changers, StartAutoload(d) \/ NoAutoload(d) PROVE RInv'
  <1>0. Loads \subseteq Clients /\ \A r \in Requests : r \notin Loads
    BY RuntimeAssumption
  <1>1. /\ dpc[d] = "start" /\ AfterStart(d) /\ saved' = saved /\ llmGeneration' = llmGeneration /\ cached' = cached
        /\ prepared' = prepared /\ changing' = changing /\ active' = active
    BY DEF StartAutoload, NoAutoload, Acquire, schedulerVars, coordinator
  <1>2. RuntimeTypeOK /\ call[d] \in Transitions \cup {"duplicates"} /\ given[d] \in Nat
        /\ {"idle", "finish"} \subseteq Places /\ {"start", "finish"} \subseteq Transitional /\ "duplicates" \notin Transitions
    BY <1>1, ChangerAt
  <1>3. /\ step' \in [Clients -> Steps] /\ uses' \in [Clients -> Nat \cup {None}] /\ autoloadCancel' \in Loads \cup {None}
        /\ \A r \in Requests : step'[r] = step[r] /\ uses'[r] = uses[r]
    <2>1. step \in [Clients -> Steps] /\ uses \in [Clients -> Nat \cup {None}] /\ autoloadCancel \in Loads \cup {None}
      BY <1>2 DEF RuntimeTypeOK, Steps
    <2>2. CASE NoAutoload(d)
      BY <2>1, <2>2 DEF NoAutoload
    <2>3. CASE StartAutoload(d)
      <3>1. PICK a \in Loads : step' = [step EXCEPT ![a] = "acquire"] /\ uses' = [uses EXCEPT ![a] = given[d]] /\ autoloadCancel' = a
        BY <2>3 DEF StartAutoload, Goto
      <3>2. "acquire" \in Steps
        BY DEF Steps
      <3>3. QED
        BY <1>0, <1>2, <2>1, <3>1, <3>2
    <2>4. QED
      BY <2>2, <2>3
  <1>4. calls' = calls
    BY <1>1 DEF AfterStart, Idle, Continues
  <1>5. RuntimeTypeOK'
    BY <1>1, <1>2, <1>3, <1>4 DEF RuntimeTypeOK, Steps, IInv
  <1>6. CASE call[d] = "duplicates"
    <2>1. PICK s \in Places : s = "idle"
      BY <1>2
    <2>2. Idle(d)
      BY <1>1, <1>6 DEF AfterStart
    <2>3. QED
      BY <1>1, <1>2, <1>3, <1>5, <1>6, <2>1, <2>2, GoesInv
  <1>7. CASE call[d] # "duplicates"
    <2>1. PICK s \in Places : s = "finish"
      BY <1>2
    <2>2. Goes(d, s)
      BY <1>1, <1>7, <2>1, ContinuesGoes DEF AfterStart
    <2>3. QED
      BY <1>1, <1>2, <1>3, <1>5, <1>7, <2>1, <2>2, GoesInv
  <1>8. QED
    BY <1>6, <1>7

(* An Emergency Stop, or another runtime. *)
LEMMA CountedInv ==
  ASSUME RInv, IInv', [Next]_schedulerVars, EmergencyStop \/ BuildRuntime PROVE RInv'
  <1>1. /\ calls < MaxCalls /\ calls' = calls + 1 /\ dpc' = dpc /\ call' = call /\ given' = given
        /\ saved' = saved /\ autoloadCancel' = autoloadCancel /\ step' = step /\ uses' = uses /\ prepared' = prepared
        /\ changing' = changing /\ active' = active /\ cached' \in {cached, None}
        /\ (llmGeneration' = llmGeneration /\ cached' = cached) \/ llmGeneration' = llmGeneration + 1
    BY DEF EmergencyStop, BuildRuntime, Counted, Invalidate, CloseLLM, schedulerVars, coordinator
  <1>2. RuntimeTypeOK /\ ChangersTyped
    BY DEF RInv
  <1>3. RuntimeTypeOK'
    <2>1. calls' \in 0 .. MaxCalls
      BY <1>1, <1>2, RuntimeAssumption DEF RuntimeTypeOK
    <2>2. QED
      BY <1>1, <1>2, <2>1 DEF RuntimeTypeOK, IInv
  <1>4. ChangersTyped'
    BY <1>1, <1>2 DEF ChangersTyped
  <1>5. InTransition' = InTransition /\ (Applying => Applying')
    BY <1>1 DEF InTransition, Applying
  <1>6. QED
    BY <1>1, <1>3, <1>4, <1>5, SameCount, ServerInv
-------------------------------------------------------------------------------
(* The theorems about the server.                                            *)

LEMMA RuntimeInitInv == RuntimeInit => RInv
  <1> SUFFICES ASSUME RuntimeInit PROVE RInv
    OBVIOUS
  <1>1. IInv
    BY InitInv DEF RuntimeInit
  <1>2. /\ step = [r \in Clients |-> "idle"] /\ uses = [r \in Clients |-> None] /\ prepared = [r \in Clients |-> None]
        /\ dpc = [d \in Changers |-> "idle"] /\ call = [d \in Changers |-> None] /\ given = [d \in Changers |-> None]
        /\ saved = 1 /\ llmGeneration = 0 /\ cached = None /\ autoloadCancel = None /\ calls = 0 /\ changing = 0
    BY DEF RuntimeInit, Init
  <1>3. RuntimeTypeOK
    BY <1>1, <1>2, RuntimeAssumption DEF RuntimeTypeOK, IInv
  <1>4. ChangersTyped
    BY <1>2 DEF ChangersTyped, Places
  <1>5. ChangesCounted
    <2>1. InTransition = {}
      BY <1>2 DEF InTransition, Transitional
    <2>2. QED
      BY <1>2, <2>1, FS_EmptySet DEF ChangesCounted
  <1>6. Requests \subseteq Clients
    BY RuntimeAssumption
  <1>7. PreparedBefore /\ CheckedIsCurrent /\ ActiveModelStays
    BY <1>2, <1>6 DEF PreparedBefore, CheckedIsCurrent, PastCheck, ActiveModelStays, Streams
  <1>8. QED
    BY <1>1, <1>3, <1>4, <1>5, <1>7 DEF RInv

LEMMA RuntimeNextInv == RInv /\ [RuntimeNext]_vars => RInv'
  <1> SUFFICES ASSUME RInv, [RuntimeNext]_vars PROVE RInv'
    OBVIOUS
  <1>1. [Next]_schedulerVars /\ IInv'
    BY RuntimeStep, NextInv DEF RInv
  <1>2. RuntimeTypeOK /\ saved \in Nat /\ saved + 1 \in Nat /\ Requests \subseteq Clients
    BY RuntimeAssumption DEF RInv, RuntimeTypeOK
  <1>3. Savers \subseteq Changers /\ Handlers \subseteq Changers
    BY DEF Changers
  <1>4. /\ {"settings", "policy", "restart"} \subseteq Transitions /\ {"duplicates", "unload"} \subseteq CallTypes \ Transitions
        /\ Transitions \subseteq CallTypes /\ {"begin", "stop"} \subseteq Places
    BY DEF Transitions, CallTypes, Places
  <1>5. CASE \E r \in Requests : TakeSettings(r) \/ PrepareProvider(r) \/ LoadHandler(r)
    BY <1>1, <1>2, <1>5, ClientInv DEF ClientStep, Asking
  <1>6. CASE \E r \in Clients : Serve(r) \/ ContextEnds(r)
    BY <1>1, <1>6, ClientInv DEF ClientStep
  <1>7. ASSUME NEW d \in Changers, NEW c \in Transitions, Called(d, c, "begin", saved) \/ Called(d, c, "begin", saved + 1),
               saved' = saved \/ (saved' = saved + 1 /\ c = "settings")
        PROVE  RInv'
    <2>1. PICK v \in Nat : Called(d, c, "begin", v)
      BY <1>2, <1>7
    <2>2. PICK s \in Places : s = "begin"
      BY <1>4
    <2>3. c \in CallTypes /\ Called(d, c, s, v)
      BY <1>4, <2>1, <2>2
    <2>4. (s = "begin" /\ c \in Transitions) \/ (s = "stop" /\ c \notin Transitions)
      BY <1>7, <2>2
    <2>5. saved' = saved \/ (saved' = saved + 1 /\ c = "settings")
      BY <1>7
    <2>6. QED
      BY ONLY RInv, <1>1, <2>1, <2>3, <2>4, <2>5, CalledInv
  <1>8. ASSUME \/ \E d \in Savers : SaveSettings(d) \/ SavePolicy(d)
               \/ \E d \in Handlers : RestartSelected(d)
        PROVE  RInv'
    BY <1>3, <1>4, <1>7, <1>8 DEF SaveSettings, SavePolicy, RestartSelected
  <1>9. ASSUME NEW d \in Handlers, TerminateDuplicates(d) PROVE RInv'
    <2>1. PICK s \in Places, c \in CallTypes : s = "stop" /\ c = "duplicates"
      BY <1>4
    <2>2. QED
      BY <1>1, <1>2, <1>3, <1>4, <1>9, <2>1, CalledInv DEF TerminateDuplicates
  <1>10. ASSUME NEW d \in Handlers, Unload(d) PROVE RInv'
    <2>1. PICK s \in Places, c \in CallTypes : s = "stop" /\ c = "unload"
      BY <1>4
    <2>2. QED
      BY <1>1, <1>2, <1>3, <1>4, <1>10, <2>1, CalledInv DEF Unload
  <1>11. CASE \E d \in Changers : Change(d)
    BY <1>1, <1>11, BeginInv, FinishInv, StopAutoloadInv, DrainInv, InvalidateInv, RetireInv, StartInv DEF Change
  <1>12. CASE EmergencyStop \/ BuildRuntime
    BY <1>1, <1>12, CountedInv
  <1>13. CASE UNCHANGED vars
    <2>1. /\ saved' = saved /\ llmGeneration' = llmGeneration /\ cached' = cached /\ autoloadCancel' = autoloadCancel
          /\ step' = step /\ uses' = uses /\ prepared' = prepared /\ dpc' = dpc /\ call' = call /\ given' = given
          /\ calls' = calls /\ changing' = changing /\ active' = active
      BY <1>13 DEF vars, runtimeVars, schedulerVars, coordinator
    <2>2. RuntimeTypeOK' /\ ChangersTyped'
      BY <1>1, <2>1 DEF RInv, RuntimeTypeOK, ChangersTyped, IInv
    <2>3. InTransition' = InTransition /\ (Applying => Applying')
      BY <2>1 DEF InTransition, Applying
    <2>4. QED
      BY <1>1, <2>1, <2>2, <2>3, SameCount, ServerInv
  <1>14. QED
    BY <1>5, <1>6, <1>7, <1>8, <1>9, <1>10, <1>11, <1>12, <1>13 DEF RuntimeNext

LEMMA RuntimeInductive == RuntimeSpec => []RInv
  BY RuntimeInitInv, RuntimeNextInv, PTL DEF RuntimeSpec

(* The settings, the cached provider, the autoload's cancel function and the  *)
(* goroutines keep their types, for any requests, autoloads and handlers.     *)
THEOREM RuntimeTypeCorrect == RuntimeSpec => []RuntimeTypeOK
  <1>1. RInv => RuntimeTypeOK
    BY DEF RInv
  <1>2. QED
    BY <1>1, RuntimeInductive, PTL

(* The handlers call the coordinator as LLMScheduler's clients do, so that    *)
(* what is proved of those holds in the server: the precedence of chat, the   *)
(* currency of leases, and the slot of LLMSlot.                               *)
THEOREM RuntimeUsesCoordinator == RuntimeSpec => Spec
  <1>1. RuntimeInit => Init
    BY DEF RuntimeInit
  <1>2. RInv /\ [RuntimeNext]_vars => [Next]_schedulerVars
    BY RuntimeStep DEF RInv
  <1>3. QED
    BY <1>1, <1>2, RuntimeInductive, PTL DEF RuntimeSpec, Spec

(* StreamChat tests the settings it was prepared with, and beginChange        *)
(* cancels whoever passed that test: nobody goes on streaming from a           *)
(* configuration that is no longer saved.                                     *)
THEOREM StreamsAreCurrent == RuntimeSpec => []StreamIsCurrent
  <1>1. RInv => StreamIsCurrent
    BY DEF RInv, CheckedIsCurrent, PastCheck, StreamIsCurrent, Streams
  <1>2. QED
    BY <1>1, RuntimeInductive, PTL

(* resolveLLMProvider and closeLLM: the provider under a live turn is the one  *)
(* it resolved, or its generation has ended.                                  *)
THEOREM ModelStaysUnderTurn == RuntimeSpec => []ActiveModelStays
  <1>1. RInv => ActiveModelStays
    BY DEF RInv
  <1>2. QED
    BY <1>1, RuntimeInductive, PTL

(* Between beginChange and finishChange, however many handlers are in between, *)
(* nobody streams who has not been told to stop.                               *)
THEOREM TransitionsRunAlone == RuntimeSpec => []TransitionsAreAlone
  <1>1. RInv => TransitionsAreAlone
    <2>1. SUFFICES ASSUME RInv, InTransition # {}, NEW r \in Clients, Streams(r)
                   PROVE  FALSE
      BY DEF TransitionsAreAlone
    <2>2. changing # 0
      BY <2>1, TransitionsFinite, FS_EmptySet DEF RInv, ChangesCounted
    <2>3. changing = 0
      BY <2>1 DEF RInv, IInv, LiveLeaseIsCurrent, Holders, Streams
    <2>4. QED
      BY <2>2, <2>3
  <1>2. QED
    BY <1>1, RuntimeInductive, PTL
===============================================================================
