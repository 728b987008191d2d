----------------------------- MODULE LLMScheduler -----------------------------
(***************************************************************************)
(* The llmRequestCoordinator (src/internal/httpapi/llm_scheduler.go): one  *)
(* stream of the local model at a time, chat before autonomous work, and    *)
(* nobody admitted across a change of the model configuration.              *)
(*                                                                          *)
(* A client calls acquire, and holds the lease acquire returned until it    *)
(* calls release.  The coordinator knows neither its clients nor how many   *)
(* it woke: it has a flag, two counters and a channel that is closed and    *)
(* replaced at every change, upon which every waiter looks again.  A client *)
(* that waits in the select of acquire has taken the channel of the moment  *)
(* under mu, so it is at "wait" until a signal or its own context wakes it. *)
(***************************************************************************)
EXTENDS Naturals, FiniteSets

CONSTANTS Clients, \* calls of acquire
          None     \* not a client

ASSUME ClientsAssumption == IsFiniteSet(Clients) /\ None \notin Clients

VARIABLES active,       \* llmRequestCoordinator
          activeCancel, \* the client whose lease it can cancel, or None
          interactiveWaiters, generation, changing,
          pc,         \* where a client is in acquire and release
          priority,   \* its argument
          loaded,     \* its local variables generation
          registered, \* ... and registered
          done,       \* the context it was called with ended before it was admitted
          cancelled   \* the context of its lease is cancelled

coordinator == <<active, activeCancel, interactiveWaiters, generation, changing>>
clients == <<pc, priority, loaded, registered, done, cancelled>>
schedulerVars == <<coordinator, clients>>

Priorities == {"autonomous", "interactive"}
PCs == {"idle", "load", "loop", "wait", "lease", "free", "freed"}

Init == /\ active = FALSE
        /\ activeCancel = None
        /\ interactiveWaiters = 0
        /\ generation = 0
        /\ changing = 0
        /\ pc = [r \in Clients |-> "idle"]
        /\ priority = [r \in Clients |-> "autonomous"]
        /\ loaded = [r \in Clients |-> 0]
        /\ registered = [r \in Clients |-> FALSE]
        /\ done = [r \in Clients |-> FALSE]
        /\ cancelled = [r \in Clients |-> FALSE]

(* signalLocked: every waiter looks again; r itself goes on to its own next. *)
Signal(r, next) == [x \in Clients |-> IF x = r THEN next
                                      ELSE IF pc[x] = "wait" THEN "loop" ELSE pc[x]]
SignalAll == Signal(None, None)

(* activeCancel, called if there is one. *)
Cancel(r) == IF r # None THEN [cancelled EXCEPT ![r] = TRUE] ELSE cancelled
-------------------------------------------------------------------------------
Acquire(r, p) == /\ pc[r] = "idle"
                 /\ pc' = [pc EXCEPT ![r] = "load"]
                 /\ priority' = [priority EXCEPT ![r] = p]
                 /\ UNCHANGED <<coordinator, loaded, registered, done, cancelled>>

(* The caller's context ends: a disconnect, a Stop, a timeout.  The context of *)
(* a lease is derived from it.                                                 *)
Live(r) == \/ pc[r] \in {"load", "loop", "wait"} /\ ~done[r]
           \/ pc[r] = "lease" /\ ~cancelled[r]

ContextDone(r) == /\ Live(r)
                  /\ done' = [done EXCEPT ![r] = pc[r] # "lease"]
                  /\ cancelled' = [cancelled EXCEPT ![r] = pc[r] = "lease"]
                  /\ pc' = IF pc[r] = "wait" THEN [pc EXCEPT ![r] = "loop"] ELSE pc
                  /\ UNCHANGED <<coordinator, priority, loaded, registered>>

LoadGeneration(r) == /\ pc[r] = "load"
                     /\ pc' = [pc EXCEPT ![r] = "loop"]
                     /\ loaded' = [loaded EXCEPT ![r] = generation]
                     /\ UNCHANGED <<coordinator, priority, registered, done, cancelled>>

(* What the locals of a returned call are for the model: forgotten. *)
Forget(r) == /\ priority' = [priority EXCEPT ![r] = "autonomous"]
             /\ loaded' = [loaded EXCEPT ![r] = 0]
             /\ registered' = [registered EXCEPT ![r] = FALSE]
             /\ done' = [done EXCEPT ![r] = FALSE]

Fails(r) == done[r] \/ loaded[r] # generation

(* The error return of the loop. *)
Refuse(r) == /\ pc[r] = "loop"
             /\ Fails(r)
             /\ interactiveWaiters' = interactiveWaiters - (IF registered[r] THEN 1 ELSE 0)
             /\ pc' = IF registered[r] THEN Signal(r, "idle") ELSE [pc EXCEPT ![r] = "idle"]
             /\ Forget(r)
             /\ UNCHANGED <<active, activeCancel, generation, changing, cancelled>>

Registers(r) == priority[r] = "interactive" /\ ~registered[r]
WaitersWith(r) == interactiveWaiters + (IF Registers(r) THEN 1 ELSE 0)

(* Mutant: the waiting chat turns are not asked. *)
SlotFreeToAll(r) == ~active /\ changing = 0

SlotFree(r) == /\ ~active
               /\ changing = 0
               /\ priority[r] = "interactive" \/ interactiveWaiters = 0

(* activePriority: the priority the active client was admitted with. *)
ActivePriority == IF activeCancel = None THEN "autonomous" ELSE priority[activeCancel]

(* A new chat turn cancels the autonomous work it finds. *)
Preempts(r) == Registers(r) /\ active /\ ActivePriority = "autonomous"

Admit(r) == /\ pc[r] = "loop"
            /\ ~Fails(r)
            /\ SlotFree(r)
            /\ active' = TRUE
            /\ activeCancel' = r
            /\ interactiveWaiters' = WaitersWith(r) - (IF priority[r] = "interactive" THEN 1 ELSE 0)
            /\ registered' = [registered EXCEPT ![r] = FALSE]
            /\ pc' = Signal(r, "lease")
            /\ cancelled' = [cancelled EXCEPT ![r] = FALSE]
            /\ UNCHANGED <<generation, changing, priority, loaded, done>>

Wait(r) == /\ pc[r] = "loop"
           /\ ~Fails(r)
           /\ ~SlotFree(r)
           /\ interactiveWaiters' = WaitersWith(r)
           /\ registered' = [registered EXCEPT ![r] = priority[r] = "interactive"]
           /\ cancelled' = IF Preempts(r) THEN Cancel(activeCancel) ELSE cancelled
           /\ pc' = IF Registers(r) THEN Signal(r, "wait") ELSE [pc EXCEPT ![r] = "wait"]
           /\ UNCHANGED <<active, activeCancel, generation, changing,
                          priority, loaded, done>>

(* Mutant: the lease's context outlives its release.                       *)
ReleaseUncancelled(r) == /\ pc[r] = "lease"
                         /\ pc' = [pc EXCEPT ![r] = "free"]
                         /\ UNCHANGED <<coordinator, priority, loaded, registered, done, cancelled>>

(* release: the lease's context first, then the slot under mu. *)
ReleaseCancel(r) == /\ pc[r] = "lease"
                    /\ pc' = [pc EXCEPT ![r] = "free"]
                    /\ cancelled' = Cancel(r)
                    /\ UNCHANGED <<coordinator, priority, loaded, registered, done>>

(* Mutant: nobody is woken.                                                *)
ReleaseSlotSilently(r) == /\ pc[r] = "free"
                          /\ active' = FALSE
                          /\ activeCancel' = None
                          /\ pc' = [pc EXCEPT ![r] = "freed"]
                          /\ cancelled' = [cancelled EXCEPT ![r] = FALSE]
                          /\ UNCHANGED <<interactiveWaiters, generation, changing,
                                         priority, loaded, registered, done>>

ReleaseSlot(r) == /\ pc[r] = "free"
                  /\ active' = FALSE
                  /\ activeCancel' = None
                  /\ pc' = Signal(r, "freed")
                  /\ cancelled' = [cancelled EXCEPT ![r] = FALSE]
                  /\ UNCHANGED <<interactiveWaiters, generation, changing,
                                 priority, loaded, registered, done>>

(* The deferred release of a call that released before finds once done. *)
ReleaseAgain(r) == /\ pc[r] = "freed"
                   /\ pc' = [pc EXCEPT ![r] = "idle"]
                   /\ Forget(r)
                   /\ UNCHANGED <<coordinator, cancelled>>

Invalidate == /\ generation' = generation + 1
              /\ cancelled' = Cancel(activeCancel)
              /\ pc' = SignalAll
              /\ UNCHANGED <<active, activeCancel, interactiveWaiters, changing,
                             priority, loaded, registered, done>>

BeginChange == /\ changing' = changing + 1
               /\ generation' = generation + 1
               /\ cancelled' = Cancel(activeCancel)
               /\ pc' = SignalAll
               /\ UNCHANGED <<active, activeCancel, interactiveWaiters,
                              priority, loaded, registered, done>>

FinishChange == /\ changing > 0
                /\ changing' = changing - 1
                /\ pc' = SignalAll
                /\ UNCHANGED <<active, activeCancel, interactiveWaiters, generation,
                               priority, loaded, registered, done, cancelled>>

Client(r) == \/ LoadGeneration(r)
             \/ Refuse(r)
             \/ Admit(r)
             \/ Wait(r)
             \/ ReleaseSlot(r)
             \/ ReleaseAgain(r)

Next == \/ \E r \in Clients : \/ \E p \in Priorities : Acquire(r, p)
                              \/ ContextDone(r)
                              \/ ReleaseCancel(r)
                              \/ Client(r)
        \/ Invalidate
        \/ BeginChange
        \/ FinishChange

Spec == Init /\ [][Next]_schedulerVars
-------------------------------------------------------------------------------
SchedulerTypeOK ==
  /\ active \in BOOLEAN
  /\ activeCancel \in Clients \cup {None}
  /\ interactiveWaiters \in Nat
  /\ generation \in Nat
  /\ changing \in Nat
  /\ pc \in [Clients -> PCs]
  /\ priority \in [Clients -> Priorities]
  /\ loaded \in [Clients -> Nat]
  /\ registered \in [Clients -> BOOLEAN]
  /\ done \in [Clients -> BOOLEAN]
  /\ cancelled \in [Clients -> BOOLEAN]

Holders == {r \in Clients : pc[r] \in {"lease", "free"}}
Waiting == {r \in Clients : registered[r]}

(* The flag and the counters say what the clients are doing: one holder, the *)
(* one whose context the coordinator can cancel, and as many waiting chat     *)
(* turns as are counted, however calls end: admitted, refused or cancelled.   *)
WaitersCounted ==
  /\ interactiveWaiters = Cardinality(Waiting)
  /\ Holders = IF active THEN {activeCancel} ELSE {}
  /\ active <=> activeCancel # None

(* Autonomous work that still runs is not in the way of a waiting chat turn. *)
ChatComesFirst ==
  \A r \in Holders : /\ priority[r] = "autonomous"
                     /\ interactiveWaiters > 0
                     => cancelled[r]

(* A lease that has not been cancelled was admitted under the configuration   *)
(* of now: no transition began since, and none is under way.                  *)
LiveLeaseIsCurrent ==
  \A r \in Holders : ~cancelled[r] => loaded[r] = generation /\ changing = 0

(* The coordinator implements the slot. *)
Slot == INSTANCE LLMSlot WITH holder <- activeCancel,
                              kind <- ActivePriority,
                              revoked <- (activeCancel # None /\ cancelled[activeCancel]),
                              asking <- Waiting,
                              changes <- changing

SlotSpec == Slot!Spec
===============================================================================
