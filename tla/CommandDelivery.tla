--------------------------- MODULE CommandDelivery ---------------------------
(***************************************************************************)
(* commandRuntime and the admission of protected control commands: unique  *)
(* command identifiers, per-generation sequence numbers, receipts that are *)
(* pruned, and the lane that serialises immediate commands and the motion  *)
(* of model replies.  The network may delay, duplicate and reorder         *)
(* requests; a tab may be reloaded and continue from the sequence number   *)
(* the server reports.                                                     *)
(*                                                                         *)
(* The lease is reduced to its generation (module ControllerLease): every  *)
(* change of ownership and every Stop advances it and cancels the requests *)
(* bound to it.  A ticket that has expired is one of the reasons for which *)
(* Leave refuses.                                                          *)
(***************************************************************************)
EXTENDS Integers, FiniteSets

CONSTANTS
  Commands,       \* command identifiers
  Requests,       \* HTTP requests; several may carry the same command
  None,
  MaxReceipts,    \* maxCommandReceipts
  MaxGeneration,  \* bound on ownership changes and Stops
  MaxSequence     \* bound on the sequence numbers a tab hands out

ASSUME DeliveryAssumption ==
  /\ None \notin Commands \cup Requests \cup {"pending", "complete", "unknown"}
  /\ IsFiniteSet(Commands)
  /\ MaxReceipts \in Nat \ {0}
  /\ MaxGeneration \in Nat
  /\ MaxSequence \in Nat

VARIABLES
  generation,     \* controllerRuntime.generation
  cmd,            \* what the tab put into each command
  tabSequence,    \* the tab's own counter
  scope,          \* commandRuntime.scope: the generation it stands for
  sequence, motionSequence,
  receipts,       \* the state of each retained receipt, or None
  lane,           \* serial: the request that holds the lane, or None
  at,             \* where each request stands, and its command
  cancelled,      \* requests whose context is canceled
  count,          \* history: how often each command took effect
  mark            \* history: generation and sequence of the last motion effect

tab     == <<cmd, tabSequence>>
runtime == <<scope, sequence, motionSequence, receipts>>
history == <<count, mark>>
vars    == <<generation, tab, runtime, lane, at, cancelled, history>>

(* motion: immediate commands of motionCommandRoute.  deferred: chat, whose *)
(* motion follows inference.  setting: other commands that use the lane.    *)
(* free: inference, dialogs and voice, which do not.                        *)
CommandKinds == {"motion", "deferred", "setting", "free"}
RequestPC == {"idle", "lookup", "acquire", "begin", "run", "infer", "check", "apply",
              "finish", "refused"}

NoCommand == [kind |-> None, gen |-> 0, seq |-> 0]
NoRequest == [pc |-> "idle", cmd |-> None]

TypeOK ==
  /\ generation \in Nat
  /\ cmd \in [Commands -> [kind : CommandKinds \cup {None}, gen : Nat, seq : Nat]]
  /\ tabSequence \in Nat
  /\ scope \in Nat /\ sequence \in Nat /\ motionSequence \in Nat
  /\ receipts \in [Commands -> {None, "pending", "complete", "unknown"}]
  /\ lane \in Requests \cup {None}
  /\ at \in [Requests -> [pc : RequestPC, cmd : Commands \cup {None}]]
  /\ cancelled \subseteq Requests
  /\ count \in [Commands -> Nat]
  /\ mark \in [gen : Nat, seq : Nat]

Init ==
  /\ generation = 1
  /\ cmd = [c \in Commands |-> NoCommand] /\ tabSequence = 0
  /\ scope = 0 /\ sequence = 0 /\ motionSequence = 0
  /\ receipts = [c \in Commands |-> None]
  /\ lane = None
  /\ at = [r \in Requests |-> NoRequest] /\ cancelled = {}
  /\ count = [c \in Commands |-> 0]
  /\ mark = [gen |-> 0, seq |-> 0]

-----------------------------------------------------------------------------
(* The tab, the owner and the network.                                     *)

lastSequence == IF scope = generation THEN sequence ELSE 0

(* The tab makes a command with the next sequence number; after a reload   *)
(* it knows only what the server reports.                                  *)
Issue(c, kind, reloaded) ==
  LET next == (IF reloaded THEN lastSequence ELSE tabSequence) + 1
  IN  /\ cmd[c] = NoCommand
      /\ next <= MaxSequence
      /\ cmd' = [cmd EXCEPT ![c] = [kind |-> kind, gen |-> generation, seq |-> next]]
      /\ tabSequence' = next
      /\ UNCHANGED <<generation, runtime, lane, at, cancelled, history>>

(* A copy of the command arrives, binds to the lease and passes            *)
(* requireController; one of an older generation is refused there.         *)
Deliver(r, c) ==
  /\ at[r].pc = "idle"
  /\ cmd[c].kind # None
  /\ at' = [at EXCEPT ![r] = [pc |-> IF cmd[c].gen = generation THEN "lookup" ELSE "refused",
                              cmd |-> c]]
  /\ UNCHANGED <<generation, tab, runtime, lane, cancelled, history>>

(* Stop, takeover or loss.                                                 *)
AdvanceGeneration ==
  /\ generation < MaxGeneration
  /\ generation' = generation + 1
  /\ cancelled' = {r \in Requests : at[r].pc # "idle"}
  /\ UNCHANGED <<tab, runtime, lane, at, history>>

-----------------------------------------------------------------------------
Goto(r, pc) == at' = [at EXCEPT ![r].pc = pc]
Kind(r) == cmd[at[r].cmd].kind
UsesLane(kind) == kind # "free"

(* pruneLocked: only receipts of finished commands go.  Which of them is   *)
(* the oldest does not matter here, so any may go.                         *)
Finished == {c \in Commands : receipts[c] \in {"complete", "unknown"}}
Retained(map) == {c \in Commands : map[c] # None}

(* Mutant: the numbers of the generation are forgotten with a receipt.     *)
PruneForgetting(c) ==
  /\ c \in Finished
  /\ receipts' = [receipts EXCEPT ![c] = None]
  /\ scope' = 0 /\ sequence' = 0
  /\ UNCHANGED <<generation, tab, motionSequence, lane, at, cancelled, history>>

Prune(c) ==
  /\ c \in Finished
  /\ receipts' = [receipts EXCEPT ![c] = None]
  /\ UNCHANGED <<generation, tab, scope, sequence, motionSequence, lane, at, cancelled, history>>

(* admitControlCommand: a retained receipt is replayed or explained, and   *)
(* nothing is executed again.                                              *)
Lookup(r) ==
  /\ at[r].pc = "lookup"
  /\ IF receipts[at[r].cmd] # None THEN Goto(r, "refused")
     ELSE Goto(r, IF UsesLane(Kind(r)) THEN "acquire" ELSE "begin")
  /\ UNCHANGED <<generation, tab, runtime, lane, cancelled, history>>

Acquire(r) ==
  /\ at[r].pc = "acquire"
  /\ lane = None
  /\ lane' = r
  /\ Goto(r, "begin")
  /\ UNCHANGED <<generation, tab, runtime, cancelled, history>>

(* commandRuntime.begin inside admitCommand, after the prune for capacity. *)
(* Mutant: the last number is accepted again.                              *)
InOrderOrEqual(c) == ~(scope = cmd[c].gen /\ cmd[c].seq < sequence)

InOrder(c) == ~(scope = cmd[c].gen /\ cmd[c].seq <= sequence)

Begin(r) ==
  LET c == at[r].cmd
  IN  /\ at[r].pc = "begin"
      /\ cmd[c].gen = generation /\ r \notin cancelled
      /\ \E victims \in {{}} \cup {{v} : v \in Finished} :
            LET kept == [d \in Commands |-> IF d \in victims THEN None ELSE receipts[d]]
            IN  /\ victims = {} <=> (Cardinality(Retained(receipts)) < MaxReceipts \/ Finished = {})
                /\ kept[c] = None
                /\ InOrder(c)
                /\ Cardinality(Retained(kept)) < MaxReceipts
                /\ receipts' = [kept EXCEPT ![c] = "pending"]
      /\ motionSequence' = IF Kind(r) \in {"motion", "deferred"} THEN cmd[c].seq
                           ELSE IF scope # cmd[c].gen THEN 0 ELSE motionSequence
      /\ scope' = cmd[c].gen /\ sequence' = cmd[c].seq
      /\ IF Kind(r) = "deferred" THEN lane' = None /\ Goto(r, "infer")
         ELSE UNCHANGED lane /\ Goto(r, "run")
      /\ UNCHANGED <<generation, tab, cancelled, history>>

(* The request takes effect; a canceled context refuses it.                *)
TakesEffect(c) ==
  /\ count' = [count EXCEPT ![c] = @ + 1]
  /\ mark' = IF cmd[c].kind \in {"motion", "deferred"}
             THEN [gen |-> cmd[c].gen, seq |-> cmd[c].seq] ELSE mark

Apply(r) ==
  /\ at[r].pc \in {"run", "apply"}
  /\ r \notin cancelled
  /\ TakesEffect(at[r].cmd)
  /\ lane' = IF at[r].pc = "apply" THEN None ELSE lane
  /\ Goto(r, "finish")
  /\ UNCHANGED <<generation, tab, runtime, cancelled>>

(* beginDeferredMotion: after inference the reply's motion waits for the   *)
(* lane and applies only if no newer motion command has been admitted.     *)
AcquireDeferred(r) ==
  /\ at[r].pc = "infer"
  /\ lane = None
  /\ lane' = r
  /\ Goto(r, "check")
  /\ UNCHANGED <<generation, tab, runtime, cancelled, history>>

(* Mutant: the reply does not look for newer motion commands.              *)
CheckContextOnly(r) ==
  /\ at[r].pc = "check"
  /\ IF r \notin cancelled
     THEN Goto(r, "apply") /\ UNCHANGED lane
     ELSE Goto(r, "finish") /\ lane' = None
  /\ UNCHANGED <<generation, tab, runtime, cancelled, history>>

CheckDeferred(r) ==
  LET c == at[r].cmd
  IN  /\ at[r].pc = "check"
      /\ IF scope = cmd[c].gen /\ motionSequence = cmd[c].seq /\ r \notin cancelled
         THEN Goto(r, "apply") /\ UNCHANGED lane
         ELSE Goto(r, "finish") /\ lane' = None
      /\ UNCHANGED <<generation, tab, runtime, cancelled, history>>

(* The deferred part of trackCommandDelivery: the receipt is completed,    *)
(* then the lane is released.  A handler may return with an error or be    *)
(* interrupted; one without a receipt of its own records nothing.          *)

Return(r, state) ==
  LET admitted == at[r].pc \in {"run", "infer", "apply", "finish"}
  IN  /\ at[r].pc \notin {"idle", "check"}
      /\ receipts' = IF admitted THEN [receipts EXCEPT ![at[r].cmd] = state] ELSE receipts
      /\ lane' = IF lane = r THEN None ELSE lane
      /\ at' = [at EXCEPT ![r] = NoRequest]
      /\ cancelled' = cancelled \ {r}
      /\ UNCHANGED <<generation, tab, scope, sequence, motionSequence, history>>

-----------------------------------------------------------------------------
RequestStep(r) ==
  \/ Lookup(r) \/ Acquire(r) \/ Begin(r) \/ Apply(r)
  \/ AcquireDeferred(r) \/ CheckDeferred(r)
  \/ Return(r, "complete") \/ Return(r, "unknown")

Next ==
  \/ AdvanceGeneration
  \/ \E c \in Commands :
        \/ Prune(c)
        \/ \E kind \in CommandKinds : Issue(c, kind, TRUE) \/ Issue(c, kind, FALSE)
        \/ \E r \in Requests : Deliver(r, c)
  \/ \E r \in Requests : RequestStep(r)

Spec == Init /\ [][Next]_vars

-----------------------------------------------------------------------------
(* Properties.                                                             *)

(* A command takes effect at most once, however often it is delivered and  *)
(* although its receipt may have been pruned before the last copy comes    *)
(* (lookup, begin).                                                        *)
AppliedOnce == \A c \in Commands : count[c] <= 1

(* Two commands with the same number in the same generation - a reloaded   *)
(* tab may have repeated one - do not both take effect.                    *)
OneCommandPerSequence ==
  \A c, d \in Commands :
    c # d /\ count[c] > 0 /\ count[d] > 0 => <<cmd[c].gen, cmd[c].seq>> # <<cmd[d].gen, cmd[d].seq>>

(* Motion intentions take effect in the order of their numbers: a model's  *)
(* late reply never overrides a newer control (beginDeferredMotion), and   *)
(* nothing takes effect for a generation that a Stop has ended.            *)
MotionInOrder ==
  [][ mark' # mark =>
        /\ mark'.gen = generation
        /\ mark.gen < mark'.gen \/ (mark.gen = mark'.gen /\ mark.seq < mark'.seq) ]_vars

(* A command that is being executed keeps its receipt: pruning for time or *)
(* for capacity never makes it look as if it had not been received.        *)
RunningHasReceipt ==
  \A r \in Requests : at[r].pc \in {"run", "infer", "check", "apply", "finish"} => receipts[at[r].cmd] = "pending"

=============================================================================
