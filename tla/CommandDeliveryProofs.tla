------------------------ MODULE CommandDeliveryProofs ------------------------
(***************************************************************************)
(* Proofs about CommandDelivery for any commands, requests and bounds: a   *)
(* command is applied once, a number is used once in a generation, and     *)
(* motion takes effect in the order of the numbers.                        *)
(*                                                                         *)
(* The argument: begin admits a command only with a number beyond the last *)
(* one of its generation (NumberInv), so a command that has begun never    *)
(* begins again, also after its receipt was pruned, and no two that have   *)
(* begun have the same number (DistinctInv).  A motion command keeps the   *)
(* lane from begin to its effect, and a reply's motion from its check, so  *)
(* motionSequence is its own number when it takes effect (CurrentInv), and *)
(* what took effect before has a smaller one (MarkInv).                    *)
(***************************************************************************)
EXTENDS CommandDelivery, TLAPS

Executing(r) == at[r].pc \in {"run", "infer", "check", "apply", "finish"}

(* Commands whose sequence number commandRuntime has counted already.      *)
Old(c) == cmd[c].gen < scope \/ (cmd[c].gen = scope /\ cmd[c].seq <= sequence)

Begun(c) == count[c] > 0 \/ \E r \in Requests : Executing(r) /\ at[r].cmd = c

(* What the tab has issued, and what requests carry.                       *)
IssueInv ==
  /\ \A c \in Commands : cmd[c] = NoCommand \/ cmd[c].gen \in 1 .. generation
  /\ \A r \in Requests : at[r].pc # "idle" => at[r].cmd \in Commands /\ cmd[at[r].cmd].gen > 0

(* Which kinds of command are where, and who holds the lane.               *)
PlaceInv ==
  \A r \in Requests :
    /\ at[r].pc = "acquire" => UsesLane(Kind(r))
    /\ at[r].pc = "run" => Kind(r) # "deferred"
    /\ at[r].pc \in {"infer", "check", "apply"} => Kind(r) = "deferred"
    /\ at[r].pc \in {"begin", "run", "check", "apply"} /\ UsesLane(Kind(r)) => lane = r

(* A request that is not canceled is of the present generation.            *)
GenerationInv ==
  \A r \in Requests :
    at[r].pc \notin {"idle", "refused"} /\ r \notin cancelled => cmd[at[r].cmd].gen = generation

ScopeInv == generation > 0 /\ scope <= generation /\ motionSequence <= sequence

(* One request at a time executes a command, which has a receipt; it has   *)
(* not taken effect before it is applied.                                  *)
OneRequestInv ==
  \A r, q \in Requests :
    Executing(r) /\ Executing(q) /\ at[r].cmd = at[q].cmd => r = q

NotYetInv ==
  \A r \in Requests : at[r].pc \in {"run", "infer", "check", "apply"} => count[at[r].cmd] = 0

NumberInv == \A c \in Commands : Begun(c) => cmd[c].gen > 0 /\ Old(c)

DistinctInv ==
  \A c, d \in Commands :
    c # d /\ Begun(c) /\ Begun(d) => cmd[c].gen # cmd[d].gen \/ cmd[c].seq # cmd[d].seq

CurrentInv ==
  \A r \in Requests :
    /\ at[r].pc = "apply" \/ (at[r].pc = "run" /\ Kind(r) = "motion")
    /\ r \notin cancelled
    => scope = cmd[at[r].cmd].gen /\ motionSequence = cmd[at[r].cmd].seq

MarkInv ==
  /\ mark.gen < scope \/ (mark.gen = scope /\ mark.seq <= motionSequence)
  /\ \/ mark.gen = 0
     \/ \E c \in Commands : count[c] > 0 /\ cmd[c].gen = mark.gen /\ cmd[c].seq = mark.seq

IInv ==
  /\ TypeOK /\ IssueInv /\ PlaceInv /\ GenerationInv /\ ScopeInv
  /\ OneRequestInv /\ RunningHasReceipt /\ NotYetInv /\ AppliedOnce
  /\ NumberInv /\ DistinctInv /\ CurrentInv /\ MarkInv

-----------------------------------------------------------------------------
(* A request goes to another place for the command it carries, and nobody  *)
(* else moves.                                                             *)
LEMMA GotoMoves ==
  ASSUME TypeOK, NEW r \in Requests, NEW p \in RequestPC, Goto(r, p)
  PROVE  /\ at' \in [Requests -> [pc : RequestPC, cmd : Commands \cup {None}]]
         /\ at'[r].pc = p /\ at'[r].cmd = at[r].cmd
         /\ \A q \in Requests : q # r => at'[q] = at[q]
  BY DEF TypeOK, Goto

(* What every step needs to know of the state it starts in.                *)
LEMMA Parts ==
  ASSUME IInv
  PROVE  /\ TypeOK /\ IssueInv /\ PlaceInv /\ GenerationInv /\ ScopeInv
         /\ OneRequestInv /\ RunningHasReceipt /\ NotYetInv /\ AppliedOnce
         /\ NumberInv /\ DistinctInv /\ CurrentInv /\ MarkInv
  BY DEF IInv

(* Steps of a request that change nothing but its place and the lane, and  *)
(* do not start to execute its command.                                    *)
LEMMA MoveKeeps ==
  ASSUME IInv, NEW r \in Requests, NEW p \in RequestPC \ {"idle", "run"}, Goto(r, p),
         UNCHANGED <<generation, tab, runtime, cancelled, history>>,
         at[r].pc \notin {"idle", "refused"},
         Executing(r)' => Executing(r),
         p \in {"infer", "check", "apply"} => at[r].pc \in {"infer", "check"},
         p = "acquire" => UsesLane(Kind(r)),
         p \in {"begin", "check", "apply"} /\ UsesLane(Kind(r)) => lane' = r,
         lane' \in Requests \cup {None},
         \A q \in Requests : q # r /\ lane = q => lane' = q,
         p = "apply" => r \in cancelled \/ (scope = cmd[at[r].cmd].gen /\ motionSequence = cmd[at[r].cmd].seq)
  PROVE  IInv'
  <1>1. /\ at' \in [Requests -> [pc : RequestPC, cmd : Commands \cup {None}]]
        /\ at'[r].pc = p /\ at'[r].cmd = at[r].cmd
        /\ \A q \in Requests : q # r => at'[q] = at[q]
    BY Parts, GotoMoves
  <1>2. /\ generation' = generation /\ cmd' = cmd /\ tabSequence' = tabSequence
        /\ scope' = scope /\ sequence' = sequence /\ motionSequence' = motionSequence
        /\ receipts' = receipts /\ cancelled' = cancelled /\ count' = count /\ mark' = mark
    BY DEF tab, runtime, history
  <1>3. \A q \in Requests : Executing(q)' => Executing(q) /\ at'[q].cmd = at[q].cmd
    BY <1>1 DEF Executing
  <1>4. \A c \in Commands : Begun(c)' => Begun(c)
    BY <1>2, <1>3 DEF Begun
  <1>5. TypeOK'
    BY <1>1, <1>2, Parts DEF TypeOK
  <1>6. IssueInv'
    <2>1. \A q \in Requests : at'[q].pc # "idle" => at[q].pc # "idle" /\ at'[q].cmd = at[q].cmd
      BY <1>1
    <2>2. \A c \in Commands : (cmd[c] = NoCommand)' <=> cmd[c] = NoCommand
      BY <1>2 DEF NoCommand
    <2>3. QED
      BY <1>2, <2>1, <2>2, Parts DEF IssueInv
  <1>7. PlaceInv'
    BY <1>1, <1>2, Parts DEF PlaceInv, Kind, UsesLane
  <1>8. GenerationInv'
    BY <1>1, <1>2, Parts DEF GenerationInv
  <1>9. OneRequestInv'
    BY <1>3, Parts DEF OneRequestInv
  <1>10. RunningHasReceipt'
    BY <1>2, <1>3, Parts DEF RunningHasReceipt, Executing
  <1>11. NotYetInv'
    BY <1>1, <1>2, Parts DEF NotYetInv
  <1>12. NumberInv' /\ DistinctInv'
    BY <1>2, <1>4, Parts DEF NumberInv, DistinctInv, Old
  <1>13. CurrentInv'
    BY <1>1, <1>2, Parts DEF CurrentInv, Kind
  <1>14. ScopeInv' /\ AppliedOnce' /\ MarkInv'
    BY <1>2, Parts DEF ScopeInv, AppliedOnce, MarkInv
  <1>15. QED
    BY <1>5, <1>6, <1>7, <1>8, <1>9, <1>10, <1>11, <1>12, <1>13, <1>14 DEF IInv

(* A copy looks for its receipt, waits for the lane, and a reply for the   *)
(* lane again and looks whether its command is still the last of motion.   *)
LEMMA LookupKeeps ==
  ASSUME IInv, NEW r \in Requests, Lookup(r)
  PROVE  IInv'
  <1>1. PICK p \in {"refused", "acquire", "begin"} :
          /\ Goto(r, p)
          /\ p = "acquire" => UsesLane(Kind(r))
          /\ p = "begin" => ~UsesLane(Kind(r))
    BY DEF Lookup
  <1>2. at'[r].pc = p
    BY <1>1, Parts, GotoMoves DEF RequestPC
  <1>3. QED
    BY <1>1, <1>2, Parts, MoveKeeps DEF Lookup, RequestPC, Executing, TypeOK

LEMMA AcquireKeeps ==
  ASSUME IInv, NEW r \in Requests, Acquire(r)
  PROVE  IInv'
  <1>1. at'[r].pc = "begin"
    BY Parts, GotoMoves DEF Acquire, RequestPC
  <1>2. QED
    BY <1>1, Parts, MoveKeeps, DeliveryAssumption DEF Acquire, RequestPC, Executing

LEMMA AcquireDeferredKeeps ==
  ASSUME IInv, NEW r \in Requests, AcquireDeferred(r)
  PROVE  IInv'
  <1>1. at'[r].pc = "check"
    BY Parts, GotoMoves DEF AcquireDeferred, RequestPC
  <1>2. QED
    BY <1>1, Parts, MoveKeeps, DeliveryAssumption DEF AcquireDeferred, RequestPC, Executing

LEMMA CheckKeeps ==
  ASSUME IInv, NEW r \in Requests, CheckDeferred(r)
  PROVE  IInv'
  <1>1. lane = r
    BY Parts DEF CheckDeferred, PlaceInv, UsesLane
  <1>2. CASE Goto(r, "apply")
    <2>1. at'[r].pc = "apply"
      BY <1>2, Parts, GotoMoves DEF RequestPC
    <2>2. /\ lane' = lane /\ scope = cmd[at[r].cmd].gen /\ motionSequence = cmd[at[r].cmd].seq
      <3>1. ~Goto(r, "finish")
        BY <2>1, Parts, GotoMoves DEF RequestPC
      <3>2. QED
        BY <3>1 DEF CheckDeferred
    <2>3. QED
      BY <1>1, <1>2, <2>1, <2>2, Parts, MoveKeeps DEF CheckDeferred, RequestPC, Executing
  <1>3. CASE Goto(r, "finish")
    <2>1. at'[r].pc = "finish"
      BY <1>3, Parts, GotoMoves DEF RequestPC
    <2>2. lane' = None
      <3>1. ~Goto(r, "apply")
        BY <2>1, Parts, GotoMoves DEF RequestPC
      <3>2. QED
        BY <3>1 DEF CheckDeferred
    <2>3. QED
      BY <1>1, <1>3, <2>1, <2>2, Parts, MoveKeeps DEF CheckDeferred, RequestPC, Executing
  <1>4. QED
    BY <1>2, <1>3 DEF CheckDeferred

-----------------------------------------------------------------------------
(* A new command takes the place of none that was issued before.           *)
LEMMA IssueKeeps ==
  ASSUME IInv, NEW c \in Commands, NEW kind \in CommandKinds, NEW reloaded \in BOOLEAN,
         Issue(c, kind, reloaded)
  PROVE  IInv'
  <1>1. /\ cmd' \in [Commands -> [kind : CommandKinds \cup {None}, gen : Nat, seq : Nat]]
        /\ tabSequence' \in Nat
        /\ cmd'[c].gen = generation
        /\ \A d \in Commands : d # c => cmd'[d] = cmd[d]
    BY Parts DEF Issue, TypeOK, lastSequence
  <1>2. cmd[c].gen = 0
    BY DEF Issue, NoCommand
  <1>3. /\ generation' = generation /\ at' = at /\ lane' = lane
        /\ scope' = scope /\ sequence' = sequence /\ motionSequence' = motionSequence
        /\ receipts' = receipts /\ cancelled' = cancelled /\ count' = count /\ mark' = mark
    BY DEF Issue, runtime, history
  <1>4. \A r \in Requests : at[r].pc # "idle" => at[r].cmd \in Commands /\ cmd'[at[r].cmd] = cmd[at[r].cmd]
    BY <1>1, <1>2, Parts DEF IssueInv
  <1>5. \A d \in Commands : /\ Begun(d)' <=> Begun(d)
                            /\ Begun(d) => d # c
    BY <1>2, <1>3, Parts DEF Begun, Executing, NumberInv
  <1>6. TypeOK'
    BY <1>1, <1>3, Parts DEF TypeOK
  <1>7. IssueInv'
    <2>1. generation \in Nat /\ generation > 0
      BY Parts DEF TypeOK, ScopeInv
    <2>2. QED
      BY <1>1, <1>3, <1>4, <2>1, Parts DEF IssueInv, NoCommand
  <1>8. PlaceInv' /\ GenerationInv' /\ CurrentInv'
    BY <1>3, <1>4, Parts DEF PlaceInv, GenerationInv, CurrentInv, Kind, UsesLane
  <1>9. NumberInv' /\ DistinctInv'
    BY <1>1, <1>3, <1>5, Parts DEF NumberInv, DistinctInv, Old
  <1>10. MarkInv'
    BY <1>1, <1>2, <1>3, <1>5, Parts DEF MarkInv, Begun
  <1>11. ScopeInv' /\ OneRequestInv' /\ RunningHasReceipt' /\ NotYetInv' /\ AppliedOnce'
    BY <1>3, Parts DEF ScopeInv, OneRequestInv, Executing, RunningHasReceipt, NotYetInv, AppliedOnce
  <1>12. QED
    BY <1>6, <1>7, <1>8, <1>9, <1>10, <1>11 DEF IInv

(* A request that arrives executes nothing yet.                            *)
LEMMA DeliverKeeps ==
  ASSUME IInv, NEW r \in Requests, NEW c \in Commands, Deliver(r, c)
  PROVE  IInv'
  <1>1. /\ at' \in [Requests -> [pc : RequestPC, cmd : Commands \cup {None}]]
        /\ at'[r].pc \in {"lookup", "refused"} /\ at'[r].cmd = c
        /\ at'[r].pc = "lookup" => cmd[c].gen = generation
        /\ \A q \in Requests : q # r => at'[q] = at[q]
    BY Parts DEF TypeOK, Deliver, RequestPC
  <1>2. /\ generation' = generation /\ cmd' = cmd /\ tabSequence' = tabSequence /\ lane' = lane
        /\ scope' = scope /\ sequence' = sequence /\ motionSequence' = motionSequence
        /\ receipts' = receipts /\ cancelled' = cancelled /\ count' = count /\ mark' = mark
    BY DEF Deliver, tab, runtime, history
  <1>3. cmd[c].gen > 0
    BY Parts DEF Deliver, IssueInv, NoCommand
  <1>4. \A q \in Requests : Executing(q)' => Executing(q) /\ at'[q].cmd = at[q].cmd
    <2>1. ~Executing(r)'
      BY <1>1 DEF Executing
    <2>2. \A q \in Requests : q # r => (Executing(q)' <=> Executing(q))
      BY <1>1 DEF Executing
    <2>3. QED
      BY <1>1, <2>1, <2>2
  <1>5. \A d \in Commands : Begun(d)' => Begun(d)
    BY <1>2, <1>4 DEF Begun
  <1>6. TypeOK' /\ IssueInv'
    BY <1>1, <1>2, <1>3, Parts DEF TypeOK, IssueInv, NoCommand
  <1>7. PlaceInv' /\ GenerationInv' /\ CurrentInv'
    BY <1>1, <1>2, Parts DEF PlaceInv, GenerationInv, CurrentInv, Kind
  <1>8. OneRequestInv' /\ RunningHasReceipt'
    BY <1>2, <1>4, Parts DEF OneRequestInv, RunningHasReceipt, Executing
  <1>9. NumberInv' /\ DistinctInv'
    BY <1>2, <1>5, Parts DEF NumberInv, DistinctInv, Old
  <1>10. NotYetInv' /\ ScopeInv' /\ AppliedOnce' /\ MarkInv'
    BY <1>1, <1>2, Parts DEF NotYetInv, ScopeInv, AppliedOnce, MarkInv
  <1>11. QED
    BY <1>6, <1>7, <1>8, <1>9, <1>10 DEF IInv

(* A Stop, a takeover or a loss cancels every request there is.            *)
LEMMA AdvanceKeeps ==
  ASSUME IInv, AdvanceGeneration
  PROVE  IInv'
  <1>1. /\ generation' = generation + 1
        /\ cancelled' = {r \in Requests : at[r].pc # "idle"}
        /\ cmd' = cmd /\ tabSequence' = tabSequence /\ lane' = lane /\ at' = at
        /\ scope' = scope /\ sequence' = sequence /\ motionSequence' = motionSequence
        /\ receipts' = receipts /\ count' = count /\ mark' = mark
    BY DEF AdvanceGeneration, tab, runtime, history
  <1>2. TypeOK' /\ IssueInv' /\ ScopeInv'
    BY <1>1, Parts DEF TypeOK, IssueInv, ScopeInv, NoCommand
  <1>3. GenerationInv' /\ CurrentInv'
    BY <1>1, Parts DEF GenerationInv, CurrentInv
  <1>4. PlaceInv' /\ OneRequestInv' /\ RunningHasReceipt' /\ NotYetInv' /\ AppliedOnce'
    BY <1>1, Parts DEF PlaceInv, Kind, UsesLane, OneRequestInv, Executing, RunningHasReceipt,
                       NotYetInv, AppliedOnce
  <1>5. NumberInv' /\ DistinctInv' /\ MarkInv'
    BY <1>1, Parts DEF NumberInv, Old, DistinctInv, Begun, Executing, MarkInv
  <1>6. QED
    BY <1>2, <1>3, <1>4, <1>5 DEF IInv

(* Only receipts of finished commands are pruned: no invariant but that of *)
(* the receipts looks at them.                                             *)
LEMMA PruneKeeps ==
  ASSUME IInv, NEW c \in Commands, Prune(c)
  PROVE  IInv'
  <1>1. /\ generation' = generation /\ cancelled' = cancelled
        /\ cmd' = cmd /\ tabSequence' = tabSequence /\ lane' = lane /\ at' = at
        /\ scope' = scope /\ sequence' = sequence /\ motionSequence' = motionSequence
        /\ count' = count /\ mark' = mark
        /\ receipts' \in [Commands -> {None, "pending", "complete", "unknown"}]
        /\ \A d \in Commands : receipts[d] = "pending" => receipts'[d] = "pending"
    BY Parts DEF Prune, Finished, TypeOK, tab, history
  <1>2. TypeOK' /\ IssueInv' /\ ScopeInv' /\ GenerationInv' /\ CurrentInv' /\ PlaceInv'
    BY <1>1, Parts DEF TypeOK, IssueInv, ScopeInv, GenerationInv, CurrentInv, PlaceInv, Kind, UsesLane
  <1>3. RunningHasReceipt'
    BY <1>1, Parts DEF RunningHasReceipt, IssueInv
  <1>4. OneRequestInv' /\ NotYetInv' /\ AppliedOnce'
    BY <1>1, Parts DEF OneRequestInv, Executing, NotYetInv, AppliedOnce
  <1>5. NumberInv' /\ DistinctInv' /\ MarkInv'
    BY <1>1, Parts DEF NumberInv, Old, DistinctInv, Begun, Executing, MarkInv
  <1>6. QED
    BY <1>2, <1>3, <1>4, <1>5 DEF IInv

(* begin admits a command with a number beyond the last one; so it had not *)
(* begun, and what had begun has other numbers.                            *)
LEMMA BeginKeeps ==
  ASSUME IInv, NEW r \in Requests, Begin(r)
  PROVE  IInv'
  <1> DEFINE c == at[r].cmd
  <1>1. /\ c \in Commands /\ cmd[c].gen > 0 /\ cmd[c].gen = generation /\ r \notin cancelled
        /\ at[r].pc = "begin"
    BY Parts DEF Begin, IssueInv
  <1>2. /\ generation' = generation /\ cmd' = cmd /\ tabSequence' = tabSequence
        /\ cancelled' = cancelled /\ count' = count /\ mark' = mark
    BY DEF Begin, tab, history
  <1>3. /\ scope' = cmd[c].gen /\ sequence' = cmd[c].seq
        /\ motionSequence' = IF Kind(r) \in {"motion", "deferred"} THEN cmd[c].seq
                             ELSE IF scope # cmd[c].gen THEN 0 ELSE motionSequence
        /\ \A d \in Commands : cmd[d].gen \in Nat /\ cmd[d].seq \in Nat
    <2>1. \A d \in Commands : cmd[d].gen \in Nat /\ cmd[d].seq \in Nat
      BY Parts DEF TypeOK
    <2>2. QED
      BY <2>1 DEF Begin
  <1>4. PICK p \in {"infer", "run"} :
          /\ Goto(r, p)
          /\ p = "infer" => Kind(r) = "deferred" /\ lane' = None
          /\ p = "run" => Kind(r) # "deferred" /\ lane' = lane
    <2>1. \/ Kind(r) = "deferred" /\ lane' = None /\ Goto(r, "infer")
          \/ Kind(r) # "deferred" /\ lane' = lane /\ Goto(r, "run")
      BY DEF Begin
    <2>2. QED
      BY <2>1
  <1>5. /\ at' \in [Requests -> [pc : RequestPC, cmd : Commands \cup {None}]]
        /\ at'[r].pc = p /\ at'[r].cmd = c
        /\ \A q \in Requests : q # r => at'[q] = at[q]
    BY <1>4, Parts, GotoMoves DEF RequestPC
  <1>6. /\ receipts' \in [Commands -> {None, "pending", "complete", "unknown"}]
        /\ receipts'[c] = "pending"
        /\ \A d \in Commands : receipts[d] = "pending" => receipts'[d] = "pending"
    <2>1. PICK victims \in {{}} \cup {{v} : v \in Finished} :
            receipts' = [[d \in Commands |-> IF d \in victims THEN None ELSE receipts[d]] EXCEPT ![c] = "pending"]
      BY Zenon DEF Begin
    <2>2. \A d \in victims : receipts[d] # "pending"
      BY DEF Finished
    <2>3. QED
      BY <1>1, <2>1, <2>2, Parts DEF TypeOK
  <1>7. ~Old(c)
    <2>1. InOrder(c)
      BY DEF Begin
    <2>2. QED
      BY <1>1, <2>1, Parts DEF InOrder, Old, ScopeInv, TypeOK
  <1>8. ~Begun(c)
    BY <1>1, <1>7, Parts DEF NumberInv
  <1>9. \A d \in Commands : Old(d) => Old(d)'
    <2>1. scope \in Nat /\ sequence \in Nat /\ scope <= cmd[c].gen
      BY <1>1, Parts DEF ScopeInv, TypeOK
    <2>2. QED
      BY <1>1, <1>2, <1>3, <1>7, <2>1 DEF Old
  <1>10. \A d \in Commands : Begun(d)' => Begun(d) \/ d = c
    BY <1>2, <1>5 DEF Begun, Executing
  <1>11. TypeOK' /\ IssueInv'
    BY <1>1, <1>2, <1>3, <1>4, <1>5, <1>6, Parts DEF TypeOK, IssueInv
  <1>12. PlaceInv'
    <2>1. UsesLane(Kind(r)) => lane = r
      BY <1>1, Parts DEF PlaceInv
    <2>2. \A q \in Requests : at'[q].cmd = at[q].cmd
      BY <1>5
    <2>3. QED
      BY <1>2, <1>4, <1>5, <2>1, <2>2, Parts DEF PlaceInv, Kind, UsesLane
  <1>13. GenerationInv'
    BY <1>1, <1>2, <1>5, Parts DEF GenerationInv
  <1>14. ScopeInv'
    BY <1>1, <1>2, <1>3, <1>7, Parts DEF ScopeInv, Old, TypeOK
  <1>15. OneRequestInv'
    BY <1>1, <1>5, <1>8, Parts DEF OneRequestInv, Executing, Begun
  <1>16. RunningHasReceipt'
    BY <1>1, <1>5, <1>6, Parts DEF RunningHasReceipt, IssueInv
  <1>17. NotYetInv' /\ AppliedOnce'
    BY <1>1, <1>2, <1>5, <1>8, Parts DEF NotYetInv, AppliedOnce, Begun, TypeOK
  <1>18. NumberInv'
    BY <1>1, <1>2, <1>3, <1>9, <1>10, Parts DEF NumberInv, Old, TypeOK
  <1>19. DistinctInv'
    <2>1. \A d \in Commands : Begun(d) => cmd[d].gen # cmd[c].gen \/ cmd[d].seq # cmd[c].seq
      BY <1>1, <1>7, Parts DEF NumberInv, Old
    <2>2. QED
      BY <1>1, <1>2, <1>10, <2>1, Parts DEF DistinctInv
  <1>20. CurrentInv'
    <2> SUFFICES ASSUME NEW q \in Requests, q \notin cancelled,
                        at'[q].pc = "apply" \/ (at'[q].pc = "run" /\ Kind(q)' = "motion")
                 PROVE  scope' = cmd[at'[q].cmd].gen /\ motionSequence' = cmd[at'[q].cmd].seq
      BY <1>2 DEF CurrentInv
    <2>1. CASE q = r
      BY <1>2, <1>3, <1>4, <1>5, <2>1 DEF Kind
    <2>2. CASE q # r
      <3>1. /\ scope = cmd[at[q].cmd].gen /\ motionSequence = cmd[at[q].cmd].seq
            /\ cmd[at[q].cmd].gen = generation /\ Kind(q) \in {"motion", "deferred"} /\ lane = q
        BY <1>2, <1>5, <2>2, Parts DEF CurrentInv, GenerationInv, PlaceInv, Kind, UsesLane
      <3>2. ~UsesLane(Kind(r))
        BY <1>1, <2>2, <3>1, Parts DEF PlaceInv
      <3>3. QED
        BY <1>1, <1>3, <1>5, <2>2, <3>1, <3>2 DEF UsesLane
    <2>3. QED
      BY <2>1, <2>2
  <1>21. MarkInv'
    <2>1. /\ scope \in Nat /\ sequence \in Nat /\ motionSequence \in Nat
          /\ mark.gen \in Nat /\ mark.seq \in Nat
          /\ scope <= cmd[c].gen /\ motionSequence <= sequence
      BY <1>1, Parts DEF ScopeInv, TypeOK
    <2>2. \/ mark.gen < scope
          \/ mark.gen = scope /\ mark.seq <= motionSequence
      BY Parts DEF MarkInv
    <2>3. mark.gen < scope' \/ (mark.gen = scope' /\ mark.seq <= motionSequence')
      BY <1>1, <1>3, <1>7, <2>1, <2>2 DEF Old
    <2>4. QED
      BY <1>2, <2>3, Parts DEF MarkInv
  <1>22. QED
    BY <1>11, <1>12, <1>13, <1>14, <1>15, <1>16, <1>17, <1>18, <1>19, <1>20, <1>21 DEF IInv

(* What a command that takes effect brings with it: it has not taken       *)
(* effect before, and is newer than the last motion, if it is motion.      *)
LEMMA EffectIsNew ==
  ASSUME IInv, NEW r \in Requests, Apply(r)
  PROVE  /\ at[r].cmd \in Commands /\ count[at[r].cmd] = 0
         /\ cmd[at[r].cmd].gen = generation
         /\ Kind(r) \in {"motion", "deferred"} =>
              /\ scope = cmd[at[r].cmd].gen /\ motionSequence = cmd[at[r].cmd].seq
              /\ \/ mark.gen < cmd[at[r].cmd].gen
                 \/ mark.gen = cmd[at[r].cmd].gen /\ mark.seq < cmd[at[r].cmd].seq
  <1> DEFINE c == at[r].cmd
  <1>1. at[r].pc \in {"run", "apply"} /\ r \notin cancelled
    BY DEF Apply
  <1>2. c \in Commands /\ count[c] = 0 /\ cmd[c].gen = generation /\ cmd[c].gen > 0
    BY <1>1, Parts DEF IssueInv, NotYetInv, GenerationInv
  <1>3. ASSUME Kind(r) \in {"motion", "deferred"}
        PROVE  /\ scope = cmd[c].gen /\ motionSequence = cmd[c].seq
               /\ mark.gen < cmd[c].gen \/ (mark.gen = cmd[c].gen /\ mark.seq < cmd[c].seq)
    <2>1. scope = cmd[c].gen /\ motionSequence = cmd[c].seq
      BY <1>1, <1>3, Parts DEF CurrentInv, PlaceInv
    <2>2. \A d \in Commands : count[d] > 0 => cmd[d].gen # cmd[c].gen \/ cmd[d].seq # cmd[c].seq
      BY <1>1, <1>2, Parts DEF DistinctInv, Begun, Executing
    <2>3. mark.gen # cmd[c].gen \/ mark.seq # cmd[c].seq
      BY <1>2, <2>2, Parts DEF MarkInv
    <2>4. mark.gen \in Nat /\ mark.seq \in Nat /\ cmd[c].seq \in Nat /\ cmd[c].gen \in Nat
      BY <1>2, Parts DEF TypeOK
    <2>5. QED
      BY <2>1, <2>3, <2>4, Parts DEF MarkInv
  <1>4. QED
    BY <1>2, <1>3

(* The effect of a command that has begun, by the one request that         *)
(* executes it.                                                            *)
LEMMA ApplyKeeps ==
  ASSUME IInv, NEW r \in Requests, Apply(r)
  PROVE  IInv'
  <1> DEFINE c == at[r].cmd
  <1>1. /\ at[r].pc \in {"run", "apply"} /\ r \notin cancelled
        /\ c \in Commands /\ count[c] = 0 /\ cmd[c].gen = generation
    BY EffectIsNew DEF Apply
  <1>2. /\ generation' = generation /\ cmd' = cmd /\ tabSequence' = tabSequence
        /\ cancelled' = cancelled /\ receipts' = receipts
        /\ scope' = scope /\ sequence' = sequence /\ motionSequence' = motionSequence
    BY DEF Apply, tab, runtime
  <1>3. /\ at' \in [Requests -> [pc : RequestPC, cmd : Commands \cup {None}]]
        /\ at'[r].pc = "finish" /\ at'[r].cmd = c
        /\ \A q \in Requests : q # r => at'[q] = at[q]
    BY Parts, GotoMoves DEF Apply, RequestPC
  <1>4. /\ count' \in [Commands -> Nat]
        /\ count'[c] = 1
        /\ \A d \in Commands : d # c => count'[d] = count[d]
    BY <1>1, Parts DEF Apply, TakesEffect, TypeOK
  <1>5. /\ mark' \in [gen : Nat, seq : Nat]
        /\ \/ mark' = mark
           \/ Kind(r) \in {"motion", "deferred"} /\ mark' = [gen |-> cmd[c].gen, seq |-> cmd[c].seq]
    BY <1>1, Parts DEF Apply, TakesEffect, TypeOK, Kind
  <1>6. /\ lane' \in Requests \cup {None}
        /\ \A q \in Requests : q # r /\ lane = q => lane' = q
    <2>1. lane' = IF at[r].pc = "apply" THEN None ELSE lane
      BY DEF Apply
    <2>2. at[r].pc = "apply" => lane = r
      BY Parts DEF PlaceInv, UsesLane
    <2>3. QED
      BY <2>1, <2>2, Parts DEF TypeOK
  <1>7. \A d \in Commands : Begun(d)' <=> Begun(d)
    <2>1. \A q \in Requests : /\ Executing(q)' <=> Executing(q)
                              /\ at'[q].cmd = at[q].cmd
      BY <1>1, <1>3 DEF Executing
    <2>2. Executing(r)
      BY <1>1 DEF Executing
    <2>3. QED
      BY <1>4, <2>1, <2>2 DEF Begun
  <1>8. TypeOK' /\ IssueInv'
    <2>1. TypeOK'
      BY <1>2, <1>3, <1>4, <1>5, <1>6, Parts DEF TypeOK
    <2>2. \A q \in Requests : at'[q].pc # "idle" => at[q].pc # "idle" /\ at'[q].cmd = at[q].cmd
      BY <1>1, <1>3
    <2>3. \A d \in Commands : (cmd[d] = NoCommand)' <=> cmd[d] = NoCommand
      BY <1>2 DEF NoCommand
    <2>4. QED
      BY <1>2, <2>1, <2>2, <2>3, Parts DEF IssueInv
  <1>9. PlaceInv' /\ GenerationInv'
    BY <1>1, <1>2, <1>3, <1>6, Parts DEF PlaceInv, GenerationInv, Kind, UsesLane
  <1>10. OneRequestInv' /\ RunningHasReceipt'
    BY <1>1, <1>2, <1>3, Parts DEF OneRequestInv, RunningHasReceipt, Executing
  <1>11. NotYetInv' /\ AppliedOnce'
    BY <1>1, <1>3, <1>4, Parts DEF NotYetInv, AppliedOnce, OneRequestInv, Executing, IssueInv
  <1>12. NumberInv' /\ DistinctInv' /\ ScopeInv'
    BY <1>2, <1>7, Parts DEF NumberInv, DistinctInv, ScopeInv, Old
  <1>13. CurrentInv'
    BY <1>2, <1>3, Parts DEF CurrentInv, Kind
  <1>14. MarkInv'
    <2>1. CASE mark' = mark
      BY <1>1, <1>2, <1>4, <2>1, Parts DEF MarkInv, TypeOK
    <2>2. CASE mark' # mark
      BY <1>1, <1>2, <1>4, <1>5, <2>2, EffectIsNew, Parts DEF MarkInv, TypeOK
    <2>3. QED
      BY <2>1, <2>2
  <1>15. QED
    BY <1>8, <1>9, <1>10, <1>11, <1>12, <1>13, <1>14 DEF IInv

(* Nobody else executes the command whose receipt a handler completes.     *)
LEMMA ReturnKeeps ==
  ASSUME IInv, NEW r \in Requests, NEW state \in {"complete", "unknown"}, Return(r, state)
  PROVE  IInv'
  <1>1. /\ generation' = generation /\ cmd' = cmd /\ tabSequence' = tabSequence
        /\ count' = count /\ mark' = mark
        /\ scope' = scope /\ sequence' = sequence /\ motionSequence' = motionSequence
        /\ cancelled' = cancelled \ {r}
        /\ lane' = IF lane = r THEN None ELSE lane
    BY DEF Return, tab, history
  <1>2. /\ at' \in [Requests -> [pc : RequestPC, cmd : Commands \cup {None}]]
        /\ at'[r].pc = "idle"
        /\ \A q \in Requests : q # r => at'[q] = at[q]
    BY Parts DEF Return, NoRequest, TypeOK, RequestPC
  <1>3. /\ receipts' \in [Commands -> {None, "pending", "complete", "unknown"}]
        /\ \A q \in Requests : q # r /\ Executing(q) => receipts'[at[q].cmd] = receipts[at[q].cmd]
    <2>1. at[r].cmd \in Commands /\ at[r].pc # "idle"
      BY Parts DEF Return, IssueInv
    <2>2. \A d \in Commands : receipts'[d] # receipts[d] => d = at[r].cmd /\ Executing(r)
      BY <2>1, Parts DEF Return, TypeOK, Executing
    <2>3. receipts' \in [Commands -> {None, "pending", "complete", "unknown"}]
      BY <2>1, Parts DEF Return, TypeOK
    <2>4. \A q \in Requests : Executing(q) => at[q].cmd \in Commands
      BY Parts DEF IssueInv, Executing
    <2>5. QED
      BY <2>2, <2>3, <2>4, Parts DEF OneRequestInv
  <1>4. \A q \in Requests : Executing(q)' => q # r /\ Executing(q) /\ at'[q].cmd = at[q].cmd
    BY <1>2 DEF Executing
  <1>5. \A d \in Commands : Begun(d)' => Begun(d)
    BY <1>1, <1>4 DEF Begun
  <1>6. TypeOK' /\ IssueInv'
    BY <1>1, <1>2, <1>3, Parts DEF TypeOK, IssueInv, NoCommand
  <1>7. PlaceInv' /\ GenerationInv' /\ CurrentInv'
    BY <1>1, <1>2, Parts DEF PlaceInv, GenerationInv, CurrentInv, Kind, UsesLane
  <1>8. OneRequestInv' /\ RunningHasReceipt'
    BY <1>3, <1>4, Parts DEF OneRequestInv, RunningHasReceipt, Executing
  <1>9. NotYetInv' /\ AppliedOnce' /\ MarkInv' /\ ScopeInv'
    BY <1>1, <1>2, Parts DEF NotYetInv, AppliedOnce, MarkInv, ScopeInv
  <1>10. NumberInv' /\ DistinctInv'
    BY <1>1, <1>5, Parts DEF NumberInv, DistinctInv, Old
  <1>11. QED
    BY <1>6, <1>7, <1>8, <1>9, <1>10 DEF IInv

-----------------------------------------------------------------------------
(* Nothing has been issued, delivered or begun at the start.               *)
LEMMA InitEstablishes == Init => IInv
  BY DEF Init, IInv, TypeOK, IssueInv, PlaceInv, GenerationInv, ScopeInv, OneRequestInv,
         RunningHasReceipt, NotYetInv, AppliedOnce, NumberInv, DistinctInv, CurrentInv, MarkInv,
         Begun, Executing, NoRequest, NoCommand, RequestPC

(* Every step of the tab, the network, the owner and a request.            *)
LEMMA NextKeeps == IInv /\ [Next]_vars => IInv'
  <1> SUFFICES ASSUME IInv, [Next]_vars PROVE IInv'
    OBVIOUS
  <1>1. CASE AdvanceGeneration
    BY <1>1, AdvanceKeeps
  <1>2. ASSUME NEW c \in Commands, Prune(c) PROVE IInv'
    BY <1>2, PruneKeeps
  <1>3. ASSUME NEW c \in Commands, NEW kind \in CommandKinds, NEW reloaded \in BOOLEAN,
               Issue(c, kind, reloaded)
        PROVE  IInv'
    BY <1>3, IssueKeeps
  <1>4. ASSUME NEW r \in Requests, NEW c \in Commands, Deliver(r, c) PROVE IInv'
    BY <1>4, DeliverKeeps
  <1>5. ASSUME NEW r \in Requests, RequestStep(r) PROVE IInv'
    <2>1. CASE Lookup(r)
      BY <2>1, LookupKeeps
    <2>2. CASE Acquire(r)
      BY <2>2, AcquireKeeps
    <2>3. CASE Begin(r)
      BY <2>3, BeginKeeps
    <2>4. CASE Apply(r)
      BY <2>4, ApplyKeeps
    <2>5. CASE AcquireDeferred(r)
      BY <2>5, AcquireDeferredKeeps
    <2>6. CASE CheckDeferred(r)
      BY <2>6, CheckKeeps
    <2>7. CASE Return(r, "complete") \/ Return(r, "unknown")
      BY <2>7, ReturnKeeps
    <2>8. QED
      BY <1>5, <2>1, <2>2, <2>3, <2>4, <2>5, <2>6, <2>7 DEF RequestStep
  <1>6. CASE UNCHANGED vars
    BY <1>6, Parts DEF vars, tab, runtime, history, IInv, TypeOK, IssueInv, PlaceInv, GenerationInv,
       ScopeInv, OneRequestInv, RunningHasReceipt, NotYetInv, AppliedOnce, NumberInv, DistinctInv,
       CurrentInv, MarkInv, Begun, Executing, Old, Kind
  <1>7. QED
    BY <1>1, <1>2, <1>3, <1>4, <1>5, <1>6 DEF Next

(* The invariant holds in every behaviour of commandRuntime.               *)
LEMMA InvariantHolds == Spec => []IInv
  BY InitEstablishes, NextKeeps, PTL DEF Spec

(* The runtime, the requests and the lane keep their types.                *)
THEOREM DeliveryTypeCorrect == Spec => []TypeOK
  <1>1. IInv => TypeOK
    BY DEF IInv
  <1>2. QED
    BY <1>1, InvariantHolds, PTL

(* However often a command is delivered, and although its receipt may have *)
(* been pruned, it takes effect at most once (lookup, begin).              *)
THEOREM NothingIsRepeated == Spec => []AppliedOnce
  <1>1. IInv => AppliedOnce
    BY DEF IInv
  <1>2. QED
    BY <1>1, InvariantHolds, PTL

(* Of the commands with one number in one generation, which a reloaded tab *)
(* may have issued, at most one takes effect.                              *)
THEOREM NumbersAreUsedOnce == Spec => []OneCommandPerSequence
  <1>1. IInv => OneCommandPerSequence
    BY DEF IInv, DistinctInv, Begun, OneCommandPerSequence
  <1>2. QED
    BY <1>1, InvariantHolds, PTL

(* A command that is being executed keeps its receipt.                     *)
THEOREM ReceiptsLast == Spec => []RunningHasReceipt
  <1>1. IInv => RunningHasReceipt
    BY DEF IInv
  <1>2. QED
    BY <1>1, InvariantHolds, PTL

(* Motion takes effect in the order of the numbers and in the generation   *)
(* that is current: a model's late reply overrides neither a newer control *)
(* nor a Stop (beginDeferredMotion).                                       *)
THEOREM MotionKeepsOrder == Spec => MotionInOrder
  <1> DEFINE Ordered ==
        mark' # mark => /\ mark'.gen = generation
                        /\ mark.gen < mark'.gen \/ (mark.gen = mark'.gen /\ mark.seq < mark'.seq)
  <1>1. IInv /\ [Next]_vars => [Ordered]_vars
    <2> SUFFICES ASSUME IInv, Next, mark' # mark PROVE Ordered
      BY DEF vars
    <2>1. PICK r \in Requests : Apply(r)
      BY DEF Next, RequestStep, AdvanceGeneration, Prune, Issue, Deliver, Lookup, Acquire, Begin,
             AcquireDeferred, CheckDeferred, Return, history
    <2>2. /\ Kind(r) \in {"motion", "deferred"}
          /\ mark' = [gen |-> cmd[at[r].cmd].gen, seq |-> cmd[at[r].cmd].seq]
      BY <2>1 DEF Apply, TakesEffect, Kind
    <2>3. QED
      BY <2>1, <2>2, EffectIsNew
  <1>2. QED
    BY <1>1, InvariantHolds, PTL DEF Spec, MotionInOrder

=============================================================================
