------------------------ MODULE ControllerLeaseProofs ------------------------
(***************************************************************************)
(* Ownership of the device for any number of actors, requests and Stops.   *)
(***************************************************************************)
EXTENDS ControllerLease, TLAPS

Running == {"admitted", "loaded", "obtained"}

(* A bound request is one of the present owner, who is undisturbed.        *)
BoundInv ==
  \A r \in bound :
    /\ req[r].pc \notin {"idle", "sent"} /\ req[r].actor \notin Local
    /\ active = req[r].actor /\ pending = None /\ ~stopping /\ ownerLive

(* The stations of a session's request: it is bound before it is admitted, *)
(* stays bound until it is canceled, and was admitted in this generation.  *)
RequestInv ==
  \A r \in Requests :
    /\ req[r].pc \in {"bind", "admit"} => req[r].actor \notin Local
    /\ req[r].pc \in {"idle", "sent"} => ~req[r].holds
    /\ req[r].pc \in {"admit"} \cup Running /\ req[r].actor \notin Local => req[r].holds
    /\ req[r].holds /\ r \notin cancelled => r \in bound
    /\ req[r].pc \in Running /\ req[r].actor \notin Local /\ r \notin cancelled
         => req[r].gen = generation

(* The stations of a Stop.                                                 *)
JobInv ==
  \A j \in Jobs :
    /\ job[j].pc \in {"enter", "waiting", "told"} => job[j].kind = "stop"
    /\ job[j].pc = "begin" => job[j].kind = "bootstrap"
    /\ job[j].pc = "cancel" => job[j].kind \in {"takeover", "bootstrap"}
    /\ job[j].pc # "idle" /\ job[j].kind \in {"takeover", "bootstrap"} => job[j].actor \in Actors

(* Motion that does not belong to an undisturbed owner is about to stop.   *)
MotionInv ==
  motion \in Actors \ Local /\ (pending # None \/ motion # active) => StopAhead

(* While a Stop holds the engine nothing moves, nothing that could move is *)
(* admitted, and everybody who has invalidated work has seen it still.     *)
EngineInv ==
  /\ \A j \in Jobs : job[j].pc = "engine" <=> lifecycleMu = j
  /\ lifecycleMu # None =>
       /\ motion = None
       /\ \A r \in Requests : req[r].pc = "obtained" => r \in outdated
       /\ \A j \in Jobs : job[j].pc \notin {"idle", "begin", "fenced"} => job[j].heard

IInv ==
  /\ TypeOK
  /\ BoundInv
  /\ RequestInv
  /\ JobInv
  /\ MotionInv
  /\ LossIsFenced
  /\ EngineInv
  /\ SharedStopCovers

-----------------------------------------------------------------------------


(* Tickets have ages below TicketLife.                                     *)
LEMMA IssuedType ==
  ASSUME NEW a, NEW held, held \subseteq 0 .. TicketLife - 1
  PROVE  Issued(a, held) \subseteq 0 .. TicketLife - 1
  <1>1. CASE a \in Local \/ 0 \in held
    BY <1>1 DEF Issued
  <1>2. CASE ~(a \in Local \/ 0 \in held)
    <2>1. Issued(a, held) \subseteq {0} \cup held
      BY <1>2 DEF Issued
    <2>2. 0 \in 0 .. TicketLife - 1
      BY LeaseAssumption
    <2>3. QED
      BY <2>1, <2>2
  <1>3. QED
    BY <1>1, <1>2

(* The sections that give the lease away keep its types.                   *)
LEMMA ActivateType ==
  ASSUME LeaseType, NEW a \in Actors \cup {None}, activateLocked(a),
         pending' \in Actors \cup {None}, stopping' \in BOOLEAN
  PROVE  LeaseType'
  <1>1. tickets' \subseteq 0 .. TicketLife - 1
    BY IssuedType DEF activateLocked
  <1>2. ownerLive' \in BOOLEAN
    BY DEF activateLocked
  <1>3. QED
    BY <1>1, <1>2, LeaseAssumption DEF activateLocked, LeaseType

(* clearOwnerLocked.                                                       *)
LEMMA ClearType ==
  ASSUME LeaseType, clearOwnerLocked, pending' \in Actors \cup {None}, stopping' \in BOOLEAN
  PROVE  LeaseType'
  <1>1. ownerLive' \in BOOLEAN
    BY DEF clearOwnerLocked
  <1>3. QED
    BY <1>1, LeaseAssumption DEF clearOwnerLocked, LeaseType

(* BeginLoss and BeginLocalLoss.                                           *)
LEMMA LoseType ==
  ASSUME LeaseType, LoseOwner
  PROVE  LeaseType'
  <1>1. stopping' \in BOOLEAN /\ pending' \in Actors \cup {None}
    BY DEF LoseOwner
  <1>2. QED
    BY <1>1, ClearType DEF LoseOwner

(* touchLocalLocked.                                                       *)
LEMMA TouchType ==
  ASSUME LeaseType, NEW a \in Actors, touchLocalLocked(a)
  PROVE  LeaseType'
  <1>1. pending' \in Actors \cup {None} /\ stopping' \in BOOLEAN
    BY DEF touchLocalLocked, LeaseType
  <1>2. CASE activateLocked(a)
    BY <1>1, <1>2, ActivateType
  <1>3. CASE ~activateLocked(a)
    <2>1. UNCHANGED <<active, generation, remote, ownerLive, tickets>> /\ idle' \in {0, idle}
      BY <1>3 DEF touchLocalLocked, lease
    <2>2. QED
      BY <1>1, <2>1, LeaseAssumption DEF LeaseType
  <1>4. QED
    BY <1>2, <1>3

(* Every step preserves the types of the lease.                            *)
LEMMA LeaseTypeStep == TypeOK /\ [Next]_vars => LeaseType'
  <1> SUFFICES ASSUME TypeOK, [Next]_vars PROVE LeaseType'
    OBVIOUS
  <1> USE LeaseAssumption DEF TypeOK, LeaseType, vars, lease, ctx, access,
          fence, stops
  <1>1. ASSUME NEW r \in Requests,
             Disconnect(r) \/ Authorize(r) \/ Bind(r) \/ Admit(r)
           \/ LoadStopSequence(r) \/ motionEngineForStart(r) \/ StartMotion(r)
           \/ Leave(r)
       PROVE  LeaseType'
    BY <1>1 DEF Disconnect, Authorize, Bind, Admit, LoadStopSequence,
       motionEngineForStart, StartMotion, Leave
  <1>2. ASSUME NEW j \in Jobs,
             RequestStop(j) \/ EnterBatch(j) \/ FollowerReply(j) \/ StopEngine(j)
           \/ ReleaseEngine(j) \/ StopReply(j) \/ TakeoverGone(j)
       PROVE  LeaseType'
    BY <1>2 DEF RequestStop, EnterBatch, FollowerReply, StopEngine,
       ReleaseEngine, StopReply, TakeoverGone
  <1>3. ASSUME Tick PROVE LeaseType'
    <2>1. idle' \in 0 .. TTL + 1 /\ remote' \in 0 .. TTL + 1
      BY <1>3 DEF Tick, Older
    <2>2. tickets' \subseteq 0 .. TicketLife - 1
      BY <1>3 DEF Tick
    <2>3. QED
      BY <1>3, <2>1, <2>2 DEF Tick
  <1>4. ASSUME NEW a \in Actors, GrantEnds(a) PROVE LeaseType'
    BY <1>4 DEF GrantEnds
  <1>5. ASSUME NEW a \in Actors, Observe(a) PROVE LeaseType'
    BY <1>5, TouchType DEF Observe
  <1>6. ASSUME NEW a \in Actors, RemoteRenew(a) PROVE LeaseType'
    <2>1. tickets' \subseteq 0 .. TicketLife - 1
      BY <1>6, IssuedType DEF RemoteRenew
    <2>2. QED
      BY <1>6, <2>1 DEF RemoteRenew
  <1>7. ASSUME NEW a \in Actors, NEW g \in 0 .. generation, Heartbeat(a, g) PROVE LeaseType'
    <2>1. CASE activateLocked(a)
      BY <1>7, <2>1, ActivateType DEF Heartbeat
    <2>2. CASE ~activateLocked(a)
      <3>1. tickets' = Issued(a, tickets)
        BY <1>7, <2>2 DEF Heartbeat
      <3>2. tickets' \subseteq 0 .. TicketLife - 1
        BY <3>1, IssuedType
      <3>3. QED
        BY <1>7, <2>2, <3>2 DEF Heartbeat
    <2>3. QED
      BY <2>1, <2>2
  <1>8. ASSUME NEW a \in Actors, NEW r \in Requests, Send(r, a) PROVE LeaseType'
    BY <1>8 DEF Send, NoRequest
  <1>9. ASSUME NEW a \in Actors, NEW j \in Jobs, BeginTakeover(j, a) PROVE LeaseType'
    BY <1>9 DEF BeginTakeover, beginTakeover
  <1>10. ASSUME NEW a \in Actors, NEW j \in Jobs, RequireAuthentication(j, a) PROVE LeaseType'
    BY <1>10 DEF RequireAuthentication, NoJob
  <1>11. ASSUME NEW k \in Keys, Revoke(k) PROVE LeaseType'
    BY <1>11 DEF Revoke
  <1>12. ASSUME NEW k \in Keys, NEW j \in Jobs, SessionLoss(j, k) PROVE LeaseType'
    BY <1>12, LoseType DEF SessionLoss
  <1>13. ASSUME NEW r \in Requests, NEW gw \in BOOLEAN, Enter(r, gw) PROVE LeaseType'
    BY <1>13 DEF Enter
  <1>14. ASSUME NEW r \in Requests, AuthorizeLocal(r) PROVE LeaseType'
    BY <1>14, TouchType DEF AuthorizeLocal
  <1>15. ASSUME NEW j \in Jobs, ExpiredLoss(j) PROVE LeaseType'
    BY <1>15, LoseType DEF ExpiredLoss
  <1>16. ASSUME NEW j \in Jobs, Bootstrap(j) PROVE LeaseType'
    <2>1. CASE beginTakeover(job[j].actor)
      <3>1. job[j].actor \in Actors \cup {None}
        BY DEF StopType, Job
      <3>2. QED
        BY <2>1, <3>1 DEF beginTakeover
    <2>2. CASE UNCHANGED lease
      BY <2>2
    <2>3. QED
      BY <1>16, <2>1, <2>2 DEF Bootstrap
  <1>17. ASSUME NEW j \in Jobs, BeginLocalLoss(j) PROVE LeaseType'
    <2>1. CASE LoseOwner
      BY <2>1, LoseType
    <2>2. CASE UNCHANGED lease
      BY <2>2
    <2>3. QED
      BY <1>17, <2>1, <2>2 DEF BeginLocalLoss
  <1>18. ASSUME NEW j \in Jobs, Invalidate(j) PROVE LeaseType'
    <2>1. CASE active \in Actors \ Local
      BY <1>18, <2>1 DEF Invalidate, advanceStopGeneration
    <2>2. CASE active \notin Actors \ Local
      BY <1>18, <2>2 DEF Invalidate, advanceStopGeneration
    <2>3. QED
      BY <2>1, <2>2
  <1>19. ASSUME NEW j \in Jobs, FinishLoss(j) PROVE LeaseType'
    BY <1>19 DEF FinishLoss
  <1>20. ASSUME NEW j \in Jobs, CompleteTakeover(j) PROVE LeaseType'
    <2>1. CASE UNCHANGED lease
      BY <2>1
    <2>2. CASE activateLocked(job[j].actor) /\ pending' = None /\ UNCHANGED stopping
      <3>1. job[j].actor \in Actors \cup {None}
        BY DEF StopType, Job
      <3>2. pending' \in Actors \cup {None} /\ stopping' \in BOOLEAN
        BY <2>2
      <3>3. QED
        BY <2>2, <3>1, <3>2, ActivateType
    <2>3. QED
      BY <1>20, <2>1, <2>2 DEF CompleteTakeover
  <1>21. ASSUME NEW j \in Jobs, CancelTakeover(j) PROVE LeaseType'
    <2>1. CASE UNCHANGED lease
      BY <2>1
    <2>2. CASE pending' = None /\ clearOwnerLocked /\ UNCHANGED stopping
      BY <2>2, ClearType
    <2>3. QED
      BY <1>21, <2>1, <2>2 DEF CancelTakeover
  <1>22. CASE UNCHANGED vars
    BY <1>22
  <1> HIDE LeaseAssumption DEF TypeOK, LeaseType, vars, lease, ctx, access,
           fence, stops
  <1>23. QED
    BY <1>1, <1>2, <1>3, <1>4, <1>5, <1>6, <1>7, <1>8, <1>9, <1>10, <1>11,
       <1>12, <1>13, <1>14, <1>15, <1>16, <1>17, <1>18, <1>19, <1>20,
       <1>21, <1>22
    DEF Next, RequestStep, JobStep

(* Every step preserves the types of the requests.                         *)
LEMMA RequestTypeStep == TypeOK /\ [Next]_vars => RequestType'
  <1> SUFFICES ASSUME TypeOK, [Next]_vars PROVE RequestType'
    OBVIOUS
  <1> USE LeaseAssumption DEF TypeOK, RequestType, RequestPC, Request, vars,
          lease, ctx, access, fence, stops
  <1>1. ASSUME NEW a \in Actors, GrantEnds(a) \/ RemoteRenew(a) PROVE RequestType'
    BY <1>1 DEF GrantEnds, RemoteRenew
  <1>2. ASSUME NEW j \in Jobs,
             RequestStop(j) \/ EnterBatch(j) \/ FollowerReply(j) \/ ReleaseEngine(j)
           \/ StopReply(j) \/ TakeoverGone(j) \/ FinishLoss(j)
       PROVE  RequestType'
    BY <1>2 DEF RequestStop, EnterBatch, FollowerReply, ReleaseEngine,
       StopReply, TakeoverGone, FinishLoss
  <1>3. ASSUME Tick PROVE RequestType'
    <2>1. ASSUME NEW r \in Requests, NEW t \in 0 .. TicketLife
          PROVE  [req[r] EXCEPT !.age = t] \in Request
      OBVIOUS
    <2>2. ASSUME NEW r \in Requests PROVE req'[r] \in Request
      <3>1. (IF req[r].pc = "idle" THEN 0 ELSE Older(req[r].age, TicketLife)) \in 0 .. TicketLife
        BY DEF Older
      <3> HIDE DEF Request
      <3>2. QED
        BY <1>3, <2>1, <3>1 DEF Tick
    <2> HIDE DEF Request
    <2>3. QED
      BY <1>3, <2>2 DEF Tick
  <1>4. ASSUME NEW a \in Actors, Observe(a) PROVE RequestType'
    BY <1>4 DEF Observe, touchLocalLocked, activateLocked,
       cancelRequestsLocked, Issued
  <1>5. ASSUME NEW a \in Actors, NEW g \in 0 .. generation, Heartbeat(a, g) PROVE RequestType'
    BY <1>5 DEF Heartbeat, activateLocked, cancelRequestsLocked, Issued
  <1>6. ASSUME NEW a \in Actors, NEW r \in Requests, Send(r, a) PROVE RequestType'
    <2>1. PICK t \in 0 .. TicketLife :
             req' = [req EXCEPT ![r] = [NoRequest EXCEPT !.pc = "sent", !.actor = a,
                                          !.gen = generation, !.age = t]]
      BY <1>6 DEF Send
    <2>2. QED
      BY <1>6, <2>1 DEF Send, NoRequest, LeaseType
  <1>7. ASSUME NEW a \in Actors, NEW j \in Jobs, BeginTakeover(j, a) PROVE RequestType'
    BY <1>7 DEF BeginTakeover, beginTakeover, cancelRequestsLocked, Started, NoJob
  <1>8. ASSUME NEW a \in Actors, NEW j \in Jobs, RequireAuthentication(j, a) PROVE RequestType'
    BY <1>8 DEF RequireAuthentication, NoJob
  <1>9. ASSUME NEW k \in Keys, Revoke(k) PROVE RequestType'
    BY <1>9 DEF Revoke
  <1>10. ASSUME NEW k \in Keys, NEW j \in Jobs, SessionLoss(j, k) PROVE RequestType'
    BY <1>10 DEF SessionLoss, LoseOwner, clearOwnerLocked,
       cancelRequestsLocked, Started, NoJob
  <1>11. ASSUME NEW r \in Requests, Disconnect(r) PROVE RequestType'
    BY <1>11 DEF Disconnect
  <1>12. ASSUME NEW r \in Requests, NEW gw \in BOOLEAN, Enter(r, gw) PROVE RequestType'
    <2>1. PICK b \in BOOLEAN : req' = [req EXCEPT ![r] = [@ EXCEPT !.pc = "entered", !.holds = b]]
      BY <1>12 DEF Enter
    <2>2. [req[r] EXCEPT !.pc = "entered", !.holds = b] \in Request
      <3>1. req[r] \in Request
        BY DEF RequestType
      <3>2. [req[r] EXCEPT !.pc = "entered"] \in Request
        BY <3>1
      <3>3. QED
        BY <3>2, Zenon
    <2> HIDE DEF Request
    <2>3. QED
      BY <1>12, <2>1, <2>2 DEF Enter
  <1>13. ASSUME NEW r \in Requests, AuthorizeLocal(r) PROVE RequestType'
    BY <1>13 DEF AuthorizeLocal, touchLocalLocked, activateLocked,
       cancelRequestsLocked, Issued, Goto
  <1>14. ASSUME NEW r \in Requests, Authorize(r) PROVE RequestType'
    BY <1>14 DEF Authorize, Goto
  <1>15. ASSUME NEW r \in Requests, Bind(r) PROVE RequestType'
    <2>1. [req[r] EXCEPT !.pc = "admit", !.holds = TRUE] \in Request
      <3>1. req[r] \in Request
        BY DEF RequestType
      <3>2. [req[r] EXCEPT !.pc = "admit"] \in Request
        BY <3>1
      <3>3. QED
        BY <3>2, Zenon
    <2> HIDE DEF Request
    <2>2. QED
      BY <1>15, <2>1 DEF Bind
  <1>16. ASSUME NEW r \in Requests, Admit(r) PROVE RequestType'
    BY <1>16 DEF Admit, Goto
  <1>17. ASSUME NEW r \in Requests, LoadStopSequence(r) PROVE RequestType'
    BY <1>17 DEF LoadStopSequence, Goto
  <1>18. ASSUME NEW r \in Requests, motionEngineForStart(r) PROVE RequestType'
    BY <1>18 DEF motionEngineForStart, Goto
  <1>19. ASSUME NEW r \in Requests, StartMotion(r) PROVE RequestType'
    BY <1>19 DEF StartMotion, NoRequest
  <1>20. ASSUME NEW r \in Requests, Leave(r) PROVE RequestType'
    BY <1>20 DEF Leave, NoRequest
  <1>21. ASSUME NEW j \in Jobs, ExpiredLoss(j) PROVE RequestType'
    BY <1>21 DEF ExpiredLoss, LoseOwner, clearOwnerLocked,
       cancelRequestsLocked, Started, NoJob
  <1>22. ASSUME NEW j \in Jobs, Bootstrap(j) PROVE RequestType'
    BY <1>22 DEF Bootstrap, beginTakeover, cancelRequestsLocked, JobGoto, NoJob
  <1>23. ASSUME NEW j \in Jobs, BeginLocalLoss(j) PROVE RequestType'
    BY <1>23 DEF BeginLocalLoss, LoseOwner, clearOwnerLocked,
       cancelRequestsLocked, Started, NoJob
  <1>24. ASSUME NEW j \in Jobs, Invalidate(j) PROVE RequestType'
    BY <1>24 DEF Invalidate, advanceStopGeneration, cancelRequestsLocked
  <1>25. ASSUME NEW j \in Jobs, StopEngine(j) PROVE RequestType'
    BY <1>25 DEF StopEngine
  <1>26. ASSUME NEW j \in Jobs, CompleteTakeover(j) PROVE RequestType'
    BY <1>26 DEF CompleteTakeover, activateLocked, cancelRequestsLocked,
       Issued, JobGoto, NoJob
  <1>27. ASSUME NEW j \in Jobs, CancelTakeover(j) PROVE RequestType'
    BY <1>27 DEF CancelTakeover, clearOwnerLocked, cancelRequestsLocked, NoJob
  <1>28. CASE UNCHANGED vars
    BY <1>28
  <1> HIDE LeaseAssumption DEF TypeOK, RequestType, RequestPC, Request, vars,
           lease, ctx, access, fence, stops
  <1>29. QED
    BY <1>1, <1>2, <1>3, <1>4, <1>5, <1>6, <1>7, <1>8, <1>9, <1>10, <1>11,
       <1>12, <1>13, <1>14, <1>15, <1>16, <1>17, <1>18, <1>19, <1>20,
       <1>21, <1>22, <1>23, <1>24, <1>25, <1>26, <1>27, <1>28
    DEF Next, RequestStep, JobStep

(* Every step preserves the types of the Stops.                            *)
LEMMA StopTypeStep == TypeOK /\ [Next]_vars => StopType'
  <1> SUFFICES ASSUME TypeOK, [Next]_vars PROVE StopType'
    OBVIOUS
  <1> USE LeaseAssumption DEF TypeOK, StopType, JobPC, Job, vars, lease, ctx,
          access, fence, stops
  <1>1. ASSUME NEW a \in Actors, GrantEnds(a) \/ RemoteRenew(a) \/ Observe(a) PROVE StopType'
    BY <1>1 DEF GrantEnds, RemoteRenew, Observe
  <1>2. ASSUME NEW r \in Requests,
             Disconnect(r) \/ Authorize(r) \/ Bind(r) \/ Admit(r)
           \/ LoadStopSequence(r) \/ motionEngineForStart(r) \/ StartMotion(r)
           \/ Leave(r) \/ AuthorizeLocal(r)
       PROVE  StopType'
    BY <1>2 DEF Disconnect, Authorize, Bind, Admit, LoadStopSequence,
       motionEngineForStart, StartMotion, Leave, AuthorizeLocal
  <1>3. ASSUME Tick PROVE StopType'
    BY <1>3 DEF Tick, Older
  <1>4. ASSUME NEW a \in Actors, NEW g \in 0 .. generation, Heartbeat(a, g) PROVE StopType'
    BY <1>4 DEF Heartbeat, activateLocked, cancelRequestsLocked, Issued
  <1>5. ASSUME NEW a \in Actors, NEW r \in Requests, Send(r, a) PROVE StopType'
    BY <1>5 DEF Send, NoRequest
  <1>6. ASSUME NEW a \in Actors, NEW j \in Jobs, BeginTakeover(j, a) PROVE StopType'
    BY <1>6 DEF BeginTakeover, beginTakeover, cancelRequestsLocked, Started, NoJob
  <1>7. ASSUME NEW a \in Actors, NEW j \in Jobs, RequireAuthentication(j, a) PROVE StopType'
    BY <1>7 DEF RequireAuthentication, NoJob
  <1>8. ASSUME NEW k \in Keys, Revoke(k) PROVE StopType'
    BY <1>8 DEF Revoke
  <1>9. ASSUME NEW k \in Keys, NEW j \in Jobs, SessionLoss(j, k) PROVE StopType'
    BY <1>9 DEF SessionLoss, LoseOwner, clearOwnerLocked,
       cancelRequestsLocked, Started, NoJob
  <1>10. ASSUME NEW r \in Requests, NEW gw \in BOOLEAN, Enter(r, gw) PROVE StopType'
    BY <1>10 DEF Enter
  <1>11. ASSUME NEW j \in Jobs, RequestStop(j) PROVE StopType'
    BY <1>11 DEF RequestStop, Started, NoJob
  <1>12. ASSUME NEW j \in Jobs, ExpiredLoss(j) PROVE StopType'
    BY <1>12 DEF ExpiredLoss, LoseOwner, clearOwnerLocked,
       cancelRequestsLocked, Started, NoJob
  <1>13. ASSUME NEW j \in Jobs, Bootstrap(j) PROVE StopType'
    <2>1. CASE job' = [job EXCEPT ![j].pc = "fenced"]
      BY <1>13, <2>1 DEF Bootstrap
    <2>2. CASE job' = [job EXCEPT ![j] = NoJob]
      BY <1>13, <2>2 DEF Bootstrap, NoJob
    <2>3. QED
      BY <1>13, <2>1, <2>2 DEF Bootstrap, JobGoto
  <1>14. ASSUME NEW j \in Jobs, BeginLocalLoss(j) PROVE StopType'
    <2>1. CASE Started(j, "loss", None)
      BY <1>14, <2>1 DEF BeginLocalLoss, Started, NoJob
    <2>2. CASE job' = [job EXCEPT ![j] = NoJob]
      BY <1>14, <2>2 DEF BeginLocalLoss, NoJob
    <2>3. QED
      BY <1>14, <2>1, <2>2 DEF BeginLocalLoss
  <1>15. ASSUME NEW j \in Jobs, Invalidate(j) PROVE StopType'
    <2>1. PICK b \in BOOLEAN, pc \in {"enter", "dispatch"} :
             job' = [job EXCEPT ![j] = [@ EXCEPT !.pc = pc, !.heard = b]]
      BY <1>15 DEF Invalidate
    <2>2. [job[j] EXCEPT !.pc = pc, !.heard = b] \in Job
      <3>1. job[j] \in Job
        BY DEF StopType
      <3>2. [job[j] EXCEPT !.pc = pc] \in Job
        BY <3>1
      <3>3. QED
        BY <3>2, Zenon
    <2> HIDE DEF Job
    <2>3. QED
      BY <1>15, <2>1, <2>2 DEF Invalidate
  <1>16. ASSUME NEW j \in Jobs, EnterBatch(j) PROVE StopType'
    <2>1. batch' \in Jobs \cup {None} /\ UNCHANGED lifecycleMu
      BY <1>16 DEF EnterBatch
    <2>2. CASE \E pc \in {"dispatch", "waiting"} : job' = [job EXCEPT ![j].pc = pc]
      BY <2>1, <2>2
    <2>3. CASE job' = [job EXCEPT ![j] = NoJob]
      BY <2>1, <2>3 DEF NoJob
    <2>4. QED
      BY <1>16, <2>2, <2>3 DEF EnterBatch, JobGoto
  <1>17. ASSUME NEW j \in Jobs, FollowerReply(j) PROVE StopType'
    BY <1>17 DEF FollowerReply, NoJob
  <1>18. ASSUME NEW j \in Jobs, StopEngine(j) PROVE StopType'
    <2>1. ASSUME NEW k \in Jobs, NEW b \in BOOLEAN, NEW pc \in {"engine", job[k].pc}
          PROVE  [job[k] EXCEPT !.heard = b, !.pc = pc] \in Job
      <3>1. job[k] \in Job
        BY DEF StopType
      <3>2. [job[k] EXCEPT !.heard = b] \in Job
        BY <3>1, Zenon
      <3>3. pc \in JobPC
        BY <3>1
      <3>4. QED
        BY <3>2, <3>3, Zenon
    <2>2. ASSUME NEW k \in Jobs PROVE job'[k] \in Job
      <3>1. \E b \in BOOLEAN, pc \in {"engine", job[k].pc} :
               job'[k] = [job[k] EXCEPT !.heard = b, !.pc = pc]
        BY <1>18 DEF StopEngine
      <3> HIDE DEF Job
      <3>2. QED
        BY <2>1, <3>1
    <2> HIDE DEF Job
    <2>3. QED
      BY <1>18, <2>2 DEF StopEngine
  <1>19. ASSUME NEW j \in Jobs, ReleaseEngine(j) PROVE StopType'
    BY <1>19 DEF ReleaseEngine
  <1>20. ASSUME NEW j \in Jobs, StopReply(j) PROVE StopType'
    BY <1>20 DEF StopReply, NoJob
  <1>21. ASSUME NEW j \in Jobs, FinishLoss(j) PROVE StopType'
    BY <1>21 DEF FinishLoss, NoJob
  <1>22. ASSUME NEW j \in Jobs, CompleteTakeover(j) PROVE StopType'
    <2>1. CASE job' = [job EXCEPT ![j].pc = "cancel"]
      BY <1>22, <2>1 DEF CompleteTakeover
    <2>2. CASE job' = [job EXCEPT ![j] = NoJob]
      BY <1>22, <2>2 DEF CompleteTakeover, NoJob
    <2>3. QED
      BY <1>22, <2>1, <2>2 DEF CompleteTakeover, JobGoto
  <1>23. ASSUME NEW j \in Jobs, TakeoverGone(j) PROVE StopType'
    BY <1>23 DEF TakeoverGone, JobGoto
  <1>24. ASSUME NEW j \in Jobs, CancelTakeover(j) PROVE StopType'
    BY <1>24 DEF CancelTakeover, clearOwnerLocked, cancelRequestsLocked, NoJob
  <1>25. CASE UNCHANGED vars
    BY <1>25
  <1> HIDE LeaseAssumption DEF TypeOK, StopType, JobPC, Job, vars, lease, ctx,
           access, fence, stops
  <1>26. QED
    BY <1>1, <1>2, <1>3, <1>4, <1>5, <1>6, <1>7, <1>8, <1>9, <1>10, <1>11,
       <1>12, <1>13, <1>14, <1>15, <1>16, <1>17, <1>18, <1>19, <1>20,
       <1>21, <1>22, <1>23, <1>24, <1>25
    DEF Next, RequestStep, JobStep

(* What StopEngine does to the jobs: it moves its own, and all have heard. *)
LEMMA StopEngineJobs ==
  ASSUME StopType, NEW j \in Jobs, StopEngine(j)
  PROVE  \A k \in Jobs :
           /\ job'[k].kind = job[k].kind /\ job'[k].actor = job[k].actor
           /\ job'[k].pc = IF k = j THEN "engine" ELSE job[k].pc
           /\ job[k].heard \/ job[k].pc # "idle" => job'[k].heard
  BY DEF StopEngine, StopType, Job

(* The leader's outcome reaches the jobs that wait for it.                 *)
LEMMA ReleaseEngineJobs ==
  ASSUME StopType, NEW j \in Jobs, ReleaseEngine(j)
  PROVE  \A k \in Jobs :
           /\ job'[k].kind = job[k].kind /\ job'[k].actor = job[k].actor
           /\ job[k].heard => job'[k].heard
           /\ k = j => job'[k].pc = "stopped"
           /\ k # j => job'[k].pc = job[k].pc
                         \/ (job[k].pc = "waiting" /\ job'[k].pc = "told")
  BY DEF ReleaseEngine, StopType, Job

(* A Stop that begins.                                                     *)
LEMMA StartedJobs ==
  ASSUME StopType, NEW j \in Jobs, NEW kind, NEW a, Started(j, kind, a)
  PROVE  /\ job'[j].pc = "fenced" /\ job'[j].kind = kind /\ job'[j].actor = a
         /\ \A k \in Jobs \ {j} : job'[k] = job[k]
  BY DEF Started, NoJob, StopType, Job

(* A Stop that is over.                                                    *)
LEMMA EndedJobs ==
  ASSUME StopType, NEW j \in Jobs, job' = [job EXCEPT ![j] = NoJob]
  PROVE  /\ job'[j].pc = "idle" /\ job'[j].kind = "stop"
         /\ \A k \in Jobs \ {j} : job'[k] = job[k]
  BY DEF NoJob, StopType, Job

(* A bound request keeps its undisturbed owner: every section that changes *)
(* the owner, the generation or a fence has canceled what was bound.       *)
LEMMA BoundStep == IInv /\ [Next]_vars => BoundInv'
  <1> SUFFICES ASSUME IInv, [Next]_vars PROVE BoundInv'
    OBVIOUS
  <1> USE LeaseAssumption DEF IInv, TypeOK, LeaseType, RequestType, StopType,
          Request, Job, BoundInv, RequestInv, Active, vars, lease, ctx,
          access, fence, stops
  <1>1. ASSUME NEW a \in Actors, GrantEnds(a) \/ RemoteRenew(a) PROVE BoundInv'
    BY <1>1 DEF GrantEnds, RemoteRenew
  <1>2. ASSUME NEW j \in Jobs,
             RequestStop(j) \/ EnterBatch(j) \/ FollowerReply(j) \/ StopReply(j)
           \/ TakeoverGone(j) \/ ReleaseEngine(j) \/ StopEngine(j)
       PROVE  BoundInv'
    BY <1>2 DEF RequestStop, EnterBatch, FollowerReply, StopReply,
       TakeoverGone, ReleaseEngine, StopEngine
  <1>3. ASSUME Tick PROVE BoundInv'
    BY <1>3 DEF Tick, Older
  <1>4. ASSUME NEW a \in Actors, Observe(a) PROVE BoundInv'
    BY <1>4 DEF Observe, touchLocalLocked, activateLocked,
       cancelRequestsLocked, Issued
  <1>5. ASSUME NEW a \in Actors, NEW g \in 0 .. generation, Heartbeat(a, g) PROVE BoundInv'
    BY <1>5 DEF Heartbeat, activateLocked, cancelRequestsLocked, Issued
  <1>6. ASSUME NEW a \in Actors, NEW r \in Requests, Send(r, a) PROVE BoundInv'
    BY <1>6 DEF Send, NoRequest
  <1>7. ASSUME NEW a \in Actors, NEW j \in Jobs, BeginTakeover(j, a) PROVE BoundInv'
    BY <1>7 DEF BeginTakeover, beginTakeover, cancelRequestsLocked, Started, NoJob
  <1>8. ASSUME NEW a \in Actors, NEW j \in Jobs, RequireAuthentication(j, a) PROVE BoundInv'
    BY <1>8 DEF RequireAuthentication, NoJob
  <1>9. ASSUME NEW k \in Keys, Revoke(k) PROVE BoundInv'
    BY <1>9 DEF Revoke
  <1>10. ASSUME NEW k \in Keys, NEW j \in Jobs, SessionLoss(j, k) PROVE BoundInv'
    BY <1>10 DEF SessionLoss, LoseOwner, clearOwnerLocked,
       cancelRequestsLocked, Started, NoJob
  <1>11. ASSUME NEW r \in Requests, Disconnect(r) PROVE BoundInv'
    BY <1>11 DEF Disconnect
  <1>12. ASSUME NEW r \in Requests, NEW gw \in BOOLEAN, Enter(r, gw) PROVE BoundInv'
    BY <1>12 DEF Enter
  <1>13. ASSUME NEW r \in Requests, AuthorizeLocal(r) PROVE BoundInv'
    BY <1>13 DEF AuthorizeLocal, touchLocalLocked, activateLocked,
       cancelRequestsLocked, Issued, Goto
  <1>14. ASSUME NEW r \in Requests, Authorize(r) PROVE BoundInv'
    BY <1>14 DEF Authorize, Goto
  <1>15. ASSUME NEW r \in Requests, Bind(r) PROVE BoundInv'
    BY <1>15 DEF Bind
  <1>16. ASSUME NEW r \in Requests, Admit(r) PROVE BoundInv'
    BY <1>16 DEF Admit, Goto
  <1>17. ASSUME NEW r \in Requests, LoadStopSequence(r) PROVE BoundInv'
    BY <1>17 DEF LoadStopSequence, Goto
  <1>18. ASSUME NEW r \in Requests, motionEngineForStart(r) PROVE BoundInv'
    BY <1>18 DEF motionEngineForStart, Goto
  <1>19. ASSUME NEW r \in Requests, StartMotion(r) PROVE BoundInv'
    BY <1>19 DEF StartMotion, NoRequest
  <1>20. ASSUME NEW r \in Requests, Leave(r) PROVE BoundInv'
    BY <1>20 DEF Leave, NoRequest
  <1>21. ASSUME NEW j \in Jobs, ExpiredLoss(j) PROVE BoundInv'
    BY <1>21 DEF ExpiredLoss, LoseOwner, clearOwnerLocked,
       cancelRequestsLocked, Started, NoJob
  <1>22. ASSUME NEW j \in Jobs, Bootstrap(j) PROVE BoundInv'
    BY <1>22 DEF Bootstrap, beginTakeover, cancelRequestsLocked, JobGoto, NoJob
  <1>23. ASSUME NEW j \in Jobs, BeginLocalLoss(j) PROVE BoundInv'
    BY <1>23 DEF BeginLocalLoss, LoseOwner, clearOwnerLocked,
       cancelRequestsLocked, Started, NoJob
  <1>24. ASSUME NEW j \in Jobs, Invalidate(j) PROVE BoundInv'
    BY <1>24 DEF Invalidate, advanceStopGeneration, cancelRequestsLocked
  <1>25. ASSUME NEW j \in Jobs, FinishLoss(j) PROVE BoundInv'
    BY <1>25 DEF FinishLoss, NoJob
  <1>26. ASSUME NEW j \in Jobs, CompleteTakeover(j) PROVE BoundInv'
    BY <1>26 DEF CompleteTakeover, activateLocked, cancelRequestsLocked,
       Issued, JobGoto, NoJob
  <1>27. ASSUME NEW j \in Jobs, CancelTakeover(j) PROVE BoundInv'
    BY <1>27 DEF CancelTakeover, clearOwnerLocked, cancelRequestsLocked, NoJob
  <1>28. CASE UNCHANGED vars
    BY <1>28
  <1> HIDE LeaseAssumption DEF IInv, TypeOK, LeaseType, RequestType, StopType,
           Request, Job, BoundInv, RequestInv, Active, vars, lease, ctx,
           access, fence, stops
  <1>29. QED
    BY <1>1, <1>2, <1>3, <1>4, <1>5, <1>6, <1>7, <1>8, <1>9, <1>10, <1>11,
       <1>12, <1>13, <1>14, <1>15, <1>16, <1>17, <1>18, <1>19, <1>20,
       <1>21, <1>22, <1>23, <1>24, <1>25, <1>26, <1>27, <1>28
    DEF Next, RequestStep, JobStep

(* A session's request is bound before it is admitted, and admitted in the *)
(* generation that is still the current one unless it is canceled.         *)
LEMMA RequestInvStep == IInv /\ [Next]_vars => RequestInv'
  <1> SUFFICES ASSUME IInv, [Next]_vars PROVE RequestInv'
    OBVIOUS
  <1> USE LeaseAssumption DEF IInv, TypeOK, LeaseType, RequestType, StopType,
          Request, Job, BoundInv, RequestInv, Running, Active, vars, lease,
          ctx, access, fence, stops
  <1>1. ASSUME NEW a \in Actors, GrantEnds(a) \/ RemoteRenew(a) PROVE RequestInv'
    BY <1>1 DEF GrantEnds, RemoteRenew
  <1>2. ASSUME NEW j \in Jobs,
             RequestStop(j) \/ EnterBatch(j) \/ FollowerReply(j) \/ StopReply(j)
           \/ TakeoverGone(j) \/ ReleaseEngine(j) \/ StopEngine(j) \/ FinishLoss(j)
       PROVE  RequestInv'
    BY <1>2 DEF RequestStop, EnterBatch, FollowerReply, StopReply,
       TakeoverGone, ReleaseEngine, StopEngine, FinishLoss
  <1>3. ASSUME Tick PROVE RequestInv'
    <2>1. \A r \in Requests : /\ req'[r].pc = req[r].pc /\ req'[r].actor = req[r].actor
                              /\ req'[r].gen = req[r].gen /\ req'[r].holds = req[r].holds
      BY <1>3 DEF Tick
    <2>2. QED
      BY <1>3, <2>1 DEF Tick
  <1>4. ASSUME NEW a \in Actors, Observe(a) PROVE RequestInv'
    BY <1>4 DEF Observe, touchLocalLocked, activateLocked,
       cancelRequestsLocked, Issued
  <1>5. ASSUME NEW a \in Actors, NEW g \in 0 .. generation, Heartbeat(a, g) PROVE RequestInv'
    BY <1>5 DEF Heartbeat, activateLocked, cancelRequestsLocked, Issued
  <1>6. ASSUME NEW a \in Actors, NEW r \in Requests, Send(r, a) PROVE RequestInv'
    BY <1>6 DEF Send, NoRequest
  <1>7. ASSUME NEW a \in Actors, NEW j \in Jobs, BeginTakeover(j, a) PROVE RequestInv'
    BY <1>7 DEF BeginTakeover, beginTakeover, cancelRequestsLocked, Started, NoJob
  <1>8. ASSUME NEW a \in Actors, NEW j \in Jobs, RequireAuthentication(j, a) PROVE RequestInv'
    BY <1>8 DEF RequireAuthentication, NoJob
  <1>9. ASSUME NEW k \in Keys, Revoke(k) PROVE RequestInv'
    BY <1>9 DEF Revoke
  <1>10. ASSUME NEW k \in Keys, NEW j \in Jobs, SessionLoss(j, k) PROVE RequestInv'
    BY <1>10 DEF SessionLoss, LoseOwner, clearOwnerLocked,
       cancelRequestsLocked, Started, NoJob
  <1>11. ASSUME NEW r \in Requests, Disconnect(r) PROVE RequestInv'
    BY <1>11 DEF Disconnect
  <1>12. ASSUME NEW r \in Requests, NEW gw \in BOOLEAN, Enter(r, gw) PROVE RequestInv'
    BY <1>12 DEF Enter
  <1>13. ASSUME NEW r \in Requests, AuthorizeLocal(r) PROVE RequestInv'
    BY <1>13 DEF AuthorizeLocal, touchLocalLocked, activateLocked,
       cancelRequestsLocked, Issued, Goto
  <1>14. ASSUME NEW r \in Requests, Authorize(r) PROVE RequestInv'
    BY <1>14 DEF Authorize, Goto
  <1>15. ASSUME NEW r \in Requests, Bind(r) PROVE RequestInv'
    BY <1>15 DEF Bind
  <1>16. ASSUME NEW r \in Requests, Admit(r) PROVE RequestInv'
    BY <1>16 DEF Admit, Goto
  <1>17. ASSUME NEW r \in Requests, LoadStopSequence(r) PROVE RequestInv'
    BY <1>17 DEF LoadStopSequence, Goto
  <1>18. ASSUME NEW r \in Requests, motionEngineForStart(r) PROVE RequestInv'
    BY <1>18 DEF motionEngineForStart, Goto
  <1>19. ASSUME NEW r \in Requests, StartMotion(r) PROVE RequestInv'
    BY <1>19 DEF StartMotion, NoRequest
  <1>20. ASSUME NEW r \in Requests, Leave(r) PROVE RequestInv'
    BY <1>20 DEF Leave, NoRequest
  <1>21. ASSUME NEW j \in Jobs, ExpiredLoss(j) PROVE RequestInv'
    BY <1>21 DEF ExpiredLoss, LoseOwner, clearOwnerLocked,
       cancelRequestsLocked, Started, NoJob
  <1>22. ASSUME NEW j \in Jobs, Bootstrap(j) PROVE RequestInv'
    BY <1>22 DEF Bootstrap, beginTakeover, cancelRequestsLocked, JobGoto, NoJob
  <1>23. ASSUME NEW j \in Jobs, BeginLocalLoss(j) PROVE RequestInv'
    BY <1>23 DEF BeginLocalLoss, LoseOwner, clearOwnerLocked,
       cancelRequestsLocked, Started, NoJob
  <1>24. ASSUME NEW j \in Jobs, Invalidate(j) PROVE RequestInv'
    BY <1>24 DEF Invalidate, advanceStopGeneration, cancelRequestsLocked
  <1>25. ASSUME NEW j \in Jobs, CompleteTakeover(j) PROVE RequestInv'
    BY <1>25 DEF CompleteTakeover, activateLocked, cancelRequestsLocked,
       Issued, JobGoto, NoJob
  <1>26. ASSUME NEW j \in Jobs, CancelTakeover(j) PROVE RequestInv'
    BY <1>26 DEF CancelTakeover, clearOwnerLocked, cancelRequestsLocked, NoJob
  <1>27. CASE UNCHANGED vars
    BY <1>27
  <1> HIDE LeaseAssumption DEF IInv, TypeOK, LeaseType, RequestType, StopType,
           Request, Job, BoundInv, RequestInv, Running, Active, vars, lease,
           ctx, access, fence, stops
  <1>28. QED
    BY <1>1, <1>2, <1>3, <1>4, <1>5, <1>6, <1>7, <1>8, <1>9, <1>10, <1>11,
       <1>12, <1>13, <1>14, <1>15, <1>16, <1>17, <1>18, <1>19, <1>20,
       <1>21, <1>22, <1>23, <1>24, <1>25, <1>26, <1>27
    DEF Next, RequestStep, JobStep

(* A Stop passes through the stations of its kind only.                    *)
LEMMA JobInvStep == IInv /\ [Next]_vars => JobInv'
  <1> SUFFICES ASSUME IInv, [Next]_vars PROVE JobInv'
    OBVIOUS
  <1> USE LeaseAssumption DEF IInv, TypeOK, LeaseType, RequestType, StopType,
          Request, Job, JobInv, vars, lease, ctx, access, fence, stops
  <1>1. ASSUME NEW a \in Actors, GrantEnds(a) \/ RemoteRenew(a) \/ Observe(a) PROVE JobInv'
    BY <1>1 DEF GrantEnds, RemoteRenew, Observe
  <1>2. ASSUME NEW r \in Requests,
             Disconnect(r) \/ Authorize(r) \/ Bind(r) \/ Admit(r)
           \/ LoadStopSequence(r) \/ motionEngineForStart(r) \/ StartMotion(r)
           \/ Leave(r) \/ AuthorizeLocal(r)
       PROVE  JobInv'
    BY <1>2 DEF Disconnect, Authorize, Bind, Admit, LoadStopSequence,
       motionEngineForStart, StartMotion, Leave, AuthorizeLocal
  <1>3. ASSUME Tick PROVE JobInv'
    BY <1>3 DEF Tick, Older
  <1>4. ASSUME NEW a \in Actors, NEW g \in 0 .. generation, Heartbeat(a, g) PROVE JobInv'
    BY <1>4 DEF Heartbeat, activateLocked, cancelRequestsLocked, Issued
  <1>5. ASSUME NEW a \in Actors, NEW r \in Requests, Send(r, a) PROVE JobInv'
    BY <1>5 DEF Send, NoRequest
  <1>6. ASSUME NEW a \in Actors, NEW j \in Jobs, BeginTakeover(j, a) PROVE JobInv'
    BY <1>6 DEF BeginTakeover, beginTakeover, cancelRequestsLocked, Started, NoJob
  <1>7. ASSUME NEW a \in Actors, NEW j \in Jobs, RequireAuthentication(j, a) PROVE JobInv'
    BY <1>7 DEF RequireAuthentication, NoJob
  <1>8. ASSUME NEW k \in Keys, Revoke(k) PROVE JobInv'
    BY <1>8 DEF Revoke
  <1>9. ASSUME NEW k \in Keys, NEW j \in Jobs, SessionLoss(j, k) PROVE JobInv'
    BY <1>9 DEF SessionLoss, LoseOwner, clearOwnerLocked,
       cancelRequestsLocked, Started, NoJob
  <1>10. ASSUME NEW r \in Requests, NEW gw \in BOOLEAN, Enter(r, gw) PROVE JobInv'
    BY <1>10 DEF Enter
  <1>11. ASSUME NEW j \in Jobs, RequestStop(j) PROVE JobInv'
    BY <1>11 DEF RequestStop, Started, NoJob
  <1>12. ASSUME NEW j \in Jobs, ExpiredLoss(j) PROVE JobInv'
    BY <1>12 DEF ExpiredLoss, LoseOwner, clearOwnerLocked,
       cancelRequestsLocked, Started, NoJob
  <1>13. ASSUME NEW j \in Jobs, Bootstrap(j) PROVE JobInv'
    BY <1>13 DEF Bootstrap, beginTakeover, cancelRequestsLocked, JobGoto, NoJob
  <1>14. ASSUME NEW j \in Jobs, BeginLocalLoss(j) PROVE JobInv'
    <2>1. CASE ~stopping /\ LoseOwner /\ Started(j, "loss", None)
      BY <1>14, <2>1, StartedJobs DEF BeginLocalLoss
    <2>2. CASE UNCHANGED lease /\ job' = [job EXCEPT ![j] = NoJob]
      <3>1. /\ job'[j].pc = "idle" /\ job'[j].kind = "stop"
            /\ \A k \in Jobs \ {j} : job'[k] = job[k]
        BY <2>2, EndedJobs
      <3>2. job[j].pc = "begin" /\ UNCHANGED <<active, pending, stopping, lifecycleMu, motion, req, outdated>>
        BY <1>14, <2>2 DEF BeginLocalLoss
      <3>3. QED
        BY <3>1, <3>2
    <2>3. QED
      BY <1>14, <2>1, <2>2 DEF BeginLocalLoss
  <1>15. ASSUME NEW j \in Jobs, Invalidate(j) PROVE JobInv'
    BY <1>15 DEF Invalidate, advanceStopGeneration, cancelRequestsLocked
  <1>16. ASSUME NEW j \in Jobs, EnterBatch(j) PROVE JobInv'
    BY <1>16 DEF EnterBatch, JobGoto, NoJob
  <1>17. ASSUME NEW j \in Jobs, FollowerReply(j) PROVE JobInv'
    BY <1>17 DEF FollowerReply, NoJob
  <1>18. ASSUME NEW j \in Jobs, StopEngine(j) PROVE JobInv'
    <2>1. \A k \in Jobs :
             /\ job'[k].kind = job[k].kind /\ job'[k].actor = job[k].actor
             /\ job'[k].pc = IF k = j THEN "engine" ELSE job[k].pc
             /\ job[k].heard \/ job[k].pc # "idle" => job'[k].heard
      BY <1>18, StopEngineJobs
    <2>2. job[j].pc = "dispatch"
      BY <1>18 DEF StopEngine
    <2>3. QED
      BY <2>1, <2>2
  <1>19. ASSUME NEW j \in Jobs, ReleaseEngine(j) PROVE JobInv'
    <2>1. \A k \in Jobs :
             /\ job'[k].kind = job[k].kind /\ job'[k].actor = job[k].actor
             /\ job[k].heard => job'[k].heard
             /\ k = j => job'[k].pc = "stopped"
             /\ k # j => job'[k].pc = job[k].pc
                           \/ (job[k].pc = "waiting" /\ job'[k].pc = "told")
      BY <1>19, ReleaseEngineJobs
    <2>2. job[j].pc = "engine"
      BY <1>19 DEF ReleaseEngine
    <2>3. QED
      BY <2>1, <2>2
  <1>20. ASSUME NEW j \in Jobs, StopReply(j) PROVE JobInv'
    BY <1>20 DEF StopReply, NoJob
  <1>21. ASSUME NEW j \in Jobs, FinishLoss(j) PROVE JobInv'
    BY <1>21 DEF FinishLoss, NoJob
  <1>22. ASSUME NEW j \in Jobs, CompleteTakeover(j) PROVE JobInv'
    <2>1. CASE job' = [job EXCEPT ![j].pc = "cancel"]
      BY <1>22, <2>1 DEF CompleteTakeover
    <2>2. CASE job' = [job EXCEPT ![j] = NoJob]
      BY <2>2, EndedJobs
    <2>3. QED
      BY <1>22, <2>1, <2>2 DEF CompleteTakeover, JobGoto
  <1>23. ASSUME NEW j \in Jobs, TakeoverGone(j) PROVE JobInv'
    BY <1>23 DEF TakeoverGone, JobGoto
  <1>24. ASSUME NEW j \in Jobs, CancelTakeover(j) PROVE JobInv'
    BY <1>24 DEF CancelTakeover, clearOwnerLocked, cancelRequestsLocked, NoJob
  <1>25. CASE UNCHANGED vars
    BY <1>25
  <1> HIDE LeaseAssumption DEF IInv, TypeOK, LeaseType, RequestType, StopType,
           Request, Job, JobInv, vars, lease, ctx, access, fence, stops
  <1>26. QED
    BY <1>1, <1>2, <1>3, <1>4, <1>5, <1>6, <1>7, <1>8, <1>9, <1>10, <1>11,
       <1>12, <1>13, <1>14, <1>15, <1>16, <1>17, <1>18, <1>19, <1>20,
       <1>21, <1>22, <1>23, <1>24, <1>25
    DEF Next, RequestStep, JobStep

(* Motion is not orphaned: a session's start takes effect for the owner,   *)
(* and whatever moves the ownership puts a Stop ahead of the engine.       *)
LEMMA MotionStep == IInv /\ [Next]_vars => MotionInv'
  <1> SUFFICES ASSUME IInv, [Next]_vars PROVE MotionInv'
    OBVIOUS
  <1> USE LeaseAssumption DEF IInv, TypeOK, LeaseType, RequestType, StopType,
          Request, Job, MotionInv, StopAhead, JobInv, vars, lease, ctx,
          access, fence, stops
  <1>1. ASSUME NEW a \in Actors, GrantEnds(a) \/ RemoteRenew(a) PROVE MotionInv'
    BY <1>1 DEF GrantEnds, RemoteRenew
  <1>2. ASSUME Tick PROVE MotionInv'
    BY <1>2 DEF Tick, Older
  <1>3. ASSUME NEW a \in Actors, Observe(a) PROVE MotionInv'
    BY <1>3 DEF Observe, touchLocalLocked, activateLocked,
       cancelRequestsLocked, Issued
  <1>4. ASSUME NEW a \in Actors, NEW g \in 0 .. generation, Heartbeat(a, g) PROVE MotionInv'
    BY <1>4 DEF Heartbeat, activateLocked, cancelRequestsLocked, Issued
  <1>5. ASSUME NEW a \in Actors, NEW r \in Requests, Send(r, a) PROVE MotionInv'
    BY <1>5 DEF Send, NoRequest
  <1>6. ASSUME NEW a \in Actors, NEW j \in Jobs, BeginTakeover(j, a) PROVE MotionInv'
    BY <1>6 DEF BeginTakeover, beginTakeover, cancelRequestsLocked, Started, NoJob
  <1>7. ASSUME NEW a \in Actors, NEW j \in Jobs, RequireAuthentication(j, a) PROVE MotionInv'
    BY <1>7 DEF RequireAuthentication, NoJob
  <1>8. ASSUME NEW k \in Keys, Revoke(k) PROVE MotionInv'
    BY <1>8 DEF Revoke
  <1>9. ASSUME NEW k \in Keys, NEW j \in Jobs, SessionLoss(j, k) PROVE MotionInv'
    BY <1>9 DEF SessionLoss, LoseOwner, clearOwnerLocked,
       cancelRequestsLocked, Started, NoJob
  <1>10. ASSUME NEW r \in Requests, Disconnect(r) PROVE MotionInv'
    BY <1>10 DEF Disconnect
  <1>11. ASSUME NEW r \in Requests, NEW gw \in BOOLEAN, Enter(r, gw) PROVE MotionInv'
    BY <1>11 DEF Enter
  <1>12. ASSUME NEW r \in Requests, AuthorizeLocal(r) PROVE MotionInv'
    BY <1>12 DEF AuthorizeLocal, touchLocalLocked, activateLocked,
       cancelRequestsLocked, Issued, Goto
  <1>13. ASSUME NEW r \in Requests, Authorize(r) PROVE MotionInv'
    BY <1>13 DEF Authorize, Goto
  <1>14. ASSUME NEW r \in Requests, Bind(r) PROVE MotionInv'
    BY <1>14 DEF Bind
  <1>15. ASSUME NEW r \in Requests, Admit(r) PROVE MotionInv'
    BY <1>15 DEF Admit, Goto
  <1>16. ASSUME NEW r \in Requests, LoadStopSequence(r) PROVE MotionInv'
    BY <1>16 DEF LoadStopSequence, Goto
  <1>17. ASSUME NEW r \in Requests, motionEngineForStart(r) PROVE MotionInv'
    BY <1>17 DEF motionEngineForStart, Goto
  <1>18. ASSUME NEW r \in Requests, StartMotion(r) PROVE MotionInv'
    <2>1. motion' \in Actors \ Local => active = motion' /\ pending = None
      BY <1>18 DEF StartMotion, RequestInv, BoundInv, Running
    <2>2. QED
      BY <1>18, <2>1 DEF StartMotion
  <1>19. ASSUME NEW r \in Requests, Leave(r) PROVE MotionInv'
    BY <1>19 DEF Leave, NoRequest
  <1>20. ASSUME NEW j \in Jobs, RequestStop(j) PROVE MotionInv'
    BY <1>20 DEF RequestStop, Started, NoJob
  <1>21. ASSUME NEW j \in Jobs, ExpiredLoss(j) PROVE MotionInv'
    BY <1>21 DEF ExpiredLoss, LoseOwner, clearOwnerLocked,
       cancelRequestsLocked, Started, NoJob
  <1>22. ASSUME NEW j \in Jobs, Bootstrap(j) PROVE MotionInv'
    <2>1. CASE JobGoto(j, "fenced")
      BY <1>22, <2>1 DEF Bootstrap, JobGoto
    <2>2. CASE UNCHANGED lease /\ job' = [job EXCEPT ![j] = NoJob]
      <3>1. job'[j].pc = "idle" /\ \A k \in Jobs \ {j} : job'[k] = job[k]
        BY <2>2, EndedJobs
      <3>2. job[j].pc = "begin" /\ UNCHANGED <<active, pending, motion>>
        BY <1>22, <2>2 DEF Bootstrap
      <3>3. QED
        BY <3>1, <3>2
    <2>3. QED
      BY <1>22, <2>1, <2>2 DEF Bootstrap
  <1>23. ASSUME NEW j \in Jobs, BeginLocalLoss(j) PROVE MotionInv'
    BY <1>23 DEF BeginLocalLoss, LoseOwner, clearOwnerLocked,
       cancelRequestsLocked, Started, NoJob
  <1>24. ASSUME NEW j \in Jobs, Invalidate(j) PROVE MotionInv'
    BY <1>24 DEF Invalidate, advanceStopGeneration, cancelRequestsLocked
  <1>25. ASSUME NEW j \in Jobs, EnterBatch(j) PROVE MotionInv'
    BY <1>25 DEF EnterBatch, JobGoto, NoJob
  <1>26. ASSUME NEW j \in Jobs, FollowerReply(j) PROVE MotionInv'
    BY <1>26 DEF FollowerReply, NoJob
  <1>27. ASSUME NEW j \in Jobs, StopEngine(j) PROVE MotionInv'
    BY <1>27 DEF StopEngine
  <1>28. ASSUME NEW j \in Jobs, ReleaseEngine(j) PROVE MotionInv'
    BY <1>28 DEF ReleaseEngine
  <1>29. ASSUME NEW j \in Jobs, StopReply(j) PROVE MotionInv'
    BY <1>29 DEF StopReply, NoJob
  <1>30. ASSUME NEW j \in Jobs, FinishLoss(j) PROVE MotionInv'
    BY <1>30 DEF FinishLoss, NoJob
  <1>31. ASSUME NEW j \in Jobs, CompleteTakeover(j) PROVE MotionInv'
    BY <1>31 DEF CompleteTakeover, activateLocked, cancelRequestsLocked,
       Issued, JobGoto, NoJob
  <1>32. ASSUME NEW j \in Jobs, TakeoverGone(j) PROVE MotionInv'
    BY <1>32 DEF TakeoverGone, JobGoto
  <1>33. ASSUME NEW j \in Jobs, CancelTakeover(j) PROVE MotionInv'
    BY <1>33 DEF CancelTakeover, clearOwnerLocked, cancelRequestsLocked, NoJob
  <1>34. CASE UNCHANGED vars
    BY <1>34
  <1> HIDE LeaseAssumption DEF IInv, TypeOK, LeaseType, RequestType, StopType,
           Request, Job, MotionInv, StopAhead, JobInv, vars, lease, ctx,
           access, fence, stops
  <1>35. QED
    BY <1>1, <1>2, <1>3, <1>4, <1>5, <1>6, <1>7, <1>8, <1>9, <1>10, <1>11,
       <1>12, <1>13, <1>14, <1>15, <1>16, <1>17, <1>18, <1>19, <1>20,
       <1>21, <1>22, <1>23, <1>24, <1>25, <1>26, <1>27, <1>28, <1>29,
       <1>30, <1>31, <1>32, <1>33, <1>34
    DEF Next, RequestStep, JobStep

(* The fence stands for exactly one loss.                                  *)
LEMMA LossStep == IInv /\ [Next]_vars => LossIsFenced'
  <1> SUFFICES ASSUME IInv, [Next]_vars PROVE LossIsFenced'
    OBVIOUS
  <1> USE LeaseAssumption DEF IInv, TypeOK, LeaseType, RequestType, StopType,
          Request, Job, LossIsFenced, Losses, JobInv, vars, lease, ctx,
          access, fence, stops
  <1>1. ASSUME NEW a \in Actors, GrantEnds(a) \/ RemoteRenew(a) PROVE LossIsFenced'
    BY <1>1 DEF GrantEnds, RemoteRenew
  <1>2. ASSUME NEW r \in Requests,
             Disconnect(r) \/ Authorize(r) \/ Bind(r) \/ Admit(r)
           \/ LoadStopSequence(r) \/ motionEngineForStart(r) \/ StartMotion(r)
           \/ Leave(r)
       PROVE  LossIsFenced'
    BY <1>2 DEF Disconnect, Authorize, Bind, Admit, LoadStopSequence,
       motionEngineForStart, StartMotion, Leave
  <1>3. ASSUME Tick PROVE LossIsFenced'
    BY <1>3 DEF Tick, Older
  <1>4. ASSUME NEW a \in Actors, Observe(a) PROVE LossIsFenced'
    BY <1>4 DEF Observe, touchLocalLocked, activateLocked,
       cancelRequestsLocked, Issued
  <1>5. ASSUME NEW a \in Actors, NEW g \in 0 .. generation, Heartbeat(a, g) PROVE LossIsFenced'
    BY <1>5 DEF Heartbeat, activateLocked, cancelRequestsLocked, Issued
  <1>6. ASSUME NEW a \in Actors, NEW r \in Requests, Send(r, a) PROVE LossIsFenced'
    BY <1>6 DEF Send, NoRequest
  <1>7. ASSUME NEW a \in Actors, NEW j \in Jobs, BeginTakeover(j, a) PROVE LossIsFenced'
    BY <1>7, StartedJobs DEF BeginTakeover, beginTakeover, CanTake
  <1>8. ASSUME NEW a \in Actors, NEW j \in Jobs, RequireAuthentication(j, a) PROVE LossIsFenced'
    BY <1>8 DEF RequireAuthentication, NoJob
  <1>9. ASSUME NEW k \in Keys, Revoke(k) PROVE LossIsFenced'
    BY <1>9 DEF Revoke
  <1>10. ASSUME NEW k \in Keys, NEW j \in Jobs, SessionLoss(j, k) PROVE LossIsFenced'
    BY <1>10 DEF SessionLoss, LoseOwner, clearOwnerLocked,
       cancelRequestsLocked, Started, NoJob
  <1>11. ASSUME NEW r \in Requests, NEW gw \in BOOLEAN, Enter(r, gw) PROVE LossIsFenced'
    BY <1>11 DEF Enter
  <1>12. ASSUME NEW r \in Requests, AuthorizeLocal(r) PROVE LossIsFenced'
    BY <1>12 DEF AuthorizeLocal, touchLocalLocked, activateLocked,
       cancelRequestsLocked, Issued, Goto
  <1>13. ASSUME NEW j \in Jobs, RequestStop(j) PROVE LossIsFenced'
    BY <1>13 DEF RequestStop, Started, NoJob
  <1>14. ASSUME NEW j \in Jobs, ExpiredLoss(j) PROVE LossIsFenced'
    BY <1>14 DEF ExpiredLoss, LoseOwner, clearOwnerLocked,
       cancelRequestsLocked, Started, NoJob
  <1>15. ASSUME NEW j \in Jobs, Bootstrap(j) PROVE LossIsFenced'
    <2>1. CASE CanTake(job[j].actor) /\ beginTakeover(job[j].actor) /\ JobGoto(j, "fenced")
      BY <1>15, <2>1 DEF Bootstrap, beginTakeover, JobGoto, CanTake
    <2>2. CASE UNCHANGED lease /\ job' = [job EXCEPT ![j] = NoJob]
      <3>1. /\ job'[j].pc = "idle" /\ job'[j].kind = "stop"
            /\ \A k \in Jobs \ {j} : job'[k] = job[k]
        BY <2>2, EndedJobs
      <3>2. job[j].pc = "begin" /\ UNCHANGED <<active, pending, stopping, lifecycleMu, motion, req, outdated>>
        BY <1>15, <2>2 DEF Bootstrap
      <3>3. Losses' = Losses
        BY <3>1, <3>2
      <3> HIDE DEF Losses
      <3>4. QED
        BY <3>2, <3>3
    <2>3. QED
      BY <1>15, <2>1, <2>2 DEF Bootstrap
  <1>16. ASSUME NEW j \in Jobs, BeginLocalLoss(j) PROVE LossIsFenced'
    <2>1. CASE ~stopping /\ LoseOwner /\ Started(j, "loss", None)
      BY <1>16, <2>1, StartedJobs DEF BeginLocalLoss, LoseOwner, clearOwnerLocked
    <2>2. CASE UNCHANGED lease /\ job' = [job EXCEPT ![j] = NoJob]
      <3>1. /\ job'[j].pc = "idle" /\ job'[j].kind = "stop"
            /\ \A k \in Jobs \ {j} : job'[k] = job[k]
        BY <2>2, EndedJobs
      <3>2. job[j].pc = "begin" /\ UNCHANGED <<active, pending, stopping, lifecycleMu, motion, req, outdated>>
        BY <1>16, <2>2 DEF BeginLocalLoss
      <3>3. Losses' = Losses
        BY <3>1, <3>2
      <3> HIDE DEF Losses
      <3>4. QED
        BY <3>2, <3>3
    <2>3. QED
      BY <1>16, <2>1, <2>2 DEF BeginLocalLoss
  <1>17. ASSUME NEW j \in Jobs, Invalidate(j) PROVE LossIsFenced'
    BY <1>17 DEF Invalidate, advanceStopGeneration, cancelRequestsLocked
  <1>18. ASSUME NEW j \in Jobs, EnterBatch(j) PROVE LossIsFenced'
    BY <1>18 DEF EnterBatch, JobGoto, NoJob
  <1>19. ASSUME NEW j \in Jobs, FollowerReply(j) PROVE LossIsFenced'
    BY <1>19 DEF FollowerReply, NoJob
  <1>20. ASSUME NEW j \in Jobs, StopEngine(j) PROVE LossIsFenced'
    <2>1. \A k \in Jobs :
             /\ job'[k].kind = job[k].kind /\ job'[k].actor = job[k].actor
             /\ job'[k].pc = IF k = j THEN "engine" ELSE job[k].pc
             /\ job[k].heard \/ job[k].pc # "idle" => job'[k].heard
      BY <1>20, StopEngineJobs
    <2>2. job[j].pc = "dispatch" /\ UNCHANGED <<active, pending, stopping>>
      BY <1>20 DEF StopEngine
    <2>3. QED
      BY <2>1, <2>2
  <1>21. ASSUME NEW j \in Jobs, ReleaseEngine(j) PROVE LossIsFenced'
    <2>1. \A k \in Jobs :
             /\ job'[k].kind = job[k].kind /\ job'[k].actor = job[k].actor
             /\ job[k].heard => job'[k].heard
             /\ k = j => job'[k].pc = "stopped"
             /\ k # j => job'[k].pc = job[k].pc
                           \/ (job[k].pc = "waiting" /\ job'[k].pc = "told")
      BY <1>21, ReleaseEngineJobs
    <2>2. job[j].pc = "engine" /\ UNCHANGED <<active, pending, stopping>>
      BY <1>21 DEF ReleaseEngine
    <2>3. QED
      BY <2>1, <2>2
  <1>22. ASSUME NEW j \in Jobs, StopReply(j) PROVE LossIsFenced'
    BY <1>22 DEF StopReply, NoJob
  <1>23. ASSUME NEW j \in Jobs, FinishLoss(j) PROVE LossIsFenced'
    BY <1>23 DEF FinishLoss, NoJob
  <1>24. ASSUME NEW j \in Jobs, CompleteTakeover(j) PROVE LossIsFenced'
    BY <1>24 DEF CompleteTakeover, activateLocked, cancelRequestsLocked,
       Issued, JobGoto, NoJob
  <1>25. ASSUME NEW j \in Jobs, TakeoverGone(j) PROVE LossIsFenced'
    BY <1>25 DEF TakeoverGone, JobGoto
  <1>26. ASSUME NEW j \in Jobs, CancelTakeover(j) PROVE LossIsFenced'
    BY <1>26 DEF CancelTakeover, clearOwnerLocked, cancelRequestsLocked, NoJob
  <1>27. CASE UNCHANGED vars
    BY <1>27
  <1> HIDE LeaseAssumption DEF IInv, TypeOK, LeaseType, RequestType, StopType,
           Request, Job, LossIsFenced, Losses, JobInv, vars, lease, ctx,
           access, fence, stops
  <1>28. QED
    BY <1>1, <1>2, <1>3, <1>4, <1>5, <1>6, <1>7, <1>8, <1>9, <1>10, <1>11,
       <1>12, <1>13, <1>14, <1>15, <1>16, <1>17, <1>18, <1>19, <1>20,
       <1>21, <1>22, <1>23, <1>24, <1>25, <1>26, <1>27
    DEF Next, RequestStep, JobStep

(* The engine is still while a Stop holds it, and everybody has seen it.   *)
LEMMA EngineStep == IInv /\ [Next]_vars => EngineInv'
  <1> SUFFICES ASSUME IInv, [Next]_vars PROVE EngineInv'
    OBVIOUS
  <1> USE LeaseAssumption DEF IInv, TypeOK, LeaseType, RequestType, StopType,
          Request, Job, EngineInv, vars, lease, ctx, access, fence, stops
  <1>1. ASSUME NEW a \in Actors, GrantEnds(a) \/ RemoteRenew(a) \/ Observe(a) PROVE EngineInv'
    BY <1>1 DEF GrantEnds, RemoteRenew, Observe
  <1>2. ASSUME Tick PROVE EngineInv'
    BY <1>2 DEF Tick, Older
  <1>3. ASSUME NEW a \in Actors, NEW g \in 0 .. generation, Heartbeat(a, g) PROVE EngineInv'
    BY <1>3 DEF Heartbeat, activateLocked, cancelRequestsLocked, Issued
  <1>4. ASSUME NEW a \in Actors, NEW r \in Requests, Send(r, a) PROVE EngineInv'
    BY <1>4 DEF Send, NoRequest
  <1>5. ASSUME NEW a \in Actors, NEW j \in Jobs, BeginTakeover(j, a) PROVE EngineInv'
    BY <1>5 DEF BeginTakeover, beginTakeover, cancelRequestsLocked, Started, NoJob
  <1>6. ASSUME NEW a \in Actors, NEW j \in Jobs, RequireAuthentication(j, a) PROVE EngineInv'
    BY <1>6 DEF RequireAuthentication, NoJob
  <1>7. ASSUME NEW k \in Keys, Revoke(k) PROVE EngineInv'
    BY <1>7 DEF Revoke
  <1>8. ASSUME NEW k \in Keys, NEW j \in Jobs, SessionLoss(j, k) PROVE EngineInv'
    BY <1>8 DEF SessionLoss, LoseOwner, clearOwnerLocked,
       cancelRequestsLocked, Started, NoJob
  <1>9. ASSUME NEW r \in Requests, Disconnect(r) PROVE EngineInv'
    BY <1>9 DEF Disconnect
  <1>10. ASSUME NEW r \in Requests, NEW gw \in BOOLEAN, Enter(r, gw) PROVE EngineInv'
    BY <1>10 DEF Enter
  <1>11. ASSUME NEW r \in Requests, AuthorizeLocal(r) PROVE EngineInv'
    BY <1>11 DEF AuthorizeLocal, touchLocalLocked, activateLocked,
       cancelRequestsLocked, Issued, Goto
  <1>12. ASSUME NEW r \in Requests, Authorize(r) PROVE EngineInv'
    BY <1>12 DEF Authorize, Goto
  <1>13. ASSUME NEW r \in Requests, Bind(r) PROVE EngineInv'
    BY <1>13 DEF Bind
  <1>14. ASSUME NEW r \in Requests, Admit(r) PROVE EngineInv'
    BY <1>14 DEF Admit, Goto
  <1>15. ASSUME NEW r \in Requests, LoadStopSequence(r) PROVE EngineInv'
    BY <1>15 DEF LoadStopSequence, Goto
  <1>16. ASSUME NEW r \in Requests, motionEngineForStart(r) PROVE EngineInv'
    BY <1>16 DEF motionEngineForStart, Goto
  <1>17. ASSUME NEW r \in Requests, StartMotion(r) PROVE EngineInv'
    BY <1>17 DEF StartMotion, NoRequest
  <1>18. ASSUME NEW r \in Requests, Leave(r) PROVE EngineInv'
    BY <1>18 DEF Leave, NoRequest
  <1>19. ASSUME NEW j \in Jobs, RequestStop(j) PROVE EngineInv'
    BY <1>19 DEF RequestStop, Started, NoJob
  <1>20. ASSUME NEW j \in Jobs, ExpiredLoss(j) PROVE EngineInv'
    BY <1>20 DEF ExpiredLoss, LoseOwner, clearOwnerLocked,
       cancelRequestsLocked, Started, NoJob
  <1>21. ASSUME NEW j \in Jobs, Bootstrap(j) PROVE EngineInv'
    BY <1>21 DEF Bootstrap, beginTakeover, cancelRequestsLocked, JobGoto, NoJob
  <1>22. ASSUME NEW j \in Jobs, BeginLocalLoss(j) PROVE EngineInv'
    <2>1. CASE ~stopping /\ LoseOwner /\ Started(j, "loss", None)
      BY <1>22, <2>1, StartedJobs DEF BeginLocalLoss
    <2>2. CASE UNCHANGED lease /\ job' = [job EXCEPT ![j] = NoJob]
      <3>1. /\ job'[j].pc = "idle" /\ job'[j].kind = "stop"
            /\ \A k \in Jobs \ {j} : job'[k] = job[k]
        BY <2>2, EndedJobs
      <3>2. job[j].pc = "begin" /\ UNCHANGED <<active, pending, stopping, lifecycleMu, motion, req, outdated>>
        BY <1>22, <2>2 DEF BeginLocalLoss
      <3>3. QED
        BY <3>1, <3>2
    <2>3. QED
      BY <1>22, <2>1, <2>2 DEF BeginLocalLoss
  <1>23. ASSUME NEW j \in Jobs, Invalidate(j) PROVE EngineInv'
    BY <1>23 DEF Invalidate, advanceStopGeneration, cancelRequestsLocked
  <1>24. ASSUME NEW j \in Jobs, EnterBatch(j) PROVE EngineInv'
    BY <1>24 DEF EnterBatch, JobGoto, NoJob
  <1>25. ASSUME NEW j \in Jobs, FollowerReply(j) PROVE EngineInv'
    BY <1>25 DEF FollowerReply, NoJob
  <1>26. ASSUME NEW j \in Jobs, StopEngine(j) PROVE EngineInv'
    <2>1. \A k \in Jobs :
             /\ job'[k].kind = job[k].kind /\ job'[k].actor = job[k].actor
             /\ job'[k].pc = IF k = j THEN "engine" ELSE job[k].pc
             /\ job[k].heard \/ job[k].pc # "idle" => job'[k].heard
      BY <1>26, StopEngineJobs
    <2>2. job[j].pc = "dispatch" /\ lifecycleMu = None /\ lifecycleMu' = j /\ motion' = None
          /\ UNCHANGED req /\ \A r \in Requests : req[r].pc = "obtained" => r \in outdated'
      BY <1>26 DEF StopEngine
    <2>3. QED
      BY <2>1, <2>2
  <1>27. ASSUME NEW j \in Jobs, ReleaseEngine(j) PROVE EngineInv'
    BY <1>27 DEF ReleaseEngine
  <1>28. ASSUME NEW j \in Jobs, StopReply(j) PROVE EngineInv'
    BY <1>28 DEF StopReply, NoJob
  <1>29. ASSUME NEW j \in Jobs, FinishLoss(j) PROVE EngineInv'
    BY <1>29 DEF FinishLoss, NoJob
  <1>30. ASSUME NEW j \in Jobs, CompleteTakeover(j) PROVE EngineInv'
    BY <1>30 DEF CompleteTakeover, activateLocked, cancelRequestsLocked,
       Issued, JobGoto, NoJob
  <1>31. ASSUME NEW j \in Jobs, TakeoverGone(j) PROVE EngineInv'
    BY <1>31 DEF TakeoverGone, JobGoto
  <1>32. ASSUME NEW j \in Jobs, CancelTakeover(j) PROVE EngineInv'
    BY <1>32 DEF CancelTakeover, clearOwnerLocked, cancelRequestsLocked, NoJob
  <1>33. CASE UNCHANGED vars
    BY <1>33
  <1> HIDE LeaseAssumption DEF IInv, TypeOK, LeaseType, RequestType, StopType,
           Request, Job, EngineInv, vars, lease, ctx, access, fence, stops
  <1>34. QED
    BY <1>1, <1>2, <1>3, <1>4, <1>5, <1>6, <1>7, <1>8, <1>9, <1>10, <1>11,
       <1>12, <1>13, <1>14, <1>15, <1>16, <1>17, <1>18, <1>19, <1>20,
       <1>21, <1>22, <1>23, <1>24, <1>25, <1>26, <1>27, <1>28, <1>29,
       <1>30, <1>31, <1>32, <1>33
    DEF Next, RequestStep, JobStep

(* Whoever is told of a Stop has seen the engine still.                    *)
LEMMA CoversStep == IInv /\ [Next]_vars => SharedStopCovers'
  <1> SUFFICES ASSUME IInv, [Next]_vars PROVE SharedStopCovers'
    OBVIOUS
  <1> USE LeaseAssumption DEF IInv, TypeOK, LeaseType, RequestType, StopType,
          Request, Job, SharedStopCovers, EngineInv, vars, lease, ctx, access,
          fence, stops
  <1>1. ASSUME NEW a \in Actors, GrantEnds(a) \/ RemoteRenew(a) \/ Observe(a) PROVE SharedStopCovers'
    BY <1>1 DEF GrantEnds, RemoteRenew, Observe
  <1>2. ASSUME NEW r \in Requests,
             Disconnect(r) \/ Authorize(r) \/ Bind(r) \/ Admit(r)
           \/ LoadStopSequence(r) \/ motionEngineForStart(r) \/ StartMotion(r)
           \/ Leave(r) \/ AuthorizeLocal(r)
       PROVE  SharedStopCovers'
    BY <1>2 DEF Disconnect, Authorize, Bind, Admit, LoadStopSequence,
       motionEngineForStart, StartMotion, Leave, AuthorizeLocal
  <1>3. ASSUME Tick PROVE SharedStopCovers'
    BY <1>3 DEF Tick, Older
  <1>4. ASSUME NEW a \in Actors, NEW g \in 0 .. generation, Heartbeat(a, g) PROVE SharedStopCovers'
    BY <1>4 DEF Heartbeat, activateLocked, cancelRequestsLocked, Issued
  <1>5. ASSUME NEW a \in Actors, NEW r \in Requests, Send(r, a) PROVE SharedStopCovers'
    BY <1>5 DEF Send, NoRequest
  <1>6. ASSUME NEW a \in Actors, NEW j \in Jobs, BeginTakeover(j, a) PROVE SharedStopCovers'
    BY <1>6 DEF BeginTakeover, beginTakeover, cancelRequestsLocked, Started, NoJob
  <1>7. ASSUME NEW a \in Actors, NEW j \in Jobs, RequireAuthentication(j, a) PROVE SharedStopCovers'
    BY <1>7 DEF RequireAuthentication, NoJob
  <1>8. ASSUME NEW k \in Keys, Revoke(k) PROVE SharedStopCovers'
    BY <1>8 DEF Revoke
  <1>9. ASSUME NEW k \in Keys, NEW j \in Jobs, SessionLoss(j, k) PROVE SharedStopCovers'
    BY <1>9 DEF SessionLoss, LoseOwner, clearOwnerLocked,
       cancelRequestsLocked, Started, NoJob
  <1>10. ASSUME NEW r \in Requests, NEW gw \in BOOLEAN, Enter(r, gw) PROVE SharedStopCovers'
    BY <1>10 DEF Enter
  <1>11. ASSUME NEW j \in Jobs, RequestStop(j) PROVE SharedStopCovers'
    BY <1>11 DEF RequestStop, Started, NoJob
  <1>12. ASSUME NEW j \in Jobs, ExpiredLoss(j) PROVE SharedStopCovers'
    BY <1>12 DEF ExpiredLoss, LoseOwner, clearOwnerLocked,
       cancelRequestsLocked, Started, NoJob
  <1>13. ASSUME NEW j \in Jobs, Bootstrap(j) PROVE SharedStopCovers'
    BY <1>13 DEF Bootstrap, beginTakeover, cancelRequestsLocked, JobGoto, NoJob
  <1>14. ASSUME NEW j \in Jobs, BeginLocalLoss(j) PROVE SharedStopCovers'
    <2>1. CASE ~stopping /\ LoseOwner /\ Started(j, "loss", None)
      BY <1>14, <2>1, StartedJobs DEF BeginLocalLoss
    <2>2. CASE UNCHANGED lease /\ job' = [job EXCEPT ![j] = NoJob]
      <3>1. /\ job'[j].pc = "idle" /\ job'[j].kind = "stop"
            /\ \A k \in Jobs \ {j} : job'[k] = job[k]
        BY <2>2, EndedJobs
      <3>2. job[j].pc = "begin" /\ UNCHANGED <<active, pending, stopping, lifecycleMu, motion, req, outdated>>
        BY <1>14, <2>2 DEF BeginLocalLoss
      <3>3. QED
        BY <3>1, <3>2
    <2>3. QED
      BY <1>14, <2>1, <2>2 DEF BeginLocalLoss
  <1>15. ASSUME NEW j \in Jobs, Invalidate(j) PROVE SharedStopCovers'
    BY <1>15 DEF Invalidate, advanceStopGeneration, cancelRequestsLocked
  <1>16. ASSUME NEW j \in Jobs, EnterBatch(j) PROVE SharedStopCovers'
    BY <1>16 DEF EnterBatch, JobGoto, NoJob
  <1>17. ASSUME NEW j \in Jobs, FollowerReply(j) PROVE SharedStopCovers'
    BY <1>17 DEF FollowerReply, NoJob
  <1>18. ASSUME NEW j \in Jobs, StopEngine(j) PROVE SharedStopCovers'
    <2>1. \A k \in Jobs :
             /\ job'[k].kind = job[k].kind /\ job'[k].actor = job[k].actor
             /\ job'[k].pc = IF k = j THEN "engine" ELSE job[k].pc
             /\ job[k].heard \/ job[k].pc # "idle" => job'[k].heard
      BY <1>18, StopEngineJobs
    <2>2. job[j].pc = "dispatch"
      BY <1>18 DEF StopEngine
    <2>3. QED
      BY <2>1, <2>2
  <1>19. ASSUME NEW j \in Jobs, ReleaseEngine(j) PROVE SharedStopCovers'
    <2>1. \A k \in Jobs :
             /\ job'[k].kind = job[k].kind /\ job'[k].actor = job[k].actor
             /\ job[k].heard => job'[k].heard
             /\ k = j => job'[k].pc = "stopped"
             /\ k # j => job'[k].pc = job[k].pc
                           \/ (job[k].pc = "waiting" /\ job'[k].pc = "told")
      BY <1>19, ReleaseEngineJobs
    <2>2. job[j].pc = "engine"
      BY <1>19 DEF ReleaseEngine
    <2>3. QED
      BY <2>1, <2>2
  <1>20. ASSUME NEW j \in Jobs, StopReply(j) PROVE SharedStopCovers'
    BY <1>20 DEF StopReply, NoJob
  <1>21. ASSUME NEW j \in Jobs, FinishLoss(j) PROVE SharedStopCovers'
    BY <1>21 DEF FinishLoss, NoJob
  <1>22. ASSUME NEW j \in Jobs, CompleteTakeover(j) PROVE SharedStopCovers'
    BY <1>22 DEF CompleteTakeover, activateLocked, cancelRequestsLocked,
       Issued, JobGoto, NoJob
  <1>23. ASSUME NEW j \in Jobs, TakeoverGone(j) PROVE SharedStopCovers'
    BY <1>23 DEF TakeoverGone, JobGoto
  <1>24. ASSUME NEW j \in Jobs, CancelTakeover(j) PROVE SharedStopCovers'
    BY <1>24 DEF CancelTakeover, clearOwnerLocked, cancelRequestsLocked, NoJob
  <1>25. CASE UNCHANGED vars
    BY <1>25
  <1> HIDE LeaseAssumption DEF IInv, TypeOK, LeaseType, RequestType, StopType,
           Request, Job, SharedStopCovers, EngineInv, vars, lease, ctx,
           access, fence, stops
  <1>26. QED
    BY <1>1, <1>2, <1>3, <1>4, <1>5, <1>6, <1>7, <1>8, <1>9, <1>10, <1>11,
       <1>12, <1>13, <1>14, <1>15, <1>16, <1>17, <1>18, <1>19, <1>20,
       <1>21, <1>22, <1>23, <1>24, <1>25
    DEF Next, RequestStep, JobStep

(* The initial state satisfies the inductive invariant.                    *)
LEMMA InitInv == Init => IInv
  <1> SUFFICES ASSUME Init PROVE IInv
    OBVIOUS
  <1>1. LeaseType
    <2>1. stopping \in BOOLEAN /\ ownerLive \in BOOLEAN
      BY DEF Init
    <2>2. TTL + 1 \in 0 .. TTL + 1 /\ 0 \in 0 .. TTL + 1
      BY LeaseAssumption
    <2>3. QED
      BY <2>1, <2>2 DEF Init, LeaseType
  <1>2. RequestType
    BY LeaseAssumption DEF Init, RequestType, Request, RequestPC, NoRequest
  <1>3. StopType
    BY LeaseAssumption DEF Init, StopType, Job, JobPC, NoJob
  <1>4. TypeOK
    <2>1. protected \in BOOLEAN
      BY DEF Init
    <2>2. QED
      BY <1>1, <1>2, <1>3, <2>1 DEF Init, TypeOK, AccessType
  <1>5. BoundInv /\ RequestInv
    BY LeaseAssumption DEF Init, BoundInv, RequestInv, Running, NoRequest
  <1>6. JobInv /\ EngineInv /\ SharedStopCovers
    BY LeaseAssumption DEF Init, JobInv, EngineInv, SharedStopCovers, NoJob
  <1>7. LossIsFenced
    BY LeaseAssumption DEF Init, LossIsFenced, Losses, NoJob
  <1>8. MotionInv
    BY LeaseAssumption DEF Init, MotionInv
  <1>9. QED
    BY <1>4, <1>5, <1>6, <1>7, <1>8 DEF IInv

(* Every step preserves the types of the access state and of the motion.   *)
LEMMA AccessTypeStep == TypeOK /\ [Next]_vars => AccessType'
  <1> SUFFICES ASSUME TypeOK, [Next]_vars PROVE AccessType'
    OBVIOUS
  <1> USE LeaseAssumption DEF TypeOK, AccessType, vars, lease, ctx, access,
          fence, stops
  <1>1. ASSUME NEW a \in Actors, GrantEnds(a) \/ RemoteRenew(a) \/ Observe(a) PROVE AccessType'
    BY <1>1 DEF GrantEnds, RemoteRenew, Observe
  <1>2. ASSUME NEW r \in Requests,
             Disconnect(r) \/ Authorize(r) \/ Bind(r) \/ Admit(r)
           \/ LoadStopSequence(r) \/ motionEngineForStart(r) \/ Leave(r)
           \/ AuthorizeLocal(r)
       PROVE  AccessType'
    BY <1>2 DEF Disconnect, Authorize, Bind, Admit, LoadStopSequence,
       motionEngineForStart, Leave, AuthorizeLocal
  <1>3. ASSUME NEW j \in Jobs,
             RequestStop(j) \/ ExpiredLoss(j) \/ Bootstrap(j) \/ BeginLocalLoss(j)
           \/ Invalidate(j) \/ EnterBatch(j) \/ FollowerReply(j) \/ StopEngine(j)
           \/ ReleaseEngine(j) \/ StopReply(j) \/ FinishLoss(j)
           \/ CompleteTakeover(j) \/ TakeoverGone(j) \/ CancelTakeover(j)
       PROVE  AccessType'
    BY <1>3 DEF RequestStop, ExpiredLoss, Bootstrap, BeginLocalLoss,
       Invalidate, EnterBatch, FollowerReply, StopEngine, ReleaseEngine,
       StopReply, FinishLoss, CompleteTakeover, TakeoverGone, CancelTakeover
  <1>4. ASSUME Tick PROVE AccessType'
    BY <1>4 DEF Tick, Older
  <1>5. ASSUME NEW a \in Actors, NEW g \in 0 .. generation, Heartbeat(a, g) PROVE AccessType'
    BY <1>5 DEF Heartbeat, activateLocked, cancelRequestsLocked, Issued
  <1>6. ASSUME NEW a \in Actors, NEW r \in Requests, Send(r, a) PROVE AccessType'
    BY <1>6 DEF Send, NoRequest
  <1>7. ASSUME NEW a \in Actors, NEW j \in Jobs, BeginTakeover(j, a) PROVE AccessType'
    BY <1>7 DEF BeginTakeover, beginTakeover, cancelRequestsLocked, Started, NoJob
  <1>8. ASSUME NEW a \in Actors, NEW j \in Jobs, RequireAuthentication(j, a) PROVE AccessType'
    BY <1>8 DEF RequireAuthentication, NoJob
  <1>9. ASSUME NEW k \in Keys, Revoke(k) PROVE AccessType'
    BY <1>9 DEF Revoke
  <1>10. ASSUME NEW k \in Keys, NEW j \in Jobs, SessionLoss(j, k) PROVE AccessType'
    BY <1>10 DEF SessionLoss, LoseOwner, clearOwnerLocked,
       cancelRequestsLocked, Started, NoJob
  <1>11. ASSUME NEW r \in Requests, NEW gw \in BOOLEAN, Enter(r, gw) PROVE AccessType'
    BY <1>11 DEF Enter
  <1>12. ASSUME NEW r \in Requests, StartMotion(r) PROVE AccessType'
    <2>1. motion' \in Actors \cup {None}
      BY <1>12 DEF StartMotion, RequestType, Request
    <2>2. QED
      BY <1>12, <2>1 DEF StartMotion
  <1>13. CASE UNCHANGED vars
    BY <1>13
  <1> HIDE LeaseAssumption DEF TypeOK, AccessType, vars, lease, ctx, access,
           fence, stops
  <1>14. QED
    BY <1>1, <1>2, <1>3, <1>4, <1>5, <1>6, <1>7, <1>8, <1>9, <1>10, <1>11,
       <1>12, <1>13
    DEF Next, RequestStep, JobStep

(* Every step preserves the types.                                         *)
LEMMA TypeStep == TypeOK /\ [Next]_vars => TypeOK'
  BY AccessTypeStep, LeaseTypeStep, RequestTypeStep, StopTypeStep DEF TypeOK

(* Every step preserves the inductive invariant.                           *)
LEMMA InvStep == IInv /\ [Next]_vars => IInv'
  <1> SUFFICES ASSUME IInv, [Next]_vars PROVE IInv'
    OBVIOUS
  <1>1. TypeOK'
    BY TypeStep DEF IInv
  <1>2. BoundInv' /\ RequestInv' /\ JobInv' /\ MotionInv'
    BY BoundStep, RequestInvStep, JobInvStep, MotionStep
  <1>3. LossIsFenced' /\ EngineInv' /\ SharedStopCovers'
    BY LossStep, EngineStep, CoversStep
  <1>4. QED
    BY <1>1, <1>2, <1>3 DEF IInv

(* The inductive invariant holds in every behaviour.                       *)
LEMMA Invariance == Spec => []IInv
  BY InitInv, InvStep, PTL DEF Spec

-----------------------------------------------------------------------------
(* The lease, the requests and the Stops keep their types.                 *)
THEOREM LeaseTypeCorrect == Spec => []TypeOK
  <1>1. IInv => TypeOK
    BY DEF IInv
  <1>2. QED
    BY <1>1, Invariance, PTL

(* A session's request that is admitted and not canceled is the present    *)
(* owner's, in the present generation, with no handoff or loss under way:  *)
(* what bindRequestCause and cancelRequestsLocked are for.                 *)
THEOREM RequestsAreOwners == Spec => []LiveRequestIsOwners
  <1>1. IInv => LiveRequestIsOwners
    BY DEF IInv, LiveRequestIsOwners, BoundInv, RequestInv, Running
  <1>2. QED
    BY <1>1, Invariance, PTL

(* No change of ownership forgets the motion it orphans: takeover and      *)
(* stopLostController have the engine's Stop ahead of them.                *)
THEOREM NoStrayMotion == Spec => []StrayMotionIsStopped
  <1>1. IInv => StrayMotionIsStopped
    BY DEF IInv, StrayMotionIsStopped, MotionInv
  <1>2. QED
    BY <1>1, Invariance, PTL

(* At most one lost-controller worker runs, and the fence of BeginLoss     *)
(* stands for exactly as long as it does.                                  *)
THEOREM OneLoss == Spec => []LossIsFenced
  <1>1. IInv => LossIsFenced
    BY DEF IInv
  <1>2. QED
    BY <1>1, Invariance, PTL

(* The reply of a shared Stop (stopAdmissionRuntime) is true for everybody *)
(* who gets it: the engine was still after that request invalidated work.  *)
THEOREM SharedReplyIsTrue == Spec => []SharedStopCovers
  <1>1. IInv => SharedStopCovers
    BY DEF IInv
  <1>2. QED
    BY <1>1, Invariance, PTL

(* No step revives an expired lease.                                       *)
LEMMA ExpiryStep == TypeOK /\ [Next]_vars => KeepsExpiry
  <1> SUFFICES ASSUME TypeOK, [Next]_vars PROVE KeepsExpiry
    OBVIOUS
  <1> USE LeaseAssumption DEF TypeOK, LeaseType, KeepsExpiry, expiredLocked,
          vars, lease, ctx, access, fence, stops
  <1>1. ASSUME NEW r \in Requests,
             Disconnect(r) \/ Authorize(r) \/ Bind(r) \/ Admit(r)
           \/ LoadStopSequence(r) \/ motionEngineForStart(r) \/ StartMotion(r)
           \/ Leave(r)
       PROVE  KeepsExpiry
    BY <1>1 DEF Disconnect, Authorize, Bind, Admit, LoadStopSequence,
       motionEngineForStart, StartMotion, Leave
  <1>2. ASSUME NEW j \in Jobs,
             RequestStop(j) \/ EnterBatch(j) \/ FollowerReply(j) \/ StopReply(j)
           \/ TakeoverGone(j)
       PROVE  KeepsExpiry
    BY <1>2 DEF RequestStop, EnterBatch, FollowerReply, StopReply, TakeoverGone
  <1>3. ASSUME Tick PROVE KeepsExpiry
    BY <1>3 DEF Tick, Older
  <1>4. ASSUME NEW a \in Actors, GrantEnds(a) PROVE KeepsExpiry
    BY <1>4 DEF GrantEnds
  <1>5. ASSUME NEW a \in Actors, Observe(a) PROVE KeepsExpiry
    BY <1>5 DEF Observe, touchLocalLocked, activateLocked
  <1>6. ASSUME NEW a \in Actors, RemoteRenew(a) PROVE KeepsExpiry
    BY <1>6 DEF RemoteRenew, Active
  <1>7. ASSUME NEW a \in Actors, NEW g \in 0 .. generation, Heartbeat(a, g) PROVE KeepsExpiry
    BY <1>7 DEF Heartbeat, activateLocked
  <1>8. ASSUME NEW a \in Actors, NEW r \in Requests, Send(r, a) PROVE KeepsExpiry
    BY <1>8 DEF Send, NoRequest
  <1>9. ASSUME NEW a \in Actors, NEW j \in Jobs, BeginTakeover(j, a) PROVE KeepsExpiry
    BY <1>9 DEF BeginTakeover, beginTakeover, cancelRequestsLocked, Started, NoJob
  <1>10. ASSUME NEW a \in Actors, NEW j \in Jobs, RequireAuthentication(j, a) PROVE KeepsExpiry
    BY <1>10 DEF RequireAuthentication, NoJob
  <1>11. ASSUME NEW k \in Keys, Revoke(k) PROVE KeepsExpiry
    BY <1>11 DEF Revoke
  <1>12. ASSUME NEW k \in Keys, NEW j \in Jobs, SessionLoss(j, k) PROVE KeepsExpiry
    BY <1>12 DEF SessionLoss, LoseOwner, clearOwnerLocked,
       cancelRequestsLocked, Started, NoJob
  <1>13. ASSUME NEW r \in Requests, NEW gw \in BOOLEAN, Enter(r, gw) PROVE KeepsExpiry
    BY <1>13 DEF Enter
  <1>14. ASSUME NEW r \in Requests, AuthorizeLocal(r) PROVE KeepsExpiry
    BY <1>14 DEF AuthorizeLocal, touchLocalLocked, activateLocked
  <1>15. ASSUME NEW j \in Jobs, ExpiredLoss(j) PROVE KeepsExpiry
    BY <1>15 DEF ExpiredLoss, LoseOwner, clearOwnerLocked,
       cancelRequestsLocked, Started, NoJob
  <1>16. ASSUME NEW j \in Jobs, Bootstrap(j) PROVE KeepsExpiry
    BY <1>16 DEF Bootstrap, beginTakeover, cancelRequestsLocked, JobGoto, NoJob
  <1>17. ASSUME NEW j \in Jobs, BeginLocalLoss(j) PROVE KeepsExpiry
    BY <1>17 DEF BeginLocalLoss, LoseOwner, clearOwnerLocked,
       cancelRequestsLocked, Started, NoJob
  <1>18. ASSUME NEW j \in Jobs, Invalidate(j) PROVE KeepsExpiry
    BY <1>18 DEF Invalidate, advanceStopGeneration, cancelRequestsLocked
  <1>19. ASSUME NEW j \in Jobs, StopEngine(j) PROVE KeepsExpiry
    BY <1>19 DEF StopEngine
  <1>20. ASSUME NEW j \in Jobs, ReleaseEngine(j) PROVE KeepsExpiry
    BY <1>20 DEF ReleaseEngine
  <1>21. ASSUME NEW j \in Jobs, FinishLoss(j) PROVE KeepsExpiry
    BY <1>21 DEF FinishLoss, NoJob
  <1>22. ASSUME NEW j \in Jobs, CompleteTakeover(j) PROVE KeepsExpiry
    BY <1>22 DEF CompleteTakeover, activateLocked, cancelRequestsLocked,
       Issued, JobGoto, NoJob
  <1>23. ASSUME NEW j \in Jobs, CancelTakeover(j) PROVE KeepsExpiry
    BY <1>23 DEF CancelTakeover, clearOwnerLocked, cancelRequestsLocked, NoJob
  <1>24. CASE UNCHANGED vars
    BY <1>24
  <1> HIDE LeaseAssumption DEF TypeOK, LeaseType, KeepsExpiry, expiredLocked,
           vars, lease, ctx, access, fence, stops
  <1>25. QED
    BY <1>1, <1>2, <1>3, <1>4, <1>5, <1>6, <1>7, <1>8, <1>9, <1>10, <1>11,
       <1>12, <1>13, <1>14, <1>15, <1>16, <1>17, <1>18, <1>19, <1>20,
       <1>21, <1>22, <1>23, <1>24
    DEF Next, RequestStep, JobStep

(* An expired lease of a session becomes fresh through a takeover only:    *)
(* neither a late heartbeat (heartbeatTransition), nor the phone           *)
(* (RemoteRenew), nor a Stop (advanceStopGeneration) brings it back.       *)
THEOREM ExpiryIsFinal == Spec => ExpiredStaysExpired
  <1>1. TypeOK /\ [Next]_vars => [KeepsExpiry]_vars
    BY ExpiryStep
  <1>2. QED
    BY <1>1, LeaseTypeCorrect, PTL DEF Spec, ExpiredStaysExpired

=============================================================================
