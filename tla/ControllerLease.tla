--------------------------- MODULE ControllerLease ---------------------------
(***************************************************************************)
(* Who may command the device: controllerRuntime, the requests bound to    *)
(* it, the takeover, the lost-controller Stop, the access watchdog, and    *)
(* the global Emergency Stop with its shared replies.                      *)
(*                                                                         *)
(* An identity (tab and session) is one member of Actors; Local ones have  *)
(* no session.  Every section of controllerRuntime.mu is one step.  Times  *)
(* are ages in ticks: a clock that has passed its limit stays there.  The  *)
(* motion engine is external here (module MotionEngine): it runs motion    *)
(* for one actor or for nobody.                                            *)
(***************************************************************************)
EXTENDS Integers, FiniteSets

CONSTANTS
  Actors,         \* controllerIdentity values
  Local,          \* those without a session (unprotected loopback clients)
  Session,        \* the session key of each actor
  None,
  Requests,       \* HTTP requests that start motion
  Jobs,           \* goroutines that run an Emergency Stop
  Kinds,          \* the causes of Emergency Stops that happen
  TTL,            \* leaseTTL, in ticks
  TicketLife,     \* commandTicketLifetime, in ticks
  MaxTickets,     \* the overlap window of tickets
  MaxWaiters,     \* stopWaiterLimit
  MaxGeneration   \* bound: beyond it clients start nothing new

ASSUME LeaseAssumption ==
  /\ Local \subseteq Actors
  /\ None \notin Actors \cup Jobs \cup Requests
  /\ IsFiniteSet(Jobs)
  /\ Kinds \subseteq {"takeover", "bootstrap", "loss", "stop"}
  /\ TTL \in Nat
  /\ TicketLife \in Nat \ {0}
  /\ MaxTickets \in Nat \ {0}
  /\ MaxWaiters \in Nat
  /\ MaxGeneration \in Nat

VARIABLES
  protected,      \* authenticationRuntime.required
  active, pending, generation, stopping,    \* the fields of controllerRuntime
  idle,           \* ticks since lastSeenAt
  remote,         \* ticks since remoteSeenAt; TTL + 1 also when it is zero
  ownerLive,      \* ownerCtx exists and is not canceled
  tickets,        \* the ages of the unexpired tickets
  bound,          \* controllerRuntime.requests
  ended,          \* external: identities whose control grant has run out
  revoked,        \* external: sessions the account database no longer accepts
  req,            \* each request: where it stands, its actor and its headers
  cancelled,      \* requests whose context is canceled
  stale,          \* requests that read stopSequence before a newer Stop
  outdated,       \* requests whose engine admission a Stop has invalidated
  job,            \* each Emergency Stop: its cause, actor and position
  lifecycleMu,    \* the job that holds motion.lifecycleMu, or None
  batch,          \* stopAdmissionRuntime.active: its leader, or None
  motion          \* external: for whom the engine moves, or None

lease == <<active, pending, generation, stopping, idle, remote, ownerLive, tickets>>
ctx   == <<bound, cancelled>>
access == <<protected, ended, revoked>>
fence == <<stale, outdated>>
stops == <<job, lifecycleMu, batch>>
vars  == <<access, lease, req, ctx, fence, stops, motion>>

Keys == {Session[a] : a \in Actors \ Local}

NoRequest == [pc |-> "idle", actor |-> None, gen |-> 0, age |-> 0, holds |-> FALSE]
NoJob     == [pc |-> "idle", kind |-> "stop", actor |-> None, heard |-> FALSE]

RequestPC == {"idle", "sent", "entered", "bind", "admit", "admitted", "loaded",
              "obtained", "refused"}
JobPC     == {"idle", "begin", "fenced", "enter", "dispatch", "engine", "stopped",
              "cancel", "waiting", "told"}

Request == [pc : RequestPC, actor : Actors \cup {None}, gen : Nat,
            age : 0 .. TicketLife, holds : BOOLEAN]
Job     == [pc : JobPC, kind : {"takeover", "bootstrap", "loss", "stop"},
            actor : Actors \cup {None}, heard : BOOLEAN]

LeaseType ==
  /\ active \in Actors \cup {None}
  /\ pending \in Actors \cup {None}
  /\ generation \in Nat
  /\ stopping \in BOOLEAN
  /\ idle \in 0 .. TTL + 1
  /\ remote \in 0 .. TTL + 1
  /\ ownerLive \in BOOLEAN
  /\ tickets \subseteq 0 .. TicketLife - 1

RequestType ==
  /\ req \in [Requests -> Request]
  /\ bound \subseteq Requests
  /\ cancelled \subseteq Requests
  /\ stale \subseteq Requests
  /\ outdated \subseteq Requests

StopType ==
  /\ job \in [Jobs -> Job]
  /\ lifecycleMu \in Jobs \cup {None}
  /\ batch \in Jobs \cup {None}

AccessType ==
  /\ protected \in BOOLEAN
  /\ ended \subseteq Actors
  /\ revoked \subseteq Keys
  /\ motion \in Actors \cup {None}

TypeOK ==
  /\ AccessType
  /\ LeaseType
  /\ RequestType
  /\ StopType

Init ==
  /\ protected \in BOOLEAN
  /\ active = None /\ pending = None /\ generation = 0 /\ stopping = FALSE
  /\ idle = 0 /\ remote = TTL + 1 /\ ownerLive = FALSE /\ tickets = {}
  /\ ended = {} /\ revoked = {}
  /\ bound = {} /\ cancelled = {} /\ stale = {} /\ outdated = {}
  /\ req = [r \in Requests |-> NoRequest]
  /\ job = [j \in Jobs |-> NoJob]
  /\ lifecycleMu = None /\ batch = None /\ motion = None

-----------------------------------------------------------------------------
(* Helpers of controllerRuntime; each is a part of a section of mu.        *)

(* Whose control requests the middleware lets through.                     *)
Allowed(a) ==
  IF a \in Local THEN ~protected
  ELSE protected /\ Session[a] \notin revoked /\ a \notin ended

expiredLocked == active # None /\ (idle > TTL \/ active \in ended)

(* snapshotLocked(a).Active, and ownerLiveLocked(a).                       *)
Active(a) ==
  active = a /\ ~expiredLocked /\ ~stopping /\ pending = None /\ ownerLive

(* issueCommandTicketLocked: at most one ticket per tick, at most          *)
(* MaxTickets of them, the oldest dropped first; none for a local owner.   *)
Issued(a, held) ==
  IF a \in Local \/ 0 \in held THEN held
  ELSE {0} \cup IF Cardinality(held) < MaxTickets THEN held
                ELSE {t \in held : \E u \in held : u > t}

(* Mutant: the requests are forgotten and not canceled.                    *)
ForgetRequests == UNCHANGED cancelled /\ bound' = {}

cancelRequestsLocked == cancelled' = cancelled \cup bound /\ bound' = {}

activateLocked(a) ==
  /\ cancelRequestsLocked
  /\ active' = a
  /\ generation' = generation + 1
  /\ idle' = 0 /\ remote' = TTL + 1
  /\ ownerLive' = TRUE
  /\ tickets' = Issued(a, {})

clearOwnerLocked ==
  /\ cancelRequestsLocked
  /\ active' = None
  /\ generation' = generation + 1
  /\ idle' = 0 /\ remote' = TTL + 1
  /\ ownerLive' = FALSE
  /\ UNCHANGED tickets

touchLocalLocked(a) ==
  LET free == ~stopping /\ pending = None /\ active \in Local \cup {None}
      claim == free /\ (active = None \/ expiredLocked)
  IN  /\ UNCHANGED <<pending, stopping>>
      /\ \/ claim /\ activateLocked(a)
         \/ /\ ~claim /\ free /\ active = a
            /\ idle' = 0
            /\ UNCHANGED <<active, generation, remote, ownerLive, tickets, ctx>>
         \/ ~claim /\ ~(free /\ active = a) /\ UNCHANGED <<lease, ctx>>

-----------------------------------------------------------------------------
(* Time, and what clients and the account database do on their own.        *)

Older(age, limit) == IF age < limit THEN age + 1 ELSE limit

Tick ==
  /\ idle' = IF active = None THEN 0 ELSE Older(idle, TTL + 1)
  /\ remote' = Older(remote, TTL + 1)
  /\ tickets' = {t + 1 : t \in tickets \ {TicketLife - 1}}
  /\ req' = [r \in Requests |->
              [req[r] EXCEPT !.age = IF req[r].pc = "idle" THEN 0 ELSE Older(@, TicketLife)]]
  /\ UNCHANGED <<access, active, pending, generation, stopping, ownerLive,
                 ctx, fence, stops, motion>>

GrantEnds(a) ==
  /\ a \notin Local \cup ended
  /\ ended' = ended \cup {a}
  /\ UNCHANGED <<protected, revoked, lease, req, ctx, fence, stops, motion>>

(* Logout, revocation by an administrator, or the end of the login.        *)
Revoke(k) ==
  /\ revoked' = revoked \cup {k}
  /\ UNCHANGED <<protected, ended, lease, req, ctx, fence, stops, motion>>

(* A browser disconnects, a session is revoked or the unprotected lifetime *)
(* ends: the request's own context is canceled.                            *)
Disconnect(r) ==
  /\ req[r].pc \notin {"idle", "sent"}
  /\ cancelled' = cancelled \cup {r}
  /\ UNCHANGED <<access, lease, req, bound, fence, stops, motion>>

(* GET /api/controller, /api/state and the event stream of a local client. *)
Observe(a) ==
  /\ a \in Local /\ Allowed(a)
  /\ generation < MaxGeneration
  /\ touchLocalLocked(a)
  /\ UNCHANGED <<access, req, fence, stops, motion>>

Heartbeat(a, g) ==
  /\ Allowed(a)
  /\ ~stopping /\ pending = None
  /\ a \in Local \/ g = generation
  /\ \/ /\ active = None /\ generation = 0
        /\ activateLocked(a)
     \/ /\ active = a /\ ~expiredLocked
        /\ idle' = 0
        /\ tickets' = Issued(a, tickets)
        /\ UNCHANGED <<active, generation, remote, ownerLive, ctx>>
  /\ UNCHANGED <<access, pending, stopping, req, fence, stops, motion>>

(* The phone of the owner's account keeps a hidden tab's lease.            *)
RemoteRenew(a) ==
  /\ Active(a)
  /\ idle' = 0 /\ remote' = 0
  /\ tickets' = Issued(a, tickets)
  /\ UNCHANGED <<access, active, pending, generation, stopping, ownerLive,
                 req, ctx, fence, stops, motion>>

-----------------------------------------------------------------------------
(* A request that starts motion, from the browser to the engine.           *)

Goto(r, pc) == req' = [req EXCEPT ![r].pc = pc]

(* The browser sends what its last snapshot told it: the generation and    *)
(* the latest ticket (TicketLife stands for none).  The request may be     *)
(* delayed for any time.                                                   *)
Send(r, a) ==
  /\ req[r].pc = "idle"
  /\ generation < MaxGeneration
  /\ Allowed(a)
  /\ a \notin Local => Active(a)
  /\ \E t \in 0 .. TicketLife :
        /\ \A u \in tickets : t <= u
        /\ t \in tickets \/ (tickets = {} /\ t = TicketLife)
        /\ req' = [req EXCEPT ![r] = [NoRequest EXCEPT !.pc = "sent", !.actor = a,
                                        !.gen = generation, !.age = t]]
  /\ UNCHANGED <<access, lease, ctx, fence, stops, motion>>

(* trackSessionActivity: the middleware binds the request of an active     *)
(* controller, except on a gateway route.                                  *)
Enter(r, gateway) ==
  LET binds == ~gateway /\ req[r].actor \notin Local /\ Active(req[r].actor)
  IN  /\ req[r].pc = "sent"
      /\ Allowed(req[r].actor)
      /\ req' = [req EXCEPT ![r] = [@ EXCEPT !.pc = "entered", !.holds = binds]]
      /\ bound' = IF binds THEN bound \cup {r} ELSE bound
      /\ UNCHANGED <<access, lease, cancelled, fence, stops, motion>>

(* requireController of a local client: Authority touches the lease, and   *)
(* there is no generation, binding or ticket.                              *)
AuthorizeLocal(r) ==
  /\ req[r].pc = "entered"
  /\ UNCHANGED <<access, fence, stops, motion>>
  /\ \E a \in Local :
        /\ a = req[r].actor
        /\ touchLocalLocked(a)
        /\ Goto(r, IF Active(a)' /\ r \notin cancelled THEN "admitted" ELSE "refused")

(* requireController of a session: the snapshot, the generation header.    *)
Authorize(r) ==
  /\ req[r].pc = "entered" /\ req[r].actor \notin Local
  /\ Active(req[r].actor) /\ req[r].gen = generation /\ r \notin cancelled
  /\ Goto(r, IF req[r].holds THEN "admit" ELSE "bind")
  /\ UNCHANGED <<access, lease, ctx, fence, stops, motion>>

Bind(r) ==
  /\ req[r].pc = "bind"
  /\ Active(req[r].actor)
  /\ bound' = bound \cup {r}
  /\ req' = [req EXCEPT ![r] = [@ EXCEPT !.pc = "admit", !.holds = TRUE]]
  /\ UNCHANGED <<access, lease, cancelled, fence, stops, motion>>

(* admitCommand, after any wait for the command lane.                      *)
Admit(r) ==
  /\ req[r].pc = "admit"
  /\ Active(req[r].actor) /\ req[r].gen = generation
  /\ req[r].age \in tickets
  /\ r \notin cancelled
  /\ Goto(r, "admitted")
  /\ UNCHANGED <<access, lease, ctx, fence, stops, motion>>

(* handleMotionStart reads stopSequence, ...                               *)
LoadStopSequence(r) ==
  /\ req[r].pc = "admitted"
  /\ Goto(r, "loaded")
  /\ UNCHANGED <<access, lease, ctx, fence, stops, motion>>

(* ... gets the engine and its admission under lifecycleMu ...             *)
motionEngineForStart(r) ==
  /\ req[r].pc = "loaded"
  /\ lifecycleMu = None
  /\ Goto(r, "obtained")
  /\ UNCHANGED <<access, lease, ctx, fence, stops, motion>>

(* ... and starts unless a Stop came or its context is canceled.           *)
StartMotion(r) ==
  /\ req[r].pc = "obtained"
  /\ r \notin stale \cup outdated \cup cancelled
  /\ motion' = req[r].actor
  /\ req' = [req EXCEPT ![r] = NoRequest]
  /\ bound' = bound \ {r}
  /\ UNCHANGED <<access, lease, cancelled, fence, stops>>

(* The handler returns at any point: refused, failed, or with no motion to *)
(* start; the deferred release takes its binding back.                     *)
Leave(r) ==
  /\ req[r].pc # "idle"
  /\ req' = [req EXCEPT ![r] = NoRequest]
  /\ bound' = bound \ {r}
  /\ cancelled' = cancelled \ {r}
  /\ stale' = stale \ {r}
  /\ outdated' = outdated \ {r}
  /\ UNCHANGED <<access, lease, stops, motion>>

-----------------------------------------------------------------------------
(* Emergency Stops.  A job is fenced when its cause is recorded, then      *)
(* invalidates work, dispatches, holds the engine and settles.             *)

Started(j, kind, a) == job' = [job EXCEPT ![j] = [NoJob EXCEPT !.pc = "fenced", !.kind = kind, !.actor = a]]
JobGoto(j, pc) == job' = [job EXCEPT ![j].pc = pc]

(* POST /api/motion/stop and the other Stop routes: open to every client.  *)
RequestStop(j) ==
  /\ "stop" \in Kinds /\ job[j].pc = "idle"
  /\ generation < MaxGeneration
  /\ Started(j, "stop", None)
  /\ UNCHANGED <<access, lease, req, ctx, fence, lifecycleMu, batch, motion>>

(* The condition under which BeginTakeover starts a handoff, and its       *)
(* effect on the lease.                                                    *)
CanTake(a) == ~stopping /\ pending = None /\ ~(active = a /\ ~expiredLocked)

beginTakeover(a) ==
  /\ cancelRequestsLocked
  /\ ownerLive' = FALSE
  /\ pending' = a
  /\ UNCHANGED <<active, generation, stopping, idle, remote, tickets>>

(* handleControllerTakeover up to its Stop.                                *)
BeginTakeover(j, a) ==
  /\ "takeover" \in Kinds /\ job[j].pc = "idle"
  /\ generation < MaxGeneration
  /\ Allowed(a) /\ CanTake(a)
  /\ beginTakeover(a)
  /\ Started(j, "takeover", a)
  /\ UNCHANGED <<access, req, fence, lifecycleMu, batch, motion>>

(* The first account is created: requireAuthentication, then a session.    *)
RequireAuthentication(j, a) ==
  /\ "bootstrap" \in Kinds /\ job[j].pc = "idle"
  /\ ~protected /\ a \notin Local
  /\ protected' = TRUE
  /\ job' = [job EXCEPT ![j] = [NoJob EXCEPT !.pc = "begin", !.kind = "bootstrap", !.actor = a]]
  /\ UNCHANGED <<ended, revoked, lease, req, ctx, fence, lifecycleMu, batch, motion>>

(* bootstrapController takes over for the new session, or gives up.        *)
Bootstrap(j) ==
  /\ job[j].pc = "begin"
  /\ \/ /\ CanTake(job[j].actor)
        /\ beginTakeover(job[j].actor)
        /\ JobGoto(j, "fenced")
     \/ /\ ~CanTake(job[j].actor)
        /\ job' = [job EXCEPT ![j] = NoJob]
        /\ UNCHANGED <<lease, ctx>>
  /\ UNCHANGED <<access, req, fence, lifecycleMu, batch, motion>>

(* The common end of BeginLoss and BeginLocalLoss.                         *)

LoseOwner ==
  /\ stopping' = TRUE
  /\ pending' = None
  /\ clearOwnerLocked

(* No session could be created, or the request names no tab:               *)
(* BeginLocalLoss.                                                         *)
BeginLocalLoss(j) ==
  /\ job[j].pc = "begin"
  /\ \/ /\ ~stopping /\ active \in Local
        /\ LoseOwner
        /\ Started(j, "loss", None)
     \/ /\ ~(~stopping /\ active \in Local)
        /\ job' = [job EXCEPT ![j] = NoJob]
        /\ UNCHANGED <<lease, ctx>>
  /\ UNCHANGED <<access, req, fence, lifecycleMu, batch, motion>>

(* Mutant: the watchdog looks at the grant only.                           *)
ExpiredGrantLoss(j) ==
  /\ "loss" \in Kinds /\ job[j].pc = "idle"
  /\ ~stopping /\ active \in ended
  /\ LoseOwner
  /\ Started(j, "loss", None)
  /\ UNCHANGED <<access, req, fence, lifecycleMu, batch, motion>>

(* The watchdog's BeginLoss("", true).                                     *)
ExpiredLoss(j) ==
  /\ "loss" \in Kinds /\ job[j].pc = "idle"
  /\ ~stopping /\ active \in Actors \ Local /\ expiredLocked
  /\ LoseOwner
  /\ Started(j, "loss", None)
  /\ UNCHANGED <<access, req, fence, lifecycleMu, batch, motion>>

(* Mutant: the owner is dropped without a Stop.                            *)
SessionLossNoStop(j, k) ==
  /\ "loss" \in Kinds /\ job[j].pc = "idle"
  /\ ~stopping
  /\ k \in revoked \/ (active \in ended /\ Session[active] = k)
  /\ \E b \in {active, pending} \ (Local \cup {None}) : Session[b] = k
  /\ LoseOwner
  /\ job' = [job EXCEPT ![j] = [NoJob EXCEPT !.pc = "stopped", !.kind = "loss", !.heard = TRUE]]
  /\ UNCHANGED <<access, req, fence, lifecycleMu, batch, motion>>

(* checkAccessLifetimes and endRevokedSessions: BeginLoss(key, false) when *)
(* a session is gone or its owner may no longer control.                   *)
SessionLoss(j, k) ==
  /\ "loss" \in Kinds /\ job[j].pc = "idle"
  /\ ~stopping
  /\ k \in revoked \/ (active \in ended /\ Session[active] = k)
  /\ \E b \in {active, pending} \ (Local \cup {None}) : Session[b] = k
  /\ LoseOwner
  /\ Started(j, "loss", None)
  /\ UNCHANGED <<access, req, fence, lifecycleMu, batch, motion>>

(* invalidateWorkForStop: advanceStopGeneration, then stopSequence.        *)
advanceStopGeneration ==
  /\ cancelRequestsLocked
  /\ UNCHANGED <<active, pending, stopping, idle, remote>>
  /\ IF active \in Actors \ Local
     THEN generation' = generation + 1 /\ ownerLive' = TRUE /\ tickets' = {0}
     ELSE UNCHANGED <<generation, ownerLive, tickets>>

Invalidate(j) ==
  /\ job[j].pc = "fenced"
  /\ advanceStopGeneration
  /\ stale' = stale \cup {r \in Requests : req[r].pc \in {"loaded", "obtained"}}
  /\ job' = [job EXCEPT ![j] = [@ EXCEPT
                !.pc = IF job[j].kind = "stop" THEN "enter" ELSE "dispatch",
                !.heard = (motion = None)]]
  /\ UNCHANGED <<access, req, outdated, lifecycleMu, batch, motion>>

(* stopAdmissionRuntime.enter: lead a new batch, or wait for the one in    *)
(* progress if there is room; otherwise the reply is "pending" at once.    *)
Waiting == {j \in Jobs : job[j].pc \in {"waiting", "told"}}

EnterBatch(j) ==
  /\ job[j].pc = "enter"
  /\ \/ batch = None /\ batch' = j /\ JobGoto(j, "dispatch")
     \/ /\ batch # None /\ UNCHANGED batch
        /\ IF Cardinality(Waiting) < MaxWaiters
           THEN JobGoto(j, "waiting")
           ELSE job' = [job EXCEPT ![j] = NoJob]
  /\ UNCHANGED <<access, lease, req, ctx, fence, lifecycleMu, motion>>

(* A follower's reply: the leader's outcome, or pending after its timeout. *)
FollowerReply(j) ==
  /\ job[j].pc \in {"waiting", "told"}
  /\ job' = [job EXCEPT ![j] = NoJob]
  /\ UNCHANGED <<access, lease, req, ctx, fence, lifecycleMu, batch, motion>>

(* dispatchEmergencyStop takes lifecycleMu and stops the engine, which     *)
(* invalidates every admission it gave.                                    *)
StopEngine(j) ==
  /\ job[j].pc = "dispatch"
  /\ lifecycleMu = None
  /\ lifecycleMu' = j
  /\ motion' = None
  /\ outdated' = outdated \cup {r \in Requests : req[r].pc = "obtained"}
  /\ job' = [k \in Jobs |-> [job[k] EXCEPT !.heard = (@ \/ job[k].pc # "idle"),
                                         !.pc = IF k = j THEN "engine" ELSE @]]
  /\ UNCHANGED <<access, lease, req, ctx, stale, batch>>

(* Mutant: the lock is released first and the outcome published later.     *)
ReleaseThenComplete(j) ==
  /\ job[j].pc = "engine"
  /\ IF lifecycleMu = j THEN lifecycleMu' = None /\ UNCHANGED <<batch, job>>
     ELSE /\ UNCHANGED lifecycleMu
          /\ batch' = IF batch = j THEN None ELSE batch
          /\ job' = [k \in Jobs |->
                [job[k] EXCEPT !.pc = IF k = j THEN "stopped"
                                      ELSE IF batch = j /\ @ = "waiting" THEN "told" ELSE @]]
  /\ UNCHANGED <<access, lease, req, ctx, fence, motion>>

(* complete publishes the outcome before lifecycleMu is released.          *)
ReleaseEngine(j) ==
  /\ job[j].pc = "engine"
  /\ lifecycleMu' = None
  /\ batch' = IF batch = j THEN None ELSE batch
  /\ job' = [k \in Jobs |->
        [job[k] EXCEPT !.pc = IF k = j THEN "stopped"
                              ELSE IF batch = j /\ @ = "waiting" THEN "told" ELSE @]]
  /\ UNCHANGED <<access, lease, req, ctx, fence, motion>>

StopReply(j) ==
  /\ job[j].pc = "stopped" /\ job[j].kind = "stop"
  /\ job' = [job EXCEPT ![j] = NoJob]
  /\ UNCHANGED <<access, lease, req, ctx, fence, lifecycleMu, batch, motion>>

FinishLoss(j) ==
  /\ job[j].pc = "stopped" /\ job[j].kind = "loss"
  /\ stopping' = FALSE
  /\ job' = [job EXCEPT ![j] = NoJob]
  /\ UNCHANGED <<access, active, pending, generation, idle, remote, ownerLive, tickets,
                 req, ctx, fence, lifecycleMu, batch, motion>>

(* CompleteTakeover; bootstrapController cancels afterwards in any case.   *)
CompleteTakeover(j) ==
  /\ job[j].pc = "stopped" /\ job[j].kind \in {"takeover", "bootstrap"}
  /\ IF pending = job[j].actor /\ ~stopping
     THEN /\ activateLocked(job[j].actor)
          /\ pending' = None
          /\ UNCHANGED stopping
          /\ job' = [job EXCEPT ![j] = IF job[j].kind = "takeover" THEN NoJob
                                       ELSE [@ EXCEPT !.pc = "cancel"]]
     ELSE JobGoto(j, "cancel") /\ UNCHANGED <<lease, ctx>>
  /\ UNCHANGED <<access, req, fence, lifecycleMu, batch, motion>>

(* Mutant: a takeover that is given up stays pending.                      *)
TakeoverForgotten(j) ==
  /\ job[j].pc = "stopped" /\ job[j].kind \in {"takeover", "bootstrap"}
  /\ job' = [job EXCEPT ![j] = NoJob]
  /\ UNCHANGED <<access, lease, req, ctx, fence, lifecycleMu, batch, motion>>

(* The client that asked for control is gone after the Stop.               *)
TakeoverGone(j) ==
  /\ job[j].pc = "stopped" /\ job[j].kind \in {"takeover", "bootstrap"}
  /\ JobGoto(j, "cancel")
  /\ UNCHANGED <<access, lease, req, ctx, fence, lifecycleMu, batch, motion>>

CancelTakeover(j) ==
  /\ job[j].pc = "cancel"
  /\ IF pending = job[j].actor
     THEN pending' = None /\ clearOwnerLocked /\ UNCHANGED stopping
     ELSE UNCHANGED <<lease, ctx>>
  /\ job' = [job EXCEPT ![j] = NoJob]
  /\ UNCHANGED <<access, req, fence, lifecycleMu, batch, motion>>

-----------------------------------------------------------------------------
RequestStep(r) ==
  \/ Enter(r, TRUE) \/ Enter(r, FALSE)
  \/ AuthorizeLocal(r) \/ Authorize(r) \/ Bind(r) \/ Admit(r)
  \/ LoadStopSequence(r) \/ motionEngineForStart(r) \/ StartMotion(r)
  \/ Leave(r)

(* The steps of a Stop that is under way.                                  *)
JobStep(j) ==
  \/ Bootstrap(j) \/ BeginLocalLoss(j)
  \/ Invalidate(j) \/ EnterBatch(j) \/ FollowerReply(j) \/ StopEngine(j) \/ ReleaseEngine(j)
  \/ StopReply(j) \/ FinishLoss(j) \/ CompleteTakeover(j) \/ TakeoverGone(j) \/ CancelTakeover(j)

Next ==
  \/ Tick
  \/ \E a \in Actors :
        \/ GrantEnds(a) \/ Observe(a) \/ RemoteRenew(a)
        \/ \E g \in 0 .. generation : Heartbeat(a, g)
        \/ \E r \in Requests : Send(r, a)
        \/ \E j \in Jobs : BeginTakeover(j, a) \/ RequireAuthentication(j, a)
  \/ \E k \in Keys : Revoke(k) \/ \E j \in Jobs : SessionLoss(j, k)
  \/ \E r \in Requests : Disconnect(r) \/ RequestStep(r)
  \/ \E j \in Jobs : RequestStop(j) \/ ExpiredLoss(j) \/ JobStep(j)

Spec == Init /\ [][Next]_vars

(* A goroutine that runs a Stop goes on (lifecycleMu is starvation-free),  *)
(* and the watchdog ticks.  Nothing is assumed of clients or of time.      *)
FairSpec ==
  /\ Spec
  /\ \A j \in Jobs : WF_vars(JobStep(j)) /\ SF_vars(StopEngine(j))
  /\ WF_vars(\E j \in Jobs : ExpiredLoss(j))
  /\ WF_vars(\E j \in Jobs, k \in Keys : SessionLoss(j, k))

-----------------------------------------------------------------------------
(* Properties.                                                             *)

(* A request of a session that has been admitted and not canceled belongs  *)
(* to the present owner in the present generation, with no handoff or loss *)
(* under way: every change of ownership and every Stop reaches it before   *)
(* anything else can happen (bindRequestCause, cancelRequestsLocked).      *)
LiveRequestIsOwners ==
  \A r \in Requests :
    req[r].pc \in {"admitted", "loaded", "obtained"} /\ req[r].actor \notin Local /\ r \notin cancelled
      => /\ active = req[r].actor /\ generation = req[r].gen
         /\ pending = None /\ ~stopping /\ ownerLive

(* A takeover or a loss that has the engine still ahead of it.             *)
StopAhead == \E j \in Jobs : job[j].kind # "stop" /\ job[j].pc \in {"fenced", "dispatch"}

(* Motion started for a session runs on only while that session's tab owns *)
(* the lease, or a takeover or loss still has the engine ahead of it: no   *)
(* change of ownership forgets the motion it orphans.                      *)
StrayMotionIsStopped == motion \in Actors \ (Local \cup {active}) => StopAhead

Losses == {j \in Jobs : job[j].kind = "loss" /\ job[j].pc # "idle"}

(* BeginLoss admits at most one lost-controller worker, the fence stands   *)
(* exactly as long as that worker runs, and no takeover waits behind it.   *)
LossIsFenced ==
  /\ stopping <=> Losses # {}
  /\ \A j, k \in Losses : j = k
  /\ stopping => pending = None /\ active = None

(* A Stop reply shared from another request's operation is true: since     *)
(* this request invalidated work the engine has been still at some moment. *)
SharedStopCovers == \A j \in Jobs : job[j].pc \in {"told", "stopped"} => job[j].heard

KeepsExpiry ==
  active \notin Local /\ expiredLocked /\ active' = active
    => expiredLocked' \/ (pending = active /\ pending' = None)

(* A session's expired lease is not revived by a heartbeat, a phone or a   *)
(* Stop; only a completed takeover makes it fresh.                         *)
ExpiredStaysExpired == [][KeepsExpiry]_vars

(* Motion of a session whose tab has lost the lease, let it expire or been *)
(* revoked does not run for ever (the watchdog, stopLostController).       *)
AbandonedMotionStops ==
  \A a \in Actors \ Local :
    (motion = a /\ (active # a \/ expiredLocked \/ Session[a] \in revoked)) ~> motion # a

(* Every handoff and every loss ends: the fence that makes all clients     *)
(* read-only is taken down again, whoever disconnects meanwhile.           *)
HandoffSettles == (pending # None \/ stopping) ~> (pending = None /\ ~stopping)

=============================================================================
