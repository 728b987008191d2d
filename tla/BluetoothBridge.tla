--------------------------- MODULE BluetoothBridge ---------------------------
(***************************************************************************)
(* The Bluetooth link that a browser tab owns: BrowserBluetoothBridge,     *)
(* which queues commands for the tab and waits for its acknowledgements,   *)
(* and the gateway lease that ties the link to an authenticated browser    *)
(* once accounts are required.                                             *)
(*                                                                         *)
(* Callers are goroutines inside SendCommand, Handlers are HTTP requests   *)
(* of the tabs and the server's own lifetime checks.  bridge.mu and        *)
(* gateway.mu are never held across a wait, so a section under them is one *)
(* step.  Waiters look again after every broadcast and after 250 ms, so a  *)
(* waiter may look at any time.  Clocks are choices: a deadline may pass   *)
(* whenever it is looked at.  A stale link only refuses commands and lets  *)
(* a lease replace it, so it is kept track of where a lease could.         *)
(*                                                                         *)
(* The tabs are external: a tab reports what became of a command it has    *)
(* received, and may report it again; a reply to a tab may be lost.  The   *)
(* supported flag is left out: it refuses commands as a stale link does.   *)
(* The engine's Stop that follows the loss of a gateway is in              *)
(* ControllerLease.                                                        *)
(***************************************************************************)
EXTENDS Integers, FiniteSets, Sequences, SequencesExt

CONSTANTS
  Callers,       \* goroutines that send commands
  Handlers,      \* goroutines of HTTP requests and of the lifetime check
  Tabs,          \* browser tabs
  Streams,       \* Bluetooth stream numbers
  None,          \* no client, lease, stream or playback
  QueueLimit,    \* queueLimit
  BatchLimit,    \* batchLimit
  MaxCommands,   \* bound on the commands of a behaviour
  MaxSessions,   \* bound on the connection changes of a behaviour
  MaxReports     \* bound on the playback reports of a connection

ASSUME BridgeAssumption ==
  /\ Tabs \cap Int = {} /\ None \notin Tabs \cup Int
  /\ None \notin [gen : Int, tab : Tabs \cup {None}, live : BOOLEAN]
  /\ Callers \cap Handlers = {}
  /\ QueueLimit \in Nat \ {0} /\ BatchLimit \in Nat \ {0}
  /\ MaxCommands \in Nat /\ MaxSessions \in Nat /\ MaxReports \in Nat

VARIABLES
  link,          \* the bridge's connection: session, client and its condition
  pending,       \* commands no tab has fetched yet
  inflight,      \* commands a tab has fetched
  acks,          \* answers nobody has taken yet: <<command, ok>>
  feedback,      \* what the bridge believes is playing, and the last report of it
  accounts,      \* authenticationRequired
  gateway,       \* the lease, its sequence, whether it is being ended, and (history)
                 \* whether the connection was removed while it was
  at,            \* where callers and handlers stand, and their local variables
  nextCommandID, \* the number of the next command
  received       \* external: the commands each tab has received

bridge == <<link, pending, inflight, acks, feedback>>
vars   == <<bridge, accounts, gateway, at, nextCommandID, received>>

Paths   == {"stop", "add", "play"}
Clients == Tabs \cup Nat

(* A tab is its own client until accounts are required; a lease is known   *)
(* to the bridge by its generation (transportID).                          *)
IdleCaller  == [pc |-> "idle", id |-> 0, session |-> 0]
IdleHandler == [pc |-> "idle", tab |-> None, gen |-> None, took |-> {}]

-----------------------------------------------------------------------------
(* Sections under bridge.mu. *)

Stale == link.connected /\ link.client # None /\ link.overdue
Ready == link.connected /\ link.client # None /\ ~Stale

Failures(ids) == {<<id, FALSE>> : id \in ids}

(* Mutant: a new connection keeps what is queued.                          *)
FailFetched ==
  /\ acks' = acks \cup Failures(inflight)
  /\ inflight' = {}
  /\ UNCHANGED pending

(* failAllLocked *)
FailAll ==
  /\ acks' = acks \cup Failures(inflight \cup ToSet(pending))
  /\ pending' = <<>> /\ inflight' = {}

Silent == [feedback EXCEPT !.active = FALSE, !.playback = None]

ConnectClient(client) ==
  /\ link.session < MaxSessions
  /\ link' = [session |-> link.session + 1, retired |-> FALSE, client |-> client,
              connected |-> TRUE, overdue |-> FALSE]
  /\ feedback' = [Silent EXCEPT !.reports = 0]
  /\ FailAll

(* Mutant: a report is only compared with the last report.                 *)
AcceptedAny(report) ==
  report.number > feedback.reports

(* acceptPlaybackLocked: a report names its number, the tab's last command *)
(* and the stream the device spoke of.                                     *)
Accepted(report) ==
  /\ feedback.active
  /\ report.command = feedback.command /\ report.stream = feedback.stream
  /\ report.number > feedback.reports

AcceptPlayback(report) ==
  IF report # None /\ Accepted(report)
  THEN [feedback EXCEPT !.reports = report.number, !.playback = report] ELSE feedback

(* A status from the active tab, from any tab while the link is down, or   *)
(* without a client.                                                       *)
UpdateClient(client, connected, report) ==
  IF link.retired \/ (client # None /\ link.client \notin {None, client} /\ link.connected)
  THEN UNCHANGED bridge
  ELSE /\ connected # link.connected => link.session < MaxSessions
       /\ link' = [link EXCEPT !.client = IF client = None THEN @ ELSE client,
                               !.session = IF connected = link.connected THEN @ ELSE @ + 1,
                               !.connected = connected, !.overdue = FALSE]
       /\ IF connected
          THEN /\ feedback' = IF client = None THEN feedback ELSE AcceptPlayback(report)
               /\ UNCHANGED <<pending, inflight, acks>>
          ELSE feedback' = Silent /\ FailAll

DisconnectClient(client) ==
  IF client # None /\ link.client \notin {None, client}
  THEN UNCHANGED bridge
  ELSE /\ link.session < MaxSessions
       /\ link' = [link EXCEPT !.session = @ + 1, !.retired = TRUE, !.connected = FALSE, !.overdue = FALSE]
       /\ feedback' = Silent
       /\ FailAll

(* preparePlaybackCommandLocked *)
PreparePlayback(id, path, stream) ==
  IF path = "stop" THEN Silent
  ELSE [feedback EXCEPT
          !.active = TRUE, !.stream = stream, !.command = id,
          !.playback = IF path = "play" \/ ~feedback.active \/ feedback.stream # stream THEN None ELSE @]

Acknowledge(client, id, ok) ==
  IF link.client # client \/ id \notin inflight
  THEN UNCHANGED bridge
  ELSE /\ inflight' = inflight \ {id}
       /\ acks' = acks \cup {<<id, ok>>}
       /\ link' = [link EXCEPT !.overdue = FALSE]
       /\ UNCHANGED <<pending, feedback>>

-----------------------------------------------------------------------------
(* SendCommand.  A transport is bound to the session it was made in, or to *)
(* none (0) when there was no connection yet.                              *)
SendCommand(c, path, stream, bound) ==
  /\ at[c].pc = "idle" /\ nextCommandID <= MaxCommands
  /\ bound # 0 => bound = link.session
  /\ Ready
  /\ LET id   == nextCommandID
         full == Len(pending) >= QueueLimit
     IN /\ nextCommandID' = id + 1
        /\ pending' = Append(IF full THEN Tail(pending) ELSE pending, id)
        /\ acks' = IF full THEN acks \cup Failures({Head(pending)}) ELSE acks
        /\ feedback' = PreparePlayback(id, path, stream)
        /\ at' = [at EXCEPT ![c] = [pc |-> "wait", id |-> id,
                                     session |-> IF bound = 0 THEN link.session ELSE bound]]
  /\ UNCHANGED <<link, inflight, accounts, gateway, received>>

Answers(id) == {ack \in acks : ack[1] = id}

(* removeCommandLocked; no command is queued twice. *)
RemoveCommand(id) ==
  /\ IF id \in ToSet(pending)
     THEN \E i \in 1 .. Len(pending) : pending[i] = id /\ pending' = RemoveAt(pending, i)
     ELSE UNCHANGED pending
  /\ inflight' = inflight \ {id}

SendAnswered(c) ==
  /\ at[c].pc = "wait"
  /\ \E ack \in Answers(at[c].id) :
       /\ acks' = acks \ {ack}
       /\ at' = [at EXCEPT ![c] = IdleCaller]
  /\ UNCHANGED <<link, pending, inflight, feedback, accounts, gateway, nextCommandID, received>>

(* The link is no longer ready, or the command's deadline has passed. *)
SendGivesUp(c) ==
  /\ at[c].pc = "wait" /\ Answers(at[c].id) = {}
  /\ RemoveCommand(at[c].id)
  /\ at' = [at EXCEPT ![c] = IdleCaller]
  /\ UNCHANGED <<link, acks, feedback, accounts, gateway, nextCommandID, received>>

(* The caller's context ends, which select may prefer to an answer. *)
SendCanceled(c) ==
  /\ at[c].pc = "wait"
  /\ RemoveCommand(at[c].id)
  /\ at' = [at EXCEPT ![c] = IdleCaller]
  /\ UNCHANGED <<link, acks, feedback, accounts, gateway, nextCommandID, received>>

-----------------------------------------------------------------------------
(* Requests.  Each reads authenticationRequired first.  Accounts are never *)
(* made optional again, so a request that finds them required may as well  *)
(* read the flag when it acts (Asks); one that does not find them required *)
(* may act later, when they are (Local).                                   *)

Requests == {"connect", "status", "disconnect", "fetch", "ack"}

Begin(h, tab, request) ==
  /\ at[h].pc = "idle" /\ ~accounts
  /\ at' = [at EXCEPT ![h] = [IdleHandler EXCEPT !.pc = request, !.tab = tab]]
  /\ UNCHANGED <<bridge, accounts, gateway, nextCommandID, received>>

Local(h, request) == at[h].pc = request
Asks(h)           == at[h].pc = "idle" /\ accounts

Done(h) == at' = [at EXCEPT ![h] = IdleHandler]
Goto(h, pc, gen, tab) == at' = [at EXCEPT ![h] = [IdleHandler EXCEPT !.pc = pc, !.gen = gen, !.tab = tab]]

Gen == IF gateway.lease = None THEN None ELSE gateway.lease.gen

(* lockBluetoothGateway: matches and current; a success renews the lease. *)
Current(tab) ==
  /\ gateway.lease # None
  /\ gateway.lease.tab = tab /\ gateway.lease.live

(* handleBluetoothConnect and registerBluetoothGateway. *)
ConnectLocal(h) ==
  /\ Local(h, "connect")
  /\ ConnectClient(at[h].tab)
  /\ Done(h)
  /\ UNCHANGED <<accounts, gateway, nextCommandID, received>>

RegisterGateway(h, tab) ==
  /\ Asks(h)
  /\ gateway.lease = None /\ ~gateway.stopping /\ (link.connected => Stale)
  /\ LET gen == gateway.sequence + 1
     IN /\ gateway' = [gateway EXCEPT !.sequence = gen,
                         !.lease = [gen |-> gen, tab |-> tab, live |-> TRUE]]
        /\ ConnectClient(gen)
  /\ UNCHANGED <<accounts, at, nextCommandID, received>>

(* handleBluetoothStatus; a leased tab that reports the link down gives    *)
(* its lease up, and every leased status is followed by a lifetime check.  *)
Reports(tab) ==
  {None} \cup [number : 1 .. MaxReports, command : received[tab], stream : Streams]

StatusLocal(h) ==
  /\ Local(h, "status")
  /\ \E connected \in BOOLEAN, report \in Reports(at[h].tab), client \in {at[h].tab, None} :
       UpdateClient(client, connected, report)
  /\ Done(h)
  /\ UNCHANGED <<accounts, gateway, nextCommandID, received>>

StatusLeased(h, tab) ==
  /\ Asks(h)
  /\ Current(tab)
  /\ \E connected \in BOOLEAN, report \in Reports(tab) :
       /\ UpdateClient(Gen, connected, report)
       /\ gateway' = [gateway EXCEPT !.lease.live = connected]
  /\ Goto(h, "lifetime", None, None)
  /\ UNCHANGED <<accounts, nextCommandID, received>>

(* handleBluetoothDisconnect: the tab that holds the lease, or an          *)
(* administrator for it, ends it after the engine's Stop.                  *)
DisconnectLocal(h) ==
  /\ Local(h, "disconnect")
  /\ DisconnectClient(at[h].tab)
  /\ Done(h)
  /\ UNCHANGED <<accounts, gateway, nextCommandID, received>>

Disconnect(h, tab) ==
  /\ Asks(h)
  /\ gateway.lease # None
  /\ gateway.lease.tab = tab => Current(tab)
  /\ Goto(h, "confirm", Gen, None)
  /\ UNCHANGED <<bridge, accounts, gateway, nextCommandID, received>>

DisconnectConfirm(h) ==
  /\ at[h].pc = "confirm"
  /\ IF Gen = at[h].gen /\ ~gateway.stopping
     THEN gateway' = [gateway EXCEPT !.stopping = TRUE] /\ Goto(h, "disconnecting", at[h].gen, None)
     ELSE Done(h) /\ UNCHANGED gateway
  /\ UNCHANGED <<bridge, accounts, nextCommandID, received>>

Ended == [gateway EXCEPT !.lease = None, !.stopping = FALSE]

(* Mutant: the lease outlives the connection.                              *)
DisconnectForgets(h) ==
  /\ at[h].pc = "disconnecting"
  /\ DisconnectClient(at[h].gen)
  /\ Done(h)
  /\ UNCHANGED <<gateway, accounts, nextCommandID, received>>

DisconnectFinish(h) ==
  /\ at[h].pc = "disconnecting"
  /\ IF Gen = at[h].gen THEN DisconnectClient(Gen) /\ gateway' = Ended
     ELSE UNCHANGED <<bridge, gateway>>
  /\ Done(h)
  /\ UNCHANGED <<accounts, nextCommandID, received>>

(* checkBluetoothGatewayLifetime, of the ticker, of a revoked session or   *)
(* after a status.  A link from before accounts were required is adopted   *)
(* as a lease that nobody holds, and ended.                                *)
Adopted == [gen |-> -link.session, tab |-> None, live |-> FALSE]

CheckLifetime(h) ==
  /\ at[h].pc \in {"idle", "lifetime"}
  /\ LET adopts == gateway.lease = None /\ accounts /\ link.connected /\ ~Stale
         lease  == IF adopts THEN Adopted ELSE gateway.lease
         ended  == lease # None /\ ~lease.live
     IN \/ /\ lease # None /\ ~gateway.stopping
           /\ ended \/ at[h].pc = "idle"
           /\ DisconnectClient(IF adopts THEN None ELSE Gen)
           /\ gateway' = [gateway EXCEPT !.stopping = TRUE, !.lease = [lease EXCEPT !.live = FALSE]]
           /\ Goto(h, "lost", lease.gen, None)
        \/ /\ ended => gateway.stopping
           /\ gateway' = [gateway EXCEPT !.lease = lease]
           /\ Done(h)
           /\ UNCHANGED bridge
  /\ UNCHANGED <<accounts, nextCommandID, received>>

(* finishLostBluetoothGateway, at once or after the engine's Stop. *)
FinishLost(h) ==
  /\ at[h].pc = "lost"
  /\ gateway' = IF Gen = at[h].gen THEN Ended ELSE gateway
  /\ Done(h)
  /\ UNCHANGED <<bridge, accounts, nextCommandID, received>>

(* removeHandyConnection: the saved connection is removed, whoever owns it. *)
(* If its lease is being ended, whoever ends it will not find it again.     *)
RemoveConnection ==
  /\ gateway' = [gateway EXCEPT !.lease = None, !.stranded = gateway.stopping]
  /\ DisconnectClient(None)
  /\ UNCHANGED <<accounts, at, nextCommandID, received>>

(* handleBluetoothCommands: admission, the long poll, and the reply. *)
PollLeased(h, tab) ==
  /\ Asks(h)
  /\ Current(tab)
  /\ Goto(h, "fetch", Gen, tab)
  /\ UNCHANGED <<bridge, accounts, gateway, nextCommandID, received>>

PollClient(h) == IF at[h].gen = None THEN at[h].tab ELSE at[h].gen

(* A poll's context ends with its lease, or when accounts become required. *)
PollLive(h) ==
  IF at[h].gen = None THEN ~accounts ELSE Gen = at[h].gen /\ gateway.lease.live

(* NextCommands: a poll of the current client keeps the link fresh, takes  *)
(* a batch in order, or returns with nothing.                              *)
NextCommands(h) ==
  /\ at[h].pc = "fetch"
  /\ \/ /\ PollLive(h) /\ link.client = PollClient(h) /\ link.connected
        /\ link' = [link EXCEPT !.overdue = FALSE]
        /\ LET batch == SubSeq(pending, 1, IF Len(pending) < BatchLimit THEN Len(pending) ELSE BatchLimit)
           IN /\ pending' = SubSeq(pending, Len(batch) + 1, Len(pending))
              /\ inflight' = inflight \cup ToSet(batch)
              /\ at' = IF batch = <<>> THEN at
                       ELSE [at EXCEPT ![h].pc = "reply", ![h].took = ToSet(batch)]
        /\ UNCHANGED <<acks, feedback>>
     \/ /\ pending = <<>> \/ ~PollLive(h) \/ link.client # PollClient(h) \/ ~link.connected
        /\ Done(h)
        /\ UNCHANGED bridge
  /\ UNCHANGED <<accounts, gateway, nextCommandID, received>>

(* Mutant: a reply that cannot be written puts its commands back.          *)
PollReplyRequeues(h) ==
  /\ at[h].pc = "reply"
  /\ IF at[h].took \subseteq inflight /\ pending = <<>>
     THEN pending' = SetToSeq(at[h].took) /\ inflight' = inflight \ at[h].took
     ELSE UNCHANGED <<pending, inflight>>
  /\ Done(h)
  /\ UNCHANGED <<link, acks, feedback, accounts, gateway, nextCommandID, received>>

PollReply(h) ==
  /\ at[h].pc = "reply"
  /\ \/ /\ at[h].gen # None => PollLive(h)
        /\ received' = [received EXCEPT ![at[h].tab] = @ \cup at[h].took]
     \/ UNCHANGED received
  /\ Done(h)
  /\ UNCHANGED <<bridge, accounts, gateway, nextCommandID>>

(* handleBluetoothAck, for any command the tab has ever received. *)
AckLocal(h) ==
  /\ Local(h, "ack")
  /\ \E id \in received[at[h].tab], ok \in BOOLEAN :
       Acknowledge(at[h].tab, id, ok)
  /\ Done(h)
  /\ UNCHANGED <<accounts, gateway, nextCommandID, received>>

AckLeased(h, tab) ==
  /\ Asks(h)
  /\ Current(tab)
  /\ \E id \in received[tab], ok \in BOOLEAN :
       Acknowledge(Gen, id, ok)
  /\ UNCHANGED <<accounts, gateway, at, nextCommandID, received>>

-----------------------------------------------------------------------------
RequireAuthentication ==
  /\ ~accounts
  /\ accounts' = TRUE
  /\ UNCHANGED <<bridge, gateway, at, nextCommandID, received>>

LinkGoesStale ==
  /\ link.connected /\ accounts /\ gateway.lease = None
  /\ link' = [link EXCEPT !.overdue = TRUE]
  /\ UNCHANGED <<pending, inflight, acks, feedback, accounts, gateway, at, nextCommandID, received>>

Init ==
  /\ link = [session |-> 0, retired |-> FALSE, client |-> None, connected |-> FALSE,
             overdue |-> FALSE]
  /\ pending = <<>> /\ inflight = {} /\ acks = {}
  /\ feedback = [active |-> FALSE, stream |-> None, command |-> 0, reports |-> 0, playback |-> None]
  /\ accounts = FALSE
  /\ gateway = [lease |-> None, sequence |-> 0, stopping |-> FALSE, stranded |-> FALSE]
  /\ at = [g \in Callers \cup Handlers |-> IF g \in Callers THEN IdleCaller ELSE IdleHandler]
  /\ nextCommandID = 1
  /\ received = [tab \in Tabs |-> {}]

CallerStep(c) ==
  \/ \E path \in Paths, stream \in Streams, bound \in 0 .. link.session : SendCommand(c, path, stream, bound)
  \/ SendAnswered(c) \/ SendGivesUp(c) \/ SendCanceled(c)

LocalStep(h) ==
  \/ \E tab \in Tabs, request \in Requests : Begin(h, tab, request)
  \/ ConnectLocal(h) \/ StatusLocal(h) \/ DisconnectLocal(h) \/ AckLocal(h)

LeasedStep(h) ==
  \/ \E tab \in Tabs :
       RegisterGateway(h, tab) \/ StatusLeased(h, tab) \/ Disconnect(h, tab) \/ PollLeased(h, tab) \/ AckLeased(h, tab)
  \/ DisconnectConfirm(h) \/ DisconnectFinish(h) \/ CheckLifetime(h) \/ FinishLost(h)

Next ==
  \/ \E c \in Callers : CallerStep(c)
  \/ \E h \in Handlers : LocalStep(h) \/ LeasedStep(h) \/ NextCommands(h) \/ PollReply(h)
  \/ RemoveConnection \/ RequireAuthentication \/ LinkGoesStale

Spec == Init /\ [][Next]_vars

-----------------------------------------------------------------------------
(* Properties. *)

(* What the bridge and the gateway hold; the queue keeps its limit.        *)
TypeOK ==
  /\ link.session \in Nat /\ link.client \in Clients \cup {None}
  /\ Len(pending) <= QueueLimit /\ inflight \subseteq 1 .. MaxCommands
  /\ acks \subseteq (1 .. MaxCommands) \X BOOLEAN
  /\ gateway.lease # None => gateway.lease.tab \in Tabs \cup {None}

Waiting == {c \in Callers : at[c].pc = "wait"}

(* A command is only ever with the browser of the session its transport    *)
(* was made for: a reconnected or replaced tab finds nothing that was      *)
(* meant for the connection before it.                                     *)
CommandOfSession ==
  \A c \in Waiting : at[c].id \in inflight \cup ToSet(pending) => at[c].session = link.session

(* Tabs get commands in the order they were sent: nothing still queued is  *)
(* older than a command that was already handed out.                       *)
Handed == inflight \cup UNION {received[tab] : tab \in Tabs}

HandedInOrder ==
  /\ \A p, q \in 1 .. Len(pending) : p < q => pending[p] < pending[q]
  /\ \A id \in Handed, q \in 1 .. Len(pending) : id < pending[q]

(* Reported playback is of the stream that was last fed over the present   *)
(* connection: no delayed report survives or follows a stop, a             *)
(* disconnect or another stream.                                           *)
PlaybackIsLive ==
  feedback.playback # None =>
    /\ link.connected /\ feedback.active
    /\ feedback.playback.stream = feedback.stream

(* A gateway that is being ended, which refuses every other lease, has a   *)
(* goroutine that ends it, whoever else ends or replaces it meanwhile: it  *)
(* is not left behind half ended.  Removing the connection meanwhile is    *)
(* the one exception: nobody resets stopping then.                         *)
StoppingEnds ==
  gateway.stopping =>
    gateway.stranded \/ \E h \in Handlers : at[h].pc \in {"disconnecting", "lost"} /\ at[h].gen = Gen

=============================================================================
