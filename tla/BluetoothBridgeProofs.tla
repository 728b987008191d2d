------------------------ MODULE BluetoothBridgeProofs ------------------------
(***************************************************************************)
(* BluetoothBridge for any number of callers, handlers, tabs and streams,  *)
(* any queue and batch limit.                                              *)
(*                                                                         *)
(* The properties need little beside themselves: the queue is in the order *)
(* of its numbers and later than all that was handed out or is about to be *)
(* in a reply (Ordered, Taken), a link that is down holds nothing          *)
(* (DownInv), and whoever ends a gateway names a lease (Placed).  Most     *)
(* sections under the bridge's mu are alike to them: commands leave all at *)
(* once or stay, and all leave when the session changes (Keeps).  A step   *)
(* of a handler is such a section, a move of that handler (FramesKept),    *)
(* and what it does to the gateway (GatewayKept); KeptInv joins the three. *)
(***************************************************************************)
EXTENDS BluetoothBridge, TLAPS, SequenceTheorems

(* The commands that were given a number.                                  *)
Sent == 1 .. (nextCommandID - 1)

Links     == [session : Nat, retired : BOOLEAN, client : Clients \cup {None}, connected : BOOLEAN, overdue : BOOLEAN]
PlayedBy  == [number : Nat, command : Nat, stream : Streams] \cup {None}
Feedbacks == [active : BOOLEAN, stream : Streams \cup {None}, command : Nat, reports : Nat, playback : PlayedBy]
Leases    == [gen : Int, tab : Tabs \cup {None}, live : BOOLEAN]
Gateways  == [lease : Leases \cup {None}, sequence : Nat, stopping : BOOLEAN, stranded : BOOLEAN]

(* Only an adopted lease, which nobody holds, has no number of its own.     *)
LeaseTyped(lease) == lease # None /\ lease.tab # None => lease.gen \in Nat

CallerFrames  == [pc : {"idle", "wait"}, id : Nat, session : Nat]
HandlerPlaces == {"idle", "connect", "status", "disconnect", "fetch", "ack", "lifetime", "confirm", "disconnecting", "lost", "reply"}
HandlerFrames == [pc : HandlerPlaces, tab : Tabs \cup {None}, gen : Int \cup {None}, took : SUBSET Nat]

QueueTyped ==
  /\ nextCommandID \in 1 .. MaxCommands + 1
  /\ pending \in Seq(Sent) /\ Len(pending) <= QueueLimit
  /\ inflight \subseteq Sent /\ acks \subseteq Sent \X BOOLEAN
  /\ received \in [Tabs -> SUBSET Sent]

Ending == {"disconnecting", "lost"}

Placed(f) ==
  /\ f.pc \in {"confirm"} \cup Ending => f.gen # None
  /\ f.pc \in {"fetch", "reply", "connect", "status", "disconnect", "ack"} => f.tab # None

FramesTyped ==
  /\ at \in [Callers \cup Handlers -> CallerFrames \cup HandlerFrames]
  /\ \A c \in Callers : at[c] \in CallerFrames /\ (at[c].pc = "wait" => at[c].id \in Sent)
  /\ \A h \in Handlers : at[h] \in HandlerFrames /\ at[h].took \subseteq Sent /\ Placed(at[h])

Typed ==
  /\ link \in Links /\ feedback \in Feedbacks /\ accounts \in BOOLEAN
  /\ gateway \in Gateways /\ LeaseTyped(gateway.lease)
  /\ QueueTyped /\ FramesTyped

(* A queue in the order of its numbers, all later than those of S.         *)
Ordered(s, S) ==
  /\ \A p, q \in 1 .. Len(s) : p < q => s[p] < s[q]
  /\ \A id \in S, q \in 1 .. Len(s) : id < s[q]

(* Handed out, or about to be.                                             *)
Taken == Handed \cup UNION {at[h].took : h \in Handlers}

DownInv == ~link.connected => pending = <<>> /\ inflight = {}

IInv == Typed /\ Ordered(pending, Taken) /\ DownInv /\ CommandOfSession /\ PlaybackIsLive /\ StoppingEnds
-----------------------------------------------------------------------------
(* Queues.                                                                 *)

LEMMA ToSetOf ==
  ASSUME NEW S, NEW s \in Seq(S)
  PROVE  /\ ToSet(s) \subseteq S /\ \A q \in 1 .. Len(s) : s[q] \in ToSet(s)
         /\ \A x \in ToSet(s) : \E q \in 1 .. Len(s) : s[q] = x
  BY DEF ToSet

LEMMA OrderedEmpty == ASSUME NEW S PROVE Ordered(<<>>, S) /\ <<>> \in Seq(S) /\ Len(<<>>) = 0 /\ ToSet(<<>>) = {}
  BY DEF Ordered, ToSet

(* Fewer commands are older.                                               *)
LEMMA OrderedFewer ==
  ASSUME NEW s, NEW S, NEW T, T \subseteq S, Ordered(s, S)
  PROVE  Ordered(s, T)
  BY DEF Ordered

LEMMA TailOrdered ==
  ASSUME NEW N \in Nat, NEW s \in Seq(1 .. N), NEW S, Ordered(s, S), s # <<>>
  PROVE  /\ Tail(s) \in Seq(1 .. N) /\ Len(Tail(s)) = Len(s) - 1 /\ Ordered(Tail(s), S)
         /\ ToSet(Tail(s)) \subseteq ToSet(s) /\ Head(s) \in 1 .. N
  <1>1. /\ Tail(s) \in Seq(1 .. N) /\ Len(Tail(s)) = Len(s) - 1 /\ Len(s) \in Nat /\ Head(s) \in 1 .. N
        /\ \A q \in 1 .. Len(Tail(s)) : Tail(s)[q] = s[q + 1]
    BY HeadTailProperties
  <1>2. \A q \in 1 .. Len(Tail(s)) : q + 1 \in 1 .. Len(s)
    BY <1>1
  <1>3. Ordered(Tail(s), S)
    BY <1>1, <1>2 DEF Ordered
  <1>4. ToSet(Tail(s)) \subseteq ToSet(s)
    BY <1>1, <1>2 DEF ToSet
  <1>5. QED
    BY <1>1, <1>3, <1>4

(* A new command is later than all others.                                 *)
LEMMA AppendOrdered ==
  ASSUME NEW N \in Nat, NEW s \in Seq(1 .. N), NEW S, S \subseteq 1 .. N, Ordered(s, S)
  PROVE  /\ Append(s, N + 1) \in Seq(1 .. N + 1) /\ Len(Append(s, N + 1)) = Len(s) + 1
         /\ Ordered(Append(s, N + 1), S) /\ ToSet(Append(s, N + 1)) \subseteq ToSet(s) \cup {N + 1}
  <1> DEFINE t == Append(s, N + 1)
  <1>1. s \in Seq(1 .. N + 1)
    <2>1. 1 .. N \subseteq 1 .. N + 1
      OBVIOUS
    <2>2. QED
      BY <2>1, SeqMonotonic
  <1>2. /\ t \in Seq(1 .. N + 1) /\ Len(t) = Len(s) + 1 /\ t[Len(s) + 1] = N + 1 /\ Len(s) \in Nat
        /\ \A q \in 1 .. Len(s) : t[q] = s[q] /\ s[q] \in 1 .. N
    BY <1>1, AppendProperties
  <1> HIDE DEF t
  <1>3. \A q \in 1 .. Len(t) : (q \in 1 .. Len(s) /\ t[q] = s[q] /\ s[q] \in 1 .. N) \/ (q = Len(s) + 1 /\ t[q] = N + 1)
    BY <1>2
  <1>4. Ordered(t, S)
    <2>1. ASSUME NEW p \in 1 .. Len(t), NEW q \in 1 .. Len(t), p < q
          PROVE  t[p] < t[q]
      <3>1. p \in 1 .. Len(s) /\ t[p] = s[p] /\ s[p] \in 1 .. N
        BY <1>2, <1>3, <2>1
      <3>2. QED
        BY <1>3, <2>1, <3>1 DEF Ordered
    <2>2. ASSUME NEW id \in S, NEW q \in 1 .. Len(t)
          PROVE  id < t[q]
      <3>1. id \in 1 .. N
        OBVIOUS
      <3>2. CASE q \in 1 .. Len(s) /\ t[q] = s[q]
        BY <3>2 DEF Ordered
      <3>3. CASE t[q] = N + 1
        BY <3>1, <3>3
      <3>4. QED
        BY <1>3, <3>2, <3>3
    <2>3. QED
      BY <2>1, <2>2 DEF Ordered
  <1>5. ToSet(t) \subseteq ToSet(s) \cup {N + 1}
    <2>1. DOMAIN t = 1 .. Len(t) /\ DOMAIN s = 1 .. Len(s)
      BY <1>2
    <2>2. QED
      BY <1>3, <2>1 DEF ToSet
  <1>6. QED
    BY <1>2, <1>4, <1>5 DEF t

LEMMA RemoveOrdered ==
  ASSUME NEW N \in Nat, NEW s \in Seq(1 .. N), NEW S, Ordered(s, S), NEW i \in 1 .. Len(s)
  PROVE  /\ RemoveAt(s, i) \in Seq(1 .. N) /\ Len(RemoveAt(s, i)) = Len(s) - 1
         /\ Ordered(RemoveAt(s, i), S) /\ ToSet(RemoveAt(s, i)) \subseteq ToSet(s)
  <1> DEFINE a == SubSeq(s, 1, i - 1)
             b == SubSeq(s, i + 1, Len(s))
             t == a \o b
  <1>1. Len(s) \in Nat /\ i \in Int /\ \A q \in 1 .. Len(s) : s[q] \in 1 .. N
    OBVIOUS
  <1>2. a \in Seq(1 .. N) /\ Len(a) = i - 1 /\ \A q \in 1 .. i - 1 : a[q] = s[q]
    BY <1>1, SubSeqProperties
  <1>3. b \in Seq(1 .. N) /\ Len(b) = Len(s) - i /\ \A q \in 1 .. Len(s) - i : b[q] = s[i + q]
    BY <1>1, SubSeqProperties
  <1> HIDE DEF a, b
  <1>4. /\ t \in Seq(1 .. N) /\ Len(t) = Len(s) - 1
        /\ \A q \in 1 .. Len(s) - 1 : t[q] = IF q <= i - 1 THEN a[q] ELSE b[q - (i - 1)]
    <2>1. /\ t \in Seq(1 .. N) /\ Len(t) = Len(a) + Len(b)
          /\ \A q \in 1 .. Len(a) + Len(b) : t[q] = IF q <= Len(a) THEN a[q] ELSE b[q - Len(a)]
      BY <1>2, <1>3, ConcatProperties
    <2>2. Len(a) + Len(b) = Len(s) - 1
      BY <1>1, <1>2, <1>3
    <2>3. QED
      BY <1>2, <2>1, <2>2
  <1> HIDE DEF t
  <1>5. ASSUME NEW q \in 1 .. Len(t)
        PROVE  /\ t[q] = (IF q <= i - 1 THEN s[q] ELSE s[q + 1])
               /\ q \in 1 .. Len(s) /\ q + 1 \in 1 .. Len(s)
    <2>1. q \in 1 .. Len(s) - 1 /\ t[q] = IF q <= i - 1 THEN a[q] ELSE b[q - (i - 1)]
      BY <1>4
    <2>2. q \in Int /\ 1 <= q /\ q <= Len(s) - 1 /\ q \in 1 .. Len(s) /\ q + 1 \in 1 .. Len(s)
      BY <1>1, <2>1
    <2>3. CASE q <= i - 1
      BY <1>1, <1>2, <2>1, <2>2, <2>3
    <2>4. CASE ~(q <= i - 1)
      <3>1. q - (i - 1) \in 1 .. Len(s) - i /\ i + (q - (i - 1)) = q + 1
        BY <1>1, <2>2, <2>4
      <3>2. b[q - (i - 1)] = s[i + (q - (i - 1))]
        BY <1>3, <3>1
      <3>3. QED
        BY <2>1, <2>2, <2>4, <3>1, <3>2
    <2>5. QED
      BY <2>3, <2>4
  <1>6. Ordered(t, S)
    <2>1. ASSUME NEW p \in 1 .. Len(t), NEW q \in 1 .. Len(t), p < q
          PROVE  t[p] < t[q]
      <3>1. \A x, y \in 1 .. Len(s) : x < y => s[x] < s[y]
        BY DEF Ordered
      <3>2. PICK x \in {p, p + 1} : x \in 1 .. Len(s) /\ t[p] = s[x] /\ (p <= i - 1 => x = p)
        BY <1>5
      <3>3. PICK y \in {q, q + 1} : y \in 1 .. Len(s) /\ t[q] = s[y] /\ (~(q <= i - 1) => y = q + 1)
        BY <1>5
      <3>4. x < y
        <4>1. p \in Int /\ q \in Int /\ i \in Int
          BY <1>1, <1>4
        <4>2. CASE q <= i - 1
          BY <2>1, <3>2, <3>3, <4>1, <4>2
        <4>3. CASE ~(q <= i - 1)
          BY <2>1, <3>2, <3>3, <4>1, <4>3
        <4>4. QED
          BY <4>2, <4>3
      <3>5. QED
        BY <3>1, <3>2, <3>3, <3>4
    <2>2. ASSUME NEW id \in S, NEW q \in 1 .. Len(t)
          PROVE  id < t[q]
      <3>1. PICK y \in 1 .. Len(s) : t[q] = s[y]
        BY <1>5
      <3>2. QED
        BY <3>1 DEF Ordered
    <2>3. QED
      BY <2>1, <2>2 DEF Ordered
  <1>7. ToSet(t) \subseteq ToSet(s)
    <2>1. DOMAIN t = 1 .. Len(t) /\ DOMAIN s = 1 .. Len(s)
      BY <1>4
    <2>2. \A q \in 1 .. Len(t) : \E y \in 1 .. Len(s) : t[q] = s[y]
      BY <1>5
    <2>3. QED
      BY <2>1, <2>2 DEF ToSet
  <1>8. RemoveAt(s, i) = t
    BY DEF RemoveAt, t, a, b
  <1>9. QED
    BY <1>4, <1>6, <1>7, <1>8

(* A batch is taken: what stays is later.                                  *)
LEMMA BatchOrdered ==
  ASSUME NEW N \in Nat, NEW s \in Seq(1 .. N), NEW S, Ordered(s, S), NEW n \in 0 .. Len(s)
  PROVE  /\ SubSeq(s, 1, n) \in Seq(1 .. N) /\ Len(SubSeq(s, 1, n)) = n
         /\ SubSeq(s, n + 1, Len(s)) \in Seq(1 .. N) /\ Len(SubSeq(s, n + 1, Len(s))) = Len(s) - n
         /\ Ordered(SubSeq(s, n + 1, Len(s)), S \cup ToSet(SubSeq(s, 1, n)))
         /\ ToSet(SubSeq(s, 1, n)) \subseteq ToSet(s) /\ ToSet(SubSeq(s, n + 1, Len(s))) \subseteq ToSet(s)
  <1> DEFINE a == SubSeq(s, 1, n)
             b == SubSeq(s, n + 1, Len(s))
  <1>1. Len(s) \in Nat /\ n \in Int /\ \A q \in 1 .. Len(s) : s[q] \in 1 .. N
    OBVIOUS
  <1>2. a \in Seq(1 .. N) /\ Len(a) = n /\ \A q \in 1 .. n : a[q] = s[q]
    BY <1>1, SubSeqProperties
  <1>3. b \in Seq(1 .. N) /\ Len(b) = Len(s) - n /\ \A q \in 1 .. Len(s) - n : b[q] = s[n + q]
    BY <1>1, SubSeqProperties
  <1> HIDE DEF a, b
  <1>4. \A q \in 1 .. Len(b) : n + q \in 1 .. Len(s) /\ \A p \in 1 .. Len(a) : p \in 1 .. Len(s) /\ p < n + q
    BY <1>1, <1>2, <1>3
  <1>5. Ordered(b, S)
    <2>1. ASSUME NEW p \in 1 .. Len(b), NEW q \in 1 .. Len(b), p < q
          PROVE  b[p] < b[q]
      <3>1. b[p] = s[n + p] /\ b[q] = s[n + q]
        BY <1>3
      <3>2. n + p \in 1 .. Len(s) /\ n + q \in 1 .. Len(s)
        BY <1>4
      <3>3. n + p < n + q
        <4>1. n \in Int /\ Len(b) \in Int
          BY <1>1, <1>3
        <4>2. QED
          BY <2>1, <4>1
      <3>4. QED
        BY <3>1, <3>2, <3>3 DEF Ordered
    <2>2. ASSUME NEW id \in S, NEW q \in 1 .. Len(b)
          PROVE  id < b[q]
      <3>1. b[q] = s[n + q] /\ n + q \in 1 .. Len(s)
        BY <1>3, <1>4
      <3>2. QED
        BY <3>1 DEF Ordered
    <2>3. QED
      BY <2>1, <2>2 DEF Ordered
  <1>6. DOMAIN a = 1 .. Len(a) /\ DOMAIN b = 1 .. Len(b) /\ DOMAIN s = 1 .. Len(s)
    BY <1>2, <1>3
  <1>7. Ordered(b, S \cup ToSet(a))
    <2>1. ASSUME NEW p \in 1 .. Len(a), NEW q \in 1 .. Len(b)
          PROVE  a[p] < b[q]
      <3>1. a[p] = s[p] /\ b[q] = s[n + q] /\ p \in 1 .. Len(s) /\ n + q \in 1 .. Len(s) /\ p < n + q
        BY <1>2, <1>3, <1>4
      <3>2. QED
        BY <3>1 DEF Ordered
    <2>2. \A x \in ToSet(a), q \in 1 .. Len(b) : x < b[q]
      BY <1>6, <2>1 DEF ToSet
    <2>3. QED
      BY <1>5, <2>2 DEF Ordered
  <1>8. ToSet(a) \subseteq ToSet(s)
    <2>1. \A p \in 1 .. Len(a) : a[p] = s[p] /\ p \in 1 .. Len(s)
      BY <1>1, <1>2
    <2>2. QED
      BY <1>6, <2>1 DEF ToSet
  <1>9. ToSet(b) \subseteq ToSet(s)
    <2>1. \A q \in 1 .. Len(b) : b[q] = s[n + q] /\ n + q \in 1 .. Len(s)
      BY <1>3, <1>4
    <2>2. QED
      BY <1>6, <2>1 DEF ToSet
  <1>10. QED
    BY <1>2, <1>3, <1>7, <1>8, <1>9 DEF a, b
-----------------------------------------------------------------------------
(* Sections under the bridge's mu.                                         *)

LEMMA Facts ==
  ASSUME Typed
  PROVE  /\ nextCommandID \in Nat /\ nextCommandID >= 1 /\ Sent \subseteq Nat /\ None \notin Tabs \cup Int
         /\ pending \in Seq(Sent) /\ inflight \subseteq Sent /\ acks \subseteq Sent \X BOOLEAN /\ ToSet(pending) \subseteq Sent
         /\ link \in Links /\ feedback \in Feedbacks /\ gateway \in Gateways
         /\ \A tab \in Tabs : received[tab] \subseteq Sent
         /\ \A h \in Handlers : at[h] \in HandlerFrames /\ at[h].took \subseteq Sent /\ Placed(at[h])
  <1>1. MaxCommands \in Nat /\ None \notin Tabs \cup Int
    BY BridgeAssumption
  <1>2. nextCommandID \in Nat /\ nextCommandID >= 1 /\ Sent \subseteq Nat
    BY <1>1 DEF Typed, QueueTyped, Sent
  <1>3. pending \in Seq(Sent) /\ ToSet(pending) \subseteq Sent
    BY ToSetOf DEF Typed, QueueTyped
  <1>4. QED
    BY <1>1, <1>2, <1>3 DEF Typed, QueueTyped, FramesTyped

(* What a section keeps: commands leave in order or all at once, and they   *)
(* do when the session changes or the link is down.                          *)
Keeps ==
  /\ link' \in Links /\ feedback' \in Feedbacks
  /\ (pending' = pending /\ inflight' \subseteq inflight) \/ (pending' = <<>> /\ inflight' = {})
  /\ acks' \subseteq Sent \X BOOLEAN
  /\ link'.session = link.session \/ (pending' = <<>> /\ inflight' = {})
  /\ DownInv' /\ PlaybackIsLive'

LEMMA SameKeeps == Typed /\ DownInv /\ PlaybackIsLive /\ UNCHANGED bridge => Keeps
  BY Facts DEF bridge, Keeps, DownInv, PlaybackIsLive

LEMMA FailAllKeeps ==
  ASSUME Typed, FailAll
  PROVE  pending' = <<>> /\ inflight' = {} /\ acks' \subseteq Sent \X BOOLEAN
  <1>1. inflight \cup ToSet(pending) \subseteq Sent /\ acks \subseteq Sent \X BOOLEAN
    BY Facts
  <1>2. Failures(inflight \cup ToSet(pending)) \subseteq Sent \X BOOLEAN
    <2>1. ASSUME NEW id \in inflight \cup ToSet(pending)
          PROVE  <<id, FALSE>> \in Sent \X BOOLEAN
      <3>1. id \in Sent /\ FALSE \in BOOLEAN
        BY <1>1
      <3>2. QED
        BY <3>1
    <2>2. QED
      BY <2>1 DEF Failures
  <1>3. QED
    BY <1>1, <1>2 DEF FailAll

LEMMA SilentTyped ==
  ASSUME Typed
  PROVE  Silent \in Feedbacks /\ Silent.playback = None /\ Silent.reports = feedback.reports
         /\ \A n \in Nat : [Silent EXCEPT !.reports = n] \in Feedbacks /\ [Silent EXCEPT !.reports = n].playback = None
  BY Facts DEF Silent, Feedbacks, PlayedBy

LEMMA ConnectKeeps ==
  ASSUME Typed, NEW client \in Clients, ConnectClient(client)
  PROVE  Keeps
  <1>1. pending' = <<>> /\ inflight' = {} /\ acks' \subseteq Sent \X BOOLEAN
    BY FailAllKeeps DEF ConnectClient
  <1>2. link' \in Links
    BY Facts DEF ConnectClient, Links
  <1>3. feedback' \in Feedbacks /\ feedback'.playback = None
    BY SilentTyped DEF ConnectClient
  <1>4. QED
    BY <1>1, <1>2, <1>3 DEF Keeps, DownInv, PlaybackIsLive

LEMMA DisconnectKeeps ==
  ASSUME Typed, DownInv, PlaybackIsLive, NEW client, DisconnectClient(client)
  PROVE  Keeps
  <1>1. CASE UNCHANGED bridge
    BY <1>1, SameKeeps
  <1>2. CASE ~UNCHANGED bridge
    <2>1. /\ FailAll /\ feedback' = Silent
          /\ link' = [link EXCEPT !.session = @ + 1, !.retired = TRUE, !.connected = FALSE, !.overdue = FALSE]
      BY <1>2 DEF DisconnectClient
    <2>2. pending' = <<>> /\ inflight' = {} /\ acks' \subseteq Sent \X BOOLEAN
      BY <2>1, FailAllKeeps
    <2>3. link' \in Links
      <3>1. link \in Links
        BY Facts
      <3>2. link.session + 1 \in Nat /\ TRUE \in BOOLEAN /\ FALSE \in BOOLEAN
        BY <3>1 DEF Links
      <3>3. QED
        BY <2>1, <3>1, <3>2 DEF Links
    <2>4. feedback' \in Feedbacks /\ feedback'.playback = None
      BY <2>1, SilentTyped
    <2>5. QED
      BY <2>2, <2>3, <2>4 DEF Keeps, DownInv, PlaybackIsLive
  <1>3. QED
    BY <1>1, <1>2

LEMMA AcceptKeeps ==
  ASSUME Typed, NEW report \in PlayedBy
  PROVE  /\ AcceptPlayback(report) \in Feedbacks
         /\ \/ AcceptPlayback(report) = feedback
            \/ /\ AcceptPlayback(report).active
               /\ AcceptPlayback(report).playback = None
                  \/ AcceptPlayback(report).playback.stream = AcceptPlayback(report).stream
  <1>1. feedback \in Feedbacks
    BY Facts
  <1>2. CASE report # None /\ Accepted(report)
    <2>1. AcceptPlayback(report) = [feedback EXCEPT !.reports = report.number, !.playback = report]
      BY <1>2 DEF AcceptPlayback
    <2>2. report \in [number : Nat, command : Nat, stream : Streams]
      BY <1>2 DEF PlayedBy
    <2>3. /\ AcceptPlayback(report) \in Feedbacks /\ AcceptPlayback(report).active = feedback.active
          /\ AcceptPlayback(report).playback = report /\ AcceptPlayback(report).stream = feedback.stream
      BY <1>1, <2>1, <2>2 DEF Feedbacks
    <2>4. feedback.active /\ report.stream = feedback.stream
      BY <1>2 DEF Accepted
    <2>5. QED
      BY <2>3, <2>4
  <1>3. CASE ~(report # None /\ Accepted(report))
    BY <1>1, <1>3 DEF AcceptPlayback
  <1>4. QED
    BY <1>2, <1>3

LEMMA UpdateKeeps ==
  ASSUME Typed, DownInv, PlaybackIsLive, NEW client \in Clients \cup {None}, NEW connected \in BOOLEAN,
         NEW report \in PlayedBy, UpdateClient(client, connected, report)
  PROVE  Keeps
  <1>1. CASE link.retired \/ (client # None /\ link.client \notin {None, client} /\ link.connected)
    BY <1>1, SameKeeps DEF UpdateClient
  <1>2. CASE ~(link.retired \/ (client # None /\ link.client \notin {None, client} /\ link.connected))
    <2>1. /\ link' = [link EXCEPT !.client = IF client = None THEN @ ELSE client,
                               !.session = IF connected = link.connected THEN @ ELSE @ + 1,
                               !.connected = connected, !.overdue = FALSE]
          /\ IF connected
             THEN /\ feedback' = IF client = None THEN feedback ELSE AcceptPlayback(report)
                  /\ UNCHANGED <<pending, inflight, acks>>
             ELSE feedback' = Silent /\ FailAll
      BY <1>2 DEF UpdateClient
    <2>2. link \in Links
      BY Facts
    <2>3. link' \in Links /\ link'.connected = connected /\ (connected = link.connected => link'.session = link.session)
      <3>1. PICK who \in Clients \cup {None} : who = IF client = None THEN link.client ELSE client
        BY <2>2 DEF Links
      <3>2. PICK n \in Nat : n = (IF connected = link.connected THEN link.session ELSE link.session + 1)
        BY <2>2 DEF Links
      <3>3. link' = [link EXCEPT !.client = who, !.session = n, !.connected = connected, !.overdue = FALSE]
        BY <2>1, <3>1, <3>2
      <3>4. FALSE \in BOOLEAN
        OBVIOUS
      <3>5. link' \in Links /\ link'.connected = connected /\ link'.session = n
        BY <2>2, <3>3, <3>4 DEF Links
      <3>6. QED
        BY <3>2, <3>5
    <2>4. CASE connected
      <3>1. /\ pending' = pending /\ inflight' = inflight /\ acks' = acks
            /\ feedback' \in {feedback, AcceptPlayback(report)}
        BY <2>1, <2>4
      <3>2. feedback' \in Feedbacks
        BY <3>1, AcceptKeeps, Facts
      <3>3. PlaybackIsLive'
        BY <2>3, <2>4, <3>1, AcceptKeeps DEF PlaybackIsLive
      <3>4. link'.session = link.session \/ (pending = <<>> /\ inflight = {})
        <4>1. link.connected \in BOOLEAN
          BY <2>2 DEF Links
        <4>2. QED
          BY <2>3, <2>4, <4>1 DEF DownInv
      <3>5. acks' \subseteq Sent \X BOOLEAN
        BY <3>1, Facts
      <3>6. QED
        BY <2>3, <2>4, <3>1, <3>2, <3>3, <3>4, <3>5 DEF Keeps, DownInv
    <2>5. CASE ~connected
      <3>1. pending' = <<>> /\ inflight' = {} /\ acks' \subseteq Sent \X BOOLEAN
        BY <2>1, <2>5, FailAllKeeps
      <3>2. feedback' \in Feedbacks /\ feedback'.playback = None
        BY <2>1, <2>5, SilentTyped
      <3>3. QED
        BY <2>3, <3>1, <3>2 DEF Keeps, DownInv, PlaybackIsLive
    <2>6. QED
      BY <2>4, <2>5
  <1>3. QED
    BY <1>1, <1>2

LEMMA AcknowledgeKeeps ==
  ASSUME Typed, DownInv, PlaybackIsLive, NEW client, NEW id, NEW ok \in BOOLEAN, Acknowledge(client, id, ok)
  PROVE  Keeps
  <1>1. CASE link.client # client \/ id \notin inflight
    BY <1>1, SameKeeps DEF Acknowledge
  <1>2. CASE ~(link.client # client \/ id \notin inflight)
    <2>1. /\ id \in inflight /\ inflight' = inflight \ {id} /\ acks' = acks \cup {<<id, ok>>}
          /\ link' = [link EXCEPT !.overdue = FALSE] /\ pending' = pending /\ feedback' = feedback
      BY <1>2 DEF Acknowledge
    <2>2. link \in Links /\ feedback \in Feedbacks /\ inflight \subseteq Sent /\ acks \subseteq Sent \X BOOLEAN
      BY Facts
    <2>3. link' \in Links /\ link'.session = link.session /\ link'.connected = link.connected
      BY <2>1, <2>2 DEF Links
    <2>4. acks' \subseteq Sent \X BOOLEAN /\ inflight' \subseteq inflight
      BY <2>1, <2>2
    <2>5. DownInv' /\ PlaybackIsLive'
      BY <2>1, <2>3, <2>4 DEF DownInv, PlaybackIsLive
    <2>6. QED
      BY <2>1, <2>2, <2>3, <2>4, <2>5 DEF Keeps
  <1>3. QED
    BY <1>1, <1>2
-----------------------------------------------------------------------------
(* Where handlers stand.                                                   *)

(* Handlers go on to proper places and hold no commands they did not hold. *)
FramesKept ==
  /\ at' \in [Callers \cup Handlers -> CallerFrames \cup HandlerFrames]
  /\ \A c \in Callers : at'[c] = at[c]
  /\ \A h \in Handlers : at'[h] \in HandlerFrames /\ at'[h].took \subseteq at[h].took /\ Placed(at'[h])

(* Only h moves. *)
Moves(h) == at' \in [Callers \cup Handlers -> CallerFrames \cup HandlerFrames] /\ \A g \in Callers \cup Handlers : g # h => at'[g] = at[g]

LEMMA SameFrames == Typed /\ at' = at => FramesKept
  BY DEF Typed, FramesTyped, FramesKept

LEMMA HandlerStep ==
  ASSUME Typed, NEW h \in Handlers, NEW f \in HandlerFrames, f.took \subseteq at[h].took, Placed(f),
         at' = [at EXCEPT ![h] = f]
  PROVE  FramesKept /\ Moves(h) /\ at'[h] = f
  <1>1. at \in [Callers \cup Handlers -> CallerFrames \cup HandlerFrames] /\ h \notin Callers
    BY BridgeAssumption DEF Typed, FramesTyped
  <1>2. at' \in [Callers \cup Handlers -> CallerFrames \cup HandlerFrames] /\ at'[h] = f
        /\ \A g \in Callers \cup Handlers : g # h => at'[g] = at[g]
    BY <1>1
  <1>3. \A g \in Handlers : at[g] \in HandlerFrames /\ Placed(at[g])
    BY DEF Typed, FramesTyped
  <1>4. QED
    BY <1>1, <1>2, <1>3 DEF FramesKept, Moves

LEMMA GotoStep ==
  ASSUME Typed, NEW h \in Handlers, NEW pc \in HandlerPlaces \ {"reply"}, NEW gen \in Int \cup {None}, NEW tab \in Tabs \cup {None},
         pc \in {"confirm"} \cup Ending => gen # None,
         pc \in {"fetch", "connect", "status", "disconnect", "ack"} => tab # None,
         at' = [at EXCEPT ![h] = [IdleHandler EXCEPT !.pc = pc, !.gen = gen, !.tab = tab]]
  PROVE  FramesKept /\ Moves(h) /\ at'[h].pc = pc /\ at'[h].gen = gen
  <1> DEFINE f == [IdleHandler EXCEPT !.pc = pc, !.gen = gen, !.tab = tab]
  <1>1. f \in HandlerFrames /\ f.took = {} /\ f.pc = pc /\ f.gen = gen /\ f.tab = tab
    BY DEF HandlerFrames, IdleHandler
  <1>2. at' = [at EXCEPT ![h] = f]
    OBVIOUS
  <1> HIDE DEF f
  <1>3. Placed(f) /\ f.took \subseteq at[h].took
    BY <1>1 DEF Placed
  <1>4. FramesKept /\ Moves(h) /\ at'[h] = f
    BY <1>1, <1>2, <1>3, HandlerStep
  <1>5. QED
    BY <1>1, <1>4

LEMMA DoneStep ==
  ASSUME Typed, NEW h \in Handlers, Done(h)
  PROVE  FramesKept /\ Moves(h)
  <1>1. IdleHandler \in HandlerFrames /\ IdleHandler.took = {} /\ Placed(IdleHandler)
    BY DEF IdleHandler, HandlerFrames, HandlerPlaces, Placed, Ending
  <1>2. at' = [at EXCEPT ![h] = IdleHandler]
    BY DEF Done
  <1> HIDE DEF IdleHandler
  <1>3. IdleHandler.took \subseteq at[h].took
    BY <1>1
  <1>4. QED
    BY <1>1, <1>2, <1>3, HandlerStep

-----------------------------------------------------------------------------
(* The gateway and those who end it.                                       *)

LEMMA GenTyped ==
  ASSUME Typed
  PROVE  /\ Gen \in Int \cup {None} /\ (gateway.lease # None => Gen \in Int /\ Gen # None /\ Gen = gateway.lease.gen)
         /\ (gateway.lease = None => Gen = None)
         /\ \A tab \in Tabs : gateway.lease # None /\ gateway.lease.tab = tab => Gen \in Nat
  <1>1. gateway \in Gateways /\ LeaseTyped(gateway.lease) /\ None \notin Tabs \cup Int
    BY BridgeAssumption DEF Typed
  <1>2. gateway.lease \in Leases \cup {None}
    BY <1>1 DEF Gateways
  <1>3. gateway.lease # None => gateway.lease.gen \in Int
    BY <1>2 DEF Leases
  <1>4. QED
    BY <1>1, <1>3 DEF Gen, LeaseTyped

(* Whoever ends the gateway still does unless the lease is replaced.       *)
LEMMA StoppingStays ==
  ASSUME StoppingEnds, gateway'.stopping => gateway.stopping, gateway.stranded => gateway'.stranded,
         Gen' = Gen, \A h \in Handlers : at[h].pc \in Ending /\ at[h].gen = Gen => at'[h] = at[h]
  PROVE  StoppingEnds'
  BY DEF StoppingEnds, Ending

LEMMA MoverIsNoEnder ==
  ASSUME StoppingEnds, NEW h \in Handlers, Moves(h), at[h].pc \notin Ending \/ at[h].gen # Gen,
         gateway'.stopping => gateway.stopping, gateway.stranded => gateway'.stranded, Gen' = Gen
  PROVE  StoppingEnds'
  <1>1. \A g \in Handlers : at[g].pc \in Ending /\ at[g].gen = Gen => at'[g] = at[g]
    BY DEF Moves
  <1>2. QED
    BY <1>1, StoppingStays

-----------------------------------------------------------------------------
(* A step that keeps the queue, the frames and the gateway's enders.        *)

GatewayKept == gateway' \in Gateways /\ LeaseTyped(gateway'.lease) /\ StoppingEnds'

LEMMA SameGateway ==
  ASSUME IInv, gateway' = gateway, StoppingEnds' PROVE GatewayKept
  BY DEF GatewayKept, IInv, Typed

LEMMA KeptInv ==
  ASSUME IInv, Keeps, FramesKept, GatewayKept, accounts' \in BOOLEAN, nextCommandID' = nextCommandID, received' = received
  PROVE  IInv'
  <1>1. Typed /\ Ordered(pending, Taken) /\ CommandOfSession
    BY DEF IInv
  <1>2. Sent' = Sent
    BY DEF Sent
  <1>3. Typed'
    <2>1. pending' \in Seq(Sent) /\ Len(pending') <= QueueLimit /\ inflight' \subseteq Sent
      <3>1. CASE pending' = pending /\ inflight' \subseteq inflight
        BY <1>1, <3>1 DEF Typed, QueueTyped
      <3>2. CASE pending' = <<>> /\ inflight' = {}
        <4>1. <<>> \in Seq(Sent) /\ Len(<<>>) = 0 /\ QueueLimit \in Nat
          BY BridgeAssumption, OrderedEmpty
        <4>2. QED
          BY <3>2, <4>1
      <3>3. QED
        BY <3>1, <3>2 DEF Keeps
    <2>2. QueueTyped'
      BY <1>1, <1>2, <2>1 DEF Typed, QueueTyped, Keeps
    <2>3. FramesTyped'
      BY <1>1, <1>2 DEF Typed, FramesTyped, FramesKept
    <2>4. link' \in Links /\ feedback' \in Feedbacks /\ gateway' \in Gateways /\ LeaseTyped(gateway'.lease)
      BY DEF Keeps, GatewayKept
    <2>5. QED
      BY <2>2, <2>3, <2>4 DEF Typed
  <1>4. inflight' \subseteq inflight /\ ToSet(pending') \subseteq ToSet(pending)
    BY OrderedEmpty DEF Keeps
  <1>5. Taken' \subseteq Taken
    <2>1. UNION {received'[tab] : tab \in Tabs} = UNION {received[tab] : tab \in Tabs}
      OBVIOUS
    <2>2. UNION {at'[h].took : h \in Handlers} \subseteq UNION {at[h].took : h \in Handlers}
      BY DEF FramesKept
    <2>3. QED
      BY <1>4, <2>1, <2>2 DEF Taken, Handed
  <1>6. Ordered(pending, Taken)'
    <2>1. CASE pending' = pending
      BY <1>1, <1>5, <2>1, OrderedFewer
    <2>2. CASE pending' = <<>>
      BY <2>2, OrderedEmpty
    <2>3. QED
      BY <2>1, <2>2 DEF Keeps
  <1>7. CommandOfSession'
    <2>1. Waiting' = Waiting /\ \A c \in Callers : at'[c] = at[c]
      BY DEF Waiting, FramesKept
    <2>2. Waiting \subseteq Callers
      BY DEF Waiting
    <2>3. CASE link'.session = link.session
      BY <1>1, <1>4, <2>1, <2>2, <2>3 DEF CommandOfSession
    <2>4. CASE pending' = <<>> /\ inflight' = {}
      BY <2>4, OrderedEmpty DEF CommandOfSession
    <2>5. QED
      BY <2>3, <2>4 DEF Keeps
  <1>8. QED
    BY <1>3, <1>6, <1>7 DEF IInv, Keeps, GatewayKept
-----------------------------------------------------------------------------
(* Requests and lifetime checks.                                           *)

(* The facts every step starts from. *)
LEMMA Start ==
  ASSUME IInv
  PROVE  Typed /\ DownInv /\ PlaybackIsLive /\ StoppingEnds /\ accounts \in BOOLEAN
  BY DEF IInv, Typed

(* A request that leaves the gateway as it is, of a handler that ends none. *)
LEMMA RequestInv ==
  ASSUME IInv, NEW h \in Handlers, Keeps, FramesKept, at' = at \/ (Moves(h) /\ at[h].pc \notin Ending),
         gateway' = gateway, accounts' = accounts, nextCommandID' = nextCommandID, received' = received
  PROVE  IInv'
  <1>1. Gen' = Gen
    BY DEF Gen
  <1>2. StoppingEnds'
    <2>1. CASE at' = at
      BY <1>1, <2>1, Start, StoppingStays
    <2>2. CASE Moves(h) /\ at[h].pc \notin Ending
      BY <1>1, <2>2, Start, MoverIsNoEnder
    <2>3. QED
      BY <2>1, <2>2
  <1>3. QED
    BY <1>2, Start, SameGateway, KeptInv

LEMMA BeginStep ==
  ASSUME IInv, NEW h \in Handlers, NEW tab \in Tabs, NEW request \in Requests, Begin(h, tab, request)
  PROVE  IInv'
  <1>1. Typed /\ None \notin Tabs
    BY Start, BridgeAssumption
  <1>2. /\ at[h].pc = "idle" /\ gateway' = gateway /\ UNCHANGED bridge /\ accounts' = accounts
        /\ nextCommandID' = nextCommandID /\ received' = received
        /\ at' = [at EXCEPT ![h] = [IdleHandler EXCEPT !.pc = request, !.tab = tab]]
    BY DEF Begin
  <1> DEFINE f == [IdleHandler EXCEPT !.pc = request, !.tab = tab]
  <1>3. request \in HandlerPlaces /\ request \notin {"confirm"} \cup Ending
    BY DEF Requests, HandlerPlaces, Ending
  <1>4. f \in HandlerFrames /\ f.took = {} /\ f.pc = request /\ f.tab = tab
    BY <1>3 DEF HandlerFrames, IdleHandler
  <1>5. at' = [at EXCEPT ![h] = f]
    BY <1>2
  <1> HIDE DEF f
  <1>6. FramesKept /\ Moves(h)
    <2>1. Placed(f) /\ f.took \subseteq at[h].took
      BY <1>1, <1>3, <1>4 DEF Placed
    <2>2. QED
      BY <1>1, <1>4, <1>5, <2>1, HandlerStep
  <1>7. Keeps
    BY <1>2, Start, SameKeeps
  <1>8. at[h].pc \notin Ending
    BY <1>2 DEF Ending
  <1>9. QED
    BY <1>2, <1>6, <1>7, <1>8, RequestInv

LEMMA LocalTab ==
  ASSUME Typed, NEW h \in Handlers, at[h].pc \in {"connect", "status", "disconnect", "ack", "fetch", "reply"}
  PROVE  at[h].tab \in Tabs /\ at[h].tab \in Clients
  BY Facts DEF Placed, HandlerFrames, Clients

LEMMA ConnectLocalStep ==
  ASSUME IInv, NEW h \in Handlers, ConnectLocal(h) PROVE IInv'
  <1>1. /\ at[h].pc = "connect" /\ ConnectClient(at[h].tab) /\ Done(h) /\ gateway' = gateway /\ accounts' = accounts
        /\ nextCommandID' = nextCommandID /\ received' = received
    BY DEF ConnectLocal, Local
  <1>2. at[h].pc \notin Ending /\ at[h].tab \in Clients
    BY <1>1, Start, LocalTab DEF Ending
  <1>3. Keeps /\ FramesKept /\ Moves(h)
    BY <1>1, <1>2, Start, ConnectKeeps, DoneStep
  <1>4. QED
    BY <1>1, <1>2, <1>3, RequestInv

LEMMA ReportsTyped ==
  ASSUME Typed, NEW tab \in Tabs
  PROVE  Reports(tab) \subseteq PlayedBy
  <1>1. received[tab] \subseteq Nat /\ 1 .. MaxReports \subseteq Nat
    BY Facts, BridgeAssumption
  <1>2. QED
    BY <1>1 DEF Reports, PlayedBy

LEMMA StatusLocalStep ==
  ASSUME IInv, NEW h \in Handlers, StatusLocal(h) PROVE IInv'
  <1>1. /\ at[h].pc = "status" /\ Done(h) /\ gateway' = gateway /\ accounts' = accounts
        /\ nextCommandID' = nextCommandID /\ received' = received
    BY DEF StatusLocal, Local
  <1>2. at[h].pc \notin Ending /\ at[h].tab \in Clients /\ at[h].tab \in Tabs
    BY <1>1, Start, LocalTab DEF Ending
  <1>3. PICK connected \in BOOLEAN, report \in Reports(at[h].tab), client \in {at[h].tab, None} :
          UpdateClient(client, connected, report)
    BY DEF StatusLocal
  <1>4. report \in PlayedBy /\ client \in Clients \cup {None}
    BY <1>2, <1>3, Start, ReportsTyped
  <1>5. Keeps
    BY <1>3, <1>4, Start, UpdateKeeps
  <1>6. FramesKept /\ Moves(h)
    BY <1>1, Start, DoneStep
  <1>7. QED
    BY <1>1, <1>2, <1>5, <1>6, RequestInv

LEMMA DisconnectLocalStep ==
  ASSUME IInv, NEW h \in Handlers, DisconnectLocal(h) PROVE IInv'
  <1>1. /\ at[h].pc = "disconnect" /\ DisconnectClient(at[h].tab) /\ Done(h) /\ gateway' = gateway /\ accounts' = accounts
        /\ nextCommandID' = nextCommandID /\ received' = received
    BY DEF DisconnectLocal, Local
  <1>2. at[h].pc \notin Ending
    BY <1>1 DEF Ending
  <1>3. Keeps /\ FramesKept /\ Moves(h)
    BY <1>1, Start, DisconnectKeeps, DoneStep
  <1>4. QED
    BY <1>1, <1>2, <1>3, RequestInv

LEMMA AckLocalStep ==
  ASSUME IInv, NEW h \in Handlers, AckLocal(h) PROVE IInv'
  <1>1. /\ at[h].pc = "ack" /\ Done(h) /\ gateway' = gateway /\ accounts' = accounts
        /\ nextCommandID' = nextCommandID /\ received' = received
    BY DEF AckLocal, Local
  <1>2. PICK id \in received[at[h].tab], ok \in BOOLEAN : Acknowledge(at[h].tab, id, ok)
    BY DEF AckLocal
  <1>3. at[h].pc \notin Ending
    BY <1>1 DEF Ending
  <1>4. Keeps
    BY <1>2, Start, AcknowledgeKeeps
  <1>5. FramesKept /\ Moves(h)
    BY <1>1, Start, DoneStep
  <1>6. QED
    BY <1>1, <1>3, <1>4, <1>5, RequestInv

LEMMA AckLeasedStep ==
  ASSUME IInv, NEW h \in Handlers, NEW tab \in Tabs, AckLeased(h, tab) PROVE IInv'
  <1>1. at' = at /\ gateway' = gateway /\ accounts' = accounts /\ nextCommandID' = nextCommandID /\ received' = received
    BY DEF AckLeased
  <1>2. PICK id \in received[tab], ok \in BOOLEAN : Acknowledge(Gen, id, ok)
    BY DEF AckLeased
  <1>3. Keeps
    BY <1>2, Start, AcknowledgeKeeps
  <1>4. FramesKept
    BY <1>1, Start, SameFrames
  <1>5. QED
    BY <1>1, <1>3, <1>4, RequestInv

LEMMA RegisterStep ==
  ASSUME IInv, NEW h \in Handlers, NEW tab \in Tabs, RegisterGateway(h, tab) PROVE IInv'
  <1> DEFINE gen == gateway.sequence + 1
             new == [gen |-> gen, tab |-> tab, live |-> TRUE]
  <1>1. /\ ~gateway.stopping /\ gateway' = [gateway EXCEPT !.sequence = gen, !.lease = new] /\ ConnectClient(gen)
        /\ accounts' = accounts /\ at' = at /\ nextCommandID' = nextCommandID /\ received' = received
    BY DEF RegisterGateway
  <1>2. gateway \in Gateways
    BY Start, Facts
  <1>3. gen \in Nat /\ gen \in Clients
    BY <1>2 DEF Gateways, Clients
  <1>4. new \in Leases /\ LeaseTyped(new)
    <2>1. gen \in Int /\ TRUE \in BOOLEAN /\ tab \in Tabs \cup {None}
      BY <1>3
    <2>2. QED
      BY <1>3, <2>1 DEF Leases, LeaseTyped
  <1> HIDE DEF gen, new
  <1>5. gateway' \in Gateways /\ gateway'.lease = new /\ gateway'.stopping = gateway.stopping
    BY <1>1, <1>2, <1>3, <1>4 DEF Gateways
  <1>6. GatewayKept
    BY <1>1, <1>4, <1>5 DEF GatewayKept, StoppingEnds
  <1>7. Keeps /\ FramesKept
    BY <1>1, <1>3, Start, ConnectKeeps, SameFrames
  <1>8. QED
    BY <1>1, <1>6, <1>7, Start, KeptInv

LEMMA StatusLeasedStep ==
  ASSUME IInv, NEW h \in Handlers, NEW tab \in Tabs, StatusLeased(h, tab) PROVE IInv'
  <1>1. /\ at[h].pc = "idle" /\ gateway.lease # None /\ gateway.lease.tab = tab
        /\ Goto(h, "lifetime", None, None) /\ accounts' = accounts /\ nextCommandID' = nextCommandID /\ received' = received
    BY DEF StatusLeased, Asks, Current
  <1>2. PICK connected \in BOOLEAN, report \in Reports(tab) :
          UpdateClient(Gen, connected, report) /\ gateway' = [gateway EXCEPT !.lease.live = connected]
    BY DEF StatusLeased
  <1>3. Gen \in Nat /\ Gen \in Clients /\ Gen = gateway.lease.gen /\ report \in PlayedBy
    BY <1>1, <1>2, Start, GenTyped, ReportsTyped DEF Clients
  <1>4. Keeps
    BY <1>2, <1>3, Start, UpdateKeeps
  <1>5. at[h].pc \notin Ending /\ FramesKept /\ Moves(h)
    <2>1. "lifetime" \in HandlerPlaces \ {"reply"} /\ "lifetime" \notin {"confirm"} \cup Ending
          /\ "lifetime" \notin {"fetch", "connect", "status", "disconnect", "ack"} /\ at[h].pc \notin Ending
      BY <1>1 DEF HandlerPlaces, Ending
    <2>2. at' = [at EXCEPT ![h] = [IdleHandler EXCEPT !.pc = "lifetime", !.gen = None, !.tab = None]]
      BY <1>1 DEF Goto
    <2>3. PICK pc \in HandlerPlaces \ {"reply"} : pc = "lifetime"
      BY <2>1
    <2>4. QED
      BY <2>1, <2>2, <2>3, Start, GotoStep
  <1>6. /\ gateway' \in Gateways /\ gateway'.lease \in Leases /\ gateway'.lease.gen = gateway.lease.gen /\ gateway'.lease.tab = tab
        /\ gateway'.stopping = gateway.stopping /\ gateway'.stranded = gateway.stranded
    <2>1. gateway \in Gateways
      BY Start, Facts
    <2>2. gateway.lease \in Leases
      BY <1>1, <2>1 DEF Gateways
    <2>3. [gateway.lease EXCEPT !.live = connected] \in Leases
      BY <2>2 DEF Leases
    <2>4. gateway' = [gateway EXCEPT !.lease = [gateway.lease EXCEPT !.live = connected]]
      BY <1>2
    <2>5. gateway'.lease = [gateway.lease EXCEPT !.live = connected]
      BY <2>1, <2>4 DEF Gateways
    <2>6. gateway'.lease.gen = gateway.lease.gen /\ gateway'.lease.tab = gateway.lease.tab
      BY <2>2, <2>5 DEF Leases
    <2>7. gateway' \in Gateways /\ gateway'.stopping = gateway.stopping /\ gateway'.stranded = gateway.stranded
      BY <2>1, <2>3, <2>4 DEF Gateways
    <2>8. QED
      BY <1>1, <2>3, <2>5, <2>6, <2>7
  <1>7. Gen' = Gen /\ LeaseTyped(gateway'.lease)
    <2>1. gateway'.lease # None
      BY <1>6, BridgeAssumption DEF Leases
    <2>2. QED
      BY <1>3, <1>6, <2>1 DEF Gen, LeaseTyped
  <1>8. GatewayKept
    BY <1>5, <1>6, <1>7, Start, MoverIsNoEnder DEF GatewayKept
  <1>9. QED
    BY <1>1, <1>4, <1>5, <1>8, Start, KeptInv
(* A handler goes on with the lease it found. *)
LEMMA LeaseStep ==
  ASSUME Typed, NEW h \in Handlers, NEW pc \in {"confirm", "disconnecting", "lost"}, NEW gen \in Int, NEW tab, tab = None,
         Goto(h, pc, gen, tab)
  PROVE  FramesKept /\ Moves(h) /\ at'[h].pc = pc /\ at'[h].gen = gen
  <1>1. pc \in HandlerPlaces \ {"reply"} /\ pc \notin {"fetch", "connect", "status", "disconnect", "ack"}
    BY DEF HandlerPlaces
  <1>2. gen # None /\ gen \in Int \cup {None} /\ tab \in Tabs \cup {None}
    BY BridgeAssumption
  <1>3. at' = [at EXCEPT ![h] = [IdleHandler EXCEPT !.pc = pc, !.gen = gen, !.tab = tab]]
    BY DEF Goto
  <1>4. QED
    BY <1>1, <1>2, <1>3, GotoStep

LEMMA DisconnectStep ==
  ASSUME IInv, NEW h \in Handlers, NEW tab \in Tabs, Disconnect(h, tab) PROVE IInv'
  <1>1. /\ at[h].pc = "idle" /\ gateway.lease # None /\ Goto(h, "confirm", Gen, None) /\ UNCHANGED bridge
        /\ gateway' = gateway /\ accounts' = accounts /\ nextCommandID' = nextCommandID /\ received' = received
    BY DEF Disconnect, Asks
  <1>2. Gen \in Int /\ at[h].pc \notin Ending
    BY <1>1, Start, GenTyped DEF Ending
  <1>3. FramesKept /\ Moves(h)
    <2>1. PICK pc \in {"confirm", "disconnecting", "lost"} : pc = "confirm"
      OBVIOUS
    <2>2. QED
      BY <1>1, <1>2, <2>1, Start, LeaseStep
  <1>4. Keeps
    BY <1>1, Start, SameKeeps
  <1>5. QED
    BY <1>1, <1>2, <1>3, <1>4, RequestInv

LEMMA PollLeasedStep ==
  ASSUME IInv, NEW h \in Handlers, NEW tab \in Tabs, PollLeased(h, tab) PROVE IInv'
  <1>1. /\ at[h].pc = "idle" /\ gateway.lease # None /\ Goto(h, "fetch", Gen, tab) /\ UNCHANGED bridge
        /\ gateway' = gateway /\ accounts' = accounts /\ nextCommandID' = nextCommandID /\ received' = received
    BY DEF PollLeased, Asks, Current
  <1>2. Gen \in Int \cup {None} /\ at[h].pc \notin Ending /\ tab \in Tabs \cup {None} /\ tab # None
    BY <1>1, Start, GenTyped, BridgeAssumption DEF Ending
  <1>3. FramesKept /\ Moves(h)
    <2>1. "fetch" \in HandlerPlaces \ {"reply"} /\ "fetch" \notin {"confirm"} \cup Ending
      BY DEF HandlerPlaces, Ending
    <2>2. PICK pc \in HandlerPlaces \ {"reply"} : pc = "fetch"
      BY <2>1
    <2>3. at' = [at EXCEPT ![h] = [IdleHandler EXCEPT !.pc = pc, !.gen = Gen, !.tab = tab]]
      BY <1>1, <2>2 DEF Goto
    <2>4. PICK gen \in Int \cup {None} : gen = Gen
      BY <1>2
    <2>5. QED
      BY <1>2, <2>1, <2>2, <2>3, <2>4, Start, GotoStep
  <1>4. Keeps
    BY <1>1, Start, SameKeeps
  <1>5. QED
    BY <1>1, <1>2, <1>3, <1>4, RequestInv

(* Setting stopping. *)
LEMMA StoppingGateway ==
  ASSUME Typed, gateway' = [gateway EXCEPT !.stopping = TRUE]
  PROVE  gateway' \in Gateways /\ LeaseTyped(gateway'.lease) /\ gateway'.lease = gateway.lease /\ Gen' = Gen
  <1>1. gateway \in Gateways /\ TRUE \in BOOLEAN /\ LeaseTyped(gateway.lease)
    BY DEF Typed
  <1>2. gateway' \in Gateways /\ gateway'.lease = gateway.lease
    BY <1>1 DEF Gateways
  <1>3. QED
    BY <1>1, <1>2 DEF Gen

LEMMA ConfirmStep ==
  ASSUME IInv, NEW h \in Handlers, DisconnectConfirm(h) PROVE IInv'
  <1>1. /\ at[h].pc = "confirm" /\ UNCHANGED bridge /\ accounts' = accounts
        /\ nextCommandID' = nextCommandID /\ received' = received
    BY DEF DisconnectConfirm
  <1>2. at[h].gen \in Int /\ at[h].pc \notin Ending
    BY <1>1, Start, Facts DEF Placed, HandlerFrames, Ending
  <1>3. Keeps
    BY <1>1, Start, SameKeeps
  <1>4. CASE Gen = at[h].gen /\ ~gateway.stopping
    <2>1. gateway' = [gateway EXCEPT !.stopping = TRUE] /\ Goto(h, "disconnecting", at[h].gen, None)
      BY <1>4 DEF DisconnectConfirm
    <2>2. PICK pc \in {"confirm", "disconnecting", "lost"} : pc = "disconnecting"
      OBVIOUS
    <2>3. FramesKept /\ at'[h].pc = "disconnecting" /\ at'[h].gen = at[h].gen
      BY <1>2, <2>1, <2>2, Start, LeaseStep
    <2>4. gateway' \in Gateways /\ LeaseTyped(gateway'.lease) /\ Gen' = Gen
      BY <2>1, Start, StoppingGateway
    <2>5. GatewayKept
      BY <1>4, <2>3, <2>4 DEF GatewayKept, StoppingEnds
    <2>6. QED
      BY <1>1, <1>3, <2>3, <2>5, Start, KeptInv
  <1>5. CASE ~(Gen = at[h].gen /\ ~gateway.stopping)
    <2>1. gateway' = gateway /\ Done(h)
      BY <1>5 DEF DisconnectConfirm
    <2>2. FramesKept /\ Moves(h)
      BY <2>1, Start, DoneStep
    <2>3. QED
      BY <1>1, <1>2, <1>3, <2>1, <2>2, RequestInv
  <1>6. QED
    BY <1>4, <1>5

LEMMA EndedGateway ==
  ASSUME Typed, gateway' = Ended
  PROVE  GatewayKept
  <1>1. gateway \in Gateways /\ FALSE \in BOOLEAN
    BY DEF Typed
  <1>2. gateway' \in Gateways /\ gateway'.lease = None /\ gateway'.stopping = FALSE
    BY <1>1 DEF Gateways, Ended
  <1>3. QED
    BY <1>2 DEF GatewayKept, LeaseTyped, StoppingEnds

(* One who finds another lease was not the one to end this one. *)
LEMMA LeaverKept ==
  ASSUME IInv, NEW h \in Handlers, Moves(h), at[h].gen # Gen, gateway' = gateway
  PROVE  GatewayKept
  <1>1. Gen' = Gen
    BY DEF Gen
  <1>2. QED
    BY <1>1, Start, MoverIsNoEnder, SameGateway

LEMMA FinishStep ==
  ASSUME IInv, NEW h \in Handlers, DisconnectFinish(h) PROVE IInv'
  <1>1. Done(h) /\ accounts' = accounts /\ nextCommandID' = nextCommandID /\ received' = received
    BY DEF DisconnectFinish
  <1>2. FramesKept /\ Moves(h)
    BY <1>1, Start, DoneStep
  <1>3. CASE Gen = at[h].gen
    <2>1. DisconnectClient(Gen) /\ gateway' = Ended
      BY <1>3 DEF DisconnectFinish
    <2>2. Keeps /\ GatewayKept
      BY <2>1, Start, DisconnectKeeps, EndedGateway
    <2>3. QED
      BY <1>1, <1>2, <2>2, Start, KeptInv
  <1>4. CASE Gen # at[h].gen
    <2>1. UNCHANGED bridge /\ gateway' = gateway
      BY <1>4 DEF DisconnectFinish
    <2>2. Keeps /\ GatewayKept
      BY <1>2, <1>4, <2>1, Start, SameKeeps, LeaverKept
    <2>3. QED
      BY <1>1, <1>2, <2>2, Start, KeptInv
  <1>5. QED
    BY <1>3, <1>4

LEMMA FinishLostStep ==
  ASSUME IInv, NEW h \in Handlers, FinishLost(h) PROVE IInv'
  <1>1. Done(h) /\ accounts' = accounts /\ nextCommandID' = nextCommandID /\ received' = received /\ UNCHANGED bridge
        /\ gateway' = IF Gen = at[h].gen THEN Ended ELSE gateway
    BY DEF FinishLost
  <1>2. FramesKept /\ Moves(h) /\ Keeps
    BY <1>1, Start, DoneStep, SameKeeps
  <1>3. CASE Gen = at[h].gen
    <2>1. GatewayKept
      BY <1>1, <1>3, Start, EndedGateway
    <2>2. QED
      BY <1>1, <1>2, <2>1, Start, KeptInv
  <1>4. CASE Gen # at[h].gen
    <2>1. GatewayKept
      BY <1>1, <1>2, <1>4, LeaverKept
    <2>2. QED
      BY <1>1, <1>2, <2>1, Start, KeptInv
  <1>5. QED
    BY <1>3, <1>4

(* The first disjunct ends the lease; the second may only adopt one while   *)
(* nobody is ending the gateway.                                            *)
LEMMA LifetimeStep ==
  ASSUME IInv, NEW h \in Handlers, CheckLifetime(h) PROVE IInv'
  <1> DEFINE adopts == gateway.lease = None /\ accounts /\ link.connected /\ ~Stale
             lease  == IF adopts THEN Adopted ELSE gateway.lease
             ended  == lease # None /\ ~lease.live
  <1>1. /\ at[h].pc \notin Ending /\ accounts' = accounts /\ nextCommandID' = nextCommandID /\ received' = received
    BY DEF CheckLifetime, Ending
  <1>2. gateway \in Gateways /\ LeaseTyped(gateway.lease) /\ gateway.lease \in Leases \cup {None} /\ None \notin Leases /\ None \notin Int
    BY Start, BridgeAssumption DEF Typed, Gateways, Leases
  <1>3. Adopted \in Leases /\ LeaseTyped(Adopted) /\ Adopted.live = FALSE
    <2>1. link.session \in Nat
      BY Start, Facts DEF Links
    <2>2. -link.session \in Int /\ FALSE \in BOOLEAN
      BY <2>1
    <2>3. QED
      BY <2>2 DEF Adopted, Leases, LeaseTyped
  <1>4. lease \in Leases \cup {None} /\ LeaseTyped(lease) /\ (~adopts => lease = gateway.lease)
    BY <1>2, <1>3
  <1>5. CASE /\ lease # None /\ ~gateway.stopping
             /\ DisconnectClient(IF adopts THEN None ELSE Gen)
             /\ gateway' = [gateway EXCEPT !.stopping = TRUE, !.lease = [lease EXCEPT !.live = FALSE]]
             /\ Goto(h, "lost", lease.gen, None)
    <2>1. lease \in Leases /\ lease.gen \in Int
      BY <1>4, <1>5 DEF Leases
    <2>2. LeaseTyped(lease)
      BY <1>4
    <2>3. /\ lease # None /\ ~gateway.stopping
          /\ DisconnectClient(IF adopts THEN None ELSE Gen)
          /\ gateway' = [gateway EXCEPT !.stopping = TRUE, !.lease = [lease EXCEPT !.live = FALSE]]
          /\ Goto(h, "lost", lease.gen, None)
      BY <1>5
    <2> HIDE DEF lease, adopts
    <2>4. PICK new : new = [lease EXCEPT !.live = FALSE]
      OBVIOUS
    <2>5. new \in Leases /\ new.gen = lease.gen /\ new.tab = lease.tab
      <3>1. FALSE \in BOOLEAN
        OBVIOUS
      <3>2. QED
        BY <2>1, <2>4, <3>1 DEF Leases
    <2>6. gateway' \in Gateways /\ gateway'.lease = new
      <3>1. gateway' = [gateway EXCEPT !.stopping = TRUE, !.lease = new] /\ TRUE \in BOOLEAN
        BY <2>3, <2>4
      <3>2. QED
        BY <1>2, <2>5, <3>1 DEF Gateways
    <2>7. new # None
      BY <1>2, <2>5
    <2>8. Gen' = lease.gen
      BY <2>5, <2>6, <2>7 DEF Gen
    <2>9. FramesKept /\ at'[h].pc = "lost" /\ at'[h].gen = lease.gen
      <3>1. PICK pc \in {"confirm", "disconnecting", "lost"} : pc = "lost"
        OBVIOUS
      <3>2. PICK gen \in Int : gen = lease.gen
        BY <2>1
      <3>3. QED
        BY <2>3, <3>1, <3>2, Start, LeaseStep
    <2>10. LeaseTyped(new)
      BY <2>2, <2>3, <2>5 DEF LeaseTyped
    <2>11. GatewayKept
      BY <2>6, <2>8, <2>9, <2>10 DEF GatewayKept, StoppingEnds
    <2>12. Keeps
      BY <2>3, Start, DisconnectKeeps
    <2>13. QED
      BY <1>1, <2>9, <2>11, <2>12, Start, KeptInv
  <1>6. CASE /\ ended => gateway.stopping
             /\ gateway' = [gateway EXCEPT !.lease = lease] /\ Done(h) /\ UNCHANGED bridge
    <2>1. /\ gateway' = [gateway EXCEPT !.lease = lease] /\ Done(h) /\ UNCHANGED bridge
      BY <1>6
    <2>2. adopts => gateway.stopping /\ gateway.lease = None
      <3>1. adopts => lease = Adopted /\ Adopted # None
        BY <1>2, <1>3
      <3>2. QED
        BY <1>3, <1>6, <3>1
    <2> HIDE DEF lease, adopts, ended
    <2>3. /\ gateway' \in Gateways /\ gateway'.lease = lease /\ gateway'.stopping = gateway.stopping
          /\ gateway'.stranded = gateway.stranded
      BY <1>2, <1>4, <2>1 DEF Gateways
    <2>4. FramesKept /\ Moves(h)
      BY <2>1, Start, DoneStep
    <2>5. StoppingEnds'
      <3>1. CASE adopts
        <4>1. gateway.stopping /\ Gen = None
          BY <2>2, <3>1 DEF Gen
        <4>2. \A g \in Handlers : at[g].pc \in Ending => at[g].gen # None
          BY Start, Facts DEF Placed
        <4>3. gateway.stranded
          BY <4>1, <4>2, Start DEF StoppingEnds, Ending
        <4>4. QED
          BY <2>3, <4>3 DEF StoppingEnds
      <3>2. CASE ~adopts
        <4>1. Gen' = Gen
          BY <1>4, <2>3, <3>2 DEF Gen
        <4>2. QED
          BY <1>1, <2>3, <2>4, <4>1, Start, MoverIsNoEnder
      <3>3. QED
        BY <3>1, <3>2
    <2>6. GatewayKept
      BY <1>4, <2>3, <2>5 DEF GatewayKept
    <2>7. QED
      BY <1>1, <2>1, <2>4, <2>6, Start, SameKeeps, KeptInv
  <1>7. QED
    BY <1>5, <1>6 DEF CheckLifetime

LEMMA RemoveStep ==
  ASSUME IInv, RemoveConnection PROVE IInv'
  <1>1. /\ gateway' = [gateway EXCEPT !.lease = None, !.stranded = gateway.stopping] /\ DisconnectClient(None)
        /\ accounts' = accounts /\ at' = at /\ nextCommandID' = nextCommandID /\ received' = received
    BY DEF RemoveConnection
  <1>2. gateway \in Gateways
    BY Start, Facts
  <1>3. /\ gateway' \in Gateways /\ gateway'.lease = None /\ gateway'.stopping = gateway.stopping
        /\ gateway'.stranded = gateway.stopping
    BY <1>1, <1>2 DEF Gateways
  <1>4. GatewayKept
    BY <1>3 DEF GatewayKept, LeaseTyped, StoppingEnds
  <1>5. QED
    BY <1>1, <1>4, Start, DisconnectKeeps, SameFrames, KeptInv

LEMMA RequireStep ==
  ASSUME IInv, RequireAuthentication PROVE IInv'
  <1>1. /\ accounts' = TRUE /\ UNCHANGED bridge /\ gateway' = gateway /\ at' = at
        /\ nextCommandID' = nextCommandID /\ received' = received
    BY DEF RequireAuthentication
  <1>2. Gen' = Gen /\ accounts' \in BOOLEAN
    BY <1>1 DEF Gen
  <1>3. GatewayKept
    BY <1>1, <1>2, Start, StoppingStays, SameGateway
  <1>4. QED
    BY <1>1, <1>2, <1>3, Start, SameKeeps, SameFrames, KeptInv

LEMMA StaleStep ==
  ASSUME IInv, LinkGoesStale PROVE IInv'
  <1>1. /\ link' = [link EXCEPT !.overdue = TRUE] /\ pending' = pending /\ inflight' = inflight /\ acks' = acks
        /\ feedback' = feedback /\ accounts' = accounts /\ gateway' = gateway /\ at' = at
        /\ nextCommandID' = nextCommandID /\ received' = received
    BY DEF LinkGoesStale
  <1>2. link \in Links /\ feedback \in Feedbacks /\ acks \subseteq Sent \X BOOLEAN /\ TRUE \in BOOLEAN
    BY Start, Facts
  <1>3. link' \in Links /\ link'.session = link.session /\ link'.connected = link.connected
    BY <1>1, <1>2 DEF Links
  <1>4. DownInv' /\ PlaybackIsLive'
    BY <1>1, <1>3, Start DEF DownInv, PlaybackIsLive
  <1>5. Keeps
    BY <1>1, <1>2, <1>3, <1>4 DEF Keeps
  <1>6. Gen' = Gen
    BY <1>1 DEF Gen
  <1>7. GatewayKept
    BY <1>1, <1>6, Start, StoppingStays, SameGateway
  <1>8. QED
    BY <1>1, <1>5, <1>7, Start, SameFrames, KeptInv
-----------------------------------------------------------------------------
(* Commands.                                                               *)

(* A step of the queue: the gateway and those who end it do not move.      *)
LEMMA QueueInv ==
  ASSUME IInv, QueueTyped', FramesTyped', link' \in Links, feedback' \in Feedbacks, gateway' = gateway, accounts' = accounts,
         Ordered(pending', Taken'), DownInv', PlaybackIsLive', CommandOfSession',
         \A h \in Handlers : at[h].pc \in Ending => at'[h] = at[h]
  PROVE  IInv'
  <1>1. Gen' = Gen
    BY DEF Gen
  <1>2. GatewayKept
    BY <1>1, Start, StoppingStays, SameGateway
  <1>3. accounts' \in BOOLEAN
    BY Start
  <1>4. QED
    BY <1>2, <1>3 DEF IInv, Typed, GatewayKept

LEMMA CallerFrame ==
  ASSUME Typed, NEW c \in Callers, NEW f \in CallerFrames, at' = [at EXCEPT ![c] = f]
  PROVE  /\ at' \in [Callers \cup Handlers -> CallerFrames \cup HandlerFrames] /\ at'[c] = f
         /\ \A d \in Callers : d # c => at'[d] = at[d]
         /\ \A h \in Handlers : at'[h] = at[h]
  BY BridgeAssumption DEF Typed, FramesTyped

(* A caller leaves; its command may leave the queue with it.               *)
LEMMA CallerLeaves ==
  ASSUME IInv, NEW c \in Callers, at' = [at EXCEPT ![c] = IdleCaller],
         pending' \in Seq(Sent), Len(pending') <= Len(pending), Ordered(pending', Taken), ToSet(pending') \subseteq ToSet(pending),
         pending = <<>> => pending' = <<>>, inflight' \subseteq inflight, acks' \subseteq acks,
         UNCHANGED <<link, feedback, accounts, gateway, nextCommandID, received>>
  PROVE  IInv'
  <1>1. /\ link' = link /\ feedback' = feedback /\ accounts' = accounts /\ gateway' = gateway
        /\ nextCommandID' = nextCommandID /\ received' = received
    OBVIOUS
  <1>2. Typed /\ DownInv /\ PlaybackIsLive /\ CommandOfSession
    BY DEF IInv
  <1>3. IdleCaller \in CallerFrames /\ IdleCaller.pc = "idle"
    BY DEF IdleCaller, CallerFrames
  <1> HIDE DEF IdleCaller
  <1>4. /\ at' \in [Callers \cup Handlers -> CallerFrames \cup HandlerFrames] /\ at'[c] = IdleCaller
        /\ \A d \in Callers : d # c => at'[d] = at[d]
        /\ \A h \in Handlers : at'[h] = at[h]
    BY <1>2, <1>3, CallerFrame
  <1>5. Sent' = Sent
    BY <1>1 DEF Sent
  <1>6. FramesTyped'
    BY <1>2, <1>3, <1>4, <1>5 DEF Typed, FramesTyped
  <1>7. QueueTyped'
    <2>1. Len(pending') <= QueueLimit
      <3>1. Len(pending') \in Nat /\ Len(pending) \in Nat /\ Len(pending) <= QueueLimit /\ QueueLimit \in Nat
        BY <1>2, BridgeAssumption DEF Typed, QueueTyped
      <3>2. QED
        BY <3>1
    <2>2. inflight' \subseteq Sent /\ acks' \subseteq Sent \X BOOLEAN
      BY <1>2 DEF Typed, QueueTyped
    <2>3. QED
      BY <1>1, <1>2, <1>5, <2>1, <2>2 DEF Typed, QueueTyped
  <1>8. Taken' \subseteq Taken
    <2>1. UNION {at'[h].took : h \in Handlers} = UNION {at[h].took : h \in Handlers}
      BY <1>4
    <2>2. UNION {received'[tab] : tab \in Tabs} = UNION {received[tab] : tab \in Tabs}
      BY <1>1
    <2>3. QED
      BY <2>1, <2>2 DEF Taken, Handed
  <1>9. Ordered(pending', Taken')
    BY <1>8, OrderedFewer
  <1>10. DownInv' /\ PlaybackIsLive'
    BY <1>1, <1>2 DEF DownInv, PlaybackIsLive
  <1>11. CommandOfSession'
    <2>1. \A d \in Waiting' : d \in Waiting /\ at'[d] = at[d]
      BY <1>3, <1>4 DEF Waiting
    <2>2. QED
      BY <1>1, <1>2, <2>1 DEF CommandOfSession
  <1>12. link' \in Links /\ feedback' \in Feedbacks
    BY <1>1, <1>2 DEF Typed
  <1>13. QED
    BY <1>1, <1>4, <1>6, <1>7, <1>9, <1>10, <1>11, <1>12, QueueInv

LEMMA AnsweredStep ==
  ASSUME IInv, NEW c \in Callers, SendAnswered(c) PROVE IInv'
  <1>1. /\ at' = [at EXCEPT ![c] = IdleCaller] /\ acks' \subseteq acks
        /\ link' = link /\ pending' = pending /\ inflight' = inflight /\ feedback' = feedback /\ accounts' = accounts
        /\ gateway' = gateway /\ nextCommandID' = nextCommandID /\ received' = received
    BY DEF SendAnswered
  <1>2. pending' \in Seq(Sent) /\ Len(pending') <= Len(pending) /\ Ordered(pending', Taken)
    BY <1>1, Start, Facts DEF IInv
  <1>3. QED
    BY <1>1, <1>2, CallerLeaves

LEMMA RemovedStep ==
  ASSUME IInv, NEW c \in Callers, RemoveCommand(at[c].id), at' = [at EXCEPT ![c] = IdleCaller],
         UNCHANGED <<link, acks, feedback, accounts, gateway, nextCommandID, received>>
  PROVE  IInv'
  <1>1. inflight' \subseteq inflight /\ acks' \subseteq acks
    BY DEF RemoveCommand
  <1>2. pending \in Seq(Sent) /\ Ordered(pending, Taken) /\ Len(pending) \in Nat
    BY Start, Facts DEF IInv
  <1>3. /\ pending' \in Seq(Sent) /\ Len(pending') <= Len(pending) /\ Ordered(pending', Taken) /\ ToSet(pending') \subseteq ToSet(pending)
        /\ (pending = <<>> => pending' = <<>>)
    <2>1. CASE at[c].id \in ToSet(pending)
      <3>1. PICK i \in 1 .. Len(pending) : pending' = RemoveAt(pending, i)
        BY <2>1 DEF RemoveCommand
      <3>2. nextCommandID - 1 \in Nat /\ pending \in Seq(1 .. (nextCommandID - 1))
        BY Start, Facts DEF Sent
      <3>3. /\ RemoveAt(pending, i) \in Seq(1 .. (nextCommandID - 1)) /\ Len(RemoveAt(pending, i)) = Len(pending) - 1
            /\ Ordered(RemoveAt(pending, i), Taken) /\ ToSet(RemoveAt(pending, i)) \subseteq ToSet(pending)
        BY <1>2, <3>2, RemoveOrdered
      <3>4. pending # <<>>
        BY <2>1, OrderedEmpty
      <3>5. Len(pending') <= Len(pending)
        BY <1>2, <3>1, <3>3
      <3>6. QED
        BY <3>1, <3>3, <3>4, <3>5 DEF Sent
    <2>2. CASE at[c].id \notin ToSet(pending)
      BY <1>2, <2>2 DEF RemoveCommand
    <2>3. QED
      BY <2>1, <2>2
  <1>4. QED
    BY <1>1, <1>3, CallerLeaves

LEMMA TakenSent ==
  ASSUME Typed
  PROVE  Taken \subseteq Sent
  <1>1. inflight \subseteq Sent /\ (\A tab \in Tabs : received[tab] \subseteq Sent) /\ \A h \in Handlers : at[h].took \subseteq Sent
    BY Facts
  <1>2. QED
    BY <1>1 DEF Taken, Handed

LEMMA PreparedFeedback ==
  ASSUME Typed, PlaybackIsLive, link.connected, NEW id \in Nat, NEW path \in Paths, NEW stream \in Streams,
         link' = link, feedback' = PreparePlayback(id, path, stream)
  PROVE  feedback' \in Feedbacks /\ PlaybackIsLive'
  <1>1. CASE path = "stop"
    <2>1. feedback' = Silent
      BY <1>1 DEF PreparePlayback
    <2>2. feedback' \in Feedbacks /\ feedback'.playback = None
      BY <2>1, SilentTyped
    <2>3. QED
      BY <2>2 DEF PlaybackIsLive
  <1>2. CASE path # "stop"
    <2>1. feedback \in Feedbacks /\ TRUE \in BOOLEAN
      BY Facts
    <2>2. PICK playing \in PlayedBy :
            playing = IF path = "play" \/ ~feedback.active \/ feedback.stream # stream THEN None ELSE feedback.playback
      BY <2>1 DEF Feedbacks, PlayedBy
    <2>3. feedback' = [feedback EXCEPT !.active = TRUE, !.stream = stream, !.command = id, !.playback = playing]
      BY <1>2, <2>2 DEF PreparePlayback
    <2>4. feedback' \in Feedbacks /\ feedback'.active = TRUE /\ feedback'.stream = stream /\ feedback'.playback = playing
      BY <2>1, <2>3 DEF Feedbacks
    <2>5. playing # None => playing.stream = stream
      BY <2>2 DEF PlaybackIsLive
    <2>6. QED
      BY <2>4, <2>5 DEF PlaybackIsLive
  <1>3. QED
    BY <1>1, <1>2

(* The queue of SendCommand, its oldest command failed when it is full.     *)
LEMMA SentQueue ==
  ASSUME Typed, Ordered(pending, Taken), NEW full \in BOOLEAN, full <=> Len(pending) >= QueueLimit,
         pending' = Append(IF full THEN Tail(pending) ELSE pending, nextCommandID), nextCommandID' = nextCommandID + 1,
         acks' = IF full THEN acks \cup Failures({Head(pending)}) ELSE acks
  PROVE  /\ Sent' = Sent \cup {nextCommandID} /\ nextCommandID \notin Sent
         /\ pending' \in Seq(Sent') /\ Len(pending') <= QueueLimit /\ Ordered(pending', Taken)
         /\ ToSet(pending') \subseteq ToSet(pending) \cup {nextCommandID} /\ acks' \subseteq Sent \X BOOLEAN
  <1> DEFINE N == nextCommandID - 1
  <1>1. N \in Nat /\ N + 1 = nextCommandID /\ Sent = 1 .. N
    BY Facts DEF Sent
  <1>2. Sent' = 1 .. N + 1
    BY <1>1 DEF Sent
  <1> HIDE DEF N
  <1>3. QueueLimit \in Nat /\ QueueLimit >= 1
    BY BridgeAssumption
  <1>4. /\ pending \in Seq(1 .. N) /\ Len(pending) \in Nat /\ Len(pending) <= QueueLimit /\ Taken \subseteq 1 .. N
        /\ acks \subseteq Sent \X BOOLEAN
    BY <1>1, Facts, TakenSent DEF Typed, QueueTyped
  <1>5. PICK base : base = IF full THEN Tail(pending) ELSE pending
    OBVIOUS
  <1>6. /\ base \in Seq(1 .. N) /\ Len(base) <= QueueLimit - 1 /\ Ordered(base, Taken) /\ ToSet(base) \subseteq ToSet(pending)
        /\ acks' \subseteq Sent \X BOOLEAN
    <2>1. CASE full
      <3>1. pending # <<>>
        BY <1>3, <2>1, OrderedEmpty
      <3>2. /\ Tail(pending) \in Seq(1 .. N) /\ Len(Tail(pending)) = Len(pending) - 1 /\ Ordered(Tail(pending), Taken)
            /\ ToSet(Tail(pending)) \subseteq ToSet(pending) /\ Head(pending) \in 1 .. N
        BY <1>1, <1>4, <3>1, TailOrdered
      <3>3. Len(Tail(pending)) <= QueueLimit - 1
        BY <1>3, <1>4, <3>2
      <3>4. <<Head(pending), FALSE>> \in Sent \X BOOLEAN
        <4>1. Head(pending) \in Sent /\ FALSE \in BOOLEAN
          BY <1>1, <3>2
        <4>2. QED
          BY <4>1
      <3>5. Failures({Head(pending)}) = {<<Head(pending), FALSE>>}
        BY DEF Failures
      <3>6. acks' = acks \cup Failures({Head(pending)})
        BY <2>1
      <3>7. acks' \subseteq Sent \X BOOLEAN
        BY <1>4, <3>4, <3>5, <3>6
      <3>8. QED
        BY <1>5, <2>1, <3>2, <3>3, <3>7
    <2>2. CASE ~full
      <3>1. Len(pending) <= QueueLimit - 1
        BY <1>3, <1>4, <2>2
      <3>2. QED
        BY <1>4, <1>5, <2>2, <3>1
    <2>3. QED
      BY <2>1, <2>2
  <1>7. pending' = Append(base, N + 1)
    BY <1>1, <1>5
  <1>8. /\ pending' \in Seq(1 .. N + 1) /\ Len(pending') = Len(base) + 1
        /\ Ordered(pending', Taken) /\ ToSet(pending') \subseteq ToSet(base) \cup {N + 1}
    <2>1. /\ Append(base, N + 1) \in Seq(1 .. N + 1) /\ Len(Append(base, N + 1)) = Len(base) + 1
          /\ Ordered(Append(base, N + 1), Taken) /\ ToSet(Append(base, N + 1)) \subseteq ToSet(base) \cup {N + 1}
      <3>1. N \in Nat /\ base \in Seq(1 .. N) /\ Taken \subseteq 1 .. N /\ Ordered(base, Taken)
        BY <1>1, <1>4, <1>6
      <3>2. QED
        BY <3>1, AppendOrdered
    <2>2. QED
      BY <1>7, <2>1
  <1>9. Len(pending') <= QueueLimit
    <2>1. Len(base) \in Nat
      BY <1>6
    <2>2. QED
      BY <1>3, <1>6, <1>8, <2>1
  <1>10. Sent' = Sent \cup {nextCommandID} /\ nextCommandID \notin Sent
    BY <1>1, <1>2
  <1>11. QED
    BY <1>1, <1>2, <1>6, <1>8, <1>9, <1>10

LEMMA SendStep ==
  ASSUME IInv, NEW c \in Callers, NEW path \in Paths, NEW stream \in Streams, NEW bound \in 0 .. link.session,
         SendCommand(c, path, stream, bound)
  PROVE  IInv'
  <1>1. Typed /\ Ordered(pending, Taken) /\ CommandOfSession /\ PlaybackIsLive
    BY DEF IInv
  <1>2. PICK full \in BOOLEAN : full <=> Len(pending) >= QueueLimit
    OBVIOUS
  <1>3. /\ nextCommandID <= MaxCommands /\ link.connected /\ (bound # 0 => bound = link.session)
        /\ nextCommandID' = nextCommandID + 1 /\ feedback' = PreparePlayback(nextCommandID, path, stream)
        /\ link' = link /\ inflight' = inflight /\ accounts' = accounts /\ gateway' = gateway /\ received' = received
    BY DEF SendCommand, Ready
  <1>4. /\ pending' = Append(IF full THEN Tail(pending) ELSE pending, nextCommandID)
        /\ acks' = IF full THEN acks \cup Failures({Head(pending)}) ELSE acks
    BY <1>2 DEF SendCommand
  <1>5. PICK session : session = IF bound = 0 THEN link.session ELSE bound
    OBVIOUS
  <1>6. session = link.session /\ session \in Nat /\ link \in Links
    <2>1. link \in Links
      BY <1>1, Facts
    <2>2. QED
      BY <1>3, <1>5, <2>1 DEF Links
  <1>7. at' = [at EXCEPT ![c] = [pc |-> "wait", id |-> nextCommandID, session |-> session]]
    BY <1>5 DEF SendCommand
  <1> DEFINE f == [pc |-> "wait", id |-> nextCommandID, session |-> session]
  <1>8. f \in CallerFrames /\ f.pc = "wait" /\ f.id = nextCommandID /\ f.session = link.session
    BY <1>1, <1>6, Facts DEF CallerFrames
  <1> HIDE DEF f
  <1>9. /\ at' \in [Callers \cup Handlers -> CallerFrames \cup HandlerFrames] /\ at'[c] = f
        /\ \A d \in Callers : d # c => at'[d] = at[d]
        /\ \A h \in Handlers : at'[h] = at[h]
    BY <1>1, <1>7, <1>8, CallerFrame DEF f
  <1>10. /\ Sent' = Sent \cup {nextCommandID} /\ nextCommandID \notin Sent
         /\ pending' \in Seq(Sent') /\ Len(pending') <= QueueLimit /\ Ordered(pending', Taken)
         /\ ToSet(pending') \subseteq ToSet(pending) \cup {nextCommandID} /\ acks' \subseteq Sent \X BOOLEAN
    BY <1>1, <1>2, <1>3, <1>4, SentQueue
  <1>11. QueueTyped'
    <2>1. nextCommandID' \in 1 .. MaxCommands + 1
      <3>1. nextCommandID \in Nat /\ nextCommandID >= 1 /\ MaxCommands \in Nat
        BY <1>1, Facts, BridgeAssumption
      <3>2. QED
        BY <1>3, <3>1
    <2>2. inflight' \subseteq Sent' /\ acks' \subseteq Sent' \X BOOLEAN
      BY <1>1, <1>3, <1>10, Facts
    <2>3. received' \in [Tabs -> SUBSET Sent']
      <3>1. received \in [Tabs -> SUBSET Sent] /\ Sent \subseteq Sent'
        BY <1>1, <1>10 DEF Typed, QueueTyped
      <3>2. QED
        BY <1>3, <3>1
    <2>4. QED
      BY <1>10, <2>1, <2>2, <2>3 DEF QueueTyped
  <1>12. FramesTyped'
    BY <1>1, <1>8, <1>9, <1>10 DEF Typed, FramesTyped
  <1>13. Taken' = Taken
    <2>1. UNION {at'[h].took : h \in Handlers} = UNION {at[h].took : h \in Handlers}
      BY <1>9
    <2>2. UNION {received'[tab] : tab \in Tabs} = UNION {received[tab] : tab \in Tabs}
      BY <1>3
    <2>3. QED
      BY <1>3, <2>1, <2>2 DEF Taken, Handed
  <1>14. feedback' \in Feedbacks /\ PlaybackIsLive'
    BY <1>1, <1>3, Facts, PreparedFeedback
  <1>15. DownInv'
    BY <1>3 DEF DownInv
  <1>16. CommandOfSession'
    <2>1. ASSUME NEW d \in Callers, d # c, at'[d].pc = "wait", at'[d].id \in inflight' \cup ToSet(pending')
          PROVE  at'[d].session = link.session
      <3>1. at'[d] = at[d] /\ d \in Waiting
        BY <1>9, <2>1 DEF Waiting
      <3>2. at[d].id \in Sent
        BY <1>1, <1>9, <2>1 DEF Typed, FramesTyped
      <3>3. at[d].id \in inflight \cup ToSet(pending)
        BY <1>3, <1>10, <2>1, <3>1, <3>2
      <3>4. QED
        BY <1>1, <3>1, <3>3 DEF CommandOfSession
    <2>2. QED
      BY <1>3, <1>8, <1>9, <2>1 DEF CommandOfSession, Waiting
  <1>17. QED
    BY <1>3, <1>6, <1>9, <1>10, <1>11, <1>12, <1>13, <1>14, <1>15, <1>16, QueueInv

LEMMA NextCommandsStep ==
  ASSUME IInv, NEW h \in Handlers, NextCommands(h) PROVE IInv'
  <1>1. Typed /\ Ordered(pending, Taken) /\ CommandOfSession /\ PlaybackIsLive
    BY DEF IInv
  <1>2. at[h].pc = "fetch" /\ at[h].pc \notin Ending /\ accounts' = accounts /\ gateway' = gateway
        /\ nextCommandID' = nextCommandID /\ received' = received
    BY DEF NextCommands, Ending
  <1> DEFINE n == IF Len(pending) < BatchLimit THEN Len(pending) ELSE BatchLimit
             batch == SubSeq(pending, 1, n)
  <1>3. CASE /\ link.connected /\ link' = [link EXCEPT !.overdue = FALSE]
             /\ pending' = SubSeq(pending, Len(batch) + 1, Len(pending))
             /\ inflight' = inflight \cup ToSet(batch)
             /\ at' = IF batch = <<>> THEN at ELSE [at EXCEPT ![h].pc = "reply", ![h].took = ToSet(batch)]
             /\ acks' = acks /\ feedback' = feedback
    <2>1. Len(pending) \in Nat /\ BatchLimit \in Nat /\ pending \in Seq(1 .. (nextCommandID - 1)) /\ nextCommandID - 1 \in Nat
      BY <1>1, Facts, BridgeAssumption DEF Sent
    <2>2. n \in 0 .. Len(pending)
      BY <2>1
    <2> HIDE DEF n
    <2>3. /\ batch \in Seq(Sent) /\ Len(batch) = n
          /\ SubSeq(pending, n + 1, Len(pending)) \in Seq(Sent) /\ Len(SubSeq(pending, n + 1, Len(pending))) = Len(pending) - n
          /\ Ordered(SubSeq(pending, n + 1, Len(pending)), Taken \cup ToSet(batch))
          /\ ToSet(batch) \subseteq ToSet(pending) /\ ToSet(SubSeq(pending, n + 1, Len(pending))) \subseteq ToSet(pending)
      BY <1>1, <2>1, <2>2, BatchOrdered DEF Sent
    <2> HIDE DEF batch
    <2>4. /\ pending' \in Seq(Sent) /\ Len(pending') = Len(pending) - n /\ Ordered(pending', Taken \cup ToSet(batch))
          /\ ToSet(pending') \subseteq ToSet(pending)
      BY <1>3, <2>3
    <2>5. ToSet(batch) \subseteq Sent /\ inflight' \subseteq Sent
      BY <1>1, <1>3, <2>3, Facts
    <2>6. Sent' = Sent
      BY <1>2 DEF Sent
    <2>7. QueueTyped'
      <3>1. Len(pending') <= QueueLimit
        <4>1. QueueLimit \in Nat /\ Len(pending) <= QueueLimit
          BY <1>1, BridgeAssumption DEF Typed, QueueTyped
        <4>2. QED
          BY <2>1, <2>2, <2>4, <4>1
      <3>2. QED
        BY <1>1, <1>2, <1>3, <2>4, <2>5, <2>6, <3>1 DEF Typed, QueueTyped
    <2>8. /\ at' \in [Callers \cup Handlers -> CallerFrames \cup HandlerFrames]
          /\ \A g \in Callers \cup Handlers : g # h => at'[g] = at[g]
          /\ at'[h] \in HandlerFrames /\ at'[h].took \subseteq at[h].took \cup ToSet(batch) /\ Placed(at'[h])
      <3>1. /\ at \in [Callers \cup Handlers -> CallerFrames \cup HandlerFrames]
            /\ at[h] \in HandlerFrames /\ Placed(at[h])
        BY <1>1 DEF Typed, FramesTyped
      <3>2. CASE at' = at
        BY <3>1, <3>2
      <3>3. CASE at' = [at EXCEPT ![h].pc = "reply", ![h].took = ToSet(batch)]
        <4> DEFINE f == [at[h] EXCEPT !.pc = "reply", !.took = ToSet(batch)]
        <4>1. ToSet(batch) \subseteq Nat /\ "reply" \in HandlerPlaces
          BY <1>1, <2>5, Facts DEF HandlerPlaces
        <4>2. f \in HandlerFrames /\ f.pc = "reply" /\ f.took = ToSet(batch) /\ f.tab = at[h].tab
          BY <3>1, <4>1 DEF HandlerFrames
        <4>3. at' = [at EXCEPT ![h] = f]
          BY <3>1, <3>3
        <4> HIDE DEF f
        <4>4. Placed(f)
          BY <1>2, <3>1, <4>2 DEF Placed, Ending
        <4>5. QED
          BY <3>1, <4>2, <4>3, <4>4
      <3>4. QED
        BY <1>3, <3>2, <3>3
    <2>9. h \notin Callers
      BY BridgeAssumption
    <2>10. FramesTyped'
      BY <1>1, <2>5, <2>6, <2>8, <2>9 DEF Typed, FramesTyped
    <2>11. Taken' \subseteq Taken \cup ToSet(batch)
      <3>1. \A g \in Handlers : at'[g].took \subseteq at[g].took \cup ToSet(batch)
        BY <2>8
      <3>2. UNION {at'[g].took : g \in Handlers} \subseteq (UNION {at[g].took : g \in Handlers}) \cup ToSet(batch)
        <4>1. ASSUME NEW x, NEW g \in Handlers, x \in at'[g].took
              PROVE  x \in (UNION {at[k].took : k \in Handlers}) \cup ToSet(batch)
          BY <3>1, <4>1
        <4>2. QED
          BY <4>1
      <3>3. UNION {received'[tab] : tab \in Tabs} = UNION {received[tab] : tab \in Tabs}
        BY <1>2
      <3>4. inflight' = inflight \cup ToSet(batch)
        BY <1>3
      <3>5. Taken' = inflight' \cup (UNION {received'[tab] : tab \in Tabs}) \cup UNION {at'[g].took : g \in Handlers}
        BY DEF Taken, Handed
      <3>6. Taken = inflight \cup (UNION {received[tab] : tab \in Tabs}) \cup UNION {at[g].took : g \in Handlers}
        BY DEF Taken, Handed
      <3>7. QED
        BY <3>2, <3>3, <3>4, <3>5, <3>6
    <2>12. Ordered(pending', Taken')
      BY <2>4, <2>11, OrderedFewer
    <2>13. link' \in Links /\ link'.session = link.session /\ link'.connected = link.connected
      <3>1. link \in Links /\ FALSE \in BOOLEAN
        BY <1>1, Facts
      <3>2. QED
        BY <1>3, <3>1 DEF Links
    <2>14. DownInv' /\ PlaybackIsLive' /\ feedback' \in Feedbacks
      BY <1>1, <1>3, <2>13, Facts DEF DownInv, PlaybackIsLive
    <2>15. CommandOfSession'
      <3>1. \A d \in Callers : at'[d] = at[d]
        BY <2>8, <2>9
      <3>2. inflight' \cup ToSet(pending') \subseteq inflight \cup ToSet(pending)
        BY <1>3, <2>3, <2>4
      <3>3. QED
        BY <1>1, <2>13, <3>1, <3>2 DEF CommandOfSession, Waiting
    <2>16. \A g \in Handlers : at[g].pc \in Ending => at'[g] = at[g]
      BY <1>2, <2>8
    <2>17. QED
      BY <1>2, <2>7, <2>10, <2>12, <2>13, <2>14, <2>15, <2>16, QueueInv
  <1>4. CASE Done(h) /\ UNCHANGED bridge
    <2>1. FramesKept /\ Moves(h) /\ Keeps
      BY <1>4, Start, DoneStep, SameKeeps
    <2>2. QED
      BY <1>2, <2>1, RequestInv
  <1>5. QED
    BY <1>3, <1>4 DEF NextCommands

LEMMA PollReplyStep ==
  ASSUME IInv, NEW h \in Handlers, PollReply(h) PROVE IInv'
  <1>1. Typed /\ Ordered(pending, Taken) /\ CommandOfSession /\ PlaybackIsLive /\ DownInv
    BY DEF IInv
  <1>2. /\ at[h].pc = "reply" /\ Done(h) /\ UNCHANGED bridge /\ accounts' = accounts /\ gateway' = gateway
        /\ nextCommandID' = nextCommandID
        /\ received' = received \/ received' = [received EXCEPT ![at[h].tab] = @ \cup at[h].took]
    BY DEF PollReply
  <1>3. FramesKept /\ Moves(h)
    BY <1>1, <1>2, DoneStep
  <1>4. at[h].pc \notin Ending
    BY <1>2 DEF Ending
  <1>5. CASE received' = received
    BY <1>1, <1>2, <1>3, <1>4, <1>5, SameKeeps, RequestInv
  <1>6. CASE received' = [received EXCEPT ![at[h].tab] = @ \cup at[h].took]
    <2>1. /\ link' = link /\ pending' = pending /\ inflight' = inflight /\ acks' = acks /\ feedback' = feedback
      BY <1>2 DEF bridge
    <2>2. Sent' = Sent
      BY <1>2 DEF Sent
    <2>3. received \in [Tabs -> SUBSET Sent] /\ at[h].took \subseteq Sent
      BY <1>1, Facts DEF Typed, QueueTyped
    <2>4. received' \in [Tabs -> SUBSET Sent] /\ \A tab \in Tabs : received'[tab] \subseteq received[tab] \cup at[h].took
      BY <1>6, <2>3
    <2>5. QueueTyped'
      BY <1>1, <1>2, <2>1, <2>2, <2>4 DEF Typed, QueueTyped
    <2>6. FramesTyped'
      BY <1>1, <1>3, <2>2 DEF Typed, FramesTyped, FramesKept
    <2>7. Taken' \subseteq Taken
      <3>1. UNION {received'[tab] : tab \in Tabs} \subseteq (UNION {received[tab] : tab \in Tabs}) \cup at[h].took
        <4>1. ASSUME NEW x, NEW tab \in Tabs, x \in received'[tab]
              PROVE  x \in (UNION {received[t] : t \in Tabs}) \cup at[h].took
          BY <2>4, <4>1
        <4>2. QED
          BY <4>1
      <3>2. UNION {at'[g].took : g \in Handlers} \subseteq UNION {at[g].took : g \in Handlers}
        BY <1>3 DEF FramesKept
      <3>3. at[h].took \subseteq UNION {at[g].took : g \in Handlers}
        OBVIOUS
      <3>4. Taken' = inflight' \cup (UNION {received'[tab] : tab \in Tabs}) \cup UNION {at'[g].took : g \in Handlers}
        BY DEF Taken, Handed
      <3>5. Taken = inflight \cup (UNION {received[tab] : tab \in Tabs}) \cup UNION {at[g].took : g \in Handlers}
        BY DEF Taken, Handed
      <3>6. QED
        BY <2>1, <3>1, <3>2, <3>3, <3>4, <3>5
    <2>8. Ordered(pending', Taken')
      BY <1>1, <2>1, <2>7, OrderedFewer
    <2>9. DownInv' /\ PlaybackIsLive' /\ link' \in Links /\ feedback' \in Feedbacks
      BY <1>1, <2>1, Facts DEF DownInv, PlaybackIsLive
    <2>10. CommandOfSession'
      <3>1. \A d \in Callers : at'[d] = at[d]
        BY <1>3 DEF FramesKept
      <3>2. QED
        BY <1>1, <2>1, <3>1 DEF CommandOfSession, Waiting
    <2>11. \A g \in Handlers : at[g].pc \in Ending => at'[g] = at[g]
      BY <1>3, <1>4 DEF Moves
    <2>12. QED
      BY <1>2, <2>5, <2>6, <2>8, <2>9, <2>10, <2>11, QueueInv
  <1>7. QED
    BY <1>2, <1>5, <1>6
-----------------------------------------------------------------------------
(* The theorems.                                                           *)

LEMMA InitIInv == Init => IInv
  <1> SUFFICES ASSUME Init PROVE IInv
    OBVIOUS
  <1>1. /\ link = [session |-> 0, retired |-> FALSE, client |-> None, connected |-> FALSE, overdue |-> FALSE]
        /\ pending = <<>> /\ inflight = {} /\ acks = {}
        /\ feedback = [active |-> FALSE, stream |-> None, command |-> 0, reports |-> 0, playback |-> None]
        /\ accounts = FALSE
        /\ gateway = [lease |-> None, sequence |-> 0, stopping |-> FALSE, stranded |-> FALSE]
        /\ at = [g \in Callers \cup Handlers |-> IF g \in Callers THEN IdleCaller ELSE IdleHandler]
        /\ nextCommandID = 1 /\ received = [tab \in Tabs |-> {}]
    BY DEF Init
  <1>2. link \in Links /\ feedback \in Feedbacks /\ accounts \in BOOLEAN /\ gateway \in Gateways /\ LeaseTyped(gateway.lease)
    <2>1. 0 \in Nat /\ FALSE \in BOOLEAN
      OBVIOUS
    <2>2. QED
      BY <1>1, <2>1 DEF Links, Feedbacks, Gateways, PlayedBy, LeaseTyped
  <1>3. QueueTyped
    <2>1. nextCommandID \in 1 .. MaxCommands + 1 /\ QueueLimit \in Nat
      BY <1>1, BridgeAssumption
    <2>2. QED
      BY <1>1, <2>1, OrderedEmpty DEF QueueTyped
  <1>4. IdleCaller \in CallerFrames /\ IdleCaller.pc = "idle"
    BY DEF IdleCaller, CallerFrames
  <1>5. IdleHandler \in HandlerFrames /\ IdleHandler.took = {} /\ Placed(IdleHandler)
    BY DEF IdleHandler, HandlerFrames, HandlerPlaces, Placed, Ending
  <1> HIDE DEF IdleCaller, IdleHandler
  <1>6. /\ at \in [Callers \cup Handlers -> CallerFrames \cup HandlerFrames]
        /\ (\A c \in Callers : at[c] = IdleCaller) /\ \A h \in Handlers : at[h] = IdleHandler
    BY <1>1, <1>4, <1>5, BridgeAssumption
  <1>7. FramesTyped
    BY <1>4, <1>5, <1>6 DEF FramesTyped
  <1>8. Ordered(pending, Taken) /\ DownInv
    BY <1>1, OrderedEmpty DEF DownInv
  <1>9. CommandOfSession
    BY <1>1, OrderedEmpty DEF CommandOfSession
  <1>10. PlaybackIsLive /\ StoppingEnds
    BY <1>1 DEF PlaybackIsLive, StoppingEnds
  <1>11. QED
    BY <1>2, <1>3, <1>7, <1>8, <1>9, <1>10 DEF IInv, Typed

LEMMA NextIInv == IInv /\ [Next]_vars => IInv'
  <1> SUFFICES ASSUME IInv, [Next]_vars PROVE IInv'
    OBVIOUS
  <1>1. CASE \E c \in Callers : CallerStep(c)
    <2>1. PICK c \in Callers : CallerStep(c)
      BY <1>1
    <2>2. CASE \E path \in Paths, stream \in Streams, bound \in 0 .. link.session : SendCommand(c, path, stream, bound)
      BY <2>2, SendStep
    <2>3. CASE SendAnswered(c)
      BY <2>3, AnsweredStep
    <2>4. CASE SendGivesUp(c) \/ SendCanceled(c)
      BY <2>4, RemovedStep DEF SendGivesUp, SendCanceled
    <2>5. QED
      BY <2>1, <2>2, <2>3, <2>4 DEF CallerStep
  <1>2. CASE \E h \in Handlers : LocalStep(h)
    BY <1>2, BeginStep, ConnectLocalStep, StatusLocalStep, DisconnectLocalStep, AckLocalStep DEF LocalStep
  <1>3. CASE \E h \in Handlers : LeasedStep(h)
    BY <1>3, RegisterStep, StatusLeasedStep, DisconnectStep, PollLeasedStep, AckLeasedStep,
       ConfirmStep, FinishStep, LifetimeStep, FinishLostStep DEF LeasedStep
  <1>4. CASE \E h \in Handlers : NextCommands(h) \/ PollReply(h)
    BY <1>4, NextCommandsStep, PollReplyStep
  <1>5. CASE RemoveConnection \/ RequireAuthentication \/ LinkGoesStale
    BY <1>5, RemoveStep, RequireStep, StaleStep
  <1>6. CASE UNCHANGED vars
    <2>1. UNCHANGED bridge /\ accounts' = accounts /\ gateway' = gateway /\ at' = at
          /\ nextCommandID' = nextCommandID /\ received' = received
      BY <1>6 DEF vars
    <2>2. Keeps /\ FramesKept /\ accounts' \in BOOLEAN
      BY <2>1, Start, SameKeeps, SameFrames
    <2>3. GatewayKept
      <3>1. Gen' = Gen
        BY <2>1 DEF Gen
      <3>2. QED
        BY <2>1, <3>1, Start, StoppingStays, SameGateway
    <2>4. QED
      BY <2>1, <2>2, <2>3, KeptInv
  <1>7. QED
    BY <1>1, <1>2, <1>3, <1>4, <1>5, <1>6 DEF Next

(* The bridge, the gateway and the frames of callers and handlers keep their *)
(* types; the queue, which drops its oldest command when it is full, keeps    *)
(* its limit, and only commands that were numbered are anywhere.              *)
THEOREM BridgeTypeCorrect == Spec => []Typed
  <1>1. IInv => Typed
    BY DEF IInv
  <1>2. QED
    BY <1>1, InitIInv, NextIInv, PTL DEF Spec

(* SendCommand queues for the session its transport was made for, and every  *)
(* connection and disconnection fails what is queued or fetched: no tab of a  *)
(* later session is handed a command of an earlier one.                       *)
THEOREM CommandsStayInSession == Spec => []CommandOfSession
  <1>1. IInv => CommandOfSession
    BY DEF IInv
  <1>2. QED
    BY <1>1, InitIInv, NextIInv, PTL DEF Spec

(* NextCommands takes batches from the front, SendCommand appends at the end, *)
(* a full queue drops its oldest and a caller that gives up takes its own:    *)
(* what tabs are handed is in the order it was sent, for any queue, batch     *)
(* and number of pollers.                                                     *)
THEOREM CommandsInOrder == Spec => []HandedInOrder
  <1>1. IInv => HandedInOrder
    BY DEF IInv, Ordered, Taken, HandedInOrder
  <1>2. QED
    BY <1>1, InitIInv, NextIInv, PTL DEF Spec

(* acceptPlaybackLocked, preparePlaybackCommandLocked and every disconnect:   *)
(* no report of another stream, or of a link that is down, is believed.       *)
THEOREM ReportsAreLive == Spec => []PlaybackIsLive
  <1>1. IInv => PlaybackIsLive
    BY DEF IInv
  <1>2. QED
    BY <1>1, InitIInv, NextIInv, PTL DEF Spec

(* Whoever sets stopping ends the lease it set it for or finds that another   *)
(* has: the gateway is never left refusing leases with nobody to end it,      *)
(* unless the connection was removed meanwhile.                               *)
THEOREM GatewayIsEnded == Spec => []StoppingEnds
  <1>1. IInv => StoppingEnds
    BY DEF IInv
  <1>2. QED
    BY <1>1, InitIInv, NextIInv, PTL DEF Spec
=============================================================================
