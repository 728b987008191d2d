--------------------------- MODULE NativeBluetooth ---------------------------
(***************************************************************************)
(* The Bluetooth link that the host owns: NativeBluetoothOwner, which sets  *)
(* connections up and retires them, and handyble.Session, which orders the  *)
(* RPCs of one connection.                                                  *)
(*                                                                         *)
(* Senders are goroutines in AppendPoints or Play of the engine's           *)
(* transport, Stoppers in an Emergency Stop, Connects and Disconnects in     *)
(* the handlers of those names.  A section of the owner's mu or of a         *)
(* session's mu is one step; a session's gate is held across writes.  The    *)
(* gate of the transport, which HandyTransport models, is its outcome: a     *)
(* command that holds hspMu was admitted when no Stop was in progress.       *)
(*                                                                         *)
(* The link is external: a write succeeds or fails, an advertisement is      *)
(* found or not, a link can be lost or a request be rejected at any time.    *)
(* Contexts end at any time.  Left out: the clock probe, which a new          *)
(* connection can do without, request numbers, the reported playback state,  *)
(* and the requests that concern no stream (windows, reads).                 *)
(* Handlers stop the engine before they disconnect; a new run may begin in    *)
(* between, so a Disconnect comes at any time.                                *)
(***************************************************************************)
EXTENDS Naturals, FiniteSets

CONSTANTS Senders, Stoppers, Connects, Disconnects, \* goroutines
          None,          \* no session, goroutine, or stream
          MaxLinks,      \* bound on the links that are opened
          MaxGeneration, \* bound on the owner's generation
          MaxStreams,    \* bound on the streams of the engine
          MaxChunks      \* bound on the chunks of an append

(* A goroutine does one of these things.                                    *)
ASSUME NativeAssumption ==
  /\ None \notin Nat \cup Senders \cup Stoppers \cup Connects \cup Disconnects
  /\ Senders \cap Stoppers = {} /\ Connects \cap Disconnects = {}
  /\ (Senders \cup Stoppers) \cap (Connects \cup Disconnects) = {}
  /\ {MaxLinks, MaxGeneration, MaxStreams, MaxChunks} \subseteq Nat \ {0}

VARIABLES
  session, generation,    \* NativeBluetoothOwner
  connectingDone, cancel, \* ... the Connect these belong to, or None
  current,                \* the operations whose generation is still their session's
  gate,                   \* of each session: the goroutine in it
  stream,                 \* ... stream, if streamSet, or None
  links,                  \* ... the link, "closed" once the session has err, or it was closed
  engine,                 \* the engine's transport: the generation it captured
  hspMu, stopping,        \* ... its lock, and the Stops in progress
  lastStream,             \* the engine's newest stream
  frame,                  \* where goroutines stand, and their local variables
  canceled,               \* the Connects whose context has ended
  device,                 \* external: the stream each link has set up, or None
  outdated                \* history: the Connects a Stop or Disconnect has passed

owner   == <<session, generation, connectingDone, cancel, canceled, outdated>>
rpcs    == <<current, gate, stream, links, device>>
engines == <<engine, hspMu, stopping, lastStream>>
vars   == <<owner, rpcs, engines, frame>>

Goroutines == Senders \cup Stoppers \cup Connects \cup Disconnects
Sessions   == 1 .. MaxLinks
Idle == [pc |-> "idle", sess |-> None, gen |-> 0, method |-> "stop", rpc |-> "stop",
         stream |-> None, left |-> 0, ok |-> FALSE]

Init ==
  /\ session = None /\ generation = 0 /\ connectingDone = None /\ cancel = None
  /\ current = {} /\ gate = [s \in Sessions |-> None]
  /\ stream = [s \in Sessions |-> None] /\ links = [s \in Sessions |-> "none"]
  /\ device = [s \in Sessions |-> None]
  /\ engine = 0 /\ hspMu = None /\ stopping = {} /\ lastStream = 1
  /\ frame = [g \in Goroutines |-> Idle]
  /\ canceled = {} /\ outdated = {}

Goto(g, pc) == frame' = [frame EXCEPT ![g].pc = pc]
Connecting == {k \in Connects : frame[k].pc \notin {"idle", "leave"}}

-----------------------------------------------------------------------------
(* handyble.Session *)

Valid(g) == links[frame[g].sess] = "open" /\ g \in current

(* generation++ of a session *)
Outdate(s) == current' = {g \in current : frame[g].sess # s}

(* Mutant: the stream survives Stop.                                       *)
InterruptKeepingStream(s) ==
  /\ Outdate(s)
  /\ UNCHANGED <<stream, links, gate, device>>

Interrupt(s) ==
  /\ Outdate(s)
  /\ stream' = [stream EXCEPT ![s] = None]
  /\ UNCHANGED <<links, gate, device>>

(* fail.  The goroutine that then closes the link, and the wait for it in   *)
(* Close, are left out: nothing else waits for them.                         *)
Fail(s) ==
  /\ links' = [links EXCEPT ![s] = "closed"]
  /\ Outdate(s)

(* readEvents: the link is lost, or the device rejects a request.  (A link    *)
(* that was refused has no reader; it may be lost all the same.)              *)
LinkFails(s) ==
  /\ links[s] = "open"
  /\ Fail(s)
  /\ UNCHANGED <<owner, engines, frame, gate, stream, device>>

(* Where Execute returns to: a command ends, a Disconnect closes. *)
Return(g) ==
  IF g \in Disconnects
  THEN /\ Goto(g, "close")
       /\ UNCHANGED <<hspMu, stopping>>
  ELSE /\ frame' = [frame EXCEPT ![g] = Idle]
       /\ hspMu' = IF hspMu = g THEN None ELSE hspMu
       /\ stopping' = stopping \ {g}

Execute(g) ==
  /\ frame[g].pc = "execute"
  /\ Goto(g, "gate")
  /\ current' = IF links[frame[g].sess] = "open" THEN current \cup {g} ELSE current
  /\ UNCHANGED <<owner, gate, stream, links, device, engines>>

(* The gate is not taken: the context ends, or the session has failed. *)
Abandon(g) ==
  /\ frame[g].pc = "gate"
  /\ Return(g)
  /\ current' = current \ {g}
  /\ UNCHANGED <<owner, gate, stream, links, device, engine, lastStream>>

FirstRPC(g) ==
  IF frame[g].method # "stop" /\ stream[frame[g].sess] # frame[g].stream
  THEN "setup" ELSE frame[g].method

(* The gate is taken; a session that failed or was interrupted since refuses, *)
(* and gives the gate back at once.                                           *)
EnterGate(g) ==
  LET s == frame[g].sess IN
  /\ frame[g].pc = "gate"
  /\ gate[s] = None
  /\ IF Valid(g)
     THEN /\ gate' = [gate EXCEPT ![s] = g]
          /\ frame' = [frame EXCEPT ![g].pc = "write", ![g].rpc = FirstRPC(g)]
          /\ UNCHANGED <<current, hspMu, stopping>>
     ELSE Return(g) /\ current' = current \ {g} /\ UNCHANGED gate
  /\ UNCHANGED <<owner, stream, links, device, engine, lastStream>>

(* What the device has set up after a write. *)
Effect(g) == CASE frame[g].rpc = "setup" -> frame[g].stream
               [] frame[g].rpc = "stop"  -> None
               [] OTHER               -> device[frame[g].sess]

(* An operation ends with the gate. *)
End(g) == /\ Return(g)
          /\ gate' = [gate EXCEPT ![frame[g].sess] = None]
          /\ current' = current \ {g}

(* The write of an rpc succeeds.  The operation goes on if it is still valid *)
(* and its context has not ended.                                            *)
Written(g) ==
  LET s == frame[g].sess
      last == frame[g].rpc # "setup" /\ (frame[g].rpc = "add" => frame[g].left = 1) IN
  /\ frame[g].pc = "write"
  /\ device' = [device EXCEPT ![s] = Effect(g)]
  /\ \/ /\ Valid(g)
        /\ stream' = [stream EXCEPT ![s] = CASE frame[g].rpc = "setup" -> frame[g].stream
                                             [] frame[g].rpc = "stop"  -> None
                                             [] OTHER               -> @]
        /\ IF last
           THEN End(g)
           ELSE /\ frame' = [frame EXCEPT ![g].rpc = frame[g].method,
                                    ![g].left = IF frame[g].rpc = "add" THEN @ - 1 ELSE @]
                /\ UNCHANGED <<current, gate, hspMu, stopping>>
     \/ End(g) /\ UNCHANGED stream
  /\ UNCHANGED <<owner, links, engine, lastStream>>

(* It fails, and may have taken effect. *)
WriteFails(g) ==
  LET s == frame[g].sess IN
  /\ frame[g].pc = "write"
  /\ Fail(s)
  /\ device' \in {device, [device EXCEPT ![s] = Effect(g)]}
  /\ gate' = [gate EXCEPT ![s] = None]
  /\ Return(g)
  /\ UNCHANGED <<owner, stream, engine, lastStream>>

-----------------------------------------------------------------------------
(* The channel of a transport, and the transport. *)

(* newMotionTransport: no engine is in a call, and no Stop has lifecycleMu. *)
NewTransport ==
  /\ session # None
  /\ hspMu = None /\ stopping = {}
  /\ engine # generation
  /\ engine' = generation
  /\ UNCHANGED <<owner, rpcs, frame, hspMu, stopping, lastStream>>

(* AppendPoints and Play, admitted and with hspMu. *)
Admit(c) ==
  /\ frame[c].pc = "idle"
  /\ engine # 0
  /\ hspMu = None /\ stopping = {}
  /\ hspMu' = c
  /\ \E m \in {"add", "play"}, x \in lastStream .. MaxStreams, n \in 1 .. MaxChunks :
       /\ m = "play" => n = 1
       /\ lastStream' = x
       /\ frame' = [frame EXCEPT ![c] = [Idle EXCEPT !.pc = "send", !.gen = engine, !.method = m,
                                               !.rpc = m, !.stream = x, !.left = n]]
  /\ UNCHANGED <<owner, rpcs, engine, stopping>>

(* nativeHandyChannel.SendCommand takes the session and compares generations *)
(* in one section.                                                           *)
SendCommand(g) ==
  /\ frame[g].pc = "send"
  /\ IF session # None /\ frame[g].gen = generation
     THEN /\ frame' = [frame EXCEPT ![g].pc = "execute", ![g].sess = session]
          /\ UNCHANGED <<hspMu, stopping>>
     ELSE Return(g)
  /\ UNCHANGED <<owner, rpcs, engine, lastStream>>

Overtake == outdated' = outdated \cup Connecting

(* Mutant: a pending connection is left alone.                             *)
InterruptSessionOnly ==
  /\ Overtake
  /\ IF session # None THEN Interrupt(session) ELSE UNCHANGED rpcs
  /\ UNCHANGED <<session, connectingDone, cancel, canceled, generation>>

(* NativeBluetoothOwner.Interrupt *)
InterruptOwner ==
  /\ Overtake
  /\ IF cancel # None
     THEN canceled' = canceled \cup {cancel} /\ cancel' = None /\ generation' = generation + 1
     ELSE UNCHANGED <<canceled, cancel, generation>>
  /\ IF session # None THEN Interrupt(session) ELSE UNCHANGED rpcs
  /\ UNCHANGED <<session, connectingDone>>

(* beginGlobalStop, before lifecycleMu is taken ... *)
EmergencyStop(p) ==
  /\ frame[p].pc = "idle"
  /\ generation < MaxGeneration /\ lastStream <= MaxStreams
  /\ InterruptOwner
  /\ Goto(p, "begin")
  /\ UNCHANGED engines

(* ... and HandyBluetoothTransport.Stop of the engine's transport.  If that *)
(* connection is retired it has nothing to do, and stopHandyOutsideEngine   *)
(* sends a Stop over a transport of its own.  The engine's run is over: the *)
(* next has a stream of its own.                                            *)
BeginStop(p) ==
  /\ frame[p].pc = "begin"
  /\ IF engine = generation
     THEN /\ stopping' = stopping \cup {p}
          /\ frame' = [frame EXCEPT ![p].pc = "hspMu", ![p].gen = engine]
     ELSE /\ frame' = [frame EXCEPT ![p] = IF session = None THEN Idle
                                     ELSE [Idle EXCEPT !.pc = "send", !.gen = generation]]
          /\ stopping' = IF session = None THEN stopping ELSE stopping \cup {p}
  /\ IF session # None THEN Interrupt(session) ELSE UNCHANGED rpcs
  /\ lastStream' = lastStream + 1
  /\ UNCHANGED <<owner, engine, hspMu>>

LockStop(p) ==
  /\ frame[p].pc = "hspMu"
  /\ hspMu = None
  /\ hspMu' = p
  /\ Goto(p, "send")
  /\ UNCHANGED <<owner, rpcs, engine, stopping, lastStream>>

-----------------------------------------------------------------------------
(* Connect *)

(* A live connection is kept; while one is set up the call is refused. *)
BeginConnect(k) ==
  /\ frame[k].pc = "idle"
  /\ connectingDone = None
  /\ session # None => links[session] # "open"
  /\ generation < MaxGeneration
  /\ \E s \in Sessions : links[s] = "none"
  /\ session' = None
  /\ generation' = generation + 1
  /\ cancel' = k /\ connectingDone' = k
  /\ frame' = [frame EXCEPT ![k] = [Idle EXCEPT !.pc = IF session = None THEN "dial" ELSE "old",
                                          !.sess = session, !.gen = generation + 1]]
  /\ canceled' = canceled \ {k}
  /\ outdated' = outdated \ {k}
  /\ UNCHANGED <<rpcs, engines>>

ContextEnds(k) ==
  /\ k \in Connecting \ canceled
  /\ canceled' = canceled \cup {k}
  /\ UNCHANGED <<session, generation, connectingDone, cancel, outdated, rpcs, engines, frame>>

(* Session.Close *)
Close(g, pc, next) ==
  /\ frame[g].pc = pc
  /\ Fail(frame[g].sess)
  /\ frame' = [frame EXCEPT ![g].pc = next, ![g].sess = None]
  /\ UNCHANGED <<owner, gate, stream, device, engines>>

CloseOld(k) == Close(k, "old", "dial")

(* A link that is open, or none: no device, a canceled search.  A device     *)
(* that NewSession refuses has no session to initialise.                     *)
Dial(k) ==
  /\ frame[k].pc = "dial"
  /\ \/ \E s \in Sessions, pc \in {"initialize", "publish"} :
          /\ links[s] = "none"
          /\ links' = [links EXCEPT ![s] = "open"]
          /\ frame' = [frame EXCEPT ![k].pc = pc, ![k].sess = s]
     \/ Goto(k, "publish") /\ UNCHANGED links
  /\ UNCHANGED <<owner, current, gate, stream, device, engines>>

(* Initialize writes a Stop and sets the last will; nobody else sees the     *)
(* session yet.  When the context ends before or during the Stop, Execute    *)
(* returns and the link stays open; a write or a last will that fails and a   *)
(* context that has ended at the end fail the session.                        *)
Initialize(k) ==
  LET s == frame[k].sess IN
  /\ frame[k].pc = "initialize"
  /\ \/ /\ links[s] = "open" /\ k \notin canceled
        /\ frame' = [frame EXCEPT ![k].pc = "publish", ![k].ok = TRUE]
        /\ UNCHANGED <<links, current>>
     \/ /\ k \in canceled
        /\ Goto(k, "publish")
        /\ UNCHANGED <<links, current>>
     \/ Fail(s) /\ Goto(k, "publish")
  /\ UNCHANGED <<owner, gate, stream, device, engines>>

(* Mutant: a setup that failed is taken to have closed its link.            *)
PublishOrForget(k) ==
  LET mine == frame[k].ok /\ frame[k].gen = generation /\ k \notin canceled IN
  /\ frame[k].pc = "publish"
  /\ cancel' = IF frame[k].gen = generation THEN None ELSE cancel
  /\ session' = IF mine THEN frame[k].sess ELSE session
  /\ Goto(k, IF mine \/ ~frame[k].ok THEN "leave" ELSE "discard")
  /\ UNCHANGED <<generation, connectingDone, canceled, outdated, rpcs, engines>>

(* A link that fails after Initialize is published with its error.             *)
Publish(k) ==
  LET mine == frame[k].ok /\ frame[k].gen = generation /\ k \notin canceled IN
  /\ frame[k].pc = "publish"
  /\ cancel' = IF frame[k].gen = generation THEN None ELSE cancel
  /\ session' = IF mine THEN frame[k].sess ELSE session
  /\ Goto(k, IF mine \/ frame[k].sess = None THEN "leave" ELSE "discard")
  /\ UNCHANGED <<generation, connectingDone, canceled, outdated, rpcs, engines>>

(* Session.Close, or Close of the link if there is no session. *)
Discard(k) == Close(k, "discard", "leave")

(* The deferred part. *)
Leave(k) ==
  /\ frame[k].pc = "leave"
  /\ connectingDone' = IF connectingDone = k THEN None ELSE connectingDone
  /\ frame' = [frame EXCEPT ![k] = Idle]
  /\ canceled' = canceled \ {k}
  /\ outdated' = outdated \ {k}
  /\ UNCHANGED <<session, generation, cancel, rpcs, engines>>

-----------------------------------------------------------------------------
(* Disconnect *)

Disconnect(d) ==
  /\ frame[d].pc = "idle"
  /\ generation < MaxGeneration
  /\ canceled' = IF cancel = None THEN canceled ELSE canceled \cup {cancel}
  /\ cancel' = None
  /\ session' = None
  /\ generation' = generation + 1
  /\ Overtake
  /\ frame' = [frame EXCEPT ![d] = [Idle EXCEPT !.pc = IF connectingDone = None THEN "stop" ELSE "wait",
                                          !.sess = session, !.stream = connectingDone]]
  /\ UNCHANGED <<connectingDone, rpcs, engines>>

(* The connection setup ends, or the context. *)
WaitConnecting(d) ==
  /\ frame[d].pc = "wait"
  /\ Goto(d, "stop")
  /\ UNCHANGED <<owner, rpcs, engines>>

(* The connection that was there is stopped. *)
StopRetired(d) ==
  /\ frame[d].pc = "stop"
  /\ IF frame[d].sess = None
     THEN frame' = [frame EXCEPT ![d] = Idle] /\ UNCHANGED rpcs
     ELSE Goto(d, "execute") /\ Interrupt(frame[d].sess)
  /\ UNCHANGED <<owner, engines>>

CloseRetired(d) == Close(d, "close", "idle")

-----------------------------------------------------------------------------
Next ==
  \/ \E s \in Sessions : LinkFails(s)
  \/ NewTransport
  \/ \E g \in Goroutines : \/ SendCommand(g) \/ Execute(g) \/ Abandon(g) \/ EnterGate(g)
                           \/ Written(g) \/ WriteFails(g)
  \/ \E c \in Senders : Admit(c)
  \/ \E p \in Stoppers : EmergencyStop(p) \/ BeginStop(p) \/ LockStop(p)
  \/ \E k \in Connects : \/ BeginConnect(k) \/ ContextEnds(k) \/ CloseOld(k) \/ Dial(k) \/ Initialize(k)
                         \/ Publish(k) \/ Discard(k) \/ Leave(k)
  \/ \E d \in Disconnects : \/ Disconnect(d) \/ WaitConnecting(d) \/ StopRetired(d)
                            \/ CloseRetired(d)

Spec == Init /\ [][Next]_vars

-----------------------------------------------------------------------------
(* "A global Stop cannot be followed by an old pending connection becoming  *)
(* ready", nor can a Disconnect: only a connection that neither has passed   *)
(* since its setup began becomes the owner's.                                *)
StopCancelsSetup ==
  [][session' \notin {session, None} =>
       \E k \in Connects \ outdated : frame[k].pc = "publish" /\ frame[k].sess = session']_vars

(* Every link that is open is the owner's, or a Connect that sets it up or    *)
(* replaces it, or a Disconnect that retires it, has still to publish or to   *)
(* close it: setups that are canceled, refused or overtaken leave none.       *)
NoOrphanLink ==
  \A s \in Sessions :
    links[s] = "open" => s = session \/ \E g \in Connects \cup Disconnects : frame[g].sess = s /\ frame[g].pc # "leave"

(* What the session believes is set up: points and Play go to the stream that *)
(* the device has set up last, with no Stop since, whatever contexts, Stops    *)
(* and failed writes did between.                                              *)
WrittenToItsStream ==
  \A g \in Senders : frame[g].pc = "write" /\ frame[g].rpc # "setup" => device[frame[g].sess] = frame[g].stream
=============================================================================
