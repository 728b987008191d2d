------------------------ MODULE NativeBluetoothProofs ------------------------
(***************************************************************************)
(* NativeBluetooth for any number of goroutines, links and streams.         *)
(*                                                                         *)
(* IInv is proved in stages, each for all the actions: what every action     *)
(* does to the variables (the Effect lemmas) and the types; the setups;      *)
(* who has which link; and, with these, the streams.  A sender writes points *)
(* without a setup only if the session still believes that their stream is   *)
(* set up.  That belief may be wrong (Stale): a Stop wrote to the device      *)
(* after an Interrupt had passed, or a setup whose context ended did.  The    *)
(* invariant says why no command of that stream comes to the gate any more.   *)
(***************************************************************************)
EXTENDS NativeBluetooth, Integers, TLAPS

Commands == Senders \cup Stoppers

(* Where an operation of a session stands.                                 *)
Calling == {"execute", "gate", "write"}

(* Where each kind of goroutine can stand, and what its frame then has.    *)
Places(g) == CASE g \in Senders  -> {"idle", "send"} \cup Calling
               [] g \in Stoppers -> {"idle", "begin", "hspMu", "send"} \cup Calling
               [] g \in Connects -> {"idle", "old", "dial", "initialize", "publish", "discard", "leave"}
               [] OTHER          -> {"idle", "wait", "stop", "close"} \cup Calling

AllPlaces == {"idle", "send", "begin", "hspMu", "old", "dial", "initialize", "publish", "discard", "leave",
               "wait", "stop", "close"}
               \cup Calling

Frames == [pc : AllPlaces, sess : Sessions \cup {None}, gen : Nat, method : {"add", "play", "stop"},
           rpc : {"setup", "add", "play", "stop"}, stream : Nat \cup Connects \cup {None}, left : Int, ok : BOOLEAN]

(* The types of the variables, by component.                               *)
OwnerTyped ==
  /\ session \in Sessions \cup {None} /\ generation \in Nat
  /\ connectingDone \in Connects \cup {None} /\ cancel \in Connects \cup {None}

LinksTyped ==
  /\ gate \in [Sessions -> Goroutines \cup {None}] /\ links \in [Sessions -> {"none", "open", "closed"}]
  /\ stream \in [Sessions -> Nat \cup {None}] /\ device \in [Sessions -> Nat \cup {None}]

EngineTyped ==
  engine \in Nat /\ hspMu \in Goroutines \cup {None} /\ stopping \subseteq Goroutines /\ lastStream \in Nat

Placed(g, f) ==
  /\ f.pc \in Places(g)
  /\ f.pc \in {"idle", "begin", "hspMu", "send", "dial"} => f.sess = None
  /\ f.pc \in {"old", "discard", "close"} \cup Calling => f.sess # None
  /\ f.pc = "publish" /\ f.ok => f.sess # None
  /\ f.pc = "initialize" => f.sess # None
  /\ f.pc \in {"old", "dial", "initialize"} => ~f.ok
  /\ g \in Senders /\ f.pc # "idle" => f.stream \in Nat /\ f.method # "stop" /\ f.rpc \in {"setup", f.method}
  /\ g \notin Senders => f.method = "stop" /\ f.rpc = "stop"

Typed ==
  /\ OwnerTyped /\ LinksTyped /\ EngineTyped
  /\ frame \in [Goroutines -> Frames] /\ \A g \in Goroutines : Placed(g, frame[g])

(* A setup of the current generation can still be canceled; one that a Stop *)
(* or a Disconnect has passed is of an older generation, or canceled.       *)
SettingUp(k) == frame[k].pc \in {"old", "dial", "initialize", "publish"}

SetupInv ==
  \A k \in Connects :
     SettingUp(k) => /\ frame[k].gen <= generation
                     /\ frame[k].gen = generation => cancel = k
                     /\ k \in outdated => k \in canceled \/ frame[k].gen # generation

(* Who has a link that is open: the owner, or who publishes or closes it.   *)
Held(s) == \/ s = session
           \/ \E g \in Connects \cup Disconnects : frame[g].sess = s /\ frame[g].pc # "leave"

(* Only its Connect knows of a session that is not published.              *)
Private(k) == frame[k].pc \in {"initialize", "publish", "discard"} /\ frame[k].sess # None

LinkInv ==
  /\ cancel # None => session = None
  /\ \A s \in Sessions : links[s] = "none" =>
       s # session /\ stream[s] = None /\ \A g \in Goroutines : frame[g].sess # s
  /\ \A k \in Connects : Private(k) =>
       /\ frame[k].sess # session /\ stream[frame[k].sess] = None
       /\ \A g \in Goroutines \ {k} : frame[g].sess # frame[k].sess
  /\ \A d \in Disconnects : frame[d].sess # None => frame[d].sess # session
  /\ \A s \in Sessions : links[s] = "open" => Held(s)

(* A sender in a command has hspMu, and its generation is the transport's.  *)
(* A Stop that is not counted in hspMu goes to another session, which has    *)
(* nothing set up.  A session is used with one generation only.              *)
CallInv ==
  /\ \A c \in Senders : frame[c].pc # "idle" => hspMu = c /\ frame[c].gen = engine
  /\ \A p \in Stoppers :
       /\ frame[p].pc \in {"hspMu", "send"} \cup Calling => p \in stopping
       /\ frame[p].pc \in {"send"} \cup Calling =>
            hspMu = p \/ (frame[p].gen # engine /\ (frame[p].sess # None => stream[frame[p].sess] = None))
  /\ \A g \in Commands : frame[g].sess # None /\ frame[g].sess = session => frame[g].gen = generation
  /\ \A g, h \in Commands : frame[g].sess # None /\ frame[g].sess = frame[h].sess => frame[g].gen = frame[h].gen
  /\ session # None => stream[session] = None \/ engine = generation

(* Streams only grow, and those of before a Stop are over.                 *)
StreamInv ==
  /\ \A s \in Sessions : stream[s] # None =>
       /\ stream[s] <= lastStream /\ (stopping # {} => stream[s] # lastStream)
       /\ \A c \in Senders : frame[c].pc # "idle" => stream[s] <= frame[c].stream
  /\ \A c \in Senders : frame[c].pc # "idle" =>
       frame[c].stream <= lastStream /\ (stopping # {} => frame[c].stream # lastStream)

GateInv == \A g \in Goroutines : frame[g].pc = "write" => gate[frame[g].sess] = g

(* The session believes in a stream that the device has lost.              *)
Stale(s) == links[s] = "open" /\ stream[s] # None /\ device[s] # stream[s]

(* c may still come to the gate of s.                                      *)
Comes(c, s) == IF frame[c].pc = "send" THEN s = session ELSE frame[c].pc \in {"execute", "gate"} /\ frame[c].sess = s

(* Of a stream that a device has lost no command comes any more.           *)
MatchInv ==
  \A s \in Sessions : Stale(s) =>
    /\ s = session => stream[s] # lastStream
    /\ \A c \in Senders : Comes(c, s) => frame[c].stream # stream[s]

(* Once its connection is interrupted, a Disconnect finds a stream there    *)
(* only by a command that was writing.                                      *)
RetiredInv ==
  \A d \in Disconnects : frame[d].pc \in Calling /\ stream[frame[d].sess] # None =>
    \A c \in Senders : frame[c].sess = frame[d].sess => frame[c].pc = "write"

SInv == CallInv /\ StreamInv /\ GateInv /\ MatchInv /\ RetiredInv /\ WrittenToItsStream

IInv == Typed /\ SetupInv /\ LinkInv /\ SInv
-----------------------------------------------------------------------------
(* Goroutines and their places.                                            *)

LEMMA Kinds ==
  /\ None \notin Goroutines /\ None \notin Sessions /\ None \notin Nat
  /\ \A g \in Goroutines : /\ g \in Senders => g \notin Stoppers \cup Connects \cup Disconnects
                           /\ g \in Stoppers => g \notin Senders \cup Connects \cup Disconnects
                           /\ g \in Connects => g \notin Senders \cup Stoppers \cup Disconnects
                           /\ g \in Disconnects => g \notin Senders \cup Stoppers \cup Connects
  BY NativeAssumption DEF Goroutines, Sessions

(* What the place of a goroutine tells of it.                              *)
LEMMA PlaceOf ==
  ASSUME Typed, NEW g \in Goroutines
  PROVE  /\ frame[g] \in Frames /\ Placed(g, frame[g]) /\ frame[g].pc \in Places(g)
         /\ frame[g].pc \in {"send", "begin", "hspMu"} => g \in Commands
         /\ frame[g].pc \in Calling => g \in Commands \cup Disconnects
         /\ frame[g].pc \in {"old", "dial", "initialize", "publish", "discard", "leave"} => g \in Connects
         /\ frame[g].pc \in {"wait", "stop", "close"} => g \in Disconnects
         /\ frame[g].pc \in {"begin", "hspMu"} => g \in Stoppers
  <1>1. frame[g] \in Frames /\ Placed(g, frame[g])
    BY DEF Typed
  <1>2. frame[g].pc \in Places(g)
    BY <1>1 DEF Placed
  <1>3. QED
    BY <1>1, <1>2 DEF Places, Calling, Commands, Goroutines

Others(g) == \A h \in Goroutines \ {g} : frame'[h] = frame[h]
Kept(g)   == /\ frame'[g].sess = frame[g].sess /\ frame'[g].gen = frame[g].gen
             /\ frame'[g].method = frame[g].method /\ frame'[g].rpc = frame[g].rpc
             /\ frame'[g].stream = frame[g].stream
Resets(g) == frame'[g] = Idle /\ Others(g)
Moves(g, pc) == frame'[g].pc = pc /\ Kept(g) /\ Others(g)

FramesTyped == frame \in [Goroutines -> Frames] /\ \A g \in Goroutines : Placed(g, frame[g])

(* A goroutine gets a new frame.                                           *)
LEMMA FrameStep ==
  ASSUME Typed, NEW g \in Goroutines, NEW f \in Frames, Placed(g, f), frame' = [frame EXCEPT ![g] = f]
  PROVE  FramesTyped' /\ frame'[g] = f /\ Others(g)
  BY DEF Typed, FramesTyped, Others, Placed

LEMMA IdleFrame ==
  Idle \in Frames /\ Idle.pc = "idle" /\ Idle.sess = None /\ Idle.gen = 0 /\ Idle.method = "stop" /\ Idle.rpc = "stop"
  <1>1. /\ "idle" \in AllPlaces /\ 0 \in Nat /\ 0 \in Int /\ FALSE \in BOOLEAN
        /\ None \in Sessions \cup {None} /\ None \in Nat \cup Connects \cup {None}
    BY DEF AllPlaces
  <1>2. QED
    BY <1>1 DEF Idle, Frames

LEMMA ResetStep ==
  ASSUME Typed, NEW g \in Goroutines, frame' = [frame EXCEPT ![g] = Idle]
  PROVE  FramesTyped' /\ Resets(g)
  <1>1. "idle" \in Places(g)
    BY DEF Places
  <1>2. Placed(g, Idle)
    BY <1>1, IdleFrame DEF Placed, Calling
  <1>3. QED
    BY <1>2, IdleFrame, FrameStep DEF Resets

(* A goroutine goes on to another place.                                   *)
LEMMA GotoStep ==
  ASSUME Typed, NEW g \in Goroutines, NEW pc \in AllPlaces, Goto(g, pc),
         pc \in Places(g), pc \notin {"idle", "begin", "hspMu", "send", "dial"} \/ frame[g].sess = None,
         pc \in {"old", "discard", "close"} \cup Calling => frame[g].sess # None,
         pc = "publish" => ~frame[g].ok, pc \notin {"old", "dial", "initialize"},
         g \in Senders => frame[g].pc # "idle"
  PROVE  FramesTyped' /\ Moves(g, pc) /\ frame'[g].ok = frame[g].ok
  <1> DEFINE f == [frame[g] EXCEPT !.pc = pc]
  <1>1. frame[g] \in Frames /\ Placed(g, frame[g])
    BY PlaceOf
  <1>2. /\ f \in Frames /\ f.pc = pc /\ f.sess = frame[g].sess /\ f.gen = frame[g].gen /\ f.method = frame[g].method
        /\ f.rpc = frame[g].rpc /\ f.stream = frame[g].stream /\ f.ok = frame[g].ok
    BY <1>1 DEF Frames
  <1>3. frame' = [frame EXCEPT ![g] = f]
    BY DEF Goto, Typed
  <1> HIDE DEF f
  <1>4. Placed(g, f)
    BY <1>1, <1>2 DEF Placed
  <1>5. QED
    BY <1>2, <1>3, <1>4, FrameStep DEF Moves, Kept

(* Where Execute returns to.                                               *)
LEMMA ReturnStep ==
  ASSUME Typed, NEW g \in Goroutines, Return(g), frame[g].pc \in {"send"} \cup Calling
  PROVE  /\ FramesTyped' /\ hspMu' \in {hspMu, None} /\ stopping' \subseteq stopping /\ Others(g)
         /\ g \in Disconnects => Moves(g, "close") /\ hspMu' = hspMu /\ stopping' = stopping
         /\ g \notin Disconnects => /\ Resets(g) /\ hspMu' = (IF hspMu = g THEN None ELSE hspMu)
                                    /\ stopping' = stopping \ {g}
  <1>1. CASE g \in Disconnects
    <2>1. Goto(g, "close") /\ hspMu' = hspMu /\ stopping' = stopping
      BY <1>1 DEF Return
    <2>2. frame[g].pc \in Calling /\ frame[g].sess # None
      BY <1>1, PlaceOf, Kinds DEF Placed, Commands
    <2>3. "close" \in Places(g) /\ "close" \in AllPlaces
      BY <1>1, Kinds DEF Places, AllPlaces
    <2>4. FramesTyped' /\ Moves(g, "close")
      BY <1>1, <2>1, <2>2, <2>3, GotoStep, Kinds
    <2>5. QED
      BY <1>1, <2>1, <2>4 DEF Moves
  <1>2. CASE g \notin Disconnects
    <2>1. /\ frame' = [frame EXCEPT ![g] = Idle] /\ hspMu' = (IF hspMu = g THEN None ELSE hspMu)
          /\ stopping' = stopping \ {g}
      BY <1>2 DEF Return
    <2>2. QED
      BY <1>2, <2>1, ResetStep DEF Resets
  <1>3. QED
    BY <1>1, <1>2
-----------------------------------------------------------------------------
(* What the steps do: the sessions.                                        *)

OwnerSame  == /\ session' = session /\ generation' = generation /\ connectingDone' = connectingDone
              /\ cancel' = cancel /\ canceled' = canceled /\ outdated' = outdated
EngineSame == engine' = engine /\ hspMu' = hspMu /\ stopping' = stopping /\ lastStream' = lastStream
RpcSame    == gate' = gate /\ stream' = stream /\ links' = links /\ device' = device

(* f changes at s alone.                                                   *)
Only(f, g, s, v) == g[s] = v /\ \A t \in Sessions \ {s} : g[t] = f[t]

(* A session's stream is forgotten.                                        *)
Forgets(s) == /\ Only(stream, stream', s, None) /\ stream' \in [Sessions -> Nat \cup {None}]
              /\ gate' = gate /\ links' = links /\ device' = device
Closes(s)  == /\ Only(links, links', s, "closed") /\ links' \in [Sessions -> {"none", "open", "closed"}]

LEMMA OwnerStep == Typed /\ UNCHANGED owner => OwnerTyped' /\ OwnerSame
  BY DEF Typed, OwnerTyped, owner, OwnerSame

LEMMA EngineStep == Typed /\ UNCHANGED engines => EngineTyped' /\ EngineSame
  BY DEF Typed, EngineTyped, engines, EngineSame

LEMMA RpcStep == Typed /\ UNCHANGED rpcs => LinksTyped' /\ RpcSame
  BY DEF Typed, LinksTyped, rpcs, RpcSame

LEMMA TypedParts ==
  OwnerTyped' /\ LinksTyped' /\ EngineTyped' /\ FramesTyped' => Typed'
  BY DEF Typed, FramesTyped

LEMMA InterruptStep ==
  ASSUME Typed, NEW s \in Sessions, Interrupt(s)
  PROVE  Forgets(s) /\ LinksTyped'
  BY DEF Typed, LinksTyped, Interrupt, Forgets, Only

LEMMA FailStep ==
  ASSUME Typed, NEW s \in Sessions, Fail(s)
  PROVE  Closes(s)
  BY DEF Typed, LinksTyped, Fail, Closes, Only

(* An operation, or a Close, has a session.                                *)
LEMMA SessOf ==
  ASSUME Typed, NEW g \in Goroutines
  PROVE  /\ frame[g].pc \in {"old", "discard", "close"} \cup Calling => frame[g].sess \in Sessions
         /\ frame[g].sess \in Sessions \cup {None} /\ frame[g].gen \in Nat /\ frame[g].left \in Int
         /\ g \in Senders /\ frame[g].pc # "idle" => frame[g].stream \in Nat
  BY PlaceOf DEF Placed, Frames

LEMMA LinkFailsEffect ==
  ASSUME Typed, NEW s \in Sessions, LinkFails(s)
  PROVE  Typed' /\ OwnerSame /\ EngineSame /\ frame' = frame /\ gate' = gate /\ stream' = stream /\ device' = device
         /\ Closes(s)
  <1>1. Closes(s)
    BY FailStep DEF LinkFails
  <1>2. UNCHANGED owner /\ UNCHANGED engines /\ frame' = frame /\ gate' = gate /\ stream' = stream /\ device' = device
    BY DEF LinkFails
  <1>3. LinksTyped'
    BY <1>1, <1>2 DEF Typed, LinksTyped, Closes
  <1>4. FramesTyped'
    BY <1>2 DEF Typed, FramesTyped, Placed
  <1>5. QED
    BY <1>1, <1>2, <1>3, <1>4, OwnerStep, EngineStep, TypedParts

LEMMA ExecuteEffect ==
  ASSUME Typed, NEW g \in Goroutines, Execute(g)
  PROVE  Typed' /\ OwnerSame /\ EngineSame /\ RpcSame /\ frame[g].pc = "execute" /\ Moves(g, "gate")
  <1>1. /\ frame[g].pc = "execute" /\ Goto(g, "gate")
        /\ UNCHANGED owner /\ UNCHANGED engines /\ RpcSame
    BY DEF Execute, RpcSame
  <1>2. frame[g].sess # None /\ "gate" \in AllPlaces /\ "gate" \in Calling
    BY <1>1, PlaceOf DEF Placed, AllPlaces, Calling
  <1>3. "gate" \in Places(g)
    BY <1>1, PlaceOf, Kinds DEF Places, Calling, Commands
  <1>4. FramesTyped' /\ Moves(g, "gate")
    BY <1>1, <1>2, <1>3, GotoStep
  <1>5. LinksTyped'
    BY <1>1 DEF RpcSame, Typed, LinksTyped
  <1>6. QED
    BY <1>1, <1>4, <1>5, OwnerStep, EngineStep, TypedParts

(* An operation ends, or a command is refused.                             *)
Leaves(g) ==
  /\ frame[g].pc \in {"send"} \cup Calling /\ Others(g)
  /\ OwnerSame /\ engine' = engine /\ lastStream' = lastStream
  /\ g \in Disconnects => Moves(g, "close") /\ hspMu' = hspMu /\ stopping' = stopping
  /\ g \notin Disconnects => /\ Resets(g) /\ hspMu' = (IF hspMu = g THEN None ELSE hspMu)
                             /\ stopping' = stopping \ {g}

LEMMA LeavesStep ==
  ASSUME Typed, NEW g \in Goroutines, Return(g), frame[g].pc \in {"send"} \cup Calling,
         UNCHANGED owner, engine' = engine, lastStream' = lastStream
  PROVE  Leaves(g) /\ OwnerTyped' /\ EngineTyped' /\ FramesTyped'
  <1>1. /\ FramesTyped' /\ hspMu' \in {hspMu, None} /\ stopping' \subseteq stopping /\ Others(g)
        /\ g \in Disconnects => Moves(g, "close") /\ hspMu' = hspMu /\ stopping' = stopping
        /\ g \notin Disconnects => /\ Resets(g) /\ hspMu' = (IF hspMu = g THEN None ELSE hspMu)
                                   /\ stopping' = stopping \ {g}
    BY ReturnStep
  <1>2. EngineTyped'
    BY <1>1 DEF Typed, EngineTyped
  <1>3. QED
    BY <1>1, <1>2, OwnerStep DEF Leaves

LEMMA AbandonEffect ==
  ASSUME Typed, NEW g \in Goroutines, Abandon(g)
  PROVE  Typed' /\ Leaves(g) /\ RpcSame
  <1>1. frame[g].pc = "gate" /\ Return(g) /\ UNCHANGED owner /\ engine' = engine /\ lastStream' = lastStream /\ RpcSame
    BY DEF Abandon, RpcSame
  <1>2. LinksTyped'
    BY <1>1 DEF RpcSame, Typed, LinksTyped
  <1>3. QED
    BY <1>1, <1>2, LeavesStep, TypedParts DEF Calling

(* The gate is taken: what the first write is.                             *)
Enters(g) ==
  /\ frame[g].pc = "gate" /\ gate[frame[g].sess] = None /\ links[frame[g].sess] = "open"
  /\ frame'[g].pc = "write" /\ frame'[g].sess = frame[g].sess /\ frame'[g].gen = frame[g].gen
  /\ frame'[g].method = frame[g].method /\ frame'[g].stream = frame[g].stream
  /\ frame'[g].rpc = FirstRPC(g) /\ Others(g)
  /\ Only(gate, gate', frame[g].sess, g)
  /\ OwnerSame /\ EngineSame /\ stream' = stream /\ links' = links /\ device' = device

LEMMA EnterGateEffect ==
  ASSUME Typed, NEW g \in Goroutines, EnterGate(g)
  PROVE  Typed' /\ (Enters(g) \/ (Leaves(g) /\ RpcSame))
  <1> DEFINE s == frame[g].sess
  <1>1. /\ frame[g].pc = "gate" /\ gate[s] = None
        /\ UNCHANGED owner /\ engine' = engine /\ lastStream' = lastStream
        /\ stream' = stream /\ links' = links /\ device' = device
    BY DEF EnterGate
  <1>2. s \in Sessions /\ frame[g] \in Frames /\ Placed(g, frame[g])
    BY <1>1, SessOf, PlaceOf DEF Calling
  <1>3. CASE Valid(g)
    <2> DEFINE f == [frame[g] EXCEPT !.pc = "write", !.rpc = FirstRPC(g)]
    <2>1. /\ gate' = [gate EXCEPT ![s] = g] /\ hspMu' = hspMu /\ stopping' = stopping
          /\ frame' = [frame EXCEPT ![g].pc = "write", ![g].rpc = FirstRPC(g)] /\ links[s] = "open"
      BY <1>3 DEF EnterGate, Valid
    <2>2. frame' = [frame EXCEPT ![g] = f]
      BY <2>1 DEF Typed
    <2>3. FirstRPC(g) \in {"setup", frame[g].method} /\ (frame[g].method = "stop" => FirstRPC(g) = "stop")
      BY DEF FirstRPC
    <2>4. /\ f \in Frames /\ f.pc = "write" /\ f.sess = s /\ f.gen = frame[g].gen /\ f.method = frame[g].method
          /\ f.rpc = FirstRPC(g) /\ f.stream = frame[g].stream /\ f.ok = frame[g].ok
      BY <1>2, <2>3 DEF Frames, AllPlaces, Calling
    <2> HIDE DEF f
    <2>5. "write" \in Places(g)
      BY <1>1, PlaceOf, Kinds DEF Places, Calling, Commands
    <2>6. Placed(g, f)
      BY <1>1, <1>2, <2>3, <2>4, <2>5, Kinds DEF Placed, Calling
    <2>7. FramesTyped' /\ frame'[g] = f /\ Others(g)
      BY <2>2, <2>4, <2>6, FrameStep
    <2>8. gate' \in [Sessions -> Goroutines \cup {None}] /\ Only(gate, gate', s, g)
      BY <1>2, <2>1 DEF Typed, LinksTyped, Only
    <2>9. LinksTyped' /\ EngineTyped' /\ EngineSame
      BY <1>1, <2>1, <2>8 DEF Typed, LinksTyped, EngineTyped, EngineSame
    <2>10. QED
      BY <1>1, <2>1, <2>4, <2>7, <2>8, <2>9, OwnerStep, TypedParts DEF Enters
  <1>4. CASE ~Valid(g)
    <2>1. Return(g) /\ gate' = gate
      BY <1>4 DEF EnterGate
    <2>2. RpcSame /\ LinksTyped'
      BY <1>1, <2>1 DEF RpcSame, Typed, LinksTyped
    <2>3. QED
      BY <1>1, <2>1, <2>2, LeavesStep, TypedParts DEF Calling
  <1>5. QED
    BY <1>3, <1>4
(* The gate, the device and the stream of an operation that ends.          *)
Ends(g) ==
  /\ frame[g].pc = "write" /\ Leaves(g)
  /\ Only(gate, gate', frame[g].sess, None)
  /\ \A t \in Sessions \ {frame[g].sess} : device'[t] = device[t] /\ links'[t] = links[t] /\ stream'[t] = stream[t]
  /\ stream'[frame[g].sess] \in {stream[frame[g].sess], None}
  /\ \/ links'[frame[g].sess] = "closed"
     \/ device'[frame[g].sess] = Effect(g) /\ links'[frame[g].sess] = links[frame[g].sess]

(* An operation goes on with its next write.                               *)
Continues(g) ==
  /\ frame[g].pc = "write" /\ g \in Senders /\ Others(g) /\ OwnerSame /\ EngineSame /\ gate' = gate /\ links' = links
  /\ frame'[g].pc = "write" /\ frame'[g].sess = frame[g].sess /\ frame'[g].gen = frame[g].gen
  /\ frame'[g].method = frame[g].method /\ frame'[g].stream = frame[g].stream /\ frame'[g].rpc = frame[g].method
  /\ \/ /\ frame[g].rpc = "setup"
        /\ Only(stream, stream', frame[g].sess, frame[g].stream)
        /\ Only(device, device', frame[g].sess, frame[g].stream)
     \/ frame[g].rpc # "setup" /\ stream' = stream /\ device' = device

LEMMA EffectOf ==
  ASSUME Typed, NEW g \in Goroutines, frame[g].pc = "write"
  PROVE  /\ Effect(g) \in Nat \cup {None}
         /\ frame[g].rpc = "setup" => g \in Senders /\ Effect(g) = frame[g].stream
         /\ frame[g].rpc = "stop" => Effect(g) = None
         /\ frame[g].rpc \notin {"setup", "stop"} => Effect(g) = device[frame[g].sess]
         /\ g \in Senders => frame[g].rpc # "stop"
  <1>1. Placed(g, frame[g]) /\ frame[g] \in Frames /\ frame[g].sess \in Sessions
    BY PlaceOf, SessOf DEF Calling
  <1>2. g \notin Senders => frame[g].rpc = "stop"
    BY <1>1 DEF Placed
  <1>3. g \in Senders => frame[g].stream \in Nat /\ frame[g].rpc \in {"setup", "add", "play"}
    BY <1>1 DEF Placed, Frames
  <1>4. device[frame[g].sess] \in Nat \cup {None}
    BY <1>1 DEF Typed, LinksTyped
  <1>5. QED
    BY <1>2, <1>3, <1>4 DEF Effect

LEMMA WrittenEffect ==
  ASSUME Typed, NEW g \in Goroutines, Written(g)
  PROVE  Typed' /\ (Ends(g) \/ Continues(g))
  <1> DEFINE s == frame[g].sess
  <1>1. /\ frame[g].pc = "write" /\ device' = [device EXCEPT ![s] = Effect(g)]
        /\ UNCHANGED owner /\ links' = links /\ engine' = engine /\ lastStream' = lastStream
    BY DEF Written
  <1>2. s \in Sessions /\ frame[g] \in Frames /\ Placed(g, frame[g])
    BY <1>1, SessOf, PlaceOf DEF Calling
  <1>3. Effect(g) \in Nat \cup {None}
    BY <1>1, EffectOf
  <1>4. device' \in [Sessions -> Nat \cup {None}] /\ Only(device, device', s, Effect(g))
    BY <1>1, <1>2, <1>3 DEF Typed, LinksTyped, Only
  <1>5. ASSUME End(g), stream' = stream \/ stream' = [stream EXCEPT ![s] = None]
        PROVE  Typed' /\ Ends(g)
    <2>1. Return(g) /\ gate' = [gate EXCEPT ![s] = None]
      BY <1>5 DEF End
    <2>2. Leaves(g) /\ OwnerTyped' /\ EngineTyped' /\ FramesTyped'
      BY <1>1, <2>1, LeavesStep DEF Calling
    <2>3. gate' \in [Sessions -> Goroutines \cup {None}] /\ Only(gate, gate', s, None)
      BY <1>2, <2>1 DEF Typed, LinksTyped, Only
    <2>4. /\ stream' \in [Sessions -> Nat \cup {None}] /\ stream'[s] \in {stream[s], None}
          /\ \A t \in Sessions \ {s} : stream'[t] = stream[t]
      BY <1>2, <1>5 DEF Typed, LinksTyped
    <2>5. LinksTyped'
      BY <1>1, <1>4, <2>3, <2>4 DEF Typed, LinksTyped
    <2>6. QED
      BY <1>1, <1>4, <2>2, <2>3, <2>4, <2>5, TypedParts DEF Ends, Only
  <1>6. CASE End(g) /\ stream' = stream
    BY <1>5, <1>6
  <1>7. CASE /\ stream' = [stream EXCEPT ![s] = CASE frame[g].rpc = "setup" -> frame[g].stream
                                                [] frame[g].rpc = "stop"  -> None
                                                [] OTHER                  -> @]
             /\ frame[g].rpc # "setup" /\ End(g)
    <2>1. stream[s] \in Nat \cup {None} /\ stream = [stream EXCEPT ![s] = stream[s]]
      BY <1>2 DEF Typed, LinksTyped
    <2>2. stream' = stream \/ stream' = [stream EXCEPT ![s] = None]
      BY <1>7, <2>1
    <2>3. QED
      BY <1>5, <1>7, <2>2
  <1>8. CASE /\ stream' = [stream EXCEPT ![s] = CASE frame[g].rpc = "setup" -> frame[g].stream
                                                [] frame[g].rpc = "stop"  -> None
                                                [] OTHER                  -> @]
             /\ frame[g].rpc = "setup" \/ frame[g].rpc = "add"
             /\ frame' = [frame EXCEPT ![g].rpc = frame[g].method,
                                       ![g].left = IF frame[g].rpc = "add" THEN @ - 1 ELSE @]
             /\ UNCHANGED <<current, gate, hspMu, stopping>>
    <2> DEFINE n == IF frame[g].rpc = "add" THEN frame[g].left - 1 ELSE frame[g].left
               f == [frame[g] EXCEPT !.rpc = frame[g].method, !.left = n]
    <2>1. g \in Senders
      BY <1>2, <1>8 DEF Placed
    <2>2. frame[g].stream \in Nat /\ frame[g].method \in {"add", "play"} /\ frame[g].left \in Int
      BY <1>1, <1>2, <2>1 DEF Placed, Frames
    <2>11. n \in Int
      BY <2>2
    <2>3. frame' = [frame EXCEPT ![g] = f]
      BY <1>8 DEF Typed
    <2> HIDE DEF n
    <2>4. /\ f \in Frames /\ f.pc = "write" /\ f.sess = s /\ f.gen = frame[g].gen /\ f.method = frame[g].method
          /\ f.rpc = frame[g].method /\ f.stream = frame[g].stream /\ f.ok = frame[g].ok
      BY <1>1, <1>2, <2>2, <2>11 DEF Frames
    <2> HIDE DEF f
    <2>5. Placed(g, f)
      BY <1>1, <1>2, <2>1, <2>2, <2>4 DEF Placed, Calling
    <2>6. FramesTyped' /\ frame'[g] = f /\ Others(g)
      BY <2>3, <2>4, <2>5, FrameStep
    <2>7. gate' = gate /\ EngineSame
      BY <1>1, <1>8 DEF EngineSame
    <2>8. CASE frame[g].rpc = "setup"
      <3>1. stream' = [stream EXCEPT ![s] = frame[g].stream]
        BY <1>8, <2>8
      <3>2. Only(stream, stream', s, frame[g].stream) /\ stream' \in [Sessions -> Nat \cup {None}]
        BY <1>2, <2>2, <3>1 DEF Typed, LinksTyped, Only
      <3>3. Only(device, device', s, frame[g].stream)
        BY <1>1, <1>4, <2>8, EffectOf
      <3>4. LinksTyped' /\ EngineTyped'
        BY <1>1, <1>4, <2>7, <3>2 DEF Typed, LinksTyped, EngineTyped, EngineSame
      <3>5. Continues(g)
        BY <1>1, <2>1, <2>4, <2>6, <2>7, <2>8, <3>2, <3>3, OwnerStep DEF Continues
      <3>6. QED
        BY <1>1, <2>6, <3>4, <3>5, OwnerStep, TypedParts
    <2>9. CASE frame[g].rpc = "add"
      <3>1. stream' = stream
        BY <1>2, <1>8, <2>9 DEF Typed, LinksTyped
      <3>2. device' = device
        BY <1>1, <1>2, <2>9, EffectOf DEF Typed, LinksTyped
      <3>3. LinksTyped' /\ EngineTyped'
        BY <1>1, <2>7, <3>1, <3>2 DEF Typed, LinksTyped, EngineTyped, EngineSame
      <3>4. Continues(g)
        BY <1>1, <2>1, <2>4, <2>6, <2>7, <2>9, <3>1, <3>2, OwnerStep DEF Continues
      <3>5. QED
        BY <1>1, <2>6, <3>3, <3>4, OwnerStep, TypedParts
    <2>10. QED
      BY <1>8, <2>8, <2>9
  <1>9. QED
    BY <1>6, <1>7, <1>8 DEF Written

LEMMA WriteFailsEffect ==
  ASSUME Typed, NEW g \in Goroutines, WriteFails(g)
  PROVE  Typed' /\ Ends(g)
  <1> DEFINE s == frame[g].sess
  <1>1. /\ frame[g].pc = "write" /\ Fail(s) /\ device' \in {device, [device EXCEPT ![s] = Effect(g)]}
        /\ gate' = [gate EXCEPT ![s] = None] /\ Return(g)
        /\ UNCHANGED owner /\ stream' = stream /\ engine' = engine /\ lastStream' = lastStream
    BY DEF WriteFails
  <1>2. s \in Sessions
    BY <1>1, SessOf DEF Calling
  <1>3. Leaves(g) /\ OwnerTyped' /\ EngineTyped' /\ FramesTyped'
    BY <1>1, LeavesStep DEF Calling
  <1>4. Closes(s)
    BY <1>1, <1>2, FailStep
  <1>5. Effect(g) \in Nat \cup {None}
    BY <1>1, EffectOf
  <1>6. device' \in [Sessions -> Nat \cup {None}] /\ \A t \in Sessions \ {s} : device'[t] = device[t]
    BY <1>1, <1>2, <1>5 DEF Typed, LinksTyped
  <1>7. gate' \in [Sessions -> Goroutines \cup {None}] /\ Only(gate, gate', s, None)
    BY <1>1, <1>2 DEF Typed, LinksTyped, Only
  <1>8. LinksTyped'
    BY <1>1, <1>4, <1>6, <1>7 DEF Typed, LinksTyped, Closes
  <1>9. QED
    BY <1>1, <1>3, <1>4, <1>6, <1>7, <1>8, TypedParts DEF Ends, Closes, Only

-----------------------------------------------------------------------------
(* What the steps do: the engine's transport and a Stop.                   *)

LEMMA NewTransportEffect ==
  ASSUME Typed, NewTransport
  PROVE  /\ Typed' /\ OwnerSame /\ RpcSame /\ frame' = frame /\ hspMu = None /\ stopping = {}
         /\ engine' = generation /\ hspMu' = None /\ stopping' = {} /\ lastStream' = lastStream
  <1>1. /\ UNCHANGED owner /\ UNCHANGED rpcs /\ frame' = frame /\ engine' = generation /\ hspMu = None /\ stopping = {}
        /\ hspMu' = hspMu /\ stopping' = stopping /\ lastStream' = lastStream
    BY DEF NewTransport
  <1>2. EngineTyped' /\ FramesTyped'
    BY <1>1 DEF Typed, EngineTyped, FramesTyped, OwnerTyped, Placed
  <1>3. QED
    BY <1>1, <1>2, OwnerStep, RpcStep, TypedParts

(* A sender begins a command.                                              *)
Begins(c) ==
  /\ frame[c].pc = "idle" /\ hspMu = None /\ stopping = {} /\ hspMu' = c /\ stopping' = {}
  /\ frame'[c].pc = "send" /\ frame'[c].sess = None /\ frame'[c].gen = engine /\ engine' = engine
  /\ lastStream <= lastStream' /\ frame'[c].stream = lastStream' /\ Others(c)
  /\ OwnerSame /\ RpcSame

LEMMA AdmitEffect ==
  ASSUME Typed, NEW c \in Senders, Admit(c)
  PROVE  Typed' /\ Begins(c)
  <1>1. PICK m \in {"add", "play"}, x \in lastStream .. MaxStreams, n \in 1 .. MaxChunks :
          /\ lastStream' = x
          /\ frame' = [frame EXCEPT ![c] = [Idle EXCEPT !.pc = "send", !.gen = engine, !.method = m,
                                              !.rpc = m, !.stream = x, !.left = n]]
    BY DEF Admit
  <1>2. /\ frame[c].pc = "idle" /\ hspMu = None /\ stopping = {} /\ hspMu' = c /\ stopping' = stopping /\ engine' = engine
        /\ UNCHANGED owner /\ UNCHANGED rpcs
    BY DEF Admit
  <1>3. c \in Goroutines /\ engine \in Nat /\ lastStream \in Nat /\ MaxStreams \in Nat /\ MaxChunks \in Nat
    BY NativeAssumption DEF Typed, EngineTyped, Goroutines
  <1>4. x \in Nat /\ lastStream <= x /\ n \in Int
    BY <1>3
  <1> DEFINE f == [Idle EXCEPT !.pc = "send", !.gen = engine, !.method = m, !.rpc = m, !.stream = x, !.left = n]
  <1>5. /\ f \in Frames /\ f.pc = "send" /\ f.sess = None /\ f.gen = engine /\ f.method = m /\ f.rpc = m
        /\ f.stream = x /\ f.ok = FALSE
    BY <1>1, <1>3, <1>4 DEF Idle, Frames, AllPlaces
  <1>6. frame' = [frame EXCEPT ![c] = f]
    BY <1>1
  <1> HIDE DEF f
  <1>7. "send" \in Places(c)
    BY <1>3, Kinds DEF Places
  <1>8. Placed(c, f)
    BY <1>1, <1>4, <1>5, <1>7 DEF Placed, Calling
  <1>9. FramesTyped' /\ frame'[c] = f /\ Others(c)
    BY <1>3, <1>5, <1>6, <1>8, FrameStep
  <1>10. EngineTyped'
    BY <1>1, <1>2, <1>3, <1>4 DEF EngineTyped
  <1>11. QED
    BY <1>1, <1>2, <1>4, <1>5, <1>9, <1>10, OwnerStep, RpcStep, TypedParts DEF Begins

(* A command takes the session, or is refused.                             *)
Takes(g) ==
  /\ frame[g].pc = "send" /\ session # None /\ frame[g].gen = generation
  /\ frame'[g].pc = "execute" /\ frame'[g].sess = session /\ frame'[g].gen = frame[g].gen
  /\ frame'[g].stream = frame[g].stream /\ Others(g)
  /\ OwnerSame /\ EngineSame /\ RpcSame

LEMMA SendCommandEffect ==
  ASSUME Typed, NEW g \in Goroutines, SendCommand(g)
  PROVE  Typed' /\ (Takes(g) \/ (Leaves(g) /\ RpcSame))
  <1>1. frame[g].pc = "send" /\ UNCHANGED owner /\ UNCHANGED rpcs /\ engine' = engine /\ lastStream' = lastStream
    BY DEF SendCommand
  <1>2. g \in Commands /\ frame[g] \in Frames /\ Placed(g, frame[g])
    BY <1>1, PlaceOf
  <1>3. CASE session # None /\ frame[g].gen = generation
    <2> DEFINE f == [frame[g] EXCEPT !.pc = "execute", !.sess = session]
    <2>1. /\ frame' = [frame EXCEPT ![g].pc = "execute", ![g].sess = session]
          /\ hspMu' = hspMu /\ stopping' = stopping
      BY <1>3 DEF SendCommand
    <2>2. frame' = [frame EXCEPT ![g] = f] /\ session \in Sessions
      BY <1>3, <2>1 DEF Typed, OwnerTyped
    <2>3. /\ f \in Frames /\ f.pc = "execute" /\ f.sess = session /\ f.gen = frame[g].gen /\ f.method = frame[g].method
          /\ f.rpc = frame[g].rpc /\ f.stream = frame[g].stream /\ f.ok = frame[g].ok
      BY <1>2, <2>2 DEF Frames, AllPlaces, Calling
    <2> HIDE DEF f
    <2>4. "execute" \in Places(g)
      BY <1>2, Kinds DEF Places, Calling, Commands
    <2>5. Placed(g, f)
      BY <1>1, <1>2, <1>3, <2>3, <2>4 DEF Placed, Calling
    <2>6. FramesTyped' /\ frame'[g] = f /\ Others(g)
      BY <2>2, <2>3, <2>5, FrameStep
    <2>7. EngineTyped' /\ EngineSame
      BY <1>1, <2>1 DEF Typed, EngineTyped, EngineSame
    <2>8. QED
      BY <1>1, <1>3, <2>3, <2>6, <2>7, OwnerStep, RpcStep, TypedParts DEF Takes
  <1>4. CASE ~(session # None /\ frame[g].gen = generation)
    <2>1. Return(g)
      BY <1>4 DEF SendCommand
    <2>2. QED
      BY <1>1, <2>1, LeavesStep, RpcStep, TypedParts
  <1>5. QED
    BY <1>3, <1>4
(* Sessions are interrupted, or left alone.                                *)
Calms == /\ stream' \in [Sessions -> Nat \cup {None}]
         /\ \A t \in Sessions : stream'[t] \in {stream[t], None}
         /\ gate' = gate /\ links' = links /\ device' = device

LEMMA CalmsStep ==
  ASSUME Typed, (session # None /\ Interrupt(session)) \/ UNCHANGED rpcs
  PROVE  Calms /\ LinksTyped'
  <1>1. CASE session # None /\ Interrupt(session)
    <2>1. session \in Sessions
      BY <1>1 DEF Typed, OwnerTyped
    <2>2. Forgets(session) /\ LinksTyped'
      BY <1>1, <2>1, InterruptStep
    <2>3. QED
      BY <2>1, <2>2 DEF Forgets, Only, Calms
  <1>2. CASE UNCHANGED rpcs
    BY <1>2, RpcStep DEF Typed, LinksTyped, RpcSame, Calms
  <1>3. QED
    BY <1>1, <1>2

LEMMA EmergencyStopEffect ==
  ASSUME Typed, NEW p \in Stoppers, EmergencyStop(p)
  PROVE  /\ Typed' /\ Calms /\ EngineSame /\ frame[p].pc = "idle" /\ Moves(p, "begin")
         /\ session' = session /\ connectingDone' = connectingDone /\ outdated' = outdated \cup Connecting
         /\ \/ cancel # None /\ canceled' = canceled \cup {cancel} /\ cancel' = None /\ generation' = generation + 1
            \/ cancel = None /\ canceled' = canceled /\ cancel' = None /\ generation' = generation
  <1>1. /\ frame[p].pc = "idle" /\ Goto(p, "begin") /\ UNCHANGED engines
        /\ session' = session /\ connectingDone' = connectingDone /\ outdated' = outdated \cup Connecting
        /\ \/ cancel # None /\ canceled' = canceled \cup {cancel} /\ cancel' = None /\ generation' = generation + 1
           \/ cancel = None /\ canceled' = canceled /\ cancel' = None /\ generation' = generation
        /\ (session # None /\ Interrupt(session)) \/ UNCHANGED rpcs
    BY DEF EmergencyStop, InterruptOwner, Overtake
  <1>2. Calms /\ LinksTyped'
    BY <1>1, CalmsStep
  <1>3. OwnerTyped'
    BY <1>1 DEF Typed, OwnerTyped
  <1>4. p \in Goroutines /\ frame[p].sess = None
    BY <1>1, PlaceOf DEF Goroutines, Placed
  <1>5. /\ "begin" \in Places(p) /\ "begin" \in AllPlaces /\ p \notin Senders
        /\ "begin" \notin {"old", "discard", "close"} \cup Calling
    BY <1>4, Kinds DEF Places, AllPlaces, Calling
  <1>6. FramesTyped' /\ Moves(p, "begin")
    BY <1>1, <1>4, <1>5, GotoStep
  <1>7. QED
    BY <1>1, <1>2, <1>3, <1>6, EngineStep, TypedParts

(* A Stop of the engine's transport, or of one of its own.                 *)
Stops(p) ==
  \/ /\ engine = generation /\ stopping' = stopping \cup {p}
     /\ frame'[p].pc = "hspMu" /\ frame'[p].gen = engine /\ frame'[p].sess = None
  \/ /\ engine # generation /\ session # None /\ stopping' = stopping \cup {p}
     /\ frame'[p].pc = "send" /\ frame'[p].gen = generation /\ frame'[p].sess = None
  \/ /\ engine # generation /\ session = None /\ stopping' = stopping
     /\ frame'[p] = Idle

LEMMA BeginStopEffect ==
  ASSUME Typed, NEW p \in Stoppers, BeginStop(p)
  PROVE  /\ Typed' /\ OwnerSame /\ Calms /\ engine' = engine /\ hspMu' = hspMu /\ lastStream' = lastStream + 1
         /\ frame[p].pc = "begin" /\ Stops(p) /\ Others(p)
  <1>1. /\ frame[p].pc = "begin" /\ UNCHANGED owner /\ engine' = engine /\ hspMu' = hspMu
        /\ lastStream' = lastStream + 1
        /\ (session # None /\ Interrupt(session)) \/ UNCHANGED rpcs
    BY DEF BeginStop
  <1>2. Calms /\ LinksTyped'
    BY <1>1, CalmsStep
  <1>3. p \in Goroutines /\ frame[p].sess = None /\ frame[p] \in Frames /\ Placed(p, frame[p]) /\ p \notin Senders
    BY <1>1, PlaceOf, Kinds DEF Goroutines, Placed
  <1>4. engine \in Nat /\ generation \in Nat
    BY DEF Typed, EngineTyped, OwnerTyped
  <1>5. ASSUME NEW pc \in {"hspMu", "send"}, NEW n \in Nat, NEW f, f.pc = pc, f.gen = n, f \in Frames,
               f.sess = None, f.method = "stop", f.rpc = "stop", frame' = [frame EXCEPT ![p] = f]
        PROVE  FramesTyped' /\ frame'[p] = f /\ Others(p)
    <2>1. pc \in Places(p)
      BY <1>3, Kinds DEF Places
    <2>2. Placed(p, f)
      BY <1>3, <1>5, <2>1 DEF Placed, Calling
    <2>3. QED
      BY <1>3, <1>5, <2>2, FrameStep
  <1>6. FramesTyped' /\ Stops(p) /\ Others(p) /\ stopping' \subseteq stopping \cup {p}
    <2>1. CASE engine = generation
      <3> DEFINE f == [frame[p] EXCEPT !.pc = "hspMu", !.gen = engine]
      <3>1. stopping' = stopping \cup {p} /\ frame' = [frame EXCEPT ![p].pc = "hspMu", ![p].gen = engine]
        BY <2>1 DEF BeginStop
      <3>2. frame' = [frame EXCEPT ![p] = f]
        BY <3>1 DEF Typed
      <3>3. /\ f \in Frames /\ f.pc = "hspMu" /\ f.gen = engine /\ f.sess = None
            /\ f.method = "stop" /\ f.rpc = "stop"
        BY <1>3, <1>4 DEF Frames, Placed, AllPlaces
      <3> HIDE DEF f
      <3>4. FramesTyped' /\ frame'[p] = f /\ Others(p)
        BY <1>4, <1>5, <3>2, <3>3
      <3>5. QED
        BY <2>1, <3>1, <3>3, <3>4 DEF Stops
    <2>2. CASE engine # generation /\ session # None
      <3> DEFINE f == [Idle EXCEPT !.pc = "send", !.gen = generation]
      <3>1. stopping' = stopping \cup {p} /\ frame' = [frame EXCEPT ![p] = f]
        BY <2>2 DEF BeginStop
      <3>2. /\ f \in Frames /\ f.pc = "send" /\ f.gen = generation /\ f.sess = None
            /\ f.method = "stop" /\ f.rpc = "stop"
        BY <1>4, IdleFrame DEF Frames, AllPlaces
      <3> HIDE DEF f
      <3>3. FramesTyped' /\ frame'[p] = f /\ Others(p)
        BY <1>4, <1>5, <3>1, <3>2
      <3>4. QED
        BY <2>2, <3>1, <3>2, <3>3 DEF Stops
    <2>3. CASE engine # generation /\ session = None
      <3>1. stopping' = stopping /\ frame' = [frame EXCEPT ![p] = Idle]
        BY <2>3 DEF BeginStop
      <3>2. FramesTyped' /\ frame'[p] = Idle /\ Others(p)
        BY <1>3, <3>1, ResetStep DEF Resets
      <3>3. QED
        BY <2>3, <3>1, <3>2 DEF Stops
    <2>4. QED
      BY <2>1, <2>2, <2>3
  <1>7. EngineTyped'
    BY <1>1, <1>3, <1>6 DEF Typed, EngineTyped
  <1>8. QED
    BY <1>1, <1>2, <1>6, <1>7, OwnerStep, TypedParts

LEMMA LockStopEffect ==
  ASSUME Typed, NEW p \in Stoppers, LockStop(p)
  PROVE  /\ Typed' /\ OwnerSame /\ RpcSame /\ frame[p].pc = "hspMu" /\ Moves(p, "send")
         /\ hspMu = None /\ hspMu' = p /\ engine' = engine /\ stopping' = stopping /\ lastStream' = lastStream
  <1>1. /\ frame[p].pc = "hspMu" /\ Goto(p, "send") /\ hspMu = None /\ hspMu' = p
        /\ engine' = engine /\ stopping' = stopping /\ lastStream' = lastStream
        /\ UNCHANGED owner /\ UNCHANGED rpcs
    BY DEF LockStop
  <1>2. p \in Goroutines /\ frame[p].sess = None
    BY <1>1, PlaceOf DEF Goroutines, Placed
  <1>3. "send" \in Places(p) /\ "send" \in AllPlaces /\ p \notin Senders
    BY <1>2, Kinds DEF Places, AllPlaces
  <1>4. "send" \notin {"old", "discard", "close"} \cup Calling
    BY DEF Calling
  <1>5. FramesTyped' /\ Moves(p, "send")
    BY <1>1, <1>2, <1>3, <1>4, GotoStep
  <1>6. EngineTyped'
    BY <1>1, <1>2 DEF Typed, EngineTyped
  <1>7. QED
    BY <1>1, <1>5, <1>6, OwnerStep, RpcStep, TypedParts
-----------------------------------------------------------------------------
(* What the steps do: Connect and Disconnect.                              *)

LEMMA BeginConnectEffect ==
  ASSUME Typed, NEW k \in Connects, BeginConnect(k)
  PROVE  /\ Typed' /\ EngineSame /\ RpcSame /\ Others(k)
         /\ frame[k].pc = "idle" /\ frame'[k].gen = generation' /\ frame'[k].sess = session
         /\ frame'[k].pc = (IF session = None THEN "dial" ELSE "old")
         /\ (session # None => links[session] # "open")
         /\ session' = None /\ generation' = generation + 1 /\ cancel' = k
         /\ canceled' = canceled \ {k} /\ outdated' = outdated \ {k}
  <1> DEFINE f == [Idle EXCEPT !.pc = IF session = None THEN "dial" ELSE "old", !.sess = session,
                               !.gen = generation + 1]
  <1>1. /\ frame[k].pc = "idle" /\ session' = None /\ generation' = generation + 1 /\ cancel' = k
        /\ connectingDone' = k /\ canceled' = canceled \ {k} /\ outdated' = outdated \ {k}
        /\ (session # None => links[session] # "open")
        /\ frame' = [frame EXCEPT ![k] = f] /\ UNCHANGED rpcs /\ UNCHANGED engines
    BY DEF BeginConnect
  <1>2. k \in Goroutines /\ session \in Sessions \cup {None} /\ generation \in Nat /\ generation + 1 \in Nat
    BY DEF Goroutines, Typed, OwnerTyped
  <1>3. /\ f \in Frames /\ f.pc = (IF session = None THEN "dial" ELSE "old") /\ f.sess = session
        /\ f.gen = generation + 1 /\ f.method = "stop" /\ f.rpc = "stop" /\ f.ok = FALSE
    BY <1>2, IdleFrame DEF Idle, Frames, AllPlaces
  <1> HIDE DEF f
  <1>4. f.pc \in Places(k) /\ k \notin Senders
    BY <1>2, <1>3, Kinds DEF Places
  <1>5. Placed(k, f)
    BY <1>3, <1>4 DEF Placed, Calling
  <1>6. FramesTyped' /\ frame'[k] = f /\ Others(k)
    BY <1>1, <1>2, <1>3, <1>5, FrameStep
  <1>7. OwnerTyped'
    BY <1>1, <1>2 DEF OwnerTyped
  <1>8. QED
    BY <1>1, <1>3, <1>6, <1>7, EngineStep, RpcStep, TypedParts

LEMMA ContextEndsEffect ==
  ASSUME Typed, NEW k \in Connects, ContextEnds(k)
  PROVE  /\ Typed' /\ EngineSame /\ RpcSame /\ frame' = frame /\ session' = session /\ generation' = generation
         /\ connectingDone' = connectingDone /\ cancel' = cancel /\ outdated' = outdated
         /\ canceled' = canceled \cup {k}
  <1>1. /\ UNCHANGED engines /\ UNCHANGED rpcs /\ frame' = frame /\ session' = session /\ generation' = generation
        /\ connectingDone' = connectingDone /\ cancel' = cancel /\ outdated' = outdated
        /\ canceled' = canceled \cup {k}
    BY DEF ContextEnds
  <1>2. OwnerTyped' /\ FramesTyped'
    BY <1>1 DEF Typed, OwnerTyped, FramesTyped, Placed
  <1>3. QED
    BY <1>1, <1>2, EngineStep, RpcStep, TypedParts

(* A link is closed and its goroutine goes on.                             *)
Drops(g, pc) ==
  /\ OwnerSame /\ EngineSame /\ gate' = gate /\ stream' = stream /\ device' = device /\ Closes(frame[g].sess)
  /\ frame'[g].pc = pc /\ frame'[g].sess = None /\ frame'[g].gen = frame[g].gen /\ Others(g)

LEMMA CloseEffect ==
  ASSUME Typed, NEW g \in Goroutines, NEW pc, NEW next \in AllPlaces, Close(g, pc, next),
         pc \in {"old", "discard", "close"}, next \in Places(g), next \in {"dial", "leave", "idle"},
         next = "dial" => pc = "old"
  PROVE  Typed' /\ frame[g].pc = pc /\ Drops(g, next)
  <1> DEFINE f == [frame[g] EXCEPT !.pc = next, !.sess = None]
  <1>1. /\ frame[g].pc = pc /\ Fail(frame[g].sess) /\ frame' = [frame EXCEPT ![g].pc = next, ![g].sess = None]
        /\ UNCHANGED owner /\ UNCHANGED engines /\ gate' = gate /\ stream' = stream /\ device' = device
    BY DEF Close
  <1>2. frame[g].sess \in Sessions /\ frame[g] \in Frames /\ Placed(g, frame[g]) /\ g \notin Senders
    BY <1>1, SessOf, PlaceOf, Kinds
  <1>3. Closes(frame[g].sess)
    BY <1>1, <1>2, FailStep
  <1>4. LinksTyped'
    BY <1>1, <1>3 DEF Typed, LinksTyped, Closes
  <1>5. frame' = [frame EXCEPT ![g] = f]
    BY <1>1 DEF Typed
  <1>6. /\ f \in Frames /\ f.pc = next /\ f.sess = None /\ f.gen = frame[g].gen /\ f.method = frame[g].method
        /\ f.rpc = frame[g].rpc /\ f.ok = frame[g].ok
    BY <1>2 DEF Frames
  <1> HIDE DEF f
  <1>7. Placed(g, f)
    BY <1>1, <1>2, <1>6 DEF Placed, Calling
  <1>8. FramesTyped' /\ frame'[g] = f /\ Others(g)
    BY <1>5, <1>6, <1>7, FrameStep
  <1>9. QED
    BY <1>1, <1>3, <1>4, <1>6, <1>8, OwnerStep, EngineStep, TypedParts DEF Drops

LEMMA ClosesEffect ==
  ASSUME Typed, NEW g \in Goroutines
  PROVE  /\ g \in Connects /\ CloseOld(g) => Typed' /\ frame[g].pc = "old" /\ Drops(g, "dial")
         /\ g \in Connects /\ Discard(g) => Typed' /\ frame[g].pc = "discard" /\ Drops(g, "leave")
         /\ g \in Disconnects /\ CloseRetired(g) => Typed' /\ frame[g].pc = "close" /\ Drops(g, "idle")
  <1>1. "dial" \in AllPlaces /\ "leave" \in AllPlaces /\ "idle" \in AllPlaces
    BY DEF AllPlaces
  <1>2. /\ g \in Connects => "dial" \in Places(g) /\ "leave" \in Places(g)
        /\ g \in Disconnects => "idle" \in Places(g)
    BY Kinds DEF Places
  <1>3. g \in Connects /\ CloseOld(g) => Typed' /\ frame[g].pc = "old" /\ Drops(g, "dial")
    BY <1>1, <1>2, CloseEffect DEF CloseOld
  <1>4. g \in Connects /\ Discard(g) => Typed' /\ frame[g].pc = "discard" /\ Drops(g, "leave")
    BY <1>1, <1>2, CloseEffect DEF Discard
  <1>5. g \in Disconnects /\ CloseRetired(g) => Typed' /\ frame[g].pc = "close" /\ Drops(g, "idle")
    BY <1>1, <1>2, CloseEffect DEF CloseRetired
  <1>6. QED
    BY <1>3, <1>4, <1>5

(* A link is opened, or not found.                                         *)
Dials(k) ==
  /\ frame[k].pc = "dial" /\ OwnerSame /\ EngineSame /\ gate' = gate /\ stream' = stream /\ device' = device
  /\ frame'[k].pc \in {"initialize", "publish"} /\ frame'[k].gen = frame[k].gen /\ Others(k)
  /\ \/ /\ frame'[k].sess \in Sessions /\ links[frame'[k].sess] = "none"
        /\ links'[frame'[k].sess] # "none"
        /\ \A t \in Sessions \ {frame'[k].sess} : links'[t] = links[t]
     \/ frame'[k].sess = None /\ links' = links

LEMMA DialEffect ==
  ASSUME Typed, NEW k \in Connects, Dial(k)
  PROVE  Typed' /\ Dials(k)
  <1>1. /\ frame[k].pc = "dial" /\ UNCHANGED owner /\ UNCHANGED engines
        /\ gate' = gate /\ stream' = stream /\ device' = device
    BY DEF Dial
  <1>2. k \in Goroutines /\ frame[k] \in Frames /\ Placed(k, frame[k]) /\ frame[k].sess = None
    BY <1>1, PlaceOf DEF Goroutines, Placed
  <1>3. /\ {"initialize", "publish"} \subseteq Places(k) /\ {"initialize", "publish"} \subseteq AllPlaces
        /\ k \notin Senders /\ frame[k].ok = FALSE
    BY <1>1, <1>2, Kinds DEF Places, AllPlaces, Placed, Frames
  <1>4. ASSUME NEW s \in Sessions, NEW pc \in {"initialize", "publish"}, links[s] = "none",
               links' = [links EXCEPT ![s] = "open"],
               frame' = [frame EXCEPT ![k].pc = pc, ![k].sess = s]
        PROVE  Typed' /\ Dials(k)
    <2> DEFINE f == [frame[k] EXCEPT !.pc = pc, !.sess = s]
    <2>1. frame' = [frame EXCEPT ![k] = f]
      BY <1>4 DEF Typed
    <2>2. /\ f \in Frames /\ f.pc = pc /\ f.sess = s /\ f.gen = frame[k].gen /\ f.method = frame[k].method
          /\ f.rpc = frame[k].rpc /\ f.ok = frame[k].ok
      BY <1>2, <1>3 DEF Frames
    <2> HIDE DEF f
    <2>3. s # None
      BY Kinds
    <2>4. Placed(k, f)
      BY <1>2, <1>3, <2>2, <2>3 DEF Placed, Calling
    <2>5. FramesTyped' /\ frame'[k] = f /\ Others(k)
      BY <1>2, <2>1, <2>2, <2>4, FrameStep
    <2>6. /\ links' \in [Sessions -> {"none", "open", "closed"}] /\ links'[s] # "none"
          /\ \A t \in Sessions \ {s} : links'[t] = links[t]
      BY <1>4 DEF Typed, LinksTyped
    <2>7. LinksTyped'
      BY <1>1, <2>6 DEF Typed, LinksTyped
    <2>8. Dials(k)
      BY <1>1, <1>4, <2>2, <2>5, <2>6, OwnerStep, EngineStep DEF Dials
    <2>9. QED
      BY <1>1, <2>5, <2>7, <2>8, OwnerStep, EngineStep, TypedParts
  <1>5. CASE Goto(k, "publish") /\ links' = links
    <2>1. FramesTyped' /\ Moves(k, "publish")
      <3>1. "publish" \in Places(k) /\ "publish" \in AllPlaces /\ frame[k].sess = None /\ ~frame[k].ok
        BY <1>2, <1>3
      <3>2. Goto(k, "publish") /\ "publish" \notin {"old", "dial", "initialize", "discard", "close"} \cup Calling
        BY <1>5 DEF Calling
      <3>3. QED
        BY <1>2, <1>3, <3>1, <3>2, GotoStep
    <2>2. LinksTyped'
      BY <1>1, <1>5 DEF Typed, LinksTyped
    <2>3. Dials(k)
      BY <1>1, <1>2, <1>5, <2>1, OwnerStep, EngineStep DEF Dials, Moves, Kept
    <2>4. QED
      BY <1>1, <2>1, <2>2, <2>3, OwnerStep, EngineStep, TypedParts
  <1>6. QED
    BY <1>4, <1>5 DEF Dial

(* The session is initialised, or not, and its link closed or not.         *)
Initializes(k) ==
  /\ frame[k].pc = "initialize" /\ OwnerSame /\ EngineSame /\ gate' = gate /\ stream' = stream /\ device' = device
  /\ frame'[k].pc = "publish" /\ frame'[k].sess = frame[k].sess /\ frame'[k].gen = frame[k].gen /\ Others(k)
  /\ Closes(frame[k].sess) \/ links' = links

LEMMA InitializeEffect ==
  ASSUME Typed, NEW k \in Connects, Initialize(k)
  PROVE  Typed' /\ Initializes(k)
  <1>1. /\ frame[k].pc = "initialize" /\ UNCHANGED owner /\ UNCHANGED engines
        /\ gate' = gate /\ stream' = stream /\ device' = device
    BY DEF Initialize
  <1>2. k \in Goroutines /\ frame[k] \in Frames /\ Placed(k, frame[k])
    BY PlaceOf DEF Goroutines
  <1>3. /\ "publish" \in Places(k) /\ "publish" \in AllPlaces /\ k \notin Senders
        /\ frame[k].sess \in Sessions /\ frame[k].sess # None /\ frame[k].ok = FALSE
    BY <1>1, <1>2, Kinds DEF Places, AllPlaces, Placed, Frames
  <1>4. FramesTyped' /\ frame'[k].pc = "publish" /\ frame'[k].sess = frame[k].sess /\ frame'[k].gen = frame[k].gen /\ Others(k)
    <2>1. CASE frame' = [frame EXCEPT ![k].pc = "publish", ![k].ok = TRUE]
      <3> DEFINE f == [frame[k] EXCEPT !.pc = "publish", !.ok = TRUE]
      <3>1. frame' = [frame EXCEPT ![k] = f]
        BY <2>1 DEF Typed
      <3>2. /\ f \in Frames /\ f.pc = "publish" /\ f.sess = frame[k].sess /\ f.gen = frame[k].gen
            /\ f.method = frame[k].method /\ f.rpc = frame[k].rpc
        BY <1>2, <1>3 DEF Frames
      <3> HIDE DEF f
      <3>3. Placed(k, f)
        BY <1>2, <1>3, <3>2 DEF Placed, Calling
      <3>4. QED
        BY <1>2, <3>1, <3>2, <3>3, FrameStep
    <2>2. CASE Goto(k, "publish")
      <3>1. FramesTyped' /\ Moves(k, "publish")
        BY <1>2, <1>3, <2>2, GotoStep
      <3>2. QED
        BY <3>1 DEF Moves, Kept
    <2>3. QED
      BY <2>1, <2>2 DEF Initialize
  <1>5. Closes(frame[k].sess) \/ links' = links
    BY <1>3, FailStep DEF Initialize
  <1>6. LinksTyped'
    BY <1>1, <1>5 DEF Typed, LinksTyped, Closes
  <1>7. QED
    BY <1>1, <1>4, <1>5, <1>6, OwnerStep, EngineStep, TypedParts DEF Initializes

(* The owner takes the session, or leaves it.                              *)
Mine(k) == frame[k].ok /\ frame[k].gen = generation /\ k \notin canceled

LEMMA PublishEffect ==
  ASSUME Typed, NEW k \in Connects, Publish(k)
  PROVE  /\ Typed' /\ EngineSame /\ RpcSame /\ frame[k].pc = "publish"
         /\ generation' = generation /\ canceled' = canceled /\ outdated' = outdated
         /\ cancel' = (IF frame[k].gen = generation THEN None ELSE cancel)
         /\ session' = (IF Mine(k) THEN frame[k].sess ELSE session)
         /\ Mine(k) => frame[k].sess # None
         /\ Moves(k, IF Mine(k) \/ frame[k].sess = None THEN "leave" ELSE "discard")
  <1>1. /\ frame[k].pc = "publish" /\ UNCHANGED engines /\ UNCHANGED rpcs
        /\ generation' = generation /\ connectingDone' = connectingDone /\ canceled' = canceled /\ outdated' = outdated
        /\ cancel' = (IF frame[k].gen = generation THEN None ELSE cancel)
        /\ session' = (IF Mine(k) THEN frame[k].sess ELSE session)
        /\ Goto(k, IF Mine(k) \/ frame[k].sess = None THEN "leave" ELSE "discard")
    BY DEF Publish, Mine
  <1>2. k \in Goroutines /\ frame[k] \in Frames /\ Placed(k, frame[k])
    BY PlaceOf DEF Goroutines
  <1>3. /\ "leave" \in Places(k) /\ "leave" \in AllPlaces /\ "discard" \in Places(k) /\ "discard" \in AllPlaces
        /\ k \notin Senders /\ {"leave", "discard"} \cap ({"idle", "begin", "hspMu", "send", "dial", "old", "initialize", "publish"} \cup Calling) = {}
    BY <1>2, Kinds DEF Places, AllPlaces, Calling
  <1>4. Mine(k) => frame[k].sess # None
    BY <1>1, <1>2 DEF Mine, Placed
  <1>5. FramesTyped' /\ Moves(k, IF Mine(k) \/ frame[k].sess = None THEN "leave" ELSE "discard")
    <2>1. CASE Mine(k) \/ frame[k].sess = None
      <3>1. Goto(k, "leave")
        BY <1>1, <2>1
      <3>2. FramesTyped' /\ Moves(k, "leave")
        BY <1>2, <1>3, <3>1, GotoStep
      <3>3. QED
        BY <2>1, <3>2
    <2>2. CASE ~(Mine(k) \/ frame[k].sess = None)
      <3>1. Goto(k, "discard")
        BY <1>1, <2>2
      <3>2. FramesTyped' /\ Moves(k, "discard")
        BY <1>2, <1>3, <2>2, <3>1, GotoStep
      <3>3. QED
        BY <2>2, <3>2
    <2>3. QED
      BY <2>1, <2>2
  <1>6. frame[k].sess \in Sessions \cup {None}
    BY <1>2 DEF Frames
  <1>7. OwnerTyped'
    BY <1>1, <1>6 DEF Typed, OwnerTyped
  <1>8. QED
    BY <1>1, <1>4, <1>5, <1>7, EngineStep, RpcStep, TypedParts

LEMMA LeaveEffect ==
  ASSUME Typed, NEW k \in Connects, Leave(k)
  PROVE  /\ Typed' /\ EngineSame /\ RpcSame /\ frame[k].pc = "leave" /\ Resets(k)
         /\ session' = session /\ generation' = generation /\ cancel' = cancel
         /\ canceled' = canceled \ {k} /\ outdated' = outdated \ {k}
  <1>1. /\ frame[k].pc = "leave" /\ frame' = [frame EXCEPT ![k] = Idle] /\ UNCHANGED rpcs /\ UNCHANGED engines
        /\ session' = session /\ generation' = generation /\ cancel' = cancel
        /\ canceled' = canceled \ {k} /\ outdated' = outdated \ {k}
        /\ connectingDone' \in {None, connectingDone}
    BY DEF Leave
  <1>2. FramesTyped' /\ Resets(k)
    BY <1>1, ResetStep DEF Goroutines
  <1>3. OwnerTyped'
    BY <1>1 DEF Typed, OwnerTyped
  <1>4. QED
    BY <1>1, <1>2, <1>3, EngineStep, RpcStep, TypedParts

LEMMA DisconnectEffect ==
  ASSUME Typed, NEW d \in Disconnects, Disconnect(d)
  PROVE  /\ Typed' /\ EngineSame /\ RpcSame /\ frame[d].pc = "idle" /\ Others(d)
         /\ frame'[d].pc \in {"stop", "wait"} /\ frame'[d].sess = session
         /\ session' = None /\ generation' = generation + 1 /\ cancel' = None
         /\ canceled \subseteq canceled' /\ outdated' = outdated \cup Connecting
  <1> DEFINE f == [Idle EXCEPT !.pc = IF connectingDone = None THEN "stop" ELSE "wait", !.sess = session,
                               !.stream = connectingDone]
  <1>1. /\ frame[d].pc = "idle" /\ frame' = [frame EXCEPT ![d] = f] /\ UNCHANGED rpcs /\ UNCHANGED engines
        /\ session' = None /\ generation' = generation + 1 /\ cancel' = None /\ connectingDone' = connectingDone
        /\ canceled \subseteq canceled' /\ outdated' = outdated \cup Connecting
    BY DEF Disconnect, Overtake
  <1>2. /\ d \in Goroutines /\ session \in Sessions \cup {None} /\ connectingDone \in Connects \cup {None}
        /\ generation \in Nat
    BY DEF Goroutines, Typed, OwnerTyped
  <1>3. /\ f \in Frames /\ f.pc \in {"stop", "wait"} /\ f.sess = session /\ f.method = "stop" /\ f.rpc = "stop"
    BY <1>2, IdleFrame DEF Idle, Frames, AllPlaces
  <1> HIDE DEF f
  <1>4. f.pc \in Places(d) /\ d \notin Senders
    BY <1>2, <1>3, Kinds DEF Places
  <1>5. Placed(d, f)
    BY <1>3, <1>4 DEF Placed, Calling
  <1>6. FramesTyped' /\ frame'[d] = f /\ Others(d)
    BY <1>1, <1>2, <1>3, <1>5, FrameStep
  <1>7. OwnerTyped'
    BY <1>1, <1>2 DEF Typed, OwnerTyped
  <1>8. QED
    BY <1>1, <1>3, <1>6, <1>7, EngineStep, RpcStep, TypedParts

LEMMA WaitConnectingEffect ==
  ASSUME Typed, NEW d \in Disconnects, WaitConnecting(d)
  PROVE  Typed' /\ OwnerSame /\ EngineSame /\ RpcSame /\ frame[d].pc = "wait" /\ Moves(d, "stop")
  <1>1. frame[d].pc = "wait" /\ Goto(d, "stop") /\ UNCHANGED owner /\ UNCHANGED engines /\ UNCHANGED rpcs
    BY DEF WaitConnecting
  <1>2. d \in Goroutines
    BY DEF Goroutines
  <1>3. /\ "stop" \in Places(d) /\ "stop" \in AllPlaces /\ d \notin Senders
        /\ "stop" \notin {"idle", "begin", "hspMu", "send", "dial", "old", "discard", "close"} \cup Calling
    BY <1>2, Kinds DEF Places, AllPlaces, Calling
  <1>4. FramesTyped' /\ Moves(d, "stop")
    BY <1>1, <1>2, <1>3, GotoStep
  <1>5. QED
    BY <1>1, <1>4, OwnerStep, EngineStep, RpcStep, TypedParts

LEMMA StopRetiredEffect ==
  ASSUME Typed, NEW d \in Disconnects, StopRetired(d)
  PROVE  /\ Typed' /\ OwnerSame /\ EngineSame /\ frame[d].pc = "stop"
         /\ \/ frame[d].sess = None /\ Resets(d) /\ RpcSame
            \/ frame[d].sess \in Sessions /\ Moves(d, "execute") /\ Forgets(frame[d].sess)
  <1>1. /\ frame[d].pc = "stop" /\ UNCHANGED owner /\ UNCHANGED engines
    BY DEF StopRetired
  <1>2. d \in Goroutines /\ frame[d].sess \in Sessions \cup {None}
    BY SessOf DEF Goroutines
  <1>3. CASE frame[d].sess = None
    <2>1. frame' = [frame EXCEPT ![d] = Idle] /\ UNCHANGED rpcs
      BY <1>3 DEF StopRetired
    <2>2. FramesTyped' /\ Resets(d)
      BY <1>2, <2>1, ResetStep
    <2>3. QED
      BY <1>1, <1>3, <2>1, <2>2, OwnerStep, EngineStep, RpcStep, TypedParts
  <1>4. CASE frame[d].sess # None
    <2>1. Goto(d, "execute") /\ Interrupt(frame[d].sess)
      BY <1>4 DEF StopRetired
    <2>2. /\ "execute" \in Places(d) /\ "execute" \in AllPlaces /\ d \notin Senders
          /\ "execute" \notin {"idle", "begin", "hspMu", "send", "dial", "old", "publish"}
      BY <1>2, Kinds DEF Places, AllPlaces, Calling
    <2>3. FramesTyped' /\ Moves(d, "execute")
      BY <1>2, <1>4, <2>1, <2>2, GotoStep
    <2>4. Forgets(frame[d].sess) /\ LinksTyped'
      BY <1>2, <1>4, <2>1, InterruptStep
    <2>5. QED
      BY <1>1, <1>2, <1>4, <2>3, <2>4, OwnerStep, EngineStep, TypedParts
  <1>5. QED
    BY <1>3, <1>4
-----------------------------------------------------------------------------
(* Typing, and the setup of connections.                                   *)

LEMMA InitTyped == Init => Typed
  <1> SUFFICES ASSUME Init PROVE Typed
    OBVIOUS
  <1>1. OwnerTyped /\ LinksTyped /\ EngineTyped
    BY DEF Init, OwnerTyped, LinksTyped, EngineTyped
  <1>2. \A g \in Goroutines : frame[g] = Idle /\ "idle" \in Places(g)
    BY DEF Init, Places
  <1>3. \A g \in Goroutines : Placed(g, frame[g])
    BY <1>2, IdleFrame DEF Placed, Calling, Idle
  <1>4. frame \in [Goroutines -> Frames]
    BY IdleFrame DEF Init
  <1>5. QED
    BY <1>1, <1>3, <1>4 DEF Typed

LEMMA StutterEffect ==
  ASSUME Typed, UNCHANGED vars
  PROVE  Typed' /\ OwnerSame /\ EngineSame /\ RpcSame /\ frame' = frame
  <1>1. UNCHANGED owner /\ UNCHANGED engines /\ UNCHANGED rpcs /\ frame' = frame
    BY DEF vars
  <1>2. FramesTyped'
    BY <1>1 DEF Typed, FramesTyped, Placed
  <1>3. QED
    BY <1>1, <1>2, OwnerStep, EngineStep, RpcStep, TypedParts

LEMMA NextTyped == Typed /\ [Next]_vars => Typed'
  <1> SUFFICES ASSUME Typed, [Next]_vars PROVE Typed'
    OBVIOUS
  <1>1. /\ \A c \in Senders : c \in Goroutines
        /\ \A k \in Connects : k \in Goroutines /\ \A d \in Disconnects : d \in Goroutines
    BY DEF Goroutines
  <1>2. CASE \E s \in Sessions : LinkFails(s)
    BY <1>2, LinkFailsEffect
  <1>3. CASE NewTransport
    BY <1>3, NewTransportEffect
  <1>4. CASE \E g \in Goroutines : SendCommand(g) \/ Execute(g) \/ Abandon(g) \/ EnterGate(g)
    BY <1>4, SendCommandEffect, ExecuteEffect, AbandonEffect, EnterGateEffect
  <1>5. CASE \E g \in Goroutines : Written(g) \/ WriteFails(g)
    BY <1>5, WrittenEffect, WriteFailsEffect
  <1>6. CASE \E c \in Senders : Admit(c)
    BY <1>6, AdmitEffect
  <1>7. CASE \E p \in Stoppers : EmergencyStop(p) \/ BeginStop(p) \/ LockStop(p)
    BY <1>7, EmergencyStopEffect, BeginStopEffect, LockStopEffect
  <1>8. CASE \E k \in Connects : BeginConnect(k) \/ ContextEnds(k) \/ Dial(k) \/ Initialize(k)
    BY <1>8, BeginConnectEffect, ContextEndsEffect, DialEffect, InitializeEffect
  <1>9. CASE \E k \in Connects : CloseOld(k) \/ Discard(k)
    BY <1>1, <1>9, ClosesEffect
  <1>10. CASE \E k \in Connects : Publish(k) \/ Leave(k)
    BY <1>10, PublishEffect, LeaveEffect
  <1>11. CASE \E d \in Disconnects : Disconnect(d) \/ WaitConnecting(d) \/ StopRetired(d)
    BY <1>11, DisconnectEffect, WaitConnectingEffect, StopRetiredEffect
  <1>12. CASE \E d \in Disconnects : CloseRetired(d)
    BY <1>12, ClosesEffect DEF Goroutines
  <1>13. CASE UNCHANGED vars
    BY <1>13, StutterEffect
  <1>14. QED
    BY <1>2, <1>3, <1>4, <1>5, <1>6, <1>7, <1>8, <1>9, <1>10, <1>11, <1>12, <1>13 DEF Next

(* A goroutine of another kind moves, or a Connect that has no longer or   *)
(* not yet to do with the owner.                                           *)
LEMMA SetupWaits ==
  ASSUME SetupInv, OwnerSame,
         \A k \in Connects : SettingUp(k)' => SettingUp(k) /\ frame'[k].gen = frame[k].gen
  PROVE  SetupInv'
  BY DEF SetupInv, OwnerSame

LEMMA OthersSetup ==
  ASSUME SetupInv, OwnerSame, NEW g \in Goroutines, Others(g), g \notin Connects
  PROVE  SetupInv'
  <1>1. \A k \in Connects : frame'[k] = frame[k]
    BY DEF Others, Goroutines
  <1>2. QED
    BY <1>1, SetupWaits DEF SettingUp

LEMMA SetupCalls ==
  ASSUME Typed, SetupInv, NEW g \in Goroutines,
         SendCommand(g) \/ Execute(g) \/ Abandon(g) \/ EnterGate(g) \/ Written(g) \/ WriteFails(g)
  PROVE  SetupInv' /\ session' = session
  <1>1. frame[g].pc \in {"send"} \cup Calling
    BY DEF SendCommand, Execute, Abandon, EnterGate, Written, WriteFails, Calling
  <1>2. g \notin Connects
    BY <1>1, PlaceOf, Kinds DEF Commands
  <1>3. OwnerSame /\ Others(g)
    BY SendCommandEffect, ExecuteEffect, AbandonEffect, EnterGateEffect, WrittenEffect, WriteFailsEffect
       DEF Leaves, Takes, Enters, Ends, Continues, Moves
  <1>4. QED
    BY <1>2, <1>3, OthersSetup DEF OwnerSame

LEMMA SetupOvertaken ==
  ASSUME Typed, SetupInv, session' \in {session, None}, outdated' = outdated \cup Connecting, canceled \subseteq canceled',
         NEW g \in Goroutines \ Connects, Others(g),
         generation' = generation + 1 \/ (generation' = generation /\ cancel = None), cancel' = None
  PROVE  SetupInv'
  <1>1. generation \in Nat /\ \A k \in Connects : frame'[k] = frame[k] /\ frame[k].gen \in Nat
    BY SessOf DEF Typed, OwnerTyped, Others, Goroutines
  <1>2. \A k \in Connects : k # None
    BY NativeAssumption
  <1>3. ASSUME NEW k \in Connects, SettingUp(k)
        PROVE  /\ frame'[k].gen <= generation' /\ frame'[k].gen # generation'
    <2>1. frame[k].gen <= generation /\ (frame[k].gen = generation => cancel = k)
      BY <1>3 DEF SetupInv
    <2>2. QED
      BY <1>1, <1>2, <2>1
  <1>4. \A k \in Connects : SettingUp(k)' => SettingUp(k)
    BY <1>1 DEF SettingUp
  <1>5. QED
    BY <1>3, <1>4 DEF SetupInv

LEMMA SetupBegins ==
  ASSUME Typed, SetupInv, NEW k \in Connects, BeginConnect(k)
  PROVE  SetupInv' /\ session' = None
  <1>1. /\ Others(k) /\ frame'[k].gen = generation' /\ session' = None /\ generation' = generation + 1 /\ cancel' = k
        /\ canceled' = canceled \ {k} /\ outdated' = outdated \ {k}
    BY BeginConnectEffect
  <1>2. generation \in Nat /\ \A h \in Connects \ {k} : frame'[h] = frame[h] /\ frame[h].gen \in Nat
    BY <1>1, SessOf DEF Typed, OwnerTyped, Others, Goroutines
  <1>3. ASSUME NEW h \in Connects, SettingUp(h)'
        PROVE  /\ frame'[h].gen <= generation' /\ (frame'[h].gen = generation' => cancel' = h)
               /\ h \in outdated' => h \in canceled' \/ frame'[h].gen # generation'
    <2>1. CASE h = k
      BY <1>1, <1>2, <2>1
    <2>2. CASE h # k
      <3>1. SettingUp(h) /\ frame'[h].gen = frame[h].gen /\ frame[h].gen <= generation
        BY <1>2, <1>3, <2>2 DEF SettingUp, SetupInv
      <3>2. QED
        BY <1>1, <1>2, <2>2, <3>1
    <2>3. QED
      BY <2>1, <2>2
  <1>4. QED
    BY <1>1, <1>3 DEF SetupInv

LEMMA SetupPublishes ==
  ASSUME Typed, SetupInv, NEW k \in Connects, Publish(k)
  PROVE  SetupInv' /\ (session' # session => k \notin outdated /\ frame[k].pc = "publish" /\ frame[k].sess = session')
  <1>1. /\ frame[k].pc = "publish" /\ generation' = generation /\ canceled' = canceled /\ outdated' = outdated
        /\ cancel' = (IF frame[k].gen = generation THEN None ELSE cancel)
        /\ session' = (IF Mine(k) THEN frame[k].sess ELSE session)
        /\ Moves(k, IF Mine(k) \/ frame[k].sess = None THEN "leave" ELSE "discard")
    BY PublishEffect
  <1>2. SettingUp(k) /\ ~SettingUp(k)'
    BY <1>1 DEF SettingUp, Moves
  <1>3. \A h \in Connects \ {k} : frame'[h] = frame[h]
    BY <1>1 DEF Moves, Others, Goroutines
  <1>4. frame[k].gen = generation => \A h \in Connects \ {k} : SettingUp(h) => frame[h].gen # generation
    BY <1>2 DEF SetupInv
  <1>5. SetupInv'
    <2>1. SUFFICES ASSUME NEW h \in Connects, SettingUp(h)'
                   PROVE  /\ frame'[h].gen <= generation' /\ (frame'[h].gen = generation' => cancel' = h)
                          /\ h \in outdated' => h \in canceled' \/ frame'[h].gen # generation'
      BY DEF SetupInv
    <2>2. h # k /\ frame'[h] = frame[h] /\ SettingUp(h)
      BY <1>2, <1>3, <2>1 DEF SettingUp
    <2>3. /\ frame[h].gen <= generation /\ (frame[h].gen = generation => cancel = h)
          /\ h \in outdated => h \in canceled \/ frame[h].gen # generation
      BY <2>2 DEF SetupInv
    <2>4. QED
      BY <1>1, <1>4, <2>2, <2>3
  <1>6. Mine(k) => k \notin outdated
    BY <1>2 DEF Mine, SetupInv
  <1>7. QED
    BY <1>1, <1>5, <1>6

(* What every step does to the setups, and which one brings a session.     *)
LEMMA NextSetup ==
  ASSUME Typed, SetupInv, [Next]_vars
  PROVE  /\ SetupInv'
         /\ session' \in {session, None} \/
              \E k \in Connects \ outdated : frame[k].pc = "publish" /\ frame[k].sess = session'
  <1>1. CASE \E s \in Sessions : LinkFails(s)
    BY <1>1, LinkFailsEffect, SetupWaits DEF OwnerSame, SettingUp
  <1>2. CASE NewTransport
    BY <1>2, NewTransportEffect, SetupWaits DEF OwnerSame, SettingUp
  <1>3. CASE \E g \in Goroutines : SendCommand(g) \/ Execute(g) \/ Abandon(g) \/ EnterGate(g) \/ Written(g) \/ WriteFails(g)
    BY <1>3, SetupCalls
  <1>4. CASE \E c \in Senders : Admit(c)
    <2>1. PICK c \in Senders : Begins(c) /\ c \in Goroutines \ Connects
      BY <1>4, AdmitEffect, Kinds DEF Goroutines
    <2>2. QED
      BY <2>1, OthersSetup DEF OwnerSame, Begins
  <1>5. CASE \E p \in Stoppers : EmergencyStop(p)
    <2>1. PICK p \in Stoppers : EmergencyStop(p)
      BY <1>5
    <2>2. p \in Goroutines \ Connects /\ Moves(p, "begin") /\ session' = session /\ outdated' = outdated \cup Connecting
      BY <2>1, EmergencyStopEffect, Kinds DEF Goroutines
    <2>3. /\ canceled \subseteq canceled' /\ cancel' = None
          /\ generation' = generation + 1 \/ (generation' = generation /\ cancel = None)
      BY <2>1, EmergencyStopEffect
    <2>4. QED
      BY <2>2, <2>3, SetupOvertaken DEF Moves
  <1>6. CASE \E p \in Stoppers : BeginStop(p) \/ LockStop(p)
    <2>1. PICK p \in Stoppers : OwnerSame /\ Others(p) /\ p \in Goroutines \ Connects
      BY <1>6, BeginStopEffect, LockStopEffect, Kinds DEF Goroutines, Moves
    <2>2. QED
      BY <2>1, OthersSetup DEF OwnerSame
  <1>7. CASE \E k \in Connects : BeginConnect(k)
    BY <1>7, SetupBegins
  <1>8. CASE \E k \in Connects : ContextEnds(k)
    <2>1. /\ frame' = frame /\ session' = session /\ generation' = generation /\ cancel' = cancel
          /\ outdated' = outdated /\ canceled \subseteq canceled'
      BY <1>8, ContextEndsEffect
    <2>2. QED
      BY <2>1 DEF SetupInv, SettingUp
  <1>9. CASE \E k \in Connects : CloseOld(k) \/ Dial(k) \/ Initialize(k) \/ Discard(k)
    <2>1. PICK k \in Connects : CloseOld(k) \/ Dial(k) \/ Initialize(k) \/ Discard(k)
      BY <1>9
    <2>2. k \in Goroutines
      BY DEF Goroutines
    <2>3. /\ OwnerSame /\ Others(k) /\ frame'[k].gen = frame[k].gen
          /\ SettingUp(k)' => SettingUp(k)
      BY <2>1, <2>2, ClosesEffect, DialEffect, InitializeEffect DEF Drops, Dials, Initializes, SettingUp
    <2>4. \A h \in Connects \ {k} : frame'[h] = frame[h]
      BY <2>3 DEF Others, Goroutines
    <2>5. \A h \in Connects : SettingUp(h)' => SettingUp(h) /\ frame'[h].gen = frame[h].gen
      BY <2>3, <2>4 DEF SettingUp
    <2>6. QED
      BY <2>3, <2>5, SetupWaits DEF OwnerSame
  <1>10. CASE \E k \in Connects : Publish(k)
    BY <1>10, SetupPublishes
  <1>11. CASE \E k \in Connects : Leave(k)
    <2>1. PICK k \in Connects : Leave(k)
      BY <1>11
    <2>2. /\ Resets(k) /\ session' = session /\ generation' = generation /\ cancel' = cancel
          /\ canceled' = canceled \ {k} /\ outdated' = outdated \ {k}
      BY <2>1, LeaveEffect
    <2>3. ~SettingUp(k)' /\ \A h \in Connects \ {k} : frame'[h] = frame[h]
      BY <2>2, IdleFrame DEF Resets, Others, Goroutines, SettingUp
    <2>4. SetupInv'
      BY <2>2, <2>3 DEF SetupInv, SettingUp
    <2>5. QED
      BY <2>2, <2>4
  <1>12. CASE \E d \in Disconnects : Disconnect(d)
    <2>1. PICK d \in Disconnects : Disconnect(d)
      BY <1>12
    <2>2. /\ d \in Goroutines \ Connects /\ Others(d) /\ session' = None /\ generation' = generation + 1
          /\ cancel' = None /\ canceled \subseteq canceled' /\ outdated' = outdated \cup Connecting
      BY <2>1, DisconnectEffect, Kinds DEF Goroutines
    <2>3. QED
      BY <2>2, SetupOvertaken
  <1>13. CASE \E d \in Disconnects : WaitConnecting(d) \/ StopRetired(d) \/ CloseRetired(d)
    <2>1. PICK d \in Disconnects : WaitConnecting(d) \/ StopRetired(d) \/ CloseRetired(d)
      BY <1>13
    <2>2. d \in Goroutines \ Connects
      BY Kinds DEF Goroutines
    <2>3. OwnerSame /\ Others(d)
      BY <2>1, <2>2, WaitConnectingEffect, StopRetiredEffect, ClosesEffect DEF Moves, Resets, Drops
    <2>4. QED
      BY <2>2, <2>3, OthersSetup DEF OwnerSame
  <1>14. CASE UNCHANGED vars
    BY <1>14, StutterEffect, SetupWaits DEF OwnerSame, SettingUp
  <1>15. QED
    BY <1>1, <1>2, <1>3, <1>4, <1>5, <1>6, <1>7, <1>8, <1>9, <1>10, <1>11, <1>12, <1>13, <1>14 DEF Next
-----------------------------------------------------------------------------
(* Links and who has them.                                                 *)

LEMMA LinkParts ==
  ASSUME LinkInv
  PROVE  /\ cancel # None => session = None
         /\ \A s \in Sessions : links[s] = "none" =>
              s # session /\ stream[s] = None /\ \A g \in Goroutines : frame[g].sess # s
         /\ \A k \in Connects : Private(k) =>
              /\ frame[k].sess # session /\ stream[frame[k].sess] = None
              /\ \A g \in Goroutines \ {k} : frame[g].sess # frame[k].sess
         /\ \A d \in Disconnects : frame[d].sess # None => frame[d].sess # session
         /\ \A s \in Sessions : links[s] = "open" => Held(s)
  BY DEF LinkInv

(* Nobody gets a session, and who lets one go has closed it.               *)
LEMMA LinksWait ==
  ASSUME Typed, LinkInv, session' = session, cancel' \in {cancel, None},
         \A g \in Goroutines : frame'[g].sess \in {frame[g].sess, None},
         \A k \in Connects : Private(k)' => Private(k),
         \A s \in Sessions : links'[s] = "none" => links[s] = "none",
         \A s \in Sessions : links'[s] = "open" => links[s] = "open",
         \A g \in Connects \cup Disconnects :
            frame[g].sess # None /\ frame[g].pc # "leave" /\ links'[frame[g].sess] = "open" =>
              frame'[g].sess = frame[g].sess /\ frame'[g].pc # "leave",
         \A s \in Sessions : stream'[s] \in {stream[s], None} \/ \E g \in Commands : frame[g].sess = s
  PROVE  LinkInv'
  <1>1. /\ None \notin Sessions /\ Connects \subseteq Goroutines /\ Disconnects \subseteq Goroutines
        /\ \A g \in Commands : g \in Goroutines \ Connects
    BY Kinds DEF Goroutines, Commands
  <1>2. ASSUME NEW s \in Sessions, links'[s] = "none"
        PROVE  s # session' /\ stream'[s] = None /\ \A g \in Goroutines : frame'[g].sess # s
    <2>1. s # session /\ stream[s] = None /\ \A g \in Goroutines : frame[g].sess # s
      BY <1>2, LinkParts
    <2>2. stream'[s] = None
      BY <1>1, <2>1
    <2>3. QED
      BY <1>1, <2>1, <2>2
  <1>3. ASSUME NEW k \in Connects, Private(k)'
        PROVE  /\ frame'[k].sess # session' /\ stream'[frame'[k].sess] = None
               /\ \A g \in Goroutines \ {k} : frame'[g].sess # frame'[k].sess
    <2>1. /\ frame[k].sess # session /\ stream[frame[k].sess] = None
          /\ \A g \in Goroutines \ {k} : frame[g].sess # frame[k].sess
      BY <1>3, LinkParts
    <2>2. frame'[k].sess = frame[k].sess /\ frame[k].sess # None /\ frame[k].sess \in Sessions
      BY <1>1, <1>3, SessOf DEF Private
    <2>3. stream'[frame[k].sess] = None
      BY <1>1, <2>1, <2>2
    <2>4. QED
      BY <2>1, <2>2, <2>3
  <1>4. \A d \in Disconnects : frame'[d].sess # None => frame'[d].sess # session'
    BY <1>1, LinkParts
  <1>5. \A s \in Sessions : links'[s] = "open" => Held(s)'
    <2>1. SUFFICES ASSUME NEW s \in Sessions, links'[s] = "open" PROVE Held(s)'
      OBVIOUS
    <2>2. Held(s)
      BY <2>1, LinkParts
    <2>3. CASE s = session
      BY <2>3 DEF Held
    <2>4. CASE \E g \in Connects \cup Disconnects : frame[g].sess = s /\ frame[g].pc # "leave"
      BY <1>1, <2>1, <2>4 DEF Held
    <2>5. QED
      BY <2>2, <2>3, <2>4 DEF Held
  <1>6. cancel' # None => session' = None
    BY LinkParts
  <1>7. QED
    BY <1>2, <1>3, <1>4, <1>5, <1>6 DEF LinkInv

(* A command or a Disconnect goes on with what it has, or is done with it. *)
LEMMA LinksOfOther ==
  ASSUME Typed, LinkInv, session' = session, cancel' \in {cancel, None}, NEW g \in Goroutines \ Connects, Others(g),
         frame'[g].sess \in {frame[g].sess, None},
         frame'[g].sess = frame[g].sess \/ g \in Commands \/ links'[frame[g].sess] = "closed",
         g \in Disconnects => frame'[g].pc # "leave",
         \A s \in Sessions : links'[s] \in {links[s], "closed"},
         \A s \in Sessions : stream'[s] \in {stream[s], None} \/ (g \in Commands /\ frame[g].sess = s)
  PROVE  LinkInv'
  <1>1. \A h \in Goroutines : h # g => frame'[h] = frame[h]
    BY DEF Others
  <1>2. /\ Connects \subseteq Goroutines /\ Disconnects \subseteq Goroutines
        /\ g \in Commands => g \notin Connects \cup Disconnects
    BY Kinds DEF Goroutines, Commands
  <1>3. \A k \in Connects : frame'[k] = frame[k]
    BY <1>1, <1>2
  <1>4. \A k \in Connects : Private(k)' => Private(k)
    BY <1>3 DEF Private
  <1>5. \A h \in Connects \cup Disconnects :
            frame[h].sess # None /\ frame[h].pc # "leave" /\ links'[frame[h].sess] = "open" =>
              frame'[h].sess = frame[h].sess /\ frame'[h].pc # "leave"
    BY <1>1, <1>2, <1>3
  <1>6. \A h \in Goroutines : frame'[h].sess \in {frame[h].sess, None}
    BY <1>1
  <1>7. /\ \A s \in Sessions : links'[s] = "none" => links[s] = "none"
        /\ \A s \in Sessions : links'[s] = "open" => links[s] = "open"
    OBVIOUS
  <1>8. \A s \in Sessions : stream'[s] \in {stream[s], None} \/ \E h \in Commands : frame[h].sess = s
    OBVIOUS
  <1>9. QED
    BY <1>4, <1>5, <1>6, <1>7, <1>8, LinksWait

LEMMA LinksCalls ==
  ASSUME Typed, LinkInv, NEW g \in Goroutines,
         SendCommand(g) \/ Execute(g) \/ Abandon(g) \/ EnterGate(g) \/ Written(g) \/ WriteFails(g)
  PROVE  LinkInv'
  <1>1. frame[g].pc \in {"send"} \cup Calling
    BY DEF SendCommand, Execute, Abandon, EnterGate, Written, WriteFails, Calling
  <1>2. g \notin Connects /\ g \in Commands \cup Disconnects
    BY <1>1, PlaceOf, Kinds DEF Commands
  <1>3. g \in Disconnects => g \notin Commands
    BY Kinds DEF Commands
  <1>4. CASE Takes(g)
    <2>1. /\ session # None /\ session \in Sessions /\ frame[g].pc = "send" /\ frame'[g].sess = session
          /\ session' = session /\ cancel' = cancel /\ links' = links /\ stream' = stream
          /\ \A h \in Goroutines \ {g} : frame'[h] = frame[h]
      BY <1>4 DEF Takes, OwnerSame, RpcSame, Others, Typed, OwnerTyped
    <2>2. \A h \in Connects \cup Disconnects : h \in Goroutines \ {g} /\ frame'[h] = frame[h]
      <3>1. g \in Commands
        BY <2>1, PlaceOf
      <3>2. QED
        BY <2>1, <3>1, Kinds DEF Commands, Goroutines
    <2>3. \A s \in Sessions : links[s] = "none" =>
            s # session /\ stream[s] = None /\ \A h \in Goroutines : frame'[h].sess # s
      BY <2>1, LinkParts
    <2>4. \A k \in Connects : Private(k) => \A h \in Goroutines \ {k} : frame'[h].sess # frame[k].sess
      BY <2>1, LinkParts
    <2>5. \A k \in Connects : Private(k)' <=> Private(k)
      BY <2>2 DEF Private
    <2>6. \A s \in Sessions : Held(s) => Held(s)'
      BY <2>1, <2>2 DEF Held
    <2>7. QED
      BY <2>1, <2>2, <2>3, <2>4, <2>5, <2>6, LinkParts DEF LinkInv
  <1>5. ASSUME session' = session, cancel' = cancel, Others(g),
               \/ frame'[g].sess = frame[g].sess /\ (g \in Disconnects => frame'[g].pc # "leave")
               \/ g \in Commands /\ frame'[g].sess = None,
               \A s \in Sessions : links'[s] \in {links[s], "closed"},
               \A s \in Sessions : stream'[s] \in {stream[s], None} \/ (g \in Commands /\ frame[g].sess = s)
        PROVE  LinkInv'
    BY <1>2, <1>3, <1>5, LinksOfOther
  <1>6. Leaves(g) => /\ session' = session /\ cancel' = cancel /\ Others(g)
                     /\ \/ frame'[g].sess = frame[g].sess /\ (g \in Disconnects => frame'[g].pc # "leave")
                        \/ g \in Commands /\ frame'[g].sess = None
    BY <1>2, IdleFrame DEF Leaves, OwnerSame, Resets, Moves, Kept
  <1>7. RpcSame => /\ \A s \in Sessions : links'[s] \in {links[s], "closed"}
                   /\ \A s \in Sessions : stream'[s] \in {stream[s], None}
    BY DEF RpcSame
  <1>8. CASE Leaves(g) /\ RpcSame
    BY <1>5, <1>6, <1>7, <1>8
  <1>9. CASE Execute(g)
    BY <1>5, <1>7, <1>9, ExecuteEffect DEF Moves, Kept, OwnerSame
  <1>10. CASE Enters(g)
    BY <1>5, <1>10 DEF Enters, OwnerSame
  <1>11. CASE Ends(g)
    <2>1. /\ \A s \in Sessions : links'[s] \in {links[s], "closed"}
          /\ \A s \in Sessions : stream'[s] \in {stream[s], None}
      BY <1>11 DEF Ends
    <2>2. QED
      BY <1>5, <1>6, <1>11, <2>1 DEF Ends
  <1>12. CASE Continues(g)
    <2>1. /\ g \in Commands /\ session' = session /\ cancel' = cancel /\ Others(g)
          /\ frame'[g].sess = frame[g].sess /\ frame'[g].pc = "write" /\ links' = links
      BY <1>12 DEF Continues, Commands, OwnerSame
    <2>2. \A s \in Sessions : stream'[s] \in {stream[s], None} \/ frame[g].sess = s
      BY <1>12 DEF Continues, Only
    <2>3. QED
      BY <1>5, <2>1, <2>2
  <1>13. QED
    BY <1>4, <1>8, <1>9, <1>10, <1>11, <1>12, SendCommandEffect, AbandonEffect, EnterGateEffect, WrittenEffect,
       WriteFailsEffect

(* A connection ends a setup, or a goroutine loses its link.               *)
LEMMA LinksOfConnects ==
  ASSUME Typed, LinkInv, NEW k \in Connects,
         CloseOld(k) \/ Discard(k) \/ Leave(k) \/ ContextEnds(k)
  PROVE  LinkInv'
  <1>1. k \in Goroutines /\ \A h \in Connects \cup Disconnects : h \in Goroutines
    BY DEF Goroutines
  <1>2. /\ session' = session /\ cancel' \in {cancel, None} /\ gate' = gate /\ stream' = stream
        /\ \A h \in Goroutines \ {k} : frame'[h] = frame[h]
    BY <1>1, ClosesEffect, LeaveEffect, ContextEndsEffect DEF Drops, OwnerSame, RpcSame, Resets, Others
  <1>3. \/ frame'[k] = frame[k] /\ links' = links
        \/ frame'[k].sess = None /\ Closes(frame[k].sess)
        \/ frame'[k].sess = None /\ frame[k].pc = "leave" /\ links' = links
    BY <1>1, ClosesEffect, LeaveEffect, ContextEndsEffect, IdleFrame DEF Drops, RpcSame, Resets
  <1>4. frame[k].sess \in Sessions \cup {None}
    BY <1>1, SessOf
  <1>5. /\ \A s \in Sessions : links'[s] = "none" => links[s] = "none"
        /\ \A s \in Sessions : links'[s] = "open" => links[s] = "open"
        /\ \A g \in Goroutines : frame'[g].sess \in {frame[g].sess, None}
        /\ \A h \in Connects : Private(h)' => Private(h)
    <2>1. Closes(frame[k].sess) => \A s \in Sessions : links'[s] = "closed" \/ links'[s] = links[s]
      BY DEF Closes, Only
    <2>2. \A g \in Goroutines : frame'[g].sess \in {frame[g].sess, None}
      BY <1>2, <1>3
    <2>3. \A h \in Connects : Private(h)' => Private(h)
      BY <1>1, <1>2, <1>3 DEF Private
    <2>4. QED
      BY <1>3, <2>1, <2>2, <2>3
  <1>6. \A g \in Connects \cup Disconnects :
            frame[g].sess # None /\ frame[g].pc # "leave" /\ links'[frame[g].sess] = "open" =>
              frame'[g].sess = frame[g].sess /\ frame'[g].pc # "leave"
    <2>1. Closes(frame[k].sess) => links'[frame[k].sess] # "open"
      BY DEF Closes, Only
    <2>2. QED
      BY <1>1, <1>2, <1>3, <2>1
  <1>7. \A s \in Sessions : stream'[s] \in {stream[s], None} \/ \E g \in Commands : frame[g].sess = s
    BY <1>2
  <1>8. QED
    BY <1>2, <1>5, <1>6, <1>7, LinksWait

(* A Connect keeps its session while it initialises it.                    *)
LEMMA LinksInitialized ==
  ASSUME Typed, LinkInv, NEW k \in Connects, Initialize(k)
  PROVE  LinkInv'
  <1>1. Initializes(k) /\ k \in Goroutines /\ \A h \in Connects \cup Disconnects : h \in Goroutines
    BY InitializeEffect DEF Goroutines
  <1>2. /\ session' = session /\ cancel' = cancel /\ stream' = stream
        /\ \A h \in Goroutines \ {k} : frame'[h] = frame[h]
        /\ frame[k].pc = "initialize" /\ frame'[k].pc = "publish" /\ frame'[k].sess = frame[k].sess
    BY <1>1 DEF Initializes, OwnerSame, Others
  <1>3. \A s \in Sessions : links'[s] = "closed" \/ links'[s] = links[s]
    BY <1>1 DEF Initializes, Closes, Only
  <1>4. \A h \in Connects : Private(h)' => Private(h)
    BY <1>1, <1>2 DEF Private
  <1>5. /\ \A g \in Goroutines : frame'[g].sess \in {frame[g].sess, None}
        /\ \A g \in Connects \cup Disconnects :
             frame[g].sess # None /\ frame[g].pc # "leave" /\ links'[frame[g].sess] = "open" =>
               frame'[g].sess = frame[g].sess /\ frame'[g].pc # "leave"
    BY <1>1, <1>2
  <1>6. /\ \A s \in Sessions : links'[s] = "none" => links[s] = "none"
        /\ \A s \in Sessions : links'[s] = "open" => links[s] = "open"
        /\ \A s \in Sessions : stream'[s] \in {stream[s], None} \/ \E g \in Commands : frame[g].sess = s
    BY <1>2, <1>3
  <1>7. QED
    BY <1>2, <1>4, <1>5, <1>6, LinksWait

(* The owner lets its session go: a goroutine has it, or its link is dead. *)
LEMMA LinksLetGo ==
  ASSUME Typed, LinkInv, NEW g \in Connects \cup Disconnects, frame[g].sess = None, Others(g), RpcSame,
         session' = None, frame'[g].sess = session, frame'[g].pc \notin {"initialize", "publish", "discard", "leave"}
  PROVE  LinkInv'
  <1>1. /\ g \in Goroutines /\ None \notin Sessions /\ \A h \in Connects \cup Disconnects : h \in Goroutines
        /\ links' = links /\ stream' = stream /\ \A h \in Goroutines \ {g} : frame'[h] = frame[h]
    BY Kinds DEF Goroutines, RpcSame, Others
  <1>2. \A s \in Sessions : links[s] = "none" =>
           s # session' /\ stream[s] = None /\ \A h \in Goroutines : frame'[h].sess # s
    BY <1>1, LinkParts
  <1>3. ASSUME NEW k \in Connects, Private(k)'
        PROVE  /\ frame'[k].sess # session' /\ stream'[frame'[k].sess] = None
               /\ \A h \in Goroutines \ {k} : frame'[h].sess # frame'[k].sess
    <2>1. k # g /\ k \in Goroutines
      BY <1>1, <1>3 DEF Private
    <2>2. frame'[k] = frame[k] /\ Private(k)
      BY <1>1, <1>3, <2>1 DEF Private
    <2>3. /\ frame[k].sess # session /\ stream[frame[k].sess] = None
          /\ \A h \in Goroutines \ {k} : frame[h].sess # frame[k].sess
      BY <2>2, LinkParts
    <2>4. \A h \in Goroutines \ {k} : frame'[h].sess # frame'[k].sess
      BY <1>1, <2>2, <2>3
    <2>5. QED
      BY <1>1, <2>2, <2>3, <2>4 DEF Private
  <1>4. \A s \in Sessions : links[s] = "open" => Held(s)'
    <2>1. SUFFICES ASSUME NEW s \in Sessions, links[s] = "open" PROVE Held(s)'
      OBVIOUS
    <2>2. Held(s)
      BY <2>1, LinkParts
    <2>3. CASE s = session
      BY <2>3 DEF Held
    <2>4. CASE \E h \in Connects \cup Disconnects : frame[h].sess = s /\ frame[h].pc # "leave"
      <3>1. PICK h \in Connects \cup Disconnects : frame[h].sess = s /\ frame[h].pc # "leave"
        BY <2>4
      <3>2. h # g
        BY <1>1, <3>1
      <3>3. QED
        BY <1>1, <3>1, <3>2 DEF Held
    <2>5. QED
      BY <2>2, <2>3, <2>4 DEF Held
  <1>5. QED
    BY <1>1, <1>2, <1>3, <1>4 DEF LinkInv

(* A link of which nobody else knows.                                      *)
LEMMA LinksDialed ==
  ASSUME Typed, LinkInv, NEW k \in Connects, Dial(k)
  PROVE  LinkInv'
  <1>1. Dials(k) /\ frame[k].sess = None /\ k \in Goroutines
    BY DialEffect, PlaceOf DEF Placed, Goroutines, Dials
  <1>2. /\ None \notin Sessions /\ \A h \in Connects \cup Disconnects : h \in Goroutines
        /\ session' = session /\ cancel' = cancel /\ stream' = stream
        /\ \A h \in Goroutines \ {k} : frame'[h] = frame[h]
        /\ frame'[k].pc # "leave"
    BY <1>1, Kinds DEF Dials, OwnerSame, Others, Goroutines
  <1>3. \A s \in Sessions : links'[s] = links[s] \/ (s = frame'[k].sess /\ links[s] = "none" /\ links'[s] # "none")
    BY <1>1 DEF Dials
  <1>4. frame'[k].sess # None => frame'[k].sess \in Sessions /\ links[frame'[k].sess] = "none" /\ links'[frame'[k].sess] # "none"
    BY <1>1 DEF Dials
  <1>5. ASSUME NEW s \in Sessions, links'[s] = "none"
        PROVE  s # session' /\ stream'[s] = None /\ \A g \in Goroutines : frame'[g].sess # s
    <2>1. links[s] = "none" /\ s # frame'[k].sess
      BY <1>2, <1>3, <1>4, <1>5
    <2>2. QED
      BY <1>2, <2>1, LinkParts
  <1>6. ASSUME NEW h \in Connects, Private(h)'
        PROVE  /\ frame'[h].sess # session' /\ stream'[frame'[h].sess] = None
               /\ \A g \in Goroutines \ {h} : frame'[g].sess # frame'[h].sess
    <2>1. CASE h = k
      <3>1. frame'[k].sess \in Sessions /\ links[frame'[k].sess] = "none"
        BY <1>4, <1>6, <2>1 DEF Private
      <3>2. /\ frame'[k].sess # session /\ stream[frame'[k].sess] = None
            /\ \A g \in Goroutines : frame[g].sess # frame'[k].sess
        BY <3>1, LinkParts
      <3>3. QED
        BY <1>2, <2>1, <3>2
    <2>2. CASE h # k
      <3>1. Private(h) /\ frame'[h] = frame[h] /\ h \in Goroutines
        BY <1>2, <1>6, <2>2 DEF Private
      <3>2. /\ frame[h].sess # session /\ stream[frame[h].sess] = None
            /\ \A g \in Goroutines \ {h} : frame[g].sess # frame[h].sess
        BY <3>1, LinkParts
      <3>3. frame'[k].sess # frame[h].sess
        BY <1>4, <3>1, LinkParts DEF Private
      <3>4. QED
        BY <1>2, <3>1, <3>2, <3>3
    <2>3. QED
      BY <2>1, <2>2
  <1>7. \A d \in Disconnects : frame'[d].sess # None => frame'[d].sess # session'
    <2>1. k \notin Disconnects
      BY <1>1, Kinds
    <2>2. QED
      BY <1>2, <2>1, LinkParts
  <1>8. \A s \in Sessions : links'[s] = "open" => Held(s)'
    <2>1. SUFFICES ASSUME NEW s \in Sessions, links'[s] = "open" PROVE Held(s)'
      OBVIOUS
    <2>2. CASE s = frame'[k].sess
      BY <1>2, <2>2 DEF Held
    <2>3. CASE links[s] = "open"
      <3>1. Held(s)
        BY <2>3, LinkParts
      <3>2. \A h \in Connects \cup Disconnects : frame[h].sess = s => h # k
        BY <1>1, <1>2
      <3>3. QED
        BY <1>2, <3>1, <3>2 DEF Held
    <2>4. QED
      BY <1>3, <2>1, <2>2, <2>3
  <1>9. cancel' # None => session' = None
    BY <1>2, LinkParts
  <1>10. QED
    BY <1>5, <1>6, <1>7, <1>8, <1>9 DEF LinkInv

(* The owner gets a session that only k had: it had none.                  *)
LEMMA LinksPublished ==
  ASSUME Typed, SetupInv, LinkInv, NEW k \in Connects, Publish(k)
  PROVE  LinkInv'
  <1>1. /\ RpcSame /\ frame[k].pc = "publish"
        /\ cancel' = (IF frame[k].gen = generation THEN None ELSE cancel)
        /\ session' = (IF Mine(k) THEN frame[k].sess ELSE session)
        /\ Mine(k) => frame[k].sess # None
        /\ Moves(k, IF Mine(k) \/ frame[k].sess = None THEN "leave" ELSE "discard")
    BY PublishEffect
  <1>2. /\ None \notin Sessions /\ \A h \in Connects \cup Disconnects : h \in Goroutines
        /\ links' = links /\ stream' = stream /\ frame'[k].sess = frame[k].sess
        /\ \A h \in Goroutines \ {k} : frame'[h] = frame[h]
        /\ k \notin Disconnects
    BY <1>1, Kinds DEF RpcSame, Others, Moves, Kept, Goroutines
  <1>3. CASE ~Mine(k)
    <2>1. /\ session' = session /\ cancel' \in {cancel, None}
          /\ frame'[k].pc = (IF frame[k].sess = None THEN "leave" ELSE "discard")
      BY <1>1, <1>3 DEF Moves
    <2>2. \A h \in Connects : Private(h)' => Private(h)
      BY <1>1, <1>2, <2>1 DEF Private
    <2>3. \A g \in Connects \cup Disconnects :
             frame[g].sess # None /\ frame[g].pc # "leave" => frame'[g].sess = frame[g].sess /\ frame'[g].pc # "leave"
      BY <1>2, <2>1
    <2>4. \A g \in Goroutines : frame'[g].sess \in {frame[g].sess, None}
      BY <1>2
    <2>5. \A s \in Sessions : stream'[s] \in {stream[s], None} \/ \E g \in Commands : frame[g].sess = s
      BY <1>2
    <2>6. QED
      BY <1>2, <2>1, <2>2, <2>3, <2>4, <2>5, LinksWait
  <1>4. CASE Mine(k)
    <2>1. /\ frame[k].sess # None /\ session' = frame[k].sess /\ cancel' = None /\ frame'[k].pc = "leave"
      BY <1>1, <1>4 DEF Mine, Moves
    <2>2. session = None
      <3>1. cancel = k
        BY <1>1, <1>4 DEF Mine, SetupInv, SettingUp
      <3>2. QED
        BY <1>2, <3>1, LinkParts, NativeAssumption
    <2>3. Private(k) /\ k \in Goroutines /\ frame[k].sess \in Sessions
      BY <1>1, <1>2, <2>1, SessOf DEF Private
    <2>4. stream[frame[k].sess] = None /\ \A g \in Goroutines \ {k} : frame[g].sess # frame[k].sess
      BY <2>3, LinkParts
    <2>5. \A g \in Goroutines : frame'[g].sess = frame[g].sess
      BY <1>2
    <2>6. \A s \in Sessions : links'[s] = "none" =>
             s # session' /\ stream'[s] = None /\ \A g \in Goroutines : frame'[g].sess # s
      BY <1>2, <2>1, <2>3, <2>5, LinkParts
    <2>7. ASSUME NEW h \in Connects, Private(h)'
          PROVE  /\ frame'[h].sess # session' /\ stream'[frame'[h].sess] = None
                 /\ \A g \in Goroutines \ {h} : frame'[g].sess # frame'[h].sess
      <3>1. h # k /\ h \in Goroutines
        BY <1>2, <2>1, <2>7 DEF Private
      <3>2. Private(h) /\ frame'[h] = frame[h]
        BY <1>2, <2>7, <3>1 DEF Private
      <3>3. stream[frame[h].sess] = None /\ \A g \in Goroutines \ {h} : frame[g].sess # frame[h].sess
        BY <3>2, LinkParts
      <3>4. QED
        BY <1>2, <2>1, <2>3, <2>5, <3>1, <3>2, <3>3
    <2>8. \A d \in Disconnects : frame'[d].sess # None => frame'[d].sess # session'
      BY <1>2, <2>1, <2>4
    <2>9. \A s \in Sessions : links'[s] = "open" => Held(s)'
      <3>1. SUFFICES ASSUME NEW s \in Sessions, links'[s] = "open" PROVE Held(s)'
        OBVIOUS
      <3>2. PICK h \in Connects \cup Disconnects : frame[h].sess = s /\ frame[h].pc # "leave"
        BY <1>2, <2>2, <3>1, LinkParts DEF Held
      <3>3. CASE h = k
        BY <2>1, <3>2, <3>3 DEF Held
      <3>4. CASE h # k
        BY <1>2, <3>2, <3>4 DEF Held
      <3>5. QED
        BY <3>3, <3>4
    <2>10. QED
      BY <2>1, <2>6, <2>7, <2>8, <2>9 DEF LinkInv
  <1>5. QED
    BY <1>3, <1>4

LEMMA InitLinks == Init => LinkInv
  <1> SUFFICES ASSUME Init PROVE LinkInv
    OBVIOUS
  <1>1. /\ session = None /\ cancel = None /\ None \notin Sessions
        /\ \A s \in Sessions : links[s] = "none" /\ stream[s] = None
        /\ \A g \in Goroutines : frame[g] = Idle
    BY Kinds DEF Init
  <1>2. \A g \in Goroutines : frame[g].sess = None /\ frame[g].pc = "idle"
    BY <1>1, IdleFrame
  <1>3. \A k \in Connects : ~Private(k)
    BY <1>2 DEF Private, Goroutines
  <1>4. \A d \in Disconnects : frame[d].sess = None
    BY <1>2 DEF Goroutines
  <1>5. QED
    BY <1>1, <1>2, <1>3, <1>4 DEF LinkInv

LEMMA NextLinks ==
  ASSUME Typed, SetupInv, LinkInv, [Next]_vars
  PROVE  LinkInv'
  <1>0. /\ \A c \in Commands : c \in Goroutines \ Connects /\ c \notin Disconnects
        /\ \A d \in Disconnects : d \in Goroutines \ Connects
        /\ Senders \subseteq Commands /\ Stoppers \subseteq Commands
    BY Kinds DEF Goroutines, Commands
  <1>1. ASSUME session' = session, cancel' = cancel, frame' = frame, stream' = stream,
               \A s \in Sessions : links'[s] \in {links[s], "closed"}
        PROVE  LinkInv'
    <2>1. \A k \in Connects : Private(k)' => Private(k)
      BY <1>1 DEF Private
    <2>2. QED
      BY <1>1, <2>1, LinksWait
  <1>2. CASE \E s \in Sessions : LinkFails(s)
    BY <1>1, <1>2, LinkFailsEffect DEF OwnerSame, Closes, Only
  <1>3. CASE NewTransport
    BY <1>1, <1>3, NewTransportEffect DEF OwnerSame, RpcSame
  <1>4. CASE \E g \in Goroutines : SendCommand(g) \/ Execute(g) \/ Abandon(g) \/ EnterGate(g) \/ Written(g) \/ WriteFails(g)
    BY <1>4, LinksCalls
  <1>5. ASSUME NEW g \in Commands, Others(g), frame'[g].sess = None, session' = session, cancel' \in {cancel, None},
               \A s \in Sessions : links'[s] = links[s] /\ stream'[s] \in {stream[s], None}
        PROVE  LinkInv'
    <2>1. g \in Goroutines \ Connects /\ g \notin Disconnects
      BY <1>0
    <2>2. QED
      BY <1>5, <2>1, LinksOfOther
  <1>6. CASE \E c \in Senders : Admit(c)
    <2>1. PICK c \in Senders : Begins(c)
      BY <1>6, AdmitEffect
    <2>2. QED
      BY <1>0, <1>5, <2>1 DEF Begins, OwnerSame, RpcSame
  <1>7. CASE \E p \in Stoppers : EmergencyStop(p) \/ BeginStop(p) \/ LockStop(p)
    <2>1. PICK p \in Stoppers : EmergencyStop(p) \/ BeginStop(p) \/ LockStop(p)
      BY <1>7
    <2>2. p \in Goroutines
      BY <1>0
    <2>3. frame[p].pc \in {"idle", "begin", "hspMu"} /\ frame[p].sess = None
      BY <2>1, <2>2, PlaceOf DEF EmergencyStop, BeginStop, LockStop, Placed
    <2>4. Others(p) /\ frame'[p].sess = None /\ session' = session /\ cancel' \in {cancel, None}
      BY <2>1, <2>3, EmergencyStopEffect, BeginStopEffect, LockStopEffect, IdleFrame
         DEF Moves, Kept, Stops, OwnerSame
    <2>5. \A s \in Sessions : links'[s] = links[s] /\ stream'[s] \in {stream[s], None}
      BY <2>1, EmergencyStopEffect, BeginStopEffect, LockStopEffect DEF Calms, RpcSame
    <2>6. QED
      BY <1>0, <1>5, <2>4, <2>5
  <1>8. CASE \E k \in Connects : BeginConnect(k)
    <2>1. PICK k \in Connects : BeginConnect(k)
      BY <1>8
    <2>2. /\ Others(k) /\ RpcSame /\ frame[k].pc = "idle" /\ session' = None
          /\ frame'[k].sess = session /\ frame'[k].pc \notin {"initialize", "publish", "discard", "leave"}
      BY <2>1, BeginConnectEffect
    <2>3. k \in Goroutines /\ frame[k].sess = None
      BY <2>2, PlaceOf DEF Goroutines, Placed
    <2>4. QED
      BY <2>2, <2>3, LinksLetGo
  <1>9. CASE \E k \in Connects : CloseOld(k) \/ Discard(k) \/ Leave(k) \/ ContextEnds(k)
    BY <1>9, LinksOfConnects
  <1>10. CASE \E k \in Connects : Dial(k) \/ Initialize(k) \/ Publish(k)
    BY <1>10, LinksDialed, LinksInitialized, LinksPublished
  <1>11. CASE \E d \in Disconnects : Disconnect(d)
    <2>1. PICK d \in Disconnects : Disconnect(d)
      BY <1>11
    <2>2. /\ Others(d) /\ RpcSame /\ frame[d].pc = "idle" /\ session' = None
          /\ frame'[d].sess = session /\ frame'[d].pc \in {"stop", "wait"}
      BY <2>1, DisconnectEffect
    <2>3. d \in Goroutines /\ frame[d].sess = None
      BY <2>2, PlaceOf DEF Goroutines, Placed
    <2>4. QED
      BY <2>2, <2>3, LinksLetGo
  <1>12. CASE \E d \in Disconnects : WaitConnecting(d) \/ StopRetired(d) \/ CloseRetired(d)
    <2>1. PICK d \in Disconnects : WaitConnecting(d) \/ StopRetired(d) \/ CloseRetired(d)
      BY <1>12
    <2>2. d \in Goroutines \ Connects
      BY <1>0
    <2>3. /\ OwnerSame /\ Others(d) /\ frame'[d].pc # "leave"
          /\ frame'[d].sess = frame[d].sess \/ (frame'[d].sess = None /\ links'[frame[d].sess] = "closed")
      BY <2>1, <2>2, WaitConnectingEffect, StopRetiredEffect, ClosesEffect, IdleFrame
         DEF Moves, Kept, Resets, Drops, Closes, Only
    <2>4. \A s \in Sessions : links'[s] \in {links[s], "closed"} /\ stream'[s] \in {stream[s], None}
      BY <2>1, <2>2, WaitConnectingEffect, StopRetiredEffect, ClosesEffect
         DEF RpcSame, Forgets, Drops, Closes, Only
    <2>5. QED
      BY <2>2, <2>3, <2>4, LinksOfOther DEF OwnerSame
  <1>13. CASE UNCHANGED vars
    BY <1>1, <1>13, StutterEffect DEF OwnerSame, RpcSame
  <1>14. QED
    BY <1>2, <1>3, <1>4, <1>6, <1>7, <1>8, <1>9, <1>10, <1>11, <1>12, <1>13 DEF Next
-----------------------------------------------------------------------------
(* The streams: what sessions and devices have set up, and who writes.     *)

LEMMA StreamFacts ==
  ASSUME Typed
  PROVE  /\ lastStream \in Nat /\ None \notin Sessions
         /\ \A s \in Sessions : stream[s] # None => stream[s] \in Nat
         /\ \A c \in Senders : /\ c \in Commands /\ c \in Goroutines /\ c # None /\ c \notin Stoppers /\ c \notin Disconnects
                               /\ frame[c].pc # "idle" => frame[c].stream \in Nat
                               /\ frame[c].pc = "idle" => frame[c].sess = None
                               /\ frame[c].sess # None => frame[c].sess \in Sessions /\ frame[c].pc \in Calling
         /\ \A p \in Stoppers : /\ p \in Commands /\ p \in Goroutines /\ p # None /\ p \notin Senders /\ p \notin Disconnects
                                /\ frame[p].sess # None => frame[p].sess \in Sessions /\ frame[p].pc \in Calling
         /\ \A d \in Disconnects : /\ d \in Goroutines /\ d \notin Commands
                                   /\ frame[d].pc \in Calling => frame[d].sess \in Sessions
         /\ \A g \in Goroutines : frame[g].pc = "write" => g \in Commands \cup Disconnects /\ frame[g].sess \in Sessions
  <1>1. lastStream \in Nat /\ None \notin Sessions /\ \A s \in Sessions : stream[s] # None => stream[s] \in Nat
    BY Kinds DEF Typed, EngineTyped, LinksTyped
  <1>2. /\ \A c \in Senders : c \in Commands /\ c \in Goroutines /\ c # None /\ c \notin Stoppers /\ c \notin Disconnects
        /\ \A p \in Stoppers : p \in Commands /\ p \in Goroutines /\ p # None /\ p \notin Senders /\ p \notin Disconnects
        /\ \A d \in Disconnects : d \in Goroutines /\ d \notin Commands
    BY Kinds DEF Commands, Goroutines
  <1>3. ASSUME NEW c \in Senders
        PROVE  /\ frame[c].pc # "idle" => frame[c].stream \in Nat
               /\ frame[c].pc = "idle" => frame[c].sess = None
               /\ frame[c].sess # None => frame[c].sess \in Sessions /\ frame[c].pc \in Calling
    <2>1. frame[c].pc \in {"idle", "send"} \cup Calling
      BY <1>2, PlaceOf, Kinds DEF Places
    <2>2. QED
      BY <1>2, <2>1, SessOf, PlaceOf DEF Placed
  <1>4. ASSUME NEW p \in Stoppers
        PROVE  frame[p].sess # None => frame[p].sess \in Sessions /\ frame[p].pc \in Calling
    <2>1. frame[p].pc \in {"idle", "begin", "hspMu", "send"} \cup Calling
      BY <1>2, PlaceOf, Kinds DEF Places
    <2>2. QED
      BY <1>2, <2>1, SessOf, PlaceOf DEF Placed
  <1>5. /\ \A d \in Disconnects : frame[d].pc \in Calling => frame[d].sess \in Sessions
        /\ \A g \in Goroutines : frame[g].pc = "write" => g \in Commands \cup Disconnects /\ frame[g].sess \in Sessions
    BY <1>2, SessOf, PlaceOf DEF Calling
  <1>6. QED
    BY <1>1, <1>2, <1>3, <1>4, <1>5

(* A sender in a command is alone, and a Stop that waits for it ends later. *)
LEMMA OneSender ==
  ASSUME Typed, CallInv, NEW c \in Senders, frame[c].pc # "idle"
  PROVE  /\ hspMu = c /\ frame[c].gen = engine
         /\ \A h \in Senders \ {c} : frame[h].pc = "idle" /\ frame[h].sess = None
         /\ \A p \in Stoppers : frame[p].sess # None => stream[frame[p].sess] = None /\ frame[p].sess # frame[c].sess
  <1>1. hspMu = c /\ frame[c].gen = engine /\ \A h \in Senders \ {c} : frame[h].pc = "idle"
    BY DEF CallInv
  <1>2. ASSUME NEW p \in Stoppers, frame[p].sess # None
        PROVE  stream[frame[p].sess] = None /\ frame[p].sess # frame[c].sess
    <2>1. p # c /\ p \in Commands /\ c \in Commands /\ frame[p].pc \in Calling
      BY <1>2, StreamFacts
    <2>2. frame[p].gen # engine /\ stream[frame[p].sess] = None
      BY <1>1, <1>2, <2>1 DEF CallInv
    <2>3. QED
      BY <1>1, <1>2, <2>1, <2>2 DEF CallInv
  <1>3. QED
    BY <1>1, <1>2, StreamFacts

(* The owner changes what is its own; links come and go.                   *)
Quiet ==
  /\ EngineSame /\ gate' = gate /\ device' = device
  /\ \A g \in Commands :
       /\ frame'[g].sess = frame[g].sess /\ frame'[g].gen = frame[g].gen /\ frame'[g].rpc = frame[g].rpc
       /\ frame'[g].stream = frame[g].stream
       /\ \/ frame'[g].pc = frame[g].pc
          \/ frame[g].pc = "execute" /\ frame'[g].pc = "gate"
          \/ g \in Stoppers /\ frame[g].pc = "idle" /\ frame'[g].pc = "begin"
  /\ \A s \in Sessions : /\ stream'[s] \in {stream[s], None}
                         /\ links'[s] = "open" => links[s] = "open" \/ stream[s] = None
  /\ session' # None => \/ session' = session /\ generation' = generation
                        \/ session' \in Sessions /\ stream[session'] = None /\ \A g \in Commands : frame[g].sess # session'
  /\ \A d \in Disconnects : /\ frame'[d].pc = "write" => frame[d].pc = "write" /\ frame'[d].sess = frame[d].sess
                            /\ frame'[d].pc \in Calling =>
                                 \/ frame[d].pc \in Calling /\ frame'[d].sess = frame[d].sess
                                 \/ stream'[frame'[d].sess] = None

LEMMA StreamsQuiet ==
  ASSUME Typed, Typed', LinkInv, SInv, Quiet
  PROVE  SInv'
  <1>1. /\ engine' = engine /\ hspMu' = hspMu /\ stopping' = stopping /\ lastStream' = lastStream
        /\ gate' = gate /\ device' = device
    BY DEF Quiet, EngineSame
  <1>2. \A g \in Commands :
       /\ frame'[g].sess = frame[g].sess /\ frame'[g].gen = frame[g].gen /\ frame'[g].rpc = frame[g].rpc
       /\ frame'[g].stream = frame[g].stream
       /\ \/ frame'[g].pc = frame[g].pc
          \/ frame[g].pc = "execute" /\ frame'[g].pc = "gate"
          \/ g \in Stoppers /\ frame[g].pc = "idle" /\ frame'[g].pc = "begin"
    BY DEF Quiet
  <1>3. \A s \in Sessions : /\ stream'[s] \in {stream[s], None}
                            /\ links'[s] = "open" => links[s] = "open" \/ stream[s] = None
    BY DEF Quiet
  <1>4. session' # None => \/ session' = session /\ generation' = generation
                           \/ session' \in Sessions /\ stream[session'] = None /\ \A g \in Commands : frame[g].sess # session'
    BY DEF Quiet
  <1>5. \A d \in Disconnects : /\ frame'[d].pc = "write" => frame[d].pc = "write" /\ frame'[d].sess = frame[d].sess
                               /\ frame'[d].pc \in Calling =>
                                    \/ frame[d].pc \in Calling /\ frame'[d].sess = frame[d].sess
                                    \/ stream'[frame'[d].sess] = None
    BY DEF Quiet
  <1>6. /\ \A c \in Senders : /\ frame'[c].sess = frame[c].sess /\ frame'[c].gen = frame[c].gen /\ c \in Goroutines
                              /\ frame'[c].stream = frame[c].stream /\ frame'[c].rpc = frame[c].rpc
                              /\ frame'[c].pc = frame[c].pc \/ (frame[c].pc = "execute" /\ frame'[c].pc = "gate")
        /\ \A p \in Stoppers : p \in Commands
    BY <1>2, StreamFacts
  <1>7. session' \in Sessions \cup {None}
    BY DEF Typed, OwnerTyped
  <1>8. CallInv'
    <2>1. \A c \in Senders : frame'[c].pc # "idle" => hspMu' = c /\ frame'[c].gen = engine'
      BY <1>1, <1>6 DEF SInv, CallInv
    <2>2. ASSUME NEW p \in Stoppers
          PROVE  /\ frame'[p].pc \in {"hspMu", "send"} \cup Calling => p \in stopping'
                 /\ frame'[p].pc \in {"send"} \cup Calling =>
                      hspMu' = p \/ (frame'[p].gen # engine' /\ (frame'[p].sess # None => stream'[frame'[p].sess] = None))
      <3>1. frame'[p].pc \in {"hspMu", "send"} \cup Calling =>
              /\ frame[p].pc = frame'[p].pc \/ (frame[p].pc \in Calling /\ frame'[p].pc \in Calling)
              /\ frame'[p].sess = frame[p].sess /\ frame'[p].gen = frame[p].gen
        BY <1>2, <1>6 DEF Calling
      <3>2. frame[p].sess # None => frame[p].sess \in Sessions
        BY StreamFacts
      <3>3. /\ frame[p].pc \in {"hspMu", "send"} \cup Calling => p \in stopping
            /\ frame[p].pc \in {"send"} \cup Calling =>
                 hspMu = p \/ (frame[p].gen # engine /\ (frame[p].sess # None => stream[frame[p].sess] = None))
        BY DEF SInv, CallInv
      <3>4. QED
        BY <1>1, <1>3, <3>1, <3>2, <3>3
    <2>3. \A g \in Commands : frame'[g].sess # None /\ frame'[g].sess = session' => frame'[g].gen = generation'
      BY <1>2, <1>4 DEF SInv, CallInv
    <2>4. \A g, h \in Commands : frame'[g].sess # None /\ frame'[g].sess = frame'[h].sess => frame'[g].gen = frame'[h].gen
      BY <1>2 DEF SInv, CallInv
    <2>5. session' # None => stream'[session'] = None \/ engine' = generation'
      BY <1>1, <1>3, <1>4, <1>7 DEF SInv, CallInv
    <2>6. QED
      BY <2>1, <2>2, <2>3, <2>4, <2>5 DEF CallInv
  <1>9. StreamInv'
    BY <1>1, <1>3, <1>6 DEF SInv, StreamInv
  <1>10. GateInv'
    <2>1. SUFFICES ASSUME NEW g \in Goroutines, frame'[g].pc = "write" PROVE gate'[frame'[g].sess] = g
      BY DEF GateInv
    <2>2. frame'[g].pc \in Places(g)
      BY DEF Typed, Placed
    <2>3. g \in Commands \cup Disconnects
      BY <2>1, <2>2, Kinds DEF Places, Commands, Goroutines
    <2>4. frame[g].pc = "write" /\ frame'[g].sess = frame[g].sess
      BY <1>2, <1>5, <2>1, <2>3
    <2>5. QED
      BY <1>1, <2>4 DEF SInv, GateInv
  <1>11. MatchInv'
    <2>1. SUFFICES ASSUME NEW s \in Sessions, Stale(s)'
                   PROVE  /\ s = session' => stream'[s] # lastStream'
                          /\ \A c \in Senders : Comes(c, s)' => frame'[c].stream # stream'[s]
      BY DEF MatchInv
    <2>2. Stale(s) /\ stream'[s] = stream[s] /\ stream[s] # None
      BY <1>1, <1>3, <2>1 DEF Stale
    <2>3. s = session' => s = session
      BY <1>3, <1>4, <2>2, StreamFacts
    <2>4. \A c \in Senders : Comes(c, s)' => Comes(c, s)
      BY <1>6, <2>3 DEF Comes
    <2>5. QED
      BY <1>1, <1>6, <2>2, <2>3, <2>4 DEF SInv, MatchInv
  <1>12. RetiredInv'
    <2>1. SUFFICES ASSUME NEW d \in Disconnects, frame'[d].pc \in Calling, stream'[frame'[d].sess] # None,
                          NEW c \in Senders, frame'[c].sess = frame'[d].sess
                   PROVE  frame'[c].pc = "write"
      BY DEF RetiredInv
    <2>2. frame[d].pc \in Calling /\ frame'[d].sess = frame[d].sess /\ frame[d].sess \in Sessions
      BY <1>5, <2>1, StreamFacts
    <2>3. frame[c].pc = "write"
      BY <1>3, <1>6, <2>1, <2>2 DEF SInv, RetiredInv
    <2>4. QED
      BY <1>6, <2>3
  <1>13. WrittenToItsStream'
    BY <1>1, <1>6 DEF SInv, WrittenToItsStream
  <1>14. QED
    BY <1>8, <1>9, <1>10, <1>11, <1>12, <1>13 DEF SInv

(* A command or an operation ends.                                         *)
LEMMA StreamsLeave ==
  ASSUME Typed, LinkInv, SInv, NEW g \in Goroutines, Leaves(g), RpcSame \/ Ends(g)
  PROVE  SInv'
  <1>1. /\ engine' = engine /\ lastStream' = lastStream /\ session' = session /\ generation' = generation
        /\ \A h \in Goroutines \ {g} : frame'[h] = frame[h]
        /\ frame[g].pc \in {"send"} \cup Calling
    BY DEF Leaves, OwnerSame, Others
  <1>2. g \in Disconnects =>
          /\ g \notin Commands /\ hspMu' = hspMu /\ stopping' = stopping /\ frame'[g].pc = "close"
    BY StreamFacts DEF Leaves, Moves
  <1>3. g \notin Disconnects =>
          /\ g \in Commands /\ hspMu' = (IF hspMu = g THEN None ELSE hspMu) /\ stopping' = stopping \ {g}
          /\ frame'[g].pc = "idle" /\ frame'[g].sess = None
    BY <1>1, PlaceOf, Kinds, IdleFrame DEF Leaves, Resets, Commands
  <1>4. /\ \A s \in Sessions : stream'[s] \in {stream[s], None} /\ (links'[s] = "open" => links[s] = "open")
        /\ \A s \in Sessions : \/ device'[s] = device[s]
                               \/ links'[s] # "open"
                               \/ Ends(g) /\ s = frame[g].sess /\ device'[s] = Effect(g) /\ Effect(g) # device[s]
    <2>1. CASE RpcSame
      BY <2>1 DEF RpcSame
    <2>2. CASE Ends(g)
      BY <2>2 DEF Ends
    <2>3. QED
      BY <2>1, <2>2
  <1>5. /\ \A c \in Senders \ {g} : frame'[c] = frame[c] /\ c \in Goroutines
        /\ \A p \in Stoppers \ {g} : frame'[p] = frame[p]
        /\ \A h \in Commands \ {g} : frame'[h] = frame[h]
        /\ \A d \in Disconnects \ {g} : frame'[d] = frame[d]
        /\ g \in Commands => frame'[g].pc = "idle" /\ frame'[g].sess = None
    BY <1>1, <1>2, <1>3 DEF Goroutines, Commands
  <1>6. CallInv'
    <2>1. \A c \in Senders : frame'[c].pc # "idle" => hspMu' = c /\ frame'[c].gen = engine'
      BY <1>1, <1>2, <1>3, <1>5, StreamFacts DEF SInv, CallInv
    <2>2. ASSUME NEW p \in Stoppers
          PROVE  /\ frame'[p].pc \in {"hspMu", "send"} \cup Calling => p \in stopping'
                 /\ frame'[p].pc \in {"send"} \cup Calling =>
                      hspMu' = p \/ (frame'[p].gen # engine' /\ (frame'[p].sess # None => stream'[frame'[p].sess] = None))
      <3>1. CASE p = g
        BY <1>5, <3>1, StreamFacts DEF Calling
      <3>2. CASE p # g
        <4>1. /\ frame[p].pc \in {"hspMu", "send"} \cup Calling => p \in stopping
              /\ frame[p].pc \in {"send"} \cup Calling =>
                   hspMu = p \/ (frame[p].gen # engine /\ (frame[p].sess # None => stream[frame[p].sess] = None))
          BY DEF SInv, CallInv
        <4>2. frame'[p] = frame[p] /\ (frame[p].sess # None => frame[p].sess \in Sessions)
          BY <1>5, <3>2, StreamFacts
        <4>3. (p \in stopping => p \in stopping') /\ (hspMu = p => hspMu' = p)
          BY <1>2, <1>3, <3>2
        <4>4. QED
          BY <1>1, <1>4, <4>1, <4>2, <4>3
      <3>3. QED
        BY <3>1, <3>2
    <2>3. \A h \in Commands : frame'[h].sess # None /\ frame'[h].sess = session' => frame'[h].gen = generation'
      BY <1>1, <1>5 DEF SInv, CallInv
    <2>4. \A h, i \in Commands : frame'[h].sess # None /\ frame'[h].sess = frame'[i].sess => frame'[h].gen = frame'[i].gen
      BY <1>5 DEF SInv, CallInv
    <2>5. session' # None => stream'[session'] = None \/ engine' = generation'
      BY <1>1, <1>4 DEF SInv, CallInv, Typed, OwnerTyped
    <2>6. QED
      BY <2>1, <2>2, <2>3, <2>4, <2>5 DEF CallInv
  <1>7. StreamInv'
    <2>1. stopping' # {} => stopping # {}
      BY <1>2, <1>3
    <2>2. \A c \in Senders : frame'[c].pc # "idle" => frame'[c] = frame[c]
      BY <1>5, StreamFacts
    <2>3. QED
      BY <1>1, <1>4, <2>1, <2>2 DEF SInv, StreamInv
  <1>8. GateInv'
    <2>1. SUFFICES ASSUME NEW h \in Goroutines, frame'[h].pc = "write" PROVE gate'[frame'[h].sess] = h
      BY DEF GateInv
    <2>2. h # g /\ frame'[h] = frame[h]
      BY <1>1, <1>2, <1>3, <2>1
    <2>3. gate[frame[h].sess] = h /\ frame[h].sess \in Sessions
      BY <2>1, <2>2, StreamFacts DEF SInv, GateInv
    <2>4. gate'[frame[h].sess] = h
      <3>1. CASE RpcSame
        BY <2>3, <3>1 DEF RpcSame
      <3>2. CASE Ends(g)
        <4>1. gate[frame[g].sess] = g /\ Only(gate, gate', frame[g].sess, None)
          BY <3>2 DEF SInv, GateInv, Ends
        <4>2. QED
          BY <2>2, <2>3, <4>1 DEF Only
      <3>3. QED
        BY <3>1, <3>2
    <2>5. QED
      BY <2>2, <2>4
  <1>9. MatchInv'
    <2>1. SUFFICES ASSUME NEW s \in Sessions, Stale(s)'
                   PROVE  /\ s = session' => stream'[s] # lastStream'
                          /\ \A c \in Senders : Comes(c, s)' => frame'[c].stream # stream'[s]
      BY DEF MatchInv
    <2>2. stream'[s] = stream[s] /\ stream[s] # None /\ stream[s] \in Nat /\ links[s] = "open" /\ links'[s] = "open"
      BY <1>4, <2>1, StreamFacts DEF Stale
    <2>3. \A c \in Senders : Comes(c, s)' => c # g /\ Comes(c, s) /\ frame'[c] = frame[c]
      <3>1. \A c \in Senders : Comes(c, s)' => frame'[c].pc \in {"send"} \cup Calling
        BY DEF Comes, Calling
      <3>2. \A c \in Senders : Comes(c, s)' => c # g
        BY <1>5, <3>1, StreamFacts DEF Calling
      <3>3. QED
        BY <1>1, <1>5, <3>2 DEF Comes
    <2>4. CASE device'[s] = device[s]
      <3>1. Stale(s)
        BY <2>1, <2>2, <2>4 DEF Stale
      <3>2. QED
        BY <1>1, <2>2, <2>3, <3>1 DEF SInv, MatchInv
    <2>5. CASE device'[s] # device[s]
      <3>1. Ends(g) /\ s = frame[g].sess /\ device'[s] = Effect(g) /\ Effect(g) # device[s]
        BY <1>4, <2>2, <2>5
      <3>2. frame[g].pc = "write" /\ gate[s] = g /\ stream[s] # Effect(g)
        BY <2>1, <2>2, <3>1 DEF Ends, SInv, GateInv, Stale
      <3>3. CASE g \in Senders
        <4>1. frame[g].rpc = "setup" /\ Effect(g) = frame[g].stream
          BY <3>1, <3>2, <3>3, EffectOf
        <4>2. \A c \in Senders \ {g} : frame[c].pc = "idle"
          BY <3>2, <3>3, OneSender DEF SInv
        <4>3. frame[g].stream \in Nat /\ lastStream \in Nat
          BY <3>2, <3>3, StreamFacts
        <4>4. stream[s] <= frame[g].stream /\ frame[g].stream <= lastStream
          BY <2>2, <3>2, <3>3 DEF SInv, StreamInv
        <4>5. stream[s] # lastStream
          BY <2>2, <3>2, <4>1, <4>3, <4>4
        <4>6. QED
          BY <1>1, <2>2, <2>3, <4>2, <4>5 DEF Comes
      <3>4. CASE g \in Stoppers
        <4>1. g \in stopping /\ hspMu = g
          BY <2>2, <3>1, <3>2, <3>4, StreamFacts DEF SInv, CallInv, Calling
        <4>2. \A c \in Senders : frame[c].pc = "idle"
          BY <3>4, <4>1, StreamFacts DEF SInv, CallInv
        <4>3. stream[s] # lastStream
          BY <2>2, <4>1 DEF SInv, StreamInv
        <4>4. QED
          BY <1>1, <2>2, <2>3, <4>2, <4>3 DEF Comes
      <3>5. CASE g \in Disconnects
        <4>1. s # session
          BY <2>2, <3>1, <3>5, StreamFacts DEF LinkInv
        <4>2. \A c \in Senders : frame[c].sess = s => frame[c].pc = "write"
          BY <2>2, <3>1, <3>2, <3>5 DEF SInv, RetiredInv, Calling
        <4>3. \A c \in Senders : Comes(c, s) => FALSE
          BY <4>1, <4>2 DEF Comes
        <4>4. QED
          BY <1>1, <2>3, <4>1, <4>3
      <3>6. QED
        BY <3>2, <3>3, <3>4, <3>5, StreamFacts DEF Commands
    <2>6. QED
      BY <2>4, <2>5
  <1>10. RetiredInv'
    <2>1. SUFFICES ASSUME NEW d \in Disconnects, frame'[d].pc \in Calling, stream'[frame'[d].sess] # None,
                          NEW c \in Senders, frame'[c].sess = frame'[d].sess
                   PROVE  frame'[c].pc = "write"
      BY DEF RetiredInv
    <2>2. d # g
      BY <1>2, <2>1 DEF Calling
    <2>3. frame'[d] = frame[d] /\ frame[d].sess \in Sessions /\ stream[frame[d].sess] # None
      BY <1>4, <1>5, <2>1, <2>2, StreamFacts
    <2>4. c # g /\ frame'[c] = frame[c]
      BY <1>5, <2>1, <2>3, StreamFacts
    <2>5. QED
      BY <2>1, <2>3, <2>4 DEF SInv, RetiredInv
  <1>11. WrittenToItsStream'
    <2>1. SUFFICES ASSUME NEW c \in Senders, frame'[c].pc = "write", frame'[c].rpc # "setup"
                   PROVE  device'[frame'[c].sess] = frame'[c].stream
      BY DEF WrittenToItsStream
    <2>2. c # g /\ frame'[c] = frame[c] /\ c \in Goroutines
      BY <1>5, <2>1, StreamFacts
    <2>3. device[frame[c].sess] = frame[c].stream /\ frame[c].sess \in Sessions /\ gate[frame[c].sess] = c
      BY <2>1, <2>2, StreamFacts DEF SInv, WrittenToItsStream, GateInv
    <2>4. device'[frame[c].sess] = device[frame[c].sess]
      <3>1. CASE RpcSame
        BY <3>1 DEF RpcSame
      <3>2. CASE Ends(g)
        <4>1. gate[frame[g].sess] = g
          BY <3>2 DEF SInv, GateInv, Ends
        <4>2. QED
          BY <2>2, <2>3, <3>2, <4>1 DEF Ends
      <3>3. QED
        BY <3>1, <3>2
    <2>5. QED
      BY <2>2, <2>3, <2>4
  <1>12. QED
    BY <1>6, <1>7, <1>8, <1>9, <1>10, <1>11 DEF SInv

(* A new transport: no engine is in a call, no Stop in progress.           *)
LEMMA StreamsNewTransport ==
  ASSUME Typed, SInv, NewTransport
  PROVE  SInv'
  <1>1. /\ session' = session /\ generation' = generation /\ frame' = frame /\ hspMu = None /\ stopping = {}
        /\ engine' = generation /\ hspMu' = None /\ stopping' = {} /\ lastStream' = lastStream
        /\ gate' = gate /\ stream' = stream /\ links' = links /\ device' = device
    BY NewTransportEffect DEF OwnerSame, RpcSame
  <1>2. \A c \in Senders : frame[c].pc = "idle"
    BY <1>1, StreamFacts DEF SInv, CallInv
  <1>3. \A p \in Stoppers : frame[p].pc \notin {"hspMu", "send"} \cup Calling
    BY <1>1 DEF SInv, CallInv
  <1>4. CallInv'
    BY <1>1, <1>2, <1>3 DEF SInv, CallInv
  <1>5. StreamInv' /\ GateInv' /\ RetiredInv' /\ WrittenToItsStream'
    BY <1>1 DEF SInv, StreamInv, GateInv, RetiredInv, WrittenToItsStream
  <1>6. MatchInv'
    BY <1>1 DEF SInv, MatchInv, Stale, Comes
  <1>7. QED
    BY <1>4, <1>5, <1>6 DEF SInv

(* A command gets the owner's session.                                     *)
LEMMA StreamsTake ==
  ASSUME Typed, LinkInv, SInv, NEW g \in Goroutines, Takes(g)
  PROVE  SInv'
  <1>1. /\ session' = session /\ generation' = generation /\ engine' = engine /\ hspMu' = hspMu /\ stopping' = stopping
        /\ lastStream' = lastStream /\ gate' = gate /\ stream' = stream /\ links' = links /\ device' = device
        /\ \A h \in Goroutines \ {g} : frame'[h] = frame[h]
    BY DEF Takes, OwnerSame, EngineSame, RpcSame, Others
  <1>2. /\ frame[g].pc = "send" /\ session # None /\ frame[g].gen = generation
        /\ frame'[g].pc = "execute" /\ frame'[g].sess = session /\ frame'[g].gen = frame[g].gen
        /\ frame'[g].stream = frame[g].stream
    BY DEF Takes
  <1>3. g \in Commands /\ g \notin Disconnects
    BY <1>2, PlaceOf, StreamFacts
  <1>4. session \in Sessions
    BY <1>2 DEF Typed, OwnerTyped
  <1>5. /\ \A c \in Senders : c \in Goroutines
        /\ \A h \in Commands \ {g} : frame'[h] = frame[h]
        /\ \A d \in Disconnects : frame'[d] = frame[d]
    BY <1>1, <1>3, StreamFacts DEF Commands, Goroutines
  <1>6. CallInv'
    <2>1. \A c \in Senders : frame'[c].pc # "idle" => hspMu' = c /\ frame'[c].gen = engine'
      BY <1>1, <1>2, <1>5 DEF SInv, CallInv
    <2>2. ASSUME NEW p \in Stoppers
          PROVE  /\ frame'[p].pc \in {"hspMu", "send"} \cup Calling => p \in stopping'
                 /\ frame'[p].pc \in {"send"} \cup Calling =>
                      hspMu' = p \/ (frame'[p].gen # engine' /\ (frame'[p].sess # None => stream'[frame'[p].sess] = None))
      <3>1. /\ frame[p].pc \in {"hspMu", "send"} \cup Calling => p \in stopping
            /\ frame[p].pc \in {"send"} \cup Calling =>
                 hspMu = p \/ (frame[p].gen # engine /\ (frame[p].sess # None => stream[frame[p].sess] = None))
        BY DEF SInv, CallInv
      <3>2. CASE p = g
        <4>1. frame[p].gen # engine => stream[session] = None
          BY <1>2, <3>2 DEF SInv, CallInv
        <4>2. QED
          BY <1>1, <1>2, <3>1, <3>2, <4>1 DEF Calling
      <3>3. CASE p # g
        BY <1>1, <1>5, <3>1, <3>3 DEF Commands
      <3>4. QED
        BY <3>2, <3>3
    <2>3. \A h \in Commands : frame'[h].sess # None /\ frame'[h].sess = session => frame'[h].gen = generation
      BY <1>2, <1>5 DEF SInv, CallInv
    <2>4. \A h, i \in Commands : frame'[h].sess # None /\ frame'[h].sess = frame'[i].sess => frame'[h].gen = frame'[i].gen
      <3>1. SUFFICES ASSUME NEW h \in Commands, NEW i \in Commands, frame'[h].sess # None, frame'[h].sess = frame'[i].sess
                     PROVE  frame'[h].gen = frame'[i].gen
        OBVIOUS
      <3>2. CASE h = g \/ i = g
        BY <1>2, <2>3, <3>1, <3>2
      <3>3. CASE h # g /\ i # g
        BY <1>5, <3>1, <3>3 DEF SInv, CallInv
      <3>4. QED
        BY <3>2, <3>3
    <2>5. session' # None => stream'[session'] = None \/ engine' = generation'
      BY <1>1 DEF SInv, CallInv
    <2>6. QED
      BY <1>1, <2>1, <2>2, <2>3, <2>4, <2>5 DEF CallInv
  <1>7. StreamInv'
    BY <1>1, <1>2, <1>5 DEF SInv, StreamInv, Commands
  <1>8. GateInv'
    BY <1>1, <1>2 DEF SInv, GateInv
  <1>9. MatchInv'
    <2>1. \A s \in Sessions : Stale(s)' => Stale(s)
      BY <1>1 DEF Stale
    <2>2. \A s \in Sessions, c \in Senders : Comes(c, s)' => Comes(c, s) /\ frame'[c].stream = frame[c].stream
      BY <1>1, <1>2, <1>5 DEF Comes, Commands
    <2>3. QED
      BY <1>1, <2>1, <2>2 DEF SInv, MatchInv
  <1>10. RetiredInv'
    <2>1. \A d \in Disconnects : frame[d].pc \in Calling => frame[d].sess # session
      BY <1>4, StreamFacts DEF LinkInv
    <2>2. QED
      BY <1>1, <1>2, <1>5, <2>1 DEF SInv, RetiredInv, Commands
  <1>11. WrittenToItsStream'
    BY <1>1, <1>2, <1>5 DEF SInv, WrittenToItsStream, Commands
  <1>12. QED
    BY <1>6, <1>7, <1>8, <1>9, <1>10, <1>11 DEF SInv

(* The gate is taken: points that go without a setup go to their stream.   *)
LEMMA StreamsEnter ==
  ASSUME Typed, LinkInv, SInv, NEW g \in Goroutines, Enters(g)
  PROVE  SInv'
  <1>1. /\ session' = session /\ generation' = generation /\ engine' = engine /\ hspMu' = hspMu /\ stopping' = stopping
        /\ lastStream' = lastStream /\ stream' = stream /\ links' = links /\ device' = device
        /\ \A h \in Goroutines \ {g} : frame'[h] = frame[h]
    BY DEF Enters, OwnerSame, EngineSame, Others
  <1>2. /\ frame[g].pc = "gate" /\ gate[frame[g].sess] = None /\ links[frame[g].sess] = "open"
        /\ frame'[g].pc = "write" /\ frame'[g].sess = frame[g].sess /\ frame'[g].gen = frame[g].gen
        /\ frame'[g].method = frame[g].method /\ frame'[g].stream = frame[g].stream
        /\ frame'[g].rpc = FirstRPC(g) /\ Only(gate, gate', frame[g].sess, g)
    BY DEF Enters
  <1>3. frame[g].sess \in Sessions /\ frame[g].sess # None /\ g # None
    BY <1>2, SessOf, StreamFacts, Kinds DEF Calling
  <1>4. /\ \A h \in Goroutines : frame'[h].sess = frame[h].sess /\ frame'[h].gen = frame[h].gen /\ frame'[h].stream = frame[h].stream
        /\ \A h \in Goroutines : frame'[h].pc = frame[h].pc \/ (h = g /\ frame[h].pc = "gate" /\ frame'[h].pc = "write")
        /\ Commands \subseteq Goroutines /\ Disconnects \subseteq Goroutines
        /\ Senders \subseteq Goroutines /\ Stoppers \subseteq Goroutines
    BY <1>1, <1>2 DEF Goroutines, Commands
  <1>5. CallInv'
    <2>1. \A c \in Senders : frame'[c].pc # "idle" => hspMu' = c /\ frame'[c].gen = engine'
      BY <1>1, <1>4 DEF SInv, CallInv
    <2>2. ASSUME NEW p \in Stoppers
          PROVE  /\ frame'[p].pc \in {"hspMu", "send"} \cup Calling => p \in stopping'
                 /\ frame'[p].pc \in {"send"} \cup Calling =>
                      hspMu' = p \/ (frame'[p].gen # engine' /\ (frame'[p].sess # None => stream'[frame'[p].sess] = None))
      BY <1>1, <1>4 DEF SInv, CallInv, Calling
    <2>3. QED
      BY <1>1, <1>4, <2>1, <2>2 DEF SInv, CallInv
  <1>6. StreamInv'
    BY <1>1, <1>4 DEF SInv, StreamInv
  <1>7. GateInv'
    <2>1. SUFFICES ASSUME NEW h \in Goroutines, frame'[h].pc = "write" PROVE gate'[frame'[h].sess] = h
      BY DEF GateInv
    <2>2. CASE h = g
      BY <1>2, <2>2 DEF Only
    <2>3. CASE h # g
      <3>1. frame[h].pc = "write" /\ gate[frame[h].sess] = h /\ frame[h].sess \in Sessions /\ h # None
        BY <1>4, <2>1, <2>3, StreamFacts, Kinds DEF SInv, GateInv
      <3>2. QED
        BY <1>2, <1>4, <3>1 DEF Only
    <2>4. QED
      BY <2>2, <2>3
  <1>8. MatchInv'
    <2>1. \A s \in Sessions : Stale(s)' => Stale(s)
      BY <1>1 DEF Stale
    <2>2. \A s \in Sessions, c \in Senders : Comes(c, s)' => Comes(c, s)
      BY <1>1, <1>4 DEF Comes
    <2>3. QED
      BY <1>1, <1>4, <2>1, <2>2 DEF SInv, MatchInv
  <1>9. RetiredInv'
    BY <1>1, <1>4 DEF SInv, RetiredInv, Calling
  <1>10. WrittenToItsStream'
    <2>1. SUFFICES ASSUME NEW c \in Senders, frame'[c].pc = "write", frame'[c].rpc # "setup"
                   PROVE  device'[frame'[c].sess] = frame'[c].stream
      BY DEF WrittenToItsStream
    <2>2. CASE c # g
      BY <1>1, <1>4, <2>1, <2>2 DEF SInv, WrittenToItsStream
    <2>3. CASE c = g
      <3>1. frame[g].method # "stop" /\ frame[g].stream \in Nat
        BY <1>2, <2>3, PlaceOf, StreamFacts DEF Placed
      <3>2. stream[frame[g].sess] = frame[g].stream
        BY <1>2, <2>1, <2>3, <3>1 DEF FirstRPC
      <3>3. Comes(g, frame[g].sess)
        BY <1>2 DEF Comes
      <3>4. ~Stale(frame[g].sess)
        BY <1>3, <2>3, <3>2, <3>3 DEF SInv, MatchInv
      <3>5. device[frame[g].sess] = stream[frame[g].sess]
        BY <1>2, <3>1, <3>2, <3>4, Kinds DEF Stale
      <3>6. QED
        BY <1>1, <1>2, <2>3, <3>2, <3>5
    <2>4. QED
      BY <2>2, <2>3
  <1>11. QED
    BY <1>5, <1>6, <1>7, <1>8, <1>9, <1>10 DEF SInv

(* A sender goes on, after its setup or after a chunk of points.           *)
LEMMA StreamsContinue ==
  ASSUME Typed, SInv, NEW g \in Goroutines, Continues(g)
  PROVE  SInv'
  <1> DEFINE s == frame[g].sess
  <1>1. /\ session' = session /\ generation' = generation /\ engine' = engine /\ hspMu' = hspMu /\ stopping' = stopping
        /\ lastStream' = lastStream /\ gate' = gate /\ links' = links
        /\ \A h \in Goroutines \ {g} : frame'[h] = frame[h]
    BY DEF Continues, OwnerSame, EngineSame, Others
  <1>2. /\ frame[g].pc = "write" /\ g \in Senders
        /\ frame'[g].pc = "write" /\ frame'[g].sess = frame[g].sess /\ frame'[g].gen = frame[g].gen
        /\ frame'[g].stream = frame[g].stream
    BY DEF Continues
  <1>3. /\ s \in Sessions /\ s # None /\ g \in Commands /\ g \notin Disconnects /\ frame[g].stream \in Nat
        /\ Commands \subseteq Goroutines /\ Disconnects \subseteq Goroutines
        /\ Senders \subseteq Commands /\ Stoppers \subseteq Commands
    BY <1>2, SessOf, StreamFacts DEF Calling, Commands, Goroutines
  <1>4. \A h \in Goroutines : frame'[h].sess = frame[h].sess /\ frame'[h].gen = frame[h].gen
                              /\ frame'[h].stream = frame[h].stream /\ frame'[h].pc = frame[h].pc
    BY <1>1, <1>2
  <1>5. /\ hspMu = g /\ frame[g].gen = engine
        /\ \A h \in Senders \ {g} : frame[h].pc = "idle" /\ frame[h].sess = None
        /\ \A p \in Stoppers : frame[p].sess # None => stream[frame[p].sess] = None /\ frame[p].sess # s
    BY <1>2, OneSender DEF SInv
  <1>6. /\ \A t \in Sessions \ {s} : stream'[t] = stream[t] /\ device'[t] = device[t]
        /\ \/ stream'[s] = frame[g].stream /\ device'[s] = frame[g].stream
           \/ frame[g].rpc # "setup" /\ stream'[s] = stream[s] /\ device'[s] = device[s]
    BY DEF Continues, Only
  <1>7. CallInv'
    <2>1. \A c \in Senders : frame'[c].pc # "idle" => hspMu' = c /\ frame'[c].gen = engine'
      BY <1>1, <1>3, <1>4 DEF SInv, CallInv
    <2>2. ASSUME NEW p \in Stoppers
          PROVE  /\ frame'[p].pc \in {"hspMu", "send"} \cup Calling => p \in stopping'
                 /\ frame'[p].pc \in {"send"} \cup Calling =>
                      hspMu' = p \/ (frame'[p].gen # engine' /\ (frame'[p].sess # None => stream'[frame'[p].sess] = None))
      <3>1. /\ frame[p].pc \in {"hspMu", "send"} \cup Calling => p \in stopping
            /\ frame[p].pc \in {"send"} \cup Calling =>
                 hspMu = p \/ (frame[p].gen # engine /\ (frame[p].sess # None => stream[frame[p].sess] = None))
        BY DEF SInv, CallInv
      <3>2. frame[p].sess # None => frame[p].sess \in Sessions \ {s} /\ stream'[frame[p].sess] = None
        BY <1>5, <1>6, StreamFacts
      <3>3. QED
        BY <1>1, <1>3, <1>4, <3>1, <3>2
    <2>3. session # None => stream'[session] = None \/ engine = generation
      <3>1. session # None => session \in Sessions
        BY DEF Typed, OwnerTyped
      <3>2. CASE session = s
        BY <1>3, <1>5, <3>2 DEF SInv, CallInv
      <3>3. CASE session # s
        BY <1>6, <3>1, <3>3 DEF SInv, CallInv
      <3>4. QED
        BY <3>2, <3>3
    <2>4. /\ \A h \in Commands : frame'[h].sess # None /\ frame'[h].sess = session => frame'[h].gen = generation
          /\ \A h, i \in Commands : frame'[h].sess # None /\ frame'[h].sess = frame'[i].sess => frame'[h].gen = frame'[i].gen
      BY <1>3, <1>4 DEF SInv, CallInv
    <2>5. QED
      BY <1>1, <2>1, <2>2, <2>3, <2>4 DEF CallInv
  <1>8. StreamInv'
    <2>1. /\ frame[g].stream <= lastStream /\ (stopping # {} => frame[g].stream # lastStream)
      BY <1>2 DEF SInv, StreamInv
    <2>2. ASSUME NEW t \in Sessions, stream'[t] # None
          PROVE  /\ stream'[t] <= lastStream /\ (stopping # {} => stream'[t] # lastStream)
                 /\ \A c \in Senders : frame[c].pc # "idle" => stream'[t] <= frame[c].stream
      <3>1. CASE stream'[t] = stream[t]
        BY <2>2, <3>1 DEF SInv, StreamInv
      <3>2. CASE t = s /\ stream'[s] = frame[g].stream
        <4>1. frame[g].stream <= frame[g].stream
          BY <1>3
        <4>2. \A c \in Senders : frame[c].pc # "idle" => c = g
          BY <1>5
        <4>3. QED
          BY <2>1, <3>2, <4>1, <4>2
      <3>3. QED
        BY <1>6, <3>1, <3>2
    <2>3. QED
      BY <1>1, <1>3, <1>4, <2>2 DEF SInv, StreamInv
  <1>9. GateInv'
    BY <1>1, <1>4 DEF SInv, GateInv
  <1>10. MatchInv'
    <2>1. SUFFICES ASSUME NEW t \in Sessions, Stale(t)'
                   PROVE  /\ t = session' => stream'[t] # lastStream'
                          /\ \A c \in Senders : Comes(c, t)' => frame'[c].stream # stream'[t]
      BY DEF MatchInv
    <2>2. stream'[t] = stream[t] /\ device'[t] = device[t]
      BY <1>6, <2>1 DEF Stale
    <2>3. Stale(t)
      BY <1>1, <2>1, <2>2 DEF Stale
    <2>4. \A c \in Senders : (Comes(c, t)' => Comes(c, t)) /\ frame'[c].stream = frame[c].stream
      BY <1>1, <1>3, <1>4 DEF Comes
    <2>5. QED
      BY <1>1, <2>2, <2>3, <2>4 DEF SInv, MatchInv
  <1>11. RetiredInv'
    <2>1. SUFFICES ASSUME NEW d \in Disconnects, frame'[d].pc \in Calling, NEW c \in Senders, frame'[c].sess = frame'[d].sess
                   PROVE  frame'[c].pc = "write"
      BY DEF RetiredInv
    <2>2. frame[d].sess \in Sessions /\ frame[c].sess = frame[d].sess
      BY <1>3, <1>4, <2>1, StreamFacts
    <2>3. c = g
      BY <1>5, <2>2, StreamFacts
    <2>4. QED
      BY <1>2, <2>3
  <1>12. WrittenToItsStream'
    <2>1. SUFFICES ASSUME NEW c \in Senders, frame'[c].pc = "write", frame'[c].rpc # "setup"
                   PROVE  device'[frame'[c].sess] = frame'[c].stream
      BY DEF WrittenToItsStream
    <2>2. c = g
      BY <1>3, <1>4, <1>5, <2>1
    <2>3. frame[g].rpc # "setup" => device[s] = frame[g].stream
      BY <1>2 DEF SInv, WrittenToItsStream
    <2>4. QED
      BY <1>2, <1>6, <2>2, <2>3
  <1>13. QED
    BY <1>7, <1>8, <1>9, <1>10, <1>11, <1>12 DEF SInv

(* A sender is admitted: no other goroutine has the lock, no Stop waits.   *)
LEMMA StreamsBegin ==
  ASSUME Typed, Typed', SInv, NEW g \in Senders, Begins(g)
  PROVE  SInv'
  <1>1. /\ session' = session /\ generation' = generation /\ engine' = engine
        /\ gate' = gate /\ stream' = stream /\ links' = links /\ device' = device
        /\ \A h \in Goroutines \ {g} : frame'[h] = frame[h]
    BY DEF Begins, OwnerSame, RpcSame, Others
  <1>2. /\ frame[g].pc = "idle" /\ hspMu = None /\ stopping = {} /\ hspMu' = g /\ stopping' = {}
        /\ frame'[g].pc = "send" /\ frame'[g].sess = None /\ frame'[g].gen = engine
        /\ lastStream <= lastStream' /\ frame'[g].stream = lastStream'
    BY DEF Begins
  <1>3. /\ lastStream \in Nat /\ lastStream' \in Nat /\ g \in Goroutines /\ g \notin Disconnects /\ g \notin Stoppers
        /\ Commands \subseteq Goroutines /\ Disconnects \subseteq Goroutines
        /\ Senders \subseteq Commands /\ Stoppers \subseteq Commands
    BY StreamFacts DEF Typed, EngineTyped, Commands, Goroutines
  <1>4. /\ \A c \in Senders \ {g} : frame'[c].pc = "idle" /\ frame'[c].sess = None
        /\ \A p \in Stoppers : frame'[p] = frame[p] /\ frame[p].pc \notin {"hspMu", "send"} \cup Calling
        /\ \A d \in Disconnects : frame'[d] = frame[d]
        /\ \A h \in Commands : frame'[h].sess # None => frame'[h] = frame[h]
    <2>1. \A c \in Senders : frame[c].pc = "idle" /\ frame[c].sess = None
      BY <1>2, StreamFacts DEF SInv, CallInv
    <2>2. \A p \in Stoppers : frame[p].pc \notin {"hspMu", "send"} \cup Calling
      BY <1>2 DEF SInv, CallInv
    <2>3. QED
      BY <1>1, <1>2, <1>3, <2>1, <2>2
  <1>5. CallInv'
    <2>1. \A c \in Senders : frame'[c].pc # "idle" => hspMu' = c /\ frame'[c].gen = engine'
      BY <1>1, <1>2, <1>4
    <2>2. \A p \in Stoppers : frame'[p].pc \notin {"hspMu", "send"} \cup Calling
      BY <1>4
    <2>3. /\ \A h \in Commands : frame'[h].sess # None /\ frame'[h].sess = session => frame'[h].gen = generation
          /\ \A h, i \in Commands : frame'[h].sess # None /\ frame'[h].sess = frame'[i].sess => frame'[h].gen = frame'[i].gen
      BY <1>4 DEF SInv, CallInv
    <2>4. QED
      BY <1>1, <2>1, <2>2, <2>3 DEF SInv, CallInv
  <1>6. \A s \in Sessions : stream[s] # None => stream[s] \in Nat /\ stream[s] <= lastStream /\ stream[s] <= lastStream'
    BY <1>2, <1>3, StreamFacts DEF SInv, StreamInv
  <1>7. StreamInv'
    <2>1. \A c \in Senders : frame'[c].pc # "idle" => frame'[c].stream = lastStream'
      BY <1>2, <1>4
    <2>2. lastStream' <= lastStream'
      BY <1>3
    <2>3. QED
      BY <1>1, <1>2, <1>6, <2>1, <2>2 DEF StreamInv
  <1>8. GateInv'
    BY <1>1, <1>2 DEF SInv, GateInv
  <1>9. MatchInv'
    <2>1. SUFFICES ASSUME NEW t \in Sessions, Stale(t)'
                   PROVE  /\ t = session' => stream'[t] # lastStream'
                          /\ \A c \in Senders : Comes(c, t)' => frame'[c].stream # stream'[t]
      BY DEF MatchInv
    <2>2. Stale(t) /\ stream[t] # None
      BY <1>1, <2>1 DEF Stale
    <2>3. t = session => stream[t] # lastStream'
      BY <1>2, <1>3, <1>6, <2>2 DEF SInv, MatchInv
    <2>4. \A c \in Senders : Comes(c, t)' => c = g /\ t = session
      BY <1>1, <1>2, <1>4 DEF Comes
    <2>5. QED
      BY <1>1, <1>2, <2>3, <2>4
  <1>10. RetiredInv'
    <2>1. SUFFICES ASSUME NEW d \in Disconnects, frame'[d].pc \in Calling, NEW c \in Senders, frame'[c].sess = frame'[d].sess
                   PROVE  FALSE
      BY DEF RetiredInv
    <2>2. QED
      BY <1>2, <1>4, <2>1, StreamFacts
  <1>11. WrittenToItsStream'
    BY <1>2, <1>4 DEF WrittenToItsStream
  <1>12. QED
    BY <1>5, <1>7, <1>8, <1>9, <1>10, <1>11 DEF SInv

(* A Stop begins: what is set up is of an older stream.                    *)
LEMMA StreamsStop ==
  ASSUME Typed, SInv, NEW g \in Stoppers, BeginStop(g)
  PROVE  SInv'
  <1>1. /\ session' = session /\ generation' = generation /\ engine' = engine /\ hspMu' = hspMu
        /\ lastStream' = lastStream + 1 /\ frame[g].pc = "begin" /\ Stops(g)
        /\ gate' = gate /\ links' = links /\ device' = device /\ \A s \in Sessions : stream'[s] \in {stream[s], None}
        /\ \A h \in Goroutines \ {g} : frame'[h] = frame[h]
    BY BeginStopEffect DEF OwnerSame, Calms, Others
  <1>2. /\ frame'[g].sess = None /\ frame'[g].pc \in {"idle", "hspMu", "send"} /\ stopping \subseteq stopping'
        /\ frame'[g].pc # "idle" => g \in stopping'
        /\ frame'[g].pc = "send" => frame'[g].gen # engine
    BY <1>1, IdleFrame DEF Stops
  <1>3. /\ lastStream \in Nat /\ g \in Goroutines /\ g \in Commands /\ g \notin Disconnects /\ g \notin Senders
        /\ \A c \in Senders : c \in Goroutines /\ c \in Commands /\ frame'[c] = frame[c]
        /\ \A d \in Disconnects : frame'[d] = frame[d]
        /\ \A h \in Commands : frame'[h].sess # None => frame'[h] = frame[h]
        /\ \A p \in Stoppers \ {g} : frame'[p] = frame[p]
    BY <1>1, <1>2, StreamFacts DEF Commands, Goroutines
  <1>4. CallInv'
    <2>1. \A c \in Senders : frame'[c].pc # "idle" => hspMu' = c /\ frame'[c].gen = engine'
      BY <1>1, <1>3 DEF SInv, CallInv
    <2>2. ASSUME NEW p \in Stoppers
          PROVE  /\ frame'[p].pc \in {"hspMu", "send"} \cup Calling => p \in stopping'
                 /\ frame'[p].pc \in {"send"} \cup Calling =>
                      hspMu' = p \/ (frame'[p].gen # engine' /\ (frame'[p].sess # None => stream'[frame'[p].sess] = None))
      <3>1. CASE p = g
        BY <1>1, <1>2, <3>1 DEF Calling
      <3>2. CASE p # g
        <4>1. /\ frame[p].pc \in {"hspMu", "send"} \cup Calling => p \in stopping
              /\ frame[p].pc \in {"send"} \cup Calling =>
                   hspMu = p \/ (frame[p].gen # engine /\ (frame[p].sess # None => stream[frame[p].sess] = None))
          BY DEF SInv, CallInv
        <4>2. frame[p].sess # None => frame[p].sess \in Sessions
          BY StreamFacts
        <4>3. QED
          BY <1>1, <1>2, <1>3, <3>2, <4>1, <4>2
      <3>3. QED
        BY <3>1, <3>2
    <2>3. /\ \A h \in Commands : frame'[h].sess # None /\ frame'[h].sess = session => frame'[h].gen = generation
          /\ \A h, i \in Commands : frame'[h].sess # None /\ frame'[h].sess = frame'[i].sess => frame'[h].gen = frame'[i].gen
      BY <1>3 DEF SInv, CallInv
    <2>4. session # None => stream'[session] = None \/ engine = generation
      BY <1>1 DEF SInv, CallInv, Typed, OwnerTyped
    <2>5. QED
      BY <1>1, <2>1, <2>2, <2>3, <2>4 DEF CallInv
  <1>5. StreamInv'
    <2>1. ASSUME NEW s \in Sessions, stream'[s] # None
          PROVE  /\ stream'[s] <= lastStream + 1 /\ stream'[s] # lastStream + 1
                 /\ \A c \in Senders : frame[c].pc # "idle" => stream'[s] <= frame[c].stream
      BY <1>1, <1>3, <2>1, StreamFacts DEF SInv, StreamInv
    <2>2. \A c \in Senders : frame[c].pc # "idle" => frame[c].stream <= lastStream + 1 /\ frame[c].stream # lastStream + 1
      BY <1>3, StreamFacts DEF SInv, StreamInv
    <2>3. QED
      BY <1>1, <1>3, <2>1, <2>2 DEF StreamInv
  <1>6. GateInv'
    BY <1>1, <1>2 DEF SInv, GateInv
  <1>7. MatchInv'
    <2>1. SUFFICES ASSUME NEW t \in Sessions, Stale(t)'
                   PROVE  /\ t = session' => stream'[t] # lastStream'
                          /\ \A c \in Senders : Comes(c, t)' => frame'[c].stream # stream'[t]
      BY DEF MatchInv
    <2>2. Stale(t) /\ stream'[t] = stream[t] /\ stream[t] \in Nat
      BY <1>1, <2>1, StreamFacts DEF Stale
    <2>3. stream[t] # lastStream + 1
      BY <1>3, <2>1, <2>2, StreamFacts DEF SInv, StreamInv, Stale
    <2>4. \A c \in Senders : Comes(c, t)' => Comes(c, t)
      BY <1>1, <1>3 DEF Comes
    <2>5. QED
      BY <1>1, <1>3, <2>2, <2>3, <2>4 DEF SInv, MatchInv
  <1>8. RetiredInv'
    BY <1>1, <1>3, StreamFacts DEF SInv, RetiredInv
  <1>9. WrittenToItsStream'
    BY <1>1, <1>3 DEF SInv, WrittenToItsStream
  <1>10. QED
    BY <1>4, <1>5, <1>6, <1>7, <1>8, <1>9 DEF SInv

(* ... and gets the lock of the engine's transport.                        *)
LEMMA StreamsLock ==
  ASSUME Typed, SInv, NEW g \in Stoppers, LockStop(g)
  PROVE  SInv'
  <1>1. /\ session' = session /\ generation' = generation /\ engine' = engine /\ stopping' = stopping
        /\ lastStream' = lastStream /\ gate' = gate /\ stream' = stream /\ links' = links /\ device' = device
        /\ \A h \in Goroutines \ {g} : frame'[h] = frame[h]
    BY LockStopEffect DEF OwnerSame, RpcSame, Moves, Others
  <1>2. /\ hspMu = None /\ hspMu' = g /\ frame[g].pc = "hspMu" /\ frame'[g].pc = "send"
        /\ frame'[g].sess = frame[g].sess /\ frame'[g].gen = frame[g].gen
    BY LockStopEffect DEF Moves, Kept
  <1>3. /\ \A c \in Senders : c \in Goroutines /\ c \in Commands /\ frame'[c] = frame[c] /\ frame[c].pc = "idle"
        /\ \A d \in Disconnects : frame'[d] = frame[d]
        /\ \A h \in Commands : frame'[h].sess = frame[h].sess /\ frame'[h].gen = frame[h].gen
        /\ \A p \in Stoppers \ {g} : frame'[p] = frame[p] /\ hspMu # p
    BY <1>1, <1>2, StreamFacts DEF Commands, Goroutines, SInv, CallInv
  <1>4. CallInv'
    <2>1. \A c \in Senders : frame'[c].pc # "idle" => hspMu' = c /\ frame'[c].gen = engine'
      BY <1>3
    <2>2. ASSUME NEW p \in Stoppers
          PROVE  /\ frame'[p].pc \in {"hspMu", "send"} \cup Calling => p \in stopping'
                 /\ frame'[p].pc \in {"send"} \cup Calling =>
                      hspMu' = p \/ (frame'[p].gen # engine' /\ (frame'[p].sess # None => stream'[frame'[p].sess] = None))
      BY <1>1, <1>2, <1>3 DEF SInv, CallInv
    <2>3. QED
      BY <1>1, <1>3, <2>1, <2>2 DEF SInv, CallInv
  <1>5. StreamInv'
    BY <1>1, <1>3 DEF SInv, StreamInv
  <1>6. GateInv'
    BY <1>1, <1>2 DEF SInv, GateInv
  <1>7. MatchInv'
    <2>1. \A s \in Sessions : Stale(s)' => Stale(s)
      BY <1>1 DEF Stale
    <2>2. \A s \in Sessions, c \in Senders : Comes(c, s)' => Comes(c, s)
      BY <1>1, <1>3 DEF Comes
    <2>3. QED
      BY <1>1, <1>3, <2>1, <2>2 DEF SInv, MatchInv
  <1>8. RetiredInv'
    BY <1>1, <1>3 DEF SInv, RetiredInv
  <1>9. WrittenToItsStream'
    BY <1>3 DEF WrittenToItsStream
  <1>10. QED
    BY <1>4, <1>5, <1>6, <1>7, <1>8, <1>9 DEF SInv

(* What makes a step of a Connect or a Disconnect quiet.                   *)
LEMMA QuietOf ==
  ASSUME Typed, NEW g \in Connects \cup Disconnects, Others(g), EngineSame, gate' = gate, device' = device,
         \A s \in Sessions : /\ stream'[s] \in {stream[s], None}
                             /\ links'[s] = "open" => links[s] = "open" \/ stream[s] = None,
         session' # None => \/ session' = session /\ generation' = generation
                            \/ session' \in Sessions /\ stream[session'] = None /\ \A h \in Commands : frame[h].sess # session',
         g \in Disconnects => frame'[g].pc # "write",
         g \in Disconnects /\ frame'[g].pc \in Calling =>
           (frame[g].pc \in Calling /\ frame'[g].sess = frame[g].sess) \/ stream'[frame'[g].sess] = None
  PROVE  Quiet
  <1>1. /\ g \notin Commands /\ \A h \in Goroutines \ {g} : frame'[h] = frame[h]
        /\ Commands \subseteq Goroutines /\ Disconnects \subseteq Goroutines
    BY Kinds DEF Others, Commands, Goroutines
  <1>2. \A h \in Commands : frame'[h] = frame[h]
    BY <1>1
  <1>3. ASSUME NEW d \in Disconnects
        PROVE  /\ frame'[d].pc = "write" => frame[d].pc = "write" /\ frame'[d].sess = frame[d].sess
               /\ frame'[d].pc \in Calling =>
                    \/ frame[d].pc \in Calling /\ frame'[d].sess = frame[d].sess
                    \/ stream'[frame'[d].sess] = None
    <2>1. CASE d = g
      BY <2>1
    <2>2. CASE d # g
      BY <1>1, <2>2
    <2>3. QED
      BY <2>1, <2>2
  <1>4. QED
    BY <1>2, <1>3 DEF Quiet

LEMMA QuietConnects ==
  ASSUME Typed, LinkInv, NEW k \in Connects,
         BeginConnect(k) \/ ContextEnds(k) \/ CloseOld(k) \/ Dial(k) \/ Initialize(k) \/ Publish(k) \/ Discard(k) \/ Leave(k)
  PROVE  Quiet
  <1>1. k \in Goroutines /\ k \notin Disconnects /\ k \notin Commands /\ None \notin Sessions
    BY Kinds DEF Goroutines, Commands
  <1>2. ASSUME Others(k), EngineSame, gate' = gate, device' = device, stream' = stream,
               \A s \in Sessions : links'[s] = "open" => links[s] = "open" \/ stream[s] = None,
               session' # None => \/ session' = session /\ generation' = generation
                                  \/ session' \in Sessions /\ stream[session'] = None /\ \A h \in Commands : frame[h].sess # session'
        PROVE  Quiet
    BY <1>1, <1>2, QuietOf
  <1>3. CASE BeginConnect(k)
    BY <1>2, <1>3, BeginConnectEffect DEF RpcSame
  <1>4. CASE ContextEnds(k)
    <2>1. frame' = frame /\ EngineSame /\ RpcSame /\ session' = session /\ generation' = generation
      BY <1>4, ContextEndsEffect
    <2>2. QED
      BY <1>2, <2>1 DEF RpcSame, Others
  <1>5. CASE CloseOld(k) \/ Discard(k)
    <2>1. PICK pc \in {"dial", "leave"} : Drops(k, pc)
      BY <1>1, <1>5, ClosesEffect
    <2>2. QED
      BY <1>2, <2>1 DEF Drops, OwnerSame, Closes, Only
  <1>6. CASE Dial(k)
    <2>1. Dials(k)
      BY <1>6, DialEffect
    <2>2. \A s \in Sessions : links'[s] = "open" => links[s] = "open" \/ stream[s] = None
      BY <2>1, LinkParts DEF Dials
    <2>3. QED
      BY <1>2, <2>1, <2>2 DEF Dials, OwnerSame
  <1>10. CASE Initialize(k)
    <2>1. Initializes(k)
      BY <1>10, InitializeEffect
    <2>2. \A s \in Sessions : links'[s] = "open" => links[s] = "open"
      BY <2>1 DEF Initializes, Closes, Only
    <2>3. QED
      BY <1>2, <2>1, <2>2 DEF Initializes, OwnerSame
  <1>7. CASE Publish(k)
    <2>1. /\ RpcSame /\ EngineSame /\ frame[k].pc = "publish" /\ generation' = generation
          /\ session' = (IF Mine(k) THEN frame[k].sess ELSE session)
          /\ Mine(k) => frame[k].sess # None
          /\ Others(k)
      BY <1>7, PublishEffect DEF Moves
    <2>2. CASE ~Mine(k)
      BY <1>2, <2>1, <2>2 DEF RpcSame
    <2>3. CASE Mine(k)
      <3>1. frame[k].sess \in Sessions /\ Private(k)
        BY <1>1, <2>1, <2>3, SessOf DEF Private
      <3>2. stream[frame[k].sess] = None /\ \A h \in Commands : frame[h].sess # frame[k].sess
        BY <1>1, <3>1, LinkParts DEF Commands, Goroutines
      <3>3. QED
        BY <1>2, <2>1, <2>3, <3>1, <3>2 DEF RpcSame
    <2>4. QED
      BY <2>2, <2>3
  <1>8. CASE Leave(k)
    <2>1. Others(k) /\ EngineSame /\ RpcSame /\ session' = session /\ generation' = generation
      BY <1>8, LeaveEffect DEF Resets
    <2>2. QED
      BY <1>2, <2>1 DEF RpcSame
  <1>9. QED
    BY <1>3, <1>4, <1>5, <1>6, <1>7, <1>8, <1>10

LEMMA QuietDisconnects ==
  ASSUME Typed, NEW d \in Disconnects, Disconnect(d) \/ WaitConnecting(d) \/ StopRetired(d) \/ CloseRetired(d)
  PROVE  Quiet
  <1>1. d \in Goroutines
    BY DEF Goroutines
  <1>2. CASE Disconnect(d)
    <2>1. /\ EngineSame /\ RpcSame /\ Others(d) /\ frame'[d].pc \in {"stop", "wait"} /\ session' = None
      BY <1>2, DisconnectEffect
    <2>2. QED
      BY <2>1, QuietOf DEF RpcSame, Calling
  <1>3. CASE WaitConnecting(d)
    <2>1. OwnerSame /\ EngineSame /\ RpcSame /\ Moves(d, "stop")
      BY <1>3, WaitConnectingEffect
    <2>2. QED
      BY <2>1, QuietOf DEF RpcSame, OwnerSame, Moves, Calling
  <1>4. CASE StopRetired(d)
    <2>1. OwnerSame /\ EngineSame
      BY <1>4, StopRetiredEffect
    <2>2. CASE frame[d].sess = None /\ Resets(d) /\ RpcSame
      <3>1. frame'[d].pc = "idle" /\ Others(d)
        BY <2>2, IdleFrame DEF Resets
      <3>2. QED
        BY <2>1, <2>2, <3>1, QuietOf DEF RpcSame, OwnerSame, Calling
    <2>3. CASE frame[d].sess \in Sessions /\ Moves(d, "execute") /\ Forgets(frame[d].sess)
      <3>1. /\ frame'[d].pc = "execute" /\ frame'[d].sess = frame[d].sess /\ Others(d)
            /\ stream'[frame[d].sess] = None /\ gate' = gate /\ links' = links /\ device' = device
            /\ \A s \in Sessions : stream'[s] \in {stream[s], None}
        BY <2>3 DEF Moves, Kept, Forgets, Only
      <3>2. QED
        BY <2>1, <3>1, QuietOf DEF OwnerSame
    <2>4. QED
      BY <1>4, <2>2, <2>3, StopRetiredEffect
  <1>5. CASE CloseRetired(d)
    <2>1. Drops(d, "idle")
      BY <1>1, <1>5, ClosesEffect
    <2>2. QED
      BY <2>1, QuietOf DEF Drops, OwnerSame, Closes, Only, Calling
  <1>6. QED
    BY <1>2, <1>3, <1>4, <1>5

LEMMA QuietOthers ==
  ASSUME Typed, LinkInv,
         \/ \E s \in Sessions : LinkFails(s)
         \/ \E g \in Goroutines : Execute(g)
         \/ \E p \in Stoppers : EmergencyStop(p)
         \/ UNCHANGED vars
  PROVE  Quiet
  <1>1. CASE \E s \in Sessions : LinkFails(s)
    <2>1. PICK s \in Sessions : LinkFails(s)
      BY <1>1
    <2>2. /\ OwnerSame /\ EngineSame /\ frame' = frame /\ gate' = gate /\ stream' = stream /\ device' = device
          /\ Closes(s)
      BY <2>1, LinkFailsEffect
    <2>3. QED
      BY <2>2 DEF Quiet, OwnerSame, Closes, Only
  <1>2. CASE \E g \in Goroutines : Execute(g)
    <2>1. PICK g \in Goroutines : Execute(g)
      BY <1>2
    <2>2. /\ OwnerSame /\ EngineSame /\ RpcSame /\ frame[g].pc = "execute" /\ frame'[g].pc = "gate" /\ Kept(g)
          /\ \A h \in Goroutines \ {g} : frame'[h] = frame[h]
      BY <2>1, ExecuteEffect DEF Moves, Others
    <2>3. \A h \in Commands : h \in Goroutines
      BY DEF Commands, Goroutines
    <2>4. \A d \in Disconnects : d \in Goroutines
      BY DEF Goroutines
    <2>5. \A h \in Commands :
            /\ frame'[h].sess = frame[h].sess /\ frame'[h].gen = frame[h].gen /\ frame'[h].rpc = frame[h].rpc
            /\ frame'[h].stream = frame[h].stream
            /\ frame'[h].pc = frame[h].pc \/ (frame[h].pc = "execute" /\ frame'[h].pc = "gate")
      BY <2>2, <2>3 DEF Kept
    <2>6. \A d \in Disconnects :
            /\ frame'[d].pc = "write" => frame[d].pc = "write" /\ frame'[d].sess = frame[d].sess
            /\ frame'[d].pc \in Calling => frame[d].pc \in Calling /\ frame'[d].sess = frame[d].sess
      BY <2>2, <2>4 DEF Kept, Calling
    <2>7. QED
      BY <2>2, <2>5, <2>6 DEF Quiet, OwnerSame, RpcSame
  <1>3. CASE \E p \in Stoppers : EmergencyStop(p)
    <2>1. PICK p \in Stoppers : EmergencyStop(p)
      BY <1>3
    <2>2. /\ Calms /\ EngineSame /\ frame[p].pc = "idle" /\ frame'[p].pc = "begin" /\ Kept(p)
          /\ \A h \in Goroutines \ {p} : frame'[h] = frame[h]
          /\ session' = session /\ (cancel = None => generation' = generation)
      BY <2>1, EmergencyStopEffect DEF Moves, Others
    <2>3. /\ \A h \in Commands : h \in Goroutines
          /\ \A d \in Disconnects : d \in Goroutines \ {p}
      BY Kinds DEF Commands, Goroutines
    <2>4. \A h \in Commands :
            /\ frame'[h].sess = frame[h].sess /\ frame'[h].gen = frame[h].gen /\ frame'[h].rpc = frame[h].rpc
            /\ frame'[h].stream = frame[h].stream
            /\ frame'[h].pc = frame[h].pc \/ (h \in Stoppers /\ frame[h].pc = "idle" /\ frame'[h].pc = "begin")
      BY <2>2, <2>3 DEF Kept
    <2>5. session' # None => session' = session /\ generation' = generation
      BY <2>2, LinkParts
    <2>6. \A d \in Disconnects : frame'[d] = frame[d]
      BY <2>2, <2>3
    <2>7. QED
      BY <2>2, <2>4, <2>5, <2>6 DEF Quiet, Calms
  <1>4. CASE UNCHANGED vars
    <2>1. OwnerSame /\ EngineSame /\ RpcSame /\ frame' = frame
      BY <1>4, StutterEffect
    <2>2. QED
      BY <2>1 DEF Quiet, OwnerSame, RpcSame
  <1>5. QED
    BY <1>1, <1>2, <1>3, <1>4

LEMMA InitStreams == Init => SInv
  <1> SUFFICES ASSUME Init PROVE SInv
    OBVIOUS
  <1>1. /\ session = None /\ None \notin Sessions /\ \A s \in Sessions : stream[s] = None
        /\ \A g \in Goroutines : frame[g].pc = "idle" /\ frame[g].sess = None
    BY Kinds, IdleFrame DEF Init
  <1>2. /\ \A c \in Senders : frame[c].pc = "idle" /\ frame[c].sess = None
        /\ \A p \in Stoppers : frame[p].pc = "idle" /\ frame[p].sess = None
        /\ \A d \in Disconnects : frame[d].pc = "idle"
        /\ \A g \in Commands : frame[g].sess = None
    BY <1>1 DEF Goroutines, Commands
  <1>3. "idle" \notin Calling
    BY DEF Calling
  <1>4. QED
    BY <1>1, <1>2, <1>3
       DEF SInv, CallInv, StreamInv, GateInv, MatchInv, Stale, RetiredInv, WrittenToItsStream

LEMMA NextStreams ==
  ASSUME Typed, Typed', LinkInv, SInv, [Next]_vars
  PROVE  SInv'
  <1>1. CASE NewTransport
    BY <1>1, StreamsNewTransport
  <1>2. CASE \E g \in Goroutines : SendCommand(g) \/ Abandon(g) \/ EnterGate(g) \/ Written(g) \/ WriteFails(g)
    <2>1. PICK g \in Goroutines : SendCommand(g) \/ Abandon(g) \/ EnterGate(g) \/ Written(g) \/ WriteFails(g)
      BY <1>2
    <2>2. Takes(g) \/ Enters(g) \/ Continues(g) \/ (Leaves(g) /\ (RpcSame \/ Ends(g)))
      BY <2>1, SendCommandEffect, AbandonEffect, EnterGateEffect, WrittenEffect, WriteFailsEffect DEF Ends
    <2>3. QED
      BY <2>2, StreamsTake, StreamsEnter, StreamsContinue, StreamsLeave
  <1>3. CASE \E c \in Senders : Admit(c)
    BY <1>3, AdmitEffect, StreamsBegin
  <1>4. CASE \E p \in Stoppers : BeginStop(p) \/ LockStop(p)
    BY <1>4, StreamsStop, StreamsLock
  <1>5. CASE \/ \E s \in Sessions : LinkFails(s)
             \/ \E g \in Goroutines : Execute(g)
             \/ \E p \in Stoppers : EmergencyStop(p)
             \/ UNCHANGED vars
    BY <1>5, QuietOthers, StreamsQuiet
  <1>6. CASE \E k \in Connects : \/ BeginConnect(k) \/ ContextEnds(k) \/ CloseOld(k) \/ Dial(k) \/ Initialize(k)
                                 \/ Publish(k) \/ Discard(k) \/ Leave(k)
    BY <1>6, QuietConnects, StreamsQuiet
  <1>7. CASE \E d \in Disconnects : Disconnect(d) \/ WaitConnecting(d) \/ StopRetired(d) \/ CloseRetired(d)
    BY <1>7, QuietDisconnects, StreamsQuiet
  <1>8. QED
    BY <1>1, <1>2, <1>3, <1>4, <1>5, <1>6, <1>7 DEF Next
-----------------------------------------------------------------------------
(* The theorems.                                                           *)

LEMMA InitIInv == Init => IInv
  <1> SUFFICES ASSUME Init PROVE IInv
    OBVIOUS
  <1>1. SetupInv
    <2>1. \A k \in Connects : frame[k].pc = "idle"
      BY IdleFrame DEF Init, Goroutines
    <2>2. QED
      BY <2>1 DEF SetupInv, SettingUp
  <1>2. QED
    BY <1>1, InitTyped, InitLinks, InitStreams DEF IInv

LEMMA NextIInv == IInv /\ [Next]_vars => IInv'
  <1> SUFFICES ASSUME IInv, [Next]_vars PROVE IInv'
    OBVIOUS
  <1>1. Typed /\ SetupInv /\ LinkInv /\ SInv
    BY DEF IInv
  <1>2. Typed'
    BY <1>1, NextTyped
  <1>3. QED
    BY <1>1, <1>2, NextSetup, NextLinks, NextStreams DEF IInv

(* The variables of the owner, the sessions and the engine's transport have *)
(* their types, and a goroutine stands where its kind of handler can: a      *)
(* frame has a session exactly where the code holds one.                     *)
THEOREM NativeTypeCorrect == Spec => []Typed
  BY InitTyped, NextTyped, PTL DEF Spec

(* Publication in Connect: a session becomes the owner's only by a setup     *)
(* that no Stop and no Disconnect has passed since it began, for any number  *)
(* of goroutines.                                                            *)
THEOREM OvertakenSetupStays == Spec => StopCancelsSetup
  <1>1. IInv /\ [Next]_vars =>
          [session' \notin {session, None} =>
             \E k \in Connects \ outdated : frame[k].pc = "publish" /\ frame[k].sess = session']_vars
    BY NextSetup DEF IInv
  <1>2. QED
    BY <1>1, InitIInv, NextIInv, PTL DEF Spec, StopCancelsSetup

(* Every exit of Connect and Disconnect closes the link it holds, or the     *)
(* owner has it: an open link always has a goroutine that will publish or     *)
(* close it, also one whose device was refused or whose setup was canceled.   *)
THEOREM OpenLinksAreHeld == Spec => []NoOrphanLink
  <1>1. IInv => NoOrphanLink
    BY DEF IInv, LinkInv, Held, NoOrphanLink
  <1>2. QED
    BY <1>1, InitIInv, NextIInv, PTL DEF Spec

(* Execute sets a stream up when the session's differs from the command's:   *)
(* points and Play that skip the setup reach a device whose last setup is     *)
(* theirs, after any Stop, failed write, ended context or new connection.     *)
THEOREM PointsFindTheirStream == Spec => []WrittenToItsStream
  <1>1. IInv => WrittenToItsStream
    BY DEF IInv, SInv
  <1>2. QED
    BY <1>1, InitIInv, NextIInv, PTL DEF Spec
=============================================================================
