------------------------------ MODULE LiveHub ------------------------------
(***************************************************************************)
(* The live channel's server: internal/ws (hub.go, client.go, handler.go). *)
(*                                                                         *)
(* One goroutine, the hub, owns the registry of connections and the end of *)
(* every send queue that sends.  A connection has a handshake, a writer    *)
(* and a reader (the two pumps), a bounded queue between hub and writer,   *)
(* and a slot of its address.  The hub never waits for a connection: a     *)
(* full queue loses the message, whose number stays spent, or ends the     *)
(* connection when the message may not be lost.                            *)
(*                                                                         *)
(* One outing and one client address are modelled: the registry is a map   *)
(* by outing and the slots a map by address, without a step that involves  *)
(* two entries.  The socket is a queue of frames and, at its end, the code *)
(* the browser is closed with; "1006" is the browser's own code for a      *)
(* connection that ended without a close frame.                            *)
(***************************************************************************)
EXTENDS Integers, Sequences, FiniteSets

CONSTANTS
  Conn,             \* the connections, each used once
  SendBuffer,       \* capacity of Client.send
  BroadcastBuffer,  \* capacity of Hub.broadcastCh
  SlotLimit,        \* MaxConnectionsPerAddress
  DropThreshold,    \* SlowConsumerDropThreshold
  SocketBuffer,     \* frames the operating systems hold between the two ends
  Index,            \* the pitch indices, and 0 for none
  None

EventType == {"pitch", "metrics", "anomaly", "closed"}
Event     == [type : EventType, pitch : Index]

ASSUME HubAssumption ==
  /\ IsFiniteSet(Conn)
  /\ None \notin Conn \cup Event
  /\ SendBuffer \in Nat /\ SendBuffer >= 2
  /\ BroadcastBuffer \in Nat \ {0}
  /\ SlotLimit \in Nat \ {0}
  /\ DropThreshold \in Nat \ {0}
  /\ SocketBuffer \in Nat \ {0}
  /\ 0 \in Index

VARIABLES
  \* the hub
  hub,           \* "running" | "stopped" (done is closed)
  broadcastCh,   \* events queued by Publish
  inHand,        \* the event the broadcast loop is delivering
  todo,          \* the clients that loop has not come to
  noticeFor,     \* the client noteDrop is about to warn
  sessions,      \* the registered clients
  \* the handler
  slots,         \* perAddress
  \* each connection
  stage,         \* where ServeHTTP is
  released,      \* whether the slot was given back (closeOnceFn)
  send,          \* the send queue
  closes,        \* how often the queue was closed
  closeSlow,     \* whether closeSlow is closed
  nextSeq,       \* the last sequence number spent
  drops,         \* dropWindowCount
  writer,        \* whether writePump runs
  reader,        \* where readPump is
  up,            \* whether the socket is open at the server
  wire,          \* frames on their way to the browser
  hangup,        \* the close code behind them, "none" while there is none
  \* history
  lost           \* messages that were numbered and not queued

hubState == <<hub, broadcastCh, inHand, todo, noticeFor, sessions>>
connVars == <<stage, released, send, closes, closeSlow, nextSeq, drops,
              writer, reader, up, wire, hangup, lost>>
hubVars  == <<hubState, slots, connVars>>

Message   == [type : EventType \cup {"snapshot", "error"}, pitch : Index, seq : Nat]
CloseCode == {"1000", "1001", "1006", "1013", "4401"}

\* Mutant of Undroppable: an anomaly is dropped like a pitch.
OnlyClosed == {"closed"}
Undroppable == {"anomaly", "closed"}

Numbered(type, pitch, n) == [type |-> type, pitch |-> pitch, seq |-> n]

HubInit ==
  /\ hub = "running"
  /\ broadcastCh = <<>>
  /\ inHand = None
  /\ todo = {}
  /\ noticeFor = None
  /\ sessions = {}
  /\ slots = 0
  /\ stage = [c \in Conn |-> "free"]
  /\ released = [c \in Conn |-> FALSE]
  /\ send = [c \in Conn |-> <<>>]
  /\ closes = [c \in Conn |-> 0]
  /\ closeSlow = [c \in Conn |-> FALSE]
  /\ nextSeq = [c \in Conn |-> 0]
  /\ drops = [c \in Conn |-> 0]
  /\ writer = [c \in Conn |-> FALSE]
  /\ reader = [c \in Conn |-> "off"]
  /\ up = [c \in Conn |-> FALSE]
  /\ wire = [c \in Conn |-> <<>>]
  /\ hangup = [c \in Conn |-> "none"]
  /\ lost = [c \in Conn |-> {}]

----------------------------------------------------------------------------
(* Handshake: ServeHTTP.                                                   *)

\* reserve: a slot of the address, before anything else is spent on the
\* request.
Reserve(c) ==
  /\ stage[c] = "free"
  /\ slots < SlotLimit
  /\ slots' = slots + 1
  /\ stage' = [stage EXCEPT ![c] = "reserved"]
  /\ UNCHANGED <<hubState, released, send, closes, closeSlow, nextSeq, drops,
                 writer, reader, up, wire, hangup, lost>>

\* Mutant of Release: either pump gives the slot back.
ReleaseByBoth(c) ==
  /\ slots' = IF slots > 0 THEN slots - 1 ELSE 0
  /\ released' = [released EXCEPT ![c] = TRUE]

\* The slot of c goes back, at most once per connection.
Release(c) ==
  IF released[c]
  THEN UNCHANGED <<slots, released>>
  ELSE /\ slots' = IF slots > 0 THEN slots - 1 ELSE 0
       /\ released' = [released EXCEPT ![c] = TRUE]

\* No such outing, the snapshot's query fails, or the upgrade does.
HandshakeFails(c) ==
  /\ stage[c] = "reserved"
  /\ Release(c)
  /\ stage' = [stage EXCEPT ![c] = "refused"]
  /\ hangup' = [hangup EXCEPT ![c] = "1006"]
  /\ UNCHANGED <<hubState, send, closes, closeSlow, nextSeq, drops, writer,
                 reader, up, wire, lost>>

\* The snapshot of an outing in progress, whose last pitch is index `last`, is
\* the queue's first message; the connection is not registered yet.
Upgrade(c, last) ==
  /\ stage[c] = "reserved"
  /\ stage' = [stage EXCEPT ![c] = "joining"]
  /\ up' = [up EXCEPT ![c] = TRUE]
  /\ send' = [send EXCEPT ![c] = <<Numbered("snapshot", last, 0)>>]
  /\ UNCHANGED <<hubState, slots, released, closes, closeSlow, nextSeq, drops,
                 writer, reader, wire, hangup, lost>>

\* serveClosed: an outing that is over gets its snapshot and the terminal
\* message, and is never registered.
UpgradeClosed(c, last) ==
  /\ stage[c] = "reserved"
  /\ stage' = [stage EXCEPT ![c] = "open"]
  /\ up' = [up EXCEPT ![c] = TRUE]
  /\ nextSeq' = [nextSeq EXCEPT ![c] = 1]
  /\ send' = [send EXCEPT ![c] =
                <<Numbered("snapshot", last, 0), Numbered("closed", 0, 1)>>]
  /\ closes' = [closes EXCEPT ![c] = @ + 1]
  /\ writer' = [writer EXCEPT ![c] = TRUE]
  /\ reader' = [reader EXCEPT ![c] = "reading"]
  /\ UNCHANGED <<hubState, slots, released, closeSlow, drops, wire, hangup, lost>>

----------------------------------------------------------------------------
(* The hub: one goroutine, so its steps do not overlap with a broadcast.   *)

HubIdle == hub = "running" /\ todo = {} /\ noticeFor = None

Register(c) ==
  /\ HubIdle
  /\ stage[c] = "joining"
  /\ sessions' = sessions \cup {c}
  /\ stage' = [stage EXCEPT ![c] = "open"]
  /\ writer' = [writer EXCEPT ![c] = TRUE]
  /\ reader' = [reader EXCEPT ![c] = "reading"]
  /\ UNCHANGED <<hub, broadcastCh, inHand, todo, noticeFor, slots, released,
                 send, closes, closeSlow, nextSeq, drops, up, wire, hangup, lost>>

\* The hub has stopped: the socket is closed, the slot is not given back.
RegisterRefused(c) ==
  /\ hub = "stopped"
  /\ stage[c] = "joining"
  /\ stage' = [stage EXCEPT ![c] = "refused"]
  /\ up' = [up EXCEPT ![c] = FALSE]
  /\ hangup' = [hangup EXCEPT ![c] = IF up[c] THEN "1001" ELSE @]
  /\ UNCHANGED <<hubState, slots, released, send, closes, closeSlow, nextSeq,
                 drops, writer, reader, wire, lost>>

\* Mutant of Queued: the queue has no limit.
QueuedUnbounded(e) == IF hub = "running" THEN Append(broadcastCh, e) ELSE broadcastCh

\* Publish never blocks: a full queue loses the event, before it is numbered.
Queued(e) ==
  IF hub = "running" /\ Len(broadcastCh) < BroadcastBuffer
  THEN Append(broadcastCh, e)
  ELSE broadcastCh

Publish(e) ==
  /\ broadcastCh' = Queued(e)
  /\ UNCHANGED <<hub, inHand, todo, noticeFor, sessions, slots, connVars>>

\* The loop over the clients of the outing starts.
Broadcast ==
  /\ HubIdle
  /\ broadcastCh # <<>>
  /\ broadcastCh' = Tail(broadcastCh)
  /\ inHand' = IF sessions = {} THEN None ELSE Head(broadcastCh)
  /\ todo' = sessions
  /\ UNCHANGED <<hub, noticeFor, sessions, slots, connVars>>

\* noteDrop's count of drops in the rolling minute: the minute may be over.
\* Beyond the threshold the exact count has no effect.
DropCounts(c) == {1, IF drops[c] > DropThreshold THEN drops[c] ELSE drops[c] + 1}

\* Mutant of Spend: only a message that is queued takes a number.
SpendIfQueued(c) ==
  nextSeq' = IF Len(send[c]) < SendBuffer
             THEN [nextSeq EXCEPT ![c] = @ + 1] ELSE nextSeq

Spend(c) == nextSeq' = [nextSeq EXCEPT ![c] = @ + 1]

\* enqueue: the number is spent before it is known whether there is room.
Enqueue(c) ==
  /\ c \in todo
  /\ noticeFor = None
  /\ LET m == Numbered(inHand.type, inHand.pitch, nextSeq[c] + 1)
     IN \/ /\ Len(send[c]) < SendBuffer
           /\ send' = [send EXCEPT ![c] = Append(@, m)]
           /\ UNCHANGED <<noticeFor, closeSlow, drops, lost>>
        \/ /\ Len(send[c]) >= SendBuffer
           /\ m.type \in Undroppable
           /\ closeSlow' = [closeSlow EXCEPT ![c] = TRUE]
           /\ lost' = [lost EXCEPT ![c] = @ \cup {m}]
           /\ UNCHANGED <<noticeFor, send, drops>>
        \/ /\ Len(send[c]) >= SendBuffer
           /\ m.type \notin Undroppable
           /\ \E n \in DropCounts(c) :
                /\ drops' = [drops EXCEPT ![c] = n]
                /\ noticeFor' = IF n = DropThreshold THEN c ELSE None
           /\ lost' = [lost EXCEPT ![c] = @ \cup {m}]
           /\ UNCHANGED <<send, closeSlow>>
  /\ Spend(c)
  /\ todo' = todo \ {c}
  /\ inHand' = IF todo' = {} THEN None ELSE inHand
  /\ UNCHANGED <<hub, broadcastCh, sessions, slots, stage, released, closes,
                 writer, reader, up, wire, hangup>>

\* The warning itself is best effort, and is numbered too.
Notice(c) ==
  /\ noticeFor = c
  /\ LET m == Numbered("error", 0, nextSeq[c] + 1)
     IN \/ /\ Len(send[c]) < SendBuffer
           /\ send' = [send EXCEPT ![c] = Append(@, m)]
           /\ UNCHANGED lost
        \/ /\ Len(send[c]) >= SendBuffer
           /\ lost' = [lost EXCEPT ![c] = @ \cup {m}]
           /\ UNCHANGED send
  /\ Spend(c)
  /\ noticeFor' = None
  /\ UNCHANGED <<hub, broadcastCh, inHand, todo, sessions, slots, stage,
                 released, closes, closeSlow, drops, writer, reader, up, wire,
                 hangup>>

\* Mutant of Remove: the client is not looked up.
RemoveUnchecked(c) ==
  /\ HubIdle
  /\ reader[c] = "leaving"
  /\ reader' = [reader EXCEPT ![c] = "closing"]
  /\ sessions' = sessions \ {c}
  /\ closes' = [closes EXCEPT ![c] = @ + 1]
  /\ UNCHANGED <<hub, broadcastCh, inHand, todo, noticeFor, slots, stage,
                 released, send, closeSlow, nextSeq, drops, writer, up, wire,
                 hangup, lost>>

\* remove: the queue is closed by the goroutine that fills it, unless another
\* way out was faster.
Remove(c) ==
  /\ HubIdle
  /\ reader[c] = "leaving"
  /\ reader' = [reader EXCEPT ![c] = "closing"]
  /\ IF c \in sessions
     THEN /\ sessions' = sessions \ {c}
          /\ closes' = [closes EXCEPT ![c] = @ + 1]
     ELSE UNCHANGED <<sessions, closes>>
  /\ UNCHANGED <<hub, broadcastCh, inHand, todo, noticeFor, slots, stage,
                 released, send, closeSlow, nextSeq, drops, writer, up, wire,
                 hangup, lost>>

\* The context ends: the registry is cleared, the queues stay open.
HubStop ==
  /\ HubIdle
  /\ hub' = "stopped"
  /\ sessions' = {}
  /\ UNCHANGED <<broadcastCh, inHand, todo, noticeFor, slots, connVars>>

----------------------------------------------------------------------------
(* writePump: one step per case of its select.                             *)

\* Closing the socket without a close frame shows as 1006, unless the browser
\* was told before.
Cut(c) == IF hangup[c] = "none" THEN "1006" ELSE hangup[c]

\* A close frame gets through while the socket is open and takes data.
CloseWith(c, code) ==
  IF up[c] /\ Len(wire[c]) < SocketBuffer THEN code ELSE Cut(c)

\* The deferred end of the writer: it closes the socket, whatever the reader
\* does.
WriterEnds(c, code) ==
  /\ writer' = [writer EXCEPT ![c] = FALSE]
  /\ up' = [up EXCEPT ![c] = FALSE]
  /\ hangup' = [hangup EXCEPT ![c] = code]
  /\ Release(c)

\* A message goes out; the terminal one is followed by the close frame, which
\* a socket full of that message may keep back past its deadline.
WriteMessage(c) ==
  /\ writer[c]
  /\ send[c] # <<>>
  /\ up[c]
  /\ Len(wire[c]) < SocketBuffer
  /\ send' = [send EXCEPT ![c] = Tail(@)]
  /\ wire' = [wire EXCEPT ![c] = Append(@, Head(send[c]))]
  /\ IF Head(send[c]).type = "closed"
     THEN \/ WriterEnds(c, "1000")
          \/ Len(wire'[c]) >= SocketBuffer /\ WriterEnds(c, Cut(c))
     ELSE UNCHANGED <<writer, up, hangup, slots, released>>
  /\ UNCHANGED <<hubState, stage, closes, closeSlow, nextSeq, drops, reader, lost>>

\* The write fails on a dead socket, or is stuck past the write deadline.
WriteFails(c) ==
  /\ writer[c]
  /\ send[c] # <<>>
  /\ ~up[c] \/ Len(wire[c]) >= SocketBuffer
  /\ send' = [send EXCEPT ![c] = Tail(@)]
  /\ WriterEnds(c, Cut(c))
  /\ UNCHANGED <<hubState, stage, closes, closeSlow, nextSeq, drops, reader,
                 wire, lost>>

\* The cases that end the writer with a close frame, or with none.
WriterStops(c, code) ==
  /\ writer[c]
  /\ WriterEnds(c, code)
  /\ UNCHANGED <<hubState, stage, send, closes, closeSlow, nextSeq, drops,
                 reader, wire, lost>>

\* Mutant of GoingAway: the writer waits for the end of its queue, which a
\* stopped hub leaves open.
GoingAwayDrained(c) ==
  /\ hub = "stopped" /\ send[c] = <<>> /\ closes[c] > 0
  /\ WriterStops(c, CloseWith(c, "1001"))

QueueEnds(c) == send[c] = <<>> /\ closes[c] > 0 /\ WriterStops(c, CloseWith(c, "1000"))
SlowClose(c) == closeSlow[c] /\ WriterStops(c, CloseWith(c, "1013"))
GoingAway(c) == hub = "stopped" /\ WriterStops(c, CloseWith(c, "1001"))
Expire(c)    == WriterStops(c, CloseWith(c, "4401"))
PingFails(c) == ~up[c] /\ WriterStops(c, Cut(c))

----------------------------------------------------------------------------
(* readPump.                                                               *)

ReaderMoves(c, from, to) ==
  /\ reader[c] = from
  /\ reader' = [reader EXCEPT ![c] = to]
  /\ UNCHANGED <<hubState, stage, send, closes, closeSlow, nextSeq, drops,
                 writer, wire, lost>>

\* ReadMessage fails: the socket is closed.
ReadFails(c) ==
  /\ ~up[c]
  /\ ReaderMoves(c, "reading", "leaving")
  /\ UNCHANGED <<slots, released, up, hangup>>

\* ReadMessage fails: no pong came within PongWait, on a socket that may still
\* carry data the other way.
PongTimeout(c) ==
  /\ up[c]
  /\ ReaderMoves(c, "reading", "leaving")
  /\ UNCHANGED <<slots, released, up, hangup>>

\* unregister, once the hub has stopped.
UnregisterLate(c) ==
  /\ hub = "stopped"
  /\ ReaderMoves(c, "leaving", "closing")
  /\ UNCHANGED <<slots, released, up, hangup>>

ReaderCloses(c) ==
  /\ ReaderMoves(c, "closing", "off")
  /\ up' = [up EXCEPT ![c] = FALSE]
  /\ hangup' = [hangup EXCEPT ![c] = Cut(c)]
  /\ Release(c)

----------------------------------------------------------------------------
(* The other end, and the network.                                         *)

\* A frame reaches the browser.
TakeFrame(c) ==
  /\ wire[c] # <<>>
  /\ wire' = [wire EXCEPT ![c] = Tail(@)]
  /\ UNCHANGED <<hubState, slots, stage, released, send, closes, closeSlow,
                 nextSeq, drops, writer, reader, up, hangup, lost>>

\* The browser closes the socket, or the network loses it, with all it holds.
Break(c) ==
  /\ up[c]
  /\ up' = [up EXCEPT ![c] = FALSE]
  /\ wire' = [wire EXCEPT ![c] = <<>>]
  /\ hangup' = [hangup EXCEPT ![c] = Cut(c)]
  /\ UNCHANGED <<hubState, slots, stage, released, send, closes, closeSlow,
                 nextSeq, drops, writer, reader, lost>>

----------------------------------------------------------------------------
Handshake(c) == \/ \E last \in Index : Upgrade(c, last) \/ UpgradeClosed(c, last)
                \/ HandshakeFails(c)
                \/ Register(c)
                \/ RegisterRefused(c)

WriterStep(c) == \/ WriteMessage(c)
                 \/ WriteFails(c)
                 \/ QueueEnds(c)
                 \/ SlowClose(c)
                 \/ GoingAway(c)
                 \/ PingFails(c)

ReaderStep(c) == \/ ReadFails(c)
                 \/ UnregisterLate(c)
                 \/ Remove(c)
                 \/ ReaderCloses(c)

ConnFault(c) == Expire(c) \/ PongTimeout(c) \/ Break(c)

HubStep == Broadcast \/ \E c \in Conn : Enqueue(c) \/ Notice(c)

HubNext ==
  \/ HubStep
  \/ HubStop
  \/ \E e \in Event : Publish(e)
  \/ \E c \in Conn : \/ Reserve(c) \/ Handshake(c)
                     \/ WriterStep(c) \/ ReaderStep(c)
                     \/ ConnFault(c) \/ TakeFrame(c)

HubSpec == HubInit /\ [][HubNext]_hubVars

----------------------------------------------------------------------------
HubStateOK ==
  /\ hub \in {"running", "stopped"}
  /\ broadcastCh \in Seq(Event) /\ Len(broadcastCh) <= BroadcastBuffer
  /\ inHand \in Event \cup {None}
  /\ todo \subseteq Conn /\ (todo # {} => inHand # None)
  /\ noticeFor \in Conn \cup {None}
  /\ sessions \subseteq Conn

QueuesOK ==
  /\ send \in [Conn -> Seq(Message)] /\ wire \in [Conn -> Seq(Message)]
  /\ \A c \in Conn : Len(send[c]) <= SendBuffer /\ Len(wire[c]) <= SocketBuffer
  /\ lost \in [Conn -> SUBSET Message]

CountsOK ==
  /\ slots \in 0..SlotLimit
  /\ closes \in [Conn -> Nat] /\ nextSeq \in [Conn -> Nat]
  /\ drops \in [Conn -> 0..(DropThreshold + 1)]

FlagsOK ==
  /\ stage \in [Conn -> {"free", "reserved", "joining", "open", "refused"}]
  /\ reader \in [Conn -> {"off", "reading", "leaving", "closing"}]
  /\ writer \in [Conn -> BOOLEAN] /\ up \in [Conn -> BOOLEAN]
  /\ released \in [Conn -> BOOLEAN] /\ closeSlow \in [Conn -> BOOLEAN]
  /\ hangup \in [Conn -> CloseCode \cup {"none"}]

\* Types, and the capacities of the queues.
HubTypeOK == HubStateOK /\ QueuesOK /\ CountsOK /\ FlagsOK

\* A queue is closed at most once, and never while the hub has the client in
\* hand: a second close and a send on a closed queue both panic (hub.go,
\* remove and the comment on it; handler.go, serveClosed).
QueueClosedOnce ==
  \A c \in Conn :
    /\ closes[c] <= 1
    /\ closes[c] = 1 => c \notin sessions \cup todo \cup {noticeFor}

\* While the hub runs, an address holds one slot for each handshake in
\* progress and each connection neither of whose pumps has ended: none leaks
\* and none is given back twice, whichever pump ends first (handler.go,
\* reserve, release and the hand-over in ServeHTTP; client.go,
\* releaseReservation).
SlotsAreExact ==
  hub = "running" =>
    slots = Cardinality({c \in Conn :
              \/ stage[c] \in {"reserved", "joining"}
              \/ stage[c] = "open" /\ writer[c] /\ reader[c] # "off"})
============================================================================
