-------------------------- MODULE LiveHub_proofs --------------------------
(***************************************************************************)
(* Proofs about LiveHub: types, a queue is closed once and never used      *)
(* afterwards, and an address's slots are exact while the hub runs.        *)
(***************************************************************************)
EXTENDS LiveHub, FiniteSetTheorems, TLAPS

\* The initial state is well typed.
LEMMA HubTypesInit == HubInit => HubTypeOK
<1> SUFFICES ASSUME HubInit PROVE HubTypeOK
  OBVIOUS
<1> USE HubAssumption DEF HubInit
<1>1. HubStateOK
  BY DEF HubStateOK
<1>2. QueuesOK
  BY DEF QueuesOK
<1>3. CountsOK
  BY DEF CountsOK
<1>4. FlagsOK
  BY DEF FlagsOK
<1>5. QED
  BY <1>1, <1>2, <1>3, <1>4 DEF HubTypeOK

\* A numbered event is a message.
LEMMA NumberedIsMessage ==
  ASSUME NEW t \in EventType \cup {"snapshot", "error"}, NEW i \in Index, NEW n \in Nat
  PROVE  Numbered(t, i, n) \in Message
BY DEF Numbered, Message

\* What Append and Tail do to the type and the length of a queue.
LEMMA QueueOps ==
  ASSUME NEW S, NEW q \in Seq(S)
  PROVE  /\ Len(q) \in Nat
         /\ \A x \in S : Append(q, x) \in Seq(S) /\ Len(Append(q, x)) = Len(q) + 1
         /\ q # <<>> => /\ Head(q) \in S /\ Tail(q) \in Seq(S)
                        /\ Len(Tail(q)) = Len(q) - 1
OBVIOUS

\* The steps of the pumps, of the browsers and of the handshake up to the
\* registration leave the hub alone.
LEMMA HubUntouched ==
  ASSUME NEW c \in Conn,
         \/ Reserve(c) \/ HandshakeFails(c) \/ RegisterRefused(c)
         \/ \E last \in Index : Upgrade(c, last) \/ UpgradeClosed(c, last)
         \/ WriterStep(c) \/ ConnFault(c) \/ TakeFrame(c)
         \/ ReadFails(c) \/ UnregisterLate(c) \/ ReaderCloses(c)
  PROVE  UNCHANGED hubState
BY DEF Reserve, HandshakeFails, RegisterRefused, Upgrade, UpgradeClosed,
       WriterStep, WriteMessage, WriteFails, QueueEnds, SlowClose, GoingAway,
       PingFails, WriterStops, ConnFault, Expire, PongTimeout, Break, TakeFrame,
       ReadFails, UnregisterLate, ReaderCloses, ReaderMoves

\* Every step keeps the hub's own state well typed.
LEMMA HubStateStep == HubTypeOK /\ [HubNext]_hubVars => HubStateOK'
<1> SUFFICES ASSUME HubTypeOK, [HubNext]_hubVars PROVE HubStateOK'
  OBVIOUS
<1> USE HubAssumption DEF HubTypeOK, HubStateOK, hubState, connVars
<1>1. CASE UNCHANGED hubVars
  BY <1>1 DEF hubVars
<1>2. CASE Broadcast
  <2>1. /\ Head(broadcastCh) \in Event /\ Tail(broadcastCh) \in Seq(Event)
        /\ Len(Tail(broadcastCh)) <= BroadcastBuffer
    BY <1>2, QueueOps DEF Broadcast
  <2>2. QED
    BY <1>2, <2>1 DEF Broadcast, HubIdle
<1>3. ASSUME NEW c \in Conn, Enqueue(c) PROVE HubStateOK'
  <2>1. noticeFor' \in Conn \cup {None}
    BY <1>3 DEF Enqueue
  <2>2. UNCHANGED <<hub, broadcastCh, sessions>> /\ todo' = todo \ {c}
        /\ inHand' = IF todo' = {} THEN None ELSE inHand
    BY <1>3 DEF Enqueue
  <2>3. todo # {}
    BY <1>3 DEF Enqueue
  <2>4. QED
    BY <2>1, <2>2, <2>3
<1>4. ASSUME NEW c \in Conn, Notice(c) PROVE HubStateOK'
  BY <1>4 DEF Notice
<1>5. CASE HubStop
  BY <1>5 DEF HubStop, HubIdle
<1>6. ASSUME NEW e \in Event, Publish(e) PROVE HubStateOK'
  BY <1>6, QueueOps DEF Publish, Queued
<1>7. ASSUME NEW c \in Conn, Register(c) PROVE HubStateOK'
  BY <1>7 DEF Register
<1>8. ASSUME NEW c \in Conn, Remove(c) PROVE HubStateOK'
  BY <1>8 DEF Remove
<1>9. ASSUME UNCHANGED hubState PROVE HubStateOK'
  BY <1>9
<1>10. QED
  BY <1>1, <1>2, <1>3, <1>4, <1>5, <1>6, <1>7, <1>8, <1>9, HubUntouched
     DEF HubNext, HubStep, Handshake, ReaderStep

\* Every step keeps queues, wires and losses well typed and within capacity.
LEMMA QueuesStep == HubTypeOK /\ [HubNext]_hubVars => QueuesOK'
<1> SUFFICES ASSUME HubTypeOK, [HubNext]_hubVars PROVE QueuesOK'
  OBVIOUS
<1> USE HubAssumption DEF HubTypeOK, QueuesOK, connVars
<1>1. ASSUME UNCHANGED <<send, wire, lost>> PROVE QueuesOK'
  BY <1>1
<1>2. ASSUME NEW c \in Conn, NEW m \in Message,
             \/ /\ Len(send[c]) < SendBuffer
                /\ send' = [send EXCEPT ![c] = Append(@, m)]
                /\ UNCHANGED lost
             \/ /\ lost' = [lost EXCEPT ![c] = @ \cup {m}]
                /\ UNCHANGED send,
             UNCHANGED wire
      PROVE  QueuesOK'
  <2>1. send[c] \in Seq(Message)
    OBVIOUS
  <2>2. Append(send[c], m) \in Seq(Message) /\ Len(Append(send[c], m)) = Len(send[c]) + 1
    BY <2>1, QueueOps
  <2>3. CASE send' = [send EXCEPT ![c] = Append(@, m)] /\ Len(send[c]) < SendBuffer /\ UNCHANGED lost
    BY <1>2, <2>1, <2>2, <2>3
  <2>4. CASE lost' = [lost EXCEPT ![c] = @ \cup {m}] /\ UNCHANGED send
    BY <1>2, <2>4
  <2>5. QED
    BY <1>2, <2>3, <2>4
<1>3. ASSUME NEW c \in Conn, Enqueue(c) PROVE QueuesOK'
  <2> DEFINE m == Numbered(inHand.type, inHand.pitch, nextSeq[c] + 1)
  <2>1. inHand \in Event /\ nextSeq[c] + 1 \in Nat
    <3>1. c \in todo
      BY <1>3 DEF Enqueue
    <3>2. inHand \in Event
      BY <3>1 DEF HubStateOK
    <3>3. nextSeq[c] \in Nat
      BY DEF CountsOK
    <3>4. QED
      BY <3>2, <3>3
  <2>2. m \in Message
    BY <2>1, NumberedIsMessage DEF Event
  <2>3. /\ \/ /\ Len(send[c]) < SendBuffer
              /\ send' = [send EXCEPT ![c] = Append(@, m)]
              /\ UNCHANGED lost
           \/ /\ lost' = [lost EXCEPT ![c] = @ \cup {m}]
              /\ UNCHANGED send
        /\ UNCHANGED wire
    BY <1>3 DEF Enqueue
  <2> HIDE DEF m
  <2>4. QED
    BY <1>2, <2>2, <2>3
<1>4. ASSUME NEW c \in Conn, Notice(c) PROVE QueuesOK'
  <2> DEFINE m == Numbered("error", 0, nextSeq[c] + 1)
  <2>1. m \in Message
    <3>1. nextSeq[c] + 1 \in Nat
      BY DEF CountsOK
    <3>2. QED
      BY <3>1, NumberedIsMessage
  <2>2. /\ \/ /\ Len(send[c]) < SendBuffer
              /\ send' = [send EXCEPT ![c] = Append(@, m)]
              /\ UNCHANGED lost
           \/ /\ lost' = [lost EXCEPT ![c] = @ \cup {m}]
              /\ UNCHANGED send
        /\ UNCHANGED wire
    BY <1>4 DEF Notice
  <2> HIDE DEF m
  <2>3. QED
    BY <1>2, <2>1, <2>2
<1>5. ASSUME NEW c \in Conn, NEW last \in Index, Upgrade(c, last) PROVE QueuesOK'
  <2>1. Numbered("snapshot", last, 0) \in Message
    BY NumberedIsMessage
  <2>2. QED
    BY <1>5, <2>1 DEF Upgrade
<1>6. ASSUME NEW c \in Conn, NEW last \in Index, UpgradeClosed(c, last) PROVE QueuesOK'
  <2>1. Numbered("snapshot", last, 0) \in Message /\ Numbered("closed", 0, 1) \in Message
    BY NumberedIsMessage DEF EventType
  <2>2. QED
    BY <1>6, <2>1 DEF UpgradeClosed
<1>7. ASSUME NEW c \in Conn, WriteMessage(c) PROVE QueuesOK'
  <2>1. send[c] \in Seq(Message) /\ wire[c] \in Seq(Message) /\ send[c] # <<>>
    BY <1>7 DEF WriteMessage
  <2>2. /\ Head(send[c]) \in Message /\ Tail(send[c]) \in Seq(Message)
        /\ Len(Tail(send[c])) = Len(send[c]) - 1
    BY <2>1, QueueOps
  <2>3. /\ Append(wire[c], Head(send[c])) \in Seq(Message)
        /\ Len(Append(wire[c], Head(send[c]))) = Len(wire[c]) + 1
    BY <2>1, <2>2, QueueOps
  <2>4. QED
    BY <1>7, <2>1, <2>2, <2>3 DEF WriteMessage
<1>8. ASSUME NEW c \in Conn, WriteFails(c) PROVE QueuesOK'
  <2>1. Tail(send[c]) \in Seq(Message) /\ Len(Tail(send[c])) = Len(send[c]) - 1
    BY <1>8, QueueOps DEF WriteFails
  <2>2. QED
    BY <1>8, <2>1 DEF WriteFails
<1>9. ASSUME NEW c \in Conn, TakeFrame(c) PROVE QueuesOK'
  <2>1. Tail(wire[c]) \in Seq(Message) /\ Len(Tail(wire[c])) = Len(wire[c]) - 1
    BY <1>9, QueueOps DEF TakeFrame
  <2>2. QED
    BY <1>9, <2>1 DEF TakeFrame
<1>10. ASSUME NEW c \in Conn, Break(c) PROVE QueuesOK'
  BY <1>10 DEF Break
<1>11. ASSUME NEW c \in Conn,
              \/ Reserve(c) \/ HandshakeFails(c) \/ Register(c) \/ RegisterRefused(c)
              \/ QueueEnds(c) \/ SlowClose(c) \/ GoingAway(c) \/ PingFails(c) \/ Expire(c)
              \/ ReadFails(c) \/ PongTimeout(c) \/ UnregisterLate(c) \/ Remove(c) \/ ReaderCloses(c)
       PROVE  UNCHANGED <<send, wire, lost>>
  BY <1>11 DEF Reserve, HandshakeFails, Register, RegisterRefused, QueueEnds, SlowClose,
               GoingAway, PingFails, Expire, WriterStops, ReadFails, PongTimeout,
               UnregisterLate, Remove, ReaderCloses, ReaderMoves
<1>12. ASSUME \/ UNCHANGED hubVars \/ Broadcast \/ HubStop \/ \E e \in Event : Publish(e)
       PROVE  UNCHANGED <<send, wire, lost>>
  BY <1>12 DEF hubVars, Broadcast, HubStop, Publish
<1>13. QED
  BY <1>1, <1>3, <1>4, <1>5, <1>6, <1>7, <1>8, <1>9, <1>10, <1>11, <1>12
     DEF HubNext, HubStep, Handshake, WriterStep, ReaderStep, ConnFault

\* Giving back a slot keeps the count in range.
LEMMA ReleaseTypes ==
  ASSUME HubTypeOK, NEW c \in Conn, Release(c)
  PROVE  slots' \in 0..SlotLimit /\ released' \in [Conn -> BOOLEAN]
<1>1. slots \in 0..SlotLimit /\ SlotLimit \in Nat
  BY HubAssumption DEF HubTypeOK, CountsOK
<1>2. released \in [Conn -> BOOLEAN]
  BY DEF HubTypeOK, FlagsOK
<1>3. slots' = slots \/ slots' = IF slots > 0 THEN slots - 1 ELSE 0
  BY DEF Release
<1>4. released' = released \/ released' = [released EXCEPT ![c] = TRUE]
  BY DEF Release
<1>5. slots' \in 0..SlotLimit
  BY <1>1, <1>3
<1>6. released' \in [Conn -> BOOLEAN]
  BY <1>2, <1>4, Zenon
<1>7. QED
  BY <1>5, <1>6

\* Every step keeps the counters in range.
LEMMA CountsStep == HubTypeOK /\ [HubNext]_hubVars => CountsOK'
<1> SUFFICES ASSUME HubTypeOK, [HubNext]_hubVars PROVE CountsOK'
  OBVIOUS
<1> USE HubAssumption DEF HubTypeOK, CountsOK, connVars
<1>1. ASSUME slots' \in 0..SlotLimit, UNCHANGED <<closes, nextSeq, drops>> PROVE CountsOK'
  BY <1>1
<1>2. ASSUME NEW c \in Conn, Enqueue(c) PROVE CountsOK'
  <2>1. nextSeq' \in [Conn -> Nat] /\ UNCHANGED <<slots, closes>>
    BY <1>2 DEF Enqueue, Spend
  <2>2. drops' \in [Conn -> 0..(DropThreshold + 1)]
    <3>1. UNCHANGED drops \/ \E n \in DropCounts(c) : drops' = [drops EXCEPT ![c] = n]
      BY <1>2 DEF Enqueue
    <3>2. DropCounts(c) \subseteq 0..(DropThreshold + 1)
      BY DEF DropCounts
    <3>3. QED
      BY <3>1, <3>2
  <2>3. QED
    BY <2>1, <2>2
<1>3. ASSUME NEW c \in Conn, Notice(c) PROVE CountsOK'
  BY <1>3 DEF Notice, Spend
<1>4. ASSUME NEW c \in Conn, Reserve(c) PROVE CountsOK'
  BY <1>4 DEF Reserve
<1>5. ASSUME NEW c \in Conn, NEW last \in Index, UpgradeClosed(c, last) PROVE CountsOK'
  BY <1>5 DEF UpgradeClosed
<1>6. ASSUME NEW c \in Conn, Remove(c) PROVE CountsOK'
  BY <1>6 DEF Remove
<1>7. ASSUME NEW c \in Conn,
             \/ HandshakeFails(c) \/ WriteMessage(c) \/ WriteFails(c) \/ QueueEnds(c)
             \/ SlowClose(c) \/ GoingAway(c) \/ PingFails(c) \/ Expire(c) \/ ReaderCloses(c)
      PROVE  CountsOK'
  <2>1. UNCHANGED slots \/ Release(c)
    BY <1>7 DEF HandshakeFails, WriteMessage, WriteFails, QueueEnds, SlowClose, GoingAway,
                PingFails, Expire, WriterStops, WriterEnds, ReaderCloses
  <2>2. UNCHANGED <<closes, nextSeq, drops>>
    BY <1>7 DEF HandshakeFails, WriteMessage, WriteFails, QueueEnds, SlowClose, GoingAway,
                PingFails, Expire, WriterStops, ReaderCloses, ReaderMoves
  <2>3. QED
    BY <1>1, <2>1, <2>2, ReleaseTypes
<1>8. ASSUME NEW c \in Conn,
             \/ Register(c) \/ RegisterRefused(c) \/ ReadFails(c) \/ PongTimeout(c)
             \/ UnregisterLate(c) \/ Break(c) \/ TakeFrame(c)
             \/ \E last \in Index : Upgrade(c, last)
      PROVE  CountsOK'
  BY <1>8 DEF Register, RegisterRefused, ReadFails, PongTimeout, UnregisterLate,
              ReaderMoves, Break, TakeFrame, Upgrade
<1>9. ASSUME \/ UNCHANGED hubVars \/ Broadcast \/ HubStop \/ \E e \in Event : Publish(e)
      PROVE  CountsOK'
  BY <1>9 DEF hubVars, Broadcast, HubStop, Publish
<1>10. QED
  BY <1>2, <1>3, <1>4, <1>5, <1>6, <1>7, <1>8, <1>9
     DEF HubNext, HubStep, Handshake, WriterStep, ReaderStep, ConnFault

\* Every step keeps the connections' flags well typed.
LEMMA FlagsStep == HubTypeOK /\ [HubNext]_hubVars => FlagsOK'
<1> SUFFICES ASSUME HubTypeOK, [HubNext]_hubVars PROVE FlagsOK'
  OBVIOUS
<1> USE DEF HubTypeOK, FlagsOK, CloseCode, connVars
<1>1. ASSUME NEW c \in Conn, NEW code \in CloseCode \cup {"none"}, WriterEnds(c, code),
             UNCHANGED <<stage, reader, closeSlow>>
      PROVE  FlagsOK'
  BY <1>1, ReleaseTypes DEF WriterEnds
<1>2. ASSUME NEW c \in Conn PROVE Cut(c) \in CloseCode \cup {"none"}
  BY DEF Cut
<1>3. ASSUME NEW c \in Conn, NEW code \in CloseCode PROVE CloseWith(c, code) \in CloseCode \cup {"none"}
  BY <1>2 DEF CloseWith
<1>4. ASSUME NEW c \in Conn, WriteMessage(c) PROVE FlagsOK'
  <2>1. UNCHANGED <<stage, reader, closeSlow>>
    BY <1>4 DEF WriteMessage
  <2>2. CASE WriterEnds(c, "1000") \/ WriterEnds(c, Cut(c))
    BY <1>1, <1>2, <2>1, <2>2
  <2>3. CASE UNCHANGED <<writer, up, hangup, slots, released>>
    BY <2>1, <2>3
  <2>4. QED
    BY <1>4, <2>2, <2>3 DEF WriteMessage
<1>5. ASSUME NEW c \in Conn, WriteFails(c) PROVE FlagsOK'
  BY <1>1, <1>2, <1>5 DEF WriteFails
<1>6. ASSUME NEW c \in Conn, NEW code \in CloseCode \cup {"none"}, WriterStops(c, code) PROVE FlagsOK'
  BY <1>1, <1>6 DEF WriterStops
<1>7. ASSUME NEW c \in Conn,
             QueueEnds(c) \/ SlowClose(c) \/ GoingAway(c) \/ PingFails(c) \/ Expire(c)
      PROVE  FlagsOK'
  BY <1>2, <1>3, <1>6, <1>7 DEF QueueEnds, SlowClose, GoingAway, PingFails, Expire
<1>8. ASSUME NEW c \in Conn, ReaderCloses(c) PROVE FlagsOK'
  BY <1>2, <1>8, ReleaseTypes DEF ReaderCloses, ReaderMoves
<1>9. ASSUME NEW c \in Conn, HandshakeFails(c) PROVE FlagsOK'
  BY <1>9, ReleaseTypes DEF HandshakeFails
<1>10. ASSUME NEW c \in Conn, Enqueue(c) PROVE FlagsOK'
  BY <1>10 DEF Enqueue
<1>11. ASSUME NEW c \in Conn, Break(c) PROVE FlagsOK'
  BY <1>2, <1>11 DEF Break
<1>12. ASSUME NEW c \in Conn,
              \/ Register(c) \/ RegisterRefused(c) \/ Reserve(c) \/ Notice(c) \/ TakeFrame(c)
              \/ \E last \in Index : Upgrade(c, last) \/ UpgradeClosed(c, last)
       PROVE  FlagsOK'
  BY <1>12 DEF Register, RegisterRefused, Reserve, Notice, TakeFrame, Upgrade, UpgradeClosed
<1>13. ASSUME NEW c \in Conn, ReadFails(c) \/ PongTimeout(c) \/ UnregisterLate(c) \/ Remove(c)
       PROVE  FlagsOK'
  BY <1>13 DEF ReadFails, PongTimeout, UnregisterLate, Remove, ReaderMoves
<1>14. ASSUME \/ UNCHANGED hubVars \/ Broadcast \/ HubStop \/ \E e \in Event : Publish(e)
       PROVE  FlagsOK'
  BY <1>14 DEF hubVars, Broadcast, HubStop, Publish
<1>15. QED
  BY <1>4, <1>5, <1>7, <1>8, <1>9, <1>10, <1>11, <1>12, <1>13, <1>14
     DEF HubNext, HubStep, Handshake, WriterStep, ReaderStep, ConnFault

\* Types and capacities, for any number of connections and any buffer sizes
\* (the whole of internal/ws).
THEOREM HubTypeCorrect == HubSpec => []HubTypeOK
<1>1. HubInit => HubTypeOK
  BY HubTypesInit
<1>2. HubTypeOK /\ [HubNext]_hubVars => HubTypeOK'
  BY HubStateStep, QueuesStep, CountsStep, FlagsStep DEF HubTypeOK
<1>3. QED
  BY <1>1, <1>2, PTL DEF HubSpec

----------------------------------------------------------------------------
(* A queue is closed once, and not used afterwards.                        *)

\* What makes it so: the hub only has registered clients in hand, a registered
\* client's queue is open, and the queue of an outing that is over is closed
\* by its handler, which registers nothing.
QueueInv ==
  /\ \A c \in Conn : closes[c] \in 0..1
  /\ \A c \in Conn : stage[c] \in {"free", "reserved", "joining"} => closes[c] = 0
  /\ \A c \in sessions : stage[c] = "open" /\ closes[c] = 0
  /\ todo \subseteq sessions
  /\ noticeFor \in sessions \cup {None}

\* Every step keeps the queues' invariant.
LEMMA QueueInvStep == HubTypeOK /\ QueueInv /\ [HubNext]_hubVars => QueueInv'
<1> SUFFICES ASSUME HubTypeOK, QueueInv, [HubNext]_hubVars PROVE QueueInv'
  OBVIOUS
<1>t. /\ stage \in [Conn -> {"free", "reserved", "joining", "open", "refused"}]
      /\ closes \in [Conn -> Nat] /\ sessions \subseteq Conn /\ None \notin Conn
  BY HubAssumption DEF HubTypeOK, FlagsOK, CountsOK, HubStateOK
<1> USE DEF QueueInv
<1>1. ASSUME UNCHANGED <<sessions, todo, noticeFor, closes, stage>> PROVE QueueInv'
  BY <1>1
<1>2. ASSUME NEW c \in Conn, Reserve(c) \/ HandshakeFails(c) \/ RegisterRefused(c)
      PROVE  QueueInv'
  <2>1. stage[c] \in {"free", "reserved", "joining"}
    BY <1>2 DEF Reserve, HandshakeFails, RegisterRefused
  <2>2. stage' = [stage EXCEPT ![c] = "reserved"] \/ stage' = [stage EXCEPT ![c] = "refused"]
    BY <1>2 DEF Reserve, HandshakeFails, RegisterRefused
  <2>3. UNCHANGED <<sessions, todo, noticeFor, closes>>
    BY <1>2 DEF Reserve, HandshakeFails, RegisterRefused, hubState
  <2>4. c \notin sessions /\ closes[c] = 0
    BY <2>1
  <2>5. QED
    BY <1>t, <2>2, <2>3, <2>4
<1>3. ASSUME NEW c \in Conn, NEW last \in Index, Upgrade(c, last) PROVE QueueInv'
  BY <1>3, <1>t DEF Upgrade, hubState
<1>4. ASSUME NEW c \in Conn, NEW last \in Index, UpgradeClosed(c, last) PROVE QueueInv'
  BY <1>4, <1>t DEF UpgradeClosed, hubState
<1>5. ASSUME NEW c \in Conn, Register(c) PROVE QueueInv'
  BY <1>5, <1>t DEF Register
<1>6. ASSUME NEW c \in Conn, Remove(c) PROVE QueueInv'
  BY <1>6, <1>t DEF Remove, HubIdle
<1>7. ASSUME NEW c \in Conn, Enqueue(c) PROVE QueueInv'
  <2>1. /\ todo' = todo \ {c} /\ UNCHANGED <<sessions, closes, stage>>
        /\ c \in todo
    BY <1>7 DEF Enqueue
  <2>2. noticeFor' \in {noticeFor, c, None}
    BY <1>7 DEF Enqueue
  <2>3. QED
    BY <2>1, <2>2
<1>8. ASSUME NEW c \in Conn, Notice(c) PROVE QueueInv'
  BY <1>8 DEF Notice
<1>9. CASE Broadcast
  BY <1>9 DEF Broadcast, HubIdle, connVars
<1>10. CASE HubStop
  BY <1>10 DEF HubStop, HubIdle, connVars
<1>11. ASSUME NEW c \in Conn,
              WriterStep(c) \/ ConnFault(c) \/ TakeFrame(c) \/ ReadFails(c)
                \/ UnregisterLate(c) \/ ReaderCloses(c)
       PROVE  UNCHANGED <<sessions, todo, noticeFor, closes, stage>>
  BY <1>11 DEF WriterStep, WriteMessage, WriteFails, QueueEnds, SlowClose, GoingAway,
               PingFails, WriterStops, ConnFault, Expire, PongTimeout, Break, TakeFrame,
               ReadFails, UnregisterLate, ReaderCloses, ReaderMoves, hubState
<1>12. ASSUME UNCHANGED hubVars \/ \E e \in Event : Publish(e)
       PROVE  UNCHANGED <<sessions, todo, noticeFor, closes, stage>>
  BY <1>12 DEF hubVars, hubState, connVars, Publish
<1>13. QED
  BY <1>1, <1>2, <1>3, <1>4, <1>5, <1>6, <1>7, <1>8, <1>9, <1>10, <1>11, <1>12
     DEF HubNext, HubStep, Handshake, ReaderStep

\* The queues' invariant holds throughout.
LEMMA QueueInvHolds == HubSpec => []QueueInv
<1>1. HubInit => QueueInv
  BY DEF HubInit, QueueInv
<1>2. QED
  BY <1>1, QueueInvStep, HubTypeCorrect, PTL DEF HubSpec

\* A queue is closed at most once and never while the hub may send to it
\* (hub.go, remove; handler.go, serveClosed), for any number of connections.
THEOREM ClosedOnce == HubSpec => []QueueClosedOnce
<1>1. QueueInv => QueueClosedOnce
  <2> SUFFICES ASSUME QueueInv, NEW c \in Conn
               PROVE  /\ closes[c] <= 1
                      /\ closes[c] = 1 => c \notin sessions \cup todo \cup {noticeFor}
    BY DEF QueueClosedOnce
  <2>1. closes[c] \in 0..1 /\ (c \in sessions => closes[c] = 0)
    BY DEF QueueInv
  <2>2. c \in todo \cup {noticeFor} => c \in sessions
    BY HubAssumption DEF QueueInv
  <2>3. QED
    BY <2>1, <2>2
<1>2. QED
  BY <1>1, QueueInvHolds, PTL

----------------------------------------------------------------------------
(* The slots of the address.                                               *)

\* The connections a slot is held for.
Holds(c) == \/ stage[c] \in {"reserved", "joining"}
            \/ stage[c] = "open" /\ writer[c] /\ reader[c] # "off"
Holders  == {c \in Conn : Holds(c)}

\* A slot is given back exactly when its connection no longer holds it, and
\* pumps run only for an open connection.
HolderOK(c) ==
  /\ stage[c] # "open" => ~writer[c] /\ reader[c] = "off"
  /\ stage[c] = "free" => ~released[c]
  /\ stage[c] \in {"reserved", "joining", "open"} => (released[c] <=> ~Holds(c))

SlotInv == /\ \A c \in Conn : HolderOK(c)
           /\ hub = "running" => slots = Cardinality(Holders)

\* Giving back the slot of a connection that stops holding one keeps the
\* count exact.
LEMMA ReleaseIsExact ==
  ASSUME NEW c \in Conn, Release(c), slots = Cardinality(Holders),
         c \in Holders <=> ~released[c], Holders' = Holders \ {c}
  PROVE  slots' = Cardinality(Holders')
<1>1. IsFiniteSet(Holders) /\ Cardinality(Holders) \in Nat
  BY HubAssumption, FS_Subset, FS_CardinalityType DEF Holders
<1>2. CASE c \in Holders
  <2>1. Cardinality(Holders \ {c}) = Cardinality(Holders) - 1
    BY <1>1, <1>2, FS_RemoveElement
  <2>2. Cardinality(Holders) # 0
    BY <1>1, <1>2, FS_EmptySet
  <2>3. slots' = slots - 1
    BY <1>1, <1>2, <2>2 DEF Release
  <2>4. QED
    BY <2>1, <2>3
<1>3. CASE c \notin Holders
  <2>1. Holders' = Holders /\ slots' = slots
    BY <1>3 DEF Release
  <2>2. QED
    BY <2>1
<1>4. QED
  BY <1>2, <1>3

\* Every step keeps the slots' invariant.
LEMMA SlotInvStep == HubTypeOK /\ SlotInv /\ [HubNext]_hubVars => SlotInv'
<1> SUFFICES ASSUME HubTypeOK, SlotInv, [HubNext]_hubVars PROVE SlotInv'
  OBVIOUS
<1>t. /\ stage \in [Conn -> {"free", "reserved", "joining", "open", "refused"}]
      /\ reader \in [Conn -> {"off", "reading", "leaving", "closing"}]
      /\ writer \in [Conn -> BOOLEAN] /\ released \in [Conn -> BOOLEAN]
      /\ slots \in Nat
  BY HubAssumption DEF HubTypeOK, FlagsOK, CountsOK
<1>f. IsFiniteSet(Holders) /\ Cardinality(Holders) \in Nat
  BY HubAssumption, FS_Subset, FS_CardinalityType DEF Holders
<1> USE DEF SlotInv, HolderOK, Holds
<1>1. ASSUME UNCHANGED <<stage, writer, reader, released, slots>>,
             hub' = "running" => hub = "running"
      PROVE  SlotInv'
  <2>1. Holders' = Holders
    BY <1>1 DEF Holders
  <2>2. QED
    BY <1>1, <2>1
<1>2. ASSUME NEW c \in Conn, Reserve(c) PROVE SlotInv'
  <2>1. /\ stage[c] = "free" /\ stage' = [stage EXCEPT ![c] = "reserved"]
        /\ slots' = slots + 1 /\ UNCHANGED <<hub, writer, reader, released>>
    BY <1>2 DEF Reserve, hubState
  <2>2. \A d \in Conn : HolderOK(d)'
    BY <1>t, <2>1
  <2>3. c \notin Holders /\ Holders' = Holders \cup {c}
    BY <1>t, <2>1 DEF Holders
  <2>4. Cardinality(Holders \cup {c}) = Cardinality(Holders) + 1
    BY <1>f, <2>3, FS_AddElement
  <2>5. QED
    BY <2>1, <2>2, <2>3, <2>4
<1>3. ASSUME NEW c \in Conn, stage[c] \in {"reserved", "open"}, Release(c), UNCHANGED hub,
             UNCHANGED reader \/ reader' = [reader EXCEPT ![c] = "off"],
             UNCHANGED writer \/ writer' = [writer EXCEPT ![c] = FALSE],
             UNCHANGED stage \/ (stage[c] = "reserved" /\ stage' = [stage EXCEPT ![c] = "refused"]),
             stage'[c] = "open" => ~writer'[c] \/ reader'[c] = "off",
             stage'[c] # "reserved"
      PROVE  SlotInv'
  <2>1. c \in Holders <=> ~released[c]
    BY <1>3 DEF Holders
  <2>2. released' = [released EXCEPT ![c] = TRUE]
    BY <1>3, <1>t DEF Release
  <2>3. \A d \in Conn : HolderOK(d)'
    <3>1. HolderOK(c)'
      BY <1>3, <1>t, <2>2
    <3>2. ASSUME NEW d \in Conn, d # c PROVE HolderOK(d)'
      BY <1>3, <1>t, <2>2, <3>2
    <3>3. QED
      BY <3>1, <3>2
  <2>4. Holders' = Holders \ {c}
    BY <1>3, <1>t DEF Holders
  <2>5. hub' = "running" => slots' = Cardinality(Holders')
    BY <1>3, <2>1, <2>4, ReleaseIsExact
  <2>6. QED
    BY <2>3, <2>5
<1>4. ASSUME NEW c \in Conn, HandshakeFails(c) PROVE SlotInv'
  <2>1. /\ stage[c] = "reserved" /\ stage' = [stage EXCEPT ![c] = "refused"]
        /\ Release(c) /\ UNCHANGED <<hub, writer, reader>>
    BY <1>4 DEF HandshakeFails, hubState
  <2>2. stage'[c] = "refused"
    BY <1>t, <2>1
  <2>3. QED
    BY <1>3, <2>1, <2>2
<1>5. ASSUME NEW c \in Conn, NEW code, writer[c], WriterEnds(c, code),
             UNCHANGED <<hub, stage, reader>>
      PROVE  SlotInv'
  <2>1. stage[c] = "open"
    BY <1>5
  <2>2. writer' = [writer EXCEPT ![c] = FALSE] /\ Release(c)
    BY <1>5 DEF WriterEnds
  <2>3. stage'[c] = "open" /\ ~writer'[c]
    BY <1>5, <1>t, <2>1, <2>2
  <2>4. QED
    BY <1>3, <1>5, <2>1, <2>2, <2>3
<1>6. ASSUME NEW c \in Conn, WriteMessage(c) PROVE SlotInv'
  <2>1. writer[c] /\ UNCHANGED <<hub, stage, reader>>
    BY <1>6 DEF WriteMessage, hubState
  <2>2. (\E code : WriterEnds(c, code)) \/ UNCHANGED <<writer, released, slots>>
    BY <1>6 DEF WriteMessage
  <2>3. QED
    BY <1>1, <1>5, <2>1, <2>2
<1>7. ASSUME NEW c \in Conn, WriteFails(c) PROVE SlotInv'
  BY <1>5, <1>7 DEF WriteFails, hubState
<1>8. ASSUME NEW c \in Conn,
             QueueEnds(c) \/ SlowClose(c) \/ GoingAway(c) \/ PingFails(c) \/ Expire(c)
      PROVE  SlotInv'
  <2>1. \E code : WriterStops(c, code)
    BY <1>8 DEF QueueEnds, SlowClose, GoingAway, PingFails, Expire
  <2>2. QED
    BY <1>5, <2>1 DEF WriterStops, hubState
<1>9. ASSUME NEW c \in Conn, ReaderCloses(c) PROVE SlotInv'
  <2>1. /\ reader[c] = "closing" /\ reader' = [reader EXCEPT ![c] = "off"]
        /\ Release(c) /\ UNCHANGED <<hub, stage, writer>>
    BY <1>9 DEF ReaderCloses, ReaderMoves, hubState
  <2>2. stage[c] = "open" /\ reader'[c] = "off"
    BY <1>t, <2>1
  <2>3. QED
    BY <1>3, <2>1, <2>2
<1>10. ASSUME NEW c \in Conn, NEW s \in {"leaving", "closing"},
              reader[c] # "off", reader' = [reader EXCEPT ![c] = s],
              UNCHANGED <<hub, stage, writer, released, slots>>
       PROVE  SlotInv'
  <2>1. \A d \in Conn : reader'[d] = "off" <=> reader[d] = "off"
    BY <1>10, <1>t
  <2>2. Holders' = Holders
    BY <1>10, <2>1 DEF Holders
  <2>3. QED
    BY <1>10, <2>1, <2>2
<1>11. ASSUME NEW c \in Conn, ReadFails(c) \/ PongTimeout(c) \/ UnregisterLate(c) \/ Remove(c)
       PROVE  SlotInv'
  BY <1>10, <1>11 DEF ReadFails, PongTimeout, UnregisterLate, Remove, ReaderMoves, hubState
<1>12. ASSUME NEW c \in Conn, stage[c] \in {"reserved", "joining"},
              \/ stage' = [stage EXCEPT ![c] = "joining"] /\ UNCHANGED <<writer, reader>>
              \/ /\ stage' = [stage EXCEPT ![c] = "open"]
                 /\ writer' = [writer EXCEPT ![c] = TRUE]
                 /\ reader' = [reader EXCEPT ![c] = "reading"],
              UNCHANGED <<hub, released, slots>>
       PROVE  SlotInv'
  <2>1. \A d \in Conn : HolderOK(d)' /\ (Holds(d)' <=> Holds(d))
    BY <1>12, <1>t
  <2>2. Holders' = Holders
    BY <2>1 DEF Holders
  <2>3. QED
    BY <1>12, <2>1, <2>2
<1>13. ASSUME NEW c \in Conn,
              Register(c) \/ \E last \in Index : Upgrade(c, last) \/ UpgradeClosed(c, last)
       PROVE  SlotInv'
  BY <1>12, <1>13 DEF Register, Upgrade, UpgradeClosed, hubState
<1>14. ASSUME NEW c \in Conn, RegisterRefused(c) PROVE SlotInv'
  <2>1. /\ hub' = "stopped" /\ stage[c] = "joining"
        /\ stage' = [stage EXCEPT ![c] = "refused"]
        /\ UNCHANGED <<writer, reader, released>>
    BY <1>14 DEF RegisterRefused, hubState
  <2>2. QED
    BY <1>t, <2>1
<1>15. ASSUME \/ UNCHANGED hubVars \/ HubStep \/ HubStop \/ \E e \in Event : Publish(e)
              \/ \E c \in Conn : Break(c) \/ TakeFrame(c)
       PROVE  SlotInv'
  BY <1>1, <1>15 DEF hubVars, HubStep, Broadcast, Enqueue, Notice, HubStop, Publish, Break,
                     TakeFrame, hubState, connVars
<1>16. QED
  BY <1>2, <1>4, <1>6, <1>7, <1>8, <1>9, <1>11, <1>13, <1>14, <1>15
     DEF HubNext, Handshake, WriterStep, ReaderStep, ConnFault

\* While the hub runs, no slot leaks and none is given back twice, whichever
\* pump ends first (handler.go, reserve; client.go, releaseReservation), for
\* any number of connections and any limit.
THEOREM SlotsExact == HubSpec => []SlotsAreExact
<1>1. HubInit => SlotInv
  <2> SUFFICES ASSUME HubInit PROVE SlotInv
    OBVIOUS
  <2>1. Holders = {}
    BY DEF HubInit, Holders, Holds
  <2>2. Cardinality(Holders) = 0
    BY <2>1, FS_EmptySet
  <2>3. QED
    BY <2>2 DEF HubInit, SlotInv, HolderOK, Holds
<1>2. SlotInv => SlotsAreExact
  BY DEF SlotInv, SlotsAreExact, Holders, Holds
<1>3. QED
  BY <1>1, <1>2, SlotInvStep, HubTypeCorrect, PTL DEF HubSpec

============================================================================
