------------------------- MODULE LiveStream_proofs -------------------------
(***************************************************************************)
(* Proofs about LiveStream: inside the live view the hub behaves as        *)
(* LiveHub specifies it on its own, so that what is proved of the hub      *)
(* holds of the composition; and a page reconciles every gap.              *)
(***************************************************************************)
EXTENDS LiveStream, LiveHub_proofs, SequenceTheorems

----------------------------------------------------------------------------
(* The hub inside the composition.                                         *)

\* The state outside the hub is well typed; the pitches a page shows are left
\* to StreamInv.
TableOK ==
  /\ stored \in 0..MaxPitches /\ over \in BOOLEAN
  /\ fanned \in 0..stored /\ due \in BOOLEAN /\ events \in 0..MaxEvents
  /\ faults \in 0..MaxFaults

PagesOK ==
  /\ view \in [Page -> {"connecting", "live", "reconnecting", "closed"}]
  /\ sock \in [Page -> Conn \cup {None}]
  /\ opened \in [Page -> BOOLEAN] /\ retrying \in [Page -> BOOLEAN]
  /\ lastSeq \in [Page -> Nat \cup {-1}] /\ missed \in [Page -> Nat]
  /\ asked \in [Page -> BOOLEAN] /\ unread \in [Page -> BOOLEAN]
  /\ query \in [Page -> -1..MaxPitches] /\ fetched \in [Page -> -1..MaxPitches]

BaseOK == TableOK /\ PagesOK

\* The initial state is well typed outside the hub.
LEMMA BaseInit == Init => BaseOK
<1> SUFFICES ASSUME Init PROVE TableOK /\ PagesOK
  BY DEF BaseOK
<1>1. TableOK
  <2>1. over \in BOOLEAN /\ due \in BOOLEAN
    BY Zenon DEF Init
  <2>2. stored = 0 /\ fanned = 0 /\ events = 0 /\ faults = 0
    BY Zenon DEF Init
  <2>3. QED
    BY <2>1, <2>2, StreamAssumption DEF TableOK
<1>2. PagesOK
  BY StreamAssumption DEF Init, PagesOK
<1>3. QED
  BY <1>1, <1>2

\* An event handled by the fan-out changes nothing but the fan-out and the hub.
LEMMA FanFrame ==
  ASSUME BaseOK, FanPitch \/ FanMetrics \/ FanAgain \/ FanAnomaly
  PROVE  /\ fanned' \in 0..stored /\ due' \in BOOLEAN /\ events' \in 0..MaxEvents
         /\ faults' \in 0..MaxFaults
         /\ UNCHANGED <<tableVars, pageVars>>
         /\ \E e \in Event : Publish(e)
<1> USE StreamAssumption DEF BaseOK, TableOK, Fan
<1>1. /\ events' \in 0..MaxEvents /\ UNCHANGED <<tableVars, pageVars>>
      /\ fanned' \in 0..stored /\ due' \in BOOLEAN /\ faults' \in 0..MaxFaults
  <2>1. CASE FanPitch
    BY <2>1 DEF FanPitch
  <2>2. CASE FanMetrics
    <3>1. due' \in BOOLEAN
      BY <2>2, Zenon DEF FanMetrics
    <3>2. UNCHANGED <<fanned, faults, tableVars, pageVars>> /\ events' \in 0..MaxEvents
      BY <2>2 DEF FanMetrics
    <3>3. QED
      BY <3>1, <3>2
  <2>3. CASE FanAgain
    BY <2>3 DEF FanAgain, Fault
  <2>4. CASE FanAnomaly
    BY <2>4 DEF FanAnomaly
  <2>5. QED
    BY <2>1, <2>2, <2>3, <2>4
<1>2. /\ \A i \in 0..MaxPitches : [type |-> "pitch", pitch |-> i] \in Event
      /\ [type |-> "metrics", pitch |-> 0] \in Event
      /\ [type |-> "anomaly", pitch |-> 0] \in Event
  BY DEF Event, EventType
<1>3. FanPitch => fanned + 1 \in 0..MaxPitches
  BY DEF FanPitch
<1>4. \E e \in Event : Publish(e)
  BY <1>2, <1>3 DEF FanPitch, FanMetrics, FanAgain, FanAnomaly
<1>5. QED
  BY <1>1, <1>4

\* A step of a page's REST read touches nothing but the reads and the faults.
LEMMA ReadFrame ==
  ASSUME NEW p \in Page, ReadStep(p)
  PROVE  UNCHANGED <<hubVars, view, sock, opened, retrying, lastSeq, missed, pitches,
                     tableVars, fanVars>>
BY DEF ReadStep, Query, Fetch, FetchFails, Refocus, ReadOnly

\* Every step keeps the state outside the hub well typed.
LEMMA BaseStep == HubTypeOK /\ BaseOK /\ [Next]_vars => BaseOK'
<1> SUFFICES ASSUME HubTypeOK, BaseOK, [Next]_vars PROVE BaseOK'
  OBVIOUS
<1> USE StreamAssumption DEF BaseOK, TableOK, PagesOK, tableVars, fanVars, pageVars, readVars
<1>a. ASSUME NEW p \in Page, Ask(p)
      PROVE  /\ asked' \in [Page -> BOOLEAN] /\ unread' \in [Page -> BOOLEAN]
             /\ query' \in [Page -> -1..MaxPitches] /\ fetched' \in [Page -> -1..MaxPitches]
  BY <1>a DEF Ask
<1>1. CASE UNCHANGED vars
  BY <1>1 DEF vars
<1>2. CASE StorePitch \/ EndOuting
  <2>1. UNCHANGED <<fanVars, pageVars, faults>>
    BY <1>2 DEF StorePitch, EndOuting
  <2>2. over' \in BOOLEAN
    BY <1>2, Zenon DEF StorePitch, EndOuting
  <2>3. stored' \in 0..MaxPitches /\ stored <= stored'
    BY <1>2 DEF StorePitch, EndOuting
  <2>4. QED
    BY <2>1, <2>2, <2>3
<1>3. CASE FanPitch \/ FanMetrics \/ FanAgain \/ FanAnomaly
  BY <1>3, FanFrame
<1>4. CASE Deliver \/ Shutdown
  BY <1>4 DEF Deliver, Shutdown, Elsewhere, Fault
<1>5. ASSUME NEW c \in Conn, Answer(c) \/ ServerStep(c) PROVE BaseOK'
  BY <1>5 DEF Answer, ServerStep, Elsewhere, Fault
<1>6. ASSUME NEW p \in Page, NEW c \in Conn, Dial(p, c) PROVE BaseOK'
  BY <1>6 DEF Dial
<1>7. ASSUME NEW p \in Page, DialRefused(p) PROVE BaseOK'
  BY <1>7 DEF DialRefused
<1>8. ASSUME NEW p \in Page, Open(p) PROVE BaseOK'
  BY <1>a, <1>8 DEF Open
<1>9. ASSUME NEW p \in Page, Receive(p) PROVE BaseOK'
  <2> DEFINE m == Head(wire[sock[p]])
  <2>1. m.seq \in Nat
    <3>1. sock[p] \in Conn /\ wire[sock[p]] # <<>>
      BY <1>9 DEF Receive, TakeFrame
    <3>2. wire[sock[p]] \in Seq(Message)
      BY <3>1 DEF HubTypeOK, QueuesOK
    <3>3. m \in Message
      BY <3>1, <3>2, QueueOps
    <3>4. QED
      BY <3>3 DEF Message
  <2>2. Skipped(p, m) \in Nat
    <3>1. lastSeq[p] \in Nat \cup {-1}
      OBVIOUS
    <3> HIDE DEF m
    <3>2. QED
      BY <2>1, <3>1 DEF Skipped
  <2> HIDE DEF m
  <2>3. /\ asked' \in [Page -> BOOLEAN] /\ unread' \in [Page -> BOOLEAN]
        /\ query' \in [Page -> -1..MaxPitches] /\ fetched' \in [Page -> -1..MaxPitches]
    <3>1. Ask(p) \/ UNCHANGED readVars
      BY <1>9 DEF Receive
    <3>2. QED
      BY <1>a, <3>1
  <2>4. lastSeq' \in [Page -> Nat \cup {-1}] /\ missed' \in [Page -> Nat]
    BY <1>9, <2>1, <2>2 DEF Receive, m
  <2>5. view' \in [Page -> {"connecting", "live", "reconnecting", "closed"}]
    BY <1>9 DEF Receive
  <2>6. UNCHANGED <<sock, opened, retrying, tableVars, fanVars, faults>>
    BY <1>9 DEF Receive
  <2>7. QED
    BY <2>3, <2>4, <2>5, <2>6
<1>10. ASSUME NEW p \in Page, Disconnected(p) PROVE BaseOK'
  BY <1>10 DEF Disconnected
<1>11. ASSUME NEW p \in Page, ReadStep(p) PROVE BaseOK'
  <2>1. /\ asked' \in [Page -> BOOLEAN] /\ unread' \in [Page -> BOOLEAN]
        /\ query' \in [Page -> -1..MaxPitches] /\ fetched' \in [Page -> -1..MaxPitches]
    <3>1. CASE Query(p)
      BY <3>1 DEF Query
    <3>2. CASE Fetch(p)
      BY <3>2 DEF Fetch
    <3>3. CASE FetchFails(p)
      BY <3>3 DEF FetchFails
    <3>4. CASE Refocus(p)
      BY <1>a, <3>4 DEF Refocus
    <3>5. QED
      BY <1>11, <3>1, <3>2, <3>3, <3>4 DEF ReadStep
  <2>2. faults' \in 0..MaxFaults
    BY <1>11 DEF ReadStep, Query, Fetch, FetchFails, Refocus, Fault
  <2>3. UNCHANGED <<view, sock, opened, retrying, lastSeq, missed, tableVars, fanVars>>
    BY <1>11, ReadFrame
  <2>4. QED
    BY <2>1, <2>2, <2>3
<1>12. ASSUME NEW p \in Page, LeaveAndReturn(p) PROVE BaseOK'
  <2>1. /\ asked' \in [Page -> BOOLEAN] /\ unread' \in [Page -> BOOLEAN]
        /\ query' \in [Page -> -1..MaxPitches] /\ fetched' \in [Page -> -1..MaxPitches]
    <3>1. Ask(p) \/ UNCHANGED readVars
      BY <1>12 DEF LeaveAndReturn
    <3>2. QED
      BY <1>a, <3>1
  <2>2. /\ view' \in [Page -> {"connecting", "live", "reconnecting", "closed"}]
        /\ sock' \in [Page -> Conn \cup {None}]
        /\ opened' \in [Page -> BOOLEAN] /\ retrying' \in [Page -> BOOLEAN]
        /\ lastSeq' \in [Page -> Nat \cup {-1}] /\ missed' \in [Page -> Nat]
    BY <1>12 DEF LeaveAndReturn
  <2>3. faults' \in 0..MaxFaults /\ UNCHANGED <<tableVars, fanVars>>
    BY <1>12 DEF LeaveAndReturn, Fault
  <2>4. QED
    BY <2>1, <2>2, <2>3
<1>13. QED
  BY <1>1, <1>2, <1>3, <1>4, <1>5, <1>6, <1>7, <1>8, <1>9, <1>10, <1>11, <1>12
     DEF Next, PageStep

\* A step of the composition is a step of the hub, or leaves the hub alone.
LEMMA StepIsHubStep == BaseOK /\ [Next]_vars => [HubNext]_hubVars
<1> SUFFICES ASSUME BaseOK, [Next]_vars PROVE [HubNext]_hubVars
  OBVIOUS
<1>t. stored \in Index /\ \A p \in Page : sock[p] # None => sock[p] \in Conn
  BY StreamAssumption DEF BaseOK, TableOK, PagesOK
<1>1. CASE UNCHANGED vars \/ StorePitch \/ EndOuting
  BY <1>1 DEF vars, StorePitch, EndOuting
<1>2. CASE FanPitch \/ FanMetrics \/ FanAgain \/ FanAnomaly
  BY <1>2, FanFrame DEF HubNext
<1>3. CASE Deliver \/ Shutdown
  BY <1>3 DEF Deliver, Shutdown, HubNext
<1>4. ASSUME NEW c \in Conn, Answer(c) PROVE HubNext
  BY <1>4, <1>t DEF Answer, HubNext, Handshake
<1>5. ASSUME NEW c \in Conn, ServerStep(c) PROVE HubNext
  BY <1>5 DEF ServerStep, HubNext, Handshake, ConnFault
<1>6. ASSUME NEW p \in Page, PageStep(p) PROVE [HubNext]_hubVars
  <2>1. ASSUME NEW c \in Conn, Dial(p, c) PROVE HubNext
    BY <2>1 DEF Dial, HubNext
  <2>2. CASE Receive(p)
    BY <1>t, <2>2 DEF Receive, HubNext
  <2>3. CASE LeaveAndReturn(p)
    BY <1>t, <2>3 DEF LeaveAndReturn, HubNext, Handshake, ConnFault
  <2>4. CASE DialRefused(p) \/ Open(p) \/ Disconnected(p) \/ ReadStep(p)
    BY <2>4, ReadFrame DEF DialRefused, Open, Disconnected
  <2>5. QED
    BY <1>6, <2>1, <2>2, <2>3, <2>4 DEF PageStep
<1>7. QED
  BY <1>1, <1>2, <1>3, <1>4, <1>5, <1>6 DEF Next

\* Types and hub steps together: each needs the other.
LEMMA HubInside == Spec => [](BaseOK /\ HubTypeOK)
<1>1. Init => BaseOK /\ HubTypeOK
  BY BaseInit, HubTypesInit DEF Init
<1>2. BaseOK /\ HubTypeOK /\ [Next]_vars => (BaseOK /\ HubTypeOK)'
  <2> SUFFICES ASSUME BaseOK, HubTypeOK, [Next]_vars PROVE BaseOK' /\ HubTypeOK'
    OBVIOUS
  <2>1. BaseOK'
    BY BaseStep
  <2>2. HubTypeOK'
    BY StepIsHubStep, HubStateStep, QueuesStep, CountsStep, FlagsStep DEF HubTypeOK
  <2>3. QED
    BY <2>1, <2>2
<1>3. QED
  BY <1>1, <1>2, PTL DEF Spec

\* The pages, the fan-out and the table use the hub only as its own
\* specification allows (websocket.go, handler.go, useSessionStream.ts).
LEMMA StreamIsHub == Spec => HubSpec
<1>1. Init => HubInit
  BY DEF Init
<1>2. BaseOK /\ [Next]_vars => [HubNext]_hubVars
  BY StepIsHubStep
<1>3. QED
  BY <1>1, <1>2, HubInside, PTL DEF Spec, HubSpec

\* No queue of the live view is closed twice or used after it was closed
\* (hub.go, remove).
THEOREM StreamClosedOnce == Spec => []QueueClosedOnce
BY StreamIsHub, ClosedOnce, PTL

\* The slots of the pages' address are exact while the hub runs (handler.go,
\* reserve and release).
THEOREM StreamSlotsExact == Spec => []SlotsAreExact
BY StreamIsHub, SlotsExact, PTL

----------------------------------------------------------------------------
(* Queues of numbered messages.                                            *)

Elems(q)  == {q[i] : i \in 1..Len(q)}
Rising(q) == \A i, j \in 1..Len(q) : i < j => q[i].seq < q[j].seq

\* Taking the head of a queue: it was an element, the rest were too, and in a
\* rising queue the rest have higher numbers.
LEMMA TakeHead ==
  ASSUME NEW S, NEW q \in Seq(S), q # <<>>
  PROVE  /\ Head(q) \in Elems(q) /\ Head(q) \in S
         /\ Tail(q) \in Seq(S)
         /\ Elems(Tail(q)) \subseteq Elems(q)
         /\ Rising(q) => /\ Rising(Tail(q))
                         /\ \A m \in Elems(Tail(q)) : Head(q).seq < m.seq
<1>1. /\ Len(q) \in Nat \ {0} /\ Head(q) = q[1]
      /\ Tail(q) \in Seq(S) /\ Len(Tail(q)) = Len(q) - 1
      /\ \A i \in 1..(Len(q) - 1) : Tail(q)[i] = q[i + 1]
  OBVIOUS
<1>2. \A i \in 1..(Len(q) - 1) : i + 1 \in 1..Len(q)
  BY <1>1
<1>3. Head(q) \in Elems(q) /\ Head(q) \in S
  BY <1>1 DEF Elems
<1>4. Elems(Tail(q)) \subseteq Elems(q)
  BY <1>1, <1>2 DEF Elems
<1>5. ASSUME Rising(q) PROVE Rising(Tail(q))
  BY <1>1, <1>5 DEF Rising
<1>6. ASSUME Rising(q), NEW m \in Elems(Tail(q)) PROVE Head(q).seq < m.seq
  <2>1. PICK i \in 1..(Len(q) - 1) : m = q[i + 1]
    BY <1>1 DEF Elems
  <2>2. 1 \in 1..Len(q) /\ i + 1 \in 1..Len(q) /\ 1 < i + 1
    BY <1>1
  <2>3. QED
    BY <1>1, <1>6, <2>1, <2>2 DEF Rising
<1>7. QED
  BY <1>1, <1>3, <1>4, <1>5, <1>6

\* Appending to a queue adds one element, keeps the head, and keeps a rising
\* queue rising when the new number is higher than all.
LEMMA AddLast ==
  ASSUME NEW S, NEW q \in Seq(S), NEW x \in S
  PROVE  /\ Append(q, x) \in Seq(S) /\ Append(q, x) # <<>>
         /\ Elems(Append(q, x)) = Elems(q) \cup {x}
         /\ q # <<>> => Head(Append(q, x)) = Head(q)
         /\ q = <<>> => Head(Append(q, x)) = x
         /\ Rising(q) /\ (\A m \in Elems(q) : m.seq < x.seq) => Rising(Append(q, x))
<1> DEFINE r == Append(q, x)
<1>1. /\ Len(q) \in Nat /\ r \in Seq(S) /\ Len(r) = Len(q) + 1
      /\ \A i \in 1..Len(q) : r[i] = q[i]
      /\ r[Len(q) + 1] = x
  OBVIOUS
<1>2. r # <<>>
  BY <1>1
<1>3. q # <<>> => Head(r) = Head(q)
  BY <1>1
<1>4. q = <<>> => Head(r) = x
  BY <1>1
<1> HIDE DEF r
<1>5. Elems(r) = Elems(q) \cup {x}
  <2>1. \A i \in 1..(Len(q) + 1) : i \in 1..Len(q) \/ i = Len(q) + 1
    BY <1>1
  <2>2. \A i \in 1..Len(q) : i \in 1..(Len(q) + 1)
    BY <1>1
  <2>3. Len(q) + 1 \in 1..(Len(q) + 1)
    BY <1>1
  <2>4. QED
    BY <1>1, <2>1, <2>2, <2>3 DEF Elems
<1>6. ASSUME Rising(q), \A m \in Elems(q) : m.seq < x.seq PROVE Rising(r)
  <2> SUFFICES ASSUME NEW i \in 1..(Len(q) + 1), NEW j \in 1..(Len(q) + 1), i < j
               PROVE  r[i].seq < r[j].seq
    BY <1>1 DEF Rising
  <2>1. i \in 1..Len(q)
    BY <1>1
  <2>2. CASE j \in 1..Len(q)
    BY <1>1, <1>6, <2>1, <2>2 DEF Rising
  <2>3. CASE j = Len(q) + 1
    <3>1. r[i] \in Elems(q) /\ r[j] = x
      BY <1>1, <2>1, <2>3 DEF Elems
    <3>2. QED
      BY <1>6, <3>1
  <2>4. QED
    BY <1>1, <2>2, <2>3
<1>7. QED
  BY <1>1, <1>2, <1>3, <1>4, <1>5, <1>6 DEF r

----------------------------------------------------------------------------
(* One connection: the messages in flight rise in number, and a number is  *)
(* either in flight or lost, never both.                                   *)

Flight(c) == Elems(wire[c]) \cup Elems(send[c])
Good(m)   == m.type = "pitch" => m.pitch >= 1

\* Nothing has happened to a connection before its upgrade.
FreshInv(c) ==
  stage[c] \in {"free", "reserved"} =>
    send[c] = <<>> /\ wire[c] = <<>> /\ lost[c] = {} /\ ~up[c]

OrderInv(c) ==
  /\ Rising(send[c]) /\ Rising(wire[c])
  /\ \A w \in Elems(wire[c]), m \in Elems(send[c]) : w.seq < m.seq
  /\ \A m \in Flight(c) : m.seq <= nextSeq[c] /\ Good(m)
  /\ \A m \in lost[c] : /\ 1 <= m.seq /\ m.seq <= nextSeq[c] /\ m.pitch <= stored /\ Good(m)
                        /\ \A w \in Flight(c) : w.seq # m.seq

\* The first message in flight is the snapshot.
SnapshotNext(c) ==
  \/ wire[c] # <<>> /\ Head(wire[c]).seq = 0
  \/ wire[c] = <<>> /\ (~up[c] \/ (send[c] # <<>> /\ Head(send[c]).seq = 0))

\* What a browser that has read up to number s can rely on.
StreamOK(c, s) ==
  /\ s <= nextSeq[c]
  /\ \A m \in Flight(c) : s < m.seq
  /\ s = -1 => SnapshotNext(c)

\* What a step does to the data of connection c, besides the upgrade.
Same(c)     == /\ send'[c] = send[c] /\ wire'[c] = wire[c] /\ lost'[c] = lost[c]
               /\ nextSeq'[c] = nextSeq[c] /\ (up'[c] => up[c])
Numbers(c)  == /\ stage[c] = "open"
               /\ wire'[c] = wire[c] /\ (up'[c] => up[c]) /\ nextSeq'[c] = nextSeq[c] + 1
               /\ \E m \in Message :
                    /\ m.seq = nextSeq[c] + 1 /\ Good(m) /\ m.pitch <= stored
                    /\ \/ send'[c] = Append(send[c], m) /\ lost'[c] = lost[c]
                       \/ send'[c] = send[c] /\ lost'[c] = lost[c] \cup {m}
Moves(c)    == /\ send[c] # <<>> /\ up[c]
               /\ send'[c] = Tail(send[c])
               /\ wire'[c] = Append(wire[c], Head(send[c]))
               /\ lost'[c] = lost[c] /\ nextSeq'[c] = nextSeq[c]
Discards(c) == /\ send[c] # <<>> /\ ~up'[c]
               /\ send'[c] = Tail(send[c]) /\ wire'[c] = wire[c]
               /\ lost'[c] = lost[c] /\ nextSeq'[c] = nextSeq[c]
Breaks(c)   == /\ ~up'[c] /\ wire'[c] = <<>> /\ send'[c] = send[c]
               /\ lost'[c] = lost[c] /\ nextSeq'[c] = nextSeq[c]
Takes(c)    == /\ wire[c] # <<>> /\ wire'[c] = Tail(wire[c]) /\ send'[c] = send[c]
               /\ lost'[c] = lost[c] /\ nextSeq'[c] = nextSeq[c] /\ (up'[c] => up[c])

Effect(c) == Same(c) \/ Numbers(c) \/ Moves(c) \/ Discards(c) \/ Breaks(c)

\* The data of a connection, well typed.
DataOK(c) == /\ send[c] \in Seq(Message) /\ wire[c] \in Seq(Message)
             /\ lost[c] \subseteq Message /\ nextSeq[c] \in Nat

\* Types of the data, from the hub's type invariant.
LEMMA DataTypes == ASSUME HubTypeOK, NEW c \in Conn PROVE DataOK(c)
BY DEF HubTypeOK, QueuesOK, CountsOK, DataOK

\* A message's number and pitch are natural numbers.
LEMMA MessageFields ==
  ASSUME NEW m \in Message PROVE m.seq \in Nat /\ m.pitch \in 0..MaxPitches
BY StreamAssumption DEF Message

\* The elements of a queue of messages are messages.
LEMMA ElemsType == ASSUME NEW S, NEW q \in Seq(S) PROVE Elems(q) \subseteq S
BY DEF Elems

\* Every effect keeps the order of a connection's numbers and loses only a
\* number that is new.
LEMMA EffectKeepsOrder ==
  ASSUME NEW c \in Conn, DataOK(c), OrderInv(c), Effect(c) \/ Takes(c),
         stored \in Nat, stored' \in Nat, stored <= stored'
  PROVE  /\ OrderInv(c)'
         /\ \A m \in lost'[c] : m \in lost[c] \/ (Numbers(c) /\ m.seq = nextSeq[c] + 1)
<1> USE DEF OrderInv, Flight
<1>e. Elems(<<>>) = {} /\ Rising(<<>>)
  BY DEF Elems, Rising
<1>t. /\ \A m \in Elems(send[c]) \cup Elems(wire[c]) \cup lost[c] : m \in Message
      /\ \A m \in Message : m.seq \in Nat /\ m.pitch \in Nat
  BY ElemsType, MessageFields DEF DataOK
<1>s. send[c] # <<>> =>
        /\ Head(send[c]) \in Elems(send[c]) /\ Elems(Tail(send[c])) \subseteq Elems(send[c])
        /\ Rising(Tail(send[c]))
        /\ \A m \in Elems(Tail(send[c])) : Head(send[c]).seq < m.seq
  BY TakeHead DEF DataOK
<1>1. CASE Same(c)
  BY <1>1, <1>t DEF Same, DataOK
<1>2. CASE Numbers(c)
  <2>1. PICK m \in Message :
          /\ m.seq = nextSeq[c] + 1 /\ Good(m) /\ m.pitch <= stored
          /\ \/ send'[c] = Append(send[c], m) /\ lost'[c] = lost[c]
             \/ send'[c] = send[c] /\ lost'[c] = lost[c] \cup {m}
    BY <1>2 DEF Numbers
  <2>2. /\ wire'[c] = wire[c] /\ nextSeq'[c] = nextSeq[c] + 1 /\ nextSeq[c] \in Nat
    BY <1>2 DEF Numbers, DataOK
  <2>3. \A w \in Flight(c) : w.seq < m.seq
    BY <1>t, <2>1, <2>2
  <2>4. CASE send'[c] = Append(send[c], m) /\ lost'[c] = lost[c]
    <3>1. /\ Elems(send'[c]) = Elems(send[c]) \cup {m}
          /\ Rising(send'[c])
      BY <2>3, <2>4, AddLast DEF DataOK
    <3>2. QED
      BY <1>t, <2>1, <2>2, <2>3, <2>4, <3>1
  <2>5. CASE send'[c] = send[c] /\ lost'[c] = lost[c] \cup {m}
    BY <1>2, <1>t, <2>1, <2>2, <2>3, <2>5
  <2>6. QED
    BY <2>1, <2>4, <2>5
<1>3. CASE Moves(c)
  <2> DEFINE h == Head(send[c])
  <2>1. /\ Elems(wire'[c]) = Elems(wire[c]) \cup {h} /\ Rising(wire'[c])
    <3>1. h \in Message /\ \A w \in Elems(wire[c]) : w.seq < h.seq
      BY <1>3, <1>s, <1>t DEF Moves
    <3>2. QED
      BY <1>3, <3>1, AddLast DEF Moves, DataOK
  <2>2. Elems(wire'[c]) \cup Elems(send'[c]) \subseteq Flight(c)
    BY <1>3, <1>s, <2>1 DEF Moves
  <2>3. /\ Rising(send'[c]) /\ lost'[c] = lost[c] /\ nextSeq'[c] = nextSeq[c]
        /\ Elems(send'[c]) \subseteq Elems(send[c])
        /\ \A m \in Elems(send'[c]) : h.seq < m.seq
    BY <1>3, <1>s DEF Moves
  <2> HIDE DEF h
  <2>4. QED
    BY <1>t, <2>1, <2>2, <2>3
<1>4. CASE Discards(c)
  BY <1>4, <1>s, <1>t DEF Discards
<1>5. CASE Breaks(c)
  BY <1>5, <1>e, <1>t DEF Breaks
<1>6. CASE Takes(c)
  <2>1. Elems(wire'[c]) \subseteq Elems(wire[c]) /\ Rising(wire'[c])
    BY <1>6, TakeHead DEF Takes, DataOK
  <2>2. QED
    BY <1>6, <1>t, <2>1 DEF Takes
<1>7. QED
  BY <1>1, <1>2, <1>3, <1>4, <1>5, <1>6 DEF Effect

\* Every effect keeps what a browser relies on.
LEMMA EffectKeepsStream ==
  ASSUME NEW c \in Conn, NEW s \in Nat \cup {-1}, DataOK(c), OrderInv(c), StreamOK(c, s),
         Effect(c)
  PROVE  StreamOK(c, s)'
<1> USE DEF StreamOK, Flight
<1>e. Elems(<<>>) = {}
  BY DEF Elems
<1>t. \A m \in Flight(c) : m.seq \in Nat
  BY ElemsType, MessageFields DEF DataOK
<1>s. send[c] # <<>> =>
        Head(send[c]) \in Elems(send[c]) /\ Elems(Tail(send[c])) \subseteq Elems(send[c])
  BY TakeHead DEF DataOK
<1>1. CASE Same(c)
  BY <1>1 DEF Same, SnapshotNext
<1>2. CASE Numbers(c)
  <2>1. PICK m \in Message :
          /\ m.seq = nextSeq[c] + 1
          /\ send'[c] = Append(send[c], m) \/ send'[c] = send[c]
    BY <1>2 DEF Numbers
  <2>2. wire'[c] = wire[c] /\ nextSeq'[c] = nextSeq[c] + 1 /\ (up'[c] => up[c])
        /\ nextSeq[c] \in Nat
    BY <1>2 DEF Numbers, DataOK
  <2>3. Elems(send'[c]) \subseteq Elems(send[c]) \cup {m}
    <3>1. Elems(Append(send[c], m)) = Elems(send[c]) \cup {m}
      BY AddLast DEF DataOK
    <3>2. CASE send'[c] = Append(send[c], m)
      BY <3>1, <3>2
    <3>3. CASE send'[c] = send[c]
      BY <3>3
    <3>4. QED
      BY <2>1, <3>2, <3>3
  <2>4. send[c] # <<>> => send'[c] # <<>> /\ Head(send'[c]) = Head(send[c])
    BY <2>1, AddLast DEF DataOK
  <2>5. SnapshotNext(c) => SnapshotNext(c)'
    BY <2>2, <2>4 DEF SnapshotNext
  <2>6. s < m.seq /\ s <= nextSeq'[c]
    BY <2>1, <2>2
  <2>7. \A w \in Elems(wire'[c]) \cup Elems(send'[c]) : s < w.seq
    BY <2>2, <2>3, <2>6
  <2>8. QED
    BY <2>5, <2>6, <2>7
<1>3. CASE Moves(c)
  <2>1. /\ wire'[c] # <<>>
        /\ Elems(wire'[c]) = Elems(wire[c]) \cup {Head(send[c])}
        /\ wire[c] # <<>> => Head(wire'[c]) = Head(wire[c])
        /\ wire[c] = <<>> => Head(wire'[c]) = Head(send[c])
    <3>1. Head(send[c]) \in Message
      BY <1>3, <1>s, ElemsType DEF Moves, DataOK
    <3>2. QED
      BY <1>3, <3>1, AddLast DEF Moves, DataOK
  <2>2. SnapshotNext(c) => SnapshotNext(c)'
    BY <1>3, <2>1 DEF SnapshotNext, Moves
  <2>3. QED
    BY <1>3, <1>s, <2>1, <2>2 DEF Moves
<1>4. CASE Discards(c)
  BY <1>4, <1>s DEF Discards, SnapshotNext
<1>5. CASE Breaks(c)
  BY <1>5, <1>e DEF Breaks, SnapshotNext
<1>6. QED
  BY <1>1, <1>2, <1>3, <1>4, <1>5 DEF Effect

----------------------------------------------------------------------------
(* What the steps of the composition do to a connection.                   *)

\* An event on its way is about a pitch the fan-out has handled.
GoodEvent(e) == e.pitch <= fanned /\ Good(e)
FanInv == /\ \A e \in Elems(broadcastCh) : GoodEvent(e)
          /\ inHand # None => GoodEvent(inHand)

\* The hub sends numbered messages, each about a pitch in the table.
LEMMA HubNumbers ==
  ASSUME HubTypeOK, BaseOK, QueueInv, FanInv, NEW c \in Conn, NEW d \in Conn,
         Enqueue(c) \/ Notice(c)
  PROVE  Same(d) \/ Numbers(d)
<1>t. /\ send \in [Conn -> Seq(Message)] /\ lost \in [Conn -> SUBSET Message]
      /\ nextSeq \in [Conn -> Nat]
  BY DEF HubTypeOK, QueuesOK, CountsOK
<1>o. stage[c] = "open"
  BY HubAssumption DEF Enqueue, Notice, QueueInv
<1>u. UNCHANGED <<wire, up>> /\ nextSeq' = [nextSeq EXCEPT ![c] = @ + 1]
  BY DEF Enqueue, Notice, Spend
<1>m. ASSUME NEW m \in Message, m.seq = nextSeq[c] + 1, Good(m), m.pitch <= stored,
             \/ send' = [send EXCEPT ![c] = Append(@, m)] /\ UNCHANGED lost
             \/ lost' = [lost EXCEPT ![c] = @ \cup {m}] /\ UNCHANGED send
      PROVE  Same(d) \/ Numbers(d)
  <2>1. CASE d = c
    BY <1>t, <1>o, <1>u, <1>m, <2>1 DEF Numbers
  <2>2. CASE d # c
    BY <1>t, <1>u, <1>m, <2>2 DEF Same
  <2>3. QED
    BY <2>1, <2>2
<1>1. CASE Enqueue(c)
  <2> DEFINE m == Numbered(inHand.type, inHand.pitch, nextSeq[c] + 1)
  <2>1. inHand \in Event /\ GoodEvent(inHand) /\ fanned <= stored /\ fanned \in Nat
        /\ stored \in Nat
    BY <1>1, HubAssumption, StreamAssumption
       DEF Enqueue, HubTypeOK, HubStateOK, FanInv, BaseOK, TableOK
  <2>2. /\ m \in Message /\ m.seq = nextSeq[c] + 1 /\ Good(m) /\ m.pitch = inHand.pitch
    <3>1. m \in Message
      BY <1>t, <2>1, NumberedIsMessage DEF Event
    <3>2. QED
      BY <2>1, <3>1 DEF Numbered, GoodEvent, Good
  <2>3. inHand.pitch \in Nat /\ inHand.pitch <= stored
    BY <2>1, StreamAssumption DEF Event, GoodEvent
  <2>4. \/ send' = [send EXCEPT ![c] = Append(@, m)] /\ UNCHANGED lost
        \/ lost' = [lost EXCEPT ![c] = @ \cup {m}] /\ UNCHANGED send
    BY <1>1 DEF Enqueue
  <2> HIDE DEF m
  <2>5. QED
    BY <1>m, <2>2, <2>3, <2>4
<1>2. CASE Notice(c)
  <2> DEFINE m == Numbered("error", 0, nextSeq[c] + 1)
  <2>1. m \in Message /\ m.seq = nextSeq[c] + 1 /\ Good(m) /\ m.pitch = 0
    <3>1. nextSeq[c] + 1 \in Nat /\ 0 \in Index
      BY <1>t, HubAssumption
    <3>2. m \in Message
      BY <3>1, NumberedIsMessage
    <3>3. QED
      BY <3>2 DEF Numbered, Good
  <2>2. 0 <= stored
    BY StreamAssumption DEF BaseOK, TableOK
  <2>3. \/ send' = [send EXCEPT ![c] = Append(@, m)] /\ UNCHANGED lost
        \/ lost' = [lost EXCEPT ![c] = @ \cup {m}] /\ UNCHANGED send
    BY <1>2 DEF Notice
  <2> HIDE DEF m
  <2>4. QED
    BY <1>m, <2>1, <2>2, <2>3
<1>3. QED
  BY <1>1, <1>2

\* A step of a pump, or a break, moves, discards or keeps the messages.
LEMMA PumpEffect ==
  ASSUME HubTypeOK, NEW c \in Conn, NEW d \in Conn,
         WriterStep(c) \/ ReaderStep(c) \/ ConnFault(c)
  PROVE  Effect(d)
<1>t. /\ send \in [Conn -> Seq(Message)] /\ wire \in [Conn -> Seq(Message)]
      /\ up \in [Conn -> BOOLEAN]
  BY DEF HubTypeOK, QueuesOK, FlagsOK
<1> USE DEF Effect
<1>1. CASE WriteMessage(c)
  <2>1. /\ UNCHANGED <<lost, nextSeq>> /\ send[c] # <<>> /\ up[c]
        /\ send' = [send EXCEPT ![c] = Tail(@)]
        /\ wire' = [wire EXCEPT ![c] = Append(@, Head(send[c]))]
        /\ up' = up \/ up' = [up EXCEPT ![c] = FALSE]
    BY <1>1 DEF WriteMessage, WriterEnds
  <2>2. CASE d = c
    BY <1>t, <2>1, <2>2 DEF Moves
  <2>3. CASE d # c
    BY <1>t, <2>1, <2>3 DEF Same
  <2>4. QED
    BY <2>2, <2>3
<1>2. CASE WriteFails(c)
  <2>1. /\ UNCHANGED <<wire, lost, nextSeq>> /\ send[c] # <<>>
        /\ send' = [send EXCEPT ![c] = Tail(@)] /\ up' = [up EXCEPT ![c] = FALSE]
    BY <1>2 DEF WriteFails, WriterEnds
  <2>2. CASE d = c
    BY <1>t, <2>1, <2>2 DEF Discards
  <2>3. CASE d # c
    BY <1>t, <2>1, <2>3 DEF Same
  <2>4. QED
    BY <2>2, <2>3
<1>3. CASE Break(c)
  <2>1. /\ UNCHANGED <<send, lost, nextSeq>>
        /\ wire' = [wire EXCEPT ![c] = <<>>] /\ up' = [up EXCEPT ![c] = FALSE]
    BY <1>3 DEF Break
  <2>2. CASE d = c
    BY <1>t, <2>1, <2>2 DEF Breaks
  <2>3. CASE d # c
    BY <1>t, <2>1, <2>3 DEF Same
  <2>4. QED
    BY <2>2, <2>3
<1>4. ASSUME UNCHANGED <<send, wire, lost, nextSeq>>,
             UNCHANGED up \/ up' = [up EXCEPT ![c] = FALSE]
      PROVE  Effect(d)
  BY <1>t, <1>4 DEF Same
<1>5. ASSUME QueueEnds(c) \/ SlowClose(c) \/ GoingAway(c) \/ PingFails(c) \/ Expire(c)
      PROVE  Effect(d)
  <2>1. \E code : WriterStops(c, code)
    BY <1>5 DEF QueueEnds, SlowClose, GoingAway, PingFails, Expire
  <2>2. QED
    BY <1>4, <2>1 DEF WriterStops, WriterEnds
<1>6. CASE ReaderStep(c) \/ PongTimeout(c)
  BY <1>4, <1>6 DEF ReaderStep, ReadFails, PongTimeout, UnregisterLate, Remove, ReaderCloses,
                    ReaderMoves
<1>7. QED
  BY <1>1, <1>2, <1>3, <1>5, <1>6 DEF WriterStep, ConnFault

\* Of all steps, only an upgrade and a page's receipt are no effect.
LEMMA StepEffect ==
  ASSUME HubTypeOK, BaseOK, QueueInv, FanInv, [Next]_vars, NEW d \in Conn
  PROVE  \/ Effect(d) \/ Answer(d)
         \/ \E p \in Page : sock[p] = d /\ Receive(p) /\ Takes(d)
<1>t. /\ wire \in [Conn -> Seq(Message)] /\ up \in [Conn -> BOOLEAN]
      /\ send \in [Conn -> Seq(Message)]
      /\ \A p \in Page : sock[p] # None => sock[p] \in Conn
  BY DEF HubTypeOK, QueuesOK, FlagsOK, BaseOK, PagesOK
<1> USE DEF Effect
<1>1. ASSUME UNCHANGED <<send, wire, lost, nextSeq>>, \A c \in Conn : up'[c] => up[c]
      PROVE  Effect(d)
  BY <1>1 DEF Same
<1>2. CASE UNCHANGED vars \/ StorePitch \/ EndOuting
  BY <1>1, <1>2 DEF vars, hubVars, connVars, StorePitch, EndOuting
<1>3. CASE FanPitch \/ FanMetrics \/ FanAgain \/ FanAnomaly
  BY <1>1, <1>3, FanFrame DEF Publish, connVars
<1>4. CASE Deliver \/ Shutdown
  <2>1. CASE Broadcast \/ HubStop
    BY <1>1, <2>1 DEF Broadcast, HubStop, connVars
  <2>2. ASSUME NEW c \in Conn, Enqueue(c) \/ Notice(c) PROVE Effect(d)
    BY <2>2, HubNumbers
  <2>3. QED
    BY <1>4, <2>1, <2>2 DEF Deliver, Shutdown, HubStep
<1>5. ASSUME NEW c \in Conn, Answer(c), c # d PROVE Effect(d)
  <2>1. /\ UNCHANGED <<wire, lost>> /\ up' = [up EXCEPT ![c] = TRUE]
        /\ \E q : send' = [send EXCEPT ![c] = q]
        /\ \E n : nextSeq' = [nextSeq EXCEPT ![c] = n]
    <3>1. CASE UpgradeClosed(c, stored)
      BY <3>1 DEF UpgradeClosed
    <3>2. CASE Upgrade(c, stored)
      <4>1. nextSeq' = [nextSeq EXCEPT ![c] = nextSeq[c]]
        BY <3>2 DEF Upgrade, HubTypeOK, CountsOK
      <4>2. QED
        BY <3>2, <4>1 DEF Upgrade
    <3>3. QED
      BY <1>5, <3>1, <3>2 DEF Answer
  <2>2. send'[d] = send[d] /\ up'[d] = up[d] /\ nextSeq'[d] = nextSeq[d]
    BY <1>5, <1>t, <2>1 DEF HubTypeOK, CountsOK
  <2>3. QED
    BY <2>1, <2>2 DEF Same
<1>6. ASSUME NEW c \in Conn,
             HandshakeFails(c) \/ Register(c) \/ RegisterRefused(c) \/ Reserve(c)
      PROVE  Effect(d)
  <2>1. UNCHANGED <<send, wire, lost, nextSeq>>
    BY <1>6 DEF HandshakeFails, Register, RegisterRefused, Reserve
  <2>2. UNCHANGED up \/ up' = [up EXCEPT ![c] = FALSE]
    BY <1>6 DEF HandshakeFails, Register, RegisterRefused, Reserve
  <2>3. QED
    BY <1>1, <1>t, <2>1, <2>2
<1>7. ASSUME NEW c \in Conn, ServerStep(c) PROVE Effect(d)
  BY <1>6, <1>7, PumpEffect DEF ServerStep, ConnFault
<1>8. ASSUME NEW p \in Page, Receive(p)
      PROVE  Effect(d) \/ (sock[p] = d /\ Takes(d))
  <2>1. /\ sock[p] \in Conn /\ UNCHANGED <<send, lost, nextSeq, up>>
        /\ wire[sock[p]] # <<>> /\ wire' = [wire EXCEPT ![sock[p]] = Tail(@)]
    BY <1>8, <1>t DEF Receive, TakeFrame
  <2>2. CASE sock[p] = d
    BY <1>t, <2>1, <2>2 DEF Takes
  <2>3. CASE sock[p] # d
    BY <1>t, <2>1, <2>3 DEF Same
  <2>4. QED
    BY <2>2, <2>3
<1>9. ASSUME NEW p \in Page, LeaveAndReturn(p) PROVE Effect(d)
  <2>1. \/ HandshakeFails(sock[p]) \/ Break(sock[p]) \/ UNCHANGED hubVars
    BY <1>9 DEF LeaveAndReturn
  <2>2. sock[p] \in Conn
    BY <1>9, <1>t DEF LeaveAndReturn
  <2>3. CASE UNCHANGED hubVars
    BY <1>1, <2>3 DEF hubVars, connVars
  <2>4. QED
    BY <1>6, <2>1, <2>2, <2>3, PumpEffect DEF ConnFault
<1>10. ASSUME NEW p \in Page, DialRefused(p) \/ Open(p) \/ Disconnected(p) \/ ReadStep(p)
       PROVE  Effect(d)
  BY <1>1, <1>10, ReadFrame DEF DialRefused, Open, Disconnected, hubVars, connVars
<1>11. ASSUME NEW p \in Page, NEW c \in Conn, Dial(p, c) PROVE Effect(d)
  BY <1>6, <1>11 DEF Dial
<1>12. QED
  BY <1>2, <1>3, <1>4, <1>5, <1>7, <1>8, <1>9, <1>10, <1>11 DEF Next, PageStep

\* A connection goes from free to reserved and never back to either.
LEMMA StageMoves ==
  ASSUME HubTypeOK, [HubNext]_hubVars, NEW d \in Conn
  PROVE  /\ stage'[d] = "free" => stage[d] = "free"
         /\ stage'[d] = "reserved" => stage[d] \in {"free", "reserved"}
<1>t. stage \in [Conn -> {"free", "reserved", "joining", "open", "refused"}]
  BY DEF HubTypeOK, FlagsOK
<1>1. \/ UNCHANGED stage
      \/ \E c \in Conn, t \in {"reserved", "joining", "open", "refused"} :
           /\ stage' = [stage EXCEPT ![c] = t]
           /\ t = "reserved" => stage[c] = "free"
  <2>1. ASSUME NEW c \in Conn, Reserve(c) PROVE <1>1!2
    BY <2>1 DEF Reserve
  <2>2. ASSUME NEW c \in Conn, Handshake(c) PROVE <1>1!2
    BY <2>2 DEF Handshake, Upgrade, UpgradeClosed, HandshakeFails, Register, RegisterRefused
  <2>3. ASSUME NEW c \in Conn,
               WriterStep(c) \/ ReaderStep(c) \/ ConnFault(c) \/ TakeFrame(c)
        PROVE  UNCHANGED stage
    BY <2>3 DEF WriterStep, WriteMessage, WriteFails, QueueEnds, SlowClose, GoingAway,
                PingFails, WriterStops, ReaderStep, ReadFails, UnregisterLate, Remove,
                ReaderCloses, ReaderMoves, ConnFault, Expire, PongTimeout, Break, TakeFrame
  <2>4. ASSUME \/ UNCHANGED hubVars \/ HubStep \/ HubStop \/ \E e \in Event : Publish(e)
        PROVE  UNCHANGED stage
    BY <2>4 DEF hubVars, connVars, HubStep, Broadcast, Enqueue, Notice, HubStop, Publish
  <2>5. QED
    BY <2>1, <2>2, <2>3, <2>4 DEF HubNext
<1>2. QED
  BY <1>t, <1>1

\* The handshake's first messages are in order, and the snapshot is the first.
LEMMA AnswerStarts ==
  ASSUME HubTypeOK, BaseOK, NEW c \in Conn, FreshInv(c), Answer(c)
  PROVE  FreshInv(c)' /\ OrderInv(c)' /\ StreamOK(c, -1)' /\ lost'[c] = {}
<1>t. /\ stage \in [Conn -> {"free", "reserved", "joining", "open", "refused"}]
      /\ send \in [Conn -> Seq(Message)] /\ nextSeq \in [Conn -> Nat]
  BY DEF HubTypeOK, QueuesOK, CountsOK, FlagsOK
<1>e. /\ Elems(<<>>) = {} /\ Rising(<<>>)
      /\ \A x : Elems(<<x>>) = {x} /\ Rising(<<x>>) /\ Head(<<x>>) = x /\ <<x>> # <<>>
      /\ \A x, y : /\ Elems(<<x, y>>) = {x, y} /\ Head(<<x, y>>) = x /\ <<x, y>> # <<>>
                   /\ x.seq < y.seq => Rising(<<x, y>>)
  BY DEF Elems, Rising
<1>1. /\ stage[c] = "reserved" /\ wire[c] = <<>> /\ lost[c] = {}
      /\ UNCHANGED <<wire, lost>>
  BY DEF Answer, Upgrade, UpgradeClosed, FreshInv
<1>2. PICK m : m = Numbered("snapshot", stored, 0)
  OBVIOUS
<1>3. PICK x : x = Numbered("closed", 0, 1)
  OBVIOUS
<1>4. m.seq = 0 /\ x.seq = 1 /\ Good(m) /\ Good(x)
  BY <1>2, <1>3 DEF Numbered, Good
<1>5. CASE Upgrade(c, stored)
  <2>1. /\ stage'[c] = "joining" /\ send'[c] = <<m>> /\ nextSeq'[c] = nextSeq[c]
    BY <1>t, <1>2, <1>5 DEF Upgrade
  <2>2. nextSeq[c] \in Nat
    BY <1>t
  <2>3. OrderInv(c)'
    BY <1>e, <1>1, <1>4, <2>1, <2>2 DEF OrderInv, Flight
  <2>4. StreamOK(c, -1)'
    BY <1>e, <1>1, <1>4, <2>1, <2>2 DEF StreamOK, SnapshotNext, Flight
  <2>5. QED
    BY <1>1, <2>1, <2>3, <2>4 DEF FreshInv
<1>6. CASE UpgradeClosed(c, stored)
  <2>1. /\ stage'[c] = "open" /\ send'[c] = <<m, x>> /\ nextSeq'[c] = 1
    BY <1>t, <1>2, <1>3, <1>6 DEF UpgradeClosed
  <2>2. Elems(<<m, x>>) = {m, x} /\ Head(<<m, x>>) = m /\ <<m, x>> # <<>>
        /\ Rising(<<m, x>>)
    BY <1>e, <1>4
  <2>3. OrderInv(c)'
    BY <1>e, <1>1, <1>4, <2>1, <2>2 DEF OrderInv, Flight
  <2>4. StreamOK(c, -1)'
    BY <1>e, <1>1, <1>4, <2>1, <2>2 DEF StreamOK, SnapshotNext, Flight
  <2>5. QED
    BY <1>1, <2>1, <2>3, <2>4 DEF FreshInv
<1>7. QED
  BY <1>5, <1>6 DEF Answer

----------------------------------------------------------------------------
(* Pages.                                                                  *)

\* The last number page p has read on its connection.
Seen(p) == IF opened[p] THEN lastSeq[p] ELSE -1

\* Whether a read the page needs has not seen the table: it was given up, was not
\* begun, or is still to run its query.
Blind(p) == unread[p] \/ (asked[p] /\ query[p] = -1)

\* The last pitch the page's latest read has seen.
Sight(p) == IF asked[p] THEN query[p] ELSE fetched[p]

PageInv(p) ==
  sock[p] # None =>
    /\ stage[sock[p]] # "free"
    /\ stage[sock[p]] = "reserved" => ~opened[p]
    /\ \A q \in Page : q # p => sock[q] # sock[p]
    /\ StreamOK(sock[p], Seen(p))
    /\ opened[p] /\ ~Blind(p) =>
         \A m \in lost[sock[p]] : m.seq <= lastSeq[p] => m.pitch <= Sight(p)

\* What a page keeps of the stream.
FeedList == {q \in Seq(1..MaxPitches) : Len(q) <= FeedLimit}

\* The inductive invariant of the composition.
StreamInv ==
  /\ FanInv
  /\ \A c \in Conn : FreshInv(c) /\ OrderInv(c)
  /\ \A p \in Page : PageInv(p)
  /\ pitches \in [Page -> FeedList]

\* Every step keeps the fan-out's part of the invariant.
LEMMA FanStep == HubTypeOK /\ BaseOK /\ FanInv /\ [Next]_vars => FanInv'
<1> SUFFICES ASSUME HubTypeOK, BaseOK, FanInv, [Next]_vars PROVE FanInv'
  OBVIOUS
<1>t. /\ broadcastCh \in Seq(Event) /\ inHand \in Event \cup {None}
      /\ \A e \in Event : e.pitch \in Nat /\ e # None
      /\ fanned \in Nat
      /\ \A e \in Elems(broadcastCh) : e \in Event
      /\ \A p \in Page : sock[p] # None => sock[p] \in Conn
  <2>1. broadcastCh \in Seq(Event) /\ inHand \in Event \cup {None}
    BY DEF HubTypeOK, HubStateOK
  <2>2. \A e \in Event : e.pitch \in Nat /\ e # None
    BY HubAssumption, StreamAssumption DEF Event
  <2>3. fanned \in Nat
    BY StreamAssumption DEF BaseOK, TableOK
  <2>4. \A e \in Elems(broadcastCh) : e \in Event
    BY <2>1, ElemsType
  <2>5. \A p \in Page : sock[p] # None => sock[p] \in Conn
    BY DEF BaseOK, PagesOK
  <2>6. QED
    BY <2>1, <2>2, <2>3, <2>4, <2>5
<1> USE DEF FanInv, GoodEvent
<1>1. ASSUME Elems(broadcastCh') \subseteq Elems(broadcastCh),
             inHand' = None \/ inHand' = inHand \/ inHand' \in Elems(broadcastCh),
             UNCHANGED fanned
      PROVE  FanInv'
  BY <1>1
<1>2. CASE FanPitch \/ FanMetrics \/ FanAgain \/ FanAnomaly
  <2>1. PICK e : /\ e \in Event /\ Publish(e) /\ Good(e)
                 /\ e.pitch <= fanned' /\ fanned <= fanned' /\ fanned' \in Nat
    <3>1. CASE FanPitch
      <4>1. [type |-> "pitch", pitch |-> fanned + 1] \in Event
        BY <3>1, StreamAssumption DEF FanPitch, Event, EventType, BaseOK, TableOK
      <4>2. QED
        BY <1>t, <3>1, <4>1 DEF FanPitch, Fan, Good
    <3>2. CASE FanMetrics \/ FanAnomaly
      <4>1. /\ [type |-> "metrics", pitch |-> 0] \in Event
            /\ [type |-> "anomaly", pitch |-> 0] \in Event
        BY HubAssumption DEF Event, EventType
      <4>2. QED
        BY <1>t, <3>2, <4>1 DEF FanMetrics, FanAnomaly, Fan, Good
    <3>3. CASE FanAgain
      <4>1. [type |-> "pitch", pitch |-> fanned] \in Event
        BY StreamAssumption DEF Event, EventType, BaseOK, TableOK
      <4>2. QED
        BY <1>t, <3>3, <4>1 DEF FanAgain, Fan, Good
    <3>4. QED
      BY <1>2, <3>1, <3>2, <3>3
  <2>2. Elems(broadcastCh') \subseteq Elems(broadcastCh) \cup {e} /\ inHand' = inHand
    BY <1>t, <2>1, AddLast DEF Publish, Queued
  <2>3. QED
    BY <1>t, <2>1, <2>2
<1>3. CASE Broadcast /\ UNCHANGED fanned
  BY <1>t, <1>1, <1>3, TakeHead DEF Broadcast
<1>4. ASSUME UNCHANGED <<broadcastCh, fanned>>, inHand' = None \/ inHand' = inHand
      PROVE  FanInv'
  BY <1>1, <1>4
<1>5. CASE Deliver \/ Shutdown
  BY <1>3, <1>4, <1>5
     DEF Deliver, Shutdown, Elsewhere, fanVars, HubStep, Enqueue, Notice, HubStop
<1>6. CASE UNCHANGED vars \/ StorePitch \/ EndOuting
  BY <1>4, <1>6 DEF vars, hubVars, hubState, fanVars, StorePitch, EndOuting
<1>7. ASSUME UNCHANGED fanVars,
             \E c \in Conn :
               \/ Reserve(c) \/ HandshakeFails(c) \/ Register(c) \/ RegisterRefused(c)
               \/ \E last \in Index : Upgrade(c, last) \/ UpgradeClosed(c, last)
               \/ WriterStep(c) \/ ReaderStep(c) \/ ConnFault(c) \/ TakeFrame(c)
      PROVE  FanInv'
  BY <1>4, <1>7, HubUntouched DEF fanVars, hubState, Register, ReaderStep, Remove
<1>8. ASSUME NEW c \in Conn, Answer(c) \/ ServerStep(c) PROVE FanInv'
  <2>1. stored \in Index
    BY StreamAssumption DEF BaseOK, TableOK
  <2>2. QED
    BY <1>7, <1>8, <2>1 DEF Answer, ServerStep, Elsewhere, ConnFault
<1>9. ASSUME NEW p \in Page, PageStep(p) PROVE FanInv'
  <2>1. UNCHANGED fanVars
    BY <1>9, ReadFrame DEF PageStep, Dial, DialRefused, Open, Receive, Disconnected,
                           LeaveAndReturn
  <2>2. CASE UNCHANGED hubVars
    BY <1>4, <2>1, <2>2 DEF hubVars, hubState, fanVars
  <2>3. \/ UNCHANGED hubVars
        \/ \E c \in Conn : Reserve(c) \/ HandshakeFails(c) \/ ConnFault(c) \/ TakeFrame(c)
    BY <1>t, <1>9, ReadFrame DEF PageStep, Dial, DialRefused, Open, Receive, Disconnected,
                                 LeaveAndReturn, ConnFault
  <2>4. QED
    BY <1>7, <2>1, <2>2, <2>3
<1>10. QED
  BY <1>2, <1>5, <1>6, <1>8, <1>9 DEF Next

\* The table only grows.
LEMMA StoredGrows ==
  ASSUME BaseOK, [Next]_vars
  PROVE  stored \in Nat /\ stored' \in Nat /\ stored <= stored'
<1>1. stored \in Nat
  BY StreamAssumption DEF BaseOK, TableOK
<1>2. stored' = stored \/ stored' = stored + 1
  <2>1. CASE StorePitch
    BY <2>1 DEF StorePitch
  <2>2. CASE FanPitch \/ FanMetrics \/ FanAgain \/ FanAnomaly
    BY <2>2, FanFrame DEF tableVars
  <2>3. CASE EndOuting \/ Deliver \/ Shutdown \/ UNCHANGED vars
    BY <2>3 DEF EndOuting, Deliver, Shutdown, Elsewhere, tableVars, vars
  <2>4. ASSUME NEW c \in Conn, Answer(c) \/ ServerStep(c) PROVE stored' = stored
    BY <2>4 DEF Answer, ServerStep, Elsewhere, tableVars
  <2>5. ASSUME NEW p \in Page, PageStep(p) PROVE stored' = stored
    BY <2>5, ReadFrame DEF PageStep, Dial, DialRefused, Open, Receive, Disconnected,
                           LeaveAndReturn, tableVars
  <2>6. QED
    BY <2>1, <2>2, <2>3, <2>4, <2>5 DEF Next
<1>3. QED
  BY <1>1, <1>2

\* Every step keeps every connection's part of the invariant, and loses only
\* a number that is new.
LEMMA ConnStep ==
  ASSUME HubTypeOK, BaseOK, QueueInv, StreamInv, [Next]_vars, NEW c \in Conn
  PROVE  /\ FreshInv(c)' /\ OrderInv(c)'
         /\ \A m \in lost'[c] : m \in lost[c] \/ m.seq = nextSeq[c] + 1
<1>1. DataOK(c) /\ FreshInv(c) /\ OrderInv(c) /\ FanInv
  BY DataTypes DEF StreamInv
<1>2. CASE Answer(c)
  BY <1>1, <1>2, AnswerStarts
<1>3. CASE Effect(c) \/ Takes(c)
  <2>1. /\ OrderInv(c)'
        /\ \A m \in lost'[c] : m \in lost[c] \/ m.seq = nextSeq[c] + 1
    BY <1>1, <1>3, EffectKeepsOrder, StoredGrows
  <2>2. FreshInv(c)'
    <3> SUFFICES ASSUME stage'[c] \in {"free", "reserved"}
                 PROVE  send'[c] = <<>> /\ wire'[c] = <<>> /\ lost'[c] = {} /\ ~up'[c]
      BY DEF FreshInv
    <3>1. stage[c] \in {"free", "reserved"}
      BY StageMoves, StepIsHubStep
    <3>2. send[c] = <<>> /\ wire[c] = <<>> /\ lost[c] = {} /\ ~up[c]
      BY <1>1, <3>1 DEF FreshInv
    <3>3. QED
      BY <1>3, <3>1, <3>2 DEF Effect, Same, Numbers, Moves, Discards, Breaks, Takes
  <2>3. QED
    BY <2>1, <2>2
<1>4. QED
  BY <1>1, <1>2, <1>3, StepEffect

\* Every step keeps the pages' part of the invariant.
LEMMA PagesStep ==
  ASSUME HubTypeOK, BaseOK, QueueInv, StreamInv, [Next]_vars, NEW p \in Page
  PROVE  PageInv(p)'
<1>c. PICK c : c = sock[p]
  OBVIOUS
<1>t. /\ sock \in [Page -> Conn \cup {None}] /\ opened \in [Page -> BOOLEAN]
      /\ lastSeq \in [Page -> Nat \cup {-1}] /\ asked \in [Page -> BOOLEAN]
      /\ unread \in [Page -> BOOLEAN]
      /\ query \in [Page -> -1..MaxPitches] /\ fetched \in [Page -> -1..MaxPitches]
      /\ None \notin Conn
  BY HubAssumption DEF BaseOK, PagesOK
<1>d. \A q \in Page : sock[q] # None => sock[q] \in Conn /\ stage[sock[q]] # "free"
                      /\ \A r \in Page : r # q => sock[r] # sock[q]
  BY <1>t DEF StreamInv, PageInv
<1>s. Seen(p) \in Nat \cup {-1}
  BY <1>t DEF Seen
\* A page that asks has nothing to show for it yet.
<1>a. Ask(p) => Blind(p)'
  BY <1>t DEF Ask, Blind
\* Sockets of other pages stay, end, or are new.
<1>o. ASSUME NEW q \in Page
      PROVE  \/ sock'[q] = sock[q] \/ sock'[q] = None
             \/ \E d \in Conn : Dial(q, d)
  <2>1. CASE UNCHANGED sock
    BY <2>1
  <2>2. ASSUME NEW r \in Page, NEW d \in Conn, Dial(r, d)
        PROVE  sock'[q] = sock[q] \/ (r = q /\ Dial(q, d))
    BY <1>t, <2>2 DEF Dial
  <2>3. ASSUME NEW r \in Page, Disconnected(r) \/ LeaveAndReturn(r)
        PROVE  sock'[q] = sock[q] \/ sock'[q] = None
    BY <1>t, <2>3 DEF Disconnected, LeaveAndReturn
  <2>4. ASSUME NEW r \in Page, DialRefused(r) \/ Open(r) \/ Receive(r) \/ ReadStep(r)
        PROVE  UNCHANGED sock
    BY <2>4, ReadFrame DEF DialRefused, Open, Receive
  <2>5. ASSUME NEW d \in Conn, Answer(d) \/ ServerStep(d) PROVE UNCHANGED sock
    BY <2>5 DEF Answer, ServerStep, Elsewhere, pageVars
  <2>6. CASE FanPitch \/ FanMetrics \/ FanAgain \/ FanAnomaly
    BY <2>6, FanFrame DEF pageVars
  <2>7. CASE StorePitch \/ EndOuting \/ Deliver \/ Shutdown \/ UNCHANGED vars
    BY <2>7 DEF StorePitch, EndOuting, Deliver, Shutdown, Elsewhere, pageVars, vars
  <2>8. QED
    BY <2>1, <2>2, <2>3, <2>4, <2>5, <2>6, <2>7 DEF Next, PageStep
\* A page that keeps its socket.
<1>k. ASSUME c # None, sock'[p] = c, Seen(p)' = Seen(p),
             opened'[p] => opened[p] \/ stage[c] # "reserved",
             Effect(c) \/ Answer(c),
             opened'[p] /\ ~Blind(p)' =>
               \A m \in lost[c] : m.seq <= lastSeq'[p] => m.pitch <= Sight(p)'
      PROVE  PageInv(p)'
  <2>1. /\ c \in Conn /\ PageInv(p) /\ DataOK(c) /\ FreshInv(c) /\ OrderInv(c)
    BY <1>c, <1>d, <1>k, DataTypes DEF StreamInv
  <2>2. StreamOK(c, Seen(p))
    BY <1>c, <1>k, <2>1 DEF PageInv
  <2>3. StreamOK(sock[p], Seen(p))'
    <3>1. CASE Effect(c)
      <4>1. PICK s \in Nat \cup {-1} : s = Seen(p)
        BY <1>s
      <4>2. StreamOK(c, s)'
        BY <2>1, <2>2, <3>1, <4>1, EffectKeepsStream
      <4>3. QED
        BY <1>k, <4>1, <4>2 DEF StreamOK
    <3>2. CASE Answer(c)
      <4>1. Seen(p) = -1
        BY <1>c, <1>k, <2>1, <3>2 DEF Answer, Upgrade, UpgradeClosed, PageInv, Seen
      <4>2. StreamOK(c, -1)'
        BY <2>1, <3>2, AnswerStarts
      <4>3. QED
        BY <1>k, <4>1, <4>2 DEF StreamOK
    <3>3. QED
      BY <1>k, <3>1, <3>2
  <2>4. \A q \in Page : q # p => sock'[q] # c
    <3> SUFFICES ASSUME NEW q \in Page, q # p, sock'[q] = c PROVE FALSE
      OBVIOUS
    <3>1. sock[q] # c /\ stage[c] # "free" /\ c # None
      BY <1>c, <1>d, <1>k
    <3>2. PICK d \in Conn : Dial(q, d)
      BY <1>k, <1>o, <3>1
    <3>3. sock'[q] = d /\ stage[d] = "free"
      BY <1>t, <3>2 DEF Dial, NextConn
    <3>4. QED
      BY <3>1, <3>3
  <2>5. stage'[c] # "free" /\ (stage'[c] = "reserved" => ~opened'[p])
    <3>1. stage[c] # "free" /\ (stage[c] = "reserved" => ~opened[p])
      BY <1>c, <1>k, <2>1 DEF PageInv
    <3>2. stage'[c] # "free" /\ (stage'[c] = "reserved" => stage[c] = "reserved")
      BY <2>1, <3>1, StageMoves, StepIsHubStep
    <3>3. QED
      BY <1>k, <3>1, <3>2
  <2>6. opened'[p] /\ ~Blind(p)' =>
          \A m \in lost'[c] : m.seq <= lastSeq'[p] => m.pitch <= Sight(p)'
    <3> SUFFICES ASSUME opened'[p], ~Blind(p)', NEW m \in lost'[c], m.seq <= lastSeq'[p]
                 PROVE  m.pitch <= Sight(p)'
      OBVIOUS
    <3>1. lastSeq'[p] = Seen(p) /\ Seen(p) <= nextSeq[c] /\ nextSeq[c] \in Nat
      BY <1>k, <2>1, <2>2 DEF Seen, StreamOK, DataOK
    <3>2. m \in lost[c]
      BY <1>s, <2>1, <3>1, ConnStep
    <3>3. QED
      BY <1>k, <3>2
  <2>7. QED
    BY <1>k, <2>3, <2>4, <2>5, <2>6 DEF PageInv
\* A page none of whose variables changes.
<1>u. ASSUME sock'[p] = c, opened'[p] = opened[p], lastSeq'[p] = lastSeq[p],
             Blind(p)' = Blind(p), Sight(p)' = Sight(p), ~Receive(p)
      PROVE  PageInv(p)'
  <2>1. CASE c = None
    BY <1>u, <2>1 DEF PageInv
  <2>2. CASE c # None
    <3>1. Effect(c) \/ Answer(c)
      <4>1. c \in Conn /\ FanInv
        BY <1>c, <1>d, <2>2 DEF StreamInv
      <4>2. \A q \in Page : sock[q] = c => q = p
        BY <1>c, <1>d, <2>2
      <4>3. QED
        BY <1>u, <4>1, <4>2, StepEffect
    <3>2. Seen(p)' = Seen(p)
      BY <1>u DEF Seen
    <3>3. opened[p] /\ ~Blind(p) =>
            \A m \in lost[c] : m.seq <= lastSeq[p] => m.pitch <= Sight(p)
      BY <1>c, <2>2 DEF StreamInv, PageInv
    <3>4. QED
      BY <1>k, <1>u, <2>2, <3>1, <3>2, <3>3
  <2>3. QED
    BY <2>1, <2>2
\* The steps of the page itself.
<1>h. ASSUME c # None, UNCHANGED hubVars PROVE Effect(c)
  BY <1>h DEF hubVars, connVars, Effect, Same
<1>1. ASSUME NEW d \in Conn, Dial(p, d) PROVE PageInv(p)'
  <2>1. /\ sock'[p] = d /\ opened'[p] = FALSE /\ stage'[d] = "reserved" /\ stage[d] = "free"
    BY <1>t, <1>1 DEF Dial, Reserve, HubTypeOK, FlagsOK
  <2>2. \A q \in Page : q # p => sock'[q] # d
    <3>1. \A q \in Page : q # p => sock'[q] = sock[q]
      BY <1>t, <1>1 DEF Dial
    <3>2. QED
      BY <1>d, <2>1, <3>1, HubAssumption
  <2>3. StreamOK(d, -1)'
    <3>1. /\ send[d] = <<>> /\ wire[d] = <<>> /\ ~up[d] /\ nextSeq[d] \in Nat
      BY <2>1, DataTypes DEF StreamInv, FreshInv, DataOK
    <3>2. UNCHANGED <<send, wire, up, nextSeq>>
      BY <1>1 DEF Dial, Reserve
    <3>3. Elems(<<>>) = {}
      BY DEF Elems
    <3>4. QED
      BY <3>1, <3>2, <3>3 DEF StreamOK, SnapshotNext, Flight
  <2>4. Seen(p)' = -1
    BY <2>1 DEF Seen
  <2>5. QED
    BY <2>1, <2>2, <2>3, <2>4 DEF PageInv, StreamOK
<1>2. CASE Open(p)
  <2>1. /\ c # None /\ UNCHANGED hubVars /\ sock'[p] = c /\ ~opened[p] /\ stage[c] # "reserved"
        /\ opened'[p] = TRUE /\ lastSeq'[p] = -1
    BY <1>c, <1>t, <1>2 DEF Open
  <2>2. Seen(p)' = Seen(p)
    BY <2>1 DEF Seen
  <2>3. \A m \in lost[c] : ~(m.seq <= -1)
    <3>1. c \in Conn
      BY <1>c, <1>d, <2>1
    <3>2. \A m \in lost[c] : 1 <= m.seq /\ m.seq \in Nat
      BY <3>1, DataTypes, MessageFields DEF StreamInv, OrderInv, DataOK
    <3>3. QED
      BY <3>2
  <2>4. QED
    BY <1>h, <1>k, <2>1, <2>2, <2>3
<1>3. CASE Receive(p)
  <2>m. PICK m : m = Head(wire[c])
    OBVIOUS
  <2>1. /\ c \in Conn /\ wire[c] # <<>> /\ opened[p] /\ TakeFrame(c)
    BY <1>c, <1>t, <1>3 DEF Receive, TakeFrame
  <2>2. /\ sock'[p] = c /\ opened'[p] = opened[p] /\ lastSeq'[p] = m.seq
        /\ IF Skipped(p, m) > 0 THEN Blind(p)'
           ELSE Blind(p)' = Blind(p) /\ Sight(p)' = Sight(p)
        /\ stage' = stage /\ send' = send /\ lost' = lost /\ nextSeq' = nextSeq
        /\ wire'[c] = Tail(wire[c])
    <3>1. wire' = [wire EXCEPT ![c] = Tail(@)] /\ wire \in [Conn -> Seq(Message)]
      BY <2>1 DEF TakeFrame, HubTypeOK, QueuesOK
    <3>2. UNCHANGED <<stage, send, lost, nextSeq>>
      BY <2>1 DEF TakeFrame
    <3>3. /\ sock'[p] = c /\ opened'[p] = opened[p] /\ lastSeq'[p] = m.seq
          /\ IF Skipped(p, m) > 0 THEN Ask(p) ELSE UNCHANGED readVars
      BY <1>c, <1>t, <1>3, <2>m DEF Receive
    <3>4. UNCHANGED readVars => Blind(p)' = Blind(p) /\ Sight(p)' = Sight(p)
      BY DEF readVars, Blind, Sight
    <3>5. QED
      BY <1>a, <2>1, <3>1, <3>2, <3>3, <3>4
  <2>3. /\ DataOK(c) /\ OrderInv(c) /\ StreamOK(c, Seen(p)) /\ Seen(p) = lastSeq[p]
        /\ lastSeq[p] \in Nat \cup {-1} /\ stage[c] # "free" /\ stage[c] # "reserved"
    <3>1. PageInv(p) /\ OrderInv(c) /\ DataOK(c)
      BY <2>1, DataTypes DEF StreamInv
    <3>2. QED
      BY <1>c, <1>t, <2>1, <3>1, HubAssumption DEF PageInv, Seen
  <2>4. /\ m \in Elems(wire[c]) /\ m \in Message /\ m.seq \in Nat
        /\ Elems(Tail(wire[c])) \subseteq Elems(wire[c])
        /\ \A w \in Elems(Tail(wire[c])) : m.seq < w.seq
    BY <2>m, <2>1, <2>3, TakeHead, MessageFields DEF DataOK, OrderInv
  <2>5. /\ lastSeq[p] < m.seq /\ m.seq <= nextSeq[c] /\ (lastSeq[p] = -1 => m.seq = 0)
    <3>1. m \in Flight(c)
      BY <2>4 DEF Flight
    <3>2. QED
      BY <2>m, <2>1, <2>3, <3>1 DEF StreamOK, OrderInv, SnapshotNext
  <2>6. StreamOK(c, m.seq)'
    <3>1. \A w \in Elems(send[c]) : m.seq < w.seq
      BY <2>3, <2>4 DEF OrderInv
    <3>2. m.seq # -1
      BY <2>4
    <3>3. QED
      BY <2>2, <2>4, <2>5, <3>1, <3>2 DEF StreamOK, Flight
  <2>7. ASSUME ~Blind(p)', NEW l \in lost[c], l.seq <= m.seq PROVE l.pitch <= Sight(p)'
    <3>1. ~Blind(p) /\ ~(Skipped(p, m) > 0) /\ Sight(p)' = Sight(p)
      BY <2>2, <2>7
    <3>2. 1 <= l.seq /\ l.seq \in Nat /\ l.seq # m.seq
      <4>1. m \in Flight(c)
        BY <2>4 DEF Flight
      <4>2. l \in Message
        BY <2>3 DEF DataOK
      <4>3. QED
        BY <2>3, <4>1, <4>2, MessageFields DEF OrderInv
    <3>3. lastSeq[p] \in Nat
      BY <2>3, <2>4, <2>5, <2>7, <3>2
    <3>4. m.seq <= lastSeq[p] + 1
      BY <2>4, <3>1, <3>3 DEF Skipped
    <3>5. l.seq <= lastSeq[p]
      BY <2>4, <2>7, <3>2, <3>3, <3>4
    <3>6. QED
      BY <1>c, <1>t, <2>1, <3>1, <3>5 DEF StreamInv, PageInv
  <2>8. \A q \in Page : q # p => sock'[q] # c
    BY <1>c, <1>d, <1>3, <1>t, <2>1 DEF Receive
  <2>9. Seen(p)' = m.seq
    BY <2>1, <2>2 DEF Seen
  <2>10. StreamOK(sock[p], Seen(p))'
    BY <2>2, <2>6, <2>9 DEF StreamOK
  <2>11. QED
    BY <2>2, <2>3, <2>7, <2>8, <2>10 DEF PageInv
<1>4. CASE Disconnected(p) \/ LeaveAndReturn(p)
  <2>1. sock'[p] = None
    BY <1>t, <1>4 DEF Disconnected, LeaveAndReturn
  <2>2. QED
    BY <2>1 DEF PageInv
<1>5. CASE ReadStep(p)
  <2>1. UNCHANGED hubVars /\ sock' = sock /\ opened' = opened /\ lastSeq' = lastSeq
    BY <1>5, ReadFrame
  <2>2. CASE c = None
    BY <1>c, <2>1, <2>2 DEF PageInv
  <2>3. CASE c # None
    <3>1. \/ Blind(p)' \/ Sight(p)' = stored
          \/ Blind(p)' = Blind(p) /\ Sight(p)' = Sight(p)
      <4>1. CASE Query(p)
        BY <1>t, <4>1 DEF Query, Sight, Blind
      <4>2. CASE Fetch(p)
        BY <1>t, <4>2 DEF Fetch, Sight, Blind
      <4>3. CASE FetchFails(p)
        BY <1>t, <4>3 DEF FetchFails, Blind
      <4>4. QED
        BY <1>5, <1>a, <4>1, <4>2, <4>3 DEF ReadStep, Refocus
    <3>2. \A m \in lost[c] : m.pitch <= stored
      BY <1>c, <1>d, <2>3 DEF StreamInv, OrderInv
    <3>3. opened[p] /\ ~Blind(p) =>
            \A m \in lost[c] : m.seq <= lastSeq[p] => m.pitch <= Sight(p)
      BY <1>c, <2>3 DEF StreamInv, PageInv
    <3>4. opened'[p] /\ ~Blind(p)' =>
            \A m \in lost[c] : m.seq <= lastSeq'[p] => m.pitch <= Sight(p)'
      BY <2>1, <3>1, <3>2, <3>3
    <3>5. Seen(p)' = Seen(p)
      BY <2>1 DEF Seen
    <3>6. QED
      BY <1>c, <1>h, <1>k, <2>1, <2>3, <3>4, <3>5
  <2>4. QED
    BY <2>2, <2>3
<1>6. CASE ~PageStep(p)
  <2>1. ~Receive(p)
    BY <1>6 DEF PageStep
  <2>2. ASSUME NEW q \in Page, q # p, PageStep(q)
        PROVE  /\ sock'[p] = c /\ opened'[p] = opened[p] /\ lastSeq'[p] = lastSeq[p]
               /\ Blind(p)' = Blind(p) /\ Sight(p)' = Sight(p)
    <3>1. /\ sock'[p] = c /\ opened'[p] = opened[p] /\ lastSeq'[p] = lastSeq[p]
          /\ UNCHANGED readVars \/ Ask(q) \/ ReadStep(q)
      BY <1>c, <1>t, <2>2, ReadFrame
         DEF PageStep, Dial, DialRefused, Open, Receive, Disconnected, LeaveAndReturn, readVars
    <3>2. /\ asked'[p] = asked[p] /\ unread'[p] = unread[p]
          /\ query'[p] = query[p] /\ fetched'[p] = fetched[p]
      <4>1. CASE UNCHANGED readVars
        BY <4>1 DEF readVars
      <4>2. CASE Ask(q)
        BY <1>t, <2>2, <4>2 DEF Ask
      <4>3. CASE ReadStep(q)
        BY <1>t, <2>2, <4>2, <4>3 DEF ReadStep, Query, Fetch, FetchFails, Refocus
      <4>4. QED
        BY <3>1, <4>1, <4>2, <4>3
    <3>3. QED
      BY <3>1, <3>2 DEF Blind, Sight
  <2>3. CASE UNCHANGED pageVars
    BY <1>c, <1>u, <2>1, <2>3 DEF pageVars, readVars, Blind, Sight
  <2>4. UNCHANGED pageVars \/ \E q \in Page : q # p /\ PageStep(q)
    <3>1. CASE FanPitch \/ FanMetrics \/ FanAgain \/ FanAnomaly
      BY <3>1, FanFrame
    <3>2. QED
      BY <1>6, <3>1 DEF Next, vars, StorePitch, EndOuting, Deliver, Shutdown, Answer, ServerStep,
                        Elsewhere
  <2>5. QED
    BY <1>u, <2>1, <2>2, <2>3, <2>4
<1>7. CASE DialRefused(p)
  BY <1>7 DEF DialRefused, PageInv
<1>8. QED
  BY <1>1, <1>2, <1>3, <1>4, <1>5, <1>6, <1>7 DEF PageStep

\* The first n elements of a queue.
LEMMA TakeFirst ==
  ASSUME NEW S, NEW q \in Seq(S), NEW n \in 0..Len(q)
  PROVE  SubSeq(q, 1, n) \in Seq(S) /\ Len(SubSeq(q, 1, n)) = n
<1>1. Len(q) \in Nat /\ n \in Nat /\ n <= Len(q) /\ \A k \in 1..Len(q) : q[k] \in S
  OBVIOUS
<1>2. \A k \in 1..n : q[k] \in S
  BY <1>1
<1>3. /\ SubSeq(q, 1, n) \in Seq(S)
      /\ Len(SubSeq(q, 1, n)) = IF 1 <= n THEN n - 1 + 1 ELSE 0
  BY <1>1, <1>2, SubSeqProperties
<1>4. QED
  BY <1>1, <1>3

\* A list that takes a pitch stays within its limit.
LEMMA PrependedOK ==
  ASSUME NEW i \in 1..MaxPitches, NEW list \in FeedList
  PROVE  Prepended(i, list) \in FeedList
<1> DEFINE rest == IF Len(list) < FeedLimit THEN list ELSE SubSeq(list, 1, FeedLimit - 1)
<1>1. list \in Seq(1..MaxPitches) /\ Len(list) \in Nat /\ Len(list) <= FeedLimit
      /\ FeedLimit \in Nat \ {0}
  BY StreamAssumption DEF FeedList
<1>2. rest \in Seq(1..MaxPitches) /\ Len(rest) + 1 <= FeedLimit
  <2>1. CASE Len(list) < FeedLimit
    BY <1>1, <2>1
  <2>2. CASE ~(Len(list) < FeedLimit)
    <3>1. FeedLimit - 1 \in 0..Len(list)
      BY <1>1, <2>2
    <3>2. /\ SubSeq(list, 1, FeedLimit - 1) \in Seq(1..MaxPitches)
          /\ Len(SubSeq(list, 1, FeedLimit - 1)) = FeedLimit - 1
      BY <1>1, <3>1, TakeFirst
    <3>3. QED
      BY <1>1, <2>2, <3>2
  <2>3. QED
    BY <2>1, <2>2
<1> HIDE DEF rest
<1>3. <<i>> \o rest \in Seq(1..MaxPitches) /\ Len(<<i>> \o rest) = 1 + Len(rest)
  BY <1>2
<1>4. <<i>> \o rest \in FeedList
  <2>1. Len(rest) \in Nat
    BY <1>2
  <2>2. QED
    BY <1>1, <1>2, <1>3, <2>1 DEF FeedList
<1>5. QED
  BY <1>4 DEF Prepended, rest

\* What a page shows are pitches of the outing: only a message about a pitch
\* carries one.
LEMMA PitchesStep ==
  ASSUME HubTypeOK, BaseOK, StreamInv, [Next]_vars
  PROVE  pitches' \in [Page -> FeedList]
<1>t. pitches \in [Page -> FeedList]
  BY DEF StreamInv
<1>1. ASSUME NEW p \in Page, Receive(p)
      PROVE  pitches' \in [Page -> FeedList]
  <2>1. PICK m : m = Head(wire[sock[p]])
    OBVIOUS
  <2>2. sock[p] \in Conn /\ wire[sock[p]] # <<>>
    BY <1>1 DEF Receive, TakeFrame, BaseOK, PagesOK
  <2>3. m \in Flight(sock[p]) /\ m \in Message
    BY <2>1, <2>2, TakeHead DEF Flight, HubTypeOK, QueuesOK
  <2>4. m.type = "pitch" => m.pitch \in 1..MaxPitches
    BY <2>2, <2>3, MessageFields DEF StreamInv, OrderInv, Good
  <2>5. pitches' = [pitches EXCEPT ![p] = IF m.type = "pitch" THEN Prepended(m.pitch, @) ELSE @]
    BY <1>1, <2>1 DEF Receive
  <2>6. m.type = "pitch" => Prepended(m.pitch, pitches[p]) \in FeedList
    BY <1>t, <2>4, PrependedOK
  <2>7. QED
    BY <1>t, <2>5, <2>6
<1>2. ASSUME NEW p \in Page, LeaveAndReturn(p)
      PROVE  pitches' \in [Page -> FeedList]
  <2>1. <<>> \in FeedList
    BY StreamAssumption DEF FeedList
  <2>2. QED
    BY <1>t, <1>2, <2>1 DEF LeaveAndReturn
<1>3. ASSUME UNCHANGED pitches PROVE pitches' \in [Page -> FeedList]
  BY <1>t, <1>3
<1>4. ASSUME NEW p \in Page, PageStep(p), ~Receive(p), ~LeaveAndReturn(p)
      PROVE  UNCHANGED pitches
  BY <1>4, ReadFrame DEF PageStep, Dial, DialRefused, Open, Disconnected
<1>5. CASE FanPitch \/ FanMetrics \/ FanAgain \/ FanAnomaly
  BY <1>3, <1>5, FanFrame DEF pageVars
<1>6. ASSUME \/ StorePitch \/ EndOuting \/ Deliver \/ Shutdown \/ UNCHANGED vars
             \/ \E c \in Conn : Answer(c) \/ ServerStep(c)
      PROVE  UNCHANGED pitches
  BY <1>6 DEF StorePitch, EndOuting, Deliver, Shutdown, Answer, ServerStep, Elsewhere,
              pageVars, vars
<1>7. QED
  BY <1>1, <1>2, <1>3, <1>4, <1>5, <1>6 DEF Next

\* The invariant of the composition is one.
LEMMA StreamInvHolds == Spec => []StreamInv
<1>1. Init => StreamInv
  <2> SUFFICES ASSUME Init PROVE StreamInv
    OBVIOUS
  <2>0. Elems(<<>>) = {} /\ Rising(<<>>)
    BY DEF Elems, Rising
  <2>1. FanInv
    BY <2>0 DEF Init, HubInit, FanInv
  <2>2. \A c \in Conn : FreshInv(c) /\ OrderInv(c)
    BY <2>0 DEF Init, HubInit, FreshInv, OrderInv, Flight
  <2>3. \A p \in Page : PageInv(p)
    BY DEF Init, PageInv
  <2>4. pitches \in [Page -> FeedList]
    BY StreamAssumption DEF Init, FeedList
  <2>5. QED
    BY <2>1, <2>2, <2>3, <2>4 DEF StreamInv
<1>2. HubTypeOK /\ BaseOK /\ QueueInv /\ StreamInv /\ [Next]_vars => StreamInv'
  <2> SUFFICES ASSUME HubTypeOK, BaseOK, QueueInv, StreamInv, [Next]_vars PROVE StreamInv'
    OBVIOUS
  <2>1. FanInv'
    BY FanStep DEF StreamInv
  <2>2. \A c \in Conn : FreshInv(c)' /\ OrderInv(c)'
    BY ConnStep
  <2>3. \A p \in Page : PageInv(p)'
    BY PagesStep
  <2>4. QED
    BY <2>1, <2>2, <2>3, PitchesStep DEF StreamInv
<1>3. Spec => []QueueInv
  BY StreamIsHub, QueueInvHolds, PTL
<1>4. QED
  BY <1>1, <1>2, <1>3, HubInside, PTL DEF Spec

\* Types of the whole live view, for any numbers of pages and connections and
\* any capacities.
THEOREM StreamTypeCorrect == Spec => []TypeOK
<1>1. HubTypeOK /\ BaseOK /\ StreamInv => TypeOK
  <2> SUFFICES ASSUME HubTypeOK, BaseOK, StreamInv PROVE TypeOK
    OBVIOUS
  <2>1. pitches \in [Page -> Seq(1..MaxPitches)] /\ \A p \in Page : Len(pitches[p]) <= FeedLimit
    BY DEF StreamInv, FeedList
  <2>2. QED
    BY <2>1 DEF BaseOK, TableOK, PagesOK, TypeOK
<1>2. QED
  BY <1>1, HubInside, StreamInvHolds, PTL

\* A pitch lost to a full queue is noticed when anything later arrives on the
\* connection, and the read that follows has it or more newer pitches than a read
\* asks for (client.go, enqueue; useSessionStream.ts, applyMessage;
\* LiveSession.tsx, reconcile), for any numbers of pages, connections and pitches
\* and any capacities.
THEOREM GapsReconciled == Spec => []GapsAreReconciled
<1>1. HubTypeOK /\ BaseOK /\ StreamInv => GapsAreReconciled
  <2> SUFFICES ASSUME HubTypeOK, BaseOK, StreamInv, NEW p \in Page, UpToDate(p),
                      NEW i \in Noticed(p)
               PROVE  i \in Merged(p) \/ i + ReadLimit <= fetched[p]
    BY DEF GapsAreReconciled
  <2>1. PICK m \in lost[sock[p]] : m.type = "pitch" /\ m.seq <= lastSeq[p] /\ i = m.pitch
    BY DEF Noticed
  <2>2. sock[p] \in Conn /\ ~Blind(p) /\ opened[p] /\ Sight(p) = fetched[p]
    BY DEF UpToDate, Blind, Sight, BaseOK, PagesOK
  <2>3. m \in Message /\ Good(m)
    BY <2>2, DataTypes DEF DataOK, StreamInv, OrderInv
  <2>4. i \in Nat /\ i >= 1
    BY <2>1, <2>3, MessageFields DEF Good
  <2>5. i <= fetched[p]
    BY <2>1, <2>2 DEF StreamInv, PageInv, UpToDate
  <2>6. fetched[p] \in Int /\ ReadLimit \in Nat
    BY StreamAssumption DEF BaseOK, PagesOK
  <2>7. CASE i + ReadLimit > fetched[p]
    BY <2>4, <2>5, <2>6, <2>7 DEF Rows, Merged
  <2>8. QED
    BY <2>4, <2>6, <2>7
<1>2. QED
  BY <1>1, HubInside, StreamInvHolds, PTL

============================================================================
