----------------------------- MODULE LiveStream -----------------------------
(***************************************************************************)
(* The live view of one outing: PostgreSQL's table, the Kafka fan-out of   *)
(* internal/api/websocket.go, the hub (LiveHub) and the browser pages of   *)
(* web/src/hooks/useSessionStream.ts and pages/LiveSession.tsx.            *)
(*                                                                         *)
(* A pitch is its index in the outing.  A page shows the pitches it        *)
(* received and those of its last REST read, which asks for the newest     *)
(* ReadLimit, sees the table when its query runs, answers later, and may   *)
(* fail; of both together it keeps the newest FeedLimit.  Reads are made   *)
(* by TanStack Query: an invalidation cancels and restarts a read on its   *)
(* way, unless the page has no data yet, when it joins that first read.    *)
(***************************************************************************)
EXTENDS LiveHub, Functions

CONSTANTS
  Page,         \* browser pages, all of one address
  ReadLimit,    \* rows a REST read asks for
  FeedLimit,    \* pitches a page keeps of the stream, and of the feed
  MaxPitches,   \* bound: pitches of the outing
  MaxEvents,    \* bound: calls of Publish
  FaultKinds,   \* the kinds of fault the run admits
  MaxFaults     \* bound: how many of them happen

ASSUME StreamAssumption ==
  /\ Conn \subseteq Nat
  /\ MaxPitches \in Nat
  /\ Index = 0..MaxPitches
  /\ ReadLimit \in Nat \ {0} /\ FeedLimit \in Nat \ {0}
  /\ MaxEvents \in Nat
  /\ MaxFaults \in Nat

VARIABLES
  \* PostgreSQL
  stored,      \* the last pitch in the table
  over,        \* whether the outing's status is no longer ACTIVE
  \* the fan-out's consumers
  fanned,      \* the last pitch.analyzed handled
  due,         \* whether Handle is about to publish the rollup
  events,      \* calls of Publish so far, at most MaxEvents
  \* each page
  view,        \* StreamState.status
  sock,        \* its connection
  opened,      \* whether onopen has run for it
  retrying,    \* whether `attempt` is above 0
  lastSeq,     \* StreamState.lastSeq
  missed,      \* StreamState.missed
  pitches,     \* StreamState.pitches, newest first
  asked,       \* whether a REST read is on its way
  query,       \* the last pitch in the table when its query ran, -1 before
  fetched,     \* the same of the last read that answered, -1 before the first
  unread,      \* history: a read that was needed failed, or none was begun
  faults       \* faults so far, at most MaxFaults

tableVars == <<stored, over>>
fanVars   == <<fanned, due, events>>
readVars  == <<asked, query, fetched, unread>>
pageVars  == <<view, sock, opened, retrying, lastSeq, missed, pitches, readVars>>
vars      == <<hubVars, tableVars, fanVars, pageVars, faults>>

Init ==
  /\ HubInit
  /\ stored = 0 /\ over = FALSE
  /\ fanned = 0 /\ due = FALSE /\ events = 0
  /\ view = [p \in Page |-> "connecting"]
  /\ sock = [p \in Page |-> None]
  /\ opened = [p \in Page |-> FALSE]
  /\ retrying = [p \in Page |-> FALSE]
  /\ lastSeq = [p \in Page |-> -1]
  /\ missed = [p \in Page |-> 0]
  /\ pitches = [p \in Page |-> <<>>]
  /\ asked = [p \in Page |-> TRUE]
  /\ query = [p \in Page |-> -1]
  /\ fetched = [p \in Page |-> -1]
  /\ unread = [p \in Page |-> FALSE]
  /\ faults = 0

Fault(kind) == kind \in FaultKinds /\ faults < MaxFaults /\ faults' = faults + 1

----------------------------------------------------------------------------
(* The outing, as the processor writes it.                                 *)

StorePitch ==
  /\ ~over /\ stored < MaxPitches
  /\ stored' = stored + 1
  /\ UNCHANGED <<hubVars, over, fanVars, pageVars, faults>>

EndOuting ==
  /\ ~over
  /\ over' = TRUE
  /\ UNCHANGED <<hubVars, stored, fanVars, pageVars, faults>>

----------------------------------------------------------------------------
(* Fanout.Handle.  It owns no state and reports no error: an event the hub *)
(* does not take is gone.                                                  *)

Fan(type, pitch) ==
  /\ events < MaxEvents
  /\ events' = events + 1
  /\ Publish([type |-> type, pitch |-> pitch])
  /\ UNCHANGED <<tableVars, pageVars>>

\* handlePitch: the pitch, and a rollup unless one went out within the second.
FanPitch ==
  /\ ~due /\ fanned < stored
  /\ Fan("pitch", fanned + 1)
  /\ fanned' = fanned + 1
  /\ due' \in BOOLEAN
  /\ UNCHANGED faults

FanMetrics ==
  /\ due
  /\ Fan("metrics", 0)
  /\ due' = FALSE
  /\ UNCHANGED <<fanned, faults>>

\* The consumer sees its last event again.
FanAgain ==
  /\ ~due /\ fanned > 0
  /\ Fault("redelivery")
  /\ Fan("pitch", fanned)
  /\ UNCHANGED <<fanned, due>>

FanAnomaly ==
  /\ stored > 0
  /\ Fan("anomaly", 0)
  /\ UNCHANGED <<fanned, due, faults>>

----------------------------------------------------------------------------
(* The page.                                                               *)

\* Connections are numbered in the order they are dialled.
NextConn(c) == stage[c] = "free" /\ \A d \in Conn : d < c => stage[d] # "free"

Dial(p, c) ==
  /\ sock[p] = None /\ view[p] # "closed"
  /\ NextConn(c)
  /\ Reserve(c)
  /\ sock' = [sock EXCEPT ![p] = c]
  /\ opened' = [opened EXCEPT ![p] = FALSE]
  /\ UNCHANGED <<view, retrying, lastSeq, missed, pitches, readVars,
                 tableVars, fanVars, faults>>

\* The address has no slot left: the handshake answers 429, which the browser
\* reports as a connection that failed.
DialRefused(p) ==
  /\ sock[p] = None /\ view[p] # "closed"
  /\ slots >= SlotLimit
  /\ view' = [view EXCEPT ![p] = "reconnecting"]
  /\ retrying' = [retrying EXCEPT ![p] = TRUE]
  /\ UNCHANGED <<hubVars, sock, opened, lastSeq, missed, pitches, readVars,
                 tableVars, fanVars, faults>>

\* SessionSnapshot and the upgrade: the status and the last pitch are read now,
\* the connection is registered later.
Answer(c) ==
  /\ IF over THEN UpgradeClosed(c, stored) ELSE Upgrade(c, stored)
  /\ UNCHANGED <<tableVars, fanVars, pageVars, faults>>

\* Mutant of Ask: a read on its way is taken for the one that is needed.
AskUnlessAsked(p) ==
  /\ asked' = [asked EXCEPT ![p] = TRUE]
  /\ unread' = [unread EXCEPT ![p] = FALSE]
  /\ UNCHANGED <<query, fetched>>

\* reconcile, and every other reason to read again.
Ask(p) ==
  LET joins == asked[p] /\ fetched[p] = -1
  IN /\ asked' = [asked EXCEPT ![p] = TRUE]
     /\ query' = [query EXCEPT ![p] = IF joins THEN @ ELSE -1]
     /\ unread' = [unread EXCEPT ![p] = joins /\ query[p] # -1]
     /\ fetched' = fetched

\* onopen.  A connection that is not the page's first makes it read again.
Open(p) ==
  /\ sock[p] # None /\ ~opened[p]
  /\ \/ stage[sock[p]] \in {"joining", "open"}
     \/ stage[sock[p]] = "refused" /\ hangup[sock[p]] = "1001"
  /\ opened' = [opened EXCEPT ![p] = TRUE]
  /\ view' = [view EXCEPT ![p] = "live"]
  /\ retrying' = [retrying EXCEPT ![p] = FALSE]
  /\ lastSeq' = [lastSeq EXCEPT ![p] = -1]
  /\ IF retrying[p] THEN Ask(p) ELSE UNCHANGED readVars
  /\ UNCHANGED <<hubVars, sock, missed, pitches, tableVars, fanVars, faults>>

\* The numbers skipped before m, as applyMessage counts them.
Skipped(p, m) ==
  IF lastSeq[p] >= 0 /\ m.seq > lastSeq[p] + 1 THEN m.seq - (lastSeq[p] + 1) ELSE 0

\* A pitch the page has is not added again; the list is cut.
Prepended(i, list) ==
  IF i \in Range(list) THEN list
  ELSE <<i>> \o (IF Len(list) < FeedLimit THEN list ELSE SubSeq(list, 1, FeedLimit - 1))

\* onmessage, the reducer, and the effect that answers a gap with a REST read.
Receive(p) ==
  LET m == Head(wire[sock[p]])
  IN /\ sock[p] # None /\ opened[p]
     /\ TakeFrame(sock[p])
     /\ lastSeq' = [lastSeq EXCEPT ![p] = m.seq]
     /\ missed' = [missed EXCEPT ![p] = @ + Skipped(p, m)]
     /\ IF Skipped(p, m) > 0 THEN Ask(p) ELSE UNCHANGED readVars
     /\ pitches' = [pitches EXCEPT ![p] = IF m.type = "pitch" THEN Prepended(m.pitch, @) ELSE @]
     /\ view' = [view EXCEPT ![p] = IF m.type = "closed" THEN "closed" ELSE @]
     /\ UNCHANGED <<sock, opened, retrying, tableVars, fanVars, faults>>

\* onclose, after the last frame: 1000 is final, anything else is retried.
Disconnected(p) ==
  LET c == sock[p]
  IN /\ c # None
     /\ hangup[c] # "none" /\ wire[c] = <<>>
     /\ opened[p] \/ hangup[c] = "1006"
     /\ sock' = [sock EXCEPT ![p] = None]
     /\ opened' = [opened EXCEPT ![p] = FALSE]
     /\ view' = [view EXCEPT ![p] =
                   IF hangup[c] = "1000" THEN "closed" ELSE "reconnecting"]
     /\ retrying' = [retrying EXCEPT ![p] = @ \/ hangup[c] # "1000"]
     /\ UNCHANGED <<hubVars, lastSeq, missed, pitches, readVars,
                    tableVars, fanVars, faults>>

ReadOnly == UNCHANGED <<hubVars, view, sock, opened, retrying, lastSeq, missed,
                        pitches, tableVars, fanVars>>

\* The query of the page's REST read runs.
Query(p) ==
  /\ asked[p] /\ query[p] = -1
  /\ query' = [query EXCEPT ![p] = stored]
  /\ UNCHANGED <<asked, fetched, unread, faults>> /\ ReadOnly

\* Its rows take the place of those of the read before.
Fetch(p) ==
  /\ asked[p] /\ query[p] # -1
  /\ fetched' = [fetched EXCEPT ![p] = query[p]]
  /\ asked' = [asked EXCEPT ![p] = FALSE]
  /\ query' = [query EXCEPT ![p] = -1]
  /\ UNCHANGED <<unread, faults>> /\ ReadOnly

\* It fails: it is made again, or given up (after two retries, or at once for an
\* answer that is final), which leaves the page the rows it had.
FetchFails(p) ==
  /\ asked[p]
  /\ Fault("read")
  /\ query' = [query EXCEPT ![p] = -1]
  /\ \E again \in BOOLEAN :
       /\ asked' = [asked EXCEPT ![p] = again]
       /\ unread' = [unread EXCEPT ![p] = ~again]
  /\ UNCHANGED fetched /\ ReadOnly

\* The viewer comes back to the window after the data has become stale.
Refocus(p) ==
  /\ ~asked[p]
  /\ Fault("refocus")
  /\ Ask(p)
  /\ ReadOnly

\* The viewer leaves the page and comes back: the socket is closed, or the
\* request for it is cancelled; the state starts anew; the last REST read is
\* still cached and may count as fresh.
LeaveAndReturn(p) ==
  /\ Fault("leave")
  /\ sock[p] # None
  /\ IF stage[sock[p]] = "reserved" THEN HandshakeFails(sock[p])
     ELSE IF up[sock[p]] THEN Break(sock[p]) ELSE UNCHANGED hubVars
  /\ view' = [view EXCEPT ![p] = "connecting"]
  /\ sock' = [sock EXCEPT ![p] = None]
  /\ opened' = [opened EXCEPT ![p] = FALSE]
  /\ retrying' = [retrying EXCEPT ![p] = FALSE]
  /\ lastSeq' = [lastSeq EXCEPT ![p] = -1]
  /\ missed' = [missed EXCEPT ![p] = 0]
  /\ pitches' = [pitches EXCEPT ![p] = <<>>]
  /\ \/ UNCHANGED readVars
     \/ ~asked[p] /\ Ask(p)
  /\ UNCHANGED <<tableVars, fanVars>>

----------------------------------------------------------------------------
Elsewhere == UNCHANGED <<tableVars, fanVars, pageVars>>

ServerStep(c) ==
  /\ \/ HandshakeFails(c) /\ Fault("handshake")
     \/ Register(c) /\ UNCHANGED faults
     \/ RegisterRefused(c) /\ UNCHANGED faults
     \/ Expire(c) /\ Fault("expiry")
     \/ PongTimeout(c) /\ Fault("pong")
     \/ Break(c) /\ Fault("network")
     \/ WriterStep(c) /\ UNCHANGED faults
     \/ ReaderStep(c) /\ UNCHANGED faults
  /\ Elsewhere

Deliver == HubStep /\ UNCHANGED faults /\ Elsewhere

Shutdown == HubStop /\ Fault("shutdown") /\ Elsewhere

ReadStep(p) == Query(p) \/ Fetch(p) \/ FetchFails(p) \/ Refocus(p)

PageStep(p) ==
  \/ \E c \in Conn : Dial(p, c)
  \/ DialRefused(p)
  \/ Open(p)
  \/ Receive(p)
  \/ Disconnected(p)
  \/ ReadStep(p)
  \/ LeaveAndReturn(p)

Next ==
  \/ StorePitch \/ EndOuting
  \/ FanPitch \/ FanMetrics \/ FanAgain \/ FanAnomaly
  \/ Deliver \/ Shutdown
  \/ \E c \in Conn : Answer(c) \/ ServerStep(c)
  \/ \E p \in Page : PageStep(p)

Spec == Init /\ [][Next]_vars

\* The goroutines keep running: the hub's loop, the pumps, whose writes and
\* reads have deadlines, and the handshake, which has a timeout.  Nothing is
\* asked of the browser, the network or the viewers.
Fairness ==
  /\ WF_vars(Deliver)
  /\ \A c \in Conn :
       /\ WF_vars(Answer(c))
       /\ WF_vars((Register(c) \/ RegisterRefused(c)) /\ UNCHANGED faults /\ Elsewhere)
       /\ WF_vars(WriterStep(c) /\ UNCHANGED faults /\ Elsewhere)
       /\ WF_vars(ReaderStep(c) /\ UNCHANGED faults /\ Elsewhere)

FairSpec == Spec /\ Fairness

----------------------------------------------------------------------------
\* Types of the outing, the fan-out, the hub and the pages.
TypeOK ==
  /\ HubTypeOK
  /\ stored \in 0..MaxPitches /\ over \in BOOLEAN
  /\ fanned \in 0..stored /\ due \in BOOLEAN /\ events \in 0..MaxEvents
  /\ view \in [Page -> {"connecting", "live", "reconnecting", "closed"}]
  /\ sock \in [Page -> Conn \cup {None}]
  /\ opened \in [Page -> BOOLEAN] /\ retrying \in [Page -> BOOLEAN]
  /\ lastSeq \in [Page -> Nat \cup {-1}] /\ missed \in [Page -> Nat]
  /\ pitches \in [Page -> Seq(1..MaxPitches)]
  /\ \A p \in Page : Len(pitches[p]) <= FeedLimit
  /\ asked \in [Page -> BOOLEAN] /\ unread \in [Page -> BOOLEAN]
  /\ query \in [Page -> -1..MaxPitches] /\ fetched \in [Page -> -1..MaxPitches]
  /\ faults \in 0..MaxFaults

\* The rows of the page's last read, and the rows it has to show.
Rows(p)   == {i \in 1..fetched[p] : i + ReadLimit > fetched[p]}
Merged(p) == Range(pitches[p]) \cup Rows(p)
Feed(p)   == {i \in Merged(p) : Cardinality({j \in Merged(p) : j > i}) < FeedLimit}

\* The page is connected and has the answer of every read it needed.
UpToDate(p) == sock[p] # None /\ opened[p] /\ ~asked[p] /\ ~unread[p]

\* The pitches whose loss the numbers of later messages have shown.
Noticed(p) == {m.pitch : m \in {l \in lost[sock[p]] : l.type = "pitch" /\ l.seq <= lastSeq[p]}}

\* A pitch lost to a full queue is noticed as soon as anything later arrives on
\* that connection, and the read that follows has it unless ReadLimit newer ones
\* are in the table by then: because its number was spent before it was lost
\* (client.go, enqueue; useSessionStream.ts, applyMessage; LiveSession.tsx,
\* reconcile).
GapsAreReconciled ==
  \A p \in Page : UpToDate(p) =>
    \A i \in Noticed(p) : i \in Merged(p) \/ i + ReadLimit <= fetched[p]

\* A connection that lost a message it may not lose is ended, so that its
\* browser does not believe it has seen everything (client.go, enqueue and the
\* closeSlow case of writePump).
AlarmEndsConnection ==
  \A c \in Conn : (\E m \in lost[c] : m.type = "anomaly") ~> ~up[c]

\* Once the hub stops, every connection ends, in whatever state the shutdown
\* found it: in its handshake, writing, stuck, or being unregistered (hub.go,
\* shutdown, register and unregister; client.go, the done case of writePump).
ShutdownEndsEveryone ==
  \A c \in Conn :
    hub = "stopped" /\ stage[c] # "free"
      ~> stage[c] \in {"open", "refused"} /\ ~up[c] /\ ~writer[c] /\ reader[c] = "off"

\* useSessionStream.ts:268: "1000 means the outing is over".
FinishedMeansOver == \A p \in Page : view[p] = "closed" => over

\* A page whose connection is registered, idle and without a gap.
Settled(p) ==
  LET c == sock[p]
  IN /\ UpToDate(p) /\ c \in sessions
     /\ broadcastCh = <<>> /\ todo = {} /\ noticeFor = None
     /\ send[c] = <<>> /\ wire[c] = <<>>
     /\ lastSeq[p] = nextSeq[c]

\* message.go:85-87: LastPitchIndex lets the client detect a pitch that lands
\* between its REST read and its registration.
NothingMissedUnseen ==
  \A p \in Page : Settled(p) => \A i \in (fetched[p] + 1)..fanned :
    i \in Feed(p) \/ Cardinality({j \in Feed(p) : j > i}) = FeedLimit
=============================================================================
