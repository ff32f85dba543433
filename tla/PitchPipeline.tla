--------------------------- MODULE PitchPipeline ---------------------------
(***************************************************************************)
(* The stream processor: the readers of ConsumerGroup on pitch.raw, with   *)
(* Pipeline.HandlePitchRaw (internal/processor/pipeline.go) as the handler.*)
(*                                                                         *)
(* One handler call goes through the stages                                *)
(*                                                                         *)
(*   validate -> upsert -> insert -> record -> publish                     *)
(*                                                                         *)
(* where upsert and insert are the two halves of one database transaction: *)
(* UpsertSession locks the session's row until the transaction ends, then  *)
(* the next pitch index is read and the pitch inserted.  The live counters *)
(* are updated after the commit and the analyzed event is published last.  *)
(* Measurements are carried along by the code without a decision being     *)
(* taken on them; here a pitch is its natural key.                         *)
(***************************************************************************)
EXTENDS ConsumerGroup, Sequences, FiniteSets

CONSTANTS
  Pitch,         \* natural keys: the values of external_pitch_uid
  Session,       \* sessions, by external_session_uid
  PitchAt,       \* the pitch each message reports
  SessionOf,     \* the session of each pitch
  Invalid,       \* messages that fail permanently: validateRaw or a CHECK
  MaxOutages     \* bound: failures of the model service, PostgreSQL,
                 \* Redis and the broker during handler calls

ASSUME PipelineAssumption ==
  /\ PitchAt \in [Msg -> Pitch]
  /\ SessionOf \in [Pitch -> Session]
  /\ Invalid \subseteq Msg
  /\ MaxOutages \in Nat
  /\ \A p \in Pitch : None # p

VARIABLES
  \* each reader's handler call
  stage,         \* the next step of HandlePitchRaw
  status,        \* "OK", or "FAILED" when no prediction came back
  next,          \* the index NextSessionPitchIndex returned
  \* PostgreSQL
  rows,          \* [Pitch -> Row \cup {NoRow}]  the table pitches
  lock,          \* [Session -> Worker \cup {None}]  row locks on sessions
  \* Redis
  live,          \* [Session -> Nat]  the counters' pitch_count, 0 if no key
  \* pitch.analyzed
  analyzed,      \* the events published, in order
  outages        \* outages so far, at most MaxOutages

callVars     == <<stage, status, next>>
storeVars    == <<rows, lock>>
pipelineVars == <<callVars, storeVars, live, analyzed, outages>>
vars         == <<groupVars, pipelineVars>>

Stage  == {"validate", "upsert", "insert", "record", "publish"}
Status == {"OK", "FAILED"}
Row    == [index : Nat, status : Status]
NoRow  == [index |-> 0, status |-> "none"]
Event  == [pitch : Pitch, index : Nat, status : Status]

TypeOK ==
  /\ GroupTypeOK
  /\ stage \in [Worker -> Stage]
  /\ status \in [Worker -> Status]
  /\ next \in [Worker -> Nat]
  /\ rows \in [Pitch -> Row \cup {NoRow}]
  /\ lock \in [Session -> Worker \cup {None}]
  /\ live \in [Session -> Nat]
  /\ analyzed \in Seq(Event)
  /\ outages \in Nat

Init ==
  /\ GroupInit
  /\ stage = [w \in Worker |-> "validate"]
  /\ status = [w \in Worker |-> "OK"]
  /\ next = [w \in Worker |-> 0]
  /\ rows = [p \in Pitch |-> NoRow]
  /\ lock = [s \in Session |-> None]
  /\ live = [s \in Session |-> 0]
  /\ analyzed = <<>>
  /\ outages = 0

----------------------------------------------------------------------------
Stored(p) == rows[p] # NoRow

IndicesOf(s) == { rows[p].index : p \in { q \in Pitch : Stored(q) /\ SessionOf[q] = s } }

\* COALESCE(max(session_pitch_index), 0)
MaxIndex(s) ==
  IF IndicesOf(s) = {} THEN 0
  ELSE CHOOSE n \in IndicesOf(s) : \A m \in IndicesOf(s) : m <= n

PitchOf(w)  == PitchAt[held[w]]
SessionAt(w) == SessionOf[PitchOf(w)]
In(w, there) == phase[w] = "handling" /\ stage[w] = there
Proceed(w, there) == stage' = [stage EXCEPT ![w] = there]

Outage(kind) ==
  /\ kind \in FaultKinds
  /\ outages < MaxOutages
  /\ outages' = outages + 1

\* A call to a dependency fails: because it is out, or because the context the
\* call was given is cancelled.
CallFails(w, kind) ==
  \/ stopping[w] /\ UNCHANGED outages
  \/ Outage(kind)

Unlock(w) == lock' = [s \in Session |-> IF lock[s] = w THEN None ELSE lock[s]]

\* Every handler call ends at the stage the next one starts with.
Return(w, result) ==
  /\ HandlerReturns(w, result)
  /\ Proceed(w, "validate")

----------------------------------------------------------------------------
(* HandlePitchRaw.                                                         *)

Reject(w) ==
  /\ In(w, "validate")
  /\ held[w] \in Invalid
  /\ Return(w, "permanent")
  /\ UNCHANGED <<status, next, storeVars, live, analyzed, outages>>

\* Inference failure does not stop the pitch: it is recorded in the status.
Predict(w) ==
  /\ In(w, "validate")
  /\ held[w] \notin Invalid
  /\ \/ status' = [status EXCEPT ![w] = "OK"] /\ UNCHANGED outages
     \/ status' = [status EXCEPT ![w] = "FAILED"] /\ CallFails(w, "ml")
  /\ Proceed(w, "upsert")
  /\ UNCHANGED <<groupVars, next, storeVars, live, analyzed>>

\* Mutant of UpsertSession: ON CONFLICT DO NOTHING, which locks no row.
UpsertUnlocked(w) ==
  /\ In(w, "upsert")
  /\ next' = [next EXCEPT ![w] = MaxIndex(SessionAt(w)) + 1]
  /\ Proceed(w, "insert")
  /\ UNCHANGED <<groupVars, status, storeVars, live, analyzed, outages>>

\* Mutant of UpsertSession: the query returns the last index, not the next.
UpsertLastIndex(w) ==
  /\ In(w, "upsert")
  /\ lock[SessionAt(w)] = None
  /\ lock' = [lock EXCEPT ![SessionAt(w)] = w]
  /\ next' = [next EXCEPT ![w] = IF MaxIndex(SessionAt(w)) < 1 THEN 1 ELSE MaxIndex(SessionAt(w))]
  /\ Proceed(w, "insert")
  /\ UNCHANGED <<groupVars, status, rows, live, analyzed, outages>>

\* UpsertSession waits for the row lock of a transaction that has it; the
\* index is then read from a snapshot taken under the lock.
UpsertSession(w) ==
  /\ In(w, "upsert")
  /\ lock[SessionAt(w)] = None
  /\ lock' = [lock EXCEPT ![SessionAt(w)] = w]
  /\ next' = [next EXCEPT ![w] = MaxIndex(SessionAt(w)) + 1]
  /\ Proceed(w, "insert")
  /\ UNCHANGED <<groupVars, status, rows, live, analyzed, outages>>

NewRow(w) == [index |-> next[w], status |-> status[w]]

\* Mutant of InsertRow: no unique constraint on external_pitch_uid.
InsertRowAgain(w) ==
  /\ In(w, "insert")
  /\ rows' = [rows EXCEPT ![PitchOf(w)] = NewRow(w)]
  /\ Unlock(w)

InsertRow(w) ==
  /\ In(w, "insert")
  /\ ~ Stored(PitchOf(w))
  /\ rows' = [rows EXCEPT ![PitchOf(w)] = NewRow(w)]
  /\ Unlock(w)

InsertPitch(w) ==
  /\ InsertRow(w)
  /\ Proceed(w, "record")
  /\ UNCHANGED <<groupVars, status, next, live, analyzed, outages>>

\* Mutant of InsertDuplicate: a pitch already stored is counted again.
DuplicateCounted(w) ==
  /\ In(w, "insert")
  /\ Stored(PitchOf(w))
  /\ Unlock(w)
  /\ next' = [next EXCEPT ![w] = rows[PitchOf(w)].index]
  /\ status' = [status EXCEPT ![w] = rows[PitchOf(w)].status]
  /\ Proceed(w, "record")
  /\ UNCHANGED <<groupVars, rows, live, analyzed, outages>>

\* Mutant of InsertDuplicate: a pitch already stored is announced again.
DuplicateAnnounced(w) ==
  /\ In(w, "insert")
  /\ Stored(PitchOf(w))
  /\ Unlock(w)
  /\ next' = [next EXCEPT ![w] = rows[PitchOf(w)].index]
  /\ status' = [status EXCEPT ![w] = rows[PitchOf(w)].status]
  /\ Proceed(w, "publish")
  /\ UNCHANGED <<groupVars, rows, live, analyzed, outages>>

\* ON CONFLICT DO NOTHING returned no row: ErrDuplicate.
InsertDuplicate(w) ==
  /\ In(w, "insert")
  /\ Stored(PitchOf(w))
  /\ Unlock(w)
  /\ Return(w, "duplicate")
  /\ UNCHANGED <<status, next, rows, live, analyzed, outages>>

\* Mutant of TxFails: any failed insert is taken for a duplicate.
TxFailsAsDuplicate(w) ==
  /\ In(w, "upsert") \/ In(w, "insert")
  /\ CallFails(w, "db")
  /\ Unlock(w)
  /\ Return(w, "duplicate")
  /\ UNCHANGED <<status, next, rows, live, analyzed>>

\* Mutant of TxFails: the error is dropped and the call goes on.
TxFailsUnseen(w) ==
  /\ In(w, "insert")
  /\ CallFails(w, "db")
  /\ Unlock(w)
  /\ Proceed(w, "record")
  /\ UNCHANGED <<groupVars, status, next, rows, live, analyzed>>

\* Mutant of TxFails: the transaction is left open.
TxFailsOpen(w) ==
  /\ In(w, "upsert") \/ In(w, "insert")
  /\ CallFails(w, "db")
  /\ Return(w, "transient")
  /\ UNCHANGED <<status, next, storeVars, live, analyzed>>

\* The transaction rolls back.
TxFails(w) ==
  /\ In(w, "upsert") \/ In(w, "insert")
  /\ CallFails(w, "db")
  /\ Unlock(w)
  /\ Return(w, "transient")
  /\ UNCHANGED <<status, next, rows, live, analyzed>>

\* The server committed but the connection broke before the answer: Commit
\* reports an error for a transaction that took effect.
CommitUnknown(w) ==
  /\ CallFails(w, "db")
  /\ InsertRow(w)
  /\ Return(w, "transient")
  /\ UNCHANGED <<status, next, live, analyzed>>

RecordPitch(s) == live' = [live EXCEPT ![s] = @ + 1]

\* RecordPitch, then InvalidateAthlete, both best effort.
UpdateCache(w) ==
  /\ In(w, "record")
  /\ \/ RecordPitch(SessionAt(w)) /\ UNCHANGED outages
     \/ CallFails(w, "redis") /\ UNCHANGED live
  /\ Proceed(w, "publish")
  /\ UNCHANGED <<groupVars, status, next, storeVars, analyzed>>

\* The event buildAnalyzed made of the row the transaction inserted.
Analysis(w) == [pitch |-> PitchOf(w), index |-> next[w], status |-> status[w]]

Publish(w) ==
  /\ In(w, "publish")
  /\ analyzed' = Append(analyzed, Analysis(w))
  /\ Return(w, "ok")
  /\ UNCHANGED <<status, next, storeVars, live, outages>>

\* The writer retried a write whose acknowledgement was lost.
PublishTwice(w) ==
  /\ In(w, "publish")
  /\ Outage("broker")
  /\ analyzed' = analyzed \o <<Analysis(w), Analysis(w)>>
  /\ Return(w, "ok")
  /\ UNCHANGED <<status, next, storeVars, live>>

\* The write failed, or its last acknowledgement was lost.
PublishFails(w) ==
  /\ In(w, "publish")
  /\ CallFails(w, "broker")
  /\ analyzed' \in {analyzed, Append(analyzed, Analysis(w))}
  /\ Return(w, "transient")
  /\ UNCHANGED <<status, next, storeVars, live>>

----------------------------------------------------------------------------
HandlerStep(w) ==
  \/ Reject(w)
  \/ Predict(w)
  \/ UpsertSession(w)
  \/ InsertPitch(w)
  \/ InsertDuplicate(w)
  \/ TxFails(w)
  \/ CommitUnknown(w)
  \/ UpdateCache(w)
  \/ Publish(w)
  \/ PublishTwice(w)
  \/ PublishFails(w)

\* The database ends the transaction of a process that died.
ProcessDies(w) ==
  /\ Crash(w)
  /\ Unlock(w)
  /\ Proceed(w, "validate")
  /\ UNCHANGED <<status, next, rows, live, analyzed, outages>>

Next ==
  \/ \E p \in Partition : CoordinatorStep(p) /\ UNCHANGED pipelineVars
  \/ \E w \in Worker :
       \/ (ReaderStep(w) \/ ReaderFault(w)) /\ UNCHANGED pipelineVars
       \/ ProcessDies(w)
       \/ HandlerStep(w)

Spec == Init /\ [][Next]_vars

\* What runs by itself: the readers' loops, the handler calls they make, and
\* the coordinator's assignment of orphaned partitions.
Fairness ==
  /\ \A w \in Worker : /\ WF_vars(ReaderStep(w) /\ UNCHANGED pipelineVars)
                       /\ WF_vars(HandlerStep(w))
  /\ \A p \in Partition : WF_vars(Assign(p) /\ UNCHANGED pipelineVars)

FairSpec == Spec /\ Fairness

----------------------------------------------------------------------------
\* An offset is committed only past pitches that are in the table or have a
\* letter: nothing a device reported is lost to a crash, a rebalance or a
\* failing dependency (consumer.go, runReader; pipeline.go, HandlePitchRaw).
CommittedIsRecorded ==
  \A p \in Partition : \A o \in 1..committed[p] :
    <<p, o>> \in dlq \/ Stored(PitchAt[<<p, o>>])

\* Whatever fails and whoever is told to stop, a pitch whose offset is passed is
\* in the table, has a letter, or was given up on by its reader: a failure in
\* the handler, after its commit or in the middle of its transaction, is not
\* taken for success (pipeline.go, HandlePitchRaw and persist; consumer.go,
\* processMessage).
OnlyAbandonedIsUnrecorded ==
  \A p \in Partition : \A o \in 1..committed[p] :
    \/ <<p, o>> \in dlq \cup abandoned
    \/ Stored(PitchAt[<<p, o>>])

\* The indices of a session's pitches are 1..n, each once, although two readers
\* may hold messages of one session after a rebalance (pipeline.go, persist:
\* NextSessionPitchIndex and InsertPitch).
IndicesAreDense ==
  \A s \in Session :
    LET mine == { p \in Pitch : Stored(p) /\ SessionOf[p] = s } IN
    /\ \A p, q \in mine : rows[p].index = rows[q].index => p = q
    /\ \A p \in mine : \A i \in 1..rows[p].index : \E q \in mine : rows[q].index = i

\* Whoever hears about a pitch can read back exactly what it heard: every
\* event names a committed row and carries that row's index and status
\* (pipeline.go, HandlePitchRaw steps 5 and 6).
AnalyzedIsStored ==
  \A i \in 1..Len(analyzed) :
    rows[analyzed[i].pitch] = [index |-> analyzed[i].index, status |-> analyzed[i].status]

RowsOf(s) == { p \in Pitch : Stored(p) /\ SessionOf[p] = s }

\* The live counter counts a row at most once and never one that is not there:
\* what it shows, with the readers between their commit and their RecordPitch,
\* is at most the number of rows (pipeline.go, updateCache).
LiveNeverAhead ==
  \A s \in Session :
    LET toCome == { w \in Worker : In(w, "record") /\ SessionAt(w) = s }
    IN live[s] + Cardinality(toCome) <= Cardinality(RowsOf(s))

\* Only the call that inserted a pitch announces it: redeliveries, retries and
\* rebalances do not (pipeline.go:162-169).  A writer that retries a write
\* whose acknowledgement it lost still may.
AnnouncedOnce ==
  "broker" \notin FaultKinds =>
    \A i, j \in 1..Len(analyzed) : analyzed[i].pitch = analyzed[j].pitch => i = j

\* The events of a session leave in the order of its pitches (producer.go:95-97).
AnalyzedInOrder ==
  \A i, j \in 1..Len(analyzed) :
    /\ i < j
    /\ SessionOf[analyzed[i].pitch] = SessionOf[analyzed[j].pitch]
    => analyzed[i].index <= analyzed[j].index

\* What a handler call acknowledged is in the table.
HandledIsStored == \A m \in handled : Stored(PitchAt[m])

\* Every message in the end has its pitch in the table or a letter in the
\* queue, though transactions fail, readers die while they hold a row lock and
\* partitions change hands, unless a reader gave up on it: was told to stop while
\* retrying it, or could not write its letter (pipeline.go, persist; store.go,
\* InTx).
EventuallyRecorded ==
  \A m \in Msg : <>(m \in dlq \cup abandoned \/ Stored(PitchAt[m]))

\* A reader whose context is cancelled ends, whatever it is waiting for
\* (consumer.go, runReader and processMessage).
ShutdownCompletes == \A w \in Worker : stopping[w] ~> phase[w] = "down"

----------------------------------------------------------------------------
\* The pitches of a session in the order of their indices.
LedgerOf(s) ==
  [i \in 1..MaxIndex(s) |-> CHOOSE p \in RowsOf(s) : rows[p].index = i]

Ledger == INSTANCE PitchLedger WITH
  ledger  <- [s \in Session |-> LedgerOf(s)],
  letters <- dlq,
  offset  <- committed

\* The processor implements the ledger: with retries, duplicates, rebalances
\* and crashes hidden, a pitch is entered once, at the end of its session's
\* ledger, and the offset never passes a message without a record.
ImplementsLedger == Ledger!Spec

----------------------------------------------------------------------------
\* The whole log is consumed and nobody is working.
Drained ==
  /\ \A p \in Partition : committed[p] = LogLen[p]
  /\ \A w \in Worker : phase[w] \in {"idle", "down"}

\* "The pitch is safely stored; only the notification failed.  Returning an
\* error replays the message, and the duplicate path above makes that harmless"
\* (pipeline.go:183-185): once everything is consumed, every stored pitch has
\* been announced.
StoredIsAnnounced ==
  Drained => \A p \in Pitch : Stored(p) => \E i \in 1..Len(analyzed) : analyzed[i].pitch = p
============================================================================
