----------------------- MODULE PitchPipeline_proofs -----------------------
(***************************************************************************)
(* Proofs about PitchPipeline: types, that it is a ConsumerGroup whose     *)
(* handler stores what it acknowledges, that the pitch indices of a        *)
(* session are 1..n, that pitches are announced once and in order, that    *)
(* the live counter is never ahead, and that the processor implements the  *)
(* ledger of PitchLedger.                                                  *)
(***************************************************************************)
EXTENDS PitchPipeline, ConsumerGroup_proofs, FiniteSetTheorems, SequenceTheorems

\* The steps of a handler call leave the reader alone, but for the last one.
LEMMA HandlerStepIsGroupStep ==
  ASSUME NEW w \in Worker, HandlerStep(w)
  PROVE  Handle(w) \/ UNCHANGED groupVars
BY DEF HandlerStep, Handle, Result, Reject, Predict, UpsertSession, InsertPitch, InsertDuplicate,
   TxFails, CommitUnknown, UpdateCache, Publish, PublishTwice, PublishFails, Return

\* Every step of the processor is a step of the consumer, or invisible to it.
LEMMA StepIsGroupStep == [Next]_vars => [GroupNext]_groupVars
<1> SUFFICES ASSUME [Next]_vars PROVE [GroupNext]_groupVars
  OBVIOUS
<1>1. CASE UNCHANGED vars
  BY <1>1 DEF vars
<1>2. ASSUME NEW p \in Partition, CoordinatorStep(p) PROVE GroupNext
  BY <1>2 DEF GroupNext
<1>3. ASSUME NEW w \in Worker, ReaderStep(w) \/ ReaderFault(w) PROVE GroupNext
  BY <1>3 DEF GroupNext
<1>4. ASSUME NEW w \in Worker, ProcessDies(w) PROVE GroupNext
  BY <1>4 DEF GroupNext, ProcessDies
<1>5. ASSUME NEW w \in Worker, HandlerStep(w) PROVE [GroupNext]_groupVars
  BY <1>5, HandlerStepIsGroupStep DEF GroupNext
<1>6. QED
  BY <1>1, <1>2, <1>3, <1>4, <1>5 DEF Next

\* The processor is a consumer: its handler calls, transactions and cache
\* updates are steps of ConsumerGroup or invisible to it, so everything proved
\* of the consumer holds of the processor (pipeline.go under consumer.go).
LEMMA PipelineIsGroup == Spec => GroupSpec
<1>1. Init => GroupInit
  BY DEF Init
<1>2. QED
  BY <1>1, StepIsGroupStep, PTL DEF Spec, GroupSpec

----------------------------------------------------------------------------
\* Types, and the stage a reader without a handler call is at.
Types ==
  /\ GroupTypes
  /\ TypeOK
  /\ \A w \in Worker : phase[w] # "handling" => stage[w] = "validate"

\* The initial state is well typed.
LEMMA TypesInit == Init => Types
BY GroupTypesInit, GroupAssumption, PipelineAssumption
   DEF Init, Types, TypeOK, GroupTypes, GroupInit, Stage, Status, NoRow

\* The table's indices of a session are an initial segment; it is what makes
\* "the maximum plus one" the next free index.
Segments == \A s \in Session : \E k \in Nat : IndicesOf(s) = 1..k

\* The largest index of a session with indices 1..k is k.
LEMMA MaxOfSegment ==
  ASSUME NEW s \in Session, NEW k \in Nat, IndicesOf(s) = 1..k
  PROVE  MaxIndex(s) = k
<1>1. CASE k = 0
  BY <1>1 DEF MaxIndex
<1>2. CASE k > 0
  <2>1. k \in IndicesOf(s) /\ \A m \in IndicesOf(s) : m <= k
    BY <1>2
  <2>2. \A n \in IndicesOf(s) : (\A m \in IndicesOf(s) : m <= n) => n = k
    BY <2>1
  <2>3. QED
    BY <2>1, <2>2 DEF MaxIndex
<1>3. QED
  BY <1>1, <1>2

\* Every step keeps the types; an index stays a number because MaxIndex is one.
LEMMA TypesStep ==
  ASSUME Types, Segments, [Next]_vars
  PROVE  Types'
<1> USE PipelineAssumption, GroupAssumption DEF Types, TypeOK, Stage, Status
<1>1. GroupTypes'
  BY StepIsGroupStep, GroupTypesStep
<1>2. GroupTypeOK'
  BY <1>1 DEF GroupTypes
<1>3. CASE UNCHANGED vars
  BY <1>1, <1>2, <1>3 DEF vars, pipelineVars, callVars, storeVars, groupVars, readerVars
<1>4. ASSUME NEW p \in Partition, CoordinatorStep(p), UNCHANGED pipelineVars PROVE Types'
  BY <1>1, <1>2, <1>4 DEF CoordinatorStep, Assign, Rebalance, GiveTo,
     pipelineVars, callVars, storeVars, readerVars
<1>5. ASSUME NEW w \in Worker, ReaderStep(w) \/ ReaderFault(w), UNCHANGED pipelineVars PROVE Types'
  <2>1. \A v \in Worker : phase'[v] # "handling" => phase[v] # "handling"
    BY <1>5 DEF ReaderStep, Fetch, BackoffExpires, BackoffCancelled, WriteLetter, Commit,
       CommitCancelled, Stop, Restart, ReaderFault, LetterFails, CommitFails, Shutdown,
       LetGo, GoTo, GroupTypes, GroupTypeOK
  <2>2. QED
    BY <1>1, <1>2, <1>5, <2>1 DEF pipelineVars, callVars, storeVars
<1>6. ASSUME NEW w \in Worker, ProcessDies(w) PROVE Types'
  BY <1>1, <1>2, <1>6 DEF ProcessDies, Crash, LetGo, GoTo, Unlock, Proceed, GroupTypes, GroupTypeOK
<1>7. ASSUME NEW w \in Worker, HandlerStep(w) PROVE Types'
  <2>1. phase[w] = "handling" /\ held[w] \in Msg
    BY <1>7, MsgIsPair DEF HandlerStep, Reject, Predict, UpsertSession, InsertPitch, InsertDuplicate,
       TxFails, CommitUnknown, InsertRow, UpdateCache, Publish, PublishTwice, PublishFails, In,
       GroupTypes, GroupTypeOK
  <2>2. PitchOf(w) \in Pitch /\ SessionAt(w) \in Session
    BY <2>1 DEF PitchOf, SessionAt
  <2>3. Analysis(w) \in Event
    BY <2>2 DEF Analysis, Event
  <2>4. MaxIndex(SessionAt(w)) + 1 \in Nat
    BY <2>2, MaxOfSegment DEF Segments
  <2>5. NewRow(w) \in Row
    BY DEF NewRow, Row
  <2>6. stage' \in [Worker -> Stage] /\ \A v \in Worker : phase'[v] # "handling" => stage'[v] = "validate"
    <3>1. CASE \E result \in Result : Return(w, result)
      <4>1. \A v \in Worker : v # w => phase'[v] = phase[v]
        BY <3>1 DEF Return, HandlerReturns, GoTo, GroupTypes, GroupTypeOK
      <4>2. stage' = [stage EXCEPT ![w] = "validate"]
        BY <3>1 DEF Return, Proceed
      <4>3. QED
        BY <4>1, <4>2
    <3>2. CASE UNCHANGED phase /\ \E there \in Stage : Proceed(w, there)
      BY <2>1, <3>2 DEF Proceed
    <3>3. (\E result \in Result : Return(w, result)) \/ (UNCHANGED phase /\ \E there \in Stage : Proceed(w, there))
      BY <1>7 DEF HandlerStep, Result, Reject, Predict, UpsertSession, InsertPitch, InsertDuplicate,
         TxFails, CommitUnknown, UpdateCache, Publish, PublishTwice, PublishFails, groupVars, readerVars
    <3>4. QED
      BY <3>1, <3>2, <3>3
  <2>7. status' \in [Worker -> Status] /\ next' \in [Worker -> Nat]
    <3>1. status' = status \/ \E to \in Status : status' = [status EXCEPT ![w] = to]
      BY <1>7 DEF HandlerStep, Reject, Predict, UpsertSession, InsertPitch, InsertDuplicate,
         TxFails, CommitUnknown, UpdateCache, Publish, PublishTwice, PublishFails
    <3>2. next' = next \/ next' = [next EXCEPT ![w] = MaxIndex(SessionAt(w)) + 1]
      BY <1>7 DEF HandlerStep, Reject, Predict, UpsertSession, InsertPitch, InsertDuplicate,
         TxFails, CommitUnknown, UpdateCache, Publish, PublishTwice, PublishFails
    <3>3. next \in [Worker -> Nat] /\ status \in [Worker -> Status]
      OBVIOUS
    <3>4. status' \in [Worker -> Status]
      BY <3>1, <3>3
    <3>5. next' \in [Worker -> Nat]
      BY <2>4, <3>2, <3>3
    <3>6. QED
      BY <3>4, <3>5
  <2>8. rows' \in [Pitch -> Row \cup {NoRow}]
    BY <1>7, <2>2, <2>5 DEF HandlerStep, Reject, Predict, UpsertSession, InsertPitch, InsertDuplicate,
       TxFails, CommitUnknown, InsertRow, UpdateCache, Publish, PublishTwice, PublishFails, storeVars
  <2>9. lock' \in [Session -> Worker \cup {None}]
    BY <1>7, <2>2 DEF HandlerStep, Reject, Predict, UpsertSession, InsertPitch, InsertDuplicate, Unlock,
       TxFails, CommitUnknown, InsertRow, UpdateCache, Publish, PublishTwice, PublishFails, storeVars
  <2>10. live' \in [Session -> Nat]
    <3>1. live' = live \/ live' = [live EXCEPT ![SessionAt(w)] = live[SessionAt(w)] + 1]
      BY <1>7 DEF HandlerStep, Reject, Predict, UpsertSession, InsertPitch, InsertDuplicate,
         TxFails, CommitUnknown, UpdateCache, RecordPitch, Publish, PublishTwice, PublishFails
    <3>2. live[SessionAt(w)] + 1 \in Nat /\ live \in [Session -> Nat]
      BY <2>2
    <3> HIDE DEF SessionAt
    <3>3. QED
      BY <3>1, <3>2
  <2>11. analyzed' \in Seq(Event)
    <3>1. Append(analyzed, Analysis(w)) \in Seq(Event)
          /\ analyzed \o <<Analysis(w), Analysis(w)>> \in Seq(Event)
      BY <2>3
    <3>2. QED
      BY <1>7, <3>1 DEF HandlerStep, Reject, Predict, UpsertSession, InsertPitch, InsertDuplicate,
         TxFails, CommitUnknown, UpdateCache, Publish, PublishTwice, PublishFails
  <2>12. outages' \in Nat
    <3>1. outages' = outages \/ outages' = outages + 1
      BY <1>7 DEF HandlerStep, Reject, Predict, UpsertSession, InsertPitch, InsertDuplicate, CallFails,
         TxFails, CommitUnknown, UpdateCache, Publish, PublishTwice, PublishFails, Outage
    <3>2. QED
      BY <3>1
  <2>13. QED
    BY <1>1, <1>2, <2>6, <2>7, <2>8, <2>9, <2>10, <2>11, <2>12
<1>8. QED
  BY <1>3, <1>4, <1>5, <1>6, <1>7 DEF Next

----------------------------------------------------------------------------
(* What the handler's calls know of the tables.                            *)

\* Two pitches of a session never have the same index.
Numbered ==
  \A p, q \in Pitch :
    /\ Stored(p) /\ Stored(q) /\ SessionOf[p] = SessionOf[q] /\ rows[p].index = rows[q].index
    => p = q

\* A transaction between its two halves has its session's row lock, and the
\* index it read is still the next one.
Locking ==
  \A w \in Worker : In(w, "insert") =>
    lock[SessionAt(w)] = w /\ next[w] = MaxIndex(SessionAt(w)) + 1

\* A call past its commit carries the row it inserted.
Inserted ==
  \A w \in Worker : In(w, "record") \/ In(w, "publish") => rows[PitchOf(w)] = NewRow(w)

Inv ==
  /\ Types
  /\ Segments
  /\ Numbered
  /\ Locking
  /\ Inserted
  /\ HandledIsStored
  /\ AnalyzedIsStored

\* The empty tables satisfy the invariant.
LEMMA InvInit == Init => Inv
<1> SUFFICES ASSUME Init PROVE Inv
  OBVIOUS
<1>1. Types
  BY TypesInit
<1>2. \A p \in Pitch : ~ Stored(p)
  BY DEF Init, Stored
<1>3. \A s \in Session : IndicesOf(s) = 1..0
  BY <1>2 DEF IndicesOf
<1>4. Segments
  BY <1>3 DEF Segments
<1>5. Locking /\ Inserted /\ HandledIsStored
  BY DEF Init, GroupInit, Locking, Inserted, HandledIsStored, In
<1>6. AnalyzedIsStored
  BY DEF Init, AnalyzedIsStored
<1>7. QED
  BY <1>1, <1>2, <1>4, <1>5, <1>6 DEF Inv, Numbered

\* A reader's handler call is moved on by its own steps only.
LEMMA CallSteps ==
  ASSUME Types, [Next]_vars, NEW v \in Worker, (phase[v] = "handling")', stage'[v] # "validate"
  PROVE  /\ phase[v] = "handling"
         /\ held'[v] = held[v]
         /\ \/ stage'[v] = stage[v] /\ next'[v] = next[v] /\ status'[v] = status[v]
            \/ Predict(v) /\ stage'[v] = "upsert"
            \/ UpsertSession(v) /\ stage'[v] = "insert"
            \/ InsertPitch(v) /\ stage'[v] = "record"
            \/ UpdateCache(v) /\ stage'[v] = "publish"
<1> USE DEF Types, TypeOK, GroupTypes, GroupTypeOK
<1>1. CASE UNCHANGED vars
  BY <1>1 DEF vars, pipelineVars, callVars, groupVars, readerVars
<1>2. ASSUME NEW p \in Partition, CoordinatorStep(p), UNCHANGED pipelineVars
      PROVE  UNCHANGED <<phase, held, stage, next, status>>
  BY <1>2 DEF CoordinatorStep, Assign, Rebalance, GiveTo, pipelineVars, callVars, readerVars
<1>3. ASSUME NEW w \in Worker, ReaderStep(w) \/ ReaderFault(w), UNCHANGED pipelineVars
      PROVE  phase[v] = "handling" /\ UNCHANGED <<held[v], stage, next, status>>
  <2>1. UNCHANGED <<stage, next, status>>
    BY <1>3 DEF pipelineVars, callVars
  <2>2. phase[v] = "handling"
    BY <2>1
  <2>3. phase[w] # "handling" \/ UNCHANGED held
    BY <1>3 DEF ReaderStep, Fetch, BackoffExpires, BackoffCancelled, WriteLetter, Commit,
       CommitCancelled, Stop, Restart, ReaderFault, LetterFails, CommitFails, Shutdown
  <2>4. v # w => held'[v] = held[v]
    BY <1>3 DEF ReaderStep, Fetch, BackoffExpires, BackoffCancelled, WriteLetter, Commit,
       CommitCancelled, Stop, Restart, ReaderFault, LetterFails, CommitFails, Shutdown, LetGo
  <2>5. QED
    BY <2>1, <2>2, <2>3, <2>4
<1>4. ASSUME NEW w \in Worker, ProcessDies(w)
      PROVE  v # w /\ UNCHANGED <<phase[v], held[v], stage[v], next, status>>
  BY <1>4 DEF ProcessDies, Crash, LetGo, GoTo, Proceed
<1>5. ASSUME NEW w \in Worker, HandlerStep(w), w # v
      PROVE  UNCHANGED <<phase[v], held[v], stage[v], next[v], status[v]>>
  BY <1>5 DEF HandlerStep, Reject, Predict, UpsertSession, InsertPitch, InsertDuplicate, TxFails,
     CommitUnknown, UpdateCache, Publish, PublishTwice, PublishFails, Return, HandlerReturns,
     GoTo, Proceed, groupVars, readerVars
<1>6. ASSUME HandlerStep(v)
      PROVE  /\ phase[v] = "handling" /\ held'[v] = held[v]
             /\ \/ Predict(v) /\ stage'[v] = "upsert"
                \/ UpsertSession(v) /\ stage'[v] = "insert"
                \/ InsertPitch(v) /\ stage'[v] = "record"
                \/ UpdateCache(v) /\ stage'[v] = "publish"
  <2>1. \A result \in Result : ~ Return(v, result)
    BY DEF Return, Proceed
  <2>2. Predict(v) \/ UpsertSession(v) \/ InsertPitch(v) \/ UpdateCache(v)
    BY <1>6, <2>1 DEF HandlerStep, Reject, InsertDuplicate, TxFails, CommitUnknown, Publish,
       PublishTwice, PublishFails, Result
  <2>3. QED
    BY <2>2 DEF Predict, UpsertSession, InsertPitch, InsertRow, UpdateCache, In, Proceed,
       groupVars, readerVars
<1>7. QED
  BY <1>1, <1>2, <1>3, <1>4, <1>5, <1>6 DEF Next

\* The table changes only by the insertion of one new row.
LEMMA RowsChange ==
  ASSUME [Next]_vars
  PROVE  UNCHANGED rows \/ \E w \in Worker : InsertRow(w)
<1>1. CASE UNCHANGED vars
  BY <1>1 DEF vars, pipelineVars, storeVars
<1>2. CASE Next
  BY <1>2 DEF Next, pipelineVars, storeVars, ProcessDies, HandlerStep, Reject, Predict,
     UpsertSession, InsertPitch, InsertDuplicate, TxFails, CommitUnknown, UpdateCache, Publish,
     PublishTwice, PublishFails
<1>3. QED
  BY <1>1, <1>2

\* What is known when a row goes in: the pitch is new, and its index is one
\* more than the session's last.
LEMMA InsertedRow ==
  ASSUME Inv, NEW w \in Worker, InsertRow(w)
  PROVE  \E k \in Nat :
           /\ PitchOf(w) \in Pitch /\ SessionAt(w) \in Session
           /\ ~ Stored(PitchOf(w))
           /\ IndicesOf(SessionAt(w)) = 1..k
           /\ NewRow(w).index = k + 1
           /\ NewRow(w) # NoRow
           /\ rows' = [rows EXCEPT ![PitchOf(w)] = NewRow(w)]
<1> USE PipelineAssumption, GroupAssumption
<1>1. held[w] \in Msg
  BY DEF InsertRow, In, Inv, Types, TypeOK, GroupTypeOK
<1>2. PitchOf(w) \in Pitch /\ SessionAt(w) \in Session
  BY <1>1 DEF PitchOf, SessionAt
<1>3. PICK k \in Nat : IndicesOf(SessionAt(w)) = 1..k
  BY <1>2 DEF Inv, Segments
<1>4. next[w] = k + 1
  BY <1>2, <1>3, MaxOfSegment DEF Inv, Locking, InsertRow
<1>5. NewRow(w).index = k + 1
  BY <1>4 DEF NewRow
<1>6. NewRow(w) # NoRow
  BY <1>5 DEF NoRow
<1>7. QED
  BY <1>2, <1>3, <1>5, <1>6 DEF InsertRow

\* Rows are never changed or removed.
LEMMA RowsStay ==
  ASSUME Inv, [Next]_vars, NEW p \in Pitch, Stored(p)
  PROVE  rows'[p] = rows[p]
<1>1. CASE UNCHANGED rows
  BY <1>1
<1>2. ASSUME NEW w \in Worker, InsertRow(w) PROVE rows'[p] = rows[p]
  BY <1>2 DEF InsertRow, Inv, Types, TypeOK
<1>3. QED
  BY <1>1, <1>2, RowsChange

\* An inserted row adds its index to its session's and to no other's.
LEMMA IndicesStep ==
  ASSUME Inv, NEW w \in Worker, InsertRow(w), NEW s \in Session
  PROVE  IndicesOf(s)' = IF s = SessionAt(w) THEN IndicesOf(s) \cup {NewRow(w).index} ELSE IndicesOf(s)
<1>1. /\ PitchOf(w) \in Pitch
      /\ ~ Stored(PitchOf(w))
      /\ NewRow(w) # NoRow
      /\ rows' = [rows EXCEPT ![PitchOf(w)] = NewRow(w)]
  BY InsertedRow
<1>2. rows \in [Pitch -> Row \cup {NoRow}]
  BY DEF Inv, Types, TypeOK
<1>3. \A q \in Pitch : Stored(q)' <=> Stored(q) \/ q = PitchOf(w)
  BY <1>1, <1>2 DEF Stored
<1>4. \A q \in Pitch : rows'[q] = IF q = PitchOf(w) THEN NewRow(w) ELSE rows[q]
  BY <1>1, <1>2
<1>5. SessionAt(w) = SessionOf[PitchOf(w)]
  BY DEF SessionAt
<1> HIDE DEF PitchOf, NewRow, SessionAt, Stored
<1>6. CASE s = SessionAt(w)
  <2>1. \A n : n \in IndicesOf(s)' <=> n \in IndicesOf(s) \/ n = NewRow(w).index
    BY <1>1, <1>3, <1>4, <1>5, <1>6 DEF IndicesOf
  <2>2. QED
    BY <1>6, <2>1
<1>7. CASE s # SessionAt(w)
  BY <1>1, <1>3, <1>4, <1>5, <1>7 DEF IndicesOf
<1>8. QED
  BY <1>6, <1>7

\* Insertions keep the numbering gapless and without repetitions.
LEMMA NumberingStep ==
  ASSUME Inv, [Next]_vars
  PROVE  Segments' /\ Numbered'
<1>1. CASE UNCHANGED rows
  BY <1>1 DEF Inv, Segments, Numbered, IndicesOf, Stored
<1>2. ASSUME NEW w \in Worker, InsertRow(w) PROVE Segments' /\ Numbered'
  <2>1. PICK k \in Nat :
           /\ PitchOf(w) \in Pitch /\ SessionAt(w) \in Session
           /\ ~ Stored(PitchOf(w))
           /\ IndicesOf(SessionAt(w)) = 1..k
           /\ NewRow(w).index = k + 1
           /\ NewRow(w) # NoRow
           /\ rows' = [rows EXCEPT ![PitchOf(w)] = NewRow(w)]
    BY <1>2, InsertedRow
  <2>2. Segments'
    <3> SUFFICES ASSUME NEW s \in Session PROVE \E j \in Nat : IndicesOf(s)' = 1..j
      BY DEF Segments
    <3>1. CASE s = SessionAt(w)
      <4>1. IndicesOf(s)' = (1..k) \cup {k + 1}
        BY <1>2, <2>1, <3>1, IndicesStep
      <4>2. (1..k) \cup {k + 1} = 1..(k + 1) /\ k + 1 \in Nat
        OBVIOUS
      <4>3. QED
        BY <4>1, <4>2
    <3>2. CASE s # SessionAt(w)
      BY <1>2, <3>2, IndicesStep DEF Inv, Segments
    <3>3. QED
      BY <3>1, <3>2
  <2>3. Numbered'
    <3>1. rows \in [Pitch -> Row \cup {NoRow}]
      BY DEF Inv, Types, TypeOK
    <3>2. \A q \in Pitch : rows'[q] = IF q = PitchOf(w) THEN NewRow(w) ELSE rows[q]
      BY <2>1, <3>1
    <3>3. \A q \in Pitch : Stored(q)' /\ q # PitchOf(w) => Stored(q)
      BY <3>2 DEF Stored
    <3>4. \A q \in Pitch : Stored(q) /\ SessionOf[q] = SessionAt(w) => rows[q].index # k + 1
      <4>1. \A q \in Pitch : Stored(q) /\ SessionOf[q] = SessionAt(w) => rows[q].index \in 1..k
        BY <2>1 DEF IndicesOf
      <4>2. QED
        BY <4>1
    <3>5. SessionAt(w) = SessionOf[PitchOf(w)]
      BY DEF SessionAt
    <3> SUFFICES ASSUME NEW p \in Pitch, NEW q \in Pitch, Stored(p)', Stored(q)',
                        SessionOf[p] = SessionOf[q], rows'[p].index = rows'[q].index
                 PROVE  p = q
      BY DEF Numbered
    <3> HIDE DEF PitchOf, SessionAt, NewRow, Stored
    <3>6. CASE p # PitchOf(w) /\ q # PitchOf(w)
      BY <3>6, <3>2, <3>3 DEF Inv, Numbered
    <3>7. CASE p = PitchOf(w) /\ q # PitchOf(w)
      BY <2>1, <3>7, <3>2, <3>3, <3>4, <3>5
    <3>8. CASE p # PitchOf(w) /\ q = PitchOf(w)
      BY <2>1, <3>8, <3>2, <3>3, <3>4, <3>5
    <3>9. QED
      BY <3>6, <3>7, <3>8
  <2>4. QED
    BY <2>2, <2>3
<1>3. QED
  BY <1>1, <1>2, RowsChange

\* A row lock is released by the reader that holds it, and taken when free.
LEMMA LocksChange ==
  ASSUME Types, [Next]_vars
  PROVE  \/ UNCHANGED lock
         \/ \E w \in Worker : Unlock(w) /\ (phase'[w] # "handling" \/ stage'[w] # "insert")
         \/ \E w \in Worker : lock[SessionAt(w)] = None /\ lock' = [lock EXCEPT ![SessionAt(w)] = w]
<1> USE DEF Types, TypeOK
<1>1. CASE UNCHANGED vars
  BY <1>1 DEF vars, pipelineVars, storeVars
<1>2. ASSUME NEW w \in Worker, ProcessDies(w) \/ HandlerStep(w), ~ UNCHANGED lock, ~ UpsertSession(w)
      PROVE  Unlock(w) /\ stage'[w] # "insert"
  BY <1>2 DEF ProcessDies, HandlerStep, Reject, Predict, InsertPitch, InsertRow,
     InsertDuplicate, TxFails, CommitUnknown, UpdateCache, Publish, PublishTwice, PublishFails,
     Return, Proceed, storeVars
<1>3. ASSUME NEW w \in Worker, UpsertSession(w)
      PROVE  lock[SessionAt(w)] = None /\ lock' = [lock EXCEPT ![SessionAt(w)] = w]
  BY <1>3 DEF UpsertSession
<1>4. CASE Next
  BY <1>2, <1>3, <1>4 DEF Next, pipelineVars, storeVars
<1>5. QED
  BY <1>1, <1>4

\* While a transaction holds the row lock nobody inserts into its session, so the
\* index it read stays the next one.
LEMMA LockingStep ==
  ASSUME Inv, Types', [Next]_vars
  PROVE  Locking'
<1> SUFFICES ASSUME NEW v \in Worker, In(v, "insert")'
             PROVE  (lock[SessionAt(v)] = v)' /\ (next[v] = MaxIndex(SessionAt(v)) + 1)'
  BY DEF Locking
<1> USE PipelineAssumption, GroupAssumption
<1>1. phase'[v] = "handling" /\ stage'[v] = "insert"
  BY DEF In
<1>2. /\ phase[v] = "handling" /\ held'[v] = held[v]
      /\ \/ stage[v] = "insert" /\ next'[v] = next[v]
         \/ UpsertSession(v)
  BY <1>1, CallSteps DEF Inv
<1>3. SessionAt(v)' = SessionAt(v) /\ SessionAt(v) \in Session
  BY <1>2 DEF SessionAt, PitchOf, Inv, Types, TypeOK, GroupTypeOK
<1> DEFINE s == SessionAt(v)
<1>4. CASE UpsertSession(v)
  <2>1. UNCHANGED rows /\ lock' = [lock EXCEPT ![s] = v] /\ next' = [next EXCEPT ![v] = MaxIndex(s) + 1]
    BY <1>4 DEF UpsertSession
  <2>2. (MaxIndex(SessionAt(v)))' = MaxIndex(s)
    BY <1>3, <2>1 DEF MaxIndex, IndicesOf, Stored
  <2>3. lock'[s] = v /\ next'[v] = MaxIndex(s) + 1
    BY <1>3, <2>1 DEF Inv, Types, TypeOK
  <2>4. QED
    BY <1>3, <2>2, <2>3
<1>5. CASE stage[v] = "insert" /\ next'[v] = next[v]
  <2>1. lock[s] = v /\ next[v] = MaxIndex(s) + 1
    BY <1>2, <1>5 DEF Inv, Locking, In
  <2>2. lock'[s] = v
    <3>1. CASE UNCHANGED lock
      BY <2>1, <3>1
    <3>2. ASSUME NEW w \in Worker, Unlock(w), phase'[w] # "handling" \/ stage'[w] # "insert"
          PROVE  lock'[s] = v
      BY <1>1, <1>3, <2>1, <3>2 DEF Unlock
    <3>3. ASSUME NEW w \in Worker, lock[SessionAt(w)] = None, lock' = [lock EXCEPT ![SessionAt(w)] = w]
          PROVE  lock'[s] = v
      BY <1>3, <2>1, <3>3 DEF Inv, Types, TypeOK
    <3>4. QED
      BY <3>1, <3>2, <3>3, LocksChange DEF Inv
  <2>3. IndicesOf(s)' = IndicesOf(s)
    <3>1. CASE UNCHANGED rows
      BY <1>3, <3>1 DEF IndicesOf, Stored
    <3>2. ASSUME NEW w \in Worker, InsertRow(w) PROVE IndicesOf(s)' = IndicesOf(s)
      <4>1. lock[SessionAt(w)] = w
        BY <3>2 DEF InsertRow, Inv, Locking
      <4>2. w # v
        <5>1. SUFFICES ASSUME InsertRow(v) PROVE FALSE
          BY <3>2
        <5>2. rows' # rows
          BY <5>1, InsertedRow DEF Inv, Types, TypeOK, Stored
        <5>3. Unlock(v)
          BY <5>1 DEF InsertRow
        <5>4. lock'[s] # v
          BY <1>3, <5>3 DEF Unlock
        <5>5. QED
          BY <2>2, <5>4
      <4>3. s # SessionAt(w)
        BY <2>1, <4>1, <4>2
      <4>4. IndicesOf(SessionAt(v))' = IndicesOf(SessionAt(v))
        <5>1. \A t \in Session : t # SessionAt(w) => IndicesOf(t)' = IndicesOf(t)
          BY <3>2, IndicesStep
        <5>2. QED
          BY <1>3, <4>3, <5>1 DEF IndicesOf, Stored
      <4>5. QED
        BY <1>3, <4>4
    <3>3. QED
      BY <3>1, <3>2, RowsChange
  <2>4. MaxIndex(SessionAt(v))' = MaxIndex(s)
    BY <1>3, <2>3 DEF MaxIndex
  <2>5. QED
    BY <1>3, <1>5, <2>1, <2>2, <2>4
<1>6. QED
  BY <1>2, <1>4, <1>5

\* The row a call inserted stays what it was until the call has published it.
LEMMA InsertedStep ==
  ASSUME Inv, Types', [Next]_vars
  PROVE  Inserted'
<1> SUFFICES ASSUME NEW v \in Worker, In(v, "record")' \/ In(v, "publish")'
             PROVE  (rows[PitchOf(v)] = NewRow(v))'
  BY DEF Inserted
<1> USE PipelineAssumption, GroupAssumption
<1>1. phase'[v] = "handling" /\ stage'[v] \in {"record", "publish"}
  BY DEF In
<1>2. phase[v] = "handling" /\ PitchOf(v)' = PitchOf(v) /\ PitchOf(v) \in Pitch
  BY <1>1, CallSteps DEF PitchOf, Inv, Types, TypeOK, GroupTypeOK
<1>3. CASE InsertPitch(v)
  <2>1. rows'[PitchOf(v)] = NewRow(v)
    BY <1>2, <1>3, InsertedRow DEF InsertPitch, Inv, Types, TypeOK
  <2>2. NewRow(v)' = NewRow(v)
    BY <1>3 DEF InsertPitch, NewRow
  <2>3. QED
    BY <1>2, <2>1, <2>2
<1>4. CASE stage[v] \in {"record", "publish"} /\ next'[v] = next[v] /\ status'[v] = status[v]
  <2>1. rows[PitchOf(v)] = NewRow(v)
    BY <1>2, <1>4 DEF Inv, Inserted, In
  <2>2. rows'[PitchOf(v)] = rows[PitchOf(v)]
    <3>1. CASE UNCHANGED rows
      BY <3>1
    <3>2. ASSUME NEW w \in Worker, InsertRow(w) PROVE rows'[PitchOf(v)] = rows[PitchOf(v)]
      <4>1. PitchOf(v) # PitchOf(w)
        <5>1. NewRow(v) # NoRow
          BY DEF NewRow, NoRow, Inv, Types, TypeOK, Status
        <5>2. QED
          BY <2>1, <3>2, <5>1 DEF InsertRow, Stored
      <4>2. QED
        BY <3>2, <4>1, <1>2 DEF InsertRow, Inv, Types, TypeOK
    <3>3. QED
      BY <3>1, <3>2, RowsChange
  <2>3. NewRow(v)' = NewRow(v)
    BY <1>4 DEF NewRow
  <2>4. QED
    BY <1>2, <2>1, <2>2, <2>3
<1>5. CASE UpdateCache(v)
  BY <1>5, <1>2 DEF UpdateCache, Inv, Inserted, In, NewRow, storeVars
<1>6. QED
  BY <1>1, <1>3, <1>4, <1>5, CallSteps DEF Inv

\* Only a call that found the pitch in the table acknowledges its message.
LEMMA HandledStep ==
  ASSUME Inv, [Next]_vars
  PROVE  HandledIsStored'
<1> USE PipelineAssumption, GroupAssumption
<1>1. \A m \in Msg : Stored(PitchAt[m]) => Stored(PitchAt[m])'
  BY RowsStay DEF Stored
<1>2. \A m \in handled : m \in Msg
  BY DEF Inv, Types, TypeOK, GroupTypeOK
<1>3. CASE UNCHANGED handled
  BY <1>1, <1>2, <1>3 DEF HandledIsStored, Inv
<1>4. ASSUME NEW w \in Worker, handled' = handled \cup {held[w]}, Stored(PitchOf(w)), held[w] \in Msg
      PROVE  HandledIsStored'
  BY <1>1, <1>2, <1>4 DEF HandledIsStored, Inv, PitchOf
<1>5. CASE UNCHANGED vars
  BY <1>3, <1>5 DEF vars, groupVars
<1>6. ASSUME NEW p \in Partition, CoordinatorStep(p) PROVE UNCHANGED handled
  BY <1>6 DEF CoordinatorStep, Assign, Rebalance, GiveTo
<1>7. ASSUME NEW w \in Worker, ReaderStep(w) \/ ReaderFault(w) \/ ProcessDies(w) PROVE UNCHANGED handled
  BY <1>7 DEF ReaderStep, Fetch, BackoffExpires, BackoffCancelled, WriteLetter, Commit,
     CommitCancelled, Stop, Restart, ReaderFault, LetterFails, CommitFails, Shutdown, ProcessDies, Crash
<1>8. ASSUME NEW w \in Worker, HandlerStep(w) PROVE HandledIsStored'
  <2>1. held[w] \in Msg
    BY <1>8 DEF HandlerStep, Reject, Predict, UpsertSession, InsertPitch, InsertDuplicate, TxFails,
       CommitUnknown, InsertRow, UpdateCache, Publish, PublishTwice, PublishFails, In, Inv, Types,
       TypeOK, GroupTypeOK
  <2>2. CASE InsertDuplicate(w)
    BY <2>1, <2>2, <1>4 DEF InsertDuplicate, Return, HandlerReturns
  <2>3. CASE Publish(w) \/ PublishTwice(w)
    <3>1. rows[PitchOf(w)] = NewRow(w)
      BY <2>3 DEF Publish, PublishTwice, Inv, Inserted
    <3>2. NewRow(w) # NoRow
      BY DEF NewRow, NoRow, Inv, Types, TypeOK, Status
    <3>3. Stored(PitchOf(w))
      BY <3>1, <3>2 DEF Stored
    <3>4. QED
      BY <2>1, <2>3, <3>3, <1>4 DEF Publish, PublishTwice, Return, HandlerReturns
  <2>4. CASE Reject(w) \/ TxFails(w) \/ CommitUnknown(w) \/ PublishFails(w)
    BY <2>4, <1>3 DEF Reject, TxFails, CommitUnknown, PublishFails, Return, HandlerReturns
  <2>5. CASE Predict(w) \/ UpsertSession(w) \/ InsertPitch(w) \/ UpdateCache(w)
    BY <2>5, <1>3 DEF Predict, UpsertSession, InsertPitch, UpdateCache, groupVars
  <2>6. QED
    BY <1>8, <2>2, <2>3, <2>4, <2>5 DEF HandlerStep
<1>9. QED
  BY <1>3, <1>5, <1>6, <1>7, <1>8 DEF Next

\* An event tells of a row when the row is what the event says.
TellsOf(e) == rows[e.pitch] = [index |-> e.index, status |-> e.status]

\* Every call that publishes publishes the row it inserted, once or twice.
LEMMA Published ==
  ASSUME Inv, [Next]_vars
  PROVE  \/ UNCHANGED analyzed
         \/ \E e \in Event : /\ TellsOf(e)
                            /\ UNCHANGED rows
                            /\ analyzed' \in {Append(analyzed, e), analyzed \o <<e, e>>}
<1> USE PipelineAssumption, GroupAssumption
<1>1. CASE UNCHANGED vars
  BY <1>1 DEF vars, pipelineVars
<1>2. ASSUME NEW w \in Worker, Publish(w) \/ PublishTwice(w) \/ PublishFails(w)
      PROVE  /\ Analysis(w) \in Event
             /\ TellsOf(Analysis(w))
             /\ UNCHANGED rows
             /\ \/ UNCHANGED analyzed
                \/ analyzed' \in {Append(analyzed, Analysis(w)), analyzed \o <<Analysis(w), Analysis(w)>>}
  <2>1. In(w, "publish")
    BY <1>2 DEF Publish, PublishTwice, PublishFails
  <2>2. rows[PitchOf(w)] = NewRow(w)
    BY <2>1 DEF Inv, Inserted
  <2>3. TellsOf(Analysis(w))
    BY <2>2 DEF TellsOf, Analysis, NewRow
  <2>4. held[w] \in Msg
    BY <2>1 DEF In, Inv, Types, TypeOK, GroupTypeOK
  <2>5. Analysis(w) \in Event
    BY <2>4 DEF Analysis, Event, PitchOf, Inv, Types, TypeOK
  <2>6. QED
    BY <1>2, <2>3, <2>5 DEF Publish, PublishTwice, PublishFails, storeVars
<1>3. CASE Next
  <2>1. CASE \E w \in Worker : Publish(w) \/ PublishTwice(w) \/ PublishFails(w)
    BY <1>2, <2>1
  <2>2. CASE ~ \E w \in Worker : Publish(w) \/ PublishTwice(w) \/ PublishFails(w)
    BY <1>3, <2>2 DEF Next, pipelineVars, ProcessDies, HandlerStep, Reject, Predict,
       UpsertSession, InsertPitch, InsertDuplicate, TxFails, CommitUnknown, UpdateCache
  <2>3. QED
    BY <2>1, <2>2
<1>4. QED
  BY <1>1, <1>3

\* A published event goes on saying what its row says.
LEMMA AnalyzedStep ==
  ASSUME Inv, [Next]_vars
  PROVE  AnalyzedIsStored'
<1>1. analyzed \in Seq(Event)
  BY DEF Inv, Types, TypeOK
<1>2. \A i \in 1..Len(analyzed) : analyzed[i] \in Event /\ TellsOf(analyzed[i])
  BY <1>1 DEF Inv, AnalyzedIsStored, TellsOf
<1>3. CASE UNCHANGED analyzed
  <2>1. \A e \in Event : TellsOf(e) => TellsOf(e)'
    <3> SUFFICES ASSUME NEW e \in Event, TellsOf(e) PROVE TellsOf(e)'
      OBVIOUS
    <3>1. e.pitch \in Pitch /\ e.status \in Status
      BY DEF Event
    <3>2. Stored(e.pitch)
      BY <3>1 DEF TellsOf, Stored, NoRow, Status
    <3>3. QED
      BY <3>1, <3>2, RowsStay DEF TellsOf
  <2>2. QED
    BY <1>2, <1>3, <2>1 DEF AnalyzedIsStored, TellsOf
<1>4. ASSUME NEW e \in Event, TellsOf(e), UNCHANGED rows,
             analyzed' \in {Append(analyzed, e), analyzed \o <<e, e>>}
      PROVE  AnalyzedIsStored'
  <2>1. \A i \in 1..Len(analyzed') : analyzed'[i] = e \/ \E j \in 1..Len(analyzed) : analyzed'[i] = analyzed[j]
    <3>1. CASE analyzed' = Append(analyzed, e)
      BY <1>1, <3>1
    <3>2. CASE analyzed' = analyzed \o <<e, e>>
      BY <1>1, <3>2
    <3>3. QED
      BY <1>4, <3>1, <3>2
  <2>2. \A i \in 1..Len(analyzed') : TellsOf(analyzed'[i])
    BY <1>2, <1>4, <2>1
  <2>3. QED
    BY <1>4, <2>2 DEF AnalyzedIsStored, TellsOf
<1>5. QED
  BY <1>3, <1>4, Published

\* The invariant is inductive.
LEMMA InvStep == Inv /\ [Next]_vars => Inv'
<1> SUFFICES ASSUME Inv, [Next]_vars PROVE Inv'
  OBVIOUS
<1>1. Types'
  BY TypesStep DEF Inv
<1>2. QED
  BY <1>1, NumberingStep, LockingStep, InsertedStep, HandledStep, AnalyzedStep DEF Inv

\* The invariant holds in every reachable state of the processor.
THEOREM Invariance == Spec => []Inv
BY InvInit, InvStep, PTL DEF Spec

----------------------------------------------------------------------------
\* Type correctness of the processor, its tables, caches and topics.
THEOREM TypeCorrect == Spec => []TypeOK
<1>1. Inv => TypeOK
  BY DEF Inv, Types
<1>2. QED
  BY <1>1, Invariance, PTL

\* The index NextSessionPitchIndex computes is right under every interleaving
\* of transactions, crashes and rebalances: a session's pitches are numbered
\* 1..n, each index once (pipeline.go, persist).
THEOREM DenseIndices == Spec => []IndicesAreDense
<1>1. ASSUME Inv PROVE IndicesAreDense
  <2> USE <1>1, PipelineAssumption DEF Inv
  <2> SUFFICES ASSUME NEW s \in Session
               PROVE  LET mine == { p \in Pitch : Stored(p) /\ SessionOf[p] = s } IN
                      /\ \A p, q \in mine : rows[p].index = rows[q].index => p = q
                      /\ \A p \in mine : \A i \in 1..rows[p].index : \E q \in mine : rows[q].index = i
    BY DEF IndicesAreDense
  <2> DEFINE mine == { p \in Pitch : Stored(p) /\ SessionOf[p] = s }
  <2>1. \A p, q \in mine : rows[p].index = rows[q].index => p = q
    BY DEF Numbered
  <2>2. PICK k \in Nat : IndicesOf(s) = 1..k
    BY DEF Segments
  <2>3. \A p \in mine : rows[p].index \in 1..k
    BY <2>2 DEF IndicesOf
  <2>4. \A i \in 1..k : \E q \in mine : rows[q].index = i
    BY <2>2 DEF IndicesOf
  <2>5. \A p \in mine : \A i \in 1..rows[p].index : i \in 1..k
    BY <2>3
  <2>6. QED
    BY <2>1, <2>4, <2>5
<1>2. QED
  BY <1>1, Invariance, PTL

\* No event is published of a pitch that is not committed, and none that says
\* anything else than its row does, whatever fails in between (pipeline.go,
\* HandlePitchRaw steps 4 to 6).
THEOREM AnalyzedFromTable == Spec => []AnalyzedIsStored
<1>1. Inv => AnalyzedIsStored
  BY DEF Inv
<1>2. QED
  BY <1>1, Invariance, PTL

\* No pitch is lost: with a dead-letter topic, and without its writes failing
\* and without a shutdown, an offset is committed only past pitches that are
\* in the table or have a letter.  It joins the two halves: the consumer
\* commits what its handler acknowledged, and the handler acknowledges what it
\* has stored (consumer.go, runReader; pipeline.go, HandlePitchRaw).
THEOREM NothingLost ==
  ASSUME Lossless
  PROVE  Spec => []CommittedIsRecorded
<1>1. ASSUME Inv, GroupTypes, CommittedIsSettled PROVE CommittedIsRecorded
  <2> SUFFICES ASSUME NEW p \in Partition, NEW o \in 1..committed[p]
               PROVE  <<p, o>> \in dlq \/ Stored(PitchAt[<<p, o>>])
    BY DEF CommittedIsRecorded
  <2>1. Settled(<<p, o>>)
    BY <1>1 DEF CommittedIsSettled
  <2>2. QED
    BY <1>1, <2>1 DEF Settled, Inv, HandledIsStored
<1>2. GroupSpec => []CommittedIsSettled
  BY Lossless, AtLeastOnce
<1>3. QED
  BY <1>1, <1>2, Invariance, PipelineIsGroup, GroupTypeCorrect, PTL

\* What is committed and in neither the table nor the dead-letter topic was
\* abandoned, whatever fails, dies or is told to stop (pipeline.go,
\* HandlePitchRaw; consumer.go, processMessage).
THEOREM NothingElseIsUnrecorded == Spec => []OnlyAbandonedIsUnrecorded
<1>1. ASSUME Inv, GroupTypes, OnlyAbandonedIsLost PROVE OnlyAbandonedIsUnrecorded
  <2> SUFFICES ASSUME NEW p \in Partition, NEW o \in 1..committed[p]
               PROVE  <<p, o>> \in dlq \cup abandoned \/ Stored(PitchAt[<<p, o>>])
    BY DEF OnlyAbandonedIsUnrecorded
  <2>1. Settled(<<p, o>>) \/ <<p, o>> \in abandoned
    BY <1>1 DEF OnlyAbandonedIsLost
  <2>2. QED
    BY <1>1, <2>1 DEF Settled, Inv, HandledIsStored
<1>2. QED
  BY <1>1, NothingElseIsLost, Invariance, PipelineIsGroup, GroupTypeCorrect, PTL

\* A garbled message is not committed past without its letter, also when
\* readers are told to stop (consumer.go, processMessage).
THEOREM GarbledIsKept ==
  ASSUME LettersAreWritten
  PROVE  Spec => []GarbledIsLettered
<1>1. GroupSpec => []GarbledIsLettered
  BY LettersAreWritten, GarbledHasLetter
<1>2. QED
  BY <1>1, PipelineIsGroup, PTL

----------------------------------------------------------------------------
(* Who announces: only the call that inserted a pitch gets past its        *)
(* commit, so between the commit and the event a pitch belongs to one call *)
(* and has not been announced.                                             *)

Telling(w) == In(w, "record") \/ In(w, "publish")

OneTeller ==
  \A v, w \in Worker : v # w /\ Telling(v) /\ Telling(w) => PitchOf(v) # PitchOf(w)

NotYetTold ==
  \A w \in Worker : Telling(w) => \A i \in 1..Len(analyzed) : analyzed[i].pitch # PitchOf(w)

AnnouncedInv == OneTeller /\ NotYetTold /\ AnnouncedOnce

\* A call tells of its pitch because it already did or has just inserted it.
LEMMA TellersStep ==
  ASSUME Inv, [Next]_vars, NEW v \in Worker, Telling(v)'
  PROVE  /\ PitchOf(v)' = PitchOf(v) /\ PitchOf(v) \in Pitch
         /\ SessionAt(v)' = SessionAt(v) /\ SessionAt(v) \in Session
         /\ \/ Telling(v) /\ next'[v] = next[v] /\ (stage'[v] = stage[v] \/ stage'[v] = "publish")
            \/ InsertPitch(v) /\ ~ Stored(PitchOf(v))
<1> USE PipelineAssumption, GroupAssumption
<1>1. phase'[v] = "handling" /\ stage'[v] \in {"record", "publish"}
  BY DEF Telling, In
<1>2. phase[v] = "handling" /\ held'[v] = held[v]
  BY <1>1, CallSteps DEF Inv
<1>3. PitchOf(v)' = PitchOf(v) /\ PitchOf(v) \in Pitch
  BY <1>2 DEF PitchOf, Inv, Types, TypeOK, GroupTypeOK
<1>4. SessionAt(v)' = SessionAt(v) /\ SessionAt(v) \in Session
  BY <1>3 DEF SessionAt
<1>5. CASE stage'[v] = stage[v] /\ next'[v] = next[v]
  BY <1>1, <1>2, <1>3, <1>4, <1>5 DEF Telling, In
<1>6. CASE InsertPitch(v)
  BY <1>3, <1>4, <1>6 DEF InsertPitch, InsertRow
<1>7. CASE UpdateCache(v)
  BY <1>1, <1>2, <1>3, <1>4, <1>7 DEF UpdateCache, Telling, In, Proceed, Inv, Types, TypeOK
<1>8. QED
  BY <1>1, <1>5, <1>6, <1>7, CallSteps DEF Inv

\* A pitch that is being told of, or has been, is in the table.
LEMMA ToldIsStored ==
  ASSUME Inv
  PROVE  /\ \A w \in Worker : Telling(w) => Stored(PitchOf(w))
         /\ \A i \in 1..Len(analyzed) : analyzed[i] \in Event /\ Stored(analyzed[i].pitch)
<1>1. ASSUME NEW w \in Worker, Telling(w) PROVE Stored(PitchOf(w))
  <2>1. NewRow(w) # NoRow
    BY DEF NewRow, NoRow, Inv, Types, TypeOK, Status
  <2>2. QED
    BY <1>1, <2>1 DEF Inv, Inserted, Telling, Stored
<1>2. ASSUME NEW i \in 1..Len(analyzed) PROVE analyzed[i] \in Event /\ Stored(analyzed[i].pitch)
  <2>1. analyzed[i] \in Event
    BY DEF Inv, Types, TypeOK
  <2>2. [index |-> analyzed[i].index, status |-> analyzed[i].status] # NoRow
    BY <2>1 DEF Event, NoRow, Status
  <2>3. QED
    BY <2>1, <2>2 DEF Inv, AnalyzedIsStored, Stored
<1>3. QED
  BY <1>1, <1>2

\* What is published is published by a call that ends with it.
LEMMA PublishedBy ==
  ASSUME Inv, [Next]_vars
  PROVE  \/ UNCHANGED analyzed
         \/ \E w \in Worker :
              /\ In(w, "publish") /\ ~ Telling(w)' /\ UNCHANGED rows
              /\ Analysis(w) \in Event
              /\ \/ analyzed' = Append(analyzed, Analysis(w))
                 \/ /\ analyzed' = analyzed \o <<Analysis(w), Analysis(w)>>
                    /\ "broker" \in FaultKinds
<1> USE PipelineAssumption, GroupAssumption
<1>1. CASE UNCHANGED vars
  BY <1>1 DEF vars, pipelineVars
<1>2. ASSUME NEW w \in Worker, Publish(w) \/ PublishTwice(w) \/ PublishFails(w)
      PROVE  /\ In(w, "publish") /\ ~ Telling(w)' /\ UNCHANGED rows
             /\ Analysis(w) \in Event
             /\ \/ UNCHANGED analyzed
                \/ analyzed' = Append(analyzed, Analysis(w))
                \/ /\ analyzed' = analyzed \o <<Analysis(w), Analysis(w)>>
                   /\ "broker" \in FaultKinds
  <2>1. In(w, "publish") /\ UNCHANGED rows /\ stage'[w] = "validate"
    BY <1>2 DEF Publish, PublishTwice, PublishFails, Return, Proceed, storeVars, Inv, Types, TypeOK
  <2>2. ~ Telling(w)'
    BY <2>1 DEF Telling, In
  <2>3. held[w] \in Msg
    BY <2>1 DEF In, Inv, Types, TypeOK, GroupTypeOK
  <2>4. Analysis(w) \in Event
    BY <2>3 DEF Analysis, Event, PitchOf, Inv, Types, TypeOK
  <2>5. QED
    BY <1>2, <2>1, <2>2, <2>4 DEF Publish, PublishTwice, PublishFails, Outage
<1>3. CASE Next
  <2>1. CASE \E w \in Worker : Publish(w) \/ PublishTwice(w) \/ PublishFails(w)
    BY <1>2, <2>1
  <2>2. CASE ~ \E w \in Worker : Publish(w) \/ PublishTwice(w) \/ PublishFails(w)
    BY <1>3, <2>2 DEF Next, pipelineVars, ProcessDies, HandlerStep, Reject, Predict,
       UpsertSession, InsertPitch, InsertDuplicate, TxFails, CommitUnknown, UpdateCache
  <2>3. QED
    BY <2>1, <2>2
<1>4. QED
  BY <1>1, <1>3

\* What was told stays told once, and one call tells.
LEMMA AnnouncedStep ==
  ASSUME Inv, AnnouncedInv, [Next]_vars
  PROVE  AnnouncedInv'
<1> USE PipelineAssumption, GroupAssumption
<1> DEFINE Inserting(v) == InsertPitch(v) /\ ~ Stored(PitchOf(v))
<1>1. ASSUME NEW v \in Worker, Telling(v)'
      PROVE  /\ PitchOf(v)' = PitchOf(v)
             /\ Telling(v) \/ Inserting(v)
  BY <1>1, TellersStep
<1>2. OneTeller'
  <2> SUFFICES ASSUME NEW v \in Worker, NEW w \in Worker, v # w, Telling(v)', Telling(w)'
               PROVE  PitchOf(v) # PitchOf(w)
    BY <1>1 DEF OneTeller
  <2>1. CASE Telling(v) /\ Telling(w)
    BY <2>1 DEF AnnouncedInv, OneTeller
  <2>2. ~ (Inserting(v) /\ Inserting(w))
    BY DEF InsertPitch, InsertRow, In, Proceed, Inv, Types, TypeOK
  <2>3. CASE Telling(v) /\ Inserting(w)
    BY <2>3, ToldIsStored
  <2>4. CASE Inserting(v) /\ Telling(w)
    BY <2>4, ToldIsStored
  <2>5. QED
    BY <1>1, <2>1, <2>2, <2>3, <2>4
<1>3. NotYetTold' /\ AnnouncedOnce'
  <2>0. analyzed \in Seq(Event)
    BY DEF Inv, Types, TypeOK
  <2>1. ASSUME NEW v \in Worker, Telling(v)', NEW i \in 1..Len(analyzed)
        PROVE  analyzed[i].pitch # PitchOf(v)
    BY <1>1, <2>1, ToldIsStored DEF AnnouncedInv, NotYetTold
  <2>2. CASE UNCHANGED analyzed
    BY <1>1, <2>1, <2>2 DEF NotYetTold, AnnouncedInv, AnnouncedOnce
  <2>3. ASSUME NEW w \in Worker, In(w, "publish"), ~ Telling(w)', Analysis(w) \in Event,
               \/ analyzed' = Append(analyzed, Analysis(w))
               \/ /\ analyzed' = analyzed \o <<Analysis(w), Analysis(w)>>
                  /\ "broker" \in FaultKinds
        PROVE  NotYetTold' /\ AnnouncedOnce'
    <3> DEFINE new == PitchOf(w)
    <3>1. Telling(w) /\ Analysis(w).pitch = new
      BY <2>3 DEF Telling, Analysis
    <3>2. \A i \in 1..Len(analyzed') :
             (i <= Len(analyzed) /\ analyzed'[i] = analyzed[i])
             \/ (i > Len(analyzed) /\ analyzed'[i].pitch = new)
      BY <2>0, <2>3, <3>1
    <3>3. ASSUME NEW v \in Worker, Telling(v)' PROVE PitchOf(v) # new
      BY <1>1, <2>3, <3>1, <3>3, ToldIsStored DEF AnnouncedInv, OneTeller
    <3>4. NotYetTold'
      <4> SUFFICES ASSUME NEW v \in Worker, Telling(v)', NEW i \in 1..Len(analyzed')
                   PROVE  analyzed'[i].pitch # PitchOf(v)
        BY <1>1 DEF NotYetTold
      <4>1. CASE i <= Len(analyzed) /\ analyzed'[i] = analyzed[i]
        BY <2>0, <2>1, <4>1
      <4>2. CASE analyzed'[i].pitch = new
        BY <3>3, <4>2
      <4>3. QED
        BY <3>2, <4>1, <4>2
    <3>5. AnnouncedOnce'
      <4>1. SUFFICES ASSUME "broker" \notin FaultKinds,
                            NEW i \in 1..Len(analyzed'), NEW j \in 1..Len(analyzed'),
                            analyzed'[i].pitch = analyzed'[j].pitch
                     PROVE  i = j
        BY DEF AnnouncedOnce
      <4>2. Len(analyzed') = Len(analyzed) + 1
        BY <2>0, <2>3, <4>1
      <4>3. \A k \in 1..Len(analyzed) : analyzed[k].pitch # new
        BY <3>1 DEF AnnouncedInv, NotYetTold
      <4>4. CASE i <= Len(analyzed) /\ j <= Len(analyzed)
        BY <2>0, <3>2, <4>1, <4>4 DEF AnnouncedInv, AnnouncedOnce
      <4>5. CASE i > Len(analyzed) /\ j > Len(analyzed)
        BY <2>0, <4>2, <4>5
      <4>6. QED
        BY <2>0, <3>2, <4>1, <4>3, <4>4, <4>5
    <3>6. QED
      BY <3>4, <3>5
  <2>4. QED
    BY <2>2, <2>3, PublishedBy
<1>4. QED
  BY <1>2, <1>3 DEF AnnouncedInv

\* A pitch is announced once, whatever is redelivered, retried, rebalanced or
\* crashes: only a writer's own retry may say it twice (pipeline.go,
\* HandlePitchRaw steps 4 to 6).
THEOREM AnnouncedAtMostOnce == Spec => []AnnouncedOnce
<1>1. Init => AnnouncedInv
  <2> SUFFICES ASSUME Init PROVE AnnouncedInv
    OBVIOUS
  <2>1. \A w \in Worker : ~ Telling(w)
    BY DEF Init, Telling, In
  <2>2. Len(analyzed) = 0
    BY DEF Init
  <2>3. QED
    BY <2>1, <2>2 DEF AnnouncedInv, OneTeller, NotYetTold, AnnouncedOnce
<1>2. Inv /\ AnnouncedInv /\ [Next]_vars => AnnouncedInv'
  BY AnnouncedStep
<1>3. AnnouncedInv => AnnouncedOnce
  BY DEF AnnouncedInv
<1>4. QED
  BY <1>1, <1>2, <1>3, Invariance, PTL DEF Spec

----------------------------------------------------------------------------
(* The live counters: a row and the call that is to count it arrive        *)
(* together, and the count and the call's leaving go together.             *)

Counting(s) == { w \in Worker : In(w, "record") /\ SessionAt(w) = s }

CountInv ==
  /\ \A s \in Session : IsFiniteSet(RowsOf(s)) /\ IsFiniteSet(Counting(s))
  /\ LiveNeverAhead

\* Only UpdateCache changes a counter, and it leaves the table alone.
LEMMA CountersChange ==
  ASSUME [Next]_vars
  PROVE  \/ UNCHANGED live
         \/ \E w \in Worker : UpdateCache(w) /\ UNCHANGED rows
<1>1. CASE UNCHANGED vars
  BY <1>1 DEF vars, pipelineVars
<1>2. CASE Next
  BY <1>2 DEF Next, pipelineVars, storeVars, ProcessDies, HandlerStep, Reject, Predict,
     UpsertSession, InsertPitch, InsertDuplicate, TxFails, CommitUnknown, UpdateCache, Publish,
     PublishTwice, PublishFails
<1>3. QED
  BY <1>1, <1>2

\* A call is about to count because it already was, or has just inserted.
LEMMA CountingStep ==
  ASSUME Inv, [Next]_vars, NEW s \in Session, NEW v \in Counting(s)'
  PROVE  v \in Counting(s) \/ (InsertPitch(v) /\ SessionAt(v) = s)
<1>1. v \in Worker /\ Telling(v)' /\ stage'[v] = "record" /\ (SessionAt(v))' = s
  BY DEF Counting, Telling, In
<1>2. SessionAt(v) = s
  BY <1>1, TellersStep
<1>3. CASE Telling(v) /\ stage'[v] = stage[v]
  BY <1>1, <1>2, <1>3 DEF Counting, Telling, In
<1>4. QED
  BY <1>1, <1>2, <1>3, TellersStep

\* A part of a set with one more element has at most one more.
LEMMA OneMore ==
  ASSUME NEW S, NEW x, IsFiniteSet(S), NEW T \in SUBSET (S \cup {x})
  PROVE  IsFiniteSet(T) /\ Cardinality(T) <= Cardinality(S) + 1
<1>1. Cardinality(S) \in Nat
  BY FS_CardinalityType
<1>2. IsFiniteSet(S \cup {x})
  BY FS_AddElement
<1>3. Cardinality(S \cup {x}) = IF x \in S THEN Cardinality(S) ELSE Cardinality(S) + 1
  BY FS_AddElement
<1>4. Cardinality(S \cup {x}) = Cardinality(S) \/ Cardinality(S \cup {x}) = Cardinality(S) + 1
  BY <1>3
<1>5. IsFiniteSet(T) /\ Cardinality(T) <= Cardinality(S \cup {x})
  BY <1>2, FS_Subset
<1>6. Cardinality(T) \in Nat
  BY <1>5, FS_CardinalityType
<1>7. QED
  BY <1>1, <1>4, <1>5, <1>6

\* Every step keeps a session's counter, with the calls about to count, at
\* most its rows.
LEMMA CountStep ==
  ASSUME Inv, CountInv, [Next]_vars
  PROVE  CountInv'
<1> USE PipelineAssumption, GroupAssumption
<1> SUFFICES ASSUME NEW s \in Session
             PROVE  /\ IsFiniteSet(RowsOf(s)') /\ IsFiniteSet(Counting(s)')
                    /\ live'[s] + Cardinality(Counting(s)') <= Cardinality(RowsOf(s)')
  BY DEF CountInv, LiveNeverAhead, Counting
<1> DEFINE R == RowsOf(s)
           C == Counting(s)
           C2 == Counting(s)'
<1>1. IsFiniteSet(R) /\ IsFiniteSet(C) /\ live[s] \in Nat
  BY DEF CountInv, Inv, Types, TypeOK
<1>2. live[s] + Cardinality(C) <= Cardinality(R)
  BY DEF CountInv, LiveNeverAhead, Counting
<1>3. Cardinality(R) \in Nat /\ Cardinality(C) \in Nat
  BY <1>1, FS_CardinalityType
<1>4. CASE RowsOf(s)' = R /\ C2 \subseteq C /\ live'[s] = live[s]
  <2>1. IsFiniteSet(C2) /\ Cardinality(C2) <= Cardinality(C)
    BY <1>1, <1>4, FS_Subset
  <2>2. Cardinality(C2) \in Nat
    BY <2>1, FS_CardinalityType
  <2>3. QED
    BY <1>1, <1>2, <1>3, <1>4, <2>1, <2>2
<1>5. ASSUME NEW w \in Worker, InsertRow(w), SessionAt(w) = s, live'[s] = live[s],
             C2 \subseteq C \cup {w}
      PROVE  /\ IsFiniteSet(RowsOf(s)') /\ IsFiniteSet(C2)
             /\ live'[s] + Cardinality(C2) <= Cardinality(RowsOf(s)')
  <2>1. RowsOf(s)' = R \cup {PitchOf(w)} /\ PitchOf(w) \notin R
    <3>1. /\ PitchOf(w) \in Pitch /\ ~ Stored(PitchOf(w)) /\ NewRow(w) # NoRow
          /\ rows' = [rows EXCEPT ![PitchOf(w)] = NewRow(w)]
      BY <1>5, InsertedRow
    <3>2. rows \in [Pitch -> Row \cup {NoRow}]
      BY DEF Inv, Types, TypeOK
    <3>3. QED
      BY <1>5, <3>1, <3>2 DEF RowsOf, Stored, SessionAt
  <2>2. IsFiniteSet(R \cup {PitchOf(w)}) /\ Cardinality(R \cup {PitchOf(w)}) = Cardinality(R) + 1
    BY <1>1, <2>1, FS_AddElement
  <2>3. IsFiniteSet(C2) /\ Cardinality(C2) <= Cardinality(C) + 1
    BY <1>1, <1>5, OneMore
  <2>4. Cardinality(C2) \in Nat
    BY <2>3, FS_CardinalityType
  <2>5. QED
    BY <1>1, <1>2, <1>3, <1>5, <2>1, <2>2, <2>3, <2>4
<1>6. ASSUME NEW w \in Worker, w \in C, live'[s] = live[s] + 1, RowsOf(s)' = R,
             C2 \subseteq C \ {w}
      PROVE  /\ IsFiniteSet(RowsOf(s)') /\ IsFiniteSet(C2)
             /\ live'[s] + Cardinality(C2) <= Cardinality(RowsOf(s)')
  <2>1. IsFiniteSet(C \ {w}) /\ Cardinality(C \ {w}) = Cardinality(C) - 1
    BY <1>1, <1>6, FS_RemoveElement
  <2>2. IsFiniteSet(C2) /\ Cardinality(C2) <= Cardinality(C \ {w})
    BY <1>6, <2>1, FS_Subset
  <2>3. Cardinality(C2) \in Nat
    BY <2>2, FS_CardinalityType
  <2>4. QED
    BY <1>1, <1>2, <1>3, <1>6, <2>1, <2>2, <2>3
<1>7. ASSUME NEW w \in Worker, InsertRow(w), UNCHANGED live
      PROVE  \/ RowsOf(s)' = R /\ C2 \subseteq C
             \/ SessionAt(w) = s /\ C2 \subseteq C \cup {w}
  <2>1. PitchOf(w) \in Pitch /\ rows' = [rows EXCEPT ![PitchOf(w)] = NewRow(w)]
    BY <1>7, InsertedRow
  <2>2. ~ Stored(PitchOf(w))
    BY <1>7 DEF InsertRow
  <2>3. ASSUME NEW v \in Worker, InsertPitch(v) PROVE PitchOf(v) = PitchOf(w) /\ SessionAt(v) = SessionAt(w)
    <3>1. PitchOf(v) \in Pitch /\ rows' = [rows EXCEPT ![PitchOf(v)] = NewRow(v)]
          /\ ~ Stored(PitchOf(v)) /\ NewRow(v) # NoRow
      BY <2>3, InsertedRow DEF InsertPitch
    <3>2. rows \in [Pitch -> Row \cup {NoRow}]
      BY DEF Inv, Types, TypeOK
    <3>3. PitchOf(v) = PitchOf(w)
      BY <2>1, <3>1, <3>2 DEF Stored
    <3>4. QED
      BY <3>3 DEF SessionAt
  <2>4. ASSUME NEW v \in Worker, InsertPitch(v) PROVE v = w
    <3>1. lock[SessionAt(v)] = v /\ lock[SessionAt(w)] = w
      BY <1>7, <2>4 DEF InsertPitch, InsertRow, Inv, Locking
    <3>2. QED
      BY <2>3, <2>4, <3>1
  <2>5. C2 \subseteq C \cup { v \in Worker : InsertPitch(v) /\ SessionAt(v) = s }
    BY CountingStep DEF Counting
  <2>6. CASE SessionAt(w) = s
    <3>1. C2 \subseteq C \cup {w}
      BY <2>4, <2>5
    <3>2. QED
      BY <2>6, <3>1
  <2>7. CASE SessionAt(w) # s
    <3>1. rows \in [Pitch -> Row \cup {NoRow}]
      BY DEF Inv, Types, TypeOK
    <3>2. RowsOf(s)' = R
      BY <2>1, <2>7, <3>1 DEF RowsOf, Stored, SessionAt
    <3>3. C2 \subseteq C
      BY <2>4, <2>5, <2>7
    <3>4. QED
      BY <3>2, <3>3
  <2>8. QED
    BY <2>6, <2>7
<1>8. ASSUME NEW w \in Worker, UpdateCache(w), UNCHANGED rows
      PROVE  /\ RowsOf(s)' = R
             /\ \/ C2 \subseteq C /\ live'[s] = live[s]
                \/ w \in C /\ C2 \subseteq C \ {w} /\ live'[s] = live[s] + 1
  <2>1. RowsOf(s)' = R
    BY <1>8 DEF RowsOf, Stored
  <2>2. C2 \subseteq C
    <3>1. ASSUME NEW v \in Worker, InsertPitch(v) PROVE FALSE
      <4>1. PitchOf(v) \in Pitch /\ rows' = [rows EXCEPT ![PitchOf(v)] = NewRow(v)]
            /\ ~ Stored(PitchOf(v)) /\ NewRow(v) # NoRow
        BY <3>1, InsertedRow DEF InsertPitch
      <4>2. rows \in [Pitch -> Row \cup {NoRow}]
        BY DEF Inv, Types, TypeOK
      <4>3. QED
        BY <1>8, <4>1, <4>2 DEF Stored
    <3>2. QED
      BY <3>1, CountingStep DEF Counting
  <2>3. w \notin C2
    BY <1>8 DEF UpdateCache, Proceed, Counting, In, Inv, Types, TypeOK
  <2>4. In(w, "record") /\ live \in [Session -> Nat]
    BY <1>8 DEF UpdateCache, Inv, Types, TypeOK
  <2>5. CASE UNCHANGED live
    BY <2>1, <2>2, <2>5
  <2>6. CASE RecordPitch(SessionAt(w)) /\ SessionAt(w) = s
    BY <2>1, <2>2, <2>3, <2>4, <2>6 DEF RecordPitch, Counting
  <2>7. CASE RecordPitch(SessionAt(w)) /\ SessionAt(w) # s
    BY <2>1, <2>2, <2>4, <2>7 DEF RecordPitch
  <2>8. QED
    BY <1>8, <2>5, <2>6, <2>7 DEF UpdateCache
<1>9. CASE UNCHANGED live /\ UNCHANGED rows
  <2>1. \A v \in Worker : ~ InsertPitch(v)
    BY <1>9, InsertedRow DEF InsertPitch, Stored, Inv, Types, TypeOK
  <2>2. RowsOf(s)' = R
    BY <1>9 DEF RowsOf, Stored
  <2>3. QED
    BY <1>4, <1>9, <2>1, <2>2, CountingStep DEF Counting
<1>10. CASE UNCHANGED live /\ \E w \in Worker : InsertRow(w)
  BY <1>4, <1>5, <1>7, <1>10
<1>11. CASE \E w \in Worker : UpdateCache(w) /\ UNCHANGED rows
  BY <1>4, <1>6, <1>8, <1>11
<1>12. QED
  BY <1>9, <1>10, <1>11, CountersChange, RowsChange

\* The live counter never shows more pitches than the session has rows,
\* whatever fails between the commit and the counter (pipeline.go,
\* updateCache).
THEOREM CountedAreStored == Spec => []LiveNeverAhead
<1>1. Init => CountInv
  <2> SUFFICES ASSUME Init PROVE CountInv
    OBVIOUS
  <2>1. ASSUME NEW s \in Session PROVE RowsOf(s) = {} /\ Counting(s) = {} /\ live[s] = 0
    BY DEF Init, RowsOf, Counting, Stored, In
  <2>2. \A s \in Session : IsFiniteSet(RowsOf(s)) /\ IsFiniteSet(Counting(s))
    BY <2>1, FS_EmptySet
  <2>3. \A s \in Session : live[s] + Cardinality(Counting(s)) <= Cardinality(RowsOf(s))
    BY <2>1, FS_EmptySet
  <2>4. QED
    BY <2>2, <2>3 DEF CountInv, LiveNeverAhead, Counting
<1>2. Inv /\ CountInv /\ [Next]_vars => CountInv'
  BY CountStep
<1>3. CountInv => LiveNeverAhead
  BY DEF CountInv
<1>4. QED
  BY <1>1, <1>2, <1>3, Invariance, PTL DEF Spec

----------------------------------------------------------------------------
(* The order of a session's events.  The producer keys a message by its    *)
(* session, so a session's messages share a partition; while no rebalance  *)
(* takes a partition from a reader that is at work, one call at a time     *)
(* carries pitches of a session, and it tells of each before it inserts    *)
(* the next.                                                               *)

Keyed == \A m, n \in Msg : SessionOf[PitchAt[m]] = SessionOf[PitchAt[n]] => m[1] = n[1]

\* A reader owns the partition of the message it holds.
Owning == \A w \in Worker : held[w] # None => owner[held[w][1]] = w

\* Ownership is lost with the message only.
LEMMA OwningStep ==
  ASSUME "rebalance" \notin FaultKinds, GroupTypes, Owning, [GroupNext]_groupVars
  PROVE  Owning'
<1> USE GroupAssumption DEF GroupTypes, GroupTypeOK, Phase
<1>0. \A w \in Worker : held[w] # None => held[w][1] \in Partition
  BY MsgIsPair
<1>1. CASE UNCHANGED groupVars
  BY <1>1 DEF groupVars, brokerVars, readerVars, Owning
<1>2. ASSUME NEW p \in Partition, CoordinatorStep(p) PROVE Owning'
  <2>1. owner[p] = None /\ UNCHANGED held /\ \E w \in Worker : owner' = [owner EXCEPT ![p] = w]
    BY <1>2 DEF CoordinatorStep, Assign, Rebalance, Fault, GiveTo, readerVars
  <2>2. \A w \in Worker : held[w] # None => held[w][1] # p
    BY <2>1 DEF Owning
  <2>3. QED
    BY <1>0, <2>1, <2>2 DEF Owning
<1>3. ASSUME NEW w \in Worker, Fetch(w) PROVE Owning'
  <2>1. PICK p \in Partition : owner[p] = w /\ held' = [held EXCEPT ![w] = <<p, cursor[p] + 1>>]
    BY <1>3 DEF Fetch
  <2>2. UNCHANGED owner
    BY <1>3 DEF Fetch
  <2>3. QED
    BY <2>1, <2>2 DEF Owning
<1>4. ASSUME NEW w \in Worker, held' = [held EXCEPT ![w] = None], UNCHANGED owner \/ Leave(w)
      PROVE  Owning'
  <2>1. \A v \in Worker : held'[v] # None => v # w /\ held'[v] = held[v]
    BY <1>4
  <2>2. QED
    BY <1>0, <1>4, <2>1 DEF Owning, Leave
<1>5. ASSUME NEW w \in Worker, held[w] = None, UNCHANGED held, Leave(w) PROVE Owning'
  BY <1>0, <1>5 DEF Owning, Leave
<1>6. CASE UNCHANGED <<held, owner>>
  BY <1>6 DEF Owning
<1>7. ASSUME NEW w \in Worker, ReaderStep(w) \/ ReaderFault(w) \/ Crash(w) \/ Handle(w)
      PROVE  \/ Fetch(w) \/ UNCHANGED <<held, owner>>
             \/ held' = [held EXCEPT ![w] = None] /\ (UNCHANGED owner \/ Leave(w))
             \/ held[w] = None /\ UNCHANGED held /\ Leave(w)
  BY <1>7 DEF ReaderStep, BackoffExpires, BackoffCancelled, WriteLetter, Commit, CommitCancelled,
     Stop, Restart, ReaderFault, LetterFails, CommitFails, Shutdown, Crash, Handle,
     HandlerReturns, LetGo, brokerVars
<1>8. QED
  BY <1>1, <1>2, <1>3, <1>4, <1>5, <1>6, <1>7 DEF GroupNext

\* A call that tells of its pitch has the last index of the session.
Leading ==
  \A w \in Worker : Telling(w) =>
    \A q \in Pitch : Stored(q) /\ SessionOf[q] = SessionAt(w) => rows[q].index <= next[w]

OrderInv == Owning /\ Leading /\ AnalyzedInOrder

\* Two calls never carry pitches of one session.
LEMMA OneCallPerSession ==
  ASSUME Inv, Owning, Keyed,
         NEW v \in Worker, NEW w \in Worker, v # w,
         phase[v] = "handling", phase[w] = "handling"
  PROVE  SessionAt(v) # SessionAt(w)
<1>1. held[v] \in Msg /\ held[w] \in Msg /\ held[v] # None /\ held[w] # None
  BY GroupAssumption DEF Inv, Types, TypeOK, GroupTypeOK
<1>2. held[v][1] # held[w][1]
  BY <1>1 DEF Owning
<1>3. QED
  BY <1>1, <1>2 DEF Keyed, SessionAt, PitchOf

\* While a call tells of its pitch nobody inserts a later one.
LEMMA LeadingStep ==
  ASSUME Keyed, Inv, OrderInv, [Next]_vars
  PROVE  Leading'
<1> USE PipelineAssumption, GroupAssumption
<1>0. rows \in [Pitch -> Row \cup {NoRow}] /\ next \in [Worker -> Nat]
  BY DEF Inv, Types, TypeOK
<1> SUFFICES ASSUME NEW v \in Worker, Telling(v)', NEW q \in Pitch, Stored(q)',
                    SessionOf[q] = SessionAt(v)
             PROVE  rows'[q].index <= next'[v]
  BY TellersStep DEF Leading
<1>1. CASE Telling(v) /\ next'[v] = next[v] /\ (stage'[v] = stage[v] \/ stage'[v] = "publish")
  <2>1. CASE UNCHANGED rows
    BY <1>1, <2>1 DEF OrderInv, Leading, Stored
  <2>2. ASSUME NEW w \in Worker, InsertRow(w) PROVE rows'[q].index <= next'[v]
    <3>1. phase[v] = "handling" /\ phase[w] = "handling" /\ v # w
      BY <1>1, <2>2 DEF Telling, In, InsertRow
    <3>2. SessionAt(v) # SessionAt(w)
      BY <3>1, OneCallPerSession DEF OrderInv
    <3>3. q # PitchOf(w)
      BY <3>2 DEF SessionAt
    <3>4. rows'[q] = rows[q]
      BY <1>0, <2>2, <3>3 DEF InsertRow
    <3>5. QED
      BY <1>1, <3>4 DEF OrderInv, Leading, Stored
  <2>3. QED
    BY <2>1, <2>2, RowsChange
<1>2. CASE InsertPitch(v)
  <2>1. PICK k \in Nat :
          /\ PitchOf(v) \in Pitch
          /\ IndicesOf(SessionAt(v)) = 1..k
          /\ NewRow(v).index = k + 1
          /\ rows' = [rows EXCEPT ![PitchOf(v)] = NewRow(v)]
    BY <1>2, InsertedRow DEF InsertPitch
  <2>2. next'[v] = k + 1
    BY <1>2, <2>1 DEF InsertPitch, NewRow
  <2>3. CASE q = PitchOf(v)
    BY <1>0, <2>1, <2>2, <2>3
  <2>4. CASE q # PitchOf(v)
    <3>1. rows'[q] = rows[q] /\ Stored(q)
      BY <2>1, <2>4 DEF Stored
    <3>2. rows[q].index \in 1..k
      BY <2>1, <3>1 DEF IndicesOf
    <3>3. QED
      BY <2>2, <3>1, <3>2
  <2>5. QED
    BY <2>3, <2>4
<1>3. QED
  BY <1>1, <1>2, TellersStep

\* An event that is published has the last index of its session's events.
LEMMA OrderStep ==
  ASSUME Keyed, Inv, OrderInv, [Next]_vars
  PROVE  AnalyzedInOrder'
<1> USE PipelineAssumption, GroupAssumption
<1>1. CASE UNCHANGED analyzed
  BY <1>1 DEF OrderInv, AnalyzedInOrder
<1>2. ASSUME NEW w \in Worker, In(w, "publish"), Analysis(w) \in Event,
             \/ analyzed' = Append(analyzed, Analysis(w))
             \/ analyzed' = analyzed \o <<Analysis(w), Analysis(w)>>
      PROVE  AnalyzedInOrder'
  <2>0. analyzed \in Seq(Event)
    BY DEF Inv, Types, TypeOK
  <2> DEFINE e == Analysis(w)
  <2>1. e.pitch = PitchOf(w) /\ e.index = next[w] /\ e.index \in Nat
    BY <1>2 DEF Analysis, Event
  <2>2. \A i \in 1..Len(analyzed') :
           (i \in 1..Len(analyzed) /\ analyzed'[i] = analyzed[i])
           \/ (i > Len(analyzed) /\ analyzed'[i] = e)
    BY <1>2, <2>0
  <2>3. ASSUME NEW i \in 1..Len(analyzed), SessionOf[analyzed[i].pitch] = SessionOf[e.pitch]
        PROVE  analyzed[i].index <= e.index
    <3>1. analyzed[i] \in Event /\ Stored(analyzed[i].pitch)
      BY ToldIsStored
    <3>2. rows[analyzed[i].pitch].index = analyzed[i].index
      <4>1. rows[analyzed[i].pitch] = [index |-> analyzed[i].index, status |-> analyzed[i].status]
        BY DEF Inv, AnalyzedIsStored
      <4>2. QED
        BY <4>1
    <3>3. Telling(w) /\ analyzed[i].pitch \in Pitch
      BY <1>2, <3>1 DEF Telling, Event
    <3>4. rows[analyzed[i].pitch].index <= next[w]
      BY <2>1, <2>3, <3>1, <3>3 DEF OrderInv, Leading, SessionAt
    <3>5. QED
      BY <2>1, <3>2, <3>4
  <2>4. SUFFICES ASSUME NEW i \in 1..Len(analyzed'), NEW j \in 1..Len(analyzed'), i < j,
                        SessionOf[analyzed'[i].pitch] = SessionOf[analyzed'[j].pitch]
                 PROVE  analyzed'[i].index <= analyzed'[j].index
    BY DEF AnalyzedInOrder
  <2>5. CASE i \in 1..Len(analyzed) /\ analyzed'[i] = analyzed[i]
             /\ j \in 1..Len(analyzed) /\ analyzed'[j] = analyzed[j]
    BY <2>4, <2>5 DEF OrderInv, AnalyzedInOrder
  <2>6. CASE i \in 1..Len(analyzed) /\ analyzed'[i] = analyzed[i] /\ analyzed'[j] = e
    BY <2>3, <2>4, <2>6
  <2>7. CASE analyzed'[i] = e /\ analyzed'[j] = e
    BY <2>1, <2>7
  <2>8. QED
    <3>1. Len(analyzed) \in Nat
      BY <2>0
    <3>2. j \in 1..Len(analyzed) => i \in 1..Len(analyzed)
      BY <2>4, <3>1
    <3>3. j \in 1..Len(analyzed) => ~ (i > Len(analyzed)) /\ ~ (j > Len(analyzed))
      BY <2>4, <3>1
    <3>4. QED
      BY <2>2, <2>5, <2>6, <2>7, <3>2, <3>3
<1>3. QED
  BY <1>1, <1>2, PublishedBy

\* Where messages are keyed by session and no rebalance takes a partition from
\* a reader at work, the events of a session leave in the order of its
\* pitches, through crashes, retries and failing dependencies (producer.go and
\* pipeline.go, HandlePitchRaw).
THEOREM ToldInOrder ==
  ASSUME Keyed, "rebalance" \notin FaultKinds
  PROVE  Spec => []AnalyzedInOrder
<1>1. Init => OrderInv
  <2> SUFFICES ASSUME Init PROVE OrderInv
    OBVIOUS
  <2>1. \A w \in Worker : ~ Telling(w) /\ held[w] = None
    BY DEF Init, GroupInit, Telling, In
  <2>2. Len(analyzed) = 0
    BY DEF Init
  <2>3. QED
    BY <2>1, <2>2 DEF OrderInv, Owning, Leading, AnalyzedInOrder
<1>2. Inv /\ OrderInv /\ [Next]_vars => OrderInv'
  <2> SUFFICES ASSUME Inv, OrderInv, [Next]_vars PROVE OrderInv'
    OBVIOUS
  <2>1. Owning'
    BY "rebalance" \notin FaultKinds, StepIsGroupStep, OwningStep DEF OrderInv, Inv, Types
  <2>2. Leading'
    BY Keyed, LeadingStep
  <2>3. AnalyzedInOrder'
    BY Keyed, OrderStep
  <2>4. QED
    BY <2>1, <2>2, <2>3 DEF OrderInv
<1>3. OrderInv => AnalyzedInOrder
  BY DEF OrderInv
<1>4. QED
  BY <1>1, <1>2, <1>3, Invariance, PTL DEF Spec

----------------------------------------------------------------------------
(* The refinement.  A session's ledger is its table in the order of the    *)
(* indices; an insertion is an entry, a letter a letter, and a commit a    *)
(* move of the offset to where everything is settled, hence recorded.      *)

\* The ledger of a session with indices 1..k is its k pitches, by index.
LEMMA LedgerByIndex ==
  ASSUME Inv, NEW s \in Session, NEW k \in Nat, IndicesOf(s) = 1..k
  PROVE  /\ LedgerOf(s) \in Seq(Pitch)
         /\ Len(LedgerOf(s)) = k
         /\ \A i \in 1..k : LedgerOf(s)[i] \in RowsOf(s) /\ rows[LedgerOf(s)[i]].index = i
         /\ \A q \in RowsOf(s) : rows[q].index \in 1..k /\ LedgerOf(s)[rows[q].index] = q
<1>1. MaxIndex(s) = k
  BY MaxOfSegment
<1>2. ASSUME NEW i \in 1..k PROVE \E p \in RowsOf(s) : rows[p].index = i
  BY <1>2 DEF IndicesOf, RowsOf
<1>3. ASSUME NEW i \in 1..k
      PROVE  /\ LedgerOf(s)[i] = CHOOSE p \in RowsOf(s) : rows[p].index = i
             /\ LedgerOf(s)[i] \in RowsOf(s) /\ rows[LedgerOf(s)[i]].index = i
  <2>1. LedgerOf(s)[i] = CHOOSE p \in RowsOf(s) : rows[p].index = i
    BY <1>1, <1>3 DEF LedgerOf
  <2>2. QED
    BY <1>2, <2>1
<1>4. LedgerOf(s) \in [1..k -> Pitch]
  <2>1. LedgerOf(s) = [i \in 1..k |-> CHOOSE p \in RowsOf(s) : rows[p].index = i]
    BY <1>1 DEF LedgerOf
  <2>2. \A i \in 1..k : LedgerOf(s)[i] \in Pitch
    BY <1>3 DEF RowsOf
  <2>3. QED
    BY <2>1, <2>2
<1>5. LedgerOf(s) \in Seq(Pitch) /\ Len(LedgerOf(s)) = k
  BY <1>4
<1>6. ASSUME NEW q \in RowsOf(s) PROVE rows[q].index \in 1..k /\ LedgerOf(s)[rows[q].index] = q
  <2>1. rows[q].index \in 1..k
    BY DEF IndicesOf, RowsOf
  <2>2. LedgerOf(s)[rows[q].index] \in RowsOf(s)
        /\ rows[LedgerOf(s)[rows[q].index]].index = rows[q].index
    BY <1>3, <2>1
  <2>3. QED
    BY <2>1, <2>2 DEF RowsOf, Inv, Numbered
<1>7. QED
  BY <1>3, <1>5, <1>6

Indexed ==
  \A s \in Session, k \in Nat : IndicesOf(s) = 1..k =>
    /\ LedgerOf(s) \in Seq(Pitch)
    /\ Len(LedgerOf(s)) = k
    /\ \A q \in RowsOf(s) : LedgerOf(s)[rows[q].index] = q

\* The same of every session, in a form that holds of the next state too.
LEMMA LedgersAreIndexed == Inv => Indexed
BY LedgerByIndex DEF Indexed

\* The ledger's entries are the rows of the table.
LEMMA EnteredIsStored ==
  ASSUME Inv, NEW p \in Pitch
  PROVE  Ledger!Entered(p) <=> Stored(p)
<1> USE PipelineAssumption
<1> DEFINE s == SessionOf[p]
<1>0. s \in Session
  OBVIOUS
<1>1. PICK k \in Nat : IndicesOf(s) = 1..k
  BY <1>0 DEF Inv, Segments
<1>2. Ledger!Entered(p) <=> \E i \in 1..Len(LedgerOf(s)) : LedgerOf(s)[i] = p
  BY <1>0 DEF Ledger!Entered, Ledger!Contains
<1>3. Len(LedgerOf(s)) = k
  BY <1>0, <1>1, LedgerByIndex
<1>4. \A i \in 1..k : LedgerOf(s)[i] \in RowsOf(s)
  BY <1>0, <1>1, LedgerByIndex
<1>5. p \in RowsOf(s) => rows[p].index \in 1..k /\ LedgerOf(s)[rows[p].index] = p
  BY <1>0, <1>1, LedgerByIndex
<1>6. Stored(p) <=> p \in RowsOf(s)
  BY DEF RowsOf
<1> HIDE DEF s
<1>7. QED
  BY <1>2, <1>3, <1>4, <1>5, <1>6

\* An inserted row is the next entry of its session's ledger.
LEMMA InsertionIsEntry ==
  ASSUME Inv, Inv', NEW w \in Worker, InsertRow(w), NEW s \in Session
  PROVE  LedgerOf(s)' = IF s = SessionAt(w) THEN Append(LedgerOf(s), PitchOf(w)) ELSE LedgerOf(s)
<1> USE PipelineAssumption
<1>0. rows \in [Pitch -> Row \cup {NoRow}]
  BY DEF Inv, Types, TypeOK
<1>1. PICK n \in Nat :
         /\ PitchOf(w) \in Pitch /\ SessionAt(w) \in Session
         /\ ~ Stored(PitchOf(w))
         /\ IndicesOf(SessionAt(w)) = 1..n
         /\ NewRow(w).index = n + 1
         /\ NewRow(w) # NoRow
         /\ rows' = [rows EXCEPT ![PitchOf(w)] = NewRow(w)]
  BY InsertedRow
<1>2. PICK k \in Nat : IndicesOf(s) = 1..k
  BY DEF Inv, Segments
<1>3. PICK l \in Nat : IndicesOf(s)' = 1..l
  BY DEF Inv, Segments
<1>4. /\ LedgerOf(s) \in Seq(Pitch)
      /\ Len(LedgerOf(s)) = k
      /\ \A i \in 1..k : LedgerOf(s)[i] \in RowsOf(s) /\ rows[LedgerOf(s)[i]].index = i
  BY <1>2, LedgerByIndex
<1>5. /\ LedgerOf(s)' \in Seq(Pitch)
      /\ Len(LedgerOf(s)') = l
      /\ \A q \in RowsOf(s)' : LedgerOf(s)'[rows'[q].index] = q
  <2>1. Indexed'
    BY LedgersAreIndexed, PTL
  <2>2. QED
    BY <1>3, <2>1 DEF Indexed
<1>6. ASSUME NEW q \in RowsOf(s) PROVE q \in RowsOf(s)' /\ rows'[q] = rows[q]
  BY <1>0, <1>1 DEF RowsOf, Stored
<1>7. ASSUME NEW i \in 1..k, k <= l PROVE LedgerOf(s)'[i] = LedgerOf(s)[i]
  BY <1>4, <1>5, <1>6
<1>8. CASE s = SessionAt(w)
  <2>1. k = n
    BY <1>1, <1>2, <1>8, MaxOfSegment
  <2>2. l = n + 1
    <3>1. IndicesOf(s)' = (1..n) \cup {n + 1}
      BY <1>1, <1>8, IndicesStep
    <3>2. (1..n) \cup {n + 1} = 1..(n + 1)
      OBVIOUS
    <3>3. 1..l = 1..(n + 1)
      BY <1>3, <3>1, <3>2
    <3>4. QED
      BY <3>3
  <2>3. LedgerOf(s)'[n + 1] = PitchOf(w)
    <3>1. PitchOf(w) \in RowsOf(s)' /\ rows'[PitchOf(w)].index = n + 1
      BY <1>0, <1>1, <1>8 DEF RowsOf, Stored, SessionAt
    <3>2. QED
      BY <1>5, <3>1
  <2> DEFINE new == Append(LedgerOf(s), PitchOf(w))
  <2>4. /\ new \in Seq(Pitch)
        /\ Len(new) = n + 1
        /\ \A i \in 1..n : new[i] = LedgerOf(s)[i]
        /\ new[n + 1] = PitchOf(w)
    BY <1>1, <1>4, <2>1, AppendProperties
  <2>5. \A i \in 1..n : LedgerOf(s)'[i] = new[i]
    BY <1>7, <2>1, <2>2, <2>4
  <2>6. \A i \in 1..(n + 1) : LedgerOf(s)'[i] = new[i]
    BY <2>3, <2>4, <2>5
  <2>7. LedgerOf(s)' = new
    BY <1>5, <2>2, <2>4, <2>6, SeqEqual
  <2>8. QED
    BY <1>8, <2>7
<1>9. CASE s # SessionAt(w)
  <2>1. IndicesOf(s)' = IndicesOf(s)
    BY <1>9, IndicesStep
  <2>2. l = k
    BY <1>2, <1>3, <2>1, MaxOfSegment
  <2>3. \A i \in 1..k : LedgerOf(s)'[i] = LedgerOf(s)[i]
    BY <1>7, <2>2
  <2>4. LedgerOf(s)' = LedgerOf(s)
    BY <1>4, <1>5, <2>2, <2>3, SeqEqual
  <2>5. QED
    BY <1>9, <2>4
<1>10. QED
  BY <1>8, <1>9

\* What a step of the processor does to the table, the letters and the offsets.
LEMMA VisibleSteps ==
  ASSUME Lossless, Inv, [Next]_vars
  PROVE  \/ UNCHANGED <<rows, dlq, committed>>
         \/ \E w \in Worker : InsertRow(w) /\ UNCHANGED <<dlq, committed>>
         \/ \E w \in Worker : /\ held[w] \in Msg /\ dlq' = dlq \cup {held[w]}
                              /\ UNCHANGED <<rows, committed>>
         \/ \E w \in Worker : /\ held[w] \in Msg /\ phase[w] = "committing"
                              /\ committed' = [committed EXCEPT ![held[w][1]] = held[w][2]]
                              /\ UNCHANGED <<rows, dlq>>
<1> USE GroupAssumption DEF storeVars, brokerVars
<1>0. \A w \in Worker : phase[w] \in {"lettering", "committing"} => held[w] \in Msg
  BY DEF Inv, Types, GroupTypes, GroupTypeOK
<1>1. CASE UNCHANGED vars
  BY <1>1 DEF vars, pipelineVars, groupVars
<1>2. ASSUME NEW p \in Partition, CoordinatorStep(p), UNCHANGED pipelineVars
      PROVE  UNCHANGED <<rows, dlq, committed>>
  BY <1>2 DEF CoordinatorStep, Assign, Rebalance, GiveTo, pipelineVars
<1>3. ASSUME NEW w \in Worker, ReaderStep(w) \/ ReaderFault(w), UNCHANGED pipelineVars
      PROVE  \/ UNCHANGED <<rows, dlq, committed>>
             \/ /\ held[w] \in Msg /\ dlq' = dlq \cup {held[w]}
                /\ UNCHANGED <<rows, committed>>
             \/ /\ held[w] \in Msg /\ phase[w] = "committing"
                /\ committed' = [committed EXCEPT ![held[w][1]] = held[w][2]]
                /\ UNCHANGED <<rows, dlq>>
  <2>1. UNCHANGED rows
    BY <1>3 DEF pipelineVars
  <2>2. CASE ReaderStep(w)
    BY <1>0, <2>1, <2>2 DEF ReaderStep, Fetch, BackoffExpires, BackoffCancelled, WriteLetter,
       Commit, CommitCancelled, Stop, Restart, Lossless
  <2>3. CASE ReaderFault(w)
    BY <2>1, <2>3 DEF ReaderFault, LetterFails, CommitFails, Shutdown
  <2>4. QED
    BY <1>3, <2>2, <2>3
<1>4. ASSUME NEW w \in Worker, ProcessDies(w) PROVE UNCHANGED <<rows, dlq, committed>>
  BY <1>4 DEF ProcessDies, Crash
<1>5. ASSUME NEW w \in Worker, HandlerStep(w)
      PROVE  (InsertRow(w) \/ UNCHANGED rows) /\ UNCHANGED <<dlq, committed>>
  BY <1>5 DEF HandlerStep, Reject, Predict, UpsertSession, InsertPitch, InsertDuplicate, TxFails,
     CommitUnknown, UpdateCache, Publish, PublishTwice, PublishFails, Return, HandlerReturns,
     groupVars
<1>6. QED
  BY <1>1, <1>2, <1>3, <1>4, <1>5 DEF Next

\* Every step of the processor is a step of the ledger, or invisible to it.
LEMMA StepIsLedgerStep ==
  ASSUME Lossless, Inv, Inv', Accounting, NoneAbandoned, [Next]_vars
  PROVE  [Ledger!Next]_Ledger!ledgerVars
<1> USE PipelineAssumption
<1>1. ASSUME UNCHANGED rows PROVE \A s \in Session : LedgerOf(s)' = LedgerOf(s)
  BY <1>1 DEF LedgerOf, MaxIndex, IndicesOf, RowsOf, Stored
<1>2. CASE UNCHANGED <<rows, dlq, committed>>
  BY <1>1, <1>2 DEF Ledger!ledgerVars
<1>3. ASSUME NEW w \in Worker, held[w] \in Msg
      PROVE  \E p \in Partition : \E o \in 1..LogLen[p] : held[w] = <<p, o>>
  BY <1>3, MsgIsPair
<1>4. ASSUME NEW w \in Worker, InsertRow(w), UNCHANGED <<dlq, committed>> PROVE Ledger!Next
  <2>1. held[w] \in Msg
    BY <1>4 DEF InsertRow, In, Inv, Types, TypeOK, GroupTypeOK
  <2>0. PICK p \in Partition : \E o \in 1..LogLen[p] : held[w] = <<p, o>>
    BY <1>3, <2>1
  <2>2. PICK o \in 1..LogLen[p] : held[w] = <<p, o>>
    BY <2>0
  <2>3. PitchAt[<<p, o>>] = PitchOf(w) /\ SessionOf[PitchAt[<<p, o>>]] = SessionAt(w)
    BY <2>2 DEF PitchOf, SessionAt
  <2>4. PitchOf(w) \in Pitch /\ SessionAt(w) \in Session /\ ~ Stored(PitchOf(w))
    BY <1>4, InsertedRow
  <2>5. ~ Ledger!Entered(PitchAt[<<p, o>>])
    BY <2>3, <2>4, EnteredIsStored
  <2>6. [s \in Session |-> LedgerOf(s)]'
          = [[s \in Session |-> LedgerOf(s)] EXCEPT
               ![SessionOf[PitchAt[<<p, o>>]]] = Append(@, PitchAt[<<p, o>>])]
    BY <1>4, <2>3, <2>4, InsertionIsEntry
  <2>7. Ledger!Enter(<<p, o>>)
    BY <1>4, <2>5, <2>6 DEF Ledger!Enter
  <2>8. QED
    BY <2>7 DEF Ledger!Next
<1>5. ASSUME NEW w \in Worker, held[w] \in Msg, dlq' = dlq \cup {held[w]},
             UNCHANGED <<rows, committed>>
      PROVE  Ledger!Next
  <2>0. PICK p \in Partition : \E o \in 1..LogLen[p] : held[w] = <<p, o>>
    BY <1>3, <1>5
  <2>1. PICK o \in 1..LogLen[p] : held[w] = <<p, o>>
    BY <2>0
  <2>2. Ledger!Letter(<<p, o>>)
    BY <1>1, <1>5, <2>1 DEF Ledger!Letter
  <2>3. QED
    BY <2>2 DEF Ledger!Next
<1>6. ASSUME NEW w \in Worker, held[w] \in Msg, phase[w] = "committing",
             committed' = [committed EXCEPT ![held[w][1]] = held[w][2]],
             UNCHANGED <<rows, dlq>>
      PROVE  Ledger!Next
  <2>0. PICK p \in Partition : \E o \in 1..LogLen[p] : held[w] = <<p, o>>
    BY <1>3, <1>6
  <2>1. PICK o \in 1..LogLen[p] : held[w] = <<p, o>>
    BY <2>0
  <2>2. ASSUME NEW i \in 1..o PROVE Settled(<<p, i>>)
    <3>1. CASE i = o
      BY <1>6, <2>1, <3>1 DEF Accounting, NoneAbandoned, InOrder, CommittingIn, Accounted, Settled
    <3>2. CASE i # o
      <4>1. i \in 1..(o - 1)
        BY <3>2
      <4>2. QED
        BY <2>1, <4>1 DEF Accounting, NoneAbandoned, InOrder, BeforeHeldIn, Accounted, Settled
    <3>3. QED
      BY <3>1, <3>2
  <2>3. ASSUME NEW i \in 1..o PROVE Ledger!Recorded(<<p, i>>)
    <3>1. i \in 1..LogLen[p]
      BY GroupAssumption, <2>1
    <3>2. PitchAt[<<p, i>>] \in Pitch
      BY <3>1, MsgIsPair
    <3>3. <<p, i>> \in dlq \/ Stored(PitchAt[<<p, i>>])
      BY <2>2 DEF Settled, Inv, HandledIsStored
    <3>4. QED
      BY <3>2, <3>3, EnteredIsStored DEF Ledger!Recorded
  <2>4. Ledger!MoveTo(p, o)
    BY <1>1, <1>6, <2>1, <2>3 DEF Ledger!MoveTo
  <2>5. QED
    BY <2>4 DEF Ledger!Next
<1>7. QED
  BY <1>2, <1>4, <1>5, <1>6, VisibleSteps

\* The processor implements the ledger: with a dead-letter topic whose writes
\* do not fail, and without a shutdown, every behaviour of readers,
\* transactions, retries, duplicates, crashes and rebalances is one in which
\* pitches are entered once, at the end of their session's ledger, and offsets
\* move only to where everything is recorded (pipeline.go under consumer.go).
THEOREM PipelineKeepsLedger ==
  ASSUME Lossless
  PROVE  Spec => ImplementsLedger
<1>1. Init => Ledger!Init
  <2> SUFFICES ASSUME Init PROVE Ledger!Init
    OBVIOUS
  <2>1. Inv
    BY InvInit
  <2>2. ASSUME NEW s \in Session PROVE LedgerOf(s) = <<>>
    <3>1. IndicesOf(s) = 1..0
      BY DEF Init, IndicesOf, Stored
    <3>2. LedgerOf(s) \in Seq(Pitch) /\ Len(LedgerOf(s)) = 0
      BY <2>1, <3>1, LedgerByIndex
    <3>3. QED
      BY <3>2
  <2>3. QED
    BY <2>2 DEF Init, GroupInit, Ledger!Init
<1>2. GroupSpec => []NoneAbandoned
  BY Lossless, NothingIsAbandoned
<1>3. Inv /\ Inv' /\ Accounting /\ NoneAbandoned /\ [Next]_vars
        => [Ledger!Next]_Ledger!ledgerVars
  BY Lossless, StepIsLedgerStep
<1>4. QED
  BY <1>1, <1>2, <1>3, Invariance, PipelineIsGroup, AccountingInvariant, PTL
  DEF Spec, ImplementsLedger, Ledger!Spec

----------------------------------------------------------------------------
(* Nobody waits for ever: a row lock is held only by a call that is at work*)
(* and waits for none, and every step of a call is one nearer to its end.  *)

\* The holder of a session's row lock is between the two halves of its
\* transaction, in that session.
HoldersWork ==
  \A s \in Session, w \in Worker : lock[s] = w => In(w, "insert") /\ SessionAt(w) = s

\* The steps of one reader leave the others where they are.
LEMMA OthersStay ==
  ASSUME Types, NEW v \in Worker, NEW w \in Worker, w # v,
         HandlerStep(v) \/ ProcessDies(v)
           \/ ((ReaderStep(v) \/ ReaderFault(v)) /\ UNCHANGED pipelineVars)
  PROVE  UNCHANGED <<phase[w], held[w], stage[w]>>
<1> USE DEF Types, TypeOK, GroupTypes, GroupTypeOK
<1>1. CASE HandlerStep(v)
  BY <1>1 DEF HandlerStep, Reject, Predict, UpsertSession, InsertPitch, InsertDuplicate, TxFails,
     CommitUnknown, UpdateCache, Publish, PublishTwice, PublishFails, Return, HandlerReturns,
     GoTo, Proceed, groupVars, readerVars
<1>2. CASE ProcessDies(v)
  BY <1>2 DEF ProcessDies, Crash, LetGo, GoTo, Proceed
<1>3. CASE (ReaderStep(v) \/ ReaderFault(v)) /\ UNCHANGED pipelineVars
  <2>1. UNCHANGED stage
    BY <1>3 DEF pipelineVars, callVars
  <2>2. UNCHANGED <<phase[w], held[w]>>
    BY <1>3 DEF ReaderStep, Fetch, BackoffExpires, BackoffCancelled, WriteLetter, Commit,
       CommitCancelled, Stop, Restart, ReaderFault, LetterFails, CommitFails, Shutdown, LetGo, GoTo
  <2>3. QED
    BY <2>1, <2>2
<1>4. QED
  BY <1>1, <1>2, <1>3

\* A call that ends, or whose process dies, leaves no lock behind.
LEMMA HoldersStep ==
  ASSUME Types, HoldersWork, [Next]_vars
  PROVE  HoldersWork'
<1> SUFFICES ASSUME NEW s \in Session, NEW w \in Worker, lock'[s] = w
             PROVE  In(w, "insert")' /\ SessionAt(w)' = s
  BY DEF HoldersWork
<1> USE GroupAssumption
<1>0. lock \in [Session -> Worker \cup {None}] /\ stage \in [Worker -> Stage] /\ None \notin Worker
  BY DEF Types, TypeOK
<1>1. ASSUME lock[s] = w, UNCHANGED <<phase[w], held[w], stage[w]>>
      PROVE  In(w, "insert")' /\ SessionAt(w)' = s
  BY <1>1 DEF HoldersWork, In, SessionAt, PitchOf
<1>2. CASE UNCHANGED vars
  BY <1>1, <1>2 DEF vars, pipelineVars, storeVars, callVars, groupVars, readerVars
<1>3. ASSUME NEW p \in Partition, CoordinatorStep(p), UNCHANGED pipelineVars
      PROVE  In(w, "insert")' /\ SessionAt(w)' = s
  <2>1. UNCHANGED <<lock, phase, held, stage>>
    BY <1>3 DEF CoordinatorStep, Assign, Rebalance, GiveTo, pipelineVars, callVars, storeVars,
       readerVars
  <2>2. QED
    BY <1>1, <2>1
<1>4. ASSUME NEW v \in Worker, (ReaderStep(v) \/ ReaderFault(v)), UNCHANGED pipelineVars
      PROVE  In(w, "insert")' /\ SessionAt(w)' = s
  <2>1. lock' = lock /\ lock[s] = w /\ stage' = stage
    BY <1>4 DEF pipelineVars, storeVars, callVars
  <2>2. CASE v # w
    BY <1>1, <1>4, <2>1, <2>2, OthersStay
  <2>3. CASE v = w
    <3>1. phase[w] = "handling"
      BY <2>1 DEF HoldersWork, In
    <3>2. UNCHANGED <<phase, held>>
      BY <1>4, <2>3, <3>1 DEF ReaderStep, Fetch, BackoffExpires, BackoffCancelled, WriteLetter,
         Commit, CommitCancelled, Stop, Restart, ReaderFault, LetterFails, CommitFails, Shutdown
    <3>3. QED
      BY <1>1, <2>1, <3>2
  <2>4. QED
    BY <2>2, <2>3
<1>5. ASSUME NEW v \in Worker, HandlerStep(v) \/ ProcessDies(v)
      PROVE  In(w, "insert")' /\ SessionAt(w)' = s
  <2>1. CASE v # w
    <3>1. UNCHANGED lock \/ Unlock(v) \/ lock' = [lock EXCEPT ![SessionAt(v)] = v]
      BY <1>5 DEF ProcessDies, HandlerStep, Reject, Predict, UpsertSession, InsertPitch, InsertRow,
         InsertDuplicate, TxFails, CommitUnknown, UpdateCache, Publish, PublishTwice,
         PublishFails, Return, storeVars
    <3>2. lock[s] = w
      BY <1>0, <2>1, <3>1 DEF Unlock
    <3>3. UNCHANGED <<phase[w], held[w], stage[w]>>
      BY <1>5, <2>1, OthersStay
    <3>4. QED
      BY <1>1, <3>2, <3>3
  <2>2. CASE v = w /\ UpsertSession(w)
    <3>1. /\ In(w, "upsert") /\ lock' = [lock EXCEPT ![SessionAt(w)] = w]
          /\ stage' = [stage EXCEPT ![w] = "insert"] /\ UNCHANGED <<phase, held>>
      BY <2>2 DEF UpsertSession, Proceed, groupVars, readerVars
    <3>2. SessionAt(w) = s
      <4>1. lock[s] # w
        BY <3>1 DEF HoldersWork, In
      <4>2. QED
        BY <1>0, <3>1, <4>1
    <3>3. QED
      BY <1>0, <3>1, <3>2 DEF In, SessionAt, PitchOf
  <2>3. CASE v = w /\ ~ UpsertSession(w)
    <3>1. UNCHANGED lock \/ Unlock(w)
      BY <1>5, <2>3 DEF ProcessDies, HandlerStep, Reject, Predict, InsertPitch, InsertRow,
         InsertDuplicate, TxFails, CommitUnknown, UpdateCache, Publish, PublishTwice,
         PublishFails, Return, storeVars
    <3>2. ~ Unlock(w)
      BY <1>0 DEF Unlock
    <3>3. lock[s] = w
      BY <3>1, <3>2
    <3>4. In(w, "insert")
      BY <3>3 DEF HoldersWork
    <3>5. Unlock(w)
      BY <1>5, <2>3, <3>4 DEF In, ProcessDies, HandlerStep, Reject, Predict, InsertPitch,
         InsertRow, InsertDuplicate, TxFails, CommitUnknown, UpdateCache, Publish,
         PublishTwice, PublishFails
    <3>6. QED
      BY <3>2, <3>5
  <2>4. QED
    BY <2>1, <2>2, <2>3
<1>6. QED
  BY <1>2, <1>3, <1>4, <1>5 DEF Next

\* A reader that waits for a session's row lock waits for a call that holds it
\* and waits for none itself, whatever crashes, fails or moves: no two
\* transactions wait for each other, and none is left open (pipeline.go,
\* persist; store.go, InTx).
THEOREM LocksAreAtWork == Spec => []HoldersWork
<1>1. Init => Inv /\ HoldersWork
  BY InvInit, GroupAssumption DEF Init, HoldersWork
<1>2. Inv /\ HoldersWork /\ [Next]_vars => (Inv /\ HoldersWork)'
  BY InvStep, HoldersStep DEF Inv
<1>3. QED
  BY <1>1, <1>2, PTL DEF Spec

\* The stages a handler call still has ahead, this one included.
Ahead(there) ==
  CASE there = "validate" -> 5
    [] there = "upsert"   -> 4
    [] there = "insert"   -> 3
    [] there = "record"   -> 2
    [] there = "publish"  -> 1

\* What a reader has to do, counted in steps of its handler calls.
Effort(w) == 6 * ToDo(w) + (IF phase[w] = "handling" THEN Ahead(stage[w]) ELSE 0)

LEMMA EffortStep ==
  ASSUME Types, Types', [Next]_vars, NEW w \in Worker, ToDo(w) > 0
  PROVE  \/ UNCHANGED <<phase[w], stage[w], attempt[w], held[w]>>
         \/ Effort(w)' < Effort(w)
<1> USE GroupAssumption
<1>1. /\ stage[w] \in Stage /\ stage'[w] \in Stage
      /\ Ahead(stage[w]) \in 1..5 /\ Ahead(stage'[w]) \in 1..5
  BY DEF Types, TypeOK, Stage, Ahead
<1>2. ToDo(w) \in Nat /\ ToDo(w)' \in Nat
  <2>1. ToDo(w) \in 0..(2 * MaxAttempts + 1)
    BY ToDoIsBounded DEF Types
  <2>2. (ToDo(w) \in 0..(2 * MaxAttempts + 1))'
    <3>1. attempt'[w] \in 1..MaxAttempts /\ phase'[w] \in Phase
      BY DEF Types, GroupTypes, GroupTypeOK
    <3>2. QED
      BY <3>1 DEF ToDo, Phase
  <2>3. QED
    BY <2>1, <2>2
<1>3. Rests(w) \/ Nears(w)
  BY StepIsGroupStep, WorkRunsDownStep DEF Types
<1>4. CASE Nears(w)
  BY <1>1, <1>2, <1>4 DEF Nears, Effort
<1>5. CASE Rests(w) /\ stage'[w] = stage[w]
  BY <1>5 DEF Rests
<1>6. CASE Rests(w) /\ stage'[w] # stage[w]
  <2>1. phase[w] = "handling" /\ phase'[w] = "handling"
    BY <1>6 DEF Rests, Types
  <2>2. stage'[w] # "validate"
    <3>1. SUFFICES ASSUME stage'[w] = "validate" PROVE FALSE
      OBVIOUS
    <3>2. PICK v \in Worker : HandlerStep(v) \/ ProcessDies(v)
      <4>1. stage' # stage
        BY <1>6
      <4>2. ~ UNCHANGED vars /\ ~ UNCHANGED pipelineVars
        BY <4>1 DEF vars, pipelineVars, callVars
      <4>3. QED
        BY <4>2 DEF Next
    <3>3. v = w
      BY <1>6, <3>2, OthersStay
    <3>4. phase'[w] # "handling"
      <4>1. CASE ProcessDies(w)
        BY <4>1 DEF ProcessDies, Crash, LetGo, GoTo, Types, GroupTypes, GroupTypeOK
      <4>2. ASSUME NEW result \in Result, Return(w, result) PROVE phase'[w] # "handling"
        BY <4>2 DEF Return, HandlerReturns, GoTo, AfterResult, Result, Types, GroupTypes,
           GroupTypeOK
      <4>3. CASE Predict(w) \/ UpsertSession(w) \/ InsertPitch(w) \/ UpdateCache(w)
        BY <3>1, <4>3 DEF Predict, UpsertSession, InsertPitch, UpdateCache, Proceed, Types, TypeOK
      <4>4. QED
        BY <3>2, <3>3, <4>1, <4>2, <4>3 DEF HandlerStep, Reject, InsertDuplicate, TxFails,
           CommitUnknown, Publish, PublishTwice, PublishFails, Result
    <3>5. QED
      BY <2>1, <3>4
  <2>3. \/ Predict(w) /\ stage'[w] = "upsert"
        \/ UpsertSession(w) /\ stage'[w] = "insert"
        \/ InsertPitch(w) /\ stage'[w] = "record"
        \/ UpdateCache(w) /\ stage'[w] = "publish"
    BY <1>6, <2>1, <2>2, CallSteps
  <2>4. Ahead(stage'[w]) < Ahead(stage[w])
    BY <2>3 DEF Predict, UpsertSession, InsertPitch, InsertRow, UpdateCache, In, Ahead
  <2>5. ToDo(w)' = ToDo(w)
    BY <1>6 DEF Rests, ToDo
  <2>6. QED
    BY <1>1, <1>2, <2>1, <2>4, <2>5 DEF Effort
<1>7. QED
  BY <1>3, <1>4, <1>5, <1>6

\* Every step of a reader with a message in hand is a step less to do,
\* whatever its dependencies answer: no sequence of failures, retries and
\* duplicates keeps it at one message (pipeline.go, HandlePitchRaw;
\* consumer.go, processMessage).
THEOREM PitchesAreFinished ==
  Spec => [][\A w \in Worker : ToDo(w) > 0 =>
               \/ UNCHANGED <<phase[w], stage[w], attempt[w], held[w]>>
               \/ Effort(w)' < Effort(w)]_vars
<1>1. Inv /\ Inv' /\ [Next]_vars =>
        [\A w \in Worker : ToDo(w) > 0 =>
           \/ UNCHANGED <<phase[w], stage[w], attempt[w], held[w]>>
           \/ Effort(w)' < Effort(w)]_vars
  BY EffortStep DEF Inv
<1>2. QED
  BY Invariance, <1>1, PTL DEF Spec
============================================================================
