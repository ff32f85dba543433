--------------------------- MODULE ConsumerGroup ---------------------------
(***************************************************************************)
(* The at-least-once consumer of internal/kafka/consumer.go.               *)
(*                                                                         *)
(* A group of readers (the goroutines Consumer.Run starts, in one process  *)
(* or in several) shares the partitions of one topic.  A reader fetches a  *)
(* message, hands it to the handler up to MaxAttempts times, writes a dead *)
(* letter when it gives up, and only then commits the offset.  The handler *)
(* is a parameter of the design: here it may return anything; the modules  *)
(* that EXTEND this one say what it does.                                  *)
(*                                                                         *)
(* The broker and the kafka-go reader are external.  What the code relies  *)
(* on: a partition is assigned to one reader at a time, a new owner starts *)
(* at the committed offset, and nothing stops the old owner from finishing *)
(* and committing the message it holds when a rebalance takes its          *)
(* partition away.                                                         *)
(***************************************************************************)
EXTENDS Integers

CONSTANTS
  Worker,        \* the readers of the group
  Partition,     \* the partitions of the topic
  LogLen,        \* how many messages each partition holds
  Garbled,       \* the messages events.Parse rejects
  MaxAttempts,   \* ConsumerConfig.MaxAttempts
  HasDLQ,        \* whether ConsumerConfig.DLQTopic is set
  FaultKinds,    \* the kinds of fault the run admits
  MaxFaults,     \* bound: how many of them happen
  None

Msg == UNION { {p} \X (1..LogLen[p]) : p \in Partition }

ASSUME GroupAssumption ==
  /\ LogLen \in [Partition -> Nat]
  /\ Garbled \subseteq Msg
  /\ MaxAttempts \in Nat \ {0}
  /\ HasDLQ \in BOOLEAN
  /\ MaxFaults \in Nat
  /\ None \notin Worker
  /\ None \notin Msg

VARIABLES
  \* the group's state at the broker
  committed,     \* [Partition -> Nat]  last offset committed
  owner,         \* [Partition -> Worker \cup {None}]  current assignment
  cursor,        \* [Partition -> Nat]  last offset the owner has fetched
  dlq,           \* messages with a letter in the dead-letter topic
  \* each reader's local state
  phase,         \* where runReader and processMessage are
  held,          \* the message being processed
  attempt,       \* the attempt of processMessage's retry loop
  stopping,      \* whether the reader's context is cancelled
  \* history
  handled,       \* messages some handler call acknowledged
  abandoned,     \* messages a reader was done with and nothing records
  faults         \* faults so far, at most MaxFaults

brokerVars == <<committed, owner, cursor, dlq>>
readerVars == <<phase, held, attempt, stopping>>
groupVars  == <<brokerVars, readerVars, handled, abandoned, faults>>

Phase == {"idle", "handling", "backoff", "lettering", "committing", "down"}

GroupTypeOK ==
  /\ committed \in [Partition -> Nat]
  /\ owner \in [Partition -> Worker \cup {None}]
  /\ cursor \in [Partition -> Nat]
  /\ dlq \subseteq Msg
  /\ phase \in [Worker -> Phase]
  /\ held \in [Worker -> Msg \cup {None}]
  /\ attempt \in [Worker -> 1..MaxAttempts]
  /\ stopping \in [Worker -> BOOLEAN]
  /\ handled \subseteq Msg
  /\ abandoned \subseteq Msg
  /\ faults \in Nat
  /\ \A w \in Worker : held[w] = None <=> phase[w] \in {"idle", "down"}

GroupInit ==
  /\ committed = [p \in Partition |-> 0]
  /\ owner = [p \in Partition |-> None]
  /\ cursor = [p \in Partition |-> 0]
  /\ dlq = {}
  /\ phase = [w \in Worker |-> "idle"]
  /\ held = [w \in Worker |-> None]
  /\ attempt = [w \in Worker |-> 1]
  /\ stopping = [w \in Worker |-> FALSE]
  /\ handled = {}
  /\ abandoned = {}
  /\ faults = 0

Fault(kind) ==
  /\ kind \in FaultKinds
  /\ faults < MaxFaults
  /\ faults' = faults + 1

----------------------------------------------------------------------------
(* The group coordinator (external): an orphaned partition gets an owner;  *)
(* a rebalance moves an owned one, whatever its owner is doing.            *)

GiveTo(p, w) ==
  /\ owner[p] # w
  /\ phase[w] # "down"
  /\ owner' = [owner EXCEPT ![p] = w]
  /\ cursor' = [cursor EXCEPT ![p] = committed[p]]
  /\ UNCHANGED <<committed, dlq, readerVars, handled, abandoned>>

Assign(p) ==
  /\ owner[p] = None
  /\ \E w \in Worker : GiveTo(p, w)
  /\ UNCHANGED faults

Rebalance(p) ==
  /\ owner[p] # None
  /\ Fault("rebalance")
  /\ \E w \in Worker : GiveTo(p, w)

----------------------------------------------------------------------------
(* The reader loop.                                                        *)

GoTo(w, there) == phase' = [phase EXCEPT ![w] = there]

\* The code goes on to commit a message that nothing records.
Abandon(w) == abandoned' = abandoned \cup {held[w]}

\* Mutant of Fetch: ReadMessage, which commits the offset it hands out.
FetchAndCommit(w) ==
  /\ phase[w] = "idle"
  /\ \E p \in Partition :
       /\ owner[p] = w
       /\ cursor[p] < LogLen[p]
       /\ cursor' = [cursor EXCEPT ![p] = @ + 1]
       /\ committed' = [committed EXCEPT ![p] = cursor[p] + 1]
       /\ held' = [held EXCEPT ![w] = <<p, cursor[p] + 1>>]
       /\ GoTo(w, IF <<p, cursor[p] + 1>> \in Garbled THEN "lettering" ELSE "handling")
  /\ attempt' = [attempt EXCEPT ![w] = 1]
  /\ UNCHANGED <<owner, dlq, stopping, handled, abandoned, faults>>

\* FetchMessage returned a message: a garbled one is dead-lettered without a
\* handler call, any other starts its first attempt.
Fetch(w) ==
  /\ phase[w] = "idle"
  /\ \E p \in Partition :
       /\ owner[p] = w
       /\ cursor[p] < LogLen[p]
       /\ cursor' = [cursor EXCEPT ![p] = @ + 1]
       /\ held' = [held EXCEPT ![w] = <<p, cursor[p] + 1>>]
       /\ GoTo(w, IF <<p, cursor[p] + 1>> \in Garbled THEN "lettering" ELSE "handling")
  /\ attempt' = [attempt EXCEPT ![w] = 1]
  /\ UNCHANGED <<committed, owner, dlq, stopping, handled, abandoned, faults>>

Result == {"ok", "duplicate", "permanent", "transient"}

\* Where processMessage goes when a handler call returns.
AfterResult(w, result) ==
  CASE result \in {"ok", "duplicate"}                    -> "committing"
    [] result = "permanent"                              -> "lettering"
    [] result = "transient" /\ attempt[w] = MaxAttempts  -> "lettering"
    [] result = "transient" /\ attempt[w] # MaxAttempts  ->
         IF stopping[w] THEN "committing" ELSE "backoff"

HandlerReturns(w, result) ==
  /\ phase[w] = "handling"
  /\ GoTo(w, AfterResult(w, result))
  /\ handled' = IF result \in {"ok", "duplicate"} THEN handled \cup {held[w]} ELSE handled
  /\ IF result = "transient" /\ AfterResult(w, result) = "committing"
     THEN Abandon(w)
     ELSE UNCHANGED abandoned
  /\ UNCHANGED <<brokerVars, held, attempt, stopping, faults>>

Handle(w) == \E result \in Result : HandlerReturns(w, result)

\* Mutant of BackoffExpires: the attempt is never counted.
BackoffUncounted(w) ==
  /\ phase[w] = "backoff"
  /\ GoTo(w, "handling")
  /\ UNCHANGED <<brokerVars, held, attempt, stopping, handled, abandoned, faults>>

BackoffExpires(w) ==
  /\ phase[w] = "backoff"
  /\ attempt' = [attempt EXCEPT ![w] = @ + 1]
  /\ GoTo(w, "handling")
  /\ UNCHANGED <<brokerVars, held, stopping, handled, abandoned, faults>>

\* The wait is cut short by the cancelled context: processMessage returns with
\* nothing recorded, and the reader goes on to commit.
BackoffCancelled(w) ==
  /\ phase[w] = "backoff"
  /\ stopping[w]
  /\ GoTo(w, "committing")
  /\ Abandon(w)
  /\ UNCHANGED <<brokerVars, held, attempt, stopping, handled, faults>>

\* Mutant of WriteLetter: encoding the letter fails for bytes that are not
\* JSON, and the failure is logged.
WriteLetterOfJSON(w) ==
  /\ phase[w] = "lettering"
  /\ dlq' = IF HasDLQ /\ held[w] \notin Garbled THEN dlq \cup {held[w]} ELSE dlq
  /\ GoTo(w, "committing")
  /\ UNCHANGED <<committed, owner, cursor, held, attempt, stopping, handled, abandoned, faults>>

\* Without a dead-letter topic the message is dropped.
WriteLetter(w) ==
  /\ phase[w] = "lettering"
  /\ IF HasDLQ THEN dlq' = dlq \cup {held[w]} /\ UNCHANGED abandoned
               ELSE Abandon(w) /\ UNCHANGED dlq
  /\ GoTo(w, "committing")
  /\ UNCHANGED <<committed, owner, cursor, held, attempt, stopping, handled, faults>>

\* The write failed: deadLetter logs it and returns, and so does processMessage.
LetterFails(w) ==
  /\ phase[w] = "lettering"
  /\ HasDLQ
  /\ Fault("dlq")
  /\ GoTo(w, "committing")
  /\ Abandon(w)
  /\ UNCHANGED <<brokerVars, held, attempt, stopping, handled>>

\* Mutant of LetGo: the finished message is kept.
GoOnHolding(w, there) == GoTo(w, there) /\ UNCHANGED held

LetGo(w, there) ==
  /\ GoTo(w, there)
  /\ held' = [held EXCEPT ![w] = None]

\* The broker records whatever offset it is sent, also one behind the offset
\* another reader has committed meanwhile.
Commit(w) ==
  /\ phase[w] = "committing"
  /\ committed' = [committed EXCEPT ![held[w][1]] = held[w][2]]
  /\ LetGo(w, "idle")
  /\ UNCHANGED <<owner, cursor, dlq, attempt, stopping, handled, abandoned, faults>>

CommitFails(w) ==
  /\ phase[w] = "committing"
  /\ Fault("commit")
  /\ LetGo(w, "idle")
  /\ UNCHANGED <<brokerVars, attempt, stopping, handled, abandoned>>

Leave(w) == owner' = [p \in Partition |-> IF owner[p] = w THEN None ELSE owner[p]]

\* CommitMessages under a cancelled context: the request may have reached the
\* commit loop or not; either way the call reports Canceled and the reader ends.
CommitCancelled(w) ==
  /\ phase[w] = "committing"
  /\ stopping[w]
  /\ \/ committed' = [committed EXCEPT ![held[w][1]] = held[w][2]]
     \/ UNCHANGED committed
  /\ LetGo(w, "down")
  /\ Leave(w)
  /\ stopping' = [stopping EXCEPT ![w] = FALSE]
  /\ UNCHANGED <<cursor, dlq, attempt, handled, abandoned, faults>>

\* Mutant of Stop: the cancelled fetch is taken for a failed one and retried.
StopRetried(w) ==
  /\ phase[w] = "idle"
  /\ stopping[w]
  /\ UNCHANGED groupVars

\* FetchMessage reports the cancelled context.
Stop(w) ==
  /\ phase[w] = "idle"
  /\ stopping[w]
  /\ GoTo(w, "down")
  /\ Leave(w)
  /\ stopping' = [stopping EXCEPT ![w] = FALSE]
  /\ UNCHANGED <<committed, cursor, dlq, held, attempt, handled, abandoned, faults>>

----------------------------------------------------------------------------
(* The process around the reader.                                          *)

\* A signal cancels the context; the reader notices at its next wait.
Shutdown(w) ==
  /\ phase[w] # "down"
  /\ ~ stopping[w]
  /\ Fault("shutdown")
  /\ stopping' = [stopping EXCEPT ![w] = TRUE]
  /\ UNCHANGED <<brokerVars, phase, held, attempt, handled, abandoned>>

Crash(w) ==
  /\ phase[w] # "down"
  /\ Fault("crash")
  /\ LetGo(w, "down")
  /\ Leave(w)
  /\ stopping' = [stopping EXCEPT ![w] = FALSE]
  /\ UNCHANGED <<committed, cursor, dlq, attempt, handled, abandoned>>

Restart(w) ==
  /\ phase[w] = "down"
  /\ GoTo(w, "idle")
  /\ UNCHANGED <<brokerVars, held, attempt, stopping, handled, abandoned, faults>>

----------------------------------------------------------------------------
\* The steps a reader takes around the handler call.
ReaderStep(w) ==
  \/ Fetch(w)
  \/ BackoffExpires(w)
  \/ BackoffCancelled(w)
  \/ WriteLetter(w)
  \/ Commit(w)
  \/ CommitCancelled(w)
  \/ Stop(w)
  \/ Restart(w)

\* What goes wrong around a reader, short of its death.
ReaderFault(w) ==
  \/ LetterFails(w)
  \/ CommitFails(w)
  \/ Shutdown(w)

CoordinatorStep(p) == Assign(p) \/ Rebalance(p)

GroupNext ==
  \/ \E p \in Partition : CoordinatorStep(p)
  \/ \E w \in Worker : ReaderStep(w) \/ ReaderFault(w) \/ Crash(w) \/ Handle(w)

\* The readers keep running and orphaned partitions find an owner; faults,
\* rebalances and signals are nobody's duty.
GroupFairness ==
  /\ \A w \in Worker : WF_groupVars(ReaderStep(w)) /\ WF_groupVars(Handle(w))
  /\ \A p \in Partition : WF_groupVars(Assign(p))

GroupSpec == GroupInit /\ [][GroupNext]_groupVars
FairGroupSpec == GroupSpec /\ GroupFairness

----------------------------------------------------------------------------
\* A message is settled when a handler call acknowledged it or a letter
\* records that none could.
Settled(m) == m \in handled \/ m \in dlq

\* The two faults after which the code moves the offset past a message that
\* nothing records.
Lossless == HasDLQ /\ FaultKinds \cap {"dlq", "shutdown"} = {}

\* At least once: the committed offset of a partition never passes a message
\* that was neither handled nor dead-lettered, whatever readers crash, lose
\* their partition while they work, or fail to commit (consumer.go, runReader
\* and processMessage).
CommittedIsSettled ==
  \A p \in Partition : \A o \in 1..committed[p] : Settled(<<p, o>>)

\* Without that assumption: whatever fails and whoever is told to stop, only
\* what a reader gave up on, cut short in its retries or unable to write the
\* letter, is passed without a record; no crash, rebalance or failed commit
\* loses anything, also not together with those (consumer.go, processMessage
\* and deadLetter: the early returns, and the commit in runReader after them).
OnlyAbandonedIsLost ==
  \A p \in Partition : \A o \in 1..committed[p] :
    Settled(<<p, o>>) \/ <<p, o>> \in abandoned

\* A reader is always free again: neither a handler that fails for ever nor a
\* letter that cannot be written nor a shutdown keeps it, and the partition
\* behind it, with one message (consumer.go, processMessage: the retry budget).
ReadersComeBack == \A w \in Worker : []<>(phase[w] = "idle")

\* How many steps processMessage and runReader still have with the message in
\* hand, at most.
ToDo(w) ==
  CASE phase[w] \in {"idle", "down"} -> 0
    [] phase[w] = "committing"       -> 1
    [] phase[w] = "lettering"        -> 2
    [] phase[w] = "backoff"          -> 2 * (MaxAttempts - attempt[w]) + 2
    [] phase[w] = "handling"         -> 2 * (MaxAttempts - attempt[w]) + 3

\* The safety half of that: a reader with a message in hand takes no other
\* before it is done with this one, and whatever the handler returns and
\* whatever fails, each step it takes leaves it fewer to do (consumer.go,
\* processMessage: every way round the loop counts an attempt).
WorkRunsDown ==
  [][\A w \in Worker : ToDo(w) > 0 =>
       \/ phase'[w] = phase[w] /\ attempt'[w] = attempt[w] /\ held'[w] = held[w]
       \/ ToDo(w)' < ToDo(w) /\ (ToDo(w)' > 0 => held'[w] = held[w])]_groupVars

\* A garbled message never reaches the handler, so no attempt of it can be
\* acknowledged: its only record is its letter.
GarbledIsLettered ==
  \A p \in Partition : \A o \in 1..committed[p] :
    <<p, o>> \in Garbled => <<p, o>> \in dlq
============================================================================
