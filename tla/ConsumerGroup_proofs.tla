----------------------- MODULE ConsumerGroup_proofs -----------------------
(***************************************************************************)
(* Proofs about ConsumerGroup: types; that a consumer commits only what is *)
(* settled or was abandoned, and abandons nothing without the two losing   *)
(* faults; that one whose letters are written commits past a garbled       *)
(* message only with its letter; and that a message holds its reader up    *)
(* for a bounded number of steps.                                          *)
(*                                                                         *)
(* What is said of commits is one argument about a set of messages that    *)
(* only grows: readers fetch in order, so if each puts the message it holds*)
(* into the set before it goes on to commit, all that is committed is in   *)
(* the set (InOrder).                                                      *)
(***************************************************************************)
EXTENDS ConsumerGroup, TLAPS

\* The elements of Msg are the pairs of a partition and one of its offsets.
LEMMA MsgIsPair ==
  \A m : m \in Msg <=> \E p \in Partition : \E o \in 1..LogLen[p] : m = <<p, o>>
BY DEF Msg

\* The type invariant, with the bounds of offsets and attempts it needs.
GroupTypes ==
  /\ GroupTypeOK
  /\ \A p \in Partition : committed[p] <= LogLen[p] /\ cursor[p] <= LogLen[p]
  /\ \A w \in Worker : phase[w] = "backoff" => attempt[w] < MaxAttempts

\* The initial state is well typed.
LEMMA GroupTypesInit == GroupInit => GroupTypes
BY GroupAssumption DEF GroupInit, GroupTypes, GroupTypeOK, Phase

\* A reader whose context ends at the commit leaves the types as they are.
LEMMA CommitCancelledTypes ==
  ASSUME GroupTypes, NEW w \in Worker, CommitCancelled(w) PROVE GroupTypes'
<1>1. held[w] \in Msg
  BY DEF CommitCancelled, GroupTypes, GroupTypeOK
<1>2. PICK p \in Partition : \E o \in 1..LogLen[p] : held[w] = <<p, o>>
  BY <1>1, MsgIsPair
<1>3. PICK o \in 1..LogLen[p] : held[w] = <<p, o>>
  BY <1>2
<1>4. /\ committed' = [committed EXCEPT ![p] = o] \/ UNCHANGED committed
      /\ owner' = [q \in Partition |-> IF owner[q] = w THEN None ELSE owner[q]]
      /\ phase' = [phase EXCEPT ![w] = "down"] /\ held' = [held EXCEPT ![w] = None]
      /\ stopping' = [stopping EXCEPT ![w] = FALSE]
      /\ UNCHANGED <<cursor, dlq, attempt, handled, abandoned, faults>>
  BY <1>3 DEF CommitCancelled, LetGo, GoTo, Leave
<1>5. o \in Nat /\ o <= LogLen[p]
  BY GroupAssumption
<1>6. /\ committed' \in [Partition -> Nat] /\ owner' \in [Partition -> Worker \cup {None}]
      /\ \A q \in Partition : committed'[q] <= LogLen[q] /\ cursor'[q] <= LogLen[q]
  BY <1>4, <1>5 DEF GroupTypes, GroupTypeOK
<1>7. /\ phase' \in [Worker -> Phase] /\ held' \in [Worker -> Msg \cup {None}]
      /\ stopping' \in [Worker -> BOOLEAN]
  BY <1>4 DEF GroupTypes, GroupTypeOK, Phase
<1>8. \A v \in Worker : /\ held'[v] = None <=> phase'[v] \in {"idle", "down"}
                        /\ phase'[v] = "backoff" => attempt'[v] < MaxAttempts
  BY <1>4 DEF GroupTypes, GroupTypeOK
<1>9. QED
  BY <1>4, <1>6, <1>7, <1>8 DEF GroupTypes, GroupTypeOK

\* Every step of the group keeps the types and the bounds.
LEMMA GroupTypesStep == GroupTypes /\ [GroupNext]_groupVars => GroupTypes'
<1> SUFFICES ASSUME GroupTypes, [GroupNext]_groupVars PROVE GroupTypes'
  OBVIOUS
<1> USE GroupAssumption DEF GroupTypes, GroupTypeOK, Phase
<1>1. CASE UNCHANGED groupVars
  BY <1>1 DEF groupVars, brokerVars, readerVars
<1>2. ASSUME NEW p \in Partition, CoordinatorStep(p) PROVE GroupTypes'
  BY <1>2 DEF CoordinatorStep, Assign, Rebalance, GiveTo, Fault, readerVars
<1>3. ASSUME NEW w \in Worker, Fetch(w) PROVE GroupTypes'
  BY <1>3, MsgIsPair DEF Fetch, GoTo
<1>4. ASSUME NEW w \in Worker, BackoffExpires(w) PROVE GroupTypes'
  BY <1>4 DEF BackoffExpires, GoTo, brokerVars
<1>5. ASSUME NEW w \in Worker, BackoffCancelled(w) PROVE GroupTypes'
  BY <1>5 DEF BackoffCancelled, GoTo, Abandon, brokerVars
<1>6. ASSUME NEW w \in Worker, WriteLetter(w) PROVE GroupTypes'
  BY <1>6 DEF WriteLetter, GoTo, Abandon
<1>7. ASSUME NEW w \in Worker, Commit(w) PROVE GroupTypes'
  BY <1>7, MsgIsPair DEF Commit, LetGo, GoTo
<1>8. ASSUME NEW w \in Worker, CommitCancelled(w) PROVE GroupTypes'
  BY <1>8, CommitCancelledTypes
<1>9. ASSUME NEW w \in Worker, Stop(w) PROVE GroupTypes'
  BY <1>9 DEF Stop, GoTo, Leave
<1>10. ASSUME NEW w \in Worker, Restart(w) PROVE GroupTypes'
  BY <1>10 DEF Restart, GoTo, brokerVars
<1>11. ASSUME NEW w \in Worker, ReaderFault(w) PROVE GroupTypes'
  <2>1. CASE LetterFails(w)
    BY <2>1 DEF LetterFails, GoTo, Fault, Abandon, brokerVars
  <2>2. CASE CommitFails(w)
    BY <2>2 DEF CommitFails, LetGo, GoTo, Fault, brokerVars
  <2>3. CASE Shutdown(w)
    BY <2>3 DEF Shutdown, Fault, brokerVars
  <2>4. QED
    BY <1>11, <2>1, <2>2, <2>3 DEF ReaderFault
<1>12. ASSUME NEW w \in Worker, Crash(w) PROVE GroupTypes'
  BY <1>12 DEF Crash, LetGo, GoTo, Leave, Fault
<1>13. ASSUME NEW w \in Worker, Handle(w) PROVE GroupTypes'
  BY <1>13 DEF Handle, HandlerReturns, GoTo, AfterResult, Result, Abandon, brokerVars
<1>14. QED
  BY <1>1, <1>2, <1>3, <1>4, <1>5, <1>6, <1>7, <1>8, <1>9, <1>10, <1>11, <1>12, <1>13
  DEF GroupNext, ReaderStep

\* Type correctness of the consumer's state, for any number of readers,
\* partitions, attempts and faults (consumer.go, runReader, processMessage).
THEOREM GroupTypeCorrect == GroupSpec => []GroupTypes
<1>1. QED
  BY GroupTypesInit, GroupTypesStep, PTL DEF GroupSpec

----------------------------------------------------------------------------
(* That a commit is right depends on what its reader did before.  For a    *)
(* set of messages D that are done with, InOrder says what a reader knows  *)
(* while it works: everything before the message it holds is done with,    *)
(* because it fetched in order from an offset behind which all was, even   *)
(* if its partition has moved since; and when it is about to commit, so is *)
(* the message itself.                                                     *)

CommittedIn(D) == \A p \in Partition : \A o \in 1..committed[p] : <<p, o>> \in D

FetchedIn(D) ==
  \A p \in Partition : owner[p] # None =>
    \A o \in 1..cursor[p] : <<p, o>> \in D \/ held[owner[p]] = <<p, o>>

BeforeHeldIn(D) ==
  \A w \in Worker, p \in Partition : \A o \in 1..LogLen[p] :
    held[w] = <<p, o>> => \A i \in 1..(o - 1) : <<p, i>> \in D

CommittingIn(D) == \A w \in Worker : phase[w] = "committing" => held[w] \in D

InOrder(D) == CommittedIn(D) /\ FetchedIn(D) /\ BeforeHeldIn(D) /\ CommittingIn(D)

\* Initially nothing is fetched, held or committed.
LEMMA InOrderInit == ASSUME GroupTypes, GroupInit, NEW D PROVE InOrder(D)
<1>1. CommittedIn(D) /\ FetchedIn(D) /\ CommittingIn(D)
  BY DEF GroupInit, CommittedIn, FetchedIn, CommittingIn
<1>2. BeforeHeldIn(D)
  BY GroupAssumption, MsgIsPair DEF GroupInit, BeforeHeldIn
<1>3. QED
  BY <1>1, <1>2 DEF InOrder

LEMMA InOrderGrows == ASSUME NEW D, NEW E, D \subseteq E, InOrder(D) PROVE InOrder(E)
BY DEF InOrder, CommittedIn, FetchedIn, BeforeHeldIn, CommittingIn

\* A reader that lets go of the message it is committing, and perhaps of its
\* partitions, disturbs nothing else.
LEMMA LettingGo ==
  ASSUME GroupTypes, NEW D, InOrder(D), NEW w \in Worker,
         phase[w] = "committing", UNCHANGED owner \/ Leave(w),
         \E there \in {"idle", "down"} : LetGo(w, there),
         UNCHANGED cursor
  PROVE  FetchedIn(D)' /\ BeforeHeldIn(D)' /\ CommittingIn(D)'
<1> USE GroupAssumption DEF GroupTypes, GroupTypeOK, Phase
<1>1. \A v \in Worker : v # w => held'[v] = held[v] /\ phase'[v] = phase[v]
  BY DEF LetGo, GoTo
<1>2. held'[w] = None /\ phase'[w] \in {"idle", "down"} /\ held[w] \in D
  BY DEF LetGo, GoTo, InOrder, CommittingIn
<1>3. FetchedIn(D)'
  <2>1. CASE UNCHANGED owner
    BY <1>1, <1>2, <2>1 DEF InOrder, FetchedIn
  <2>2. CASE Leave(w)
    <3>1. \A p \in Partition : owner'[p] = IF owner[p] = w THEN None ELSE owner[p]
      BY <2>2 DEF Leave
    <3>2. QED
      BY <1>1, <1>2, <3>1 DEF InOrder, FetchedIn
  <2>3. QED
    BY <2>1, <2>2
<1>4. BeforeHeldIn(D)'
  BY <1>1, <1>2, MsgIsPair DEF InOrder, BeforeHeldIn
<1>5. CommittingIn(D)'
  BY <1>1, <1>2 DEF InOrder, CommittingIn
<1>6. QED
  BY <1>3, <1>4, <1>5

\* A reader may commit what it has come to commit.
LEMMA Committing ==
  ASSUME GroupTypes, NEW D, InOrder(D), NEW w \in Worker, phase[w] = "committing",
         committed' = [committed EXCEPT ![held[w][1]] = held[w][2]]
  PROVE  CommittedIn(D)'
<1> USE GroupAssumption DEF GroupTypes, GroupTypeOK, Phase
<1>1. PICK p \in Partition : \E o \in 1..LogLen[p] : held[w] = <<p, o>>
  BY MsgIsPair
<1>2. PICK o \in 1..LogLen[p] : held[w] = <<p, o>>
  BY <1>1
<1>3. <<p, o>> \in D
  BY <1>2 DEF InOrder, CommittingIn
<1>4. \A i \in 1..(o - 1) : <<p, i>> \in D
  BY <1>2 DEF InOrder, BeforeHeldIn
<1>5. \A n \in Nat : \A i \in 1..n : i = n \/ i \in 1..(n - 1)
  OBVIOUS
<1>6. \A i \in 1..o : <<p, i>> \in D
  BY <1>3, <1>4, <1>5
<1>7. committed' = [committed EXCEPT ![p] = o]
  BY <1>2
<1>8. QED
  BY <1>6, <1>7 DEF InOrder, CommittedIn

\* Every step keeps the order, if a message is done with before its reader goes
\* on to commit it.
LEMMA InOrderStep ==
  ASSUME GroupTypes, GroupTypes', [GroupNext]_groupVars, NEW D, InOrder(D),
         \A w \in Worker : phase'[w] = "committing" => phase[w] = "committing" \/ held[w] \in D
  PROVE  InOrder(D)'
<1> USE GroupAssumption DEF GroupTypes, GroupTypeOK, Phase
<1>0. ASSUME UNCHANGED <<committed, owner, cursor, held>> PROVE InOrder(D)'
  BY <1>0 DEF InOrder, CommittedIn, FetchedIn, BeforeHeldIn, CommittingIn
<1>1. CASE UNCHANGED groupVars
  BY <1>0, <1>1 DEF groupVars, brokerVars, readerVars
<1>2. ASSUME NEW p \in Partition, CoordinatorStep(p) PROVE InOrder(D)'
  <2>1. PICK w \in Worker : GiveTo(p, w)
    BY <1>2 DEF CoordinatorStep, Assign, Rebalance
  <2>2. owner'[p] = w /\ cursor'[p] = committed[p]
    BY <2>1 DEF GiveTo
  <2>3. FetchedIn(D)'
    <3> SUFFICES ASSUME NEW q \in Partition, owner'[q] # None, NEW o \in 1..cursor'[q]
                 PROVE  <<q, o>> \in D \/ held'[owner'[q]] = <<q, o>>
      BY DEF FetchedIn
    <3>1. CASE q = p
      BY <3>1, <2>2 DEF InOrder, CommittedIn
    <3>2. CASE q # p
      BY <3>2, <2>1 DEF GiveTo, readerVars, InOrder, FetchedIn
    <3>3. QED
      BY <3>1, <3>2
  <2>4. QED
    BY <2>1, <2>3 DEF GiveTo, readerVars, InOrder, CommittedIn, BeforeHeldIn, CommittingIn
<1>3. ASSUME NEW w \in Worker, Fetch(w) PROVE InOrder(D)'
  <2>1. PICK p \in Partition :
          /\ owner[p] = w /\ cursor[p] < LogLen[p] /\ phase[w] = "idle"
          /\ cursor' = [cursor EXCEPT ![p] = @ + 1]
          /\ held' = [held EXCEPT ![w] = <<p, cursor[p] + 1>>]
          /\ GoTo(w, IF <<p, cursor[p] + 1>> \in Garbled THEN "lettering" ELSE "handling")
    BY <1>3 DEF Fetch
  <2>2. UNCHANGED <<committed, owner>>
    BY <1>3 DEF Fetch
  <2>3. held[w] = None
    BY <2>1
  <2>4. \A q \in Partition : owner[q] = w => \A o \in 1..cursor[q] : <<q, o>> \in D
    <3> SUFFICES ASSUME NEW q \in Partition, owner[q] = w, NEW o \in 1..cursor[q]
                 PROVE  <<q, o>> \in D
      OBVIOUS
    <3>1. <<q, o>> \in Msg
      BY MsgIsPair
    <3>2. QED
      BY <3>1, <2>3 DEF InOrder, FetchedIn
  <2>5. FetchedIn(D)'
    <3> SUFFICES ASSUME NEW q \in Partition, owner[q] # None, NEW o \in 1..cursor'[q]
                 PROVE  <<q, o>> \in D \/ held'[owner[q]] = <<q, o>>
      BY <2>2 DEF FetchedIn
    <3>1. CASE owner[q] = w /\ q = p
      BY <3>1, <2>1, <2>4
    <3>2. CASE owner[q] = w /\ q # p
      BY <3>2, <2>1, <2>4
    <3>3. CASE owner[q] # w
      BY <3>3, <2>1 DEF InOrder, FetchedIn
    <3>4. QED
      BY <3>1, <3>2, <3>3
  <2>6. BeforeHeldIn(D)'
    <3> SUFFICES ASSUME NEW v \in Worker, NEW q \in Partition, NEW o \in 1..LogLen[q],
                        held'[v] = <<q, o>>, NEW i \in 1..(o - 1)
                 PROVE  <<q, i>> \in D
      BY DEF BeforeHeldIn
    <3>1. CASE v = w
      BY <3>1, <2>1, <2>4
    <3>2. CASE v # w
      BY <3>2, <2>1 DEF InOrder, BeforeHeldIn
    <3>3. QED
      BY <3>1, <3>2
  <2>7. CommittingIn(D)'
    BY <2>1 DEF GoTo, InOrder, CommittingIn
  <2>8. QED
    BY <2>2, <2>5, <2>6, <2>7 DEF InOrder, CommittedIn
<1>4. ASSUME NEW w \in Worker,
             BackoffExpires(w) \/ BackoffCancelled(w) \/ WriteLetter(w) \/ Restart(w)
               \/ LetterFails(w) \/ Shutdown(w) \/ Handle(w)
      PROVE  InOrder(D)'
  BY <1>0, <1>4 DEF BackoffExpires, BackoffCancelled, WriteLetter, Restart, LetterFails, Shutdown,
     Handle, HandlerReturns, brokerVars
<1>5. ASSUME NEW w \in Worker, Commit(w) \/ CommitCancelled(w) \/ CommitFails(w) PROVE InOrder(D)'
  <2>1. /\ phase[w] = "committing"
        /\ \E there \in {"idle", "down"} : LetGo(w, there)
        /\ UNCHANGED owner \/ Leave(w)
        /\ UNCHANGED cursor
    BY <1>5 DEF Commit, CommitCancelled, CommitFails, brokerVars
  <2>2. \/ committed' = [committed EXCEPT ![held[w][1]] = held[w][2]]
        \/ UNCHANGED committed
    BY <1>5 DEF Commit, CommitCancelled, CommitFails, brokerVars
  <2>3. CommittedIn(D)'
    BY <2>1, <2>2, Committing DEF InOrder, CommittedIn
  <2>4. QED
    BY <2>1, <2>3, LettingGo DEF InOrder
<1>6. ASSUME NEW w \in Worker, Stop(w) \/ Crash(w) PROVE InOrder(D)'
  <2>1. /\ \A v \in Worker : v # w => held'[v] = held[v] /\ phase'[v] = phase[v]
        /\ held'[w] = None /\ phase'[w] = "down"
    BY <1>6 DEF Stop, Crash, LetGo, GoTo
  <2>2. Leave(w) /\ UNCHANGED <<committed, cursor>>
    BY <1>6 DEF Stop, Crash
  <2>3. \A p \in Partition : owner'[p] = IF owner[p] = w THEN None ELSE owner[p]
    BY <2>2 DEF Leave
  <2>4. FetchedIn(D)'
    BY <2>1, <2>2, <2>3 DEF InOrder, FetchedIn
  <2>5. BeforeHeldIn(D)'
    <3> SUFFICES ASSUME NEW v \in Worker, NEW q \in Partition, NEW o \in 1..LogLen[q],
                        held'[v] = <<q, o>>, NEW i \in 1..(o - 1)
                 PROVE  <<q, i>> \in D
      BY DEF BeforeHeldIn
    <3>1. <<q, o>> # None
      BY MsgIsPair
    <3>2. held[v] = <<q, o>>
      BY <2>1, <3>1
    <3>3. QED
      BY <3>2 DEF InOrder, BeforeHeldIn
  <2>6. CommittingIn(D)'
    BY <2>1 DEF InOrder, CommittingIn
  <2>7. QED
    BY <2>2, <2>4, <2>5, <2>6 DEF InOrder, CommittedIn
<1>7. QED
  BY <1>1, <1>2, <1>3, <1>4, <1>5, <1>6 DEF GroupNext, ReaderStep, ReaderFault

----------------------------------------------------------------------------
(* What is done with: handled, lettered or abandoned.                      *)

Accounted == handled \cup dlq \cup abandoned

Accounting == InOrder(Accounted)

\* What is accounted for stays so.
LEMMA AccountedForGood ==
  ASSUME GroupTypes, [GroupNext]_groupVars
  PROVE  handled \subseteq handled' /\ dlq \subseteq dlq' /\ abandoned \subseteq abandoned'
BY DEF GroupNext, groupVars, brokerVars, readerVars, CoordinatorStep, Assign, Rebalance, GiveTo,
   ReaderStep, Fetch, BackoffExpires, BackoffCancelled, WriteLetter, Commit, CommitCancelled,
   Stop, Restart, ReaderFault, LetterFails, CommitFails, Shutdown, Crash, Handle, HandlerReturns,
   Abandon

\* A reader goes on to commit with a record of its message, or abandons it.
LEMMA CommittingIsAccounted ==
  ASSUME GroupTypes, [GroupNext]_groupVars, NEW w \in Worker,
         phase[w] # "committing", phase'[w] = "committing"
  PROVE  held[w] \in Accounted'
<1> USE DEF GroupTypes, GroupTypeOK
<1>1. ASSUME NEW v \in Worker,
             Fetch(v) \/ BackoffExpires(v) \/ Commit(v) \/ CommitCancelled(v) \/ Stop(v)
               \/ Restart(v) \/ CommitFails(v) \/ Crash(v)
      PROVE  FALSE
  BY <1>1 DEF Fetch, BackoffExpires, Commit, CommitCancelled, Stop, Restart, CommitFails, Crash,
     LetGo, GoTo
<1>2. ASSUME NEW v \in Worker, BackoffCancelled(v) \/ WriteLetter(v) \/ LetterFails(v)
      PROVE  held[w] \in Accounted'
  <2>1. v = w
    BY <1>2 DEF BackoffCancelled, WriteLetter, LetterFails, GoTo
  <2>2. QED
    BY <1>2, <2>1 DEF BackoffCancelled, WriteLetter, LetterFails, Abandon, Accounted
<1>3. ASSUME NEW v \in Worker, NEW result \in Result, HandlerReturns(v, result)
      PROVE  held[w] \in Accounted'
  <2>1. v = w /\ AfterResult(w, result) = "committing"
    BY <1>3 DEF HandlerReturns, GoTo
  <2>2. result \in {"ok", "duplicate"} \/ result = "transient"
    BY <2>1 DEF AfterResult, Result
  <2>3. QED
    BY <1>3, <2>1, <2>2 DEF HandlerReturns, Abandon, Accounted
<1>4. ASSUME NEW v \in Worker, Shutdown(v) PROVE FALSE
  BY <1>4 DEF Shutdown
<1>5. ASSUME NEW p \in Partition, CoordinatorStep(p) PROVE FALSE
  BY <1>5 DEF CoordinatorStep, Assign, Rebalance, GiveTo, readerVars
<1>6. CASE UNCHANGED groupVars
  BY <1>6 DEF groupVars, readerVars
<1>7. QED
  BY <1>1, <1>2, <1>3, <1>4, <1>5, <1>6 DEF GroupNext, ReaderStep, ReaderFault, Handle

LEMMA AccountingStep ==
  ASSUME GroupTypes, GroupTypes', Accounting, [GroupNext]_groupVars
  PROVE  Accounting'
<1>1. PICK D : D = Accounted'
  OBVIOUS
<1>2. Accounted \subseteq D
  BY <1>1, AccountedForGood DEF Accounted
<1>3. InOrder(D)
  BY <1>2, InOrderGrows DEF Accounting
<1>4. \A w \in Worker : phase'[w] = "committing" => phase[w] = "committing" \/ held[w] \in D
  BY <1>1, CommittingIsAccounted
<1>5. InOrder(D)'
  BY <1>3, <1>4, InOrderStep
<1>6. QED
  BY <1>1, <1>5 DEF Accounting, InOrder, CommittedIn, FetchedIn, BeforeHeldIn, CommittingIn

\* The inductive invariant of the consumer: types, and what is committed, before
\* a held message, or about to be committed is accounted for (consumer.go,
\* runReader).
THEOREM AccountingInvariant == GroupSpec => [](GroupTypes /\ Accounting)
<1>1. GroupInit => GroupTypes /\ Accounting
  BY GroupTypesInit, InOrderInit DEF Accounting
<1>2. GroupTypes /\ Accounting /\ [GroupNext]_groupVars => (GroupTypes /\ Accounting)'
  BY GroupTypesStep, AccountingStep
<1>3. QED
  BY <1>1, <1>2, PTL DEF GroupSpec

\* What is committed without a record was abandoned, for any handler and any
\* faults whatever (consumer.go, runReader and processMessage).
THEOREM NothingElseIsLost == GroupSpec => []OnlyAbandonedIsLost
<1>1. Accounting => OnlyAbandonedIsLost
  BY DEF Accounting, InOrder, CommittedIn, Accounted, OnlyAbandonedIsLost, Settled
<1>2. QED
  BY <1>1, AccountingInvariant, PTL

NoneAbandoned == abandoned = {} /\ \A w \in Worker : ~ stopping[w]

LEMMA NoneAbandonedStep ==
  ASSUME Lossless, GroupTypes, NoneAbandoned, [GroupNext]_groupVars
  PROVE  NoneAbandoned'
<1> USE DEF NoneAbandoned
<1>1. CASE UNCHANGED groupVars
  BY <1>1 DEF groupVars, readerVars
<1>2. ASSUME NEW p \in Partition, CoordinatorStep(p) PROVE NoneAbandoned'
  BY <1>2 DEF CoordinatorStep, Assign, Rebalance, GiveTo, readerVars
<1>3. ASSUME NEW w \in Worker, ReaderStep(w) PROVE NoneAbandoned'
  BY <1>3 DEF ReaderStep, Fetch, BackoffExpires, BackoffCancelled, WriteLetter, Commit,
     CommitCancelled, Stop, Restart, Lossless
<1>4. ASSUME NEW w \in Worker, ReaderFault(w) PROVE NoneAbandoned'
  BY <1>4 DEF ReaderFault, LetterFails, CommitFails, Shutdown, Fault, Lossless
<1>5. ASSUME NEW w \in Worker, Crash(w) PROVE NoneAbandoned'
  BY <1>5 DEF Crash, GroupTypes, GroupTypeOK
<1>6. ASSUME NEW w \in Worker, NEW result \in Result, HandlerReturns(w, result)
      PROVE  NoneAbandoned'
  BY <1>6 DEF HandlerReturns, AfterResult, Result
<1>7. QED
  BY <1>1, <1>2, <1>3, <1>4, <1>5, <1>6 DEF GroupNext, Handle

\* With a dead-letter topic, and without its writes failing and without a
\* shutdown, nothing is abandoned (consumer.go, processMessage and deadLetter).
THEOREM NothingIsAbandoned ==
  ASSUME Lossless
  PROVE  GroupSpec => []NoneAbandoned
<1>1. GroupInit => NoneAbandoned
  BY DEF GroupInit, NoneAbandoned
<1>2. GroupTypes /\ NoneAbandoned /\ [GroupNext]_groupVars => NoneAbandoned'
  BY Lossless, NoneAbandonedStep
<1>3. QED
  BY <1>1, <1>2, GroupTypeCorrect, PTL DEF GroupSpec

\* At least once: with a dead-letter topic, and without its writes failing and
\* without a shutdown, no offset is committed past a message that was neither
\* handled nor dead-lettered (consumer.go, runReader: "the offset advances only
\* now, after the work is durably done"), for any handler and any number of
\* crashes, rebalances and failed commits.
THEOREM AtLeastOnce ==
  ASSUME Lossless
  PROVE  GroupSpec => []CommittedIsSettled
<1>1. OnlyAbandonedIsLost /\ NoneAbandoned => CommittedIsSettled
  BY DEF OnlyAbandonedIsLost, NoneAbandoned, CommittedIsSettled
<1>2. GroupSpec => []NoneAbandoned
  BY Lossless, NothingIsAbandoned
<1>3. QED
  BY <1>1, <1>2, NothingElseIsLost, PTL

----------------------------------------------------------------------------
(* A garbled message is recorded by nothing but its letter, and a shutdown,*)
(* which may lose a message in a retry, never finds a garbled one there.   *)

LettersAreWritten == HasDLQ /\ "dlq" \notin FaultKinds

\* The messages that have their letter, if they need one.
Lettered == {m \in Msg : m \in Garbled => m \in dlq}

\* Garbled messages are lettered in order, and none is handed to the handler.
Sorting ==
  /\ InOrder(Lettered)
  /\ \A w \in Worker : phase[w] \in {"handling", "backoff"} => held[w] \notin Garbled

\* Only a reader that has written its letter commits a garbled message.
LEMMA CommittingIsLettered ==
  ASSUME LettersAreWritten, GroupTypes, Sorting, [GroupNext]_groupVars, NEW w \in Worker,
         phase[w] # "committing", phase'[w] = "committing"
  PROVE  held[w] \in Lettered'
<1> USE DEF GroupTypes, GroupTypeOK, Phase
<1>1. ASSUME NEW v \in Worker,
             Fetch(v) \/ BackoffExpires(v) \/ Commit(v) \/ CommitCancelled(v) \/ Stop(v)
               \/ Restart(v) \/ CommitFails(v) \/ Crash(v) \/ LetterFails(v) \/ Shutdown(v)
      PROVE  FALSE
  BY <1>1 DEF Fetch, BackoffExpires, Commit, CommitCancelled, Stop, Restart, CommitFails, Crash,
     LetterFails, Shutdown, Fault, LettersAreWritten, LetGo, GoTo
<1>2. ASSUME NEW v \in Worker, WriteLetter(v) PROVE held[w] \in Lettered'
  <2>1. v = w
    BY <1>2 DEF WriteLetter, GoTo
  <2>2. held[w] \in Msg /\ dlq' = dlq \cup {held[w]}
    BY <1>2, <2>1 DEF WriteLetter, LettersAreWritten
  <2>3. QED
    BY <2>2 DEF Lettered
<1>3. ASSUME NEW v \in Worker, BackoffCancelled(v) \/ Handle(v) PROVE held[w] \in Lettered'
  <2>1. v = w
    BY <1>3 DEF BackoffCancelled, Handle, HandlerReturns, GoTo
  <2>2. phase[w] \in {"handling", "backoff"}
    BY <1>3, <2>1 DEF BackoffCancelled, Handle, HandlerReturns
  <2>3. held[w] \in Msg /\ held[w] \notin Garbled
    BY <2>2 DEF Sorting
  <2>4. QED
    BY <2>3 DEF Lettered
<1>4. ASSUME NEW p \in Partition, CoordinatorStep(p) PROVE FALSE
  BY <1>4 DEF CoordinatorStep, Assign, Rebalance, GiveTo, readerVars
<1>5. CASE UNCHANGED groupVars
  BY <1>5 DEF groupVars, readerVars
<1>6. QED
  BY <1>1, <1>2, <1>3, <1>4, <1>5 DEF GroupNext, ReaderStep, ReaderFault

\* The handler is given nothing that does not parse.
LEMMA HandlingIsReadable ==
  ASSUME GroupTypes, Sorting, [GroupNext]_groupVars, NEW w \in Worker,
         phase'[w] \in {"handling", "backoff"}
  PROVE  held'[w] \notin Garbled
<1> USE DEF GroupTypes, GroupTypeOK, Phase
<1>0. phase[w] \in {"handling", "backoff"} /\ held'[w] = held[w] => held'[w] \notin Garbled
  BY DEF Sorting
<1>1. ASSUME NEW v \in Worker,
             BackoffExpires(v) \/ BackoffCancelled(v) \/ WriteLetter(v) \/ Stop(v) \/ Restart(v)
               \/ LetterFails(v) \/ Shutdown(v) \/ Handle(v)
      PROVE  held'[w] \notin Garbled
  BY <1>0, <1>1 DEF BackoffExpires, BackoffCancelled, WriteLetter, Stop, Restart, LetterFails,
     Shutdown, Handle, HandlerReturns, GoTo
<1>2. ASSUME NEW v \in Worker, Commit(v) \/ CommitCancelled(v) \/ CommitFails(v) \/ Crash(v)
      PROVE  held'[w] \notin Garbled
  BY <1>0, <1>2 DEF Commit, CommitCancelled, CommitFails, Crash, LetGo, GoTo
<1>3. ASSUME NEW v \in Worker, Fetch(v) PROVE held'[w] \notin Garbled
  BY <1>0, <1>3 DEF Fetch, GoTo
<1>4. ASSUME NEW p \in Partition, CoordinatorStep(p) PROVE held'[w] \notin Garbled
  BY <1>0, <1>4 DEF CoordinatorStep, Assign, Rebalance, GiveTo, readerVars
<1>5. CASE UNCHANGED groupVars
  BY <1>0, <1>5 DEF groupVars, readerVars
<1>6. QED
  BY <1>1, <1>2, <1>3, <1>4, <1>5 DEF GroupNext, ReaderStep, ReaderFault

\* Without failing letters every step keeps Sorting.
LEMMA SortingStep ==
  ASSUME LettersAreWritten, GroupTypes, GroupTypes', Sorting, [GroupNext]_groupVars
  PROVE  Sorting'
<1>1. PICK D : D = Lettered'
  OBVIOUS
<1>2. Lettered \subseteq D
  BY <1>1, AccountedForGood DEF Lettered
<1>3. InOrder(D)
  BY <1>2, InOrderGrows DEF Sorting
<1>4. \A w \in Worker : phase'[w] = "committing" => phase[w] = "committing" \/ held[w] \in D
  BY <1>1, CommittingIsLettered
<1>5. InOrder(D)'
  BY <1>3, <1>4, InOrderStep
<1>6. InOrder(Lettered)'
  BY <1>1, <1>5 DEF InOrder, CommittedIn, FetchedIn, BeforeHeldIn, CommittingIn
<1>7. QED
  BY <1>6, HandlingIsReadable DEF Sorting

\* A garbled message is not committed past without its letter, for any handler
\* and any number of crashes, rebalances, failed commits and shutdowns, as long
\* as letters can be written (consumer.go, processMessage: a message that does
\* not parse goes to deadLetter without a handler call).
THEOREM GarbledHasLetter ==
  ASSUME LettersAreWritten
  PROVE  GroupSpec => []GarbledIsLettered
<1>1. GroupTypes /\ Sorting /\ [GroupNext]_groupVars => (GroupTypes /\ Sorting)'
  BY LettersAreWritten, GroupTypesStep, SortingStep
<1>2. Sorting => GarbledIsLettered
  BY DEF Sorting, InOrder, CommittedIn, Lettered, GarbledIsLettered
<1>3. GroupInit => GroupTypes /\ InOrder(Lettered)
  BY GroupTypesInit, InOrderInit
<1>4. GroupInit => Sorting
  BY <1>3 DEF GroupInit, Sorting
<1>5. QED
  BY <1>1, <1>2, <1>3, <1>4, PTL DEF GroupSpec
----------------------------------------------------------------------------
(* A message holds its reader up for a bounded number of steps.            *)

\* No more than a handler call and a wait for each attempt, and the commit.
LEMMA ToDoIsBounded ==
  ASSUME GroupTypes, NEW w \in Worker
  PROVE  ToDo(w) \in 0..(2 * MaxAttempts + 1)
<1> USE GroupAssumption
<1>1. attempt[w] \in 1..MaxAttempts /\ phase[w] \in Phase
  BY DEF GroupTypes, GroupTypeOK
<1>2. QED
  BY <1>1 DEF ToDo, Phase

\* A step that leaves w alone.
Rests(w) == phase'[w] = phase[w] /\ attempt'[w] = attempt[w] /\ held'[w] = held[w]

\* A step of w that brings it nearer to the end of its message.
Nears(w) == ToDo(w)' < ToDo(w) /\ (ToDo(w)' > 0 => held'[w] = held[w])

LEMMA WorkRunsDownStep ==
  ASSUME GroupTypes, [GroupNext]_groupVars, NEW w \in Worker, ToDo(w) > 0
  PROVE  Rests(w) \/ Nears(w)
<1> USE GroupAssumption
<1>1. /\ attempt \in [Worker -> 1..MaxAttempts] /\ attempt[w] \in 1..MaxAttempts
      /\ phase \in [Worker -> Phase] /\ phase[w] \in Phase
      /\ held \in [Worker -> Msg \cup {None}] /\ stopping \in [Worker -> BOOLEAN]
      /\ MaxAttempts \in Nat
      /\ phase[w] \notin {"idle", "down"}
      /\ phase[w] = "backoff" => attempt[w] < MaxAttempts
  BY DEF GroupTypes, GroupTypeOK, ToDo
<1>2. CASE UNCHANGED <<phase, attempt, held>>
  BY <1>2 DEF Rests
<1>3. ASSUME NEW v \in Worker, Fetch(v) \/ Restart(v) \/ Stop(v) PROVE Rests(w)
  BY <1>1, <1>3 DEF Fetch, Restart, Stop, GoTo, Rests
<1>4. ASSUME NEW v \in Worker, BackoffExpires(v) PROVE Rests(w) \/ Nears(w)
  <2>1. CASE v = w
    <3>1. /\ phase[w] = "backoff" /\ phase'[w] = "handling" /\ held' = held
          /\ attempt'[w] = attempt[w] + 1
      BY <1>1, <1>4, <2>1 DEF BackoffExpires, GoTo
    <3>2. QED
      BY <1>1, <3>1 DEF Nears, ToDo
  <2>2. CASE v # w
    BY <1>1, <1>4, <2>2 DEF BackoffExpires, GoTo, Rests
  <2>3. QED
    BY <2>1, <2>2
<1>5. ASSUME NEW v \in Worker,
             BackoffCancelled(v) \/ WriteLetter(v) \/ LetterFails(v)
      PROVE  Rests(w) \/ Nears(w)
  <2>1. /\ phase[v] \in {"backoff", "lettering"} /\ phase' = [phase EXCEPT ![v] = "committing"]
        /\ attempt' = attempt /\ held' = held
    BY <1>5 DEF BackoffCancelled, WriteLetter, LetterFails, GoTo
  <2>2. CASE v = w
    <3>1. phase[w] \in {"backoff", "lettering"} /\ phase'[w] = "committing"
      BY <1>1, <2>1, <2>2
    <3>2. QED
      BY <1>1, <2>1, <3>1 DEF Nears, ToDo
  <2>3. CASE v # w
    BY <1>1, <2>1, <2>3 DEF Rests
  <2>4. QED
    BY <2>2, <2>3
<1>6. ASSUME NEW v \in Worker, Commit(v) \/ CommitCancelled(v) \/ CommitFails(v) \/ Crash(v)
      PROVE  Rests(w) \/ Nears(w)
  <2>1. PICK there \in {"idle", "down"} : LetGo(v, there)
    BY <1>6 DEF Commit, CommitCancelled, CommitFails, Crash
  <2>2. attempt' = attempt
    BY <1>6 DEF Commit, CommitCancelled, CommitFails, Crash
  <2>3. CASE v = w
    <3>1. phase'[w] \in {"idle", "down"}
      BY <1>1, <2>1, <2>3 DEF LetGo, GoTo
    <3>2. ToDo(w)' = 0
      BY <3>1 DEF ToDo
    <3>3. ToDo(w) > 0
      OBVIOUS
    <3>4. QED
      BY <3>2, <3>3 DEF Nears
  <2>4. CASE v # w
    BY <1>1, <2>1, <2>2, <2>4 DEF LetGo, GoTo, Rests
  <2>5. QED
    BY <2>3, <2>4
<1>7. ASSUME NEW v \in Worker, Handle(v) PROVE Rests(w) \/ Nears(w)
  <2>1. PICK result \in Result : HandlerReturns(v, result)
    BY <1>7 DEF Handle
  <2>2. /\ phase[v] = "handling" /\ phase' = [phase EXCEPT ![v] = AfterResult(v, result)]
        /\ attempt' = attempt /\ held' = held
    BY <2>1 DEF HandlerReturns, GoTo
  <2>3. CASE v = w
    <3>1. AfterResult(w, result) \in {"committing", "lettering", "backoff"}
      BY <1>1, <2>1 DEF AfterResult, Result
    <3>2. phase[w] = "handling" /\ phase'[w] \in {"committing", "lettering", "backoff"}
      BY <1>1, <2>2, <2>3, <3>1
    <3>3. QED
      BY <1>1, <2>2, <3>2 DEF Nears, ToDo
  <2>4. CASE v # w
    BY <1>1, <2>2, <2>4 DEF Rests
  <2>5. QED
    BY <2>3, <2>4
<1>8. ASSUME NEW v \in Worker, Shutdown(v) PROVE UNCHANGED <<phase, attempt, held>>
  BY <1>8 DEF Shutdown
<1>9. ASSUME NEW p \in Partition, CoordinatorStep(p) PROVE UNCHANGED <<phase, attempt, held>>
  BY <1>9 DEF CoordinatorStep, Assign, Rebalance, GiveTo, readerVars
<1>10. CASE UNCHANGED groupVars
  BY <1>2, <1>10 DEF groupVars, readerVars
<1>11. QED
  BY <1>2, <1>3, <1>4, <1>5, <1>6, <1>7, <1>8, <1>9, <1>10
  DEF GroupNext, ReaderStep, ReaderFault

\* Whatever the handler returns, a reader is done with a message after at most
\* 2 * MaxAttempts + 1 steps of its own (ToDoIsBounded), and takes no other
\* before: the retry budget of processMessage bounds how long one message can
\* hold its partition up.
THEOREM MessagesAreFinished == GroupSpec => WorkRunsDown
<1>1. GroupTypes /\ [GroupNext]_groupVars =>
        [\A w \in Worker : ToDo(w) > 0 =>
           \/ phase'[w] = phase[w] /\ attempt'[w] = attempt[w] /\ held'[w] = held[w]
           \/ ToDo(w)' < ToDo(w) /\ (ToDo(w)' > 0 => held'[w] = held[w])]_groupVars
  BY WorkRunsDownStep DEF Rests, Nears
<1>2. QED
  BY GroupTypeCorrect, <1>1, PTL DEF GroupSpec, WorkRunsDown
============================================================================
