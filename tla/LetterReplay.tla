---------------------------- MODULE LetterReplay ----------------------------
(***************************************************************************)
(* Draining a dead-letter queue back into its topic: cmd/dlq-replay, the   *)
(* consumer that reads what was republished and the letters it files again *)
(* (internal/kafka/consumer.go, replayCount and deadLetter).               *)
(*                                                                         *)
(* The tool reads every partition of the queue from its first offset and   *)
(* commits nothing.  A partition is finished when it has been idle for a   *)
(* while: letters that are filed during the drain are read by it too.  How *)
(* often a message has been replayed travels with it, from the letter into *)
(* a header and from the header into the next letter.                      *)
(***************************************************************************)
EXTENDS Integers, Sequences

CONSTANTS
  Message,         \* original messages
  Queue,           \* partitions of the dead-letter topic: 1..n
  FirstLetters,    \* [1..Queue -> Seq(Message)]  filed before the first drain
  QueueOf,         \* [Message -> 1..Queue]  by the original key
  Selected,        \* messages whose error class passes --filter
  MaxReplays,      \* --max-replays, positive (0 switches the ceiling off)
  Limits,          \* values of --limit, 0 for none
  MaxLetters,      \* bound: letters of a partition
  MaxDrains,       \* bound: runs of the tool
  MaxUnsent        \* bound: failed publishes and reads

ASSUME LetterAssumption ==
  /\ Queue \in Nat \ {0}
  /\ QueueOf \in [Message -> 1..Queue]
  /\ FirstLetters \in [1..Queue -> Seq(Message)]
  /\ Selected \subseteq Message
  /\ MaxReplays \in Nat \ {0}
  /\ Limits \subseteq Nat
  /\ MaxLetters \in Nat /\ MaxDrains \in Nat /\ MaxUnsent \in Nat

VARIABLES
  letters,         \* [1..Queue -> Seq([of, count, depth])]
  republished,     \* [Message -> Seq([count, depth])]  in the source topic, unread
  drain,           \* [at, limit, queue, next, replayed, failed]  the tool
  present,         \* history: letters per partition when the drain began
  reached,         \* history: <<partition, offset>> that it has replayed
  cut,             \* history: it gave a partition up before its end
  drains, unsent

letterVars == <<letters, republished, drain, present, reached, cut, drains, unsent>>

\* depth (history): replays the message has been through.
Letter == [of : Message, count : Nat, depth : Nat]

LetterTypeOK ==
  /\ letters \in [1..Queue -> Seq(Letter)]
  /\ republished \in [Message -> Seq([count : Nat, depth : Nat])]
  /\ drain \in [at : {"off", "reading", "finished"}, limit : Nat, queue : Nat, 
                next : Nat \ {0}, replayed : Nat, failed : Nat]
  /\ present \in [1..Queue -> Nat]
  /\ reached \subseteq ((1..Queue) \X Nat)
  /\ cut \in BOOLEAN
  /\ drains \in Nat /\ unsent \in Nat

Off == [at |-> "off", limit |-> 0, queue |-> 1, next |-> 1, replayed |-> 0, failed |-> 0]

NewLetter(m, c, n) == [of |-> m, count |-> c, depth |-> n]

LetterInit ==
  /\ letters = [q \in 1..Queue |->
       [i \in 1..Len(FirstLetters[q]) |-> NewLetter(FirstLetters[q][i], 0, 0)]]
  /\ republished = [m \in Message |-> <<>>]
  /\ drain = Off
  /\ present = [q \in 1..Queue |-> 0]
  /\ reached = {}
  /\ cut = FALSE
  /\ drains = 0 /\ unsent = 0

StartDrain ==
  /\ drain.at # "reading"
  /\ drains < MaxDrains
  /\ drains' = drains + 1
  /\ \E n \in Limits : drain' = [Off EXCEPT !.at = "reading", !.limit = n]
  /\ present' = [q \in 1..Queue |-> Len(letters[q])]
  /\ reached' = {}
  /\ cut' = FALSE
  /\ UNCHANGED <<letters, republished, unsent>>

\* Mutant of LastQueue: only partition zero is drained.
FirstQueue == 1
LastQueue == Queue

LimitReached == drain.limit > 0 /\ drain.replayed >= drain.limit

\* drainPartition reads on.
Reading ==
  /\ drain.at = "reading"
  /\ ~LimitReached
  /\ drain.queue <= LastQueue
  /\ drain.next <= Len(letters[drain.queue])

NextLetter == letters[drain.queue][drain.next]

Exhausted(l) == l.count >= MaxReplays

StepOver ==
  /\ Reading
  /\ NextLetter.of \notin Selected \/ Exhausted(NextLetter)
  /\ drain' = [drain EXCEPT !.next = @ + 1]
  /\ UNCHANGED <<letters, republished, present, reached, cut, drains, unsent>>

Republish ==
  /\ Reading
  /\ NextLetter.of \in Selected /\ ~Exhausted(NextLetter)
  /\ republished' = [republished EXCEPT ![NextLetter.of] =
                       Append(@, [count |-> NextLetter.count + 1, depth |-> NextLetter.depth + 1])]
  /\ drain' = [drain EXCEPT !.next = @ + 1, !.replayed = @ + 1]
  /\ reached' = reached \cup {<<drain.queue, drain.next>>}
  /\ UNCHANGED <<letters, present, cut, drains, unsent>>

RepublishFails ==
  /\ Reading
  /\ NextLetter.of \in Selected /\ ~Exhausted(NextLetter)
  /\ unsent < MaxUnsent
  /\ unsent' = unsent + 1
  /\ drain' = [drain EXCEPT !.next = @ + 1, !.failed = @ + 1]
  /\ UNCHANGED <<letters, republished, present, reached, cut, drains>>

NextPartition ==
  /\ drain.at = "reading" /\ drain.queue <= LastQueue /\ ~LimitReached
  /\ drain' = [drain EXCEPT !.queue = @ + 1, !.next = 1]
  /\ UNCHANGED <<letters, republished, present, reached, drains>>

\* The read times out: the partition is finished.
PartitionIdle ==
  /\ NextPartition
  /\ drain.next > Len(letters[drain.queue])
  /\ UNCHANGED <<cut, unsent>>

\* Any other error of a read is taken for the end of the partition too, and is
\* not counted as a failure.
ReadFails ==
  /\ NextPartition
  /\ unsent < MaxUnsent
  /\ unsent' = unsent + 1
  /\ cut' = TRUE

EndDrain ==
  /\ drain.at = "reading"
  /\ drain.queue > LastQueue \/ LimitReached
  /\ drain' = [drain EXCEPT !.at = "finished"]
  /\ UNCHANGED <<letters, republished, present, reached, cut, drains, unsent>>

\* The consumer handles it at last, or fails for good and files it again with
\* the count of the header.
HandleReplayed(m) ==
  /\ republished[m] # <<>>
  /\ republished' = [republished EXCEPT ![m] = Tail(@)]
  /\ UNCHANGED <<letters, drain, present, reached, cut, drains, unsent>>

\* Mutant of CarriedCount: the header is not carried into the letter.
ForgottenCount(r) == 0
CarriedCount(r) == r.count

FileAgain(m) ==
  LET r == Head(republished[m])
      q == QueueOf[m]
  IN
  /\ republished[m] # <<>>
  /\ Len(letters[q]) < MaxLetters
  /\ letters' = [letters EXCEPT ![q] = Append(@, NewLetter(m, CarriedCount(r), r.depth))]
  /\ republished' = [republished EXCEPT ![m] = Tail(@)]
  /\ UNCHANGED <<drain, present, reached, cut, drains, unsent>>

LetterNext ==
  \/ StartDrain \/ StepOver \/ Republish \/ RepublishFails
  \/ PartitionIdle \/ ReadFails \/ EndDrain
  \/ \E m \in Message : HandleReplayed(m) \/ FileAgain(m)

LetterSpec == LetterInit /\ [][LetterNext]_letterVars

----------------------------------------------------------------------------
\* The ceiling holds along a message's whole history, drain after drain: no
\* message is replayed at more than MaxReplays removes from its first failure
\* (main.go, the cycle guard; consumer.go, replayCount and deadLetter).
ReplayChainIsShort ==
  \A m \in Message : \A i \in 1..Len(republished[m]) :
    republished[m][i].depth <= MaxReplays

\* A drain that had no limit, whose reads did not fail and that reported no
\* failure has replayed every letter it could have of those that were there
\* when it began, in every partition (main.go, run).
DrainIsWhole ==
  drain.at = "finished" /\ drain.failed = 0 /\ drain.limit = 0 /\ ~cut =>
    \A q \in 1..Queue : \A i \in 1..present[q] :
      LET l == letters[q][i] IN
      l.of \in Selected /\ ~Exhausted(l) => <<q, i>> \in reached
=============================================================================
