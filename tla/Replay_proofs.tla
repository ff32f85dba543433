--------------------------- MODULE Replay_proofs ---------------------------
(***************************************************************************)
(* What is done again is done as before: letters drained into their topic, *)
(* tapes emitted once more, rows announced with every pitch.               *)
(*                                                                         *)
(* LetterReplay: the count that travels from letter to header to letter is *)
(* the number of replays (CountIsDepth), so the tool's test bounds them;   *)
(* and every letter behind the tool's place, if it was there at the start  *)
(* and may be replayed, has been (ReadIsReplayed).                         *)
(*                                                                         *)
(* TapeReplay: there is one course of an outing's clock begun on a day,    *)
(* each state the step of the one before, and every run that began it then *)
(* has emitted a prefix of it (OneCourse, Follows).  A dated outing has    *)
(* one day only; runs then differ in how far they came and never in when.  *)
(* That sorting sorts is not proved: it is the hypothesis TapeIsRead.      *)
(*                                                                         *)
(* Enrolment: a row is what has been said of its athlete (Joined); merging *)
(* one role more keeps it so, whatever came before.                        *)
(***************************************************************************)
EXTENDS LetterReplay, TapeReplay, Enrolment, SequenceTheorems, TLAPS

----------------------------------------------------------------------------
(* Draining dead letters.                                                  *)

\* The count that travels with a message is the number of its replays.
CountIsDepth ==
  /\ \A q \in 1..Queue : \A i \in 1..Len(letters[q]) : letters[q][i].count = letters[q][i].depth
  /\ \A m \in Message : \A i \in 1..Len(republished[m]) :
       /\ republished[m][i].count = republished[m][i].depth
       /\ republished[m][i].depth <= MaxReplays

\* Where the drain has read.
ReadBy(q, i) == q < drain.queue \/ (q = drain.queue /\ i < drain.next)

\* A drain has replayed what it could of all that it has read.
ReadIsReplayed ==
  /\ drain.queue > 0
  /\ \A q \in 1..Queue : present[q] <= Len(letters[q])
  /\ drain.at = "finished" => drain.queue > Queue \/ drain.limit > 0
  /\ drain.failed = 0 /\ ~cut =>
       \A q \in 1..Queue : \A i \in 1..present[q] :
         ReadBy(q, i) /\ letters[q][i].of \in Selected /\ ~Exhausted(letters[q][i])
           => <<q, i>> \in reached

LetterInv == LetterTypeOK /\ CountIsDepth /\ ReadIsReplayed

Unread == [count : Nat, depth : Nat]
Drain  == [at : {"off", "reading", "finished"}, limit : Nat, queue : Nat,
           next : Nat \ {0}, replayed : Nat, failed : Nat]

LEMMA LetterTypes ==
  ASSUME LetterInv
  PROVE  /\ letters \in [1..Queue -> Seq(Letter)]
         /\ republished \in [Message -> Seq(Unread)]
         /\ drain \in Drain
         /\ present \in [1..Queue -> Nat]
         /\ reached \subseteq ((1..Queue) \X Nat)
         /\ cut \in BOOLEAN
         /\ drains \in Nat /\ unsent \in Nat
  BY DEF LetterInv, LetterTypeOK, Unread, Drain

\* The tool's record, its place and its counts moved.
LEMMA DrainSteps ==
  ASSUME NEW d \in Drain, NEW q \in Nat, NEW i \in Nat \ {0}, NEW n \in Nat
  PROVE  /\ [d EXCEPT !.next = i, !.failed = n] \in Drain
         /\ [d EXCEPT !.next = i, !.replayed = n] \in Drain
         /\ [d EXCEPT !.queue = q, !.next = i] \in Drain
  BY DEF Drain

LEMMA InitLetter == LetterInit => LetterInv
  <1> SUFFICES ASSUME LetterInit PROVE LetterInv
    OBVIOUS
  <1> USE LetterAssumption
  <1>1. ASSUME NEW q \in 1..Queue
        PROVE  letters[q] \in Seq(Letter) /\ Len(letters[q]) = Len(FirstLetters[q])
               /\ \A i \in 1..Len(letters[q]) : letters[q][i].count = letters[q][i].depth
    <2>1. FirstLetters[q] \in Seq(Message)
      OBVIOUS
    <2>2. letters[q] = [i \in 1..Len(FirstLetters[q]) |-> NewLetter(FirstLetters[q][i], 0, 0)]
      BY DEF LetterInit
    <2>3. \A i \in 1..Len(FirstLetters[q]) : NewLetter(FirstLetters[q][i], 0, 0) \in Letter
      BY <2>1 DEF NewLetter, Letter
    <2> QED BY <2>1, <2>2, <2>3 DEF NewLetter
  <1>2. letters \in [1..Queue -> Seq(Letter)]
    BY <1>1 DEF LetterInit
  <1>3. LetterTypeOK
    <2>1. Off \in Drain
      BY DEF Off, Drain
    <2>2. /\ republished \in [Message -> Seq([count : Nat, depth : Nat])]
          /\ present \in [1..Queue -> Nat] /\ reached = {}
          /\ drains \in Nat /\ unsent \in Nat
      BY DEF LetterInit
    <2>3. cut \in BOOLEAN /\ drain = Off
      BY DEF LetterInit
    <2> QED BY <1>2, <2>1, <2>2, <2>3 DEF LetterTypeOK, Drain
  <1>4. CountIsDepth
    <2>1. \A m \in Message : republished[m] = <<>>
      BY DEF LetterInit
    <2> QED BY <1>1, <2>1 DEF CountIsDepth
  <1>5. ReadIsReplayed
    BY <1>1 DEF LetterInit, ReadIsReplayed, Off
  <1> QED BY <1>3, <1>4, <1>5 DEF LetterInv

\* A step of the tool that publishes nothing.
LEMMA DrainMoves ==
  ASSUME LetterInv, drain' \in Drain, ReadIsReplayed', cut' \in BOOLEAN, unsent' \in Nat,
         UNCHANGED <<letters, republished, present, reached, drains>>
  PROVE  LetterInv'
  <1>1. LetterTypeOK'
    BY LetterTypes DEF LetterTypeOK, Drain, Unread
  <1>2. CountIsDepth'
    BY DEF LetterInv, CountIsDepth
  <1> QED BY <1>1, <1>2 DEF LetterInv

LEMMA StartLetter == LetterInv /\ StartDrain => LetterInv'
  <1> SUFFICES ASSUME LetterInv, StartDrain PROVE LetterInv'
    OBVIOUS
  <1> USE LetterAssumption
  <1>1. PICK n \in Limits : drain' = [Off EXCEPT !.at = "reading", !.limit = n]
    BY DEF StartDrain
  <1>2. /\ present' = [q \in 1..Queue |-> Len(letters[q])]
        /\ reached' = {} /\ cut' = FALSE /\ drains' = drains + 1
        /\ UNCHANGED <<letters, republished, unsent>>
    BY DEF StartDrain
  <1>3. /\ letters \in [1..Queue -> Seq(Letter)]
        /\ republished \in [Message -> Seq(Unread)]
        /\ drains \in Nat /\ unsent \in Nat
    BY LetterTypes
  <1>4. /\ drain' \in Drain /\ drain'.at = "reading" /\ drain'.queue = 1 /\ drain'.next = 1
    <2>1. n \in Nat /\ Off \in Drain
      BY DEF Off, Drain
    <2>2. drain' \in Drain
      BY <1>1, <2>1 DEF Drain
    <2>3. drain'.at = "reading" /\ drain'.queue = 1 /\ drain'.next = 1
      BY <1>1 DEF Off
    <2> QED BY <2>2, <2>3
  <1>5. /\ present' \in [1..Queue -> Nat]
        /\ \A q \in 1..Queue : present'[q] = Len(letters[q])
    BY <1>2, <1>3
  <1>6. cut' \in BOOLEAN
    BY <1>2
  <1>7. LetterTypeOK'
    BY <1>2, <1>3, <1>4, <1>5, <1>6 DEF LetterTypeOK, Drain, Unread
  <1>8. CountIsDepth'
    BY <1>2 DEF LetterInv, CountIsDepth
  <1>9. ReadIsReplayed'
    <2>1. \A q \in 1..Queue : \A i \in 1..present'[q] : ~ReadBy(q, i)'
      BY <1>4, <1>5 DEF ReadBy
    <2> QED BY <1>2, <1>4, <1>5, <2>1 DEF ReadIsReplayed
  <1> QED BY <1>7, <1>8, <1>9 DEF LetterInv

\* The letter under the drain's eye is one that is there.
LEMMA EyeOnLetter ==
  ASSUME LetterInv, Reading
  PROVE  /\ drain.at = "reading"
         /\ drain.queue \in 1..Queue /\ drain.next \in 1..Len(letters[drain.queue])
         /\ NextLetter \in Letter /\ NextLetter.count = NextLetter.depth
  <1> USE LetterAssumption
  <1>1. /\ drain.at = "reading" /\ drain.queue \in Nat /\ drain.next \in Nat \ {0}
        /\ drain.queue <= Queue /\ drain.next <= Len(letters[drain.queue])
    BY LetterTypes DEF Reading, LastQueue, Drain
  <1>2. drain.queue \in 1..Queue
    BY <1>1 DEF LetterInv, ReadIsReplayed
  <1>3. letters[drain.queue] \in Seq(Letter)
    BY <1>2, LetterTypes
  <1>4. drain.next \in 1..Len(letters[drain.queue])
    BY <1>1, <1>3
  <1>5. NextLetter \in Letter
    BY <1>3, <1>4 DEF NextLetter
  <1>6. NextLetter.count = NextLetter.depth
    BY <1>2, <1>4 DEF NextLetter, LetterInv, CountIsDepth
  <1> QED BY <1>1, <1>2, <1>4, <1>5, <1>6

\* The eye moves past a letter: replayed, stepped over, or a failure reported.
LEMMA EyeMovesOn ==
  ASSUME LetterInv, Reading,
         drain'.at = "reading", drain'.queue = drain.queue, drain'.next = drain.next + 1,
         drain'.limit = drain.limit,
         UNCHANGED <<letters, present, cut>>, reached \subseteq reached',
         \/ NextLetter.of \notin Selected \/ Exhausted(NextLetter)
         \/ <<drain.queue, drain.next>> \in reached'
         \/ drain'.failed # 0,
         drain'.failed = 0 => drain.failed = 0
  PROVE  ReadIsReplayed'
  <1>1. /\ drain.queue \in 1..Queue /\ drain.next \in Nat /\ drain.queue \in Nat
        /\ drain.next \in 1..Len(letters[drain.queue])
    BY EyeOnLetter, LetterTypes DEF Drain
  <1>2. ASSUME drain'.failed = 0, ~cut', NEW q \in 1..Queue, NEW i \in 1..present[q],
               ReadBy(q, i)', letters[q][i].of \in Selected, ~Exhausted(letters[q][i])
        PROVE  <<q, i>> \in reached'
    <2>1. present[q] \in Nat /\ i \in Nat
      BY LetterTypes
    <2>2. CASE q = drain.queue /\ i = drain.next
      BY <1>2, <2>2 DEF NextLetter
    <2>3. CASE ~(q = drain.queue /\ i = drain.next)
      <3>1. ReadBy(q, i)
        BY <1>1, <1>2, <2>1, <2>3 DEF ReadBy
      <3> QED BY <1>2, <3>1 DEF LetterInv, ReadIsReplayed
    <2> QED BY <2>2, <2>3
  <1>3. \A q \in 1..Queue : present'[q] <= Len(letters'[q])
    BY DEF LetterInv, ReadIsReplayed
  <1> QED BY <1>1, <1>2, <1>3 DEF ReadIsReplayed, Exhausted

LEMMA StepOverLetter == LetterInv /\ StepOver => LetterInv'
  <1> SUFFICES ASSUME LetterInv, StepOver PROVE LetterInv'
    OBVIOUS
  <1>1. /\ Reading
        /\ NextLetter.of \notin Selected \/ Exhausted(NextLetter)
        /\ drain' = [drain EXCEPT !.next = @ + 1]
        /\ UNCHANGED <<letters, republished, present, reached, cut, drains, unsent>>
    BY DEF StepOver
  <1>2. /\ drain' \in Drain /\ drain'.at = drain.at /\ drain'.queue = drain.queue
        /\ drain'.next = drain.next + 1 /\ drain'.limit = drain.limit /\ drain'.failed = drain.failed
    <2>1. drain \in Drain
      BY LetterTypes
    <2> QED BY <1>1, <2>1 DEF Drain
  <1>3. ReadIsReplayed'
    BY <1>1, <1>2, EyeOnLetter, EyeMovesOn
  <1> QED BY <1>1, <1>2, <1>3, LetterTypes, DrainMoves

LEMMA FailLetter == LetterInv /\ RepublishFails => LetterInv'
  <1> SUFFICES ASSUME LetterInv, RepublishFails PROVE LetterInv'
    OBVIOUS
  <1>1. /\ Reading /\ unsent' = unsent + 1
        /\ drain' = [drain EXCEPT !.next = @ + 1, !.failed = @ + 1]
        /\ UNCHANGED <<letters, republished, present, reached, cut, drains>>
    BY DEF RepublishFails
  <1>2. /\ drain' \in Drain /\ drain'.at = drain.at /\ drain'.queue = drain.queue
        /\ drain'.next = drain.next + 1 /\ drain'.limit = drain.limit /\ drain'.failed # 0
    <2>1. drain \in Drain
      BY LetterTypes
    <2>2. /\ drain'.at = drain.at /\ drain'.queue = drain.queue
          /\ drain'.next = drain.next + 1 /\ drain'.limit = drain.limit /\ drain'.failed = drain.failed + 1
      BY <1>1, <2>1 DEF Drain
    <2>3. drain.failed \in Nat
      BY <2>1 DEF Drain
    <2>4. drain.next + 1 \in Nat \ {0} /\ drain.failed + 1 \in Nat
      BY <2>1 DEF Drain
    <2>5. drain' \in Drain
      BY <1>1, <2>1, <2>4, DrainSteps
    <2> QED BY <2>2, <2>3, <2>5
  <1>3. ReadIsReplayed'
    BY <1>1, <1>2, EyeOnLetter, EyeMovesOn
  <1>4. unsent' \in Nat /\ cut' \in BOOLEAN
    BY <1>1, LetterTypes
  <1> QED BY <1>1, <1>2, <1>3, <1>4, DrainMoves

\* A message goes back with one more replay than its letter had, and only while
\* that is no more than the ceiling.
LEMMA RepublishLetter == LetterInv /\ Republish => LetterInv'
  <1> SUFFICES ASSUME LetterInv, Republish PROVE LetterInv'
    OBVIOUS
  <1> USE LetterAssumption
  <1> DEFINE m == NextLetter.of
             copy == [count |-> NextLetter.count + 1, depth |-> NextLetter.depth + 1]
  <1>1. /\ Reading /\ m \in Selected /\ ~Exhausted(NextLetter)
        /\ republished' = [republished EXCEPT ![m] = Append(@, copy)]
        /\ drain' = [drain EXCEPT !.next = @ + 1, !.replayed = @ + 1]
        /\ reached' = reached \cup {<<drain.queue, drain.next>>}
        /\ UNCHANGED <<letters, present, cut, drains, unsent>>
    BY DEF Republish
  <1>2. /\ drain' \in Drain /\ drain'.at = drain.at /\ drain'.queue = drain.queue
        /\ drain'.next = drain.next + 1 /\ drain'.limit = drain.limit /\ drain'.failed = drain.failed
    <2>1. drain \in Drain
      BY LetterTypes
    <2>2. drain' \in Drain
      <3>1. drain.next + 1 \in Nat \ {0} /\ drain.replayed + 1 \in Nat
        BY <2>1 DEF Drain
      <3> QED BY <1>1, <2>1, <3>1, DrainSteps
    <2>3. /\ drain'.at = drain.at /\ drain'.queue = drain.queue
          /\ drain'.next = drain.next + 1 /\ drain'.limit = drain.limit /\ drain'.failed = drain.failed
      BY <1>1, <2>1 DEF Drain
    <2> QED BY <2>2, <2>3
  <1>3. /\ NextLetter \in Letter /\ NextLetter.count = NextLetter.depth
        /\ drain.queue \in 1..Queue /\ drain.next \in Nat /\ drain.at = "reading"
    BY <1>1, EyeOnLetter
  <1>4. m \in Message /\ copy \in Unread /\ copy.count = copy.depth /\ copy.depth <= MaxReplays
    BY <1>1, <1>3 DEF Letter, Unread, Exhausted
  <1>5. republished \in [Message -> Seq(Unread)] /\ republished[m] \in Seq(Unread)
    BY <1>4, LetterTypes
  <1> HIDE DEF m, copy
  <1>6. /\ republished' \in [Message -> Seq(Unread)]
        /\ republished'[m] = Append(republished[m], copy)
        /\ \A k \in Message \ {m} : republished'[k] = republished[k]
    BY <1>1, <1>4, <1>5
  <1>7. LetterTypeOK'
    <2>1. reached' \subseteq ((1..Queue) \X Nat)
      <3>1. <<drain.queue, drain.next>> \in (1..Queue) \X Nat
        BY <1>3
      <3>2. reached \subseteq (1..Queue) \X Nat
        BY LetterTypes
      <3>3. reached' = reached \cup {<<drain.queue, drain.next>>}
        BY <1>1
      <3> QED BY <3>1, <3>2, <3>3
    <2> QED BY <1>1, <1>2, <1>6, <2>1, LetterTypes DEF LetterTypeOK, Drain, Unread
  <1>8. CountIsDepth'
    <2>1. ASSUME NEW k \in Message, NEW i \in 1..Len(republished'[k])
          PROVE  republished'[k][i].count = republished'[k][i].depth /\ republished'[k][i].depth <= MaxReplays
      <3>1. CASE k = m
        <4>1. CASE i \in 1..Len(republished[m])
          <5>1. republished'[k][i] = republished[m][i]
            BY <1>4, <1>5, <1>6, <3>1, <4>1, AppendProperties
          <5> QED BY <1>4, <4>1, <5>1 DEF LetterInv, CountIsDepth
        <4>2. CASE i \notin 1..Len(republished[m])
          <5>1. republished'[k][i] = copy
            BY <1>5, <1>6, <2>1, <3>1, <4>2
          <5> QED BY <1>4, <5>1
        <4> QED BY <4>1, <4>2
      <3>2. CASE k # m
        <4>1. republished'[k] = republished[k]
          BY <1>6, <3>2
        <4> QED BY <2>1, <4>1 DEF LetterInv, CountIsDepth
      <3> QED BY <3>1, <3>2
    <2> QED BY <1>1, <2>1 DEF LetterInv, CountIsDepth
  <1>9. ReadIsReplayed'
    BY <1>1, <1>2, <1>3, EyeMovesOn
  <1> QED BY <1>7, <1>8, <1>9 DEF LetterInv

\* The next partition is begun when this one is read to its end, or given up.
LEMMA NextLetters == LetterInv /\ (PartitionIdle \/ ReadFails) => LetterInv'
  <1> SUFFICES ASSUME LetterInv, PartitionIdle \/ ReadFails PROVE LetterInv'
    OBVIOUS
  <1> USE LetterAssumption
  <1>1. /\ drain.at = "reading" /\ drain.queue <= Queue
        /\ drain' = [drain EXCEPT !.queue = @ + 1, !.next = 1]
        /\ UNCHANGED <<letters, republished, present, reached, drains>>
        /\ cut' \/ (~cut => ~cut' /\ drain.next > Len(letters[drain.queue]))
    BY DEF PartitionIdle, ReadFails, NextPartition, LastQueue
  <1>2. cut' \in BOOLEAN /\ unsent' \in Nat
    <2>1. CASE PartitionIdle
      BY <2>1, LetterTypes DEF PartitionIdle
    <2>2. CASE ReadFails
      <3>1. unsent' = unsent + 1 /\ cut' = TRUE
        BY <2>2 DEF ReadFails
      <3> QED BY <3>1, LetterTypes
    <2> QED BY <2>1, <2>2
  <1>3. /\ drain' \in Drain /\ drain'.at = "reading" /\ drain'.queue = drain.queue + 1
        /\ drain'.next = 1 /\ drain'.failed = drain.failed
    <2>1. drain \in Drain
      BY LetterTypes
    <2>2. drain' \in Drain
      <3>1. drain.queue + 1 \in Nat /\ 1 \in Nat \ {0}
        BY <2>1 DEF Drain
      <3> QED BY <1>1, <2>1, <3>1, DrainSteps
    <2>3. /\ drain'.at = "reading" /\ drain'.queue = drain.queue + 1
          /\ drain'.next = 1 /\ drain'.failed = drain.failed
      BY <1>1, <2>1 DEF Drain
    <2> QED BY <2>2, <2>3
  <1>4. ReadIsReplayed'
    <2>1. drain.queue \in 1..Queue /\ drain.queue \in Nat
      BY <1>1, LetterTypes DEF LetterInv, ReadIsReplayed, Drain
    <2>2. ASSUME drain'.failed = 0, ~cut', NEW q \in 1..Queue, NEW i \in 1..present[q],
                 ReadBy(q, i)', letters[q][i].of \in Selected, ~Exhausted(letters[q][i])
          PROVE  <<q, i>> \in reached
      <3>1. i \in Nat /\ i <= Len(letters[q]) /\ Len(letters[q]) \in Nat
        <4>1. present[q] \in Nat /\ letters[q] \in Seq(Letter)
          BY LetterTypes
        <4>2. present[q] <= Len(letters[q])
          BY DEF LetterInv, ReadIsReplayed
        <4>3. Len(letters[q]) \in Nat
          BY <4>1
        <4> QED BY <2>2, <4>1, <4>2, <4>3
      <3>2. q <= drain.queue
        BY <1>3, <2>1, <2>2, <3>1 DEF ReadBy
      <3>3. ~cut
        BY <1>1, <1>2, <2>2, LetterTypes DEF PartitionIdle, ReadFails
      <3>4. drain.next > Len(letters[drain.queue]) /\ drain.next \in Nat
        <4>1. drain.next \in Nat
          BY LetterTypes DEF Drain
        <4> QED BY <1>1, <2>2, <3>3, <4>1
      <3>5. ReadBy(q, i)
        <4>1. CASE q = drain.queue
          <5>1. i < drain.next
            BY <3>1, <3>4, <4>1
          <5> QED BY <4>1, <5>1 DEF ReadBy
        <4>2. CASE q # drain.queue
          <5>1. q < drain.queue
            BY <2>1, <3>2, <4>2
          <5> QED BY <5>1 DEF ReadBy
        <4> QED BY <4>1, <4>2
      <3> QED BY <1>3, <2>2, <3>3, <3>5 DEF LetterInv, ReadIsReplayed
    <2>3. \A q \in 1..Queue : present'[q] <= Len(letters'[q])
      BY <1>1 DEF LetterInv, ReadIsReplayed
    <2>4. drain'.queue > 0
      BY <1>3, <2>1
    <2> QED BY <1>1, <1>3, <2>2, <2>3, <2>4 DEF ReadIsReplayed, Exhausted
  <1> QED BY <1>1, <1>2, <1>3, <1>4, DrainMoves

LEMMA EndLetter == LetterInv /\ EndDrain => LetterInv'
  <1> SUFFICES ASSUME LetterInv, EndDrain PROVE LetterInv'
    OBVIOUS
  <1>1. /\ drain.queue > Queue \/ drain.limit > 0
        /\ drain' = [drain EXCEPT !.at = "finished"]
        /\ UNCHANGED <<letters, republished, present, reached, cut, drains, unsent>>
    BY DEF EndDrain, LastQueue, LimitReached
  <1>2. /\ drain' \in Drain /\ drain'.queue = drain.queue /\ drain'.next = drain.next
        /\ drain'.failed = drain.failed /\ drain'.limit = drain.limit
    BY <1>1, LetterTypes DEF Drain
  <1>3. ReadIsReplayed'
    BY <1>1, <1>2 DEF LetterInv, ReadIsReplayed, ReadBy, Exhausted
  <1> QED BY <1>1, <1>2, <1>3, LetterTypes, DrainMoves

LEMMA HandleLetter == ASSUME LetterInv, NEW m \in Message, HandleReplayed(m) PROVE LetterInv'
  <1>1. /\ republished[m] # <<>>
        /\ republished' = [republished EXCEPT ![m] = Tail(@)]
        /\ UNCHANGED <<letters, drain, present, reached, cut, drains, unsent>>
    BY DEF HandleReplayed
  <1>2. republished \in [Message -> Seq(Unread)] /\ republished[m] \in Seq(Unread)
    BY LetterTypes
  <1>3. /\ republished' \in [Message -> Seq(Unread)]
        /\ republished'[m] = Tail(republished[m])
        /\ \A k \in Message \ {m} : republished'[k] = republished[k]
    BY <1>1, <1>2
  <1>4. LetterTypeOK'
    BY <1>1, <1>3, LetterTypes DEF LetterTypeOK, Drain, Unread
  <1>5. CountIsDepth'
    <2>1. ASSUME NEW k \in Message, NEW i \in 1..Len(republished'[k])
          PROVE  \E j \in 1..Len(republished[k]) : republished'[k][i] = republished[k][j]
      <3>1. CASE k = m
        <4>1. i + 1 \in 1..Len(republished[m]) /\ republished'[m][i] = republished[m][i + 1]
          BY <1>1, <1>2, <1>3, <2>1, <3>1
        <4> QED BY <3>1, <4>1
      <3>2. CASE k # m
        BY <1>3, <2>1, <3>2
      <3> QED BY <3>1, <3>2
    <2> QED BY <1>1, <2>1 DEF LetterInv, CountIsDepth
  <1>6. ReadIsReplayed'
    BY <1>1 DEF LetterInv, ReadIsReplayed, ReadBy, Exhausted
  <1> QED BY <1>4, <1>5, <1>6 DEF LetterInv

\* A letter filed again carries the count of the message, and goes behind those
\* that the drain has to read.
LEMMA FileLetter == ASSUME LetterInv, NEW m \in Message, FileAgain(m) PROVE LetterInv'
  <1> USE LetterAssumption
  <1> DEFINE q == QueueOf[m]
             r == Head(republished[m])
             new == NewLetter(m, r.count, r.depth)
  <1>1. /\ republished[m] # <<>>
        /\ letters' = [letters EXCEPT ![q] = Append(@, new)]
        /\ republished' = [republished EXCEPT ![m] = Tail(@)]
        /\ UNCHANGED <<drain, present, reached, cut, drains, unsent>>
    BY DEF FileAgain, CarriedCount
  <1>2. /\ republished \in [Message -> Seq(Unread)] /\ republished[m] \in Seq(Unread)
        /\ letters \in [1..Queue -> Seq(Letter)] /\ q \in 1..Queue /\ letters[q] \in Seq(Letter)
    BY LetterTypes
  <1>3. /\ 1 \in 1..Len(republished[m]) /\ r = republished[m][1] /\ r \in Unread
    BY <1>1, <1>2
  <1>4. r.count = r.depth
    BY <1>3 DEF LetterInv, CountIsDepth
  <1>5. new \in Letter /\ new.count = new.depth
    BY <1>3, <1>4 DEF Unread, Letter, NewLetter
  <1> HIDE DEF q, r, new
  <1>6. /\ republished' \in [Message -> Seq(Unread)]
        /\ republished'[m] = Tail(republished[m])
        /\ \A k \in Message \ {m} : republished'[k] = republished[k]
    BY <1>1, <1>2
  <1>7. /\ letters' \in [1..Queue -> Seq(Letter)]
        /\ letters'[q] = Append(letters[q], new)
        /\ \A k \in (1..Queue) \ {q} : letters'[k] = letters[k]
    BY <1>1, <1>2, <1>5
  <1>8. LetterTypeOK'
    BY <1>1, <1>6, <1>7, LetterTypes DEF LetterTypeOK, Drain, Unread
  <1>9. ASSUME NEW k \in 1..Queue
        PROVE  /\ Len(letters[k]) \in Nat /\ Len(letters[k]) <= Len(letters'[k])
               /\ \A i \in 1..Len(letters[k]) : letters'[k][i] = letters[k][i]
               /\ \A i \in 1..Len(letters'[k]) : i \in 1..Len(letters[k]) \/ letters'[k][i] = new
    <2>1. CASE k = q
      <3>1. /\ letters[q] \in Seq(Letter) /\ Len(letters[q]) \in Nat
            /\ Len(letters'[q]) = Len(letters[q]) + 1
            /\ \A i \in 1..Len(letters[q]) : letters'[q][i] = letters[q][i]
            /\ letters'[q][Len(letters[q]) + 1] = new
        <4>1. letters[q] \in Seq(Letter) /\ new \in Letter /\ letters'[q] = Append(letters[q], new)
          BY <1>2, <1>5, <1>7
        <4> QED BY <4>1, AppendProperties
      <3>2. \A i \in 1..Len(letters'[q]) : i \in 1..Len(letters[q]) \/ i = Len(letters[q]) + 1
        BY <3>1
      <3>3. Len(letters[q]) <= Len(letters'[q])
        BY <3>1
      <3> QED BY <2>1, <3>1, <3>2, <3>3
    <2>2. CASE k # q
      <3>1. letters'[k] = letters[k] /\ letters[k] \in Seq(Letter)
        BY <1>2, <1>7, <2>2
      <3>2. Len(letters[k]) \in Nat
        BY <3>1
      <3> QED BY <3>1, <3>2
    <2> QED BY <2>1, <2>2
  <1>10. CountIsDepth'
    <2>1. ASSUME NEW k \in Message, NEW i \in 1..Len(republished'[k])
          PROVE  \E j \in 1..Len(republished[k]) : republished'[k][i] = republished[k][j]
      <3>1. CASE k = m
        <4>1. i + 1 \in 1..Len(republished[m]) /\ republished'[m][i] = republished[m][i + 1]
          BY <1>1, <1>2, <1>6, <2>1, <3>1
        <4> QED BY <3>1, <4>1
      <3>2. CASE k # m
        BY <1>6, <2>1, <3>2
      <3> QED BY <3>1, <3>2
    <2>2. ASSUME NEW k \in 1..Queue, NEW i \in 1..Len(letters'[k])
          PROVE  letters'[k][i].count = letters'[k][i].depth
      <3>1. CASE i \in 1..Len(letters[k])
        <4>1. letters[k][i].count = letters[k][i].depth
          BY <3>1 DEF LetterInv, CountIsDepth
        <4>2. letters'[k][i] = letters[k][i]
          BY <1>9, <3>1
        <4> QED BY <4>1, <4>2
      <3>2. CASE letters'[k][i] = new
        BY <1>5, <3>2
      <3> QED BY <1>9, <2>2, <3>1, <3>2
    <2>3. ASSUME NEW k \in Message, NEW i \in 1..Len(republished'[k])
          PROVE  republished'[k][i].count = republished'[k][i].depth /\ republished'[k][i].depth <= MaxReplays
      <3>1. PICK j \in 1..Len(republished[k]) : republished'[k][i] = republished[k][j]
        BY <2>1
      <3>2. CountIsDepth
        BY DEF LetterInv
      <3>3. /\ republished[k][j].count = republished[k][j].depth
            /\ republished[k][j].depth <= MaxReplays
        BY <3>2 DEF CountIsDepth
      <3> QED BY <3>1, <3>3
    <2> QED BY <2>2, <2>3 DEF CountIsDepth
  <1>11. ReadIsReplayed'
    <2>1. ASSUME NEW k \in 1..Queue
          PROVE  /\ present'[k] <= Len(letters'[k])
                 /\ \A i \in 1..present[k] : letters'[k][i] = letters[k][i]
      <3>1. present[k] \in Nat /\ Len(letters[k]) \in Nat /\ Len(letters'[k]) \in Nat
        <4>1. letters[k] \in Seq(Letter) /\ letters'[k] \in Seq(Letter)
          BY <1>2, <1>7
        <4>2. present[k] \in Nat
          BY LetterTypes
        <4> QED BY <4>1, <4>2
      <3>2. present[k] <= Len(letters[k])
        BY DEF LetterInv, ReadIsReplayed
      <3> QED BY <1>1, <1>9, <3>1, <3>2
    <2> QED BY <1>1, <2>1 DEF LetterInv, ReadIsReplayed, ReadBy, Exhausted
  <1> QED BY <1>8, <1>10, <1>11 DEF LetterInv

LEMMA NextLetterInv == LetterInv /\ [LetterNext]_letterVars => LetterInv'
  <1> SUFFICES ASSUME LetterInv, [LetterNext]_letterVars PROVE LetterInv'
    OBVIOUS
  <1>1. CASE UNCHANGED letterVars
    BY <1>1 DEF letterVars, LetterInv, LetterTypeOK, CountIsDepth, ReadIsReplayed, ReadBy, Exhausted
  <1> QED BY <1>1, StartLetter, StepOverLetter, RepublishLetter, FailLetter, NextLetters, EndLetter,
             HandleLetter, FileLetter DEF LetterNext

\* The inductive invariant of the drain: the count that travels is the number of
\* replays, and what the drain has read past it has replayed (main.go, run and
\* drainPartition; consumer.go, replayCount and deadLetter).
THEOREM LetterInvariant == LetterSpec => []LetterInv
  BY InitLetter, NextLetterInv, PTL DEF LetterSpec

\* For any queues, letters and messages, and any failing publishes and reads: no
\* message is replayed at more than MaxReplays removes from its first failure
\* (main.go, the cycle guard; consumer.go, replayCount).
THEOREM ShortChains == LetterSpec => []ReplayChainIsShort
  <1>1. LetterInv => ReplayChainIsShort
    BY DEF LetterInv, CountIsDepth, ReplayChainIsShort
  <1> QED BY LetterInvariant, <1>1, PTL

\* A drain without limit and without failures has replayed every letter present at
\* its beginning that it may replay, though letters are filed meanwhile (main.go,
\* run).
THEOREM WholeDrains == LetterSpec => []DrainIsWhole
  <1>1. LetterInv => DrainIsWhole
    <2> SUFFICES ASSUME LetterInv, drain.at = "finished", drain.failed = 0, drain.limit = 0, ~cut,
                        NEW q \in 1..Queue, NEW i \in 1..present[q],
                        letters[q][i].of \in Selected, ~Exhausted(letters[q][i])
                 PROVE  <<q, i>> \in reached
      BY DEF DrainIsWhole
    <2>1. q < drain.queue
      <3>1. drain.queue \in Nat /\ Queue \in Nat
        BY LetterTypes, LetterAssumption DEF Drain
      <3>2. drain.queue > Queue
        BY DEF LetterInv, ReadIsReplayed
      <3> QED BY <3>1, <3>2
    <2> QED BY <2>1 DEF LetterInv, ReadIsReplayed, ReadBy
  <1> QED BY LetterInvariant, <1>1, PTL

\* The tool's place and counts, the letters and what was republished keep their
\* types (main.go, drainPartition).
THEOREM LetterTypeCorrect == LetterSpec => []LetterTypeOK
  <1>1. LetterInv => LetterTypeOK
    BY DEF LetterInv
  <1> QED BY LetterInvariant, <1>1, PTL


----------------------------------------------------------------------------
(* Replaying a tape.                                                       *)

Clocks == [current : Int, lastAtBat : Nat, lastInning : Nat, drawn : Nat, day : Nat]
Events == [id : Nat, atBat : Nat, pitch : Nat, at : Int, day : Nat]

\* Gap, of any clock.
GapOn(u, line, clock) ==
  LET base  == IF line.runners THEN 23 ELSE 19
      pause == IF line.inning # clock.lastInning THEN 150
               ELSE IF line.atBat # clock.lastAtBat THEN 25 ELSE 0
      gap   == base + pause + (IF line.strikes >= 2 THEN 2 ELSE 0) + Draws[u][clock.drawn + 1]
  IN  IF gap < 1 THEN 1 ELSE gap

\* The clock after the outing's pitch i, from the one before it, if it was begun
\* on day d.
TimeOf(u, d, i, clock) ==
  IF i = 1 THEN StartOf(u, d) ELSE clock.current + GapOn(u, PitchesOf(u)[i], clock)
ClockAfter(u, d, i, clock) ==
  [current    |-> TimeOf(u, d, i, clock),
   lastAtBat  |-> PitchesOf(u)[i].atBat,
   lastInning |-> PitchesOf(u)[i].inning,
   drawn      |-> IF i = 1 THEN clock.drawn ELSE clock.drawn + 1,
   day        |-> d]

\* x is what is emitted of pitch i when the clock stands so.
EventAt(x, u, i, clock) ==
  /\ x.atBat = PitchesOf(u)[i].atBat
  /\ x.pitch = PitchesOf(u)[i].pitch
  /\ x.at = clock.current

DrawnAfter(i) == IF i = 0 THEN 0 ELSE i - 1

\* c is the course of the outing's clock begun on day d, over its first n pitches.
Course(u, d, n, c) ==
  /\ n \in 0..Len(PitchesOf(u))
  /\ c \in [Nat -> Clocks]
  /\ c[0] = NotStarted
  /\ \A i \in 0..n : c[i].drawn = DrawnAfter(i)
  /\ \A i \in 1..n : c[i] = ClockAfter(u, d, i, c[i - 1])
  /\ \A i \in 1..n : \A j \in 1..(i - 1) : c[j].current < c[i].current

\* What runs emitted of the outing by a clock begun on that day, as far as any of
\* them came, and this run if it began its clock then, as far as it came.
Follows(u, d, n, c) ==
  /\ \A x \in stamps[u] : x.day = d => \E i \in 1..n : EventAt(x, u, i, c[i])
  /\ lastRun[u] # <<>> /\ lastRun[u][1].day = d =>
       /\ Len(lastRun[u]) <= n
       /\ \A i \in 1..Len(lastRun[u]) : EventAt(lastRun[u][i], u, i, c[i])
  /\ playlist # <<>> /\ u = Head(playlist) /\ position > 0 /\ tapeClock.day = d =>
       tapeClock = c[position]

OneCourse ==
  \A u \in Outing, d \in Nat :
    \E n \in Nat, c \in [Nat -> Clocks] : Course(u, d, n, c) /\ Follows(u, d, n, c)

PlaylistIsAhead ==
  /\ playlist \in Seq(Outing)
  /\ \A i \in 1..Len(playlist) : \A j \in 1..(i - 1) : playlist[j] # playlist[i]
  /\ position \in Nat
  /\ playlist # <<>> => position = Len(lastRun[Head(playlist)])
  /\ playlist # <<>> /\ position = 0 => tapeClock = NotStarted
  /\ playlist # <<>> /\ position > 0 => tapeClock.day = lastRun[Head(playlist)][1].day
  /\ \A i \in 2..Len(playlist) : lastRun[playlist[i]] = <<>>

\* A dated outing's clock is begun on its date.
OnItsDay(u, x) == DateOf[u] # Undated => x.day = DateOf[u]

TapeTypeOK ==
  /\ stamps \in [Outing -> SUBSET Events]
  /\ lastRun \in [Outing -> Seq(Events)]
  /\ tapeClock \in Clocks
  /\ today \in Nat /\ sent \in Nat
  /\ \A u \in Outing : \A x \in stamps[u] : OnItsDay(u, x)
  /\ \A u \in Outing : \A i \in 1..Len(lastRun[u]) : OnItsDay(u, lastRun[u][i])

TapeInv == TapeTypeOK /\ PlaylistIsAhead /\ OneCourse

LEMMA NotStartedIsClock == NotStarted \in Clocks /\ NotStarted.drawn = 0
  BY DEF NotStarted, Clocks

LEMMA PitchIsLine ==
  ASSUME TapeIsRead, NEW u \in Outing, NEW i \in 1..Len(PitchesOf(u))
  PROVE  /\ PitchesOf(u)[i] \in TapeLine
         /\ Len(PitchesOf(u)) \in Nat
         /\ Len(PitchesOf(u)) <= Len(Draws[u]) + 1
  BY DEF TapeIsRead

LEMMA GapIsPositive ==
  ASSUME NEW u \in Outing, NEW line \in TapeLine, NEW clock \in Clocks,
         clock.drawn + 1 \in 1..Len(Draws[u])
  PROVE  GapOn(u, line, clock) \in Int /\ GapOn(u, line, clock) >= 1
  <1> DEFINE base  == IF line.runners THEN 23 ELSE 19
             pause == IF line.inning # clock.lastInning THEN 150
                      ELSE IF line.atBat # clock.lastAtBat THEN 25 ELSE 0
             late  == IF line.strikes >= 2 THEN 2 ELSE 0
             draw  == Draws[u][clock.drawn + 1]
             gap   == base + pause + late + draw
  <1>1. base \in Int /\ pause \in Int /\ late \in Int
    BY DEF TapeLine, Clocks
  <1>2. draw \in Int
    <2>1. Draws[u] \in Seq(-2..4)
      BY TapeAssumption
    <2>2. draw \in -2..4
      BY <2>1
    <2> QED BY <2>2
  <1>3. GapOn(u, line, clock) = IF gap < 1 THEN 1 ELSE gap
    BY DEF GapOn
  <1> HIDE DEF base, pause, late, draw
  <1>4. gap \in Int
    BY <1>1, <1>2
  <1> HIDE DEF gap
  <1> QED BY <1>3, <1>4

\* The clock's step: the next pitch is later.
LEMMA ClockSteps ==
  ASSUME TapeIsRead, NEW u \in Outing, NEW d \in Nat, NEW i \in 1..Len(PitchesOf(u)), NEW clock \in Clocks,
         clock.drawn = DrawnAfter(i - 1)
  PROVE  /\ ClockAfter(u, d, i, clock) \in Clocks
         /\ ClockAfter(u, d, i, clock).drawn = DrawnAfter(i)
         /\ i # 1 => clock.current < ClockAfter(u, d, i, clock).current
  <1>1. PitchesOf(u)[i] \in TapeLine /\ Len(PitchesOf(u)) \in Nat /\ i \in Nat /\ i >= 1
    BY PitchIsLine
  <1>2. CASE i = 1
    <2>1. StartOf(u, d) \in Int
      <3>1. PitchesOf(u)[1].inning \in Int
        BY <1>1, <1>2 DEF TapeLine
      <3> QED BY <3>1 DEF StartOf, FirstPitch
    <2>2. clock.drawn = 0 /\ DrawnAfter(i) = 0
      BY <1>2 DEF DrawnAfter
    <2>3. ClockAfter(u, d, i, clock) = [current |-> StartOf(u, d), lastAtBat |-> PitchesOf(u)[i].atBat,
                                     lastInning |-> PitchesOf(u)[i].inning, drawn |-> clock.drawn,
                                        day |-> d]
      BY <1>2 DEF ClockAfter, TimeOf
    <2>4. PitchesOf(u)[i].atBat \in Nat /\ PitchesOf(u)[i].inning \in Nat
      BY <1>1 DEF TapeLine
    <2>5. ClockAfter(u, d, i, clock) \in Clocks
      <3>1. clock.drawn \in Nat
        BY <2>2
      <3> QED BY <2>1, <2>3, <2>4, <3>1 DEF Clocks
    <2> QED BY <1>2, <2>2, <2>3, <2>5
  <1>3. CASE i # 1
    <2>1. clock.drawn = i - 2 /\ DrawnAfter(i) = i - 1
      BY <1>1, <1>3 DEF DrawnAfter
    <2>2. clock.drawn + 1 \in 1..Len(Draws[u])
      <3>1. Len(Draws[u]) \in Nat /\ Len(PitchesOf(u)) <= Len(Draws[u]) + 1
        BY PitchIsLine, TapeAssumption
      <3> QED BY <1>1, <1>3, <2>1, <3>1
    <2> DEFINE gap == GapOn(u, PitchesOf(u)[i], clock)
    <2>3. gap \in Int /\ gap >= 1
      BY <1>1, <2>2, GapIsPositive
    <2>4. ClockAfter(u, d, i, clock) = [current |-> clock.current + gap, lastAtBat |-> PitchesOf(u)[i].atBat,
                                     lastInning |-> PitchesOf(u)[i].inning, drawn |-> clock.drawn + 1,
                                        day |-> d]
      BY <1>3 DEF ClockAfter, TimeOf
    <2>5. PitchesOf(u)[i].atBat \in Nat /\ PitchesOf(u)[i].inning \in Nat
      BY <1>1 DEF TapeLine
    <2>6. clock.current \in Int /\ clock.drawn \in Nat
      BY DEF Clocks
    <2> HIDE DEF gap
    <2>7. clock.current + gap \in Int /\ clock.drawn + 1 \in Nat /\ clock.current < clock.current + gap
      BY <2>3, <2>6
    <2>8. ClockAfter(u, d, i, clock) \in Clocks
      <3>1. clock.current + gap \in Int /\ clock.drawn + 1 \in Nat
        BY <2>7
      <3> QED BY <2>4, <2>5, <3>1 DEF Clocks
    <2>9. /\ ClockAfter(u, d, i, clock).current = clock.current + gap
          /\ ClockAfter(u, d, i, clock).drawn = clock.drawn + 1
      BY <2>4
    <2> QED BY <1>1, <2>1, <2>7, <2>8, <2>9
  <1> QED BY <1>2, <1>3

\* A course is continued by one pitch.
LEMMA CourseGrows ==
  ASSUME TapeIsRead
  PROVE  \A u \in Outing, day \in Nat, n \in Nat, c \in [Nat -> Clocks] :
           Course(u, day, n, c) /\ n < Len(PitchesOf(u)) =>
             \E d \in [Nat -> Clocks] :
               /\ Course(u, day, n + 1, d)
               /\ \A i \in 0..n : d[i] = c[i]
               /\ d[n + 1] = ClockAfter(u, day, n + 1, c[n])
  <1> SUFFICES ASSUME NEW u \in Outing, NEW day \in Nat, NEW n \in Nat, NEW c \in [Nat -> Clocks],
                      Course(u, day, n, c), n < Len(PitchesOf(u))
               PROVE  \E d \in [Nat -> Clocks] :
                        /\ Course(u, day, n + 1, d)
                        /\ \A i \in 0..n : d[i] = c[i]
                        /\ d[n + 1] = ClockAfter(u, day, n + 1, c[n])
    OBVIOUS
  <1>1. Len(PitchesOf(u)) \in Nat
    BY DEF TapeIsRead
  <1>2. /\ n + 1 \in 1..Len(PitchesOf(u)) /\ c[n] \in Clocks
        /\ c[n].drawn = DrawnAfter((n + 1) - 1)
    BY <1>1 DEF Course
  <1>3. /\ ClockAfter(u, day, n + 1, c[n]) \in Clocks
        /\ ClockAfter(u, day, n + 1, c[n]).drawn = DrawnAfter(n + 1)
        /\ n + 1 # 1 => c[n].current < ClockAfter(u, day, n + 1, c[n]).current
    BY <1>2, ClockSteps
  <1>0. \A i \in 1..n : \A j \in 1..(i - 1) : c[j].current < c[i].current
    BY DEF Course
  <1> DEFINE next == ClockAfter(u, day, n + 1, c[n])
             d    == [c EXCEPT ![n + 1] = next]
  <1> HIDE DEF next
  <1>4. (\A i \in 0..n : d[i] = c[i]) /\ d[n + 1] = next
    BY DEF Course
  <1>5. d \in [Nat -> Clocks]
    BY <1>3 DEF Course, next
  <1> HIDE DEF d
  <1>6. d[0] = NotStarted
    BY <1>4 DEF Course
  <1>7. \A i \in 0..(n + 1) : d[i].drawn = DrawnAfter(i)
    BY <1>3, <1>4 DEF Course, next
  <1>8. ASSUME NEW i \in 1..(n + 1) PROVE d[i] = ClockAfter(u, day, i, d[i - 1])
    <2>1. CASE i = n + 1
      <3>1. i - 1 = n /\ d[n] = c[n]
        BY <1>4, <2>1
      <3> QED BY <1>4, <2>1, <3>1 DEF next
    <2>2. CASE i # n + 1
      <3>1. i \in 1..n /\ i \in 0..n /\ i - 1 \in 0..n
        BY <2>2
      <3> QED BY <1>4, <3>1 DEF Course
    <2> QED BY <2>1, <2>2
  <1>9. ASSUME NEW i \in 1..(n + 1), NEW j \in 1..(i - 1) PROVE d[j].current < d[i].current
    <2>1. j \in 1..n /\ d[j] = c[j] /\ c[j] \in Clocks
      BY <1>4 DEF Course
    <2>2. CASE i = n + 1
      <3>1. n # 0 /\ c[n].current < next.current
        BY <1>3, <2>1 DEF next
      <3>2. c[j].current <= c[n].current
        <4>1. CASE j = n
          BY <2>1, <4>1 DEF Clocks
        <4>2. CASE j # n
          <5>1. j \in 1..(n - 1) /\ n \in 1..n
            BY <2>1, <4>2
          <5>2. c[j].current < c[n].current
            BY <1>0, <5>1
          <5>3. c[j].current \in Int /\ c[n].current \in Int
            BY <1>2, <2>1 DEF Clocks
          <5> QED BY <5>2, <5>3
        <4> QED BY <4>1, <4>2
      <3>3. c[j].current \in Int /\ c[n].current \in Int /\ next.current \in Int
        BY <1>2, <1>3, <2>1 DEF Clocks, next
      <3> QED BY <1>4, <2>1, <2>2, <3>1, <3>2, <3>3
    <2>3. CASE i # n + 1
      <3>1. i \in 1..n /\ i \in 0..n
        BY <2>3
      <3>2. c[j].current < c[i].current
        BY <1>0, <3>1
      <3> QED BY <1>4, <2>1, <3>1, <3>2
    <2> QED BY <2>2, <2>3
  <1>10. Course(u, day, n + 1, d)
    BY <1>2, <1>5, <1>6, <1>7, <1>8, <1>9 DEF Course
  <1> QED BY <1>4, <1>5, <1>10 DEF next

LEMMA CourseStarts ==
  ASSUME TapeIsRead, NEW u \in Outing, NEW d \in Nat
  PROVE  Course(u, d, 0, [i \in Nat |-> NotStarted])
  <1>1. Len(PitchesOf(u)) \in Nat
    BY DEF TapeIsRead
  <1> QED BY <1>1, NotStartedIsClock DEF Course, DrawnAfter

LEMMA InitTape == TapeIsRead /\ TapeInit => TapeInv
  <1> SUFFICES ASSUME TapeIsRead, TapeInit PROVE TapeInv
    OBVIOUS
  <1>1. TapeTypeOK
    BY NotStartedIsClock DEF TapeInit, TapeTypeOK
  <1>2. PlaylistIsAhead
    BY DEF TapeInit, PlaylistIsAhead
  <1>3. OneCourse
    <2> SUFFICES ASSUME NEW u \in Outing, NEW d \in Nat
                 PROVE  \E n \in Nat, c \in [Nat -> Clocks] : Course(u, d, n, c) /\ Follows(u, d, n, c)
      BY DEF OneCourse
    <2> DEFINE c == [i \in Nat |-> NotStarted]
    <2>1. c \in [Nat -> Clocks] /\ Course(u, d, 0, c)
      BY CourseStarts, NotStartedIsClock
    <2>2. stamps[u] = {} /\ lastRun[u] = <<>> /\ playlist = <<>>
      BY DEF TapeInit
    <2>3. Follows(u, d, 0, c)
      BY <2>2 DEF Follows
    <2> QED BY <2>1, <2>3
  <1> QED BY <1>1, <1>2, <1>3 DEF TapeInv

LEMMA StartRunTape == ASSUME TapeIsRead, TapeInv, StartRun PROVE TapeInv'
  <1>1. PICK kept \in SUBSET Outing : playlist' = Filtered(kept)
    BY DEF StartRun
  <1>2. /\ playlist' \in Seq(Outing)
        /\ \A i \in 1..Len(playlist') : \A j \in 1..(i - 1) : playlist'[j] # playlist'[i]
    BY <1>1 DEF TapeIsRead
  <1>3. /\ lastRun' = [u \in Outing |-> <<>>] /\ position' = 0 /\ tapeClock' = NotStarted
        /\ stamps' = stamps /\ today' = today /\ sent' = sent
    BY DEF StartRun
  <1>4. TapeTypeOK'
    BY <1>3, NotStartedIsClock DEF TapeTypeOK, TapeInv
  <1>5. PlaylistIsAhead'
    <2>1. playlist' # <<>> => Head(playlist') \in Outing
      BY <1>2
    <2>2. \A i \in 2..Len(playlist') : playlist'[i] \in Outing
      BY <1>2
    <2> QED BY <1>2, <1>3, <2>1, <2>2 DEF PlaylistIsAhead
  <1>6. OneCourse'
    <2> SUFFICES ASSUME NEW u \in Outing, NEW d \in Nat
                 PROVE  \E n \in Nat, c \in [Nat -> Clocks] : Course(u, d, n, c) /\ Follows(u, d, n, c)'
      BY DEF OneCourse, Course
    <2>1. PICK n \in Nat, c \in [Nat -> Clocks] : Course(u, d, n, c) /\ Follows(u, d, n, c)
      BY DEF TapeInv, OneCourse
    <2>2. lastRun'[u] = <<>>
      BY <1>3
    <2>3. Follows(u, d, n, c)'
      BY <1>3, <2>1, <2>2 DEF Follows
    <2> QED BY <2>1, <2>3
  <1> QED BY <1>4, <1>5, <1>6 DEF TapeInv

LEMMA NextOutingTape == ASSUME TapeIsRead, TapeInv, NextOuting PROVE TapeInv'
  <1>1. /\ playlist # <<>> /\ playlist \in Seq(Outing) /\ playlist' = Tail(playlist)
        /\ position' = 0 /\ tapeClock' = NotStarted
        /\ stamps' = stamps /\ lastRun' = lastRun /\ today' = today /\ sent' = sent
    BY DEF NextOuting, TapeInv, PlaylistIsAhead
  <1>2. /\ playlist' \in Seq(Outing) /\ Len(playlist') = Len(playlist) - 1 /\ Len(playlist) \in Nat
        /\ \A i \in 1..Len(playlist') : playlist'[i] = playlist[i + 1]
    BY <1>1
  <1>3. \A i \in 1..Len(playlist') : lastRun'[playlist'[i]] = <<>>
    <2> SUFFICES ASSUME NEW i \in 1..Len(playlist') PROVE lastRun'[playlist'[i]] = <<>>
      OBVIOUS
    <2>1. i + 1 \in 2..Len(playlist)
      BY <1>2
    <2> QED BY <1>1, <1>2, <2>1 DEF TapeInv, PlaylistIsAhead
  <1>4. playlist' # <<>> => lastRun'[Head(playlist')] = <<>>
    <2> SUFFICES ASSUME playlist' # <<>> PROVE lastRun'[Head(playlist')] = <<>>
      OBVIOUS
    <2>1. Head(playlist') = playlist'[1] /\ 1 \in 1..Len(playlist')
      BY <1>2
    <2> QED BY <1>3, <2>1
  <1>5. PlaylistIsAhead'
    <2>1. ASSUME NEW i \in 1..Len(playlist'), NEW j \in 1..(i - 1) PROVE playlist'[j] # playlist'[i]
      <3>1. i + 1 \in 1..Len(playlist) /\ j + 1 \in 1..((i + 1) - 1) /\ j \in 1..Len(playlist')
        BY <1>2
      <3> QED BY <1>2, <3>1 DEF TapeInv, PlaylistIsAhead
    <2>2. \A i \in 2..Len(playlist') : lastRun'[playlist'[i]] = <<>>
      BY <1>2, <1>3
    <2>3. playlist' # <<>> => position' = Len(lastRun'[Head(playlist')])
      BY <1>1, <1>4
    <2> QED BY <1>1, <1>2, <2>1, <2>2, <2>3 DEF PlaylistIsAhead
  <1>6. OneCourse'
    <2> SUFFICES ASSUME NEW u \in Outing, NEW d \in Nat
                 PROVE  \E n \in Nat, c \in [Nat -> Clocks] : Course(u, d, n, c) /\ Follows(u, d, n, c)'
      BY DEF OneCourse, Course
    <2>1. PICK n \in Nat, c \in [Nat -> Clocks] : Course(u, d, n, c) /\ Follows(u, d, n, c)
      BY DEF TapeInv, OneCourse
    <2>3. Follows(u, d, n, c)'
      BY <1>1, <2>1 DEF Follows
    <2> QED BY <2>1, <2>3
  <1>7. TapeTypeOK'
    BY <1>1, NotStartedIsClock DEF TapeTypeOK, TapeInv
  <1> QED BY <1>5, <1>6, <1>7 DEF TapeInv

LEMMA AbortRunTape == ASSUME TapeInv, AbortRun PROVE TapeInv'
  <1>1. /\ playlist' = <<>> /\ position' = position /\ stamps' = stamps /\ lastRun' = lastRun
        /\ tapeClock' = tapeClock /\ today' = today /\ sent' = sent
    BY DEF AbortRun
  <1>2. TapeTypeOK' /\ PlaylistIsAhead'
    BY <1>1 DEF TapeInv, TapeTypeOK, PlaylistIsAhead
  <1>3. OneCourse'
    <2> SUFFICES ASSUME NEW u \in Outing, NEW d \in Nat
                 PROVE  \E n \in Nat, c \in [Nat -> Clocks] : Course(u, d, n, c) /\ Follows(u, d, n, c)'
      BY DEF OneCourse, Course
    <2>1. PICK n \in Nat, c \in [Nat -> Clocks] : Course(u, d, n, c) /\ Follows(u, d, n, c)
      BY DEF TapeInv, OneCourse
    <2>2. Follows(u, d, n, c)'
      BY <1>1, <2>1 DEF Follows
    <2> QED BY <2>1, <2>2
  <1> QED BY <1>2, <1>3 DEF TapeInv

LEMMA MidnightTape == ASSUME TapeInv, Midnight PROVE TapeInv'
  <1>1. /\ today' = today + 1 /\ sent' = sent
        /\ playlist' = playlist /\ position' = position /\ tapeClock' = tapeClock
        /\ stamps' = stamps /\ lastRun' = lastRun
    BY DEF Midnight
  <1>2. TapeTypeOK' /\ PlaylistIsAhead'
    BY <1>1 DEF TapeInv, TapeTypeOK, PlaylistIsAhead
  <1>3. \A u, d, n, c : Follows(u, d, n, c) => Follows(u, d, n, c)'
    BY <1>1 DEF Follows
  <1>4. OneCourse'
    BY <1>3 DEF TapeInv, OneCourse, Course
  <1> QED BY <1>2, <1>4 DEF TapeInv

\* The step, said with the outing's own clock and day.
LEMMA EmitIsAStep ==
  ASSUME TapeIsRead, TapeInv, EmitPitch, NEW u, u = Head(playlist),
         NEW i, i = position + 1,
         NEW day, day = IF position = 0 THEN DayOf(u) ELSE tapeClock.day,
         NEW clock, clock = ClockAfter(u, day, i, tapeClock)
  PROVE  /\ playlist # <<>> /\ u \in Outing /\ i \in 1..Len(PitchesOf(u))
         /\ day \in Nat /\ clock \in Clocks /\ clock.day = day
         /\ DateOf[u] # Undated => day = DateOf[u]
         /\ playlist' = playlist /\ position' = i
         /\ today' = today /\ sent' = sent + 1
         /\ tapeClock' = clock
         /\ \E event \in Events :
              /\ EventAt(event, u, i, clock) /\ event.day = day
              /\ stamps' = [stamps EXCEPT ![u] = @ \cup {event}]
              /\ lastRun' = [lastRun EXCEPT ![u] = Append(@, event)]
  <1>1. playlist # <<>> /\ playlist \in Seq(Outing) /\ position \in Nat /\ u \in Outing
    BY DEF EmitPitch, TapeInv, PlaylistIsAhead
  <1>2. Len(PitchesOf(u)) \in Nat
    BY <1>1 DEF TapeIsRead
  <1>3. i \in 1..Len(PitchesOf(u)) /\ (position = 0 <=> i = 1)
    BY <1>1, <1>2 DEF EmitPitch
  <1>4. day \in Nat /\ (DateOf[u] # Undated => day = DateOf[u])
    <2>1. CASE position = 0
      <3>1. day = IF DateOf[u] = Undated THEN today ELSE DateOf[u]
        BY <2>1 DEF DayOf
      <3>2. today \in Nat /\ DateOf[u] \in Nat \cup {Undated}
        BY <1>1, TapeAssumption DEF TapeInv, TapeTypeOK
      <3> QED BY <3>1, <3>2
    <2>2. CASE position # 0
      <3>1. day = lastRun[u][1].day /\ position = Len(lastRun[u])
        BY <1>1, <2>2 DEF TapeInv, PlaylistIsAhead
      <3>2. 1 \in 1..Len(lastRun[u]) /\ lastRun[u] \in Seq(Events)
        BY <1>1, <2>2, <3>1 DEF TapeInv, TapeTypeOK
      <3>3. lastRun[u][1] \in Events /\ OnItsDay(u, lastRun[u][1])
        BY <1>1, <3>2 DEF TapeInv, TapeTypeOK
      <3> QED BY <3>1, <3>3 DEF OnItsDay, Events
    <2> QED BY <2>1, <2>2
  <1>5. tapeClock \in Clocks /\ tapeClock.drawn = DrawnAfter(i - 1)
    <2>1. PICK n \in Nat, c \in [Nat -> Clocks] : Course(u, day, n, c) /\ Follows(u, day, n, c)
      BY <1>1, <1>4 DEF TapeInv, OneCourse
    <2>2. CASE position = 0
      BY <1>1, <2>2, NotStartedIsClock DEF TapeInv, PlaylistIsAhead, DrawnAfter
    <2>3. CASE position # 0
      <3>1. tapeClock = c[position] /\ lastRun[u] # <<>> /\ lastRun[u][1].day = day
             /\ position = Len(lastRun[u])
        BY <1>1, <2>1, <2>3 DEF TapeInv, PlaylistIsAhead, Follows
      <3>2. position <= n
        BY <2>1, <3>1 DEF Follows
      <3> QED BY <1>1, <2>1, <3>1, <3>2 DEF Course
    <2> QED BY <2>2, <2>3
  <1>6. clock \in Clocks
    BY <1>1, <1>3, <1>4, <1>5, ClockSteps
  <1> DEFINE line  == PitchesOf(u)[i]
             at    == IF position = 0 THEN StartOf(u, day) ELSE tapeClock.current + Gap(u, line)
             event == [id |-> sent + 1, atBat |-> line.atBat, pitch |-> line.pitch, at |-> at, day |-> day]
  <1>7. at = TimeOf(u, day, i, tapeClock)
    BY <1>3 DEF TimeOf, GapOn, Gap
  <1>8. /\ tapeClock' = [current |-> at, lastAtBat |-> line.atBat, lastInning |-> line.inning,
                         drawn |-> IF position = 0 THEN tapeClock.drawn ELSE tapeClock.drawn + 1,
                         day |-> day]
        /\ stamps' = [stamps EXCEPT ![u] = @ \cup {event}]
        /\ lastRun' = [lastRun EXCEPT ![u] = Append(@, event)]
        /\ playlist' = playlist /\ position' = i /\ today' = today /\ sent' = sent + 1
    BY DEF EmitPitch
  <1> HIDE DEF at
  <1>9. tapeClock' = clock /\ clock.day = day /\ clock.current = at
    BY <1>3, <1>7, <1>8 DEF ClockAfter
  <1>10. event \in Events
    <2>1. line \in TapeLine /\ at \in Int /\ sent \in Nat
      BY <1>1, <1>3, <1>6, <1>9, PitchIsLine DEF Clocks, TapeInv, TapeTypeOK
    <2> QED BY <1>4, <2>1 DEF Events, TapeLine
  <1>11. EventAt(event, u, i, clock) /\ event.day = day
    BY <1>9 DEF EventAt
  <1> HIDE DEF event
  <1> QED BY <1>1, <1>3, <1>4, <1>6, <1>8, <1>9, <1>10, <1>11

\* An outing's course after a pitch of it: the same, or one longer.
LEMMA EmitFollows ==
  ASSUME TapeIsRead, TapeInv, EmitPitch, NEW u, u = Head(playlist),
         NEW day, day = IF position = 0 THEN DayOf(u) ELSE tapeClock.day
  PROVE  \E n \in Nat, c \in [Nat -> Clocks] : Course(u, day, n, c) /\ Follows(u, day, n, c)'
  <1> DEFINE i     == position + 1
             clock == ClockAfter(u, day, i, tapeClock)
  <1>1. /\ playlist # <<>> /\ u \in Outing /\ i \in 1..Len(PitchesOf(u)) /\ day \in Nat
        /\ playlist' = playlist /\ position' = i
        /\ tapeClock' = clock
    BY EmitIsAStep
  <1>0. PICK event \in Events :
              /\ EventAt(event, u, i, clock) /\ event.day = day
              /\ stamps' = [stamps EXCEPT ![u] = @ \cup {event}]
              /\ lastRun' = [lastRun EXCEPT ![u] = Append(@, event)]
    BY EmitIsAStep
  <1>2. PICK n \in Nat, c \in [Nat -> Clocks] : Course(u, day, n, c) /\ Follows(u, day, n, c)
    BY <1>1 DEF TapeInv, OneCourse
  <1>3. /\ position = Len(lastRun[u]) /\ position \in Nat /\ position <= n
        /\ tapeClock = c[position] /\ lastRun[u] \in Seq(Events)
        /\ \A j \in 1..Len(lastRun[u]) : EventAt(lastRun[u][j], u, j, c[j])
    <2>1. position = Len(lastRun[u]) /\ position \in Nat /\ lastRun[u] \in Seq(Events)
      BY <1>1 DEF TapeInv, TapeTypeOK, PlaylistIsAhead
    <2>2. CASE position = 0
      <3>1. tapeClock = NotStarted
        BY <1>1, <2>2 DEF TapeInv, PlaylistIsAhead
      <3> QED BY <1>2, <2>1, <2>2, <3>1 DEF Course
    <2>3. CASE position # 0
      <3>1. position > 0 /\ lastRun[u] # <<>> /\ tapeClock.day = day
        BY <2>1, <2>3
      <3>2. lastRun[u][1].day = day
        BY <1>1, <3>1 DEF TapeInv, PlaylistIsAhead
      <3> QED BY <1>1, <1>2, <2>1, <3>1, <3>2 DEF Follows
    <2> QED BY <2>2, <2>3
  <1>4. /\ stamps'[u] = stamps[u] \cup {event}
        /\ lastRun'[u] = Append(lastRun[u], event)
    BY <1>0, <1>1 DEF TapeInv, TapeTypeOK
  <1> HIDE DEF clock
  <1>6. /\ lastRun'[u] \in Seq(Events) /\ Len(lastRun'[u]) = i
        /\ lastRun'[u][i] = event
        /\ \A j \in 1..Len(lastRun[u]) : lastRun'[u][j] = lastRun[u][j]
    BY <1>3, <1>4, AppendProperties
  <1>7. ASSUME NEW m \in Nat, NEW d \in [Nat -> Clocks], Course(u, day, m, d), n <= m, i <= m,
               \A j \in 0..n : d[j] = c[j], d[i] = clock
        PROVE  Follows(u, day, m, d)'
    <2>1. \A x \in stamps'[u] : x.day = day => \E j \in 1..m : EventAt(x, u, j, d[j])
      <3> SUFFICES ASSUME NEW x \in stamps'[u], x.day = day
                   PROVE  \E j \in 1..m : EventAt(x, u, j, d[j])
        OBVIOUS
      <3>1. CASE x = event
        <4>1. i \in 1..m /\ EventAt(x, u, i, d[i])
          BY <1>0, <1>1, <1>7, <3>1
        <4> QED BY <4>1
      <3>2. CASE x \in stamps[u]
        <4>1. PICK j \in 1..n : EventAt(x, u, j, c[j])
          BY <1>2, <3>2 DEF Follows
        <4>2. j \in 1..m /\ d[j] = c[j]
          BY <1>7
        <4> QED BY <4>1, <4>2
      <3> QED BY <1>4, <3>1, <3>2
    <2>2. Len(lastRun'[u]) <= m
      BY <1>6, <1>7
    <2>3. \A j \in 1..Len(lastRun'[u]) : EventAt(lastRun'[u][j], u, j, d[j])
      <3> SUFFICES ASSUME NEW j \in 1..i PROVE EventAt(lastRun'[u][j], u, j, d[j])
        BY <1>6
      <3>1. CASE j = i
        BY <1>0, <1>6, <1>7, <3>1
      <3>2. CASE j # i
        <4>1. j \in 1..Len(lastRun[u]) /\ j \in 0..n
          BY <1>3, <3>2
        <4> QED BY <1>3, <1>6, <1>7, <4>1
      <3> QED BY <3>1, <3>2
    <2>4. tapeClock' = d[position']
      BY <1>1, <1>7
    <2> QED BY <2>1, <2>2, <2>3, <2>4 DEF Follows
  <1>8. CASE i <= n
    <2>1. c[i] = clock
      <3>1. i \in 1..n /\ i - 1 = position
        BY <1>3, <1>8
      <3> QED BY <1>2, <1>3, <3>1 DEF Course, clock
    <2>2. Follows(u, day, n, c)'
      BY <1>2, <1>7, <1>8, <2>1
    <2> QED BY <1>2, <2>2
  <1>9. CASE ~(i <= n)
    <2>1. position = n /\ i = n + 1
      BY <1>3, <1>9
    <2>2. n < Len(PitchesOf(u))
      BY <1>1, <2>1
    <2>3. PICK d \in [Nat -> Clocks] :
            /\ Course(u, day, n + 1, d)
            /\ \A j \in 0..n : d[j] = c[j]
            /\ d[n + 1] = ClockAfter(u, day, n + 1, c[n])
      <3>1. u \in Outing /\ day \in Nat /\ Course(u, day, n, c)
        BY <1>1, <1>2
      <3> QED BY <2>2, <3>1, CourseGrows
    <2>4. d[i] = clock
      BY <1>3, <2>1, <2>3 DEF clock
    <2>5. Follows(u, day, n + 1, d)'
      BY <1>7, <2>1, <2>3, <2>4
    <2> QED BY <2>3, <2>5
  <1> QED BY <1>8, <1>9

LEMMA EmitPitchTape == ASSUME TapeIsRead, TapeInv, EmitPitch PROVE TapeInv'
  <1>0. PICK u \in Outing : u = Head(playlist)
    BY DEF EmitPitch, TapeInv, PlaylistIsAhead
  <1>11. PICK day : day = IF position = 0 THEN DayOf(u) ELSE tapeClock.day
    OBVIOUS
  <1> DEFINE i     == position + 1
             clock == ClockAfter(u, day, i, tapeClock)
  <1>1. /\ playlist # <<>> /\ u \in Outing /\ i \in 1..Len(PitchesOf(u))
        /\ day \in Nat /\ clock \in Clocks /\ clock.day = day
        /\ DateOf[u] # Undated => day = DateOf[u]
        /\ playlist' = playlist /\ position' = i
        /\ today' = today /\ sent' = sent + 1
        /\ tapeClock' = clock
    BY <1>0, <1>11, EmitIsAStep
  <1>2. PICK event \in Events :
          /\ event.day = day
          /\ stamps' = [stamps EXCEPT ![u] = @ \cup {event}]
          /\ lastRun' = [lastRun EXCEPT ![u] = Append(@, event)]
    BY <1>0, <1>11, EmitIsAStep
  <1>3. \E n \in Nat, c \in [Nat -> Clocks] : Course(u, day, n, c) /\ Follows(u, day, n, c)'
    BY <1>0, <1>11, EmitFollows
  <1>4. /\ lastRun'[u] = Append(lastRun[u], event)
        /\ stamps'[u] = stamps[u] \cup {event}
        /\ \A w \in Outing \ {u} : lastRun'[w] = lastRun[w] /\ stamps'[w] = stamps[w]
    BY <1>1, <1>2 DEF TapeInv, TapeTypeOK
  <1>5. /\ lastRun[u] \in Seq(Events) /\ position = Len(lastRun[u]) /\ position \in Nat
        /\ position = 0 => tapeClock = NotStarted
        /\ position > 0 => tapeClock.day = lastRun[u][1].day
    BY <1>0, <1>1 DEF TapeInv, TapeTypeOK, PlaylistIsAhead
  <1>6. /\ lastRun'[u] \in Seq(Events) /\ Len(lastRun'[u]) = i
        /\ lastRun'[u][i] = event
        /\ \A j \in 1..Len(lastRun[u]) : lastRun'[u][j] = lastRun[u][j]
    BY <1>4, <1>5, AppendProperties
  <1>7. lastRun'[u] # <<>> /\ lastRun'[u][1].day = day
    <2>1. CASE position = 0
      BY <1>2, <1>5, <1>6, <2>1
    <2>2. CASE position # 0
      <3>1. 1 \in 1..Len(lastRun[u]) /\ day = lastRun[u][1].day
        BY <1>5, <1>11, <2>2
      <3> QED BY <1>5, <1>6, <3>1
    <2> QED BY <2>1, <2>2
  <1> HIDE DEF clock
  <1>8. TapeTypeOK'
    <2>1. stamps' \in [Outing -> SUBSET Events] /\ lastRun' \in [Outing -> Seq(Events)]
      BY <1>1, <1>2, <1>4, <1>6 DEF TapeInv, TapeTypeOK
    <2>2. OnItsDay(u, event)
      BY <1>1, <1>2 DEF OnItsDay
    <2>3. \A w \in Outing : \A x \in stamps'[w] : OnItsDay(w, x)
      BY <1>4, <2>2 DEF TapeInv, TapeTypeOK
    <2>4. ASSUME NEW w \in Outing, NEW j \in 1..Len(lastRun'[w]) PROVE OnItsDay(w, lastRun'[w][j])
      <3>1. CASE w # u
        BY <1>4, <2>4, <3>1 DEF TapeInv, TapeTypeOK
      <3>2. CASE w = u /\ j = i
        BY <1>6, <2>2, <3>2
      <3>3. CASE w = u /\ j # i
        <4>1. j \in 1..Len(lastRun[u])
          BY <1>5, <1>6, <3>3
        <4> QED BY <1>1, <1>6, <3>3, <4>1 DEF TapeInv, TapeTypeOK
      <3> QED BY <3>1, <3>2, <3>3
    <2> QED BY <1>1, <2>1, <2>3, <2>4 DEF TapeInv, TapeTypeOK, OnItsDay
  <1>9. PlaylistIsAhead'
    <2>1. /\ playlist \in Seq(Outing)
          /\ \A a \in 1..Len(playlist) : \A b \in 1..(a - 1) : playlist[b] # playlist[a]
          /\ \A a \in 2..Len(playlist) : lastRun[playlist[a]] = <<>>
      BY DEF TapeInv, PlaylistIsAhead
    <2>2. \A a \in 2..Len(playlist') : lastRun'[playlist'[a]] = <<>>
      <3> SUFFICES ASSUME NEW a \in 2..Len(playlist) PROVE lastRun'[playlist[a]] = <<>>
        BY <1>1
      <3>1. playlist[1] # playlist[a] /\ playlist[a] \in Outing /\ u = playlist[1]
        BY <1>0, <1>1, <2>1
      <3> QED BY <1>4, <2>1, <3>1
    <2>3. position' \in Nat /\ position' # 0 /\ position' = Len(lastRun'[u])
      BY <1>1, <1>5, <1>6
    <2>4. u = Head(playlist') /\ tapeClock'.day = lastRun'[u][1].day
      BY <1>0, <1>1, <1>7
    <2> QED BY <1>1, <2>1, <2>2, <2>3, <2>4 DEF PlaylistIsAhead
  <1>10. OneCourse'
    <2> SUFFICES ASSUME NEW w \in Outing, NEW d \in Nat
                 PROVE  \E n \in Nat, c \in [Nat -> Clocks] :
                          Course(w, d, n, c) /\ Follows(w, d, n, c)'
      BY DEF OneCourse, Course
    <2>1. CASE w = u /\ d = day
      BY <1>3, <2>1
    <2>2. PICK n \in Nat, c \in [Nat -> Clocks] : Course(w, d, n, c) /\ Follows(w, d, n, c)
      BY DEF TapeInv, OneCourse
    <2>3. CASE w # u
      <3>1. stamps'[w] = stamps[w] /\ lastRun'[w] = lastRun[w] /\ w # Head(playlist')
        BY <1>0, <1>1, <1>4, <2>3
      <3>2. Follows(w, d, n, c)'
        BY <2>2, <3>1 DEF Follows
      <3> QED BY <2>2, <3>2
    <2>4. CASE w = u /\ d # day
      <3>1. tapeClock'.day # d /\ lastRun'[w][1].day # d
        BY <1>1, <1>7, <2>4
      <3>2. \A x \in stamps'[w] : x.day = d => x \in stamps[w]
        BY <1>2, <1>4, <2>4
      <3>3. Follows(w, d, n, c)'
        BY <2>2, <3>1, <3>2 DEF Follows
      <3> QED BY <2>2, <3>3
    <2> QED BY <2>1, <2>3, <2>4
  <1> QED BY <1>8, <1>9, <1>10 DEF TapeInv

\* The inductive invariant of the simulator: all runs emit of an outing, by clocks
\* begun on one day, what one course of the clock gives (simulator.go, Run;
\* timing.go, NewClock and Next).
THEOREM TapeInvariant == TapeIsRead => (TapeSpec => []TapeInv)
  <1> SUFFICES ASSUME TapeIsRead PROVE TapeSpec => []TapeInv
    OBVIOUS
  <1>1. TapeInit => TapeInv
    BY InitTape
  <1>2. TapeInv /\ [TapeNext]_tapeVars => TapeInv'
    <2> SUFFICES ASSUME TapeInv, [TapeNext]_tapeVars PROVE TapeInv'
      OBVIOUS
    <2>1. CASE StartRun
      BY <2>1, StartRunTape
    <2>2. CASE EmitPitch
      BY <2>2, EmitPitchTape
    <2>3. CASE NextOuting
      BY <2>3, NextOutingTape
    <2>4. CASE AbortRun
      BY <2>4, AbortRunTape
    <2>5. CASE Midnight
      BY <2>5, MidnightTape
    <2>6. CASE UNCHANGED tapeVars
      <3>1. TapeTypeOK' /\ PlaylistIsAhead'
        BY <2>6 DEF TapeInv, TapeTypeOK, PlaylistIsAhead, tapeVars
      <3>2. \A u, d, n, c : Follows(u, d, n, c) => Follows(u, d, n, c)'
        BY <2>6 DEF Follows, tapeVars
      <3>3. OneCourse'
        BY <3>2 DEF TapeInv, OneCourse, Course
      <3> QED BY <3>1, <3>3 DEF TapeInv
    <2> QED BY <2>1, <2>2, <2>3, <2>4, <2>5, <2>6 DEF TapeNext
  <1> QED BY <1>1, <1>2, PTL DEF TapeSpec

\* Two pitches of an outing are not one.
LEMMA KeysAreDistinct ==
  ASSUME TapeIsRead, NEW u \in Outing, NEW i \in 1..Len(PitchesOf(u)), NEW j \in 1..Len(PitchesOf(u)),
         PitchesOf(u)[i].atBat = PitchesOf(u)[j].atBat, PitchesOf(u)[i].pitch = PitchesOf(u)[j].pitch
  PROVE  i = j
  <1>1. PitchesOf(u)[i] \in TapeLine /\ PitchesOf(u)[j] \in TapeLine
    BY PitchIsLine
  <1>2. ~Thrown(PitchesOf(u)[i], PitchesOf(u)[j]) /\ ~Thrown(PitchesOf(u)[j], PitchesOf(u)[i])
    BY <1>1 DEF Thrown, TapeLine
  <1>3. ASSUME i < j PROVE FALSE
    <2>1. i \in 1..(j - 1)
      BY <1>3
    <2> QED BY <1>2, <2>1 DEF TapeIsRead
  <1>4. ASSUME j < i PROVE FALSE
    <2>1. j \in 1..(i - 1)
      BY <1>4
    <2> QED BY <1>2, <2>1 DEF TapeIsRead
  <1> QED BY <1>3, <1>4

\* For any tape that is read in order, dates or none, draws, filters, cancellations,
\* midnights and number of runs: the same pitch always carries the same time, if
\* the tape dates it or its clocks were begun on one day (simulator.go, Run;
\* timing.go, NewClock and parseDate).
THEOREM RerunRedelivers == TapeIsRead => (TapeSpec => []RerunIsRedelivery)
  <1> SUFFICES ASSUME TapeIsRead PROVE TapeSpec => []RerunIsRedelivery
    OBVIOUS
  <1>1. TapeInv => RerunIsRedelivery
    <2> SUFFICES ASSUME TapeInv, NEW u \in Outing, NEW x \in stamps[u], NEW y \in stamps[u],
                        x.atBat = y.atBat, x.pitch = y.pitch, DateOf[u] # Undated \/ x.day = y.day
                 PROVE  x.at = y.at
      BY DEF RerunIsRedelivery
    <2>0. x \in Events /\ y \in Events /\ OnItsDay(u, x) /\ OnItsDay(u, y)
      BY DEF TapeInv, TapeTypeOK
    <2>1. PICK d \in Nat : x.day = d /\ y.day = d
      BY <2>0 DEF OnItsDay, Events
    <2>2. PICK n \in Nat, c \in [Nat -> Clocks] : Course(u, d, n, c) /\ Follows(u, d, n, c)
      BY DEF TapeInv, OneCourse
    <2>3. PICK i \in 1..n : EventAt(x, u, i, c[i])
      BY <2>1, <2>2 DEF Follows
    <2>4. PICK j \in 1..n : EventAt(y, u, j, c[j])
      BY <2>1, <2>2 DEF Follows
    <2>5. i \in 1..Len(PitchesOf(u)) /\ j \in 1..Len(PitchesOf(u))
      <3>1. Len(PitchesOf(u)) \in Nat /\ n <= Len(PitchesOf(u))
        BY <2>2 DEF Course, TapeIsRead
      <3> QED BY <3>1
    <2>6. i = j
      <3>1. PitchesOf(u)[i].atBat = PitchesOf(u)[j].atBat /\ PitchesOf(u)[i].pitch = PitchesOf(u)[j].pitch
        BY <2>3, <2>4 DEF EventAt
      <3> QED BY <2>5, <3>1, KeysAreDistinct
    <2> QED BY <2>3, <2>4, <2>6 DEF EventAt
  <1> QED BY <1>1, TapeInvariant, PTL

\* On such a tape a run's times rise strictly with the order of the pitches, even
\* where the jitter is negative (timing.go, Next; tape.go, ReadTape).
THEOREM RunsRise == TapeIsRead => (TapeSpec => []TimesRise)
  <1> SUFFICES ASSUME TapeIsRead PROVE TapeSpec => []TimesRise
    OBVIOUS
  <1>1. TapeInv => TimesRise
    <2> SUFFICES ASSUME TapeInv, NEW u \in Outing, NEW i \in 1..Len(lastRun[u]), NEW j \in 1..(i - 1)
                 PROVE  /\ lastRun[u][j].at < lastRun[u][i].at
                        /\ Thrown(lastRun[u][j], lastRun[u][i])
      BY DEF TimesRise
    <2>0. /\ lastRun[u] \in Seq(Events) /\ lastRun[u] # <<>> /\ 1 \in 1..Len(lastRun[u])
      BY DEF TapeInv, TapeTypeOK
    <2>8. PICK d \in Nat : lastRun[u][1].day = d
      <3>1. lastRun[u][1] \in Events
        BY <2>0
      <3> QED BY <3>1 DEF Events
    <2>1. PICK n \in Nat, c \in [Nat -> Clocks] : Course(u, d, n, c) /\ Follows(u, d, n, c)
      BY DEF TapeInv, OneCourse
    <2>2. /\ Len(lastRun[u]) \in Nat /\ Len(lastRun[u]) <= n
          /\ Len(PitchesOf(u)) \in Nat /\ n <= Len(PitchesOf(u))
      BY <2>0, <2>1, <2>8 DEF Follows, Course, TapeIsRead
    <2>3. /\ i \in 1..n /\ j \in 1..Len(lastRun[u]) /\ i \in 1..Len(PitchesOf(u))
      BY <2>2
    <2>4. EventAt(lastRun[u][i], u, i, c[i]) /\ EventAt(lastRun[u][j], u, j, c[j])
      BY <2>0, <2>1, <2>3, <2>8 DEF Follows
    <2>5. c[j].current < c[i].current
      BY <2>1, <2>3 DEF Course
    <2>6. Thrown(PitchesOf(u)[j], PitchesOf(u)[i])
      BY <2>3 DEF TapeIsRead
    <2>7. Thrown(lastRun[u][j], lastRun[u][i])
      BY <2>4, <2>6 DEF Thrown, EventAt
    <2> QED BY <2>4, <2>5, <2>7 DEF EventAt
  <1> QED BY <1>1, TapeInvariant, PTL

----------------------------------------------------------------------------
(* Rows announced again.                                                   *)

Says == {"PITCHER", "BATTER"}

\* What a row tells of an athlete of whom `said` was said; and their side, if they
\* are one of S.
Joined(row, said, a, S) ==
  /\ row # NoRow <=> said # {}
  /\ row # NoRow => row.role = IF said = {"PITCHER", "BATTER"} THEN "TWO_WAY"
                               ELSE CHOOSE r \in said : TRUE
  /\ "PITCHER" \in said <=> row # NoRow /\ row.throws = "known"
  /\ a \in S <=> row # NoRow /\ row.bats = "known"

EnrolInv == EnrolTypeOK /\ RowIsTheJoin

LEMMA MergeIsFacts ==
  ASSUME NEW row \in Facts \cup {NoRow}, NEW new \in Facts
  PROVE  /\ Merge(row, new) \in Facts
         /\ Merge(row, new) # NoRow
  <1>1. CASE row = NoRow
    BY <1>1, EnrolAssumption DEF Merge
  <1>2. CASE row # NoRow
    <2>1. row \in Facts
      BY <1>2
    <2>2. MergedRole(row.role, new.role) \in Roles
      BY <2>1 DEF MergedRole, Facts, Roles
    <2>3. /\ Coalesce(new.throws, row.throws) \in {"known", Unknown}
          /\ Coalesce(new.bats, row.bats) \in {"known", Unknown}
      BY <2>1 DEF Coalesce, Facts
    <2> QED BY <1>2, <2>2, <2>3, EnrolAssumption DEF Merge, Facts
  <1> QED BY <1>1, <1>2

LEMMA AsIsFacts == AsPitcher \in Facts /\ \A t \in Tx : AsBatter(t) \in Facts
  BY EnrolAssumption DEF AsPitcher, AsBatter, Facts, Roles

\* The four things that can have been said.
LEMMA SaidCases ==
  ASSUME NEW said \in SUBSET Says
  PROVE  said = {} \/ said = {"PITCHER"} \/ said = {"BATTER"} \/ said = Says
  BY DEF Says

LEMMA JoinPitcher ==
  ASSUME NEW row \in Facts \cup {NoRow}, NEW said \in SUBSET Says, NEW a, NEW S, Joined(row, said, a, S)
  PROVE  Joined(Merge(row, AsPitcher), said \cup {"PITCHER"}, a, S)
  <1> DEFINE new  == Merge(row, AsPitcher)
             more == said \cup {"PITCHER"}
  <1>1. new \in Facts /\ new # NoRow
    BY MergeIsFacts, AsIsFacts
  <1>2. new.throws = "known"
    BY EnrolAssumption DEF Merge, Coalesce, AsPitcher
  <1>3. a \in S <=> new.bats = "known"
    <2>1. CASE row = NoRow
      <3>1. a \notin S /\ new = AsPitcher
        BY <2>1 DEF Joined, Merge
      <3> QED BY <3>1, EnrolAssumption DEF AsPitcher
    <2>2. CASE row # NoRow
      <3>1. new.bats = row.bats
        BY <2>2 DEF Merge, Coalesce, AsPitcher
      <3> QED BY <2>2, <3>1 DEF Joined
    <2> QED BY <2>1, <2>2
  <1>4. new.role = IF more = {"PITCHER", "BATTER"} THEN "TWO_WAY" ELSE CHOOSE r \in more : TRUE
    <2>1. (CHOOSE r \in {"PITCHER"} : TRUE) = "PITCHER" /\ (CHOOSE r \in {"BATTER"} : TRUE) = "BATTER"
      OBVIOUS
    <2>2. CASE said = {}
      <3>1. row = NoRow /\ more = {"PITCHER"}
        BY <2>2 DEF Joined
      <3>2. new.role = "PITCHER"
        BY <3>1 DEF Merge, AsPitcher
      <3> QED BY <2>1, <3>1, <3>2
    <2>3. CASE said = {"PITCHER"}
      <3>1. row # NoRow /\ more = {"PITCHER"} /\ row.role = "PITCHER"
        BY <2>1, <2>3 DEF Joined
      <3>2. new.role = "PITCHER"
        BY <3>1 DEF Merge, AsPitcher, MergedRole
      <3> QED BY <2>1, <3>1, <3>2
    <2>4. CASE said = {"BATTER"}
      <3>1. row # NoRow /\ more = {"PITCHER", "BATTER"} /\ row.role = "BATTER"
        BY <2>1, <2>4 DEF Joined
      <3>2. new.role = "TWO_WAY"
        BY <3>1 DEF Merge, AsPitcher, MergedRole
      <3> QED BY <3>1, <3>2
    <2>5. CASE said = Says
      <3>1. row # NoRow /\ more = {"PITCHER", "BATTER"} /\ row.role = "TWO_WAY"
        BY <2>5 DEF Joined, Says
      <3>2. new.role = "TWO_WAY"
        BY <3>1 DEF Merge, AsPitcher, MergedRole
      <3> QED BY <3>1, <3>2
    <2> QED BY <2>2, <2>3, <2>4, <2>5, SaidCases
  <1> QED BY <1>1, <1>2, <1>3, <1>4 DEF Joined

LEMMA JoinBatter ==
  ASSUME NEW row \in Facts \cup {NoRow}, NEW said \in SUBSET Says, NEW a, NEW S, Joined(row, said, a, S),
         NEW t \in Tx, NEW T, a \in T <=> (a \in S \/ StandOf[t] = "known")
  PROVE  Joined(Merge(row, AsBatter(t)), said \cup {"BATTER"}, a, T)
  <1> DEFINE new  == Merge(row, AsBatter(t))
             more == said \cup {"BATTER"}
  <1>1. new \in Facts /\ new # NoRow
    BY MergeIsFacts, AsIsFacts
  <1>2. a \in T <=> new.bats = "known"
    <2>1. CASE row = NoRow
      <3>1. a \notin S /\ new = AsBatter(t)
        BY <2>1 DEF Joined, Merge
      <3> QED BY <3>1 DEF AsBatter
    <2>2. CASE row # NoRow
      <3>1. new.bats = IF StandOf[t] = Unknown THEN row.bats ELSE StandOf[t]
        BY <2>2 DEF Merge, Coalesce, AsBatter
      <3>2. a \in S <=> row.bats = "known"
        BY <2>2 DEF Joined
      <3>3. StandOf[t] \in {"known", Unknown} /\ Unknown # "known"
        BY EnrolAssumption
      <3> QED BY <3>1, <3>2, <3>3
    <2> QED BY <2>1, <2>2
  <1>3. "PITCHER" \in more <=> new.throws = "known"
    <2>1. "PITCHER" \in more <=> "PITCHER" \in said
      OBVIOUS
    <2>2. CASE row = NoRow
      <3>1. "PITCHER" \notin said /\ new = AsBatter(t)
        BY <2>2 DEF Joined, Merge
      <3> QED BY <2>1, <3>1, EnrolAssumption DEF AsBatter
    <2>3. CASE row # NoRow
      <3>1. new.throws = row.throws
        BY <2>3 DEF Merge, Coalesce, AsBatter
      <3> QED BY <2>1, <2>3, <3>1 DEF Joined
    <2> QED BY <2>2, <2>3
  <1>4. new.role = IF more = {"PITCHER", "BATTER"} THEN "TWO_WAY" ELSE CHOOSE r \in more : TRUE
    <2>1. (CHOOSE r \in {"PITCHER"} : TRUE) = "PITCHER" /\ (CHOOSE r \in {"BATTER"} : TRUE) = "BATTER"
      OBVIOUS
    <2>2. CASE said = {}
      <3>1. row = NoRow /\ more = {"BATTER"}
        BY <2>2 DEF Joined
      <3>2. new.role = "BATTER"
        BY <3>1 DEF Merge, AsBatter
      <3> QED BY <2>1, <3>1, <3>2
    <2>3. CASE said = {"BATTER"}
      <3>1. row # NoRow /\ more = {"BATTER"} /\ row.role = "BATTER"
        BY <2>1, <2>3 DEF Joined
      <3>2. new.role = "BATTER"
        BY <3>1 DEF Merge, AsBatter, MergedRole
      <3> QED BY <2>1, <3>1, <3>2
    <2>4. CASE said = {"PITCHER"}
      <3>1. row # NoRow /\ more = {"PITCHER", "BATTER"} /\ row.role = "PITCHER"
        BY <2>1, <2>4 DEF Joined
      <3>2. new.role = "TWO_WAY"
        BY <3>1 DEF Merge, AsBatter, MergedRole
      <3> QED BY <3>1, <3>2
    <2>5. CASE said = Says
      <3>1. row # NoRow /\ more = {"PITCHER", "BATTER"} /\ row.role = "TWO_WAY"
        BY <2>5 DEF Joined, Says
      <3>2. new.role = "TWO_WAY"
        BY <3>1 DEF Merge, AsBatter, MergedRole
      <3> QED BY <3>1, <3>2
    <2> QED BY <2>2, <2>3, <2>4, <2>5, SaidCases
  <1> QED BY <1>1, <1>2, <1>3, <1>4 DEF Joined

LEMMA JoinIsPerRow ==
  RowIsTheJoin <=> \A a \in Person : Joined(people[a], told[a], a, sided)
  BY DEF RowIsTheJoin, Joined

LEMMA InitEnrol == EnrolInit => EnrolInv
  <1> SUFFICES ASSUME EnrolInit PROVE EnrolInv
    OBVIOUS
  <1>1. EnrolTypeOK
    BY DEF EnrolInit, EnrolTypeOK
  <1>2. RowIsTheJoin
    BY DEF EnrolInit, RowIsTheJoin
  <1> QED BY <1>1, <1>2 DEF EnrolInv

LEMMA NextRowIsRow ==
  ASSUME EnrolTypeOK, NEW t \in Tx, tx[t] < 3 PROVE NextRow(t) \in Rowset \cup {Unnamed}
  <1>1. tx[t] \in 0..4 /\ (tx[t] = 0 \/ tx[t] = 1 \/ tx[t] = 2)
    BY DEF EnrolTypeOK
  <1>2. /\ PitcherOf[t] \in Person /\ BatterOf[t] \in Person \cup {Unnamed}
        /\ DeviceOf[t] \in Device \cup {Unnamed}
    BY EnrolAssumption
  <1>3. CASE tx[t] = 0
    BY <1>2, <1>3 DEF NextRow, Order, Rowset
  <1>4. CASE tx[t] = 1
    BY <1>2, <1>4 DEF NextRow, Order, Rowset
  <1>5. CASE tx[t] = 2
    BY <1>2, <1>5 DEF NextRow, Order, Rowset
  <1> QED BY <1>1, <1>3, <1>4, <1>5

LEMMA ReleasedIsLocks ==
  ASSUME EnrolTypeOK, NEW t \in Tx PROVE Released(t) \in [Rowset -> Tx \cup {NoTx}]
  BY DEF EnrolTypeOK, Released

\* The steps that touch no committed row.
LEMMA SameRows ==
  ASSUME RowIsTheJoin, UNCHANGED <<people, told, sided>> PROVE RowIsTheJoin'
  BY DEF RowIsTheJoin

LEMMA UpsertEnrol ==
  ASSUME EnrolInv, NEW t \in Tx, UpsertRow(t) PROVE EnrolInv'
  <1>1. EnrolTypeOK /\ tx[t] < 3 /\ NextRow(t) \in Rowset \cup {Unnamed} /\ tx[t] \in 0..4
    BY NextRowIsRow DEF EnrolInv, UpsertRow, EnrolTypeOK
  <1>2. EnrolTypeOK'
    <2>1. rowLock' \in [Rowset -> Tx \cup {NoTx}]
      BY <1>1 DEF UpsertRow, EnrolTypeOK
    <2>2. tx' \in [Tx -> 0..4]
      BY <1>1 DEF UpsertRow, EnrolTypeOK
    <2> QED BY <1>1, <2>1, <2>2 DEF UpsertRow, EnrolTypeOK
  <1> QED BY <1>2, SameRows DEF EnrolInv, UpsertRow

LEMMA RollBackEnrol ==
  ASSUME EnrolInv, NEW t \in Tx, RollBackTx(t) PROVE EnrolInv'
  <1>1. EnrolTypeOK'
    BY ReleasedIsLocks DEF EnrolInv, EnrolTypeOK, RollBackTx
  <1> QED BY <1>1, SameRows DEF EnrolInv, RollBackTx

LEMMA RedeliverEnrol ==
  ASSUME EnrolInv, NEW t \in Tx, Redeliver(t) PROVE EnrolInv'
  <1>1. EnrolTypeOK'
    BY DEF EnrolInv, EnrolTypeOK, Redeliver
  <1> QED BY <1>1, SameRows DEF EnrolInv, Redeliver

LEMMA CommitEnrol ==
  ASSUME EnrolInv, NEW t \in Tx, CommitTx(t) PROVE EnrolInv'
  <1>1. EnrolTypeOK /\ \A a \in Person : Joined(people[a], told[a], a, sided)
    BY JoinIsPerRow DEF EnrolInv
  <1> DEFINE Pitched(a) == IF a = PitcherOf[t] THEN Merge(people[a], AsPitcher) ELSE people[a]
             Said(a)    == told[a] \cup (IF a = PitcherOf[t] THEN {"PITCHER"} ELSE {})
  <1>2. ASSUME NEW a \in Person
        PROVE  /\ people'[a] \in Facts \cup {NoRow}
               /\ told'[a] \in SUBSET Says
               /\ Joined(people'[a], told'[a], a, sided')
    <2>1. /\ people[a] \in Facts \cup {NoRow} /\ told[a] \in SUBSET Says
          /\ Joined(people[a], told[a], a, sided)
      BY <1>1 DEF EnrolTypeOK, Says
    <2>2. Pitched(a) \in Facts \cup {NoRow} /\ Said(a) \in SUBSET Says
      BY <2>1, MergeIsFacts, AsIsFacts DEF Says
    <2>3. Joined(Pitched(a), Said(a), a, sided)
      <3>1. CASE a = PitcherOf[t]
        BY <2>1, <3>1, JoinPitcher
      <3>2. CASE a # PitcherOf[t]
        <4>1. Pitched(a) = people[a] /\ Said(a) = told[a]
          BY <3>2
        <4> QED BY <2>1, <4>1
      <3> QED BY <3>1, <3>2
    <2>4. /\ people'[a] = IF a = BatterOf[t] THEN Merge(Pitched(a), AsBatter(t)) ELSE Pitched(a)
          /\ told'[a] = Said(a) \cup (IF a = BatterOf[t] THEN {"BATTER"} ELSE {})
      BY DEF CommitTx
    <2>7. a \in sided' <=> (a \in sided \/ (a = BatterOf[t] /\ StandOf[t] = "known"))
      BY DEF CommitTx
    <2> HIDE DEF Pitched, Said
    <2>5. CASE a = BatterOf[t]
      <3>1. people'[a] = Merge(Pitched(a), AsBatter(t)) /\ told'[a] = Said(a) \cup {"BATTER"}
        BY <2>4, <2>5
      <3>2. a \in sided' <=> (a \in sided \/ StandOf[t] = "known")
        BY <2>7, <2>5
      <3>6. Joined(people'[a], told'[a], a, sided')
        BY <2>2, <2>3, <3>1, <3>2, JoinBatter
      <3>3. Merge(Pitched(a), AsBatter(t)) \in Facts
        BY <2>2, MergeIsFacts, AsIsFacts
      <3>4. Said(a) \cup {"BATTER"} \in SUBSET Says
        BY <2>2 DEF Says
      <3> QED BY <3>1, <3>3, <3>4, <3>6
    <2>6. CASE a # BatterOf[t]
      <3>1. people'[a] = Pitched(a) /\ told'[a] = Said(a)
        BY <2>4, <2>6
      <3>2. a \in sided' <=> a \in sided
        BY <2>7, <2>6
      <3> QED BY <2>2, <2>3, <3>1, <3>2 DEF Joined
    <2> QED BY <2>5, <2>6
  <1> HIDE DEF Pitched, Said
  <1>3. EnrolTypeOK'
    <2>1. people' \in [Person -> Facts \cup {NoRow}]
      <3>1. people' = [a \in Person |-> people'[a]]
        BY DEF CommitTx
      <3> QED BY <1>2, <3>1
    <2>2. told' \in [Person -> SUBSET {"PITCHER", "BATTER"}]
      <3>1. told' = [a \in Person |-> told'[a]]
        BY DEF CommitTx
      <3> QED BY <1>2, <3>1 DEF Says
    <2>3. devices' \subseteq Device
      BY <1>1, EnrolAssumption DEF CommitTx, EnrolTypeOK
    <2>4. rowLock' \in [Rowset -> Tx \cup {NoTx}] /\ tx' \in [Tx -> 0..4] /\ redeliveries' \in Nat
      BY <1>1, ReleasedIsLocks DEF CommitTx, EnrolTypeOK
    <2>5. sided' \subseteq Person
      BY <1>1 DEF CommitTx, EnrolTypeOK
    <2> QED BY <2>1, <2>2, <2>3, <2>4, <2>5 DEF EnrolTypeOK
  <1>4. RowIsTheJoin'
    BY <1>2 DEF RowIsTheJoin, Joined
  <1> QED BY <1>3, <1>4 DEF EnrolInv

\* The inductive invariant of the upserts: types, and rows that are what committed
\* transactions said (athletes.sql.go, UpsertAthlete; pipeline.go, persist).
THEOREM EnrolInvariant == EnrolSpec => []EnrolInv
  <1>1. EnrolInv /\ [EnrolNext]_enrolVars => EnrolInv'
    <2> SUFFICES ASSUME EnrolInv, [EnrolNext]_enrolVars PROVE EnrolInv'
      OBVIOUS
    <2>1. ASSUME NEW t \in Tx, UpsertRow(t) PROVE EnrolInv'
      BY <2>1, UpsertEnrol
    <2>2. ASSUME NEW t \in Tx, CommitTx(t) PROVE EnrolInv'
      BY <2>2, CommitEnrol
    <2>3. ASSUME NEW t \in Tx, PrimaryKeyTaken(t) PROVE EnrolInv'
      BY <2>3, RollBackEnrol DEF PrimaryKeyTaken
    <2>4. ASSUME NEW t \in Tx, DeadlockBroken(t) PROVE EnrolInv'
      BY <2>4, RollBackEnrol DEF DeadlockBroken
    <2>5. ASSUME NEW t \in Tx, Redeliver(t) PROVE EnrolInv'
      BY <2>5, RedeliverEnrol
    <2>6. CASE UNCHANGED enrolVars
      BY <2>6 DEF EnrolInv, EnrolTypeOK, RowIsTheJoin, enrolVars
    <2> QED BY <2>1, <2>2, <2>3, <2>4, <2>5, <2>6 DEF EnrolNext
  <1> QED BY <1>1, InitEnrol, PTL DEF EnrolSpec

\* For any pitches in any order, deadlocks, collisions and redeliveries: a row's role
\* is the join of the roles told and a known hand stays known (athletes.sql.go,
\* UpsertAthlete).
THEOREM RowsJoin == EnrolSpec => []RowIsTheJoin
  <1>1. EnrolInv => RowIsTheJoin
    BY DEF EnrolInv
  <1> QED BY <1>1, EnrolInvariant, PTL

\* Rows, locks and progress keep their types (pipeline.go, persist).
THEOREM EnrolTypeCorrect == EnrolSpec => []EnrolTypeOK
  <1>1. EnrolInv => EnrolTypeOK
    BY DEF EnrolInv
  <1> QED BY EnrolInvariant, <1>1, PTL

============================================================================
