----------------------------- MODULE TapeReplay -----------------------------
(***************************************************************************)
(* The replay simulator (internal/replay): a tape is read into outings,    *)
(* narrowed by a filter, and emitted outing by outing with synthetic       *)
(* times.  A run may be cancelled anywhere and started again with another  *)
(* filter, on this day or a later one; the processor tells the pitches of  *)
(* a second run from new ones by their keys alone.                         *)
(*                                                                         *)
(* An envelope is the pitch's key (outing, at-bat and pitch), its time and *)
(* an id, which stands for all that is fresh in it: event_id, the          *)
(* correlation_id equal to that, and produced_at.  Times are seconds.  The *)
(* generator seeded for an outing is the constant sequence of its draws.   *)
(* How long a run waits between two pitches changes nothing it emits.      *)
(***************************************************************************)
EXTENDS Integers, Sequences, FiniteSets, SequencesExt

CONSTANTS
  Outing,           \* session_uid
  Tape,             \* Seq([uid, atBat, pitch, inning, runners, strikes])
  DateOf,           \* [Outing -> Nat \cup {Undated}]  day of the source game
  Undated,          \* what is no date in source_game_date
  Draws,            \* [Outing -> Seq(-2..4)]  jitter by the outing's seed
  MaxRuns,          \* bound
  LastDay           \* bound

ASSUME TapeAssumption ==
  /\ \A i \in DOMAIN Tape : Tape[i].uid \in Outing
  /\ DateOf \in [Outing -> Nat \cup {Undated}]
  /\ Undated \notin Nat
  /\ Draws \in [Outing -> Seq(-2..4)]
  /\ MaxRuns \in Nat
  /\ LastDay \in Nat

VARIABLES
  playlist,         \* outings still to be emitted, the current one first
  position,         \* pitches of the current outing emitted
  tapeClock,        \* Clock: [current, lastAtBat, lastInning, drawn] and,
                    \* for the history, the day NewClock began it on
  today,            \* time.Now(), in days
  stamps,           \* [Outing -> SUBSET [id, atBat, pitch, at]]  emitted by
                    \* all runs, with the day of the clock
  lastRun,          \* history: [Outing -> Seq(the same)]  this run's
  sent,             \* envelopes made
  runs

tapeVars == <<playlist, position, tapeClock, today, stamps, lastRun, sent, runs>>

NotStarted == [current |-> 0, lastAtBat |-> 0, lastInning |-> 0, drawn |-> 0, day |-> 0]

TapeInit ==
  /\ playlist = <<>>
  /\ position = 0
  /\ tapeClock = NotStarted
  /\ today = 0
  /\ stamps = [u \in Outing |-> {}]
  /\ lastRun = [u \in Outing |-> <<>>]
  /\ sent = 0
  /\ runs = 0

Thrown(a, b) == a.atBat < b.atBat \/ (a.atBat = b.atBat /\ a.pitch < b.pitch)

\* ReadTape groups the lines and sorts each outing's.
\* Mutant of PitchesOf: the order of the file is kept.
LinesOf(u) == SelectSeq(Tape, LAMBDA line : line.uid = u)
PitchesOf(u) == SortSeq(SelectSeq(Tape, LAMBDA line : line.uid = u), Thrown)

\* Outings in the order of their first lines, as Filter leaves them.
FirstLine(u) == CHOOSE i \in DOMAIN Tape :
  Tape[i].uid = u /\ \A j \in 1..(i - 1) : Tape[j].uid # u
Filtered(kept) == SetToSortSeq(kept, LAMBDA u, v : FirstLine(u) < FirstLine(v))

StartRun ==
  /\ playlist = <<>>
  /\ runs < MaxRuns
  /\ \E kept \in SUBSET Outing : kept # {} /\ playlist' = Filtered(kept)
  /\ position' = 0
  /\ tapeClock' = NotStarted
  /\ lastRun' = [u \in Outing |-> <<>>]
  /\ runs' = runs + 1
  /\ UNCHANGED <<today, stamps, sent>>

\* parseDate: what is no date is today.
DayOf(u) == IF DateOf[u] = Undated THEN today ELSE DateOf[u]

\* NewClock: play begins at 19:10, and a reliever does not start the game.
FirstPitch == 19 * 3600 + 10 * 60
StartOf(u, day) ==
  LET inning == PitchesOf(u)[1].inning
  IN  day * 86400 + FirstPitch + (IF inning > 1 THEN (inning - 1) * 1200 ELSE 0)

\* Clock.Next, from the second pitch on.
Gap(u, line) ==
  LET base  == IF line.runners THEN 23 ELSE 19
      pause == IF line.inning # tapeClock.lastInning THEN 150
               ELSE IF line.atBat # tapeClock.lastAtBat THEN 25 ELSE 0
      gap   == base + pause + (IF line.strikes >= 2 THEN 2 ELSE 0) + Draws[u][tapeClock.drawn + 1]
  IN  IF gap < 1 THEN 1 ELSE gap

EmitPitch ==
  LET u     == Head(playlist)
      line  == PitchesOf(u)[position + 1]
      first == position = 0
      day   == IF first THEN DayOf(u) ELSE tapeClock.day
      at    == IF first THEN StartOf(u, day) ELSE tapeClock.current + Gap(u, line)
      event == [id |-> sent + 1, atBat |-> line.atBat, pitch |-> line.pitch, at |-> at, day |-> day]
  IN
  /\ playlist # <<>>
  /\ position < Len(PitchesOf(u))
  /\ position' = position + 1
  /\ sent' = sent + 1
  /\ tapeClock' = [current |-> at, lastAtBat |-> line.atBat, lastInning |-> line.inning,
                   drawn |-> IF first THEN tapeClock.drawn ELSE tapeClock.drawn + 1,
                   day |-> day]
  /\ stamps' = [stamps EXCEPT ![u] = @ \cup {event}]
  /\ lastRun' = [lastRun EXCEPT ![u] = Append(@, event)]
  /\ UNCHANGED <<playlist, today, runs>>

\* Mutant of NextOuting: one generator runs through all outings.
NextOutingOneClock ==
  /\ playlist # <<>>
  /\ position = Len(PitchesOf(Head(playlist)))
  /\ playlist' = Tail(playlist)
  /\ position' = 0
  /\ UNCHANGED <<tapeClock, today, stamps, lastRun, sent, runs>>

NextOuting ==
  /\ playlist # <<>>
  /\ position = Len(PitchesOf(Head(playlist)))
  /\ playlist' = Tail(playlist)
  /\ position' = 0
  /\ tapeClock' = NotStarted
  /\ UNCHANGED <<today, stamps, lastRun, sent, runs>>

\* The context is cancelled, or an event cannot be emitted.
AbortRun ==
  /\ playlist # <<>>
  /\ playlist' = <<>>
  /\ UNCHANGED <<position, tapeClock, today, stamps, lastRun, sent, runs>>

\* UTC midnight, within a run or between two.
Midnight ==
  /\ today < LastDay
  /\ today' = today + 1
  /\ UNCHANGED <<playlist, position, tapeClock, stamps, lastRun, sent, runs>>

TapeNext == StartRun \/ EmitPitch \/ NextOuting \/ AbortRun \/ Midnight

TapeSpec == TapeInit /\ [][TapeNext]_tapeVars

\* What reading and filtering achieve, if the file names no pitch twice: each
\* outing's pitches in the order thrown, and each outing at most once.  The
\* generator is never exhausted.
TapeLine == [uid : Outing, atBat : Nat, pitch : Nat, inning : Nat, runners : BOOLEAN, strikes : Nat]
TapeIsRead ==
  /\ \A u \in Outing :
       /\ PitchesOf(u) \in Seq(TapeLine)
       /\ \A i \in 1..Len(PitchesOf(u)) : \A j \in 1..(i - 1) : Thrown(PitchesOf(u)[j], PitchesOf(u)[i])
       /\ Len(PitchesOf(u)) <= Len(Draws[u]) + 1
  /\ \A kept \in SUBSET Outing :
       /\ Filtered(kept) \in Seq(Outing)
       /\ \A i \in 1..Len(Filtered(kept)) : \A j \in 1..(i - 1) : Filtered(kept)[j] # Filtered(kept)[i]

----------------------------------------------------------------------------
\* A pitch that is replayed again carries the time it had, in an envelope of
\* its own: the time depends neither on which other outings a run contains nor
\* on where an earlier one was cut off nor, if the tape dates the outing, on the
\* day of the run.  An outing without a date has the same times whenever its
\* clock is begun on the same day, and runs that pass midnight do not move it
\* (simulator.go, Run: "adding or removing an outing does not change the
\* timestamps of the others"; timing.go, parseDate).
RerunIsRedelivery ==
  \A u \in Outing : \A x, y \in stamps[u] :
    x.atBat = y.atBat /\ x.pitch = y.pitch /\ (DateOf[u] # Undated \/ x.day = y.day)
      => x.at = y.at

\* Within an outing a run's times rise with the order in which the pitches were
\* thrown, whatever the order of the file (tape.go, ReadTape; timing.go, Next).
TimesRise ==
  \A u \in Outing : \A i \in 1..Len(lastRun[u]) : \A j \in 1..(i - 1) :
    /\ lastRun[u][j].at < lastRun[u][i].at
    /\ Thrown(lastRun[u][j], lastRun[u][i])
=============================================================================
