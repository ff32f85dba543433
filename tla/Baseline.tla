------------------------------ MODULE Baseline ------------------------------
(***************************************************************************)
(* The detector's arithmetic (internal/anomaly/detector.go): an outing's   *)
(* median against the medians of the outings before it.                    *)
(*                                                                         *)
(* Values are integers in some unit of the metric.  A median of integers   *)
(* comes in halves and a deviation from it in halves again, so everything  *)
(* is kept multiplied out: twice a median, four times a MAD, and the       *)
(* robust sigma times 40000 (madScale is 1.4826).  What floating point     *)
(* rounds is abstracted; the comparisons are those of the code.            *)
(***************************************************************************)
EXTENDS Integers, Sequences, FiniteSets, TLC

CONSTANTS
  OutingValue,            \* medians of an outing
  OutingPitches,          \* pitch counts of an outing
  Observed,               \* medians under evaluation
  WindowSessions, MinWindowSessions, MinPitchesPerSession,   \* Config
  TwiceHigh, TwiceMedium, \* thresholds, doubled
  SigmaFloor,             \* every metric has one
  MaxOutings              \* bound

ASSUME BaselineAssumption ==
  /\ OutingValue \subseteq Int /\ Observed \subseteq Int
  /\ OutingPitches \subseteq Nat
  /\ MinWindowSessions \in Nat \ {0}
  /\ WindowSessions \in Nat /\ WindowSessions >= MinWindowSessions
  /\ MinPitchesPerSession \in Nat
  /\ TwiceMedium \in Nat \ {0} /\ TwiceHigh \in Nat /\ TwiceHigh >= TwiceMedium
  /\ SigmaFloor \in Nat \ {0}

VARIABLE outings          \* Seq([value, pitches]), the newest first

BaselineInit == outings = <<>>

\* An outing is over and is history for the next (GetBaselineWindow, newest
\* first).
AddOuting(v, n) ==
  /\ Len(outings) < MaxOutings
  /\ outings' = <<[value |-> v, pitches |-> n]>> \o outings

BaselineNext == \E v \in OutingValue, n \in OutingPitches : AddOuting(v, n)

BaselineSpec == BaselineInit /\ [][BaselineNext]_outings

----------------------------------------------------------------------------
Magnitude(x) == IF x < 0 THEN -x ELSE x

IsFull(p) == p.pitches >= MinPitchesPerSession

\* The newest WindowSessions outings that are not too thin.
Usable ==
  LET full == SelectSeq(outings, IsFull)
      kept == IF Len(full) > WindowSessions THEN WindowSessions ELSE Len(full)
  IN  [i \in 1..kept |-> full[i].value]

Sorted(s) == SortSeq(s, LAMBDA x, y : x < y)

\* What sorting does: the same values, ascending.
Sorts(s) ==
  /\ Sorted(s) \in Seq(Int)
  /\ Len(Sorted(s)) = Len(s)
  /\ \A i \in 1..Len(s) : \A j \in 1..i : Sorted(s)[j] <= Sorted(s)[i]
  /\ \E f \in [1..Len(s) -> 1..Len(s)] :
       /\ \A j \in 1..Len(s) : \E i \in 1..Len(s) : f[i] = j
       /\ \A i \in 1..Len(s) : Sorted(s)[i] = s[f[i]]

\* Mutant of TwiceMedian: the middle is rounded up.
TwiceMedianAbove(s) ==
  LET mid == (Len(s) + 1) \div 2
  IN  IF Len(s) % 2 = 1 THEN 2 * Sorted(s)[mid + 1]
      ELSE Sorted(s)[mid] + Sorted(s)[mid + 1]

TwiceMedian(s) ==
  LET mid == Len(s) \div 2
  IN  IF Len(s) % 2 = 1 THEN 2 * Sorted(s)[mid + 1]
      ELSE Sorted(s)[mid] + Sorted(s)[mid + 1]

Deviations(s) == [i \in 1..Len(s) |-> Magnitude(2 * s[i] - TwiceMedian(s))]
FourMAD(s) == TwiceMedian(Deviations(s))

ScaledSigma(s) ==
  IF 14826 * FourMAD(s) < 40000 * SigmaFloor THEN 40000 * SigmaFloor
  ELSE 14826 * FourMAD(s)

\* |z| >= threshold.
Departs(v, twice) ==
  40000 * Magnitude(2 * v - TwiceMedian(Usable)) >= twice * ScaledSigma(Usable)

\* Evaluate's finding for an outing of enough pitches.
Severity(v) ==
  IF Len(Usable) < MinWindowSessions \/ ScaledSigma(Usable) <= 0 THEN "none"
  ELSE IF Departs(v, TwiceHigh) THEN "HIGH"
  ELSE IF Departs(v, TwiceMedium) THEN "MEDIUM"
  ELSE "none"

Direction(v) == IF 2 * v < TwiceMedian(Usable) THEN "DECREASE" ELSE "INCREASE"

----------------------------------------------------------------------------
Within(s, a, b) == {i \in 1..Len(s) : a <= s[i] /\ s[i] <= b}
MostLie(s, a, b) == 2 * Cardinality(Within(s, a, b)) > Len(s)

\* Three sigmas of the floor, and of a baseline spread from a to b.
FarFrom(d, a, b) ==
  /\ 2 * d >= TwiceHigh * SigmaFloor
  /\ 20000 * d >= TwiceHigh * 14826 * (b - a)

\* Where most of the baseline lies decides, and a minority of strange outings,
\* however strange, neither hides a departure nor turns its direction nor makes
\* a finding of measurement noise (detector.go, RobustSigma: "without letting
\* outliers set it"; SigmaFloor).
MostOutingsDecide ==
  Len(Usable) >= MinWindowSessions =>
    \A a, b \in OutingValue : a <= b /\ MostLie(Usable, a, b) =>
      \A v \in Observed :
        /\ v > b /\ FarFrom(v - b, a, b) => Severity(v) = "HIGH" /\ Direction(v) = "INCREASE"
        /\ v < a /\ FarFrom(a - v, a, b) => Severity(v) = "HIGH" /\ Direction(v) = "DECREASE"
        /\ (\A x \in {a, b} : 2 * Magnitude(v - x) < TwiceMedium * SigmaFloor)
             => Severity(v) = "none"
=============================================================================
