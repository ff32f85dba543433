---------------------------- MODULE Outing_proofs ----------------------------
(***************************************************************************)
(* What the anomaly evaluator promises, for any processes, outings, pitch  *)
(* types and metrics, and any crashes, rebalances and failed calls.        *)
(*                                                                         *)
(* The argument: only the evaluation that inserted a finding's row goes on *)
(* to announce it, so a finding that is about to be announced has a row,   *)
(* no call has announced it, and it is about to be announced by one        *)
(* process only (TellersAreAlone).  A row is never written twice, so what a viewer *)
(* acknowledged stays as it was.  An evaluation reads its medians once, of *)
(* pitches the outing has had and of types with enough of them             *)
(* (MediansOf): with that every step is one of the board's, or none.       *)
(*                                                                         *)
(* An outing that is taken as evaluated has its evaluation ahead of it.    *)
(* What the evaluation in hand has judged (JudgedSoFar) grows type by type *)
(* and metric by metric, no other process takes any of it back (Onward),   *)
(* and at its end it is everything (Judged).                               *)
(***************************************************************************)
EXTENDS Outing, FiniteSetTheorems, TLAPS

\* The local variables of an evaluation are set before they are used.
JobsAreSet ==
  \A p \in Proc :
    /\ job[p].at # "sweep" => job[p].session \in Session
    /\ job[p].at \in {"metric", "alert"} => job[p].type \in PitchType
    /\ job[p].at = "alert" => job[p].metric \in Metric

TellersAreAlone ==
  \A p \in Proc : job[p].at = "alert" =>
    /\ findings[FindingOf(p)] # 0
    /\ calls[FindingOf(p)] = 0
    /\ \A q \in Proc \ {p} : job[q].at = "alert" => FindingOf(q) # FindingOf(p)

AcknowledgedAreFound == \A k \in acknowledged : findings[k] # 0

OutingInv ==
  /\ OutingTypeOK
  /\ JobsAreSet
  /\ TellersAreAlone
  /\ AlertsAreFindings
  /\ AcknowledgedAreFound

\* Everything the announcements depend on.
tellingVars == <<findings, acknowledged, alerts, calls, job>>

LEMMA InitOuting == OutingInit => OutingInv
  <1> SUFFICES ASSUME OutingInit PROVE OutingInv
    OBVIOUS
  <1> USE OutingAssumption
  <1>1. NoJob \in Jobs
    BY DEF NoJob, Jobs, At
  <1>2. job \in [Proc -> Jobs]
    BY <1>1 DEF OutingInit
  <1>3. OutingTypeOK
    BY <1>2 DEF OutingInit, OutingTypeOK, Watch
  <1>4. \A p \in Proc : job[p].at = "sweep"
    BY DEF OutingInit, NoJob
  <1>5. JobsAreSet /\ TellersAreAlone
    BY <1>4 DEF JobsAreSet, TellersAreAlone
  <1>6. AlertsAreFindings /\ AcknowledgedAreFound
    BY DEF OutingInit, AlertsAreFindings, AcknowledgedAreFound
  <1> QED BY <1>3, <1>5, <1>6 DEF OutingInv

\* A step that leaves rows, announcements and evaluations alone keeps all that
\* is said of them.
LEMMA Elsewhere ==
  ASSUME OutingInv, OutingTypeOK', UNCHANGED tellingVars
  PROVE  OutingInv'
  BY DEF OutingInv, tellingVars, JobsAreSet, TellersAreAlone, AlertsAreFindings,
         AcknowledgedAreFound, FindingOf

\* A step of one evaluation that announces nothing and has nothing to announce
\* afterwards.
Silent(p) ==
  /\ OutingTypeOK'
  /\ UNCHANGED <<findings, acknowledged, alerts, calls>>
  /\ job' = [job EXCEPT ![p] = job'[p]]
  /\ job'[p].at # "alert"
  /\ job'[p].at # "sweep" => job'[p].session \in Session
  /\ job'[p].at = "metric" => job'[p].type \in PitchType

LEMMA Evaluating == ASSUME OutingInv, NEW p \in Proc, Silent(p) PROVE OutingInv'
  <1>1. \A q \in Proc \ {p} : job'[q] = job[q]
    BY DEF OutingInv, OutingTypeOK, Silent
  <1>2. JobsAreSet'
    BY <1>1 DEF OutingInv, JobsAreSet, Silent
  <1>3. TellersAreAlone'
    BY <1>1 DEF OutingInv, TellersAreAlone, FindingOf, Silent
  <1>4. AlertsAreFindings' /\ AcknowledgedAreFound'
    BY DEF OutingInv, AlertsAreFindings, AcknowledgedAreFound, Silent
  <1> QED BY <1>2, <1>3, <1>4 DEF OutingInv, Silent

----------------------------------------------------------------------------
(* Types, action by action.                                                *)

\* Steps of the processor, the broker and Redis.
LEMMA BusTypes ==
  ASSUME OutingTypeOK, NEW s \in Session,
         StorePitch(s) \/ TellStep(s) \/ CountFails(s) \/ GiveUpTelling(s)
           \/ ExpireKey(s) \/ CommitMark(s) \/ CloseSession(s)
  PROVE  OutingTypeOK'
  <1> USE OutingAssumption
  <1>1. CASE StorePitch(s)
    <2>1. pitches' \in [Session -> 0..MaxPitches]
      BY <1>1 DEF OutingTypeOK, StorePitch
    <2> QED BY <1>1, <2>1 DEF OutingTypeOK, StorePitch, busVars, evalVars
  <1>2. CASE CountPitch(s)
    <2>1. live' \in [Session -> Nat \cup {Gone}]
      <3>1. live \in [Session -> Nat \cup {Gone}]
        BY DEF OutingTypeOK
      <3>2. live' = [live EXCEPT ![s] = Counted(live[s])]
        BY <1>2 DEF CountPitch
      <3>3. Counted(live[s]) \in Nat
        BY <3>1 DEF Counted
      <3> QED BY <3>1, <3>2, <3>3
    <2>2. telling' \in [Session -> {"nothing", "record", "publish"}]
      BY <1>2 DEF OutingTypeOK, CountPitch
    <2>3. UNCHANGED <<dbVars, busVars, alerts, calls, evalVars, swept, spoiled, mishaps>>
      BY <1>2 DEF CountPitch
    <2> QED BY <2>1, <2>2, <2>3 DEF OutingTypeOK, dbVars, busVars, evalVars
  <1>3. CASE PublishPitch(s)
    <2>1. /\ events' \in [Session -> Nat]
          /\ \A r \in Session : events[r] <= events'[r]
      <3>1. events \in [Session -> Nat]
        BY DEF OutingTypeOK
      <3>2. events' = [events EXCEPT ![s] = events[s] + 1]
        BY <1>3 DEF PublishPitch
      <3> QED BY <3>1, <3>2
    <2>2. telling' \in [Session -> {"nothing", "record", "publish"}]
      BY <1>3 DEF OutingTypeOK, PublishPitch
    <2>3. UNCHANGED <<dbVars, live, fetched, marked, reader, alerts, calls, evalVars, swept,
                      spoiled, mishaps>>
      BY <1>3 DEF PublishPitch
    <2>4. \A r \in Session : fetched[r] <= events'[r]
      <3> SUFFICES ASSUME NEW r \in Session PROVE fetched[r] <= events'[r]
        OBVIOUS
      <3>1. fetched[r] \in Nat /\ events[r] \in Nat /\ fetched[r] <= events[r]
        BY DEF OutingTypeOK
      <3> QED BY <2>1, <3>1
    <2> QED BY <2>1, <2>2, <2>3, <2>4 DEF OutingTypeOK, dbVars, evalVars
  <1>4. CASE CountFails(s)
    <2>1. telling' \in [Session -> {"nothing", "record", "publish"}]
      BY <1>4 DEF OutingTypeOK, CountFails
    <2>2. mishaps' \in Nat
      BY <1>4 DEF OutingTypeOK, CountFails, Mishap
    <2> QED BY <1>4, <2>1, <2>2 DEF OutingTypeOK, CountFails, dbVars, busVars, evalVars
  <1>5. CASE GiveUpTelling(s)
    BY <1>5 DEF OutingTypeOK, GiveUpTelling, Mishap, dbVars, busVars, evalVars
  <1>6. CASE ExpireKey(s)
    BY <1>6 DEF OutingTypeOK, ExpireKey, Mishap, dbVars, busVars, evalVars
  <1>7. CASE CommitMark(s)
    BY <1>7 DEF OutingTypeOK, CommitMark, dbVars, evalVars
  <1>8. CASE CloseSession(s)
    BY <1>8 DEF OutingTypeOK, CloseSession, busVars, evalVars
  <1> QED BY <1>1, <1>2, <1>3, <1>4, <1>5, <1>6, <1>7, <1>8 DEF TellStep

\* Steps of a process's memory of an outing.
LEMMA WatchTypes ==
  ASSUME OutingTypeOK, NEW p \in Proc, NEW s \in Session,
         Mark(p, s) \/ MovePartition(p, s) \/ GoQuiet(p, s) \/ Sweep(p)
  PROVE  OutingTypeOK'
  <1> USE OutingAssumption
  <1>1. CASE Mark(p, s)
    <2>1. watch' \in [Proc -> [Session -> Watch]]
      BY <1>1 DEF OutingTypeOK, Mark, Watch
    <2>2. swept' \in [Proc -> [Session -> 0..MaxPitches]]
      <3>1. swept \in [Proc -> [Session -> 0..MaxPitches]] /\ 0 \in 0..MaxPitches
        BY DEF OutingTypeOK
      <3>2. swept' = [swept EXCEPT ![p][s] = 0]
        BY <1>1 DEF Mark
      <3> QED BY <3>1, <3>2
    <2>3. /\ fetched' \in [Session -> Nat]
          /\ \A r \in Session : marked[r] <= fetched'[r] /\ fetched'[r] <= events[r]
      BY <1>1 DEF OutingTypeOK, Mark
    <2> QED BY <1>1, <2>1, <2>2, <2>3 DEF OutingTypeOK, Mark, dbVars
  <1>2. CASE MovePartition(p, s)
    BY <1>2 DEF OutingTypeOK, MovePartition, Mishap, dbVars, evalVars
  <1>3. CASE GoQuiet(p, s)
    BY <1>3 DEF OutingTypeOK, GoQuiet, Watch, dbVars, busVars
  <1>4. CASE Sweep(p)
    <2>1. watch' \in [Proc -> [Session -> Watch]]
      BY <1>4 DEF OutingTypeOK, Sweep, Watch
    <2>2. swept' \in [Proc -> [Session -> 0..MaxPitches]]
      BY <1>4 DEF OutingTypeOK, Sweep
    <2>3. due' \in [Proc -> SUBSET Session]
      BY <1>4 DEF OutingTypeOK, Sweep, Quiet
    <2> QED BY <1>4, <2>1, <2>2, <2>3 DEF OutingTypeOK, Sweep, dbVars, busVars
  <1> QED BY <1>1, <1>2, <1>3, <1>4

\* What one evaluation's step makes of its local variables.
LEMMA GoOnTypes ==
  ASSUME job \in [Proc -> Jobs], NEW p \in Proc, NEW there \in At, GoOn(p, there)
  PROVE  /\ job' \in [Proc -> Jobs] /\ job' = [job EXCEPT ![p] = job'[p]]
         /\ job'[p].at = there
         /\ job'[p].session = job[p].session /\ job'[p].type = job[p].type
  <1>1. job[p] \in Jobs /\ job' = [job EXCEPT ![p] = [job[p] EXCEPT !.at = there]]
    BY DEF GoOn
  <1>2. ASSUME NEW j \in Jobs
        PROVE  /\ [j EXCEPT !.at = there] \in Jobs
               /\ [j EXCEPT !.at = there].at = there
               /\ [j EXCEPT !.at = there].session = j.session
               /\ [j EXCEPT !.at = there].type = j.type
    BY DEF Jobs
  <1>3. job'[p] = [job[p] EXCEPT !.at = there]
    BY <1>1
  <1> QED BY <1>1, <1>2, <1>3

LEMMA NextMetricTypes ==
  ASSUME job \in [Proc -> Jobs], NEW p \in Proc, job[p].metric \in Metric, NextMetric(p)
  PROVE  /\ job' \in [Proc -> Jobs] /\ job' = [job EXCEPT ![p] = job'[p]]
         /\ job'[p].at = "metric"
         /\ job'[p].session = job[p].session /\ job'[p].type = job[p].type
  <1>0. Metrics \in Nat /\ job[p].metric \in 1..Metrics
    BY OutingAssumption DEF Metric
  <1>1. /\ job[p] \in Jobs /\ job[p].metric + 1 \in 1..(Metrics + 1)
        /\ job' = [job EXCEPT ![p] = [job[p] EXCEPT !.at = "metric", !.metric = @ + 1]]
    <2>1. job[p].metric + 1 \in 1..(Metrics + 1)
      BY <1>0
    <2> QED BY <2>1 DEF NextMetric
  <1>2. ASSUME NEW j \in Jobs, j.metric + 1 \in 1..(Metrics + 1)
        PROVE  LET k == [j EXCEPT !.at = "metric", !.metric = @ + 1] IN
               k \in Jobs /\ k.at = "metric" /\ k.session = j.session /\ k.type = j.type
    BY <1>2 DEF Jobs, At
  <1>3. job'[p] = [job[p] EXCEPT !.at = "metric", !.metric = @ + 1]
    BY <1>1
  <1> QED BY <1>1, <1>2, <1>3

LEMMA NoJobTypes == NoJob \in Jobs /\ NoJob.at = "sweep"
  BY OutingAssumption DEF NoJob, Jobs, At

\* The steps of an evaluation that find and announce nothing.
LEMMA JobTypes ==
  ASSUME OutingInv, NEW p \in Proc,
         \/ \E s \in Session : Take(p, s)
         \/ \E t \in PitchType : ReadMedians(p, t)
         \/ Recompute(p) \/ RecomputeFails(p) \/ Drop(p) \/ DropFails(p)
         \/ ListTypes(p) \/ EndEvaluation(p) \/ EndType(p)
         \/ Unremarkable(p) \/ AlreadyFound(p)
         \/ EvaluationFails(p) \/ EvaluatorDies(p)
  PROVE  Silent(p)
  <1> USE OutingAssumption
  <1> DEFINE Kept == /\ UNCHANGED <<findings, acknowledged, alerts, calls>>
                     /\ job' = [job EXCEPT ![p] = job'[p]]
                     /\ job'[p].at # "alert"
                     /\ job'[p].at # "sweep" => job'[p].session \in Session
                     /\ job'[p].at = "metric" => job'[p].type \in PitchType
  <1> SUFFICES OutingTypeOK' /\ Kept
    BY DEF Silent
  <1>0. /\ job \in [Proc -> Jobs] /\ OutingTypeOK
        /\ job[p].at # "sweep" => job[p].session \in Session
        /\ job[p].at \in {"metric", "alert"} => job[p].type \in PitchType
        /\ job[p].at = "alert" => job[p].metric \in Metric
    BY DEF OutingInv, OutingTypeOK, JobsAreSet
  <1>1. ASSUME NEW s \in Session, Take(p, s)
        PROVE  OutingTypeOK' /\ Kept
    <2>0. [job[p] EXCEPT !.at = "recompute", !.session = s] \in Jobs
      <3> HIDE DEF Kept
      <3>1. job[p] \in Jobs
        BY <1>0
      <3>2. ASSUME NEW j \in Jobs PROVE [j EXCEPT !.at = "recompute", !.session = s] \in Jobs
        BY DEF Jobs, At
      <3> QED BY <3>1, <3>2
    <2>1. job' \in [Proc -> Jobs] /\ Kept
      <3>1. /\ job' = [job EXCEPT ![p] = [job[p] EXCEPT !.at = "recompute", !.session = s]]
            /\ UNCHANGED <<findings, acknowledged, alerts, calls>>
        BY <1>1 DEF Take, dbVars
      <3>2. job'[p].at = "recompute" /\ job'[p].session = s
        BY <1>0, <3>1 DEF Jobs
      <3> QED BY <1>0, <2>0, <3>1, <3>2
    <2> QED BY <1>0, <1>1, <2>1 DEF Take, OutingTypeOK, dbVars, busVars
  <1>2. CASE Recompute(p)
    <2>0. /\ GoOn(p, "drop") /\ "drop" \in At /\ job[p].session \in Session
          /\ UNCHANGED <<findings, acknowledged, alerts, calls>>
      BY <1>0, <1>2 DEF Recompute, At
    <2>1. job' \in [Proc -> Jobs] /\ Kept
      BY <1>0, <2>0, GoOnTypes
    <2> QED BY <1>0, <1>2, <2>1 DEF Recompute, OutingTypeOK, GoOn, busVars
  <1>3. CASE RecomputeFails(p)
    <2>0. /\ GoOn(p, "types") /\ "types" \in At /\ job[p].session \in Session
          /\ UNCHANGED <<findings, acknowledged, alerts, calls>>
      BY <1>0, <1>3 DEF RecomputeFails, At, dbVars
    <2>1. job' \in [Proc -> Jobs] /\ Kept
      BY <1>0, <2>0, GoOnTypes
    <2>2. job' \in [Proc -> Jobs]
      BY <2>1
    <2>3. mishaps' \in Nat /\ spoiled' \subseteq Session
      BY <1>0, <1>3 DEF RecomputeFails, OutingTypeOK, Mishap
    <2>4. OutingTypeOK'
      BY <1>0, <1>3, <2>2, <2>3 DEF RecomputeFails, OutingTypeOK, dbVars, busVars
    <2> QED BY <2>1, <2>4
  <1>4. CASE Drop(p)
    <2>0. /\ GoOn(p, "types") /\ "types" \in At /\ job[p].session \in Session
          /\ UNCHANGED <<findings, acknowledged, alerts, calls>>
      BY <1>0, <1>4 DEF Drop, At, dbVars
    <2>1. job' \in [Proc -> Jobs] /\ Kept
      BY <1>0, <2>0, GoOnTypes
    <2> QED BY <1>0, <1>4, <2>1 DEF Drop, OutingTypeOK, GoOn, dbVars, busVars
  <1>5. CASE DropFails(p)
    <2>0. /\ GoOn(p, "types") /\ "types" \in At /\ job[p].session \in Session
          /\ UNCHANGED <<findings, acknowledged, alerts, calls>>
      BY <1>0, <1>5 DEF DropFails, At, dbVars
    <2>1. job' \in [Proc -> Jobs] /\ Kept
      BY <1>0, <2>0, GoOnTypes
    <2>2. job' \in [Proc -> Jobs]
      BY <2>1
    <2>3. mishaps' \in Nat /\ spoiled' \subseteq Session
      BY <1>0, <1>5 DEF DropFails, OutingTypeOK, Mishap
    <2>4. OutingTypeOK'
      BY <1>0, <1>5, <2>2, <2>3 DEF DropFails, OutingTypeOK, dbVars, busVars
    <2> QED BY <2>1, <2>4
  <1>6. CASE ListTypes(p)
    <2> DEFINE listed == { t \in PitchType : CountOf(t, pitches[job[p].session]) >= MinPitches }
    <2>0. [job[p] EXCEPT !.at = "type", !.types = listed] \in Jobs
      <3> HIDE DEF Kept
      <3>1. job[p] \in Jobs /\ listed \in SUBSET PitchType
        BY <1>0
      <3> HIDE DEF listed
      <3>2. ASSUME NEW j \in Jobs, NEW ts \in SUBSET PitchType
            PROVE  [j EXCEPT !.at = "type", !.types = ts] \in Jobs
        BY DEF Jobs, At
      <3> QED BY <3>1, <3>2
    <2>1. job' \in [Proc -> Jobs] /\ Kept
      <3>1. /\ job' = [job EXCEPT ![p] = [job[p] EXCEPT !.at = "type", !.types = listed]]
            /\ UNCHANGED <<findings, acknowledged, alerts, calls>>
        BY <1>6 DEF ListTypes, dbVars
      <3> HIDE DEF listed
      <3>2. job'[p].at = "type" /\ job'[p].session = job[p].session
        BY <1>0, <3>1 DEF Jobs
      <3>3. job[p].session \in Session
        BY <1>0, <1>6 DEF ListTypes
      <3> QED BY <1>0, <2>0, <3>1, <3>2, <3>3
    <2> QED BY <1>0, <1>6, <2>1 DEF ListTypes, OutingTypeOK, dbVars, busVars
  <1>7. ASSUME NEW t \in PitchType, ReadMedians(p, t)
        PROVE  OutingTypeOK' /\ Kept
    <2>0. pitches[job[p].session] \in 0..MaxPitches
      BY <1>0, <1>7 DEF ReadMedians, OutingTypeOK
    <2>1. job' = [job EXCEPT ![p].at = "metric", ![p].types = @ \ {t}, ![p].type = t,
                             ![p].on = pitches[job[p].session], ![p].metric = 1]
      BY <1>7 DEF ReadMedians
    <2>2. 1 \in 1..(Metrics + 1)
      OBVIOUS
    <2>3. [job[p] EXCEPT !.at = "metric", !.types = @ \ {t}, !.type = t,
                         !.on = pitches[job[p].session], !.metric = 1] \in Jobs
      <3> HIDE DEF Kept
      <3>1. job[p] \in Jobs
        BY <1>0
      <3>2. ASSUME NEW j \in Jobs, NEW n \in 0..MaxPitches, NEW i \in 1..(Metrics + 1)
            PROVE  [j EXCEPT !.at = "metric", !.types = @ \ {t}, !.type = t,
                             !.on = n, !.metric = i] \in Jobs
        BY DEF Jobs, At
      <3> QED BY <2>0, <2>2, <3>1, <3>2
    <2>4. job' \in [Proc -> Jobs]
      BY <1>0, <2>1, <2>3
    <2>5. /\ job'[p].at = "metric" /\ job'[p].type = t
          /\ job'[p].session = job[p].session
      BY <1>0, <2>1 DEF Jobs
    <2>6. job[p].session \in Session
      BY <1>0, <1>7 DEF ReadMedians
    <2>7. Kept
      <3>1. UNCHANGED <<findings, acknowledged, alerts, calls>>
        BY <1>7 DEF ReadMedians, dbVars
      <3>2. job' = [job EXCEPT ![p] = job'[p]]
        BY <1>0, <2>1
      <3> QED BY <2>5, <2>6, <3>1, <3>2
    <2> QED BY <1>0, <1>7, <2>4, <2>7 DEF ReadMedians, OutingTypeOK, dbVars, busVars
  <1>8. CASE EndEvaluation(p)
    <2>0. /\ job' = [job EXCEPT ![p] = NoJob]
          /\ UNCHANGED <<findings, acknowledged, alerts, calls>>
      BY <1>8 DEF EndEvaluation, dbVars
    <2>1. job' \in [Proc -> Jobs] /\ Kept
      BY <1>0, <2>0, NoJobTypes
    <2> QED BY <1>0, <1>8, <2>1 DEF EndEvaluation, OutingTypeOK, NoJob, dbVars, busVars
  <1>9. CASE EndType(p)
    <2>0. /\ GoOn(p, "type") /\ "type" \in At /\ job[p].session \in Session
          /\ UNCHANGED <<findings, acknowledged, alerts, calls>>
      BY <1>0, <1>9 DEF EndType, At, dbVars
    <2>1. job' \in [Proc -> Jobs] /\ Kept
      BY <1>0, <2>0, GoOnTypes
    <2> QED BY <1>0, <1>9, <2>1 DEF EndType, OutingTypeOK, GoOn, dbVars, busVars
  <1>10. CASE Unremarkable(p)
    <2>0. /\ NextMetric(p) /\ job[p].metric <= Metrics /\ job[p].at = "metric"
          /\ UNCHANGED <<findings, acknowledged, alerts, calls>>
      BY <1>10 DEF Unremarkable, Comparing, dbVars
    <2>2. job[p].metric \in Metric
      BY <1>0, <2>0 DEF Jobs, Metric
    <2>1. job' \in [Proc -> Jobs] /\ Kept
      BY <1>0, <2>0, <2>2, NextMetricTypes
    <2> QED BY <1>0, <1>10, <2>1 DEF Unremarkable, OutingTypeOK, Comparing, NextMetric, dbVars, busVars
  <1>11. CASE AlreadyFound(p)
    <2>0. /\ NextMetric(p) /\ job[p].metric <= Metrics /\ job[p].at = "metric"
          /\ UNCHANGED <<findings, acknowledged, alerts, calls>>
      BY <1>11 DEF AlreadyFound, Departing, Comparing, dbVars
    <2>2. job[p].metric \in Metric
      BY <1>0, <2>0 DEF Jobs, Metric
    <2>1. job' \in [Proc -> Jobs] /\ Kept
      BY <1>0, <2>0, <2>2, NextMetricTypes
    <2> QED BY <1>0, <1>11, <2>1 DEF AlreadyFound, OutingTypeOK, Departing, Comparing, NextMetric, dbVars, busVars
  <1>12. CASE EvaluationFails(p)
    <2>0. /\ job' = [job EXCEPT ![p] = NoJob]
          /\ UNCHANGED <<findings, acknowledged, alerts, calls>>
      BY <1>12 DEF EvaluationFails, dbVars
    <2>1. job' \in [Proc -> Jobs] /\ Kept
      BY <1>0, <2>0, NoJobTypes
    <2>2. job' \in [Proc -> Jobs]
      BY <2>1
    <2>3. mishaps' \in Nat /\ spoiled' \subseteq Session
      BY <1>0, <1>12 DEF EvaluationFails, OutingTypeOK, Mishap
    <2>4. OutingTypeOK'
      BY <1>0, <1>12, <2>2, <2>3 DEF EvaluationFails, OutingTypeOK, dbVars, busVars
    <2> QED BY <2>1, <2>4
  <1>13. CASE EvaluatorDies(p)
    <2>0. /\ job' = [job EXCEPT ![p] = NoJob]
          /\ UNCHANGED <<findings, acknowledged, alerts, calls>>
      BY <1>13 DEF EvaluatorDies, dbVars
    <2>1. job' \in [Proc -> Jobs] /\ Kept
      BY <1>0, <2>0, NoJobTypes
    <2>2. job' \in [Proc -> Jobs]
      BY <2>1
    <2>3. mishaps' \in Nat /\ spoiled' \subseteq Session
      <3>1. job[p].session \in Session \cup {Gone} /\ due[p] \subseteq Session
        BY <1>0 DEF OutingTypeOK, Jobs
      <3>2. Unfinished(p) \subseteq Session
        BY <3>1 DEF Unfinished, Quiet
      <3> QED BY <1>0, <1>13, <3>2 DEF EvaluatorDies, OutingTypeOK, Mishap
    <2>4. OutingTypeOK'
      BY <1>0, <1>13, <2>2, <2>3 DEF EvaluatorDies, OutingTypeOK, dbVars, Watch
    <2> QED BY <2>1, <2>4
  <1> QED BY <1>1, <1>2, <1>3, <1>4, <1>5, <1>6, <1>7, <1>8, <1>9, <1>10, <1>11, <1>12, <1>13

----------------------------------------------------------------------------
(* The steps that find, announce and acknowledge.                          *)

\* A finding's row is new, so nobody else is about to announce it.
LEMMA Finding == ASSUME OutingInv, NEW p \in Proc, StoreFinding(p) PROVE OutingInv'
  <1> USE OutingAssumption
  <1> DEFINE k == FindingOf(p)
  <1>1. /\ job \in [Proc -> Jobs] /\ findings \in [Key -> 0..MaxPitches]
        /\ acknowledged \subseteq Key /\ OutingTypeOK
        /\ job[p].at = "metric" /\ job[p].metric <= Metrics
        /\ findings[k] = 0
    BY DEF OutingInv, OutingTypeOK, StoreFinding, Departing, Comparing
  <1>2. job[p].session \in Session /\ job[p].type \in PitchType
    BY <1>1 DEF OutingInv, JobsAreSet
  <1>3. job[p].metric \in Metric /\ job[p].on \in 1..MaxPitches
    <2>1. job[p].metric \in 1..(Metrics + 1) /\ <<job[p].type, job[p].metric>> \in PitchType \X Metric
      BY <1>1, <1>2 DEF Jobs, Metric
    <2> QED BY <1>1, <2>1 DEF StoreFinding, Departing, Metric
  <1>4. k \in Key
    BY <1>2, <1>3 DEF FindingOf, Key
  <1>5. /\ job' = [job EXCEPT ![p].at = "alert"]
        /\ findings' = [findings EXCEPT ![k] = job[p].on]
        /\ UNCHANGED <<acknowledged, alerts, calls>>
    BY DEF StoreFinding, GoOn
  <1>6. /\ job'[p].at = "alert" /\ job'[p].session = job[p].session
        /\ job'[p].type = job[p].type /\ job'[p].metric = job[p].metric
        /\ \A q \in Proc \ {p} : job'[q] = job[q]
    BY <1>1, <1>5 DEF Jobs
  <1>7. /\ FindingOf(p)' = k
        /\ \A q \in Proc \ {p} : FindingOf(q)' = FindingOf(q)
    BY <1>6 DEF FindingOf
  <1>8. findings'[k] # 0 /\ \A j \in Key \ {k} : findings'[j] = findings[j]
    BY <1>1, <1>3, <1>4, <1>5
  <1>9. OutingTypeOK'
    <2>1. [job[p] EXCEPT !.at = "alert"] \in Jobs
      <3>1. job[p] \in Jobs
        BY <1>1
      <3>2. ASSUME NEW j \in Jobs PROVE [j EXCEPT !.at = "alert"] \in Jobs
        BY DEF Jobs, At
      <3> QED BY <3>1, <3>2
    <2>2. job' \in [Proc -> Jobs]
      BY <1>1, <1>5, <2>1
    <2>3. job[p].on \in 0..MaxPitches
      BY <1>3
    <2>4. findings' \in [Key -> 0..MaxPitches]
      <3> HIDE DEF k
      <3> QED BY <1>1, <1>5, <2>3
    <2> QED BY <1>1, <2>2, <2>4 DEF StoreFinding, OutingTypeOK, busVars
  <1>10. JobsAreSet'
    BY <1>2, <1>3, <1>6 DEF OutingInv, JobsAreSet
  <1>11. ASSUME NEW q \in Proc \ {p}, job[q].at = "alert"
         PROVE  FindingOf(q) \in Key /\ FindingOf(q) # k
    BY <1>1, <1>11 DEF OutingInv, TellersAreAlone, JobsAreSet, FindingOf, Key
  <1>12. calls[k] = 0
    <2>1. calls[k] \in Nat
      BY <1>1, <1>4 DEF OutingTypeOK
    <2>2. calls[k] <= 1 /\ calls[k] # 1
      BY <1>1, <1>4 DEF OutingInv, AlertsAreFindings
    <2> QED BY <2>1, <2>2
  <1>13. TellersAreAlone'
    BY <1>5, <1>6, <1>7, <1>8, <1>11, <1>12 DEF OutingInv, TellersAreAlone
  <1>14. AlertsAreFindings' /\ AcknowledgedAreFound'
    BY <1>1, <1>5, <1>8 DEF OutingInv, AlertsAreFindings, AcknowledgedAreFound
  <1> QED BY <1>9, <1>10, <1>13, <1>14 DEF OutingInv

\* The steps that announce: one call, whatever becomes of it.
Tells(p) == Alert(p) \/ AlertTwice(p) \/ AlertFails(p)

LEMMA TellsBy ==
  ASSUME NEW p \in Proc, Tells(p)
  PROVE  /\ \E n \in 0..WriteAttempts : Told(p, n)
         /\ UNCHANGED <<dbVars, live, busVars, telling, watch, due, swept, spoiled>>
         /\ mishaps \in Nat => mishaps' \in Nat
  <1> USE OutingAssumption
  <1>1. CASE Alert(p)
    <2>1. 1 \in 0..WriteAttempts
      OBVIOUS
    <2> QED BY <1>1, <2>1 DEF Alert
  <1>2. CASE AlertTwice(p)
    <2>1. PICK n \in 2..WriteAttempts : Told(p, n)
      BY <1>2 DEF AlertTwice
    <2>2. n \in 0..WriteAttempts
      OBVIOUS
    <2> QED BY <1>2, <2>1, <2>2 DEF AlertTwice, Mishap
  <1>3. CASE AlertFails(p)
    BY <1>3 DEF AlertFails, Mishap
  <1> QED BY <1>1, <1>2, <1>3 DEF Tells

\* What an announcement does to the evaluation.
LEMMA TellsOf ==
  ASSUME NEW p \in Proc, Tells(p)
  PROVE  /\ job[p].at = "alert"
         /\ NextMetric(p)
         /\ UNCHANGED <<dbVars, watch, due, swept, spoiled>>
  BY TellsBy DEF Told

\* The announcement of a row that no call has announced.
LEMMA Announcing == ASSUME OutingInv, NEW p \in Proc, Tells(p) PROVE OutingInv'
  <1> USE OutingAssumption
  <1> DEFINE k == FindingOf(p)
  <1>0. PICK n \in 0..WriteAttempts : Told(p, n)
    BY TellsBy
  <1>1. /\ job \in [Proc -> Jobs] /\ OutingTypeOK
        /\ alerts \in [Key -> Nat] /\ calls \in [Key -> Nat]
        /\ job[p].at = "alert"
        /\ job[p].session \in Session /\ job[p].type \in PitchType
        /\ job[p].metric \in Metric
    BY <1>0 DEF OutingInv, OutingTypeOK, Told, JobsAreSet
  <1>2. k \in Key /\ findings[k] # 0 /\ calls[k] = 0 /\ alerts[k] = 0
    <2>1. k \in Key
      BY <1>1 DEF FindingOf, Key
    <2>2. findings[k] # 0 /\ calls[k] = 0
      BY <1>1 DEF OutingInv, TellersAreAlone
    <2> QED BY <2>1, <2>2 DEF OutingInv, AlertsAreFindings
  <1>3. /\ job' = [job EXCEPT ![p].at = "metric", ![p].metric = @ + 1]
        /\ calls' = [calls EXCEPT ![k] = @ + 1]
        /\ alerts' = [alerts EXCEPT ![k] = @ + n]
        /\ UNCHANGED <<findings, acknowledged>>
    BY <1>0, TellsBy DEF Told, NextMetric, dbVars
  <1>4. /\ job'[p].at = "metric" /\ job'[p].session = job[p].session
        /\ job'[p].type = job[p].type
        /\ \A q \in Proc \ {p} : job'[q] = job[q]
    BY <1>1, <1>3 DEF Jobs
  <1>5. \A q \in Proc \ {p} : FindingOf(q)' = FindingOf(q)
    BY <1>4 DEF FindingOf
  <1>6. /\ calls'[k] = 1 /\ \A j \in Key \ {k} : calls'[j] = calls[j]
        /\ alerts'[k] = n /\ \A j \in Key \ {k} : alerts'[j] = alerts[j]
    <2> HIDE DEF k
    <2> QED BY <1>1, <1>2, <1>3
  <1>7. OutingTypeOK'
    <2>0. job[p] \in Jobs /\ job[p].metric + 1 \in 1..(Metrics + 1)
      BY <1>1 DEF Metric
    <2>1. [job[p] EXCEPT !.at = "metric", !.metric = @ + 1] \in Jobs
      BY <2>0 DEF Jobs, At
    <2>2. job' \in [Proc -> Jobs]
      BY <1>1, <1>3, <2>1
    <2>3. alerts' \in [Key -> Nat] /\ calls' \in [Key -> Nat]
      <3> HIDE DEF k
      <3> QED BY <1>1, <1>2, <1>3
    <2>4. mishaps' \in Nat
      BY <1>1, TellsBy DEF OutingTypeOK
    <2>5. UNCHANGED <<dbVars, live, busVars, telling, watch, due, swept, spoiled>>
      BY TellsBy
    <2> QED BY <1>1, <2>2, <2>3, <2>4, <2>5 DEF OutingTypeOK, dbVars, busVars
  <1>8. JobsAreSet'
    BY <1>1, <1>4 DEF OutingInv, JobsAreSet
  <1>9. ASSUME NEW q \in Proc \ {p}, job[q].at = "alert"
        PROVE  FindingOf(q) \in Key /\ FindingOf(q) # k
    BY <1>1, <1>9 DEF OutingInv, TellersAreAlone, JobsAreSet, FindingOf, Key
  <1>10. TellersAreAlone'
    <2> SUFFICES ASSUME NEW q \in Proc, job'[q].at = "alert"
                 PROVE  /\ findings'[FindingOf(q)'] # 0
                        /\ calls'[FindingOf(q)'] = 0
                        /\ \A r \in Proc \ {q} :
                             job'[r].at = "alert" => FindingOf(r)' # FindingOf(q)'
      BY DEF TellersAreAlone
    <2>1. q # p /\ job[q].at = "alert" /\ FindingOf(q)' = FindingOf(q)
      BY <1>4, <1>5
    <2>2. FindingOf(q) \in Key \ {k}
      BY <1>9, <2>1
    <2>3. findings[FindingOf(q)] # 0 /\ calls[FindingOf(q)] = 0
      BY <2>1 DEF OutingInv, TellersAreAlone
    <2>4. ASSUME NEW r \in Proc \ {q}, job'[r].at = "alert"
          PROVE  FindingOf(r)' # FindingOf(q)'
      <3>1. r # p /\ job[r].at = "alert" /\ FindingOf(r)' = FindingOf(r)
        BY <1>4, <1>5, <2>4
      <3> QED BY <2>1, <3>1 DEF OutingInv, TellersAreAlone
    <2> QED BY <1>3, <1>6, <2>1, <2>2, <2>3, <2>4
  <1>11. AlertsAreFindings'
    <2> SUFFICES ASSUME NEW j \in Key
                 PROVE  /\ calls'[j] <= 1
                        /\ calls'[j] = 1 => findings'[j] # 0
                        /\ calls'[j] = 0 => alerts'[j] = 0
                        /\ alerts'[j] <= WriteAttempts
      BY DEF AlertsAreFindings
    <2>1. CASE j = k
      BY <1>2, <1>3, <1>6, <2>1
    <2>2. CASE j # k
      BY <1>3, <1>6, <2>2 DEF OutingInv, AlertsAreFindings
    <2> QED BY <2>1, <2>2
  <1>12. AcknowledgedAreFound'
    BY <1>3 DEF OutingInv, AcknowledgedAreFound
  <1> QED BY <1>7, <1>8, <1>10, <1>11, <1>12 DEF OutingInv

LEMMA Acknowledging == ASSUME OutingInv, NEW k \in Key, Acknowledge(k) PROVE OutingInv'
  <1>1. OutingTypeOK'
    BY DEF OutingInv, OutingTypeOK, Acknowledge, busVars, evalVars
  <1>2. /\ UNCHANGED <<findings, alerts, calls, job>> /\ findings[k] # 0
        /\ acknowledged' = acknowledged \cup {k}
    BY DEF Acknowledge, evalVars
  <1> QED BY <1>1, <1>2 DEF OutingInv, JobsAreSet, TellersAreAlone, AlertsAreFindings,
                            AcknowledgedAreFound, FindingOf

\* Any step is of one of these kinds.
LEMMA StepsOfOuting ==
  ASSUME OutingInv, OutingNext
  PROVE  \/ OutingTypeOK' /\ UNCHANGED tellingVars
         \/ \E p \in Proc : Silent(p)
         \/ \E p \in Proc : StoreFinding(p) \/ Tells(p)
         \/ \E k \in Key : Acknowledge(k)
  <1>0. OutingTypeOK
    BY DEF OutingInv
  <1>1. ASSUME NEW s \in Session,
               StorePitch(s) \/ TellStep(s) \/ CountFails(s) \/ GiveUpTelling(s)
                 \/ ExpireKey(s) \/ CommitMark(s) \/ CloseSession(s)
        PROVE  OutingTypeOK' /\ UNCHANGED tellingVars
    <2>1. OutingTypeOK'
      BY <1>0, <1>1, BusTypes
    <2>2. UNCHANGED tellingVars
      BY <1>1 DEF StorePitch, TellStep, CountPitch, PublishPitch, CountFails, GiveUpTelling,
                  ExpireKey, CommitMark, CloseSession, tellingVars, dbVars, evalVars
    <2> QED BY <2>1, <2>2
  <1>2. ASSUME NEW p \in Proc, NEW s \in Session,
               Mark(p, s) \/ MovePartition(p, s) \/ GoQuiet(p, s) \/ Sweep(p)
        PROVE  OutingTypeOK' /\ UNCHANGED tellingVars
    <2>1. OutingTypeOK'
      BY <1>0, <1>2, WatchTypes
    <2>2. UNCHANGED tellingVars
      BY <1>2 DEF Mark, MovePartition, GoQuiet, Sweep, tellingVars, dbVars, evalVars
    <2> QED BY <2>1, <2>2
  <1>3. ASSUME NEW p \in Proc, Sweep(p)
        PROVE  OutingTypeOK' /\ UNCHANGED tellingVars
    <2>1. PICK s \in Session : TRUE
      BY <1>3 DEF Sweep, Quiet
    <2> QED BY <1>2, <1>3, <2>1
  <1>4. ASSUME NEW p \in Proc,
               \/ \E s \in Session : Take(p, s)
               \/ \E t \in PitchType : ReadMedians(p, t)
               \/ Recompute(p) \/ RecomputeFails(p) \/ Drop(p) \/ DropFails(p)
               \/ ListTypes(p) \/ EndEvaluation(p) \/ EndType(p)
               \/ Unremarkable(p) \/ AlreadyFound(p)
               \/ EvaluationFails(p) \/ EvaluatorDies(p)
        PROVE  Silent(p)
    BY <1>4, JobTypes
  <1> QED BY <1>1, <1>2, <1>3, <1>4 DEF OutingNext, SweepStep, Tells

LEMMA NextOuting == OutingInv /\ [OutingNext]_outingVars => OutingInv'
  <1> SUFFICES ASSUME OutingInv, [OutingNext]_outingVars PROVE OutingInv'
    OBVIOUS
  <1>1. CASE OutingNext
    <2>1. CASE OutingTypeOK' /\ UNCHANGED tellingVars
      BY <2>1, Elsewhere
    <2>2. CASE \E p \in Proc : StoreFinding(p) \/ Tells(p)
      BY <2>2, Finding, Announcing
    <2>3. CASE \E k \in Key : Acknowledge(k)
      BY <2>3, Acknowledging
    <2>4. CASE \E p \in Proc : Silent(p)
      BY <2>4, Evaluating
    <2> QED BY <1>1, <2>1, <2>2, <2>3, <2>4, StepsOfOuting
  <1>2. CASE UNCHANGED outingVars
    <2>1. OutingTypeOK'
      BY <1>2 DEF OutingInv, OutingTypeOK, outingVars, dbVars, busVars, evalVars
    <2> QED BY <1>2, <2>1, Elsewhere DEF outingVars, tellingVars, dbVars, evalVars
  <1> QED BY <1>1, <1>2

\* The strengthening holds in every state (anomaly_consumer.go).
THEOREM OutingInvariant == OutingSpec => []OutingInv
  <1> QED BY InitOuting, NextOuting, PTL DEF OutingSpec

\* Types and offsets of the outing and its evaluators.
THEOREM OutingTypeCorrect == OutingSpec => []OutingTypeOK
  <1>1. OutingInv => OutingTypeOK
    BY DEF OutingInv
  <1> QED BY OutingInvariant, <1>1, PTL

\* No finding is published by two calls, nor by one before it has a row, and
\* nothing else puts a copy of it in the topic (anomaly_consumer.go,
\* store_finding).
THEOREM ToldOnce == OutingSpec => []AlertsAreFindings
  <1>1. OutingInv => AlertsAreFindings
    BY DEF OutingInv
  <1> QED BY OutingInvariant, <1>1, PTL

\* An acknowledged finding is never touched again (InsertAnomaly's ON CONFLICT
\* DO NOTHING; AcknowledgeAnomaly).
THEOREM AcknowledgedForGood == OutingSpec => AcknowledgedStays
  <1>1. ASSUME OutingInv, OutingNext, NEW k \in acknowledged
        PROVE  k \in acknowledged' /\ findings'[k] = findings[k]
    <2>1. CASE UNCHANGED <<findings, acknowledged>>
      BY <2>1
    <2>2. CASE \E p \in Proc : StoreFinding(p)
      <3>1. PICK p \in Proc : StoreFinding(p)
        BY <2>2
      <3>2. findings[k] # 0 /\ findings[FindingOf(p)] = 0
        BY <1>1, <3>1 DEF OutingInv, AcknowledgedAreFound, StoreFinding
      <3>3. k # FindingOf(p) /\ k \in Key /\ findings \in [Key -> 0..MaxPitches]
        BY <1>1, <3>2 DEF OutingInv, OutingTypeOK
      <3>4. /\ findings' = [findings EXCEPT ![FindingOf(p)] = job[p].on]
            /\ acknowledged' = acknowledged
        BY <3>1 DEF StoreFinding
      <3> QED BY <1>1, <3>3, <3>4
    <2>3. CASE \E p \in Proc : Tells(p)
      BY <2>3, TellsOf DEF dbVars
    <2>4. CASE \E j \in Key : Acknowledge(j)
      BY <2>4 DEF Acknowledge
    <2>5. \/ UNCHANGED <<findings, acknowledged>>
          \/ \E p \in Proc : StoreFinding(p) \/ Tells(p)
          \/ \E j \in Key : Acknowledge(j)
      <3>1. CASE OutingTypeOK' /\ UNCHANGED tellingVars
        BY <3>1 DEF tellingVars
      <3>2. CASE \E p \in Proc : Silent(p)
        BY <3>2 DEF Silent
      <3> QED BY <1>1, <3>1, <3>2, StepsOfOuting
    <2> QED BY <2>1, <2>2, <2>3, <2>4, <2>5
  <1>2. OutingInv /\ [OutingNext]_outingVars =>
          [\A k \in acknowledged : /\ k \in acknowledged'
                                   /\ findings'[k] = findings[k]]_outingVars
    BY <1>1
  <1> QED BY OutingInvariant, <1>2, PTL DEF OutingSpec, AcknowledgedStays
----------------------------------------------------------------------------
(* The evaluators implement the board (AnomalyBoard).                      *)

\* Counts of a type of pitch are numbers, and more pitches have no fewer of it.
LEMMA CountsGrow ==
  ASSUME NEW t, NEW m \in 0..MaxPitches, NEW n \in m..MaxPitches
  PROVE  CountOf(t, m) \in Nat /\ CountOf(t, n) \in Nat /\ CountOf(t, m) <= CountOf(t, n)
  <1> USE OutingAssumption
  <1> DEFINE Of(j) == { i \in 1..j : TypeOf[i] = t }
  <1>1. ASSUME NEW j \in 0..MaxPitches PROVE IsFiniteSet(Of(j)) /\ Cardinality(Of(j)) \in Nat
    <2>1. IsFiniteSet(1..j)
      BY FS_Interval
    <2>2. Of(j) \in SUBSET (1..j)
      OBVIOUS
    <2>3. IsFiniteSet(Of(j))
      BY <2>1, <2>2, FS_Subset
    <2> QED BY <2>3, FS_CardinalityType
  <1>2. n \in 0..MaxPitches
    OBVIOUS
  <1>3. Of(m) \in SUBSET Of(n)
    OBVIOUS
  <1>4. Cardinality(Of(m)) <= Cardinality(Of(n))
    BY <1>1, <1>2, <1>3, FS_Subset
  <1> QED BY <1>1, <1>2, <1>4 DEF CountOf

\* What a step of an evaluation leaves of its local variables.
LEMMA JobFields ==
  ASSUME OutingTypeOK, NEW p \in Proc
  PROVE  /\ \A there \in At : GoOn(p, there) =>
              /\ job'[p].at = there
              /\ job'[p].session = job[p].session /\ job'[p].types = job[p].types
              /\ job'[p].type = job[p].type /\ job'[p].on = job[p].on
              /\ job'[p].metric = job[p].metric
         /\ NextMetric(p) =>
              /\ job'[p].at = "metric"
              /\ job'[p].session = job[p].session /\ job'[p].types = job[p].types
              /\ job'[p].type = job[p].type /\ job'[p].on = job[p].on
              /\ job'[p].metric = job[p].metric + 1
  BY DEF OutingTypeOK, Jobs, GoOn, NextMetric

\* An evaluation works on pitches its outing has had, and on types with enough
\* of them.
MediansOf(p) ==
  /\ job[p].at \in {"type", "metric", "alert"} =>
       \A t \in job[p].types : CountOf(t, pitches[job[p].session]) >= MinPitches
  /\ job[p].at \in {"metric", "alert"} =>
       /\ job[p].on <= pitches[job[p].session]
       /\ CountOf(job[p].type, job[p].on) >= MinPitches

BoardInv == OutingInv /\ \A p \in Proc : MediansOf(p)

\* The outing goes on while it is evaluated.
LEMMA MediansOfMore ==
  ASSUME BoardInv, NEW s \in Session, StorePitch(s)
  PROVE  \A p \in Proc : MediansOf(p)'
  <1> SUFFICES ASSUME NEW p \in Proc PROVE MediansOf(p)'
    OBVIOUS
  <1>1. /\ OutingTypeOK /\ MediansOf(p) /\ job[p] \in Jobs
        /\ job[p].at # "sweep" => job[p].session \in Session
    BY DEF BoardInv, OutingInv, OutingTypeOK, JobsAreSet
  <1>2. /\ pitches' = [pitches EXCEPT ![s] = @ + 1] /\ pitches[s] < MaxPitches
        /\ job' = job
    BY DEF StorePitch, evalVars
  <1>3. CASE job[p].at = "sweep"
    BY <1>2, <1>3 DEF MediansOf
  <1>4. CASE job[p].at # "sweep"
    <2> DEFINE r == job[p].session
    <2>1. /\ r \in Session /\ pitches[r] \in 0..MaxPitches
          /\ pitches'[r] \in pitches[r]..MaxPitches
      <3>1. pitches \in [Session -> 0..MaxPitches] /\ MaxPitches \in Nat
        BY <1>1, OutingAssumption DEF OutingTypeOK
      <3>2. r \in Session
        BY <1>1, <1>4
      <3> HIDE DEF r
      <3> QED BY <1>2, <3>1, <3>2
    <2>2. \A t : /\ CountOf(t, pitches[r]) \in Nat /\ CountOf(t, pitches'[r]) \in Nat
                 /\ CountOf(t, pitches[r]) <= CountOf(t, pitches'[r])
      BY <2>1, CountsGrow
    <2>3. job[p].on \in 0..MaxPitches
      BY <1>1 DEF Jobs
    <2>4. job[p].at \in {"type", "metric", "alert"} =>
            \A t \in job[p].types : CountOf(t, pitches'[r]) >= MinPitches
      BY <1>1, <2>2, OutingAssumption DEF MediansOf
    <2>5. job[p].at \in {"metric", "alert"} => job[p].on <= pitches'[r]
      BY <1>1, <2>1, <2>3 DEF MediansOf
    <2>6. job[p].at \in {"metric", "alert"} => CountOf(job[p].type, job[p].on) >= MinPitches
      BY <1>1 DEF MediansOf
    <2>7. job'[p] = job[p]
      BY <1>2
    <2> HIDE DEF r
    <2> QED BY <2>4, <2>5, <2>6, <2>7 DEF MediansOf, r
  <1> QED BY <1>3, <1>4

\* The steps of the evaluation of one process.
JobStep(p) ==
  \/ \E s \in Session : Take(p, s)
  \/ \E t \in PitchType : ReadMedians(p, t)
  \/ Recompute(p) \/ RecomputeFails(p) \/ Drop(p) \/ DropFails(p)
  \/ ListTypes(p) \/ EndEvaluation(p) \/ EndType(p)
  \/ Unremarkable(p) \/ AlreadyFound(p) \/ StoreFinding(p)
  \/ Tells(p)
  \/ EvaluationFails(p) \/ EvaluatorDies(p)

LEMMA FramesOfJob ==
  ASSUME OutingInv, NEW p \in Proc, JobStep(p)
  PROVE  UNCHANGED pitches /\ job' = [job EXCEPT ![p] = job'[p]]
  <1>1. UNCHANGED pitches
    BY TellsOf DEF JobStep, Take, ReadMedians, Recompute, RecomputeFails, Drop, DropFails, ListTypes,
           EndEvaluation, EndType, Unremarkable, AlreadyFound, StoreFinding,
           EvaluationFails, EvaluatorDies, dbVars
  <1>2. job \in [Proc -> Jobs]
    BY DEF OutingInv, OutingTypeOK
  <1>3. CASE StoreFinding(p)
    <2>1. job' = [job EXCEPT ![p].at = "alert"]
      BY <1>3 DEF StoreFinding, GoOn
    <2> QED BY <1>1, <1>2, <2>1
  <1>4. CASE Tells(p)
    <2>1. job' = [job EXCEPT ![p].at = "metric", ![p].metric = @ + 1]
      BY <1>4, TellsOf DEF NextMetric
    <2> QED BY <1>1, <1>2, <2>1
  <1>5. CASE ~ StoreFinding(p) /\ ~ Tells(p)
    <2>1. Silent(p)
      BY <1>5, JobTypes DEF JobStep
    <2> QED BY <1>1, <2>1 DEF Silent
  <1> QED BY <1>3, <1>4, <1>5

\* The steps of one evaluation.
LEMMA MediansOfStep ==
  ASSUME BoardInv, NEW p \in Proc, JobStep(p)
  PROVE  \A q \in Proc : MediansOf(q)'
  <1>1. /\ OutingTypeOK /\ job \in [Proc -> Jobs] /\ job[p] \in Jobs
        /\ \A q \in Proc : MediansOf(q)
        /\ UNCHANGED pitches /\ job' = [job EXCEPT ![p] = job'[p]]
    BY FramesOfJob DEF BoardInv, OutingInv, OutingTypeOK
  <1>2. \A q \in Proc \ {p} : job'[q] = job[q]
    BY <1>1
  <1>3. \A q \in Proc \ {p} : MediansOf(q)'
    BY <1>1, <1>2 DEF MediansOf
  <1>4. {"recompute", "drop", "types", "type", "metric", "alert", "sweep"} \subseteq At
    BY DEF At
  <1>5. CASE job'[p].at \in {"sweep", "recompute", "drop", "types"}
    <2>1. MediansOf(p)'
      BY <1>5 DEF MediansOf
    <2> QED BY <1>3, <2>1
  <1>6. CASE EndType(p)
    <2>1. /\ job[p].at = "metric" /\ job'[p].at = "type"
          /\ job'[p].session = job[p].session /\ job'[p].types = job[p].types
      BY <1>1, <1>4, <1>6, JobFields DEF EndType
    <2>2. MediansOf(p)'
      BY <1>1, <2>1 DEF MediansOf
    <2> QED BY <1>3, <2>2
  <1>7. CASE Unremarkable(p) \/ AlreadyFound(p) \/ StoreFinding(p) \/ Tells(p)
    <2>1. /\ job[p].at \in {"metric", "alert"} /\ job'[p].at \in {"metric", "alert"}
          /\ job'[p].session = job[p].session /\ job'[p].types = job[p].types
          /\ job'[p].type = job[p].type /\ job'[p].on = job[p].on
      BY <1>1, <1>4, <1>7, JobFields, TellsOf
         DEF Unremarkable, AlreadyFound, StoreFinding, Departing, Comparing
    <2>2. MediansOf(p)'
      BY <1>1, <2>1 DEF MediansOf
    <2> QED BY <1>3, <2>2
  <1>8. CASE ListTypes(p)
    <2> DEFINE enough == { t \in PitchType : CountOf(t, pitches[job[p].session]) >= MinPitches }
    <2>0. job' = [job EXCEPT ![p].at = "type", ![p].types = enough]
      BY <1>8 DEF ListTypes
    <2> HIDE DEF enough
    <2>1. /\ job'[p].at = "type" /\ job'[p].session = job[p].session
          /\ job'[p].types = enough
      BY <1>1, <2>0 DEF Jobs
    <2>2. MediansOf(p)'
      BY <1>1, <2>1 DEF MediansOf, enough
    <2> QED BY <1>3, <2>2
  <1>9. ASSUME NEW t \in PitchType, ReadMedians(p, t)
        PROVE  \A q \in Proc : MediansOf(q)'
    <2> DEFINE n == pitches[job[p].session]
    <2>0. /\ job[p].at = "type" /\ t \in job[p].types
          /\ job' = [job EXCEPT ![p].at = "metric", ![p].types = @ \ {t}, ![p].type = t,
                                ![p].on = n, ![p].metric = 1]
      BY <1>9 DEF ReadMedians
    <2>1. n \in Nat
      BY <1>1, <2>0 DEF BoardInv, OutingInv, JobsAreSet, OutingTypeOK
    <2> HIDE DEF n
    <2>2. /\ job'[p].at = "metric" /\ job'[p].session = job[p].session
          /\ job'[p].types = job[p].types \ {t} /\ job'[p].type = t
          /\ job'[p].on = n
      BY <1>1, <2>0 DEF Jobs
    <2>3. MediansOf(p)'
      <3>1. \A u \in job[p].types : CountOf(u, pitches[job[p].session]) >= MinPitches
        BY <1>1, <2>0 DEF MediansOf
      <3>2. n = pitches[job[p].session] /\ n <= n
        BY <2>1 DEF n
      <3>3. CountOf(t, n) >= MinPitches
        BY <2>0, <3>1, <3>2
      <3> QED BY <1>1, <2>2, <3>1, <3>2, <3>3 DEF MediansOf
    <2> QED BY <1>3, <2>3
  <1>10. CASE \/ \E s \in Session : Take(p, s)
              \/ Recompute(p) \/ RecomputeFails(p) \/ Drop(p) \/ DropFails(p)
              \/ EndEvaluation(p) \/ EvaluationFails(p) \/ EvaluatorDies(p)
    <2>1. job'[p].at \in {"sweep", "recompute", "drop", "types"}
      BY <1>1, <1>4, <1>10, JobFields
         DEF Take, Recompute, RecomputeFails, Drop, DropFails, EndEvaluation,
             EvaluationFails, EvaluatorDies, NoJob, Jobs
    <2> QED BY <1>5, <2>1
  <1> QED BY <1>6, <1>7, <1>8, <1>9, <1>10 DEF JobStep

\* Every step of the outing is of one of these kinds.
LEMMA KindsOfStep ==
  ASSUME OutingNext
  PROVE  \/ \E s \in Session : StorePitch(s)
         \/ \E p \in Proc : JobStep(p)
         \/ UNCHANGED <<pitches, job>>
  <1>1. ASSUME NEW s \in Session,
               TellStep(s) \/ CountFails(s) \/ GiveUpTelling(s)
                 \/ ExpireKey(s) \/ CommitMark(s) \/ CloseSession(s)
        PROVE  UNCHANGED <<pitches, job>>
    BY <1>1 DEF TellStep, CountPitch, PublishPitch, CountFails, GiveUpTelling, ExpireKey,
                CommitMark, CloseSession, dbVars, evalVars
  <1>2. ASSUME NEW p \in Proc, NEW s \in Session,
               Mark(p, s) \/ MovePartition(p, s) \/ GoQuiet(p, s)
        PROVE  UNCHANGED <<pitches, job>>
    BY <1>2 DEF Mark, MovePartition, GoQuiet, dbVars, evalVars
  <1>3. ASSUME NEW p \in Proc, Sweep(p) PROVE UNCHANGED <<pitches, job>>
    BY <1>3 DEF Sweep, dbVars
  <1>4. ASSUME NEW k \in Key, Acknowledge(k) PROVE UNCHANGED <<pitches, job>>
    BY <1>4 DEF Acknowledge, evalVars
  <1> QED BY <1>1, <1>2, <1>3, <1>4 DEF OutingNext, SweepStep, JobStep, Tells

LEMMA InitBoard == OutingInit => BoardInv
  <1>1. ASSUME OutingInit, NEW p \in Proc PROVE MediansOf(p)
    BY <1>1 DEF OutingInit, NoJob, MediansOf
  <1> QED BY <1>1, InitOuting DEF BoardInv

LEMMA NextBoard == BoardInv /\ [OutingNext]_outingVars => BoardInv'
  <1> SUFFICES ASSUME BoardInv, [OutingNext]_outingVars PROVE BoardInv'
    OBVIOUS
  <1>1. OutingInv'
    BY NextOuting DEF BoardInv
  <1>2. CASE UNCHANGED <<pitches, job>>
    BY <1>1, <1>2 DEF BoardInv, MediansOf
  <1>3. ASSUME NEW s \in Session, StorePitch(s) PROVE BoardInv'
    BY <1>1, <1>3, MediansOfMore DEF BoardInv
  <1>4. ASSUME NEW p \in Proc, JobStep(p) PROVE BoardInv'
    <2>1. \A q \in Proc : MediansOf(q)'
      BY <1>4, MediansOfStep
    <2> QED BY <1>1, <2>1 DEF BoardInv
  <1>5. CASE UNCHANGED outingVars
    BY <1>2, <1>5 DEF outingVars, dbVars, evalVars
  <1> QED BY <1>2, <1>3, <1>4, <1>5, KindsOfStep

LEMMA InitOnBoard == OutingInit => Board!Init
  BY DEF OutingInit, Board!Init

\* Every step of the outing is a step of the board, or none.
LEMMA StepsOnBoard ==
  ASSUME BoardInv, [OutingNext]_outingVars
  PROVE  [Board!Next]_(Board!boardVars)
  <1>1. /\ OutingInv /\ OutingTypeOK /\ job \in [Proc -> Jobs]
        /\ findings \in [Key -> 0..MaxPitches] /\ alerts \in [Key -> Nat]
        /\ calls \in [Key -> Nat]
    BY DEF BoardInv, OutingInv, OutingTypeOK
  <1>2. ASSUME NEW s \in Session, StorePitch(s) PROVE Board!Next
    BY <1>2 DEF StorePitch, Board!Next, Board!Throw
  <1>3. ASSUME NEW p \in Proc, StoreFinding(p) PROVE Board!Next
    <2> DEFINE k == FindingOf(p)
    <2>1. /\ job[p].at = "metric" /\ job[p].metric <= Metrics /\ findings[k] = 0
          /\ job[p].on \in Departs[<<job[p].type, job[p].metric>>]
          /\ findings' = [findings EXCEPT ![k] = job[p].on]
          /\ UNCHANGED <<pitches, alerts, calls, acknowledged>>
      BY <1>3 DEF StoreFinding, Departing, Comparing
    <2>2. job[p].session \in Session /\ job[p].type \in PitchType /\ job[p].metric \in Metric
      BY <1>1, <2>1 DEF OutingInv, JobsAreSet, Jobs, Metric
    <2>3. k \in Key /\ k[1] = job[p].session /\ k[2] = job[p].type /\ k[3] = job[p].metric
      BY <2>2 DEF FindingOf, Key
    <2>4. job[p].on <= pitches[job[p].session] /\ CountOf(job[p].type, job[p].on) >= MinPitches
      BY <2>1 DEF BoardInv, MediansOf
    <2> HIDE DEF k
    <2>5. job[p].on \in ShownAt(k)
      BY <2>1, <2>3, <2>4 DEF ShownAt
    <2>6. Board!Post(k)
      BY <2>1, <2>3, <2>4, <2>5 DEF Board!Post
    <2> QED BY <2>3, <2>6 DEF Board!Next
  <1>4. ASSUME NEW p \in Proc, Tells(p) PROVE Board!Next
    <2> DEFINE k == FindingOf(p)
    <2>0. PICK n \in 0..WriteAttempts : Told(p, n)
      BY <1>4, TellsBy
    <2>1. /\ job[p].at = "alert"
          /\ calls' = [calls EXCEPT ![k] = @ + 1]
          /\ alerts' = [alerts EXCEPT ![k] = @ + n]
          /\ UNCHANGED <<pitches, findings, acknowledged>>
      BY <1>4, <2>0, TellsOf DEF Told, dbVars
    <2>2. k \in Key
      BY <1>1, <2>1 DEF OutingInv, JobsAreSet, FindingOf, Key
    <2>3. findings[k] # 0 /\ calls[k] = 0
      BY <1>1, <2>1 DEF OutingInv, TellersAreAlone
    <2>4. alerts[k] = 0
      BY <1>1, <2>2, <2>3 DEF OutingInv, AlertsAreFindings
    <2> HIDE DEF k
    <2>5. calls' = [calls EXCEPT ![k] = 1] /\ alerts' = [alerts EXCEPT ![k] = n]
      <3>1. calls[k] + 1 = 1 /\ alerts[k] + n = n
        BY <2>3, <2>4, OutingAssumption
      <3> QED BY <2>1, <3>1
    <2>6. Board!Announce(k)
      BY <2>1, <2>3, <2>5 DEF Board!Announce
    <2> QED BY <2>2, <2>6 DEF Board!Next
  <1>5. ASSUME NEW k \in Key, Acknowledge(k) PROVE Board!Next
    BY <1>5 DEF Acknowledge, Board!Next, Board!Acknowledge
  <1>6. ASSUME NEW p \in Proc, JobStep(p), ~ StoreFinding(p), ~ Tells(p)
        PROVE  UNCHANGED Board!boardVars
    <2>1. Silent(p)
      BY <1>1, <1>6, JobTypes DEF JobStep
    <2>2. UNCHANGED pitches
      BY <1>1, <1>6, FramesOfJob
    <2> QED BY <2>1, <2>2 DEF Silent, Board!boardVars
  <1>7. CASE /\ OutingNext
             /\ \A s \in Session : ~ StorePitch(s)
             /\ \A p \in Proc : ~ JobStep(p)
    <2>1. UNCHANGED <<pitches, job>>
      BY <1>7, KindsOfStep
    <2>2. \A p \in Proc : ~ (StoreFinding(p) \/ Tells(p))
      BY <1>7 DEF JobStep
    <2>3. \/ UNCHANGED tellingVars
          \/ \E p \in Proc : Silent(p)
          \/ \E k \in Key : Acknowledge(k)
      BY <1>1, <1>7, <2>2, StepsOfOuting
    <2>4. CASE UNCHANGED tellingVars
      BY <2>1, <2>4 DEF tellingVars, Board!boardVars
    <2>5. CASE \E p \in Proc : Silent(p)
      BY <2>1, <2>5 DEF Silent, Board!boardVars
    <2> QED BY <1>5, <2>3, <2>4, <2>5
  <1>8. CASE UNCHANGED outingVars
    BY <1>8 DEF outingVars, dbVars, Board!boardVars
  <1> QED BY <1>2, <1>3, <1>4, <1>6, <1>7, <1>8

\* The evaluators of any processes, with any crashes, rebalances and failed
\* calls, implement the board: a finding is stored once and on pitches that
\* show it, announced by one call and not before, and never touched again
\* (anomaly_consumer.go, evaluatePitchType and store_finding).
THEOREM EvaluatorsAreBoard == OutingSpec => ImplementsBoard
  <1>1. BoardInv /\ [OutingNext]_outingVars => [Board!Next]_(Board!boardVars)
    BY StepsOnBoard
  <1> QED BY InitBoard, NextBoard, InitOnBoard, <1>1, PTL
         DEF OutingSpec, ImplementsBoard, Board!Spec

----------------------------------------------------------------------------
(* An outing a process is done with is judged.                             *)

\* The process took s as evaluated with all the pitches it has now, and comes
\* to it, or has come to it, without a failed call.
TakenAsIs(p, s) ==
  /\ watch[p][s] = "evaluated"
  /\ s \notin due[p] /\ s \notin spoiled
  /\ pitches[s] = swept[p][s]

InHand(p, s) == job[p].at # "sweep" /\ job[p].session = s

\* What the evaluation in hand has done of Judged(s, pitches[s]).
JudgedSoFar(p, s) ==
  /\ job[p].at # "recompute" => totals[s] >= pitches[s]
  /\ job[p].at \in {"type", "metric", "alert"} =>
       \A t \in PitchType \ job[p].types, m \in Metric :
         /\ job[p].at = "type" \/ t # job[p].type \/ m < job[p].metric
         /\ CountOf(t, pitches[s]) >= MinPitches
         /\ pitches[s] \in Departs[<<t, m>>]
         => findings[<<s, t, m>>] # 0
  /\ job[p].at \in {"metric", "alert"} => job[p].on = pitches[s]

Judging(p, s) ==
  /\ swept[p][s] <= pitches[s]
  /\ TakenAsIs(p, s) =>
       /\ InHand(p, s) => JudgedSoFar(p, s)
       /\ ~ InHand(p, s) => Judged(s, pitches[s])

JudgingInv == OutingInv /\ \A p \in Proc, s \in Session : Judging(p, s)

\* What no step takes back.
Onward(s) ==
  /\ pitches[s] <= pitches'[s]
  /\ totals'[s] \in {totals[s], pitches[s]}
  /\ \A t \in PitchType, m \in Metric : findings[<<s, t, m>>] # 0 => findings'[<<s, t, m>>] # 0
  /\ spoiled \subseteq spoiled'

\* Which rows of an outing a step writes.
LEMMA RowsOfStep ==
  ASSUME OutingNext
  PROVE  /\ \/ UNCHANGED totals
            \/ \E r \in Session : CloseSession(r)
            \/ \E p \in Proc : Recompute(p)
         /\ \/ UNCHANGED findings
            \/ \E p \in Proc : StoreFinding(p)
         /\ spoiled \subseteq spoiled'
  <1>1. ASSUME NEW r \in Session,
               \/ StorePitch(r) \/ TellStep(r) \/ CountFails(r) \/ GiveUpTelling(r)
               \/ ExpireKey(r) \/ CommitMark(r)
        PROVE  UNCHANGED <<totals, findings, spoiled>>
    BY <1>1 DEF TellStep, StorePitch, CountPitch, PublishPitch, CountFails, GiveUpTelling,
                ExpireKey, CommitMark, dbVars
  <1>2. ASSUME NEW r \in Session, CloseSession(r) PROVE UNCHANGED <<findings, spoiled>>
    BY <1>2 DEF CloseSession
  <1>3. ASSUME NEW p \in Proc, NEW r \in Session,
               Mark(p, r) \/ MovePartition(p, r) \/ GoQuiet(p, r) \/ Take(p, r)
        PROVE  UNCHANGED <<totals, findings, spoiled>>
    BY <1>3 DEF Mark, MovePartition, GoQuiet, Take, dbVars
  <1>4. ASSUME NEW p \in Proc, NEW t \in PitchType, ReadMedians(p, t)
        PROVE  UNCHANGED <<totals, findings, spoiled>>
    BY <1>4 DEF ReadMedians, dbVars
  <1>5. ASSUME NEW p \in Proc,
               \/ Sweep(p) \/ Drop(p) \/ ListTypes(p) \/ EndEvaluation(p) \/ EndType(p)
               \/ Tells(p) \/ Unremarkable(p) \/ AlreadyFound(p) \/ DropFails(p)
        PROVE  UNCHANGED <<totals, findings, spoiled>>
    BY <1>5, TellsOf DEF Sweep, Drop, ListTypes, EndEvaluation, EndType, Unremarkable,
                         AlreadyFound, DropFails, dbVars
  <1>6. ASSUME NEW p \in Proc, Recompute(p) PROVE UNCHANGED <<findings, spoiled>>
    BY <1>6 DEF Recompute
  <1>7. ASSUME NEW p \in Proc, StoreFinding(p) PROVE UNCHANGED <<totals, spoiled>>
    BY <1>7 DEF StoreFinding
  <1>8. ASSUME NEW p \in Proc, RecomputeFails(p) \/ EvaluationFails(p) \/ EvaluatorDies(p)
        PROVE  UNCHANGED <<totals, findings>> /\ spoiled \subseteq spoiled'
    BY <1>8 DEF RecomputeFails, EvaluationFails, EvaluatorDies, dbVars
  <1>9. ASSUME NEW k \in Key, Acknowledge(k) PROVE UNCHANGED <<totals, findings, spoiled>>
    BY <1>9 DEF Acknowledge
  <1> QED BY <1>1, <1>2, <1>3, <1>4, <1>5, <1>6, <1>7, <1>8, <1>9
         DEF OutingNext, SweepStep, Tells

LEMMA OutingGoesOn ==
  ASSUME OutingInv, OutingNext, NEW s \in Session
  PROVE  Onward(s)
  <1>1. /\ pitches \in [Session -> 0..MaxPitches] /\ MaxPitches \in Nat
        /\ totals \in [Session -> 0..MaxPitches] /\ pitches[s] <= pitches[s]
    BY OutingAssumption DEF OutingInv, OutingTypeOK
  <1>2. \/ UNCHANGED pitches
        \/ \E r \in Session : StorePitch(r)
    BY KindsOfStep, FramesOfJob
  <1>3. pitches[s] <= pitches'[s]
    BY <1>1, <1>2 DEF StorePitch
  <1>4. \/ UNCHANGED totals
        \/ \E r \in Session : CloseSession(r)
        \/ \E p \in Proc : Recompute(p)
    BY RowsOfStep
  <1>5. totals'[s] \in {totals[s], pitches[s]}
    <2>1. CASE \E p \in Proc : Recompute(p)
      BY <1>1, <2>1 DEF Recompute
    <2>2. CASE \E r \in Session : CloseSession(r)
      BY <1>1, <2>2 DEF CloseSession
    <2> QED BY <1>4, <2>1, <2>2
  <1>6. \/ UNCHANGED findings
        \/ \E p \in Proc : StoreFinding(p)
    BY RowsOfStep
  <1>7. \A t \in PitchType, m \in Metric :
          findings[<<s, t, m>>] # 0 => findings'[<<s, t, m>>] # 0
    <2>1. ASSUME NEW p \in Proc, StoreFinding(p), NEW k \in Key, findings[k] # 0
          PROVE  findings'[k] # 0
      <3>1. findings[FindingOf(p)] = 0
        BY <2>1 DEF StoreFinding
      <3>2. /\ findings' = [findings EXCEPT ![FindingOf(p)] = job[p].on]
            /\ findings \in [Key -> 0..MaxPitches]
        BY <2>1 DEF StoreFinding, OutingInv, OutingTypeOK
      <3> QED BY <2>1, <3>1, <3>2
    <2> QED BY <1>6, <2>1 DEF Key
  <1>8. spoiled \subseteq spoiled'
    BY RowsOfStep
  <1> QED BY <1>3, <1>5, <1>7, <1>8 DEF Onward

\* What was judged stays judged until the outing goes on.
LEMMA JudgedStands ==
  ASSUME OutingTypeOK, NEW s \in Session, Onward(s), pitches'[s] = pitches[s],
         Judged(s, pitches[s])
  PROVE  Judged(s, pitches[s])'
  BY DEF OutingTypeOK, Onward, Judged

\* An evaluation of another process, or of another outing, takes nothing back.
LEMMA JudgingKept ==
  ASSUME OutingTypeOK, OutingTypeOK', NEW p \in Proc, NEW s \in Session,
         Judging(p, s), Onward(s),
         swept'[p][s] = swept[p][s],
         watch'[p][s] = "evaluated" /\ s \notin due'[p] =>
           watch[p][s] = "evaluated" /\ s \notin due[p],
         job'[p] = job[p] \/ (~ InHand(p, s) /\ ~ InHand(p, s)')
  PROVE  Judging(p, s)'
  <1>1. /\ pitches[s] \in Nat /\ pitches'[s] \in Nat /\ swept[p][s] \in Nat
        /\ totals[s] \in Nat
        /\ pitches[s] <= pitches'[s] /\ swept[p][s] <= pitches[s]
    BY OutingAssumption DEF OutingTypeOK, Onward, Judging
  <1>2. swept'[p][s] <= pitches'[s]
    BY <1>1
  <1>3. ASSUME TakenAsIs(p, s)' PROVE TakenAsIs(p, s) /\ pitches'[s] = pitches[s]
    <2>1. pitches'[s] = pitches[s] /\ pitches[s] = swept[p][s]
      BY <1>1, <1>3 DEF TakenAsIs
    <2> QED BY <1>3, <2>1 DEF TakenAsIs, Onward
  <1>4. ASSUME TakenAsIs(p, s)', ~ InHand(p, s)' PROVE Judged(s, pitches[s])'
    <2>1. ~ InHand(p, s)
      BY <1>4 DEF InHand
    <2> QED BY <1>3, <1>4, <2>1, JudgedStands DEF Judging
  <1>5. ASSUME TakenAsIs(p, s)', InHand(p, s)' PROVE JudgedSoFar(p, s)'
    <2>1. job'[p] = job[p] /\ InHand(p, s)
      BY <1>5 DEF InHand
    <2>2. JudgedSoFar(p, s) /\ pitches'[s] = pitches[s]
      BY <1>3, <1>5, <2>1 DEF Judging
    <2> QED BY <1>1, <2>1, <2>2 DEF JudgedSoFar, Onward
  <1> QED BY <1>2, <1>4, <1>5 DEF Judging

\* The steps of a process's memory.
LEMMA JudgingWatch ==
  ASSUME JudgingInv, OutingTypeOK', NEW p \in Proc, NEW s \in Session,
         Mark(p, s) \/ GoQuiet(p, s) \/ Sweep(p)
  PROVE  \A q \in Proc, r \in Session : Judging(q, r)'
  <1> SUFFICES ASSUME NEW q \in Proc, NEW r \in Session, Onward(r) PROVE Judging(q, r)'
    BY OutingGoesOn DEF JudgingInv, OutingNext, SweepStep
  <1>0. job' = job /\ pitches' = pitches
    BY DEF Mark, GoQuiet, Sweep, dbVars
  <1>1. /\ OutingTypeOK /\ Judging(q, r) /\ job' = job /\ pitches' = pitches
        /\ pitches[r] \in Nat
        /\ watch \in [Proc -> [Session -> Watch]]
        /\ swept \in [Proc -> [Session -> 0..MaxPitches]] /\ due \in [Proc -> SUBSET Session]
    BY <1>0 DEF JudgingInv, OutingInv, OutingTypeOK
  <1>2. CASE Mark(p, s)
    <2>1. /\ watch' = [watch EXCEPT ![p][s] = "fresh"]
          /\ swept' = [swept EXCEPT ![p][s] = 0] /\ due' = due
      BY <1>2 DEF Mark
    <2>2. CASE q = p /\ r = s
      <3>1. watch'[q][r] = "fresh" /\ swept'[q][r] = 0
        BY <1>1, <2>1, <2>2
      <3> QED BY <1>1, <3>1 DEF Judging, TakenAsIs
    <2>3. CASE ~ (q = p /\ r = s)
      <3>1. watch'[q][r] = watch[q][r] /\ swept'[q][r] = swept[q][r]
        BY <1>1, <2>1, <2>3
      <3> QED BY <1>1, <2>1, <3>1, JudgingKept
    <2> QED BY <2>2, <2>3
  <1>3. CASE GoQuiet(p, s)
    <2>1. watch' = [watch EXCEPT ![p][s] = "idle"] /\ UNCHANGED <<swept, due>>
      BY <1>3 DEF GoQuiet
    <2>2. watch'[q][r] = "evaluated" => watch[q][r] = "evaluated"
      BY <1>1, <2>1
    <2> QED BY <1>1, <2>1, <2>2, JudgingKept
  <1>4. CASE Sweep(p)
    <2>1. /\ due' = [due EXCEPT ![p] = Quiet(p)] /\ due[p] = {}
          /\ watch' = [watch EXCEPT ![p] =
                         [x \in Session |-> IF x \in Quiet(p) THEN "evaluated" ELSE @[x]]]
          /\ swept' = [swept EXCEPT ![p] =
                         [x \in Session |-> IF x \in Quiet(p) THEN pitches[x] ELSE @[x]]]
      BY <1>4 DEF Sweep
    <2>2. CASE q = p /\ r \in Quiet(p)
      <3>1. r \in due'[q] /\ swept'[q][r] = pitches[r]
        BY <1>1, <2>1, <2>2
      <3> QED BY <1>1, <3>1 DEF Judging, TakenAsIs
    <2>3. CASE ~ (q = p /\ r \in Quiet(p))
      <3>1. /\ watch'[q][r] = watch[q][r] /\ swept'[q][r] = swept[q][r]
            /\ r \notin due'[q] => r \notin due[q]
        BY <1>1, <2>1, <2>3
      <3> QED BY <1>1, <3>1, JudgingKept
    <2> QED BY <2>2, <2>3
  <1> QED BY <1>2, <1>3, <1>4

\* The next step of an evaluation that has judged so far.
LEMMA JudgesOn ==
  ASSUME JudgingInv, NEW p \in Proc, JobStep(p), ~ EvaluatorDies(p),
         NEW r \in Session, InHand(p, r), Onward(r), r \notin spoiled',
         JudgedSoFar(p, r)
  PROVE  /\ InHand(p, r)' => JudgedSoFar(p, r)'
         /\ ~ InHand(p, r)' => Judged(r, pitches[r])'
  <1> DEFINE n == pitches[r]
             goal == /\ InHand(p, r)' => JudgedSoFar(p, r)'
                     /\ ~ InHand(p, r)' => Judged(r, pitches[r])'
  <1>1. /\ OutingTypeOK /\ job \in [Proc -> Jobs] /\ job[p] \in Jobs
        /\ pitches' = pitches /\ n \in Nat /\ totals[r] \in Nat /\ totals \in [Session -> Nat]
        /\ job[p].at # "sweep" /\ job[p].session = r
    <2>1. OutingInv /\ OutingTypeOK /\ MaxPitches \in Nat
      BY OutingAssumption DEF JudgingInv, OutingInv
    <2>2. pitches' = pitches
      BY <2>1, FramesOfJob
    <2> QED BY <2>1, <2>2 DEF OutingTypeOK, InHand
  <1>2. {"recompute", "drop", "types", "type", "metric", "alert", "sweep"} \subseteq At
    BY DEF At
  <1>3. totals[r] >= n => totals'[r] >= n
    BY <1>1 DEF Onward
  <1>4. \A t \in PitchType, m \in Metric :
          findings[<<r, t, m>>] # 0 => findings'[<<r, t, m>>] # 0
    BY DEF Onward
  <1>5. /\ job[p].at # "recompute" => totals[r] >= n
        /\ job[p].at \in {"type", "metric", "alert"} =>
             \A t \in PitchType \ job[p].types, m \in Metric :
               /\ job[p].at = "type" \/ t # job[p].type \/ m < job[p].metric
               /\ CountOf(t, n) >= MinPitches
               /\ n \in Departs[<<t, m>>]
               => findings[<<r, t, m>>] # 0
        /\ job[p].at \in {"metric", "alert"} => job[p].on = n
    BY DEF JudgedSoFar
  <1>6. CASE Recompute(p)
    <2>1. totals'[r] = n /\ job'[p].at = "drop"
      BY <1>1, <1>2, <1>6, JobFields DEF Recompute
    <2>2. InHand(p, r)'
      BY <1>1, <1>2, <1>6, <2>1, JobFields DEF Recompute, InHand
    <2> QED BY <1>1, <2>1, <2>2 DEF JudgedSoFar
  <1>7. CASE RecomputeFails(p) \/ EvaluationFails(p)
    BY <1>1, <1>7 DEF RecomputeFails, EvaluationFails
  <1>8. CASE Drop(p) \/ DropFails(p)
    <2>1. /\ job[p].at = "drop" /\ job'[p].at = "types" /\ job'[p].session = r
      BY <1>1, <1>2, <1>8, JobFields DEF Drop, DropFails
    <2> QED BY <1>1, <1>3, <1>5, <2>1 DEF JudgedSoFar, InHand
  <1>9. CASE ListTypes(p)
    <2> DEFINE enough == { t \in PitchType : CountOf(t, n) >= MinPitches }
    <2>1. /\ job[p].at = "types"
          /\ job' = [job EXCEPT ![p].at = "type", ![p].types = enough]
      BY <1>1, <1>9 DEF ListTypes
    <2>2. \A t \in PitchType \ enough : ~ (CountOf(t, n) >= MinPitches)
      OBVIOUS
    <2> HIDE DEF enough
    <2>3. job'[p].at = "type" /\ job'[p].session = r /\ job'[p].types = enough
      BY <1>1, <2>1 DEF Jobs
    <2> QED BY <1>1, <1>3, <1>5, <2>1, <2>2, <2>3 DEF JudgedSoFar, InHand
  <1>10. ASSUME NEW u \in PitchType, ReadMedians(p, u) PROVE goal
    <2>1. /\ job[p].at = "type"
          /\ job' = [job EXCEPT ![p].at = "metric", ![p].types = @ \ {u}, ![p].type = u,
                                ![p].on = n, ![p].metric = 1]
      BY <1>1, <1>10 DEF ReadMedians
    <2> HIDE DEF n
    <2>2. /\ job'[p].at = "metric" /\ job'[p].session = r
          /\ job'[p].types = job[p].types \ {u} /\ job'[p].type = u
          /\ job'[p].on = n /\ job'[p].metric = 1
      BY <1>1, <2>1 DEF Jobs
    <2>3. ASSUME NEW t \in PitchType \ (job[p].types \ {u}), NEW m \in Metric,
                 t # u \/ m < 1, CountOf(t, n) >= MinPitches, n \in Departs[<<t, m>>]
          PROVE  findings'[<<r, t, m>>] # 0
      <3>1. t # u /\ t \notin job[p].types
        BY <2>3 DEF Metric
      <3> QED BY <1>4, <1>5, <2>1, <2>3, <3>1
    <2>4. JudgedSoFar(p, r)'
      BY <1>1, <1>3, <1>5, <2>1, <2>2, <2>3 DEF JudgedSoFar, n
    <2> QED BY <2>2, <2>4 DEF InHand
  <1>11. CASE EndEvaluation(p)
    <2>1. job[p].at = "type" /\ job[p].types = {} /\ job'[p] = NoJob
      BY <1>1, <1>11 DEF EndEvaluation
    <2>2. Judged(r, pitches[r])
      BY <1>5, <2>1 DEF Judged
    <2>3. Judged(r, pitches[r])'
      BY <1>1, <2>2, JudgedStands
    <2> QED BY <2>1, <2>3 DEF NoJob, InHand
  <1>12. CASE EndType(p)
    <2>1. /\ job[p].at = "metric" /\ job[p].metric > Metrics /\ job'[p].at = "type"
          /\ job'[p].session = r /\ job'[p].types = job[p].types
      BY <1>1, <1>2, <1>12, JobFields DEF EndType
    <2>2. \A m \in Metric : m < job[p].metric
      BY <1>1, <2>1, OutingAssumption DEF Metric, Jobs
    <2>3. \A t \in PitchType \ job[p].types, m \in Metric :
            CountOf(t, n) >= MinPitches /\ n \in Departs[<<t, m>>]
              => findings'[<<r, t, m>>] # 0
      BY <1>4, <1>5, <2>1, <2>2
    <2>4. JudgedSoFar(p, r)'
      BY <1>1, <1>3, <1>5, <2>1, <2>3 DEF JudgedSoFar
    <2> QED BY <2>1, <2>4 DEF InHand
  <1>13. CASE Unremarkable(p) \/ AlreadyFound(p) \/ Tells(p)
    <2>1. /\ job[p].at \in {"metric", "alert"} /\ job'[p].at = "metric"
          /\ job'[p].session = r /\ job'[p].types = job[p].types
          /\ job'[p].type = job[p].type /\ job'[p].on = job[p].on
          /\ job'[p].metric = job[p].metric + 1
      BY <1>1, <1>2, <1>13, JobFields, TellsOf
         DEF Unremarkable, AlreadyFound, Departing, Comparing
    <2>2. job[p].metric \in Nat /\ job[p].on = n
      BY <1>1, <1>5, <2>1, OutingAssumption DEF Jobs
    <2>3. n \in Departs[<<job[p].type, job[p].metric>>]
            => findings[<<r, job[p].type, job[p].metric>>] # 0
      <3>1. CASE Unremarkable(p)
        BY <2>2, <3>1 DEF Unremarkable, Departing
      <3>2. CASE AlreadyFound(p)
        BY <1>1, <3>2 DEF AlreadyFound, FindingOf
      <3>3. CASE Tells(p)
        BY <1>1, <3>3, TellsOf DEF JudgingInv, OutingInv, TellersAreAlone, FindingOf
      <3> QED BY <1>13, <3>1, <3>2, <3>3
    <2>4. \A m \in Metric : m < job[p].metric + 1 => m < job[p].metric \/ m = job[p].metric
      BY <2>2 DEF Metric
    <2>5. ASSUME NEW t \in PitchType \ job[p].types, NEW m \in Metric,
                 t # job[p].type \/ m < job[p].metric + 1,
                 CountOf(t, n) >= MinPitches, n \in Departs[<<t, m>>]
          PROVE  findings'[<<r, t, m>>] # 0
      <3>1. CASE t # job[p].type \/ m < job[p].metric
        BY <1>4, <1>5, <2>1, <2>5, <3>1
      <3>2. CASE t = job[p].type /\ m = job[p].metric
        BY <1>4, <2>3, <2>5, <3>2
      <3> QED BY <2>4, <2>5, <3>1, <3>2
    <2>6. JudgedSoFar(p, r)'
      BY <1>1, <1>3, <1>5, <2>1, <2>2, <2>5 DEF JudgedSoFar
    <2> QED BY <2>1, <2>6 DEF InHand
  <1>14. CASE StoreFinding(p)
    <2>1. /\ job[p].at = "metric" /\ job'[p].at = "alert"
          /\ job'[p].session = r /\ job'[p].types = job[p].types
          /\ job'[p].type = job[p].type /\ job'[p].on = job[p].on
          /\ job'[p].metric = job[p].metric
      BY <1>1, <1>2, <1>14, JobFields DEF StoreFinding, Departing, Comparing
    <2>2. JudgedSoFar(p, r)'
      BY <1>1, <1>3, <1>4, <1>5, <2>1 DEF JudgedSoFar
    <2> QED BY <2>1, <2>2 DEF InHand
  <1>15. ASSUME NEW s \in Session, Take(p, s) PROVE goal
    BY <1>1, <1>15 DEF Take
  <1> QED BY <1>6, <1>7, <1>8, <1>9, <1>10, <1>11, <1>12, <1>13, <1>14, <1>15 DEF JobStep

\* The steps of one evaluation, and the death of its process.
LEMMA JudgingStep ==
  ASSUME JudgingInv, OutingTypeOK', NEW p \in Proc, JobStep(p)
  PROVE  \A q \in Proc, r \in Session : Judging(q, r)'
  <1> SUFFICES ASSUME NEW q \in Proc, NEW r \in Session, Onward(r) PROVE Judging(q, r)'
    BY OutingGoesOn DEF JudgingInv, OutingNext, SweepStep, JobStep, Tells
  <1>1. /\ OutingInv /\ OutingTypeOK /\ Judging(q, r)
        /\ pitches' = pitches /\ pitches[r] \in Nat
        /\ job \in [Proc -> Jobs] /\ job' = [job EXCEPT ![p] = job'[p]]
        /\ watch \in [Proc -> [Session -> Watch]]
        /\ swept \in [Proc -> [Session -> 0..MaxPitches]] /\ due \in [Proc -> SUBSET Session]
    <2>1. OutingInv /\ OutingTypeOK
      BY DEF JudgingInv, OutingInv
    <2>2. pitches' = pitches /\ job' = [job EXCEPT ![p] = job'[p]]
      BY <2>1, FramesOfJob
    <2> QED BY <2>1, <2>2 DEF JudgingInv, OutingTypeOK
  <1>2. q # p => job'[q] = job[q]
    BY <1>1
  <1>3. CASE EvaluatorDies(p)
    <2>1. /\ watch' = [watch EXCEPT ![p] = [s \in Session |-> "absent"]]
          /\ swept' = [swept EXCEPT ![p] = [s \in Session |-> 0]]
          /\ due' = [due EXCEPT ![p] = {}]
      BY <1>3 DEF EvaluatorDies
    <2>2. CASE q = p
      <3>1. watch'[q][r] = "absent" /\ swept'[q][r] = 0
        BY <1>1, <2>1, <2>2
      <3> QED BY <1>1, <3>1 DEF Judging, TakenAsIs
    <2>3. CASE q # p
      <3>1. watch'[q] = watch[q] /\ swept'[q] = swept[q] /\ due'[q] = due[q]
        BY <1>1, <2>1, <2>3
      <3> QED BY <1>1, <1>2, <2>3, <3>1, JudgingKept
    <2> QED BY <2>2, <2>3
  <1>4. ASSUME NEW s \in Session, Take(p, s) PROVE Judging(q, r)'
    <2>1. /\ job[p].at = "sweep" /\ UNCHANGED <<watch, swept>>
          /\ due' = [due EXCEPT ![p] = @ \ {s}]
          /\ job' = [job EXCEPT ![p].at = "recompute", ![p].session = s]
      BY <1>4 DEF Take
    <2>2. job'[p].at = "recompute" /\ job'[p].session = s
      BY <1>1, <2>1 DEF Jobs
    <2>3. CASE q = p /\ r = s
      <3>1. InHand(p, s)' /\ JudgedSoFar(p, s)'
        BY <2>2 DEF InHand, JudgedSoFar
      <3>2. swept'[q][r] <= pitches'[r]
        BY <1>1, <2>1 DEF Judging
      <3> QED BY <2>3, <3>1, <3>2 DEF Judging
    <2>4. CASE q = p /\ r # s
      <3>1. ~ InHand(q, r) /\ ~ InHand(q, r)'
        BY <2>1, <2>2, <2>4 DEF InHand
      <3>2. r \notin due'[q] => r \notin due[q]
        BY <1>1, <2>1, <2>4
      <3> QED BY <1>1, <2>1, <3>1, <3>2, JudgingKept
    <2>5. CASE q # p
      <3>1. due'[q] = due[q]
        BY <1>1, <2>1, <2>5
      <3> QED BY <1>1, <1>2, <2>1, <2>5, <3>1, JudgingKept
    <2> QED BY <2>3, <2>4, <2>5
  <1>5. CASE ~ EvaluatorDies(p) /\ \A s \in Session : ~ Take(p, s)
    <2>1. UNCHANGED <<watch, due, swept>> /\ job[p].at # "sweep"
      BY <1>5, TellsOf
         DEF JobStep, ReadMedians, Recompute, RecomputeFails, Drop, DropFails, ListTypes,
             EndEvaluation, EndType, Unremarkable, AlreadyFound, StoreFinding,
             EvaluationFails, Departing, Comparing
    <2>2. job'[p].session = job[p].session \/ job'[p].at = "sweep"
      <3>1. {"recompute", "drop", "types", "type", "metric", "alert", "sweep"} \subseteq At
        BY DEF At
      <3>2. ASSUME NEW t \in PitchType, ReadMedians(p, t)
            PROVE  job'[p].session = job[p].session
        BY <1>1, <3>2 DEF ReadMedians, Jobs
      <3>3. ASSUME ListTypes(p) PROVE job'[p].session = job[p].session
        BY <1>1, <3>3 DEF ListTypes, Jobs
      <3>4. ASSUME EndEvaluation(p) \/ EvaluationFails(p) PROVE job'[p].at = "sweep"
        BY <1>1, <3>4 DEF EndEvaluation, EvaluationFails, NoJob
      <3> QED BY <1>1, <1>5, <3>1, <3>2, <3>3, <3>4, JobFields, TellsOf
              DEF JobStep, Recompute, RecomputeFails, Drop, DropFails, EndType,
                  Unremarkable, AlreadyFound, StoreFinding
    <2>3. CASE q = p /\ InHand(p, r)
      <3>1. swept'[q][r] <= pitches'[r]
        BY <1>1, <2>1 DEF Judging
      <3>2. ASSUME TakenAsIs(p, r)'
            PROVE  /\ InHand(p, r)' => JudgedSoFar(p, r)'
                   /\ ~ InHand(p, r)' => Judged(r, pitches[r])'
        <4>1. TakenAsIs(p, r) /\ r \notin spoiled'
          BY <1>1, <2>1, <3>2 DEF TakenAsIs, Onward
        <4>2. JudgedSoFar(p, r)
          BY <1>1, <2>3, <4>1 DEF Judging
        <4> QED BY <1>5, <2>3, <4>1, <4>2, JudgesOn
      <3> QED BY <2>3, <3>1, <3>2 DEF Judging
    <2>4. CASE q = p /\ ~ InHand(p, r)
      <3>1. ~ InHand(p, r)'
        BY <2>1, <2>2, <2>4 DEF InHand
      <3> QED BY <1>1, <2>1, <2>4, <3>1, JudgingKept
    <2>5. CASE q # p
      BY <1>1, <1>2, <2>1, <2>5, JudgingKept
    <2> QED BY <2>3, <2>4, <2>5
  <1> QED BY <1>3, <1>4, <1>5

LEMMA InitJudging == OutingInit => JudgingInv
  <1> SUFFICES ASSUME OutingInit, NEW p \in Proc, NEW s \in Session PROVE Judging(p, s)
    BY InitOuting DEF JudgingInv
  <1> QED BY DEF OutingInit, Judging, TakenAsIs

LEMMA NextJudging == JudgingInv /\ [OutingNext]_outingVars => JudgingInv'
  <1> SUFFICES ASSUME JudgingInv, [OutingNext]_outingVars PROVE JudgingInv'
    OBVIOUS
  <1>1. OutingInv' /\ OutingTypeOK'
    BY NextOuting DEF JudgingInv, OutingInv
  <1>2. ASSUME NEW p \in Proc, JobStep(p) PROVE JudgingInv'
    BY <1>1, <1>2, JudgingStep DEF JudgingInv
  <1>3. ASSUME NEW p \in Proc, NEW s \in Session, Mark(p, s) \/ GoQuiet(p, s)
        PROVE  JudgingInv'
    BY <1>1, <1>3, JudgingWatch DEF JudgingInv
  <1>4. ASSUME NEW p \in Proc, Sweep(p) PROVE JudgingInv'
    <2>1. PICK s \in Session : TRUE
      BY <1>4 DEF Sweep, Quiet
    <2> QED BY <1>1, <1>4, <2>1, JudgingWatch DEF JudgingInv
  <1>5. ASSUME OutingNext, UNCHANGED <<watch, due, job, swept>> PROVE JudgingInv'
    <2> SUFFICES ASSUME NEW p \in Proc, NEW s \in Session PROVE Judging(p, s)'
      BY <1>1 DEF JudgingInv
    <2>1. OutingTypeOK /\ Judging(p, s) /\ Onward(s)
      BY <1>5, OutingGoesOn DEF JudgingInv, OutingInv
    <2> QED BY <1>1, <1>5, <2>1, JudgingKept
  <1>6. ASSUME NEW s \in Session,
               StorePitch(s) \/ TellStep(s) \/ CountFails(s) \/ GiveUpTelling(s)
                 \/ ExpireKey(s) \/ CommitMark(s) \/ CloseSession(s)
        PROVE  UNCHANGED <<watch, due, job, swept>>
    BY <1>6 DEF StorePitch, TellStep, CountPitch, PublishPitch, CountFails, GiveUpTelling,
                ExpireKey, CommitMark, CloseSession, evalVars
  <1>7. ASSUME NEW p \in Proc, NEW s \in Session, MovePartition(p, s)
        PROVE  UNCHANGED <<watch, due, job, swept>>
    BY <1>7 DEF MovePartition, evalVars
  <1>8. ASSUME NEW k \in Key, Acknowledge(k) PROVE UNCHANGED <<watch, due, job, swept>>
    BY <1>8 DEF Acknowledge, evalVars
  <1>9. CASE OutingNext
    BY <1>2, <1>3, <1>4, <1>5, <1>6, <1>7, <1>8, <1>9 DEF OutingNext, SweepStep, JobStep, Tells
  <1>10. CASE UNCHANGED outingVars
    BY <1>1, <1>10 DEF JudgingInv, Judging, TakenAsIs, InHand, JudgedSoFar, Judged,
                       outingVars, dbVars, evalVars
  <1> QED BY <1>9, <1>10

\* An outing a process is done with, and that has not gone on, is judged with
\* all its pitches unless a call failed or memory was lost: neither taking it
\* as evaluated before it is, nor other processes at the same outing, nor a
\* viewer who closes it loses a finding (anomaly_consumer.go, sweep and
\* EvaluateSession).
THEOREM DoneIsJudged == OutingSpec => []EvaluatedIsJudged
  <1>1. JudgingInv => EvaluatedIsJudged
    <2> SUFFICES ASSUME JudgingInv, NEW p \in Proc, NEW s \in Session,
                        watch[p][s] = "evaluated", s \notin due[p], job[p].session # s,
                        s \notin spoiled, pitches[s] = swept[p][s]
                 PROVE  Judged(s, pitches[s])
      BY DEF EvaluatedIsJudged
    <2>1. TakenAsIs(p, s) /\ ~ InHand(p, s) /\ Judging(p, s)
      BY DEF JudgingInv, TakenAsIs, InHand
    <2> QED BY <2>1 DEF Judging
  <1> QED BY InitJudging, NextJudging, <1>1, PTL DEF OutingSpec
==============================================================================
