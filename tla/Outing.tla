------------------------------ MODULE Outing ------------------------------
(***************************************************************************)
(* An outing after its pitches are stored: its live counters in Redis, the *)
(* events about it, and the anomaly evaluator                              *)
(* (internal/processor/anomaly_consumer.go).                               *)
(*                                                                         *)
(* The evaluator is the second reader of pitch.analyzed.  Each process     *)
(* remembers in memory which outings it has seen (Handle); a ticker sweeps *)
(* the quiet ones and evaluates them one after the other: refresh the      *)
(* session's totals, drop the live counters, compare each pitch type's     *)
(* medians with the pitcher's baseline, store what departs, announce it.   *)
(* Meanwhile the outing may go on, its partition may move, a process may   *)
(* die, and viewers close sessions and acknowledge anomalies.              *)
(*                                                                         *)
(* A pitch is its number.  What the detector says of the first n pitches   *)
(* is a constant (Departs); its arithmetic is in Baseline.                 *)
(***************************************************************************)
EXTENDS Integers, FiniteSets

CONSTANTS
  Proc,           \* processes that run an evaluator
  Session,        \* outings; each fills a partition of pitch.analyzed
  PitchType,
  Metrics,        \* length of anomaly.AllMetrics
  TypeOf,         \* [1..MaxPitches -> PitchType]  the type of the n-th pitch
  Departs,        \* [PitchType \X Metric -> SUBSET 1..MaxPitches]
  MinPitches,     \* AnomalyConfig.MinPitches
  MaxPitches,     \* bound: pitches of an outing
  WriteAttempts,  \* MaxAttempts of the Kafka writer
  MishapKinds,    \* the kinds of failure the run admits
  MaxMishaps,     \* bound: how many of them happen
  Gone            \* no key in Redis; no process

Metric == 1..Metrics
Key == Session \X PitchType \X Metric   \* uq_anomaly_session_metric, one detector version

ASSUME OutingAssumption ==
  /\ MaxPitches \in Nat
  /\ Metrics \in Nat
  /\ TypeOf \in [1..MaxPitches -> PitchType]
  /\ Departs \in [PitchType \X Metric -> SUBSET (1..MaxPitches)]
  /\ MinPitches \in Nat \ {0}
  /\ WriteAttempts \in Nat \ {0}
  /\ MaxMishaps \in Nat
  /\ Gone \notin Nat

VARIABLES
  \* PostgreSQL
  pitches,        \* rows of the outing
  totals,         \* sessions.pitch_count
  open,           \* whether sessions.status is ACTIVE
  findings,       \* [Key -> Nat]  0, or how many pitches the row was found on
  acknowledged,   \* findings a viewer has acknowledged
  \* Redis and Kafka
  live,           \* the pitch_count field of the live key, or Gone
  events,         \* pitch.analyzed: events of the outing
  fetched,        \* how far the group has fetched
  marked,         \* committed offset
  reader,         \* the process that owns the partition
  alerts,         \* [Key -> Nat]  anomaly.detected: events about a finding
  \* the processor
  telling,        \* where HandlePitchRaw is after the last stored pitch
  watch,          \* AnomalyEvaluator.active
  due,            \* the local variable of sweep
  job,            \* where EvaluateSession is
  \* history
  calls,          \* [Key -> Nat]  calls of Publish about a finding
  swept,          \* [Proc -> [Session -> Nat]]  pitches when taken as evaluated
  spoiled,        \* outings for which a call failed or memory was lost
  mishaps

dbVars    == <<pitches, totals, open, findings, acknowledged>>
busVars   == <<events, fetched, marked, reader>>
evalVars  == <<watch, due, job>>
outingVars == <<dbVars, live, busVars, alerts, calls, telling, evalVars, swept,
                spoiled, mishaps>>

Watch == {"absent", "fresh", "idle", "evaluated"}
At    == {"sweep", "recompute", "drop", "types", "type", "metric", "alert"}
Jobs  == [at : At, session : Session \cup {Gone}, types : SUBSET PitchType,
          type : PitchType \cup {Gone}, on : 0..MaxPitches,
          metric : 1..(Metrics + 1)]
NoJob == [at |-> "sweep", session |-> Gone, types |-> {}, type |-> Gone, on |-> 0,
          metric |-> 1]

OutingTypeOK ==
  /\ pitches \in [Session -> 0..MaxPitches]
  /\ totals \in [Session -> 0..MaxPitches]
  /\ open \in [Session -> BOOLEAN]
  /\ findings \in [Key -> 0..MaxPitches]
  /\ acknowledged \subseteq Key
  /\ live \in [Session -> Nat \cup {Gone}]
  /\ events \in [Session -> Nat]
  /\ fetched \in [Session -> Nat]
  /\ marked \in [Session -> Nat]
  /\ reader \in [Session -> Proc]
  /\ alerts \in [Key -> Nat]
  /\ calls \in [Key -> Nat]
  /\ telling \in [Session -> {"nothing", "record", "publish"}]
  /\ watch \in [Proc -> [Session -> Watch]]
  /\ due \in [Proc -> SUBSET Session]
  /\ job \in [Proc -> Jobs]
  /\ swept \in [Proc -> [Session -> 0..MaxPitches]]
  /\ spoiled \subseteq Session
  /\ mishaps \in Nat
  /\ \A s \in Session : marked[s] <= fetched[s] /\ fetched[s] <= events[s]

OutingInit ==
  /\ pitches = [s \in Session |-> 0]
  /\ totals = [s \in Session |-> 0]
  /\ open = [s \in Session |-> TRUE]
  /\ findings = [k \in Key |-> 0]
  /\ acknowledged = {}
  /\ live = [s \in Session |-> Gone]
  /\ events = [s \in Session |-> 0]
  /\ fetched = [s \in Session |-> 0]
  /\ marked = [s \in Session |-> 0]
  /\ reader \in [Session -> Proc]
  /\ alerts = [k \in Key |-> 0]
  /\ calls = [k \in Key |-> 0]
  /\ telling = [s \in Session |-> "nothing"]
  /\ watch = [p \in Proc |-> [s \in Session |-> "absent"]]
  /\ due = [p \in Proc |-> {}]
  /\ job = [p \in Proc |-> NoJob]
  /\ swept = [p \in Proc |-> [s \in Session |-> 0]]
  /\ spoiled = {}
  /\ mishaps = 0

Mishap(kind) ==
  /\ kind \in MishapKinds
  /\ mishaps < MaxMishaps
  /\ mishaps' = mishaps + 1

----------------------------------------------------------------------------
(* HandlePitchRaw after its transaction (PitchPipeline has the rest): the  *)
(* counters, then the event.                                               *)

\* A closed session is not reopened and takes pitches all the same.
StorePitch(s) ==
  /\ telling[s] = "nothing"
  /\ pitches[s] < MaxPitches
  /\ pitches' = [pitches EXCEPT ![s] = @ + 1]
  /\ telling' = [telling EXCEPT ![s] = "record"]
  /\ UNCHANGED <<totals, open, findings, acknowledged, live, busVars, alerts, calls,
                 evalVars, swept, spoiled, mishaps>>

\* HINCRBY starts an absent key at 0.
Counted(n) == IF n = Gone THEN 1 ELSE n + 1

CountPitch(s) ==
  /\ telling[s] = "record"
  /\ live' = [live EXCEPT ![s] = Counted(@)]
  /\ telling' = [telling EXCEPT ![s] = "publish"]
  /\ UNCHANGED <<dbVars, busVars, alerts, calls, evalVars, swept, spoiled, mishaps>>

CountFails(s) ==
  /\ telling[s] = "record"
  /\ Mishap("redis")
  /\ telling' = [telling EXCEPT ![s] = "publish"]
  /\ UNCHANGED <<dbVars, live, busVars, alerts, calls, evalVars, swept, spoiled>>

PublishPitch(s) ==
  /\ telling[s] = "publish"
  /\ events' = [events EXCEPT ![s] = @ + 1]
  /\ telling' = [telling EXCEPT ![s] = "nothing"]
  /\ UNCHANGED <<dbVars, live, fetched, marked, reader, alerts, calls, evalVars, swept, spoiled,
                 mishaps>>

\* A crash, or a failed publish whose retry takes the duplicate path.
GiveUpTelling(s) ==
  /\ telling[s] # "nothing"
  /\ Mishap("crash")
  /\ telling' = [telling EXCEPT ![s] = "nothing"]
  /\ UNCHANGED <<dbVars, live, busVars, alerts, calls, evalVars, swept, spoiled>>

\* LiveTTL after the last pitch (external: Redis).
ExpireKey(s) ==
  /\ telling[s] # "record"
  /\ live[s] # Gone
  /\ Mishap("expiry")
  /\ live' = [live EXCEPT ![s] = Gone]
  /\ UNCHANGED <<dbVars, busVars, alerts, calls, telling, evalVars, swept, spoiled>>

----------------------------------------------------------------------------
(* The evaluator's consumer.                                               *)

Mark(p, s) ==
  /\ reader[s] = p
  /\ fetched[s] < events[s]
  /\ fetched' = [fetched EXCEPT ![s] = @ + 1]
  /\ watch' = [watch EXCEPT ![p][s] = "fresh"]
  /\ swept' = [swept EXCEPT ![p][s] = 0]
  /\ UNCHANGED <<dbVars, live, events, marked, reader, alerts, calls, telling, due, job,
                 spoiled, mishaps>>

\* Mutant of CommitMark: the end of the log is committed.
CommitMarkOfEnd(s) ==
  /\ marked[s] < fetched[s]
  /\ marked' = [marked EXCEPT ![s] = events[s]]
  /\ UNCHANGED <<dbVars, live, events, fetched, reader, alerts, calls, telling, evalVars,
                 swept, spoiled, mishaps>>

CommitMark(s) ==
  /\ marked[s] < fetched[s]
  /\ marked' = [marked EXCEPT ![s] = fetched[s]]
  /\ UNCHANGED <<dbVars, live, events, fetched, reader, alerts, calls, telling, evalVars,
                 swept, spoiled, mishaps>>

\* A rebalance (external): the new owner starts at the committed offset, the
\* old one keeps what it remembers.
MovePartition(p, s) ==
  /\ reader[s] # p
  /\ Mishap("rebalance")
  /\ reader' = [reader EXCEPT ![s] = p]
  /\ fetched' = [fetched EXCEPT ![s] = marked[s]]
  /\ UNCHANGED <<dbVars, live, events, marked, alerts, calls, telling, evalVars, swept, spoiled>>

----------------------------------------------------------------------------
(* The sweeper.                                                            *)

\* idleTimeout without a pitch.
GoQuiet(p, s) ==
  /\ watch[p][s] = "fresh"
  /\ watch' = [watch EXCEPT ![p][s] = "idle"]
  /\ UNCHANGED <<dbVars, live, busVars, alerts, calls, telling, due, job, swept, spoiled, mishaps>>

Quiet(p) == { s \in Session : watch[p][s] = "idle" }

\* An outing is taken as evaluated before it is: a pitch that arrives during
\* the evaluation makes it fresh again.
Sweep(p) ==
  /\ job[p].at = "sweep" /\ due[p] = {} /\ Quiet(p) # {}
  /\ due' = [due EXCEPT ![p] = Quiet(p)]
  /\ watch' = [watch EXCEPT ![p] =
                 [s \in Session |-> IF s \in Quiet(p) THEN "evaluated" ELSE @[s]]]
  /\ swept' = [swept EXCEPT ![p] =
                 [s \in Session |-> IF s \in Quiet(p) THEN pitches[s] ELSE @[s]]]
  /\ UNCHANGED <<dbVars, live, busVars, alerts, calls, telling, job, spoiled, mishaps>>

Take(p, s) ==
  /\ job[p].at = "sweep"
  /\ s \in due[p]
  /\ due' = [due EXCEPT ![p] = @ \ {s}]
  /\ job' = [job EXCEPT ![p].at = "recompute", ![p].session = s]
  /\ UNCHANGED <<dbVars, live, busVars, alerts, calls, telling, watch, swept, spoiled, mishaps>>

----------------------------------------------------------------------------
(* EvaluateSession, one step per call.                                     *)

GoOn(p, there) == job' = [job EXCEPT ![p].at = there]

Recompute(p) ==
  /\ job[p].at = "recompute"
  /\ totals' = [totals EXCEPT ![job[p].session] = pitches[job[p].session]]
  /\ GoOn(p, "drop")
  /\ UNCHANGED <<pitches, open, findings, acknowledged, live, busVars, alerts, calls, telling,
                 watch, due, swept, spoiled, mishaps>>

\* A failed refresh is only logged, and the counters stay.
RecomputeFails(p) ==
  /\ job[p].at = "recompute"
  /\ Mishap("db")
  /\ GoOn(p, "types")
  /\ spoiled' = spoiled \cup {job[p].session}
  /\ UNCHANGED <<dbVars, live, busVars, alerts, calls, telling, watch, due, swept>>

Drop(p) ==
  /\ job[p].at = "drop"
  /\ live' = [live EXCEPT ![job[p].session] = Gone]
  /\ GoOn(p, "types")
  /\ UNCHANGED <<dbVars, busVars, alerts, calls, telling, watch, due, swept, spoiled, mishaps>>

DropFails(p) ==
  /\ job[p].at = "drop"
  /\ Mishap("redis")
  /\ GoOn(p, "types")
  /\ UNCHANGED <<dbVars, live, busVars, alerts, calls, telling, watch, due, swept, spoiled>>

CountOf(t, n) == Cardinality({ i \in 1..n : TypeOf[i] = t })

ListTypes(p) ==
  /\ job[p].at = "types"
  /\ job' = [job EXCEPT ![p].at = "type", ![p].types =
               { t \in PitchType : CountOf(t, pitches[job[p].session]) >= MinPitches }]
  /\ UNCHANGED <<dbVars, live, busVars, alerts, calls, telling, watch, due, swept, spoiled, mishaps>>

\* evaluatePitchType reads the medians once for all metrics.
ReadMedians(p, t) ==
  /\ job[p].at = "type"
  /\ t \in job[p].types
  /\ job' = [job EXCEPT ![p].at = "metric", ![p].types = @ \ {t}, ![p].type = t,
                        ![p].on = pitches[job[p].session], ![p].metric = 1]
  /\ UNCHANGED <<dbVars, live, busVars, alerts, calls, telling, watch, due, swept, spoiled, mishaps>>

\* Mutant of EndEvaluation: the outing is taken as evaluated when it has been.
EndAndMark(p) ==
  /\ job[p].at = "type" /\ job[p].types = {}
  /\ job' = [job EXCEPT ![p] = NoJob]
  /\ watch' = [watch EXCEPT ![p][job[p].session] = "evaluated"]
  /\ UNCHANGED <<dbVars, live, busVars, alerts, calls, telling, due, swept, spoiled, mishaps>>

EndEvaluation(p) ==
  /\ job[p].at = "type" /\ job[p].types = {}
  /\ job' = [job EXCEPT ![p] = NoJob]
  /\ UNCHANGED <<dbVars, live, busVars, alerts, calls, telling, watch, due, swept, spoiled, mishaps>>

EndType(p) ==
  /\ job[p].at = "metric" /\ job[p].metric > Metrics
  /\ GoOn(p, "type")
  /\ UNCHANGED <<dbVars, live, busVars, alerts, calls, telling, watch, due, swept, spoiled, mishaps>>

FindingOf(p) == <<job[p].session, job[p].type, job[p].metric>>

Comparing(p) == job[p].at = "metric" /\ job[p].metric <= Metrics

\* metricValue, windowValue and the detector, for the next of AllMetrics.
Departing(p) ==
  /\ Comparing(p)
  /\ job[p].on \in Departs[<<job[p].type, job[p].metric>>]

NextMetric(p) == job' = [job EXCEPT ![p].at = "metric", ![p].metric = @ + 1]

\* The detector returns nil.
Unremarkable(p) ==
  /\ Comparing(p) /\ ~Departing(p)
  /\ NextMetric(p)
  /\ UNCHANGED <<dbVars, live, busVars, alerts, calls, telling, watch, due, swept, spoiled, mishaps>>

\* InsertAnomaly returned a row.
StoreFinding(p) ==
  /\ Departing(p)
  /\ findings[FindingOf(p)] = 0
  /\ findings' = [findings EXCEPT ![FindingOf(p)] = job[p].on]
  /\ GoOn(p, "alert")
  /\ UNCHANGED <<pitches, totals, open, acknowledged, live, busVars, alerts, calls, telling,
                 watch, due, swept, spoiled, mishaps>>

\* Mutant of AlreadyFound: the missing row is not taken as a sign.
AlreadyFoundTold(p) ==
  /\ Departing(p)
  /\ findings[FindingOf(p)] # 0
  /\ GoOn(p, "alert")
  /\ UNCHANGED <<dbVars, live, busVars, alerts, calls, telling, watch, due, swept, spoiled, mishaps>>

\* Mutant of AlreadyFound: the missing row ends the pitch type.
AlreadyFoundEnds(p) ==
  /\ Departing(p)
  /\ findings[FindingOf(p)] # 0
  /\ GoOn(p, "type")
  /\ UNCHANGED <<dbVars, live, busVars, alerts, calls, telling, watch, due, swept, spoiled, mishaps>>

\* ON CONFLICT DO NOTHING: recorded by an earlier evaluation.
AlreadyFound(p) ==
  /\ Departing(p)
  /\ findings[FindingOf(p)] # 0
  /\ NextMetric(p)
  /\ UNCHANGED <<dbVars, live, busVars, alerts, calls, telling, watch, due, swept, spoiled, mishaps>>

\* One call of Publish, after which n copies of the event are in the topic.
Told(p, n) ==
  /\ job[p].at = "alert"
  /\ calls' = [calls EXCEPT ![FindingOf(p)] = @ + 1]
  /\ alerts' = [alerts EXCEPT ![FindingOf(p)] = @ + n]
  /\ NextMetric(p)

Alert(p) ==
  /\ Told(p, 1)
  /\ UNCHANGED <<dbVars, live, busVars, telling, watch, due, swept, spoiled, mishaps>>

\* The writer, which is not idempotent, retried a write whose acknowledgement
\* was lost.
AlertTwice(p) ==
  /\ \E n \in 2..WriteAttempts : Told(p, n)
  /\ Mishap("broker")
  /\ UNCHANGED <<dbVars, live, busVars, telling, watch, due, swept, spoiled>>

\* Every attempt failed, or lost its acknowledgement.  It is only logged: the
\* row is there, and nobody may have been told.
AlertFails(p) ==
  /\ \E n \in 0..WriteAttempts : Told(p, n)
  /\ Mishap("broker")
  /\ UNCHANGED <<dbVars, live, busVars, telling, watch, due, swept, spoiled>>

\* A query fails: sweep logs the error and goes on with the next outing.
EvaluationFails(p) ==
  /\ job[p].at \in {"recompute", "types", "type", "metric"}
  /\ Mishap("db")
  /\ job' = [job EXCEPT ![p] = NoJob]
  /\ spoiled' = spoiled \cup {job[p].session}
  /\ UNCHANGED <<dbVars, live, busVars, alerts, calls, telling, watch, due, swept>>

----------------------------------------------------------------------------
(* Viewers, and the process's death.                                       *)

\* closeSession: the guarded UPDATE, then a refresh that may fail.
CloseSession(s) ==
  /\ pitches[s] > 0
  /\ open[s]
  /\ open' = [open EXCEPT ![s] = FALSE]
  /\ \E n \in {totals[s], pitches[s]} : totals' = [totals EXCEPT ![s] = n]
  /\ UNCHANGED <<pitches, findings, acknowledged, live, busVars, alerts, calls, telling,
                 evalVars, swept, spoiled, mishaps>>

Acknowledge(k) ==
  /\ findings[k] # 0
  /\ k \notin acknowledged
  /\ acknowledged' = acknowledged \cup {k}
  /\ UNCHANGED <<pitches, totals, open, findings, live, busVars, alerts, calls, telling,
                 evalVars, swept, spoiled, mishaps>>

\* What the process remembered is gone; what it fetched and did not commit
\* comes again.
Unfinished(p) ==
  Quiet(p) \cup { s \in Session : watch[p][s] = "fresh" } \cup due[p]
  \cup ({job[p].session} \ {Gone})

EvaluatorDies(p) ==
  /\ Mishap("crash")
  /\ watch' = [watch EXCEPT ![p] = [s \in Session |-> "absent"]]
  /\ swept' = [swept EXCEPT ![p] = [s \in Session |-> 0]]
  /\ due' = [due EXCEPT ![p] = {}]
  /\ job' = [job EXCEPT ![p] = NoJob]
  /\ spoiled' = spoiled \cup Unfinished(p)
  /\ fetched' = [s \in Session |-> IF reader[s] = p THEN marked[s] ELSE fetched[s]]
  /\ UNCHANGED <<dbVars, live, events, marked, reader, alerts, calls, telling>>

TellStep(s) == CountPitch(s) \/ PublishPitch(s)

SweepStep(p) ==
  \/ Sweep(p) \/ Recompute(p) \/ Drop(p) \/ ListTypes(p) \/ EndEvaluation(p)
  \/ EndType(p) \/ Alert(p)
  \/ \E s \in Session : Take(p, s)
  \/ \E t \in PitchType : ReadMedians(p, t)
  \/ Unremarkable(p) \/ StoreFinding(p) \/ AlreadyFound(p)

OutingNext ==
  \/ \E s \in Session :
       \/ StorePitch(s) \/ TellStep(s) \/ CountFails(s) \/ GiveUpTelling(s)
       \/ ExpireKey(s) \/ CommitMark(s) \/ CloseSession(s)
  \/ \E p \in Proc, s \in Session : Mark(p, s) \/ MovePartition(p, s) \/ GoQuiet(p, s)
  \/ \E p \in Proc :
       \/ SweepStep(p) \/ RecomputeFails(p) \/ DropFails(p) \/ AlertTwice(p)
       \/ AlertFails(p) \/ EvaluationFails(p) \/ EvaluatorDies(p)
  \/ \E k \in Key : Acknowledge(k)

\* The processor's loops run, time passes, the ticker ticks.
OutingFairness ==
  /\ \A s \in Session : WF_outingVars(TellStep(s))
  /\ \A p \in Proc : WF_outingVars(SweepStep(p))
  /\ \A p \in Proc, s \in Session :
       WF_outingVars(Mark(p, s)) /\ WF_outingVars(GoQuiet(p, s))

OutingSpec == OutingInit /\ [][OutingNext]_outingVars
FairOutingSpec == OutingSpec /\ OutingFairness

----------------------------------------------------------------------------
\* A finding is published by at most one call and only when it is stored,
\* though outings are evaluated again after a pause, a crash or a rebalance, by
\* two processes at once; whatever copies of it there are, are the attempts of
\* that call's writer (anomaly_consumer.go, store_finding).
AlertsAreFindings ==
  \A k \in Key :
    /\ calls[k] <= 1
    /\ calls[k] = 1 => findings[k] # 0
    /\ calls[k] = 0 => alerts[k] = 0
    /\ alerts[k] <= WriteAttempts

\* What a viewer has acknowledged is not written again and not announced
\* again by a later evaluation (anomaly_consumer.go, store_finding;
\* AcknowledgeAnomaly).
AcknowledgedStays ==
  [][\A k \in acknowledged : /\ k \in acknowledged'
                             /\ findings'[k] = findings[k]]_outingVars

\* Every departure the outing's pitches show now has been found.
Judged(s, n) ==
  /\ totals[s] >= n
  /\ \A t \in PitchType, m \in Metric :
       CountOf(t, n) >= MinPitches /\ n \in Departs[<<t, m>>]
         => findings[<<s, t, m>>] # 0

\* An outing that a process has seen pitches of is evaluated with all of them,
\* unless it goes on, a call fails or the process dies: marking it evaluated
\* before the evaluation loses nothing (anomaly_consumer.go, Handle and sweep).
QuietIsJudged ==
  \A s \in Session, n \in 1..MaxPitches :
    (\E p \in Proc : watch[p][s] \in {"fresh", "idle"}) /\ pitches[s] = n
      ~> Judged(s, n) \/ pitches[s] > n \/ s \in spoiled

\* The safety half of that: an outing a process is done with is judged with
\* all the pitches it had when it was taken as quiet, unless it has gone on or
\* a call failed, whoever else evaluates it, closes it or has it moved
\* (anomaly_consumer.go, sweep and EvaluateSession).
EvaluatedIsJudged ==
  \A p \in Proc, s \in Session :
    /\ watch[p][s] = "evaluated" /\ s \notin due[p] /\ job[p].session # s
    /\ s \notin spoiled
    /\ pitches[s] = swept[p][s]
    => Judged(s, pitches[s])

----------------------------------------------------------------------------
\* Where the pitches of an outing show a finding.
ShownAt(k) == { n \in Departs[<<k[2], k[3]>>] : CountOf(k[2], n) >= MinPitches }

Board == INSTANCE AnomalyBoard WITH
  Finding   <- Key,
  OutingOf  <- [k \in Key |-> k[1]],
  Shown     <- [k \in Key |-> ShownAt(k)],
  posted    <- findings,
  announced <- alerts,
  called    <- calls

\* The evaluators implement the board: by two processes at once, over again
\* after a pause, a crash or a rebalance, a finding is stored once and only on
\* pitches that show it, announced by one call and not before, and never
\* touched again (anomaly_consumer.go, evaluatePitchType and store_finding).
ImplementsBoard == Board!Spec

----------------------------------------------------------------------------
GetSessionLiveMetrics(s) == pitches[s]

\* What the API shows of a running outing (api/websocket.go, liveSessionMetrics).
LiveView(s) ==
  IF live[s] # Gone THEN live[s]
  ELSE IF GetSessionLiveMetrics(s) > 0 THEN GetSessionLiveMetrics(s) ELSE totals[s]

\* The live numbers are the same from Redis and from the rows, but for a pitch
\* that is being counted (api/websocket.go:96-98).
LiveIsWhole ==
  \A s \in Session : telling[s] # "record" => LiveView(s) = pitches[s]
============================================================================
