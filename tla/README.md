# PitchLab in TLA+

PitchLab ingests pitches from tracking devices, stores and scores each one, and
shows an outing live in a browser. This directory holds its formal model: TLA+
modules translated from the Go, SQL and TypeScript sources, TLC configurations
that check them on small instances, and TLAPS proofs of the results that
matter most for every instance.

    tlc -workers 2 -config pipeline_safety.cfg PitchPipelineMC
    tlc -workers 2 -config live_stream.cfg LiveStreamMC
    tlc -workers 2 -config progress.cfg ProgressMC
    tlc -workers 2 -config services.cfg ServicesMC
    tlapm PitchPipeline_proofs.tla

`PROJECT.json` lists, in machine-readable form, the components, the runs, a
mutant of the code for every checked property, the source lines of every
definition, the findings, the hazards and the theorems.

## 1. Inventory

| component | state it keeps | operations | talks to |
|---|---|---|---|
| device feed (`cmd/replay`, `internal/replay`) | position in a tape, a clock | publish a reading | Kafka `pitch.raw` |
| Kafka consumer (`internal/kafka/consumer.go`) | message in hand, attempt; at the broker: committed offsets, assignment, dead letters | fetch, handle with retries, back off, dead-letter, commit, stop | broker, handler |
| Kafka producer (`producer.go`) | none | publish, synchronously, hashed by session | broker |
| pipeline (`internal/processor/pipeline.go`) | none of its own; PostgreSQL rows and row locks | validate, predict, persist in one transaction, update cache, publish | model service, PostgreSQL, Redis, Kafka `pitch.analyzed` |
| model client (`internal/mlclient`) | breaker: closed, open, half-open; failure counts | allow, succeed, fail | model service |
| normalization, features | none | pure functions | pipeline |
| anomaly evaluator (`anomaly_consumer.go`, `internal/anomaly`) | active sessions, in memory | mark a session active, sweep idle ones, evaluate, store and publish findings | PostgreSQL, Kafka, analytics cache |
| live counters (`internal/cache/live.go`) | one Redis hash per outing, with a time to live | add a pitch, read, drop | pipeline, API |
| analytics cache (`internal/cache/analytics.go`) | a generation per athlete, cached summaries | read, store, invalidate | pipeline, API |
| login limiter (`internal/auth/ratelimit.go`) | a counter in Redis, one in memory for outages | allow, reset | API |
| live fan-out (`internal/api/websocket.go`) | last time metrics went out | snapshot, publish to the hub | Kafka, PostgreSQL, Redis, hub |
| WebSocket hub and clients (`internal/ws`) | clients per session, bounded send queues, slots per address | handshake, register, enqueue or drop, close, shut down | fan-out, browsers |
| browser stream (`web/src/hooks/useSessionStream.ts`) | snapshot, pitches, gap flag, connection | merge messages, reconnect | hub |
| dead-letter replay (`cmd/dlq-replay`) | offsets of the dead-letter topic | drain, republish up to a ceiling | broker |
| model registry (`db.Store.ActivateModelVersion`) | one active version per variant | activate | PostgreSQL |
| athlete and device rows (`persist` 364-389, `UpsertAthlete`, `UpsertDevice`) | one row per natural key, row locks until the transaction ends | upsert, merge | PostgreSQL |
| list endpoints (`internal/httpx/pagination.go`) | none; the client holds a cursor | next page | PostgreSQL |
| REST API, tokens, middleware, metrics | none that other parts read | request handling | everything |

How they interact. A reading enters `pitch.raw`, keyed by its outing. A group
of readers (several goroutines per process, several processes) consumes it; the
handler writes the pitch in one transaction, bumps the live counters and
publishes `pitch.analyzed`. That topic has two readers: the anomaly evaluator
and every API process, which fans out to the browsers watching the outing. The
analytics endpoints read PostgreSQL through a cache that the pipeline
invalidates. Messages that cannot be processed go to a dead-letter topic, and
an operator's tool puts them back.

What makes it hard:

* concurrency: readers of one group, rebalances that leave two readers with
  overlapping messages, row locks, the hub's goroutines, concurrent requests on
  the breaker and the caches;
* failure: crashes between the transaction, the counters, the event and the
  offset, which are four systems without a common transaction; a commit whose
  answer is lost; dead letters that cannot be written; shutdown in the middle
  of a retry;
* ordering: events of one outing, snapshot against increments, old connections
  against new ones;
* limits: the retry budget, send queues, connection slots, replay ceilings.

* what is believed and no longer true: a generation read before a slow
  computation, an outcome reported to a breaker that has moved on, an active
  version that is not the one that answered, a page's cursor in a table that
  grows, a live key that began after its outing.

What makes each part correct is listed with its module below. `PROJECT.json` has
the hazards line by line.

## 2. Modules

    ConsumerGroup  <--EXTENDS--  PitchPipeline  --INSTANCE-->  PitchLedger
         ^                            ^
         |                       PitchPipelineMC           (instances for TLC)
    ConsumerGroup_proofs  <--  PitchPipeline_proofs        (TLAPS)

    ConsumerGroup, Outing  <--EXTENDS--  ProgressMC        (instances for TLC)
    Outing  --INSTANCE-->  AnomalyBoard
    Outing  <--  Outing_proofs                             (TLAPS)

    LiveHub  <--EXTENDS--  LiveStream  <--  LiveStreamMC   (instances for TLC)
       ^                        ^
    LiveHub_proofs  <--  LiveStream_proofs                 (TLAPS)

    RollupCache, Breaker, PageWalk, ModelRegistry, LetterReplay,
    LoginThrottle, Enrolment, Baseline, Reading, TapeReplay
         ^--EXTENDS--  ServicesMC                          (instances for TLC)
    ModelRegistry  --INSTANCE-->  ModelSwitch
    PageWalk, RollupCache, LoginThrottle       <--  Api_proofs      (TLAPS)
    Breaker, ModelRegistry, Reading, Baseline  <--  Scoring_proofs  (TLAPS)
    LetterReplay, TapeReplay, Enrolment        <--  Replay_proofs   (TLAPS)

ServicesMC and ProgressMC put machines side by side that share no state: a
behaviour chooses one of them in its initial state (`active`) and the others
rest. What TLC explores is the union of the machines' behaviours and not their
product, and every property is checked of every one of them.

### ConsumerGroup: `internal/kafka/consumer.go`

The readers of one consumer group. A reader's control state is `phase[w]`:

| phase | where the code is |
|---|---|
| `idle` | `FetchMessage` (runReader, 198) |
| `handling` | inside `handle(ctx, env)` (280) |
| `backoff` | the wait between attempts (309-316) |
| `lettering` | `deadLetter` (412-489) |
| `committing` | `CommitMessages` (239) |
| `down` | `runReader` returned, or the process is not running |

`held` is the message being processed, `attempt` the loop variable of
processMessage, `stopping` whether the context is cancelled. At the broker:
`committed`, the `owner` of each partition, `cursor` (how far the owner has
fetched) and `dlq`. Two history variables say what became of a message:
`handled` holds what some handler call acknowledged, `abandoned` what a reader
went on to commit although nothing acknowledged it and no letter was written
(`Abandon`: cancelled between two attempts, or the letter's write failed). What
the handler does is left open (`Handle` returns any of `Result`, the verdicts of
`Classify`).

The broker and the kafka-go reader are not in the repository; `Assign`,
`Rebalance` and `GiveTo` state what the code relies on. A rebalance never
waits for the old owner, which goes on with the message it holds and commits
it late; `Commit` therefore may move an offset *back*. A failed fetch
(runReader 199-230) is retried after a delay and changes nothing, so it is a
stutter. Where a cancelled `CommitMessages` may or may not have reached the
broker (`CommitCancelled`), the model chooses.

### PitchPipeline: `internal/processor/pipeline.go`

EXTENDS ConsumerGroup and makes the handler concrete. `stage[w]` is where
`HandlePitchRaw` is: `validate`, `upsert` and `insert` (the two halves of the
transaction), `record` (after the commit), `publish`. `rows` is the table
pitches, `lock` the row locks on sessions, `live` the Redis counter, `analyzed`
the topic. One action per call that can fail separately:

| action | code |
|---|---|
| `Reject` | validateRaw 240-278 (and the CHECK constraints it mirrors): permanent |
| `Predict` | predict 280-340: a failure only sets `prediction_status` |
| `UpsertSession` | persist 364-416: `ON CONFLICT DO UPDATE` takes the row lock, then `NextSessionPitchIndex` reads max + 1 |
| `InsertPitch` | persist 418-471 and the commit: the row is there, the lock is free |
| `InsertDuplicate` | `ON CONFLICT DO NOTHING` returned no row: `ErrDuplicate` |
| `TxFails` | any error of the transaction: rolled back, transient |
| `CommitUnknown` | the commit took effect, the call reports an error |
| `UpdateCache` | updateCache 203-238, best effort |
| `Publish`, `PublishTwice`, `PublishFails` | the three outcomes of a synchronous write with retries |
| `ProcessDies` | a crash anywhere: PostgreSQL ends the transaction |

A pitch is its natural key. Measurements are carried through by the code
without a decision that these properties could tell apart; what is computed
from them is in Reading. Athletes and devices, whose upserts precede the
session's in the same transaction, are in Enrolment.

### PitchLedger: what ingestion promises

The abstract specification: each session has a ledger; a pitch is entered once,
at the end; a message may get a letter; an offset moves, in either direction,
only to where everything before it is recorded. `ImplementsLedger` is the
refinement, with the ledger read off the table by index.

### LiveHub: `internal/ws` (hub.go, client.go, handler.go)

The server side of the live channel. Three kinds of goroutine meet here: the
hub (`Hub.Run`), and for each connection a handshake that becomes its reader
(`ServeHTTP`, `readPump`) and a writer (`writePump`).

| variable | code |
|---|---|
| `hub`, `broadcastCh`, `sessions` | `done`, the channel of `Publish`, the registry `sessions[outing]` |
| `inHand`, `todo`, `noticeFor` | where the hub is inside `broadcast`: the event, the clients still to come, the client `noteDrop` is about to warn |
| `stage` | where ServeHTTP is: `free`, `reserved` (a slot, nothing sent), `joining` (upgraded, snapshot queued, not registered), `open`, `refused` |
| `slots`, `released` | `perAddress[address]`, and whether `closeOnceFn` has run |
| `send`, `nextSeq`, `drops`, `closeSlow` | the fields of Client |
| `closes` | how often the send queue was closed (twice would panic) |
| `writer`, `reader` | the pumps; the reader goes `reading`, `leaving` (about to unregister), `closing` (about to close the socket), `off` |
| `up`, `wire`, `hangup` | the socket: open at the server, frames under way, and the close code behind them |
| `lost` | history: messages that were numbered and not queued |

One outing and one client address are modelled: the registry and the slots are
maps by outing and by address, and no step involves two entries. An event is
its type and its pitch index. `Enqueue` is Client.enqueue with its three
outcomes (room; full and undroppable; full and droppable, with noteDrop's
rolling count, whose minute may have ended at any drop). `WriteMessage`,
`WriteFails`, `QueueEnds`, `SlowClose`, `GoingAway`, `Expire` and `PingFails`
are the cases of writePump's select, which picks freely among the ready ones;
`WriterEnds` is its deferred end. `Register`, `Remove` and `HubStop` are the
hub's other cases: they run in the hub's goroutine and therefore never in the
middle of a broadcast (`HubIdle`).

The network and the browser's WebSocket are not in the repository. A socket is
a queue of at most `SocketBuffer` frames; a write on a full one is stuck until
its deadline. A close frame gets through when the socket takes data; otherwise
the browser reports 1006.

### LiveStream: fan-out, outing, pages

EXTENDS LiveHub and closes it off. `stored` and `over` are what PostgreSQL says
of the outing; `FanPitch`, `FanMetrics`, `FanAnomaly` and `FanAgain` are
`Fanout.Handle` on an event, its rollup, and an event consumed twice; `Answer`
reads SessionSnapshot and upgrades. A page is `useSessionStream` together with
the REST reads of `LiveSession`:

| action | code |
|---|---|
| `Dial`, `DialRefused` | `connect`; a handshake answered 429 |
| `Open` | `onopen`: the numbering starts anew, and a connection that is not the first asks for a REST read (`Ask`) |
| `Receive` | `onmessage`, `applyMessage`, and the effect that answers a gap with a REST read (`Ask`) |
| `Disconnected` | `onclose`: 1000 is final, anything else is retried |
| `Ask` | `reconcile` invalidates the query; not an action but part of those that need a read |
| `Query`, `Fetch` | the query of the page's REST read runs; its rows arrive |
| `FetchFails` | the read fails, and is repeated (`retry` in main.tsx) or given up |
| `Refocus` | the viewer comes back to the window when the data is stale |
| `LeaveAndReturn` | the page unmounts and mounts again, with TanStack Query's cache still there, stale or fresh |

A REST read asks for the newest `ReadLimit` pitches (20, LiveSession.tsx:78) and is
two steps, its query and its answer, so pitches may be stored, dropped and noticed
in between. The page keeps the newest `FeedLimit` (40) of what the stream and the
last answer hold; `Rows`, `Merged` and `Feed` are what it has to show. TanStack
Query, which is not in the repository, is modelled by what the page relies on: an
invalidation cancels a read on its way and starts it again, unless the page has no
data yet, when it is joined to that first read. A page whose needed read was given
up, or joined one whose query had already run, is marked in the history variable
`unread`; nothing makes it read again before the next gap, reconnection or refocus.

### Outing: what happens to an outing after its pitches are stored

`internal/processor/anomaly_consumer.go`, with the live counters it drops
(`internal/cache/live.go`) and the viewers' two writes (`closeSession`,
`AcknowledgeAnomaly`).

| variable | code |
|---|---|
| `pitches`, `totals`, `open`, `findings`, `acknowledged` | rows of the outing, `sessions.pitch_count` and `status`, rows of `anomalies` by their unique key and whether a viewer has acknowledged them |
| `live` | `pitch_count` of the Redis hash |
| `telling` | where HandlePitchRaw is after its transaction: the counter, then the event |
| `events`, `fetched`, `marked`, `reader` | `pitch.analyzed`: what is there, how far the group has fetched and committed, who owns the partition |
| `watch` | `AnomalyEvaluator.active`, per process: a session that is `fresh` has been seen within the idle timeout, an `idle` one has not, and an `evaluated` one waits for nothing |
| `due`, `job` | the local variables of `sweep` and `EvaluateSession`: the outings still to do, and the call about to be made |
| `alerts`, `calls` | events in `anomaly.detected` by finding, and (history) the calls of Publish that were to write them |

A reading goroutine and a sweeper share the map under a mutex; `Sweep` takes
the quiet outings and marks them evaluated in one critical section, and
evaluates them outside it, while `Mark` may make them fresh again.
`EvaluateSession` is one action per call: `Recompute`, `Drop`, `ListTypes`,
`ReadMedians`, then for each metric `Unremarkable`, `StoreFinding` followed by
`Alert`, or `AlreadyFound`. The Kafka writer makes up to `WriteAttempts` attempts
and is not idempotent, so one call may leave several events (`AlertTwice`) and a
call that fails any number of them up to that (`AlertFails`). Each has its failure (`RecomputeFails`, `DropFails`,
`AlertFails`, `EvaluationFails`), because each is treated differently: some are
logged and the evaluation goes on, some end it. What the detector says of the
first n pitches of a type is a constant, `Departs`.

`CommitMark` commits what has been fetched; the offset is committed when the
pitch has been noted in memory, so a process that dies takes with it what it
has not evaluated (`spoiled` remembers that this happened to an outing). A second
history variable, `swept`, is how many pitches an outing had when a process took
it as evaluated.

### AnomalyBoard: what the evaluators promise

The abstract specification: a finding is posted once, on a number of pitches that
its outing has had and that shows it, and stays as it was posted; it is announced
by at most one call, not before it was posted, which leaves at most as many events
as its writer makes attempts; and it is acknowledged for good.
`ImplementsBoard` is the refinement: processes, sweeps, partitions, totals and
counters are hidden, the rows of `anomalies` are the board.

### Baseline: `internal/anomaly/detector.go`

The detector's arithmetic. The state is the list of a pitcher's outings, and
the operators are `usable`, `median`, `MAD`, `RobustSigma` and `Evaluate`.
Medians of integers come in halves and their deviations in halves again; the
module keeps twice a median, four times a MAD and the scaled sigma times 40000
(`madScale` is 1.4826), so that every comparison is one of integers and the one
the code makes. What floating point rounds is abstracted. `Sorts` says of a list
what `sort.Float64s` does to it: the same values, ascending.

### RollupCache: `internal/cache/analytics.go` and `getAthleteAnalytics`

Cache-aside with generations. The processor's `InvalidateAthlete` is INCR and
EXPIRE on the athlete's counter; a request reads the counter once
(`ReadGeneration`), looks up the key that contains it, and on a miss computes
(`ComputeRollup`) and stores (`SetAnalytics`) under the generation it read.
Every call to Redis may fail. A rollup is the number of rows it was computed
from; one athlete and one query window are modelled, since no step touches two
keys.

### Breaker: `internal/mlclient/breaker.go`

The mutex is held to admit a call and to report its outcome, and not between:
`Allow`, `RecordSuccess` and `RecordFailure` are separate actions, and a report
finds whatever state the breaker has reached. Open turns into half-open when
someone looks (`State`). The client's HTTP timeout bounds a call:
`ClockTick` does not leave a call behind for longer than `CallTimeout`.

### PageWalk: `internal/httpx/pagination.go` and the list queries

A client walks a list while the table grows. Lists differ in their sort column
only; a page asks for `Limit + 1` rows, and the last row that is shown becomes
the cursor. `Rekey` is the one list that is sorted by a mutable column.

### ModelRegistry: `db.Store.ActivateModelVersion` and the prediction's version

Two statements in a READ COMMITTED transaction: `LookAtActive` is the snapshot
of the first, `DeactivateModelVariant` its wait for locks and second look at the
rows, `MarkModelVersionActive` the second statement, which the partial unique
index (`IndexAdmits`) lets pass, makes wait, or refuses. The transaction's writes
are seen at `CommitActivation`. `LoadModel`, `ScorePitch` and `FilePrediction`
are the inference service and `persistPrediction`.

### ModelSwitch: what an activation promises

The abstract specification: a switch for each variant shows no version or one;
an activation turns it in one step, never to none, and moves no other; a
prediction is filed under what it shows, and not while it shows nothing.
`ImplementsSwitch` is the refinement, with the two statements, the row locks and
the index hidden.

### LetterReplay: `cmd/dlq-replay` and the consumer's `replay_count`

The tool reads each partition from its first offset until it is idle, skips
what its filter or the ceiling exclude, and publishes the rest to the topic of
origin with a header; the consumer handles the message or files a new letter
with the header's count. Letters may be filed behind or before the reader while
it drains, and a drain may be started again.

### LoginThrottle: `internal/auth/ratelimit.go` as `login` uses it

`AllowShared` is INCR and EXPIRE in Redis (a window that slides from the last
attempt), `AllowLocal` the process's own counter when the call failed (a window
from its first attempt). An account is checked before its address, and only the
account is cleared by a success. Time is what is left of each key and the age of
each attempt, so it needs no bound; a count stops at one more than its limit,
where nothing distinguishes it from a larger one.

### Enrolment: the upserts of pitcher, batter and device

`persist` upserts them in that order and keeps each row's lock until the
transaction ends. Pitchers who also bat can wait for each other in a circle,
which PostgreSQL breaks (`DeadlockBroken`); two transactions that insert the same
new row may collide on the primary key (`PrimaryKeyTaken`). After a deadlock the
consumer tries again; a collision is a permanent error, and the transaction runs
again only if the dead letter is replayed. The model lets either run again, or
never. `Merge` is the `ON CONFLICT` clause. An event may name no batter and no
device, whose rows are then passed over, and its batter may come without a side
(`StandOf`; validateRaw admits it), which says nothing of how they bat. `sided` is
a history variable: the athletes whose side has been told.

### Reading: `normalize.go` and `features.go`

From a device's fields, any of them missing or impossible, to what a model
scores. Lengths are integers in 1/24 of a foot, an angle's sine and cosine are
the angle itself, ratios are fractions. The two hands, `stand` and `p_throws`, are
features themselves, so a pitch and its mirror image do not have equal features:
`MirrorTwins` says that they differ in those two and in nothing else, and, for a
batter without a side, in the sign of `plate_x_bat`, which nothing mirrors then.
Features that a field of the event is copied into (the other measurements, the
pitch type and its group and, in the outcome variant, the situation) are left out;
so are the differences from the fastball and the days since the last game, which
predict never fills.

### TapeReplay: `internal/replay`

`ReadTape` groups and sorts, `Filter` narrows, `Clock.Next` gives each pitch its
time, and runs may be cut off and started again with another filter. The
generator seeded for an outing is the constant sequence of its draws.
`TapeIsRead` says what reading and filtering achieve when the file names no pitch
twice: each outing's pitches in the order thrown, each outing at most once.

`DateOf` is the date the tape gives an outing, or `Undated`: then parseDate dates it
on the day its clock is begun (`today`, which `Midnight` moves, also during a run).
An event is the pitch's key, its time, and an `id` that stands for what is fresh in
every envelope (event id, correlation id, produced_at). A rerun is a redelivery by
its key; `RerunIsRedelivery` says that the time is the old one too, where the tape
dates the outing or the clock was begun on the same day.

## 3. Runs

All bounds are constants in the `.cfg` files: `LogLen`, `MaxAttempts`,
`MaxFaults` (crashes, rebalances, failed commits, failed letters, shutdowns)
and `MaxOutages` (failed calls of the handler) for the pipeline; `Dials`
(connections, each used once), `MaxPitches`, `MaxEvents` (calls of
`Hub.Publish`) and `MaxFaults` for the live view; `MaxPitches` and `MaxMishaps`
for the outing. `FaultKinds` and `MishapKinds` say which kinds a run admits.
Logs, events and dials are finite, so the system really stops once they are used
up: deadlock checking is off and `ShutdownCompletes`, `ShutdownEndsEveryone` and
the other liveness properties take its place.

| run | asks | instance |
|---|---|---|
| `pipeline_safety` | `TypeOK`; are indices 1..n (`IndicesAreDense`), do events and counters stay behind the table (`AnalyzedIsStored`, `LiveNeverAhead`), and does the processor implement its ledger (`ImplementsLedger`, where an offset passes only recorded pitches)? | 2 readers, 1 session, 2 pitches, the first sent twice, 2 attempts, 2 faults, 2 outages of any dependency |
| `pipeline_order` | Without a rebalance: announced at most once (`AnnouncedOnce`), in order (`AnalyzedInOrder`)? | 2 partitions, 2 sessions, 3 pitches, 5 messages, one invalid, 1 fault, 2 outages |
| `pipeline_liveness` | `EventuallyRecorded`, with readers dying while they hold a row lock; `ShutdownCompletes`: a cancelled reader ends from every wait; `GarbledIsLettered`; with shutdowns, is anything lost that no reader gave up on (`OnlyAbandonedIsUnrecorded`)? | 1 partition with a garbled message, 2 faults of 5 kinds (shutdown among them), 1 outage; 642,000 states |
| `progress` | of an outing: do its evaluators implement the board (`ImplementsBoard`), is an outing that a process is done with judged with all the pitches it had (`EvaluatedIsJudged`), and does a quiet one come to be (`QuietIsJudged`)? Of a consumer: has a reader less to do with every step (`WorkRunsDown`) and does it always get free for the next message, with a handler that may fail for ever (`ReadersComeBack`), and is nothing lost but what a reader gave up on (`OnlyAbandonedIsLost`)? | outing: 2 processes, 1 outing, 2 pitches of one type, 2 metrics, 1 mishap of any of 6 kinds. Consumer: 2 readers, 2 partitions with 2 + 1 messages, one garbled, 2 attempts, 2 faults of any kind; 521,000 states in all |
| `services` | the safety properties of the ten small machines, below, and the refinement of one of them | below; 1,651,000 states in all |
| `live_stream` | `TypeOK`; are slots exact (`SlotsAreExact`), and is a lost pitch that a later number shows in the read made after its loss, or older than its rows (`GapsAreReconciled`)? | 1 page, 2 dials, 1 slot, queues of 2 and 1, 1 pitch, 2 events, 1 fault of 4 kinds: redelivery, a failing read, a viewer who leaves, a refocus; 3,620,000 states |
| `live_shutdown` | `AlarmEndsConnection`: a client that lost an anomaly is cut off; `ShutdownEndsEveryone`: a stopped hub ends every connection; is every queue closed once and never written after (`QueueClosedOnce`)? | 1 dial, 2 faults: shutdown, pong timeout, network, handshake, expiry; 469,000 states |
| `lost_announcement` | finding, section 6 | 1 broker outage |
| `false_finish` | finding, section 6 | 1 pong timeout |
| `handshake_gap` | finding, section 6 | no fault |
| `live_restart` | finding, section 6 | the outing of `progress`, no mishap |
| `misattributed` | finding, section 6 | the registry of `services` |

`ServicesTypeOK` of `services` is the type invariant of whichever machine is at
work. Of the detector and the tape it also checks, on the instance, the
hypotheses under which section 5 proves their properties.

The machines of `services`, each with the property that could be wrong:

| machine | property | instance |
|---|---|---|
| RollupCache | `RollupIsCurrent`: an answer has every pitch whose invalidation preceded the request | 2 requests, 2 pitches, lifetimes 1 and 3, 1 failing call |
| Breaker | `CallsAreProbes`: no straggler counts as a probe; `OpenRests`: no call within the cooldown of any trip | 3 callers, thresholds 2 and 2, cooldown 2, timeout 1, clock up to 7 |
| PageWalk | `WalkIsWhole`: what was there from the start is shown exactly once | 4 rows, 2 sort keys, pages of 1 |
| ModelRegistry | `ImplementsSwitch`: one version or the next, in one step, for any prediction | 2 versions of 1 variant, 2 deployers, 1 scorer |
| LetterReplay | `ReplayChainIsShort`: the ceiling holds across drains; `DrainIsWhole`: a drain that reports nothing has left nothing | 2 messages in 2 partitions of the queue, ceiling 1, limit 0 or 1, 2 drains, up to 3 letters a partition, 1 failing call |
| LoginThrottle | `AttemptsAreBounded`: what passes in a window, in Redis and in a process by itself | 1 account (limit 1), 1 address (limit 2), 2 requests, window 2, 2 failing calls |
| Enrolment | `RowIsTheJoin`: a row is what all its transactions said, in any order | 4 transactions, one without a batter, one whose batter has no side, two without a device; 3 athletes, two of them on both sides, 1 device; 2 redeliveries |
| Baseline | `MostOutingsDecide`: a minority of strange outings decides nothing | every sequence of up to 4 outings with medians 0, 1, 9, some too thin; window 3, at least 2; observed -12..20 |
| Reading | `MirrorTwins`: a pitch and its mirror image are told apart by the two hands alone | every choice of missing, inner, edge and impossible fields, a batter without a side among the hands |
| TapeReplay | `RerunIsRedelivery`: a pitch has the same time in every run; `TimesRise` | a shuffled tape of 5 lines and 2 outings, one without a date, 2 runs, any filter, cut off anywhere, 1 midnight |

Why the bounds are enough to be interesting: two readers are the fewest that
can hold messages of one session at once; a pitch sent twice with another in
between gives a duplicate of a message *and* a duplicate of a pitch, and an
index that a wrong maximum would repeat; two attempts are the fewest that have
both a retry and an exhausted budget; two faults let a crash or failed commit
follow a rebalance. `MaxAttempts` is 5 in production; between the first and the
last attempt all are alike.

For the live view: two dials give an old connection whose goroutines are still
ending while the page's new one runs, in competition for the address's one
slot; a send queue of 2 is the smallest that holds a closed outing's snapshot
and terminal message, and is full after one event; a broadcast queue of 1 can
lose an event before it is numbered; a socket of 1 gets stuck with a message
still in the queue; a threshold of 1 reaches noteDrop's warning. In production
these are 256, 1024, 50 and the operating systems' own buffers; the code
branches on nothing but full or not, and at the threshold or not.
Two dials are also the fewest that show a slot given back twice, since the counter
stops at zero; the faults that end a connection from outside (a lost network, a
pong timeout, an expired token) are left to `live_shutdown` and, for the slots, to
the theorem `SlotsExact`. Two events are a drop and the message that reveals it. A read of 1 row and a feed of
2 stand for 20 and 40, which the theorem leaves open. `handshake_gap` has a
broadcast queue of 3, so that its counterexample owes nothing to an event lost
there.

For the outing: two processes evaluate it at once after a rebalance; the second
pitch makes it resume, and the second metric departs only then, so that an
evaluation finds one metric already found and one new. One mishap is enough for
each kind to fall anywhere in an evaluation, and every one of the six is a
different branch.

For the small machines: two requests are a slow one and the one it could
mislead; a summary that lives 1 and a counter that lives 3 let entries of an
expired counter survive until it starts anew; three callers leave a straggler
under way while two others trip, probe and close the breaker, and a clock of 7
has room for two trips with their cooldowns; four rows with two keys have ties on
both sides of a cursor, and a page of one puts the cursor everywhere; a ceiling
of 1 with two drains has a letter filed again behind and before the reader; a
limit of 1 is reached by the first attempt and two requests race for it; four
transactions are a circle of two and two bystanders on the same rows, which name
less than they might; a window of 3
with four outings leaves one out, and a median of 2 and of 3 are the two cases.

No run uses symmetry: the runs with liveness must not and the others do not need
it. `ProgressInit` says which of its two processes first owns the partition, since
they are alike; the module leaves it open.

Every property has a mutant: a plausible bug in the code it is about (an
unlocked upsert, a counter bumped on the duplicate path, `ReadMessage` instead
of `FetchMessage`, an attempt that is not counted, a transaction left open, a
letter that must be JSON, a queue closed by whoever comes first, a slot given
back by both pumps, a number spent only by what is queued, an anomaly dropped
like a pitch, an outing marked evaluated when it has been, a rollup stored under
the generation of now, an evaluation that ends a pitch type at the
first finding it meets again, a cooldown counted from the first trip, a cursor
without its tiebreaker, a variant without its unique index, a header that is not
carried over, an expiry set on creation only ...) under which TLC finds the
property violated.

## 4. Fairness

`GroupFairness` and `Fairness` assert weak fairness of what runs by itself: each
reader's loop (`ReaderStep`), the handler call it is in (`HandlerStep`; every
call has a deadline or a cancellable context, and PostgreSQL grants a row lock
when its holder ends), and the coordinator's assignment of orphaned partitions.
`Restart` is part of `ReaderStep`: an orchestrator restarts the processor.
Weak fairness is enough: a reader's step stays enabled until it is taken,
except for the wait on a row lock, whose holder always moves on or dies. Faults,
rebalances and signals have no fairness; they are bounded in number, so what is
shown is progress once faults cease.

`OutingFairness` asserts weak fairness of the processor's steps after a stored
pitch (`TellStep`), of the evaluator's consumer (`Mark`), of the passing of the
idle timeout (`GoQuiet`: time passes) and of the sweeper (`SweepStep`: a ticker
wakes it and every call it makes has a deadline). Nothing is asked of the device,
of viewers, or of offsets being committed. `ProgressFairness` is `OutingFairness`
and `GroupFairness`, each of the machine that is at work.

`LiveStream!Fairness` asserts weak fairness of the hub's loop (`Deliver`), of
each handshake (it runs under the request's timeout, and the hub answers or has
stopped) and of each pump: writes have a deadline, reads a pong wait, and a
stopped hub is a channel every wait selects on. Nothing is asked of browsers,
the network or the viewers, so both properties of `live_shutdown` hold for a
browser that never reads.

`services` checks safety only and assumes no fairness.

## 5. Proofs

`tlapm` proves, for any number of readers, partitions, messages, sessions,
attempts, faults and outages, for any number of connections and pages, any
capacities, thresholds, pitches and events, for any processes, outings, metrics,
callers, rows, versions and activations, and for any requests, lifetimes, limits,
letters, tapes, filters, readings and baselines:

| theorem | says |
|---|---|
| `GroupTypeCorrect` | types and bounds of the consumer's state |
| `AtLeastOnce` | `Lossless` implies `[]CommittedIsSettled`, for any handler |
| `NothingElseIsLost` | `[]OnlyAbandonedIsLost`, for any handler and whatever fails |
| `MessagesAreFinished` | `WorkRunsDown`: with a message in hand, each step of a reader leaves it less to do, at most `2 * MaxAttempts + 1` steps in all |
| `GarbledHasLetter`, `GarbledIsKept` | `LettersAreWritten` implies `[]GarbledIsLettered`, of the consumer for any handler and of the processor |
| `TypeCorrect` | `[]TypeOK` of the processor |
| `DenseIndices` | `[]IndicesAreDense` |
| `AnalyzedFromTable` | `[]AnalyzedIsStored` |
| `NothingLost` | `Lossless` implies `[]CommittedIsRecorded` |
| `NothingElseIsUnrecorded` | `[]OnlyAbandonedIsUnrecorded`, whatever fails |
| `AnnouncedAtMostOnce` | `[]AnnouncedOnce` |
| `CountedAreStored` | `[]LiveNeverAhead` |
| `ToldInOrder` | `Keyed` and no rebalance imply `[]AnalyzedInOrder` |
| `PipelineKeepsLedger` | `Lossless` implies `ImplementsLedger`: the processor refines PitchLedger |
| `LocksAreAtWork` | `[]HoldersWork`: a row lock is held only by a call at work in that session, which waits for none |
| `PitchesAreFinished` | with a message in hand, each step of a reader or of its handler call lowers its `Effort` |
| `ClosedOnce` | `HubSpec => []QueueClosedOnce` |
| `SlotsExact` | `HubSpec => []SlotsAreExact` |
| `StreamTypeCorrect` | `[]TypeOK` of the live view |
| `StreamClosedOnce`, `StreamSlotsExact` | the two hub properties, of the live view |
| `GapsReconciled` | `[]GapsAreReconciled` |
| `OutingTypeCorrect` | `[]OutingTypeOK`, offsets in order among it |
| `ToldOnce` | `[]AlertsAreFindings`: a finding is announced by at most one call, and only when stored |
| `AcknowledgedForGood` | `AcknowledgedStays` |
| `EvaluatorsAreBoard` | `ImplementsBoard`: the evaluators refine AnomalyBoard |
| `DoneIsJudged` | `[]EvaluatedIsJudged` |
| `BreakerTypeCorrect` | types and bounds of the breaker |
| `OnlyProbesCount` | `[]CallsAreProbes` |
| `ServiceRests` | `OpenRests` |
| `WholeWalk` | `[]WalkIsWhole` |
| `OneIsActive` | `[]OneActiveModel` |
| `NeverLosesItsModel` | `NeverWithoutModel` |
| `RegistryIsSwitch` | `ImplementsSwitch`: the registry refines ModelSwitch |
| `CurrentRollup` | `[]RollupIsCurrent` |
| `BoundedAttempts` | `[]AttemptsAreBounded` |
| `ShortChains` | `[]ReplayChainIsShort` |
| `WholeDrains` | `[]DrainIsWhole` |
| `RowsJoin` | `[]RowIsTheJoin` |
| `TwinsOfAnyReading` | every reading and its mirror image, reachable or not, have the same quality, and features that differ in the two hands alone |
| `MirrorTwinsAlways` | `[]MirrorTwins` |
| `MajorityRules` | `ListsAreHandled` implies `[]MostOutingsDecide` |
| `RerunRedelivers` | `TapeIsRead` implies `[]RerunIsRedelivery` |
| `RunsRise` | `TapeIsRead` implies `[]TimesRise` |
| `RollupTypeCorrect`, `WalkTypeCorrect`, `RegistryTypeCorrect`, `ThrottleTypeCorrect`, `LetterTypeCorrect`, `EnrolTypeCorrect`, `ReadingTypeCorrect` | types and bounds of these machines, which `ServicesTypeOK` is made of |

Assumptions: `GroupAssumption` and `PipelineAssumption` (the types of the
constants; a worker is not `None`), `HubAssumption` and `StreamAssumption`
(capacities are positive, a send queue holds at least the two messages of
serveClosed, connections are finitely many and numbered), `OutingAssumption`,
`WalkAssumption` (a page has room for a row) and `RegistryAssumption` (types),
`BreakerAssumption`, which says one thing more: a call's timeout is shorter than
the breaker's cooldown, as the defaults of 2 and 30 seconds are. Of the others,
three say more than types. `RollupAssumption`: a summary lives shorter than its
counter, and by more than a request takes, as 5 minutes and 24 hours do
(cache.go:42 and 50). `LetterAssumption`: there is a ceiling (without one,
`--max-replays 0`, `ReplayChainIsShort` says nothing).
`ThrottleAssumption`: limits and window are positive, an account is no address.
TLC evaluates them all in the runs. For three theorems (`AtLeastOnce`, `NothingLost`,
`PipelineKeepsLedger`) there is also `Lossless`: there is a dead-letter topic,
its writes do not fail, and no shutdown interrupts a retry. Neither of the last
two can be dropped: `ImplementsLedger` fails in `pipeline_safety` as soon as
its `FaultKinds` admits `"shutdown"` or `"dlq"` (section 6). What is true
without it, `NothingElseIsLost` and `NothingElseIsUnrecorded` say: the loss is
confined to the messages that those two paths give up on. A garbled message
needs less, `LettersAreWritten`: it is never handed to the handler, so a shutdown
never finds it in a retry. `ToldInOrder` assumes what the code assumes: messages
of one session are in one partition (`Keyed`: the producer's key is the session,
producer.go:95-97), and no rebalance takes a partition from a reader at work.

Two hypotheses say what sorting and selecting do. Proving them takes an induction
over sequences, which is out of reach here. `ListsAreHandled` (Scoring_proofs):
sorting a list of integers yields the same values in ascending order, and
selecting outings with enough pitches yields outings. `TapeIsRead` (TapeReplay):
grouping, sorting and filtering the lines of a tape yield each outing's pitches
in the order thrown; this one also says something of the tape, that it names no
pitch twice and that the generator has a draw for each pitch. TLC checks them in
`services`: `TapeIsRead` as it stands, and of the first one the sorting of every
list that the detector comes to sort.

The arguments. That a commit is right depends on what its reader did before, so
neither `CommittedIsSettled` nor `OnlyAbandonedIsLost` is inductive. `InOrder(D)`
(ConsumerGroup_proofs) records it for any set `D` of messages that are done
with: what is committed is in `D`; what an owner has fetched is in `D` but for
the message it holds; everything before a held message is in `D`, *even if its
reader has lost the partition*; a message about to be committed is in `D`. The
third conjunct is why late commits that move the offset back are harmless.
`InOrderStep` proves once that a step keeps this, for a `D` that only grows and
that gets a message before its reader goes on to the commit. With what is handled,
lettered or abandoned for `D` it is `Accounting`, which needs no hypothesis at
all; `NothingIsAbandoned` says that under `Lossless` nothing is ever abandoned,
and `AtLeastOnce` follows. (`CommittedIsSettled` and `CommittedIsRecorded` are the two
`OnlyAbandoned` properties where nothing is abandoned; the runs check these, and
of the processor `ImplementsLedger`, whose `MoveTo` says the same.)

For the processor, `Inv` (PitchPipeline_proofs) says what a transaction knows
between its two halves: it has the session's row lock, and the index it read is
still one more than the maximum (`Locking`), because nobody else can insert
into the session (`LocksChange`, `RowsChange`). With `Segments` (a session's
indices are 1..k for some k) and `Numbered` (none twice) this is inductive; a
call past its commit carries the row it inserted (`Inserted`), rows never
change (`RowsStay`), and so events and acknowledgements tell the truth.
`NothingLost` and `NothingElseIsUnrecorded` need no invariant of their own:
the lemma `PipelineIsGroup` (`Spec => GroupSpec`; it holds by the way the module is
composed and says nothing of the code by itself) transfers the consumer's theorems
to the processor, and
`HandledIsStored` says that what was acknowledged is in the table.

`GarbledHasLetter` uses `InOrderStep` again, with every message that has its
letter or needs none for `D` (`Lettered`, `Sorting`). Who announces is decided by the insert:
`AnnouncedInv` says that two calls past their commit carry different pitches and
that what such a call is about to tell has not been told; an insert finds its
pitch absent, so nobody else is telling it or has. `CountInv` adds the calls
between commit and increment to the counter, so that an insertion adds one to
both sides and an increment moves a call to the counter. `ToldInOrder` needs that
a reader owns the partition of what it holds (`Owning`, which a rebalance breaks
and a crash does not), so that one call at a time carries a session
(`OneCallPerSession`) and has its last index until it has told (`Leading`).

`PipelineKeepsLedger` reads a session's ledger off the table
(`LedgerByIndex`, from `Segments` and `Numbered`). `InsertionIsEntry` shows that
an inserted row appends to its session's ledger and changes no other, with the
transaction's error or without; a commit is a `MoveTo` because of `Accounting`,
`NothingIsAbandoned` and `HandledIsStored`; nothing else touches table, letters or offsets
(`VisibleSteps`).

Two theorems are the safety halves of what liveness says. `ToDo(w)` counts the
steps a reader still takes for its message: two for each attempt that is left, a
letter, a commit (`ToDoIsBounded`). `WorkRunsDownStep` shows that a step leaves the
reader as it is or leaves it with less to do and, if anything, the same message;
only an attempt that is counted makes this true of the retry. `Effort` adds the
stages of the handler call, so that each step of the call counts (`EffortStep`).
What could keep the next step from coming is a row lock; `HoldersWork` says that
whoever holds one is between the two halves of its transaction in that session,
and thus past every wait for a lock, and that nobody dead or done holds any. What
remains for TLC is fairness: that an enabled step is taken.

For the hub, `QueueClosedOnce` needs to know *who* may still close a queue:
`QueueInv` says that a registered client's queue is open, that what the hub has
in hand is registered, and that a connection in its handshake has neither been
registered nor closed. `SlotsAreExact` needs the set it counts: `SlotInv` ties
`slots` to `Holders`, the connections with a slot not yet given back, and says
which stages and pumps make a holder; every step adds or removes one element of
a finite set.

`GapsAreReconciled` speaks of a page, but what makes it true is spread over the
connection: `StreamInv` has, for each connection, `FreshInv` (nothing is
numbered before the snapshot is queued) and `OrderInv` (numbers in the queue
and on the wire rise up to `nextSeq`, a number is in flight or lost and never
both, the snapshot is first and numbered 0), and for each page that its
`lastSeq` is behind what is in flight, and that every lost number up to `lastSeq`
belongs to a pitch that was in the table when the page's latest read ran its query
(`Sight`), unless a read that is needed has not run it yet, was given up or was
joined too late (`Blind`). The step that matters is `Receive`: the message's
predecessor in the numbering was either received or is lost, and then it is skipped
and `Ask` makes the page blind until a new query has run; the pitch was in the
table before it was fanned out (`FanInv`), so that query sees it. Its rows hold it
or `ReadLimit` newer ones. The hub's theorems hold of the live view by the lemma
`StreamIsHub`, which again is the way the module is composed.

For the evaluator, `AlertsAreFindings` says nothing of who is about to announce.
`TellersAreAlone` does: the process between `StoreFinding` and `Alert` is the
only one there for its finding, the row is stored and no call has been made,
because only the evaluation whose insert returned a row gets there. `JobsAreSet`
says that the local variables it needs are set, and `AcknowledgedAreFound` that
a viewer acknowledges what is stored, which no evaluation writes again. With
`MediansOf` (the pitch type in hand had enough pitches when its medians were read,
and the outing has had them) each step is one of the board or invisible
(`StepsOnBoard`); `AlertsAreFindings` and `AcknowledgedStays` are what a reader may
conclude from the board.

`EvaluatedIsJudged` speaks of an evaluation that is over, so `Judging` says of one
that is under way what it has done so far: once the totals are refreshed they
cover all pitches; of the types no longer on the list, every metric that departs
has its finding, and of the type in hand every metric before the present one
(`JudgedSoFar`). This holds as long as the outing has the pitches it had when it
was swept, no call for it failed, and the process has not noted another pitch of
it (`TakenAsIs`). Another process that evaluates the same outing only adds
findings, and totals never fall behind (`Onward`), so nobody undoes what has been
judged (`JudgedStands`). A type whose pitches are too few is not on the list, and
its departures are none of `Judged`.

For the breaker, a straggler is excluded by time. While it is open, what is still
under way was sent before the trip (`SentBeforeTrip`); no call lasts longer than
its timeout (`CallsAreShort`), which is shorter than the cooldown
(`SentAfterCooldown`). The lemma `NobodyLeft` puts them together: when the
breaker turns half-open nobody waits for an answer any more.

For the walk, `CursorDivides`: of the rows that were there from the start, those
up to the cursor have been shown once and those beyond it never. A full page
moves the cursor to its last row, and everything it left out is beyond that one,
equal sort keys included (`LastRowDivides`).

For the registry, an uncommitted mark is the danger, since the other
transaction's first statement does not see it. `MarkedReplaces` says that what
a marked activation has cleared is every other active version of its variant,
`MarksAreApart` that the index keeps marks of one variant apart, `ClearsItsOwn`
that nobody clears another variant's versions; `ActivesAreApart` follows at the
commit, and with it the cardinality of `OneActiveModel`. For the switch this makes
the commit the step that turns it: the version it removes is all its variant had,
the one it adds is the target, and other variants keep theirs; every other step of
an activation is invisible (`RegistryIsSwitch`).

For the cache, `RollupInv` follows the generation from the counter to the answer.
What is filed under the current generation holds every row that the last
invalidation was about (`CurrentIsFresh`), because whoever computes under a
generation reads the table after reading the counter. What a request finds under
the generation it read therefore holds what was invalidated before it began
(`FoundIsDue`). Generation 0 is where this could break: an expired counter reads
as 0 like one that never was. What was stored under it before the counter began
is dead by the time the counter is, since it lives shorter (`BlankIsFresh`); that
is what the assumption on the lifetimes is for, and the time it adds is that of
a request which is about to store. Where a counter that starts anew meets entries
of its former numbers, `overlapped` ends the claim (section 6).

For the throttle, each counter is fitted to the attempts that it let through.
Redis's covers all attempts of the sliding window, and it outlives the latest of
them, because every attempt renews the expiry (`SharedFits`): at most `LimitOf(k)`
in any window. A process's window begins with its first attempt and is not
renewed, so a sliding window can meet two of them. `OwnFits` says that the counter
covers the attempts since the present one began and that the earlier ones in
sight all belong to the one before, at most the limit by themselves; hence twice
the limit.

For the letters, `CountIsDepth` says that the number that travels from letter to
header to letter is the number of replays behind it, of what is queued and of
what is on its way; the tool's comparison then bounds the chain.
`ReadIsReplayed` says of a drain what it has done up to where it is: of the
letters that were there at its beginning, those behind its place have been
replayed, if filter and ceiling let them and nothing failed. New letters go to
the end of a partition and change nothing of this.

For the tape, there is one course of an outing's clock for each day it may begin on
(`Course`), a sequence in which each state is the step of the one before; of a
dated outing all courses are the same. `Follows` says that the clock of
the run under way is on it, as far as the run has come, and that all runs took
their events from it; `OneCourse` says this of every outing. So runs differ in how
far they came and not in what they said. Times rise because the least gap
outweighs the most negative jitter (`GapIsPositive`).

For the rows, `RowIsTheJoin` is inductive together with the types. `Joined` states
it of one row and what was said of its athlete; a transaction, committed again or
not, adds one role, and perhaps a side, to what was said and merges it into the row, and `Merge` takes
the one joined row to the other.

For readings, everything hangs on the bounds: those that clamp a mirrored field
are symmetric about its mirror (`BoundsAreSymmetric`), therefore to clamp the
mirror is to mirror the clamped (`ClampOfMirror`), and each feature undoes the
mirror by the hand, squares it away, or is the hand.

For the detector, more than half of the values cannot lie on one side of the
middle of a sorted list (`MostReachesMiddle`): the median is within the range of
any majority, and so is the median of the distances from it
(`SpreadLiesWithMost`). The rest is arithmetic on the thresholds.

Only model-checked. Liveness is beyond the prover (fairness and ENABLED):
`ReadersComeBack`, `EventuallyRecorded`, `ShutdownCompletes`, `QuietIsJudged`,
`AlarmEndsConnection` and `ShutdownEndsEveryone`. What recursive and chosen
sequences amount to is beyond it as well: the two hypotheses above. And the
properties of the findings are refuted, not proved. Every other property that a
run checks is a theorem; `ServicesTypeOK`, a choice between machines that share
nothing, is one theorem for each machine and for the detector and the tape the
two hypotheses. What liveness rests on and fairness does not is proved:
`MessagesAreFinished`, `PitchesAreFinished` and `LocksAreAtWork` for the consumers,
`DoneIsJudged` for the evaluator.

## 6. Findings

Each is a run that TLC ends with a counterexample; `PROJECT.json` quotes the
lines.

* `lost_announcement`: after a failed publish the retry takes the duplicate
  path and returns before the publish. A stored pitch may never be announced;
  the comment at pipeline.go:183-185 calls this harmless.
* `false_finish`: the hub closes the queue of a client whose pong timed out. Its
  writer, on a socket that is still open, may take the closed queue for the end
  of the outing and send 1000 before the reader closes the socket; a browser
  that was only slow shows "finished" and never dials again.
* `handshake_gap`: the snapshot's last index is read before the upgrade, the
  connection is registered after it, and the page compares the index with
  nothing. A pitch stored and fanned out in between, after the page's first
  REST read, is in neither and leaves no gap. The comment at message.go:85-87
  says the index is there for exactly this.
* `live_restart`: the evaluation of a quiet outing drops its counters
  (anomaly_consumer.go:199-212). If the outing goes on, RecordPitch creates the
  hash anew and HINCRBY starts at one (cache/live.go:73); readers take it for
  the whole outing, where the comment at api/websocket.go:96-98 says that Redis
  and the rows give the same numbers. No failure is needed.
* `misattributed`: a prediction is filed under the version that is active when
  it is written (pipeline.go:474-493); the version that the service reports with
  its answer (327) is not compared. Between loading a model and activating it,
  or the other way round, scores are filed under a model that did not make them,
  which migrations/000002_reference_tables.up.sql:67 rules out.

Gaps that the models show and that have no run of their own:

* Cancelled during a retry, processMessage returns with nothing recorded and
  runReader still asks for the commit (consumer.go:306). A dead letter that
  cannot be written is logged, and the offset moves on (481). Each refutes
  `ImplementsLedger` once its kind is in `FaultKinds`; that nothing else is
  lost is `OnlyAbandonedIsLost`.
* A gap in the numbers, or a reconnection, makes the page read the newest 20
  pitches (LiveSession.tsx:78) for a feed of 40 (132). Of a longer loss (a send
  queue holds 256) the older ones stay missing between pitches that are shown, where
  the comment at 85-88 calls the read the compensation and the page says that the
  dropped messages "have been refetched" (186-187). `GapsAreReconciled` ends where
  the read does; it exempts a read given up after its retries, which nothing
  repeats until something else asks.
* A tape without a date is dated on the day of the run (timing.go:130-133): its
  reruns have the same keys and other times. `RerunIsRedelivery` exempts it.
* The comment at pipeline.go:407-409 relies on one goroutine per partition for
  dense indices; a rebalance breaks that, the row lock keeps them dense, and
  events may leave out of order (`AnalyzedInOrder` fails with `"rebalance"`).
* The comment at pipeline.go:198-200 calls the counter's increment "exactly
  once"; a crash or a failed Redis call makes it at most once, which is what
  `LiveNeverAhead` checks.
* The evaluator's offset is committed when a pitch is noted in memory: a process
  that dies forgets quiet outings for good, a failed evaluation is only logged,
  and a failed publish of a finding is only warned about. `QuietIsJudged` exempts
  the outings of the first two (`spoiled`), `ImplementsBoard` allows the third.
* The comment at closeSession (handlers_pitches.go:362-366) has closing an
  outing trigger its evaluation; the code leaves that to the idle timeout.
* The breaker's comment (breaker.go:23-24) lets a single probe through; any
  number of callers are admitted while it is half-open, and every error counts
  as a failure, a rejected request and the caller's own cancellation among them.
* A generation counter that expires starts at zero again and may meet summaries
  stored under its old numbers, where the comment at cache.go:44-49 leaves no
  overlap: a request that read the counter just before it expired stores under
  it afterwards. `overlapped` marks this, and `RollupIsCurrent` exempts it.
* With `--max-replays 0` the ceiling is off, and a message that keeps failing is
  filed again behind the reader of the drain that replays it: that drain need
  not end (dlq-replay main.go:58). A read that fails or is cancelled counts as
  the end of its partition and not as a failure (111-117); `DrainIsWhole` exempts
  it (`cut`).
* Two transactions that insert the same new athlete or device can collide on the
  primary key, which the ON CONFLICT clause does not name; a unique violation is
  a permanent error (kafka/errors.go:114) and a healthy pitch is dead-lettered.
* quality (normalize.go) is graded on the reading as it came: a value that the
  bounds discard still counts as present.
* The hub may stop between the upgrade and the registration: the handler
  closes the socket and gives the address's slot back to nobody (handler.go:236).
  The API waits for the hub, not for the pumps that send 1001
  (cmd/api/main.go:183). Both at shutdown only.

## 7. Not modelled, and the plan

Left out for good: cryptography (tokens, password hashes), HTTP plumbing and
the middleware other than pagination, configuration, metrics and logging, the
consumer lag sampler (it reads offsets and changes nothing), load, seed and debug
commands, reads of single rows, and the statistics of the model service (a
prediction comes back or it does not).

Left out of the modules above. In the pipeline: the failure of a transaction by
deadlock (a `TxFails`; the circle is in Enrolment), batches of the producer. In
the outing: the averages kept next to the live count; the detector's version,
which is part of a finding's key and one in any build. In the cache: other
athletes and windows, and the count of open anomalies in a cached summary, which
no anomaly invalidates. In the letters: the dry run and letters that do not
decode. In the reading: features that a field of the event is copied into. On the
tape: the wait between two pitches, and the measurements it copies. In the live
view: tokens and origins (checked before a slot is taken), the opt-out of
metrics that a client may send, the gauges, the lists of anomalies that a page cuts at 10,
the contents of snapshot and rollup, a message that does not encode.

What is left of the plan. Proofs: the safety half of `ShutdownEndsEveryone` (a
measure of what each pump still does once the hub has stopped), and a common
abstract specification of the two counters of LoginThrottle. Models: the two
hazards of `PROJECT.json` without a property (a live count that stays behind after
a crash, an event lost before it has a number) are gaps of the code; each becomes
a property once the code closes it.
