---------------------------- MODULE RollupCache ----------------------------
(***************************************************************************)
(* The cache-aside of GET /athletes/{id}/analytics                         *)
(* (internal/cache/analytics.go, api/handlers_athletes.go).                *)
(*                                                                         *)
(* A rollup is stored under the athlete's generation, a counter that the   *)
(* processor increments after every pitch it has stored.  A request reads  *)
(* the generation once, looks the rollup up, and on a miss computes it     *)
(* from PostgreSQL and stores it, all with that one generation.  Every     *)
(* Redis call may fail and is then a miss or is skipped; both kinds of key *)
(* have a time to live.                                                    *)
(*                                                                         *)
(* One athlete and one variant: keys differ in the athlete and the query's *)
(* window, and no step touches two.  A rollup is the number of rows it was *)
(* computed from.                                                          *)
(***************************************************************************)
EXTENDS Integers

CONSTANTS
  Request,         \* the handler's concurrent calls
  SummaryTTL, GenerationTTL,
  MaxRows,         \* bound: pitches of the athlete
  MaxTime,         \* bound: the clock
  MaxMisses,       \* bound: failing Redis calls
  Absent           \* no key; nothing computed

ASSUME RollupAssumption ==
  /\ SummaryTTL \in Nat \ {0}
  /\ GenerationTTL \in Nat
  /\ SummaryTTL + 1 < GenerationTTL
  /\ MaxRows \in Nat
  /\ MaxTime \in Nat
  /\ MaxMisses \in Nat
  /\ Absent \notin Nat

VARIABLES
  now,
  rows,            \* pitches of the athlete in PostgreSQL
  toBump,          \* pitches stored whose invalidation is still to come
  generation,      \* [count, until]  the key analytics generation
  rollups,         \* [0..MaxRows -> [of, until]]  the keys by generation
  request,         \* [at, since, generation, of, blind]  the calls
  \* history
  promised,        \* rows at the last invalidation
  due,             \* [Request -> Nat]  promised, when the request began
  overlapped,      \* the counter started anew under the eyes of older entries
  misses

redisVars   == <<generation, rollups>>
historyVars == <<promised, due, overlapped>>
rollupVars  == <<now, rows, toBump, redisVars, request, historyVars, misses>>

Stages  == {"idle", "looking", "computing", "storing", "answered"}
Entry   == [of : 0..MaxRows \cup {Absent}, until : Nat]
Call    == [at : Stages, since : Nat, generation : 0..MaxRows,
            of : 0..MaxRows \cup {Absent}, blind : BOOLEAN]
NoCall  == [at |-> "idle", since |-> 0, generation |-> 0, of |-> Absent, blind |-> FALSE]

RollupTypeOK ==
  /\ now \in 0..MaxTime
  /\ rows \in 0..MaxRows
  /\ toBump \in 0..rows
  /\ generation \in [count : 0..MaxRows, until : Nat]
  /\ generation.count + toBump <= rows
  /\ rollups \in [0..MaxRows -> Entry]
  /\ request \in [Request -> Call]
  /\ promised \in 0..rows
  /\ due \in [Request -> 0..MaxRows]
  /\ overlapped \in BOOLEAN
  /\ misses \in Nat

RollupInit ==
  /\ now = 0
  /\ rows = 0
  /\ toBump = 0
  /\ generation = [count |-> 0, until |-> 0]
  /\ rollups = [g \in 0..MaxRows |-> [of |-> Absent, until |-> 0]]
  /\ request = [r \in Request |-> NoCall]
  /\ promised = 0
  /\ due = [r \in Request |-> 0]
  /\ overlapped = FALSE
  /\ misses = 0

Miss == misses < MaxMisses /\ misses' = misses + 1

\* An expired counter reads as 0, "no generation recorded".
Generation == IF now < generation.until THEN generation.count ELSE 0

Alive(g) == rollups[g].of # Absent /\ now < rollups[g].until

----------------------------------------------------------------------------
(* The processor: a pitch is committed, then updateCache invalidates.      *)

CommitRow ==
  /\ rows < MaxRows
  /\ rows' = rows + 1
  /\ toBump' = toBump + 1
  /\ UNCHANGED <<now, redisVars, request, historyVars, misses>>

\* Older entries that a new count could name: stored, or about to be.
Reachable ==
  \/ \E g \in 1..MaxRows : Alive(g)
  \/ \E r \in Request : request[r].at # "idle" /\ request[r].generation > 0

InvalidateAthlete ==
  /\ toBump > 0
  /\ toBump' = toBump - 1
  /\ generation' = [count |-> Generation + 1, until |-> now + GenerationTTL]
  /\ promised' = rows
  /\ overlapped' = (overlapped \/ (Generation < generation.count /\ Reachable))
  /\ UNCHANGED <<now, rows, rollups, request, due, misses>>

InvalidationFails ==
  /\ toBump > 0
  /\ Miss
  /\ toBump' = toBump - 1
  /\ UNCHANGED <<now, rows, redisVars, request, historyVars>>

----------------------------------------------------------------------------
(* getAthleteAnalytics, one step per call.                                 *)

ReadGeneration(r) ==
  /\ request[r].at = "idle"
  /\ request' = [request EXCEPT ![r].at = "looking", ![r].since = now,
                               ![r].generation = Generation]
  /\ due' = [due EXCEPT ![r] = promised]
  /\ UNCHANGED <<now, rows, toBump, redisVars, promised, overlapped, misses>>

\* The counter cannot be read: the request goes on with generation 0.
GenerationUnread(r) ==
  /\ request[r].at = "idle"
  /\ Miss
  /\ request' = [request EXCEPT ![r].at = "looking", ![r].since = now,
                               ![r].generation = 0, ![r].blind = TRUE]
  /\ due' = [due EXCEPT ![r] = promised]
  /\ UNCHANGED <<now, rows, toBump, redisVars, promised, overlapped>>

Hit(r) ==
  /\ request[r].at = "looking"
  /\ Alive(request[r].generation)
  /\ request' = [request EXCEPT ![r].at = "answered",
                               ![r].of = rollups[request[r].generation].of]
  /\ UNCHANGED <<now, rows, toBump, redisVars, historyVars, misses>>

NotCached(r) ==
  /\ request[r].at = "looking"
  /\ ~Alive(request[r].generation)
  /\ request' = [request EXCEPT ![r].at = "computing"]
  /\ UNCHANGED <<now, rows, toBump, redisVars, historyVars, misses>>

LookupFails(r) ==
  /\ request[r].at = "looking"
  /\ Miss
  /\ request' = [request EXCEPT ![r].at = "computing"]
  /\ UNCHANGED <<now, rows, toBump, redisVars, historyVars>>

\* What the queries say of the athlete's pitches.
GetAthleteSummary == rows

\* Several queries; the rollup is as old as the first of them.
ComputeRollup(r) ==
  /\ request[r].at = "computing"
  /\ request' = [request EXCEPT ![r].at = "storing", ![r].of = GetAthleteSummary]
  /\ UNCHANGED <<now, rows, toBump, redisVars, historyVars, misses>>

\* Mutant of StoreUnder: the generation is read again before the write.
StoreUnderCurrent(r) == Generation
StoreUnder(r) == request[r].generation

SetAnalytics(r) ==
  /\ request[r].at = "storing"
  /\ rollups' = [rollups EXCEPT ![StoreUnder(r)] =
                  [of |-> request[r].of, until |-> now + SummaryTTL]]
  /\ request' = [request EXCEPT ![r].at = "answered"]
  /\ UNCHANGED <<now, rows, toBump, generation, historyVars, misses>>

StoreFails(r) ==
  /\ request[r].at = "storing"
  /\ Miss
  /\ request' = [request EXCEPT ![r].at = "answered"]
  /\ UNCHANGED <<now, rows, toBump, redisVars, historyVars>>

Answer(r) ==
  /\ request[r].at = "answered"
  /\ request' = [request EXCEPT ![r] = NoCall]
  /\ due' = [due EXCEPT ![r] = 0]
  /\ UNCHANGED <<now, rows, toBump, redisVars, promised, overlapped, misses>>

\* A tick is longer than a request may take (the server's timeouts are seconds,
\* the lifetimes minutes and hours): none is overtaken by two.
Tick ==
  /\ now < MaxTime
  /\ \A r \in Request : request[r].at # "idle" => request[r].since = now
  /\ now' = now + 1
  /\ UNCHANGED <<rows, toBump, redisVars, request, historyVars, misses>>

RollupNext ==
  \/ CommitRow \/ InvalidateAthlete \/ InvalidationFails \/ Tick
  \/ \E r \in Request :
       \/ ReadGeneration(r) \/ GenerationUnread(r)
       \/ Hit(r) \/ NotCached(r) \/ LookupFails(r)
       \/ ComputeRollup(r) \/ SetAnalytics(r) \/ StoreFails(r) \/ Answer(r)

RollupSpec == RollupInit /\ [][RollupNext]_rollupVars

----------------------------------------------------------------------------
\* A request that could read the generation is answered with every pitch whose
\* invalidation preceded it, whatever slow computations of earlier generations
\* store meanwhile (handlers_athletes.go, getAthleteAnalytics; analytics.go,
\* GetAnalytics), unless the counter has overlapped older entries.
RollupIsCurrent ==
  \A r \in Request :
    request[r].at = "answered" /\ ~request[r].blind /\ ~overlapped
      => request[r].of >= due[r]
============================================================================
