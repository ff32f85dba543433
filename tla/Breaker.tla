------------------------------- MODULE Breaker -------------------------------
(***************************************************************************)
(* The circuit breaker in front of the inference service                   *)
(* (internal/mlclient/breaker.go) and the client's calls through it        *)
(* (client.go, Predict and Explain).                                       *)
(*                                                                         *)
(* One mutex guards the breaker; a call holds it twice, to be allowed and  *)
(* to report its outcome, and not in between.  Any number of goroutines    *)
(* call at once, so an outcome is reported to a breaker that may have      *)
(* moved on since the call was allowed.  The client's HTTP timeout ends    *)
(* every call.                                                             *)
(***************************************************************************)
EXTENDS Integers

CONSTANTS
  Caller,              \* goroutines that call the inference service
  FailureThreshold, OpenDuration, HalfOpenSuccesses,   \* BreakerConfig
  CallTimeout,         \* Config.Timeout
  MaxClock             \* bound: the clock

\* NewBreaker replaces what is not positive by a default; the defaults of the
\* two durations are 2 s and 30 s.
ASSUME BreakerAssumption ==
  /\ FailureThreshold \in Nat \ {0}
  /\ HalfOpenSuccesses \in Nat \ {0}
  /\ OpenDuration \in Nat
  /\ CallTimeout \in Nat
  /\ CallTimeout < OpenDuration
  /\ MaxClock \in Nat

VARIABLES
  clock,
  state, consecutiveFails, halfOpenSuccesses, openedAt,   \* Breaker
  call,           \* [Caller -> [under : BOOLEAN, since : Nat]]
  trippedAt       \* history: when the breaker last opened; -OpenDuration at first

breakerVars == <<clock, state, consecutiveFails, halfOpenSuccesses, openedAt, call, trippedAt>>

BreakerTypeOK ==
  /\ clock \in Nat
  /\ state \in {"closed", "open", "half_open"}
  /\ consecutiveFails \in 0..FailureThreshold
  /\ halfOpenSuccesses \in 0..(HalfOpenSuccesses - 1)
  /\ openedAt \in 0..clock
  /\ call \in [Caller -> [under : BOOLEAN, since : Nat]]
  /\ trippedAt \in Int
  /\ state = "closed" => consecutiveFails < FailureThreshold

BreakerInit ==
  /\ clock = 0
  /\ state = "closed"
  /\ consecutiveFails = 0
  /\ halfOpenSuccesses = 0
  /\ openedAt = 0
  /\ call = [c \in Caller |-> [under |-> FALSE, since |-> 0]]
  /\ trippedAt = -OpenDuration

Begin(c) == call' = [call EXCEPT ![c] = [under |-> TRUE, since |-> clock]]
End(c)   == call' = [call EXCEPT ![c] = [under |-> FALSE, since |-> 0]]

\* Mutant of Rested: the cooldown counts from the start of the process.
RestedSinceStart == clock >= OpenDuration
Rested == clock - openedAt >= OpenDuration

\* State: a read of the breaker, by Allow or for a metric, is what moves it
\* from open to half-open.
Advance ==
  /\ state = "open" /\ Rested
  /\ state' = "half_open"
  /\ halfOpenSuccesses' = 0

BreakerState ==
  /\ Advance
  /\ UNCHANGED <<clock, consecutiveFails, openedAt, call, trippedAt>>

\* Do is allowed to call.  (When it is not, it returns ErrCircuitOpen and
\* nothing changes.)
Allow(c) ==
  /\ ~call[c].under
  /\ \/ Advance
     \/ state # "open" /\ UNCHANGED <<state, halfOpenSuccesses>>
  /\ Begin(c)
  /\ UNCHANGED <<clock, consecutiveFails, openedAt, trippedAt>>

RecordSuccess(c) ==
  /\ call[c].under
  /\ End(c)
  /\ consecutiveFails' = 0
  /\ IF state = "half_open"
     THEN IF halfOpenSuccesses + 1 >= HalfOpenSuccesses
          THEN state' = "closed" /\ halfOpenSuccesses' = 0
          ELSE state' = state /\ halfOpenSuccesses' = halfOpenSuccesses + 1
     ELSE UNCHANGED <<state, halfOpenSuccesses>>
  /\ UNCHANGED <<clock, openedAt, trippedAt>>

TripNow ==
  /\ state' = "open"
  /\ openedAt' = clock
  /\ trippedAt' = clock

\* Mutant of FailHalfOpen: the probe's failure does not start a new cooldown.
FailHalfOpenOnly ==
  /\ state = "half_open"
  /\ state' = "open"
  /\ trippedAt' = clock
  /\ halfOpenSuccesses' = 0
  /\ UNCHANGED <<consecutiveFails, openedAt>>

FailHalfOpen ==
  /\ state = "half_open"
  /\ TripNow
  /\ halfOpenSuccesses' = 0
  /\ UNCHANGED consecutiveFails

\* Mutant of FailClosed: one failure more than the threshold trips it.
FailClosedLate ==
  /\ state = "closed"
  /\ consecutiveFails' = consecutiveFails + 1
  /\ IF consecutiveFails >= FailureThreshold
     THEN TripNow
     ELSE UNCHANGED <<state, openedAt, trippedAt>>
  /\ UNCHANGED halfOpenSuccesses

FailClosed ==
  /\ state = "closed"
  /\ consecutiveFails' = consecutiveFails + 1
  /\ IF consecutiveFails + 1 >= FailureThreshold
     THEN TripNow
     ELSE UNCHANGED <<state, openedAt, trippedAt>>
  /\ UNCHANGED halfOpenSuccesses

\* A call that was allowed before the breaker opened.
FailOpen ==
  /\ state = "open"
  /\ UNCHANGED <<state, consecutiveFails, halfOpenSuccesses, openedAt, trippedAt>>

\* Whatever the error: unreachable, timed out, refused, not decodable, the
\* caller's own cancellation.
RecordFailure(c) ==
  /\ call[c].under
  /\ End(c)
  /\ FailHalfOpen \/ FailClosed \/ FailOpen
  /\ UNCHANGED clock

\* The HTTP client's timeout (external: net/http).
ClockTick ==
  /\ clock < MaxClock
  /\ \A c \in Caller : call[c].under => clock - call[c].since < CallTimeout
  /\ clock' = clock + 1
  /\ UNCHANGED <<state, consecutiveFails, halfOpenSuccesses, openedAt, call, trippedAt>>

BreakerNext ==
  \/ BreakerState \/ ClockTick
  \/ \E c \in Caller : Allow(c) \/ RecordSuccess(c) \/ RecordFailure(c)

BreakerSpec == BreakerInit /\ [][BreakerNext]_breakerVars

----------------------------------------------------------------------------
\* While the breaker is half-open every call under way was sent after the
\* cooldown: no straggler of before the trip is counted as a probe, so neither
\* its success closes the breaker nor its failure reopens it (breaker.go,
\* RecordSuccess and RecordFailure, which take an outcome from anyone).
CallsAreProbes ==
  state = "half_open" =>
    \A c \in Caller : call[c].under => call[c].since >= trippedAt + OpenDuration

\* No call is sent within OpenDuration of a trip, the first or a later one
\* (breaker.go, Allow).
OpenRests ==
  [][\A c \in Caller : ~call[c].under /\ call'[c].under
       => clock - trippedAt >= OpenDuration]_breakerVars
============================================================================
