-------------------------- MODULE Scoring_proofs ---------------------------
(***************************************************************************)
(* What a scored pitch and a judged outing rest on: the breaker before the *)
(* model service, the registry of models, the frame the features are       *)
(* computed in, and the medians of the detector.                           *)
(*                                                                         *)
(* Breaker: while it is open every call still under way was sent before the*)
(* trip (SentBeforeTrip).  No call lasts CallTimeout, so by the time the   *)
(* cooldown is over none of them is left, and what is under way in the     *)
(* half-open state was sent after it (SentAfterCooldown).                  *)
(*                                                                         *)
(* ModelRegistry: what an activation has marked, and not yet committed,    *)
(* replaces every active version of its variant (MarkedReplaces).  Nobody  *)
(* else can add one in between, because the index makes a second mark of   *)
(* the variant wait (MarksAreApart), and an activation clears versions of  *)
(* its own variant only (ClearsItsOwn).                                    *)
(*                                                                         *)
(* Reading: the bounds that clamp a mirrored field are symmetric about its *)
(* mirror (BoundsAreSymmetric), so clamping commutes with it               *)
(* (ClampOfMirror), and each feature undoes the mirror by the hand, or     *)
(* squares it away.                                                        *)
(*                                                                         *)
(* Baseline: more than half of the values cannot all lie on one side of the*)
(* middle of the sorted list (MostReachesMiddle), so the median lies with  *)
(* them, and so does the median of the distances from it                   *)
(* (SpreadLiesWithMost).  That sorting sorts and selecting selects is not  *)
(* proved: it is the hypothesis ListsAreHandled.                           *)
(***************************************************************************)
EXTENDS Breaker, ModelRegistry, Reading, Baseline, FiniteSetTheorems, TLAPS

----------------------------------------------------------------------------
(* The circuit breaker.                                                    *)

CallsAreShort ==
  \A c \in Caller : call[c].under =>
    call[c].since <= clock /\ clock - call[c].since <= CallTimeout

SentBeforeTrip ==
  state = "open" =>
    /\ trippedAt = openedAt
    /\ \A c \in Caller : call[c].under => call[c].since <= trippedAt

SentAfterCooldown == state # "open" => clock >= trippedAt + OpenDuration

BreakerInv ==
  /\ BreakerTypeOK
  /\ CallsAreShort
  /\ SentBeforeTrip
  /\ SentAfterCooldown
  /\ CallsAreProbes

\* When the cooldown is over, nobody waits for an answer any more.
LEMMA NobodyLeft ==
  ASSUME BreakerInv, Advance
  PROVE  /\ \A c \in Caller : ~call[c].under
         /\ clock >= trippedAt + OpenDuration
  <1>1. clock - openedAt >= OpenDuration /\ state = "open"
    BY DEF Advance, Rested
  <1>2. clock \in Nat /\ openedAt \in Nat /\ trippedAt = openedAt
    BY <1>1 DEF BreakerInv, BreakerTypeOK, SentBeforeTrip
  <1>3. ASSUME NEW c \in Caller, call[c].under PROVE FALSE
    <2>1. call[c].since <= trippedAt /\ clock - call[c].since <= CallTimeout
      BY <1>1, <1>3 DEF BreakerInv, SentBeforeTrip, CallsAreShort
    <2>2. call[c].since \in Nat
      BY DEF BreakerInv, BreakerTypeOK
    <2> QED BY <1>1, <1>2, <2>1, <2>2, BreakerAssumption
  <1> QED BY <1>1, <1>2, <1>3, BreakerAssumption

LEMMA InitBreaker == BreakerInit => BreakerInv
  <1> SUFFICES ASSUME BreakerInit PROVE BreakerInv
    OBVIOUS
  <1>1. BreakerTypeOK
    BY BreakerAssumption DEF BreakerInit, BreakerTypeOK
  <1>2. CallsAreShort /\ SentBeforeTrip /\ SentAfterCooldown /\ CallsAreProbes
    BY BreakerAssumption
    DEF BreakerInit, CallsAreShort, SentBeforeTrip, SentAfterCooldown, CallsAreProbes
  <1> QED BY <1>1, <1>2 DEF BreakerInv

LEMMA NextBreaker == BreakerInv /\ [BreakerNext]_breakerVars => BreakerInv'
  <1> SUFFICES ASSUME BreakerInv, [BreakerNext]_breakerVars PROVE BreakerInv'
    OBVIOUS
  <1> USE BreakerAssumption
  <1>1. CASE BreakerState
    <2>1. Advance /\ UNCHANGED <<clock, consecutiveFails, openedAt, call, trippedAt>>
      BY <1>1 DEF BreakerState
    <2>2. \A c \in Caller : ~call[c].under
      BY <2>1, NobodyLeft
    <2>3. clock >= trippedAt + OpenDuration
      BY <2>1, NobodyLeft
    <2>4. BreakerTypeOK'
      BY <2>1 DEF BreakerInv, BreakerTypeOK, Advance
    <2> QED BY <2>1, <2>2, <2>3, <2>4
        DEF BreakerInv, Advance, CallsAreShort, SentBeforeTrip, SentAfterCooldown, CallsAreProbes
  <1>2. CASE ClockTick
    <2>1. BreakerTypeOK'
      BY <1>2 DEF BreakerInv, BreakerTypeOK, ClockTick
    <2>2. CallsAreShort'
      BY <1>2 DEF BreakerInv, BreakerTypeOK, ClockTick, CallsAreShort
    <2>3. SentBeforeTrip' /\ CallsAreProbes'
      BY <1>2 DEF BreakerInv, ClockTick, SentBeforeTrip, CallsAreProbes
    <2>4. SentAfterCooldown'
      BY <1>2 DEF BreakerInv, BreakerTypeOK, ClockTick, SentAfterCooldown
    <2> QED BY <2>1, <2>2, <2>3, <2>4 DEF BreakerInv
  <1>3. ASSUME NEW d \in Caller, Allow(d) PROVE BreakerInv'
    <2>1. /\ ~call[d].under
          /\ call' = [call EXCEPT ![d] = [under |-> TRUE, since |-> clock]]
          /\ UNCHANGED <<clock, consecutiveFails, openedAt, trippedAt>>
      BY <1>3 DEF Allow, Begin
    <2>2. state' # "open" /\ clock >= trippedAt + OpenDuration
      <3>1. CASE Advance
        BY <3>1, NobodyLeft DEF Advance
      <3>2. CASE state # "open" /\ UNCHANGED <<state, halfOpenSuccesses>>
        BY <3>2 DEF BreakerInv, SentAfterCooldown
      <3> QED BY <1>3, <3>1, <3>2 DEF Allow
    <2>3. call'[d] = [under |-> TRUE, since |-> clock]
          /\ \A c \in Caller \ {d} : call'[c] = call[c]
      BY <2>1 DEF BreakerInv, BreakerTypeOK
    <2>4. call' \in [Caller -> [under : BOOLEAN, since : Nat]]
      BY <2>1 DEF BreakerInv, BreakerTypeOK
    <2>5. BreakerTypeOK'
      <3>1. CASE Advance
        BY <2>1, <2>4, <3>1 DEF BreakerInv, BreakerTypeOK, Advance
      <3>2. CASE state # "open" /\ UNCHANGED <<state, halfOpenSuccesses>>
        BY <2>1, <2>4, <3>2 DEF BreakerInv, BreakerTypeOK
      <3> QED BY <1>3, <3>1, <3>2 DEF Allow
    <2>6. CallsAreShort'
      <3> SUFFICES ASSUME NEW c \in Caller, call'[c].under
                   PROVE  call'[c].since <= clock /\ clock - call'[c].since <= CallTimeout
        BY <2>1 DEF CallsAreShort
      <3>1. CASE c = d
        BY <3>1, <2>3 DEF BreakerInv, BreakerTypeOK
      <3>2. CASE c # d
        BY <3>2, <2>3 DEF BreakerInv, CallsAreShort
      <3> QED BY <3>1, <3>2
    <2>7. CallsAreProbes'
      <3> SUFFICES ASSUME state' = "half_open", NEW c \in Caller, call'[c].under
                   PROVE  call'[c].since >= trippedAt + OpenDuration
        BY <2>1 DEF CallsAreProbes
      <3>1. CASE c = d
        BY <3>1, <2>2, <2>3
      <3>2. CASE c # d
        <4>1. CASE Advance
          BY <4>1, <3>2, <2>3, NobodyLeft
        <4>2. CASE UNCHANGED <<state, halfOpenSuccesses>>
          BY <4>2, <3>2, <2>3 DEF BreakerInv, CallsAreProbes
        <4> QED BY <1>3, <4>1, <4>2 DEF Allow
      <3> QED BY <3>1, <3>2
    <2> QED BY <2>1, <2>2, <2>5, <2>6, <2>7
        DEF BreakerInv, SentBeforeTrip, SentAfterCooldown
  <1>4. ASSUME NEW d \in Caller, RecordSuccess(d) PROVE BreakerInv'
    <2>1. /\ call' = [call EXCEPT ![d] = [under |-> FALSE, since |-> 0]]
          /\ consecutiveFails' = 0
          /\ UNCHANGED <<clock, openedAt, trippedAt>>
      BY <1>4 DEF RecordSuccess, End
    <2>2. call' \in [Caller -> [under : BOOLEAN, since : Nat]]
          /\ ~call'[d].under
          /\ \A c \in Caller \ {d} : call'[c] = call[c]
      BY <2>1 DEF BreakerInv, BreakerTypeOK
    <2>3. /\ state' = "open" <=> state = "open"
          /\ state' = "half_open" => state = "half_open"
      BY <1>4 DEF RecordSuccess
    <2>4. BreakerTypeOK'
      BY <1>4, <2>1, <2>2 DEF BreakerInv, BreakerTypeOK, RecordSuccess
    <2>5. CallsAreShort'
      BY <2>1, <2>2 DEF BreakerInv, CallsAreShort
    <2>6. SentBeforeTrip' /\ SentAfterCooldown' /\ CallsAreProbes'
      BY <2>1, <2>2, <2>3 DEF BreakerInv, SentBeforeTrip, SentAfterCooldown, CallsAreProbes
    <2> QED BY <2>4, <2>5, <2>6 DEF BreakerInv
  <1>5. ASSUME NEW d \in Caller, RecordFailure(d) PROVE BreakerInv'
    <2>1. call' = [call EXCEPT ![d] = [under |-> FALSE, since |-> 0]] /\ clock' = clock
      BY <1>5 DEF RecordFailure, End
    <2>2. call' \in [Caller -> [under : BOOLEAN, since : Nat]]
          /\ ~call'[d].under
          /\ \A c \in Caller \ {d} : call'[c] = call[c]
      BY <2>1 DEF BreakerInv, BreakerTypeOK
    <2>3. CallsAreShort'
      BY <2>1, <2>2 DEF BreakerInv, CallsAreShort
    <2>4. ASSUME TripNow, consecutiveFails' \in 0..FailureThreshold,
                 halfOpenSuccesses' \in 0..(HalfOpenSuccesses - 1)
          PROVE  BreakerInv'
      <3>1. BreakerTypeOK'
        BY <2>1, <2>2, <2>4 DEF BreakerInv, BreakerTypeOK, TripNow
      <3>2. SentBeforeTrip'
        BY <2>1, <2>2, <2>4 DEF BreakerInv, TripNow, SentBeforeTrip, CallsAreShort
      <3> QED BY <2>3, <2>4, <3>1, <3>2
          DEF BreakerInv, TripNow, SentAfterCooldown, CallsAreProbes
    <2>5. CASE FailHalfOpen
      BY <2>4, <2>5 DEF FailHalfOpen, BreakerInv, BreakerTypeOK
    <2>6. CASE FailClosed
      <3>1. consecutiveFails' \in 0..FailureThreshold /\ halfOpenSuccesses' = halfOpenSuccesses
        BY <2>6 DEF FailClosed, BreakerInv, BreakerTypeOK
      <3>2. CASE consecutiveFails + 1 >= FailureThreshold
        BY <2>4, <2>6, <3>1, <3>2 DEF FailClosed, BreakerInv, BreakerTypeOK
      <3>3. CASE ~(consecutiveFails + 1 >= FailureThreshold)
        <4>1. UNCHANGED <<state, openedAt, trippedAt>> /\ state = "closed"
          BY <2>6, <3>3 DEF FailClosed
        <4>2. BreakerTypeOK'
          BY <2>1, <2>2, <2>6, <3>1, <3>3, <4>1 DEF FailClosed, BreakerInv, BreakerTypeOK
        <4> QED BY <2>1, <2>3, <4>1, <4>2
            DEF BreakerInv, SentBeforeTrip, SentAfterCooldown, CallsAreProbes
      <3> QED BY <3>2, <3>3
    <2>7. CASE FailOpen
      <3>1. UNCHANGED <<state, consecutiveFails, halfOpenSuccesses, openedAt, trippedAt>>
        BY <2>7 DEF FailOpen
      <3>2. BreakerTypeOK'
        BY <2>1, <2>2, <3>1 DEF BreakerInv, BreakerTypeOK
      <3> QED BY <2>1, <2>2, <2>3, <3>1, <3>2
          DEF BreakerInv, SentBeforeTrip, SentAfterCooldown, CallsAreProbes
    <2> QED BY <1>5, <2>5, <2>6, <2>7 DEF RecordFailure
  <1>6. CASE UNCHANGED breakerVars
    BY <1>6 DEF breakerVars, BreakerInv, BreakerTypeOK, CallsAreShort, SentBeforeTrip,
                SentAfterCooldown, CallsAreProbes
  <1> QED BY <1>1, <1>2, <1>3, <1>4, <1>5, <1>6 DEF BreakerNext

\* The strengthening holds in every state (breaker.go).
THEOREM BreakerInvariant == BreakerSpec => []BreakerInv
  <1> QED BY InitBreaker, NextBreaker, PTL DEF BreakerSpec

\* In the half-open state only answers to calls of after the cooldown count
\* (breaker.go, RecordSuccess and RecordFailure).
THEOREM OnlyProbesCount == BreakerSpec => []CallsAreProbes
  <1>1. BreakerInv => CallsAreProbes
    BY DEF BreakerInv
  <1> QED BY BreakerInvariant, <1>1, PTL

\* Types, and the counters below their thresholds (breaker.go).
THEOREM BreakerTypeCorrect == BreakerSpec => []BreakerTypeOK
  <1>1. BreakerInv => BreakerTypeOK
    BY DEF BreakerInv
  <1> QED BY BreakerInvariant, <1>1, PTL

\* The service is left alone for OpenDuration after every trip (breaker.go,
\* Allow).
THEOREM ServiceRests == BreakerSpec => OpenRests
  <1>1. ASSUME BreakerInv, BreakerNext, NEW c \in Caller, ~call[c].under, call'[c].under
        PROVE  clock - trippedAt >= OpenDuration
    <2>1. call \in [Caller -> [under : BOOLEAN, since : Nat]]
          /\ clock \in Nat /\ trippedAt \in Int
      BY <1>1 DEF BreakerInv, BreakerTypeOK
    <2>2. ~BreakerState /\ ~ClockTick
      BY <1>1 DEF BreakerState, ClockTick
    <2>3. ASSUME NEW d \in Caller, RecordSuccess(d) \/ RecordFailure(d) PROVE FALSE
      BY <1>1, <2>1, <2>3 DEF RecordSuccess, RecordFailure, End
    <2>4. PICK d \in Caller : Allow(d)
      BY <1>1, <2>2, <2>3 DEF BreakerNext
    <2>5. CASE Advance
      BY <1>1, <2>1, <2>5, NobodyLeft, BreakerAssumption
    <2>6. CASE state # "open"
      BY <1>1, <2>1, <2>6, BreakerAssumption DEF BreakerInv, SentAfterCooldown
    <2> QED BY <2>4, <2>5, <2>6 DEF Allow
  <1>2. BreakerInv /\ [BreakerNext]_breakerVars =>
          [\A c \in Caller : ~call[c].under /\ call'[c].under
             => clock - trippedAt >= OpenDuration]_breakerVars
    BY <1>1
  <1> QED BY BreakerInvariant, <1>2, PTL DEF BreakerSpec, OpenRests

----------------------------------------------------------------------------
(* The registry of models.                                                 *)

ActivationOK ==
  activation \in [Deployer -> [at : {"idle", "loaded", "looked", "cleared", "marked"},
                               target : Version \cup {NoVersion},
                               seen : SUBSET Version, cleared : SUBSET Version]]

TargetsAreSet == \A d \in Deployer : activation[d].at # "idle" => activation[d].target \in Version

ClearsItsOwn ==
  \A d \in Deployer : \A v \in activation[d].seen \cup activation[d].cleared :
    activation[d].at # "idle" /\ VariantOf[v] = TargetVariant(d)

MarkedReplaces ==
  \A d \in Deployer : activation[d].at = "marked" =>
    ActiveOf(TargetVariant(d)) \subseteq activation[d].cleared \cup {activation[d].target}

MarksAreApart ==
  \A d, e \in Deployer :
    activation[d].at = "marked" /\ activation[e].at = "marked" /\ d # e
      => TargetVariant(d) # TargetVariant(e)

ActivesAreApart == \A u, v \in activeVersions : VariantOf[u] = VariantOf[v] => u = v

RegistryInv ==
  /\ activeVersions \subseteq Version
  /\ ActivationOK
  /\ TargetsAreSet
  /\ ClearsItsOwn
  /\ MarkedReplaces
  /\ MarksAreApart
  /\ ActivesAreApart

LEMMA InitRegistry == RegistryInit => RegistryInv
  <1> SUFFICES ASSUME RegistryInit PROVE RegistryInv
    OBVIOUS
  <1>1. activation = [d \in Deployer |-> NoActivation] /\ activeVersions = {}
    BY DEF RegistryInit
  <1>2. \A d \in Deployer : activation[d] = NoActivation
    BY <1>1
  <1>3. ActivationOK
    BY <1>1 DEF ActivationOK, NoActivation
  <1>4. TargetsAreSet /\ ClearsItsOwn /\ MarkedReplaces /\ MarksAreApart
    BY <1>2 DEF TargetsAreSet, ClearsItsOwn, MarkedReplaces, MarksAreApart, NoActivation
  <1> QED BY <1>1, <1>3, <1>4 DEF RegistryInv, ActivesAreApart

\* A step that neither adds an active version nor marks one keeps what is said
\* of them, if the activation it changes stays in order.
LEMMA Preparing ==
  ASSUME RegistryInv, NEW d \in Deployer, NEW r,
         activation' = [activation EXCEPT ![d] = r],
         activeVersions' = activeVersions,
         r \in [at : {"idle", "loaded", "looked", "cleared"},
                target : Version \cup {NoVersion},
                seen : SUBSET Version, cleared : SUBSET Version],
         r.at # "idle" => r.target \in Version,
         \A v \in r.seen \cup r.cleared :
           r.at # "idle" /\ VariantOf[v] = VariantOf[r.target]
  PROVE  RegistryInv'
  <1>1. activation'[d] = r /\ \A e \in Deployer \ {d} : activation'[e] = activation[e]
    BY DEF RegistryInv, ActivationOK
  <1>2. ActivationOK'
    BY DEF RegistryInv, ActivationOK
  <1>3. r.at # "marked"
    OBVIOUS
  <1>4. TargetsAreSet'
    BY <1>1 DEF RegistryInv, TargetsAreSet
  <1>5. ClearsItsOwn'
    BY <1>1 DEF RegistryInv, ClearsItsOwn, TargetVariant
  <1>6. MarkedReplaces'
    BY <1>1, <1>3 DEF RegistryInv, MarkedReplaces, TargetVariant, ActiveOf
  <1>7. MarksAreApart'
    BY <1>1, <1>3 DEF RegistryInv, MarksAreApart, TargetVariant
  <1> QED BY <1>2, <1>4, <1>5, <1>6, <1>7 DEF RegistryInv, ActivesAreApart

LEMMA Loading ==
  ASSUME RegistryInv, NEW d \in Deployer, NEW v \in Version, LoadVersion(d, v)
  PROVE  RegistryInv'
  <1> DEFINE r == [activation[d] EXCEPT !.at = "loaded", !.target = v]
  <1>1. activation[d].seen = {} /\ activation[d].cleared = {}
    BY DEF RegistryInv, ClearsItsOwn, LoadVersion
  <1>2. /\ r \in [at : {"idle", "loaded", "looked", "cleared"},
                  target : Version \cup {NoVersion},
                  seen : SUBSET Version, cleared : SUBSET Version]
        /\ r.at = "loaded" /\ r.target = v /\ r.seen = {} /\ r.cleared = {}
    BY <1>1 DEF RegistryInv, ActivationOK
  <1>3. activation' = [activation EXCEPT ![d] = r] /\ activeVersions' = activeVersions
    BY DEF LoadVersion
  <1> HIDE DEF r
  <1> QED BY <1>2, <1>3, Preparing

LEMMA Looking ==
  ASSUME RegistryInv, NEW d \in Deployer, LookAtActive(d)
  PROVE  RegistryInv'
  <1> DEFINE r == [activation[d] EXCEPT !.at = "looked", !.seen = ActiveOf(TargetVariant(d))]
  <1>1. /\ activation[d].target \in Version /\ ActiveOf(TargetVariant(d)) \subseteq Version
        /\ \A v \in activation[d].cleared : VariantOf[v] = VariantOf[activation[d].target]
    BY DEF RegistryInv, TargetsAreSet, LookAtActive, ActiveOf, ClearsItsOwn, TargetVariant
  <1>2. /\ r \in [at : {"idle", "loaded", "looked", "cleared"},
                  target : Version \cup {NoVersion},
                  seen : SUBSET Version, cleared : SUBSET Version]
        /\ r.at = "looked" /\ r.target = activation[d].target
        /\ r.seen = ActiveOf(TargetVariant(d)) /\ r.cleared = activation[d].cleared
    BY <1>1 DEF RegistryInv, ActivationOK
  <1>3. activation' = [activation EXCEPT ![d] = r] /\ activeVersions' = activeVersions
    BY DEF LookAtActive
  <1>4. \A v \in r.seen : VariantOf[v] = VariantOf[r.target]
    BY <1>2 DEF ActiveOf, TargetVariant
  <1> HIDE DEF r
  <1> QED BY <1>1, <1>2, <1>3, <1>4, Preparing

LEMMA Clearing ==
  ASSUME RegistryInv, NEW d \in Deployer, DeactivateModelVariant(d)
  PROVE  RegistryInv'
  <1> DEFINE r == [activation[d] EXCEPT !.at = "cleared", !.cleared = StillActive(d)]
  <1>1. /\ activation[d].target \in Version /\ StillActive(d) \subseteq activation[d].seen
        /\ \A v \in activation[d].seen : VariantOf[v] = VariantOf[activation[d].target]
    BY DEF RegistryInv, TargetsAreSet, DeactivateModelVariant, StillActive, ClearsItsOwn,
           TargetVariant
  <1>2. /\ r \in [at : {"idle", "loaded", "looked", "cleared"},
                  target : Version \cup {NoVersion},
                  seen : SUBSET Version, cleared : SUBSET Version]
        /\ r.at = "cleared" /\ r.target = activation[d].target
        /\ r.seen = activation[d].seen /\ r.cleared = StillActive(d)
    BY <1>1 DEF RegistryInv, ActivationOK
  <1>3. activation' = [activation EXCEPT ![d] = r] /\ activeVersions' = activeVersions
    BY DEF DeactivateModelVariant
  <1> HIDE DEF r
  <1> QED BY <1>1, <1>2, <1>3, Preparing

LEMMA RollingBack ==
  ASSUME RegistryInv, NEW d \in Deployer, RollBackActivation(d)
  PROVE  RegistryInv'
  <1>1. NoActivation \in [at : {"idle", "loaded", "looked", "cleared"},
                          target : Version \cup {NoVersion},
                          seen : SUBSET Version, cleared : SUBSET Version]
    BY DEF NoActivation
  <1>2. NoActivation.at = "idle" /\ NoActivation.seen = {} /\ NoActivation.cleared = {}
    BY DEF NoActivation
  <1>3. activation' = [activation EXCEPT ![d] = NoActivation] /\ activeVersions' = activeVersions
    BY DEF RollBackActivation
  <1> QED BY <1>1, <1>2, <1>3, Preparing

\* The index is what makes the mark safe.
LEMMA Marking ==
  ASSUME RegistryInv, NEW d \in Deployer, MarkModelVersionActive(d)
  PROVE  RegistryInv'
  <1>1. /\ activation' = [activation EXCEPT ![d].at = "marked"]
        /\ activeVersions' = activeVersions
        /\ activation[d].at = "cleared" /\ activation[d].target \in Version
        /\ IndexAdmits(d)
    BY DEF MarkModelVersionActive, RegistryInv, TargetsAreSet
  <1>2. /\ activation'[d].at = "marked" /\ activation'[d].target = activation[d].target
        /\ activation'[d].seen = activation[d].seen
        /\ activation'[d].cleared = activation[d].cleared
        /\ \A e \in Deployer \ {d} : activation'[e] = activation[e]
    BY <1>1 DEF RegistryInv, ActivationOK
  <1>3. ActivationOK'
    BY <1>1 DEF RegistryInv, ActivationOK
  <1>4. TargetsAreSet' /\ ClearsItsOwn'
    BY <1>1, <1>2 DEF RegistryInv, TargetsAreSet, ClearsItsOwn, TargetVariant
  <1>5. MarkedReplaces'
    BY <1>1, <1>2 DEF RegistryInv, MarkedReplaces, IndexAdmits, TargetVariant, ActiveOf
  <1>6. MarksAreApart'
    BY <1>1, <1>2 DEF RegistryInv, MarksAreApart, IndexAdmits, TargetVariant
  <1> QED BY <1>1, <1>3, <1>4, <1>5, <1>6 DEF RegistryInv, ActivesAreApart

\* The versions that are active after a commit, of the variant it is about and of
\* the others.
LEMMA ActivesAfterCommit ==
  ASSUME RegistryInv, NEW d \in Deployer, CommitActivation(d)
  PROVE  /\ activation[d].target \in Version
         /\ \A k : ActiveOf(k)' = IF k = TargetVariant(d) THEN {activation[d].target}
                               ELSE ActiveOf(k)
  <1> DEFINE target == activation[d].target
             cleared == activation[d].cleared
  <1>1. /\ activation[d].at = "marked" /\ target \in Version
        /\ activeVersions' = (activeVersions \ cleared) \cup {target}
        /\ \A v \in cleared : VariantOf[v] = VariantOf[target]
    BY DEF CommitActivation, RegistryInv, TargetsAreSet, ClearsItsOwn, TargetVariant
  <1>2. \A v \in activeVersions : VariantOf[v] = VariantOf[target] => v \in cleared \cup {target}
    BY <1>1 DEF RegistryInv, MarkedReplaces, ActiveOf, TargetVariant
  <1>3. ASSUME NEW v PROVE v \in activeVersions' /\ VariantOf[v] = VariantOf[target] <=> v = target
    BY <1>1, <1>2
  <1>4. { v \in activeVersions' : VariantOf[v] = VariantOf[target] } = {target}
    BY <1>3
  <1>5. ASSUME NEW k, k # VariantOf[target]
        PROVE  { v \in activeVersions' : VariantOf[v] = k }
                 = { v \in activeVersions : VariantOf[v] = k }
    BY <1>1, <1>5
  <1>6. ASSUME NEW k
        PROVE  ActiveOf(k)' = IF k = TargetVariant(d) THEN {target} ELSE ActiveOf(k)
    <2>1. CASE k = VariantOf[target]
      BY <1>4, <2>1 DEF ActiveOf, TargetVariant
    <2>2. CASE k # VariantOf[target]
      BY <1>5, <2>2 DEF ActiveOf, TargetVariant
    <2> QED BY <2>1, <2>2
  <1> QED BY <1>1, <1>6

LEMMA Committing ==
  ASSUME RegistryInv, NEW d \in Deployer, CommitActivation(d)
  PROVE  RegistryInv'
  <1> DEFINE k == TargetVariant(d)
  <1>1. /\ activation' = [activation EXCEPT ![d] = NoActivation]
        /\ activation[d].at = "marked"
        /\ activeVersions' \subseteq activeVersions \cup {activation[d].target}
    BY DEF CommitActivation
  <1>2. /\ activation'[d] = NoActivation
        /\ \A e \in Deployer \ {d} : activation'[e] = activation[e]
        /\ activation[d].target \in Version
    BY <1>1 DEF RegistryInv, ActivationOK, TargetsAreSet
  <1>3. ActivationOK' /\ activeVersions' \subseteq Version
    BY <1>1, <1>2 DEF RegistryInv, ActivationOK, NoActivation
  <1>4. TargetsAreSet' /\ ClearsItsOwn' /\ MarksAreApart'
    BY <1>2 DEF RegistryInv, TargetsAreSet, ClearsItsOwn, MarksAreApart, TargetVariant, NoActivation
  <1>5. MarkedReplaces'
    <2> SUFFICES ASSUME NEW e \in Deployer, activation'[e].at = "marked"
                 PROVE  ActiveOf(TargetVariant(e))' \subseteq
                          activation'[e].cleared \cup {activation'[e].target}
      BY DEF MarkedReplaces
    <2>1. e # d /\ activation'[e] = activation[e] /\ activation[e].at = "marked"
      BY <1>2 DEF NoActivation
    <2>2. TargetVariant(e) # k
      BY <1>1, <2>1 DEF RegistryInv, MarksAreApart
    <2>3. \A v \in activeVersions' : VariantOf[v] = TargetVariant(e) => v \in ActiveOf(TargetVariant(e))
      BY <1>1, <2>2 DEF ActiveOf, TargetVariant
    <2>4. ActiveOf(TargetVariant(e)) \subseteq activation[e].cleared \cup {activation[e].target}
      BY <2>1 DEF RegistryInv, MarkedReplaces
    <2> QED BY <2>1, <2>3, <2>4 DEF ActiveOf, TargetVariant
  <1>6. ActivesAreApart'
    <2> SUFFICES ASSUME NEW u \in activeVersions', NEW v \in activeVersions',
                        VariantOf[u] = VariantOf[v]
                 PROVE  u = v
      BY DEF ActivesAreApart
    <2>1. u \in ActiveOf(VariantOf[u])' /\ v \in ActiveOf(VariantOf[u])'
      BY DEF ActiveOf
    <2>2. ActiveOf(VariantOf[u])' = IF VariantOf[u] = k THEN {activation[d].target}
                                    ELSE ActiveOf(VariantOf[u])
      BY ActivesAfterCommit
    <2> QED BY <2>1, <2>2 DEF RegistryInv, ActivesAreApart, ActiveOf
  <1> QED BY <1>3, <1>4, <1>5, <1>6 DEF RegistryInv

\* The inference service and the scorers change nothing that is said here.
LEMMA Scoring ==
  ASSUME RegistryInv, UNCHANGED <<activation, activeVersions>>
  PROVE  RegistryInv'
  BY DEF RegistryInv, ActivationOK, TargetsAreSet, ClearsItsOwn, MarkedReplaces,
         MarksAreApart, ActivesAreApart, TargetVariant, ActiveOf

LEMMA NextRegistry == RegistryInv /\ [RegistryNext]_registryVars => RegistryInv'
  <1> SUFFICES ASSUME RegistryInv, [RegistryNext]_registryVars PROVE RegistryInv'
    OBVIOUS
  <1>1. ASSUME NEW d \in Deployer,
               \/ \E v \in Version : LoadVersion(d, v)
               \/ LookAtActive(d) \/ DeactivateModelVariant(d) \/ MarkModelVersionActive(d)
               \/ CommitActivation(d) \/ RollBackActivation(d)
        PROVE  RegistryInv'
    BY <1>1, Loading, Looking, Clearing, Marking, Committing, RollingBack
  <1>2. CASE UNCHANGED registryVars
    BY <1>2, Scoring DEF registryVars
  <1>3. ASSUME NEW v \in Version, LoadModel(v)
        PROVE  RegistryInv'
    BY <1>3, Scoring DEF LoadModel
  <1>4. ASSUME NEW w \in Scorer, FilePrediction(w) \/ \E k \in Variant : ScorePitch(w, k)
        PROVE  RegistryInv'
    BY <1>4, Scoring DEF FilePrediction, ScorePitch
  <1> QED BY <1>1, <1>2, <1>3, <1>4 DEF RegistryNext

\* The strengthening holds in every state (store.go, ActivateModelVersion).
THEOREM RegistryInvariant == RegistrySpec => []RegistryInv
  <1> QED BY InitRegistry, NextRegistry, PTL DEF RegistrySpec

\* Two active versions of a variant never exist, whoever activates what at the
\* same time (store.go, ActivateModelVersion; the partial unique index).
THEOREM OneIsActive == RegistrySpec => []OneActiveModel
  <1>1. RegistryInv => OneActiveModel
    <2> SUFFICES ASSUME RegistryInv, NEW k \in Variant PROVE Cardinality(ActiveOf(k)) <= 1
      BY DEF OneActiveModel
    <2>1. CASE ActiveOf(k) = {}
      BY <2>1, FS_EmptySet
    <2>2. CASE ActiveOf(k) # {}
      <3>1. PICK v : v \in ActiveOf(k)
        BY <2>2
      <3>2. ActiveOf(k) = {v}
        BY <3>1 DEF RegistryInv, ActivesAreApart, ActiveOf
      <3> QED BY <3>2, FS_Singleton
    <2> QED BY <2>1, <2>2
  <1> QED BY RegistryInvariant, <1>1, PTL

\* A variant that has an active version keeps having one through every
\* activation, whether it commits, is refused or breaks off (store.go, InTx).
THEOREM NeverLosesItsModel == RegistrySpec => NeverWithoutModel
  <1>1. ASSUME RegistryInv, [RegistryNext]_registryVars, NEW k \in Variant, ActiveOf(k) # {}
        PROVE  ActiveOf(k)' # {}
    <2>1. CASE activeVersions' = activeVersions
      BY <1>1, <2>1 DEF ActiveOf
    <2>2. ASSUME NEW d \in Deployer, CommitActivation(d)
          PROVE  ActiveOf(k)' # {}
      BY <1>1, <2>2, ActivesAfterCommit
    <2>3. activeVersions' = activeVersions \/ \E d \in Deployer : CommitActivation(d)
      BY <1>1 DEF RegistryNext, registryVars, LoadVersion, LookAtActive, DeactivateModelVariant,
                  MarkModelVersionActive, RollBackActivation, LoadModel, FilePrediction, ScorePitch
    <2> QED BY <2>1, <2>2, <2>3
  <1>2. RegistryInv /\ [RegistryNext]_registryVars =>
          [\A k \in Variant : ActiveOf(k) # {} => ActiveOf(k)' # {}]_registryVars
    BY <1>1
  <1> QED BY RegistryInvariant, <1>2, PTL DEF RegistrySpec, NeverWithoutModel

\* What the inference service and the scorers keep, and the row locks.
ScoringOK ==
  /\ locked \in [Version -> Deployer \cup {Nobody}]
  /\ loaded \in [Variant -> Version]
  /\ scoring \in [Scorer -> [variant : Variant \cup {"none"}, by : Version \cup {NoVersion}]]
  /\ \A w \in Scorer : scoring[w] # NoScoring => /\ scoring[w].variant \in Variant
                                                 /\ scoring[w].by \in Version
  /\ filed \subseteq (Version \X Version)

LEMMA InitScoring == RegistryInit => ScoringOK
  BY RegistryAssumption DEF RegistryInit, ScoringOK, NoScoring

LEMMA NextScoring ==
  ASSUME RegistryInv, ScoringOK, [RegistryNext]_registryVars
  PROVE  ScoringOK'
  <1> USE RegistryAssumption
  <1>1. ASSUME NEW d \in Deployer,
               \/ \E v \in Version : LoadVersion(d, v)
               \/ LookAtActive(d) \/ DeactivateModelVariant(d) \/ MarkModelVersionActive(d)
               \/ CommitActivation(d) \/ RollBackActivation(d)
        PROVE  ScoringOK'
    <2>1. UNCHANGED <<loaded, scoring, filed>>
      BY <1>1 DEF LoadVersion, LookAtActive, DeactivateModelVariant, MarkModelVersionActive,
                  CommitActivation, RollBackActivation
    <2>2. \/ UNCHANGED locked
          \/ locked' = [v \in Version |-> IF v \in StillActive(d) THEN d ELSE locked[v]]
          \/ locked' = [locked EXCEPT ![activation[d].target] = d]
          \/ locked' = Unlocked(d)
      BY <1>1 DEF LoadVersion, LookAtActive, DeactivateModelVariant, MarkModelVersionActive,
                  CommitActivation, RollBackActivation
    <2>3. locked' \in [Version -> Deployer \cup {Nobody}]
      BY <2>2 DEF ScoringOK, Unlocked
    <2> QED BY <2>1, <2>3 DEF ScoringOK
  <1>2. CASE UNCHANGED registryVars
    BY <1>2 DEF registryVars, ScoringOK
  <1>3. ASSUME NEW v \in Version, LoadModel(v)
        PROVE  ScoringOK'
    BY <1>3 DEF LoadModel, ScoringOK
  <1>4. ASSUME NEW w \in Scorer, NEW k \in Variant, ScorePitch(w, k)
        PROVE  ScoringOK'
    <2>1. loaded[k] \in Version
      BY DEF ScoringOK
    <2> QED BY <1>4, <2>1 DEF ScorePitch, ScoringOK, NoScoring
  <1>5. ASSUME NEW w \in Scorer, FilePrediction(w)
        PROVE  ScoringOK'
    <2>1. UpsertPitchPrediction(w) \subseteq (Version \X Version)
      BY <1>5 DEF FilePrediction, UpsertPitchPrediction, ScoringOK, RegistryInv, ActiveOf
    <2>2. filed' \subseteq (Version \X Version)
      BY <1>5, <2>1 DEF FilePrediction, ScoringOK
    <2> QED BY <1>5, <2>2 DEF FilePrediction, ScoringOK, NoScoring
  <1> QED BY <1>1, <1>2, <1>3, <1>4, <1>5 DEF RegistryNext

\* Types of the registry, its transactions and its scorers.
THEOREM RegistryTypeCorrect == RegistrySpec => []RegistryTypeOK
  <1>1. RegistryInv /\ ScoringOK => RegistryTypeOK
    BY DEF RegistryInv, ActivationOK, ScoringOK, RegistryTypeOK
  <1>2. ScoringOK /\ RegistryInv /\ [RegistryNext]_registryVars => ScoringOK'
    BY NextScoring
  <1> QED BY RegistryInvariant, InitScoring, <1>1, <1>2, PTL DEF RegistrySpec

\* The registry implements ModelSwitch: an activation shows when its transaction
\* commits, all of it and for its variant only; what is filed in the meantime is
\* filed under the version before (store.go, ActivateModelVersion; pipeline.go,
\* persistPrediction).
THEOREM RegistryIsSwitch == RegistrySpec => ImplementsSwitch
  <1>1. RegistryInit => Switch!Init
    BY DEF RegistryInit, Switch!Init, ActiveOf
  <1>2. ASSUME RegistryInv, ScoringOK, [RegistryNext]_registryVars
        PROVE  [Switch!Next]_(Switch!switchVars)
    <2> DEFINE shown == [k \in Variant |-> ActiveOf(k)]
    <2>1. ASSUME NEW d \in Deployer, CommitActivation(d)
          PROVE  \E v \in Version : Switch!Activate(v)
      <3>1. /\ activation[d].target \in Version
            /\ \A k : ActiveOf(k)' = IF k = TargetVariant(d) THEN {activation[d].target}
                                     ELSE ActiveOf(k)
        BY <1>2, <2>1, ActivesAfterCommit
      <3>2. shown' = [shown EXCEPT ![VariantOf[activation[d].target]] = {activation[d].target}]
        BY <3>1 DEF TargetVariant
      <3>3. UNCHANGED filed
        BY <2>1 DEF CommitActivation
      <3> QED BY <3>1, <3>2, <3>3 DEF Switch!Activate
    <2>2. ASSUME NEW w \in Scorer, FilePrediction(w)
          PROVE  \E v \in Version : \E k \in Variant : Switch!File(k, v)
      <3>1. /\ scoring[w].variant \in Variant /\ scoring[w].by \in Version
            /\ filed' = filed \cup UpsertPitchPrediction(w)
            /\ UNCHANGED activeVersions
        BY <1>2, <2>2 DEF FilePrediction, ScoringOK
      <3>2. UpsertPitchPrediction(w) = {scoring[w].by} \X shown[scoring[w].variant]
        BY <3>1 DEF UpsertPitchPrediction
      <3>3. UNCHANGED shown
        BY <3>1 DEF ActiveOf
      <3> QED BY <3>1, <3>2, <3>3 DEF Switch!File
    <2>3. CASE UNCHANGED <<activeVersions, filed>>
      <3>1. UNCHANGED shown
        BY <2>3 DEF ActiveOf
      <3> QED BY <2>3, <3>1 DEF Switch!switchVars
    <2>4. \/ UNCHANGED <<activeVersions, filed>>
          \/ \E d \in Deployer : CommitActivation(d)
          \/ \E w \in Scorer : FilePrediction(w)
      BY <1>2 DEF RegistryNext, registryVars, LoadVersion, LookAtActive, DeactivateModelVariant,
                  MarkModelVersionActive, RollBackActivation, LoadModel, ScorePitch
    <2> QED BY <2>1, <2>2, <2>3, <2>4 DEF Switch!Next
  <1>3. ScoringOK /\ RegistryInv /\ [RegistryNext]_registryVars => ScoringOK'
    BY NextScoring
  <1> QED BY RegistryInvariant, InitScoring, <1>1, <1>2, <1>3, PTL
          DEF RegistrySpec, ImplementsSwitch, Switch!Spec

----------------------------------------------------------------------------
(* Readings and their mirror images.                                       *)

Number == Int \cup {NoValue}

LEMMA BoundsAreNumbers ==
  ASSUME NEW f \in Field PROVE Bounds(f) \subseteq Int
  BY DEF Bounds, Field

\* The mirror image of what one field says.
Mirrored(f, v) ==
  IF v = NoValue THEN NoValue
  ELSE IF f \in {"pfx_x", "plate_x"} THEN -v
  ELSE IF f = "spin_axis" THEN 360 - v
  ELSE v

LEMMA BoundsAreSymmetric ==
  ASSUME NEW f \in Field, NEW v \in Int
  PROVE  /\ Mirrored(f, v) \in Int
         /\ Mirrored(f, v) \in Bounds(f) <=> v \in Bounds(f)
  <1>1. v # NoValue
    BY ReadingAssumption
  <1>2. CASE f = "pfx_x"
    <2>1. Bounds(f) = -72..72 /\ Mirrored(f, v) = -v
      BY <1>1, <1>2 DEF Bounds, Mirrored
    <2> QED BY <2>1
  <1>3. CASE f = "plate_x"
    <2>1. Bounds(f) = -96..96 /\ Mirrored(f, v) = -v
      BY <1>1, <1>3 DEF Bounds, Mirrored
    <2> QED BY <2>1
  <1>4. CASE f = "spin_axis"
    <2>1. Bounds(f) = 0..360 /\ Mirrored(f, v) = 360 - v
      BY <1>1, <1>4 DEF Bounds, Mirrored
    <2> QED BY <2>1
  <1>5. CASE f \notin {"pfx_x", "plate_x", "spin_axis"}
    <2>1. Mirrored(f, v) = v
      BY <1>1, <1>5 DEF Mirrored
    <2> QED BY <2>1
  <1> QED BY <1>2, <1>3, <1>4, <1>5

\* Clamping commutes with the mirror.
LEMMA ClampOfMirror ==
  ASSUME NEW r \in Readings, NEW f \in Field
  PROVE  /\ Clamped(r)[f] \in Number
         /\ Clamped(MirrorReading(r))[f] = Mirrored(f, Clamped(r)[f])
         /\ MirrorReading(r)[f] = NoValue <=> r[f] = NoValue
  <1>1. MirrorReading(r)[f] = Mirrored(f, r[f])
    BY DEF MirrorReading, Mirrored
  <1>2. /\ Clamped(r)[f] = IF r[f] \in Bounds(f) THEN r[f] ELSE NoValue
        /\ Clamped(MirrorReading(r))[f] = IF Mirrored(f, r[f]) \in Bounds(f) THEN Mirrored(f, r[f]) ELSE NoValue
    BY <1>1 DEF Clamped
  <1>3. r[f] \in Int \/ r[f] = NoValue
    BY DEF Readings, Number
  <1>4. CASE r[f] = NoValue
    <2>1. NoValue \notin Bounds(f)
      BY BoundsAreNumbers, ReadingAssumption
    <2>2. Mirrored(f, NoValue) = NoValue
      BY DEF Mirrored
    <2> QED BY <1>1, <1>2, <1>4, <2>1, <2>2 DEF Number
  <1>5. CASE r[f] \in Int
    <2>1. /\ Mirrored(f, r[f]) \in Int
          /\ Mirrored(f, r[f]) \in Bounds(f) <=> r[f] \in Bounds(f)
      BY <1>5, BoundsAreSymmetric
    <2>2. r[f] # NoValue /\ Mirrored(f, r[f]) # NoValue
      BY <1>5, <2>1, ReadingAssumption
    <2>3. Mirrored(f, NoValue) = NoValue
      BY DEF Mirrored
    <2> QED BY <1>1, <1>2, <1>5, <2>1, <2>2, <2>3 DEF Number
  <1> QED BY <1>3, <1>4, <1>5

LEMMA OppositeHand ==
  ASSUME NEW h \in Hand PROVE Opposite(h) \in Hand /\ (Opposite(h) = "R" <=> h # "R")
  BY DEF Opposite, Hand

LEMMA MirrorIfTwin ==
  ASSUME NEW v \in Number, NEW f \in {"pfx_x", "plate_x"}, NEW h \in Hand
  PROVE  MirrorIf(Opposite(h) = "R", Mirrored(f, v)) = MirrorIf(h = "R", v)
  <1>1. Opposite(h) = "R" <=> h # "R"
    BY OppositeHand
  <1>2. CASE v = NoValue
    BY <1>2 DEF Mirrored, MirrorIf
  <1>3. CASE v \in Int
    <2>1. v # NoValue /\ -v # NoValue /\ Mirrored(f, v) = -v /\ -(-v) = v
      <3>1. v # NoValue /\ -v \in Int /\ -v # NoValue
        BY <1>3, ReadingAssumption
      <3> QED BY <1>3, <3>1 DEF Mirrored
    <2>2. CASE h = "R"
      BY <1>1, <2>1, <2>2 DEF MirrorIf
    <2>3. CASE h # "R"
      BY <1>1, <2>1, <2>3 DEF MirrorIf
    <2> QED BY <2>2, <2>3
  <1> QED BY <1>2, <1>3 DEF Number

LEMMA SpinTwin ==
  ASSUME NEW v \in Number, NEW h \in Hand
  PROVE  SpinDirection(Mirrored("spin_axis", v), Opposite(h) = "R") = SpinDirection(v, h = "R")
  <1>1. Opposite(h) = "R" <=> h # "R"
    BY OppositeHand
  <1>2. CASE v = NoValue
    BY <1>2 DEF Mirrored, SpinDirection
  <1>3. CASE v \in Int
    <2>1. v # NoValue /\ 360 - v # NoValue /\ 360 - (360 - v) = v
      <3>1. v # NoValue /\ 360 - v \in Int
        BY <1>3, ReadingAssumption
      <3> QED BY <1>3, <3>1, ReadingAssumption
    <2>2. Mirrored("spin_axis", v) = 360 - v
      BY <2>1 DEF Mirrored
    <2>3. CASE h = "R"
      BY <1>1, <2>1, <2>2, <2>3 DEF SpinDirection
    <2>4. CASE h # "R"
      BY <1>1, <2>1, <2>2, <2>4 DEF SpinDirection
    <2> QED BY <2>3, <2>4
  <1> QED BY <1>2, <1>3 DEF Number

LEMMA SquareOfMinus ==
  ASSUME NEW x \in Int, NEW d \in Int PROVE Square((-x) * d) = Square(x * d)
  <1>1. (-x) * d = -(x * d) /\ x * d \in Int
    OBVIOUS
  <1>2. \A y \in Int : (-y) * (-y) = y * y
    OBVIOUS
  <1> QED BY <1>1, <1>2 DEF Square

ShapeOf(speed, arm, spin, stand, throws, same) ==
  [release_speed |-> speed, pfx_x_arm |-> arm, spin |-> spin,
   stand |-> stand, p_throws |-> throws, same_handed |-> same]

LEMMA MirrorOfShape ==
  ASSUME NEW speed, NEW arm, NEW spin, NEW stand, NEW throws, NEW same, NEW g
  PROVE  MirrorStuff(ShapeOf(speed, arm, spin, stand, throws, same), g)
           = ShapeOf(speed, arm, spin, g.stand, g.throws, same)
  <1> DEFINE f == ShapeOf(speed, arm, spin, stand, throws, same)
  <1>1. [f EXCEPT !.stand = g.stand] = ShapeOf(speed, arm, spin, g.stand, throws, same)
    BY DEF ShapeOf
  <1>2. [ShapeOf(speed, arm, spin, g.stand, throws, same) EXCEPT !.p_throws = g.throws]
          = ShapeOf(speed, arm, spin, g.stand, g.throws, same)
    BY DEF ShapeOf
  <1>3. MirrorStuff(f, g) = [[f EXCEPT !.stand = g.stand] EXCEPT !.p_throws = g.throws]
    BY DEF MirrorStuff, ShapeOf
  <1> QED BY <1>1, <1>2, <1>3, Zenon

LEMMA StuffTwin ==
  ASSUME NEW r \in Readings, NEW h \in Hands
  PROVE  StuffFeatures(MirrorReading(r), MirrorHands(h))
           = MirrorStuff(StuffFeatures(r, h), MirrorHands(h))
  <1> DEFINE m == Clamped(r)
             n == Clamped(MirrorReading(r))
             g == MirrorHands(h)
  <1>1. \A f \in Field : m[f] \in Number /\ n[f] = Mirrored(f, m[f])
    BY ClampOfMirror
  <1>2. /\ h.throws \in Hand /\ h.stand \in Hand \cup {Unsaid}
        /\ g.throws = Opposite(h.throws) /\ g.stand = Opposite(h.stand)
    BY DEF Hands, MirrorHands
  <1>3. {"release_speed", "pfx_x", "spin_axis"} \subseteq Field
    BY DEF Field
  <1> HIDE DEF m, n, g
  <1>4. n["release_speed"] = m["release_speed"]
    BY <1>1, <1>3 DEF Mirrored
  <1>5. MirrorIf(g.throws = "R", n["pfx_x"]) = MirrorIf(h.throws = "R", m["pfx_x"])
    BY <1>1, <1>2, <1>3, MirrorIfTwin
  <1>6. SpinDirection(n["spin_axis"], g.throws = "R") = SpinDirection(m["spin_axis"], h.throws = "R")
    BY <1>1, <1>2, <1>3, SpinTwin
  <1>7. (g.stand = g.throws) = (h.stand = h.throws)
    BY <1>2 DEF Opposite, Hand, Unsaid
  <1> DEFINE arm == MirrorIf(h.throws = "R", m["pfx_x"])
             dir == SpinDirection(m["spin_axis"], h.throws = "R")
  <1>8. StuffFeatures(r, h)
          = ShapeOf(m["release_speed"], arm, dir, h.stand, h.throws, h.stand = h.throws)
    BY Zenon DEF StuffFeatures, ShapeOf, m
  <1>9. StuffFeatures(MirrorReading(r), g)
          = ShapeOf(n["release_speed"], MirrorIf(g.throws = "R", n["pfx_x"]),
                    SpinDirection(n["spin_axis"], g.throws = "R"),
                    g.stand, g.throws, g.stand = g.throws)
    BY Zenon DEF StuffFeatures, ShapeOf, n
  <1>10. MirrorStuff(StuffFeatures(r, h), g)
           = ShapeOf(m["release_speed"], arm, dir, g.stand, g.throws, h.stand = h.throws)
    BY <1>8, MirrorOfShape
  <1>11. StuffFeatures(MirrorReading(r), g)
           = ShapeOf(m["release_speed"], arm, dir, g.stand, g.throws, h.stand = h.throws)
    BY <1>4, <1>5, <1>6, <1>7, <1>9, Zenon
  <1> QED BY <1>10, <1>11, Zenon DEF g

LEMMA ZoneTwin ==
  ASSUME NEW r \in Readings
  PROVE  LET m == Clamped(r)
             n == Clamped(MirrorReading(r))
         IN  /\ m["plate_x"] \in Number /\ n["plate_x"] = Mirrored("plate_x", m["plate_x"])
             /\ n["plate_z"] = m["plate_z"] /\ n["sz_top"] = m["sz_top"] /\ n["sz_bot"] = m["sz_bot"]
             /\ \A f \in {"plate_z", "sz_top", "sz_bot"} : m[f] \in Number
  <1> DEFINE m == Clamped(r)
             n == Clamped(MirrorReading(r))
  <1>1. \A f \in Field : m[f] \in Number /\ n[f] = Mirrored(f, m[f])
    BY ClampOfMirror
  <1>2. {"plate_x", "plate_z", "sz_top", "sz_bot"} \subseteq Field
    BY DEF Field
  <1> HIDE DEF m, n
  <1>3. /\ m["plate_x"] \in Number /\ n["plate_x"] = Mirrored("plate_x", m["plate_x"])
        /\ n["plate_z"] = m["plate_z"] /\ n["sz_top"] = m["sz_top"] /\ n["sz_bot"] = m["sz_bot"]
        /\ \A f \in {"plate_z", "sz_top", "sz_bot"} : m[f] \in Number
    BY <1>1, <1>2 DEF Mirrored
  <1> QED BY <1>3 DEF m, n

LEMMA InZoneTwin ==
  ASSUME NEW m, NEW n, m["plate_x"] \in Number, n["plate_x"] = Mirrored("plate_x", m["plate_x"]),
         n["plate_z"] = m["plate_z"], n["sz_top"] = m["sz_top"], n["sz_bot"] = m["sz_bot"]
  PROVE  InZone(n) = InZone(m)
  <1>1. HasZone(n) = HasZone(m)
    BY DEF HasZone
  <1>2. CASE m["plate_x"] = NoValue
    BY <1>2 DEF InZone, Mirrored
  <1>3. CASE m["plate_x"] \in Int
    <2>1. n["plate_x"] = -m["plate_x"] /\ n["plate_x"] # NoValue /\ m["plate_x"] # NoValue
      <3>1. m["plate_x"] # NoValue /\ -m["plate_x"] \in Int
        BY <1>3, ReadingAssumption
      <3> QED BY <3>1, ReadingAssumption DEF Mirrored
    <2>2. OverPlate(n["plate_x"]) <=> OverPlate(m["plate_x"])
      BY <1>3, <2>1 DEF OverPlate, PlateHalfWidth
    <2> QED BY <1>1, <2>1, <2>2 DEF InZone
  <1> QED BY <1>2, <1>3 DEF Number

LEMMA CenterTwin ==
  ASSUME NEW m, NEW n, m["plate_x"] \in Number, n["plate_x"] = Mirrored("plate_x", m["plate_x"]),
         \A f \in {"plate_z", "sz_top", "sz_bot"} : m[f] \in Number,
         n["plate_z"] = m["plate_z"], n["sz_top"] = m["sz_top"], n["sz_bot"] = m["sz_bot"]
  PROVE  /\ ZoneHeightNorm(n) = ZoneHeightNorm(m)
         /\ CenterDistance(n) = CenterDistance(m)
  <1> DEFINE norm == ZoneHeightNorm(m)
  <1>1. ZoneHeightNorm(n) = norm
    BY DEF ZoneHeightNorm, HasZone, ZoneHeight
  <1>2. norm = NoValue \/ norm.den \in Int
    <2>1. CASE HasZone(m)
      <3>1. m["sz_top"] \in Int /\ m["sz_bot"] \in Int
        BY <2>1 DEF HasZone, Number
      <3> QED BY <3>1 DEF ZoneHeightNorm, ZoneHeight
    <2>2. CASE ~HasZone(m)
      BY <2>2 DEF ZoneHeightNorm
    <2> QED BY <2>1, <2>2
  <1> HIDE DEF norm
  <1>3. CASE m["plate_x"] = NoValue \/ norm = NoValue
    <2>1. n["plate_x"] = NoValue \/ norm = NoValue
      BY <1>3 DEF Mirrored
    <2> QED BY <1>1, <1>3, <2>1 DEF CenterDistance, norm
  <1>4. CASE m["plate_x"] # NoValue /\ norm # NoValue
    <2>1. m["plate_x"] \in Int /\ norm.den \in Int
      BY <1>2, <1>4 DEF Number
    <2>2. n["plate_x"] = -m["plate_x"] /\ n["plate_x"] # NoValue
      <3>1. -m["plate_x"] \in Int
        BY <2>1
      <3> QED BY <1>4, <3>1, ReadingAssumption DEF Mirrored
    <2>3. Square(n["plate_x"] * norm.den) = Square(m["plate_x"] * norm.den)
      BY <2>1, <2>2, SquareOfMinus
    <2> QED BY <1>1, <1>4, <2>2, <2>3 DEF CenterDistance, norm
  <1> QED BY <1>1, <1>3, <1>4 DEF norm

LEMMA LocationTwin ==
  ASSUME NEW r \in Readings, NEW h \in Hands
  PROVE  LocationFeatures(MirrorReading(r), MirrorHands(h))
           = MirrorPlace(LocationFeatures(r, h), MirrorHands(h))
  <1> DEFINE m == Clamped(r)
             n == Clamped(MirrorReading(r))
             g == MirrorHands(h)
  <1>1. /\ m["plate_x"] \in Number /\ n["plate_x"] = Mirrored("plate_x", m["plate_x"])
        /\ n["plate_z"] = m["plate_z"] /\ n["sz_top"] = m["sz_top"] /\ n["sz_bot"] = m["sz_bot"]
        /\ \A f \in {"plate_z", "sz_top", "sz_bot"} : m[f] \in Number
    BY ZoneTwin
  <1>2. h.stand \in Hand \cup {Unsaid} /\ g.stand = Opposite(h.stand)
    BY DEF Hands, MirrorHands
  <1> HIDE DEF m, n, g
  <1>3. MirrorIf(g.stand = "R", n["plate_x"])
          = IF g.stand # Unsaid THEN MirrorIf(h.stand = "R", m["plate_x"])
            ELSE MirrorIf(TRUE, MirrorIf(h.stand = "R", m["plate_x"]))
    <2>1. CASE h.stand \in Hand
      <3>1. g.stand # Unsaid
        BY <1>2, <2>1 DEF Opposite, Hand, Unsaid
      <3> QED BY <1>1, <1>2, <2>1, <3>1, MirrorIfTwin
    <2>2. CASE h.stand = Unsaid
      <3>1. g.stand = Unsaid /\ h.stand # "R" /\ g.stand # "R"
        BY <1>2, <2>2 DEF Opposite, Unsaid
      <3> QED BY <1>1, <3>1 DEF MirrorIf, Mirrored
    <2> QED BY <1>2, <2>1, <2>2
  <1>4. InZone(n) = InZone(m)
    BY <1>1, InZoneTwin
  <1>5. ZoneHeightNorm(n) = ZoneHeightNorm(m) /\ CenterDistance(n) = CenterDistance(m)
    BY <1>1, CenterTwin
  <1> QED BY <1>3, <1>4, <1>5 DEF LocationFeatures, MirrorPlace, m, n, g

LEMMA QualityTwin ==
  ASSUME NEW r \in Readings PROVE Quality(MirrorReading(r)) = Quality(r)
  <1>1. \A f \in Core : MirrorReading(r)[f] = NoValue <=> r[f] = NoValue
    <2>1. Core \subseteq Field
      BY DEF Core, Field
    <2> QED BY <2>1, ClampOfMirror
  <1>2. /\ (\A f \in Core : MirrorReading(r)[f] = NoValue) <=> (\A f \in Core : r[f] = NoValue)
        /\ (\A f \in Core : MirrorReading(r)[f] # NoValue) <=> (\A f \in Core : r[f] # NoValue)
    BY <1>1
  <1> QED BY <1>2 DEF Quality

\* Every reading and its mirror image, in any fields, inside, on or outside the
\* bounds or missing, give features that differ in the two hands alone, and the
\* same quality; if the batter has no side, also in the sign of plate_x_bat
\* (normalize.go, Normalize; features.go, BuildFeatures).
THEOREM TwinsOfAnyReading ==
  ASSUME NEW r \in Readings, NEW h \in Hands
  PROVE  /\ StuffFeatures(MirrorReading(r), MirrorHands(h))
              = MirrorStuff(StuffFeatures(r, h), MirrorHands(h))
         /\ LocationFeatures(MirrorReading(r), MirrorHands(h))
              = MirrorPlace(LocationFeatures(r, h), MirrorHands(h))
         /\ Quality(MirrorReading(r)) = Quality(r)
  BY StuffTwin, LocationTwin, QualityTwin

\* A reading holds numbers or nothing in every field, whatever the device said
\* and in whatever order (events/payloads.go, PitchRaw).
THEOREM ReadingTypeCorrect == ReadingSpec => []ReadingTypeOK
  <1>1. ReadingInit => ReadingTypeOK
    BY DEF ReadingInit, ReadingTypeOK, Readings
  <1>2. ReadingTypeOK /\ [ReadingNext]_readingVars => ReadingTypeOK'
    <2> SUFFICES ASSUME ReadingTypeOK, [ReadingNext]_readingVars PROVE ReadingTypeOK'
      OBVIOUS
    <2>1. ASSUME NEW f \in Field, NEW v \in ReportedAs[f], ReportField(f, v) PROVE ReadingTypeOK'
      <3>1. v \in Int
        BY ReadingAssumption
      <3> QED BY <2>1, <3>1 DEF ReportField, ReadingTypeOK, Readings
    <2>2. CASE UNCHANGED readingVars
      BY <2>2 DEF ReadingTypeOK, readingVars
    <2> QED BY <2>1, <2>2 DEF ReadingNext
  <1> QED BY <1>1, <1>2, PTL DEF ReadingSpec

\* Whatever numbers a device may report, at no moment of filling a reading in
\* does anything but the hands tell it from its mirror image (normalize.go,
\* Normalize; features.go, BuildFeatures).
THEOREM MirrorTwinsAlways == ReadingSpec => []MirrorTwins
  <1>1. ReadingTypeOK => MirrorTwins
    BY TwinsOfAnyReading DEF ReadingTypeOK, MirrorTwins
  <1> QED BY <1>1, ReadingTypeCorrect, PTL

----------------------------------------------------------------------------
(* The baseline of the detector.                                           *)

Played == [value : OutingValue, pitches : OutingPitches]

\* That sorting sorts and selecting selects, for sequences of any length.
ListsAreHandled ==
  /\ \A h \in Seq(Played) : SelectSeq(h, IsFull) \in Seq(Played)
  /\ \A s \in Seq(Int) : Sorts(s)

LEMMA IndexSets ==
  ASSUME NEW s \in Seq(Int), NEW S \in SUBSET (1..Len(s))
  PROVE  IsFiniteSet(S) /\ Cardinality(S) \in Nat
  <1>1. IsFiniteSet(1..Len(s))
    BY FS_Interval
  <1> QED BY <1>1, FS_Subset, FS_CardinalityType

\* Sorting moves the values between a and b and loses none.
LEMMA MostLieSorted ==
  ASSUME NEW s \in Seq(Int), Sorts(s), NEW a \in Int, NEW b \in Int, MostLie(s, a, b)
  PROVE  MostLie(Sorted(s), a, b)
  <1> DEFINE n == Len(s)
             t == Sorted(s)
             C == Within(s, a, b)
             D == Within(t, a, b)
  <1>1. n \in Nat /\ t \in Seq(Int) /\ Len(t) = n
    BY DEF Sorts
  <1>2. PICK f \in [1..n -> 1..n] : /\ \A j \in 1..n : \E i \in 1..n : f[i] = j
                                    /\ \A i \in 1..n : t[i] = s[f[i]]
    BY DEF Sorts
  <1>3. C \subseteq 1..n /\ D \subseteq 1..n
    BY <1>1 DEF Within
  <1>4. \A i \in 1..n : i \in D <=> f[i] \in C
    <2> SUFFICES ASSUME NEW i \in 1..n PROVE i \in D <=> f[i] \in C
      OBVIOUS
    <2>1. t[i] = s[f[i]] /\ f[i] \in 1..n
      BY <1>2
    <2> HIDE DEF t
    <2> QED BY <1>1, <2>1 DEF Within
  <1> DEFINE g == [i \in D |-> f[i]]
  <1>5. g \in Surjection(D, C)
    <2>1. g \in [D -> C]
      BY <1>3, <1>4
    <2>2. ASSUME NEW j \in C PROVE \E i \in D : g[i] = j
      <3>1. PICK i \in 1..n : f[i] = j
        BY <1>2, <1>3
      <3>2. i \in D
        BY <1>4, <3>1
      <3> QED BY <3>1, <3>2
    <2> QED BY <2>1, <2>2 DEF Surjection
  <1>6. IsFiniteSet(D) /\ Cardinality(D) \in Nat /\ Cardinality(C) \in Nat
    BY <1>1, <1>3, IndexSets
  <1> HIDE DEF C, D, g, t, n
  <1>7. Cardinality(C) <= Cardinality(D)
    BY <1>5, <1>6, FS_Surjection
  <1>8. 2 * Cardinality(C) > n
    BY DEF MostLie, C, n
  <1>9. 2 * Cardinality(D) > n
    BY <1>1, <1>6, <1>7, <1>8
  <1> QED BY <1>1, <1>9 DEF MostLie, D, t

\* More than half of the indices cannot all lie in a half.
LEMMA MostReachesMiddle ==
  ASSUME NEW t \in Seq(Int), NEW a \in Int, NEW b \in Int, MostLie(t, a, b),
         \A i \in 1..Len(t) : \A j \in 1..i : t[j] <= t[i],
         NEW k \in 1..Len(t), 2 * k <= Len(t) + 2, 2 * k >= Len(t)
  PROVE  a <= t[k] /\ t[k] <= b
  <1> DEFINE n == Len(t)
             C == Within(t, a, b)
  <1>1. n \in Nat /\ C \subseteq 1..n /\ IsFiniteSet(C) /\ Cardinality(C) \in Nat
    <2>1. C \subseteq 1..n
      BY DEF Within
    <2> QED BY <2>1, IndexSets
  <1>2. 2 * Cardinality(C) > n
    BY DEF MostLie
  <1>3. \A i \in 1..n : t[i] \in Int
    OBVIOUS
  <1>4. ASSUME t[k] < a PROVE FALSE
    <2>1. C \subseteq (k + 1)..n
      <3> SUFFICES ASSUME NEW i \in C PROVE i \in (k + 1)..n
        OBVIOUS
      <3>1. i \in 1..n /\ a <= t[i]
        BY DEF Within
      <3>2. ~(i <= k)
        <4> SUFFICES ASSUME i <= k PROVE FALSE
          OBVIOUS
        <4>1. i \in 1..k
          BY <3>1
        <4>2. t[i] <= t[k]
          BY <4>1
        <4> QED BY <1>3, <1>4, <3>1, <4>2
      <3> QED BY <3>1, <3>2
    <2>2. /\ IsFiniteSet((k + 1)..n)
          /\ Cardinality((k + 1)..n) = IF k + 1 > n THEN 0 ELSE n - (k + 1) + 1
      <3> DEFINE first == k + 1
      <3>1. first \in Int /\ n \in Int
        BY <1>1
      <3> HIDE DEF first, n
      <3>2. /\ IsFiniteSet(first..n)
            /\ Cardinality(first..n) = IF first > n THEN 0 ELSE n - first + 1
        BY <3>1, FS_Interval
      <3> QED BY <3>2 DEF first
    <2>3. Cardinality(C) <= Cardinality((k + 1)..n)
      BY <2>1, <2>2, FS_Subset
    <2> HIDE DEF n, C
    <2>4. n \in Nat /\ k \in Nat /\ k <= n /\ 2 * k >= n
      BY <1>1 DEF n
    <2>5. Cardinality(C) <= n - k
      BY <1>1, <2>2, <2>3, <2>4
    <2> QED BY <1>1, <1>2, <2>4, <2>5
  <1>5. ASSUME t[k] > b PROVE FALSE
    <2>1. C \subseteq 1..(k - 1)
      <3> SUFFICES ASSUME NEW i \in C PROVE i \in 1..(k - 1)
        OBVIOUS
      <3>1. i \in 1..n /\ t[i] <= b
        BY DEF Within
      <3>2. ~(k <= i)
        <4> SUFFICES ASSUME k <= i PROVE FALSE
          OBVIOUS
        <4>1. k \in 1..i
          BY <3>1
        <4>2. t[k] <= t[i]
          BY <3>1, <4>1
        <4> QED BY <1>3, <1>5, <3>1, <4>2
      <3> QED BY <3>1, <3>2
    <2>2. /\ IsFiniteSet(1..(k - 1))
          /\ Cardinality(1..(k - 1)) = IF 1 > k - 1 THEN 0 ELSE (k - 1) - 1 + 1
      <3> DEFINE last == k - 1
      <3>1. 1 \in Int /\ last \in Int
        OBVIOUS
      <3> HIDE DEF last
      <3>2. /\ IsFiniteSet(1..last)
            /\ Cardinality(1..last) = IF 1 > last THEN 0 ELSE last - 1 + 1
        BY <3>1, FS_Interval
      <3> QED BY <3>2 DEF last
    <2>3. Cardinality(C) <= Cardinality(1..(k - 1))
      BY <2>1, <2>2, FS_Subset
    <2> HIDE DEF n, C
    <2>4. n \in Nat /\ k \in Nat /\ k >= 1 /\ 2 * k <= n + 2
      BY <1>1 DEF n
    <2>5. Cardinality(C) <= k - 1
      BY <1>1, <2>2, <2>3, <2>4
    <2> QED BY <1>1, <1>2, <2>4, <2>5
  <1> QED BY <1>3, <1>4, <1>5

\* A median lies where most values do.
LEMMA MedianLiesWithMost ==
  ASSUME NEW s \in Seq(Int), Sorts(s), NEW a \in Int, NEW b \in Int, MostLie(s, a, b)
  PROVE  TwiceMedian(s) \in Int /\ 2 * a <= TwiceMedian(s) /\ TwiceMedian(s) <= 2 * b
  <1> DEFINE n   == Len(s)
             t   == Sorted(s)
             mid == n \div 2
  <1>1. n \in Nat /\ t \in Seq(Int) /\ Len(t) = n
    BY DEF Sorts
  <1>2. \A i \in 1..Len(t) : \A j \in 1..i : t[j] <= t[i]
    BY <1>1 DEF Sorts
  <1>3. MostLie(t, a, b)
    BY MostLieSorted
  <1> HIDE DEF t, n
  <1>4. ASSUME NEW k \in 1..n, 2 * k <= n + 2, 2 * k >= n
        PROVE  t[k] \in Int /\ a <= t[k] /\ t[k] <= b
    <2>1. a <= t[k] /\ t[k] <= b
      BY <1>1, <1>2, <1>3, <1>4, MostReachesMiddle
    <2> QED BY <1>1, <2>1
  <1>5. n # 0
    <2> SUFFICES ASSUME n = 0 PROVE FALSE
      OBVIOUS
    <2>1. Within(t, a, b) = {}
      BY <1>1 DEF Within
    <2>2. Cardinality(Within(t, a, b)) = 0
      BY <2>1, FS_EmptySet
    <2> QED BY <1>1, <1>3, <2>2 DEF MostLie
  <1>6. CASE n % 2 = 1
    <2>1. n = 2 * mid + 1 /\ mid \in Nat
      BY <1>1, <1>6
    <2> HIDE DEF mid
    <2>2. mid + 1 \in 1..n /\ 2 * (mid + 1) <= n + 2 /\ 2 * (mid + 1) >= n
      BY <1>1, <2>1
    <2>3. t[mid + 1] \in Int /\ a <= t[mid + 1] /\ t[mid + 1] <= b
      BY <1>4, <2>2
    <2>4. TwiceMedian(s) = 2 * t[mid + 1]
      BY <1>6 DEF TwiceMedian, t, n, mid
    <2> QED BY <2>3, <2>4
  <1>7. CASE n % 2 # 1
    <2>1. n = 2 * mid /\ mid \in Nat
      BY <1>1, <1>7
    <2> HIDE DEF mid
    <2>2. /\ mid \in 1..n /\ 2 * mid <= n + 2 /\ 2 * mid >= n
          /\ mid + 1 \in 1..n /\ 2 * (mid + 1) <= n + 2 /\ 2 * (mid + 1) >= n
      BY <1>1, <1>5, <2>1
    <2>3. t[mid] \in Int /\ a <= t[mid] /\ t[mid] <= b
      BY <1>4, <2>2
    <2>4. t[mid + 1] \in Int /\ a <= t[mid + 1] /\ t[mid + 1] <= b
      BY <1>4, <2>2
    <2>5. TwiceMedian(s) = t[mid] + t[mid + 1]
      BY <1>7 DEF TwiceMedian, t, n, mid
    <2> QED BY <2>3, <2>4, <2>5
  <1> QED BY <1>6, <1>7

LEMMA MagnitudeIsNat ==
  ASSUME NEW x \in Int
  PROVE  /\ Magnitude(x) \in Nat
         /\ \A c \in Int : -c <= x /\ x <= c => Magnitude(x) <= c
  BY DEF Magnitude

\* Nor is the spread wider than theirs.
LEMMA SpreadLiesWithMost ==
  ASSUME \A s \in Seq(Int) : Sorts(s),
         NEW s \in Seq(Int), NEW a \in Int, NEW b \in Int, MostLie(s, a, b)
  PROVE  FourMAD(s) \in Int /\ 0 <= FourMAD(s) /\ FourMAD(s) <= 4 * (b - a)
  <1> DEFINE n == Len(s)
             m == TwiceMedian(s)
             e == Deviations(s)
             d == 2 * (b - a)
  <1>1. n \in Nat /\ m \in Int /\ 2 * a <= m /\ m <= 2 * b
    BY MedianLiesWithMost
  <1>2. \A i \in 1..n : s[i] \in Int
    OBVIOUS
  <1>3. e = [i \in 1..n |-> Magnitude(2 * s[i] - m)]
    BY DEF Deviations
  <1> HIDE DEF m, e, n
  <1>4. \A i \in 1..n : e[i] \in Nat /\ (a <= s[i] /\ s[i] <= b => e[i] <= d)
    <2> SUFFICES ASSUME NEW i \in 1..n PROVE e[i] \in Nat /\ (a <= s[i] /\ s[i] <= b => e[i] <= d)
      OBVIOUS
    <2>1. s[i] \in Int /\ 2 * s[i] - m \in Int /\ e[i] = Magnitude(2 * s[i] - m)
      BY <1>1, <1>2, <1>3
    <2>2. a <= s[i] /\ s[i] <= b => -d <= 2 * s[i] - m /\ 2 * s[i] - m <= d
      BY <1>1, <2>1
    <2>3. d \in Int
      OBVIOUS
    <2> QED BY <2>1, <2>2, <2>3, MagnitudeIsNat
  <1>5. e \in Seq(Int) /\ Len(e) = n
    BY <1>1, <1>3, <1>4
  <1>6. MostLie(e, 0, d)
    <2> DEFINE C == Within(s, a, b)
               D == Within(e, 0, d)
    <2>1. C \subseteq D
      BY <1>4, <1>5 DEF Within, n
    <2>2. C \subseteq 1..n /\ D \subseteq 1..n
      BY <1>5 DEF Within, n
    <2>3. IsFiniteSet(D) /\ Cardinality(D) \in Nat /\ Cardinality(C) \in Nat
      BY <1>5, <2>2, IndexSets DEF n
    <2>4. Cardinality(C) <= Cardinality(D)
      BY <2>1, <2>3, FS_Subset
    <2>5. 2 * Cardinality(C) > n
      BY DEF MostLie, n
    <2> HIDE DEF C, D
    <2>6. 2 * Cardinality(D) > n
      BY <1>1, <2>3, <2>4, <2>5
    <2> QED BY <1>5, <2>6 DEF MostLie, D
  <1>7. Sorts(e) /\ d \in Int
    BY <1>5
  <1> HIDE DEF d
  <1>8. TwiceMedian(e) \in Int /\ 2 * 0 <= TwiceMedian(e) /\ TwiceMedian(e) <= 2 * d
    BY <1>5, <1>6, <1>7, MedianLiesWithMost
  <1>9. FourMAD(s) = TwiceMedian(e)
    BY DEF FourMAD, e
  <1> QED BY <1>8, <1>9 DEF d

\* A larger factor, a larger product.
LEMMA ProductsGrow ==
  ASSUME NEW t \in Nat, NEW x \in Int, NEW y \in Int, x <= y PROVE t * x <= t * y
  OBVIOUS

\* The scale a baseline is judged by.
LEMMA SigmaBounds ==
  ASSUME \A s \in Seq(Int) : Sorts(s),
         NEW s \in Seq(Int), NEW a \in Int, NEW b \in Int, MostLie(s, a, b)
  PROVE  /\ ScaledSigma(s) \in Nat \ {0}
         /\ 40000 * SigmaFloor <= ScaledSigma(s)
         /\ \/ ScaledSigma(s) = 40000 * SigmaFloor
            \/ ScaledSigma(s) <= 59304 * (b - a)
  <1>1. FourMAD(s) \in Int /\ 0 <= FourMAD(s) /\ FourMAD(s) <= 4 * (b - a)
    BY SpreadLiesWithMost
  <1>2. SigmaFloor \in Nat \ {0}
    BY BaselineAssumption
  <1> QED BY <1>1, <1>2 DEF ScaledSigma

\* What departs by three sigmas of floor and spread is found.
LEMMA FarDeparts ==
  ASSUME NEW v \in Int, NEW m \in Int, NEW sigma \in Nat, NEW d \in Nat, NEW w \in Nat,
         Magnitude(2 * v - m) >= 2 * d,
         2 * d >= TwiceHigh * SigmaFloor,
         20000 * d >= TwiceHigh * 14826 * w,
         sigma = 40000 * SigmaFloor \/ sigma <= 59304 * w
  PROVE  40000 * Magnitude(2 * v - m) >= TwiceHigh * sigma
  <1>1. TwiceHigh \in Nat /\ SigmaFloor \in Nat /\ Magnitude(2 * v - m) \in Nat
    BY BaselineAssumption, MagnitudeIsNat
  <1>2. 40000 * Magnitude(2 * v - m) >= 80000 * d
    BY <1>1
  <1>3. CASE sigma = 40000 * SigmaFloor
    <2>1. TwiceHigh * sigma = 40000 * (TwiceHigh * SigmaFloor)
      BY <1>1, <1>3
    <2>2. TwiceHigh * SigmaFloor \in Int
      BY <1>1
    <2>3. 40000 * (TwiceHigh * SigmaFloor) <= 80000 * d
      BY <2>2
    <2> QED BY <1>1, <1>2, <2>1, <2>2, <2>3
  <1>4. CASE sigma <= 59304 * w
    <2>1. TwiceHigh * sigma <= TwiceHigh * (59304 * w)
      BY <1>1, <1>4, ProductsGrow
    <2>2. /\ TwiceHigh * (59304 * w) = 59304 * (TwiceHigh * w)
          /\ TwiceHigh * 14826 * w = 14826 * (TwiceHigh * w)
          /\ TwiceHigh * w \in Int /\ TwiceHigh * sigma \in Int
      BY <1>1
    <2> DEFINE p == TwiceHigh * w
               q == TwiceHigh * sigma
    <2>3. p \in Int /\ q \in Int /\ q <= 59304 * p /\ 20000 * d >= 14826 * p
      BY <2>1, <2>2
    <2> HIDE DEF p, q
    <2>4. q <= 80000 * d
      BY <2>3
    <2>5. 40000 * Magnitude(2 * v - m) >= q
      BY <1>1, <1>2, <2>3, <2>4
    <2> QED BY <2>5 DEF q
  <1> QED BY <1>3, <1>4

\* What is nearer than half a floor's threshold is not.
LEMMA NearStays ==
  ASSUME NEW v \in Int, NEW m \in Int, NEW sigma \in Nat, NEW twice \in Nat,
         Magnitude(2 * v - m) < TwiceMedium * SigmaFloor, TwiceMedium <= twice,
         40000 * SigmaFloor <= sigma
  PROVE  ~(40000 * Magnitude(2 * v - m) >= twice * sigma)
  <1>1. TwiceMedium \in Nat /\ SigmaFloor \in Nat /\ Magnitude(2 * v - m) \in Nat
    BY BaselineAssumption, MagnitudeIsNat
  <1>2. TwiceMedium * (40000 * SigmaFloor) <= TwiceMedium * sigma
    BY <1>1, ProductsGrow
  <1>3. sigma * TwiceMedium <= sigma * twice
    BY <1>1, ProductsGrow
  <1>4. /\ TwiceMedium * (40000 * SigmaFloor) = 40000 * (TwiceMedium * SigmaFloor)
        /\ sigma * TwiceMedium = TwiceMedium * sigma /\ sigma * twice = twice * sigma
        /\ TwiceMedium * SigmaFloor \in Int /\ TwiceMedium * sigma \in Int /\ twice * sigma \in Int
    BY <1>1
  <1> DEFINE p == TwiceMedium * SigmaFloor
             q == TwiceMedium * sigma
             r == twice * sigma
  <1>5. p \in Int /\ q \in Int /\ r \in Int /\ 40000 * p <= q /\ q <= r /\ Magnitude(2 * v - m) < p
    BY <1>2, <1>3, <1>4
  <1> HIDE DEF p, q, r
  <1>6. 40000 * Magnitude(2 * v - m) < r
    BY <1>1, <1>5
  <1> QED BY <1>1, <1>5, <1>6 DEF r

\* What the baseline's majority decides, of any usable window.
LEMMA MajorityDecides ==
  ASSUME \A s \in Seq(Int) : Sorts(s), Usable \in Seq(Int), Len(Usable) >= MinWindowSessions,
         NEW a \in Int, NEW b \in Int, a <= b, MostLie(Usable, a, b), NEW v \in Int
  PROVE  /\ v > b /\ FarFrom(v - b, a, b) => Severity(v) = "HIGH" /\ Direction(v) = "INCREASE"
         /\ v < a /\ FarFrom(a - v, a, b) => Severity(v) = "HIGH" /\ Direction(v) = "DECREASE"
         /\ (\A x \in {a, b} : 2 * Magnitude(v - x) < TwiceMedium * SigmaFloor) => Severity(v) = "none"
  <1> DEFINE m     == TwiceMedian(Usable)
             sigma == ScaledSigma(Usable)
  <1>1. m \in Int /\ 2 * a <= m /\ m <= 2 * b
    BY MedianLiesWithMost
  <1>2. /\ sigma \in Nat \ {0} /\ 40000 * SigmaFloor <= sigma
        /\ sigma = 40000 * SigmaFloor \/ sigma <= 59304 * (b - a)
    BY SigmaBounds
  <1>3. /\ TwiceHigh \in Nat /\ TwiceMedium \in Nat /\ TwiceMedium <= TwiceHigh
        /\ MinWindowSessions \in Nat /\ Len(Usable) \in Nat /\ SigmaFloor \in Nat
    BY BaselineAssumption
  <1> HIDE DEF m, sigma
  <1>4. /\ Departs(v, TwiceHigh) <=> 40000 * Magnitude(2 * v - m) >= TwiceHigh * sigma
        /\ Departs(v, TwiceMedium) <=> 40000 * Magnitude(2 * v - m) >= TwiceMedium * sigma
    BY DEF Departs, m, sigma
  <1>5. Severity(v) = IF Departs(v, TwiceHigh) THEN "HIGH"
                      ELSE IF Departs(v, TwiceMedium) THEN "MEDIUM" ELSE "none"
    <2>1. ~(Len(Usable) < MinWindowSessions) /\ ~(sigma <= 0)
      BY <1>2, <1>3
    <2> QED BY <2>1 DEF Severity, sigma
  <1>6. Direction(v) = IF 2 * v < m THEN "DECREASE" ELSE "INCREASE"
    BY DEF Direction, m
  <1>7. b - a \in Nat
    OBVIOUS
  <1>8. ASSUME v > b, FarFrom(v - b, a, b) PROVE Severity(v) = "HIGH" /\ Direction(v) = "INCREASE"
    <2>1. v - b \in Nat /\ ~(2 * v < m) /\ Magnitude(2 * v - m) >= 2 * (v - b)
      BY <1>1, <1>8 DEF Magnitude
    <2> DEFINE d == v - b
               w == b - a
    <2>2. 2 * d >= TwiceHigh * SigmaFloor /\ 20000 * d >= TwiceHigh * 14826 * w
      BY <1>8 DEF FarFrom
    <2>3. /\ d \in Nat /\ w \in Nat /\ Magnitude(2 * v - m) >= 2 * d
          /\ sigma \in Nat /\ (sigma = 40000 * SigmaFloor \/ sigma <= 59304 * w)
      BY <1>2, <1>7, <2>1
    <2> HIDE DEF d, w
    <2>4. 40000 * Magnitude(2 * v - m) >= TwiceHigh * sigma
      BY <1>1, <2>2, <2>3, FarDeparts
    <2>5. Departs(v, TwiceHigh)
      BY <1>4, <2>4
    <2> QED BY <1>5, <1>6, <2>1, <2>5
  <1>9. ASSUME v < a, FarFrom(a - v, a, b) PROVE Severity(v) = "HIGH" /\ Direction(v) = "DECREASE"
    <2>1. a - v \in Nat /\ 2 * v < m /\ Magnitude(2 * v - m) >= 2 * (a - v)
      BY <1>1, <1>9 DEF Magnitude
    <2> DEFINE d == a - v
               w == b - a
    <2>2. 2 * d >= TwiceHigh * SigmaFloor /\ 20000 * d >= TwiceHigh * 14826 * w
      BY <1>9 DEF FarFrom
    <2>3. /\ d \in Nat /\ w \in Nat /\ Magnitude(2 * v - m) >= 2 * d
          /\ sigma \in Nat /\ (sigma = 40000 * SigmaFloor \/ sigma <= 59304 * w)
      BY <1>2, <1>7, <2>1
    <2> HIDE DEF d, w
    <2>4. 40000 * Magnitude(2 * v - m) >= TwiceHigh * sigma
      BY <1>1, <2>2, <2>3, FarDeparts
    <2>5. Departs(v, TwiceHigh)
      BY <1>4, <2>4
    <2> QED BY <1>5, <1>6, <2>1, <2>5
  <1>10. ASSUME \A x \in {a, b} : 2 * Magnitude(v - x) < TwiceMedium * SigmaFloor
         PROVE  Severity(v) = "none"
    <2>1. Magnitude(2 * v - m) < TwiceMedium * SigmaFloor
      <3> DEFINE p == TwiceMedium * SigmaFloor
      <3>1. p \in Int
        BY <1>3
      <3>2. 2 * Magnitude(v - a) < p /\ 2 * Magnitude(v - b) < p
        BY <1>10
      <3> HIDE DEF p
      <3>3. Magnitude(2 * v - m) < p
        BY <1>1, <3>1, <3>2 DEF Magnitude
      <3> QED BY <3>3 DEF p
    <2>2. ~Departs(v, TwiceHigh) /\ ~Departs(v, TwiceMedium)
      BY <1>1, <1>2, <1>3, <1>4, <2>1, NearStays
    <2> QED BY <1>5, <2>2
  <1> QED BY <1>8, <1>9, <1>10

BaselineInv == outings \in Seq(Played)

LEMMA UsableIsList ==
  ASSUME ListsAreHandled, BaselineInv PROVE Usable \in Seq(Int)
  <1> DEFINE full == SelectSeq(outings, IsFull)
             kept == IF Len(full) > WindowSessions THEN WindowSessions ELSE Len(full)
  <1>1. full \in Seq(Played)
    BY DEF ListsAreHandled, BaselineInv
  <1> HIDE DEF full
  <1>2. kept \in Nat /\ kept <= Len(full)
    BY <1>1, BaselineAssumption
  <1> HIDE DEF kept
  <1>3. \A i \in 1..kept : full[i].value \in Int
    <2> SUFFICES ASSUME NEW i \in 1..kept PROVE full[i].value \in Int
      OBVIOUS
    <2>1. full[i] \in Played
      BY <1>1, <1>2
    <2> QED BY <2>1, BaselineAssumption DEF Played
  <1>4. Usable = [i \in 1..kept |-> full[i].value]
    BY DEF Usable, kept, full
  <1> QED BY <1>2, <1>3, <1>4

\* For any window, thresholds, floor and values, if lists are handled as they should:
\* where most of the baseline lies decides severity and direction, whatever the
\* minority (detector.go, RobustSigma, Evaluate; SigmaFloor).
THEOREM MajorityRules == ListsAreHandled => (BaselineSpec => []MostOutingsDecide)
  <1> SUFFICES ASSUME ListsAreHandled PROVE BaselineSpec => []MostOutingsDecide
    OBVIOUS
  <1>1. BaselineInit => BaselineInv
    BY DEF BaselineInit, BaselineInv
  <1>2. BaselineInv /\ [BaselineNext]_outings => BaselineInv'
    <2> SUFFICES ASSUME BaselineInv, [BaselineNext]_outings PROVE BaselineInv'
      OBVIOUS
    <2>1. ASSUME NEW v \in OutingValue, NEW n \in OutingPitches, AddOuting(v, n) PROVE BaselineInv'
      <3>1. [value |-> v, pitches |-> n] \in Played
        BY DEF Played
      <3> QED BY <2>1, <3>1 DEF AddOuting, BaselineInv
    <2>2. CASE UNCHANGED outings
      BY <2>2 DEF BaselineInv
    <2> QED BY <2>1, <2>2 DEF BaselineNext
  <1>3. BaselineInv => MostOutingsDecide
    <2> SUFFICES ASSUME BaselineInv, Len(Usable) >= MinWindowSessions,
                        NEW a \in OutingValue, NEW b \in OutingValue, a <= b, MostLie(Usable, a, b),
                        NEW v \in Observed
                 PROVE  /\ v > b /\ FarFrom(v - b, a, b) => Severity(v) = "HIGH" /\ Direction(v) = "INCREASE"
                        /\ v < a /\ FarFrom(a - v, a, b) => Severity(v) = "HIGH" /\ Direction(v) = "DECREASE"
                        /\ (\A x \in {a, b} : 2 * Magnitude(v - x) < TwiceMedium * SigmaFloor)
                             => Severity(v) = "none"
      BY DEF MostOutingsDecide
    <2>1. a \in Int /\ b \in Int /\ v \in Int
      BY BaselineAssumption
    <2>2. Usable \in Seq(Int) /\ \A s \in Seq(Int) : Sorts(s)
      BY UsableIsList DEF ListsAreHandled
    <2> QED BY <2>1, <2>2, MajorityDecides
  <1> QED BY <1>1, <1>2, <1>3, PTL DEF BaselineSpec
============================================================================
