--------------------------- MODULE ModelRegistry ---------------------------
(***************************************************************************)
(* Which model is active, and which one a stored prediction is filed under *)
(* (internal/db/store.go, ActivateModelVersion; processor/pipeline.go,     *)
(* predict and persistPrediction; the partial unique index on              *)
(* model_versions).                                                        *)
(*                                                                         *)
(* Activation is two statements in one READ COMMITTED transaction: the     *)
(* first sees the rows that were committed when it began and waits for the *)
(* ones another transaction has locked, then looks at them again; the      *)
(* second is checked against the index.  Meanwhile the processor scores    *)
(* pitches with whatever model the inference service has loaded, and files *)
(* the scores under the version that is active when it writes them.        *)
(***************************************************************************)
EXTENDS Integers, FiniteSets

CONSTANTS
  Version, Variant,
  VariantOf,       \* [Version -> Variant]
  Deployer,        \* concurrent activations
  Scorer,          \* readers of pitch.raw
  NoVersion, Nobody

ASSUME RegistryAssumption ==
  /\ VariantOf \in [Version -> Variant]
  /\ NoVersion \notin Version
  /\ Nobody \notin Deployer

VARIABLES
  activeVersions,  \* committed rows with is_active
  locked,          \* [Version -> Deployer \cup {Nobody}]  row locks
  activation,      \* [Deployer -> ...]  the transactions
  loaded,          \* [Variant -> Version]  what the service answers with
  scoring,         \* [Scorer -> ...]  predict's result, not yet filed
  filed            \* history: <<version that scored, version it is filed under>>

registryVars == <<activeVersions, locked, activation, loaded, scoring, filed>>

NoActivation == [at |-> "idle", target |-> NoVersion, seen |-> {}, cleared |-> {}]
NoScoring    == [variant |-> "none", by |-> NoVersion]

RegistryTypeOK ==
  /\ activeVersions \subseteq Version
  /\ locked \in [Version -> Deployer \cup {Nobody}]
  /\ activation \in [Deployer -> [at : {"idle", "loaded", "looked", "cleared", "marked"},
                                  target : Version \cup {NoVersion},
                                  seen : SUBSET Version, cleared : SUBSET Version]]
  /\ loaded \in [Variant -> Version]
  /\ scoring \in [Scorer -> [variant : Variant \cup {"none"}, by : Version \cup {NoVersion}]]
  /\ filed \subseteq (Version \X Version)

RegistryInit ==
  /\ activeVersions = {}
  /\ locked = [v \in Version |-> Nobody]
  /\ activation = [d \in Deployer |-> NoActivation]
  /\ loaded \in { f \in [Variant -> Version] : \A k \in Variant : VariantOf[f[k]] = k }
  /\ scoring = [w \in Scorer |-> NoScoring]
  /\ filed = {}

ActiveOf(k) == { v \in activeVersions : VariantOf[v] = k }

\* GetModelVersion: the row of what is to be activated exists.
LoadVersion(d, v) ==
  /\ activation[d].at = "idle"
  /\ activation' = [activation EXCEPT ![d].at = "loaded", ![d].target = v]
  /\ UNCHANGED <<activeVersions, locked, loaded, scoring, filed>>

TargetVariant(d) == VariantOf[activation[d].target]

\* DeactivateModelVariant: the rows it sees ...
LookAtActive(d) ==
  /\ activation[d].at = "loaded"
  /\ activation' = [activation EXCEPT ![d].at = "looked", ![d].seen = ActiveOf(TargetVariant(d))]
  /\ UNCHANGED <<activeVersions, locked, loaded, scoring, filed>>

StillActive(d) == activation[d].seen \cap activeVersions

\* ... and, once nobody else has them locked, the ones that are still active.
DeactivateModelVariant(d) ==
  /\ activation[d].at = "looked"
  /\ \A v \in activation[d].seen : locked[v] = Nobody
  /\ activation' = [activation EXCEPT ![d].at = "cleared", ![d].cleared = StillActive(d)]
  /\ locked' = [v \in Version |-> IF v \in StillActive(d) THEN d ELSE locked[v]]
  /\ UNCHANGED <<activeVersions, loaded, scoring, filed>>

\* Mutant of IndexAdmits: there is no index.
NoIndex(d) == TRUE

\* The index admits no other active version of the variant: committed and not
\* cleared by this transaction, or marked by another that has not ended (for
\* that one it waits).
IndexAdmits(d) ==
  /\ ActiveOf(TargetVariant(d)) \subseteq activation[d].cleared \cup {activation[d].target}
  /\ \A e \in Deployer \ {d} :
       activation[e].at = "marked" => VariantOf[activation[e].target] # TargetVariant(d)

MarkModelVersionActive(d) ==
  LET target == activation[d].target IN
  /\ activation[d].at = "cleared"
  /\ locked[target] \in {Nobody, d}
  /\ IndexAdmits(d)
  /\ activation' = [activation EXCEPT ![d].at = "marked"]
  /\ locked' = [locked EXCEPT ![target] = d]
  /\ UNCHANGED <<activeVersions, loaded, scoring, filed>>

Unlocked(d) == [v \in Version |-> IF locked[v] = d THEN Nobody ELSE locked[v]]

CommitActivation(d) ==
  /\ activation[d].at = "marked"
  /\ activeVersions' = (activeVersions \ activation[d].cleared) \cup {activation[d].target}
  /\ locked' = Unlocked(d)
  /\ activation' = [activation EXCEPT ![d] = NoActivation]
  /\ UNCHANGED <<loaded, scoring, filed>>

\* The index refuses the mark, or the transaction breaks: InTx rolls back.
RollBackActivation(d) ==
  /\ activation[d].at # "idle"
  /\ locked' = Unlocked(d)
  /\ activation' = [activation EXCEPT ![d] = NoActivation]
  /\ UNCHANGED <<activeVersions, loaded, scoring, filed>>

\* The inference service is restarted with another model (external).
LoadModel(v) ==
  /\ loaded' = [loaded EXCEPT ![VariantOf[v]] = v]
  /\ UNCHANGED <<activeVersions, locked, activation, scoring, filed>>

ScorePitch(w, k) ==
  /\ scoring[w] = NoScoring
  /\ scoring' = [scoring EXCEPT ![w] = [variant |-> k, by |-> loaded[k]]]
  /\ UNCHANGED <<activeVersions, locked, activation, loaded, filed>>

\* The row names the version that is active now; without one the prediction is
\* skipped.
UpsertPitchPrediction(w) == { <<scoring[w].by, v>> : v \in ActiveOf(scoring[w].variant) }

FilePrediction(w) ==
  /\ scoring[w] # NoScoring
  /\ filed' = filed \cup UpsertPitchPrediction(w)
  /\ scoring' = [scoring EXCEPT ![w] = NoScoring]
  /\ UNCHANGED <<activeVersions, locked, activation, loaded>>

RegistryNext ==
  \/ \E d \in Deployer :
       \/ \E v \in Version : LoadVersion(d, v)
       \/ LookAtActive(d) \/ DeactivateModelVariant(d) \/ MarkModelVersionActive(d)
       \/ CommitActivation(d) \/ RollBackActivation(d)
  \/ \E v \in Version : LoadModel(v)
  \/ \E w \in Scorer : FilePrediction(w) \/ \E k \in Variant : ScorePitch(w, k)

RegistrySpec == RegistryInit /\ [][RegistryNext]_registryVars

----------------------------------------------------------------------------
\* Whatever versions are activated at the same time, a variant never has two
\* active ones, so GetActiveModelVersion has one answer (store.go,
\* ActivateModelVersion: the deactivation does not see what a concurrent
\* activation has marked, only the index does).
OneActiveModel == \A k \in Variant : Cardinality(ActiveOf(k)) <= 1

\* Once a variant has an active version it always has one: an activation that
\* is refused or breaks off leaves the old one in place (store.go, InTx).
NeverWithoutModel ==
  [][\A k \in Variant : ActiveOf(k) # {} => ActiveOf(k)' # {}]_registryVars

Switch == INSTANCE ModelSwitch WITH shown <- [k \in Variant |-> ActiveOf(k)]

\* The registry implements the switch: two statements, rows locked one by one
\* and activations that race or break off are hidden, the old version is
\* replaced by the new one in one step, and nothing is filed in between
\* (store.go, ActivateModelVersion and InTx; pipeline.go, persistPrediction).
ImplementsSwitch == Switch!Spec

\* "A prediction cannot be interpreted without knowing which model produced it"
\* (migrations/000002_reference_tables.up.sql:67): what is filed under a
\* version was scored by it.
FiledUnderItsModel == \A pair \in filed : pair[1] = pair[2]
============================================================================
