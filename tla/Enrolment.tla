----------------------------- MODULE Enrolment -----------------------------
(***************************************************************************)
(* The rows that every pitch announces again: its pitcher, its batter, its *)
(* device (internal/processor/pipeline.go, persist; the upserts by natural *)
(* key in internal/db/dbgen).                                              *)
(*                                                                         *)
(* Each transaction upserts them in that order and keeps each row locked   *)
(* until it ends, so pitchers who bat against each other can meet in a     *)
(* circle of waits; PostgreSQL breaks it by failing one transaction.  Of   *)
(* two transactions that insert the same new row the later waits and then  *)
(* updates it, or, if it had got past the check of the natural key, fails  *)
(* on the primary key.  A failed transaction may be tried again: after a   *)
(* deadlock by the consumer, after a collision if its letter is replayed.  *)
(*                                                                         *)
(* An event may name no batter, no side of its batter and no device.  What *)
(* an upsert writes is merged into the row: a role and at most one hand.   *)
(***************************************************************************)
EXTENDS Integers, Sequences

CONSTANTS
  Tx,               \* pitches being processed at once
  Person,           \* natural keys of athletes
  Device,
  PitcherOf, BatterOf, DeviceOf,   \* [Tx -> ...], the last two or Unnamed
  StandOf,          \* [Tx -> {"known", Unknown}]  raw.Batter.Stand
  MaxRedeliveries,  \* bound
  NoTx, NoRow, Unknown, Unnamed

Rowset == Person \cup Device
Roles  == {"PITCHER", "BATTER", "TWO_WAY"}
Facts  == [role : Roles, throws : {"known", Unknown}, bats : {"known", Unknown}]

ASSUME EnrolAssumption ==
  /\ PitcherOf \in [Tx -> Person]
  /\ BatterOf \in [Tx -> Person \cup {Unnamed}]
  /\ DeviceOf \in [Tx -> Device \cup {Unnamed}]
  /\ StandOf \in [Tx -> {"known", Unknown}]
  /\ Person \cap Device = {}
  /\ Unnamed \notin Rowset
  /\ MaxRedeliveries \in Nat
  /\ NoTx \notin Tx
  /\ NoRow \notin Facts
  /\ Unknown # "known"

VARIABLES
  people,           \* [Person -> Facts \cup {NoRow}]  committed
  devices,          \* committed
  rowLock,          \* [Rowset -> Tx \cup {NoTx}]
  tx,               \* [Tx -> 0..4]  upserts done; 4 when committed
  told,             \* history: [Person -> SUBSET {"PITCHER", "BATTER"}]
  sided,            \* history: those whose side has been told
  redeliveries

enrolVars == <<people, devices, rowLock, tx, told, sided, redeliveries>>

EnrolTypeOK ==
  /\ people \in [Person -> Facts \cup {NoRow}]
  /\ devices \subseteq Device
  /\ rowLock \in [Rowset -> Tx \cup {NoTx}]
  /\ tx \in [Tx -> 0..4]
  /\ told \in [Person -> SUBSET {"PITCHER", "BATTER"}]
  /\ sided \subseteq Person
  /\ redeliveries \in Nat

EnrolInit ==
  /\ people = [a \in Person |-> NoRow]
  /\ devices = {}
  /\ rowLock = [r \in Rowset |-> NoTx]
  /\ tx = [t \in Tx |-> 0]
  /\ told = [a \in Person |-> {}]
  /\ sided = {}
  /\ redeliveries = 0

Order(t) == <<PitcherOf[t], BatterOf[t], DeviceOf[t]>>
NextRow(t) == Order(t)[tx[t] + 1]
Waits(t) == tx[t] < 3 /\ NextRow(t) # Unnamed /\ rowLock[NextRow(t)] \notin {t, NoTx}

\* A row the event does not name is passed over.
UpsertRow(t) ==
  /\ tx[t] < 3
  /\ ~Waits(t)
  /\ rowLock' = IF NextRow(t) = Unnamed THEN rowLock ELSE [rowLock EXCEPT ![NextRow(t)] = t]
  /\ tx' = [tx EXCEPT ![t] = @ + 1]
  /\ UNCHANGED <<people, devices, told, sided, redeliveries>>

Released(t) == [r \in Rowset |-> IF rowLock[r] = t THEN NoTx ELSE rowLock[r]]

\* ON CONFLICT (mlbam_id) DO UPDATE.
\* Mutant of MergedRole: the role is refreshed like the name.
LastRole(old, new) == new
MergedRole(old, new) == IF old = new THEN old ELSE "TWO_WAY"

Coalesce(new, old) == IF new = Unknown THEN old ELSE new

Merge(row, new) ==
  IF row = NoRow THEN new
  ELSE [role   |-> MergedRole(row.role, new.role),
        throws |-> Coalesce(new.throws, row.throws),
        bats   |-> Coalesce(new.bats, row.bats)]

AsPitcher == [role |-> "PITCHER", throws |-> "known", bats |-> Unknown]
AsBatter(t) == [role |-> "BATTER", throws |-> Unknown, bats |-> StandOf[t]]

CommitTx(t) ==
  /\ tx[t] = 3
  /\ people' =
       [a \in Person |->
          LET pitched == IF a = PitcherOf[t] THEN Merge(people[a], AsPitcher) ELSE people[a]
          IN  IF a = BatterOf[t] THEN Merge(pitched, AsBatter(t)) ELSE pitched]
  /\ told' = [a \in Person |-> told[a] \cup (IF a = PitcherOf[t] THEN {"PITCHER"} ELSE {})
                                       \cup (IF a = BatterOf[t] THEN {"BATTER"} ELSE {})]
  /\ sided' = sided \cup {a \in Person : a = BatterOf[t] /\ StandOf[t] = "known"}
  /\ devices' = devices \cup ({DeviceOf[t]} \ {Unnamed})
  /\ rowLock' = Released(t)
  /\ tx' = [tx EXCEPT ![t] = 4]
  /\ UNCHANGED redeliveries

Committed(r) == IF r \in Device THEN r \in devices ELSE people[r] # NoRow

RollBackTx(t) ==
  /\ rowLock' = Released(t)
  /\ tx' = [tx EXCEPT ![t] = 0]
  /\ UNCHANGED <<people, devices, told, sided, redeliveries>>

\* The primary key, derived from the natural one, is taken by an insert that
\* the check of the natural key did not see.
PrimaryKeyTaken(t) ==
  /\ Waits(t)
  /\ ~Committed(NextRow(t))
  /\ RollBackTx(t)

\* Whom t waits for, directly or through one other.
WaitsFor(t, u) == Waits(t) /\ rowLock[NextRow(t)] = u
Circle(t) ==
  \E u \in Tx : WaitsFor(t, u) /\ (WaitsFor(u, t) \/ \E v \in Tx : WaitsFor(u, v) /\ WaitsFor(v, t))

\* external: PostgreSQL, after deadlock_timeout.
DeadlockBroken(t) == Circle(t) /\ RollBackTx(t)

Redeliver(t) ==
  /\ tx[t] = 4
  /\ redeliveries < MaxRedeliveries
  /\ redeliveries' = redeliveries + 1
  /\ tx' = [tx EXCEPT ![t] = 0]
  /\ UNCHANGED <<people, devices, rowLock, told, sided>>

EnrolNext ==
  \E t \in Tx : \/ UpsertRow(t) \/ CommitTx(t) \/ PrimaryKeyTaken(t)
                \/ DeadlockBroken(t) \/ Redeliver(t)

EnrolSpec == EnrolInit /\ [][EnrolNext]_enrolVars

----------------------------------------------------------------------------
\* An athlete's row is what all transactions about them said together, in
\* whatever order they ran and however often they were repeated: who has
\* pitched and batted is TWO_WAY and nobody else, and a hand that is known
\* stays known, though a batter's rows say nothing of how they throw, a
\* pitcher's nothing of how they bat, and a batter may come without a side
\* (athletes.sql.go, UpsertAthlete).
RowIsTheJoin ==
  \A a \in Person :
    /\ people[a] # NoRow <=> told[a] # {}
    /\ people[a] # NoRow =>
         people[a].role = IF told[a] = {"PITCHER", "BATTER"} THEN "TWO_WAY"
                          ELSE CHOOSE r \in told[a] : TRUE
    /\ "PITCHER" \in told[a] <=> people[a] # NoRow /\ people[a].throws = "known"
    /\ a \in sided <=> people[a] # NoRow /\ people[a].bats = "known"
============================================================================
