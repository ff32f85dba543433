--------------------------- MODULE AnomalyBoard ---------------------------
(***************************************************************************)
(* What the anomaly evaluator promises, without processes, sweeps or       *)
(* partitions.                                                             *)
(*                                                                         *)
(* A finding is posted once, on a number of pitches that its outing has    *)
(* had and that shows it, and stays as it was posted.  After that it is    *)
(* announced by at most one call, which leaves one event, or none if it    *)
(* fails, or as many as its writer makes attempts; and it is acknowledged  *)
(* for good.                                                               *)
(***************************************************************************)
EXTENDS Integers

CONSTANTS
  Session,
  Finding,       \* what may be found
  OutingOf,      \* [Finding -> Session]
  Shown,         \* [Finding -> SUBSET Nat]  the numbers of pitches that show it
  WriteAttempts  \* events one call may leave

VARIABLES
  pitches,       \* [Session -> Nat]
  posted,        \* [Finding -> Nat]  0, or the number of pitches it was found on
  called,        \* [Finding -> Nat]  calls that announced it
  announced,     \* [Finding -> Nat]  events about it
  acknowledged   \* SUBSET Finding

boardVars == <<pitches, posted, called, announced, acknowledged>>

Init ==
  /\ pitches = [s \in Session |-> 0]
  /\ posted = [k \in Finding |-> 0]
  /\ called = [k \in Finding |-> 0]
  /\ announced = [k \in Finding |-> 0]
  /\ acknowledged = {}

Throw(s) ==
  /\ pitches' = [pitches EXCEPT ![s] = @ + 1]
  /\ UNCHANGED <<posted, called, announced, acknowledged>>

Post(k) ==
  /\ posted[k] = 0
  /\ \E n \in Shown[k] :
       /\ n <= pitches[OutingOf[k]]
       /\ posted' = [posted EXCEPT ![k] = n]
  /\ UNCHANGED <<pitches, called, announced, acknowledged>>

Announce(k) ==
  /\ posted[k] # 0
  /\ called[k] = 0
  /\ called' = [called EXCEPT ![k] = 1]
  /\ \E n \in 0..WriteAttempts : announced' = [announced EXCEPT ![k] = n]
  /\ UNCHANGED <<pitches, posted, acknowledged>>

Acknowledge(k) ==
  /\ posted[k] # 0
  /\ acknowledged' = acknowledged \cup {k}
  /\ UNCHANGED <<pitches, posted, called, announced>>

Next ==
  \/ \E s \in Session : Throw(s)
  \/ \E k \in Finding : Post(k) \/ Announce(k) \/ Acknowledge(k)

Spec == Init /\ [][Next]_boardVars
============================================================================
