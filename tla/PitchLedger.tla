---------------------------- MODULE PitchLedger ----------------------------
(***************************************************************************)
(* What ingestion promises, without readers, transactions or retries.      *)
(*                                                                         *)
(* Each session has a ledger: its pitches in the order they were recorded. *)
(* A pitch is entered once and its place never changes.  A message that    *)
(* cannot be processed gets a letter instead.  The group's offset in a     *)
(* partition moves, forwards or backwards, only to where everything before *)
(* it is recorded one way or the other.                                    *)
(***************************************************************************)
EXTENDS Integers, Sequences, SequencesExt

CONSTANTS Partition, LogLen, Pitch, Session, PitchAt, SessionOf

VARIABLES
  ledger,        \* [Session -> Seq(Pitch)]
  letters,       \* messages with a dead letter
  offset         \* [Partition -> Nat]

ledgerVars == <<ledger, letters, offset>>

Entered(p) == Contains(ledger[SessionOf[p]], p)

Recorded(m) == m \in letters \/ Entered(PitchAt[m])

Init ==
  /\ ledger = [s \in Session |-> <<>>]
  /\ letters = {}
  /\ offset = [p \in Partition |-> 0]

Enter(m) ==
  /\ ~ Entered(PitchAt[m])
  /\ ledger' = [ledger EXCEPT ![SessionOf[PitchAt[m]]] = Append(@, PitchAt[m])]
  /\ UNCHANGED <<letters, offset>>

Letter(m) ==
  /\ letters' = letters \cup {m}
  /\ UNCHANGED <<ledger, offset>>

MoveTo(p, o) ==
  /\ \A i \in 1..o : Recorded(<<p, i>>)
  /\ offset' = [offset EXCEPT ![p] = o]
  /\ UNCHANGED <<ledger, letters>>

Next ==
  \E p \in Partition : \E o \in 1..LogLen[p] :
    Enter(<<p, o>>) \/ Letter(<<p, o>>) \/ MoveTo(p, o)

Spec == Init /\ [][Next]_ledgerVars
============================================================================
