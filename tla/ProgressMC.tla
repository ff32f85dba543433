----------------------------- MODULE ProgressMC -----------------------------
(***************************************************************************)
(* The two consumers that must make progress, side by side: a small topic  *)
(* whose handler may return anything (ConsumerGroup), and a small outing   *)
(* with its evaluator (Outing).  A behaviour chooses one of them and the   *)
(* other rests.                                                            *)
(***************************************************************************)
EXTENDS Outing, ConsumerGroup, TLC

CONSTANT Machines                       \* those a behaviour may choose

VARIABLE active

CONSTANTS ff, p1, p2, s1, w1, w2, q1, q2

\* Of two metrics, the first departs from the first pitch on, the other with
\* the second pitch, which a resumed outing has.
TwoFastballs == <<ff, ff>>
Departures   == <<ff, 1>> :> {1, 2} @@ <<ff, 2>> :> {2}

SmallLen     == q1 :> 2 @@ q2 :> 1
FirstOfTwo   == {<<q1, 1>>}

----------------------------------------------------------------------------
progressVars == <<active, outingVars, groupVars>>

\* The processes are alike: it does not matter which of them is the first to
\* own the partition.
ProgressInit ==
  /\ active \in Machines
  /\ GroupInit
  /\ OutingInit
  /\ reader = [s \in Session |-> CHOOSE p \in Proc : TRUE]

Turn(machine) == active = machine /\ UNCHANGED active
OutingTurn == Turn("outing") /\ UNCHANGED groupVars
GroupTurn  == Turn("group") /\ UNCHANGED outingVars

ProgressNext ==
  \/ OutingTurn /\ OutingNext
  \/ GroupTurn /\ GroupNext

\* OutingFairness and GroupFairness, of the machine that is at work.
ProgressFairness ==
  /\ \A s \in Session : WF_progressVars(OutingTurn /\ TellStep(s))
  /\ \A p \in Proc : WF_progressVars(OutingTurn /\ SweepStep(p))
  /\ \A p \in Proc, s \in Session :
       /\ WF_progressVars(OutingTurn /\ Mark(p, s))
       /\ WF_progressVars(OutingTurn /\ GoQuiet(p, s))
  /\ \A w \in Worker :
       /\ WF_progressVars(GroupTurn /\ ReaderStep(w))
       /\ WF_progressVars(GroupTurn /\ Handle(w))
  /\ \A q \in Partition : WF_progressVars(GroupTurn /\ Assign(q))

ProgressSpec == ProgressInit /\ [][ProgressNext]_progressVars /\ ProgressFairness
=============================================================================
