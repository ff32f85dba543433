---------------------------- MODULE ModelSwitch ----------------------------
(***************************************************************************)
(* What the model registry promises, without transactions, row locks or an *)
(* index.                                                                  *)
(*                                                                         *)
(* For each variant a switch shows at most one version.  Activating a      *)
(* version turns its variant's switch in one step, whatever it showed; it  *)
(* never goes back to showing none, and no other variant's switch moves.   *)
(* A prediction is filed under what the switch shows at that moment, and   *)
(* not at all while it shows none.                                         *)
(***************************************************************************)
CONSTANTS Version, Variant, VariantOf

VARIABLES
  shown,         \* [Variant -> SUBSET Version]  what is active
  filed          \* <<version that scored, version it is filed under>>

switchVars == <<shown, filed>>

Init ==
  /\ shown = [k \in Variant |-> {}]
  /\ filed = {}

Activate(v) ==
  /\ shown' = [shown EXCEPT ![VariantOf[v]] = {v}]
  /\ UNCHANGED filed

File(k, by) ==
  /\ filed' = filed \cup ({by} \X shown[k])
  /\ UNCHANGED shown

Next ==
  \E v \in Version : Activate(v) \/ \E k \in Variant : File(k, v)

Spec == Init /\ [][Next]_switchVars
============================================================================
