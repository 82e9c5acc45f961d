---------------------------- MODULE MCSafetyGate ----------------------------
(* Small instance of the safety gate: commands below, on and above the caps. *)
EXTENDS SafetyGate

MCCommands == {[speed |-> v, turn |-> w] : v \in {0, 20, 31, 81}, w \in {0, 90}}
=============================================================================
