----------------------- MODULE MCSafetyStateMachine -----------------------
(* Small instance of the safety state machine: the deployed thresholds;     *)
(* each abnormal reading alone, taken on its threshold and beside it, and   *)
(* every two hazards of different kinds at once.                            *)
EXTENDS SafetyStateMachine

Nominal ==
  [estop |-> FALSE, crashed |-> FALSE, servo |-> FALSE, odrive |-> FALSE,
   contact |-> FALSE, lidar_stale |-> FALSE, marginal |-> FALSE,
   human |-> -1, battery |-> BatteryCaution + 1, cpu |-> CpuCaution - 1]

With(s, f, V) == {[s EXCEPT ![f] = v] : v \in V}

Readings(s) ==
  UNION {With(s, "human", {0, HumanDanger, HumanDanger + 1, HumanCaution, HumanCaution + 1}),
         With(s, "battery", {-1, 0, BatteryDock, BatteryDock + 1, BatteryCaution}),
         With(s, "cpu", {CpuCaution, CpuFault - 1, CpuFault}),
         With(s, "lidar_stale", {TRUE})}

Hazards(s) ==
  UNION {With(s, f, {TRUE}) : f \in {"estop", "crashed", "servo", "odrive", "contact", "marginal"}}
  \cup With(s, "battery", {BatteryDock})

MCSnapshots == Readings(Nominal) \cup UNION {Hazards(s) : s \in Hazards(Nominal) \cup {Nominal}}
                 \cup {Nominal}
=============================================================================
