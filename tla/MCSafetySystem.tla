--------------------------- MODULE MCSafetySystem ---------------------------
(* Small instance of the safety system: lidar and IMU data, one raw command, *)
(* below every cap.                                                          *)
EXTENDS SafetySystem

MCMessages == {[topic |-> t, value |-> FALSE] : t \in {"lidar", "imu"}}
MCCommands == {[speed |-> 20, turn |-> 0]}
=============================================================================
