--------------------------- MODULE MCWatchdogNode ---------------------------
(* One node of each class; the auxiliary one is slower.                      *)
EXTENDS WatchdogNode

MCNodes == {"estop", "lidar", "led"}
MCStaleThreshold == [n \in MCNodes |-> IF n = "led" THEN 2 ELSE 1]
=============================================================================
