------------------------- MODULE MCSafetySupervisor -------------------------
(* Small instance of the supervisor node: each sensor with a nominal and an *)
(* abnormal message.                                                        *)
EXTENDS SafetySupervisor

Message(topic, V) == {[topic |-> topic, value |-> v] : v \in V}

MCMessages == UNION {
  Message("lidar", {TRUE}), Message("imu", {FALSE, TRUE}),
  Message("persons", {{}, {0, 4, 15}}), Message("battery", {50, 10}),
  Message("servo", BOOLEAN), Message("nav_timeout", {TRUE}), Message("estop", BOOLEAN)}
=============================================================================
