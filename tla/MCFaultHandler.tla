--------------------------- MODULE MCFaultHandler ---------------------------
(* Rows of the failure catalogue, one of each kind: a degradation retried    *)
(* often, a pause with the fast policy, a critical stop, one never retried.  *)
EXTENDS FaultHandler

Row(level, alert, max_attempts, terminal) ==
  [level |-> level, alert |-> alert, max_attempts |-> max_attempts, terminal |-> terminal]

MCFaults == {"CAMERA", "TOO_CLOSE", "COLLISION", "ESTOP"}
MCDefinition ==
  [f \in MCFaults |->
     CASE f = "CAMERA" -> Row(1, FALSE, 3, 3)      \* DEGRADED, _RECONNECT (5 attempts)
       [] f = "TOO_CLOSE" -> Row(2, FALSE, 3, 1)   \* SAFE_PAUSE, _FAST
       [] f = "COLLISION" -> Row(3, TRUE, 2, 5)    \* SAFE_STOP, _CRITICAL
       [] f = "ESTOP" -> Row(4, TRUE, 0, 5)]       \* EMERGENCY_STOP, _NORETRY
=============================================================================
