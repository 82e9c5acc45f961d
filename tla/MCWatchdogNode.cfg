CONSTANTS
  Nodes <- MCNodes
  Critical = {"estop"}
  Auxiliary = {"led"}
  StaleThreshold <- MCStaleThreshold
  Grace = 3
  MaxRestartAttempts = 2
SPECIFICATION WatchdogSpec
INVARIANTS StaleIsSilent NoFalseAlarm
PROPERTY CriticalReported
