CONSTANTS
  Faults <- MCFaults
  Definition <- MCDefinition
  AttemptCap = 4
SPECIFICATION FaultSpec
INVARIANTS OperatorKnows FullRetries
