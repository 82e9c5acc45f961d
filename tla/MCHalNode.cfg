CONSTANTS
  MaxAttempts = 2
  Cooldown = 3
  MaxErrors = 5
  Records = TRUE
SPECIFICATION HalFairSpec
INVARIANTS NeverIdle
PROPERTIES DataReturns ExhaustionReported
