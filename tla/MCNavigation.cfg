CONSTANTS
  MaxQueue = 2
  MaxPlanFail = 2
  Cascade <- MCCascade
  RetryLimits = {1, 2}
  MaxDockAttempts = 1
  DockingSettings = {TRUE, FALSE}
  Levels = {"NORMAL", "DANGER"}
  Priorities = {2}
  Batteries = {"LOW"}
  StuckThreshold = 1
  MaxGoals = 3
SPECIFICATION FairSpec
INVARIANTS OneOutcome QueueOrdered HaltIsStill
PROPERTIES ActiveEnds
