CONSTANTS
  MaxQueue = 2
  MaxPlanFail = 2
  Cascade <- MCCascade
  RetryLimits = {1}
  MaxDockAttempts = 1
  DockingSettings = {TRUE}
  Levels = {"NORMAL"}
  Priorities = {2}
  Batteries = {}
  StuckThreshold = 1
  MaxGoals = 2
SPECIFICATION FairSpec
PROPERTY QueuedGoalStarts
