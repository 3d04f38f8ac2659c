SPECIFICATION Spec
CONSTANTS
  Job = {"triage", "fix"}
  Before = {"ready"}
  MaxRound = 2
  MaxTransients = 1
  MaxAttempts = 3
  MaxDeliveries = 2
  MaxCancels = 1
  MaxFaults = 1
  MaxCrashes = 1
INVARIANT IssueTellsTheJob
PROPERTY FailedMeansFailed
CHECK_DEADLOCK FALSE
