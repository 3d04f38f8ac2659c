SPECIFICATION LiveSpec
CONSTANTS
  j1 = j1
  j2 = j2
  w1 = w1
  w2 = w2
  t1 = t1
  NoTopic = NoTopic
  Job = {j1, j2}
  Workspace = {w1, w2}
  Topic = {t1}
  WorkspaceOf <- OneWorkspace
  TopicOf <- TextSecond
  Slots = 1
  Parked = 1
  MaxTransient = 2
  RoundLimits = {2}
  Cleaner = FALSE
  MaxAttempts = 1
  MaxRestarts = 0
  MaxFaults = 0
INVARIANT OneHandlerPerWorkspace
PROPERTY InOrder 
CHECK_DEADLOCK FALSE
