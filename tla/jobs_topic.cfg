SPECIFICATION Spec
CONSTANTS
  j1 = j1
  j2 = j2
  w1 = w1
  w2 = w2
  t1 = t1
  NoTopic = NoTopic
  Job = {j1, j2}
  Workspace = {w1, w2}
  Topic = {t1}
  WorkspaceOf <- OneWorkspace
  TopicOf <- OneTopic
  Slots = 1
  Parked = 1
  MaxTransient = 1
  RoundLimits = {1}
  Cleaner = FALSE
  MaxAttempts = 2
  MaxRestarts = 0
  MaxFaults = 0
INVARIANTS
  OneOpenPerTopic
  
CHECK_DEADLOCK FALSE
SYMMETRY Twins
