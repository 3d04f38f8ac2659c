SPECIFICATION Spec
CONSTANTS
  j1 = j1
  j2 = j2
  w1 = w1
  w2 = w2
  t1 = t1
  NoTopic = NoTopic
  Job = {j1}
  Workspace = {w1, w2}
  Topic = {t1}
  WorkspaceOf <- OneWorkspace
  TopicOf <- OneTopic
  Slots = 1
  Parked = 1
  MaxTransient = 2
  RoundLimits = {2}
  Cleaner = TRUE
  MaxAttempts = 2
  MaxRestarts = 1
  MaxFaults = 1
INVARIANTS
  TypeOK
  JobMatchesAttempt
  NoLostAttempt
  ToldOfCancel
  CleanupOwed
  RestsWhole
PROPERTY KeepsJobLife
CHECK_DEADLOCK FALSE
