SPECIFICATION Spec1
CONSTANTS
  a1 = a1
  a2 = a2
  Attempt = {a1, a2}
  MaxLeases = 3
  MaxFaults = 2
  j1 = j1
  w1 = w1
  t1 = t1
  NoTopic = NoTopic
  Slots = 1
  Parked = 1
  MaxTransient = 2
  RoundLimits = {2}
  Cleaner = TRUE
  MaxAttempts = 1
  MaxRestarts = 1
  JobFaults = 1
INVARIANT LeaseHeld
PROPERTIES
  LeaseEnds
  CancelEnds
CHECK_DEADLOCK FALSE
