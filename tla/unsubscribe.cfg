SPECIFICATION LiveSpec
CONSTANTS
  j1 = j1
  j2 = j2
  u1 = u1
  u2 = u2
  Job = {j1}
  Unsubscriber = {u1, u2}
  MaxLooks = 2
  MaxSubscribes = 1
INVARIANTS
  OrphansAreRetried
  WaitsForToken
PROPERTY RemovalEnds
CHECK_DEADLOCK FALSE
