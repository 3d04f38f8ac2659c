SPECIFICATION Spec
CONSTANTS
  k1 = k1
  k2 = k2
  Checks = {k1, k2}
  MaxTurns = 2
  MaxFaults = 0
INVARIANT StoppedIsParked
CHECK_DEADLOCK FALSE
