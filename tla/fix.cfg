SPECIFICATION Spec1
CONSTANTS
  k1 = k1
  k2 = k2
  Checks = {k1, k2}
  MaxTurns = 3
  MaxFaults = 2
  MaxRounds = 2
  MaxReports = 3
INVARIANTS
  LandsWhatWasMeasured
  
  IsTheExport
  
PROPERTIES
  FixEnds
  KeepsIgnored
  StopsWithAnEnvelope
CHECK_DEADLOCK FALSE
