SPECIFICATION Spec1
CONSTANTS
  c1 = c1
  c2 = c2
  g = g
  Check = {c1, c2}
  GateRun = {g}
  MaxWrites = 1
  MaxFaults = 1
  MaxAttempts = 2
  MaxScripts = 2
  Runs = {r1, r2}
  MaxEdits = 2
SYMMETRY Symmetry
INVARIANTS
  ChangeIsKept
  
  SubmissionIsTheAttempts
  AcceptedCounts
  ReportIsKept
  LandsWhatHolds
CHECK_DEADLOCK FALSE
