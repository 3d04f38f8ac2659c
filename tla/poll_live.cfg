SPECIFICATION LiveSpec
CONSTANTS
  Delay = 1
  Lag = 0
  MaxAsks = 1
  MaxJobs = 1
  MaxRecords = 2
  MaxMoves = 2
  MaxFaults = 1
PROPERTY LabelsSettle
CHECK_DEADLOCK FALSE
