SPECIFICATION Spec
CONSTANTS
  Delay = 1
  Lag = 0
  MaxAsks = 1
  MaxJobs = 2
  MaxRecords = 2
  MaxMoves = 2
  MaxFaults = 1
INVARIANTS
  AnswersOnce
  PutBackMakesNoJob
PROPERTY OwedIsNotTakenTwice
CHECK_DEADLOCK FALSE
