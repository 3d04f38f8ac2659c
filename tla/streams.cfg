SPECIFICATION LiveSpec
CONSTANTS
  Buffer = 1
  ReplayBatch = 2
  Wire = 1
  MaxFailed = 2
  MaxEvents = 5
  MaxFaults = 2
  MaxRestarts = 1
INVARIANT StreamEndsAtRest
PROPERTIES
  FollowsFeed
  FollowEnds
CHECK_DEADLOCK FALSE
