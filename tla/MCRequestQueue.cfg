SPECIFICATION FairSpec
CONSTANTS
  MaxRequests = 3
  MaxQueued = 3
  MaxConcurrent = 1
  MaxRejected = 1
  Priority = {0, 1}
  Task = {k1, k2}
INVARIANTS
  HeadIsFirst
  NobodyForgotten
  StatsAreTrue
PROPERTIES
  OneOutcome
  Acquires
