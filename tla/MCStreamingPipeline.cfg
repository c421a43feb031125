SPECIFICATION FairSpec
CONSTANTS
  N = 4
  Interval = 2
  MaxRuns = 3
INVARIANTS
  EveryTensorAccounted
  FreshRunIsComplete
  FreshTotalsMatchFile
PROPERTIES
  CleanCheckpointIsTrue
  FileIsClosed
