SPECIFICATION FairSpec
CONSTANTS
  N = 3
  Workers = 2
  MaxRuns = 2
INVARIANT
  EveryTensorOnce
PROPERTIES
  OldOutputSurvives
  RunEnds
