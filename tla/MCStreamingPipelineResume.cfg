SPECIFICATION Spec
CONSTANTS
  N = 3
  Interval = 2
  MaxRuns = 2
INVARIANT
  ResumedTensorsAreInOutput
