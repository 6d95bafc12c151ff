SPECIFICATION Spec
CONSTANTS
  TraceCap = 1
  Scenarios = {"cross-talk"}
  MaxStarts = 2
  MaxRuns = 0
  MaxTroubles = 0
CHECK_DEADLOCK FALSE
INVARIANT ReadyMeansBoth
