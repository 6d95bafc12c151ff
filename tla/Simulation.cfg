SPECIFICATION FairSpec
CONSTANTS
  TraceCap = 1
  Scenarios = {"cross-talk"}
  MaxStarts = 2
  MaxRuns = 1
  MaxTroubles = 1
CHECK_DEADLOCK FALSE
INVARIANTS TypeOK SilentWhenIdle RunsWhileRunning PlaysTheScript FirstReadyMeansBoth
PROPERTY FirstStartSettles
