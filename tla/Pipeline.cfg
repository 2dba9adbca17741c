SPECIFICATION Spec
CONSTANTS
  Address = {a1, a2}
  None = None
  Slow = 2
  Fast = 1
  MaxTasks = 1
  Scenarios <- MCScenarios
INVARIANTS RealizerRuns FreedInTime
PROPERTIES AlarmMeansQuiet CallReturns
CHECK_DEADLOCK FALSE
