SPECIFICATION Spec
CONSTANTS
  a = a
  b = b
  c = c
  Users = {a, b, c}
  Service = Service
  None = None
  Tries = 2
  Scenarios <- MCScenarios
INVARIANTS SyncIsBarrier SleepsForAReason LocksExclude
PROPERTIES StopReturns SyncReturns
CHECK_DEADLOCK FALSE
