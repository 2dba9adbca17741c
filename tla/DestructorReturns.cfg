SPECIFICATION FairSpec
CONSTANTS
  r1 = r1
  r2 = r2
  c1 = c1
  c2 = c2
  NoTask = NoTask
  Task = {r1, r2, c1, c2}
  Parent <- MCParent
  Scheduled = {r2}
PROPERTIES
  DestructorReturns
CHECK_DEADLOCK FALSE
