SPECIFICATION FairSpec
CONSTANTS
  A = A
  B = B
  C = C
  D = D
  s1 = s1
  s2 = s2
  NoOp = NoOp
  NoContent = NoContent
  Op = {A, B, C, D}
  Kind <- MCKind
  Store <- MCStore
  MaxWorkers = 4
  Scenarios <- MCScenarios
INVARIANTS
  Serialized
  OwnResults
  ReplayRestores
PROPERTIES
  ImplementsQueue
CHECK_DEADLOCK FALSE
