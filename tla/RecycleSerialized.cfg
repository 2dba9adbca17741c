SPECIFICATION FairSpec
CONSTANTS
  A = A
  B = B
  C = C
  D = D
  s1 = s1
  s2 = s2
  NoOp = NoOp
  NoContent = NoContent
  Op = {A, B, C, D}
  Kind <- MCKind
  Store <- MCStore
  MaxWorkers = 3
  Scenarios <- MCRecycling
INVARIANTS
  Serialized
CHECK_DEADLOCK FALSE
