SPECIFICATION Spec
CONSTANTS
  t1 = t1
  d = d
  a = a
  S1 = S1
  S2 = S2
  Inferred = Inferred
  G = G
  Triple <- MCTriple
  Trivial <- MCTrivial
  Inconsistent <- MCInconsistent
  Derived <- MCDerived
  Assumed <- MCAssumed
  Edits <- MCEdits
  Store = {S1, S2}
  Graph = {Inferred, G}
  Scenarios <- MCRecovering
INVARIANT
  DeliversAlways
CHECK_DEADLOCK FALSE
