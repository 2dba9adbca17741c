SPECIFICATION KernelSpec
CONSTANTS
  t1 = t1
  t2 = t2
  Triple <- MCTriple
  Trivial <- MCTrivial
  Inconsistent <- MCInconsistent
  MaxGen = 4
  MaxRuns = 3
  MaxBuilds = 4
INVARIANTS
  ShownIsCurrent
  VerbServesItsVariant
  VerdictSound
  FailureIsRetried
PROPERTIES
  GenerationNamesContent
  ImplementsContract
