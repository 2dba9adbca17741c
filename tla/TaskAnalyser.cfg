SPECIFICATION Spec
CONSTANTS
  Named <- MCNamed
  Equivalent <- MCEquivalent
  CandidateOf <- MCCandidateOf
  NonCandidates <- MCNonCandidates
  Subsumers <- MCSubsumers
  Graphs <- MCGraphs
  Modes <- MCModes
  Cardinalities <- MCCardinalities
  SimpleRoles = {1, 3}
  MaxWalk = 8
  MaxPseudoDepth = 2
  MaxPseudoNodes = 4
  MaxTasks = 2
INVARIANTS SubsumersStayPossible ReportedSubsumersHold ChainsComplete
