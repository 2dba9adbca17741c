SPECIFICATION Spec
CONSTANTS
  Blank <- MCBlank
  Literal <- MCLiteral
  Value <- MCValue
  Rank <- MCRank
  NoTerm = NoTerm
  MaxWalk = 4
  MaskBits = 3
  Cases <- MCCases
INVARIANTS
  VerdictExact
  SkipsAreReplaced
  BufferMatchesLookups
  FixpointExact
  ExplainedByTags
CHECK_DEADLOCK FALSE
