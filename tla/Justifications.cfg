SPECIFICATION FairSpec
CONSTANTS
  k1 = k1
  k2 = k2
  k3 = k3
  Axiom <- MCAxiom
  Contents <- MCContents
  Key = {k1, k2, k3}
  KeyOf <- MCKeyOf
  Method = {"explain", "explainEntailment", "explainInconsistency", "validate"}
  Stale = {TRUE, FALSE}
  Oracles <- MCOracles
  Limits = {1, 2, 4}
INVARIANTS
  Sound
  Minimal
  Distinct
  FindsAnother
PROPERTIES
  Terminates
CHECK_DEADLOCK FALSE
