SPECIFICATION FairSpec
CONSTANTS
  N = 3
  NumRepetitions = 2
  Faults = {}
  Tests <- AllTests
INVARIANTS
  NeverAborts
  SameResult
  CleansUp
  CollectivesMatch
PROPERTIES
  Terminates
