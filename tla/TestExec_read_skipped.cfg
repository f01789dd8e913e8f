SPECIFICATION Spec
CONSTANTS
  N = 2
  NumRepetitions = 1
  Faults = {}
  Tests <- DirTests
INVARIANTS
  ReadTestRuns
