SPECIFICATION Spec
CONSTANTS
  N = 3
  NumRepetitions = 2
  Faults = {"mkdir", "rmdir", "remove", "io"}
  Tests <- FaultTests
INVARIANTS
  OpenFileExists
  ReadersAfterWriters
  CommittedByAll
  ReadsFindData
  DivergesByFailure
CHECK_DEADLOCK FALSE
