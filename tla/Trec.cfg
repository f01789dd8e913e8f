SPECIFICATION Spec
CONSTANTS
  NumRepls = 2
  Runs <- TwoRuns
  MaxFails = 1
  Skews <- MCSkews
  OwnSize = 2
  OtherSize = 3
  NULL = NULL
INVARIANTS
  StopsFindRecords
  ExportsExecuted
  SummaryAgrees
PROPERTIES
  PastIsFixed
CHECK_DEADLOCK FALSE
