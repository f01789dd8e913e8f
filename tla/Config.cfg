SPECIFICATION Spec
CONSTANTS
  NULL = NULL
  Freed = Freed
  Bad = Bad
  Many = Many
  Undefined = Undefined
  UIntMod = 4
  MaxRuns = 2
  MaxMembers = 4
  Options = {"option"}
  Counts <- MCCounts
  Names <- MCNames
  Dirs <- MCDirs
  OptionVals <- MCOptionVals
  AfioObjs <- MCAfioObjs
  AfsbObjs <- MCAfsbObjs
  SizeObjs <- MCSizeObjs
  ReportLists <- MCReportLists
INVARIANTS
  RunsNumbered
  MemoryHolds
  AcceptedAsSaid
CHECK_DEADLOCK FALSE
