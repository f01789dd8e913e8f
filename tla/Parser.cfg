SPECIFICATION Spec
CONSTANTS
  NULL = NULL
  Bad = Bad
  Many = Many
  Undefined = Undefined
  UIntMod = 16
  NumProcs = 3
  TaskNums <- MCTaskNums
  Counts <- MCCounts
  UIntLists <- MCUIntLists
  NameLists <- MCNameLists
  SizeLists <- MCSizeLists
  TestLists <- MCTestLists
  DistObjs <- MCDistObjs
INVARIANTS
  ArraysAgree
  OneSource
  AcceptsDescribed
CHECK_DEADLOCK FALSE
