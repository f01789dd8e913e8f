SPECIFICATION FairSpec
CONSTANTS
  N = 3
  Grain = 3
  MaxDraw = 3
  WordMod = 16
  Wklds <- Checked
INVARIANTS
  NoOverlap
  WholeFiles
  ReadsWritten
  OffsFit
  SizesDecide
CHECK_DEADLOCK FALSE
PROPERTIES
  EndsUnlessUneven
