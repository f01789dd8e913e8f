SPECIFICATION FairSpec
CONSTANTS
  N = 2
  Grain = 3
  MaxDraw = 3
  WordMod = 16
  Wklds <- UnevenWklds
PROPERTIES
  Terminates
CHECK_DEADLOCK FALSE
