SPECIFICATION FairSpec
CONSTANTS
  P = 3
  Faults = {"test", "export"}
  Exps <- Checked
INVARIANTS
  CollectivesMatch
  RunsDontOverlap
  WorldRestored
  RecordsAgree
PROPERTIES
  SequentialSpec
  Terminates
