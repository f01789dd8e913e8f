SPECIFICATION Spec
CONSTANTS
  P = 2
  Faults = {"test"}
  Exps <- AllExps
INVARIANTS
  FailureReported
