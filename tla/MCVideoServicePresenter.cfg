\* One transition while the UI lane presents.
CONSTANTS
  MaxTransitions = 1
  MaxLoads = 0
  Reasons = {"ConfigReconfigure"}
SPECIFICATION Spec
INVARIANT NoReconfigurationWhilePresenting
CHECK_DEADLOCK FALSE
