SPECIFICATION Spec
CHECK_DEADLOCK FALSE
CONSTANTS
  DefaultMax = 3
  Policies = {0, 2, 4}
INVARIANTS
  LoopNeverFallsThrough
