SPECIFICATION EvaluationFairSpec
CHECK_DEADLOCK FALSE
CONSTANTS
  None = None
  Versions = {"first", "second", "huge"}
  Oversized = {"huge"}
  MaxUploads = 2
INVARIANTS
  SandboxNotForgotten
  EvaluationStoppedFirst
  GradesWhatWasAccepted
  NothingLeftBehind
PROPERTIES
  RequestSettles
  KeepsGradingContract
