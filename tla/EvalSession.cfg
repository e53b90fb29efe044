SPECIFICATION Spec
CONSTANTS
  Pinned = TRUE
  MaxSessions = 2
  MaxGraders = 2
  MaxItems = 1
INVARIANTS
  GradesWhatWasSaved
  ResourcesOutliveGrading
  ResultIsEarned
CHECK_DEADLOCK FALSE
PROPERTIES
  SessionsSettle
  KeepsEvaluationContract
