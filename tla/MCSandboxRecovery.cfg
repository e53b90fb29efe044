SPECIFICATION FairSpec
CHECK_DEADLOCK FALSE
CONSTANTS
  DefaultMax = 3
  Policies = {0, 2, 4, 5}
INVARIANTS
  OutageIdentityKept
  RetriesHaveACause
PROPERTIES
  AcknowledgedOutageIsOver
  CallEnds
