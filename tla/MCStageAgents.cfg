SPECIFICATION FairSpec
CHECK_DEADLOCK FALSE
CONSTANTS
  Slots = {"one", "two"}
  Parallel = 2
  Container = TRUE
  Grace = TRUE
  Continue = TRUE
  LostStarts = TRUE
  MaxTurns <- OneAgain
  MaxReports = 3
  MaxFaults = 1
  MaxLosses = 1
INVARIANTS
  AliveIsCharged
PROPERTIES
  KeepsAgentsContract
  ExhaustionSettles
  CallReturns
