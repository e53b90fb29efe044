SPECIFICATION RetryFairSpec
CONSTANTS
  Calls = {"ws"}
  WsCalls = {"ws"}
  MaxTries = 3
  Requests <- WebsocketOnly
  Workers = {"w"}
  MaxStores = 1
  MaxRevision = 2
  Faults = TRUE
INVARIANTS
  AtMostOneStart
PROPERTIES
  CallsSettle
  DrainCompletes
