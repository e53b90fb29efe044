SPECIFICATION Spec
CONSTANTS
  r1 = r1
  r2 = r2
  w1 = w1
  w2 = w2
  Requests = {r1, r2}
  Workers = {w1, w2}
  MaxStores = 2
  MaxRevision = 1
  Faults = TRUE
SYMMETRY Symmetry
INVARIANTS
  IdleReportIsTrue
  RefusalMeansNotStarted
PROPERTIES
  RowsLeaveOnce
  ImplementsGate
