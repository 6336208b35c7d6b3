SPECIFICATION Spec
CONSTANTS
  w1 = w1
  w2 = w2
  w3 = w3
  Writers <- MCWriters
  Requests <- LogRequests
  Faults = {"wal"}
  ParanoidChecks = TRUE
  Concurrent = TRUE
CHECK_DEADLOCK FALSE
INVARIANTS OkMeansApplied
