SPECIFICATION MCSpec
CONSTANTS
  w1 = w1
  w2 = w2
  w3 = w3
  s1 = s1
  Null = Null
  Writers <- MCWriters
  Requests <- LiveRequests
  Faults = {"wal", "insert"}
  ParanoidChecks = TRUE
  Concurrent = TRUE
  Writer = writer
  Flusher = flusher
  MaxLog = 2
  MaxWrites = 3
  MaxCalls = 1
CHECK_DEADLOCK FALSE
INVARIANTS
  SequencesUnique AckedApplied AckedDurable DivergenceStops
  AssertionsHold NoUseAfterReturn AckedSynced
PROPERTIES
  SnapshotStable ImplementsAtomicState QueueImplemented EveryCallEnds
