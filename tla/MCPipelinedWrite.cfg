SPECIFICATION Spec
CONSTANTS
  t1 = t1
  t2 = t2
  t3 = t3
  Threads <- MCThreads
  Dummy = Dummy
  Null = Null
  Requests <- MixedRequests
  Faults = {"wal", "insert"}
  Concurrency = {TRUE, FALSE}
  MergeReads = FALSE
  MaxCalls = 1
CHECK_DEADLOCK FALSE
INVARIANTS AckedApplied MemTableSettled NoUseAfterReturn OnlyMutexDeadlock
PROPERTIES SnapshotStable
