SPECIFICATION Spec
CONSTANTS
  t1 = t1
  t2 = t2
  t3 = t3
  Threads <- MCThreads
  Dummy = Dummy
  Null = Null
  Requests <- PlainRequests
  Faults = {}
  Concurrency = {FALSE}
  MergeReads = FALSE
  MaxCalls = 2
CHECK_DEADLOCK FALSE
INVARIANT NobodyStuck
