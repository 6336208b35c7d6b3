SPECIFICATION MCSpec
CONSTANTS
  c1 = c1
  c2 = c2
  i1 = i1
  i2 = i2
  i3 = i3
  CF <- MCCF
  Inserters <- MCInserters
  NoCF = NoCF
  Pipelined = FALSE
  ParanoidChecks = TRUE
  r1 = r1
  r2 = r2
  InUse = InUse
  Obsolete = Obsolete
  Nobody = Nobody
  MaxVersion = 3
  t1 = t1
  t2 = t2
  t3 = t3
  MaxTime = 2
  Writer = writer
  Flusher = flusher
  MaxLog = 3
  MaxWrites = 3
  MaxCalls = 2
SYMMETRY Symmetry
CHECK_DEADLOCK FALSE
INVARIANTS
  NoLostFlushRequest SchedulerListExact
  RefsMatch CacheCurrent HandlerNeverLast
  WritersHoldLocks LockTableExact NoDeadlock
  NoLogForgotten
  WritesKept RecoveredNumbers
