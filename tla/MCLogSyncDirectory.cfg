SPECIFICATION Spec
CONSTANTS
  s1 = s1
  Writer = writer
  Flusher = flusher
  Syncers = {}
  Faults = {}
  MaxLog = 3
  MaxWrites = 4
  MaxCalls = 2
CHECK_DEADLOCK FALSE
INVARIANTS AckedFileSurvives
