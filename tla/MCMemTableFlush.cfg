SPECIFICATION Spec
CONSTANTS
  Families = {f1, f2}
  Jobs = {j1, j2}
  Null = Null
  MaxFlushes = 2
  MinMerge = 1
  paranoid_checks = TRUE
  Faults = {"log", "sync", "table", "manifest"}
  MaxFailures = 1
  MaxWrites = 2
  MaxSwitches = 3
  MaxCompactions = 1
SYMMETRY Symmetry
CHECK_DEADLOCK FALSE
INVARIANTS FilesExist Recoverable Readable NoFlushLost FullLogReleased
