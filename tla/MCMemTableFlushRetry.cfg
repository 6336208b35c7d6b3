SPECIFICATION Spec
CONSTANTS
  Families = {f1}
  Jobs = {j1, j2}
  Null = Null
  MaxFlushes = 2
  MinMerge = 1
  paranoid_checks = FALSE
  Faults = {"table"}
  MaxFailures = 1
  MaxWrites = 3
  MaxSwitches = 3
  MaxCompactions = 0
SYMMETRY Symmetry
CHECK_DEADLOCK FALSE
INVARIANT Recoverable
