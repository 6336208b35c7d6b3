SPECIFICATION RecoverySpec
CONSTANTS
  kBlockSize = 6
  kHeaderSize = 2
  kRecyclableHeaderSize = 3
  Lengths = {0, 1, 3, 5}
  MaxRecords = 2
  Jobs <- SkipCorruptedJobs
CHECK_DEADLOCK FALSE
PROPERTY RecoveryEnds
