SPECIFICATION MCSpec
CONSTANTS
  kBlockSize = 6
  kHeaderSize = 2
  kRecyclableHeaderSize = 3
  Lengths = {0, 1, 5}
  MaxRecords = 3
  k1 = k1
  k2 = k2
  Reader = reader
  SkipListKeys = 3
  kMaxHeight = 2
  TombstoneKeys = 4
  MaxSeq = 3
  MaxTombstones = 3
  MaxKey = 2
  Types = {"PUT", "DELETE", "MERGE", "RANGE"}
  MaxWrites = 3
  Options <- MCOptions
  MaxInserts = 1
SYMMETRY Symmetry
CHECK_DEADLOCK FALSE
INVARIANTS
  ReplayExact TailInOrder LevelsSorted SearchExact
  ReadsPreserved ConflictsSeen ShouldDeleteExact SnapshotShown
