------------------------------- MODULE MCData -------------------------------
(* The sequential and lock-free data structures for TLC. A behaviour is    *)
(* one of one part: "log" LogFormat, the records of the logs; "skip list"  *)
(* InlineSkipList, the memtable; "compaction" CompactionIterator, what     *)
(* flushes and compactions keep; "tombstones" RangeDelAggregator, which it *)
(* asks for range deletions; and "iterator" DBIter, which reads all that.  *)
EXTENDS DBIter, CompactionJobs, LogJobs

CONSTANTS
  kBlockSize, kHeaderSize, kRecyclableHeaderSize, Lengths, MaxRecords,
  k1, k2, Reader, SkipListKeys, kMaxHeight,
  TombstoneKeys, MaxSeq, MaxTombstones

\* Reseeks after every other record with an upper bound, or never and without
MCOptions == {<<1, 2>>, <<4, 3>>}

VARIABLES
  part,
  \* LogFormat
  log_job, file, chunks, log_number, writer, records, last_sequence, reader, out, tail,
  \* InlineSkipList
  next, max_height, kept, ins, rd, linked,
  \* CompactionIterator
  job, pos, pc, it, merge_out, output, status, effective, skipped,
  \* RangeDelAggregator
  map, iter, mode, asked, found, added, sound

Log == INSTANCE LogFormat WITH Jobs <- LogJobs, job <- log_job

SkipList == INSTANCE InlineSkipList WITH
  MaxKey <- SkipListKeys, SearchKeys <- {2}, Threads <- {k1, k2}, Readers <- {Reader}

Compaction == INSTANCE CompactionIterator WITH IsJob <- AnyJob

Tombs == INSTANCE RangeDelAggregator WITH MaxKey <- TombstoneKeys

logVars == <<log_job, file, chunks, log_number, writer, records, last_sequence,
             reader, out, tail>>
skipListVars == <<next, max_height, kept, ins, rd, linked>>
compactionVars == <<job, pos, pc, it, merge_out, output, status, effective, skipped>>
tombVars == <<map, iter, mode, asked, found, added, sound>>
MCVars == <<part, vars, logVars, skipListVars, compactionVars, tombVars>>

Symmetry == Permutations({k1, k2})

\* The variables of the other parts stay at 0.
MCInit ==
  /\ part \in {"log", "skip list", "compaction", "tombstones", "iterator"}
  /\ IF part = "iterator" THEN Init
     ELSE /\ data = 0 /\ tombstones = 0 /\ sequence = 0 /\ max_skip = 0
          /\ upper_bound = 0 /\ db = 0 /\ expected = 0
  /\ IF part = "log" THEN Log!Init
     ELSE /\ log_job = 0 /\ file = 0 /\ chunks = 0 /\ log_number = 0 /\ writer = 0
          /\ records = 0 /\ last_sequence = 0 /\ reader = 0 /\ out = 0 /\ tail = 0
  /\ IF part = "skip list" THEN SkipList!Init
     ELSE next = 0 /\ max_height = 0 /\ kept = 0 /\ ins = 0 /\ rd = 0 /\ linked = 0
  /\ IF part = "compaction" THEN Compaction!Init
     ELSE /\ job = 0 /\ pos = 0 /\ pc = 0 /\ it = 0 /\ merge_out = 0
          /\ output = 0 /\ status = 0 /\ effective = 0 /\ skipped = 0
  /\ IF part = "tombstones" THEN Tombs!Init
     ELSE /\ map = 0 /\ iter = 0 /\ mode = 0 /\ asked = 0 /\ found = 0 /\ added = 0
          /\ sound = 0

MCNext ==
  \/ /\ part = "iterator" /\ Next
     /\ UNCHANGED <<part, logVars, skipListVars, compactionVars, tombVars>>
  \/ /\ part = "log" /\ Log!Next
     /\ UNCHANGED <<part, vars, skipListVars, compactionVars, tombVars>>
  \/ /\ part = "skip list" /\ SkipList!Next
     /\ UNCHANGED <<part, vars, logVars, compactionVars, tombVars>>
  \/ /\ part = "compaction" /\ Compaction!Next
     /\ UNCHANGED <<part, vars, logVars, skipListVars, tombVars>>
  \/ /\ part = "tombstones" /\ Tombs!Next
     /\ UNCHANGED <<part, vars, logVars, skipListVars, compactionVars>>

MCSpec == MCInit /\ [][MCNext]_MCVars

-----------------------------------------------------------------------------
\* Recovery replays exactly the records that were written whole, from a log that
\* ends anywhere inside of a record or in what an older log left in the file
\* (log_writer.cc, AddRecord; log_reader.cc, ReadRecord).
ReplayExact == part = "log" => Log!ReplayExact

\* A TransactionLogIterator hands out every record once and in order while the
\* log is being written (transaction_log_impl.cc, NextImpl,
\* UpdateCurrentWriteBatch; log_reader.cc, UnmarkEOF).
TailInOrder == part = "log" => Log!TailInOrder

\* Every level of the memtable is sorted and holds exactly the nodes linked in it,
\* however inserts come in between each other (inlineskiplist.h, Insert).
LevelsSorted == part = "skip list" => SkipList!LevelsSorted

\* A search without a lock misses no key that was there when it began
\* (inlineskiplist.h, FindGreaterOrEqual, FindLessThan, FindLast).
SearchExact == part = "skip list" => SkipList!SearchExact

\* A compaction changes no read at a snapshot or at the tip
\* (compaction_iterator.cc, NextFromInput; merge_helper.cc, MergeUntil), without
\* operands that are newer than a range deletion that is newer than a value.
ReadsPreserved == part = "compaction" => Compaction!ReadsPreserved

\* A compaction leaves a record for every write conflict that a transaction may
\* have to find (compaction_iterator.cc, NextFromInput, SingleDelete).
ConflictsSeen == part = "compaction" => Compaction!ConflictsSeen

\* ShouldDelete finds the newest tombstone over a key, however the tombstones
\* were collapsed and wherever it looked before (range_del_aggregator.cc,
\* AddTombstone, ShouldDelete).
ShouldDeleteExact == part = "tombstones" => Tombs!ShouldDeleteExact

\* After any calls an iterator is at the key that its snapshot has there, with
\* the value of the snapshot, whatever is written meanwhile (db_iter.cc,
\* FindNextUserEntryInternal, PrevInternal, ReverseToForward, ReverseToBackward).
SnapshotShown == part = "iterator" => IteratorExact
=============================================================================
