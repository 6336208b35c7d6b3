# Verification of RocksDB: writes, flushes, locks and stored data

This directory holds TLA+ specifications of the RocksDB sources in
`src/rocksdb` (release 5.8), TLC configurations that check them on small
instances, and TLAPS proofs of the main invariants for all instances. Paths in
this file are relative to `src/rocksdb`. `PROJECT.json` lists components, runs,
mutants, the source lines behind every definition, findings, hazards and
theorems.

## 1. The system

RocksDB is a library. Client threads call it, background threads flush and
compact, and all share one `DBImpl`. The parts, by where their state lives:

| Part | State | Threads that change it |
|---|---|---|
| Write queue (`db/write_thread.*`) | `newest_writer_`, the links, `state` and group of each `Writer` on its caller's stack; `newest_memtable_writer_` | every writer, lock-free |
| `WriteImpl`, `PipelinedWriteImpl` (`db/db_impl_write.cc`) | sequence numbers, the WAL, memtables, `bg_error_` | group leaders, parallel followers |
| Flush scheduler (`db/flush_scheduler.*`) | lock-free list of column families | memtable inserters push, leaders pop |
| WAL files (`db/db_impl*.cc`) | `logs_`, `getting_synced`, `log_dir_synced_`, `alive_log_files_` | leaders, `SyncWAL`, flush, `FindObsoleteFiles` |
| Memtables (`db/memtable*.cc`, `memtable/`) | active and immutable memtables, skip lists | inserters, flush |
| Flush, compaction, background scheduling (`db/*job.cc`, `db/compaction*`, `db/db_impl_compaction_flush.cc`) | queues, counters, picked files | background threads |
| Versions (`db/version_*.cc`) | MANIFEST, `manifest_writers_`, the list of versions | flush, compaction, column family changes |
| Column families (`db/column_family.*`) | references, SuperVersions, thread-local caches | all |
| Stalls (`db/write_controller.*`) | tokens, delayed rate | background threads set, leaders wait |
| Recovery (`db/db_impl_open.cc`, `db/log_reader.cc`) | replays the WAL | the opening thread |
| Reads (`db/db_iter.cc`, `table/`) | iterators, files, block caches (`cache/`) | readers |
| Utilities (`utilities/`, `util/`) | transactions' locks, backups, rate limiter, thread pool | their own callers |

They interact on the write path as follows. A writer joins the queue. The
oldest one becomes leader. It preprocesses (switches memtables that the flush
scheduler names, opens new logs, waits for stalls), takes a group of writers,
writes one WAL record for all, syncs if it was asked to, and inserts the
batches or has the members insert theirs in parallel. Whoever finishes last
publishes `LastSequence`, hands the lead over and wakes the group. Meanwhile
`SyncWAL` and flushes sync and drop the same log files.

What was written is then found in skip lists, tables and logs. Flushes and
compactions pass the records through `CompactionIterator`, which asks
`RangeDelAggregator` for range deletions and `MergeHelper` for merge operands.
`DBIter` shows a snapshot of all records. The log writer cuts batches into
physical records, and recovery and `TransactionLogIterator` put them together.

## 2. Modules

| Module | Models | Abstracted |
|---|---|---|
| `WriteThread` | the queue, pointer by pointer: `LinkOne`, group formation, parallel launch, exit and handover, unbatched writers | options and sizes that end a group (any end is allowed), batches |
| `WriteQueue` | what the queue promises: a sequence of writers that groups leave from the front | |
| `AwaitState` | `AwaitState`, `BlockingAwaitState`, `SetState`, `CompleteParallelMemTableWriter`'s use of `StateMutex` | spinning, yield credit |
| `AtomicState` | what those promise: one word, set and awaited atomically | |
| `DBWrite` | one call of `WriteImpl` per writer, over the abstract queue, with its error paths | keys are sequence numbers, batches are counts |
| `DBRecovery` | `DBWrite` with crashes and `RecoverLogFiles` | torn records, recovery modes |
| `PipelinedWrite` | `PipelinedWriteImpl` and both lists of `WriteThread`, with the db mutex where it blocks | as `DBWrite`; files and crashes |
| `LogSync` | `logs_` and everyone who changes it | records are counted; the memtables behind a flush are a choice |
| `FlushScheduler` | the list, the memtable's flush state, `ScheduleFlushes`, manual flush, drop | arena sizes |
| `MemTableFlush` | memtable lists, the flush queue, flush jobs, compactions as far as they commit and delete files, the MANIFEST, `HandleWALFull`, obsolete files | a write is its position; a table is the set of its writes |
| `SuperVersion` | a family's SuperVersions, their thread-local cache, `Scrape` and `OnThreadExit` | memtables and versions inside a SuperVersion |
| `TransactionLocks` | `TransactionLockMgr` and the life of pessimistic transactions | one stripe, one column family; time is a small counter |
| `InternalKeys` | records, their order, and what a read at a snapshot finds | values are lists of the writes they are made from |
| `CompactionIterator` | `CompactionIterator`, `MergeHelper::MergeUntil`, the compaction filter | one record is one write; files are the sets of what they hold |
| `RangeDelAggregator` | the collapsed map of range tombstones and the positions in it | keys are numbers |
| `InlineSkipList` | concurrent and sequential inserts, searches without locks | keys are numbers; sequentially consistent atomics |
| `DBIter` | the iterator of the user, all its calls | the merging iterator is the sorted sequence of all records |
| `LogFormat` | `log::Writer`, `log::Reader`, recovery's loop, `TransactionLogIteratorImpl` | blocks of 6 bytes; a byte says which record it is of and where |
| `WriteRequests`, `TransactionConfigs`, `CompactionJobs`, `LogJobs` | kinds of requests, transactions, compactions and logs | |
| `DBWriteInvariants`, `MemTableFlushInvariants` | inductive invariants of `DBWrite` and `MemTableFlush` | |
| `DBWriteProofs`, `DBWriteGroupProofs`, `DBWriteAckProofs` | theorems about `DBWrite` | |
| `FlushSchedulerProofs`, `AwaitStateProofs` | theorems about these modules | |
| `MemTableFlushLemmas`, `MemTableFlushListProofs`, `MemTableFlushProofs` | the theorem about the files of `MemTableFlush`: lemmas; the actions that change the lists of memtables; the others and the theorem | |
| `MC*` | constants and symmetry for TLC | |

Layers: `AwaitState` implements `AtomicState`, which is what `WriteThread`
assumes of `Writer::state`. `WriteThread` implements `WriteQueue`, and so does
`DBWrite`, whose queue is that abstract one. `DBRecovery` extends `DBWrite`.
`LogSync` and `FlushScheduler` look at two data structures of the same leader in
detail and keep of `WriteImpl` what touches them. `MemTableFlush` starts where
`FlushScheduler` ends: with a memtable that is switched. `LogFormat` is below
`DBRecovery`: it justifies that a crash leaves a prefix of the records. In
`CompactionIterator` and `DBIter` a range deletion is what `RangeDelAggregator`
is shown to find; `DBIter` and `CompactionIterator` share `InternalKeys`, whose
`Read` is the reference for both.

### State and actions

* **WriteThread.** A `Writer` is named by its thread, because the next call of
  the thread puts a new `Writer` at the same address; `LinkOne` resets the
  fields as the constructor does. One action is one access to shared memory. A
  failed compare-and-swap reloads and tries again. `cur` is the pointer in the
  loop that launches or completes a group.
* **AwaitState.** `opc` and `wpc` are the control points of the owner and of the
  waker. The life of a `Writer` is a script, for example LEADER then COMPLETED;
  the next state is set after the owner saw the last. Everything done with
  `StateMutex` held is one action. `WakeUp` is a spurious wakeup.
* **DBWrite.** `phase` is the leader's control point, `pc` a member's. `mem`
  holds pairs of writer and sequence number, `wal` records with the first number
  and the batches. The sequence number of a batch is set in the first loop over
  the group, where it is determined; the code computes the same number in a
  second loop or in `InsertInto`. Failures are chosen by `Faults`.
* **DBRecovery.** A crash keeps the synced records and any number of the
  others, drops the memtable, ends the calls under way and replays. The batches
  of a record are renumbered from its header. A key that failed to be inserted
  because its column family is missing is replayed like any other.
* **PipelinedWrite.** As in `WriteThread` a `Writer` is named by its thread and
  one action is one access, except that a push onto a list is atomic. `group`
  holds the `WriteGroup` on a leader's stack; its field `end` is the local
  `last_writer` of `ExitAsBatchGroupLeader`. `mutex` is the db mutex where
  somebody waits with it. `MaxCalls` is 2 where addresses are used again.
* **LogSync.** `Flusher` is the thread of all background jobs, each of which
  ends with `FindObsoleteFiles`. One action is what a thread does between two
  releases of the db mutex, or one append or sync. `waiting` is the set of
  threads in `log_sync_cv_.Wait`. `bg_error_` is left out: writes go on after a
  failed sync, which allows more behaviours than the code.
* **FlushScheduler.** The list is a sequence, a node pointer a suffix of it.
  `lpc` is the leader's control point, `ipc` an inserter's. `Clear`, which
  recovery calls with no other thread, is left out.
* **MemTableFlush.** One action is what a thread does between two points where
  it gives up the db mutex; `NotifyOnFlushBegin`, `SyncClosedLogs`, building a
  table and writing the MANIFEST are such points. `job` is what a background
  thread has on its stack. `manifest` is what a restart would read. A list of
  immutable memtables is a function from their ids, the oldest being the smallest;
  `alive_log_files` maps the numbers of the logs to `getting_flushed`. Which family
  `HandleWriteBufferFull` and `ScheduleFlushes` switch is a free choice. The
  writer keeps the number of the oldest log that `HandleWALFull` has read, and its
  later switches go by it. A compaction takes all tables of a family.
* **SuperVersion.** A SuperVersion is its number. Swaps and compare-and-swaps of
  a thread's entry are actions; what happens with the db mutex or the mutex of
  the thread-local storage held is split where another thread can see it.
* **TransactionLocks.** One action is one round with `stripe_mutex` held: an
  attempt and the decision to give up or to wait. `config` says what each
  transaction is like: expiration, time limit, deadlock detection, exclusive or
  shared requests, a write batch that locks its keys in order, two phases.
  `waits` is `wait_txn_map_`; the search is the code's, with its depth.
* **CompactionIterator.** One action is one round of the loop of
  `NextFromInput`, or one call of `Next`. `job` is what is compacted: the input,
  the deeper records, snapshots, tombstones, the filter's decisions. `it` holds
  the members `has_current_user_key_`, `current_user_key_snapshot_`,
  `has_outputted_key_`, `clear_and_output_next_key_` and `at_next_`. A
  compaction filter that removes, changes or skips is allowed to change what is
  read; `effective` and `skipped` keep what it asked for. `Read` of the output
  with the deeper records is compared with `Read` of the input with them.
* **RangeDelAggregator.** `map` is the ordered multimap of one snapshot stripe,
  `iter` the position kept in it. Tombstones come in any order, between calls of
  `ShouldDelete` that go forward, backward or search.
* **InlineSkipList.** One action reads or swaps one pointer. Two threads insert
  concurrently or, one at a time, with a kept `Splice` or a hint that may be
  stale; a third searches, with `last_bigger` or `last_not_after` kept on the way
  down. `linked` keeps for each level which keys were linked there, and the level
  has to show exactly these.
* **DBIter.** One action is one call; writes come in between. `db` holds
  `iter_`, `saved_key_`, `direction_`, `valid_` and the merged value. `expected`
  is the key that the snapshot has at the place the call should go to.
* **LogFormat.** The writer appends byte ranges; a crash stops it after any
  byte. `job` is the kind of log and of reader. `file` keeps what an older log
  left behind the writer's position. Whether a checksum fits is decided by
  comparing the bytes with what was written; bytes that were never one physical
  record do not pass. A round of `ReadRecord` is one action.

## 3. Runs

Components that share no state are checked side by side in one run: the module
of the run has a variable `part`, chosen by the initial predicate, and only the
variables of that part change. Each invariant is one of its part.

| Run | Part | Bounds | Shows |
|---|---|---|---|
| `db_write_live` | handshake | the five scripts that the queue and its pipelined variant produce | refinement of `AtomicState`; no wakeup lost |
| | queue | 3 threads, unbounded calls | assertions; no access to a returned call's `Writer`; refinement of `WriteQueue`; every writer is served |
| | group | 3 calls, 2 kinds of request, failing log writes and inserts | every call returns; refinement of `WriteQueue`; numbers and snapshots; what OK means for memtable and log; stop after divergence |
| | logs | 1 write thread with 3 writes, 1 `SyncWAL` and 1 background job, 2 logs; failing syncs, unsupported `SyncWAL` | assertions on `logs_`; sync writes are synced; the directory flag is true; nobody waits for ever |
| `shared_state` | scheduler | 2 families, 3 inserters, unbounded steps | no request is lost or doubled; references balance |
| | super versions | 2 threads, 3 SuperVersions, unbounded reads | references, caches, lock order |
| | transactions | 3 transactions, 2 keys, 9 configurations, 2 ticks | locks held at commit; exact lock table; no deadlock |
| | logs | 3 logs, 3 writes, 2 background jobs, failing appends and creations; no `SyncWAL`, no failing sync | `logs_` covers what is not synced; no holes |
| | steady | 3 calls, 6 kinds of request, all faults | `WritesKept`: what OK means, stop after divergence; numbering |
| | crashing | 3 calls, 4 kinds, one crash | `WritesKept`: synced writes survive; log ordered; renumbering |
| `pipelined_write` | | 3 calls, 5 kinds of request (none with a callback that allows batching, none without log), no reads for merges, failing log writes and inserts, with and without concurrent inserts | acknowledged writes, snapshots, settled memtable, lifetimes, one way to get stuck |
| `memtable_flush` | | 2 families, 2 jobs, 2 writes, 3 switches, 1 compaction, one failure of any kind but a MANIFEST sync, `paranoid_checks` | every write readable and recoverable; no needed file deleted; no flush lost |
| `stored_data` | log | 3 records of 3 lengths, 6-byte blocks, all recovery modes, one recycling; a reader that follows the log | replay is exact; following is in order without gaps |
| | skip list | 3 keys, 2 levels, 2 inserters, 1 reader that looks for the middle key or the last one | levels sorted and complete; searches miss nothing |
| | compaction | every history of 4 writes to a key (3 with a filter), up to 3 snapshots, deeper records, flushes | no read changes; no write conflict disappears |
| | tombstones | 3 tombstones over 4 keys, unbounded questions | the newest covering tombstone is found |
| | iterator | every content of 3 writes on 2 keys and 1 later insert, unbounded calls, with an upper bound and early reseeks or without | the iterator shows its snapshot |

Why the bounds are enough: three writers give a leader, a follower in the
middle of a group (with a link on either side) or at its end, and a writer
behind the group; each may be the last one to finish. In the pipelined write
they give a group in the memtable stage, one in the log stage and a caller that
waits. Two logs give one that is synced and one that is opened behind it, and
the three kinds of threads make each wait for each other one; three logs give a
flush several closed logs. Two families suffice for a list with an inner node,
and three inserters for two pushes that race while a third one is late. One
crash is followed by more calls, so that numbers given out before and after it
meet. Two families and three switches give a family with two immutable
memtables, two jobs that commit for each other, and a log that one family
needs and the other does not. Three SuperVersions give a cache that is
scraped while its owner holds a version that is older than the one installed
meanwhile. Two keys make two transactions wait for each other while a third
holds or waits for either; a cycle of three needs a third key and is not
reached. Blocks of 6 bytes with headers of 2 or 3 make records that fill a
block, leave a trailer, and span two blocks. Two inserters and a node that is there already give a lost
compare-and-swap on either level and a bracket that is stale on both sides. Four
writes and two snapshots give two records in each of two stripes; one more key
behind them shows what is carried over. Three tombstones give one that is cut by
two others. Two keys with three records and one that comes later make the iterator skip, reseek and
change direction inside of a key and between keys.

`AckedApplied` and `AckedDurable` of `DBWrite` (in `db_write_live`, and in
`WritesKept` of `shared_state` with all requests and faults) speak of groups whose
leader was not stopped before the memtable: without that they are false (finding 1).
`DivergenceStops` leaves out groups whose leader's callback failed, since
`ParanoidCheck` is skipped for them. `NoLogForgotten` holds for a system
without `SyncWAL`; finding 2 refutes it for the whole. `Recoverable` holds with
`paranoid_checks`, where a failed flush stops the database; finding 5 refutes it
without. `WritersHoldLocks` holds when transactions that expire share no lock
with ones that do not (see below). `ReadsPreserved` of `stored_data` has range
deletions and merge operands in separate jobs; finding 6 has them together.

Deadlock is not checked where calls are finitely many and the system stops when
they are over, and the runs put such parts beside others. Liveness properties
(`db_write_live`), or invariants on the states in which nobody can go on
(`OnlyMutexDeadlock`, `NoFlushLost`, `FullLogReleased`, `NoDeadlock`), show that
no call gets stuck.

Fairness: weak fairness on the steps of calls that have begun. It stands for an
operating system that runs every thread that is not blocked. No thread has to
begin a call. `AwaitState` has strong fairness on `SetState`, because the
followers that report a failure first are finitely many in the code and
unbounded in the model; a condition variable need not wake up spuriously.
`log_recovery` has weak fairness on the steps of the recovering thread, which is
alone.

### Findings

Each is a run that violates one property taken from a comment, an assertion, a
test or the documentation; `PROJECT.json` quotes the lines.

1. `db_write_ok_means_applied`: followers return OK although the WAL write
   failed, since the leader passes `w.status` and not `status`
   (`db/db_impl_write.cc:310`).
2. `log_sync_race`: `SyncWAL` drops a log from `logs_` that was written to after
   its sync (`db/db_impl.cc:727`).
3. `log_sync_directory`: a sync write that opens a new log does not sync the
   directory (`db/db_impl_write.cc:149`).
4. `pipelined_write_reuse`: between handing its group to the memtable list and
   the compare-and-swap on `newest_writer_`, a new call may sit at the address
   that it compares with; the call is dropped from the list
   (`db/write_thread.cc:567`).
5. `memtable_flush_retry`: without `paranoid_checks` a retried flush takes a
   failed memtable together with a newer one and commits a log number that
   skips the one in between (`db/flush_job.cc:142`).
6. `compaction_range_merge`: `MergeUntil` merges operands onto a value without
   asking whether a range tombstone between them has deleted it, and the deleted
   value comes back (`db/merge_helper.cc:171`).
7. `log_recovery`: under `kSkipAnyCorruptedRecords` the reader asks for the
   first record of the older log in a recycled file again and again and recovery
   does not end (`db/log_reader.cc:409`). As a round changes nothing, the
   counterexample ends in a state that stays as it is, with `Recover` taken for
   ever without effect.

The modules also state assertions and comments of the code that TLC refutes
when they are put in place of the invariants of the configuration named:

* `FollowerExitsWithOk` (`MCDBWriteOkMeansApplied.cfg` with fault `insert`):
  `assert(write_group->status.ok())`, `db/write_thread.cc:530`, fails when a
  parallel insert failed and a follower is last.
* `FailedHadNoFailedCallback` (the same, with a request that has a callback):
  the assertion in `FinalStatus`, `db/write_thread.h:206`; a writer refused by
  its callback gets another writer's insert failure.
* `StatusCheckFindsNoError` (the same, with faults `insert` and `background`):
  `assert(bg_error_.ok())`, `db/db_impl_write.cc:499`, fails when a background
  job failed meanwhile.
* `MutexBeforeLock` of `AwaitState`: a failed parallel writer locks the leader's
  `StateMutex`, which may not exist, `db/write_thread.cc:511`.
* `ClosedLogsSynced` of `LogSync` with failing syncs: `SyncClosedLogs` forgets
  all but the last sync's result, `db/db_impl_compaction_flush.cc:53`.
* `ScheduleFlushNotConcurrent` of `FlushScheduler` with `Pipelined = TRUE`:
  memtable writers of an earlier group call `ScheduleFlush` while the next
  leader is in `TakeNextColumnFamily`, which `db/flush_scheduler.h:25` excludes.
* `AckedLogged` of `PipelinedWrite` with `ValidatedRequests`: the group is logged
  only if the leader's own callback passed, `db/db_impl_write.cc:395`, and its
  members return OK all the same.
* `NotInUse` of `SuperVersion` with the fault `read`: after an error of the
  memtable lookup `GetImpl` returns without giving the SuperVersion back,
  `db/db_impl.cc:1007`.
* `FilesExist` of `MemTableFlush` with the fault `manifest_sync`: the sync of the
  MANIFEST fails after its record was appended, no version has the table that it
  names, and a full scan deletes it (`db/db_impl_compaction_flush.cc:1337`); if
  the record reaches the disk the next open fails. `db/db_io_failure_test.cc:162`
  describes the problem.
* `WritersHoldLocks` with `SharedConfigs`: a shared lock has one expiration time,
  the maximum of its holders' where 0 stands for never
  (`transaction_lock_mgr.cc:525`); when one holder expires the lock is taken from
  all, and a transaction without expiration commits without it.
* `LockTableExact` with `LimitConfigs`: shared locks are counted once when taken
  and once per holder when released, so that the count becomes too small,
  although `transaction_lock_mgr.cc:95` calls it "Count of keys that are
  currently locked in this column family."
* `StripeReleased` with `MCConfigs`: a request with a time limit that meets the
  lock limit spins for ever with `stripe_mutex` locked when its time is over,
  `transaction_lock_mgr.cc:376`.

Behaviour of the transactions that the model shows and nothing forbids: after
one lock of an expired transaction is stolen its other locks stay until it is
destroyed (`transaction_impl.cc:580`); an upgrade of a shared lock that another
transaction shares is reported as a deadlock when deadlocks are detected;
entries of `wait_txn_map_` that are not yet removed give false deadlocks; a
waiter without time limit gives up when the expiration it waited for is over.

## 4. Proofs

The proofs hold for any number of writers, families, inserters and background
threads, any requests, and the faults named. They assume what the modules'
`ASSUME`s say of the constants (flags are Boolean, requests are records, `NoCF`
is no family, there is a family) and what a theorem itself states.

| Theorem | States | Assumes |
|---|---|---|
| `NumbersDistinct` | `Spec => []SequencesUnique` of `DBWrite` | |
| `SnapshotsStable` | `Spec => SnapshotStable` | |
| `OkApplied`, `OkDurable` | `Spec => []AckedApplied`, `Spec => []AckedDurable` | |
| `DivergenceSeen` | `Spec => []DivergenceStops` | `ParanoidChecks` |
| `TypesAll` | `Spec => []TypeOK` | |
| `UsesWriteQueue` | `Spec => ImplementsWriteQueue` | |
| `NoFlushRequestLost` | `Spec => []NoLostFlushRequest` of `FlushScheduler` | no pipelining, `ParanoidChecks` |
| `ListExact` | `Spec => []SchedulerListExact` | no pipelining |
| `WordIsAtomic` | `Spec => ImplementsAtomicState` of `AwaitState` | `Legal` |
| `HandshakeSafe` | `Spec => [](ReturnsGoal /\ MutexBeforeNotify)` | `Legal` |
| `FilesKept` | `Spec => []FilesExist` of `MemTableFlush` | `paranoid_checks`, no fault `manifest_sync` |

The assumptions are not for the provers' sake: where one is dropped TLC finds a
counterexample, or the code does not promise the property (sections 3 and below).

**DBWriteProofs** proves `SequencesUnique` and `SnapshotStable`. Neither is
inductive. That a new key has a fresh number above `LastSequence` depends on
where the group's numbers come from, who may still insert, and that publication
happens after the last insert. The invariant `IInv` says so:

* `Types`: the part of the state that numbers are computed from keeps its
  types;
* `QueueDistinct`: no writer is linked twice, so that group positions and
  writers correspond;
* `LeaderAt`: where the leader's loops are, and that `nextSeq` is above
  `LastSequence` while a group is under way;
* `NumbersAssigned`: numbers of the group's batches lie above `LastSequence`
  and below `nextSeq`, in disjoint ranges, one after the other;
* `KeysPlaced`: a key above `LastSequence` is below `nextSeq`, and until all are
  inserted it lies in the range of a member of the current group;
* `RunningCounts`: `running` is the number of members that have not counted
  themselves out, so that the last one knows that all others have inserted;
* `SequencesUnique`.

Each action that disturbs it has its own lemma; the others leave the variables
it speaks of alone (`QuietSteps`). `SnapshotStable` follows from `KeysPlaced` and
`NumbersAssigned` for the two inserting actions.

**DBWriteGroupProofs and DBWriteAckProofs** prove what an OK means. A call gets
its result from the writer that lets its group go, which knows of the others by
`WriteGroup::status` and `Writer::status` alone. `GInv` says what these tell:

* `QueueAt` and `GroupLed`: where the members are, that writers outside of a
  group have no status yet, and that a member may follow its leader;
* `Inserted` and `Published`: an OK status at a given point means that the batch
  is in the memtable, and later that it is visible;
* `Logged` and `LogWriters`: every member that wants it is in the log, synced if
  it asked for that, and nobody else is;
* `FailureStops`: a failure that the exiter knows of has set `bg_error_`;
* `ReturnedAt` and the types of the rest of the state (`MoreTypes`).

`GInv` is inductive relative to `IInv` and `OneLeft`, that the last member which
`running` counts is the only one; this is where counting has to be exact.
`AllKept` says for every returned call what it was promised; it is established
by `ExitAsBatchGroup` from `GInv` and no later step takes it away (`KeptStays`).
The three properties follow from `IInv`, `GInv` and `AllKept`; so do `TypeOK`,
with its claim on every record of the log, and the refinement of `WriteQueue`.

**FlushSchedulerProofs** proves `NoLostFlushRequest` and `SchedulerListExact`.
The strengthening `Exclusion` says that nobody pushes while the leader is between
the load and the store of `head_`, so the store removes the head only. With
pipelining that exclusion does not hold; with `paranoid_checks` off, a failed
`SwitchMemtable` loses the request. For the list, `SLInv` adds that families come
into it only while inserters run, with their memtables marked and one inserter
for each, and that inserters run only when the leader has emptied it (`ListInv`);
`RefsAt` counts the references of a family by what holds one.

**AwaitStateProofs** proves the refinement of `AtomicState`, in which a state is
set and awaited in one step. `AInv` has two parts: `Places`, where owner and waker
can be and that the owner is at most one state behind, and `Handshake`, that
nobody sets a state before the last one was seen, that `STATE_LOCKED_WAITING`
stands for the state that the owner has read, and that the waker's notification
finds the owner waiting. `Legal` says which states follow each other in the life
of a `Writer`.

**MemTableFlushLemmas, MemTableFlushListProofs and MemTableFlushProofs** prove
`FilesExist`: whatever flushes, compactions, failures, memtable switches and
purges overlap, no table that a version in use or the MANIFEST names is deleted,
and no log that is alive. Tables are deleted without the mutex, from a list made
before. What protects a table that is written and not yet installed is only that
its number is not below the pending outputs, and the output of a flush that is
done but waits to be committed by another job is no pending output any more. So
the invariant `FInv` (`MemTableFlushInvariants`) has to say why the committing job's
own pending output is the smaller number:

* `JobAt`, `QueueInv`: busy jobs have different files, each its own pending
  output, and the MANIFEST is written by the first of the queue;
* `CommitInv`: one job commits for a family. Its batch is the oldest memtables,
  all flushed, and its file is not above the file of any memtable. When nobody
  commits, the oldest memtable is not flushed;
* `ImmInv`, `OwnInv`, `OrderInv`: a memtable is flushed by one job; while there
  is no error memtables are taken oldest first, so that older ones have smaller
  files;
* `TableInv`, `PurgeInv`: what is `Needed` exists and is in no purge's list, from
  the time the list is made until it is used;
* `ManifestInv`: the MANIFEST is the current versions plus the edits written and
  not yet applied;
* `LogInv`: no log number in use is above the current log, and logs to delete are
  below those alive.

After an error memtables go back into the list out of order. A newer one may then
be flushed before an older one; it is not `Sound`, is never committed, and its
file may be deleted. Without `paranoid_checks` flushes go on after an error and
the order is lost; with `manifest_sync` failing the MANIFEST names a table that no
version has (section 3). TLC has checked `FInv` on the instance of
`memtable_flush`.

So TLAPS proves the safety of `DBWrite` without crashes (what `db_write_live` and,
for the part `steady`, `shared_state` check on instances), the refinement of
`WriteQueue` by `DBWrite` and of `AtomicState` by `AwaitState`, the list and the
requests of `FlushScheduler`, and the files of `MemTableFlush`.

Only model-checked, and why: liveness (fairness is out of TLAPS's reach); the
refinement of `WriteQueue` by `WriteThread`, whose invariant would have to follow
linked lists, an induction over data; `Recoverable`, `Readable`, `NoFlushLost` and
`FullLogReleased`, which speak of contents and of counters of the scheduler that
`FInv` leaves out; crashes and recovery; everything about `PipelinedWrite`,
`LogSync`, `SuperVersion` and `TransactionLocks`; and `CompactionIterator`,
`RangeDelAggregator`, `InlineSkipList`, `DBIter` and `LogFormat`, whose references
are recursive definitions.

## 5. Not modelled, and the plan

`PROJECT.json` names every component with the reason it is left out. Of the
modelled components these parts are missing:

* `WriteImpl`: throttling of low priority writes. `PipelinedWrite`: crashes and
  syncs. `LogFormat`: records damaged elsewhere than at the end, read errors,
  `initial_offset_`, an iterator that goes on to the next log or to the archive.
* `CompactionIterator`: corrupted keys, `allow_ingest_behind`, several files and
  the clipping of tombstones to them, more than two user keys.
* `RangeDelAggregator`: the uncollapsed mode, which is a scan of all tombstones.
* `InlineSkipList`: `EstimateCount`, arenas, and the memory order of the
  accesses, which are taken as sequentially consistent.
* `DBIter`: prefixes, lower layers (`MergingIterator`, block and level
  iterators), `ForwardIterator`, corrupted keys, `max_skippable_internal_keys`,
  operand pinning, merges that fail (they only set `status_`).
* `MemTableFlush`: `DisableFileDeletions`, logs of prepared transactions, a new
  MANIFEST and CURRENT, log recycling, dropped families, trivial moves,
  listeners. With `paranoid_checks` off a failed flush is not scheduled again by
  itself, and a log that `HandleWALFull` marked may stay marked.
* `SuperVersion`: creation and drop of families, write stall conditions.
* `TransactionLocks`: save points and `UndoGetForUpdate`, several column
  families and the caches of `GetLockMap`, names, recovery of prepared
  transactions, failing mutexes. There is one stripe because `GetStripe` returns
  1 for every key.

Not modelled as a whole: `WriteController` and the decision to stall, whose
liveness rests on the compaction picker's heuristics over file sizes; `LRUCache`,
each operation of which is atomic under its shard's mutex; `RateLimiter`, an
election like that of the write queue followed by arithmetic on time; the growth
of the `ThreadPool`; subcompactions and the cutting of output files.

Open for proofs: `Readable` and `Recoverable` of `MemTableFlush` on top of `FInv`,
`LogSync`'s `SyncingKeepsLogs` and `CurrentLogKept`, and `SuperVersion`'s
`RefsMatch`.

Out of reach of a state machine of this kind: table formats, encodings,
environments, option parsing, statistics, bindings and tools.

## 6. Running

    tlc -config MCShared.cfg MCShared
    tlapm DBWriteProofs.tla

The longest runs take three minutes. The proofs take from half a minute
(`AwaitStateProofs`) to ten minutes (`MemTableFlushProofs`) a module.
