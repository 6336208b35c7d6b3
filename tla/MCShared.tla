------------------------------ MODULE MCShared ------------------------------
(* The safety of six parts of the database for TLC. A behaviour is one of  *)
(* one part: "scheduler" FlushScheduler, "super versions" SuperVersion,    *)
(* "transactions" TransactionLocks, "logs" LogSync without SyncWAL,        *)
(* "steady" DBWrite, where every kind of request meets every failure, and  *)
(* "crashing" DBRecovery, where the machine crashes once.                  *)
EXTENDS FlushScheduler, TransactionConfigs, WriteRequests, TLC

CONSTANTS
  c1, c2, i1, i2, i3,
  r1, r2, InUse, Obsolete, Nobody, MaxVersion,
  MaxTime,
  Writer, Flusher, MaxLog, MaxWrites, MaxCalls

MCCF == {c1, c2}
MCInserters == {i1, i2, i3}

VARIABLES
  part,
  \* SuperVersion
  super_version, super_version_number, sv_refs, freed, local_sv, registered,
  tls_mutex, thread, installer,
  \* TransactionLocks
  config, now, keys, lock_cnt, waits, notify, txn,
  \* LogSync
  logs, getting_synced, logfile_number, log_dir_synced, log_empty, min_log,
  waiting, log_pc, up_to, todo, need_dir, ok, written, log_synced, entries,
  acked, want_sync, calls,
  \* DBWrite and DBRecovery
  pc, opt, status, callbackOk, seq, ledBy, ret, queue, size, running,
  groupStatus, phase, idx, leaderStatus, nextSeq, parallel, LastSequence, mem,
  wal, synced, dbError, crashes

SV == INSTANCE SuperVersion WITH Threads <- {r1, r2}, Faults <- {}, refs <- sv_refs

Txn == INSTANCE TransactionLocks WITH
  Txns <- MCTxns, Keys <- MCKeys, Configs <- MCConfigs

Log == INSTANCE LogSync WITH
  Syncers <- {}, Faults <- {"create", "append"}, pc <- log_pc, synced <- log_synced

\* The writers are called t1, t2, t3 as well.
Steady == INSTANCE DBWrite WITH
  Writers <- MCTxns, Requests <- AllRequests, Concurrent <- TRUE, bgError <- dbError,
  Faults <- {"preprocess", "wal", "sync", "insert", "background"}

DB == INSTANCE DBRecovery WITH
  Writers <- MCTxns, Requests <- RecoveryRequests, Concurrent <- TRUE,
  bgError <- dbError, Faults <- {"wal", "sync", "insert"}, MaxCrashes <- 1

svVars == <<super_version, super_version_number, sv_refs, freed, local_sv,
            registered, tls_mutex, thread, installer>>
txnVars == <<config, now, keys, lock_cnt, waits, notify, txn>>
logVars == <<logs, getting_synced, logfile_number, log_dir_synced, log_empty,
             min_log, waiting, log_pc, up_to, todo, need_dir, ok, written,
             log_synced, entries, acked, want_sync, calls>>
dbVars == <<pc, opt, status, callbackOk, seq, ledBy, ret, queue, size, running,
            groupStatus, phase, idx, leaderStatus, nextSeq, parallel,
            LastSequence, mem, wal, synced, dbError>>
MCVars == <<part, vars, svVars, txnVars, logVars, dbVars, crashes>>

Symmetry == Permutations(MCTxns)

MCInit ==
  /\ part \in {"scheduler", "super versions", "transactions", "logs", "steady",
              "crashing"}
  /\ Init /\ SV!Init /\ Txn!Init /\ Log!Init /\ DB!RecoveryInit
  /\ part # "transactions" => config = AllBatches

MCNext ==
  \/ /\ part = "scheduler" /\ Next
     /\ UNCHANGED <<part, svVars, txnVars, logVars, dbVars, crashes>>
  \/ /\ part = "super versions" /\ SV!Next
     /\ UNCHANGED <<part, vars, txnVars, logVars, dbVars, crashes>>
  \/ /\ part = "transactions" /\ Txn!Next
     /\ UNCHANGED <<part, vars, svVars, logVars, dbVars, crashes>>
  \/ /\ part = "logs" /\ Log!Next
     /\ UNCHANGED <<part, vars, svVars, txnVars, dbVars, crashes>>
  \/ /\ part = "steady" /\ Steady!Next
     /\ UNCHANGED <<part, vars, svVars, txnVars, logVars, crashes>>
  \/ /\ part = "crashing" /\ DB!RecoveryNext
     /\ UNCHANGED <<part, vars, svVars, txnVars, logVars>>

MCSpec == MCInit /\ [][MCNext]_MCVars

-----------------------------------------------------------------------------
\* The count of a SuperVersion is the number of its holders, and it is deleted
\* only without any (column_family.cc, SuperVersion::Unref and its callers).
RefsMatch == part = "super versions" => SV!RefsMatch

\* Between two installations no cache of a thread keeps an old SuperVersion
\* (column_family.cc, ReturnThreadLocalSuperVersion,
\* ResetThreadLocalSuperVersions).
CacheCurrent == part = "super versions" => SV!CacheCurrent

\* The handler of an exiting thread never has the last reference, for which it
\* would lock the db mutex inside the mutex of StaticMeta (column_family.cc,
\* SuperVersionUnrefHandle; thread_local.cc, OnThreadExit).
HandlerNeverLast == part = "super versions" => SV!HandlerNeverLast

\* A transaction that writes, is prepared or never expires has all the locks it
\* got (transaction_impl.cc, Commit, Prepare; transaction_lock_mgr.cc,
\* IsLockExpired), in configurations where one that expires shares no lock with
\* one that does not.
WritersHoldLocks == part = "transactions" => Txn!WritersHoldLocks

\* No lock is left behind, and lock_cnt counts the locked keys
\* (transaction_lock_mgr.cc, AcquireLocked, UnLockKey).
LockTableExact == part = "transactions" => Txn!LockTableExact

\* No transactions wait for each other for ever if they detect deadlocks or lock
\* in the order of their keys, and nobody sleeps on a free key
\* (transaction_lock_mgr.cc, AcquireWithTimeout, IncrementWaiters, UnLock).
NoDeadlock == part = "transactions" => Txn!NoDeadlock

\* Without SyncWAL a log with records that are neither synced nor flushed is in
\* logs_, where the next sync finds it (db_impl.h, logs_; db_impl.cc,
\* MarkLogsSynced); so when a sync write has returned OK a crash leaves all that
\* was written before it (db_impl_write.cc, WriteToWAL;
\* db_impl_compaction_flush.cc, SyncClosedLogs).
NoLogForgotten == part = "logs" => Log!LogsCoverUnsynced /\ Log!NoHoleBeforeAcked

\* A call that returned OK has its keys in the memtable and its batch in the
\* log, as it asked for, whoever led its group, if that leader was not stopped
\* before the memtable; when the log has what the memtable lacks, bg_error_
\* stops the writes (db_impl_write.cc, WriteImpl, WriteToWAL, ParanoidCheck,
\* MemTableInsertStatusCheck; write_thread.cc, EnterAsBatchGroupLeader). A sync
\* write that returned OK is in the memtable after a crash and a restart
\* (db_impl_open.cc, RecoverLogFiles).
WritesKept ==
  /\ part = "steady" =>
       Steady!AckedApplied /\ Steady!AckedDurable /\ Steady!DivergenceStops
  /\ part = "crashing" => DB!SyncedSurvives

\* The numbers of the records of the log do not overlap when they are replayed,
\* also after a restart (db_impl_open.cc, RecoverLogFiles); a replay gives no
\* batch a larger number than it had (db_impl_write.cc, WriteToWAL;
\* write_batch.cc, InsertInto); and no two keys of the memtable have the same
\* number, before and after a crash.
RecoveredNumbers ==
  /\ part \in {"steady", "crashing"} => DB!SequencesUnique
  /\ part = "crashing" => DB!LogOrdered /\ DB!ReplayNotAhead
=============================================================================
