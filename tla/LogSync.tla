------------------------------ MODULE LogSync -------------------------------
(***************************************************************************)
(* The write-ahead log files that are not synced yet, DBImpl::logs_: the   *)
(* write thread appends to the last one, switches to a new one and syncs   *)
(* for sync writes; SyncWAL and the flush (SyncClosedLogs) sync them from  *)
(* other threads; synced and obsolete ones are dropped. The syncs run      *)
(* without the db mutex, so getting_synced keeps the threads apart.        *)
(*                                                                         *)
(* One action is what a thread does while it holds the mutex, or one       *)
(* append or sync of a file. Log files are numbered from 1.                *)
(***************************************************************************)
EXTENDS Naturals, Sequences, FiniteSets, SequencesExt

CONSTANTS
  Writer,      \* the write thread: the leader of the current write group; it,
               \* the Flusher and the Syncers are different threads
  Syncers,     \* threads that call SyncWAL
  Flusher,     \* a background thread that flushes
  Faults,      \* what may fail: "create", "append", "sync", "mmap" (a SyncWAL
               \* that the log's file does not support)
  MaxLog,      \* bound: log files, at least 1
  MaxWrites,   \* bound: writes
  MaxCalls     \* bound: calls of each other thread

Threads == {Writer, Flusher} \cup Syncers
Logs == 1 .. MaxLog

VARIABLES
  logs,             \* logs_, oldest first
  getting_synced,   \* LogWriterNumber::getting_synced
  logfile_number,   \* logfile_number_
  log_dir_synced,   \* log_dir_synced_
  log_empty,        \* log_empty_
  min_log,          \* the logs below are obsolete: what they hold is flushed
  waiting,          \* threads that wait for log_sync_cv_
  \* each thread's call
  pc,
  up_to,            \* the last log that the call cares about
  todo,             \* logs_to_sync
  need_dir,         \* need_log_dir_sync
  ok,               \* status.ok()
  \* the file system
  written,          \* records in each log file
  synced,           \* how many of them a crash leaves
  entries,          \* the log files whose directory entry a crash leaves
  \* the clients
  acked,            \* <<log, record>> of the sync writes that returned OK
  want_sync,        \* the current write asked for sync
  calls             \* how many calls each thread has begun

logVars == <<logs, getting_synced, logfile_number, log_dir_synced, log_empty,
             min_log>>
callVars == <<up_to, todo, need_dir, ok>>
fileVars == <<written, synced, entries>>
clientVars == <<acked, want_sync, calls>>
vars == <<logVars, waiting, pc, callVars, fileVars, clientVars>>

Init ==
  /\ logs = <<1>>
  /\ getting_synced = [l \in Logs |-> FALSE]
  /\ logfile_number = 1
  /\ log_dir_synced = FALSE
  /\ log_empty = TRUE
  /\ min_log = 1
  /\ waiting = {}
  /\ pc = [t \in Threads |-> "idle"]
  /\ up_to = [t \in Threads |-> 0]
  /\ todo = [t \in Threads |-> <<>>]
  /\ need_dir = [t \in Threads |-> FALSE]
  /\ ok = [t \in Threads |-> TRUE]
  /\ written = [l \in Logs |-> 0]
  /\ synced = [l \in Logs |-> 0]
  /\ entries = {}
  /\ acked = {}
  /\ want_sync = FALSE
  /\ calls = [t \in Threads |-> 0]

Goto(t, point) == pc' = [pc EXCEPT ![t] = point]

\* A thread begins a call.
Call(t) ==
  /\ pc[t] = "idle"
  /\ calls[t] < IF t = Writer THEN MaxWrites ELSE MaxCalls
  /\ calls' = [calls EXCEPT ![t] = @ + 1]
  /\ ok' = [ok EXCEPT ![t] = TRUE]

\* The logs of logs_ up to number n.
UpTo(n) == SelectSeq(logs, LAMBDA l : l <= n)

\* getting_synced = true for the logs of a sequence.
MarkGettingSynced(q) ==
  getting_synced' = [l \in Logs |-> getting_synced[l] \/ l \in ToSet(q)]

-----------------------------------------------------------------------------
(* The write thread.                                                       *)

\* WriteImpl before PreprocessWrite: need_log_dir_sync is decided here.
WriteImpl ==
  /\ Call(Writer)
  /\ want_sync' \in BOOLEAN
  /\ need_dir' = [need_dir EXCEPT ![Writer] = want_sync' /\ ~log_dir_synced]
  /\ Goto(Writer, "preprocess")
  /\ UNCHANGED <<logVars, waiting, up_to, todo, fileVars, acked>>

\* SwitchMemtable, from PreprocessWrite: the mutex is released while the new
\* file is created, which may fail and end the write. Nothing happens to the
\* log when it is empty. When no family has anything unflushed (the records
\* were of failed writes, or had nothing for a memtable) all older logs become
\* obsolete at once, synced or not.
SwitchMemtable ==
  /\ pc[Writer] = "preprocess"
  /\ ~log_empty
  /\ \/ /\ logfile_number < MaxLog
        /\ logfile_number' = logfile_number + 1
        /\ logs' = Append(logs, logfile_number')
        /\ log_empty' = TRUE
        /\ log_dir_synced' = FALSE
        /\ min_log' \in {min_log, logfile_number'}
        /\ UNCHANGED pc
     \/ /\ "create" \in Faults
        /\ Goto(Writer, "idle")
        /\ UNCHANGED <<logs, logfile_number, log_empty, log_dir_synced,
                       min_log>>
  /\ UNCHANGED <<getting_synced, waiting, callVars, fileVars, clientVars>>

\* "it is enough to check the status of front()"
LogsGettingSynced == getting_synced[Head(logs)]

\* PreprocessWrite goes on, with the memtables it has.
PreprocessWrite ==
  /\ pc[Writer] = "preprocess"
  /\ Goto(Writer, IF want_sync THEN "take" ELSE "write")
  /\ UNCHANGED <<logVars, waiting, callVars, fileVars, clientVars>>

\* Its end: a sync write waits for syncs under way and takes all logs.
TakeAllLogs ==
  /\ pc[Writer] = "take"
  /\ Writer \notin waiting
  /\ IF LogsGettingSynced
     THEN waiting' = waiting \cup {Writer} /\ UNCHANGED <<getting_synced, pc>>
     ELSE MarkGettingSynced(logs) /\ Goto(Writer, "write") /\ UNCHANGED waiting
  /\ UNCHANGED <<logs, logfile_number, log_dir_synced, log_empty, min_log,
                 callVars, fileVars, clientVars>>

\* Mutant: the log just written to is left out.
LogsToSyncClosed == Front(logs)

\* Mutant: only the log just written to is synced.
LogsToSyncCurrent == <<Last(logs)>>

\* What the loop in WriteToWAL syncs
LogsToSync == logs

\* WriteToWAL: the record is appended; a sync write syncs all logs then. A
\* failed append leaves the record or not, and the logs are only released.
AddRecord ==
  /\ pc[Writer] = "write"
  /\ log_empty' = FALSE
  /\ up_to' = [up_to EXCEPT ![Writer] = IF want_sync THEN logfile_number ELSE 0]
  /\ \/ /\ written' = [written EXCEPT ![logfile_number] = @ + 1]
        /\ todo' = [todo EXCEPT ![Writer] = IF want_sync THEN LogsToSync ELSE <<>>]
        /\ Goto(Writer, IF want_sync THEN "sync" ELSE "idle")
        /\ UNCHANGED ok
     \/ /\ "append" \in Faults
        /\ written' \in {written, [written EXCEPT ![logfile_number] = @ + 1]}
        /\ ok' = [ok EXCEPT ![Writer] = FALSE]
        /\ Goto(Writer, IF want_sync THEN "mark" ELSE "idle")
        /\ todo' = [todo EXCEPT ![Writer] = <<>>]
  /\ UNCHANGED <<logs, getting_synced, logfile_number, log_dir_synced, min_log,
                 waiting, need_dir, synced, entries, clientVars>>

-----------------------------------------------------------------------------
(* SyncWAL and SyncClosedLogs.                                             *)

\* SyncWAL takes note of the current log.
SyncWAL(t) ==
  /\ Call(t)
  /\ up_to' = [up_to EXCEPT ![t] = logfile_number]
  /\ Goto(t, "take")
  /\ UNCHANGED <<logVars, waiting, todo, need_dir, fileVars, acked,
                 want_sync>>

\* current_log_number - 1 in SyncClosedLogs
LastClosedLog == logfile_number - 1

\* FlushMemTableToOutputFile calls SyncClosedLogs, which cares about the logs
\* before the current one.
SyncClosedLogs ==
  /\ Call(Flusher)
  /\ up_to' = [up_to EXCEPT ![Flusher] = LastClosedLog]
  /\ Goto(Flusher, "take")
  /\ UNCHANGED <<logVars, waiting, todo, need_dir, fileVars, acked,
                 want_sync>>

\* Both wait for syncs under way and take the logs that they care about. The
\* flush has nothing to sync if there is none, and always syncs the directory.
TakeLogs(t) ==
  /\ pc[t] = "take"
  /\ t \notin waiting
  /\ IF Head(logs) <= up_to[t] /\ LogsGettingSynced
     THEN /\ waiting' = waiting \cup {t}
          /\ UNCHANGED <<getting_synced, pc, todo, need_dir>>
     ELSE LET q == UpTo(up_to[t]) IN
          /\ MarkGettingSynced(q)
          /\ todo' = [todo EXCEPT ![t] = q]
          /\ need_dir' = [need_dir EXCEPT ![t] = t = Flusher \/ ~log_dir_synced]
          /\ Goto(t, IF t = Flusher /\ q = <<>> THEN "flush" ELSE "sync")
          /\ UNCHANGED waiting
  /\ UNCHANGED <<logs, logfile_number, log_dir_synced, log_empty, min_log,
                 up_to, ok, fileVars, clientVars>>

\* SyncWAL gives up, before it marks anything, on a file that another thread
\* may not sync while records are appended to it (IsSyncThreadSafe).
SyncNotSupported(t) ==
  /\ "mmap" \in Faults
  /\ pc[t] = "take"
  /\ t \notin waiting
  /\ ~(Head(logs) <= up_to[t] /\ LogsGettingSynced)
  /\ UpTo(up_to[t]) # <<>>
  /\ Goto(t, "idle")
  /\ up_to' = [up_to EXCEPT ![t] = 0]
  /\ UNCHANGED <<logVars, waiting, todo, need_dir, ok, fileVars, clientVars>>

-----------------------------------------------------------------------------
(* What the three have in common.                                          *)

\* One log file is synced: all that was appended until now. A failure ends the
\* loop, except in SyncClosedLogs, where the last log decides.
SyncLog(t) ==
  LET l == Head(todo[t]) IN
  /\ pc[t] = "sync"
  /\ todo[t] # <<>>
  /\ \/ /\ synced' = [synced EXCEPT ![l] = written[l]]
        /\ ok' = [ok EXCEPT ![t] = TRUE]
        /\ todo' = [todo EXCEPT ![t] = Tail(@)]
     \/ /\ "sync" \in Faults
        /\ ok' = [ok EXCEPT ![t] = FALSE]
        /\ todo' = [todo EXCEPT ![t] = IF t = Flusher THEN Tail(@) ELSE <<>>]
        /\ UNCHANGED synced
  /\ UNCHANGED <<logVars, waiting, pc, up_to, need_dir, written, entries,
                 clientVars>>

\* The directory is synced, if that is needed and the files were.
SyncDirectory(t) ==
  /\ pc[t] = "sync"
  /\ todo[t] = <<>>
  /\ \/ /\ ok[t] /\ need_dir[t]
        /\ entries' = 1 .. logfile_number
        /\ UNCHANGED ok
     \/ /\ ok[t] /\ need_dir[t] /\ "sync" \in Faults
        /\ ok' = [ok EXCEPT ![t] = FALSE]
        /\ UNCHANGED entries
     \/ ~(ok[t] /\ need_dir[t]) /\ UNCHANGED <<entries, ok>>
  /\ Goto(t, "mark")
  /\ UNCHANGED <<logVars, waiting, up_to, todo, need_dir, written, synced,
                 clientVars>>

\* The loop of MarkLogsSynced after a success: logs up to up_to are erased,
\* but not the last one of logs_.
KeptLogs(t) ==
  LET newer == SelectSeq(logs, LAMBDA l : l > up_to[t])
  IN IF newer = <<>> THEN <<Last(logs)>> ELSE newer

\* Mutant: after a failure the logs stay taken.
ReleasedLogsIfOk(t) == IF ok[t] THEN 1 .. up_to[t] ELSE {}

\* The logs that are not getting synced any more.
ReleasedLogs(t) == 1 .. up_to[t]

\* The directory was synced, and the current log is not newer than that.
DirectorySynced(t) == need_dir[t] /\ logfile_number = up_to[t]

\* MarkLogsSynced, with SignalAll, and the return from the call, which forgets
\* its local variables.
MarkLogsSynced(t) ==
  /\ pc[t] = "mark"
  /\ logs' = IF ok[t] THEN KeptLogs(t) ELSE logs
  /\ getting_synced' =
       [l \in Logs |-> getting_synced[l] /\ l \notin ReleasedLogs(t)]
  /\ log_dir_synced' = (log_dir_synced \/ (DirectorySynced(t) /\ ok[t]))
  /\ waiting' = {}
  /\ acked' = acked \cup
       (IF t = Writer /\ ok[t] THEN {<<up_to[t], written[up_to[t]]>>} ELSE {})
  /\ Goto(t, IF t # Flusher THEN "idle" ELSE IF ok[t] THEN "flush" ELSE "job")
  /\ up_to' = [up_to EXCEPT ![t] = IF t = Flusher THEN @ ELSE 0]
  /\ need_dir' = [need_dir EXCEPT ![t] = FALSE]
  /\ ok' = [ok EXCEPT ![t] = TRUE]
  /\ want_sync' = (want_sync /\ t # Writer)
  /\ UNCHANGED <<logfile_number, log_empty, min_log, todo, fileVars, calls>>

-----------------------------------------------------------------------------
(* The flush.                                                              *)

\* The memtables picked before SyncClosedLogs are in a file, and some of the
\* logs closed by then are no longer needed.
Flush ==
  /\ pc[Flusher] = "flush"
  /\ min_log' \in {min_log} \cup (min_log .. up_to[Flusher] + 1)
  /\ Goto(Flusher, "job")
  /\ UNCHANGED <<logs, getting_synced, logfile_number, log_dir_synced,
                 log_empty, waiting, callVars, fileVars, clientVars>>

\* Another background job, which does nothing to the logs.
BackgroundCompaction ==
  /\ Call(Flusher)
  /\ Goto(Flusher, "job")
  /\ UNCHANGED <<logVars, waiting, up_to, todo, need_dir, fileVars, acked,
                 want_sync>>

\* FindObsoleteFiles, at the end of every job, failed or not: job_context gets
\* the number of the oldest log that is needed.
FindObsoleteFiles ==
  /\ pc[Flusher] = "job"
  /\ up_to' = [up_to EXCEPT ![Flusher] = min_log - 1]
  /\ Goto(Flusher, "obsolete")
  /\ UNCHANGED <<logVars, waiting, todo, need_dir, ok, fileVars, clientVars>>

\* log.getting_synced in FindObsoleteFiles
MustWaitForSync == getting_synced[Head(logs)]

\* One turn of its loop that pops obsolete logs, waiting for those that are
\* getting synced.
PopObsoleteLog ==
  /\ pc[Flusher] = "obsolete"
  /\ Flusher \notin waiting
  /\ IF Head(logs) > up_to[Flusher]
     THEN /\ up_to' = [up_to EXCEPT ![Flusher] = 0]
          /\ Goto(Flusher, "idle")
          /\ UNCHANGED <<logs, waiting>>
     ELSE IF MustWaitForSync
     THEN waiting' = waiting \cup {Flusher} /\ UNCHANGED <<logs, pc, up_to>>
     ELSE logs' = Tail(logs) /\ UNCHANGED <<waiting, pc, up_to>>
  /\ UNCHANGED <<getting_synced, logfile_number, log_dir_synced, log_empty,
                 min_log, todo, need_dir, ok, fileVars, clientVars>>

-----------------------------------------------------------------------------
\* A step of a call that is under way.
Step(t) ==
  \/ t = Writer /\ (PreprocessWrite \/ TakeAllLogs \/ AddRecord)
  \/ t # Writer /\ TakeLogs(t)
  \/ t \in Syncers /\ SyncNotSupported(t)
  \/ SyncLog(t) \/ SyncDirectory(t) \/ MarkLogsSynced(t)
  \/ t = Flusher /\ (Flush \/ FindObsoleteFiles \/ PopObsoleteLog)

Next ==
  \/ WriteImpl
  \/ SwitchMemtable
  \/ \E t \in Syncers : SyncWAL(t)
  \/ SyncClosedLogs
  \/ BackgroundCompaction
  \/ \E t \in Threads : Step(t)

Spec == Init /\ [][Next]_vars

\* Every call that is under way gets to run.
FairSpec == Spec /\ \A t \in Threads : WF_vars(Step(t))

-----------------------------------------------------------------------------
(* Properties.                                                             *)

TypeOK ==
  /\ logs \in Seq(Logs)
  /\ getting_synced \in [Logs -> BOOLEAN]
  /\ logfile_number \in Logs
  /\ log_dir_synced \in BOOLEAN /\ log_empty \in BOOLEAN
  /\ min_log \in 1 .. logfile_number
  /\ waiting \subseteq Threads
  /\ pc \in [Threads -> {"idle", "preprocess", "write", "take", "sync", "mark",
                         "flush", "job", "obsolete"}]
  /\ up_to \in [Threads -> 0 .. MaxLog]
  /\ todo \in [Threads -> Seq(Logs)]
  /\ need_dir \in [Threads -> BOOLEAN] /\ ok \in [Threads -> BOOLEAN]
  /\ written \in [Logs -> 0 .. MaxWrites]
  /\ \A l \in Logs : synced[l] \in 0 .. written[l]
  /\ entries \subseteq Logs
  /\ acked \subseteq Logs \X (1 .. MaxWrites) /\ want_sync \in BOOLEAN
  /\ calls \in [Threads -> Nat]

\* A thread that syncs, or is about to mark what it synced.
Syncing(t) == pc[t] \in {"sync", "mark"}

\* The logs that a thread syncs without the mutex stay in logs_, marked, and
\* are taken by no other thread: "items with getting_synced=true are not
\* popped", so that the log::Writer behind the pointer is not freed; and
\* MarkLogsSynced finds every log up to its limit marked, as it asserts.
SyncingKeepsLogs ==
  \A t \in Threads : Syncing(t) =>
    /\ \A l \in ToSet(todo[t]) : l \in ToSet(logs) /\ getting_synced[l]
    /\ \A l \in ToSet(logs) : l <= up_to[t] => getting_synced[l]
    /\ \A u \in Threads \ {t} :
         Syncing(u) => ToSet(todo[t]) \cap ToSet(todo[u]) = {}

\* getting_synced is true for a prefix of logs_, which is why the threads look
\* at the front only.
GettingSyncedPrefix ==
  \A i, j \in DOMAIN logs : i < j /\ getting_synced[logs[j]]
                            => getting_synced[logs[i]]

\* The log that records are appended to is always the last one of logs_: it is
\* never dropped by a sync that finishes nor as obsolete.
CurrentLogKept == logs # <<>> /\ Last(logs) = logfile_number

\* A sync write that returned OK is synced in its file, unless it was flushed:
\* whoever synced the log before, what was appended since is synced again.
AckedSynced == \A a \in acked : a[1] >= min_log => a[2] <= synced[a[1]]

\* log_dir_synced_ means what it says, so that later sync writes may leave the
\* directory alone: the current log's entry survives a crash, although the
\* directory is synced without the mutex and a new log may be created meanwhile.
DirectoryFlagTrue == log_dir_synced => logfile_number \in entries

\* "Log files that aren't fully synced, and the current log file" (logs_ in
\* db_impl.h): a log with records that are neither synced nor flushed is in
\* logs_, where the next sync finds it.
LogsCoverUnsynced ==
  \A l \in min_log .. logfile_number :
    synced[l] < written[l] => l \in ToSet(logs)

\* When a sync write has returned OK, a crash leaves all that was written
\* before it: no earlier log has lost its end.
NoHoleBeforeAcked ==
  \A a \in acked : \A l \in min_log .. a[1] - 1 : synced[l] = written[l]

\* "A DB write with sync==true has similar crash semantics to a write() system
\* call followed by fdatasync()" (WriteOptions::sync): the file it is in is
\* still there after a crash.
AckedFileSurvives == \A a \in acked : a[1] >= min_log => a[1] \in entries

\* "all the log files except the most recent one are synced" before a flush
\* (the comment in FlushMemTableToOutputFile).
ClosedLogsSynced ==
  pc[Flusher] = "flush" =>
    \A l \in min_log .. up_to[Flusher] : synced[l] = written[l]

\* No call is under way. FairSpec leads there again and again, whatever fails,
\* as the calls are finitely many: nobody waits for log_sync_cv_ for ever.
NoCallUnderWay == \A t \in Threads : pc[t] = "idle"
=============================================================================
