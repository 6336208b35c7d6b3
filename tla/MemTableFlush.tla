--------------------------- MODULE MemTableFlush ----------------------------
(***************************************************************************)
(* From memtables to table files: MemTableList (db/memtable_list.cc),      *)
(* FlushJob (db/flush_job.cc), their callers in DBImpl, the commit in      *)
(* VersionSet::LogAndApply (db/version_set.cc), and the deletion of logs   *)
(* and tables that nobody needs (db/db_impl_files.cc).                     *)
(*                                                                         *)
(* An action is what a thread does between two points at which it gives up *)
(* the db mutex. The write thread switches memtables and logs; background  *)
(* jobs flush and compact. Logs and tables are named by the numbers that   *)
(* VersionSet hands out. A write is its position in written; syncing of    *)
(* logs is in LogSync and the steps of a write in DBWrite.                 *)
(***************************************************************************)
EXTENDS Integers, Sequences, FiniteSets

CONSTANTS
  Families,        \* column families
  Jobs,            \* background threads
  Null,
  MaxFlushes,      \* max_background_flushes
  MinMerge,        \* min_write_buffer_number_to_merge
  paranoid_checks, \* the option
  Faults,          \* what may fail: "log", "sync", "table", "manifest" (the
                   \* records are not written), "manifest_sync" (they are)
  MaxFailures,     \* bound: failures
  MaxWrites,       \* bound: writes
  MaxSwitches,     \* bound: memtable switches
  MaxCompactions   \* bound: compactions

ASSUME FamiliesAssumption == Families # {}

VARIABLES
  next_file,         \* VersionSet::next_file_number_
  logfile_number,    \* DBImpl::logfile_number_, the current log
  alive_log_files,   \* DBImpl::alive_log_files_: getting_flushed of each number
  log_empty,         \* DBImpl::log_empty_
  cf,                \* ColumnFamilyData, with its MemTableList and current Version
  flush_queue,       \* DBImpl::flush_queue_
  unscheduled,       \* DBImpl::unscheduled_flushes_
  scheduled,         \* DBImpl::bg_flush_scheduled_
  manifest_writers,  \* VersionSet::manifest_writers_
  obsolete,          \* VersionSet::obsolete_files_
  bg_error,          \* ~bg_error_.ok()
  mutex,             \* the job that keeps the mutex until its next action
  writer,            \* the thread at the front of the write queue
  job,               \* the background jobs
  logs,              \* disk: the log files that exist
  tables,            \* disk: the table files that exist, with their writes
  manifest,          \* disk: what the MANIFEST says of each family
  written,           \* all writes: the log and the families of each
  used               \* switches, compactions and failures so far, for the bounds

sched == <<flush_queue, unscheduled, scheduled>>
disk == <<logs, tables, manifest>>
walstate == <<logfile_number, alive_log_files, log_empty, written>>
vars == <<next_file, walstate, cf, sched, manifest_writers, obsolete, bg_error,
          mutex, writer, job, disk, used>>

NoEdit == [log |-> 0, file |-> 0]

\* A memtable that is not being flushed. Memtables are numbered by age.
Immutable(data, next_log) ==
  [data |-> data, next_log |-> next_log, in_progress |-> FALSE, completed |-> FALSE,
   file |-> 0, edit |-> NoEdit]

IdleJob ==
  [pc |-> "idle", kind |-> "none", f |-> Null, mems |-> {}, inputs |-> {},
   base |-> {}, file |-> 0, pending |-> 0, batch |-> {}, group |-> 0,
   edits |-> {}, ok |-> TRUE, tables |-> {}, logs |-> {}]

IdleWriter == [pc |-> "idle", why |-> "none", f |-> Null, todo |-> {}, oldest |-> 0,
               new |-> 0, ok |-> TRUE]

Init ==
  /\ next_file = 2
  /\ logfile_number = 1
  /\ alive_log_files = [n \in {1} |-> FALSE]
  /\ log_empty = TRUE
  /\ cf = [f \in Families |->
       [mem |-> [id |-> 1, data |-> {}], imm |-> <<>>, flush_requested |-> FALSE,
        commit_in_progress |-> FALSE, log_number |-> 1, files |-> {}]]
  /\ flush_queue = <<>> /\ unscheduled = 0 /\ scheduled = 0
  /\ manifest_writers = <<>>
  /\ obsolete = {}
  /\ bg_error = FALSE
  /\ mutex = Null
  /\ writer = IdleWriter
  /\ job = [j \in Jobs |-> IdleJob]
  /\ logs = {1}
  /\ tables = <<>>
  /\ manifest = [f \in Families |-> [log |-> 1, files |-> {}]]
  /\ written = <<>>
  /\ used = [switches |-> 0, compactions |-> 0, failures |-> 0]

\* One of the things that may fail does.
MayFail(what) == what \in Faults /\ used.failures < MaxFailures
Fails(what) ==
  /\ MayFail(what)
  /\ used' = [used EXCEPT !.failures = @ + 1]

-----------------------------------------------------------------------------
(* Scheduling of flushes, as functions on the queue and the two counters.  *)

\* The memtables that num_flush_not_started_ counts: it is changed together with
\* flush_in_progress_.
FlushNotStarted(imm) == {i \in DOMAIN imm : ~imm[i].in_progress}

\* MinMerge is at least 1 (SanitizeOptions).
IsFlushPending(c) ==
  /\ FlushNotStarted(c.imm) # {}
  /\ c.flush_requested \/ Cardinality(FlushNotStarted(c.imm)) >= MinMerge

FlushRequested(c) == [c EXCEPT !.flush_requested = TRUE]

SchedulePendingFlush(s, f, c) ==
  IF IsFlushPending(c) /\ \A i \in DOMAIN s.queue : s.queue[i] # f
  THEN [s EXCEPT !.queue = Append(@, f), !.unscheduled = @ + 1]
  ELSE s

MaybeScheduleFlush(s) ==
  LET room == MaxFlushes - s.scheduled
      n == IF s.unscheduled < room THEN s.unscheduled ELSE room IN
  [s EXCEPT !.unscheduled = @ - n, !.scheduled = @ + n]

\* InstallSuperVersionAndScheduleWork
ScheduleWork(s, f, c) == MaybeScheduleFlush(SchedulePendingFlush(s, f, c))

Sched == [queue |-> flush_queue, unscheduled |-> unscheduled, scheduled |-> scheduled]
SetSched(s) ==
  /\ flush_queue' = s.queue
  /\ unscheduled' = s.unscheduled
  /\ scheduled' = s.scheduled

-----------------------------------------------------------------------------
(* The write thread.                                                       *)

\* WriteBatchInternal::InsertInto, see DBWrite
Insert(c, w) == [c EXCEPT !.mem = [id |-> c.mem.id, data |-> c.mem.data \cup {w}]]

\* A write to some families: its record goes to the current log and its keys to
\* the memtables.
Write(fs) ==
  /\ writer.pc = "idle"
  /\ ~bg_error
  /\ Len(written) < MaxWrites
  /\ written' = Append(written, [log |-> logfile_number, families |-> fs])
  /\ log_empty' = FALSE
  /\ cf' = [f \in Families |->
       IF f \in fs THEN Insert(cf[f], Len(written) + 1) ELSE cf[f]]
  /\ UNCHANGED <<next_file, logfile_number, alive_log_files, sched, manifest_writers, obsolete,
                 bg_error, mutex, writer, job, disk, used>>

\* SwitchMemtable up to where it gives up the mutex to create the new log,
\* which it needs if the current one has records.
BeginSwitch(why, f, todo, oldest) ==
  \E ok \in IF log_empty \/ ~MayFail("log") THEN {TRUE} ELSE BOOLEAN :
    /\ writer' = [pc |-> "switching", why |-> why, f |-> f, todo |-> todo, oldest |-> oldest,
                  new |-> IF log_empty THEN 0 ELSE next_file, ok |-> ok]
    /\ next_file' = IF log_empty THEN next_file ELSE next_file + 1
    /\ logs' = IF log_empty \/ ~ok THEN logs ELSE logs \cup {next_file}
    /\ used' = [used EXCEPT !.switches = @ + 1, !.failures = IF ok THEN @ ELSE @ + 1]

\* The families whose data keeps the oldest log alive
NeedOldestLog(c, fs, oldest) == {f \in fs : c[f].log_number <= oldest}

\* Mutant: only one of the families is switched, the log is marked for good.
WALFullRestNone(fs) == {}

\* The rest of the loop over the column families
WALFullRest(fs) == fs

\* HandleWALFull marks the oldest log and switches the memtables of all
\* families that need it.
HandleWALFull ==
  /\ writer.pc = "idle"
  /\ Cardinality(Families) > 1   \* ~single_column_family_mode_
  /\ \E w \in DOMAIN written : written[w].log \in DOMAIN alive_log_files
  /\ used.switches + Cardinality(Families) <= MaxSwitches
  /\ \E oldest \in DOMAIN alive_log_files :
       LET need == NeedOldestLog(cf, Families, oldest) IN
       /\ \A n \in DOMAIN alive_log_files : oldest <= n
       /\ ~alive_log_files[oldest]
       /\ alive_log_files' = [alive_log_files EXCEPT ![oldest] = TRUE]
       /\ IF need = {}
          THEN SetSched(MaybeScheduleFlush(Sched)) /\ UNCHANGED <<writer, next_file, logs, used>>
          ELSE (\E f \in need : BeginSwitch("walfull", f, WALFullRest(Families \ {f}), oldest))
               /\ UNCHANGED sched
  /\ UNCHANGED <<logfile_number, log_empty, written, cf, manifest_writers, obsolete,
                 bg_error, mutex, job, tables, manifest>>

\* HandleWriteBufferFull, ScheduleFlushes (a full memtable, see FlushScheduler)
\* and FlushMemTable begin to switch the memtable of one family. FlushMemTable
\* saw something to flush before it waited for its turn; it may be gone now.
SwitchOne(f) ==
  /\ writer.pc = "idle"
  /\ used.switches < MaxSwitches
  /\ \E why \in {"bufferfull", "scheduled", "manual"} :
       /\ why # "manual" => cf[f].mem.data # {}
       /\ why = "scheduled" => ~bg_error
       /\ why = "manual" => \E w \in DOMAIN written : f \in written[w].families
       /\ BeginSwitch(why, f, {}, 0)
  /\ UNCHANGED <<walstate, cf, sched, manifest_writers, obsolete, bg_error, mutex,
                 job, tables, manifest>>

\* Mutant: an empty memtable is enough.
NoDataIgnoresImm(c) == c.mem.data = {}

\* The family has nothing that is not in a table.
NoData(c) == c.mem.data = {} /\ DOMAIN c.imm = {}

\* SwitchMemtable with the mutex again: the new log, the families that need no
\* older one, and the memtable of f. Then what its caller does next.
EndSwitch ==
  LET f == writer.f
      alive == IF writer.new = 0 THEN alive_log_files
               ELSE [n \in DOMAIN alive_log_files \cup {writer.new} |->
                       n # writer.new /\ alive_log_files[n]]
      log == IF writer.new = 0 THEN logfile_number ELSE writer.new
      advanced == [g \in Families |->
        IF writer.new # 0 /\ NoData(cf[g]) THEN [cf[g] EXCEPT !.log_number = log]
        ELSE cf[g]]
      switched == [advanced[f] EXCEPT
        !.imm = [i \in DOMAIN cf[f].imm \cup {cf[f].mem.id} |->
                   IF i = cf[f].mem.id THEN Immutable(cf[f].mem.data, log) ELSE cf[f].imm[i]],
        !.mem = [id |-> cf[f].mem.id + 1, data |-> {}]]
      requests == writer.why # "scheduled"
      installed == IF requests THEN FlushRequested(switched) ELSE switched
      s1 == ScheduleWork(Sched, f, switched)
      s2 == IF requests THEN SchedulePendingFlush(s1, f, installed) ELSE s1
      c == [advanced EXCEPT ![f] = installed]
      next == NeedOldestLog(c, writer.todo, writer.oldest) IN
  /\ writer.pc = "switching"
  /\ writer.ok
  /\ logfile_number' = log
  /\ alive_log_files' = alive
  /\ log_empty' = (log_empty \/ writer.new # 0)
  /\ cf' = c
  /\ IF writer.why = "walfull" /\ next # {}
     THEN /\ \E g \in next :
               writer' = [writer EXCEPT !.f = g, !.todo = @ \ {g}, !.new = 0]
          /\ used' = [used EXCEPT !.switches = @ + 1]
          /\ SetSched(s2)
     ELSE /\ writer' = IdleWriter
          /\ SetSched(MaybeScheduleFlush(s2))
          /\ UNCHANGED used
  /\ UNCHANGED <<next_file, written, manifest_writers, obsolete, bg_error, mutex,
                 job, disk>>

\* The new log could not be created. A write fails, which ParanoidCheck turns
\* into bg_error_; FlushMemTable goes on to request the flush.
FailedSwitch ==
  LET f == writer.f
      c == IF writer.why = "manual" THEN FlushRequested(cf[f]) ELSE cf[f] IN
  /\ writer.pc = "switching"
  /\ ~writer.ok
  /\ writer' = IdleWriter
  /\ cf' = [cf EXCEPT ![f] = c]
  /\ SetSched(CASE writer.why = "manual" -> ScheduleWork(Sched, f, c)
                [] writer.why = "walfull" -> MaybeScheduleFlush(Sched)
                [] OTHER -> Sched)
  /\ bg_error' = (bg_error \/ (paranoid_checks /\ writer.why # "manual"))
  /\ UNCHANGED <<next_file, walstate, manifest_writers, obsolete, mutex, job, disk, used>>

-----------------------------------------------------------------------------
(* Flush jobs.                                                             *)

SetJob(j, r) == job' = [job EXCEPT ![j] = r]

\* The files of all versions that are in use
Live(c, js) ==
  (UNION {c[f].files : f \in Families}) \cup (UNION {js[j].base : j \in Jobs})

\* ~Version: files that no version has any more are obsolete.
ReleaseVersions == obsolete' = obsolete \cup (Live(cf, job) \ Live(cf', job'))

\* BackgroundCallFlush with nothing to do: an error, or no family of the queue
\* has something to flush any more.
NothingToFlush(j) ==
  /\ SetJob(j, [job[j] EXCEPT !.pc = "find", !.kind = "flush", !.ok = ~bg_error])
  /\ flush_queue' = IF bg_error THEN flush_queue ELSE <<>>
  /\ UNCHANGED <<cf, next_file>>

\* PickMemTable takes all memtables of f that no job has, with the current file
\* number among the pending outputs. The edit of the oldest one records the log
\* after the newest one.
PickMemTable(j, f) ==
  LET imm == cf[f].imm
      picked == FlushNotStarted(imm) IN
  \E oldest, newest \in picked :
    /\ \A i \in picked : oldest <= i /\ i <= newest
    /\ SetJob(j, [job[j] EXCEPT !.pc = "sync", !.kind = "flush", !.f = f, !.mems = picked,
                  !.base = cf[f].files, !.file = next_file, !.pending = next_file,
                  !.ok = TRUE])
    /\ cf' = [cf EXCEPT ![f] = [@ EXCEPT !.flush_requested = FALSE,
         !.imm = [i \in DOMAIN imm |->
           IF i \notin picked THEN imm[i]
           ELSE [imm[i] EXCEPT !.in_progress = TRUE,
                   !.edit = IF i # oldest THEN @
                            ELSE [log |-> imm[newest].next_log, file |-> 0]]]]]
    /\ next_file' = next_file + 1

\* BackgroundCallFlush and BackgroundFlush: take the first family of the queue
\* that still has something to flush.
BackgroundCallFlush(j) ==
  LET ready == {i \in DOMAIN flush_queue : IsFlushPending(cf[flush_queue[i]])} IN
  /\ job[j].pc = "idle"
  /\ Cardinality({k \in Jobs : job[k].kind = "flush"}) < scheduled
  /\ \/ (bg_error \/ ready = {}) /\ NothingToFlush(j)
     \/ /\ ~bg_error
        /\ \E first \in ready, f \in Families :
             /\ \A i \in ready : first <= i
             /\ f = flush_queue[first]
             /\ PickMemTable(j, f)
             /\ flush_queue' = SubSeq(flush_queue, first + 1, Len(flush_queue))
  /\ UNCHANGED <<walstate, unscheduled, scheduled, manifest_writers, obsolete,
                 bg_error, mutex, writer, disk, used>>

\* What the memtables of a job hold
Data(j) == UNION {cf[job[j].f].imm[i].data : i \in job[j].mems}

\* SyncClosedLogs without the mutex. A failure cancels the job.
SyncClosedLogs(j) ==
  /\ job[j].pc = "sync"
  /\ \/ /\ SetJob(j, [job[j] EXCEPT !.pc = "build"])
        /\ tables' = IF Data(j) = {} THEN tables
                     ELSE [n \in DOMAIN tables \cup {job[j].file} |->
                             IF n = job[j].file THEN Data(j) ELSE tables[n]]
        /\ UNCHANGED <<bg_error, obsolete, used>>
     \/ /\ Fails("sync")
        /\ SetJob(j, [job[j] EXCEPT !.pc = "find", !.ok = FALSE, !.base = {}])
        /\ bg_error' = TRUE
        /\ obsolete' = obsolete \cup (Live(cf, job) \ Live(cf, job'))
        /\ UNCHANGED tables
  /\ UNCHANGED <<next_file, walstate, cf, sched, manifest_writers, mutex, writer,
                 logs, manifest>>

Reset(m) == [m EXCEPT !.in_progress = FALSE, !.completed = FALSE, !.file = 0,
                      !.edit = NoEdit]

\* The memtables in S are to be flushed again.
ResetAll(imm, S) == [i \in DOMAIN imm |-> IF i \in S THEN Reset(imm[i]) ELSE imm[i]]

\* The table could not be written: RollbackMemtableFlush.
RollbackMemtableFlush(j) ==
  LET f == job[j].f IN
  /\ job[j].pc = "build"
  /\ Fails("table")
  /\ tables' = [n \in DOMAIN tables \ {job[j].file} |-> tables[n]]
  /\ cf' = [cf EXCEPT ![f] = [@ EXCEPT !.imm = ResetAll(cf[f].imm, job[j].mems)]]
  /\ bg_error' = (bg_error \/ paranoid_checks)
  /\ SetJob(j, [job[j] EXCEPT !.pc = "find", !.ok = FALSE, !.base = {}])
  /\ ReleaseVersions
  /\ UNCHANGED <<next_file, walstate, sched, manifest_writers, mutex, writer, logs,
                 manifest>>

\* The oldest memtables, as far as they have been flushed
CompletedPrefix(imm) ==
  {i \in DOMAIN imm : \A k \in DOMAIN imm : k <= i => imm[k].completed}

\* A memtable that is in the table file now, if it has one. The edit of the first
\* one of the job says so.
Flushed(m, file) ==
  [m EXCEPT !.completed = TRUE, !.file = file,
            !.edit = IF m.edit = NoEdit \/ file \notin DOMAIN tables THEN m.edit
                     ELSE [log |-> m.edit.log, file |-> file]]

\* The loop of InstallMemtableFlushResults, with c for the family and r for the
\* job: queue for the MANIFEST with a batch of memtables, or the commit is over.
CommitOldest(j, c, batch, r) ==
  LET f == job[j].f
      done == [c EXCEPT !.commit_in_progress = FALSE] IN
  IF batch # {}
  THEN /\ cf' = [cf EXCEPT ![f] = [c EXCEPT !.commit_in_progress = TRUE]]
       /\ manifest_writers' = Append(manifest_writers, j)
       /\ SetJob(j, [r EXCEPT !.pc = "manifest", !.batch = batch])
       /\ UNCHANGED sched
  ELSE /\ cf' = [cf EXCEPT ![f] = done]
       /\ SetJob(j, [r EXCEPT !.pc = "find"])
       /\ SetSched(ScheduleWork(Sched, f, done))
       /\ UNCHANGED manifest_writers

\* The table is written: InstallMemtableFlushResults. If another job commits it
\* will commit these memtables too.
InstallMemtableFlushResults(j) ==
  LET f == job[j].f
      imm == cf[f].imm
      c == [cf[f] EXCEPT !.imm = [i \in DOMAIN imm |->
              IF i \in job[j].mems THEN Flushed(imm[i], job[j].file) ELSE imm[i]]] IN
  /\ job[j].pc = "build"
  /\ IF c.commit_in_progress
     THEN /\ cf' = [cf EXCEPT ![f] = c]
          /\ SetJob(j, [job[j] EXCEPT !.pc = "find", !.base = {}])
          /\ SetSched(ScheduleWork(Sched, f, c))
          /\ UNCHANGED manifest_writers
     ELSE CommitOldest(j, c, CompletedPrefix(c.imm), [job[j] EXCEPT !.base = {}])
  /\ ReleaseVersions
  /\ UNCHANGED <<next_file, walstate, bg_error, mutex, writer, disk, used>>

-----------------------------------------------------------------------------
(* Compactions: some tables of a family become one.                        *)

BackgroundCallCompaction(j) ==
  /\ job[j].pc = "idle"
  /\ ~bg_error
  /\ used.compactions < MaxCompactions
  /\ \E f \in Families :
     LET inputs == cf[f].files \ UNION {job[k].inputs : k \in Jobs} IN
       /\ Cardinality(inputs) > 1
       /\ SetJob(j, [job[j] EXCEPT !.pc = "compact", !.kind = "compaction", !.f = f,
                     !.inputs = inputs, !.base = cf[f].files, !.file = next_file,
                     !.pending = next_file, !.ok = TRUE])
       /\ tables' = [n \in DOMAIN tables \cup {next_file} |->
            IF n = next_file THEN UNION {tables[i] : i \in inputs} ELSE tables[n]]
  /\ next_file' = next_file + 1
  /\ used' = [used EXCEPT !.compactions = @ + 1]
  /\ UNCHANGED <<walstate, cf, sched, manifest_writers, obsolete, bg_error, mutex,
                 writer, logs, manifest>>

RunCompaction(j) ==
  /\ job[j].pc = "compact"
  /\ \/ /\ SetJob(j, [job[j] EXCEPT !.pc = "manifest"])
        /\ manifest_writers' = Append(manifest_writers, j)
        /\ UNCHANGED <<bg_error, obsolete, used>>
     \/ /\ Fails("table")
        /\ SetJob(j, [job[j] EXCEPT !.pc = "find", !.ok = FALSE, !.base = {}, !.inputs = {}])
        /\ bg_error' = (bg_error \/ paranoid_checks)
        /\ obsolete' = obsolete \cup (Live(cf, job) \ Live(cf, job'))
        /\ UNCHANGED manifest_writers
  /\ UNCHANGED <<next_file, walstate, cf, sched, mutex, writer, disk>>

-----------------------------------------------------------------------------
(* LogAndApply.                                                            *)

\* The edits of a writer, one for each flush of its batch of memtables: the
\* first memtable of each file has it.
Edits(j) ==
  LET imm == cf[job[j].f].imm IN
  IF job[j].kind = "compaction"
  THEN {[log |-> 0, add |-> {job[j].file}, delete |-> job[j].inputs]}
  ELSE {[log |-> imm[i].edit.log, add |-> {imm[i].edit.file} \ {0}, delete |-> {}] :
          i \in {k \in job[j].batch : k - 1 \in job[j].batch => imm[k].file # imm[k - 1].file}}

\* The first n writers of the queue are those that commit to the same family.
IsGroup(n) ==
  LET f == job[manifest_writers[1]].f IN
  /\ \A i \in 1 .. n : job[manifest_writers[i]].f = f
  /\ n < Len(manifest_writers) => job[manifest_writers[n + 1]].f # f

GroupEdits(n) == UNION {Edits(manifest_writers[i]) : i \in 1 .. n}

Highest(S) == {l \in S : \A m \in S : m <= l}
EditLogs(edits) == {e.log : e \in edits} \ {0}
EditedFiles(files, edits) ==
  (files \cup UNION {e.add : e \in edits}) \ UNION {e.delete : e \in edits}

\* The first writer appends the edits of its group to the MANIFEST, without the
\* mutex. If that fails the records may be there nevertheless.
WriteManifest(j) ==
  LET f == job[j].f IN
  /\ job[j].pc = "manifest"
  /\ manifest_writers[1] = j
  /\ \E n \in 1 .. Len(manifest_writers), ok \in BOOLEAN :
     \E log \in Highest({manifest[f].log} \cup EditLogs(GroupEdits(n))) :
     LET edits == GroupEdits(n)
         edited == [log |-> log, files |-> EditedFiles(manifest[f].files, edits)] IN
       /\ IsGroup(n)
       /\ SetJob(j, [job[j] EXCEPT !.pc = "apply", !.ok = ok, !.group = n, !.edits = edits])
       /\ \/ ok /\ manifest' = [manifest EXCEPT ![f] = edited] /\ UNCHANGED used
          \/ ~ok /\ Fails("manifest") /\ UNCHANGED manifest
          \/ ~ok /\ Fails("manifest_sync") /\ manifest' = [manifest EXCEPT ![f] = edited]
  /\ UNCHANGED <<next_file, walstate, cf, sched, manifest_writers, obsolete, bg_error,
                 mutex, writer, logs, tables>>

\* With the mutex again it installs the new version and wakes its group.
Apply(j) ==
  LET f == job[j].f
      n == job[j].group
      edits == job[j].edits
      members == {manifest_writers[i] : i \in 1 .. n} IN
  /\ job[j].pc = "apply"
  /\ job' = [k \in Jobs |-> IF k \in members
                            THEN [job[k] EXCEPT !.pc = "applied", !.ok = job[j].ok,
                                                !.group = 0, !.edits = {}]
                            ELSE job[k]]
  /\ IF ~job[j].ok THEN UNCHANGED cf
     ELSE \E log \in Highest(IF EditLogs(edits) = {} THEN {cf[f].log_number}
                             ELSE EditLogs(edits)) :
            cf' = [cf EXCEPT ![f] = [@ EXCEPT !.log_number = log,
                                       !.files = EditedFiles(cf[f].files, edits)]]
  /\ manifest_writers' = SubSeq(manifest_writers, n + 1, Len(manifest_writers))
  /\ mutex' = j
  /\ ReleaseVersions
  /\ UNCHANGED <<next_file, walstate, sched, bg_error, writer, disk, used>>

\* Mutant: what has been flushed in the meantime is left to others.
RetryCommitNone(imm) == {}

\* Retry until all completed flushes are committed.
RetryCommit(imm) == CompletedPrefix(imm)

\* Mutant: all memtables that have been flushed are removed, also those that were
\* while LogAndApply wrote the MANIFEST.
UncommittedUnlessFlushed(imm, batch) ==
  [i \in {k \in DOMAIN imm : ~imm[k].completed} |-> imm[i]]

\* The list without the memtables that LogAndApply has committed
Uncommitted(imm, batch) == [i \in DOMAIN imm \ batch |-> imm[i]]

\* A flush job that comes back from LogAndApply removes the memtables that are
\* in tables now and looks for more; or, if it failed, they are to be flushed
\* again.
FlushApplied(j) ==
  LET f == job[j].f IN
  /\ job[j].pc = "applied"
  /\ job[j].kind = "flush"
  /\ IF job[j].ok
     THEN LET rest == Uncommitted(cf[f].imm, job[j].batch) IN
          /\ CommitOldest(j, [cf[f] EXCEPT !.imm = rest], RetryCommit(rest), job[j])
          /\ UNCHANGED bg_error
     ELSE /\ cf' = [cf EXCEPT ![f] = [@ EXCEPT !.commit_in_progress = FALSE,
                                     !.imm = ResetAll(cf[f].imm, job[j].batch)]]
          /\ SetJob(j, [job[j] EXCEPT !.pc = "find"])
          /\ bg_error' = (bg_error \/ paranoid_checks)
          /\ UNCHANGED <<manifest_writers, sched>>
  /\ mutex' = Null
  /\ UNCHANGED <<next_file, walstate, obsolete, writer, disk, used>>

CompactionApplied(j) ==
  /\ job[j].pc = "applied"
  /\ job[j].kind = "compaction"
  /\ SetJob(j, [job[j] EXCEPT !.pc = "find", !.base = {}, !.inputs = {}])
  /\ SetSched(IF job[j].ok THEN ScheduleWork(Sched, job[j].f, cf[job[j].f]) ELSE Sched)
  /\ bg_error' = (bg_error \/ (paranoid_checks /\ ~job[j].ok))
  /\ obsolete' = obsolete \cup (Live(cf, job) \ Live(cf, job'))
  /\ mutex' = Null
  /\ UNCHANGED <<next_file, walstate, cf, manifest_writers, writer, disk, used>>

-----------------------------------------------------------------------------
(* Files that are not needed any more.                                     *)

\* Mutant: the pending outputs of other jobs are not looked at.
BelowPendingOutputsNone(j, n) == n < next_file

\* n is smaller than what is in pending_outputs_ without the job's own.
BelowPendingOutputs(j, n) ==
  /\ n < next_file
  /\ \A k \in Jobs \ {j} : job[k].pending # 0 => n < job[k].pending

\* n is smaller than VersionSet::MinLogNumber.
BelowMinLogNumber(n) == \A f \in Families : n < cf[f].log_number

\* FindObsoleteFiles scans the directories after a failure, and from time to
\* time. What PurgeObsoleteFiles will keep of the candidates is known here: the
\* live files, the log number and the pending outputs are recorded now. The
\* oldest logs leave alive_log_files_.
FindObsoleteFiles(j) ==
  LET taken == {n \in obsolete : BelowPendingOutputs(j, n)} IN
  /\ job[j].pc = "find"
  /\ \E full \in IF job[j].ok THEN BOOLEAN ELSE {TRUE} :
     LET candidates == taken \cup (IF full THEN DOMAIN tables ELSE {})
         old == DOMAIN alive_log_files \cup (IF full THEN logs ELSE {}) IN
       SetJob(j, [job[j] EXCEPT !.pc = "purge", !.pending = 0,
                  !.tables = {n \in candidates : n \notin Live(cf, job)
                                                 /\ BelowPendingOutputs(j, n)},
                  !.logs = {n \in old : BelowMinLogNumber(n)}])
  /\ obsolete' = obsolete \ taken
  /\ alive_log_files' = [n \in {l \in DOMAIN alive_log_files : ~BelowMinLogNumber(l)} |->
                           alive_log_files[n]]
  /\ UNCHANGED <<next_file, logfile_number, log_empty, written, cf, sched,
                 manifest_writers, bg_error, mutex, writer, disk, used>>

\* PurgeObsoleteFiles, without the mutex
PurgeObsoleteFiles(j) ==
  /\ job[j].pc = "purge"
  /\ tables' = [n \in DOMAIN tables \ job[j].tables |-> tables[n]]
  /\ logs' = logs \ job[j].logs
  /\ SetJob(j, [job[j] EXCEPT !.pc = "end", !.tables = {}, !.logs = {}])
  /\ UNCHANGED <<next_file, walstate, cf, sched, manifest_writers, obsolete, bg_error,
                 mutex, writer, manifest, used>>

\* The end of BackgroundCallFlush and BackgroundCallCompaction.
EndJob(j) ==
  /\ job[j].pc = "end"
  /\ SetJob(j, IdleJob)
  /\ SetSched(MaybeScheduleFlush(
       [Sched EXCEPT !.scheduled = IF job[j].kind = "flush" THEN @ - 1 ELSE @]))
  /\ UNCHANGED <<next_file, walstate, cf, manifest_writers, obsolete, bg_error, mutex,
                 writer, disk, used>>

-----------------------------------------------------------------------------
JobStep(j) ==
  \/ /\ mutex \in {Null, j}
     /\ FlushApplied(j) \/ CompactionApplied(j)
  \/ /\ mutex = Null
     /\ \/ BackgroundCallFlush(j) \/ SyncClosedLogs(j) \/ RollbackMemtableFlush(j)
        \/ InstallMemtableFlushResults(j) \/ RunCompaction(j)
        \/ WriteManifest(j) \/ Apply(j)
        \/ FindObsoleteFiles(j) \/ PurgeObsoleteFiles(j) \/ EndJob(j)

Next ==
  \/ \E j \in Jobs : JobStep(j) \/ (mutex = Null /\ BackgroundCallCompaction(j))
  \/ /\ mutex = Null
     /\ \/ \E fs \in SUBSET Families \ {{}} : Write(fs)
        \/ HandleWALFull \/ EndSwitch \/ FailedSwitch
        \/ \E f \in Families : SwitchOne(f)

Spec == Init /\ [][Next]_vars

-----------------------------------------------------------------------------
(* Properties.                                                             *)

\* Whenever the process dies, every write can be recovered for each of its
\* families: it is in a table that the MANIFEST names, or its log exists and is
\* not older than the MANIFEST says recovery has to go. This ties the order in
\* which flushes are committed, the log number that a flush records and the
\* deletion of logs together.
Recoverable ==
  \A w \in DOMAIN written : \A f \in written[w].families :
    \/ \E n \in manifest[f].files \cap DOMAIN tables : w \in tables[n]
    \/ written[w].log \in logs /\ written[w].log >= manifest[f].log

\* Every write can be read for each of its families, in a memtable or in a table
\* of the current version, whichever flushes and compactions are in progress.
Readable ==
  \A w \in DOMAIN written : \A f \in written[w].families :
    \/ w \in cf[f].mem.data
    \/ \E i \in DOMAIN cf[f].imm : w \in cf[f].imm[i].data
    \/ \E n \in cf[f].files : w \in tables[n]

\* Every table of a version in use exists, and so does every log that is alive:
\* the purge works without the mutex on lists that were made before.
LiveFilesExist ==
  /\ Live(cf, job) \subseteq DOMAIN tables
  /\ DOMAIN alive_log_files \subseteq logs

\* The database can be opened: every table that the MANIFEST names exists.
ManifestFilesExist == \A f \in Families : manifest[f].files \subseteq DOMAIN tables

\* FindObsoleteFiles and PurgeObsoleteFiles delete nothing that the versions in
\* use, the logs or a restart need, whatever jobs are under way.
FilesExist == LiveFilesExist /\ ManifestFilesExist

\* Nothing runs and nothing is due: each job is at the end of its work, is not
\* the first in the queue for the MANIFEST, or has no flush to start. As every
\* job ends after finitely many steps this comes about whenever the write
\* thread pauses.
Quiescent ==
  /\ writer.pc = "idle"
  /\ \A j \in Jobs :
       \/ job[j].pc = "idle" /\ Cardinality({k \in Jobs : job[k].kind = "flush"}) >= scheduled
       \/ job[j].pc = "manifest" /\ manifest_writers[1] # j

\* No request for a flush gets lost between the queue, the two counters and the
\* jobs, and a result that one job leaves for another is committed: at rest no
\* memtable is to be flushed, being flushed, or flushed and still in the list,
\* unless an error stopped the database.
NoFlushLost ==
  Quiescent => \/ bg_error
               \/ \A f \in Families :
                    /\ ~IsFlushPending(cf[f])
                    /\ \A i \in DOMAIN cf[f].imm : ~cf[f].imm[i].in_progress

\* A log that HandleWALFull wants to get rid of is gone at rest, unless an error
\* stopped the database. Marked for good, it would keep HandleWALFull from ever
\* flushing again and the logs would grow without limit.
FullLogReleased ==
  Quiescent => \/ bg_error
               \/ \A n \in DOMAIN alive_log_files : ~alive_log_files[n]
=============================================================================
