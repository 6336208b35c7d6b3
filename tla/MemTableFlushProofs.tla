------------------------ MODULE MemTableFlushProofs -------------------------
(***************************************************************************)
(* FilesExist holds. The remaining steps preserve FInv: a write, a switch  *)
(* up to its last step, the scheduling, a compaction, the MANIFEST and the *)
(* deletion of files. FInv holds at the start and implies FilesExist.      *)
(***************************************************************************)
EXTENDS MemTableFlushListProofs

\* A step that leaves the memtable lists, the versions, the jobs, the tables and
\* the MANIFEST alone preserves what is said about them.
LEMMA QuietF ==
  ASSUME FInv, UNCHANGED <<job, manifest_writers, manifest, tables>>,
         next_file' \in Nat, next_file <= next_file', bg_error => bg_error',
         \A f \in Families :
           /\ cf'[f].imm = cf[f].imm /\ cf'[f].files = cf[f].files
           /\ cf'[f].commit_in_progress = cf[f].commit_in_progress
           /\ cf'[f].mem.id = cf[f].mem.id
  PROVE  /\ JobAt' /\ QueueInv' /\ CommitInv' /\ ImmInv' /\ OwnInv' /\ OrderInv'
         /\ TableInv' /\ PurgeInv' /\ ManifestInv'
<1> USE DEF FInv
<1>0. /\ next_file \in Nat
      /\ \A j \in Jobs : job[j].file \in Nat /\ job[j].tables \subseteq Nat
      /\ \A f \in Families : \A i \in DOMAIN cf[f].imm : cf[f].imm[i].file \in Nat
  BY Zenon, CfTypes, JobTypes DEF Types
<1>1. \A j : /\ Busy(j)' <=> Busy(j)
             /\ Flushing(j)' <=> Flushing(j)
             /\ Queued(j)' <=> Queued(j)
             /\ Committing(j)' <=> Committing(j)
             /\ \A f, i : Owns(j, f, i)' <=> Owns(j, f, i)
  BY Zenon DEF Busy, Flushing, Queued, Committing, Owns
<1>2. \A f \in Families : \A i : /\ \A n : HasFile(f, i, n)' <=> HasFile(f, i, n)
                                 /\ Sound(f, i)' <=> Sound(f, i)
  BY ZenonT(40), <1>1 DEF HasFile, Sound
<1>3. Live(cf, job)' = Live(cf, job)
  BY Zenon, LiveStay
<1>4. \A n : Needed(n)' <=> Needed(n)
  BY Zenon, <1>1, <1>2, <1>3 DEF Needed
<1>5. \A j \in Jobs : Busy(j) => job[j].f \in Families
  BY Zenon DEF JobAt
<1>6. \A j \in Jobs : Queued(j) => \A n : Adds(j, n)' <=> Adds(j, n)
  BY Zenon, <1>5 DEF Adds, Queued, Busy
<1>7. JobAt'
  BY <1>0, <1>1 DEF JobAt
<1>8. QueueInv'
  BY ZenonT(30), <1>1 DEF QueueInv
<1>9. CommitInv'
  <2>1. \A j \in Jobs : Committing(j) => job[j].f \in Families
    BY Zenon, <1>5 DEF Committing, Busy
  <2> QED
    BY ZenonT(60), <1>1, <1>2, <2>1 DEF CommitInv, CommitterInv, BatchInv, OldestInv
<1>10. ImmInv'
  <2>1. \A f \in Families : \A i \in DOMAIN cf[f].imm :
          cf[f].imm[i].file < next_file => cf[f].imm[i].file < next_file'
    BY <1>0
  <2> QED
    BY ZenonT(60), <2>1 DEF ImmInv
<1>11. OwnInv'
  <2>1. \A k \in Jobs : Flushing(k) => /\ job[k].file \notin Live(cf, job)'
                                       /\ \A f \in Families : job[k].file \notin manifest'[f].files
    BY Zenon, <1>3 DEF OwnInv
  <2> QED
    BY Zenon, <1>1, <2>1, OwnStay
<1>12. OrderInv'
  BY ZenonT(60), <1>2 DEF OrderInv
<1>13. TableInv'
  BY <1>0, <1>1, <1>2, <1>3 DEF TableInv
<1>14. PurgeInv'
  BY <1>0, <1>4 DEF PurgeInv
<1>15. ManifestInv'
  <2>1. \A j \in Jobs : job[j].pc = "apply" => job[j].f \in Families
    BY Zenon, <1>5 DEF Busy
  <2> QED
    BY <1>1, <1>6, <2>1 DEF ManifestInv, AddsInv
<1> QED
  BY Zenon, <1>7, <1>8, <1>9, <1>10, <1>11, <1>12, <1>13, <1>14, <1>15

\* A job that is done with the MANIFEST, or never came to it, stops needing its
\* files: a flush or a compaction that failed or is over, and the steps of
\* FindObsoleteFiles, PurgeObsoleteFiles and the end of the job.
LEMMA LeaveF ==
  ASSUME FInv, NEW j \in Jobs, UNCHANGED <<cf, manifest_writers, manifest, next_file>>,
         bg_error => bg_error',
         \A k \in Jobs : k # j => job'[k] = job[k],
         ~Busy(j)', ~Queued(j), ~Committing(j), job'[j].base \subseteq job[j].base,
         DOMAIN tables' \subseteq DOMAIN tables,
         \A n \in DOMAIN tables : n \notin DOMAIN tables' => ~Needed(n),
         \A n \in job'[j].tables : n < next_file /\ ~Needed(n)
  PROVE  /\ JobAt' /\ QueueInv' /\ CommitInv' /\ ImmInv' /\ OwnInv' /\ OrderInv'
         /\ TableInv' /\ PurgeInv' /\ ManifestInv'
<1> USE DEF FInv
<1>1. /\ ~Flushing(j)' /\ ~Queued(j)' /\ ~Committing(j)' /\ job'[j].pc # "apply"
      /\ job'[j].pc # "compact" /\ job[j].pc # "apply"
      /\ job'[j].pc \notin {"manifest", "apply", "applied"}
  BY Zenon DEF Flushing, Queued, Committing, Busy
<1>2. \A k \in Jobs : k # j => /\ Busy(k)' <=> Busy(k)
                               /\ Flushing(k)' <=> Flushing(k)
                               /\ Queued(k)' <=> Queued(k)
                               /\ Committing(k)' <=> Committing(k)
                               /\ \A n : Adds(k, n)' <=> Adds(k, n)
                               /\ \A f, i : Owns(k, f, i)' <=> Owns(k, f, i)
  BY ZenonT(30) DEF Busy, Flushing, Queued, Committing, Owns, Adds
<1>3. \A k \in Jobs : \A f, i : Owns(k, f, i)' => Owns(k, f, i) /\ job'[k] = job[k]
  BY Zenon, <1>1, <1>2 DEF Owns
<1>4. \A f, i : /\ \A n : HasFile(f, i, n)' => HasFile(f, i, n)
                /\ Sound(f, i)' => Sound(f, i)
  BY ZenonT(40), <1>3 DEF HasFile, Sound
<1>5. Live(cf, job)' \subseteq Live(cf, job)
  BY ZenonT(30) DEF Live
<1>6. \A n : Needed(n)' => Needed(n)
  BY Zenon, <1>2, <1>4, <1>5 DEF Needed
<1>7. JobAt'
  BY <1>1, <1>2 DEF JobAt
<1>8. QueueInv'
  <2>1. \A i \in 1 .. Len(manifest_writers) : manifest_writers[i] \in Jobs /\ manifest_writers[i] # j
    BY Zenon, QueueTypes DEF QueueInv
  <2>2. \A k \in Jobs : job'[k].pc = "apply" => job'[k] = job[k]
    BY Zenon, <1>1
  <2>3. \A k \in Jobs : Queued(k)' <=> Queued(k)
    BY Zenon, <1>1, <1>2
  <2> QED
    BY <2>1, <2>2, <2>3 DEF QueueInv
<1>9. CommitInv'
  <2>1. \A k \in Jobs : /\ Committing(k)' <=> Committing(k)
                        /\ Committing(k) => job'[k] = job[k]
    BY Zenon, <1>1, <1>2
  <2> QED
    <3>1. CommitterInv'
      BY ZenonT(30), <2>1 DEF CommitInv, CommitterInv
    <3>3. OldestInv'
      BY Zenon DEF CommitInv, OldestInv
    <3>2. BatchInv'
      <4> SUFFICES ASSUME NEW k \in Jobs, Committing(k)', NEW g, job'[k].f = g
                   PROVE  /\ job'[k].batch # {} /\ job'[k].batch \subseteq DOMAIN cf'[g].imm
                          /\ \A i \in job'[k].batch :
                               /\ cf'[g].imm[i].completed
                               /\ \A q \in DOMAIN cf'[g].imm : q < i => q \in job'[k].batch
                          /\ \A i \in DOMAIN cf'[g].imm : \A n \in Nat :
                               HasFile(g, i, n)' => job'[k].file <= n
        BY Zenon DEF BatchInv
      <4>1. Committing(k) /\ job'[k] = job[k] /\ job[k].f = g /\ cf' = cf
        BY Zenon, <2>1
      <4>2. /\ job[k].batch # {} /\ job[k].batch \subseteq DOMAIN cf[g].imm
            /\ \A i \in job[k].batch :
                 /\ cf[g].imm[i].completed
                 /\ \A q \in DOMAIN cf[g].imm : q < i => q \in job[k].batch
            /\ \A i \in DOMAIN cf[g].imm : \A n \in Nat : HasFile(g, i, n) => job[k].file <= n
        BY Zenon, <4>1 DEF CommitInv, BatchInv
      <4>3. \A i \in DOMAIN cf'[g].imm : \A n \in Nat : HasFile(g, i, n)' => job'[k].file <= n
        BY Zenon, <1>4, <4>1, <4>2
      <4> QED
        BY Zenon, <4>1, <4>2, <4>3
    <3> QED
      BY Zenon, <3>1, <3>2, <3>3 DEF CommitInv
<1>10. ImmInv'
  BY ZenonT(60) DEF ImmInv
<1>11. OwnInv'
  <2>1. \A k \in Jobs : Flushing(k)' => Flushing(k) /\ job'[k] = job[k]
    BY Zenon, <1>1, <1>2
  <2>2. \A k \in Jobs : Flushing(k) => /\ job[k].file \notin Live(cf, job)'
                                       /\ \A f \in Families : job[k].file \notin manifest'[f].files
    BY Zenon, <1>5 DEF OwnInv
  <2>3. \A k \in Jobs : Flushing(k)' =>
          /\ Flushing(k) /\ job'[k].f = job[k].f /\ job'[k].mems = job[k].mems
          /\ job'[k].file = job[k].file
    BY Zenon, <2>1
  <2> QED
    BY Zenon, <2>2, <2>3, OwnStay
<1>12. OrderInv'
  BY ZenonT(60), <1>4 DEF OrderInv
<1>13. TableInv'
  <2>1. \A n \in DOMAIN tables : Needed(n) => n \in DOMAIN tables'
    BY Zenon
  <2>2. \A f \in Families : \A i \in DOMAIN cf[f].imm :
          cf[f].imm[i].edit.file # 0 /\ Sound(f, i) => Needed(cf[f].imm[i].edit.file)
    BY ZenonT(30) DEF Needed, ImmInv
  <2>3. \A k \in Jobs : job'[k].kind = "compaction" /\ Busy(k)' =>
          job[k].kind = "compaction" /\ Busy(k) /\ job'[k] = job[k] /\ Needed(job[k].file)
    BY Zenon, <1>2 DEF Needed
  <2>4. /\ \A n \in Live(cf, job) : Needed(n)
        /\ \A f \in Families : \A n \in manifest[f].files : Needed(n)
    BY Zenon DEF Needed
  <2> QED
    BY ZenonT(30), <1>4, <1>5, <2>1, <2>2, <2>3, <2>4 DEF TableInv
<1>14. PurgeInv'
  BY Zenon, <1>6 DEF PurgeInv
<1>15. ManifestInv'
  <2>1. \A k \in Jobs : /\ job'[k].pc = "apply" <=> job[k].pc = "apply"
                        /\ job'[k].pc = "apply" => job'[k] = job[k]
    BY Zenon, <1>1
  <2>2. \A k \in Jobs : Queued(k) => k # j
    BY Zenon
  <2> QED
    BY ZenonT(60), <1>2, <2>1, <2>2 DEF ManifestInv, AddsInv
<1> QED
  BY Zenon, <1>7, <1>8, <1>9, <1>10, <1>11, <1>12, <1>13, <1>14, <1>15

\* The next steps of the write thread do not touch the memtable lists.
LEMMA WriteF ==
  ASSUME FInv, NEW fs \in SUBSET Families, Write(fs)
  PROVE  FInv'
<1>1. /\ written' = Append(written, [log |-> logfile_number, families |-> fs])
      /\ cf' = [f \in Families |->
           IF f \in fs THEN Insert(cf[f], Len(written) + 1) ELSE cf[f]]
      /\ UNCHANGED <<next_file, logfile_number, alive_log_files, manifest_writers, bg_error,
                     obsolete, writer, job, logs, tables, manifest>>
  BY Zenon DEF Write, disk
<1>2. \A f \in Families :
        /\ cf'[f] \in ColumnFamily
        /\ cf'[f].imm = cf[f].imm /\ cf'[f].files = cf[f].files
        /\ cf'[f].commit_in_progress = cf[f].commit_in_progress
        /\ cf'[f].log_number = cf[f].log_number
        /\ cf'[f].mem.id = cf[f].mem.id
  <2>1. Len(written) + 1 \in Nat
    BY DEF FInv, Types
  <2>2. \A f \in Families : cf[f] \in ColumnFamily
    BY Zenon DEF FInv, Types
  <2> QED
    BY ZenonT(30), <1>1, <2>1, <2>2 DEF Insert, ColumnFamily
<1>3. written' \in Seq([log : Nat, families : SUBSET Families])
  BY <1>1 DEF FInv, Types
<1>4. Types'
  BY Zenon, <1>1, <1>2, <1>3 DEF FInv, Types
<1>5. LogInv'
  BY Zenon, <1>1, <1>2 DEF FInv, LogInv
<1> QED
  <2>1. next_file' \in Nat /\ next_file <= next_file'
    BY <1>1 DEF FInv, Types
  <2> QED
    BY Zenon, <1>1, <1>2, <1>4, <1>5, <2>1, QuietF DEF FInv

\* What the start of SwitchMemtable does to the logs and to the thread
LEMMA BeginSwitchF ==
  ASSUME FInv, NEW why \in Reasons, NEW f \in Families, NEW todo \in SUBSET Families,
         NEW oldest \in Nat, BeginSwitch(why, f, todo, oldest),
         UNCHANGED <<logfile_number, cf, job>>,
         DOMAIN alive_log_files' = DOMAIN alive_log_files
  PROVE  /\ next_file' \in Nat /\ next_file <= next_file'
         /\ logs' \subseteq Nat
         /\ writer' \in Writer /\ writer'.f = f
         /\ LogInv'
<1>1. PICK ok \in BOOLEAN :
        /\ writer' = [pc |-> "switching", why |-> why, f |-> f, todo |-> todo,
                      oldest |-> oldest, new |-> IF log_empty THEN 0 ELSE next_file, ok |-> ok]
        /\ next_file' = IF log_empty THEN next_file ELSE next_file + 1
        /\ logs' = IF log_empty \/ ~ok THEN logs ELSE logs \cup {next_file}
  BY Zenon DEF BeginSwitch
<1>2. next_file \in Nat /\ logfile_number \in Nat /\ logs \subseteq Nat
  BY Zenon DEF FInv, Types
<1>3. LogInv'
  BY <1>1, <1>2 DEF FInv, LogInv
<1>4. (IF log_empty THEN 0 ELSE next_file) \in Nat
  BY Zenon, <1>2
<1>5. writer' \in Writer /\ writer'.f = f
  BY Zenon, <1>1, <1>4 DEF Writer, Reasons
<1>6. next_file' \in Nat /\ next_file <= next_file'
  BY <1>1, <1>2
<1>7. logs' \subseteq Nat
  BY Zenon, <1>1, <1>2
<1> QED
  BY Zenon, <1>3, <1>5, <1>6, <1>7

\* HandleWALFull marks a log and begins to switch the families that need it.
LEMMA HandleWALFullF ==
  ASSUME FInv, HandleWALFull
  PROVE  FInv'
<1>1. UNCHANGED <<logfile_number, written, cf, manifest_writers, bg_error, obsolete, job,
                  tables, manifest>>
  BY Zenon DEF HandleWALFull
<1>2. DOMAIN alive_log_files' = DOMAIN alive_log_files
  BY Zenon DEF HandleWALFull
<1>3. /\ Types' /\ LogInv' /\ next_file' \in Nat /\ next_file <= next_file'
  <2>1. CASE UNCHANGED <<writer, next_file, logs>>
    <3>1. LogInv'
      BY Zenon, <1>1, <1>2, <2>1 DEF FInv, LogInv
    <3>2. Types' /\ next_file' \in Nat /\ next_file <= next_file'
      BY <1>1, <1>2, <2>1 DEF FInv, Types
    <3> QED
      BY Zenon, <3>1, <3>2
  <2>2. CASE \E oldest \in DOMAIN alive_log_files : \E f \in Families :
               BeginSwitch("walfull", f, WALFullRest(Families \ {f}), oldest)
    <3>1. PICK oldest \in DOMAIN alive_log_files, f \in Families :
            BeginSwitch("walfull", f, WALFullRest(Families \ {f}), oldest)
      BY Zenon, <2>2
    <3>2. WALFullRest(Families \ {f}) \in SUBSET Families
      BY Zenon DEF WALFullRest
    <3>3. /\ next_file' \in Nat /\ next_file <= next_file' /\ logs' \subseteq Nat
          /\ writer' \in Writer /\ writer'.f = f /\ LogInv'
      <4>1. "walfull" \in Reasons
        BY Zenon DEF Reasons
      <4>2. oldest \in Nat
        BY Zenon DEF FInv, Types
      <4> QED
        BY Zenon, <1>1, <1>2, <3>1, <3>2, <4>1, <4>2, BeginSwitchF
    <3> QED
      BY Zenon, <1>1, <1>2, <3>3 DEF FInv, Types
  <2> QED
    BY Zenon, <2>1, <2>2 DEF HandleWALFull, NeedOldestLog
<1> QED
  BY Zenon, <1>1, <1>3, QuietF DEF FInv

\* The other reasons to switch the memtable of one family
LEMMA SwitchOneF ==
  ASSUME FInv, NEW f \in Families, SwitchOne(f)
  PROVE  FInv'
<1>1. UNCHANGED <<logfile_number, alive_log_files, written, cf, manifest_writers, bg_error,
                  obsolete, job, tables, manifest>>
  BY Zenon DEF SwitchOne, walstate
<1>2. PICK why \in Reasons : BeginSwitch(why, f, {}, 0)
  BY Zenon DEF SwitchOne, Reasons
<1>3. /\ next_file' \in Nat /\ next_file <= next_file' /\ logs' \subseteq Nat
      /\ writer' \in Writer /\ writer'.f = f /\ LogInv'
  <2>1. 0 \in Nat
    BY SMT
  <2> QED
    BY Zenon, <1>1, <1>2, <2>1, BeginSwitchF
<1>4. Types'
  BY Zenon, <1>1, <1>3 DEF FInv, Types
<1> QED
  BY Zenon, <1>1, <1>3, <1>4, QuietF DEF FInv

\* SwitchMemtable that cannot create the log
LEMMA FailedSwitchF ==
  ASSUME FInv, FailedSwitch
  PROVE  FInv'
<1>1. /\ UNCHANGED <<next_file, logfile_number, alive_log_files, written, manifest_writers,
                     obsolete, job, logs, tables, manifest>>
      /\ writer' = IdleWriter /\ writer.pc = "switching"
      /\ bg_error => bg_error'
  BY Zenon DEF FailedSwitch, walstate, disk
<1>2. cf' = [cf EXCEPT ![writer.f] = IF writer.why = "manual" THEN FlushRequested(cf[writer.f])
                                     ELSE cf[writer.f]]
  BY Zenon DEF FailedSwitch
<1>3. writer.f \in Families /\ cf \in [Families -> ColumnFamily]
  BY Zenon, <1>1 DEF FInv, Types
<1>4. \A f \in Families :
        /\ cf'[f] \in ColumnFamily
        /\ cf'[f].imm = cf[f].imm /\ cf'[f].files = cf[f].files
        /\ cf'[f].commit_in_progress = cf[f].commit_in_progress
        /\ cf'[f].log_number = cf[f].log_number
        /\ cf'[f].mem.id = cf[f].mem.id
  <2>1. \A c \in ColumnFamily :
          /\ FlushRequested(c) \in ColumnFamily /\ FlushRequested(c).imm = c.imm
          /\ FlushRequested(c).files = c.files
          /\ FlushRequested(c).commit_in_progress = c.commit_in_progress
          /\ FlushRequested(c).log_number = c.log_number /\ FlushRequested(c).mem = c.mem
    BY Zenon DEF ColumnFamily, FlushRequested
  <2> QED
    BY <1>2, <1>3, <2>1
<1>5. cf' \in [Families -> ColumnFamily]
  BY Zenon, <1>2, <1>4 DEF FInv, Types
<1>6. writer' \in Writer /\ writer'.pc # "switching"
  BY Zenon, <1>1 DEF IdleWriter, Writer, Reasons
<1>7. Types'
  BY Zenon, <1>1, <1>5, <1>6 DEF FInv, Types
<1>8. LogInv'
  BY Zenon, <1>1, <1>4, <1>6 DEF FInv, LogInv
<1>9. next_file' \in Nat /\ next_file <= next_file'
  BY <1>1 DEF FInv, Types
<1> QED
  BY Zenon, <1>1, <1>4, <1>7, <1>8, <1>9, QuietF DEF FInv

\* A step on the way to the end of a job that changes its record and no file
LEMMA LeaveStep ==
  ASSUME FInv, NEW j \in Jobs, NEW r \in Job, SetJob(j, r),
         UNCHANGED <<cf, manifest_writers, manifest, next_file, written, writer,
                     logfile_number, alive_log_files, logs, tables>>,
         bg_error => bg_error', obsolete' \subseteq obsolete \cup Live(cf, job),
         r.pc \in {"idle", "find"}, r.kind = "compaction" => job[j].kind = "compaction",
         r.base \subseteq job[j].base, r.tables \subseteq job[j].tables,
         r.logs \subseteq job[j].logs, r.edits \subseteq job[j].edits,
         ~Queued(j), ~Committing(j)
  PROVE  FInv'
<1>1. /\ job' \in [Jobs -> Job] /\ job'[j] = r
      /\ \A k \in Jobs : k # j => job'[k] = job[k]
  BY Zenon, SetJobTypes DEF FInv
<1>2. Types'
  BY Zenon, <1>1, ObsoleteTypes DEF FInv, Types
<1>3. next_file' \in Nat /\ next_file <= next_file'
  BY DEF FInv, Types
<1>4. LogInv'
  BY Zenon, <1>1, <1>3, LogF DEF FInv, LogInv
<1>5. ~Busy(j)'
  BY Zenon, <1>1 DEF Busy
<1>6. \A n \in r.tables : n < next_file /\ ~Needed(n)
  BY Zenon DEF FInv, PurgeInv
<1> QED
  BY Zenon, <1>1, <1>2, <1>4, <1>5, <1>6, LeaveF DEF FInv

\* BackgroundCallFlush without a flush
LEMMA NothingToFlushF ==
  ASSUME FInv, NEW j \in Jobs, job[j].pc = "idle", NothingToFlush(j),
         UNCHANGED <<logfile_number, alive_log_files, written, manifest_writers, bg_error,
                     obsolete, writer, logs, tables, manifest>>
  PROVE  FInv'
<1> DEFINE r == [job[j] EXCEPT !.pc = "find", !.kind = "flush", !.ok = ~bg_error]
<1>1. UNCHANGED <<cf, next_file>> /\ SetJob(j, r)
  BY Zenon DEF NothingToFlush
<1>2. job[j] \in Job
  BY Zenon, JobTypes DEF FInv
<1>3. /\ r \in Job /\ r.pc = "find" /\ r.kind = "flush" /\ r.base = job[j].base
      /\ r.tables = job[j].tables /\ r.logs = job[j].logs /\ r.edits = job[j].edits
  BY ZenonT(30), <1>2 DEF Job
<1>4. ~Queued(j) /\ ~Committing(j)
  BY Zenon DEF Queued, Committing
<1> QED
  BY Zenon, <1>1, <1>3, <1>4, LeaveStep

\* SyncClosedLogs failed.
LEMMA SyncFailsF ==
  ASSUME FInv, NEW j \in Jobs, job[j].pc = "sync", bg_error',
         obsolete' \subseteq obsolete \cup Live(cf, job),
         SetJob(j, [job[j] EXCEPT !.pc = "find", !.ok = FALSE, !.base = {}]),
         UNCHANGED <<next_file, logfile_number, alive_log_files, written, cf,
                     manifest_writers, writer, logs, manifest, tables>>
  PROVE  FInv'
<1> DEFINE r == [job[j] EXCEPT !.pc = "find", !.ok = FALSE, !.base = {}]
<1>2. job[j] \in Job
  BY Zenon, JobTypes DEF FInv
<1>3. /\ r \in Job /\ r.pc = "find" /\ r.kind = job[j].kind /\ r.base = {}
      /\ r.tables = job[j].tables /\ r.logs = job[j].logs /\ r.edits = job[j].edits
  BY Zenon, <1>2 DEF Job
<1>4. ~Queued(j) /\ ~Committing(j)
  BY Zenon DEF Queued, Committing
<1> QED
  BY Zenon, <1>3, <1>4, LeaveStep

\* A compaction whose version is installed, or whose commit failed
LEMMA CompactionAppliedF ==
  ASSUME FInv, NEW j \in Jobs, CompactionApplied(j)
  PROVE  FInv'
<1> DEFINE r == [job[j] EXCEPT !.pc = "find", !.base = {}, !.inputs = {}]
<1>1. /\ job[j].pc = "applied" /\ job[j].kind = "compaction" /\ SetJob(j, r)
      /\ UNCHANGED <<next_file, logfile_number, alive_log_files, written, cf,
                     manifest_writers, writer, logs, manifest, tables>>
      /\ bg_error => bg_error'
      /\ obsolete' \subseteq obsolete \cup Live(cf, job)
  BY Zenon DEF CompactionApplied, walstate, disk
<1>2. job[j] \in Job
  BY Zenon, JobTypes DEF FInv
<1>3. /\ r \in Job /\ r.pc = "find" /\ r.kind = job[j].kind /\ r.base = {}
      /\ r.tables = job[j].tables /\ r.logs = job[j].logs /\ r.edits = job[j].edits
  BY Zenon, <1>2 DEF Job
<1>4. ~Queued(j) /\ ~Committing(j)
  BY Zenon, <1>1 DEF Queued, Committing
<1> QED
  BY Zenon, <1>1, <1>3, <1>4, LeaveStep

\* The end of a job
LEMMA EndJobF ==
  ASSUME FInv, NEW j \in Jobs, EndJob(j)
  PROVE  FInv'
<1>1. /\ job[j].pc = "end" /\ SetJob(j, IdleJob)
      /\ UNCHANGED <<next_file, logfile_number, alive_log_files, written, cf, bg_error,
                     obsolete, manifest_writers, writer, logs, manifest, tables>>
  BY Zenon DEF EndJob, walstate, disk
<1>2. /\ IdleJob \in Job /\ IdleJob.pc = "idle" /\ IdleJob.kind = "none"
      /\ IdleJob.base = {} /\ IdleJob.tables = {} /\ IdleJob.logs = {} /\ IdleJob.edits = {}
  BY Zenon DEF IdleJob, Job
<1>3. ~Queued(j) /\ ~Committing(j)
  BY Zenon, <1>1 DEF Queued, Committing
<1> QED
  BY Zenon, <1>1, <1>2, <1>3, LeaveStep

\* A file that a queued writer adds is not older than the writer's own.
LEMMA AddsProtected ==
  ASSUME FInv, NEW k \in Jobs, Queued(k), NEW n \in Nat, Adds(k, n)
  PROVE  Busy(k) /\ job[k].file <= n
<1>1. Busy(k) /\ job[k].f \in Families /\ job[k].file \in Nat
  BY Zenon, JobTypes DEF Queued, Busy, FInv, JobAt
<1>2. CASE job[k].kind = "compaction" /\ n = job[k].file
  BY <1>1, <1>2
<1>3. ASSUME NEW i \in job[k].batch, job[k].kind = "flush", n # 0,
             cf[job[k].f].imm[i].edit.file = n
      PROVE  job[k].file <= n
  <2>1. Committing(k)
    BY Zenon, <1>3 DEF Committing, Queued
  <2>2. i \in DOMAIN cf[job[k].f].imm
    BY Zenon, <2>1 DEF FInv, CommitInv, CommitterInv, BatchInv, OldestInv
  <2>3. HasFile(job[k].f, i, n)
    BY Zenon, <1>1, <1>3, <2>2 DEF HasFile, FInv, ImmInv
  <2> QED
    BY Zenon, <2>1, <2>2, <2>3 DEF FInv, CommitInv, CommitterInv, BatchInv, OldestInv
<1> QED
  BY Zenon, <1>1, <1>2, <1>3 DEF Adds

\* A flushed memtable that can still be committed is protected by a job: the one
\* that commits, or the one that flushes an older memtable.
LEMMA FlushedProtected ==
  ASSUME FInv, NEW f \in Families, NEW i \in DOMAIN cf[f].imm,
         cf[f].imm[i].completed, Sound(f, i)
  PROVE  \E k \in Jobs : Busy(k) /\ job[k].file <= cf[f].imm[i].file
<1>1. cf[f].imm[i].file \in Nat /\ HasFile(f, i, cf[f].imm[i].file)
  BY Zenon, CfTypes DEF HasFile, FInv
<1>2. CASE cf[f].commit_in_progress
  <2>1. PICK k \in Jobs : Committing(k) /\ job[k].f = f
    BY Zenon, <1>2 DEF FInv, CommitInv, CommitterInv, BatchInv, OldestInv
  <2>2. job[k].file <= cf[f].imm[i].file
    <3>1. \A q \in DOMAIN cf[job[k].f].imm : \A n \in Nat :
            HasFile(job[k].f, q, n) => job[k].file <= n
      BY Zenon, <2>1 DEF FInv, CommitInv, BatchInv
    <3> QED
      BY Zenon, <1>1, <2>1, <3>1
  <2> QED
    BY Zenon, <2>1, <2>2 DEF Committing, Busy
<1>3. CASE ~cf[f].commit_in_progress
  <2>1. PICK q \in DOMAIN cf[f].imm : q < i /\ ~cf[f].imm[q].completed
    BY Zenon, <1>3 DEF FInv, CommitInv, CommitterInv, BatchInv, OldestInv
  <2>2. PICK k \in Jobs : Owns(k, f, q)
    BY Zenon, <2>1 DEF Sound
  <2>3. job[k].file \in Nat /\ HasFile(f, q, job[k].file)
    BY Zenon, <2>2, JobTypes DEF HasFile, FInv
  <2>4. job[k].file <= cf[f].imm[i].file
    BY Zenon, <1>1, <2>1, <2>3 DEF FInv, OrderInv
  <2> QED
    BY Zenon, <2>2, <2>4 DEF Owns, Flushing, Busy
<1> QED
  BY Zenon, <1>2, <1>3

\* What FindObsoleteFiles may take, nobody needs: the pending outputs of the other
\* jobs are the limit.
LEMMA TakenUnneeded ==
  ASSUME FInv, NEW j \in Jobs, job[j].pc = "find", NEW n \in Nat,
         n \notin Live(cf, job), BelowPendingOutputs(j, n)
  PROVE  ~Needed(n)
<1>1. \A k \in Jobs : Busy(k) => n < job[k].file
  <2>1. ~Busy(j)
    BY Zenon DEF Busy
  <2>2. \A k \in Jobs : Busy(k) => job[k].pending = job[k].file /\ 0 < job[k].file
                                   /\ job[k].file \in Nat
    BY Zenon, JobTypes DEF FInv, JobAt
  <2> QED
    BY <2>1, <2>2 DEF BelowPendingOutputs
<1>2. \A k \in Jobs : Busy(k) => job[k].file \in Nat /\ ~(job[k].file <= n)
  BY <1>1, JobTypes DEF FInv
<1>3. \A f \in Families : n \notin cf[f].files
  BY Zenon DEF Live
<1>4. \A f \in Families : n \notin manifest[f].files
  <2> SUFFICES ASSUME NEW f \in Families, n \in manifest[f].files
               PROVE  FALSE
    BY Zenon
  <2>1. PICK k \in Jobs : job[k].pc = "apply" /\ job[k].ok /\ job[k].f = f
    BY Zenon, <1>3 DEF FInv, ManifestInv, AddsInv
  <2>2. n \in EditedFiles(cf[f].files, job[k].edits)
    BY Zenon, <2>1 DEF FInv, ManifestInv, AddsInv
  <2>3. PICK e \in job[k].edits : n \in e.add
    BY Zenon, <1>3, <2>2 DEF EditedFiles
  <2>4. PICK p \in Jobs : Queued(p) /\ Adds(p, n)
    BY Zenon, <2>1, <2>3 DEF FInv, ManifestInv, AddsInv
  <2> QED
    BY Zenon, <1>2, <2>4, AddsProtected
<1>5. \A f \in Families : \A i \in DOMAIN cf[f].imm :
        cf[f].imm[i].completed /\ Sound(f, i) => cf[f].imm[i].file # n
  BY Zenon, <1>2, FlushedProtected
<1> QED
  BY <1>2, <1>4, <1>5 DEF Needed

\* FindObsoleteFiles: what it takes is not needed, and no longer will be.
LEMMA FindObsoleteFilesF ==
  ASSUME FInv, NEW j \in Jobs, FindObsoleteFiles(j)
  PROVE  FInv'
<1> DEFINE R(ts, ls) == [job[j] EXCEPT !.pc = "purge", !.pending = 0, !.tables = ts, !.logs = ls]
           keep == {l \in DOMAIN alive_log_files : ~BelowMinLogNumber(l)}
<1>1. /\ job[j].pc = "find" /\ obsolete' \subseteq obsolete
      /\ alive_log_files' = [n \in keep |-> alive_log_files[n]]
      /\ UNCHANGED <<next_file, logfile_number, written, cf, manifest_writers, bg_error,
                     writer, logs, tables, manifest>>
  BY Zenon DEF FindObsoleteFiles, disk
<1>0. PICK full \in BOOLEAN :
        SetJob(j, R({n \in {n \in obsolete : BelowPendingOutputs(j, n)}
                            \cup (IF full THEN DOMAIN tables ELSE {}) :
                      n \notin Live(cf, job) /\ BelowPendingOutputs(j, n)},
                    {n \in DOMAIN alive_log_files \cup (IF full THEN logs ELSE {}) :
                      BelowMinLogNumber(n)}))
  BY Zenon DEF FindObsoleteFiles
<1> DEFINE ts == {n \in {n \in obsolete : BelowPendingOutputs(j, n)}
                         \cup (IF full THEN DOMAIN tables ELSE {}) :
                   n \notin Live(cf, job) /\ BelowPendingOutputs(j, n)}
           ls == {n \in DOMAIN alive_log_files \cup (IF full THEN logs ELSE {}) :
                   BelowMinLogNumber(n)}
<1>2. /\ SetJob(j, R(ts, ls))
      /\ \A n \in ts : /\ n \in obsolete \/ n \in DOMAIN tables
                       /\ n \notin Live(cf, job) /\ BelowPendingOutputs(j, n)
      /\ \A n \in ls : /\ n \in DOMAIN alive_log_files \/ n \in logs
                       /\ BelowMinLogNumber(n)
  BY Zenon, <1>0
<1> HIDE DEF ts, ls
<1>3. ts \subseteq Nat /\ ls \subseteq Nat
  BY Zenon, <1>2 DEF FInv, Types, TableInv
<1>4. job[j] \in Job
  BY Zenon, JobTypes DEF FInv
<1>5. /\ R(ts, ls) \in Job /\ R(ts, ls).pc = "purge" /\ R(ts, ls).base = job[j].base
      /\ R(ts, ls).tables = ts /\ R(ts, ls).logs = ls /\ R(ts, ls).edits = job[j].edits
  BY Zenon, <1>3, <1>4 DEF Job
<1>6. /\ job' \in [Jobs -> Job] /\ job'[j] = R(ts, ls)
      /\ \A k \in Jobs : k # j => job'[k] = job[k]
  BY Zenon, <1>2, <1>5, SetJobTypes DEF FInv
<1> HIDE DEF R
<1>7. Types'
  BY Zenon, <1>1, <1>6 DEF FInv, Types
<1>8. LogInv'
  <2>1. PICK f \in Families : TRUE
    BY Zenon, FamiliesAssumption
  <2>2. \A l \in ls : l < cf[f].log_number
    BY Zenon, <1>2 DEF BelowMinLogNumber
  <2>3. \A l \in ls : \A n \in keep : l < n
    <3>1. SUFFICES ASSUME NEW l \in ls, NEW n \in keep
                   PROVE  l < n
      BY Zenon
    <3>2. PICK g \in Families : ~(n < cf[g].log_number)
      BY Zenon DEF BelowMinLogNumber
    <3>3. l < cf[g].log_number
      BY Zenon, <1>2 DEF BelowMinLogNumber
    <3>4. l \in Nat /\ n \in Nat /\ cf[g].log_number \in Nat
      BY Zenon, <1>3, CfTypes DEF FInv, Types, ColumnFamily
    <3> QED
      BY <3>2, <3>3, <3>4
  <2>4. \A l \in ls : l < logfile_number
    <3>1. cf[f].log_number \in Nat /\ logfile_number \in Nat
      BY Zenon, CfTypes DEF FInv, Types, ColumnFamily
    <3>2. cf[f].log_number <= logfile_number
      BY Zenon DEF FInv, LogInv
    <3>3. ASSUME NEW l \in ls
          PROVE  l < logfile_number
      <4>1. l \in Nat /\ l < cf[f].log_number
        BY Zenon, <1>3, <2>2
      <4> QED
        BY <3>1, <3>2, <4>1
    <3> QED
      BY Zenon, <3>3
  <2>5. \A k \in Jobs : \A l \in job'[k].logs :
          l < logfile_number /\ \A n \in keep : l < n
    BY Zenon, <1>5, <1>6, <2>3, <2>4 DEF FInv, LogInv
  <2>6. \A k \in Jobs : job'[k].edits = job[k].edits
    BY Zenon, <1>5, <1>6
  <2> QED
    BY Zenon, <1>1, <2>5, <2>6 DEF FInv, LogInv
<1>9. /\ ~Busy(j)' /\ ~Queued(j) /\ ~Committing(j) /\ job'[j].base \subseteq job[j].base
  BY Zenon, <1>1, <1>5, <1>6 DEF Busy, Queued, Committing
<1>10. \A n \in job'[j].tables : n < next_file /\ ~Needed(n)
  <2>1. \A n \in ts : n < next_file /\ ~Needed(n)
    BY Zenon, <1>1, <1>2, <1>3, TakenUnneeded DEF BelowPendingOutputs
  <2> QED
    BY Zenon, <1>5, <1>6, <2>1
<1> QED
  BY Zenon, <1>1, <1>6, <1>7, <1>8, <1>9, <1>10, LeaveF DEF FInv

\* PurgeObsoleteFiles deletes what is in its lists only.
LEMMA PurgeObsoleteFilesF ==
  ASSUME FInv, NEW j \in Jobs, PurgeObsoleteFiles(j)
  PROVE  FInv'
<1> DEFINE r == [job[j] EXCEPT !.pc = "end", !.tables = {}, !.logs = {}]
<1>1. /\ job[j].pc = "purge" /\ SetJob(j, r)
      /\ tables' = [n \in DOMAIN tables \ job[j].tables |-> tables[n]]
      /\ logs' = logs \ job[j].logs
      /\ UNCHANGED <<next_file, logfile_number, alive_log_files, written, cf, bg_error,
                     obsolete, manifest_writers, writer, manifest>>
  BY Zenon DEF PurgeObsoleteFiles, walstate
<1>2. job[j] \in Job
  BY Zenon, JobTypes DEF FInv
<1>3. /\ r \in Job /\ r.pc = "end" /\ r.base = job[j].base
      /\ r.tables = {} /\ r.logs = {} /\ r.edits = job[j].edits
  BY Zenon, <1>2 DEF Job
<1>4. /\ job' \in [Jobs -> Job] /\ job'[j] = r
      /\ \A k \in Jobs : k # j => job'[k] = job[k]
  BY Zenon, <1>1, <1>3, SetJobTypes DEF FInv
<1> HIDE DEF r
<1>5. Types'
  BY Zenon, <1>1, <1>4 DEF FInv, Types
<1>6. LogInv'
  <2>1. \A l \in job[j].logs : l \in Nat /\ l < logfile_number /\ l \notin DOMAIN alive_log_files
    <3>1. job[j].logs \subseteq Nat
      BY Zenon, JobTypes DEF FInv
    <3> QED
      BY <3>1 DEF FInv, LogInv
  <2>2. logfile_number < writer.new => writer.new \notin job[j].logs
    BY <2>1 DEF FInv, Types, Writer
  <2>3. \A k \in Jobs : job'[k].logs \subseteq job[k].logs /\ job'[k].edits = job[k].edits
    BY Zenon, <1>3, <1>4
  <2> QED
    BY Zenon, <1>1, <2>1, <2>2, <2>3 DEF FInv, LogInv
<1>7. /\ ~Busy(j)' /\ ~Queued(j) /\ ~Committing(j) /\ job'[j].base \subseteq job[j].base
  BY Zenon, <1>1, <1>3, <1>4 DEF Busy, Queued, Committing
<1>8. \A n \in DOMAIN tables : n \notin DOMAIN tables' => ~Needed(n)
  BY Zenon, <1>1 DEF FInv, PurgeInv
<1> QED
  BY Zenon, <1>1, <1>3, <1>4, <1>5, <1>6, <1>7, <1>8, LeaveF DEF FInv

\* SyncClosedLogs and the writing of the table succeed.
LEMMA SyncedF ==
  ASSUME FInv, NEW j \in Jobs, job[j].pc = "sync",
         SetJob(j, [job[j] EXCEPT !.pc = "build"]),
         tables' = IF Data(j) = {} THEN tables
                   ELSE [n \in DOMAIN tables \cup {job[j].file} |->
                           IF n = job[j].file THEN Data(j) ELSE tables[n]],
         UNCHANGED <<next_file, logfile_number, alive_log_files, written, cf, bg_error,
                     obsolete, manifest_writers, writer, logs, manifest>>
  PROVE  FInv'
<1> DEFINE r == [job[j] EXCEPT !.pc = "build"]
<1>1. job[j] \in Job /\ next_file \in Nat
  BY Zenon, JobTypes DEF FInv, Types
<1>2. /\ r \in Job /\ r.pc = "build" /\ r.kind = job[j].kind /\ r.f = job[j].f
      /\ r.mems = job[j].mems /\ r.base = job[j].base /\ r.file = job[j].file
      /\ r.pending = job[j].pending /\ r.batch = job[j].batch /\ r.tables = job[j].tables
      /\ r.logs = job[j].logs /\ r.edits = job[j].edits
  BY Zenon, <1>1 DEF Job
<1>3. /\ job' \in [Jobs -> Job] /\ job'[j] = r
      /\ \A k \in Jobs : k # j => job'[k] = job[k]
  BY Zenon, <1>2, SetJobTypes DEF FInv
<1> HIDE DEF r
<1>4. /\ Busy(j) /\ Busy(j)' /\ Flushing(j) /\ Flushing(j)' /\ ~Queued(j) /\ ~Queued(j)'
      /\ ~Committing(j) /\ ~Committing(j)'
  BY Zenon, <1>2, <1>3 DEF Busy, Flushing, Queued, Committing
<1>5. /\ CommitInv' /\ ImmInv' /\ OrderInv'
      /\ \A k \in Jobs : k # j => /\ Busy(k)' <=> Busy(k)
                                  /\ Flushing(k)' <=> Flushing(k)
                                  /\ Queued(k)' <=> Queued(k)
                                  /\ \A n : Adds(k, n)' <=> Adds(k, n)
      /\ \A f, i : Sound(f, i)' <=> Sound(f, i)
  <2>1. next_file' \in Nat /\ next_file <= next_file'
    BY DEF FInv, Types
  <2> QED
    BY Zenon, <1>2, <1>3, <1>4, <2>1, StayF
<1>6. \A k \in Jobs :
        /\ Busy(k)' <=> Busy(k)
        /\ Flushing(k)' <=> Flushing(k)
        /\ Queued(k)' <=> Queued(k)
        /\ job'[k].pc = "apply" <=> job[k].pc = "apply"
        /\ job'[k].pc = "apply" => job'[k] = job[k]
        /\ job'[k].kind = job[k].kind /\ job'[k].f = job[k].f /\ job'[k].mems = job[k].mems
        /\ job'[k].file = job[k].file /\ job'[k].pending = job[k].pending
        /\ job'[k].base = job[k].base /\ job'[k].tables = job[k].tables
  BY ZenonT(30), <1>2, <1>3, <1>4, <1>5
<1>7. Live(cf, job)' = Live(cf, job)
  BY Zenon, <1>6, LiveStay
<1>8. \A n : Needed(n)' <=> Needed(n)
  BY ZenonT(30), <1>5, <1>6, <1>7 DEF Needed
<1>9. DOMAIN tables \subseteq DOMAIN tables' /\ DOMAIN tables' \subseteq DOMAIN tables \cup {job[j].file}
  BY Zenon
<1>10. Types'
  BY Zenon, <1>3 DEF FInv, Types
<1>11. JobAt'
  <2>1. \A k \in Jobs : job'[k].pc # job[k].pc => job'[k].pc = "build"
    BY Zenon, <1>2, <1>3
  <2> QED
    BY Zenon, <1>6, <2>1, JobAtStay
<1>12. QueueInv'
  BY Zenon, <1>3, <1>4, QueueStay
<1>13. OwnInv'
  BY Zenon, <1>6, <1>7, OwnStay DEF FInv, OwnInv
<1>14. TableInv'
  <2>1. job[j].file \in Nat /\ job[j].file < next_file
    BY Zenon, <1>4, JobTypes DEF FInv, JobAt
  <2> QED
    BY ZenonT(30), <1>5, <1>6, <1>7, <1>9, <2>1 DEF FInv, TableInv
<1>15. PurgeInv'
  BY Zenon, <1>6, <1>8 DEF FInv, PurgeInv
<1>16. ManifestInv'
  <2>1. AddsInv'
    <3>1. \A k \in Jobs : Queued(k) => k # j
      BY Zenon, <1>4
    <3> QED
      BY ZenonT(60), <1>5, <1>6, <3>1 DEF FInv, ManifestInv, AddsInv
  <2> QED
    BY Zenon, <1>6, <2>1, ManifestStay
<1>17. LogInv'
  BY ZenonT(30), <1>1, <1>2, <1>3, LogF DEF FInv, LogInv
<1> QED
  BY Zenon, <1>5, <1>10, <1>11, <1>12, <1>13, <1>14, <1>15, <1>16, <1>17 DEF FInv

\* BackgroundCallCompaction: the output is a new file among the pending outputs.
LEMMA BackgroundCallCompactionF ==
  ASSUME FInv, NEW j \in Jobs, BackgroundCallCompaction(j)
  PROVE  FInv'
<1> DEFINE In(f) == cf[f].files \ UNION {job[k].inputs : k \in Jobs}
           R(f) == [job[j] EXCEPT !.pc = "compact", !.kind = "compaction", !.f = f,
                     !.inputs = In(f), !.base = cf[f].files, !.file = next_file,
                     !.pending = next_file, !.ok = TRUE]
<1>1. /\ job[j].pc = "idle" /\ next_file' = next_file + 1
      /\ UNCHANGED <<logfile_number, alive_log_files, written, cf, bg_error, obsolete,
                     manifest_writers, writer, logs, manifest>>
  BY Zenon DEF BackgroundCallCompaction, walstate
<1>2. PICK f \in Families :
        /\ SetJob(j, R(f))
        /\ tables' = [n \in DOMAIN tables \cup {next_file} |->
                        IF n = next_file THEN UNION {tables[i] : i \in In(f)} ELSE tables[n]]
  BY Zenon DEF BackgroundCallCompaction
<1>3. job[j] \in Job /\ next_file \in Nat /\ cf[f].files \subseteq Nat
  BY Zenon, JobTypes, CfTypes DEF FInv, Types, ColumnFamily
<1>4. /\ R(f) \in Job /\ R(f).pc = "compact" /\ R(f).kind = "compaction" /\ R(f).f = f
      /\ R(f).base = cf[f].files /\ R(f).file = next_file /\ R(f).pending = next_file
      /\ R(f).tables = job[j].tables /\ R(f).logs = job[j].logs /\ R(f).edits = job[j].edits
  BY Zenon, <1>3 DEF Job
<1>5. /\ job' \in [Jobs -> Job] /\ job'[j] = R(f)
      /\ \A k \in Jobs : k # j => job'[k] = job[k]
  BY Zenon, <1>2, <1>4, SetJobTypes DEF FInv
<1> HIDE DEF R
<1>6. /\ ~Busy(j) /\ Busy(j)' /\ ~Flushing(j) /\ ~Flushing(j)' /\ ~Queued(j) /\ ~Queued(j)'
      /\ ~Committing(j) /\ ~Committing(j)'
  BY Zenon, <1>1, <1>4, <1>5 DEF Busy, Flushing, Queued, Committing
<1>7. /\ CommitInv' /\ ImmInv' /\ OrderInv'
      /\ \A k \in Jobs : k # j => /\ Busy(k)' <=> Busy(k)
                                  /\ Flushing(k)' <=> Flushing(k)
                                  /\ Queued(k)' <=> Queued(k)
                                  /\ \A n : Adds(k, n)' <=> Adds(k, n)
      /\ \A g, i : Sound(g, i)' <=> Sound(g, i)
  <2>1. next_file' \in Nat /\ next_file <= next_file'
    BY <1>1, <1>3
  <2> QED
    BY Zenon, <1>1, <1>5, <1>6, <2>1, StayF
<1>8. \A k \in Jobs : /\ Flushing(k)' <=> Flushing(k)
                      /\ Queued(k)' <=> Queued(k)
                      /\ Flushing(k) => job'[k] = job[k]
                      /\ job'[k].pc = "apply" <=> job[k].pc = "apply"
                      /\ job'[k].pc = "apply" => job'[k] = job[k]
                      /\ Queued(k) => k # j
                      /\ job'[k].tables = job[k].tables
  BY Zenon, <1>1, <1>4, <1>5, <1>6, <1>7
<1>9. Live(cf, job)' \subseteq Live(cf, job)
  <2>1. \A k \in Jobs : job'[k].base \subseteq job[k].base \/ job'[k].base = cf[f].files
    BY Zenon, <1>4, <1>5
  <2> QED
    BY Zenon, <1>1, <2>1, LiveIs
<1>10. \A n : Needed(n)' => Needed(n) \/ n = next_file
  BY Zenon, <1>1, <1>4, <1>5, <1>6, <1>7, <1>9 DEF Needed
<1>11. Types'
  BY <1>1, <1>3, <1>5 DEF FInv, Types
<1>12. JobAt'
  BY Zenon, <1>1, <1>4, <1>5, JobAtNew
<1>13. QueueInv'
  BY Zenon, <1>1, <1>5, <1>6, QueueStay
<1>14. OwnInv'
  BY Zenon, <1>1, <1>8, <1>9, OwnStay DEF FInv, OwnInv
<1>15. TableInv'
  <2>1. DOMAIN tables' = DOMAIN tables \cup {next_file}
    BY Zenon, <1>2
  <2>2. \A k \in Jobs : job'[k].kind = "compaction" /\ Busy(k)' => job'[k].file \in DOMAIN tables'
    BY Zenon, <1>4, <1>5, <1>7, <2>1 DEF FInv, TableInv
  <2> QED
    <3>1. \A m \in DOMAIN tables' : m \in Nat /\ m < next_file'
      BY <1>1, <1>3, <2>1 DEF FInv, TableInv
    <3>2. DOMAIN tables \subseteq DOMAIN tables'
      BY Zenon, <2>1
    <3>3. Live(cf, job)' \subseteq DOMAIN tables'
      BY Zenon, <1>9, <3>2 DEF FInv, TableInv
    <3>4. \A g \in Families : manifest'[g].files \subseteq DOMAIN tables'
      BY Zenon, <1>1, <3>2 DEF FInv, TableInv
    <3>5. \A g \in Families : \A i \in DOMAIN cf'[g].imm :
            cf'[g].imm[i].edit.file # 0 /\ Sound(g, i)' => cf'[g].imm[i].edit.file \in DOMAIN tables'
      BY Zenon, <1>1, <1>7, <3>2 DEF FInv, TableInv
    <3> QED
      BY Zenon, <2>2, <3>1, <3>3, <3>4, <3>5 DEF TableInv
<1>16. PurgeInv'
  <2>1. \A k \in Jobs : job[k].tables \subseteq Nat
    BY Zenon, JobTypes DEF FInv
  <2> QED
    <3> SUFFICES ASSUME NEW k \in Jobs, NEW n \in job'[k].tables
                 PROVE  n < next_file' /\ ~Needed(n)'
      BY Zenon DEF PurgeInv
    <3>1. n \in job[k].tables /\ n < next_file /\ ~Needed(n)
      BY Zenon, <1>8 DEF FInv, PurgeInv
    <3>2. n \in Nat
      BY Zenon, <2>1, <3>1
    <3>3. n < next_file' /\ n # next_file
      BY <1>1, <1>3, <3>1, <3>2
    <3> QED
      BY Zenon, <1>10, <3>1, <3>3
<1>17. ManifestInv'
  <2>1. AddsInv'
    BY ZenonT(60), <1>7, <1>8 DEF FInv, ManifestInv, AddsInv
  <2> QED
    BY Zenon, <1>1, <1>8, <2>1, ManifestStay
<1>18. LogInv'
  <2>1. next_file' \in Nat /\ next_file <= next_file'
    BY <1>1, <1>3
  <2>2. /\ job'[j].logs \subseteq job[j].logs
        /\ \A e \in job'[j].edits : e.log <= logfile_number
    BY Zenon, <1>4, <1>5 DEF FInv, LogInv
  <2>3. \A g \in Families :
          /\ cf'[g].log_number <= logfile_number
          /\ \A i \in DOMAIN cf'[g].imm : /\ cf'[g].imm[i].next_log <= logfile_number
                                          /\ cf'[g].imm[i].edit.log <= logfile_number
    BY Zenon, <1>1 DEF FInv, LogInv
  <2> QED
    BY Zenon, <1>1, <1>5, <2>1, <2>2, <2>3, LogF
<1> QED
  BY Zenon, <1>7, <1>11, <1>12, <1>13, <1>14, <1>15, <1>16, <1>17, <1>18 DEF FInv

\* A compaction that queues for the MANIFEST
LEMMA CompactedF ==
  ASSUME FInv, NEW j \in Jobs, job[j].pc = "compact",
         SetJob(j, [job[j] EXCEPT !.pc = "manifest"]),
         manifest_writers' = Append(manifest_writers, j),
         UNCHANGED <<next_file, logfile_number, alive_log_files, written, cf, bg_error,
                     obsolete, writer, logs, tables, manifest>>
  PROVE  FInv'
<1> DEFINE r == [job[j] EXCEPT !.pc = "manifest"]
<1>1. job[j] \in Job /\ next_file \in Nat /\ job[j].kind = "compaction"
  BY ZenonT(30), JobTypes DEF FInv, Types, JobAt
<1>2. /\ r \in Job /\ r.pc = "manifest" /\ r.kind = "compaction" /\ r.f = job[j].f
      /\ r.base = job[j].base /\ r.file = job[j].file
      /\ r.pending = job[j].pending /\ r.tables = job[j].tables
      /\ r.logs = job[j].logs /\ r.edits = job[j].edits
  BY Zenon, <1>1 DEF Job
<1>3. /\ job' \in [Jobs -> Job] /\ job'[j] = r
      /\ \A k \in Jobs : k # j => job'[k] = job[k]
  BY Zenon, <1>2, SetJobTypes DEF FInv
<1> HIDE DEF r
<1>4. /\ Busy(j) /\ Busy(j)' /\ ~Flushing(j) /\ ~Flushing(j)' /\ ~Queued(j) /\ Queued(j)'
      /\ ~Committing(j) /\ ~Committing(j)'
  BY Zenon, <1>1, <1>2, <1>3 DEF Busy, Flushing, Queued, Committing
<1>5. /\ CommitInv' /\ ImmInv' /\ OrderInv'
      /\ \A k \in Jobs : k # j => /\ Busy(k)' <=> Busy(k)
                                  /\ Flushing(k)' <=> Flushing(k)
                                  /\ Queued(k)' <=> Queued(k)
                                  /\ \A n : Adds(k, n)' <=> Adds(k, n)
      /\ \A f, i : Sound(f, i)' <=> Sound(f, i)
  <2>1. next_file' \in Nat /\ next_file <= next_file'
    BY DEF FInv, Types
  <2> QED
    BY Zenon, <1>2, <1>3, <1>4, <2>1, StayF
<1>6. \A k \in Jobs :
        /\ Busy(k)' <=> Busy(k)
        /\ Flushing(k)' <=> Flushing(k)
        /\ job'[k].pc = "apply" <=> job[k].pc = "apply"
        /\ job'[k].pc = "apply" => job'[k] = job[k]
        /\ job'[k].kind = job[k].kind /\ job'[k].f = job[k].f
        /\ Flushing(k) => job'[k] = job[k]
        /\ job'[k].file = job[k].file /\ job'[k].pending = job[k].pending
        /\ job'[k].base = job[k].base /\ job'[k].tables = job[k].tables
  BY ZenonT(30), <1>1, <1>2, <1>3, <1>4, <1>5
<1>7. Live(cf, job)' = Live(cf, job)
  BY Zenon, <1>6, LiveStay
<1>8. \A n : Needed(n)' <=> Needed(n)
  BY Zenon, <1>5, <1>6, <1>7 DEF Needed
<1>9. Types'
  BY <1>3 DEF FInv, Types
<1>10. JobAt'
  BY <1>1, <1>2, <1>3, <1>4, <1>6 DEF FInv, JobAt
<1>11. QueueInv'
  <2>1. /\ Len(manifest_writers) \in Nat
        /\ \A i \in 1 .. Len(manifest_writers) : manifest_writers[i] \in Jobs /\ manifest_writers[i] # j
    BY ZenonT(30), <1>4, QueueTypes DEF FInv, QueueInv
  <2>2. /\ Len(manifest_writers') = Len(manifest_writers) + 1
        /\ manifest_writers'[Len(manifest_writers) + 1] = j
        /\ \A i \in 1 .. Len(manifest_writers) : manifest_writers'[i] = manifest_writers[i]
    BY DEF FInv, Types
  <2> QED
    BY <1>4, <1>5, <1>6, <2>1, <2>2 DEF FInv, QueueInv
<1>12. OwnInv'
  BY Zenon, <1>6, <1>7, OwnStay DEF FInv, OwnInv
<1>13. TableInv'
  BY ZenonT(30), <1>5, <1>6, <1>7 DEF FInv, TableInv
<1>14. PurgeInv'
  BY Zenon, <1>6, <1>8 DEF FInv, PurgeInv
<1>15. ManifestInv'
  <2>1. AddsInv'
    <3>1. \A k \in Jobs : Queued(k) => k # j
      BY Zenon, <1>4
    <3> QED
      BY ZenonT(60), <1>5, <1>6, <3>1 DEF FInv, ManifestInv, AddsInv
  <2> QED
    BY Zenon, <1>6, <2>1, ManifestStay
<1>16. LogInv'
  BY ZenonT(30), <1>1, <1>2, <1>3, LogF DEF FInv, LogInv
<1> QED
  BY ZenonT(30), <1>5, <1>9, <1>10, <1>11, <1>12, <1>13, <1>14, <1>15, <1>16 DEF FInv

\* A compaction succeeds and queues for the MANIFEST, or it fails.
LEMMA RunCompactionF ==
  ASSUME FInv, NEW j \in Jobs, RunCompaction(j)
  PROVE  FInv'
<1> DEFINE r == [job[j] EXCEPT !.pc = "find", !.ok = FALSE, !.base = {}, !.inputs = {}]
<1>1. /\ job[j].pc = "compact"
      /\ UNCHANGED <<next_file, logfile_number, alive_log_files, written, cf, writer, logs,
                     tables, manifest>>
  BY Zenon DEF RunCompaction, walstate, disk
<1>2. CASE /\ SetJob(j, [job[j] EXCEPT !.pc = "manifest"])
           /\ manifest_writers' = Append(manifest_writers, j)
           /\ UNCHANGED <<bg_error, obsolete>>
  BY Zenon, <1>1, <1>2, CompactedF
<1>3. CASE /\ SetJob(j, r) /\ bg_error' = (bg_error \/ paranoid_checks)
           /\ obsolete' = obsolete \cup (Live(cf, job) \ Live(cf, job'))
           /\ UNCHANGED manifest_writers
  <2>1. job[j] \in Job
    BY Zenon, JobTypes DEF FInv
  <2>2. /\ r \in Job /\ r.pc = "find" /\ r.kind = job[j].kind /\ r.base = {}
        /\ r.tables = job[j].tables /\ r.logs = job[j].logs /\ r.edits = job[j].edits
    BY Zenon, <2>1 DEF Job
  <2>3. ~Queued(j) /\ ~Committing(j)
    BY Zenon, <1>1 DEF Queued, Committing
  <2>4. (bg_error => bg_error') /\ obsolete' \subseteq obsolete \cup Live(cf, job)
    BY Zenon, <1>3
  <2> QED
    BY Zenon, <1>1, <1>3, <2>2, <2>3, <2>4, LeaveStep
<1> QED
  BY Zenon, <1>2, <1>3 DEF RunCompaction

\* What a queued writer adds is needed, exists, and is no job's that still flushes.
LEMMA AddsNeeded ==
  ASSUME FInv, NEW k \in Jobs, Queued(k), NEW n, Adds(k, n)
  PROVE  /\ Needed(n) /\ n \in DOMAIN tables
         /\ \A q \in Jobs : Flushing(q) => job[q].file # n
<1>1. Busy(k) /\ \A q \in Jobs : Flushing(q) => Busy(q) /\ q # k
  BY Zenon DEF Queued, Busy, Flushing
<1>2. CASE job[k].kind = "compaction" /\ n = job[k].file
  BY Zenon, <1>1, <1>2 DEF Needed, FInv, TableInv, JobAt
<1>3. ASSUME NEW i \in job[k].batch, job[k].kind = "flush", n # 0,
             cf[job[k].f].imm[i].edit.file = n
      PROVE  /\ Needed(n) /\ n \in DOMAIN tables
             /\ \A q \in Jobs : Flushing(q) => job[q].file # n
  <2>1. Committing(k)
    BY Zenon, <1>3 DEF Committing, Queued
  <2>2. /\ job[k].f \in Families /\ i \in DOMAIN cf[job[k].f].imm
        /\ cf[job[k].f].imm[i].completed /\ Sound(job[k].f, i)
    BY Zenon, <2>1, BatchSound
  <2>3. cf[job[k].f].imm[i].file = n
    BY Zenon, <1>3, <2>2 DEF FInv, ImmInv
  <2>4. Needed(n)
    BY Zenon, <2>2, <2>3 DEF Needed
  <2>5. n \in DOMAIN tables
    BY Zenon, <1>3, <2>2 DEF FInv, TableInv
  <2> QED
    BY Zenon, <2>2, <2>3, <2>4, <2>5 DEF FInv, OwnInv
<1> QED
  BY Zenon, <1>2, <1>3 DEF Adds

\* The edits of a queued writer
LEMMA EditsAre ==
  ASSUME FInv, NEW k \in Jobs, Queued(k), NEW e \in Edits(k)
  PROVE  /\ e \in Edit /\ e.log <= logfile_number
         /\ \A n \in e.add : Adds(k, n)
<1>0. logfile_number \in Nat /\ job[k] \in Job
  BY Zenon, JobTypes DEF FInv, Types
<1>1. CASE job[k].kind = "compaction"
  <2>1. e = [log |-> 0, add |-> {job[k].file}, delete |-> job[k].inputs]
    BY Zenon, <1>1 DEF Edits
  <2> QED
    BY <1>0, <1>1, <2>1 DEF Edit, Adds, Job
<1>2. CASE job[k].kind # "compaction"
  <2>1. job[k].kind = "flush" /\ Committing(k)
    BY Zenon, <1>2 DEF FInv, JobAt, Queued, Committing
  <2>2. PICK i \in job[k].batch :
          e = [log |-> cf[job[k].f].imm[i].edit.log,
               add |-> {cf[job[k].f].imm[i].edit.file} \ {0}, delete |-> {}]
    BY Zenon, <1>2 DEF Edits
  <2>3. job[k].f \in Families /\ i \in DOMAIN cf[job[k].f].imm
    BY Zenon, <2>1, BatchSound
  <2>4. cf[job[k].f].imm[i] \in MemTable
    BY Zenon, <2>3, CfTypes DEF FInv
  <2>5. /\ cf[job[k].f].imm[i].edit.log \in Nat /\ cf[job[k].f].imm[i].edit.file \in Nat
        /\ cf[job[k].f].imm[i].edit.log <= logfile_number
    BY Zenon, <2>3, <2>4 DEF MemTable, FInv, LogInv
  <2>6. e \in Edit /\ e.log = cf[job[k].f].imm[i].edit.log
        /\ e.add = {cf[job[k].f].imm[i].edit.file} \ {0}
    BY Zenon, <2>2, <2>5 DEF Edit
  <2> QED
    BY Zenon, <2>1, <2>5, <2>6 DEF Adds
<1> QED
  BY Zenon, <1>1, <1>2

\* SyncClosedLogs and WriteLevel0Table, or a log that cannot be synced
LEMMA SyncClosedLogsF ==
  ASSUME FInv, NEW j \in Jobs, SyncClosedLogs(j)
  PROVE  FInv'
<1>1. /\ job[j].pc = "sync"
      /\ UNCHANGED <<next_file, logfile_number, alive_log_files, written, cf,
                     manifest_writers, writer, logs, manifest>>
  BY Zenon DEF SyncClosedLogs, walstate
<1>2. CASE /\ SetJob(j, [job[j] EXCEPT !.pc = "build"])
           /\ tables' = IF Data(j) = {} THEN tables
                        ELSE [n \in DOMAIN tables \cup {job[j].file} |->
                                IF n = job[j].file THEN Data(j) ELSE tables[n]]
           /\ UNCHANGED <<bg_error, obsolete>>
  BY Zenon, <1>1, <1>2, SyncedF
<1>3. CASE /\ SetJob(j, [job[j] EXCEPT !.pc = "find", !.ok = FALSE, !.base = {}])
           /\ bg_error' = TRUE
           /\ obsolete' = obsolete \cup (Live(cf, job) \ Live(cf, job'))
           /\ UNCHANGED tables
  <2>1. obsolete' \subseteq obsolete \cup Live(cf, job)
    BY Zenon, <1>3
  <2> QED
    BY Zenon, <1>1, <1>3, <2>1, SyncFailsF
<1> QED
  BY Zenon, <1>2, <1>3 DEF SyncClosedLogs

\* The first writer of the queue writes the edits of its group to the MANIFEST.
LEMMA WriteManifestF ==
  ASSUME FInv, NEW j \in Jobs, WriteManifest(j), "manifest_sync" \notin Faults
  PROVE  FInv'
<1>1. /\ job[j].pc = "manifest" /\ manifest_writers[1] = j
      /\ UNCHANGED <<next_file, logfile_number, alive_log_files, written, cf, bg_error,
                     obsolete, manifest_writers, writer, logs, tables>>
  BY Zenon DEF WriteManifest, walstate
<1> DEFINE F == job[j].f
           R(n, ok) == [job[j] EXCEPT !.pc = "apply", !.ok = ok, !.group = n,
                                      !.edits = GroupEdits(n)]
<1>2. PICK n \in 1 .. Len(manifest_writers), ok \in BOOLEAN :
      \E log \in Highest({manifest[F].log} \cup EditLogs(GroupEdits(n))) :
        /\ IsGroup(n) /\ SetJob(j, R(n, ok))
        /\ \/ ok /\ manifest' = [manifest EXCEPT ![F] =
                      [log |-> log, files |-> EditedFiles(manifest[F].files, GroupEdits(n))]]
           \/ ~ok /\ UNCHANGED manifest
  BY Zenon DEF WriteManifest, Fails, MayFail
<1>3. /\ job[j] \in Job /\ next_file \in Nat /\ Len(manifest_writers) \in Nat
      /\ \A i \in 1 .. Len(manifest_writers) : manifest_writers[i] \in Jobs
      /\ job[j].kind \in {"flush", "compaction"} /\ F \in Families
      /\ manifest \in [Families -> [log : Nat, files : SUBSET Nat]]
  BY Zenon, <1>1, JobTypes, QueueTypes DEF FInv, Types, JobAt, Busy
<1>4. \A e \in GroupEdits(n) :
        /\ e \in Edit /\ e.log <= logfile_number
        /\ \A m \in e.add : \E k \in Jobs : Queued(k) /\ Adds(k, m)
  <2>1. \A i \in 1 .. n : manifest_writers[i] \in Jobs /\ Queued(manifest_writers[i])
    <3>1. \A i \in 1 .. n : i \in 1 .. Len(manifest_writers)
      BY Zenon, <1>3, PrefixOf
    <3> QED
      BY Zenon, <1>3, <3>1 DEF FInv, QueueInv
  <2> QED
    BY Zenon, <2>1, EditsAre DEF GroupEdits
<1>5. \A e \in GroupEdits(n) : \A m \in e.add :
        /\ Needed(m) /\ m \in DOMAIN tables
        /\ \A q \in Jobs : Flushing(q) => job[q].file # m
  BY Zenon, <1>4, AddsNeeded
<1> DEFINE E == GroupEdits(n)
           r == R(n, ok)
<1>6. /\ r \in Job /\ r.pc = "apply" /\ r.kind = job[j].kind /\ r.f = F
      /\ r.mems = job[j].mems /\ r.base = job[j].base /\ r.file = job[j].file
      /\ r.pending = job[j].pending /\ r.batch = job[j].batch /\ r.tables = job[j].tables
      /\ r.logs = job[j].logs /\ r.edits = E /\ r.group = n /\ r.ok = ok
  <2>1. GroupEdits(n) \in SUBSET Edit /\ n \in Nat
    BY Zenon, <1>3, <1>4, PrefixOf
  <2> QED
    BY ZenonT(30), <1>3, <2>1 DEF Job
<1>7. /\ job' \in [Jobs -> Job] /\ job'[j] = r
      /\ \A k \in Jobs : k # j => job'[k] = job[k]
  BY Zenon, <1>2, <1>6, SetJobTypes DEF FInv
<1> HIDE DEF R, r
<1>8. /\ Busy(j) /\ Busy(j)' /\ ~Flushing(j) /\ ~Flushing(j)' /\ Queued(j) /\ Queued(j)'
      /\ Committing(j)' <=> Committing(j)
  BY Zenon, <1>1, <1>6, <1>7 DEF Busy, Flushing, Queued, Committing
<1>9. /\ CommitInv' /\ ImmInv' /\ OrderInv'
      /\ \A k \in Jobs : k # j => /\ Busy(k)' <=> Busy(k)
                                  /\ Flushing(k)' <=> Flushing(k)
                                  /\ Queued(k)' <=> Queued(k)
                                  /\ \A m : Adds(k, m)' <=> Adds(k, m)
      /\ \A f, i : Sound(f, i)' <=> Sound(f, i)
  <2>1. next_file' \in Nat /\ next_file <= next_file'
    BY <1>1, <1>3
  <2> QED
    BY Zenon, <1>1, <1>6, <1>7, <1>8, <2>1, StayF
<1>10. \A k \in Jobs :
        /\ Busy(k)' <=> Busy(k)
        /\ Flushing(k)' <=> Flushing(k)
        /\ Queued(k)' <=> Queued(k)
        /\ job'[k].kind = job[k].kind /\ job'[k].f = job[k].f
        /\ Flushing(k) => job'[k] = job[k]
        /\ job'[k].file = job[k].file /\ job'[k].pending = job[k].pending
        /\ job'[k].batch = job[k].batch
        /\ job'[k].base = job[k].base /\ job'[k].tables = job[k].tables
  BY ZenonT(30), <1>6, <1>7, <1>8, <1>9
<1>11. \A k \in Jobs : /\ job[k].pc # "apply"
                       /\ job'[k].pc = "apply" <=> k = j
  <2>1. ASSUME NEW k \in Jobs
        PROVE  job[k].pc # "apply"
    <3>1. job[k].pc = "apply" => k = j
      BY Zenon, <1>1 DEF FInv, QueueInv
    <3> QED
      BY Zenon, <1>1, <3>1
  <2> QED
    BY Zenon, <1>6, <1>7, <2>1
<1>12. Live(cf, job)' = Live(cf, job)
  BY Zenon, <1>1, <1>10, LiveStay
<1>13. /\ manifest' \in [Families -> [log : Nat, files : SUBSET Nat]]
       /\ \A f \in Families : manifest'[f].files =
            IF ok /\ f = F THEN EditedFiles(manifest[F].files, E) ELSE manifest[f].files
  <2>1. CASE ~ok
    BY Zenon, <1>2, <1>3, <2>1
  <2>2. CASE ok
    <3>1. PICK log \in Highest({manifest[F].log} \cup EditLogs(GroupEdits(n))) :
            manifest' = [manifest EXCEPT ![F] =
                      [log |-> log, files |-> EditedFiles(manifest[F].files, GroupEdits(n))]]
      BY Zenon, <1>2, <2>2
    <3>2. log \in Nat
      <4>1. \A e \in GroupEdits(n) : e.log \in Nat
        BY Zenon, <1>4 DEF Edit
      <4> QED
        BY Zenon, <1>3, <4>1 DEF Highest, EditLogs
    <3>3. EditedFiles(manifest[F].files, GroupEdits(n)) \in SUBSET Nat
      <4>1. \A e \in GroupEdits(n) : e.add \subseteq Nat
        BY Zenon, <1>4 DEF Edit
      <4>2. manifest[F].files \subseteq Nat
        BY Zenon, <1>3
      <4> QED
        BY Zenon, <4>1, <4>2 DEF EditedFiles
    <3> HIDE DEF F
    <3> QED
      BY Zenon, <1>3, <2>2, <3>1, <3>2, <3>3
  <2> QED
    BY Zenon, <2>1, <2>2
<1>14. \A f \in Families : \A m \in manifest'[f].files :
         \/ m \in manifest[f].files
         \/ /\ Needed(m) /\ m \in DOMAIN tables
            /\ \A q \in Jobs : Flushing(q) => job[q].file # m
  <2>1. EditedFiles(manifest[F].files, E) \subseteq
          manifest[F].files \cup UNION {e.add : e \in E}
    BY Zenon DEF EditedFiles
  <2>2. \A m \in UNION {e.add : e \in E} :
          /\ Needed(m) /\ m \in DOMAIN tables
          /\ \A q \in Jobs : Flushing(q) => job[q].file # m
    BY Zenon, <1>5
  <2> HIDE DEF E, F
  <2> QED
    BY Zenon, <1>13, <2>1, <2>2
<1>15. \A m : Needed(m)' => Needed(m)
  <2>1. \A m : \/ m \in Live(cf, job)
               \/ \E k \in Jobs : Busy(k) /\ job[k].file = m
               \/ \E f \in Families : m \in manifest'[f].files
               \/ \E f \in Families : \E i \in DOMAIN cf[f].imm :
                    cf[f].imm[i].completed /\ cf[f].imm[i].file = m /\ Sound(f, i)
               => Needed(m)
    BY Zenon, <1>14 DEF Needed
  <2> QED
    BY Zenon, <1>1, <1>9, <1>10, <1>12, <2>1 DEF Needed
<1>16. Types'
  BY Zenon, <1>1, <1>7, <1>13 DEF FInv, Types
<1>17. JobAt'
  <2>1. \A k \in Jobs : \/ job'[k].pc = job[k].pc
                        \/ job'[k].pc = "apply" /\ job[k].pc = "manifest"
    BY Zenon, <1>1, <1>6, <1>7
  <2>2. \A k \in Jobs :
          /\ job'[k].pc = "compact" => job[k].pc = "compact"
          /\ job'[k].pc \in {"manifest", "apply", "applied"} =>
               job[k].pc \in {"manifest", "apply", "applied"}
    BY Zenon, <2>1
  <2> QED
    BY Zenon, <1>1, <1>10, <2>2, JobAtStay
<1>18. QueueInv'
  <2>1. \A i \in 1 .. n : i \in 1 .. Len(manifest_writers) /\ manifest_writers[i] \in Jobs
    <3>1. \A i \in 1 .. n : i \in 1 .. Len(manifest_writers)
      BY Zenon, <1>3, PrefixOf
    <3> QED
      BY Zenon, <1>3, <3>1
  <2> HIDE DEF F
  <2>2. \A i \in 1 .. n : job'[manifest_writers[i]].f = F
    <3>1. \A i \in 1 .. n : job[manifest_writers[i]].f = F
      BY Zenon, <1>1, <1>2 DEF IsGroup, F
    <3> QED
      BY Zenon, <1>10, <2>1, <3>1
  <2>3. \A k \in Jobs : job'[k].pc = "apply" => k = j /\ job'[k].group = n /\ job'[k].f = F
    BY Zenon, <1>6, <1>7, <1>11
  <2>4. \A k \in Jobs : Queued(k)' <=>
          \E i \in 1 .. Len(manifest_writers) : manifest_writers[i] = k
    BY Zenon, <1>10 DEF FInv, QueueInv
  <2>5. ASSUME NEW k \in Jobs, job'[k].pc = "apply"
        PROVE  /\ manifest_writers[1] = k
               /\ job'[k].group \in 1 .. Len(manifest_writers)
               /\ \A i \in 1 .. job'[k].group : job'[manifest_writers[i]].f = job'[k].f
    BY Zenon, <1>1, <1>2, <2>2, <2>3, <2>5
  <2> QED
    BY ZenonT(40), <1>1, <2>4, <2>5 DEF FInv, QueueInv
<1>19. OwnInv'
  <2>1. \A k \in Jobs : Flushing(k) => \A f \in Families : job[k].file \notin manifest'[f].files
    BY Zenon, <1>14 DEF FInv, OwnInv
  <2> QED
    BY Zenon, <1>1, <1>10, <1>12, <2>1, OwnStay DEF FInv, OwnInv
<1>20. TableInv'
  BY Zenon, <1>1, <1>9, <1>10, <1>12, <1>14 DEF FInv, TableInv
<1>21. PurgeInv'
  BY ZenonT(30), <1>1, <1>10, <1>15 DEF FInv, PurgeInv
<1>22. ManifestInv'
  <2>1. AddsInv'
    <3>1. \A k \in Jobs : \A m : Adds(k, m) => Adds(k, m)'
      BY ZenonT(30), <1>1, <1>10 DEF Adds
    <3>2. \A k \in Jobs : job'[k].pc = "apply" => job'[k].edits = E
      BY Zenon, <1>6, <1>7, <1>11
    <3> HIDE DEF E
    <3>3. \A e \in E : \A m \in e.add : \E k \in Jobs : Queued(k) /\ Adds(k, m)
      BY Zenon, <1>4 DEF E
    <3> QED
      BY Zenon, <1>10, <3>1, <3>2, <3>3 DEF AddsInv
  <2>2. \A f \in Families : manifest[f].files = cf[f].files
    BY Zenon, <1>11 DEF FInv, ManifestInv
  <2> QED
    <3>1. ASSUME NEW f \in Families, \A k \in Jobs : job'[k].pc = "apply" /\ job'[k].ok => job'[k].f # f
          PROVE  manifest'[f].files = cf'[f].files
      <4>1. ~(ok /\ f = F)
        BY Zenon, <1>6, <1>7, <1>11, <3>1
      <4>2. manifest'[f].files = manifest[f].files
        BY Zenon, <1>13, <4>1
      <4> QED
        BY Zenon, <1>1, <2>2, <4>2
    <3>2. ASSUME NEW k \in Jobs, job'[k].pc = "apply", job'[k].ok
          PROVE  manifest'[job'[k].f].files = EditedFiles(cf'[job'[k].f].files, job'[k].edits)
      <4>1. job'[k].f = F /\ ok /\ job'[k].edits = E
        BY Zenon, <1>6, <1>7, <1>11, <3>2
      <4>2. F \in Families
        BY Zenon, <1>3
      <4> HIDE DEF E, F
      <4>3. manifest'[F].files = EditedFiles(manifest[F].files, E)
        BY Zenon, <1>13, <4>1, <4>2
      <4>4. manifest[F].files = cf'[F].files
        BY Zenon, <1>1, <2>2, <4>2
      <4> QED
        BY Zenon, <4>1, <4>3, <4>4
    <3> QED
      BY Zenon, <2>1, <3>1, <3>2 DEF ManifestInv
<1>23. LogInv'
  <2>1. \A e \in job'[j].edits : e.log <= logfile_number
    BY Zenon, <1>4, <1>6, <1>7
  <2> HIDE DEF E, F
  <2>2. next_file' \in Nat /\ next_file <= next_file'
    BY <1>1, <1>3
  <2>3. job'[j].logs \subseteq job[j].logs
    BY Zenon, <1>6, <1>7
  <2>4. \A f \in Families :
          /\ cf'[f].log_number <= logfile_number
          /\ \A i \in DOMAIN cf'[f].imm : /\ cf'[f].imm[i].next_log <= logfile_number
                                          /\ cf'[f].imm[i].edit.log <= logfile_number
    BY Zenon, <1>1 DEF FInv, LogInv
  <2> QED
    BY Zenon, <1>1, <1>7, <2>1, <2>2, <2>3, <2>4, LogF
<1> QED
  BY Zenon, <1>9, <1>16, <1>17, <1>18, <1>19, <1>20, <1>21, <1>22, <1>23 DEF FInv

-----------------------------------------------------------------------------
\* BackgroundCallFlush, with or without something to flush
LEMMA BackgroundCallFlushF ==
  ASSUME FInv, NEW j \in Jobs, BackgroundCallFlush(j)
  PROVE  FInv'
<1>1. /\ job[j].pc = "idle"
      /\ UNCHANGED <<logfile_number, alive_log_files, written, manifest_writers, bg_error,
                     obsolete, writer, logs, tables, manifest>>
  BY Zenon DEF BackgroundCallFlush, walstate, disk
<1>2. CASE NothingToFlush(j)
  BY Zenon, <1>1, <1>2, NothingToFlushF
<1>3. ASSUME NEW f \in Families, ~bg_error, PickMemTable(j, f)
      PROVE  FInv'
  BY Zenon, <1>1, <1>3, PickMemTableF
<1> QED
  BY ZenonT(30), <1>2, <1>3 DEF BackgroundCallFlush

\* FInv holds at the start.
LEMMA InitF ==
  ASSUME Init
  PROVE  FInv
<1>1. \A j \in Jobs : ~Busy(j) /\ ~Flushing(j) /\ ~Queued(j) /\ ~Committing(j)
  BY Zenon DEF Init, IdleJob, Busy, Flushing, Queued, Committing
<1>2. \A f \in Families : /\ DOMAIN cf[f].imm = {} /\ cf[f].files = {} /\ cf[f].log_number = 1
                          /\ ~cf[f].commit_in_progress /\ manifest[f].files = {}
  BY DEF Init
<1>3. \A j \in Jobs : /\ job[j] = IdleJob /\ job[j].pc = "idle" /\ job[j].base = {}
                      /\ job[j].edits = {} /\ job[j].tables = {} /\ job[j].logs = {}
  BY Zenon DEF Init, IdleJob
<1>4. Live(cf, job) = {}
  BY <1>2, <1>3 DEF Live
<1>5. Types
  <2>1. cf \in [Families -> ColumnFamily]
    <3>1. DOMAIN <<>> = {}
      OBVIOUS
    <3>2. <<>> \in [{} -> MemTable]
      BY <3>1
    <3>3. <<>> \in MemTableList
      BY Zenon, <3>2 DEF MemTableList
    <3> QED
      BY Zenon, <3>3 DEF Init, ColumnFamily
  <2>2. job \in [Jobs -> Job]
    <3>1. IdleJob \in Job
      BY Zenon DEF IdleJob, Job
    <3> QED
      BY Zenon, <3>1 DEF Init
  <2>3. manifest \in [Families -> [log : Nat, files : SUBSET Nat]]
    BY Zenon DEF Init
  <2>4. writer \in Writer /\ writer.pc # "switching"
    BY Zenon DEF Init, IdleWriter, Writer, Reasons
  <2>5. manifest_writers \in Seq(Jobs) /\ written \in Seq([log : Nat, families : SUBSET Families])
    BY DEF Init
  <2>6. /\ next_file \in Nat /\ logfile_number \in Nat /\ DOMAIN alive_log_files \subseteq Nat
        /\ logs \subseteq Nat /\ obsolete \subseteq Nat
    BY DEF Init
  <2> QED
    BY Zenon, <2>1, <2>2, <2>3, <2>4, <2>5, <2>6 DEF Types
<1>6. JobAt
  BY Zenon, <1>1, <1>3 DEF JobAt
<1>7. QueueInv
  <2>1. Len(manifest_writers) = 0
    BY Zenon DEF Init
  <2> QED
    BY <1>1, <1>3, <2>1 DEF QueueInv
<1>8. CommitInv
  BY Zenon, <1>1, <1>2 DEF CommitInv, CommitterInv, BatchInv, OldestInv
<1>9. ImmInv /\ OwnInv /\ OrderInv
  BY Zenon, <1>1, <1>2 DEF ImmInv, OwnInv, OrderInv
<1>10. TableInv
  <2>1. DOMAIN tables = {}
    BY DEF Init
  <2> QED
    BY Zenon, <1>1, <1>2, <1>4, <2>1 DEF TableInv
<1>11. PurgeInv
  BY Zenon, <1>3 DEF PurgeInv
<1>12. ManifestInv
  BY Zenon, <1>2, <1>3 DEF ManifestInv, AddsInv
<1>13. LogInv
  <2>1. /\ next_file = 2 /\ logfile_number = 1 /\ DOMAIN alive_log_files = {1} /\ logs = {1}
        /\ writer.pc = "idle"
    BY Zenon DEF Init, IdleWriter
  <2> QED
    BY <1>2, <1>3, <2>1 DEF LogInv
<1> QED
  BY ZenonT(30), <1>5, <1>6, <1>7, <1>8, <1>9, <1>10, <1>11, <1>12, <1>13 DEF FInv

\* Every step preserves FInv.
LEMMA NextF ==
  ASSUME FInv, [Next]_vars, paranoid_checks, "manifest_sync" \notin Faults
  PROVE  FInv'
<1>1. ASSUME NEW j \in Jobs, JobStep(j)
      PROVE  FInv'
  BY ZenonT(30), <1>1, FlushAppliedF, CompactionAppliedF, BackgroundCallFlushF, SyncClosedLogsF,
     RollbackMemtableFlushF, InstallMemtableFlushResultsF, RunCompactionF, WriteManifestF,
     ApplyF, FindObsoleteFilesF, PurgeObsoleteFilesF, EndJobF DEF JobStep
<1>2. ASSUME NEW j \in Jobs, BackgroundCallCompaction(j)
      PROVE  FInv'
  BY ZenonT(30), <1>2, BackgroundCallCompactionF
<1>3. ASSUME NEW fs \in SUBSET Families, Write(fs)
      PROVE  FInv'
  BY Zenon, <1>3, WriteF
<1>4. CASE HandleWALFull
  BY Zenon, <1>4, HandleWALFullF
<1>5. CASE EndSwitch
  BY Zenon, <1>5, EndSwitchF
<1>6. CASE FailedSwitch
  BY Zenon, <1>6, FailedSwitchF
<1>7. ASSUME NEW f \in Families, SwitchOne(f)
      PROVE  FInv'
  BY ZenonT(40), <1>7, SwitchOneF
<1>8. CASE UNCHANGED vars
  <2>1. UNCHANGED <<next_file, logfile_number, alive_log_files, written, cf, manifest_writers,
                    obsolete, bg_error, writer, job, logs, tables, manifest>>
    BY Zenon, <1>8 DEF vars, walstate, disk
  <2>2. logfile_number \in Nat /\ next_file \in Nat /\ next_file <= next_file
    BY DEF FInv, Types
  <2> QED
    BY Zenon, <2>1, <2>2, QuietF DEF FInv, Types, LogInv
<1> QED
  BY Zenon, <1>1, <1>2, <1>3, <1>4, <1>5, <1>6, <1>7, <1>8 DEF Next

\* Every table that a version in use or the MANIFEST names exists, and every log
\* that is alive: FindObsoleteFiles and PurgeObsoleteFiles delete nothing that is
\* needed, for any number of families and background threads and whatever flushes,
\* compactions, failures and purges run at the same time, with paranoid_checks and
\* as long as no sync of the MANIFEST fails after its record was appended.
THEOREM FilesKept ==
  ASSUME paranoid_checks, "manifest_sync" \notin Faults
  PROVE  Spec => []FilesExist
<1>1. Init => FInv
  BY Zenon, InitF
<1>2. FInv /\ [Next]_vars => FInv'
  BY Zenon, NextF
<1>3. FInv => FilesExist
  BY Zenon DEF FInv, TableInv, LogInv, FilesExist, LiveFilesExist, ManifestFilesExist
<1> QED
  BY <1>1, <1>2, <1>3, PTL DEF Spec
=============================================================================
