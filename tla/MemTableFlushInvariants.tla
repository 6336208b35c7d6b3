---------------------- MODULE MemTableFlushInvariants -----------------------
(***************************************************************************)
(* The inductive invariant FInv behind FilesExist: why the purge, which    *)
(* works without the mutex on a list made before, never deletes a table    *)
(* or a log that is needed. It holds when paranoid_checks is set and a     *)
(* sync of the MANIFEST that fails has not written the records.            *)
(*                                                                         *)
(* The argument: a file is deleted only if its number is below all pending *)
(* outputs (FindObsoleteFiles). The output of a job that works is its own  *)
(* pending output. The output of a flush that is done, but not committed,  *)
(* is not: another job commits it, and that job's pending output has to be *)
(* the smaller number. So memtables get their files in the order of their  *)
(* age (OrderInv), the one who commits has the oldest (BatchInv), and an   *)
(* error, after which memtables go back in the list out of order, must     *)
(* stop further flushes (ImmInv). A flushed memtable for which this order  *)
(* does not hold is never committed, as an older one is not flushed: it is *)
(* not Sound, and its file is not Needed.                                  *)
(***************************************************************************)
EXTENDS MemTableFlush

\* The types of the parts of the state
MemTable == [data : SUBSET Nat, next_log : Nat, in_progress : BOOLEAN,
             completed : BOOLEAN, file : Nat, edit : [log : Nat, file : Nat]]
MemTableList == UNION {[S -> MemTable] : S \in SUBSET Nat}
ColumnFamily == [mem : [id : Nat, data : SUBSET Nat], imm : MemTableList,
                 flush_requested : BOOLEAN, commit_in_progress : BOOLEAN,
                 log_number : Nat, files : SUBSET Nat]
Edit == [log : Nat, add : SUBSET Nat, delete : SUBSET Nat]
Job == [pc : {"idle", "sync", "build", "compact", "manifest", "apply", "applied", "find",
              "purge", "end"},
        kind : {"none", "flush", "compaction"}, f : Families \cup {Null}, mems : SUBSET Nat,
        inputs : SUBSET Nat, base : SUBSET Nat, file : Nat, pending : Nat,
        batch : SUBSET Nat, group : Nat, edits : SUBSET Edit, ok : BOOLEAN,
        tables : SUBSET Nat, logs : SUBSET Nat]
Reasons == {"none", "walfull", "bufferfull", "scheduled", "manual"}
Writer == [pc : {"idle", "switching"}, why : Reasons, f : Families \cup {Null},
           todo : SUBSET Families, oldest : Nat, new : Nat, ok : BOOLEAN]

Types ==
  /\ next_file \in Nat
  /\ logfile_number \in Nat
  /\ DOMAIN alive_log_files \subseteq Nat
  /\ logs \subseteq Nat
  /\ obsolete \subseteq Nat
  /\ cf \in [Families -> ColumnFamily]
  /\ job \in [Jobs -> Job]
  /\ manifest_writers \in Seq(Jobs)
  /\ manifest \in [Families -> [log : Nat, files : SUBSET Nat]]
  /\ writer \in Writer
  /\ writer.pc = "switching" => writer.f \in Families
  /\ written \in Seq([log : Nat, families : SUBSET Families])

\* Where a job is: it has a pending output; it writes the table of a flush; it is
\* in the queue for the MANIFEST; it commits flushes of its family.
Busy(j) == job[j].pc \in {"sync", "build", "compact", "manifest", "apply", "applied"}
Flushing(j) == job[j].pc \in {"sync", "build"}
Queued(j) == job[j].pc \in {"manifest", "apply"}
Committing(j) == job[j].kind = "flush" /\ job[j].pc \in {"manifest", "apply", "applied"}

\* Job j flushes memtable i of family f.
Owns(j, f, i) == Flushing(j) /\ job[j].f = f /\ i \in job[j].mems

\* Memtable i of family f is flushed, or being flushed, to file n.
HasFile(f, i, n) ==
  \/ cf[f].imm[i].completed /\ cf[f].imm[i].file = n
  \/ \E j \in Jobs : Owns(j, f, i) /\ job[j].file = n

\* All older memtables are flushed or being flushed, so that i may be committed.
Sound(f, i) ==
  \A q \in DOMAIN cf[f].imm : q < i =>
    cf[f].imm[q].completed \/ \E j \in Jobs : Owns(j, f, q)

\* A busy job has a file number of its own, among the pending outputs.
JobAt ==
  \A j \in Jobs :
    /\ Busy(j) => /\ job[j].f \in Families
                  /\ 0 < job[j].file /\ job[j].file < next_file
                  /\ job[j].pending = job[j].file
    /\ Flushing(j) => job[j].kind = "flush"
    /\ job[j].pc = "compact" => job[j].kind = "compaction"
    /\ job[j].pc \in {"manifest", "apply", "applied"} => job[j].kind \in {"flush", "compaction"}
    /\ \A k \in Jobs : j # k /\ Busy(j) /\ Busy(k) => job[j].file # job[k].file

\* manifest_writers_ holds the jobs that wait for the MANIFEST, once each, and the
\* job that has written to it is the first, with a group of its own family.
QueueInv ==
  /\ \A i, k \in 1 .. Len(manifest_writers) : manifest_writers[i] = manifest_writers[k] => i = k
  /\ \A j \in Jobs : Queued(j) <=> \E i \in 1 .. Len(manifest_writers) : manifest_writers[i] = j
  /\ \A j \in Jobs : job[j].pc = "apply" =>
       /\ manifest_writers[1] = j
       /\ job[j].group \in 1 .. Len(manifest_writers)
       /\ \A i \in 1 .. job[j].group : job[manifest_writers[i]].f = job[j].f

\* commit_in_progress_ is set while one job, and no other, commits for the family.
CommitterInv ==
  /\ \A j, k \in Jobs : Committing(j) /\ Committing(k) /\ job[j].f = job[k].f => j = k
  /\ \A f \in Families :
       cf[f].commit_in_progress <=> \E j \in Jobs : Committing(j) /\ job[j].f = f

\* It commits the oldest memtables, all flushed, and its pending output is not
\* above the file of any memtable of the family.
BatchInv ==
  \A j \in Jobs : Committing(j) =>
    /\ job[j].batch # {} /\ job[j].batch \subseteq DOMAIN cf[job[j].f].imm
    /\ \A i \in job[j].batch :
         /\ cf[job[j].f].imm[i].completed
         /\ \A k \in DOMAIN cf[job[j].f].imm : k < i => k \in job[j].batch
    /\ \A i \in DOMAIN cf[job[j].f].imm : \A n \in Nat :
         HasFile(job[j].f, i, n) => job[j].file <= n

\* Nobody leaves the oldest memtable flushed and not committed.
OldestInv ==
  \A f \in Families : ~cf[f].commit_in_progress =>
    \A i \in DOMAIN cf[f].imm : cf[f].imm[i].completed =>
      \E q \in DOMAIN cf[f].imm : q < i /\ ~cf[f].imm[q].completed

CommitInv == CommitterInv /\ BatchInv /\ OldestInv

\* The list, and its order while there is no error: a memtable is in progress
\* only if all older ones are.
ImmInv ==
  \A f \in Families :
    /\ \A i \in DOMAIN cf[f].imm :
         /\ i < cf[f].mem.id
         /\ cf[f].imm[i].completed =>
              cf[f].imm[i].in_progress /\ cf[f].imm[i].file < next_file
         /\ cf[f].imm[i].edit.file # 0 =>
              cf[f].imm[i].completed /\ cf[f].imm[i].edit.file = cf[f].imm[i].file
    /\ \A i, k \in DOMAIN cf[f].imm :
         i < k /\ ~cf[f].imm[i].in_progress /\ cf[f].imm[k].in_progress => bg_error

\* A memtable is flushed by one job, to a file that nothing else uses.
OwnInv ==
  /\ \A j \in Jobs : Flushing(j) =>
       /\ job[j].mems \subseteq DOMAIN cf[job[j].f].imm
       /\ \A i \in job[j].mems :
            cf[job[j].f].imm[i].in_progress /\ ~cf[job[j].f].imm[i].completed
       /\ \A f \in Families : \A i \in DOMAIN cf[f].imm :
            cf[f].imm[i].completed => cf[f].imm[i].file # job[j].file
       /\ job[j].file \notin Live(cf, job)
       /\ \A f \in Families : job[j].file \notin manifest[f].files
  /\ \A j, k \in Jobs : Flushing(j) /\ Flushing(k) /\ job[j].f = job[k].f /\ j # k
       => job[j].mems \cap job[k].mems = {}

\* Older memtables have files with smaller numbers, or the same file.
OrderInv ==
  \A f \in Families : \A i, k \in DOMAIN cf[f].imm : i < k =>
    \A n, p \in Nat : HasFile(f, i, n) /\ HasFile(f, k, p) => n <= p

\* The tables that exist. An output that may be committed is one of them.
TableInv ==
  /\ \A f \in Families : \A i \in DOMAIN cf[f].imm :
       cf[f].imm[i].edit.file # 0 /\ Sound(f, i) => cf[f].imm[i].edit.file \in DOMAIN tables
  /\ \A j \in Jobs : job[j].kind = "compaction" /\ Busy(j) => job[j].file \in DOMAIN tables
  /\ Live(cf, job) \subseteq DOMAIN tables
  /\ \A f \in Families : manifest[f].files \subseteq DOMAIN tables
  /\ \A n \in DOMAIN tables : n \in Nat /\ n < next_file

\* What must not be deleted ...
Needed(n) ==
  \/ n \in Live(cf, job)
  \/ \E f \in Families : n \in manifest[f].files
  \/ \E j \in Jobs : Busy(j) /\ job[j].file = n
  \/ \E f \in Families : \E i \in DOMAIN cf[f].imm :
        cf[f].imm[i].completed /\ cf[f].imm[i].file = n /\ Sound(f, i)

\* ... is in no list of a purge, from the time the list is made until it is used.
PurgeInv ==
  \A j \in Jobs : \A n \in job[j].tables : n < next_file /\ ~Needed(n)

\* The edits of job k add file n.
Adds(k, n) ==
  \/ job[k].kind = "compaction" /\ n = job[k].file
  \/ job[k].kind = "flush" /\ n # 0 /\ \E i \in job[k].batch : cf[job[k].f].imm[i].edit.file = n

\* The MANIFEST is the current versions, except for the edits that have been
\* written to it and wait to be applied.
AddsInv ==
  \A j \in Jobs : job[j].pc = "apply" => \A e \in job[j].edits : \A n \in e.add :
    \E k \in Jobs : Queued(k) /\ Adds(k, n)

ManifestInv ==
  /\ \A f \in Families :
       (\A j \in Jobs : job[j].pc = "apply" /\ job[j].ok => job[j].f # f) =>
         manifest[f].files = cf[f].files
  /\ \A j \in Jobs : job[j].pc = "apply" /\ job[j].ok =>
       manifest[job[j].f].files = EditedFiles(cf[job[j].f].files, job[j].edits)
  /\ AddsInv

\* No log number, of a family, a memtable or an edit, is above the current log, so
\* the current log is never one to delete; logs to delete are below those alive.
LogInv ==
  /\ logfile_number < next_file
  /\ \A n \in DOMAIN alive_log_files : n \in logs /\ n <= logfile_number
  /\ \A f \in Families :
       /\ cf[f].log_number <= logfile_number
       /\ \A i \in DOMAIN cf[f].imm : /\ cf[f].imm[i].next_log <= logfile_number
                                      /\ cf[f].imm[i].edit.log <= logfile_number
  /\ writer.pc = "switching" /\ writer.ok /\ writer.new # 0 =>
       writer.new \in logs /\ logfile_number < writer.new /\ writer.new < next_file
  /\ \A j \in Jobs : \A e \in job[j].edits : e.log <= logfile_number
  /\ \A j \in Jobs : \A l \in job[j].logs :
       l < logfile_number /\ \A n \in DOMAIN alive_log_files : l < n

FInv == /\ Types /\ JobAt /\ QueueInv /\ CommitInv /\ ImmInv /\ OwnInv /\ OrderInv
        /\ TableInv /\ PurgeInv /\ ManifestInv /\ LogInv
=============================================================================
