------------------------ MODULE MemTableFlushLemmas -------------------------
(***************************************************************************)
(* Why parts of FInv are preserved by steps of a certain shape, and the    *)
(* steps that give out a number or make a version: PickMemTable, the       *)
(* installation by LogAndApply and the end of SwitchMemtable.              *)
(***************************************************************************)
EXTENDS MemTableFlushInvariants, TLAPS

\* The types of the parts of the families and of the jobs
LEMMA CfTypes ==
  ASSUME Types, NEW f \in Families
  PROVE  /\ cf[f] \in ColumnFamily
         /\ DOMAIN cf[f].imm \subseteq Nat
         /\ cf[f].imm = [i \in DOMAIN cf[f].imm |-> cf[f].imm[i]]
         /\ \A i \in DOMAIN cf[f].imm : /\ cf[f].imm[i] \in MemTable
                                         /\ cf[f].imm[i].file \in Nat
<1>1. cf[f] \in ColumnFamily /\ cf[f].imm \in MemTableList
  BY Zenon DEF Types, ColumnFamily
<1>2. PICK S \in SUBSET Nat : cf[f].imm \in [S -> MemTable]
  BY Zenon, <1>1 DEF MemTableList
<1>3. \A m \in MemTable : m.file \in Nat
  BY Zenon DEF MemTable
<1> QED
  BY Zenon, <1>1, <1>2, <1>3

\* The types of the parts of a job
LEMMA JobTypes ==
  ASSUME Types, NEW j \in Jobs
  PROVE  /\ job[j] \in Job
         /\ job[j].file \in Nat /\ job[j].pending \in Nat
         /\ job[j].mems \subseteq Nat /\ job[j].batch \subseteq Nat
         /\ job[j].tables \subseteq Nat /\ job[j].logs \subseteq Nat
  BY Zenon DEF Types, Job

\* What a step of job j does to its own record
LEMMA SetJobTypes ==
  ASSUME Types, NEW j \in Jobs, NEW r \in Job, SetJob(j, r)
  PROVE  /\ job' \in [Jobs -> Job] /\ job'[j] = r
         /\ \A k \in Jobs : k # j => job'[k] = job[k]
  BY Zenon DEF Types, SetJob

\* The jobs in the queue for the MANIFEST
LEMMA QueueTypes ==
  ASSUME Types
  PROVE  /\ Len(manifest_writers) \in Nat
         /\ \A i \in 1 .. Len(manifest_writers) : manifest_writers[i] \in Jobs
<1>1. manifest_writers \in Seq(Jobs)
  BY Zenon DEF Types
<1> QED
  BY <1>1

\* A group of writers is a prefix of the queue.
LEMMA PrefixOf ==
  ASSUME NEW l \in Nat, NEW n \in 1 .. l
  PROVE  n \in Nat /\ 1 \in 1 .. n /\ \A i \in 1 .. n : i \in 1 .. l
  OBVIOUS

\* AddLiveFiles: the tables of the current versions and of those that jobs hold
LEMMA LiveIs ==
  ASSUME NEW c, NEW js, NEW n
  PROVE  n \in Live(c, js) <=> \/ \E f \in Families : n \in c[f].files
                              \/ \E j \in Jobs : n \in js[j].base
  BY Zenon DEF Live

\* They stay the same when no version is made, taken or released.
LEMMA LiveStay ==
  ASSUME \A f \in Families : cf'[f].files = cf[f].files,
         \A j \in Jobs : job'[j].base = job[j].base
  PROVE  Live(cf, job)' = Live(cf, job)
  BY DEF Live

\* Obsolete tables have numbers.
LEMMA ObsoleteTypes ==
  ASSUME FInv, obsolete' \subseteq obsolete \cup Live(cf, job)
  PROVE  obsolete' \subseteq Nat
<1>1. obsolete \subseteq Nat
  BY Zenon DEF FInv, Types
<1>2. Live(cf, job) \subseteq Nat
  BY Zenon DEF FInv, TableInv
<1> QED
  BY Zenon, <1>1, <1>2

\* A step of job j that leaves the logs alone preserves what is said about them.
LEMMA LogF ==
  ASSUME FInv, NEW j \in Jobs, next_file' \in Nat, next_file <= next_file',
         UNCHANGED <<logfile_number, alive_log_files, logs, writer>>,
         \A f \in Families :
           /\ cf'[f].log_number <= logfile_number
           /\ \A i \in DOMAIN cf'[f].imm : /\ cf'[f].imm[i].next_log <= logfile_number
                                           /\ cf'[f].imm[i].edit.log <= logfile_number,
         \A k \in Jobs : k # j => job'[k] = job[k],
         job'[j].logs \subseteq job[j].logs,
         \A e \in job'[j].edits : e.log <= logfile_number
  PROVE  LogInv'
<1>1. next_file \in Nat /\ logfile_number \in Nat /\ writer \in Writer
  BY Zenon DEF FInv, Types
<1>2. writer.new \in Nat
  BY Zenon, <1>1 DEF Writer
<1>3. \A k \in Jobs : /\ job'[k].logs \subseteq job[k].logs
                      /\ \A e \in job'[k].edits : e.log <= logfile_number
  BY Zenon DEF FInv, LogInv
<1>4. logfile_number < next_file' /\ (writer.new < next_file => writer.new < next_file')
  BY <1>1, <1>2 DEF FInv, LogInv
<1> QED
  BY Zenon, <1>3, <1>4 DEF FInv, LogInv

\* The memtables of a batch are flushed and nothing older is left out.
LEMMA BatchSound ==
  ASSUME FInv, NEW k \in Jobs, Committing(k), NEW i \in job[k].batch
  PROVE  /\ job[k].f \in Families /\ i \in DOMAIN cf[job[k].f].imm
         /\ cf[job[k].f].imm[i].completed /\ Sound(job[k].f, i)
<1>1. job[k].f \in Families
  BY Zenon DEF FInv, JobAt, Committing, Busy
<1>2. /\ i \in DOMAIN cf[job[k].f].imm /\ cf[job[k].f].imm[i].completed
      /\ \A q \in DOMAIN cf[job[k].f].imm : q < i => cf[job[k].f].imm[q].completed
  BY Zenon DEF FInv, CommitInv, BatchInv
<1> QED
  BY Zenon, <1>1, <1>2 DEF Sound

\* A step of job j that changes family f only: what it leaves alone.
LEMMA OneFamily ==
  ASSUME FInv, NEW j \in Jobs, NEW f \in Families,
         \A k \in Jobs : k # j => job'[k] = job[k],
         \A g \in Families : g # f => cf'[g] = cf[g],
         Flushing(j) => job[j].f = f, Flushing(j)' => job'[j].f = f
  PROVE  /\ \A k \in Jobs : k # j => /\ Busy(k)' <=> Busy(k)
                                     /\ Flushing(k)' <=> Flushing(k)
                                     /\ Queued(k)' <=> Queued(k)
                                     /\ Committing(k)' <=> Committing(k)
                                     /\ \A g, i : Owns(k, g, i)' <=> Owns(k, g, i)
         /\ \A g \in Families : g # f =>
              \A i : /\ \A n : HasFile(g, i, n)' <=> HasFile(g, i, n)
                     /\ Sound(g, i)' <=> Sound(g, i)
<1>1. \A k \in Jobs : k # j => /\ Busy(k)' <=> Busy(k)
                               /\ Flushing(k)' <=> Flushing(k)
                               /\ Queued(k)' <=> Queued(k)
                               /\ Committing(k)' <=> Committing(k)
                               /\ \A g, i : Owns(k, g, i)' <=> Owns(k, g, i)
  BY Zenon DEF Busy, Flushing, Queued, Committing, Owns
<1>2. \A k \in Jobs : \A g \in Families : g # f =>
        \A i : /\ Owns(k, g, i)' <=> Owns(k, g, i)
               /\ Owns(k, g, i) => job'[k].file = job[k].file
  BY <1>1 DEF Owns
<1>3. \A g \in Families : g # f =>
        \A i : /\ \A n : HasFile(g, i, n)' <=> HasFile(g, i, n)
               /\ Sound(g, i)' <=> Sound(g, i)
  BY <1>2 DEF HasFile, Sound
<1> QED
  BY Zenon, <1>1, <1>3

\* The files that memtables have are numbers that have been given out.
LEMMA HasFileBelow ==
  ASSUME FInv, NEW f \in Families, NEW i \in DOMAIN cf[f].imm, NEW n, HasFile(f, i, n)
  PROVE  n \in Nat /\ n < next_file
<1>1. CASE cf[f].imm[i].completed /\ cf[f].imm[i].file = n
  BY Zenon, <1>1, CfTypes DEF FInv, ImmInv
<1>2. ASSUME NEW k \in Jobs, Owns(k, f, i), job[k].file = n
      PROVE  n \in Nat /\ n < next_file
  BY Zenon, <1>2, JobTypes DEF FInv, JobAt, Owns, Flushing, Busy
<1> QED
  BY Zenon, <1>1, <1>2 DEF HasFile

\* A step of job j that does not touch the families, and leaves the job among
\* those that flush or commit, or not, as it was
LEMMA StayF ==
  ASSUME FInv, NEW j \in Jobs, UNCHANGED <<cf, bg_error>>,
         next_file' \in Nat, next_file <= next_file',
         \A k \in Jobs : k # j => job'[k] = job[k],
         Flushing(j)' <=> Flushing(j), Committing(j)' <=> Committing(j),
         Flushing(j) \/ Committing(j) =>
           /\ job'[j].f = job[j].f /\ job'[j].mems = job[j].mems
           /\ job'[j].file = job[j].file /\ job'[j].batch = job[j].batch
  PROVE  /\ CommitInv' /\ ImmInv' /\ OrderInv'
         /\ \A k \in Jobs : k # j => /\ Busy(k)' <=> Busy(k)
                                     /\ Flushing(k)' <=> Flushing(k)
                                     /\ Queued(k)' <=> Queued(k)
                                     /\ Committing(k)' <=> Committing(k)
                                     /\ \A n : Adds(k, n)' <=> Adds(k, n)
         /\ \A f, i : Sound(f, i)' <=> Sound(f, i)
<1> USE DEF FInv
<1>1. \A k \in Jobs : k # j => /\ Busy(k)' <=> Busy(k)
                               /\ Flushing(k)' <=> Flushing(k)
                               /\ Queued(k)' <=> Queued(k)
                               /\ Committing(k)' <=> Committing(k)
                               /\ \A n : Adds(k, n)' <=> Adds(k, n)
                               /\ \A f, i : Owns(k, f, i)' <=> Owns(k, f, i)
  BY ZenonT(40) DEF Busy, Flushing, Queued, Committing, Owns, Adds
<1>2. \A k \in Jobs : \A f, i : /\ Owns(k, f, i)' <=> Owns(k, f, i)
                                /\ Owns(k, f, i) => job'[k].file = job[k].file
  BY Zenon, <1>1 DEF Owns
<1>3. \A f, i : /\ \A n : HasFile(f, i, n)' <=> HasFile(f, i, n)
                /\ Sound(f, i)' <=> Sound(f, i)
  BY ZenonT(30), <1>2 DEF HasFile, Sound
<1>4. \A k \in Jobs : /\ Committing(k)' <=> Committing(k)
                      /\ Committing(k) => /\ job'[k].f = job[k].f /\ job'[k].file = job[k].file
                                          /\ job'[k].batch = job[k].batch
  BY Zenon, <1>1
<1>5. CommitInv'
  <2>1. CommitterInv'
    <3>1. \A a, b \in Jobs : Committing(a)' /\ Committing(b)' /\ job'[a].f = job'[b].f => a = b
      BY ZenonT(40), <1>4 DEF CommitInv, CommitterInv
    <3>2. ASSUME NEW f \in Families
          PROVE  cf[f].commit_in_progress <=> \E k \in Jobs : Committing(k)' /\ job'[k].f = f
      <4>1. cf[f].commit_in_progress <=> \E k \in Jobs : Committing(k) /\ job[k].f = f
        BY Zenon DEF CommitInv, CommitterInv
      <4>2. ASSUME NEW k \in Jobs
            PROVE  Committing(k)' /\ job'[k].f = f <=> Committing(k) /\ job[k].f = f
        BY Zenon, <1>4
      <4> QED
        BY Zenon, <4>1, <4>2
    <3> QED
      BY Zenon, <3>1, <3>2 DEF CommitterInv
  <2>2. BatchInv'
    BY ZenonT(60), <1>3, <1>4 DEF CommitInv, BatchInv
  <2>3. OldestInv'
    BY ZenonT(60) DEF CommitInv, OldestInv
  <2> QED
    BY Zenon, <2>1, <2>2, <2>3 DEF CommitInv
<1>6. ImmInv'
  <2>0. /\ next_file \in Nat
        /\ \A f \in Families : \A i \in DOMAIN cf[f].imm : cf[f].imm[i].file \in Nat
    BY Zenon, CfTypes DEF Types
  <2>1. \A f \in Families : \A i \in DOMAIN cf[f].imm :
          cf[f].imm[i].file < next_file => cf[f].imm[i].file < next_file'
    BY <2>0
  <2> QED
    BY ZenonT(60), <2>1 DEF ImmInv
<1>7. OrderInv'
  BY ZenonT(60), <1>3 DEF OrderInv
<1> QED
  BY Zenon, <1>1, <1>3, <1>5, <1>6, <1>7

\* What is said about the MANIFEST is preserved by a step that leaves the versions,
\* the MANIFEST and the job that has written to it alone.
LEMMA ManifestStay ==
  ASSUME FInv, UNCHANGED manifest, \A f \in Families : cf'[f].files = cf[f].files, AddsInv',
         \A k \in Jobs : /\ job'[k].pc = "apply" <=> job[k].pc = "apply"
                         /\ job'[k].pc = "apply" => job'[k] = job[k]
  PROVE  ManifestInv'
<1>1. ASSUME NEW f \in Families,
             \A k \in Jobs : job'[k].pc = "apply" /\ job'[k].ok => job'[k].f # f
      PROVE  manifest'[f].files = cf'[f].files
  <2>1. \A k \in Jobs : job[k].pc = "apply" /\ job[k].ok => job[k].f # f
    BY Zenon, <1>1
  <2> QED
    BY Zenon, <2>1 DEF FInv, ManifestInv
<1>2. ASSUME NEW k \in Jobs, job'[k].pc = "apply", job'[k].ok
      PROVE  manifest'[job'[k].f].files = EditedFiles(cf'[job'[k].f].files, job'[k].edits)
  <2>1. job[k].pc = "apply" /\ job'[k] = job[k]
    BY Zenon, <1>2
  <2>2. cf'[job[k].f].files = cf[job[k].f].files
    BY Zenon, <2>1 DEF FInv, JobAt, Busy
  <2>3. manifest[job[k].f].files = EditedFiles(cf[job[k].f].files, job[k].edits)
    BY Zenon, <1>2, <2>1 DEF FInv, ManifestInv
  <2> QED
    BY Zenon, <2>1, <2>2, <2>3
<1> QED
  BY Zenon, <1>1, <1>2 DEF ManifestInv

\* A step that starts no job and leaves the numbers of the busy ones alone
LEMMA JobAtStay ==
  ASSUME FInv, next_file' = next_file,
         \A k \in Jobs :
           /\ Busy(k)' => Busy(k)
           /\ Flushing(k)' => Flushing(k)
           /\ job'[k].kind = job[k].kind /\ job'[k].f = job[k].f
           /\ job'[k].file = job[k].file /\ job'[k].pending = job[k].pending
           /\ job'[k].pc = "compact" => job[k].pc = "compact"
           /\ job'[k].pc \in {"manifest", "apply", "applied"} =>
                job[k].pc \in {"manifest", "apply", "applied"}
  PROVE  JobAt'
<1>1. ASSUME NEW k \in Jobs
      PROVE  /\ Busy(k)' => /\ job'[k].f \in Families
                            /\ 0 < job'[k].file /\ job'[k].file < next_file'
                            /\ job'[k].pending = job'[k].file
             /\ Flushing(k)' => job'[k].kind = "flush"
             /\ job'[k].pc = "compact" => job'[k].kind = "compaction"
             /\ job'[k].pc \in {"manifest", "apply", "applied"} =>
                  job'[k].kind \in {"flush", "compaction"}
  BY Zenon DEF FInv, JobAt
<1>2. ASSUME NEW i \in Jobs, NEW k \in Jobs, i # k, Busy(i)', Busy(k)'
      PROVE  job'[i].file # job'[k].file
  <2>1. Busy(i) /\ Busy(k) /\ job'[i].file = job[i].file /\ job'[k].file = job[k].file
    BY Zenon, <1>2
  <2>2. \A a, b \in Jobs : a # b /\ Busy(a) /\ Busy(b) => job[a].file # job[b].file
    BY Zenon DEF FInv, JobAt
  <2> QED
    BY ZenonT(40), <1>2, <2>1, <2>2
<1> QED
  BY Zenon, <1>1, <1>2 DEF JobAt

\* A job that starts gets a file number of its own.
LEMMA JobAtNew ==
  ASSUME FInv, NEW j \in Jobs, next_file' = next_file + 1,
         \A k \in Jobs : k # j => job'[k] = job[k],
         job'[j].f \in Families, job'[j].file = next_file, job'[j].pending = next_file,
         \/ job'[j].pc = "sync" /\ job'[j].kind = "flush"
         \/ job'[j].pc = "compact" /\ job'[j].kind = "compaction"
  PROVE  JobAt'
<1>1. next_file \in Nat /\ logfile_number \in Nat /\ logfile_number < next_file
  BY Zenon DEF FInv, Types, LogInv
<1>2. /\ next_file < next_file' /\ 0 < next_file
      /\ \A n \in Nat : n < next_file => n < next_file' /\ n # next_file
  BY <1>1
<1>3. \A k \in Jobs : k # j =>
        /\ Busy(k)' <=> Busy(k)
        /\ Flushing(k)' <=> Flushing(k)
  BY Zenon DEF Busy, Flushing
<1>4. ASSUME NEW k \in Jobs, k # j
      PROVE  /\ Busy(k)' => /\ job'[k].f \in Families
                            /\ 0 < job'[k].file /\ job'[k].file < next_file'
                            /\ job'[k].file # next_file
                            /\ job'[k].pending = job'[k].file
             /\ Flushing(k)' => job'[k].kind = "flush"
             /\ job'[k].pc = "compact" => job'[k].kind = "compaction"
             /\ job'[k].pc \in {"manifest", "apply", "applied"} =>
                  job'[k].kind \in {"flush", "compaction"}
  <2>1. job'[k] = job[k] /\ job[k].file \in Nat
    BY Zenon, <1>4, JobTypes DEF FInv
  <2> QED
    BY ZenonT(40), <1>2, <1>3, <1>4, <2>1 DEF FInv, JobAt
<1>5. /\ Flushing(j)' => job'[j].kind = "flush"
      /\ job'[j].pc = "compact" => job'[j].kind = "compaction"
      /\ job'[j].pc \notin {"manifest", "apply", "applied"}
  BY Zenon DEF Flushing
<1>6. ASSUME NEW i \in Jobs, NEW k \in Jobs, i # k, Busy(i)', Busy(k)'
      PROVE  job'[i].file # job'[k].file
  <2>1. CASE i # j /\ k # j
    <3>1. \A a, b \in Jobs : a # b /\ Busy(a) /\ Busy(b) => job[a].file # job[b].file
      BY Zenon DEF FInv, JobAt
    <3>2. Busy(i) /\ Busy(k) /\ job'[i] = job[i] /\ job'[k] = job[k]
      BY Zenon, <1>3, <1>6, <2>1
    <3> QED
      BY Zenon, <1>6, <3>1, <3>2
  <2>2. CASE i = j \/ k = j
    BY Zenon, <1>4, <1>6, <2>2
  <2> QED
    BY Zenon, <2>1, <2>2
<1> QED
  BY Zenon, <1>2, <1>4, <1>5, <1>6 DEF JobAt

\* A step of a job that is not in the queue for the MANIFEST
LEMMA QueueStay ==
  ASSUME FInv, NEW j \in Jobs, UNCHANGED manifest_writers,
         \A k \in Jobs : k # j => job'[k] = job[k],
         ~Queued(j), ~Queued(j)'
  PROVE  QueueInv'
<1>1. \A i \in 1 .. Len(manifest_writers) : manifest_writers[i] \in Jobs /\ manifest_writers[i] # j
  BY Zenon, QueueTypes DEF FInv, QueueInv
<1>2. \A k \in Jobs : Queued(k)' <=> Queued(k)
  BY Zenon DEF Queued
<1>3. \A k \in Jobs : job'[k].pc = "apply" => job[k].pc = "apply" /\ job'[k] = job[k]
  BY Zenon DEF Queued
<1>4. ASSUME NEW k \in Jobs, job'[k].pc = "apply"
      PROVE  /\ manifest_writers[1] = k
             /\ job'[k].group \in 1 .. Len(manifest_writers)
             /\ \A i \in 1 .. job'[k].group : job'[manifest_writers[i]].f = job'[k].f
  <2>1. /\ manifest_writers[1] = k
        /\ job[k].group \in 1 .. Len(manifest_writers)
        /\ \A i \in 1 .. job[k].group : job[manifest_writers[i]].f = job[k].f
    BY Zenon, <1>3, <1>4 DEF FInv, QueueInv
  <2>2. \A i \in 1 .. job[k].group : i \in 1 .. Len(manifest_writers)
    BY Zenon, <2>1, QueueTypes, PrefixOf DEF FInv
  <2> QED
    BY ZenonT(40), <1>1, <1>3, <1>4, <2>1, <2>2
<1>5. \A k \in Jobs : Queued(k)' <=>
        \E i \in 1 .. Len(manifest_writers) : manifest_writers[i] = k
  BY Zenon, <1>2 DEF FInv, QueueInv
<1> QED
  BY ZenonT(40), <1>4, <1>5 DEF FInv, QueueInv

\* The queue for the MANIFEST stays as it is when no job moves.
LEMMA QueueSame ==
  ASSUME FInv, UNCHANGED <<job, manifest_writers>>
  PROVE  QueueInv'
BY ZenonT(40) DEF FInv, QueueInv, Queued

\* What is said about the jobs that flush is preserved by a step that leaves them
\* and the lists alone and makes no version and no record of the MANIFEST with
\* their output.
LEMMA OwnStay ==
  ASSUME FInv, \A f \in Families : cf'[f].imm = cf[f].imm,
         \A k \in Jobs : Flushing(k)' =>
           /\ Flushing(k) /\ job'[k].f = job[k].f /\ job'[k].mems = job[k].mems
           /\ job'[k].file = job[k].file,
         \A k \in Jobs : Flushing(k) => /\ job[k].file \notin Live(cf, job)'
                                        /\ \A f \in Families : job[k].file \notin manifest'[f].files
  PROVE  OwnInv'
<1>1. ASSUME NEW k \in Jobs, Flushing(k)'
      PROVE  /\ job'[k].mems \subseteq DOMAIN cf'[job'[k].f].imm
             /\ \A i \in job'[k].mems :
                  cf'[job'[k].f].imm[i].in_progress /\ ~cf'[job'[k].f].imm[i].completed
             /\ \A f \in Families : \A i \in DOMAIN cf'[f].imm :
                  cf'[f].imm[i].completed => cf'[f].imm[i].file # job'[k].file
  <2>1. /\ Flushing(k) /\ job'[k].f = job[k].f /\ job'[k].mems = job[k].mems
        /\ job'[k].file = job[k].file
    BY Zenon, <1>1
  <2>2. job[k].f \in Families
    BY Zenon, <2>1 DEF FInv, JobAt, Flushing, Busy
  <2>3. /\ job[k].mems \subseteq DOMAIN cf[job[k].f].imm
        /\ \A i \in job[k].mems :
             cf[job[k].f].imm[i].in_progress /\ ~cf[job[k].f].imm[i].completed
        /\ \A f \in Families : \A i \in DOMAIN cf[f].imm :
             cf[f].imm[i].completed => cf[f].imm[i].file # job[k].file
    BY Zenon, <2>1 DEF FInv, OwnInv
  <2>4. cf'[job'[k].f].imm = cf[job[k].f].imm
    BY Zenon, <2>1, <2>2
  <2>5. ASSUME NEW f \in Families
        PROVE  \A i \in DOMAIN cf'[f].imm :
                 cf'[f].imm[i].completed => cf'[f].imm[i].file # job'[k].file
    <3>1. cf'[f].imm = cf[f].imm
      BY Zenon
    <3> QED
      BY <2>1, <2>3, <3>1
  <2>6. /\ job'[k].mems \subseteq DOMAIN cf'[job'[k].f].imm
        /\ \A i \in job'[k].mems :
             cf'[job'[k].f].imm[i].in_progress /\ ~cf'[job'[k].f].imm[i].completed
    BY Zenon, <2>1, <2>3, <2>4
  <2> QED
    BY Zenon, <2>5, <2>6
<1>2. \A k \in Jobs : Flushing(k)' => /\ job'[k].file \notin Live(cf, job)'
                                      /\ \A f \in Families : job'[k].file \notin manifest'[f].files
  BY Zenon
<1>3. ASSUME NEW a \in Jobs, NEW b \in Jobs, Flushing(a)', Flushing(b)', job'[a].f = job'[b].f,
             a # b
      PROVE  job'[a].mems \cap job'[b].mems = {}
  <2>1. /\ Flushing(a) /\ Flushing(b) /\ job[a].f = job[b].f
        /\ job'[a].mems = job[a].mems /\ job'[b].mems = job[b].mems
    BY Zenon, <1>3
  <2>2. job[a].mems \cap job[b].mems = {}
    BY Zenon, <1>3, <2>1 DEF FInv, OwnInv
  <2> QED
    BY Zenon, <2>1, <2>2
<1> QED
  BY Zenon, <1>1, <1>2, <1>3 DEF OwnInv

-----------------------------------------------------------------------------
\* PickMemTable: the new file is younger than those of all older memtables. As
\* long as there is no error no memtable is older than one that is in progress
\* and not in progress itself.
LEMMA PickMemTableF ==
  ASSUME FInv, NEW j \in Jobs, NEW f \in Families, job[j].pc = "idle", ~bg_error,
         PickMemTable(j, f),
         UNCHANGED <<logfile_number, alive_log_files, written, manifest_writers, bg_error,
                     obsolete, writer, logs, tables, manifest>>
  PROVE  FInv'
<1> DEFINE imm == cf[f].imm
           picked == FlushNotStarted(imm)
           r == [job[j] EXCEPT !.pc = "sync", !.kind = "flush", !.f = f, !.mems = picked,
                  !.base = cf[f].files, !.file = next_file, !.pending = next_file,
                  !.ok = TRUE]
           M(i, oldest, newest) ==
             [imm[i] EXCEPT !.in_progress = TRUE,
                !.edit = IF i # oldest THEN @ ELSE [log |-> imm[newest].next_log, file |-> 0]]
           L(oldest, newest) ==
             [i \in DOMAIN imm |-> IF i \notin picked THEN imm[i] ELSE M(i, oldest, newest)]
<1>1. PICK oldest \in picked, newest \in picked :
        /\ SetJob(j, r)
        /\ cf' = [cf EXCEPT ![f] = [@ EXCEPT !.flush_requested = FALSE,
                                             !.imm = L(oldest, newest)]]
        /\ next_file' = next_file + 1
  BY Zenon DEF PickMemTable
<1> DEFINE l == L(oldest, newest)
           c == [cf[f] EXCEPT !.flush_requested = FALSE, !.imm = l]
<1>c. cf' = [cf EXCEPT ![f] = c]
  BY Zenon, <1>1
<1>2. /\ job[j] \in Job /\ next_file \in Nat /\ cf[f] \in ColumnFamily
      /\ cf \in [Families -> ColumnFamily]
      /\ cf[f].files \subseteq Nat /\ DOMAIN imm \subseteq Nat
      /\ \A i \in DOMAIN imm : imm[i] \in MemTable
  BY Zenon, JobTypes, CfTypes DEF FInv, Types, ColumnFamily
<1>3. /\ picked \subseteq DOMAIN imm
      /\ \A i \in DOMAIN imm : i \in picked <=> ~imm[i].in_progress
      /\ \A i \in picked : ~imm[i].completed /\ imm[i].edit.file = 0
  BY Zenon DEF FlushNotStarted, FInv, ImmInv
<1>4. \A i \in DOMAIN imm, p \in picked : i \notin picked => ~(p < i)
  BY Zenon, <1>3 DEF FInv, ImmInv
<1> HIDE DEF picked
<1>5. /\ r \in Job /\ r.pc = "sync" /\ r.kind = "flush" /\ r.f = f /\ r.mems = picked
      /\ r.base = cf[f].files /\ r.file = next_file /\ r.pending = next_file
      /\ r.tables = job[j].tables /\ r.logs = job[j].logs /\ r.edits = job[j].edits
  BY Zenon, <1>2, <1>3 DEF Job
<1>6. /\ job' \in [Jobs -> Job] /\ job'[j] = r
      /\ \A k \in Jobs : k # j => job'[k] = job[k]
  BY Zenon, <1>1, <1>5, SetJobTypes DEF FInv
<1> HIDE DEF r
<1>7. ASSUME NEW i \in DOMAIN imm, i \in picked
      PROVE
        /\ M(i, oldest, newest) \in MemTable
        /\ M(i, oldest, newest).in_progress
        /\ M(i, oldest, newest).completed <=> imm[i].completed
        /\ M(i, oldest, newest).file = imm[i].file
        /\ M(i, oldest, newest).next_log = imm[i].next_log
        /\ M(i, oldest, newest).edit.file = 0
        /\ M(i, oldest, newest).edit.log \in {imm[i].edit.log, imm[newest].next_log}
  <2>1. imm[i] \in MemTable /\ imm[newest] \in MemTable /\ imm[i].edit.file = 0
    BY Zenon, <1>2, <1>3, <1>7
  <2>2. imm[newest].next_log \in Nat
    BY Zenon, <2>1 DEF MemTable
  <2> HIDE DEF imm
  <2> QED
    BY Zenon, <2>1, <2>2 DEF MemTable
<1> HIDE DEF M
<1>8. /\ DOMAIN l = DOMAIN imm /\ l \in MemTableList
      /\ \A i \in DOMAIN imm :
           /\ i \notin picked => l[i] = imm[i]
           /\ l[i].in_progress
           /\ l[i].completed <=> imm[i].completed
           /\ l[i].file = imm[i].file /\ l[i].next_log = imm[i].next_log
           /\ l[i].edit.file # 0 => i \notin picked
           /\ l[i].edit.log \in {imm[i].edit.log, imm[newest].next_log}
  <2>1. l \in [DOMAIN imm -> MemTable]
    BY Zenon, <1>2, <1>7
  <2>2. l \in MemTableList
    BY Zenon, <1>2, <2>1 DEF MemTableList
  <2>3. \A i \in DOMAIN imm : l[i] = IF i \notin picked THEN imm[i] ELSE M(i, oldest, newest)
    BY Zenon
  <2> HIDE DEF l
  <2>4. ASSUME NEW i \in DOMAIN imm
        PROVE  /\ i \notin picked => l[i] = imm[i]
               /\ l[i].in_progress
               /\ l[i].completed <=> imm[i].completed
               /\ l[i].file = imm[i].file /\ l[i].next_log = imm[i].next_log
               /\ l[i].edit.file # 0 => i \notin picked
               /\ l[i].edit.log \in {imm[i].edit.log, imm[newest].next_log}
    <3>1. CASE i \in picked
      BY Zenon, <1>7, <2>3, <3>1
    <3>2. CASE i \notin picked
      BY Zenon, <1>3, <2>3, <3>2
    <3> QED
      BY Zenon, <3>1, <3>2
  <2> QED
    BY Zenon, <2>1, <2>2, <2>4
<1> HIDE DEF l
<1>9. /\ c \in ColumnFamily /\ c.imm = l /\ c.mem = cf[f].mem /\ c.files = cf[f].files
      /\ c.commit_in_progress = cf[f].commit_in_progress /\ c.log_number = cf[f].log_number
  BY Zenon, <1>2, <1>8 DEF ColumnFamily
<1>10. /\ cf' \in [Families -> ColumnFamily] /\ cf'[f] = c
       /\ \A g \in Families : g # f => cf'[g] = cf[g]
  <2> HIDE DEF c
  <2> QED
    BY Zenon, <1>2, <1>9, <1>c
<1> HIDE DEF c
<1>11. /\ ~Busy(j) /\ Busy(j)' /\ ~Flushing(j) /\ Flushing(j)' /\ ~Queued(j) /\ ~Queued(j)'
       /\ ~Committing(j) /\ ~Committing(j)' /\ job'[j].pc # "apply" /\ job'[j].pc # "compact"
  BY Zenon, <1>5, <1>6 DEF Busy, Flushing, Queued, Committing
<1>12. /\ \A k \in Jobs : k # j => /\ Busy(k)' <=> Busy(k)
                                   /\ Flushing(k)' <=> Flushing(k)
                                   /\ Queued(k)' <=> Queued(k)
                                   /\ Committing(k)' <=> Committing(k)
                                   /\ \A g, i : Owns(k, g, i)' <=> Owns(k, g, i)
       /\ \A g \in Families : g # f =>
            \A i : /\ \A n : HasFile(g, i, n)' <=> HasFile(g, i, n)
                   /\ Sound(g, i)' <=> Sound(g, i)
  BY Zenon, <1>5, <1>6, <1>10, <1>11, OneFamily
<1>13. \A g \in Families :
         /\ DOMAIN cf'[g].imm = DOMAIN cf[g].imm
         /\ cf'[g].files = cf[g].files /\ cf'[g].mem = cf[g].mem
         /\ cf'[g].commit_in_progress = cf[g].commit_in_progress
         /\ cf'[g].log_number = cf[g].log_number
  BY Zenon, <1>8, <1>9, <1>10
<1>m. ASSUME NEW g \in Families
      PROVE  \A i \in DOMAIN cf[g].imm :
         /\ cf'[g].imm[i].completed <=> cf[g].imm[i].completed
         /\ cf'[g].imm[i].file = cf[g].imm[i].file
         /\ cf'[g].imm[i].next_log = cf[g].imm[i].next_log
  <2>1. CASE g # f
    BY Zenon, <1>10, <2>1
  <2>2. CASE g = f
    BY Zenon, <1>8, <1>9, <1>10, <2>2
  <2> QED
    BY Zenon, <2>1, <2>2
<1>p. ASSUME NEW g \in Families
      PROVE  \A i \in DOMAIN cf[g].imm :
         /\ cf[g].imm[i].in_progress => cf'[g].imm[i] = cf[g].imm[i]
         /\ cf'[g].imm[i].edit.file # 0 => cf[g].imm[i].in_progress
  <2>1. CASE g # f
    BY Zenon, <1>10, <2>1 DEF FInv, ImmInv
  <2>2. CASE g = f
    BY Zenon, <1>3, <1>8, <1>9, <1>10, <2>2
  <2> QED
    BY Zenon, <2>1, <2>2
<1>14. \A k \in Jobs : \A i : Owns(k, f, i) => i \in DOMAIN imm /\ i \notin picked
  BY Zenon, <1>3 DEF FInv, OwnInv, Owns
<1>15. \A k \in Jobs : \A i : Owns(k, f, i)' <=> Owns(k, f, i) \/ (k = j /\ i \in picked)
  BY Zenon, <1>5, <1>6, <1>11, <1>12 DEF Owns
<1>16. ASSUME NEW i \in DOMAIN imm
       PROVE  \A n :
         HasFile(f, i, n)' <=> IF i \in picked THEN n = next_file ELSE HasFile(f, i, n)
  <2>1. cf'[f].imm[i].completed <=> imm[i].completed
    BY Zenon, <1>m
  <2>2. cf'[f].imm[i].file = imm[i].file
    BY Zenon, <1>m
  <2>3. \A k \in Jobs : Owns(k, f, i)' => (IF i \in picked THEN k = j ELSE Owns(k, f, i) /\ k # j)
    BY Zenon, <1>11, <1>14, <1>15 DEF Owns
  <2>4. \A k \in Jobs : Owns(k, f, i) => Owns(k, f, i)' /\ k # j /\ i \notin picked
    BY Zenon, <1>11, <1>14, <1>15 DEF Owns
  <2>5. i \in picked => Owns(j, f, i)' /\ ~imm[i].completed
    BY Zenon, <1>3, <1>15
  <2>6. job'[j].file = next_file
    BY Zenon, <1>5, <1>6
  <2> HIDE DEF imm
  <2>7. CASE i \in picked
    BY Zenon, <2>1, <2>3, <2>5, <2>6, <2>7 DEF HasFile
  <2>8. CASE i \notin picked
    BY Zenon, <1>6, <2>1, <2>2, <2>3, <2>4, <2>8 DEF HasFile, imm
  <2> QED
    BY Zenon, <2>7, <2>8
<1>17. \A g \in Families : \A i \in DOMAIN cf[g].imm :
         cf[g].imm[i].in_progress /\ Sound(g, i)' => Sound(g, i)
  <2> SUFFICES ASSUME NEW g \in Families, NEW i \in DOMAIN cf[g].imm,
                      cf[g].imm[i].in_progress, Sound(g, i)'
               PROVE  Sound(g, i)
    BY Zenon
  <2>1. CASE g # f
    BY Zenon, <1>12, <2>1
  <2>2. CASE g = f
    <3>1. i \notin picked
      BY Zenon, <1>3, <2>2
    <3>2. \A q \in DOMAIN imm : q < i => q \notin picked
      BY Zenon, <1>4, <2>2, <3>1
    <3>3. \A q \in DOMAIN imm : q < i =>
            cf'[f].imm[q].completed \/ \E k \in Jobs : Owns(k, f, q)'
      BY Zenon, <1>13, <2>2 DEF Sound
    <3>4. \A q \in DOMAIN imm : q < i => imm[q].completed \/ \E k \in Jobs : Owns(k, f, q)
      BY Zenon, <1>m, <1>15, <3>2, <3>3
    <3> QED
      BY Zenon, <2>2, <3>4 DEF Sound
  <2> QED
    BY Zenon, <2>1, <2>2
<1>18. Live(cf, job)' \subseteq Live(cf, job)
  <2>1. \A k \in Jobs : job'[k].base \subseteq job[k].base \/ job'[k].base = cf[f].files
    BY Zenon, <1>5, <1>6
  <2> QED
    BY <1>13, <2>1, LiveIs
<1>19. \A n : Needed(n)' => Needed(n) \/ n = next_file
  <2>1. \A g \in Families : \A i \in DOMAIN cf'[g].imm :
          cf'[g].imm[i].completed /\ Sound(g, i)' =>
            i \in DOMAIN cf[g].imm /\ cf[g].imm[i].completed /\ Sound(g, i)
            /\ cf'[g].imm[i].file = cf[g].imm[i].file
    <3> SUFFICES ASSUME NEW g \in Families, NEW i \in DOMAIN cf'[g].imm,
                        cf'[g].imm[i].completed, Sound(g, i)'
                 PROVE  i \in DOMAIN cf[g].imm /\ cf[g].imm[i].completed /\ Sound(g, i)
                        /\ cf'[g].imm[i].file = cf[g].imm[i].file
      BY Zenon
    <3>1. i \in DOMAIN cf[g].imm
      BY Zenon, <1>13
    <3>2. cf[g].imm[i].completed /\ cf'[g].imm[i].file = cf[g].imm[i].file
      BY Zenon, <1>13, <1>m, <3>1
    <3>3. cf[g].imm[i].in_progress
      BY Zenon, <3>1, <3>2 DEF FInv, ImmInv
    <3> QED
      BY Zenon, <1>17, <3>1, <3>2, <3>3
  <2>2. \A k \in Jobs : Busy(k)' => \/ Busy(k) /\ job'[k] = job[k]
                                   \/ job'[k].file = next_file
    BY Zenon, <1>5, <1>6, <1>12
  <2>3. ASSUME NEW n, n # next_file, \E k \in Jobs : Busy(k)' /\ job'[k].file = n
        PROVE  Needed(n)
    BY Zenon, <2>2, <2>3 DEF Needed
  <2>4. ASSUME NEW n, \E g \in Families : \E i \in DOMAIN cf'[g].imm :
                        cf'[g].imm[i].completed /\ cf'[g].imm[i].file = n /\ Sound(g, i)'
        PROVE  Needed(n)
    BY Zenon, <2>1, <2>4 DEF Needed
  <2>5. ASSUME NEW n, n \in Live(cf, job)' \/ \E g \in Families : n \in manifest'[g].files
        PROVE  Needed(n)
    BY Zenon, <1>18, <2>5 DEF Needed
  <2> QED
    BY Zenon, <2>3, <2>4, <2>5 DEF Needed
<1>20. Types'
  BY <1>1, <1>2, <1>6, <1>10 DEF FInv, Types
<1>21. JobAt'
  BY Zenon, <1>1, <1>5, <1>6, JobAtNew
<1>22. QueueInv'
  BY Zenon, <1>6, <1>11, QueueStay
<1>23. CommitInv'
  <2>1. \A k \in Jobs : /\ Committing(k)' <=> Committing(k)
                        /\ Committing(k) => job'[k] = job[k] /\ job[k].f \in Families
    BY Zenon, <1>6, <1>11, <1>12 DEF FInv, JobAt, Committing, Busy
  <2>2. CommitterInv'
    <3>1. \A g \in Families : cf'[g].commit_in_progress <=> cf[g].commit_in_progress
      BY Zenon, <1>13
    <3> QED
      BY ZenonT(60), <2>1, <3>1 DEF FInv, CommitInv, CommitterInv
  <2>3. BatchInv'
    <3> SUFFICES ASSUME NEW k \in Jobs, Committing(k)
                 PROVE  /\ job[k].batch # {} /\ job[k].batch \subseteq DOMAIN cf'[job[k].f].imm
                        /\ \A i \in job[k].batch :
                             /\ cf'[job[k].f].imm[i].completed
                             /\ \A q \in DOMAIN cf'[job[k].f].imm : q < i => q \in job[k].batch
                        /\ \A i \in DOMAIN cf'[job[k].f].imm : \A m \in Nat :
                             HasFile(job[k].f, i, m)' => job[k].file <= m
      BY Zenon, <2>1 DEF BatchInv
    <3>1. /\ job[k].batch # {} /\ job[k].batch \subseteq DOMAIN cf'[job[k].f].imm
          /\ \A i \in job[k].batch :
               /\ cf'[job[k].f].imm[i].completed
               /\ \A q \in DOMAIN cf'[job[k].f].imm : q < i => q \in job[k].batch
      <4>1. /\ job[k].f \in Families
            /\ job[k].batch # {} /\ job[k].batch \subseteq DOMAIN cf[job[k].f].imm
            /\ \A i \in job[k].batch :
                 /\ cf[job[k].f].imm[i].completed
                 /\ \A q \in DOMAIN cf[job[k].f].imm : q < i => q \in job[k].batch
        BY Zenon, <2>1 DEF FInv, CommitInv, BatchInv
      <4> QED
        BY Zenon, <1>13, <1>m, <4>1
    <3>2. job[k].file \in Nat /\ job[k].file <= next_file
      <4>1. job[k].file \in Nat /\ job[k].file < next_file
        BY Zenon, JobTypes DEF FInv, JobAt, Committing, Busy
      <4> QED
        BY <1>2, <4>1
    <3>3. ASSUME NEW i \in DOMAIN cf'[job[k].f].imm, NEW m \in Nat, HasFile(job[k].f, i, m)'
          PROVE  job[k].file <= m
      <4>1. job[k].f \in Families /\ i \in DOMAIN cf[job[k].f].imm
        BY Zenon, <1>13, <2>1
      <4>2. PICK g \in Families : g = job[k].f /\ g = job'[k].f
        BY Zenon, <2>1
      <4>3. HasFile(g, i, m)'
        BY Zenon, <3>3, <4>2
      <4>4. HasFile(g, i, m) \/ m = next_file
        <5>1. CASE g = f
          <6>1. i \in DOMAIN imm
            BY Zenon, <4>1, <4>2, <5>1
          <6>2. HasFile(f, i, m)'
            BY Zenon, <4>3, <5>1
          <6>3. HasFile(f, i, m) \/ m = next_file
            <7> HIDE DEF imm
            <7> QED
              BY Zenon, <1>16, <6>1, <6>2
          <6> QED
            BY Zenon, <5>1, <6>3
        <5>2. CASE g # f
          BY Zenon, <1>12, <4>1, <4>2, <4>3, <5>2
        <5> QED
          BY Zenon, <5>1, <5>2
      <4> QED
        BY ZenonT(30), <3>2, <4>1, <4>2, <4>4 DEF FInv, CommitInv, BatchInv
    <3> QED
      BY Zenon, <3>1, <3>3
  <2>4. OldestInv'
    BY Zenon, <1>13, <1>m DEF FInv, CommitInv, OldestInv
  <2> QED
    BY Zenon, <2>2, <2>3, <2>4 DEF CommitInv
<1>24. ImmInv'
  <2>1. ASSUME NEW g \in Families, NEW i \in DOMAIN cf'[g].imm
        PROVE
          /\ i < cf'[g].mem.id
          /\ cf'[g].imm[i].completed =>
               cf'[g].imm[i].in_progress /\ cf'[g].imm[i].file < next_file'
          /\ cf'[g].imm[i].edit.file # 0 =>
               cf'[g].imm[i].completed /\ cf'[g].imm[i].edit.file = cf'[g].imm[i].file
    <3>1. i \in DOMAIN cf[g].imm /\ i < cf'[g].mem.id
      BY Zenon, <1>13 DEF FInv, ImmInv
    <3>2. cf[g].imm[i].file \in Nat /\ next_file' = next_file + 1
      BY Zenon, <1>1, <3>1, CfTypes DEF FInv
    <3>5. /\ cf[g].imm[i].completed => cf[g].imm[i].in_progress /\ cf[g].imm[i].file < next_file
          /\ cf[g].imm[i].edit.file # 0 =>
               cf[g].imm[i].completed /\ cf[g].imm[i].edit.file = cf[g].imm[i].file
      BY Zenon, <3>1 DEF FInv, ImmInv
    <3>3. cf'[g].imm[i].completed =>
            cf'[g].imm[i].in_progress /\ cf'[g].imm[i].file < next_file'
      <4>1. \A n \in Nat : n < next_file => n < next_file'
        BY <1>2, <3>2
      <4> QED
        BY Zenon, <1>m, <1>p, <3>1, <3>2, <3>5, <4>1
    <3>4. cf'[g].imm[i].edit.file # 0 =>
            cf'[g].imm[i].completed /\ cf'[g].imm[i].edit.file = cf'[g].imm[i].file
      BY Zenon, <1>p, <3>1, <3>5
    <3> QED
      BY ZenonT(30), <3>1, <3>3, <3>4
  <2>2. \A g \in Families : \A i, k \in DOMAIN cf'[g].imm :
          i < k /\ ~cf'[g].imm[i].in_progress /\ cf'[g].imm[k].in_progress => bg_error'
    <3>1. \A i \in DOMAIN cf'[f].imm : cf'[f].imm[i].in_progress
      BY Zenon, <1>8, <1>9, <1>10
    <3>2. \A g \in Families : g # f => cf'[g].imm = cf[g].imm
      BY Zenon, <1>10
    <3> QED
      BY Zenon, <3>1, <3>2 DEF FInv, ImmInv
  <2> QED
    BY Zenon, <2>1, <2>2 DEF ImmInv
<1>25. OwnInv'
  <2>0. \A k \in Jobs : Flushing(k) => k # j /\ job'[k] = job[k] /\ job[k].f \in Families
    BY Zenon, <1>6, <1>11 DEF FInv, JobAt, Flushing, Busy
  <2>1. ASSUME NEW k \in Jobs, Flushing(k)
        PROVE
          /\ job[k].mems \subseteq DOMAIN cf'[job[k].f].imm
          /\ \A i \in job[k].mems :
               cf'[job[k].f].imm[i].in_progress /\ ~cf'[job[k].f].imm[i].completed
          /\ \A g \in Families : \A i \in DOMAIN cf'[g].imm :
               cf'[g].imm[i].completed => cf'[g].imm[i].file # job[k].file
          /\ job[k].file \notin Live(cf, job)'
          /\ \A g \in Families : job[k].file \notin manifest'[g].files
    <3>1. /\ job[k].mems \subseteq DOMAIN cf[job[k].f].imm
          /\ \A i \in job[k].mems :
               cf[job[k].f].imm[i].in_progress /\ ~cf[job[k].f].imm[i].completed
          /\ \A g \in Families : \A i \in DOMAIN cf[g].imm :
               cf[g].imm[i].completed => cf[g].imm[i].file # job[k].file
          /\ job[k].file \notin Live(cf, job)
          /\ \A g \in Families : job[k].file \notin manifest[g].files
      BY Zenon, <2>1 DEF FInv, OwnInv
    <3>2. /\ job[k].mems \subseteq DOMAIN cf'[job[k].f].imm
          /\ \A i \in job[k].mems :
               cf'[job[k].f].imm[i].in_progress /\ ~cf'[job[k].f].imm[i].completed
      <4>1. job[k].f \in Families
        BY Zenon, <2>0, <2>1
      <4>2. DOMAIN cf'[job[k].f].imm = DOMAIN cf[job[k].f].imm
        BY Zenon, <1>13, <4>1
      <4>3. \A i \in DOMAIN cf[job[k].f].imm :
              cf[job[k].f].imm[i].in_progress => cf'[job[k].f].imm[i] = cf[job[k].f].imm[i]
        BY Zenon, <1>p, <4>1
      <4> QED
        BY Zenon, <3>1, <4>2, <4>3
    <3>3. ASSUME NEW g \in Families, NEW i \in DOMAIN cf'[g].imm, cf'[g].imm[i].completed
          PROVE  cf'[g].imm[i].file # job[k].file
      <4>1. i \in DOMAIN cf[g].imm
        BY Zenon, <1>13
      <4>2. cf[g].imm[i].completed /\ cf'[g].imm[i].file = cf[g].imm[i].file
        BY Zenon, <1>m, <3>3, <4>1
      <4> QED
        BY Zenon, <3>1, <4>1, <4>2
    <3> QED
      BY ZenonT(30), <1>18, <3>1, <3>2, <3>3
  <2>2. /\ picked \subseteq DOMAIN cf'[f].imm
        /\ \A i \in picked : cf'[f].imm[i].in_progress /\ ~cf'[f].imm[i].completed
    BY Zenon, <1>3, <1>8, <1>9, <1>10
  <2>3. ASSUME NEW g \in Families, NEW i \in DOMAIN cf'[g].imm, cf'[g].imm[i].completed
        PROVE  cf'[g].imm[i].file # next_file
    <3>0. i \in DOMAIN cf[g].imm
      BY Zenon, <1>13
    <3>3. cf[g].imm[i].completed /\ cf'[g].imm[i].file = cf[g].imm[i].file
      BY Zenon, <1>m, <2>3, <3>0
    <3>1. cf[g].imm[i].file \in Nat /\ cf[g].imm[i].file < next_file
      BY Zenon, <3>0, <3>3, CfTypes DEF FInv, ImmInv
    <3>2. \A n \in Nat : n < next_file => n # next_file
      BY <1>2
    <3> QED
      BY Zenon, <3>1, <3>2, <3>3
  <2>4. /\ next_file \notin Live(cf, job)'
        /\ \A g \in Families : next_file \notin manifest'[g].files
    BY <1>2, <1>18 DEF FInv, TableInv
  <2>5. \A k \in Jobs : Flushing(k) /\ job[k].f = f => picked \cap job[k].mems = {}
    BY Zenon, <1>14 DEF Owns
  <2>6. \A k, m \in Jobs : Flushing(k) /\ Flushing(m) /\ job[k].f = job[m].f /\ k # m
          => job[k].mems \cap job[m].mems = {}
    BY Zenon DEF FInv, OwnInv
  <2>7. \A k \in Jobs : Flushing(k)' <=> k = j \/ Flushing(k)
    BY Zenon, <1>11, <1>12
  <2>8. job'[j].f = f /\ job'[j].mems = picked /\ job'[j].file = next_file
    BY Zenon, <1>5, <1>6
  <2>9. \A k, m \in Jobs : Flushing(k)' /\ Flushing(m)' /\ job'[k].f = job'[m].f /\ k # m
          => job'[k].mems \cap job'[m].mems = {}
    BY ZenonT(30), <2>0, <2>5, <2>6, <2>7, <2>8
  <2>10. ASSUME NEW k \in Jobs, Flushing(k)'
         PROVE
          /\ job'[k].mems \subseteq DOMAIN cf'[job'[k].f].imm
          /\ \A i \in job'[k].mems :
               cf'[job'[k].f].imm[i].in_progress /\ ~cf'[job'[k].f].imm[i].completed
          /\ \A g \in Families : \A i \in DOMAIN cf'[g].imm :
               cf'[g].imm[i].completed => cf'[g].imm[i].file # job'[k].file
          /\ job'[k].file \notin Live(cf, job)'
          /\ \A g \in Families : job'[k].file \notin manifest'[g].files
    <3>1. CASE k = j
      BY Zenon, <2>2, <2>3, <2>4, <2>8, <3>1
    <3>2. CASE k # j
      <4>1. Flushing(k) /\ job'[k] = job[k]
        BY Zenon, <2>0, <2>7, <2>10, <3>2
      <4> QED
        BY ZenonT(40), <2>1, <4>1
    <3> QED
      BY ZenonT(30), <3>1, <3>2
  <2> QED
    BY Zenon, <2>9, <2>10 DEF OwnInv
<1>26. OrderInv'
  <2> SUFFICES ASSUME NEW g \in Families, NEW i \in DOMAIN cf[g].imm, NEW k \in DOMAIN cf[g].imm,
                      i < k, NEW n \in Nat, NEW p \in Nat,
                      HasFile(g, i, n)', HasFile(g, k, p)'
               PROVE  n <= p
    BY Zenon, <1>13 DEF OrderInv
  <2>1. CASE g # f
    BY Zenon, <1>12, <2>1 DEF FInv, OrderInv
  <2>2. CASE g = f
    <3>1. CASE i \in picked
      <4>1. k \in picked
        BY ZenonT(30), <1>4, <2>2, <3>1
      <4> QED
        BY <1>16, <2>2, <3>1, <4>1
    <3>2. CASE i \notin picked /\ k \in picked
      <4>1. n < next_file /\ p = next_file
        BY Zenon, <1>16, <2>2, <3>2, HasFileBelow
      <4> QED
        BY <1>2, <4>1
    <3>3. CASE i \notin picked /\ k \notin picked
      BY Zenon, <1>16, <2>2, <3>3 DEF FInv, OrderInv
    <3> QED
      BY Zenon, <3>1, <3>2, <3>3
  <2> QED
    BY Zenon, <2>1, <2>2
<1>27. TableInv'
  <2>1. ASSUME NEW g \in Families, NEW i \in DOMAIN cf'[g].imm,
               cf'[g].imm[i].edit.file # 0, Sound(g, i)'
        PROVE  cf'[g].imm[i].edit.file \in DOMAIN tables
    <3>1. i \in DOMAIN cf[g].imm
      BY Zenon, <1>13
    <3>2. cf'[g].imm[i] = cf[g].imm[i] /\ Sound(g, i)
      BY Zenon, <1>p, <1>17, <2>1, <3>1
    <3> QED
      BY Zenon, <2>1, <3>1, <3>2 DEF FInv, TableInv
  <2>2. \A k \in Jobs : job'[k].kind = "compaction" /\ Busy(k)' =>
          job[k].kind = "compaction" /\ Busy(k) /\ job'[k] = job[k]
    BY Zenon, <1>5, <1>6, <1>12
  <2>3. \A n \in DOMAIN tables : n \in Nat /\ n < next_file'
    BY <1>1, <1>2 DEF FInv, TableInv
  <2> QED
    BY Zenon, <1>18, <2>1, <2>2, <2>3 DEF FInv, TableInv
<1>28. PurgeInv'
  <2>1. \A k \in Jobs : job[k].tables \subseteq Nat /\ job'[k].tables = job[k].tables
    BY ZenonT(30), <1>5, <1>6, JobTypes DEF FInv
  <2> QED
    BY <1>1, <1>2, <1>19, <2>1 DEF FInv, PurgeInv
<1>29. ManifestInv'
  <2>1. \A k \in Jobs : /\ job'[k].pc = "apply" <=> job[k].pc = "apply"
                        /\ job'[k].pc = "apply" => job'[k] = job[k] /\ job[k].f \in Families
    BY ZenonT(30), <1>6, <1>11 DEF FInv, JobAt, Busy
  <2>2. ASSUME NEW k \in Jobs, Queued(k), NEW n, Adds(k, n)
        PROVE  Queued(k)' /\ Adds(k, n)'
    <3>1. k # j /\ job'[k] = job[k] /\ Queued(k)'
      BY Zenon, <1>6, <1>11, <1>12, <2>2
    <3>2. CASE job[k].kind = "compaction"
      BY Zenon, <2>2, <3>1, <3>2 DEF Adds
    <3>3. CASE job[k].kind # "compaction"
      <4>1. PICK i \in job[k].batch : cf[job[k].f].imm[i].edit.file = n
        BY Zenon, <2>2, <3>3 DEF Adds
      <4>2. Committing(k)
        BY Zenon, <2>2, <3>3 DEF Adds, Committing, Queued
      <4>3. /\ job[k].f \in Families /\ i \in DOMAIN cf[job[k].f].imm
            /\ cf[job[k].f].imm[i].completed
        BY Zenon, <4>2, BatchSound
      <4>4. cf'[job[k].f].imm[i] = cf[job[k].f].imm[i]
        <5>1. cf[job[k].f].imm[i].in_progress
          BY Zenon, <4>3 DEF FInv, ImmInv
        <5> QED
          BY Zenon, <1>p, <4>3, <5>1
      <4> QED
        BY Zenon, <2>2, <3>1, <3>3, <4>1, <4>4 DEF Adds
    <3> QED
      BY Zenon, <3>2, <3>3
  <2>3. AddsInv'
    BY ZenonT(30), <2>1, <2>2 DEF FInv, ManifestInv, AddsInv
  <2>4. \A g \in Families : cf'[g].files = cf[g].files
    BY Zenon, <1>13
  <2> QED
    BY Zenon, <2>1, <2>3, <2>4, ManifestStay
<1>30. LogInv'
  <2>1. \A g \in Families :
           /\ cf'[g].log_number <= logfile_number
           /\ \A i \in DOMAIN cf'[g].imm : cf'[g].imm[i].next_log <= logfile_number
    BY ZenonT(40), <1>13, <1>m DEF FInv, LogInv
  <2>2. \A g \in Families : \A i \in DOMAIN cf'[g].imm : cf'[g].imm[i].edit.log <= logfile_number
    <3>1. \A g \in Families : \A i \in DOMAIN cf[g].imm :
            cf[g].imm[i].edit.log <= logfile_number /\ cf[g].imm[i].next_log <= logfile_number
      BY Zenon DEF FInv, LogInv
    <3>2. \A g \in Families : g # f => cf'[g].imm = cf[g].imm
      BY Zenon, <1>10
    <3>3. cf'[f].imm = l /\ newest \in DOMAIN imm
      BY Zenon, <1>3, <1>9, <1>10
    <3>4. \A i \in DOMAIN cf'[f].imm : cf'[f].imm[i].edit.log <= logfile_number
      BY ZenonT(30), <1>8, <3>1, <3>3
    <3> QED
      BY Zenon, <3>1, <3>2, <3>4
  <2>3. next_file' \in Nat /\ next_file <= next_file'
    BY <1>1, <1>2
  <2>4. job'[j].logs = job[j].logs /\ \A e \in job'[j].edits : e.log <= logfile_number
    BY Zenon, <1>5, <1>6 DEF FInv, LogInv
  <2> QED
    BY Zenon, <1>6, <2>1, <2>2, <2>3, <2>4, LogF
<1> QED
  BY ZenonT(30), <1>20, <1>21, <1>22, <1>23, <1>24, <1>25, <1>26, <1>27, <1>28, <1>29, <1>30 DEF FInv

\* The first writer installs the version and wakes the other writers of its group.
LEMMA ApplyF ==
  ASSUME FInv, NEW j \in Jobs, Apply(j)
  PROVE  FInv'
<1> DEFINE F == job[j].f
           n == job[j].group
           members == {manifest_writers[i] : i \in 1 .. n}
           W(k) == [job[k] EXCEPT !.pc = "applied", !.ok = job[j].ok, !.group = 0, !.edits = {}]
<1>1. /\ job[j].pc = "apply"
      /\ job' = [k \in Jobs |-> IF k \in members THEN W(k) ELSE job[k]]
      /\ manifest_writers' = SubSeq(manifest_writers, n + 1, Len(manifest_writers))
      /\ obsolete' = obsolete \cup (Live(cf, job) \ Live(cf', job'))
      /\ UNCHANGED <<next_file, logfile_number, alive_log_files, written, bg_error,
                     writer, logs, tables, manifest>>
  BY Zenon DEF Apply, walstate, disk, ReleaseVersions
<1>2. /\ manifest_writers \in Seq(Jobs) /\ Len(manifest_writers) \in Nat
      /\ n \in 1 .. Len(manifest_writers)
      /\ manifest_writers[1] = j
      /\ \A k \in members : k \in Jobs /\ Queued(k)
      /\ j \in members /\ F \in Families
      /\ job \in [Jobs -> Job] /\ cf \in [Families -> ColumnFamily]
  <2>1. /\ n \in 1 .. Len(manifest_writers) /\ manifest_writers[1] = j
        /\ \A i \in 1 .. Len(manifest_writers) : manifest_writers[i] \in Jobs
    BY Zenon, <1>1, QueueTypes DEF FInv, QueueInv
  <2>2. \A k \in members : k \in Jobs /\ Queued(k)
    BY <2>1 DEF FInv, QueueInv
  <2>3. 1 \in 1 .. n /\ Len(manifest_writers) \in Nat
    BY <2>1, QueueTypes DEF FInv
  <2>4. F \in Families
    BY Zenon, <1>1 DEF FInv, JobAt, Busy
  <2>5. j \in members
    BY Zenon, <2>1, <2>3
  <2> HIDE DEF F, members
  <2> QED
    BY ZenonT(30), <2>1, <2>2, <2>3, <2>4, <2>5 DEF FInv, Types
<1>3. \A k \in Jobs : job[k].pc = "apply" => k = j /\ k \in members
  <2> HIDE DEF members
  <2> QED
    BY Zenon, <1>2 DEF FInv, QueueInv
<1>4. ASSUME NEW k \in Jobs
      PROVE
        /\ W(k) \in Job /\ W(k).pc = "applied" /\ W(k).edits = {}
        /\ W(k).kind = job[k].kind /\ W(k).f = job[k].f
        /\ W(k).mems = job[k].mems /\ W(k).base = job[k].base /\ W(k).file = job[k].file
        /\ W(k).pending = job[k].pending /\ W(k).batch = job[k].batch
        /\ W(k).tables = job[k].tables /\ W(k).logs = job[k].logs
  <2>1. job[k] \in Job /\ job[j] \in Job
    BY Zenon, JobTypes DEF FInv
  <2>2. job[j].ok \in BOOLEAN
    BY Zenon, <2>1 DEF Job
  <2> QED
    BY Zenon, <2>1, <2>2 DEF Job
<1> HIDE DEF members, W
<1>5. job' \in [Jobs -> Job]
  BY Zenon, <1>1, <1>2, <1>4
<1>6. \A k \in Jobs :
        /\ k \in members => job'[k].pc = "applied" /\ job'[k].edits = {}
        /\ k \notin members => job'[k] = job[k]
        /\ job'[k].kind = job[k].kind /\ job'[k].f = job[k].f
        /\ job'[k].mems = job[k].mems /\ job'[k].base = job[k].base
        /\ job'[k].file = job[k].file /\ job'[k].pending = job[k].pending
        /\ job'[k].batch = job[k].batch /\ job'[k].tables = job[k].tables
        /\ job'[k].logs = job[k].logs
  BY Zenon, <1>1, <1>4
<1>7. \A k \in Jobs :
        /\ Busy(k)' <=> Busy(k)
        /\ Flushing(k)' <=> Flushing(k)
        /\ Committing(k)' <=> Committing(k)
        /\ Queued(k)' <=> Queued(k) /\ k \notin members
        /\ job'[k].pc # "apply"
        /\ job'[k].pc = "compact" => job[k].pc = "compact"
        /\ job'[k].pc \in {"manifest", "apply", "applied"} =>
             job[k].pc \in {"manifest", "apply", "applied"}
  BY <1>2, <1>3, <1>6 DEF Busy, Flushing, Committing, Queued
<1>8. \A k \in Jobs : \A f, i : Owns(k, f, i)' <=> Owns(k, f, i)
  BY ZenonT(30), <1>6, <1>7 DEF Owns
<1>9. /\ cf' \in [Families -> ColumnFamily]
      /\ \A f \in Families : /\ cf'[f].imm = cf[f].imm /\ cf'[f].mem = cf[f].mem
                             /\ cf'[f].commit_in_progress = cf[f].commit_in_progress
                             /\ cf'[f].log_number <= logfile_number
                             /\ cf'[f].files = manifest[f].files
  <2>1. \A f \in Families : (f # F \/ ~job[j].ok) => manifest[f].files = cf[f].files
    BY Zenon, <1>3 DEF FInv, ManifestInv
  <2>2. CASE ~job[j].ok
    <3>1. cf' = cf
      BY Zenon, <2>2 DEF Apply
    <3> QED
      BY ZenonT(30), <1>2, <2>1, <2>2, <3>1 DEF FInv, LogInv
  <2>3. CASE job[j].ok
    <3>1. PICK log \in Highest(IF EditLogs(job[j].edits) = {} THEN {cf[F].log_number}
                               ELSE EditLogs(job[j].edits)) :
            cf' = [cf EXCEPT ![F] = [@ EXCEPT !.log_number = log,
                                       !.files = EditedFiles(cf[F].files, job[j].edits)]]
      BY Zenon, <2>3 DEF Apply
    <3>2. log \in Nat /\ log <= logfile_number
      <4>1. cf[F].log_number \in Nat /\ cf[F].log_number <= logfile_number
        BY Zenon, <1>2 DEF ColumnFamily, FInv, LogInv
      <4>2. \A e \in job[j].edits : e.log \in Nat /\ e.log <= logfile_number
        BY <1>2 DEF Job, Edit, FInv, LogInv
      <4> HIDE DEF F
      <4> QED
        BY Zenon, <4>1, <4>2 DEF Highest, EditLogs
    <3>3. manifest[F].files = EditedFiles(cf[F].files, job[j].edits)
      BY Zenon, <1>1, <2>3 DEF FInv, ManifestInv
    <3>4. manifest[F].files \in SUBSET Nat
      BY Zenon, <1>2 DEF FInv, Types
    <3> DEFINE c == [cf[F] EXCEPT !.log_number = log, !.files = manifest[F].files]
    <3>5. cf' = [cf EXCEPT ![F] = c]
      BY Zenon, <3>1, <3>3
    <3>6. /\ c \in ColumnFamily /\ c.imm = cf[F].imm /\ c.mem = cf[F].mem
          /\ c.commit_in_progress = cf[F].commit_in_progress /\ c.log_number = log
          /\ c.files = manifest[F].files
      <4>1. cf[F] \in ColumnFamily
        BY Zenon, <1>2
      <4> QED
        BY Zenon, <3>2, <3>4, <4>1 DEF ColumnFamily
    <3> HIDE DEF c, F
    <3>7. \A f \in Families : cf[f].log_number <= logfile_number
      BY Zenon DEF FInv, LogInv
    <3> QED
      BY Zenon, <1>2, <2>1, <3>2, <3>5, <3>6, <3>7
  <2> QED
    BY Zenon, <2>2, <2>3
<1> HIDE DEF F
<1>10. \A f \in Families : \A i : /\ \A m : HasFile(f, i, m)' <=> HasFile(f, i, m)
                                  /\ Sound(f, i)' <=> Sound(f, i)
  BY <1>6, <1>8, <1>9 DEF HasFile, Sound
<1>11. \A m \in Live(cf, job)' : m \in Live(cf, job) \/ \E f \in Families : m \in manifest[f].files
  <2>1. \A k \in Jobs : job'[k].base = job[k].base
    BY Zenon, <1>6
  <2>2. \A f \in Families : cf'[f].files = manifest[f].files
    BY Zenon, <1>9
  <2>3. ASSUME NEW m \in Live(cf, job)'
        PROVE  m \in Live(cf, job) \/ \E f \in Families : m \in manifest[f].files
    <3>1. (\E f \in Families : m \in cf'[f].files) \/ (\E k \in Jobs : m \in job'[k].base)
      BY Zenon, LiveIs
    <3> QED
      BY Zenon, <2>1, <2>2, <3>1, LiveIs
  <2> QED
    BY Zenon, <2>3
<1>12. \A m : Needed(m)' => Needed(m)
  <2>1. ASSUME NEW m, m \in Live(cf, job)' \/ \E f \in Families : m \in manifest'[f].files
        PROVE  Needed(m)
    BY Zenon, <1>1, <1>11, <2>1 DEF Needed
  <2>3. ASSUME NEW m, \E k \in Jobs : Busy(k)' /\ job'[k].file = m
        PROVE  Needed(m)
    <3>1. \E k \in Jobs : Busy(k) /\ job[k].file = m
      BY Zenon, <1>6, <1>7, <2>3
    <3> QED
      BY Zenon, <3>1 DEF Needed
  <2>2. ASSUME NEW m, \E f \in Families : \E i \in DOMAIN cf'[f].imm :
                        cf'[f].imm[i].completed /\ cf'[f].imm[i].file = m /\ Sound(f, i)'
        PROVE  Needed(m)
    BY Zenon, <1>9, <1>10, <2>2 DEF Needed
  <2> QED
    BY Zenon, <2>1, <2>2, <2>3 DEF Needed
<1>13. \A k \in Jobs : /\ Busy(k) => job[k].f \in Families
                       /\ Flushing(k) \/ Committing(k) => job[k].f \in Families
  BY Zenon DEF FInv, JobAt, Busy, Flushing, Committing
<1>14. Types'
  <2>1. manifest_writers' \in Seq(Jobs)
    BY <1>1, <1>2
  <2>2. obsolete' \subseteq Nat
    BY Zenon, <1>1, ObsoleteTypes
  <2> QED
    BY Zenon, <1>1, <1>5, <1>9, <2>1, <2>2 DEF FInv, Types
<1>15. JobAt'
  BY Zenon, <1>1, <1>6, <1>7, JobAtStay
<1>16. QueueInv'
  <2>1. /\ Len(manifest_writers') = Len(manifest_writers) - n
        /\ \A i \in 1 .. Len(manifest_writers) - n : manifest_writers'[i] = manifest_writers[n + i]
    <3> HIDE DEF n
    <3> QED
      BY <1>1, <1>2
  <2>2. \A i, k \in 1 .. Len(manifest_writers') :
          manifest_writers'[i] = manifest_writers'[k] => i = k
    <3>1. \A i, k \in 1 .. Len(manifest_writers) : manifest_writers[i] = manifest_writers[k] => i = k
      BY Zenon DEF FInv, QueueInv
    <3> HIDE DEF n
    <3>2. \A i \in 1 .. Len(manifest_writers') : /\ n + i \in 1 .. Len(manifest_writers)
                                                 /\ manifest_writers'[i] = manifest_writers[n + i]
      BY <1>2, <2>1
    <3>3. \A i, k \in 1 .. Len(manifest_writers') : n + i = n + k => i = k
      BY <1>2
    <3> QED
      BY Zenon, <3>1, <3>2, <3>3
  <2>3. \A k \in Jobs : Queued(k)' <=>
          \E i \in 1 .. Len(manifest_writers') : manifest_writers'[i] = k
    <3>1. \A k \in Jobs : Queued(k) <=>
            \E i \in 1 .. Len(manifest_writers) : manifest_writers[i] = k
      BY Zenon DEF FInv, QueueInv
    <3>2. \A i, k \in 1 .. Len(manifest_writers) : manifest_writers[i] = manifest_writers[k] => i = k
      BY Zenon DEF FInv, QueueInv
    <3>3. \A k : k \in members <=> \E i \in 1 .. n : manifest_writers[i] = k
      BY Zenon DEF members
    <3> HIDE DEF n
    <3>4. ASSUME NEW k \in Jobs, NEW i \in 1 .. Len(manifest_writers), manifest_writers[i] = k,
                 k \notin members
          PROVE  \E m \in 1 .. Len(manifest_writers') : manifest_writers'[m] = k
      <4>1. i - n \in 1 .. Len(manifest_writers') /\ n + (i - n) = i
        BY <1>2, <2>1, <3>3, <3>4
      <4> QED
        BY Zenon, <2>1, <3>4, <4>1
    <3>5. ASSUME NEW k \in Jobs, NEW m \in 1 .. Len(manifest_writers'), manifest_writers'[m] = k
          PROVE  Queued(k) /\ k \notin members
      <4>1. n + m \in 1 .. Len(manifest_writers) /\ manifest_writers[n + m] = k
            /\ n + m \notin 1 .. n /\ 1 .. n \subseteq 1 .. Len(manifest_writers)
        BY <1>2, <2>1, <3>5
      <4> QED
        BY ZenonT(30), <3>1, <3>2, <3>3, <4>1
    <3> QED
      BY Zenon, <1>7, <3>1, <3>4, <3>5
  <2> QED
    BY Zenon, <1>7, <2>2, <2>3 DEF QueueInv
<1>c. \A k \in Jobs : /\ Committing(k)' <=> Committing(k)
                      /\ Flushing(k)' <=> Flushing(k)
                      /\ job'[k].f = job[k].f /\ job'[k].file = job[k].file
                      /\ job'[k].mems = job[k].mems /\ job'[k].batch = job[k].batch
  BY ZenonT(60), <1>6, <1>7
<1>s. \A f \in Families : /\ cf'[f].imm = cf[f].imm
                          /\ cf'[f].commit_in_progress = cf[f].commit_in_progress
  BY Zenon, <1>9
<1>17. CommitInv'
  <2>1. CommitterInv'
    <3>1. \A a, b \in Jobs : Committing(a)' /\ Committing(b)' /\ job'[a].f = job'[b].f => a = b
      BY Zenon, <1>c DEF FInv, CommitInv, CommitterInv
    <3>2. ASSUME NEW f \in Families
          PROVE  cf'[f].commit_in_progress <=> \E k \in Jobs : Committing(k)' /\ job'[k].f = f
      <4>1. cf[f].commit_in_progress <=> \E k \in Jobs : Committing(k) /\ job[k].f = f
        BY Zenon DEF FInv, CommitInv, CommitterInv
      <4>2. ASSUME NEW k \in Jobs
            PROVE  Committing(k)' /\ job'[k].f = f <=> Committing(k) /\ job[k].f = f
        BY Zenon, <1>c
      <4> QED
        BY Zenon, <1>s, <4>1, <4>2
    <3> QED
      BY Zenon, <3>1, <3>2 DEF CommitterInv
  <2>2. BatchInv'
    <3> SUFFICES ASSUME NEW k \in Jobs, Committing(k)'
                 PROVE  /\ job'[k].batch # {} /\ job'[k].batch \subseteq DOMAIN cf'[job'[k].f].imm
                        /\ \A i \in job'[k].batch :
                             /\ cf'[job'[k].f].imm[i].completed
                             /\ \A q \in DOMAIN cf'[job'[k].f].imm : q < i => q \in job'[k].batch
                        /\ \A i \in DOMAIN cf'[job'[k].f].imm : \A m \in Nat :
                             HasFile(job[k].f, i, m)' => job'[k].file <= m
      BY Zenon, <1>c DEF BatchInv
    <3>1. /\ Committing(k) /\ job[k].f \in Families /\ job'[k].f = job[k].f
          /\ job'[k].file = job[k].file /\ job'[k].batch = job[k].batch
          /\ cf'[job'[k].f].imm = cf[job[k].f].imm
      BY Zenon, <1>c, <1>s, <1>13
    <3> QED
      BY Zenon, <1>10, <3>1 DEF FInv, CommitInv, BatchInv
  <2>3. OldestInv'
    BY ZenonT(60), <1>9 DEF FInv, CommitInv, OldestInv
  <2> QED
    BY Zenon, <2>1, <2>2, <2>3 DEF CommitInv
<1>18. ImmInv'
  BY ZenonT(60), <1>1, <1>9 DEF FInv, ImmInv
<1>19. OwnInv'
  <2>1. \A k \in Jobs : Flushing(k) => job[k].file \notin Live(cf, job)'
    BY Zenon, <1>11 DEF FInv, OwnInv
  <2> QED
    BY Zenon, <1>1, <1>c, <1>s, <2>1, OwnStay DEF FInv, OwnInv
<1>20. OrderInv'
  BY ZenonT(60), <1>9, <1>10 DEF FInv, OrderInv
<1>21. TableInv'
  <2>1. Live(cf, job)' \subseteq DOMAIN tables
    BY Zenon, <1>11 DEF FInv, TableInv
  <2>2. \A k \in Jobs : job'[k].kind = job[k].kind /\ (Busy(k)' <=> Busy(k))
    BY Zenon, <1>6, <1>7
  <2> QED
    BY ZenonT(30), <1>1, <1>c, <1>s, <1>10, <2>1, <2>2 DEF FInv, TableInv
<1>22. PurgeInv'
  BY ZenonT(30), <1>1, <1>6, <1>12 DEF FInv, PurgeInv
<1>23. ManifestInv'
  BY Zenon, <1>1, <1>7, <1>9 DEF ManifestInv, AddsInv
<1>24. LogInv'
  BY ZenonT(30), <1>1, <1>6, <1>9 DEF FInv, LogInv
<1> QED
  BY ZenonT(30), <1>14, <1>15, <1>16, <1>17, <1>18, <1>19, <1>20, <1>21, <1>22, <1>23, <1>24 DEF FInv

\* The end of SwitchMemtable: a new, youngest memtable in the list, and log numbers
\* that go up.
LEMMA EndSwitchF ==
  ASSUME FInv, EndSwitch
  PROVE  FInv'
<1> DEFINE f == writer.f
           id == cf[f].mem.id
           log == IF writer.new = 0 THEN logfile_number ELSE writer.new
           adv(g) == IF writer.new # 0 /\ NoData(cf[g]) THEN [cf[g] EXCEPT !.log_number = log]
                     ELSE cf[g]
           advanced == [g \in Families |-> adv(g)]
           l == [i \in DOMAIN cf[f].imm \cup {id} |->
                   IF i = id THEN Immutable(cf[f].mem.data, log) ELSE cf[f].imm[i]]
           switched == [advanced[f] EXCEPT !.imm = l, !.mem = [id |-> id + 1, data |-> {}]]
           c == IF writer.why # "scheduled" THEN FlushRequested(switched) ELSE switched
<1>1. /\ writer.pc = "switching" /\ writer.ok
      /\ logfile_number' = log
      /\ alive_log_files' = IF writer.new = 0 THEN alive_log_files
                            ELSE [n \in DOMAIN alive_log_files \cup {writer.new} |->
                                    n # writer.new /\ alive_log_files[n]]
      /\ UNCHANGED <<next_file, written, manifest_writers, obsolete, bg_error, job,
                     logs, tables, manifest>>
  BY Zenon DEF EndSwitch, disk
<1>2. cf' = [advanced EXCEPT ![f] = c]
  BY Zenon DEF EndSwitch
<1>3. /\ f \in Families /\ writer \in Writer /\ next_file \in Nat /\ logfile_number \in Nat
      /\ cf \in [Families -> ColumnFamily]
  BY Zenon, <1>1 DEF FInv, Types
<1>4. writer' \in Writer /\ (writer'.pc = "switching" => writer'.f \in Families /\ writer'.new = 0)
  <2>1. CASE writer' = IdleWriter
    BY Zenon, <2>1 DEF IdleWriter, Writer, Reasons
  <2>2. ASSUME NEW g \in writer.todo,
               writer' = [writer EXCEPT !.f = g, !.todo = @ \ {g}, !.new = 0]
        PROVE  writer' \in Writer /\ writer'.f \in Families /\ writer'.new = 0
    <3>1. g \in Families
      BY Zenon, <1>3 DEF Writer
    <3> QED
      BY Zenon, <1>3, <2>2, <3>1 DEF Writer
  <2>3. \/ writer' = IdleWriter
        \/ \E g \in writer.todo : writer' = [writer EXCEPT !.f = g, !.todo = @ \ {g}, !.new = 0]
    BY Zenon DEF EndSwitch, NeedOldestLog
  <2>4. IdleWriter.pc = "idle"
    BY Zenon DEF IdleWriter
  <2> QED
    BY Zenon, <2>1, <2>2, <2>3, <2>4
<1>5. /\ log \in Nat /\ logfile_number <= log /\ log < next_file
      /\ writer.new # 0 => writer.new \in logs /\ logfile_number < writer.new
  BY <1>1, <1>3 DEF FInv, LogInv, Writer
<1> HIDE DEF log
<1>6. ASSUME NEW g \in Families
      PROVE  /\ adv(g) \in ColumnFamily /\ adv(g).imm = cf[g].imm /\ adv(g).files = cf[g].files
             /\ adv(g).mem = cf[g].mem /\ adv(g).commit_in_progress = cf[g].commit_in_progress
             /\ adv(g).log_number <= log /\ adv(g).flush_requested = cf[g].flush_requested
  <2>1. cf[g] \in ColumnFamily /\ cf[g].log_number <= logfile_number /\ cf[g].log_number \in Nat
    BY Zenon, <1>3 DEF FInv, LogInv, ColumnFamily
  <2>2. [cf[g] EXCEPT !.log_number = log] \in ColumnFamily
    BY Zenon, <1>5, <2>1 DEF ColumnFamily
  <2>3. cf[g].log_number <= log
    BY <1>3, <1>5, <2>1
  <2> QED
    BY <1>5, <2>1, <2>2, <2>3 DEF ColumnFamily
<1>7. advanced[f] = adv(f)
  BY Zenon, <1>3
<1> HIDE DEF adv
<1>8. /\ DOMAIN cf[f].imm \subseteq Nat /\ id \in Nat /\ cf[f].mem.data \in SUBSET Nat
      /\ \A i \in DOMAIN cf[f].imm : cf[f].imm[i] \in MemTable /\ i < id
  <2>1. cf[f] \in ColumnFamily
    BY Zenon, <1>3
  <2> QED
    BY Zenon, <1>3, <2>1, CfTypes DEF FInv, ImmInv, ColumnFamily
<1> HIDE DEF id
<1>9. /\ l \in MemTableList /\ DOMAIN l = DOMAIN cf[f].imm \cup {id}
      /\ \A i \in DOMAIN cf[f].imm : l[i] = cf[f].imm[i]
      /\ ~l[id].in_progress /\ ~l[id].completed /\ l[id].edit.file = 0 /\ l[id].edit.log = 0
      /\ l[id].next_log = log
  <2>1. /\ Immutable(cf[f].mem.data, log) \in MemTable
        /\ ~Immutable(cf[f].mem.data, log).in_progress
        /\ ~Immutable(cf[f].mem.data, log).completed
        /\ Immutable(cf[f].mem.data, log).edit.file = 0
        /\ Immutable(cf[f].mem.data, log).edit.log = 0
        /\ Immutable(cf[f].mem.data, log).next_log = log
    BY Zenon, <1>5, <1>8 DEF Immutable, MemTable, NoEdit
  <2> HIDE DEF f
  <2>2. l \in [DOMAIN cf[f].imm \cup {id} -> MemTable]
    BY Zenon, <1>8, <2>1
  <2>3. l \in MemTableList
    BY Zenon, <1>8, <2>2 DEF MemTableList
  <2>4. l[id] = Immutable(cf[f].mem.data, log)
    BY Zenon
  <2>5. \A i \in DOMAIN cf[f].imm : i # id /\ l[i] = cf[f].imm[i]
    BY <1>8
  <2> HIDE DEF l
  <2> QED
    BY Zenon, <2>1, <2>2, <2>3, <2>4, <2>5
<1> HIDE DEF l
<1>10. /\ switched \in ColumnFamily /\ switched.imm = l /\ switched.files = cf[f].files
       /\ switched.mem.id = id + 1 /\ switched.log_number <= log
       /\ switched.commit_in_progress = cf[f].commit_in_progress
  <2> DEFINE a == advanced[f]
  <2>1. /\ a \in ColumnFamily /\ a.files = cf[f].files /\ a.log_number <= log
        /\ a.commit_in_progress = cf[f].commit_in_progress
    BY Zenon, <1>3, <1>6, <1>7
  <2> HIDE DEF a
  <2>2. switched = [a EXCEPT !.imm = l, !.mem = [id |-> id + 1, data |-> {}]]
    BY Zenon DEF a
  <2>3. [id |-> id + 1, data |-> {}] \in [id : Nat, data : SUBSET Nat]
    BY <1>8
  <2> HIDE DEF switched
  <2> QED
    BY Zenon, <1>9, <2>1, <2>2, <2>3 DEF ColumnFamily
<1> HIDE DEF switched
<1>11. /\ c \in ColumnFamily /\ c.imm = l /\ c.files = cf[f].files
       /\ c.mem.id = id + 1 /\ c.log_number <= log
       /\ c.commit_in_progress = cf[f].commit_in_progress
  BY Zenon, <1>10 DEF FlushRequested, ColumnFamily
<1> HIDE DEF c
<1>12. /\ cf' \in [Families -> ColumnFamily] /\ cf'[f] = c
       /\ \A g \in Families : g # f => cf'[g] = adv(g)
  <2>1. advanced \in [Families -> ColumnFamily] /\ \A g \in Families : advanced[g] = adv(g)
    BY Zenon, <1>6
  <2> HIDE DEF advanced, f
  <2> QED
    BY Zenon, <1>2, <1>3, <1>11, <2>1
<1>13. \A g \in Families :
         /\ cf'[g].files = cf[g].files /\ cf'[g].log_number <= log
         /\ cf'[g].commit_in_progress <=> cf[g].commit_in_progress
         /\ g # f => cf'[g].imm = cf[g].imm /\ cf'[g].mem = cf[g].mem
  BY ZenonT(30), <1>6, <1>11, <1>12
<1>14. cf'[f].imm = l /\ cf'[f].mem.id = id + 1
  BY Zenon, <1>11, <1>12
<1> HIDE DEF f, advanced
<1>15. \A g \in Families :
         /\ DOMAIN cf[g].imm \subseteq DOMAIN cf'[g].imm
         /\ \A i \in DOMAIN cf[g].imm : cf'[g].imm[i] = cf[g].imm[i]
         /\ \A i \in DOMAIN cf'[g].imm : i \notin DOMAIN cf[g].imm =>
              /\ g = f /\ i = id /\ ~cf'[g].imm[i].in_progress /\ ~cf'[g].imm[i].completed
              /\ cf'[g].imm[i].edit.file = 0 /\ cf'[g].imm[i].edit.log = 0
              /\ cf'[g].imm[i].next_log = log
  BY Zenon, <1>9, <1>13, <1>14
<1>16. \A j : /\ Busy(j)' <=> Busy(j)
              /\ Flushing(j)' <=> Flushing(j)
              /\ Queued(j)' <=> Queued(j)
              /\ Committing(j)' <=> Committing(j)
              /\ \A g, i : Owns(j, g, i)' <=> Owns(j, g, i)
  BY Zenon, <1>1 DEF Busy, Flushing, Queued, Committing, Owns
<1>17. \A j \in Jobs : \A g \in Families : \A i : Owns(j, g, i) => i \in DOMAIN cf[g].imm
  BY Zenon DEF FInv, OwnInv, Owns
<1>18. \A g \in Families : \A i \in DOMAIN cf'[g].imm : \A n :
         HasFile(g, i, n)' => i \in DOMAIN cf[g].imm /\ HasFile(g, i, n)
  BY ZenonT(30), <1>1, <1>15, <1>16, <1>17 DEF HasFile
<1>19. \A g \in Families : \A i \in DOMAIN cf[g].imm : Sound(g, i)' => Sound(g, i)
  BY ZenonT(30), <1>15, <1>16 DEF Sound
<1>20. Live(cf, job)' = Live(cf, job)
  BY Zenon, <1>1, <1>13, LiveStay
<1>21. \A n : Needed(n)' => Needed(n)
  <2>1. \A g \in Families : \A i \in DOMAIN cf'[g].imm : cf'[g].imm[i].completed =>
          i \in DOMAIN cf[g].imm /\ cf'[g].imm[i] = cf[g].imm[i]
    BY Zenon, <1>15
  <2> QED
    BY Zenon, <1>1, <1>16, <1>19, <1>20, <2>1 DEF Needed
<1>22. Types'
  <2>1. DOMAIN alive_log_files' \subseteq Nat
    BY Zenon, <1>1, <1>3 DEF FInv, Types, Writer
  <2> QED
    BY ZenonT(30), <1>1, <1>4, <1>5, <1>12, <2>1 DEF FInv, Types
<1>23. JobAt' /\ QueueInv'
  <2>1. JobAt'
    BY Zenon, <1>1, <1>16, JobAtStay
  <2>2. QueueInv'
    BY Zenon, <1>1, QueueSame
  <2> QED
    BY Zenon, <2>1, <2>2
<1>24. CommitInv'
  <2>0. \A k \in Jobs : Committing(k) => job[k].f \in Families
    BY ZenonT(30) DEF FInv, JobAt, Committing, Busy
  <2>1. CommitterInv'
    BY Zenon, <1>1, <1>13, <1>16 DEF FInv, CommitInv, CommitterInv
  <2>2. BatchInv'
    <3> SUFFICES ASSUME NEW k \in Jobs, Committing(k), NEW g \in Families, job[k].f = g
                 PROVE  /\ job[k].batch # {} /\ job[k].batch \subseteq DOMAIN cf'[g].imm
                        /\ \A i \in job[k].batch :
                             /\ cf'[g].imm[i].completed
                             /\ \A q \in DOMAIN cf'[g].imm : q < i => q \in job[k].batch
                        /\ \A i \in DOMAIN cf'[g].imm : \A n \in Nat :
                             HasFile(g, i, n)' => job[k].file <= n
      BY ZenonT(30), <1>1, <1>16, <2>0 DEF BatchInv
    <3>1. /\ job[k].batch # {} /\ job[k].batch \subseteq DOMAIN cf[g].imm
          /\ \A i \in job[k].batch :
               /\ cf[g].imm[i].completed
               /\ \A q \in DOMAIN cf[g].imm : q < i => q \in job[k].batch
          /\ \A i \in DOMAIN cf[g].imm : \A n \in Nat : HasFile(g, i, n) => job[k].file <= n
      BY Zenon DEF FInv, CommitInv, BatchInv
    <3>2. ASSUME NEW i \in job[k].batch, NEW q \in DOMAIN cf'[g].imm, q < i
          PROVE  q \in DOMAIN cf[g].imm
      <4>1. CASE q \in DOMAIN cf[g].imm
        BY Zenon, <4>1
      <4>2. CASE q \notin DOMAIN cf[g].imm
        <5>1. q = id /\ i \in Nat /\ i < id
          BY Zenon, <1>8, <1>15, <3>1, <4>2
        <5> QED
          BY <1>8, <3>2, <5>1
      <4> QED
        BY Zenon, <4>1, <4>2
    <3>3. ASSUME NEW i \in job[k].batch
          PROVE  /\ i \in DOMAIN cf'[g].imm
                 /\ cf'[g].imm[i].completed
                 /\ \A q \in DOMAIN cf'[g].imm : q < i => q \in job[k].batch
      <4>1. i \in DOMAIN cf[g].imm /\ i \in DOMAIN cf'[g].imm /\ cf'[g].imm[i] = cf[g].imm[i]
        BY ZenonT(40), <1>15, <3>1
      <4> QED
        BY Zenon, <3>1, <3>2, <4>1
    <3>4. \A i \in DOMAIN cf'[g].imm : \A n \in Nat : HasFile(g, i, n)' => job[k].file <= n
      BY Zenon, <1>18, <3>1
    <3> QED
      BY Zenon, <3>1, <3>3, <3>4
  <2>3. OldestInv'
    <3> SUFFICES ASSUME NEW g \in Families, ~cf'[g].commit_in_progress,
                        NEW i \in DOMAIN cf'[g].imm, cf'[g].imm[i].completed
                 PROVE  \E q \in DOMAIN cf'[g].imm : q < i /\ ~cf'[g].imm[q].completed
      BY Zenon DEF OldestInv
    <3>1. i \in DOMAIN cf[g].imm /\ cf[g].imm[i].completed /\ ~cf[g].commit_in_progress
      BY Zenon, <1>13, <1>15
    <3>2. PICK q \in DOMAIN cf[g].imm : q < i /\ ~cf[g].imm[q].completed
      BY Zenon, <3>1 DEF FInv, CommitInv, OldestInv
    <3> QED
      BY Zenon, <1>15, <3>2
  <2> QED
    BY ZenonT(30), <2>1, <2>2, <2>3 DEF CommitInv
<1>25. ImmInv'
  <2> SUFFICES ASSUME NEW g \in Families
               PROVE  /\ \A i \in DOMAIN cf'[g].imm :
                           /\ i < cf'[g].mem.id
                           /\ cf'[g].imm[i].completed =>
                                cf'[g].imm[i].in_progress /\ cf'[g].imm[i].file < next_file
                           /\ cf'[g].imm[i].edit.file # 0 =>
                                cf'[g].imm[i].completed /\ cf'[g].imm[i].edit.file = cf'[g].imm[i].file
                      /\ \A i, k \in DOMAIN cf'[g].imm :
                           i < k /\ ~cf'[g].imm[i].in_progress /\ cf'[g].imm[k].in_progress => bg_error
    BY Zenon, <1>1 DEF ImmInv
  <2>1. \A i \in DOMAIN cf'[g].imm : i < cf'[g].mem.id
    <3>1. CASE g # f
      BY Zenon, <1>13, <3>1 DEF FInv, ImmInv
    <3>2. CASE g = f
      <4>1. \A i \in DOMAIN cf'[f].imm : i = id \/ (i \in Nat /\ i < id)
        <5>1. DOMAIN cf'[f].imm = DOMAIN cf[f].imm \cup {id}
          BY Zenon, <1>9, <1>14
        <5> QED
          BY Zenon, <1>8, <5>1
      <4>2. \A i \in Nat : i = id \/ i < id => i < id + 1
        BY <1>8
      <4> QED
        BY Zenon, <1>8, <1>14, <3>2, <4>1, <4>2
    <3> QED
      BY Zenon, <3>1, <3>2
  <2>2. \A i \in DOMAIN cf'[g].imm :
          /\ cf'[g].imm[i].completed =>
               cf'[g].imm[i].in_progress /\ cf'[g].imm[i].file < next_file
          /\ cf'[g].imm[i].edit.file # 0 =>
               cf'[g].imm[i].completed /\ cf'[g].imm[i].edit.file = cf'[g].imm[i].file
    <3>1. ASSUME NEW i \in DOMAIN cf'[g].imm, i \in DOMAIN cf[g].imm
          PROVE  /\ cf'[g].imm[i].completed =>
                      cf'[g].imm[i].in_progress /\ cf'[g].imm[i].file < next_file
                 /\ cf'[g].imm[i].edit.file # 0 =>
                      cf'[g].imm[i].completed /\ cf'[g].imm[i].edit.file = cf'[g].imm[i].file
      <4>1. cf'[g].imm[i] = cf[g].imm[i]
        BY Zenon, <1>15, <3>1
      <4> QED
        BY Zenon, <3>1, <4>1 DEF FInv, ImmInv
    <3>2. ASSUME NEW i \in DOMAIN cf'[g].imm, i \notin DOMAIN cf[g].imm
          PROVE  ~cf'[g].imm[i].completed /\ cf'[g].imm[i].edit.file = 0
      BY Zenon, <1>15, <3>2
    <3> QED
      BY Zenon, <3>1, <3>2
  <2>3. \A i, k \in DOMAIN cf'[g].imm :
          i < k /\ ~cf'[g].imm[i].in_progress /\ cf'[g].imm[k].in_progress => bg_error
    <3> SUFFICES ASSUME NEW i \in DOMAIN cf'[g].imm, NEW k \in DOMAIN cf'[g].imm, i < k,
                        ~cf'[g].imm[i].in_progress, cf'[g].imm[k].in_progress
                 PROVE  bg_error
      BY Zenon
    <3>1. k \in DOMAIN cf[g].imm /\ cf'[g].imm[k] = cf[g].imm[k]
      BY Zenon, <1>15
    <3>2. CASE i \in DOMAIN cf[g].imm
      <4>1. cf'[g].imm[i] = cf[g].imm[i]
        BY Zenon, <1>15, <3>2
      <4> QED
        BY Zenon, <3>1, <3>2, <4>1 DEF FInv, ImmInv
    <3>3. CASE i \notin DOMAIN cf[g].imm
      <4>1. g = f /\ i = id
        BY Zenon, <1>15, <3>3
      <4>2. k \in Nat /\ k < id
        BY Zenon, <1>8, <3>1, <4>1
      <4> QED
        BY <1>8, <4>1, <4>2
    <3> QED
      BY Zenon, <3>2, <3>3
  <2> QED
    BY Zenon, <2>1, <2>2, <2>3
<1>26. OwnInv'
  <2>1. ASSUME NEW k \in Jobs, Flushing(k)
        PROVE  /\ job[k].mems \subseteq DOMAIN cf'[job[k].f].imm
               /\ \A i \in job[k].mems :
                    cf'[job[k].f].imm[i].in_progress /\ ~cf'[job[k].f].imm[i].completed
               /\ \A g \in Families : \A i \in DOMAIN cf'[g].imm :
                    cf'[g].imm[i].completed => cf'[g].imm[i].file # job[k].file
               /\ job[k].file \notin Live(cf, job)
               /\ \A g \in Families : job[k].file \notin manifest[g].files
    <3>1. /\ job[k].mems \subseteq DOMAIN cf[job[k].f].imm
          /\ \A i \in job[k].mems :
               cf[job[k].f].imm[i].in_progress /\ ~cf[job[k].f].imm[i].completed
          /\ \A g \in Families : \A i \in DOMAIN cf[g].imm :
               cf[g].imm[i].completed => cf[g].imm[i].file # job[k].file
          /\ job[k].file \notin Live(cf, job)
          /\ \A g \in Families : job[k].file \notin manifest[g].files
      BY ZenonT(30), <2>1 DEF FInv, OwnInv
    <3>2. job[k].f \in Families
      BY Zenon, <2>1 DEF FInv, JobAt, Flushing, Busy
    <3>3. /\ job[k].mems \subseteq DOMAIN cf'[job[k].f].imm
          /\ \A i \in job[k].mems : cf'[job[k].f].imm[i] = cf[job[k].f].imm[i]
      <4>1. /\ DOMAIN cf[job[k].f].imm \subseteq DOMAIN cf'[job[k].f].imm
            /\ \A i \in DOMAIN cf[job[k].f].imm : cf'[job[k].f].imm[i] = cf[job[k].f].imm[i]
        BY Zenon, <1>15, <3>2
      <4> QED
        BY Zenon, <3>1, <4>1
    <3>4. ASSUME NEW g \in Families, NEW i \in DOMAIN cf'[g].imm, cf'[g].imm[i].completed
          PROVE  cf'[g].imm[i].file # job[k].file
      <4>1. i \in DOMAIN cf[g].imm /\ cf'[g].imm[i] = cf[g].imm[i]
        BY Zenon, <1>15, <3>4
      <4> QED
        BY Zenon, <3>1, <3>4, <4>1
    <3> QED
      BY Zenon, <3>1, <3>3, <3>4
  <2> QED
    BY ZenonT(30), <1>1, <1>16, <1>20, <2>1 DEF FInv, OwnInv
<1>27. OrderInv'
  BY Zenon, <1>18 DEF FInv, OrderInv
<1>28. TableInv'
  <2>1. \A g \in Families : \A i \in DOMAIN cf'[g].imm :
          cf'[g].imm[i].edit.file # 0 /\ Sound(g, i)' => cf'[g].imm[i].edit.file \in DOMAIN tables
    BY ZenonT(40), <1>15, <1>19 DEF FInv, TableInv
  <2> QED
    BY ZenonT(30), <1>1, <1>16, <1>20, <2>1 DEF FInv, TableInv
<1>29. PurgeInv'
  BY Zenon, <1>1, <1>21 DEF FInv, PurgeInv
<1>30. ManifestInv'
  <2>1. ASSUME NEW k \in Jobs, Queued(k), NEW n, Adds(k, n)
        PROVE  Queued(k)' /\ Adds(k, n)'
    <3>1. CASE job[k].kind = "compaction"
      BY Zenon, <1>1, <1>16, <2>1, <3>1 DEF Adds
    <3>2. CASE job[k].kind # "compaction"
      <4>1. PICK i \in job[k].batch : cf[job[k].f].imm[i].edit.file = n
        BY Zenon, <2>1, <3>2 DEF Adds
      <4>2. Committing(k)
        BY Zenon, <2>1, <3>2 DEF Adds, Committing, Queued
      <4>3. cf'[job[k].f].imm[i] = cf[job[k].f].imm[i]
        <5>1. job[k].f \in Families /\ i \in DOMAIN cf[job[k].f].imm
          BY Zenon, <4>1, <4>2, BatchSound
        <5> QED
          BY Zenon, <1>15, <5>1
      <4> QED
        BY ZenonT(30), <1>1, <1>16, <2>1, <3>2, <4>1, <4>3 DEF Adds
    <3> QED
      BY ZenonT(30), <3>1, <3>2
  <2>2. AddsInv'
    BY ZenonT(30), <1>1, <2>1 DEF FInv, ManifestInv, AddsInv
  <2>3. \A g \in Families : cf'[g].files = cf[g].files
    BY Zenon, <1>13
  <2>4. \A k \in Jobs : job[k].pc = "apply" => job[k].f \in Families
    BY Zenon DEF FInv, JobAt, Busy
  <2> QED
    BY Zenon, <1>1, <2>2, <2>3, <2>4 DEF FInv, ManifestInv
<1>31. LogInv'
  <2>1. \A n \in DOMAIN alive_log_files' : n \in logs' /\ n <= logfile_number'
    <3>1. \A n \in DOMAIN alive_log_files' : n \in DOMAIN alive_log_files \/ (n = writer.new /\ n # 0)
      BY ZenonT(30), <1>1
    <3>2. \A n \in DOMAIN alive_log_files : n \in Nat /\ n \in logs /\ n <= logfile_number
      BY Zenon DEF FInv, LogInv, Types
    <3>3. writer.new # 0 => writer.new = log
      BY Zenon DEF log
    <3>4. \A n \in Nat : n <= logfile_number => n <= log
      BY <1>3, <1>5
    <3>5. log <= log
      BY <1>5
    <3>6. \A n \in logs : n \in logs'
      BY Zenon, <1>1
    <3> QED
      BY Zenon, <1>1, <1>5, <3>1, <3>2, <3>3, <3>4, <3>5, <3>6
  <2>2. \A g \in Families : cf'[g].log_number <= logfile_number'
    BY Zenon, <1>1, <1>13
  <2>3. ASSUME NEW g \in Families, NEW i \in DOMAIN cf'[g].imm
        PROVE  cf'[g].imm[i].next_log <= log /\ cf'[g].imm[i].edit.log <= log
    <3>1. CASE i \in DOMAIN cf[g].imm
      <4>1. cf[g].imm[i] \in MemTable
        BY Zenon, <3>1, CfTypes DEF FInv
      <4>2. /\ cf[g].imm[i].next_log \in Nat /\ cf[g].imm[i].edit.log \in Nat
            /\ cf[g].imm[i].next_log <= logfile_number /\ cf[g].imm[i].edit.log <= logfile_number
        BY Zenon, <3>1, <4>1 DEF FInv, LogInv, MemTable
      <4>3. cf'[g].imm[i] = cf[g].imm[i]
        BY Zenon, <1>15, <3>1
      <4> QED
        BY <1>3, <1>5, <4>2, <4>3
    <3>2. CASE i \notin DOMAIN cf[g].imm
      <4>1. cf'[g].imm[i].next_log = log /\ cf'[g].imm[i].edit.log = 0
        BY Zenon, <1>15, <3>2
      <4>2. log <= log /\ 0 <= log
        BY <1>5
      <4> QED
        BY Zenon, <4>1, <4>2
    <3> QED
      BY Zenon, <3>1, <3>2
  <2>4. ASSUME NEW k \in Jobs, NEW e \in job'[k].edits
        PROVE  e.log <= logfile_number'
    <3>1. job[k] \in Job /\ e \in job[k].edits
      BY Zenon, <1>1, JobTypes DEF FInv
    <3>2. e.log \in Nat /\ e.log <= logfile_number
      BY Zenon, <3>1 DEF Job, Edit, FInv, LogInv
    <3> QED
      BY <1>1, <1>3, <1>5, <3>2
  <2>5. ASSUME NEW k \in Jobs, NEW n \in job'[k].logs
        PROVE  n < logfile_number' /\ \A m \in DOMAIN alive_log_files' : n < m
    <3>1. n \in Nat /\ n < logfile_number /\ \A m \in DOMAIN alive_log_files : n < m
      BY Zenon, <1>1, JobTypes DEF FInv, LogInv
    <3>2. \A m \in DOMAIN alive_log_files' : m \in DOMAIN alive_log_files \/ (m = writer.new /\ m # 0)
      BY Zenon, <1>1
    <3>3. writer.new # 0 => writer.new = log
      BY Zenon DEF log
    <3>4. n < log
      BY <1>3, <1>5, <3>1
    <3> QED
      BY Zenon, <1>1, <3>1, <3>2, <3>3, <3>4
  <2>6. \A g \in Families : \A i \in DOMAIN cf'[g].imm :
          cf'[g].imm[i].next_log <= logfile_number' /\ cf'[g].imm[i].edit.log <= logfile_number'
    BY Zenon, <1>1, <2>3
  <2>7. logfile_number' < next_file'
    BY Zenon, <1>1, <1>5
  <2> QED
    BY Zenon, <1>4, <2>1, <2>2, <2>4, <2>5, <2>6, <2>7 DEF LogInv
<1> QED
  BY ZenonT(30), <1>22, <1>23, <1>24, <1>25, <1>26, <1>27, <1>28, <1>29, <1>30, <1>31 DEF FInv
=============================================================================
