---------------------- MODULE MemTableFlushListProofs -----------------------
(***************************************************************************)
(* The steps in which a flush job changes the list of memtables preserve   *)
(* FInv: InstallMemtableFlushResults, RollbackMemtableFlush and what       *)
(* follows the commit.                                                     *)
(***************************************************************************)
EXTENDS MemTableFlushLemmas

\* What job j has in its family's list
Mine(j, i) == \/ Flushing(j) /\ i \in job[j].mems
              \/ Committing(j) /\ i \in job[j].batch

\* The memtables that a job does not have stay as they are; those that it has are
\* removed if they were flushed, to be flushed again, or flushed now.
MemStep(j, f) ==
  /\ DOMAIN cf'[f].imm \subseteq DOMAIN cf[f].imm
  /\ \A i \in DOMAIN cf[f].imm : ~Mine(j, i) =>
       i \in DOMAIN cf'[f].imm /\ cf'[f].imm[i] = cf[f].imm[i]
  /\ \A i \in DOMAIN cf[f].imm : i \notin DOMAIN cf'[f].imm => cf[f].imm[i].completed
  /\ \A i \in DOMAIN cf'[f].imm : Mine(j, i) =>
       /\ cf'[f].imm[i].next_log = cf[f].imm[i].next_log
       /\ \/ /\ ~cf'[f].imm[i].in_progress /\ ~cf'[f].imm[i].completed
             /\ cf'[f].imm[i].edit.log = 0 /\ cf'[f].imm[i].edit.file = 0 /\ bg_error'
          \/ /\ Flushing(j) /\ i \in job[j].mems
             /\ cf'[f].imm[i].in_progress /\ cf'[f].imm[i].completed
             /\ cf'[f].imm[i].file = job[j].file
             /\ cf'[f].imm[i].edit.log = cf[f].imm[i].edit.log
             /\ cf'[f].imm[i].edit.file # 0 =>
                  cf'[f].imm[i].edit.file = job[j].file /\ job[j].file \in DOMAIN tables'

\* Who commits the family's flushes after the step, and which
CommitStep(j, f) ==
  /\ cf'[f].commit_in_progress <=> \/ job'[j].pc = "manifest"
                                   \/ \E k \in Jobs \ {j} : Committing(k) /\ job[k].f = f
  /\ ~cf'[f].commit_in_progress => \A i \in DOMAIN cf'[f].imm : cf'[f].imm[i].completed =>
       \E q \in DOMAIN cf'[f].imm : q < i /\ ~cf'[f].imm[q].completed
  /\ job'[j].pc = "manifest" =>
       /\ \A k \in Jobs \ {j} : Committing(k) => job[k].f # f
       /\ job'[j].batch # {} /\ job'[j].batch = CompletedPrefix(cf'[f].imm)
       /\ \A i \in DOMAIN cf'[f].imm : \A n \in Nat : HasFile(f, i, n) => job[j].file <= n

\* The frame of the steps in which a flush job changes the list of its family
FlushFrame(j, f) ==
  /\ job[j].kind = "flush" /\ job[j].pc \in {"build", "applied"} /\ job[j].f = f
  /\ job'[j].pc \in {"find", "manifest"} /\ job'[j].kind = "flush"
  /\ job'[j].f = f /\ job'[j].file = job[j].file /\ job'[j].pending = job[j].pending
  /\ job'[j].base \subseteq job[j].base /\ job'[j].tables = job[j].tables
  /\ job'[j].logs = job[j].logs /\ job'[j].edits = job[j].edits
  /\ manifest_writers' = IF job'[j].pc = "manifest" THEN Append(manifest_writers, j)
                         ELSE manifest_writers
  /\ cf'[f].mem = cf[f].mem /\ cf'[f].files = cf[f].files
  /\ cf'[f].log_number = cf[f].log_number
  /\ DOMAIN tables' \subseteq DOMAIN tables
  /\ \A n \in DOMAIN tables : n \notin DOMAIN tables' => Flushing(j) /\ n = job[j].file

\* What the step means for the files of memtables
LEMMA FilesShrink ==
  ASSUME FInv, NEW j \in Jobs, NEW f \in Families, FlushFrame(j, f), MemStep(j, f),
         \A k \in Jobs : k # j => job'[k] = job[k],
         \A g \in Families : g # f => cf'[g] = cf[g]
  PROVE  /\ Busy(j) /\ ~Flushing(j)' /\ ~Queued(j)
         /\ \A k \in Jobs : k # j => /\ Busy(k)' <=> Busy(k)
                                     /\ Flushing(k)' <=> Flushing(k)
                                     /\ Queued(k)' <=> Queued(k)
                                     /\ Committing(k)' <=> Committing(k)
         /\ \A g \in Families : DOMAIN cf'[g].imm \subseteq DOMAIN cf[g].imm
         /\ \A g \in Families : \A i \in DOMAIN cf'[g].imm :
              /\ \A n : HasFile(g, i, n)' => HasFile(g, i, n)
              /\ Sound(g, i)' => Sound(g, i)
<1>1. /\ Busy(j) /\ ~Flushing(j)' /\ ~Queued(j) /\ job[j].f = f
  BY Zenon DEF FlushFrame, Busy, Flushing, Queued
<1>2. /\ \A k \in Jobs : k # j => /\ Busy(k)' <=> Busy(k)
                                  /\ Flushing(k)' <=> Flushing(k)
                                  /\ Queued(k)' <=> Queued(k)
                                  /\ Committing(k)' <=> Committing(k)
                                  /\ \A g, i : Owns(k, g, i)' <=> Owns(k, g, i)
      /\ \A g \in Families : g # f =>
           \A i : /\ \A n : HasFile(g, i, n)' <=> HasFile(g, i, n)
                  /\ Sound(g, i)' <=> Sound(g, i)
  BY Zenon, <1>1, OneFamily
<1>3. \A k \in Jobs : \A i : Owns(k, f, i)' => Owns(k, f, i) /\ job'[k] = job[k]
  BY Zenon, <1>1, <1>2 DEF Owns
<1>4. \A i \in DOMAIN cf'[f].imm : cf'[f].imm[i].completed =>
        \/ cf[f].imm[i].completed /\ cf'[f].imm[i].file = cf[f].imm[i].file
        \/ Owns(j, f, i) /\ cf'[f].imm[i].file = job[j].file
  BY Zenon, <1>1 DEF MemStep, Owns
<1>5. \A i \in DOMAIN cf'[f].imm : \A n : HasFile(f, i, n)' => HasFile(f, i, n)
  BY Zenon, <1>3, <1>4 DEF HasFile
<1>6. \A i \in DOMAIN cf'[f].imm : Sound(f, i)' => Sound(f, i)
  <2> TAKE i \in DOMAIN cf'[f].imm
  <2> HAVE Sound(f, i)'
  <2>1. \A q \in DOMAIN cf'[f].imm : q < i =>
          cf'[f].imm[q].completed \/ \E k \in Jobs : Owns(k, f, q)'
    BY Zenon DEF Sound
  <2>2. \A q \in DOMAIN cf'[f].imm : q < i =>
          cf[f].imm[q].completed \/ \E k \in Jobs : Owns(k, f, q)
    BY Zenon, <1>3, <1>4, <2>1
  <2>3. \A q \in DOMAIN cf[f].imm : q \notin DOMAIN cf'[f].imm => cf[f].imm[q].completed
    BY Zenon DEF MemStep
  <2> QED
    BY Zenon, <2>2, <2>3 DEF Sound
<1>7. \A g \in Families : DOMAIN cf'[g].imm \subseteq DOMAIN cf[g].imm
  BY Zenon DEF MemStep
<1> QED
  BY ZenonT(30), <1>1, <1>2, <1>5, <1>6, <1>7

\* No other job has what job j has.
LEMMA MineOnly ==
  ASSUME FInv, NEW j \in Jobs, NEW f \in Families, FlushFrame(j, f),
         NEW k \in Jobs, k # j, job[k].f = f, NEW i,
         \/ Flushing(k) /\ i \in job[k].mems
         \/ Committing(k) /\ i \in job[k].batch
  PROVE  i \in DOMAIN cf[f].imm /\ ~Mine(j, i)
<1>0. job[j].f = f
  BY Zenon DEF FlushFrame
<1>1. CASE Flushing(k) /\ i \in job[k].mems
  <2>1. i \in DOMAIN cf[f].imm /\ ~cf[f].imm[i].completed
    BY Zenon, <1>1 DEF FInv, OwnInv
  <2>2. ~(Flushing(j) /\ i \in job[j].mems)
    BY Zenon, <1>0, <1>1 DEF FInv, OwnInv
  <2>3. ~(Committing(j) /\ i \in job[j].batch)
    BY Zenon, <1>0, <2>1, BatchSound
  <2> QED
    BY Zenon, <2>1, <2>2, <2>3 DEF Mine
<1>2. CASE Committing(k) /\ i \in job[k].batch
  <2>1. i \in DOMAIN cf[f].imm /\ cf[f].imm[i].completed
    BY Zenon, <1>2, BatchSound
  <2>2. ~(Flushing(j) /\ i \in job[j].mems)
    BY Zenon, <1>0, <2>1 DEF FInv, OwnInv
  <2>3. ~Committing(j)
    BY Zenon, <1>0, <1>2 DEF FInv, CommitInv, CommitterInv
  <2> QED
    BY Zenon, <2>1, <2>2, <2>3 DEF Mine
<1> QED
  BY Zenon, <1>1, <1>2

\* A step in which a flush job changes the list of its family preserves the invariant.
LEMMA ListStepF ==
  ASSUME FInv, NEW j \in Jobs, NEW f \in Families, FlushFrame(j, f), MemStep(j, f),
         CommitStep(j, f), job' \in [Jobs -> Job], cf' \in [Families -> ColumnFamily],
         \A k \in Jobs : k # j => job'[k] = job[k],
         \A g \in Families : g # f => cf'[g] = cf[g],
         bg_error => bg_error', obsolete' \subseteq obsolete \cup Live(cf, job),
         UNCHANGED <<next_file, logfile_number, alive_log_files, written, writer, logs, manifest>>
  PROVE  FInv'
<1>1. /\ Busy(j) /\ ~Flushing(j)' /\ ~Queued(j)
      /\ \A k \in Jobs : k # j => /\ Busy(k)' <=> Busy(k)
                                  /\ Flushing(k)' <=> Flushing(k)
                                  /\ Queued(k)' <=> Queued(k)
                                  /\ Committing(k)' <=> Committing(k)
      /\ \A g \in Families : DOMAIN cf'[g].imm \subseteq DOMAIN cf[g].imm
      /\ \A g \in Families : \A i \in DOMAIN cf'[g].imm :
           /\ \A n : HasFile(g, i, n)' => HasFile(g, i, n)
           /\ Sound(g, i)' => Sound(g, i)
  BY Zenon, FilesShrink
<1>d. \A g \in Families : DOMAIN cf'[g].imm \subseteq DOMAIN cf[g].imm
  BY Zenon, <1>1
<1>k. \A k \in Jobs : k # j => /\ Busy(k)' <=> Busy(k)
                               /\ Flushing(k)' <=> Flushing(k)
                               /\ Queued(k)' <=> Queued(k)
                               /\ job'[k] = job[k]
  BY Zenon, <1>1
<1>2. /\ Queued(j)' <=> job'[j].pc = "manifest"
      /\ Committing(j)' <=> job'[j].pc = "manifest"
      /\ Busy(j)' => job'[j].pc = "manifest"
      /\ job'[j].pc # "apply" /\ job[j].pc # "apply" /\ job'[j].pc # "compact"
  BY Zenon DEF FlushFrame, Queued, Committing, Busy
<1>3. /\ job'[j].kind = "flush" /\ job'[j].f = f /\ job[j].f = f
      /\ job'[j].file = job[j].file /\ job'[j].pending = job[j].pending
      /\ job'[j].tables = job[j].tables /\ job'[j].base \subseteq job[j].base
      /\ job'[j].logs = job[j].logs /\ job'[j].edits = job[j].edits
  BY Zenon DEF FlushFrame
<1>4. \A g \in Families : cf'[g].mem = cf[g].mem /\ cf'[g].files = cf[g].files
                          /\ cf'[g].log_number = cf[g].log_number
  BY Zenon DEF FlushFrame
<1>5. Live(cf, job)' \subseteq Live(cf, job)
  <2>1. \A k \in Jobs : job'[k].base \subseteq job[k].base
    BY Zenon, <1>3
  <2> QED
    BY <1>4, <2>1, LiveIs
<1>6. \A g \in Families : \A i \in DOMAIN cf'[g].imm : cf'[g].imm[i].completed =>
        /\ cf'[g].imm[i].in_progress
        /\ \/ cf'[g].imm[i] = cf[g].imm[i]
           \/ g = f /\ Flushing(j) /\ cf'[g].imm[i].file = job[j].file
  <2> TAKE g \in Families
  <2>1. CASE g # f
    BY Zenon, <2>1 DEF FInv, ImmInv
  <2>2. CASE g = f
    <3>1. \A i \in DOMAIN cf'[f].imm : i \in DOMAIN cf[f].imm
      BY Zenon DEF MemStep
    <3>2. \A i \in DOMAIN cf'[f].imm : ~Mine(j, i) => cf'[f].imm[i] = cf[f].imm[i]
      BY Zenon DEF MemStep
    <3>3. \A i \in DOMAIN cf'[f].imm : Mine(j, i) /\ cf'[f].imm[i].completed =>
            cf'[f].imm[i].in_progress /\ Flushing(j) /\ cf'[f].imm[i].file = job[j].file
      BY Zenon DEF MemStep
    <3>4. \A i \in DOMAIN cf[f].imm : cf[f].imm[i].completed => cf[f].imm[i].in_progress
      BY Zenon DEF FInv, ImmInv
    <3> QED
      BY Zenon, <2>2, <3>1, <3>2, <3>3, <3>4
  <2> QED
    BY Zenon, <2>1, <2>2
<1>7. \A n : Needed(n)' => Needed(n)
  <2>1. \A g \in Families : \A i \in DOMAIN cf'[g].imm :
          cf'[g].imm[i].completed /\ Sound(g, i)' => Needed(cf'[g].imm[i].file)
    BY ZenonT(30), <1>1, <1>6 DEF Needed
  <2>2. \A k \in Jobs : Busy(k)' => Busy(k) /\ job'[k].file = job[k].file
    BY Zenon, <1>1, <1>3
  <2> QED
    <3> TAKE n
    <3> HAVE Needed(n)'
    <3>1. CASE n \in Live(cf, job)'
      BY Zenon, <1>5, <3>1 DEF Needed
    <3>2. CASE \E g \in Families : n \in manifest'[g].files
      BY Zenon, <3>2 DEF Needed
    <3>3. CASE \E k \in Jobs : Busy(k)' /\ job'[k].file = n
      BY Zenon, <2>2, <3>3 DEF Needed
    <3>4. CASE \E g \in Families : \E i \in DOMAIN cf'[g].imm :
                 cf'[g].imm[i].completed /\ cf'[g].imm[i].file = n /\ Sound(g, i)'
      BY Zenon, <2>1, <3>4
    <3> QED
      BY Zenon, <3>1, <3>2, <3>3, <3>4 DEF Needed
<1>8. \A k \in Jobs : k # j /\ job[k].f = f =>
        \A i : \/ Flushing(k) /\ i \in job[k].mems
               \/ Committing(k) /\ i \in job[k].batch
               => i \in DOMAIN cf'[f].imm /\ cf'[f].imm[i] = cf[f].imm[i]
  BY Zenon, MineOnly DEF MemStep
<1>9. Types'
  <2>1. obsolete' \subseteq Nat
    BY Zenon, ObsoleteTypes
  <2>2. manifest_writers' \in Seq(Jobs)
    BY DEF FlushFrame, FInv, Types
  <2> QED
    BY Zenon, <2>1, <2>2 DEF FInv, Types
<1>10. JobAt'
  <2>1. \A k \in Jobs : Busy(k)' => Busy(k)
    BY Zenon, <1>1, <1>k
  <2>2. \A k \in Jobs : /\ job'[k].f = job[k].f /\ job'[k].file = job[k].file
                        /\ job'[k].pending = job[k].pending
                        /\ k = j \/ job'[k] = job[k]
    BY Zenon, <1>3
  <2>3. \A k \in Jobs : /\ Flushing(k)' => job'[k].kind = "flush"
                        /\ job'[k].pc = "compact" => job'[k].kind = "compaction"
                        /\ job'[k].pc \in {"manifest", "apply", "applied"} =>
                             job'[k].kind \in {"flush", "compaction"}
    <3>1. ASSUME NEW k \in Jobs, k # j
          PROVE  /\ Flushing(k)' => job'[k].kind = "flush"
                 /\ job'[k].pc = "compact" => job'[k].kind = "compaction"
                 /\ job'[k].pc \in {"manifest", "apply", "applied"} =>
                      job'[k].kind \in {"flush", "compaction"}
      BY Zenon, <1>k, <3>1 DEF FInv, JobAt
    <3>2. ~Flushing(j)' /\ job'[j].pc # "compact" /\ job'[j].kind \in {"flush", "compaction"}
      BY Zenon, <1>1, <1>2, <1>3
    <3> QED
      BY Zenon, <3>1, <3>2
  <2> QED
    BY <2>1, <2>2, <2>3 DEF FInv, JobAt
<1>11. QueueInv'
  <2>0. /\ Len(manifest_writers) \in Nat
        /\ \A i \in 1 .. Len(manifest_writers) : manifest_writers[i] \in Jobs /\ manifest_writers[i] # j
    BY Zenon, <1>1, QueueTypes DEF FInv, QueueInv
  <2>1. \A k \in Jobs : job'[k].pc = "apply" => job'[k] = job[k]
    BY Zenon, <1>2
  <2>2. CASE job'[j].pc = "manifest"
    <3>1. /\ Len(manifest_writers') = Len(manifest_writers) + 1
          /\ manifest_writers'[Len(manifest_writers) + 1] = j
          /\ \A i \in 1 .. Len(manifest_writers) : manifest_writers'[i] = manifest_writers[i]
      BY <2>2 DEF FlushFrame, FInv, Types
    <3>2. \A i, k \in 1 .. Len(manifest_writers') :
            manifest_writers'[i] = manifest_writers'[k] => i = k
      BY <2>0, <3>1 DEF FInv, QueueInv
    <3>3. \A k \in Jobs : Queued(k)' <=>
            \E i \in 1 .. Len(manifest_writers') : manifest_writers'[i] = k
      <4>1. \A k \in Jobs : k # j =>
              (Queued(k) <=> \E i \in 1 .. Len(manifest_writers) : manifest_writers[i] = k)
        BY Zenon DEF FInv, QueueInv
      <4>2. \A k \in Jobs : Queued(k)' <=> k = j \/ (k # j /\ Queued(k))
        BY Zenon, <1>2, <1>k, <2>2
      <4> QED
        BY <2>0, <3>1, <4>1, <4>2
    <3>4. ASSUME NEW k \in Jobs, job'[k].pc = "apply"
          PROVE  /\ manifest_writers'[1] = k
                 /\ job'[k].group \in 1 .. Len(manifest_writers')
                 /\ \A i \in 1 .. job'[k].group : job'[manifest_writers'[i]].f = job'[k].f
      <4>1. job'[k] = job[k] /\ job[k].pc = "apply"
        BY Zenon, <2>1, <3>4
      <4>2. /\ manifest_writers[1] = k
            /\ job[k].group \in 1 .. Len(manifest_writers)
            /\ \A i \in 1 .. job[k].group : job[manifest_writers[i]].f = job[k].f
        BY Zenon, <4>1 DEF FInv, QueueInv
      <4> QED
        BY <1>k, <2>0, <3>1, <4>1, <4>2
    <3> QED
      BY Zenon, <3>2, <3>3, <3>4 DEF QueueInv
  <2>3. CASE job'[j].pc # "manifest"
    <3>1. manifest_writers' = manifest_writers
      BY ZenonT(30), <2>3 DEF FlushFrame
    <3> QED
      BY Zenon, <1>1, <1>2, <2>3, <3>1, QueueStay
  <2> QED
    BY ZenonT(30), <2>2, <2>3

<1>12. CommitterInv'
  <2>1. \A k \in Jobs : k # j => /\ Committing(k)' <=> Committing(k)
                                 /\ job'[k].f = job[k].f
    BY Zenon, <1>1
  <2>2. job'[j].f = f /\ job[j].f = f /\ (Committing(j)' <=> job'[j].pc = "manifest")
    BY Zenon, <1>2, <1>3
  <2>3. \A a, b \in Jobs : Committing(a)' /\ Committing(b)' /\ job'[a].f = job'[b].f => a = b
    <3> SUFFICES ASSUME NEW a \in Jobs, NEW b \in Jobs, Committing(a)', Committing(b)',
                        job'[a].f = job'[b].f
                 PROVE  a = b
      BY Zenon
    <3>1. \A k \in Jobs : Committing(k)' /\ k # j /\ Committing(j)' => job'[k].f # f
      BY Zenon, <2>1, <2>2 DEF CommitStep
    <3>2. CASE a # j /\ b # j
      <4>1. Committing(a) /\ Committing(b) /\ job[a].f = job[b].f
        BY Zenon, <2>1, <3>2
      <4> QED
        BY Zenon, <4>1 DEF FInv, CommitInv, CommitterInv
    <3> QED
      BY Zenon, <2>2, <3>1, <3>2
  <2>4. ASSUME NEW g \in Families
        PROVE  cf'[g].commit_in_progress <=> \E k \in Jobs : Committing(k)' /\ job'[k].f = g
    <3>1. CASE g = f
      BY Zenon, <2>1, <2>2, <3>1 DEF CommitStep
    <3>2. CASE g # f
      <4>1. cf'[g].commit_in_progress <=> \E k \in Jobs : Committing(k) /\ job[k].f = g
        BY Zenon, <3>2 DEF FInv, CommitInv, CommitterInv
      <4> QED
        BY Zenon, <2>1, <2>2, <3>2, <4>1
    <3> QED
      BY Zenon, <3>1, <3>2
  <2> QED
    BY Zenon, <2>3, <2>4 DEF CommitterInv
<1>13. BatchInv'
  <2> SUFFICES ASSUME NEW k \in Jobs, Committing(k)', NEW g \in Families, job'[k].f = g
               PROVE  /\ job'[k].batch # {} /\ job'[k].batch \subseteq DOMAIN cf'[g].imm
                      /\ \A i \in job'[k].batch :
                           /\ cf'[g].imm[i].completed
                           /\ \A q \in DOMAIN cf'[g].imm : q < i => q \in job'[k].batch
                      /\ \A i \in DOMAIN cf'[g].imm : \A n \in Nat :
                           HasFile(g, i, n)' => job'[k].file <= n
    <3>1. \A k \in Jobs : Committing(k)' => job'[k].f \in Families
      BY Zenon, <1>10 DEF JobAt, Committing, Busy
    <3> QED
      BY Zenon, <3>1 DEF BatchInv
  <2>0. DOMAIN cf'[g].imm \subseteq Nat
    <3>1. DOMAIN cf[g].imm \subseteq Nat
      BY Zenon, CfTypes DEF FInv
    <3> QED
      BY Zenon, <1>1, <3>1
  <2>1. CASE k = j
    <3>1. g = f /\ job'[j].pc = "manifest" /\ job'[j].file = job[j].file
      BY Zenon, <1>2, <1>3, <2>1
    <3>2. job'[j].batch # {} /\ job'[j].batch = CompletedPrefix(cf'[f].imm)
      BY Zenon, <3>1 DEF CommitStep
    <3>3. /\ job'[j].batch \subseteq DOMAIN cf'[f].imm
          /\ \A i \in job'[j].batch :
               /\ cf'[f].imm[i].completed
               /\ \A q \in DOMAIN cf'[f].imm : q < i => q \in job'[j].batch
      <4>1. /\ CompletedPrefix(cf'[f].imm) \subseteq DOMAIN cf'[f].imm
            /\ \A i \in CompletedPrefix(cf'[f].imm) :
                 \A q \in DOMAIN cf'[f].imm : q <= i => cf'[f].imm[q].completed
        BY Zenon DEF CompletedPrefix
      <4>2. ASSUME NEW i \in CompletedPrefix(cf'[f].imm)
            PROVE  /\ cf'[f].imm[i].completed
                   /\ \A q \in DOMAIN cf'[f].imm : q < i => q \in CompletedPrefix(cf'[f].imm)
        <5>1. i \in DOMAIN cf'[f].imm /\ i \in Nat
          BY Zenon, <2>0, <3>1, <4>1
        <5>2. i <= i
          BY <5>1
        <5>3. ASSUME NEW q \in DOMAIN cf'[f].imm, q < i, NEW p \in DOMAIN cf'[f].imm, p <= q
              PROVE  cf'[f].imm[p].completed
          <6>1. p \in Nat /\ q \in Nat
            BY Zenon, <2>0, <3>1
          <6>2. p <= i
            BY <5>1, <5>3, <6>1
          <6> QED
            BY Zenon, <4>1, <6>2
        <5>4. \A q \in DOMAIN cf'[f].imm : q < i => q \in CompletedPrefix(cf'[f].imm)
          BY Zenon, <5>3 DEF CompletedPrefix
        <5> QED
          BY Zenon, <4>1, <5>1, <5>2, <5>4
      <4> QED
        BY Zenon, <3>2, <4>1, <4>2
    <3>4. \A i \in DOMAIN cf'[f].imm : \A n \in Nat : HasFile(f, i, n)' => job'[j].file <= n
      BY Zenon, <1>1, <3>1 DEF CommitStep
    <3> QED
      BY Zenon, <2>1, <3>1, <3>2, <3>3, <3>4
  <2>2. CASE k # j
    <3>1. Committing(k) /\ job'[k] = job[k] /\ job[k].f = g
      BY Zenon, <1>1, <2>2
    <3>2. /\ job[k].batch # {} /\ job[k].batch \subseteq DOMAIN cf[g].imm
          /\ \A i \in job[k].batch :
               /\ cf[g].imm[i].completed
               /\ \A q \in DOMAIN cf[g].imm : q < i => q \in job[k].batch
          /\ \A i \in DOMAIN cf[g].imm : \A n \in Nat : HasFile(g, i, n) => job[k].file <= n
      BY ZenonT(30), <3>1 DEF FInv, CommitInv, BatchInv
    <3>3. \A i \in job[k].batch : i \in DOMAIN cf'[g].imm /\ cf'[g].imm[i] = cf[g].imm[i]
      BY Zenon, <1>8, <2>2, <3>1, <3>2
    <3> QED
      BY ZenonT(30), <1>1, <3>1, <3>2, <3>3
  <2> QED
    BY Zenon, <2>1, <2>2
<1>14. OldestInv'
  <2> SUFFICES ASSUME NEW g \in Families
               PROVE  ~cf'[g].commit_in_progress =>
                        \A i \in DOMAIN cf'[g].imm : cf'[g].imm[i].completed =>
                          \E q \in DOMAIN cf'[g].imm : q < i /\ ~cf'[g].imm[q].completed
    BY Zenon DEF OldestInv
  <2>1. CASE g = f
    BY Zenon, <2>1 DEF CommitStep
  <2>2. CASE g # f
    BY Zenon, <2>2 DEF FInv, CommitInv, OldestInv
  <2> QED
    BY Zenon, <2>1, <2>2
<1>15. ImmInv'
  <2> SUFFICES ASSUME NEW g \in Families
               PROVE  /\ \A i \in DOMAIN cf'[g].imm :
                           /\ i < cf'[g].mem.id
                           /\ cf'[g].imm[i].completed =>
                                cf'[g].imm[i].in_progress /\ cf'[g].imm[i].file < next_file
                           /\ cf'[g].imm[i].edit.file # 0 =>
                                cf'[g].imm[i].completed /\ cf'[g].imm[i].edit.file = cf'[g].imm[i].file
                      /\ \A i, k \in DOMAIN cf'[g].imm :
                           i < k /\ ~cf'[g].imm[i].in_progress /\ cf'[g].imm[k].in_progress => bg_error'
    BY Zenon DEF ImmInv
  <2>1. CASE g # f
    <3>1. cf'[g] = cf[g] /\ (bg_error => bg_error')
      BY Zenon, <2>1
    <3>2. /\ \A i \in DOMAIN cf[g].imm :
               /\ i < cf[g].mem.id
               /\ cf[g].imm[i].completed =>
                    cf[g].imm[i].in_progress /\ cf[g].imm[i].file < next_file
               /\ cf[g].imm[i].edit.file # 0 =>
                    cf[g].imm[i].completed /\ cf[g].imm[i].edit.file = cf[g].imm[i].file
          /\ \A i, k \in DOMAIN cf[g].imm :
               i < k /\ ~cf[g].imm[i].in_progress /\ cf[g].imm[k].in_progress => bg_error
      BY Zenon DEF FInv, ImmInv
    <3> QED
      BY Zenon, <3>1, <3>2
  <2>2. CASE g = f
    <3>1. \A i \in DOMAIN cf'[f].imm : i < cf'[f].mem.id
      BY ZenonT(30), <1>1, <1>4 DEF FInv, ImmInv
    <3>2. \A i \in DOMAIN cf'[f].imm : cf'[f].imm[i].completed =>
            cf'[f].imm[i].in_progress /\ cf'[f].imm[i].file < next_file
      BY ZenonT(30), <1>1, <1>6 DEF FInv, ImmInv, JobAt
    <3>3. \A i \in DOMAIN cf'[f].imm : cf'[f].imm[i].edit.file # 0 =>
            cf'[f].imm[i].completed /\ cf'[f].imm[i].edit.file = cf'[f].imm[i].file
      <4>1. \A i \in DOMAIN cf[f].imm : cf[f].imm[i].edit.file # 0 =>
              cf[f].imm[i].completed /\ cf[f].imm[i].edit.file = cf[f].imm[i].file
        BY Zenon DEF FInv, ImmInv
      <4> QED
        BY ZenonT(40), <4>1 DEF MemStep
    <3>4. \A i, k \in DOMAIN cf'[f].imm :
            i < k /\ ~cf'[f].imm[i].in_progress /\ cf'[f].imm[k].in_progress => bg_error'
      <4>1. \A i \in DOMAIN cf'[f].imm : ~cf'[f].imm[i].in_progress =>
              bg_error' \/ ~cf[f].imm[i].in_progress
        BY Zenon DEF MemStep
      <4>2. \A i \in DOMAIN cf'[f].imm : cf'[f].imm[i].in_progress => cf[f].imm[i].in_progress
        BY Zenon, <1>3 DEF MemStep, FInv, OwnInv
      <4> QED
        BY Zenon, <1>1, <4>1, <4>2 DEF FInv, ImmInv
    <3> QED
      BY Zenon, <2>2, <3>1, <3>2, <3>3, <3>4
  <2> QED
    BY Zenon, <2>1, <2>2
<1>16. OwnInv'
  <2>1. \A k \in Jobs : Flushing(k)' => Flushing(k) /\ k # j /\ job'[k] = job[k] /\ job[k].f \in Families
    BY Zenon, <1>1 DEF FInv, JobAt, Flushing, Busy
  <2>2. ASSUME NEW k \in Jobs, Flushing(k)'
        PROVE  /\ job'[k].mems \subseteq DOMAIN cf'[job'[k].f].imm
               /\ \A i \in job'[k].mems :
                    cf'[job'[k].f].imm[i].in_progress /\ ~cf'[job'[k].f].imm[i].completed
               /\ \A g \in Families : \A i \in DOMAIN cf'[g].imm :
                    cf'[g].imm[i].completed => cf'[g].imm[i].file # job'[k].file
               /\ job'[k].file \notin Live(cf, job)'
               /\ \A g \in Families : job'[k].file \notin manifest'[g].files
    <3>1. Flushing(k) /\ k # j /\ job'[k] = job[k] /\ job[k].f \in Families
      BY Zenon, <2>1, <2>2
    <3>2. /\ job[k].mems \subseteq DOMAIN cf[job[k].f].imm
          /\ \A i \in job[k].mems :
               cf[job[k].f].imm[i].in_progress /\ ~cf[job[k].f].imm[i].completed
          /\ \A g \in Families : \A i \in DOMAIN cf[g].imm :
               cf[g].imm[i].completed => cf[g].imm[i].file # job[k].file
          /\ job[k].file \notin Live(cf, job)
          /\ \A g \in Families : job[k].file \notin manifest[g].files
      BY Zenon, <3>1 DEF FInv, OwnInv
    <3>3. job[k].file # job[j].file
      BY Zenon, <1>1, <3>1 DEF FInv, JobAt, Flushing, Busy
    <3>4. \A i \in job[k].mems :
            i \in DOMAIN cf'[job[k].f].imm /\ cf'[job[k].f].imm[i] = cf[job[k].f].imm[i]
      <4>1. CASE job[k].f = f
        BY Zenon, <1>8, <3>1, <4>1
      <4>2. CASE job[k].f # f
        BY Zenon, <3>1, <3>2, <4>2
      <4> QED
        BY Zenon, <4>1, <4>2
    <3>5. \A g \in Families : \A i \in DOMAIN cf'[g].imm :
            cf'[g].imm[i].completed => cf'[g].imm[i].file # job[k].file
      <4> SUFFICES ASSUME NEW g \in Families, NEW i \in DOMAIN cf'[g].imm, cf'[g].imm[i].completed
                   PROVE  cf'[g].imm[i].file # job[k].file
        BY Zenon
      <4>1. i \in DOMAIN cf[g].imm
        BY Zenon, <1>d
      <4>2. CASE cf'[g].imm[i] = cf[g].imm[i]
        <5>1. cf[g].imm[i].completed /\ cf'[g].imm[i].file = cf[g].imm[i].file
          BY Zenon, <4>2
        <5> QED
          BY Zenon, <3>2, <4>1, <5>1
      <4>3. CASE cf'[g].imm[i].file = job[j].file
        BY Zenon, <3>3, <4>3
      <4> QED
        BY Zenon, <1>6, <4>2, <4>3
    <3>6. /\ job[k].mems \subseteq DOMAIN cf'[job[k].f].imm
          /\ \A i \in job[k].mems :
               cf'[job[k].f].imm[i].in_progress /\ ~cf'[job[k].f].imm[i].completed
      BY Zenon, <3>2, <3>4
    <3>7. job[k].file \notin Live(cf, job)' /\ \A g \in Families : job[k].file \notin manifest'[g].files
      BY ZenonT(30), <1>5, <3>2
    <3>8. /\ job'[k].mems \subseteq DOMAIN cf'[job'[k].f].imm
          /\ \A i \in job'[k].mems :
               cf'[job'[k].f].imm[i].in_progress /\ ~cf'[job'[k].f].imm[i].completed
      BY Zenon, <3>1, <3>6
    <3>9. \A g \in Families : \A i \in DOMAIN cf'[g].imm :
            cf'[g].imm[i].completed => cf'[g].imm[i].file # job'[k].file
      BY ZenonT(30), <3>1, <3>5
    <3>10. /\ job'[k].file \notin Live(cf, job)'
           /\ \A g \in Families : job'[k].file \notin manifest'[g].files
      BY Zenon, <3>1, <3>7
    <3> QED
      BY Zenon, <3>8, <3>9, <3>10
  <2>3. \A a, b \in Jobs : Flushing(a)' /\ Flushing(b)' /\ job'[a].f = job'[b].f /\ a # b
          => job'[a].mems \cap job'[b].mems = {}
    <3>1. \A a, b \in Jobs : Flushing(a) /\ Flushing(b) /\ job[a].f = job[b].f /\ a # b
            => job[a].mems \cap job[b].mems = {}
      BY Zenon DEF FInv, OwnInv
    <3> QED
      BY ZenonT(30), <2>1, <3>1
  <2> QED
    BY Zenon, <2>2, <2>3 DEF OwnInv
<1>17. OrderInv'
  BY ZenonT(30), <1>1 DEF FInv, OrderInv
<1>18. TableInv'
  <2>1. \A n \in DOMAIN tables : n \notin DOMAIN tables' => Flushing(j) /\ n = job[j].file
    BY Zenon DEF FlushFrame
  <2>2. Flushing(j) =>
          /\ \A g \in Families : \A i \in DOMAIN cf[g].imm :
               cf[g].imm[i].completed => cf[g].imm[i].file # job[j].file
          /\ job[j].file \notin Live(cf, job)
          /\ \A g \in Families : job[j].file \notin manifest[g].files
    BY Zenon DEF FInv, OwnInv
  <2>3. Live(cf, job)' \subseteq DOMAIN tables'
    BY Zenon, <1>5, <2>1, <2>2 DEF FInv, TableInv
  <2>4. \A g \in Families : manifest'[g].files \subseteq DOMAIN tables'
    BY ZenonT(40), <2>1, <2>2 DEF FInv, TableInv
  <2>5. \A k \in Jobs : job'[k].kind = "compaction" /\ Busy(k)' => job'[k].file \in DOMAIN tables'
    <3> TAKE k \in Jobs
    <3> HAVE job'[k].kind = "compaction" /\ Busy(k)'
    <3>1. k # j /\ Busy(k) /\ job'[k] = job[k] /\ job[k].file # job[j].file
      BY Zenon, <1>1, <1>3 DEF FInv, JobAt
    <3> QED
      BY Zenon, <2>1, <3>1 DEF FInv, TableInv
  <2>6. \A n \in DOMAIN tables' : n \in Nat /\ n < next_file
    BY Zenon DEF FInv, TableInv, FlushFrame
  <2>7. ASSUME NEW g \in Families, NEW i \in DOMAIN cf'[g].imm, cf'[g].imm[i].edit.file # 0,
               Sound(g, i)'
        PROVE  cf'[g].imm[i].edit.file \in DOMAIN tables'
    <3>1. i \in DOMAIN cf[g].imm /\ Sound(g, i)
      BY Zenon, <1>1, <2>7
    <3>2. CASE cf'[g].imm[i] = cf[g].imm[i]
      <4>1. cf[g].imm[i].edit.file \in DOMAIN tables
        BY ZenonT(30), <2>7, <3>1, <3>2 DEF FInv, TableInv
      <4>2. cf[g].imm[i].completed /\ cf[g].imm[i].edit.file = cf[g].imm[i].file
        <5>1. cf[g].imm[i].edit.file # 0
          BY Zenon, <2>7, <3>2
        <5> QED
          BY Zenon, <3>1, <5>1 DEF FInv, ImmInv
      <4> QED
        <5>1. ~(Flushing(j) /\ cf[g].imm[i].edit.file = job[j].file)
          BY Zenon, <2>2, <3>1, <4>2
        <5>2. cf[g].imm[i].edit.file \in DOMAIN tables'
          BY Zenon, <2>1, <4>1, <5>1
        <5> QED
          BY Zenon, <3>2, <5>2
    <3>3. CASE cf'[g].imm[i] # cf[g].imm[i]
      <4>1. g = f /\ Mine(j, i)
        BY ZenonT(30), <3>1, <3>3 DEF MemStep
      <4> QED
        BY ZenonT(30), <2>7, <4>1 DEF MemStep
    <3> QED
      BY Zenon, <3>2, <3>3
  <2> QED
    BY Zenon, <2>3, <2>4, <2>5, <2>6, <2>7 DEF TableInv
<1>19. PurgeInv'
  BY Zenon, <1>3, <1>7 DEF FInv, PurgeInv
<1>20. ManifestInv'
  <2>1. \A k \in Jobs : /\ job'[k].pc = "apply" <=> job[k].pc = "apply"
                        /\ job'[k].pc = "apply" => job'[k] = job[k] /\ job[k].f \in Families
    BY Zenon, <1>2 DEF FInv, JobAt, Busy
  <2>2. ASSUME NEW k \in Jobs, Queued(k), NEW n, Adds(k, n)
        PROVE  Queued(k)' /\ Adds(k, n)'
    <3>1. k # j /\ job'[k] = job[k] /\ Queued(k)'
      BY Zenon, <1>1, <2>2
    <3>2. CASE job[k].kind = "compaction"
      BY Zenon, <2>2, <3>1, <3>2 DEF Adds
    <3>3. CASE job[k].kind # "compaction"
      <4>1. PICK i \in job[k].batch : cf[job[k].f].imm[i].edit.file = n
        BY Zenon, <2>2, <3>3 DEF Adds
      <4>2. Committing(k)
        BY Zenon, <2>2, <3>3 DEF Adds, Committing, Queued
      <4>3. job[k].f \in Families
        BY Zenon, <4>2, BatchSound
      <4>4. cf'[job[k].f].imm[i] = cf[job[k].f].imm[i]
        BY Zenon, <1>8, <3>1, <4>2, <4>3
      <4> QED
        BY Zenon, <2>2, <3>1, <3>3, <4>1, <4>4 DEF Adds
    <3> QED
      BY Zenon, <3>2, <3>3
  <2>3. AddsInv'
    BY Zenon, <2>1, <2>2 DEF FInv, ManifestInv, AddsInv
  <2>4. \A g \in Families : cf'[g].files = cf[g].files
    BY Zenon, <1>4
  <2> QED
    <3>1. ASSUME NEW g \in Families, \A k \in Jobs : job'[k].pc = "apply" /\ job'[k].ok => job'[k].f # g
          PROVE  manifest'[g].files = cf'[g].files
      <4>1. \A k \in Jobs : job[k].pc = "apply" /\ job[k].ok => job[k].f # g
        BY Zenon, <2>1, <3>1
      <4>2. manifest[g].files = cf[g].files
        BY Zenon, <4>1 DEF FInv, ManifestInv
      <4> QED
        BY Zenon, <2>4, <4>2
    <3>2. ASSUME NEW k \in Jobs, job'[k].pc = "apply", job'[k].ok
          PROVE  manifest'[job'[k].f].files = EditedFiles(cf'[job'[k].f].files, job'[k].edits)
      <4>1. job'[k] = job[k] /\ job[k].pc = "apply" /\ job[k].ok /\ job[k].f \in Families
        BY Zenon, <2>1, <3>2
      <4>2. manifest[job[k].f].files = EditedFiles(cf[job[k].f].files, job[k].edits)
        BY Zenon, <4>1 DEF FInv, ManifestInv
      <4>3. cf'[job[k].f].files = cf[job[k].f].files
        BY Zenon, <2>4, <4>1
      <4> QED
        BY Zenon, <4>1, <4>2, <4>3
    <3> QED
      BY Zenon, <2>3, <3>1, <3>2 DEF ManifestInv
<1>21. LogInv'
  <2>1. \A g \in Families : cf'[g].log_number <= logfile_number
    BY Zenon, <1>4 DEF FInv, LogInv
  <2>2. ASSUME NEW g \in Families, NEW i \in DOMAIN cf'[g].imm
        PROVE  cf'[g].imm[i].next_log <= logfile_number /\ cf'[g].imm[i].edit.log <= logfile_number
    <3>1. /\ i \in DOMAIN cf[g].imm /\ logfile_number \in Nat
          /\ cf[g].imm[i].next_log <= logfile_number /\ cf[g].imm[i].edit.log <= logfile_number
      BY Zenon, <1>1 DEF FInv, LogInv, Types
    <3>2. CASE cf'[g].imm[i] = cf[g].imm[i]
      BY Zenon, <3>1, <3>2
    <3>3. CASE cf'[g].imm[i] # cf[g].imm[i]
      <4>1. g = f /\ Mine(j, i)
        BY Zenon, <3>1, <3>3 DEF MemStep
      <4>2. /\ cf'[g].imm[i].next_log = cf[g].imm[i].next_log
            /\ cf'[g].imm[i].edit.log = 0 \/ cf'[g].imm[i].edit.log = cf[g].imm[i].edit.log
        BY Zenon, <2>2, <4>1 DEF MemStep
      <4>3. 0 <= logfile_number
        BY <3>1
      <4> QED
        BY Zenon, <3>1, <4>2, <4>3
    <3> QED
      BY Zenon, <3>2, <3>3
  <2>3. next_file' \in Nat /\ next_file <= next_file'
    BY DEF FInv, Types
  <2>4. job'[j].logs = job[j].logs /\ \A e \in job'[j].edits : e.log <= logfile_number
    BY Zenon, <1>3 DEF FInv, LogInv
  <2> QED
    BY Zenon, <2>1, <2>2, <2>3, <2>4, LogF
<1> QED
  BY ZenonT(30), <1>9, <1>10, <1>11, <1>12, <1>13, <1>14, <1>15, <1>16, <1>17, <1>18, <1>19, <1>20, <1>21
  DEF FInv, CommitInv

\* A family with another list
LEMMA SetImm ==
  ASSUME FInv, NEW f \in Families, NEW c \in ColumnFamily, cf' = [cf EXCEPT ![f] = c]
  PROVE  /\ cf' \in [Families -> ColumnFamily] /\ cf'[f] = c
         /\ \A g \in Families : g # f => cf'[g] = cf[g]
<1>1. cf \in [Families -> ColumnFamily]
  BY Zenon DEF FInv, Types
<1> QED
  BY ZenonT(30), <1>1

\* What MemTableList::RollbackMemtableFlush makes of a list
LEMMA ResetAllIs ==
  ASSUME FInv, NEW f \in Families, NEW S
  PROVE  /\ ResetAll(cf[f].imm, S) \in MemTableList
         /\ DOMAIN ResetAll(cf[f].imm, S) = DOMAIN cf[f].imm
         /\ \A i \in DOMAIN cf[f].imm :
              /\ i \notin S => ResetAll(cf[f].imm, S)[i] = cf[f].imm[i]
              /\ i \in S => /\ ~ResetAll(cf[f].imm, S)[i].in_progress
                            /\ ~ResetAll(cf[f].imm, S)[i].completed
                            /\ ResetAll(cf[f].imm, S)[i].edit.log = 0
                            /\ ResetAll(cf[f].imm, S)[i].edit.file = 0
                            /\ ResetAll(cf[f].imm, S)[i].next_log = cf[f].imm[i].next_log
<1> DEFINE imm == cf[f].imm
<1>1. DOMAIN imm \subseteq Nat /\ \A i \in DOMAIN imm : imm[i] \in MemTable
  BY Zenon, CfTypes DEF FInv
<1>2. \A m \in MemTable : /\ Reset(m) \in MemTable /\ ~Reset(m).in_progress /\ ~Reset(m).completed
                          /\ Reset(m).edit.log = 0 /\ Reset(m).edit.file = 0
                          /\ Reset(m).next_log = m.next_log
  BY Zenon DEF Reset, MemTable, NoEdit
<1> HIDE DEF imm
<1>3. ResetAll(imm, S) \in [DOMAIN imm -> MemTable]
  BY Zenon, <1>1, <1>2 DEF ResetAll
<1>4. ResetAll(imm, S) \in MemTableList
  BY Zenon, <1>1, <1>3 DEF MemTableList
<1>5. \A i \in DOMAIN imm : ResetAll(imm, S)[i] = IF i \in S THEN Reset(imm[i]) ELSE imm[i]
  BY Zenon DEF ResetAll
<1>6. /\ DOMAIN ResetAll(imm, S) = DOMAIN imm
      /\ \A i \in DOMAIN imm :
              /\ i \notin S => ResetAll(imm, S)[i] = imm[i]
              /\ i \in S => /\ ~ResetAll(imm, S)[i].in_progress
                            /\ ~ResetAll(imm, S)[i].completed
                            /\ ResetAll(imm, S)[i].edit.log = 0
                            /\ ResetAll(imm, S)[i].edit.file = 0
                            /\ ResetAll(imm, S)[i].next_log = imm[i].next_log
  BY <1>1, <1>2, <1>3, <1>5
<1> QED
  BY Zenon, <1>4, <1>6 DEF imm

\* RollbackMemtableFlush: the output is removed and the memtables are to be flushed
\* again. With paranoid_checks the database stops, so no job will flush them
\* out of order.
LEMMA RollbackMemtableFlushF ==
  ASSUME FInv, NEW j \in Jobs, RollbackMemtableFlush(j), paranoid_checks
  PROVE  FInv'
<1> DEFINE f == job[j].f
           S == job[j].mems
           r == [job[j] EXCEPT !.pc = "find", !.ok = FALSE, !.base = {}]
           l == ResetAll(cf[f].imm, S)
           c == [cf[f] EXCEPT !.imm = l]
<1>1. /\ job[j].pc = "build" /\ SetJob(j, r) /\ bg_error'
      /\ tables' = [n \in DOMAIN tables \ {job[j].file} |-> tables[n]]
      /\ cf' = [cf EXCEPT ![f] = c]
      /\ obsolete' \subseteq obsolete \cup Live(cf, job)
      /\ UNCHANGED <<next_file, logfile_number, alive_log_files, written, manifest_writers,
                     writer, logs, manifest>>
  <2>1. bg_error'
    BY Zenon DEF RollbackMemtableFlush
  <2>2. obsolete' \subseteq obsolete \cup Live(cf, job)
    BY Zenon DEF RollbackMemtableFlush, ReleaseVersions
  <2>3. cf' = [cf EXCEPT ![f] = c]
    BY Zenon DEF RollbackMemtableFlush
  <2>4. /\ job[j].pc = "build" /\ SetJob(j, r)
        /\ tables' = [n \in DOMAIN tables \ {job[j].file} |-> tables[n]]
        /\ UNCHANGED <<next_file, logfile_number, alive_log_files, written, manifest_writers,
                       writer, logs, manifest>>
    BY Zenon DEF RollbackMemtableFlush, walstate
  <2> QED
    BY ZenonT(30), <2>1, <2>2, <2>3, <2>4
<1>2. /\ Flushing(j) /\ ~Committing(j) /\ job[j].kind = "flush" /\ f \in Families
  BY Zenon, <1>1 DEF FInv, JobAt, Flushing, Committing, Busy
<1>3. /\ r \in Job /\ r.pc = "find" /\ r.kind = "flush" /\ r.f = f /\ r.file = job[j].file
      /\ r.pending = job[j].pending /\ r.base = {} /\ r.tables = job[j].tables
      /\ r.logs = job[j].logs /\ r.edits = job[j].edits
  <2>1. job[j] \in Job
    BY Zenon, JobTypes DEF FInv
  <2> QED
    BY Zenon, <1>2, <2>1 DEF Job
<1>4. /\ job' \in [Jobs -> Job] /\ job'[j] = r
      /\ \A k \in Jobs : k # j => job'[k] = job[k]
  BY Zenon, <1>1, <1>3, SetJobTypes DEF FInv
<1>5. /\ l \in MemTableList /\ DOMAIN l = DOMAIN cf[f].imm
      /\ \A i \in DOMAIN cf[f].imm :
              /\ i \notin S => l[i] = cf[f].imm[i]
              /\ i \in S => /\ ~l[i].in_progress /\ ~l[i].completed
                            /\ l[i].edit.log = 0 /\ l[i].edit.file = 0
                            /\ l[i].next_log = cf[f].imm[i].next_log
  <2> HIDE DEF f, S
  <2> QED
    BY ZenonT(30), <1>2, ResetAllIs
<1> HIDE DEF r, l
<1>6. /\ c \in ColumnFamily /\ c.imm = l /\ c.mem = cf[f].mem /\ c.files = cf[f].files
      /\ c.commit_in_progress = cf[f].commit_in_progress /\ c.log_number = cf[f].log_number
  <2>1. cf[f] \in ColumnFamily
    BY Zenon, <1>2, CfTypes DEF FInv
  <2> HIDE DEF f
  <2> QED
    BY Zenon, <1>5, <2>1 DEF ColumnFamily
<1> HIDE DEF c
<1>7. /\ cf' \in [Families -> ColumnFamily] /\ cf'[f] = c
      /\ \A g \in Families : g # f => cf'[g] = cf[g]
  BY Zenon, <1>1, <1>2, <1>6, SetImm
<1>8. \A i : Mine(j, i) <=> i \in S
  BY Zenon, <1>2 DEF Mine
<1>9. FlushFrame(j, f)
  BY Zenon, <1>1, <1>2, <1>3, <1>4, <1>6, <1>7 DEF FlushFrame
<1>10. MemStep(j, f)
  <2>1. cf'[f].imm = l /\ bg_error'
    BY Zenon, <1>1, <1>6, <1>7
  <2> HIDE DEF f, S
  <2> QED
    BY Zenon, <1>5, <1>8, <2>1 DEF MemStep
<1>11. CommitStep(j, f)
  <2>1. cf[f].commit_in_progress <=> \E k \in Jobs : Committing(k) /\ job[k].f = f
    BY Zenon, <1>2 DEF FInv, CommitInv, CommitterInv
  <2>2. cf'[f].commit_in_progress <=> cf[f].commit_in_progress
    BY Zenon, <1>6, <1>7
  <2>3. cf'[f].commit_in_progress <=> \E k \in Jobs \ {j} : Committing(k) /\ job[k].f = f
    BY Zenon, <1>2, <2>1, <2>2
  <2>4. ~cf'[f].commit_in_progress => \A i \in DOMAIN cf'[f].imm : cf'[f].imm[i].completed =>
         \E q \in DOMAIN cf'[f].imm : q < i /\ ~cf'[f].imm[q].completed
    <3>1. ~cf[f].commit_in_progress => \A i \in DOMAIN cf[f].imm : cf[f].imm[i].completed =>
            \E q \in DOMAIN cf[f].imm : q < i /\ ~cf[f].imm[q].completed
      BY Zenon, <1>2 DEF FInv, CommitInv, OldestInv
    <3>2. cf'[f].imm = l /\ DOMAIN l = DOMAIN cf[f].imm
      BY Zenon, <1>5, <1>6, <1>7
    <3>3. \A i \in DOMAIN cf[f].imm : l[i].completed => cf[f].imm[i].completed
      BY Zenon, <1>5
    <3> HIDE DEF f
    <3> QED
      BY Zenon, <2>2, <3>1, <3>2, <3>3
  <2> QED
    BY Zenon, <1>3, <1>4, <2>3, <2>4 DEF CommitStep
<1> HIDE DEF f
<1> QED
  BY Zenon, <1>1, <1>2, <1>4, <1>7, <1>9, <1>10, <1>11, ListStepF

\* The loop of InstallMemtableFlushResults: a job that commits is the only one of
\* its family, and its file is the oldest.
LEMMA CommitOldestF ==
  ASSUME FInv, NEW j \in Jobs, NEW f \in Families, job[j].f = f, job[j].kind = "flush",
         job[j].pc \in {"build", "applied"}, NEW c \in ColumnFamily, NEW r \in Job,
         c.mem = cf[f].mem, c.files = cf[f].files, c.log_number = cf[f].log_number,
         r.kind = "flush", r.f = f, r.file = job[j].file, r.pending = job[j].pending,
         r.base \subseteq job[j].base, r.tables = job[j].tables, r.logs = job[j].logs,
         r.edits = job[j].edits,
         CommitOldest(j, c, CompletedPrefix(c.imm), r),
         \A k \in Jobs \ {j} : Committing(k) => job[k].f # f,
         CompletedPrefix(c.imm) # {} =>
           \A i \in DOMAIN c.imm : \A n \in Nat : HasFile(f, i, n) => job[j].file <= n,
         cf'[f].imm = c.imm => MemStep(j, f),
         bg_error => bg_error', obsolete' \subseteq obsolete \cup Live(cf, job),
         UNCHANGED <<next_file, logfile_number, alive_log_files, written, writer, logs, tables,
                     manifest>>
  PROVE  FInv'
<1> DEFINE B == CompletedPrefix(c.imm)
           c1 == [c EXCEPT !.commit_in_progress = TRUE]
           c0 == [c EXCEPT !.commit_in_progress = FALSE]
           r1 == [r EXCEPT !.pc = "manifest", !.batch = B]
           r0 == [r EXCEPT !.pc = "find"]
<1>1. B \subseteq DOMAIN c.imm /\ DOMAIN c.imm \subseteq Nat
  <2>1. c.imm \in MemTableList
    BY Zenon DEF ColumnFamily
  <2>2. DOMAIN c.imm \subseteq Nat
    BY Zenon, <2>1 DEF MemTableList
  <2> QED
    BY Zenon, <2>2 DEF CompletedPrefix
<1>2. IF B # {}
      THEN /\ cf' = [cf EXCEPT ![f] = c1] /\ SetJob(j, r1)
           /\ manifest_writers' = Append(manifest_writers, j)
      ELSE /\ cf' = [cf EXCEPT ![f] = c0] /\ SetJob(j, r0)
           /\ manifest_writers' = manifest_writers
  BY Zenon DEF CommitOldest
<1> HIDE DEF B
<1>3. /\ c1 \in ColumnFamily /\ c1.imm = c.imm /\ c1.mem = c.mem /\ c1.files = c.files
      /\ c1.log_number = c.log_number /\ c1.commit_in_progress
  BY Zenon DEF ColumnFamily
<1>4. /\ c0 \in ColumnFamily /\ c0.imm = c.imm /\ c0.mem = c.mem /\ c0.files = c.files
      /\ c0.log_number = c.log_number /\ ~c0.commit_in_progress
  BY Zenon DEF ColumnFamily
<1>5. /\ r1 \in Job /\ r1.pc = "manifest" /\ r1.batch = B /\ r1.kind = r.kind /\ r1.f = r.f
      /\ r1.file = r.file /\ r1.pending = r.pending /\ r1.base = r.base
      /\ r1.tables = r.tables /\ r1.logs = r.logs /\ r1.edits = r.edits
  BY Zenon, <1>1 DEF Job
<1>6. /\ r0 \in Job /\ r0.pc = "find" /\ r0.kind = r.kind /\ r0.f = r.f
      /\ r0.file = r.file /\ r0.pending = r.pending /\ r0.base = r.base
      /\ r0.tables = r.tables /\ r0.logs = r.logs /\ r0.edits = r.edits
  BY Zenon DEF Job
<1> HIDE DEF c0, c1, r0, r1
<1>7. /\ job' \in [Jobs -> Job] /\ job'[j] = (IF B # {} THEN r1 ELSE r0)
      /\ \A k \in Jobs : k # j => job'[k] = job[k]
  BY Zenon, <1>2, <1>5, <1>6, SetJobTypes DEF FInv
<1>8. /\ cf' \in [Families -> ColumnFamily] /\ cf'[f] = (IF B # {} THEN c1 ELSE c0)
      /\ \A g \in Families : g # f => cf'[g] = cf[g]
  BY ZenonT(30), <1>2, <1>3, <1>4, SetImm
<1>9. cf'[f].imm = c.imm /\ (cf'[f].commit_in_progress <=> B # {}) /\ (job'[j].pc = "manifest" <=> B # {})
  BY Zenon, <1>3, <1>4, <1>5, <1>6, <1>7, <1>8
<1>10. FlushFrame(j, f)
  <2>1. CASE B # {}
    <3>1. job'[j] = r1 /\ cf'[f] = c1 /\ manifest_writers' = Append(manifest_writers, j)
      BY Zenon, <1>2, <1>7, <1>8, <2>1
    <3> QED
      BY Zenon, <1>3, <1>5, <3>1 DEF FlushFrame
  <2>2. CASE B = {}
    <3>1. job'[j] = r0 /\ cf'[f] = c0 /\ manifest_writers' = manifest_writers
      BY Zenon, <1>2, <1>7, <1>8, <2>2
    <3> QED
      BY Zenon, <1>4, <1>6, <3>1 DEF FlushFrame
  <2> QED
    BY Zenon, <2>1, <2>2
<1>11. CommitStep(j, f)
  <2>1. ~cf'[f].commit_in_progress => \A i \in DOMAIN cf'[f].imm : cf'[f].imm[i].completed =>
          \E q \in DOMAIN cf'[f].imm : q < i /\ ~cf'[f].imm[q].completed
    <3> SUFFICES ASSUME B = {}, NEW i \in DOMAIN c.imm, c.imm[i].completed
                 PROVE  \E q \in DOMAIN c.imm : q < i /\ ~c.imm[q].completed
      BY Zenon, <1>9
    <3>1. PICK q \in DOMAIN c.imm : q <= i /\ ~c.imm[q].completed
      BY Zenon DEF B, CompletedPrefix
    <3>2. q \in Nat /\ i \in Nat /\ q # i
      BY Zenon, <1>1, <3>1
    <3>3. q < i
      BY <3>1, <3>2
    <3> QED
      BY Zenon, <3>1, <3>3
  <2>2. job'[j].pc = "manifest" => job'[j].batch = B
    BY Zenon, <1>5, <1>7, <1>9
  <2> QED
    BY ZenonT(30), <1>9, <2>1, <2>2 DEF CommitStep, B
<1> QED
  BY Zenon, <1>7, <1>8, <1>9, <1>10, <1>11, ListStepF

\* A flush job that comes back from LogAndApply
LEMMA FlushAppliedF ==
  ASSUME FInv, NEW j \in Jobs, FlushApplied(j), paranoid_checks
  PROVE  FInv'
<1> DEFINE f == job[j].f
           S == job[j].batch
<1>1. /\ job[j].pc = "applied" /\ job[j].kind = "flush"
      /\ UNCHANGED <<next_file, logfile_number, alive_log_files, written, obsolete,
                     writer, logs, tables, manifest>>
  BY Zenon DEF FlushApplied, walstate, disk
<1>2. /\ ~Flushing(j) /\ Committing(j) /\ f \in Families
  BY Zenon, <1>1 DEF FInv, JobAt, Flushing, Committing, Busy
<1>3. /\ S # {} /\ S \subseteq DOMAIN cf[f].imm
      /\ \A i \in S : /\ cf[f].imm[i].completed
                      /\ \A k \in DOMAIN cf[f].imm : k < i => k \in S
      /\ \A i \in DOMAIN cf[f].imm : \A n \in Nat : HasFile(f, i, n) => job[j].file <= n
  BY Zenon, <1>2 DEF FInv, CommitInv, BatchInv
<1>4. \A k \in Jobs \ {j} : Committing(k) => job[k].f # f
  BY Zenon, <1>2 DEF FInv, CommitInv, CommitterInv
<1>5. \A i : Mine(j, i) <=> i \in S
  BY Zenon, <1>2 DEF Mine
<1>6. job[j] \in Job /\ cf[f] \in ColumnFamily /\ DOMAIN cf[f].imm \subseteq Nat
      /\ \A i \in DOMAIN cf[f].imm : cf[f].imm[i] \in MemTable
  BY Zenon, <1>2, JobTypes, CfTypes DEF FInv
<1>7. obsolete' \subseteq obsolete \cup Live(cf, job)
  BY Zenon, <1>1
<1>8. CASE job[j].ok
  <2> DEFINE l == Uncommitted(cf[f].imm, S)
             c == [cf[f] EXCEPT !.imm = l]
  <2>1. CommitOldest(j, c, CompletedPrefix(l), job[j]) /\ bg_error' = bg_error
    BY ZenonT(30), <1>8 DEF FlushApplied, RetryCommit
  <2>2. /\ l \in MemTableList /\ DOMAIN l = DOMAIN cf[f].imm \ S
        /\ \A i \in DOMAIN l : l[i] = cf[f].imm[i]
    <3> HIDE DEF f, S
    <3>1. l \in [DOMAIN cf[f].imm \ S -> MemTable]
      BY Zenon, <1>6 DEF Uncommitted
    <3> QED
      BY Zenon, <1>6, <3>1 DEF Uncommitted, MemTableList
  <2> HIDE DEF l
  <2>3. /\ c \in ColumnFamily /\ c.imm = l /\ c.mem = cf[f].mem /\ c.files = cf[f].files
        /\ c.log_number = cf[f].log_number
    <3> HIDE DEF f
    <3> QED
      BY Zenon, <1>6, <2>2 DEF ColumnFamily
  <2> HIDE DEF c
  <2>4. cf'[f].imm = c.imm => MemStep(j, f)
    <3> HIDE DEF f, S
    <3> QED
      BY Zenon, <1>3, <1>5, <2>2, <2>3 DEF MemStep
  <2>5. \A i \in DOMAIN c.imm : \A n \in Nat : HasFile(f, i, n) => job[j].file <= n
    BY Zenon, <1>3, <2>2, <2>3
  <2>6. CommitOldest(j, c, CompletedPrefix(c.imm), job[j])
    BY Zenon, <2>1, <2>3
  <2>7. job[j].f = f
    BY Zenon
  <2> HIDE DEF f
  <2> QED
    BY ZenonT(40), <1>1, <1>2, <1>4, <1>6, <1>7, <2>1, <2>3, <2>4, <2>5, <2>6, <2>7, CommitOldestF
<1>9. CASE ~job[j].ok
  <2> DEFINE l == ResetAll(cf[f].imm, S)
             c == [cf[f] EXCEPT !.commit_in_progress = FALSE, !.imm = l]
             r == [job[j] EXCEPT !.pc = "find"]
  <2>1. bg_error'
    BY Zenon, <1>9 DEF FlushApplied
  <2>2. cf' = [cf EXCEPT ![f] = c] /\ SetJob(j, r) /\ manifest_writers' = manifest_writers
    BY Zenon, <1>9 DEF FlushApplied
  <2>3. /\ l \in MemTableList /\ DOMAIN l = DOMAIN cf[f].imm
        /\ \A i \in DOMAIN cf[f].imm :
              /\ i \notin S => l[i] = cf[f].imm[i]
              /\ i \in S => /\ ~l[i].in_progress /\ ~l[i].completed
                            /\ l[i].edit.log = 0 /\ l[i].edit.file = 0
                            /\ l[i].next_log = cf[f].imm[i].next_log
    <3> HIDE DEF f, S
    <3> QED
      BY ZenonT(40), <1>2, ResetAllIs
  <2> HIDE DEF l
  <2>4. /\ c \in ColumnFamily /\ c.imm = l /\ c.mem = cf[f].mem /\ c.files = cf[f].files
        /\ c.log_number = cf[f].log_number /\ ~c.commit_in_progress
    <3> HIDE DEF f
    <3> QED
      BY Zenon, <1>6, <2>3 DEF ColumnFamily
  <2>5. /\ r \in Job /\ r.pc = "find" /\ r.kind = "flush" /\ r.f = f /\ r.file = job[j].file
        /\ r.pending = job[j].pending /\ r.base = job[j].base /\ r.tables = job[j].tables
        /\ r.logs = job[j].logs /\ r.edits = job[j].edits
    BY Zenon, <1>1, <1>6 DEF Job
  <2> HIDE DEF c, r
  <2>6. /\ job' \in [Jobs -> Job] /\ job'[j] = r
        /\ \A k \in Jobs : k # j => job'[k] = job[k]
    BY Zenon, <2>2, <2>5, SetJobTypes DEF FInv
  <2>7. /\ cf' \in [Families -> ColumnFamily] /\ cf'[f] = c
        /\ \A g \in Families : g # f => cf'[g] = cf[g]
    BY Zenon, <1>2, <2>2, <2>4, SetImm
  <2>8. FlushFrame(j, f)
    BY Zenon, <1>1, <2>2, <2>4, <2>5, <2>6, <2>7 DEF FlushFrame
  <2>9. cf'[f].imm = l
    BY Zenon, <2>4, <2>7
  <2>10. MemStep(j, f)
    <3> HIDE DEF f, S
    <3> QED
      BY Zenon, <1>3, <1>5, <2>1, <2>3, <2>9 DEF MemStep
  <2>11. \A i \in DOMAIN l : l[i].completed => \E q \in DOMAIN l : q < i /\ ~l[q].completed
    <3> TAKE i \in DOMAIN l
    <3> HAVE l[i].completed
    <3>1. PICK q \in S : TRUE
      BY Zenon, <1>3
    <3>2. i \notin S /\ i \in DOMAIN cf[f].imm /\ q \in DOMAIN l /\ ~l[q].completed
      BY Zenon, <1>3, <2>3
    <3>3. i \in Nat /\ q \in Nat /\ ~(i < q) /\ i # q
      BY Zenon, <1>3, <1>6, <3>1, <3>2
    <3> QED
      BY <3>2, <3>3
  <2>12. CommitStep(j, f)
    BY ZenonT(30), <1>4, <2>4, <2>5, <2>6, <2>7, <2>9, <2>11 DEF CommitStep
  <2> HIDE DEF f
  <2> QED
    BY ZenonT(30), <1>1, <1>2, <1>7, <2>1, <2>6, <2>7, <2>8, <2>10, <2>12, ListStepF
<1> QED
  BY Zenon, <1>8, <1>9

\* A memtable whose flush is done: completed, with its file, and otherwise the same
LEMMA FlushedIs ==
  ASSUME NEW m \in MemTable, NEW file \in Nat, m.edit.file = 0
  PROVE  /\ Flushed(m, file) \in MemTable
         /\ Flushed(m, file).completed /\ Flushed(m, file).file = file
         /\ Flushed(m, file).in_progress <=> m.in_progress
         /\ Flushed(m, file).next_log = m.next_log
         /\ Flushed(m, file).edit.log = m.edit.log
         /\ Flushed(m, file).edit.file # 0 =>
              Flushed(m, file).edit.file = file /\ file \in DOMAIN tables
<1> DEFINE e == IF m.edit = NoEdit \/ file \notin DOMAIN tables THEN m.edit
                ELSE [log |-> m.edit.log, file |-> file]
<1>1. /\ e \in [log : Nat, file : Nat] /\ e.log = m.edit.log
      /\ e.file # 0 => e.file = file /\ file \in DOMAIN tables
  BY Zenon DEF MemTable
<1>2. Flushed(m, file) = [m EXCEPT !.completed = TRUE, !.file = file, !.edit = e]
  BY Zenon DEF Flushed
<1> HIDE DEF e
<1> QED
  BY Zenon, <1>1, <1>2 DEF MemTable

\* InstallMemtableFlushResults: the memtables of the job have its file.
LEMMA InstallMemtableFlushResultsF ==
  ASSUME FInv, NEW j \in Jobs, InstallMemtableFlushResults(j)
  PROVE  FInv'
<1> DEFINE f == job[j].f
           S == job[j].mems
           l == [i \in DOMAIN cf[f].imm |->
                   IF i \in S THEN Flushed(cf[f].imm[i], job[j].file) ELSE cf[f].imm[i]]
           c == [cf[f] EXCEPT !.imm = l]
           r == [job[j] EXCEPT !.base = {}]
           r0 == [job[j] EXCEPT !.pc = "find", !.base = {}]
<1>1. /\ job[j].pc = "build"
      /\ UNCHANGED <<next_file, logfile_number, alive_log_files, written, bg_error, writer,
                     logs, tables, manifest>>
  BY Zenon DEF InstallMemtableFlushResults, walstate, disk
<1>2. obsolete' \subseteq obsolete \cup Live(cf, job)
  BY Zenon DEF InstallMemtableFlushResults, ReleaseVersions
<1>3. IF c.commit_in_progress
      THEN /\ cf' = [cf EXCEPT ![f] = c] /\ SetJob(j, r0)
           /\ manifest_writers' = manifest_writers
      ELSE CommitOldest(j, c, CompletedPrefix(c.imm), r)
  BY Zenon DEF InstallMemtableFlushResults
<1>4. /\ Flushing(j) /\ ~Committing(j) /\ job[j].kind = "flush" /\ f \in Families
  BY Zenon, <1>1 DEF FInv, JobAt, Flushing, Committing, Busy
<1>5. /\ S \subseteq DOMAIN cf[f].imm
      /\ \A i \in S : cf[f].imm[i].in_progress /\ ~cf[f].imm[i].completed
  BY Zenon, <1>4 DEF FInv, OwnInv
<1>6. /\ job[j] \in Job /\ job[j].file \in Nat /\ cf[f] \in ColumnFamily
      /\ DOMAIN cf[f].imm \subseteq Nat /\ \A i \in DOMAIN cf[f].imm : cf[f].imm[i] \in MemTable
  BY Zenon, <1>4, JobTypes, CfTypes DEF FInv
<1>7. \A i \in S : cf[f].imm[i].edit.file = 0
  BY Zenon, <1>4, <1>5 DEF FInv, ImmInv
<1>8. /\ l \in MemTableList /\ DOMAIN l = DOMAIN cf[f].imm
      /\ \A i \in DOMAIN cf[f].imm :
           /\ i \notin S => l[i] = cf[f].imm[i]
           /\ i \in S => /\ l[i].in_progress /\ l[i].completed /\ l[i].file = job[j].file
                         /\ l[i].next_log = cf[f].imm[i].next_log
                         /\ l[i].edit.log = cf[f].imm[i].edit.log
                         /\ l[i].edit.file # 0 =>
                              l[i].edit.file = job[j].file /\ job[j].file \in DOMAIN tables
  <2>1. ASSUME NEW i \in S
        PROVE
          /\ Flushed(cf[f].imm[i], job[j].file) \in MemTable
          /\ Flushed(cf[f].imm[i], job[j].file).in_progress
          /\ Flushed(cf[f].imm[i], job[j].file).completed
          /\ Flushed(cf[f].imm[i], job[j].file).file = job[j].file
          /\ Flushed(cf[f].imm[i], job[j].file).next_log = cf[f].imm[i].next_log
          /\ Flushed(cf[f].imm[i], job[j].file).edit.log = cf[f].imm[i].edit.log
          /\ Flushed(cf[f].imm[i], job[j].file).edit.file # 0 =>
               /\ Flushed(cf[f].imm[i], job[j].file).edit.file = job[j].file
               /\ job[j].file \in DOMAIN tables
    <3>1. cf[f].imm[i] \in MemTable /\ cf[f].imm[i].edit.file = 0 /\ cf[f].imm[i].in_progress
      BY Zenon, <1>5, <1>6, <1>7
    <3> QED
      BY ZenonT(30), <1>6, <3>1, FlushedIs
  <2> HIDE DEF f, S
  <2>2. l \in [DOMAIN cf[f].imm -> MemTable]
    BY Zenon, <1>6, <2>1
  <2>3. l \in MemTableList
    BY Zenon, <1>6, <2>2 DEF MemTableList
  <2>4. \A i \in DOMAIN cf[f].imm :
          l[i] = IF i \in S THEN Flushed(cf[f].imm[i], job[j].file) ELSE cf[f].imm[i]
    BY Zenon
  <2> HIDE DEF l
  <2> QED
    BY ZenonT(40), <1>5, <2>1, <2>2, <2>3, <2>4
<1> HIDE DEF l
<1>9. /\ c \in ColumnFamily /\ c.imm = l /\ c.mem = cf[f].mem /\ c.files = cf[f].files
      /\ c.commit_in_progress = cf[f].commit_in_progress /\ c.log_number = cf[f].log_number
  <2> HIDE DEF f
  <2> QED
    BY Zenon, <1>6, <1>8 DEF ColumnFamily
<1> HIDE DEF c
<1>10. \A i : Mine(j, i) <=> i \in S
  BY Zenon, <1>4 DEF Mine
<1>11. cf'[f].imm = l => MemStep(j, f)
  <2> HIDE DEF f, S
  <2> QED
    <3> HAVE cf'[f].imm = l
    <3>1. \A i \in DOMAIN l : Mine(j, i) => i \in S
      BY Zenon, <1>10
    <3>2. \A i \in S : Flushing(j) /\ i \in job[j].mems
      BY Zenon, <1>4 DEF S
    <3>3. /\ DOMAIN l = DOMAIN cf[f].imm
          /\ \A i \in DOMAIN cf[f].imm : ~Mine(j, i) => l[i] = cf[f].imm[i]
      BY Zenon, <1>8, <1>10
    <3>4. \A i \in DOMAIN l : Mine(j, i) =>
            /\ l[i].next_log = cf[f].imm[i].next_log
            /\ Flushing(j) /\ i \in job[j].mems
            /\ l[i].in_progress /\ l[i].completed /\ l[i].file = job[j].file
            /\ l[i].edit.log = cf[f].imm[i].edit.log
            /\ l[i].edit.file # 0 => l[i].edit.file = job[j].file /\ job[j].file \in DOMAIN tables'
      BY Zenon, <1>1, <1>8, <3>1, <3>2, <3>3
    <3> HIDE DEF l
    <3> QED
      BY Zenon, <3>3, <3>4 DEF MemStep
<1>12. cf[f].commit_in_progress <=> \E k \in Jobs \ {j} : Committing(k) /\ job[k].f = f
  <2>1. cf[f].commit_in_progress <=> \E k \in Jobs : Committing(k) /\ job[k].f = f
    BY Zenon, <1>4 DEF FInv, CommitInv, CommitterInv
  <2> QED
    BY Zenon, <1>4, <2>1
<1>13. CASE c.commit_in_progress
  <2>1. /\ r0 \in Job /\ r0.pc = "find" /\ r0.kind = "flush" /\ r0.f = f /\ r0.file = job[j].file
        /\ r0.pending = job[j].pending /\ r0.base = {} /\ r0.tables = job[j].tables
        /\ r0.logs = job[j].logs /\ r0.edits = job[j].edits
    BY ZenonT(30), <1>4, <1>6 DEF Job
  <2>2. cf' = [cf EXCEPT ![f] = c] /\ SetJob(j, r0) /\ manifest_writers' = manifest_writers
    BY Zenon, <1>3, <1>13
  <2> HIDE DEF r0
  <2>3. /\ job' \in [Jobs -> Job] /\ job'[j] = r0
        /\ \A k \in Jobs : k # j => job'[k] = job[k]
    BY Zenon, <2>1, <2>2, SetJobTypes DEF FInv
  <2>4. /\ cf' \in [Families -> ColumnFamily] /\ cf'[f] = c
        /\ \A g \in Families : g # f => cf'[g] = cf[g]
    BY Zenon, <1>4, <1>9, <2>2, SetImm
  <2>5. FlushFrame(j, f)
    BY ZenonT(30), <1>1, <1>4, <1>9, <2>1, <2>2, <2>3, <2>4 DEF FlushFrame
  <2>6. MemStep(j, f)
    BY Zenon, <1>9, <1>11, <2>4
  <2>7. CommitStep(j, f)
    BY ZenonT(30), <1>9, <1>12, <1>13, <2>1, <2>3, <2>4 DEF CommitStep
  <2> HIDE DEF f
  <2> QED
    BY Zenon, <1>1, <1>2, <1>4, <2>3, <2>4, <2>5, <2>6, <2>7, ListStepF
<1>14. CASE ~c.commit_in_progress
  <2>1. /\ r \in Job /\ r.kind = "flush" /\ r.f = f /\ r.file = job[j].file
        /\ r.pending = job[j].pending /\ r.base = {} /\ r.tables = job[j].tables
        /\ r.logs = job[j].logs /\ r.edits = job[j].edits
    BY ZenonT(30), <1>4, <1>6 DEF Job
  <2>2. \A k \in Jobs \ {j} : Committing(k) => job[k].f # f
    BY Zenon, <1>9, <1>12, <1>14
  <2>3. ASSUME CompletedPrefix(l) # {}, NEW i \in DOMAIN l, NEW n \in Nat, HasFile(f, i, n)
        PROVE  job[j].file <= n
    <3>1. PICK p \in DOMAIN cf[f].imm : \A k \in DOMAIN cf[f].imm : k <= p => l[k].completed
      BY Zenon, <1>8, <2>3 DEF CompletedPrefix
    <3>2. \A q \in DOMAIN cf[f].imm : cf[f].imm[q].completed =>
            \E k \in DOMAIN cf[f].imm : k < q /\ ~cf[f].imm[k].completed
      BY ZenonT(30), <1>4, <1>9, <1>14 DEF FInv, CommitInv, OldestInv
    <3>3. \A q \in S : HasFile(f, q, job[j].file)
      BY Zenon, <1>4 DEF HasFile, Owns
    <3>4. i \in DOMAIN cf[f].imm /\ p \in Nat /\ i \in Nat
      BY Zenon, <1>6, <1>8
    <3>5. \A q \in DOMAIN cf[f].imm : q <= p /\ q \notin S => cf[f].imm[q].completed
      BY Zenon, <1>8, <3>1
    <3>6. CASE i \in S
      <4>1. \A k \in Jobs : Owns(k, f, i) => k = j
        BY Zenon, <1>4, <3>6 DEF FInv, OwnInv, Owns
      <4>2. n = job[j].file
        BY ZenonT(30), <1>5, <2>3, <3>6, <4>1 DEF HasFile
      <4> QED
        BY <1>6, <4>2
    <3>7. CASE \E q \in S : q < i
      <4>1. PICK q \in S : q < i
        BY Zenon, <3>7
      <4>2. q \in DOMAIN cf[f].imm /\ HasFile(f, q, job[j].file)
        BY Zenon, <1>5, <3>3
      <4> QED
        BY ZenonT(30), <1>4, <1>6, <2>3, <3>4, <4>1, <4>2 DEF FInv, OrderInv
    <3>8. CASE i \notin S /\ \A q \in S : ~(q < i)
      <4>1. \E q \in S : q <= p
        <5>1. CASE p \in S
          BY <3>4, <5>1
        <5>2. CASE p \notin S
          <6>1. cf[f].imm[p].completed
            <7>1. p <= p
              BY <3>4
            <7> QED
              BY Zenon, <3>5, <5>2, <7>1
          <6>2. PICK k \in DOMAIN cf[f].imm : k < p /\ ~cf[f].imm[k].completed
            BY Zenon, <3>2, <6>1
          <6>3. k \in Nat /\ k <= p
            BY <1>6, <3>4, <6>2
          <6> QED
            BY Zenon, <3>5, <6>2, <6>3
        <5> QED
          BY Zenon, <5>1, <5>2
      <4>2. PICK q \in S : q <= p
        BY Zenon, <4>1
      <4>3. i <= p
        <5>1. q \in Nat /\ ~(q < i)
          BY Zenon, <1>5, <1>6, <3>8
        <5> QED
          BY <3>4, <4>2, <5>1
      <4>4. cf[f].imm[i].completed
        BY Zenon, <3>4, <3>5, <3>8, <4>3
      <4>5. PICK k \in DOMAIN cf[f].imm : k < i /\ ~cf[f].imm[k].completed
        BY Zenon, <3>2, <3>4, <4>4
      <4>6. k \in Nat /\ k <= p
        <5>1. k \in Nat /\ k < i
          BY Zenon, <1>6, <4>5
        <5> QED
          BY <3>4, <4>3, <5>1
      <4>7. k \in S
        BY Zenon, <3>5, <4>5, <4>6
      <4> QED
        BY Zenon, <3>8, <4>5, <4>7
    <3> QED
      BY Zenon, <3>6, <3>7, <3>8
  <2>4. CommitOldest(j, c, CompletedPrefix(c.imm), r)
    BY Zenon, <1>3, <1>14
  <2>5. job[j].f = f
    BY Zenon
  <2> HIDE DEF f, r
  <2> QED
    <3>1. c.imm = l /\ cf[f].mem = c.mem
      BY Zenon, <1>9
    <3>2. CompletedPrefix(c.imm) # {} =>
            \A i \in DOMAIN c.imm : \A n \in Nat : HasFile(f, i, n) => job[j].file <= n
      BY Zenon, <2>3, <3>1
    <3>3. cf'[f].imm = c.imm => MemStep(j, f)
      BY Zenon, <1>11, <3>1
    <3>4. /\ job[j].pc \in {"build", "applied"} /\ r.base \subseteq job[j].base
          /\ bg_error => bg_error'
      BY Zenon, <1>1, <2>1
    <3>5. UNCHANGED <<next_file, logfile_number, alive_log_files, written, writer, logs, tables,
                      manifest>>
      BY Zenon, <1>1
    <3>6. f \in Families /\ job[j].kind = "flush" /\ c \in ColumnFamily /\ c.mem = cf[f].mem
          /\ c.files = cf[f].files /\ c.log_number = cf[f].log_number
      BY Zenon, <1>4, <1>9
    <3>7. /\ r \in Job /\ r.kind = "flush" /\ r.f = f /\ r.file = job[j].file
          /\ r.pending = job[j].pending /\ r.tables = job[j].tables
          /\ r.logs = job[j].logs /\ r.edits = job[j].edits
      BY Zenon, <2>1
    <3> QED
      BY ZenonT(40), <1>2, <2>2, <2>4, <2>5, <3>2, <3>3, <3>4, <3>5, <3>6, <3>7, CommitOldestF
<1> QED
  BY Zenon, <1>13, <1>14
=============================================================================
