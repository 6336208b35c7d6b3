------------------------- MODULE CompactionIterator -------------------------
(* CompactionIterator and MergeHelper (db/compaction_iterator.cc,          *)
(* db/merge_helper.cc): the records of a flush or a compaction, of which   *)
(* those that no snapshot can see are dropped, and runs of merge operands  *)
(* are combined. The job is given: its input in the order of the internal  *)
(* keys, the snapshots, the range tombstones, what deeper levels hold.     *)
(* The decisions of the compaction filter are a function of the value.     *)
EXTENDS InternalKeys

CONSTANT
  IsJob(_)      \* the jobs that may run

kMaxSequenceNumber == 99

\* The user keys are numbers; 0 stands for !has_current_user_key_.
NoKey == 0

VARIABLES
  job,          \* the job that runs
  pos,          \* where input_ is, behind the input if it is not Valid()
  pc,           \* "SeekToFirst", "Next": inside that call; "caller"; "done"
  it,           \* members of the CompactionIterator
  merge_out,    \* what merge_out_iter_ has still to return
  output,       \* the records that the caller has got
  status,       \* "OK", or "error" when the merge operator failed
  effective,    \* the input as the compaction filter wants it (history)
  skipped       \* the user keys that the filter skipped (history)

vars == <<job, pos, pc, it, merge_out, output, status, effective, skipped>>

Input == job.input
Valid == pos <= Len(Input)

-----------------------------------------------------------------------------
(* Snapshots and range tombstones.                                         *)

EarliestSnapshot ==
  IF job.snapshots = {} THEN kMaxSequenceNumber ELSE Min(job.snapshots)
LatestSnapshot == Max(job.snapshots \cup {0})

\* findEarliestVisibleSnapshot
EarliestVisibleSnapshot(seq) ==
  Min({s \in job.snapshots : s >= seq} \cup {kMaxSequenceNumber})

\* Its prev_snapshot: 0 without one
PrevSnapshot(seq) == Max({s \in job.snapshots : s < seq} \cup {0})

\* RangeDelAggregator::ShouldDelete: covered by a tombstone of the stripe
ShouldDelete(rec) ==
  \E t \in job.tombstones :
    rec.seq < t /\ EarliestVisibleSnapshot(t) = EarliestVisibleSnapshot(rec.seq)

\* Compaction::KeyNotExistsBeyondOutputLevel; a flush has no compaction_.
KeyNotExistsBeyondOutputLevel(key) == ~job.flush /\ key \notin job.covered

-----------------------------------------------------------------------------
(* The compaction filter.                                                  *)

\* FilterV2 with what its callers make of skip_until: one that is not behind
\* the key is kKeep.
FilterV2(rec) ==
  LET d == job.filter[Last(rec.val)]
  IN  IF d = "skip" /\ job.skip_until <= rec.key THEN "keep" ELSE d

Changed(rec) == [rec EXCEPT !.val = <<-Last(rec.val)>>]
Removed(rec) == [rec EXCEPT !.type = "DELETE", !.val = <<>>]

\* The filter sees the first record of a user key, if it is a value that no
\* snapshot contains.
FilterApplies(rec) ==
  /\ it.user_key # rec.key
  /\ job.filter # <<>>
  /\ rec.type = "PUT"
  /\ rec.seq > LatestSnapshot \/ job.ignore_snapshots

Decision(rec) == IF FilterApplies(rec) THEN FilterV2(rec) ELSE "keep"

Filtered(rec) ==
  CASE Decision(rec) = "remove" -> Removed(rec)
    [] Decision(rec) = "change" -> Changed(rec)
    [] OTHER -> rec

\* Where Seek(skip_until) leads
Seek(key) == Min({i \in pos..Len(Input) : Input[i].key >= key} \cup {Len(Input) + 1})

-----------------------------------------------------------------------------
(* MergeHelper::MergeUntil.                                                *)

\* What happens to an operand: a snapshot keeps it from the filter, and range
\* tombstones remove it.
OperandDecision(rec) ==
  LET d == IF rec.seq <= LatestSnapshot \/ job.filter = <<>>
           THEN "keep" ELSE FilterV2(rec)
  IN  IF ShouldDelete(rec) /\ d # "skip" THEN "remove" ELSE d

\* The loop leaves the run of records of this key, or of its stripe.
OutOfReach(i, stop_before) ==
  \/ i > Len(Input)
  \/ Input[i].key # Input[pos].key
  \/ i > pos /\ stop_before > 0 /\ Input[i].seq <= stop_before

\* Where the loop ends that starts at pos
EndOfMerge(stop_before) ==
  Min({i \in pos..(Len(Input) + 1) :
         \/ OutOfReach(i, stop_before)
         \/ Input[i].type # "MERGE"
         \/ OperandDecision(Input[i]) = "skip"})

\* The operands up to end that are kept, newest first
Operands(end) ==
  LET kept == SelectSeq(SubSeq(Input, pos, end - 1),
                        LAMBDA r : OperandDecision(r) \in {"keep", "change"})
  IN  [i \in DOMAIN kept |->
         IF OperandDecision(kept[i]) = "change" THEN Changed(kept[i]) ELSE kept[i]]

\* The result stands at the newest operand.
Merged(type, base, operands) ==
  [Head(operands) EXCEPT !.type = type, !.val = Combined(base, operands)]

\* The value that a full merge starts with
BaseValue(rec) == IF rec.type = "PUT" THEN rec.val ELSE <<>>

\* What the caller finds after MergeUntil: the records it returns, and where
\* it leaves input_. A full merge may fail; a partial one may not be possible.
MergeResult(out, p, s) == [out |-> out, pos |-> p, status |-> s, skip |-> FALSE]

MergeUntil(stop_before) ==
  LET e == EndOfMerge(stop_before)
      operands == Operands(e)
  IN  CASE ~OutOfReach(e, stop_before) /\ Input[e].type = "MERGE" ->
             {[MergeResult(<<>>, e, "OK") EXCEPT !.skip = TRUE]}
        [] operands = <<>> -> {MergeResult(<<>>, e, "OK")}
        [] ~OutOfReach(e, stop_before) /\ operands # <<>> ->
             {MergeResult(<<Merged("PUT", BaseValue(Input[e]), operands)>>, e + 1, "OK"),
              MergeResult(operands, e + 1, "error")}
        [] e <= Len(Input) /\ Input[e].key # Input[pos].key /\ job.bottommost ->
             {MergeResult(<<Merged("PUT", <<>>, operands)>>, e, "OK"),
              MergeResult(operands, e, "error")}
        [] OTHER ->
             {MergeResult(operands, e, "OK"),
              MergeResult(<<Merged("MERGE", <<>>, operands)>>, e, "OK")}

-----------------------------------------------------------------------------
(* Steps of NextFromInput, each one round of its loop.                     *)

\* PrepareOutput; allow_ingest_behind is off.
PrepareOutput(rec) ==
  IF /\ ~job.flush /\ job.bottommost
     /\ rec.seq <= EarliestSnapshot
     /\ rec.type # "MERGE"
     /\ job.largest # rec.key
  THEN [rec EXCEPT !.seq = 0] ELSE rec

\* The loop ends with a record. SeekToFirst does not set has_outputted_key_.
Return(rec, fields) ==
  /\ output' = Append(output, PrepareOutput(rec))
  /\ it' = [fields EXCEPT !.outputted = @ \/ pc = "Next"]
  /\ pc' = "caller"

\* The loop goes on.
Continue(fields) == it' = fields /\ UNCHANGED <<output, pc>>

InLoop == pc \in {"SeekToFirst", "Next"}

\* The members after the user key and its stripe were looked at
Noted(rec) ==
  [it EXCEPT !.user_key = rec.key, !.at_next = FALSE,
             !.snapshot = EarliestVisibleSnapshot(rec.seq),
             !.outputted = @ /\ it.user_key = rec.key]

\* current_user_key_snapshot_ of the record before
LastSnapshot(rec) == IF it.user_key = rec.key THEN it.snapshot ELSE 0

\* The filter's wish for the first record is noted in effective.
NoteFilter(rec) ==
  /\ effective' = [effective EXCEPT ![pos] = {Filtered(rec)}]
  /\ skipped' = IF Decision(rec) = "skip"
                THEN skipped \cup rec.key..(job.skip_until - 1) ELSE skipped

SkipUntil(rec) ==
  /\ Decision(rec) = "skip"
  /\ pos' = Seek(job.skip_until)
  /\ Continue(Noted(rec))
  /\ UNCHANGED <<merge_out, status>>

\* Optimization 3, second part: the value of a Put whose SingleDelete had to
\* be kept
ClearAndOutput(rec) ==
  /\ it.clear_next
  /\ Return([rec EXCEPT !.val = <<>>], [Noted(rec) EXCEPT !.clear_next = FALSE])
  /\ UNCHANGED <<pos, merge_out, status>>

\* The next record is of the stripe of the SingleDelete.
SameStripe(rec, next) == PrevSnapshot(rec.seq) = 0 \/ next.seq > PrevSnapshot(rec.seq)

\* Mutant: write conflicts are forgotten.
MayDropPairAlways(rec) == TRUE

\* Rule 2: no transaction needs to know of this write, or an output shows it.
MayDropPair(rec) == rec.seq <= job.conflict \/ Noted(rec).outputted

SingleDelete(rec) ==
  /\ ~it.clear_next /\ rec.type = "SINGLE_DELETE"
  /\ LET matched == pos < Len(Input) /\ Input[pos + 1].key = rec.key
         next == Input[pos + 1]
         kept == [Noted(rec) EXCEPT !.at_next = TRUE]
     IN  \/ /\ matched /\ SameStripe(rec, next) /\ next.type = "SINGLE_DELETE"
            /\ Continue(Noted(rec))
            /\ pos' = pos + 1
         \/ /\ matched /\ SameStripe(rec, next) /\ next.type # "SINGLE_DELETE"
            /\ IF MayDropPair(rec)
               THEN Continue(Noted(rec)) /\ pos' = pos + 2
               ELSE /\ Return(rec, [kept EXCEPT !.clear_next = TRUE])
                    /\ pos' = pos + 1
         \/ /\ matched /\ ~SameStripe(rec, next)
            /\ Return(rec, kept)
            /\ pos' = pos + 1
         \/ /\ ~matched
            /\ IF rec.seq <= EarliestSnapshot /\ KeyNotExistsBeyondOutputLevel(rec.key)
               THEN Continue([Noted(rec) EXCEPT !.user_key = NoKey])
               ELSE Return(rec, [kept EXCEPT !.user_key = NoKey])
            /\ pos' = pos + 1
  /\ UNCHANGED <<merge_out, status>>

\* Mutant: a record is hidden by any newer one, whatever its stripe.
HiddenAlways(rec) == it.user_key = rec.key

\* Rule (A): a newer record of the key is in the same stripe.
Hidden(rec) == LastSnapshot(rec) = EarliestVisibleSnapshot(rec.seq)

\* There is nothing older for the deletion to hide.
Obsolete(rec) ==
  /\ rec.type = "DELETE"
  /\ rec.seq <= EarliestSnapshot
  /\ KeyNotExistsBeyondOutputLevel(rec.key)

Ordinary(rec) == ~it.clear_next /\ rec.type # "SINGLE_DELETE"

DropHidden(rec) ==
  /\ Ordinary(rec)
  /\ Hidden(rec) \/ Obsolete(rec)
  /\ pos' = pos + 1
  /\ Continue(Noted(rec))
  /\ UNCHANGED <<merge_out, status>>

\* The operands that MergeUntil has looked at, as the filter wants them
NoteOperands(r) ==
  /\ effective' = [i \in DOMAIN effective |->
       IF i \notin pos..(r.pos - 1) \/ Input[i].type # "MERGE"
          \/ Input[i].seq <= LatestSnapshot \/ job.filter = <<>>
       THEN effective[i]
       ELSE CASE FilterV2(Input[i]) = "remove" -> {}
              [] FilterV2(Input[i]) = "change" -> {Changed(Input[i])}
              [] OTHER -> effective[i]]
  /\ skipped' = IF r.skip THEN skipped \cup Input[pos].key..(job.skip_until - 1)
                ELSE skipped

Merge(rec) ==
  /\ Ordinary(rec) /\ ~Hidden(rec) /\ rec.type = "MERGE"
  /\ \E r \in MergeUntil(PrevSnapshot(rec.seq)) :
       /\ pos' = IF r.skip
                 THEN Min({i \in r.pos..Len(Input) : Input[i].key >= job.skip_until}
                          \cup {Len(Input) + 1})
                 ELSE r.pos
       /\ status' = r.status
       /\ NoteOperands(r)
       /\ IF r.status = "error"
          THEN pc' = "done" /\ UNCHANGED <<it, output, merge_out>>
          ELSE IF r.out = <<>>
               THEN /\ Continue([Noted(rec) EXCEPT !.user_key = NoKey])
                    /\ UNCHANGED merge_out
               ELSE /\ Return(Head(r.out), Noted(rec))
                    /\ merge_out' = r.out

Plain(rec) ==
  /\ Ordinary(rec) /\ ~Hidden(rec) /\ ~Obsolete(rec) /\ rec.type # "MERGE"
  /\ IF ShouldDelete(rec)
     THEN pos' = pos + 1 /\ Continue(Noted(rec))
     ELSE pos' = pos /\ Return(rec, Noted(rec))
  /\ UNCHANGED <<merge_out, status>>

NextFromInput ==
  /\ InLoop /\ Valid
  /\ LET rec == Filtered(Input[pos])
     IN  \/ SkipUntil(Input[pos]) /\ NoteFilter(Input[pos])
         \/ /\ Decision(Input[pos]) # "skip"
            /\ \/ ClearAndOutput(rec) \/ SingleDelete(rec) \/ DropHidden(rec)
               \/ Plain(rec)
            /\ NoteFilter(Input[pos])
         \/ Decision(Input[pos]) # "skip" /\ Merge(rec)
  /\ UNCHANGED job

\* The input is exhausted.
Finish ==
  /\ InLoop /\ ~Valid
  /\ pc' = "done"
  /\ UNCHANGED <<job, pos, it, merge_out, output, status, effective, skipped>>

\* shutting_down_ ends the loop; the caller drops its output.
ShutDown ==
  /\ InLoop /\ job.shutting_down
  /\ pc' = "done" /\ status' = "error"
  /\ UNCHANGED <<job, pos, it, merge_out, output, effective, skipped>>

-----------------------------------------------------------------------------
(* Next: the caller wants another record.                                  *)

\* From the merge output: the next operand
NextOperand ==
  /\ pc = "caller" /\ Len(merge_out) > 1
  /\ merge_out' = Tail(merge_out)
  /\ output' = Append(output, PrepareOutput(merge_out[2]))
  /\ it' = [it EXCEPT !.outputted = TRUE]
  /\ UNCHANGED <<job, pos, pc, status, effective, skipped>>

\* MergeHelper has left input_ behind its run; otherwise it is advanced.
CallNext ==
  /\ pc = "caller" /\ Len(merge_out) <= 1
  /\ merge_out' = <<>>
  /\ pos' = IF merge_out # <<>> \/ it.at_next THEN pos ELSE pos + 1
  /\ it' = [it EXCEPT !.at_next = FALSE]
  /\ pc' = "Next"
  /\ UNCHANGED <<job, output, status, effective, skipped>>

Init ==
  /\ IsJob(job)
  /\ pos = 1 /\ pc = "SeekToFirst"
  /\ it = [user_key |-> NoKey, snapshot |-> 0, outputted |-> FALSE,
           at_next |-> FALSE, clear_next |-> FALSE]
  /\ merge_out = <<>> /\ output = <<>> /\ status = "OK"
  /\ effective = [i \in DOMAIN job.input |-> {job.input[i]}]
  /\ skipped = {}

Next == NextFromInput \/ Finish \/ ShutDown \/ NextOperand \/ CallNext

Spec == Init /\ [][Next]_vars

-----------------------------------------------------------------------------
(* Properties.                                                             *)

\* The tombstones that AddToBuilder writes: those of the oldest stripe are
\* obsolete at the bottom.
TombstonesWritten ==
  {t \in job.tombstones :
     ~job.bottommost \/ EarliestVisibleSnapshot(t) # EarliestVisibleSnapshot(1)}

\* Who reads: the snapshots, and those who come later
Readers == job.snapshots \cup {kMaxSequenceNumber - 1}

\* What the code asserts: the record behind a SingleDelete that was kept for a
\* write conflict is a value (NextFromInput), and at the bottom no deletion is
\* left to be numbered zero (PrepareOutput).
Asserted ==
  /\ it.clear_next /\ InLoop => Valid /\ Input[pos].type = "PUT"
  /\ \A o \in ToSet(output) : o.seq = 0 => o.type = "PUT"

\* The compaction changes no read: at every snapshot and at the tip, every key
\* has the value that its records had before, as the compaction filter wants
\* them (compaction_iterator.cc, NextFromInput, PrepareOutput; merge_helper.cc,
\* MergeUntil), if SingleDelete is used as db.h asks for.
ReadsPreserved ==
  /\ Asserted
  /\ pc = "done" /\ status = "OK" =>
       \A s \in Readers, k \in job.keys \ skipped :
         Read(ToSet(output) \cup job.beyond,
              TombstonesWritten \cup job.beyond_tombstones, k, s)
         = Read(UNION Range(effective) \cup job.beyond,
                job.tombstones \cup job.beyond_tombstones, k, s)

\* A transaction whose snapshot is not older than the earliest write conflict
\* snapshot still finds a record newer than its snapshot if there was one
\* (compaction_iterator.cc, Rule 2 of SingleDelete), without filters and range
\* deletions, which TransactionDB does not support.
ConflictsSeen ==
  pc = "done" /\ status = "OK" /\ job.filter = <<>> /\ job.tombstones = {} =>
    \A s \in job.snapshots : s >= job.conflict =>
      \A r \in ToSet(Input) : r.seq > s =>
        \E o \in ToSet(output) : o.key = r.key /\ o.seq > s
=============================================================================
