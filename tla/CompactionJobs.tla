--------------------------- MODULE CompactionJobs ---------------------------
(* Jobs for CompactionIterator: every short history of a user key, cut     *)
(* into what deeper levels hold and what is compacted.                     *)
EXTENDS InternalKeys

\* The point records of writes from..to, newest first; RANGE is a tombstone.
Points(history, from, to) ==
  LET idx == SelectSeq([j \in 1..(to - from + 1) |-> to + 1 - j],
                       LAMBDA i : history[i] # "RANGE")
  IN  [j \in DOMAIN idx |-> Record(1, idx[j], history[idx[j]])]

Tombstones(history, from, to) == {i \in from..to : history[i] = "RANGE"}

\* db.h, SingleDelete: exactly one Put since the last one, and nothing else
SingleDeleteOk(history) ==
  \A i \in DOMAIN history : history[i] = "SINGLE_DELETE" =>
    /\ i > 1 /\ history[i - 1] = "PUT"
    /\ i > 2 => history[i - 2] = "SINGLE_DELETE"
    /\ \A j \in DOMAIN history : history[j] \in {"PUT", "SINGLE_DELETE"}

\* The job that compacts writes deep + 1.. of the history, and, if next is
\* true, one record of the next user key
Job(history, deep, next, snapshots) ==
  LET n == Len(history)
      points == Points(history, deep + 1, n)
      beyond == Points(history, 1, deep)
  IN  [input |-> IF next THEN Append(points, Record(2, n + 1, "PUT")) ELSE points,
       keys |-> {1, 2},
       beyond |-> {beyond[i] : i \in DOMAIN beyond},
       tombstones |-> Tombstones(history, deep + 1, n),
       beyond_tombstones |-> Tombstones(history, 1, deep),
       covered |-> IF deep = 0 THEN {} ELSE {1},
       snapshots |-> snapshots,
       conflict |-> 99,
       flush |-> FALSE,
       bottommost |-> deep = 0,
       largest |-> 2,
       filter |-> <<>>, skip_until |-> 0, ignore_snapshots |-> FALSE,
       shutting_down |-> FALSE]

SnapshotSets(n, size) == {s \in SUBSET (1..n) : Cardinality(s) <= size}

\* Values, deletions and merge operands
PlainJob(job) ==
  \E h \in [1..4 -> {"PUT", "DELETE", "MERGE"}], d \in 0..2, next \in BOOLEAN,
     s \in SnapshotSets(4, 2) :
    job = Job(h, d, next, s)

\* Range deletions without merge operands
RangeJob(job) ==
  \E h \in [1..4 -> {"PUT", "DELETE", "RANGE"}], d \in 0..1, s \in SnapshotSets(4, 2) :
    job = Job(h, d, TRUE, s)

\* SingleDelete, with transactions that look for conflicts from a snapshot on
SingleDeleteJob(job) ==
  \E h \in {x \in [1..4 -> {"PUT", "SINGLE_DELETE"}] : SingleDeleteOk(x)},
     d \in 0..2, next \in BOOLEAN, s \in SnapshotSets(4, 3) :
    \E c \in s \cup {99} :
      job = [Job(h, d, next, s) EXCEPT !.conflict = c]

\* A compaction filter that decides by the value, also for merge operands
FilterJob(job) ==
  LET decisions == {"keep", "remove", "change", "skip"}
  IN  \E h \in [1..3 -> {"PUT", "MERGE", "DELETE"}], d \in 0..1,
         s \in SnapshotSets(3, 1), b \in decisions, c \in decisions, u \in 1..2,
         i \in BOOLEAN :
        job = [Job(h, d, TRUE, s) EXCEPT !.filter = <<"keep", b, c, "keep">>,
                                         !.skip_until = u, !.ignore_snapshots = i]

\* Flushes, compactions with files below that do or do not cover the key,
\* output whose last key this is, and the end of the database
OtherJob(job) ==
  \E h \in [1..3 -> {"PUT", "DELETE", "MERGE"}], next \in BOOLEAN,
     s \in SnapshotSets(3, 1) :
    LET j == Job(h, 0, next, s)
    IN  \/ job = [j EXCEPT !.flush = TRUE, !.bottommost = FALSE]
        \/ job = [j EXCEPT !.bottommost = FALSE]
        \/ job = [j EXCEPT !.bottommost = FALSE, !.covered = {1}]
        \/ job = [j EXCEPT !.largest = 1]
        \/ job = [j EXCEPT !.shutting_down = TRUE]

\* Merge operands under and above range deletions, but no operand that is newer
\* than a range deletion that is newer than a value
RangeMergeJob(job) ==
  \E h \in {x \in [1..4 -> {"PUT", "MERGE", "RANGE"}] :
              ~\E i, j, k \in 1..4 : i < j /\ j < k /\ x[i] = "PUT"
                                     /\ x[j] = "RANGE" /\ x[k] = "MERGE"},
     s \in SnapshotSets(4, 1), d \in 0..1 :
    job = Job(h, d, TRUE, s)

\* All of them
CoveredJob(job) ==
  \E h \in [1..3 -> {"PUT", "MERGE", "RANGE"}], s \in SnapshotSets(3, 1) :
    job = Job(h, 0, TRUE, s)

AnyJob(job) ==
  PlainJob(job) \/ RangeJob(job) \/ SingleDeleteJob(job) \/ FilterJob(job)
  \/ OtherJob(job) \/ RangeMergeJob(job)
=============================================================================
