------------------------------ MODULE DBWrite -------------------------------
(***************************************************************************)
(* DBImpl::WriteImpl (db/db_impl_write.cc) without pipelining: the group   *)
(* leader preprocesses, checks the callbacks, writes the group's record to *)
(* the WAL, and inserts the batches into the memtable itself or launches   *)
(* the group's members to do so in parallel; the last one to finish        *)
(* publishes the sequence number and lets the group go.                    *)
(*                                                                         *)
(* A writer is one call of WriteImpl with its WriteThread::Writer object.  *)
(* The writer queue is the abstract one of WriteQueue. There is at most    *)
(* one leader, so what is local to its call is kept in variables without   *)
(* an index. The memtable holds what was written since the last flush.     *)
(***************************************************************************)
EXTENDS Naturals, Sequences, FiniteSets

CONSTANTS
  Writers,         \* the calls of WriteImpl
  Requests,        \* what a call may ask for, see RequestsAssumption
  Faults,          \* what may fail: "preprocess", "wal", "sync", "insert",
                   \* "background"
  ParanoidChecks,  \* options.paranoid_checks
  Concurrent       \* options.allow_concurrent_memtable_write

ASSUME RequestsAssumption ==
  /\ Requests # {}
  /\ Requests \subseteq [sync : BOOLEAN, disableWAL : BOOLEAN,
                         noSlowdown : BOOLEAN, disableMemtable : BOOLEAN,
                         callback : BOOLEAN, batching : BOOLEAN,
                         merge : BOOLEAN, count : Nat]

ASSUME FlagsAssumption == ParanoidChecks \in BOOLEAN /\ Concurrent \in BOOLEAN

VARIABLES
  \* the writers
  pc,            \* control point of each call
  opt,           \* the request of each call
  status,        \* Writer::status
  callbackOk,    \* Writer::callback_status
  seq,           \* Writer::sequence
  ledBy,         \* the leader of Writer::write_group
  ret,           \* what the call returned
  \* the write queue and the group
  queue,         \* the linked writers, oldest first
  size,          \* WriteGroup::size, 0 before EnterAsBatchGroupLeader
  running,       \* WriteGroup::running
  groupStatus,   \* WriteGroup::status
  \* the leader's call
  phase,         \* its control point
  idx,           \* the writer its loop over the group is at
  leaderStatus,  \* the local variable status
  nextSeq,       \* next_sequence
  parallel,      \* the local variable parallel
  \* the database
  LastSequence,  \* VersionSet::last_sequence_
  mem,           \* the memtable: who wrote which sequence number
  wal,           \* the records of the log
  synced,        \* how many of them are synced
  bgError        \* ~bg_error_.ok()

writerVars == <<pc, opt, status, callbackOk, seq, ledBy, ret>>
groupVars == <<queue, size, running, groupStatus>>
leaderVars == <<phase, idx, leaderStatus, nextSeq, parallel>>
dbVars == <<LastSequence, mem, wal, synced, bgError>>
vars == <<writerVars, groupVars, leaderVars, dbVars>>

Leader == Head(queue)
Group == {queue[k] : k \in 1 .. size}

\* Writer::CallbackFailed, ShouldWriteToMemtable, ShouldWriteToWAL, FinalStatus
CallbackFailed(w) == opt[w].callback /\ ~callbackOk[w]
ShouldWriteToMemtable(w) ==
  status[w] = "OK" /\ ~CallbackFailed(w) /\ ~opt[w].disableMemtable
ShouldWriteToWAL(w) ==
  status[w] = "OK" /\ ~CallbackFailed(w) /\ ~opt[w].disableWAL
FinalStatus(w, s) ==
  IF s # "OK" THEN s ELSE IF CallbackFailed(w) THEN "Busy" ELSE "OK"

Init ==
  /\ pc = [w \in Writers |-> "new"]
  /\ opt = [w \in Writers |-> CHOOSE r \in Requests : TRUE]
  /\ status = [w \in Writers |-> "OK"]
  /\ callbackOk = [w \in Writers |-> TRUE]
  /\ seq = [w \in Writers |-> 0]
  /\ ledBy = [w \in Writers |-> w]
  /\ ret = [w \in Writers |-> "none"]
  /\ queue = <<>>
  /\ size = 0
  /\ running = 0
  /\ groupStatus = "OK"
  /\ phase = "idle"
  /\ idx = 1
  /\ leaderStatus = "OK"
  /\ nextSeq = 1
  /\ parallel = FALSE
  /\ LastSequence = 0
  /\ mem = {}
  /\ wal = <<>>
  /\ synced = 0
  /\ bgError = FALSE

-----------------------------------------------------------------------------
(* Joining the queue and forming a group.                                  *)

\* WriteThread::JoinBatchGroup (LinkOne). The writer then waits until it is
\* the oldest or its leader has news.
JoinBatchGroup(w) ==
  /\ pc[w] = "new"
  /\ \E r \in Requests : opt' = [opt EXCEPT ![w] = r]
  /\ pc' = [pc EXCEPT ![w] = "joined"]
  /\ queue' = Append(queue, w)
  /\ UNCHANGED <<status, callbackOk, seq, ledBy, ret, size, running,
                 groupStatus, leaderVars, dbVars>>

\* DBImpl::PreprocessWrite, called by the oldest writer: switching memtables
\* may fail, a background error is returned, and a stalled write with
\* no_slowdown is not delayed but refused.
PreprocessWrite ==
  /\ phase = "idle"
  /\ queue # <<>>
  /\ phase' = "enter"
  /\ leaderStatus' \in
       (IF "preprocess" \in Faults THEN {"IOError"} ELSE {}) \cup
       (IF bgError THEN {"BgError"}
        ELSE IF opt[Leader].noSlowdown THEN {"OK", "Incomplete"} ELSE {"OK"})
  /\ nextSeq' = LastSequence + 1
  /\ UNCHANGED <<writerVars, groupVars, idx, parallel, dbVars>>

\* Mutant: a leader that does not sync takes writers that want it.
MayFollowSync(w, leader) ==
  /\ opt[w].noSlowdown = opt[leader].noSlowdown
  /\ opt[leader].disableWAL => opt[w].disableWAL
  /\ opt[w].callback => opt[w].batching

\* The tests of EnterAsBatchGroupLeader that end the group before w.
MayFollow(w, leader) ==
  /\ opt[w].sync => opt[leader].sync
  /\ opt[w].noSlowdown = opt[leader].noSlowdown
  /\ opt[leader].disableWAL => opt[w].disableWAL
  /\ opt[w].callback => opt[w].batching

\* WriteThread::EnterAsBatchGroupLeader. The group is a prefix of the queue,
\* cut before the first writer that may not follow, or anywhere by the limit
\* on the size of a group (sizes are left out) and by when newest_writer_ was
\* read.
EnterAsBatchGroupLeader ==
  /\ phase = "enter"
  /\ \E n \in 1 .. Len(queue) :
       /\ \A k \in 2 .. n : MayFollow(queue[k], Leader)
       /\ size' = n
       /\ ledBy' = [w \in Writers |->
                      IF \E k \in 1 .. n : queue[k] = w THEN Leader ELSE ledBy[w]]
       /\ parallel' = (Concurrent /\ n > 1)
  /\ idx' = 1
  /\ groupStatus' = "OK"
  /\ phase' = IF leaderStatus = "OK" THEN "callbacks" ELSE "paranoid"
  /\ UNCHANGED <<pc, opt, status, callbackOk, seq, ret, queue, running,
                 leaderStatus, nextSeq, dbVars>>

\* Mutant: a batch is counted as one key.
CountOne(w) == 1

\* WriteBatchInternal::Count
Count(w) == opt[w].count

\* One turn of WriteImpl's loop over the group: the callback's answer decides
\* whether the writer takes part, and the batch is counted. The sequence
\* number that the batch will get (from the second such loop, or from
\* InsertInto) is fixed by the counts, and set here.
CheckCallback ==
  LET w == queue[idx] IN
  /\ phase = "callbacks"
  /\ \E ok \in BOOLEAN :
       /\ ~opt[w].callback => ok
       /\ callbackOk' = [callbackOk EXCEPT ![w] = ok]
       /\ IF ok /\ ~opt[w].disableMemtable
          THEN /\ seq' = [seq EXCEPT ![w] = nextSeq]
               /\ nextSeq' = nextSeq + Count(w)
               /\ parallel' = (parallel /\ ~opt[w].merge)
          ELSE UNCHANGED <<seq, nextSeq, parallel>>
  /\ IF idx < size
     THEN /\ idx' = idx + 1
          /\ UNCHANGED phase
     ELSE /\ idx' = 1
          /\ phase' = IF opt[Leader].disableWAL THEN "memtable" ELSE "wal"
  /\ UNCHANGED <<pc, opt, status, ledBy, ret, groupVars, leaderStatus, dbVars>>

-----------------------------------------------------------------------------
(* The WAL.                                                                *)

\* The group's batches that go to the log, flattened into one: each is at its
\* place in the group.
GroupRecord ==
  LET logged == {k \in 1 .. size : ShouldWriteToWAL(queue[k])} IN
  [seq |-> LastSequence + 1, batches |-> [k \in logged |-> queue[k]]]

\* DBImpl::WriteToWAL: the record holds the batches that go to the log and
\* the group's first sequence number. A failed AddRecord leaves it in the file
\* or not (half a record is not in the model: replay ends before it).
AddRecord ==
  /\ phase = "wal"
  /\ \/ /\ wal' = Append(wal, GroupRecord)
        /\ phase' = IF opt[Leader].sync THEN "sync" ELSE "memtable"
        /\ UNCHANGED leaderStatus
     \/ /\ "wal" \in Faults
        /\ wal' \in {wal, Append(wal, GroupRecord)}
        /\ leaderStatus' = "IOError"
        /\ phase' = "paranoid"
  /\ UNCHANGED <<writerVars, groupVars, idx, nextSeq, parallel,
                 LastSequence, mem, synced, bgError>>

\* WriteToWAL: the sync that the leader asked for.
SyncLogs ==
  /\ phase = "sync"
  /\ \/ /\ synced' = Len(wal)
        /\ phase' = "memtable"
        /\ UNCHANGED leaderStatus
     \/ /\ "sync" \in Faults
        /\ leaderStatus' = "IOError"
        /\ phase' = "paranoid"
        /\ UNCHANGED synced
  /\ UNCHANGED <<writerVars, groupVars, idx, nextSeq, parallel,
                 LastSequence, mem, wal, bgError>>

-----------------------------------------------------------------------------
(* The memtable.                                                           *)

\* The first n keys of w's batch, each with its sequence number.
Keys(w, n) == {[writer |-> w, seq |-> seq[w] + k] : k \in 0 .. n - 1}

\* WriteBatchInternal::InsertInto for one batch: all its keys, or a failure
\* after some of them (a column family that does not exist, a corrupt batch).
InsertBatch(w, s) ==
  \/ s = "OK" /\ mem' = mem \cup Keys(w, opt[w].count)
  \/ /\ s = "Corruption"
     /\ "insert" \in Faults
     /\ \E n \in 0 .. opt[w].count - 1 : mem' = mem \cup Keys(w, n)

\* The leader decides who inserts.
StartMemtable ==
  /\ phase = "memtable"
  /\ IF parallel
     THEN /\ running' = size
          /\ pc' = [w \in Writers |->
                      IF w \in Group THEN "parallel" ELSE pc[w]]
          /\ phase' = "launched"
     ELSE /\ phase' = "insert"
          /\ UNCHANGED <<running, pc>>
  /\ UNCHANGED <<opt, status, callbackOk, seq, ledBy, ret, queue, size,
                 groupStatus, idx, leaderStatus, nextSeq, parallel, dbVars>>

\* Mutant: the leader does not take over the failure.
BatchFailsAlone(w) == {w}

\* Whose status the failure of w's batch is, when the leader inserts it: the
\* leader's too, by the assignment to w.status in WriteImpl.
BatchFails(w) == {w, Leader}

\* One turn of InsertInto over the group: the first failure ends it and is
\* the status of that batch's writer and of the leader.
InsertInto ==
  LET w == queue[idx] IN
  /\ phase = "insert"
  /\ \E s \in {"OK", "Corruption"} :
       /\ IF ShouldWriteToMemtable(w)
          THEN InsertBatch(w, s)
          ELSE s = "OK" /\ UNCHANGED mem
       /\ status' = [v \in Writers |->
                       IF s # "OK" /\ v \in BatchFails(w) THEN s ELSE status[v]]
       /\ IF s = "OK" /\ idx < size
          THEN idx' = idx + 1 /\ UNCHANGED phase
          ELSE idx' = 1 /\ phase' = "paranoid"
  /\ UNCHANGED <<pc, opt, callbackOk, seq, ledBy, ret, groupVars,
                 leaderStatus, nextSeq, parallel, LastSequence, wal, synced,
                 bgError>>

\* A member of a parallel group, the leader included, inserts its own batch.
InsertParallel(w) ==
  /\ pc[w] = "parallel"
  /\ \E s \in {"OK", "Corruption"} :
       /\ IF ShouldWriteToMemtable(w)
          THEN InsertBatch(w, s)
          ELSE s = "OK" /\ UNCHANGED mem
       /\ status' = [status EXCEPT ![w] = IF s = "OK" THEN @ ELSE s]
  /\ pc' = [pc EXCEPT ![w] = "inserted"]
  /\ UNCHANGED <<opt, callbackOk, seq, ledBy, ret, groupVars, leaderVars,
                 LastSequence, wal, synced, bgError>>

\* Mutant: the last but one lets the group go.
IsLastButOne == running <= 2

\* The test and the decrement of write_group->running-- > 1
IsLast == running = 1
CountOut(w) == running - 1

\* WriteThread::CompleteParallelMemTableWriter: a failure is reported to the
\* group; the last one takes the group's status and will let it go.
CompleteParallelMemTableWriter(w) ==
  LET gs == IF status[w] = "OK" THEN groupStatus ELSE status[w] IN
  /\ pc[w] = "inserted"
  /\ groupStatus' = gs
  /\ running' = CountOut(w)
  /\ pc' = [pc EXCEPT ![w] = IF IsLast THEN "exiting" ELSE "waiting"]
  /\ status' = [status EXCEPT ![w] = IF IsLast THEN gs ELSE @]
  /\ phase' = IF IsLast THEN "publish" ELSE phase
  /\ UNCHANGED <<opt, callbackOk, seq, ledBy, ret, queue, size, idx,
                 leaderStatus, nextSeq, parallel, dbVars>>

-----------------------------------------------------------------------------
(* Letting the group go.                                                   *)

\* The writer that lets the group go: the last one of a parallel group, else
\* the leader.
Exiter ==
  IF phase \in {"publish", "check", "exit"} /\ \E w \in Group : pc[w] = "exiting"
  THEN CHOOSE w \in Group : pc[w] = "exiting"
  ELSE Leader

\* DBImpl::ParanoidCheck of the leader's local status, skipped when the
\* leader's callback failed.
ParanoidCheck ==
  /\ phase = "paranoid"
  /\ bgError' = (bgError \/ /\ ParanoidChecks
                            /\ ~CallbackFailed(Leader)
                            /\ leaderStatus \notin {"OK", "Incomplete"})
  /\ phase' = "publish"
  /\ UNCHANGED <<writerVars, groupVars, idx, leaderStatus, nextSeq, parallel,
                 LastSequence, mem, wal, synced>>

\* last_sequence after total_count was added
GroupLastSequence == nextSeq - 1

\* versions_->SetLastSequence(last_sequence)
SetLastSequence ==
  /\ phase = "publish"
  /\ LastSequence' = GroupLastSequence
  /\ phase' = "check"
  /\ UNCHANGED <<writerVars, groupVars, idx, leaderStatus, nextSeq, parallel,
                 mem, wal, synced, bgError>>

\* Mutant: the wrong one of the two statuses.
LocalStatus == leaderStatus

\* w.status of the call that lets the group go
ExitStatus == status[Exiter]

\* DBImpl::MemTableInsertStatusCheck
MemTableInsertStatusCheck ==
  /\ phase = "check"
  /\ bgError' = (bgError \/ ExitStatus # "OK")
  /\ phase' = "exit"
  /\ UNCHANGED <<writerVars, groupVars, idx, leaderStatus, nextSeq, parallel,
                 LastSequence, mem, wal, synced>>

\* The writers that stay linked: the first of them will lead.
BehindGroup == SubSeq(queue, size + 1, Len(queue))

\* WriteThread::ExitAsBatchGroupLeader, or ExitAsBatchGroupFollower when the
\* last parallel writer is a follower, and the returns of the group's calls:
\* every follower gets the exiter's status, the leader prefers its local one.
ExitAsBatchGroup ==
  /\ phase = "exit"
  /\ status' = [w \in Writers |->
                  IF w \in Group \ {Leader} THEN status[Exiter] ELSE status[w]]
  /\ ret' = [w \in Writers |->
               IF w \notin Group THEN ret[w]
               ELSE IF w = Leader /\ leaderStatus # "OK" THEN leaderStatus
               ELSE FinalStatus(w, status'[w])]
  /\ pc' = [w \in Writers |-> IF w \in Group THEN "returned" ELSE pc[w]]
  /\ queue' = BehindGroup
  /\ size' = 0
  /\ phase' = "idle"
  /\ UNCHANGED <<opt, callbackOk, seq, ledBy, running, groupStatus, idx,
                 leaderStatus, nextSeq, parallel, dbVars>>

-----------------------------------------------------------------------------
\* A flush or compaction fails and sets bg_error_.
BackgroundError ==
  /\ "background" \in Faults
  /\ ~bgError
  /\ bgError' = TRUE
  /\ UNCHANGED <<writerVars, groupVars, leaderVars, LastSequence, mem, wal,
                 synced>>

\* A step of a call that is under way.
Step ==
  \/ PreprocessWrite
  \/ EnterAsBatchGroupLeader
  \/ CheckCallback
  \/ AddRecord
  \/ SyncLogs
  \/ StartMemtable
  \/ InsertInto
  \/ \E w \in Writers : \/ InsertParallel(w)
                        \/ CompleteParallelMemTableWriter(w)
  \/ ParanoidCheck
  \/ SetLastSequence
  \/ MemTableInsertStatusCheck
  \/ ExitAsBatchGroup

Next ==
  \/ \E w \in Writers : JoinBatchGroup(w)
  \/ Step
  \/ BackgroundError

Spec == Init /\ [][Next]_vars

\* The scheduler runs every thread whose call is under way, and a call that is
\* under way never waits for one that has not begun.
FairSpec == Spec /\ WF_vars(Step)

-----------------------------------------------------------------------------
(* Properties.                                                             *)

Statuses == {"OK", "IOError", "Incomplete", "BgError", "Corruption", "Busy"}

TypeOK ==
  /\ pc \in [Writers -> {"new", "joined", "parallel", "inserted", "waiting",
                         "exiting", "returned"}]
  /\ opt \in [Writers -> Requests]
  /\ status \in [Writers -> {"OK", "Corruption"}]
  /\ callbackOk \in [Writers -> BOOLEAN]
  /\ seq \in [Writers -> Nat]
  /\ ledBy \in [Writers -> Writers]
  /\ ret \in [Writers -> Statuses \cup {"none"}]
  /\ queue \in Seq(Writers)
  /\ size \in 0 .. Len(queue)
  /\ running \in Nat
  /\ groupStatus \in {"OK", "Corruption"}
  /\ phase \in {"idle", "enter", "callbacks", "wal", "sync", "memtable",
                "insert", "launched", "paranoid", "publish", "check", "exit"}
  /\ idx \in Nat \ {0}
  /\ leaderStatus \in Statuses
  /\ nextSeq \in Nat
  /\ parallel \in BOOLEAN
  /\ LastSequence \in Nat
  /\ mem \subseteq [writer : Writers, seq : Nat]
  /\ \A i \in DOMAIN wal :
       /\ wal[i].seq \in Nat
       /\ \A k \in DOMAIN wal[i].batches : wal[i].batches[k] \in Writers
  /\ synced \in 0 .. Len(wal)
  /\ bgError \in BOOLEAN

\* WriteImpl uses the writer queue as WriteThread provides it: groups leave
\* from its front, whole, and one at a time.
WQ == INSTANCE WriteQueue WITH group <- size
ImplementsWriteQueue == WQ!Spec

\* A snapshot taken at LastSequence never changes: no key is inserted at or
\* below a sequence number that was published, although members of a parallel
\* group insert on their own and the last of them publishes for all.
SnapshotStable == [][\A e \in mem' \ mem : e.seq > LastSequence]_vars

\* No two keys of the memtable have the same sequence number, whatever
\* callbacks, disabled memtables and failed batches the groups contain.
SequencesUnique == \A e, f \in mem : e.seq = f.seq => e = f

\* The leader of w's group was not stopped before the memtable.
LeaderWentThrough(w) ==
  ret[ledBy[w]] \notin {"IOError", "BgError", "Incomplete"}

Applied(w) ==
  /\ Keys(w, opt[w].count) \subseteq mem
  /\ \A e \in Keys(w, opt[w].count) : e.seq <= LastSequence

\* A write that returned OK from a group whose leader got through is in the
\* memtable, all of it, and visible to readers.
AckedApplied ==
  \A w \in Writers : ret[w] = "OK" /\ ~opt[w].disableMemtable
                     /\ LeaderWentThrough(w) => Applied(w)

\* Such a write is in the log if it asked for the log and synced if it asked
\* for that, although the leader decides for the group by its own options
\* alone: EnterAsBatchGroupLeader lets only writers in that it covers.
AckedDurable ==
  \A w \in Writers : ret[w] = "OK" /\ ~opt[w].disableWAL
                     /\ LeaderWentThrough(w) =>
    \E i \in DOMAIN wal : /\ \E k \in DOMAIN wal[i].batches :
                               wal[i].batches[k] = w
                          /\ opt[w].sync => i <= synced

\* The memtable never silently lacks what the log has: when a batch was logged
\* and its call is over without its keys in the memtable, bg_error_ stops the
\* database (the comment in MemTableInsertStatusCheck). The leader's
\* ParanoidCheck is skipped when its callback failed.
DivergenceStops ==
  \A w \in Writers, i \in DOMAIN wal :
    /\ pc[w] = "returned"
    /\ ~opt[w].disableMemtable
    /\ \E k \in DOMAIN wal[i].batches : wal[i].batches[k] = w
    /\ ~CallbackFailed(ledBy[w])
    /\ ~Applied(w)
    => bgError

\* No call is under way. FairSpec leads there again and again, whatever fails:
\* there is one call for each writer.
NoCallUnderWay == \A w \in Writers : pc[w] \in {"new", "returned"}

\* STATE_COMPLETED means "A follower whose writes have been applied"
\* (write_thread.h), and DB::Write "Returns OK on success".
OkMeansApplied ==
  \A w \in Writers : ret[w] = "OK" /\ ~opt[w].disableMemtable => Applied(w)

\* ExitAsBatchGroupFollower asserts that the group's status is OK.
FollowerExitsWithOk ==
  phase = "exit" /\ Exiter # Leader => groupStatus = "OK"

\* FinalStatus asserts that a writer with a failed status has no callback that
\* failed, "because a memtable insert should not have been attempted".
FailedHadNoFailedCallback ==
  \A w \in Writers :
    pc[w] = "returned" /\ status[w] # "OK" => ~CallbackFailed(w)

\* MemTableInsertStatusCheck asserts that bg_error_ is OK before it sets it.
StatusCheckFindsNoError ==
  phase = "check" /\ status[Exiter] # "OK" => ~bgError
=============================================================================
