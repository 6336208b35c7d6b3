-------------------------- MODULE DBWriteAckProofs --------------------------
(***************************************************************************)
(* Proofs about what WriteImpl promises to its callers, for any writers,   *)
(* requests and faults: an acknowledged write is in the memtable and in    *)
(* the log as it asked for (AckedApplied, AckedDurable), and when the log  *)
(* has what the memtable lacks the database is stopped (DivergenceStops).  *)
(* The argument: the writer that lets a group go knows enough to promise   *)
(* that (GInv), and what a call was promised stays so (Kept).              *)
(***************************************************************************)
EXTENDS DBWriteProofs, DBWriteGroupProofs

-----------------------------------------------------------------------------
\* A call that has returned is not touched any more.
LEMMA ReturnedStays ==
  ASSUME IInv, GInv, [Next]_vars, NEW w \in Writers, pc[w] = "returned"
  PROVE  /\ pc'[w] = "returned" /\ opt'[w] = opt[w] /\ seq'[w] = seq[w]
         /\ callbackOk'[w] = callbackOk[w] /\ ledBy'[w] = ledBy[w]
         /\ ret'[w] = ret[w]
<1>1. \A k \in 1 .. Len(queue) : queue[k] # w
  BY ZenonT(30) DEF GInv, QueueAt
<1>2. w \notin Group
  BY <1>1, QueueFacts DEF GInv, QueueAt
<1>3. /\ pc \in [Writers -> {"new", "joined", "parallel", "inserted", "waiting",
                             "exiting", "returned"}]
      /\ opt \in [Writers -> Requests] /\ callbackOk \in [Writers -> BOOLEAN]
      /\ seq \in [Writers -> Nat] /\ ret \in [Writers -> Statuses \cup {"none"}]
      /\ ledBy \in [Writers -> Writers]
  BY Zenon DEF IInv, Types, GInv, MoreTypes
<1>4. CASE \E v \in Writers : JoinBatchGroup(v)
  BY Zenon, <1>3, <1>4 DEF JoinBatchGroup
<1>5. CASE EnterAsBatchGroupLeader
  BY <1>1, <1>3, <1>5, QueueFacts DEF EnterAsBatchGroupLeader
<1>6. CASE CheckCallback
  <2>1. queue[idx] # w
    BY <1>1, <1>6, QueueFacts DEF IInv, LeaderAt, Types, CheckCallback
  <2> QED
    BY Zenon, <1>3, <1>6, <2>1 DEF CheckCallback
<1>7. CASE StartMemtable
  BY Zenon, <1>2, <1>3, <1>7 DEF StartMemtable
<1>8. CASE \E v \in Writers : InsertParallel(v) \/ CompleteParallelMemTableWriter(v)
  BY Zenon, <1>3, <1>8 DEF InsertParallel, CompleteParallelMemTableWriter
<1>9. CASE ExitAsBatchGroup
  BY Zenon, <1>2, <1>9 DEF ExitAsBatchGroup
<1>10. CASE \/ PreprocessWrite \/ AddRecord \/ SyncLogs \/ ParanoidCheck
            \/ SetLastSequence \/ MemTableInsertStatusCheck \/ BackgroundError
            \/ InsertInto \/ UNCHANGED vars
  BY Zenon, <1>10 DEF PreprocessWrite, AddRecord, SyncLogs, ParanoidCheck,
     SetLastSequence, MemTableInsertStatusCheck, BackgroundError, InsertInto,
     vars, writerVars
<1> QED
  BY Zenon, <1>4, <1>5, <1>6, <1>7, <1>8, <1>9, <1>10 DEF Next, Step

\* The memtable, the published sequence number, the log, what is synced of it
\* and bg_error_ only grow.
LEMMA Grows ==
  ASSUME IInv, GInv, [Next]_vars
  PROVE  /\ mem \subseteq mem' /\ LastSequence <= LastSequence'
         /\ DOMAIN wal \subseteq DOMAIN wal'
         /\ \A i \in DOMAIN wal : wal'[i] = wal[i]
         /\ synced <= synced' /\ (bgError => bgError')
<1>1. /\ LastSequence \in Nat /\ nextSeq \in Nat /\ synced \in 0 .. Len(wal)
      /\ Len(wal) \in Nat /\ synced \in Nat
      /\ phase = "publish" => nextSeq > LastSequence
  BY DEF IInv, Types, LeaderAt, GInv, MoreTypes
<1>2. CASE AddRecord
  BY <1>1, <1>2, LogGrows DEF AddRecord
<1>3. CASE SyncLogs
  BY <1>1, <1>3 DEF SyncLogs
<1>4. CASE InsertInto
  BY <1>1, <1>4, InsertGrows DEF InsertInto, dbVars
<1>5. CASE \E v \in Writers : InsertParallel(v)
  BY <1>1, <1>5, InsertGrows DEF InsertParallel, dbVars
<1>6. CASE SetLastSequence
  BY <1>1, <1>6 DEF SetLastSequence, GroupLastSequence
<1>7. CASE ParanoidCheck \/ MemTableInsertStatusCheck \/ BackgroundError
  <2>1. bgError => bgError'
    BY Zenon, <1>7 DEF ParanoidCheck, MemTableInsertStatusCheck, BackgroundError
  <2>2. UNCHANGED <<mem, LastSequence, wal, synced>>
    BY Zenon, <1>7 DEF ParanoidCheck, MemTableInsertStatusCheck, BackgroundError
  <2> QED
    BY <1>1, <2>1, <2>2
<1>8. CASE \/ \E v \in Writers : JoinBatchGroup(v) \/ CompleteParallelMemTableWriter(v)
           \/ PreprocessWrite \/ EnterAsBatchGroupLeader \/ CheckCallback
           \/ StartMemtable \/ ExitAsBatchGroup \/ UNCHANGED vars
  <2>1. CASE \/ \E v \in Writers : JoinBatchGroup(v) \/ CompleteParallelMemTableWriter(v)
             \/ PreprocessWrite \/ EnterAsBatchGroupLeader
    BY <1>1, <2>1 DEF JoinBatchGroup, CompleteParallelMemTableWriter, PreprocessWrite,
       EnterAsBatchGroupLeader, dbVars
  <2>2. CASE CheckCallback \/ StartMemtable \/ ExitAsBatchGroup \/ UNCHANGED vars
    BY <1>1, <2>2 DEF CheckCallback, StartMemtable, ExitAsBatchGroup, vars, dbVars
  <2> QED
    BY Zenon, <1>8, <2>1, <2>2
<1> QED
  BY Zenon, <1>2, <1>3, <1>4, <1>5, <1>6, <1>7, <1>8 DEF Next, Step

\* A call returns when its group is let go, and only then.
LEMMA ReturnsInGroup ==
  ASSUME IInv, GInv, [Next]_vars, NEW w \in Writers,
         pc[w] # "returned", pc'[w] = "returned"
  PROVE  ExitAsBatchGroup /\ w \in Group
<1>1. pc \in [Writers -> {"new", "joined", "parallel", "inserted", "waiting",
                          "exiting", "returned"}]
  BY Zenon DEF IInv, Types
<1>2. ~\E v \in Writers : \/ JoinBatchGroup(v) \/ InsertParallel(v)
                          \/ CompleteParallelMemTableWriter(v)
  <2>1. ~\E v \in Writers : JoinBatchGroup(v)
    BY Zenon, <1>1 DEF JoinBatchGroup
  <2>2. ~\E v \in Writers : InsertParallel(v)
    BY Zenon, <1>1 DEF InsertParallel
  <2>3. ~\E v \in Writers : CompleteParallelMemTableWriter(v)
    BY Zenon, <1>1 DEF CompleteParallelMemTableWriter
  <2> QED
    BY Zenon, <2>1, <2>2, <2>3
<1>3. ~(\/ PreprocessWrite \/ AddRecord \/ SyncLogs \/ ParanoidCheck
        \/ SetLastSequence \/ MemTableInsertStatusCheck \/ BackgroundError
        \/ InsertInto \/ CheckCallback \/ EnterAsBatchGroupLeader
        \/ UNCHANGED vars)
  BY Zenon DEF PreprocessWrite, AddRecord, SyncLogs, ParanoidCheck, SetLastSequence,
     MemTableInsertStatusCheck, BackgroundError, InsertInto, CheckCallback,
     EnterAsBatchGroupLeader, vars, writerVars
<1>4. ~StartMemtable
  BY Zenon, <1>1 DEF StartMemtable
<1>5. ExitAsBatchGroup
  BY Zenon, <1>2, <1>3, <1>4 DEF Next, Step
<1> QED
  BY Zenon, <1>1, <1>5 DEF ExitAsBatchGroup

\* What is kept for a call that has returned stays kept.
LEMMA KeptStays ==
  ASSUME IInv, GInv, [Next]_vars, IInv', GInv',
         NEW w \in Writers, pc[w] = "returned", Kept(w)
  PROVE  Kept(w)'
<1>1. /\ pc'[w] = "returned" /\ opt'[w] = opt[w] /\ seq'[w] = seq[w]
      /\ callbackOk'[w] = callbackOk[w] /\ ledBy'[w] = ledBy[w] /\ ret'[w] = ret[w]
  BY Zenon, ReturnedStays
<1>2. ledBy[w] \in Writers /\ pc[ledBy[w]] = "returned"
  BY Zenon DEF GInv, MoreTypes, ReturnedAt
<1>3. /\ LeaderWentThrough(w)' = LeaderWentThrough(w)
      /\ CallbackFailed(ledBy[w])' = CallbackFailed(ledBy[w])
  <2>1. \A l \in Writers : l = ledBy[w] =>
          opt'[l] = opt[l] /\ callbackOk'[l] = callbackOk[l] /\ ret'[l] = ret[l]
    BY Zenon, <1>2, ReturnedStays
  <2>2. /\ opt'[ledBy[w]] = opt[ledBy[w]] /\ callbackOk'[ledBy[w]] = callbackOk[ledBy[w]]
        /\ ret'[ledBy[w]] = ret[ledBy[w]] /\ ledBy'[w] = ledBy[w]
    BY Zenon, <1>1, <1>2, <2>1
  <2>3. LeaderWentThrough(w)' = LeaderWentThrough(w)
    BY Zenon, <2>2 DEF LeaderWentThrough
  <2>4. CallbackFailed(ledBy[w])' = CallbackFailed(ledBy[w])
    BY Zenon, <2>2 DEF CallbackFailed
  <2> QED
    BY Zenon, <2>3, <2>4
<1>4. Applied(w) => Applied(w)'
  <2>1. Keys(w, opt[w].count)' = Keys(w, opt[w].count)
    BY Zenon, <1>1 DEF Keys
  <2>2. \A e \in Keys(w, opt[w].count) : e.seq \in Nat
    BY SMTT(30), CountIsNat DEF IInv, Types, Keys
  <2>3. LastSequence \in Nat /\ LastSequence' \in Nat
    BY Zenon DEF IInv, Types
  <2> QED
    BY <2>1, <2>2, <2>3, Grows DEF Applied
<1>5. \A i \in DOMAIN wal : i \in DOMAIN wal' /\ InRecord(w, i)' = InRecord(w, i)
  BY Zenon, Grows DEF InRecord
<1>6. \A i \in DOMAIN wal' : InRecord(w, i)' => i \in DOMAIN wal
  <2>1. CASE AddRecord
    <3> SUFFICES ASSUME NEW i \in DOMAIN wal', InRecord(w, i)', wal'[i] = GroupRecord
                 PROVE  FALSE
      BY Zenon, <2>1, LogGrows
    <3>1. \E k \in DOMAIN GroupRecord.batches : GroupRecord.batches[k] = w
      BY Zenon DEF InRecord
    <3>2. \E k \in 1 .. size : queue[k] = w
      BY Zenon, <3>1 DEF GroupRecord
    <3> QED
      BY <3>2, QueueFacts DEF GInv, QueueAt
  <2>2. CASE ~AddRecord
    <3>1. wal' = wal
      BY Zenon, <2>2 DEF Next, Step, JoinBatchGroup, PreprocessWrite,
        EnterAsBatchGroupLeader, CheckCallback, SyncLogs, InsertInto,
        InsertParallel, StartMemtable, CompleteParallelMemTableWriter,
        ParanoidCheck, SetLastSequence, MemTableInsertStatusCheck,
        ExitAsBatchGroup, BackgroundError, vars, dbVars
    <3> QED
      BY Zenon, <3>1
  <2> QED
    BY Zenon, <2>1, <2>2
<1>7. \A i \in DOMAIN wal : i <= synced => i <= synced'
  <2>1. synced \in Nat /\ synced' \in Nat /\ \A i \in DOMAIN wal : i \in Nat
    BY DEF GInv, MoreTypes
  <2> QED
    BY <2>1, Grows
<1>8. bgError => bgError'
  BY Zenon, Grows
<1>9. /\ ret[w] = "OK" /\ LeaderWentThrough(w) /\ ~opt[w].disableWAL =>
        \E i \in DOMAIN wal' : InRecord(w, i)' /\ (opt[w].sync => i <= synced')
  BY Zenon, <1>5, <1>7 DEF Kept
<1> QED
  BY Zenon, <1>1, <1>3, <1>4, <1>5, <1>6, <1>8, <1>9 DEF Kept

\* A call gets its result with its promise kept.
LEMMA ExitKeeps ==
  ASSUME IInv, GInv, ExitAsBatchGroup, NEW w \in Group
  PROVE  Kept(w)'
<1>1. /\ phase = "exit"
      /\ status' = [v \in Writers |->
                      IF v \in Group \ {Leader} THEN status[Exiter] ELSE status[v]]
      /\ ret' = [v \in Writers |->
                   IF v \notin Group THEN ret[v]
                   ELSE IF v = Leader /\ leaderStatus # "OK" THEN leaderStatus
                   ELSE FinalStatus(v, status'[v])]
      /\ UNCHANGED <<opt, callbackOk, seq, ledBy, LastSequence, mem, wal, synced,
                     bgError>>
  BY Zenon DEF ExitAsBatchGroup, dbVars
<1>2. /\ size \in Nat /\ size >= 1 /\ Leader = queue[1] /\ queue[1] \in Group
      /\ Group \subseteq Writers /\ Exiter \in Writers /\ IsExiter(Exiter)
  BY Zenon, <1>1, QueueFacts, ExiterIs DEF GInv, GroupLed, DonePhases
<1>3. PICK k \in 1 .. size : queue[k] = w
  BY Zenon, QueueFacts
<1>4. w \in Writers /\ ledBy[w] = queue[1] /\ ledBy'[w] = queue[1]
  BY Zenon, <1>1, <1>2, <1>3 DEF GInv, GroupLed, DonePhases
<1>5. leaderStatus \in {"OK", "IOError", "BgError", "Incomplete"}
  BY Zenon DEF GInv, MoreTypes
<1>6. leaderStatus = "OK" => WentThrough
  BY Zenon, <1>1 DEF WentThrough, DonePhases
<1>7. /\ Applied(w)' = Applied(w)
      /\ CallbackFailed(ledBy[w])' = CallbackFailed(queue[1])
      /\ \A i \in DOMAIN wal : InRecord(w, i)' = InRecord(w, i)
  <2>1. Applied(w)' = Applied(w)
    BY Zenon, <1>1 DEF Applied, Keys
  <2>2. CallbackFailed(ledBy[w])' = CallbackFailed(queue[1])
    BY Zenon, <1>1, <1>4 DEF CallbackFailed
  <2>3. \A i \in DOMAIN wal : InRecord(w, i)' = InRecord(w, i)
    BY Zenon, <1>1 DEF InRecord
  <2> QED
    BY Zenon, <2>1, <2>2, <2>3
<1>8. leaderStatus = "OK" /\ Takes(w) /\ InMem(w) => Applied(w)
  <2> SUFFICES ASSUME leaderStatus = "OK", Takes(w), InMem(w), 
                      NEW e \in Keys(w, opt[w].count)
               PROVE  e.seq <= LastSequence
    BY Zenon DEF Applied, InMem
  <2>1. seq[w] + opt[w].count <= nextSeq /\ LastSequence = nextSeq - 1
    BY Zenon, <1>1, <1>3, <1>6 DEF GInv, Published
  <2>2. /\ seq[w] \in Nat /\ opt[w].count \in Nat /\ nextSeq \in Nat
    BY Zenon, <1>4, CountIsNat DEF IInv, Types
  <2>3. PICK j \in 0 .. opt[w].count - 1 : e.seq = seq[w] + j
    BY DEF Keys
  <2> QED
    BY <2>1, <2>2, <2>3
<1>9. leaderStatus = "OK" /\ status[Exiter] = "OK" /\ Takes(w) => Applied(w)
  BY Zenon, <1>2, <1>3, <1>6, <1>8 DEF GInv, Inserted
<1>10. ASSUME ret'[w] = "OK", LeaderWentThrough(w)'
       PROVE  /\ leaderStatus = "OK" /\ ~CallbackFailed(w)
              /\ ~opt[w].disableMemtable => Applied(w)
  <2>1. leaderStatus = "OK"
    <3>1. ret'[queue[1]] \notin {"IOError", "BgError", "Incomplete"}
      BY Zenon, <1>4, <1>10 DEF LeaderWentThrough
    <3>2. leaderStatus # "OK" => ret'[queue[1]] = leaderStatus
      BY Zenon, <1>1, <1>2
    <3> QED
      BY Zenon, <1>5, <3>1, <3>2
  <2>2. FinalStatus(w, status'[w]) = "OK"
    BY Zenon, <1>1, <1>4, <1>10, <2>1
  <2>3. status'[w] = "OK" /\ ~CallbackFailed(w)
    BY Zenon, <2>2 DEF FinalStatus
  <2>4. CASE w = queue[1]
    <3>1. status[w] = "OK"
      BY Zenon, <1>1, <1>2, <1>4, <2>3, <2>4
    <3> QED
      BY ZenonT(30), <1>6, <1>8, <2>1, <2>3, <2>4, <3>1 DEF GInv, Inserted, Takes
  <2>5. CASE w # queue[1]
    <3>1. status[Exiter] = "OK"
      BY Zenon, <1>1, <1>2, <1>4, <2>3, <2>5
    <3> QED
      BY Zenon, <1>9, <2>1, <2>3, <3>1 DEF Takes
  <2> QED
    BY Zenon, <2>1, <2>3, <2>4, <2>5
<1>11. ASSUME ret'[w] = "OK", LeaderWentThrough(w)', ~opt[w].disableWAL
       PROVE  \E i \in DOMAIN wal : InRecord(w, i) /\ (opt[w].sync => i <= synced)
  BY Zenon, <1>1, <1>3, <1>6, <1>10, <1>11 DEF GInv, Logged
<1>12. ASSUME ParanoidChecks, ~opt[w].disableMemtable, ~CallbackFailed(queue[1]),
              ~Applied(w), NEW i \in DOMAIN wal, InRecord(w, i)
       PROVE  bgError
  <2>1. ~CallbackFailed(w) /\ leaderStatus \in {"OK", "IOError"}
    <3>1. pc[w] # "returned"
      BY <1>3, QueueFacts DEF GInv, QueueAt
    <3> QED
      BY Zenon, <1>4, <1>12, <3>1 DEF GInv, LogWriters
  <2>2. CASE leaderStatus = "OK"
    <3>1. status[Exiter] # "OK"
      BY Zenon, <1>9, <1>12, <2>1, <2>2 DEF Takes
    <3> QED
      BY Zenon, <1>1, <1>2, <3>1 DEF GInv, FailureStops
  <2>3. CASE leaderStatus = "IOError"
    BY Zenon, <1>1, <1>12, <2>3 DEF GInv, FailureStops
  <2> QED
    BY Zenon, <2>1, <2>2, <2>3
<1> QED
  BY Zenon, <1>1, <1>4, <1>7, <1>10, <1>11, <1>12 DEF Kept

\* What holds of the calls that have returned goes on to hold.
LEMMA NextKept == IInv /\ GInv /\ AllKept /\ [Next]_vars => AllKept'
<1> SUFFICES ASSUME IInv, GInv, AllKept, [Next]_vars, NEW w \in Writers,
                    pc'[w] = "returned"
             PROVE  Kept(w)'
  BY Zenon DEF AllKept
<1>1. CASE pc[w] = "returned"
  BY Zenon, <1>1, KeptStays, NextIInv, LastOne, NextGInv DEF AllKept
<1>2. CASE pc[w] # "returned"
  BY Zenon, <1>2, ReturnsInGroup, ExitKeeps
<1> QED
  BY Zenon, <1>1, <1>2

\* Initially no call has returned.
LEMMA InitKept == Init => AllKept
BY Zenon DEF Init, AllKept

\* What was promised to the calls that have returned is what the properties say
\* of all calls: the others have no result.
LEMMA KeptPromises ==
  ASSUME GInv, AllKept
  PROVE  /\ AckedApplied /\ AckedDurable
         /\ ParanoidChecks => DivergenceStops
<1>1. \A w \in Writers : ret[w] = "OK" => Kept(w)
  BY Zenon DEF GInv, ReturnedAt, AllKept
<1>2. AckedApplied
  BY Zenon, <1>1 DEF AckedApplied, Kept
<1>3. AckedDurable
  BY Zenon, <1>1 DEF AckedDurable, Kept, InRecord
<1>4. ParanoidChecks => DivergenceStops
  BY Zenon DEF AllKept, DivergenceStops, Kept, InRecord
<1> QED
  BY Zenon, <1>2, <1>3, <1>4

-----------------------------------------------------------------------------
\* The inductive invariant holds in every behaviour.
LEMMA Always == Spec => [](IInv /\ GInv /\ AllKept)
<1>1. Init => IInv /\ GInv /\ AllKept
  BY Zenon, InitIInv, InitGInv, InitKept
<1>2. IInv /\ GInv /\ AllKept /\ [Next]_vars => (IInv /\ GInv /\ AllKept)'
  BY Zenon, NextIInv, LastOne, NextGInv, NextKept
<1> QED
  BY <1>1, <1>2, PTL DEF Spec

\* An OK from WriteImpl whose group's leader got through means that the batch
\* is in the memtable, whole and visible, whoever inserted it and in whatever
\* order the members of the group finished.
THEOREM OkApplied == Spec => []AckedApplied
<1>1. GInv /\ AllKept => AckedApplied
  BY Zenon, KeptPromises
<1> QED
  BY Always, <1>1, PTL

\* Such a batch is in the log unless it was written with disableWAL, and synced
\* when it asked for sync, though the leader's options decide for its group.
THEOREM OkDurable == Spec => []AckedDurable
<1>1. GInv /\ AllKept => AckedDurable
  BY Zenon, KeptPromises
<1> QED
  BY Always, <1>1, PTL

\* With paranoid_checks, a batch that the log has and the memtable lacks when
\* its call is over has set bg_error_: no later write is accepted silently.
THEOREM DivergenceSeen ==
  ASSUME ParanoidChecks
  PROVE  Spec => []DivergenceStops
<1>1. GInv /\ AllKept => DivergenceStops
  BY Zenon, KeptPromises
<1> QED
  BY Always, <1>1, PTL

-----------------------------------------------------------------------------
(* The rest of the types, and the queue that WriteThread provides.         *)

NotNegative == running \in Nat

\* WriteGroup::running never goes below zero.
LEMMA RunningNat == IInv /\ NotNegative /\ [Next]_vars => NotNegative'
<1> SUFFICES ASSUME IInv, running \in Nat, [Next]_vars PROVE running' \in Nat
  BY Zenon DEF NotNegative
<1>1. CASE StartMemtable
  BY Zenon, <1>1, QueueFacts DEF StartMemtable
<1>2. ASSUME NEW w \in Writers, CompleteParallelMemTableWriter(w)
      PROVE  running' \in Nat
  <2>1. w \in Running
    BY Zenon, <1>2 DEF Running, CompleteParallelMemTableWriter
  <2>2. IsFiniteSet(Running) /\ running = Cardinality(Running)
    BY Zenon, <2>1 DEF IInv, RunningCounts
  <2>3. running # 0
    BY Zenon, <2>1, <2>2, FS_EmptySet
  <2> QED
    BY <1>2, <2>3 DEF CompleteParallelMemTableWriter, CountOut
<1>3. CASE ~StartMemtable /\ ~\E w \in Writers : CompleteParallelMemTableWriter(w)
  <2>1. running' = running
    BY Zenon, <1>3 DEF Next, Step, JoinBatchGroup, PreprocessWrite,
      EnterAsBatchGroupLeader, CheckCallback, AddRecord, SyncLogs, InsertInto,
      InsertParallel, ParanoidCheck, SetLastSequence, MemTableInsertStatusCheck,
      ExitAsBatchGroup, BackgroundError, vars, groupVars
  <2> QED
    BY Zenon, <2>1
<1> QED
  BY Zenon, <1>1, <1>2, <1>3

\* The state of WriteImpl, of its groups and of the log keeps its types; in
\* particular WriteGroup::running, a size_t, never wraps below zero and the
\* synced part of the log never outgrows it.
THEOREM TypesAll == Spec => []TypeOK
<1>1. Init => NotNegative
  BY DEF Init, NotNegative
<1>2. IInv /\ GInv /\ NotNegative => TypeOK
  <2> SUFFICES ASSUME IInv, GInv, running \in Nat PROVE TypeOK
    BY Zenon DEF NotNegative
  <2>1. \A i \in DOMAIN wal :
          /\ wal[i].seq \in Nat
          /\ \A k \in DOMAIN wal[i].batches : wal[i].batches[k] \in Writers
    <3> SUFFICES ASSUME NEW i \in DOMAIN wal
                 PROVE  /\ wal[i].seq \in Nat
                        /\ \A k \in DOMAIN wal[i].batches : wal[i].batches[k] \in Writers
      BY Zenon
    <3>1. wal[i] \in Records
      BY DEF GInv, MoreTypes
    <3>2. wal[i].seq \in Nat
      BY Zenon, <3>1 DEF Records
    <3>3. PICK S \in SUBSET Nat : wal[i].batches \in [S -> Writers]
      BY Zenon, <3>1 DEF Records
    <3> QED
      BY Zenon, <3>2, <3>3
  <2>2. leaderStatus \in Statuses
    BY Zenon DEF GInv, MoreTypes, Statuses
  <2> QED
    BY Zenon, <2>1, <2>2 DEF IInv, Types, GInv, MoreTypes, TypeOK, GroupPhases, DonePhases
<1> QED
  BY Always, RunningNat, <1>1, <1>2, PTL DEF Spec

\* WriteImpl uses the queue as WriteThread provides it: every step links a new
\* writer, takes a group when there is none, lets the whole group go, or leaves
\* queue and group alone.
THEOREM UsesWriteQueue == Spec => ImplementsWriteQueue
<1>1. Init => WQ!Init
  BY Zenon DEF Init, WQ!Init
<1>2. IInv /\ GInv /\ [Next]_vars => [WQ!Next]_(WQ!vars)
  <2> SUFFICES ASSUME IInv, GInv, [Next]_vars PROVE [WQ!Next]_(WQ!vars)
    BY Zenon
  <2> USE DEF WQ!Next, WQ!vars
  <2>1. ASSUME NEW w \in Writers, JoinBatchGroup(w)
        PROVE  WQ!Link(w)
    <3>1. ~WQ!InQueue(w)
      BY <2>1, QueueFacts DEF JoinBatchGroup, IInv, QueueDistinct, WQ!InQueue
    <3> QED
      BY Zenon, <2>1, <3>1 DEF JoinBatchGroup, WQ!Link
  <2>2. CASE EnterAsBatchGroupLeader
    BY Zenon, <2>2 DEF EnterAsBatchGroupLeader, IInv, LeaderAt, WQ!Enter
  <2>3. CASE ExitAsBatchGroup
    <3>1. size > 0
      BY <2>3, QueueFacts DEF ExitAsBatchGroup, GInv, GroupLed, DonePhases
    <3> QED
      BY Zenon, <2>3, <3>1 DEF ExitAsBatchGroup, BehindGroup, WQ!Exit
  <2>4. CASE ~(\/ \E w \in Writers : JoinBatchGroup(w)
               \/ EnterAsBatchGroupLeader \/ ExitAsBatchGroup)
    BY Zenon, <2>4 DEF Next, Step, PreprocessWrite, CheckCallback, AddRecord, SyncLogs,
       StartMemtable, InsertInto, InsertParallel, CompleteParallelMemTableWriter,
       ParanoidCheck, SetLastSequence, MemTableInsertStatusCheck, BackgroundError,
       vars, groupVars
  <2> QED
    BY Zenon, <2>1, <2>2, <2>3, <2>4
<1> QED
  BY Always, <1>1, <1>2, PTL DEF Spec, ImplementsWriteQueue, WQ!Spec
=============================================================================
