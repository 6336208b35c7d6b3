------------------------ MODULE DBWriteGroupProofs --------------------------
(***************************************************************************)
(* Every step of WriteImpl preserves GInv, what the statuses of a write    *)
(* group tell about the memtable and the log: first the steps around the   *)
(* log and those that only move the leader on, then the ones that form a   *)
(* group and insert for it, at last those that insert in parallel,         *)
(* complete the group and let it go.                                       *)
(***************************************************************************)
EXTENDS DBWriteInvariants, TLAPS

\* The queue and the group are of writers, and the leader is their first one.
LEMMA QueueFacts ==
  ASSUME IInv
  PROVE  /\ queue \in Seq(Writers) /\ size \in 0 .. Len(queue) /\ size \in Nat
         /\ \A k \in 1 .. Len(queue) : queue[k] \in Writers
         /\ \A k \in 1 .. size : queue[k] \in Writers /\ queue[k] \in Group
         /\ Group \subseteq Writers
         /\ \A w \in Group : \E k \in 1 .. size : queue[k] = w
         /\ size >= 1 => Leader = queue[1] /\ queue[1] \in Group
<1>1. queue \in Seq(Writers) /\ size \in 0 .. Len(queue) /\ size \in Nat
  BY DEF IInv, Types
<1>2. \A k \in 1 .. Len(queue) : queue[k] \in Writers
  BY <1>1
<1>3. \A k \in 1 .. size : queue[k] \in Writers /\ queue[k] \in Group
  BY <1>1, <1>2 DEF Group
<1>4. Group \subseteq Writers /\ \A w \in Group : \E k \in 1 .. size : queue[k] = w
  BY Zenon, <1>3 DEF Group
<1>5. size >= 1 => Leader = queue[1] /\ queue[1] \in Group
  BY <1>1, <1>3 DEF Leader
<1> QED
  BY Zenon, <1>1, <1>2, <1>3, <1>4, <1>5

\* What the requests, the callbacks and the numbers decide, and that keys in
\* the memtable stay.
LEMMA TakesFrame ==
  ASSUME UNCHANGED <<opt, callbackOk, seq>>, mem \subseteq mem'
  PROVE  \A w : /\ CallbackFailed(w)' = CallbackFailed(w)
                /\ Takes(w)' = Takes(w)
                /\ InMem(w) => InMem(w)'
BY Zenon DEF CallbackFailed, Takes, InMem, Keys

\* The exiter depends on the queue, the group and the control points.
LEMMA ExiterFrame ==
  ASSUME UNCHANGED <<pc, queue, size>>
  PROVE  /\ Group' = Group
         /\ \A w : IsExiter(w)' = IsExiter(w)
BY Zenon DEF IsExiter, Group

\* Exiter chooses the one writer that lets the group go.
LEMMA ExiterIs ==
  ASSUME IInv, QueueAt, size >= 1, phase \in {"publish", "check", "exit"}
  PROVE  /\ IsExiter(Exiter) /\ Exiter \in Writers
         /\ \A w \in Writers : IsExiter(w) => w = Exiter
<1>1. Leader = queue[1] /\ queue[1] \in Group /\ Group \subseteq Writers
  BY Zenon, QueueFacts
<1>2. CASE \E w \in Group : pc[w] = "exiting"
  <2>1. Exiter = CHOOSE w \in Group : pc[w] = "exiting"
    BY Zenon, <1>2 DEF Exiter
  <2>2. Exiter \in Group /\ pc[Exiter] = "exiting"
    BY Zenon, <1>2, <2>1
  <2> QED
    BY Zenon, <1>1, <1>2, <2>2 DEF IsExiter, QueueAt
<1>3. CASE ~\E w \in Group : pc[w] = "exiting"
  BY Zenon, <1>1, <1>3 DEF Exiter, IsExiter
<1> QED
  BY Zenon, <1>2, <1>3

\* The steps that change only the leader's place, LastSequence and bg_error_.
LEMMA QuietG ==
  ASSUME IInv, GInv,
         \/ PreprocessWrite \/ ParanoidCheck \/ SetLastSequence
         \/ MemTableInsertStatusCheck \/ BackgroundError \/ UNCHANGED vars
  PROVE  GInv'
<1>1. /\ UNCHANGED <<writerVars, groupVars, idx, parallel, mem, wal, synced>>
      /\ \/ /\ phase = "idle" /\ phase' = "enter"
            /\ leaderStatus' \in {"OK", "IOError", "BgError", "Incomplete"}
            /\ UNCHANGED <<LastSequence, bgError>>
         \/ /\ phase = "paranoid" /\ phase' = "publish"
            /\ UNCHANGED <<leaderStatus, nextSeq, LastSequence>>
         \/ /\ phase = "publish" /\ phase' = "check" /\ LastSequence' = nextSeq - 1
            /\ UNCHANGED <<leaderStatus, nextSeq, bgError>>
         \/ /\ phase = "check" /\ phase' = "exit"
            /\ UNCHANGED <<leaderStatus, nextSeq, LastSequence>>
         \/ UNCHANGED <<phase, leaderStatus, nextSeq, LastSequence>>
  BY Zenon DEF PreprocessWrite, ParanoidCheck, SetLastSequence, GroupLastSequence,
         MemTableInsertStatusCheck, BackgroundError, vars, leaderVars, dbVars
<1>2. bgError' \in BOOLEAN /\ (bgError => bgError')
  BY ZenonT(60) DEF PreprocessWrite, ParanoidCheck, SetLastSequence, MemTableInsertStatusCheck,
         BackgroundError, vars, dbVars, GInv, MoreTypes
<1>3. /\ UNCHANGED <<pc, opt, status, callbackOk, seq, ledBy, ret, queue, size,
                     groupStatus, idx, mem, wal, synced>>
      /\ \A w : IsExiter(w)' = IsExiter(w)
      /\ \A w : /\ CallbackFailed(w)' = CallbackFailed(w) /\ Takes(w)' = Takes(w)
                /\ InMem(w) => InMem(w)'
  BY Zenon, <1>1, TakesFrame, ExiterFrame DEF writerVars, groupVars
<1>4. MoreTypes'
  BY Zenon, <1>1, <1>2, <1>3 DEF GInv, MoreTypes, DonePhases
<1>5. QueueAt'
  BY Zenon, <1>1, <1>3 DEF GInv, QueueAt, GroupPhases
<1>6. GroupLed'
  BY Zenon, <1>1, <1>3 DEF GInv, GroupLed, GroupPhases, DonePhases, MayFollow
<1>7. Inserted'
  BY Zenon, <1>1, <1>3 DEF GInv, Inserted, WentThrough, DonePhases
<1>8. Published'
  BY Zenon, <1>1, <1>3 DEF GInv, Published, WentThrough, DonePhases
<1>9. Logged'
  <2>1. /\ phase' \in {"sync", "memtable", "insert", "launched"} \/ WentThrough' =>
             phase \in {"sync", "memtable", "insert", "launched"} \/ WentThrough
        /\ phase' \in {"sync", "memtable", "insert", "launched"} \/ WentThrough' =>
             (phase' = "sync") = (phase = "sync")
    BY Zenon, <1>1 DEF WentThrough, DonePhases
  <2>2. \A w, i : InRecord(w, i)' = InRecord(w, i)
    BY Zenon, <1>3 DEF InRecord
  <2> QED
    <3> SUFFICES ASSUME phase' \in {"sync", "memtable", "insert", "launched"} \/ WentThrough',
                        NEW k \in 1 .. size, NEW w, queue[k] = w,
                        ~CallbackFailed(w)', ~opt[w].disableWAL
                 PROVE  \E i \in DOMAIN wal : /\ InRecord(w, i)'
                                              /\ opt[w].sync /\ phase' # "sync" => i <= synced
      BY Zenon, <1>3 DEF Logged
    <3>1. ~CallbackFailed(w)
      BY Zenon, <1>3
    <3>2. \E i \in DOMAIN wal : /\ InRecord(w, i)
                                /\ opt[w].sync /\ phase # "sync" => i <= synced
      BY Zenon, <2>1, <3>1 DEF GInv, Logged
    <3> QED
      BY Zenon, <2>1, <2>2, <3>2
<1>10. LogWriters'
  BY ZenonT(30), <1>1, <1>3 DEF GInv, LogWriters, InRecord, DonePhases
<1>11. FailureStops'
  <2>2. CASE phase = "paranoid" /\ phase' = "publish"
    <3>1. ParanoidCheck
      BY Zenon, <2>2 DEF PreprocessWrite, SetLastSequence, MemTableInsertStatusCheck,
                  BackgroundError, vars, leaderVars
    <3>2. Leader = queue[1]
      BY Zenon, <2>2, QueueFacts DEF GInv, GroupLed, DonePhases
    <3> QED
      BY ZenonT(60), <1>3, <2>2, <3>1, <3>2 DEF FailureStops, ParanoidCheck
  <2>3. CASE phase = "check" /\ phase' = "exit"
    <3>1. bgError' = (bgError \/ status[Exiter] # "OK") /\ leaderStatus' = leaderStatus
      BY Zenon, <2>3 DEF PreprocessWrite, SetLastSequence, MemTableInsertStatusCheck,
                  BackgroundError, ParanoidCheck, vars, leaderVars, ExitStatus
    <3>2. \A w \in Writers : IsExiter(w) => w = Exiter
      BY Zenon, <2>3, ExiterIs DEF GInv, GroupLed, DonePhases
    <3> QED
      BY ZenonT(60), <1>3, <2>3, <3>1, <3>2 DEF GInv, FailureStops
  <2>4. CASE phase' \in {"publish", "check", "exit"} => phase' = phase \/ phase = "publish"
    BY Zenon, <1>1, <1>2, <1>3, <2>4 DEF GInv, FailureStops
  <2> QED
    BY Zenon, <1>1, <2>2, <2>3, <2>4
<1>12. ReturnedAt'
  BY Zenon, <1>1, <1>3 DEF GInv, ReturnedAt
<1> QED
  BY Zenon, <1>4, <1>5, <1>6, <1>7, <1>8, <1>9, <1>10, <1>11, <1>12 DEF GInv

\* AddRecord and SyncLogs: the log only grows, and what is synced stays so.
LEMMA LogGrows ==
  ASSUME GInv, IInv, AddRecord
  PROVE  /\ GroupRecord \in Records
         /\ wal' \in {wal, Append(wal, GroupRecord)} /\ wal' \in Seq(Records)
         /\ Len(wal) <= Len(wal') /\ DOMAIN wal \subseteq DOMAIN wal'
         /\ \A i \in DOMAIN wal : wal'[i] = wal[i]
         /\ \A i \in DOMAIN wal' : i \in DOMAIN wal \/ wal'[i] = GroupRecord
<1>1. GroupRecord \in Records
  <2>1. LastSequence + 1 \in Nat
    BY DEF IInv, Types
  <2>2. {k \in 1 .. size : ShouldWriteToWAL(queue[k])} \in SUBSET Nat
    BY QueueFacts
  <2>3. \A k \in 1 .. size : queue[k] \in Writers
    BY Zenon, QueueFacts
  <2> DEFINE S == {k \in 1 .. size : ShouldWriteToWAL(queue[k])}
  <2>4. [k \in S |-> queue[k]] \in [S -> Writers]
    BY Zenon, <2>3
  <2>5. [k \in S |-> queue[k]] \in UNION {[T -> Writers] : T \in SUBSET Nat}
    BY ZenonT(60), <2>2, <2>4
  <2> QED
    BY Zenon, <2>1, <2>5 DEF GroupRecord, Records
<1>2. wal' \in {wal, Append(wal, GroupRecord)}
  BY Zenon DEF AddRecord
<1>3. wal \in Seq(Records)
  BY Zenon DEF GInv, MoreTypes
<1> QED
  BY <1>1, <1>2, <1>3

\* The leader appends the record of its group: now the members' batches are logged.
LEMMA AddRecordG ==
  ASSUME IInv, GInv, AddRecord
  PROVE  GInv'
<1>1. /\ phase = "wal" /\ phase' \in {"sync", "memtable", "paranoid"}
      /\ leaderStatus' \in {"OK", "IOError"}
      /\ phase' # "paranoid" => /\ wal' = Append(wal, GroupRecord)
                                /\ leaderStatus' = leaderStatus
                                /\ phase' = IF opt[Leader].sync THEN "sync" ELSE "memtable"
      /\ phase' = "paranoid" => leaderStatus' = "IOError"
      /\ UNCHANGED <<writerVars, groupVars, idx, nextSeq, parallel, LastSequence,
                     mem, synced, bgError>>
  BY Zenon DEF AddRecord, GInv, GroupLed, GroupPhases
<1>2. /\ UNCHANGED <<pc, opt, status, callbackOk, seq, ledBy, ret, queue, size,
                     groupStatus, idx, mem>>
      /\ \A w : /\ CallbackFailed(w)' = CallbackFailed(w) /\ Takes(w)' = Takes(w)
                /\ InMem(w) => InMem(w)'
  BY Zenon, <1>1, TakesFrame DEF writerVars, groupVars
<1>3. wal' \in Seq(Records) /\ synced \in 0 .. Len(wal) /\ Len(wal) <= Len(wal')
      /\ Len(wal) \in Nat /\ Len(wal') \in Nat
  BY LogGrows DEF GInv, MoreTypes
<1>4. MoreTypes'
  BY <1>1, <1>2, <1>3 DEF GInv, MoreTypes, GroupPhases, DonePhases
<1>5. QueueAt'
  BY Zenon, <1>1, <1>2 DEF GInv, QueueAt, GroupPhases
<1>6. GroupLed'
  BY Zenon, <1>1, <1>2 DEF GInv, GroupLed, GroupPhases, DonePhases, MayFollow
<1>7. Inserted' /\ Published'
  BY Zenon, <1>1, <1>2 DEF Inserted, Published, WentThrough, DonePhases
<1>8. \A k \in 1 .. size :
        ~CallbackFailed(queue[k]) /\ ~opt[queue[k]].disableWAL =>
          /\ ShouldWriteToWAL(queue[k])
          /\ opt[queue[k]].sync => opt[queue[1]].sync
  BY <1>1, QueueFacts
     DEF GInv, QueueAt, GroupLed, GroupPhases, MayFollow, ShouldWriteToWAL
<1>9. Logged'
  <2> SUFFICES ASSUME phase' # "paranoid", NEW k \in 1 .. size,
                      ~CallbackFailed(queue[k]), ~opt[queue[k]].disableWAL
               PROVE  \E i \in DOMAIN wal' :
                        /\ InRecord(queue[k], i)'
                        /\ opt[queue[k]].sync /\ phase' # "sync" => i <= synced
    BY Zenon, <1>1, <1>2 DEF Logged, WentThrough, DonePhases
  <2>1. PICK i \in DOMAIN wal' : wal'[i] = GroupRecord
    <3>1. Len(wal) + 1 \in DOMAIN wal' /\ wal'[Len(wal) + 1] = GroupRecord
      BY <1>1, LogGrows DEF GInv, MoreTypes
    <3> QED
      BY Zenon, <3>1
  <2>2. k \in DOMAIN GroupRecord.batches /\ GroupRecord.batches[k] = queue[k]
    BY Zenon, <1>8 DEF GroupRecord
  <2>3. InRecord(queue[k], i)'
    BY Zenon, <1>2, <2>1, <2>2 DEF InRecord
  <2>4. opt[queue[k]].sync => phase' = "sync"
    BY Zenon, <1>1, <1>8, QueueFacts DEF GInv, GroupLed, GroupPhases
  <2> QED
    BY Zenon, <2>1, <2>3, <2>4
<1>10. LogWriters'
  <2> SUFFICES ASSUME NEW i \in DOMAIN wal', NEW w \in Writers, InRecord(w, i)'
               PROVE  /\ ~CallbackFailed(w)
                      /\ pc[w] = "returned" \/ \E k \in 1 .. size : queue[k] = w
    BY Zenon, <1>1, <1>2 DEF LogWriters, DonePhases
  <2>1. CASE i \in DOMAIN wal
    <3>1. InRecord(w, i)
      BY Zenon, <2>1, LogGrows DEF InRecord
    <3> QED
      BY Zenon, <2>1, <3>1 DEF GInv, LogWriters
  <2>2. CASE wal'[i] = GroupRecord
    <3>1. PICK j \in DOMAIN GroupRecord.batches : GroupRecord.batches[j] = w
      BY Zenon, <2>2 DEF InRecord
    <3>2. j \in 1 .. size /\ ShouldWriteToWAL(queue[j]) /\ w = queue[j]
      BY Zenon, <3>1 DEF GroupRecord
    <3> QED
      BY Zenon, <3>2 DEF ShouldWriteToWAL
  <2> QED
    BY Zenon, <2>1, <2>2, LogGrows
<1>11. FailureStops'
  BY Zenon, <1>1 DEF FailureStops
<1>12. ReturnedAt'
  BY Zenon, <1>2 DEF GInv, ReturnedAt
<1> QED
  BY Zenon, <1>4, <1>5, <1>6, <1>7, <1>9, <1>10, <1>11, <1>12 DEF GInv

\* The leader syncs the log: everything appended before is synced.
LEMMA SyncLogsG ==
  ASSUME IInv, GInv, SyncLogs
  PROVE  GInv'
<1>1. /\ phase = "sync" /\ phase' \in {"memtable", "paranoid"}
      /\ phase' = "memtable" => synced' = Len(wal) /\ leaderStatus' = leaderStatus
      /\ phase' = "paranoid" => leaderStatus' = "IOError" /\ synced' = synced
      /\ UNCHANGED <<writerVars, groupVars, idx, nextSeq, parallel, LastSequence,
                     mem, wal, bgError>>
  BY Zenon DEF SyncLogs
<1>2. /\ UNCHANGED <<pc, opt, status, callbackOk, seq, ledBy, ret, queue, size,
                     groupStatus, idx, mem, wal>>
      /\ \A w : /\ CallbackFailed(w)' = CallbackFailed(w) /\ Takes(w)' = Takes(w)
                /\ InMem(w) => InMem(w)'
      /\ \A w, i : InRecord(w, i)' = InRecord(w, i)
  BY Zenon, <1>1, TakesFrame DEF writerVars, groupVars, InRecord
<1>3. wal \in Seq(Records) /\ Len(wal) \in Nat /\ DOMAIN wal = 1 .. Len(wal)
  BY DEF GInv, MoreTypes
<1>4. MoreTypes'
  BY <1>1, <1>2, <1>3 DEF GInv, MoreTypes, GroupPhases, DonePhases
<1>5. QueueAt'
  BY Zenon, <1>1, <1>2 DEF GInv, QueueAt, GroupPhases
<1>6. GroupLed'
  BY Zenon, <1>1, <1>2 DEF GInv, GroupLed, GroupPhases, DonePhases, MayFollow
<1>7. Inserted' /\ Published'
  BY Zenon, <1>1, <1>2 DEF Inserted, Published, WentThrough, DonePhases
<1>8. Logged'
  BY <1>1, <1>2, <1>3 DEF GInv, Logged, WentThrough, DonePhases
<1>9. LogWriters'
  BY Zenon, <1>1, <1>2 DEF GInv, LogWriters, DonePhases
<1>10. FailureStops'
  BY Zenon, <1>1 DEF FailureStops
<1>11. ReturnedAt'
  BY Zenon, <1>2 DEF GInv, ReturnedAt
<1> QED
  BY Zenon, <1>4, <1>5, <1>6, <1>7, <1>8, <1>9, <1>10, <1>11 DEF GInv

\* CheckCallback: the callback of a member of the group, whose batch is not in
\* the log yet.
LEMMA CheckCallbackG ==
  ASSUME IInv, GInv, CheckCallback
  PROVE  GInv'
<1>1. /\ phase = "callbacks" /\ phase' \in {"callbacks", "wal", "memtable"}
      /\ phase' = "memtable" => opt[Leader].disableWAL
      /\ \A w \in Writers : w # queue[idx] => callbackOk'[w] = callbackOk[w]
      /\ UNCHANGED <<pc, opt, status, ledBy, ret, queue, size, groupStatus,
                     leaderStatus, mem, wal, synced, bgError>>
      /\ parallel' \in BOOLEAN
  <2>1. callbackOk \in [Writers -> BOOLEAN] /\ parallel \in BOOLEAN
    BY Zenon DEF IInv, Types, GInv, MoreTypes
  <2> QED
    BY ZenonT(60), <2>1 DEF CheckCallback, groupVars, dbVars
<1>2. idx \in 1 .. size /\ size \in Nat
  BY <1>1, QueueFacts DEF IInv, Types, LeaderAt
<1>3. MoreTypes'
  BY Zenon, <1>1 DEF GInv, MoreTypes, GroupPhases
<1>4. QueueAt'
  BY Zenon, <1>1 DEF GInv, QueueAt, GroupPhases
<1>5. GroupLed'
  BY Zenon, <1>1 DEF GInv, GroupLed, GroupPhases, MayFollow
<1>6. Inserted' /\ Published' /\ FailureStops'
  BY Zenon, <1>1 DEF Inserted, Published, FailureStops, WentThrough, DonePhases
<1>7. Logged'
  <2>1. phase' = "memtable" => \A k \in 1 .. size : opt[queue[k]].disableWAL
    BY <1>1, QueueFacts DEF GInv, GroupLed, GroupPhases, MayFollow
  <2> QED
    BY Zenon, <1>1, <2>1 DEF Logged, WentThrough, DonePhases
<1>8. LogWriters'
  <2> SUFFICES ASSUME NEW i \in DOMAIN wal, NEW w \in Writers, InRecord(w, i)
               PROVE  ~CallbackFailed(w)' /\ pc[w] = "returned"
    BY <1>1 DEF LogWriters, InRecord
  <2>1. ~CallbackFailed(w) /\ pc[w] = "returned"
    BY Zenon, <1>1 DEF GInv, LogWriters, DonePhases
  <2>2. w # queue[idx]
    <3>1. idx \in 1 .. Len(queue)
      BY <1>2, QueueFacts
    <3> QED
      BY ZenonT(30), <2>1, <3>1 DEF GInv, QueueAt
  <2> QED
    BY Zenon, <1>1, <2>1, <2>2 DEF CallbackFailed
<1>9. ReturnedAt'
  BY Zenon, <1>1 DEF GInv, ReturnedAt
<1> QED
  BY Zenon, <1>3, <1>4, <1>5, <1>6, <1>7, <1>8, <1>9 DEF GInv

-----------------------------------------------------------------------------
\* JoinBatchGroup: the new writer is in no group and in no record.
LEMMA JoinG ==
  ASSUME IInv, GInv, NEW w \in Writers, JoinBatchGroup(w)
  PROVE  GInv'
<1>1. /\ pc[w] = "new" /\ pc' = [pc EXCEPT ![w] = "joined"]
      /\ queue' = Append(queue, w)
      /\ UNCHANGED <<status, callbackOk, seq, ledBy, ret, size, running,
                     groupStatus, leaderVars, dbVars>>
      /\ \A v \in Writers \ {w} : pc'[v] = pc[v] /\ opt'[v] = opt[v]
  BY Zenon DEF JoinBatchGroup, IInv, Types
<1>2. /\ queue' \in Seq(Writers) /\ Len(queue') = Len(queue) + 1
      /\ Len(queue) \in Nat
      /\ \A k \in 1 .. Len(queue) : queue'[k] = queue[k] /\ queue[k] # w
      /\ queue'[Len(queue) + 1] = w
  BY <1>1, QueueFacts DEF IInv, QueueDistinct
<1>3. \A k \in 1 .. size : /\ k \in 1 .. Len(queue)
                           /\ queue'[k] = queue[k] /\ queue[k] # w
                           /\ queue[k] \in Writers
  BY <1>2, QueueFacts
<1>4. Group' = Group /\ w \notin Group
  BY <1>1, <1>3 DEF Group
<1>5. \A v \in Writers \ {w} :
        /\ CallbackFailed(v)' = CallbackFailed(v) /\ Takes(v)' = Takes(v)
        /\ InMem(v) => InMem(v)'
  BY Zenon, <1>1 DEF CallbackFailed, Takes, InMem, Keys, dbVars
<1>6. \A v \in Writers : IsExiter(v)' => IsExiter(v)
  BY <1>1, <1>3, <1>4, QueueFacts DEF IsExiter
<1>7. \A i \in DOMAIN wal : \A v : InRecord(v, i)' = InRecord(v, i)
  BY Zenon, <1>1 DEF InRecord, dbVars
<1>8. UNCHANGED <<idx, phase, leaderStatus, nextSeq, LastSequence, wal, synced, bgError>>
  BY Zenon, <1>1 DEF leaderVars, dbVars
<1>9. MoreTypes'
  BY Zenon, <1>1, <1>8 DEF GInv, MoreTypes, leaderVars
<1>10. QueueAt'
  <2>1. \A k \in 1 .. Len(queue) : queue[k] \in Writers \ {w}
    BY Zenon, <1>2, QueueFacts
  <2>2. status[w] = "OK"
    BY Zenon, <1>1 DEF GInv, QueueAt
  <2>3. \A k \in 1 .. Len(queue') :
          /\ pc'[queue'[k]] # "returned"
          /\ k > size \/ phase \in GroupPhases \ {"launched"} => status[queue'[k]] = "OK"
    BY <1>1, <1>2, <2>1, <2>2 DEF GInv, QueueAt, IInv, Types
  <2> QED
    BY <1>1, <1>3, <1>8, <2>1, <2>3 DEF GInv, QueueAt
<1>11. GroupLed'
  <2>1. UNCHANGED <<size, ledBy>>
    BY Zenon, <1>1
  <2>2. size >= 1 => 1 \in 1 .. size
    BY QueueFacts
  <2>3. ASSUME NEW k \in 1 .. size, 1 \in 1 .. size
        PROVE  MayFollow(queue[k], queue[1])' = MayFollow(queue[k], queue[1])
    <3>1. queue'[k] = queue[k] /\ opt'[queue[k]] = opt[queue[k]]
      BY Zenon, <1>1, <1>3
    <3>2. queue'[1] = queue[1] /\ opt'[queue[1]] = opt[queue[1]]
      BY Zenon, <1>1, <1>3, <2>3
    <3> QED
      BY Zenon, <3>1, <3>2 DEF MayFollow
  <2> QED
    BY Zenon, <1>3, <1>8, <2>1, <2>2, <2>3 DEF GInv, GroupLed
<1>12. Inserted'
  <2>1. \A k \in 1 .. size : /\ queue'[k] = queue[k] /\ pc'[queue[k]] = pc[queue[k]]
                             /\ Takes(queue[k])' = Takes(queue[k])
                             /\ InMem(queue[k]) => InMem(queue[k])'
    BY Zenon, <1>1, <1>3, <1>5
  <2>2. phase = "insert" => \A k \in 1 .. idx - 1 : k \in 1 .. size
    BY QueueFacts DEF IInv, Types, LeaderAt
  <2>3. WentThrough => 1 \in 1 .. size
    BY QueueFacts DEF WentThrough, GInv, GroupLed
  <2>4. WentThrough' = WentThrough
    BY Zenon, <1>8 DEF WentThrough
  <2>5. ASSUME phase = "insert", NEW k \in 1 .. idx - 1, Takes(queue[k])'
        PROVE  InMem(queue[k])'
    BY Zenon, <2>1, <2>2, <2>5 DEF GInv, Inserted
  <2>6. ASSUME phase = "launched", NEW k \in 1 .. size
        PROVE  /\ pc'[queue'[k]] # "parallel" /\ Takes(queue[k])'
                  /\ status'[queue'[k]] = "OK" => InMem(queue[k])'
               /\ pc'[queue'[k]] = "waiting" /\ groupStatus' = "OK" =>
                    status'[queue'[k]] = "OK"
    <3>1. queue'[k] = queue[k] /\ pc'[queue[k]] = pc[queue[k]] /\ status' = status
      BY ZenonT(60), <1>1, <2>1
    <3>2. pc[queue[k]] # "parallel" /\ Takes(queue[k]) /\ status[queue[k]] = "OK"
            => InMem(queue[k])
      BY Zenon, <2>6 DEF GInv, Inserted
    <3>3. pc[queue[k]] = "waiting" /\ groupStatus = "OK" => status[queue[k]] = "OK"
      BY Zenon, <2>6 DEF GInv, Inserted
    <3> QED
      BY ZenonT(60), <1>1, <2>1, <3>1, <3>2, <3>3
  <2>7. ASSUME WentThrough, NEW v \in Writers, IsExiter(v)', status'[v] = "OK",
               NEW k \in 1 .. size, Takes(queue[k])'
        PROVE  InMem(queue[k])'
    BY ZenonT(60), <1>1, <1>6, <2>1, <2>7 DEF GInv, Inserted
  <2>8. ASSUME WentThrough, Takes(queue[1])', status'[queue'[1]] = "OK"
        PROVE  InMem(queue[1])'
    BY Zenon, <1>1, <2>1, <2>3, <2>8 DEF GInv, Inserted
  <2> QED
    <3>1. phase' = phase /\ size' = size /\ idx' = idx
      BY Zenon, <1>1, <1>8
    <3>2. phase' = "insert" => \A k \in 1 .. idx' - 1 : Takes(queue[k])' => InMem(queue[k])'
      BY Zenon, <2>5, <3>1
    <3>3. phase' = "launched" =>
            \A k \in 1 .. size' :
              /\ pc'[queue'[k]] # "parallel" /\ Takes(queue[k])' /\ status'[queue'[k]] = "OK"
                   => InMem(queue[k])'
              /\ pc'[queue'[k]] = "waiting" /\ groupStatus' = "OK" => status'[queue'[k]] = "OK"
      BY Zenon, <2>6, <3>1
    <3>4. WentThrough' =>
            /\ \A v \in Writers : IsExiter(v)' /\ status'[v] = "OK" =>
                 \A k \in 1 .. size' : Takes(queue[k])' => InMem(queue[k])'
            /\ Takes(queue[1])' /\ status'[queue'[1]] = "OK" => InMem(queue[1])'
      BY Zenon, <2>4, <2>7, <2>8, <3>1
    <3> QED
      BY Zenon, <3>2, <3>3, <3>4 DEF Inserted
<1>13. Published'
  BY ZenonT(60), <1>1, <1>3, <1>5, <1>8 DEF GInv, Published, WentThrough
<1>14. Logged'
  <2>1. phase' = phase /\ size' = size /\ WentThrough' = WentThrough /\ wal' = wal /\ synced' = synced
    BY Zenon, <1>1, <1>8 DEF WentThrough
  <2> SUFFICES ASSUME phase \in {"sync", "memtable", "insert", "launched"} \/ WentThrough,
                      NEW k \in 1 .. size, NEW v, queue[k] = v,
                      ~CallbackFailed(v)', ~opt'[v].disableWAL
               PROVE  \E i \in DOMAIN wal : /\ InRecord(v, i)'
                                            /\ opt'[v].sync /\ phase # "sync" => i <= synced
    BY Zenon, <1>3, <2>1 DEF Logged
  <2>2. v \in Writers \ {w}
    BY Zenon, <1>3
  <2>3. ~CallbackFailed(v) /\ opt'[v] = opt[v]
    BY Zenon, <1>1, <1>5, <2>2
  <2>4. \E i \in DOMAIN wal : /\ InRecord(v, i)
                              /\ opt[v].sync /\ phase # "sync" => i <= synced
    BY Zenon, <2>3 DEF GInv, Logged
  <2> QED
    BY Zenon, <1>7, <2>3, <2>4
<1>15. LogWriters'
  <2> SUFFICES ASSUME NEW i \in DOMAIN wal, NEW v \in Writers, InRecord(v, i)
               PROVE  /\ ~CallbackFailed(v)'
                      /\ \/ pc'[v] = "returned"
                         \/ /\ phase \in {"sync", "memtable", "insert", "launched"}
                                         \cup DonePhases
                            /\ leaderStatus \in {"OK", "IOError"}
                            /\ \E k \in 1 .. size : queue'[k] = v
    BY ZenonT(60), <1>1, <1>7, <1>8 DEF LogWriters
  <2>1. /\ ~CallbackFailed(v)
        /\ \/ pc[v] = "returned"
           \/ /\ phase \in {"sync", "memtable", "insert", "launched"} \cup DonePhases
              /\ leaderStatus \in {"OK", "IOError"}
              /\ \E k \in 1 .. size : queue[k] = v
    BY Zenon DEF GInv, LogWriters
  <2>2. v # w
    BY Zenon, <1>1, <1>3, <2>1
  <2> QED
    BY Zenon, <1>1, <1>3, <1>5, <2>1, <2>2
<1>16. FailureStops'
  <2>1. phase \in DonePhases =>
          queue'[1] = queue[1] /\ CallbackFailed(queue[1])' = CallbackFailed(queue[1])
    BY <1>3, <1>5, QueueFacts DEF GInv, GroupLed
  <2>2. FailureStops /\ status' = status
    BY Zenon, <1>1 DEF GInv
  <2> QED
    BY Zenon, <1>6, <1>8, <2>1, <2>2 DEF FailureStops, DonePhases
<1>17. ReturnedAt'
  BY <1>1 DEF GInv, ReturnedAt, MoreTypes, IInv, Types
<1> QED
  BY Zenon, <1>9, <1>10, <1>11, <1>12, <1>13, <1>14, <1>15, <1>16, <1>17 DEF GInv

\* EnterAsBatchGroupLeader: only writers that the leader covers follow it.
LEMMA EnterG ==
  ASSUME IInv, GInv, EnterAsBatchGroupLeader
  PROVE  GInv'
<1>1. PICK n \in 1 .. Len(queue) :
        /\ \A k \in 2 .. n : MayFollow(queue[k], Leader)
        /\ size' = n
        /\ ledBy' = [w \in Writers |->
                       IF \E k \in 1 .. n : queue[k] = w THEN Leader ELSE ledBy[w]]
        /\ parallel' = (Concurrent /\ n > 1)
  BY Zenon DEF EnterAsBatchGroupLeader
<1>2. /\ phase = "enter" /\ size = 0
      /\ phase' = IF leaderStatus = "OK" THEN "callbacks" ELSE "paranoid"
      /\ UNCHANGED <<pc, opt, status, callbackOk, seq, ret, queue, leaderStatus,
                     mem, wal, synced, bgError>>
      /\ groupStatus' = "OK"
  BY Zenon DEF EnterAsBatchGroupLeader, dbVars, IInv, LeaderAt
<1>3. /\ Leader = queue[1] /\ Leader \in Writers /\ n \in Nat /\ n >= 1
      /\ \A k \in 1 .. Len(queue) : queue[k] \in Writers
      /\ Len(queue) \in Nat
  BY <1>1, QueueFacts DEF Leader
<1>4. \A w : /\ CallbackFailed(w)' = CallbackFailed(w)
             /\ \A i : InRecord(w, i)' = InRecord(w, i)
  BY Zenon, <1>2 DEF CallbackFailed, InRecord
<1>5. MoreTypes'
  BY Zenon, <1>1, <1>2, <1>3, FlagsAssumption DEF GInv, MoreTypes, GroupPhases, DonePhases
<1>6. QueueAt'
  <2>1. \A k \in 1 .. Len(queue) : /\ pc[queue[k]] # "returned" /\ k > size
                                   /\ status[queue[k]] = "OK"
    <3>1. \A k \in 1 .. Len(queue) : k > size
      BY <1>2, <1>3
    <3> QED
      BY Zenon, <3>1 DEF GInv, QueueAt
  <2>2. \A w \in Writers : pc[w] # "exiting"
    BY Zenon, <1>2 DEF GInv, QueueAt
  <2>3. phase' # "launched"
    BY Zenon, <1>2
  <2>4. \A w \in Writers : pc[w] = "new" => status[w] = "OK"
    BY Zenon DEF GInv, QueueAt
  <2> QED
    BY Zenon, <1>2, <2>1, <2>2, <2>3, <2>4 DEF QueueAt
<1>7. GroupLed'
  <2>1. phase' \in GroupPhases => leaderStatus' = "OK"
    BY Zenon, <1>2 DEF GroupPhases
  <2>2. size' >= 1
    BY <1>1, <1>3
  <2>3. ASSUME NEW k \in 1 .. n
        PROVE  /\ ledBy'[queue[k]] = queue[1]
               /\ k > 1 => MayFollow(queue[k], queue[1])
    <3>1. queue[k] \in Writers /\ (k > 1 => k \in 2 .. n)
      BY <1>1, <1>3
    <3> QED
      BY Zenon, <1>1, <1>3, <3>1
  <2>4. \A k : MayFollow(queue[k], queue[1])' = MayFollow(queue[k], queue[1])
    BY Zenon, <1>2 DEF MayFollow
  <2> QED
    BY Zenon, <1>1, <1>2, <2>1, <2>2, <2>3, <2>4 DEF GroupLed
<1>8. Inserted' /\ Published' /\ Logged' /\ FailureStops'
  BY Zenon, <1>2 DEF Inserted, Published, Logged, FailureStops, WentThrough, DonePhases
<1>9. LogWriters'
  BY Zenon, <1>2, <1>4 DEF GInv, LogWriters, DonePhases
<1>10. ReturnedAt'
  <2>1. \A w \in Writers : pc[w] = "returned" => ledBy'[w] = ledBy[w]
    BY <1>1, <1>3 DEF GInv, QueueAt
  <2> QED
    BY Zenon, <1>2, <2>1 DEF GInv, ReturnedAt
<1> QED
  BY Zenon, <1>5, <1>6, <1>7, <1>8, <1>9, <1>10 DEF GInv

\* StartMemtable: nobody has inserted yet.
LEMMA StartMemtableG ==
  ASSUME IInv, GInv, StartMemtable
  PROVE  GInv'
<1>1. /\ phase = "memtable"
      /\ UNCHANGED <<opt, status, callbackOk, seq, ledBy, ret, queue, size,
                     groupStatus, idx, leaderStatus, nextSeq, parallel, mem, wal,
                     synced, bgError>>
      /\ \/ /\ phase' = "launched"
            /\ pc' = [w \in Writers |-> IF w \in Group THEN "parallel" ELSE pc[w]]
         \/ phase' = "insert" /\ UNCHANGED pc
  BY Zenon DEF StartMemtable, dbVars
<1>2. /\ \A k \in 1 .. size : queue[k] \in Group /\ pc[queue[k]] # "returned"
      /\ \A k \in 1 .. Len(queue) : queue[k] \in Writers
      /\ \A w \in Group : pc[w] # "returned"
      /\ idx = 1
  BY <1>1, QueueFacts DEF GInv, QueueAt, IInv, LeaderAt
<1>3. \A w : /\ CallbackFailed(w)' = CallbackFailed(w)
             /\ \A i : InRecord(w, i)' = InRecord(w, i)
  BY Zenon, <1>1 DEF CallbackFailed, InRecord
<1>4. \A w \in Writers : pc'[w] = pc[w] \/ (pc'[w] = "parallel" /\ w \in Group)
  BY Zenon, <1>1
<1>5. MoreTypes'
  BY Zenon, <1>1 DEF GInv, MoreTypes, GroupPhases
<1>6. QueueAt'
  <2>1. \A k \in 1 .. Len(queue) : pc'[queue[k]] # "returned"
    BY Zenon, <1>2, <1>4 DEF GInv, QueueAt
  <2>2. phase' = "launched" => \A k \in 1 .. size : pc'[queue[k]] = "parallel"
    BY Zenon, <1>1, <1>2, QueueFacts
  <2>3. \A w \in Writers : pc'[w] # "exiting"
    BY Zenon, <1>1, <1>4 DEF GInv, QueueAt
  <2>4. \A w \in Writers : pc'[w] = "new" => status[w] = "OK"
    BY Zenon, <1>4 DEF GInv, QueueAt
  <2> QED
    BY Zenon, <1>1, <2>1, <2>2, <2>3, <2>4 DEF GInv, QueueAt, GroupPhases
<1>7. GroupLed'
  BY Zenon, <1>1 DEF GInv, GroupLed, GroupPhases, MayFollow
<1>8. Inserted'
  <2>1. phase' = "launched" => \A k \in 1 .. size : pc'[queue[k]] = "parallel"
    BY Zenon, <1>1, <1>2, QueueFacts
  <2>2. 1 .. idx' - 1 = {}
    BY <1>1, <1>2
  <2> QED
    BY Zenon, <1>1, <2>1, <2>2 DEF Inserted, WentThrough, DonePhases
<1>9. Published' /\ FailureStops'
  BY Zenon, <1>1 DEF Published, FailureStops, WentThrough, DonePhases
<1>10. Logged'
  BY Zenon, <1>1, <1>3 DEF GInv, Logged, WentThrough, DonePhases
<1>11. LogWriters'
  BY Zenon, <1>1, <1>2, <1>3, <1>4 DEF GInv, LogWriters
<1>12. ReturnedAt'
  BY <1>1, <1>2, <1>4 DEF GInv, ReturnedAt, MoreTypes
<1> QED
  BY Zenon, <1>5, <1>6, <1>7, <1>8, <1>9, <1>10, <1>11, <1>12 DEF GInv

\* What an insertion that succeeds leaves: if w takes part its keys are there.
LEMMA InsertedOk ==
  ASSUME NEW w \in Writers, status[w] = "OK",
         IF ShouldWriteToMemtable(w) THEN InsertBatch(w, "OK") ELSE UNCHANGED mem,
         UNCHANGED <<opt, seq>>
  PROVE  Takes(w) => InMem(w)'
<1>1. Takes(w) => ShouldWriteToMemtable(w)
  BY Zenon DEF Takes, ShouldWriteToMemtable
<1>2. InsertBatch(w, "OK") => mem' = mem \cup Keys(w, opt[w].count)
  BY Zenon DEF InsertBatch
<1> QED
  BY Zenon, <1>1, <1>2 DEF InMem, Keys

\* An insert, whole or cut off by a failure, removes no key.
LEMMA InsertGrows ==
  ASSUME NEW w, NEW s, IF ShouldWriteToMemtable(w) THEN InsertBatch(w, s)
                       ELSE s = "OK" /\ UNCHANGED mem
  PROVE  mem \subseteq mem'
BY Zenon DEF InsertBatch

\* InsertInto: the first failure ends the loop and is the leader's status too.
LEMMA InsertIntoG ==
  ASSUME IInv, GInv, InsertInto
  PROVE  GInv'
<1> DEFINE w == queue[idx]
<1>1. PICK s \in {"OK", "Corruption"} :
        /\ IF ShouldWriteToMemtable(w)
           THEN InsertBatch(w, s)
           ELSE s = "OK" /\ UNCHANGED mem
        /\ status' = [v \in Writers |->
                        IF s # "OK" /\ v \in BatchFails(w) THEN s ELSE status[v]]
        /\ IF s = "OK" /\ idx < size
           THEN idx' = idx + 1 /\ UNCHANGED phase
           ELSE idx' = 1 /\ phase' = "paranoid"
  BY Zenon DEF InsertInto
<1>2. /\ phase = "insert"
      /\ UNCHANGED <<pc, opt, callbackOk, seq, ledBy, ret, queue, size, groupStatus,
                     leaderStatus, nextSeq, parallel, wal, synced, bgError>>
  BY Zenon DEF InsertInto, groupVars
<1>3. /\ idx \in 1 .. size /\ size \in Nat /\ size >= 1 /\ w \in Writers
      /\ Leader = queue[1] /\ queue[1] \in Writers
      /\ \A k \in 1 .. size : queue[k] \in Writers /\ status[queue[k]] = "OK"
      /\ leaderStatus = "OK"
  <2>1. idx \in 1 .. size /\ size \in Nat /\ size >= 1
    BY <1>2, QueueFacts DEF IInv, Types, LeaderAt
  <2>2. leaderStatus = "OK"
    BY Zenon, <1>2 DEF GInv, GroupLed, GroupPhases
  <2>3. \A k \in 1 .. size : status[queue[k]] = "OK"
    BY <1>2, QueueFacts DEF GInv, QueueAt, GroupPhases
  <2> QED
    BY Zenon, <2>1, <2>2, <2>3, QueueFacts
<1>4. mem \subseteq mem'
  BY Zenon, <1>1, InsertGrows
<1>5. \A v : /\ CallbackFailed(v)' = CallbackFailed(v) /\ Takes(v)' = Takes(v)
             /\ InMem(v) => InMem(v)'
             /\ IsExiter(v)' = IsExiter(v)
             /\ \A i : InRecord(v, i)' = InRecord(v, i)
  BY Zenon, <1>2, <1>4, TakesFrame, ExiterFrame DEF InRecord
<1>6. \A v \in Writers : /\ status'[v] = status[v] \/ v \in {w, Leader}
                         /\ status'[v] \in {"OK", "Corruption"}
  BY Zenon, <1>1 DEF BatchFails, GInv, MoreTypes
<1>7. s = "OK" => /\ status' = status
                  /\ \A k \in 1 .. idx : Takes(queue[k]) => InMem(queue[k])'
  <2> SUFFICES ASSUME s = "OK"
               PROVE  /\ status' = status
                      /\ \A k \in 1 .. idx : Takes(queue[k]) => InMem(queue[k])'
    BY Zenon
  <2>1. status' = status
    BY Zenon, <1>1 DEF GInv, MoreTypes
  <2>2. ASSUME NEW v \in Writers, v = w, Takes(v) PROVE InMem(v)'
    BY Zenon, <1>1, <1>2, <1>3, <2>2, InsertedOk
  <2>3. \A k \in 1 .. idx - 1 : Takes(queue[k]) => InMem(queue[k])'
    BY Zenon, <1>2, <1>5 DEF GInv, Inserted
  <2>4. ASSUME NEW k \in 1 .. idx, Takes(queue[k]) PROVE InMem(queue[k])'
    <3>1. CASE k = idx
      <4>1. PICK v \in Writers : v = queue[k]
        BY <1>3
      <4>2. InMem(v)'
        BY Zenon, <2>2, <2>4, <3>1, <4>1
      <4> QED
        BY Zenon, <1>2, <4>1, <4>2
    <3>2. CASE k \in 1 .. idx - 1
      BY Zenon, <2>3, <2>4, <3>2
    <3> QED
      BY <1>3, <3>1, <3>2
  <2> QED
    BY Zenon, <2>1, <2>4
<1>8. s # "OK" => status'[queue[1]] # "OK"
  BY Zenon, <1>1, <1>3 DEF BatchFails
<1>9. MoreTypes'
  BY Zenon, <1>1, <1>2, <1>6 DEF GInv, MoreTypes, DonePhases
<1>10. QueueAt'
  <2>1. \A k \in 1 .. Len(queue) : k > size => status'[queue[k]] = "OK"
    <3> SUFFICES ASSUME NEW k \in 1 .. Len(queue), k > size
                 PROVE  status'[queue[k]] = "OK"
      BY Zenon
    <3>1. queue[k] # w /\ queue[k] # Leader /\ queue[k] \in Writers
      BY <1>3, QueueFacts DEF IInv, QueueDistinct
    <3>2. status[queue[k]] = "OK"
      BY Zenon DEF GInv, QueueAt
    <3> QED
      BY Zenon, <1>6, <3>1, <3>2
  <2>2. phase' \in GroupPhases => status' = status
    BY Zenon, <1>1, <1>7 DEF GroupPhases
  <2>3. \A v \in Writers : pc[v] = "new" => status'[v] = "OK"
    <3> SUFFICES ASSUME NEW v \in Writers, pc[v] = "new" PROVE status'[v] = "OK"
      BY Zenon
    <3>1. v # w /\ v # Leader
      BY <1>3, QueueFacts DEF IInv, QueueDistinct
    <3> QED
      BY Zenon, <1>6, <3>1 DEF GInv, QueueAt
  <2>4. \A v \in Writers : pc[v] # "exiting"
    BY Zenon, <1>2 DEF GInv, QueueAt
  <2> QED
    BY ZenonT(40), <1>1, <1>2, <2>1, <2>2, <2>3, <2>4 DEF GInv, QueueAt, GroupPhases
<1>11. GroupLed'
  BY Zenon, <1>1, <1>2 DEF GInv, GroupLed, GroupPhases, DonePhases, MayFollow
<1>12. Inserted'
  <2>1. CASE s = "OK" /\ idx < size
    <3>1. 1 .. idx' - 1 = 1 .. idx
      BY <1>1, <1>3, <2>1
    <3> QED
      BY ZenonT(60), <1>1, <1>2, <1>5, <1>7, <2>1, <3>1 DEF Inserted, WentThrough, DonePhases
  <2>2. CASE s = "OK" /\ ~(idx < size)
    <3>1. 1 .. size = 1 .. idx
      BY <1>3, <2>2
    <3>2. \A k \in 1 .. size : Takes(queue[k])' => InMem(queue[k])'
      BY Zenon, <1>2, <1>5, <1>7, <2>2, <3>1
    <3>3. phase' = "paranoid" /\ UNCHANGED <<queue, size>>
      BY Zenon, <1>1, <1>2, <2>2
    <3>4. 1 \in 1 .. size
      BY <1>3
    <3> QED
      BY Zenon, <3>2, <3>3, <3>4 DEF Inserted
  <2>3. CASE s # "OK"
    <3>1. \A v \in Writers : IsExiter(v) => v = queue[1]
      BY Zenon, <1>2, QueueFacts DEF IsExiter, GInv, QueueAt
    <3> QED
      BY Zenon, <1>1, <1>2, <1>5, <1>8, <2>3, <3>1 DEF Inserted
  <2> QED
    BY Zenon, <2>1, <2>2, <2>3
<1>13. Published'
  BY Zenon, <1>1, <1>2, <1>5
     DEF Published, WentThrough, DonePhases, IInv, NumbersAssigned, GroupPhases,
         Numbered, Takes
<1>14. Logged'
  BY Zenon, <1>1, <1>2, <1>5 DEF GInv, Logged, WentThrough, DonePhases
<1>15. LogWriters'
  BY Zenon, <1>1, <1>2, <1>5 DEF GInv, LogWriters, DonePhases
<1>16. FailureStops'
  BY Zenon, <1>1, <1>2 DEF FailureStops
<1>17. ReturnedAt'
  BY Zenon, <1>2 DEF GInv, ReturnedAt
<1> QED
  BY Zenon, <1>9, <1>10, <1>11, <1>12, <1>13, <1>14, <1>15, <1>16, <1>17 DEF GInv

-----------------------------------------------------------------------------
\* InsertParallel: a member's status tells about its own batch.
LEMMA InsertParallelG ==
  ASSUME IInv, GInv, NEW w \in Writers, InsertParallel(w)
  PROVE  GInv'
<1>1. PICK s \in {"OK", "Corruption"} :
        /\ IF ShouldWriteToMemtable(w)
           THEN InsertBatch(w, s)
           ELSE s = "OK" /\ UNCHANGED mem
        /\ status' = [status EXCEPT ![w] = IF s = "OK" THEN @ ELSE s]
  BY ZenonT(60) DEF InsertParallel
<1>2. /\ pc[w] = "parallel" /\ pc' = [pc EXCEPT ![w] = "inserted"]
      /\ UNCHANGED <<opt, callbackOk, seq, ledBy, ret, queue, size, groupStatus,
                     phase, idx, leaderStatus, nextSeq, parallel, LastSequence, wal,
                     synced, bgError>>
  BY Zenon DEF InsertParallel, groupVars, leaderVars
<1>3. phase = "launched" /\ \E k \in 1 .. size : queue[k] = w
  <2>1. w \in Running
    BY Zenon, <1>2 DEF Running
  <2> QED
    BY Zenon, <2>1 DEF IInv, RunningCounts
<1>4. mem \subseteq mem'
  BY Zenon, <1>1, InsertGrows
<1>5. \A v : /\ CallbackFailed(v)' = CallbackFailed(v) /\ Takes(v)' = Takes(v)
             /\ InMem(v) => InMem(v)'
             /\ \A i : InRecord(v, i)' = InRecord(v, i)
  BY Zenon, <1>2, <1>4, TakesFrame DEF InRecord
<1>6. /\ \A v \in Writers : v # w => status'[v] = status[v] /\ pc'[v] = pc[v]
      /\ pc'[w] = "inserted"
      /\ status'[w] = IF s = "OK" THEN status[w] ELSE s
      /\ status' \in [Writers -> {"OK", "Corruption"}]
  BY Zenon, <1>1, <1>2 DEF GInv, MoreTypes, IInv, Types
<1>7. status'[w] = "OK" /\ Takes(w) => InMem(w)'
  BY ZenonT(30), <1>1, <1>2, <1>6, InsertedOk
<1>8. MoreTypes'
  BY Zenon, <1>2, <1>6 DEF GInv, MoreTypes
<1>9. QueueAt'
  <2>1. \A k \in 1 .. Len(queue) : k > size => queue[k] # w
    BY <1>3, QueueFacts DEF IInv, QueueDistinct
  <2>2. \A k \in 1 .. Len(queue) : queue[k] \in Writers
    BY Zenon, QueueFacts
  <2> QED
    BY SMTT(30), <1>2, <1>3, <1>6, <2>1, <2>2, QueueFacts DEF GInv, QueueAt
<1>10. GroupLed'
  BY Zenon, <1>2 DEF GInv, GroupLed, MayFollow
<1>11. Inserted'
  <2> SUFFICES ASSUME NEW k \in 1 .. size
               PROVE  /\ pc'[queue[k]] # "parallel" /\ Takes(queue[k])
                         /\ status'[queue[k]] = "OK" => InMem(queue[k])'
                      /\ pc'[queue[k]] = "waiting" /\ groupStatus = "OK" =>
                           status'[queue[k]] = "OK"
    BY Zenon, <1>2, <1>3, <1>5 DEF Inserted, WentThrough, DonePhases
  <2>1. CASE queue[k] = w
    BY Zenon, <1>2, <1>6, <1>7, <2>1
  <2>2. CASE queue[k] # w
    <3>1. queue[k] \in Writers
      BY Zenon, QueueFacts
    <3>2. pc'[queue[k]] = pc[queue[k]] /\ status'[queue[k]] = status[queue[k]]
      BY Zenon, <1>6, <2>2, <3>1
    <3>3. /\ pc[queue[k]] # "parallel" /\ Takes(queue[k]) /\ status[queue[k]] = "OK"
               => InMem(queue[k])
          /\ pc[queue[k]] = "waiting" /\ groupStatus = "OK" => status[queue[k]] = "OK"
      BY Zenon, <1>3 DEF GInv, Inserted
    <3>4. InMem(queue[k]) => InMem(queue[k])'
      BY Zenon, <1>2, <1>5
    <3> QED
      BY Zenon, <3>2, <3>3, <3>4
  <2> QED
    BY Zenon, <2>1, <2>2
<1>12. Published' /\ FailureStops'
  BY Zenon, <1>2, <1>3 DEF Published, FailureStops, WentThrough, DonePhases
<1>13. Logged'
  BY Zenon, <1>2, <1>3, <1>5 DEF GInv, Logged
<1>14. LogWriters'
  <2>1. \A v \in Writers : pc[v] = "returned" => pc'[v] = "returned"
    BY Zenon, <1>2, <1>6
  <2> QED
    BY ZenonT(40), <1>2, <1>5, <2>1 DEF GInv, LogWriters
<1>15. ReturnedAt'
  BY <1>2, <1>6 DEF GInv, ReturnedAt, MoreTypes
<1> QED
  BY Zenon, <1>8, <1>9, <1>10, <1>11, <1>12, <1>13, <1>14, <1>15 DEF GInv

\* CompleteParallelMemTableWriter: the last one knows of every failure.
LEMMA CompleteG ==
  ASSUME IInv, OneLeft, GInv, NEW w \in Writers, CompleteParallelMemTableWriter(w)
  PROVE  GInv'
<1> DEFINE gs == IF status[w] = "OK" THEN groupStatus ELSE status[w]
<1>1. /\ pc[w] = "inserted" /\ groupStatus' = gs
      /\ pc' = [pc EXCEPT ![w] = IF running = 1 THEN "exiting" ELSE "waiting"]
      /\ status' = [status EXCEPT ![w] = IF running = 1 THEN gs ELSE @]
      /\ phase' = IF running = 1 THEN "publish" ELSE phase
      /\ UNCHANGED <<opt, callbackOk, seq, ledBy, ret, queue, size, idx,
                     leaderStatus, nextSeq, parallel, LastSequence, mem, wal, synced,
                     bgError>>
  BY Zenon DEF CompleteParallelMemTableWriter, IsLast, dbVars
<1>2. w \in Running
  BY Zenon, <1>1 DEF Running
<1>3. phase = "launched" /\ leaderStatus = "OK" /\ size \in Nat
  BY Zenon, <1>2, QueueFacts DEF IInv, RunningCounts, GInv, GroupLed, GroupPhases
<1>4. PICK kw \in 1 .. size : queue[kw] = w
  BY Zenon, <1>2 DEF IInv, RunningCounts
<1>5. \A v : /\ CallbackFailed(v)' = CallbackFailed(v) /\ Takes(v)' = Takes(v)
             /\ InMem(v) => InMem(v)'
             /\ \A i : InRecord(v, i)' = InRecord(v, i)
  BY Zenon, <1>1, TakesFrame DEF InRecord
<1>6. /\ \A v \in Writers : v # w => status'[v] = status[v] /\ pc'[v] = pc[v]
      /\ pc'[w] = IF running = 1 THEN "exiting" ELSE "waiting"
      /\ status'[w] = IF running = 1 THEN gs ELSE status[w]
      /\ status' \in [Writers -> {"OK", "Corruption"}]
      /\ gs \in {"OK", "Corruption"}
  BY Zenon, <1>1 DEF GInv, MoreTypes, IInv, Types
<1>7. running = 1 => \A v \in Running : v = w
  BY Zenon, <1>2, <1>3 DEF OneLeft
<1>8. MoreTypes'
  BY Zenon, <1>1, <1>6 DEF GInv, MoreTypes, DonePhases
<1>9. QueueAt'
  <2>1. \A k \in 1 .. Len(queue) : k > size => queue[k] # w
    BY <1>4, QueueFacts DEF IInv, QueueDistinct
  <2>2. \A v \in Writers : pc[v] # "exiting"
    BY Zenon, <1>3 DEF GInv, QueueAt
  <2>3. \A v \in Writers : pc'[v] = "exiting" => v = w /\ running = 1
    BY Zenon, <1>6, <2>2
  <2>4. \A k \in 1 .. Len(queue) :
          /\ pc'[queue[k]] # "returned"
          /\ k > size => status'[queue[k]] = "OK"
    BY ZenonT(30), <1>6, <2>1, QueueFacts DEF GInv, QueueAt
  <2>5. \A v \in Writers : pc'[v] = "new" => status'[v] = "OK"
    BY ZenonT(30), <1>6 DEF GInv, QueueAt
  <2>6. running # 1 => \A k \in 1 .. size :
                         pc'[queue[k]] \in {"parallel", "inserted", "waiting"}
    BY Zenon, <1>3, <1>6, QueueFacts DEF GInv, QueueAt
  <2> QED
    BY <1>1, <1>3, <1>4, <2>3, <2>4, <2>5, <2>6 DEF QueueAt, GroupPhases
<1>10. GroupLed'
  BY Zenon, <1>1, <1>3 DEF GInv, GroupLed, MayFollow, GroupPhases, DonePhases
<1>11. \A k \in 1 .. size :
         /\ pc[queue[k]] # "parallel" /\ Takes(queue[k]) /\ status[queue[k]] = "OK"
              => InMem(queue[k])
         /\ pc[queue[k]] = "waiting" /\ groupStatus = "OK" => status[queue[k]] = "OK"
  BY Zenon, <1>3 DEF GInv, Inserted
<1>12. ASSUME running # 1
       PROVE  Inserted' /\ Published' /\ FailureStops' /\ Logged' /\ LogWriters'
  <2>1. Inserted'
    <3> SUFFICES ASSUME NEW k \in 1 .. size
                 PROVE  /\ pc'[queue[k]] # "parallel" /\ Takes(queue[k])
                           /\ status'[queue[k]] = "OK" => InMem(queue[k])
                        /\ pc'[queue[k]] = "waiting" /\ gs = "OK" =>
                             status'[queue[k]] = "OK"
      BY Zenon, <1>1, <1>3, <1>5, <1>12 DEF Inserted, WentThrough, DonePhases
    <3>1. status' = status
      BY Zenon, <1>1, <1>12 DEF GInv, MoreTypes
    <3>2. CASE queue[k] = w
      BY Zenon, <1>1, <1>11, <3>1, <3>2
    <3>3. CASE queue[k] # w
      <4>1. queue[k] \in Writers
        BY Zenon, QueueFacts
      <4>2. pc'[queue[k]] = pc[queue[k]]
        BY Zenon, <1>6, <3>3, <4>1
      <4> QED
        BY Zenon, <1>11, <3>1, <4>2
    <3> QED
      BY Zenon, <3>2, <3>3
  <2>2. Published' /\ FailureStops'
    BY ZenonT(60), <1>1, <1>3, <1>12 DEF Published, FailureStops, WentThrough, DonePhases
  <2>3. Logged'
    BY Zenon, <1>1, <1>3, <1>5, <1>12 DEF GInv, Logged
  <2>4. LogWriters'
    BY <1>1, <1>3, <1>5, <1>6, <1>12 DEF GInv, LogWriters, DonePhases
  <2> QED
    BY Zenon, <2>1, <2>2, <2>3, <2>4

<1>13. ASSUME running = 1
       PROVE  Inserted' /\ Published' /\ FailureStops' /\ Logged' /\ LogWriters'
  <2>1. /\ phase' = "publish" /\ pc'[w] = "exiting" /\ status'[w] = gs
        /\ WentThrough'
    BY Zenon, <1>1, <1>3, <1>6, <1>13 DEF WentThrough, DonePhases
  <2>2. \A k \in 1 .. size : queue[k] # w => pc[queue[k]] = "waiting"
    BY Zenon, <1>3, <1>7, <1>13, QueueFacts DEF GInv, QueueAt, Running
  <2>3. gs = "OK" => \A k \in 1 .. size : Takes(queue[k]) => InMem(queue[k])
    <3> SUFFICES ASSUME gs = "OK", NEW k \in 1 .. size, Takes(queue[k])
                 PROVE  InMem(queue[k])
      BY Zenon
    <3>1. status[w] = "OK" /\ groupStatus = "OK"
      BY Zenon
    <3>2. CASE queue[k] = w
      BY Zenon, <1>1, <1>11, <3>1, <3>2
    <3>3. CASE queue[k] # w
      BY Zenon, <1>11, <2>2, <3>1, <3>3
    <3> QED
      BY Zenon, <3>2, <3>3
  <2>4. Group' = Group /\ w \in Group
    BY Zenon, <1>1, <1>4, QueueFacts DEF Group
  <2>5. \A v \in Writers : IsExiter(v)' => v = w
    <3>1. \A v \in Writers : pc'[v] = "exiting" => v = w
      BY ZenonT(40), <1>3, <1>6 DEF GInv, QueueAt
    <3> QED
      BY Zenon, <2>1, <2>4, <3>1 DEF IsExiter
  <2>6. Takes(queue[1]) /\ status'[queue[1]] = "OK" => InMem(queue[1])
    <3>1. 1 \in 1 .. size /\ queue[1] \in Writers
      BY <1>3, <1>4, QueueFacts
    <3>2. CASE queue[1] = w
      BY Zenon, <2>1, <2>3, <3>1, <3>2
    <3>3. CASE queue[1] # w
      BY Zenon, <1>6, <1>11, <2>2, <3>1, <3>3
    <3> QED
      BY Zenon, <3>2, <3>3
  <2>7. Inserted'
    BY Zenon, <1>1, <1>5, <2>1, <2>3, <2>5, <2>6 DEF Inserted
  <2>8. Published'
    BY Zenon, <1>1, <1>3, <1>5, <2>1
       DEF Published, IInv, NumbersAssigned, GroupPhases, Numbered, Takes
  <2>9. FailureStops'
    BY Zenon, <1>1, <1>3, <2>1 DEF FailureStops
  <2>10. Logged'
    BY Zenon, <1>1, <1>3, <1>5, <2>1 DEF GInv, Logged
  <2>11. LogWriters'
    BY <1>1, <1>3, <1>5, <1>6, <2>1 DEF GInv, LogWriters, DonePhases
  <2> QED
    BY Zenon, <2>7, <2>8, <2>9, <2>10, <2>11
<1>14. ReturnedAt'
  BY <1>1, <1>6 DEF GInv, ReturnedAt, MoreTypes
<1> QED
  BY Zenon, <1>8, <1>9, <1>10, <1>12, <1>13, <1>14 DEF GInv

\* ExitAsBatchGroup: the calls of the group return.
LEMMA ExitG ==
  ASSUME IInv, GInv, ExitAsBatchGroup
  PROVE  GInv'
<1>1. /\ phase = "exit" /\ phase' = "idle" /\ size' = 0
      /\ queue' = SubSeq(queue, size + 1, Len(queue))
      /\ pc' = [w \in Writers |-> IF w \in Group THEN "returned" ELSE pc[w]]
      /\ status' = [w \in Writers |->
                      IF w \in Group \ {Leader} THEN status[Exiter] ELSE status[w]]
      /\ ret' = [w \in Writers |->
                   IF w \notin Group THEN ret[w]
                   ELSE IF w = Leader /\ leaderStatus # "OK" THEN leaderStatus
                   ELSE FinalStatus(w, status'[w])]
      /\ UNCHANGED <<opt, callbackOk, seq, ledBy, groupStatus, idx, leaderStatus,
                     nextSeq, parallel, LastSequence, mem, wal, synced, bgError>>
  BY Zenon DEF ExitAsBatchGroup, BehindGroup, dbVars
<1>2. /\ size \in Nat /\ size >= 1 /\ Leader = queue[1] /\ queue[1] \in Group
      /\ Group \subseteq Writers /\ Exiter \in Writers
  BY Zenon, <1>1, QueueFacts, ExiterIs DEF GInv, GroupLed, DonePhases
<1>3. \A w : /\ CallbackFailed(w)' = CallbackFailed(w)
             /\ \A i : InRecord(w, i)' = InRecord(w, i)
  BY Zenon, <1>1 DEF CallbackFailed, InRecord
<1>4. status' \in [Writers -> {"OK", "Corruption"}]
  BY Zenon, <1>1, <1>2 DEF GInv, MoreTypes
<1>5. \A w \in Group : ret'[w] \in Statuses
  BY Zenon, <1>1, <1>2, <1>4 DEF GInv, MoreTypes, FinalStatus, Statuses
<1>6. MoreTypes'
  BY ZenonT(60), <1>1, <1>4, <1>5 DEF GInv, MoreTypes
<1>7. QueueAt'
  <2>1. /\ Len(queue') = Len(queue) - size /\ Len(queue) \in Nat
        /\ \A k \in 1 .. Len(queue') : /\ queue'[k] = queue[size + k]
                                       /\ size + k \in 1 .. Len(queue)
                                       /\ size + k > size
    <3>1. queue' = SubSeq(queue, size + 1, Len(queue))
      BY Zenon, <1>1
    <3>2. queue \in Seq(Writers) /\ size \in 0 .. Len(queue) /\ Len(queue) \in Nat
      BY QueueFacts
    <3> QED
      BY <3>1, <3>2
  <2>2. \A k \in 1 .. Len(queue) : k > size =>
          /\ queue[k] \in Writers \ Group
          /\ pc[queue[k]] # "returned" /\ status[queue[k]] = "OK"
    <3> SUFFICES ASSUME NEW k \in 1 .. Len(queue), k > size
                 PROVE  /\ queue[k] \in Writers \ Group
                        /\ pc[queue[k]] # "returned" /\ status[queue[k]] = "OK"
      BY Zenon
    <3>1. \A j \in 1 .. size : queue[j] # queue[k]
      BY QueueFacts DEF IInv, QueueDistinct
    <3> QED
      BY ZenonT(30), <3>1, QueueFacts DEF GInv, QueueAt
  <2>3. \A k \in 1 .. Len(queue') :
          /\ queue'[k] \in Writers \ Group
          /\ pc[queue'[k]] # "returned" /\ status[queue'[k]] = "OK"
    BY Zenon, <2>1, <2>2
  <2>4. \A k \in 1 .. Len(queue') :
          pc'[queue'[k]] # "returned" /\ status'[queue'[k]] = "OK"
    BY ZenonT(60), <1>1, <2>3
  <2>5. \A w \in Writers : pc'[w] # "exiting"
    <3>1. \A w \in Writers : pc[w] = "exiting" => w \in Group
      BY QueueFacts DEF GInv, QueueAt
    <3> QED
      BY Zenon, <1>1, <3>1
  <2>6. \A w \in Writers : pc'[w] = "new" => w \notin Group /\ status[w] = "OK"
    BY Zenon, <1>1 DEF GInv, QueueAt
  <2>7. \A w \in Writers : pc'[w] = "new" => status'[w] = "OK"
    BY Zenon, <1>1, <2>6
  <2> QED
    BY ZenonT(60), <1>1, <2>4, <2>5, <2>7 DEF QueueAt

<1>8. GroupLed' /\ Inserted' /\ Published' /\ Logged' /\ FailureStops'
  BY ZenonT(60), <1>1 DEF GroupLed, Inserted, Published, Logged, FailureStops, WentThrough,
              GroupPhases, DonePhases
<1>9. LogWriters'
  BY ZenonT(60), <1>1, <1>3, QueueFacts DEF GInv, LogWriters
<1>10. ReturnedAt'
  <2>1. \A w \in Group : ledBy[w] = queue[1]
    BY Zenon, <1>1, QueueFacts DEF GInv, GroupLed, DonePhases
  <2>2. \A w \in Writers : pc[w] = "returned" => pc[ledBy[w]] = "returned"
                                                /\ ledBy[w] \in Writers
    BY Zenon DEF GInv, ReturnedAt, MoreTypes
  <2>3. \A w \in Writers : pc'[w] = "returned" => pc'[ledBy[w]] = "returned"
    BY Zenon, <1>1, <1>2, <2>1, <2>2
  <2> QED
    BY Zenon, <1>1, <2>3 DEF GInv, ReturnedAt
<1> QED
  BY Zenon, <1>6, <1>7, <1>8, <1>9, <1>10 DEF GInv

\* Initially there is no group, no record and no result.
LEMMA InitGInv == Init => GInv
<1> SUFFICES ASSUME Init PROVE GInv
  BY Zenon
<1>1. /\ phase = "idle" /\ size = 0 /\ queue = <<>> /\ wal = <<>> /\ synced = 0
      /\ \A w \in Writers : pc[w] = "new" /\ ret[w] = "none" /\ status[w] = "OK"
  BY Zenon DEF Init
<1>2. MoreTypes
  <2>1. wal \in Seq(Records) /\ Len(wal) = 0
    BY <1>1
  <2>2. /\ status \in [Writers -> {"OK", "Corruption"}]
        /\ ledBy \in [Writers -> Writers]
        /\ ret \in [Writers -> Statuses \cup {"none"}]
    BY Zenon DEF Init
  <2>3. synced \in 0 .. Len(wal)
    BY <1>1, <2>1
  <2> QED
    BY ZenonT(60), <2>1, <2>2, <2>3 DEF Init, MoreTypes
<1>3. QueueAt /\ ReturnedAt
  BY <1>1 DEF QueueAt, ReturnedAt, GroupPhases
<1>4. GroupLed /\ Inserted /\ Published /\ Logged /\ LogWriters /\ FailureStops
  BY <1>1 DEF GroupLed, Inserted, Published, Logged, LogWriters, FailureStops,
              WentThrough, GroupPhases, DonePhases
<1> QED
  BY Zenon, <1>2, <1>3, <1>4 DEF GInv

\* Every step preserves the invariant.
LEMMA NextGInv == IInv /\ OneLeft /\ GInv /\ [Next]_vars => GInv'
<1> SUFFICES ASSUME IInv, OneLeft, GInv, [Next]_vars PROVE GInv'
  BY Zenon
<1>1. CASE \E w \in Writers : JoinBatchGroup(w)
  BY Zenon, <1>1, JoinG
<1>2. CASE EnterAsBatchGroupLeader
  BY Zenon, <1>2, EnterG
<1>3. CASE CheckCallback
  BY Zenon, <1>3, CheckCallbackG
<1>4. CASE AddRecord
  BY Zenon, <1>4, AddRecordG
<1>5. CASE SyncLogs
  BY Zenon, <1>5, SyncLogsG
<1>6. CASE StartMemtable
  BY Zenon, <1>6, StartMemtableG
<1>7. CASE InsertInto
  BY Zenon, <1>7, InsertIntoG
<1>8. CASE \E w \in Writers : InsertParallel(w)
  BY Zenon, <1>8, InsertParallelG
<1>9. CASE \E w \in Writers : CompleteParallelMemTableWriter(w)
  BY Zenon, <1>9, CompleteG
<1>10. CASE ExitAsBatchGroup
  BY Zenon, <1>10, ExitG
<1>11. CASE \/ PreprocessWrite \/ ParanoidCheck \/ SetLastSequence
            \/ MemTableInsertStatusCheck \/ BackgroundError \/ UNCHANGED vars
  BY Zenon, <1>11, QuietG
<1> QED
  BY Zenon, <1>1, <1>2, <1>3, <1>4, <1>5, <1>6, <1>7, <1>8, <1>9, <1>10, <1>11
     DEF Next, Step
=============================================================================
