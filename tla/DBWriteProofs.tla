--------------------------- MODULE DBWriteProofs ----------------------------
(***************************************************************************)
(* Proofs about DBWrite, for any writers, requests, faults and options: no *)
(* two keys of the memtable share a sequence number (SequencesUnique), and *)
(* no key appears at or below a published sequence number                  *)
(* (SnapshotStable), so a snapshot never changes. Neither is inductive;    *)
(* IInv of DBWriteInvariants is.                                           *)
(***************************************************************************)
EXTENDS DBWriteInvariants, FiniteSetTheorems, TLAPS

-----------------------------------------------------------------------------
\* The batch of a request has a natural number of keys.
LEMMA CountIsNat ==
  ASSUME NEW r \in Requests
  PROVE  r.count \in Nat
BY Zenon, RequestsAssumption

\* The initial states satisfy the invariant.
LEMMA InitIInv == Init => IInv
<1> SUFFICES ASSUME Init PROVE IInv
  BY Zenon
<1> USE DEF Init
<1>1. (CHOOSE r \in Requests : TRUE) \in Requests
  BY Zenon, RequestsAssumption
<1>2. Types
  BY <1>1 DEF Types
<1>3. Running = {}
  BY Zenon DEF Running
<1>4. RunningCounts
  BY Zenon, <1>3 DEF RunningCounts
<1>5. QueueDistinct /\ LeaderAt /\ NumbersAssigned /\ KeysPlaced /\ SequencesUnique
  BY DEF QueueDistinct, LeaderAt, NumbersAssigned, KeysPlaced, SequencesUnique,
         GroupPhases, KeyPhases
<1> QED
  BY Zenon, <1>2, <1>4, <1>5 DEF IInv

\* What the steps that form no group and insert nothing leave alone.
coreVars == <<pc, opt, callbackOk, seq, queue, size, running, LastSequence, mem>>

\* Running depends on pc only.
LEMMA RunningUnchanged == UNCHANGED pc => Running' = Running
BY Zenon DEF Running

\* A step that leaves the core alone preserves the invariant if the leader's
\* place still fits, no number is forgotten, and keys and runners stay covered.
LEMMA CoreUnchanged ==
  ASSUME IInv, UNCHANGED coreVars, LeaderAt',
         idx' \in Nat \ {0}, nextSeq' \in Nat,
         phase' \in GroupPhases =>
           /\ phase \in GroupPhases
           /\ nextSeq' = nextSeq
           /\ (phase = "callbacks") = (phase' = "callbacks")
           /\ idx' = idx,
         phase' \in {"insert", "launched"} => phase' = phase,
         phase \in KeyPhases => phase' \in KeyPhases /\ nextSeq' = nextSeq,
         (phase = "launched") = (phase' = "launched")
  PROVE  IInv'
<1> USE DEF coreVars
<1>1. Types'
  BY ZenonT(30) DEF IInv, Types
<1>2. QueueDistinct'
  BY Zenon DEF IInv, QueueDistinct
<1>3. NumbersAssigned'
  <2>1. ASSUME phase' \in GroupPhases
        PROVE  \A k : Numbered(k)' = Numbered(k)
    BY Zenon, <2>1 DEF Numbered, CallbackFailed
  <2> QED
    BY Zenon, <2>1 DEF IInv, NumbersAssigned
<1>4. KeysPlaced'
  BY ZenonT(30) DEF IInv, KeysPlaced, Numbered, CallbackFailed, GroupPhases
<1>5. RunningCounts'
  BY Zenon, RunningUnchanged DEF IInv, RunningCounts
<1>6. SequencesUnique'
  BY Zenon DEF IInv, SequencesUnique
<1> QED
  BY Zenon, <1>1, <1>2, <1>3, <1>4, <1>5, <1>6 DEF IInv

\* The steps that touch only the log, the statuses and the leader's place.
LEMMA QuietSteps ==
  ASSUME IInv,
         \/ PreprocessWrite \/ AddRecord \/ SyncLogs \/ ParanoidCheck
         \/ MemTableInsertStatusCheck \/ BackgroundError \/ UNCHANGED vars
  PROVE  IInv'
<1> USE DEF writerVars, groupVars, leaderVars, dbVars
<1>1. UNCHANGED coreVars
  BY Zenon DEF coreVars, PreprocessWrite, AddRecord, SyncLogs, ParanoidCheck,
         MemTableInsertStatusCheck, BackgroundError, vars
<1>2. /\ idx \in Nat \ {0} /\ nextSeq \in Nat /\ LastSequence \in Nat
      /\ LeaderAt
  BY Zenon DEF IInv, Types
<1>3. CASE PreprocessWrite
  <2>1. phase = "idle" /\ phase' = "enter" /\ idx' = idx
        /\ nextSeq' = LastSequence + 1
    BY Zenon, <1>3 DEF PreprocessWrite
  <2> QED
    BY <1>1, <1>2, <2>1, CoreUnchanged
       DEF LeaderAt, GroupPhases, KeyPhases, coreVars
<1>4. CASE \/ AddRecord \/ SyncLogs \/ ParanoidCheck
           \/ MemTableInsertStatusCheck \/ BackgroundError \/ UNCHANGED vars
  <2>1. /\ idx' = idx /\ nextSeq' = nextSeq
        /\ \/ phase' = phase
           \/ phase = "wal" /\ phase' \in {"sync", "memtable", "paranoid"}
           \/ phase = "sync" /\ phase' \in {"memtable", "paranoid"}
           \/ phase = "paranoid" /\ phase' = "publish"
           \/ phase = "check" /\ phase' = "exit"
    BY Zenon, <1>4 DEF AddRecord, SyncLogs, ParanoidCheck, MemTableInsertStatusCheck,
                BackgroundError, vars
  <2> QED
    BY Zenon, <1>1, <1>2, <2>1, CoreUnchanged
       DEF LeaderAt, GroupPhases, KeyPhases, coreVars
<1> QED
  BY Zenon, <1>3, <1>4

\* JoinBatchGroup: a writer that is not linked yet is linked behind the group.
LEMMA JoinIInv ==
  ASSUME IInv, NEW w \in Writers, JoinBatchGroup(w)
  PROVE  IInv'
<1>1. /\ queue \in Seq(Writers) /\ size \in 0 .. Len(queue)
      /\ opt \in [Writers -> Requests]
      /\ pc \in [Writers -> {"new", "joined", "parallel", "inserted", "waiting",
                             "exiting", "returned"}]
  BY Zenon DEF IInv, Types
<1>2. /\ pc[w] = "new" /\ pc' = [pc EXCEPT ![w] = "joined"]
      /\ queue' = Append(queue, w)
      /\ \E r \in Requests : opt' = [opt EXCEPT ![w] = r]
      /\ UNCHANGED <<callbackOk, seq, size, running, phase, idx, nextSeq, LastSequence,
                     mem>>
  BY Zenon DEF JoinBatchGroup, leaderVars, dbVars
<1>3. /\ queue' \in Seq(Writers) /\ Len(queue') = Len(queue) + 1
      /\ \A k \in 1 .. Len(queue) : queue'[k] = queue[k] /\ queue[k] \in Writers
      /\ queue'[Len(queue) + 1] = w
  BY <1>1, <1>2
<1>4. /\ \A k \in 1 .. Len(queue') : k \in 1 .. Len(queue) \/ k = Len(queue) + 1
      /\ \A k \in 1 .. size : k \in 1 .. Len(queue)
      /\ size \in 0 .. Len(queue')
  BY <1>1, <1>3
<1>5. \A k \in 1 .. Len(queue) : queue[k] # w
  BY Zenon, <1>2 DEF IInv, QueueDistinct
<1>6. /\ pc'[w] = "joined" /\ \A v \in Writers : v # w => pc'[v] = pc[v] /\ opt'[v] = opt[v]
      /\ pc' \in [Writers -> {"new", "joined", "parallel", "inserted", "waiting",
                              "exiting", "returned"}]
      /\ opt' \in [Writers -> Requests]
  BY Zenon, <1>1, <1>2
<1>7. Types'
  BY Zenon, <1>2, <1>3, <1>4, <1>6 DEF IInv, Types
<1>8. QueueDistinct'
  <2>1. ASSUME NEW k \in 1 .. Len(queue') PROVE pc'[queue'[k]] # "new"
    <3>1. CASE k \in 1 .. Len(queue)
      <4>1. queue'[k] = queue[k] /\ pc'[queue[k]] = pc[queue[k]]
        BY Zenon, <1>3, <1>5, <1>6, <3>1
      <4> QED
        BY Zenon, <3>1, <4>1 DEF IInv, QueueDistinct
    <3>2. CASE k = Len(queue) + 1
      BY Zenon, <1>3, <1>6, <3>2
    <3> QED
      BY Zenon, <1>4, <3>1, <3>2
  <2>2. ASSUME NEW j \in 1 .. Len(queue'), NEW k \in 1 .. Len(queue'),
               queue'[j] = queue'[k]
        PROVE  j = k
    BY Zenon, <1>3, <1>4, <1>5, <2>2 DEF IInv, QueueDistinct
  <2> QED
    BY Zenon, <2>1, <2>2 DEF QueueDistinct
<1>9. LeaderAt'
  BY Zenon, <1>2 DEF IInv, LeaderAt
<1>10. ASSUME NEW k \in 1 .. size
       PROVE  /\ queue'[k] = queue[k]
              /\ opt'[queue[k]] = opt[queue[k]]
              /\ Numbered(k)' = Numbered(k)
  <2>1. queue'[k] = queue[k] /\ queue[k] \in Writers /\ queue[k] # w
    BY Zenon, <1>3, <1>4, <1>5
  <2>2. opt'[queue[k]] = opt[queue[k]]
    BY Zenon, <1>6, <2>1
  <2> QED
    BY Zenon, <1>2, <2>1, <2>2 DEF Numbered, CallbackFailed
<1>11. NumbersAssigned'
  <2> SUFFICES ASSUME phase \in GroupPhases, NEW k \in 1 .. size, Numbered(k)
               PROVE  /\ seq[queue[k]] > LastSequence
                      /\ seq[queue[k]] + opt[queue[k]].count <= nextSeq
                      /\ \A j \in 1 .. k - 1 : Numbered(j)' =>
                           seq[queue'[j]] + opt'[queue'[j]].count <= seq[queue[k]]
    BY Zenon, <1>2, <1>10 DEF NumbersAssigned
  <2>1. \A j \in 1 .. k - 1 : j \in 1 .. size
    BY <1>1
  <2> QED
    BY Zenon, <1>10, <2>1 DEF IInv, NumbersAssigned
<1>12. KeysPlaced'
  <2>1. ASSUME NEW e \in mem, phase \in {"insert", "launched"},
               NEW k \in 1 .. size, e.writer = queue[k], Numbered(k),
               seq[queue[k]] <= e.seq, e.seq < seq[queue[k]] + opt[queue[k]].count
        PROVE  \E j \in 1 .. size : /\ e.writer = queue'[j]
                                    /\ Numbered(j)'
                                    /\ seq[queue'[j]] <= e.seq
                                    /\ e.seq < seq[queue'[j]] + opt'[queue'[j]].count
    <3>1. queue'[k] = queue[k] /\ opt'[queue[k]] = opt[queue[k]] /\ Numbered(k)'
      BY Zenon, <1>10, <2>1
    <3> QED
      BY Zenon, <2>1, <3>1
  <2> QED
    BY Zenon, <1>2, <2>1 DEF IInv, KeysPlaced
<1>13. Running' = Running
  BY Zenon, <1>2, <1>6 DEF Running
<1>14. RunningCounts'
  <2>1. /\ Running # {} => phase = "launched"
        /\ \A v \in Running : \E k \in 1 .. size : queue[k] = v
        /\ phase = "launched" => IsFiniteSet(Running) /\ running = Cardinality(Running)
    BY Zenon DEF IInv, RunningCounts
  <2>2. \A v \in Running' : \E k \in 1 .. size' : queue'[k] = v
    BY Zenon, <1>2, <1>10, <1>13, <2>1
  <2> QED
    BY Zenon, <1>2, <1>13, <2>1, <2>2 DEF RunningCounts
<1>15. SequencesUnique'
  BY ZenonT(30), <1>2 DEF IInv, SequencesUnique
<1> QED
  BY Zenon, <1>7, <1>8, <1>9, <1>11, <1>12, <1>14, <1>15 DEF IInv

\* EnterAsBatchGroupLeader: nobody is numbered yet.
LEMMA EnterIInv ==
  ASSUME IInv, EnterAsBatchGroupLeader
  PROVE  IInv'
<1> USE DEF EnterAsBatchGroupLeader, dbVars
<1>1. /\ phase = "enter" /\ phase' \in {"callbacks", "paranoid"} /\ idx' = 1
      /\ UNCHANGED <<pc, opt, callbackOk, seq, queue, running, nextSeq,
                     LastSequence, mem>>
  BY Zenon
<1>2. queue \in Seq(Writers) /\ size' \in 1 .. Len(queue)
  BY Zenon DEF IInv, Types
<1>3. Types'
  BY <1>1, <1>2 DEF IInv, Types
<1>4. QueueDistinct' /\ SequencesUnique'
  BY Zenon, <1>1 DEF IInv, QueueDistinct, SequencesUnique
<1>5. LeaderAt'
  BY <1>1, <1>2, <1>3 DEF IInv, LeaderAt, Types, GroupPhases
<1>6. NumbersAssigned'
  BY <1>1 DEF NumbersAssigned, Numbered, GroupPhases
<1>7. \A e \in mem : ~(e.seq > LastSequence)
  BY Zenon, <1>1 DEF IInv, KeysPlaced, KeyPhases
<1>8. KeysPlaced'
  BY Zenon, <1>1, <1>7 DEF KeysPlaced
<1>9. Running = {}
  BY Zenon, <1>1 DEF IInv, RunningCounts
<1>10. RunningCounts'
  BY Zenon, <1>1, <1>9, RunningUnchanged DEF RunningCounts
<1> QED
  BY Zenon, <1>3, <1>4, <1>5, <1>6, <1>8, <1>10 DEF IInv

\* CheckCallback: the member at idx gets the next numbers, if it takes part.
LEMMA CheckCallbackIInv ==
  ASSUME IInv, CheckCallback
  PROVE  IInv'
<1> DEFINE w == queue[idx]
<1>1. PICK ok \in BOOLEAN :
        /\ ~opt[w].callback => ok
        /\ callbackOk' = [callbackOk EXCEPT ![w] = ok]
        /\ IF ok /\ ~opt[w].disableMemtable
           THEN /\ seq' = [seq EXCEPT ![w] = nextSeq]
                /\ nextSeq' = nextSeq + Count(w)
           ELSE UNCHANGED <<seq, nextSeq>>
  BY Zenon DEF CheckCallback
<1>2. /\ phase = "callbacks"
      /\ UNCHANGED <<pc, opt, queue, size, running, LastSequence, mem>>
      /\ \/ idx < size /\ phase' = "callbacks" /\ idx' = idx + 1
         \/ ~(idx < size) /\ phase' \in {"wal", "memtable"} /\ idx' = 1
  BY Zenon DEF CheckCallback, groupVars, dbVars
<1>3. /\ idx \in 1 .. size /\ size \in Nat /\ queue \in Seq(Writers)
      /\ size <= Len(queue) /\ w \in Writers
      /\ opt \in [Writers -> Requests] /\ seq \in [Writers -> Nat]
      /\ callbackOk \in [Writers -> BOOLEAN]
      /\ nextSeq \in Nat /\ LastSequence \in Nat /\ nextSeq > LastSequence
  BY <1>2 DEF IInv, Types, LeaderAt, GroupPhases
<1>4. \A v \in Writers : opt[v].count \in Nat
  BY Zenon, <1>3, CountIsNat
<1>5. nextSeq' \in Nat /\ nextSeq' >= nextSeq /\ seq' \in [Writers -> Nat]
  BY SMTT(30), <1>1, <1>3, <1>4 DEF Count
<1>6. Types'
  <2>1. callbackOk' \in [Writers -> BOOLEAN]
    BY Zenon, <1>1, <1>3
  <2>2. idx' \in Nat \ {0}
    BY <1>2, <1>3
  <2> QED
    BY Zenon, <1>2, <1>5, <2>1, <2>2 DEF IInv, Types
<1>7. QueueDistinct' /\ SequencesUnique'
  BY Zenon, <1>2 DEF IInv, QueueDistinct, SequencesUnique
<1>8. LeaderAt'
  BY SMTT(30), <1>2, <1>3, <1>5 DEF IInv, LeaderAt, GroupPhases
<1>9. \A k \in 1 .. idx - 1 :
        /\ queue[k] \in Writers /\ queue[k] # w
        /\ seq'[queue[k]] = seq[queue[k]]
        /\ callbackOk'[queue[k]] = callbackOk[queue[k]]
  <2> SUFFICES ASSUME NEW k \in 1 .. idx - 1
               PROVE  /\ queue[k] \in Writers /\ queue[k] # w
                      /\ seq'[queue[k]] = seq[queue[k]]
                      /\ callbackOk'[queue[k]] = callbackOk[queue[k]]
    BY Zenon
  <2>1. k \in 1 .. Len(queue) /\ idx \in 1 .. Len(queue) /\ k # idx
    BY <1>3
  <2>2. queue[k] \in Writers /\ queue[k] # w
    BY <1>3, <2>1 DEF IInv, QueueDistinct
  <2> QED
    BY Zenon, <1>1, <1>3, <2>2
<1>10. \A k \in 1 .. size : Numbered(k)' =>
         \/ k \in 1 .. idx - 1 /\ Numbered(k)
         \/ k = idx /\ seq'[w] = nextSeq /\ nextSeq' = nextSeq + opt[w].count
  <2> SUFFICES ASSUME NEW k \in 1 .. size, Numbered(k)'
               PROVE  \/ k \in 1 .. idx - 1 /\ Numbered(k)
                      \/ /\ k = idx /\ seq'[w] = nextSeq
                         /\ nextSeq' = nextSeq + opt[w].count
    BY Zenon
  <2>1. k \in 1 .. idx - 1 \/ k = idx
    BY <1>2, <1>3 DEF Numbered
  <2>2. CASE k \in 1 .. idx - 1
    <3>1. callbackOk'[queue[k]] = callbackOk[queue[k]]
      BY Zenon, <1>9, <2>2
    <3>2. k < idx
      BY <1>3, <2>2
    <3>3. ~CallbackFailed(queue[k]) /\ ~opt[queue[k]].disableMemtable
      BY Zenon, <1>2, <3>1 DEF Numbered, CallbackFailed
    <3> QED
      BY Zenon, <2>2, <3>2, <3>3 DEF Numbered
  <2>3. CASE k = idx
    <3>1. ok /\ ~opt[w].disableMemtable
      BY Zenon, <1>1, <1>2, <1>3, <2>3 DEF Numbered, CallbackFailed
    <3> QED
      BY Zenon, <1>1, <1>3, <2>3, <3>1 DEF Count
  <2> QED
    BY Zenon, <2>1, <2>2, <2>3
<1>11. NumbersAssigned'
  <2> SUFFICES ASSUME NEW k \in 1 .. size, Numbered(k)'
               PROVE  /\ seq'[queue[k]] > LastSequence
                      /\ seq'[queue[k]] + opt[queue[k]].count <= nextSeq'
                      /\ \A j \in 1 .. k - 1 : Numbered(j)' =>
                           seq'[queue[j]] + opt[queue[j]].count <= seq'[queue[k]]
    BY Zenon, <1>2 DEF NumbersAssigned
  <2>1. \A j \in 1 .. idx - 1 : Numbered(j) =>
          /\ seq[queue[j]] > LastSequence
          /\ seq[queue[j]] + opt[queue[j]].count <= nextSeq
          /\ \A i \in 1 .. j - 1 : Numbered(i) =>
               seq[queue[i]] + opt[queue[i]].count <= seq[queue[j]]
    <3>1. \A j \in 1 .. idx - 1 : j \in 1 .. size
      BY <1>3
    <3> QED
      BY Zenon, <1>2, <3>1 DEF IInv, NumbersAssigned, GroupPhases
  <2>2. \A j \in 1 .. k - 1 : Numbered(j)' => j \in 1 .. idx - 1 /\ Numbered(j)
    BY SMTT(30), <1>3, <1>10
  <2>3. CASE k \in 1 .. idx - 1 /\ Numbered(k)
    <3>1. /\ seq'[queue[k]] = seq[queue[k]]
          /\ seq[queue[k]] \in Nat /\ opt[queue[k]].count \in Nat
      BY Zenon, <1>3, <1>4, <1>9, <2>3
    <3>2. /\ seq[queue[k]] > LastSequence
          /\ seq[queue[k]] + opt[queue[k]].count <= nextSeq
      BY Zenon, <2>1, <2>3
    <3>3. ASSUME NEW j \in 1 .. k - 1, Numbered(j)'
          PROVE  seq'[queue[j]] + opt[queue[j]].count <= seq'[queue[k]]
      <4>1. seq'[queue[j]] = seq[queue[j]]
        BY Zenon, <1>9, <2>2, <3>3
      <4>2. seq[queue[j]] + opt[queue[j]].count <= seq[queue[k]]
        BY Zenon, <2>1, <2>2, <2>3, <3>3
      <4> QED
        BY Zenon, <3>1, <4>1, <4>2
    <3>4. seq[queue[k]] + opt[queue[k]].count <= nextSeq'
      <4>1. nextSeq \in Nat /\ nextSeq' \in Nat /\ nextSeq' >= nextSeq
        BY Zenon, <1>3, <1>5
      <4> QED
        BY <3>1, <3>2, <4>1
    <3> QED
      BY Zenon, <3>1, <3>2, <3>3, <3>4
  <2>4. CASE k = idx /\ seq'[w] = nextSeq /\ nextSeq' = nextSeq + opt[w].count
    <3>1. ASSUME NEW j \in 1 .. k - 1, Numbered(j)'
          PROVE  seq'[queue[j]] + opt[queue[j]].count <= seq'[queue[k]]
      <4>1. seq'[queue[j]] = seq[queue[j]]
        BY Zenon, <1>9, <2>2, <3>1
      <4>2. seq[queue[j]] + opt[queue[j]].count <= nextSeq
        BY Zenon, <2>1, <2>2, <3>1
      <4> QED
        BY Zenon, <2>4, <4>1, <4>2
    <3>2. opt[queue[k]].count \in Nat
      BY Zenon, <1>3, <1>4, <2>4
    <3> QED
      BY <1>3, <2>4, <3>1, <3>2
  <2> QED
    BY Zenon, <1>10, <2>3, <2>4
<1>12. \A e \in mem : ~(e.seq > LastSequence)
  BY Zenon, <1>2 DEF IInv, KeysPlaced, KeyPhases
<1>13. KeysPlaced'
  BY Zenon, <1>2, <1>12 DEF KeysPlaced
<1>14. RunningCounts'
  BY Zenon, <1>2, RunningUnchanged DEF IInv, RunningCounts
<1> QED
  BY Zenon, <1>6, <1>7, <1>8, <1>11, <1>13, <1>14 DEF IInv

\* Inserting keys of a numbered member keeps the keys placed and their numbers
\* distinct, and all of them are above LastSequence.
LEMMA InsertKeys ==
  ASSUME IInv, phase \in {"insert", "launched"},
         NEW k \in 1 .. size, ShouldWriteToMemtable(queue[k]),
         NEW new, new \subseteq Keys(queue[k], opt[queue[k]].count),
         mem' = mem \cup new,
         UNCHANGED <<opt, callbackOk, seq, queue, size, nextSeq, LastSequence>>,
         phase' \in KeyPhases,
         phase' \in {"insert", "launched"} => phase' = phase
  PROVE  /\ mem' \subseteq [writer : Writers, seq : Nat]
         /\ KeysPlaced' /\ SequencesUnique'
         /\ \A e \in new : e.seq > LastSequence
<1> DEFINE w == queue[k]
<1>1. /\ queue \in Seq(Writers) /\ size \in 0 .. Len(queue)
      /\ opt \in [Writers -> Requests] /\ seq \in [Writers -> Nat]
      /\ nextSeq \in Nat /\ LastSequence \in Nat
      /\ mem \subseteq [writer : Writers, seq : Nat]
  BY Zenon DEF IInv, Types
<1>2. \A j \in 1 .. size : /\ queue[j] \in Writers
                           /\ opt[queue[j]].count \in Nat
                           /\ seq[queue[j]] \in Nat
  BY <1>1, CountIsNat
<1>3. Numbered(k)
  BY Zenon DEF Numbered, ShouldWriteToMemtable
<1>4. \A j \in 1 .. size : Numbered(j) =>
        /\ seq[queue[j]] > LastSequence
        /\ seq[queue[j]] + opt[queue[j]].count <= nextSeq
        /\ \A i \in 1 .. j - 1 : Numbered(i) =>
             seq[queue[i]] + opt[queue[i]].count <= seq[queue[j]]
  BY Zenon DEF IInv, NumbersAssigned, GroupPhases
<1>5. \A e \in new : /\ e \in [writer : Writers, seq : Nat]
                     /\ e.writer = w
                     /\ seq[w] <= e.seq
                     /\ e.seq < seq[w] + opt[w].count
  BY <1>2 DEF Keys
<1>6. mem' \subseteq [writer : Writers, seq : Nat]
  BY Zenon, <1>1, <1>5
<1>7. \A e \in new : e.seq > LastSequence /\ e.seq < nextSeq
  BY SMTT(30), <1>1, <1>2, <1>3, <1>4, <1>5
<1>8. phase # "callbacks" /\ phase' # "callbacks"
  BY Zenon DEF KeyPhases
<1>9. \A j \in 1 .. size : Numbered(j)' <=> Numbered(j)
  BY Zenon, <1>8 DEF Numbered, CallbackFailed
<1>10. KeysPlaced'
  <2> SUFFICES ASSUME NEW e \in mem', e.seq > LastSequence
               PROVE  /\ e.seq < nextSeq
                      /\ phase' \in {"insert", "launched"} =>
                           \E j \in 1 .. size :
                             /\ e.writer = queue[j]
                             /\ Numbered(j)
                             /\ seq[queue[j]] <= e.seq
                             /\ e.seq < seq[queue[j]] + opt[queue[j]].count
    BY Zenon, <1>9 DEF KeysPlaced
  <2>1. CASE e \in mem
    BY Zenon, <2>1 DEF IInv, KeysPlaced
  <2>2. CASE e \in new
    BY Zenon, <1>3, <1>5, <1>7, <2>2
  <2> QED
    BY Zenon, <2>1, <2>2
<1>11. \A e \in new, f \in mem : e.seq = f.seq => e = f
  <2> SUFFICES ASSUME NEW e \in new, NEW f \in mem, e.seq = f.seq
               PROVE  e = f
    BY Zenon
  <2>1. f.seq > LastSequence
    BY Zenon, <1>7
  <2>2. PICK j \in 1 .. size : /\ f.writer = queue[j]
                               /\ Numbered(j)
                               /\ seq[queue[j]] <= f.seq
                               /\ f.seq < seq[queue[j]] + opt[queue[j]].count
    BY Zenon, <2>1 DEF IInv, KeysPlaced
  <2>3. f.seq \in Nat
    BY Zenon, <1>1
  <2>4. ASSUME j < k PROVE FALSE
    <3>1. j \in 1 .. k - 1
      BY <1>1, <2>4
    <3>2. seq[queue[j]] + opt[queue[j]].count <= seq[w]
      BY Zenon, <1>3, <1>4, <2>2, <3>1
    <3>3. seq[w] <= f.seq /\ f.seq < seq[queue[j]] + opt[queue[j]].count
      BY Zenon, <1>5, <2>2
    <3> QED
      BY <1>2, <2>3, <3>2, <3>3
  <2>5. ASSUME k < j PROVE FALSE
    <3>1. k \in 1 .. j - 1
      BY <1>1, <2>5
    <3>2. seq[w] + opt[w].count <= seq[queue[j]]
      BY Zenon, <1>3, <1>4, <2>2, <3>1
    <3>3. seq[queue[j]] <= f.seq /\ f.seq < seq[w] + opt[w].count
      BY Zenon, <1>5, <2>2
    <3> QED
      BY <1>2, <2>3, <3>2, <3>3
  <2>6. f.writer = e.writer
    BY <1>1, <1>5, <2>2, <2>4, <2>5
  <2> QED
    BY <1>1, <1>5, <2>6
<1>12. \A e, f \in new : e.seq = f.seq => e = f
  BY <1>5
<1>13. SequencesUnique'
  BY Zenon, <1>11, <1>12 DEF IInv, SequencesUnique
<1> QED
  BY Zenon, <1>6, <1>7, <1>10, <1>13

\* The writers of a parallel group are as many as the group's size.
LEMMA GroupSize ==
  ASSUME IInv
  PROVE  IsFiniteSet(Group) /\ Cardinality(Group) = size
<1> DEFINE f == [k \in 1 .. size |-> queue[k]]
<1>1. queue \in Seq(Writers) /\ size \in 0 .. Len(queue) /\ size \in Nat
  BY DEF IInv, Types
<1>2. \A j, k \in 1 .. size : queue[j] = queue[k] => j = k
  BY <1>1 DEF IInv, QueueDistinct
<1>3. f \in Bijection(1 .. size, Group)
  BY Zenon, <1>2 DEF Group, Bijection, Injection, IsInjective, Surjection
<1>4. IsFiniteSet(1 .. size) /\ Cardinality(1 .. size) = size
  BY <1>1, FS_Interval
<1> QED
  <2>1. ExistsBijection(1 .. size, Group)
    BY Zenon, <1>3 DEF ExistsBijection
  <2> QED
    BY ZenonT(30), <1>4, <2>1, FS_Bijection

\* StartMemtable: launching a parallel group makes its members run.
LEMMA StartMemtableIInv ==
  ASSUME IInv, StartMemtable
  PROVE  IInv'
<1>1. /\ phase = "memtable"
      /\ UNCHANGED <<opt, callbackOk, seq, queue, size, idx, nextSeq,
                     LastSequence, mem>>
      /\ \/ /\ phase' = "launched" /\ running' = size
            /\ pc' = [w \in Writers |-> IF w \in Group THEN "parallel" ELSE pc[w]]
         \/ phase' = "insert" /\ UNCHANGED <<running, pc>>
  BY Zenon DEF StartMemtable, dbVars
<1>2. /\ queue \in Seq(Writers) /\ size \in 0 .. Len(queue) /\ size \in Nat
      /\ pc \in [Writers -> {"new", "joined", "parallel", "inserted", "waiting",
                             "exiting", "returned"}]
  BY DEF IInv, Types
<1>3. Running = {}
  BY Zenon, <1>1 DEF IInv, RunningCounts
<1>4. Types'
  BY <1>1, <1>2 DEF IInv, Types
<1>5. QueueDistinct'
  BY <1>1, <1>2 DEF IInv, QueueDistinct
<1>6. LeaderAt'
  BY Zenon, <1>1 DEF IInv, LeaderAt, GroupPhases
<1>7. NumbersAssigned'
  BY Zenon, <1>1 DEF IInv, NumbersAssigned, Numbered, CallbackFailed, GroupPhases
<1>8. \A e \in mem : ~(e.seq > LastSequence)
  BY Zenon, <1>1 DEF IInv, KeysPlaced, KeyPhases
<1>9. KeysPlaced' /\ SequencesUnique'
  BY Zenon, <1>1, <1>8 DEF IInv, KeysPlaced, SequencesUnique
<1>10. RunningCounts'
  <2>1. CASE phase' = "launched"
    <3>1. Group \subseteq Writers
      BY <1>2 DEF Group
    <3>2. Running' = Group
      BY Zenon, <1>1, <1>2, <1>3, <2>1, <3>1 DEF Running
    <3>3. \A w \in Group : \E k \in 1 .. size : queue[k] = w
      BY Zenon DEF Group
    <3> QED
      BY Zenon, <1>1, <2>1, <3>2, <3>3, GroupSize DEF RunningCounts
  <2>2. CASE phase' = "insert"
    BY Zenon, <1>1, <1>3, <2>2, RunningUnchanged DEF RunningCounts
  <2> QED
    BY Zenon, <1>1, <2>1, <2>2
<1> QED
  BY Zenon, <1>4, <1>5, <1>6, <1>7, <1>9, <1>10 DEF IInv

\* What InsertBatch adds to the memtable.
LEMMA InsertBatchAdds ==
  ASSUME NEW w \in Writers, NEW s, opt[w].count \in Nat, InsertBatch(w, s)
  PROVE  \E new : new \subseteq Keys(w, opt[w].count) /\ mem' = mem \cup new
<1>1. CASE mem' = mem \cup Keys(w, opt[w].count)
  BY Zenon, <1>1
<1>2. ASSUME NEW n \in 0 .. opt[w].count - 1, mem' = mem \cup Keys(w, n)
      PROVE  \E new : new \subseteq Keys(w, opt[w].count) /\ mem' = mem \cup new
  <2>1. Keys(w, n) \subseteq Keys(w, opt[w].count)
    BY <1>2 DEF Keys
  <2> QED
    BY Zenon, <1>2, <2>1
<1> QED
  BY Zenon, <1>1, <1>2 DEF InsertBatch

\* InsertInto: the leader inserts the batch at idx.
LEMMA InsertIntoIInv ==
  ASSUME IInv, InsertInto
  PROVE  IInv' /\ \A e \in mem' \ mem : e.seq > LastSequence
<1> DEFINE w == queue[idx]
<1>1. /\ phase = "insert"
      /\ UNCHANGED <<pc, opt, callbackOk, seq, queue, size, running, nextSeq,
                     LastSequence>>
      /\ \/ idx < size /\ idx' = idx + 1 /\ phase' = "insert"
         \/ idx' = 1 /\ phase' = "paranoid"
  BY Zenon DEF InsertInto, groupVars
<1>2. \/ ShouldWriteToMemtable(w) /\ \E s : InsertBatch(w, s)
      \/ mem' = mem
  BY Zenon DEF InsertInto
<1>3. /\ idx \in 1 .. size /\ size \in Nat /\ queue \in Seq(Writers)
      /\ size <= Len(queue) /\ w \in Writers /\ opt \in [Writers -> Requests]
  BY <1>1 DEF IInv, Types, LeaderAt
<1>4. /\ mem' \subseteq [writer : Writers, seq : Nat]
      /\ KeysPlaced' /\ SequencesUnique'
      /\ \A e \in mem' \ mem : e.seq > LastSequence
  <2>1. CASE mem' = mem
    BY Zenon, <1>1, <2>1 DEF IInv, Types, KeysPlaced, SequencesUnique, KeyPhases,
                      Numbered, CallbackFailed
  <2>2. CASE ShouldWriteToMemtable(w) /\ \E s : InsertBatch(w, s)
    <3>1. opt[w].count \in Nat
      BY Zenon, <1>3, CountIsNat
    <3>2. PICK new : new \subseteq Keys(w, opt[w].count) /\ mem' = mem \cup new
      BY Zenon, <1>3, <2>2, <3>1, InsertBatchAdds
    <3> QED
      BY Zenon, <1>1, <1>3, <2>2, <3>2, InsertKeys DEF KeyPhases
  <2> QED
    BY Zenon, <1>2, <2>1, <2>2
<1>5. Types'
  BY <1>1, <1>3, <1>4 DEF IInv, Types
<1>6. QueueDistinct' /\ LeaderAt'
  <2>1. QueueDistinct'
    BY Zenon, <1>1 DEF IInv, QueueDistinct
  <2>2. LeaderAt'
    BY <1>1, <1>3 DEF IInv, LeaderAt, GroupPhases
  <2> QED
    BY Zenon, <2>1, <2>2
<1>7. NumbersAssigned'
  BY Zenon, <1>1 DEF IInv, NumbersAssigned, Numbered, CallbackFailed, GroupPhases
<1>8. RunningCounts'
  BY Zenon, <1>1, RunningUnchanged DEF IInv, RunningCounts
<1> QED
  BY Zenon, <1>4, <1>5, <1>6, <1>7, <1>8 DEF IInv

\* InsertParallel: a running member inserts its own batch, and runs on.
LEMMA InsertParallelIInv ==
  ASSUME IInv, NEW w \in Writers, InsertParallel(w)
  PROVE  IInv' /\ \A e \in mem' \ mem : e.seq > LastSequence
<1>1. /\ pc[w] = "parallel" /\ pc' = [pc EXCEPT ![w] = "inserted"]
      /\ UNCHANGED <<opt, callbackOk, seq, queue, size, running, idx, nextSeq,
                     LastSequence, phase>>
  BY Zenon DEF InsertParallel, groupVars, leaderVars
<1>2. \/ ShouldWriteToMemtable(w) /\ \E s : InsertBatch(w, s)
      \/ mem' = mem
  BY Zenon DEF InsertParallel
<1>3. /\ pc \in [Writers -> {"new", "joined", "parallel", "inserted", "waiting",
                             "exiting", "returned"}]
      /\ queue \in Seq(Writers) /\ size \in 0 .. Len(queue)
      /\ opt \in [Writers -> Requests]
  BY Zenon DEF IInv, Types
<1>4. w \in Running
  BY Zenon, <1>1 DEF Running
<1>5. phase = "launched"
  BY Zenon, <1>4 DEF IInv, RunningCounts
<1>6. PICK k \in 1 .. size : queue[k] = w
  BY Zenon, <1>4 DEF IInv, RunningCounts
<1>7. /\ mem' \subseteq [writer : Writers, seq : Nat]
      /\ KeysPlaced' /\ SequencesUnique'
      /\ \A e \in mem' \ mem : e.seq > LastSequence
  <2>1. CASE mem' = mem
    BY Zenon, <1>1, <2>1 DEF IInv, Types, KeysPlaced, SequencesUnique, KeyPhases,
                      Numbered, CallbackFailed
  <2>2. CASE ShouldWriteToMemtable(w) /\ \E s : InsertBatch(w, s)
    <3>1. opt[w].count \in Nat
      BY Zenon, <1>3, CountIsNat
    <3>2. PICK new : new \subseteq Keys(w, opt[w].count) /\ mem' = mem \cup new
      BY Zenon, <2>2, <3>1, InsertBatchAdds
    <3> QED
      BY Zenon, <1>1, <1>5, <1>6, <2>2, <3>2, InsertKeys DEF KeyPhases
  <2> QED
    BY Zenon, <1>2, <2>1, <2>2
<1>8. Types'
  BY Zenon, <1>1, <1>3, <1>7 DEF IInv, Types
<1>9. QueueDistinct'
  BY <1>1, <1>3 DEF IInv, QueueDistinct
<1>10. LeaderAt' /\ NumbersAssigned'
  BY ZenonT(30), <1>1 DEF IInv, LeaderAt, NumbersAssigned, Numbered, CallbackFailed
<1>11. Running' = Running
  BY Zenon, <1>1, <1>3 DEF Running
<1>12. RunningCounts'
  BY Zenon, <1>1, <1>11 DEF IInv, RunningCounts
<1> QED
  BY Zenon, <1>7, <1>8, <1>9, <1>10, <1>12 DEF IInv

\* CompleteParallelMemTableWriter: the running count tells the last one.
LEMMA CompleteIInv ==
  ASSUME IInv, NEW w \in Writers, CompleteParallelMemTableWriter(w)
  PROVE  IInv'
<1>1. /\ pc[w] = "inserted" /\ running' = running - 1
      /\ pc' = [pc EXCEPT ![w] = IF running = 1 THEN "exiting" ELSE "waiting"]
      /\ phase' = IF running = 1 THEN "publish" ELSE phase
      /\ UNCHANGED <<opt, callbackOk, seq, queue, size, idx, nextSeq,
                     LastSequence, mem>>
  BY Zenon DEF CompleteParallelMemTableWriter, IsLast, CountOut, dbVars
<1>2. /\ pc \in [Writers -> {"new", "joined", "parallel", "inserted", "waiting",
                             "exiting", "returned"}]
      /\ queue \in Seq(Writers) /\ size \in 0 .. Len(queue) /\ running \in Int
  BY Zenon DEF IInv, Types
<1>3. w \in Running
  BY Zenon, <1>1 DEF Running
<1>4. phase = "launched" /\ IsFiniteSet(Running) /\ running = Cardinality(Running)
  BY Zenon, <1>3 DEF IInv, RunningCounts
<1>5. Running' = Running \ {w}
  BY Zenon, <1>1, <1>2 DEF Running
<1>6. IsFiniteSet(Running') /\ Cardinality(Running') = running'
  BY Zenon, <1>1, <1>3, <1>4, <1>5, FS_RemoveElement
<1>7. Types'
  BY <1>1, <1>2 DEF IInv, Types
<1>8. QueueDistinct'
  BY <1>1, <1>2 DEF IInv, QueueDistinct
<1>9. LeaderAt'
  BY Zenon, <1>1, <1>4 DEF IInv, LeaderAt, GroupPhases
<1>10. NumbersAssigned'
  BY Zenon, <1>1, <1>4 DEF IInv, NumbersAssigned, Numbered, CallbackFailed, GroupPhases
<1>11. KeysPlaced' /\ SequencesUnique'
  BY Zenon, <1>1, <1>4 DEF IInv, KeysPlaced, SequencesUnique, KeyPhases, Numbered,
                    CallbackFailed
<1>12. RunningCounts'
  <2>1. \A v \in Running' : \E k \in 1 .. size : queue[k] = v
    BY Zenon, <1>5 DEF IInv, RunningCounts
  <2>2. CASE running = 1
    <3>1. Cardinality(Running') = 0
      BY <1>1, <1>6, <2>2
    <3>2. Running' = {}
      BY Zenon, <1>6, <3>1, FS_EmptySet
    <3> QED
      BY Zenon, <1>1, <2>2, <3>2 DEF RunningCounts
  <2>3. CASE running # 1
    BY Zenon, <1>1, <1>4, <1>6, <2>1, <2>3 DEF RunningCounts
  <2> QED
    BY Zenon, <2>2, <2>3
<1> QED
  BY Zenon, <1>7, <1>8, <1>9, <1>10, <1>11, <1>12 DEF IInv

\* SetLastSequence: all keys are published, and nobody inserts any more.
LEMMA SetLastSequenceIInv ==
  ASSUME IInv, SetLastSequence
  PROVE  IInv'
<1>1. /\ phase = "publish" /\ phase' = "check" /\ LastSequence' = nextSeq - 1
      /\ UNCHANGED <<pc, opt, callbackOk, seq, queue, size, running, idx,
                     nextSeq, mem>>
  BY Zenon DEF SetLastSequence, GroupLastSequence, writerVars, groupVars
<1>2. /\ nextSeq \in Nat /\ LastSequence \in Nat /\ nextSeq > LastSequence
      /\ mem \subseteq [writer : Writers, seq : Nat]
  BY Zenon, <1>1 DEF IInv, Types, LeaderAt
<1>3. Types'
  BY <1>1, <1>2 DEF IInv, Types
<1>4. QueueDistinct' /\ SequencesUnique'
  BY Zenon, <1>1 DEF IInv, QueueDistinct, SequencesUnique
<1>5. LeaderAt' /\ NumbersAssigned'
  BY Zenon, <1>1 DEF LeaderAt, NumbersAssigned, GroupPhases
<1>6. \A e \in mem : e.seq < nextSeq
  <2> SUFFICES ASSUME NEW e \in mem PROVE e.seq < nextSeq
    BY Zenon
  <2>1. e.seq \in Nat
    BY Zenon, <1>2
  <2>2. e.seq > LastSequence => e.seq < nextSeq
    BY Zenon DEF IInv, KeysPlaced
  <2> QED
    BY <1>2, <2>1, <2>2
<1>7. KeysPlaced'
  BY <1>1, <1>2, <1>6 DEF KeysPlaced
<1>8. RunningCounts'
  BY Zenon, <1>1, RunningUnchanged DEF IInv, RunningCounts
<1> QED
  BY Zenon, <1>3, <1>4, <1>5, <1>7, <1>8 DEF IInv

\* ExitAsBatchGroup: the group leaves the queue.
LEMMA ExitIInv ==
  ASSUME IInv, ExitAsBatchGroup
  PROVE  IInv'
<1>1. /\ phase = "exit" /\ phase' = "idle" /\ size' = 0
      /\ queue' = SubSeq(queue, size + 1, Len(queue))
      /\ pc' = [w \in Writers |-> IF w \in Group THEN "returned" ELSE pc[w]]
      /\ UNCHANGED <<opt, callbackOk, seq, running, idx, nextSeq, LastSequence,
                     mem>>
  BY Zenon DEF ExitAsBatchGroup, BehindGroup, dbVars
<1>2. /\ queue \in Seq(Writers) /\ size \in 0 .. Len(queue)
      /\ pc \in [Writers -> {"new", "joined", "parallel", "inserted", "waiting",
                             "exiting", "returned"}]
  BY Zenon DEF IInv, Types
<1>3. /\ queue' \in Seq(Writers) /\ Len(queue') = Len(queue) - size
      /\ \A k \in 1 .. Len(queue') : queue'[k] = queue[size + k]
  BY <1>1, <1>2
<1>4. Types'
  <2>1. size' \in 0 .. Len(queue')
    BY <1>1, <1>2, <1>3
  <2>2. pc' \in [Writers -> {"new", "joined", "parallel", "inserted", "waiting",
                             "exiting", "returned"}]
    BY Zenon, <1>1, <1>2
  <2> QED
    BY Zenon, <1>1, <1>3, <2>1, <2>2 DEF IInv, Types
<1>5. QueueDistinct'
  <2>1. \A k \in 1 .. Len(queue') : size + k \in 1 .. Len(queue)
    BY <1>2, <1>3
  <2>2. ASSUME NEW k \in 1 .. Len(queue')
        PROVE  queue'[k] \in Writers /\ pc[queue'[k]] # "new"
    <3>1. queue'[k] = queue[size + k] /\ size + k \in 1 .. Len(queue)
      BY Zenon, <1>3, <2>1
    <3>2. pc[queue[size + k]] # "new"
      BY Zenon, <3>1 DEF IInv, QueueDistinct
    <3>3. queue[size + k] \in Writers
      BY <1>2, <3>1
    <3> QED
      BY Zenon, <3>1, <3>2, <3>3
  <2>3. \A k \in 1 .. Len(queue') : pc'[queue'[k]] # "new"
    BY Zenon, <1>1, <2>2
  <2>4. ASSUME NEW j \in 1 .. Len(queue'), NEW k \in 1 .. Len(queue'),
               queue'[j] = queue'[k]
        PROVE  j = k
    <3>1. queue[size + j] = queue[size + k]
      BY Zenon, <1>3, <2>4
    <3>2. size + j = size + k
      BY Zenon, <2>1, <3>1 DEF IInv, QueueDistinct
    <3> QED
      BY <1>2, <1>3, <3>2
  <2> QED
    BY Zenon, <2>3, <2>4 DEF QueueDistinct
<1>6. LeaderAt' /\ NumbersAssigned'
  BY Zenon, <1>1 DEF LeaderAt, NumbersAssigned, GroupPhases
<1>7. \A e \in mem : ~(e.seq > LastSequence)
  BY Zenon, <1>1 DEF IInv, KeysPlaced, KeyPhases
<1>8. KeysPlaced' /\ SequencesUnique'
  BY Zenon, <1>1, <1>7 DEF IInv, KeysPlaced, SequencesUnique
<1>9. Running = {}
  BY Zenon, <1>1 DEF IInv, RunningCounts
<1>10. Running' = {}
  BY Zenon, <1>1, <1>2, <1>9 DEF Running
<1>11. RunningCounts'
  BY Zenon, <1>1, <1>10 DEF RunningCounts
<1> QED
  BY Zenon, <1>4, <1>5, <1>6, <1>8, <1>11 DEF IInv

-----------------------------------------------------------------------------
\* Every step preserves the invariant.
LEMMA NextIInv == IInv /\ [Next]_vars => IInv'
<1> SUFFICES ASSUME IInv, [Next]_vars PROVE IInv'
  BY Zenon
<1>1. CASE \E w \in Writers : JoinBatchGroup(w)
  BY Zenon, <1>1, JoinIInv
<1>2. CASE EnterAsBatchGroupLeader
  BY Zenon, <1>2, EnterIInv
<1>3. CASE CheckCallback
  BY Zenon, <1>3, CheckCallbackIInv
<1>4. CASE StartMemtable
  BY Zenon, <1>4, StartMemtableIInv
<1>5. CASE InsertInto
  BY Zenon, <1>5, InsertIntoIInv
<1>6. CASE \E w \in Writers : InsertParallel(w)
  BY Zenon, <1>6, InsertParallelIInv
<1>7. CASE \E w \in Writers : CompleteParallelMemTableWriter(w)
  BY Zenon, <1>7, CompleteIInv
<1>8. CASE SetLastSequence
  BY Zenon, <1>8, SetLastSequenceIInv
<1>9. CASE ExitAsBatchGroup
  BY Zenon, <1>9, ExitIInv
<1>10. CASE \/ PreprocessWrite \/ AddRecord \/ SyncLogs \/ ParanoidCheck
            \/ MemTableInsertStatusCheck \/ BackgroundError \/ UNCHANGED vars
  BY Zenon, <1>10, QuietSteps
<1> QED
  BY Zenon, <1>1, <1>2, <1>3, <1>4, <1>5, <1>6, <1>7, <1>8, <1>9, <1>10
     DEF Next, Step

\* A count of one leaves one writer.
LEMMA LastOne == IInv => OneLeft
<1> SUFFICES ASSUME IInv, running = 1, phase = "launched" PROVE \A v, w \in Running : v = w
  BY Zenon DEF OneLeft
<1>1. IsFiniteSet(Running) /\ Cardinality(Running) = 1
  BY Zenon DEF IInv, RunningCounts
<1>2. PICK x : Running = {x}
  BY Zenon, <1>1, FS_Singleton
<1> QED
  BY Zenon, <1>2

\* No step inserts a key at or below the published sequence number.
LEMMA NextStable ==
  ASSUME IInv, [Next]_vars
  PROVE  \A e \in mem' \ mem : e.seq > LastSequence
<1>1. CASE InsertInto
  BY Zenon, <1>1, InsertIntoIInv
<1>2. CASE \E w \in Writers : InsertParallel(w)
  BY Zenon, <1>2, InsertParallelIInv
<1>3. CASE ~InsertInto /\ ~\E w \in Writers : InsertParallel(w)
  <2>1. mem' = mem
    BY Zenon, <1>3 DEF Next, Step, JoinBatchGroup, PreprocessWrite,
      EnterAsBatchGroupLeader, CheckCallback, AddRecord, SyncLogs,
      StartMemtable, CompleteParallelMemTableWriter, ParanoidCheck,
      SetLastSequence, MemTableInsertStatusCheck, ExitAsBatchGroup,
      BackgroundError, vars, dbVars
  <2> QED
    BY Zenon, <2>1
<1> QED
  BY Zenon, <1>1, <1>2, <1>3

\* The types of what WriteImpl numbers and inserts with: in particular the
\* group never outgrows the queue (size), and every number given out is natural.
THEOREM TypesCorrect == Spec => []Types
<1>1. IInv => Types
  BY Zenon DEF IInv
<1> QED
  BY InitIInv, NextIInv, <1>1, PTL DEF Spec

\* No two keys in the memtable have the same sequence number, whatever groups
\* WriteImpl forms and however their parallel inserts interleave.
THEOREM NumbersDistinct == Spec => []SequencesUnique
<1>1. IInv => SequencesUnique
  BY Zenon DEF IInv
<1> QED
  BY InitIInv, NextIInv, <1>1, PTL DEF Spec

\* A published snapshot never changes: members of a parallel group insert only
\* above LastSequence, and SetLastSequence comes after the last of them.
THEOREM SnapshotsStable == Spec => SnapshotStable
<1>1. IInv /\ [Next]_vars =>
        [\A e \in mem' \ mem : e.seq > LastSequence]_vars
  BY Zenon, NextStable
<1> QED
  BY InitIInv, NextIInv, <1>1, PTL DEF Spec, SnapshotStable
=============================================================================
