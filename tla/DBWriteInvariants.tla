------------------------- MODULE DBWriteInvariants --------------------------
(***************************************************************************)
(* The inductive invariants of DBWrite, for the proofs of DBWriteProofs,   *)
(* DBWriteGroupProofs and DBWriteAckProofs.                                *)
(*                                                                         *)
(* IInv says which numbers the members of the group in progress have       *)
(* (NumbersAssigned), that the keys above LastSequence are theirs          *)
(* (KeysPlaced), and, for parallel groups, that the sequence is published  *)
(* only when nobody inserts any more, which rests on what                  *)
(* WriteGroup::running counts (RunningCounts).                             *)
(*                                                                         *)
(* A call gets its result from the writer that lets its group go, which    *)
(* knows of the others by WriteGroup::status and Writer::status alone.     *)
(* GInv says what these tell about the memtable (Inserted) and the log     *)
(* (Logged) at every point of the group's way, and Kept what a call that   *)
(* has returned was promised.                                              *)
(***************************************************************************)
EXTENDS DBWrite, Integers

Types ==
  /\ pc \in [Writers -> {"new", "joined", "parallel", "inserted", "waiting",
                         "exiting", "returned"}]
  /\ opt \in [Writers -> Requests]
  /\ callbackOk \in [Writers -> BOOLEAN]
  /\ seq \in [Writers -> Nat]
  /\ queue \in Seq(Writers)
  /\ size \in 0 .. Len(queue)
  /\ running \in Int
  /\ idx \in Nat \ {0}
  /\ nextSeq \in Nat
  /\ LastSequence \in Nat
  /\ mem \subseteq [writer : Writers, seq : Nat]

\* A writer is linked once, from its LinkOne on.
QueueDistinct ==
  /\ \A k \in 1 .. Len(queue) : pc[queue[k]] # "new"
  /\ \A j, k \in 1 .. Len(queue) : queue[j] = queue[k] => j = k

\* The phases with a group whose keys may not have been published.
GroupPhases == {"callbacks", "wal", "sync", "memtable", "insert", "launched"}
KeyPhases == {"insert", "launched", "paranoid", "publish"}

\* Where the leader's loops are.
LeaderAt ==
  /\ phase \in {"idle", "enter"} => size = 0
  /\ phase \in {"callbacks", "insert"} => idx <= size
  /\ phase \in {"wal", "sync", "memtable"} => idx = 1 /\ size >= 1
  /\ phase = "enter" => nextSeq = LastSequence + 1
  /\ phase \in GroupPhases \cup {"paranoid", "publish"} => nextSeq > LastSequence

\* The k-th writer of the group has got its sequence number.
Numbered(k) ==
  /\ phase = "callbacks" => k < idx
  /\ ~CallbackFailed(queue[k]) /\ ~opt[queue[k]].disableMemtable

\* The numbered members have disjoint ranges between LastSequence and nextSeq.
NumbersAssigned ==
  phase \in GroupPhases =>
    \A k \in 1 .. size : Numbered(k) =>
      /\ seq[queue[k]] > LastSequence
      /\ seq[queue[k]] + opt[queue[k]].count <= nextSeq
      /\ \A j \in 1 .. k - 1 : Numbered(j) =>
           seq[queue[j]] + opt[queue[j]].count <= seq[queue[k]]

\* A key above LastSequence was inserted by a numbered member of the group in
\* progress, from its range.
KeysPlaced ==
  \A e \in mem : e.seq > LastSequence =>
    /\ phase \in KeyPhases
    /\ e.seq < nextSeq
    /\ phase \in {"insert", "launched"} =>
         \E k \in 1 .. size : /\ e.writer = queue[k]
                              /\ Numbered(k)
                              /\ seq[queue[k]] <= e.seq
                              /\ e.seq < seq[queue[k]] + opt[queue[k]].count

\* The writers that WriteGroup::running counts.
Running == {w \in Writers : pc[w] \in {"parallel", "inserted"}}

RunningCounts ==
  /\ Running # {} => phase = "launched"
  /\ \A w \in Running : \E k \in 1 .. size : queue[k] = w
  /\ phase = "launched" => IsFiniteSet(Running) /\ running = Cardinality(Running)

IInv ==
  /\ Types /\ QueueDistinct /\ LeaderAt
  /\ NumbersAssigned /\ KeysPlaced /\ RunningCounts
  /\ SequencesUnique

\* The last writer that WriteGroup::running counts is the only one.
OneLeft == running = 1 /\ phase = "launched" => \A v, w \in Running : v = w

-----------------------------------------------------------------------------
DonePhases == {"paranoid", "publish", "check", "exit"}

Records == [seq : Nat, batches : UNION {[S -> Writers] : S \in SUBSET Nat}]

MoreTypes ==
  /\ status \in [Writers -> {"OK", "Corruption"}]
  /\ ledBy \in [Writers -> Writers]
  /\ ret \in [Writers -> Statuses \cup {"none"}]
  /\ groupStatus \in {"OK", "Corruption"}
  /\ phase \in {"idle", "enter"} \cup GroupPhases \cup DonePhases
  /\ leaderStatus \in {"OK", "IOError", "BgError", "Incomplete"}
  /\ parallel \in BOOLEAN
  /\ wal \in Seq(Records)
  /\ synced \in 0 .. Len(wal)
  /\ bgError \in BOOLEAN

\* The group has got to its end without a failure before the memtable.
WentThrough == phase \in DonePhases /\ leaderStatus = "OK"

\* w's keys belong in the memtable; and are there.
Takes(w) == ~CallbackFailed(w) /\ ~opt[w].disableMemtable
InMem(w) == Keys(w, opt[w].count) \subseteq mem

InRecord(w, i) == \E j \in DOMAIN wal[i].batches : wal[i].batches[j] = w

\* The writer that lets the group go, as Exiter chooses it.
IsExiter(w) ==
  /\ w \in Group
  /\ IF \E v \in Group : pc[v] = "exiting" THEN pc[w] = "exiting" ELSE w = queue[1]

\* Where the writers of the queue and of the group are.
QueueAt ==
  /\ \A k \in 1 .. Len(queue) :
       /\ pc[queue[k]] # "returned"
       /\ k > size \/ phase \in GroupPhases \ {"launched"} => status[queue[k]] = "OK"
  /\ \A w \in Writers : pc[w] = "exiting" =>
       /\ phase \in {"publish", "check", "exit"}
       /\ \E k \in 1 .. size : queue[k] = w
       /\ \A v \in Writers : pc[v] = "exiting" => v = w
  /\ \A w \in Writers : pc[w] = "new" => status[w] = "OK"
  /\ phase = "launched" =>
       \A k \in 1 .. size : pc[queue[k]] \in {"parallel", "inserted", "waiting"}

\* The leader works for its whole group, as long as nothing failed.
GroupLed ==
  /\ phase \in GroupPhases => leaderStatus = "OK"
  /\ phase \in GroupPhases \cup DonePhases =>
       /\ size >= 1
       /\ \A k \in 1 .. size : /\ ledBy[queue[k]] = queue[1]
                               /\ k > 1 => MayFollow(queue[k], queue[1])

\* What the statuses tell about the memtable.
Inserted ==
  /\ phase = "insert" =>
       \A k \in 1 .. idx - 1 : Takes(queue[k]) => InMem(queue[k])
  /\ phase = "launched" =>
       \A k \in 1 .. size :
         /\ pc[queue[k]] # "parallel" /\ Takes(queue[k]) /\ status[queue[k]] = "OK"
              => InMem(queue[k])
         /\ pc[queue[k]] = "waiting" /\ groupStatus = "OK" => status[queue[k]] = "OK"
  /\ WentThrough =>
       /\ \A w \in Writers : IsExiter(w) /\ status[w] = "OK" =>
            \A k \in 1 .. size : Takes(queue[k]) => InMem(queue[k])
       /\ Takes(queue[1]) /\ status[queue[1]] = "OK" => InMem(queue[1])

\* The numbers of the group are all below what is published for it.
Published ==
  /\ WentThrough =>
       \A k \in 1 .. size :
         Takes(queue[k]) => seq[queue[k]] + opt[queue[k]].count <= nextSeq
  /\ phase \in {"check", "exit"} => LastSequence = nextSeq - 1

\* The batches that ask for the log are in it from AddRecord on, and synced
\* from SyncLogs on.
Logged ==
  phase \in {"sync", "memtable", "insert", "launched"} \/ WentThrough =>
    \A k \in 1 .. size :
      ~CallbackFailed(queue[k]) /\ ~opt[queue[k]].disableWAL =>
        \E i \in DOMAIN wal : /\ InRecord(queue[k], i)
                              /\ opt[queue[k]].sync /\ phase # "sync" => i <= synced

\* The log has no batch of a writer that is not yet so far.
LogWriters ==
  \A i \in DOMAIN wal, w \in Writers : InRecord(w, i) =>
    /\ ~CallbackFailed(w)
    /\ \/ pc[w] = "returned"
       \/ /\ phase \in {"sync", "memtable", "insert", "launched"} \cup DonePhases
          /\ leaderStatus \in {"OK", "IOError"}
          /\ \E k \in 1 .. size : queue[k] = w

\* A failure of the log, or one that the exiter knows of, sets bg_error_.
FailureStops ==
  /\ phase \in {"publish", "check", "exit"} /\ leaderStatus = "IOError"
     /\ ParanoidChecks /\ ~CallbackFailed(queue[1]) => bgError
  /\ phase = "exit" =>
       \A w \in Writers : IsExiter(w) /\ status[w] # "OK" => bgError

\* A call that has returned is over, and so is that of its leader.
ReturnedAt ==
  \A w \in Writers : /\ pc[w] # "returned" => ret[w] = "none"
                     /\ pc[w] = "returned" => pc[ledBy[w]] = "returned"

GInv ==
  /\ MoreTypes /\ QueueAt /\ GroupLed /\ Inserted /\ Published /\ Logged
  /\ LogWriters /\ FailureStops /\ ReturnedAt

-----------------------------------------------------------------------------
Kept(w) ==
  /\ ret[w] = "OK" /\ LeaderWentThrough(w) =>
       /\ ~opt[w].disableMemtable => Applied(w)
       /\ ~opt[w].disableWAL =>
            \E i \in DOMAIN wal : InRecord(w, i) /\ (opt[w].sync => i <= synced)
  /\ /\ ParanoidChecks /\ ~opt[w].disableMemtable /\ ~CallbackFailed(ledBy[w])
     /\ \E i \in DOMAIN wal : InRecord(w, i)
     /\ ~Applied(w)
     => bgError

AllKept == \A w \in Writers : pc[w] = "returned" => Kept(w)
=============================================================================
