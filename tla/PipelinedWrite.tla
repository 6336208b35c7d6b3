--------------------------- MODULE PipelinedWrite ---------------------------
(***************************************************************************)
(* Writes with enable_pipelined_write: DBImpl::PipelinedWriteImpl          *)
(* (db/db_impl_write.cc) over the two lists of WriteThread                 *)
(* (db/write_thread.cc). The leader of the first list writes the WAL for   *)
(* its group, moves the group to the second list and hands the lead over;  *)
(* the leader of the second list inserts into the memtable, or has its     *)
(* group insert in parallel. So a group is in the memtable stage while the *)
(* next one is in the log stage.                                           *)
(*                                                                         *)
(* A Writer lives on the stack of its thread for one call and the next     *)
(* call puts a new one at the same address, so it is named by its thread.  *)
(* One action is one access to shared memory with the private work around  *)
(* it. A loop around a compare-and-swap that pushes onto a list is one     *)
(* atomic push: its failed turns change nothing (WriteThread has them).    *)
(***************************************************************************)
EXTENDS Naturals, Sequences, FiniteSets, SequencesExt

CONSTANTS
  Threads,
  Dummy,        \* the Writer on the stack of WaitForMemTableWriters
  Null,         \* nullptr
  Requests,     \* what each thread may ask for, see RequestsAssumption
  Faults,       \* what may fail: "preprocess", "wal", "insert"
  Concurrency,  \* the values of options.allow_concurrent_memtable_write
  MergeReads,   \* max_successive_merges > 0: inserting a merge operand calls
                \* DB::Get, which has to lock the db mutex
  MaxCalls      \* bound: calls of each thread

Writers == Threads \cup {Dummy}

ASSUME RequestsAssumption ==
  \A t \in Threads :
    Requests[t] \subseteq [batch : BOOLEAN,      \* FALSE: EnterUnbatched
                           callback : {"none", "batching", "alone"},
                           disableMemtable : BOOLEAN, disableWAL : BOOLEAN,
                           merge : BOOLEAN, count : Nat \ {0}]

VARIABLES
  newest_writer,           \* WriteThread::newest_writer_
  newest_memtable_writer,  \* WriteThread::newest_memtable_writer_
  last_sequence,           \* WriteThread::last_sequence_
  writer,                  \* the Writer objects
  group,                   \* the WriteGroup on the stack of each thread
  call,                    \* the call of each thread
  mutex,                   \* who holds the db mutex
  LastSequence,            \* VersionSet::last_sequence_
  mem,                     \* the memtable: who wrote which sequence number
  wal,                     \* the writers whose batch is in the log
  bg_error,                \* ~bg_error_.ok()
  Concurrent               \* options.allow_concurrent_memtable_write

lists == <<newest_writer, newest_memtable_writer>>
db == <<LastSequence, mem, wal, bg_error>>
vars == <<lists, last_sequence, writer, group, call, mutex, db, Concurrent>>

NewWriter ==
  [link_older |-> Null, link_newer |-> Null, state |-> "INIT",
   write_group |-> Null, status |-> "OK", callback_failed |-> FALSE,
   sequence |-> 0]

\* WriteGroup, and with it end: the local variable last_writer of
\* ExitAsBatchGroupLeader, which is not changed when the last follower leaves.
NewGroup ==
  [leader |-> Null, last_writer |-> Null, end |-> Null, size |-> 0,
   running |-> 0, status |-> "OK", last_sequence |-> 0]

Init ==
  /\ newest_writer = Null
  /\ newest_memtable_writer = Null
  /\ last_sequence = 0
  /\ writer = [w \in Writers |-> NewWriter]
  /\ group = [t \in Threads |-> NewGroup]
  /\ call = [t \in Threads |->
               [pc |-> "out", opt |-> CHOOSE r \in Requests[t] : TRUE,
                cur |-> Null, resume |-> "out", begun |-> 0, ret |-> "none"]]
  /\ mutex = Null
  /\ LastSequence = 1   \* a database that was opened with data
  /\ mem = {}
  /\ wal = {}
  /\ bg_error = FALSE
  /\ Concurrent \in Concurrency

pc(t) == call[t].pc
opt(t) == call[t].opt
Goto(t, point) == call' = [call EXCEPT ![t].pc = point]
SetState(w, s) == writer' = [writer EXCEPT ![w].state = s]

\* Writer::ShouldWriteToMemtable, ShouldWriteToWAL, FinalStatus
ShouldWriteToMemtable(w) ==
  writer[w].status = "OK" /\ ~writer[w].callback_failed /\ ~opt(w).disableMemtable
ShouldWriteToWAL(w) ==
  writer[w].status = "OK" /\ ~writer[w].callback_failed /\ ~opt(w).disableWAL
FinalStatus(w) ==
  IF writer[w].status # "OK" THEN writer[w].status
  ELSE IF writer[w].callback_failed THEN "Busy" ELSE "OK"

\* The call returns and its Writer is gone, with a last change to the others.
Return(t, others) ==
  /\ call' = [call EXCEPT ![t].pc = "out", ![t].cur = Null,
                          ![t].ret = FinalStatus(t)]
  /\ writer' = [others EXCEPT ![t] =
                  [NewWriter EXCEPT !.sequence = writer[t].sequence]]
  /\ group' = [group EXCEPT ![t] = NewGroup]

RECURSIVE Linked(_, _)
\* CreateMissingNewerLinks: the writers after walking link_older from head up
\* to one that has its link_newer already.
Linked(head, ws) ==
  LET next == ws[head].link_older IN
  IF next = Null \/ ws[next].link_newer # Null THEN ws
  ELSE Linked(next, [ws EXCEPT ![next].link_newer = head])

RECURSIVE Path(_, _, _)
\* The writers from a to b along link_newer.
Path(a, b, ws) ==
  IF a = b THEN <<a>> ELSE <<a>> \o Path(ws[a].link_newer, b, ws)

Batch(w) == w # Dummy /\ opt(w).batch

\* The members of a group, oldest first: WriteGroup::Iterator.
Members(g) == Path(g.leader, g.last_writer, writer)

\* The writer behind w is cut off from it and told to lead.
MakeLeader(ws, w, s) ==
  [ws EXCEPT ![ws[w].link_newer].link_older = Null,
             ![ws[w].link_newer].state = s]

-----------------------------------------------------------------------------
(* The first list.                                                         *)

\* A call begins with a new Writer, and LinkOne pushes it. An empty list makes
\* it the leader, which JoinBatchGroup notes in its state and EnterUnbatched
\* does not.
LinkOne(t) ==
  /\ pc(t) = "out"
  /\ call[t].begun < MaxCalls
  /\ \E r \in Requests[t] :
       /\ call' = [call EXCEPT
            ![t].pc = IF newest_writer = Null THEN "leader" ELSE "await",
            ![t].opt = r, ![t].begun = @ + 1, ![t].ret = "none"]
       /\ writer' = [writer EXCEPT ![t] = [NewWriter EXCEPT
            !.link_older = newest_writer,
            !.state = IF newest_writer = Null /\ r.batch THEN "LEADER" ELSE "INIT"]]
  /\ newest_writer' = t
  /\ UNCHANGED <<newest_memtable_writer, last_sequence, group, mutex, db>>

\* The AwaitState of JoinBatchGroup and EnterUnbatched ("await"), of
\* ExitAsBatchGroupLeader ("exited") and of CompleteParallelMemTableWriter
\* ("finished"). The call returns when its state is COMPLETED.
AwaitState(t) ==
  LET s == writer[t].state IN
  /\ \/ /\ \/ pc(t) = "await" /\ s = "LEADER" /\ Goto(t, "leader")
           \/ pc(t) \in {"await", "exited"} /\ s = "MEMLEADER" /\ Goto(t, "memleader")
           \/ pc(t) \in {"await", "exited"} /\ s = "PARALLEL" /\ Goto(t, "insert")
        /\ UNCHANGED <<writer, group>>
     \/ /\ pc(t) \in {"await", "exited", "finished"} /\ s = "COMPLETED"
        /\ Return(t, writer)
  /\ UNCHANGED <<lists, last_sequence, mutex, db>>

-----------------------------------------------------------------------------
(* WaitForMemTableWriters, called by the leader of the first list, which   *)
(* goes on at the point resume.                                            *)

\* It returns if the second list is empty, else it pushes a Writer of its own.
WaitForMemTableWriters(t) ==
  /\ pc(t) = "wait"
  /\ IF newest_memtable_writer = Null
     THEN Goto(t, call[t].resume) /\ UNCHANGED <<newest_memtable_writer, writer>>
     ELSE /\ writer' = [writer EXCEPT ![Dummy] =
                          [NewWriter EXCEPT !.link_older = newest_memtable_writer]]
          /\ newest_memtable_writer' = Dummy
          /\ Goto(t, "waiting")
  /\ UNCHANGED <<newest_writer, last_sequence, group, mutex, db>>

\* When it is the oldest one: newest_memtable_writer_.store(nullptr)
MemTableWritersDone(t) ==
  /\ pc(t) = "waiting"
  /\ writer[Dummy].state = "MEMLEADER" \/ writer[Dummy].link_older = Null
  /\ newest_memtable_writer' = Null
  /\ writer' = [writer EXCEPT ![Dummy] = NewWriter]
  /\ Goto(t, call[t].resume)
  /\ UNCHANGED <<newest_writer, last_sequence, group, mutex, db>>

-----------------------------------------------------------------------------
(* The log stage.                                                          *)

\* The leader waits for the memtable writers if its callback may not be
\* batched, as EnterUnbatched always does.
Lead(t) ==
  /\ pc(t) = "leader"
  /\ call' = [call EXCEPT
       ![t].pc = IF opt(t).callback = "alone" \/ ~Batch(t) THEN "wait" ELSE "lock",
       ![t].resume = "lock"]
  /\ UNCHANGED <<lists, last_sequence, writer, group, mutex, db>>

\* PreprocessWrite returns and a writer with a batch forms its group.
Preprocessed(t) ==
  /\ Batch(t)
  /\ \E s \in (IF "preprocess" \in Faults THEN {"IOError"} ELSE {}) \cup
              (IF bg_error THEN {"BgError"} ELSE {"OK"}) :
       writer' = [writer EXCEPT ![t].status = s]
  /\ Goto(t, "enter")
  /\ UNCHANGED <<newest_writer, group>>

\* ExitUnbatched: the writer behind is made the leader, and the call is over.
ExitUnbatched(t) ==
  /\ ~Batch(t)
  /\ IF newest_writer = t
     THEN newest_writer' = Null /\ Return(t, writer)
     ELSE /\ Return(t, MakeLeader(Linked(newest_writer, writer), t, "LEADER"))
          /\ UNCHANGED newest_writer

\* Mutant: SwitchMemtable does not wait for memtable writers.
BeforeSwitchNothing == "switch"

\* Where SwitchMemtable begins.
BeforeSwitch == "wait"

\* The leader locks the mutex. PreprocessWrite, or what an unbatched leader
\* has to do, may involve SwitchMemtable, which waits for the memtable writers
\* with the mutex held.
PreprocessWrite(t) ==
  /\ pc(t) = "lock"
  /\ mutex = Null
  /\ \/ (Preprocessed(t) \/ ExitUnbatched(t)) /\ UNCHANGED mutex
     \/ /\ mutex' = t
        /\ call' = [call EXCEPT ![t].pc = BeforeSwitch, ![t].resume = "switch"]
        /\ UNCHANGED <<newest_writer, writer, group>>
  /\ UNCHANGED <<newest_memtable_writer, last_sequence, db>>

\* SwitchMemtable installs an empty memtable, and the mutex is released.
SwitchMemtable(t) ==
  /\ pc(t) = "switch"
  /\ mutex' = Null
  /\ Preprocessed(t) \/ ExitUnbatched(t)
  /\ UNCHANGED <<newest_memtable_writer, last_sequence, db>>

\* The tests of EnterAsBatchGroupLeader that end the group before w.
MayFollow(w, leader) ==
  /\ Batch(w)
  /\ opt(leader).disableWAL => opt(w).disableWAL
  /\ opt(w).callback # "alone"

\* EnterAsBatchGroupLeader: the leader and writers that follow it, up to
\* newest_writer_ as read here or any earlier one (sizes are left out).
EnterAsBatchGroupLeader(t) ==
  LET ws == Linked(newest_writer, writer)
      path == Path(t, newest_writer, ws) IN
  /\ pc(t) = "enter"
  /\ \E n \in 1 .. Len(path) :
       /\ \A k \in 2 .. n : MayFollow(path[k], t)
       /\ group' = [group EXCEPT ![t] = [NewGroup EXCEPT !.leader = t,
                      !.last_writer = path[n], !.end = path[n], !.size = n]]
       /\ writer' = [w \in Writers |->
            IF w \in ToSet(SubSeq(path, 1, n))
            THEN [ws[w] EXCEPT !.write_group = t] ELSE ws[w]]
  /\ Goto(t, "wal")
  /\ UNCHANGED <<lists, last_sequence, mutex, db>>

\* write_thread_.UpdateLastSequence(versions_->LastSequence()) + 1
CurrentSequence ==
  (IF LastSequence > last_sequence THEN LastSequence ELSE last_sequence) + 1

\* How many sequence numbers a sequence of writers takes
Count(ws) == FoldLeft(LAMBDA n, w : n + opt(w).count, 0, ws)

\* The callbacks of the group are asked, and the batches for the memtable get
\* their sequence numbers. Then WriteToWAL, if the leader itself has something
\* for the log, and ParanoidCheck (with paranoid_checks) of its status.
WriteToWAL(t) ==
  LET path == Members(group[t])
      asked == {w \in ToSet(path) : opt(w).callback # "none"} IN
  /\ pc(t) = "wal"
  /\ \E fails \in IF writer[t].status = "OK" THEN SUBSET asked ELSE {{}},
        s \in {writer[t].status} \cup (IF "wal" \in Faults THEN {"IOError"} ELSE {}) :
     LET takes(w) == w \notin fails /\ ~opt(w).disableMemtable
         before(w) == SelectSeq(SubSeq(path, 1, SelectInSeq(path, LAMBDA v : v = w) - 1),
                                takes)
         logs == writer[t].status = "OK" /\ t \notin fails /\ ~opt(t).disableWAL
         logged == {w \in ToSet(path) \ fails : ~opt(w).disableWAL} IN
       /\ s # writer[t].status => logs
       /\ writer' = [w \in Writers |->
            IF w \notin ToSet(path) \/ writer[t].status # "OK" THEN writer[w]
            ELSE [writer[w] EXCEPT
                    !.callback_failed = w \in fails,
                    !.status = IF w = t THEN s ELSE @,
                    !.sequence = IF takes(w) THEN CurrentSequence + Count(before(w))
                                 ELSE @]]
       /\ last_sequence' = CurrentSequence - 1 +
            (IF writer[t].status = "OK" THEN Count(SelectSeq(path, takes)) ELSE 0)
       /\ wal' \in (IF ~logs THEN {wal} ELSE IF s = "OK" THEN {wal \cup logged}
                    ELSE {wal, wal \cup logged})
       /\ bg_error' = (bg_error \/ (s # "OK" /\ t \notin fails))
  /\ call' = [call EXCEPT ![t].pc = "exit", ![t].cur = group[t].last_writer]
  /\ UNCHANGED <<lists, group, mutex, LastSequence, mem>>

-----------------------------------------------------------------------------
(* ExitAsBatchGroupLeader: the group moves to the second list.             *)

\* CompleteFollower: w, with its new fields, leaves the group.
CompleteFollower(t, w, ws) ==
  LET older == ws[w].link_older
      newer == ws[w].link_newer IN
  IF w = group[t].last_writer
  THEN /\ writer' = [ws EXCEPT ![older].link_newer = Null, ![w].state = "COMPLETED"]
       /\ group' = [group EXCEPT ![t].last_writer = older, ![t].size = @ - 1]
  ELSE /\ writer' = [ws EXCEPT ![older].link_newer = newer,
                               ![newer].link_older = older,
                               ![w].state = "COMPLETED"]
       /\ group' = [group EXCEPT ![t].size = @ - 1]

\* One turn of the loop over the followers, newest first: each gets the status
\* of the log stage, and the ones with nothing for the memtable are done.
ExitFollower(t) ==
  LET w == call[t].cur
      ws == [writer EXCEPT ![w].status = writer[t].status] IN
  /\ pc(t) = "exit"
  /\ w # t
  /\ IF ws[w].status = "OK" /\ ~ws[w].callback_failed /\ ~opt(w).disableMemtable
     THEN writer' = ws /\ UNCHANGED group
     ELSE CompleteFollower(t, w, ws)
  /\ call' = [call EXCEPT ![t].cur = writer[w].link_older]
  /\ UNCHANGED <<lists, last_sequence, mutex, db>>

\* Mutant: the leader of the log stage is told to lead, as without pipelining.
MemTableLeaderSelf(t, g) == t

\* "The leader can now be different from current writer."
MemTableLeader(t, g) == g.leader

\* CompleteLeader, if the leader has nothing for the memtable; then LinkGroup
\* pushes what is left of the group onto the second list and unsets its newer
\* links. If that list was empty the group's leader, who need not be t, is
\* told to lead there.
ExitLeader(t) ==
  LET stays == ShouldWriteToMemtable(t)
      g == IF stays THEN group[t]
           ELSE [group[t] EXCEPT !.leader = writer[t].link_newer, !.size = @ - 1]
      left == IF g.size = 0 THEN {} ELSE ToSet(Members(g)) IN
  /\ pc(t) = "exit"
  /\ call[t].cur = t
  /\ writer' = [w \in Writers |->
       IF w \in left
       THEN [writer[w] EXCEPT
               !.link_newer = Null, !.write_group = Null,
               !.link_older = IF w = g.leader THEN newest_memtable_writer ELSE @,
               !.state = IF w = MemTableLeader(t, g) /\ newest_memtable_writer = Null
                         THEN "MEMLEADER" ELSE @]
       ELSE IF w = t THEN [writer[t] EXCEPT !.state = "COMPLETED"]
       ELSE writer[w]]
  /\ newest_memtable_writer' =
       IF g.size = 0 THEN newest_memtable_writer ELSE g.last_writer
  /\ Goto(t, "handover")
  /\ UNCHANGED <<newest_writer, last_sequence, group, mutex, db>>

RECURSIVE NextLeader(_, _)
\* The writer behind last, found by walking link_older from n.
NextLeader(n, last) ==
  IF writer[n].link_older = last THEN n ELSE NextLeader(writer[n].link_older, last)

\* The lead of the first list is handed over, by the address of last_writer,
\* whose call may have returned by now. Then the leader waits for its memtable
\* stage.
Handover(t) ==
  LET last == group[t].end IN
  /\ pc(t) = "handover"
  /\ IF newest_writer = last
     THEN newest_writer' = Null /\ UNCHANGED writer
     ELSE LET next == NextLeader(newest_writer, last) IN
          /\ writer' = [writer EXCEPT ![next].link_older = Null,
                                      ![next].state = "LEADER"]
          /\ UNCHANGED newest_writer
  /\ group' = [group EXCEPT ![t] = NewGroup]
  /\ call' = [call EXCEPT ![t].pc = "exited", ![t].cur = Null]
  /\ UNCHANGED <<newest_memtable_writer, last_sequence, mutex, db>>

-----------------------------------------------------------------------------
(* The memtable stage.                                                     *)

\* The tests of EnterAsMemTableWriter that end the group before w.
MayJoinMemTableGroup(w) == Batch(w) /\ ~opt(w).merge

\* The first n of the writers may be the group: as many as may join when they
\* insert concurrently, else up to a limit on sizes.
MemTableGroup(path, n) ==
  LET fit(k) == \A i \in 2 .. k : MayJoinMemTableGroup(path[i]) IN
  /\ fit(n)
  /\ Concurrent /\ n < Len(path) => ~fit(n + 1)

\* EnterAsMemTableWriter, and LaunchParallelMemTableWriters for a group of
\* several (WriteThread has it step by step). A leader with a merge is alone
\* when inserts are concurrent.
EnterAsMemTableWriter(t) ==
  LET alone == Concurrent /\ opt(t).merge
      ws == IF alone THEN writer ELSE Linked(newest_memtable_writer, writer)
      path == IF alone THEN <<t>> ELSE Path(t, newest_memtable_writer, ws) IN
  /\ pc(t) = "memleader"
  /\ \E n \in 1 .. Len(path) :
       LET last == path[n]
           parallel == n > 1 /\ Concurrent IN
       /\ MemTableGroup(path, n)
       /\ group' = [group EXCEPT ![t] = [NewGroup EXCEPT
            !.leader = t, !.last_writer = last, !.size = n,
            !.running = IF parallel THEN n ELSE 0,
            !.last_sequence = writer[last].sequence + opt(last).count - 1]]
       /\ writer' = [w \in Writers |->
            IF w \in ToSet(SubSeq(path, 1, n))
            THEN [ws[w] EXCEPT !.write_group = t,
                               !.state = IF parallel THEN "PARALLEL" ELSE @]
            ELSE ws[w]]
       /\ Goto(t, IF parallel THEN "insert" ELSE "serial")
  /\ UNCHANGED <<lists, last_sequence, mutex, db>>

\* The first n keys of a batch of w that starts at sequence number s.
Keys(w, s, n) == {[writer |-> w, seq |-> s + k] : k \in 0 .. n - 1}

\* InsertInto for a whole group, by its leader: the numbers go on from the
\* leader's. The first failure ends it, after some keys. A merge may have to
\* lock the mutex.
InsertSerial(t) ==
  LET path == Members(group[t])
      start(k) == writer[t].sequence + Count(SubSeq(path, 1, k - 1))
      upTo(k) == UNION {Keys(path[i], start(i), opt(path[i]).count) : i \in 1 .. k} IN
  /\ pc(t) = "serial"
  /\ MergeReads /\ (\E w \in ToSet(path) : opt(w).merge) => mutex = Null
  /\ \/ mem' = mem \cup upTo(Len(path)) /\ UNCHANGED <<writer, group>>
     \/ /\ "insert" \in Faults
        /\ \E k \in DOMAIN path : \E n \in 0 .. opt(path[k]).count - 1 :
             /\ mem' = mem \cup upTo(k - 1) \cup Keys(path[k], start(k), n)
             /\ writer' = [writer EXCEPT ![path[k]].status = "Corruption"]
             /\ group' = [group EXCEPT ![t].status = "Corruption"]
  /\ Goto(t, "publish")
  /\ UNCHANGED <<lists, last_sequence, mutex, LastSequence, wal, bg_error>>

\* A member of a parallel group inserts its own batch.
InsertParallel(t) ==
  LET s == writer[t].sequence IN
  /\ pc(t) = "insert"
  /\ \/ mem' = mem \cup Keys(t, s, opt(t).count) /\ UNCHANGED writer
     \/ /\ "insert" \in Faults
        /\ \E n \in 0 .. opt(t).count - 1 : mem' = mem \cup Keys(t, s, n)
        /\ writer' = [writer EXCEPT ![t].status = "Corruption"]
  /\ Goto(t, "inserted")
  /\ UNCHANGED <<lists, last_sequence, group, mutex, LastSequence, wal, bg_error>>

\* Mutant: the last but one publishes.
IsLastRunningButOne(g) == g.running <= 2

\* The test of write_group->running-- > 1, negated
IsLastRunning(g) == g.running = 1

\* CompleteParallelMemTableWriter. The last one goes on with
\* MemTableInsertStatusCheck, which locks the mutex for a failure.
CompleteParallelMemTableWriter(t) ==
  LET o == writer[t].write_group
      own == writer[t].status
      s == IF own = "OK" THEN group[o].status ELSE own IN
  /\ pc(t) = "inserted"
  /\ group' = [group EXCEPT ![o].status = s, ![o].running = @ - 1]
  /\ IF IsLastRunning(group[o])
     THEN Goto(t, "check") /\ writer' = [writer EXCEPT ![t].status = s]
     ELSE Goto(t, "finished") /\ UNCHANGED writer
  /\ UNCHANGED <<lists, last_sequence, mutex, db>>

MemTableInsertStatusCheck(t) ==
  LET failed == writer[t].status # "OK" IN
  /\ pc(t) = "check"
  /\ failed => mutex = Null
  /\ bg_error' = (bg_error \/ failed)
  /\ Goto(t, "publish")
  /\ UNCHANGED <<lists, last_sequence, writer, group, mutex, LastSequence, mem, wal>>

\* versions_->SetLastSequence
SetLastSequence(t) ==
  /\ pc(t) = "publish"
  /\ LastSequence' = group[writer[t].write_group].last_sequence
  /\ Goto(t, "memexit")
  /\ UNCHANGED <<lists, last_sequence, writer, group, mutex, mem, wal, bg_error>>

\* ExitAsMemTableWriter: the lead of the second list is handed over.
ExitAsMemTableWriter(t) ==
  LET g == group[writer[t].write_group] IN
  /\ pc(t) = "memexit"
  /\ IF newest_memtable_writer = g.last_writer
     THEN newest_memtable_writer' = Null /\ UNCHANGED writer
     ELSE /\ writer' = MakeLeader(Linked(newest_memtable_writer, writer),
                                  g.last_writer, "MEMLEADER")
          /\ UNCHANGED newest_memtable_writer
  /\ call' = [call EXCEPT ![t].pc = "memcomplete", ![t].cur = g.leader]
  /\ UNCHANGED <<newest_writer, last_sequence, group, mutex, db>>

\* Mutant: the leader is woken in its turn, before the others.
CompletesInLoopAll(w, g) == TRUE

\* w != leader in the loop of ExitAsMemTableWriter
CompletesInLoop(w, g) == w # g.leader

\* Mutant: a member keeps its own status.
MemberStatusOwn(w, g) == writer[w].status

\* if (!write_group.status.ok()) w->status = write_group.status
MemberStatus(w, g) == IF g.status = "OK" THEN writer[w].status ELSE g.status

\* One turn of the loop that wakes the group, oldest first. link_newer is read
\* before the SetState.
CompleteMember(t) ==
  LET g == group[writer[t].write_group]
      w == call[t].cur IN
  /\ pc(t) = "memcomplete"
  /\ writer' = [writer EXCEPT
       ![w].status = MemberStatus(w, g),
       ![w].state = IF CompletesInLoop(w, g) THEN "COMPLETED" ELSE @]
  /\ call' = IF w = g.last_writer THEN [call EXCEPT ![t].pc = "memlast"]
             ELSE [call EXCEPT ![t].cur = writer[w].link_newer]
  /\ UNCHANGED <<lists, last_sequence, group, mutex, db>>

\* "leader has to exit last, since it owns the write group"
CompleteMemTableLeader(t) ==
  /\ pc(t) = "memlast"
  /\ Return(t, [writer EXCEPT
       ![group[writer[t].write_group].leader].state = "COMPLETED"])
  /\ UNCHANGED <<lists, last_sequence, mutex, db>>

-----------------------------------------------------------------------------
\* A step of a call that has begun.
Step(t) ==
  \/ AwaitState(t)
  \/ WaitForMemTableWriters(t) \/ MemTableWritersDone(t)
  \/ Lead(t) \/ PreprocessWrite(t) \/ SwitchMemtable(t)
  \/ EnterAsBatchGroupLeader(t) \/ WriteToWAL(t)
  \/ ExitFollower(t) \/ ExitLeader(t) \/ Handover(t)
  \/ EnterAsMemTableWriter(t) \/ InsertSerial(t) \/ InsertParallel(t)
  \/ CompleteParallelMemTableWriter(t) \/ MemTableInsertStatusCheck(t)
  \/ SetLastSequence(t) \/ ExitAsMemTableWriter(t) \/ CompleteMember(t)
  \/ CompleteMemTableLeader(t)

Next == (\E t \in Threads : LinkOne(t) \/ Step(t)) /\ UNCHANGED Concurrent

Spec == Init /\ [][Next]_vars

-----------------------------------------------------------------------------
(* Properties.                                                             *)

\* A snapshot taken at LastSequence never changes: the memtable groups run one
\* at a time and in the order of the log, so no key is inserted at or below a
\* published number, although numbers are given out by the log stage long
\* before the memtable stage publishes them.
SnapshotStable == [][\A e \in mem' \ mem : e.seq > LastSequence]_vars

\* A call that returned OK has its batch in the memtable, under the numbers
\* that the log stage gave it, and visible to readers: the status of the log
\* stage reaches the followers, and that of the memtable stage its group.
AckedApplied ==
  \A t \in Threads :
    call[t].ret = "OK" /\ opt(t).batch /\ ~opt(t).disableMemtable =>
      /\ Keys(t, writer[t].sequence, opt(t).count) \subseteq mem
      /\ writer[t].sequence + opt(t).count - 1 <= LastSequence

\* When SwitchMemtable replaces the memtable, and when a callback that wants to
\* be alone is asked, no writer is between its log record and the publication
\* of its keys: WaitForMemTableWriters has seen the second list empty, and only
\* the leader of the first list can fill it.
MemTableSettled ==
  \A t \in Threads :
    pc(t) = "switch" \/ (pc(t) = "wal" /\ opt(t).callback = "alone") =>
      /\ newest_memtable_writer = Null
      /\ \A u \in Threads : pc(u) \notin {"memleader", "serial", "insert",
                                          "inserted", "check", "publish"}

\* The threads whose Writer or WriteGroup the next step of t uses.
Accesses(t) ==
  LET o == writer[t].write_group IN
  CASE pc(t) = "exit" -> {call[t].cur}
    [] pc(t) \in {"inserted", "check", "publish", "memlast"} -> {o}
    [] pc(t) = "memexit" -> {o, group[o].last_writer}
    [] pc(t) = "memcomplete" -> {o, call[t].cur}
    [] OTHER -> {}

\* No thread uses the Writer or the WriteGroup of a call that has returned:
\* members of a group are woken after everybody is done with them, and the
\* owner of the group last.
NoUseAfterReturn ==
  \A t \in Threads : \A u \in Accesses(t) : u \in Threads /\ pc(u) # "out"

\* Some call is in progress, and none can take a step. Steps of a call are
\* finitely many, so a call that does not return ends in such a state.
Stuck == (\E t \in Threads : pc(t) # "out") /\ ~ENABLED (\E t \in Threads : Step(t) /\ UNCHANGED Concurrent)

\* Every call returns: neither list loses its lead, and nobody waits for a
\* thread that waits for it.
NobodyStuck == ~Stuck

\* There is one way to get stuck: SwitchMemtable holds the mutex while it waits
\* in WaitForMemTableWriters for a memtable writer that has to lock it, to
\* record a failed insert or, where inserts of merges read, to read.
OnlyMutexDeadlock ==
  Stuck => \E t, u \in Threads : /\ mutex = t /\ pc(t) = "waiting"
                                 /\ pc(u) = "check" \/ (MergeReads /\ pc(u) = "serial")

\* A call that returned OK has its batch in the log if it did not disable that
\* (WriteOptions::disableWAL).
AckedLogged ==
  \A t \in Threads :
    call[t].ret = "OK" /\ opt(t).batch /\ ~opt(t).disableWAL => t \in wal
=============================================================================
