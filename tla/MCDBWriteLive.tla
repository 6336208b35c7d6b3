--------------------------- MODULE MCDBWriteLive ----------------------------
(* The write path for TLC, under its fairness. A behaviour is one of one   *)
(* part: "handshake" AwaitState; "queue" WriteThread, which takes          *)
(* AwaitState and SetState as one atomic step each; "group" DBWrite, which *)
(* takes the queue as WriteQueue has it; and "logs" LogSync, which takes   *)
(* the step "sync" of the group apart.                                     *)
EXTENDS MCDBWrite

CONSTANTS Null, Writer, Flusher, s1, MaxLog, MaxWrites, MaxCalls

\* A follower, a parallel follower, a leader that a follower completes, and
\* the two lives of a leader with pipelined writes.
MCScripts == {<<"COMPLETED">>,
              <<"PARALLEL", "COMPLETED">>,
              <<"LEADER", "COMPLETED">>,
              <<"LEADER", "PARALLEL", "COMPLETED">>,
              <<"LEADER", "MEMTABLE_LEADER", "COMPLETED">>}

VARIABLES
  part,
  \* AwaitState
  script, word, waitable, opc, ostate, asleep, wpc, wstate, set, seen,
  \* WriteThread
  newest_writer, link_older, link_newer, state, batch, write_group,
  last_writer, group_size, group_running, queue_pc, cur,
  \* LogSync
  logs, getting_synced, logfile_number, log_dir_synced, log_empty, min_log,
  waiting, log_pc, up_to, todo, need_dir, ok, written, log_synced, entries,
  acked, want_sync, calls

Word == INSTANCE AwaitState WITH Scripts <- MCScripts, state <- word

Queue == INSTANCE WriteThread WITH
  Threads <- MCWriters, size <- group_size, running <- group_running,
  pc <- queue_pc

Log == INSTANCE LogSync WITH
  Syncers <- {s1}, Faults <- {"sync", "mmap"}, pc <- log_pc, synced <- log_synced

wordVars == <<script, word, waitable, opc, ostate, asleep, wpc, wstate, set, seen>>
queueVars == <<newest_writer, link_older, link_newer, state, batch, write_group,
               last_writer, group_size, group_running, queue_pc, cur>>
logVars == <<logs, getting_synced, logfile_number, log_dir_synced, log_empty,
             min_log, waiting, log_pc, up_to, todo, need_dir, ok, written,
             log_synced, entries, acked, want_sync, calls>>
MCVars == <<part, wordVars, queueVars, vars, logVars>>

MCInit ==
  /\ part \in {"handshake", "queue", "group", "logs"}
  /\ Word!Init /\ Queue!Init /\ Init /\ Log!Init
  /\ part # "handshake" => script = <<"COMPLETED">>

InHandshake(A) ==
  part = "handshake" /\ A /\ UNCHANGED <<part, queueVars, vars, logVars>>
InQueue(A) == part = "queue" /\ A /\ UNCHANGED <<part, wordVars, vars, logVars>>
InGroup(A) == part = "group" /\ A /\ UNCHANGED <<part, wordVars, queueVars, logVars>>
InLogs(A) == part = "logs" /\ A /\ UNCHANGED <<part, wordVars, queueVars, vars>>

MCNext ==
  InHandshake(Word!Next) \/ InQueue(Queue!Next) \/ InGroup(Next) \/ InLogs(Log!Next)

\* The fairness of AwaitState, WriteThread, DBWrite and LogSync
MCSpec ==
  /\ MCInit /\ [][MCNext]_MCVars
  /\ WF_wordVars(InHandshake(Word!Owner))
  /\ WF_wordVars(InHandshake(Word!SetStateCAS \/ Word!Notify \/ Word!Reported))
  /\ SF_wordVars(InHandshake(Word!SetState))
  /\ \A w \in MCWriters : WF_queueVars(InQueue(Queue!Step(w)))
  /\ WF_vars(InGroup(Step))
  /\ \A t \in Log!Threads : WF_logVars(InLogs(Log!Step(t)))

-----------------------------------------------------------------------------
\* What the code asserts and its comments promise while several threads run.
\* AwaitState returns with a state that meets its goal (write_thread.cc:186),
\* and SetState finds a mutex to lock (190-202). The links that
\* CreateMissingNewerLinks meets agree with the older ones (247), and one leader
\* at a time works on the queue (EnterAsBatchGroupLeader). The logs being synced
\* stay and are nobody else's (db_impl.cc, MarkLogsSynced), getting_synced is
\* true for a prefix (PreprocessWrite, SyncWAL, SyncClosedLogs look at the
\* front), and the current log is the last one (FindObsoleteFiles). The types of
\* the state are checked with them.
AssertionsHold ==
  /\ TypeOK
  /\ Word!Legal /\ Word!TypeOK /\ Word!MutexBeforeNotify
  /\ Word!ReturnsGoal
  /\ Queue!TypeOK /\ Queue!NewerLinksAgree /\ Queue!SingleLeader
  /\ Log!TypeOK /\ Log!SyncingKeepsLogs /\ Log!GettingSyncedPrefix
  /\ Log!CurrentLogKept

\* Nobody reads or writes a Writer or a WriteGroup after the call that owns it
\* has returned (write_thread.cc, ExitAsBatchGroupLeader,
\* LaunchParallelMemTableWriters).
NoUseAfterReturn == part = "queue" => Queue!NoUseAfterReturn

\* A sync write that returned OK is synced in its file, unless it was flushed
\* (db_impl_write.cc, WriteToWAL; db_impl.cc, SyncWAL, MarkLogsSynced), and
\* log_dir_synced_ is true only if the entry of the current log survives a crash
\* (MarkLogsSynced; db_impl_write.cc, SwitchMemtable).
AckedSynced == part = "logs" => Log!AckedSynced /\ Log!DirectoryFlagTrue

\* AwaitState and SetState with their mutex and condition variable are the
\* reads and writes of an atomic word that the queue takes them for
\* (write_thread.cc, BlockingAwaitState, AwaitState, SetState).
ImplementsAtomicState == Word!ImplementsAtomicState

\* The lock-free list of WriteThread and the queue of DBWrite are both a queue
\* that writers join at the back and groups leave from the front, whole and one
\* at a time (write_thread.cc, LinkOne, EnterAsBatchGroupLeader,
\* ExitAsBatchGroupLeader).
QueueImplemented == Queue!ImplementsWriteQueue /\ ImplementsWriteQueue

\* Every call ends, whatever fails: no wakeup of AwaitState is lost
\* (write_thread.cc, BlockingAwaitState, SetState); no writer that has joined the
\* queue sleeps while the lead is lost (ExitAsBatchGroupLeader), where one writer
\* stands for all, as the threads are alike; no write waits for its group for
\* ever (db_impl_write.cc, WriteImpl); and nobody that marks or waits for logs
\* waits for log_sync_cv_ for ever (db_impl.cc, SyncWAL; db_impl_files.cc,
\* FindObsoleteFiles; db_impl_write.cc, PreprocessWrite).
EveryCallEnds ==
  []<>CASE part = "handshake" -> Word!AllSeen
        [] part = "queue" -> Queue!NotJoined(w1)
        [] part = "group" -> NoCallUnderWay
        [] part = "logs" -> Log!NoCallUnderWay
=============================================================================
