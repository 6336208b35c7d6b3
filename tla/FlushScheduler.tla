--------------------------- MODULE FlushScheduler ---------------------------
(***************************************************************************)
(* db/flush_scheduler.cc: the lock-free list through which the threads     *)
(* that insert into memtables tell the next batch group leader that a      *)
(* column family's memtable is full, together with its two users: the      *)
(* memtable inserters (MemTableInserter::CheckMemtableFull, in parallel)   *)
(* and the leader of the write queue (DBImpl::PreprocessWrite, which calls *)
(* ScheduleFlushes and SwitchMemtable).                                    *)
(*                                                                         *)
(* The list is the sequence of column families from head_ to its end, and  *)
(* a pointer to a node is the suffix that starts at that node.             *)
(***************************************************************************)
EXTENDS Naturals, Sequences, FiniteSets

CONSTANTS
  CF,              \* column families
  Inserters,       \* threads that may insert into memtables concurrently
  Pipelined,       \* options.enable_pipelined_write
  ParanoidChecks,  \* options.paranoid_checks
  NoCF             \* nullptr

ASSUME FlushSchedulerAssumption ==
  /\ Pipelined \in BOOLEAN
  /\ ParanoidChecks \in BOOLEAN
  /\ NoCF \notin CF

VARIABLES
  head,        \* FlushScheduler::head_: the list it starts
  flushState,  \* MemTable::flush_state_ of each family's active memtable
  refs,        \* ColumnFamilyData::refs_: the family set's and the nodes'
  dropped,     \* ColumnFamilyData::IsDropped
  bgError,     \* ~bg_error_.ok()
  ipc,         \* control point of each inserter
  cfd,         \* the column family that each inserter's batch writes to
  next,        \* the next field of the node each inserter pushes
  lpc,         \* control point of the leader of the write queue
  taken        \* the leader's node in TakeNextColumnFamily

vars ==
  <<head, flushState, refs, dropped, bgError, ipc, cfd, next, lpc, taken>>

Running == {i \in Inserters : ipc[i] # "idle"}

Init ==
  /\ head = <<>>
  /\ flushState = [c \in CF |-> "FLUSH_NOT_REQUESTED"]
  /\ refs = [c \in CF |-> 1]
  /\ dropped = [c \in CF |-> FALSE]
  /\ bgError = FALSE
  /\ ipc = [i \in Inserters |-> "idle"]
  /\ cfd = [i \in Inserters |-> NoCF]
  /\ next = [i \in Inserters |-> <<>>]
  /\ lpc = "idle"
  /\ taken = <<>>

-----------------------------------------------------------------------------
(* The memtable inserters.                                                 *)

\* MemTable::UpdateFlushState, at the end of every insertion. Whether the
\* memtable is full (ShouldFlushNow) depends on arena sizes, which are left
\* out: full is either answer.
UpdateFlushState(i) ==
  /\ ipc[i] = "add"
  /\ \E full \in BOOLEAN :
       flushState' = [flushState EXCEPT ![cfd[i]] =
                        IF @ = "FLUSH_NOT_REQUESTED" /\ full
                        THEN "FLUSH_REQUESTED" ELSE @]
  /\ ipc' = [ipc EXCEPT ![i] = "check"]
  /\ UNCHANGED <<head, refs, dropped, bgError, cfd, next, lpc, taken>>

\* Mutant: the caller of ScheduleFlush is not decided by a compare-and-swap.
CheckMemtableFullNoCAS(i) ==
  LET full == flushState[cfd[i]] # "FLUSH_NOT_REQUESTED" IN
  /\ ipc[i] = "check"
  /\ ipc' = [ipc EXCEPT ![i] = IF full THEN "link" ELSE "idle"]
  /\ flushState' = [flushState EXCEPT ![cfd[i]] =
                      IF full THEN "FLUSH_SCHEDULED" ELSE @]
  /\ UNCHANGED <<head, refs, dropped, bgError, cfd, next, lpc, taken>>

\* MemTableInserter::CheckMemtableFull: only the thread whose
\* MarkFlushScheduled moves flush_state_ calls ScheduleFlush.
CheckMemtableFull(i) ==
  LET requested == flushState[cfd[i]] = "FLUSH_REQUESTED" IN
  /\ ipc[i] = "check"
  /\ IF requested
     THEN /\ flushState' = [flushState EXCEPT ![cfd[i]] = "FLUSH_SCHEDULED"]
          /\ ipc' = [ipc EXCEPT ![i] = "link"]
     ELSE /\ ipc' = [ipc EXCEPT ![i] = "idle"]
          /\ UNCHANGED flushState
  /\ UNCHANGED <<head, refs, dropped, bgError, cfd, next, lpc, taken>>

\* FlushScheduler::ScheduleFlush, first half: Ref and a node that points at
\* the head read without synchronisation.
ScheduleFlush(i) ==
  /\ ipc[i] = "link"
  /\ refs' = [refs EXCEPT ![cfd[i]] = @ + 1]
  /\ next' = [next EXCEPT ![i] = head]
  /\ ipc' = [ipc EXCEPT ![i] = "cas"]
  /\ UNCHANGED <<head, flushState, dropped, bgError, cfd, lpc, taken>>

\* Mutant: head_ is stored without comparing it with node->next.
ScheduleFlushStore(i) ==
  /\ ipc[i] = "cas"
  /\ head' = <<cfd[i]>> \o next[i]
  /\ ipc' = [ipc EXCEPT ![i] = "idle"]
  /\ UNCHANGED <<cfd, next, flushState, refs, dropped, bgError, lpc, taken>>

\* ScheduleFlush, one turn of the loop: a failed compare_exchange reloads
\* node->next.
ScheduleFlushCAS(i) ==
  /\ ipc[i] = "cas"
  /\ IF head = next[i]
     THEN /\ head' = <<cfd[i]>> \o next[i]
          /\ ipc' = [ipc EXCEPT ![i] = "idle"]
          /\ next' = [next EXCEPT ![i] = <<>>]
     ELSE /\ next' = [next EXCEPT ![i] = head]
          /\ UNCHANGED <<head, ipc>>
  /\ UNCHANGED <<flushState, refs, dropped, bgError, cfd, lpc, taken>>

-----------------------------------------------------------------------------
(* The leader of the write queue, DB mutex held.                           *)

\* DBImpl::PreprocessWrite up to the FlushScheduler::Empty test. It returns
\* before the test when there is a background error.
PreprocessWrite ==
  /\ lpc = "idle"
  /\ lpc' = IF bgError THEN "idle"
            ELSE IF head = <<>> THEN "launch" ELSE "take"
  /\ UNCHANGED <<head, flushState, refs, dropped, bgError, ipc, cfd, next,
                 taken>>

\* FlushScheduler::TakeNextColumnFamily: the load of head_ that picks a node,
\* or nullptr when the list is empty, which ends DBImpl::ScheduleFlushes.
TakeNextColumnFamily ==
  /\ lpc = "take"
  /\ taken' = head
  /\ lpc' = IF head = <<>> THEN "launch" ELSE "unlink"
  /\ UNCHANGED <<head, flushState, refs, dropped, bgError, ipc, cfd, next>>

\* TakeNextColumnFamily: the plain store of node->next to head_, and the
\* retry when the family was dropped meanwhile.
UnlinkHead ==
  LET c == Head(taken) IN
  /\ lpc = "unlink"
  /\ head' = Tail(taken)
  /\ IF dropped[c]
     THEN /\ refs' = [refs EXCEPT ![c] = @ - 1]
          /\ lpc' = "take"
     ELSE /\ lpc' = "switch"
          /\ UNCHANGED refs
  /\ UNCHANGED <<flushState, dropped, bgError, ipc, cfd, next, taken>>

\* One turn of DBImpl::ScheduleFlushes after TakeNextColumnFamily:
\* SwitchMemtable (which first waits for the memtable writers when writes are
\* pipelined), Unref, and the early return when the new WAL file cannot be
\* created. The failed write then runs ParanoidCheck.
SwitchMemtable ==
  LET c == Head(taken) IN
  /\ lpc = "switch"
  /\ Pipelined => Running = {}
  /\ refs' = [refs EXCEPT ![c] = @ - 1]
  /\ \/ /\ flushState' = [flushState EXCEPT ![c] = "FLUSH_NOT_REQUESTED"]
        /\ lpc' = "take"
        /\ UNCHANGED bgError
     \/ /\ bgError' = (bgError \/ ParanoidChecks)
        /\ lpc' = "idle"
        /\ UNCHANGED flushState
  /\ UNCHANGED <<head, dropped, ipc, cfd, next, taken>>

\* The rest of WriteImpl or PipelinedWriteImpl: the group's batches go to the
\* memtables of live families. Without pipelining the leader keeps the write
\* queue until they are all in.
LaunchInserters ==
  /\ lpc = "launch"
  /\ \E f \in [Inserters \ Running -> {c \in CF : ~dropped[c]} \cup {NoCF}] :
       LET group == {i \in DOMAIN f : f[i] # NoCF} IN
       /\ ipc' = [i \in Inserters |-> IF i \in group THEN "add" ELSE ipc[i]]
       /\ cfd' = [i \in Inserters |-> IF i \in group THEN f[i] ELSE cfd[i]]
  /\ lpc' = IF Pipelined THEN "idle" ELSE "inserting"
  /\ UNCHANGED <<head, flushState, refs, dropped, bgError, next, taken>>

\* The write group is complete: the next writer becomes leader.
ExitWriteGroup ==
  /\ lpc = "inserting"
  /\ Running = {}
  /\ lpc' = "idle"
  /\ UNCHANGED <<head, flushState, refs, dropped, bgError, ipc, cfd, next,
                 taken>>

\* DBImpl::FlushMemTable: an unbatched writer switches the memtable without
\* looking at the scheduler.
FlushMemTable(c) ==
  /\ lpc = "idle"
  /\ Running = {}
  /\ flushState' = [flushState EXCEPT ![c] = "FLUSH_NOT_REQUESTED"]
  /\ UNCHANGED <<head, refs, dropped, bgError, ipc, cfd, next, lpc, taken>>

\* DBImpl::DropColumnFamilyImpl, in an unbatched writer.
DropColumnFamily(c) ==
  /\ lpc = "idle"
  /\ ~dropped[c]
  /\ Running = {}
  /\ dropped' = [dropped EXCEPT ![c] = TRUE]
  /\ refs' = [refs EXCEPT ![c] = @ - 1]
  /\ UNCHANGED <<head, flushState, bgError, ipc, cfd, next, lpc, taken>>

Next ==
  \/ \E i \in Inserters : \/ UpdateFlushState(i)
                          \/ CheckMemtableFull(i)
                          \/ ScheduleFlush(i)
                          \/ ScheduleFlushCAS(i)
  \/ PreprocessWrite
  \/ TakeNextColumnFamily
  \/ UnlinkHead
  \/ SwitchMemtable
  \/ LaunchInserters
  \/ ExitWriteGroup
  \/ \E c \in CF : FlushMemTable(c) \/ DropColumnFamily(c)

Spec == Init /\ [][Next]_vars

-----------------------------------------------------------------------------
(* Properties.                                                             *)

TypeOK ==
  /\ head \in Seq(CF)
  /\ flushState \in [CF -> {"FLUSH_NOT_REQUESTED", "FLUSH_REQUESTED",
                            "FLUSH_SCHEDULED"}]
  /\ refs \in [CF -> Nat]
  /\ dropped \in [CF -> BOOLEAN]
  /\ bgError \in BOOLEAN
  /\ ipc \in [Inserters -> {"idle", "add", "check", "link", "cas"}]
  /\ cfd \in [Inserters -> CF \cup {NoCF}]
  /\ next \in [Inserters -> Seq(CF)]
  /\ lpc \in {"idle", "take", "unlink", "switch", "launch", "inserting"}
  /\ taken \in Seq(CF)

\* The nodes of the list that hold a reference on c.
Nodes(c) == {k \in DOMAIN head : head[k] = c}

\* The inserters that are pushing a node for c.
Pushing(c, points) == {i \in Inserters : ipc[i] \in points /\ cfd[i] = c}

\* The leader holds c's node or the reference that came with it.
Taking(c) == lpc = "switch" /\ Head(taken) = c

\* A family is in the list at most once: ScheduleFlush asserts in debug
\* builds that checking_set_ does not hold the family yet. It rests on
\* flush_state_ and on every leader draining the list before new inserts,
\* though a manual flush resets flush_state_ while the node is queued.
ScheduledOnce ==
  \A c \in CF :
    Cardinality(Nodes(c)) + Cardinality(Pushing(c, {"link", "cas"})) <= 1

\* A memtable marked FLUSH_SCHEDULED will be looked at by a leader: its family
\* is in the list, on its way into it or out of it. Nobody would mark it again,
\* so a lost node would leave a full memtable unflushed. A failed
\* SwitchMemtable loses the request, and is made up for by bg_error_ alone.
NoLostFlushRequest ==
  \A c \in CF : flushState[c] = "FLUSH_SCHEDULED" /\ ~dropped[c] =>
    \/ \E k \in DOMAIN head : head[k] = c
    \/ \E i \in Inserters : ipc[i] \in {"link", "cas"} /\ cfd[i] = c
    \/ Taking(c)
    \/ bgError

\* ColumnFamilyData::refs_ counts the family set's reference and one for each
\* node in the list, being pushed or just taken: Unref never frees a family
\* that a node still names, nor leaks one that was dropped while queued.
RefsBalanced ==
  \A c \in CF : refs[c] = (IF dropped[c] THEN 0 ELSE 1) + Cardinality(Nodes(c))
                          + Cardinality(Pushing(c, {"cas"}))
                          + (IF Taking(c) THEN 1 ELSE 0)

\* A family is in the list of the FlushScheduler at most once, however many
\* inserters find its memtable full (write_batch.cc, CheckMemtableFull), and the
\* list has one reference for each of its nodes, which is given back when the
\* family is taken or was dropped (flush_scheduler.cc).
SchedulerListExact == ScheduledOnce /\ RefsBalanced

\* What NoLostFlushRequest rests on when writes are not pipelined: memtables
\* are only inserted into while the leader waits for it, so that nobody pushes
\* between the load and the store of head_ in TakeNextColumnFamily.
Exclusion ==
  /\ lpc # "inserting" => \A i \in Inserters : ipc[i] = "idle"
  /\ lpc = "unlink" => head # <<>> /\ taken = head
  /\ lpc = "switch" => taken # <<>>
  /\ \A i \in Inserters : ipc[i] # "idle" => cfd[i] \in CF

\* flush_scheduler.h on ScheduleFlush: not concurrent with any other method
\* call on the instance, so never between the two accesses to head_ of
\* TakeNextColumnFamily.
ScheduleFlushNotConcurrent ==
  ~(lpc = "unlink" /\ \E i \in Inserters : ipc[i] \in {"link", "cas"})
=============================================================================
