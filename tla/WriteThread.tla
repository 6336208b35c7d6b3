---------------------------- MODULE WriteThread -----------------------------
(***************************************************************************)
(* WriteThread (db/write_thread.cc) without pipelining, pointer by         *)
(* pointer: writers push themselves onto newest_writer_ with a             *)
(* compare-and-swap, the oldest one leads, and the leader, or the last     *)
(* member of a parallel group, hands the lead over and wakes the group.    *)
(*                                                                         *)
(* A thread's Writer lives on its stack for one call and the next call     *)
(* puts a new one at the same address, so a writer is named by its thread. *)
(* One action is one access to shared memory with the private work around  *)
(* it. Writer::state is set and awaited atomically, as AwaitState shows.   *)
(***************************************************************************)
EXTENDS Naturals, Sequences, FiniteSets

CONSTANTS
  Threads,
  Null      \* nullptr, not one of them

Pointers == Threads \cup {Null}

VARIABLES
  newest_writer,  \* WriteThread::newest_writer_
  link_older,     \* Writer::link_older
  link_newer,     \* Writer::link_newer, filled in by leaders
  state,          \* Writer::state
  batch,          \* Writer::batch # nullptr
  write_group,    \* Writer::write_group, named by the leader that owns it
  last_writer,    \* WriteGroup::last_writer of the group each thread owns
  size,           \* WriteGroup::size
  running,        \* WriteGroup::running
  pc,             \* control point of each thread
  cur             \* the writer that a thread's loop over a group is at

links == <<link_older, link_newer>>
groups == <<write_group, last_writer, size, running>>
vars == <<newest_writer, links, state, batch, groups, pc, cur>>

Init ==
  /\ newest_writer = Null
  /\ link_older = [t \in Threads |-> Null]
  /\ link_newer = [t \in Threads |-> Null]
  /\ state = [t \in Threads |-> "INIT"]
  /\ batch = [t \in Threads |-> TRUE]
  /\ write_group = [t \in Threads |-> Null]
  /\ last_writer = [t \in Threads |-> Null]
  /\ size = [t \in Threads |-> 0]
  /\ running = [t \in Threads |-> 0]
  /\ pc = [t \in Threads |-> "out"]
  /\ cur = [t \in Threads |-> Null]

Goto(t, point) == pc' = [pc EXCEPT ![t] = point]
SetState(w, s) == state' = [state EXCEPT ![w] = s]

-----------------------------------------------------------------------------
(* Joining.                                                                *)

\* Mutant: the pointer of the previous call is still there.
FreshNewerStale(w) == link_newer[w]

\* link_newer as the constructor of Writer sets it
FreshNewer(w) == Null

\* A call begins with a new Writer, for a batch or (EnterUnbatched) without
\* one. LinkOne reads newest_writer_.
LinkOne(w) ==
  /\ pc[w] = "out"
  /\ \E b \in BOOLEAN : batch' = [batch EXCEPT ![w] = b]
  /\ state' = [state EXCEPT ![w] = "INIT"]
  /\ link_older' = [link_older EXCEPT ![w] = newest_writer]
  /\ link_newer' = [link_newer EXCEPT ![w] = FreshNewer(w)]
  /\ write_group' = [write_group EXCEPT ![w] = Null]
  /\ last_writer' = [last_writer EXCEPT ![w] = Null]
  /\ size' = [size EXCEPT ![w] = 0]
  /\ running' = [running EXCEPT ![w] = 0]
  /\ cur' = [cur EXCEPT ![w] = Null]
  /\ Goto(w, "link")
  /\ UNCHANGED newest_writer

\* The compare-and-swap of LinkOne finds newest_writer_ as w last read it.
LinkSucceeds(w) == newest_writer = link_older[w]

\* One turn of LinkOne's loop. Linking to nullptr makes w the leader, who
\* says so itself in JoinBatchGroup and not in EnterUnbatched.
LinkOneCAS(w) ==
  /\ pc[w] = "link"
  /\ IF LinkSucceeds(w)
     THEN /\ newest_writer' = w
          /\ Goto(w, IF link_older[w] = Null THEN "leader" ELSE "await")
          /\ SetState(w, IF link_older[w] = Null /\ batch[w] THEN "LEADER"
                         ELSE state[w])
          /\ UNCHANGED link_older
     ELSE /\ link_older' = [link_older EXCEPT ![w] = newest_writer]
          /\ UNCHANGED <<newest_writer, pc, state>>
  /\ UNCHANGED <<link_newer, batch, groups, cur>>

\* AwaitState in JoinBatchGroup, EnterUnbatched (which waits for the lead
\* only) and CompleteParallelMemTableWriter (which waits for the end only).
AwaitState(w) ==
  /\ \/ pc[w] = "await" /\ state[w] = "LEADER" /\ Goto(w, "leader")
     \/ /\ pc[w] = "await" /\ batch[w]
        /\ state[w] = "PARALLEL" /\ Goto(w, "insert")
     \/ /\ pc[w] = "await" /\ batch[w]
        /\ state[w] = "COMPLETED" /\ Goto(w, "out")
     \/ pc[w] = "finished" /\ state[w] = "COMPLETED" /\ Goto(w, "out")
  /\ UNCHANGED <<newest_writer, links, state, batch, groups, cur>>

-----------------------------------------------------------------------------
(* Leading.                                                                *)

RECURSIVE NewerLinks(_, _)
\* CreateMissingNewerLinks: link_newer after walking link_older from head up
\* to a writer that has its link_newer already.
NewerLinks(head, newer) ==
  LET next == link_older[head] IN
  IF next = Null \/ newer[next] # Null THEN newer
  ELSE NewerLinks(next, [newer EXCEPT ![next] = head])

RECURSIVE Path(_, _, _)
\* The writers from a to b along link_newer.
Path(a, b, newer) ==
  IF a = b \/ newer[a] = Null THEN <<a>> ELSE <<a>> \o Path(newer[a], b, newer)

\* EnterAsBatchGroupLeader: the group is the leader and writers that follow
\* it up to newest_writer_ as read here, stopping before one without a batch,
\* or anywhere (options and sizes that end a group are in DBWrite). An
\* unbatched leader handles only itself.
EnterAsBatchGroupLeader(w) ==
  LET newer == NewerLinks(newest_writer, link_newer)
      path == Path(w, newest_writer, newer) IN
  /\ pc[w] = "leader"
  /\ IF batch[w]
     THEN /\ link_newer' = newer
          /\ \E n \in 1 .. Len(path) :
               /\ \A k \in 2 .. n : batch[path[k]]
               /\ last_writer' = [last_writer EXCEPT ![w] = path[n]]
               /\ size' = [size EXCEPT ![w] = n]
               /\ write_group' = [t \in Threads |->
                    IF \E k \in 1 .. n : path[k] = t THEN w ELSE write_group[t]]
          /\ Goto(w, "work")
     ELSE /\ size' = [size EXCEPT ![w] = 1]
          /\ Goto(w, "unbatched")
          /\ UNCHANGED <<link_newer, last_writer, write_group>>
  /\ UNCHANGED <<newest_writer, link_older, state, batch, running, cur>>

\* write_group->running.store(write_group->size)
Running(w) == size[w]

\* The leader writes for the group, or launches a parallel group.
Work(w) ==
  /\ pc[w] = "work"
  /\ \/ Goto(w, "exit") /\ UNCHANGED <<running, cur>>
     \/ /\ size[w] > 1
        /\ running' = [running EXCEPT ![w] = Running(w)]
        /\ cur' = [cur EXCEPT ![w] = w]
        /\ Goto(w, "launch")
  /\ UNCHANGED <<newest_writer, links, state, batch, write_group, last_writer,
                 size>>

\* LaunchParallelMemTableWriters wakes one member; the iterator reads the
\* link_newer of that member only afterwards.
Launch(w) ==
  /\ pc[w] = "launch"
  /\ SetState(cur[w], "PARALLEL")
  /\ Goto(w, "launched")
  /\ UNCHANGED <<newest_writer, links, batch, groups, cur>>

\* WriteGroup::Iterator::operator++
LaunchNext(w) ==
  /\ pc[w] = "launched"
  /\ IF cur[w] = last_writer[w]
     THEN Goto(w, "insert") /\ UNCHANGED cur
     ELSE /\ cur' = [cur EXCEPT ![w] = link_newer[cur[w]]]
          /\ Goto(w, "launch")
  /\ UNCHANGED <<newest_writer, links, state, batch, groups>>

\* The test of write_group->running-- > 1
MoreRunning(g) == running[g] > 1

\* CompleteParallelMemTableWriter, by the leader and by each follower.
CompleteParallelMemTableWriter(w) ==
  LET g == write_group[w] IN
  /\ pc[w] = "insert"
  /\ running' = [running EXCEPT ![g] = @ - 1]
  /\ Goto(w, IF MoreRunning(g) THEN "finished" ELSE "exit")
  /\ UNCHANGED <<newest_writer, links, state, batch, write_group, last_writer,
                 size, cur>>

-----------------------------------------------------------------------------
(* Handing over. w is the thread that lets the group of g go.              *)

\* Mutant: newest_writer_ is cleared without looking again.
NobodyBehindStale(g) == TRUE

\* The compare_exchange_strong finds that nobody joined behind the group.
NobodyBehind(g) == newest_writer = last_writer[g]

\* ExitAsBatchGroupLeader loads newest_writer_ and, if it is the last writer
\* of the group, goes on to replace it by nullptr.
ExitAsBatchGroupLeader(w) ==
  LET g == write_group[w] IN
  /\ pc[w] = "exit"
  /\ cur' = [cur EXCEPT ![w] = newest_writer]
  /\ Goto(w, IF newest_writer = last_writer[g] THEN "cas" ELSE "handover")
  /\ UNCHANGED <<newest_writer, links, state, batch, groups>>

\* The compare_exchange_strong: success empties the list, failure reloads.
ExitCAS(w) ==
  LET g == write_group[w] IN
  /\ pc[w] = "cas"
  /\ IF NobodyBehind(g)
     THEN /\ newest_writer' = Null
          /\ cur' = [cur EXCEPT ![w] = last_writer[g]]
          /\ Goto(w, "complete")
     ELSE /\ cur' = [cur EXCEPT ![w] = newest_writer]
          /\ Goto(w, "handover")
          /\ UNCHANGED newest_writer
  /\ UNCHANGED <<links, state, batch, groups>>

\* CreateMissingNewerLinks from the head that was read, and the writer behind
\* the group is cut off from it and made leader.
Handover(w) ==
  LET last == last_writer[write_group[w]]
      newer == NewerLinks(cur[w], link_newer) IN
  /\ pc[w] = "handover"
  /\ link_newer' = newer
  /\ link_older' = [link_older EXCEPT ![newer[last]] = Null]
  /\ SetState(newer[last], "LEADER")
  /\ cur' = [cur EXCEPT ![w] = last]
  /\ Goto(w, "complete")
  /\ UNCHANGED <<newest_writer, batch, groups>>

\* Mutant: the follower is woken first and its link read afterwards.
CompleteOneThenRead(w) ==
  IF state[cur[w]] # "COMPLETED"
  THEN SetState(cur[w], "COMPLETED") /\ UNCHANGED cur
  ELSE cur' = [cur EXCEPT ![w] = link_older[cur[w]]] /\ UNCHANGED state

\* One turn of the loop that completes the followers, newest first.
\* link_older is read before the SetState after which the follower may be gone.
CompleteOne(w) ==
  /\ SetState(cur[w], "COMPLETED")
  /\ cur' = [cur EXCEPT ![w] = link_older[cur[w]]]

\* After the loop a leader returns, and a follower (ExitAsBatchGroupFollower)
\* completes the leader, who owns the group, and returns.
Complete(w) ==
  LET g == write_group[w] IN
  /\ pc[w] = "complete"
  /\ IF cur[w] # g
     THEN CompleteOne(w) /\ UNCHANGED pc
     ELSE /\ state' = IF w = g THEN state ELSE [state EXCEPT ![g] = "COMPLETED"]
          /\ Goto(w, "out")
          /\ UNCHANGED cur
  /\ UNCHANGED <<newest_writer, links, batch, groups>>

\* ExitUnbatched
ExitUnbatched(w) ==
  /\ pc[w] = "unbatched"
  /\ IF newest_writer = w
     THEN newest_writer' = Null /\ UNCHANGED <<links, state>>
     ELSE LET newer == NewerLinks(newest_writer, link_newer) IN
          /\ link_newer' = newer
          /\ link_older' = [link_older EXCEPT ![newer[w]] = Null]
          /\ SetState(newer[w], "LEADER")
          /\ UNCHANGED newest_writer
  /\ Goto(w, "out")
  /\ UNCHANGED <<batch, groups, cur>>

-----------------------------------------------------------------------------
\* A step of a call that has begun.
Step(w) ==
  \/ LinkOneCAS(w)
  \/ AwaitState(w)
  \/ EnterAsBatchGroupLeader(w)
  \/ Work(w)
  \/ Launch(w)
  \/ LaunchNext(w)
  \/ CompleteParallelMemTableWriter(w)
  \/ ExitAsBatchGroupLeader(w)
  \/ ExitCAS(w)
  \/ Handover(w)
  \/ Complete(w)
  \/ ExitUnbatched(w)

Next == \E w \in Threads : LinkOne(w) \/ Step(w)

Spec == Init /\ [][Next]_vars

\* Every thread inside a call gets to run.
FairSpec == Spec /\ \A w \in Threads : WF_vars(Step(w))

-----------------------------------------------------------------------------
(* Properties.                                                             *)

TypeOK ==
  /\ newest_writer \in Pointers
  /\ link_older \in [Threads -> Pointers]
  /\ link_newer \in [Threads -> Pointers]
  /\ state \in [Threads -> {"INIT", "LEADER", "PARALLEL", "COMPLETED"}]
  /\ batch \in [Threads -> BOOLEAN]
  /\ write_group \in [Threads -> Pointers]
  /\ last_writer \in [Threads -> Pointers]
  /\ size \in [Threads -> 0 .. Cardinality(Threads)]
  /\ running \in [Threads -> 0 .. Cardinality(Threads)]
  /\ pc \in [Threads -> {"out", "link", "await", "leader", "work", "launch",
                         "launched", "insert", "finished", "exit", "cas",
                         "handover", "complete", "unbatched"}]
  /\ cur \in [Threads -> Pointers]

\* The leaders whose group has not been handed over.
Leading ==
  {w \in Threads : pc[w] \in {"leader", "work", "launch", "launched", "unbatched"}}
  \cup {write_group[w] :
        w \in {v \in Threads : pc[v] \in {"insert", "exit", "cas", "handover"}}}

\* There is one leader at a time and it is the oldest writer of the list: the
\* lead passes by the compare-and-swaps on newest_writer_ and by SetState, and
\* the calls that use link_older and link_newer have no other protection.
SingleLeader ==
  /\ Cardinality(Leading) <= 1
  /\ \A w \in Leading : link_older[w] = Null

\* The writers whose fields the next step of w uses.
Accesses(w) ==
  CASE pc[w] \in {"launch", "launched"} -> {cur[w]}
    [] pc[w] = "insert" -> {write_group[w]}
    [] pc[w] \in {"exit", "cas", "handover"} ->
         {write_group[w], last_writer[write_group[w]]}
    [] pc[w] = "complete" -> {write_group[w], cur[w]}
    [] OTHER -> {}

\* No thread uses the Writer of a call that has returned, nor of the next call
\* at the same address: a member of a group stays until everybody is done
\* with it (the comment in ExitAsBatchGroupLeader; the iterator of
\* LaunchParallelMemTableWriters reads link_newer after waking its owner).
NoUseAfterReturn ==
  \A w \in Threads : \A v \in Accesses(w) :
    v \in Threads /\ pc[v] # "out" /\ write_group[v] = write_group[w]

RECURSIVE Linked(_)
\* The list from w on to older writers, oldest first.
Linked(w) ==
  IF w = Null THEN <<>> ELSE Append(Linked(link_older[w]), w)

\* The newer links that leaders left in the list agree with the older ones (the
\* assertion of CreateMissingNewerLinks), although they are filled in lazily,
\* by several leaders, and writers reuse addresses.
NewerLinksAgree ==
  \A k \in 1 .. Len(Linked(newest_writer)) :
    LET q == Linked(newest_writer) IN
    link_newer[q[k]] \in {Null} \cup (IF k < Len(q) THEN {q[k + 1]} ELSE {})

\* The list of Writer objects is the queue of WriteQueue: a writer is in it
\* from its compare-and-swap to the one of its exit, or to the cut that makes
\* the writer behind its group the leader.
WQ == INSTANCE WriteQueue WITH
  Writers <- Threads,
  queue <- Linked(newest_writer),
  group <- IF newest_writer = Null THEN 0 ELSE size[Head(Linked(newest_writer))]
ImplementsWriteQueue == WQ!Spec

\* The writer has not joined, or not yet. FairSpec leads there again and again,
\* and from the queue only through the end of the call: nobody sleeps while the
\* lead is lost.
NotJoined(w) == pc[w] \in {"out", "link"}
=============================================================================
