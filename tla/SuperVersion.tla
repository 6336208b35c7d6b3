---------------------------- MODULE SuperVersion ----------------------------
(***************************************************************************)
(* The SuperVersions of a column family and their cache in thread-local    *)
(* storage (db/column_family.cc, util/thread_local.cc): reads take the     *)
(* cached SuperVersion without the db mutex, InstallSuperVersion scrapes   *)
(* the caches of all threads, and threads exit at any time.                *)
(*                                                                         *)
(* A SuperVersion is its version_number. An action is one atomic access of *)
(* a thread, or what it does under a mutex that no other step looks into.  *)
(***************************************************************************)
EXTENDS Naturals, Sequences, FiniteSets

CONSTANTS
  Threads,
  InUse,        \* SuperVersion::kSVInUse
  Obsolete,     \* SuperVersion::kSVObsolete, nullptr; neither is a number
  Nobody,       \* not a thread
  MaxVersion,   \* bound: SuperVersions installed
  Faults        \* {"read"} if a lookup in the memtables may fail, else {}

VARIABLES
  super_version,         \* super_version_
  super_version_number,  \* super_version_number_
  refs,                  \* SuperVersion::refs
  freed,                 \* SuperVersions that were cleaned up and deleted
  local_sv,              \* the entry of local_sv_ in each thread's ThreadData
  registered,            \* threads whose ThreadData is in the list of StaticMeta
  tls_mutex,             \* the mutex of StaticMeta: its owner
  thread,                \* the threads that read
  installer              \* the thread with the db mutex that installs

Versions == 1 .. MaxVersion
vars == <<super_version, super_version_number, refs, freed, local_sv, registered,
          tls_mutex, thread, installer>>
counts == <<refs, freed>>
current == <<super_version, super_version_number>>

\* sv: in hand, or to be deleted; iter: the SuperVersion of an iterator
IdleThread == [pc |-> "idle", op |-> "none", sv |-> Obsolete, iter |-> Obsolete]

Idle == [pc |-> "idle", todo |-> {}, scraped |-> <<>>, old |-> Obsolete]

Init ==
  /\ super_version = 1 /\ super_version_number = 1
  /\ refs = [v \in Versions |-> IF v = 1 THEN 1 ELSE 0]
  /\ freed = {}
  /\ local_sv = [t \in Threads |-> Obsolete]
  /\ registered = {}
  /\ tls_mutex = Nobody
  /\ thread = [t \in Threads |-> IdleThread]
  /\ installer = Idle

Set(t, pc, sv) == thread' = [thread EXCEPT ![t].pc = pc, ![t].sv = sv]

\* The db mutex is free: only the installer keeps it for more than one step.
MutexFree == installer.pc \in {"idle", "reclaim", "destroyed"}

\* Unref: the new counts, and whether it was the last reference
Unref(v) == refs' = [refs EXCEPT ![v] = @ - 1]
IsLast(v) == refs[v] = 1

-----------------------------------------------------------------------------
(* Reads.                                                                  *)

\* GetThreadLocalSuperVersion: Swap(kSVInUse)
Swap(t, op) ==
  /\ thread[t].pc = "idle"
  /\ installer.pc \notin {"reclaim", "destroyed"}
  /\ op = "iterator" => thread[t].iter = Obsolete
  /\ t \in registered \/ tls_mutex = Nobody
  /\ registered' = registered \cup {t}
  /\ thread' = [thread EXCEPT ![t].pc = "check", ![t].op = op, ![t].sv = local_sv[t]]
  /\ local_sv' = [local_sv EXCEPT ![t] = InUse]
  /\ UNCHANGED <<current, counts, tls_mutex, installer>>

\* sv == kSVObsolete || sv->version_number != super_version_number_
IsStale(sv) == sv = Obsolete \/ sv # super_version_number

\* Take what the cache had if it is current, or give its reference back.
Check(t) ==
  LET sv == thread[t].sv IN
  /\ thread[t].pc = "check"
  /\ IF ~IsStale(sv)
     THEN Set(t, "use", sv) /\ UNCHANGED refs
     ELSE IF sv = Obsolete
     THEN Set(t, "lock", Obsolete) /\ UNCHANGED refs
     ELSE Unref(sv) /\ Set(t, "lock", IF IsLast(sv) THEN sv ELSE Obsolete)
  /\ UNCHANGED <<current, freed, local_sv, registered, tls_mutex, installer>>

\* With the db mutex: clean up the stale one and take the current one.
TakeCurrent(t) ==
  /\ thread[t].pc = "lock"
  /\ MutexFree
  /\ freed' = freed \cup ({thread[t].sv} \ {Obsolete})
  /\ refs' = [refs EXCEPT ![super_version] = @ + 1]
  /\ Set(t, "use", super_version)
  /\ UNCHANGED <<current, local_sv, registered, tls_mutex, installer>>

\* Mutant: the iterator shares the reference of the cache.
IteratorRefNone(t) == refs

\* GetReferencedSuperVersion takes a second reference for the iterator.
IteratorRef(t) ==
  IF thread[t].op = "iterator" THEN [refs EXCEPT ![thread[t].sv] = @ + 1] ELSE refs

\* GetImpl reads the memtables and tables. An error from the memtables ends it
\* at once, with nothing given back.
Use(t) ==
  /\ thread[t].pc = "use"
  /\ \E error \in {"none"} \cup (IF thread[t].op = "get" THEN Faults ELSE {}) :
       IF error = "none" THEN Set(t, "return", thread[t].sv) ELSE Set(t, "idle", Obsolete)
  /\ refs' = IteratorRef(t)
  /\ UNCHANGED <<current, freed, local_sv, registered, tls_mutex, installer>>

\* Mutant: the SuperVersion is put back whatever is there now.
MayReturnAlways(t) == TRUE

\* The compare-and-swap expects kSVInUse.
MayReturn(t) == local_sv[t] = InUse

\* ReturnThreadLocalSuperVersion. If the cache was scraped the reference is
\* released, by GetImpl in a step of its own because it may be the last one.
Return(t) ==
  LET sv == thread[t].sv
      iterator == thread[t].op = "iterator"
      done == [thread[t] EXCEPT !.pc = "idle", !.op = "none", !.sv = Obsolete,
                                !.iter = IF iterator THEN sv ELSE @] IN
  /\ thread[t].pc = "return"
  /\ IF MayReturn(t)
     THEN /\ local_sv' = [local_sv EXCEPT ![t] = sv]
          /\ thread' = [thread EXCEPT ![t] = done]
          /\ UNCHANGED refs
     ELSE /\ IF iterator THEN thread' = [thread EXCEPT ![t] = done] /\ Unref(sv)
             ELSE Set(t, "release", sv) /\ UNCHANGED refs
          /\ UNCHANGED local_sv
  /\ UNCHANGED <<current, freed, registered, tls_mutex, installer>>

\* The end of an iterator: CleanupIteratorState.
DeleteIterator(t) ==
  /\ thread[t].pc = "idle"
  /\ thread[t].iter # Obsolete
  /\ thread' = [thread EXCEPT ![t].pc = "release", ![t].sv = thread[t].iter,
                              ![t].iter = Obsolete]
  /\ UNCHANGED <<current, counts, local_sv, registered, tls_mutex, installer>>

Release(t) ==
  LET sv == thread[t].sv IN
  /\ thread[t].pc = "release"
  /\ Unref(sv)
  /\ IF IsLast(sv) THEN Set(t, "free", sv) ELSE Set(t, "idle", Obsolete)
  /\ UNCHANGED <<current, freed, local_sv, registered, tls_mutex, installer>>

\* Cleanup with the db mutex, then delete
Free(t) ==
  /\ thread[t].pc = "free"
  /\ MutexFree
  /\ freed' = freed \cup {thread[t].sv}
  /\ Set(t, "idle", Obsolete)
  /\ UNCHANGED <<current, refs, local_sv, registered, tls_mutex, installer>>

-----------------------------------------------------------------------------
(* A thread exits: OnThreadExit with the mutex of StaticMeta.              *)

OnThreadExit(t) ==
  /\ thread[t].pc = "idle"
  /\ thread[t].iter = Obsolete
  /\ t \in registered
  /\ tls_mutex = Nobody
  /\ tls_mutex' = t
  /\ registered' = registered \ {t}
  /\ Set(t, "exit", local_sv[t])
  /\ UNCHANGED <<current, counts, local_sv, installer>>

\* SuperVersionUnrefHandle for what the thread has in its cache. For the last
\* reference it would wait for the db mutex with the other one held; no step
\* leaves "exitfree" since no thread gets there (HandlerNeverLast).
UnrefHandle(t) ==
  LET sv == thread[t].sv IN
  /\ thread[t].pc = "exit"
  /\ local_sv' = [local_sv EXCEPT ![t] = Obsolete]
  /\ IF sv \in Versions
     THEN /\ Unref(sv)
          /\ IF IsLast(sv) THEN Set(t, "exitfree", sv) /\ UNCHANGED tls_mutex
             ELSE Set(t, "idle", Obsolete) /\ tls_mutex' = Nobody
     ELSE Set(t, "idle", Obsolete) /\ tls_mutex' = Nobody /\ UNCHANGED refs
  /\ UNCHANGED <<current, freed, registered, installer>>

-----------------------------------------------------------------------------
(* InstallSuperVersion, with the db mutex from its first to its last step. *)

InstallSuperVersion ==
  /\ installer.pc = "idle"
  /\ super_version < MaxVersion
  /\ super_version' = super_version + 1
  /\ refs' = [refs EXCEPT ![super_version + 1] = 1]
  /\ installer' = [Idle EXCEPT !.pc = "number", !.old = super_version]
  /\ UNCHANGED <<super_version_number, freed, local_sv, registered, tls_mutex, thread>>

\* Mutant: the threads are scraped without the mutex of StaticMeta.
MayScrapeAnyTime == TRUE

MayScrape == tls_mutex = Nobody

\* ++super_version_number_, and Scrape with the mutex of StaticMeta
Scrape ==
  /\ \/ /\ installer.pc = "number"
        /\ super_version_number' = super_version_number + 1
        /\ installer' = [installer EXCEPT !.pc = "lock"]
        /\ UNCHANGED tls_mutex
     \/ /\ installer.pc = "lock"
        /\ MayScrape
        /\ tls_mutex' = "installer"
        /\ installer' = [installer EXCEPT !.pc = "scrape", !.todo = registered]
        /\ UNCHANGED super_version_number
  /\ UNCHANGED <<super_version, counts, local_sv, registered, thread>>

\* Exchange the entry of one thread with kSVObsolete
ScrapeOne(t) ==
  /\ installer.pc = "scrape"
  /\ t \in installer.todo
  /\ local_sv' = [local_sv EXCEPT ![t] = Obsolete]
  /\ installer' = [installer EXCEPT
       !.todo = @ \ {t},
       !.scraped = IF local_sv[t] \in Versions THEN Append(@, local_sv[t]) ELSE @]
  /\ UNCHANGED <<current, counts, registered, tls_mutex, thread>>

EndScrape ==
  /\ installer.pc = "scrape"
  /\ installer.todo = {}
  /\ tls_mutex' = Nobody
  /\ installer' = [installer EXCEPT !.pc = "unref"]
  /\ UNCHANGED <<current, counts, local_sv, registered, thread>>

\* ResetThreadLocalSuperVersions gives back the references of the caches, and
\* InstallSuperVersion the one of super_version_. The last one cleans up.
UnrefScraped ==
  LET list == installer.scraped
      v == IF list # <<>> THEN list[1] ELSE installer.old IN
  /\ installer.pc = "unref"
  /\ Unref(v)
  /\ freed' = IF IsLast(v) THEN freed \cup {v} ELSE freed
  /\ installer' = IF list # <<>> THEN [installer EXCEPT !.scraped = Tail(@)] ELSE Idle
  /\ UNCHANGED <<current, local_sv, registered, tls_mutex, thread>>

\* ~ColumnFamilyData, when nobody uses the family: the caches are emptied
\* without the db mutex, then the last reference goes.
ReclaimId ==
  /\ installer.pc = "idle"
  /\ \A t \in Threads : thread[t].pc = "idle" /\ thread[t].iter = Obsolete
  /\ tls_mutex = Nobody
  /\ tls_mutex' = "installer"
  /\ installer' = [Idle EXCEPT !.pc = "reclaim", !.todo = registered]
  /\ UNCHANGED <<current, counts, local_sv, registered, thread>>

ReclaimOne(t) ==
  LET v == local_sv[t] IN
  /\ installer.pc = "reclaim"
  /\ t \in installer.todo
  /\ local_sv' = [local_sv EXCEPT ![t] = Obsolete]
  /\ installer' = [installer EXCEPT !.todo = @ \ {t}]
  /\ IF v \in Versions
     THEN Unref(v) /\ freed' = IF IsLast(v) THEN freed \cup {v} ELSE freed
     ELSE UNCHANGED counts
  /\ UNCHANGED <<current, registered, tls_mutex, thread>>

Destroy ==
  /\ installer.pc = "reclaim"
  /\ installer.todo = {}
  /\ tls_mutex' = Nobody
  /\ Unref(super_version)
  /\ freed' = freed \cup {super_version}
  /\ installer' = [installer EXCEPT !.pc = "destroyed"]
  /\ UNCHANGED <<current, local_sv, registered, thread>>

-----------------------------------------------------------------------------
ThreadStep(t) ==
  \/ \E op \in {"get", "iterator"} : Swap(t, op)
  \/ Check(t) \/ TakeCurrent(t) \/ Use(t) \/ Return(t)
  \/ DeleteIterator(t) \/ Release(t) \/ Free(t)
  \/ OnThreadExit(t) \/ UnrefHandle(t)

InstallerStep ==
  \/ InstallSuperVersion \/ Scrape \/ EndScrape \/ UnrefScraped
  \/ ReclaimId \/ Destroy
  \/ \E t \in Threads : ScrapeOne(t) \/ ReclaimOne(t)

Next == InstallerStep \/ \E t \in Threads : ThreadStep(t)

Spec == Init /\ [][Next]_vars

-----------------------------------------------------------------------------
(* Properties.                                                             *)

\* Who has a reference to v: super_version_ and the installer that replaced it,
\* the caches, what was scraped from them, and the threads that work with v.
Holders(v) ==
  (IF super_version = v /\ installer.pc # "destroyed" THEN 1 ELSE 0)
  + (IF installer.old = v THEN 1 ELSE 0)
  + Cardinality({t \in Threads : local_sv[t] = v /\ thread[t].pc # "exit"})
  + Cardinality({i \in DOMAIN installer.scraped : installer.scraped[i] = v})
  + Cardinality({t \in Threads : thread[t].sv = v /\
                   thread[t].pc \in {"check", "use", "return", "release", "exit"}})
  + Cardinality({t \in Threads : thread[t].sv = v /\
                   thread[t].pc = "return" /\ thread[t].op = "iterator"})
  + Cardinality({t \in Threads : thread[t].iter = v})

\* The count of a SuperVersion is the number of its holders, and it is deleted
\* only without any: a read never works on memtables and tables that are gone,
\* and an old SuperVersion does not stay for ever, whoever gives up its last
\* reference.
RefsMatch ==
  \A v \in Versions :
    /\ refs[v] = Holders(v)
    /\ v \in freed => refs[v] = 0

\* Between two installations the cache of every thread that is not about to exit
\* is empty, in use, or has the current SuperVersion: a thread that does not read
\* any more cannot keep old memtables and tables alive.
CacheCurrent ==
  installer.pc = "idle" =>
    \A t \in registered : local_sv[t] \in {Obsolete, InUse, super_version}

\* The handler that empties the cache of an exiting thread never has the last
\* reference. It would lock the db mutex with the mutex of StaticMeta held,
\* against the order of InstallSuperVersion.
HandlerNeverLast == \A t \in Threads : thread[t].pc # "exitfree"

\* When a thread asks for a SuperVersion its cache is not in use.
NotInUse == \A t \in Threads : thread[t].pc = "check" => thread[t].sv # InUse
=============================================================================
