-------------------------- MODULE TransactionLocks --------------------------
(***************************************************************************)
(* Pessimistic transactions of one column family and the lock manager they *)
(* share (utilities/transactions/transaction_lock_mgr.cc,                  *)
(* transaction_impl.cc): shared and exclusive locks on keys, waits with    *)
(* timeouts, expiration and stealing, deadlock detection, the limit on the *)
(* number of locks, and the two-phase life of a transaction.               *)
(*                                                                         *)
(* A transaction is its id, used by one thread. GetStripe gives all keys   *)
(* the same stripe, so what a thread does under stripe_mutex is one step.  *)
(***************************************************************************)
EXTENDS Naturals, Integers, Sequences, SequencesExt, FiniteSets, FiniteSetsExt

CONSTANTS
  Txns,           \* ids, in the order of GenTxnID
  Keys,           \* numbers: a batch is locked in the order of its keys
  Configs,        \* sets of options: how the database and Txns are used
  MaxTime         \* bound: the clock

\* A member of Configs has max_num_locks (0: no limit), deadlock_detect_depth,
\* faults (a subset of {"write", "conflict"}: a write to the database or
\* ValidateSnapshot may fail), and txns, which gives each transaction
\* expiration (a duration, 0 if it never expires), detect (deadlock_detect),
\* timeout ("zero", "some" or "none"), modes (a set of BOOLEAN: the locks it
\* asks for, TRUE for exclusive), batch (the keys of a TransactionDB::Write, {}
\* for a transaction) and prepare (whether it may commit in two phases).

VARIABLES
  config,     \* the options in use, a member of Configs
  now,        \* Env::NowMicros
  keys,       \* LockMapStripe::keys
  lock_cnt,   \* LockMap::lock_cnt
  waits,      \* wait_txn_map_: the ids each transaction waits for
  notify,     \* threads between UnLock of the stripe and NotifyAll
  txn         \* the transactions

vars == <<config, now, keys, lock_cnt, waits, notify, txn>>
lockVars == <<keys, lock_cnt, waits>>

Options == config.txns
max_num_locks == config.max_num_locks
deadlock_detect_depth == config.deadlock_detect_depth
Faults == config.faults

Unlocked == [exclusive |-> FALSE, ids |-> <<>>, expiration |-> 0]

NewTxn == [state |-> "NEW",      \* txn_state_
           pc |-> "idle",        \* in which call its thread is
           expiration_time |-> 0,
           listed |-> FALSE,     \* in expirable_transactions_map_
           tracked |-> [k \in Keys |-> "none"],
           key |-> 0, exclusive |-> FALSE,   \* what it tries to lock
           hint |-> 0]           \* expire_time_hint, if it has no timeout

Init ==
  /\ config \in Configs
  /\ now = 1
  /\ keys = [k \in Keys |-> Unlocked]
  /\ lock_cnt = 0
  /\ waits = [t \in Txns |-> <<>>]
  /\ notify = {}
  /\ txn = [t \in Txns |-> NewTxn]

\* Time matters if a transaction expires.
Tick ==
  /\ now < MaxTime
  /\ \E t \in Txns : Options[t].expiration > 0
  /\ now' = now + 1
  /\ UNCHANGED <<config, lockVars, notify, txn>>

IsExpired(t) == txn[t].expiration_time > 0 /\ now >= txn[t].expiration_time

\* TransactionImpl::Initialize
BeginTransaction(t) ==
  LET expiration == IF Options[t].expiration > 0 THEN now + Options[t].expiration ELSE 0 IN
  /\ txn[t].state = "NEW"
  /\ txn' = [txn EXCEPT ![t].state = "STARTED", ![t].expiration_time = expiration,
                        ![t].listed = expiration > 0]
  /\ UNCHANGED <<config, now, lockVars, notify>>

-----------------------------------------------------------------------------
(* AcquireLocked.                                                          *)

\* The holders whose locks IsLockExpired has to steal before t can have them,
\* in the order it looks at them
Others(t, lock) == SelectSeq(lock.ids, LAMBDA u : u # t)

\* TryStealingExpiredTransactionLocks: of a transaction that is not in the map
\* there is nothing to steal.
MaySteal(u) == ~txn[u].listed \/ txn[u].state = "STARTED"

\* The prefix of the others that IsLockExpired reaches and robs
Robbed(t, lock) ==
  LET others == Others(t, lock)
      n == SelectInSeq(others, LAMBDA u : ~MaySteal(u)) IN
  ToSet(IF n = 0 THEN others ELSE SubSeq(others, 1, n - 1))

\* Mutant: one lock too many.
LimitReachedLate == max_num_locks > 0 /\ lock_cnt > max_num_locks

LimitReached == max_num_locks > 0 /\ lock_cnt >= max_num_locks

\* What an attempt to get key with the given mode does: the new lock, the
\* result, the transactions that lose their locks, and the hint when to retry.
Attempt(t, key, exclusive) ==
  LET lock == keys[key]
      mine == [exclusive |-> exclusive, ids |-> <<t>>, expiration |-> txn[t].expiration_time]
      expired == lock.expiration > 0 /\ lock.expiration <= now
      robbed == IF lock.expiration > 0 /\ ~expired THEN {} ELSE Robbed(t, lock)
      stolen == expired /\ robbed = ToSet(Others(t, lock))
      result(new, s, r, hint) == [lock |-> new, status |-> s, robbed |-> r, hint |-> hint]
  IN
  IF lock.ids = <<>>
  THEN IF LimitReached
       THEN result(lock, "LockLimit", {}, txn[t].hint)
       ELSE result(mine, "OK", {}, txn[t].hint)
  ELSE IF ~lock.exclusive /\ ~exclusive
  THEN result([lock EXCEPT !.ids = Append(@, t),
                           !.expiration = Max({@, txn[t].expiration_time})],
              "OK", {}, txn[t].hint)
  ELSE IF lock.ids = <<t>> THEN result(mine, "OK", {}, txn[t].hint)
  ELSE result(IF stolen THEN mine ELSE lock, IF stolen THEN "OK" ELSE "TimedOut", robbed,
              IF lock.expiration > 0 /\ ~expired THEN lock.expiration
              ELSE IF robbed # {} THEN 0 ELSE txn[t].hint)

\* TryStealingLocks of each of them: a compare-and-swap of STARTED
AfterTheft(robbed) ==
  [u \in Txns |-> IF u \in robbed /\ txn[u].listed
                  THEN [txn[u] EXCEPT !.state = "LOCKS_STOLEN"] ELSE txn[u]]

-----------------------------------------------------------------------------
(* AcquireWithTimeout and its deadlock detection.                          *)

\* The loop of IncrementWaiters: breadth first along wait_txn_map_, and a
\* queue that is too long counts as a deadlock.
RECURSIVE FindsCycle(_, _, _)
FindsCycle(t, queue, head) ==
  IF head > deadlock_detect_depth THEN TRUE
  ELSE IF head > Len(queue) THEN FALSE
  ELSE \/ queue[head] = t
       \/ LET longer == queue \o waits[queue[head]]
              length == Min({Len(longer), deadlock_detect_depth}) IN
          FindsCycle(t, SubSeq(longer, 1, length), head + 1)

\* Mutant: the search does not follow the waits of other transactions.
IsDeadlockNear(t, wait_ids) == t \in ToSet(wait_ids)

\* IncrementWaiters, once t is entered in the maps: nobody waits for t, or the
\* search decides.
IsDeadlock(t, wait_ids) ==
  /\ t \in ToSet(wait_ids) \/ \E u \in Txns : t \in ToSet(waits[u])
  /\ FindsCycle(t, wait_ids, 1)

Mode(exclusive) == IF exclusive THEN "exclusive" ELSE "shared"

\* stripe_mutex: a thread that spins never gives it up.
StripeFree == \A t \in Txns : txn[t].pc # "spin"

\* How t waits after an attempt that failed with status. When the time is over
\* cv_end_time is in the past and it does not wait; then kLockTimeout leads to
\* the last attempt (Round with timed_out), but kLockLimit to the same loop
\* without any.
Waits(t, status, hint) ==
  IF status # "LockLimit" THEN {"waiting"}
  ELSE IF Options[t].timeout = "some" THEN {"waiting", "spin"}
  ELSE IF hint > 0 /\ now >= hint THEN {"spin"} ELSE {"waiting"}

\* One round of t with stripe_mutex held: try, and on failure give up or wait.
\* A lock is tracked (TrackKey) unless ValidateSnapshot fails: then a new one
\* is given back, and an upgraded one stays.
Round(t, key, exclusive, timed_out) ==
  LET a == Attempt(t, key, exclusive)
      after == AfterTheft(a.robbed)
      old == after[t]
      wait_ids == IF a.status = "TimedOut" THEN keys[key].ids ELSE waits[t]
      free == [waits EXCEPT ![t] = <<>>]
      ends == [old EXCEPT !.pc = "idle", !.key = 0, !.exclusive = FALSE, !.hint = 0]
      tracks == [ends EXCEPT !.tracked[key] = Mode(exclusive)]
      conflict == IF old.tracked[key] = "none"
                  THEN [ends EXCEPT !.pc = "conflict", !.key = key] ELSE ends
      fails == [ends EXCEPT !.pc = IF Options[t].batch = {} THEN "idle" ELSE "failed"]
      wait(pc) == [old EXCEPT !.pc = pc, !.key = key, !.exclusive = exclusive,
                     !.hint = IF Options[t].timeout = "none" THEN a.hint ELSE 0]
  IN
  /\ StripeFree
  /\ keys' = [keys EXCEPT ![key] = a.lock]
  /\ lock_cnt' = IF a.status = "OK" /\ keys[key].ids = <<>> /\ max_num_locks > 0
                 THEN lock_cnt + 1 ELSE lock_cnt
  /\ IF a.status = "OK"
     THEN /\ waits' = free
          /\ \E self \in {tracks} \cup (IF "conflict" \in Faults /\ Options[t].batch = {}
                                      THEN {conflict} ELSE {}) :
               txn' = [after EXCEPT ![t] = self]
     ELSE IF \/ Options[t].timeout = "zero" \/ timed_out
             \/ wait_ids # <<>> /\ Options[t].detect /\ IsDeadlock(t, wait_ids)
     THEN waits' = free /\ txn' = [after EXCEPT ![t] = fails]
     ELSE /\ \E pc \in Waits(t, a.status, a.hint) : txn' = [after EXCEPT ![t] = wait(pc)]
          /\ waits' = [waits EXCEPT ![t] = IF Options[t].detect THEN wait_ids ELSE <<>>]
  /\ UNCHANGED <<config, now, notify>>

\* The keys a thread may ask for next: any for a transaction, the smallest of
\* the rest for a batch (LockBatch)
Wanted(t) ==
  LET rest == {k \in Options[t].batch : txn[t].tracked[k] = "none"} IN
  IF Options[t].batch = {} THEN Keys ELSE IF rest = {} THEN {} ELSE {Min(rest)}

\* TransactionImpl::TryLock: a key that is locked already is not locked again,
\* except to upgrade it. The state is not looked at.
TryLock(t, k, exclusive) ==
  /\ txn[t].pc = "idle" /\ t \notin notify
  /\ txn[t].state \in {"STARTED", "LOCKS_STOLEN"}
  /\ exclusive \in Options[t].modes
  /\ k \in Wanted(t)
  /\ txn[t].tracked[k] = "none" \/ (txn[t].tracked[k] = "shared" /\ exclusive)
  /\ Round(t, k, exclusive, FALSE)

\* A waiting thread goes on: notified or for no reason, or because the timeout
\* or the time of the hint is over.
Woken(t) ==
  /\ txn[t].pc \in {"waiting", "notified"}
  /\ \/ Round(t, txn[t].key, txn[t].exclusive, FALSE)
     \/ /\ Options[t].timeout = "some" \/ (txn[t].hint > 0 /\ now >= txn[t].hint)
        /\ Round(t, txn[t].key, txn[t].exclusive, TRUE)

NotifyAll(t) ==
  /\ t \in notify
  /\ notify' = notify \ {t}
  /\ txn' = [u \in Txns |-> IF txn[u].pc = "waiting" THEN [txn[u] EXCEPT !.pc = "notified"]
                            ELSE txn[u]]
  /\ UNCHANGED <<config, now, lockVars>>

-----------------------------------------------------------------------------
(* UnLock.                                                                 *)

\* The last id takes the place of the one that goes.
Without(ids, t) ==
  LET i == SelectInSeq(ids, LAMBDA u : u = t) IN
  IF i = Len(ids) THEN Front(ids) ELSE [Front(ids) EXCEPT ![i] = Last(ids)]

Holds(t, k) == t \in ToSet(keys[k].ids)

\* UnLockKey for the keys K of t; all waiting threads will be notified.
UnLock(t, K) ==
  LET mine == {k \in K : Holds(t, k)} IN
  /\ K # {} => StripeFree
  /\ keys' = [k \in Keys |->
       IF k \notin mine THEN keys[k]
       ELSE IF Len(keys[k].ids) = 1 THEN Unlocked
       ELSE [keys[k] EXCEPT !.ids = Without(@, t)]]
  /\ lock_cnt' = IF max_num_locks > 0 THEN lock_cnt - Cardinality(mine) ELSE lock_cnt
  /\ notify' = IF K = {} THEN notify ELSE notify \cup {t}
  /\ UNCHANGED <<config, now, waits>>

Tracked(t) == {k \in Keys : txn[t].tracked[k] # "none"}
Untracked == [k \in Keys |-> "none"]

\* ValidateSnapshot found a conflict: the key that was just locked is unlocked.
Conflict(t) ==
  /\ txn[t].pc = "conflict"
  /\ txn' = [txn EXCEPT ![t].pc = "idle", ![t].key = 0]
  /\ UnLock(t, {txn[t].key})

\* A batch that did not get a lock gives up those it has (LockBatch).
Failed(t) ==
  /\ txn[t].pc = "failed"
  /\ txn' = [txn EXCEPT ![t].pc = "destroy", ![t].tracked = Untracked]
  /\ UnLock(t, Tracked(t))

-----------------------------------------------------------------------------
(* The ends of a transaction.                                              *)

SetTxn(t, state, pc) == txn' = [txn EXCEPT ![t].state = state, ![t].pc = pc]

MayEnd(t) == txn[t].pc = "idle" /\ txn[t].state # "NEW" /\ t \notin notify

\* A batch ends when all is locked.
AllLocked(t) == Options[t].batch \subseteq Tracked(t)

\* Commit and CommitBatch, the check of the time
Commit(t) ==
  /\ MayEnd(t) /\ AllLocked(t)
  /\ txn[t].state \in {"STARTED", "LOCKS_STOLEN", "PREPARED"}
  /\ SetTxn(t, txn[t].state, IF IsExpired(t) THEN "idle" ELSE "commit")
  /\ UNCHANGED <<config, now, lockVars, notify>>

\* Mutant: the state is set without comparing it.
ToAwaitingCommitAlways(t) == TRUE

\* The compare-and-swap of an expiring transaction; otherwise a plain check
ToAwaitingCommit(t) ==
  txn[t].state = "STARTED" \/ (txn[t].expiration_time = 0 /\ txn[t].state = "PREPARED")

CommitState(t) ==
  /\ txn[t].pc = "commit"
  /\ IF ToAwaitingCommit(t)
     THEN SetTxn(t, "AWAITING_COMMIT",
                 IF txn[t].state = "PREPARED" THEN "write prepared" ELSE "write")
     ELSE SetTxn(t, txn[t].state, "idle")
  /\ UNCHANGED <<config, now, lockVars, notify>>

\* The write, then Clear. A failed write of a prepared transaction keeps the
\* locks.
WriteCommit(t) ==
  /\ txn[t].pc \in {"write", "write prepared"}
  /\ \/ /\ txn' = [txn EXCEPT ![t].state = "COMMITED", ![t].pc = "idle",
                              ![t].tracked = Untracked]
        /\ UnLock(t, Tracked(t))
     \/ /\ "write" \in Faults
        /\ IF txn[t].pc = "write"
           THEN /\ txn' = [txn EXCEPT ![t].pc = "idle", ![t].tracked = Untracked]
                /\ UnLock(t, Tracked(t))
           ELSE /\ SetTxn(t, "AWAITING_COMMIT", "idle")
                /\ UNCHANGED <<config, now, lockVars, notify>>

\* Prepare: as Commit, and the transaction does not expire any more.
Prepare(t) ==
  /\ MayEnd(t) /\ Options[t].prepare
  /\ txn[t].state \in {"STARTED", "LOCKS_STOLEN"}
  /\ ~IsExpired(t)
  /\ SetTxn(t, txn[t].state, "prepare")
  /\ UNCHANGED <<config, now, lockVars, notify>>

PrepareState(t) ==
  /\ txn[t].pc = "prepare"
  /\ IF txn[t].state = "STARTED"
     THEN \E ok \in {TRUE} \cup (IF "write" \in Faults THEN {FALSE} ELSE {}) :
            txn' = [txn EXCEPT
              ![t].state = IF ok THEN "PREPARED" ELSE "AWAITING_PREPARE",
              ![t].pc = "idle",
              ![t].expiration_time = 0]
     ELSE SetTxn(t, txn[t].state, "idle")
  /\ UNCHANGED <<config, now, lockVars, notify>>

\* Rollback. A transaction that is not prepared can go on with other keys.
Rollback(t) ==
  /\ MayEnd(t) /\ Options[t].batch = {}
  /\ \/ /\ txn[t].state = "STARTED"
        /\ Tracked(t) # {}
        /\ txn' = [txn EXCEPT ![t].tracked = Untracked]
        /\ UnLock(t, Tracked(t))
     \/ /\ txn[t].state = "PREPARED"
        /\ txn' = [txn EXCEPT ![t].state = "ROLLEDBACK", ![t].tracked = Untracked]
        /\ UnLock(t, Tracked(t))
     \/ /\ txn[t].state = "PREPARED"
        /\ "write" \in Faults
        /\ SetTxn(t, "AWAITING_ROLLBACK", "idle")
        /\ UNCHANGED <<config, now, lockVars, notify>>

\* ~TransactionImpl, at any time between two calls
Destroy(t) ==
  /\ txn[t].pc \in {"idle", "destroy"}
  /\ txn[t].state \notin {"NEW", "DESTROYED"}
  /\ t \notin notify
  /\ UnLock(t, Tracked(t))
  /\ txn' = [txn EXCEPT ![t] = [NewTxn EXCEPT
       !.state = "DESTROYED", !.listed = txn[t].listed /\ txn[t].expiration_time = 0]]

-----------------------------------------------------------------------------
Next ==
  \/ Tick
  \/ \E t \in Txns :
       \/ BeginTransaction(t)
       \/ \E k \in Keys, exclusive \in BOOLEAN : TryLock(t, k, exclusive)
       \/ Woken(t) \/ NotifyAll(t) \/ Conflict(t) \/ Failed(t)
       \/ Commit(t) \/ CommitState(t) \/ WriteCommit(t)
       \/ Prepare(t) \/ PrepareState(t) \/ Rollback(t) \/ Destroy(t)

Spec == Init /\ [][Next]_vars

-----------------------------------------------------------------------------
(* Properties.                                                             *)

\* The lock that t tracks on k is in the lock table.
IsHeld(t, k) ==
  /\ Holds(t, k)
  /\ txn[t].tracked[k] = "exclusive" => keys[k].exclusive /\ keys[k].ids = <<t>>

\* A transaction whose write is on its way to the database, or that is
\* prepared, has all the locks it ever got: nobody could steal one from it or
\* unlock one of its keys. A transaction that never expires has them all the
\* time.
WritersHoldLocks ==
  \A t \in Txns :
    txn[t].state \in {"AWAITING_COMMIT", "PREPARED"} \/ Options[t].expiration = 0
    => \A k \in Tracked(t) : IsHeld(t, k)

\* Waits for ever: no timeout and no expiration to wait for
Sleeps(t) == txn[t].pc = "waiting" /\ Options[t].timeout = "none" /\ txn[t].hint = 0

\* No transactions wait for each other for ever when all of them detect
\* deadlocks, and no batches, that lock in the order of their keys; and nobody
\* sleeps on a key that is free.
NoDeadlock ==
  \A S \in SUBSET Txns \ {{}} :
    ~ /\ \A t \in S : Sleeps(t) /\ ToSet(Others(t, keys[txn[t].key])) \subseteq S
      /\ notify = {}

\* The lock table is exact. No lock is left behind: every holder is a
\* transaction that still knows about it and will unlock it. And lock_cnt is
\* the number of locked keys, never above the limit (exclusive locks only: of a
\* shared lock every UnLockKey counts down).
LockTableExact ==
  /\ \A k \in Keys : \A t \in ToSet(keys[k].ids) :
       \/ txn[t].tracked[k] # "none"
       \/ txn[t].pc = "conflict" /\ txn[t].key = k
  /\ max_num_locks > 0 =>
       /\ lock_cnt = Cardinality({k \in Keys : keys[k].ids # <<>>})
       /\ lock_cnt <= max_num_locks

\* "If the number of locked keys is greater than max_num_locks, transaction
\* writes (or GetForUpdate) will return an error" (transaction_db.h): a thread
\* whose time is over while the limit is reached gives stripe_mutex back.
StripeReleased == StripeFree
=============================================================================
