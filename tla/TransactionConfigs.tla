------------------------- MODULE TransactionConfigs -------------------------
(* How three transactions use two keys: values for Configs of              *)
(* TransactionLocks.                                                       *)
EXTENDS Naturals

CONSTANTS t1, t2, t3

MCTxns == {t1, t2, t3}
MCKeys == {1, 2}

PlainTxn == [expiration |-> 0, detect |-> FALSE, timeout |-> "none",
             modes |-> {TRUE}, batch |-> {}, prepare |-> FALSE]
Detecting == [PlainTxn EXCEPT !.detect = TRUE, !.modes = BOOLEAN]
Expiring == [PlainTxn EXCEPT !.expiration = 1, !.timeout = "some"]
Sharing == [Expiring EXCEPT !.modes = BOOLEAN]
TwoPhase == [Expiring EXCEPT !.prepare = TRUE]
Batch == [PlainTxn EXCEPT !.batch = MCKeys]
Impatient == [PlainTxn EXCEPT !.timeout = "zero", !.modes = BOOLEAN]
Limited == [PlainTxn EXCEPT !.timeout = "some"]

\* One transaction of each kind
Mixed(a, b, c) ==
  {txns \in [MCTxns -> {a, b, c}] : {txns[t] : t \in MCTxns} = {a, b, c}}
Same(o) == [t \in MCTxns |-> o]
NoLimit(txns) ==
  [max_num_locks |-> 0, deadlock_detect_depth |-> 4, faults |-> {}, txns |-> txns]

AllBatches == NoLimit(Same(Batch))

\* All detect deadlocks; all are batches; exclusive locks with a limit on their
\* number; and expiring ones with a batch.
MCConfigs ==
  {NoLimit(Same(Detecting)),
   AllBatches,
   [NoLimit(Same(Limited)) EXCEPT !.max_num_locks = 1, !.faults = {"conflict"}]}
  \cup {[NoLimit(txns) EXCEPT !.faults = {"write"}] :
          txns \in Mixed(Expiring, TwoPhase, [Batch EXCEPT !.batch = {1}])}

\* A transaction that does not expire shares a lock with one that does.
SharedConfigs == {NoLimit(txns) : txns \in Mixed(Sharing, Impatient, Limited)}

\* Shared locks with a limit on their number
LimitConfigs == {[NoLimit(Same(Impatient)) EXCEPT !.max_num_locks = 2]}
=============================================================================
