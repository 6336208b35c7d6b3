----------------------------- MODULE DBRecovery -----------------------------
(***************************************************************************)
(* DBWrite with crashes: the log keeps what was synced and any further     *)
(* part of what was written, and DBImpl::RecoverLogFiles replays it.       *)
(* A replayed record numbers its batches anew, from the sequence number in *)
(* its header.                                                             *)
(***************************************************************************)
EXTENDS DBWrite, FiniteSetsExt

CONSTANT MaxCrashes  \* how many times the machine crashes

VARIABLE crashes

recoveryVars == <<vars, crashes>>

\* The sequence numbers that replaying a batch uses: a prepared transaction's
\* batch is set aside until its commit and uses none.
Consumes(w) == IF opt[w].disableMemtable THEN 0 ELSE opt[w].count

\* The sequence number at which MemTableInserter is when it has replayed the
\* batches of record i at the places ks.
ReplaySequence(i, ks) ==
  wal[i].seq + MapThenSumSet(LAMBDA k : Consumes(wal[i].batches[k]), ks)

\* The places before k in record i
Before(i, k) == {j \in DOMAIN wal[i].batches : j < k}

\* Mutant: the replay of a record ends with its first batch.
ReplayedFirst(i) ==
  UNION {{[writer |-> wal[i].batches[k], seq |-> wal[i].seq + j] :
            j \in 0 .. Consumes(wal[i].batches[k]) - 1} :
           k \in {k \in DOMAIN wal[i].batches : Before(i, k) = {}}}

\* The keys that InsertInto puts into the memtable when it replays record i.
Replayed(i) ==
  UNION {LET w == wal[i].batches[k] IN
         {[writer |-> w, seq |-> ReplaySequence(i, Before(i, k)) + j] :
            j \in 0 .. Consumes(w) - 1} : k \in DOMAIN wal[i].batches}

\* The sequence number of w's batch after the replay of the first n records.
ReplayedSeq(w, n) ==
  LET at == {s \in UNION {{<<i, k>> : k \in DOMAIN wal[i].batches} : i \in 1 .. n} :
               wal[s[1]].batches[s[2]] = w}
  IN IF at = {} THEN seq[w]
     ELSE LET s == CHOOSE s \in at : TRUE IN ReplaySequence(s[1], Before(s[1], s[2]))

RecoveryInit == Init /\ crashes = 0

\* Mutant: LastSequence is what the last record's header says.
RecoveredSequenceHeader(n) == IF n = 0 THEN 0 ELSE wal[n].seq

\* LastSequence after the replay of the first n records.
RecoveredSequence(n) ==
  IF n = 0 THEN 0 ELSE ReplaySequence(n, DOMAIN wal[n].batches) - 1

\* The machine crashes, and the database is opened again. The calls that had
\* not returned never do. LastSequence follows the last record replayed.
CrashAndRecover ==
  /\ crashes < MaxCrashes
  /\ crashes' = crashes + 1
  /\ \E n \in synced .. Len(wal) :
       /\ wal' = SubSeq(wal, 1, n)
       /\ synced' = n
       /\ mem' = UNION {Replayed(i) : i \in 1 .. n}
       /\ seq' = [w \in Writers |-> ReplayedSeq(w, n)]
       /\ LastSequence' = RecoveredSequence(n)
  /\ pc' = [w \in Writers |->
             IF pc[w] \in {"new", "returned"} THEN pc[w] ELSE "crashed"]
  /\ queue' = <<>>
  /\ size' = 0
  /\ running' = 0
  /\ phase' = "idle"
  /\ bgError' = FALSE
  /\ UNCHANGED <<opt, status, callbackOk, ledBy, ret, groupStatus, idx,
                 leaderStatus, nextSeq, parallel>>

RecoveryNext == (Next /\ UNCHANGED crashes) \/ CrashAndRecover

RecoverySpec == RecoveryInit /\ [][RecoveryNext]_recoveryVars

-----------------------------------------------------------------------------
(* Properties.                                                             *)

\* A write that was acknowledged after its log record was synced is in the
\* database after any crash, with all its keys.
SyncedSurvives ==
  \A w \in Writers :
    /\ ret[w] = "OK"
    /\ opt[w].sync /\ ~opt[w].disableWAL /\ ~opt[w].disableMemtable
    /\ LeaderWentThrough(w)
    => Keys(w, opt[w].count) \subseteq mem

\* The records of the log use disjoint, increasing ranges of sequence numbers,
\* also across crashes and after failed writes: RecoverLogFiles relies on it
\* to take LastSequence from the last record.
LogOrdered ==
  \A i, j \in DOMAIN wal : i < j =>
    ReplaySequence(i, DOMAIN wal[i].batches) <= wal[j].seq

\* A replay never numbers a key above the number it had before the crash, so
\* no key moves past a later write, although a batch without WAL in the middle
\* of a group makes the two numberings differ.
ReplayNotAhead ==
  \A w \in Writers :
    Applied(w) /\ ~opt[w].disableMemtable => ReplayedSeq(w, Len(wal)) <= seq[w]
=============================================================================
