------------------------------- MODULE DBIter -------------------------------
(* DBIter (db/db_iter.cc): the iterator of the user, which shows the value *)
(* of every user key at sequence_ on top of an internal iterator over all  *)
(* records, forward and backward, by stepping or, after too many skips,    *)
(* by seeking. One action is one call; writes to the memtable under the    *)
(* internal iterator come between two calls. Prefixes, corrupted keys and  *)
(* max_skippable_internal_keys are not used, and a merge does not fail:    *)
(* the code would only set status_ and go on.                              *)
EXTENDS InternalKeys

CONSTANTS
  MaxKey,       \* the user keys are 1..MaxKey
  Types,        \* the kinds of writes; RANGE deletes the keys from 1 on
  MaxWrites,    \* the number of writes before the iterator is created
  Options,      \* pairs of values of max_sequential_skip_in_iterations and
                \* iterate_upper_bound; MaxKey + 1 for no bound
  MaxInserts    \* at most this many writes come later

Keys == 1..MaxKey
MaxSequence == MaxWrites + MaxInserts + 1
Nil == [key |-> 0, seq |-> 0, type |-> "NIL", val |-> <<>>]

VARIABLES
  data,         \* the records of the memtables and tables
  tombstones,   \* the range tombstones: <<key, number>> covers the keys 1..key
  sequence,     \* sequence_, the snapshot of the iterator
  max_skip, upper_bound,
  db,           \* the members of the DBIter
  expected      \* what the last call should find: a key, 0 for none (history)

vars == <<data, tombstones, sequence, max_skip, upper_bound, db, expected>>
params == <<tombstones, sequence, max_skip, upper_bound>>

-----------------------------------------------------------------------------
(* The internal iterator: a record, or Nil when it is not Valid().         *)

Least(S) == IF S = {} THEN Nil ELSE CHOOSE r \in S : \A x \in S : x = r \/ Less(r, x)
Greatest(S) == IF S = {} THEN Nil ELSE CHOOSE r \in S : \A x \in S : x = r \/ Less(x, r)

IterNext(r) == Least({x \in data : Less(r, x)})
IterPrev(r) == Greatest({x \in data : Less(x, r)})
IterSeek(key, seq) == Least({x \in data : ~Less(x, Record(key, seq, "PUT"))})
IterSeekForPrev(key) == Greatest({x \in data : x.key <= key})
\* Seek to the smallest type of number 0 of the key: behind all its records
IterSeekBehind(key) == Least({x \in data : x.key > key})

\* RangeDelAggregator::ShouldDelete at the iterator's snapshot
Covering(key) == {t[2] : t \in {x \in tombstones : key <= x[1]}}
ShouldDelete(rec) == \E t \in Covering(rec.key) : rec.seq < t /\ t <= sequence

Deletion == {"DELETE", "SINGLE_DELETE"}

-----------------------------------------------------------------------------
(* Forward.                                                                *)

\* MergeValuesNewToOld from the newest operand on: the value, and where iter_
\* is left
RECURSIVE MergeValuesNewToOld(_, _, _)
MergeValuesNewToOld(key, rec, operands) ==
  CASE rec = Nil \/ rec.key # key ->
         [value |-> Combined(<<>>, operands), iter |-> rec]
    [] rec.key = key /\ (rec.type \in Deletion \/ ShouldDelete(rec)) ->
         [value |-> Combined(<<>>, operands), iter |-> IterNext(rec)]
    [] rec.key = key /\ rec.type = "PUT" /\ ~ShouldDelete(rec) ->
         [value |-> Combined(rec.val, operands), iter |-> IterNext(rec)]
    [] OTHER -> MergeValuesNewToOld(key, IterNext(rec), Append(operands, rec))

\* The end of a round: the next record, or a seek if too many were skipped
AfterSkip(s, skipping, n) ==
  IF n > max_skip
  THEN [s |-> [s EXCEPT !.iter = IF skipping THEN IterSeekBehind(s.saved_key)
                                 ELSE IterSeek(s.saved_key, sequence)],
        skipping |-> skipping, n |-> 0]
  ELSE [s |-> [s EXCEPT !.iter = IterNext(@)], skipping |-> skipping, n |-> n]

\* The rounds of FindNextUserEntryInternal from s.iter on; n is num_skipped
RECURSIVE NextRounds(_, _, _)
NextRounds(s, skipping, n) ==
  LET rec == s.iter
      seen == [s EXCEPT !.saved_key = rec.key]
      go(a) == NextRounds(a.s, a.skipping, a.n)
      merged == MergeValuesNewToOld(rec.key, IterNext(rec), <<rec>>)
  IN  CASE rec = Nil -> [s EXCEPT !.valid = FALSE]
        [] rec # Nil /\ rec.key >= upper_bound -> [s EXCEPT !.valid = FALSE]
        [] OTHER ->
           IF rec.seq <= sequence
           THEN IF skipping /\ rec.key <= s.saved_key
                THEN go(AfterSkip(s, skipping, n + 1))
                ELSE IF rec.type \in Deletion \/ ShouldDelete(rec)
                THEN go(AfterSkip(seen, TRUE, 0))
                ELSE IF rec.type = "PUT"
                THEN [seen EXCEPT !.valid = TRUE]
                ELSE [seen EXCEPT !.valid = TRUE, !.merged = TRUE,
                                  !.value = merged.value, !.iter = merged.iter]
           ELSE IF rec.key <= s.saved_key
                THEN go(AfterSkip(s, skipping, n + 1))
                ELSE go(AfterSkip(seen, FALSE, 0))

FindNextUserEntry(s, skipping) == NextRounds([s EXCEPT !.merged = FALSE], skipping, 0)

-----------------------------------------------------------------------------
(* Backward.                                                               *)

\* FindPrevUserKey: before all records of saved_key_, and before newer ones
\* that were written meanwhile. n is num_skipped.
RECURSIVE FindPrevUserKey(_, _, _)
FindPrevUserKey(key, rec, n) ==
  IF rec # Nil /\ (rec.key = key \/ (rec.key > key /\ rec.seq > sequence))
  THEN IF rec.key = key /\ n >= max_skip
       THEN FindPrevUserKey(key, IterPrev(IterSeek(key, MaxSequence)), 0)
       ELSE FindPrevUserKey(key, IterPrev(rec), IF rec.key = key THEN n + 1 ELSE n)
  ELSE rec

\* FindValueForCurrentKeyUsingSeek
Found(value, merged, iter) ==
  [found |-> TRUE, value |-> value, merged |-> merged, iter |-> iter]
NotFound(iter) == [found |-> FALSE, value |-> <<>>, merged |-> FALSE, iter |-> iter]

RECURSIVE OperandsFrom(_, _)
OperandsFrom(key, rec) ==
  IF rec # Nil /\ rec.key = key /\ rec.type = "MERGE" /\ ~ShouldDelete(rec)
  THEN LET rest == OperandsFrom(key, IterNext(rec))
       IN  [operands |-> <<rec>> \o rest.operands, iter |-> rest.iter]
  ELSE [operands |-> <<>>, iter |-> rec]

FindValueForCurrentKeyUsingSeek(key) ==
  LET first == IterSeek(key, sequence)
      run == OperandsFrom(key, first)
      end == run.iter
  IN  CASE first.type \in Deletion \/ ShouldDelete(first) -> NotFound(first)
        [] first.type = "PUT" /\ ~ShouldDelete(first) -> Found(first.val, FALSE, first)
        [] OTHER ->
           IF end = Nil \/ end.key # key
           THEN Found(Combined(<<>>, run.operands), TRUE, IterSeek(key, sequence))
           ELSE IF end.type \in Deletion \/ ShouldDelete(end)
           THEN Found(Combined(<<>>, run.operands), TRUE, end)
           ELSE Found(Combined(end.val, run.operands), TRUE, end)

\* FindValueForCurrentKey: from the oldest record of the key upwards. The value
\* so far is that of the last record that is no operand, with the operands
\* (newest first) since then.
RECURSIVE ValueForCurrentKey(_, _, _, _, _, _)
ValueForCurrentKey(key, rec, last, base, operands, n) ==
  IF rec # Nil /\ rec.seq <= sequence /\ rec.key = key
  THEN IF n >= max_skip THEN FindValueForCurrentKeyUsingSeek(key)
       ELSE IF rec.type \in Deletion \/ ShouldDelete(rec)
       THEN ValueForCurrentKey(key, IterPrev(rec), "DELETE", <<>>, <<>>, n + 1)
       ELSE IF rec.type = "PUT"
       THEN ValueForCurrentKey(key, IterPrev(rec), "PUT", rec.val, <<>>, n + 1)
       ELSE ValueForCurrentKey(key, IterPrev(rec), "MERGE", base,
                               <<rec>> \o operands, n + 1)
  ELSE CASE last = "DELETE" -> NotFound(rec)
         [] last = "MERGE" -> Found(Combined(base, operands), TRUE, rec)
         [] last = "PUT" -> Found(base, FALSE, rec)

FindValueForCurrentKey(key, rec) == ValueForCurrentKey(key, rec, "DELETE", <<>>, <<>>, 0)

\* The end of a round of PrevInternal
BeforeKey(key, rec) ==
  IF rec # Nil /\ rec.key = key THEN FindPrevUserKey(key, rec, 0) ELSE rec

RECURSIVE PrevInternal(_)
PrevInternal(s) ==
  LET key == s.iter.key
      f == FindValueForCurrentKey(key, s.iter)
      next == [s EXCEPT !.saved_key = key, !.merged = f.merged,
                        !.iter = BeforeKey(key, f.iter)]
  IN  IF s.iter = Nil THEN [s EXCEPT !.valid = FALSE]
      ELSE IF f.found THEN [next EXCEPT !.valid = TRUE, !.value = f.value]
      ELSE PrevInternal(next)

-----------------------------------------------------------------------------
(* The calls.                                                              *)

\* The keys that the snapshot has
Value(key) == Read(data, Covering(key), key, sequence)
Visible == {k \in Keys : Value(k) # <<>>}

MaxOrNone(S) == IF S = {} THEN 0 ELSE Max(S)
MinOrNone(S) == IF S = {} THEN 0 ELSE Min(S)
Below(S) == {k \in S : k < upper_bound}

Do(s, e) == db' = s /\ expected' = e /\ UNCHANGED <<data, params>>

Seek(target) ==
  LET s == [db EXCEPT !.saved_key = target, !.iter = IterSeek(target, sequence)]
  IN  Do(IF s.iter # Nil
         THEN FindNextUserEntry([s EXCEPT !.direction = "forward"], FALSE)
         ELSE [s EXCEPT !.valid = FALSE],
         MinOrNone(Below({k \in Visible : k >= target})))

SeekForPrevState(s, target) ==
  LET t == [s EXCEPT !.saved_key = target, !.iter = IterSeekForPrev(target)]
  IN  IF t.iter # Nil THEN PrevInternal([t EXCEPT !.direction = "reverse"])
      ELSE [t EXCEPT !.valid = FALSE]

SeekForPrev(target) ==
  Do(SeekForPrevState(db, target), MaxOrNone({k \in Visible : k <= target}))

SeekToFirst ==
  LET s == [db EXCEPT !.direction = "forward", !.iter = Least(data)]
  IN  Do(IF s.iter # Nil
         THEN FindNextUserEntry([s EXCEPT !.saved_key = s.iter.key], FALSE)
         ELSE [s EXCEPT !.valid = FALSE],
         MinOrNone(Below(Visible)))

\* Mutant: iter_ is taken to be at the key although a merge moved it on.
ReverseToBackwardDirect(s) ==
  [s EXCEPT !.iter = FindPrevUserKey(s.saved_key, s.iter, 0), !.direction = "reverse"]

\* ReverseToBackward: a merge has left iter_ behind the key.
ReverseToBackward(s) ==
  LET last == IF s.iter = Nil THEN Greatest(data) ELSE s.iter
      at == IF s.merged THEN (IF last.key > s.saved_key THEN IterSeekForPrev(s.saved_key)
                              ELSE last)
            ELSE s.iter
  IN  [s EXCEPT !.iter = FindPrevUserKey(s.saved_key, at, 0), !.direction = "reverse"]

\* ReverseToForward: to the first record of the key, or of all
ReverseToForward(s) ==
  LET at == Least({x \in data : x.key = s.saved_key /\ ~Less(x, s.iter)})
  IN  [s EXCEPT !.direction = "forward",
                !.iter = IF s.iter = Nil \/ at = Nil THEN Least(data) ELSE at]

PrevState(s) ==
  PrevInternal(IF s.direction = "forward" THEN ReverseToBackward(s) ELSE s)

SeekToLast ==
  LET s == [db EXCEPT !.direction = "reverse", !.iter = Greatest(data)]
      p == SeekForPrevState(s, upper_bound)
  IN  Do(IF s.iter # Nil /\ upper_bound <= MaxKey
         THEN IF p.valid /\ p.saved_key = upper_bound THEN PrevState(p) ELSE p
         ELSE PrevInternal(s),
         MaxOrNone(Below(Visible)))

NextCall ==
  /\ db.valid
  /\ LET s == IF db.direction = "reverse" THEN ReverseToForward(db)
              ELSE IF db.iter # Nil /\ ~db.merged
              THEN [db EXCEPT !.iter = IterNext(@)] ELSE db
     IN  Do(IF s.iter = Nil THEN [s EXCEPT !.valid = FALSE]
            ELSE FindNextUserEntry(s, TRUE),
            MinOrNone(Below({k \in Visible : k > db.saved_key})))

PrevCall ==
  /\ db.valid
  /\ Do(PrevState(db), MaxOrNone({k \in Visible : k < db.saved_key}))

\* Another write reaches the memtable.
Insert(key, type) ==
  LET seq == Max({r.seq : r \in data} \cup {MaxWrites}) + 1
  IN  /\ seq <= MaxWrites + MaxInserts
      /\ data' = data \cup {Record(key, seq, type)}
      /\ UNCHANGED <<params, db, expected>>

Init ==
  /\ \E h \in [1..MaxWrites -> Keys \X Types] :
       /\ data = {Record(h[i][1], i, h[i][2]) : i \in {j \in 1..MaxWrites : h[j][2] # "RANGE"}}
       /\ tombstones = {<<h[i][1], i>> : i \in {j \in 1..MaxWrites : h[j][2] = "RANGE"}}
  /\ sequence = MaxWrites
  /\ \E o \in Options : max_skip = o[1] /\ upper_bound = o[2]
  /\ db = [iter |-> Nil, saved_key |-> 0, direction |-> "forward", valid |-> FALSE,
           merged |-> FALSE, value |-> <<>>]
  /\ expected = 0

Next ==
  \/ \E k \in Keys : Seek(k) \/ SeekForPrev(k)
  \/ SeekToFirst \/ SeekToLast \/ NextCall \/ PrevCall
  \/ \E k \in Keys : Insert(k, "PUT")

Spec == Init /\ [][Next]_vars

-----------------------------------------------------------------------------
\* value()
CurrentValue ==
  IF db.merged \/ db.direction = "reverse" THEN db.value ELSE db.iter.val

\* After any sequence of calls the iterator is at the key that the snapshot has
\* there, with the value that a read at the snapshot returns, or not valid if
\* there is none, whatever is written meanwhile and whether it steps or seeks
\* (db_iter.cc, FindNextUserEntryInternal, MergeValuesNewToOld, PrevInternal,
\* FindValueForCurrentKey, ReverseToForward, ReverseToBackward).
IteratorExact ==
  IF expected = 0 THEN ~db.valid
  ELSE db.valid /\ db.saved_key = expected /\ CurrentValue = Value(expected)
=============================================================================
