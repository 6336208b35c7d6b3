--------------------------- MODULE InternalKeys -----------------------------
(* Internal keys (db/dbformat.h): records with a user key, a sequence      *)
(* number and a type, and what a read at a sequence number makes of them.  *)
(* A value is the sequence of the writes that made it up, oldest first, so *)
(* that merging operands is putting them behind the base value.            *)
EXTENDS Integers, Sequences, FiniteSets, FiniteSetsExt, SequencesExt

\* Write number seq of a kind of write to a user key
Record(key, seq, type) ==
  [key |-> key, seq |-> seq, type |-> type,
   val |-> IF type \in {"PUT", "MERGE"} THEN <<seq>> ELSE <<>>]

\* InternalKeyComparator: user keys ascending, numbers descending
Less(a, b) == a.key < b.key \/ (a.key = b.key /\ a.seq > b.seq)

\* The value of operands (newest first) on a base value: a full merge
Combined(base, operands) ==
  base \o FlattenSeq(Reverse([i \in DOMAIN operands |-> operands[i].val]))

\* What a read of key at a sequence number finds in a set of records, under a
\* set of the numbers of the range tombstones that cover the key: the newest
\* record that is not a merge operand, and the operands above it. The empty
\* sequence stands for no value.
Read(recs, tombstones, key, snapshot) ==
  LET seen == {r \in recs : /\ r.key = key /\ r.seq <= snapshot
                            /\ ~\E t \in tombstones : r.seq < t /\ t <= snapshot}
      base == Max({r.seq : r \in {x \in seen : x.type # "MERGE"}} \cup {-1})
      above == SetToSortSeq({r \in seen : r.seq > base}, LAMBDA x, y : x.seq > y.seq)
      bottom == {r.val : r \in {x \in seen : x.seq = base /\ x.type = "PUT"}}
  IN  Combined(IF bottom = {} THEN <<>> ELSE CHOOSE v \in bottom : TRUE, above)
=============================================================================
