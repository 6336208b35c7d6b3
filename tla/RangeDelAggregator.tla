------------------------- MODULE RangeDelAggregator -------------------------
(* RangeDelAggregator with collapsed deletions (db/range_del_aggregator.cc)*)
(* for one stripe: the tombstones of the files that a compaction or an     *)
(* iterator reads are collapsed into a map from start keys to sequence     *)
(* numbers, in which a tombstone extends to the next start key, and        *)
(* ShouldDelete keeps a position in the map from one call to the next.     *)
EXTENDS Integers, Sequences, FiniteSets, FiniteSetsExt, SequencesExt

CONSTANTS
  MaxKey,         \* the user keys are 1..MaxKey
  MaxSeq,         \* the numbers of tombstones are 1..MaxSeq
  MaxTombstones   \* at most this many are added

kMax == MaxSeq + 1

Keys == 1..MaxKey

\* [start, end) at a sequence number. The numbers are not distinct: fragments
\* of one tombstone come from several files.
RangeTombstones ==
  {t \in [start : Keys, end : Keys, seq : 1..MaxSeq] : t.start < t.end}

VARIABLES
  map,      \* raw_map, a multimap: <<start key, number>> in the order of the keys
  iter,     \* its position, Len(map) + 1 for end()
  mode,     \* the direction of the last calls of ShouldDelete
  asked,    \* the last key that was asked for
  found,    \* the number of the interval that ShouldDelete found there
  added,    \* the tombstones so far (history)
  sound     \* the assertions have held so far (history)

vars == <<map, iter, mode, asked, found, added, sound>>

Start(e) == e[1]
Number(e) == e[2]

\* multimap::emplace: behind the entries with the same key
UpperBound(m, key) == Cardinality({i \in DOMAIN m : Start(m[i]) <= key}) + 1
Emplace(m, e) == InsertAt(m, UpperBound(m, Start(e)), e)

-----------------------------------------------------------------------------
(* AddTombstone.                                                           *)

\* One round of the loop that merges the two end points into the map. s has
\* the map, the position it in it, the position new in the new end points,
\* untermed_seq, and whether the assertions held.
Overlap(s, points) ==
  LET old == s.map[s.it]
      point == points[s.new]
      \* the ends: nothing behind the last one
      oldEnd == IF s.it < Len(s.map) THEN Start(s.map[s.it + 1]) ELSE MaxKey + 1
      newEnd == IF s.new < 2 THEN Start(points[2]) ELSE MaxKey + 1
      asserted == Start(old) < newEnd /\ Start(point) < oldEnd
      changed ==
        CASE Start(point) < Start(old) /\ Number(old) < Number(point) ->
               IF s.it > 1 /\ Number(s.map[s.it - 1]) = Number(point)
               THEN [s EXCEPT !.untermed = Number(old),
                              !.map = RemoveAt(@, s.it), !.it = @ - 1]
               ELSE [s EXCEPT !.untermed = Number(old),
                              !.map[s.it] = <<Start(old), Number(point)>>]
          [] /\ Start(point) > Start(old)
             /\ s.untermed # kMax \/ Number(old) < Number(point) ->
               LET raised == IF s.untermed # kMax THEN s.untermed ELSE 0
               IN  [s EXCEPT !.untermed = Number(old),
                             !.map = Emplace(@, <<Start(point),
                                                  Max({raised, Number(point)})>>),
                             !.it = UpperBound(s.map, Start(point))]
          [] Start(point) = Start(old) /\ Number(old) < Number(point) ->
               [s EXCEPT !.untermed = Number(old),
                         !.map[s.it] = <<Start(old), Number(point)>>]
          [] OTHER -> s
  IN  [changed EXCEPT
         !.new = IF newEnd <= oldEnd THEN @ + 1 ELSE @,
         !.it = IF newEnd >= oldEnd THEN @ + 1 ELSE @,
         !.untermed = IF newEnd >= oldEnd THEN kMax ELSE @,
         !.sound = @ /\ asserted]

RECURSIVE Overlaps(_, _)
Overlaps(s, points) ==
  IF s.it <= Len(s.map) /\ s.new <= 2 THEN Overlaps(Overlap(s, points), points) ELSE s

\* The new tombstone is an end point with its number and one with number 0.
\* Those before the first start key are simply put in front of it; then the
\* last of them, or the first one, is where the overlap begins; what lies
\* behind the last start key is put at the end.
WithTombstone(m, t) ==
  LET points == <<<<t.start, t.seq>>, <<t.end, 0>>>>
      before == IF m = <<>> THEN 2
                ELSE Cardinality({i \in 1..2 : Start(points[i]) < Start(m[1])})
      front == IF before = 2 THEN Emplace(Emplace(m, points[1]), points[2])
               ELSE IF before = 1 THEN Emplace(m, points[1]) ELSE m
      s == Overlaps([map |-> front, new |-> 1, untermed |-> kMax, sound |-> TRUE,
                     it |-> UpperBound(front, t.start) - 1], points)
  IN  IF before = 2 THEN [map |-> front, sound |-> TRUE]
      ELSE [map |-> FoldLeft(Emplace, s.map, SubSeq(points, s.new, 2)), sound |-> s.sound]

\* AddTombstones with the tombstones of one more file: the positions are
\* invalidated first.
AddTombstones(t) ==
  /\ Cardinality(added) < MaxTombstones
  /\ map' = WithTombstone(map, t).map
  /\ sound' = (sound /\ WithTombstone(map, t).sound)
  /\ iter' = Len(map') + 1
  /\ added' = added \cup {t}
  /\ UNCHANGED <<mode, asked>>
  /\ found' = kMax

-----------------------------------------------------------------------------
(* ShouldDelete.                                                           *)

Before(key) == Start(map[1]) > key

\* Mutant: the walk stops in front of an interval that begins with the key.
ForwardShort(key) ==
  IF iter = 1 /\ Before(key) THEN 0
  ELSE Max({iter} \cup {i \in (iter + 1)..Len(map) : Start(map[i]) < key})

\* Where the modes look, from iter on; 0 before the first start key
Forward(key) ==
  IF iter = 1 /\ Before(key) THEN 0
  ELSE Max({iter} \cup {i \in (iter + 1)..Len(map) : Start(map[i]) <= key})

Backward(key) ==
  Max({0} \cup {i \in 1..iter : Start(map[i]) <= key})

BinarySearch(key) == UpperBound(map, key) - 1

Look(m, key) ==
  CASE m = "forward" /\ iter <= Len(map) -> Forward(key)
    [] m = "backward" /\ iter <= Len(map) -> Backward(key)
    [] OTHER -> BinarySearch(key)

\* A caller goes forward, goes backward, or has just sought.
ShouldDelete(m, key) ==
  /\ map # <<>>
  /\ m = "forward" => asked <= key
  /\ m = "backward" => asked >= key
  /\ LET i == Look(m, key)
     IN  /\ iter' = IF i = 0 THEN 1 ELSE i
         /\ found' = IF i = 0 THEN 0 ELSE Number(map[i])
         /\ sound' = (sound /\ (i > 0 => /\ Start(map[i]) <= key
                                         /\ i < Len(map) => key < Start(map[i + 1])))
  /\ asked' = key /\ mode' = m
  /\ UNCHANGED <<map, added>>

Init ==
  /\ map = <<>> /\ iter = 1 /\ mode = "binary" /\ asked = 1 /\ found = kMax
  /\ added = {} /\ sound = TRUE

Next ==
  \/ \E t \in RangeTombstones : AddTombstones(t)
  \/ \E m \in {"forward", "backward", "binary"}, k \in Keys : ShouldDelete(m, k)

Spec == Init /\ [][Next]_vars

-----------------------------------------------------------------------------
\* ShouldDelete finds the newest of the tombstones that cover the key, however
\* they were collapsed, in whatever order the files were opened and wherever it
\* looked before (range_del_aggregator.cc, AddTombstone, ShouldDelete), and the
\* assertions of both hold.
ShouldDeleteExact ==
  /\ sound
  /\ found # kMax =>
       found = Max({0} \cup {t.seq : t \in {x \in added : x.start <= asked /\ asked < x.end}})
=============================================================================
