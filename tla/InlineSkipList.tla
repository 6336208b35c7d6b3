--------------------------- MODULE InlineSkipList ---------------------------
(* InlineSkipList (memtable/inlineskiplist.h), the memtable: threads link  *)
(* nodes with compare-and-swap (InsertConcurrently), or one thread alone   *)
(* with the Splice it has kept (Insert, InsertWithHint), while others      *)
(* search without any lock. A node is its key; 0 is head_, and Null is     *)
(* nullptr, which counts as infinite. The atomics are sequentially         *)
(* consistent.                                                             *)
EXTENDS Integers, FiniteSets, FiniteSetsExt

CONSTANTS
  MaxKey,       \* the keys are 1..MaxKey
  kMaxHeight,
  Threads,      \* threads that insert
  Readers,      \* threads that search
  SearchKeys    \* bound: the keys they search for

Keys == 1..MaxKey
Null == MaxKey + 1
Levels == 0..(kMaxHeight - 1)

VARIABLES
  next,         \* next_ of every node and level
  max_height,
  kept,         \* seq_splice_, or the one of a hint
  ins,          \* the Insert of a thread
  rd,           \* the search of a reader
  linked        \* the keys that were linked in each level (history)

vars == <<next, max_height, kept, ins, rd, linked>>

NoSplice == [height |-> 0, prev |-> [i \in 0..kMaxHeight |-> 0],
             next |-> [i \in 0..kMaxHeight |-> Null]]
NoInsert == [pc |-> "idle", key |-> 0, height |-> 0, cas |-> TRUE, hint |-> FALSE,
             max |-> 0, level |-> 0, splice |-> NoSplice, recompute |-> 0,
             before |-> 0, after |-> Null]
NoSearch == [pc |-> "idle", key |-> 0, less |-> FALSE, x |-> 0, level |-> 0,
             last |-> Null, found |-> 0, old |-> {}]

KeyIsAfterNode(key, n) == n < key

Used == {ins[t].key : t \in Threads} \cup linked[0]
Set(t, i) == ins' = [ins EXCEPT ![t] = i]

-----------------------------------------------------------------------------
(* Insert.                                                                 *)

Tight(s, level) == next[s.prev[level]][level] = s.next[level]

\* The lowest level from the given one on where the Splice brackets the key;
\* max if there is none
RECURSIVE RecomputeHeight(_, _, _, _, _)
RecomputeHeight(s, key, max, hint, level) ==
  LET above(bad(_)) == Min({l \in level..max : ~bad(l)})
      skip(bad(_)) == IF hint THEN above(bad) ELSE max
  IN  IF level >= max THEN level
      ELSE IF ~Tight(s, level) THEN RecomputeHeight(s, key, max, hint, level + 1)
      ELSE IF s.prev[level] # 0 /\ ~KeyIsAfterNode(key, s.prev[level])
      THEN RecomputeHeight(s, key, max, hint, skip(LAMBDA l : s.prev[l] = s.prev[level]))
      ELSE IF KeyIsAfterNode(key, s.next[level])
      THEN RecomputeHeight(s, key, max, hint, skip(LAMBDA l : s.next[l] = s.next[level]))
      ELSE level

\* The search for level i begins at the level above (RecomputeSpliceLevels).
Descend(i, level) ==
  [i EXCEPT !.pc = "find", !.level = level, !.before = i.splice.prev[level + 1],
            !.after = i.splice.next[level + 1]]

\* What of the Splice is used: all of it, or the levels from recompute on
CheckSplice(i) ==
  LET fresh == [i.splice EXCEPT !.prev[i.max] = 0, !.next[i.max] = Null, !.height = i.max]
      new == i.splice.height < i.max
      recompute == IF new THEN i.max
                   ELSE RecomputeHeight(i.splice, i.key, i.max, i.hint, 0)
      j == [i EXCEPT !.splice = IF new THEN fresh ELSE @, !.recompute = recompute]
  IN  IF recompute > 0 THEN Descend(j, recompute - 1)
      ELSE [j EXCEPT !.pc = "link", !.level = 0]

\* A write group inserts concurrently, or one thread inserts alone. height is
\* RandomHeight().
Start(t, key, height, cas, hint) ==
  LET i == [NoInsert EXCEPT !.key = key, !.height = height, !.cas = cas, !.hint = hint,
                            !.max = max_height, !.splice = IF cas THEN NoSplice ELSE kept]
  IN  /\ ins[t].pc = "idle" /\ key \notin Used
      /\ \A u \in Threads : ins[u].pc # "idle" => cas /\ ins[u].cas
      /\ hint => ~cas
      /\ Set(t, IF height > max_height THEN [i EXCEPT !.pc = "height"] ELSE CheckSplice(i))
      /\ UNCHANGED <<next, max_height, kept, rd, linked>>

\* A round of the loop that raises max_height_ by compare-and-swap
RaiseHeight(t) ==
  LET i == ins[t]
  IN  /\ i.pc = "height"
      /\ IF max_height = i.max
         THEN max_height' = i.height /\ Set(t, CheckSplice([i EXCEPT !.max = i.height]))
         ELSE /\ Set(t, IF i.height > max_height THEN [i EXCEPT !.max = max_height]
                        ELSE CheckSplice([i EXCEPT !.max = max_height]))
              /\ UNCHANGED max_height
      /\ UNCHANGED <<next, kept, rd, linked>>

\* A round of FindSpliceForLevel, before the levels are linked ("find") or after
\* one could not be ("again")
FindSpliceForLevel(t) ==
  LET i == ins[t]
      n == next[i.before][i.level]
      found == [i EXCEPT !.splice.prev[i.level] = i.before, !.splice.next[i.level] = n]
  IN  /\ i.pc \in {"find", "again"}
      /\ Set(t, IF n # i.after /\ KeyIsAfterNode(i.key, n) THEN [i EXCEPT !.before = n]
                ELSE IF i.pc = "find" /\ i.level > 0 THEN Descend(found, i.level - 1)
                ELSE [found EXCEPT !.pc = "link"])
      /\ UNCHANGED <<next, max_height, kept, rd, linked>>

\* Mutant: above the lowest level the pointer is stored without a comparison.
LinkedAbove(i) == i.level > 0 \/ next[i.splice.prev[i.level]][i.level] = i.splice.next[i.level]

\* The compare-and-swap of prev_[level]->next_ succeeds.
Linked(i) == next[i.splice.prev[i.level]][i.level] = i.splice.next[i.level]

\* Search the level again, from the node before
Again(i) ==
  [i EXCEPT !.pc = "again", !.before = i.splice.prev[i.level], !.after = Null]

\* The Splice is kept behind the new node.
Behind(i) ==
  [i.splice EXCEPT !.prev = [l \in 0..kMaxHeight |-> IF l < i.height THEN i.key ELSE @[l]]]

Link(t) ==
  LET i == ins[t]
      stale == ~i.cas /\ i.level >= i.recompute /\ ~Tight(i.splice, i.level)
      last == i.level = i.height - 1
      done == ~stale /\ (i.cas => Linked(i))
  IN  /\ i.pc = "link"
      /\ IF done
         THEN /\ next' = [next EXCEPT ![i.key][i.level] = i.splice.next[i.level],
                                      ![i.splice.prev[i.level]][i.level] = i.key]
              /\ Set(t, IF last THEN NoInsert ELSE [i EXCEPT !.level = @ + 1])
              /\ linked' = [linked EXCEPT ![i.level] = @ \cup {i.key}]
         ELSE Set(t, Again(i)) /\ UNCHANGED <<next, linked>>
      /\ kept' = IF done /\ last /\ ~i.cas THEN Behind(i) ELSE kept
      /\ UNCHANGED <<max_height, rd>>

-----------------------------------------------------------------------------
(* The searches: FindGreaterOrEqual, FindLessThan, and FindLast, which is  *)
(* FindLessThan of nullptr. last is last_bigger or last_not_after: the     *)
(* node that ended the level above is not compared again.                  *)

Search(r, key, less) ==
  /\ rd[r].pc = "idle"
  /\ rd' = [rd EXCEPT ![r] = [NoSearch EXCEPT !.pc = "search", !.key = key, !.less = less,
                                              !.level = max_height - 1, !.old = linked[0]]]
  /\ UNCHANGED <<next, max_height, kept, ins, linked>>

\* Mutant: the first node that is not before the key is taken at any level.
StopsAbove(s, n) == s.level = 0 \/ (~s.less /\ n # s.last /\ n >= s.key)

\* At the bottom, or at the key itself, which FindGreaterOrEqual may meet above
Stops(s, n) == s.level = 0 \/ (~s.less /\ n # s.last /\ n = s.key)

SearchStep(r) ==
  LET s == rd[r]
      n == next[s.x][s.level]
  IN  /\ s.pc = "search"
      /\ rd' = [rd EXCEPT ![r] =
           IF n # s.last /\ KeyIsAfterNode(s.key, n) THEN [s EXCEPT !.x = n]
           ELSE IF Stops(s, n) THEN [s EXCEPT !.pc = "found", !.found = IF s.less THEN s.x ELSE n]
           ELSE [s EXCEPT !.level = @ - 1, !.last = n]]
      /\ UNCHANGED <<next, max_height, kept, ins, linked>>

Return(r) ==
  /\ rd[r].pc = "found" /\ rd' = [rd EXCEPT ![r] = NoSearch]
  /\ UNCHANGED <<next, max_height, kept, ins, linked>>

Init ==
  /\ next = [n \in 0..MaxKey |-> [l \in Levels |-> Null]]
  /\ max_height = 1 /\ kept = NoSplice /\ linked = [l \in Levels |-> {}]
  /\ ins = [t \in Threads |-> NoInsert] /\ rd = [r \in Readers |-> NoSearch]

Next ==
  \/ \E t \in Threads :
       \/ \E k \in Keys, h \in 1..kMaxHeight, cas, hint \in BOOLEAN : Start(t, k, h, cas, hint)
       \/ RaiseHeight(t) \/ FindSpliceForLevel(t) \/ Link(t)
  \/ \E r \in Readers :
       \/ \E k \in SearchKeys, less \in BOOLEAN : Search(r, k, less)
       \/ Search(r, Null, TRUE)
       \/ SearchStep(r) \/ Return(r)

Spec == Init /\ [][Next]_vars

-----------------------------------------------------------------------------
\* The nodes of a level behind one
RECURSIVE OnLevel(_, _)
OnLevel(n, level) == IF n = Null THEN {} ELSE {n} \cup OnLevel(next[n][level], level)

\* Every level is sorted and holds exactly the nodes that were linked in it, all of
\* them nodes of the level below, however the threads come in between each other;
\* and the Splice of a thread that links a node brackets its key
\* (inlineskiplist.h, Insert, FindSpliceForLevel, RecomputeSpliceLevels,
\* TEST_Validate).
LevelsSorted ==
  /\ \A n \in 0..MaxKey, l \in Levels : n < next[n][l]
  /\ \A l \in Levels : OnLevel(next[0][l], l) = linked[l]
  /\ \A l \in Levels \ {0} : linked[l] \subseteq linked[l - 1]
  /\ \A t \in Threads : ins[t].pc = "link" =>
       /\ ins[t].splice.prev[ins[t].level] < ins[t].key
       /\ ins[t].key < ins[t].splice.next[ins[t].level]

\* A search without a lock misses no key that was there when it began:
\* FindGreaterOrEqual returns no key behind the first such key, FindLessThan and
\* FindLast none before the last such key (inlineskiplist.h).
SearchExact ==
  \A r \in Readers : LET s == rd[r] IN
    s.pc = "found" =>
      IF s.less THEN s.found < s.key /\ \A k \in s.old : k < s.key => k <= s.found
      ELSE s.found >= s.key /\ \A k \in s.old : k >= s.key => s.found <= k
=============================================================================
