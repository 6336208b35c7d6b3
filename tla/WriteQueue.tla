----------------------------- MODULE WriteQueue -----------------------------
(***************************************************************************)
(* What WriteThread promises to its callers: writers wait in one queue,    *)
(* the oldest one leads, it takes a group of writers that is a prefix of   *)
(* the queue, and nobody else leads until the group has left the queue.    *)
(* WriteThread, with its pointers, and DBWrite, which uses the queue, both *)
(* implement this specification.                                           *)
(***************************************************************************)
EXTENDS Naturals, Sequences

CONSTANT Writers

VARIABLES
  queue,  \* the writers linked, oldest first
  group   \* how many of them the current leader handles, 0 before it decided

vars == <<queue, group>>

InQueue(w) == \E k \in DOMAIN queue : queue[k] = w

Init == queue = <<>> /\ group = 0

\* A writer links itself as the newest one.
Link(w) ==
  /\ ~InQueue(w)
  /\ queue' = Append(queue, w)
  /\ UNCHANGED group

\* The oldest writer takes a group.
Enter ==
  /\ group = 0
  /\ group' \in 1 .. Len(queue)
  /\ UNCHANGED queue

\* The group leaves the queue.
Exit ==
  /\ group > 0
  /\ queue' = SubSeq(queue, group + 1, Len(queue))
  /\ group' = 0

Next == (\E w \in Writers : Link(w)) \/ Enter \/ Exit

Spec == Init /\ [][Next]_vars
=============================================================================
