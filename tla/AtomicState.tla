---------------------------- MODULE AtomicState -----------------------------
(***************************************************************************)
(* What WriteThread::SetState and AwaitState promise about Writer::state:  *)
(* the waker sets it in one step, and the owner of the Writer waits for it *)
(* and sees each of the waker's states in turn.                            *)
(***************************************************************************)
EXTENDS Naturals

CONSTANT States  \* the states that the waker sets

VARIABLES
  word,    \* Writer::state
  set,     \* how many states the waker has set
  seen     \* how many the owner has seen

vars == <<word, set, seen>>

Init == word = "INIT" /\ set = 0 /\ seen = 0

\* The waker sets the next state, after the owner has seen the one before:
\* it is the owner's answer (its memtable insert) that the waker goes on with.
SetState ==
  /\ seen = set
  /\ word' \in States
  /\ set' = set + 1
  /\ UNCHANGED seen

\* AwaitState returns.
AwaitState ==
  /\ seen < set
  /\ seen' = seen + 1
  /\ UNCHANGED <<word, set>>

Next == SetState \/ AwaitState

Spec == Init /\ [][Next]_vars
=============================================================================
