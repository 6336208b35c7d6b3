----------------------------- MODULE AwaitState -----------------------------
(***************************************************************************)
(* The handshake on Writer::state between the owner of a Writer, who waits *)
(* (WriteThread::AwaitState, BlockingAwaitState), and the thread that      *)
(* wakes it (SetState). The owner spins, and then says by                  *)
(* STATE_LOCKED_WAITING that it is about to sleep on a mutex and a         *)
(* condition variable, which it makes only then.                           *)
(*                                                                         *)
(* One action is one access to Writer::state, or what is done while        *)
(* StateMutex is held. The states of a Writer's life come from a script;   *)
(* each is set after the owner has seen the one before. The waker is       *)
(* whoever sets the next one. (A leader also sets its own state, when no   *)
(* other thread does; that is left out.)                                   *)
(***************************************************************************)
EXTENDS Naturals, Sequences

CONSTANT Scripts  \* the lives of a Writer, as other threads set its state:
                  \* non-empty sequences of States

States == {"LEADER", "MEMTABLE_LEADER", "PARALLEL", "COMPLETED"}

\* The states that the code sets one after the other: a leader becomes a
\* memtable leader, a parallel writer or completes, everybody else completes,
\* and a completed writer waits no more.
Legal ==
  \A s \in Scripts :
    /\ s \in Seq(States) /\ Len(s) >= 1
    /\ \A k \in 1 .. Len(s) - 1 :
         IF s[k] = "LEADER" THEN s[k + 1] \in States \ {"LEADER"}
         ELSE s[k] # "COMPLETED" /\ s[k + 1] = "COMPLETED"

VARIABLES
  script,     \* the life of this Writer
  state,      \* Writer::state
  waitable,   \* Writer::made_waitable
  opc,        \* the owner's control point
  ostate,     \* its local variable state
  asleep,     \* it is in StateCV().wait, not notified
  wpc,        \* the waker's control point
  wstate,     \* its local variable state
  set,        \* how many states of the script have been set
  seen        \* how many times the owner has returned

owner == <<opc, ostate>>
waker == <<wpc, wstate>>
vars == <<script, state, waitable, owner, asleep, waker, set, seen>>

Init ==
  /\ script \in Scripts
  /\ state = "INIT"
  /\ waitable = FALSE
  /\ opc = "spin"
  /\ ostate = "INIT"
  /\ asleep = FALSE
  /\ wpc = "idle"
  /\ wstate = "INIT"
  /\ set = 0
  /\ seen = 0

\* goal_mask in JoinBatchGroup, at the end of a pipelined
\* ExitAsBatchGroupLeader, and in CompleteParallelMemTableWriter or
\* ExitAsMemTableWriter.
Goal(s) ==
  \/ seen = 0 /\ s \in States
  \/ /\ seen > 0 /\ script[seen] = "LEADER"
     /\ s \in {"MEMTABLE_LEADER", "PARALLEL", "COMPLETED"}
  \/ seen > 0 /\ s = "COMPLETED"

-----------------------------------------------------------------------------
(* The owner.                                                              *)

Return == opc' = "returned" /\ seen' = seen + 1

\* The loops of AwaitState: state is read until the goal is met or patience
\* ends.
Spin ==
  /\ opc = "spin"
  /\ ostate' = state
  /\ \/ Goal(state) /\ Return
     \/ ~Goal(state) /\ opc' \in {"spin", "block"} /\ UNCHANGED seen
  /\ UNCHANGED <<script, state, waitable, asleep, waker, set>>

\* Writer::CreateMutex
MutexMade == TRUE

\* BlockingAwaitState makes the mutex, then reads the state again.
CreateMutex ==
  /\ opc = "block"
  /\ waitable' = MutexMade
  /\ ostate' = state
  /\ IF Goal(state) THEN Return ELSE opc' = "cas" /\ UNCHANGED seen
  /\ UNCHANGED <<script, state, asleep, waker, set>>

\* Mutant: the owner announces its sleep whatever the state has become.
StateAsReadAlways == TRUE

\* The owner's compare_exchange_strong finds the state it has read.
StateAsRead == state = ostate

\* The state becomes STATE_LOCKED_WAITING, or it has changed, and the new
\* state is taken for the goal.
InstallLockedWaiting ==
  /\ opc = "cas"
  /\ IF StateAsRead
     THEN state' = "LOCKED_WAITING" /\ opc' = "wait" /\ UNCHANGED <<ostate, seen>>
     ELSE ostate' = state /\ Return /\ UNCHANGED state
  /\ UNCHANGED <<script, waitable, asleep, waker, set>>

\* The predicate of StateCV().wait, evaluated with the mutex held
MustSleep == state = "LOCKED_WAITING"

\* StateCV().wait: the predicate and falling asleep are one step for the
\* waker, who needs the mutex.
Wait ==
  /\ opc = "wait"
  /\ ~asleep
  /\ IF MustSleep
     THEN asleep' = TRUE /\ UNCHANGED <<owner, seen>>
     ELSE ostate' = state /\ Return /\ UNCHANGED asleep
  /\ UNCHANGED <<script, state, waitable, waker, set>>

\* A spurious wakeup.
WakeUp ==
  /\ asleep
  /\ asleep' = FALSE
  /\ UNCHANGED <<script, state, waitable, owner, waker, set, seen>>

\* The owner waits again, for the next state.
AwaitAgain ==
  /\ opc = "returned"
  /\ seen < Len(script)
  /\ opc' = "spin"
  /\ UNCHANGED <<script, state, waitable, ostate, asleep, waker, set, seen>>

-----------------------------------------------------------------------------
(* The waker.                                                              *)

\* SetState reads the state.
SetState ==
  /\ wpc = "idle"
  /\ set < Len(script)
  /\ seen = set
  /\ wstate' = state
  /\ wpc' = IF state = "LOCKED_WAITING" THEN "notify" ELSE "cas"
  /\ UNCHANGED <<script, state, waitable, owner, asleep, set, seen>>

\* The waker's compare_exchange_strong finds the state it has read.
OwnerStillSpins == state = wstate

\* The new state is in, or the owner was faster and sleeps or is about to.
SetStateCAS ==
  /\ wpc = "cas"
  /\ IF OwnerStillSpins
     THEN state' = script[set + 1] /\ set' = set + 1 /\ wpc' = "idle"
     ELSE wpc' = "notify" /\ UNCHANGED <<state, set>>
  /\ UNCHANGED <<script, waitable, owner, asleep, wstate, seen>>

\* The rest of SetState, with StateMutex held.
Notify ==
  /\ wpc = "notify"
  /\ state' = script[set + 1]
  /\ set' = set + 1
  /\ asleep' = FALSE
  /\ wpc' = "idle"
  /\ UNCHANGED <<script, waitable, owner, wstate, seen>>

\* CompleteParallelMemTableWriter by a follower whose insert failed: it locks
\* the StateMutex of the group's leader, here the owner.
ReportFailure ==
  /\ wpc = "idle"
  /\ seen = set /\ seen > 0 /\ seen < Len(script)
  /\ script[seen] \in {"LEADER", "MEMTABLE_LEADER"}
  /\ script[seen + 1] = "COMPLETED"
  /\ wpc' = "report"
  /\ UNCHANGED <<script, state, waitable, owner, asleep, wstate, set, seen>>

\* It unlocks the mutex, having set the group's status.
Reported ==
  /\ wpc = "report"
  /\ wpc' = "idle"
  /\ UNCHANGED <<script, state, waitable, owner, asleep, wstate, set, seen>>

-----------------------------------------------------------------------------
Owner == Spin \/ CreateMutex \/ InstallLockedWaiting \/ Wait \/ AwaitAgain
Waker == SetState \/ SetStateCAS \/ Notify \/ Reported

Next == Owner \/ Waker \/ ReportFailure \/ WakeUp

Spec == Init /\ [][Next]_vars

\* All threads run; a condition variable need not wake up by itself. The
\* followers that fail are finitely many, so that the last one sets the state.
FairSpec ==
  /\ Spec
  /\ WF_vars(Owner)
  /\ WF_vars(SetStateCAS \/ Notify \/ Reported)
  /\ SF_vars(SetState)

-----------------------------------------------------------------------------
(* Properties.                                                             *)

TypeOK ==
  /\ script \in Scripts
  /\ state \in States \cup {"INIT", "LOCKED_WAITING"}
  /\ waitable \in BOOLEAN
  /\ opc \in {"spin", "block", "cas", "wait", "returned"}
  /\ ostate \in States \cup {"INIT"}
  /\ asleep \in BOOLEAN
  /\ wpc \in {"idle", "cas", "notify", "report"}
  /\ wstate \in States \cup {"INIT", "LOCKED_WAITING"}
  /\ set \in 0 .. Len(script)
  /\ seen \in 0 .. set

\* SetState uses the mutex only when it exists and the owner waits for it (the
\* comment in BlockingAwaitState, the assertions in SetState).
MutexBeforeNotify == wpc = "notify" => waitable /\ state = "LOCKED_WAITING"

\* AwaitState returns the state that was set last, and never one that does not
\* meet its goal (the assertion at its end), whichever of the four ways it
\* takes.
ReturnsGoal == opc = "returned" => ostate = script[seen]

\* The handshake is the atomic word that the rest of WriteThread uses.
Atomic == INSTANCE AtomicState WITH
  word <- IF state = "LOCKED_WAITING" THEN ostate ELSE state
ImplementsAtomicState == Atomic!Spec

\* The owner has seen every state that is set. FairSpec leads there: no wakeup
\* is lost.
AllSeen == seen = Len(script)

\* "The waker won't try to touch the mutex or the condvar unless they CAS away
\* the STATE_LOCKED_WAITING" (BlockingAwaitState), and StateMutex() asserts
\* made_waitable: the mutex exists when a thread locks it.
MutexBeforeLock == wpc \in {"notify", "report"} => waitable
=============================================================================
