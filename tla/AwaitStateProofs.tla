-------------------------- MODULE AwaitStateProofs --------------------------
(***************************************************************************)
(* AwaitState and SetState are the reads and writes of an atomic word, for *)
(* every script that a Writer may live through (Legal): the handshake of   *)
(* BlockingAwaitState and SetState loses no state, shows none twice, and   *)
(* SetState locks the mutex only when it exists.                           *)
(***************************************************************************)
EXTENDS AwaitState, TLAPS

\* What Writer::state is after n of the states were set.
After(n) == IF n = 0 THEN "INIT" ELSE script[n]

Places ==
  /\ script \in Scripts
  /\ waitable \in BOOLEAN
  /\ opc \in {"spin", "block", "cas", "wait", "returned"}
  /\ ostate \in States \cup {"INIT"}
  /\ asleep \in BOOLEAN
  /\ wpc \in {"idle", "cas", "notify", "report"}
  /\ wstate \in States \cup {"INIT", "LOCKED_WAITING"}
  /\ set \in 0 .. Len(script)
  /\ seen \in Nat
  /\ seen = set \/ seen + 1 = set

\* Until the owner has seen the last state that was set, nobody sets the next
\* one; STATE_LOCKED_WAITING stands for the state that the owner has read.
Handshake ==
  /\ IF state = "LOCKED_WAITING"
     THEN opc = "wait" /\ seen = set /\ ostate = After(set)
     ELSE state = After(set)
  /\ opc # "returned" => seen < Len(script)
  /\ opc = "returned" => seen > 0 /\ ostate = script[seen]
  /\ opc = "cas" => waitable /\ ostate = After(seen)
  /\ opc = "wait" => waitable /\ (state = "LOCKED_WAITING" \/ seen + 1 = set)
  /\ wpc # "idle" => seen = set /\ set < Len(script)
  /\ wpc = "cas" => wstate = After(set)
  /\ wpc = "notify" => state = "LOCKED_WAITING"

AInv == Places /\ Handshake

\* The states of a script, and that the next one is always another one.
LEMMA ScriptFacts ==
  ASSUME Legal, Places
  PROVE  /\ script \in Seq(States) /\ Len(script) \in Nat /\ Len(script) >= 1
         /\ \A n \in 1 .. Len(script) : script[n] \in States /\ After(n) = script[n]
         /\ \A n \in 0 .. Len(script) : After(n) \in States \cup {"INIT"}
         /\ \A n \in 0 .. Len(script) - 1 : After(n) # After(n + 1)
<1>1. script \in Seq(States) /\ Len(script) \in Nat /\ Len(script) >= 1
  BY DEF Legal, Places
<1>2. \A n \in 1 .. Len(script) : script[n] \in States /\ After(n) = script[n]
  BY <1>1 DEF After
<1>3. \A n \in 0 .. Len(script) : After(n) \in States \cup {"INIT"}
  BY <1>1, <1>2 DEF After
<1>4. \A n \in 0 .. Len(script) - 1 : After(n) # After(n + 1)
  <2> SUFFICES ASSUME NEW n \in 0 .. Len(script) - 1 PROVE After(n) # After(n + 1)
    BY Zenon
  <2>1. CASE n = 0
    BY <1>1, <1>2, <2>1 DEF After, States
  <2>2. CASE n # 0
    <3>1. n \in 1 .. Len(script) - 1 /\ n + 1 \in 1 .. Len(script) /\ n \in 1 .. Len(script)
      BY <1>1, <2>2
    <3>2. script[n] # script[n + 1]
      BY Zenon, <3>1 DEF Legal, Places
    <3> QED
      BY Zenon, <1>2, <3>1, <3>2
  <2> QED
    BY Zenon, <2>1, <2>2
<1> QED
  BY Zenon, <1>1, <1>2, <1>3, <1>4

\* The goal is met by the next state of the script, and by no other.
LEMMA GoalMet ==
  ASSUME Legal, Places, seen < Len(script), state = After(set)
  PROVE  Goal(state) <=> seen + 1 = set
<1>1. /\ Len(script) \in Nat /\ seen \in Nat /\ seen < Len(script)
      /\ \A n \in 1 .. Len(script) : script[n] \in States /\ After(n) = script[n]
  BY Zenon, ScriptFacts DEF Places
<1>2. CASE seen = 0
  <2>1. CASE set = 0
    BY <1>2, <2>1 DEF Goal, After, States
  <2>2. CASE set = 1
    BY <1>1, <1>2, <2>2 DEF Goal
  <2> QED
    BY <1>2, <2>1, <2>2 DEF Places
<1>3. CASE seen > 0
  <2>1. seen \in 1 .. Len(script) - 1 /\ seen + 1 \in 1 .. Len(script)
        /\ seen \in 1 .. Len(script)
    BY <1>1, <1>3
  <2>2. IF script[seen] = "LEADER" THEN script[seen + 1] \in States \ {"LEADER"}
        ELSE script[seen] # "COMPLETED" /\ script[seen + 1] = "COMPLETED"
    BY Zenon, <2>1 DEF Legal, Places
  <2>3. CASE set = seen
    <3>1. state = script[seen]
      BY Zenon, <1>1, <2>1, <2>3
    <3> QED
      BY <1>1, <1>3, <2>2, <2>3, <3>1 DEF Goal
  <2>4. CASE set = seen + 1
    <3>1. state = script[seen + 1]
      BY Zenon, <1>1, <2>1, <2>4
    <3> QED
      BY Zenon, <1>3, <2>2, <2>4, <3>1 DEF Goal, States
  <2> QED
    BY Zenon, <2>3, <2>4 DEF Places
<1> QED
  BY <1>1, <1>2, <1>3

\* A new Writer has no mutex and nobody waits for it.
LEMMA InitAInv == ASSUME Legal PROVE Init => AInv
<1> SUFFICES ASSUME Init PROVE AInv
  BY Zenon
<1>1. script \in Scripts /\ Len(script) \in Nat /\ Len(script) >= 1
  BY DEF Init, Legal
<1>2. Places
  <2>1. asleep \in BOOLEAN /\ waitable \in BOOLEAN
    BY Zenon DEF Init
  <2> QED
    BY <1>1, <2>1 DEF Init, Places
<1>3. Handshake
  BY <1>1 DEF Init, Handshake, After
<1> QED
  BY Zenon, <1>2, <1>3 DEF AInv

\* The owner returns with the next state.
LEMMA OwnerReturns ==
  ASSUME Legal, AInv, state = After(set), seen + 1 = set, seen < Len(script),
         wpc = "idle", Return, ostate' = state,
         UNCHANGED <<script, state, asleep, waker, set>>, waitable' \in BOOLEAN
  PROVE  AInv'
<1>1. /\ Len(script) \in Nat /\ seen \in Nat /\ set \in 1 .. Len(script)
      /\ seen' = seen + 1 /\ opc' = "returned"
  BY ScriptFacts DEF AInv, Places, Return
<1>2. state = script[set] /\ state \in States
  BY Zenon, <1>1, ScriptFacts DEF AInv
<1>3. Places'
  BY <1>1, <1>2 DEF AInv, Places, waker
<1>4. Handshake'
  BY <1>1, <1>2 DEF AInv, Handshake, After, States, waker
<1> QED
  BY Zenon, <1>3, <1>4 DEF AInv

\* Every step of the owner and of the waker keeps the handshake.
LEMMA NextAInv ==
  ASSUME Legal, AInv, [Next]_vars
  PROVE  AInv'
<1> DEFINE n == Len(script)
<1>1. /\ n \in Nat /\ seen \in Nat /\ set \in Nat /\ set <= n
      /\ seen = set \/ seen + 1 = set
      /\ \A k \in 1 .. n : script[k] \in States /\ After(k) = script[k]
      /\ \A k \in 0 .. n : After(k) \in States \cup {"INIT"}
      /\ \A k \in 0 .. n - 1 : After(k) # After(k + 1)
  BY ScriptFacts DEF AInv, Places
<1>2. wpc # "idle" => seen = set
  BY Zenon DEF AInv, Handshake
<1>3. CASE Spin
  <2>1. /\ opc = "spin" /\ ostate' = state /\ state = After(set) /\ seen < n
        /\ UNCHANGED <<script, state, waitable, asleep, waker, set>>
    BY Zenon, <1>3 DEF Spin, AInv, Handshake
  <2>2. Goal(state) <=> seen + 1 = set
    BY Zenon, <2>1, GoalMet DEF AInv
  <2>3. CASE Goal(state) /\ Return
    <3>1. seen + 1 = set /\ wpc = "idle"
      BY <1>1, <1>2, <2>2, <2>3
    <3> QED
      BY Zenon, <2>1, <2>3, <3>1, OwnerReturns DEF AInv, Places
  <2>4. CASE ~Goal(state) /\ opc' \in {"spin", "block"} /\ UNCHANGED seen
    <3>1. ostate' \in States \cup {"INIT"} /\ state # "LOCKED_WAITING"
      BY <1>1, <2>1 DEF States
    <3> QED
      BY Zenon, <2>1, <2>4, <3>1 DEF AInv, Places, Handshake, After, waker
  <2> QED
    BY Zenon, <1>3, <2>3, <2>4 DEF Spin
<1>4. CASE CreateMutex
  <2>1. /\ opc = "block" /\ ostate' = state /\ state = After(set) /\ seen < n
        /\ waitable' = TRUE
        /\ UNCHANGED <<script, state, asleep, waker, set>>
    BY Zenon, <1>4 DEF CreateMutex, MutexMade, AInv, Handshake
  <2>2. Goal(state) <=> seen + 1 = set
    BY Zenon, <2>1, GoalMet DEF AInv
  <2>3. CASE Goal(state)
    <3>1. seen + 1 = set /\ wpc = "idle" /\ Return
      BY <1>1, <1>2, <1>4, <2>2, <2>3 DEF CreateMutex
    <3> QED
      BY Zenon, <2>1, <3>1, OwnerReturns
  <2>4. CASE ~Goal(state)
    <3>1. ostate' \in States \cup {"INIT"} /\ state # "LOCKED_WAITING" /\ seen = set
      BY <1>1, <2>1, <2>2, <2>4 DEF States
    <3>2. opc' = "cas" /\ UNCHANGED seen
      BY Zenon, <1>4, <2>4 DEF CreateMutex
    <3> QED
      BY Zenon, <2>1, <3>1, <3>2 DEF AInv, Places, Handshake, After, waker
  <2> QED
    BY Zenon, <2>3, <2>4
<1>5. CASE InstallLockedWaiting
  <2>1. /\ opc = "cas" /\ waitable /\ ostate = After(seen) /\ state = After(set)
        /\ seen < n
        /\ UNCHANGED <<script, waitable, asleep, waker, set>>
    BY Zenon, <1>5 DEF InstallLockedWaiting, AInv, Handshake
  <2>2. CASE state = ostate
    <3>1. seen = set
      <4>1. seen \in 0 .. n - 1
        BY <1>1, <2>1
      <4> QED
        BY Zenon, <1>1, <2>1, <2>2, <4>1
    <3>2. state' = "LOCKED_WAITING" /\ opc' = "wait" /\ UNCHANGED <<ostate, seen>>
      BY Zenon, <1>5, <2>2 DEF InstallLockedWaiting, StateAsRead
    <3>3. wpc # "notify"
      BY Zenon, <1>1, <2>1 DEF AInv, Handshake, States
    <3> QED
      BY Zenon, <2>1, <3>1, <3>2, <3>3 DEF AInv, Places, Handshake, After, waker
  <2>3. CASE state # ostate
    <3>1. seen + 1 = set /\ wpc = "idle"
      BY Zenon, <1>1, <1>2, <2>1, <2>3
    <3>2. ostate' = state /\ Return /\ UNCHANGED state
      BY Zenon, <1>5, <2>3 DEF InstallLockedWaiting, StateAsRead
    <3> QED
      BY Zenon, <2>1, <3>1, <3>2, OwnerReturns DEF AInv, Places
  <2> QED
    BY Zenon, <2>2, <2>3
<1>6. CASE Wait
  <2>1. /\ opc = "wait" /\ seen < n
        /\ UNCHANGED <<script, state, waitable, waker, set>>
    BY Zenon, <1>6 DEF Wait, AInv, Handshake
  <2>2. CASE state = "LOCKED_WAITING"
    BY Zenon, <1>6, <2>2 DEF Wait, MustSleep, owner, waker, AInv, Places, Handshake, After
  <2>3. CASE state # "LOCKED_WAITING"
    <3>1. state = After(set) /\ seen + 1 = set /\ wpc = "idle"
      BY <1>1, <1>2, <2>1, <2>3 DEF AInv, Handshake
    <3>2. ostate' = state /\ Return /\ UNCHANGED asleep
      BY Zenon, <1>6, <2>3 DEF Wait, MustSleep
    <3> QED
      BY Zenon, <2>1, <3>1, <3>2, OwnerReturns DEF AInv, Places
  <2> QED
    BY Zenon, <2>2, <2>3
<1>7. CASE AwaitAgain
  BY Zenon, <1>7 DEF AwaitAgain, waker, AInv, Places, Handshake, After
<1>8. CASE SetState
  <2>1. state = After(set) \/ state = "LOCKED_WAITING"
    BY Zenon DEF AInv, Handshake
  <2>2. wstate' \in States \cup {"INIT", "LOCKED_WAITING"}
    BY <1>1, <1>8, <2>1 DEF SetState
  <2> QED
    BY ZenonT(30), <1>8, <2>1, <2>2 DEF SetState, owner, AInv, Places, Handshake, After
<1>9. CASE SetStateCAS
  <2>1. /\ wpc = "cas" /\ seen = set /\ set < n /\ wstate = After(set)
        /\ UNCHANGED <<script, waitable, owner, asleep, wstate, seen>>
    BY Zenon, <1>9 DEF SetStateCAS, AInv, Handshake
  <2>2. CASE state = wstate
    <3>1. state' = script[set + 1] /\ set' = set + 1 /\ wpc' = "idle"
      BY Zenon, <1>9, <2>2 DEF SetStateCAS, OwnerStillSpins
    <3>2. /\ set + 1 \in 1 .. n /\ script[set + 1] \in States
          /\ script[set + 1] # "LOCKED_WAITING"
      BY <1>1, <2>1 DEF States
    <3>3. state # "LOCKED_WAITING"
      BY <1>1, <2>1, <2>2 DEF States
    <3>4. opc # "wait"
      BY <1>1, <2>1, <3>3 DEF AInv, Handshake
    <3> QED
      BY <1>1, <2>1, <3>1, <3>2, <3>3, <3>4 DEF owner, AInv, Places, Handshake, After
  <2>3. CASE state # wstate
    <3>1. wpc' = "notify" /\ UNCHANGED <<state, set>>
      BY Zenon, <1>9, <2>3 DEF SetStateCAS, OwnerStillSpins
    <3> QED
      BY Zenon, <2>1, <2>3, <3>1 DEF owner, AInv, Places, Handshake, After
  <2> QED
    BY Zenon, <2>2, <2>3
<1>10. CASE Notify
  <2>1. /\ wpc = "notify" /\ seen = set /\ set < n /\ state = "LOCKED_WAITING"
        /\ opc = "wait" /\ waitable
        /\ state' = script[set + 1] /\ set' = set + 1 /\ asleep' = FALSE /\ wpc' = "idle"
        /\ UNCHANGED <<script, waitable, owner, wstate, seen>>
    BY Zenon, <1>10 DEF Notify, AInv, Handshake
  <2>2. /\ set + 1 \in 1 .. n /\ script[set + 1] \in States
        /\ script[set + 1] # "LOCKED_WAITING"
    BY <1>1, <2>1 DEF States
  <2>3. Places'
    <3>1. asleep' \in BOOLEAN
      BY Zenon, <2>1
    <3> QED
      BY <1>1, <2>1, <2>2, <3>1 DEF owner, AInv, Places
  <2>4. Handshake'
    BY Zenon, <1>1, <2>1, <2>2 DEF owner, AInv, Handshake, After
  <2> QED
    BY Zenon, <2>3, <2>4 DEF AInv
<1>11. CASE ReportFailure
  BY ZenonT(30), <1>11 DEF ReportFailure, owner, AInv, Places, Handshake, After
<1>12. CASE Reported
  BY ZenonT(30), <1>12 DEF Reported, owner, AInv, Places, Handshake, After
<1>13. CASE WakeUp
  BY ZenonT(60), <1>13 DEF WakeUp, owner, waker, AInv, Places, Handshake, After
<1>14. CASE UNCHANGED vars
  BY <1>14 DEF vars, owner, waker, AInv, Places, Handshake, After
<1> QED
  BY Zenon, <1>3, <1>4, <1>5, <1>6, <1>7, <1>8, <1>9, <1>10, <1>11, <1>12, <1>13, <1>14
     DEF Next, Owner, Waker

\* Every step is one of the atomic word, or none.
LEMMA StepsOfWord ==
  ASSUME Legal, AInv, [Next]_vars
  PROVE  [Atomic!Next]_(Atomic!vars)
<1> DEFINE w == IF state = "LOCKED_WAITING" THEN ostate ELSE state
<1>1. /\ Len(script) \in Nat /\ seen \in Nat /\ set \in Nat
      /\ \A k \in 1 .. Len(script) : script[k] \in States
      /\ AInv'
  BY ScriptFacts, NextAInv DEF AInv, Places
<1>2. ASSUME seen' = seen + 1, UNCHANGED <<script, state, set>>,
             state # "LOCKED_WAITING"
      PROVE  Atomic!AwaitState
  <2>1. seen < set
    BY <1>1, <1>2 DEF AInv, Places
  <2> QED
    BY Zenon, <1>2, <2>1 DEF Atomic!AwaitState
<1>3. ASSUME seen = set, set < Len(script), state' = script[set + 1], set' = set + 1,
             UNCHANGED seen
      PROVE  Atomic!SetState
  <2>1. script[set + 1] \in States /\ script[set + 1] # "LOCKED_WAITING"
    BY <1>1, <1>3 DEF States
  <2> QED
    BY Zenon, <1>3, <2>1 DEF Atomic!SetState
<1>4. ASSUME UNCHANGED <<set, seen>>, w' = w
      PROVE  UNCHANGED Atomic!vars
  BY Zenon, <1>4 DEF Atomic!vars
<1>5. CASE Spin \/ CreateMutex
  BY Zenon, <1>2, <1>4, <1>5 DEF Spin, CreateMutex, Return, AInv, Handshake, Atomic!Next
<1>6. CASE InstallLockedWaiting
  <2>1. state # "LOCKED_WAITING"
    BY Zenon, <1>6 DEF InstallLockedWaiting, AInv, Handshake
  <2> QED
    BY Zenon, <1>2, <1>4, <1>6, <2>1
       DEF InstallLockedWaiting, StateAsRead, Return, Atomic!Next
<1>7. CASE Wait
  BY Zenon, <1>2, <1>4, <1>7 DEF Wait, MustSleep, Return, owner, Atomic!Next
<1>8. CASE SetStateCAS
  BY Zenon, <1>3, <1>4, <1>8
     DEF SetStateCAS, OwnerStillSpins, owner, AInv, Handshake, Atomic!Next
<1>9. CASE Notify
  BY Zenon, <1>3, <1>9 DEF Notify, AInv, Handshake, Atomic!Next
<1>10. CASE \/ AwaitAgain \/ SetState \/ ReportFailure \/ Reported \/ WakeUp
            \/ UNCHANGED vars
  BY Zenon, <1>4, <1>10 DEF AwaitAgain, SetState, ReportFailure, Reported, WakeUp, owner, vars
<1> QED
  BY Zenon, <1>5, <1>6, <1>7, <1>8, <1>9, <1>10 DEF Next, Owner, Waker

-----------------------------------------------------------------------------
\* AwaitState and SetState, with spinning, a mutex that is made on demand and a
\* condition variable that wakes up by itself, are reads and writes of one
\* atomic word: no state is lost and none is seen twice.
THEOREM WordIsAtomic == Legal => (Spec => ImplementsAtomicState)
<1> SUFFICES ASSUME Legal PROVE Spec => ImplementsAtomicState
  BY Zenon
<1>1. Init => AInv
  BY Zenon, InitAInv
<1>2. AInv /\ [Next]_vars => AInv'
  BY Zenon, NextAInv
<1>3. Init => Atomic!Init
  BY Zenon DEF Init, Atomic!Init
<1>4. AInv /\ [Next]_vars => [Atomic!Next]_(Atomic!vars)
  BY Zenon, StepsOfWord
<1> QED
  BY <1>1, <1>2, <1>3, <1>4, PTL DEF Spec, ImplementsAtomicState, Atomic!Spec

\* AwaitState returns the state that was set last, which meets its goal, and
\* SetState locks the mutex only when the owner has made it and waits for it.
THEOREM HandshakeSafe == Legal => (Spec => [](ReturnsGoal /\ MutexBeforeNotify))
<1> SUFFICES ASSUME Legal PROVE Spec => [](ReturnsGoal /\ MutexBeforeNotify)
  BY Zenon
<1>1. Init => AInv
  BY Zenon, InitAInv
<1>2. AInv /\ [Next]_vars => AInv'
  BY Zenon, NextAInv
<1>3. AInv => ReturnsGoal /\ MutexBeforeNotify
  BY Zenon DEF AInv, Handshake, ReturnsGoal, MutexBeforeNotify
<1> QED
  BY <1>1, <1>2, <1>3, PTL DEF Spec
=============================================================================
