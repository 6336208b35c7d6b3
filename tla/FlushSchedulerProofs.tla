------------------------ MODULE FlushSchedulerProofs ------------------------
(***************************************************************************)
(* For any number of column families and of concurrent inserters, when     *)
(* writes are not pipelined: no flush request is lost (NoFlushRequestLost, *)
(* with paranoid_checks), and the list of the scheduler has each family at *)
(* most once, with exactly one reference for each node (ListExact).        *)
(***************************************************************************)
EXTENDS FlushScheduler, Integers, FiniteSetTheorems, TLAPS

\* The types the first argument needs; MoreTypes adds the reference counts.
Types ==
  /\ head \in Seq(CF)
  /\ flushState \in [CF -> {"FLUSH_NOT_REQUESTED", "FLUSH_REQUESTED",
                            "FLUSH_SCHEDULED"}]
  /\ ipc \in [Inserters -> {"idle", "add", "check", "link", "cas"}]
  /\ cfd \in [Inserters -> CF \cup {NoCF}]
  /\ lpc \in {"idle", "take", "unlink", "switch", "launch", "inserting"}
  /\ taken \in Seq(CF)

FSInv == Types /\ Exclusion /\ NoLostFlushRequest

\* A non-empty sequence is its head followed by its tail, index by index.
LEMMA HeadTail ==
  ASSUME NEW S, NEW s \in Seq(S), s # <<>>
  PROVE  /\ Head(s) \in S
         /\ Head(s) = s[1]
         /\ Tail(s) \in Seq(S)
         /\ \A k \in DOMAIN s : s[k] # Head(s) =>
              \E j \in DOMAIN Tail(s) : Tail(s)[j] = s[k]
<1>1. Head(s) \in S /\ Head(s) = s[1] /\ Tail(s) \in Seq(S)
  OBVIOUS
<1>2. ASSUME NEW k \in DOMAIN s, s[k] # Head(s)
      PROVE  \E j \in DOMAIN Tail(s) : Tail(s)[j] = s[k]
  <2>1. k \in 2 .. Len(s)
    BY <1>1, <1>2
  <2>2. k - 1 \in DOMAIN Tail(s) /\ Tail(s)[k - 1] = s[k]
    BY <2>1
  <2> QED
    BY Zenon, <2>2
<1> QED
  BY Zenon, <1>1, <1>2

\* Initially no memtable is marked.
LEMMA InitFSInv == Init => FSInv
BY FlushSchedulerAssumption
   DEF Init, FSInv, Types, Exclusion, NoLostFlushRequest, Running

\* The invariant is inductive.
LEMMA NextFSInv ==
  ASSUME ~Pipelined, ParanoidChecks, FSInv, [Next]_vars
  PROVE  FSInv'
<1> USE DEF FSInv, Types, Exclusion, Running
<1>1. ASSUME NEW i \in Inserters, UpdateFlushState(i)
      PROVE  FSInv'
  BY <1>1 DEF UpdateFlushState, NoLostFlushRequest, Taking
<1>2. ASSUME NEW i \in Inserters, CheckMemtableFull(i)
      PROVE  FSInv'
  BY SMTT(30), <1>2 DEF CheckMemtableFull, NoLostFlushRequest, Taking
<1>3. ASSUME NEW i \in Inserters, ScheduleFlush(i)
      PROVE  FSInv'
  BY <1>3 DEF ScheduleFlush, NoLostFlushRequest, Taking
<1>4. ASSUME NEW i \in Inserters, ScheduleFlushCAS(i)
      PROVE  FSInv'
  <2>1. cfd[i] \in CF /\ lpc = "inserting"
    BY Zenon, <1>4 DEF ScheduleFlushCAS
  <2>2. CASE head = next[i]
    <3>1. head' = <<cfd[i]>> \o head
      BY Zenon, <1>4, <2>2 DEF ScheduleFlushCAS
    <3>2. /\ head' \in Seq(CF)
          /\ \E j \in DOMAIN head' : head'[j] = cfd[i]
          /\ \A k \in DOMAIN head : \E j \in DOMAIN head' : head'[j] = head[k]
      <4>1. head \in Seq(CF) /\ cfd[i] \in CF
        BY Zenon, <2>1
      <4> HIDE DEF FSInv, Types, Exclusion
      <4>2. /\ head' \in Seq(CF)
            /\ 1 \in DOMAIN head' /\ head'[1] = cfd[i]
        BY <3>1, <4>1
      <4>3. ASSUME NEW k \in DOMAIN head
            PROVE  k + 1 \in DOMAIN head' /\ head'[k + 1] = head[k]
        BY <3>1, <4>1
      <4> QED
        BY Zenon, <4>2, <4>3
    <3>3. /\ ipc' = [ipc EXCEPT ![i] = "idle"]
          /\ UNCHANGED <<flushState, dropped, bgError, cfd, lpc, taken>>
      BY Zenon, <1>4, <2>2 DEF ScheduleFlushCAS
    <3>4. NoLostFlushRequest'
      BY <3>2, <3>3 DEF NoLostFlushRequest, Taking
    <3> QED
      BY Zenon, <2>1, <3>2, <3>3, <3>4
  <2>3. CASE head # next[i]
    BY <1>4, <2>3 DEF ScheduleFlushCAS, NoLostFlushRequest, Taking
  <2> QED
    BY Zenon, <2>2, <2>3
<1>5. CASE PreprocessWrite
  BY Zenon, <1>5 DEF PreprocessWrite, NoLostFlushRequest, Taking
<1>6. CASE TakeNextColumnFamily
  BY Zenon, <1>6 DEF TakeNextColumnFamily, NoLostFlushRequest, Taking
<1>7. CASE UnlinkHead
  <2>1. /\ Head(head) \in CF
        /\ Tail(head) \in Seq(CF)
        /\ \A k \in DOMAIN head : head[k] # Head(head) =>
             \E j \in DOMAIN Tail(head) : Tail(head)[j] = head[k]
    BY <1>7, HeadTail DEF UnlinkHead
  <2>2. /\ taken = head /\ head' = Tail(head)
        /\ lpc' = IF dropped[Head(head)] THEN "take" ELSE "switch"
        /\ UNCHANGED <<flushState, dropped, bgError, ipc, cfd, taken>>
    BY Zenon, <1>7 DEF UnlinkHead
  <2>3. NoLostFlushRequest'
    <3> SUFFICES ASSUME NEW c \in CF, flushState[c] = "FLUSH_SCHEDULED",
                        ~dropped[c], ~bgError
                 PROVE  \/ \E k \in DOMAIN head' : head'[k] = c
                        \/ \E i \in Inserters : /\ ipc[i] \in {"link", "cas"}
                                                /\ cfd[i] = c
                        \/ lpc' = "switch" /\ Head(taken) = c
      BY ZenonT(30), <2>2 DEF NoLostFlushRequest, Taking
    <3>1. lpc = "unlink"
      BY Zenon, <1>7 DEF UnlinkHead
    <3>2. CASE \E k \in DOMAIN head : head[k] = c
      <4> HIDE DEF FSInv, Types, Exclusion
      <4>1. CASE c = Head(head)
        BY Zenon, <2>2, <4>1
      <4>2. CASE c # Head(head)
        BY <2>1, <2>2, <3>2, <4>2, Zenon
      <4> QED
        BY Zenon, <4>1, <4>2
    <3> QED
      BY Zenon, <3>1, <3>2 DEF NoLostFlushRequest, Taking
  <2> QED
    BY Zenon, <1>7, <2>1, <2>2, <2>3 DEF UnlinkHead
<1>8. CASE SwitchMemtable
  <2>1. Head(taken) \in CF
    BY Zenon, <1>8, HeadTail DEF SwitchMemtable
  <2>2. CASE /\ flushState' = [flushState EXCEPT
                                 ![Head(taken)] = "FLUSH_NOT_REQUESTED"]
             /\ UNCHANGED bgError
    BY ZenonT(30), <1>8, <2>1, <2>2 DEF SwitchMemtable, NoLostFlushRequest, Taking
  <2>3. CASE bgError' /\ UNCHANGED flushState
    BY Zenon, <1>8, <2>3 DEF SwitchMemtable, NoLostFlushRequest
  <2> QED
    BY Zenon, <1>8, <2>2, <2>3 DEF SwitchMemtable
<1>9. CASE LaunchInserters
  BY <1>9 DEF LaunchInserters, NoLostFlushRequest, Taking
<1>10. CASE ExitWriteGroup
  BY ZenonT(30), <1>10 DEF ExitWriteGroup, NoLostFlushRequest, Taking
<1>11. ASSUME NEW c \in CF, FlushMemTable(c)
       PROVE  FSInv'
  BY Zenon, <1>11 DEF FlushMemTable, NoLostFlushRequest, Taking
<1>12. ASSUME NEW c \in CF, DropColumnFamily(c)
       PROVE  FSInv'
  BY <1>12 DEF DropColumnFamily, NoLostFlushRequest, Taking
<1>13. CASE UNCHANGED vars
  BY ZenonT(30), <1>13 DEF vars, NoLostFlushRequest, Taking
<1> QED
  BY Zenon, <1>1, <1>2, <1>3, <1>4, <1>5, <1>6, <1>7, <1>8, <1>9, <1>10, <1>11,
     <1>12, <1>13 DEF Next

\* A memtable marked FLUSH_SCHEDULED stays known to the flush scheduler until a
\* leader switches it: MemTableInserter::CheckMemtableFull, ScheduleFlush and
\* TakeNextColumnFamily lose no request, however many threads insert.
THEOREM NoFlushRequestLost ==
  ~Pipelined /\ ParanoidChecks => (Spec => []NoLostFlushRequest)
<1> SUFFICES ASSUME ~Pipelined, ParanoidChecks
             PROVE  Spec => []NoLostFlushRequest
  BY Zenon
<1>1. FSInv /\ [Next]_vars => FSInv'
  BY Zenon, NextFSInv
<1>2. FSInv => NoLostFlushRequest
  BY Zenon DEF FSInv
<1> QED
  BY InitFSInv, <1>1, <1>2, PTL DEF Spec

-----------------------------------------------------------------------------
(* The list is exact: one node for each family at most, and one reference  *)
(* for each node.                                                          *)

Listed(c) == \E k \in DOMAIN head : head[k] = c
Pushed(c, points) == \E i \in Inserters : ipc[i] \in points /\ cfd[i] = c
One(b) == IF b THEN 1 ELSE 0

MoreTypes ==
  /\ refs \in [CF -> Int]
  /\ dropped \in [CF -> BOOLEAN]
  /\ bgError \in BOOLEAN
  /\ next \in [Inserters -> Seq(CF)]

\* A family comes into the list only while inserters run, with its memtable
\* marked, and they only run when the leader has emptied the list. A manual
\* flush takes the mark away and leaves the node, but starts no inserters.
ListInv ==
  /\ lpc = "launch" => head = <<>>
  /\ lpc = "inserting" =>
       \A c \in CF : Listed(c) \/ Pushed(c, {"link", "cas"})
                       => flushState[c] = "FLUSH_SCHEDULED"
  /\ \A j, k \in DOMAIN head : head[j] = head[k] => j = k
  /\ \A i, j \in Inserters :
       /\ ipc[i] \in {"link", "cas"} /\ ipc[j] \in {"link", "cas"}
       /\ cfd[i] = cfd[j]
       => i = j
  /\ \A c \in CF : ~(Listed(c) /\ Pushed(c, {"link", "cas"}))
  /\ lpc = "switch" => ~Listed(Head(taken))

RefsAt ==
  \A c \in CF : refs[c] = One(~dropped[c]) + One(Listed(c))
                          + One(Pushed(c, {"cas"})) + One(Taking(c))

SLInv == Types /\ Exclusion /\ MoreTypes /\ ListInv /\ RefsAt

\* Initially the list is empty and has no reference to count.
LEMMA InitSLInv == Init => SLInv
<1> SUFFICES ASSUME Init PROVE SLInv
  BY Zenon
<1>1. Types /\ Exclusion
  BY Zenon, InitFSInv DEF FSInv
<1>2. MoreTypes
  <2>1. <<>> \in Seq(CF)
    OBVIOUS
  <2>2. next \in [Inserters -> Seq(CF)]
    BY Zenon, <2>1 DEF Init
  <2>3. refs \in [CF -> Int]
    BY DEF Init
  <2>4. dropped \in [CF -> BOOLEAN] /\ bgError \in BOOLEAN
    BY Zenon DEF Init
  <2> QED
    BY Zenon, <2>2, <2>3, <2>4 DEF MoreTypes
<1>3. \A c : ~Listed(c) /\ ~Pushed(c, {"link", "cas"}) /\ ~Pushed(c, {"cas"})
  BY DEF Init, Listed, Pushed
<1>4. ListInv
  BY <1>3 DEF Init, ListInv
<1>5. RefsAt
  BY <1>3 DEF Init, RefsAt, Taking, One
<1> QED
  BY Zenon, <1>1, <1>2, <1>4, <1>5 DEF SLInv

\* The types and the exclusion of inserters and leader do not depend on
\* paranoid_checks.
LEMMA NextTypes ==
  ASSUME ~Pipelined, Types, Exclusion, MoreTypes, [Next]_vars
  PROVE  Types' /\ Exclusion' /\ MoreTypes'
<1> USE DEF Types, Exclusion, MoreTypes, Running
<1>1. ASSUME NEW i \in Inserters, UpdateFlushState(i)
      PROVE  Types' /\ Exclusion' /\ MoreTypes'
  BY ZenonT(30), <1>1 DEF UpdateFlushState
<1>2. ASSUME NEW i \in Inserters, CheckMemtableFull(i)
      PROVE  Types' /\ Exclusion' /\ MoreTypes'
  BY ZenonT(30), <1>2 DEF CheckMemtableFull
<1>3. ASSUME NEW i \in Inserters, ScheduleFlush(i)
      PROVE  Types' /\ Exclusion' /\ MoreTypes'
  BY <1>3 DEF ScheduleFlush
<1>4. ASSUME NEW i \in Inserters, ScheduleFlushCAS(i)
      PROVE  Types' /\ Exclusion' /\ MoreTypes'
  <2>1. cfd[i] \in CF /\ lpc = "inserting" /\ next[i] \in Seq(CF)
    BY Zenon, <1>4 DEF ScheduleFlushCAS
  <2>2. <<cfd[i]>> \o next[i] \in Seq(CF)
    BY <2>1
  <2>3. head' \in Seq(CF)
    BY Zenon, <1>4, <2>2 DEF ScheduleFlushCAS
  <2>4. <<>> \in Seq(CF) /\ head \in Seq(CF)
    OBVIOUS
  <2>5. next' \in [Inserters -> Seq(CF)]
    BY Zenon, <1>4, <2>4 DEF ScheduleFlushCAS
  <2> QED
    BY Zenon, <1>4, <2>1, <2>3, <2>5 DEF ScheduleFlushCAS
<1>5. CASE PreprocessWrite \/ TakeNextColumnFamily \/ ExitWriteGroup
  BY Zenon, <1>5 DEF PreprocessWrite, TakeNextColumnFamily, ExitWriteGroup
<1>6. CASE UnlinkHead
  <2>1. Head(head) \in CF /\ Tail(head) \in Seq(CF)
    BY Zenon, <1>6, HeadTail DEF UnlinkHead
  <2> QED
    BY <1>6, <2>1 DEF UnlinkHead
<1>7. CASE SwitchMemtable
  <2>1. Head(taken) \in CF
    BY Zenon, <1>7, HeadTail DEF SwitchMemtable
  <2> QED
    BY SMTT(30), <1>7, <2>1, FlushSchedulerAssumption DEF SwitchMemtable
<1>8. CASE LaunchInserters
  BY <1>8 DEF LaunchInserters
<1>9. ASSUME NEW c \in CF, FlushMemTable(c)
      PROVE  Types' /\ Exclusion' /\ MoreTypes'
  BY Zenon, <1>9 DEF FlushMemTable
<1>10. ASSUME NEW c \in CF, DropColumnFamily(c)
      PROVE  Types' /\ Exclusion' /\ MoreTypes'
  BY <1>10 DEF DropColumnFamily
<1>11. CASE UNCHANGED vars
  BY Zenon, <1>11 DEF vars
<1> QED
  BY Zenon, <1>1, <1>2, <1>3, <1>4, <1>5, <1>6, <1>7, <1>8, <1>9, <1>10, <1>11 DEF Next

\* Taking the first family from the list.
LEMMA TailList ==
  ASSUME NEW s \in Seq(CF), s # <<>>, \A j, k \in DOMAIN s : s[j] = s[k] => j = k
  PROVE  /\ \A j, k \in DOMAIN Tail(s) : Tail(s)[j] = Tail(s)[k] => j = k
         /\ ~\E k \in DOMAIN Tail(s) : Tail(s)[k] = Head(s)
         /\ \A c : c # Head(s) => (\E k \in DOMAIN Tail(s) : Tail(s)[k] = c)
                                   = (\E k \in DOMAIN s : s[k] = c)
<1>1. /\ \A k \in DOMAIN Tail(s) : /\ Tail(s)[k] = s[k + 1] /\ k + 1 \in DOMAIN s
                                   /\ k \in Nat /\ k + 1 # 1
      /\ 1 \in DOMAIN s /\ Head(s) = s[1]
  OBVIOUS
<1>2. \A j, k \in DOMAIN Tail(s) : Tail(s)[j] = Tail(s)[k] => j = k
  BY <1>1
<1>3. ~\E k \in DOMAIN Tail(s) : Tail(s)[k] = Head(s)
  BY Zenon, <1>1
<1>4. \A c : c # Head(s) => (\E k \in DOMAIN Tail(s) : Tail(s)[k] = c)
                             = (\E k \in DOMAIN s : s[k] = c)
  <2> SUFFICES ASSUME NEW c, c # Head(s)
               PROVE  /\ (\E k \in DOMAIN Tail(s) : Tail(s)[k] = c) => \E k \in DOMAIN s : s[k] = c
                      /\ (\E k \in DOMAIN s : s[k] = c) => \E k \in DOMAIN Tail(s) : Tail(s)[k] = c
    BY Zenon
  <2>1. (\E k \in DOMAIN Tail(s) : Tail(s)[k] = c) => \E k \in DOMAIN s : s[k] = c
    BY Zenon, <1>1
  <2>2. (\E k \in DOMAIN s : s[k] = c) => \E k \in DOMAIN Tail(s) : Tail(s)[k] = c
    BY HeadTail
  <2> QED
    BY Zenon, <2>1, <2>2
<1> QED
  BY Zenon, <1>2, <1>3, <1>4

\* Pushing a family that is not in the list.
LEMMA PushList ==
  ASSUME head \in Seq(CF), NEW c \in CF, ~Listed(c),
         \A j, k \in DOMAIN head : head[j] = head[k] => j = k,
         head' = <<c>> \o head
  PROVE  /\ \A j, k \in DOMAIN head' : head'[j] = head'[k] => j = k
         /\ \A d : Listed(d)' = (d = c \/ Listed(d))
<1>1. /\ \A k \in DOMAIN head' : \/ k = 1 /\ head'[k] = c
                                 \/ k - 1 \in DOMAIN head /\ head'[k] = head[k - 1]
      /\ \A k \in DOMAIN head' : k \in Nat
  OBVIOUS
<1>2. 1 \in DOMAIN head' /\ head'[1] = c
  OBVIOUS
<1>3. \A k \in DOMAIN head : k + 1 \in DOMAIN head' /\ head'[k + 1] = head[k]
  OBVIOUS
<1>4. \A j, k \in DOMAIN head' : head'[j] = head'[k] => j = k
  BY <1>1 DEF Listed
<1>5. ASSUME NEW d
      PROVE  Listed(d)' = (d = c \/ Listed(d))
  <2>1. ASSUME NEW k \in DOMAIN head', head'[k] = d PROVE d = c \/ Listed(d)
    BY Zenon, <1>1, <2>1 DEF Listed
  <2>2. ASSUME d = c PROVE \E k \in DOMAIN head' : head'[k] = d
    BY Zenon, <1>2, <2>2
  <2>3. ASSUME NEW k \in DOMAIN head, head[k] = d
        PROVE  \E j \in DOMAIN head' : head'[j] = d
    BY Zenon, <1>3, <2>3
  <2> QED
    BY Zenon, <2>1, <2>2, <2>3 DEF Listed
<1> QED
  BY Zenon, <1>4, <1>5

\* A step that changes neither the list nor what is being pushed or taken.
LEMMA ListFrame ==
  ASSUME SLInv, UNCHANGED <<head, ipc, cfd>>,
         lpc' = "launch" => head = <<>>,
         lpc' = "inserting" => UNCHANGED <<lpc, flushState>>,
         lpc' # "switch" \/ UNCHANGED <<lpc, taken>>
  PROVE  /\ ListInv'
         /\ \A c : /\ Listed(c)' = Listed(c)
                   /\ \A p : Pushed(c, p)' = Pushed(c, p)
<1>1. \A c : /\ Listed(c)' = Listed(c)
             /\ \A p : Pushed(c, p)' = Pushed(c, p)
  BY Zenon DEF Listed, Pushed
<1>2. lpc' = "switch" => ~Listed(Head(taken))'
  BY Zenon DEF SLInv, ListInv, Listed
<1> QED
  BY Zenon, <1>1, <1>2 DEF SLInv, ListInv

\* The references follow when the list and the leader's node stay.
LEMMA RefsFrame ==
  ASSUME SLInv, UNCHANGED <<refs, dropped>>,
         \A c \in CF : /\ Listed(c)' = Listed(c)
                       /\ Pushed(c, {"cas"})' = Pushed(c, {"cas"})
                       /\ Taking(c)' = Taking(c)
  PROVE  RefsAt'
BY Zenon DEF SLInv, RefsAt

\* Every step keeps the list exact.
LEMMA NextSLInv ==
  ASSUME ~Pipelined, SLInv, [Next]_vars
  PROVE  SLInv'
<1>1. Types' /\ Exclusion' /\ MoreTypes'
  BY Zenon, NextTypes DEF SLInv
<1>2. ASSUME NEW i \in Inserters, UpdateFlushState(i) \/ CheckMemtableFull(i)
      PROVE  ListInv' /\ RefsAt'
  <2>1. /\ cfd[i] \in CF /\ lpc = "inserting" /\ ipc[i] \in {"add", "check"}
        /\ ipc' = [ipc EXCEPT ![i] = IF CheckMemtableFull(i)
                                        /\ flushState[cfd[i]] = "FLUSH_REQUESTED"
                                     THEN "link" ELSE ipc'[i]]
        /\ ipc'[i] \in {"check", "idle", "link"}
        /\ ipc'[i] = "link" => flushState[cfd[i]] = "FLUSH_REQUESTED"
        /\ UNCHANGED <<head, refs, dropped, cfd, lpc, taken>>
    BY Zenon, <1>2 DEF SLInv, Types, Exclusion, UpdateFlushState, CheckMemtableFull
  <2>2. /\ flushState'[cfd[i]] = "FLUSH_SCHEDULED" \/ ipc'[i] # "link"
        /\ \A c \in CF : flushState[c] = "FLUSH_SCHEDULED" =>
                           flushState'[c] = "FLUSH_SCHEDULED"
    BY <1>2, <2>1 DEF SLInv, Types, UpdateFlushState, CheckMemtableFull
  <2>3. \A c : Listed(c)' = Listed(c) /\ Taking(c)' = Taking(c)
    BY Zenon, <2>1 DEF Listed, Taking
  <2>4. \A j \in Inserters : j # i => ipc'[j] = ipc[j]
    BY Zenon, <2>1 DEF SLInv, Types
  <2>5. \A c : Pushed(c, {"cas"})' = Pushed(c, {"cas"})
    BY Zenon, <2>1, <2>4 DEF Pushed
  <2>6. \A c : Pushed(c, {"link", "cas"})' =>
          Pushed(c, {"link", "cas"}) \/ (c = cfd[i] /\ ipc'[i] = "link")
    <3> SUFFICES ASSUME NEW c, NEW j \in Inserters, ipc'[j] \in {"link", "cas"},
                        cfd[j] = c
                 PROVE  Pushed(c, {"link", "cas"}) \/ (c = cfd[i] /\ ipc'[i] = "link")
      BY Zenon, <2>1 DEF Pushed
    <3>1. CASE j = i
      BY Zenon, <2>1, <3>1
    <3>2. CASE j # i
      BY Zenon, <2>4, <3>2 DEF Pushed
    <3> QED
      BY Zenon, <3>1, <3>2
  <2>7. ipc'[i] = "link" => ~Listed(cfd[i]) /\ ~Pushed(cfd[i], {"link", "cas"})
    BY Zenon, <2>1 DEF SLInv, ListInv
  <2>8. \A j, k \in Inserters :
          /\ ipc'[j] \in {"link", "cas"} /\ ipc'[k] \in {"link", "cas"}
          /\ cfd[j] = cfd[k]
          => j = k
    <3>1. ipc'[i] = "link" => \A j \in Inserters :
             ipc[j] \in {"link", "cas"} => cfd[j] # cfd[i]
      BY Zenon, <2>7 DEF Pushed
    <3> QED
      BY ZenonT(30), <2>1, <2>4, <3>1 DEF SLInv, ListInv
  <2>9. lpc' = "switch" => ~Listed(Head(taken))'
    BY Zenon, <2>1
  <2> QED
    BY Zenon, <2>1, <2>2, <2>3, <2>5, <2>6, <2>7, <2>8, <2>9, RefsFrame DEF SLInv, ListInv
<1>3. ASSUME NEW i \in Inserters, ScheduleFlush(i)
      PROVE  ListInv' /\ RefsAt'
  <2>1. /\ cfd[i] \in CF /\ lpc = "inserting" /\ ipc[i] = "link"
        /\ ipc' = [ipc EXCEPT ![i] = "cas"]
        /\ refs' = [refs EXCEPT ![cfd[i]] = @ + 1]
        /\ UNCHANGED <<head, flushState, dropped, cfd, lpc, taken>>
    BY Zenon, <1>3 DEF SLInv, Types, Exclusion, ScheduleFlush
  <2>2. \A c : Listed(c)' = Listed(c) /\ Taking(c)' = Taking(c)
    BY Zenon, <2>1 DEF Listed, Taking
  <2>3. /\ ipc'[i] = "cas" 
        /\ \A j \in Inserters : j # i => ipc'[j] = ipc[j]
        /\ \A j \in Inserters : ipc'[j] \in {"link", "cas"} <=> ipc[j] \in {"link", "cas"}
    BY Zenon, <2>1 DEF SLInv, Types
  <2>4. \A c : Pushed(c, {"link", "cas"})' = Pushed(c, {"link", "cas"})
    BY Zenon, <2>1, <2>3 DEF Pushed
  <2>5. Pushed(cfd[i], {"cas"})' /\ ~Pushed(cfd[i], {"cas"})
    <3>1. \A j \in Inserters : ipc[j] = "cas" => cfd[j] # cfd[i]
      BY Zenon, <2>1 DEF SLInv, ListInv
    <3> QED
      BY Zenon, <2>1, <2>3, <3>1 DEF Pushed
  <2>6. \A c : c # cfd[i] => Pushed(c, {"cas"})' = Pushed(c, {"cas"})
    BY Zenon, <2>1, <2>3 DEF Pushed
  <2>7. ListInv'
    BY Zenon, <2>1, <2>2, <2>3, <2>4 DEF SLInv, ListInv
  <2>8. ASSUME NEW c \in CF
        PROVE  refs'[c] = One(~dropped'[c]) + One(Listed(c)') + One(Pushed(c, {"cas"})')
                          + One(Taking(c)')
    <3>1. /\ refs[c] = One(~dropped[c]) + One(Listed(c)) + One(Pushed(c, {"cas"}))
                       + One(Taking(c))
          /\ refs[c] \in Int
      BY Zenon DEF SLInv, RefsAt, MoreTypes
    <3>2. One(~dropped[c]) \in Int /\ One(Listed(c)) \in Int /\ One(Taking(c)) \in Int
      BY DEF One
    <3>3. CASE c = cfd[i]
      <4>1. refs'[c] = refs[c] + 1
        BY Zenon, <2>1, <3>3 DEF SLInv, MoreTypes
      <4>2. One(Pushed(c, {"cas"})) = 0 /\ One(Pushed(c, {"cas"})') = 1
        BY Zenon, <2>1, <2>5, <3>3 DEF One
      <4> QED
        BY <2>1, <2>2, <3>1, <3>2, <4>1, <4>2
    <3>4. CASE c # cfd[i]
      <4>1. refs'[c] = refs[c]
        BY Zenon, <2>1, <3>4 DEF SLInv, MoreTypes
      <4> QED
        BY Zenon, <2>1, <2>2, <2>6, <3>1, <3>4, <4>1
    <3> QED
      BY Zenon, <3>3, <3>4
  <2> QED
    BY Zenon, <2>7, <2>8 DEF RefsAt
<1>4. ASSUME NEW i \in Inserters, ScheduleFlushCAS(i)
      PROVE  ListInv' /\ RefsAt'
  <2>1. /\ cfd[i] \in CF /\ lpc = "inserting" /\ ipc[i] = "cas"
        /\ UNCHANGED <<flushState, refs, dropped, cfd, lpc, taken>>
        /\ head \in Seq(CF)
    BY Zenon, <1>4 DEF SLInv, Types, Exclusion, ScheduleFlushCAS
  <2>2. CASE head # next[i]
    <3>1. UNCHANGED <<head, ipc>>
      BY Zenon, <1>4, <2>2 DEF ScheduleFlushCAS
    <3>2. \A c : Taking(c)' = Taking(c)
      BY Zenon, <2>1 DEF Taking
    <3> QED
      BY Zenon, <2>1, <3>1, <3>2, ListFrame, RefsFrame
  <2>3. CASE head = next[i]
    <3>1. head' = <<cfd[i]>> \o head /\ ipc' = [ipc EXCEPT ![i] = "idle"]
      BY Zenon, <1>4, <2>3 DEF ScheduleFlushCAS
    <3>2. ipc'[i] = "idle" /\ \A j \in Inserters : j # i => ipc'[j] = ipc[j]
      BY Zenon, <3>1 DEF SLInv, Types
    <3>3. Pushed(cfd[i], {"link", "cas"}) /\ Pushed(cfd[i], {"cas"})
      BY Zenon, <2>1 DEF Pushed
    <3>4. ~Listed(cfd[i])
      BY Zenon, <2>1, <3>3 DEF SLInv, ListInv
    <3>5. /\ \A j, k \in DOMAIN head' : head'[j] = head'[k] => j = k
          /\ \A c : Listed(c)' = (c = cfd[i] \/ Listed(c))
      <4>1. \A j, k \in DOMAIN head : head[j] = head[k] => j = k
        BY Zenon DEF SLInv, ListInv
      <4> QED
        BY Zenon, <2>1, <3>1, <3>4, <4>1, PushList
    <3>6. \A j \in Inserters : ipc[j] \in {"link", "cas"} /\ cfd[j] = cfd[i] => j = i
      BY Zenon, <2>1 DEF SLInv, ListInv
    <3>7. /\ ~Pushed(cfd[i], {"link", "cas"})' /\ ~Pushed(cfd[i], {"cas"})'
          /\ \A c : c # cfd[i] =>
               /\ Pushed(c, {"link", "cas"})' = Pushed(c, {"link", "cas"})
               /\ Pushed(c, {"cas"})' = Pushed(c, {"cas"})
      <4>1. ~Pushed(cfd[i], {"link", "cas"})' /\ ~Pushed(cfd[i], {"cas"})'
        BY Zenon, <2>1, <3>2, <3>6 DEF Pushed
      <4>2. \A c : c # cfd[i] => Pushed(c, {"cas"})' = Pushed(c, {"cas"})
        BY Zenon, <2>1, <3>2 DEF Pushed
      <4>3. \A c : c # cfd[i] =>
              Pushed(c, {"link", "cas"})' = Pushed(c, {"link", "cas"})
        BY Zenon, <2>1, <3>2 DEF Pushed
      <4> QED
        BY Zenon, <4>1, <4>2, <4>3
    <3>8. ListInv'
      <4>1. \A c \in CF : Listed(c)' \/ Pushed(c, {"link", "cas"})' =>
              Listed(c) \/ Pushed(c, {"link", "cas"})
        BY Zenon, <3>3, <3>5, <3>7
      <4>2. \A c \in CF : ~(Listed(c)' /\ Pushed(c, {"link", "cas"})')
        BY Zenon, <2>1, <3>5, <3>7 DEF SLInv, ListInv
      <4>3. \A j, k \in Inserters :
              /\ ipc'[j] \in {"link", "cas"} /\ ipc'[k] \in {"link", "cas"}
              /\ cfd[j] = cfd[k]
              => j = k
        BY Zenon, <3>2 DEF SLInv, ListInv
      <4> QED
        BY Zenon, <2>1, <3>5, <4>1, <4>2, <4>3 DEF SLInv, ListInv
    <3>9. ASSUME NEW c \in CF
          PROVE  refs'[c] = One(~dropped'[c]) + One(Listed(c)')
                            + One(Pushed(c, {"cas"})') + One(Taking(c)')
      <4>1. refs[c] = One(~dropped[c]) + One(Listed(c)) + One(Pushed(c, {"cas"}))
                      + One(Taking(c))
        BY Zenon DEF SLInv, RefsAt
      <4>2. Taking(c)' = Taking(c) /\ One(~dropped[c]) \in Int /\ One(Taking(c)) \in Int
        BY <2>1 DEF Taking, One
      <4>3. CASE c = cfd[i]
        <5>1. One(Pushed(c, {"cas"})) = 1 /\ One(Pushed(c, {"cas"})') = 0
          BY Zenon, <2>1, <3>3, <3>7, <4>3 DEF One
        <5>2. One(Listed(c)) = 0 /\ One(Listed(c)') = 1
          BY Zenon, <3>4, <3>5, <4>3 DEF One
        <5> QED
          BY <2>1, <4>1, <4>2, <5>1, <5>2
      <4>4. CASE c # cfd[i]
        <5>1. Listed(c)' = Listed(c) /\ Pushed(c, {"cas"})' = Pushed(c, {"cas"})
          <6>1. Listed(c)' <=> Listed(c)
            BY Zenon, <3>5, <4>4
          <6>2. Listed(c)' = Listed(c)
            BY Zenon, <6>1 DEF Listed
          <6> QED
            BY Zenon, <3>7, <4>4, <6>2
        <5> QED
          BY Zenon, <2>1, <4>1, <4>2, <5>1
      <4> QED
        BY Zenon, <4>3, <4>4
    <3> QED
      BY Zenon, <3>8, <3>9 DEF RefsAt
  <2> QED
    BY Zenon, <2>2, <2>3
<1>5. ASSUME PreprocessWrite \/ TakeNextColumnFamily \/ ExitWriteGroup \/ UNCHANGED vars
      PROVE  ListInv' /\ RefsAt'
  <2>1. /\ UNCHANGED <<head, flushState, refs, dropped, ipc, cfd>>
        /\ \/ lpc' = lpc /\ taken' = taken
           \/ /\ lpc \in {"idle", "take", "inserting"}
              /\ lpc' \in {"idle", "take", "unlink", "launch"}
        /\ lpc' = "launch" /\ lpc # "launch" => head = <<>>
    BY Zenon, <1>5 DEF PreprocessWrite, TakeNextColumnFamily, ExitWriteGroup, vars
  <2>2. \A c : Taking(c)' = Taking(c)
    BY Zenon, <2>1 DEF Taking
  <2>3. lpc' = "launch" => head = <<>>
    BY Zenon, <2>1 DEF SLInv, ListInv
  <2>4. /\ ListInv'
        /\ \A c : Listed(c)' = Listed(c) /\ Pushed(c, {"cas"})' = Pushed(c, {"cas"})
    BY Zenon, <2>1, <2>3, ListFrame
  <2> QED
    BY Zenon, <2>1, <2>2, <2>4, RefsFrame
<1>6. ASSUME UnlinkHead
      PROVE  ListInv' /\ RefsAt'
  <2>1. /\ lpc = "unlink" /\ taken = head /\ head # <<>> /\ head \in Seq(CF)
        /\ head' = Tail(head) /\ Head(head) \in CF
        /\ lpc' = IF dropped[Head(head)] THEN "take" ELSE "switch"
        /\ refs' = IF dropped[Head(head)]
                   THEN [refs EXCEPT ![Head(head)] = @ - 1] ELSE refs
        /\ UNCHANGED <<flushState, dropped, ipc, cfd, taken>>
    BY Zenon, <1>6, HeadTail DEF SLInv, Types, Exclusion, UnlinkHead
  <2>2. \A c, p : Pushed(c, p)' = Pushed(c, p)
    BY Zenon, <2>1 DEF Pushed
  <2>3. /\ \A j, k \in DOMAIN head' : head'[j] = head'[k] => j = k
        /\ ~\E k \in DOMAIN head' : head'[k] = Head(head)
        /\ \A c : c # Head(head) => (\E k \in DOMAIN head' : head'[k] = c)
                                       = (\E k \in DOMAIN head : head[k] = c)
    <3>1. \A j, k \in DOMAIN head : head[j] = head[k] => j = k
      BY Zenon DEF SLInv, ListInv
    <3> QED
      BY Zenon, <2>1, <3>1, TailList
  <2>4. \A c : c # Head(head) => Listed(c)' = Listed(c)
    BY Zenon, <2>3 DEF Listed
  <2>5. \A c : Listed(c)' => c # Head(head) /\ Listed(c)
    BY Zenon, <2>3, <2>4 DEF Listed
  <2>6. Listed(Head(head)) 
    <3>1. 1 \in DOMAIN head /\ head[1] = Head(head)
      BY <2>1
    <3> QED
      BY Zenon, <3>1 DEF Listed
  <2>7. ListInv'
    <3>1. lpc' = "switch" => ~Listed(Head(taken))'
      BY Zenon, <2>1, <2>3 DEF Listed
    <3>2. \A c \in CF : ~(Listed(c)' /\ Pushed(c, {"link", "cas"})')
      BY Zenon, <2>2, <2>5 DEF SLInv, ListInv
    <3>3. \A i, j \in Inserters :
            /\ ipc[i] \in {"link", "cas"} /\ ipc[j] \in {"link", "cas"}
            /\ cfd[i] = cfd[j]
            => i = j
      BY Zenon DEF SLInv, ListInv
    <3> QED
      BY Zenon, <2>1, <2>3, <3>1, <3>2, <3>3 DEF ListInv
  <2>8. ASSUME NEW c \in CF
        PROVE  refs'[c] = One(~dropped'[c]) + One(Listed(c)') + One(Pushed(c, {"cas"})')
                          + One(Taking(c)')
    <3>1. /\ refs[c] = One(~dropped[c]) + One(Listed(c)) + One(Pushed(c, {"cas"}))
                       + One(Taking(c))
          /\ refs \in [CF -> Int]
      BY Zenon DEF SLInv, RefsAt, MoreTypes
    <3>2. One(~dropped[c]) \in Int /\ One(Pushed(c, {"cas"})) \in Int
          /\ One(Taking(c)) = 0
      BY <2>1 DEF One, Taking
    <3>3. CASE c = Head(head)
      <4>1. One(Listed(c)) = 1 /\ One(Listed(c)') = 0
        BY Zenon, <2>5, <2>6, <3>3 DEF One
      <4>2. One(Taking(c)') = IF dropped[c] THEN 0 ELSE 1
        BY Zenon, <2>1, <3>3 DEF One, Taking
      <4>3. refs'[c] = IF dropped[c] THEN refs[c] - 1 ELSE refs[c]
        BY Zenon, <2>1, <3>1, <3>3
      <4> QED
        BY <2>1, <2>2, <3>1, <3>2, <4>1, <4>2, <4>3
    <3>4. CASE c # Head(head)
      <4>1. One(Taking(c)') = 0
        BY Zenon, <2>1, <3>4 DEF One, Taking
      <4>2. refs'[c] = refs[c]
        BY Zenon, <2>1, <3>1, <3>4
      <4> QED
        BY Zenon, <2>1, <2>2, <2>4, <3>1, <3>2, <3>4, <4>1, <4>2
    <3> QED
      BY Zenon, <3>3, <3>4
  <2> QED
    BY Zenon, <2>7, <2>8 DEF RefsAt
<1>7. ASSUME SwitchMemtable
      PROVE  ListInv' /\ RefsAt'
  <2>1. /\ lpc = "switch" /\ lpc' \in {"take", "idle"} /\ Head(taken) \in CF
        /\ refs' = [refs EXCEPT ![Head(taken)] = @ - 1]
        /\ UNCHANGED <<head, dropped, ipc, cfd, taken>>
    BY Zenon, <1>7, HeadTail DEF SLInv, Types, Exclusion, SwitchMemtable
  <2>2. /\ ListInv'
        /\ \A c : Listed(c)' = Listed(c) /\ Pushed(c, {"cas"})' = Pushed(c, {"cas"})
    BY Zenon, <2>1, ListFrame
  <2>3. ASSUME NEW c \in CF
        PROVE  refs'[c] = One(~dropped'[c]) + One(Listed(c)') + One(Pushed(c, {"cas"})')
                          + One(Taking(c)')
    <3>1. /\ refs[c] = One(~dropped[c]) + One(Listed(c)) + One(Pushed(c, {"cas"}))
                       + One(Taking(c))
          /\ refs \in [CF -> Int]
      BY Zenon DEF SLInv, RefsAt, MoreTypes
    <3>2. /\ One(~dropped[c]) \in Int /\ One(Pushed(c, {"cas"})) \in Int
          /\ One(Listed(c)) \in Int
      BY DEF One
    <3>3. One(Taking(c)) = (IF c = Head(taken) THEN 1 ELSE 0) /\ One(Taking(c)') = 0
      BY Zenon, <2>1 DEF One, Taking
    <3>4. refs'[c] = IF c = Head(taken) THEN refs[c] - 1 ELSE refs[c]
      BY Zenon, <2>1, <3>1
    <3> QED
      BY <2>1, <2>2, <3>1, <3>2, <3>3, <3>4
  <2> QED
    BY Zenon, <2>2, <2>3 DEF RefsAt
<1>8. ASSUME LaunchInserters
      PROVE  ListInv' /\ RefsAt'
  <2>1. /\ lpc = "launch" /\ lpc' = "inserting" /\ head = <<>>
        /\ \A i \in Inserters : ipc[i] = "idle" /\ ipc'[i] \in {"idle", "add"}
        /\ UNCHANGED <<head, refs, dropped, taken>>
    BY Zenon, <1>8 DEF SLInv, ListInv, Exclusion, LaunchInserters
  <2>2. \A c : /\ ~Listed(c) /\ ~Listed(c)'
               /\ ~Pushed(c, {"link", "cas"})' 
               /\ ~Pushed(c, {"cas"})' /\ ~Pushed(c, {"cas"})
    BY <2>1 DEF Listed, Pushed
  <2>3. \A c : Taking(c)' = Taking(c)
    BY Zenon, <2>1 DEF Taking
  <2>4. \A c : Listed(c)' = Listed(c) /\ Pushed(c, {"cas"})' = Pushed(c, {"cas"})
    <3> SUFFICES ASSUME NEW c
                 PROVE  Listed(c)' = Listed(c) /\ Pushed(c, {"cas"})' = Pushed(c, {"cas"})
      BY Zenon
    <3>1. Listed(c)' = Listed(c)
      BY Zenon, <2>1 DEF Listed
    <3>2. Pushed(c, {"cas"})' = Pushed(c, {"cas"})
      BY Zenon, <2>2 DEF Pushed
    <3> QED
      BY Zenon, <3>1, <3>2
  <2>5. ListInv'
    BY <2>1, <2>2 DEF ListInv
  <2> QED
    BY Zenon, <2>1, <2>3, <2>4, <2>5, RefsFrame
<1>9. ASSUME NEW c \in CF, FlushMemTable(c)
      PROVE  ListInv' /\ RefsAt'
  <2>1. lpc = "idle" /\ UNCHANGED <<head, refs, dropped, ipc, cfd, lpc, taken>>
    BY Zenon, <1>9 DEF FlushMemTable
  <2>2. \A d : Taking(d)' = Taking(d)
    BY Zenon, <2>1 DEF Taking
  <2>3. /\ ListInv'
        /\ \A d : Listed(d)' = Listed(d) /\ Pushed(d, {"cas"})' = Pushed(d, {"cas"})
    BY Zenon, <2>1, ListFrame
  <2> QED
    BY Zenon, <2>1, <2>2, <2>3, RefsFrame
<1>10. ASSUME NEW c \in CF, DropColumnFamily(c)
       PROVE  ListInv' /\ RefsAt'
  <2>1. /\ lpc = "idle" /\ ~dropped[c]
        /\ dropped' = [dropped EXCEPT ![c] = TRUE]
        /\ refs' = [refs EXCEPT ![c] = @ - 1]
        /\ UNCHANGED <<head, ipc, cfd, lpc, taken>>
    BY Zenon, <1>10 DEF DropColumnFamily
  <2>2. \A d : Taking(d)' = Taking(d)
    BY Zenon, <2>1 DEF Taking
  <2>3. /\ ListInv'
        /\ \A d : Listed(d)' = Listed(d) /\ Pushed(d, {"cas"})' = Pushed(d, {"cas"})
    BY Zenon, <2>1, ListFrame
  <2>4. ASSUME NEW d \in CF
        PROVE  refs'[d] = One(~dropped'[d]) + One(Listed(d)') + One(Pushed(d, {"cas"})')
                          + One(Taking(d)')
    <3>1. /\ refs[d] = One(~dropped[d]) + One(Listed(d)) + One(Pushed(d, {"cas"}))
                       + One(Taking(d))
          /\ refs \in [CF -> Int] /\ dropped \in [CF -> BOOLEAN]
      BY Zenon DEF SLInv, RefsAt, MoreTypes
    <3>2. /\ One(Taking(d)) \in Int /\ One(Pushed(d, {"cas"})) \in Int
          /\ One(Listed(d)) \in Int
      BY DEF One
    <3>3. CASE d = c
      <4>1. One(~dropped[d]) = 1 /\ One(~dropped'[d]) = 0 /\ refs'[d] = refs[d] - 1
        BY Zenon, <2>1, <3>1, <3>3 DEF One
      <4> QED
        BY <2>2, <2>3, <3>1, <3>2, <4>1
    <3>4. CASE d # c
      <4>1. dropped'[d] = dropped[d] /\ refs'[d] = refs[d]
        BY Zenon, <2>1, <3>1, <3>4
      <4> QED
        BY Zenon, <2>2, <2>3, <3>1, <4>1
    <3> QED
      BY Zenon, <3>3, <3>4
  <2> QED
    BY Zenon, <2>3, <2>4 DEF RefsAt
<1>11. ListInv' /\ RefsAt'
  BY Zenon, <1>2, <1>3, <1>4, <1>5, <1>6, <1>7, <1>8, <1>9, <1>10 DEF Next
<1> QED
  BY Zenon, <1>1, <1>11 DEF SLInv

\* A set without two different members has none or one.
LEMMA AtMostOne ==
  ASSUME NEW S, \A x, y \in S : x = y
  PROVE  IsFiniteSet(S) /\ Cardinality(S) = One(S # {})
<1>1. CASE S = {}
  BY Zenon, <1>1, FS_EmptySet DEF One
<1>2. CASE S # {}
  <2>1. PICK x \in S : TRUE
    BY Zenon, <1>2
  <2>2. S = {x}
    BY Zenon, <2>1
  <2> QED
    BY Zenon, <1>2, <2>2, FS_Singleton DEF One
<1> QED
  BY Zenon, <1>1, <1>2

\* In terms of the nodes and the inserters, as the properties count them.
LEMMA Counted == SLInv => SchedulerListExact
<1> SUFFICES ASSUME SLInv, NEW c \in CF
             PROVE  /\ Cardinality(Nodes(c)) + Cardinality(Pushing(c, {"link", "cas"})) <= 1
                    /\ refs[c] = (IF dropped[c] THEN 0 ELSE 1) + Cardinality(Nodes(c))
                                 + Cardinality(Pushing(c, {"cas"}))
                                 + (IF Taking(c) THEN 1 ELSE 0)
  BY Zenon DEF SchedulerListExact, ScheduledOnce, RefsBalanced
<1>1. Cardinality(Nodes(c)) = One(Nodes(c) # {})
  <2>1. \A j, k \in Nodes(c) : j = k
    BY Zenon DEF SLInv, ListInv, Nodes
  <2> QED
    BY Zenon, <2>1, AtMostOne
<1>2. \A i, j \in Pushing(c, {"link", "cas"}) : i = j
  BY Zenon DEF SLInv, ListInv, Pushing
<1>3. /\ Cardinality(Pushing(c, {"link", "cas"})) = One(Pushing(c, {"link", "cas"}) # {})
      /\ Cardinality(Pushing(c, {"cas"})) = One(Pushing(c, {"cas"}) # {})
  <2>1. \A i, j \in Pushing(c, {"cas"}) : i = j
    BY Zenon, <1>2 DEF Pushing
  <2> QED
    BY Zenon, <1>2, <2>1, AtMostOne
<1>4. /\ (Nodes(c) # {}) = Listed(c)
      /\ (Pushing(c, {"link", "cas"}) # {}) = Pushed(c, {"link", "cas"})
      /\ (Pushing(c, {"cas"}) # {}) = Pushed(c, {"cas"})
  BY Zenon DEF Nodes, Pushing, Listed, Pushed
<1>5. One(Listed(c)) + One(Pushed(c, {"link", "cas"})) <= 1
  BY DEF SLInv, ListInv, One
<1>6. refs[c] = One(~dropped[c]) + One(Listed(c)) + One(Pushed(c, {"cas"}))
                + One(Taking(c))
  BY Zenon DEF SLInv, RefsAt
<1>7. One(~dropped[c]) = (IF dropped[c] THEN 0 ELSE 1)
      /\ One(Taking(c)) = (IF Taking(c) THEN 1 ELSE 0)
  BY Zenon DEF One
<1> QED
  BY Zenon, <1>1, <1>3, <1>4, <1>5, <1>6, <1>7

\* However many inserters find a memtable full, its family is in the list of
\* the FlushScheduler at most once (ScheduleFlush's assertion on checking_set_),
\* and ColumnFamilyData::refs_ has one reference for each node: Unref never
\* frees a family that a node still names.
THEOREM ListExact == ~Pipelined => (Spec => []SchedulerListExact)
<1> SUFFICES ASSUME ~Pipelined PROVE Spec => []SchedulerListExact
  BY Zenon
<1>1. SLInv /\ [Next]_vars => SLInv'
  BY Zenon, NextSLInv
<1> QED
  BY InitSLInv, <1>1, Counted, PTL DEF Spec

\* The types of the scheduler's state; refs_ never goes below zero.
THEOREM SchedulerTypes == ~Pipelined => (Spec => []TypeOK)
<1> SUFFICES ASSUME ~Pipelined PROVE Spec => []TypeOK
  BY Zenon
<1>1. SLInv /\ [Next]_vars => SLInv'
  BY Zenon, NextSLInv
<1>2. SLInv => TypeOK
  <2> SUFFICES ASSUME SLInv PROVE TypeOK
    BY Zenon
  <2>1. \A c \in CF : refs[c] \in Nat
    BY DEF SLInv, RefsAt, One
  <2>2. refs \in [CF -> Nat]
    BY Zenon, <2>1 DEF SLInv, MoreTypes
  <2> QED
    BY Zenon, <2>2 DEF SLInv, Types, MoreTypes, TypeOK
<1> QED
  BY InitSLInv, <1>1, <1>2, PTL DEF Spec
=============================================================================
