--------------------------- MODULE WriteRequests ----------------------------
(* What calls of WriteImpl ask for: values for Requests of DBWrite.        *)
EXTENDS Naturals

Plain == [sync |-> FALSE, disableWAL |-> FALSE, noSlowdown |-> FALSE,
          disableMemtable |-> FALSE, callback |-> FALSE, batching |-> TRUE,
          merge |-> FALSE, count |-> 1]
Sync == [Plain EXCEPT !.sync = TRUE]
NoWAL == [Plain EXCEPT !.disableWAL = TRUE, !.count = 2]
Prepare == [Plain EXCEPT !.disableMemtable = TRUE, !.sync = TRUE]
Validated == [Plain EXCEPT !.callback = TRUE, !.count = 2]
Optimistic == [Validated EXCEPT !.batching = FALSE]
NoSlowdown == [Plain EXCEPT !.noSlowdown = TRUE, !.merge = TRUE]

\* What decides who may follow whom and what reaches the log.
LogRequests == {Sync, NoWAL, NoSlowdown}
\* What decides who takes part, in which order and with how many numbers.
SequenceRequests == {NoWAL, Prepare, Validated, NoSlowdown}
\* Enough for every path of a call but that without a log.
LiveRequests == {[Sync EXCEPT !.merge = TRUE], Validated}
AllRequests == LogRequests \cup SequenceRequests \cup {Optimistic}
\* What differs in what a crash leaves of it.
RecoveryRequests ==
  {[Sync EXCEPT !.count = 2], NoWAL, Prepare, [Validated EXCEPT !.count = 1]}
=============================================================================
