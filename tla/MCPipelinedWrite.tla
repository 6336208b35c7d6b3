-------------------------- MODULE MCPipelinedWrite --------------------------
(* PipelinedWrite for TLC.                                                 *)
EXTENDS PipelinedWrite, TLC

CONSTANTS t1, t2, t3

MCThreads == {t1, t2, t3}

Plain == [batch |-> TRUE, callback |-> "none", disableMemtable |-> FALSE,
          disableWAL |-> FALSE, merge |-> FALSE, count |-> 1]
Two == [Plain EXCEPT !.count = 2]
NoWAL == [Plain EXCEPT !.disableWAL = TRUE]
Prepare == [Plain EXCEPT !.disableMemtable = TRUE]
Validated == [Plain EXCEPT !.callback = "batching"]
Optimistic == [Plain EXCEPT !.callback = "alone"]
Merge == [Plain EXCEPT !.merge = TRUE]
Unbatched == [Plain EXCEPT !.batch = FALSE]

\* Every kind of request, next to every other kind that it can meet.
MixedRequests ==
  t1 :> {Two} @@ t2 :> {Optimistic, Merge} @@ t3 :> {Prepare, Unbatched}

\* Every thread may write twice, for the reuse of a Writer's address.
PlainRequests == [t \in MCThreads |-> {Plain}]

\* A transaction that is validated in the write group, among plain writes.
ValidatedRequests == [t \in MCThreads |-> {Plain, Validated}]
=============================================================================
