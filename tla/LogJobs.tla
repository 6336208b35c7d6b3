------------------------------ MODULE LogJobs -------------------------------
(* Jobs for LogFormat: the kind of log, and how it is read.                *)

LogJob(recyclable, mode, tail) ==
  [recyclable |-> recyclable, mode |-> mode, tail |-> tail]

\* Every recovery mode on plain logs, the one that recycled logs have to be used
\* with (SanitizeOptions), and an iterator that follows the log
LogJobs ==
  {LogJob(FALSE, m, FALSE) :
     m \in {"TolerateCorruptedTailRecords", "AbsoluteConsistency",
            "PointInTimeRecovery", "SkipAnyCorruptedRecords"}}
  \cup {LogJob(TRUE, "TolerateCorruptedTailRecords", FALSE),
        LogJob(FALSE, "TolerateCorruptedTailRecords", TRUE)}

\* Recycled logs in the mode that SanitizeOptions lets pass as well
SkipCorruptedJobs == {LogJob(TRUE, "SkipAnyCorruptedRecords", FALSE)}
=============================================================================
