---------------------------- MODULE MCCompaction ----------------------------
(* CompactionIterator for TLC.                                             *)
EXTENDS CompactionIterator, CompactionJobs
=============================================================================
