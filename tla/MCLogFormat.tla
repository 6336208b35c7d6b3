---------------------------- MODULE MCLogFormat -----------------------------
(* LogFormat for TLC.                                                      *)
EXTENDS LogFormat, LogJobs
=============================================================================
