----------------------------- MODULE MCLogSync ------------------------------
(* LogSync for TLC.                                                        *)
EXTENDS LogSync

CONSTANT s1

OneSyncer == {s1}
=============================================================================
