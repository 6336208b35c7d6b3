----------------------------- MODULE MCDBWrite ------------------------------
(* DBWrite for TLC.                                                        *)
EXTENDS DBWrite, WriteRequests

CONSTANTS w1, w2, w3

MCWriters == {w1, w2, w3}
=============================================================================
