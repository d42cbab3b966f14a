---------------------------- MODULE MCNetworkPool ----------------------------
(* NetworkPool for TLC.                                                    *)
EXTENDS NetworkPool

CONSTANTS t1, t2, s1, s2
==============================================================================
