---------------------------- MODULE MCThreadPool ----------------------------
(* ThreadPool for TLC.                                                     *)
EXTENDS ThreadPool

CONSTANT c1
==============================================================================
