--------------------------- MODULE MCThreadManager ---------------------------
(* ThreadManager for TLC.                                                  *)
EXTENDS ThreadManager, TLC

CONSTANTS j1, j2, i1, i2, i3, c1, c2

Symmetry == Permutations(Impls)
==============================================================================
