----------------------------- MODULE MCCoroutine -----------------------------
(* Coroutine for TLC.                                                      *)
EXTENDS Coroutine, TLC

CONSTANTS t1, t2, a, b, c, x1

Symmetry == Permutations(Coroutines)
==============================================================================
