--------------------------- MODULE MCLockFreeQueue ---------------------------
(* LockFreeQueue for TLC: the sets of threads are given by the cfg files.  *)
EXTENDS LockFreeQueue, TLC

CONSTANTS g1, g2, p1, p2, r1, a, b

Pair == {<<a, b>>}

Pairs == {<<a>>, <<b, a>>}
==============================================================================
