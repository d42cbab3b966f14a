--------------------------- MODULE MCBalancedTree ---------------------------
(* Instances of BalancedTree: nodes are numbers, some of them with equal keys.  *)
EXTENDS BalancedTree

EqualKeys == <<1, 2, 2, 3, 4, 4, 5, 6>>
=============================================================================
