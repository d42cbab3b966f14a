------------------------------ MODULE MCSession ------------------------------
(* Session for TLC.                                                        *)
EXTENDS Session

CONSTANTS b1, b2, b3, c1, w

(* Two pieces, one piece, and WaitForSend.                                 *)
Length == [b \in {b1, b2, b3} |-> IF b = b1 THEN 2 ELSE IF b = b2 THEN 1 ELSE 0]
==============================================================================
