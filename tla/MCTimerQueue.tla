---------------------------- MODULE MCTimerQueue ----------------------------
(* TimerQueue for TLC.                                                     *)
EXTENDS TimerQueue

CONSTANTS c1, w1, w2
=============================================================================
