------------------------- MODULE CoroutineScheduling -------------------------
(***************************************************************************)
(* What the coroutines of several threads promise (coroutine.h): a         *)
(* coroutine is stopped, paused, or runs on one thread, every thread runs  *)
(* one coroutine, and control passes in one step.                          *)
(***************************************************************************)
CONSTANTS
  Threads,      \* the threads; each stands for its main coroutine too
  Coroutines    \* the other coroutines

VARIABLE place  \* of each coroutine: "stopped", "paused", or where it runs

Every == Coroutines \cup Threads

Init == place = [c \in Every |-> IF c \in Threads THEN c ELSE "stopped"]

(* require: STATE_STOPPED, ensure: STATE_PAUSED                            *)
Spawn(c) ==
  /\ place[c] = "stopped"
  /\ place' = [place EXCEPT ![c] = "paused"]

(* require: STATE_PAUSED, ensure: paused this_coroutine                    *)
Yield(t, c, d) ==
  /\ place[c] = t /\ place[d] = "paused"
  /\ place' = [place EXCEPT ![c] = "paused", ![d] = t]

(* svc returns: the main coroutine of the thread goes on.                  *)
Finish(t, c) ==
  /\ place[c] = t /\ place[t] = "paused"
  /\ place' = [place EXCEPT ![c] = "stopped", ![t] = t]

Next ==
  \/ \E c \in Coroutines : Spawn(c)
  \/ \E t \in Threads, c \in Every : \E d \in Coroutines \cup {t} : Yield(t, c, d)
  \/ \E t \in Threads, c \in Coroutines : Finish(t, c)

Spec == Init /\ [][Next]_place
==============================================================================
