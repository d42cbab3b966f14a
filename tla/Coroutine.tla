------------------------------ MODULE Coroutine ------------------------------
(***************************************************************************)
(* src/ewa_base/threading/coroutine.cpp: coroutines that the threads of a  *)
(* program spawn and yield to.  m_nState is the only data that threads     *)
(* share: a yield claims the callee with a compare-and-exchange (phase 1), *)
(* swaps the stacks, and gives the caller up from the callee's stack       *)
(* (phase 2), so between the two both are STATE_RUNNING.                   *)
(***************************************************************************)
CONSTANTS
  Threads,      \* the threads; each stands for its CoroutineMain too
  Coroutines,   \* the other coroutines
  Spawners,     \* the threads that call spawn
  Extras,       \* the ObjectData that a yield may carry
  NULL          \* the null pointer

Every == Coroutines \cup Threads

ASSUME CoroutineAssumption ==
  /\ Spawners \subseteq Threads
  /\ Coroutines \cap Threads = {}
  /\ NULL \notin Every
  /\ {"stopped", "paused"} \cap Threads = {}

(* Two threads would race in CoroutineContext::init, which has no lock.    *)
ASSUME OneSpawner == \A t, u \in Spawners : t = u

VARIABLES
  state,              \* m_nState of each coroutine
  nsp,                \* m_pContext->nsp: "none", "top" (a stack at the top of
                      \* the loop) or "inside" svc, "in_use" by a thread
  extra,              \* m_pExtraParam of each
  this, last, void,   \* m_pThisRoutine, m_pLastRoutine, m_pVoidRoutine
  pc,                 \* where each thread is
  stack,              \* the coroutine on whose stack each thread is
  callee, arg         \* the local variables of the call under way

shared == <<state, nsp, extra>>
own    == <<this, last, void>>
coroutineVars == <<state, nsp, extra, this, last, void, pc, stack, callee, arg>>

CoroutineInit ==
  /\ state = [c \in Every |-> IF c \in Threads THEN "running" ELSE "stopped"]
  /\ nsp = [c \in Every |-> IF c \in Threads THEN "in_use" ELSE "none"]
  /\ extra = [c \in Every |-> NULL]
  /\ this = [t \in Threads |-> t]
  /\ last = [t \in Threads |-> NULL]
  /\ void = [t \in Threads |-> NULL]
  /\ pc = [t \in Threads |-> "user"]
  /\ stack = [t \in Threads |-> t]
  /\ callee = [t \in Threads |-> NULL]
  /\ arg = [t \in Threads |-> NULL]

Goto(t, l) == pc' = [pc EXCEPT ![t] = l]

Done(t) ==
  /\ Goto(t, "user")
  /\ callee' = [callee EXCEPT ![t] = NULL]
  /\ arg' = [arg EXCEPT ![t] = NULL]

------------------------------------------------------------------------------
(* Coroutine::spawn: the first time the context gets its stack ...         *)
spawn(t, c) ==
  /\ t \in Spawners /\ pc[t] = "user"
  /\ Goto(t, IF nsp[c] = "none" THEN "init" ELSE "exchange")
  /\ callee' = [callee EXCEPT ![t] = c]
  /\ UNCHANGED <<shared, own, stack, arg>>

Allocate(t) ==
  /\ pc[t] = "init"
  /\ nsp' = [nsp EXCEPT ![callee[t]] = "top"]
  /\ Goto(t, "exchange")
  /\ UNCHANGED <<state, extra, own, stack, callee, arg>>

(* ... or page_alloc fails, and spawn returns false.                       *)
AllocateFails(t) ==
  /\ pc[t] = "init"
  /\ Done(t)
  /\ UNCHANGED <<shared, own, stack>>

(* Fault: spawn leaves the coroutine available to other threads.           *)
SpawnedFault(s) == "paused"

Spawned(s) == IF s = "stopped" THEN "paused" ELSE s

Exchange(t) ==
  /\ pc[t] = "exchange"
  /\ state' = [state EXCEPT ![callee[t]] = Spawned(@)]
  /\ Done(t)
  /\ UNCHANGED <<nsp, extra, own, stack>>

------------------------------------------------------------------------------
(* Coroutine::yield, yield_main and yield_last.                            *)

(* Fault: the caller is given up before its stack is saved.                *)
ClaimFault(t, c, d) ==
  /\ d # c /\ state[d] = "paused"
  /\ state' = [state EXCEPT ![d] = "running", ![c] = "paused"]
  /\ callee' = [callee EXCEPT ![t] = d]
  /\ Goto(t, "swap")

(* _yield_phase1; a callee that is not paused is refused.                  *)
Claim(t, c, d) ==
  /\ d # c /\ state[d] = "paused"
  /\ state' = [state EXCEPT ![d] = "running"]
  /\ callee' = [callee EXCEPT ![t] = d]
  /\ Goto(t, "swap")

yield(t, d, x) ==
  /\ pc[t] = "user"
  /\ Claim(t, this[t], d)
  /\ last' = [last EXCEPT ![t] = this[t]]
  /\ arg' = [arg EXCEPT ![t] = x]
  /\ UNCHANGED <<nsp, extra, this, void, stack>>

yield_main(t, x) == yield(t, t, x)

yield_last(t, x) == last[t] # NULL /\ yield(t, last[t], x)

(* Fault: the end of svc keeps m_pLastRoutine.                             *)
ReturnFault(t) ==
  /\ pc[t] = "user" /\ stack[t] \in Coroutines
  /\ Claim(t, stack[t], t)
  /\ last' = [last EXCEPT ![t] = stack[t]]
  /\ void' = [void EXCEPT ![t] = stack[t]]
  /\ UNCHANGED <<nsp, extra, this, stack, arg>>

(* svc has returned or thrown: raw_coroutine_spawn.                        *)
Return(t) ==
  /\ pc[t] = "user" /\ stack[t] \in Coroutines
  /\ Claim(t, stack[t], t)
  /\ last' = [last EXCEPT ![t] = NULL]
  /\ void' = [void EXCEPT ![t] = stack[t]]
  /\ UNCHANGED <<nsp, extra, this, stack, arg>>

Saved(t) == IF void[t] = NULL THEN "inside" ELSE "top"

(* The caller's registers go to its nsp, and the callee's come back.       *)
Swap(t) ==
  /\ pc[t] = "swap"
  /\ LET left == IF void[t] = NULL THEN this[t] ELSE void[t]
     IN  nsp' = [nsp EXCEPT ![left] = Saved(t), ![callee[t]] = "in_use"]
  /\ extra' = [extra EXCEPT ![callee[t]] = arg[t]]
  /\ stack' = [stack EXCEPT ![t] = callee[t]]
  /\ Goto(t, "landed")
  /\ UNCHANGED <<state, own, callee, arg>>

(* Fault: phase 2 forgets to make the caller available again.              *)
GiveUpFault(t) ==
  \/ /\ last[t] # NULL
     /\ UNCHANGED <<state, void>>
  \/ /\ last[t] = NULL /\ void[t] # NULL
     /\ state' = [state EXCEPT ![void[t]] = "stopped"]
     /\ void' = [void EXCEPT ![t] = NULL]

(* _yield_phase2, on the callee's stack.                                   *)
GiveUp(t) ==
  \/ /\ last[t] # NULL
     /\ state' = [state EXCEPT ![last[t]] = "paused"]
     /\ UNCHANGED void
  \/ /\ last[t] = NULL /\ void[t] # NULL
     /\ state' = [state EXCEPT ![void[t]] = "stopped"]
     /\ void' = [void EXCEPT ![t] = NULL]

Phase2(t) ==
  /\ pc[t] = "landed"
  /\ this' = [this EXCEPT ![t] = stack[t]]
  /\ GiveUp(t)
  /\ Done(t)
  /\ UNCHANGED <<nsp, extra, last, stack>>

------------------------------------------------------------------------------
CoroutineNext ==
  \E t \in Threads :
    \/ \E c \in Coroutines : spawn(t, c)
    \/ Allocate(t) \/ AllocateFails(t) \/ Exchange(t)
    \/ \E x \in Extras \cup {NULL} :
         yield_main(t, x) \/ yield_last(t, x) \/ \E d \in Coroutines : yield(t, d, x)
    \/ Return(t) \/ Swap(t) \/ Phase2(t)

CoroutineSpec == CoroutineInit /\ [][CoroutineNext]_coroutineVars

------------------------------------------------------------------------------
Labels == {"user", "init", "exchange", "swap", "landed"}

(* A main coroutine is never stopped and is resumed inside its own code.   *)
TypeOK ==
  /\ state \in [Every -> {"stopped", "running", "paused"}]
  /\ nsp \in [Every -> {"none", "top", "inside", "in_use"}]
  /\ \A t \in Threads : state[t] # "stopped" /\ nsp[t] \in {"inside", "in_use"}
  /\ extra \in [Every -> Extras \cup {NULL}]
  /\ this \in [Threads -> Every]
  /\ last \in [Threads -> Every \cup {NULL}]
  /\ void \in [Threads -> Coroutines \cup {NULL}]
  /\ pc \in [Threads -> Labels]
  /\ stack \in [Threads -> Every]
  /\ callee \in [Threads -> Every \cup {NULL}]
  /\ arg \in [Threads -> Extras \cup {NULL}]

Switching(t) == pc[t] \in {"swap", "landed"}

(* The coroutines that a thread keeps in STATE_RUNNING.                    *)
Claims(t) == {this[t]} \cup IF Switching(t) THEN {callee[t]} ELSE {}

(* What lies behind the properties below, at every step of a switch: the   *)
(* threads' claims are disjoint and are exactly the running coroutines     *)
(* (lines 343-365); exactly the caller is to be given up (318-338, 425-    *)
(* 426); and nsp is a saved stack unless a thread is on it (386-390).      *)
ClaimsOK ==
  /\ \A t, u \in Threads : t # u => Claims(t) \cap Claims(u) = {}
  /\ \A c \in Every : (state[c] = "running") <=> (\E t \in Threads : c \in Claims(t))
  /\ \A t, u \in Threads : u \in Claims(t) \/ last[t] = u => t = u

SwitchOK ==
  \A t \in Threads :
    /\ stack[t] = IF pc[t] = "landed" THEN callee[t] ELSE this[t]
    /\ ~Switching(t) => void[t] = NULL
    /\ Switching(t) => /\ callee[t] \in Every \ {this[t]}
                       /\ \/ last[t] = this[t] /\ void[t] = NULL
                          \/ last[t] = NULL /\ void[t] = this[t] /\ callee[t] = t

StacksOK ==
  /\ \A c \in Every : /\ (nsp[c] = "in_use") <=> (\E t \in Threads : stack[t] = c)
                      /\ nsp[c] = "none" => state[c] = "stopped"
  /\ \A t \in Threads :
       /\ pc[t] \in {"init", "exchange"} => t \in Spawners /\ callee[t] \in Coroutines
       /\ pc[t] = "init" => nsp[callee[t]] = "none"
       /\ pc[t] = "exchange" => nsp[callee[t]] # "none"

SwitchInv == ClaimsOK /\ SwitchOK /\ StacksOK

(* Neither EW_ASSERT of the switch can fail, and "which coroutine yiled to *)
(* me???" is never logged (lines 343, 325, 335).                           *)
Asserted ==
  \A t \in Threads :
    /\ pc[t] = "user" => state[this[t]] = "running"
    /\ pc[t] = "landed" => (last[t] = NULL) # (void[t] = NULL)

(* No thread resumes a stack that was not saved, or that another thread is *)
(* on (lines 386-390, 425-429): a caller is not given up before the swap.  *)
StackSaved ==
  \A t \in Threads : pc[t] = "swap" => nsp[callee[t]] \in {"top", "inside"}

(* Threads run different coroutines, on their own stacks, and this_-       *)
(* coroutine() is the one that runs (lines 243-246, 321).                  *)
OneThreadEach ==
  /\ \A t, u \in Threads : t # u => this[t] # this[u] /\ stack[t] # stack[u]
  /\ \A t \in Threads : pc[t] # "landed" => this[t] = stack[t]

(* When svc returns the main coroutine of the thread can be claimed, so    *)
(* "yield main_coroutine failed, why???" is never logged (line 418).       *)
MainWaits ==
  \A t \in Threads : pc[t] = "user" /\ stack[t] \in Coroutines => state[t] = "paused"

(* The detailed switch implements the one-step switch of the interface: a  *)
(* coroutine changes its place when phase 2 gives the caller up.           *)
Place(c) ==
  IF \E t \in Threads : this[t] = c THEN CHOOSE t \in Threads : this[t] = c
  ELSE IF state[c] = "stopped" THEN "stopped" ELSE "paused"

Interface == INSTANCE CoroutineScheduling WITH place <- [c \in Every |-> Place(c)]

Implements == Interface!Spec
==============================================================================
