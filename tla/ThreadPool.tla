----------------------------- MODULE ThreadPool -----------------------------
(***************************************************************************)
(* src/ewa_base/threading/thread_pool.cpp: a queue of tasks and the worker *)
(* threads that drain it.  A section under m_tMutex is one action; the     *)
(* condition variables are the sets of threads that wait on them.  What    *)
(* ThreadImpl does around svc() is Start, Enter, Lost and Retire; the flags*)
(* of the ThreadManager change as its other clients please.                *)
(***************************************************************************)
EXTENDS Integers, Sequences, FiniteSets

CONSTANTS
  Tasks,      \* the tasks, numbered as they are put
  Throwing,   \* the tasks whose svc throws
  Workers,    \* the threads the manager can provide, numbered
  Clients,    \* the threads that call wait_for_empty
  Free,       \* nobody holds m_tMutex across steps
  Min, Max,   \* m_nWorkerMin, m_nWorkerMax
  Hint,       \* m_nTaskHint
  Pausing,    \* whether pause and resume are called
  Closing     \* whether the manager is closed, or waited for

ASSUME PoolAssumption ==
  /\ Throwing \subseteq Tasks
  /\ Free \notin Workers
  /\ IsFiniteSet(Workers) /\ IsFiniteSet(Tasks)
  /\ Min \in Nat /\ Max \in Nat /\ 1 <= Min /\ Min <= Max
  /\ Hint \in Nat /\ Hint > 0
  /\ {Pausing, Closing} \subseteq BOOLEAN

ASSUME Numbered == Tasks \cup Workers \subseteq Nat

VARIABLES
  queue,      \* m_tTaskQueue
  status,     \* what became of each task
  num, wait,  \* m_nWorkerNum, m_nWorkerWait
  alive,      \* m_nAlive
  state,      \* m_nState: the set of its flags, of which
              \* PAUSED, CANCEL and some other one are told apart
  reqexit, disabled, \* ThreadImpl::sm_bReqexit, THREADMANAGER_DISABLED
  pausing,    \* what a pause() in progress has read of m_nState, or nothing
  lock,       \* the worker that is paused inside getq, with m_tMutex held
  wpc, job,   \* where each worker is, and the task it holds
  client      \* where each client is in wait_for_empty

flags == <<state, reqexit, disabled, pausing>>
vars  == <<queue, status, num, wait, alive, flags, lock, wpc, job, client>>

At(l)   == {w \in Workers : wpc[w] = l}
Asleep  == At("asleep")           \* in m_tCond.wait
Counted == Workers \ (At("none") \cup At("retire"))
Stop    == "cancel" \in state \/ reqexit
Paused  == "paused" \in state /\ ~Stop

Init ==
  /\ queue = <<>> /\ status = [t \in Tasks |-> "new"]
  /\ num = 0 /\ wait = 0 /\ alive = 0 /\ lock = Free
  /\ state = {} /\ reqexit = FALSE /\ disabled = FALSE /\ pausing = {}
  /\ wpc = [w \in Workers |-> "none"]
  /\ job = [w \in Workers |-> {}]
  /\ client = [c \in Clients |-> "idle"]

------------------------------------------------------------------------------
(* Callers.                                                                *)

(* ThreadImpl::activate, unless it fails: threads S, cached or new, are    *)
(* attached and counted.  Which ones makes no difference: the first.       *)
Start(S) ==
  /\ S \subseteq At("none") /\ \A w \in S, v \in At("none") \ S : w < v
  /\ disabled => S = {}
  /\ alive' = alive + Cardinality(S)

Launch(S) == [w \in Workers |-> IF w \in S THEN "enter" ELSE wpc[w]]

(* Fault: putq wakes a worker only when it looks at the task hint.         *)
NotifiedAtHint(S) ==
  LET due == wait > 0 /\ Asleep # {} /\ (Len(queue) + 1) % Hint = 0
  IN  IF due THEN \E w \in Asleep : S = {w} ELSE S = {}

(* notify_one on m_tCond, if a worker is counted as waiting.               *)
Notified(S) == \/ wait > 0 /\ Asleep # {} /\ \E w \in Asleep : S = {w}
               \/ (wait = 0 \/ Asleep = {}) /\ S = {}

putq(t) ==
  /\ lock = Free /\ status[t] = "new"
  /\ \A u \in Tasks : status[u] = "new" => t <= u
  /\ queue' = Append(queue, t)
  /\ status' = [status EXCEPT ![t] = "queued"]
  /\ \E N, S \in SUBSET Workers :
       /\ Notified(N)
       /\ \/ S = {}
          \/ /\ Len(queue') % Hint = 0 /\ num < Max
             /\ Cardinality(S) = 1
       /\ Start(S)
       /\ num' = num + Cardinality(S)
       /\ wpc' = [w \in Workers |-> IF w \in N THEN "woken" ELSE Launch(S)[w]]
  /\ UNCHANGED <<wait, flags, lock, job, client>>

activate ==
  /\ lock = Free /\ num = 0
  /\ \E S \in SUBSET Workers : /\ Cardinality(S) = Min
                               /\ Start(S)
                               /\ wpc' = Launch(S)
  /\ num' = Min
  /\ UNCHANGED <<queue, status, wait, flags, lock, job, client>>

(* Fault: cancel does not wake the sleeping workers.                       *)
cancelFault ==
  /\ lock = Free
  /\ queue' = <<>>
  /\ status' = [t \in Tasks |-> IF status[t] = "queued" THEN "dropped" ELSE status[t]]
  /\ state' = {"cancel"}
  /\ UNCHANGED <<num, wait, alive, reqexit, disabled, pausing, lock, wpc, job, client>>

(* Clear the queue, set CANCEL, wake the workers.                          *)
cancel ==
  /\ lock = Free
  /\ queue' = <<>>
  /\ status' = [t \in Tasks |-> IF status[t] = "queued" THEN "dropped" ELSE status[t]]
  /\ state' = {"cancel"}
  /\ wpc' = [w \in Workers |-> IF w \in Asleep THEN "woken" ELSE wpc[w]]
  /\ UNCHANGED <<num, wait, alive, reqexit, disabled, pausing, lock, job, client>>

(* m_nState|=STATE_PAUSED outside any mutex: what cancel, resume or the    *)
(* last thread write between the read (of all bits but the one it sets ... *)
PauseRead ==
  /\ Pausing /\ pausing = {}
  /\ pausing' = {state \ {"paused"}}
  /\ UNCHANGED <<queue, status, num, wait, alive, state, reqexit, disabled,
                 lock, wpc, job, client>>

(* ...) and the write is lost.                                             *)
PauseWrite ==
  /\ \E read \in pausing : state' = read \cup {"paused"}
  /\ pausing' = {}
  /\ UNCHANGED <<queue, status, num, wait, alive, reqexit, disabled, lock, wpc, job, client>>

(* m_nState|=~STATE_PAUSED: PAUSED stays, every other bit is set.  Nobody  *)
(* is woken.  (A pause that it overwrites makes no difference: the pool is *)
(* canceled either way.)                                                   *)
resume ==
  /\ Pausing
  /\ state' = state \cup {"cancel", "other"}
  /\ UNCHANGED <<queue, status, num, wait, alive, reqexit, disabled, pausing,
                 lock, wpc, job, client>>

(* The ThreadManager is closed, or waited for, or SIGINT comes: see        *)
(* ThreadManager.  None of them wakes a worker that sleeps in getq.        *)
ManagerFlags ==
  /\ Closing
  /\ reqexit' \in {reqexit, TRUE}
  /\ disabled' \in BOOLEAN
  /\ UNCHANGED <<queue, status, num, wait, alive, state, pausing,
                 lock, wpc, job, client>>

wait_for_empty(c) ==
  /\ lock = Free /\ client[c] = "idle" /\ queue # <<>>
  /\ client' = [client EXCEPT ![c] = "waiting"]
  /\ UNCHANGED <<queue, status, num, wait, alive, flags, lock, wpc, job>>

(* The client returns, notified or not (its time is up, or it woke up for  *)
(* nothing): the queue is not looked at again.                             *)
Return(c) ==
  /\ lock = Free /\ client[c] \in {"waiting", "woken"}
  /\ client' = [client EXCEPT ![c] = "idle"]
  /\ UNCHANGED <<queue, status, num, wait, alive, flags, lock, wpc, job>>

------------------------------------------------------------------------------
(* A worker.                                                               *)

Goto(w, l) == wpc' = [wpc EXCEPT ![w] = l]

(* ThreadImpl::svc waits out a pause before it calls svc, and ignores what *)
(* test_canceled answers.                                                  *)
Enter(w) ==
  /\ wpc[w] = "enter" /\ ~Paused
  /\ Goto(w, "getq")
  /\ UNCHANGED <<queue, status, num, wait, alive, flags, lock, job, client>>

(* ThreadImpl::svc_enter: a new thread that starts while the manager is    *)
(* disabled deletes itself, though m_nAlive and m_nWorkerNum count it.     *)
Lost(w) ==
  /\ wpc[w] = "enter" /\ disabled
  /\ Goto(w, "lost")
  /\ UNCHANGED <<queue, status, num, wait, alive, flags, lock, job, client>>

(* m_tMutex is the worker's: at the top of getq, or back from m_tCond.wait *)
InGetq(w) == wpc[w] \in {"getq", "woken"} /\ lock = Free

(* Fault: m_nWorkerWait-- is left out when the worker wakes up.            *)
WaitKept(w) == wait

(* m_nWorkerWait once w has done its m_nWorkerWait--.                      *)
WaitNow(w) == IF wpc[w] = "woken" THEN wait - 1 ELSE wait

LeaveCanceled(w) ==
  /\ InGetq(w) /\ Stop
  /\ num' = num - 1 /\ wait' = WaitNow(w)
  /\ Goto(w, "retire")
  /\ UNCHANGED <<queue, status, alive, flags, lock, job, client>>

(* test_canceled blocks on a paused thread; getq calls it under m_tMutex.  *)
BlockPaused(w) ==
  /\ InGetq(w) /\ Paused
  /\ wait' = WaitNow(w)
  /\ lock' = w
  /\ Goto(w, "paused")
  /\ UNCHANGED <<queue, status, num, alive, flags, job, client>>

(* It leaves the pause only to be canceled: nothing but the last thread's  *)
(* exit ever clears PAUSED.                                                *)
LeavePaused(w) ==
  /\ wpc[w] = "paused" /\ Stop
  /\ lock' = Free
  /\ num' = num - 1
  /\ Goto(w, "retire")
  /\ UNCHANGED <<queue, status, wait, alive, flags, job, client>>

Pop(w) ==
  /\ InGetq(w) /\ ~Stop /\ ~Paused /\ queue # <<>>
  /\ wait' = WaitNow(w)
  /\ queue' = Tail(queue)
  /\ status' = [status EXCEPT ![Head(queue)] = "running"]
  /\ job' = [job EXCEPT ![w] = {Head(queue)}]
  /\ Goto(w, "run")
  /\ UNCHANGED <<num, alive, flags, lock, client>>

Surplus(w) == WaitNow(w) > 0 /\ num > Min

LeaveSurplus(w) ==
  /\ InGetq(w) /\ ~Stop /\ ~Paused /\ queue = <<>> /\ Surplus(w)
  /\ num' = num - 1 /\ wait' = WaitNow(w)
  /\ Goto(w, "retire")
  /\ UNCHANGED <<queue, status, alive, flags, lock, job, client>>

(* Fault: "empty" is announced when this is not the last idle worker.      *)
SleepEarly(w) ==
  /\ InGetq(w) /\ ~Stop /\ ~Paused /\ queue = <<>> /\ ~Surplus(w)
  /\ wait' = WaitNow(w) + 1
  /\ client' = [c \in Clients |-> IF client[c] = "waiting" THEN "woken" ELSE client[c]]
  /\ Goto(w, "asleep")
  /\ UNCHANGED <<queue, status, num, alive, flags, lock, job>>

(* Fault: a worker that enters getq may sleep before it looks at the queue.*)
SleepFirst(w) ==
  /\ InGetq(w) /\ ~Stop /\ ~Paused /\ (queue = <<>> \/ wpc[w] = "getq") /\ ~Surplus(w)
  /\ wait' = WaitNow(w) + 1
  /\ client' = [c \in Clients |-> IF wait' = num /\ client[c] = "waiting"
                                  THEN "woken" ELSE client[c]]
  /\ Goto(w, "asleep")
  /\ UNCHANGED <<queue, status, num, alive, flags, lock, job>>

Sleep(w) ==
  /\ InGetq(w) /\ ~Stop /\ ~Paused /\ queue = <<>> /\ ~Surplus(w)
  /\ wait' = WaitNow(w) + 1
  /\ client' = [c \in Clients |-> IF wait' = num /\ client[c] = "waiting"
                                  THEN "woken" ELSE client[c]]
  /\ Goto(w, "asleep")
  /\ UNCHANGED <<queue, status, num, alive, flags, lock, job>>

(* A condition variable may wake a thread that was not notified.           *)
SpuriousWake(w) ==
  /\ wpc[w] = "asleep"
  /\ Goto(w, "woken")
  /\ UNCHANGED <<queue, status, num, wait, alive, flags, lock, job, client>>

(* The task's svc returns; the worker asks for the next one.               *)
Finish(w) ==
  /\ wpc[w] = "run"
  /\ \E t \in job[w] \ Throwing : status' = [status EXCEPT ![t] = "done"]
  /\ job' = [job EXCEPT ![w] = {}]
  /\ Goto(w, "getq")
  /\ UNCHANGED <<queue, num, wait, alive, flags, lock, client>>

(* The task's svc throws: the exception leaves ThreadPool::svc, and        *)
(* m_nWorkerNum keeps counting the worker.                                 *)
Throw(w) ==
  /\ wpc[w] = "run"
  /\ \E t \in job[w] \cap Throwing : status' = [status EXCEPT ![t] = "thrown"]
  /\ job' = [job EXCEPT ![w] = {}]
  /\ Goto(w, "retire")
  /\ UNCHANGED <<queue, num, wait, alive, flags, lock, client>>

(* The end of ThreadImpl::svc: the last thread to leave clears the flags.  *)
Retire(w) ==
  /\ wpc[w] = "retire"
  /\ alive' = alive - 1
  /\ state' = IF alive' = 0 THEN {} ELSE state
  /\ Goto(w, "none")
  /\ UNCHANGED <<queue, status, num, wait, reqexit, disabled, pausing, lock, job, client>>

------------------------------------------------------------------------------
Work(w) ==
  \/ Enter(w) \/ Lost(w) \/ LeaveCanceled(w) \/ BlockPaused(w) \/ LeavePaused(w) \/ Pop(w)
  \/ LeaveSurplus(w) \/ Sleep(w) \/ Finish(w) \/ Throw(w) \/ Retire(w)

Next ==
  \/ \E t \in Tasks : putq(t)
  \/ activate \/ cancel \/ PauseRead \/ PauseWrite \/ resume \/ ManagerFlags
  \/ \E c \in Clients : wait_for_empty(c) \/ Return(c)
  \/ \E w \in Workers : Work(w) \/ SpuriousWake(w)

Spec == Init /\ [][Next]_vars

(* Running threads run.  Nobody is obliged to put, pause, resume, activate *)
(* or cancel.                                                              *)
FairSpec == Spec /\ \A w \in Workers : WF_vars(Work(w))

------------------------------------------------------------------------------
Thrown == {t \in Tasks : status[t] = "thrown"}

(* The three counters agree with the threads: m_nAlive counts those that   *)
(* have not left ThreadImpl::svc, m_nWorkerWait those in m_tCond.wait, and *)
(* m_nWorkerNum those in getq's loop plus one for every exception a task   *)
(* has let out of svc (lines 121-147, 156-162).                            *)
WorkerCount ==
  /\ alive = Cardinality(Workers \ At("none"))
  /\ wait = Cardinality(At("asleep") \cup At("woken"))
  /\ num = Cardinality(Counted) + Cardinality(Thrown)

(* No cancel, resume or pause has written m_nState since the last worker   *)
(* left, and nobody has asked the process to exit.                         *)
Undisturbed == state = {} /\ ~reqexit

(* While a worker sleeps, every queued task has a notified worker of its   *)
(* own on the way to it: putq's notify_one (lines 70-73) is never lost,    *)
(* whatever tasks throw, workers leave or wake up for nothing.  Not so in  *)
(* a pool that is disturbed: a notified worker finds it canceled by        *)
(* resume(), and leaves; a pause() that had read the flags before then     *)
(* writes them back, and the task waits while others sleep.                *)
NoLostWakeup ==
  Asleep # {} /\ Undisturbed => Len(queue) <= Cardinality(At("woken"))

(* A client that waits for the pool to be empty is notified only when no   *)
(* task is queued and none is running (lines 140-144).                     *)
EmptyMeansIdle ==
  [][\A c \in Clients :
       client[c] = "waiting" /\ client'[c] = "woken"
         => queue = <<>> /\ \A w \in Workers : job[w] = {}]_vars

(* A task queued in an active pool is started, or dropped by a cancel,     *)
(* unless the pool is paused, or a worker is missed that threw or was      *)
(* deleted as it started, and was not replaced (lines 62-86, 116-147).     *)
TaskServed ==
  \A t \in Tasks : (status[t] = "queued" /\ num > 0 /\ ~Stop)
                   ~> (\/ status[t] # "queued" \/ Stop \/ Paused
                       \/ Thrown # {} \/ At("lost") # {})

(* Every worker of a pool that cancel() has canceled leaves, asleep or not *)
(* (lines 88-95, 121-125), unless it was deleted as it started, however    *)
(* often the pool is activated again before its last worker has left: the  *)
(* flags are CANCEL alone until then, or until somebody pauses or resumes  *)
(* the pool.                                                               *)
CanceledWorkersLeave ==
  \A w \in Workers : (state = {"cancel"} /\ wpc[w] # "none")
                     ~> (wpc[w] \in {"none", "lost"} \/ state # {"cancel"})
==============================================================================
