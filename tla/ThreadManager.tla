---------------------------- MODULE ThreadManager ----------------------------
(***************************************************************************)
(* src/ewa_base/threading: Thread objects (jobs), the OS threads that      *)
(* ThreadImpl keeps to run them, and the ThreadManager that lends the ones *)
(* to the others and closes down.  A section under m_thrd_mutex (the       *)
(* manager's or a job's) is one action; what the code reads or writes      *)
(* outside a section is an action of its own.                              *)
(***************************************************************************)
EXTENDS Naturals, FiniteSets

CONSTANTS
  Jobs,         \* the Thread objects
  Dynamic,      \* the jobs with FLAG_DYNAMIC
  Looping,      \* the jobs whose svc returns only when test_canceled() does
  Impls,        \* bound: the OS threads that can exist at once
  Callers,      \* the threads that call wait(), pause() and close()
  None,
  MaxActivate,  \* bound: successful calls of activate
  MaxBatch,     \* bound: the largest n of activate(n)
  Closing,      \* whether the manager is closed or waited for
  Pausing       \* whether jobs are paused and resumed

ASSUME ManagerAssumption ==
  /\ Dynamic \subseteq Jobs /\ Looping \subseteq Jobs
  /\ None \notin Jobs
  /\ IsFiniteSet(Impls)
  /\ MaxActivate \in Nat /\ MaxBatch \in Nat
  /\ {Closing, Pausing} \subseteq BOOLEAN

VARIABLES
  disabled,     \* m_nFlags has THREADMANAGER_DISABLED
  reqexit,      \* sm_bReqexit
  nthread,      \* m_nThreadNum
  ipc,          \* where each OS thread is
  ptr, link,    \* thrd_ptr and ptr_link of each ThreadImpl
  alive, state, \* m_nAlive and m_nState (the set of its flags) of each job
  cpc, arg,     \* where each caller is, and the job or flags it works on
  activated     \* calls of activate so far

manager == <<disabled, reqexit, nthread>>
impls   == <<ipc, ptr, link>>
jobs    == <<alive, state>>
callers == <<cpc, arg>>
managerVars == <<disabled, reqexit, nthread, ipc, ptr, link, alive, state, cpc, arg, activated>>

ThreadsAt(l) == {i \in Impls : ipc[i] = l}
Linked(l) == {i \in Impls : link[i] = l}
Canceled(j) == "cancel" \in state[j] \/ reqexit

ManagerInit ==
  /\ disabled = FALSE /\ reqexit = FALSE /\ nthread = 0
  /\ ipc = [i \in Impls |-> "none"]
  /\ ptr = [i \in Impls |-> None]
  /\ link = [i \in Impls |-> "none"]
  /\ alive = [j \in Jobs |-> 0]
  /\ state = [j \in Jobs |-> {}]
  /\ cpc = [c \in Callers |-> "idle"]
  /\ arg = [c \in Callers |-> None]
  /\ activated = 0

GotoI(i, l) == ipc' = [ipc EXCEPT ![i] = l]
GotoC(c, l) == cpc' = [cpc EXCEPT ![c] = l]

(* Fault: the sleeping threads are not notified.                           *)
AttachedFault(i) == ipc[i]

(* notify_all on m_thrd_attached.                                          *)
Attached(i) == IF ipc[i] = "waiting" THEN "notified" ELSE ipc[i]

------------------------------------------------------------------------------
(* Thread::activate.                                                       *)

Activable(j) == ~disabled /\ (j \in Dynamic \/ alive[j] = 0)

(* New OS threads C, of which ensure_free_size has need.                   *)
Created(C, size) ==
  /\ C \subseteq ThreadsAt("none")
  /\ C # {} => Cardinality(Linked("free") \cup C) <= size

(* Fault: m_nAlive is assigned instead of added to.                        *)
AddAliveFault(j, S) == alive' = [alive EXCEPT ![j] = Cardinality(S)]

AddAlive(j, S) == alive' = [alive EXCEPT ![j] = @ + Cardinality(S)]

activate(j) ==
  /\ Activable(j) /\ activated < MaxActivate
  /\ \E C, S \in SUBSET Impls :
       /\ Created(C, Cardinality(S))
       /\ S # {} /\ Cardinality(S) <= MaxBatch
       /\ S \subseteq Linked("free") \cup C
       /\ ptr' = [i \in Impls |-> IF i \in S THEN j ELSE ptr[i]]
       /\ link' = [i \in Impls |-> IF i \in S THEN "work" ELSE link[i]]
       /\ ipc' = [i \in Impls |-> IF i \in C THEN "created" ELSE Attached(i)]
       /\ AddAlive(j, S)
  /\ activated' = activated + 1
  /\ UNCHANGED <<manager, state, callers>>

(* A thread cannot be created: those that were stay in list_free.          *)
activate_fails(j) ==
  /\ Activable(j)
  /\ \E C \in SUBSET ThreadsAt("none") :
       /\ C # {} /\ Cardinality(Linked("free") \cup C) < MaxBatch
       /\ link' = [i \in Impls |-> IF i \in C THEN "free" ELSE link[i]]
       /\ ipc' = [i \in Impls |-> IF i \in C THEN "created" ELSE ipc[i]]
  /\ UNCHANGED <<manager, ptr, jobs, callers, activated>>

------------------------------------------------------------------------------
(* An OS thread.                                                           *)

svc_enter(i) ==
  /\ ipc[i] = "created" /\ ~disabled
  /\ nthread' = nthread + 1
  /\ GotoI(i, "top")
  /\ UNCHANGED <<disabled, reqexit, ptr, link, jobs, callers, activated>>

(* Fault: a thread that does not enter is counted.                         *)
enter_disabledFault(i) ==
  /\ ipc[i] = "created" /\ disabled
  /\ nthread' = nthread + 1
  /\ GotoI(i, "none")
  /\ ptr' = [ptr EXCEPT ![i] = None]
  /\ link' = [link EXCEPT ![i] = "none"]
  /\ UNCHANGED <<disabled, reqexit, jobs, callers, activated>>

(* delete this: a job it was attached to is not told.                      *)
enter_disabled(i) ==
  /\ ipc[i] = "created" /\ disabled
  /\ GotoI(i, "none")
  /\ ptr' = [ptr EXCEPT ![i] = None]
  /\ link' = [link EXCEPT ![i] = "none"]
  /\ UNCHANGED <<manager, jobs, callers, activated>>

(* The top of svc's loop: with nothing to do, leave, or wait in list_free. *)
Idle(i) ==
  /\ ipc[i] \in {"top", "notified"} /\ ptr[i] = None
  /\ GotoI(i, IF disabled THEN "leave" ELSE "waiting")
  /\ link' = [link EXCEPT ![i] = IF disabled THEN "none" ELSE "free"]
  /\ UNCHANGED <<manager, ptr, jobs, callers, activated>>

SpuriousWake(i) ==
  /\ ipc[i] = "waiting"
  /\ GotoI(i, "notified")
  /\ UNCHANGED <<manager, ptr, link, jobs, callers, activated>>

Attach(i) ==
  /\ ipc[i] \in {"top", "notified"} /\ ptr[i] # None
  /\ GotoI(i, "entry")
  /\ link' = [link EXCEPT ![i] = "work"]
  /\ UNCHANGED <<manager, ptr, jobs, callers, activated>>

(* thrd_ptr->test_canceled(), whose answer is ignored: it waits out a pause*)
Paused(j) == "paused" \in state[j] /\ ~Canceled(j)

Begin(i) ==
  /\ ipc[i] = "entry" /\ ~Paused(ptr[i])
  /\ GotoI(i, "run")
  /\ UNCHANGED <<manager, ptr, link, jobs, callers, activated>>

(* Fault: the thread is back in list_free before it is detached.           *)
ReturnFault(i) ==
  /\ ipc[i] = "run"
  /\ ptr[i] \in Looping => Canceled(ptr[i])
  /\ GotoI(i, "end")
  /\ link' = [link EXCEPT ![i] = "free"]
  /\ UNCHANGED <<manager, ptr, jobs, callers, activated>>

(* svc returns or throws.                                                  *)
Return(i) ==
  /\ ipc[i] = "run"
  /\ ptr[i] \in Looping => Canceled(ptr[i])
  /\ GotoI(i, "end")
  /\ UNCHANGED <<manager, ptr, link, jobs, callers, activated>>

(* Fault: the last thread is looked for after the decrement.               *)
LastFault(j) == alive[j] = 0

Last(j) == alive'[j] = 0

(* One thread less; the last one clears the flags and wakes wait().        *)
End(i) ==
  /\ ipc[i] = "end"
  /\ alive' = [alive EXCEPT ![ptr[i]] = @ - 1]
  /\ LET last == Last(ptr[i])
     IN  /\ state' = [state EXCEPT ![ptr[i]] = IF last THEN {} ELSE @]
         /\ cpc' = [c \in Callers |-> IF last /\ cpc[c] = "joining" /\ arg[c] = ptr[i]
                                      THEN "joined" ELSE cpc[c]]
  /\ ptr' = [ptr EXCEPT ![i] = None]
  /\ GotoI(i, "park")
  /\ UNCHANGED <<manager, link, arg, activated>>

Park(i) ==
  /\ ipc[i] = "park"
  /\ GotoI(i, IF disabled THEN "leave" ELSE "top")
  /\ link' = [link EXCEPT ![i] = IF disabled THEN "none" ELSE "free"]
  /\ UNCHANGED <<manager, ptr, jobs, callers, activated>>

svc_leave(i) ==
  /\ ipc[i] = "leave"
  /\ nthread' = nthread - 1
  /\ GotoI(i, "none")
  /\ UNCHANGED <<disabled, reqexit, ptr, link, jobs, callers, activated>>

------------------------------------------------------------------------------
(* The callers of a job.                                                   *)

cancel(j) ==
  /\ state' = [state EXCEPT ![j] = {"cancel"}]
  /\ UNCHANGED <<manager, impls, alive, callers, activated>>

(* m_nState|=STATE_PAUSED without the mutex: a read ...                    *)
PauseRead(c, j) ==
  /\ Pausing /\ cpc[c] = "idle"
  /\ GotoC(c, "pausing")
  /\ arg' = [arg EXCEPT ![c] = <<j, state[j]>>]
  /\ UNCHANGED <<manager, impls, jobs, activated>>

(* ... and a write.                                                        *)
PauseWrite(c) ==
  /\ cpc[c] = "pausing"
  /\ state' = [state EXCEPT ![arg[c][1]] = arg[c][2] \cup {"paused"}]
  /\ GotoC(c, "idle")
  /\ arg' = [arg EXCEPT ![c] = None]
  /\ UNCHANGED <<manager, impls, alive, activated>>

(* m_nState|=~STATE_PAUSED: every bit but PAUSED is set.                   *)
resume(j) ==
  /\ Pausing
  /\ state' = [state EXCEPT ![j] = @ \cup {"cancel"}]
  /\ UNCHANGED <<manager, impls, alive, callers, activated>>

(* Thread::wait.                                                           *)
wait(c, j) ==
  /\ cpc[c] = "idle" /\ alive[j] # 0
  /\ GotoC(c, "joining")
  /\ arg' = [arg EXCEPT ![c] = j]
  /\ UNCHANGED <<manager, impls, jobs, activated>>

WaitAgain(c) ==
  /\ cpc[c] = "joined"
  /\ GotoC(c, IF alive[arg[c]] = 0 THEN "idle" ELSE "joining")
  /\ arg' = [arg EXCEPT ![c] = IF alive[@] = 0 THEN None ELSE @]
  /\ UNCHANGED <<manager, impls, jobs, activated>>

------------------------------------------------------------------------------
(* The callers of the manager.                                             *)

(* ThreadManager::close(true).                                             *)
close(c) ==
  /\ Closing /\ cpc[c] = "idle"
  /\ reqexit' = TRUE /\ disabled' = TRUE
  /\ ipc' = [i \in Impls |-> Attached(i)]
  /\ GotoC(c, "closing")
  /\ UNCHANGED <<nthread, ptr, link, jobs, arg, activated>>

(* ThreadManager::wait, after close or on its own: the flags are read      *)
(* before the mutex is taken ...                                           *)
ReadFlags(c) ==
  /\ Closing /\ cpc[c] \in {"idle", "closing"}
  /\ GotoC(c, "flags_read")
  /\ arg' = [arg EXCEPT ![c] = disabled]
  /\ UNCHANGED <<manager, impls, jobs, activated>>

Disable(c) ==
  /\ cpc[c] = "flags_read"
  /\ disabled' = TRUE
  /\ ipc' = [i \in Impls |-> Attached(i)]
  /\ GotoC(c, "draining")
  /\ UNCHANGED <<reqexit, nthread, ptr, link, jobs, arg, activated>>

(* ... and written back when no thread is left (seen at once, or when the  *)
(* wait of one second ends).                                               *)
RestoreFlags(c) ==
  /\ cpc[c] = "draining" /\ nthread = 0
  /\ disabled' = arg[c]
  /\ GotoC(c, "idle")
  /\ arg' = [arg EXCEPT ![c] = None]
  /\ UNCHANGED <<reqexit, nthread, impls, jobs, activated>>

------------------------------------------------------------------------------
OSThread(i) ==
  \/ svc_enter(i) \/ enter_disabled(i) \/ Idle(i) \/ Attach(i) \/ Begin(i)
  \/ Return(i) \/ End(i) \/ Park(i) \/ svc_leave(i)

Caller(c) ==
  PauseWrite(c) \/ WaitAgain(c) \/ Disable(c) \/ RestoreFlags(c)

ManagerNext ==
  \/ \E i \in Impls : OSThread(i) \/ SpuriousWake(i)
  \/ \E j \in Jobs : activate(j) \/ activate_fails(j) \/ cancel(j) \/ resume(j)
  \/ \E c \in Callers : Caller(c) \/ close(c) \/ ReadFlags(c)
  \/ \E c \in Callers, j \in Jobs : PauseRead(c, j) \/ wait(c, j)

ManagerSpec == ManagerInit /\ [][ManagerNext]_managerVars

(* OS threads and callers in the middle of a call are scheduled.           *)
FairManagerSpec ==
  /\ ManagerSpec
  /\ \A i \in Impls : WF_managerVars(OSThread(i))
  /\ \A c \in Callers : WF_managerVars(Caller(c))

------------------------------------------------------------------------------
Running(j) == {i \in Impls : ptr[i] = j}

(* An OS thread that activate may take from list_free runs nothing, is not *)
(* attached to a job, and is on its way to look at thrd_ptr: a thread is   *)
(* never given two jobs, and never sleeps on one (lines 221-232, 263-284). *)
FreeIsIdle ==
  /\ \A i \in Linked("free") : ptr[i] = None /\ ipc[i] \in {"created", "top", "waiting", "notified"}
  /\ \A i \in ThreadsAt("waiting") : link[i] = "free"

(* m_nThreadNum counts the threads between svc_enter and svc_leave, so     *)
(* ThreadManager::wait returns only when none is left (lines 77-88).       *)
ThreadNumCount ==
  nthread = Cardinality(Impls \ (ThreadsAt("none") \cup ThreadsAt("created")))

(* m_nAlive counts the threads attached to a job.  A job is deserted when  *)
(* it counts more of them than there are.                                  *)
Deserted(j) == alive[j] > Cardinality(Running(j))

(* m_nAlive never counts too few threads, and counts too many only once a  *)
(* thread that has not entered svc is deleted because the manager is       *)
(* disabled (lines 83, 166-175, 265-272).                                  *)
AliveCount ==
  [][\A j \in Jobs : /\ alive'[j] >= Cardinality(Running(j)')
                     /\ ~disabled /\ ~Deserted(j) => ~Deserted(j)']_managerVars

(* Thread::wait returns (thread.cpp:212-222) for a job whose svc returns,  *)
(* unless the job is paused or a thread of it was deleted before it began. *)
JoinReturns ==
  \A c \in Callers, j \in Jobs \ Looping :
    (cpc[c] = "joining" /\ arg[c] = j) ~> (cpc[c] = "idle" \/ Deserted(j) \/ Paused(j))

(* "Wait until thread terminates." (thread.h:70): when every svc returns,  *)
(* so does wait().                                                         *)
WaitTerminates == \A c \in Callers : (cpc[c] = "joining") ~> (cpc[c] = "idle")

(* close(true) returns (lines 62-88): every thread that sleeps, is new or  *)
(* runs a svc that heeds test_canceled() leaves.  (wait() alone waits for  *)
(* a svc that nobody cancels.)                                             *)
DrainReturns == \A c \in Callers : (cpc[c] = "draining" /\ reqexit) ~> (cpc[c] = "idle")

==============================================================================
