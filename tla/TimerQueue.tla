------------------------------ MODULE TimerQueue ------------------------------
(***************************************************************************)
(* src/ewa_base/threading/timer_queue.cpp: a heap of reference-counted     *)
(* timers under m_tMutex, worker threads that sleep until the first is     *)
(* nearly due and then spin, and clients that put, cancel and redue.       *)
(* ITimer::done, exchanged without the mutex, decides between a cancel()   *)
(* and a worker.  Time is in milliseconds.                                 *)
(***************************************************************************)
EXTENDS Integers, FiniteSets

CONSTANTS
  Timers,       \* bound: the ITimers that are ever made, numbered
  Clients, Workers, None,
  Wait1, Wait2, \* m_nWait1, m_nWait2
  IdleWait,     \* how long getq sleeps on an empty queue
  MaxTime,      \* bound: the clock stops there
  Delays,       \* the delays that clients ask for
  Canceling     \* whether clients call TimerQueue::clear and cancel

ASSUME TimerAssumption ==
  /\ IsFiniteSet(Timers) /\ IsFiniteSet(Clients) /\ IsFiniteSet(Workers)
  /\ None \notin Timers
  /\ {Wait1, Wait2, IdleWait, MaxTime} \subseteq Nat
  /\ 0 < Wait2 /\ Wait2 <= Wait1
  /\ Delays \subseteq Nat
  /\ Canceling \in BOOLEAN

ASSUME TimersNumbered == Timers \subseteq Nat

VARIABLES
  now,              \* Clock::now()
  queue,            \* m_aQueue
  due, done, ref,   \* tdue, done and the reference count of each ITimer
  wpc, cur, wake,   \* where each worker is, its ITimer, when its sleep ends
  cpc, hold,        \* where each client is, and the ITimerHolder it keeps
  canceled,         \* STATE_CANCEL of the queue's Thread
  made,             \* the ITimers made so far
  ran, stopped,     \* those that ran, and those of a cancel() that returned true
  dropped           \* those that clear() found in the queue

timers  == <<due, done, ref>>
workers == <<wpc, cur, wake>>
clients == <<cpc, hold>>
history == <<ran, stopped, dropped>>
vars    == <<now, queue, due, done, ref, wpc, cur, wake, cpc, hold, canceled,
             made, ran, stopped, dropped>>

Init ==
  /\ now = 0 /\ queue = {}
  /\ due = [t \in Timers |-> 0]
  /\ done = [t \in Timers |-> 0]
  /\ ref = [t \in Timers |-> 0]
  /\ wpc = [w \in Workers |-> "getq"]
  /\ cur = [w \in Workers |-> None]
  /\ wake = [w \in Workers |-> 0]
  /\ cpc = [c \in Clients |-> "idle"]
  /\ hold = [c \in Clients |-> None]
  /\ canceled = FALSE
  /\ made = {} /\ ran = {} /\ stopped = {} /\ dropped = {}

GotoW(w, l) == wpc' = [wpc EXCEPT ![w] = l]
GotoC(c, l) == cpc' = [cpc EXCEPT ![c] = l]

Asleep == {w \in Workers : wpc[w] \in {"sleep_empty", "sleep_due"}}

(* The sleeping workers of W wake up: one that slept until a timer starts  *)
(* over, one that slept on an empty queue looks at the queue first.        *)
Wake(W) ==
  /\ wpc' = [w \in Workers |-> IF w \notin W THEN wpc[w]
                               ELSE IF wpc[w] = "sleep_due" THEN "getq" ELSE "woken"]
  /\ wake' = [w \in Workers |-> IF w \in W THEN 0 ELSE wake[w]]

(* Fault: putq does not wake a worker.                                     *)
NotifyOneFault == UNCHANGED <<wpc, wake>>

(* m_tCond.notify_one and notify_all.                                      *)
NotifyOne ==
  \/ Asleep = {} /\ UNCHANGED <<wpc, wake>>
  \/ \E w \in Asleep : Wake({w})

NotifyAll == Wake(Asleep)

Later(d) == IF now + d > MaxTime THEN MaxTime ELSE now + d

(* The reference counts when holder h leaves `old' for the new ITimer t,   *)
(* which the queue refers to as well.                                      *)
Swapped(old, t) == [x \in Timers |-> IF x = t THEN 2
                                     ELSE IF x = old THEN ref[x] - 1 ELSE ref[x]]

(* The ITimers are made in the order of their numbers.                     *)
IsNew(t) == t \in Timers \ made /\ \A u \in Timers \ made : t <= u

(* TimerQueue::putq by a client or from a task; old is what h held.        *)
Put(t, d, old) ==
  /\ IsNew(t)
  /\ made' = made \cup {t}
  /\ due' = [due EXCEPT ![t] = Later(d)]
  /\ ref' = Swapped(old, t)
  /\ queue' = queue \cup {t}

------------------------------------------------------------------------------
(* Clients.                                                                *)

putq(c, t, d) ==
  /\ cpc[c] = "idle" /\ hold[c] = None
  /\ Put(t, d, None)
  /\ NotifyOne
  /\ hold' = [hold EXCEPT ![c] = t]
  /\ UNCHANGED <<now, done, cur, cpc, canceled, history>>

(* ITimerHolder::bind: an ITimer of no queue yet.                          *)
bind(c, t) ==
  /\ cpc[c] = "idle" /\ hold[c] = None /\ IsNew(t)
  /\ made' = made \cup {t}
  /\ due' = [due EXCEPT ![t] = now]
  /\ ref' = [ref EXCEPT ![t] = 1]
  /\ hold' = [hold EXCEPT ![c] = t]
  /\ UNCHANGED <<now, queue, done, workers, cpc, canceled, history>>

(* A holder is copied, by another client or by the task that is given it,  *)
(* or reset.                                                               *)
Copyable == {hold[e] : e \in {x \in Clients : cpc[x] = "idle"}}
              \cup {cur[w] : w \in {x \in Workers : wpc[x] = "run"}}

copy(c, t) ==
  /\ cpc[c] = "idle" /\ hold[c] = None /\ t \in Copyable
  /\ hold' = [hold EXCEPT ![c] = t]
  /\ ref' = [ref EXCEPT ![t] = @ + 1]
  /\ UNCHANGED <<now, queue, due, done, workers, cpc, canceled, made, history>>

reset(c) ==
  /\ cpc[c] = "idle" /\ hold[c] # None
  /\ ref' = [ref EXCEPT ![hold[c]] = @ - 1]
  /\ hold' = [hold EXCEPT ![c] = None]
  /\ UNCHANGED <<now, queue, due, done, workers, cpc, canceled, made, history>>

(* ITimerHolder::cancel.                                                   *)
Stop(t) ==
  /\ done' = [done EXCEPT ![t] = 1]
  /\ stopped' = IF done[t] = 0 THEN stopped \cup {t} ELSE stopped

cancel(c) ==
  /\ cpc[c] = "idle" /\ hold[c] # None
  /\ Stop(hold[c])
  /\ UNCHANGED <<now, queue, due, ref, workers, clients, canceled, made, ran, dropped>>

(* TimerQueue::redue: the old ITimer is canceled ...                       *)
redue(c) ==
  /\ cpc[c] = "idle" /\ hold[c] # None
  /\ Stop(hold[c])
  /\ GotoC(c, "redue")
  /\ UNCHANGED <<now, queue, due, ref, workers, hold, canceled, made, ran, dropped>>

(* ... and a new one for the same task takes its place.                    *)
Redue(c, t, d) ==
  /\ cpc[c] = "redue"
  /\ Put(t, d, hold[c])
  /\ NotifyOne
  /\ hold' = [hold EXCEPT ![c] = t]
  /\ GotoC(c, "idle")
  /\ UNCHANGED <<now, done, cur, canceled, history>>

ToldEmpty == [c \in Clients |-> IF cpc[c] = "waiting" THEN "idle" ELSE cpc[c]]

wait_for_empty(c) ==
  /\ cpc[c] = "idle" /\ queue # {}
  /\ GotoC(c, "waiting")
  /\ UNCHANGED <<now, queue, timers, workers, hold, canceled, made, history>>

(* Fault: clear() keeps the references of the queue.                       *)
DroppedFault == ref

Dropped == [t \in Timers |-> IF t \in queue THEN ref[t] - 1 ELSE ref[t]]

(* TimerQueue::clear, alone or as the first half of TimerQueue::cancel.    *)
clear(c, then) ==
  /\ Canceling /\ cpc[c] = "idle"
  /\ ref' = Dropped
  /\ queue' = {}
  /\ NotifyAll
  /\ cpc' = [ToldEmpty EXCEPT ![c] = then]
  /\ dropped' = dropped \cup queue
  /\ UNCHANGED <<now, due, done, cur, hold, canceled, made, ran, stopped>>

(* Thread::cancel, the second half; it notifies no worker that sleeps.     *)
SetCanceled(c) ==
  /\ cpc[c] = "cancel"
  /\ canceled' = TRUE
  /\ GotoC(c, "idle")
  /\ UNCHANGED <<now, queue, timers, workers, hold, made, history>>

(* ThreadMulti::activate, once every worker has left.                      *)
activate ==
  /\ Canceling /\ \A w \in Workers : wpc[w] = "gone"
  /\ wpc' = [w \in Workers |-> "getq"]
  /\ UNCHANGED <<now, queue, timers, cur, wake, clients, canceled, made, history>>

------------------------------------------------------------------------------
(* A worker: TimerQueue::getq ...                                          *)

(* Fault: the first worker to leave clears the flags.                      *)
LeaveFault(w) ==
  /\ wpc[w] = "getq" /\ canceled
  /\ GotoW(w, "gone")
  /\ canceled' = FALSE
  /\ UNCHANGED <<now, queue, timers, cur, wake, clients, made, history>>

(* The last worker to leave clears the flags (ThreadImpl::svc).            *)
Leave(w) ==
  /\ wpc[w] = "getq" /\ canceled
  /\ GotoW(w, "gone")
  /\ canceled' = \E v \in Workers \ {w} : wpc[v] # "gone"
  /\ UNCHANGED <<now, queue, timers, cur, wake, clients, made, history>>

(* Fault: wait_for_empty is not told.                                      *)
SleepEmptyFault(w) ==
  /\ wpc[w] = "getq" /\ ~canceled /\ queue = {}
  /\ GotoW(w, "sleep_empty")
  /\ wake' = [wake EXCEPT ![w] = Later(IdleWait)]
  /\ UNCHANGED <<now, queue, timers, cur, clients, canceled, made, history>>

SleepEmpty(w) ==
  /\ wpc[w] = "getq" /\ ~canceled /\ queue = {}
  /\ cpc' = ToldEmpty
  /\ GotoW(w, "sleep_empty")
  /\ wake' = [wake EXCEPT ![w] = Later(IdleWait)]
  /\ UNCHANGED <<now, queue, timers, cur, hold, canceled, made, history>>

StillEmpty(w) ==
  /\ wpc[w] = "woken" /\ queue = {}
  /\ GotoW(w, "getq")
  /\ UNCHANGED <<now, queue, timers, cur, wake, clients, canceled, made, history>>

Front(w, t) ==
  /\ wpc[w] = "woken" \/ (wpc[w] = "getq" /\ ~canceled)
  /\ t \in queue /\ \A x \in queue : due[t] <= due[x]

(* Fault: m_nWait2 is added instead of subtracted.                         *)
SleepUntilFault(w, t) ==
  /\ Front(w, t) /\ due[t] >= now + Wait1
  /\ GotoW(w, "sleep_due")
  /\ wake' = [wake EXCEPT ![w] = due[t] + Wait2]
  /\ UNCHANGED <<now, queue, timers, cur, clients, canceled, made, history>>

SleepUntil(w, t) ==
  /\ Front(w, t) /\ due[t] >= now + Wait1
  /\ GotoW(w, "sleep_due")
  /\ wake' = [wake EXCEPT ![w] = due[t] - Wait2]
  /\ UNCHANGED <<now, queue, timers, cur, clients, canceled, made, history>>

Pop(w, t) ==
  /\ Front(w, t) /\ due[t] < now + Wait1
  /\ queue' = queue \ {t}
  /\ cur' = [cur EXCEPT ![w] = t]
  /\ GotoW(w, "popped")
  /\ UNCHANGED <<now, timers, wake, clients, canceled, made, history>>

(* The worker's reference to its ITimer is dropped.                        *)
Release(w) ==
  /\ ref' = [ref EXCEPT ![cur[w]] = @ - 1]
  /\ cur' = [cur EXCEPT ![w] = None]
  /\ GotoW(w, "getq")

Check(w) ==
  /\ wpc[w] = "popped"
  /\ \/ /\ done[cur[w]] # 0
        /\ Release(w)
     \/ /\ done[cur[w]] = 0
        /\ GotoW(w, "spin")
        /\ UNCHANGED <<ref, cur>>
  /\ UNCHANGED <<now, queue, due, done, wake, clients, canceled, made, history>>

Spin(w) ==
  /\ wpc[w] = "spin" /\ due[cur[w]] <= now
  /\ GotoW(w, "due")
  /\ UNCHANGED <<now, queue, timers, cur, wake, clients, canceled, made, history>>

(* Fault: ITimer::done is not looked at before the task runs.              *)
RunFault(w) ==
  /\ wpc[w] = "due"
  /\ GotoW(w, "run")
  /\ done' = [done EXCEPT ![cur[w]] = 1]
  /\ ran' = ran \cup {cur[w]}
  /\ UNCHANGED <<now, queue, due, ref, cur, wake, clients, canceled, made, stopped, dropped>>

(* ... and TimerQueue::svc.                                                *)
Run(w) ==
  /\ wpc[w] = "due" /\ done[cur[w]] = 0
  /\ GotoW(w, "run")
  /\ done' = [done EXCEPT ![cur[w]] = 1]
  /\ ran' = ran \cup {cur[w]}
  /\ UNCHANGED <<now, queue, due, ref, cur, wake, clients, canceled, made, stopped, dropped>>

TooLate(w) ==
  /\ wpc[w] = "due" /\ done[cur[w]] # 0
  /\ Release(w)
  /\ UNCHANGED <<now, queue, due, done, wake, clients, canceled, made, history>>

(* A task cancels the holder it is given, alone or as the first half of    *)
(* redue.  At first its ITimer is the one that runs, which is done; after  *)
(* a redue it is the one that redue has queued.                            *)
TaskCancel(w) ==
  /\ wpc[w] = "run"
  /\ Stop(cur[w])
  /\ UNCHANGED <<now, queue, due, ref, workers, clients, canceled, made, ran, dropped>>

(* The other half of redue, as often as the task likes.  That the holder   *)
(* is done tells that the first half is behind it, or changes nothing.     *)
RunAgain(w, t, d) ==
  /\ wpc[w] = "run" /\ done[cur[w]] # 0
  /\ Put(t, d, cur[w])
  /\ cur' = [cur EXCEPT ![w] = t]
  /\ NotifyOne
  /\ UNCHANGED <<now, done, clients, canceled, history>>

Finish(w) ==
  /\ wpc[w] = "run"
  /\ Release(w)
  /\ UNCHANGED <<now, queue, due, done, wake, clients, canceled, made, history>>

(* wait_for ends: its time has passed, or for no reason.                   *)
Timeout(w) ==
  /\ w \in Asleep /\ wake[w] <= now
  /\ Wake({w})
  /\ UNCHANGED <<now, queue, timers, cur, clients, canceled, made, history>>

SpuriousWake(w) ==
  /\ w \in Asleep
  /\ Wake({w})
  /\ UNCHANGED <<now, queue, timers, cur, clients, canceled, made, history>>

------------------------------------------------------------------------------
Tick ==
  /\ now < MaxTime
  /\ now' = now + 1
  /\ UNCHANGED <<queue, timers, workers, clients, canceled, made, history>>

Worker(w) ==
  \/ Leave(w) \/ SleepEmpty(w) \/ StillEmpty(w)
  \/ \E t \in Timers : SleepUntil(w, t) \/ Pop(w, t)
  \/ Check(w) \/ Spin(w) \/ Run(w) \/ TooLate(w) \/ Finish(w) \/ Timeout(w)

Client(c) ==
  \/ \E t \in Timers, d \in Delays : putq(c, t, d) \/ Redue(c, t, d)
  \/ \E t \in Timers : bind(c, t) \/ copy(c, t)
  \/ reset(c) \/ cancel(c) \/ redue(c) \/ wait_for_empty(c)
  \/ \E then \in {"idle", "cancel"} : clear(c, then)

Next ==
  \/ \E w \in Workers : \/ Worker(w) \/ SpuriousWake(w) \/ TaskCancel(w)
                        \/ \E t \in Timers, d \in Delays : RunAgain(w, t, d)
  \/ \E c \in Clients : Client(c) \/ SetCanceled(c)
  \/ activate \/ Tick

Spec == Init /\ [][Next]_vars

(* The clock advances, workers run, and a client does not stop half-way    *)
(* through TimerQueue::cancel.                                             *)
FairSpec == /\ Spec /\ WF_vars(Tick)
            /\ \A w \in Workers : WF_vars(Worker(w))
            /\ \A c \in Clients : WF_vars(SetCanceled(c))

------------------------------------------------------------------------------
(* Some worker is there, and none is told to leave.                        *)
Active == ~canceled /\ \E w \in Workers : wpc[w] # "gone"

(* The reference count of an ITimer is the number of holders, queue        *)
(* entries and workers that refer to it: none is freed while in use, and   *)
(* none leaks (IncRef and DecRef at lines 91, 130, 157, 217).              *)
RefCount ==
  \A t \in made : ref[t] = Cardinality({c \in Clients : hold[c] = t})
                         + Cardinality({w \in Workers : cur[w] = t})
                         + (IF t \in queue THEN 1 ELSE 0)

(* A timer whose cancel() returned true has not run and will not (lines    *)
(* 25, 152).                                                               *)
CanceledIsFinal == stopped \cap ran = {}

(* Whatever is put, cleared or redue while workers sleep, they never all   *)
(* sleep past the first timer (lines 135, 180-206).                        *)
NoOversleep ==
  Active /\ Asleep # {} =>
    \A t \in queue : \E w \in Workers :
      IF w \in Asleep THEN wake[w] < due[t] ELSE wpc[w] # "gone"

(* Every timer in the queue runs, or is canceled, or dropped by a clear,   *)
(* or the workers are told to leave.                                       *)
TimersRun ==
  \A t \in Timers :
    (t \in queue /\ Active) ~> (t \in ran \cup stopped \cup dropped \/ ~Active)

(* A client that waits for the queue to be empty is told so once it is,    *)
(* unless the workers are told to leave.                                   *)
EmptyIsTold ==
  \A c \in Clients : (cpc[c] = "waiting" /\ Active) ~> (cpc[c] # "waiting" \/ ~Active)

(* TimerQueue::cancel makes every worker leave, also one that sleeps until *)
(* a timer put between clear and the flag (lines 80-84, 175).              *)
WorkersLeave == \A w \in Workers : (canceled /\ wpc[w] # "gone") ~> (wpc[w] = "gone")
==============================================================================
