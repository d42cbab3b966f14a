# ew_base in TLA+

TLA+ models of the core of ew_base, a C++ base library (threads, coroutines,
timers, queues, memory, networking, containers, a script language) with a
desktop-application layer (`ewc_base`) on top. The models are checked with TLC
on small instances, and the results that matter most are proved with TLAPS for
any number of threads, coroutines, slots, timers, tasks, buffers or tree nodes.
Paths below are relative to the repository.

## 1. The system

### Inventory

| Component | State | Operations | Who calls whom | What is hard |
|---|---|---|---|---|
| Lock-free queue (`inc/ewa_base/collection/lockfree_queue.h`) | ring buffer, `head`, `rear`, keys `kget` and `kput`, flags | `getq`, `peek`, `putq` (one element or a batch), `rewind`, `reset` | used by the network pool and its sessions | four counters without a lock, batches, early returns, a waiter that forces its way in |
| Thread pool (`threading/thread_pool.cpp`) | task queue, `m_nWorkerNum`, `m_nWorkerWait`, flags of its Thread | `putq`, `activate`, `cancel`, `wait_for_empty`, `getq`/`svc` of the workers | its workers are threads of the manager | wake-ups, counters, surplus workers, tasks that throw, pause |
| Threads and manager (`thread.cpp`, `thread_impl.cpp`, `thread_manager.cpp`) | per job `m_nAlive` and `m_nState`; per OS thread `thrd_ptr` and its list; `m_nThreadNum`, `sm_bReqexit`, `m_nFlags` | `activate`, `cancel`, `pause`, `resume`, `wait`, the thread loop, `close`, manager `wait` | lends OS threads to jobs (pools, timer queues, the network pool) | a thread between two jobs, closing while threads are born, flags read outside the mutex |
| Coroutines (`threading/coroutine.cpp`) | `m_nState`, stack and extra data of each coroutine; `m_pThisRoutine`, `m_pLastRoutine`, `m_pVoidRoutine` of each thread | `spawn`, `yield`, `yield_main`, `yield_last`, the end of `svc` | used by the script executor | a switch in two phases around the swap of stacks, several threads resuming the same coroutine |
| Timer queue (`threading/timer_queue.cpp`) | heap of ITimers with reference counts and `done`, the clock | `putq`, `redue`, `bind`, holder `cancel`, `clear`, `cancel`, `wait_for_empty`, `getq`/`svc` | workers are threads of the manager; tasks redue themselves | cancel racing the worker, sleeps that must be cut short, hand-counted references |
| Thread primitives | mutexes, condition variables, events | lock, wait, notify, set | everything above | `Event::wait` looks once; whole-second deadlines in `cond_timedwait` |
| SRSW queue (same header) | ring, two positions | `push`, `popq` | tests only | order of the data and of the position |
| Network pool (`net/iocp1.cpp`) | slots of sessions, `m_lkfqSessionAvailable`, `m_lkfqCommand`, `nSessionCount`, `m_nCanClose`, the state of each session | `Register`, `svc_del`, the checker's passes, `DisconnectAll`, `cancel`, `wait_for_all_session_exit` | its threads are threads of the manager; sessions are registered by any thread | no lock at all: slots, counter and event change one after the other; a session is free again before its slot is |
| Network sessions (`net/session*.cpp`, the worker loop of `iocp1.cpp`) | send and receive queues, `tmp_send`, pending counts, the mask given to epoll | `DoAsyncSend`/`Recv`, `WaitForSend`, `ep_ctl`, `HandleSend`/`Recv`, callbacks, `Disconnect` | lock-free queues; callbacks of the application send again | edge-triggered events, partial sends, refused sends, two threads arming at once |
| HTTP sessions, sockets | request state; none | parse, respond | on the network sessions | text |
| Memory pool (`memory/mempool*`) | slots with their lists of spans, the page map, caches of threads | `alloc`, `realloc`, `dealloc`, `gc` | everything | spans between lists, batches to and from caches, a page map read without a lock |
| Ordered containers (`collection/detail/bst_tree.h` and its policies) | nodes with parent and child links, colour or balance, size | insert, erase by key, iterator or range, bounds, iterators | the whole library | rebalancing in many cases, iterators that must survive it |
| Garbage collector (`gc_ptr`) | list of objects, list of roots, count | `gc_new`, link, `gc` | applications | collecting while an object is constructed |
| Logging | targets, messages of a logger | log, flush | everything | little: a logger belongs to a thread |
| Other collections, serialization, basic types, text utilities, numerical code, data objects | data | sequential algorithms | | data, not control |
| Script language | programs, stacks | compile, run | coroutines | size |
| Pipes, shared memory | handles | open, read, write | | system calls |
| Test harness, applications, windows, build files | | | | GUI callbacks on one thread, or no program |

### What makes each modelled component correct

* **Lock-free queue.** Readers exclude readers and writers exclude writers; no
  slot is read while written; calls take effect one at a time, in FIFO order,
  on a queue of `capacity - 1` elements; a key that was taken comes back, which
  it does not when a batch is refused.
* **Thread pool.** The counters agree with the threads; no wake-up is lost while
  nobody pauses, cancels or closes the pool; a task put in an active pool is
  started; whoever waits for the pool to be empty is notified when it is idle;
  cancel ends every worker.
* **Threads and manager.** `m_nAlive` and `m_nThreadNum` count exactly; a
  thread is never lent twice nor sleeps with a job; `wait()` returns when the
  job is over and `close(true)` when the threads are gone.
* **Coroutines.** A coroutine runs on one thread at most and is resumed from a
  saved stack only; the two-phase switch looks like one step from outside.
* **Timer queue.** Reference counts are exact; a timer that was canceled never
  runs; workers do not all sleep past the first timer; every timer runs, is
  canceled or is dropped.
* **Network pool.** A slot is free, in one hand, or taken by one session;
  `nSessionCount` counts the taken ones; the checker finds sessions only in the
  states it expects; `wait_for_all_session_exit` returns, but for a cancel by
  another thread that it misses.
* **Network sessions.** Bytes reach the socket once and in the order they were
  put, unless the socket refused them; once the peer stops sending, its input is
  read and what was put is sent. The exceptions are those of section 3.
* **Memory pool.** Every node is in one place: with a client, in one cache, on
  its way, or free in its span. Counts and lists agree, the page map finds the
  span of every node that may come back, and leads to no memory that was
  unmapped. One span without memory, at 0, a failed `alloc_large` may leave in it.
* **Ordered containers.** A container behaves as a sorted sequence, its tree is
  balanced between calls, links agree during them, and bounds are the bounds.

## 2. The modules

| Module | Kind | Models |
|---|---|---|
| `BoundedQueue` | abstract specification | what callers of a lock-free queue may rely on |
| `LockFreeQueue` | component | `lockfree_queue.h`, one access to the header per step |
| `ThreadPool` | component | `thread_pool.cpp`, one critical section per step |
| `ThreadManager` | component | `thread.cpp`, `thread_impl.cpp`, `thread_manager.cpp` |
| `CoroutineScheduling` | abstract specification | the one-step switch that `coroutine.h` documents |
| `Coroutine` | component | `coroutine.cpp` |
| `TimerQueue` | component | `timer_queue.cpp` |
| `NetworkPool` | component | the slots, commands and counters of `iocp1.cpp`, one atomic per step |
| `Session` | component | a connected TCP session, its worker, epoll and the socket |
| `MemoryPool` | component | `mempool_paging.cpp`, `mempool_pgmap.cpp`, `mempool_cached.cpp`, `mempool.cpp` |
| `SortedSequence` | abstract specification | what an ordered container promises |
| `BalancedTree` | component | `bst_tree.h`, `rbt_tree_policy.h`, `avl_tree_policy.h` |
| `..._proofs` | proofs | of the components in the module's name; section 4 |
| `BalancedTree_links` | proofs | lemmas about trees that `BalancedTree_proofs` puts together |
| `BalancedTree_sequence` | proofs | the order of the nodes, and the tree as a `SortedSequence`; extends `BalancedTree_proofs` |
| `MC...` | TLC instances | model values, inputs and symmetry; the `.cfg` files give the constants |

In every component a call that does not finish in one critical section has a
program counter for its thread (`pc`, `wpc`, `ipc`, `cpc`); the labels are named
after what happens next. Condition variables are the sets of threads at a
sleeping label; a notification moves one or all of them, and `SpuriousWake`
moves one for no reason. An operator whose comment begins with *Fault* is a
mistake one could make in that place of the code. No specification uses it; it
shows, put in place of the operator that follows it, that some property would
notice.

Three proof modules hold the theorems of two components each and extend both.
Where the two would define the same name, one of them has another name, mostly
with its component's in it (`CoroutineSpec`, `ManagerInit`, `NetworkNext`,
`FairManagerSpec`, ...).

### LockFreeQueue

`key["get"]` and `key["put"]` are `kget` and `kput`. `Acquire` is one turn of
the entry loop (`fetch_add(1)`), `Expire` the `exchange(1)` of the thread that
drew the ticket `timeout()`. `Test`, `Alive` and `GiveUp` are the wait for room
or elements; `Snapshot` reads the other side's index and sizes the batch;
`CopyIn`/`CopyOut` move the elements, `PublishHead`/`PublishRear` advance the
index, `Release` stores zero. `Refused` is the early return at line 660, which
only a queue without QUEUE_PARTIAL takes. The actions `TakePut`, `TakeGet`,
`BackOff`, `ZeroHead`, `ZeroRear`, `FreePut` and `FreeGet` are `rewind`.
`Die` loses a thread inside a call: what QUEUE_TIMEOUT exists for. `peek`
advances `head` just as `getq` does (lines 543-551), so it is the same action.
The counter saturates above `Timeout`: the code compares it with 0 and with
`timeout()` only. The copy of a batch is one step; that no overlapping copy can
be under way at that time is `NoTornElement`.

`IsBoundedQueue` says that `BoundedQueue` is implemented. `Contents` maps the
ring to a sequence; a `putq` takes effect at `PublishRear`, a `getq` at
`PublishHead`, `rewind` at `ZeroHead` (until `rear` is zero too, the ring reads
as garbage, but nobody else is inside).

### ThreadPool

`num`, `wait`, `alive` and `state` are the counters and flags of the same
names. A worker goes `enter`, `getq`, then `run` and back, `asleep`/`woken`, or
`retire`. A worker that finds the pool paused in `getq` waits in `test_canceled`
(line 121) with `m_tMutex` held; `lock` is that worker, and everything that
needs the mutex is guarded by `lock = Free`. `state` is the set of flags of
`m_nState`. `pause` writes them without a mutex (`m_nState|=STATE_PAUSED`,
`thread.cpp:57`), so it is a read and a write (`PauseRead`, `PauseWrite`), and
what a `cancel`, a `resume` or the last worker wrote in between is lost.
`resume` keeps the operator of the code (`m_nState|=~STATE_PAUSED`, 63), which
sets the exit flag and every other one. `ManagerFlags` is what the manager does
to its threads from outside: `sm_bReqexit`, to which `test_canceled` answers
like to a cancel (`Stop`), and THREADMANAGER_DISABLED, with which a new thread
deletes itself in `svc_enter` (`Lost`). `Throw` is a task whose exception leaves
`svc`; `ThreadImpl::svc` catches it, the worker is gone and still counted. The
calls of `activate` and `cancel` are not bounded.

### ThreadManager

An OS thread is `created`, passes `svc_enter` (`top`), then is `waiting` in
`list_free` or runs a job (`entry`, `run`, `end`, `park`), and leaves through
`svc_leave`. `activate(j)` takes `n` threads from `list_free`, or new ones; in
`activate_fails` a new one cannot be created and nothing is attached.
`enter_disabled` deletes a thread that starts after the manager was disabled.
`pause()` is a read and a write (`PauseRead`, `PauseWrite`) because it does not
lock; `ThreadManager::wait` reads the flags before it locks (`ReadFlags`),
disables and drains (`Disable`), and writes them back (`RestoreFlags`).

### Coroutine and CoroutineScheduling

A thread stands for its main coroutine too. `yield` claims the callee with a
compare-and-exchange (`Claim`, phase 1), `Swap` exchanges the stacks, `Phase2`
runs on the callee's stack and gives the caller up; in between both are
STATE_RUNNING. `nsp` says whether a stack is saved, and where: at the top of
the loop of `raw_coroutine_spawn`, or inside `svc`. `Return` is the end of
`svc`, which must claim the main coroutine. `spawn` is `spawn`, `Allocate` or
`AllocateFails`, and `Exchange`.

`Implements` maps each coroutine to a *place*: stopped, paused, or the thread
that runs it. A yield takes effect at `Phase2`; until then the caller counts as
running and the callee as paused, so a claimed callee that another thread
cannot get is still only paused to the outside.

The model assumes what the interface assumes: a thread yields to its own main
coroutine only, a coroutine is not destroyed while it is paused or runs, and
one thread spawns (`OneSpawner`: `CoroutineContext::init` has no lock).

### TimerQueue

`due`, `done`, `ref` are the fields of each ITimer, which are numbered and made
in that order (`IsNew`); `queue` is the heap, of which only the order matters. A
worker pops the first timer when it is due within `m_nWait1`, looks at `done`
(`Check`), spins to its time (`Spin`), and exchanges `done` (`Run` or `TooLate`). Clients share a holder with each other,
and with the task that runs, through `copy`. `redue` is two steps, the cancel
and the put: `redue` and `Redue` of a client, `TaskCancel` and `RunAgain` of a
task. In a task the holder is at first the ITimer that runs, which is done; in a
second `redue`, or a `cancel` after the first, it is the one just queued, and
`TaskCancel` stops that one, and a client that has copied it may do so too.
`TimerQueue::cancel` is `clear` and then `SetCanceled`; nothing keeps a `putq`
from coming between. A worker leaves because of the cancel flag only, not of
`sm_bReqexit`. `ran`, `stopped` and `dropped` are history variables: timers that
ran, whose `cancel()` returned true, and that a `clear` removed.

### NetworkPool

`available` is `m_lkfqSessionAvailable` as a set, `slot` is `m_aSessions`.
`Register` is the test of the session's state, then `GetSlot`/`Refused`, `Open`
(the state becomes OK), `Add`/`AddFails` (epoll), `CountUp`, `Reset` (of
`m_nCanClose`) and `Store`; each is one atomic of the code, so the `svc_del` of
another session (`MakeReady`, `Close`, `Put`, `Uncount`, `SetCanClose`) comes in
between anywhere. The early returns leak the slot they took, as in the code. The
checker goes over all slots (`Look`, `LookAndDelete`) and then executes commands
(`GetCommand`, `Handle`), until it finds STATE_CANCEL. `cancel` sends a
DisconnectAll first, then sets the flag; the checker drops the commands it has
not executed (`Leave`). `working` counts the other threads of the pool
(`LeaveWorker`), `alive` all of them; the last to leave clears `m_nState`, and
with it the cancel flag (`thread_impl.cpp:266-270`). The thread in
`wait_for_all_session_exit` looks at `m_nCanClose` (`SeeCanClose`, `TimeOut`) and
at the flag (`test_canceled`) in turn, and goes on to `cancel()` (`CancelPool`)
and `wait()` (`WaitOver`). The pool is active from the start, and `sm_bReqexit` is
left out. Two threads do not register the same session at once:
the code tests the state and sets it later, and nothing in the interface
suggests that it may be done.

### Session

`sendq` is `lkfq_send` as the queue that `BoundedQueue` promises, `recvq` the
number of requests in `lkfq_recv`. A send is three steps of its thread: `Send`
(putq), `Count` (`m_nPendingSend++`, which decides whether to arm), and `ep_ctl`,
which reads the count of sends (`Arm`), then that of receives (`ArmRecv`), and
gives the mask to epoll (`Modify`). `Disconnect` is the change of the state and the
shutdown of the socket; it empties the queues afterwards, one element per step
(`DrainRecv`, `DrainSend`), while others still put and get. The worker fetches an
event (`Fetch`), and of EPOLLIN and EPOLLOUT together handles the first only
(`Handler`, line 764). `HandleSend` is `GetSend`, `SendPiece`, `Sent`,
`OnSendCompleted` and `Again` (EAGAIN: the buffer is swapped with `tmp_send`,
the former `tmp_send` is destroyed, and the loop goes on). `HandleRecv` is
`NoRequest`, `Read`, and the callback. The peer and the socket are external: the
socket has room for `Window` units, `Drain` frees one, `Arrive` brings input or
its end. epoll is edge-triggered: `listed` becomes true when something in the
mask happens or when the mask is replaced and something in it is ready. `wire`,
`put`, `refused` and `crossed` are history variables; the last says that another
thread was inside `ep_ctl` when the mask made last was begun.

### MemoryPool

An address is a number and a bucket of the page map covers `PerBucket` of them; a
span is named by its first address, has the length of a bucket and need not
start with one, so it may straddle two buckets and share one with another span.
`bucket` is the page map, `sl_list` the slot's list, `cache` and `nd_cached` a
thread's list and its count. Threads with a cache use `AllocCached`,
`alloc_small_batch` and `DeallocCached`; the others `alloc_small` and
`dealloc_real`. A cache over its limit gives half of its nodes back under the
lock (`LockBatch`, `dealloc_batch_nolock` and `NodeBack` for each node,
`BatchDone`). Large blocks go through
`alloc_large` and `FreeLarge`; `page_alloc` may fail at any time, and then gives
the cache and the empty spans back and tries once more (`tc_gc`, `TryGc`, and `gc`,
one empty span per step with the slot's lock held). When it fails again,
`alloc_large(size_t)` does not look at the NULL it gets
(`mempool_paging.cpp:620`): with the header at the end of the block it writes near
zero (`WriteNearNull`, the process is over), and with one of `spanalloc` it puts a
span of the base 0 into the page map and returns NULL (`InsertNull`); `GiveUp`
is `spanalloc` failing too, and the call that does look. `mp_free`, and every turn
of a batch, read the page map without its lock and the span in a later step; when
that span is gone, the program reads memory that is not mapped (`ReadFreed`, the
process is over). `Lowest` is the lowest address that `mmap` gives; that a large
block does not reach from zero to it (`LowestAssumption`) is an assumption about
the system. Clients do not free NULL. That `page_alloc` fails for a second-level
table of the page map (`mempool_impl.h:321`) is left out.

### BalancedTree and SortedSequence

One call at a time: the containers are sequential. What takes steps is the
rebalancing: the code's recursion up the tree is one turn per step, so the
invariants also see the middle of it. Left and right are mirror images in the
code and one definition here. `policy` and `multi` are the template parameters.
`do_erase` exchanges a node that has two children with its predecessor, links
and all, before unlinking it. `erase_key` on a multi container erases equal
neighbours one at a time, `erase_range` goes on from the successor it has taken
before it erases. `Implements` maps the tree to `InOrder`; a call that is not
finished still reads as the sequence before it (`was`), so each takes effect
when it returns.

## 3. The runs

| Run | Checks | Instance |
|---|---|---|
| `cort` | `Asserted` `StackSaved` `OneThreadEach` `MainWaits` `Implements` | two threads, three coroutines, one extra datum |
| `lfq_ring` | `TypeOK` `MutualExclusion` `NoTornElement` `IsBoundedQueue` `KeyGivenBack` | a reader of one or two elements, a writer of pairs, a rewinding thread, capacity 4, `timeout()` 1, QUEUE_NONBLOCK and QUEUE_PARTIAL |
| `lfq_kept` (violated) | `KeyGivenBack` | a reader and two writers of pairs, capacity 4, QUEUE_NONBLOCK without QUEUE_PARTIAL |
| `lfq_rescue` | `WaiterRescued` | a reader, two writers of whole pairs, one of which may die with the key, blocking, QUEUE_TIMEOUT |
| `mem` | `OnePlace` `ListSound` `SpanFound` | a thread with a cache and one without, the addresses 3 to 8 in buckets of two, large blocks of three, caches of four |
| `net` | `SlotsKept` `CountKept` `StatesExpected` `WaitReturns` | two threads, two sessions, two slots, three registrations, a DisconnectAll, a failure of `epoll_ctl`, a cancel, the checker and one worker |
| `pool` | `WorkerCount` `NoLostWakeup` `EmptyMeansIdle` `TaskServed` `CanceledWorkersLeave` | two or three workers, two tasks, one of which throws, any number of pauses, resumes, cancels and activations, a manager that is closed or waited for |
| `sess` | `InOrder` `Served` | a caller and the worker's callbacks, buffers of two units, of one, and a WaitForSend; a socket that holds one unit each way |
| `thrd` | `FreeIsIdle` `ThreadNumCount` `AliveCount` `JoinReturns` `DrainReturns` | two jobs, one FLAG_DYNAMIC and one that loops, two OS threads, two activations of one or two threads, a client that pauses, resumes, cancels, waits and closes |
| `thrd_lost` (violated) | `WaitTerminates` | a client closes the manager while another waits for a job whose thread is being born |
| `timer` | `RefCount` `CanceledIsFinal` `NoOversleep` `TimersRun` `EmptyIsTold` `WorkersLeave` | two workers, a client, two ITimers, delays 0 and 2, clear and cancel, tasks that redue |
| `tree` | `Balanced` `WellLinked` `BoundsFound` `Implements` | eight nodes with six keys, both policies, unique and equal keys |

### Bounds, and why they are enough

* *Queue.* Capacity 4 is the smallest power of two in which a batch of two can
  fit, be cut, be refused and wrap around the end. Three roles are enough for
  each pair of operations to meet, and three threads for a waiter to time out
  while one holds the key and another retries. Larger batches only move more
  elements in the same step. The theorems below hold for any number of threads.
* *Pool.* With `m_nWorkerMin` 2 one worker sleeps while another has been notified
  and is on its way, so that a task can be stranded; `m_nWorkerMax` 3 and
  `m_nTaskHint` 2 make the second task start a surplus worker. Neither the calls
  nor the sequences of them are bounded, only the tasks: two, one for each of two
  sleepers. The throwing one leaves a counter too large for the other.
* *Threads.* Two jobs on two OS threads let a thread be reused for the other
  job, or be attached to one while it parks after the other; a batch of two and
  a thread that cannot be created meet in `activate_fails`.
* *Coroutines.* Two threads and three coroutines: one each to run and one to
  fight for; each may also be ended and spawned again without bound.
* *Timers.* Two ITimers give a first and a later one; `redue` makes the second
  from the first, and the task that did so, or the client that copied its holder,
  may cancel it. Two `redue` in one task would need a third; the theorems hold
  for any number. Delays are 0 (due at once) and 2, at least `m_nWait1`, so
  workers sleep as well as spin, and a timer put later may be due earlier. The
  clock stops at `MaxTime`; every time is cut there, so nothing is due after it.
* *Network pool.* Two slots and two sessions allow a session to move to the
  other slot while it is being deleted from the first; the third registration
  finds no slot, or a slot just given back. One failure leaks a slot: a second
  would only leave less to see. One worker beside the checker is enough for
  either to be the last, who clears the flag.
* *Session.* A buffer of two units over a socket of one is cut and refused; a
  second overtakes it, or is refused too and destroys it.
  One unit of input is enough for an EPOLLIN that hides an EPOLLOUT.
* *Memory.* Three spans of two nodes fit between 3 and 8, aligned or shifted by
  one; a large block of three straddles buckets, and one at 0 reaches as far as
  the first bucket of the others. A cache of more than four nodes is full of
  nodes of several spans.
* *Tree.* With eight nodes a red-black tree climbs twice through the deletion
  cases and an AVL tree has a rotation that is followed by another one further
  up; every order of insertions and erasures is explored, not a sample.

### Fairness

Every fair specification asks for weak fairness of the steps a *scheduled*
thread takes by itself: inside a call, or in the loop of a worker or an OS
thread. Starting a call is never fair: nobody is obliged to put, cancel, pause
or resume. `TimerQueue` adds weak fairness of the clock. This is what an
operating system that does not starve a runnable thread gives. In `ThreadPool` a
mutex is held across steps by a paused worker only, who may keep it for ever. The
spin loops of the lock-free queue have no fairness of their own: `KeyGivenBack` is about the
holder of the key, not about who gets it next, because with weak fairness alone
(and in the code) a given waiter may lose every time.

In `NetworkPool` the checker, the threads inside `Register`, the second half of
`cancel`, the worker that finds the pool canceled (`LeaveWorker`) and the waiter
(`Waiting`: it looks at `m_nCanClose` every 100 ms) are fair; sessions need not
disconnect, and time-outs need not come. In `Session` the
worker, the rest of a call once its `putq` is done, and the peer's reading are
fair; input and disconnects are not. `Served` is about runs in which the peer stops
sending at some time (`<>[][input' <= input]_input`), because the code serves
EPOLLIN first: while input never stops, nothing need be sent. That what has
arrived by then is read, and what was put is sent, is its conclusion. It excepts
a session that is disconnected, one whose mask was overwritten by an older one
(`Stale`, two threads in `ep_ctl`), one whose HandleSend has destroyed a buffer
(`Destroyed`), and sends after the end of the input; all four are behaviours of the
code, listed below.

In `WaitReturns` the exception is a cancel by another thread that the waiter has
not seen: the last thread of the pool may have cleared the flag before it looks
again. In the pool's properties, pause is an exception where it is one in the
code: `NoLostWakeup` is about a pool whose flags no pause, resume, cancel or exit
request has changed since its last worker left (`Undisturbed`).

`CHECK_DEADLOCK FALSE` is set for three runs in which the system may rightly
stop: `lfq_rescue` (every thread of the queue dead or waiting for the dead),
`net` (the checker has left after a cancel and all calls are made) and `sess`
(disconnected, everything put).

### What the violated runs show

`lfq_kept`: the comment at `lockfree_queue.h:615` says that a thread whose batch
does not fit will "store zero to the key and leave". Without QUEUE_PARTIAL, line
660 returns before it does: `kput` stays taken, and no later writer, nor `rewind`,
ever gets it. `lfq_ring` shows that with QUEUE_PARTIAL every key is given back.

`thrd_lost`: `svc_enter` deletes a thread that was attached to a job before the
manager was closed, and leaves `m_nAlive` as `activate` set it, so `wait()`
("Wait until thread terminates", `thread.h:70`) never returns.

### Behaviours the models contain and no run is spent on

They follow from the code line by line, and either no document says otherwise or
one step shows them; the properties above name them as exceptions.

* Pool: a worker paused in `getq` keeps `m_tMutex`, so `cancel()`, which needs
  it before it sets the flag (`thread_pool.cpp:90`, 121), waits for `resume`.
  Surplus workers leave without telling `wait_for_empty` (136), which also
  returns at once when the queue is empty though a task runs (56), after 500 ms,
  and on a spurious wake-up. With two sleepers a torn `pause` strands a task: it
  reads the flags, `resume` sets them all, the notified worker finds the pool
  canceled and leaves, and `pause` writes the old flags back.
* Threads: `resume()` leaves the pause flag set and sets the exit flag
  (`thread.cpp:63`); a `cancel()` between the read and the write of `pause()` is
  lost (57); two concurrent calls of `ThreadManager::wait` undo each other's
  flags (`thread_manager.cpp:79`).
* Memory: `find_bucket` takes no lock, so the header of a neighbouring span that
  is freed at that moment may be read after it is unmapped (`ReadFreed`,
  `mempool_pgmap.cpp:34`). A span that becomes empty in `dealloc_real` is
  forgotten (`mempool_paging.cpp:507`). A large block for which `page_alloc` fails
  twice leaves a span of the base 0 in the page map, or ends the process (620-653).
* Network pool: a waiter in `wait_for_all_session_exit` that is asleep while
  another thread cancels the pool, and all of its threads leave, finds the flag
  cleared, and, with sessions left that nobody deletes, waits for ever.
  `m_nCanClose` may be set after the reset by a concurrent `Register`
  (`iocp1.cpp:329`), so that `wait_for_all_session_exit` returns with a session
  registered. `OnConnected` is called after the state is OK, so it
  may follow `OnDisconnected` (74). A failing `epoll_ctl` leaks a slot (57). The
  DisconnectAll of `cancel()` may be dropped with the other commands (255). An
  event fetched for a session that has since been registered again disconnects
  it.
* Session: on EAGAIN the next buffer of `lkfq_send` is tried, so it may overtake
  the refused one (`test_iocp.cpp:125` asserts that packets come in order); a
  second EAGAIN destroys the first (586), which stays counted in
  `m_nPendingSend`, so that no later send arms epoll. Two threads in
  `ep_ctl` may leave the mask of the older counts (`session.cpp:158`). After the
  end of input, or while input never pauses, an EPOLLOUT that is reported with
  EPOLLIN is used up (`iocp1.cpp:764`).

## 4. What is proved

For every value of the constants that satisfies the modules' assumptions:

| Theorem | Says |
|---|---|
| `LockFreeQueueThreadManager_proofs!TypeCorrect` | `TypeOK` and `FrameOK` always hold |
| `LockFreeQueueThreadManager_proofs!Exclusion` | without QUEUE_TIMEOUT no two threads are past the same key |
| `LockFreeQueueThreadManager_proofs!BatchesCorrect` | `Inv`, the inductive invariant of the batches |
| `LockFreeQueueThreadManager_proofs!NeverTorn` | `NoTornElement`: the unlocked copies never overlap |
| `LockFreeQueueThreadManager_proofs!Implements` | without QUEUE_TIMEOUT and deaths the ring implements `BoundedQueue` |
| `CoroutineTimerQueue_proofs!SwitchCorrect` | `TypeOK` and `SwitchInv` always hold |
| `CoroutineTimerQueue_proofs!OneThread` | no coroutine runs on two threads |
| `CoroutineTimerQueue_proofs!Saves` | only saved stacks are resumed |
| `CoroutineTimerQueue_proofs!NeverAsserts` | the assertions of the switch hold |
| `CoroutineTimerQueue_proofs!MainResumable` | the main coroutine of a thread can be claimed when `svc` ends |
| `CoroutineTimerQueue_proofs!Refinement` | the two-phase switch implements `CoroutineScheduling` |
| `LockFreeQueueThreadManager_proofs!ManagerCorrect` | the inductive invariant of threads and jobs |
| `LockFreeQueueThreadManager_proofs!FreeThreads` | `FreeIsIdle`: a thread that may be lent has no job |
| `LockFreeQueueThreadManager_proofs!CountsThreads` | `m_nThreadNum` is exact |
| `LockFreeQueueThreadManager_proofs!CountsAlive` | `AliveCount`: `m_nAlive` never too small, and too large only after a close |
| `ThreadPool_proofs!PoolCorrect` | the inductive invariant of tasks and workers |
| `ThreadPool_proofs!CountsWorkers` | `WorkerCount`: the three counters agree with the threads |
| `ThreadPool_proofs!WakesWorkers` | `NoLostWakeup`: in a pool whose flags no pause, resume, cancel or exit request has changed, every queued task has a notified worker of its own while another sleeps |
| `ThreadPool_proofs!TellsWhenIdle` | `EmptyMeansIdle`: a waiter in `wait_for_empty` is *notified* only when nothing is queued or under way; of its other ways out (an empty queue, its 500 ms, a spurious wake-up) nothing is said |
| `CoroutineTimerQueue_proofs!TimerCorrect` | the inductive invariant of holders, workers and queue |
| `CoroutineTimerQueue_proofs!CountsReferences` | `RefCount`: reference counts are exact |
| `CoroutineTimerQueue_proofs!CancelIsFinal` | `CanceledIsFinal`: a timer stopped by a client, by a task or by a second `redue` in one task has not run and will not |
| `CoroutineTimerQueue_proofs!WakesInTime` | `NoOversleep`: the workers never all sleep past the first timer |
| `NetworkPoolSession_proofs!PoolCorrect` | `PoolInv`, the inductive invariant of slots and sessions |
| `NetworkPoolSession_proofs!KeepsSlots` | `SlotsKept`: no slot is given out twice, and as many are lost as `epoll_ctl` failed |
| `NetworkPoolSession_proofs!KeepsCount` | `CountKept`: `nSessionCount` |
| `NetworkPoolSession_proofs!ExpectsStates` | `StatesExpected` |
| `NetworkPoolSession_proofs!SessionCorrect` | the inductive invariant of the send path, up to and through a disconnect |
| `NetworkPoolSession_proofs!SendsInOrder` | `InOrder` |
| `MemoryPool_proofs!PoolInv` | `Inv`, the inductive invariant of spans, caches and nodes, failed large blocks included |
| `MemoryPool_proofs!NodesInOnePlace` | `OnePlace`: no node is in two places or lost |
| `MemoryPool_proofs!ListIsSound` | `ListSound`: the head of the list always has a node to give |
| `MemoryPool_proofs!SpansAreFound` | `SpanFound`: the page map finds the span of every node that may come back, and leads to a span without memory only at 0, where a failed `alloc_large` has put it |
| `BalancedTree_proofs!PhasesHold` | `IInv`, the inductive invariant of trees and calls |
| `BalancedTree_proofs!LinksAgree` | `WellLinked`: links agree at every turn of every rebalancing |
| `BalancedTree_proofs!StaysBalanced` | `Balanced`: between calls the tree is balanced and `size()` counts it |
| `BalancedTree_sequence!BoundsHold` | `BoundsFound`: the searches find the bounds, from the order of the keys in the tree |
| `BalancedTree_sequence!KeepsSorted` | `Implements`: the tree, rebalancing and all, implements `SortedSequence` |

**Lock-free queue.** `TypeOK` alone is not inductive: that an index stays a
slot depends on the batch length `cnt`, which depends on the caller's `n` and on
the free room at `Snapshot`. `FrameOK` says what a thread's locals are worth at
each label (`cnt <= n`, `cnt < Cap`, `n` is the length of the batch), and the
two together are inductive. The lemmas `AtSlot`, `AvailableBound` and
`IndexOfRegion` are the arithmetic of the mask. `Exclusion` strengthens
`MutualExclusion` with `KeyTaken`: a key that somebody holds does not read as
zero. Without it, `fetch_add` could let a second thread in. Each step either
leaves the keys alone, enters with the key at zero, or is the holder's store;
`OthersKeep` is the frame argument for the other threads.

**Lock-free queue, the elements.** A thread sizes its batch by the index of the
other side and copies later, when that index may have moved. `Fits` is inductive
all the same, because a reader only makes room and a writer only elements
(`Empty`, `Fill`: what moving an index by `c` does to both amounts). Hence the
slots from `rear` on that a writer fills and those from `head` on that a reader
reads are disjoint (`Disjoint`, from `Apart` and `Onwards`), which is
`NoTornElement`, and `Copied`: what has been copied is still in the ring when
the index is published. For the refinement, `Shape` gives what the callers see
of a thread at each label, and `Contents` is a stretch of the ring. Publishing
`head` drops the first `cnt` elements of it, publishing `rear` appends the batch
(`StretchSplit`); `ContentsStay` shows that a copy into the free part is not
seen, `RewindStep` and `SecondHalf` that `rewind` empties the queue at
`ZeroHead`. Giving up takes effect when the thread sees the queue empty or full.
The theorem assumes that no thread dies inside a call: one that dies between
`PublishHead` and `Release` has taken its elements and never returns.

**Coroutines.** `OneThreadEach` and `StackSaved` speak of one instant; a switch
spans three. `SwitchInv` describes the middle of it: each thread *claims* the
coroutine it runs and, while it switches, the callee; claims of different
threads are disjoint and are exactly the coroutines in STATE_RUNNING
(`ClaimsOK`); exactly one of `m_pLastRoutine` and `m_pVoidRoutine` is the caller
(`SwitchOK`); and `nsp` is a saved stack exactly when no thread is on it
(`StacksOK`). A compare-and-exchange from STATE_PAUSED can therefore only claim
a coroutine that nobody claims and whose stack is saved (`ClaimKeeps`,
`ClaimStacks`). There is one lemma per action. For the refinement, `PlaceIs`
computes the place of every coroutine from the invariant; `Exchange` is the
abstract spawn, `Phase2` the abstract yield or finish, all other steps stutter.

**Threads and manager.** `FreeIsIdle` says what a free thread is; that a thread
which has left its job is attached to none, and one that works is attached to
one (`Attachment`), makes it inductive. `AliveCount` is an action property: each
step either changes `m_nAlive` and the set of attached threads by the same
number, or loses a thread while the manager is disabled (`Exact`). The
cardinalities go through the library's theorems on finite sets.

**Thread pool.** The counters count threads per place (`At`), so `TasksOK` and
`TypeOK` come with a lemma `Moved` for what one worker's move does to two places,
and `LaunchCounts` for a batch that starts. `NoLostWakeup` needs `WorkerCount`:
`putq` notifies only if `m_nWorkerWait` is positive. A woken worker leaves its
place only if it takes a task, finds the queue empty, or the pool disturbed.
It is about a pool in `Undisturbed` flags because `pause` is torn: what it has read
may lack a CANCEL that is there now, and writing it back takes `Stop` away from a
pool whose notified worker has left. But it never leaves `m_nState` clear, since
the PAUSED bit is in it; only the last worker clears it, and then none is asleep.
So clear flags have been clear since the last worker left, and no worker has
left but as surplus. `EmptyMeansIdle`
is an action property: only `Sleep` tells a waiting client, when `m_nWorkerWait`
has reached `m_nWorkerNum`; by `WorkerCount` no counted worker is then anywhere but
asleep, and a worker has a task only while it runs one (`Busy`).

**Timer queue.** A reference is a holder, a worker at work, or the entry in the
queue; a worker has an ITimer exactly while it is at work on it (`Working`), and
each step moves one reference or makes one (`HoldMoves`, `CurMoves`). `done` is 1
for every timer that ran or was stopped (`Decided`), and both exchanges read 0
before they claim it, so the two sets stay disjoint; a task's own `redue` and
cancel (`TaskCancel`) are further exchanges of that kind, on whichever ITimer its
holder has. `NoOversleep` is kept because
each step leaves somebody awake (`Awake`), lets the worker that saw the first timer
sleep until just before it is due, or leaves the queue and the sleepers alone.

**Network pool.** `SlotsKept` and `StatesExpected` need to know that a session is
in one `Register` or in one slot at most, except for the slot that `svc_del` is
emptying after it made the session READY, and that a `Register` finds its
session as it left it (`OwnersOK`). The counts follow slot by slot: each step
adds or removes one slot or one thread of the sets counted (`LostStep`,
`CountStep`).

**Session.** `lkfq_send` is a suffix of what was put (`QueueOK`), so the buffer in
hand is the one that left it last, or one that was refused; `tmp_send` holds a
refused one; and only buffers that left the queue are on the wire (`HandOK`,
`TmpOK`, `WireOK`). A buffer that was not refused is therefore newer than
everything on the wire when its first unit is sent, and nothing comes between
its units. The number of units of each buffer follows from `left`. A
disconnect empties the queue from the front while sends go on at its end, so
`QueueOK` is kept; it does so only once the state has changed (`ShutOK`), from
when on the socket takes nothing, so what it takes out need not be in order with
the wire.

**Memory pool.** `OnePlace` counts places; its inductive form says it without
counting. `Alone`: what one holder has (a client, a cache, a thread on its way to
give back, the free list of a span) no other holder has. `PlacesOK`: the nodes of the
spans are exactly what somebody has. That rests on `Apart`, that no two spans
overlap, from which a node lies in one span (`NodesOfOne`) and a step on one span
leaves the nodes of the others alone (`Refilled`, `Created`, `Dropped`). The span
of the base 0 that a failed `alloc_large` leaves is one more of them: it ends below
`Lowest`, so it overlaps none, and it has no nodes.
`dealloc` must find that span again: two spans that start in different places lie a
bucket's length apart, so they never start in the same bucket (`BucketsApart`), and
a node lies in the bucket its span starts in or in the next (`BucketsNear`). Hence
`PageMap`, every bucket leads to the span that starts in it, is kept, and the two
buckets that `find_bucket` looks at are enough (`FindsNode`). The exact `nd_nnum`
(`NodesOK`) is what makes giving up a span safe: a span is unmapped when its
`nd_nnum` reaches zero, and then all of its nodes are free (`GivesBack`), so nobody
has one. `HeadGives` is the same count seen from the other side, for the batch a
cache takes. There is one lemma per action; `OnePlaceHolds` counts the places.

**Ordered containers.** That a tree *is* one is said without recursion: `Links`
has a rank `r` that grows from every parent to its children and a root that
every linked node but itself has above it, so there are no cycles and nothing is
cut off. Heights are a function `h` that exists and fits every node and its
children (`RbtWhole`, `AvlWhole`), rather than one computed. What a rebalancing
has left to do is one exception to that fit: a red node whose parent may be red
(`RbtGrowing`), a child that lacks one black (`RbtLacking`), a subtree that became
deeper or less deep than the factor of its parent says (`AvlGrowing`,
`AvlShrunk`). `IInv` says in which phase a call is and which exception the tree
may have there: `Resting`, `Inserting`, `Erasing` (between two erasures of one
call) or `Rebalancing` (a node unlinked and not yet destroyed). This is what the
comments of the policies take for granted from case to case.

Each assignment of the code is described once (`GetsParent`, `Joined`,
`Replaced`), and a rotation by them (`RotateIs`); from there on only the
description `Rotated` is used: it leaves a tree on the same nodes
(`RotatedLinks`). For every case of the policies there is a lemma about what it
does to the exception: it removes it or passes it to the parent
(`BalancedTree_links`, for both sides at once). `do_erase` exchanges a node with
its predecessor by four assignments that depend on whether the two are
neighbours; `Exchanges` shows that all of them amount to a renaming of the two
nodes (`Swap`), so that links and heights are carried over by it (`SwappedRbt`,
`SwappedAvl`). The loops down a tree end at a node of the tree (`WayEnds`: a way
that gains rank at every node is no longer than there are nodes).

The properties themselves use recursive functions (`BlackDepth`, `Depth`,
`InOrder`), bounded by the number of nodes. `EveryLevel` is their induction: a
set of pairs of a level and a node that is closed upwards contains every node at
the last level. It rests on the well-founded order of the numbers, stated with a
set instead of an operator (`AllNumbers`). It shows that the computed heights are
the `h` of the invariant (`DepthIs`) and that a walk from the root meets the
linked nodes once each; with `Counted` (`m_nSize` is the number of nodes that
are constructed) this is `Balanced`.

*The order of the keys.* `Spread` gives every linked node a place `O` from left to
right, an integer that grows to the right of a node and falls to its left, and
the set `D` of the nodes below it. `Turned` says that whatever places the nodes
had, they still have: it holds of every rotation and every change of colour
(`RotatedTurned`, `RecolouredTurned`), hence of every turn of both policies.
Only three steps move nodes. `insert` puts the new one where the search ended:
what the descent has left behind (`Cut`) lies on the right sides of it, so the
keys stay in order (`PlantedSorted`). The exchange of `do_erase` does put two nodes
out of order, but one of them is unlinked at once, and no third stands between
them (`SwappedOrder`, from `LowestNext`). Unlinking moves nobody
(`BypassedSpread`). `OInv`, that some such `O` agrees with the keys, is therefore
inductive beside `IInv`; `Sorted` is strict unless equal keys are kept. Between
calls a walk meets the nodes in the order of `O` (`WalkRises`), an iterator goes to
the next one (`StepNext`), and a search that goes on down and then at most one step
ends at the leftmost node of those it looks for (`LowerLeftmost`,
`UpperLeftmost`), which is `BoundsFound`.

*The sorted sequence.* Given nodes with given places form one sequence only
(`RisingOnce`), so whatever a walk finds after a call is known once its nodes and
their order are. The call has remembered the sequence it found, `was`, and the
third part of `OInv`, `Told`, says at every step what of it is still to be done: an
insertion has `was` on all nodes but the new one, which is the last of those with
an equal or smaller key (`Last`); an erasure by key has `was` without as many
elements of that key as it has counted, the node it found going last (`KeyTold`,
`LastTold`); an erasure by iterators has `was` without the elements
from the first iterator to the node it will go on with (`RangeTold`). The successor
that the code takes before it unlinks a node is the next element of `was`
(`RangeGoes`); and when neither neighbour of a node is equal to it, no other node
is, so an erasure by key leaves none behind (`NoneNext`, `EqualEnds`). When the
call returns, what is gone is one stretch of `was` (`EqualPlace`, `KeptRises`) or
what is new stands in one place of it (`InsertedPlace`), as `SortedSequence` wants. `StepMaps` puts together
that each action is a step of the sequence or leaves it as it is; all turns
of a rebalancing are of the second kind (`WorkStill`). The order of equal
keys is part of this: a new one goes behind the others.

The constants' assumptions are the named `ASSUME`s of the components, which TLC
evaluates for each instance; the proofs about counts need sets of threads, tasks
and timers to be finite. `OneSpawner` is the only one about behaviour.

**Only model-checked:** every liveness property (fairness and ENABLED are out of
the prover's reach), and what QUEUE_TIMEOUT does to the queue. Every invariant that
a run checks is proved.

## 5. Limits

* Sequential consistency: the `AtomicInt` operations of the code are full
  barriers, and most else is under a mutex, so steps interleave. The copies of
  the lock-free queue are ordered by those operations; what is read or written
  under no lock at all (the flags in `pause`, the page map in `find_bucket`) takes
  a step for each access.
* Time limits: `wait_for`/`wait_until` of threads and events are `wait` with one
  more way out and are left to the clients; only the timer queue has a clock.
* Counters do not overflow: `kget` and `kput` would have to pass 2^32 failed
  attempts while one thread holds the key.
* A timer queue is not paused in the model; it would wait with its mutex held
  just as a thread pool does.
* `NetworkPool` and `Session` are one protocol seen twice: the pool knows only
  the state of a session, the session only its own connection. A session that
  is registered again starts with the counts that `Disconnect` left; the model
  ends with the first connection.
* No queue of a session is full in the model, and a request to receive is made
  one at a time, as the sessions of the library do.
* One size of nodes in `MemoryPool`; which node a list yields first is open.

### Not modelled, and why

* Network: UDP sessions, accept and connect, the byte accounting, attached
  objects, the build for completion ports (another program behind the same
  interface), HTTP sessions (text).
* Memory: several sizes of nodes and `realloc`, which copies between two of
  them; span headers kept outside spans; debug information; page protection.
* Garbage collector: under its recursive mutex it is sequential. The subtle case
  is a collection while an object is constructed: the members of that object are
  not roots (`gc_ptr.h:211`), and it is not linked yet (396), so what only they
  reach is destroyed. That needs no interleaving to show, and is not modelled.
* `SRSW_Queue`: nothing in the library uses it. `Event` and the other wrappers of
  system calls: modelled by what they do where they are used.
* The script language (scanner, parser, code generator, virtual machine), text
  utilities, serialization, numerical code, data objects: large sequential
  translations of data with little control of their own. A model short enough
  to read would not be about this code.
* Applications and windows: callbacks of a single GUI thread.

## 6. Order of the work, and what could follow

The components were taken in the order in which the library stands on them:
lock-free queue, thread pool, threads and manager, coroutines, timer queue,
ordered containers, memory pool, network pool, sessions. Proofs followed the
checks, invariants first.

What could follow:

1. `NetworkPool` composed with `Session`, with sessions that are connected again
   while a worker still has an event of their former connection.
2. `ThreadManager` composed with `ThreadPool`: `close` notifies the threads of the
   manager and not those asleep on a pool's own condition variable
   (`thread_manager.cpp:66`).
3. The garbage collector, with reachability as a fixed point over a set.
