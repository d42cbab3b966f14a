----------------------------- MODULE NetworkPool -----------------------------
(***************************************************************************)
(* src/ewa_base/net/iocp1.cpp (the build for epoll): the slots of a pool   *)
(* of network sessions.  Any thread registers sessions; one thread of the  *)
(* pool, the checker, deletes those that were disconnected and executes    *)
(* commands; m_nCanClose tells wait_for_all_session_exit that no session   *)
(* is left.  Only m_lkfqSessionAvailable, m_lkfqCommand, the counters and  *)
(* the states of the sessions are shared, all of them atomics.             *)
(***************************************************************************)
EXTENDS Integers, FiniteSets

CONSTANTS
  Sessions,
  Clients,      \* the threads that register sessions
  NoSession,
  MaxSlot,      \* the slots are 1 .. MaxSlot: m_nSessionMax is MaxSlot + 1
  MaxRegister,  \* bound: calls of Register that pass the first test
  MaxCommand,   \* bound: calls of DisconnectAll
  MaxFail,      \* bound: how often epoll_ctl fails
  MaxWorker     \* the n of activate

ASSUME NetworkPoolAssumption ==
  /\ NoSession \notin Sessions
  /\ IsFiniteSet(Clients)
  /\ {MaxSlot, MaxRegister, MaxCommand, MaxFail, MaxWorker} \subseteq Nat /\ MaxSlot > 0

Slots == 1 .. MaxSlot
Calls == {"register", "command", "fail"}

VARIABLES
  available,    \* m_lkfqSessionAvailable
  slot,         \* m_aSessions
  status,        \* the state of each session
  count,        \* accounter.nSessionCount
  closable,     \* m_nCanClose
  commands,     \* m_lkfqCommand: how many DisconnectAll it holds
  canceled,     \* STATE_CANCEL in m_nState of the pool's Thread
  working,      \* how many threads of the pool are in svc_worker
  rpc, key, n,  \* where each thread is in Register, its session, its slot
  cpc, i,       \* where the checker is, and its slot
  canceler,     \* where a thread is in cancel()
  waiter,       \* where a thread is in wait_for_all_session_exit
  calls         \* the calls made and the failures, for the bounds

pool        == <<canceled, working>>
registering == <<rpc, key, n>>
checking    == <<cpc, i>>
callers     == <<canceler, waiter, calls>>
networkVars == <<available, slot, status, count, closable, commands,
                 canceled, working, rpc, key, n, cpc, i, canceler, waiter, calls>>

NetworkInit ==
  /\ available = Slots /\ slot = [k \in Slots |-> NoSession]
  /\ status = [s \in Sessions |-> "ready"]
  /\ count = 0 /\ closable = TRUE /\ commands = 0 /\ canceled = FALSE /\ working = MaxWorker
  /\ rpc = [t \in Clients |-> "out"]
  /\ key = [t \in Clients |-> NoSession] /\ n = [t \in Clients |-> 0]
  /\ cpc = "top" /\ i = 0
  /\ canceler = "out" /\ waiter = "out"
  /\ calls = [c \in Calls |-> 0]

------------------------------------------------------------------------------
(* Register.                                                               *)

GotoR(t, l) == rpc' = [rpc EXCEPT ![t] = l] /\ UNCHANGED <<key, n>>

(* Register returns, and its variables are gone.                           *)
EndRegister(t) ==
  /\ rpc' = [rpc EXCEPT ![t] = "out"]
  /\ key' = [key EXCEPT ![t] = NoSession] /\ n' = [n EXCEPT ![t] = 0]

(* Fault: the state of the session is not looked at.                       *)
RegistrableFault(s) == \A t \in Clients : rpc[t] # "out" => key[t] # s

(* A session that is READY; two threads do not register the same one.      *)
Registrable(s) ==
  /\ status[s] = "ready"
  /\ \A t \in Clients : rpc[t] # "out" => key[t] # s

Register(t, s) ==
  /\ rpc[t] = "out" /\ Registrable(s) /\ calls["register"] < MaxRegister
  /\ rpc' = [rpc EXCEPT ![t] = "slot"] /\ key' = [key EXCEPT ![t] = s]
  /\ calls' = [calls EXCEPT !["register"] = @ + 1]
  /\ UNCHANGED <<available, slot, status, count, closable, commands, pool,
                 n, checking, canceler, waiter>>

Refused(t) ==
  /\ rpc[t] = "slot" /\ available = {}
  /\ EndRegister(t)
  /\ UNCHANGED <<available, slot, status, count, closable, commands, pool,
                 checking, callers>>

(* Fault: the slot is looked at, as with peek, and stays in the queue.     *)
WithoutFault(k) == available

Without(k) == available \ {k}

(* A slot found in use is not given back.                                  *)
GetSlot(t) ==
  /\ rpc[t] = "slot"
  /\ \E k \in available :
       /\ available' = Without(k)
       /\ IF slot[k] = NoSession
          THEN rpc' = [rpc EXCEPT ![t] = "open"] /\ n' = [n EXCEPT ![t] = k] /\ UNCHANGED key
          ELSE EndRegister(t)
  /\ UNCHANGED <<slot, status, count, closable, commands, pool, checking, callers>>

Open(t) ==
  /\ rpc[t] = "open"
  /\ status' = [status EXCEPT ![key[t]] = "ok"]
  /\ GotoR(t, "add")
  /\ UNCHANGED <<available, slot, count, closable, commands, pool, checking, callers>>

Add(t) ==
  /\ rpc[t] = "add"
  /\ GotoR(t, "count")
  /\ UNCHANGED <<available, slot, status, count, closable, commands, pool,
                 checking, callers>>

(* epoll_ctl fails; the slot is not given back.                            *)
AddFails(t) ==
  /\ rpc[t] = "add" /\ calls["fail"] < MaxFail
  /\ status' = [status EXCEPT ![key[t]] = "ready"]
  /\ calls' = [calls EXCEPT !["fail"] = @ + 1]
  /\ EndRegister(t)
  /\ UNCHANGED <<available, slot, count, closable, commands, pool,
                 checking, canceler, waiter>>

CountUp(t) ==
  /\ rpc[t] = "count"
  /\ count' = count + 1
  /\ GotoR(t, IF count = 0 THEN "reset" ELSE "store")
  /\ UNCHANGED <<available, slot, status, closable, commands, pool, checking, callers>>

Reset(t) ==
  /\ rpc[t] = "reset"
  /\ closable' = FALSE
  /\ GotoR(t, "store")
  /\ UNCHANGED <<available, slot, status, count, commands, pool, checking, callers>>

(* From here on the checker sees the session, OnConnected called or not.   *)
Store(t) ==
  /\ rpc[t] = "store"
  /\ slot' = [slot EXCEPT ![n[t]] = key[t]]
  /\ EndRegister(t)
  /\ UNCHANGED <<available, status, count, closable, commands, pool, checking, callers>>

------------------------------------------------------------------------------
(* Other threads.                                                          *)

(* The compare_exchange of Session::Disconnect.                            *)
Disconnected(S) ==
  status' = [s \in Sessions |-> IF s \in S /\ status[s] = "ok" THEN "disconnect" ELSE status[s]]

(* The application, or a worker on an error or a hang-up; a worker may     *)
(* have fetched its event long ago.                                        *)
Hangup(s) ==
  /\ status[s] = "ok"
  /\ Disconnected({s})
  /\ UNCHANGED <<available, slot, count, closable, commands, pool,
                 registering, checking, callers>>

DisconnectAll ==
  /\ calls["command"] < MaxCommand
  /\ commands' = commands + 1
  /\ calls' = [calls EXCEPT !["command"] = @ + 1]
  /\ \/ UNCHANGED canceler
     \/ canceler = "out" /\ canceler' = "told"
  /\ UNCHANGED <<available, slot, status, count, closable, pool,
                 registering, checking, waiter>>

(* The rest of cancel(), which begins with a DisconnectAll.                *)
cancel ==
  /\ canceler = "told"
  /\ canceled' = TRUE
  /\ canceler' = "done"
  /\ UNCHANGED <<available, slot, status, count, closable, commands, working,
                 registering, checking, waiter, calls>>

(* m_nAlive.                                                               *)
alive == working + IF cpc = "exit" THEN 0 ELSE 1

(* A worker finds the pool canceled; the last thread to go clears m_nState *)
(* (thread_impl.cpp:262-270).                                              *)
LeaveWorker ==
  /\ working > 0 /\ canceled
  /\ working' = working - 1
  /\ canceled' = (alive # 1)
  /\ UNCHANGED <<available, slot, status, count, closable, commands,
                 registering, checking, callers>>

wait_for_all_session_exit ==
  /\ waiter = "out"
  /\ waiter' = "in"
  /\ UNCHANGED <<available, slot, status, count, closable, commands, pool,
                 registering, checking, canceler, calls>>

(* Every 100 ms: m_nCanClose is set, then cancel() begins ...              *)
SeeCanClose ==
  /\ waiter = "in" /\ closable
  /\ waiter' = "told"
  /\ commands' = commands + 1
  /\ UNCHANGED <<available, slot, status, count, closable, pool,
                 registering, checking, canceler, calls>>

(* ... or the wait timed out and test_canceled comes next.                 *)
TimeOut ==
  /\ waiter = "in" /\ ~closable
  /\ waiter' = "test"
  /\ UNCHANGED <<available, slot, status, count, closable, commands, pool,
                 registering, checking, canceler, calls>>

test_canceled ==
  /\ waiter = "test"
  /\ waiter' = IF canceled THEN "wait" ELSE "in"
  /\ UNCHANGED <<available, slot, status, count, closable, commands, pool,
                 registering, checking, canceler, calls>>

(* The rest of cancel().                                                   *)
CancelPool ==
  /\ waiter = "told"
  /\ canceled' = TRUE
  /\ waiter' = "wait"
  /\ UNCHANGED <<available, slot, status, count, closable, commands, working,
                 registering, checking, canceler, calls>>

(* Thread::wait.                                                           *)
WaitOver ==
  /\ waiter = "wait" /\ alive = 0
  /\ waiter' = "back"
  /\ UNCHANGED <<available, slot, status, count, closable, commands, pool,
                 registering, checking, canceler, calls>>

------------------------------------------------------------------------------
(* The checker.                                                            *)

GotoC(l) == cpc' = l /\ UNCHANGED i

(* The next turn of a loop over the slots, or what follows the loop.       *)
NextSlot(loop, after) ==
  \/ i < MaxSlot /\ i' = i + 1 /\ cpc' = loop
  \/ i = MaxSlot /\ i' = 1 /\ cpc' = after

Pass ==
  /\ cpc = "top" /\ ~canceled
  /\ cpc' = "sock" /\ i' = 1
  /\ UNCHANGED <<available, slot, status, count, closable, commands, pool,
                 registering, callers>>

Leave ==
  /\ cpc = "top" /\ canceled
  /\ commands' = 0
  /\ GotoC("exit")
  /\ canceled' = (alive # 1)
  /\ UNCHANGED <<available, slot, status, count, closable, working,
                 registering, callers>>

ToDelete == slot[i] # NoSession /\ status[slot[i]] = "disconnect"

(* A session that is not disconnected is, if its time is up.               *)
Look ==
  /\ cpc = "sock" /\ ~ToDelete
  /\ \/ UNCHANGED status
     \/ slot[i] # NoSession /\ Disconnected({slot[i]})
  /\ NextSlot("sock", "cmd")
  /\ UNCHANGED <<available, slot, count, closable, commands, pool,
                 registering, callers>>

LookAndDelete ==
  /\ cpc = "sock" /\ ToDelete
  /\ GotoC("ready")
  /\ UNCHANGED <<available, slot, status, count, closable, commands, pool,
                 registering, callers>>

(* svc_del.  After the first step the session may be registered again.     *)
MakeReady ==
  /\ cpc = "ready"
  /\ status' = [status EXCEPT ![slot[i]] = "ready"]
  /\ GotoC("close")
  /\ UNCHANGED <<available, slot, count, closable, commands, pool,
                 registering, callers>>

(* Fault: the slot keeps its session.                                      *)
ClearedFault == slot

Cleared == [slot EXCEPT ![i] = NoSession]

Close ==
  /\ cpc = "close"
  /\ slot' = Cleared
  /\ GotoC("put")
  /\ UNCHANGED <<available, status, count, closable, commands, pool,
                 registering, callers>>

Put ==
  /\ cpc = "put"
  /\ available' = available \cup {i}
  /\ GotoC("uncount")
  /\ UNCHANGED <<slot, status, count, closable, commands, pool,
                 registering, callers>>

(* Fault: the test looks at the count before it is decremented.            *)
LastSessionFault == count = 0

LastSession == count - 1 = 0

Uncount ==
  /\ cpc = "uncount"
  /\ count' = count - 1
  /\ \/ LastSession /\ GotoC("set")
     \/ ~LastSession /\ NextSlot("sock", "cmd")
  /\ UNCHANGED <<available, slot, status, closable, commands, pool,
                 registering, callers>>

SetCanClose ==
  /\ cpc = "set"
  /\ closable' = TRUE
  /\ NextSlot("sock", "cmd")
  /\ UNCHANGED <<available, slot, status, count, commands, pool,
                 registering, callers>>

(* ccc_execute_cmd; the sleep at the end of the pass is left out.          *)
NoCommand ==
  /\ cpc = "cmd" /\ commands = 0
  /\ GotoC("top")
  /\ UNCHANGED <<available, slot, status, count, closable, commands, pool,
                 registering, callers>>

GetCommand ==
  /\ cpc = "cmd" /\ commands > 0
  /\ commands' = commands - 1
  /\ cpc' = "handle" /\ i' = 1
  /\ UNCHANGED <<available, slot, status, count, closable, pool,
                 registering, callers>>

(* IocpCommandDisconnectAll::Handle.                                       *)
Handle ==
  /\ cpc = "handle"
  /\ Disconnected({slot[i]})
  /\ NextSlot("handle", "cmd")
  /\ UNCHANGED <<available, slot, count, closable, commands, pool,
                 registering, callers>>

------------------------------------------------------------------------------
Registering(t) ==
  \/ Refused(t) \/ GetSlot(t) \/ Open(t) \/ Add(t) \/ AddFails(t)
  \/ CountUp(t) \/ Reset(t) \/ Store(t)

svc_del == MakeReady \/ Close \/ Put \/ Uncount \/ SetCanClose

Checker == Pass \/ Leave \/ Look \/ LookAndDelete \/ svc_del
           \/ NoCommand \/ GetCommand \/ Handle

Waiting == SeeCanClose \/ TimeOut \/ test_canceled \/ CancelPool \/ WaitOver

NetworkNext ==
  \/ \E t \in Clients : Registering(t) \/ \E s \in Sessions : Register(t, s)
  \/ \E s \in Sessions : Hangup(s)
  \/ DisconnectAll \/ cancel
  \/ wait_for_all_session_exit \/ Waiting
  \/ Checker \/ LeaveWorker

NetworkSpec == NetworkInit /\ [][NetworkNext]_networkVars

(* Running threads run; the waiter looks at m_nCanClose every 100 ms, and   *)
(* the Event's own wait sees it set while it is.                           *)
FairNetworkSpec ==
  /\ NetworkSpec
  /\ WF_networkVars(Checker) /\ WF_networkVars(Waiting) /\ WF_networkVars(LeaveWorker)
  /\ WF_networkVars(cancel)
  /\ \A t \in Clients : WF_networkVars(Registering(t))

------------------------------------------------------------------------------
(* A Register, or svc_del, has slot k in hand.                             *)
Held(t, k) == rpc[t] \in {"open", "add", "count", "reset", "store"} /\ n[t] = k
Deleted(k) == cpc = "put" /\ i = k

Lost == {k \in Slots : /\ k \notin available /\ slot[k] = NoSession /\ ~Deleted(k)
                       /\ \A t \in Clients : ~Held(t, k)}

(* No slot is given out while it is in use, whatever Register and svc_del  *)
(* interleave to, and none is lost but by a failure of epoll_ctl (lines    *)
(* 31-42, 57-63, 324-325): "Session is in use???" is never logged.         *)
SlotsKept ==
  /\ \A k \in Slots :
       /\ k \in available => slot[k] = NoSession
       /\ k \in available \/ slot[k] # NoSession \/ Deleted(k)
            => \A t \in Clients : ~Held(t, k)
       /\ Deleted(k) => k \notin available /\ slot[k] = NoSession
       /\ \A t, u \in Clients : Held(t, k) /\ Held(u, k) => t = u
  /\ Cardinality(Lost) = calls["fail"]

Used    == {k \in Slots : slot[k] # NoSession}
Counted == {t \in Clients : rpc[t] \in {"reset", "store"}}

(* nSessionCount is the number of slots in use plus the Registers between  *)
(* its ++ and the store, plus the svc_del between the reset of the slot    *)
(* and its -- (lines 67-72, 324-327).                                      *)
CountKept ==
  count = Cardinality(Used) + Cardinality(Counted)
          + IF cpc \in {"put", "uncount"} THEN 1 ELSE 0

(* Slot k has a session that is not on its way out of it.                  *)
InSlot(k) == slot[k] # NoSession /\ ~(cpc = "close" /\ i = k)

(* The checker never finds a session that is READY in a slot (line 210),   *)
(* and the assertions of svc_del hold (311, 312), although a session may   *)
(* be registered again, in another slot, while svc_del is deleting it.     *)
StatesExpected ==
  /\ \A k \in Slots : InSlot(k) => status[slot[k]] # "ready"
  /\ cpc = "ready" => ToDelete
  /\ cpc = "close" => slot[i] # NoSession

(* What lies behind these: the values of the variables, and that a session *)
(* is in one Register or in one slot at most, but for a slot that is being *)
(* emptied; a Register finds it as it has left it.                         *)
Opened == {"add", "count", "reset", "store"}

NetworkTypeOK ==
  /\ available \subseteq Slots
  /\ slot \in [Slots -> Sessions \cup {NoSession}]
  /\ status \in [Sessions -> {"ready", "ok", "disconnect"}]
  /\ count \in Int /\ closable \in BOOLEAN /\ commands \in Nat /\ canceled \in BOOLEAN
  /\ working \in Nat
  /\ rpc \in [Clients -> {"out", "slot", "open"} \cup Opened]
  /\ key \in [Clients -> Sessions \cup {NoSession}]
  /\ n \in [Clients -> Nat]
  /\ cpc \in {"top", "exit", "sock", "cmd", "handle", "ready", "close", "put", "uncount", "set"}
  /\ i \in Nat
  /\ cpc \in {"sock", "handle", "ready", "close", "put", "uncount", "set"} => i \in Slots
  /\ calls \in [Calls -> Nat]
  /\ \A t \in Clients : /\ rpc[t] # "out" => key[t] \in Sessions
                        /\ rpc[t] \in {"open"} \cup Opened => n[t] \in Slots

OwnersOK ==
  /\ \A t, u \in Clients : rpc[t] # "out" /\ rpc[u] # "out" /\ key[t] = key[u] => t = u
  /\ \A k, l \in Slots : InSlot(k) /\ InSlot(l) /\ slot[k] = slot[l] => k = l
  /\ \A t \in Clients, k \in Slots : rpc[t] # "out" /\ InSlot(k) => key[t] # slot[k]
  /\ \A t \in Clients : rpc[t] # "out" => (status[key[t]] = "ready" <=> rpc[t] \notin Opened)

PoolInv == NetworkTypeOK /\ OwnersOK /\ SlotsKept /\ CountKept /\ StatesExpected

Idle == \A t \in Clients : rpc[t] = "out"

(* wait_for_all_session_exit returns: when every session is disconnected   *)
(* or DisconnectAll is on its way, and nobody registers, the sessions are  *)
(* deleted, m_nCanClose is set, and every thread of the pool sees the       *)
(* cancel that follows before the last of them clears it (lines 205-206,   *)
(* 273-305, 327-330, thread_impl.cpp:262-270).  A cancel by another thread  *)
(* is excepted while the waiter has not seen it: it may drop the           *)
(* DisconnectAll and be over between two looks, and then nobody deletes    *)
(* the sessions.                                                           *)
WaitReturns ==
  (waiter = "in" /\ Idle /\ (commands > 0 \/ \A s \in Sessions : status[s] # "ok"))
  ~> (waiter = "back" \/ ~Idle \/ (canceler # "out" /\ waiter \in {"in", "test"}))
==============================================================================
