---------------------------- MODULE LockFreeQueue ----------------------------
(***************************************************************************)
(* inc/ewa_base/collection/lockfree_queue.h: a bounded ring shared by any  *)
(* number of threads.  Readers exclude each other with the counter kget,   *)
(* writers with kput: fetch_add(1) that returns zero enters, store(0)      *)
(* leaves.  One action is one access to the shared header, or the copy of  *)
(* the elements.  A single getq()/putq(v) is the batch of one.             *)
(*                                                                         *)
(* The counter saturates just above Timeout (2^24 in the code): only zero  *)
(* and Timeout are told apart.  Its wrap-around at 2^32 is not modelled.   *)
(***************************************************************************)
EXTENDS Integers, Sequences

CONSTANTS
  Getters, Putters, Rewinders,  \* the threads that call getq/peek, putq, rewind
  Mortal,                       \* the threads that may die inside a call
  Values, NoValue,
  Cap,                          \* mask + 1
  Timeout,                      \* P::timeout()
  Inputs,                       \* the batches that writers put
  MaxN,                         \* bound: the largest batch of a caller
  NonBlock, Partial, TimeoutFlag \* the queue flags

Threads == Getters \cup Putters \cup Rewinders

ASSUME QueueAssumption ==
  /\ Cap \in Nat /\ Cap > 1
  /\ Timeout \in Nat /\ Timeout > 0
  /\ MaxN \in Nat /\ MaxN > 0
  /\ NoValue \notin Values
  /\ Inputs \subseteq Seq(Values)
  /\ \A xs \in Inputs : Len(xs) \in 1..MaxN
  /\ Mortal \subseteq Threads
  /\ {NonBlock, Partial, TimeoutFlag} \subseteq BOOLEAN

VARIABLES
  head, rear,   \* pHeader->head, pHeader->rear
  key,          \* key["get"] is kget, key["put"] is kput
  buf,          \* pBuffer
  pc,           \* where each thread is
  op, n, data,  \* its call: the operation, the batch size, the elements
  pos, cnt      \* its locals: the first slot of the batch, kp

shared == <<head, rear, key, buf>>
frame  == <<op, n, data, pos, cnt>>
vars   == <<head, rear, key, buf, pc, op, n, data, pos, cnt>>

Slots   == 0..Cap-1
At(i)   == i % Cap                \* i & mask
Length  == At(rear - head)        \* size()
Side(t) == IF op[t] = "getq" THEN "get" ELSE "put"

Init ==
  /\ head = 0 /\ rear = 0
  /\ key = [k \in {"get", "put"} |-> 0]
  /\ buf = [i \in Slots |-> NoValue]
  /\ pc = [t \in Threads |-> "idle"]
  /\ op = [t \in Threads |-> "none"]
  /\ n = [t \in Threads |-> 0]
  /\ data = [t \in Threads |-> <<>>]
  /\ pos = [t \in Threads |-> 0]
  /\ cnt = [t \in Threads |-> 0]

Goto(t, l) == pc' = [pc EXCEPT ![t] = l]

(* The call begins: its arguments are in place.                            *)
Enter(t, o, k, xs, l) ==
  /\ pc[t] = "idle"
  /\ Goto(t, l)
  /\ op' = [op EXCEPT ![t] = o]
  /\ n' = [n EXCEPT ![t] = k]
  /\ data' = [data EXCEPT ![t] = xs]
  /\ UNCHANGED <<shared, pos, cnt>>

(* The call returns and its locals are gone.                               *)
Leave(t) ==
  /\ Goto(t, "idle")
  /\ op' = [op EXCEPT ![t] = "none"]
  /\ n' = [n EXCEPT ![t] = 0]
  /\ data' = [data EXCEPT ![t] = <<>>]
  /\ pos' = [pos EXCEPT ![t] = 0]
  /\ cnt' = [cnt EXCEPT ![t] = 0]

getq(t) == t \in Getters /\ \E k \in 1..MaxN : Enter(t, "getq", k, <<>>, "acquire")

(* peek is getq(T*,int) line for line, the advance of head included.       *)
peek(t) == t \in Getters /\ \E k \in 1..MaxN : Enter(t, "getq", k, <<>>, "acquire")

putq(t) ==
  /\ t \in Putters
  /\ \E xs \in Inputs : Enter(t, "putq", Len(xs), xs, "acquire")

rewind(t) == t \in Rewinders /\ Enter(t, "rewind", 0, <<>>, "take_put")

------------------------------------------------------------------------------
(* The key.                                                                *)

FetchAdd(k) == key' = [key EXCEPT ![k] = IF @ > Timeout THEN @ ELSE @ + 1]
Store(k, v) == key' = [key EXCEPT ![k] = v]

Acquire(t) ==
  /\ pc[t] = "acquire"
  /\ FetchAdd(Side(t))
  /\ Goto(t, CASE key[Side(t)] = 0       -> "test"
               [] key[Side(t)] = Timeout -> "expired"
               [] OTHER                  -> "acquire")
  /\ UNCHANGED <<head, rear, buf, frame>>

(* Fault: every waiter that times out forces the key.                      *)
ExpireForces(t) ==
  /\ pc[t] = "expired"
  /\ Store(Side(t), 1)
  /\ Goto(t, "test")
  /\ UNCHANGED <<head, rear, buf, frame>>

(* Fault: the flag QUEUE_TIMEOUT is not looked at.                         *)
ExpireRetries(t) ==
  /\ pc[t] = "expired"
  /\ Store(Side(t), 1)
  /\ Goto(t, IF key[Side(t)] = 0 THEN "test" ELSE "acquire")
  /\ UNCHANGED <<head, rear, buf, frame>>

(* The thread that drew the Timeout-th ticket: exchange(1).                *)
Expire(t) ==
  /\ pc[t] = "expired"
  /\ Store(Side(t), 1)
  /\ Goto(t, IF key[Side(t)] = 0 \/ TimeoutFlag THEN "test" ELSE "acquire")
  /\ UNCHANGED <<head, rear, buf, frame>>

(* The queue is empty for a reader, full for a writer.                     *)
Blocked(t) == IF op[t] = "getq" THEN head = rear ELSE At(rear + 1) = head

Test(t) ==
  /\ pc[t] = "test"
  /\ Goto(t, CASE ~Blocked(t) -> "snapshot"
               [] Blocked(t) /\ NonBlock -> "give_up"
               [] OTHER -> "alive")
  /\ UNCHANGED <<shared, frame>>

(* store(1): tell the others that the holder is alive, and test again.     *)
Alive(t) ==
  /\ pc[t] = "alive"
  /\ Store(Side(t), 1)
  /\ Goto(t, "test")
  /\ UNCHANGED <<head, rear, buf, frame>>

(* Fault: the early return forgets the key.                                *)
GiveUpKeeps(t) ==
  /\ pc[t] = "give_up"
  /\ Leave(t)
  /\ UNCHANGED shared

GiveUp(t) ==
  /\ pc[t] = "give_up"
  /\ Store(Side(t), 0)
  /\ Leave(t)
  /\ UNCHANGED <<head, rear, buf>>

------------------------------------------------------------------------------
(* The elements.                                                           *)

(* Fault: the free slot that tells full from empty is given away.          *)
AvailableAll(t) == IF op[t] = "getq" THEN Length ELSE Cap - Length

Available(t) == IF op[t] = "getq" THEN Length ELSE At(head - rear - 1)

(* How many elements to move, and from which slot on.  A writer whose      *)
(* whole batch does not fit is refused unless QUEUE_PARTIAL is set.        *)
Snapshot(t) ==
  /\ pc[t] = "snapshot"
  /\ pos' = [pos EXCEPT ![t] = IF op[t] = "getq" THEN head ELSE rear]
  /\ cnt' = [cnt EXCEPT ![t] = IF Available(t) < n[t] THEN Available(t) ELSE n[t]]
  /\ Goto(t, IF op[t] = "putq" /\ Available(t) < n[t] /\ ~Partial
             THEN "refused" ELSE "copy")
  /\ UNCHANGED <<shared, op, n, data>>

(* The early return 0 of putq(T*,int): the key is not given back.          *)
Refused(t) ==
  /\ pc[t] = "refused"
  /\ Leave(t)
  /\ UNCHANGED shared

(* The slots of the batch.                                                 *)
Region(t) == {At(pos[t] + i) : i \in 0..cnt[t]-1}

(* The index in the batch of slot s.                                       *)
Index(t, s) == At(s - pos[t]) + 1

CopyOut(t) ==
  /\ pc[t] = "copy" /\ op[t] = "getq"
  /\ data' = [data EXCEPT ![t] = [i \in 1..cnt[t] |-> buf[At(pos[t] + i - 1)]]]
  /\ Goto(t, "publish")
  /\ UNCHANGED <<shared, op, n, pos, cnt>>

CopyIn(t) ==
  /\ pc[t] = "copy" /\ op[t] = "putq"
  /\ buf' = [s \in Slots |-> IF s \in Region(t) THEN data[t][Index(t, s)] ELSE buf[s]]
  /\ Goto(t, "publish")
  /\ UNCHANGED <<head, rear, key, frame>>

(* Fault: head is advanced without the mask.                               *)
PublishHeadRaw(t) ==
  /\ pc[t] = "publish" /\ op[t] = "getq"
  /\ head' = pos[t] + cnt[t]
  /\ Goto(t, "release")
  /\ UNCHANGED <<rear, key, buf, frame>>

PublishHead(t) ==
  /\ pc[t] = "publish" /\ op[t] = "getq"
  /\ head' = At(pos[t] + cnt[t])
  /\ Goto(t, "release")
  /\ UNCHANGED <<rear, key, buf, frame>>

PublishRear(t) ==
  /\ pc[t] = "publish" /\ op[t] = "putq"
  /\ rear' = At(pos[t] + cnt[t])
  /\ Goto(t, "release")
  /\ UNCHANGED <<head, key, buf, frame>>

Release(t) ==
  /\ pc[t] = "release"
  /\ Store(Side(t), 0)
  /\ Leave(t)
  /\ UNCHANGED <<head, rear, buf>>

------------------------------------------------------------------------------
(* rewind() takes kput and then kget, and backs off when kget is taken.    *)

TakePut(t) ==
  /\ pc[t] = "take_put"
  /\ FetchAdd("put")
  /\ Goto(t, IF key["put"] = 0 THEN "take_get" ELSE "take_put")
  /\ UNCHANGED <<head, rear, buf, frame>>

(* Fault: rewind goes on without kget.                                     *)
TakeGetAnyway(t) ==
  /\ pc[t] = "take_get"
  /\ FetchAdd("get")
  /\ Goto(t, "zero_head")
  /\ UNCHANGED <<head, rear, buf, frame>>

TakeGet(t) ==
  /\ pc[t] = "take_get"
  /\ FetchAdd("get")
  /\ Goto(t, IF key["get"] = 0 THEN "zero_head" ELSE "back_off")
  /\ UNCHANGED <<head, rear, buf, frame>>

BackOff(t) ==
  /\ pc[t] = "back_off"
  /\ Store("put", 0)
  /\ Goto(t, "take_put")
  /\ UNCHANGED <<head, rear, buf, frame>>

ZeroHead(t) ==
  /\ pc[t] = "zero_head"
  /\ head' = 0
  /\ Goto(t, "zero_rear")
  /\ UNCHANGED <<rear, key, buf, frame>>

ZeroRear(t) ==
  /\ pc[t] = "zero_rear"
  /\ rear' = 0
  /\ Goto(t, "free_put")
  /\ UNCHANGED <<head, key, buf, frame>>

FreePut(t) ==
  /\ pc[t] = "free_put"
  /\ Store("put", 0)
  /\ Goto(t, "free_get")
  /\ UNCHANGED <<head, rear, buf, frame>>

FreeGet(t) ==
  /\ pc[t] = "free_get"
  /\ Store("get", 0)
  /\ Leave(t)
  /\ UNCHANGED <<head, rear, buf>>

------------------------------------------------------------------------------
Inside == {"test", "alive", "give_up", "snapshot", "refused", "copy", "publish", "release"}

(* The thread is past the key k and has not given it back.                 *)
Holds(t, k) ==
  \/ pc[t] \in Inside /\ Side(t) = k
  \/ pc[t] \in {"take_get", "back_off", "zero_head", "zero_rear", "free_put"} /\ k = "put"
  \/ pc[t] \in {"zero_head", "zero_rear", "free_put", "free_get"} /\ k = "get"

(* A thread is lost inside a call, with the key in its hands: what         *)
(* QUEUE_TIMEOUT is for.                                                   *)
Die(t) ==
  /\ t \in Mortal
  /\ pc[t] \in Inside
  /\ Goto(t, "dead")
  /\ UNCHANGED <<shared, frame>>

Start(t) == getq(t) \/ peek(t) \/ putq(t) \/ rewind(t)

Step(t) ==
  \/ Acquire(t) \/ Expire(t) \/ Test(t) \/ Alive(t) \/ GiveUp(t)
  \/ Snapshot(t) \/ Refused(t) \/ CopyOut(t) \/ CopyIn(t)
  \/ PublishHead(t) \/ PublishRear(t) \/ Release(t)
  \/ TakePut(t) \/ TakeGet(t) \/ BackOff(t) \/ ZeroHead(t) \/ ZeroRear(t)
  \/ FreePut(t) \/ FreeGet(t)

Next == \E t \in Threads : Start(t) \/ Step(t) \/ Die(t)

Spec == Init /\ [][Next]_vars

(* A thread inside a call is not suspended for ever.                       *)
FairSpec == Spec /\ \A t \in Threads : WF_vars(Step(t))

------------------------------------------------------------------------------
Labels == Inside \cup {"idle", "acquire", "expired", "dead", "take_put", "take_get",
            "back_off", "zero_head", "zero_rear", "free_put", "free_get"}

TypeOK ==
  /\ head \in Slots /\ rear \in Slots
  /\ key \in [{"get", "put"} -> 0..Timeout+1]
  /\ buf \in [Slots -> Values \cup {NoValue}]
  /\ pc \in [Threads -> Labels]
  /\ op \in [Threads -> {"none", "getq", "putq", "rewind"}]
  /\ n \in [Threads -> 0..MaxN]
  /\ data \in [Threads -> Seq(Values \cup {NoValue})]
  /\ pos \in [Threads -> Slots]
  /\ cnt \in [Threads -> 0..MaxN]

(* What each thread's locals are good for at each label: with TypeOK, an   *)
(* inductive invariant.                                                    *)
FrameOK ==
  \A t \in Threads :
    /\ pc[t] \in {"acquire", "expired"} \cup Inside => op[t] \in {"getq", "putq"}
    /\ op[t] = "putq" => n[t] = Len(data[t])
    /\ pc[t] \in {"copy", "publish"} => cnt[t] <= n[t] /\ cnt[t] < Cap

(* At most one thread is past each key, as long as no thread is allowed to *)
(* force it (QUEUE_TIMEOUT): the fetch_add / exchange / store protocol of  *)
(* getq, putq and rewind, lines 429-447 and 689-701.                       *)
MutualExclusion ==
  ~TimeoutFlag => \A t, u \in Threads, k \in {"get", "put"} :
                    Holds(t, k) /\ Holds(u, k) => t = u

(* A key that some thread holds does not read as free: with                *)
(* MutualExclusion, an inductive invariant.                                *)
KeyTaken ==
  ~TimeoutFlag => \A t \in Threads, k \in {"get", "put"} : Holds(t, k) => key[k] # 0

(* No slot is being filled by one thread while another one reads or fills  *)
(* it: the unlocked copies of the batches, lines 472-484 and 663-674,      *)
(* never overlap, though readers and writers do not exclude each other.    *)
NoTornElement ==
  ~TimeoutFlag => \A t, u \in Threads :
    t # u /\ pc[t] = "copy" /\ pc[u] = "copy" /\ op[t] = "putq"
      => Region(t) \cap Region(u) = {}

(* The queue as its callers see it.                                        *)
Contents == IF \E t \in Threads : pc[t] = "zero_rear"
            THEN <<>>
            ELSE [i \in 1..Length |-> buf[At(head + i - 1)]]

CallOf(t) ==
  LET phase == CASE pc[t] = "idle" -> "idle"
                 [] pc[t] \in {"give_up", "refused", "release", "zero_rear",
                               "free_put", "free_get"} -> "done"
                 [] OTHER -> "called"
      xs    == CASE pc[t] = "release" -> SubSeq(data[t], 1, cnt[t])
                 [] op[t] = "putq" /\ phase = "called" -> data[t]
                 [] OTHER -> <<>>
  IN  [phase |-> phase, op |-> op[t],
       n |-> IF phase = "called" THEN n[t] ELSE 0, data |-> xs]

Abstract == INSTANCE BoundedQueue
              WITH q <- Contents, call <- [t \in Threads |-> CallOf(t)]

(* Every call of the implementation takes effect at one instant on a FIFO  *)
(* queue of Cap - 1 elements: nothing is lost, duplicated or reordered.    *)
IsBoundedQueue == Abstract!Spec

(* A key that was taken is given back: "and then store zero to the key and *)
(* leave" (lines 428, 615).  For non-blocking queues, under fairness.  It  *)
(* holds on a queue with QUEUE_PARTIAL, rewind's two keys included; without*)
(* the flag it does not: putq refuses a batch with kput taken (line 660).  *)
KeyGivenBack == \A k \in {"get", "put"} : (key[k] # 0) ~> (key[k] = 0)

(* "this is designed to avoid that some thread get the key but failed to   *)
(* give back" (line 21): when the holder has died, some waiter gets in.    *)
WaiterRescued ==
  \A k \in {"get", "put"} :
    (\E t, u \in Threads : /\ pc[t] = "dead" /\ Side(t) = k
                           /\ pc[u] \in {"acquire", "expired"} /\ Side(u) = k)
      ~> (\E u \in Threads : Holds(u, k))
==============================================================================
