------------------ MODULE LockFreeQueueThreadManager_proofs ------------------
(***************************************************************************)
(* For every number of threads, capacity, timeout and setting of the flags:*)
(* LockFreeQueue is type correct, and its keys exclude.  Without           *)
(* QUEUE_TIMEOUT, and as long as no thread dies inside a call, the copies  *)
(* of the batches do not overlap, and the queue implements BoundedQueue.   *)
(* For any jobs, OS threads and callers of a thread manager: a thread that *)
(* may be given a job is idle, and the two counters that wait() and        *)
(* ThreadManager::wait look at, m_nAlive and m_nThreadNum, never miss a    *)
(* thread.                                                                 *)
(***************************************************************************)
EXTENDS LockFreeQueue, ThreadManager, SequenceTheorems, FiniteSetTheorems, TLAPS

------------------------------------------------------------------------------
(* LockFreeQueue.                                                          *)

(* Masking an index that is at most one turn of the ring away.             *)
LEMMA AtTurn ==
  ASSUME NEW x \in Int, -Cap <= x, x < 2 * Cap
  PROVE  At(x) = IF x < 0 THEN x + Cap ELSE IF x < Cap THEN x ELSE x - Cap
<1>1. Cap \in Nat /\ Cap > 1
  BY QueueAssumption
<1>2. CASE x < 0
  BY <1>1, <1>2 DEF At
<1>3. CASE 0 <= x /\ x < Cap
  BY <1>1, <1>3 DEF At
<1>4. CASE Cap <= x
  BY <1>1, <1>4 DEF At
<1>. QED
  BY <1>1, <1>2, <1>3, <1>4

(* A masked index is a slot.                                               *)
LEMMA AtSlot ==
  ASSUME NEW x \in Int
  PROVE  At(x) \in Slots
BY QueueAssumption DEF At, Slots

(* The bounds of a batch: neither a reader nor a writer moves more than    *)
(* Cap - 1 elements.                                                       *)
LEMMA AvailableBound ==
  ASSUME TypeOK, NEW t \in Threads
  PROVE  Available(t) \in 0..Cap-1
<1>1. Cap \in Nat /\ head \in Int /\ rear \in Int
  BY QueueAssumption DEF TypeOK, Slots
<1>2. At(rear - head) \in Slots /\ At(head - rear - 1) \in Slots
  BY <1>1, AtSlot
<1>. QED
  BY <1>2 DEF Available, Length, Slots

(* The slots of a batch that fits in the ring come from its elements.      *)
LEMMA IndexOfRegion ==
  ASSUME TypeOK, NEW t \in Threads, cnt[t] < Cap, NEW s \in Region(t)
  PROVE  Index(t, s) \in 1..cnt[t]
<1>1. Cap \in Nat /\ Cap > 1 /\ pos[t] \in 0..Cap-1 /\ cnt[t] \in Nat
  BY QueueAssumption DEF TypeOK, Slots
<1>2. PICK i \in 0..cnt[t]-1 : s = At(pos[t] + i)
  BY DEF Region
<1>3. s = IF pos[t] + i < Cap THEN pos[t] + i ELSE pos[t] + i - Cap
  BY <1>1, <1>2, AtTurn
<1>4. At(s - pos[t]) = i
  <2>1. s - pos[t] \in Int /\ -Cap <= s - pos[t] /\ s - pos[t] < 2 * Cap
    BY <1>1, <1>3
  <2>2. At(s - pos[t]) = IF s - pos[t] < 0 THEN s - pos[t] + Cap
                         ELSE IF s - pos[t] < Cap THEN s - pos[t] ELSE s - pos[t] - Cap
    BY <2>1, AtTurn
  <2>. QED
    BY <1>1, <1>3, <2>2
<1>. QED
  BY <1>1, <1>4 DEF Index

(* A step that only moves t to label l keeps FrameOK when l asks for no    *)
(* more than t's locals give.                                              *)
LEMMA FrameGoto ==
  ASSUME TypeOK, FrameOK, NEW t \in Threads, NEW l, Goto(t, l), UNCHANGED frame,
         l \in {"acquire", "expired"} \cup Inside => op[t] \in {"getq", "putq"},
         l \in {"copy", "publish"} => cnt[t] <= n[t] /\ cnt[t] < Cap
  PROVE  FrameOK'
<1>. SUFFICES ASSUME NEW u \in Threads
              PROVE  /\ pc'[u] \in {"acquire", "expired"} \cup Inside => op[u] \in {"getq", "putq"}
                     /\ op[u] = "putq" => n[u] = Len(data[u])
                     /\ pc'[u] \in {"copy", "publish"} => cnt[u] <= n[u] /\ cnt[u] < Cap
  BY DEF FrameOK, Inside, frame
<1>1. pc'[u] = IF u = t THEN l ELSE pc[u]
  BY DEF Goto, TypeOK
<1>. QED
  BY <1>1 DEF FrameOK

(* A step in which t returns keeps FrameOK.                                *)
LEMMA FrameLeave ==
  ASSUME TypeOK, FrameOK, NEW t \in Threads, Leave(t)
  PROVE  FrameOK'
<1>. SUFFICES ASSUME NEW u \in Threads
              PROVE  /\ pc'[u] \in {"acquire", "expired"} \cup Inside => op'[u] \in {"getq", "putq"}
                     /\ op'[u] = "putq" => n'[u] = Len(data'[u])
                     /\ pc'[u] \in {"copy", "publish"} => cnt'[u] <= n'[u] /\ cnt'[u] < Cap
  BY DEF FrameOK, Inside
<1>1. CASE u = t
  BY <1>1 DEF Leave, Goto, TypeOK, Inside
<1>2. CASE u # t
  BY <1>2 DEF Leave, Goto, TypeOK, FrameOK
<1>. QED
  BY <1>1, <1>2

(* A step in which t begins a call with n[t] = Len(data[t]) for a writer   *)
(* keeps FrameOK.                                                          *)
LEMMA FrameEnter ==
  ASSUME TypeOK, FrameOK, NEW t \in Threads, NEW o, NEW k, NEW xs, NEW l, Enter(t, o, k, xs, l),
         l \in {"acquire", "take_put"}, l = "acquire" => o \in {"getq", "putq"},
         o = "putq" => k = Len(xs)
  PROVE  FrameOK'
<1>. SUFFICES ASSUME NEW u \in Threads
              PROVE  /\ pc'[u] \in {"acquire", "expired"} \cup Inside => op'[u] \in {"getq", "putq"}
                     /\ op'[u] = "putq" => n'[u] = Len(data'[u])
                     /\ pc'[u] \in {"copy", "publish"} => cnt'[u] <= n'[u] /\ cnt'[u] < Cap
  BY DEF FrameOK, Inside
<1>1. CASE u = t
  BY <1>1 DEF Enter, Goto, TypeOK, Inside
<1>2. CASE u # t
  BY <1>2 DEF Enter, Goto, TypeOK, FrameOK
<1>. QED
  BY <1>1, <1>2

(* Returning resets a thread's locals to values of their types.            *)
LEMMA TypeLeave ==
  ASSUME TypeOK, NEW t \in Threads, Leave(t), UNCHANGED <<head, rear, buf>>,
         key' \in [{"get", "put"} -> 0..Timeout+1]
  PROVE  TypeOK'
<1>1. 0 \in Slots /\ 0 \in 0..MaxN /\ <<>> \in Seq(Values \cup {NoValue})
  BY QueueAssumption DEF Slots
<1>. QED
  BY <1>1 DEF TypeOK, Leave, Goto, Labels

(* Type correctness of the header, the buffer and every thread's locals,   *)
(* with FrameOK as the strengthening that makes it inductive.              *)
THEOREM TypeCorrect == Spec => [](TypeOK /\ FrameOK)
<1>1. Init => TypeOK /\ FrameOK
  BY QueueAssumption DEF Init, TypeOK, FrameOK, Slots, Labels, Inside
<1>2. TypeOK /\ FrameOK /\ [Next]_vars => TypeOK' /\ FrameOK'
  <2>. SUFFICES ASSUME TypeOK, FrameOK, [Next]_vars PROVE TypeOK' /\ FrameOK'
    OBVIOUS
  <2>1. CASE UNCHANGED vars
    BY <2>1 DEF TypeOK, FrameOK, vars, Inside
  <2>2. CASE Next
    <3>0. Timeout \in Nat /\ Cap \in Nat /\ Cap > 1 /\ MaxN \in Nat
      BY QueueAssumption
    <3>1. PICK t \in Threads : Start(t) \/ Step(t) \/ Die(t)
      BY <2>2 DEF Next
    <3>2. CASE Start(t)
      <4>1. CASE getq(t) \/ peek(t)
        <5>1. PICK k \in 1..MaxN : Enter(t, "getq", k, <<>>, "acquire")
          BY <4>1 DEF getq, peek
        <5>2. TypeOK'
          BY <3>0, <5>1 DEF Enter, Goto, shared, TypeOK, Labels
        <5>3. FrameOK'
          BY <5>1, FrameEnter
        <5>. QED
          BY <5>2, <5>3
      <4>2. CASE putq(t)
        <5>1. PICK xs \in Inputs : Enter(t, "putq", Len(xs), xs, "acquire")
          BY <4>2 DEF putq
        <5>2. xs \in Seq(Values \cup {NoValue}) /\ Len(xs) \in 0..MaxN
          BY <5>1, QueueAssumption
        <5>3. TypeOK'
          BY <5>1, <5>2 DEF Enter, Goto, shared, TypeOK, Labels
        <5>4. FrameOK'
          BY <5>1, FrameEnter
        <5>. QED
          BY <5>3, <5>4
      <4>3. CASE rewind(t)
        <5>1. Enter(t, "rewind", 0, <<>>, "take_put")
          BY <4>3 DEF rewind
        <5>2. TypeOK'
          BY <3>0, <5>1 DEF Enter, Goto, shared, TypeOK, Labels
        <5>3. FrameOK'
          BY <5>1, FrameEnter
        <5>. QED
          BY <5>2, <5>3
      <4>. QED
        BY <3>2, <4>1, <4>2, <4>3 DEF Start
    <3>3. CASE Acquire(t)
      <4>1. TypeOK'
        BY SMTT(30), <3>0, <3>3 DEF Acquire, FetchAdd, Side, Goto, frame, TypeOK, Labels, Inside
      <4>2. FrameOK'
        BY <3>3, FrameGoto DEF Acquire, FrameOK, Inside
      <4>. QED
        BY <4>1, <4>2
    <3>4. CASE Expire(t)
      <4>1. TypeOK'
        BY <3>0, <3>4 DEF Expire, Store, Side, Goto, frame, TypeOK, Labels, Inside
      <4>2. FrameOK'
        BY <3>4, FrameGoto DEF Expire, FrameOK, Inside
      <4>. QED
        BY <4>1, <4>2
    <3>5. CASE Test(t)
      <4>1. TypeOK'
        BY <3>0, <3>5 DEF Test, shared, Goto, frame, TypeOK, Labels, Inside
      <4>2. FrameOK'
        BY <3>5, FrameGoto DEF Test, FrameOK, Inside
      <4>. QED
        BY <4>1, <4>2
    <3>6. CASE Alive(t)
      <4>1. TypeOK'
        BY <3>0, <3>6 DEF Alive, Store, Side, Goto, frame, TypeOK, Labels, Inside
      <4>2. FrameOK'
        BY <3>6, FrameGoto DEF Alive, FrameOK, Inside
      <4>. QED
        BY <4>1, <4>2
    <3>7. CASE GiveUp(t)
      <4>1. Leave(t)
        BY <3>7 DEF GiveUp
      <4>2. key' \in [{"get", "put"} -> 0..Timeout+1]
        BY <3>0, <3>7 DEF GiveUp, Store, Side, TypeOK
      <4>3. UNCHANGED <<head, rear, buf>>
        BY <3>7 DEF GiveUp, shared
      <4>. QED
        BY <4>1, <4>2, <4>3, FrameLeave, TypeLeave
    <3>8. CASE Snapshot(t)
      <4>1. Available(t) \in 0..Cap-1
        BY AvailableBound
      <4>2. pos' \in [Threads -> Slots] /\ cnt' \in [Threads -> 0..MaxN]
        BY <3>8, <4>1, <3>0 DEF Snapshot, TypeOK
      <4>3. TypeOK'
        BY <3>8, <4>2 DEF Snapshot, Goto, shared, TypeOK, Labels, Inside
      <4>4. n[t] \in 0..MaxN /\ cnt'[t] <= n[t] /\ cnt'[t] < Cap
        BY <3>8, <4>1, <3>0 DEF Snapshot, TypeOK
      <4>5. FrameOK'
        BY <3>8, <4>4 DEF Snapshot, Goto, shared, TypeOK, FrameOK, Inside
      <4>. QED
        BY <4>3, <4>5
    <3>9. CASE Refused(t)
      <4>1. Leave(t)
        BY <3>9 DEF Refused
      <4>2. key' \in [{"get", "put"} -> 0..Timeout+1]
        BY <3>0, <3>9 DEF Refused, shared, TypeOK
      <4>3. UNCHANGED <<head, rear, buf>>
        BY <3>9 DEF Refused, shared
      <4>. QED
        BY <4>1, <4>2, <4>3, FrameLeave, TypeLeave
    <3>10. CASE CopyOut(t)
      <4>1. \A i \in 1..cnt[t] : At(pos[t] + i - 1) \in Slots
        <5>1. \A i \in 1..cnt[t] : pos[t] + i - 1 \in Int
          BY <3>0 DEF TypeOK, Slots
        <5>. QED
          BY <5>1, AtSlot
      <4>2. [i \in 1..cnt[t] |-> buf[At(pos[t] + i - 1)]] \in Seq(Values \cup {NoValue})
        <5>1. cnt[t] \in Nat
          BY <3>0 DEF TypeOK
        <5>2. \A i \in 1..cnt[t] : buf[At(pos[t] + i - 1)] \in Values \cup {NoValue}
          BY <4>1 DEF TypeOK
        <5>. QED
          BY <5>1, <5>2
      <4>3. TypeOK'
        BY <3>10, <4>2 DEF CopyOut, Goto, shared, TypeOK, Labels, Inside
      <4>4. FrameOK'
        BY <3>10 DEF CopyOut, Goto, shared, TypeOK, FrameOK, Inside
      <4>. QED
        BY <4>3, <4>4
    <3>11. CASE CopyIn(t)
      <4>1. \A s \in Region(t) : data[t][Index(t, s)] \in Values \cup {NoValue}
        <5>1. cnt[t] < Cap /\ cnt[t] <= Len(data[t])
          BY <3>11 DEF CopyIn, FrameOK
        <5>2. \A s \in Region(t) : Index(t, s) \in 1..cnt[t]
          BY <5>1, IndexOfRegion
        <5>3. data[t] \in Seq(Values \cup {NoValue}) /\ cnt[t] \in Nat
          BY DEF TypeOK
        <5>. QED
          BY <5>1, <5>2, <5>3
      <4>2. buf' \in [Slots -> Values \cup {NoValue}]
        BY <3>11, <4>1 DEF CopyIn, TypeOK
      <4>3. TypeOK'
        BY <3>11, <4>2 DEF CopyIn, Goto, frame, TypeOK, Labels, Inside
      <4>4. FrameOK'
        BY <3>11, FrameGoto DEF CopyIn, FrameOK, Inside
      <4>. QED
        BY <4>3, <4>4
    <3>12. CASE PublishHead(t)
      <4>1. At(pos[t] + cnt[t]) \in Slots
        <5>1. pos[t] + cnt[t] \in Int
          BY <3>0 DEF TypeOK, Slots
        <5>. QED
          BY <5>1, AtSlot
      <4>2. TypeOK'
        BY <3>12, <4>1 DEF PublishHead, Goto, frame, TypeOK, Labels, Inside
      <4>3. FrameOK'
        BY <3>12, FrameGoto DEF PublishHead, FrameOK, Inside
      <4>. QED
        BY <4>2, <4>3
    <3>13. CASE PublishRear(t)
      <4>1. At(pos[t] + cnt[t]) \in Slots
        <5>1. pos[t] + cnt[t] \in Int
          BY <3>0 DEF TypeOK, Slots
        <5>. QED
          BY <5>1, AtSlot
      <4>2. TypeOK'
        BY <3>13, <4>1 DEF PublishRear, Goto, frame, TypeOK, Labels, Inside
      <4>3. FrameOK'
        BY <3>13, FrameGoto DEF PublishRear, FrameOK, Inside
      <4>. QED
        BY <4>2, <4>3
    <3>14. CASE Release(t)
      <4>1. Leave(t)
        BY <3>14 DEF Release
      <4>2. key' \in [{"get", "put"} -> 0..Timeout+1]
        BY <3>0, <3>14 DEF Release, Store, Side, TypeOK
      <4>3. UNCHANGED <<head, rear, buf>>
        BY <3>14 DEF Release, shared
      <4>. QED
        BY <4>1, <4>2, <4>3, FrameLeave, TypeLeave
    <3>15. CASE TakePut(t)
      <4>1. TypeOK'
        BY <3>0, <3>15 DEF TakePut, FetchAdd, Goto, frame, TypeOK, Labels, Inside
      <4>2. FrameOK'
        BY <3>15, FrameGoto DEF TakePut, FrameOK, Inside
      <4>. QED
        BY <4>1, <4>2
    <3>16. CASE TakeGet(t)
      <4>1. TypeOK'
        BY <3>0, <3>16 DEF TakeGet, FetchAdd, Goto, frame, TypeOK, Labels, Inside
      <4>2. FrameOK'
        BY <3>16, FrameGoto DEF TakeGet, FrameOK, Inside
      <4>. QED
        BY <4>1, <4>2
    <3>17. CASE BackOff(t)
      <4>1. TypeOK'
        BY <3>0, <3>17 DEF BackOff, Store, Goto, frame, TypeOK, Labels, Inside
      <4>2. FrameOK'
        BY <3>17, FrameGoto DEF BackOff, FrameOK, Inside
      <4>. QED
        BY <4>1, <4>2
    <3>18. CASE ZeroHead(t)
      <4>1. TypeOK'
        BY <3>0, <3>18 DEF ZeroHead, Slots, Goto, frame, TypeOK, Labels, Inside
      <4>2. FrameOK'
        BY <3>18, FrameGoto DEF ZeroHead, FrameOK, Inside
      <4>. QED
        BY <4>1, <4>2
    <3>19. CASE ZeroRear(t)
      <4>1. TypeOK'
        BY SMTT(30), <3>0, <3>19 DEF ZeroRear, Slots, Goto, frame, TypeOK, Labels, Inside
      <4>2. FrameOK'
        BY <3>19, FrameGoto DEF ZeroRear, FrameOK, Inside
      <4>. QED
        BY <4>1, <4>2
    <3>20. CASE FreePut(t)
      <4>1. TypeOK'
        BY <3>0, <3>20 DEF FreePut, Store, Goto, frame, TypeOK, Labels, Inside
      <4>2. FrameOK'
        BY <3>20, FrameGoto DEF FreePut, FrameOK, Inside
      <4>. QED
        BY <4>1, <4>2
    <3>21. CASE FreeGet(t)
      <4>1. Leave(t)
        BY <3>21 DEF FreeGet
      <4>2. key' \in [{"get", "put"} -> 0..Timeout+1]
        BY <3>0, <3>21 DEF FreeGet, Store, TypeOK
      <4>3. UNCHANGED <<head, rear, buf>>
        BY <3>21 DEF FreeGet, shared
      <4>. QED
        BY <4>1, <4>2, <4>3, FrameLeave, TypeLeave
    <3>22. CASE Die(t)
      <4>1. TypeOK'
        BY <3>0, <3>22 DEF Die, shared, Goto, frame, TypeOK, Labels, Inside
      <4>2. FrameOK'
        BY <3>22, FrameGoto DEF Die, shared, FrameOK, Inside
      <4>. QED
        BY <4>1, <4>2
    <3>. QED
      BY <3>1, <3>2, <3>3, <3>4, <3>5, <3>6, <3>7, <3>8, <3>9, <3>10, <3>11, <3>12, <3>13, <3>14, <3>15, <3>16, <3>17, <3>18, <3>19, <3>20, <3>21, <3>22 DEF Step
  <2>. QED
    BY <2>1, <2>2
<1>. QED
  BY <1>1, <1>2, PTL DEF Spec

------------------------------------------------------------------------------
(* A step of t that takes a key only when it is free, leaves a key it      *)
(* holds non-zero, and frees no key but its own, keeps the exclusion.      *)
LEMMA ExclusionStep ==
  ASSUME MutualExclusion, KeyTaken, ~TimeoutFlag, NEW t \in Threads,
         \A u \in Threads \ {t}, k \in {"get", "put"} : Holds(u, k)' => Holds(u, k),
         \A k \in {"get", "put"} : Holds(t, k)' => Holds(t, k) \/ key[k] = 0,
         \A k \in {"get", "put"} : Holds(t, k)' => key'[k] # 0,
         \A k \in {"get", "put"} : key'[k] = 0 => key[k] = 0 \/ Holds(t, k)
  PROVE  MutualExclusion' /\ KeyTaken'
<1>1. \A u \in Threads, k \in {"get", "put"} : Holds(u, k)' => key'[k] # 0
  BY DEF MutualExclusion, KeyTaken
<1>2. ASSUME NEW u \in Threads, NEW v \in Threads, NEW k \in {"get", "put"},
             Holds(u, k)', Holds(v, k)'
      PROVE  u = v
  <2>1. CASE u # t /\ v # t
    BY <1>2, <2>1 DEF MutualExclusion
  <2>2. CASE u = t /\ v # t
    BY <1>2, <2>2 DEF MutualExclusion, KeyTaken
  <2>3. CASE u # t /\ v = t
    BY <1>2, <2>3 DEF MutualExclusion, KeyTaken
  <2>. QED
    BY <2>1, <2>2, <2>3
<1>. QED
  BY <1>1, <1>2 DEF MutualExclusion, KeyTaken

(* A step of t does not make another thread a holder.                      *)
LEMMA OthersKeep ==
  ASSUME TypeOK, NEW t \in Threads, Start(t) \/ Step(t) \/ Die(t),
         NEW u \in Threads \ {t}, NEW k \in {"get", "put"}, Holds(u, k)'
  PROVE  Holds(u, k)
<1>1. pc'[u] = pc[u] /\ op'[u] = op[u]
  BY DEF TypeOK, Start, Step, getq, peek, putq, rewind, Enter, Leave, Goto, shared, frame,
     Acquire, Expire, Test, Alive, GiveUp, Snapshot, Refused, CopyOut, CopyIn, PublishHead,
     PublishRear, Release, TakePut, TakeGet, BackOff, ZeroHead, ZeroRear, FreePut, FreeGet, Die
<1>. QED
  BY <1>1 DEF Holds, Side

(* Without QUEUE_TIMEOUT no two threads are ever past the same key.        *)
THEOREM Exclusion == Spec => []MutualExclusion
<1>1. Init => MutualExclusion /\ KeyTaken
  BY DEF Init, MutualExclusion, KeyTaken, Holds, Inside
<1>2. TypeOK /\ FrameOK /\ MutualExclusion /\ KeyTaken /\ [Next]_vars
        => MutualExclusion' /\ KeyTaken'
  <2>. SUFFICES ASSUME TypeOK, FrameOK, MutualExclusion, KeyTaken, [Next]_vars
                PROVE  MutualExclusion' /\ KeyTaken'
    OBVIOUS
  <2>1. CASE UNCHANGED vars
    BY <2>1 DEF MutualExclusion, KeyTaken, vars, Holds, Inside, Side
  <2>2. CASE Next /\ ~TimeoutFlag
    <3>1. PICK t \in Threads : Start(t) \/ Step(t) \/ Die(t)
      BY <2>2 DEF Next
    <3>2. \A u \in Threads \ {t}, k \in {"get", "put"} : Holds(u, k)' => Holds(u, k)
      BY <3>1, OthersKeep
    <3>3. \A k \in {"get", "put"} : Holds(t, k)' => Holds(t, k) \/ key[k] = 0
      <4>1. CASE Start(t) \/ Die(t)
        BY <2>2, <4>1 DEF Start, getq, peek, putq, rewind, Enter, Die, shared, frame, Goto, Side, Holds, Inside, TypeOK, FrameOK, KeyTaken
      <4>2. CASE Acquire(t) \/ Expire(t)
        BY <2>2, <4>2 DEF Acquire, Expire, FetchAdd, Store, frame, Goto, Side, Holds, Inside, TypeOK, FrameOK, KeyTaken
      <4>3. CASE Test(t) \/ Alive(t) \/ Snapshot(t)
        BY <2>2, <4>3 DEF Test, Alive, Snapshot, Store, shared, frame, Goto, Side, Holds, Inside, TypeOK, FrameOK, KeyTaken
      <4>4. CASE GiveUp(t) \/ Refused(t) \/ Release(t) \/ FreeGet(t)
        BY <2>2, <4>4 DEF GiveUp, Refused, Release, FreeGet, Leave, Store, shared, Goto, Side, Holds, Inside, TypeOK, FrameOK, KeyTaken
      <4>5. CASE CopyOut(t) \/ CopyIn(t) \/ PublishHead(t) \/ PublishRear(t)
        BY <2>2, <4>5 DEF CopyOut, CopyIn, PublishHead, PublishRear, shared, frame, Goto, Side, Holds, Inside, TypeOK, FrameOK, KeyTaken
      <4>6. CASE TakePut(t) \/ TakeGet(t) \/ BackOff(t)
        BY <2>2, <4>6 DEF TakePut, TakeGet, BackOff, FetchAdd, Store, frame, Goto, Side, Holds, Inside, TypeOK, FrameOK, KeyTaken
      <4>7. CASE ZeroHead(t) \/ ZeroRear(t) \/ FreePut(t)
        BY <2>2, <4>7 DEF ZeroHead, ZeroRear, FreePut, Store, frame, Goto, Side, Holds, Inside, TypeOK, FrameOK, KeyTaken
      <4>. QED
        BY <3>1, <4>1, <4>2, <4>3, <4>4, <4>5, <4>6, <4>7 DEF Step
    <3>4. \A k \in {"get", "put"} : Holds(t, k)' => key'[k] # 0
      <4>1. CASE Start(t) \/ Die(t)
        BY <2>2, <4>1, QueueAssumption DEF Start, getq, peek, putq, rewind, Enter, Die, shared, frame, Goto, Side, Holds, Inside, TypeOK, FrameOK, KeyTaken
      <4>2. CASE Acquire(t) \/ Expire(t)
        BY <2>2, <4>2, QueueAssumption DEF Acquire, Expire, FetchAdd, Store, frame, Goto, Side, Holds, Inside, TypeOK, FrameOK, KeyTaken
      <4>3. CASE Test(t) \/ Alive(t) \/ Snapshot(t)
        BY <2>2, <4>3, QueueAssumption DEF Test, Alive, Snapshot, Store, shared, frame, Goto, Side, Holds, Inside, TypeOK, FrameOK, KeyTaken
      <4>4. CASE GiveUp(t) \/ Refused(t) \/ Release(t) \/ FreeGet(t)
        BY <2>2, <4>4, QueueAssumption DEF GiveUp, Refused, Release, FreeGet, Leave, Store, shared, Goto, Side, Holds, Inside, TypeOK, FrameOK, KeyTaken
      <4>5. CASE CopyOut(t) \/ CopyIn(t) \/ PublishHead(t) \/ PublishRear(t)
        BY <2>2, <4>5, QueueAssumption DEF CopyOut, CopyIn, PublishHead, PublishRear, shared, frame, Goto, Side, Holds, Inside, TypeOK, FrameOK, KeyTaken
      <4>6. CASE TakePut(t) \/ TakeGet(t) \/ BackOff(t)
        BY <2>2, <4>6, QueueAssumption DEF TakePut, TakeGet, BackOff, FetchAdd, Store, frame, Goto, Side, Holds, Inside, TypeOK, FrameOK, KeyTaken
      <4>7. CASE ZeroHead(t) \/ ZeroRear(t) \/ FreePut(t)
        BY <2>2, <4>7, QueueAssumption DEF ZeroHead, ZeroRear, FreePut, Store, frame, Goto, Side, Holds, Inside, TypeOK, FrameOK, KeyTaken
      <4>. QED
        BY <3>1, <4>1, <4>2, <4>3, <4>4, <4>5, <4>6, <4>7 DEF Step
    <3>5. \A k \in {"get", "put"} : key'[k] = 0 => key[k] = 0 \/ Holds(t, k)
      <4>1. CASE Start(t) \/ Die(t)
        BY <2>2, <4>1, QueueAssumption DEF Start, getq, peek, putq, rewind, Enter, Die, shared, frame, Goto, Side, Holds, Inside, TypeOK, FrameOK, KeyTaken
      <4>2. CASE Acquire(t) \/ Expire(t)
        BY <2>2, <4>2, QueueAssumption DEF Acquire, Expire, FetchAdd, Store, frame, Goto, Side, Holds, Inside, TypeOK, FrameOK, KeyTaken
      <4>3. CASE Test(t) \/ Alive(t) \/ Snapshot(t)
        BY <2>2, <4>3, QueueAssumption DEF Test, Alive, Snapshot, Store, shared, frame, Goto, Side, Holds, Inside, TypeOK, FrameOK, KeyTaken
      <4>4. CASE GiveUp(t) \/ Refused(t) \/ Release(t) \/ FreeGet(t)
        BY <2>2, <4>4, QueueAssumption DEF GiveUp, Refused, Release, FreeGet, Leave, Store, shared, Goto, Side, Holds, Inside, TypeOK, FrameOK, KeyTaken
      <4>5. CASE CopyOut(t) \/ CopyIn(t) \/ PublishHead(t) \/ PublishRear(t)
        BY <2>2, <4>5, QueueAssumption DEF CopyOut, CopyIn, PublishHead, PublishRear, shared, frame, Goto, Side, Holds, Inside, TypeOK, FrameOK, KeyTaken
      <4>6. CASE TakePut(t) \/ TakeGet(t) \/ BackOff(t)
        BY <2>2, <4>6, QueueAssumption DEF TakePut, TakeGet, BackOff, FetchAdd, Store, frame, Goto, Side, Holds, Inside, TypeOK, FrameOK, KeyTaken
      <4>7. CASE ZeroHead(t) \/ ZeroRear(t) \/ FreePut(t)
        BY <2>2, <4>7, QueueAssumption DEF ZeroHead, ZeroRear, FreePut, Store, frame, Goto, Side, Holds, Inside, TypeOK, FrameOK, KeyTaken
      <4>. QED
        BY <3>1, <4>1, <4>2, <4>3, <4>4, <4>5, <4>6, <4>7 DEF Step
    <3>. QED
      BY <2>2, <3>2, <3>3, <3>4, <3>5, ExclusionStep
  <2>3. CASE TimeoutFlag
    BY <2>3 DEF MutualExclusion, KeyTaken
  <2>. QED
    BY <2>1, <2>2, <2>3
<1>. QED
  BY <1>1, <1>2, TypeCorrect, PTL DEF Spec

------------------------------------------------------------------------------
(* The batches.                                                            *)

Moves == {"copy", "publish"}

(* What a thread that is about to move a batch knows of the ring: where    *)
(* its side of the ring begins, and that its batch fits, though the other  *)
(* side may have moved since it looked.                                    *)
Fits(t) ==
  /\ pc[t] = "snapshot" => Available(t) > 0
  /\ pc[t] \in Moves =>
       /\ pos[t] = IF op[t] = "getq" THEN head ELSE rear
       /\ 0 < cnt[t] /\ cnt[t] <= Available(t)
       /\ op[t] = "putq" => cnt[t] = n[t] \/ Partial

(* A batch that has been copied is still what it was.                      *)
Copied(t) ==
  pc[t] = "publish" =>
    IF op[t] = "getq"
    THEN data[t] = [i \in 1..cnt[t] |-> buf[At(pos[t] + i - 1)]]
    ELSE \A i \in 1..cnt[t] : buf[At(pos[t] + i - 1)] = data[t][i]

(* The arguments of a call.                                                *)
Rewinding == {"take_put", "take_get", "back_off", "zero_head", "zero_rear", "free_put", "free_get"}

Args(t) ==
  /\ pc[t] = "idle" => op[t] = "none" /\ n[t] = 0 /\ data[t] = <<>>
  /\ op[t] \in {"getq", "putq"} => n[t] > 0
  /\ pc[t] \in Rewinding => op[t] = "rewind" /\ n[t] = 0

(* rewind() has half emptied the queue.                                    *)
Zeroed(t) == pc[t] = "zero_rear" => head = 0

BatchesOK == ~TimeoutFlag => \A t \in Threads : Fits(t) /\ Copied(t) /\ Args(t) /\ Zeroed(t)

Inv == TypeOK /\ FrameOK /\ MutualExclusion /\ BatchesOK

------------------------------------------------------------------------------
(* The ring: r and h are rear and head.                                    *)

(* A writer moves c elements.                                              *)
LEMMA Fill ==
  ASSUME NEW h \in Slots, NEW r \in Slots, NEW c \in 0 .. At(h - r - 1)
  PROVE  /\ At(h - r - 1) = Cap - 1 - At(r - h)
         /\ At(r + c) \in Slots
         /\ At(At(r + c) - h) = At(r - h) + c
         /\ At(h - At(r + c) - 1) = At(h - r - 1) - c
<1>1. /\ Cap \in Nat /\ Cap > 1 /\ h \in 0 .. Cap - 1 /\ r \in 0 .. Cap - 1
  BY QueueAssumption DEF Slots
<1>2. At(r - h) = IF r - h < 0 THEN r - h + Cap ELSE r - h
  BY <1>1, AtTurn
<1>3. At(h - r - 1) = IF h - r - 1 < 0 THEN h - r - 1 + Cap ELSE h - r - 1
  BY <1>1, AtTurn
<1>4. c \in 0 .. Cap - 1
  BY <1>1, <1>3
<1>5. At(r + c) = IF r + c < Cap THEN r + c ELSE r + c - Cap
  BY <1>1, <1>4, AtTurn
<1>6. At(r + c) \in 0 .. Cap - 1
  BY <1>1, <1>4, <1>5
<1>7. At(At(r + c) - h) = IF At(r + c) - h < 0 THEN At(r + c) - h + Cap ELSE At(r + c) - h
  BY <1>1, <1>6, AtTurn
<1>8. At(h - At(r + c) - 1) =
        IF h - At(r + c) - 1 < 0 THEN h - At(r + c) - 1 + Cap ELSE h - At(r + c) - 1
  BY <1>1, <1>6, AtTurn
<1> QED BY <1>1, <1>2, <1>3, <1>4, <1>5, <1>6, <1>7, <1>8 DEF Slots

(* A reader moves c elements.                                              *)
LEMMA Empty ==
  ASSUME NEW h \in Slots, NEW r \in Slots, NEW c \in 0 .. At(r - h)
  PROVE  /\ At(h + c) \in Slots
         /\ At(r - At(h + c)) = At(r - h) - c
         /\ At(At(h + c) - r - 1) = At(h - r - 1) + c
<1>1. /\ Cap \in Nat /\ Cap > 1 /\ h \in 0 .. Cap - 1 /\ r \in 0 .. Cap - 1
  BY QueueAssumption DEF Slots
<1>2. At(r - h) = IF r - h < 0 THEN r - h + Cap ELSE r - h
  BY <1>1, AtTurn
<1>3. At(h - r - 1) = IF h - r - 1 < 0 THEN h - r - 1 + Cap ELSE h - r - 1
  BY <1>1, AtTurn
<1>4. c \in 0 .. Cap - 1
  BY <1>1, <1>2
<1>5. At(h + c) = IF h + c < Cap THEN h + c ELSE h + c - Cap
  BY <1>1, <1>4, AtTurn
<1>6. At(h + c) \in 0 .. Cap - 1
  BY <1>1, <1>4, <1>5
<1>7. At(r - At(h + c)) = IF r - At(h + c) < 0 THEN r - At(h + c) + Cap ELSE r - At(h + c)
  BY <1>1, <1>6, AtTurn
<1>8. At(At(h + c) - r - 1) =
        IF At(h + c) - r - 1 < 0 THEN At(h + c) - r - 1 + Cap ELSE At(h + c) - r - 1
  BY <1>1, <1>6, AtTurn
<1> QED BY <1>1, <1>2, <1>3, <1>4, <1>5, <1>6, <1>7, <1>8 DEF Slots

(* Slots that are i and j < Cap slots after h are the same if i = j only.  *)
LEMMA Apart ==
  ASSUME NEW h \in Slots, NEW i \in 0 .. Cap - 1, NEW j \in 0 .. Cap - 1
  PROVE  At(h + i) = At(h + j) <=> i = j
<1>1. Cap \in Nat /\ Cap > 1 /\ h \in 0 .. Cap - 1
  BY QueueAssumption DEF Slots
<1>2. /\ At(h + i) = IF h + i < Cap THEN h + i ELSE h + i - Cap
      /\ At(h + j) = IF h + j < Cap THEN h + j ELSE h + j - Cap
  BY <1>1, AtTurn
<1> QED BY <1>1, <1>2

(* Going on from the slot c after h.                                       *)
LEMMA Onwards ==
  ASSUME NEW h \in Slots, NEW c \in 0 .. Cap - 1, NEW i \in Nat, c + i < Cap
  PROVE  At(At(h + c) + i) = At(h + c + i)
<1>1. Cap \in Nat /\ Cap > 1 /\ h \in 0 .. Cap - 1 /\ i \in 0 .. Cap - 1 /\ c + i \in 0 .. Cap - 1
  BY QueueAssumption DEF Slots
<1>2. At(h + c) = IF h + c < Cap THEN h + c ELSE h + c - Cap
  BY <1>1, AtTurn
<1>3. At(h + c + i) = IF h + c + i < Cap THEN h + c + i ELSE h + c + i - Cap
  BY <1>1, AtTurn
<1> DEFINE x == At(h + c) + i
<1>4. x \in Int /\ -Cap <= x /\ x < 2 * Cap
  BY <1>1, <1>2
<1> HIDE DEF x
<1>5. At(x) = IF x < 0 THEN x + Cap ELSE IF x < Cap THEN x ELSE x - Cap
  BY <1>4, AtTurn
<1> USE DEF x
<1> QED BY <1>1, <1>2, <1>3, <1>5

(* rear is Length slots after head.                                        *)
LEMMA RearIs ==
  ASSUME NEW h \in Slots, NEW r \in Slots
  PROVE  At(h + At(r - h)) = r /\ At(r - h) \in 0 .. Cap - 1
<1>1. Cap \in Nat /\ Cap > 1 /\ h \in 0 .. Cap - 1 /\ r \in 0 .. Cap - 1
  BY QueueAssumption DEF Slots
<1>2. At(r - h) = IF r - h < 0 THEN r - h + Cap ELSE r - h
  BY <1>1, AtTurn
<1>3. At(r - h) \in 0 .. Cap - 1
  BY <1>1, <1>2
<1>4. At(h + At(r - h)) = IF h + At(r - h) < Cap THEN h + At(r - h) ELSE h + At(r - h) - Cap
  BY <1>1, <1>3, AtTurn
<1> QED BY <1>1, <1>2, <1>3, <1>4

(* The elements and the free slots, but for one, fill the ring.            *)
LEMMA Lengths ==
  ASSUME TypeOK
  PROVE  /\ Length \in 0 .. Cap - 1 /\ At(head + Length) = rear
         /\ At(head - rear - 1) = Cap - 1 - Length
<1>1. head \in Slots /\ rear \in Slots /\ Cap \in Nat /\ Cap > 1
  BY QueueAssumption DEF TypeOK
<1>2. At(head - rear - 1) \in Slots
  BY <1>1, AtSlot DEF Slots
<1>3. 0 \in 0 .. At(head - rear - 1)
  BY <1>1, <1>2 DEF Slots
<1> QED BY <1>1, <1>3, Fill, RearIs DEF Length

(* A thread may go on when something is available to it.                   *)
LEMMA BlockedIs ==
  ASSUME TypeOK, NEW t \in Threads, op[t] \in {"getq", "putq"}
  PROVE  Blocked(t) <=> Available(t) = 0
<1>1. Cap \in Nat /\ Cap > 1 /\ head \in 0 .. Cap - 1 /\ rear \in 0 .. Cap - 1
  BY QueueAssumption DEF TypeOK, Slots
<1>2. At(rear - head) = IF rear - head < 0 THEN rear - head + Cap ELSE rear - head
  BY <1>1, AtTurn
<1>3. At(head - rear - 1) = IF head - rear - 1 < 0 THEN head - rear - 1 + Cap ELSE head - rear - 1
  BY <1>1, AtTurn
<1>4. At(rear + 1) = IF rear + 1 < Cap THEN rear + 1 ELSE rear + 1 - Cap
  BY <1>1, AtTurn
<1> QED BY <1>1, <1>2, <1>3, <1>4 DEF Blocked, Available, Length

(* A reader and a writer at work have no slot in common.                   *)
LEMMA Disjoint ==
  ASSUME TypeOK, NEW t \in Threads, NEW u \in Threads, Fits(t), Fits(u),
         pc[t] \in Moves, op[t] = "putq", pc[u] \in Moves, op[u] = "getq"
  PROVE  Region(t) \cap Region(u) = {}
<1>1. /\ Cap \in Nat /\ Cap > 1 /\ head \in Slots /\ rear \in Slots
      /\ cnt[t] \in Nat /\ cnt[u] \in Nat
  BY QueueAssumption DEF TypeOK
<1>2. pos[t] = rear /\ pos[u] = head /\ cnt[t] <= Cap - 1 - Length /\ cnt[u] <= Length
  BY Lengths DEF Fits, Available
<1> SUFFICES ASSUME NEW i \in 0..cnt[t]-1, NEW j \in 0..cnt[u]-1, At(rear + i) = At(head + j)
             PROVE  FALSE
  BY <1>2 DEF Region
<1>3. Length \in 0 .. Cap - 1 /\ At(head + Length) = rear
  BY Lengths
<1>4. i \in Nat /\ Length + i \in 0 .. Cap - 1 /\ j \in 0 .. Cap - 1 /\ Length + i # j
  BY <1>1, <1>2, <1>3
<1>5. At(rear + i) = At(head + Length + i)
  BY <1>1, <1>3, <1>4, Onwards
<1>6. head + Length + i = head + (Length + i)
  BY <1>1, <1>3 DEF Slots
<1> QED BY <1>1, <1>4, <1>5, <1>6, Apart

(* Two threads past the keys are on different sides.                       *)
LEMMA OneEach ==
  ASSUME FrameOK, MutualExclusion, ~TimeoutFlag, NEW t \in Threads, NEW u \in Threads \ {t},
         pc[t] \in Inside, pc[u] \in Inside
  PROVE  op[t] # op[u] /\ op[t] \in {"getq", "putq"} /\ op[u] \in {"getq", "putq"}
<1>1. Holds(t, Side(t)) /\ Holds(u, Side(u)) /\ Side(t) \in {"get", "put"}
  BY DEF Holds, Side
<1> QED BY <1>1 DEF MutualExclusion, FrameOK, Side

(* The copies of the two sides do not meet.                                *)
LEMMA Overlap == Inv => NoTornElement
<1> SUFFICES ASSUME Inv, ~TimeoutFlag, NEW t \in Threads, NEW u \in Threads,
                    t # u, pc[t] = "copy", pc[u] = "copy", op[t] = "putq"
             PROVE  Region(t) \cap Region(u) = {}
  BY DEF NoTornElement
<1>1. op[u] = "getq"
  BY OneEach DEF Inv, Inside
<1> QED BY <1>1, Disjoint DEF Inv, BatchesOK, Moves

------------------------------------------------------------------------------
(* What a step of t leaves alone: the calls of the others, ...             *)
LEMMA Others ==
  ASSUME TypeOK, NEW t \in Threads, Start(t) \/ Step(t) \/ Die(t), NEW u \in Threads \ {t}
  PROVE  /\ pc'[u] = pc[u] /\ op'[u] = op[u] /\ n'[u] = n[u]
         /\ data'[u] = data[u] /\ pos'[u] = pos[u] /\ cnt'[u] = cnt[u]
  BY DEF TypeOK, Start, Step, getq, peek, putq, rewind, Enter, Leave, Goto, shared, frame,
     Acquire, Expire, Test, Alive, GiveUp, Snapshot, Refused, CopyOut, CopyIn, PublishHead,
     PublishRear, Release, TakePut, TakeGet, BackOff, ZeroHead, ZeroRear, FreePut, FreeGet, Die

RingMoves(t) == PublishHead(t) \/ PublishRear(t) \/ ZeroHead(t) \/ ZeroRear(t)

(* ... and, but for five of its steps, the ring.                           *)
LEMMA RingStays ==
  ASSUME NEW t \in Threads, Start(t) \/ Step(t) \/ Die(t), ~RingMoves(t)
  PROVE  head' = head /\ rear' = rear /\ (buf' = buf \/ CopyIn(t))
  BY DEF RingMoves, Start, Step, getq, peek, putq, rewind, Enter, Leave, shared,
     Acquire, Expire, Test, Alive, GiveUp, Snapshot, Refused, CopyOut, CopyIn,
     Release, TakePut, TakeGet, BackOff, FreePut, FreeGet, Die

(* While t rewinds, nobody is past a key.                                  *)
LEMMA RewindsAlone ==
  ASSUME FrameOK, MutualExclusion, ~TimeoutFlag, NEW t \in Threads, ZeroHead(t) \/ ZeroRear(t),
         NEW u \in Threads \ {t}
  PROVE  pc[u] \notin Inside
<1> SUFFICES ASSUME pc[u] \in Inside PROVE FALSE
  OBVIOUS
<1>1. Holds(u, Side(u)) /\ Holds(t, Side(u)) /\ Side(u) \in {"get", "put"}
  BY DEF Holds, Side, ZeroHead, ZeroRear
<1> QED BY <1>1 DEF MutualExclusion

(* A batch of u still fits after a step of t: readers only make room, and  *)
(* writers only elements.                                                  *)
LEMMA FitsOthers ==
  ASSUME Inv, ~TimeoutFlag, NEW t \in Threads, Start(t) \/ Step(t) \/ Die(t), NEW u \in Threads \ {t}
  PROVE  Fits(u)'
<1> DEFINE Past == {"snapshot"} \cup Moves
<1> SUFFICES ASSUME pc[u] \in Past PROVE Fits(u)'
  BY Others DEF Inv, Fits, Moves
<1>0. /\ TypeOK /\ FrameOK /\ MutualExclusion /\ Fits(u) /\ Fits(t) /\ pc[u] \in Inside
      /\ pc'[u] = pc[u] /\ op'[u] = op[u] /\ n'[u] = n[u]
      /\ data'[u] = data[u] /\ pos'[u] = pos[u] /\ cnt'[u] = cnt[u]
  BY Others DEF Inv, BatchesOK, Inside, Moves
<1>1. CASE ~RingMoves(t)
  <2>1. head' = head /\ rear' = rear
    BY <1>1, RingStays
  <2> QED BY <1>0, <2>1 DEF Fits, Available, Length
<1>2. CASE PublishHead(t)
  <2>1. op[u] = "putq" /\ pc[t] \in Moves /\ op[t] = "getq"
    BY <1>0, <1>2, OneEach DEF PublishHead, Inside, Moves
  <2>2. cnt[t] \in 0 .. Length /\ head' = At(head + cnt[t]) /\ rear' = rear
    BY <1>0, <1>2, <2>1 DEF PublishHead, Fits, Available, TypeOK
  <2>3. /\ cnt[t] \in Nat /\ cnt[u] \in Nat /\ At(head - rear - 1) \in Int
        /\ At(head' - rear - 1) = At(head - rear - 1) + cnt[t]
    BY SMTT(30), <1>0, <2>2, Empty, Lengths, QueueAssumption DEF TypeOK, Length
  <2> QED BY <1>0, <2>1, <2>2, <2>3 DEF Fits, Available
<1>3. CASE PublishRear(t)
  <2>1. op[u] = "getq" /\ pc[t] \in Moves /\ op[t] = "putq"
    BY <1>0, <1>3, OneEach DEF PublishRear, Inside, Moves
  <2>2. cnt[t] \in 0 .. At(head - rear - 1) /\ rear' = At(rear + cnt[t]) /\ head' = head
    BY <1>0, <1>3, <2>1, Lengths, QueueAssumption DEF PublishRear, Fits, Available, TypeOK
  <2>3. /\ cnt[t] \in Nat /\ cnt[u] \in Nat /\ At(rear - head) \in Int
        /\ At(rear' - head) = At(rear - head) + cnt[t]
    BY SMTT(30), <1>0, <2>2, Fill, Lengths, QueueAssumption DEF TypeOK, Length
  <2> QED BY <1>0, <2>1, <2>2, <2>3 DEF Fits, Available, Length
<1>4. CASE ZeroHead(t) \/ ZeroRear(t)
  BY <1>0, <1>4, RewindsAlone
<1> QED BY <1>1, <1>2, <1>3, <1>4 DEF RingMoves

(* The batch of t itself.                                                  *)
LEMMA FitsOwn ==
  ASSUME Inv, ~TimeoutFlag, NEW t \in Threads, Start(t) \/ Step(t) \/ Die(t)
  PROVE  Fits(t)'
<1>0. TypeOK /\ FrameOK /\ Fits(t) /\ Args(t)
  BY DEF Inv, BatchesOK
<1>1. CASE Test(t)
  <2>1. op[t] \in {"getq", "putq"} /\ Available(t) \in 0 .. Cap - 1
    BY <1>0, <1>1, AvailableBound DEF Test, FrameOK, Inside
  <2>2. pc'[t] = "snapshot" => Available(t) > 0
    BY SMTT(30), <1>0, <1>1, <2>1, BlockedIs, QueueAssumption DEF Test, Goto, TypeOK
  <2>3. Available(t)' = Available(t) /\ pc'[t] \notin Moves
    BY <1>0, <1>1 DEF Test, Goto, TypeOK, Available, Length, Moves, shared, frame
  <2> QED BY <2>2, <2>3 DEF Fits
<1>2. CASE Snapshot(t)
  <2>1. op[t] \in {"getq", "putq"} /\ Available(t) \in 0 .. Cap - 1 /\ n[t] \in Nat
    BY <1>0, <1>2, AvailableBound DEF Snapshot, FrameOK, Inside, TypeOK
  <2>2. /\ pos'[t] = (IF op[t] = "getq" THEN head ELSE rear)
        /\ cnt'[t] = IF Available(t) < n[t] THEN Available(t) ELSE n[t]
        /\ pc'[t] = IF op[t] = "putq" /\ Available(t) < n[t] /\ ~Partial THEN "refused" ELSE "copy"
        /\ UNCHANGED <<head, rear, op, n>>
    BY <1>0, <1>2 DEF Snapshot, Goto, TypeOK, shared
  <2>3. Available(t)' = Available(t) /\ Available(t) > 0 /\ n[t] > 0
    BY <1>0, <1>2, <2>1, <2>2 DEF Available, Length, Fits, Args, Snapshot
  <2> QED BY <2>1, <2>2, <2>3, QueueAssumption DEF Fits, Moves
<1>3. CASE CopyOut(t) \/ CopyIn(t)
  <2>1. pc[t] \in Moves /\ pc'[t] = "publish" /\ UNCHANGED <<head, rear, op, n, pos, cnt>>
    BY <1>0, <1>3 DEF CopyOut, CopyIn, Goto, TypeOK, Moves, shared, frame
  <2> QED BY <1>0, <2>1 DEF Fits, Available, Length, Moves
<1>4. CASE ~(Test(t) \/ Snapshot(t) \/ CopyOut(t) \/ CopyIn(t))
  <2>1. pc'[t] \notin Moves /\ pc'[t] # "snapshot"
    BY <1>0, <1>4 DEF TypeOK, Start, Step, getq, peek, putq, rewind, Enter, Leave, Goto, shared, frame,
     Acquire, Expire, Alive, GiveUp, Refused, PublishHead,
     PublishRear, Release, TakePut, TakeGet, BackOff, ZeroHead, ZeroRear, FreePut, FreeGet, Die, Moves
  <2> QED BY <2>1 DEF Fits
<1> QED BY <1>1, <1>2, <1>3, <1>4

(* The arguments of a call stay what they were.                            *)
LEMMA ArgsStep ==
  ASSUME Inv, ~TimeoutFlag, NEW t \in Threads, Start(t) \/ Step(t) \/ Die(t), NEW u \in Threads
  PROVE  Args(u)'
<1>0. TypeOK /\ FrameOK /\ Args(u) /\ Args(t)
  BY DEF Inv, BatchesOK
<1>1. CASE u # t
  BY <1>0, <1>1, Others DEF Args
<1>2. CASE u = t /\ Start(t)
  BY <1>0, <1>2, QueueAssumption DEF TypeOK, Args, Start, getq, peek, putq, rewind, Enter, Goto, Rewinding
<1>3. CASE u = t /\ (GiveUp(t) \/ Refused(t) \/ Release(t) \/ FreeGet(t))
  BY <1>0, <1>3 DEF TypeOK, Args, GiveUp, Refused, Release, FreeGet, Leave, Goto, Rewinding
<1>4. CASE u = t /\ (TakePut(t) \/ TakeGet(t) \/ BackOff(t) \/ ZeroHead(t) \/ ZeroRear(t) \/ FreePut(t))
  BY <1>0, <1>4 DEF TypeOK, Args, TakePut, TakeGet, BackOff, ZeroHead, ZeroRear, FreePut, Goto, Rewinding, frame
<1>5. CASE u = t /\ (Acquire(t) \/ Expire(t) \/ Test(t) \/ Alive(t) \/ Snapshot(t) \/ Die(t))
  BY <1>0, <1>5 DEF TypeOK, Args, Acquire, Expire, Test, Alive, Snapshot, Die, Goto, Rewinding, frame
<1>6. CASE u = t /\ (CopyOut(t) \/ CopyIn(t) \/ PublishHead(t) \/ PublishRear(t))
  BY <1>0, <1>6 DEF TypeOK, Args, CopyOut, CopyIn, PublishHead, PublishRear, Goto, Rewinding, frame, shared
<1> QED BY <1>1, <1>2, <1>3, <1>4, <1>5, <1>6 DEF Step

(* The slot of the i-th element of a batch.                                *)
LEMMA SlotOf ==
  ASSUME TypeOK, NEW t \in Threads, cnt[t] < Cap, NEW i \in 1..cnt[t]
  PROVE  /\ At(pos[t] + i - 1) \in Slots
         /\ At(pos[t] + i - 1) \in Region(t)
         /\ Index(t, At(pos[t] + i - 1)) = i
<1>1. Cap \in Nat /\ Cap > 1 /\ pos[t] \in 0 .. Cap - 1 /\ cnt[t] \in Nat
  BY QueueAssumption DEF TypeOK, Slots
<1>2. i - 1 \in 0 .. cnt[t] - 1 /\ pos[t] + i - 1 = pos[t] + (i - 1)
  BY <1>1
<1>3. At(pos[t] + i - 1) = IF pos[t] + i - 1 < Cap THEN pos[t] + i - 1 ELSE pos[t] + i - 1 - Cap
  BY <1>1, AtTurn
<1> DEFINE x == At(pos[t] + i - 1) - pos[t]
<1>4. x \in Int /\ -Cap <= x /\ x < 2 * Cap
  BY <1>1, <1>3
<1> HIDE DEF x
<1>5. At(x) = IF x < 0 THEN x + Cap ELSE IF x < Cap THEN x ELSE x - Cap
  BY <1>4, AtTurn
<1> USE DEF x
<1>6. Index(t, At(pos[t] + i - 1)) = i
  BY <1>1, <1>3, <1>5 DEF Index
<1>7. At(pos[t] + i - 1) \in Region(t)
  BY <1>2 DEF Region
<1> QED BY <1>1, <1>3, <1>6, <1>7 DEF Slots

(* What a thread has copied stays copied until it publishes.               *)
LEMMA CopiedStep ==
  ASSUME Inv, ~TimeoutFlag, NEW t \in Threads, Start(t) \/ Step(t) \/ Die(t), NEW u \in Threads
  PROVE  Copied(u)'
<1>0. /\ TypeOK /\ FrameOK /\ MutualExclusion /\ Fits(t) /\ Fits(u) /\ Copied(u)
      /\ pc[u] \in Moves => cnt[u] < Cap
  BY DEF Inv, BatchesOK, FrameOK, Moves
<1>1. CASE u # t /\ CopyIn(t)
  <2> SUFFICES ASSUME pc[u] = "publish" PROVE Copied(u)'
    BY <1>0, <1>1, Others DEF Copied
  <2>1. op[u] = "getq" /\ Region(t) \cap Region(u) = {}
    <3>1. op[t] = "putq" /\ pc[t] \in Moves /\ pc[t] \in Inside /\ pc[u] \in Inside /\ pc[u] \in Moves
      BY <1>1 DEF CopyIn, Inside, Moves
    <3>2. op[u] = "getq"
      BY <1>0, <1>1, <3>1, OneEach
    <3> QED BY <1>0, <3>1, <3>2, Disjoint
  <2>2. \A i \in 1..cnt[u] : buf'[At(pos[u] + i - 1)] = buf[At(pos[u] + i - 1)]
    <3> TAKE i \in 1..cnt[u]
    <3>1. At(pos[u] + i - 1) \in Slots /\ At(pos[u] + i - 1) \in Region(u)
      BY <1>0, SlotOf DEF Moves
    <3> QED BY <1>1, <2>1, <3>1 DEF CopyIn
  <2>3. data[u] = [i \in 1..cnt[u] |-> buf[At(pos[u] + i - 1)]]
    BY <1>0, <2>1 DEF Copied
  <2>4. op'[u] = "getq" /\ data'[u] = data[u] /\ pos'[u] = pos[u] /\ cnt'[u] = cnt[u]
    BY <1>0, <1>1, <2>1, Others
  <2> QED BY <2>2, <2>3, <2>4 DEF Copied
<1>2. CASE u = t /\ CopyIn(t)
  <2>1. \A i \in 1..cnt[t] : buf'[At(pos[t] + i - 1)] = data[t][i]
    <3> TAKE i \in 1..cnt[t]
    <3>1. /\ At(pos[t] + i - 1) \in Slots /\ At(pos[t] + i - 1) \in Region(t)
          /\ Index(t, At(pos[t] + i - 1)) = i
      BY <1>0, <1>2, SlotOf DEF Moves, CopyIn
    <3> QED BY <1>2, <3>1 DEF CopyIn
  <2> QED BY <1>2, <2>1 DEF CopyIn, frame, Copied
<1>3. CASE u = t /\ CopyOut(t)
  <2>1. data'[t] = [i \in 1..cnt[t] |-> buf[At(pos[t] + i - 1)]]
    BY <1>0, <1>3 DEF CopyOut, TypeOK
  <2> QED BY <1>3, <2>1 DEF CopyOut, shared, Copied
<1>4. CASE u # t /\ ~CopyIn(t)
  <2>1. buf' = buf
    BY <1>4, RingStays DEF RingMoves, PublishHead, PublishRear, ZeroHead, ZeroRear
  <2> QED BY <1>0, <1>4, <2>1, Others DEF Copied
<1>5. CASE u = t /\ ~CopyIn(t) /\ ~CopyOut(t)
  <2>1. pc'[t] # "publish"
    BY <1>0, <1>5 DEF TypeOK, Start, Step, getq, peek, putq, rewind, Enter, Leave, Goto, shared, frame,
     Acquire, Expire, Test, Alive, GiveUp, Snapshot, Refused, PublishHead,
     PublishRear, Release, TakePut, TakeGet, BackOff, ZeroHead, ZeroRear, FreePut, FreeGet, Die
  <2> QED BY <1>5, <2>1 DEF Copied
<1> QED BY <1>1, <1>2, <1>3, <1>4, <1>5

(* Nobody moves head while rewind() is half done.                          *)
LEMMA ZeroedStep ==
  ASSUME Inv, ~TimeoutFlag, NEW t \in Threads, Start(t) \/ Step(t) \/ Die(t), NEW u \in Threads
  PROVE  Zeroed(u)'
<1>0. TypeOK /\ FrameOK /\ MutualExclusion /\ Zeroed(u)
  BY DEF Inv, BatchesOK
<1>1. CASE u = t /\ ~ZeroHead(t)
  <2>1. pc'[t] # "zero_rear"
    BY <1>0, <1>1 DEF TypeOK, Start, Step, getq, peek, putq, rewind, Enter, Leave, Goto, shared, frame,
     Acquire, Expire, Test, Alive, GiveUp, Snapshot, Refused, CopyOut, CopyIn, PublishHead,
     PublishRear, Release, TakePut, TakeGet, BackOff, ZeroRear, FreePut, FreeGet, Die
  <2> QED BY <1>1, <2>1 DEF Zeroed
<1>2. CASE ZeroHead(t)
  BY <1>2 DEF ZeroHead, Zeroed
<1>3. CASE u # t /\ ~PublishHead(t) /\ ~ZeroHead(t)
  <2>1. head' = head
    BY <1>3, RingStays DEF RingMoves, PublishRear, ZeroRear
  <2> QED BY <1>0, <1>3, <2>1, Others DEF Zeroed
<1>4. CASE u # t /\ PublishHead(t)
  <2>1. Holds(t, "get") /\ (pc[u] = "zero_rear" => Holds(u, "get"))
    BY <1>4 DEF PublishHead, Holds, Inside, Side
  <2>2. pc[u] # "zero_rear"
    BY <1>0, <1>4, <2>1 DEF MutualExclusion
  <2> QED BY <1>0, <1>4, <2>2, Others DEF Zeroed
<1> QED BY <1>1, <1>2, <1>3, <1>4

(* The batches keep their places in the ring and their elements.           *)
THEOREM BatchesCorrect == Spec => []Inv
<1>1. Init => BatchesOK
  BY DEF Init, BatchesOK, Fits, Copied, Args, Zeroed, Moves, Rewinding
<1>2. Inv /\ [Next]_vars => BatchesOK'
  <2> SUFFICES ASSUME Inv, [Next]_vars, ~TimeoutFlag, NEW u \in Threads
               PROVE  Fits(u)' /\ Copied(u)' /\ Args(u)' /\ Zeroed(u)'
    BY DEF BatchesOK
  <2>1. CASE UNCHANGED vars
    <3>1. Fits(u) /\ Copied(u) /\ Args(u) /\ Zeroed(u)
      BY DEF Inv, BatchesOK
    <3> QED BY <2>1, <3>1 DEF vars, Fits, Copied, Args, Zeroed, Available, Length
  <2>2. CASE Next
    <3>1. PICK t \in Threads : Start(t) \/ Step(t) \/ Die(t)
      BY <2>2 DEF Next
    <3>2. Fits(u)'
      BY <3>1, FitsOthers, FitsOwn
    <3>3. Copied(u)' /\ Args(u)' /\ Zeroed(u)'
      BY <3>1, CopiedStep, ArgsStep, ZeroedStep
    <3> QED BY <3>2, <3>3
  <2> QED BY <2>1, <2>2
<1> QED BY <1>1, <1>2, TypeCorrect, Exclusion, PTL DEF Spec, Inv

(* No slot is being filled by one thread while another reads or fills it:  *)
(* the unlocked copies of getq and putq, lines 472-484 and 663-674.        *)
THEOREM NeverTorn == Spec => []NoTornElement
BY BatchesCorrect, Overlap, PTL

------------------------------------------------------------------------------
(* The elements of the ring: l slots of b from slot h on.                  *)
Stretch(b, h, l) == [i \in 1..l |-> b[At(h + i - 1)]]

Element == Values \cup {NoValue}

(* A stretch is a sequence of elements.                                    *)
LEMMA StretchSeq ==
  ASSUME NEW b \in [Slots -> Element], NEW h \in Slots, NEW l \in 0 .. Cap - 1
  PROVE  /\ Stretch(b, h, l) \in Seq(Element) /\ Len(Stretch(b, h, l)) = l
         /\ \A i \in 1..l : Stretch(b, h, l)[i] = b[At(h + i - 1)]
<1>1. Cap \in Nat /\ Cap > 1 /\ l \in Nat /\ h \in Int
  BY QueueAssumption DEF Slots
<1>2. \A i \in 1..l : b[At(h + i - 1)] \in Element
  <2> TAKE i \in 1..l
  <2>1. h + i - 1 \in Int
    BY <1>1
  <2>2. At(h + i - 1) \in Slots
    BY <2>1, AtSlot
  <2> QED BY <2>2
<1> QED BY <1>1, <1>2 DEF Stretch

(* A sequence that goes through one and then through the other.            *)
LEMMA Joined ==
  ASSUME NEW S, NEW s1 \in Seq(S), NEW s2 \in Seq(S), NEW s \in Seq(S),
         Len(s) = Len(s1) + Len(s2),
         \A i \in 1..Len(s1) : s[i] = s1[i],
         \A i \in 1..Len(s2) : s2[i] = s[Len(s1) + i]
  PROVE  s = s1 \o s2
<1> DEFINE j == s1 \o s2
<1>1. /\ j \in Seq(S) /\ Len(j) = Len(s1) + Len(s2)
      /\ \A i \in 1..Len(s1)+Len(s2) : j[i] = IF i <= Len(s1) THEN s1[i] ELSE s2[i - Len(s1)]
  BY ConcatProperties, Zenon
<1>2. Len(s1) \in Nat /\ Len(s2) \in Nat
  OBVIOUS
<1> HIDE DEF j
<1>3. ASSUME NEW i \in 1..Len(s) PROVE s[i] = j[i]
  <2>1. CASE i <= Len(s1)
    BY <1>1, <1>2, <2>1
  <2>2. CASE i > Len(s1)
    <3>1. i - Len(s1) \in 1..Len(s2) /\ Len(s1) + (i - Len(s1)) = i
      BY <1>2, <2>2
    <3>2. s2[i - Len(s1)] = s[Len(s1) + (i - Len(s1))]
      BY <3>1
    <3> QED BY <1>1, <1>2, <2>2, <3>1, <3>2
  <2> QED BY <1>2, <2>1, <2>2
<1>4. s = j
  BY <1>1, <1>3, SeqEqual
<1> QED BY <1>4 DEF j

(* A stretch is its first c elements and those that follow them.           *)
LEMMA StretchSplit ==
  ASSUME NEW b \in [Slots -> Element], NEW h \in Slots, NEW l \in 0 .. Cap - 1, NEW c \in 0 .. l
  PROVE  /\ SubSeq(Stretch(b, h, l), 1, c) = Stretch(b, h, c)
         /\ SubSeq(Stretch(b, h, l), c + 1, l) = Stretch(b, At(h + c), l - c)
         /\ Stretch(b, h, l) = Stretch(b, h, c) \o Stretch(b, At(h + c), l - c)
<1>1. /\ Cap \in Nat /\ Cap > 1 /\ l \in Nat /\ c \in 0 .. Cap - 1 /\ l - c \in 0 .. Cap - 1
      /\ h \in Int /\ At(h + c) \in Slots
  <2>1. Cap \in Nat /\ Cap > 1 /\ l \in Nat /\ c \in 0 .. Cap - 1 /\ l - c \in 0 .. Cap - 1 /\ h \in Int
    BY QueueAssumption DEF Slots
  <2> QED BY <2>1, AtSlot
<1> DEFINE s  == Stretch(b, h, l)
           s1 == Stretch(b, h, c)
           s2 == Stretch(b, At(h + c), l - c)
<1>2. /\ s \in Seq(Element) /\ Len(s) = l /\ \A i \in 1..l : s[i] = b[At(h + i - 1)]
      /\ s1 \in Seq(Element) /\ Len(s1) = c /\ \A i \in 1..c : s1[i] = b[At(h + i - 1)]
      /\ s2 \in Seq(Element) /\ Len(s2) = l - c
      /\ \A i \in 1..l-c : s2[i] = b[At(At(h + c) + i - 1)]
  BY <1>1, StretchSeq
<1>3. \A i \in 1..l-c : s2[i] = s[c + i]
  <2> TAKE i \in 1..l-c
  <2>1. i - 1 \in Nat /\ c + (i - 1) < Cap /\ c + i \in 1..l
    BY <1>1
  <2>2. At(At(h + c) + (i - 1)) = At(h + c + (i - 1))
    BY <1>1, <2>1, Onwards
  <2>3. At(h + c) + (i - 1) = At(h + c) + i - 1 /\ h + c + (i - 1) = h + (c + i) - 1
    BY <1>1 DEF Slots
  <2>4. s2[i] = b[At(At(h + c) + i - 1)] /\ s[c + i] = b[At(h + (c + i) - 1)]
    BY <1>2, <2>1, Zenon
  <2> QED BY <2>2, <2>3, <2>4, Zenon
<1> HIDE DEF s, s1, s2
<1>4. SubSeq(s, 1, c) = s1
  <2>1. /\ SubSeq(s, 1, c) \in Seq(Element) /\ Len(SubSeq(s, 1, c)) = c
        /\ \A i \in 1..c : SubSeq(s, 1, c)[i] = s[i]
    <3>1. \A i \in 1..c : s[i] \in Element
      BY <1>1, <1>2
    <3>2. c - 1 + 1 = c /\ (\A i \in 1..c : 1 + i - 1 = i) /\ c \in Int /\ 1 \in Int
      BY <1>1
    <3>3. /\ SubSeq(s, 1, c) \in Seq(Element)
          /\ Len(SubSeq(s, 1, c)) = IF 1 <= c THEN c - 1 + 1 ELSE 0
          /\ \A i \in 1..c-1+1 : SubSeq(s, 1, c)[i] = s[1 + i - 1]
      BY <3>1, <3>2, SubSeqProperties
    <3> QED BY <1>1, <3>2, <3>3
  <2> QED BY SMTT(30), <1>1, <1>2, <2>1, SeqEqual
<1>5. SubSeq(s, c + 1, l) = s2
  <2>1. /\ SubSeq(s, c + 1, l) \in Seq(Element) /\ Len(SubSeq(s, c + 1, l)) = l - c
        /\ \A i \in 1..l-c : SubSeq(s, c + 1, l)[i] = s[c + i]
    <3>1. \A i \in c + 1..l : s[i] \in Element
      BY <1>1, <1>2
    <3>2. l - (c + 1) + 1 = l - c /\ (\A i \in 1..l-c : c + 1 + i - 1 = c + i) /\ c + 1 \in Int /\ l \in Int
      BY <1>1
    <3>3. /\ SubSeq(s, c + 1, l) \in Seq(Element)
          /\ Len(SubSeq(s, c + 1, l)) = IF c + 1 <= l THEN l - (c + 1) + 1 ELSE 0
          /\ \A i \in 1..l-(c+1)+1 : SubSeq(s, c + 1, l)[i] = s[c + 1 + i - 1]
      BY <3>1, <3>2, SubSeqProperties
    <3> QED BY <1>1, <3>2, <3>3
  <2> QED BY <1>1, <1>2, <1>3, <2>1, SeqEqual
<1>6. s = s1 \o s2
  <2>1. /\ s \in Seq(Element) /\ s1 \in Seq(Element) /\ s2 \in Seq(Element)
        /\ Len(s) = Len(s1) + Len(s2)
        /\ \A i \in 1..Len(s1) : s[i] = s1[i]
        /\ \A i \in 1..Len(s2) : s2[i] = s[Len(s1) + i]
    <3>1. c + (l - c) = l /\ \A i \in 1..c : i \in 1..l
      BY <1>1
    <3> QED BY <1>2, <1>3, <3>1
  <2> QED BY <2>1, Joined, Zenon
<1> QED BY <1>4, <1>5, <1>6 DEF s, s1, s2

------------------------------------------------------------------------------
(* What the callers see of a thread at each label, ...                     *)
Underway == {"acquire", "expired", "test", "alive", "snapshot", "copy", "publish",
             "take_put", "take_get", "back_off", "zero_head"}

Shape(t) ==
  /\ pc[t] = "idle" => CallOf(t) = Abstract!Idle
  /\ pc[t] \in Underway =>
       CallOf(t) = Abstract!Calling(op[t], n[t], IF op[t] = "putq" THEN data[t] ELSE <<>>)
  /\ pc[t] \in {"give_up", "refused", "zero_rear", "free_put", "free_get"} =>
       CallOf(t) = Abstract!Done(op[t], <<>>)
  /\ pc[t] = "release" => CallOf(t) = Abstract!Done(op[t], SubSeq(data[t], 1, cnt[t]))

Shapes == \A t \in Threads : Shape(t)

(* They follow from the locals.                                            *)
LEMMA ShapesHold == Inv /\ ~TimeoutFlag => Shapes
<1> SUFFICES ASSUME Inv, ~TimeoutFlag, NEW t \in Threads PROVE Shape(t)
  BY DEF Shapes
<1>1. Args(t) /\ pc[t] \in Labels
  BY DEF Inv, BatchesOK, TypeOK
<1>2. CASE pc[t] = "idle"
  BY <1>1, <1>2 DEF Shape, CallOf, Abstract!Idle, Args, Underway
<1>3. CASE pc[t] \in Underway
  BY <1>1, <1>3 DEF Shape, CallOf, Abstract!Calling, Underway
<1>4. CASE pc[t] \in {"give_up", "refused", "zero_rear", "free_put", "free_get"}
  BY <1>1, <1>4 DEF Shape, CallOf, Abstract!Done, Underway
<1>5. CASE pc[t] = "release"
  BY <1>1, <1>5 DEF Shape, CallOf, Abstract!Done, Underway
<1>6. CASE pc[t] = "dead"
  BY <1>6 DEF Shape, Underway
<1> QED BY <1>1, <1>2, <1>3, <1>4, <1>5, <1>6 DEF Labels, Inside, Underway

View == [t \in Threads |-> CallOf(t)]

(* ... which a step of t changes for t only, ...                           *)
LEMMA ViewStep ==
  ASSUME TypeOK, NEW t \in Threads, Start(t) \/ Step(t) \/ Die(t)
  PROVE  View' = [View EXCEPT ![t] = CallOf(t)']
<1>1. \A u \in Threads \ {t} : CallOf(u)' = CallOf(u)
  <2> TAKE u \in Threads \ {t}
  <2>1. /\ pc'[u] = pc[u] /\ op'[u] = op[u] /\ n'[u] = n[u]
        /\ data'[u] = data[u] /\ pos'[u] = pos[u] /\ cnt'[u] = cnt[u]
    BY Others
  <2> QED BY <2>1 DEF CallOf
<1> QED BY <1>1 DEF View

(* ... and what they see of the ring.                                      *)
Zeroing == \E t \in Threads : pc[t] = "zero_rear"

(* The contents before a step, ...                                         *)
LEMMA ContentsIs == Contents = IF Zeroing THEN <<>> ELSE Stretch(buf, head, Length)
BY DEF Contents, Zeroing, Stretch

(* ... and after it.                                                       *)
LEMMA ContentsWill == Contents' = IF Zeroing' THEN <<>> ELSE Stretch(buf', head', Length')
BY DEF Contents, Zeroing, Stretch

(* Only the ends of the ring show: the copy of a batch into the free part  *)
(* does not.                                                               *)
LEMMA ContentsStay ==
  ASSUME Inv, ~TimeoutFlag, NEW t \in Threads, Start(t) \/ Step(t) \/ Die(t), ~RingMoves(t)
  PROVE  Contents' = Contents
<1>0. TypeOK /\ FrameOK /\ Fits(t) /\ head' = head /\ rear' = rear
  BY RingStays DEF Inv, BatchesOK
<1>1. Zeroing' <=> Zeroing
  <2>1. pc'[t] # "zero_rear"
    BY <1>0 DEF TypeOK, Start, Step, getq, peek, putq, rewind, Enter, Leave, Goto, shared, frame,
     Acquire, Expire, Test, Alive, GiveUp, Snapshot, Refused, CopyOut, CopyIn, RingMoves,
     Release, TakePut, TakeGet, BackOff, FreePut, FreeGet, Die
  <2>3. pc[t] # "zero_rear"
    BY DEF Start, Step, getq, peek, putq, rewind, Enter, Inside,
     Acquire, Expire, Test, Alive, GiveUp, Snapshot, Refused, CopyOut, CopyIn, RingMoves,
     Release, TakePut, TakeGet, BackOff, FreePut, FreeGet, Die
  <2>2. \A u \in Threads \ {t} : pc'[u] = pc[u]
    BY <1>0, Others
  <2> QED BY <2>1, <2>2, <2>3 DEF Zeroing
<1>2. Stretch(buf', head, Length) = Stretch(buf, head, Length)
  <2>1. CASE buf' = buf
    BY <2>1
  <2>2. CASE CopyIn(t)
    <3> SUFFICES ASSUME NEW i \in 1..Length PROVE buf'[At(head + i - 1)] = buf[At(head + i - 1)]
      BY DEF Stretch
    <3>1. /\ Cap \in Nat /\ Cap > 1 /\ head \in Slots /\ cnt[t] \in Nat
          /\ Length \in 0 .. Cap - 1 /\ At(head + Length) = rear
          /\ pos[t] = rear /\ cnt[t] <= Cap - 1 - Length
      BY <1>0, <2>2, Lengths, QueueAssumption DEF TypeOK, CopyIn, Fits, Moves, Available
    <3>2. i - 1 \in 0 .. Cap - 1 /\ head + i - 1 = head + (i - 1) /\ head + i - 1 \in Int
      BY <3>1 DEF Slots
    <3>3. At(head + i - 1) \notin Region(t)
      <4> SUFFICES ASSUME NEW j \in 0..cnt[t]-1, At(rear + j) = At(head + (i - 1)) PROVE FALSE
        BY <3>1, <3>2 DEF Region
      <4>1. j \in Nat /\ Length + j \in 0 .. Cap - 1 /\ Length + j # i - 1
        BY <3>1
      <4>2. At(rear + j) = At(head + Length + j)
        BY <3>1, <4>1, Onwards
      <4>3. head + Length + j = head + (Length + j)
        BY <3>1 DEF Slots
      <4> QED BY <3>1, <3>2, <4>1, <4>2, <4>3, Apart
    <3>4. At(head + i - 1) \in Slots
      BY <3>2, AtSlot
    <3> QED BY <2>2, <3>3, <3>4 DEF CopyIn
  <2> QED BY <2>1, <2>2, RingStays
<1>3. Length' = Length
  BY <1>0 DEF Length
<1> QED BY <1>0, <1>1, <1>2, <1>3, ContentsIs, ContentsWill

(* rewind() and a thread past a key exclude each other.                    *)
LEMMA NotZeroing ==
  ASSUME MutualExclusion, ~TimeoutFlag, NEW t \in Threads, pc[t] \in Inside
  PROVE  ~Zeroing
<1> SUFFICES ASSUME NEW u \in Threads, pc[u] = "zero_rear" PROVE FALSE
  BY DEF Zeroing
<1>1. Holds(u, Side(t)) /\ Holds(t, Side(t)) /\ Side(t) \in {"get", "put"}
  BY DEF Holds, Side
<1> QED BY <1>1 DEF MutualExclusion, Inside

(* What they see while somebody is past a key.                             *)
LEMMA Seen ==
  ASSUME TypeOK, MutualExclusion, ~TimeoutFlag, NEW t \in Threads, pc[t] \in Inside
  PROVE  /\ Contents = Stretch(buf, head, Length)
         /\ Contents \in Seq(Element) /\ Len(Contents) = Length
<1>1. Contents = Stretch(buf, head, Length)
  BY NotZeroing, ContentsIs
<1>2. buf \in [Slots -> Element] /\ head \in Slots /\ Length \in 0 .. Cap - 1
  BY Lengths DEF TypeOK, Element
<1> QED BY <1>1, <1>2, StretchSeq

(* A step that the callers do not see.                                     *)
Quiet(t) ==
  \/ Acquire(t) \/ Expire(t) \/ Alive(t) \/ CopyOut(t) \/ CopyIn(t)
  \/ TakePut(t) \/ TakeGet(t) \/ BackOff(t) \/ FreePut(t)
  \/ Test(t) /\ pc'[t] # "give_up"
  \/ Snapshot(t) /\ pc'[t] # "refused"

(* It changes neither the contents nor what is seen of the call.           *)
LEMMA QuietStep ==
  ASSUME Inv, Shapes, Shapes', ~TimeoutFlag, NEW t \in Threads, Quiet(t)
  PROVE  UNCHANGED <<Contents, View>>
<1>0. TypeOK /\ Shape(t) /\ Shape(t)' /\ Step(t) /\ ~RingMoves(t)
  BY DEF Inv, Shapes, Quiet, Step, RingMoves, PublishHead, PublishRear, ZeroHead, ZeroRear,
     Acquire, Expire, Test, Alive, Snapshot, CopyOut, CopyIn, TakePut, TakeGet, BackOff, FreePut
<1>1. Contents' = Contents
  BY <1>0, ContentsStay
<1>2. CallOf(t)' = CallOf(t)
  <2>1. CASE FreePut(t)
    BY <1>0, <2>1 DEF FreePut, Goto, frame, Shape, TypeOK
  <2>2. CASE CopyOut(t)
    BY <1>0, <2>2 DEF CopyOut, Goto, shared, Shape, TypeOK, Underway
  <2>3. CASE Quiet(t) /\ ~FreePut(t) /\ ~CopyOut(t)
    <3>1. pc[t] \in Underway /\ op' = op /\ n' = n /\ data' = data
      BY <2>3 DEF Quiet, Underway, frame, Acquire, Expire, Test, Alive, Snapshot, CopyIn,
         TakePut, TakeGet, BackOff
    <3>2. pc'[t] \in Underway
      <4>1. CASE Acquire(t)
        BY <1>0, <4>1 DEF Acquire, Goto, Underway, TypeOK
      <4>2. CASE Expire(t) \/ Alive(t) \/ CopyIn(t)
        BY <1>0, <4>2 DEF Expire, Alive, CopyIn, Goto, Underway, TypeOK
      <4>3. CASE TakePut(t) \/ TakeGet(t) \/ BackOff(t)
        BY <1>0, <4>3 DEF TakePut, TakeGet, BackOff, Goto, Underway, TypeOK
      <4>4. CASE Test(t) /\ pc'[t] # "give_up"
        BY <1>0, <4>4 DEF Test, Goto, Underway, TypeOK
      <4>5. CASE Snapshot(t) /\ pc'[t] # "refused"
        BY <1>0, <4>5 DEF Snapshot, Goto, Underway, TypeOK
      <4> QED BY <2>3, <4>1, <4>2, <4>3, <4>4, <4>5 DEF Quiet
    <3> QED BY <1>0, <3>1, <3>2 DEF Shape
  <2> QED BY <2>1, <2>2, <2>3
<1>3. View' = View
  BY <1>0, <1>2, ViewStep DEF View
<1> QED BY <1>1, <1>3

(* A call begins.                                                          *)
LEMMA StartStep ==
  ASSUME Inv, Shapes, Shapes', ~TimeoutFlag, NEW t \in Threads, Start(t)
  PROVE  Abstract!Call(t)
<1>0. TypeOK /\ Shape(t) /\ Shape(t)'
  BY DEF Inv, Shapes
<1>1. Contents' = Contents
  <2>1. ~RingMoves(t)
    BY DEF Start, getq, peek, putq, rewind, Enter, RingMoves, PublishHead, PublishRear, ZeroHead, ZeroRear
  <2> QED BY <2>1, ContentsStay
<1>2. View' = [View EXCEPT ![t] = CallOf(t)'] /\ pc[t] = "idle"
  BY <1>0, ViewStep DEF Start, getq, peek, putq, rewind, Enter
<1>3. CallOf(t) = Abstract!Idle
  BY <1>0, <1>2 DEF Shape
<1>4. CASE getq(t) \/ peek(t)
  <2>1. PICK k \in 1..MaxN : Enter(t, "getq", k, <<>>, "acquire")
    BY <1>4 DEF getq, peek
  <2>2. CallOf(t)' = Abstract!Calling("getq", k, <<>>)
    BY <1>0, <2>1 DEF Enter, Goto, Shape, TypeOK, Underway
  <2> QED BY <1>1, <1>2, <1>3, <2>2 DEF Abstract!Call, View
<1>5. CASE putq(t)
  <2>1. PICK xs \in Inputs : Enter(t, "putq", Len(xs), xs, "acquire")
    BY <1>5 DEF putq
  <2>2. CallOf(t)' = Abstract!Calling("putq", Len(xs), xs)
    BY <1>0, <2>1 DEF Enter, Goto, Shape, TypeOK, Underway
  <2> QED BY <1>1, <1>2, <1>3, <2>2 DEF Abstract!Call, View
<1>6. CASE rewind(t)
  <2>2. CallOf(t)' = Abstract!Calling("rewind", 0, <<>>)
    BY <1>0, <1>6 DEF rewind, Enter, Goto, Shape, TypeOK, Underway
  <2> QED BY <1>1, <1>2, <1>3, <2>2 DEF Abstract!Call, View
<1> QED BY <1>4, <1>5, <1>6 DEF Start

(* A call returns.                                                         *)
LEMMA ReturnStep ==
  ASSUME Inv, Shapes, Shapes', ~TimeoutFlag, NEW t \in Threads,
         GiveUp(t) \/ Refused(t) \/ Release(t) \/ FreeGet(t)
  PROVE  Abstract!Return(t)
<1>0. TypeOK /\ Shape(t) /\ Shape(t)' /\ Step(t)
  BY DEF Inv, Shapes, Step
<1>1. Contents' = Contents
  <2>1. ~RingMoves(t)
    BY DEF GiveUp, Refused, Release, FreeGet, RingMoves, PublishHead, PublishRear, ZeroHead, ZeroRear
  <2> QED BY <1>0, <2>1, ContentsStay
<1>2. View' = [View EXCEPT ![t] = CallOf(t)']
  BY <1>0, ViewStep
<1>3. CallOf(t).phase = "done"
  BY <1>0 DEF Shape, GiveUp, Refused, Release, FreeGet, Abstract!Done
<1>4. CallOf(t)' = Abstract!Idle
  BY <1>0 DEF Shape, GiveUp, Refused, Release, FreeGet, Leave, Goto, TypeOK
<1> QED BY <1>1, <1>2, <1>3, <1>4 DEF Abstract!Return, View

(* A call that moves nothing.                                              *)
LEMMA NothingStep ==
  ASSUME Inv, Shapes, Shapes', ~TimeoutFlag, NEW t \in Threads,
         (Test(t) /\ pc'[t] = "give_up") \/ (Snapshot(t) /\ pc'[t] = "refused")
  PROVE  Abstract!TakeNothing(t) \/ Abstract!PutNothing(t)
<1>0. /\ TypeOK /\ Shape(t) /\ Shape(t)' /\ Step(t) /\ pc[t] \in Inside /\ pc[t] \in Underway
      /\ op[t] \in {"getq", "putq"} /\ op' = op
  BY DEF Inv, FrameOK, Shapes, Step, Test, Snapshot, Inside, Underway, frame
<1>1. Contents' = Contents
  <2>1. ~RingMoves(t)
    BY DEF Test, Snapshot, RingMoves, PublishHead, PublishRear, ZeroHead, ZeroRear
  <2> QED BY <1>0, <2>1, ContentsStay
<1>2. View' = [View EXCEPT ![t] = CallOf(t)']
  BY <1>0, ViewStep
<1>3. /\ Abstract!Called(t, op[t]) /\ CallOf(t).n = n[t]
      /\ CallOf(t)' = Abstract!Done(op[t], <<>>)
  BY <1>0 DEF Shape, Abstract!Calling, Abstract!Called, View
<1>4. /\ Contents \in Seq(Element) /\ Len(Contents) = Length
      /\ Length \in 0 .. Cap - 1 /\ At(head - rear - 1) = Cap - 1 - Length
  BY <1>0, Seen, Lengths DEF Inv
<1>5. CASE Test(t)
  <2>1. NonBlock /\ Available(t) = 0
    BY <1>0, <1>5, BlockedIs DEF Test, Goto, TypeOK
  <2>2. CASE op[t] = "getq"
    <3>1. Contents = <<>>
      BY <1>4, <2>1, <2>2 DEF Available
    <3> QED BY <1>1, <1>2, <1>3, <2>1, <2>2, <3>1 DEF Abstract!TakeNothing, View
  <2>3. CASE op[t] = "putq"
    <3>1. Abstract!Room = 0
      BY <1>4, <2>1, <2>3, QueueAssumption DEF Available, Abstract!Room
    <3> QED BY <1>1, <1>2, <1>3, <2>1, <2>3, <3>1 DEF Abstract!PutNothing, View
  <2> QED BY <1>0, <2>2, <2>3
<1>6. CASE Snapshot(t)
  <2>1. op[t] = "putq" /\ Available(t) < n[t] /\ ~Partial
    BY <1>0, <1>6 DEF Snapshot, Goto, TypeOK
  <2>2. Abstract!Room < n[t]
    BY <1>4, <2>1, QueueAssumption DEF Available, Abstract!Room
  <2> QED BY <1>1, <1>2, <1>3, <2>1, <2>2 DEF Abstract!PutNothing, View
<1> QED BY <1>5, <1>6

(* After a step of a thread past a key, nobody has half emptied the queue. *)
LEMMA SeenAfter ==
  ASSUME Inv, ~TimeoutFlag, NEW t \in Threads, Step(t), pc[t] \in Inside, pc'[t] # "zero_rear"
  PROVE  Contents' = Stretch(buf', head', Length')
<1>1. \A u \in Threads \ {t} : pc'[u] = pc[u]
  BY Others DEF Inv
<1>2. ~Zeroing
  BY NotZeroing DEF Inv
<1> QED BY <1>1, <1>2, ContentsWill DEF Zeroing

(* A reader takes its batch when it publishes head.                        *)
LEMMA TakeStep ==
  ASSUME Inv, Shapes, Shapes', ~TimeoutFlag, NEW t \in Threads, PublishHead(t)
  PROVE  Abstract!Take(t)
<1> DEFINE c == cnt[t]
<1>0. /\ TypeOK /\ Shape(t) /\ Shape(t)' /\ Step(t) /\ pc[t] \in Inside /\ pc[t] \in Underway
      /\ op[t] = "getq" /\ Fits(t) /\ Copied(t)
  BY DEF Inv, BatchesOK, Shapes, Step, PublishHead, Inside, Underway
<1>1. /\ c \in 1..n[t] /\ c \in 0 .. Length /\ pos[t] = head /\ head' = At(head + c)
      /\ rear' = rear /\ buf' = buf /\ pc'[t] = "release"
  <2>1. c <= n[t] /\ 0 < c /\ c <= Length /\ pos[t] = head
    BY <1>0 DEF PublishHead, Fits, Moves, Available, Inv, FrameOK
  <2>2. c \in Nat /\ n[t] \in Nat /\ Length \in Nat
    BY <1>0, Lengths, QueueAssumption DEF TypeOK
  <2> QED BY <1>0, <2>1, <2>2 DEF PublishHead, Goto, TypeOK
<1>2. /\ buf \in [Slots -> Element] /\ head \in Slots /\ rear \in Slots /\ Length \in 0 .. Cap - 1
      /\ c \in 0 .. Cap - 1
  <2>1. /\ buf \in [Slots -> Element] /\ head \in Slots /\ rear \in Slots
        /\ Length \in 0 .. Cap - 1 /\ Cap \in Nat
    BY <1>0, Lengths, QueueAssumption DEF TypeOK, Element
  <2> QED BY <1>1, <2>1
<1>3. Length' = Length - c
  BY <1>1, <1>2, Empty DEF Length
<1>4. data[t] = Stretch(buf, head, c)
  BY <1>0, <1>1 DEF PublishHead, Copied, Stretch
<1>5. CallOf(t)' = Abstract!Done("getq", SubSeq(data[t], 1, c))
  BY <1>0, <1>1 DEF PublishHead, frame, Shape
<1>6. SubSeq(data[t], 1, c) = Stretch(buf, head, c)
  <2>1. c \in 0 .. c
    BY <1>1
  <2> QED BY <1>2, <1>4, <2>1, StretchSplit
<1>7. /\ SubSeq(Stretch(buf, head, Length), 1, c) = Stretch(buf, head, c)
      /\ SubSeq(Stretch(buf, head, Length), c + 1, Length) = Stretch(buf, At(head + c), Length - c)
  BY <1>1, <1>2, StretchSplit
<1>8. Contents = Stretch(buf, head, Length) /\ Len(Contents) = Length
  BY <1>0, Seen DEF Inv
<1>9. Contents' = Stretch(buf, At(head + c), Length - c)
  BY <1>0, <1>1, <1>3, SeenAfter
<1>10. View' = [View EXCEPT ![t] = CallOf(t)']
  BY <1>0, ViewStep
<1>11. Abstract!Called(t, "getq") /\ View[t].n = n[t]
  BY <1>0 DEF Shape, Abstract!Calling, Abstract!Called, View
<1>12. /\ c \in 1..View[t].n /\ c <= Len(Contents)
       /\ Contents' = SubSeq(Contents, c + 1, Len(Contents))
       /\ View' = [View EXCEPT ![t] = Abstract!Done("getq", SubSeq(Contents, 1, c))]
  <2>1. c \in 1..View[t].n /\ c <= Len(Contents)
    BY <1>1, <1>2, <1>8, <1>11
  <2>2. Contents' = SubSeq(Contents, c + 1, Len(Contents))
    BY <1>7, <1>8, <1>9, Zenon
  <2>3. SubSeq(Contents, 1, c) = SubSeq(data[t], 1, c)
    BY <1>6, <1>7, <1>8, Zenon
  <2> QED BY <1>5, <1>10, <2>1, <2>2, <2>3, Zenon
<1> HIDE DEF c
<1> QED BY <1>11, <1>12 DEF Abstract!Take, View

(* A writer appends its batch when it publishes rear.                      *)
LEMMA PutStep ==
  ASSUME Inv, Shapes, Shapes', ~TimeoutFlag, NEW t \in Threads, PublishRear(t)
  PROVE  Abstract!Put(t)
<1> DEFINE c == cnt[t]
           xs == SubSeq(data[t], 1, c)
<1>0. /\ TypeOK /\ Shape(t) /\ Shape(t)' /\ Step(t) /\ pc[t] \in Inside /\ pc[t] \in Underway
      /\ op[t] = "putq" /\ Fits(t) /\ Copied(t) /\ n[t] = Len(data[t])
  BY DEF Inv, BatchesOK, FrameOK, Shapes, Step, PublishRear, Inside, Underway
<1>1. /\ c \in 1..n[t] /\ c \in 0 .. At(head - rear - 1) /\ (c = n[t] \/ Partial)
      /\ pos[t] = rear /\ rear' = At(rear + c)
      /\ head' = head /\ buf' = buf /\ pc'[t] = "release"
  <2>1. c <= n[t] /\ 0 < c /\ c <= At(head - rear - 1) /\ pos[t] = rear /\ (c = n[t] \/ Partial)
    BY <1>0 DEF PublishRear, Fits, Moves, Available, Inv, FrameOK
  <2>2. c \in Nat /\ n[t] \in Nat /\ At(head - rear - 1) \in Nat
    BY <1>0, Lengths, QueueAssumption DEF TypeOK
  <2> QED BY <1>0, <2>1, <2>2 DEF PublishRear, Goto, TypeOK
<1>2. /\ buf \in [Slots -> Element] /\ head \in Slots /\ rear \in Slots /\ Length \in 0 .. Cap - 1
      /\ At(head + Length) = rear /\ At(head - rear - 1) = Cap - 1 - Length /\ Cap \in Nat
  BY <1>0, Lengths, QueueAssumption DEF TypeOK, Element
<1>3. /\ Length' = Length + c /\ Length + c \in 0 .. Cap - 1 /\ Length \in 0 .. Length + c
      /\ c \in 0 .. Cap - 1 /\ Length + c - Length = c
  <2>1. Length' = Length + c
    BY <1>1, <1>2, Fill DEF Length
  <2> QED BY <1>1, <1>2, <2>1
<1>4. xs = Stretch(buf, rear, c)
  <2>1. data[t] \in Seq(Element) /\ \A i \in 1..c : buf[At(rear + i - 1)] = data[t][i]
    BY <1>0, <1>1 DEF PublishRear, Copied, TypeOK, Element
  <2>2. xs \in Seq(Element) /\ Len(xs) = c /\ \A i \in 1..c : xs[i] = data[t][i]
    BY <1>0, <1>1, <2>1
  <2>3. /\ Stretch(buf, rear, c) \in Seq(Element) /\ Len(Stretch(buf, rear, c)) = c
        /\ \A i \in 1..c : Stretch(buf, rear, c)[i] = buf[At(rear + i - 1)]
    BY <1>2, <1>3, StretchSeq
  <2>4. Len(xs) = Len(Stretch(buf, rear, c)) /\ \A i \in 1..Len(xs) : xs[i] = Stretch(buf, rear, c)[i]
    BY <2>1, <2>2, <2>3
  <2> QED BY <2>2, <2>3, <2>4, SeqEqual, Zenon
<1>5. CallOf(t)' = Abstract!Done("putq", xs)
  BY <1>0, <1>1 DEF PublishRear, frame, Shape
<1>6. Stretch(buf, head, Length + c) = Stretch(buf, head, Length) \o Stretch(buf, rear, c)
  <2> DEFINE l == Length + c
  <2>1. l \in 0 .. Cap - 1 /\ Length \in 0 .. l /\ l - Length = c
    BY <1>2, <1>3
  <2> HIDE DEF l
  <2>2. Stretch(buf, head, l) = Stretch(buf, head, Length) \o Stretch(buf, At(head + Length), l - Length)
    BY <1>2, <2>1, StretchSplit, Zenon
  <2> QED BY <1>2, <2>1, <2>2, Zenon DEF l
<1>7. Contents = Stretch(buf, head, Length) /\ Len(Contents) = Length
  BY <1>0, Seen DEF Inv
<1>8. Contents' = Stretch(buf, head, Length + c)
  BY <1>0, <1>1, <1>3, SeenAfter
<1>9. View' = [View EXCEPT ![t] = CallOf(t)']
  BY <1>0, ViewStep
<1>10. Abstract!Called(t, "putq") /\ View[t].n = n[t] /\ View[t].data = data[t]
  BY <1>0 DEF Shape, Abstract!Calling, Abstract!Called, View
<1>11. /\ c \in 1..View[t].n /\ c <= Abstract!Room /\ (c = View[t].n \/ Partial)
       /\ Contents' = Contents \o SubSeq(View[t].data, 1, c)
       /\ View' = [View EXCEPT ![t] = Abstract!Done("putq", SubSeq(View[t].data, 1, c))]
  <2>1. c <= Abstract!Room
    BY <1>1, <1>2, <1>7 DEF Abstract!Room
  <2> QED BY <1>1, <1>4, <1>5, <1>6, <1>7, <1>8, <1>9, <1>10, <2>1
<1> HIDE DEF c, xs
<1> QED BY <1>10, <1>11 DEF Abstract!Put, View

(* rewind() empties the queue when it resets head; what it does to rear    *)
(* then is not seen.                                                       *)
LEMMA RewindStep ==
  ASSUME Inv, Shapes, Shapes', ~TimeoutFlag, NEW t \in Threads, ZeroHead(t)
  PROVE  Abstract!Rewind(t)
<1>0. TypeOK /\ Shape(t) /\ Shape(t)' /\ Step(t) /\ Args(t) /\ pc'[t] = "zero_rear" /\ op' = op
  BY DEF Inv, BatchesOK, Shapes, Step, ZeroHead, Goto, TypeOK, frame
<1>1. op[t] = "rewind"
  BY <1>0 DEF Args, Rewinding, ZeroHead
<1>2. Contents' = <<>>
  BY <1>0, ContentsWill DEF Zeroing
<1>3. Abstract!Called(t, "rewind")
  BY <1>0, <1>1 DEF Shape, Underway, ZeroHead, Abstract!Calling, Abstract!Called
<1>4. View' = [View EXCEPT ![t] = Abstract!Done("rewind", <<>>)]
  BY <1>0, <1>1, ViewStep DEF Shape
<1> QED BY <1>2, <1>3, <1>4 DEF Abstract!Rewind, View

(* No element at all.                                                      *)
LEMMA NoStretch == ASSUME NEW b, NEW h PROVE Stretch(b, h, 0) = <<>>
BY DEF Stretch

(* The second half of rewind() is not seen.                                *)
LEMMA SecondHalf ==
  ASSUME Inv, Shapes, Shapes', ~TimeoutFlag, NEW t \in Threads, ZeroRear(t)
  PROVE  UNCHANGED <<Contents, View>>
<1>0. /\ TypeOK /\ MutualExclusion /\ Shape(t) /\ Shape(t)' /\ Step(t) /\ pc'[t] = "free_put"
      /\ op' = op /\ head = 0 /\ head' = 0 /\ rear' = 0 /\ pc[t] = "zero_rear"
  BY DEF Inv, BatchesOK, Zeroed, Shapes, Step, ZeroRear, Goto, TypeOK, frame
<1>1. Contents = <<>>
  BY <1>0, ContentsIs DEF Zeroing
<1>2. ~Zeroing'
  <2> SUFFICES ASSUME NEW u \in Threads, pc'[u] = "zero_rear" PROVE FALSE
    BY DEF Zeroing
  <2>1. u # t /\ pc[u] = "zero_rear"
    BY <1>0, Others
  <2>2. Holds(u, "put") /\ Holds(t, "put")
    BY <1>0, <2>1 DEF Holds
  <2> QED BY <1>0, <2>1, <2>2 DEF MutualExclusion
<1>3. Length' = 0
  BY <1>0, QueueAssumption DEF Length, At
<1>4. Contents' = <<>>
  BY <1>2, <1>3, ContentsWill, NoStretch
<1>5. CallOf(t)' = CallOf(t)
  BY <1>0 DEF Shape
<1>6. View' = View
  BY <1>0, <1>5, ViewStep DEF View
<1> QED BY <1>1, <1>4, <1>6

(* Every step is a step of BoundedQueue, or none.                          *)
LEMMA StepImplements ==
  ASSUME Inv, Shapes, Shapes', ~TimeoutFlag, NEW t \in Threads, Start(t) \/ Step(t)
  PROVE  Abstract!Next \/ UNCHANGED <<Contents, View>>
<1>1. CASE Start(t)
  BY <1>1, StartStep DEF Abstract!Next
<1>2. CASE GiveUp(t) \/ Refused(t) \/ Release(t) \/ FreeGet(t)
  BY <1>2, ReturnStep DEF Abstract!Next
<1>3. CASE (Test(t) /\ pc'[t] = "give_up") \/ (Snapshot(t) /\ pc'[t] = "refused")
  <2>1. Abstract!TakeNothing(t) \/ Abstract!PutNothing(t)
    BY <1>3, NothingStep
  <2> QED BY <2>1 DEF Abstract!Next
<1>4. CASE PublishHead(t)
  BY <1>4, TakeStep DEF Abstract!Next
<1>5. CASE PublishRear(t)
  BY <1>5, PutStep DEF Abstract!Next
<1>6. CASE ZeroHead(t)
  BY <1>6, RewindStep DEF Abstract!Next
<1>7. CASE ZeroRear(t)
  BY <1>7, SecondHalf
<1>8. CASE Quiet(t)
  BY <1>8, QuietStep
<1>9. CASE Step(t)
  <2>1. \/ GiveUp(t) \/ Refused(t) \/ Release(t) \/ FreeGet(t)
        \/ (Test(t) /\ pc'[t] = "give_up") \/ (Snapshot(t) /\ pc'[t] = "refused")
        \/ PublishHead(t) \/ PublishRear(t) \/ ZeroHead(t) \/ ZeroRear(t) \/ Quiet(t)
    BY <1>9, Zenon DEF Step, Quiet
  <2> QED BY <2>1, <1>2, <1>3, <1>4, <1>5, <1>6, <1>7, <1>8
<1> QED BY <1>1, <1>9

(* Every call of getq, putq and rewind takes effect at one instant on a    *)
(* FIFO queue of Cap - 1 elements, whatever the threads, the batches and   *)
(* the other flags.                                                        *)
THEOREM Implements ==
  ASSUME ~TimeoutFlag, Mortal = {}
  PROVE  Spec => IsBoundedQueue
<1>1. Init => Abstract!Init
  <2> SUFFICES ASSUME Init PROVE Abstract!Init
    OBVIOUS
  <2>1. Length = 0 /\ ~Zeroing
    BY QueueAssumption DEF Init, Length, At, Zeroing
  <2>2. Contents = <<>>
    BY <2>1, ContentsIs, NoStretch
  <2>3. \A t \in Threads : CallOf(t) = Abstract!Idle
    BY DEF Init, CallOf, Abstract!Idle
  <2> QED BY <2>2, <2>3 DEF Abstract!Init
<1>2. Inv /\ Shapes /\ Shapes' /\ [Next]_vars => [Abstract!Next]_Abstract!absvars
  <2> SUFFICES ASSUME Inv, Shapes, Shapes', [Next]_vars
               PROVE  [Abstract!Next]_Abstract!absvars
    OBVIOUS
  <2>1. CASE UNCHANGED vars
    <3>1. Contents' = Contents
      BY <2>1 DEF vars, Contents, Length
    <3>2. \A t \in Threads : CallOf(t)' = CallOf(t)
      BY <2>1 DEF vars, CallOf
    <3> QED BY <3>1, <3>2 DEF Abstract!absvars
  <2>2. CASE Next
    <3>1. PICK t \in Threads : Start(t) \/ Step(t)
      BY <2>2 DEF Next, Die
    <3>2. Abstract!Next \/ UNCHANGED <<Contents, View>>
      BY <3>1, StepImplements
    <3> QED BY <3>2 DEF Abstract!absvars, View
  <2> QED BY <2>1, <2>2
<1>3. Inv => Shapes
  BY ShapesHold
<1> QED BY <1>1, <1>2, <1>3, BatchesCorrect, PTL DEF Spec, IsBoundedQueue, Abstract!Spec

------------------------------------------------------------------------------
(* ThreadManager.                                                          *)

USE ManagerAssumption

Working == {"entry", "run", "end"}
Places  == {"none", "created", "top", "waiting", "notified", "park", "leave"} \cup Working

ManagerTypeOK ==
  /\ nthread \in Int
  /\ ipc \in [Impls -> Places]
  /\ ptr \in [Impls -> Jobs \cup {None}]
  /\ link \in [Impls -> {"none", "free", "work"}]
  /\ alive \in [Jobs -> Nat]

(* A thread that works on a job is attached to it, and one that has left   *)
(* it, or does not exist, is attached to none.                             *)
Attachment ==
  \A i \in Impls : /\ ipc[i] \in {"none", "park", "leave"} => ptr[i] = None
                   /\ ipc[i] \in Working => ptr[i] # None

ManagerInv == ManagerTypeOK /\ FreeIsIdle /\ Attachment

(* m_nAlive never counts too few: the first half of AliveCount.            *)
AtLeast == \A j \in Jobs : alive[j] >= Cardinality(Running(j))

LEMMA RunningFinite ==
  ASSUME NEW j PROVE IsFiniteSet(Running(j)) /\ Cardinality(Running(j)) \in Nat
<1>1. Running(j) \in SUBSET Impls
  BY DEF Running
<1> QED BY <1>1, FS_Subset, FS_CardinalityType

------------------------------------------------------------------------------
(* Where the threads are.                                                  *)

LEMMA ThreadInv ==
  ASSUME ManagerInv, NEW i \in Impls, OSThread(i), ~End(i) PROVE ManagerInv'
<1> USE DEF ManagerInv, ManagerTypeOK, FreeIsIdle, Attachment, Linked, ThreadsAt, GotoI, Places, Working,
            manager, impls, jobs, callers
<1>1. CASE svc_enter(i)
  BY <1>1 DEF svc_enter
<1>2. CASE enter_disabled(i)
  BY <1>2 DEF enter_disabled
<1>3. CASE Idle(i)
  BY <1>3 DEF Idle
<1>4. CASE Attach(i)
  BY <1>4 DEF Attach
<1>5. CASE Begin(i)
  BY <1>5 DEF Begin
<1>6. CASE Return(i)
  BY <1>6 DEF Return
<1>7. CASE Park(i)
  BY <1>7 DEF Park
<1>8. CASE svc_leave(i)
  BY <1>8 DEF svc_leave
<1> QED BY <1>1, <1>2, <1>3, <1>4, <1>5, <1>6, <1>7, <1>8 DEF OSThread

(* The last thread of a job leaves it.                                     *)
LEMMA EndInv ==
  ASSUME ManagerInv, AtLeast, NEW i \in Impls, End(i)
  PROVE  /\ ManagerInv'
         /\ ptr[i] \in Jobs /\ alive' = [alive EXCEPT ![ptr[i]] = @ - 1]
         /\ ptr' = [ptr EXCEPT ![i] = None]
<1>1. ptr[i] \in Jobs /\ i \in Running(ptr[i])
  BY DEF End, ManagerInv, ManagerTypeOK, Attachment, Working, Running
<1>2. Cardinality(Running(ptr[i])) # 0
  BY <1>1, RunningFinite, FS_EmptySet
<1>3. alive[ptr[i]] \in Nat /\ alive[ptr[i]] > 0
  BY <1>1, <1>2, RunningFinite DEF AtLeast, ManagerInv, ManagerTypeOK
<1>4. alive' \in [Jobs -> Nat]
  BY <1>1, <1>3 DEF End, ManagerInv, ManagerTypeOK
<1>5. ManagerTypeOK'
  BY <1>4 DEF End, ManagerInv, ManagerTypeOK, GotoI, manager, Places, Working
<1>6. FreeIsIdle' /\ Attachment'
  BY DEF End, ManagerInv, ManagerTypeOK, FreeIsIdle, Attachment, Linked, ThreadsAt, GotoI, manager, Places, Working
<1> QED BY <1>1, <1>5, <1>6 DEF ManagerInv, End

(* A new batch S of threads for job j, C of them new.                      *)
LEMMA ActivateInv ==
  ASSUME ManagerInv, NEW j \in Jobs, activate(j) \/ activate_fails(j) PROVE ManagerInv'
<1>1. CASE activate(j)
  <2>1. PICK C \in SUBSET Impls, S \in SUBSET Impls :
          /\ C \subseteq ThreadsAt("none")
          /\ S \subseteq Linked("free") \cup C
          /\ ptr' = [i \in Impls |-> IF i \in S THEN j ELSE ptr[i]]
          /\ link' = [i \in Impls |-> IF i \in S THEN "work" ELSE link[i]]
          /\ ipc' = [i \in Impls |-> IF i \in C THEN "created" ELSE Attached(i)]
          /\ AddAlive(j, S)
    BY <1>1 DEF activate, Created
  <2>2. IsFiniteSet(S) /\ Cardinality(S) \in Nat
    BY FS_Subset, FS_CardinalityType
  <2>3. alive' \in [Jobs -> Nat]
    BY <2>1, <2>2 DEF AddAlive, ManagerInv, ManagerTypeOK
  <2>4. ManagerTypeOK'
    BY <1>1, <2>1, <2>3 DEF activate, manager, ManagerInv, ManagerTypeOK, Attached, Places, Working
  <2>5. FreeIsIdle'
    BY <2>1 DEF ManagerInv, ManagerTypeOK, FreeIsIdle, Linked, ThreadsAt, Attached, Places, Working
  <2>6. Attachment'
    BY <2>1 DEF ManagerInv, ManagerTypeOK, FreeIsIdle, Attachment, Linked, ThreadsAt, Attached, Places, Working
  <2> QED BY <2>4, <2>5, <2>6 DEF ManagerInv
<1>2. CASE activate_fails(j)
  BY <1>2 DEF activate_fails, ManagerInv, ManagerTypeOK, FreeIsIdle, Attachment, Linked, ThreadsAt, Places, Working,
              manager, jobs, callers
<1> QED BY <1>1, <1>2

(* The callers change where no thread is but those that wait.              *)
LEMMA CallerQuiet ==
  ASSUME NEW c \in Callers,
         Caller(c) \/ close(c) \/ ReadFlags(c) \/ \E j \in Jobs : PauseRead(c, j) \/ wait(c, j)
  PROVE  /\ UNCHANGED <<nthread, ptr, link, alive>>
         /\ ipc' = ipc \/ ipc' = [i \in Impls |-> Attached(i)]
  BY DEF Caller, PauseWrite, WaitAgain, Disable, RestoreFlags, close, ReadFlags, PauseRead, wait,
         manager, impls, jobs

LEMMA JobQuiet ==
  ASSUME NEW j \in Jobs, cancel(j) \/ resume(j)
  PROVE  UNCHANGED <<nthread, ptr, link, alive, ipc>>
  BY DEF cancel, resume, manager, impls

(* The steps of which the counts have nothing to see.                      *)
QuietManager ==
  \/ \E c \in Callers :
       Caller(c) \/ close(c) \/ ReadFlags(c) \/ \E j \in Jobs : PauseRead(c, j) \/ wait(c, j)
  \/ \E j \in Jobs : cancel(j) \/ resume(j)
  \/ UNCHANGED managerVars

LEMMA QuietManagerStep ==
  ASSUME QuietManager
  PROVE  /\ UNCHANGED <<nthread, ptr, link, alive>>
         /\ ipc' = ipc \/ ipc' = [i \in Impls |-> Attached(i)]
<1>1. CASE UNCHANGED managerVars
  BY <1>1 DEF managerVars
<1> QED BY <1>1, CallerQuiet, JobQuiet DEF QuietManager

LEMMA QuietInv == ASSUME ManagerInv, QuietManager PROVE ManagerInv'
<1>1. CASE ipc' = ipc
  BY <1>1, QuietManagerStep DEF ManagerInv, ManagerTypeOK, FreeIsIdle, Attachment, Linked, ThreadsAt
<1>2. CASE ipc' = [i \in Impls |-> Attached(i)]
  BY <1>2, QuietManagerStep DEF ManagerInv, ManagerTypeOK, FreeIsIdle, Attachment, Linked, ThreadsAt, Attached, Places, Working
<1> QED BY <1>1, <1>2, QuietManagerStep

LEMMA SpuriousInv == ASSUME ManagerInv, NEW i \in Impls, SpuriousWake(i) PROVE ManagerInv'
  BY DEF ManagerInv, ManagerTypeOK, FreeIsIdle, Attachment, Linked, ThreadsAt, Places, Working, SpuriousWake, GotoI,
         manager, jobs

(* The steps, by what they do to the counts.                               *)
LEMMA Steps ==
  ASSUME [ManagerNext]_managerVars
  PROVE  \/ \E i \in Impls : OSThread(i) \/ SpuriousWake(i)
         \/ \E j \in Jobs : activate(j) \/ activate_fails(j)
         \/ QuietManager
  BY DEF ManagerNext, QuietManager

LEMMA ManagerStepInv == ASSUME ManagerInv, AtLeast, [ManagerNext]_managerVars PROVE ManagerInv'
  BY Steps, ThreadInv, EndInv, ActivateInv, QuietInv, SpuriousInv

------------------------------------------------------------------------------
(* m_nAlive.                                                               *)

(* What m_nAlive counts too much changes only when a thread that was       *)
(* attached does not enter, because the manager is disabled.               *)
Exact(j) ==
  \/ alive'[j] - Cardinality(Running(j)') = alive[j] - Cardinality(Running(j))
  \/ disabled /\ alive'[j] = alive[j] /\ Running(j)' \subseteq Running(j)

LEMMA EndExact ==
  ASSUME ManagerInv, AtLeast, NEW i \in Impls, End(i), NEW j \in Jobs PROVE Exact(j)
<1>1. CASE j = ptr[i]
  <2>1. i \in Running(j) /\ Running(j)' = Running(j) \ {i}
    BY <1>1, EndInv DEF Running, ManagerInv, ManagerTypeOK
  <2>2. Cardinality(Running(j)') = Cardinality(Running(j)) - 1
    BY <2>1, RunningFinite, FS_RemoveElement
  <2>3. alive'[j] = alive[j] - 1 /\ alive[j] \in Nat
    BY <1>1, EndInv DEF ManagerInv, ManagerTypeOK
  <2> QED BY <2>2, <2>3, RunningFinite DEF Exact
<1>2. CASE j # ptr[i]
  <2>1. Running(j)' = Running(j) /\ alive'[j] = alive[j]
    BY <1>2, EndInv DEF Running, ManagerInv, ManagerTypeOK
  <2> QED BY <2>1 DEF Exact
<1> QED BY <1>1, <1>2

LEMMA ActivateExact ==
  ASSUME ManagerInv, NEW k \in Jobs, activate(k), NEW j \in Jobs PROVE Exact(j)
<1>1. PICK C \in SUBSET Impls, S \in SUBSET Impls :
        /\ C \subseteq ThreadsAt("none")
        /\ S \subseteq Linked("free") \cup C
        /\ ptr' = [i \in Impls |-> IF i \in S THEN k ELSE ptr[i]]
        /\ alive' = [alive EXCEPT ![k] = @ + Cardinality(S)]
  BY DEF activate, Created, AddAlive
<1>2. \A i \in S : ptr[i] = None
  BY <1>1 DEF ManagerInv, FreeIsIdle, Attachment, Linked, ThreadsAt
<1>3. IsFiniteSet(S) /\ Cardinality(S) \in Nat
  BY FS_Subset, FS_CardinalityType
<1>4. CASE j = k
  <2>1. Running(j)' = Running(j) \cup S /\ Running(j) \cap S = {}
    BY <1>1, <1>2, <1>4 DEF Running, ManagerInv, ManagerTypeOK
  <2>2. Cardinality(Running(j)') = Cardinality(Running(j)) + Cardinality(S)
    <3>1. Cardinality(Running(j) \cup S)
            = Cardinality(Running(j)) + Cardinality(S) - Cardinality(Running(j) \cap S)
      BY <1>3, RunningFinite, FS_Union
    <3>2. Cardinality(Running(j) \cap S) = 0
      BY <2>1, FS_EmptySet
    <3>3. Cardinality(Running(j)) \in Nat
      BY RunningFinite
    <3> QED BY <1>3, <2>1, <3>1, <3>2, <3>3
  <2>3. alive'[j] = alive[j] + Cardinality(S) /\ alive[j] \in Nat
    BY <1>1, <1>4 DEF ManagerInv, ManagerTypeOK
  <2> QED BY <1>3, <2>2, <2>3, RunningFinite DEF Exact
<1>5. CASE j # k
  <2>1. Running(j)' = Running(j) /\ alive'[j] = alive[j]
    BY <1>1, <1>2, <1>5 DEF Running, ManagerInv, ManagerTypeOK
  <2> QED BY <2>1 DEF Exact
<1> QED BY <1>4, <1>5

LEMMA AliveStep == ASSUME ManagerInv, AtLeast, [ManagerNext]_managerVars, NEW j \in Jobs PROVE Exact(j)
<1>1. ASSUME UNCHANGED <<ptr, alive>> PROVE Exact(j)
  BY <1>1 DEF Exact, Running
<1>2. ASSUME NEW i \in Impls, OSThread(i) PROVE Exact(j)
  <2>1. CASE enter_disabled(i)
    <3>1. Running(j)' \subseteq Running(j)
      BY <2>1 DEF enter_disabled, Running, ManagerInv, ManagerTypeOK
    <3> QED BY <2>1, <3>1 DEF enter_disabled, Exact, jobs
  <2>2. CASE End(i)
    BY <2>2, EndExact
  <2>3. CASE ~enter_disabled(i) /\ ~End(i)
    BY <1>1, <1>2, <2>3 DEF OSThread, svc_enter, Idle, Attach, Begin, Return, Park, svc_leave, jobs, impls
  <2> QED BY <2>1, <2>2, <2>3
<1>3. ASSUME NEW i \in Impls, SpuriousWake(i) PROVE Exact(j)
  BY <1>1, <1>3 DEF SpuriousWake, jobs
<1>4. ASSUME NEW k \in Jobs, activate(k) \/ activate_fails(k) PROVE Exact(j)
  BY <1>1, <1>4, ActivateExact DEF activate_fails, jobs
<1> QED BY <1>1, <1>2, <1>3, <1>4, Steps, QuietManagerStep

(* So AliveCount holds of the step.                                        *)
LEMMA AliveKept ==
  ASSUME ManagerInv, AtLeast, [ManagerNext]_managerVars
  PROVE  \A j \in Jobs : /\ alive'[j] >= Cardinality(Running(j)')
                         /\ ~disabled /\ ~Deserted(j) => ~Deserted(j)'
<1> SUFFICES ASSUME NEW j \in Jobs
             PROVE  /\ alive'[j] >= Cardinality(Running(j)')
                    /\ ~disabled /\ ~Deserted(j) => ~Deserted(j)'
  OBVIOUS
<1>1. ManagerInv' /\ alive[j] \in Nat /\ alive'[j] \in Nat /\ alive[j] >= Cardinality(Running(j))
  BY ManagerStepInv DEF ManagerInv, ManagerTypeOK, AtLeast
<1>2. Cardinality(Running(j)) \in Nat /\ Cardinality(Running(j)') \in Nat
  <2>1. Running(j)' \in SUBSET Impls
    BY DEF Running
  <2> QED BY <2>1, RunningFinite, FS_Subset, FS_CardinalityType
<1>3. Running(j)' \subseteq Running(j) => Cardinality(Running(j)') <= Cardinality(Running(j))
  BY RunningFinite, FS_Subset
<1> QED BY <1>1, <1>2, <1>3, AliveStep DEF Exact, Deserted

------------------------------------------------------------------------------
(* m_nThreadNum.                                                           *)

Entered == Impls \ (ThreadsAt("none") \cup ThreadsAt("created"))

LEMMA EnteredFinite == IsFiniteSet(Entered) /\ Cardinality(Entered) \in Nat
<1>1. Entered \in SUBSET Impls
  BY DEF Entered
<1> QED BY <1>1, FS_Subset, FS_CardinalityType

LEMMA ThreadNumStep == ASSUME ManagerInv, ThreadNumCount, [ManagerNext]_managerVars PROVE ThreadNumCount'
<1>0. nthread = Cardinality(Entered) /\ (ThreadNumCount' <=> nthread' = Cardinality(Entered'))
  BY DEF ThreadNumCount, Entered
<1>1. ASSUME Entered' = Entered, nthread' = nthread PROVE ThreadNumCount'
  BY <1>0, <1>1
<1>2. ASSUME NEW i \in Impls, OSThread(i) PROVE ThreadNumCount'
  <2>1. CASE svc_enter(i)
    <3>1. i \notin Entered /\ Entered' = Entered \cup {i}
      BY <2>1 DEF svc_enter, Entered, ThreadsAt, GotoI, ManagerInv, ManagerTypeOK
    <3> QED BY <1>0, <2>1, <3>1, EnteredFinite, FS_AddElement DEF svc_enter
  <2>2. CASE svc_leave(i)
    <3>1. i \in Entered /\ Entered' = Entered \ {i}
      BY <2>2 DEF svc_leave, Entered, ThreadsAt, GotoI, ManagerInv, ManagerTypeOK
    <3> QED BY <1>0, <2>2, <3>1, EnteredFinite, FS_RemoveElement DEF svc_leave
  <2>3. CASE enter_disabled(i)
    <3>1. Entered' = Entered
      BY <2>3 DEF enter_disabled, Entered, ThreadsAt, GotoI, ManagerInv, ManagerTypeOK
    <3> QED BY <1>1, <2>3, <3>1 DEF enter_disabled, manager
  <2>4. CASE Idle(i) \/ Attach(i) \/ Begin(i) \/ Return(i) \/ Park(i) \/ End(i)
    <3>1. ipc[i] \notin {"none", "created"} /\ nthread' = nthread
      BY <2>4 DEF Idle, Attach, Begin, Return, Park, End, manager
    <3>2. \E l \in {"leave", "waiting", "entry", "run", "end", "park", "top"} :
            ipc' = [ipc EXCEPT ![i] = l]
      BY <2>4 DEF Idle, Attach, Begin, Return, Park, End, GotoI
    <3>3. Entered' = Entered
      BY <3>1, <3>2 DEF Entered, ThreadsAt, ManagerInv, ManagerTypeOK
    <3> QED BY <1>1, <3>1, <3>3
  <2> QED BY <1>2, <2>1, <2>2, <2>3, <2>4 DEF OSThread
<1>3. ASSUME NEW i \in Impls, SpuriousWake(i) PROVE ThreadNumCount'
  <2>1. Entered' = Entered
    BY <1>3 DEF SpuriousWake, Entered, ThreadsAt, GotoI, ManagerInv, ManagerTypeOK
  <2> QED BY <1>1, <1>3, <2>1 DEF SpuriousWake, manager
<1>4. ASSUME NEW j \in Jobs, activate(j) \/ activate_fails(j) PROVE ThreadNumCount'
  <2>1. CASE activate(j)
    <3>1. PICK C \in SUBSET ThreadsAt("none") :
            ipc' = [i \in Impls |-> IF i \in C THEN "created" ELSE Attached(i)]
      BY <2>1 DEF activate, Created
    <3>2. Entered' = Entered
      BY <3>1 DEF Entered, ThreadsAt, Attached, ManagerInv, ManagerTypeOK
    <3> QED BY <1>1, <2>1, <3>2 DEF activate, manager
  <2>2. CASE activate_fails(j)
    <3>1. Entered' = Entered
      BY <2>2 DEF activate_fails, Entered, ThreadsAt, ManagerInv, ManagerTypeOK
    <3> QED BY <1>1, <2>2, <3>1 DEF activate_fails, manager
  <2> QED BY <1>4, <2>1, <2>2
<1>5. ASSUME QuietManager PROVE ThreadNumCount'
  <2>1. Entered' = Entered
    BY <1>5, QuietManagerStep DEF Entered, ThreadsAt, Attached, ManagerInv, ManagerTypeOK
  <2> QED BY <1>1, <1>5, <2>1, QuietManagerStep
<1> QED BY <1>2, <1>3, <1>4, <1>5, Steps

------------------------------------------------------------------------------
LEMMA Initially == ManagerInit => ManagerInv /\ AtLeast /\ ThreadNumCount
<1> SUFFICES ASSUME ManagerInit PROVE ManagerInv /\ AtLeast /\ ThreadNumCount
  OBVIOUS
<1>1. ManagerInv
  BY DEF ManagerInit, ManagerInv, ManagerTypeOK, FreeIsIdle, Attachment, Linked, ThreadsAt, Places, Working
<1>2. AtLeast
  <2>1. \A j \in Jobs : Running(j) = {} /\ alive[j] = 0
    BY DEF ManagerInit, Running
  <2> QED BY <2>1, FS_EmptySet DEF AtLeast
<1>3. ThreadNumCount
  <2>1. Impls \ (ThreadsAt("none") \cup ThreadsAt("created")) = {} /\ nthread = 0
    BY DEF ManagerInit, ThreadsAt
  <2> QED BY <2>1, FS_EmptySet DEF ThreadNumCount
<1> QED BY <1>1, <1>2, <1>3

(* The inductive invariant: where the OS threads are, what they are        *)
(* attached to, and that m_nAlive and m_nThreadNum miss none of them       *)
(* (thread_manager.cpp:62-88, 159-295).                                    *)
THEOREM ManagerCorrect == ManagerSpec => [](ManagerInv /\ AtLeast /\ ThreadNumCount)
<1>1. ManagerInv /\ AtLeast /\ ThreadNumCount /\ [ManagerNext]_managerVars => (ManagerInv /\ AtLeast /\ ThreadNumCount)'
  <2> SUFFICES ASSUME ManagerInv, AtLeast, ThreadNumCount, [ManagerNext]_managerVars
               PROVE  ManagerInv' /\ AtLeast' /\ ThreadNumCount'
    OBVIOUS
  <2>1. AtLeast'
    BY AliveKept DEF AtLeast
  <2> QED BY <2>1, ManagerStepInv, ThreadNumStep
<1> QED BY <1>1, Initially, PTL DEF ManagerSpec

(* A thread that activate may take from list_free is attached to no job    *)
(* and will look at thrd_ptr (thread_manager.cpp:221-232, 263-284).        *)
THEOREM FreeThreads == ManagerSpec => []FreeIsIdle
  BY ManagerCorrect, PTL DEF ManagerInv

(* m_nThreadNum is exact (thread_manager.cpp:77-88).                       *)
THEOREM CountsThreads == ManagerSpec => []ThreadNumCount
  BY ManagerCorrect, PTL

(* m_nAlive never counts too few, and too many only once the manager is    *)
(* disabled (thread_manager.cpp:166-175, 265-272).                         *)
THEOREM CountsAlive == ManagerSpec => AliveCount
<1>1. ManagerInv /\ AtLeast /\ [ManagerNext]_managerVars
      => [\A j \in Jobs : /\ alive'[j] >= Cardinality(Running(j)')
                          /\ ~disabled /\ ~Deserted(j) => ~Deserted(j)']_managerVars
  BY AliveKept
<1> QED BY <1>1, ManagerCorrect, PTL DEF ManagerSpec, AliveCount
==============================================================================
