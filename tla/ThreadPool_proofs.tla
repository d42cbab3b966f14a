-------------------------- MODULE ThreadPool_proofs --------------------------
(***************************************************************************)
(* For any tasks, workers and limits: the counters of the pool agree with  *)
(* its threads, and in a pool that nobody has paused, canceled or closed   *)
(* no task waits in the queue for a worker that sleeps on.                 *)
(***************************************************************************)
EXTENDS ThreadPool, FiniteSetTheorems, TLAPS

USE PoolAssumption DEF flags

Places == {"none", "enter", "lost", "getq", "asleep", "woken", "paused", "run", "retire"}

TypeOK ==
  /\ queue \in Seq(Tasks)
  /\ status \in [Tasks -> {"new", "queued", "running", "dropped", "done", "thrown"}]
  /\ num \in Int /\ wait \in Int /\ alive \in Int
  /\ wpc \in [Workers -> Places]
  /\ job \in [Workers -> SUBSET Tasks]

(* A task is in the queue once, or with one worker, as its status says.    *)
TasksOK ==
  /\ \A k \in 1 .. Len(queue) : status[queue[k]] = "queued"
  /\ \A k, l \in 1 .. Len(queue) : queue[k] = queue[l] => k = l
  /\ \A w \in Workers, t \in Tasks : t \in job[w] => status[t] = "running"
  /\ \A v, w \in Workers, t \in Tasks : t \in job[v] /\ t \in job[w] => v = w

Inv == TypeOK /\ TasksOK

------------------------------------------------------------------------------
(* Tasks.                                                                  *)

LEMMA PutTasks ==
  ASSUME Inv, NEW t \in Tasks, status[t] = "new", queue' = Append(queue, t),
         status' = [status EXCEPT ![t] = "queued"], job' = job
  PROVE  TasksOK' /\ queue' \in Seq(Tasks)
<1>1. /\ queue' \in Seq(Tasks) /\ Len(queue') = Len(queue) + 1
      /\ \A k \in 1 .. Len(queue') : queue'[k] = IF k = Len(queue) + 1 THEN t ELSE queue[k]
  BY DEF Inv, TypeOK
<1>2. /\ Len(queue) \in Nat
      /\ \A k \in 1 .. Len(queue) : queue[k] \in Tasks /\ queue[k] # t /\ status[queue[k]] = "queued"
  BY DEF Inv, TypeOK, TasksOK
<1>3. \A k \in 1 .. Len(queue') : k = Len(queue) + 1 \/ k \in 1 .. Len(queue)
  BY <1>1, <1>2
<1>4. /\ \A k \in 1 .. Len(queue') : status'[queue'[k]] = "queued"
      /\ \A k, l \in 1 .. Len(queue') : queue'[k] = queue'[l] => k = l
  BY <1>1, <1>2, <1>3 DEF Inv, TypeOK, TasksOK
<1>5. /\ \A w \in Workers, u \in Tasks : u \in job'[w] => status'[u] = "running"
      /\ \A v, w \in Workers, u \in Tasks : u \in job'[v] /\ u \in job'[w] => v = w
  BY DEF Inv, TypeOK, TasksOK
<1> QED BY <1>1, <1>4, <1>5 DEF TasksOK

LEMMA PopTasks ==
  ASSUME Inv, NEW w \in Workers, queue # <<>>, queue' = Tail(queue),
         status' = [status EXCEPT ![Head(queue)] = "running"],
         job' = [job EXCEPT ![w] = {Head(queue)}]
  PROVE  /\ TasksOK' /\ queue' \in Seq(Tasks) /\ Len(queue') = Len(queue) - 1
         /\ Head(queue) \in Tasks /\ status[Head(queue)] = "queued"
<1> DEFINE h == Head(queue)
<1>1. /\ queue' \in Seq(Tasks) /\ Len(queue) \in Nat \ {0} /\ Len(queue') = Len(queue) - 1
      /\ h = queue[1] /\ \A k \in 1 .. Len(queue') : queue'[k] = queue[k + 1]
  BY DEF Inv, TypeOK
<1>2. h \in Tasks /\ status[h] = "queued"
  BY <1>1 DEF Inv, TypeOK, TasksOK
<1>3. \A k \in 1 .. Len(queue') : /\ k + 1 \in 1 .. Len(queue) /\ queue[k + 1] # h
                                  /\ queue[k + 1] \in Tasks
  BY <1>1 DEF Inv, TypeOK, TasksOK
<1>4. /\ \A k \in 1 .. Len(queue') : status'[queue'[k]] = "queued"
      /\ \A k, l \in 1 .. Len(queue') : queue'[k] = queue'[l] => k = l
  BY <1>1, <1>2, <1>3 DEF Inv, TypeOK, TasksOK
<1>5. \A v \in Workers, t \in Tasks : t \in job'[v] <=> IF v = w THEN t = h ELSE t \in job[v]
  BY <1>2 DEF Inv, TypeOK
<1>6. \A t \in Tasks : status'[t] = IF t = h THEN "running" ELSE status[t]
  BY <1>2 DEF Inv, TypeOK
<1>7. /\ \A v \in Workers, t \in Tasks : t \in job'[v] => status'[t] = "running"
      /\ \A u, v \in Workers, t \in Tasks : t \in job'[u] /\ t \in job'[v] => u = v
  BY <1>2, <1>5, <1>6 DEF Inv, TasksOK
<1> QED BY <1>1, <1>2, <1>4, <1>7 DEF TasksOK

(* A worker is done with its task, in one way or the other.                *)
LEMMA EndTasks ==
  ASSUME Inv, NEW w \in Workers, NEW t \in job[w], NEW how \in {"done", "thrown"},
         status' = [status EXCEPT ![t] = how], job' = [job EXCEPT ![w] = {}], queue' = queue
  PROVE  TasksOK' /\ t \in Tasks /\ status[t] = "running"
<1>1. t \in Tasks /\ status[t] = "running"
  BY DEF Inv, TypeOK, TasksOK
<1>2. \A k \in 1 .. Len(queue) : queue[k] \in Tasks /\ queue[k] # t /\ status[queue[k]] = "queued"
  BY <1>1 DEF Inv, TypeOK, TasksOK
<1>3. \A v \in Workers, u \in Tasks : u \in job'[v] => u \in job[v] /\ u # t
  BY <1>1 DEF Inv, TypeOK, TasksOK
<1>4. \A u \in Tasks : u # t => status'[u] = status[u]
  BY <1>1 DEF Inv, TypeOK
<1> QED BY <1>1, <1>2, <1>3, <1>4 DEF Inv, TasksOK

------------------------------------------------------------------------------
(* The sets that are counted.                                              *)

Live    == Workers \ At("none")
Waiting == At("asleep") \cup At("woken")
Coming  == At("woken")

LEMMA Numbers ==
  /\ IsFiniteSet(Live) /\ Cardinality(Live) \in Nat
  /\ IsFiniteSet(Waiting) /\ Cardinality(Waiting) \in Nat
  /\ IsFiniteSet(Coming) /\ Cardinality(Coming) \in Nat
  /\ IsFiniteSet(Counted) /\ Cardinality(Counted) \in Nat
  /\ IsFiniteSet(Thrown) /\ Cardinality(Thrown) \in Nat
<1>1. /\ Live \in SUBSET Workers /\ Waiting \in SUBSET Workers /\ Coming \in SUBSET Workers
      /\ Counted \in SUBSET Workers /\ Thrown \in SUBSET Tasks
  BY DEF Live, Waiting, Coming, Counted, Thrown, At
<1> QED BY <1>1, FS_Subset, FS_CardinalityType

LEMMA WorkerCountDef ==
  /\ WorkerCount <=> /\ alive = Cardinality(Live) /\ wait = Cardinality(Waiting)
                     /\ num = Cardinality(Counted) + Cardinality(Thrown)
  /\ WorkerCount' <=> /\ alive' = Cardinality(Live') /\ wait' = Cardinality(Waiting')
                      /\ num' = Cardinality(Counted') + Cardinality(Thrown')
  BY DEF WorkerCount, Live, Waiting

(* The cardinalities of two sets that differ in x at most.                 *)
LEMMA Moved ==
  ASSUME NEW Old, IsFiniteSet(Old), NEW New, NEW x, \A y : y # x => (y \in New <=> y \in Old)
  PROVE  Cardinality(New) = Cardinality(Old) + (IF x \in New THEN 1 ELSE 0)
                                             - (IF x \in Old THEN 1 ELSE 0)
<1>0. Cardinality(Old) \in Nat
  BY FS_CardinalityType
<1>1. CASE x \in New <=> x \in Old
  <2>1. New = Old
    BY <1>1
  <2> QED BY <1>0, <1>1, <2>1
<1>2. CASE x \in New /\ x \notin Old
  <2>1. New = Old \cup {x}
    BY <1>2
  <2>2. Cardinality(New) = Cardinality(Old) + 1
    BY <1>2, <2>1, FS_AddElement
  <2> QED BY <1>0, <1>2, <2>2
<1>3. CASE x \notin New /\ x \in Old
  <2>1. New = Old \ {x}
    BY <1>3
  <2>2. Cardinality(New) = Cardinality(Old) - 1
    BY <1>3, <2>1, FS_RemoveElement
  <2> QED BY <1>0, <1>3, <2>2
<1> QED BY <1>1, <1>2, <1>3

In(x, S) == IF x \in S THEN 1 ELSE 0

(* What a step of one worker does to them.                                 *)
LEMMA GotoCounts ==
  ASSUME Inv, NEW w \in Workers, NEW l \in Places, Goto(w, l)
  PROVE  /\ wpc' \in [Workers -> Places] /\ wpc'[w] = l
         /\ Cardinality(Live') = Cardinality(Live) + In(w, Live') - In(w, Live)
         /\ Cardinality(Waiting') = Cardinality(Waiting) + In(w, Waiting') - In(w, Waiting)
         /\ Cardinality(Coming') = Cardinality(Coming) + In(w, Coming') - In(w, Coming)
         /\ Cardinality(Counted') = Cardinality(Counted) + In(w, Counted') - In(w, Counted)
<1> USE DEF In
<1>0. wpc' \in [Workers -> Places] /\ wpc'[w] = l
  BY DEF Inv, TypeOK, Goto
<1>1. Cardinality(Live') = Cardinality(Live) + In(w, Live') - In(w, Live)
  <2>1. \A y : y # w => (y \in Live' <=> y \in Live)
    BY DEF Inv, TypeOK, Goto, Live, At
  <2> QED BY <2>1, Numbers, Moved
<1>2. Cardinality(Waiting') = Cardinality(Waiting) + In(w, Waiting') - In(w, Waiting)
  <2>1. \A y : y # w => (y \in Waiting' <=> y \in Waiting)
    BY DEF Inv, TypeOK, Goto, Waiting, At
  <2> QED BY <2>1, Numbers, Moved
<1>3. Cardinality(Coming') = Cardinality(Coming) + In(w, Coming') - In(w, Coming)
  <2>1. \A y : y # w => (y \in Coming' <=> y \in Coming)
    BY DEF Inv, TypeOK, Goto, Coming, At
  <2> QED BY <2>1, Numbers, Moved
<1>4. Cardinality(Counted') = Cardinality(Counted) + In(w, Counted') - In(w, Counted)
  <2>1. \A y : y # w => (y \in Counted' <=> y \in Counted)
    BY DEF Inv, TypeOK, Goto, Counted, At
  <2> QED BY <2>1, Numbers, Moved
<1> QED BY <1>0, <1>1, <1>2, <1>3, <1>4

(* Threads S are launched, and N woken.                                    *)
LEMMA LaunchCounts ==
  ASSUME Inv, NEW N \in SUBSET Asleep, NEW S \in SUBSET At("none"),
         wpc' = [w \in Workers |-> IF w \in N THEN "woken" ELSE Launch(S)[w]]
  PROVE  /\ wpc' \in [Workers -> Places] /\ Asleep' = Asleep \ N
         /\ IsFiniteSet(S) /\ Cardinality(S) \in Nat
         /\ Cardinality(Live') = Cardinality(Live) + Cardinality(S)
         /\ Cardinality(Waiting') = Cardinality(Waiting)
         /\ Cardinality(Coming') = Cardinality(Coming) + Cardinality(N)
         /\ Cardinality(Counted') = Cardinality(Counted) + Cardinality(S)
<1>1. S \in SUBSET Workers /\ N \in SUBSET Workers
  BY DEF Asleep, At
<1>2. /\ IsFiniteSet(S) /\ Cardinality(S) \in Nat
      /\ IsFiniteSet(N) /\ Cardinality(N) \in Nat
  BY <1>1, FS_Subset, FS_CardinalityType
<1>3. wpc' \in [Workers -> Places] /\ Asleep' = Asleep \ N
  BY DEF Inv, TypeOK, Launch, Asleep, At, Places
<1>4. ASSUME NEW A, IsFiniteSet(A), Cardinality(A) \in Nat, NEW B, IsFiniteSet(B),
             Cardinality(B) \in Nat, A \cap B = {}
      PROVE  Cardinality(A \cup B) = Cardinality(A) + Cardinality(B)
  <2>1. Cardinality(A \cup B) = Cardinality(A) + Cardinality(B) - Cardinality(A \cap B)
    BY <1>4, FS_Union
  <2>2. Cardinality(A \cap B) = 0
    BY <1>4, FS_EmptySet
  <2> QED BY <1>4, <2>1, <2>2
<1>5. Live' = Live \cup S /\ Live \cap S = {}
  BY DEF Inv, TypeOK, Launch, Live, Asleep, At
<1>6. Waiting' = Waiting
  BY DEF Inv, TypeOK, Launch, Waiting, Asleep, At
<1>7. Coming' = Coming \cup N /\ Coming \cap N = {}
  BY DEF Inv, TypeOK, Launch, Coming, Asleep, At
<1>8. Counted' = Counted \cup S /\ Counted \cap S = {}
  BY DEF Inv, TypeOK, Launch, Counted, Asleep, At
<1> QED BY <1>2, <1>3, <1>4, <1>5, <1>6, <1>7, <1>8, Numbers

------------------------------------------------------------------------------
(* The steps of a worker.                                                  *)

OfLive(l)    == IF l = "none" THEN 0 ELSE 1
OfWaiting(l) == IF l \in {"asleep", "woken"} THEN 1 ELSE 0
OfComing(l)  == IF l = "woken" THEN 1 ELSE 0
OfCounted(l) == IF l \in {"none", "retire"} THEN 0 ELSE 1

(* When the counters change as the place of the worker does.               *)
LEMMA OneWorker ==
  ASSUME Inv, WorkerCount, NEW w \in Workers, NEW l \in Places, Goto(w, l),
         alive' = alive + OfLive(l) - OfLive(wpc[w]),
         wait' = wait + OfWaiting(l) - OfWaiting(wpc[w]),
         num' = num + OfCounted(l) - OfCounted(wpc[w]) + Cardinality(Thrown') - Cardinality(Thrown)
  PROVE  /\ WorkerCount' /\ wpc' \in [Workers -> Places]
         /\ num' \in Int /\ wait' \in Int /\ alive' \in Int
         /\ Cardinality(Coming') = Cardinality(Coming) + OfComing(l) - OfComing(wpc[w])
         /\ Cardinality(Coming) \in Nat
         /\ l # "asleep" /\ Asleep' # {} => Asleep # {}
<1>1. /\ wpc' \in [Workers -> Places] /\ wpc'[w] = l
      /\ Cardinality(Live') = Cardinality(Live) + In(w, Live') - In(w, Live)
      /\ Cardinality(Waiting') = Cardinality(Waiting) + In(w, Waiting') - In(w, Waiting)
      /\ Cardinality(Coming') = Cardinality(Coming) + In(w, Coming') - In(w, Coming)
      /\ Cardinality(Counted') = Cardinality(Counted) + In(w, Counted') - In(w, Counted)
  BY GotoCounts
<1>2. /\ In(w, Live) = OfLive(wpc[w]) /\ In(w, Waiting) = OfWaiting(wpc[w])
      /\ In(w, Coming) = OfComing(wpc[w]) /\ In(w, Counted) = OfCounted(wpc[w])
  BY DEF In, Live, Waiting, Coming, Counted, At, OfLive, OfWaiting, OfComing, OfCounted
<1>3. /\ In(w, Live') = OfLive(l) /\ In(w, Waiting') = OfWaiting(l)
      /\ In(w, Coming') = OfComing(l) /\ In(w, Counted') = OfCounted(l)
  BY <1>1 DEF In, Live, Waiting, Coming, Counted, At, OfLive, OfWaiting, OfComing, OfCounted
<1>4. Thrown' \in SUBSET Tasks
  BY DEF Thrown
<1>5. Cardinality(Thrown') \in Nat
  BY <1>4, FS_Subset, FS_CardinalityType
<1>6. /\ OfLive(l) \in Int /\ OfLive(wpc[w]) \in Int
      /\ OfWaiting(l) \in Int /\ OfWaiting(wpc[w]) \in Int
      /\ OfCounted(l) \in Int /\ OfCounted(wpc[w]) \in Int
  BY DEF OfLive, OfWaiting, OfCounted
<1>7. alive' = Cardinality(Live') /\ wait' = Cardinality(Waiting')
  BY <1>1, <1>2, <1>3, WorkerCountDef
<1>8. alive' \in Int /\ wait' \in Int
  <2>1. alive \in Int /\ wait \in Int
    BY DEF Inv, TypeOK
  <2> QED BY <1>6, <2>1
<1>9. Cardinality(Counted') = Cardinality(Counted) + OfCounted(l) - OfCounted(wpc[w])
  BY <1>1, <1>2, <1>3
<1>10. num' = Cardinality(Counted') + Cardinality(Thrown') /\ num' \in Int
  <2>0. Counted' \in SUBSET Workers
    BY DEF Counted, At
  <2>1. Cardinality(Counted') \in Nat
    BY <2>0, FS_Subset, FS_CardinalityType
  <2>2. num = Cardinality(Counted) + Cardinality(Thrown)
    BY WorkerCountDef
  <2> QED BY <1>5, <1>6, <1>9, <2>1, <2>2, Numbers
<1>11. l # "asleep" /\ Asleep' # {} => Asleep # {}
  BY DEF Goto, Inv, TypeOK, Asleep, At
<1> QED BY <1>1, <1>2, <1>3, <1>7, <1>8, <1>10, <1>11, WorkerCountDef, Numbers

(* The same for a step that leaves the tasks alone.                        *)
LEMMA SameTasks ==
  ASSUME Inv, UNCHANGED <<queue, status, job>>, wpc' \in [Workers -> Places],
         num' \in Int, wait' \in Int, alive' \in Int
  PROVE  Inv' /\ Thrown' = Thrown
  BY DEF Inv, TypeOK, TasksOK, Thrown

All == Inv /\ WorkerCount /\ NoLostWakeup

LEMMA Leaving ==
  ASSUME All, NEW w \in Workers, LeaveCanceled(w) \/ LeavePaused(w) \/ LeaveSurplus(w)
  PROVE  All'
<1> USE DEF All
<1>1. /\ Goto(w, "retire") /\ UNCHANGED <<queue, status, job, alive, state>>
      /\ wpc[w] \in {"getq", "woken", "paused"} /\ num' = num - 1
      /\ wait' = IF wpc[w] = "woken" THEN wait - 1 ELSE wait
      /\ reqexit' = reqexit /\ (Undisturbed => Len(queue) = 0)
  BY DEF LeaveCanceled, LeavePaused, LeaveSurplus, InGetq, WaitNow, Stop, Undisturbed
<1>2. Thrown' = Thrown
  BY <1>1 DEF Thrown
<1>3. /\ alive' = alive + OfLive("retire") - OfLive(wpc[w])
      /\ wait' = wait + OfWaiting("retire") - OfWaiting(wpc[w])
      /\ num' = num + OfCounted("retire") - OfCounted(wpc[w])
                + Cardinality(Thrown') - Cardinality(Thrown)
  BY <1>1, <1>2, Numbers DEF OfLive, OfWaiting, OfCounted, Inv, TypeOK
<1>4. /\ WorkerCount' /\ wpc' \in [Workers -> Places] /\ Cardinality(Coming') \in Int
      /\ num' \in Int /\ wait' \in Int /\ alive' \in Int
  BY <1>1, <1>3, OneWorker DEF Places, OfComing
<1>5. Coming' \in SUBSET Workers
  BY DEF Coming, At
<1>6. Cardinality(Coming') \in Nat
  BY <1>5, FS_Subset, FS_CardinalityType
<1>7. NoLostWakeup'
  BY <1>1, <1>6 DEF NoLostWakeup, Undisturbed, Coming
<1> QED BY <1>1, <1>4, <1>7, SameTasks

LEMMA EnterStep == ASSUME All, NEW w \in Workers, Enter(w) \/ Lost(w) PROVE All'
<1> USE DEF All
<1>0. /\ wpc[w] = "enter" /\ UNCHANGED <<queue, status, num, wait, alive, flags, job>>
      /\ \E l \in {"getq", "lost"} : Goto(w, l)
  BY DEF Enter, Lost
<1>1. PICK l \in {"getq", "lost"} : Goto(w, l)
  BY <1>0
<1>2. Thrown' = Thrown
  BY <1>0 DEF Thrown
<1>3. /\ alive' = alive + OfLive(l) - OfLive(wpc[w])
      /\ wait' = wait + OfWaiting(l) - OfWaiting(wpc[w])
      /\ num' = num + OfCounted(l) - OfCounted(wpc[w])
                + Cardinality(Thrown') - Cardinality(Thrown)
  BY <1>0, <1>2, Numbers DEF OfLive, OfWaiting, OfCounted, Inv, TypeOK
<1>4. /\ WorkerCount' /\ wpc' \in [Workers -> Places]
      /\ Cardinality(Coming') = Cardinality(Coming) /\ (Asleep' # {} => Asleep # {})
      /\ num' \in Int /\ wait' \in Int /\ alive' \in Int
  BY <1>0, <1>1, <1>3, OneWorker DEF Places, OfComing
<1>5. NoLostWakeup'
  BY <1>0, <1>4 DEF NoLostWakeup, Undisturbed, Coming
<1> QED BY <1>0, <1>4, <1>5, SameTasks

LEMMA BlockStep == ASSUME All, NEW w \in Workers, BlockPaused(w) PROVE All'
<1> USE DEF All, BlockPaused, InGetq
<1>1. Thrown' = Thrown
  BY DEF Thrown
<1>2. /\ alive' = alive + OfLive("paused") - OfLive(wpc[w])
      /\ wait' = wait + OfWaiting("paused") - OfWaiting(wpc[w])
      /\ num' = num + OfCounted("paused") - OfCounted(wpc[w])
                + Cardinality(Thrown') - Cardinality(Thrown)
  BY SMTT(30), <1>1, Numbers DEF OfLive, OfWaiting, OfCounted, Inv, TypeOK, WaitNow
<1>3. /\ WorkerCount' /\ wpc' \in [Workers -> Places]
      /\ num' \in Int /\ wait' \in Int /\ alive' \in Int
  BY <1>2, OneWorker DEF Places
<1>5. ~Undisturbed'
  BY DEF Undisturbed, Paused
<1>6. NoLostWakeup'
  BY <1>5 DEF NoLostWakeup
<1> QED BY <1>3, <1>6, SameTasks

LEMMA SleepStep == ASSUME All, NEW w \in Workers, Sleep(w) PROVE All'
<1> USE DEF All, Sleep, InGetq
<1>1. Thrown' = Thrown
  BY DEF Thrown
<1>2. /\ alive' = alive + OfLive("asleep") - OfLive(wpc[w])
      /\ wait' = wait + OfWaiting("asleep") - OfWaiting(wpc[w])
      /\ num' = num + OfCounted("asleep") - OfCounted(wpc[w])
                + Cardinality(Thrown') - Cardinality(Thrown)
  BY <1>1, Numbers DEF OfLive, OfWaiting, OfCounted, Inv, TypeOK, WaitNow
<1>3. /\ WorkerCount' /\ wpc' \in [Workers -> Places]
      /\ num' \in Int /\ wait' \in Int /\ alive' \in Int
  BY <1>2, OneWorker DEF Places
<1>4. Coming' \in SUBSET Workers
  BY DEF Coming, At
<1>5. Cardinality(Coming') \in Nat
  BY <1>4, FS_Subset, FS_CardinalityType
<1>6. NoLostWakeup'
  BY <1>5 DEF NoLostWakeup, Coming
<1> QED BY <1>3, <1>6, SameTasks

LEMMA SpuriousStep == ASSUME All, NEW w \in Workers, SpuriousWake(w) PROVE All'
<1> USE DEF All, SpuriousWake
<1>1. Thrown' = Thrown
  BY DEF Thrown
<1>2. /\ alive' = alive + OfLive("woken") - OfLive(wpc[w])
      /\ wait' = wait + OfWaiting("woken") - OfWaiting(wpc[w])
      /\ num' = num + OfCounted("woken") - OfCounted(wpc[w])
                + Cardinality(Thrown') - Cardinality(Thrown)
  BY <1>1, Numbers DEF OfLive, OfWaiting, OfCounted, Inv, TypeOK
<1>3. /\ WorkerCount' /\ wpc' \in [Workers -> Places]
      /\ Cardinality(Coming') = Cardinality(Coming) + 1 /\ (Asleep' # {} => Asleep # {})
      /\ Cardinality(Coming) \in Nat
      /\ num' \in Int /\ wait' \in Int /\ alive' \in Int
  BY <1>2, OneWorker DEF Places, OfComing
<1>4. Len(queue) \in Nat
  BY DEF Inv, TypeOK
<1>5. NoLostWakeup'
  BY <1>3, <1>4 DEF NoLostWakeup, Undisturbed, Coming
<1> QED BY <1>3, <1>5, SameTasks

(* A worker that was woken takes a task: there is one less of each.        *)
LEMMA PopStep == ASSUME All, NEW w \in Workers, Pop(w) PROVE All'
<1> USE DEF All
<1>0. /\ wpc[w] \in {"getq", "woken"} /\ Goto(w, "run") /\ queue # <<>>
      /\ queue' = Tail(queue) /\ status' = [status EXCEPT ![Head(queue)] = "running"]
      /\ job' = [job EXCEPT ![w] = {Head(queue)}]
      /\ wait' = (IF wpc[w] = "woken" THEN wait - 1 ELSE wait)
      /\ UNCHANGED <<num, alive, flags>>
  BY DEF Pop, InGetq, WaitNow
<1>1. /\ TasksOK' /\ queue' \in Seq(Tasks) /\ Len(queue') = Len(queue) - 1
      /\ Head(queue) \in Tasks /\ status[Head(queue)] = "queued"
  BY <1>0, PopTasks
<1>2. Thrown' = Thrown
  BY <1>0, <1>1 DEF Thrown, Inv, TypeOK
<1>3. /\ alive' = alive + OfLive("run") - OfLive(wpc[w])
      /\ wait' = wait + OfWaiting("run") - OfWaiting(wpc[w])
      /\ num' = num + OfCounted("run") - OfCounted(wpc[w])
                + Cardinality(Thrown') - Cardinality(Thrown)
  BY <1>0, <1>2, Numbers DEF OfLive, OfWaiting, OfCounted, Inv, TypeOK
<1>4. /\ WorkerCount' /\ wpc' \in [Workers -> Places]
      /\ Cardinality(Coming') >= Cardinality(Coming) - 1 /\ (Asleep' # {} => Asleep # {})
      /\ Cardinality(Coming) \in Nat /\ Cardinality(Coming') \in Int
      /\ num' \in Int /\ wait' \in Int /\ alive' \in Int
  <2>1. "run" \in Places /\ Goto(w, "run") /\ Inv /\ WorkerCount
    BY <1>0 DEF Places
  <2>2. /\ WorkerCount' /\ wpc' \in [Workers -> Places]
        /\ num' \in Int /\ wait' \in Int /\ alive' \in Int
        /\ Cardinality(Coming') = Cardinality(Coming) + OfComing("run") - OfComing(wpc[w])
        /\ Cardinality(Coming) \in Nat /\ (Asleep' # {} => Asleep # {})
    BY ONLY <1>3, <2>1, OneWorker, w \in Workers
  <2>3. OfComing("run") = 0 /\ OfComing(wpc[w]) \in {0, 1}
    BY DEF OfComing
  <2> QED BY <2>2, <2>3
<1>5. Len(queue) \in Nat
  BY DEF Inv, TypeOK
<1>6. NoLostWakeup'
  BY <1>0, <1>1, <1>4, <1>5 DEF NoLostWakeup, Undisturbed, Coming
<1>7. TypeOK'
  BY <1>0, <1>1, <1>4 DEF Inv, TypeOK
<1> QED BY <1>1, <1>4, <1>6, <1>7 DEF Inv

(* A task returns, or throws: then m_nWorkerNum counts its worker for ever.*)
LEMMA FinishStep == ASSUME All, NEW w \in Workers, Finish(w) \/ Throw(w) PROVE All'
<1> USE DEF All
<1>1. PICK t \in job[w], how \in {"done", "thrown"} : status' = [status EXCEPT ![t] = how]
  BY DEF Finish, Throw
<1>2. /\ wpc[w] = "run" /\ job' = [job EXCEPT ![w] = {}]
      /\ UNCHANGED <<queue, num, wait, alive, flags>>
  BY DEF Finish, Throw
<1>3. TasksOK' /\ t \in Tasks /\ status[t] = "running"
  BY <1>1, <1>2, EndTasks
<1>4. PICK l \in {"getq", "retire"} : Goto(w, l) /\ (l = "retire" <=> status'[t] = "thrown")
  <2>1. CASE Finish(w)
    <3>1. PICK u \in job[w] : status' = [status EXCEPT ![u] = "done"]
      BY <2>1 DEF Finish
    <3>2. u \in Tasks /\ status[u] = "running"
      BY <3>1 DEF Inv, TypeOK, TasksOK
    <3>3. status'[t] # "thrown"
      BY <1>3, <3>1, <3>2 DEF Inv, TypeOK
    <3> QED BY <2>1, <3>3 DEF Finish
  <2>2. CASE Throw(w)
    <3>1. PICK u \in job[w] : status' = [status EXCEPT ![u] = "thrown"]
      BY <2>2 DEF Throw
    <3>2. u \in Tasks /\ status[u] = "running"
      BY <3>1 DEF Inv, TypeOK, TasksOK
    <3>3. status'[u] = "thrown" /\ status'[u] # status[u]
      BY <3>1, <3>2 DEF Inv, TypeOK
    <3>4. u = t
      BY <1>1, <1>3, <3>2, <3>3 DEF Inv, TypeOK
    <3> QED BY <2>2, <3>3, <3>4 DEF Throw
  <2> QED BY <2>1, <2>2
<1>5. Cardinality(Thrown') = Cardinality(Thrown) + IF l = "retire" THEN 1 ELSE 0
  <2>1. /\ \A u : u # t => (u \in Thrown' <=> u \in Thrown)
        /\ t \notin Thrown /\ (t \in Thrown' <=> l = "retire")
    BY <1>1, <1>3, <1>4 DEF Thrown, Inv, TypeOK
  <2>2. Cardinality(Thrown') = Cardinality(Thrown) + (IF t \in Thrown' THEN 1 ELSE 0)
                                                   - (IF t \in Thrown THEN 1 ELSE 0)
    BY <2>1, Moved, Numbers
  <2> QED BY <2>1, <2>2, Numbers
<1>6. /\ alive' = alive + OfLive(l) - OfLive(wpc[w])
      /\ wait' = wait + OfWaiting(l) - OfWaiting(wpc[w])
      /\ num' = num + OfCounted(l) - OfCounted(wpc[w])
                + Cardinality(Thrown') - Cardinality(Thrown)
  BY <1>2, <1>4, <1>5, Numbers DEF OfLive, OfWaiting, OfCounted, Inv, TypeOK
<1>7. /\ WorkerCount' /\ wpc' \in [Workers -> Places]
      /\ Cardinality(Coming') = Cardinality(Coming) /\ (Asleep' # {} => Asleep # {})
      /\ num' \in Int /\ wait' \in Int /\ alive' \in Int
  BY <1>2, <1>4, <1>6, OneWorker DEF Places, OfComing
<1>8. NoLostWakeup'
  BY <1>2, <1>7 DEF NoLostWakeup, Undisturbed, Coming
<1>9. TypeOK'
  BY <1>1, <1>2, <1>7 DEF Inv, TypeOK
<1> QED BY <1>3, <1>7, <1>8, <1>9 DEF Inv

(* The last thread clears the flags: nobody sleeps then.                   *)
LEMMA RetireStep == ASSUME All, NEW w \in Workers, Retire(w) PROVE All'
<1> USE DEF All, Retire
<1>1. Thrown' = Thrown
  BY DEF Thrown
<1>2. /\ alive' = alive + OfLive("none") - OfLive(wpc[w])
      /\ wait' = wait + OfWaiting("none") - OfWaiting(wpc[w])
      /\ num' = num + OfCounted("none") - OfCounted(wpc[w])
                + Cardinality(Thrown') - Cardinality(Thrown)
  BY <1>1, Numbers DEF OfLive, OfWaiting, OfCounted, Inv, TypeOK
<1>3. /\ WorkerCount' /\ wpc' \in [Workers -> Places]
      /\ Cardinality(Coming') = Cardinality(Coming) /\ (Asleep' # {} => Asleep # {})
      /\ num' \in Int /\ wait' \in Int /\ alive' \in Int
  BY <1>2, OneWorker DEF Places, OfComing
<1>4. CASE alive' = 0
  <2>0. Live' \in SUBSET Workers /\ Cardinality(Live') = 0
    BY <1>3, <1>4, WorkerCountDef DEF Live
  <2>1. Live' = {}
    <3>1. IsFiniteSet(Live')
      BY <2>0, FS_Subset
    <3> QED BY <2>0, <3>1, FS_EmptySet
  <2>2. Asleep' = {}
    BY <2>1 DEF Live, Asleep, At
  <2> QED BY <1>3, <2>2, SameTasks DEF NoLostWakeup
<1>5. CASE alive' # 0
  <2>1. NoLostWakeup'
    BY <1>3, <1>5 DEF NoLostWakeup, Undisturbed, Coming
  <2> QED BY <1>3, <2>1, SameTasks
<1> QED BY <1>4, <1>5

------------------------------------------------------------------------------
(* The steps of the callers.                                               *)

LEMMA PutStep == ASSUME All, NEW t \in Tasks, putq(t) PROVE All'
<1> USE DEF All
<1>1. PICK N \in SUBSET Workers, S \in SUBSET Workers :
        /\ Notified(N) /\ Start(S) /\ num' = num + Cardinality(S)
        /\ wpc' = [w \in Workers |-> IF w \in N THEN "woken" ELSE Launch(S)[w]]
  BY DEF putq
<1>2. N \in SUBSET Asleep /\ S \in SUBSET At("none") /\ alive' = alive + Cardinality(S)
  BY <1>1 DEF Notified, Start
<1>3. /\ wpc' \in [Workers -> Places] /\ Asleep' = Asleep \ N
      /\ IsFiniteSet(S) /\ Cardinality(S) \in Nat
      /\ Cardinality(Live') = Cardinality(Live) + Cardinality(S)
      /\ Cardinality(Waiting') = Cardinality(Waiting)
      /\ Cardinality(Coming') = Cardinality(Coming) + Cardinality(N)
      /\ Cardinality(Counted') = Cardinality(Counted) + Cardinality(S)
  BY <1>1, <1>2, LaunchCounts
<1>4. /\ queue' = Append(queue, t) /\ status' = [status EXCEPT ![t] = "queued"]
      /\ status[t] = "new" /\ UNCHANGED <<wait, flags, job>>
  BY DEF putq
<1>5. TasksOK' /\ queue' \in Seq(Tasks)
  BY <1>4, PutTasks
<1>6. Len(queue) \in Nat /\ Len(queue') = Len(queue) + 1 /\ Thrown' = Thrown
  BY <1>4 DEF Inv, TypeOK, Thrown
<1>7. WorkerCount'
  BY <1>1, <1>2, <1>3, <1>4, <1>6, WorkerCountDef, Numbers
<1>8. TypeOK'
  BY <1>1, <1>2, <1>3, <1>4, <1>5 DEF Inv, TypeOK
<1>9. Asleep # {} => Cardinality(N) = 1
  <2>1. SUFFICES ASSUME Asleep # {} PROVE Cardinality(N) = 1
    OBVIOUS
  <2>2. Waiting # {}
    BY <2>1 DEF Waiting, Asleep
  <2>3. Cardinality(Waiting) # 0
    BY <2>2, Numbers, FS_EmptySet
  <2>4. wait > 0
    BY <2>3, WorkerCountDef, Numbers
  <2>5. PICK w \in Asleep : N = {w}
    BY <1>1, <2>1, <2>4 DEF Notified
  <2>6. Cardinality({w}) = 1
    BY FS_Singleton, Zenon
  <2> QED BY <2>5, <2>6
<1>10. NoLostWakeup'
  BY <1>3, <1>4, <1>6, <1>9, Numbers DEF NoLostWakeup, Undisturbed, Coming
<1> QED BY <1>5, <1>7, <1>8, <1>10 DEF Inv

LEMMA ActivateStep == ASSUME All, activate PROVE All'
<1> USE DEF All
<1>1. PICK S \in SUBSET Workers : Cardinality(S) = Min /\ Start(S) /\ wpc' = Launch(S)
  BY DEF activate
<1>2. wpc' = [w \in Workers |-> IF w \in {} THEN "woken" ELSE Launch(S)[w]]
  BY <1>1 DEF Launch
<1>3. {} \in SUBSET Asleep /\ S \in SUBSET At("none") /\ alive' = alive + Cardinality(S)
  BY <1>1 DEF Start
<1>4. /\ wpc' \in [Workers -> Places] /\ Asleep' = Asleep \ {}
      /\ Cardinality(S) \in Nat
      /\ Cardinality(Live') = Cardinality(Live) + Cardinality(S)
      /\ Cardinality(Waiting') = Cardinality(Waiting)
      /\ Cardinality(Coming') = Cardinality(Coming) + Cardinality({})
      /\ Cardinality(Counted') = Cardinality(Counted) + Cardinality(S)
  BY ZenonT(30), <1>2, <1>3, LaunchCounts
<1>5. num = 0 /\ num' = Min /\ UNCHANGED <<queue, status, wait, flags, job>> /\ Thrown' = Thrown
  BY DEF activate, Thrown
<1>6. Cardinality({}) = 0
  BY FS_EmptySet
<1>7. WorkerCount'
  BY <1>1, <1>3, <1>4, <1>5, WorkerCountDef, Numbers
<1>8. NoLostWakeup'
  BY <1>4, <1>5, <1>6, Numbers DEF NoLostWakeup, Undisturbed, Coming
<1>9. num' \in Int /\ wait' \in Int /\ alive' \in Int
  BY <1>3, <1>4, <1>5 DEF Inv, TypeOK
<1> QED BY <1>4, <1>5, <1>7, <1>8, <1>9, SameTasks

LEMMA CancelStep == ASSUME All, cancel PROVE All'
<1> USE DEF All, cancel
<1>1. /\ wpc' \in [Workers -> Places] /\ Live' = Live /\ Waiting' = Waiting
      /\ Counted' = Counted
  BY DEF Inv, TypeOK, Places, Live, Waiting, Counted, Asleep, At
<1>2. Thrown' = Thrown
  BY DEF Thrown, Inv, TypeOK
<1>3. WorkerCount'
  BY <1>1, <1>2, WorkerCountDef
<1>4. queue' \in Seq(Tasks) /\ Len(queue') = 0
  OBVIOUS
<1>5. TasksOK'
  BY <1>4 DEF Inv, TypeOK, TasksOK
<1>6. TypeOK'
  BY <1>1, <1>4 DEF Inv, TypeOK
<1>7. NoLostWakeup'
  BY DEF NoLostWakeup, Undisturbed
<1> QED BY <1>3, <1>5, <1>6, <1>7 DEF Inv

LEMMA QuietStep ==
  ASSUME All, \/ PauseRead \/ PauseWrite \/ resume \/ ManagerFlags \/ UNCHANGED vars
              \/ \E c \in Clients : wait_for_empty(c) \/ Return(c)
  PROVE  All'
<1>1. /\ UNCHANGED <<queue, status, num, wait, alive, wpc, job>>
      /\ Undisturbed' => Undisturbed
  <2>1. CASE PauseWrite
    BY <2>1 DEF PauseWrite, Undisturbed, All
  <2>2. CASE resume
    BY <2>2 DEF resume, Undisturbed
  <2>3. CASE ManagerFlags
    <3>1. reqexit' \in {reqexit, TRUE} /\ state' = state
      BY <2>3 DEF ManagerFlags
    <3>2. ~reqexit' => ~reqexit
      BY <3>1, Zenon
    <3> QED BY <2>3, <3>1, <3>2 DEF ManagerFlags, Undisturbed
  <2>4. CASE \/ PauseRead \/ UNCHANGED vars
             \/ \E c \in Clients : wait_for_empty(c) \/ Return(c)
    BY <2>4 DEF PauseRead, vars, wait_for_empty, Return, Undisturbed
  <2> QED BY <2>1, <2>2, <2>3, <2>4
<1>2. Inv'
  BY <1>1 DEF All, Inv, TypeOK, TasksOK
<1>3. WorkerCount'
  BY <1>1 DEF All, WorkerCount, Counted, Thrown, At
<1>4. NoLostWakeup'
  BY <1>1 DEF All, NoLostWakeup, Asleep, At
<1> QED BY <1>2, <1>3, <1>4 DEF All

LEMMA Initially == Init => All
<1> SUFFICES ASSUME Init PROVE All
  OBVIOUS
<1>1. queue \in Seq(Tasks) /\ Len(queue) = 0
  BY DEF Init
<1>2. Inv
  BY <1>1 DEF Init, Inv, TypeOK, TasksOK, Places
<1>3. Live = {} /\ Waiting = {} /\ Counted = {} /\ Thrown = {} /\ Asleep = {}
  BY DEF Init, Live, Waiting, Counted, Thrown, Asleep, At
<1>4. WorkerCount
  BY <1>3, FS_EmptySet, WorkerCountDef DEF Init
<1> QED BY <1>2, <1>3, <1>4 DEF All, NoLostWakeup

(* The inductive invariant: the tasks, the counters and the workers on     *)
(* their way to the queue (thread_pool.cpp:54-162).                        *)
THEOREM PoolCorrect == Spec => []All
<1>1. All /\ [Next]_vars => All'
  <2> SUFFICES ASSUME All, [Next]_vars PROVE All'
    OBVIOUS
  <2>1. ASSUME NEW w \in Workers, Work(w) \/ SpuriousWake(w) PROVE All'
    BY <2>1, EnterStep, Leaving, BlockStep, PopStep, SleepStep, FinishStep, RetireStep, SpuriousStep
       DEF Work
  <2> QED BY <2>1, PutStep, ActivateStep, CancelStep, QuietStep DEF Next
<1> QED BY <1>1, Initially, PTL DEF Spec

(* m_nAlive, m_nWorkerWait and m_nWorkerNum agree with the threads         *)
(* (thread_pool.cpp:121-147, 156-162).                                     *)
THEOREM CountsWorkers == Spec => []WorkerCount
  BY PoolCorrect, PTL DEF All

(* putq's notify_one is not lost while nobody has paused, canceled or      *)
(* closed the pool (thread_pool.cpp:70-73).                                *)
THEOREM WakesWorkers == Spec => []NoLostWakeup
  BY PoolCorrect, PTL DEF All

------------------------------------------------------------------------------
(* What a client that waits is told.                                       *)

(* A worker has a task only while it runs it.                              *)
Busy == \A w \in Workers : job[w] # {} => wpc[w] = "run"

Told == Busy /\ client \in [Clients -> {"idle", "waiting", "woken"}]

LEMMA WorkTold == ASSUME All, Told, NEW w \in Workers, Work(w) \/ SpuriousWake(w) PROVE Told'
<1> USE DEF All, Inv, TypeOK, Told, Busy, Goto
<1>1. CASE Pop(w)
  BY <1>1 DEF Pop
<1>2. CASE Finish(w) \/ Throw(w)
  BY <1>2 DEF Finish, Throw
<1>3. CASE Sleep(w)
  BY <1>3 DEF Sleep, InGetq
<1>4. CASE \/ Enter(w) \/ Lost(w) \/ LeaveCanceled(w) \/ BlockPaused(w) \/ LeavePaused(w)
           \/ LeaveSurplus(w) \/ Retire(w) \/ SpuriousWake(w)
  BY <1>4 DEF Enter, Lost, LeaveCanceled, BlockPaused, LeavePaused, LeaveSurplus, Retire, SpuriousWake, InGetq
<1> QED BY <1>1, <1>2, <1>3, <1>4 DEF Work

LEMMA CallTold ==
  ASSUME All, Told, \/ \E t \in Tasks : putq(t)
                    \/ activate \/ cancel \/ PauseRead \/ PauseWrite \/ resume
                    \/ ManagerFlags \/ UNCHANGED vars
                    \/ \E c \in Clients : wait_for_empty(c) \/ Return(c)
  PROVE  Told'
<1> USE DEF All, Inv, TypeOK, Told, Busy
<1>1. ASSUME NEW t \in Tasks, putq(t) PROVE Told'
  <2>1. job' = job /\ client' = client /\ \A w \in Workers : wpc[w] = "run" => wpc'[w] = "run"
    BY <1>1 DEF putq, Notified, Start, Launch, Asleep, At
  <2> QED BY <2>1
<1>2. CASE activate \/ cancel
  <2>1. job' = job /\ client' = client /\ \A w \in Workers : wpc[w] = "run" => wpc'[w] = "run"
    BY <1>2 DEF activate, cancel, Start, Launch, Asleep, At
  <2> QED BY <2>1
<1>3. CASE \/ PauseRead \/ PauseWrite \/ resume \/ ManagerFlags \/ UNCHANGED vars
           \/ \E c \in Clients : wait_for_empty(c) \/ Return(c)
  BY <1>3 DEF PauseRead, PauseWrite, resume, ManagerFlags, vars, wait_for_empty, Return
<1> QED BY <1>1, <1>2, <1>3

LEMMA ToldStep == ASSUME All, Told, [Next]_vars PROVE Told'
  BY WorkTold, CallTold DEF Next

(* When the last counted worker goes to sleep, none runs a task.           *)
LEMMA LastSleeper ==
  ASSUME All, Busy, NEW w \in Workers, Sleep(w), wait' = num
  PROVE  queue = <<>> /\ \A v \in Workers : job[v] = {}
<1>1. WorkerCount'
  BY SleepStep DEF All
<1>2. Waiting' \in SUBSET Counted' /\ Counted' \in SUBSET Workers /\ Thrown' \in SUBSET Tasks
  BY DEF Waiting, Counted, Thrown, At
<1>3. IsFiniteSet(Counted') /\ Cardinality(Counted') \in Nat /\ Cardinality(Thrown') \in Nat
  BY <1>2, FS_Subset, FS_CardinalityType
<1>4. Cardinality(Waiting') \in Nat /\ Cardinality(Waiting') <= Cardinality(Counted')
  BY <1>2, <1>3, FS_Subset, FS_CardinalityType
<1>5. wait' = num'
  BY DEF Sleep
<1>6. Cardinality(Waiting') = Cardinality(Counted')
  BY <1>1, <1>3, <1>4, <1>5, WorkerCountDef
<1>7. Waiting' = Counted'
  BY <1>2, <1>3, <1>6, FS_Subset
<1>8. \A v \in Workers : wpc[v] # "run"
  BY <1>7 DEF Sleep, InGetq, Goto, All, Inv, TypeOK, Waiting, Counted, At
<1> QED BY <1>8 DEF Sleep, Busy

LEMMA OnlySleepTells ==
  ASSUME Told, [Next]_vars, NEW c \in Clients, client[c] = "waiting", client'[c] = "woken"
  PROVE  \E w \in Workers : Sleep(w) /\ wait' = num
<1>1. ASSUME NEW e \in Clients, wait_for_empty(e) \/ Return(e) PROVE FALSE
  BY <1>1 DEF wait_for_empty, Return, Told
<1>2. ASSUME NEW w \in Workers, Work(w) \/ SpuriousWake(w) PROVE Sleep(w) /\ wait' = num
  <2>1. CASE Sleep(w)
    BY <2>1 DEF Sleep
  <2>2. CASE ~Sleep(w)
    BY <1>2, <2>2 DEF Work, Enter, Lost, LeaveCanceled, BlockPaused, LeavePaused, Pop, LeaveSurplus,
                      Finish, Throw, Retire, SpuriousWake
  <2> QED BY <2>1, <2>2
<1>3. CASE \/ \E t \in Tasks : putq(t)
           \/ activate \/ cancel \/ PauseRead \/ PauseWrite \/ resume
           \/ ManagerFlags \/ UNCHANGED vars
  BY <1>3 DEF putq, activate, cancel, PauseRead, PauseWrite, resume, ManagerFlags, vars
<1> QED BY <1>1, <1>2, <1>3 DEF Next

LEMMA InitiallyTold == Init => Told
  BY DEF Init, Told, Busy

(* A client that waits for the pool to be empty is notified only when no   *)
(* task is queued and none is running: the worker that announces it is the *)
(* last one counted that was awake (thread_pool.cpp:140-144).              *)
THEOREM TellsWhenIdle == Spec => EmptyMeansIdle
<1> DEFINE Idle == \A c \in Clients :
                     client[c] = "waiting" /\ client'[c] = "woken"
                       => queue = <<>> /\ \A w \in Workers : job[w] = {}
<1>1. All /\ Told /\ [Next]_vars => Told'
  BY ToldStep
<1>2. All /\ Told /\ [Next]_vars => [Idle]_vars
  BY OnlySleepTells, LastSleeper DEF Told
<1> QED BY <1>1, <1>2, InitiallyTold, PoolCorrect, PTL DEF Spec, EmptyMeansIdle
==============================================================================
