------------------------------ MODULE MemoryPool ------------------------------
(* The memory pool: spans of nodes of one size behind the spin lock of a slot,  *)
(* the page map that finds the span of a node, large blocks, and the caches of  *)
(* the threads that have one.                                                  *)
(*                                                                             *)
(* An address is a number; a bucket of the page map covers PerBucket addresses. *)
(* A span is named by its first address and need not start with a bucket. It    *)
(* has one bucket's length, and its NodesPerSpan nodes are its addresses; a     *)
(* large block has LargeSize addresses. Which node a list of nodes yields first *)
(* is left open: the lists are sets.                                           *)
EXTENDS Integers, Sequences, FiniteSets, SequencesExt

CONSTANTS Threads, Cached,   \* threads, and those with a cache (tls_tc_data)
          Lowest, Top,       \* the addresses that mmap may give
          PerBucket, LargeSize,
          MaxCached,         \* nd_nmax
          NULL

ASSUME ThreadAssumption == Cached \subseteq Threads /\ NULL \notin Threads
ASSUME SizeAssumption ==
  /\ Top \in Nat /\ PerBucket \in Nat \ {0} /\ LargeSize \in Nat /\ LargeSize > PerBucket
  /\ MaxCached \in Nat /\ MaxCached >= 2
ASSUME LowestAssumption == Lowest \in Nat /\ LargeSize <= Lowest /\ Lowest <= Top
ASSUME NullAssumption == NULL \notin 0 .. Top

VARIABLES bucket,    \* the page map: the span that starts in a bucket, or NULL
          span,      \* per first address: [kind, nd_free, nd_nnum]; the kind "null"
                     \* is a header with sp_base 0, for memory that is not there
          sl_list,   \* the slot's list, from sp_head along sl_next
          sl_spin,   \* the thread that holds the slot's lock
          cache,     \* per thread: nodes in its list
          nd_cached, \* per thread: what its list's nd_nnum says
          used,      \* what clients hold
          pc,        \* per thread: where its call is
          crashed    \* the process has used memory that is not mapped

vars == <<bucket, span, sl_list, sl_spin, cache, nd_cached, used, pc, crashed>>

Addr == 0 .. Top
BucketOf(p) == p \div PerBucket
NodesPerSpan == PerBucket
NoSpan == [kind |-> "none", nd_free |-> {}, nd_nnum |-> 0]
Length(s) == CASE span[s].kind = "small" -> PerBucket
               [] span[s].kind \in {"large", "null"} -> LargeSize
               [] OTHER -> 0
Idle == [at |-> "idle"]
Small == {s \in Addr : span[s].kind = "small"}

Init ==
  /\ bucket = [b \in {BucketOf(p) : p \in Addr} |-> NULL]
  /\ span = [s \in Addr |-> NoSpan]
  /\ sl_list = <<>> /\ sl_spin = NULL
  /\ cache = [t \in Threads |-> {}] /\ nd_cached = [t \in Threads |-> 0]
  /\ used = {} /\ pc = [t \in Threads |-> Idle] /\ crashed = FALSE

Running == ~crashed /\ UNCHANGED crashed
At(t, label) == Running /\ pc[t].at = label
Goto(t, where) == pc' = [pc EXCEPT ![t] = where]

-----------------------------------------------------------------------------
(* The page map.                                                               *)

(* Fault: a node is looked for in its own bucket only.                         *)
find_bucketFault(p) ==
  LET s == bucket[BucketOf(p)] IN IF s # NULL /\ s <= p THEN s ELSE NULL

(* A span that starts in the bucket of p, at p or before it, or the one that     *)
(* starts in the bucket before.                                                *)
find_bucket(p) ==
  LET s == bucket[BucketOf(p)]
      r == IF BucketOf(p) = 0 THEN NULL ELSE bucket[BucketOf(p) - 1]
  IN IF s # NULL /\ s <= p THEN s
     ELSE IF r # NULL /\ p - r < Length(r) THEN r ELSE NULL

(* mmap: any place that is free, and not near zero. It may fail at any time.    *)
Free(s, n) ==
  /\ Lowest <= s /\ s + n - 1 <= Top
  /\ \A r \in Addr : span[r].kind # "none" => r + Length(r) <= s \/ s + n <= r

(* insert_span_nolock; its EW_ASSERT does nothing in a release.                 *)
InsertSpan(s, r) == span' = [span EXCEPT ![s] = r] /\ bucket' = [bucket EXCEPT ![BucketOf(s)] = s]

-----------------------------------------------------------------------------
(* Allocating. A slot's lock is held for one step, if nobody holds it.          *)

Unlocked == sl_spin = NULL

(* create_span_nolock. When page_alloc fails, gc skips this slot (its lock is   *)
(* held) and the call returns NULL: nothing changes.                           *)
NewSpan == [kind |-> "small", nd_free |-> {}, nd_nnum |-> 0]

(* The head of the slot's list, s, and its free nodes.                         *)
HeadOrNew(s, free) ==
  \/ sl_list # <<>> /\ s = Head(sl_list) /\ free = span[s].nd_free
  \/ sl_list = <<>> /\ Free(s, PerBucket) /\ free = s .. (s + NodesPerSpan - 1)

(* Fault: a span keeps its place in the list when its last node is taken.      *)
TakeFault(s, n, rest, num) ==
  /\ span' = [span EXCEPT ![s] = [kind |-> "small", nd_free |-> rest, nd_nnum |-> num]]
  /\ bucket' = [bucket EXCEPT ![BucketOf(s)] = s]
  /\ sl_list' = IF sl_list = <<>> THEN <<s>> ELSE sl_list

(* n nodes of the head s are taken: rest stays, num is its count.              *)
Take(s, n, rest, num) ==
  /\ span' = [span EXCEPT ![s] = [kind |-> "small", nd_free |-> rest, nd_nnum |-> num]]
  /\ bucket' = [bucket EXCEPT ![BucketOf(s)] = s]
  /\ sl_list' = LET l == IF sl_list = <<>> THEN <<s>> ELSE sl_list
                IN IF rest = {} THEN Tail(l) ELSE l

(* MpAllocGlobal::alloc_small, by a thread without a cache.                    *)
alloc_small(t, p) ==
  /\ At(t, "idle") /\ t \notin Cached /\ Unlocked
  /\ \E s \in Addr : \E free \in SUBSET (s .. (s + NodesPerSpan - 1)) :
       /\ HeadOrNew(s, free) /\ p \in free
       /\ Take(s, 1, free \ {p}, span[s].nd_nnum + 1)
  /\ used' = used \cup {p}
  /\ UNCHANGED <<sl_spin, cache, nd_cached, pc>>

(* MpAllocCachedNoLock::alloc: from the thread's list, or after                 *)
(* alloc_small_batch has given it all free nodes of the head.                  *)
AllocCached(t, p) ==
  /\ At(t, "idle") /\ p \in cache[t]
  /\ cache' = [cache EXCEPT ![t] = @ \ {p}] /\ nd_cached' = [nd_cached EXCEPT ![t] = @ - 1]
  /\ used' = used \cup {p}
  /\ UNCHANGED <<bucket, span, sl_list, sl_spin, pc>>

alloc_small_batch(t, p) ==
  /\ At(t, "idle") /\ t \in Cached /\ cache[t] = {} /\ Unlocked
  /\ \E s \in Addr : \E free \in SUBSET (s .. (s + NodesPerSpan - 1)) :
       /\ HeadOrNew(s, free) /\ p \in free
       /\ Take(s, NodesPerSpan, {}, NodesPerSpan)
       /\ cache' = [cache EXCEPT ![t] = free \ {p}]
       /\ nd_cached' = [nd_cached EXCEPT ![t] = NodesPerSpan - span[s].nd_nnum - 1]
  /\ used' = used \cup {p}
  /\ UNCHANGED <<sl_spin, pc>>

(* alloc_large, at once or on the second try, after gc.                        *)
alloc_large(t, s) ==
  /\ Running /\ pc[t].at \in {"idle", "retry"}
  /\ Free(s, LargeSize)
  /\ InsertSpan(s, [kind |-> "large", nd_free |-> {}, nd_nnum |-> 1])
  /\ used' = used \cup {s} /\ Goto(t, Idle)
  /\ UNCHANGED <<sl_list, sl_spin, cache, nd_cached>>

(* page_alloc fails for a large block: mp_force_gc(0).                         *)
PageAllocFails(t) ==
  /\ At(t, "idle") /\ Goto(t, [at |-> "tc_gc"])
  /\ UNCHANGED <<bucket, span, sl_list, sl_spin, cache, nd_cached, used>>

(* It fails again, and alloc_large does not look at the NULL it gets: the       *)
(* header at the end of the block is written near zero (lines 622-625) ...      *)
WriteNearNull(t) ==
  /\ ~crashed /\ pc[t].at = "retry" /\ crashed' = TRUE
  /\ UNCHANGED <<bucket, span, sl_list, sl_spin, cache, nd_cached, used, pc>>

(* ... or one of spanalloc goes into the page map, with sp_base 0, and the      *)
(* client gets the NULL (lines 634-654) ...                                     *)
InsertNull(t) ==
  /\ At(t, "retry") /\ Goto(t, Idle)
  /\ InsertSpan(0, [kind |-> "null", nd_free |-> {}, nd_nnum |-> 0])
  /\ UNCHANGED <<sl_list, sl_spin, cache, nd_cached, used>>

(* ... or spanalloc has none either. (With debug information alloc_large looks.)*)
GiveUp(t) ==
  /\ At(t, "retry") /\ Goto(t, Idle)
  /\ UNCHANGED <<bucket, span, sl_list, sl_spin, cache, nd_cached, used>>

-----------------------------------------------------------------------------
(* Giving nodes back to their spans, with the slot's lock held.                *)

IsLast(l, s) == l # <<>> /\ Last(l) = s
Pushed(s) == IF span[s].nd_free = {} THEN <<s>> \o sl_list ELSE sl_list
Back(s, p) ==
  [kind |-> "small", nd_free |-> span[s].nd_free \cup {p}, nd_nnum |-> span[s].nd_nnum - 1]

(* A span leaves the list, in which it is once.                                *)
Unlinked(l, s) == RemoveAt(l, CHOOSE i \in DOMAIN l : l[i] = s)

(* One turn of dealloc_batch_nolock: a span that becomes empty is given up,      *)
(* unless it is the last of the list.                                          *)
DeallocNode(s, p) ==
  IF span[s].nd_nnum = 1 /\ ~IsLast(Pushed(s), s)
  THEN /\ sl_list' = Unlinked(Pushed(s), s) /\ span' = [span EXCEPT ![s] = NoSpan]
       /\ bucket' = [bucket EXCEPT ![BucketOf(s)] = NULL]
  ELSE /\ sl_list' = Pushed(s) /\ span' = [span EXCEPT ![s] = Back(s, p)]
       /\ UNCHANGED bucket

(* dealloc_batch takes the lock; num nodes are to go, then the call is there.   *)
Batch(at, num, then) == [at |-> at, num |-> num, then |-> then]

LockBatch(t) ==
  /\ At(t, "lock") /\ Unlocked /\ sl_spin' = t
  /\ Goto(t, Batch("batch", pc[t].num, pc[t].then))
  /\ UNCHANGED <<bucket, span, sl_list, cache, nd_cached, used>>

(* find_bucket reads the page map, which the slot's lock does not protect ...   *)
dealloc_batch_nolock(t, p) ==
  /\ At(t, "batch") /\ pc[t].num > 0 /\ p \in cache[t]
  /\ Goto(t, [at |-> "node", num |-> pc[t].num, then |-> pc[t].then,
              p |-> p, sp |-> bucket[BucketOf(p)]])
  /\ UNCHANGED <<bucket, span, sl_list, sl_spin, cache, nd_cached, used>>

(* A call has read in a bucket a span that is still there, or none.             *)
Found(t, label) ==
  At(t, label) /\ (pc[t].sp # NULL => span[pc[t].sp].kind # "none")

(* ... and the node goes back.                                                  *)
NodeBack(t) ==
  /\ Found(t, "node")
  /\ DeallocNode(find_bucket(pc[t].p), pc[t].p)
  /\ cache' = [cache EXCEPT ![t] = @ \ {pc[t].p}]
  /\ nd_cached' = [nd_cached EXCEPT ![t] = @ - 1]
  /\ Goto(t, Batch("batch", pc[t].num - 1, pc[t].then))
  /\ UNCHANGED <<sl_spin, used>>

BatchDone(t) ==
  /\ At(t, "batch") /\ (pc[t].num = 0 \/ cache[t] = {})
  /\ sl_spin' = NULL /\ Goto(t, [at |-> pc[t].then])
  /\ UNCHANGED <<bucket, span, sl_list, cache, nd_cached, used>>

-----------------------------------------------------------------------------
(* mp_free. find_bucket holds no lock: it reads a bucket, and then the span      *)
(* it has found there, which need not be the span of p.                        *)

mp_free(t, p) ==
  /\ At(t, "idle") /\ used' = used \ {p}
  /\ Goto(t, [at |-> "found", p |-> p, sp |-> bucket[BucketOf(p)]])
  /\ UNCHANGED <<bucket, span, sl_list, sl_spin, cache, nd_cached>>

(* The span that was read is gone, and its header with it.                     *)
ReadFreed(t) ==
  /\ ~crashed /\ pc[t].at \in {"found", "node"}
  /\ pc[t].sp # NULL /\ span[pc[t].sp].kind = "none"
  /\ crashed' = TRUE
  /\ UNCHANGED <<bucket, span, sl_list, sl_spin, cache, nd_cached, used, pc>>

(* A large block is unmapped; a node goes to the thread's cache, and half of a   *)
(* cache that is too long to the spans; without a cache, to the lock.          *)
FreeLarge(t) ==
  /\ Found(t, "found")
  /\ LET s == find_bucket(pc[t].p) IN
     /\ span[s].kind = "large"
     /\ bucket' = [bucket EXCEPT ![BucketOf(s)] = NULL]
     /\ span' = [span EXCEPT ![s] = NoSpan]
  /\ Goto(t, Idle) /\ UNCHANGED <<sl_list, sl_spin, cache, nd_cached, used>>

(* Fault: half of the list is given back and the count is not halved.          *)
DeallocCachedFault(t) ==
  /\ Found(t, "found") /\ t \in Cached /\ span[find_bucket(pc[t].p)].kind = "small"
  /\ cache' = [cache EXCEPT ![t] = @ \cup {pc[t].p}]
  /\ nd_cached' = [nd_cached EXCEPT ![t] = IF @ >= MaxCached THEN @ ELSE @ + 1]
  /\ Goto(t, IF nd_cached[t] >= MaxCached
             THEN Batch("lock", (nd_cached[t] + 1) \div 2, "idle") ELSE Idle)
  /\ UNCHANGED <<bucket, span, sl_list, sl_spin, used>>

DeallocCached(t) ==
  /\ Found(t, "found") /\ t \in Cached /\ span[find_bucket(pc[t].p)].kind = "small"
  /\ cache' = [cache EXCEPT ![t] = @ \cup {pc[t].p}]
  /\ nd_cached' = [nd_cached EXCEPT ![t] = @ + 1]
  /\ Goto(t, IF nd_cached[t] >= MaxCached
             THEN Batch("lock", (nd_cached[t] + 1) \div 2, "idle") ELSE Idle)
  /\ UNCHANGED <<bucket, span, sl_list, sl_spin, used>>

(* dealloc_real: an empty span is unlinked, unless it is the last, and that is   *)
(* all: nothing refers to it any more, its pages stay mapped.                  *)
dealloc_real(t) ==
  /\ Found(t, "found") /\ t \notin Cached /\ Unlocked
  /\ LET p == pc[t].p
         s == find_bucket(p)
     IN /\ span[s].kind = "small"
        /\ span' = [span EXCEPT ![s] = Back(s, p)]
        /\ sl_list' = IF span[s].nd_nnum = 1 /\ ~IsLast(Pushed(s), s)
                      THEN Unlinked(Pushed(s), s) ELSE Pushed(s)
  /\ Goto(t, Idle) /\ UNCHANGED <<bucket, sl_spin, cache, nd_cached, used>>

-----------------------------------------------------------------------------
(* mp_force_gc(0): the thread's cache, then the spans that are empty. A slot    *)
(* whose lock is held is left out.                                             *)

tc_gc(t) ==
  /\ At(t, "tc_gc")
  /\ IF Unlocked THEN sl_spin' = t /\ Goto(t, Batch("batch", nd_cached[t], "gc"))
     ELSE Goto(t, [at |-> "gc"]) /\ UNCHANGED sl_spin
  /\ UNCHANGED <<bucket, span, sl_list, cache, nd_cached, used>>

(* mp_force_gc of a client, which waits for the lock.                          *)
mp_force_gc(t) ==
  /\ At(t, "idle") /\ t \in Cached /\ Goto(t, Batch("lock", nd_cached[t], "gc"))
  /\ UNCHANGED <<bucket, span, sl_list, sl_spin, cache, nd_cached, used>>

TryGc(t) ==
  /\ At(t, "gc")
  /\ IF Unlocked THEN sl_spin' = t /\ Goto(t, [at |-> "sweep"])
     ELSE Goto(t, [at |-> "retry"]) /\ UNCHANGED sl_spin
  /\ UNCHANGED <<bucket, span, sl_list, cache, nd_cached, used>>

Empty == {s \in ToSet(sl_list) : span[s].nd_nnum = 0}

(* The empty spans go one by one, from the head on.                            *)
gc(t) ==
  /\ At(t, "sweep") /\ UNCHANGED <<cache, nd_cached, used>>
  /\ \/ /\ Empty = {} /\ sl_spin' = NULL /\ Goto(t, [at |-> "retry"])
        /\ UNCHANGED <<bucket, span, sl_list>>
     \/ /\ \E i \in DOMAIN sl_list :
             /\ sl_list[i] \in Empty /\ \A j \in 1 .. (i - 1) : sl_list[j] \notin Empty
             /\ sl_list' = RemoveAt(sl_list, i)
             /\ span' = [span EXCEPT ![sl_list[i]] = NoSpan]
             /\ bucket' = [bucket EXCEPT ![BucketOf(sl_list[i])] = NULL]
        /\ UNCHANGED <<sl_spin, pc>>

(* The process is over.                                                        *)
Dead == crashed /\ UNCHANGED vars

Next ==
  \/ \E t \in Threads :
       \/ \E p \in Addr : alloc_small(t, p) \/ AllocCached(t, p) \/ alloc_small_batch(t, p)
                          \/ alloc_large(t, p) \/ dealloc_batch_nolock(t, p)
       \/ \E p \in used : mp_free(t, p)
       \/ PageAllocFails(t) \/ WriteNearNull(t) \/ InsertNull(t) \/ GiveUp(t)
       \/ mp_force_gc(t) \/ LockBatch(t) \/ NodeBack(t) \/ BatchDone(t)
       \/ ReadFreed(t) \/ FreeLarge(t) \/ DeallocCached(t) \/ dealloc_real(t)
       \/ tc_gc(t) \/ TryGc(t) \/ gc(t)
  \/ Dead

Spec == Init /\ [][Next]_vars

-----------------------------------------------------------------------------
(* The address that thread t is about to give back.                            *)
InHand(t) == IF pc[t].at = "found" THEN {pc[t].p} ELSE {}

(* Where address p is, as a number of places.                                  *)
Places(p) ==
  Cardinality({t \in Threads : p \in cache[t]}) + Cardinality({t \in Threads : p \in InHand(t)})
  + Cardinality({s \in Small : p \in span[s].nd_free}) + (IF p \in used THEN 1 ELSE 0)

(* Every node of a span is in exactly one place: with a client, in one cache,   *)
(* on its way back, or free in its span; nothing else is anywhere, so no one     *)
(* holds a node of a span whose pages are gone. nd_nnum and the caches' counts   *)
(* are those of the lists (mempool_paging.cpp:337-437, mempool_cached.cpp:77-133). *)
OnePlace ==
  /\ \A p \in Addr :
       Places(p) = IF \/ \E s \in Small : p \in s .. (s + NodesPerSpan - 1)
                      \/ span[p].kind = "large"
                   THEN 1 ELSE 0
  /\ \A s \in Small : span[s].nd_nnum + Cardinality(span[s].nd_free) = NodesPerSpan
  /\ \A t \in Threads : nd_cached[t] = Cardinality(cache[t])

(* The slot's list holds a span once; all of its spans have a free node, so that  *)
(* the head can always give one (alloc_small at mempool_paging.cpp:566 does not  *)
(* look); and a span with free nodes that is not in the list has none in use:    *)
(* the only spans the pool forgets are empty ones (line 507).                   *)
ListSound ==
  /\ IsInjective(sl_list)
  /\ \A s \in ToSet(sl_list) : s \in Small /\ span[s].nd_free # {}
  /\ \A s \in Small \ ToSet(sl_list) : span[s].nd_free = {} \/ span[s].nd_nnum = 0

(* The page map finds the span of every node that may be given back, a mapped     *)
(* one, though spans straddle two buckets, two of them may share one              *)
(* (mempool_pgmap.cpp:20-106), and a failed alloc_large leaves a span of memory   *)
(* that is not there (mempool_paging.cpp:648-653): that one, in the first bucket, *)
(* is the only one, and no bucket leads to a span that is unmapped.               *)
SpanFound ==
  /\ \A p \in used \cup UNION {cache[t] : t \in Threads} :
       LET s == find_bucket(p)
       IN  s # NULL /\ span[s].kind \in {"small", "large"} /\ p \in s .. (s + Length(s) - 1)
  /\ \A b \in DOMAIN bucket : bucket[b] # NULL =>
       LET s == bucket[b]
       IN  /\ BucketOf(s) = b
           /\ span[s].kind \in {"small", "large"} \/ (span[s].kind = "null" /\ s = 0)
=============================================================================
