----------------------------- MODULE MemoryPool_proofs -----------------------------
(* For any threads, addresses, and lengths of buckets, large blocks and caches: no   *)
(* node is in two places or lost, the list of the slot is sound, and the page map    *)
(* finds the span of every node.                                                     *)
EXTENDS MemoryPool, FiniteSetTheorems, SequenceTheorems, TLAPS

USE ThreadAssumption, SizeAssumption, NullAssumption

Buckets == {BucketOf(p) : p \in Addr}

Calls == [at : {"idle", "tc_gc", "gc", "sweep", "retry"}]
         \cup [at : {"found"}, p : Addr, sp : Addr \cup {NULL}]
         \cup [at : {"lock", "batch"}, num : Int, then : {"idle", "gc"}]
         \cup [at : {"node"}, num : Int, then : {"idle", "gc"}, p : Addr, sp : Addr \cup {NULL}]
Kinds == {"none", "small", "large", "null"}
Record(kind, F, k) == [kind |-> kind, nd_free |-> F, nd_nnum |-> k]

SpanTypes ==
  /\ bucket \in [Buckets -> Addr \cup {NULL}]
  /\ span \in [Addr -> [kind : Kinds, nd_free : SUBSET Addr, nd_nnum : Int]]

TypeOK ==
  /\ SpanTypes
  /\ sl_list \in Seq(Addr)
  /\ cache \in [Threads -> SUBSET Addr] /\ nd_cached \in [Threads -> Int]
  /\ used \in SUBSET Addr
  /\ pc \in [Threads -> Calls]

Mapped(s) == span[s].kind # "none"
Nodes(s) == s .. (s + PerBucket - 1)

(* Spans and blocks are where mmap puts them; the header of memory that is not there  *)
(* is at 0, below them.                                                              *)
Placed ==
  \A s \in Addr : /\ span[s].kind \in {"small", "large"} => Lowest <= s
                  /\ span[s].kind = "null" => s = 0 /\ span[s] = Record("null", {}, 0)

(* The spans lie in memory, one after the other.                                     *)
Apart ==
  /\ \A s \in Addr : Mapped(s) => s + Length(s) - 1 <= Top
  /\ \A r, s \in Addr : Mapped(r) /\ Mapped(s) /\ r < s => r + Length(r) <= s

(* The page map leads to the spans, each from the bucket it starts in.               *)
PageMap ==
  /\ \A b \in Buckets : bucket[b] # NULL => Mapped(bucket[b]) /\ BucketOf(bucket[b]) = b
  /\ \A s \in Addr : Mapped(s) => bucket[BucketOf(s)] = s

(* nd_nnum counts the nodes of a span that are not in its nd_free.                   *)
NodesOK ==
  \A s \in Small : /\ span[s].nd_free \subseteq Nodes(s)
                   /\ span[s].nd_nnum + Cardinality(span[s].nd_free) = PerBucket

Blank == \A s \in Addr : ~Mapped(s) => span[s].nd_nnum = 0

(* The caches hold nodes, and know how many.                                         *)
CachesOK ==
  \A t \in Threads : /\ nd_cached[t] = Cardinality(cache[t])
                     /\ \A p \in cache[t] : span[p].kind # "large"

IsFree(p) == \E s \in Small : p \in span[s].nd_free
Owned(p)  == (\E s \in Small : p \in Nodes(s)) \/ span[p].kind = "large"
Held(p)   == \E t \in Threads : p \in cache[t] \/ p \in InHand(t)

(* Nobody else has the node that somebody has ...                                    *)
Alone(p) ==
  /\ \A t, u \in Threads : p \in cache[t] /\ p \in cache[u] => t = u
  /\ \A t, u \in Threads : p \in InHand(t) /\ p \in InHand(u) => t = u
  /\ \A t, u \in Threads : p \in cache[t] => p \notin InHand(u)
  /\ p \in used => ~Held(p)
  /\ IsFree(p) => p \notin used /\ ~Held(p)

(* ... and somebody has every node of the spans, and nothing else.                   *)
PlacesOK == \A p \in Addr : Alone(p) /\ (Owned(p) <=> p \in used \/ IsFree(p) \/ Held(p))

Spans == SpanTypes /\ Placed /\ Apart /\ PageMap /\ NodesOK /\ Blank
Inv == TypeOK /\ Spans /\ CachesOK /\ PlacesOK /\ ListSound

(* The node that is on its way from a cache to its span is still in the cache.        *)
Pending == \A t \in Threads : pc[t].at = "node" => pc[t].p \in cache[t]

------------------------------------------------------------------------------------
(* Numbers.                                                                          *)

LEMMA PerBucketType == PerBucket \in Nat /\ PerBucket > 0
  OBVIOUS

(* The quotient of a division.                                                       *)
LEMMA Quotient ==
  ASSUME NEW n \in Nat, n > 0, NEW x \in Nat
  PROVE  /\ x \div n \in Nat
         /\ n * (x \div n) <= x /\ x < n * (x \div n) + n
  OBVIOUS

LEMMA Between ==
  ASSUME NEW n \in Nat, n > 0, NEW a \in Int, NEW b \in Int, n * a < n * b
  PROVE  a < b
<1>1. SUFFICES ASSUME b <= a PROVE FALSE
  OBVIOUS
<1>2. n * b <= n * a
  <2> DEFINE d == a - b
  <2>1. d \in Nat
    BY <1>1
  <2>2. n * a = n * b + n * d /\ n * d \in Nat
    BY <2>1
  <2> QED BY <2>2
<1> QED BY <1>2

LEMMA BucketOfType ==
  ASSUME NEW p \in Addr
  PROVE  /\ p \in Nat /\ BucketOf(p) \in Buckets /\ BucketOf(p) \in Nat
         /\ PerBucket * BucketOf(p) <= p /\ p < PerBucket * BucketOf(p) + PerBucket
  BY Quotient, PerBucketType DEF Addr, BucketOf, Buckets

(* Two addresses that far apart are in two buckets, and no nearer ones lie more than *)
(* one bucket apart.                                                                 *)
LEMMA BucketsApart ==
  ASSUME NEW p \in Addr, NEW q \in Addr, p + PerBucket <= q
  PROVE  BucketOf(p) < BucketOf(q)
<1> DEFINE n == PerBucket  a == BucketOf(p)  b == BucketOf(q)
<1>1. n \in Nat /\ n > 0 /\ a \in Int /\ b \in Int /\ p \in Nat /\ q \in Nat
  BY BucketOfType
<1>2. n * a <= p /\ q < n * b + n /\ p + n <= q
  BY BucketOfType
<1> HIDE DEF n, a, b
<1>3. n * a \in Int /\ n * b \in Int
  BY <1>1
<1>4. n * a < n * b
  BY <1>1, <1>2, <1>3
<1>5. a < b
  BY <1>1, <1>4, Between
<1> QED BY <1>5 DEF a, b

LEMMA BucketsNear ==
  ASSUME NEW s \in Addr, NEW p \in Addr, s <= p, p < s + PerBucket
  PROVE  BucketOf(p) = BucketOf(s) \/ BucketOf(p) = BucketOf(s) + 1
<1> DEFINE n == PerBucket  a == BucketOf(s)  b == BucketOf(p)
<1>1. n \in Nat /\ n > 0 /\ a \in Int /\ b \in Int /\ s \in Nat /\ p \in Nat
  BY BucketOfType
<1>2. n * a <= s /\ s < n * a + n /\ n * b <= p /\ p < n * b + n /\ s <= p /\ p < s + n
  BY BucketOfType
<1> HIDE DEF n, a, b
<1>3. n * (b + 1) = n * b + n /\ n * (a + 2) = n * a + n + n
  BY <1>1
<1>4. n * a \in Int /\ n * b \in Int
  BY <1>1
<1>5. n * a < n * (b + 1) /\ n * b < n * (a + 2)
  BY <1>1, <1>2, <1>3, <1>4
<1>6. a < b + 1
  BY <1>1, <1>5, Between
<1>7. b < a + 2
  BY <1>1, <1>5, Between
<1>8. b = a \/ b = a + 1
  BY <1>1, <1>6, <1>7
<1> QED BY <1>8 DEF a, b

LEMMA NodesCount ==
  ASSUME NEW s \in Addr
  PROVE  IsFiniteSet(Nodes(s)) /\ Cardinality(Nodes(s)) = PerBucket
<1> DEFINE b == s + PerBucket - 1
<1>1. s \in Int /\ b \in Int /\ b - s + 1 = PerBucket /\ s <= b
  BY BucketOfType
<1>2. IsFiniteSet(s .. b) /\ Cardinality(s .. b) = IF s > b THEN 0 ELSE b - s + 1
  BY <1>1, FS_Interval
<1> QED BY <1>1, <1>2 DEF Nodes

------------------------------------------------------------------------------------
(* Lists that hold an element once.                                                  *)

LEMMA TailOnce ==
  ASSUME NEW S, NEW l \in Seq(S), l # <<>>, IsInjective(l)
  PROVE  /\ Tail(l) \in Seq(S) /\ IsInjective(Tail(l))
         /\ Head(l) \in ToSet(l) /\ ToSet(Tail(l)) = ToSet(l) \ {Head(l)}
<1>1. /\ Len(l) \in Nat /\ Len(l) > 0 /\ DOMAIN l = 1 .. Len(l) /\ Head(l) = l[1]
      /\ Tail(l) \in Seq(S) /\ DOMAIN Tail(l) = 1 .. (Len(l) - 1)
      /\ \A i \in 1 .. (Len(l) - 1) : Tail(l)[i] = l[i + 1]
  OBVIOUS
<1>2. IsInjective(Tail(l)) /\ Head(l) \in ToSet(l)
  BY <1>1 DEF IsInjective, ToSet
<1>3. \A x : x \in ToSet(Tail(l)) => x \in ToSet(l) /\ x # Head(l)
  BY <1>1 DEF IsInjective, ToSet
<1>4. ASSUME NEW x \in ToSet(l), x # Head(l) PROVE x \in ToSet(Tail(l))
  <2>1. PICK i \in 1 .. Len(l) : x = l[i]
    BY <1>1 DEF ToSet
  <2>2. i - 1 \in 1 .. (Len(l) - 1) /\ Tail(l)[i - 1] = x
    BY <1>1, <1>4, <2>1
  <2> QED BY <1>1, <2>2 DEF ToSet
<1> QED BY <1>1, <1>2, <1>3, <1>4

LEMMA PushOnce ==
  ASSUME NEW S, NEW l \in Seq(S), NEW s \in S, s \notin ToSet(l), IsInjective(l)
  PROVE  /\ <<s>> \o l \in Seq(S) /\ IsInjective(<<s>> \o l)
         /\ ToSet(<<s>> \o l) = ToSet(l) \cup {s}
<1> DEFINE m == <<s>> \o l
<1>1. /\ m \in Seq(S) /\ Len(m) = 1 + Len(l) /\ DOMAIN m = 1 .. (Len(l) + 1) /\ Len(l) \in Nat
      /\ DOMAIN l = 1 .. Len(l)
      /\ \A i \in 1 .. (Len(l) + 1) : m[i] = IF i = 1 THEN s ELSE l[i - 1]
  OBVIOUS
<1> HIDE DEF m
<1>2. \A i \in 1 .. Len(l) : l[i] # s
  BY <1>1 DEF ToSet
<1>3. IsInjective(m)
  <2> SUFFICES ASSUME NEW i \in 1 .. (Len(l) + 1), NEW j \in 1 .. (Len(l) + 1), m[i] = m[j], i # j
               PROVE  FALSE
    BY <1>1 DEF IsInjective
  <2>1. CASE i = 1 \/ j = 1
    BY <1>1, <1>2, <2>1
  <2>2. CASE i # 1 /\ j # 1
    <3>1. i - 1 \in DOMAIN l /\ j - 1 \in DOMAIN l /\ l[i - 1] = l[j - 1] /\ i - 1 # j - 1
      BY <1>1, <2>2
    <3> QED BY <3>1 DEF IsInjective
  <2> QED BY <2>1, <2>2
<1>4. \A x : x \in ToSet(m) => x \in ToSet(l) \cup {s}
  BY <1>1 DEF ToSet
<1>5. ASSUME NEW x \in ToSet(l) PROVE x \in ToSet(m)
  <2>1. PICK i \in 1 .. Len(l) : x = l[i]
    BY <1>1 DEF ToSet
  <2>2. i + 1 \in 1 .. (Len(l) + 1) /\ m[i + 1] = x
    BY <1>1, <2>1
  <2> QED BY <1>1, <2>2 DEF ToSet
<1>6. s \in ToSet(m)
  BY <1>1 DEF ToSet
<1>7. ToSet(m) = ToSet(l) \cup {s}
  BY <1>4, <1>5, <1>6
<1> QED BY <1>1, <1>3, <1>7 DEF m

LEMMA RemoveOnce ==
  ASSUME NEW S, NEW l \in Seq(S), NEW i \in DOMAIN l, IsInjective(l)
  PROVE  /\ RemoveAt(l, i) \in Seq(S) /\ IsInjective(RemoveAt(l, i))
         /\ ToSet(RemoveAt(l, i)) = ToSet(l) \ {l[i]}
<1> DEFINE n == Len(l)  a == SubSeq(l, 1, i - 1)  b == SubSeq(l, i + 1, n)  m == a \o b
<1>1. /\ n \in Nat /\ i \in 1 .. n /\ DOMAIN l = 1 .. n /\ \A k \in 1 .. n : l[k] \in S
      /\ i - 1 \in Int /\ i + 1 \in Int
  OBVIOUS
<1> HIDE DEF n
<1>2. a \in Seq(S) /\ Len(a) = i - 1 /\ \A k \in 1 .. (i - 1) : a[k] = l[k]
  <2>1. \A k \in 1 .. (i - 1) : l[k] \in S
    BY <1>1
  <2>2. /\ a \in Seq(S) /\ Len(a) = IF 1 <= i - 1 THEN i - 1 - 1 + 1 ELSE 0
        /\ \A k \in 1 .. (i - 1 - 1 + 1) : a[k] = l[1 + k - 1]
    BY <1>1, <2>1, SubSeqProperties
  <2> QED BY <1>1, <2>2
<1>3. b \in Seq(S) /\ Len(b) = n - i /\ \A k \in 1 .. (n - i) : b[k] = l[i + k]
  <2>1. \A k \in (i + 1) .. n : l[k] \in S
    BY <1>1
  <2>2. /\ b \in Seq(S) /\ Len(b) = IF i + 1 <= n THEN n - (i + 1) + 1 ELSE 0
        /\ \A k \in 1 .. (n - (i + 1) + 1) : b[k] = l[i + 1 + k - 1]
    BY <1>1, <2>1, SubSeqProperties
  <2> QED BY <1>1, <2>2
<1> HIDE DEF a, b
<1>4. /\ m \in Seq(S) /\ Len(m) = Len(a) + Len(b)
      /\ \A k \in 1 .. (Len(a) + Len(b)) : m[k] = IF k <= Len(a) THEN a[k] ELSE b[k - Len(a)]
  BY <1>2, <1>3, ConcatProperties, ZenonT(40)
<1> HIDE DEF m
<1>5. DOMAIN m = 1 .. (n - 1) /\ \A k \in 1 .. (n - 1) : m[k] = IF k < i THEN l[k] ELSE l[k + 1]
  <2>1. Len(m) = n - 1 /\ DOMAIN m = 1 .. (n - 1)
    BY <1>1, <1>2, <1>3, <1>4
  <2>2. ASSUME NEW k \in 1 .. (n - 1), k < i PROVE m[k] = l[k]
    <3>1. k \in 1 .. (i - 1) /\ k \in 1 .. (Len(a) + Len(b)) /\ k <= Len(a)
      BY <1>1, <1>2, <1>3, <2>2
    <3> QED BY <1>2, <1>4, <3>1
  <2>3. ASSUME NEW k \in 1 .. (n - 1), i <= k PROVE m[k] = l[k + 1]
    <3>1. /\ k - Len(a) \in 1 .. (n - i) /\ k \in 1 .. (Len(a) + Len(b)) /\ ~(k <= Len(a))
          /\ i + (k - Len(a)) = k + 1
      BY <1>1, <1>2, <1>3, <2>3
    <3>2. m[k] = b[k - Len(a)]
      BY <1>4, <3>1
    <3>3. b[k - Len(a)] = l[i + (k - Len(a))]
      BY <1>3, <3>1
    <3> QED BY <3>1, <3>2, <3>3
  <2> QED BY <1>1, <2>1, <2>2, <2>3
<1>6. \A j, k \in 1 .. n : l[j] = l[k] => j = k
  BY <1>1 DEF IsInjective
<1>7. IsInjective(m)
  <2> SUFFICES ASSUME NEW j \in 1 .. (n - 1), NEW k \in 1 .. (n - 1), m[j] = m[k] PROVE j = k
    BY <1>5 DEF IsInjective
  <2> DEFINE p == IF j < i THEN j ELSE j + 1  q == IF k < i THEN k ELSE k + 1
  <2>1. p \in 1 .. n /\ q \in 1 .. n /\ (p = q => j = k)
    BY <1>1
  <2>2. m[j] = l[p] /\ m[k] = l[q]
    BY <1>5
  <2> QED BY <1>6, <2>1, <2>2
<1>8. \A x : x \in ToSet(m) => x \in ToSet(l) /\ x # l[i]
  <2> SUFFICES ASSUME NEW k \in 1 .. (n - 1) PROVE m[k] \in ToSet(l) /\ m[k] # l[i]
    BY <1>5 DEF ToSet
  <2> DEFINE p == IF k < i THEN k ELSE k + 1
  <2>1. p \in 1 .. n /\ p # i /\ m[k] = l[p]
    BY <1>1, <1>5
  <2> QED BY <1>1, <1>6, <2>1 DEF ToSet
<1>9. ASSUME NEW x \in ToSet(l), x # l[i] PROVE x \in ToSet(m)
  <2>1. PICK k \in 1 .. n : x = l[k]
    BY <1>1 DEF ToSet
  <2> DEFINE p == IF k < i THEN k ELSE k - 1
  <2>2. p \in 1 .. (n - 1) /\ m[p] = x
    BY <1>1, <1>5, <1>9, <2>1
  <2> QED BY <1>5, <2>2 DEF ToSet
<1>10. ToSet(m) = ToSet(l) \ {l[i]}
  BY <1>8, <1>9
<1> QED BY <1>4, <1>7, <1>10 DEF m, a, b, n, RemoveAt

------------------------------------------------------------------------------------
(* The spans.                                                                        *)

Ends(s) == s + Length(s)

LEMMA Lengths ==
  ASSUME SpanTypes, NEW s \in Addr
  PROVE  /\ s \in Nat /\ Length(s) \in Nat
         /\ Mapped(s) => PerBucket <= Length(s)
         /\ s \in Small => Mapped(s) /\ Length(s) = PerBucket
         /\ span[s].kind = "large" => Mapped(s) /\ Length(s) = LargeSize
         /\ Mapped(s) => s \in Small \/ (span[s].kind \in {"large", "null"} /\ Length(s) = LargeSize)
  BY DEF SpanTypes, Kinds, Length, Mapped, Small, Addr

(* An address lies in one span at most.                                              *)
LEMMA InOne ==
  ASSUME SpanTypes, Apart, NEW r \in Addr, NEW s \in Addr, Mapped(r), Mapped(s), NEW p \in Int,
         r <= p, p < Ends(r), s <= p, p < Ends(s)
  PROVE  r = s
<1>1. r \in Int /\ s \in Int /\ Length(r) \in Int /\ Length(s) \in Int
  BY Lengths
<1>2. ~(r < s) /\ ~(s < r)
  BY <1>1 DEF Apart, Ends
<1> QED BY <1>1, <1>2

LEMMA NodesIn ==
  ASSUME SpanTypes, Apart, NEW s \in Small, NEW p \in Nodes(s)
  PROVE  s \in Addr /\ Mapped(s) /\ p \in Addr /\ p \in Int /\ s <= p /\ p < Ends(s)
<1>1. s \in Addr
  BY DEF Small
<1>2. s \in Int /\ Mapped(s) /\ Length(s) = PerBucket /\ 0 <= s
  BY <1>1, Lengths
<1>3. s + PerBucket - 1 <= Top
  BY <1>1, <1>2 DEF Apart
<1> QED BY <1>1, <1>2, <1>3 DEF Nodes, Ends, Addr

LEMMA NodesOfOne ==
  ASSUME SpanTypes, Apart, NEW r \in Small, NEW s \in Small, NEW p \in Nodes(r), p \in Nodes(s)
  PROVE  r = s
  BY NodesIn, InOne

LEMMA LargeApart ==
  ASSUME SpanTypes, Apart, NEW s \in Small, NEW p \in Addr, span[p].kind = "large"
  PROVE  p \notin Nodes(s)
<1> SUFFICES ASSUME p \in Nodes(s) PROVE FALSE
  OBVIOUS
<1>1. s \in Addr /\ Mapped(s) /\ p \in Int /\ s <= p /\ p < Ends(s)
  BY NodesIn
<1>2. Mapped(p) /\ p < Ends(p)
  BY <1>1, Lengths DEF Ends
<1>3. p = s
  BY <1>1, <1>2, InOne
<1> QED BY <1>3 DEF Small

(* find_bucket finds the span of a node, and a large block by its address.           *)
LEMMA FindsNode ==
  ASSUME Spans, NEW s \in Small, NEW p \in Nodes(s) PROVE find_bucket(p) = s
<1> USE DEF Spans
<1>1. s \in Addr /\ Mapped(s) /\ p \in Addr /\ p \in Int /\ s <= p /\ p < Ends(s) /\ s # NULL
  BY NodesIn DEF Addr
<1>2. /\ Length(s) = PerBucket /\ s \in Nat /\ p < s + PerBucket
      /\ bucket[BucketOf(s)] = s
  BY <1>1, Lengths DEF Ends, PageMap
<1> DEFINE b == BucketOf(s)  c == BucketOf(p)
<1>3. b \in Buckets /\ c \in Buckets /\ b \in Nat /\ c \in Nat /\ (c = b \/ c = b + 1)
  BY <1>1, <1>2, BucketsNear, BucketOfType
<1>4. CASE c = b
  BY <1>1, <1>2, <1>4 DEF find_bucket
<1>5. CASE c = b + 1
  <2>1. ASSUME bucket[c] # NULL, bucket[c] <= p PROVE FALSE
    <3> DEFINE x == bucket[c]
    <3>1. x \in Addr /\ Mapped(x) /\ BucketOf(x) = c
      BY <1>3, <2>1 DEF PageMap, SpanTypes
    <3>2. x # s
      BY <1>3, <1>5, <3>1
    <3>3. x \in Nat /\ Length(x) \in Nat /\ PerBucket <= Length(x)
      BY <3>1, Lengths
    <3>4. CASE s < x
      <4>1. Ends(s) <= x
        BY <1>1, <3>1, <3>4 DEF Apart, Ends
      <4> QED BY <1>1, <1>2, <2>1, <3>3, <4>1 DEF Ends
    <3>5. CASE x < s
      <4>1. x + PerBucket <= s
        BY <1>1, <1>2, <3>1, <3>3, <3>5 DEF Apart
      <4>2. BucketOf(x) < BucketOf(s)
        BY <1>1, <3>1, <4>1, BucketsApart
      <4> QED BY <1>3, <1>5, <3>1, <4>2
    <3> QED BY <1>2, <3>2, <3>3, <3>4, <3>5
  <2>2. ~(bucket[BucketOf(p)] # NULL /\ bucket[BucketOf(p)] <= p)
    BY <2>1
  <2>3. BucketOf(p) # 0 /\ bucket[BucketOf(p) - 1] = s
    BY <1>2, <1>3, <1>5
  <2>4. p - s < Length(s)
    BY <1>1, <1>2
  <2> QED BY <1>1, <2>2, <2>3, <2>4 DEF find_bucket
<1> QED BY <1>3, <1>4, <1>5

LEMMA FindsLarge ==
  ASSUME Spans, NEW p \in Addr, span[p].kind = "large" PROVE find_bucket(p) = p
<1>1. bucket[BucketOf(p)] = p /\ p # NULL /\ p \in Int
  BY Lengths DEF Spans, PageMap, Addr
<1> QED BY <1>1 DEF find_bucket

------------------------------------------------------------------------------------
(* The steps of a span.                                                              *)

(* Nodes of a span are taken or given back.                                          *)
LEMMA Refilled ==
  ASSUME Spans, NEW s \in Small, NEW F \in SUBSET Nodes(s), NEW k \in Int,
         k + Cardinality(F) = PerBucket,
         span' = [span EXCEPT ![s] = Record("small", F, k)], bucket' = bucket
  PROVE  /\ Spans' /\ Small' = Small
         /\ \A q : IsFree(q)' <=> IF q \in Nodes(s) THEN q \in F ELSE IsFree(q)
         /\ \A q \in Addr : (Owned(q)' <=> Owned(q)) /\ span'[q].kind = span[q].kind
<1> USE DEF Spans
<1>1. s \in Addr /\ Mapped(s) /\ \A q \in Nodes(s) : q \in Addr
  BY NodesIn DEF Small, Mapped
<1>2. F \in SUBSET Addr /\ span[s].kind = "small"
  BY <1>1 DEF Small
<1>3. \A r \in Addr : span'[r] = IF r = s THEN Record("small", F, k) ELSE span[r]
  BY DEF SpanTypes
<1>4. \A r \in Addr : span'[r].kind = span[r].kind /\ Length(r)' = Length(r) /\ (Mapped(r)' <=> Mapped(r))
  BY <1>2, <1>3 DEF Record, Length, Mapped
<1>5. SpanTypes'
  BY <1>2 DEF SpanTypes, Kinds, Record
<1>6. Small' = Small
  BY <1>4 DEF Small
<1>7. Apart'
  BY <1>4 DEF Apart
<1>8. PageMap'
  BY <1>4 DEF PageMap, SpanTypes
<1>9. NodesOK'
  <2> SUFFICES ASSUME NEW r \in Small
               PROVE  /\ span'[r].nd_free \subseteq Nodes(r)
                      /\ span'[r].nd_nnum + Cardinality(span'[r].nd_free) = PerBucket
    BY <1>6 DEF NodesOK, Nodes
  <2>1. r \in Addr
    BY DEF Small
  <2>2. CASE r = s
    BY <1>3, <2>1, <2>2 DEF Record
  <2>3. CASE r # s
    BY <1>3, <2>1, <2>3 DEF NodesOK
  <2> QED BY <2>2, <2>3
<1>10. \A r \in Small : span'[r].nd_free = IF r = s THEN F ELSE span[r].nd_free
  BY <1>3 DEF Record, Small
<1>11. \A r \in Small : r # s => \A q \in span[r].nd_free : q \notin Nodes(s)
  BY NodesOfOne DEF NodesOK
<1>12. \A q : IsFree(q)' <=> IF q \in Nodes(s) THEN q \in F ELSE IsFree(q)
  BY <1>6, <1>10, <1>11 DEF IsFree, NodesOK
<1>13. \A q \in Addr : Owned(q)' <=> Owned(q)
  BY <1>4, <1>6 DEF Owned, Nodes
<1>14. Blank'
  BY <1>3, <1>4 DEF Blank, Record, Mapped
<1>15. Placed'
  BY <1>2, <1>3 DEF Placed, Record
<1> QED BY <1>4, <1>5, <1>6, <1>7, <1>8, <1>9, <1>12, <1>13, <1>14, <1>15

(* A span or a block is made where there is place, or a header of memory that is not  *)
(* there at 0.                                                                       *)
Fits(s, n) == s + n - 1 <= Top /\ \A r \in Addr : Mapped(r) => Ends(r) <= s \/ s + n <= r

Makes(s, n, kind, F, k) ==
  /\ s \in Addr /\ n \in Int /\ F \in SUBSET Addr /\ k \in Int
  /\ \/ kind = "small" /\ n = PerBucket /\ Lowest <= s
     \/ kind = "large" /\ n = LargeSize /\ Lowest <= s
     \/ kind = "null" /\ n = LargeSize /\ s = 0 /\ F = {} /\ k = 0
  /\ Fits(s, n) /\ InsertSpan(s, Record(kind, F, k))

LEMMA FreeFits == ASSUME NEW s, NEW n, Free(s, n) PROVE Fits(s, n) /\ Lowest <= s
  BY DEF Free, Fits, Mapped, Ends

LEMMA Inserted ==
  ASSUME Spans, NEW s, NEW n, NEW kind, NEW F, NEW k, Makes(s, n, kind, F, k)
  PROVE  /\ SpanTypes' /\ Placed' /\ Apart' /\ PageMap' /\ Blank' /\ ~Mapped(s)
         /\ \A r \in Addr : span'[r] = IF r = s THEN Record(kind, F, k) ELSE span[r]
         /\ \A q \in Addr : span[q].kind = "large" => ~(s <= q /\ q < s + PerBucket)
         /\ \A r \in Small : \A q \in Nodes(r) : ~(s <= q /\ q < s + PerBucket)
<1> USE DEF Spans
<1>0. /\ s \in Addr /\ n \in Int /\ F \in SUBSET Addr /\ k \in Int
      /\ \/ kind = "small" /\ n = PerBucket /\ Lowest <= s
         \/ kind = "large" /\ n = LargeSize /\ Lowest <= s
         \/ kind = "null" /\ n = LargeSize /\ s = 0 /\ F = {} /\ k = 0
      /\ Fits(s, n) /\ InsertSpan(s, Record(kind, F, k))
  BY DEF Makes
<1>1. n \in Nat /\ PerBucket <= n /\ s \in Nat /\ s # NULL
  BY <1>0 DEF Addr
<1>2. /\ s + n - 1 <= Top
      /\ \A r \in Addr : Mapped(r) => Ends(r) <= s \/ s + n <= r
  BY <1>0 DEF Fits
<1>3. \A r \in Addr : span'[r] = IF r = s THEN Record(kind, F, k) ELSE span[r]
  BY <1>0 DEF InsertSpan, SpanTypes
<1>4. \A r \in Addr : /\ Length(r)' = IF r = s THEN n ELSE Length(r)
                      /\ Mapped(r)' <=> r = s \/ Mapped(r)
  BY <1>0, <1>3 DEF Record, Length, Mapped
<1>5. ~Mapped(s)
  <2> SUFFICES ASSUME Mapped(s) PROVE FALSE
    OBVIOUS
  <2>1. Length(s) \in Nat /\ PerBucket <= Length(s)
    BY <1>0, Lengths
  <2> QED BY <1>0, <1>1, <1>2, <2>1 DEF Ends
<1>6. SpanTypes'
  BY <1>0, <1>1, BucketOfType DEF SpanTypes, Kinds, InsertSpan, Record
<1>7. Apart'
  <2>1. \A r \in Addr : Mapped(r)' => r + Length(r)' - 1 <= Top
    BY <1>0, <1>2, <1>4 DEF Apart
  <2>2. ASSUME NEW r \in Addr, NEW q \in Addr, Mapped(r)', Mapped(q)', r < q
        PROVE  r + Length(r)' <= q
    <3>1. CASE r = s
      <4>1. q # s /\ Mapped(q) /\ Length(r)' = n
        BY <1>0, <1>1, <1>4, <2>2, <3>1
      <4>2. q \in Nat /\ Length(q) \in Nat /\ (Ends(q) <= s \/ s + n <= q)
        BY <1>2, <4>1, Lengths
      <4> QED BY <1>1, <2>2, <3>1, <4>1, <4>2 DEF Ends
    <3>2. CASE q = s
      <4>1. r # s /\ Mapped(r) /\ Length(r)' = Length(r)
        BY <1>0, <1>1, <1>4, <2>2, <3>2
      <4>2. r \in Nat /\ Length(r) \in Nat /\ (Ends(r) <= s \/ s + n <= r)
        BY <1>2, <4>1, Lengths
      <4> QED BY <1>1, <2>2, <3>2, <4>1, <4>2 DEF Ends
    <3>3. CASE r # s /\ q # s
      BY <1>4, <2>2, <3>3 DEF Apart
    <3> QED BY <3>1, <3>2, <3>3
  <2> QED BY <2>1, <2>2 DEF Apart
<1>8. ASSUME NEW r \in Addr, Mapped(r) PROVE BucketOf(r) # BucketOf(s)
  <2>1. r \in Nat /\ Length(r) \in Nat /\ PerBucket <= Length(r)
    BY <1>8, Lengths
  <2>2. r + PerBucket <= s \/ s + PerBucket <= r
    BY <1>1, <1>2, <1>8, <2>1 DEF Ends
  <2>3. BucketOf(r) < BucketOf(s) \/ BucketOf(s) < BucketOf(r)
    BY <1>0, <2>2, BucketsApart
  <2>4. BucketOf(r) \in Nat /\ BucketOf(s) \in Nat
    BY <1>0, BucketOfType
  <2> QED BY <2>3, <2>4
<1>9. PageMap'
  <2>1. \A b \in Buckets : bucket'[b] = IF b = BucketOf(s) THEN s ELSE bucket[b]
    BY <1>0 DEF InsertSpan, SpanTypes
  <2>2. ASSUME NEW b \in Buckets, bucket'[b] # NULL PROVE Mapped(bucket[b])' /\ BucketOf(bucket'[b]) = b
    <3>1. CASE b = BucketOf(s)
      BY <1>0, <1>1, <1>4, <2>1, <3>1 DEF Mapped
    <3>2. CASE b # BucketOf(s)
      BY <1>4, <2>1, <2>2, <3>2 DEF PageMap, SpanTypes, Mapped
    <3> QED BY <3>1, <3>2
  <2>3. ASSUME NEW r \in Addr, Mapped(r)' PROVE bucket'[BucketOf(r)] = r
    <3>1. BucketOf(r) \in Buckets
      BY BucketOfType
    <3>2. r = s \/ Mapped(r)
      BY <1>4, <2>3
    <3> QED BY <1>8, <2>1, <3>1, <3>2 DEF PageMap
  <2> QED BY <2>2, <2>3 DEF PageMap, BucketOf
<1>10. ASSUME NEW r \in Addr, Mapped(r), NEW q \in Int, r <= q, q < Ends(r)
       PROVE  ~(s <= q /\ q < s + PerBucket)
  <2>1. r \in Nat /\ Length(r) \in Nat
    BY Lengths
  <2> QED BY <1>1, <1>2, <1>10, <2>1 DEF Ends
<1>11. \A q \in Addr : span[q].kind = "large" => ~(s <= q /\ q < s + PerBucket)
  <2> SUFFICES ASSUME NEW q \in Addr, span[q].kind = "large" PROVE ~(s <= q /\ q < s + PerBucket)
    OBVIOUS
  <2>1. Mapped(q) /\ q \in Int /\ q <= q /\ q < Ends(q)
    BY Lengths DEF Ends
  <2> QED BY <1>10, <2>1
<1>12. \A r \in Small : \A q \in Nodes(r) : ~(s <= q /\ q < s + PerBucket)
  BY <1>10, NodesIn
<1>13. Blank'
  BY <1>0, <1>3, <1>4 DEF Blank, Record, Mapped
<1>14. Placed'
  <2> SUFFICES ASSUME NEW r \in Addr
               PROVE  /\ span'[r].kind \in {"small", "large"} => Lowest <= r
                      /\ span'[r].kind = "null" => r = 0 /\ span'[r] = Record("null", {}, 0)
    BY DEF Placed, Record
  <2>1. CASE r = s
    <3>1. span'[r] = Record(kind, F, k) /\ span'[r].kind = kind
      BY <1>3, <2>1 DEF Record
    <3> QED BY <1>0, <2>1, <3>1
  <2>2. CASE r # s
    <3>1. span'[r] = span[r]
      BY <1>3, <2>2
    <3> QED BY <3>1 DEF Placed
  <2> QED BY <2>1, <2>2
<1> QED BY <1>3, <1>5, <1>6, <1>7, <1>9, <1>11, <1>12, <1>13, <1>14

LEMMA Created ==
  ASSUME Spans, NEW s \in Addr, NEW F \in SUBSET Nodes(s), NEW k \in Int, k + Cardinality(F) = PerBucket,
         Free(s, PerBucket), InsertSpan(s, Record("small", F, k))
  PROVE  /\ Spans' /\ Small' = Small \cup {s} /\ s \notin Small
         /\ \A q \in Nodes(s) : q \in Addr /\ ~Owned(q) /\ ~IsFree(q)
         /\ \A q : IsFree(q)' <=> q \in F \/ IsFree(q)
         /\ \A q \in Addr : /\ Owned(q)' <=> q \in Nodes(s) \/ Owned(q)
                            /\ span'[q].kind = "large" <=> span[q].kind = "large"
<1>1. s \in Nat /\ \A q \in Nodes(s) : q \in Addr /\ s <= q /\ q < s + PerBucket
  BY DEF Free, Nodes, Addr
<1>2. /\ SpanTypes' /\ Placed' /\ Apart' /\ PageMap' /\ Blank' /\ ~Mapped(s)
      /\ \A r \in Addr : span'[r] = IF r = s THEN Record("small", F, k) ELSE span[r]
      /\ \A q \in Addr : span[q].kind = "large" => ~(s <= q /\ q < s + PerBucket)
      /\ \A r \in Small : \A q \in Nodes(r) : ~(s <= q /\ q < s + PerBucket)
  <2> DEFINE kind == "small"  n == PerBucket
  <2>1. Makes(s, n, kind, F, k)
    BY <1>1, FreeFits DEF Makes
  <2>2. /\ SpanTypes' /\ Placed' /\ Apart' /\ PageMap' /\ Blank' /\ ~Mapped(s)
        /\ \A r \in Addr : span'[r] = IF r = s THEN Record(kind, F, k) ELSE span[r]
        /\ \A q \in Addr : span[q].kind = "large" => ~(s <= q /\ q < s + PerBucket)
        /\ \A r \in Small : \A q \in Nodes(r) : ~(s <= q /\ q < s + PerBucket)
    <3> HIDE DEF kind, n
    <3> QED BY <2>1, Inserted, Zenon
  <2> QED BY <2>2
<1>3. Small' = Small \cup {s} /\ s \notin Small
  BY <1>2 DEF Small, Record, Mapped
<1>4. \A r \in Small' : span'[r].nd_free = IF r = s THEN F ELSE span[r].nd_free
  BY <1>2 DEF Record, Small
<1>5. NodesOK'
  <2> SUFFICES ASSUME NEW r \in Small'
               PROVE  /\ span'[r].nd_free \subseteq Nodes(r)
                      /\ span'[r].nd_nnum + Cardinality(span'[r].nd_free) = PerBucket
    BY DEF NodesOK, Nodes
  <2>1. CASE r = s
    BY <1>2, <2>1 DEF Record
  <2>2. CASE r # s
    BY <1>2, <1>3, <2>2 DEF Spans, NodesOK, Small
  <2> QED BY <2>1, <2>2
<1>6. \A q \in Nodes(s) : ~Owned(q)
  BY <1>1, <1>2 DEF Owned
<1>7. \A q : IsFree(q) => \E r \in Small : q \in Nodes(r)
  BY DEF IsFree, Spans, NodesOK
<1>8. \A q \in Nodes(s) : ~IsFree(q)
  BY <1>6, <1>7 DEF Owned
<1>9. \A q : IsFree(q)' <=> q \in F \/ IsFree(q)
  BY <1>3, <1>4 DEF IsFree
<1>10. \A q \in Addr : /\ Owned(q)' <=> q \in Nodes(s) \/ Owned(q)
                       /\ span'[q].kind = "large" <=> span[q].kind = "large"
  <2>1. \A q \in Addr : span'[q].kind = "large" <=> span[q].kind = "large"
    BY <1>2 DEF Record, Mapped
  <2> QED BY <1>3, <2>1 DEF Owned, Nodes
<1> QED BY <1>1, <1>2, <1>3, <1>5, <1>6, <1>8, <1>9, <1>10 DEF Spans

LEMMA CreatedLarge ==
  ASSUME Spans, NEW s \in Addr, Free(s, LargeSize), InsertSpan(s, Record("large", {}, 1))
  PROVE  /\ Spans' /\ Small' = Small /\ ~Owned(s) /\ (\A r \in Small : span'[r] = span[r])
         /\ \A q : IsFree(q)' <=> IsFree(q)
         /\ \A q \in Addr : /\ Owned(q)' <=> q = s \/ Owned(q)
                            /\ span'[q].kind = "large" <=> q = s \/ span[q].kind = "large"
<1>1. /\ SpanTypes' /\ Placed' /\ Apart' /\ PageMap' /\ Blank' /\ ~Mapped(s)
      /\ \A r \in Addr : span'[r] = IF r = s THEN Record("large", {}, 1) ELSE span[r]
      /\ \A q \in Addr : span[q].kind = "large" => ~(s <= q /\ q < s + PerBucket)
      /\ \A r \in Small : \A q \in Nodes(r) : ~(s <= q /\ q < s + PerBucket)
  <2> DEFINE kind == "large"  n == LargeSize  F == {}  k == 1
  <2>1. Makes(s, n, kind, F, k)
    BY FreeFits DEF Makes
  <2>2. /\ SpanTypes' /\ Placed' /\ Apart' /\ PageMap' /\ Blank' /\ ~Mapped(s)
        /\ \A r \in Addr : span'[r] = IF r = s THEN Record(kind, F, k) ELSE span[r]
        /\ \A q \in Addr : span[q].kind = "large" => ~(s <= q /\ q < s + PerBucket)
        /\ \A r \in Small : \A q \in Nodes(r) : ~(s <= q /\ q < s + PerBucket)
    <3> HIDE DEF kind, n, F, k
    <3> QED BY <2>1, Inserted, Zenon
  <2> QED BY <2>2
<1>2. Small' = Small /\ \A r \in Small : span'[r] = span[r]
  BY <1>1 DEF Small, Record, Mapped
<1>3. NodesOK'
  BY <1>2 DEF Spans, NodesOK, Nodes
<1>4. ~Owned(s)
  BY <1>1 DEF Owned, Addr
<1>5. \A q : IsFree(q)' <=> IsFree(q)
  BY <1>2 DEF IsFree
<1>6. \A q \in Addr : span'[q].kind = "large" <=> q = s \/ span[q].kind = "large"
  BY <1>1 DEF Record
<1>7. \A q \in Addr : Owned(q)' <=> q = s \/ Owned(q)
  BY <1>2, <1>6 DEF Owned, Nodes
<1> QED BY <1>1, <1>2, <1>3, <1>4, <1>5, <1>6, <1>7 DEF Spans

(* A span or a large block is given up.                                              *)
LEMMA Dropped ==
  ASSUME Spans, NEW s \in Addr, Mapped(s),
         span' = [span EXCEPT ![s] = NoSpan], bucket' = [bucket EXCEPT ![BucketOf(s)] = NULL]
  PROVE  /\ Spans' /\ Small' = Small \ {s} /\ (\A r \in Small' : span'[r] = span[r])
         /\ \A q : IsFree(q)' <=> IsFree(q) /\ ~(s \in Small /\ q \in Nodes(s))
         /\ \A q \in Addr : /\ Owned(q)' <=> Owned(q) /\ q # s /\ ~(s \in Small /\ q \in Nodes(s))
                            /\ span'[q].kind = "large" => span[q].kind = "large"
<1> USE DEF Spans
<1>1. \A r \in Addr : span'[r] = IF r = s THEN NoSpan ELSE span[r]
  BY DEF SpanTypes
<1>2. \A r \in Addr : /\ r # s => Length(r)' = Length(r)
                      /\ Mapped(r)' <=> r # s /\ Mapped(r)
  BY <1>1 DEF NoSpan, Length, Mapped
<1>3. SpanTypes'
  <2>1. NoSpan \in [kind : Kinds, nd_free : SUBSET Addr, nd_nnum : Int]
    BY DEF NoSpan, Kinds
  <2> QED BY <2>1 DEF SpanTypes
<1>4. Apart'
  BY <1>2 DEF Apart
<1>5. BucketOf(s) \in Buckets /\ bucket[BucketOf(s)] = s
  BY BucketOfType DEF PageMap
<1>6. \A b \in Buckets : bucket'[b] = IF b = BucketOf(s) THEN NULL ELSE bucket[b]
  BY DEF SpanTypes
<1>7. PageMap'
  <2>1. ASSUME NEW b \in Buckets, bucket'[b] # NULL PROVE Mapped(bucket[b])' /\ BucketOf(bucket'[b]) = b
    BY <1>2, <1>5, <1>6, <2>1 DEF PageMap, SpanTypes, Mapped
  <2>2. ASSUME NEW r \in Addr, Mapped(r)' PROVE bucket'[BucketOf(r)] = r
    <3>1. BucketOf(r) \in Buckets /\ r # s /\ bucket[BucketOf(r)] = r
      BY <1>2, <2>2, BucketOfType DEF PageMap
    <3> QED BY <1>5, <1>6, <3>1
  <2> QED BY <2>1, <2>2 DEF PageMap, BucketOf
<1>8. Small' = Small \ {s} /\ \A r \in Small' : span'[r] = span[r]
  BY <1>1 DEF Small, NoSpan
<1>9. NodesOK'
  BY <1>8 DEF NodesOK, Nodes
<1>10. \A r \in Small : r # s => \A q \in Nodes(r) : q # s /\ ~(s \in Small /\ q \in Nodes(s))
  <2> SUFFICES ASSUME NEW r \in Small, r # s, NEW q \in Nodes(r) PROVE q # s /\ ~(s \in Small /\ q \in Nodes(s))
    OBVIOUS
  <2>1. r \in Addr /\ Mapped(r) /\ q \in Int /\ r <= q /\ q < Ends(r)
    BY NodesIn
  <2>2. s <= s /\ s < Ends(s)
    BY Lengths DEF Ends
  <2> QED BY <2>1, <2>2, InOne, NodesOfOne
<1>11. \A q : IsFree(q)' <=> IsFree(q) /\ ~(s \in Small /\ q \in Nodes(s))
  BY <1>8, <1>10 DEF IsFree, NodesOK
<1>12. \A q \in Addr : span'[q].kind = "large" <=> q # s /\ span[q].kind = "large"
  BY <1>1 DEF NoSpan
<1>13. s \in Small => s \in Nodes(s)
  BY Lengths DEF Nodes
<1>14. \A q \in Addr : Owned(q)' <=> Owned(q) /\ q # s /\ ~(s \in Small /\ q \in Nodes(s))
  <2>1. \A q \in Addr : span[q].kind = "large" => ~(s \in Small /\ q \in Nodes(s))
    BY LargeApart
  <2>2. \A q \in Addr : (\E r \in Small' : q \in Nodes(r)) <=>
                        (\E r \in Small : q \in Nodes(r)) /\ q # s /\ ~(s \in Small /\ q \in Nodes(s))
    BY <1>8, <1>10, <1>13
  <2>3. \A q \in Addr : Owned(q)' <=> (\E r \in Small' : q \in Nodes(r)) \/ span'[q].kind = "large"
    BY DEF Owned, Nodes
  <2> QED BY <1>12, <2>1, <2>2, <2>3 DEF Owned
<1>15. Blank'
  BY <1>1, <1>2 DEF Blank, NoSpan, Mapped
<1>16. Placed'
  BY <1>1 DEF Placed, NoSpan
<1> QED BY <1>3, <1>4, <1>7, <1>8, <1>9, <1>11, <1>12, <1>14, <1>15, <1>16

------------------------------------------------------------------------------------
(* Nodes are taken from the head of the list, or from a new span.                    *)

LEMMA Counted ==
  ASSUME NEW s \in Addr, NEW F \in SUBSET Nodes(s)
  PROVE  IsFiniteSet(F) /\ Cardinality(F) \in Nat /\ Cardinality(F) <= PerBucket
<1>1. IsFiniteSet(Nodes(s)) /\ Cardinality(Nodes(s)) = PerBucket
  BY NodesCount
<1> QED BY <1>1, FS_Subset, FS_CardinalityType

LEMMA HeadGives ==
  ASSUME Inv, NEW s \in Addr, NEW free \in SUBSET Nodes(s), HeadOrNew(s, free)
  PROVE  /\ span[s].nd_nnum + Cardinality(free) = PerBucket /\ span[s].nd_nnum \in Int
         /\ \/ /\ sl_list # <<>> /\ s = Head(sl_list) /\ s \in Small /\ free = span[s].nd_free
               /\ \A q \in Nodes(s) : q \in Addr /\ Owned(q) /\ (IsFree(q) <=> q \in free)
            \/ /\ sl_list = <<>> /\ Free(s, PerBucket) /\ ~Mapped(s) /\ free = Nodes(s)
<1> USE DEF Inv, TypeOK, Spans
<1>0. span[s].nd_nnum \in Int
  BY DEF SpanTypes
<1>1. CASE sl_list # <<>> /\ s = Head(sl_list) /\ free = span[s].nd_free
  <2>1. s \in Small
    BY <1>1, TailOnce DEF ListSound
  <2>2. span[s].nd_nnum + Cardinality(free) = PerBucket
    BY <1>1, <2>1 DEF NodesOK
  <2>3. \A q \in Nodes(s) : q \in Addr /\ Owned(q)
    BY <2>1, NodesIn DEF Owned
  <2>4. \A q \in Nodes(s) : IsFree(q) <=> q \in free
    BY <1>1, <2>1, NodesOfOne DEF IsFree, NodesOK
  <2> QED BY <1>0, <1>1, <2>1, <2>2, <2>3, <2>4
<1>2. CASE sl_list = <<>> /\ Free(s, PerBucket) /\ free = s .. (s + NodesPerSpan - 1)
  <2>1. ~Mapped(s)
    <3> SUFFICES ASSUME Mapped(s) PROVE FALSE
      OBVIOUS
    <3>1. s \in Nat /\ Length(s) \in Nat /\ PerBucket <= Length(s)
      BY Lengths
    <3>2. s + Length(s) <= s \/ s + PerBucket <= s
      BY <1>2 DEF Free, Mapped
    <3> QED BY <3>1, <3>2
  <2>2. free = Nodes(s)
    BY <1>2 DEF Nodes, NodesPerSpan
  <2>3. span[s].nd_nnum = 0
    BY <2>1 DEF Blank
  <2>4. Cardinality(free) = PerBucket
    BY <2>2, NodesCount
  <2> QED BY <1>0, <1>2, <2>1, <2>2, <2>3, <2>4
<1> QED BY <1>1, <1>2 DEF HeadOrNew

(* What Take does to the spans, the list and the free nodes.                         *)
LEMMA TakeStep ==
  ASSUME Inv, NEW s \in Addr, NEW free \in SUBSET Nodes(s), HeadOrNew(s, free), NEW n,
         NEW rest \in SUBSET free, NEW num \in Int, num + Cardinality(rest) = PerBucket,
         Take(s, n, rest, num)
  PROVE  /\ Spans' /\ sl_list' \in Seq(Addr) /\ ListSound'
         /\ \A q \in Addr : /\ IsFree(q)' <=> IF q \in Nodes(s) THEN q \in rest ELSE IsFree(q)
                            /\ Owned(q)' <=> q \in Nodes(s) \/ Owned(q)
                            /\ span'[q].kind = "large" <=> span[q].kind = "large"
         /\ \A q \in Nodes(s) : q \in Addr /\ IF q \in free THEN IsFree(q) \/ ~Owned(q) ELSE ~IsFree(q) /\ Owned(q)
<1> USE DEF Inv, TypeOK
<1>1. span' = [span EXCEPT ![s] = Record("small", rest, num)] /\ rest \in SUBSET Nodes(s)
  BY DEF Take, Record
<1>2. \A r \in Addr : span'[r] = IF r = s THEN Record("small", rest, num) ELSE span[r]
  BY <1>1 DEF SpanTypes
<1>3. CASE sl_list # <<>> /\ s = Head(sl_list) /\ s \in Small /\ free = span[s].nd_free
           /\ \A q \in Nodes(s) : q \in Addr /\ Owned(q) /\ (IsFree(q) <=> q \in free)
  <2>1. bucket[BucketOf(s)] = s
    BY <1>3, Lengths DEF Spans, PageMap
  <2>2. bucket' = bucket
    BY <2>1 DEF Take, SpanTypes
  <2>3. /\ Spans' /\ Small' = Small
        /\ \A q : IsFree(q)' <=> IF q \in Nodes(s) THEN q \in rest ELSE IsFree(q)
        /\ \A q \in Addr : (Owned(q)' <=> Owned(q)) /\ span'[q].kind = span[q].kind
    BY <1>1, <1>3, <2>2, Refilled
  <2>4. /\ sl_list' \in Seq(Addr) /\ IsInjective(sl_list')
        /\ ToSet(sl_list') = IF rest = {} THEN ToSet(sl_list) \ {s} ELSE ToSet(sl_list)
        /\ s \in ToSet(sl_list)
    BY <1>3, TailOnce DEF Take, ListSound
  <2>5. ListSound'
    <3>1. ASSUME NEW r \in ToSet(sl_list') PROVE r \in Small /\ span'[r].nd_free # {}
      <4>1. r \in Small /\ r \in Addr /\ span[r].nd_free # {} /\ (r = s => rest # {})
        BY <2>4, <3>1 DEF ListSound, Small
      <4> QED BY <1>2, <4>1 DEF Record
    <3>2. ASSUME NEW r \in Small, r \notin ToSet(sl_list')
          PROVE  span'[r].nd_free = {} \/ span'[r].nd_nnum = 0
      <4>1. r \in Addr
        BY <3>2 DEF Small
      <4>2. CASE r = s
        BY <1>2, <2>4, <3>2, <4>1, <4>2 DEF Record
      <4>3. CASE r # s
        <5>1. span'[r] = span[r] /\ r \notin ToSet(sl_list)
          BY <1>2, <2>4, <3>2, <4>1, <4>3
        <5> QED BY <3>2, <5>1 DEF ListSound
      <4> QED BY <4>2, <4>3
    <3> QED BY <2>3, <2>4, <3>1, <3>2 DEF ListSound
  <2> QED BY <1>3, <2>3, <2>4, <2>5
<1>4. CASE sl_list = <<>> /\ Free(s, PerBucket) /\ ~Mapped(s) /\ free = Nodes(s)
  <2>1. InsertSpan(s, Record("small", rest, num))
    BY <1>1 DEF Take, InsertSpan
  <2>2. /\ Spans' /\ Small' = Small \cup {s} /\ s \notin Small
        /\ \A q \in Nodes(s) : q \in Addr /\ ~Owned(q) /\ ~IsFree(q)
        /\ \A q : IsFree(q)' <=> q \in rest \/ IsFree(q)
        /\ \A q \in Addr : /\ Owned(q)' <=> q \in Nodes(s) \/ Owned(q)
                           /\ span'[q].kind = "large" <=> span[q].kind = "large"
    BY <1>1, <1>4, <2>1, Created
  <2>3. sl_list' = IF rest = {} THEN <<>> ELSE <<s>>
    BY <1>4 DEF Take
  <2>4. /\ sl_list' \in Seq(Addr) /\ IsInjective(sl_list')
        /\ ToSet(sl_list') = IF rest = {} THEN {} ELSE {s}
    <3>1. CASE rest = {}
      BY <2>3, <3>1 DEF IsInjective, ToSet
    <3>2. CASE rest # {}
      <4>1. DOMAIN sl_list' = {1} /\ sl_list'[1] = s
        BY <2>3, <3>2
      <4>2. sl_list' \in Seq(Addr)
        BY <2>3, <3>2
      <4> QED BY <3>2, <4>1, <4>2 DEF IsInjective, ToSet
    <3> QED BY <3>1, <3>2
  <2>5. ToSet(sl_list) = {}
    BY <1>4 DEF ToSet
  <2>6. ListSound'
    <3>1. ASSUME NEW r \in ToSet(sl_list') PROVE r \in Small' /\ span'[r].nd_free # {}
      BY <1>2, <2>2, <2>4, <3>1 DEF Record
    <3>2. ASSUME NEW r \in Small', r \notin ToSet(sl_list')
          PROVE  span'[r].nd_free = {} \/ span'[r].nd_nnum = 0
      BY <1>2, <2>2, <2>4, <2>5, <3>2 DEF ListSound, Record, Small
    <3> QED BY <2>4, <3>1, <3>2 DEF ListSound
  <2>7. \A q : q \in rest => q \in Nodes(s)
    OBVIOUS
  <2> QED BY <1>4, <2>2, <2>4, <2>6, <2>7
<1> QED BY <1>3, <1>4, HeadGives

------------------------------------------------------------------------------------
(* A node goes back to its span.                                                     *)

LEMMA GivesBack ==
  ASSUME Inv, NEW s \in Small, NEW p \in Nodes(s), p \notin span[s].nd_free
  PROVE  /\ span[s].nd_nnum \in Int
         /\ span[s].nd_free \cup {p} \in SUBSET Nodes(s)
         /\ (span[s].nd_nnum - 1) + Cardinality(span[s].nd_free \cup {p}) = PerBucket
         /\ span[s].nd_nnum = 1 => span[s].nd_free \cup {p} = Nodes(s)
<1> USE DEF Inv, TypeOK, Spans
<1> DEFINE F == span[s].nd_free  G == F \cup {p}
<1>1. s \in Addr
  BY DEF Small
<1>2. span[s].nd_nnum \in Int
  BY <1>1 DEF SpanTypes
<1>3. F \in SUBSET Nodes(s) /\ span[s].nd_nnum + Cardinality(F) = PerBucket
  BY DEF NodesOK
<1>4. IsFiniteSet(F) /\ Cardinality(F) \in Nat
  BY <1>1, <1>3, Counted
<1>5. Cardinality(G) = Cardinality(F) + 1
  BY <1>4, FS_AddElement
<1>6. G \in SUBSET Nodes(s)
  BY <1>3
<1>7. (span[s].nd_nnum - 1) + Cardinality(G) = PerBucket
  <2> DEFINE k == span[s].nd_nnum  c == Cardinality(F)  d == Cardinality(G)
  <2>1. k \in Int /\ c \in Nat /\ k + c = PerBucket /\ d = c + 1
    BY <1>2, <1>3, <1>4, <1>5
  <2> HIDE DEF k, c, d
  <2>2. (k - 1) + d = PerBucket
    BY <2>1
  <2> QED BY <2>2 DEF k, d
<1>8. ASSUME span[s].nd_nnum = 1 PROVE G = Nodes(s)
  <2>1. IsFiniteSet(Nodes(s)) /\ Cardinality(Nodes(s)) = PerBucket
    BY <1>1, NodesCount
  <2>2. Cardinality(G) = PerBucket
    BY <1>3, <1>4, <1>5, <1>8
  <2> QED BY <1>6, <2>1, <2>2, FS_Subset
<1> QED BY <1>2, <1>6, <1>7, <1>8

(* The list with the span at its head, if it was not in it.                          *)
LEMMA PushedIs ==
  ASSUME Inv, NEW s \in Small, NEW p \in Nodes(s), p \notin span[s].nd_free
  PROVE  /\ Pushed(s) \in Seq(Addr) /\ IsInjective(Pushed(s))
         /\ ToSet(Pushed(s)) = ToSet(sl_list) \cup {s}
         /\ Unlinked(Pushed(s), s) \in Seq(Addr) /\ IsInjective(Unlinked(Pushed(s), s))
         /\ ToSet(Unlinked(Pushed(s), s)) = ToSet(sl_list) \ {s}
<1> USE DEF Inv, TypeOK
<1>1. s \in Addr
  BY DEF Small
<1>2. Pushed(s) \in Seq(Addr) /\ IsInjective(Pushed(s)) /\ ToSet(Pushed(s)) = ToSet(sl_list) \cup {s}
  <2>1. CASE span[s].nd_free = {}
    <3>1. s \notin ToSet(sl_list)
      BY <2>1 DEF ListSound
    <3> QED BY <1>1, <2>1, <3>1, PushOnce DEF Pushed, ListSound
  <2>2. CASE span[s].nd_free # {}
    <3>1. span[s].nd_nnum # 0
      <4> SUFFICES ASSUME span[s].nd_nnum = 0 PROVE FALSE
        OBVIOUS
      <4>1. (0 - 1) + Cardinality(span[s].nd_free \cup {p}) = PerBucket
        BY GivesBack
      <4>2. span[s].nd_free \cup {p} \in SUBSET Nodes(s)
        BY GivesBack
      <4>3. /\ Cardinality(span[s].nd_free \cup {p}) \in Nat
            /\ Cardinality(span[s].nd_free \cup {p}) <= PerBucket
        BY <1>1, <4>2, Counted
      <4> QED BY <4>1, <4>3
    <3>2. s \in ToSet(sl_list)
      BY <2>2, <3>1 DEF ListSound
    <3>3. ToSet(sl_list) = ToSet(sl_list) \cup {s}
      BY <3>2
    <3> QED BY <2>2, <3>3 DEF Pushed, ListSound
  <2> QED BY <2>1, <2>2
<1> DEFINE l == Pushed(s)  i == CHOOSE j \in DOMAIN l : l[j] = s
<1>3. i \in DOMAIN l /\ l[i] = s
  <2>1. s \in {l[j] : j \in DOMAIN l}
    BY <1>2 DEF ToSet
  <2>2. \E j \in DOMAIN l : l[j] = s
    BY <2>1, Zenon
  <2> QED BY <2>2, Zenon
<1>4. Unlinked(l, s) = RemoveAt(l, i)
  BY DEF Unlinked
<1>5. ToSet(l) \ {s} = ToSet(sl_list) \ {s}
  BY <1>2
<1> HIDE DEF i, l
<1>6. /\ RemoveAt(l, i) \in Seq(Addr) /\ IsInjective(RemoveAt(l, i))
      /\ ToSet(RemoveAt(l, i)) = ToSet(l) \ {l[i]}
  BY <1>2, <1>3, RemoveOnce DEF l
<1> QED BY <1>2, <1>3, <1>4, <1>5, <1>6 DEF l

(* It stays in the list, and so does its span.                                       *)
LEMMA Kept ==
  ASSUME Inv, NEW s \in Small, NEW p \in Nodes(s), p \notin span[s].nd_free,
         span' = [span EXCEPT ![s] = Back(s, p)], bucket' = bucket
  PROVE  /\ Spans'
         /\ \A q \in Addr : /\ IsFree(q)' <=> q = p \/ IsFree(q)
                            /\ Owned(q)' <=> Owned(q)
                            /\ span'[q].kind = "large" <=> span[q].kind = "large"
         /\ sl_list' = Pushed(s) => sl_list' \in Seq(Addr) /\ ListSound'
         /\ sl_list' = Unlinked(Pushed(s), s) /\ span[s].nd_nnum = 1
              => sl_list' \in Seq(Addr) /\ ListSound'
<1> USE DEF Inv, TypeOK
<1> DEFINE G == span[s].nd_free \cup {p}  k == span[s].nd_nnum - 1
<1>1. span' = [span EXCEPT ![s] = Record("small", G, k)]
  BY DEF Back, Record
<1>2. G \in SUBSET Nodes(s) /\ k \in Int /\ k + Cardinality(G) = PerBucket
  <2>1. /\ span[s].nd_nnum \in Int /\ span[s].nd_free \cup {p} \in SUBSET Nodes(s)
        /\ (span[s].nd_nnum - 1) + Cardinality(span[s].nd_free \cup {p}) = PerBucket
    BY GivesBack
  <2> QED BY <2>1
<1> HIDE DEF G, k
<1>3. /\ Spans' /\ Small' = Small
      /\ \A q : IsFree(q)' <=> IF q \in Nodes(s) THEN q \in G ELSE IsFree(q)
      /\ \A q \in Addr : (Owned(q)' <=> Owned(q)) /\ span'[q].kind = span[q].kind
  BY <1>1, <1>2, Refilled
<1>4. \A q \in Nodes(s) : IsFree(q) <=> q \in span[s].nd_free
  BY NodesOfOne DEF IsFree, Spans, NodesOK
<1>5. \A q : IsFree(q)' <=> q = p \/ IsFree(q)
  BY <1>3, <1>4 DEF G
<1>6. \A r \in Small : span'[r] = IF r = s THEN Record("small", G, k) ELSE span[r]
  BY <1>1 DEF SpanTypes, Small
<1>7. \A r \in ToSet(sl_list) : r \in Small /\ span[r].nd_free # {}
  BY DEF ListSound
<1>8. \A r \in ToSet(sl_list) \cup {s} : r \in Small /\ span'[r].nd_free # {}
  <2> SUFFICES ASSUME NEW r \in ToSet(sl_list) \cup {s} PROVE r \in Small /\ span'[r].nd_free # {}
    OBVIOUS
  <2>1. CASE r = s
    <3>1. p \in G
      BY DEF G
    <3> QED BY <1>6, <2>1, <3>1 DEF Record
  <2>2. CASE r # s
    BY <1>6, <1>7, <2>2
  <2> QED BY <2>1, <2>2
<1>9. \A r \in Small : r \notin ToSet(sl_list) /\ r # s => span'[r].nd_free = {} \/ span'[r].nd_nnum = 0
  BY <1>6 DEF ListSound
<1>10. ASSUME sl_list' = Pushed(s) PROVE sl_list' \in Seq(Addr) /\ ListSound'
  <2>1. /\ sl_list' \in Seq(Addr) /\ IsInjective(sl_list')
        /\ ToSet(sl_list') = ToSet(sl_list) \cup {s}
    BY <1>10, PushedIs
  <2> QED BY <1>3, <1>8, <1>9, <2>1 DEF ListSound
<1>11. ASSUME sl_list' = Unlinked(Pushed(s), s), span[s].nd_nnum = 1
       PROVE  sl_list' \in Seq(Addr) /\ ListSound'
  <2>1. /\ sl_list' \in Seq(Addr) /\ IsInjective(sl_list')
        /\ ToSet(sl_list') = ToSet(sl_list) \ {s}
    BY <1>11, PushedIs
  <2>2. span'[s].nd_nnum = 0
    BY <1>6, <1>11 DEF Record, k
  <2> QED BY <1>3, <1>8, <1>9, <2>1, <2>2 DEF ListSound
<1> QED BY <1>3, <1>5, <1>10, <1>11

(* A span with all of its nodes free is given up.                                    *)
LEMMA GivenUp ==
  ASSUME Inv, NEW s \in Small, NEW l \in Seq(Addr), IsInjective(l), ToSet(l) = ToSet(sl_list) \ {s},
         sl_list' = l, span' = [span EXCEPT ![s] = NoSpan],
         bucket' = [bucket EXCEPT ![BucketOf(s)] = NULL]
  PROVE  /\ Spans' /\ sl_list' \in Seq(Addr) /\ ListSound'
         /\ \A q \in Addr : /\ IsFree(q)' <=> IsFree(q) /\ q \notin Nodes(s)
                            /\ Owned(q)' <=> Owned(q) /\ q \notin Nodes(s)
                            /\ span'[q].kind = "large" => span[q].kind = "large"
<1> USE DEF Inv, TypeOK
<1>1. s \in Addr /\ Mapped(s) /\ s \in Nodes(s)
  BY Lengths DEF Small, Nodes, Spans
<1>2. /\ Spans' /\ Small' = Small \ {s} /\ (\A r \in Small' : span'[r] = span[r])
      /\ \A q : IsFree(q)' <=> IsFree(q) /\ ~(s \in Small /\ q \in Nodes(s))
      /\ \A q \in Addr : /\ Owned(q)' <=> Owned(q) /\ q # s /\ ~(s \in Small /\ q \in Nodes(s))
                         /\ span'[q].kind = "large" => span[q].kind = "large"
  BY <1>1, Dropped
<1>3. ListSound'
  BY <1>2 DEF ListSound
<1> QED BY <1>1, <1>2, <1>3

------------------------------------------------------------------------------------
(* What the calls, the caches and the hands hold.                                    *)

LEMMA CallTypes ==
  ASSUME NEW c \in Calls
  PROVE  /\ c.at = "found" => c.p \in Addr /\ c.sp \in Addr \cup {NULL}
         /\ c.at \in {"lock", "batch", "node"} => c.num \in Int /\ c.then \in {"idle", "gc"}
  BY DEF Calls

LEMMA Batches ==
  ASSUME NEW at \in {"lock", "batch"}, NEW num \in Int, NEW then \in {"idle", "gc"}
  PROVE  Batch(at, num, then) \in Calls /\ Batch(at, num, then).at = at
  BY DEF Batch, Calls

LEMMA Moved ==
  ASSUME pc \in [Threads -> Calls], NEW t \in Threads, NEW c \in Calls, pc' = [pc EXCEPT ![t] = c],
         pc[t].at # "found", c.at # "found"
  PROVE  pc' \in [Threads -> Calls] /\ \A u \in Threads : InHand(u)' = InHand(u)
  BY DEF InHand

LEMMA Emptied ==
  ASSUME pc \in [Threads -> Calls], NEW t \in Threads, NEW c \in Calls, pc' = [pc EXCEPT ![t] = c],
         pc[t].at = "found", c.at # "found"
  PROVE  /\ pc' \in [Threads -> Calls] /\ pc[t].p \in Addr /\ InHand(t) = {pc[t].p}
         /\ \A u \in Threads : InHand(u)' = IF u = t THEN {} ELSE InHand(u)
  BY CallTypes DEF InHand

LEMMA CacheFinite ==
  ASSUME NEW C \in SUBSET Addr PROVE IsFiniteSet(C) /\ Cardinality(C) \in Nat
<1>1. IsFiniteSet(Addr)
  BY FS_Interval DEF Addr
<1>2. IsFiniteSet(C)
  BY <1>1, FS_Subset
<1> QED BY <1>2, FS_CardinalityType

LEMMA Added ==
  ASSUME NEW C \in SUBSET Addr, NEW p \in Addr, p \notin C
  PROVE  Cardinality(C \cup {p}) = Cardinality(C) + 1
  BY CacheFinite, FS_AddElement

LEMMA Removed ==
  ASSUME NEW C \in SUBSET Addr, NEW p \in C PROVE Cardinality(C \ {p}) = Cardinality(C) - 1
  BY CacheFinite, FS_RemoveElement

LEMMA FreeIsSmall ==
  ASSUME Spans, NEW q \in Addr, IsFree(q) PROVE span[q].kind # "large"
  BY LargeApart DEF Spans, IsFree, NodesOK

(* A node that a cache or a hand holds is found in its span, where it is not free.   *)
LEMMA HeldIsFound ==
  ASSUME Inv, NEW p \in Addr, Held(p)
  PROVE  /\ ~IsFree(p) /\ p \notin used
         /\ span[p].kind = "large" => find_bucket(p) = p
         /\ span[p].kind # "large" => /\ find_bucket(p) \in Small /\ p \in Nodes(find_bucket(p))
                                      /\ p \notin span[find_bucket(p)].nd_free
<1> USE DEF Inv
<1>1. ~IsFree(p) /\ p \notin used /\ Owned(p)
  BY DEF PlacesOK, Alone
<1>2. CASE span[p].kind = "large"
  BY <1>1, <1>2, FindsLarge
<1>3. CASE span[p].kind # "large"
  <2>1. PICK s \in Small : p \in Nodes(s)
    BY <1>1, <1>3 DEF Owned
  <2>2. find_bucket(p) = s
    BY <2>1, FindsNode
  <2> QED BY <1>1, <1>3, <2>1, <2>2 DEF IsFree
<1> QED BY <1>2, <1>3

------------------------------------------------------------------------------------
(* Every step keeps the invariant.                                                   *)

(* A step of a call that moves no node.                                              *)
LEMMA OnlyPc ==
  ASSUME Inv, UNCHANGED <<bucket, span, sl_list, cache, nd_cached, used>>,
         pc' \in [Threads -> Calls], \A u \in Threads : InHand(u)' = InHand(u)
  PROVE  Inv'
<1> USE DEF Inv
<1>1. TypeOK' /\ Spans'
  BY DEF TypeOK, Spans, SpanTypes, Placed, Apart, PageMap, NodesOK, Blank, Mapped, Length, Small
<1>2. CachesOK' /\ ListSound'
  BY DEF CachesOK, ListSound, Small
<1>3. \A q \in Addr : (IsFree(q)' <=> IsFree(q)) /\ (Owned(q)' <=> Owned(q)) /\ (Held(q)' <=> Held(q))
  BY DEF IsFree, Owned, Held, Small
<1>4. PlacesOK'
  BY <1>3 DEF PlacesOK, Alone
<1> QED BY <1>1, <1>2, <1>4

LEMMA InvStutters == Inv /\ UNCHANGED vars => Inv'
<1> SUFFICES ASSUME Inv, UNCHANGED vars PROVE Inv'
  OBVIOUS
<1>1. pc' \in [Threads -> Calls] /\ \A u \in Threads : InHand(u)' = InHand(u)
  BY DEF vars, InHand, Inv, TypeOK
<1> QED BY <1>1, OnlyPc DEF vars

LEMMA OneTaken ==
  ASSUME Inv, NEW t \in Threads, NEW p \in Addr, alloc_small(t, p) PROVE Inv'
<1> USE DEF Inv, TypeOK
<1>1. PICK s \in Addr : \E free \in SUBSET Nodes(s) :
         /\ HeadOrNew(s, free) /\ p \in free /\ Take(s, 1, free \ {p}, span[s].nd_nnum + 1)
  BY DEF alloc_small, Nodes, NodesPerSpan
<1>2. PICK free \in SUBSET Nodes(s) :
         /\ HeadOrNew(s, free) /\ p \in free /\ Take(s, 1, free \ {p}, span[s].nd_nnum + 1)
  BY <1>1
<1> DEFINE rest == free \ {p}  num == span[s].nd_nnum + 1
<1>3. /\ used' = used \cup {p} /\ cache' = cache /\ nd_cached' = nd_cached /\ pc' = pc
  BY DEF alloc_small
<1>4. num \in Int /\ rest \in SUBSET free /\ num + Cardinality(rest) = PerBucket
  <2>1. span[s].nd_nnum + Cardinality(free) = PerBucket /\ span[s].nd_nnum \in Int
    BY <1>2, HeadGives
  <2>2. IsFiniteSet(free) /\ Cardinality(free) \in Nat
    BY Counted
  <2>3. Cardinality(rest) = Cardinality(free) - 1
    BY <1>2, <2>2, FS_RemoveElement
  <2> DEFINE k == span[s].nd_nnum  c == Cardinality(free)  d == Cardinality(rest)
  <2>4. k \in Int /\ c \in Nat /\ k + c = PerBucket /\ d = c - 1
    BY <2>1, <2>2, <2>3
  <2> HIDE DEF k, c, d
  <2>5. (k + 1) \in Int /\ (k + 1) + d = PerBucket
    BY <2>4
  <2> QED BY <2>5 DEF k, d
<1>5. /\ Spans' /\ sl_list' \in Seq(Addr) /\ ListSound'
      /\ \A q \in Addr : /\ IsFree(q)' <=> IF q \in Nodes(s) THEN q \in rest ELSE IsFree(q)
                         /\ Owned(q)' <=> q \in Nodes(s) \/ Owned(q)
                         /\ span'[q].kind = "large" <=> span[q].kind = "large"
      /\ \A q \in Nodes(s) : q \in Addr /\ IF q \in free THEN IsFree(q) \/ ~Owned(q) ELSE ~IsFree(q) /\ Owned(q)
  <2> DEFINE one == 1
  <2>1. HeadOrNew(s, free) /\ Take(s, one, rest, num)
    BY <1>2
  <2>2. num \in Int /\ rest \in SUBSET free /\ num + Cardinality(rest) = PerBucket
    BY <1>4
  <2> HIDE DEF one, rest, num
  <2> QED BY <2>1, <2>2, TakeStep, Zenon
<1>6. CachesOK'
  BY <1>3, <1>5 DEF CachesOK
<1>7. \A q \in Addr : Held(q)' <=> Held(q)
  BY <1>3 DEF Held, InHand
<1>8. \A u \in Threads : InHand(u)' = InHand(u)
  BY <1>3 DEF InHand
<1>9. PlacesOK'
  <2> SUFFICES ASSUME NEW q \in Addr
               PROVE  Alone(q)' /\ (Owned(q)' <=> q \in used' \/ IsFree(q)' \/ Held(q)')
    BY DEF PlacesOK
  <2>1. Alone(q) /\ (Owned(q) <=> q \in used \/ IsFree(q) \/ Held(q))
    BY DEF PlacesOK
  <2>2. CASE q \in free
    BY <1>2, <1>3, <1>5, <1>7, <1>8, <2>1, <2>2 DEF Alone
  <2>3. CASE q \notin free
    BY <1>2, <1>3, <1>5, <1>7, <1>8, <2>1, <2>3 DEF Alone
  <2> QED BY <2>2, <2>3
<1> QED BY <1>3, <1>5, <1>6, <1>9 DEF Spans

LEMMA ListTaken ==
  ASSUME Inv, NEW t \in Threads, NEW p \in Addr, alloc_small_batch(t, p) PROVE Inv'
<1> USE DEF Inv, TypeOK
<1>1. PICK s \in Addr : \E free \in SUBSET Nodes(s) :
         /\ HeadOrNew(s, free) /\ p \in free /\ Take(s, NodesPerSpan, {}, NodesPerSpan)
         /\ cache' = [cache EXCEPT ![t] = free \ {p}]
         /\ nd_cached' = [nd_cached EXCEPT ![t] = NodesPerSpan - span[s].nd_nnum - 1]
  BY DEF alloc_small_batch, Nodes, NodesPerSpan
<1>2. PICK free \in SUBSET Nodes(s) :
         /\ HeadOrNew(s, free) /\ p \in free /\ Take(s, NodesPerSpan, {}, NodesPerSpan)
         /\ cache' = [cache EXCEPT ![t] = free \ {p}]
         /\ nd_cached' = [nd_cached EXCEPT ![t] = NodesPerSpan - span[s].nd_nnum - 1]
  BY <1>1
<1>3. used' = used \cup {p} /\ pc' = pc /\ cache[t] = {}
  BY DEF alloc_small_batch
<1>4. /\ Spans' /\ sl_list' \in Seq(Addr) /\ ListSound'
      /\ \A q \in Addr : /\ IsFree(q)' <=> IF q \in Nodes(s) THEN q \in {} ELSE IsFree(q)
                         /\ Owned(q)' <=> q \in Nodes(s) \/ Owned(q)
                         /\ span'[q].kind = "large" <=> span[q].kind = "large"
      /\ \A q \in Nodes(s) : q \in Addr /\ IF q \in free THEN IsFree(q) \/ ~Owned(q) ELSE ~IsFree(q) /\ Owned(q)
  <2>1. PerBucket \in Int /\ {} \in SUBSET free /\ PerBucket + Cardinality({}) = PerBucket
    BY FS_EmptySet
  <2>2. HeadOrNew(s, free) /\ Take(s, NodesPerSpan, {}, PerBucket)
    BY <1>2 DEF NodesPerSpan
  <2> QED BY <2>1, <2>2, TakeStep, Zenon
<1>5. \A u \in Threads : cache'[u] = IF u = t THEN free \ {p} ELSE cache[u]
  BY <1>2
<1>6. free \in SUBSET Addr
  BY <1>4
<1>7. cache' \in [Threads -> SUBSET Addr]
  BY <1>2, <1>6
<1>8. nd_cached' \in [Threads -> Int] /\ nd_cached'[t] = Cardinality(free \ {p})
  <2>1. span[s].nd_nnum + Cardinality(free) = PerBucket /\ span[s].nd_nnum \in Int
    BY <1>2, HeadGives
  <2>2. IsFiniteSet(free) /\ Cardinality(free) \in Nat
    BY Counted
  <2>3. Cardinality(free \ {p}) = Cardinality(free) - 1
    BY <1>2, <2>2, FS_RemoveElement
  <2> DEFINE k == span[s].nd_nnum  c == Cardinality(free)  d == Cardinality(free \ {p})
  <2>4. k \in Int /\ c \in Nat /\ k + c = PerBucket /\ d = c - 1
    BY <2>1, <2>2, <2>3
  <2> HIDE DEF k, c, d
  <2>5. PerBucket - k - 1 = d /\ PerBucket - k - 1 \in Int
    BY <2>4
  <2>6. nd_cached' = [nd_cached EXCEPT ![t] = PerBucket - k - 1]
    BY <1>2 DEF k, NodesPerSpan
  <2>7. nd_cached' \in [Threads -> Int] /\ nd_cached'[t] = d
    BY <2>5, <2>6
  <2> QED BY <2>7 DEF d
<1>9. \A q \in free : span[q].kind # "large"
  BY <1>4, <1>6, FreeIsSmall DEF Owned
<1>10. CachesOK'
  <2>1. nd_cached'[t] = Cardinality(cache'[t]) /\ \A q \in cache'[t] : span'[q].kind # "large"
    BY <1>4, <1>5, <1>6, <1>8, <1>9
  <2>2. ASSUME NEW u \in Threads, u # t
        PROVE  nd_cached'[u] = Cardinality(cache'[u]) /\ \A q \in cache'[u] : span'[q].kind # "large"
    <3>1. cache'[u] = cache[u] /\ nd_cached'[u] = nd_cached[u] /\ cache[u] \in SUBSET Addr
      BY <1>2, <2>2
    <3> QED BY <1>4, <3>1 DEF CachesOK
  <2> QED BY <2>1, <2>2 DEF CachesOK
<1>11. \A u \in Threads : InHand(u)' = InHand(u)
  BY <1>3 DEF InHand
<1>12. PlacesOK'
  <2> SUFFICES ASSUME NEW q \in Addr
               PROVE  Alone(q)' /\ (Owned(q)' <=> q \in used' \/ IsFree(q)' \/ Held(q)')
    BY DEF PlacesOK
  <2>1. Alone(q) /\ (Owned(q) <=> q \in used \/ IsFree(q) \/ Held(q))
    BY DEF PlacesOK
  <2>2. CASE q \in free
    <3>1. q \notin used /\ ~Held(q)
      BY <1>4, <2>1, <2>2 DEF Alone
    <3>2. q \in Nodes(s) /\ ~IsFree(q)' /\ Owned(q)'
      BY <1>4, <2>2
    <3>3. \A u \in Threads : (q \in cache'[u] <=> u = t /\ q # p) /\ q \notin InHand(u)'
      BY <1>5, <1>11, <2>2, <3>1 DEF Held
    <3>4. q \in used' <=> q = p
      BY <1>3, <3>1
    <3> QED BY <3>2, <3>3, <3>4 DEF Alone, Held
  <2>3. CASE q \notin free
    <3>1. \A u \in Threads : (q \in cache'[u] <=> q \in cache[u]) /\ InHand(u)' = InHand(u)
      BY <1>3, <1>5, <1>11, <2>3
    <3>2. (q \in used' <=> q \in used) /\ (IsFree(q)' <=> IsFree(q)) /\ (Owned(q)' <=> Owned(q))
      BY <1>2, <1>3, <1>4, <2>3
    <3> QED BY <2>1, <3>1, <3>2 DEF Alone, Held
  <2> QED BY <2>2, <2>3
<1> QED BY <1>3, <1>4, <1>6, <1>7, <1>8, <1>10, <1>12 DEF Spans

LEMMA CacheTaken ==
  ASSUME Inv, NEW t \in Threads, NEW p \in Addr, AllocCached(t, p) PROVE Inv'
<1> USE DEF Inv, TypeOK
<1>1. /\ p \in cache[t] /\ cache' = [cache EXCEPT ![t] = cache[t] \ {p}]
      /\ nd_cached' = [nd_cached EXCEPT ![t] = nd_cached[t] - 1] /\ used' = used \cup {p}
      /\ UNCHANGED <<bucket, span, sl_list, pc>>
  BY DEF AllocCached
<1>2. cache' \in [Threads -> SUBSET Addr] /\ nd_cached' \in [Threads -> Int]
  BY <1>1
<1>3. Spans' /\ ListSound'
  BY <1>1 DEF Spans, SpanTypes, Placed, Apart, PageMap, NodesOK, Blank, Mapped, Length, Small, ListSound
<1>4. CachesOK'
  <2> SUFFICES ASSUME NEW u \in Threads
               PROVE  nd_cached'[u] = Cardinality(cache'[u]) /\ \A q \in cache'[u] : span'[q].kind # "large"
    BY DEF CachesOK
  <2>1. CASE u = t
    <3>1. Cardinality(cache[t] \ {p}) = Cardinality(cache[t]) - 1
      BY <1>1, Removed
    <3> QED BY <1>1, <2>1, <3>1 DEF CachesOK
  <2>2. CASE u # t
    BY <1>1, <2>2 DEF CachesOK
  <2> QED BY <2>1, <2>2
<1>5. \A q \in Addr : (IsFree(q)' <=> IsFree(q)) /\ (Owned(q)' <=> Owned(q))
  BY <1>1 DEF IsFree, Owned, Small
<1>6. \A u \in Threads : InHand(u)' = InHand(u)
  BY <1>1 DEF InHand
<1>7. PlacesOK'
  <2> SUFFICES ASSUME NEW q \in Addr
               PROVE  Alone(q)' /\ (Owned(q)' <=> q \in used' \/ IsFree(q)' \/ Held(q)')
    BY DEF PlacesOK
  <2>1. Alone(q) /\ (Owned(q) <=> q \in used \/ IsFree(q) \/ Held(q))
    BY DEF PlacesOK
  <2>2. \A u \in Threads : q \in cache'[u] <=> q \in cache[u] /\ ~(u = t /\ q = p)
    BY <1>1
  <2>3. q \in used' <=> q = p \/ q \in used
    BY <1>1
  <2> QED BY <1>1, <1>5, <1>6, <2>1, <2>2, <2>3 DEF Alone, Held
<1> QED BY <1>1, <1>2, <1>3, <1>4, <1>7 DEF Spans

LEMMA LargeTaken ==
  ASSUME Inv, NEW t \in Threads, NEW s \in Addr, alloc_large(t, s) PROVE Inv'
<1> USE DEF Inv, TypeOK
<1>1. /\ Free(s, LargeSize) /\ InsertSpan(s, Record("large", {}, 1)) /\ used' = used \cup {s}
      /\ pc' = [pc EXCEPT ![t] = Idle] /\ UNCHANGED <<sl_list, cache, nd_cached>>
      /\ pc[t].at # "found"
  BY DEF alloc_large, Goto, Record
<1>2. /\ Spans' /\ Small' = Small /\ ~Owned(s) /\ (\A r \in Small : span'[r] = span[r])
      /\ \A q : IsFree(q)' <=> IsFree(q)
      /\ \A q \in Addr : /\ Owned(q)' <=> q = s \/ Owned(q)
                         /\ span'[q].kind = "large" <=> q = s \/ span[q].kind = "large"
  BY <1>1, CreatedLarge
<1>3. pc' \in [Threads -> Calls] /\ \A u \in Threads : InHand(u)' = InHand(u)
  <2>1. Idle \in Calls /\ Idle.at # "found"
    BY DEF Idle, Calls
  <2> QED BY <1>1, <2>1, Moved
<1>4. s \notin used /\ ~IsFree(s) /\ ~Held(s)
  BY <1>2 DEF PlacesOK
<1>5. CachesOK'
  <2>1. \A u \in Threads : s \notin cache[u]
    BY <1>4 DEF Held
  <2> QED BY <1>1, <1>2, <2>1 DEF CachesOK
<1>6. ListSound'
  BY <1>1, <1>2 DEF ListSound
<1>7. PlacesOK'
  <2> SUFFICES ASSUME NEW q \in Addr
               PROVE  Alone(q)' /\ (Owned(q)' <=> q \in used' \/ IsFree(q)' \/ Held(q)')
    BY DEF PlacesOK
  <2>1. Alone(q) /\ (Owned(q) <=> q \in used \/ IsFree(q) \/ Held(q))
    BY DEF PlacesOK
  <2>2. Held(q)' <=> Held(q)
    BY <1>1, <1>3 DEF Held
  <2>3. q \in used' <=> q = s \/ q \in used
    BY <1>1
  <2> QED BY <1>1, <1>2, <1>3, <1>4, <2>1, <2>2, <2>3 DEF Alone
<1> QED BY <1>1, <1>2, <1>3, <1>5, <1>6, <1>7 DEF Spans

LEMMA NodeReturned ==
  ASSUME Inv, NEW t \in Threads, NodeBack(t), NEW p \in Addr, p = pc[t].p, p \in cache[t]
  PROVE  Inv'
<1> USE DEF Inv, TypeOK
<1> DEFINE s == find_bucket(p)
<1>1. /\ pc[t].at = "node" /\ p \in cache[t] /\ DeallocNode(s, p)
      /\ cache' = [cache EXCEPT ![t] = cache[t] \ {p}]
      /\ nd_cached' = [nd_cached EXCEPT ![t] = nd_cached[t] - 1]
      /\ pc' = [pc EXCEPT ![t] = Batch("batch", pc[t].num - 1, pc[t].then)] /\ used' = used
  BY DEF NodeBack, Found, At, Goto
<1>2. s \in Small /\ p \in Nodes(s) /\ p \notin span[s].nd_free
  BY <1>1, HeldIsFound DEF Held, CachesOK
<1>3. pc' \in [Threads -> Calls] /\ \A u \in Threads : InHand(u)' = InHand(u)
  <2> DEFINE n == pc[t].num - 1  c == pc[t].then  at == "batch"
  <2>1. pc[t].num \in Int /\ c \in {"idle", "gc"} /\ at \in {"lock", "batch"}
    BY <1>1, CallTypes
  <2>2. n \in Int
    BY <2>1
  <2>3. Batch("batch", n, c) \in Calls /\ Batch("batch", n, c).at = "batch"
    <3> HIDE DEF n, c
    <3> QED BY <2>1, <2>2, Batches
  <2> QED BY <1>1, <2>3, Moved
<1>4. cache' \in [Threads -> SUBSET Addr] /\ nd_cached' \in [Threads -> Int]
  BY <1>1
<1>5. \A u \in Threads : \A q : q \in cache'[u] <=> q \in cache[u] /\ ~(u = t /\ q = p)
  BY <1>1
<1>6. \A u \in Threads : nd_cached'[u] = Cardinality(cache'[u])
  <2> SUFFICES ASSUME NEW u \in Threads PROVE nd_cached'[u] = Cardinality(cache'[u])
    OBVIOUS
  <2>1. CASE u = t
    <3>1. Cardinality(cache[t] \ {p}) = Cardinality(cache[t]) - 1
      BY <1>1, Removed
    <3> QED BY <1>1, <2>1, <3>1 DEF CachesOK
  <2>2. CASE u # t
    BY <1>1, <2>2 DEF CachesOK
  <2> QED BY <2>1, <2>2
<1>7. Alone(p) /\ Held(p)
  BY <1>1 DEF PlacesOK, Held
<1>8. p \notin used /\ \A u \in Threads : p \notin cache'[u] /\ p \notin InHand(u)
  BY <1>1, <1>5, <1>7 DEF Alone
<1>9. p \notin used' /\ ~Held(p)'
  BY <1>1, <1>3, <1>8 DEF Held
<1>10. \A q \in Addr : q # p => /\ Held(q)' <=> Held(q)
                                /\ Alone(q) /\ (IsFree(q)' => IsFree(q)) => Alone(q)'
  BY <1>1, <1>3, <1>5 DEF Alone, Held
<1> HIDE DEF s
<1>11. CASE span[s].nd_nnum = 1 /\ ~IsLast(Pushed(s), s)
  <2> DEFINE l == Unlinked(Pushed(s), s)
  <2>1. sl_list' = l /\ span' = [span EXCEPT ![s] = NoSpan] /\ bucket' = [bucket EXCEPT ![BucketOf(s)] = NULL]
    BY <1>1, <1>11 DEF DeallocNode
  <2>2. l \in Seq(Addr) /\ IsInjective(l) /\ ToSet(l) = ToSet(sl_list) \ {s}
    BY <1>2, PushedIs
  <2> HIDE DEF l
  <2>3. /\ Spans' /\ sl_list' \in Seq(Addr) /\ ListSound'
        /\ \A q \in Addr : /\ IsFree(q)' <=> IsFree(q) /\ q \notin Nodes(s)
                           /\ Owned(q)' <=> Owned(q) /\ q \notin Nodes(s)
                           /\ span'[q].kind = "large" => span[q].kind = "large"
    BY <1>2, <2>1, <2>2, GivenUp, Zenon
  <2>4. span[s].nd_free \cup {p} = Nodes(s)
    BY <1>2, <1>11, GivesBack
  <2>5. \A q \in Nodes(s) : q # p => IsFree(q)
    BY <1>2, <2>4 DEF IsFree
  <2>6. CachesOK'
    BY <1>4, <1>5, <1>6, <2>3 DEF CachesOK
  <2>7. PlacesOK'
    <3> SUFFICES ASSUME NEW q \in Addr
                 PROVE  Alone(q)' /\ (Owned(q)' <=> q \in used' \/ IsFree(q)' \/ Held(q)')
      BY DEF PlacesOK
    <3>1. Alone(q) /\ (Owned(q) <=> q \in used \/ IsFree(q) \/ Held(q))
      BY DEF PlacesOK
    <3>2. CASE q = p
      <4>1. ~IsFree(p)' /\ ~Owned(p)'
        BY <1>2, <2>3
      <4>2. \A u \in Threads : p \notin cache'[u] /\ p \notin InHand(u)'
        BY <1>3, <1>8
      <4>3. Alone(p)'
        BY <4>1, <4>2, <1>9 DEF Alone
      <4> QED BY <1>9, <3>2, <4>1, <4>3
    <3>3. CASE q # p /\ q \in Nodes(s)
      BY <1>1, <1>10, <2>3, <2>5, <3>1, <3>3 DEF Alone
    <3>4. CASE q # p /\ q \notin Nodes(s)
      BY <1>1, <1>10, <2>3, <3>1, <3>4
    <3> QED BY <3>2, <3>3, <3>4
  <2> QED BY <1>1, <1>3, <1>4, <2>3, <2>6, <2>7 DEF Spans
<1>12. CASE ~(span[s].nd_nnum = 1 /\ ~IsLast(Pushed(s), s))
  <2>1. sl_list' = Pushed(s) /\ span' = [span EXCEPT ![s] = Back(s, p)] /\ bucket' = bucket
    BY <1>1, <1>12 DEF DeallocNode
  <2>2. /\ Spans' /\ sl_list' \in Seq(Addr) /\ ListSound'
        /\ \A q \in Addr : /\ IsFree(q)' <=> q = p \/ IsFree(q)
                           /\ Owned(q)' <=> Owned(q)
                           /\ span'[q].kind = "large" <=> span[q].kind = "large"
    BY <1>2, <2>1, Kept
  <2>3. CachesOK'
    BY <1>4, <1>5, <1>6, <2>2 DEF CachesOK
  <2>4. PlacesOK'
    <3> SUFFICES ASSUME NEW q \in Addr
                 PROVE  Alone(q)' /\ (Owned(q)' <=> q \in used' \/ IsFree(q)' \/ Held(q)')
      BY DEF PlacesOK
    <3>1. Alone(q) /\ (Owned(q) <=> q \in used \/ IsFree(q) \/ Held(q))
      BY DEF PlacesOK
    <3>2. CASE q = p
      <4>1. IsFree(p)' /\ Owned(p)'
        BY <1>7, <2>2 DEF PlacesOK
      <4>2. \A u \in Threads : p \notin cache'[u] /\ p \notin InHand(u)'
        BY <1>3, <1>8
      <4>3. Alone(p)'
        BY <4>2, <1>9 DEF Alone
      <4> QED BY <1>9, <3>2, <4>1, <4>3
    <3>3. CASE q # p
      BY <1>1, <1>10, <2>2, <3>1, <3>3
    <3> QED BY <3>2, <3>3
  <2> QED BY <1>1, <1>3, <1>4, <2>2, <2>3, <2>4 DEF Spans
<1> QED BY <1>11, <1>12

LEMMA Taken == ASSUME Inv, NEW t \in Threads, NEW p \in used, mp_free(t, p) PROVE Inv'
<1> USE DEF Inv, TypeOK
<1> DEFINE c == [at |-> "found", p |-> p, sp |-> bucket[BucketOf(p)]]
<1>1. /\ pc[t].at = "idle" /\ used' = used \ {p} /\ pc' = [pc EXCEPT ![t] = c]
      /\ UNCHANGED <<bucket, span, sl_list, cache, nd_cached>>
  BY DEF mp_free, At, Goto
<1>2. p \in Addr /\ BucketOf(p) \in Buckets
  BY BucketOfType
<1>3. c \in Calls
  <2>1. bucket[BucketOf(p)] \in Addr \cup {NULL}
    BY <1>2 DEF Spans, SpanTypes
  <2> QED BY <1>2, <2>1 DEF Calls
<1>4. pc' \in [Threads -> Calls] /\ \A u \in Threads : InHand(u)' = IF u = t THEN {p} ELSE InHand(u)
  BY <1>1, <1>3 DEF InHand
<1>5. InHand(t) = {}
  BY <1>1 DEF InHand
<1>6. Spans' /\ CachesOK' /\ ListSound'
  BY <1>1 DEF Spans, SpanTypes, Placed, Apart, PageMap, NodesOK, Blank, Mapped, Length, Small, ListSound, CachesOK
<1>7. \A q \in Addr : (IsFree(q)' <=> IsFree(q)) /\ (Owned(q)' <=> Owned(q))
  BY <1>1 DEF IsFree, Owned, Small
<1>8. PlacesOK'
  <2> SUFFICES ASSUME NEW q \in Addr
               PROVE  Alone(q)' /\ (Owned(q)' <=> q \in used' \/ IsFree(q)' \/ Held(q)')
    BY DEF PlacesOK
  <2>1. Alone(q) /\ (Owned(q) <=> q \in used \/ IsFree(q) \/ Held(q))
    BY DEF PlacesOK
  <2>2. \A u \in Threads : q \in InHand(u)' <=> (u = t /\ q = p) \/ q \in InHand(u)
    BY <1>4, <1>5
  <2>3. q \in used' <=> q # p /\ q \in used
    BY <1>1
  <2> HIDE DEF c
  <2> QED BY <1>1, <1>7, <2>1, <2>2, <2>3 DEF Alone, Held
<1> QED BY <1>1, <1>4, <1>6, <1>8 DEF Spans

LEMMA LargeBack == ASSUME Inv, NEW t \in Threads, FreeLarge(t) PROVE Inv'
<1> USE DEF Inv, TypeOK
<1> DEFINE p == pc[t].p  s == find_bucket(p)
<1>1. /\ pc[t].at = "found" /\ span[s].kind = "large"
      /\ bucket' = [bucket EXCEPT ![BucketOf(s)] = NULL] /\ span' = [span EXCEPT ![s] = NoSpan]
      /\ pc' = [pc EXCEPT ![t] = Idle] /\ UNCHANGED <<sl_list, cache, nd_cached, used>>
  BY DEF FreeLarge, Found, At, Goto
<1>2. /\ pc' \in [Threads -> Calls] /\ p \in Addr /\ InHand(t) = {p}
      /\ \A u \in Threads : InHand(u)' = IF u = t THEN {} ELSE InHand(u)
  <2>1. Idle \in Calls /\ Idle.at # "found"
    BY DEF Idle, Calls
  <2> QED BY <1>1, <2>1, Emptied
<1>3. Held(p)
  BY <1>2 DEF Held
<1> HIDE DEF p
<1>4. s = p /\ span[p].kind = "large"
  <2>1. CASE span[p].kind # "large"
    <3>1. s \in Small
      BY <1>2, <1>3, <2>1, HeldIsFound
    <3> QED BY <1>1, <3>1 DEF Small
  <2>2. CASE span[p].kind = "large"
    BY <1>2, <1>3, <2>2, HeldIsFound
  <2> QED BY <2>1, <2>2
<1> HIDE DEF s
<1>5. Mapped(p) /\ p \notin Small
  BY <1>4 DEF Mapped, Small
<1>6. /\ Spans' /\ Small' = Small \ {p} /\ (\A r \in Small' : span'[r] = span[r])
      /\ \A q : IsFree(q)' <=> IsFree(q) /\ ~(p \in Small /\ q \in Nodes(p))
      /\ \A q \in Addr : /\ Owned(q)' <=> Owned(q) /\ q # p /\ ~(p \in Small /\ q \in Nodes(p))
                         /\ span'[q].kind = "large" => span[q].kind = "large"
  BY <1>1, <1>2, <1>4, <1>5, Dropped
<1>7. ListSound'
  BY <1>1, <1>5, <1>6 DEF ListSound
<1>8. CachesOK'
  BY <1>1, <1>6 DEF CachesOK
<1>9. PlacesOK'
  <2> SUFFICES ASSUME NEW q \in Addr
               PROVE  Alone(q)' /\ (Owned(q)' <=> q \in used' \/ IsFree(q)' \/ Held(q)')
    BY DEF PlacesOK
  <2>1. Alone(q) /\ (Owned(q) <=> q \in used \/ IsFree(q) \/ Held(q))
    BY DEF PlacesOK
  <2>2. \A u \in Threads : q \in InHand(u)' <=> u # t /\ q \in InHand(u)
    BY <1>2
  <2>3. (IsFree(q)' <=> IsFree(q)) /\ (Owned(q)' <=> Owned(q) /\ q # p)
    BY <1>5, <1>6
  <2> QED BY <1>1, <1>2, <2>1, <2>2, <2>3 DEF Alone, Held
<1> QED BY <1>1, <1>2, <1>6, <1>7, <1>8, <1>9 DEF Spans

LEMMA NodeCached == ASSUME Inv, NEW t \in Threads, DeallocCached(t) PROVE Inv'
<1> USE DEF Inv, TypeOK
<1> DEFINE p == pc[t].p
           c == IF nd_cached[t] >= MaxCached
                THEN Batch("lock", (nd_cached[t] + 1) \div 2, "idle") ELSE Idle
<1>1. /\ pc[t].at = "found" /\ span[find_bucket(p)].kind = "small"
      /\ cache' = [cache EXCEPT ![t] = cache[t] \cup {p}]
      /\ nd_cached' = [nd_cached EXCEPT ![t] = nd_cached[t] + 1]
      /\ pc' = [pc EXCEPT ![t] = c] /\ UNCHANGED <<bucket, span, sl_list, used>>
  BY DEF DeallocCached, Found, At, Goto
<1>2. c \in Calls /\ c.at # "found"
  <2> DEFINE n == (nd_cached[t] + 1) \div 2
  <2>1. n \in Int
    OBVIOUS
  <2>2. Batch("lock", n, "idle") \in Calls /\ Batch("lock", n, "idle").at = "lock"
    <3> HIDE DEF n
    <3> QED BY <2>1, Batches
  <2>3. Idle \in Calls /\ Idle.at = "idle"
    BY DEF Idle, Calls
  <2> HIDE DEF n
  <2>4. c = IF nd_cached[t] >= MaxCached THEN Batch("lock", n, "idle") ELSE Idle
    BY DEF n
  <2> HIDE DEF c
  <2> QED BY <2>2, <2>3, <2>4
<1> HIDE DEF c
<1>3. /\ pc' \in [Threads -> Calls] /\ p \in Addr /\ InHand(t) = {p}
      /\ \A u \in Threads : InHand(u)' = IF u = t THEN {} ELSE InHand(u)
  BY <1>1, <1>2, Emptied
<1>4. Held(p)
  BY <1>3 DEF Held
<1> HIDE DEF p
<1>5. span[p].kind # "large"
  BY <1>1, <1>3, <1>4, HeldIsFound
<1>6. \A u \in Threads : p \notin cache[u]
  BY <1>3 DEF PlacesOK, Alone
<1>7. cache' \in [Threads -> SUBSET Addr] /\ nd_cached' \in [Threads -> Int]
  BY <1>1, <1>3
<1>8. CachesOK'
  <2> SUFFICES ASSUME NEW u \in Threads
               PROVE  nd_cached'[u] = Cardinality(cache'[u]) /\ \A q \in cache'[u] : span'[q].kind # "large"
    BY DEF CachesOK
  <2>1. CASE u = t
    <3>1. Cardinality(cache[t] \cup {p}) = Cardinality(cache[t]) + 1
      BY <1>3, <1>6, Added
    <3> QED BY <1>1, <1>5, <2>1, <3>1 DEF CachesOK
  <2>2. CASE u # t
    BY <1>1, <2>2 DEF CachesOK
  <2> QED BY <2>1, <2>2
<1>9. Spans' /\ ListSound'
  BY <1>1 DEF Spans, SpanTypes, Placed, Apart, PageMap, NodesOK, Blank, Mapped, Length, Small, ListSound
<1>10. \A q \in Addr : (IsFree(q)' <=> IsFree(q)) /\ (Owned(q)' <=> Owned(q))
  BY <1>1 DEF IsFree, Owned, Small
<1>11. PlacesOK'
  <2> SUFFICES ASSUME NEW q \in Addr
               PROVE  Alone(q)' /\ (Owned(q)' <=> q \in used' \/ IsFree(q)' \/ Held(q)')
    BY DEF PlacesOK
  <2>1. Alone(q) /\ (Owned(q) <=> q \in used \/ IsFree(q) \/ Held(q))
    BY DEF PlacesOK
  <2>2. \A u \in Threads : /\ q \in InHand(u)' <=> u # t /\ q \in InHand(u)
                           /\ q \in cache'[u] <=> (u = t /\ q = p) \/ q \in cache[u]
    BY <1>1, <1>3
  <2> QED BY <1>1, <1>3, <1>10, <2>1, <2>2 DEF Alone, Held
<1> QED BY <1>1, <1>3, <1>7, <1>8, <1>9, <1>11 DEF Spans

LEMMA NodeFreed == ASSUME Inv, NEW t \in Threads, dealloc_real(t) PROVE Inv'
<1> USE DEF Inv, TypeOK
<1> DEFINE p == pc[t].p  s == find_bucket(p)
<1>1. /\ pc[t].at = "found" /\ span[s].kind = "small" /\ span' = [span EXCEPT ![s] = Back(s, p)]
      /\ pc' = [pc EXCEPT ![t] = Idle] /\ UNCHANGED <<bucket, cache, nd_cached, used>>
      /\ sl_list' = IF span[s].nd_nnum = 1 /\ ~IsLast(Pushed(s), s)
                    THEN Unlinked(Pushed(s), s) ELSE Pushed(s)
  BY DEF dealloc_real, Found, At, Goto
<1>2. /\ pc' \in [Threads -> Calls] /\ p \in Addr /\ InHand(t) = {p}
      /\ \A u \in Threads : InHand(u)' = IF u = t THEN {} ELSE InHand(u)
  <2>1. Idle \in Calls /\ Idle.at # "found"
    BY DEF Idle, Calls
  <2> QED BY <1>1, <2>1, Emptied
<1>3. Held(p)
  BY <1>2 DEF Held
<1> HIDE DEF p
<1>4. s \in Small /\ p \in Nodes(s) /\ p \notin span[s].nd_free
  BY <1>1, <1>2, <1>3, HeldIsFound
<1> HIDE DEF s
<1>5. /\ Spans'
      /\ \A q \in Addr : /\ IsFree(q)' <=> q = p \/ IsFree(q)
                         /\ Owned(q)' <=> Owned(q)
                         /\ span'[q].kind = "large" <=> span[q].kind = "large"
      /\ sl_list' = Pushed(s) => sl_list' \in Seq(Addr) /\ ListSound'
      /\ sl_list' = Unlinked(Pushed(s), s) /\ span[s].nd_nnum = 1
           => sl_list' \in Seq(Addr) /\ ListSound'
  BY <1>1, <1>4, Kept
<1>6. sl_list' \in Seq(Addr) /\ ListSound'
  <2>1. CASE span[s].nd_nnum = 1 /\ ~IsLast(Pushed(s), s)
    BY <1>1, <1>5, <2>1
  <2>2. CASE ~(span[s].nd_nnum = 1 /\ ~IsLast(Pushed(s), s))
    BY <1>1, <1>5, <2>2
  <2> QED BY <2>1, <2>2
<1>7. CachesOK'
  BY <1>1, <1>5 DEF CachesOK
<1>8. Owned(p) /\ p \notin used /\ \A u \in Threads : p \notin cache[u] /\ (u # t => p \notin InHand(u))
  BY <1>2, <1>3 DEF PlacesOK, Alone
<1>9. PlacesOK'
  <2> SUFFICES ASSUME NEW q \in Addr
               PROVE  Alone(q)' /\ (Owned(q)' <=> q \in used' \/ IsFree(q)' \/ Held(q)')
    BY DEF PlacesOK
  <2>1. Alone(q) /\ (Owned(q) <=> q \in used \/ IsFree(q) \/ Held(q))
    BY DEF PlacesOK
  <2>2. \A u \in Threads : q \in InHand(u)' <=> u # t /\ q \in InHand(u)
    BY <1>2
  <2>3. CASE q = p
    BY <1>1, <1>2, <1>5, <1>8, <2>2, <2>3 DEF Alone, Held
  <2>4. CASE q # p
    <3>1. q \notin InHand(t)
      BY <1>2, <2>4
    <3> QED BY <1>1, <1>5, <2>1, <2>2, <2>4, <3>1 DEF Alone, Held
  <2> QED BY <2>3, <2>4
<1> QED BY <1>1, <1>2, <1>5, <1>6, <1>7, <1>9 DEF Spans

LEMMA Collected == ASSUME Inv, NEW t \in Threads, gc(t) PROVE Inv'
<1> USE DEF Inv, TypeOK
<1>1. CASE Goto(t, [at |-> "retry"]) /\ UNCHANGED <<bucket, span, sl_list, cache, nd_cached, used>>
  <2>1. [at |-> "retry"] \in Calls /\ [at |-> "retry"].at # "found" /\ pc[t].at # "found"
    BY DEF Calls, gc, At
  <2>2. pc' \in [Threads -> Calls] /\ \A u \in Threads : InHand(u)' = InHand(u)
    BY <1>1, <2>1, Moved DEF Goto
  <2> QED BY <1>1, <2>2, OnlyPc
<1>2. ASSUME NEW i \in DOMAIN sl_list, sl_list[i] \in Empty, sl_list' = RemoveAt(sl_list, i),
             span' = [span EXCEPT ![sl_list[i]] = NoSpan],
             bucket' = [bucket EXCEPT ![BucketOf(sl_list[i])] = NULL],
             UNCHANGED <<cache, nd_cached, used, pc>>
      PROVE  Inv'
  <2> DEFINE s == sl_list[i]  l == RemoveAt(sl_list, i)
  <2>1. s \in Small /\ s \in Addr /\ span[s].nd_nnum = 0
    BY <1>2 DEF Empty, ListSound, Small
  <2>2. l \in Seq(Addr) /\ IsInjective(l) /\ ToSet(l) = ToSet(sl_list) \ {s}
    BY RemoveOnce DEF ListSound
  <2>3. sl_list' = l /\ span' = [span EXCEPT ![s] = NoSpan] /\ bucket' = [bucket EXCEPT ![BucketOf(s)] = NULL]
    BY <1>2
  <2> HIDE DEF s, l
  <2>4. /\ Spans' /\ sl_list' \in Seq(Addr) /\ ListSound'
        /\ \A q \in Addr : /\ IsFree(q)' <=> IsFree(q) /\ q \notin Nodes(s)
                           /\ Owned(q)' <=> Owned(q) /\ q \notin Nodes(s)
                           /\ span'[q].kind = "large" => span[q].kind = "large"
    BY <2>1, <2>2, <2>3, GivenUp, Zenon
  <2>5. span[s].nd_free = Nodes(s)
    <3>1. span[s].nd_free \in SUBSET Nodes(s) /\ span[s].nd_nnum + Cardinality(span[s].nd_free) = PerBucket
      BY <2>1 DEF Spans, NodesOK
    <3>2. Cardinality(span[s].nd_free) \in Nat
      BY <2>1, <3>1, Counted
    <3>3. Cardinality(span[s].nd_free) = PerBucket
      BY <2>1, <3>1, <3>2
    <3>4. IsFiniteSet(Nodes(s)) /\ Cardinality(Nodes(s)) = PerBucket
      BY <2>1, NodesCount
    <3> QED BY <3>1, <3>3, <3>4, FS_Subset
  <2>6. \A q \in Nodes(s) : IsFree(q)
    BY <2>1, <2>5 DEF IsFree
  <2>7. CachesOK'
    BY <1>2, <2>4 DEF CachesOK
  <2>8. PlacesOK'
    <3> SUFFICES ASSUME NEW q \in Addr
                 PROVE  Alone(q)' /\ (Owned(q)' <=> q \in used' \/ IsFree(q)' \/ Held(q)')
      BY DEF PlacesOK
    <3>1. Alone(q) /\ (Owned(q) <=> q \in used \/ IsFree(q) \/ Held(q))
      BY DEF PlacesOK
    <3>2. (Held(q)' <=> Held(q)) /\ (Alone(q) /\ (IsFree(q)' => IsFree(q)) => Alone(q)')
      BY <1>2 DEF Held, Alone, InHand
    <3>3. CASE q \in Nodes(s)
      BY <1>2, <2>4, <2>6, <3>1, <3>2, <3>3 DEF Alone
    <3>4. CASE q \notin Nodes(s)
      BY <1>2, <2>4, <3>1, <3>2, <3>4
    <3> QED BY <3>3, <3>4
  <2> QED BY <1>2, <2>4, <2>7, <2>8 DEF Spans
<1> QED BY <1>1, <1>2 DEF gc

(* find_bucket reads the bucket of a node that is to go back.                         *)
LEMMA NodeRead ==
  ASSUME Inv, NEW t \in Threads, NEW p \in Addr, dealloc_batch_nolock(t, p) PROVE Inv'
<1> USE DEF Inv, TypeOK
<1> DEFINE c == [at |-> "node", num |-> pc[t].num, then |-> pc[t].then,
                 p |-> p, sp |-> bucket[BucketOf(p)]]
<1>1. /\ pc[t].at = "batch" /\ pc' = [pc EXCEPT ![t] = c]
      /\ UNCHANGED <<bucket, span, sl_list, cache, nd_cached, used>>
  BY DEF dealloc_batch_nolock, At, Goto
<1>2. c \in Calls /\ c.at = "node"
  <2>1. pc[t].num \in Int /\ pc[t].then \in {"idle", "gc"}
    BY <1>1, CallTypes
  <2>2. bucket[BucketOf(p)] \in Addr \cup {NULL}
    BY BucketOfType DEF Spans, SpanTypes
  <2> QED BY <2>1, <2>2 DEF Calls
<1>3. pc' \in [Threads -> Calls] /\ \A u \in Threads : InHand(u)' = InHand(u)
  <2> HIDE DEF c
  <2> QED BY <1>1, <1>2, Moved
<1> QED BY <1>1, <1>3, OnlyPc

(* The header of memory that is not there goes to 0, where no span or block is.       *)
LEMMA NullInserted == ASSUME Inv, NEW t \in Threads, InsertNull(t) PROVE Inv'
<1> USE DEF Inv, TypeOK
<1>1. /\ pc[t].at = "retry" /\ pc' = [pc EXCEPT ![t] = Idle] /\ InsertSpan(0, Record("null", {}, 0))
      /\ UNCHANGED <<sl_list, cache, nd_cached, used>>
  BY DEF InsertNull, At, Goto, Record
<1>2. pc' \in [Threads -> Calls] /\ \A u \in Threads : InHand(u)' = InHand(u)
  <2>1. Idle \in Calls /\ Idle.at = "idle"
    BY DEF Idle, Calls
  <2> QED BY <1>1, <2>1, Moved
<1>3. 0 \in Addr /\ span[0].kind \in {"none", "null"}
  <2>1. 0 \in Addr
    BY DEF Addr
  <2>2. span[0].kind \in Kinds
    BY <2>1 DEF Spans, SpanTypes
  <2>3. ~(Lowest <= 0)
    BY LowestAssumption
  <2>4. span[0].kind \notin {"small", "large"}
    BY <2>1, <2>3 DEF Spans, Placed
  <2> QED BY <2>1, <2>2, <2>4 DEF Kinds
<1>4. CASE span[0].kind = "null"
  <2>1. span[0] = Record("null", {}, 0) /\ bucket[BucketOf(0)] = 0 /\ BucketOf(0) \in Buckets
    BY <1>3, <1>4, BucketOfType DEF Spans, Placed, PageMap, Mapped
  <2>2. span' = span /\ bucket' = bucket
    BY <1>1, <1>3, <2>1 DEF InsertSpan, Spans, SpanTypes
  <2> QED BY <1>1, <1>2, <2>2, OnlyPc
<1>5. CASE span[0].kind = "none"
  <2> DEFINE kind == "null"  n == LargeSize  F == {}  k == 0  s == 0
  <2>1. Fits(0, LargeSize)
    <3>1. \A r \in Addr : Mapped(r) => r \in Nat /\ Lowest <= r
      BY <1>5, Lengths DEF Spans, SpanTypes, Kinds, Placed, Mapped
    <3> QED BY <3>1, LowestAssumption DEF Fits
  <2>2. Makes(s, n, kind, F, k)
    BY <1>1, <1>3, <2>1 DEF Makes
  <2>3. /\ SpanTypes' /\ Placed' /\ Apart' /\ PageMap' /\ Blank' /\ ~Mapped(s)
        /\ \A r \in Addr : span'[r] = IF r = s THEN Record(kind, F, k) ELSE span[r]
    <3> HIDE DEF kind, n, F, k, s
    <3> QED BY <2>2, Inserted, Zenon
  <2>4. \A r \in Addr : span'[r] = IF r = 0 THEN Record("null", {}, 0) ELSE span[r]
    BY <2>3
  <2>5. Small' = Small /\ \A r \in Small : span'[r] = span[r]
    <3>1. \A r \in Addr : span'[r].kind = "small" <=> span[r].kind = "small"
      BY <1>3, <1>5, <2>4 DEF Record
    <3>2. 0 \notin Small
      BY <1>5 DEF Small
    <3> QED BY <2>4, <3>1, <3>2 DEF Small
  <2>6. \A q \in Addr : span'[q].kind = "large" <=> span[q].kind = "large"
    BY <1>5, <2>4 DEF Record
  <2>7. NodesOK'
    BY <2>5 DEF Spans, NodesOK, Nodes
  <2>8. CachesOK' /\ ListSound'
    BY <1>1, <2>5, <2>6 DEF CachesOK, ListSound
  <2>9. \A q \in Addr : (IsFree(q)' <=> IsFree(q)) /\ (Owned(q)' <=> Owned(q)) /\ (Held(q)' <=> Held(q))
    BY <1>1, <1>2, <2>5, <2>6 DEF IsFree, Owned, Held, Nodes
  <2>10. PlacesOK'
    BY <1>1, <1>2, <2>9 DEF PlacesOK, Alone
  <2> QED BY <1>1, <1>2, <2>3, <2>7, <2>8, <2>10 DEF Spans
<1> QED BY <1>3, <1>4, <1>5

(* The steps that move a call on, and no node.                                       *)
LEMMA CallsMove ==
  ASSUME Inv, NEW t \in Threads,
         PageAllocFails(t) \/ GiveUp(t) \/ LockBatch(t) \/ BatchDone(t) \/ tc_gc(t)
           \/ mp_force_gc(t) \/ TryGc(t)
  PROVE  Inv'
<1> USE DEF Inv, TypeOK
<1>1. SUFFICES pc' \in [Threads -> Calls] /\ \A u \in Threads : InHand(u)' = InHand(u)
  BY OnlyPc DEF PageAllocFails, GiveUp, LockBatch, BatchDone, tc_gc, mp_force_gc, TryGc
<1>2. \A a \in {"idle", "tc_gc", "gc", "sweep", "retry"} : [at |-> a] \in Calls /\ [at |-> a].at # "found"
  BY DEF Calls
<1>3. PICK c \in Calls : pc' = [pc EXCEPT ![t] = c] /\ c.at # "found" /\ pc[t].at # "found"
  <2>1. CASE PageAllocFails(t)
    BY <1>2, <2>1 DEF PageAllocFails, At, Goto
  <2>2. CASE GiveUp(t)
    BY <1>2, <2>2 DEF GiveUp, At, Goto, Idle
  <2>3. CASE LockBatch(t)
    <3> DEFINE n == pc[t].num  a == pc[t].then
    <3>1. pc[t].at = "lock" /\ n \in Int /\ a \in {"idle", "gc"}
      BY <2>3, CallTypes DEF LockBatch, At
    <3>2. pc' = [pc EXCEPT ![t] = Batch("batch", n, a)]
      BY <2>3 DEF LockBatch, Goto
    <3> HIDE DEF n, a
    <3>3. Batch("batch", n, a) \in Calls /\ Batch("batch", n, a).at = "batch"
      BY <3>1, Batches
    <3> QED BY <3>1, <3>2, <3>3
  <2>4. CASE BatchDone(t)
    <3>1. pc[t].at = "batch" /\ pc[t].then \in {"idle", "gc"}
      BY <2>4, CallTypes DEF BatchDone, At
    <3> QED BY <1>2, <2>4, <3>1 DEF BatchDone, Goto
  <2>5. CASE tc_gc(t)
    <3> DEFINE n == nd_cached[t]
    <3>1. Batch("batch", n, "gc") \in Calls /\ Batch("batch", n, "gc").at = "batch"
      BY Batches
    <3>2. /\ pc[t].at = "tc_gc"
          /\ \/ pc' = [pc EXCEPT ![t] = Batch("batch", n, "gc")]
             \/ pc' = [pc EXCEPT ![t] = [at |-> "gc"]]
      BY <2>5 DEF tc_gc, At, Goto
    <3> HIDE DEF n
    <3> QED BY <1>2, <3>1, <3>2
  <2>6. CASE mp_force_gc(t)
    <3> DEFINE n == nd_cached[t]
    <3>1. Batch("lock", n, "gc") \in Calls /\ Batch("lock", n, "gc").at = "lock"
      BY Batches
    <3>2. pc[t].at = "idle" /\ pc' = [pc EXCEPT ![t] = Batch("lock", n, "gc")]
      BY <2>6 DEF mp_force_gc, At, Goto
    <3> HIDE DEF n
    <3> QED BY <3>1, <3>2
  <2>7. CASE TryGc(t)
    BY <1>2, <2>7 DEF TryGc, At, Goto
  <2> QED BY <2>1, <2>2, <2>3, <2>4, <2>5, <2>6, <2>7
<1> QED BY <1>3, Moved

LEMMA InitInv == Init => Inv
<1> SUFFICES ASSUME Init PROVE Inv
  OBVIOUS
<1>1. /\ bucket = [b \in Buckets |-> NULL] /\ span = [s \in Addr |-> NoSpan] /\ sl_list = <<>>
      /\ cache = [t \in Threads |-> {}] /\ nd_cached = [t \in Threads |-> 0] /\ used = {}
      /\ pc = [t \in Threads |-> Idle]
  BY DEF Init, Buckets
<1>2. Idle \in Calls /\ Idle.at = "idle"
  BY DEF Idle, Calls
<1>3. NoSpan \in [kind : Kinds, nd_free : SUBSET Addr, nd_nnum : Int]
  BY DEF NoSpan, Kinds
<1>4. TypeOK
  BY <1>1, <1>2, <1>3 DEF TypeOK, SpanTypes
<1>5. Small = {} /\ \A s \in Addr : ~Mapped(s) /\ span[s].nd_nnum = 0 /\ span[s].kind # "large"
  BY <1>1 DEF Small, Mapped, NoSpan
<1>6. Placed /\ Apart /\ PageMap /\ NodesOK /\ Blank
  BY <1>1, <1>5 DEF Placed, NoSpan, Apart, PageMap, NodesOK, Blank
<1>7. CachesOK
  BY <1>1, FS_EmptySet DEF CachesOK
<1>8. \A q \in Addr : ~IsFree(q) /\ ~Owned(q) /\ ~Held(q)
  BY <1>1, <1>2, <1>5 DEF IsFree, Owned, Held, InHand
<1>9. PlacesOK
  BY <1>1, <1>2, <1>8 DEF PlacesOK, Alone, InHand
<1>10. ListSound
  BY <1>1, <1>5 DEF ListSound, ToSet, IsInjective
<1> QED BY <1>4, <1>6, <1>7, <1>9, <1>10 DEF Inv, Spans, TypeOK

(* No other thread touches the cache of a thread that gives nodes back.               *)
LEMMA PendingStep ==
  ASSUME Pending, NEW t \in Threads,
         \A u \in Threads : u # t => pc'[u] = pc[u] /\ cache'[u] = cache[u],
         pc'[t].at = "node" => pc'[t].p \in cache'[t]
  PROVE  Pending'
  BY DEF Pending

LEMMA PendingKept ==
  ASSUME Inv, Pending, [Next]_vars PROVE Pending'
<1> USE DEF Inv, TypeOK
<1>1. CASE UNCHANGED vars
  BY <1>1 DEF vars, Pending
<1>2. ASSUME NEW t \in Threads, UNCHANGED <<pc, cache>> PROVE Pending'
  BY <1>2 DEF Pending
<1>3. ASSUME NEW t \in Threads, NEW p \in Addr, dealloc_batch_nolock(t, p) PROVE Pending'
  <2>1. /\ p \in cache[t] /\ cache' = cache
        /\ pc' = [pc EXCEPT ![t] = [at |-> "node", num |-> pc[t].num, then |-> pc[t].then,
                                    p |-> p, sp |-> bucket[BucketOf(p)]]]
    BY <1>3 DEF dealloc_batch_nolock, Goto
  <2> QED BY <2>1, PendingStep
<1>4. ASSUME NEW t \in Threads, NEW p \in Addr, AllocCached(t, p) \/ alloc_small_batch(t, p)
      PROVE  Pending'
  <2>1. pc[t].at = "idle" /\ pc' = pc /\ \A u \in Threads : u # t => cache'[u] = cache[u]
    BY <1>4 DEF AllocCached, alloc_small_batch, At
  <2> QED BY <2>1, PendingStep
<1>5. ASSUME NEW t \in Threads, NEW c, pc' = [pc EXCEPT ![t] = c], c.at # "node", cache' = cache
      PROVE  Pending'
  BY <1>5, PendingStep
<1>6. \A a, n, then : Batch(a, n, then).at = a
  BY DEF Batch
<1>7. ASSUME NEW t \in Threads, NEW p \in Addr, alloc_large(t, p) \/ mp_free(t, p) PROVE Pending'
  <2>1. PICK c : pc' = [pc EXCEPT ![t] = c] /\ c.at # "node" /\ cache' = cache
    BY <1>7 DEF alloc_large, mp_free, Goto, Idle
  <2> QED BY <1>5, <2>1
<1>8. ASSUME NEW t \in Threads,
             PageAllocFails(t) \/ InsertNull(t) \/ GiveUp(t) \/ mp_force_gc(t) \/ LockBatch(t)
               \/ BatchDone(t) \/ FreeLarge(t) \/ dealloc_real(t) \/ tc_gc(t) \/ TryGc(t)
      PROVE  Pending'
  <2>1. PICK c : pc' = [pc EXCEPT ![t] = c] /\ c.at # "node" /\ cache' = cache
    <3>1. CASE PageAllocFails(t) \/ InsertNull(t) \/ GiveUp(t)
      BY <3>1 DEF PageAllocFails, InsertNull, GiveUp, Goto, Idle
    <3>2. CASE mp_force_gc(t) \/ LockBatch(t) \/ tc_gc(t)
      BY <1>6, <3>2 DEF mp_force_gc, LockBatch, tc_gc, Goto
    <3>3. CASE BatchDone(t)
      <4>1. pc[t].then \in {"idle", "gc"}
        BY <3>3, CallTypes DEF BatchDone, At
      <4>2. pc' = [pc EXCEPT ![t] = [at |-> pc[t].then]] /\ cache' = cache
        BY <3>3 DEF BatchDone, Goto
      <4>3. [at |-> pc[t].then].at # "node"
        BY <4>1
      <4> QED BY <4>2, <4>3
    <3>4. CASE FreeLarge(t) \/ dealloc_real(t)
      BY <3>4 DEF FreeLarge, dealloc_real, Goto, Idle
    <3>5. CASE TryGc(t)
      BY <3>5 DEF TryGc, Goto
    <3> QED BY <1>8, <3>1, <3>2, <3>3, <3>4, <3>5
  <2> QED BY <1>5, <2>1
<1>9. ASSUME NEW t \in Threads, DeallocCached(t) \/ NodeBack(t) PROVE Pending'
  <2>1. PICK c : /\ pc' = [pc EXCEPT ![t] = c] /\ c.at # "node"
                 /\ \A u \in Threads : u # t => cache'[u] = cache[u]
    <3>1. CASE DeallocCached(t)
      <4> DEFINE b == Batch("lock", (nd_cached[t] + 1) \div 2, "idle")
      <4>1. b.at = "lock" /\ Idle.at = "idle"
        BY <1>6 DEF Idle
      <4>2. /\ cache' = [cache EXCEPT ![t] = @ \cup {pc[t].p}]
            /\ pc' = [pc EXCEPT ![t] = IF nd_cached[t] >= MaxCached THEN b ELSE Idle]
        BY <3>1 DEF DeallocCached, Goto
      <4> HIDE DEF b
      <4>3. \A u \in Threads : u # t => cache'[u] = cache[u]
        BY <4>2
      <4>4. CASE nd_cached[t] >= MaxCached
        BY <4>1, <4>2, <4>3, <4>4
      <4>5. CASE ~(nd_cached[t] >= MaxCached)
        BY <4>1, <4>2, <4>3, <4>5
      <4> QED BY <4>4, <4>5
    <3>2. CASE NodeBack(t)
      <4> DEFINE b == Batch("batch", pc[t].num - 1, pc[t].then)
      <4>1. b.at = "batch"
        BY <1>6
      <4>2. cache' = [cache EXCEPT ![t] = @ \ {pc[t].p}] /\ pc' = [pc EXCEPT ![t] = b]
        BY <3>2 DEF NodeBack, Goto
      <4> HIDE DEF b
      <4>3. \A u \in Threads : u # t => cache'[u] = cache[u]
        BY <4>2
      <4> QED BY <4>1, <4>2, <4>3
    <3> QED BY <1>9, <3>1, <3>2
  <2> QED BY <2>1, PendingStep
<1>10. ASSUME NEW t \in Threads, gc(t) PROVE Pending'
  <2>1. cache' = cache /\ (pc' = pc \/ pc' = [pc EXCEPT ![t] = [at |-> "retry"]])
    BY <1>10 DEF gc, Goto
  <2> QED BY <1>2, <1>5, <2>1
<1>11. ASSUME NEW t \in Threads, WriteNearNull(t) \/ ReadFreed(t) PROVE Pending'
  BY <1>2, <1>11 DEF WriteNearNull, ReadFreed
<1>12. ASSUME NEW t \in Threads, NEW p \in Addr, alloc_small(t, p) PROVE Pending'
  BY <1>2, <1>12 DEF alloc_small
<1>13. CASE Dead
  BY <1>1, <1>13 DEF Dead
<1>14. used \subseteq Addr
  OBVIOUS
<1> QED BY <1>1, <1>3, <1>4, <1>7, <1>8, <1>9, <1>10, <1>11, <1>12, <1>13, <1>14 DEF Next

LEMMA InvKept ==
  ASSUME Inv, Pending, [Next]_vars PROVE Inv'
<1>1. CASE UNCHANGED vars
  BY <1>1, InvStutters
<1>2. ASSUME NEW t \in Threads, NEW p \in Addr,
             alloc_small(t, p) \/ AllocCached(t, p) \/ alloc_small_batch(t, p)
               \/ alloc_large(t, p) \/ dealloc_batch_nolock(t, p)
      PROVE  Inv'
  BY <1>2, OneTaken, CacheTaken, ListTaken, LargeTaken, NodeRead
<1>3. ASSUME NEW t \in Threads, NEW p \in used, mp_free(t, p) PROVE Inv'
  BY <1>3, Taken
<1>4. ASSUME NEW t \in Threads,
             PageAllocFails(t) \/ GiveUp(t) \/ LockBatch(t) \/ BatchDone(t) \/ tc_gc(t)
               \/ mp_force_gc(t) \/ TryGc(t)
      PROVE  Inv'
  BY <1>4, CallsMove
<1>5. ASSUME NEW t \in Threads, ReadFreed(t) \/ WriteNearNull(t) PROVE Inv'
  <2>1. UNCHANGED <<bucket, span, sl_list, cache, nd_cached, used, pc>>
    BY <1>5 DEF ReadFreed, WriteNearNull
  <2>2. pc' \in [Threads -> Calls] /\ \A u \in Threads : InHand(u)' = InHand(u)
    BY <2>1 DEF Inv, TypeOK, InHand
  <2> QED BY <2>1, <2>2, OnlyPc
<1>6. ASSUME NEW t \in Threads,
             FreeLarge(t) \/ DeallocCached(t) \/ dealloc_real(t) \/ gc(t) \/ InsertNull(t) \/ NodeBack(t)
      PROVE  Inv'
  <2>1. CASE NodeBack(t)
    <3>1. pc[t].at = "node" /\ pc[t].p \in cache[t] /\ cache[t] \subseteq Addr
      BY <2>1 DEF NodeBack, Found, At, Pending, Inv, TypeOK
    <3>2. PICK p \in Addr : p = pc[t].p
      BY <3>1
    <3> QED BY <2>1, <3>1, <3>2, NodeReturned
  <2> QED BY <1>6, <2>1, LargeBack, NodeCached, NodeFreed, Collected, NullInserted
<1>7. CASE Dead
  BY <1>7, InvStutters DEF Dead
<1> QED BY <1>1, <1>2, <1>3, <1>4, <1>5, <1>6, <1>7 DEF Next

(* Every reachable state is typed, and in it the spans lie apart, the page map leads  *)
(* to them, and each of their nodes is in one place. A failed alloc_large may leave   *)
(* a header of memory that is not there: it is at 0, below all of them.              *)
THEOREM PoolInv == Spec => []Inv
<1>1. Init => Inv /\ Pending
  <2>1. Init => \A t \in Threads : pc[t].at = "idle"
    BY DEF Init, Idle
  <2> QED BY <2>1, InitInv DEF Pending
<1>2. Inv /\ Pending /\ [Next]_vars => (Inv /\ Pending)'
  BY InvKept, PendingKept
<1> QED BY <1>1, <1>2, PTL DEF Spec

------------------------------------------------------------------------------------
(* What follows from it.                                                             *)

LEMMA One == ASSUME NEW S, NEW x \in S, \A y \in S : y = x PROVE Cardinality(S) = 1
<1>1. S = {x}
  OBVIOUS
<1> QED BY <1>1, FS_Singleton

LEMMA None == ASSUME NEW S, \A x \in S : FALSE PROVE Cardinality(S) = 0
<1>1. S = {}
  OBVIOUS
<1> QED BY <1>1, FS_EmptySet

(* The number of places of an address is what Owned says.                            *)
LEMMA PlacesCount == ASSUME Inv, NEW p \in Addr PROVE Places(p) = IF Owned(p) THEN 1 ELSE 0
<1> USE DEF Inv
<1> DEFINE C == {t \in Threads : p \in cache[t]}
           H == {t \in Threads : p \in InHand(t)}
           F == {s \in Small : p \in span[s].nd_free}
           U == IF p \in used THEN 1 ELSE 0
           c == Cardinality(C)  h == Cardinality(H)  f == Cardinality(F)
<1>1. Places(p) = c + h + f + U
  BY DEF Places
<1>2. Alone(p) /\ (Owned(p) <=> p \in used \/ IsFree(p) \/ Held(p))
  BY DEF PlacesOK
<1>3. Held(p) <=> C # {} \/ H # {}
  BY DEF Held
<1>4. IsFree(p) <=> F # {}
  BY DEF IsFree
<1>5. c = IF C = {} THEN 0 ELSE 1
  BY <1>2, One, None DEF Alone
<1>6. h = IF H = {} THEN 0 ELSE 1
  BY <1>2, One, None DEF Alone
<1>7. f = IF F = {} THEN 0 ELSE 1
  <2>1. \A r, s \in F : r = s
    BY NodesOfOne DEF Spans, NodesOK
  <2> QED BY <2>1, One, None
<1>8. /\ C # {} => H = {}
      /\ p \in used => C = {} /\ H = {} /\ F = {}
      /\ F # {} => p \notin used /\ C = {} /\ H = {}
  BY <1>2, <1>3, <1>4 DEF Alone
<1> HIDE DEF C, H, F, c, h, f
<1> QED BY <1>1, <1>2, <1>3, <1>4, <1>5, <1>6, <1>7, <1>8

LEMMA OnePlaceHolds == Inv => OnePlace
<1> SUFFICES ASSUME Inv PROVE OnePlace
  OBVIOUS
<1>1. \A p \in Addr : Owned(p) <=> \/ \E s \in Small : p \in s .. (s + NodesPerSpan - 1)
                                   \/ span[p].kind = "large"
  BY DEF Owned, Nodes, NodesPerSpan
<1>2. \A s \in Small : span[s].nd_nnum + Cardinality(span[s].nd_free) = NodesPerSpan
  BY DEF Inv, Spans, NodesOK, NodesPerSpan
<1> QED BY <1>1, <1>2, PlacesCount DEF OnePlace, Inv, CachesOK

LEMMA SpanFoundHolds == Inv => SpanFound
<1> SUFFICES ASSUME Inv PROVE SpanFound
  OBVIOUS
<1> USE DEF Inv, TypeOK
<1>1. ASSUME NEW p \in used \cup UNION {cache[t] : t \in Threads}
      PROVE  /\ find_bucket(p) # NULL /\ span[find_bucket(p)].kind \in {"small", "large"}
             /\ p \in find_bucket(p) .. (find_bucket(p) + Length(find_bucket(p)) - 1)
  <2>1. p \in Addr /\ (p \in used \/ Held(p))
    BY DEF Held
  <2>2. Owned(p)
    BY <2>1 DEF PlacesOK
  <2>3. CASE span[p].kind = "large"
    <3>1. find_bucket(p) = p /\ p \in Nat /\ Length(p) = LargeSize
      BY <2>1, <2>3, FindsLarge, Lengths DEF Spans
    <3> QED BY <2>1, <2>3, <3>1 DEF Addr
  <2>4. CASE span[p].kind # "large"
    <3>1. PICK s \in Small : p \in Nodes(s)
      BY <2>2, <2>4 DEF Owned
    <3>2. find_bucket(p) = s
      BY <3>1, FindsNode
    <3>3. s \in Addr /\ Length(s) = PerBucket /\ span[s].kind = "small"
      BY Lengths DEF Small, Spans
    <3> QED BY <3>1, <3>2, <3>3 DEF Nodes, Addr
  <2> QED BY <2>3, <2>4
<1>2. DOMAIN bucket = Buckets
  BY DEF SpanTypes
<1>3. ASSUME NEW b \in Buckets, bucket[b] # NULL
      PROVE  /\ BucketOf(bucket[b]) = b
             /\ span[bucket[b]].kind \in {"small", "large"} \/ (span[bucket[b]].kind = "null" /\ bucket[b] = 0)
  <2>1. bucket[b] \in Addr /\ Mapped(bucket[b]) /\ BucketOf(bucket[b]) = b
    BY <1>3 DEF Spans, SpanTypes, PageMap
  <2> QED BY <2>1 DEF Spans, SpanTypes, Kinds, Placed, Mapped
<1> QED BY <1>1, <1>2, <1>3 DEF SpanFound

(* No node is in two places, none is lost, and the counts are those of the lists.     *)
THEOREM NodesInOnePlace == Spec => []OnePlace
BY PoolInv, OnePlaceHolds, PTL

(* The slot's list is sound: its head always has a node to give.                     *)
THEOREM ListIsSound == Spec => []ListSound
<1>1. Inv => ListSound
  BY DEF Inv
<1> QED BY PoolInv, <1>1, PTL

(* The page map finds the span of every node that may come back, and leads to no span  *)
(* that is unmapped; the only one without memory is what a failed alloc_large left.    *)
THEOREM SpansAreFound == Spec => []SpanFound
BY PoolInv, SpanFoundHolds, PTL
==============================================================================
