------------------------ MODULE BalancedTree_sequence -------------------------
(***************************************************************************)
(* For any nodes and keys, both policies, unique and equal keys: the nodes *)
(* of a tree stand from left to right in the order of their keys, lower_   *)
(* bound and upper_bound find what they promise, and the container is the  *)
(* sorted sequence of SortedSequence. A call remembers the sequence that    *)
(* it found (was); the invariant OInv says, in each phase, what of it is    *)
(* still to be done.                                                        *)
(***************************************************************************)
EXTENDS BalancedTree_proofs

------------------------------------------------------------------------------
(* Sequences of nodes from left to right.                                  *)

(* s is the part of w from i to j.                                         *)
PartOf(s, w, i, j) ==
  /\ s \in Seq(Nodes) /\ Len(s) = j - i + 1 /\ DOMAIN s = 1 .. j - i + 1
  /\ \A x \in 1 .. j - i + 1 : s[x] = w[i + x - 1]

(* A part of a sequence,                                                   *)
LEMMA PartIs ==
  ASSUME NEW w \in Seq(Nodes), NEW i \in 1 .. Len(w) + 1, NEW j \in 0 .. Len(w), i <= j + 1,
         NEW s, s = SubSeq(w, i, j)
  PROVE PartOf(s, w, i, j)
<1>1. Len(w) \in Nat /\ DOMAIN w = 1 .. Len(w) /\ \A x \in 1 .. Len(w) : w[x] \in Nodes  OBVIOUS
<1>2. s = [x \in 1 .. j - i + 1 |-> w[i + x - 1]]
  OBVIOUS
<1>3. j - i + 1 \in Nat  BY <1>1
<1>4. ASSUME NEW x \in 1 .. j - i + 1 PROVE w[i + x - 1] \in Nodes
  <2>1. i + x - 1 \in 1 .. Len(w)  BY <1>1
  <2> QED BY <2>1, <1>1
<1> QED BY <1>2, <1>3, <1>4 DEF PartOf

(* and two of them in a row.                                               *)
LEMMA RowIs ==
  ASSUME NEW a \in Seq(Nodes), NEW b \in Seq(Nodes), NEW s, s = a \o b
  PROVE s \in Seq(Nodes) /\ Len(s) = Len(a) + Len(b) /\ DOMAIN s = 1 .. Len(a) + Len(b)
        /\ \A x \in 1 .. Len(s) : s[x] = IF x <= Len(a) THEN a[x] ELSE b[x - Len(a)]
OBVIOUS

(* A part of a sequence from left to right is one.                         *)
LEMMA RisingPart ==
  ASSUME NEW O, NEW A, NEW w, Rising(O, A, w), NEW i \in 1 .. Len(w) + 1, NEW j \in 0 .. Len(w), i <= j + 1
  PROVE Rising(O, {w[x] : x \in i .. j}, SubSeq(w, i, j))
<1> DEFINE s == SubSeq(w, i, j)
<1>1. w \in Seq(Nodes) /\ DOMAIN w = 1 .. Len(w) /\ Len(w) \in Nat  BY DEF Rising
<1>2. PartOf(s, w, i, j)  BY <1>1, PartIs
<1> HIDE DEF s
<1>3. s \in Seq(Nodes) /\ DOMAIN s = 1 .. j - i + 1 /\ \A x \in 1 .. j - i + 1 : s[x] = w[i + x - 1]
  BY <1>2 DEF PartOf
<1>4. ASSUME NEW x \in DOMAIN s PROVE i + x - 1 \in i .. j /\ i + x - 1 \in DOMAIN w /\ s[x] = w[i + x - 1]
  BY <1>1, <1>3
<1>5. Elems(s) = {w[x] : x \in i .. j}
  <2>1. ASSUME NEW x \in i .. j PROVE w[x] \in Elems(s)
    <3> DEFINE y == x - i + 1
    <3>1. y \in DOMAIN s /\ i + y - 1 = x  BY <1>1, <1>3
    <3> HIDE DEF y
    <3>2. s[y] = w[x]  BY <3>1, <1>4
    <3> QED BY <3>1, <3>2 DEF Elems
  <2>2. \A x \in DOMAIN s : s[x] \in {w[y] : y \in i .. j}  BY <1>4
  <2> QED BY <2>1, <2>2 DEF Elems
<1>6. ASSUME NEW x \in DOMAIN s, NEW y \in DOMAIN s, x < y PROVE O[2][s[x]] < O[2][s[y]]
  <2>1. i + x - 1 < i + y - 1  BY <1>1, <1>3, <1>6
  <2> QED BY <2>1, <1>4 DEF Rising
<1>7. Rising(O, {w[x] : x \in i .. j}, s)  BY <1>3, <1>5, <1>6 DEF Rising
<1> QED BY <1>7 DEF s

(* There is one sequence of given nodes from left to right.                *)
LEMMA RisingOnce ==
  ASSUME NEW O, \A m \in Nodes : O[2][m] \in Int, NEW A, NEW a, Rising(O, A, a), NEW b, Rising(O, A, b)
  PROVE a = b
<1> DEFINE Same(x) == x <= Len(a) => x <= Len(b) /\ a[x] = b[x]
           T == {k \in Nat : \A x \in 1 .. k : Same(x)}
<1>1. /\ a \in Seq(Nodes) /\ b \in Seq(Nodes) /\ Elems(a) = A /\ Elems(b) = A
      /\ DOMAIN a = 1 .. Len(a) /\ DOMAIN b = 1 .. Len(b) /\ Len(a) \in Nat /\ Len(b) \in Nat
  BY DEF Rising
<1>2. /\ \A x \in DOMAIN a : a[x] \in A /\ a[x] \in Nodes /\ O[2][a[x]] \in Int
      /\ \A x \in DOMAIN b : b[x] \in A /\ b[x] \in Nodes /\ O[2][b[x]] \in Int
  BY <1>1 DEF Elems
<1>3. /\ \A x, y \in DOMAIN a : x < y => O[2][a[x]] < O[2][a[y]]
      /\ \A x, y \in DOMAIN b : x < y => O[2][b[x]] < O[2][b[y]]
  BY DEF Rising
<1>4. ASSUME NEW k \in Nat, \A x \in 1 .. k : Same(x), k + 1 <= Len(a)
      PROVE k + 1 <= Len(b) /\ a[k + 1] = b[k + 1]
  <2> DEFINE x == k + 1
  <2>1. x \in DOMAIN a /\ x \in Nat  BY <1>1, <1>4
  <2>2. \A y \in DOMAIN a : y < x => y \in DOMAIN b /\ a[y] = b[y]
    <3> SUFFICES ASSUME NEW y \in DOMAIN a, y < x PROVE y \in DOMAIN b /\ a[y] = b[y]  OBVIOUS
    <3>1. y \in 1 .. k /\ y <= Len(a)  BY <1>1
    <3>2. y <= Len(b) /\ a[y] = b[y]  BY <3>1, <1>4
    <3> QED BY <3>1, <3>2, <1>1
  <2> HIDE DEF x
  <2>3. PICK z \in DOMAIN b : b[z] = a[x]  BY <2>1, <1>1, <1>2 DEF Elems
  <2>4. z \in Nat /\ z <= Len(b) /\ z >= 1  BY <1>1
  <2>5. ~(z < x)
    <3> SUFFICES ASSUME z < x PROVE FALSE  OBVIOUS
    <3>1. z \in DOMAIN a  BY <2>1, <2>4, <1>1
    <3>2. a[z] = a[x] /\ O[2][a[z]] < O[2][a[x]]  BY <2>1, <2>2, <2>3, <3>1, <1>3
    <3>3. O[2][a[x]] < O[2][a[x]] /\ O[2][a[x]] \in Int  BY <2>1, <3>2, <1>2
    <3> QED BY ONLY <3>3
  <2>6. x \in DOMAIN b  BY <2>1, <2>4, <2>5, <1>1
  <2>7. ~(x < z)
    <3> SUFFICES ASSUME x < z PROVE FALSE  OBVIOUS
    <3>1. O[2][b[x]] < O[2][a[x]]  BY <2>3, <2>6, <1>3
    <3>2. PICK y \in DOMAIN a : a[y] = b[x]  BY <2>6, <1>1, <1>2 DEF Elems
    <3>3. y \in Nat  BY <1>1
    <3>4. ~(y < x)
      <4> SUFFICES ASSUME y < x PROVE FALSE  OBVIOUS
      <4>1. y \in DOMAIN b /\ b[y] = b[x]  BY <2>2, <3>2
      <4>2. O[2][b[y]] < O[2][b[x]]  BY <4>1, <2>6, <1>3
      <4>3. O[2][b[x]] < O[2][b[x]] /\ O[2][b[x]] \in Int  BY <4>1, <4>2, <2>6, <1>2
      <4> QED BY ONLY <4>3
    <3>5. y = x \/ x < y  BY ONLY <2>1, <3>3, <3>4
    <3>6. O[2][a[x]] <= O[2][b[x]] /\ O[2][a[x]] \in Int /\ O[2][b[x]] \in Int
      <4>1. O[2][a[x]] \in Int /\ O[2][b[x]] \in Int  BY <2>1, <2>6, <1>2
      <4>2. CASE y = x
        <5>1. O[2][a[x]] = O[2][b[x]]  BY <3>2, <4>2
        <5> QED BY ONLY <4>1, <5>1
      <4>3. CASE x < y
        <5>1. O[2][a[x]] < O[2][b[x]]  BY <2>1, <3>2, <4>3, <1>3
        <5> QED BY ONLY <4>1, <5>1
      <4> QED BY <3>5, <4>2, <4>3
    <3> QED BY ONLY <3>1, <3>6
  <2>8. z = x  BY ONLY <2>1, <2>4, <2>5, <2>7
  <2>9. x <= Len(b) /\ a[x] = b[x]  BY <2>3, <2>4, <2>8
  <2> QED BY <2>9 DEF x
<1>5. T = Nat
  <2>1. 0 \in T
    <3>1. 1 .. 0 = {}  OBVIOUS
    <3> QED BY <3>1
  <2>2. ASSUME NEW k \in T PROVE k + 1 \in T
    <3>1. k \in Nat /\ \A x \in 1 .. k : Same(x)  OBVIOUS
    <3>2. Same(k + 1)  BY <3>1, <1>4
    <3> HIDE DEF Same
    <3>3. \A x \in 1 .. k + 1 : x \in 1 .. k \/ x = k + 1  BY <3>1
    <3> QED BY <3>1, <3>2, <3>3
  <2> HIDE DEF T
  <2>3. T \subseteq Nat  BY DEF T
  <2> QED BY <2>1, <2>2, <2>3, AllNumbers
<1>6. ASSUME NEW x \in DOMAIN a PROVE x \in DOMAIN b /\ a[x] = b[x]
  <2>1. x \in Nat /\ x \in T /\ x \in 1 .. x /\ x <= Len(a)  BY <1>1, <1>5
  <2>2. Same(x)  BY <2>1
  <2> QED BY <2>1, <2>2, <1>1
<1>7. Len(a) <= Len(b)
  <2>1. CASE Len(a) = 0  BY <2>1, <1>1
  <2>2. CASE Len(a) # 0
    <3>1. Len(a) \in DOMAIN a  BY <2>2, <1>1
    <3>2. Len(a) \in DOMAIN b  BY <3>1, <1>6
    <3> QED BY <3>2, <1>1
  <2> QED BY <2>1, <2>2
<1>8. ~(Len(a) < Len(b))
  <2> SUFFICES ASSUME Len(a) < Len(b) PROVE FALSE  OBVIOUS
  <2> DEFINE x == Len(a) + 1
  <2>1. x \in DOMAIN b /\ x \in Nat  BY <1>1
  <2>2. \A y \in DOMAIN a : y < x /\ y \in DOMAIN b /\ a[y] = b[y]  BY <1>1, <1>6
  <2> HIDE DEF x
  <2>3. PICK y \in DOMAIN a : a[y] = b[x]  BY <2>1, <1>1, <1>2 DEF Elems
  <2>4. O[2][b[y]] < O[2][b[x]] /\ b[y] = b[x]  BY <2>1, <2>2, <2>3, <1>3
  <2>5. O[2][b[x]] < O[2][b[x]] /\ O[2][b[x]] \in Int  BY <2>1, <2>4, <1>2
  <2> QED BY ONLY <2>5
<1>9. Len(a) = Len(b)
  <2>1. Len(a) \in Nat /\ Len(b) \in Nat  BY <1>1
  <2> QED BY ONLY <2>1, <1>7, <1>8
<1>10. a = [x \in DOMAIN a |-> a[x]] /\ b = [x \in DOMAIN b |-> b[x]] /\ DOMAIN a = DOMAIN b  BY <1>1, <1>9
<1> QED BY <1>6, <1>10

(* The first of some numbers.                                              *)
LEMMA LowerPart ==
  ASSUME NEW N \in Nat, NEW P, P \subseteq 1 .. N, \A j \in P : \A i \in 1 .. N : i < j => i \in P
  PROVE \E i \in 0 .. N : P = 1 .. i
<1> DEFINE Lower(Q, k) == Q \subseteq 1 .. k /\ \A j \in Q : \A i \in 1 .. k : i < j => i \in Q
           T == {k \in Nat : \A Q \in SUBSET Nat : Lower(Q, k) => \E i \in 0 .. k : Q = 1 .. i}
<1>1. 0 \in T
  <2> SUFFICES ASSUME NEW Q \in SUBSET Nat, Lower(Q, 0) PROVE \E i \in 0 .. 0 : Q = 1 .. i  OBVIOUS
  <2>1. 1 .. 0 = {} /\ 0 \in 0 .. 0  OBVIOUS
  <2> QED BY <2>1
<1>2. ASSUME NEW k \in T PROVE k + 1 \in T
  <2>1. k \in Nat /\ k + 1 \in Nat  OBVIOUS
  <2> SUFFICES ASSUME NEW Q \in SUBSET Nat, Lower(Q, k + 1) PROVE \E i \in 0 .. k + 1 : Q = 1 .. i  BY <2>1
  <2>2. CASE k + 1 \in Q
    <3>1. \A i \in 1 .. k : i \in 1 .. k + 1 /\ i < k + 1  BY <2>1
    <3>2. \A i \in 1 .. k : i \in Q  BY <3>1, <2>2
    <3>3. \A i \in 1 .. k + 1 : i \in 1 .. k \/ i = k + 1  BY <2>1
    <3>4. Q = 1 .. k + 1  BY <3>2, <3>3, <2>2
    <3>5. k + 1 \in 0 .. k + 1  BY <2>1
    <3> QED BY <3>4, <3>5
  <2>3. CASE k + 1 \notin Q
    <3>1. \A i \in 1 .. k + 1 : i \in 1 .. k \/ i = k + 1  BY <2>1
    <3>2. 1 .. k \subseteq 1 .. k + 1  BY <2>1
    <3>3. Lower(Q, k)  BY <3>1, <3>2, <2>3
    <3>4. PICK i \in 0 .. k : Q = 1 .. i  BY <3>3
    <3>5. i \in 0 .. k + 1  BY <2>1
    <3> QED BY <3>4, <3>5
  <2> QED BY <2>2, <2>3
<1> HIDE DEF T
<1>3. T \subseteq Nat  BY DEF T
<1>4. N \in T  BY <1>1, <1>2, <1>3, AllNumbers
<1>5. P \in SUBSET Nat /\ Lower(P, N)  OBVIOUS
<1> QED BY <1>4, <1>5 DEF T

------------------------------------------------------------------------------
(* What a call remembers.                                                  *)

(* w is a sequence as the container had it; those of its nodes that are    *)
(* among L stand in its order.                                             *)
Kept(w, L, O) ==
  /\ w \in Seq(Nodes)
  /\ \A x, y \in DOMAIN w : x < y =>
       w[x] # w[y] /\ Key[w[x]] <= Key[w[y]] /\ (w[x] \in L /\ w[y] \in L => O[2][w[x]] < O[2][w[y]])

(* At first that is so of all nodes;                                       *)
LEMMA KeptFirst ==
  ASSUME NEW O, \A m \in Nodes : O[2][m] \in Int, NEW L, NEW w, Rising(O, L, w), NEW M, Sorted(L, O, M)
  PROVE Kept(w, L, O)
<1>1. w \in Seq(Nodes) /\ \A x \in DOMAIN w : w[x] \in Nodes /\ w[x] \in L  BY DEF Rising, Elems
<1>2. ASSUME NEW x \in DOMAIN w, NEW y \in DOMAIN w, x < y
      PROVE w[x] # w[y] /\ Key[w[x]] <= Key[w[y]] /\ O[2][w[x]] < O[2][w[y]]
  <2>1. O[2][w[x]] < O[2][w[y]]  BY <1>2 DEF Rising
  <2>2. O[2][w[x]] \in Int /\ O[2][w[y]] \in Int  BY <1>1
  <2>3. w[x] # w[y]
    <3> SUFFICES ASSUME w[x] = w[y] PROVE FALSE  OBVIOUS
    <3>1. O[2][w[x]] < O[2][w[x]]  BY <2>1
    <3> QED BY ONLY <3>1, <2>2
  <2>4. Key[w[x]] < Key[w[y]] \/ Key[w[x]] = Key[w[y]]  BY <2>1, <1>1 DEF Sorted
  <2>5. Key[w[x]] \in Nat /\ Key[w[y]] \in Nat  BY <1>1, KeyAssumption
  <2>6. Key[w[x]] <= Key[w[y]]  BY ONLY <2>4, <2>5
  <2> QED BY <2>1, <2>3, <2>6
<1> QED BY <1>1, <1>2 DEF Kept

(* the others stay as they were.                                           *)
LEMMA KeptOn ==
  ASSUME NEW O, NEW O2, NEW w, NEW L, Kept(w, L, O), NEW A, A \subseteq L, SameOrder(A, O, O2)
  PROVE Kept(w, A, O2)
BY DEF Kept, SameOrder

(* In the end a part of w is missing.                                      *)
LEMMA KeptRises ==
  ASSUME NEW w, NEW L, NEW O, Kept(w, L, O), NEW i \in 1 .. Len(w) + 1, NEW j \in 1 .. Len(w) + 1, i <= j,
         L = {w[x] : x \in DOMAIN w \ (i .. (j - 1))}
  PROVE Rising(O, L, SubSeq(w, 1, i - 1) \o SubSeq(w, j, Len(w)))
<1> DEFINE a == SubSeq(w, 1, i - 1)
           b == SubSeq(w, j, Len(w))
           s == a \o b
           P(x) == IF x <= i - 1 THEN x ELSE x - (i - 1) + (j - 1)
<1>1. w \in Seq(Nodes) /\ Len(w) \in Nat /\ DOMAIN w = 1 .. Len(w) /\ i \in Nat /\ j \in Nat  BY DEF Kept
<1>2. a \in Seq(Nodes) /\ Len(a) = i - 1 /\ DOMAIN a = 1 .. i - 1 /\ \A x \in 1 .. i - 1 : a[x] = w[x]
  <2> DEFINE one == 1
             h == i - 1
  <2>1. one \in 1 .. Len(w) + 1 /\ h \in 0 .. Len(w) /\ one <= h + 1 /\ h - one + 1 = i - 1  BY <1>1
  <2>2. a = SubSeq(w, one, h)  OBVIOUS
  <2>3. \A x \in 1 .. i - 1 : one + x - 1 = x  BY <1>1
  <2> HIDE DEF one, h, a
  <2>4. PartOf(a, w, one, h)  BY <2>1, <2>2, <1>1, PartIs
  <2> QED BY <2>1, <2>3, <2>4 DEF PartOf
<1>3. /\ b \in Seq(Nodes) /\ Len(b) = Len(w) - j + 1 /\ DOMAIN b = 1 .. Len(w) - j + 1
      /\ \A x \in 1 .. Len(w) - j + 1 : b[x] = w[j + x - 1]
  <2> DEFINE h == Len(w)
  <2>1. h \in 0 .. Len(w) /\ j <= h + 1 /\ b = SubSeq(w, j, h)  BY <1>1
  <2> HIDE DEF b, h
  <2>2. PartOf(b, w, j, h)  BY <2>1, <1>1, PartIs
  <2> QED BY <2>2 DEF h, PartOf
<1>4. s \in Seq(Nodes) /\ Len(s) = Len(a) + Len(b) /\ DOMAIN s = 1 .. Len(a) + Len(b)
      /\ \A x \in 1 .. Len(s) : s[x] = IF x <= Len(a) THEN a[x] ELSE b[x - Len(a)]
  <2>1. a \in Seq(Nodes) /\ b \in Seq(Nodes) /\ s = a \o b  BY <1>2, <1>3
  <2> HIDE DEF a, b, s
  <2> QED BY ONLY <2>1, RowIs
<1> HIDE DEF a, b, s
<1>5. ASSUME NEW x \in DOMAIN s
      PROVE P(x) \in DOMAIN w \ (i .. (j - 1)) /\ s[x] = w[P(x)]
  <2>1. x \in 1 .. (i - 1) + (Len(w) - j + 1) /\ x \in 1 .. Len(s)  BY <1>2, <1>3, <1>4
  <2>2. CASE x <= i - 1
    <3>1. x \in 1 .. i - 1 /\ P(x) = x /\ x \in DOMAIN w \ (i .. (j - 1))  BY <2>1, <2>2, <1>1
    <3>2. s[x] = a[x]  BY <2>1, <2>2, <1>2, <1>4
    <3> QED BY <3>1, <3>2, <1>2
  <2>3. CASE ~(x <= i - 1)
    <3> DEFINE y == x - (i - 1)
    <3>1. y \in 1 .. Len(w) - j + 1 /\ P(x) = j + y - 1 /\ P(x) \in DOMAIN w \ (i .. (j - 1))  BY <2>1, <2>3, <1>1
    <3>2. s[x] = b[y]  BY <2>1, <2>3, <1>2, <1>4
    <3> HIDE DEF y, P
    <3>3. b[y] = w[j + y - 1]  BY <3>1, <1>3
    <3> QED BY <3>1, <3>2, <3>3
  <2> QED BY <2>2, <2>3
<1>6. ASSUME NEW y \in DOMAIN w \ (i .. (j - 1)) PROVE \E x \in DOMAIN s : P(x) = y
  <2>0. DOMAIN s = 1 .. (i - 1) + (Len(w) - j + 1)  BY <1>2, <1>3, <1>4
  <2>1. CASE y < i
    <3>1. y \in DOMAIN s /\ P(y) = y  BY <2>0, <2>1, <1>1
    <3> QED BY <3>1
  <2>2. CASE ~(y < i)
    <3> DEFINE x == y - (j - 1) + (i - 1)
    <3>1. y >= j  BY <2>2, <1>1
    <3>2. x \in DOMAIN s /\ ~(x <= i - 1) /\ x - (i - 1) + (j - 1) = y  BY <2>0, <3>1, <1>1
    <3>3. P(x) = y  BY <3>2
    <3> QED BY <3>2, <3>3
  <2> QED BY <2>1, <2>2
<1>7. ASSUME NEW x \in DOMAIN s, NEW y \in DOMAIN s, x < y PROVE P(x) < P(y)
  <2>1. x \in Nat /\ y \in Nat  BY <1>4, <1>2, <1>3
  <2> QED BY <2>1, <1>1, <1>7
<1> HIDE DEF P
<1>8. Elems(s) = L
  <2>1. \A x \in DOMAIN s : s[x] \in L  BY <1>5
  <2>2. \A y \in DOMAIN w \ (i .. (j - 1)) : w[y] \in Elems(s)
    <3> SUFFICES ASSUME NEW y \in DOMAIN w \ (i .. (j - 1)) PROVE w[y] \in Elems(s)  OBVIOUS
    <3>1. PICK x \in DOMAIN s : P(x) = y  BY <1>6
    <3>2. s[x] = w[y]  BY <3>1, <1>5
    <3> QED BY <3>2 DEF Elems
  <2> QED BY <2>1, <2>2 DEF Elems
<1>9. ASSUME NEW x \in DOMAIN s, NEW y \in DOMAIN s, x < y PROVE O[2][s[x]] < O[2][s[y]]
  <2>1. P(x) < P(y) /\ s[x] = w[P(x)] /\ s[y] = w[P(y)] /\ P(x) \in DOMAIN w /\ P(y) \in DOMAIN w  BY <1>5, <1>7, <1>9
  <2>2. s[x] \in L /\ s[y] \in L  BY <1>8 DEF Elems
  <2> QED BY <2>1, <2>2 DEF Kept
<1>10. Rising(O, L, s)  BY <1>4, <1>8, <1>9 DEF Rising
<1> QED BY <1>10 DEF s, a, b

(* The search finds an equal node if there is one.                         *)
LEMMA FindsAny ==
  ASSUME NEW t, NEW L, NEW r, NEW O, NEW D, Spread(t, L, r, O, D), NEW M, Sorted(L, O, M),
         NEW k \in Nat, NEW n, n = Find(t, k)
  PROVE /\ n = NULL => \A m \in L : Key[m] # k
        /\ n # NULL => n \in L /\ Key[n] = k
<1> DEFINE d == 2
           c == FALSE
           p == Locate(t, k, c)
           A == Above(L, k)
           G == Least(L, k)
<1>1. Links(t, L, r) /\ L \subseteq Nodes /\ NULL \notin L  BY SpreadFacts
<1>2. \A m \in L : Key[m] \in Nat  BY <1>1, KeyAssumption
<1>3. CASE t.root = NULL
  <2>1. L = {}  BY <1>1, <1>3 DEF Links
  <2>2. n = NULL  BY <1>3 DEF Find
  <2> QED BY <2>1, <2>2
<1>4. CASE t.root # NULL
  <2>1. n = IF Key[p] = k THEN p ELSE NULL  BY <1>4 DEF Find
  <2>2. d = 2 /\ d \in Side /\ c \in BOOLEAN /\ ~c /\ p = Locate(t, k, c)  BY DEF Side
  <2> HIDE DEF d, c, p
  <2>3. /\ p \in L
        /\ k < Key[p] => Child(t, p, 1) = NULL
        /\ Key[p] < k => Child(t, p, 2) = NULL
    BY <2>2, <1>1, <1>4, LocateIs
  <2>4. Upper(L, O, d, A) /\ Upper(L, O, d, G)  BY <2>2, <1>1, KeysUpper
  <2>5. CASE Key[p] = k
    <3>1. n = p  BY <2>1, <2>5
    <3> QED BY <3>1, <2>3, <2>5, <1>1
  <2>6. CASE Key[p] # k
    <3>1. n = NULL  BY <2>1, <2>6
    <3>2. \A m \in L : (m \in A <=> k < Key[m]) /\ (m \in G <=> k <= Key[m])  BY DEF Above, Least
    <3> HIDE DEF A, G
    <3>3. ASSUME NEW m \in L
          PROVE /\ k < Key[m] => m \in A /\ m \in G
                /\ Key[m] < k => m \notin A /\ m \notin G
      BY <3>2, <1>2
    <3>4. Cut(L, O, d, A, D[p]) /\ Cut(L, O, d, G, D[p])
      <4>1. \A H \in {A, G} : \A m \in L : /\ k < Key[m] => m \in H
                                           /\ Key[m] < k \/ (c /\ ~(k < Key[m])) => m \notin H
        BY <3>3, <2>2
      <4>2. Cut(L, O, d, A, D[p])  BY <4>1, <2>2, <2>4, <1>4, LocateCuts
      <4>3. Cut(L, O, d, G, D[p])  BY <4>1, <2>2, <2>4, <1>4, LocateCuts
      <4> QED BY <4>2, <4>3
    <3>5. A = G
      <4> DEFINE dd == 1
      <4>1. dd \in Side /\ dd # d /\ dd = 1  BY <2>2 DEF Side
      <4> HIDE DEF dd
      <4>2. A \subseteq L /\ G \subseteq L  BY <2>4 DEF Upper
      <4>3. CASE k < Key[p]
        <5>1. p \in A /\ p \in G /\ Child(t, p, dd) = NULL  BY <4>1, <4>3, <3>3, <2>3
        <5>2. \A m \in L : m \in A <=> O[d][p] <= O[d][m]  BY <5>1, <4>1, <3>4, <2>2, <2>3, <2>4, CutEnds
        <5>3. \A m \in L : m \in G <=> O[d][p] <= O[d][m]  BY <5>1, <4>1, <3>4, <2>2, <2>3, <2>4, CutEnds
        <5> QED BY <5>2, <5>3, <4>2
      <4>4. CASE Key[p] < k
        <5>1. p \notin A /\ p \notin G /\ Child(t, p, d) = NULL  BY <4>4, <3>3, <2>2, <2>3
        <5>2. \A m \in L : m \in A <=> O[d][p] < O[d][m]  BY <5>1, <4>1, <3>4, <2>2, <2>3, <2>4, CutEnds
        <5>3. \A m \in L : m \in G <=> O[d][p] < O[d][m]  BY <5>1, <4>1, <3>4, <2>2, <2>3, <2>4, CutEnds
        <5> QED BY <5>2, <5>3, <4>2
      <4>5. k < Key[p] \/ Key[p] < k  BY <2>3, <2>6, <1>2
      <4> QED BY <4>3, <4>4, <4>5
    <3>6. ASSUME NEW m \in L PROVE Key[m] # k
      <4>1. k < Key[m] <=> k <= Key[m]  BY <3>2, <3>5
      <4> QED BY <4>1, <1>2
    <3> QED BY <3>1, <3>6
  <2> QED BY <2>5, <2>6
<1> QED BY <1>3, <1>4

(* How far a call that erases has come, when the nodes L are left: by key,  *)
(* before the node n itself has gone,                                      *)
KeyTold(w, n, k, L, O) ==
  /\ Kept(w, L, O) /\ n \in L /\ k \in Nat
  /\ L \cup {m \in Elems(w) : Key[m] = Key[n]} = Elems(w)
  /\ k + Cardinality(L) = Len(w) + 1

(* and after that;                                                         *)
LastTold(w, n, k, L, O) ==
  /\ Kept(w, L, O) /\ n \in Nodes /\ k \in Nat
  /\ L = {m \in Elems(w) : Key[m] # Key[n]}
  /\ k + Cardinality(L) = Len(w)

(* by iterators: the nodes from the i-th up to the q-th are missing.       *)
Missing(w, L, i, q) ==
  /\ i \in 1 .. Len(w) + 1 /\ q \in 1 .. Len(w) + 1 /\ i <= q
  /\ L = {w[y] : y \in DOMAIN w \ (i .. (q - 1))}
Place(w, q, p) == IF q \in DOMAIN w THEN p = w[q] ELSE p = NULL
RangeTold(w, p1, p2, L, O) ==
  /\ Kept(w, L, O)
  /\ \E i, q : Missing(w, L, i, q) /\ Place(w, q, p1) /\ (i < q \/ p1 # p2)

(* Sets of nodes are finite.                                               *)
LEMMA OneLess ==
  ASSUME NEW L, L \subseteq Nodes, NEW g \in L
  PROVE Cardinality(L) \in Nat /\ Cardinality(L \ {g}) \in Nat /\ Cardinality(L) = Cardinality(L \ {g}) + 1
<1>1. IsFiniteSet(L)  BY NodesAssumption, FS_Subset
<1>2. IsFiniteSet(L \ {g}) /\ Cardinality(L \ {g}) = Cardinality(L) - 1  BY <1>1, FS_RemoveElement
<1>3. Cardinality(L) \in Nat /\ Cardinality(L \ {g}) \in Nat  BY <1>1, <1>2, FS_CardinalityType
<1> QED BY <1>2, <1>3

(* So it is when the call begins, by key                                   *)
LEMMA KeyStarts ==
  ASSUME NEW O, \A m \in Nodes : O[2][m] \in Int, NEW L, NEW w, Rising(O, L, w), NEW M, Sorted(L, O, M),
         Len(w) = Cardinality(L), NEW n \in L, NEW k, k = 1
  PROVE KeyTold(w, n, k, L, O)
<1>1. Kept(w, L, O)  BY KeptFirst
<1>2. Elems(w) = L /\ Len(w) \in Nat  BY DEF Rising
<1>3. k + Cardinality(L) = Len(w) + 1 /\ k \in Nat  BY <1>2
<1>4. L \cup {m \in Elems(w) : Key[m] = Key[n]} = Elems(w)  BY <1>2
<1> QED BY <1>1, <1>3, <1>4 DEF KeyTold

(* and by iterators.                                                       *)
LEMMA RangeStarts ==
  ASSUME NEW O, \A m \in Nodes : O[2][m] \in Int, NEW L, NEW w, Rising(O, L, w), NEW M, Sorted(L, O, M),
         NEW p1 \in L, NEW p2, p1 # p2
  PROVE RangeTold(w, p1, p2, L, O)
<1>1. Kept(w, L, O)  BY KeptFirst
<1>2. Elems(w) = L /\ Len(w) \in Nat /\ DOMAIN w = 1 .. Len(w)  BY DEF Rising
<1>3. PICK i \in DOMAIN w : w[i] = p1  BY <1>2 DEF Elems
<1>4. i \in 1 .. Len(w) + 1 /\ i <= i /\ i .. (i - 1) = {}  BY <1>2
<1>5. Missing(w, L, i, i)  BY <1>2, <1>4 DEF Missing, Elems
<1>6. Place(w, i, p1)  BY <1>3 DEF Place
<1> QED BY <1>1, <1>5, <1>6 DEF RangeTold

(* An equal node goes,                                                     *)
LEMMA EqualGoes ==
  ASSUME NEW w, NEW n, NEW k, NEW L, L \subseteq Nodes, NEW O, KeyTold(w, n, k, L, O),
         NEW g \in L, g # n, Key[g] = Key[n], NEW A, A = L \ {g}, NEW O2, SameOrder(A, O, O2)
  PROVE KeyTold(w, n, k + 1, A, O2)
<1>1. Kept(w, A, O2)
  <2>1. Kept(w, L, O) /\ A \subseteq L  BY DEF KeyTold
  <2> QED BY <2>1, KeptOn
<1>2. A \cup {m \in Elems(w) : Key[m] = Key[n]} = Elems(w)
  <2>1. L \cup {m \in Elems(w) : Key[m] = Key[n]} = Elems(w)  BY DEF KeyTold
  <2>2. g \in Elems(w)  BY <2>1
  <2> QED BY <2>1, <2>2
<1>3. k + 1 \in Nat /\ k + 1 + Cardinality(A) = Len(w) + 1
  <2>1. Cardinality(L) \in Nat /\ Cardinality(A) \in Nat /\ Cardinality(L) = Cardinality(A) + 1  BY OneLess
  <2>2. k \in Nat /\ k + Cardinality(L) = Len(w) + 1  BY DEF KeyTold
  <2> QED BY ONLY <2>1, <2>2
<1>4. n \in A  BY DEF KeyTold
<1> QED BY <1>1, <1>2, <1>3, <1>4 DEF KeyTold

(* and the node itself.                                                    *)
LEMMA EqualEnds ==
  ASSUME NEW w, NEW n, NEW k, NEW L, L \subseteq Nodes, NEW O, KeyTold(w, n, k, L, O),
         \A m \in L : Key[m] = Key[n] => m = n, NEW A, A = L \ {n}, NEW O2, SameOrder(A, O, O2)
  PROVE LastTold(w, n, k, A, O2)
<1>1. Kept(w, A, O2)
  <2>1. Kept(w, L, O) /\ A \subseteq L  BY DEF KeyTold
  <2> QED BY <2>1, KeptOn
<1>2. A = {m \in Elems(w) : Key[m] # Key[n]}
  <2>1. L \cup {m \in Elems(w) : Key[m] = Key[n]} = Elems(w)  BY DEF KeyTold
  <2> QED BY <2>1
<1>3. n \in L  BY DEF KeyTold
<1>4. k \in Nat /\ k + Cardinality(A) = Len(w)
  <2>1. Cardinality(L) \in Nat /\ Cardinality(A) \in Nat /\ Cardinality(L) = Cardinality(A) + 1  BY <1>3, OneLess
  <2>2. k \in Nat /\ k + Cardinality(L) = Len(w) + 1  BY DEF KeyTold
  <2>3. Len(w) \in Nat  BY DEF KeyTold, Kept
  <2> QED BY ONLY <2>1, <2>2, <2>3
<1> QED BY <1>1, <1>2, <1>3, <1>4 DEF LastTold

(* The iterator goes on to the next one of w.                              *)
LEMMA RangeGoes ==
  ASSUME NEW t, NEW L, NEW r, NEW O, NEW D, Spread(t, L, r, O, D),
         NEW w, NEW p1 \in L, NEW p2, RangeTold(w, p1, p2, L, O), NEW s, s = Step(t, p1, 2),
         NEW A, A = L \ {p1}, NEW O2, SameOrder(A, O, O2)
  PROVE RangeTold(w, s, p2, A, O2)
<1> DEFINE d == 2
<1>1. d \in Side /\ s = Step(t, p1, d) /\ d = 2  BY DEF Side
<1> HIDE DEF d
<1>2. After(L, O, d, p1, s)  BY <1>1, StepNext
<1>3. /\ L \subseteq Nodes /\ NULL \notin L
      /\ \A m \in L : O[d][m] \in Int
  BY <1>1, SpreadFacts
<1>4. Kept(w, L, O) /\ w \in Seq(Nodes) /\ Len(w) \in Nat /\ DOMAIN w = 1 .. Len(w)  BY DEF RangeTold, Kept
<1>5. PICK i, q : Missing(w, L, i, q) /\ Place(w, q, p1)  BY DEF RangeTold
<1>6. /\ i \in 1 .. Len(w) + 1 /\ q \in 1 .. Len(w) + 1 /\ i <= q
      /\ L = {w[y] : y \in DOMAIN w \ (i .. (q - 1))}
  BY <1>5 DEF Missing
<1>7. q \in DOMAIN w /\ p1 = w[q]  BY <1>3, <1>5 DEF Place
<1>8. \A x, y \in DOMAIN w : x < y => w[x] # w[y] /\ (w[x] \in L /\ w[y] \in L => O[d][w[x]] < O[d][w[y]])
  BY <1>1, <1>4 DEF Kept
<1> DEFINE z == q + 1
<1>9. z \in 1 .. Len(w) + 1 /\ i <= z /\ i < z /\ z - 1 = q /\ z \in Nat /\ q \in Nat /\ i \in Nat
  BY <1>4, <1>6, <1>7
<1>10. Missing(w, A, i, z)
  <2>1. \A y \in DOMAIN w : y \in i .. (z - 1) <=> y \in i .. (q - 1) \/ y = q  BY <1>4, <1>6, <1>7, <1>9
  <2>2. \A y \in DOMAIN w : y # q => w[y] # w[q]
    <3> SUFFICES ASSUME NEW y \in DOMAIN w, y # q PROVE w[y] # w[q]  OBVIOUS
    <3>1. y < q \/ q < y  BY <1>4, <1>7
    <3> QED BY <3>1, <1>7, <1>8
  <2> HIDE DEF z
  <2>3. A = {w[y] : y \in DOMAIN w \ (i .. (z - 1))}  BY <2>1, <2>2, <1>6, <1>7
  <2> QED BY <2>3, <1>6, <1>9 DEF Missing
<1>11. Place(w, z, s)
  <2>1. ASSUME s # NULL
        PROVE \E y \in DOMAIN w : s = w[y] /\ q < y
    <3>1. s \in L /\ O[d][p1] < O[d][s]  BY <2>1, <1>2 DEF After
    <3>2. PICK y \in DOMAIN w : w[y] = s  BY <3>1, <1>6
    <3>3. ~(y < q)
      <4> SUFFICES ASSUME y < q PROVE FALSE  OBVIOUS
      <4>1. O[d][s] < O[d][p1]  BY <3>1, <3>2, <1>7, <1>8
      <4>2. O[d][s] \in Int /\ O[d][p1] \in Int  BY <3>1, <1>3
      <4> QED BY ONLY <3>1, <4>1, <4>2
    <3>4. y # q
      <4> SUFFICES ASSUME y = q PROVE FALSE  OBVIOUS
      <4>1. O[d][p1] < O[d][p1]  BY <3>1, <3>2, <1>7
      <4>2. O[d][p1] \in Int  BY <1>3
      <4> QED BY ONLY <4>1, <4>2
    <3>5. q < y  BY <3>3, <3>4, <1>4, <1>7
    <3> QED BY <3>2, <3>5
  <2>2. CASE z \in DOMAIN w
    <3>1. w[z] \in L
      <4>1. z \in DOMAIN w \ (i .. (q - 1))  BY <2>2, <1>9
      <4> HIDE DEF z
      <4> QED BY <4>1, <1>6
    <3>2. O[d][p1] < O[d][w[z]]
      <4>1. q < z  BY <1>9
      <4> HIDE DEF z
      <4> QED BY <2>2, <3>1, <4>1, <1>7, <1>8
    <3> HIDE DEF z
    <3>3. O[d][p1] \in Int /\ O[d][w[z]] \in Int  BY <3>1, <1>3
    <3>4. s # NULL
      <4> SUFFICES ASSUME s = NULL PROVE FALSE  OBVIOUS
      <4>1. O[d][w[z]] <= O[d][p1]  BY <3>1, <1>2 DEF After
      <4> QED BY ONLY <4>1, <3>2, <3>3
    <3>5. s \in L /\ O[d][s] <= O[d][w[z]]  BY <3>1, <3>2, <3>4, <1>2 DEF After
    <3>6. PICK y \in DOMAIN w : s = w[y] /\ q < y  BY <2>1, <3>4
    <3>7. ~(z < y)
      <4> SUFFICES ASSUME z < y PROVE FALSE  OBVIOUS
      <4>1. O[d][w[z]] < O[d][s]  BY <2>2, <3>1, <3>5, <3>6, <1>8
      <4>2. O[d][s] \in Int  BY <3>5, <1>3
      <4> QED BY ONLY <4>1, <4>2, <3>3, <3>5
    <3>8. y = z
      <4>1. y \in Nat  BY <1>4
      <4> QED BY <4>1, <3>6, <3>7, <1>9
    <3> QED BY <2>2, <3>6, <3>8 DEF Place
  <2>3. CASE z \notin DOMAIN w
    <3>1. s = NULL
      <4> SUFFICES ASSUME s # NULL PROVE FALSE  OBVIOUS
      <4>1. PICK y \in DOMAIN w : q < y  BY <2>1
      <4> QED BY <4>1, <2>3, <1>4, <1>9
    <3> QED BY <2>3, <3>1 DEF Place
  <2> QED BY <2>2, <2>3
<1>12. Kept(w, A, O2)
  <2>1. A \subseteq L  OBVIOUS
  <2> QED BY <2>1, <1>4, KeptOn
<1> HIDE DEF z
<1> QED BY <1>9, <1>10, <1>11, <1>12 DEF RangeTold

(* Equal nodes stand next to each other: when neither neighbour of n is     *)
(* equal, none is.                                                         *)
LEMMA NoneNext ==
  ASSUME NEW t, NEW L, NEW r, NEW O, NEW D, Spread(t, L, r, O, D), NEW M, Sorted(L, O, M), NEW n \in L,
         \A e \in Side : Step(t, n, e) # NULL => Key[Step(t, n, e)] # Key[n]
  PROVE \A m \in L : Key[m] = Key[n] => m = n
<1> DEFINE d == 2
           f == 1
<1>1. d \in Side /\ f \in Side /\ d = 2 /\ f # d  BY DEF Side
<1> HIDE DEF d, f
<1>2. /\ L \subseteq Nodes /\ NULL \notin L
      /\ \A m \in L : O[d][m] \in Int /\ O[f][m] \in Int /\ O[f][m] = -O[d][m] /\ Key[m] \in Nat
  BY <1>1, SpreadFacts, KeyAssumption
<1>3. \A e \in Side : After(L, O, e, n, Step(t, n, e))  BY StepNext
<1>4. \A a, b \in L : O[d][a] < O[d][b] => Key[a] <= Key[b]
  <2> SUFFICES ASSUME NEW a \in L, NEW b \in L, O[d][a] < O[d][b] PROVE Key[a] <= Key[b]  OBVIOUS
  <2>1. Key[a] < Key[b] \/ Key[a] = Key[b]  BY <1>1 DEF Sorted
  <2>2. Key[a] \in Nat /\ Key[b] \in Nat  BY <1>2
  <2> QED BY ONLY <2>1, <2>2
<1> SUFFICES ASSUME NEW m \in L, Key[m] = Key[n], m # n PROVE FALSE  OBVIOUS
<1>5. O[d][m] # O[d][n]  BY <1>1, PlacesDiffer
<1>6. O[d][m] \in Int /\ O[d][n] \in Int /\ O[f][m] = -O[d][m] /\ O[f][n] = -O[d][n]  BY <1>2
<1>7. ~(O[d][n] < O[d][m])
  <2> SUFFICES ASSUME O[d][n] < O[d][m] PROVE FALSE  OBVIOUS
  <2> DEFINE s == Step(t, n, d)
  <2>1. After(L, O, d, n, s) /\ (s # NULL => Key[s] # Key[n])  BY <1>1, <1>3
  <2> HIDE DEF s
  <2>2. s # NULL
    <3> SUFFICES ASSUME s = NULL PROVE FALSE  OBVIOUS
    <3>1. O[d][m] <= O[d][n]  BY <2>1 DEF After
    <3> QED BY ONLY <3>1, <1>6, O[d][n] < O[d][m]
  <2>3. s \in L /\ O[d][n] < O[d][s] /\ O[d][s] <= O[d][m]  BY <2>1, <2>2 DEF After
  <2>4. Key[n] <= Key[s]  BY <2>3, <1>4
  <2>5. Key[s] <= Key[m]
    <3>1. CASE s = m  BY <3>1, <1>2
    <3>2. CASE s # m
      <4>1. O[d][s] # O[d][m] /\ O[d][s] \in Int  BY <3>2, <2>3, <1>1, <1>2, PlacesDiffer
      <4>2. O[d][s] < O[d][m]  BY ONLY <4>1, <2>3, <1>6
      <4> QED BY <4>2, <2>3, <1>4
    <3> QED BY <3>1, <3>2
  <2>6. Key[s] \in Nat /\ Key[n] \in Nat /\ Key[m] \in Nat  BY <2>3, <1>2
  <2>7. Key[s] = Key[n]  BY <2>4, <2>5, <2>6
  <2> QED BY <2>1, <2>2, <2>7
<1>8. ~(O[d][m] < O[d][n])
  <2> SUFFICES ASSUME O[d][m] < O[d][n] PROVE FALSE  OBVIOUS
  <2> DEFINE s == Step(t, n, f)
  <2>1. After(L, O, f, n, s) /\ (s # NULL => Key[s] # Key[n])  BY <1>1, <1>3
  <2> HIDE DEF s
  <2>2. O[f][n] < O[f][m]  BY <1>6
  <2>3. s # NULL
    <3> SUFFICES ASSUME s = NULL PROVE FALSE  OBVIOUS
    <3>1. O[f][m] <= O[f][n]  BY <2>1 DEF After
    <3>2. O[f][m] \in Int /\ O[f][n] \in Int  BY <1>2
    <3> QED BY ONLY <3>1, <3>2, <2>2
  <2>4. s \in L /\ O[f][n] < O[f][s] /\ O[f][s] <= O[f][m]  BY <2>1, <2>2, <2>3 DEF After
  <2>5. O[d][s] \in Int /\ O[f][s] = -O[d][s]  BY <2>4, <1>2
  <2>6. O[d][s] < O[d][n] /\ O[d][m] <= O[d][s]  BY ONLY <2>4, <2>5, <1>6
  <2>7. Key[s] <= Key[n]  BY <2>4, <2>6, <1>4
  <2>8. Key[m] <= Key[s]
    <3>1. CASE s = m  BY <3>1, <1>2
    <3>2. CASE s # m
      <4>1. O[d][s] # O[d][m]  BY <3>2, <2>4, <1>1, PlacesDiffer
      <4>2. O[d][m] < O[d][s]  BY ONLY <4>1, <2>5, <2>6, <1>6
      <4> QED BY <4>2, <2>4, <1>4
    <3> QED BY <3>1, <3>2
  <2>9. Key[s] \in Nat /\ Key[n] \in Nat /\ Key[m] \in Nat  BY <2>4, <1>2
  <2>10. Key[s] = Key[n]  BY <2>7, <2>8, <2>9
  <2> QED BY <2>1, <2>3, <2>10
<1> QED BY ONLY <1>5, <1>6, <1>7, <1>8

(* Where equal keys are not kept there are none.                           *)
LEMMA KeysDiffer ==
  ASSUME NEW t, NEW L, NEW r, NEW O, NEW D, Spread(t, L, r, O, D), NEW M, ~M, Sorted(L, O, M),
         NEW a \in L, NEW b \in L, a # b
  PROVE Key[a] # Key[b]
<1> DEFINE d == 2
<1>1. d \in Side /\ d = 2  BY DEF Side
<1> HIDE DEF d
<1>2. O[d][a] # O[d][b]  BY <1>1, PlacesDiffer
<1>3. /\ L \subseteq Nodes /\ O[d][a] \in Int /\ O[d][b] \in Int  BY <1>1, SpreadFacts
<1>4. Key[a] \in Nat /\ Key[b] \in Nat  BY <1>3, KeyAssumption
<1>5. O[d][a] < O[d][b] \/ O[d][b] < O[d][a]  BY ONLY <1>2, <1>3
<1>6. Key[a] < Key[b] \/ Key[b] < Key[a]  BY <1>1, <1>5 DEF Sorted
<1> QED BY <1>4, <1>6

------------------------------------------------------------------------------
(* The order, from call to call.                                           *)

(* What is left to be done of the call c, when the nodes L are linked.     *)
Told(c, L, O, M) ==
  /\ c.op = "insert" => c.n \in L /\ Rising(O, L \ {c.n}, c.was) /\ Last(L \ {c.n}, O, c.n)
  /\ c.op \in {"erase_equal", "erase_one"} => KeyTold(c.was, c.n, c.num, L, O)
  /\ c.op = "erase_one" => ~M
  /\ c.op = "erase_last" => LastTold(c.was, c.n, c.num, L, O)
  /\ c.op = "range" => RangeTold(c.was, c.p1, c.p2, L, O)

(* Between two steps: from left to right the nodes that are linked stand in *)
(* the order of their keys (some places O show it), and what is still to be *)
(* done of the call fits them.                                             *)
Placing(t, L, M, c) == \E O : Laid(t, L, O) /\ Sorted(L, O, M) /\ Told(c, L, O, M)
OInv == Placing(tree, live \ {Unlinked}, multi, call)

(* Which nodes those are.                                                  *)
LEMMA UnlinkedIs ==
  ASSUME IInv
  PROVE /\ Resting \/ Inserting \/ Erasing => live \ {Unlinked} = live
        /\ Rebalancing => Unlinked = call.gone /\ call.gone \in live
        /\ "gone" \in DOMAIN call => Unlinked = call.gone
<1>0. NULL \notin live  BY NodesAssumption DEF IInv
<1>1. ASSUME Resting PROVE Unlinked \notin live
  <2>1. call = NoCall \/ \E x : call = [op |-> "returned", ret |-> x]  BY <1>1 DEF Resting
  <2>2. "gone" \notin DOMAIN call  BY <2>1 DEF NoCall
  <2> QED BY <2>2, <1>0 DEF Unlinked
<1>2. ASSUME Inserting PROVE Unlinked \notin live
  <2>1. PICK n, w : call = [op |-> "insert", n |-> n, was |-> w]  BY <1>2 DEF Inserting
  <2>2. "gone" \notin DOMAIN call  BY <2>1
  <2> QED BY <2>2, <1>0 DEF Unlinked
<1>3. ASSUME Erasing PROVE Unlinked \notin live
  <2>1. PICK g : g \notin live /\ EraseCall(call, live, g)  BY <1>3 DEF Erasing
  <2> QED BY <2>1, EraseOp DEF Unlinked
<1>4. ASSUME Rebalancing PROVE Unlinked = call.gone /\ call.gone \in live
  <2>1. PICK g \in live : EraseCall(call, live \ {g}, g)  BY <1>4 DEF Rebalancing
  <2> QED BY <2>1, EraseOp DEF Unlinked
<1>5. "gone" \in DOMAIN call => Unlinked = call.gone  BY DEF Unlinked
<1>6. Resting \/ Inserting \/ Erasing => live \ {Unlinked} = live  BY <1>1, <1>2, <1>3
<1> QED BY <1>4, <1>5, <1>6

(* A call that has returned has nothing left to do.                        *)
LEMMA NothingTold ==
  ASSUME NEW c, c = NoCall \/ \E x : c = [op |-> "returned", ret |-> x], NEW L, NEW O, NEW M
  PROVE Told(c, L, O, M) /\ "gone" \notin DOMAIN c /\ "was" \notin DOMAIN c
<1>1. c.op \in {"none", "returned"} /\ "gone" \notin DOMAIN c /\ "was" \notin DOMAIN c  BY DEF NoCall
<1> QED BY <1>1 DEF Told

(* A step that turns the tree, or leaves it alone, keeps the order.        *)
LEMMA TurnsOrdered ==
  ASSUME OInv, multi' = multi, NEW L, L = live \ {Unlinked}, live' \ {Unlinked'} = L, Turned(tree, tree', L),
         call' = call \/ call' = NoCall \/ \E x : call' = [op |-> "returned", ret |-> x]
  PROVE OInv'
<1>1. PICK O : Laid(tree, L, O) /\ Sorted(L, O, multi) /\ Told(call, L, O, multi)  BY DEF OInv, Placing
<1>2. Laid(tree', L, O)  BY <1>1 DEF Turned
<1>3. Told(call', L, O, multi)  BY <1>1, NothingTold
<1> QED BY <1>1, <1>2, <1>3 DEF OInv, Placing

(* A call that returns, or goes on without having unlinked a node.         *)
LEMMA NothingUnlinked ==
  ASSUME NULL \notin live', "gone" \in DOMAIN call' => call'.gone = NULL
  PROVE live' \ {Unlinked'} = live'
<1>1. Unlinked' = NULL  BY DEF Unlinked
<1> QED BY <1>1

LEMMA ReturnsUnlinked ==
  ASSUME NULL \notin live', NEW x, Return(x)
  PROVE live' \ {Unlinked'} = live' /\ call' = [op |-> "returned", ret |-> x]
<1>1. call' = [op |-> "returned", ret |-> x]  BY DEF Return
<1>2. "gone" \notin DOMAIN call'  BY <1>1
<1> QED BY <1>1, <1>2, NothingUnlinked

(* The steps: a policy at work after an insertion,                         *)
LEMMA InsertionOrdered ==
  ASSUME IInv, OInv, \/ adjust_insert_case1 \/ adjust_insert_case2 \/ adjust_insert_case3
                     \/ adjust_insert_case5 \/ AvlRoot \/ AvlGrow
  PROVE OInv'
<1>1. /\ pc.at \in {"rbt_insert", "avl_insert"} /\ UNCHANGED <<policy, multi, live>>
      /\ Inserted \/ call' = call
  BY DEF adjust_insert_case1, adjust_insert_case2, adjust_insert_case3, adjust_insert_case5, AvlRoot, AvlGrow,
         AtRbtInsert, AtAvlInsert
<1>2. Turned(tree, tree', live)  BY RbtInsertKeeps, AvlInsertKeeps
<1>3. live \ {Unlinked} = live  BY <1>1, PhaseIs, UnlinkedIs
<1>4. NULL \notin live'  BY <1>1, NodesAssumption DEF IInv
<1>5. live' \ {Unlinked'} = live /\ (call' = call \/ \E x : call' = [op |-> "returned", ret |-> x])
  <2>1. CASE Inserted
    <3>1. live' \ {Unlinked'} = live' /\ call' = [op |-> "returned", ret |-> <<call.n, TRUE>>]
      BY <2>1, <1>4, ReturnsUnlinked DEF Inserted
    <3> QED BY <3>1, <1>1
  <2>2. CASE call' = call
    <3>1. Unlinked' = Unlinked  BY <2>2 DEF Unlinked
    <3> QED BY <3>1, <2>2, <1>1, <1>3
  <2> QED BY <2>1, <2>2, <1>1
<1> QED BY <1>1, <1>2, <1>3, <1>5, TurnsOrdered

(* after a node was unlinked,                                              *)
LEMMA DeletionOrdered ==
  ASSUME IInv, OInv, adjust_delete_case2 \/ adjust_delete_case3 \/ adjust_delete_case5 \/ blance_child
  PROVE OInv'
<1>1. /\ pc.at \in {"rbt_case2", "rbt_case3", "avl_shrunk"} /\ UNCHANGED <<policy, multi, live, call>>
  BY DEF adjust_delete_case2, adjust_delete_case3, adjust_delete_case5, blance_child, AtRbtDelete, AtAvlDelete
<1>2. Turned(tree, tree', live \ {call.gone})
  BY DeleteCase2Keeps, DeleteCase3Keeps, DeleteCase5Keeps, BlanceChildKeeps
<1>3. Unlinked = call.gone  BY <1>1, PhaseIs, UnlinkedIs
<1>4. Unlinked' = Unlinked  BY <1>1 DEF Unlinked
<1>5. live' \ {Unlinked'} = live \ {Unlinked}  BY <1>1, <1>4
<1> QED BY <1>1, <1>2, <1>3, <1>5, TurnsOrdered

(* bst_destroy,                                                            *)
LEMMA ErasedOrdered ==
  ASSUME IInv, OInv, Erased
  PROVE OInv'
<1>1. /\ pc.at = "erased" /\ tree' = [tree EXCEPT !.node[call.gone] = Fresh]
      /\ live' = live \ {call.gone} /\ UNCHANGED <<policy, multi, call>>
  BY DEF Erased
<1> DEFINE g == call.gone
           L == live \ {g}
<1>2. Rebalancing  BY <1>1, PhaseIs
<1>3. Unlinked = g /\ g \in live  BY <1>2, UnlinkedIs
<1>4. Unlinked' = Unlinked  BY <1>1 DEF Unlinked
<1>5. live' \ {Unlinked'} = L  BY <1>1, <1>3, <1>4
<1>6. L \subseteq Nodes /\ g \in Nodes \ L  BY <1>3 DEF IInv
<1>7. TreeType(tree)
  <2>1. PICK a \in live : Settling(policy, tree, live \ {a}, pc)  BY <1>2 DEF Rebalancing
  <2> QED BY <2>1, LinkFacts DEF Settling
<1>8. Turned(tree, tree', L)
  <2>1. tree' = [tree EXCEPT !.node[g] = Fresh]  BY <1>1
  <2> HIDE DEF g, L
  <2> QED BY <2>1, <1>6, <1>7, FreedTurned
<1> QED BY <1>1, <1>3, <1>5, <1>8, TurnsOrdered

(* do_erase,                                                               *)
LEMMA GoneSet ==
  ASSUME NEW c, "gone" \in DOMAIN c, NEW n
  PROVE "gone" \in DOMAIN [c EXCEPT !.gone = n] /\ [c EXCEPT !.gone = n].gone = n
OBVIOUS

LEMMA DoEraseOrdered ==
  ASSUME IInv, pc.at = "erase", NEW n \in live, NEW o, do_erase(n, o), "gone" \in DOMAIN o,
         NEW O, Laid(tree, live, O), Sorted(live, O, multi),
         \A O2 : SameOrder(live \ {n}, O, O2) => Told([o EXCEPT !.gone = n], live \ {n}, O2, multi)
  PROVE OInv'
<1>1. Whole(policy, tree, live)  BY ErasingFacts
<1>2. call' = [o EXCEPT !.gone = n] /\ UNCHANGED <<policy, multi, m_nSize, live>>  BY DEF do_erase
<1>3. Unlinked' = n  BY <1>2, GoneSet DEF Unlinked
<1>4. PICK O2 : Laid(tree', live \ {n}, O2) /\ SameOrder(live \ {n}, O, O2)  BY <1>1, ErasesOrdered
<1>5. Sorted(live \ {n}, O, multi)  BY DEF Sorted
<1>6. Sorted(live \ {n}, O2, multi)  BY <1>4, <1>5, SameSorted
<1>7. Told(call', live \ {n}, O2, multi)  BY <1>2, <1>4
<1>8. live' \ {Unlinked'} = live \ {n} /\ multi' = multi  BY <1>2, <1>3
<1> QED BY <1>4, <1>6, <1>7, <1>8 DEF OInv, Placing

(* What a call that erases has to do, by its fields.                       *)
LEMMA KeyToldIs ==
  ASSUME NEW c, NEW o, NEW n, NEW k, NEW g, NEW w, c = [op |-> o, n |-> n, num |-> k, gone |-> g, was |-> w],
         NEW L, NEW O, NEW M
  PROVE /\ o \in {"erase_equal", "erase_one"} /\ Told(c, L, O, M) => KeyTold(w, n, k, L, O)
        /\ o = "erase_one" /\ Told(c, L, O, M) => ~M
        /\ o = "erase_equal" /\ KeyTold(w, n, k, L, O) => Told(c, L, O, M)
        /\ o = "erase_one" /\ KeyTold(w, n, k, L, O) /\ ~M => Told(c, L, O, M)
        /\ o = "erase_last" => (Told(c, L, O, M) <=> LastTold(w, n, k, L, O))
        /\ "gone" \in DOMAIN c /\ "was" \in DOMAIN c /\ c.was = w
<1>1. c.op = o /\ c.n = n /\ c.num = k /\ c.was = w /\ "gone" \in DOMAIN c /\ "was" \in DOMAIN c  OBVIOUS
<1> QED BY <1>1 DEF Told

(* And by iterators.                                                       *)
LEMMA RangeToldIs ==
  ASSUME NEW c, NEW p1, NEW p2, NEW g, NEW w, c = [op |-> "range", p1 |-> p1, p2 |-> p2, gone |-> g, was |-> w],
         NEW L, NEW O, NEW M
  PROVE /\ Told(c, L, O, M) <=> RangeTold(w, p1, p2, L, O)
        /\ "gone" \in DOMAIN c /\ "was" \in DOMAIN c /\ c.was = w
<1>1. c.op = "range" /\ c.p1 = p1 /\ c.p2 = p2 /\ c.was = w /\ "gone" \in DOMAIN c /\ "was" \in DOMAIN c  OBVIOUS
<1> QED BY <1>1 DEF Told

(* The nodes while a call is erasing.                                      *)
LEMMA ErasingOrder ==
  ASSUME IInv, OInv, pc.at = "erase"
  PROVE \E O : /\ Laid(tree, live, O) /\ Sorted(live, O, multi) /\ Told(call, live, O, multi)
               /\ \E r, D : Spread(tree, live, r, O, D)
<1>1. live \ {Unlinked} = live  BY PhaseIs, UnlinkedIs
<1>2. PICK O : Laid(tree, live, O) /\ Sorted(live, O, multi) /\ Told(call, live, O, multi)
  BY <1>1 DEF OInv, Placing
<1>3. PICK r0 : Links(tree, live, r0)  BY ErasingFacts
<1>4. \E r, D : Spread(tree, live, r, O, D)  BY <1>2, <1>3, LaidSpread
<1> QED BY <1>2, <1>4

(* by key: the equal nodes,                                                *)
LEMMA EraseEqualOrdered ==
  ASSUME IInv, OInv, EraseEqual
  PROVE OInv'
<1> DEFINE after == Step(tree, call.n, 2)
           before == Step(tree, call.n, 1)
           more == [call EXCEPT !.num = @ + 1]
           last == [call EXCEPT !.op = "erase_last"]
<1>1. pc.at = "erase" /\ call.op = "erase_equal"  BY DEF EraseEqual, AtErase
<1>2. PICK O : /\ Laid(tree, live, O) /\ Sorted(live, O, multi) /\ Told(call, live, O, multi)
               /\ \E r, D : Spread(tree, live, r, O, D)
  BY <1>1, ErasingOrder
<1>3. PICK r, D : Spread(tree, live, r, O, D)  BY <1>2
<1>4. Links(tree, live, r) /\ live \subseteq Nodes  BY <1>3, SpreadFacts
<1> DEFINE n == call.n
           o == call.op
<1>5. n \in live /\ \E k, g, w : call = [op |-> o, n |-> n, num |-> k, gone |-> g, was |-> w]
  BY <1>1, ErasingFacts
<1>6. PICK k, g, w : call = [op |-> o, n |-> n, num |-> k, gone |-> g, was |-> w]  BY <1>5
<1>7. \A d \in Side : Step(tree, n, d) \in live \cup {NULL} /\ Step(tree, n, d) # n  BY <1>4, <1>5, StepIs
<1>8. after \in live \cup {NULL} /\ after # n /\ before \in live \cup {NULL} /\ before # n  BY <1>7 DEF Side
<1>9. IF Equal(after) THEN do_erase(after, more)
      ELSE IF Equal(before) THEN do_erase(before, more)
      ELSE do_erase(n, last)
  BY DEF EraseEqual
<1>10. o = "erase_equal"  BY <1>1
<1>11. ~Equal(after) /\ ~Equal(before) => \A d \in Side : Step(tree, n, d) # NULL => Key[Step(tree, n, d)] # Key[n]
  BY DEF Equal, Side
<1>12. \A x : Equal(x) => x # NULL /\ Key[x] = Key[n]  BY DEF Equal
<1> HIDE DEF after, before, n, o
<1>13. KeyTold(w, n, k, live, O)
  <2>1. Told(call, live, O, multi) /\ o \in {"erase_equal", "erase_one"}  BY <1>2, <1>10
  <2> QED BY ONLY <2>1, <1>6, KeyToldIs
<1>14. more = [op |-> o, n |-> n, num |-> k + 1, gone |-> g, was |-> w]  BY <1>6, CallGoesOn
<1>15. last = [op |-> "erase_last", n |-> n, num |-> k, gone |-> g, was |-> w]  BY <1>6, CallGoesOn
<1> HIDE DEF more, last
<1>16. ASSUME NEW x \in live, x # n, Key[x] = Key[n], do_erase(x, more) PROVE OInv'
  <2> DEFINE c == [more EXCEPT !.gone = x]
  <2>1. c = [op |-> o, n |-> n, num |-> k + 1, gone |-> x, was |-> w]  BY <1>14, GoneIs
  <2> HIDE DEF c
  <2>2. ASSUME NEW O2, SameOrder(live \ {x}, O, O2) PROVE Told(c, live \ {x}, O2, multi)
    <3>1. KeyTold(w, n, k + 1, live \ {x}, O2)  BY <2>2, <1>4, <1>13, <1>16, EqualGoes
    <3> QED BY ONLY <3>1, <2>1, <1>10, KeyToldIs
  <2>3. "gone" \in DOMAIN more  BY ONLY <1>14, KeyToldIs
  <2> QED BY <2>2, <2>3, <1>1, <1>2, <1>16, DoEraseOrdered DEF c
<1>17. ASSUME \A d \in Side : Step(tree, n, d) # NULL => Key[Step(tree, n, d)] # Key[n], do_erase(n, last) PROVE OInv'
  <2> DEFINE c == [last EXCEPT !.gone = n]
             e == "erase_last"
  <2>1. c = [op |-> e, n |-> n, num |-> k, gone |-> n, was |-> w]  BY <1>15, GoneIs
  <2> HIDE DEF c
  <2>2. \A m \in live : Key[m] = Key[n] => m = n  BY <1>2, <1>3, <1>5, <1>17, NoneNext
  <2>3. ASSUME NEW O2, SameOrder(live \ {n}, O, O2) PROVE Told(c, live \ {n}, O2, multi)
    <3>1. LastTold(w, n, k, live \ {n}, O2)  BY <2>2, <2>3, <1>4, <1>13, EqualEnds
    <3> QED BY ONLY <3>1, <2>1, KeyToldIs
  <2>4. "gone" \in DOMAIN last  BY ONLY <1>15, KeyToldIs
  <2> QED BY <2>3, <2>4, <1>1, <1>2, <1>5, <1>17, DoEraseOrdered DEF c
<1>18. CASE Equal(after)
  <2>1. after \in live /\ after # n /\ Key[after] = Key[n]  BY <1>8, <1>12, <1>18
  <2> QED BY <2>1, <1>9, <1>16, <1>18
<1>19. CASE ~Equal(after) /\ Equal(before)
  <2>1. before \in live /\ before # n /\ Key[before] = Key[n]  BY <1>8, <1>12, <1>19
  <2> QED BY <2>1, <1>9, <1>16, <1>19
<1>20. CASE ~Equal(after) /\ ~Equal(before)  BY <1>9, <1>11, <1>17, <1>20
<1> QED BY <1>18, <1>19, <1>20

(* or the only one,                                                        *)
LEMMA EraseOneOrdered ==
  ASSUME IInv, OInv, EraseOne
  PROVE OInv'
<1> DEFINE last == [call EXCEPT !.op = "erase_last"]
           n == call.n
           o == call.op
<1>1. pc.at = "erase" /\ o = "erase_one" /\ do_erase(n, last)  BY DEF EraseOne, AtErase
<1>2. PICK O : /\ Laid(tree, live, O) /\ Sorted(live, O, multi) /\ Told(call, live, O, multi)
               /\ \E r, D : Spread(tree, live, r, O, D)
  BY <1>1, ErasingOrder
<1>3. PICK r, D : Spread(tree, live, r, O, D)  BY <1>2
<1>4. live \subseteq Nodes  BY <1>3, SpreadFacts
<1>5. n \in live /\ \E k, g, w : call = [op |-> o, n |-> n, num |-> k, gone |-> g, was |-> w]
  BY <1>1, ErasingFacts
<1>6. PICK k, g, w : call = [op |-> o, n |-> n, num |-> k, gone |-> g, was |-> w]  BY <1>5
<1> HIDE DEF n, o
<1>7. KeyTold(w, n, k, live, O) /\ ~multi
  <2>1. Told(call, live, O, multi) /\ o \in {"erase_equal", "erase_one"} /\ o = "erase_one"  BY <1>1, <1>2
  <2> QED BY ONLY <2>1, <1>6, KeyToldIs
<1>8. last = [op |-> "erase_last", n |-> n, num |-> k, gone |-> g, was |-> w]  BY <1>6, CallGoesOn
<1> DEFINE c == [last EXCEPT !.gone = n]
           e == "erase_last"
<1> HIDE DEF last
<1>9. c = [op |-> e, n |-> n, num |-> k, gone |-> n, was |-> w]  BY <1>8, GoneIs
<1> HIDE DEF c
<1>10. \A m \in live : Key[m] = Key[n] => m = n  BY <1>2, <1>3, <1>5, <1>7, KeysDiffer
<1>11. ASSUME NEW O2, SameOrder(live \ {n}, O, O2) PROVE Told(c, live \ {n}, O2, multi)
  <2>1. LastTold(w, n, k, live \ {n}, O2)  BY <1>4, <1>7, <1>10, <1>11, EqualEnds
  <2> QED BY ONLY <2>1, <1>9, KeyToldIs
<1>12. "gone" \in DOMAIN last  BY ONLY <1>8, KeyToldIs
<1> QED BY <1>1, <1>2, <1>5, <1>11, <1>12, DoEraseOrdered DEF c

(* and by iterators.                                                       *)
LEMMA EraseNextOrdered ==
  ASSUME IInv, OInv, EraseNext
  PROVE OInv'
<1> DEFINE p1 == call.p1
           p2 == call.p2
           s == Step(tree, p1, 2)
           o == [call EXCEPT !.p1 = s]
<1>1. pc.at = "erase" /\ call.op = "range" /\ p1 # p2 /\ do_erase(p1, o)  BY DEF EraseNext, AtErase
<1>2. PICK O : /\ Laid(tree, live, O) /\ Sorted(live, O, multi) /\ Told(call, live, O, multi)
               /\ \E r, D : Spread(tree, live, r, O, D)
  BY <1>1, ErasingOrder
<1>3. PICK r, D : Spread(tree, live, r, O, D)  BY <1>2
<1>4. /\ p1 \in live
      /\ \E g, w : call = [op |-> "range", p1 |-> p1, p2 |-> p2, gone |-> g, was |-> w]
  BY <1>1, ErasingFacts
<1>5. PICK g, w : call = [op |-> "range", p1 |-> p1, p2 |-> p2, gone |-> g, was |-> w]  BY <1>4
<1>6. s = Step(tree, p1, 2)  OBVIOUS
<1> HIDE DEF p1, p2, s
<1>7. RangeTold(w, p1, p2, live, O)  BY <1>2, <1>5, RangeToldIs
<1>8. o = [op |-> "range", p1 |-> s, p2 |-> p2, gone |-> g, was |-> w]  BY <1>5, RangeGoesOn
<1> DEFINE c == [o EXCEPT !.gone = p1]
<1> HIDE DEF o
<1>9. c = [op |-> "range", p1 |-> s, p2 |-> p2, gone |-> p1, was |-> w]  BY <1>8, RangeGoesOn
<1> HIDE DEF c
<1>10. ASSUME NEW O2, SameOrder(live \ {p1}, O, O2) PROVE Told(c, live \ {p1}, O2, multi)
  <2>1. RangeTold(w, s, p2, live \ {p1}, O2)  BY <1>3, <1>4, <1>6, <1>7, <1>10, RangeGoes
  <2> QED BY ONLY <2>1, <1>9, RangeToldIs
<1>11. "gone" \in DOMAIN o  BY ONLY <1>8, RangeToldIs
<1> QED BY <1>1, <1>2, <1>4, <1>10, <1>11, DoEraseOrdered DEF c

(* The end of a call that erases, and take,                                *)
LEMMA ReturnsOrdered ==
  ASSUME IInv, OInv, EraseReturns \/ EraseRangeReturns \/ take
  PROVE OInv'
<1>1. UNCHANGED <<policy, multi, tree, live>> /\ (call' = NoCall \/ \E x : call' = [op |-> "returned", ret |-> x])
  BY DEF EraseReturns, EraseRangeReturns, take, Return
<1>2. live \ {Unlinked} = live
  <2>1. pc.at = "erase" \/ call.op = "returned"  BY DEF EraseReturns, EraseRangeReturns, take, AtErase
  <2> QED BY <2>1, PhaseIs, UnlinkedIs
<1>3. NULL \notin live'  BY <1>1, NodesAssumption DEF IInv
<1>4. "gone" \notin DOMAIN call'  BY <1>1 DEF NoCall
<1>5. live' \ {Unlinked'} = live'  BY <1>3, <1>4, NothingUnlinked
<1>6. Turned(tree, tree', live)  BY <1>1, TurnedNot
<1> QED BY <1>1, <1>2, <1>5, <1>6, TurnsOrdered

(* the container between two calls,                                        *)
LEMMA RestingOrder ==
  ASSUME IInv, OInv, call = NoCall
  PROVE /\ Whole(policy, tree, live) /\ multi \in BOOLEAN /\ live \subseteq Nodes /\ NULL \notin live
        /\ \E O : /\ Laid(tree, live, O) /\ Sorted(live, O, multi) /\ \A m \in Nodes : O[2][m] \in Int
                  /\ Rising(O, live, InOrder(tree)) /\ Len(InOrder(tree)) = Cardinality(live)
                  /\ \E r, D : Spread(tree, live, r, O, D)
<1>1. Whole(policy, tree, live) /\ live \ {Unlinked} = live /\ multi \in BOOLEAN /\ live \subseteq Nodes
  BY PhaseIs, UnlinkedIs DEF Resting, IInv
<1>2. PICK r0 : Links(tree, live, r0)  BY <1>1 DEF Whole
<1>3. PICK O : Laid(tree, live, O) /\ Sorted(live, O, multi)  BY <1>1 DEF OInv, Placing
<1>4. PICK r, D : Spread(tree, live, r, O, D)  BY <1>2, <1>3, LaidSpread
<1>5. Rising(O, live, InOrder(tree))  BY <1>4, WalkRises
<1>6. Len(InOrder(tree)) = Cardinality(live)  BY <1>2, WalkIs
<1>7. \A m \in Nodes : O[2][m] \in Int  BY <1>3 DEF Laid, Numbered, Side
<1>8. NULL \notin live  BY <1>1, NodesAssumption
<1> QED BY <1>1, <1>3, <1>4, <1>5, <1>6, <1>7, <1>8

(* the beginning of a call that erases, by key                             *)
LEMMA EraseKeyOrdered ==
  ASSUME IInv, OInv, NEW m \in Nodes, erase_key(Key[m])
  PROVE OInv'
<1> DEFINE k == Key[m]
           n == Find(tree, k)
           w == InOrder(tree)
           o == IF multi THEN "erase_equal" ELSE "erase_one"
<1>1. call = NoCall /\ UNCHANGED <<policy, multi, tree, m_nSize, live>>
      /\ IF n = NULL THEN Return(<<0>>) ELSE call' = [op |-> o, n |-> n, num |-> 1, gone |-> NULL, was |-> w]
  BY DEF erase_key, Ready, Was
<1>2. PICK O : /\ Laid(tree, live, O) /\ Sorted(live, O, multi) /\ \A a \in Nodes : O[2][a] \in Int
               /\ Rising(O, live, w) /\ Len(w) = Cardinality(live)
               /\ \E r, D : Spread(tree, live, r, O, D)
  BY <1>1, RestingOrder
<1>3. PICK r, D : Spread(tree, live, r, O, D)  BY <1>2
<1>4. k \in Nat /\ n = Find(tree, k)  BY KeyAssumption
<1>5. o \in {"erase_equal", "erase_one"} /\ (o = "erase_one" => ~multi)  OBVIOUS
<1> HIDE DEF k, n, w, o
<1>6. n # NULL => n \in live  BY <1>2, <1>3, <1>4, FindsAny
<1>7. NULL \notin live' /\ live' = live /\ multi \in BOOLEAN  BY <1>1, RestingOrder
<1>8. CASE n = NULL
  <2>1. live' \ {Unlinked'} = live /\ call' = [op |-> "returned", ret |-> <<0>>]  BY <1>1, <1>7, <1>8, ReturnsUnlinked
  <2>2. Told(call', live, O, multi)  BY <2>1, NothingTold
  <2> QED BY <2>1, <2>2, <1>1, <1>2 DEF OInv, Placing
<1>9. CASE n # NULL
  <2> DEFINE one == 1
             none == NULL
             c == [op |-> o, n |-> n, num |-> one, gone |-> none, was |-> w]
  <2>1. call' = c /\ c.gone = NULL /\ one = 1  BY <1>1, <1>9
  <2>2. c = [op |-> o, n |-> n, num |-> one, gone |-> none, was |-> w]  OBVIOUS
  <2> HIDE DEF one, none, c
  <2>3. live' \ {Unlinked'} = live  BY <2>1, <1>7, NothingUnlinked
  <2>4. KeyTold(w, n, one, live, O)  BY <2>1, <1>2, <1>6, <1>9, KeyStarts
  <2>5. Told(c, live, O, multi)  BY ONLY <2>2, <2>4, <1>5, KeyToldIs
  <2> QED BY <2>1, <2>3, <2>5, <1>1, <1>2 DEF OInv, Placing
<1> QED BY <1>8, <1>9

(* and by iterators,                                                       *)
LEMMA EraseRangeOrdered ==
  ASSUME IInv, OInv, NEW p1 \in live, NEW p2 \in {Step(tree, p1, 2), NULL}, erase_range(p1, p2)
  PROVE OInv'
<1> DEFINE w == InOrder(tree)
           none == NULL
           c == [op |-> "range", p1 |-> p1, p2 |-> p2, gone |-> none, was |-> w]
<1>1. call = NoCall /\ UNCHANGED <<policy, multi, tree, m_nSize, live>> /\ call' = c
  BY DEF erase_range, Ready, Was
<1>2. PICK O : /\ Laid(tree, live, O) /\ Sorted(live, O, multi) /\ \A a \in Nodes : O[2][a] \in Int
               /\ Rising(O, live, w) /\ Len(w) = Cardinality(live)
               /\ \E r, D : Spread(tree, live, r, O, D)
  BY <1>1, RestingOrder
<1>3. PICK r, D : Spread(tree, live, r, O, D)  BY <1>2
<1>4. p1 # p2
  <2>1. Links(tree, live, r) /\ NULL \notin live  BY <1>3, SpreadFacts
  <2>2. \A d \in Side : Step(tree, p1, d) # p1  BY <2>1, StepIs
  <2> QED BY <2>1, <2>2 DEF Side
<1>5. c = [op |-> "range", p1 |-> p1, p2 |-> p2, gone |-> none, was |-> w] /\ c.gone = NULL  OBVIOUS
<1> HIDE DEF w, c, none
<1>6. RangeTold(w, p1, p2, live, O)  BY <1>2, <1>4, RangeStarts
<1>7. Told(c, live, O, multi)  BY ONLY <1>5, <1>6, RangeToldIs
<1>8. NULL \notin live'  BY <1>1, RestingOrder
<1>9. live' \ {Unlinked'} = live  BY <1>1, <1>5, <1>8, NothingUnlinked
<1> QED BY <1>1, <1>2, <1>7, <1>9 DEF OInv, Placing

(* A sequence stays in order as long as its nodes do.                      *)
LEMMA StaysRising ==
  ASSUME NEW O, NEW A, NEW w, Rising(O, A, w), NEW O2, SameOrder(A, O, O2)
  PROVE Rising(O2, A, w)
BY DEF Rising, SameOrder, Elems

(* insert,                                                                 *)
LEMMA InsertOrdered ==
  ASSUME IInv, OInv, NEW n \in Nodes, insert(n)
  PROVE OInv'
<1> DEFINE m == Find(tree, Key[n])
           w == InOrder(tree)
<1>1. call = NoCall /\ multi' = multi /\ n \notin live  BY DEF insert, Ready
<1>2. PICK O : /\ Laid(tree, live, O) /\ Sorted(live, O, multi) /\ Rising(O, live, w)
  BY <1>1, RestingOrder
<1>3. PICK O2 : /\ Laid(tree', live', O2) /\ Sorted(live', O2, multi)
                /\ live' # live => SameOrder(live, O, O2) /\ Last(live, O2, n)
  BY <1>2, InsertOrders
<1>4. \/ Return(<<m, FALSE>>) /\ live' = live
      \/ call' = [op |-> "insert", n |-> n, was |-> w] /\ live' = live \cup {n}
  BY DEF insert, Was
<1> HIDE DEF m, w
<1>5. NULL \notin live'
  <2>1. live' \subseteq live \cup {n}  BY <1>4
  <2> QED BY <2>1, NodesAssumption DEF IInv
<1>6. CASE Return(<<m, FALSE>>)
  <2>1. live' \ {Unlinked'} = live' /\ call' = [op |-> "returned", ret |-> <<m, FALSE>>]
    BY <1>5, <1>6, ReturnsUnlinked
  <2>2. Told(call', live', O2, multi)  BY <2>1, NothingTold
  <2> QED BY <2>1, <2>2, <1>1, <1>3 DEF OInv, Placing
<1>7. CASE call' = [op |-> "insert", n |-> n, was |-> w] /\ live' = live \cup {n}
  <2>1. "gone" \notin DOMAIN call' /\ call'.op = "insert" /\ call'.n = n /\ call'.was = w  BY <1>7
  <2>2. live' \ {Unlinked'} = live'  BY <2>1, <1>5, NothingUnlinked
  <2>3. live' \ {n} = live /\ live' # live /\ n \in live'  BY <1>1, <1>7
  <2>4. Rising(O2, live, w) /\ Last(live, O2, n)  BY <2>3, <1>2, <1>3, StaysRising
  <2>5. Told(call', live', O2, multi)  BY <2>1, <2>3, <2>4 DEF Told
  <2> QED BY <2>2, <2>5, <1>1, <1>3 DEF OInv, Placing
<1> QED BY <1>4, <1>6, <1>7

(* and clear; at first the container is empty.                             *)
LEMMA ClearOrdered ==
  ASSUME clear
  PROVE OInv'
<1>1. /\ tree' = [root |-> NULL, node |-> [n \in Nodes |-> Fresh]] /\ live' \ {Unlinked'} = {}
      /\ call' = [op |-> "returned", ret |-> <<NULL>>]
  BY DEF clear, Return
<1>2. PICK O : Laid(tree', {}, O) /\ Sorted({}, O, multi')  BY <1>1, EmptyLaid
<1>3. Told(call', {}, O, multi')  BY <1>1, NothingTold
<1> QED BY <1>1, <1>2, <1>3 DEF OInv, Placing

LEMMA FirstOrdered ==
  ASSUME Init
  PROVE OInv
<1>1. tree = [root |-> NULL, node |-> [n \in Nodes |-> Fresh]] /\ live \ {Unlinked} = {} /\ call = NoCall  BY DEF Init
<1>2. PICK O : Laid(tree, {}, O) /\ Sorted({}, O, multi)  BY <1>1, EmptyLaid
<1>3. Told(call, {}, O, multi)  BY <1>1, NothingTold
<1> QED BY <1>1, <1>2, <1>3 DEF OInv, Placing

(* Every step keeps the order.                                             *)
LEMMA OrderKept ==
  ASSUME IInv, OInv, [Next]_vars
  PROVE OInv'
<1>1. CASE UNCHANGED vars
  <2>1. multi' = multi /\ tree' = tree /\ live' = live /\ call' = call  BY <1>1 DEF vars
  <2>2. live' \ {Unlinked'} = live \ {Unlinked}  BY <2>1 DEF Unlinked
  <2>3. Turned(tree, tree', live \ {Unlinked})  BY <2>1, TurnedNot
  <2> QED BY <2>1, <2>2, <2>3, TurnsOrdered
<1>2. CASE \/ adjust_insert_case1 \/ adjust_insert_case2 \/ adjust_insert_case3
           \/ adjust_insert_case5 \/ AvlRoot \/ AvlGrow
  BY <1>2, InsertionOrdered
<1>3. CASE adjust_delete_case2 \/ adjust_delete_case3 \/ adjust_delete_case5 \/ blance_child
  BY <1>3, DeletionOrdered
<1>4. CASE Erased  BY <1>4, ErasedOrdered
<1>5. CASE EraseEqual \/ EraseOne \/ EraseNext  BY <1>5, EraseEqualOrdered, EraseOneOrdered, EraseNextOrdered
<1>6. CASE EraseReturns \/ EraseRangeReturns \/ take  BY <1>6, ReturnsOrdered
<1>7. CASE clear  BY <1>7, ClearOrdered
<1>8. ASSUME NEW n \in Nodes, insert(n) \/ erase_key(Key[n]) PROVE OInv'  BY <1>8, InsertOrdered, EraseKeyOrdered
<1>9. ASSUME NEW p1 \in live, NEW p2 \in {Step(tree, p1, 2), NULL}, erase_range(p1, p2) PROVE OInv'
  BY <1>9, EraseRangeOrdered
<1> QED BY <1>1, <1>2, <1>3, <1>4, <1>5, <1>6, <1>7, <1>8, <1>9 DEF Next, Work

(* The nodes stand in the order of their keys at every moment.             *)
LEMMA OrderHolds == Spec => []OInv
<1>1. Init => OInv  BY FirstOrdered
<1>2. IInv /\ OInv /\ [Next]_vars => OInv'  BY OrderKept
<1> QED BY <1>1, <1>2, PhasesHold, PTL DEF Spec

(* lower_bound and upper_bound give the first node whose key is not less   *)
(* than k, and the first whose key is greater, after every sequence of     *)
(* calls: the rebalancing never moves a node past another one, and among   *)
(* equal keys the descents go on until nothing equal is left on the side   *)
(* that they look for.                                                     *)
THEOREM BoundsHold == Spec => []BoundsFound
<1>1. IInv /\ OInv => BoundsFound
  <2> SUFFICES ASSUME IInv, OInv PROVE BoundsFound  OBVIOUS
  <2>1. CASE call # NoCall  BY <2>1 DEF BoundsFound
  <2>2. CASE call = NoCall
    <3>1. multi \in BOOLEAN /\ \E O : Sorted(live, O, multi) /\ \E r, D : Spread(tree, live, r, O, D)
      BY <2>2, RestingOrder
    <3>2. PICK O : Sorted(live, O, multi) /\ \E r, D : Spread(tree, live, r, O, D)  BY <3>1
    <3>3. PICK r, D : Spread(tree, live, r, O, D)  BY <3>2
    <3> QED BY <3>1, <3>2, <3>3, RestFound
  <2> QED BY <2>1, <2>2
<1> QED BY <1>1, PhasesHold, OrderHolds, PTL

------------------------------------------------------------------------------
(* The sorted sequence.                                                    *)

(* Where the new node stands in it.                                        *)
LEMMA InsertedPlace ==
  ASSUME NEW O, \A m \in Nodes : O[2][m] \in Int, NEW L, L \subseteq Nodes, NEW M, Sorted(L, O, M), NEW n \in L,
         \A m \in L \ {n} : O[2][m] # O[2][n], NEW w, Rising(O, L \ {n}, w), Last(L \ {n}, O, n)
  PROVE \E i \in 0 .. Len(w) :
          /\ \A j \in DOMAIN w : Key[w[j]] <= Key[n] <=> j <= i
          /\ Rising(O, L, SubSeq(w, 1, i) \o <<n>> \o SubSeq(w, i + 1, Len(w)))
<1> DEFINE P == {j \in DOMAIN w : O[2][w[j]] < O[2][n]}
           A == L \ {n}
<1>1. /\ w \in Seq(Nodes) /\ Len(w) \in Nat /\ DOMAIN w = 1 .. Len(w) /\ Elems(w) = A /\ n \in Nodes
      /\ \A x, y \in DOMAIN w : x < y => O[2][w[x]] < O[2][w[y]]
  BY DEF Rising
<1>2. \A j \in DOMAIN w : w[j] \in A /\ w[j] \in L /\ w[j] \in Nodes /\ O[2][w[j]] \in Int  BY <1>1 DEF Elems
<1>3. O[2][n] \in Int /\ Key[n] \in Nat /\ \A j \in DOMAIN w : Key[w[j]] \in Nat  BY <1>1, <1>2, KeyAssumption
<1>4. \A j \in P : \A x \in 1 .. Len(w) : x < j => x \in P
  <2> SUFFICES ASSUME NEW j \in P, NEW x \in DOMAIN w, x < j PROVE O[2][w[x]] < O[2][n]  BY <1>1
  <2>1. O[2][w[x]] < O[2][w[j]] /\ O[2][w[j]] < O[2][n]  BY <1>1
  <2>2. O[2][w[x]] \in Int /\ O[2][w[j]] \in Int  BY <1>2
  <2> QED BY ONLY <2>1, <2>2, <1>3
<1>5. PICK i \in 0 .. Len(w) : P = 1 .. i
  <2>1. P \subseteq 1 .. Len(w)  BY <1>1
  <2> HIDE DEF P
  <2> QED BY <2>1, <1>1, <1>4, LowerPart
<1>6. \A j \in DOMAIN w : /\ j <= i => O[2][w[j]] < O[2][n]
                          /\ ~(j <= i) => O[2][n] < O[2][w[j]]
  <2> SUFFICES ASSUME NEW j \in DOMAIN w
               PROVE (j <= i => O[2][w[j]] < O[2][n]) /\ (~(j <= i) => O[2][n] < O[2][w[j]])
    OBVIOUS
  <2>1. j \in P <=> j <= i  BY <1>1, <1>5
  <2>2. j \in P <=> O[2][w[j]] < O[2][n]  OBVIOUS
  <2>3. O[2][w[j]] # O[2][n] /\ O[2][w[j]] \in Int  BY <1>2
  <2> HIDE DEF P
  <2>4. ~(O[2][w[j]] < O[2][n]) => O[2][n] < O[2][w[j]]  BY ONLY <2>3, <1>3
  <2> QED BY <2>1, <2>2, <2>4
<1>7. ASSUME NEW j \in DOMAIN w PROVE Key[w[j]] <= Key[n] <=> j <= i
  <2>1. CASE j <= i
    <3>1. Key[w[j]] < Key[n] \/ Key[w[j]] = Key[n]  BY <2>1, <1>2, <1>6 DEF Sorted
    <3> QED BY <3>1, <2>1, <1>3
  <2>2. CASE ~(j <= i)
    <3>1. Key[n] < Key[w[j]]  BY <2>2, <1>2, <1>6 DEF Last
    <3> QED BY <3>1, <2>2, <1>3
  <2> QED BY <2>1, <2>2
<1> DEFINE a == SubSeq(w, 1, i)
           b == SubSeq(w, i + 1, Len(w))
           B == {w[x] : x \in 1 .. i}
           C == {w[x] : x \in (i + 1) .. Len(w)}
           s == a \o <<n>> \o b
<1> HIDE DEF P
<1>8. Rising(O, B, a)
  <2> DEFINE one == 1
  <2>1. one \in 1 .. Len(w) + 1 /\ i \in 0 .. Len(w) /\ one <= i + 1  BY <1>1
  <2>2. Rising(O, A, w) /\ a = SubSeq(w, one, i) /\ B = {w[x] : x \in one .. i}  OBVIOUS
  <2> HIDE DEF one, a, A, B
  <2> QED BY <2>1, <2>2, RisingPart
<1>9. Rising(O, C, b)
  <2> DEFINE f == i + 1
             e == Len(w)
  <2>1. f \in 1 .. Len(w) + 1 /\ e \in 0 .. Len(w) /\ f <= e + 1  BY <1>1
  <2>2. Rising(O, A, w) /\ b = SubSeq(w, f, e) /\ C = {w[x] : x \in f .. e}  OBVIOUS
  <2> HIDE DEF f, e, b, A, C
  <2> QED BY <2>1, <2>2, RisingPart
<1>10. (\A z \in B : O[2][z] < O[2][n]) /\ (\A z \in C : O[2][n] < O[2][z])
  <2>1. \A x \in 1 .. i : x \in DOMAIN w /\ x <= i  BY <1>1
  <2>2. \A x \in (i + 1) .. Len(w) : x \in DOMAIN w /\ ~(x <= i)  BY <1>1
  <2> QED BY <2>1, <2>2, <1>6
<1>11. B \cup {n} \cup C = L
  <2>1. \A x \in DOMAIN w : x \in 1 .. i \/ x \in (i + 1) .. Len(w)  BY <1>1
  <2>2. \A x \in 1 .. i : x \in DOMAIN w  BY <1>1
  <2>3. \A x \in (i + 1) .. Len(w) : x \in DOMAIN w  BY <1>1
  <2>4. B \cup C = A  BY <2>1, <2>2, <2>3, <1>1 DEF Elems
  <2> HIDE DEF B, C
  <2> QED BY <2>4
<1>12. s = a \o <<n>> \o b  OBVIOUS
<1> HIDE DEF a, b, B, C, s
<1>13. Rising(O, B \cup {n} \cup C, s)  BY <1>1, <1>8, <1>9, <1>10, <1>12, RisingJoined
<1>14. Rising(O, L, s)  BY <1>11, <1>13
<1> QED BY <1>7, <1>14 DEF s, a, b

(* Where the nodes with a key stand.                                       *)
EqualRun(w, k) ==
  \E i, j \in 1 .. (Len(w) + 1) : i <= j /\ {x \in DOMAIN w : Key[w[x]] = k} = i .. (j - 1)

LEMMA EqualPlace ==
  ASSUME NEW w, NEW L, NEW O, Kept(w, L, O), NEW k \in Nat
  PROVE EqualRun(w, k)
<1> DEFINE P == {x \in DOMAIN w : Key[w[x]] < k}
           Q == {x \in DOMAIN w : Key[w[x]] <= k}
<1>1. /\ Len(w) \in Nat /\ DOMAIN w = 1 .. Len(w)
      /\ \A x, y \in DOMAIN w : x < y => Key[w[x]] <= Key[w[y]]
      /\ \A x \in DOMAIN w : Key[w[x]] \in Nat
  BY KeyAssumption DEF Kept
<1>2. ASSUME NEW y \in DOMAIN w, NEW x \in 1 .. Len(w), x < y
      PROVE (y \in P => x \in P) /\ (y \in Q => x \in Q)
  <2>1. Key[w[x]] <= Key[w[y]] /\ Key[w[x]] \in Nat /\ Key[w[y]] \in Nat /\ x \in DOMAIN w  BY <1>1, <1>2
  <2> QED BY <2>1
<1>3. P \subseteq DOMAIN w /\ Q \subseteq DOMAIN w  OBVIOUS
<1>4. \A x \in DOMAIN w : /\ x \in P <=> Key[w[x]] < k
                          /\ x \in Q <=> Key[w[x]] <= k
  OBVIOUS
<1> HIDE DEF P, Q
<1>5. PICK a \in 0 .. Len(w) : P = 1 .. a  BY <1>1, <1>2, <1>3, LowerPart
<1>6. PICK b \in 0 .. Len(w) : Q = 1 .. b  BY <1>1, <1>2, <1>3, LowerPart
<1>7. a <= b
  <2>1. CASE a = 0  BY <2>1, <1>1
  <2>2. CASE a # 0
    <3>1. a \in P /\ a \in DOMAIN w  BY <2>2, <1>1, <1>5
    <3>2. a \in Q  BY <3>1, <1>1, <1>4
    <3> QED BY <3>2, <1>1, <1>6
  <2> QED BY <2>1, <2>2
<1> DEFINE i == a + 1
           j == b + 1
           H == {x \in DOMAIN w : Key[w[x]] = k}
<1>8. i \in 1 .. (Len(w) + 1) /\ j \in 1 .. (Len(w) + 1) /\ i <= j  BY <1>1, <1>7
<1>9. ASSUME NEW x \in DOMAIN w PROVE Key[w[x]] = k <=> x \in i .. (j - 1)
  <2>1. Key[w[x]] = k <=> x \in Q /\ x \notin P  BY <1>1, <1>4
  <2>2. x \in Q /\ x \notin P <=> x \in i .. (j - 1)  BY <1>1, <1>5, <1>6
  <2> QED BY <2>1, <2>2
<1>10. i .. (j - 1) \subseteq DOMAIN w  BY <1>1
<1>11. H = i .. (j - 1)  BY <1>9, <1>10
<1> HIDE DEF i, j
<1> QED BY <1>8, <1>11 DEF EqualRun

------------------------------------------------------------------------------
(* The calls of the container as steps of the sequence.                    *)

(* What the caller of the container has got.                               *)
Answer == IF call.op = "returned" THEN call.ret ELSE NULL

(* insert with a new node, and with an old one,                            *)
LEMMA InsertIs ==
  ASSUME NEW w, w = Elements, NEW v, v = Elements', Answer = NULL, NEW n \in Nodes, \A x \in DOMAIN w : w[x] # n,
         multi \/ \A x \in DOMAIN w : Key[w[x]] # Key[n], Answer' = <<n, TRUE>>,
         NEW i \in 0 .. Len(w), \A x \in DOMAIN w : Key[w[x]] <= Key[n] <=> x <= i,
         v = SubSeq(w, 1, i) \o <<n>> \o SubSeq(w, i + 1, Len(w))
  PROVE S!Insert(n)
<1>1. multi \/ S!Having(Key[n]) = {}  BY DEF S!Having
<1>2. S!Inserted(n)  BY DEF S!Inserted, S!Upto, S!From
<1> QED BY <1>1, <1>2 DEF S!Insert, Answer

LEMMA InsertNot ==
  ASSUME NEW w, w = Elements, Elements' = w, Answer = NULL, NEW n \in Nodes, \A x \in DOMAIN w : w[x] # n,
         ~multi, NEW i \in DOMAIN w, Key[w[i]] = Key[n], Answer' = <<w[i], FALSE>>
  PROVE S!Insert(n)
<1>1. i \in S!Having(Key[n])  BY DEF S!Having
<1> QED BY <1>1 DEF S!Insert, Answer

(* erase by key,                                                           *)
LEMMA EraseIs ==
  ASSUME NEW w, w = Elements, NEW v, v = Elements', Answer = NULL, NEW k,
         NEW i \in 1 .. (Len(w) + 1), NEW j \in 1 .. (Len(w) + 1), i <= j,
         {x \in DOMAIN w : Key[w[x]] = k} = i .. (j - 1),
         v = SubSeq(w, 1, i - 1) \o SubSeq(w, j, Len(w)), Answer' = <<Len(w) - Len(v)>>
  PROVE S!Erase(k)
<1>1. S!Having(k) = i .. (j - 1)  BY DEF S!Having
<1>2. S!Removed(i, j)  BY DEF S!Removed, S!Upto, S!From
<1> QED BY <1>1, <1>2 DEF S!Erase, Answer

(* and by iterators.                                                       *)
LEMMA EraseRangeIs ==
  ASSUME NEW w, w = Elements, NEW v, v = Elements', Answer = NULL,
         NEW i, NEW j, v = SubSeq(w, 1, i - 1) \o SubSeq(w, j, Len(w)),
         Answer' = <<IF j > Len(w) THEN NULL ELSE w[j]>>
  PROVE S!EraseRange(i, j)
<1>1. S!Removed(i, j)  BY DEF S!Removed, S!Upto, S!From
<1> QED BY <1>1 DEF S!EraseRange, Answer

(* What the sequence is in each phase.                                     *)
LEMMA AtRest ==
  ASSUME call = NoCall \/ \E x : call = [op |-> "returned", ret |-> x]
  PROVE /\ Elements = InOrder(tree)
        /\ call = NoCall => Answer = NULL
<1>1. "was" \notin DOMAIN call  BY NothingTold
<1>2. call = NoCall => call.op # "returned"  BY DEF NoCall
<1> QED BY <1>1, <1>2 DEF Elements, Answer

LEMMA AtReturn ==
  ASSUME NEW x, Return(x)
  PROVE Elements' = InOrder(tree') /\ Answer' = x
<1>1. call' = [op |-> "returned", ret |-> x]  BY DEF Return
<1>2. "was" \notin DOMAIN call' /\ call'.op = "returned" /\ call'.ret = x  BY <1>1
<1> QED BY <1>2 DEF Elements, Answer

LEMMA AtWork ==
  ASSUME "was" \in DOMAIN call, call.op # "returned"
  PROVE Elements = call.was /\ Answer = NULL
BY DEF Elements, Answer

------------------------------------------------------------------------------
(* The steps of the calls.                                                 *)

(* A step leaves the sequence and the answer alone, or is the step A of it. *)
Still == multi' = multi /\ Elements' = Elements /\ Answer' = Answer
Calls(A) == multi' = multi /\ A

(* A call remembers the sequence until it returns.                         *)
LEMMA WasKept ==
  ASSUME IInv, Inserting \/ Erasing \/ Rebalancing
  PROVE "was" \in DOMAIN call /\ call.op # "returned"
<1>1. CASE Inserting
  <2>1. PICK n, w : call = [op |-> "insert", n |-> n, was |-> w]  BY <1>1 DEF Inserting
  <2> QED BY <2>1
<1>2. ASSUME NEW L, NEW g, EraseCall(call, L, g) PROVE "was" \in DOMAIN call /\ call.op # "returned"
  <2>1. call.op # "returned"  BY <1>2, EraseOp
  <2>2. "was" \in DOMAIN call  BY <1>2 DEF EraseCall
  <2> QED BY <2>1, <2>2
<1>3. CASE Erasing  BY <1>2, <1>3 DEF Erasing
<1>4. CASE Rebalancing  BY <1>2, <1>4 DEF Rebalancing
<1> QED BY <1>1, <1>3, <1>4

(* As long as it is at work the sequence stays as it is.                   *)
LEMMA WorkStill ==
  ASSUME "was" \in DOMAIN call, call.op # "returned", multi' = multi,
         "was" \in DOMAIN call', call'.op # "returned", call'.was = call.was
  PROVE Still
BY DEF Still, Elements, Answer

(* The walk gives the sequence of the nodes from left to right.            *)
LEMMA WalkedOnce ==
  ASSUME NEW P, NEW t, NEW L, Whole(P, t, L), NEW O, Laid(t, L, O), NEW s, Rising(O, L, s)
  PROVE InOrder(t) = s
<1>1. PICK r0 : Links(t, L, r0)  BY DEF Whole
<1>2. PICK r, D : Spread(t, L, r, O, D)  BY <1>1, LaidSpread
<1>3. Rising(O, L, InOrder(t))  BY <1>2, WalkRises
<1>4. \A m \in Nodes : O[2][m] \in Int  BY DEF Laid, Numbered, Side
<1> QED BY <1>3, <1>4, RisingOnce

(* A step that ends a call leaves a balanced tree.                         *)
LEMMA RestsAgain ==
  ASSUME IInv, [Next]_vars, NEW x, Return(x)
  PROVE Whole(policy', tree', live')
<1>1. IInv'  BY Inductive
<1>2. call' = [op |-> "returned", ret |-> x]  BY DEF Return
<1>3. ~Inserting'
  <2>1. \A n, w : call' # [op |-> "insert", n |-> n, was |-> w]  BY <1>2
  <2> QED BY <2>1 DEF Inserting
<1>4. \A L, g : ~EraseCall(call', L, g)
  <2>1. call'.op = "returned"  BY <1>2
  <2> QED BY <2>1, EraseOp
<1>5. ~Erasing' /\ ~Rebalancing'  BY <1>4 DEF Erasing, Rebalancing
<1> QED BY <1>1, <1>3, <1>5 DEF IInv, Resting

(* The calls return: insert,                                               *)
LEMMA InsertionReturns ==
  ASSUME IInv, OInv, [Next]_vars, multi' = multi, live' = live, Inserting, Turned(tree, tree', live), Inserted
  PROVE Calls(S!Insert(call.n)) /\ call.n \in Nodes
<1> DEFINE n == call.n
           w == call.was
           v == InOrder(tree')
<1>1. live \ {Unlinked} = live /\ live \subseteq Nodes  BY UnlinkedIs DEF IInv
<1>2. PICK O : Laid(tree, live, O) /\ Sorted(live, O, multi) /\ Told(call, live, O, multi)
  BY <1>1 DEF OInv, Placing
<1>3. "was" \in DOMAIN call /\ call.op = "insert"
  <2>1. PICK a, b : call = [op |-> "insert", n |-> a, was |-> b]  BY DEF Inserting
  <2> QED BY <2>1
<1>4. n \in live /\ Rising(O, live \ {n}, w) /\ Last(live \ {n}, O, n)  BY <1>2, <1>3 DEF Told
<1>5. Elements = w /\ Answer = NULL  BY <1>3, AtWork
<1>6. Return(<<n, TRUE>>)  BY DEF Inserted
<1>7. Elements' = v /\ Answer' = <<n, TRUE>>  BY <1>6, AtReturn
<1>8. Whole(policy', tree', live)  BY <1>6, RestsAgain
<1>9. Laid(tree', live, O)  BY <1>2 DEF Turned
<1>10. PICK r, D : Spread(tree', live, r, O, D)
  <2>1. PICK r0 : Links(tree', live, r0)  BY <1>8 DEF Whole
  <2> QED BY <2>1, <1>9, LaidSpread
<1> HIDE DEF n, w, v
<1>11. \A m \in live \ {n} : O[2][m] # O[2][n] /\ (~multi => Key[m] # Key[n])
  <2> SUFFICES ASSUME NEW m \in live \ {n} PROVE O[2][m] # O[2][n] /\ (~multi => Key[m] # Key[n])  OBVIOUS
  <2> DEFINE d == 2
  <2>1. d \in Side  BY DEF Side
  <2> HIDE DEF d
  <2>2. O[d][m] # O[d][n]  BY <2>1, <1>4, <1>10, PlacesDiffer
  <2>3. ~multi => Key[m] # Key[n]  BY <1>2, <1>4, <1>10, KeysDiffer
  <2> QED BY <2>2, <2>3 DEF d
<1>12. \A m \in Nodes : O[2][m] \in Int  BY <1>2 DEF Laid, Numbered, Side
<1>13. \E i \in 0 .. Len(w) :
         /\ \A j \in DOMAIN w : Key[w[j]] <= Key[n] <=> j <= i
         /\ Rising(O, live, SubSeq(w, 1, i) \o <<n>> \o SubSeq(w, i + 1, Len(w)))
  BY <1>1, <1>2, <1>4, <1>11, <1>12, InsertedPlace
<1>14. PICK i \in 0 .. Len(w) :
         /\ \A j \in DOMAIN w : Key[w[j]] <= Key[n] <=> j <= i
         /\ Rising(O, live, SubSeq(w, 1, i) \o <<n>> \o SubSeq(w, i + 1, Len(w)))
  BY <1>13
<1>15. v = SubSeq(w, 1, i) \o <<n>> \o SubSeq(w, i + 1, Len(w))  BY <1>8, <1>9, <1>14, WalkedOnce DEF v
<1>16. \A x \in DOMAIN w : w[x] # n /\ (~multi => Key[w[x]] # Key[n])
  <2>1. Elems(w) = live \ {n}  BY <1>4 DEF Rising
  <2> QED BY <2>1, <1>11 DEF Elems
<1>17. n \in Nodes  BY <1>1, <1>4
<1>18. S!Insert(n)  BY <1>5, <1>7, <1>14, <1>15, <1>16, <1>17, InsertIs
<1> QED BY <1>17, <1>18 DEF Calls, n

(* erase by key,                                                           *)
LEMMA EraseKeyReturns ==
  ASSUME IInv, OInv, EraseReturns
  PROVE Calls(S!Erase(Key[call.n])) /\ call.n \in Nodes
<1> DEFINE n == call.n
           k == call.num
           w == call.was
           v == InOrder(tree)
<1>1. /\ pc.at = "erase" /\ call.op = "erase_last" /\ Return(<<k>>)
      /\ UNCHANGED <<policy, multi, tree, m_nSize, live>>
  BY DEF EraseReturns, AtErase
<1>2. PICK O : Laid(tree, live, O) /\ Sorted(live, O, multi) /\ Told(call, live, O, multi)  BY <1>1, ErasingOrder
<1>3. LastTold(w, n, k, live, O)  BY <1>1, <1>2 DEF Told
<1>4. Elements = w /\ Answer = NULL
  <2>1. "was" \in DOMAIN call /\ call.op # "returned"  BY <1>1, PhaseIs, WasKept
  <2> QED BY <2>1, AtWork
<1>5. Elements' = v /\ Answer' = <<k>>
  <2>1. Elements' = InOrder(tree') /\ Answer' = <<k>>  BY <1>1, AtReturn
  <2> QED BY <2>1, <1>1
<1>6. Whole(policy, tree, live)  BY <1>1, ErasingFacts
<1> HIDE DEF n, k, w, v
<1>7. /\ Kept(w, live, O) /\ n \in Nodes /\ k \in Nat /\ k + Cardinality(live) = Len(w)
      /\ live = {m \in Elems(w) : Key[m] # Key[n]}
  BY <1>3 DEF LastTold
<1>8. Key[n] \in Nat  BY <1>7, KeyAssumption
<1>9. EqualRun(w, Key[n])
  <2> DEFINE k2 == Key[n]
  <2>1. Kept(w, live, O) /\ k2 \in Nat  BY <1>7, <1>8
  <2> HIDE DEF k2
  <2>2. EqualRun(w, k2)  BY ONLY <2>1, EqualPlace
  <2> QED BY <2>2 DEF k2
<1>10. PICK i \in 1 .. (Len(w) + 1), j \in 1 .. (Len(w) + 1) :
         i <= j /\ {x \in DOMAIN w : Key[w[x]] = Key[n]} = i .. (j - 1)
  BY <1>9 DEF EqualRun
<1>11. live = {w[x] : x \in DOMAIN w \ (i .. (j - 1))}
  <2>1. \A x \in DOMAIN w : x \in i .. (j - 1) <=> Key[w[x]] = Key[n]  BY <1>10
  <2> QED BY <2>1, <1>7 DEF Elems
<1>12. v = SubSeq(w, 1, i - 1) \o SubSeq(w, j, Len(w))
  <2>1. Rising(O, live, SubSeq(w, 1, i - 1) \o SubSeq(w, j, Len(w)))  BY <1>7, <1>10, <1>11, KeptRises
  <2> QED BY <2>1, <1>2, <1>6, WalkedOnce DEF v
<1>13. k = Len(w) - Len(v)
  <2>1. PICK r : Links(tree, live, r)  BY <1>6 DEF Whole
  <2>2. Len(v) = Cardinality(live) /\ v \in Seq(Nodes)  BY <2>1, WalkIs DEF v
  <2>3. w \in Seq(Nodes)  BY <1>7 DEF Kept
  <2>4. Len(v) \in Nat /\ Len(w) \in Nat  BY <2>2, <2>3
  <2> QED BY <2>2, <2>4, <1>7
<1>14. S!Erase(Key[n])  BY <1>4, <1>5, <1>10, <1>12, <1>13, EraseIs
<1> QED BY <1>1, <1>7, <1>14 DEF Calls, n

(* and by iterators.                                                       *)
LEMMA EraseRangeEnds ==
  ASSUME IInv, OInv, EraseRangeReturns
  PROVE \E i \in DOMAIN Elements : \E j \in (i + 1) .. (Len(Elements) + 1) : Calls(S!EraseRange(i, j))
<1> DEFINE p1 == call.p1
           p2 == call.p2
           w == call.was
           v == InOrder(tree)
<1>1. /\ pc.at = "erase" /\ call.op = "range" /\ p1 = p2 /\ Return(<<p1>>)
      /\ UNCHANGED <<policy, multi, tree, m_nSize, live>>
  BY DEF EraseRangeReturns, AtErase
<1>2. PICK O : Laid(tree, live, O) /\ Sorted(live, O, multi) /\ Told(call, live, O, multi)  BY <1>1, ErasingOrder
<1>3. RangeTold(w, p1, p2, live, O)  BY <1>1, <1>2 DEF Told
<1>4. Elements = w /\ Answer = NULL
  <2>1. "was" \in DOMAIN call /\ call.op # "returned"  BY <1>1, PhaseIs, WasKept
  <2> QED BY <2>1, AtWork
<1>5. Elements' = v /\ Answer' = <<p1>>
  <2>1. Elements' = InOrder(tree') /\ Answer' = <<p1>>  BY <1>1, AtReturn
  <2> QED BY <2>1, <1>1
<1>6. Whole(policy, tree, live)  BY <1>1, ErasingFacts
<1> HIDE DEF p1, p2, w, v
<1>7. Kept(w, live, O) /\ w \in Seq(Nodes)  BY <1>3 DEF RangeTold, Kept
<1>8. PICK i, q : Missing(w, live, i, q) /\ Place(w, q, p1) /\ (i < q \/ p1 # p2)  BY <1>3 DEF RangeTold
<1>9. /\ i \in 1 .. Len(w) + 1 /\ q \in 1 .. Len(w) + 1 /\ i <= q /\ i < q
      /\ live = {w[y] : y \in DOMAIN w \ (i .. (q - 1))}
  BY <1>1, <1>8 DEF Missing
<1>10. v = SubSeq(w, 1, i - 1) \o SubSeq(w, q, Len(w))
  <2>1. Rising(O, live, SubSeq(w, 1, i - 1) \o SubSeq(w, q, Len(w)))  BY <1>7, <1>9, KeptRises
  <2> QED BY <2>1, <1>2, <1>6, WalkedOnce DEF v
<1>11. Len(w) \in Nat /\ DOMAIN w = 1 .. Len(w)  BY <1>7
<1>12. p1 = IF q > Len(w) THEN NULL ELSE w[q]  BY <1>8, <1>9, <1>11 DEF Place
<1>13. S!EraseRange(i, q)  BY <1>4, <1>5, <1>10, <1>12, EraseRangeIs
<1>14. i \in DOMAIN w /\ q \in (i + 1) .. (Len(w) + 1)  BY <1>9, <1>11
<1> QED BY <1>1, <1>4, <1>13, <1>14 DEF Calls

(* An empty container is an empty sequence.                                *)
LEMMA EmptyWalk ==
  ASSUME NEW t, t = [root |-> NULL, node |-> [n \in Nodes |-> Fresh]]
  PROVE InOrder(t) = <<>>
<1> DEFINE P == "rbt"
           s == InOrder(t)
<1>1. Whole(P, t, {})  BY EmptyWhole
<1>2. PICK r : Links(t, {}, r)  BY <1>1 DEF Whole
<1>3. s \in Seq(Nodes) /\ Elems(s) = {}  BY <1>2, WalkIs
<1> HIDE DEF s
<1>4. s = <<>>
  <2>1. Len(s) \in Nat /\ DOMAIN s = 1 .. Len(s)  BY <1>3
  <2>2. Len(s) = 0
    <3>1. CASE Len(s) # 0
      <4>1. 1 \in DOMAIN s  BY <2>1, <3>1
      <4> QED BY <4>1, <1>3 DEF Elems
    <3> QED BY <3>1
  <2> QED BY <1>3, <2>2
<1> QED BY <1>4 DEF s

LEMMA StartsEmpty ==
  ASSUME Init
  PROVE S!Init
<1>1. multi \in BOOLEAN /\ call = NoCall /\ tree = [root |-> NULL, node |-> [n \in Nodes |-> Fresh]]  BY DEF Init
<1>2. Elements = <<>> /\ Answer = NULL  BY <1>1, AtRest, EmptyWalk
<1> QED BY <1>1, <1>2 DEF S!Init, Answer

(* The steps, as steps of the sequence.                                    *)
Mapped == Still \/ Calls(S!Next)

(* A policy at work after an insertion,                                    *)
LEMMA InsertionMaps ==
  ASSUME IInv, OInv, [Next]_vars, \/ adjust_insert_case1 \/ adjust_insert_case2 \/ adjust_insert_case3
                                  \/ adjust_insert_case5 \/ AvlRoot \/ AvlGrow
  PROVE Mapped
<1>1. /\ pc.at \in {"rbt_insert", "avl_insert"} /\ UNCHANGED <<policy, multi, live>>
      /\ Inserted \/ call' = call
  BY DEF adjust_insert_case1, adjust_insert_case2, adjust_insert_case3, adjust_insert_case5, AvlRoot, AvlGrow,
         AtRbtInsert, AtAvlInsert
<1>2. Turned(tree, tree', live)  BY RbtInsertKeeps, AvlInsertKeeps
<1>3. Inserting  BY <1>1, PhaseIs
<1>4. CASE Inserted
  <2>1. Calls(S!Insert(call.n)) /\ call.n \in Nodes  BY <1>1, <1>2, <1>3, <1>4, InsertionReturns
  <2> QED BY <2>1 DEF Mapped, Calls, S!Next
<1>5. CASE call' = call
  <2>1. "was" \in DOMAIN call /\ call.op # "returned"  BY <1>3, WasKept
  <2>2. Still  BY <2>1, <1>1, <1>5, WorkStill
  <2> QED BY <2>2 DEF Mapped
<1> QED BY <1>1, <1>4, <1>5

(* after a node was unlinked, bst_destroy,                                 *)
LEMMA DeletionMaps ==
  ASSUME IInv, adjust_delete_case2 \/ adjust_delete_case3 \/ adjust_delete_case5 \/ blance_child \/ Erased
  PROVE Mapped
<1>1. pc.at \in {"rbt_case2", "rbt_case3", "avl_shrunk", "erased"} /\ multi' = multi /\ call' = call
  BY DEF adjust_delete_case2, adjust_delete_case3, adjust_delete_case5, blance_child, AtRbtDelete, AtAvlDelete, Erased
<1>2. Rebalancing  BY <1>1, PhaseIs
<1>3. "was" \in DOMAIN call /\ call.op # "returned"  BY <1>2, WasKept
<1>4. Still  BY <1>1, <1>3, WorkStill
<1> QED BY <1>4 DEF Mapped

(* do_erase: the call goes on.                                             *)
LEMMA ErasingStill ==
  ASSUME IInv, pc.at = "erase", NEW n, NEW o, do_erase(n, o),
         "was" \in DOMAIN o, "gone" \in DOMAIN o, o.was = call.was, o.op # "returned"
  PROVE Mapped
<1>1. call' = [o EXCEPT !.gone = n] /\ multi' = multi  BY DEF do_erase
<1>2. "was" \in DOMAIN call /\ call.op # "returned"  BY PhaseIs, WasKept
<1>3. "was" \in DOMAIN call' /\ call'.op # "returned" /\ call'.was = call.was
  <2>1. call'.was = o.was /\ call'.op = o.op /\ DOMAIN call' = DOMAIN o  BY <1>1
  <2> QED BY <2>1
<1>4. Still  BY <1>1, <1>2, <1>3, WorkStill
<1> QED BY <1>4 DEF Mapped

LEMMA EraseMaps ==
  ASSUME IInv, EraseEqual \/ EraseOne \/ EraseNext
  PROVE Mapped
<1>1. pc.at = "erase" /\ call.op \in {"erase_equal", "erase_one", "range"}
  BY DEF EraseEqual, EraseOne, EraseNext, AtErase
<1>2. PICK g : EraseCall(call, live, g)  BY <1>1, PhaseIs DEF Erasing
<1>3. /\ "gone" \in DOMAIN call /\ "was" \in DOMAIN call /\ "op" \in DOMAIN call
  BY <1>2 DEF EraseCall
<1>4. ASSUME NEW x PROVE LET o == [call EXCEPT !.num = x] IN
        "was" \in DOMAIN o /\ "gone" \in DOMAIN o /\ o.was = call.was /\ o.op = call.op
  BY <1>3
<1>5. ASSUME NEW x PROVE LET o == [call EXCEPT !.p1 = x] IN
        "was" \in DOMAIN o /\ "gone" \in DOMAIN o /\ o.was = call.was /\ o.op = call.op
  BY <1>3
<1>6. LET o == [call EXCEPT !.op = "erase_last"] IN
        "was" \in DOMAIN o /\ "gone" \in DOMAIN o /\ o.was = call.was /\ o.op = "erase_last"
  BY <1>3
<1>7. \/ \E n, x : do_erase(n, [call EXCEPT !.num = x])
      \/ \E n : do_erase(n, [call EXCEPT !.op = "erase_last"])
      \/ \E n, x : do_erase(n, [call EXCEPT !.p1 = x])
  BY DEF EraseEqual, EraseOne, EraseNext
<1>8. CASE \E n, x : do_erase(n, [call EXCEPT !.num = x])
  <2>1. PICK n, x : do_erase(n, [call EXCEPT !.num = x])  BY <1>8
  <2> QED BY <2>1, <1>1, <1>4, ErasingStill
<1>9. CASE \E n : do_erase(n, [call EXCEPT !.op = "erase_last"])
  <2>1. PICK n : do_erase(n, [call EXCEPT !.op = "erase_last"])  BY <1>9
  <2> QED BY <2>1, <1>1, <1>6, ErasingStill
<1>10. CASE \E n, x : do_erase(n, [call EXCEPT !.p1 = x])
  <2>1. PICK n, x : do_erase(n, [call EXCEPT !.p1 = x])  BY <1>10
  <2> QED BY <2>1, <1>1, <1>5, ErasingStill
<1> QED BY <1>7, <1>8, <1>9, <1>10

(* the end of a call that erases,                                          *)
LEMMA ReturnMaps ==
  ASSUME IInv, OInv, EraseReturns \/ EraseRangeReturns
  PROVE Mapped
<1>1. CASE EraseReturns
  <2>1. Calls(S!Erase(Key[call.n])) /\ call.n \in Nodes  BY <1>1, EraseKeyReturns
  <2> QED BY <2>1 DEF Mapped, Calls, S!Next
<1>2. CASE EraseRangeReturns
  <2>1. \E i \in DOMAIN Elements : \E j \in (i + 1) .. (Len(Elements) + 1) : Calls(S!EraseRange(i, j))
    BY <1>2, EraseRangeEnds
  <2> QED BY <2>1 DEF Mapped, Calls, S!Next
<1> QED BY <1>1, <1>2

(* its caller takes the result,                                            *)
LEMMA TakeMaps ==
  ASSUME IInv, take
  PROVE Mapped
<1>1. call.op = "returned" /\ call' = NoCall /\ UNCHANGED <<multi, tree>>  BY DEF take
<1>2. call = NoCall \/ \E x : call = [op |-> "returned", ret |-> x]  BY <1>1, PhaseIs DEF Resting
<1>3. Elements = InOrder(tree)  BY <1>2, AtRest
<1>4. Elements' = InOrder(tree') /\ Answer' = NULL
  <2>1. "was" \notin DOMAIN call' /\ call'.op # "returned"  BY <1>1 DEF NoCall
  <2> QED BY <2>1 DEF Elements, Answer
<1>5. Elements' = Elements  BY <1>1, <1>3, <1>4
<1>6. CASE Answer = NULL  BY <1>1, <1>4, <1>5, <1>6 DEF Mapped, Still
<1>7. CASE Answer # NULL
  <2>1. S!Take  BY <1>4, <1>5, <1>7 DEF S!Take, Answer
  <2> QED BY <2>1, <1>1 DEF Mapped, Calls, S!Next
<1> QED BY <1>6, <1>7

(* clear,                                                                  *)
LEMMA ClearMaps ==
  ASSUME clear
  PROVE Mapped
<1>1. /\ call = NoCall /\ tree' = [root |-> NULL, node |-> [n \in Nodes |-> Fresh]]
      /\ Return(<<NULL>>) /\ multi' = multi
  BY DEF clear, Ready
<1>2. Answer = NULL  BY <1>1, AtRest
<1>3. InOrder(tree') = <<>>  BY <1>1, EmptyWalk
<1>4. Elements' = <<>> /\ Answer' = <<NULL>>  BY <1>1, <1>3, AtReturn
<1>5. S!Clear  BY <1>2, <1>4 DEF S!Clear, Answer
<1> QED BY <1>1, <1>5 DEF Mapped, Calls, S!Next

(* insert,                                                                 *)
LEMMA InsertMaps ==
  ASSUME IInv, OInv, NEW n \in Nodes, insert(n)
  PROVE Mapped
<1> DEFINE k == Key[n]
           m == Find(tree, k)
           w == InOrder(tree)
<1>1. call = NoCall /\ multi' = multi /\ n \notin live  BY DEF insert, Ready
<1>2. PICK O : /\ Sorted(live, O, multi) /\ Rising(O, live, w) /\ \E r, D : Spread(tree, live, r, O, D)
  BY <1>1, RestingOrder
<1>3. PICK r, D : Spread(tree, live, r, O, D)  BY <1>2
<1>4. \/ ~multi /\ m # NULL /\ Return(<<m, FALSE>>) /\ tree' = tree
      \/ call' = [op |-> "insert", n |-> n, was |-> w]
  BY DEF insert, Was
<1>5. Elements = w /\ Answer = NULL  BY <1>1, AtRest
<1>6. k \in Nat /\ m = Find(tree, k)  BY KeyAssumption
<1>7. Return(<<m, FALSE>>) /\ tree' = tree => Elements' = w /\ Answer' = <<m, FALSE>>
  <2> SUFFICES ASSUME Return(<<m, FALSE>>), tree' = tree PROVE Elements' = w /\ Answer' = <<m, FALSE>>  OBVIOUS
  <2>1. Elements' = InOrder(tree') /\ Answer' = <<m, FALSE>>  BY AtReturn
  <2> QED BY <2>1
<1>8. k = Key[n]  OBVIOUS
<1> HIDE DEF k, m, w
<1>9. CASE ~multi /\ m # NULL /\ Return(<<m, FALSE>>) /\ tree' = tree
  <2>1. m \in live /\ Key[m] = k  BY <1>2, <1>3, <1>6, <1>9, FindsAny
  <2>2. Elems(w) = live  BY <1>2 DEF Rising
  <2>3. PICK i \in DOMAIN w : w[i] = m  BY <2>1, <2>2 DEF Elems
  <2>4. \A x \in DOMAIN w : w[x] # n  BY <2>2, <1>1 DEF Elems
  <2>5. S!Insert(n)  BY <1>5, <1>7, <1>8, <1>9, <2>1, <2>3, <2>4, InsertNot
  <2> QED BY <2>5, <1>1 DEF Mapped, Calls, S!Next
<1>10. CASE call' = [op |-> "insert", n |-> n, was |-> w]
  <2>1. "was" \in DOMAIN call' /\ call'.was = w /\ call'.op # "returned"  BY <1>10
  <2>2. Elements' = w /\ Answer' = NULL  BY <2>1 DEF Elements, Answer
  <2> QED BY <2>2, <1>1, <1>5 DEF Mapped, Still
<1> QED BY <1>4, <1>9, <1>10

(* erase by key,                                                           *)
LEMMA EraseKeyMaps ==
  ASSUME IInv, OInv, NEW m \in Nodes, erase_key(Key[m])
  PROVE Mapped
<1> DEFINE k == Key[m]
           n == Find(tree, k)
           w == InOrder(tree)
           o == IF multi THEN "erase_equal" ELSE "erase_one"
<1>1. call = NoCall /\ UNCHANGED <<policy, multi, tree, m_nSize, live>>
      /\ IF n = NULL THEN Return(<<0>>) ELSE call' = [op |-> o, n |-> n, num |-> 1, gone |-> NULL, was |-> w]
  BY DEF erase_key, Ready, Was
<1>2. PICK O : /\ Sorted(live, O, multi) /\ Rising(O, live, w) /\ \E r, D : Spread(tree, live, r, O, D)
  BY <1>1, RestingOrder
<1>3. PICK r, D : Spread(tree, live, r, O, D)  BY <1>2
<1>4. Elements = w /\ Answer = NULL  BY <1>1, AtRest
<1>5. k \in Nat /\ n = Find(tree, k)  BY KeyAssumption
<1>6. Return(<<0>>) => Elements' = w /\ Answer' = <<0>>
  <2> SUFFICES ASSUME Return(<< 0 >>) PROVE Elements' = w /\ Answer' = <<0>>  OBVIOUS
  <2>1. Elements' = InOrder(tree') /\ Answer' = <<0>>  BY AtReturn
  <2> QED BY <2>1, <1>1
<1>7. o # "returned"  OBVIOUS
<1> HIDE DEF k, n, w, o
<1>8. CASE n = NULL
  <2>1. \A x \in live : Key[x] # k  BY <1>2, <1>3, <1>5, <1>8, FindsAny
  <2>2. w \in Seq(Nodes) /\ Elems(w) = live  BY <1>2 DEF Rising
  <2>3. {x \in DOMAIN w : Key[w[x]] = k} = {}  BY <2>1, <2>2 DEF Elems
  <2> DEFINE i == 1
             v == w
  <2>4. /\ i \in 1 .. (Len(w) + 1) /\ i <= i /\ i .. (i - 1) = {}
        /\ Len(w) - Len(v) = 0 /\ v = SubSeq(w, 1, i - 1) \o SubSeq(w, i, Len(w))
    BY <2>2
  <2>5. v = Elements' /\ Answer' = <<Len(w) - Len(v)>>  BY <2>4, <1>1, <1>6, <1>8
  <2> HIDE DEF i, v
  <2>6. {x \in DOMAIN w : Key[w[x]] = k} = i .. (i - 1)  BY <2>3, <2>4
  <2>7. S!Erase(k)  BY <2>4, <2>5, <2>6, <1>4, EraseIs
  <2> QED BY <2>7, <1>1 DEF Mapped, Calls, S!Next, k
<1>9. CASE n # NULL
  <2>1. call' = [op |-> o, n |-> n, num |-> 1, gone |-> NULL, was |-> w]  BY <1>1, <1>9
  <2>2. "was" \in DOMAIN call' /\ call'.was = w /\ call'.op # "returned"  BY <2>1, <1>7
  <2>3. Elements' = w /\ Answer' = NULL  BY <2>2 DEF Elements, Answer
  <2> QED BY <2>3, <1>1, <1>4 DEF Mapped, Still
<1> QED BY <1>8, <1>9

(* and by iterators.                                                       *)
LEMMA EraseRangeMaps ==
  ASSUME NEW p1, NEW p2, erase_range(p1, p2)
  PROVE Mapped
<1> DEFINE w == InOrder(tree)
<1>1. /\ call = NoCall /\ multi' = multi
      /\ call' = [op |-> "range", p1 |-> p1, p2 |-> p2, gone |-> NULL, was |-> w]
  BY DEF erase_range, Ready, Was
<1>2. Elements = w /\ Answer = NULL  BY <1>1, AtRest
<1> HIDE DEF w
<1>3. "was" \in DOMAIN call' /\ call'.was = w /\ call'.op # "returned"  BY <1>1
<1>4. Elements' = w /\ Answer' = NULL  BY <1>3 DEF Elements, Answer
<1> QED BY <1>1, <1>2, <1>4 DEF Mapped, Still

(* Every step is a step of the sequence or leaves it alone.                *)
LEMMA StepMaps ==
  ASSUME IInv, OInv, [Next]_vars
  PROVE Mapped
<1>1. CASE UNCHANGED vars
  <2>1. multi' = multi /\ tree' = tree /\ call' = call  BY <1>1 DEF vars
  <2> QED BY <2>1 DEF Mapped, Still, Elements, Answer
<1>2. CASE \/ adjust_insert_case1 \/ adjust_insert_case2 \/ adjust_insert_case3
           \/ adjust_insert_case5 \/ AvlRoot \/ AvlGrow
  BY <1>2, InsertionMaps
<1>3. CASE adjust_delete_case2 \/ adjust_delete_case3 \/ adjust_delete_case5 \/ blance_child \/ Erased
  BY <1>3, DeletionMaps
<1>4. CASE EraseEqual \/ EraseOne \/ EraseNext  BY <1>4, EraseMaps
<1>5. CASE EraseReturns \/ EraseRangeReturns  BY <1>5, ReturnMaps
<1>6. CASE take  BY <1>6, TakeMaps
<1>7. CASE clear  BY <1>7, ClearMaps
<1>8. ASSUME NEW n \in Nodes, insert(n) \/ erase_key(Key[n]) PROVE Mapped  BY <1>8, InsertMaps, EraseKeyMaps
<1>9. ASSUME NEW p1 \in live, NEW p2 \in {Step(tree, p1, 2), NULL}, erase_range(p1, p2) PROVE Mapped
  BY <1>9, EraseRangeMaps
<1> QED BY <1>1, <1>2, <1>3, <1>4, <1>5, <1>6, <1>7, <1>8, <1>9 DEF Next, Work

(* A tree of either policy is a sorted sequence: whatever rotations a call *)
(* makes, what iterators meet changes once for each insert, erase or clear, *)
(* as SortedSequence says, and the call returns what the sequence says: the *)
(* new or the old node, the number of nodes that were erased, the node     *)
(* after them.                                                             *)
THEOREM KeepsSorted == Spec => Implements
<1>1. Init => S!Init  BY StartsEmpty
<1>2. IInv /\ OInv /\ [Next]_vars
        => [S!Next /\ UNCHANGED multi]_<<multi, Elements, IF call.op = "returned" THEN call.ret ELSE NULL>>
  <2> SUFFICES ASSUME IInv, OInv, [Next]_vars
               PROVE [S!Next /\ UNCHANGED multi]_<<multi, Elements, IF call.op = "returned" THEN call.ret ELSE NULL>>
    OBVIOUS
  <2>1. Mapped  BY StepMaps
  <2> QED BY <2>1 DEF Mapped, Still, Calls, Answer
<1> QED BY <1>1, <1>2, PhasesHold, OrderHolds, PTL DEF Spec, Implements, S!Spec
==============================================================================
