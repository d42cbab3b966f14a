------------------------- MODULE BalancedTree_proofs -------------------------
(***************************************************************************)
(* For any nodes and keys, both policies, unique and equal keys: the links *)
(* of bst_tree agree at every turn of every rebalancing, and between two   *)
(* calls the tree is balanced as its policy demands. Then what the order   *)
(* of the nodes from left to right is, what iterators and searches find in *)
(* it, and what insert and do_erase do to it (BalancedTree_sequence goes on *)
(* from there).                                                            *)
(***************************************************************************)
EXTENDS BalancedTree_links

(* The node n is as it was constructed.                                    *)
Blank(t, u, n) ==
  /\ TreeType(u) /\ u.root = t.root
  /\ Parent(u, n) = NULL /\ Extra(u, n) = 0 /\ \A e \in Side : Child(u, n, e) = NULL
  /\ \A m \in Nodes \ {n} : /\ Parent(u, m) = Parent(t, m) /\ Extra(u, m) = Extra(t, m)
                            /\ \A e \in Side : Child(u, m, e) = Child(t, m, e)

(* bst_construct.                                                          *)
LEMMA Blanks ==
  ASSUME NEW t, TreeType(t), NEW n \in Nodes
  PROVE Blank(t, [t EXCEPT !.node[n] = Fresh], n)
<1>1. Fresh \in [parent : Node, child : [Side -> Node], extra : Int]  BY DEF Fresh, Node, Side
<1>2. Fresh.parent = NULL /\ Fresh.extra = 0 /\ \A e \in Side : Fresh.child[e] = NULL  BY DEF Fresh, Side
<1> HIDE DEF Fresh
<1> QED BY <1>1, <1>2 DEF Blank, TreeType, Parent, Child, Extra

(* n is put below p, where there was nothing.                              *)
Planted(t, u, L, p, d, n) ==
  /\ TreeType(u) /\ u.root = t.root
  /\ Parent(u, n) = p /\ Extra(u, n) = 0 /\ \A e \in Side : Child(u, n, e) = NULL
  /\ \A m \in L : /\ Parent(u, m) = Parent(t, m) /\ Extra(u, m) = Extra(t, m)
                  /\ \A e \in Side : Child(u, m, e) = IF m = p /\ e = d THEN n ELSE Child(t, m, e)

(* The new node, linked where the search ended,                            *)
LEMMA Plants ==
  ASSUME NEW t, NEW L, NEW r, Links(t, L, r), NEW n \in Nodes \ L, NEW p \in L, NEW d \in Side,
         NEW u, u = SetChild([t EXCEPT !.node[n] = Fresh], p, d, n)
  PROVE Planted(t, u, L, p, d, n)
<1> DEFINE v == [t EXCEPT !.node[n] = Fresh]
<1>1. TreeType(t) /\ p \in Nodes /\ n \in Node /\ p # n /\ \A m \in L : m \in Nodes /\ m # n
  BY LinkFacts DEF Node
<1>2. Blank(t, v, n)
  <2>1. TreeType(t) /\ n \in Nodes  BY <1>1
  <2> QED BY <2>1, Blanks, Zenon
<1>3. u = SetChild(v, p, d, n)  OBVIOUS
<1> HIDE DEF v
<1>4. Joined(v, u, p, d, n)
  <2>1. TreeType(v)  BY <1>2 DEF Blank
  <2> QED BY <2>1, <1>1, <1>3, SetChildJoins
<1> QED BY <1>1, <1>2, <1>4 DEF Blank, Joined, Planted

(* is a leaf of a tree on one node more,                                   *)
LEMMA PlantedLinks ==
  ASSUME NEW t, NEW L, NEW r, Links(t, L, r), NEW n \in Nodes \ L, NEW p \in L, NEW d \in Side,
         Child(t, p, d) = NULL, NEW u, Planted(t, u, L, p, d, n)
  PROVE \E r2 : Links(u, L \cup {n}, r2)
<1> DEFINE M == L \cup {n}
           r2 == [m \in Nodes |-> IF m = n THEN r[p] + 1 ELSE r[m]]
<1>1. /\ L \subseteq Nodes /\ r \in [Nodes -> Nat] /\ n \in Nodes /\ n \notin L /\ p \in Nodes /\ n # NULL
      /\ t.root \in L
  BY NodesAssumption DEF Links
<1>2. /\ \A m \in L : m # NULL /\ Parent(t, m) \in L \cup {NULL} /\ r[m] \in Nat
      /\ \A m \in L : \A e \in Side : Child(t, m, e) # n
      /\ \A m \in L : (m = t.root <=> Parent(t, m) = NULL)
  BY <1>1, LinkFacts
<1>3. r2 \in [Nodes -> Nat] /\ \A m \in Nodes : r2[m] = IF m = n THEN r[p] + 1 ELSE r[m]
  BY <1>1, <1>2
<1> HIDE DEF r2
<1>4. /\ TreeType(u) /\ u.root = t.root /\ Parent(u, n) = p
      /\ \A e \in Side : Child(u, n, e) = NULL
      /\ \A m \in L : /\ Parent(u, m) = Parent(t, m)
                      /\ \A e \in Side : Child(u, m, e) = IF m = p /\ e = d THEN n ELSE Child(t, m, e)
  BY DEF Planted
<1>5. \A m \in M : m = u.root => Parent(u, m) = NULL  BY <1>1, <1>2, <1>4
<1>6. ASSUME NEW m \in M, m # u.root
      PROVE /\ Parent(u, m) \in M /\ r2[Parent(u, m)] < r2[m]
            /\ \E e \in Side : Child(u, Parent(u, m), e) = m
  <2>1. CASE m = n
    <3>1. Parent(u, m) = p /\ r2[p] = r[p] /\ r2[m] = r[p] + 1 /\ r[p] \in Nat  BY <2>1, <1>1, <1>2, <1>3, <1>4
    <3>2. Child(u, p, d) = m  BY <2>1, <1>4
    <3> QED BY <3>1, <3>2
  <2>2. CASE m # n
    <3> DEFINE q == Parent(t, m)
    <3>1. m \in L /\ m # t.root  BY <2>2, <1>4, <1>6
    <3>2. q \in L /\ r[q] < r[m] /\ \E e \in Side : Child(t, q, e) = m  BY <3>1 DEF Links
    <3>3. r2[q] = r[q] /\ r2[m] = r[m]  BY <3>1, <3>2, <1>1, <1>3
    <3>4. PICK e \in Side : Child(t, q, e) = m  BY <3>2
    <3>5. Child(u, q, e) = m
      <4>1. Child(t, q, e) # NULL  BY <3>1, <3>4, <1>2
      <4> QED BY <4>1, <3>2, <3>4, <1>4
    <3> QED BY <3>1, <3>2, <3>3, <3>5, <1>4
  <2> QED BY <2>1, <2>2
<1>7. ASSUME NEW m \in M, NEW e \in Side, Child(u, m, e) # NULL
      PROVE /\ Child(u, m, e) \in M /\ Parent(u, Child(u, m, e)) = m
            /\ Child(u, m, 3 - e) # Child(u, m, e)
  <2>1. m \in L /\ 3 - e \in Side /\ 3 - e # e  BY <1>4, <1>7 DEF Side
  <2>2. CASE m = p /\ e = d  BY <2>1, <2>2, <1>2, <1>4
  <2>3. CASE ~(m = p /\ e = d)
    <3> DEFINE k == Child(t, m, e)
               o == Child(t, m, 3 - e)
    <3>1. Child(u, m, e) = k /\ k # NULL  BY <2>1, <2>3, <1>4, <1>7
    <3>2. k \in L /\ Parent(t, k) = m /\ o # k  BY <2>1, <3>1 DEF Links
    <3>3. Parent(u, k) = m /\ k # n  BY <3>2, <1>1, <1>4
    <3>4. Child(u, m, 3 - e) = n \/ Child(u, m, 3 - e) = o
      <4> DEFINE ee == 3 - e
      <4>1. ee \in Side  BY <2>1
      <4> HIDE DEF ee
      <4>2. Child(u, m, ee) = n \/ Child(u, m, ee) = Child(t, m, ee)  BY <4>1, <2>1, <1>4
      <4> QED BY <4>2 DEF ee
    <3> QED BY <3>1, <3>2, <3>3, <3>4
  <2> QED BY <2>2, <2>3
<1>8. Links(u, M, r2)  BY <1>1, <1>3, <1>4, <1>5, <1>6, <1>7 DEF Links
<1> QED BY <1>8

(* of a red-black tree but for its own parent, which may be red,           *)
LEMMA PlantedRbt ==
  ASSUME NEW t, NEW L, NEW r, Links(t, L, r), NEW n \in Nodes \ L, NEW p \in L, NEW d \in Side,
         Child(t, p, d) = NULL, NEW u, Planted(t, u, L, p, d, n), NEW h, RbtWhole(t, L, h)
  PROVE \E h2 : RbtGrowing(u, L \cup {n}, h2, n)
<1> DEFINE M == L \cup {n}
           h2 == [m \in Node |-> IF m = n THEN 0 ELSE h[m]]
<1>1. /\ n \in Node /\ n # NULL /\ n \notin L /\ Heights(h) /\ h[NULL] = 0 /\ NULL \in Node
      /\ \A m \in L : m # NULL /\ m \in Node
      /\ \A m \in L : \A e \in Side : Child(t, m, e) # n /\ Child(t, m, e) \in Node
                                      /\ (Child(t, m, e) # NULL => Child(t, m, e) \in L)
      /\ t.root \in L
  BY LinkFacts, NodesAssumption DEF Node, RbtWhole, Heights, Links
<1>2. Heights(h2) /\ \A m \in Node : h2[m] = IF m = n THEN 0 ELSE h[m]
  BY <1>1 DEF Heights
<1> HIDE DEF h2
<1>3. /\ u.root = t.root /\ Extra(u, n) = 0
      /\ \A e \in Side : Child(u, n, e) = NULL
      /\ \A m \in L : /\ Extra(u, m) = Extra(t, m)
                      /\ \A e \in Side : Child(u, m, e) = IF m = p /\ e = d THEN n ELSE Child(t, m, e)
  BY DEF Planted
<1>4. is_red(u, n)  BY <1>1, <1>3 DEF is_red, Red
<1>5. ASSUME NEW m \in M PROVE Even(u, h2, m)
  <2>1. CASE m = n
    <3>1. Blacks(u, n) = 0 /\ h2[n] = 0 /\ h2[NULL] = 0  BY <1>1, <1>2, <1>3 DEF Blacks, Red
    <3> QED BY <2>1, <3>1, <1>3 DEF Even
  <2>2. CASE m # n
    <3>1. m \in L /\ h2[m] = h[m] /\ Blacks(u, m) = Blacks(t, m)  BY <2>2, <1>1, <1>2, <1>3 DEF Blacks
    <3>2. \A e \in Side : h[m] = h[Child(t, m, e)] + Blacks(t, m)  BY <3>1 DEF RbtWhole, Even
    <3>3. ASSUME NEW e \in Side PROVE h2[Child(u, m, e)] = h[Child(t, m, e)]
      BY <3>1, <1>1, <1>2, <1>3
    <3> QED BY <3>1, <3>2, <3>3 DEF Even
  <2> QED BY <2>1, <2>2
<1>6. ASSUME NEW m \in M, NEW e \in Side, is_red(u, m), is_red(u, Child(u, m, e)) PROVE Child(u, m, e) = n
  <2>1. m # n  BY <1>3, <1>6 DEF is_red
  <2>2. CASE m = p /\ e = d  BY <2>2, <1>3
  <2>3. CASE ~(m = p /\ e = d)
    <3>1. m \in L /\ Child(u, m, e) = Child(t, m, e) /\ is_red(t, m)  BY <2>1, <2>3, <1>3, <1>6 DEF is_red
    <3>2. is_black(t, Child(t, m, e))  BY <3>1 DEF RbtWhole
    <3>3. is_red(t, Child(t, m, e))  BY <3>1, <1>1, <1>3, <1>6 DEF is_red
    <3> QED BY <3>2, <3>3 DEF is_black
  <2> QED BY <2>2, <2>3
<1>7. is_black(u, u.root)
  <2>1. is_black(t, t.root)  BY DEF RbtWhole
  <2> QED BY <2>1, <1>1, <1>3 DEF is_black, is_red
<1>8. RbtGrowing(u, M, h2, n)  BY <1>2, <1>4, <1>5, <1>6, <1>7 DEF RbtGrowing
<1> QED BY <1>8

(* or of an AVL tree whose factors do not count it yet.                    *)
LEMMA PlantedAvl ==
  ASSUME NEW t, NEW L, NEW r, Links(t, L, r), NEW n \in Nodes \ L, NEW p \in L, NEW d \in Side,
         Child(t, p, d) = NULL, NEW u, Planted(t, u, L, p, d, n), NEW h, AvlWhole(t, L, h)
  PROVE \E h2 : AvlGrowing(u, L \cup {n}, h2, n)
<1> DEFINE M == L \cup {n}
           h2 == [m \in Node |-> IF m = n THEN 1 ELSE h[m]]
<1>1. /\ n \in Node /\ n # NULL /\ n \notin L /\ Heights(h) /\ h[NULL] = 0 /\ NULL \in Node
      /\ \A m \in L : m # NULL /\ m \in Node
      /\ \A m \in L : \A e \in Side : Child(t, m, e) # n /\ Child(t, m, e) \in Node
  BY LinkFacts, NodesAssumption DEF Node, AvlWhole, Heights
<1>2. Heights(h2) /\ \A m \in Node : h2[m] = IF m = n THEN 1 ELSE h[m]
  BY <1>1 DEF Heights
<1> HIDE DEF h2
<1>3. /\ Extra(u, n) = 0 /\ Parent(u, n) = p
      /\ \A e \in Side : Child(u, n, e) = NULL
      /\ \A m \in L : /\ Extra(u, m) = Extra(t, m)
                      /\ \A e \in Side : Child(u, m, e) = IF m = p /\ e = d THEN n ELSE Child(t, m, e)
  BY DEF Planted
<1>4. Tall(u, h2, n)
  <2>1. h2[n] = 1 /\ h2[NULL] = 0 /\ \A e \in Side : 3 - e \in Side  BY <1>1, <1>2 DEF Side
  <2>2. \A e \in Side : Tilt(u, n, e) = 0
    <3>1. Sign(1) * 0 = 0 /\ Sign(2) * 0 = 0  BY DEF Sign
    <3> QED BY <3>1, <1>3 DEF Tilt, Side
  <2>3. Fits(1, 0, 0, 0)  BY DEF Fits
  <2>4. \A e \in Side : Fits(h2[n], Tilt(u, n, e), h2[Child(u, n, e)], h2[Child(u, n, 3 - e)])
    BY <2>1, <2>2, <2>3, <1>3
  <2> QED BY <2>4 DEF Tall
<1>5. ASSUME NEW m \in M, m # p PROVE Tall(u, h2, m)
  <2>1. CASE m = n  BY <2>1, <1>4
  <2>2. CASE m # n
    <3>1. m \in L /\ h2[m] = h[m] /\ Extra(u, m) = Extra(t, m)  BY <2>2, <1>1, <1>2, <1>3
    <3>2. \A e \in Side : Child(u, m, e) = Child(t, m, e) /\ h2[Child(t, m, e)] = h[Child(t, m, e)]
      BY <3>1, <1>1, <1>2, <1>3, <1>5
    <3>3. Tall(t, h, m)  BY <3>1 DEF AvlWhole
    <3> QED BY <3>1, <3>2, <3>3, TallElsewhere
  <2> QED BY <2>1, <2>2
<1>6. ASSUME NEW e \in Side, Child(u, p, e) = n
      PROVE Fits(h2[p], Tilt(u, p, e), h2[n] - 1, h2[Child(u, p, 3 - e)])
  <2>1. e = d  BY <1>1, <1>3, <1>6
  <2> DEFINE dd == 3 - d
             o == Child(t, p, dd)
  <2>2. dd \in Side /\ dd # d  BY DEF Side
  <2>3. Fits(h[p], Tilt(t, p, d), h[Child(t, p, d)], h[o])  BY DEF AvlWhole, Tall
  <2> HIDE DEF dd
  <2>4. Child(u, p, dd) = o /\ h2[o] = h[o]  BY <2>2, <1>1, <1>2, <1>3
  <2>5. Tilt(u, p, d) = Tilt(t, p, d) /\ h2[p] = h[p] /\ h2[n] - 1 = 0  BY <1>1, <1>2, <1>3 DEF Tilt
  <2>6. h[Child(t, p, d)] = 0  BY <1>1
  <2>7. Fits(h2[p], Tilt(u, p, d), h2[n] - 1, h2[Child(u, p, dd)])  BY <2>3, <2>4, <2>5, <2>6
  <2> QED BY <2>1, <2>7 DEF dd
<1>7. n \in M /\ h2[n] = 1  BY <1>1, <1>2
<1>8. AvlGrowing(u, M, h2, n)  BY <1>2, <1>3, <1>5, <1>6, <1>7 DEF AvlGrowing
<1> QED BY <1>8

(* The tree was empty: n is not linked yet.                                *)
Seed(t, L, n) ==
  /\ L = {n} /\ n \in Nodes /\ TreeType(t) /\ t.root = NULL
  /\ Parent(t, n) = NULL /\ Extra(t, n) = 0 /\ \A e \in Side : Child(t, n, e) = NULL

Growing(P, t, L, n) ==
  /\ n \in L /\ \E r : Links(t, L, r)
  /\ P = "rbt" => \E h : RbtGrowing(t, L, h, n)
  /\ P = "avl" => \E h : AvlGrowing(t, L, h, n)

(* The tree of the nodes L while the policy is at n.                       *)
Placed(P, t, L, n) == Seed(t, L, n) \/ Growing(P, t, L, n)

(* The first node is the root.                                             *)
LEMMA SeedLinks ==
  ASSUME NEW t, NEW L, NEW n, Seed(t, L, n), NEW u, TreeType(u), u.root = n, Parent(u, n) = NULL,
         \A e \in Side : Child(u, n, e) = NULL
  PROVE \E r : Links(u, L, r)
<1> DEFINE r == [m \in Nodes |-> 0]
<1>1. r \in [Nodes -> Nat]  OBVIOUS
<1> HIDE DEF r
<1>2. Links(u, L, r)  BY <1>1 DEF Links, Seed
<1> QED BY <1>2

(* It stands alone in both.                                                *)
LEMMA SeedTurned ==
  ASSUME NEW t, NEW L, NEW n, Seed(t, L, n), NEW u, TreeType(u), u.root = n, Parent(u, n) = NULL,
         \A e \in Side : Child(u, n, e) = NULL
  PROVE Turned(t, u, L)
<1> SUFFICES ASSUME NEW O, Laid(t, L, O) PROVE Laid(u, L, O)  BY DEF Turned
<1>1. Numbered(O)  BY DEF Laid
<1>2. PICK r : Links(u, L, r)  BY SeedLinks
<1>3. L = {n} /\ n \in Node /\ n # NULL /\ NULL \in Node  BY NodesAssumption DEF Seed, Node
<1> DEFINE D == [m \in Node |-> IF m = n THEN {n} ELSE {}]
<1>4. D \in [Node -> SUBSET L] /\ D[n] = {n} /\ D[NULL] = {}  BY <1>3
<1> HIDE DEF D
<1>5. Spans(u, L, O, D)  BY <1>3, <1>4 DEF Spans
<1> QED BY <1>1, <1>2, <1>5 DEF Laid, Spread

(* case1: the root becomes black.                                          *)
LEMMA RbtRoots ==
  ASSUME NEW t, NEW L, NEW n, Placed("rbt", t, L, n), Parent(t, n) = NULL,
         NEW u, u = Mark([t EXCEPT !.root = n], n, Black)
  PROVE Whole("rbt", u, L) /\ Turned(t, u, L)
<1> DEFINE v == [t EXCEPT !.root = n]
<1>1. TreeType(t) /\ n \in Nodes /\ n \in Node /\ n # NULL /\ Black \in Int
  <2>1. TreeType(t) /\ n \in Nodes
    BY LinkFacts DEF Placed, Seed, Growing
  <2> QED BY <2>1, NodesAssumption DEF Node, Black
<1>2. GetsRoot(t, v, n)  BY <1>1, SetRoot, Zenon
<1>3. u = Mark(v, n, Black)  OBVIOUS
<1> HIDE DEF v
<1>4. GetsExtra(v, u, n, Black)
  <2>1. TreeType(v)  BY <1>2 DEF GetsRoot
  <2> QED BY <2>1, <1>1, <1>3, Marked
<1>5. /\ TreeType(u) /\ u.root = n /\ Extra(u, n) = 1
      /\ \A m \in Nodes : /\ Parent(u, m) = Parent(t, m) /\ (m # n => Extra(u, m) = Extra(t, m))
                          /\ \A e \in Side : Child(u, m, e) = Child(t, m, e)
  BY <1>1, <1>2, <1>4 DEF GetsRoot, GetsExtra, Black
<1>6. is_black(u, n) /\ Blacks(u, n) = 1  BY <1>5 DEF is_black, is_red, Blacks, Red
<1>7. CASE Seed(t, L, n)
  <2> DEFINE h == [m \in Node |-> IF m = n THEN 1 ELSE 0]
  <2>1. Heights(h) /\ h[n] = 1 /\ h[NULL] = 0  BY <1>1 DEF Heights, Node
  <2> HIDE DEF h
  <2>2. \E r : Links(u, L, r)  BY <1>1, <1>5, <1>7, SeedLinks DEF Seed
  <2>3. L = {n} /\ \A e \in Side : Child(u, n, e) = NULL  BY <1>1, <1>5, <1>7 DEF Seed
  <2>4. Even(u, h, n)  BY <2>1, <2>3, <1>6 DEF Even
  <2>5. RbtWhole(u, L, h)
    <3>1. \A m \in L : Even(u, h, m)  BY <2>3, <2>4
    <3>2. \A m \in L : \A e \in Side : is_red(u, m) => is_black(u, Child(u, m, e))  BY <2>3, <1>6 DEF is_black
    <3> QED BY <2>1, <3>1, <3>2, <1>5, <1>6 DEF RbtWhole
  <2>6. Turned(t, u, L)  BY <1>1, <1>5, <1>7, <2>3, SeedTurned DEF Seed
  <2> QED BY <2>2, <2>5, <2>6 DEF Whole
<1>8. CASE Growing("rbt", t, L, n)
  <2>1. PICK r : Links(t, L, r)  BY <1>8 DEF Growing
  <2>2. PICK h : RbtGrowing(t, L, h, n)  BY <1>8 DEF Growing
  <2>3. /\ n \in L /\ t.root = n
        /\ \A m \in L : m \in Nodes /\ m # NULL /\ m \in Node
        /\ \A m \in L : \A e \in Side : Child(t, m, e) # n /\ Child(t, m, e) \in Node
                                        /\ (Child(t, m, e) # NULL => Child(t, m, e) \in L)
    <3>1. n \in L  BY <2>2 DEF RbtGrowing
    <3> QED BY <2>1, <3>1, <1>1, LinkFacts
  <2> DEFINE h2 == [m \in Node |-> IF m = n THEN h[n] + 1 ELSE h[m]]
  <2>4. Heights(h) /\ h[n] \in Nat  BY <2>2, <1>1 DEF RbtGrowing, Heights
  <2>5. Heights(h2) /\ \A m \in Node : h2[m] = IF m = n THEN h[n] + 1 ELSE h[m]
    BY <2>4, <1>1 DEF Heights, Node
  <2> HIDE DEF h2
  <2>6. Links(u, L, r) /\ Turned(t, u, L)
    <3>1. Recoloured(t, u)  BY <2>3, <1>5 DEF Recoloured
    <3> QED BY <2>1, <3>1, RecolouredLinks, RecolouredTurned
  <2>7. ASSUME NEW m \in L PROVE Even(u, h2, m)
    <3>1. \A e \in Side : h[m] = h[Child(t, m, e)] + Blacks(t, m)  BY <2>2 DEF RbtGrowing, Even
    <3>2. \A e \in Side : Child(u, m, e) = Child(t, m, e) /\ h2[Child(t, m, e)] = h[Child(t, m, e)]
      BY <2>3, <2>5, <1>5
    <3>3. CASE m = n
      <4>1. Blacks(t, n) = 0  BY <2>2 DEF RbtGrowing, is_red, Blacks
      <4>2. \A e \in Side : h[Child(t, n, e)] \in Nat  BY <2>3, <2>4 DEF Heights
      <4> QED BY <3>1, <3>2, <3>3, <4>1, <4>2, <2>3, <2>5, <1>6 DEF Even
    <3>4. CASE m # n
      <4>1. Blacks(u, m) = Blacks(t, m) /\ h2[m] = h[m]  BY <3>4, <2>3, <2>5, <1>5 DEF Blacks
      <4> QED BY <3>1, <3>2, <4>1 DEF Even
    <3> QED BY <3>3, <3>4
  <2>8. ASSUME NEW m \in L, NEW e \in Side, is_red(u, m) PROVE is_black(u, Child(u, m, e))
    <3>1. m # n /\ is_red(t, m)  BY <2>3, <2>8, <1>5, <1>6 DEF is_red, is_black
    <3>2. Child(u, m, e) = Child(t, m, e) /\ Child(t, m, e) # n  BY <2>3, <1>5
    <3>3. is_black(t, Child(t, m, e))  BY <2>2, <3>1, <3>2 DEF RbtGrowing, is_black
    <3> QED BY <2>3, <3>2, <3>3, <1>5 DEF is_black, is_red
  <2>9. RbtWhole(u, L, h2)  BY <2>5, <2>7, <2>8, <1>5, <1>6 DEF RbtWhole
  <2> QED BY <2>6, <2>9 DEF Whole
<1> QED BY <1>7, <1>8 DEF Placed

(* case2: a black parent.                                                  *)
LEMMA RbtStays ==
  ASSUME NEW t, NEW L, NEW n, Placed("rbt", t, L, n), NEW p, p = Parent(t, n), p # NULL, is_black(t, p)
  PROVE Whole("rbt", t, L)
<1>1. Growing("rbt", t, L, n)  BY DEF Placed, Seed
<1>2. PICK r : Links(t, L, r)  BY <1>1 DEF Growing
<1>3. PICK h : RbtGrowing(t, L, h, n)  BY <1>1 DEF Growing
<1>4. n \in L /\ n # t.root  BY <1>2, <1>3, LinkFacts DEF RbtGrowing
<1>5. ASSUME NEW m \in L, NEW e \in Side, is_red(t, m) PROVE is_black(t, Child(t, m, e))
  <2>1. Child(t, m, e) = n => m = p  BY <1>2, <1>4, LinkFacts
  <2> QED BY <2>1, <1>3, <1>5 DEF RbtGrowing, is_black
<1>6. RbtWhole(t, L, h)  BY <1>3, <1>4, <1>5 DEF RbtGrowing, RbtWhole
<1> QED BY <1>2, <1>6 DEF Whole

(* case3.                                                                  *)
LEMMA RbtRises ==
  ASSUME NEW t, NEW L, NEW n, Placed("rbt", t, L, n), NEW p, p = Parent(t, n), NEW g, g = Parent(t, p),
         is_red(t, p), is_red(t, Sibling(t, g, p)),
         NEW u, u = Mark(Mark(Mark(t, Child(t, g, 1), Black), Child(t, g, 2), Black), g, Red)
  PROVE Placed("rbt", u, L, g) /\ Turned(t, u, L)
<1>1. p # NULL  BY DEF is_red
<1>2. Growing("rbt", t, L, n)  BY <1>1 DEF Placed, Seed
<1>3. PICK r : Links(t, L, r)  BY <1>2 DEF Growing
<1>4. PICK h : RbtGrowing(t, L, h, n)  BY <1>2 DEF Growing
<1>5. p \in L /\ g \in L /\ p # g /\ g # NULL
  <2>1. p \in L /\ g \in L /\ p # g  BY <1>3, <1>4, GrandparentIs
  <2> QED BY <2>1, <1>3, LinkFacts
<1>6. SideOf(t, g, p) \in Side /\ Child(t, g, SideOf(t, g, p)) = p  BY <1>3, <1>5, SideFacts
<1>7. \A e \in Side : is_red(t, Child(t, g, e))
  <2>1. \A e \in Side : e = SideOf(t, g, p) \/ e = 3 - SideOf(t, g, p)  BY <1>6 DEF Side
  <2> QED BY <2>1, <1>6 DEF Sibling
<1> DEFINE a == Child(t, g, 1)
           b == Child(t, g, 2)
<1>8. a \in L /\ b \in L /\ a # b /\ a # g /\ b # g
  <2>1. 1 \in Side /\ 2 \in Side /\ 3 - 1 = 2  BY DEF Side
  <2>2. a # NULL /\ b # NULL  BY <2>1, <1>7 DEF is_red
  <2> QED BY <2>1, <2>2, <1>3, <1>5, LinkFacts
<1>9. u = Mark(Mark(Mark(t, a, Black), b, Black), g, Red)  OBVIOUS
<1>10. \A m \in L : (m = Child(t, g, 1) \/ m = Child(t, g, 2)) <=> (m = a \/ m = b)  OBVIOUS
<1> HIDE DEF a, b
<1>11. TreeType(t) /\ a \in Nodes /\ b \in Nodes /\ g \in Nodes /\ Black \in Int /\ Red \in Int
  BY <1>3, <1>5, <1>8, LinkFacts DEF Black, Red
<1>12. /\ Recoloured(t, u) /\ Extra(u, a) = Black /\ Extra(u, b) = Black /\ Extra(u, g) = Red
       /\ \A m \in Nodes \ {a, b, g} : Extra(u, m) = Extra(t, m)
  BY <1>8, <1>9, <1>11, ThreeMarks
<1>13. \A m \in L : Extra(u, m) = IF m = g THEN Red
                                  ELSE IF m = Child(t, g, 1) \/ m = Child(t, g, 2) THEN Black
                                  ELSE Extra(t, m)
  <2>1. \A m \in L : m \in Nodes  BY <1>3, LinkFacts
  <2> QED BY <2>1, <1>8, <1>10, <1>12
<1>14. \E h2 : RbtGrowing(u, L, h2, g)  BY <1>3, <1>4, <1>7, <1>12, <1>13, InsertRecolours
<1>15. Links(u, L, r)  BY <1>3, <1>12, RecolouredLinks
<1>16. Turned(t, u, L)  BY <1>12, RecolouredTurned
<1> QED BY <1>5, <1>14, <1>15, <1>16 DEF Placed, Growing

(* case4 and case5.                                                        *)
LEMMA RbtLifts ==
  ASSUME NEW t, NEW L, NEW n, Placed("rbt", t, L, n), NEW p, p = Parent(t, n), NEW g, g = Parent(t, p),
         is_red(t, p), is_black(t, Sibling(t, g, p)),
         NEW d, d = SideOf(t, g, p), NEW inner, inner = (SideOf(t, p, n) # d),
         NEW t1, t1 = IF inner THEN Rotate(t, p, 3 - d) ELSE t,
         NEW q, q = IF inner THEN n ELSE p,
         NEW u, u = Rotate(Mark(Mark(t1, q, Black), g, Red), g, d)
  PROVE Whole("rbt", u, L) /\ Turned(t, u, L)
<1> DEFINE dd == 3 - d
           k == IF inner THEN p ELSE n
           v == Mark(Mark(t1, q, Black), g, Red)
<1>1. p # NULL  BY DEF is_red
<1>2. Growing("rbt", t, L, n)  BY <1>1 DEF Placed, Seed
<1>3. PICK r : Links(t, L, r)  BY <1>2 DEF Growing
<1>4. PICK h : RbtGrowing(t, L, h, n)  BY <1>2 DEF Growing
<1>5. /\ p \in L /\ g \in L /\ p # g /\ g # n /\ n \in L /\ p # n
      /\ n # NULL /\ g # NULL /\ Black \in Int /\ Red \in Int
  <2>1. p \in L /\ g \in L /\ p # g /\ g # n /\ p # n  BY <1>3, <1>4, GrandparentIs
  <2>2. n \in L  BY <1>4 DEF RbtGrowing
  <2> QED BY <2>1, <2>2, <1>3, LinkFacts DEF Black, Red
<1>6. /\ d \in Side /\ Child(t, g, d) = p /\ SideOf(t, p, n) \in Side /\ Child(t, p, SideOf(t, p, n)) = n
      /\ dd \in Side /\ dd # d /\ 3 - dd = d /\ dd = 3 - d /\ is_black(t, Child(t, g, dd))
      /\ \A e \in Side : e = d \/ e = dd
  <2>1. d \in Side /\ Child(t, g, d) = p  BY <1>3, <1>5, SideFacts
  <2>2. SideOf(t, p, n) \in Side /\ Child(t, p, SideOf(t, p, n)) = n  BY <1>1, <1>3, <1>5, SideFacts
  <2>3. dd \in Side /\ dd # d /\ 3 - dd = d /\ dd = 3 - d /\ \A e \in Side : e = d \/ e = dd  BY <2>1 DEF Side
  <2> QED BY <2>1, <2>2, <2>3 DEF Sibling
<1>7. u = Rotate(v, g, d)  OBVIOUS
<1>v. v = Mark(Mark(t1, q, Black), g, Red)  OBVIOUS
<1> HIDE DEF dd, v
<1>8. /\ (\E r1 : Links(t1, L, r1)) /\ RbtGrowing(t1, L, h, k)
      /\ q = Parent(t1, k) /\ g = Parent(t1, q) /\ is_red(t1, q)
      /\ Child(t1, g, d) = q /\ Child(t1, q, d) = k /\ is_black(t1, Child(t1, g, dd))
      /\ Turned(t, t1, L)
  <2>1. CASE inner
    <3>1. Child(t, p, dd) = n /\ t1 = Rotate(t, p, dd) /\ q = n /\ k = p  BY <2>1, <1>6
    <3> DEFINE x == Child(t, n, 3 - dd)
    <3>2. Rotated(t, t1, L, p, dd, n, x)  BY <3>1, <1>3, <1>5, <1>6, RotateIs
    <3>3. (\E r1 : Links(t1, L, r1)) /\ Turned(t, t1, L)
      <4>1. x = Child(t, n, 3 - dd) /\ n = Child(t, p, dd)  BY <3>1
      <4> HIDE DEF x
      <4> QED BY <3>2, <4>1, <1>3, <1>5, <1>6, RotatedLinks, RotatedTurned
    <3>4. /\ RbtGrowing(t1, L, h, p)
          /\ Parent(t1, p) = n /\ is_red(t1, n) /\ Child(t1, n, d) = p
          /\ Parent(t1, n) = g /\ Child(t1, g, d) = n
          /\ Child(t1, g, 3 - d) = Child(t, g, 3 - d)
      <4>1. Child(t, p, 3 - d) = n /\ Rotated(t, t1, L, p, 3 - d, n, Child(t, n, 3 - (3 - d)))
        BY <3>1, <3>2, <1>6
      <4> QED BY <4>1, <1>3, <1>4, <1>6, InsertTurns
    <3>5. is_black(t1, Child(t1, g, dd))
      <4> DEFINE s == Child(t, g, dd)
      <4>1. Child(t1, g, dd) = s /\ (s # NULL => s \in Nodes)  BY <3>4, <1>3, <1>5, <1>6, LinkFacts
      <4>2. s # NULL => Extra(t1, s) = Extra(t, s)  BY <3>2, <4>1 DEF Rotated
      <4> QED BY <4>1, <4>2, <1>6 DEF is_black, is_red
    <3> QED BY <3>1, <3>3, <3>4, <3>5
  <2>2. CASE ~inner
    <3>1. Child(t, p, d) = n /\ t1 = t /\ q = p /\ k = n  BY <2>2, <1>6
    <3>2. Turned(t, t1, L)  BY <3>1, TurnedNot
    <3> QED BY <3>1, <3>2, <1>3, <1>4, <1>6
  <2> QED BY <2>1, <2>2
<1>9. PICK r1 : Links(t1, L, r1)  BY <1>8
<1>10. q \in L /\ q # g /\ q # NULL  BY <1>1, <1>5
<1> HIDE DEF k
<1>11. /\ Recoloured(t1, v)
       /\ \A m \in L : Extra(v, m) = IF m = q THEN Black ELSE IF m = g THEN Red ELSE Extra(t1, m)
  <2>1. TreeType(t1) /\ q \in Nodes /\ g \in Nodes /\ \A m \in L : m \in Nodes  BY <1>5, <1>9, <1>10, LinkFacts
  <2>2. /\ Recoloured(t1, v) /\ Extra(v, q) = Black /\ Extra(v, g) = Red
        /\ \A m \in Nodes \ {q, g} : Extra(v, m) = Extra(t1, m)
    BY <2>1, <1>5, <1>10, <1>v, TwoMarks
  <2> QED BY <2>1, <2>2, <1>10
<1>12. Links(v, L, r1)  BY <1>9, <1>11, RecolouredLinks
<1>13. Child(v, g, d) = q
  <2>1. g \in Nodes  BY <1>5, <1>9, LinkFacts
  <2> QED BY <2>1, <1>6, <1>8, <1>11 DEF Recoloured
<1>14. Rotated(v, u, L, g, d, q, Child(v, q, 3 - d))
  <2>1. Rotated(v, Rotate(v, g, d), L, g, d, Child(v, g, d), Child(v, Child(v, g, d), 3 - d))
    BY <1>5, <1>6, <1>10, <1>12, <1>13, RotateIs
  <2> QED BY <2>1, <1>7, <1>13
<1>15. (\E r2 : Links(u, L, r2)) /\ Turned(v, u, L)
  <2> DEFINE x == Child(v, q, 3 - d)
  <2>1. Rotated(v, u, L, g, d, q, x) /\ x = Child(v, q, 3 - d)  BY <1>14
  <2> HIDE DEF x
  <2> QED BY <2>1, <1>5, <1>6, <1>10, <1>12, <1>13, RotatedLinks, RotatedTurned
<1>16. \E h2 : RbtWhole(u, L, h2)
  <2>1. is_black(t1, Child(t1, g, 3 - d))  BY <1>6, <1>8
  <2>2. RbtGrowing(t1, L, h, k) /\ q = Parent(t1, k) /\ g = Parent(t1, q) /\ is_red(t1, q)
        /\ d \in Side /\ Child(t1, g, d) = q /\ Child(t1, q, d) = k
    BY <1>6, <1>8
  <2>3. Recoloured(t1, v) /\ Rotated(v, u, L, g, d, q, Child(v, q, 3 - d))  BY <1>11, <1>14
  <2>4. \A m \in L : Extra(v, m) = IF m = q THEN Black ELSE IF m = g THEN Red ELSE Extra(t1, m)  BY <1>11
  <2> QED BY ONLY <2>1, <2>2, <2>3, <2>4, <1>9, InsertLifts
<1>17. Turned(t, u, L)
  <2>1. Turned(t1, v, L)  BY <1>11, RecolouredTurned
  <2>2. Turned(t, v, L)  BY <2>1, <1>8, TurnedTwice
  <2> QED BY <2>2, <1>15, TurnedTwice
<1> QED BY <1>15, <1>16, <1>17 DEF Whole

------------------------------------------------------------------------------
(* The phases of the rebalancing, as the code goes through them.           *)

(* The way up of an insertion ends at the root.                            *)
LEMMA AvlRoots ==
  ASSUME NEW t, NEW L, NEW n, Placed("avl", t, L, n), Parent(t, n) = NULL,
         NEW u, u = IF t.root = NULL THEN [t EXCEPT !.root = n] ELSE t
  PROVE Whole("avl", u, L) /\ Turned(t, u, L)
<1>1. CASE Seed(t, L, n)
  <2> DEFINE h == [m \in Node |-> IF m = n THEN 1 ELSE 0]
             v == [t EXCEPT !.root = n]
  <2>0. n \in Nodes /\ n \in Node /\ n # NULL /\ TreeType(t)  BY <1>1, NodesAssumption DEF Seed, Node
  <2>1. Heights(h) /\ h[n] = 1 /\ h[NULL] = 0  BY <2>0 DEF Heights, Node
  <2> HIDE DEF h
  <2>2. u = v  BY <1>1 DEF Seed
  <2>3. GetsRoot(t, v, n)  BY <2>0, SetRoot, Zenon
  <2> HIDE DEF v
  <2>4. /\ TreeType(u) /\ u.root = n /\ Parent(u, n) = NULL /\ Extra(u, n) = 0
        /\ L = {n} /\ \A e \in Side : Child(u, n, e) = NULL
    BY <2>0, <2>2, <2>3, <1>1 DEF GetsRoot, Seed
  <2>5. \E r : Links(u, L, r)  BY <2>4, <1>1, SeedLinks
  <2>6. Tall(u, h, n)
    <3>1. \A e \in Side : Tilt(u, n, e) = 0 /\ 3 - e \in Side
      <4>1. Sign(1) * 0 = 0 /\ Sign(2) * 0 = 0  BY DEF Sign
      <4> QED BY <4>1, <2>4 DEF Tilt, Side
    <3>2. Fits(1, 0, 0, 0)  BY DEF Fits
    <3>3. \A e \in Side : Fits(h[n], Tilt(u, n, e), h[Child(u, n, e)], h[Child(u, n, 3 - e)])
      BY <2>1, <2>4, <3>1, <3>2
    <3> QED BY <3>3 DEF Tall
  <2>7. AvlWhole(u, L, h)  BY <2>1, <2>4, <2>6 DEF AvlWhole
  <2>8. Turned(t, u, L)  BY <2>4, <1>1, SeedTurned
  <2> QED BY <2>5, <2>7, <2>8 DEF Whole
<1>2. CASE Growing("avl", t, L, n)
  <2>1. PICK r : Links(t, L, r)  BY <1>2 DEF Growing
  <2>2. PICK h : AvlGrowing(t, L, h, n)  BY <1>2 DEF Growing
  <2>3. t.root # NULL /\ \A m \in L : m # NULL
    <3>1. t.root = n /\ n # NULL /\ \A m \in L : m # NULL  BY <2>1, <2>2, LinkFacts DEF AvlGrowing
    <3> QED BY <3>1
  <2>4. u = t  BY <2>3
  <2>5. AvlWhole(t, L, h)  BY <2>2, <2>3 DEF AvlGrowing, AvlWhole
  <2> QED BY <2>1, <2>4, <2>5, TurnedNot DEF Whole
<1> QED BY <1>1, <1>2 DEF Placed

(* A step up after an insertion.                                           *)
LEMMA AvlGrows ==
  ASSUME NEW t, NEW L, NEW n, Placed("avl", t, L, n), NEW p, p = Parent(t, n), p # NULL,
         NEW d, d = SideOf(t, p, n), NEW i, i = Extra(t, p) + Sign(d), NEW u, u = Mark(t, p, i)
  PROVE /\ i = 0 => Whole("avl", u, L)
        /\ i = 2 * Sign(d) => Whole("avl", Unblance(u, p, d).tree, L)
        /\ i = Sign(d) => Placed("avl", u, L, p)
        /\ Turned(t, u, L)
        /\ i = 2 * Sign(d) => Turned(t, Unblance(u, p, d).tree, L)
<1>1. Growing("avl", t, L, n)  BY DEF Placed, Seed
<1>2. PICK r : Links(t, L, r)  BY <1>1 DEF Growing
<1>3. PICK h : AvlGrowing(t, L, h, n)  BY <1>1 DEF Growing
<1>4. ASSUME i = 0 PROVE Whole("avl", u, L)
  <2>1. Extra(t, p) + Sign(d) = 0 /\ u = Mark(t, p, 0)  BY <1>4
  <2>2. Links(u, L, r) /\ AvlWhole(u, L, h)  BY ONLY <2>1, <1>2, <1>3, p = Parent(t, n), p # NULL, d = SideOf(t, p, n), GrowLevels
  <2> QED BY <2>2 DEF Whole
<1>5. ASSUME i = 2 * Sign(d) PROVE Whole("avl", Unblance(u, p, d).tree, L) /\ Turned(t, Unblance(u, p, d).tree, L)
  <2> DEFINE w == Unblance(Mark(t, p, i), p, d)
  <2>1. w = Unblance(Mark(t, p, i), p, d) /\ w = Unblance(u, p, d)  OBVIOUS
  <2> HIDE DEF w
  <2>2. (\E r2 : Links(w.tree, L, r2)) /\ Turned(t, w.tree, L) /\ \E h2 : AvlWhole(w.tree, L, h2)  BY <2>1, <1>2, <1>3, <1>5, GrowRebuilds
  <2> QED BY <2>1, <2>2 DEF Whole
<1>6. ASSUME i = Sign(d) PROVE Placed("avl", u, L, p)
  <2>1. Links(u, L, r) /\ \E h2 : AvlGrowing(u, L, h2, p)  BY <1>2, <1>3, <1>6, GrowTilts
  <2>2. p \in L  BY <2>1 DEF AvlGrowing
  <2> QED BY <2>1, <2>2 DEF Placed, Growing
<1>7. Turned(t, u, L)
  <2>1. n \in L  BY <1>3 DEF AvlGrowing
  <2>2. p \in L  BY <2>1, <1>2, SideFacts
  <2>3. Extra(t, p) \in Int  BY <2>2, <1>2, LinkFacts
  <2>4. i \in Int  BY <2>3 DEF Sign
  <2>5. Recoloured(t, u)  BY <2>2, <2>4, <1>2, MarkedLinks
  <2> QED BY <2>5, RecolouredTurned
<1> QED BY <1>4, <1>5, <1>6, <1>7

(* A red sibling of where a black is missing.                              *)
LEMMA RbtTurnsSibling ==
  ASSUME NEW t, NEW L, NEW r, Links(t, L, r), NEW h, NEW p, NEW s, RbtLacking(t, L, h, p, s), is_red(t, s),
         NEW d, d = SideOf(t, p, s), NEW u, u = Rotate(Mark(Mark(t, s, Black), p, Red), p, d),
         NEW q, q = [at |-> "rbt_case3", p |-> p, s |-> Child(u, p, d)]
  PROVE Settling("rbt", u, L, q) /\ Turned(t, u, L)
<1> DEFINE v == Mark(Mark(t, s, Black), p, Red)
<1>1. /\ p \in L /\ s \in L /\ p = Parent(t, s) /\ p # NULL /\ s # NULL /\ p # s /\ Black \in Int /\ Red \in Int
      /\ TreeType(t) /\ \A m \in L : m \in Nodes
  <2>1. p \in L /\ s \in L /\ p = Parent(t, s)  BY DEF RbtLacking
  <2>2. p # NULL /\ s # NULL /\ TreeType(t) /\ \A m \in L : m \in Nodes  BY <2>1, LinkFacts
  <2>3. r[p] < r[s] /\ r[p] \in Nat /\ r[s] \in Nat  BY <2>1, <2>2, LinkFacts
  <2>4. p # s  BY <2>3
  <2> QED BY <2>1, <2>2, <2>4 DEF Black, Red
<1>2. d \in Side /\ Child(t, p, d) = s  BY <1>1, SideFacts
<1>3. u = Rotate(v, p, d) /\ v = Mark(Mark(t, s, Black), p, Red)  OBVIOUS
<1> HIDE DEF v
<1>4. /\ Recoloured(t, v)
      /\ \A m \in L : Extra(v, m) = IF m = p THEN Red ELSE IF m = s THEN Black ELSE Extra(t, m)
  <2>1. /\ Recoloured(t, v) /\ Extra(v, s) = Black /\ Extra(v, p) = Red
        /\ \A m \in Nodes \ {s, p} : Extra(v, m) = Extra(t, m)
    BY <1>1, <1>3, TwoMarks
  <2> QED BY <2>1, <1>1
<1>5. Links(v, L, r) /\ Child(v, p, d) = s  BY <1>1, <1>2, <1>4, RecolouredLinks DEF Recoloured
<1>6. Rotated(v, u, L, p, d, s, Child(v, s, 3 - d))
  <2>1. Rotated(v, Rotate(v, p, d), L, p, d, Child(v, p, d), Child(v, Child(v, p, d), 3 - d))
    BY <1>1, <1>2, <1>5, RotateIs
  <2> QED BY <2>1, <1>3, <1>5
<1>7. (\E r2 : Links(u, L, r2)) /\ Turned(v, u, L)
  <2> DEFINE x == Child(v, s, 3 - d)
  <2>1. Rotated(v, u, L, p, d, s, x) /\ x = Child(v, s, 3 - d)  BY <1>6
  <2> HIDE DEF x
  <2> QED BY <2>1, <1>1, <1>2, <1>5, RotatedLinks, RotatedTurned
<1> DEFINE c == Child(u, p, d)
<1>8. \E h2 : RbtLacking(u, L, h2, p, c) /\ is_black(u, c)
  BY <1>2, <1>4, <1>6, DeleteTurnsSibling
<1>9. q = [at |-> "rbt_case3", p |-> p, s |-> c]  OBVIOUS
<1> HIDE DEF c
<1>10. Lacks(u, L, q)  BY <1>8, <1>9 DEF Lacks
<1>11. Turned(t, u, L)
  <2>1. Turned(t, v, L)  BY <1>4, RecolouredTurned
  <2> QED BY <2>1, <1>7, TurnedTwice
<1> QED BY <1>7, <1>10, <1>11 DEF Settling

(* case3 and case1: the sibling becomes red, the parent black.             *)
LEMMA RbtSinks ==
  ASSUME NEW t, NEW L, NEW r, Links(t, L, r), NEW h, NEW p, NEW s, RbtLacking(t, L, h, p, s), is_black(t, s),
         \A e \in Side : is_black(t, Child(t, s, e)),
         NEW u, u = Mark(Mark(t, s, Red), p, Black), NEW g, g = Parent(t, p),
         NEW q, q = IF is_red(t, p) \/ g = NULL THEN [at |-> "erased"]
                    ELSE [at |-> "rbt_case2", p |-> g, s |-> Sibling(t, g, p)]
  PROVE Settling("rbt", u, L, q) /\ Turned(t, u, L)
<1>1. /\ p \in L /\ s \in L /\ p = Parent(t, s) /\ p # NULL /\ s # NULL /\ p # s /\ Black \in Int /\ Red \in Int
      /\ TreeType(t) /\ \A m \in L : m \in Nodes
  <2>1. p \in L /\ s \in L /\ p = Parent(t, s)  BY DEF RbtLacking
  <2>2. p # NULL /\ s # NULL /\ TreeType(t) /\ \A m \in L : m \in Nodes  BY <2>1, LinkFacts
  <2>3. r[p] < r[s] /\ r[p] \in Nat /\ r[s] \in Nat  BY <2>1, <2>2, LinkFacts
  <2>4. p # s  BY <2>3
  <2> QED BY <2>1, <2>2, <2>4 DEF Black, Red
<1>2. /\ Recoloured(t, u)
      /\ \A m \in L : Extra(u, m) = IF m = p THEN Black ELSE IF m = s THEN Red ELSE Extra(t, m)
  <2>1. /\ Recoloured(t, u) /\ Extra(u, s) = Red /\ Extra(u, p) = Black
        /\ \A m \in Nodes \ {s, p} : Extra(u, m) = Extra(t, m)
    BY <1>1, TwoMarks
  <2> QED BY <2>1, <1>1
<1>3. Links(u, L, r)  BY <1>2, RecolouredLinks
<1>4. PICK h2 :
          /\ is_red(t, p) \/ Parent(t, p) = NULL => RbtWhole(u, L, h2)
          /\ \A e \in Side : is_black(t, p) /\ Parent(t, p) # NULL /\ Child(t, Parent(t, p), e) = p
               => RbtLacking(u, L, h2, Parent(t, p), Child(t, Parent(t, p), 3 - e))
  BY <1>2, DeleteSinks
<1>5. ASSUME is_red(t, p) \/ g = NULL PROVE Settling("rbt", u, L, q)
  <2>1. RbtWhole(u, L, h2) /\ q = [at |-> "erased"]  BY <1>4, <1>5
  <2> QED BY <2>1, <1>3 DEF Settling, Whole
<1>6. ASSUME ~(is_red(t, p) \/ g = NULL) PROVE Settling("rbt", u, L, q)
  <2> DEFINE b == Sibling(t, g, p)
             e == SideOf(t, g, p)
  <2>1. e \in Side /\ Child(t, g, e) = p  BY <1>1, <1>6, SideFacts
  <2>2. is_black(t, p) /\ Parent(t, p) # NULL  BY <1>6 DEF is_black
  <2>3. RbtLacking(u, L, h2, g, Child(t, g, 3 - e))  BY <2>1, <2>2, <1>4
  <2>4. q = [at |-> "rbt_case2", p |-> g, s |-> b] /\ b = Child(t, g, 3 - e)  BY <1>6 DEF Sibling
  <2> HIDE DEF b, e
  <2>5. Lacks(u, L, q)  BY <2>3, <2>4 DEF Lacks
  <2> QED BY <2>5, <1>3 DEF Settling
<1>7. Turned(t, u, L)  BY <1>2, RecolouredTurned
<1> QED BY <1>5, <1>6, <1>7

(* case6: the outer nephew is red, its parent takes the place of p.        *)
LEMMA RbtDeleteLifts ==
  ASSUME NEW t, NEW L, NEW r, Links(t, L, r), NEW h, NEW p, NEW s, RbtLacking(t, L, h, p, s), is_black(t, s),
         NEW d \in Side, Child(t, p, d) = s, NEW x, x = Child(t, s, d), is_red(t, x),
         NEW u, u = Rotate(Mark(Mark(Mark(t, s, Extra(t, p)), p, Black), x, Black), p, d)
  PROVE Whole("rbt", u, L) /\ Turned(t, u, L)
<1> DEFINE i == Extra(t, p)
           v == Mark(Mark(Mark(t, s, i), p, Black), x, Black)
<1>1. /\ p \in L /\ s \in L /\ x \in L /\ p # s /\ x # p /\ x # s /\ s # NULL
      /\ Black \in Int /\ i \in Int /\ TreeType(t) /\ \A m \in L : m \in Nodes
  <2>1. p \in L /\ s \in L /\ p = Parent(t, s)  BY DEF RbtLacking
  <2>2. p # NULL /\ s # NULL /\ TreeType(t) /\ i \in Int /\ \A m \in L : m \in Nodes  BY <2>1, LinkFacts
  <2>3. r[p] < r[s] /\ r[p] \in Nat /\ r[s] \in Nat  BY <2>1, <2>2, LinkFacts
  <2>4. x # NULL  BY DEF is_red
  <2>5. x \in L /\ r[s] < r[x] /\ r[x] \in Nat  BY <2>1, <2>4, LinkFacts
  <2>6. p # s /\ x # p /\ x # s  BY <2>3, <2>5
  <2> QED BY <2>1, <2>2, <2>5, <2>6 DEF Black
<1>2. u = Rotate(v, p, d) /\ v = Mark(Mark(Mark(t, s, i), p, Black), x, Black) /\ i = Extra(t, p)  OBVIOUS
<1> HIDE DEF v, i
<1>3. /\ Recoloured(t, v)
      /\ \A m \in L : Extra(v, m) = IF m = x THEN Black ELSE IF m = p THEN Black
                                    ELSE IF m = s THEN Extra(t, p) ELSE Extra(t, m)
  <2>1. /\ Recoloured(t, v) /\ Extra(v, s) = i /\ Extra(v, p) = Black /\ Extra(v, x) = Black
        /\ \A m \in Nodes \ {s, p, x} : Extra(v, m) = Extra(t, m)
    BY <1>1, <1>2, ThreeMarks
  <2> QED BY <2>1, <1>1, <1>2
<1>5. Links(v, L, r) /\ Child(v, p, d) = s  BY <1>1, <1>3, RecolouredLinks DEF Recoloured
<1>6. Rotated(v, u, L, p, d, s, Child(v, s, 3 - d))
  <2>1. Rotated(v, Rotate(v, p, d), L, p, d, Child(v, p, d), Child(v, Child(v, p, d), 3 - d))
    BY <1>1, <1>5, RotateIs
  <2> QED BY <2>1, <1>2, <1>5
<1>7. (\E r2 : Links(u, L, r2)) /\ Turned(v, u, L)
  <2> DEFINE y == Child(v, s, 3 - d)
  <2>1. Rotated(v, u, L, p, d, s, y) /\ y = Child(v, s, 3 - d)  BY <1>6
  <2> HIDE DEF y
  <2> QED BY <2>1, <1>1, <1>5, RotatedLinks, RotatedTurned
<1>8. \E h2 : RbtWhole(u, L, h2)  BY <1>3, <1>6, DeleteLifts
<1>9. Turned(t, u, L)
  <2>1. Turned(t, v, L)  BY <1>3, RecolouredTurned
  <2> QED BY <2>1, <1>7, TurnedTwice
<1> QED BY <1>7, <1>8, <1>9 DEF Whole

(* case5, then case6.                                                      *)
LEMMA RbtTurnsNephew ==
  ASSUME NEW t, NEW L, NEW r, Links(t, L, r), NEW h, NEW p, NEW s, RbtLacking(t, L, h, p, s), is_black(t, s),
         NEW d \in Side, Child(t, p, d) = s, NEW dd, dd = 3 - d, NEW x, x = Child(t, s, dd), is_red(t, x),
         is_black(t, Child(t, s, d)),
         NEW u, u = Rotate(Mark(Mark(t, s, Red), x, Black), s, dd)
  PROVE /\ (\E r2 : Links(u, L, r2)) /\ Turned(t, u, L)
        /\ \E h2 : RbtLacking(u, L, h2, p, x) /\ is_black(u, x)
                   /\ Child(u, p, d) = x /\ Child(u, x, d) = s /\ is_red(u, s)
<1> DEFINE v == Mark(Mark(t, s, Red), x, Black)
<1>0. dd \in Side /\ dd # d /\ 3 - dd = d  BY DEF Side
<1>1. /\ s \in L /\ x \in L /\ x # s /\ x # NULL
      /\ Black \in Int /\ Red \in Int /\ TreeType(t) /\ \A m \in L : m \in Nodes
  <2>1. s \in L  BY DEF RbtLacking
  <2>4. x # NULL  BY DEF is_red
  <2>5. x \in L /\ x # s /\ TreeType(t) /\ \A m \in L : m \in Nodes  BY <2>1, <2>4, <1>0, LinkFacts
  <2> QED BY <2>1, <2>4, <2>5 DEF Black, Red
<1>2. u = Rotate(v, s, dd) /\ v = Mark(Mark(t, s, Red), x, Black)  OBVIOUS
<1> HIDE DEF v
<1>3. /\ Recoloured(t, v)
      /\ \A m \in L : Extra(v, m) = IF m = s THEN Red ELSE IF m = x THEN Black ELSE Extra(t, m)
  <2>1. /\ Recoloured(t, v) /\ Extra(v, s) = Red /\ Extra(v, x) = Black
        /\ \A m \in Nodes \ {s, x} : Extra(v, m) = Extra(t, m)
    BY <1>1, <1>2, TwoMarks
  <2> QED BY <2>1, <1>1
<1>5. Links(v, L, r) /\ Child(v, s, dd) = x  BY <1>0, <1>1, <1>3, RecolouredLinks DEF Recoloured
<1> DEFINE y == Child(v, x, 3 - dd)
<1>6. Rotated(v, u, L, s, dd, x, y) /\ y = Child(v, x, 3 - dd)
  <2>1. Rotated(v, Rotate(v, s, dd), L, s, dd, Child(v, s, dd), Child(v, Child(v, s, dd), 3 - dd))
    BY <1>0, <1>1, <1>5, RotateIs
  <2> QED BY <2>1, <1>2, <1>5
<1>7. (\E r2 : Links(u, L, r2)) /\ Turned(v, u, L)
  <2> HIDE DEF y
  <2> QED BY <1>0, <1>1, <1>5, <1>6, RotatedLinks, RotatedTurned
<1>8. Rotated(v, u, L, s, 3 - d, x, Child(v, x, 3 - (3 - d)))  BY <1>6
<1>9. \E h2 : RbtLacking(u, L, h2, p, x) /\ is_black(u, x)
              /\ Child(u, p, d) = x /\ Child(u, x, d) = s /\ is_red(u, s)
  BY <1>3, <1>8, DeleteTurnsNephew
<1>10. Turned(t, u, L)
  <2>1. Turned(t, v, L)  BY <1>3, RecolouredTurned
  <2> QED BY <2>1, <1>7, TurnedTwice
<1> QED BY <1>7, <1>9, <1>10

(* adjust_delete_case6 ends the rebalancing.                               *)
LEMMA RbtDeleteLiftsAt ==
  ASSUME NEW t, NEW L, NEW r, Links(t, L, r), NEW h, NEW p, NEW s, RbtLacking(t, L, h, p, s), is_black(t, s),
         NEW d \in Side, Child(t, p, d) = s, is_red(t, Child(t, s, d)),
         NEW u, u = Rotate(Mark(Mark(Mark(t, s, Extra(t, p)), p, Black), Child(t, s, d), Black), p, d)
  PROVE Whole("rbt", u, L) /\ Turned(t, u, L)
<1> DEFINE x == Child(t, s, d)
<1>1. /\ x = Child(t, s, d) /\ is_red(t, x)
      /\ u = Rotate(Mark(Mark(Mark(t, s, Extra(t, p)), p, Black), x, Black), p, d)
  OBVIOUS
<1> HIDE DEF x
<1> QED BY <1>1, RbtDeleteLifts

(* case5 and case6.                                                        *)
LEMMA RbtSettles ==
  ASSUME NEW t, NEW L, NEW r, Links(t, L, r), NEW h, NEW p, NEW s, RbtLacking(t, L, h, p, s), is_black(t, s),
         NEW d, d = SideOf(t, p, s), NEW x, x = Child(t, s, 3 - d), NEW y, y = Child(t, s, d),
         is_red(t, x) \/ is_red(t, y),
         NEW t1, t1 = IF is_red(t, y) THEN t ELSE Rotate(Mark(Mark(t, s, Red), x, Black), s, 3 - d),
         NEW q, q = IF is_red(t, y) THEN s ELSE x,
         NEW u, u = Rotate(Mark(Mark(Mark(t1, q, Extra(t1, p)), p, Black), Child(t1, q, d), Black), p, d)
  PROVE Whole("rbt", u, L) /\ d = SideOf(t1, p, q) /\ Turned(t, u, L)
<1>1. p \in L /\ s \in L /\ p = Parent(t, s) /\ p # NULL
  <2>1. p \in L /\ s \in L /\ p = Parent(t, s)  BY DEF RbtLacking
  <2> QED BY <2>1, LinkFacts
<1>2. d \in Side /\ Child(t, p, d) = s  BY <1>1, SideFacts
<1>3. CASE is_red(t, y)
  <2>1. t1 = t /\ q = s  BY <1>3
  <2>2. RbtLacking(t1, L, h, p, q) /\ is_black(t1, q) /\ Links(t1, L, r) /\ Child(t1, p, d) = q
        /\ is_red(t1, Child(t1, q, d))
    BY <2>1, <1>2, <1>3
  <2>3. u = Rotate(Mark(Mark(Mark(t1, q, Extra(t1, p)), p, Black), Child(t1, q, d), Black), p, d)  OBVIOUS
  <2>5. Whole("rbt", u, L) /\ Turned(t1, u, L)  BY ONLY <2>2, <2>3, <1>2, RbtDeleteLiftsAt
  <2> QED BY <2>1, <2>5
<1>4. CASE ~is_red(t, y)
  <2> DEFINE dd == 3 - d
  <2>1. t1 = Rotate(Mark(Mark(t, s, Red), x, Black), s, dd) /\ q = x /\ dd = 3 - d  BY <1>4
  <2>2. x = Child(t, s, dd) /\ is_red(t, x) /\ is_black(t, Child(t, s, d))  BY <1>4 DEF is_black
  <2> HIDE DEF dd
  <2>3. RbtLacking(t, L, h, p, s) /\ is_black(t, s) /\ Links(t, L, r)  OBVIOUS
  <2>4. /\ (\E r2 : Links(t1, L, r2)) /\ Turned(t, t1, L)
        /\ \E h2 : RbtLacking(t1, L, h2, p, x) /\ is_black(t1, x)
                   /\ Child(t1, p, d) = x /\ Child(t1, x, d) = s /\ is_red(t1, s)
    BY ONLY <2>1, <2>2, <2>3, <1>2, RbtTurnsNephew
  <2>5. PICK r2 : Links(t1, L, r2)  BY <2>4
  <2>6. PICK h2 : RbtLacking(t1, L, h2, p, x) /\ is_black(t1, x)
                  /\ Child(t1, p, d) = x /\ Child(t1, x, d) = s /\ is_red(t1, s)
    BY <2>4
  <2>7. RbtLacking(t1, L, h2, p, q) /\ is_black(t1, q) /\ Child(t1, p, d) = q
        /\ is_red(t1, Child(t1, q, d))
    BY <2>1, <2>6
  <2>0. u = Rotate(Mark(Mark(Mark(t1, q, Extra(t1, p)), p, Black), Child(t1, q, d), Black), p, d)  OBVIOUS
  <2>8. Whole("rbt", u, L) /\ Turned(t1, u, L)  BY ONLY <2>0, <2>5, <2>7, <1>2, RbtDeleteLiftsAt
  <2>9. x \in L /\ p = Parent(t1, x)  BY <2>6 DEF RbtLacking
  <2>10. SideOf(t1, p, x) = d
    <3>1. x \in L /\ p = Parent(t1, x) /\ p # NULL /\ Child(t1, p, d) = x /\ d \in Side  BY <2>6, <2>9, <1>1, <1>2
    <3>2. \A e \in Side : Child(t1, p, e) = x => e = SideOf(t1, p, x)  BY ONLY <3>1, <2>5, SideFacts
    <3> QED BY <3>1, <3>2
  <2>11. Turned(t, u, L)  BY <2>4, <2>8, TurnedTwice
  <2> QED BY <2>1, <2>8, <2>10, <2>11
<1> QED BY <1>3, <1>4

(* blance_parent.                                                          *)
LEMMA PassesOn ==
  ASSUME NEW u, NEW L, NEW r, Links(u, L, r), NEW n, Passed(u, L, n), NEW p, p = Parent(u, n),
         NEW q, q = IF p = NULL THEN [at |-> "erased"] ELSE [at |-> "avl_shrunk", n |-> p, d |-> SideOf(u, p, n)]
  PROVE Settling("avl", u, L, q)
<1>1. CASE p = NULL
  <2>1. q = [at |-> "erased"] /\ \E h : AvlWhole(u, L, h)  BY <1>1 DEF Passed
  <2> QED BY <2>1 DEF Settling, Whole
<1>2. CASE p # NULL
  <2> DEFINE d == SideOf(u, p, n)
  <2>1. q = [at |-> "avl_shrunk", n |-> p, d |-> d] /\ \E h : AvlShrunk(u, L, h, p, d)  BY <1>2 DEF Passed
  <2> HIDE DEF d
  <2>2. Shrinks(u, L, q)  BY <2>1 DEF Shrinks
  <2> QED BY <2>2 DEF Settling
<1> QED BY <1>1, <1>2

(* Nothing is left to be done of a balanced tree.                          *)
LEMMA StaysErased ==
  ASSUME NEW P, NEW u, NEW L, Whole(P, u, L), NEW q, q = [at |-> "erased"]
  PROVE Settling(P, u, L, q)
BY DEF Settling, Whole

(* Memory that is no longer linked.                                        *)
LEMMA FreedWhole ==
  ASSUME NEW P, NEW t, NEW L, Whole(P, t, L), NEW g \in Nodes \ L, NEW u, u = [t EXCEPT !.node[g] = Fresh]
  PROVE Whole(P, u, L)
<1>1. PICK r : Links(t, L, r)  BY DEF Whole
<1>2. TreeType(t) /\ g \in Nodes  BY <1>1, LinkFacts
<1>3. Blank(t, u, g)
  <2> DEFINE v == [t EXCEPT !.node[g] = Fresh]
  <2>1. Blank(t, v, g)  BY <1>2, Blanks, Zenon
  <2>2. u = v  OBVIOUS
  <2> HIDE DEF v
  <2> QED BY <2>1, <2>2
<1>4. \A m \in L : m \in Nodes \ {g}  BY <1>1, LinkFacts
<1>5. /\ TreeType(u) /\ u.root = t.root
      /\ \A m \in L : /\ Parent(u, m) = Parent(t, m) /\ Extra(u, m) = Extra(t, m)
                      /\ \A e \in Side : Child(u, m, e) = Child(t, m, e)
  BY <1>3, <1>4 DEF Blank
<1>6. Links(u, L, r)  BY <1>1, <1>5 DEF Links, Side
<1>7. ASSUME NEW h, RbtWhole(t, L, h) PROVE RbtWhole(u, L, h)
  <2>1. \A m \in L : Even(u, h, m)  BY <1>5, <1>7 DEF RbtWhole, Even, Blacks
  <2>2. \A m \in L \cup {NULL} : is_red(u, m) <=> is_red(t, m)  BY <1>5 DEF is_red
  <2>3. \A m \in L : \A e \in Side : Child(t, m, e) \in L \cup {NULL}  BY <1>1, LinkFacts
  <2>4. t.root \in L \cup {NULL}  BY <1>1, LinkFacts
  <2> QED BY <2>1, <2>2, <2>3, <2>4, <1>5, <1>7 DEF RbtWhole, is_black
<1>8. ASSUME NEW h, AvlWhole(t, L, h) PROVE AvlWhole(u, L, h)
  <2>1. \A m \in L : Tall(u, h, m)  BY <1>5, <1>8, TallElsewhere DEF AvlWhole
  <2> QED BY <2>1, <1>8 DEF AvlWhole
<1> QED BY <1>6, <1>7, <1>8 DEF Whole

(* The empty tree.                                                         *)
LEMMA EmptyWhole ==
  ASSUME NEW P, NEW t, t = [root |-> NULL, node |-> [n \in Nodes |-> Fresh]]
  PROVE Whole(P, t, {})
<1> DEFINE r == [n \in Nodes |-> 0]
           h == [n \in Node |-> 0]
<1>1. Fresh \in [parent : Node, child : [Side -> Node], extra : Int]  BY DEF Fresh, Node, Side
<1>2. TreeType(t) /\ t.root = NULL
  <2> HIDE DEF Fresh
  <2> QED BY <1>1 DEF TreeType, Node
<1>3. r \in [Nodes -> Nat] /\ Heights(h)  BY DEF Heights, Node
<1> HIDE DEF r, h
<1>4. Links(t, {}, r)  BY <1>2, <1>3 DEF Links
<1>5. RbtWhole(t, {}, h)  BY <1>2, <1>3 DEF RbtWhole, is_black, is_red
<1>6. AvlWhole(t, {}, h)  BY <1>3 DEF AvlWhole
<1> QED BY <1>4, <1>5, <1>6 DEF Whole

------------------------------------------------------------------------------
(* The inductive invariant.                                                *)

(* The phases of a call, each with what holds of the tree.                 *)
Resting ==
  /\ pc = Idle /\ Whole(policy, tree, live)
  /\ call = NoCall \/ \E x : call = [op |-> "returned", ret |-> x]

Inserting ==
  /\ \E n, w : call = [op |-> "insert", n |-> n, was |-> w]
  /\ \E n : /\ pc = [at |-> IF policy = "rbt" THEN "rbt_insert" ELSE "avl_insert", n |-> n]
            /\ Placed(policy, tree, live, n)

(* The call c erases, and g is the node that it unlinked last.             *)
EraseCall(c, L, g) ==
  \/ \E o \in {"erase_equal", "erase_one"} : \E n \in L : \E k, w :
       c = [op |-> o, n |-> n, num |-> k, gone |-> g, was |-> w]
  \/ \E n, k, w : c = [op |-> "erase_last", n |-> n, num |-> k, gone |-> g, was |-> w]
  \/ \E p1 \in L \cup {NULL} : \E p2, w :
       c = [op |-> "range", p1 |-> p1, p2 |-> p2, gone |-> g, was |-> w]

Erasing ==
  /\ pc = [at |-> "erase"] /\ Whole(policy, tree, live)
  /\ \E g : g \notin live /\ EraseCall(call, live, g)
  /\ call.op = "range" => \/ call.p1 = call.p2 \/ call.p2 = NULL
                          \/ call.p1 \in live /\ call.p2 = Step(tree, call.p1, 2)

Rebalancing ==
  /\ \E g \in live : EraseCall(call, live \ {g}, g) /\ Settling(policy, tree, live \ {g}, pc)
  /\ call.op = "range" => call.p1 = call.p2 \/ call.p2 = NULL

IInv ==
  /\ policy \in {"rbt", "avl"} /\ multi \in BOOLEAN /\ live \subseteq Nodes
  /\ Resting \/ Inserting \/ Erasing \/ Rebalancing

(* What is left to be done, by the case that the code is at.               *)
LEMMA SettlingAt ==
  ASSUME NEW P, NEW t, NEW L, NEW q, Settling(P, t, L, q)
  PROVE \/ q.at = "erased" /\ q = [at |-> "erased"] /\ Whole(P, t, L)
        \/ P = "rbt" /\ q.at \in {"rbt_case2", "rbt_case3"} /\ Lacks(t, L, q)
        \/ P = "avl" /\ q.at = "avl_shrunk" /\ Shrinks(t, L, q)
BY DEF Settling, Lacks, Shrinks

(* Which calls erase.                                                      *)
LEMMA EraseOp ==
  ASSUME NEW c, NEW L, NEW g, EraseCall(c, L, g)
  PROVE c.op \in {"erase_equal", "erase_one", "erase_last", "range"} /\ c.gone = g /\ "gone" \in DOMAIN c
BY DEF EraseCall

(* Where the call is tells the phase.                                      *)
LEMMA PhaseIs ==
  ASSUME IInv
  PROVE /\ pc.at = "rbt_insert" => policy = "rbt" /\ Inserting
        /\ pc.at = "avl_insert" => policy = "avl" /\ Inserting
        /\ pc.at \in {"erased", "rbt_case2", "rbt_case3", "avl_shrunk"} => Rebalancing
        /\ pc.at = "erase" => Erasing
        /\ call = NoCall \/ call.op = "returned" => Resting
        /\ pc.at \in {"idle", "rbt_insert", "avl_insert", "erase", "erased", "rbt_case2", "rbt_case3", "avl_shrunk"}
<1>1. CASE Resting
  <2>1. pc.at = "idle"  BY <1>1 DEF Resting, Idle
  <2> QED BY <1>1, <2>1
<1>2. CASE Inserting
  <2>1. pc.at = IF policy = "rbt" THEN "rbt_insert" ELSE "avl_insert"  BY <1>2 DEF Inserting
  <2>2. call.op = "insert" /\ call # NoCall  BY <1>2 DEF Inserting, NoCall
  <2> QED BY <1>2, <2>1, <2>2 DEF IInv
<1>3. CASE Erasing
  <2>1. pc.at = "erase"  BY <1>3 DEF Erasing
  <2>2. call.op \in {"erase_equal", "erase_one", "erase_last", "range"}  BY <1>3, EraseOp DEF Erasing
  <2>3. call # NoCall  BY <2>2 DEF NoCall
  <2> QED BY <1>3, <2>1, <2>2, <2>3
<1>4. CASE Rebalancing
  <2>1. PICK g \in live : EraseCall(call, live \ {g}, g) /\ Settling(policy, tree, live \ {g}, pc)
    BY <1>4 DEF Rebalancing
  <2>2. pc.at \in {"erased", "rbt_case2", "rbt_case3", "avl_shrunk"}  BY <2>1, SettlingAt
  <2>3. call.op \in {"erase_equal", "erase_one", "erase_last", "range"}  BY <2>1, EraseOp
  <2>4. call # NoCall  BY <2>3 DEF NoCall
  <2> QED BY <1>4, <2>2, <2>3, <2>4
<1> QED BY <1>1, <1>2, <1>3, <1>4 DEF IInv

(* A tree has no nodes but those that the allocator gave.                  *)
LEMMA TreeNodes ==
  ASSUME NEW P, NEW t, NEW L, NEW n, Whole(P, t, L) \/ Placed(P, t, L, n)
  PROVE L \subseteq Nodes
BY DEF Whole, Placed, Seed, Growing, Links

(* How a step reaches each phase.                                          *)
LEMMA ToResting ==
  ASSUME IInv, policy' = policy, multi' = multi, Whole(policy, tree', live'), NEW x, Return(x)
  PROVE IInv'
BY TreeNodes DEF IInv, Resting, Return

(* to a turn of the rebalancing after an insertion,                        *)
LEMMA ToInserting ==
  ASSUME IInv, policy' = policy, multi' = multi, NEW n, NEW w, call' = [op |-> "insert", n |-> n, was |-> w],
         NEW m, pc' = [at |-> IF policy = "rbt" THEN "rbt_insert" ELSE "avl_insert", n |-> m],
         Placed(policy, tree', live', m)
  PROVE IInv'
BY TreeNodes DEF IInv, Inserting

(* to the loop of the calls that erase,                                    *)
LEMMA ToErasing ==
  ASSUME IInv, policy' = policy, multi' = multi, pc' = [at |-> "erase"], Whole(policy, tree', live'),
         NEW g, g \notin live', EraseCall(call', live', g),
         call'.op = "range" => \/ call'.p1 = call'.p2 \/ call'.p2 = NULL
                               \/ call'.p1 \in live' /\ call'.p2 = Step(tree', call'.p1, 2)
  PROVE IInv'
BY TreeNodes DEF IInv, Erasing

(* and to a turn of the rebalancing after do_erase.                        *)
LEMMA ToRebalancing ==
  ASSUME IInv, policy' = policy, multi' = multi, live' = live,
         NEW g \in live, EraseCall(call', live \ {g}, g), Settling(policy, tree', live \ {g}, pc'),
         call'.op = "range" => call'.p1 = call'.p2 \/ call'.p2 = NULL
  PROVE IInv'
BY DEF IInv, Rebalancing

(* An empty container is at rest.                                          *)
LEMMA Initially ==
  ASSUME Init
  PROVE IInv
<1>1. Whole(policy, tree, {})  BY EmptyWhole DEF Init
<1> QED BY <1>1 DEF Init, IInv, Resting

(* An insertion: the search ends where there is room.                      *)
LEMMA SeedPlanted ==
  ASSUME NEW P, NEW t, NEW L, NEW r, Links(t, L, r), t.root = NULL, NEW n \in Nodes,
         NEW u, u = [t EXCEPT !.node[n] = Fresh]
  PROVE Placed(P, u, L \cup {n}, n)
<1>1. TreeType(t) /\ L = {}  BY NodesAssumption DEF Links
<1>2. Blank(t, u, n)
  <2> DEFINE v == [t EXCEPT !.node[n] = Fresh]
  <2>1. Blank(t, v, n)  BY <1>1, Blanks, Zenon
  <2>2. u = v  OBVIOUS
  <2> HIDE DEF v
  <2> QED BY <2>1, <2>2
<1>3. Seed(u, {n}, n)  BY <1>2 DEF Blank, Seed
<1>4. L \cup {n} = {n}  BY <1>1
<1> QED BY <1>3, <1>4 DEF Placed

(* Where insert links a node, the rebalancing of either policy can begin.  *)
LEMMA LeafPlanted ==
  ASSUME NEW P, NEW t, NEW L, Whole(P, t, L), NEW n \in Nodes \ L, NEW p \in L, NEW d \in Side,
         Child(t, p, d) = NULL, NEW u, u = SetChild([t EXCEPT !.node[n] = Fresh], p, d, n)
  PROVE Placed(P, u, L \cup {n}, n)
<1>1. PICK r : Links(t, L, r)  BY DEF Whole
<1>2. Planted(t, u, L, p, d, n)  BY <1>1, Plants
<1>3. \E r2 : Links(u, L \cup {n}, r2)  BY <1>1, <1>2, PlantedLinks
<1>4. P = "rbt" => \E h : RbtGrowing(u, L \cup {n}, h, n)  BY <1>1, <1>2, PlantedRbt DEF Whole
<1>5. P = "avl" => \E h : AvlGrowing(u, L \cup {n}, h, n)  BY <1>1, <1>2, PlantedAvl DEF Whole
<1>6. n \in L \cup {n}  OBVIOUS
<1> QED BY <1>3, <1>4, <1>5, <1>6 DEF Placed, Growing

(* The steps, one by one: the operations that a client calls,              *)
LEMMA InsertKeeps ==
  ASSUME IInv, NEW n \in Nodes, insert(n)
  PROVE IInv'
<1> DEFINE k == Key[n]
           p == Locate(tree, k, multi)
           t == [tree EXCEPT !.node[n] = Fresh]
           d == IF k < Key[p] THEN 1 ELSE 2
           old == tree.root # NULL /\ ~multi /\ Find(tree, k) # NULL
<1>1. call = NoCall /\ n \notin live /\ UNCHANGED <<policy, multi>>  BY DEF insert, Ready
<1>2. Whole(policy, tree, live) /\ multi \in BOOLEAN  BY <1>1, PhaseIs DEF Resting, IInv
<1>3. PICK r : Links(tree, live, r)  BY <1>2 DEF Whole
<1>4. k \in Nat  BY KeyAssumption
<1>5. CASE old
  <2>1. Return(<<Find(tree, k), FALSE>>) /\ UNCHANGED tree /\ UNCHANGED live  BY <1>5 DEF insert
  <2>2. Whole(policy, tree', live')  BY <2>1, <1>2
  <2> QED BY <2>1, <2>2, <1>1, ToResting
<1>6. CASE ~old
  <2>1. /\ call' = [op |-> "insert", n |-> n, was |-> Was]
        /\ tree' = IF t.root = NULL THEN t ELSE SetChild(t, p, d, n)
        /\ live' = live \cup {n}
        /\ pc' = [at |-> IF policy = "rbt" THEN "rbt_insert" ELSE "avl_insert", n |-> n]
    BY <1>6 DEF insert
  <2>2. t.root = tree.root
    <3>1. TreeType(tree)  BY <1>3, LinkFacts
    <3>2. Blank(tree, t, n)  BY <3>1, Blanks, Zenon
    <3> QED BY <3>2 DEF Blank
  <2>3. Placed(policy, tree', live', n)
    <3>1. CASE tree.root = NULL
      <4>1. tree' = [tree EXCEPT !.node[n] = Fresh]  BY <2>1, <2>2, <3>1
      <4>2. Placed(policy, tree', live \cup {n}, n)  BY <4>1, <3>1, <1>3, SeedPlanted
      <4> QED BY <4>2, <2>1
    <3>2. CASE tree.root # NULL
      <4>1. /\ p \in live
            /\ k < Key[p] => Child(tree, p, 1) = NULL
            /\ Key[p] < k => Child(tree, p, 2) = NULL
            /\ multi /\ ~(k < Key[p]) => Child(tree, p, 2) = NULL
        BY <3>2, <1>2, <1>3, <1>4, LocateIs
      <4>2. ~multi => Key[p] # k
        <5>1. Find(tree, k) = NULL => Key[Locate(tree, k, FALSE)] # k  BY <3>2, <1>3, <1>4, FindIs
        <5>2. ~multi => multi = FALSE  BY <1>2
        <5> QED BY <5>1, <5>2, <3>2, <1>6
      <4>3. Key[p] \in Nat
        <5>1. p \in Nodes  BY <4>1, <1>3, LinkFacts
        <5> QED BY <5>1, KeyAssumption
      <4>4. d \in Side /\ Child(tree, p, d) = NULL
        <5>1. CASE k < Key[p]  BY <5>1, <4>1 DEF Side
        <5>2. CASE ~(k < Key[p])
          <6>1. d = 2  BY <5>2
          <6>2. multi \/ Key[p] < k  BY <5>2, <4>2, <4>3, <1>4
          <6> QED BY <6>1, <6>2, <5>2, <4>1 DEF Side
        <5> QED BY <5>1, <5>2
      <4>5. tree' = SetChild([tree EXCEPT !.node[n] = Fresh], p, d, n)  BY <2>1, <2>2, <3>2
      <4> HIDE DEF p, d, t
      <4>6. n \in Nodes \ live  BY <1>1
      <4>7. Placed(policy, tree', live \cup {n}, n)  BY <4>1, <4>4, <4>5, <4>6, <1>2, LeafPlanted
      <4> QED BY <4>7, <2>1
    <3> QED BY <3>1, <3>2
  <2> QED BY <2>1, <2>3, <1>1, ToInserting
<1> QED BY <1>5, <1>6

(* clear,                                                                  *)
LEMMA ClearKeeps ==
  ASSUME IInv, clear
  PROVE IInv'
<1>1. /\ tree' = [root |-> NULL, node |-> [n \in Nodes |-> Fresh]]
      /\ live' = {} /\ Return(<<NULL>>) /\ UNCHANGED <<policy, multi>>
  BY DEF clear
<1>2. Whole(policy, tree', {})  BY <1>1, EmptyWhole
<1>3. Whole(policy, tree', live')  BY <1>1, <1>2
<1> QED BY <1>1, <1>3, ToResting

(* the return of a call;                                                   *)
LEMMA TakeKeeps ==
  ASSUME IInv, take
  PROVE IInv'
<1>1. Resting  BY PhaseIs DEF take
<1> QED BY <1>1 DEF take, IInv, Resting

(* A step of the red-black policy that inserts.                            *)
LEMMA RbtInsertKeeps ==
  ASSUME IInv, adjust_insert_case1 \/ adjust_insert_case2 \/ adjust_insert_case3 \/ adjust_insert_case5
  PROVE IInv' /\ Turned(tree, tree', live)
<1>1. pc.at = "rbt_insert" /\ UNCHANGED <<policy, multi, live>>
  BY DEF adjust_insert_case1, adjust_insert_case2, adjust_insert_case3, adjust_insert_case5, AtRbtInsert
<1>2. policy = "rbt" /\ Inserting  BY <1>1, PhaseIs
<1>3. PICK n : pc = [at |-> "rbt_insert", n |-> n] /\ Placed("rbt", tree, live, n)  BY <1>2 DEF Inserting
<1>4. PICK m, w : call = [op |-> "insert", n |-> m, was |-> w]  BY <1>2 DEF Inserting
<1>5. rbt_n = n /\ rbt_p = Parent(tree, n) /\ rbt_g = Parent(tree, Parent(tree, n))
  BY <1>3 DEF rbt_n, rbt_p, rbt_g
<1> DEFINE p == Parent(tree, n)
           g == Parent(tree, p)
<1>6. ASSUME Inserted, Whole("rbt", tree', live) PROVE IInv'
  <2>1. Whole(policy, tree', live')  BY <1>1, <1>2, <1>6
  <2>2. Return(<<call.n, TRUE>>)  BY <1>6 DEF Inserted
  <2> QED BY <2>1, <2>2, <1>1, ToResting
<1>7. CASE adjust_insert_case1
  <2>1. p = NULL /\ tree' = Mark([tree EXCEPT !.root = n], n, Black) /\ Inserted
    BY <1>5, <1>7 DEF adjust_insert_case1
  <2>2. Whole("rbt", tree', live) /\ Turned(tree, tree', live)  BY <2>1, <1>3, RbtRoots
  <2> QED BY <2>1, <2>2, <1>6
<1>8. CASE adjust_insert_case2
  <2>1. p # NULL /\ is_black(tree, p) /\ Inserted /\ tree' = tree
    BY <1>5, <1>8 DEF adjust_insert_case2
  <2>2. Whole("rbt", tree, live) /\ Turned(tree, tree', live)  BY <2>1, <1>3, RbtStays, TurnedNot
  <2> QED BY <2>1, <2>2, <1>6
<1>9. CASE adjust_insert_case3
  <2>1. /\ is_red(tree, p) /\ is_red(tree, Sibling(tree, g, p))
        /\ tree' = Mark(Mark(Mark(tree, Child(tree, g, 1), Black), Child(tree, g, 2), Black), g, Red)
        /\ pc' = [pc EXCEPT !.n = g] /\ call' = call
    BY <1>5, <1>9 DEF adjust_insert_case3
  <2>2. Placed("rbt", tree', live, g) /\ Turned(tree, tree', live)  BY <2>1, <1>3, RbtRises
  <2>3. pc' = [at |-> IF policy = "rbt" THEN "rbt_insert" ELSE "avl_insert", n |-> g]
    BY <2>1, <1>2, <1>3
  <2>4. Placed(policy, tree', live', g)  BY <2>2, <1>1, <1>2
  <2>5. call' = [op |-> "insert", n |-> m, was |-> w]  BY <2>1, <1>4
  <2> HIDE DEF g
  <2>6. IInv'  BY <2>3, <2>4, <2>5, <1>1, ToInserting
  <2> QED BY <2>2, <2>6
<1>10. CASE adjust_insert_case5
  <2> DEFINE d == SideOf(tree, g, p)
             inner == SideOf(tree, p, n) # d
             t == IF inner THEN Rotate(tree, p, 3 - d) ELSE tree
             q == IF inner THEN n ELSE p
  <2>1. /\ is_red(tree, p) /\ is_black(tree, Sibling(tree, g, p))
        /\ tree' = Rotate(Mark(Mark(t, q, Black), g, Red), g, d) /\ Inserted
    BY <1>5, <1>10 DEF adjust_insert_case5
  <2>2. Whole("rbt", tree', live) /\ Turned(tree, tree', live)  BY <2>1, <1>3, RbtLifts
  <2> QED BY <2>1, <2>2, <1>6
<1> QED BY <1>7, <1>8, <1>9, <1>10

(* A step of the AVL policy that inserts.                                  *)
LEMMA AvlInsertKeeps ==
  ASSUME IInv, AvlRoot \/ AvlGrow
  PROVE IInv' /\ Turned(tree, tree', live)
<1>1. pc.at = "avl_insert" /\ UNCHANGED <<policy, multi, live>>
  BY DEF AvlRoot, AvlGrow, AtAvlInsert
<1>2. policy = "avl" /\ Inserting  BY <1>1, PhaseIs
<1>3. PICK n : pc = [at |-> "avl_insert", n |-> n] /\ Placed("avl", tree, live, n)  BY <1>2 DEF Inserting
<1>4. PICK m, w : call = [op |-> "insert", n |-> m, was |-> w]  BY <1>2 DEF Inserting
<1> DEFINE p == Parent(tree, n)
           d == SideOf(tree, p, n)
           i == Extra(tree, p) + Sign(d)
           t == Mark(tree, p, i)
<1>6. ASSUME Inserted, Whole("avl", tree', live) PROVE IInv'
  <2>1. Whole(policy, tree', live')  BY <1>1, <1>2, <1>6
  <2>2. Return(<<call.n, TRUE>>)  BY <1>6 DEF Inserted
  <2> QED BY <2>1, <2>2, <1>1, ToResting
<1>7. CASE AvlRoot
  <2>1. p = NULL /\ Inserted /\ tree' = IF tree.root = NULL THEN [tree EXCEPT !.root = n] ELSE tree
    BY <1>3, <1>7 DEF AvlRoot
  <2>2. Whole("avl", tree', live) /\ Turned(tree, tree', live)  BY <2>1, <1>3, AvlRoots
  <2> QED BY <2>1, <2>2, <1>6
<1>8. CASE AvlGrow
  <2>1. /\ p # NULL
        /\ \/ i = 0 /\ tree' = t /\ Inserted
           \/ i = 2 * Sign(d) /\ tree' = Unblance(t, p, d).tree /\ Inserted
           \/ i = Sign(d) /\ tree' = t /\ pc' = [pc EXCEPT !.n = p] /\ call' = call
    BY <1>3, <1>8 DEF AvlGrow
  <2>2. /\ i = 0 => Whole("avl", t, live)
        /\ i = 2 * Sign(d) => Whole("avl", Unblance(t, p, d).tree, live)
        /\ i = Sign(d) => Placed("avl", t, live, p)
        /\ Turned(tree, t, live)
        /\ i = 2 * Sign(d) => Turned(tree, Unblance(t, p, d).tree, live)
    BY <2>1, <1>3, AvlGrows
  <2> HIDE DEF i, t, d
  <2>3. CASE i = 0 /\ tree' = t /\ Inserted  BY <2>2, <2>3, <1>6
  <2>4. CASE i = 2 * Sign(d) /\ tree' = Unblance(t, p, d).tree /\ Inserted  BY <2>2, <2>4, <1>6
  <2>5. CASE i = Sign(d) /\ tree' = t /\ pc' = [pc EXCEPT !.n = p] /\ call' = call
    <3>1. Placed(policy, tree', live', p)  BY <2>2, <2>5, <1>1, <1>2
    <3>2. pc' = [at |-> IF policy = "rbt" THEN "rbt_insert" ELSE "avl_insert", n |-> p]
      BY <2>5, <1>2, <1>3
    <3>3. call' = [op |-> "insert", n |-> m, was |-> w]  BY <2>5, <1>4
    <3> HIDE DEF p
    <3>4. IInv'  BY <3>1, <3>2, <3>3, <1>1, ToInserting
    <3> QED BY <3>4, <2>2, <2>5
  <2> QED BY <2>1, <2>3, <2>4, <2>5
<1> QED BY <1>7, <1>8

(* A step that rebalances after a node was unlinked leaves the call alone. *)
LEMMA SettlesOn ==
  ASSUME IInv, UNCHANGED <<policy, multi, live, call>>, NEW g \in live, EraseCall(call, live \ {g}, g),
         call.op = "range" => call.p1 = call.p2 \/ call.p2 = NULL,
         Settling(policy, tree', live \ {g}, pc')
  PROVE IInv'
<1>1. EraseCall(call', live \ {g}, g)  OBVIOUS
<1>2. call'.op = "range" => call'.p1 = call'.p2 \/ call'.p2 = NULL  OBVIOUS
<1>3. policy' = policy /\ multi' = multi /\ live' = live  OBVIOUS
<1> QED BY ONLY <1>1, <1>2, <1>3, IInv, g \in live, Settling(policy, tree', live \ {g}, pc'), ToRebalancing

(* What holds at adjust_delete_case2 and case3.                            *)
LEMMA LacksAt ==
  ASSUME IInv, pc.at \in {"rbt_case2", "rbt_case3"}
  PROVE /\ policy = "rbt"
        /\ \E g \in live : /\ EraseCall(call, live \ {g}, g)
                           /\ call.op = "range" => call.p1 = call.p2 \/ call.p2 = NULL
                           /\ \E r : Links(tree, live \ {g}, r)
                           /\ \E h : RbtLacking(tree, live \ {g}, h, pc.p, pc.s)
                           /\ pc.at = "rbt_case2" => pc = [at |-> "rbt_case2", p |-> pc.p, s |-> pc.s]
                           /\ pc.at = "rbt_case3" => /\ pc = [at |-> "rbt_case3", p |-> pc.p, s |-> pc.s]
                                                     /\ is_black(tree, pc.s)
<1>1. Rebalancing  BY PhaseIs
<1>2. PICK g \in live : EraseCall(call, live \ {g}, g) /\ Settling(policy, tree, live \ {g}, pc)
  BY <1>1 DEF Rebalancing
<1>3. call.op = "range" => call.p1 = call.p2 \/ call.p2 = NULL  BY <1>1 DEF Rebalancing
<1>4. policy = "rbt" /\ Lacks(tree, live \ {g}, pc)  BY <1>2, SettlingAt
<1>5. \E r : Links(tree, live \ {g}, r)  BY <1>2 DEF Settling
<1>6. PICK h, p, s : /\ RbtLacking(tree, live \ {g}, h, p, s)
                     /\ \/ pc = [at |-> "rbt_case2", p |-> p, s |-> s]
                        \/ pc = [at |-> "rbt_case3", p |-> p, s |-> s] /\ is_black(tree, s)
  BY <1>4 DEF Lacks
<1>7. pc.p = p /\ pc.s = s  BY <1>6
<1>8. RbtLacking(tree, live \ {g}, h, pc.p, pc.s)  BY <1>6, <1>7
<1>9. /\ pc.at = "rbt_case2" => pc = [at |-> "rbt_case2", p |-> pc.p, s |-> pc.s]
      /\ pc.at = "rbt_case3" => /\ pc = [at |-> "rbt_case3", p |-> pc.p, s |-> pc.s]
                                /\ is_black(tree, pc.s)
  BY <1>6, <1>7
<1> QED BY <1>2, <1>3, <1>4, <1>5, <1>8, <1>9

(* A red sibling is lifted (rbt_tree_policy.h:244-264).                    *)
LEMMA DeleteCase2Keeps ==
  ASSUME IInv, adjust_delete_case2
  PROVE IInv' /\ Turned(tree, tree', live \ {call.gone})
<1> DEFINE p == pc.p
           s == pc.s
           d == SideOf(tree, p, s)
           t == Rotate(Mark(Mark(tree, s, Black), p, Red), p, d)
<1>1. pc.at = "rbt_case2" /\ UNCHANGED <<policy, multi, live, call>>
  BY DEF adjust_delete_case2, AtRbtDelete
<1>2. IF is_red(tree, s) THEN tree' = t /\ pc' = [pc EXCEPT !.at = "rbt_case3", !.s = Child(t, p, d)]
      ELSE pc' = [pc EXCEPT !.at = "rbt_case3"] /\ tree' = tree
  BY DEF adjust_delete_case2
<1>3. PICK g \in live : /\ EraseCall(call, live \ {g}, g)
                        /\ call.op = "range" => call.p1 = call.p2 \/ call.p2 = NULL
                        /\ \E r : Links(tree, live \ {g}, r)
                        /\ \E h : RbtLacking(tree, live \ {g}, h, p, s)
                        /\ pc = [at |-> "rbt_case2", p |-> p, s |-> s]
  BY <1>1, LacksAt
<1>4. PICK r : Links(tree, live \ {g}, r)  BY <1>3
<1>5. PICK h : RbtLacking(tree, live \ {g}, h, p, s)  BY <1>3
<1>6. policy = "rbt"  BY <1>1, LacksAt
<1>9. call.gone = g  BY <1>3, EraseOp
<1>7. CASE is_red(tree, s)
  <2>1. tree' = t /\ pc' = [at |-> "rbt_case3", p |-> p, s |-> Child(t, p, d)]
    <3>1. tree' = t /\ pc' = [pc EXCEPT !.at = "rbt_case3", !.s = Child(t, p, d)]  BY <1>2, <1>7
    <3>2. pc = [at |-> "rbt_case2", p |-> p, s |-> s]  BY <1>3
    <3> HIDE DEF t, d, p, s
    <3> QED BY <3>1, <3>2
  <2>2. Settling("rbt", tree', live \ {g}, pc') /\ Turned(tree, tree', live \ {g})
    BY ONLY <1>4, <1>5, <1>7, <2>1, RbtTurnsSibling
  <2> HIDE DEF t, d, p, s
  <2>3. IInv'  BY <2>2, <1>1, <1>3, <1>6, SettlesOn
  <2> QED BY <2>2, <2>3, <1>9
<1>8. CASE ~is_red(tree, s)
  <2>1. tree' = tree /\ pc' = [at |-> "rbt_case3", p |-> p, s |-> s]
    <3>1. tree' = tree /\ pc' = [pc EXCEPT !.at = "rbt_case3"]  BY <1>2, <1>8
    <3>2. pc = [at |-> "rbt_case2", p |-> p, s |-> s]  BY <1>3
    <3> HIDE DEF p, s
    <3> QED BY <3>1, <3>2
  <2>2. is_black(tree, s)  BY <1>8 DEF is_black
  <2>3. Lacks(tree, live \ {g}, pc')  BY <1>5, <2>1, <2>2 DEF Lacks
  <2>4. Settling("rbt", tree', live \ {g}, pc')  BY <1>4, <2>1, <2>3 DEF Settling
  <2>5. Turned(tree, tree', live \ {call.gone})  BY <2>1, TurnedNot
  <2> HIDE DEF t, d, p, s
  <2>6. IInv'  BY <2>4, <1>1, <1>3, <1>6, SettlesOn
  <2> QED BY <2>5, <2>6
<1> QED BY <1>7, <1>8

(* A black sibling with black children becomes red, and the parent is      *)
(* next, unless it is red or the root (rbt_tree_policy.h:267-289).         *)
LEMMA DeleteCase3Keeps ==
  ASSUME IInv, adjust_delete_case3
  PROVE IInv' /\ Turned(tree, tree', live \ {call.gone})
<1> DEFINE p == pc.p
           s == pc.s
           G == Parent(tree, p)
<1>1. pc.at = "rbt_case3" /\ UNCHANGED <<policy, multi, live, call>>
  BY DEF adjust_delete_case3, AtRbtDelete
<1>2. /\ \A e \in Side : is_black(tree, Child(tree, s, e))
      /\ tree' = Mark(Mark(tree, s, Red), p, Black)
      /\ pc' = IF is_red(tree, p) \/ G = NULL THEN [at |-> "erased"]
               ELSE [at |-> "rbt_case2", p |-> G, s |-> Sibling(tree, G, p)]
  BY DEF adjust_delete_case3, BlackNephews, Side
<1>3. PICK g \in live : /\ EraseCall(call, live \ {g}, g)
                        /\ call.op = "range" => call.p1 = call.p2 \/ call.p2 = NULL
                        /\ \E r : Links(tree, live \ {g}, r)
                        /\ \E h : RbtLacking(tree, live \ {g}, h, p, s)
                        /\ is_black(tree, s)
  BY <1>1, LacksAt
<1>4. PICK r : Links(tree, live \ {g}, r)  BY <1>3
<1>5. PICK h : RbtLacking(tree, live \ {g}, h, p, s)  BY <1>3
<1>6. policy = "rbt"  BY <1>1, LacksAt
<1>7. is_black(tree, s)  BY <1>3
<1>8. Settling("rbt", tree', live \ {g}, pc') /\ Turned(tree, tree', live \ {g})
  BY ONLY <1>2, <1>4, <1>5, <1>7, RbtSinks
<1> HIDE DEF p, s, G
<1>9. IInv'  BY <1>8, <1>1, <1>3, <1>6, SettlesOn
<1>10. call.gone = g  BY <1>3, EraseOp
<1> QED BY <1>8, <1>9, <1>10

(* A red nephew ends it, with one rotation or two                          *)
(* (rbt_tree_policy.h:292-328).                                            *)
LEMMA DeleteCase5Keeps ==
  ASSUME IInv, adjust_delete_case5
  PROVE IInv' /\ Turned(tree, tree', live \ {call.gone})
<1> DEFINE p == pc.p
           s == pc.s
           d == SideOf(tree, p, s)
           x == Child(tree, s, 3 - d)
           y == Child(tree, s, d)
           t == IF is_red(tree, y) THEN tree ELSE Rotate(Mark(Mark(tree, s, Red), x, Black), s, 3 - d)
           q == IF is_red(tree, y) THEN s ELSE x
           u == Rotate(Mark(Mark(Mark(t, q, Extra(t, p)), p, Black), Child(t, q, d), Black), p, d)
<1>1. pc.at = "rbt_case3" /\ UNCHANGED <<policy, multi, live, call>>
  BY DEF adjust_delete_case5, AtRbtDelete
<1>3. PICK g \in live : /\ EraseCall(call, live \ {g}, g)
                        /\ call.op = "range" => call.p1 = call.p2 \/ call.p2 = NULL
                        /\ \E r : Links(tree, live \ {g}, r)
                        /\ \E h : RbtLacking(tree, live \ {g}, h, p, s)
                        /\ is_black(tree, s)
  BY <1>1, LacksAt
<1>4. PICK r : Links(tree, live \ {g}, r)  BY <1>3
<1>5. PICK h : RbtLacking(tree, live \ {g}, h, p, s)  BY <1>3
<1>6. policy = "rbt"  BY <1>1, LacksAt
<1>7. is_black(tree, s)  BY <1>3
<1>8. is_red(tree, x) \/ is_red(tree, y)
  <2>1. ~BlackNephews  BY DEF adjust_delete_case5
  <2>2. d = 1 \/ d = 2  BY DEF SideOf
  <2> QED BY <2>1, <2>2 DEF BlackNephews, is_black
<1>9. Whole("rbt", u, live \ {g}) /\ d = SideOf(t, p, q) /\ Turned(tree, u, live \ {g})
  BY ONLY <1>4, <1>5, <1>7, <1>8, RbtSettles
<1>10. tree' = u /\ pc' = [at |-> "erased"]
  <2>1. adjust_delete_case6(t, q) /\ pc' = [at |-> "erased"]  BY DEF adjust_delete_case5
  <2>2. tree' = Rotate(Mark(Mark(Mark(t, q, Extra(t, p)), p, Black),
                            Child(t, q, SideOf(t, p, q)), Black), p, SideOf(t, p, q))
    BY <2>1 DEF adjust_delete_case6
  <2> QED BY <2>1, <2>2, <1>9
<1>11. Settling("rbt", tree', live \ {g}, pc')  BY ONLY <1>9, <1>10, StaysErased
<1>12. call.gone = g  BY <1>3, EraseOp
<1>13. Turned(tree, tree', live \ {call.gone})  BY <1>9, <1>10, <1>12
<1> HIDE DEF p, s, d, x, y, t, q, u
<1>14. IInv'  BY <1>11, <1>1, <1>3, <1>6, SettlesOn
<1> QED BY <1>13, <1>14

(* blance_child1 and blance_child2 (avl_tree_policy.h:224-259).            *)
LEMMA BlanceChildKeeps ==
  ASSUME IInv, blance_child
  PROVE IInv' /\ Turned(tree, tree', live \ {call.gone})
<1> DEFINE n == pc.n
           d == pc.d
           i == Extra(tree, n) - Sign(d)
           t == Mark(tree, n, i)
           w == Unblance(t, n, 3 - d)
<1>1. pc.at = "avl_shrunk" /\ UNCHANGED <<policy, multi, live, call>>
  BY DEF blance_child, AtAvlDelete
<1>2. \/ i = 0 /\ blance_parent(t, n)
      \/ i = -Sign(d) /\ tree' = t /\ pc' = [at |-> "erased"]
      \/ i = -2 * Sign(d) /\ IF w.low THEN blance_parent(w.tree, w.top)
                             ELSE tree' = w.tree /\ pc' = [at |-> "erased"]
  BY DEF blance_child
<1>3. Rebalancing  BY <1>1, PhaseIs
<1>4. PICK g \in live : EraseCall(call, live \ {g}, g) /\ Settling(policy, tree, live \ {g}, pc)
  BY <1>3 DEF Rebalancing
<1>5. call.op = "range" => call.p1 = call.p2 \/ call.p2 = NULL  BY <1>3 DEF Rebalancing
<1>6. policy = "avl" /\ Shrinks(tree, live \ {g}, pc)  BY <1>1, <1>4, SettlingAt
<1>7. PICK r : Links(tree, live \ {g}, r)  BY <1>4 DEF Settling
<1>8. PICK h : AvlShrunk(tree, live \ {g}, h, n, d)
  <2>1. PICK h, m, e : AvlShrunk(tree, live \ {g}, h, m, e) /\ pc = [at |-> "avl_shrunk", n |-> m, d |-> e]
    BY <1>6 DEF Shrinks
  <2>2. n = m /\ d = e  BY <2>1
  <2> HIDE DEF n, d
  <2> QED BY <2>1, <2>2
<1>15. Turned(tree, t, live \ {g})
  <2>1. n \in live \ {g} /\ Extra(tree, n) \in Int /\ Sign(d) \in Int  BY <1>7, <1>8, ShrunkFacts
  <2>2. i \in Int  BY <2>1
  <2> HIDE DEF i, n
  <2>3. Recoloured(tree, t)  BY <2>1, <2>2, <1>7, MarkedLinks
  <2> QED BY <2>3, RecolouredTurned
<1>16. call.gone = g  BY <1>4, EraseOp
<1>9. ASSUME Settling("avl", tree', live \ {g}, pc'), Turned(tree, tree', live \ {g})
      PROVE IInv' /\ Turned(tree, tree', live \ {call.gone})
  <2> HIDE DEF n, d, i, t, w
  <2>1. IInv'  BY <1>9, <1>1, <1>4, <1>5, <1>6, SettlesOn
  <2> QED BY <2>1, <1>9, <1>16
<1>10. ASSUME NEW u, NEW r2, Links(u, live \ {g}, r2), NEW m, Passed(u, live \ {g}, m), blance_parent(u, m),
              Turned(tree, u, live \ {g})
       PROVE IInv' /\ Turned(tree, tree', live \ {call.gone})
  <2>1. tree' = u /\ pc' = IF Parent(u, m) = NULL THEN [at |-> "erased"]
                           ELSE [at |-> "avl_shrunk", n |-> Parent(u, m), d |-> SideOf(u, Parent(u, m), m)]
    BY <1>10 DEF blance_parent
  <2>2. Settling("avl", tree', live \ {g}, pc')  BY ONLY <2>1, <1>10, PassesOn
  <2>3. Turned(tree, tree', live \ {g})  BY <2>1, <1>10
  <2> QED BY <2>2, <2>3, <1>9
<1>11. ASSUME NEW u, NEW r2, Links(u, live \ {g}, r2), NEW h2, AvlWhole(u, live \ {g}, h2),
              tree' = u, pc' = [at |-> "erased"], Turned(tree, u, live \ {g})
       PROVE IInv' /\ Turned(tree, tree', live \ {call.gone})
  <2>1. Whole("avl", tree', live \ {g})  BY <1>11 DEF Whole
  <2>2. Settling("avl", tree', live \ {g}, pc')  BY ONLY <2>1, <1>11, StaysErased
  <2>3. Turned(tree, tree', live \ {g})  BY <1>11
  <2> QED BY <2>2, <2>3, <1>9
<1>12. CASE i = 0 /\ blance_parent(t, n)
  <2>1. Links(t, live \ {g}, r) /\ Passed(t, live \ {g}, n)
    BY ONLY <1>7, <1>8, <1>12, ShrinkLevels
  <2> HIDE DEF t, n
  <2> QED BY <2>1, <1>10, <1>12, <1>15
<1>13. CASE i = -Sign(d) /\ tree' = t /\ pc' = [at |-> "erased"]
  <2>1. Links(t, live \ {g}, r) /\ AvlWhole(t, live \ {g}, h)
    BY ONLY <1>7, <1>8, <1>13, ShrinkStays
  <2> HIDE DEF t
  <2> QED BY <2>1, <1>11, <1>13, <1>15
<1>14. CASE i = -2 * Sign(d) /\ IF w.low THEN blance_parent(w.tree, w.top)
                                ELSE tree' = w.tree /\ pc' = [at |-> "erased"]
  <2>1. /\ \E r2 : Links(w.tree, live \ {g}, r2)
        /\ Turned(tree, w.tree, live \ {g})
        /\ w.low => Passed(w.tree, live \ {g}, w.top)
        /\ ~w.low => \E h2 : AvlWhole(w.tree, live \ {g}, h2)
    BY ONLY <1>7, <1>8, <1>14, ShrinkRebuilds
  <2> HIDE DEF w
  <2> QED BY <2>1, <1>10, <1>11, <1>14
<1> QED BY <1>2, <1>12, <1>13, <1>14

(* A record of a call with another last node.                              *)
LEMMA GoneIs ==
  ASSUME NEW c, NEW o, NEW n, NEW k, NEW g, NEW w,
         c = [op |-> o, n |-> n, num |-> k, gone |-> g, was |-> w], NEW x
  PROVE [c EXCEPT !.gone = x] = [op |-> o, n |-> n, num |-> k, gone |-> x, was |-> w]
OBVIOUS

(* How the record of a call goes on: of fp_erase,                          *)
LEMMA CallGoesOn ==
  ASSUME NEW c, NEW o, NEW n, NEW k, NEW g, NEW w,
         c = [op |-> o, n |-> n, num |-> k, gone |-> g, was |-> w]
  PROVE /\ [c EXCEPT !.num = @ + 1] = [op |-> o, n |-> n, num |-> k + 1, gone |-> g, was |-> w]
        /\ [c EXCEPT !.op = "erase_last"] = [op |-> "erase_last", n |-> n, num |-> k, gone |-> g, was |-> w]
OBVIOUS

(* and of erase(p1, p2).                                                   *)
LEMMA RangeGoesOn ==
  ASSUME NEW c, NEW p1, NEW p2, NEW g, NEW w,
         c = [op |-> "range", p1 |-> p1, p2 |-> p2, gone |-> g, was |-> w], NEW x
  PROVE /\ [c EXCEPT !.p1 = x] = [op |-> "range", p1 |-> x, p2 |-> p2, gone |-> g, was |-> w]
        /\ [c EXCEPT !.gone = x] = [op |-> "range", p1 |-> p1, p2 |-> p2, gone |-> x, was |-> w]
OBVIOUS

(* bst_destroy: the node is no longer one of the container.                *)
LEMMA ErasedKeeps ==
  ASSUME IInv, Erased
  PROVE IInv'
<1>1. /\ pc.at = "erased" /\ tree' = [tree EXCEPT !.node[call.gone] = Fresh]
      /\ live' = live \ {call.gone} /\ pc' = [at |-> "erase"] /\ UNCHANGED <<policy, multi, call>>
  BY DEF Erased
<1>2. Rebalancing  BY <1>1, PhaseIs
<1>3. PICK g \in live : EraseCall(call, live \ {g}, g) /\ Settling(policy, tree, live \ {g}, pc)
  BY <1>2 DEF Rebalancing
<1>4. call.op = "range" => call.p1 = call.p2 \/ call.p2 = NULL  BY <1>2 DEF Rebalancing
<1>5. Whole(policy, tree, live \ {g})  BY <1>1, <1>3, SettlingAt
<1>6. call.gone = g  BY <1>3, EraseOp
<1>7. g \in Nodes \ (live \ {g})
  <2>1. live \ {g} \subseteq Nodes /\ TreeType(tree)  BY <1>5 DEF Whole, Links
  <2>2. g \in Nodes  BY <1>3 DEF IInv
  <2> QED BY <2>2
<1>8. Whole(policy, tree', live')
  <2>1. Whole(policy, tree', live \ {g})  BY <1>1, <1>5, <1>6, <1>7, FreedWhole
  <2> QED BY <2>1, <1>1, <1>6
<1>9. g \notin live' /\ EraseCall(call', live', g)  BY <1>1, <1>3, <1>6
<1>10. call'.op = "range" => call'.p1 = call'.p2 \/ call'.p2 = NULL  BY <1>1, <1>4
<1> QED BY <1>1, <1>8, <1>9, <1>10, ToErasing

(* A node of a whole tree is erased.                                       *)
LEMMA EraseKeeps ==
  ASSUME IInv, pc.at = "erase", NEW n \in live, NEW o, do_erase(n, o),
         EraseCall([o EXCEPT !.gone = n], live \ {n}, n),
         o.op = "range" => o.p1 = o.p2 \/ o.p2 = NULL
  PROVE IInv'
<1>1. Erasing  BY PhaseIs
<1>2. policy \in {"rbt", "avl"} /\ Whole(policy, tree, live)  BY <1>1 DEF Erasing, IInv
<1>3. /\ Settling(policy, tree', live \ {n}, pc')
      /\ call' = [o EXCEPT !.gone = n]
      /\ UNCHANGED <<policy, multi, m_nSize, live>>
  BY <1>2, ErasesNode
<1>4. EraseCall(call', live \ {n}, n)  BY <1>3
<1>5. call'.op = "range" => call'.p1 = call'.p2 \/ call'.p2 = NULL
  <2> DEFINE c == [o EXCEPT !.gone = n]
  <2>1. call' = c /\ EraseCall(c, live \ {n}, n)  BY <1>3
  <2>2. c.op = o.op /\ (o.op = "range" => c.p1 = o.p1 /\ c.p2 = o.p2)
    OBVIOUS
  <2> HIDE DEF c
  <2> QED BY <2>1, <2>2
<1>6. UNCHANGED <<policy, multi, live>>  BY <1>3
<1> QED BY <1>3, <1>4, <1>5, <1>6, ToRebalancing

(* The call that erases while a whole tree is left.                        *)
LEMMA ErasingFacts ==
  ASSUME IInv, pc.at = "erase"
  PROVE /\ Whole(policy, tree, live) /\ \E r : Links(tree, live, r)
        /\ call.op \in {"erase_equal", "erase_one"} =>
             /\ call.n \in live
             /\ \E k, g, w : call = [op |-> call.op, n |-> call.n, num |-> k, gone |-> g, was |-> w]
        /\ call.op = "range" =>
             /\ call.p1 \in live \cup {NULL}
             /\ \E g, w : call = [op |-> "range", p1 |-> call.p1, p2 |-> call.p2, gone |-> g, was |-> w]
             /\ \/ call.p1 = call.p2 \/ call.p2 = NULL
                \/ call.p1 \in live /\ call.p2 = Step(tree, call.p1, 2)
<1>1. Erasing  BY PhaseIs
<1>2. PICK g : EraseCall(call, live, g)  BY <1>1 DEF Erasing
<1>3. Whole(policy, tree, live)  BY <1>1 DEF Erasing
<1>4. \E r : Links(tree, live, r)  BY <1>3 DEF Whole
<1>5. CASE \E o \in {"erase_equal", "erase_one"} : \E n \in live : \E k, w :
             call = [op |-> o, n |-> n, num |-> k, gone |-> g, was |-> w]
  <2>1. PICK o \in {"erase_equal", "erase_one"}, n \in live :
          \E k, w : call = [op |-> o, n |-> n, num |-> k, gone |-> g, was |-> w]
    BY <1>5
  <2>2. PICK k, w : call = [op |-> o, n |-> n, num |-> k, gone |-> g, was |-> w]  BY <2>1
  <2>3. call.op = o /\ call.n = n  BY <2>2
  <2> QED BY <2>2, <2>3, <1>3, <1>4
<1>6. CASE \E n, k, w : call = [op |-> "erase_last", n |-> n, num |-> k, gone |-> g, was |-> w]
  BY <1>6, <1>3, <1>4
<1>7. CASE \E p1 \in live \cup {NULL} : \E p2, w :
             call = [op |-> "range", p1 |-> p1, p2 |-> p2, gone |-> g, was |-> w]
  <2>1. PICK p1 \in live \cup {NULL} : \E p2, w :
             call = [op |-> "range", p1 |-> p1, p2 |-> p2, gone |-> g, was |-> w]
    BY <1>7
  <2>2. PICK p2, w : call = [op |-> "range", p1 |-> p1, p2 |-> p2, gone |-> g, was |-> w]  BY <2>1
  <2>3. call.op = "range" /\ call.p1 = p1 /\ call.p2 = p2  BY <2>2
  <2>4. \/ call.p1 = call.p2 \/ call.p2 = NULL
        \/ call.p1 \in live /\ call.p2 = Step(tree, call.p1, 2)
    BY <1>1, <2>3 DEF Erasing
  <2> QED BY <2>2, <2>3, <2>4, <1>3, <1>4
<1> QED BY <1>2, <1>5, <1>6, <1>7 DEF EraseCall

(* erase_equal: the node itself goes last.                                 *)
LEMMA EraseEqualKeeps ==
  ASSUME IInv, EraseEqual
  PROVE IInv'
<1> DEFINE after == Step(tree, call.n, 2)
           before == Step(tree, call.n, 1)
           more == [call EXCEPT !.num = @ + 1]
           last == [call EXCEPT !.op = "erase_last"]
<1>1. pc.at = "erase" /\ call.op = "erase_equal"  BY DEF EraseEqual, AtErase
<1>2. call.n \in live  BY <1>1, ErasingFacts
<1>3. PICK r : Links(tree, live, r)  BY <1>1, ErasingFacts
<1>4. PICK k, g, w : call = [op |-> "erase_equal", n |-> call.n, num |-> k, gone |-> g, was |-> w]
  BY <1>1, ErasingFacts
<1>5. ASSUME NEW x \in live, x # call.n, do_erase(x, more) PROVE IInv'
  <2>1. [more EXCEPT !.gone = x] = [op |-> "erase_equal", n |-> call.n, num |-> k + 1, gone |-> x, was |-> w]
    <3>1. more = [op |-> "erase_equal", n |-> call.n, num |-> k + 1, gone |-> g, was |-> w]
      BY ONLY <1>4, CallGoesOn
    <3> HIDE DEF more
    <3> QED BY ONLY <3>1, GoneIs
  <2>2. call.n \in live \ {x}  BY <1>2, <1>5
  <2>3. EraseCall([more EXCEPT !.gone = x], live \ {x}, x)  BY <2>1, <2>2 DEF EraseCall
  <2>4. more.op # "range"  BY <1>4
  <2> HIDE DEF more
  <2> QED BY <2>3, <2>4, <1>1, <1>5, EraseKeeps
<1>6. \A d \in Side : Step(tree, call.n, d) \in live \cup {NULL} /\ Step(tree, call.n, d) # call.n
  BY <1>2, <1>3, StepIs
<1>7. after \in live \cup {NULL} /\ before \in live \cup {NULL} /\ after # call.n /\ before # call.n
  BY <1>6 DEF Side
<1>8. IF Equal(after) THEN do_erase(after, more)
      ELSE IF Equal(before) THEN do_erase(before, more)
      ELSE do_erase(call.n, last)
  BY DEF EraseEqual
<1>9. CASE do_erase(call.n, last)
  <2>1. [last EXCEPT !.gone = call.n] = [op |-> "erase_last", n |-> call.n, num |-> k, gone |-> call.n, was |-> w]
    <3>1. last = [op |-> "erase_last", n |-> call.n, num |-> k, gone |-> g, was |-> w]
      BY ONLY <1>4, CallGoesOn
    <3> HIDE DEF last
    <3> QED BY ONLY <3>1, GoneIs
  <2>2. EraseCall([last EXCEPT !.gone = call.n], live \ {call.n}, call.n)  BY <2>1 DEF EraseCall
  <2>3. last.op # "range"  BY <1>4
  <2> HIDE DEF last
  <2> QED BY <2>2, <2>3, <1>1, <1>2, <1>9, EraseKeeps
<1> HIDE DEF after, before, more, last
<1>10. CASE Equal(after) /\ do_erase(after, more)
  <2>1. after \in live  BY <1>7, <1>10 DEF Equal
  <2> QED BY <2>1, <1>5, <1>7, <1>10
<1>11. CASE Equal(before) /\ do_erase(before, more)
  <2>1. before \in live  BY <1>7, <1>11 DEF Equal
  <2> QED BY <2>1, <1>5, <1>7, <1>11
<1> QED BY <1>8, <1>9, <1>10, <1>11

(* fp_erase of a node that has no equal,                                   *)
LEMMA EraseOneKeeps ==
  ASSUME IInv, EraseOne
  PROVE IInv'
<1> DEFINE last == [call EXCEPT !.op = "erase_last"]
<1>1. pc.at = "erase" /\ call.op = "erase_one" /\ do_erase(call.n, last)  BY DEF EraseOne, AtErase
<1>2. call.n \in live  BY <1>1, ErasingFacts
<1>4. PICK k, g, w : call = [op |-> "erase_one", n |-> call.n, num |-> k, gone |-> g, was |-> w]
  BY <1>1, ErasingFacts
<1>5. [last EXCEPT !.gone = call.n] = [op |-> "erase_last", n |-> call.n, num |-> k, gone |-> call.n, was |-> w]
  <2>1. last = [op |-> "erase_last", n |-> call.n, num |-> k, gone |-> g, was |-> w]
    BY ONLY <1>4, CallGoesOn
  <2> HIDE DEF last
  <2> QED BY ONLY <2>1, GoneIs
<1>6. EraseCall([last EXCEPT !.gone = call.n], live \ {call.n}, call.n)  BY <1>5 DEF EraseCall
<1>7. last.op # "range"  BY <1>4
<1> HIDE DEF last
<1> QED BY <1>1, <1>2, <1>6, <1>7, EraseKeeps

(* erase(p1, p2): its iterator goes on before the node is erased,          *)
LEMMA EraseNextKeeps ==
  ASSUME IInv, EraseNext
  PROVE IInv'
<1> DEFINE x == Step(tree, call.p1, 2)
           o == [call EXCEPT !.p1 = x]
<1>1. pc.at = "erase" /\ call.op = "range" /\ call.p1 # call.p2 /\ do_erase(call.p1, o)
  BY DEF EraseNext, AtErase
<1>2. /\ call.p1 \in live
      /\ call.p2 = NULL \/ call.p2 = Step(tree, call.p1, 2)
  BY <1>1, ErasingFacts
<1>3. PICK r : Links(tree, live, r)  BY <1>1, ErasingFacts
<1>4. PICK g, w : call = [op |-> "range", p1 |-> call.p1, p2 |-> call.p2, gone |-> g, was |-> w]
  BY <1>1, ErasingFacts
<1>5. x \in live \cup {NULL} /\ x # call.p1
  <2>1. 2 \in Side  BY DEF Side
  <2> QED BY <2>1, <1>2, <1>3, StepIs
<1>6. [o EXCEPT !.gone = call.p1] = [op |-> "range", p1 |-> x, p2 |-> call.p2, gone |-> call.p1, was |-> w]
  <2>1. o = [op |-> "range", p1 |-> x, p2 |-> call.p2, gone |-> g, was |-> w]
    BY ONLY <1>4, RangeGoesOn
  <2> HIDE DEF o
  <2> QED BY ONLY <2>1, RangeGoesOn
<1>7. x \in (live \ {call.p1}) \cup {NULL}  BY <1>5
<1>8. o.op = "range" => o.p1 = o.p2 \/ o.p2 = NULL
  <2>1. o.p1 = x /\ o.p2 = call.p2  BY <1>4
  <2> QED BY <2>1, <1>2
<1>9. EraseCall([o EXCEPT !.gone = call.p1], live \ {call.p1}, call.p1)
  <2> HIDE DEF x, o
  <2> QED BY <1>6, <1>7 DEF EraseCall
<1> HIDE DEF o, x
<1> QED BY <1>1, <1>2, <1>8, <1>9, EraseKeeps

(* the end of both,                                                        *)
LEMMA EraseReturnsKeeps ==
  ASSUME IInv, EraseReturns \/ EraseRangeReturns
  PROVE IInv'
<1>1. /\ pc.at = "erase" /\ UNCHANGED <<policy, multi, tree, live>>
      /\ Return(<<call.num>>) \/ Return(<<call.p2>>)
  BY DEF EraseReturns, EraseRangeReturns, AtErase
<1>2. Whole(policy, tree, live)  BY <1>1, ErasingFacts
<1>3. Whole(policy, tree', live')  BY <1>1, <1>2
<1> QED BY <1>1, <1>3, ToResting

(* and their beginning: by key,                                            *)
LEMMA EraseKeyKeeps ==
  ASSUME IInv, NEW n \in Nodes, erase_key(Key[n])
  PROVE IInv'
<1> DEFINE m == Find(tree, Key[n])
<1>1. call = NoCall /\ UNCHANGED <<policy, multi, tree, live>>  BY DEF erase_key, Ready
<1>2. Whole(policy, tree, live) /\ multi \in BOOLEAN  BY <1>1, PhaseIs DEF Resting, IInv
<1>3. PICK r : Links(tree, live, r)  BY <1>2 DEF Whole
<1>4. Whole(policy, tree', live')  BY <1>1, <1>2
<1>5. CASE m = NULL
  <2>1. Return(<<0>>)  BY <1>5 DEF erase_key
  <2> QED BY <2>1, <1>1, <1>4, ToResting
<1>6. CASE m # NULL
  <2>1. /\ call' = [op |-> IF multi THEN "erase_equal" ELSE "erase_one",
                    n |-> m, num |-> 1, gone |-> NULL, was |-> Was]
        /\ pc' = [at |-> "erase"]
    BY <1>6 DEF erase_key
  <2>2. Key[n] \in Nat  BY KeyAssumption
  <2>3. m \in live'  BY <1>1, <1>3, <1>6, <2>2, FindIs
  <2>4. NULL \notin live'  BY <1>1, <1>3, NodesAssumption DEF Links
  <2> HIDE DEF m
  <2>5. (IF multi THEN "erase_equal" ELSE "erase_one") \in {"erase_equal", "erase_one"}  OBVIOUS
  <2>6. EraseCall(call', live', NULL)  BY <2>1, <2>3, <2>5 DEF EraseCall
  <2>7. call'.op # "range"  BY <2>1
  <2> QED BY <2>1, <2>4, <2>6, <2>7, <1>1, <1>4, ToErasing
<1> QED BY <1>5, <1>6

(* and by iterators.                                                       *)
LEMMA EraseRangeKeeps ==
  ASSUME IInv, NEW p1 \in live, NEW p2 \in {Step(tree, p1, 2), NULL}, erase_range(p1, p2)
  PROVE IInv'
<1>1. /\ call = NoCall /\ UNCHANGED <<policy, multi, tree, live>> /\ pc' = [at |-> "erase"]
      /\ call' = [op |-> "range", p1 |-> p1, p2 |-> p2, gone |-> NULL, was |-> Was]
  BY DEF erase_range, Ready
<1>2. Whole(policy, tree, live)  BY <1>1, PhaseIs DEF Resting
<1>3. PICK r : Links(tree, live, r)  BY <1>2 DEF Whole
<1>4. Whole(policy, tree', live')  BY <1>1, <1>2
<1>5. NULL \notin live'  BY <1>1, <1>3, NodesAssumption DEF Links
<1>6. EraseCall(call', live', NULL)
  <2>1. p1 \in live' \cup {NULL}  BY <1>1
  <2> QED BY <2>1, <1>1 DEF EraseCall
<1>7. call'.op = "range" => \/ call'.p1 = call'.p2 \/ call'.p2 = NULL
                            \/ call'.p1 \in live' /\ call'.p2 = Step(tree', call'.p1, 2)
  BY <1>1
<1> QED BY <1>1, <1>4, <1>5, <1>6, <1>7, ToErasing

(* Every call and every turn of a policy keeps IInv.                       *)
LEMMA Inductive ==
  ASSUME IInv, [Next]_vars
  PROVE IInv'
<1>1. CASE UNCHANGED vars
  BY <1>1 DEF vars, IInv, Resting, Inserting, Erasing, Rebalancing
<1>2. CASE adjust_insert_case1 \/ adjust_insert_case2 \/ adjust_insert_case3 \/ adjust_insert_case5
  BY <1>2, RbtInsertKeeps
<1>3. CASE AvlRoot \/ AvlGrow  BY <1>3, AvlInsertKeeps
<1>4. CASE adjust_delete_case2  BY <1>4, DeleteCase2Keeps
<1>5. CASE adjust_delete_case3  BY <1>5, DeleteCase3Keeps
<1>6. CASE adjust_delete_case5  BY <1>6, DeleteCase5Keeps
<1>7. CASE blance_child  BY <1>7, BlanceChildKeeps
<1>8. CASE Erased  BY <1>8, ErasedKeeps
<1>9. CASE EraseEqual  BY <1>9, EraseEqualKeeps
<1>10. CASE EraseOne  BY <1>10, EraseOneKeeps
<1>11. CASE EraseReturns \/ EraseRangeReturns  BY <1>11, EraseReturnsKeeps
<1>12. CASE EraseNext  BY <1>12, EraseNextKeeps
<1>13. CASE take  BY <1>13, TakeKeeps
<1>14. CASE clear  BY <1>14, ClearKeeps
<1>15. ASSUME NEW n \in Nodes, insert(n) PROVE IInv'  BY <1>15, InsertKeeps
<1>16. ASSUME NEW n \in Nodes, erase_key(Key[n]) PROVE IInv'  BY <1>16, EraseKeyKeeps
<1>17. ASSUME NEW p1 \in live, NEW p2 \in {Step(tree, p1, 2), NULL}, erase_range(p1, p2) PROVE IInv'
  BY <1>17, EraseRangeKeeps
<1> QED
  BY <1>1, <1>2, <1>3, <1>4, <1>5, <1>6, <1>7, <1>8, <1>9, <1>10, <1>11, <1>12, <1>13, <1>14, <1>15,
     <1>16, <1>17 DEF Next, Work

(* At every moment the nodes that are linked form one tree, and the tree   *)
(* is as far from balanced as the phase of the call allows: of bst_tree    *)
(* and the two policies, for any number of nodes and any keys.             *)
THEOREM PhasesHold == Spec => []IInv
<1>1. Init => IInv  BY Initially
<1>2. IInv /\ [Next]_vars => IInv'  BY Inductive
<1> QED BY <1>1, <1>2, PTL DEF Spec

(* The nodes that are linked in a phase.                                   *)
LEMMA LinkedNodes ==
  ASSUME IInv
  PROVE \/ \E n : Seed(tree, live, n)
        \/ \E r : Links(tree, live \ {Unlinked}, r)
<1>1. CASE Resting \/ Erasing
  <2>1. PICK r : Links(tree, live, r)  BY <1>1 DEF Resting, Erasing, Whole
  <2>2. Unlinked \notin live
    <3>1. NULL \notin live  BY NodesAssumption DEF IInv
    <3>2. CASE Resting  BY <3>1, <3>2 DEF Resting, Unlinked, NoCall
    <3>3. CASE Erasing
      <4>1. PICK g : g \notin live /\ EraseCall(call, live, g)  BY <3>3 DEF Erasing
      <4>2. Unlinked = g  BY <4>1, EraseOp DEF Unlinked
      <4> QED BY <4>1, <4>2
    <3> QED BY <1>1, <3>2, <3>3
  <2>3. live \ {Unlinked} = live  BY <2>2
  <2> QED BY <2>1, <2>3
<1>2. CASE Inserting
  <2>1. PICK n : Placed(policy, tree, live, n)  BY <1>2 DEF Inserting
  <2>2. Unlinked = NULL  BY <1>2 DEF Inserting, Unlinked
  <2>3. NULL \notin live  BY NodesAssumption DEF IInv
  <2>4. live \ {Unlinked} = live  BY <2>2, <2>3
  <2> QED BY <2>1, <2>4 DEF Placed, Growing
<1>3. CASE Rebalancing
  <2>1. PICK g \in live : EraseCall(call, live \ {g}, g) /\ Settling(policy, tree, live \ {g}, pc)
    BY <1>3 DEF Rebalancing
  <2>2. Unlinked = g  BY <2>1, EraseOp DEF Unlinked
  <2> QED BY <2>1, <2>2 DEF Settling
<1> QED BY <1>1, <1>2, <1>3 DEF IInv

(* WellLinked, phase by phase.                                             *)
LEMMA PhasesLink ==
  ASSUME IInv
  PROVE WellLinked
<1>1. /\ tree.root # NULL => Parent(tree, tree.root) = NULL
      /\ \A n \in live : \A d \in {1, 2} :
           Child(tree, n, d) # NULL /\ n # Unlinked => Parent(tree, Child(tree, n, d)) = n
  <2>1. CASE \E n : Seed(tree, live, n)  BY <2>1 DEF Seed, Side
  <2>2. CASE \E r : Links(tree, live \ {Unlinked}, r)
    <3>1. PICK r : Links(tree, live \ {Unlinked}, r)  BY <2>2
    <3> DEFINE L == live \ {Unlinked}
    <3>2. Links(tree, L, r)  BY <3>1
    <3>3. NULL \notin L  BY NodesAssumption DEF IInv
    <3>4. \A m \in live : m # Unlinked => m \in L  OBVIOUS
    <3> HIDE DEF L
    <3>5. tree.root # NULL => Parent(tree, tree.root) = NULL  BY <3>2, LinkFacts
    <3>6. \A m \in L : \A e \in Side : Child(tree, m, e) # NULL => Parent(tree, Child(tree, m, e)) = m
      BY <3>2, LinkFacts
    <3> QED BY <3>4, <3>5, <3>6 DEF Side
  <2> QED BY <2>1, <2>2, LinkedNodes
<1>2. ASSUME pc.at = "rbt_insert", is_red(tree, rbt_p) PROVE rbt_g # NULL
  <2>1. policy = "rbt" /\ Inserting  BY <1>2, PhaseIs
  <2>2. PICK n : pc = [at |-> "rbt_insert", n |-> n] /\ Placed("rbt", tree, live, n)  BY <2>1 DEF Inserting
  <2>3. rbt_p = Parent(tree, n) /\ rbt_g = Parent(tree, Parent(tree, n))  BY <2>2 DEF rbt_p, rbt_g
  <2>4. is_red(tree, Parent(tree, n))  BY <1>2, <2>3
  <2>5. Parent(tree, n) # NULL  BY <2>4 DEF is_red
  <2>6. Growing("rbt", tree, live, n)  BY <2>2, <2>5 DEF Placed, Seed
  <2>7. PICK r : Links(tree, live, r)  BY <2>6 DEF Growing
  <2>8. PICK h : RbtGrowing(tree, live, h, n)  BY <2>6 DEF Growing
  <2>9. Parent(tree, Parent(tree, n)) \in live  BY <2>4, <2>7, <2>8, GrandparentIs
  <2> QED BY <2>3, <2>9, NodesAssumption DEF IInv
<1>3. ASSUME pc.at \in {"rbt_case2", "rbt_case3"}
      PROVE pc.s # NULL /\ (pc.at = "rbt_case3" => is_black(tree, pc.s))
  <2>1. PICK g \in live : /\ \E h : RbtLacking(tree, live \ {g}, h, pc.p, pc.s)
                          /\ pc.at = "rbt_case3" => is_black(tree, pc.s)
    BY <1>3, LacksAt
  <2>2. pc.s \in live  BY <2>1 DEF RbtLacking
  <2> QED BY <2>1, <2>2, NodesAssumption DEF IInv
<1>4. ASSUME pc.at = "avl_shrunk" PROVE Extra(tree, pc.n) \in -1 .. 1
  <2>1. Rebalancing  BY <1>4, PhaseIs
  <2>2. PICK g \in live : Settling(policy, tree, live \ {g}, pc)  BY <2>1 DEF Rebalancing
  <2>3. Shrinks(tree, live \ {g}, pc)  BY <1>4, <2>2, SettlingAt
  <2>4. PICK r : Links(tree, live \ {g}, r)  BY <2>2 DEF Settling
  <2>5. PICK h, n, d : AvlShrunk(tree, live \ {g}, h, n, d) /\ pc = [at |-> "avl_shrunk", n |-> n, d |-> d]
    BY <2>3 DEF Shrinks
  <2>6. /\ d \in Side
        /\ Extra(tree, n) = Sign(d) \/ Extra(tree, n) = 0 \/ Extra(tree, n) = -Sign(d)
    BY <2>4, <2>5, ShrunkFacts
  <2>7. Sign(d) \in {1, -1}  BY DEF Sign
  <2>8. pc.n = n  BY <2>5
  <2> QED BY <2>6, <2>7, <2>8
<1> QED BY <1>1, <1>2, <1>3, <1>4 DEF WellLinked

(* check_node and the assertions of the policies: at every turn of every   *)
(* call the links agree, and the colour, sibling or grandparent that the   *)
(* code takes for granted is there.                                        *)
THEOREM LinksAgree == Spec => []WellLinked
<1>1. IInv => WellLinked  BY PhasesLink
<1> QED BY <1>1, PhasesHold, PTL

------------------------------------------------------------------------------
(* What the recursive definitions compute: by induction over their levels. *)

(* What holds of a node at level i of a recursion once it holds of its     *)
(* children at level i - 1 holds of every node at the last level: a tree   *)
(* has no more levels than nodes. Good has pairs of a level and a node.    *)
LEMMA EveryLevel ==
  ASSUME NEW t, NEW L, NEW r, Links(t, L, r), NEW N, N = Cardinality(Nodes), NEW Good,
         \A i \in 1 .. N : \A m \in L :
           (\A e \in Side : Child(t, m, e) # NULL => i - 1 \in 1 .. N /\ <<i - 1, Child(t, m, e)>> \in Good)
           => <<i, m>> \in Good
  PROVE \A m \in L : N \in 1 .. N /\ <<N, m>> \in Good
<1> DEFINE q == [m \in Nodes |-> 0 - r[m]]
           Below(m) == {k \in L : q[k] < q[m]}
           T == {i \in Nat : i <= N => \A m \in L : Cardinality(Below(m)) < i => <<i, m>> \in Good}
<1>1. L \subseteq Nodes /\ r \in [Nodes -> Nat] /\ N \in Nat  BY AtMostAll DEF Links
<1>2. q \in [Nodes -> Int] /\ \A m \in Nodes : q[m] = 0 - r[m]  BY <1>1
<1> HIDE DEF q
<1>3. ASSUME NEW m \in L PROVE Cardinality(Below(m)) \in Nat /\ Cardinality(Below(m)) < N
  <2> DEFINE B == Below(m)
  <2>1. B \subseteq Nodes /\ m \in Nodes \ B  BY <1>1, <1>2
  <2> HIDE DEF B
  <2>2. B \in SUBSET Nodes /\ B # Nodes  BY <2>1
  <2>3. IsFiniteSet(B) /\ Cardinality(B) <= N /\ (N = Cardinality(B) => Nodes = B)
    BY <2>2, NodesAssumption, FS_Subset
  <2>4. Cardinality(B) \in Nat  BY <2>3, FS_CardinalityType
  <2>5. Cardinality(B) < N  BY <2>2, <2>3, <2>4, <1>1
  <2> QED BY <2>4, <2>5 DEF B
<1>4. ASSUME NEW m \in L, NEW e \in Side, Child(t, m, e) # NULL
      PROVE Child(t, m, e) \in L /\ Cardinality(Below(Child(t, m, e))) < Cardinality(Below(m))
  <2> DEFINE c == Child(t, m, e)
  <2>1. c \in L /\ r[m] < r[c]  BY <1>4, LinkFacts
  <2> HIDE DEF c
  <2>2. q[c] < q[m]  BY <2>1, <1>1, <1>2
  <2>3. Cardinality({j \in L : q[j] < q[c]}) < Cardinality({j \in L : q[j] < q[m]})
    BY <2>1, <2>2, <1>1, <1>2, FewerBelow
  <2>4. Below(c) = {j \in L : q[j] < q[c]} /\ Below(m) = {j \in L : q[j] < q[m]}  OBVIOUS
  <2> HIDE DEF Below
  <2> QED BY <2>1, <2>3, <2>4 DEF c
<1> HIDE DEF Below
<1>5. 0 \in T  BY <1>3
<1>6. ASSUME NEW i \in T PROVE i + 1 \in T
  <2> SUFFICES ASSUME i + 1 <= N, NEW m \in L, Cardinality(Below(m)) < i + 1
               PROVE <<i + 1, m>> \in Good
    OBVIOUS
  <2>1. i \in Nat /\ i <= N /\ i + 1 \in 1 .. N /\ (i + 1) - 1 = i  BY <1>1
  <2>2. ASSUME NEW e \in Side, Child(t, m, e) # NULL
        PROVE i \in 1 .. N /\ <<i, Child(t, m, e)>> \in Good
    <3> DEFINE c == Child(t, m, e)
    <3>1. c \in L /\ Cardinality(Below(c)) < Cardinality(Below(m))  BY <1>4, <2>2
    <3> HIDE DEF c
    <3>2. Cardinality(Below(c)) \in Nat /\ Cardinality(Below(m)) \in Nat  BY <1>3, <3>1
    <3>3. Cardinality(Below(c)) < i /\ i \in 1 .. N  BY <3>1, <3>2, <2>1
    <3>4. <<i, c>> \in Good  BY <3>1, <3>3, <2>1
    <3> QED BY <3>3, <3>4 DEF c
  <2> QED BY <2>1, <2>2
<1>7. T = Nat
  <2>1. T \subseteq Nat /\ 0 \in T /\ \A k \in T : k + 1 \in T  BY <1>5, <1>6
  <2> HIDE DEF T
  <2> QED BY <2>1, AllNumbers
<1>8. N \in T  BY <1>1, <1>7
<1>9. ASSUME NEW m \in L PROVE N \in 1 .. N /\ <<N, m>> \in Good
  BY <1>1, <1>3, <1>8
<1> QED BY <1>9

(* What holds of the root and, with a node, of its children holds of all.  *)
LEMMA FromRoot ==
  ASSUME NEW t, NEW L, NEW r, Links(t, L, r), NEW A,
         t.root # NULL => t.root \in A,
         \A m \in L \cap A : \A e \in Side : Child(t, m, e) # NULL => Child(t, m, e) \in A
  PROVE L \subseteq A
<1> DEFINE T == {i \in Nat : \A m \in L : r[m] <= i => m \in A}
<1>1. \A m \in L : r[m] \in Nat /\ m # NULL  BY LinkFacts
<1>2. ASSUME NEW m \in L, Parent(t, m) # NULL => Parent(t, m) \in A PROVE m \in A
  <2>1. CASE Parent(t, m) = NULL
    <3>1. m = t.root  BY <2>1, LinkFacts
    <3> QED BY <3>1, <1>1
  <2>2. CASE Parent(t, m) # NULL
    <3>1. Parent(t, m) \in L /\ \E e \in Side : Child(t, Parent(t, m), e) = m  BY <2>2, LinkFacts
    <3> QED BY <3>1, <1>1, <1>2, <2>2
  <2> QED BY <2>1, <2>2
<1>3. ASSUME NEW m \in L, Parent(t, m) # NULL PROVE Parent(t, m) \in L /\ r[Parent(t, m)] < r[m]
  BY <1>3, LinkFacts
<1>4. 0 \in T
  <2>1. \A m \in L : r[m] <= 0 => Parent(t, m) = NULL  BY <1>1, <1>3
  <2> QED BY <2>1, <1>2
<1>5. ASSUME NEW i \in T PROVE i + 1 \in T
  <2>1. ASSUME NEW m \in L, r[m] <= i + 1 PROVE m \in A
    <3>1. ASSUME Parent(t, m) # NULL PROVE Parent(t, m) \in A
      <4> DEFINE p == Parent(t, m)
      <4>1. p \in L /\ r[p] < r[m]  BY <3>1, <1>3
      <4> HIDE DEF p
      <4>2. r[p] <= i  BY <4>1, <2>1, <1>1
      <4>3. p \in A  BY <4>1, <4>2
      <4> QED BY <4>3 DEF p
    <3> QED BY <3>1, <1>2
  <2> QED BY <2>1
<1>6. T = Nat
  <2>1. T \subseteq Nat /\ 0 \in T /\ \A k \in T : k + 1 \in T  BY <1>4, <1>5
  <2> HIDE DEF T
  <2> QED BY <2>1, AllNumbers
<1>7. \A m \in L : r[m] \in T  BY <1>1, <1>6
<1> QED BY <1>1, <1>7

(* The levels of the recursions over a tree.                               *)
LEMMA BlackDepthLevels ==
  ASSUME NEW t, TreeType(t), NEW N, N = Cardinality(Nodes)
  PROVE \E G : /\ BlackDepth(t) = G[N]
               /\ \A i \in 0 .. N : \A n \in Node :
                    G[i][n] = IF i = 0 \/ n = NULL THEN 0 ELSE G[i - 1][Child(t, n, 1)] + IF is_black(t, n) THEN 1 ELSE 0
<1> DEFINE X == [Node -> Nat]
           b == [n \in Node |-> 0]
           f == [F \in X |-> [n \in Node |-> IF n = NULL THEN 0 ELSE F[Child(t, n, 1)] + IF is_black(t, n) THEN 1 ELSE 0]]
           row(g, i) == [n \in Node |-> IF i = 0 \/ n = NULL THEN 0 ELSE g[i - 1][Child(t, n, 1)] + IF is_black(t, n) THEN 1 ELSE 0]
           body(g) == [i \in 0 .. N |-> row(g, i)]
           G == CHOOSE g : g = body(g)
<1>1. BlackDepth(t) = G[N]  BY DEF BlackDepth, Node
<1>2. N \in Nat /\ \A n \in Node : n # NULL => n \in Nodes /\ \A e \in Side : Child(t, n, e) \in Node
  <2>1. N \in Nat  BY AtMostAll
  <2>2. \A n \in Nodes : \A e \in Side : Child(t, n, e) \in Node  BY TypedNodes
  <2> QED BY <2>1, <2>2 DEF Node
<1>3. \E g : g = body(g)
  <2>1. b \in X  OBVIOUS
  <2>2. f \in [X -> X]
    <3>1. ASSUME NEW F \in X, NEW n \in Node, n # NULL PROVE (F[Child(t, n, 1)] + IF is_black(t, n) THEN 1 ELSE 0) \in Nat
      <4>1. Child(t, n, 1) \in Node /\ Child(t, n, 2) \in Node  BY <1>2, <3>1 DEF Side
      <4>2. F[Child(t, n, 1)] \in Nat /\ F[Child(t, n, 2)] \in Nat  BY <4>1
      <4> QED BY <4>2
    <3>2. 0 \in Nat  OBVIOUS
    <3> QED BY <3>1, <3>2
  <2>3. \E g : Chain(g, X, b, f, N)
    <3> HIDE DEF X, b, f
    <3> QED BY <2>1, <2>2, <1>2, Iterates, Zenon
  <2>4. PICK g \in [0 .. N -> X] : g[0] = b /\ \A i \in 1 .. N : g[i] = f[g[i - 1]]
    BY <2>3 DEF Chain
  <2>5. ASSUME NEW i \in 0 .. N PROVE g[i] = row(g, i)
    <3>1. CASE i = 0  BY <3>1, <2>4
    <3>2. CASE i # 0
      <4>1. i \in 1 .. N /\ i - 1 \in 0 .. N  BY <3>2, <1>2
      <4>2. g[i - 1] \in X  BY <4>1
      <4>3. g[i] = f[g[i - 1]]  BY <4>1, <2>4
      <4> DEFINE F == g[i - 1]
      <4>4. F \in X /\ row(g, i) = [n \in Node |-> IF n = NULL THEN 0 ELSE F[Child(t, n, 1)] + IF is_black(t, n) THEN 1 ELSE 0]
        BY <4>2, <3>2
      <4> HIDE DEF F, row, X
      <4>5. f[F] = row(g, i)  BY <4>4
      <4> QED BY <4>3, <4>5 DEF F
    <3> QED BY <3>1, <3>2
  <2>6. g = body(g)
    <3>1. g = [i \in 0 .. N |-> g[i]]  BY <2>4
    <3> HIDE DEF X, row
    <3> QED BY <3>1, <2>5
  <2> QED BY <2>6
<1>4. G = body(G)  BY <1>3
<1> HIDE DEF G, f, b, X
<1> DEFINE val(i, n) == IF i = 0 \/ n = NULL THEN 0
                        ELSE G[i - 1][Child(t, n, 1)] + IF is_black(t, n) THEN 1 ELSE 0
<1>5. \A i \in 0 .. N : \A n \in Node : G[i][n] = val(i, n)
  <2>1. body(G) = [i \in 0 .. N |-> row(G, i)]  OBVIOUS
  <2> HIDE DEF body
  <2>2. \A i \in 0 .. N : row(G, i) = [n \in Node |-> val(i, n)]  OBVIOUS
  <2> HIDE DEF row, val
  <2> QED BY <2>1, <2>2, <1>4
<1> QED BY <1>1, <1>5

(* The same of the depth.                                                  *)
LEMMA DepthLevels ==
  ASSUME NEW t, TreeType(t), NEW N, N = Cardinality(Nodes)
  PROVE \E G : /\ Depth(t) = G[N]
               /\ \A i \in 0 .. N : \A n \in Node :
                    G[i][n] = IF i = 0 \/ n = NULL THEN 0 ELSE 1 + IF G[i - 1][Child(t, n, 1)] < G[i - 1][Child(t, n, 2)] THEN G[i - 1][Child(t, n, 2)] ELSE G[i - 1][Child(t, n, 1)]
<1> DEFINE X == [Node -> Nat]
           b == [n \in Node |-> 0]
           f == [F \in X |-> [n \in Node |-> IF n = NULL THEN 0 ELSE 1 + IF F[Child(t, n, 1)] < F[Child(t, n, 2)] THEN F[Child(t, n, 2)] ELSE F[Child(t, n, 1)]]]
           row(g, i) == [n \in Node |-> IF i = 0 \/ n = NULL THEN 0 ELSE 1 + IF g[i - 1][Child(t, n, 1)] < g[i - 1][Child(t, n, 2)] THEN g[i - 1][Child(t, n, 2)] ELSE g[i - 1][Child(t, n, 1)]]
           body(g) == [i \in 0 .. N |-> row(g, i)]
           G == CHOOSE g : g = body(g)
<1>1. Depth(t) = G[N]  BY DEF Depth, Node
<1>2. N \in Nat /\ \A n \in Node : n # NULL => n \in Nodes /\ \A e \in Side : Child(t, n, e) \in Node
  <2>1. N \in Nat  BY AtMostAll
  <2>2. \A n \in Nodes : \A e \in Side : Child(t, n, e) \in Node  BY TypedNodes
  <2> QED BY <2>1, <2>2 DEF Node
<1>3. \E g : g = body(g)
  <2>1. b \in X  OBVIOUS
  <2>2. f \in [X -> X]
    <3>1. ASSUME NEW F \in X, NEW n \in Node, n # NULL PROVE (1 + IF F[Child(t, n, 1)] < F[Child(t, n, 2)] THEN F[Child(t, n, 2)] ELSE F[Child(t, n, 1)]) \in Nat
      <4>1. Child(t, n, 1) \in Node /\ Child(t, n, 2) \in Node  BY <1>2, <3>1 DEF Side
      <4>2. F[Child(t, n, 1)] \in Nat /\ F[Child(t, n, 2)] \in Nat  BY <4>1
      <4> QED BY <4>2
    <3>2. 0 \in Nat  OBVIOUS
    <3> QED BY <3>1, <3>2
  <2>3. \E g : Chain(g, X, b, f, N)
    <3> HIDE DEF X, b, f
    <3> QED BY <2>1, <2>2, <1>2, Iterates, Zenon
  <2>4. PICK g \in [0 .. N -> X] : g[0] = b /\ \A i \in 1 .. N : g[i] = f[g[i - 1]]
    BY <2>3 DEF Chain
  <2>5. ASSUME NEW i \in 0 .. N PROVE g[i] = row(g, i)
    <3>1. CASE i = 0  BY <3>1, <2>4
    <3>2. CASE i # 0
      <4>1. i \in 1 .. N /\ i - 1 \in 0 .. N  BY <3>2, <1>2
      <4>2. g[i - 1] \in X  BY <4>1
      <4>3. g[i] = f[g[i - 1]]  BY <4>1, <2>4
      <4> DEFINE F == g[i - 1]
      <4>4. F \in X /\ row(g, i) = [n \in Node |-> IF n = NULL THEN 0 ELSE 1 + IF F[Child(t, n, 1)] < F[Child(t, n, 2)] THEN F[Child(t, n, 2)] ELSE F[Child(t, n, 1)]]
        BY <4>2, <3>2
      <4> HIDE DEF F, row, X
      <4>5. f[F] = row(g, i)  BY <4>4
      <4> QED BY <4>3, <4>5 DEF F
    <3> QED BY <3>1, <3>2
  <2>6. g = body(g)
    <3>1. g = [i \in 0 .. N |-> g[i]]  BY <2>4
    <3> HIDE DEF X, row
    <3> QED BY <3>1, <2>5
  <2> QED BY <2>6
<1>4. G = body(G)  BY <1>3
<1> HIDE DEF G, f, b, X
<1> DEFINE val(i, n) == IF i = 0 \/ n = NULL THEN 0
                        ELSE 1 + IF G[i - 1][Child(t, n, 1)] < G[i - 1][Child(t, n, 2)]
                                 THEN G[i - 1][Child(t, n, 2)] ELSE G[i - 1][Child(t, n, 1)]
<1>5. \A i \in 0 .. N : \A n \in Node : G[i][n] = val(i, n)
  <2>1. body(G) = [i \in 0 .. N |-> row(G, i)]  OBVIOUS
  <2> HIDE DEF body
  <2>2. \A i \in 0 .. N : row(G, i) = [n \in Node |-> val(i, n)]  OBVIOUS
  <2> HIDE DEF row, val
  <2> QED BY <2>1, <2>2, <1>4
<1> QED BY <1>1, <1>5

(* The same of the walk.                                                   *)
LEMMA WalkLevels ==
  ASSUME NEW t, TreeType(t), NEW N, N = Cardinality(Nodes)
  PROVE \E G : /\ InOrder(t) = G[N][t.root]
               /\ \A i \in 0 .. N : \A n \in Node :
                    G[i][n] = IF i = 0 \/ n = NULL THEN <<>> ELSE G[i - 1][Child(t, n, 1)] \o <<n>> \o G[i - 1][Child(t, n, 2)]
<1> DEFINE X == [Node -> Seq(Nodes)]
           b == [n \in Node |-> <<>>]
           f == [F \in X |-> [n \in Node |-> IF n = NULL THEN <<>> ELSE F[Child(t, n, 1)] \o <<n>> \o F[Child(t, n, 2)]]]
           row(g, i) == [n \in Node |-> IF i = 0 \/ n = NULL THEN <<>> ELSE g[i - 1][Child(t, n, 1)] \o <<n>> \o g[i - 1][Child(t, n, 2)]]
           body(g) == [i \in 0 .. N |-> row(g, i)]
           G == CHOOSE g : g = body(g)
<1>1. InOrder(t) = G[N][t.root]  BY DEF InOrder, Node
<1>2. N \in Nat /\ \A n \in Node : n # NULL => n \in Nodes /\ \A e \in Side : Child(t, n, e) \in Node
  <2>1. N \in Nat  BY AtMostAll
  <2>2. \A n \in Nodes : \A e \in Side : Child(t, n, e) \in Node  BY TypedNodes
  <2> QED BY <2>1, <2>2 DEF Node
<1>3. \E g : g = body(g)
  <2>1. b \in X  OBVIOUS
  <2>2. f \in [X -> X]
    <3>1. ASSUME NEW F \in X, NEW n \in Node, n # NULL PROVE (F[Child(t, n, 1)] \o <<n>> \o F[Child(t, n, 2)]) \in Seq(Nodes)
      <4>1. Child(t, n, 1) \in Node /\ Child(t, n, 2) \in Node  BY <1>2, <3>1 DEF Side
      <4>2. F[Child(t, n, 1)] \in Seq(Nodes) /\ F[Child(t, n, 2)] \in Seq(Nodes)  BY <4>1
      <4> QED BY <4>2, <1>2, <3>1
    <3>2. <<>> \in Seq(Nodes)  OBVIOUS
    <3> QED BY <3>1, <3>2
  <2>3. \E g : Chain(g, X, b, f, N)
    <3> HIDE DEF X, b, f
    <3> QED BY <2>1, <2>2, <1>2, Iterates, Zenon
  <2>4. PICK g \in [0 .. N -> X] : g[0] = b /\ \A i \in 1 .. N : g[i] = f[g[i - 1]]
    BY <2>3 DEF Chain
  <2>5. ASSUME NEW i \in 0 .. N PROVE g[i] = row(g, i)
    <3>1. CASE i = 0  BY <3>1, <2>4
    <3>2. CASE i # 0
      <4>1. i \in 1 .. N /\ i - 1 \in 0 .. N  BY <3>2, <1>2
      <4>2. g[i - 1] \in X  BY <4>1
      <4>3. g[i] = f[g[i - 1]]  BY <4>1, <2>4
      <4> DEFINE F == g[i - 1]
      <4>4. F \in X /\ row(g, i) = [n \in Node |-> IF n = NULL THEN <<>> ELSE F[Child(t, n, 1)] \o <<n>> \o F[Child(t, n, 2)]]
        BY <4>2, <3>2
      <4> HIDE DEF F, row, X
      <4>5. f[F] = row(g, i)  BY <4>4
      <4> QED BY <4>3, <4>5 DEF F
    <3> QED BY <3>1, <3>2
  <2>6. g = body(g)
    <3>1. g = [i \in 0 .. N |-> g[i]]  BY <2>4
    <3> HIDE DEF X, row
    <3> QED BY <3>1, <2>5
  <2> QED BY <2>6
<1>4. G = body(G)  BY <1>3
<1> HIDE DEF G, f, b, X
<1> DEFINE val(i, n) == IF i = 0 \/ n = NULL THEN <<>>
                        ELSE G[i - 1][Child(t, n, 1)] \o <<n>> \o G[i - 1][Child(t, n, 2)]
<1>5. \A i \in 0 .. N : \A n \in Node : G[i][n] = val(i, n)
  <2>1. body(G) = [i \in 0 .. N |-> row(G, i)]  OBVIOUS
  <2> HIDE DEF body
  <2>2. \A i \in 0 .. N : row(G, i) = [n \in Node |-> val(i, n)]  OBVIOUS
  <2> HIDE DEF row, val
  <2> QED BY <2>1, <2>2, <1>4
<1> QED BY <1>1, <1>5

(* The heights that the invariant speaks of are those of the recursions.   *)
LEMMA BlackDepthIs ==
  ASSUME NEW t, NEW L, NEW r, Links(t, L, r), NEW h, Heights(h), \A m \in L : Even(t, h, m)
  PROVE \A m \in L \cup {NULL} : BlackDepth(t)[m] = h[m]
<1> DEFINE N == Cardinality(Nodes)
<1>1. TreeType(t) /\ \A m \in L : m \in Node /\ m # NULL  BY LinkFacts
<1>2. PICK G : /\ BlackDepth(t) = G[N]
               /\ \A i \in 0 .. N : \A n \in Node :
                    G[i][n] = IF i = 0 \/ n = NULL THEN 0
                              ELSE G[i - 1][Child(t, n, 1)] + IF is_black(t, n) THEN 1 ELSE 0
  <2> HIDE DEF N
  <2> QED BY <1>1, BlackDepthLevels DEF N
<1>3. N \in Nat /\ h[NULL] = 0 /\ NULL \in Node /\ 1 \in Side  BY AtMostAll DEF Heights, Node, Side
<1> HIDE DEF N
<1>4. \A i \in 0 .. N : G[i][NULL] = 0  BY <1>2, <1>3
<1> DEFINE Good == {x \in (1 .. N) \X L : G[x[1]][x[2]] = h[x[2]]}
<1>5. ASSUME NEW i \in 1 .. N, NEW m \in L,
             \A e \in Side : Child(t, m, e) # NULL => i - 1 \in 1 .. N /\ <<i - 1, Child(t, m, e)>> \in Good
      PROVE <<i, m>> \in Good
  <2> DEFINE c == Child(t, m, 1)
  <2>1. G[i - 1][c] = h[c]
    <3>1. CASE c = NULL
      <4>1. i - 1 \in 0 .. N  BY <1>3
      <4> QED BY <4>1, <3>1, <1>3, <1>4
    <3>2. CASE c # NULL  BY <3>2, <1>3, <1>5
    <3> QED BY <3>1, <3>2
  <2>2. h[m] = h[c] + Blacks(t, m)  BY <1>3 DEF Even
  <2>3. i \in 0 .. N /\ i # 0  BY <1>3
  <2>4. G[i][m] = G[i - 1][c] + IF is_black(t, m) THEN 1 ELSE 0  BY <2>3, <1>1, <1>2
  <2>5. Blacks(t, m) = IF is_black(t, m) THEN 1 ELSE 0  BY <1>1 DEF Blacks, is_black, is_red
  <2> HIDE DEF c
  <2>6. G[i][m] = h[m]  BY <2>1, <2>2, <2>4, <2>5
  <2> QED BY <2>6
<1> HIDE DEF Good
<1>6. \A m \in L : N \in 1 .. N /\ <<N, m>> \in Good
  BY <1>5, EveryLevel DEF N
<1>7. \A m \in L : G[N][m] = h[m]  BY <1>6 DEF Good
<1> QED BY <1>2, <1>3, <1>4, <1>7

(* In an AVL tree the heights of the proof are what Depth computes;        *)
LEMMA DepthIs ==
  ASSUME NEW t, NEW L, NEW r, Links(t, L, r), NEW h, AvlWhole(t, L, h)
  PROVE \A m \in L \cup {NULL} : Depth(t)[m] = h[m]
<1> DEFINE N == Cardinality(Nodes)
<1>1. TreeType(t) /\ \A m \in L : m \in Node /\ m # NULL  BY LinkFacts
<1>2. PICK G : /\ Depth(t) = G[N]
               /\ \A i \in 0 .. N : \A n \in Node :
                    G[i][n] = IF i = 0 \/ n = NULL THEN 0
                              ELSE 1 + IF G[i - 1][Child(t, n, 1)] < G[i - 1][Child(t, n, 2)]
                                       THEN G[i - 1][Child(t, n, 2)] ELSE G[i - 1][Child(t, n, 1)]
  <2> HIDE DEF N
  <2> QED BY <1>1, DepthLevels DEF N
<1>3. N \in Nat /\ h[NULL] = 0 /\ NULL \in Node /\ 1 \in Side /\ 2 \in Side
  BY AtMostAll DEF AvlWhole, Heights, Node, Side
<1> HIDE DEF N
<1>4. \A i \in 0 .. N : G[i][NULL] = 0  BY <1>2, <1>3
<1> DEFINE Good == {x \in (1 .. N) \X L : G[x[1]][x[2]] = h[x[2]]}
<1>5. ASSUME NEW i \in 1 .. N, NEW m \in L,
             \A e \in Side : Child(t, m, e) # NULL => i - 1 \in 1 .. N /\ <<i - 1, Child(t, m, e)>> \in Good
      PROVE <<i, m>> \in Good
  <2> DEFINE c(e) == Child(t, m, e)
  <2>1. ASSUME NEW e \in Side PROVE G[i - 1][c(e)] = h[c(e)]
    <3>1. CASE c(e) = NULL
      <4>1. i - 1 \in 0 .. N  BY <1>3
      <4> QED BY <4>1, <3>1, <1>3, <1>4
    <3>2. CASE c(e) # NULL  BY <3>2, <1>3, <1>5
    <3> QED BY <3>1, <3>2
  <2>2. h[m] = 1 + IF h[c(1)] < h[c(2)] THEN h[c(2)] ELSE h[c(1)]
    <3>1. Tall(t, h, m)  BY DEF AvlWhole
    <3> QED BY <3>1, <1>3 DEF Tall, Fits
  <2>3. i \in 0 .. N /\ i # 0  BY <1>3
  <2>4. G[i][m] = 1 + IF G[i - 1][c(1)] < G[i - 1][c(2)] THEN G[i - 1][c(2)] ELSE G[i - 1][c(1)]
    BY <2>3, <1>1, <1>2
  <2> HIDE DEF c
  <2>5. G[i - 1][c(1)] = h[c(1)] /\ G[i - 1][c(2)] = h[c(2)]  BY <2>1, <1>3
  <2>6. G[i][m] = h[m]  BY <2>2, <2>4, <2>5
  <2> QED BY <2>6
<1> HIDE DEF Good
<1>6. \A m \in L : N \in 1 .. N /\ <<N, m>> \in Good
  BY <1>5, EveryLevel DEF N
<1>7. \A m \in L : G[N][m] = h[m]  BY <1>6 DEF Good
<1> QED BY <1>2, <1>3, <1>4, <1>7

(* so the red-black tree is balanced as Balanced says,                     *)
LEMMA RbtBalanced ==
  ASSUME NEW t, NEW L, NEW r, Links(t, L, r), NEW h, RbtWhole(t, L, h), NEW bd, bd = BlackDepth(t)
  PROVE /\ is_black(t, t.root)
        /\ \A n \in L : /\ bd[Child(t, n, 1)] = bd[Child(t, n, 2)]
                        /\ is_red(t, n) => \A d \in {1, 2} : is_black(t, Child(t, n, d))
<1>1. \A m \in L \cup {NULL} : bd[m] = h[m]  BY BlackDepthIs DEF RbtWhole
<1>2. ASSUME NEW n \in L PROVE bd[Child(t, n, 1)] = bd[Child(t, n, 2)]
  <2>1. 1 \in Side /\ 2 \in Side  BY DEF Side
  <2>2. Child(t, n, 1) \in L \cup {NULL} /\ Child(t, n, 2) \in L \cup {NULL}  BY <2>1, LinkFacts
  <2>3. h[n] = h[Child(t, n, 1)] + Blacks(t, n) /\ h[n] = h[Child(t, n, 2)] + Blacks(t, n)
    BY <2>1 DEF RbtWhole, Even
  <2>4. h[Child(t, n, 1)] \in Nat /\ h[Child(t, n, 2)] \in Nat /\ Blacks(t, n) \in Nat
    BY <2>1, HeightFacts DEF RbtWhole, Blacks
  <2>5. h[Child(t, n, 1)] = h[Child(t, n, 2)]  BY <2>3, <2>4
  <2> QED BY <1>1, <2>2, <2>5
<1> QED BY <1>2 DEF RbtWhole, Side

(* and the AVL tree.                                                       *)
LEMMA AvlBalanced ==
  ASSUME NEW t, NEW L, NEW r, Links(t, L, r), NEW h, AvlWhole(t, L, h), NEW dep, dep = Depth(t)
  PROVE \A n \in L : /\ Extra(t, n) = dep[Child(t, n, 1)] - dep[Child(t, n, 2)]
                     /\ Extra(t, n) \in -1 .. 1
<1>1. \A m \in L \cup {NULL} : dep[m] = h[m]  BY DepthIs
<1> SUFFICES ASSUME NEW n \in L
             PROVE Extra(t, n) = dep[Child(t, n, 1)] - dep[Child(t, n, 2)] /\ Extra(t, n) \in -1 .. 1
  OBVIOUS
<1>2. 1 \in Side /\ 2 \in Side  BY DEF Side
<1>3. Child(t, n, 1) \in L \cup {NULL} /\ Child(t, n, 2) \in L \cup {NULL} /\ Extra(t, n) \in Int
  BY <1>2, LinkFacts
<1>4. Fits(h[n], Tilt(t, n, 1), h[Child(t, n, 1)], h[Child(t, n, 2)])  BY <1>2 DEF AvlWhole, Tall
<1>5. Tilt(t, n, 1) = Extra(t, n)  BY <1>3 DEF Tilt, Sign
<1> QED BY <1>1, <1>3, <1>4, <1>5 DEF Fits

Elems(s) == {s[j] : j \in DOMAIN s}

Between(s, a, n, b) ==
  /\ s \in Seq(Nodes) /\ Len(s) = Len(a) + 1 + Len(b)
  /\ Elems(s) = Elems(a) \cup {n} \cup Elems(b)

(* The elements of a walk around a node.                                   *)
LEMMA ElemsJoined ==
  ASSUME NEW a \in Seq(Nodes), NEW b \in Seq(Nodes), NEW n \in Nodes, NEW s, s = a \o <<n>> \o b
  PROVE Between(s, a, n, b)
<1> DEFINE c == a \o <<n>>
<1>1. c \in Seq(Nodes) /\ Len(c) = Len(a) + 1 /\ \A j \in 1 .. Len(c) : c[j] = IF j = Len(a) + 1 THEN n ELSE a[j]
  OBVIOUS
<1> HIDE DEF c
<1>2. s = c \o b  BY DEF c
<1>3. /\ s \in Seq(Nodes) /\ Len(s) = Len(c) + Len(b)
      /\ \A j \in 1 .. Len(s) : s[j] = IF j <= Len(c) THEN c[j] ELSE b[j - Len(c)]
  BY <1>1, <1>2
<1>4. DOMAIN a = 1 .. Len(a) /\ DOMAIN b = 1 .. Len(b) /\ DOMAIN s = 1 .. Len(s) /\ Len(a) \in Nat /\ Len(b) \in Nat
  BY <1>3
<1>5. ASSUME NEW j \in DOMAIN s PROVE s[j] \in Elems(a) \cup {n} \cup Elems(b)
  <2>1. j \in 1 .. Len(s) /\ Len(s) = Len(a) + 1 + Len(b)  BY <1>1, <1>3, <1>4
  <2>2. CASE j <= Len(a)
    <3>1. j \in 1 .. Len(c) /\ j # Len(a) + 1 /\ j \in DOMAIN a  BY <2>1, <2>2, <1>1, <1>4
    <3>2. s[j] = c[j] /\ c[j] = a[j]  BY <3>1, <2>1, <1>1, <1>3
    <3> QED BY <3>1, <3>2 DEF Elems
  <2>3. CASE j = Len(a) + 1
    <3>1. j \in 1 .. Len(c)  BY <2>1, <2>3, <1>1, <1>4
    <3>2. s[j] = c[j] /\ c[j] = n  BY <3>1, <2>1, <2>3, <1>1, <1>3
    <3> QED BY <3>2
  <2>4. CASE j > Len(a) + 1
    <3>1. j - Len(c) \in DOMAIN b /\ ~(j <= Len(c))  BY <2>1, <2>4, <1>1, <1>4
    <3>2. s[j] = b[j - Len(c)]  BY <3>1, <2>1, <1>3
    <3> QED BY <3>1, <3>2 DEF Elems
  <2> QED BY <2>1, <2>2, <2>3, <2>4, <1>4
<1>6. ASSUME NEW j \in DOMAIN a PROVE a[j] \in Elems(s)
  <2>1. j \in 1 .. Len(c) /\ j # Len(a) + 1 /\ j \in 1 .. Len(s) /\ j <= Len(c)  BY <1>1, <1>3, <1>4
  <2>2. s[j] = a[j]  BY <2>1, <1>1, <1>3
  <2> QED BY <2>1, <2>2, <1>4 DEF Elems
<1>7. n \in Elems(s)
  <2> DEFINE j == Len(a) + 1
  <2>1. j \in 1 .. Len(c) /\ j \in 1 .. Len(s) /\ j <= Len(c)  BY <1>1, <1>3, <1>4
  <2>2. s[j] = n  BY <2>1, <1>1, <1>3
  <2> QED BY <2>1, <2>2, <1>4 DEF Elems
<1>8. ASSUME NEW j \in DOMAIN b PROVE b[j] \in Elems(s)
  <2> DEFINE k == j + Len(c)
  <2>1. k \in 1 .. Len(s) /\ ~(k <= Len(c)) /\ k - Len(c) = j  BY <1>1, <1>3, <1>4
  <2> HIDE DEF k
  <2>2. s[k] = b[j]  BY <2>1, <1>3
  <2> QED BY <2>1, <2>2, <1>4 DEF Elems
<1>9. Elems(s) = Elems(a) \cup {n} \cup Elems(b)
  <2>1. Elems(s) \subseteq Elems(a) \cup {n} \cup Elems(b)
    <3> DEFINE R == Elems(a) \cup {n} \cup Elems(b)
    <3> HIDE DEF R
    <3>1. \A j \in DOMAIN s : s[j] \in R  BY <1>5 DEF R
    <3>2. Elems(s) \subseteq R  BY <3>1 DEF Elems
    <3> QED BY <3>2 DEF R
  <2>2. Elems(a) \subseteq Elems(s)
    <3> DEFINE R == Elems(s)
    <3>1. \A j \in DOMAIN a : a[j] \in R  BY <1>6
    <3> HIDE DEF R
    <3>2. Elems(a) \subseteq R  BY <3>1 DEF Elems
    <3> QED BY <3>2 DEF R
  <2>3. Elems(b) \subseteq Elems(s)
    <3> DEFINE R == Elems(s)
    <3>1. \A j \in DOMAIN b : b[j] \in R  BY <1>8
    <3> HIDE DEF R
    <3>2. Elems(b) \subseteq R  BY <3>1 DEF Elems
    <3> QED BY <3>2 DEF R
  <2> HIDE DEF c
  <2> QED BY <2>1, <2>2, <2>3, <1>7, Zenon
<1>10. Len(s) = Len(a) + 1 + Len(b)  BY <1>1, <1>3, <1>4
<1> QED BY <1>3, <1>9, <1>10, Zenon DEF Between

(* What the walk of the subtree of m gives.                                *)
Walked(t, L, r, m, s) ==
  /\ s \in Seq(Nodes) /\ Elems(s) \subseteq L /\ m \in Elems(s)
  /\ \A x \in Elems(s) :
       /\ r[m] <= r[x] /\ (x = m \/ Parent(t, x) \in Elems(s))
       /\ \A e \in Side : Child(t, x, e) # NULL => Child(t, x, e) \in Elems(s)
  /\ Len(s) = Cardinality(Elems(s))

WalkedOrNone(t, L, r, m, s) == IF m = NULL THEN s = <<>> ELSE Walked(t, L, r, m, s)

(* The nodes A hang together below a; and those of two children of n do    *)
(* not meet.                                                               *)
Hang(t, L, r, a, A) ==
  A \subseteq L /\ \A x \in A : r[a] <= r[x] /\ (x = a \/ Parent(t, x) \in A)
Apart(n, A, B) == A \cap B = {} /\ n \notin A /\ n \notin B

(* The subtrees of two children share no node.                             *)
LEMMA SubtreesApart ==
  ASSUME NEW t, NEW L, NEW r, Links(t, L, r), NEW n \in L, NEW a, NEW b, a # b,
         a = Child(t, n, 1), b = Child(t, n, 2), a # NULL, b # NULL,
         NEW A, Hang(t, L, r, a, A), NEW B, Hang(t, L, r, b, B)
  PROVE Apart(n, A, B)
<1> USE DEF Hang, Apart
<1>1. 1 \in Side /\ 2 \in Side /\ \A m \in L : r[m] \in Nat  BY LinkFacts DEF Side
<1>2. /\ a \in L /\ b \in L /\ Parent(t, a) = n /\ Parent(t, b) = n
      /\ r[n] < r[a] /\ r[n] < r[b]
  BY <1>1, LinkFacts
<1>3. n \notin A /\ n \notin B  BY <1>1, <1>2
<1> DEFINE T == {i \in Nat : \A x \in A \cap B : i < r[x]}
<1>4. ASSUME NEW x \in A \cap B
      PROVE Parent(t, x) \in A \cap B /\ r[Parent(t, x)] < r[x]
  <2>1. x # a /\ x # b  BY <1>2, <1>3
  <2>2. Parent(t, x) \in A \cap B  BY <2>1
  <2>3. x \in L /\ Parent(t, x) \in L /\ Parent(t, x) # NULL  BY <2>2, LinkFacts
  <2>4. r[Parent(t, x)] < r[x]  BY <2>3, LinkFacts
  <2> QED BY <2>2, <2>4
<1>5. 0 \in T
  <2>1. \A x \in A \cap B : r[x] \in Nat /\ r[Parent(t, x)] \in Nat  BY <1>1, <1>4
  <2> QED BY <2>1, <1>4
<1>6. ASSUME NEW i \in T PROVE i + 1 \in T
  <2>1. ASSUME NEW x \in A \cap B PROVE i + 1 < r[x]
    <3>1. i < r[Parent(t, x)] /\ r[Parent(t, x)] < r[x]  BY <1>4
    <3>2. r[x] \in Nat /\ r[Parent(t, x)] \in Nat  BY <1>1, <1>4
    <3> QED BY <3>1, <3>2
  <2> QED BY <2>1
<1>7. T = Nat
  <2>1. T \subseteq Nat /\ 0 \in T /\ \A k \in T : k + 1 \in T  BY <1>5, <1>6
  <2> HIDE DEF T
  <2> QED BY <2>1, AllNumbers
<1>8. \A x \in A \cap B : r[x] \in T /\ r[x] \in Nat  BY <1>1, <1>7
<1>9. A \cap B = {}  BY <1>8
<1> QED BY <1>3, <1>9

(* The size of two disjoint sets and a node.                               *)
LEMMA CountedApart ==
  ASSUME NEW A, A \subseteq Nodes, NEW B, B \subseteq Nodes, A \cap B = {}, NEW n \in Nodes, n \notin A, n \notin B,
         NEW i, i = Cardinality(A), NEW j, j = Cardinality(B)
  PROVE Cardinality(A \cup {n} \cup B) = i + 1 + j /\ i \in Nat /\ j \in Nat
<1>1. IsFiniteSet(A) /\ IsFiniteSet(B)  BY NodesAssumption, FS_Subset
<1>2. i \in Nat /\ j \in Nat  BY <1>1, FS_CardinalityType
<1>3. IsFiniteSet(A \cup {n}) /\ Cardinality(A \cup {n}) = i + 1  BY <1>1, FS_AddElement
<1> DEFINE C == A \cup {n}
<1>4. C \cap B = {}  OBVIOUS
<1>5. IsFiniteSet(C) /\ Cardinality(C) = i + 1  BY <1>3
<1> HIDE DEF C
<1>6. Cardinality(C \cup B) = Cardinality(C) + Cardinality(B) - Cardinality(C \cap B)
  BY <1>1, <1>5, FS_Union
<1>7. Cardinality(C \cap B) = 0  BY <1>4, FS_EmptySet
<1>8. Cardinality(C \cup B) = i + 1 + j  BY <1>2, <1>5, <1>6, <1>7
<1> QED BY <1>2, <1>8 DEF C

(* One node's turn of the walk.                                            *)
LEMMA WalkTurns ==
  ASSUME NEW t, NEW L, NEW r, Links(t, L, r), NEW n \in L,
         NEW a, a = Child(t, n, 1), NEW b, b = Child(t, n, 2),
         NEW p, WalkedOrNone(t, L, r, a, p), NEW q, WalkedOrNone(t, L, r, b, q),
         NEW s, s = p \o <<n>> \o q
  PROVE Walked(t, L, r, n, s)
<1> DEFINE A == Elems(p)
           B == Elems(q)
           W == Elems(s)
<1>1. 1 \in Side /\ 2 \in Side /\ \A m \in L : r[m] \in Nat /\ m \in Nodes  BY LinkFacts DEF Side
<1>2. /\ p \in Seq(Nodes) /\ A \subseteq L /\ Len(p) = Cardinality(A)
      /\ \A x \in A : /\ a # NULL /\ r[a] <= r[x] /\ (x = a \/ Parent(t, x) \in A)
                      /\ \A e \in Side : Child(t, x, e) # NULL => Child(t, x, e) \in A
      /\ a # NULL => a \in A
  <2>1. CASE a = NULL
    <3>1. p = <<>> /\ A = {}  BY <2>1 DEF WalkedOrNone, Elems
    <3>2. p \in Seq(Nodes) /\ Len(p) = 0  BY <3>1
    <3> HIDE DEF A
    <3>3. Cardinality(A) = 0  BY <3>1, FS_EmptySet
    <3> QED BY <2>1, <3>1, <3>2, <3>3
  <2>2. CASE a # NULL  BY <2>2 DEF WalkedOrNone, Walked
  <2> QED BY <2>1, <2>2
<1>3. /\ q \in Seq(Nodes) /\ B \subseteq L /\ Len(q) = Cardinality(B)
      /\ \A x \in B : /\ b # NULL /\ r[b] <= r[x] /\ (x = b \/ Parent(t, x) \in B)
                      /\ \A e \in Side : Child(t, x, e) # NULL => Child(t, x, e) \in B
      /\ b # NULL => b \in B
  <2>1. CASE b = NULL
    <3>1. q = <<>> /\ B = {}  BY <2>1 DEF WalkedOrNone, Elems
    <3>2. q \in Seq(Nodes) /\ Len(q) = 0  BY <3>1
    <3> HIDE DEF B
    <3>3. Cardinality(B) = 0  BY <3>1, FS_EmptySet
    <3> QED BY <2>1, <3>1, <3>2, <3>3
  <2>2. CASE b # NULL  BY <2>2 DEF WalkedOrNone, Walked
  <2> QED BY <2>1, <2>2
<1>4. n \in Nodes /\ s \in Seq(Nodes) /\ Len(s) = Len(p) + 1 + Len(q) /\ W = A \cup {n} \cup B
  <2>1. p \in Seq(Nodes) /\ q \in Seq(Nodes) /\ n \in Nodes  BY <1>1, <1>2, <1>3
  <2>2. Between(s, p, n, q)  BY <2>1, ElemsJoined, Zenon
  <2> QED BY <2>1, <2>2, Zenon DEF Between
<1> HIDE DEF A, B, W
<1>5. /\ a # NULL => a \in L /\ Parent(t, a) = n /\ r[n] < r[a] /\ a # b
      /\ b # NULL => b \in L /\ Parent(t, b) = n /\ r[n] < r[b]
  BY <1>1, LinkFacts
<1>6. A \cap B = {} /\ n \notin A /\ n \notin B
  <2>1. CASE a # NULL /\ b # NULL
    <3>1. Hang(t, L, r, a, A)  BY <1>2 DEF Hang
    <3>2. Hang(t, L, r, b, B)  BY <1>3 DEF Hang
    <3>3. a # b /\ a # NULL /\ b # NULL  BY <2>1, <1>5
    <3>4. Apart(n, A, B)
      BY ONLY <3>1, <3>2, <3>3, a = Child(t, n, 1), b = Child(t, n, 2), Links(t, L, r), n \in L,
              SubtreesApart
    <3> QED BY <3>4 DEF Apart
  <2>2. CASE a = NULL
    <3>1. A = {}  BY <2>2, <1>2
    <3>2. n \notin B  BY <1>1, <1>3, <1>5
    <3> QED BY <3>1, <3>2
  <2>3. CASE b = NULL
    <3>1. B = {}  BY <2>3, <1>3
    <3>2. n \notin A  BY <1>1, <1>2, <1>5
    <3> QED BY <3>1, <3>2
  <2> QED BY <2>1, <2>2, <2>3
<1>7. Len(s) = Cardinality(W)
  <2>1. A \subseteq Nodes /\ B \subseteq Nodes  BY <1>1, <1>2, <1>3
  <2>2. Cardinality(A \cup {n} \cup B) = Len(p) + 1 + Len(q)
    <3>1. Len(p) = Cardinality(A) /\ Len(q) = Cardinality(B) /\ n \in Nodes  BY <1>2, <1>3, <1>4
    <3> QED BY ONLY <2>1, <3>1, <1>6, CountedApart, NodesAssumption
  <2> QED BY <2>2, <1>4
<1>8. ASSUME NEW x \in A
      PROVE /\ r[n] <= r[x] /\ Parent(t, x) \in W
            /\ \A e \in Side : Child(t, x, e) # NULL => Child(t, x, e) \in W
  <2>1. r[n] \in Nat /\ r[a] \in Nat /\ r[x] \in Nat /\ r[n] < r[a] /\ r[a] <= r[x]
    BY <1>1, <1>2, <1>5
  <2>2. r[n] <= r[x]  BY <2>1
  <2> QED BY <2>2, <1>2, <1>4, <1>5
<1>9. ASSUME NEW x \in B
      PROVE /\ r[n] <= r[x] /\ Parent(t, x) \in W
            /\ \A e \in Side : Child(t, x, e) # NULL => Child(t, x, e) \in W
  <2>1. r[n] \in Nat /\ r[b] \in Nat /\ r[x] \in Nat /\ r[n] < r[b] /\ r[b] <= r[x]
    BY <1>1, <1>3, <1>5
  <2>2. r[n] <= r[x]  BY <2>1
  <2> QED BY <2>2, <1>3, <1>4, <1>5
<1>10. \A e \in Side : Child(t, n, e) # NULL => Child(t, n, e) \in W  BY <1>2, <1>3, <1>4 DEF Side
<1>11. r[n] <= r[n]  BY <1>1
<1>12. W \subseteq L /\ n \in W  BY <1>2, <1>3, <1>4
<1>13. \A x \in W : /\ r[n] <= r[x] /\ (x = n \/ Parent(t, x) \in W)
                    /\ \A e \in Side : Child(t, x, e) # NULL => Child(t, x, e) \in W
  BY <1>4, <1>8, <1>9, <1>10, <1>11
<1> QED BY <1>4, <1>7, <1>12, <1>13 DEF W, Walked

(* The walk from the root meets every node once.                           *)
LEMMA WalkIs ==
  ASSUME NEW t, NEW L, NEW r, Links(t, L, r), NEW s, s = InOrder(t)
  PROVE s \in Seq(Nodes) /\ Elems(s) = L /\ Len(s) = Cardinality(L)
<1> DEFINE N == Cardinality(Nodes)
<1>1. TreeType(t) /\ \A m \in L : m \in Node /\ m # NULL  BY LinkFacts
<1>2. PICK G : /\ InOrder(t) = G[N][t.root]
               /\ \A i \in 0 .. N : \A n \in Node :
                    G[i][n] = IF i = 0 \/ n = NULL THEN <<>>
                              ELSE G[i - 1][Child(t, n, 1)] \o <<n>> \o G[i - 1][Child(t, n, 2)]
  <2> HIDE DEF N
  <2> QED BY <1>1, WalkLevels DEF N
<1>3. N \in Nat /\ NULL \in Node /\ 1 \in Side /\ 2 \in Side  BY AtMostAll DEF Node, Side
<1> HIDE DEF N
<1>4. \A i \in 0 .. N : G[i][NULL] = <<>>
  <2> SUFFICES ASSUME NEW i \in 0 .. N PROVE G[i][NULL] = <<>>  OBVIOUS
  <2> DEFINE z == G[i - 1][Child(t, NULL, 1)] \o <<NULL>> \o G[i - 1][Child(t, NULL, 2)]
  <2>1. G[i][NULL] = IF i = 0 \/ NULL = NULL THEN <<>> ELSE z  BY <1>2, <1>3
  <2> HIDE DEF z
  <2> QED BY <2>1
<1> DEFINE Good == {x \in (1 .. N) \X L : Walked(t, L, r, x[2], G[x[1]][x[2]])}
<1>5. ASSUME NEW i \in 1 .. N, NEW m \in L,
             \A e \in Side : Child(t, m, e) # NULL => i - 1 \in 1 .. N /\ <<i - 1, Child(t, m, e)>> \in Good
      PROVE <<i, m>> \in Good
  <2> DEFINE c(e) == Child(t, m, e)
             H == G[i - 1]
  <2>1. ASSUME NEW e \in Side PROVE WalkedOrNone(t, L, r, c(e), H[c(e)])
    <3>1. CASE c(e) = NULL
      <4>1. i - 1 \in 0 .. N  BY <1>3
      <4> QED BY <4>1, <3>1, <1>4 DEF WalkedOrNone
    <3>2. CASE c(e) # NULL
      <4>1. <<i - 1, c(e)>> \in Good  BY <3>2, <1>5
      <4> QED BY <4>1, <3>2 DEF WalkedOrNone
    <3> QED BY <3>1, <3>2
  <2>2. i \in 0 .. N /\ i # 0 /\ m \in Node /\ m # NULL  BY <1>1, <1>3
  <2> DEFINE z == H[c(1)] \o <<m>> \o H[c(2)]
  <2>3. G[i][m] = IF i = 0 \/ m = NULL THEN <<>> ELSE z  BY <2>2, <1>2
  <2> HIDE DEF z
  <2>4. G[i][m] = z  BY <2>2, <2>3
  <2>5. WalkedOrNone(t, L, r, c(1), H[c(1)]) /\ WalkedOrNone(t, L, r, c(2), H[c(2)])  BY <2>1, <1>3
  <2>6. Walked(t, L, r, m, z)
    <3>1. z = H[c(1)] \o <<m>> \o H[c(2)]  BY DEF z
    <3> DEFINE a == c(1)
               b == c(2)
               p == H[a]
               q == H[b]
    <3>2. a = Child(t, m, 1) /\ b = Child(t, m, 2)  OBVIOUS
    <3>3. z = p \o <<m>> \o q /\ WalkedOrNone(t, L, r, a, p) /\ WalkedOrNone(t, L, r, b, q)  BY <3>1, <2>5
    <3> HIDE DEF a, b, p, q
    <3> QED BY ONLY <3>2, <3>3, Links(t, L, r), m \in L, WalkTurns
  <2>7. Walked(t, L, r, m, G[i][m])  BY <2>4, <2>6
  <2> QED BY <2>7
<1> HIDE DEF Good
<1>6. \A m \in L : N \in 1 .. N /\ <<N, m>> \in Good
  BY <1>5, EveryLevel DEF N
<1>7. \A m \in L : Walked(t, L, r, m, G[N][m])  BY <1>6 DEF Good
<1>8. CASE t.root = NULL
  <2>1. L = {}  BY <1>8, NodesAssumption DEF Links
  <2>2. s = <<>>  BY <1>2, <1>3, <1>4, <1>8
  <2>3. Elems(s) = {} /\ Len(s) = 0 /\ s \in Seq(Nodes)  BY <2>2 DEF Elems
  <2> QED BY <2>1, <2>3, FS_EmptySet
<1>9. CASE t.root # NULL
  <2>1. t.root \in L  BY <1>9 DEF Links
  <2>2. Walked(t, L, r, t.root, s)  BY <2>1, <1>2, <1>7
  <2>3. L \subseteq Elems(s)
    <3>1. t.root \in Elems(s) /\ \A m \in L \cap Elems(s) : \A e \in Side :
            Child(t, m, e) # NULL => Child(t, m, e) \in Elems(s)
      BY <2>2 DEF Walked
    <3> QED BY <3>1, FromRoot
  <2>4. Elems(s) = L  BY <2>2, <2>3 DEF Walked
  <2> QED BY <2>2, <2>4 DEF Walked
<1> QED BY <1>8, <1>9

(* size() counts the nodes that are constructed.                           *)
Counted == m_nSize = Cardinality(live)

(* size() is kept right by every step: only insert, bst_destroy and clear  *)
(* change it.                                                              *)
LEMMA CountKept ==
  ASSUME IInv, Counted, [Next]_vars
  PROVE Counted'
<1>1. IsFiniteSet(live)  BY NodesAssumption, FS_Subset DEF IInv
<1>2. CASE m_nSize' = m_nSize /\ live' = live  BY <1>2 DEF Counted
<1>3. CASE m_nSize' = 0 /\ live' = {}  BY <1>3, FS_EmptySet DEF Counted
<1>4. ASSUME NEW n, n \notin live, m_nSize' = m_nSize + 1, live' = live \cup {n} PROVE Counted'
  <2>1. Cardinality(live \cup {n}) = Cardinality(live) + 1  BY <1>1, <1>4, FS_AddElement
  <2> QED BY <2>1, <1>4 DEF Counted
<1>5. CASE Erased
  <2>1. Rebalancing  BY <1>5, PhaseIs DEF Erased
  <2>2. PICK g \in live : EraseCall(call, live \ {g}, g)  BY <2>1 DEF Rebalancing
  <2>3. call.gone = g  BY <2>2, EraseOp
  <2>4. m_nSize' = m_nSize - 1 /\ live' = live \ {g}  BY <1>5, <2>3 DEF Erased
  <2>5. Cardinality(live \ {g}) = Cardinality(live) - 1  BY <1>1, FS_RemoveElement
  <2> QED BY <2>4, <2>5 DEF Counted
<1>6. CASE UNCHANGED vars  BY <1>6, <1>2 DEF vars
<1>7. CASE \/ adjust_insert_case1 \/ adjust_insert_case2 \/ adjust_insert_case3 \/ adjust_insert_case5
           \/ AvlRoot \/ AvlGrow
  BY <1>7, <1>2 DEF adjust_insert_case1, adjust_insert_case2, adjust_insert_case3, adjust_insert_case5,
     AvlRoot, AvlGrow, AtRbtInsert, AtAvlInsert
<1>8. CASE adjust_delete_case2 \/ adjust_delete_case3 \/ adjust_delete_case5 \/ blance_child
  BY <1>8, <1>2 DEF adjust_delete_case2, adjust_delete_case3, adjust_delete_case5, blance_child,
     AtRbtDelete, AtAvlDelete
<1>9. ASSUME NEW n, NEW o, do_erase(n, o) PROVE Counted'
  <2>1. UNCHANGED <<policy, multi, m_nSize, live>>  BY <1>9 DEF do_erase
  <2> QED BY <2>1, <1>2
<1>10. CASE EraseEqual \/ EraseOne \/ EraseNext  BY <1>9, <1>10 DEF EraseEqual, EraseOne, EraseNext
<1>11. CASE EraseReturns \/ EraseRangeReturns \/ take
  BY <1>11, <1>2 DEF EraseReturns, EraseRangeReturns, take
<1>12. CASE clear  BY <1>12, <1>3 DEF clear
<1>13. ASSUME NEW n \in Nodes, insert(n) PROVE Counted'
  <2>1. n \notin live /\ \/ m_nSize' = m_nSize /\ live' = live
                         \/ m_nSize' = m_nSize + 1 /\ live' = live \cup {n}
    BY <1>13 DEF insert
  <2> QED BY <2>1, <1>2, <1>4
<1>14. ASSUME NEW k, erase_key(k) PROVE Counted'  BY <1>14, <1>2 DEF erase_key
<1>15. ASSUME NEW p1, NEW p2, erase_range(p1, p2) PROVE Counted'  BY <1>15, <1>2 DEF erase_range
<1> QED
  BY <1>5, <1>6, <1>7, <1>8, <1>10, <1>11, <1>12, <1>13, <1>14, <1>15 DEF Next, Work

(* At rest a container is balanced.                                        *)
LEMMA RestBalanced ==
  ASSUME IInv, Counted
  PROVE Balanced
<1> SUFFICES ASSUME call = NoCall PROVE
      /\ LET s == InOrder(tree) IN live = {s[i] : i \in DOMAIN s} /\ m_nSize = Len(s)
      /\ IF policy = "rbt"
         THEN LET bd == BlackDepth(tree) IN
              /\ is_black(tree, tree.root)
              /\ \A n \in live :
                   /\ bd[Child(tree, n, 1)] = bd[Child(tree, n, 2)]
                   /\ is_red(tree, n) => \A d \in {1, 2} : is_black(tree, Child(tree, n, d))
         ELSE LET dep == Depth(tree) IN
              \A n \in live :
                /\ Extra(tree, n) = dep[Child(tree, n, 1)] - dep[Child(tree, n, 2)]
                /\ Extra(tree, n) \in -1 .. 1
  BY DEF Balanced
<1>1. Whole(policy, tree, live)  BY PhaseIs DEF Resting
<1>2. PICK r : Links(tree, live, r)  BY <1>1 DEF Whole
<1>3. LET s == InOrder(tree) IN live = {s[i] : i \in DOMAIN s} /\ m_nSize = Len(s)
  <2> DEFINE s == InOrder(tree)
  <2>1. s = InOrder(tree)  OBVIOUS
  <2> HIDE DEF s
  <2>2. Elems(s) = live /\ Len(s) = Cardinality(live)  BY <1>2, <2>1, WalkIs
  <2>3. live = {s[i] : i \in DOMAIN s} /\ m_nSize = Len(s)  BY <2>2 DEF Elems, Counted
  <2> QED BY <2>3 DEF s
<1>4. CASE policy = "rbt"
  <2>1. PICK h : RbtWhole(tree, live, h)  BY <1>1, <1>4 DEF Whole
  <2> QED BY <1>2, <1>3, <1>4, <2>1, RbtBalanced
<1>5. CASE policy = "avl"
  <2>1. PICK h : AvlWhole(tree, live, h)  BY <1>1, <1>5 DEF Whole
  <2> QED BY <1>2, <1>3, <1>5, <2>1, AvlBalanced
<1> QED BY <1>4, <1>5 DEF IInv

(* Between two calls the tree is balanced as its policy demands, the walk  *)
(* from the root meets just the nodes that are constructed, each once, and *)
(* size() counts them: what rbt_depth_real and avl_depth_real look for in  *)
(* the tests, after every sequence of calls.                               *)
THEOREM StaysBalanced == Spec => []Balanced
<1>1. Init => Counted  BY FS_EmptySet DEF Init, Counted
<1>2. IInv /\ Counted /\ [Next]_vars => Counted'  BY CountKept
<1>3. Spec => []Counted  BY <1>1, <1>2, PhasesHold, PTL DEF Spec
<1>4. IInv /\ Counted => Balanced  BY RestBalanced
<1> QED BY <1>3, <1>4, PhasesHold, PTL

------------------------------------------------------------------------------
(* The order of the nodes from left to right (Spread): what a search and    *)
(* an iterator do in it, up to RestFound; and what the calls do to it.     *)

(* From a node up to the root, for any closed set.                         *)
LEMMA RootIsIn ==
  ASSUME NEW t, NEW L, NEW r, Links(t, L, r), NEW Q, Q \subseteq L,
         \A m \in Q : Parent(t, m) # NULL => Parent(t, m) \in Q, Q # {}
  PROVE t.root \in Q
<1> DEFINE next == [m \in Nodes |-> Parent(t, m)]
<1>1. TreeType(t) /\ r \in [Nodes -> Int] /\ Q \subseteq Nodes  BY DEF Links
<1>2. next \in [Nodes -> Node] /\ \A m \in Nodes : next[m] = Parent(t, m)  BY <1>1, TypedNodes
<1> HIDE DEF next
<1>3. PICK n : n \in Q  OBVIOUS
<1>4. \A m \in Q : next[m] # NULL => next[m] \in Q /\ r[next[m]] < r[m]  BY <1>1, <1>2, LinkFacts
<1> DEFINE e == LastOn(next, n)
<1>5. e \in Q /\ next[e] = NULL  BY <1>1, <1>2, <1>3, <1>4, WayEnds
<1> HIDE DEF e
<1>6. e \in L /\ Parent(t, e) = NULL  BY <1>1, <1>2, <1>5
<1>7. e = t.root  BY <1>6, LinkFacts
<1> QED BY <1>5, <1>7

(* What is below a node that is below another one.                         *)
LEMMA SpanNested ==
  ASSUME NEW t, NEW L, NEW r, NEW O, NEW D, Spread(t, L, r, O, D), NEW a \in L, NEW z \in D[a]
  PROVE D[z] \subseteq D[a]
<1> DEFINE Q == {m \in L : z \in D[m] /\ D[m] \subseteq D[a]}
           side(m) == CHOOSE e \in Side : z \in D[Child(t, m, e)]
           next == [m \in Nodes |-> IF m \in Q /\ m # z THEN Child(t, m, side(m)) ELSE NULL]
           q == [m \in Nodes |-> -r[m]]
<1>1. /\ Links(t, L, r) /\ r \in [Nodes -> Nat] /\ L \subseteq Nodes /\ NULL \notin L
      /\ D[NULL] = {} /\ \A m \in L : \A e \in Side : D[Child(t, m, e)] \subseteq D[m]
      /\ \A m \in L : \A y \in D[m] : y = m \/ \E e \in Side : y \in D[Child(t, m, e)]
  BY SpreadFacts
<1>2. ASSUME NEW m \in Q, m # z
      PROVE Child(t, m, side(m)) \in Q /\ r[m] < r[Child(t, m, side(m))]
  <2> DEFINE e == side(m)
             c == Child(t, m, e)
  <2>1. e \in Side /\ z \in D[Child(t, m, e)]
    <3>1. \E f \in Side : z \in D[Child(t, m, f)]  BY <1>1, <1>2
    <3> QED BY <3>1
  <2> HIDE DEF e
  <2>2. c # NULL /\ z \in D[c] /\ D[c] \subseteq D[a]  BY <2>1, <1>1
  <2>3. c \in L /\ r[m] < r[c]  BY <2>1, <2>2, <1>1, LinkFacts
  <2> QED BY <2>2, <2>3 DEF e
<1>3. next \in [Nodes -> Node] /\ \A m \in Nodes : next[m] = IF m \in Q /\ m # z THEN Child(t, m, side(m)) ELSE NULL
  <2>1. \A m \in Q : m # z => Child(t, m, side(m)) \in Node  BY <1>1, <1>2 DEF Node
  <2> HIDE DEF side, Q
  <2> QED BY <2>1 DEF Node
<1>4. q \in [Nodes -> Int] /\ \A m \in Nodes : q[m] = -r[m]  BY <1>1
<1>5. Q \subseteq Nodes /\ a \in Q  BY <1>1
<1> HIDE DEF next, q
<1>6. ASSUME NEW m \in Q, next[m] # NULL PROVE next[m] \in Q /\ q[next[m]] < q[m]
  <2>1. m \in Nodes /\ m # z /\ next[m] = Child(t, m, side(m))  BY <1>3, <1>5, <1>6
  <2>2. next[m] \in Q /\ r[m] < r[next[m]]  BY <2>1, <1>2
  <2>3. r[m] \in Nat /\ r[next[m]] \in Nat /\ q[m] = -r[m] /\ q[next[m]] = -r[next[m]]
    BY <2>1, <2>2, <1>1, <1>4, <1>5
  <2> QED BY <2>2, <2>3
<1> DEFINE e == LastOn(next, a)
<1>7. e \in Q /\ next[e] = NULL
  <2> HIDE DEF Q
  <2> QED BY <1>3, <1>4, <1>5, <1>6, WayEnds
<1> HIDE DEF e
<1>8. e = z
  <2> SUFFICES ASSUME e # z PROVE FALSE  OBVIOUS
  <2>1. Child(t, e, side(e)) = NULL  BY <1>3, <1>5, <1>7
  <2>2. Child(t, e, side(e)) \in L  BY <1>2, <1>7
  <2> QED BY <2>1, <2>2, <1>1
<1> QED BY <1>7, <1>8

(* Below the root are all nodes.                                           *)
LEMMA SpanRoot ==
  ASSUME NEW t, NEW L, NEW r, NEW O, NEW D, Spread(t, L, r, O, D)
  PROVE D[t.root] = L
<1>1. /\ Links(t, L, r) /\ NULL \notin L /\ D[NULL] = {} /\ \A m \in L : m \in D[m] /\ D[m] \subseteq L
      /\ \A m \in L : \A e \in Side : D[Child(t, m, e)] \subseteq D[m]
  BY SpreadFacts
<1> DEFINE Q == {m \in L : m \notin D[t.root]}
<1>2. CASE t.root = NULL  BY <1>1, <1>2 DEF Links
<1>3. CASE t.root # NULL
  <2>1. t.root \in L  BY <1>1, <1>3 DEF Links
  <2>2. ASSUME NEW m \in Q, Parent(t, m) # NULL PROVE Parent(t, m) \in Q
    <3> DEFINE p == Parent(t, m)
    <3>1. p \in L /\ \E e \in Side : Child(t, p, e) = m  BY <2>2, <1>1, LinkFacts
    <3>2. m \in D[p]  BY <3>1, <1>1
    <3>3. p \in D[t.root] => D[p] \subseteq D[t.root]  BY <2>1, SpanNested
    <3> QED BY <3>1, <3>2, <3>3
  <2>3. Q # {} => t.root \in Q
    <3>1. Q \subseteq L  OBVIOUS
    <3> HIDE DEF Q
    <3> QED BY <3>1, <2>2, <1>1, RootIsIn
  <2>4. t.root \in D[t.root]  BY <2>1, <1>1
  <2> QED BY <2>1, <2>3, <2>4, <1>1
<1> QED BY <1>2, <1>3

(* A node that is not below n stands on one side of all that is.           *)
Beside(L, O, A, m) == \E e \in Side : \A z \in A : O[e][z] < O[e][m]

LEMMA SpanApart ==
  ASSUME NEW t, NEW L, NEW r, NEW O, NEW D, Spread(t, L, r, O, D), NEW n \in L, NEW m \in L \ D[n]
  PROVE Beside(L, O, D[n], m)
<1>1. /\ Links(t, L, r) /\ NULL \notin L /\ D[NULL] = {} /\ \A a \in L : a \in D[a] /\ D[a] \subseteq L
      /\ \A a \in L : \A e \in Side : D[Child(t, a, e)] \subseteq D[a]
      /\ \A a \in L : \A e \in Side : \A z \in D[Child(t, a, e)] : O[e][a] < O[e][z]
      /\ \A a \in L : \A z \in D[a] : z = a \/ \E e \in Side : z \in D[Child(t, a, e)]
      /\ \A a \in L : \A e \in Side : O[e][a] \in Int
      /\ \A a \in L : \A d, dd \in Side : d # dd => O[dd][a] = -O[d][a]
  BY SpreadFacts
<1> DEFINE Q == {a \in L : m \notin D[a] /\ ~Beside(L, O, D[a], m)}
<1>2. ASSUME NEW a \in Q, Parent(t, a) # NULL PROVE Parent(t, a) \in Q
  <2> DEFINE p == Parent(t, a)
  <2>1. p \in L /\ \E e \in Side : Child(t, p, e) = a  BY <1>2, <1>1, LinkFacts
  <2>2. PICK e \in Side : Child(t, p, e) = a  BY <2>1
  <2>3. D[a] \subseteq D[p] /\ \A z \in D[a] : O[e][p] < O[e][z]  BY <2>1, <2>2, <1>1
  <2>4. ASSUME m \in D[p] PROVE FALSE
    <3> DEFINE f == 3 - e
    <3>1. f \in Side /\ f # e /\ \A g \in Side : g = e \/ g = f  BY DEF Side
    <3> HIDE DEF f
    <3>2. m = p \/ m \in D[Child(t, p, f)]  BY <2>1, <2>2, <2>4, <3>1, <1>1
    <3>3. m = p \/ O[f][p] < O[f][m]  BY <3>1, <3>2, <2>1, <1>1
    <3>4. \A z \in D[a] : O[f][z] < O[f][m]
      <4> SUFFICES ASSUME NEW z \in D[a] PROVE O[f][z] < O[f][m]  OBVIOUS
      <4>1. z \in L /\ a \in L  BY <1>1
      <4>2. O[e][p] < O[e][z]  BY <2>3
      <4>3. O[f][p] = -O[e][p] /\ O[f][z] = -O[e][z]  BY <2>1, <3>1, <4>1, <1>1
      <4>4. O[f][p] \in Int /\ O[f][z] \in Int /\ O[f][m] \in Int /\ O[e][p] \in Int /\ O[e][z] \in Int
        BY <2>1, <3>1, <4>1, <1>1
      <4> QED BY <4>2, <4>3, <4>4, <3>3
    <3> QED BY <3>1, <3>4, <1>2 DEF Beside
  <2>5. Beside(L, O, D[p], m) => Beside(L, O, D[a], m)  BY <2>3 DEF Beside
  <2> QED BY <2>1, <2>4, <2>5
<1>3. Q # {} => t.root \in Q
  <2>1. Q \subseteq L  OBVIOUS
  <2> HIDE DEF Q
  <2> QED BY <2>1, <1>1, <1>2, RootIsIn
<1>4. D[t.root] = L  BY SpanRoot
<1>5. Q = {}  BY <1>3, <1>4
<1> QED BY <1>5

(* No two nodes stand in the same place.                                   *)
LEMMA PlacesDiffer ==
  ASSUME NEW t, NEW L, NEW r, NEW O, NEW D, Spread(t, L, r, O, D), NEW a \in L, NEW b \in L, a # b, NEW d \in Side
  PROVE O[d][a] # O[d][b]
<1>1. /\ \A m \in L : m \in D[m]
      /\ \A m \in L : \A e \in Side : \A z \in D[Child(t, m, e)] : O[e][m] < O[e][z]
      /\ \A m \in L : \A z \in D[m] : z = m \/ \E e \in Side : z \in D[Child(t, m, e)]
      /\ \A m \in L : \A e \in Side : O[e][m] \in Int
      /\ \A m \in L : \A e, f \in Side : e # f => O[f][m] = -O[e][m]
  BY SpreadFacts
<1>2. \E e \in Side : O[e][a] # O[e][b]
  <2>1. CASE b \in D[a]
    <3>1. PICK e \in Side : O[e][a] < O[e][b]  BY <2>1, <1>1
    <3>2. O[e][a] \in Int /\ O[e][b] \in Int  BY <1>1
    <3>3. O[e][a] # O[e][b]  BY <3>1, <3>2
    <3> QED BY <3>3
  <2>2. CASE b \notin D[a]
    <3>1. Beside(L, O, D[a], b)  BY <2>2, SpanApart
    <3>2. PICK e \in Side : O[e][a] < O[e][b]  BY <3>1, <1>1 DEF Beside
    <3>3. O[e][a] \in Int /\ O[e][b] \in Int  BY <1>1
    <3>4. O[e][a] # O[e][b]  BY <3>2, <3>3
    <3> QED BY <3>4
  <2> QED BY <2>1, <2>2
<1>3. PICK e \in Side : O[e][a] # O[e][b]  BY <1>2
<1>4. CASE e = d  BY <1>3, <1>4
<1>5. CASE e # d
  <2>1. O[e][a] = -O[d][a] /\ O[e][b] = -O[d][b]  BY <1>1, <1>5
  <2> QED BY <2>1, <1>3
<1> QED BY <1>4, <1>5

(* The nodes of G are those that stand from some place on to the side d,    *)
Upper(L, O, d, G) ==
  /\ G \subseteq L
  /\ \A a \in G : \A b \in L : O[d][a] < O[d][b] => b \in G

(* and A holds all nodes about which that place may be.                    *)
Cut(L, O, d, G, A) ==
  \A m \in L \ A : \A z \in A : /\ m \in G => O[d][z] < O[d][m]
                                /\ m \notin G => O[d][m] < O[d][z]

(* One step down towards that place.                                       *)
LEMMA CutBelow ==
  ASSUME NEW t, NEW L, NEW r, NEW O, NEW D, Spread(t, L, r, O, D), NEW d \in Side, NEW G, Upper(L, O, d, G),
         NEW n \in L, Cut(L, O, d, G, D[n]), NEW e \in Side,
         e = d => n \notin G, e # d => n \in G
  PROVE Cut(L, O, d, G, D[Child(t, n, e)])
<1> DEFINE c == Child(t, n, e)
           f == 3 - e
<1>1. /\ \A m \in L : m \in D[m] /\ D[m] \subseteq L
      /\ D[c] \subseteq D[n] /\ \A z \in D[c] : O[e][n] < O[e][z]
      /\ \A z \in D[n] : z = n \/ \E g \in Side : z \in D[Child(t, n, g)]
      /\ \A g \in Side : \A z \in D[Child(t, n, g)] : O[g][n] < O[g][z]
      /\ \A m \in L : \A g \in Side : O[g][m] \in Int
      /\ \A m \in L : \A g, h \in Side : g # h => O[h][m] = -O[g][m]
  BY SpreadFacts
<1>2. f \in Side /\ f # e /\ \A g \in Side : g = e \/ g = f  BY DEF Side
<1> HIDE DEF f
<1>3. ASSUME NEW m \in L \ D[c], NEW z \in D[c]
      PROVE /\ m \in G => O[d][z] < O[d][m]
            /\ m \notin G => O[d][m] < O[d][z]
  <2>1. z \in L /\ z \in D[n] /\ O[e][n] < O[e][z]  BY <1>1
  <2>2. CASE m \notin D[n]  BY <2>1, <2>2 DEF Cut
  <2>3. CASE m \in D[n]
    <3>1. m = n \/ m \in D[Child(t, n, f)]  BY <2>3, <1>1, <1>2
    <3>2. m = n \/ O[f][n] < O[f][m]  BY <3>1, <1>1, <1>2
    <3>3. /\ O[f][n] = -O[e][n] /\ O[f][m] = -O[e][m] /\ O[f][n] \in Int /\ O[f][m] \in Int
          /\ O[e][n] \in Int /\ O[e][m] \in Int /\ O[e][z] \in Int
          /\ O[f][z] \in Int /\ O[f][z] = -O[e][z]
      BY <2>1, <1>1, <1>2
    <3>4. O[e][m] < O[e][z]  BY <2>1, <3>2, <3>3
    <3>5. CASE e = d
      <4>1. m \notin G
        <5>1. n \notin G  BY <3>5
        <5>2. m # n => O[d][m] < O[d][n]  BY <3>2, <3>3, <3>5
        <5> QED BY <5>1, <5>2 DEF Upper
      <4> QED BY <3>4, <3>5, <4>1
    <3>6. CASE e # d
      <4>1. f = d  BY <3>6, <1>2
      <4>2. m \in G
        <5>1. n \in G  BY <3>6
        <5> QED BY <5>1, <3>2, <4>1 DEF Upper
      <4>3. O[f][z] < O[f][m]  BY <3>3, <3>4
      <4> QED BY <4>1, <4>2, <4>3
    <3> QED BY <3>5, <3>6
  <2> QED BY <2>2, <2>3
<1> QED BY <1>3 DEF Cut

(* A descent that goes towards the place where G begins ends next to it.    *)
LEMMA FollowCuts ==
  ASSUME NEW t, NEW L, NEW r, NEW O, NEW D, Spread(t, L, r, O, D), NEW d \in Side, NEW G, Upper(L, O, d, G),
         NEW n \in L, Cut(L, O, d, G, D[n]), NEW dir \in [Nodes -> 0 .. 2],
         \A m \in D[n] : dir[m] \in Side => (dir[m] = d => m \notin G) /\ (dir[m] # d => m \in G),
         NEW e, e = Follow(t, n, dir)
  PROVE /\ e \in L /\ e \in D[n] /\ Cut(L, O, d, G, D[e])
        /\ dir[e] = 0 \/ (dir[e] \in Side /\ Child(t, e, dir[e]) = NULL)
<1> DEFINE Q == {m \in D[n] : Cut(L, O, d, G, D[m])}
           next == [m \in Nodes |-> IF dir[m] = 0 THEN NULL ELSE Child(t, m, dir[m])]
           q == [m \in Nodes |-> -r[m]]
<1>1. e = LastOn(next, n)  BY DEF Follow
<1>2. \A m \in Nodes : dir[m] = 0 \/ dir[m] \in Side  BY DEF Side
<1>3. TreeType(t) /\ Links(t, L, r) /\ Q \subseteq Nodes /\ r \in [Nodes -> Nat] /\ n \in Q
      /\ Q \subseteq L
  BY SpreadFacts DEF Links
<1>4. next \in [Nodes -> Node]
  <2>1. \A m \in Nodes : dir[m] # 0 => Child(t, m, dir[m]) \in Node  BY <1>2, <1>3, TypedNodes
  <2> QED BY <2>1 DEF Node
<1>5. q \in [Nodes -> Int] /\ \A m \in Nodes : q[m] = -r[m]  BY <1>3
<1>6. \A m \in Nodes : next[m] = IF dir[m] = 0 THEN NULL ELSE Child(t, m, dir[m])  OBVIOUS
<1> HIDE DEF next, q
<1>7. ASSUME NEW m \in Q, next[m] # NULL PROVE next[m] \in Q /\ q[next[m]] < q[m]
  <2>1. dir[m] \in Side /\ next[m] = Child(t, m, dir[m]) /\ m \in L /\ m \in D[n]
    BY <1>2, <1>3, <1>6, <1>7
  <2>2. next[m] \in L /\ r[m] < r[next[m]]  BY <2>1, <1>3, <1>7, LinkFacts
  <2>3. Cut(L, O, d, G, D[m]) /\ (dir[m] = d => m \notin G) /\ (dir[m] # d => m \in G)  BY <2>1
  <2>4. Cut(L, O, d, G, D[Child(t, m, dir[m])])  BY <2>1, <2>3, CutBelow
  <2>5. r[m] \in Nat /\ r[next[m]] \in Nat /\ q[m] = -r[m] /\ q[next[m]] = -r[next[m]]
    BY <2>1, <2>2, <1>3, <1>5 DEF Links
  <2>6. next[m] \in D[n]
    <3>1. next[m] \in D[next[m]] /\ D[next[m]] \subseteq D[m]  BY <2>1, <2>2, SpreadFacts
    <3>2. D[m] \subseteq D[n]  BY <2>1, SpanNested
    <3> QED BY <3>1, <3>2
  <2> QED BY <2>1, <2>2, <2>4, <2>5, <2>6
<1>8. LastOn(next, n) \in Q /\ next[LastOn(next, n)] = NULL
  <2> HIDE DEF Q
  <2> QED BY <1>3, <1>4, <1>5, <1>7, WayEnds
<1>9. e \in Q /\ e \in Nodes /\ next[e] = NULL  BY <1>1, <1>3, <1>8
<1> QED BY <1>2, <1>3, <1>6, <1>9

(* From the root any place can be reached.                                 *)
LEMMA CutRoot ==
  ASSUME NEW t, NEW L, NEW r, NEW O, NEW D, Spread(t, L, r, O, D), NEW d, NEW G
  PROVE Cut(L, O, d, G, D[t.root])
BY SpanRoot DEF Cut

(* At its end the nodes of G are those from there on.                      *)
LEMMA CutEnds ==
  ASSUME NEW t, NEW L, NEW r, NEW O, NEW D, Spread(t, L, r, O, D), NEW d \in Side, NEW dd \in Side, dd # d,
         NEW G, Upper(L, O, d, G), NEW e \in L, Cut(L, O, d, G, D[e])
  PROVE /\ e \in G /\ Child(t, e, dd) = NULL => \A m \in L : m \in G <=> O[d][e] <= O[d][m]
        /\ e \notin G /\ Child(t, e, d) = NULL => \A m \in L : m \in G <=> O[d][e] < O[d][m]
<1>1. /\ \A m \in L : m \in D[m] /\ D[m] \subseteq L /\ D[NULL] = {}
      /\ \A z \in D[e] : z = e \/ \E g \in Side : z \in D[Child(t, e, g)]
      /\ \A g \in Side : \A z \in D[Child(t, e, g)] : O[g][e] < O[g][z]
      /\ \A m \in L : \A g \in Side : O[g][m] \in Int
      /\ \A m \in L : O[dd][m] = -O[d][m]
  BY SpreadFacts
<1>2. \A g \in Side : g = d \/ g = dd  BY DEF Side
<1>3. \A m \in L \ D[e] : /\ m \in G => O[d][e] < O[d][m]
                          /\ m \notin G => O[d][m] < O[d][e]
  BY <1>1 DEF Cut
<1>4. ASSUME e \in G, Child(t, e, dd) = NULL, NEW m \in L PROVE m \in G <=> O[d][e] <= O[d][m]
  <2>1. O[d][e] \in Int /\ O[d][m] \in Int  BY <1>1
  <2>2. CASE m \notin D[e]  BY <2>1, <2>2, <1>3
  <2>3. CASE m \in D[e]
    <3>1. m = e \/ m \in D[Child(t, e, d)]  BY <2>3, <1>1, <1>2, <1>4
    <3>2. m = e \/ O[d][e] < O[d][m]  BY <3>1, <1>1
    <3>3. m \in G  BY <3>2, <1>4 DEF Upper
    <3> QED BY <2>1, <3>2, <3>3
  <2> QED BY <2>2, <2>3
<1>5. ASSUME e \notin G, Child(t, e, d) = NULL, NEW m \in L PROVE m \in G <=> O[d][e] < O[d][m]
  <2>1. O[d][e] \in Int /\ O[d][m] \in Int /\ O[dd][e] = -O[d][e] /\ O[dd][m] = -O[d][m]
        /\ O[dd][e] \in Int /\ O[dd][m] \in Int
    BY <1>1
  <2>2. CASE m \notin D[e]  BY <2>1, <2>2, <1>3
  <2>3. CASE m \in D[e]
    <3>1. m = e \/ m \in D[Child(t, e, dd)]  BY <2>3, <1>1, <1>2, <1>5
    <3>2. m = e \/ O[dd][e] < O[dd][m]  BY <3>1, <1>1
    <3>3. m = e \/ O[d][m] < O[d][e]  BY <2>1, <3>2
    <3>4. m \notin G  BY <3>3, <1>5 DEF Upper
    <3> QED BY <2>1, <3>3, <3>4
  <2> QED BY <2>2, <2>3
<1> QED BY <1>4, <1>5

------------------------------------------------------------------------------
(* Iterators.                                                              *)

(* The node s is the next one after n to the side d, NULL that there is none. *)
After(L, O, d, n, s) ==
  /\ s = NULL => \A m \in L : O[d][m] <= O[d][n]
  /\ s # NULL => /\ s \in L /\ O[d][n] < O[d][s]
                 /\ \A m \in L : O[d][n] < O[d][m] => O[d][s] <= O[d][m]

(* Down from a node that has a child on that side,                         *)
LEMMA LowestNext ==
  ASSUME NEW t, NEW L, NEW r, NEW O, NEW D, Spread(t, L, r, O, D), NEW n \in L,
         NEW d \in Side, NEW dd \in Side, dd # d, NEW c, c = Child(t, n, d), c # NULL, NEW s, s = Lowest(t, c, dd)
  PROVE After(L, O, d, n, s)
<1> DEFINE G == {m \in L : O[d][n] < O[d][m]}
           dir == [m \in Nodes |-> dd]
<1>1. /\ Links(t, L, r) /\ NULL \notin L /\ D[NULL] = {} /\ \A m \in L : m \in D[m] /\ D[m] \subseteq L
      /\ \A z \in D[n] : z = n \/ \E g \in Side : z \in D[Child(t, n, g)]
      /\ \A g \in Side : \A z \in D[Child(t, n, g)] : O[g][n] < O[g][z]
      /\ \A m \in L : \A g \in Side : O[g][m] \in Int
      /\ \A m \in L : \A g, h \in Side : g # h => O[h][m] = -O[g][m]
      /\ D[c] \subseteq D[n] /\ D[c] \subseteq L /\ L \subseteq Nodes
  BY SpreadFacts
<1>2. c \in L  BY <1>1, LinkFacts
<1>3. Upper(L, O, d, G)
  <2>1. ASSUME NEW a \in G, NEW b \in L, O[d][a] < O[d][b] PROVE b \in G
    <3>1. O[d][n] \in Int /\ O[d][a] \in Int /\ O[d][b] \in Int  BY <1>1
    <3> QED BY <2>1, <3>1
  <2> QED BY <2>1 DEF Upper
<1>4. \A g \in Side : g = d \/ g = dd  BY DEF Side
<1>5. Cut(L, O, d, G, D[c])
  <2> SUFFICES ASSUME NEW m \in L \ D[c], NEW z \in D[c]
               PROVE /\ m \in G => O[d][z] < O[d][m]
                     /\ m \notin G => O[d][m] < O[d][z]
    BY DEF Cut
  <2>1. z \in L /\ O[d][n] < O[d][z] /\ n \in D[n] /\ z \in D[n]  BY <1>1
  <2>2. O[d][n] \in Int /\ O[d][z] \in Int /\ O[d][m] \in Int  BY <2>1, <1>1
  <2>3. m \notin G => O[d][m] < O[d][z]  BY <2>1, <2>2
  <2>4. ASSUME m \in G PROVE O[d][z] < O[d][m]
    <3>1. O[d][n] < O[d][m]  BY <2>4
    <3>2. m \notin D[n]
      <4> SUFFICES ASSUME m \in D[n] PROVE FALSE  OBVIOUS
      <4>1. m = n \/ m \in D[Child(t, n, dd)]  BY <1>1, <1>4
      <4>2. m = n \/ O[dd][n] < O[dd][m]  BY <4>1, <1>1
      <4>3. O[dd][n] = -O[d][n] /\ O[dd][m] = -O[d][m]  BY <1>1
      <4> QED BY <4>2, <4>3, <3>1, <2>2
    <3>3. PICK e \in Side : \A y \in D[n] : O[e][y] < O[e][m]  BY <3>2, SpanApart DEF Beside
    <3>4. CASE e = d  BY <3>3, <3>4, <2>1
    <3>5. CASE e = dd
      <4>1. O[dd][n] < O[dd][m]  BY <3>3, <3>5, <2>1
      <4>2. O[dd][n] = -O[d][n] /\ O[dd][m] = -O[d][m]  BY <1>1
      <4> QED BY <4>1, <4>2, <3>1, <2>2
    <3> QED BY <3>4, <3>5, <1>4
  <2> QED BY <2>3, <2>4
<1>6. dir \in [Nodes -> 0 .. 2] /\ \A m \in Nodes : dir[m] = dd  BY DEF Side
<1>7. s = Follow(t, c, dir)  BY DEF Lowest
<1> HIDE DEF dir
<1>8. \A m \in D[c] : m \in G /\ m \in Nodes  BY <1>1
<1> HIDE DEF G
<1>9. s \in L /\ s \in D[c] /\ Cut(L, O, d, G, D[s]) /\ (dir[s] = 0 \/ (dir[s] \in Side /\ Child(t, s, dir[s]) = NULL))
  BY <1>2, <1>3, <1>5, <1>6, <1>7, <1>8, FollowCuts
<1>10. s \in G /\ Child(t, s, dd) = NULL /\ s # NULL
  <2>1. dir[s] = dd /\ dd # 0  BY <1>6, <1>8, <1>9 DEF Side
  <2> QED BY <2>1, <1>1, <1>8, <1>9
<1>11. \A m \in L : m \in G <=> O[d][s] <= O[d][m]  BY <1>3, <1>9, <1>10, CutEnds
<1>12. \A m \in L : m \in G <=> O[d][n] < O[d][m]  BY DEF G
<1> QED BY <1>9, <1>10, <1>11, <1>12 DEF After

(* or up to the first node on whose other side it is.                      *)
LEMMA HighestNext ==
  ASSUME NEW t, NEW L, NEW r, NEW O, NEW D, Spread(t, L, r, O, D), NEW n \in L,
         NEW d \in Side, Child(t, n, d) = NULL, NEW s, s = Parent(t, Highest(t, n, d))
  PROVE After(L, O, d, n, s)
<1> DEFINE dd == 3 - d
           next == [m \in Nodes |-> LET p == Parent(t, m) IN
            IF p # NULL THEN IF Child(t, p, dd) # m THEN p ELSE NULL ELSE NULL]
           x == Highest(t, n, d)
           Q == {m \in L : n \in D[m] /\ \A z \in D[m] : O[d][z] <= O[d][n]}
<1>1. /\ Links(t, L, r) /\ NULL \notin L /\ D[NULL] = {} /\ \A m \in L : m \in D[m] /\ D[m] \subseteq L
      /\ \A m \in L : \A z \in D[m] : z = m \/ \E g \in Side : z \in D[Child(t, m, g)]
      /\ \A m \in L : \A g \in Side : \A z \in D[Child(t, m, g)] : O[g][m] < O[g][z]
      /\ \A m \in L : \A g \in Side : D[Child(t, m, g)] \subseteq D[m]
      /\ \A m \in L : \A g \in Side : O[g][m] \in Int
      /\ \A m \in L : \A g, h \in Side : g # h => O[h][m] = -O[g][m]
      /\ L \subseteq Nodes /\ r \in [Nodes -> Nat]
  BY SpreadFacts
<1>2. dd \in Side /\ dd # d /\ \A g \in Side : g = d \/ g = dd  BY DEF Side
<1>3. x = LastOn(next, n)  BY DEF Highest
<1>4. /\ next \in [Nodes -> Node]
      /\ \A m \in Nodes : next[m] = IF Parent(t, m) # NULL THEN IF Child(t, Parent(t, m), dd) # m THEN Parent(t, m) ELSE NULL ELSE NULL
  <2>1. \A m \in Nodes : Parent(t, m) \in Node  BY <1>1, TypedNodes DEF Links
  <2> QED BY <2>1 DEF Node
<1> HIDE DEF dd, next, x
<1>5. ASSUME NEW m \in L, \A z \in D[Child(t, m, d)] : O[d][z] <= O[d][n], O[d][m] <= O[d][n], n \in L
      PROVE \A z \in D[m] : O[d][z] <= O[d][n]
  <2> SUFFICES ASSUME NEW z \in D[m] PROVE O[d][z] <= O[d][n]  OBVIOUS
  <2>1. z \in L /\ (z = m \/ z \in D[Child(t, m, d)] \/ z \in D[Child(t, m, dd)])  BY <1>1, <1>2
  <2>2. CASE z \in D[Child(t, m, dd)]
    <3>1. O[dd][m] < O[dd][z]  BY <2>2, <1>1, <1>2
    <3>2. /\ O[dd][m] = -O[d][m] /\ O[dd][z] = -O[d][z] /\ O[d][m] \in Int /\ O[d][z] \in Int /\ O[d][n] \in Int
          /\ O[dd][m] \in Int /\ O[dd][z] \in Int
      BY <2>1, <1>1, <1>2
    <3> QED BY <3>1, <3>2, <1>5
  <2> QED BY <2>1, <2>2, <1>5
<1>6. n \in Q
  <2>1. O[d][n] <= O[d][n] /\ D[Child(t, n, d)] = {}
    <3>1. O[d][n] \in Int  BY <1>1
    <3> QED BY <3>1, <1>1
  <2> QED BY <2>1, <1>1, <1>5
<1>7. ASSUME NEW m \in Q, next[m] # NULL PROVE next[m] \in Q /\ r[next[m]] < r[m]
  <2> DEFINE p == Parent(t, m)
  <2>1. next[m] = p /\ p # NULL /\ Child(t, p, dd) # m  BY <1>1, <1>4, <1>7
  <2>2. p \in L /\ r[p] < r[m] /\ \E e \in Side : Child(t, p, e) = m  BY <2>1, <1>1, LinkFacts
  <2>3. Child(t, p, d) = m  BY <2>1, <2>2, <1>2
  <2>4. D[m] \subseteq D[p] /\ O[d][p] < O[d][n]  BY <2>2, <2>3, <1>1
  <2>5. O[d][p] <= O[d][n]
    <3>1. O[d][p] \in Int /\ O[d][n] \in Int  BY <2>2, <1>1
    <3> QED BY <3>1, <2>4
  <2>6. \A z \in D[p] : O[d][z] <= O[d][n]  BY <2>2, <2>3, <2>5, <1>5
  <2> QED BY <2>1, <2>2, <2>4, <2>6
<1>8. x \in Q /\ next[x] = NULL
  <2>1. Q \subseteq Nodes /\ r \in [Nodes -> Int]  BY <1>1
  <2> HIDE DEF Q
  <2> QED BY <2>1, <1>3, <1>4, <1>6, <1>7, WayEnds
<1>9. s = Parent(t, x)  BY DEF x
<1>10. x \in L /\ n \in D[x] /\ \A z \in D[x] : O[d][z] <= O[d][n]  BY <1>8
<1>11. CASE s = NULL
  <2>0. Parent(t, x) = NULL /\ x \in L /\ Links(t, L, r)  BY <1>1, <1>9, <1>10, <1>11
  <2>1. x = t.root  BY <2>0, LinkFacts
  <2>2. D[x] = L  BY <2>1, SpanRoot
  <2> QED BY <2>2, <1>10, <1>11 DEF After
<1>12. CASE s # NULL
  <2>1. s \in L  BY <1>1, <1>9, <1>10, <1>12, LinkFacts
  <2>2. Child(t, s, dd) = x  BY <1>1, <1>4, <1>8, <1>9, <1>10, <1>12
  <2>3. D[x] \subseteq D[s] /\ O[dd][s] < O[dd][n] /\ s \in D[s]  BY <2>1, <2>2, <1>1, <1>2, <1>10
  <2>4. /\ O[dd][s] = -O[d][s] /\ O[dd][n] = -O[d][n] /\ O[d][s] \in Int /\ O[d][n] \in Int
        /\ O[dd][s] \in Int /\ O[dd][n] \in Int
    BY <2>1, <1>1, <1>2
  <2>5. O[d][n] < O[d][s]  BY <2>3, <2>4
  <2>6. ASSUME NEW m \in L, O[d][n] < O[d][m] PROVE O[d][s] <= O[d][m]
    <3>1. O[d][m] \in Int /\ O[dd][m] = -O[d][m] /\ O[dd][m] \in Int  BY <1>1, <1>2
    <3>2. m \notin D[x]
      <4>1. m \in D[x] => O[d][m] <= O[d][n]  BY <1>10
      <4> QED BY <4>1, <2>4, <2>6, <3>1
    <3>3. CASE m \in D[s]
      <4>1. m = s \/ m \in D[Child(t, s, d)]  BY <2>1, <2>2, <3>2, <3>3, <1>1, <1>2
      <4>2. m = s \/ O[d][s] < O[d][m]  BY <4>1, <2>1, <1>1
      <4> QED BY <4>2, <2>4, <3>1
    <3>4. CASE m \notin D[s]
      <4>1. PICK e \in Side : \A y \in D[s] : O[e][y] < O[e][m]  BY <2>1, <3>4, SpanApart DEF Beside
      <4>2. O[e][s] < O[e][m] /\ O[e][n] < O[e][m]  BY <4>1, <2>3, <1>10
      <4>3. CASE e = d  BY <4>2, <4>3, <2>4, <3>1
      <4>4. CASE e = dd  BY <4>2, <4>4, <2>4, <2>6, <3>1
      <4> QED BY <4>3, <4>4, <1>2
    <3> QED BY <3>3, <3>4
  <2> QED BY <2>1, <2>5, <2>6, <1>12 DEF After
<1> QED BY <1>11, <1>12

(* nd_inc and nd_dec give the next node in the order of the tree.          *)
LEMMA StepNext ==
  ASSUME NEW t, NEW L, NEW r, NEW O, NEW D, Spread(t, L, r, O, D), NEW n \in L, NEW d \in Side
  PROVE After(L, O, d, n, Step(t, n, d))
<1> DEFINE dd == 3 - d
           c == Child(t, n, d)
<1>1. dd \in Side /\ dd # d  BY DEF Side
<1>2. Step(t, n, d) = IF c # NULL THEN Lowest(t, c, dd) ELSE Parent(t, Highest(t, n, d))  BY DEF Step
<1>3. c = Child(t, n, d)  OBVIOUS
<1> HIDE DEF dd, c
<1>4. CASE c # NULL
  <2> DEFINE s == Lowest(t, c, dd)
  <2>1. s = Lowest(t, c, dd) /\ Step(t, n, d) = s  BY <1>2, <1>4
  <2> HIDE DEF s
  <2>2. After(L, O, d, n, s)  BY <2>1, <1>1, <1>3, <1>4, LowestNext
  <2> QED BY <2>1, <2>2
<1>5. CASE c = NULL
  <2> DEFINE s == Parent(t, Highest(t, n, d))
  <2>1. s = Parent(t, Highest(t, n, d)) /\ Step(t, n, d) = s  BY <1>2, <1>5
  <2> HIDE DEF s
  <2>2. After(L, O, d, n, s)  BY <2>1, <1>3, <1>5, HighestNext
  <2> QED BY <2>1, <2>2
<1> QED BY <1>4, <1>5

------------------------------------------------------------------------------
(* The searches.                                                           *)

(* From left to right the keys do not fall, and rise if equal ones are not  *)
(* kept.                                                                   *)
Sorted(L, O, M) ==
  \A a, b \in L : O[2][a] < O[2][b] => Key[a] < Key[b] \/ (M /\ Key[a] = Key[b])

(* s is the leftmost node of G, or NULL.                                   *)
Leftmost(O, G, s) ==
  /\ s = NULL => G = {}
  /\ s # NULL => s \in G /\ \A m \in G : O[2][s] <= O[2][m]

Least(L, k) == {m \in L : k <= Key[m]}
Above(L, k) == {m \in L : k < Key[m]}

(* What stands to the right of a key.                                      *)
LEMMA KeysUpper ==
  ASSUME NEW L, L \subseteq Nodes, NEW O, NEW M, Sorted(L, O, M), NEW k \in Nat, NEW d, d = 2
  PROVE Upper(L, O, d, Least(L, k)) /\ Upper(L, O, d, Above(L, k))
<1>1. \A m \in L : Key[m] \in Nat  BY KeyAssumption
<1>2. \A a, b \in L : O[d][a] < O[d][b] => Key[a] <= Key[b]  BY <1>1 DEF Sorted
<1>3. ASSUME NEW a \in L, NEW b \in L, O[d][a] < O[d][b]
      PROVE (k <= Key[a] => k <= Key[b]) /\ (k < Key[a] => k < Key[b])
  <2>1. Key[a] <= Key[b] /\ Key[a] \in Nat /\ Key[b] \in Nat  BY <1>1, <1>2, <1>3
  <2> QED BY <2>1
<1> QED BY <1>3 DEF Upper, Least, Above

(* Where a search ends, and how it goes on by one step, is the first node of *)
(* those that it looks for.                                                *)
LEMMA EndsLeftmost ==
  ASSUME NEW t, NEW L, NEW r, NEW O, NEW D, Spread(t, L, r, O, D), NEW d, d = 2, NEW G, Upper(L, O, d, G),
         NEW e \in L, Cut(L, O, d, G, D[e]),
         e \in G => Child(t, e, 1) = NULL, e \notin G => Child(t, e, 2) = NULL,
         NEW s, s = IF e \in G THEN e ELSE Step(t, e, 2)
  PROVE Leftmost(O, G, s)
<1> DEFINE dd == 1
<1>1. d \in Side /\ dd \in Side /\ dd # d  BY DEF Side
<1>2. e \in G => Child(t, e, dd) = NULL  OBVIOUS
<1>3. e \notin G => Child(t, e, d) = NULL  OBVIOUS
<1> HIDE DEF dd
<1>4. /\ e \in G => \A m \in L : m \in G <=> O[d][e] <= O[d][m]
      /\ e \notin G => \A m \in L : m \in G <=> O[d][e] < O[d][m]
  BY <1>1, <1>2, <1>3, CutEnds
<1>5. G \subseteq L /\ NULL \notin L /\ \A m \in L : O[d][m] \in Int  BY <1>1, SpreadFacts DEF Upper
<1>6. CASE e \in G
  <2>1. s = e /\ s # NULL  BY <1>5, <1>6
  <2> QED BY <2>1, <1>4, <1>5, <1>6 DEF Leftmost
<1>7. CASE e \notin G
  <2>1. s = Step(t, e, d)  BY <1>7
  <2>2. After(L, O, d, e, s)  BY <1>1, <2>1, StepNext
  <2>3. CASE s = NULL
    <3>1. \A m \in L : m \notin G  BY <2>2, <2>3, <1>4, <1>5, <1>7 DEF After
    <3> QED BY <2>3, <3>1, <1>5 DEF Leftmost
  <2>4. CASE s # NULL
    <3>1. s \in L /\ O[d][e] < O[d][s] /\ \A m \in L : O[d][e] < O[d][m] => O[d][s] <= O[d][m]
      BY <2>2, <2>4 DEF After
    <3> QED BY <2>4, <3>1, <1>4, <1>5, <1>7 DEF Leftmost
  <2> QED BY <2>3, <2>4
<1> QED BY <1>6, <1>7

(* Where the descent for a key ends.                                       *)
LEMMA LocateCuts ==
  ASSUME NEW t, NEW L, NEW r, NEW O, NEW D, Spread(t, L, r, O, D), NEW d, d = 2, NEW G, Upper(L, O, d, G),
         t.root # NULL, NEW k \in Nat, NEW deep \in BOOLEAN,
         \A m \in L : /\ k < Key[m] => m \in G
                      /\ Key[m] < k \/ (deep /\ ~(k < Key[m])) => m \notin G,
         NEW p, p = Locate(t, k, deep)
  PROVE p \in L /\ Cut(L, O, d, G, D[p])
<1> DEFINE dir == [m \in Nodes |-> IF k < Key[m] THEN 1
                                  ELSE IF Key[m] < k \/ deep THEN 2 ELSE 0]
<1>1. p = Follow(t, t.root, dir)  BY DEF Locate
<1>2. dir \in [Nodes -> 0 .. 2]
  <2>1. 0 \in 0 .. 2 /\ 1 \in 0 .. 2 /\ 2 \in 0 .. 2  OBVIOUS
  <2> HIDE DEF dir
  <2>2. dir = [m \in Nodes |-> IF k < Key[m] THEN 1 ELSE IF Key[m] < k \/ deep THEN 2 ELSE 0]  BY DEF dir
  <2> QED BY <2>1, <2>2
<1>3. Links(t, L, r) /\ L \subseteq Nodes /\ d \in Side  BY SpreadFacts DEF Side
<1>4. t.root \in L  BY <1>3 DEF Links
<1>d. \A m \in Nodes : dir[m] = IF k < Key[m] THEN 1 ELSE IF Key[m] < k \/ deep THEN 2 ELSE 0  OBVIOUS
<1> HIDE DEF dir
<1>5. ASSUME NEW m \in L, dir[m] \in Side
      PROVE (dir[m] = d => m \notin G) /\ (dir[m] # d => m \in G)
  <2>1. dir[m] \in Side /\ m \in Nodes /\ Key[m] \in Nat  BY <1>3, <1>5, KeyAssumption
  <2>2. CASE k < Key[m]
    <3>1. dir[m] = 1 /\ m \in G  BY <2>1, <2>2, <1>d
    <3> QED BY <3>1
  <2>3. CASE ~(k < Key[m])
    <3>1. (Key[m] < k \/ deep) /\ dir[m] = 2  BY <2>1, <2>3, <1>d DEF Side
    <3>2. m \notin G  BY <3>1, <2>3
    <3> QED BY <3>1, <3>2
  <2> QED BY <2>2, <2>3
<1>6. Cut(L, O, d, G, D[t.root])  BY CutRoot
<1>7. D[t.root] = L  BY SpanRoot
<1> QED BY <1>1, <1>2, <1>3, <1>4, <1>5, <1>6, <1>7, FollowCuts

(* And where it goes on from an equal node.                                *)
LEMMA FollowLeftmost ==
  ASSUME NEW t, NEW L, NEW r, NEW O, NEW D, Spread(t, L, r, O, D), NEW d, d = 2, NEW G, Upper(L, O, d, G),
         NEW n \in L, Cut(L, O, d, G, D[n]), NEW dir \in [Nodes -> Side],
         \A m \in L : dir[m] = 1 <=> m \in G,
         NEW e, e = Follow(t, n, dir), NEW s, s = IF e \in G THEN e ELSE Step(t, e, 2)
  PROVE e \in L /\ Leftmost(O, G, s)
<1>1. L \subseteq Nodes /\ d \in Side /\ \A m \in Node : D[m] \subseteq L  BY SpreadFacts DEF Side
<1>2. dir \in [Nodes -> 0 .. 2] /\ \A m \in Nodes : dir[m] \in {1, 2}  BY DEF Side
<1>3. \A m \in D[n] : dir[m] \in Side => (dir[m] = d => m \notin G) /\ (dir[m] # d => m \in G)
  BY <1>1, <1>2, SpreadFacts
<1>4. e \in L /\ Cut(L, O, d, G, D[e]) /\ (dir[e] = 0 \/ (dir[e] \in Side /\ Child(t, e, dir[e]) = NULL))
  BY <1>1, <1>2, <1>3, FollowCuts
<1>5. dir[e] \in {1, 2} /\ Child(t, e, dir[e]) = NULL /\ (dir[e] = 1 <=> e \in G)  BY <1>1, <1>2, <1>4
<1>6. (e \in G => Child(t, e, 1) = NULL) /\ (e \notin G => Child(t, e, 2) = NULL)  BY <1>5
<1> QED BY <1>4, <1>6, EndsLeftmost

(* lower_bound gives the first node whose key is not less than k.          *)
LEMMA LowerLeftmost ==
  ASSUME NEW t, NEW L, NEW r, NEW O, NEW D, Spread(t, L, r, O, D), Sorted(L, O, multi), multi \in BOOLEAN,
         NEW k \in Nat, NEW s, s = lower_bound(t, k)
  PROVE Leftmost(O, Least(L, k), s)
<1> DEFINE d == 2
           G == Least(L, k)
           deep == FALSE
           n == Locate(t, k, deep)
           dir == [x \in Nodes |-> IF Key[x] < k THEN 2 ELSE 1]
           e == Follow(t, n, dir)
           m == IF Key[n] = k /\ multi THEN e ELSE n
<1>1. L \subseteq Nodes /\ NULL \notin L /\ Links(t, L, r) /\ d \in Side  BY SpreadFacts DEF Side
<1>2. Upper(L, O, d, G)  BY <1>1, KeysUpper
<1>3. t.root # NULL => s = IF Key[m] < k THEN Step(t, m, 2) ELSE m  BY DEF lower_bound
<1>4. \A x \in L : x \in Nodes /\ Key[x] \in Nat /\ (x \in G <=> k <= Key[x]) /\ (x \in G <=> ~(Key[x] < k))
  BY <1>1, KeyAssumption DEF Least
<1>5. CASE t.root = NULL
  <2>1. s = NULL  BY <1>5 DEF lower_bound
  <2>2. L = {}  BY <1>1, <1>5 DEF Links
  <2> QED BY <2>1, <2>2 DEF Leftmost, Least
<1>6. CASE t.root # NULL
  <2>0. deep \in BOOLEAN /\ ~deep /\ n = Locate(t, k, deep)  OBVIOUS
  <2> HIDE DEF deep, n, d, G
  <2>1. n \in L /\ Cut(L, O, d, G, D[n])
    <3>1. \A x \in L : /\ k < Key[x] => x \in G
                       /\ Key[x] < k \/ (deep /\ ~(k < Key[x])) => x \notin G
      BY <1>4, <2>0
    <3>2. d = 2  BY DEF d
    <3> QED BY <3>1, <3>2, <2>0, <1>2, <1>6, LocateCuts
  <2>2. (k < Key[n] => Child(t, n, 1) = NULL) /\ (Key[n] < k => Child(t, n, 2) = NULL)
    BY <2>0, <1>1, <1>6, LocateIs
  <2>3. CASE Key[n] = k /\ multi
    <3>1. dir \in [Nodes -> Side] /\ \A x \in Nodes : dir[x] = IF Key[x] < k THEN 2 ELSE 1  BY DEF Side
    <3>2. e = Follow(t, n, dir)  OBVIOUS
    <3> HIDE DEF dir, e
    <3>3. \A x \in L : dir[x] = 1 <=> x \in G  BY <3>1, <1>4
    <3> DEFINE z == IF e \in G THEN e ELSE Step(t, e, 2)
    <3>4. z = IF e \in G THEN e ELSE Step(t, e, 2)  OBVIOUS
    <3> HIDE DEF z
    <3>6. d = 2  BY DEF d
    <3>5. e \in L /\ Leftmost(O, G, z)  BY <3>1, <3>2, <3>3, <3>4, <3>6, <2>1, <1>2, FollowLeftmost
    <3>7. s = IF Key[e] < k THEN Step(t, e, 2) ELSE e  BY <2>3, <1>3, <1>6
    <3>8. s = z  BY <3>4, <3>5, <3>7, <1>4
    <3> QED BY <3>5, <3>8 DEF G
  <2>4. CASE ~(Key[n] = k /\ multi)
    <3>1. s = IF n \in G THEN n ELSE Step(t, n, 2)  BY <2>1, <2>4, <1>3, <1>4, <1>6
    <3>2. CASE Key[n] # k
      <4>1. (n \in G => Child(t, n, 1) = NULL) /\ (n \notin G => Child(t, n, 2) = NULL)
        BY <2>1, <2>2, <3>2, <1>4
      <4>2. d = 2  BY DEF d
      <4>3. Leftmost(O, G, s)  BY <2>1, <3>1, <4>1, <4>2, <1>2, EndsLeftmost
      <4> QED BY <4>3 DEF G
    <3>3. CASE Key[n] = k /\ ~multi
      <4>1. n \in G /\ s = n /\ s # NULL  BY <2>1, <3>1, <3>3, <1>1, <1>4
      <4>2. ASSUME NEW x \in G PROVE O[2][n] <= O[2][x]
        <5>1. x \in L /\ ~(Key[x] < Key[n])  BY <3>3, <1>4 DEF G, Least
        <5>2. ~(O[2][x] < O[2][n])  BY <5>1, <2>1, <3>3 DEF Sorted
        <5>3. O[2][x] \in Int /\ O[2][n] \in Int  BY <5>1, <2>1, SpreadFacts DEF Side
        <5> QED BY <5>2, <5>3
      <4> QED BY <4>1, <4>2 DEF Leftmost, G
    <3> QED BY <2>4, <3>2, <3>3
  <2> QED BY <2>3, <2>4
<1> QED BY <1>5, <1>6

(* upper_bound gives the first node whose key is greater than k.           *)
LEMMA UpperLeftmost ==
  ASSUME NEW t, NEW L, NEW r, NEW O, NEW D, Spread(t, L, r, O, D), Sorted(L, O, multi), multi \in BOOLEAN,
         NEW k \in Nat, NEW s, s = upper_bound(t, k)
  PROVE Leftmost(O, Above(L, k), s)
<1> DEFINE d == 2
           G == Above(L, k)
           deep == FALSE
           n == Locate(t, k, deep)
           dir == [x \in Nodes |-> IF k < Key[x] THEN 1 ELSE 2]
           e == Follow(t, n, dir)
           m == IF Key[n] = k /\ multi THEN e ELSE n
<1>1. L \subseteq Nodes /\ NULL \notin L /\ Links(t, L, r) /\ d \in Side  BY SpreadFacts DEF Side
<1>2. Upper(L, O, d, G)  BY <1>1, KeysUpper
<1>3. t.root # NULL => s = IF k < Key[m] THEN m ELSE Step(t, m, 2)  BY DEF upper_bound
<1>4. \A x \in L : x \in Nodes /\ Key[x] \in Nat /\ (x \in G <=> k < Key[x])
  BY <1>1, KeyAssumption DEF Above
<1>5. CASE t.root = NULL
  <2>1. s = NULL  BY <1>5 DEF upper_bound
  <2>2. L = {}  BY <1>1, <1>5 DEF Links
  <2> QED BY <2>1, <2>2 DEF Leftmost, Above
<1>6. CASE t.root # NULL
  <2>0. deep \in BOOLEAN /\ ~deep /\ n = Locate(t, k, deep)  OBVIOUS
  <2> HIDE DEF deep, n, d, G
  <2>1. n \in L /\ Cut(L, O, d, G, D[n])
    <3>1. \A x \in L : /\ k < Key[x] => x \in G
                       /\ Key[x] < k \/ (deep /\ ~(k < Key[x])) => x \notin G
      BY <1>4, <2>0
    <3>2. d = 2  BY DEF d
    <3> QED BY <3>1, <3>2, <2>0, <1>2, <1>6, LocateCuts
  <2>2. (k < Key[n] => Child(t, n, 1) = NULL) /\ (Key[n] < k => Child(t, n, 2) = NULL)
    BY <2>0, <1>1, <1>6, LocateIs
  <2>3. CASE Key[n] = k /\ multi
    <3>1. dir \in [Nodes -> Side] /\ \A x \in Nodes : dir[x] = IF k < Key[x] THEN 1 ELSE 2  BY DEF Side
    <3>2. e = Follow(t, n, dir)  OBVIOUS
    <3> HIDE DEF dir, e
    <3>3. \A x \in L : dir[x] = 1 <=> x \in G  BY <3>1, <1>4
    <3> DEFINE z == IF e \in G THEN e ELSE Step(t, e, 2)
    <3>4. z = IF e \in G THEN e ELSE Step(t, e, 2)  OBVIOUS
    <3> HIDE DEF z
    <3>6. d = 2  BY DEF d
    <3>5. e \in L /\ Leftmost(O, G, z)  BY <3>1, <3>2, <3>3, <3>4, <3>6, <2>1, <1>2, FollowLeftmost
    <3>7. s = IF k < Key[e] THEN e ELSE Step(t, e, 2)  BY <2>3, <1>3, <1>6
    <3>8. s = z  BY <3>4, <3>5, <3>7, <1>4
    <3> QED BY <3>5, <3>8 DEF G
  <2>4. CASE ~(Key[n] = k /\ multi)
    <3>1. s = IF n \in G THEN n ELSE Step(t, n, 2)  BY <2>1, <2>4, <1>3, <1>4, <1>6
    <3>2. CASE Key[n] # k
      <4>1. (n \in G => Child(t, n, 1) = NULL) /\ (n \notin G => Child(t, n, 2) = NULL)
        BY <2>1, <2>2, <3>2, <1>4
      <4>2. d = 2  BY DEF d
      <4>3. Leftmost(O, G, s)  BY <2>1, <3>1, <4>1, <4>2, <1>2, EndsLeftmost
      <4> QED BY <4>3 DEF G
    <3>3. CASE Key[n] = k /\ ~multi
      <4>1. n \notin G /\ s = Step(t, n, d)  BY <2>1, <3>1, <3>3, <1>4 DEF d
      <4>2. After(L, O, d, n, s)  BY <2>1, <4>1, <1>1, StepNext
      <4>3. \A x \in L : x \in G <=> O[d][n] < O[d][x]
        <5> SUFFICES ASSUME NEW x \in L PROVE x \in G <=> O[d][n] < O[d][x]  OBVIOUS
        <5>1. O[d][n] \in Int /\ O[d][x] \in Int /\ Key[n] = k /\ Key[x] \in Nat /\ (x \in G <=> k < Key[x])
          BY <2>1, <3>3, <1>1, <1>4, SpreadFacts
        <5>2. O[d][n] < O[d][x] => Key[n] < Key[x]  BY <2>1, <3>3 DEF Sorted, d
        <5>3. O[d][x] < O[d][n] => Key[x] < Key[n]  BY <2>1, <3>3 DEF Sorted, d
        <5>4. x # n => O[d][x] # O[d][n]  BY <2>1, <1>1, PlacesDiffer
        <5> QED BY <5>1, <5>2, <5>3, <5>4
      <4>4. G \subseteq L  BY DEF G, Above
      <4>5. CASE s = NULL
        <5>1. \A x \in L : O[d][x] <= O[d][n] /\ O[d][x] \in Int /\ O[d][n] \in Int
          BY <4>2, <4>5, <2>1, <1>1, SpreadFacts DEF After
        <5>2. G = {}  BY <4>3, <4>4, <5>1
        <5> QED BY <4>5, <5>2 DEF Leftmost, G
      <4>6. CASE s # NULL
        <5>1. s \in G /\ \A x \in G : O[d][s] <= O[d][x]  BY <4>2, <4>3, <4>4, <4>6 DEF After
        <5> QED BY <4>6, <5>1 DEF Leftmost, G, d
      <4> QED BY <4>5, <4>6
    <3> QED BY <2>4, <3>2, <3>3
  <2> QED BY <2>3, <2>4
<1> QED BY <1>5, <1>6

(* A sequence of the nodes A from left to right.                           *)
Rising(O, A, s) ==
  /\ s \in Seq(Nodes) /\ Elems(s) = A
  /\ \A i, j \in DOMAIN s : i < j => O[2][s[i]] < O[2][s[j]]

(* A walk around a node.                                                   *)
LEMMA RisingJoined ==
  ASSUME NEW O, \A m \in Nodes : O[2][m] \in Int,
         NEW A, NEW B, NEW n \in Nodes, NEW a, Rising(O, A, a), NEW b, Rising(O, B, b),
         \A z \in A : O[2][z] < O[2][n], \A z \in B : O[2][n] < O[2][z],
         NEW s, s = a \o <<n>> \o b
  PROVE Rising(O, A \cup {n} \cup B, s)
<1> DEFINE c == a \o <<n>>
<1>0. a \in Seq(Nodes) /\ b \in Seq(Nodes) /\ Elems(a) = A /\ Elems(b) = B  BY DEF Rising
<1>1. c \in Seq(Nodes) /\ Len(c) = Len(a) + 1 /\ \A j \in 1 .. Len(c) : c[j] = IF j = Len(a) + 1 THEN n ELSE a[j]
  BY <1>0
<1> HIDE DEF c
<1>2. s = c \o b  BY DEF c
<1>3. /\ s \in Seq(Nodes) /\ Len(s) = Len(c) + Len(b)
      /\ \A j \in 1 .. Len(s) : s[j] = IF j <= Len(c) THEN c[j] ELSE b[j - Len(c)]
  BY SMTT(30), <1>0, <1>1, <1>2
<1>4. DOMAIN a = 1 .. Len(a) /\ DOMAIN b = 1 .. Len(b) /\ DOMAIN s = 1 .. Len(s) /\ Len(a) \in Nat /\ Len(b) \in Nat
  BY <1>0, <1>3
<1>5. Between(s, a, n, b)  BY <1>0, ElemsJoined, Zenon
<1>6. s \in Seq(Nodes) /\ Elems(s) = A \cup {n} \cup B  BY <1>0, <1>5 DEF Between
<1>7. \A j \in DOMAIN a : a[j] \in A /\ a[j] \in Nodes  BY <1>0 DEF Elems
<1>8. \A j \in DOMAIN b : b[j] \in B /\ b[j] \in Nodes  BY <1>0 DEF Elems
<1> DEFINE k == Len(a) + 1
<1>9. ASSUME NEW j \in DOMAIN s
      PROVE /\ j < k => j \in DOMAIN a /\ s[j] = a[j]
            /\ j = k => s[j] = n
            /\ k < j => j - k \in DOMAIN b /\ s[j] = b[j - k]
  <2>1. j \in 1 .. Len(s) /\ Len(s) = k + Len(b) /\ Len(c) = k /\ k \in Nat  BY <1>1, <1>3, <1>4
  <2>2. CASE j <= k
    <3>1. j \in 1 .. Len(c)  BY <2>1, <2>2
    <3>2. s[j] = c[j]  BY <2>1, <2>2, <1>3
    <3>3. c[j] = IF j = k THEN n ELSE a[j]  BY <3>1, <1>1
    <3>4. j < k => j \in DOMAIN a  BY <2>1, <1>4
    <3>5. j \in Nat /\ ~(k < j) /\ (j < k => j # k)  BY <2>1, <2>2
    <3> QED BY <3>2, <3>3, <3>4, <3>5
  <2>3. CASE ~(j <= k)
    <3>1. s[j] = b[j - k]  BY <2>1, <2>3, <1>3
    <3>2. j - k \in 1 .. Len(b) /\ ~(j < k) /\ j # k  BY <2>1, <2>3, <1>4
    <3> QED BY <3>1, <3>2, <1>4
  <2> QED BY <2>2, <2>3
<1>10. k \in Nat  BY <1>4
<1>11. \A i, j \in DOMAIN a : i < j => O[2][a[i]] < O[2][a[j]]  BY DEF Rising
<1>12. \A i, j \in DOMAIN b : i < j => O[2][b[i]] < O[2][b[j]]  BY DEF Rising
<1> HIDE DEF k
<1>13. ASSUME NEW i \in DOMAIN s, NEW j \in DOMAIN s, i < j PROVE O[2][s[i]] < O[2][s[j]]
  <2>1. i \in Nat /\ j \in Nat  BY <1>4
  <2>2. CASE j < k
    <3>1. i < k  BY <2>1, <2>2, <1>10, <1>13
    <3> QED BY <2>2, <3>1, <1>9, <1>11, <1>13
  <2>3. CASE j = k
    <3>1. i < k  BY <2>3, <1>13
    <3>2. s[i] \in A /\ s[j] = n  BY <2>3, <3>1, <1>7, <1>9
    <3> QED BY <3>2
  <2>4. CASE k < j
    <3>1. s[j] = b[j - k] /\ s[j] \in B /\ s[j] \in Nodes /\ j - k \in DOMAIN b  BY <2>4, <1>8, <1>9
    <3>2. CASE i < k
      <4>1. s[i] \in A /\ s[i] \in Nodes  BY <3>2, <1>7, <1>9
      <4>2. O[2][s[i]] < O[2][n] /\ O[2][n] < O[2][s[j]]  BY <3>1, <4>1
      <4>3. O[2][s[i]] \in Int /\ O[2][n] \in Int /\ O[2][s[j]] \in Int  BY <3>1, <4>1
      <4> QED BY ONLY <4>2, <4>3
    <3>3. CASE i = k
      <4>1. s[i] = n  BY <3>3, <1>9
      <4> QED BY <3>1, <4>1
    <3>4. CASE k < i
      <4>1. s[i] = b[i - k] /\ i - k \in DOMAIN b  BY <3>4, <1>9
      <4>2. i - k < j - k  BY <2>1, <1>10, <1>13
      <4> QED BY <3>1, <4>1, <4>2, <1>12
    <3>5. i < k \/ i = k \/ k < i  BY ONLY <2>1, <1>10
    <3> QED BY <3>2, <3>3, <3>4, <3>5
  <2>5. j < k \/ j = k \/ k < j  BY ONLY <2>1, <1>10
  <2> QED BY <2>2, <2>3, <2>4, <2>5
<1> QED BY <1>6, <1>13 DEF Rising

(* The walk from the root meets the nodes from left to right.              *)
LEMMA WalkRises ==
  ASSUME NEW t, NEW L, NEW r, NEW O, NEW D, Spread(t, L, r, O, D), NEW s, s = InOrder(t)
  PROVE Rising(O, L, s)
<1> DEFINE N == Cardinality(Nodes)
<1>0. Links(t, L, r)  BY DEF Spread
<1>1. TreeType(t) /\ \A m \in L : m \in Node /\ m # NULL /\ m \in Nodes  BY <1>0, LinkFacts
<1>2. PICK G : /\ InOrder(t) = G[N][t.root]
               /\ \A i \in 0 .. N : \A n \in Node :
                    G[i][n] = IF i = 0 \/ n = NULL THEN <<>>
                              ELSE G[i - 1][Child(t, n, 1)] \o <<n>> \o G[i - 1][Child(t, n, 2)]
  <2> HIDE DEF N
  <2> QED BY <1>1, WalkLevels DEF N
<1>3. N \in Nat /\ NULL \in Node /\ 1 \in Side /\ 2 \in Side  BY AtMostAll DEF Node, Side
<1> HIDE DEF N
<1>4. \A i \in 0 .. N : G[i][NULL] = <<>>
  <2> SUFFICES ASSUME NEW i \in 0 .. N PROVE G[i][NULL] = <<>>  OBVIOUS
  <2> DEFINE z == G[i - 1][Child(t, NULL, 1)] \o <<NULL>> \o G[i - 1][Child(t, NULL, 2)]
  <2>1. G[i][NULL] = IF i = 0 \/ NULL = NULL THEN <<>> ELSE z  BY <1>2, <1>3
  <2> HIDE DEF z
  <2> QED BY <2>1
<1>e. Rising(O, {}, <<>>)  BY DEF Rising, Elems
<1>f. \A m \in Nodes : O[2][m] \in Int  BY <1>3 DEF Spread, Numbered
<1>h. /\ \A m \in L : \A z \in L : z \in D[m] <=> (z = m \/ \E e \in Side : z \in D[Child(t, m, e)])
      /\ \A m \in L : \A e \in Side : \A z \in D[Child(t, m, e)] : O[e][m] < O[e][z]
  <2>1. Spans(t, L, O, D)  BY DEF Spread
  <2> QED BY <2>1 DEF Spans
<1>i. \A m \in L : D[m] \subseteq L /\ \A e \in Side : D[Child(t, m, e)] \subseteq L
  <2>1. \A m \in Node : D[m] \subseteq L  BY SpreadFacts
  <2>2. \A m \in L : \A e \in Side : Child(t, m, e) \in Node  BY <1>0, LinkFacts
  <2> QED BY <2>1, <2>2, <1>1
<1>g. /\ \A m \in L : O[1][m] = -O[2][m] /\ O[1][m] \in Int /\ O[2][m] \in Int
      /\ D[NULL] = {} /\ NULL \notin L
  BY <1>3, SpreadFacts
<1> DEFINE Good == {x \in (1 .. N) \X L : Rising(O, D[x[2]], G[x[1]][x[2]])}
<1>5. ASSUME NEW i \in 1 .. N, NEW m \in L,
             \A e \in Side : Child(t, m, e) # NULL => i - 1 \in 1 .. N /\ <<i - 1, Child(t, m, e)>> \in Good
      PROVE <<i, m>> \in Good
  <2> DEFINE c(e) == Child(t, m, e)
             H == G[i - 1]
  <2>1. ASSUME NEW e \in Side PROVE Rising(O, D[c(e)], H[c(e)])
    <3>1. CASE c(e) = NULL
      <4>1. i - 1 \in 0 .. N  BY <1>3
      <4>2. D[c(e)] = {} /\ H[c(e)] = <<>>  BY <4>1, <3>1, <1>4, <1>g, <1>h, <1>i
      <4> QED BY <4>2, <1>e
    <3>2. CASE c(e) # NULL
      <4>1. <<i - 1, c(e)>> \in Good  BY <3>2, <1>5
      <4> QED BY <4>1
    <3> QED BY <3>1, <3>2
  <2>2. i \in 0 .. N /\ i # 0 /\ m \in Node /\ m # NULL  BY <1>1, <1>3
  <2> DEFINE z == H[c(1)] \o <<m>> \o H[c(2)]
  <2>3. G[i][m] = IF i = 0 \/ m = NULL THEN <<>> ELSE z  BY <2>2, <1>2
  <2> HIDE DEF z
  <2>4. G[i][m] = z  BY <2>2, <2>3
  <2>5. Rising(O, D[m], z)
    <3> DEFINE A == D[c(1)]
               B == D[c(2)]
               a == H[c(1)]
               b == H[c(2)]
    <3>1. z = a \o <<m>> \o b  BY DEF z
    <3>2. Rising(O, A, a) /\ Rising(O, B, b)  BY <2>1, <1>3
    <3>3. \A y \in A : O[2][y] < O[2][m]
      <4> SUFFICES ASSUME NEW y \in A PROVE O[2][y] < O[2][m]  OBVIOUS
      <4>1. y \in L /\ O[1][m] < O[1][y]  BY <1>3, <1>g, <1>h, <1>i
      <4> QED BY <4>1, <1>g, <1>h, <1>i
    <3>4. \A y \in B : O[2][m] < O[2][y]  BY <1>3, <1>g, <1>h, <1>i
    <3>5. D[m] = A \cup {m} \cup B
      <4>1. A \subseteq L /\ B \subseteq L /\ D[m] \subseteq L  BY <1>3, <1>g, <1>h, <1>i
      <4>2. \A y \in L : y \in D[m] <=> y = m \/ y \in A \/ y \in B  BY <1>g, <1>h, <1>i DEF Side
      <4> QED BY <4>1, <4>2
    <3>6. m \in Nodes  BY <1>1
    <3> HIDE DEF A, B, a, b
    <3>7. Rising(O, A \cup {m} \cup B, z)  BY ONLY <3>1, <3>2, <3>3, <3>4, <3>6, <1>f, RisingJoined
    <3> QED BY <3>5, <3>7
  <2>6. Rising(O, D[m], G[i][m])  BY <2>4, <2>5
  <2> QED BY <2>6
<1> HIDE DEF Good
<1>6. \A m \in L : N \in 1 .. N /\ <<N, m>> \in Good
  BY <1>0, <1>5, EveryLevel DEF N
<1>7. \A m \in L : Rising(O, D[m], G[N][m])  BY <1>6 DEF Good
<1>8. CASE t.root = NULL
  <2>1. L = {}  BY <1>0, <1>8, NodesAssumption DEF Links
  <2>2. s = <<>>  BY <1>2, <1>3, <1>4, <1>8
  <2> QED BY <2>1, <2>2, <1>e
<1>9. CASE t.root # NULL
  <2>1. t.root \in L  BY <1>0, <1>9 DEF Links
  <2>2. D[t.root] = L  BY SpanRoot
  <2>3. Rising(O, L, G[N][t.root])  BY <2>1, <2>2, <1>7
  <2> QED BY <2>3, <1>2
<1> QED BY <1>8, <1>9

(* The first element of such a sequence that is in G.                      *)
FirstAt(s, G, x, k) ==
  \/ x = NULL /\ \A i \in DOMAIN s : s[i] \notin G
  \/ /\ k \in DOMAIN s /\ x = s[k]
     /\ \A i \in DOMAIN s : i = k <=> s[i] \in G /\ \A j \in 1 .. (i - 1) : s[j] \notin G

LEMMA FirstLeftmost ==
  ASSUME NEW O, \A m \in Nodes : O[2][m] \in Int, NEW L, NEW s, Rising(O, L, s), NEW G, G \subseteq L,
         NEW x, Leftmost(O, G, x)
  PROVE \E k : FirstAt(s, G, x, k)
<1>1. s \in Seq(Nodes) /\ Elems(s) = L /\ DOMAIN s = 1 .. Len(s) /\ Len(s) \in Nat  BY DEF Rising
<1>3. CASE x = NULL
  <2>1. G = {}  BY <1>3 DEF Leftmost
  <2> QED BY <2>1, <1>3 DEF FirstAt
<1>4. CASE x # NULL
  <2>1. x \in G /\ \A m \in G : O[2][x] <= O[2][m]  BY <1>4 DEF Leftmost
  <2>2. PICK k \in DOMAIN s : s[k] = x  BY <2>1, <1>1 DEF Elems
  <2>3. \A j \in 1 .. (k - 1) : s[j] \notin G
    <3> SUFFICES ASSUME NEW j \in 1 .. (k - 1), s[j] \in G PROVE FALSE  OBVIOUS
    <3>1. j \in DOMAIN s /\ j < k  BY <1>1
    <3>2. O[2][s[j]] < O[2][x] /\ O[2][x] <= O[2][s[j]]  BY <2>1, <2>2, <3>1 DEF Rising
    <3>3. x \in Nodes /\ s[j] \in Nodes  BY <2>2, <3>1, <1>1
    <3>4. O[2][x] \in Int /\ O[2][s[j]] \in Int  BY <3>3
    <3> QED BY ONLY <3>2, <3>4
  <2>4. ASSUME NEW i \in DOMAIN s, s[i] \in G, \A j \in 1 .. (i - 1) : s[j] \notin G PROVE i = k
    <3>1. i \in Nat /\ k \in Nat /\ i >= 1 /\ k >= 1  BY <1>1
    <3>2. ~(k < i)
      <4>1. k < i => k \in 1 .. (i - 1)  BY <3>1
      <4> QED BY <4>1, <2>1, <2>2, <2>4
    <3>3. ~(i < k)
      <4>1. i < k => i \in 1 .. (k - 1)  BY <3>1
      <4> QED BY <4>1, <2>3, <2>4
    <3> QED BY <3>1, <3>2, <3>3
  <2>5. \A i \in DOMAIN s : i = k <=> s[i] \in G /\ \A j \in 1 .. (i - 1) : s[j] \notin G
    BY <2>1, <2>2, <2>3, <2>4
  <2> QED BY <2>2, <2>5 DEF FirstAt
<1> QED BY <1>3, <1>4

(* At rest the searches find what they promise.                            *)
LEMMA RestFound ==
  ASSUME multi \in BOOLEAN, NEW r, NEW O, NEW D, Spread(tree, live, r, O, D), Sorted(live, O, multi)
  PROVE BoundsFound
<1> DEFINE s == InOrder(tree)
<1>1. s = InOrder(tree)  OBVIOUS
<1> HIDE DEF s
<1>2. Rising(O, live, s)  BY <1>1, WalkRises
<1>3. NULL \notin live /\ live \subseteq Nodes /\ (\A m \in Nodes : O[2][m] \in Int) /\ 2 \in Side
  BY SpreadFacts DEF Spread, Numbered, Side
<1>5. \A i \in DOMAIN s : s[i] \in live  BY <1>2 DEF Rising, Elems
<1>6. DOMAIN s = 1 .. Len(s) /\ Len(s) \in Nat  BY <1>2 DEF Rising
<1>7. \A i \in DOMAIN s : \A j \in 1 .. (i - 1) : j \in DOMAIN s  BY <1>6
<1>8. \A m \in live : Key[m] \in Nat  BY <1>3, KeyAssumption
<1>9. ASSUME NEW k \in Nat
      PROVE lower_bound(tree, k) = IF \E i \in DOMAIN s : Key[s[i]] >= k
              THEN s[CHOOSE i \in DOMAIN s : Key[s[i]] >= k /\ \A j \in 1 .. (i - 1) : ~(Key[s[j]] >= k)]
              ELSE NULL
  <2> DEFINE G == Least(live, k)
             x == lower_bound(tree, k)
             At(i) == Key[s[i]] >= k /\ \A j \in 1 .. (i - 1) : ~(Key[s[j]] >= k)
  <2>1. Leftmost(O, G, x)  BY LowerLeftmost
  <2>2. G \subseteq live /\ \A i \in DOMAIN s : s[i] \in G <=> Key[s[i]] >= k  BY <1>5, <1>8 DEF Least
  <2> HIDE DEF G, x
  <2>3. PICK q : FirstAt(s, G, x, q)  BY <2>1, <2>2, <1>2, <1>3, FirstLeftmost
  <2>4. \A i \in DOMAIN s : At(i) <=> s[i] \in G /\ \A j \in 1 .. (i - 1) : s[j] \notin G  BY <2>2, <1>7
  <2>5. x = IF \E i \in DOMAIN s : Key[s[i]] >= k THEN s[CHOOSE i \in DOMAIN s : At(i)] ELSE NULL
    <3>1. CASE x = NULL /\ \A i \in DOMAIN s : s[i] \notin G  BY <3>1, <2>2
    <3>2. CASE q \in DOMAIN s /\ x = s[q] /\ \A i \in DOMAIN s : i = q <=> s[i] \in G /\ \A j \in 1 .. (i - 1) : s[j] \notin G
      <4>1. \A i \in DOMAIN s : At(i) <=> i = q  BY <3>2, <2>4
      <4>2. Key[s[q]] >= k  BY <3>2, <2>2
      <4> HIDE DEF At
      <4>3. (CHOOSE i \in DOMAIN s : At(i)) = q  BY <3>2, <4>1
      <4>4. \E i \in DOMAIN s : Key[s[i]] >= k  BY <3>2, <4>2
      <4> DEFINE c == CHOOSE i \in DOMAIN s : At(i)
      <4>5. x = s[c]  BY <3>2, <4>3
      <4> HIDE DEF c
      <4>6. x = IF \E i \in DOMAIN s : Key[s[i]] >= k THEN s[c] ELSE NULL  BY ONLY <4>4, <4>5
      <4> QED BY ONLY <4>6 DEF c
    <3> QED BY <3>1, <3>2, <2>3 DEF FirstAt
  <2> QED BY <2>5 DEF x
<1>10. ASSUME NEW k \in Nat
      PROVE upper_bound(tree, k) = IF \E i \in DOMAIN s : Key[s[i]] > k
              THEN s[CHOOSE i \in DOMAIN s : Key[s[i]] > k /\ \A j \in 1 .. (i - 1) : ~(Key[s[j]] > k)]
              ELSE NULL
  <2> DEFINE G == Above(live, k)
             x == upper_bound(tree, k)
             At(i) == Key[s[i]] > k /\ \A j \in 1 .. (i - 1) : ~(Key[s[j]] > k)
  <2>1. Leftmost(O, G, x)  BY UpperLeftmost
  <2>2. G \subseteq live /\ \A i \in DOMAIN s : s[i] \in G <=> Key[s[i]] > k  BY <1>5, <1>8 DEF Above
  <2> HIDE DEF G, x
  <2>3. PICK q : FirstAt(s, G, x, q)  BY <2>1, <2>2, <1>2, <1>3, FirstLeftmost
  <2>4. \A i \in DOMAIN s : At(i) <=> s[i] \in G /\ \A j \in 1 .. (i - 1) : s[j] \notin G  BY <2>2, <1>7
  <2>5. x = IF \E i \in DOMAIN s : Key[s[i]] > k THEN s[CHOOSE i \in DOMAIN s : At(i)] ELSE NULL
    <3>1. CASE x = NULL /\ \A i \in DOMAIN s : s[i] \notin G  BY <3>1, <2>2
    <3>2. CASE q \in DOMAIN s /\ x = s[q] /\ \A i \in DOMAIN s : i = q <=> s[i] \in G /\ \A j \in 1 .. (i - 1) : s[j] \notin G
      <4>1. \A i \in DOMAIN s : At(i) <=> i = q  BY <3>2, <2>4
      <4>2. Key[s[q]] > k  BY <3>2, <2>2
      <4> HIDE DEF At
      <4>3. (CHOOSE i \in DOMAIN s : At(i)) = q  BY <3>2, <4>1
      <4>4. \E i \in DOMAIN s : Key[s[i]] > k  BY <3>2, <4>2
      <4> DEFINE c == CHOOSE i \in DOMAIN s : At(i)
      <4>5. x = s[c]  BY <3>2, <4>3
      <4> HIDE DEF c
      <4>6. x = IF \E i \in DOMAIN s : Key[s[i]] > k THEN s[c] ELSE NULL  BY ONLY <4>4, <4>5
      <4> QED BY ONLY <4>6 DEF c
    <3> QED BY <3>1, <3>2, <2>3 DEF FirstAt
  <2> QED BY <2>5 DEF x
<1>11. \A k \in {Key[n] : n \in Nodes} : k \in Nat  BY KeyAssumption
<1> QED BY <1>9, <1>10, <1>11 DEF BoundsFound, s

------------------------------------------------------------------------------
(* What the calls do to the order.                                         *)

(* A tree with links is one that hangs together.                           *)
LEMMA LaidSpread ==
  ASSUME NEW t, NEW L, NEW r, Links(t, L, r), NEW O, Laid(t, L, O)
  PROVE \E q, D : Spread(t, L, q, O, D)
<1>1. ~Lone(t, L)
  <2> SUFFICES ASSUME Lone(t, L) PROVE FALSE  OBVIOUS
  <2>1. t.root = NULL /\ \E n \in Nodes : L = {n}  BY DEF Lone
  <2>2. t.root \in L  BY <2>1 DEF Links
  <2> QED BY <2>1, <2>2, NodesAssumption
<1> QED BY <1>1 DEF Laid

(* The empty tree,                                                         *)
LEMMA Nought == \E z : z \in Int /\ z = -z
<1>1. \A z \in Int : z + z = 0 => z = -z  OBVIOUS
<1>2. \E z \in Int : z + z = 0  OBVIOUS
<1> QED BY <1>1, <1>2

LEMMA EmptyLaid ==
  ASSUME NEW t, t = [root |-> NULL, node |-> [n \in Nodes |-> Fresh]], NEW M
  PROVE \E O : Laid(t, {}, O) /\ Sorted({}, O, M)
<1>1. PICK r : Links(t, {}, r)  BY EmptyWhole DEF Whole
<1>a. PICK z : z \in Int /\ z = -z  BY Nought
<1> DEFINE O == [e \in Side |-> [m \in Nodes |-> z]]
           D == [m \in Node |-> {}]
<1>2. Numbered(O)
  <2>2. 1 \in Side /\ 2 \in Side  BY DEF Side
  <2>4. O \in [Side -> [Nodes -> Int]] /\ \A m \in Nodes : O[1][m] = z /\ O[2][m] = z  BY <1>a, <2>2
  <2> QED BY <1>a, <2>4 DEF Numbered
<1>3. D \in [Node -> SUBSET {}] /\ D[NULL] = {}  BY DEF Node
<1> HIDE DEF O, D
<1>4. Spans(t, {}, O, D)  BY <1>3 DEF Spans
<1>5. Laid(t, {}, O)  BY <1>1, <1>2, <1>4 DEF Laid, Spread
<1>6. Sorted({}, O, M)  BY DEF Sorted
<1> QED BY <1>5, <1>6

(* memory that is no longer linked,                                        *)
LEMMA FreedTurned ==
  ASSUME NEW t, TreeType(t), NEW L, L \subseteq Nodes, NEW g \in Nodes \ L, NEW u, u = [t EXCEPT !.node[g] = Fresh]
  PROVE Turned(t, u, L)
<1>1. Blank(t, u, g)
  <2> DEFINE v == [t EXCEPT !.node[g] = Fresh]
  <2>1. Blank(t, v, g)  BY Blanks, Zenon
  <2>2. u = v  OBVIOUS
  <2> HIDE DEF v
  <2> QED BY <2>1, <2>2
<1>2. /\ TreeType(u) /\ u.root = t.root
      /\ \A m \in L : /\ Parent(u, m) = Parent(t, m)
                      /\ \A e \in Side : Child(u, m, e) = Child(t, m, e)
  BY <1>1 DEF Blank
<1> SUFFICES ASSUME NEW O, Laid(t, L, O) PROVE Laid(u, L, O)  BY DEF Turned
<1>3. Numbered(O)  BY DEF Laid
<1>4. CASE Lone(t, L)
  <2>1. Lone(u, L)  BY <1>2, <1>4 DEF Lone
  <2> QED BY <2>1, <1>3 DEF Laid
<1>5. CASE \E r, D : Spread(t, L, r, O, D)
  <2>1. PICK r, D : Spread(t, L, r, O, D)  BY <1>5
  <2>2. Links(t, L, r) /\ Spans(t, L, O, D)  BY <2>1 DEF Spread
  <2>3. Links(u, L, r)  BY <2>2, <1>2 DEF Links, Side
  <2>4. Spans(u, L, O, D)  BY <2>2, <1>2 DEF Spans
  <2> QED BY <2>3, <2>4, <1>3 DEF Laid, Spread
<1> QED BY <1>4, <1>5 DEF Laid

(* The nodes L stand in O2 in the order in which they stood in O.          *)
SameOrder(L, O, O2) == \A a, b \in L : O[2][a] < O[2][b] <=> O2[2][a] < O2[2][b]

LEMMA SameSorted ==
  ASSUME NEW L, NEW O, NEW O2, SameOrder(L, O, O2), NEW M, Sorted(L, O, M)
  PROVE Sorted(L, O2, M)
BY DEF SameOrder, Sorted

------------------------------------------------------------------------------
(* insert.                                                                 *)

(* The places with room for n on the side d of p.                          *)
Beyond(O, O2, p, d, n) ==
  /\ Numbered(O2)
  /\ \A e \in Side : /\ \A m \in Nodes \ {n} : O2[e][m] = 2 * O[e][m]
                     /\ O2[e][n] = 2 * O[e][p] + IF e = d THEN 1 ELSE -1

LEMMA BeyondIs ==
  ASSUME NEW O, Numbered(O), NEW p \in Nodes, NEW n \in Nodes, NEW d \in Side
  PROVE \E O2 : Beyond(O, O2, p, d, n)
<1> DEFINE f(e) == [m \in Nodes |-> IF m = n THEN 2 * O[e][p] + (IF e = d THEN 1 ELSE -1) ELSE 2 * O[e][m]]
           O2 == [e \in Side |-> f(e)]
<1>1. /\ \A e \in Side : \A m \in Nodes : O[e][m] \in Int
      /\ \A m \in Nodes : O[1][m] = -O[2][m]
  BY DEF Numbered
<1>2. \A e \in Side : f(e) \in [Nodes -> Int]  BY <1>1
<1>3. O2 \in [Side -> [Nodes -> Int]]  BY <1>2
<1>4. \A e \in Side : \A m \in Nodes :
        O2[e][m] = IF m = n THEN 2 * O[e][p] + (IF e = d THEN 1 ELSE -1) ELSE 2 * O[e][m]
  OBVIOUS
<1> HIDE DEF O2, f
<1>5. 1 \in Side /\ 2 \in Side /\ (d = 1 \/ d = 2)  BY DEF Side
<1>6. \A m \in Nodes : O2[1][m] = -O2[2][m]
  <2> SUFFICES ASSUME NEW m \in Nodes PROVE O2[1][m] = -O2[2][m]  OBVIOUS
  <2>1. CASE m # n
    <3>1. O2[1][m] = 2 * O[1][m] /\ O2[2][m] = 2 * O[2][m]  BY <2>1, <1>4, <1>5
    <3> QED BY <3>1, <1>1, <1>5
  <2>2. CASE m = n
    <3>1. CASE d = 1
      <4>1. O2[1][m] = 2 * O[1][p] + 1 /\ O2[2][m] = 2 * O[2][p] + (-1)  BY <2>2, <3>1, <1>4, <1>5
      <4> QED BY <4>1, <1>1, <1>5
    <3>2. CASE d = 2
      <4>1. O2[1][m] = 2 * O[1][p] + (-1) /\ O2[2][m] = 2 * O[2][p] + 1  BY <2>2, <3>2, <1>4, <1>5
      <4> QED BY <4>1, <1>1, <1>5
    <3> QED BY <3>1, <3>2, <1>5
  <2> QED BY <2>1, <2>2
<1>7. Beyond(O, O2, p, d, n)  BY <1>3, <1>4, <1>6 DEF Beyond, Numbered
<1> QED BY <1>7

(* n stands next to p.                                                     *)
LEMMA PlantedLaid ==
  ASSUME NEW t, NEW L, NEW r, NEW O, NEW D, Spread(t, L, r, O, D), NEW n \in Nodes \ L, NEW p \in L, NEW d \in Side,
         Child(t, p, d) = NULL, NEW u, Planted(t, u, L, p, d, n), NEW O2, Beyond(O, O2, p, d, n)
  PROVE Laid(u, L \cup {n}, O2)
<1> DEFINE M == L \cup {n}
           E == [m \in Node |-> IF m = n THEN {n} ELSE IF p \in D[m] THEN D[m] \cup {n} ELSE D[m]]
<1>1. /\ Links(t, L, r) /\ NULL \notin L
      /\ \A m \in L : m \in Nodes /\ m \in Node /\ m # n /\ \A e \in Side : O[e][m] \in Int
      /\ D[NULL] = {} /\ \A m \in Node : D[m] \subseteq L
      /\ \A m \in L : m \in D[m]
      /\ \A m \in L : \A e \in Side : \A z \in D[Child(t, m, e)] : O[e][m] < O[e][z]
  BY SpreadFacts
<1>2. \A m \in L : \A z \in L : z \in D[m] <=> (z = m \/ \E e \in Side : z \in D[Child(t, m, e)])
  BY DEF Spread, Spans
<1>3. n \in Node /\ n # NULL /\ NULL \in Node /\ n \notin L  BY NodesAssumption DEF Node
<1>4. \A m \in L : \A e \in Side : Child(t, m, e) \in L \cup {NULL}  BY <1>1, LinkFacts
<1>5. PICK r2 : Links(u, M, r2)  BY <1>1, PlantedLinks
<1>6. /\ \A e \in Side : Child(u, n, e) = NULL
      /\ \A m \in L : \A e \in Side : Child(u, m, e) = IF m = p /\ e = d THEN n ELSE Child(t, m, e)
  BY DEF Planted
<1>7. /\ E \in [Node -> SUBSET M] /\ E[n] = {n}
      /\ \A m \in Node \ {n} : E[m] = IF p \in D[m] THEN D[m] \cup {n} ELSE D[m]
  BY <1>1, <1>3
<1> HIDE DEF E
<1>8. E[NULL] = {}  BY <1>1, <1>3, <1>7
<1>9. \A m \in L \cup {NULL} : /\ \A z \in L : z \in E[m] <=> z \in D[m]
                               /\ n \in E[m] <=> p \in D[m]
  <2> SUFFICES ASSUME NEW m \in L \cup {NULL}
               PROVE (\A z \in L : z \in E[m] <=> z \in D[m]) /\ (n \in E[m] <=> p \in D[m])
    OBVIOUS
  <2>1. m \in Node \ {n} /\ D[m] \subseteq L  BY <1>1, <1>3
  <2> QED BY <2>1, <1>3, <1>7
<1>10. ASSUME NEW m \in M, NEW z \in M PROVE z \in E[m] <=> (z = m \/ \E e \in Side : z \in E[Child(u, m, e)])
  <2>1. CASE m = n  BY <2>1, <1>6, <1>7, <1>8
  <2>2. CASE m \in L /\ z \in L
    <3>1. \A e \in Side : z \in E[Child(u, m, e)] <=> z \in D[Child(t, m, e)]
      <4> SUFFICES ASSUME NEW e \in Side PROVE z \in E[Child(u, m, e)] <=> z \in D[Child(t, m, e)]  OBVIOUS
      <4>1. CASE m = p /\ e = d
        <5>1. Child(u, m, e) = n /\ Child(t, m, e) = NULL  BY <2>2, <4>1, <1>6
        <5> QED BY <5>1, <2>2, <1>1, <1>7
      <4>2. CASE ~(m = p /\ e = d)
        <5>1. Child(u, m, e) = Child(t, m, e) /\ Child(t, m, e) \in L \cup {NULL}  BY <2>2, <4>2, <1>4, <1>6
        <5> QED BY <5>1, <2>2, <1>9
      <4> QED BY <4>1, <4>2
    <3>2. z \in E[m] <=> z \in D[m]  BY <2>2, <1>9
    <3> QED BY <2>2, <3>1, <3>2, <1>2
  <2>3. CASE m = p /\ z = n
    <3>1. n \in E[p]  BY <1>1, <1>9
    <3>2. Child(u, p, d) = n  BY <1>6
    <3> QED BY <2>3, <3>1, <3>2, <1>7
  <2>4. CASE m \in L /\ m # p /\ z = n
    <3>1. \A e \in Side : n \in E[Child(u, m, e)] <=> p \in D[Child(t, m, e)]
      <4> SUFFICES ASSUME NEW e \in Side PROVE n \in E[Child(u, m, e)] <=> p \in D[Child(t, m, e)]  OBVIOUS
      <4>1. Child(u, m, e) = Child(t, m, e) /\ Child(t, m, e) \in L \cup {NULL}  BY <2>4, <1>4, <1>6
      <4> QED BY <4>1, <1>9
    <3>2. n \in E[m] <=> p \in D[m]  BY <2>4, <1>9
    <3> QED BY <2>4, <3>1, <3>2, <1>2
  <2> QED BY <2>1, <2>2, <2>3, <2>4
<1>11. /\ Numbered(O2)
       /\ \A e \in Side : /\ \A m \in L : O2[e][m] = 2 * O[e][m]
                          /\ O2[e][n] = 2 * O[e][p] + IF e = d THEN 1 ELSE -1
  BY <1>1 DEF Beyond
<1>12. ASSUME NEW m \in M, NEW e \in Side, NEW z \in E[Child(u, m, e)] PROVE O2[e][m] < O2[e][z]
  <2>1. m # n  BY <1>6, <1>8, <1>12
  <2>2. CASE m = p /\ e = d
    <3>1. z = n  BY <2>2, <1>6, <1>7, <1>12
    <3>2. O2[e][m] = 2 * O[e][p] /\ O2[e][z] = 2 * O[e][p] + 1 /\ O[e][p] \in Int  BY <2>2, <3>1, <1>1, <1>11
    <3> QED BY <3>2
  <2>3. CASE ~(m = p /\ e = d)
    <3> DEFINE c == Child(t, m, e)
    <3>1. m \in L /\ Child(u, m, e) = c /\ c \in L \cup {NULL} /\ c \in Node \ {n}
      BY <2>1, <2>3, <1>1, <1>3, <1>4, <1>6
    <3>2. z \in E[c]  BY <3>1, <1>12
    <3>3. O2[e][m] = 2 * O[e][m] /\ O[e][m] \in Int  BY <3>1, <1>1, <1>11
    <3>4. CASE z = n
      <4>1. p \in D[c]  BY <3>1, <3>2, <3>4, <1>9
      <4>2. O[e][m] < O[e][p] /\ O[e][p] \in Int  BY <3>1, <4>1, <1>1
      <4>3. O2[e][z] = 2 * O[e][p] + 1 \/ O2[e][z] = 2 * O[e][p] + (-1)  BY <3>4, <1>11
      <4> QED BY <3>3, <4>2, <4>3
    <3>5. CASE z # n
      <4>1. z \in D[c] /\ z \in L  BY <3>1, <3>2, <3>5, <1>1, <1>7
      <4>2. O[e][m] < O[e][z] /\ O[e][z] \in Int /\ O2[e][z] = 2 * O[e][z]  BY <3>1, <4>1, <1>1, <1>11
      <4> QED BY <3>3, <4>2
    <3> QED BY <3>4, <3>5
  <2> QED BY <2>2, <2>3
<1>13. Spans(u, M, O2, E)  BY <1>7, <1>8, <1>10, <1>12 DEF Spans
<1> QED BY <1>5, <1>11, <1>13 DEF Laid, Spread

(* And so it stands where G begins, if the search for that place ended at p. *)
LEMMA PlantedBetween ==
  ASSUME NEW t, NEW L, NEW r, NEW O, NEW D, Spread(t, L, r, O, D), NEW n \in Nodes \ L, NEW p \in L, NEW d \in Side,
         Child(t, p, d) = NULL, NEW O2, Beyond(O, O2, p, d, n),
         NEW k, k = 2, NEW G, Upper(L, O, k, G), Cut(L, O, k, G, D[p]), d = 1 => p \in G, d = 2 => p \notin G,
         NEW b \in L
  PROVE /\ O2[k][n] < O2[k][b] => b \in G
        /\ O2[k][b] < O2[k][n] => b \notin G
<1>1. /\ \A m \in L : m \in Nodes /\ m # n /\ \A e \in Side : O[e][m] \in Int
      /\ k \in Side /\ (d = 1 \/ d = 2)
  BY SpreadFacts DEF Side
<1>2. O2[k][b] = 2 * O[k][b] /\ O2[k][n] = 2 * O[k][p] + IF k = d THEN 1 ELSE -1
  BY <1>1 DEF Beyond
<1>3. O[k][b] \in Int /\ O[k][p] \in Int  BY <1>1
<1>4. CASE d = 1
  <2> DEFINE o == 1
  <2>1. o \in Side /\ o # k /\ Child(t, p, o) = NULL  BY <1>4 DEF Side
  <2> HIDE DEF o
  <2>2. \A m \in L : m \in G <=> O[k][p] <= O[k][m]  BY <2>1, <1>1, <1>4, CutEnds
  <2>3. b \in G <=> O[k][p] <= O[k][b]  BY <2>2
  <2>4. O2[k][n] = 2 * O[k][p] + (-1)  BY <1>2, <1>4
  <2> QED BY <2>3, <2>4, <1>2, <1>3
<1>5. CASE d = 2
  <2> DEFINE o == 1
  <2>1. o \in Side /\ o # k /\ Child(t, p, k) = NULL  BY <1>5 DEF Side
  <2> HIDE DEF o
  <2>2. \A m \in L : m \in G <=> O[k][p] < O[k][m]  BY <2>1, <1>1, <1>5, CutEnds
  <2>3. b \in G <=> O[k][p] < O[k][b]  BY <2>2
  <2>4. O2[k][n] = 2 * O[k][p] + 1  BY <1>2, <1>5
  <2> QED BY <2>3, <2>4, <1>2, <1>3
<1> QED BY <1>1, <1>4, <1>5

(* Right of n there are only greater keys.                                 *)
Last(L, O, n) == \A b \in L : O[2][n] < O[2][b] => Key[n] < Key[b]

(* The new node stands where its key belongs: after the equal ones, if they *)
(* are kept.                                                               *)
LEMMA PlantedSorted ==
  ASSUME NEW t, NEW L, NEW r, NEW O, NEW D, Spread(t, L, r, O, D), NEW M \in BOOLEAN, Sorted(L, O, M),
         NEW n \in Nodes \ L, NEW k, k = Key[n], t.root # NULL, NEW p, p = Locate(t, k, M), p \in L,
         NEW d, d = IF k < Key[p] THEN 1 ELSE 2, Child(t, p, d) = NULL, ~M => Key[p] # k,
         NEW O2, Beyond(O, O2, p, d, n)
  PROVE Sorted(L \cup {n}, O2, M) /\ Last(L, O2, n)
<1> DEFINE e == 2
           A == Above(L, k)
           G == Least(L, k)
<1>1. /\ L \subseteq Nodes /\ k \in Nat /\ \A m \in L : Key[m] \in Nat /\ m # n
      /\ Key[p] \in Nat /\ d \in Side /\ e = 2 /\ e \in Side
      /\ \A m \in L : O[e][m] \in Int /\ O2[e][m] = 2 * O[e][m]
      /\ O2[e][n] \in Int
  <2>1. L \subseteq Nodes /\ \A m \in L : \A f \in Side : O[f][m] \in Int  BY SpreadFacts
  <2>2. \A m \in Nodes : Key[m] \in Nat  BY KeyAssumption
  <2>3. e \in Side /\ d \in Side  BY DEF Side
  <2>4. \A m \in Nodes \ {n} : O2[e][m] = 2 * O[e][m]  BY <2>3 DEF Beyond
  <2>5. O2[e][n] \in Int  BY <2>3 DEF Beyond, Numbered
  <2> QED BY <2>1, <2>2, <2>3, <2>4, <2>5
<1> HIDE DEF e
<1>2. ASSUME NEW H \in {A, G}, ~M \/ H = A, Upper(L, O, e, H)
      PROVE Cut(L, O, e, H, D[p]) /\ (d = 1 => p \in H) /\ (d = 2 => p \notin H)
  <2>1. \A m \in L : /\ k < Key[m] => m \in H
                     /\ Key[m] < k \/ (M /\ ~(k < Key[m])) => m \notin H
    <3> SUFFICES ASSUME NEW m \in L
                 PROVE (k < Key[m] => m \in H) /\ (Key[m] < k \/ (M /\ ~(k < Key[m])) => m \notin H)
      OBVIOUS
    <3>1. Key[m] \in Nat /\ k \in Nat  BY <1>1
    <3>2. (m \in A <=> k < Key[m]) /\ (m \in G <=> k <= Key[m])  BY DEF Above, Least
    <3> HIDE DEF A, G
    <3>3. CASE H = A
      <4>1. Key[m] < k => ~(k < Key[m])  BY <3>1
      <4> QED BY <4>1, <3>2, <3>3
    <3>4. CASE H = G /\ ~M
      <4>1. (Key[m] < k => ~(k <= Key[m])) /\ (k < Key[m] => k <= Key[m])  BY <3>1
      <4> QED BY <4>1, <3>2, <3>4
    <3> QED BY <3>3, <3>4, <1>2
  <2>2. p \in A <=> k < Key[p]  BY DEF Above
  <2>3. p \in G <=> k <= Key[p]  BY DEF Least
  <2> HIDE DEF A, G
  <2>4. Cut(L, O, e, H, D[p])  BY <2>1, <1>1, <1>2, LocateCuts
  <2>5. (d = 1 => k < Key[p]) /\ (d = 2 => ~(k < Key[p]))  OBVIOUS
  <2>6. CASE H = A  BY <2>2, <2>4, <2>5, <2>6
  <2>7. CASE H = G /\ ~M
    <3>1. (k < Key[p] => k <= Key[p]) /\ (~(k < Key[p]) => ~(k <= Key[p]))
      <4>1. Key[p] # k  BY <2>7
      <4> QED BY <4>1, <1>1
    <3> QED BY <3>1, <2>3, <2>4, <2>5, <2>7
  <2> QED BY <2>6, <2>7, <1>2
<1>3. Upper(L, O, e, A) /\ Upper(L, O, e, G)  BY <1>1, KeysUpper
<1>4. ASSUME NEW b \in L
      PROVE /\ O2[e][n] < O2[e][b] => k < Key[b]
            /\ O2[e][b] < O2[e][n] => Key[b] < k \/ (M /\ Key[b] = k)
  <2>1. /\ O2[e][n] < O2[e][b] => b \in A
        /\ O2[e][b] < O2[e][n] => b \notin A
    <3> HIDE DEF A, G
    <3>1. A \in {A, G}  OBVIOUS
    <3>2. Cut(L, O, e, A, D[p]) /\ (d = 1 => p \in A) /\ (d = 2 => p \notin A)  BY <3>1, <1>2, <1>3
    <3> QED BY <3>2, <1>1, <1>3, PlantedBetween
  <2>2. ~M => (O2[e][b] < O2[e][n] => b \notin G)
    <3> SUFFICES ASSUME ~M PROVE O2[e][b] < O2[e][n] => b \notin G  OBVIOUS
    <3> HIDE DEF A, G
    <3>1. G \in {A, G}  OBVIOUS
    <3>2. Cut(L, O, e, G, D[p]) /\ (d = 1 => p \in G) /\ (d = 2 => p \notin G)  BY <3>1, <1>2, <1>3
    <3> QED BY <3>2, <1>1, <1>3, PlantedBetween
  <2>3. (b \in A <=> k < Key[b]) /\ (b \in G <=> k <= Key[b])  BY DEF Above, Least
  <2>4. Key[b] \in Nat /\ k \in Nat  BY <1>1
  <2> HIDE DEF A, G
  <2>5. ASSUME O2[e][b] < O2[e][n] PROVE Key[b] < k \/ (M /\ Key[b] = k)
    <3>1. CASE M
      <4>1. ~(k < Key[b])  BY <2>1, <2>3, <2>5
      <4>2. Key[b] < k \/ Key[b] = k  BY <4>1, <2>4
      <4> QED BY <4>2, <3>1
    <3>2. CASE ~M
      <4>1. ~(k <= Key[b])  BY <2>2, <2>3, <2>5, <3>2
      <4> QED BY <4>1, <2>4
    <3> QED BY <3>1, <3>2
  <2> QED BY <2>1, <2>3, <2>5
<1>5. \A a, b \in L \cup {n} : O2[e][a] < O2[e][b] => Key[a] < Key[b] \/ (M /\ Key[a] = Key[b])
  <2> SUFFICES ASSUME NEW a \in L \cup {n}, NEW b \in L \cup {n}, O2[e][a] < O2[e][b]
               PROVE Key[a] < Key[b] \/ (M /\ Key[a] = Key[b])
    OBVIOUS
  <2>1. CASE a \in L /\ b \in L
    <3>1. O[e][a] < O[e][b]  BY <2>1, <1>1
    <3>2. e = 2  BY <1>1
    <3> QED BY <3>1, <3>2, <2>1 DEF Sorted
  <2>2. CASE a = n /\ b \in L  BY <2>2, <1>4
  <2>3. CASE a \in L /\ b = n  BY <2>3, <1>4
  <2>4. CASE a = n /\ b = n
    <3>1. ~(O2[e][n] < O2[e][n])  BY <1>1
    <3> QED BY <3>1, <2>4
  <2> QED BY <2>1, <2>2, <2>3, <2>4
<1> QED BY <1>1, <1>4, <1>5 DEF Sorted, Last

(* insert keeps the order.                                                 *)
LEMMA InsertOrders ==
  ASSUME IInv, NEW n \in Nodes, insert(n), NEW O, Laid(tree, live, O), Sorted(live, O, multi)
  PROVE \E O2 : /\ Laid(tree', live', O2) /\ Sorted(live', O2, multi)
                /\ live' # live => SameOrder(live, O, O2) /\ Last(live, O2, n)
<1> DEFINE k == Key[n]
           p == Locate(tree, k, multi)
           t == [tree EXCEPT !.node[n] = Fresh]
           d == IF k < Key[p] THEN 1 ELSE 2
           old == tree.root # NULL /\ ~multi /\ Find(tree, k) # NULL
<1>1. call = NoCall /\ n \in Nodes \ live  BY DEF insert, Ready
<1>2. Whole(policy, tree, live) /\ multi \in BOOLEAN  BY <1>1, PhaseIs DEF Resting, IInv
<1>3. PICK r0 : Links(tree, live, r0)  BY <1>2 DEF Whole
<1>4. k \in Nat  BY KeyAssumption
<1>5. CASE old
  <2>1. tree' = tree /\ live' = live  BY <1>5 DEF insert
  <2> QED BY <2>1
<1>6. CASE ~old
  <2>1. tree' = (IF t.root = NULL THEN t ELSE SetChild(t, p, d, n)) /\ live' = live \cup {n}
    BY <1>6 DEF insert
  <2>2. Blank(tree, t, n)
    <3>1. TreeType(tree)  BY <1>3, LinkFacts
    <3> QED BY <3>1, Blanks, Zenon
  <2>3. t.root = tree.root  BY <2>2 DEF Blank
  <2>4. CASE tree.root = NULL
    <3>1. live = {} /\ live' = {n}
      <4>1. NULL \notin live  BY NodesAssumption DEF IInv
      <4> QED BY <4>1, <2>1, <2>4, <1>3 DEF Links
    <3>2. tree' = t  BY <2>1, <2>3, <2>4
    <3> HIDE DEF t
    <3>3. Lone(tree', live')  BY <3>1, <3>2, <2>2, <2>4 DEF Lone, Blank
    <3>4. Numbered(O)  BY DEF Laid
    <3>5. Laid(tree', live', O)  BY <3>3, <3>4 DEF Laid
    <3>6. Sorted(live', O, multi)
      <4> SUFFICES ASSUME NEW a \in live', NEW b \in live', O[2][a] < O[2][b]
                   PROVE Key[a] < Key[b] \/ (multi /\ Key[a] = Key[b])
        BY DEF Sorted
      <4>1. a = n /\ b = n  BY <3>1
      <4>2. O[2][n] \in Int  BY <3>4 DEF Numbered, Side
      <4>3. ~(O[2][n] < O[2][n])  BY <4>2
      <4> QED BY <4>1, <4>3
    <3> QED BY <3>1, <3>5, <3>6 DEF SameOrder, Last
  <2>5. CASE tree.root # NULL
    <3>1. /\ p \in live
          /\ k < Key[p] => Child(tree, p, 1) = NULL
          /\ Key[p] < k => Child(tree, p, 2) = NULL
          /\ multi /\ ~(k < Key[p]) => Child(tree, p, 2) = NULL
      BY <2>5, <1>2, <1>3, <1>4, LocateIs
    <3>2. ~multi => Key[p] # k
      <4>1. Find(tree, k) = NULL => Key[Locate(tree, k, FALSE)] # k  BY <2>5, <1>3, <1>4, FindIs
      <4>2. ~multi => multi = FALSE  BY <1>2
      <4> QED BY <4>1, <4>2, <2>5, <1>6
    <3>3. Key[p] \in Nat
      <4>1. p \in Nodes  BY <3>1, <1>3, LinkFacts
      <4> QED BY <4>1, KeyAssumption
    <3>4. d \in Side /\ Child(tree, p, d) = NULL
      <4>1. CASE k < Key[p]  BY <4>1, <3>1 DEF Side
      <4>2. CASE ~(k < Key[p])
        <5>1. d = 2  BY <4>2
        <5>2. multi \/ Key[p] < k  BY <4>2, <3>2, <3>3, <1>4
        <5> QED BY <5>1, <5>2, <4>2, <3>1 DEF Side
      <4> QED BY <4>1, <4>2
    <3>5. tree' = SetChild([tree EXCEPT !.node[n] = Fresh], p, d, n)  BY <2>1, <2>3, <2>5
    <3>6. p = Locate(tree, k, multi) /\ d = (IF k < Key[p] THEN 1 ELSE 2) /\ k = Key[n]  OBVIOUS
    <3> HIDE DEF p, d, t, k
    <3>7. PICK r, D : Spread(tree, live, r, O, D)  BY <1>3, LaidSpread
    <3>8. Links(tree, live, r) /\ Numbered(O) /\ p \in Nodes /\ n \in Nodes  BY <3>1, <3>7, LinkFacts DEF Spread
    <3>9. Planted(tree, tree', live, p, d, n)  BY <3>1, <3>4, <3>5, <3>8, <1>1, Plants
    <3>10. PICK O2 : Beyond(O, O2, p, d, n)  BY <3>4, <3>8, BeyondIs
    <3>11. Laid(tree', live \cup {n}, O2)  BY <3>1, <3>4, <3>7, <3>9, <3>10, <1>1, PlantedLaid
    <3>12. Sorted(live \cup {n}, O2, multi) /\ Last(live, O2, n)
      BY <3>1, <3>2, <3>4, <3>6, <3>7, <3>10, <1>1, <1>2, <2>5, PlantedSorted
    <3>13. SameOrder(live, O, O2)
      <4> SUFFICES ASSUME NEW a \in live, NEW b \in live PROVE O[2][a] < O[2][b] <=> O2[2][a] < O2[2][b]
        BY DEF SameOrder
      <4>1. O[2][a] \in Int /\ O[2][b] \in Int  BY <3>8 DEF Numbered, Side, IInv
      <4>2. O2[2][a] = 2 * O[2][a] /\ O2[2][b] = 2 * O[2][b]  BY <3>10, <1>1 DEF Beyond, Side, IInv
      <4> QED BY ONLY <4>1, <4>2
    <3> QED BY <3>11, <3>12, <3>13, <2>1
  <2> QED BY <2>4, <2>5
<1> QED BY <1>5, <1>6

------------------------------------------------------------------------------
(* do_erase.                                                               *)

(* O2 gives n and x each other's place.                                    *)
Exchanging(O, O2, n, x) ==
  Numbered(O2) /\ \A e \in Side : \A m \in Nodes : O2[e][m] = O[e][Swap(n, x, m)]

LEMMA ExchangingIs ==
  ASSUME NEW O, Numbered(O), NEW n \in Nodes, NEW x \in Nodes
  PROVE \E O2 : Exchanging(O, O2, n, x)
<1> DEFINE s(m) == Swap(n, x, m)
           f(e) == [m \in Nodes |-> O[e][s(m)]]
           O2 == [e \in Side |-> f(e)]
<1>1. /\ \A e \in Side : \A m \in Nodes : O[e][m] \in Int
      /\ \A m \in Nodes : O[1][m] = -O[2][m]
  BY DEF Numbered
<1>2. \A m \in Nodes : s(m) \in Nodes  BY DEF Swap
<1> HIDE DEF s
<1>3. \A e \in Side : f(e) \in [Nodes -> Int]  BY <1>1, <1>2
<1>4. O2 \in [Side -> [Nodes -> Int]]  BY <1>3
<1>5. \A e \in Side : \A m \in Nodes : O2[e][m] = O[e][s(m)]  OBVIOUS
<1> HIDE DEF O2, f
<1>6. 1 \in Side /\ 2 \in Side  BY DEF Side
<1>7. \A m \in Nodes : O2[1][m] = -O2[2][m]  BY <1>1, <1>2, <1>5, <1>6
<1>8. Exchanging(O, O2, n, x)  BY <1>4, <1>5, <1>7 DEF Exchanging, Numbered, s
<1> QED BY <1>8

(* Two nodes that change places in the tree change them from left to right, *)
LEMMA SwappedSpread ==
  ASSUME NEW t, NEW L, NEW r, NEW O, NEW D, Spread(t, L, r, O, D), NEW n \in L, NEW x \in L,
         NEW w, Reshaped(t, w, L, n, x), NEW O2, Exchanging(O, O2, n, x)
  PROVE \E r2, D2 : Spread(w, L, r2, O2, D2)
<1> DEFINE s(m) == Swap(n, x, m)
           D2 == [m \in Node |-> {z \in L : s(z) \in D[s(m)]}]
<1>1. /\ Links(t, L, r) /\ NULL \notin L /\ L \subseteq Nodes
      /\ D[NULL] = {} /\ \A m \in L : m \in Node /\ m \in Nodes
  BY SpreadFacts
<1>2. /\ \A m \in L : \A z \in L : z \in D[m] <=> (z = m \/ \E e \in Side : z \in D[Child(t, m, e)])
      /\ \A m \in L : \A e \in Side : \A z \in D[Child(t, m, e)] : O[e][m] < O[e][z]
  BY DEF Spread, Spans
<1>3. /\ \A m \in L : s(m) \in L
      /\ \A m : s(s(m)) = m
      /\ \A m : s(m) = NULL <=> m = NULL
      /\ \A m, k : s(m) = s(k) => m = k
      /\ \A m : (m \in L \cup {NULL}) => s(m) \in L \cup {NULL}
  BY <1>1, SwapFacts
<1>4. PICK r2 : Links(w, L, r2)  BY <1>1, SwappedLinks
<1>5. \A m \in L : \A e \in Side : Child(w, m, e) = s(Child(t, s(m), e))  BY DEF Reshaped
<1>6. Numbered(O2) /\ \A e \in Side : \A m \in L : O2[e][m] = O[e][s(m)]  BY <1>1 DEF Exchanging
<1> HIDE DEF s
<1>7. \A m \in L : \A e \in Side : Child(t, m, e) \in L \cup {NULL}  BY <1>1, LinkFacts
<1>8. /\ D2 \in [Node -> SUBSET L]
      /\ \A m \in L \cup {NULL} : \A z : z \in D2[m] <=> z \in L /\ s(z) \in D[s(m)]
  <2>1. NULL \in Node  BY DEF Node
  <2> QED BY <2>1, <1>1
<1> HIDE DEF D2
<1>9. D2[NULL] = {}
  <2>1. s(NULL) = NULL  BY <1>3
  <2> QED BY <2>1, <1>1, <1>8
<1>10. ASSUME NEW m \in L, NEW e \in Side
       PROVE \A z \in L : z \in D2[Child(w, m, e)] <=> s(z) \in D[Child(t, s(m), e)]
  <2> DEFINE c == Child(t, s(m), e)
  <2>1. Child(w, m, e) = s(c) /\ s(s(c)) = c  BY <1>3, <1>5
  <2>2. s(c) \in L \cup {NULL}  BY <1>3, <1>7
  <2> HIDE DEF c
  <2>3. \A z \in L : z \in D2[s(c)] <=> s(z) \in D[s(s(c))]  BY <2>2, <1>8
  <2>4. \A z \in L : z \in D2[Child(w, m, e)] <=> s(z) \in D[c]  BY <2>1, <2>3
  <2> QED BY <2>4 DEF c
<1>11. \A m \in L : \A z \in L : z \in D2[m] <=> (z = m \/ \E e \in Side : z \in D2[Child(w, m, e)])
  <2> SUFFICES ASSUME NEW m \in L, NEW z \in L
               PROVE z \in D2[m] <=> (z = m \/ \E e \in Side : z \in D2[Child(w, m, e)])
    OBVIOUS
  <2>1. s(m) \in L /\ s(z) \in L /\ (s(z) = s(m) <=> z = m)  BY <1>3
  <2>2. z \in D2[m] <=> s(z) \in D[s(m)]  BY <1>8
  <2>3. s(z) \in D[s(m)] <=> (s(z) = s(m) \/ \E e \in Side : s(z) \in D[Child(t, s(m), e)])  BY <2>1, <1>2
  <2>4. \A e \in Side : z \in D2[Child(w, m, e)] <=> s(z) \in D[Child(t, s(m), e)]  BY <1>10
  <2> QED BY <2>1, <2>2, <2>3, <2>4
<1>12. \A m \in L : \A e \in Side : \A z \in D2[Child(w, m, e)] : O2[e][m] < O2[e][z]
  <2> SUFFICES ASSUME NEW m \in L, NEW e \in Side, NEW z \in D2[Child(w, m, e)] PROVE O2[e][m] < O2[e][z]
    OBVIOUS
  <2>1. Child(w, m, e) \in L \cup {NULL}  BY <1>4, LinkFacts
  <2>2. z \in L  BY <2>1, <1>8
  <2>3. s(z) \in D[Child(t, s(m), e)] /\ s(m) \in L  BY <2>2, <1>3, <1>10
  <2>4. O[e][s(m)] < O[e][s(z)]  BY <2>3, <1>2
  <2> QED BY <2>2, <2>4, <1>6
<1>13. Spans(w, L, O2, D2)  BY <1>8, <1>9, <1>11, <1>12 DEF Spans
<1>14. Spread(w, L, r2, O2, D2)  BY <1>4, <1>6, <1>13 DEF Spread
<1> QED BY <1>14

(* which the others do not see, when x is the one before n and n goes.     *)
LEMMA SwappedOrder ==
  ASSUME NEW t, NEW L, NEW r, NEW O, NEW D, Spread(t, L, r, O, D), NEW n \in L, NEW x \in L,
         NEW f, f = 1, After(L, O, f, n, x), NEW O2, Exchanging(O, O2, n, x)
  PROVE SameOrder(L \ {n}, O, O2)
<1> DEFINE e == 2
<1>1. e \in Side /\ f \in Side /\ f # e /\ e = 2  BY DEF Side
<1> HIDE DEF e
<1>2. /\ L \subseteq Nodes /\ NULL \notin L
      /\ \A m \in L : O[e][m] \in Int /\ O[f][m] \in Int /\ O[f][m] = -O[e][m]
  BY <1>1, SpreadFacts
<1>3. /\ O[f][n] < O[f][x] /\ \A m \in L : O[f][n] < O[f][m] => O[f][x] <= O[f][m]
  BY <1>2 DEF After
<1>4. \A m \in L : O2[e][m] = O[e][Swap(n, x, m)]  BY <1>1, <1>2 DEF Exchanging
<1>5. O[e][x] < O[e][n]
  <2>1. O[f][x] = -O[e][x] /\ O[f][n] = -O[e][n] /\ O[e][x] \in Int /\ O[e][n] \in Int  BY <1>2
  <2> QED BY <2>1, <1>3
<1>6. ASSUME NEW m \in L, m # x, O[e][m] < O[e][n] PROVE O[e][m] < O[e][x]
  <2>1. /\ O[f][x] = -O[e][x] /\ O[f][n] = -O[e][n] /\ O[f][m] = -O[e][m]
        /\ O[e][x] \in Int /\ O[e][n] \in Int /\ O[e][m] \in Int
    BY <1>2
  <2>2. O[f][n] < O[f][m]  BY <2>1, <1>6
  <2>3. O[f][x] <= O[f][m]  BY <2>2, <1>3
  <2>4. O[e][m] # O[e][x]  BY <1>1, <1>6, PlacesDiffer
  <2> QED BY <2>1, <2>3, <2>4
<1>7. \A m \in L \ {n} : O2[e][m] = IF m = x THEN O[e][n] ELSE O[e][m]  BY <1>4 DEF Swap
<1>8. ASSUME NEW a \in L \ {n}, NEW b \in L \ {n}, O2[e][a] < O2[e][b] PROVE O[e][a] < O[e][b]
  <2>1. CASE a # x /\ b # x  BY <2>1, <1>7, <1>8
  <2>2. CASE a = x /\ b # x
    <3>1. O[e][n] < O[e][b] /\ O[e][x] \in Int /\ O[e][n] \in Int /\ O[e][b] \in Int  BY <2>2, <1>2, <1>7, <1>8
    <3>2. O[e][x] < O[e][b]  BY ONLY <3>1, <1>5
    <3> QED BY <3>2, <2>2
  <2>3. CASE a # x /\ b = x
    <3>1. O[e][a] < O[e][n]  BY <2>3, <1>7, <1>8
    <3> QED BY <3>1, <2>3, <1>6
  <2>4. CASE a = x /\ b = x
    <3>1. O[e][n] < O[e][n] /\ O[e][n] \in Int  BY <2>4, <1>2, <1>7, <1>8
    <3>2. FALSE  BY ONLY <3>1
    <3> QED BY <3>2
  <2> QED BY <2>1, <2>2, <2>3, <2>4
<1>9. ASSUME NEW a \in L \ {n}, NEW b \in L \ {n}, O[e][a] < O[e][b] PROVE O2[e][a] < O2[e][b]
  <2>1. O[e][a] \in Int /\ O[e][b] \in Int /\ O[e][n] \in Int /\ O[e][x] \in Int  BY <1>2
  <2>2. CASE a # x /\ b # x  BY <2>2, <1>7, <1>9
  <2>3. CASE a = x /\ b # x
    <3>1. ~(O[e][b] < O[e][n])
      <4> SUFFICES ASSUME O[e][b] < O[e][n] PROVE FALSE  OBVIOUS
      <4>1. O[e][b] < O[e][x] /\ O[e][x] < O[e][b]  BY <2>3, <1>6, <1>9
      <4> QED BY ONLY <4>1, <2>1
    <3>2. O[e][b] # O[e][n]  BY <1>1, PlacesDiffer
    <3>3. O[e][n] < O[e][b]  BY ONLY <3>1, <3>2, <2>1
    <3> QED BY <3>3, <2>3, <1>7
  <2>4. CASE a # x /\ b = x
    <3>1. O[e][a] < O[e][x]  BY <2>4, <1>9
    <3>2. O[e][a] < O[e][n]  BY ONLY <3>1, <2>1, <1>5
    <3> QED BY <3>2, <2>4, <1>7
  <2>5. CASE a = x /\ b = x
    <3>1. O[e][x] < O[e][x]  BY <2>5, <1>9
    <3>2. FALSE  BY ONLY <3>1, <2>1
    <3> QED BY <3>2
  <2> QED BY <2>2, <2>3, <2>4, <2>5
<1> QED BY <1>1, <1>8, <1>9 DEF SameOrder

(* Nor do they see that it is unlinked.                                    *)
LEMMA BypassedSpread ==
  ASSUME NEW t, NEW L, NEW r, NEW O, NEW D, Spread(t, L, r, O, D), NEW n \in L, NEW c, NEW d \in Side,
         NEW dd \in Side, dd # d, Child(t, n, d) = c, Child(t, n, dd) = NULL, NEW u, Bypassed(t, u, L, n, c)
  PROVE \E D2 : Spread(u, L \ {n}, r, O, D2)
<1> DEFINE M == L \ {n}
           D2 == [m \in Node |-> D[m] \ {n}]
<1>1. /\ Links(t, L, r) /\ NULL \notin L /\ D[NULL] = {} /\ \A m \in Node : D[m] \subseteq L
      /\ D[c] \subseteq D[n]
      /\ \A m \in L : m \in Node
  BY SpreadFacts
<1>2. /\ \A m \in L : \A z \in L : z \in D[m] <=> (z = m \/ \E e \in Side : z \in D[Child(t, m, e)])
      /\ \A m \in L : \A e \in Side : \A z \in D[Child(t, m, e)] : O[e][m] < O[e][z]
  BY DEF Spread, Spans
<1>3. Links(u, M, r)  BY <1>1, BypassedLinks
<1>4. \A m \in M : \A e \in Side : Child(u, m, e) = IF Child(t, m, e) = n THEN c ELSE Child(t, m, e)
  BY DEF Bypassed
<1>5. D2 \in [Node -> SUBSET M] /\ \A m \in Node : D2[m] = D[m] \ {n}  BY <1>1
<1>6. /\ NULL \in Node /\ c \in Node
      /\ \A m \in L : \A e \in Side : Child(t, m, e) \in Node
      /\ \A m \in M : \A e \in Side : Child(u, m, e) \in Node
  <2>1. NULL \in Node  BY DEF Node
  <2>2. \A m \in L : \A e \in Side : Child(t, m, e) \in Node  BY <1>1, LinkFacts
  <2>3. \A m \in M : \A e \in Side : Child(u, m, e) \in Node  BY <1>3, LinkFacts
  <2> QED BY <2>1, <2>2, <2>3
<1> HIDE DEF D2
<1>7. D2[NULL] = {}  BY <1>1, <1>5, <1>6
<1>8. \A z \in M : z \in D[n] <=> z \in D[c]
  <2>1. \A e \in Side : e = d \/ e = dd  BY DEF Side
  <2> QED BY <2>1, <1>1, <1>2
<1>9. \A m \in M : \A e \in Side : \A z \in M : z \in D2[Child(u, m, e)] <=> z \in D[Child(t, m, e)]
  BY <1>4, <1>5, <1>6, <1>8
<1>10. \A m \in M : \A z \in M : z \in D2[m] <=> (z = m \/ \E e \in Side : z \in D2[Child(u, m, e)])
  <2> SUFFICES ASSUME NEW m \in M, NEW z \in M
               PROVE z \in D2[m] <=> (z = m \/ \E e \in Side : z \in D2[Child(u, m, e)])
    OBVIOUS
  <2>1. z \in D2[m] <=> z \in D[m]  BY <1>1, <1>5
  <2>2. z \in D[m] <=> (z = m \/ \E e \in Side : z \in D[Child(t, m, e)])  BY <1>2
  <2> QED BY <2>1, <2>2, <1>9
<1>11. \A m \in M : \A e \in Side : \A z \in D2[Child(u, m, e)] : O[e][m] < O[e][z]
  <2> SUFFICES ASSUME NEW m \in M, NEW e \in Side, NEW z \in D2[Child(u, m, e)] PROVE O[e][m] < O[e][z]
    OBVIOUS
  <2>1. z \in M  BY <1>5, <1>6
  <2>2. z \in D[Child(t, m, e)]  BY <2>1, <1>9
  <2> QED BY <2>2, <1>2
<1>12. Spans(u, M, O, D2)  BY <1>5, <1>7, <1>10, <1>11 DEF Spans
<1>13. Spread(u, M, r, O, D2)  BY <1>3, <1>12 DEF Spread
<1> QED BY <1>13

(* do_erase up to the unlinking: the other nodes stand in order.           *)
LEMMA UnlinkedOrdered ==
  ASSUME NEW t, NEW L, NEW r0, Links(t, L, r0), NEW n \in L,
         NEW v, v = IF Child(t, n, 1) # NULL /\ Child(t, n, 2) # NULL
                    THEN SwapNodes(t, n, Lowest(t, Child(t, n, 1), 2)) ELSE t,
         NEW p, p = Parent(v, n),
         NEW c, c = IF Child(v, n, 1) # NULL THEN Child(v, n, 1) ELSE Child(v, n, 2),
         NEW u, u = Adopt(Replace(v, p, n, c), p, c),
         NEW O, Laid(t, L, O)
  PROVE \E O2 : Laid(u, L \ {n}, O2) /\ SameOrder(L \ {n}, O, O2)
<1>1. PICK r, D : Spread(t, L, r, O, D)  BY LaidSpread
<1>2. Links(t, L, r) /\ Numbered(O) /\ L \subseteq Nodes  BY <1>1, SpreadFacts DEF Spread
<1>3. \E O2 : /\ \E r2, D2 : Spread(v, L, r2, O2, D2)
              /\ SameOrder(L \ {n}, O, O2)
              /\ Child(v, n, 1) = NULL \/ Child(v, n, 2) = NULL
  <2>1. CASE Child(t, n, 1) # NULL /\ Child(t, n, 2) # NULL
    <3> DEFINE x == Lowest(t, Child(t, n, 1), 2)
               f == 1
               ff == 2
               y == Child(t, n, f)
    <3>1. v = SwapNodes(t, n, x) /\ x = Lowest(t, Child(t, n, 1), 2)  BY <2>1
    <3>2. /\ f \in Side /\ ff \in Side /\ ff # f /\ f = 1
          /\ y = Child(t, n, f) /\ y # NULL /\ x = Lowest(t, y, ff)
      BY <2>1 DEF Side
    <3> HIDE DEF x, y, f, ff
    <3>3. x \in L /\ Swapped(t, v, L, n, x) /\ Child(v, n, 2) = NULL  BY <2>1, <3>1, <1>2, SwapNodesIs
    <3>4. After(L, O, f, n, x)  BY <3>2, <1>1, LowestNext
    <3>5. PICK O2 : Exchanging(O, O2, n, x)  BY <3>3, <1>2, ExchangingIs
    <3>6. Reshaped(t, v, L, n, x)  BY <3>3 DEF Swapped
    <3>7. \E r2, D2 : Spread(v, L, r2, O2, D2)  BY <3>3, <3>5, <3>6, <1>1, SwappedSpread
    <3>8. SameOrder(L \ {n}, O, O2)  BY <3>2, <3>3, <3>4, <3>5, <1>1, SwappedOrder
    <3> QED BY <3>3, <3>7, <3>8
  <2>2. CASE ~(Child(t, n, 1) # NULL /\ Child(t, n, 2) # NULL)
    <3>1. v = t  BY <2>2
    <3>2. SameOrder(L \ {n}, O, O)  BY DEF SameOrder
    <3>3. \E r2, D2 : Spread(v, L, r2, O, D2)  BY <3>1, <1>1
    <3>4. Child(v, n, 1) = NULL \/ Child(v, n, 2) = NULL  BY <3>1, <2>2
    <3> QED BY <3>2, <3>3, <3>4
  <2> QED BY <2>1, <2>2
<1>4. PICK O2 : /\ \E r2, D2 : Spread(v, L, r2, O2, D2)
                /\ SameOrder(L \ {n}, O, O2)
                /\ Child(v, n, 1) = NULL \/ Child(v, n, 2) = NULL
  BY <1>3
<1>5. PICK r2, D2 : Spread(v, L, r2, O2, D2)  BY <1>4
<1>6. Links(v, L, r2) /\ Numbered(O2)  BY <1>5 DEF Spread
<1>7. \E d, dd \in Side : dd # d /\ Child(v, n, d) = c /\ Child(v, n, dd) = NULL
  BY <1>4 DEF Side
<1>8. PICK d \in Side, dd \in Side : dd # d /\ Child(v, n, d) = c /\ Child(v, n, dd) = NULL  BY <1>7
<1>9. c \in L \cup {NULL} /\ c # n  BY <1>6, <1>8, LinkFacts
<1>10. Bypassed(v, u, L, n, c)  BY <1>6, <1>9, BypassIs
<1>11. \E D3 : Spread(u, L \ {n}, r2, O2, D3)  BY <1>5, <1>8, <1>10, BypassedSpread
<1>12. Laid(u, L \ {n}, O2)  BY <1>6, <1>11 DEF Laid
<1> QED BY <1>4, <1>12

(* do_erase leaves them in order.                                          *)
LEMMA ErasesOrdered ==
  ASSUME Whole(policy, tree, live), NEW n \in live, NEW o, do_erase(n, o),
         NEW O, Laid(tree, live, O)
  PROVE \E O2 : Laid(tree', live \ {n}, O2) /\ SameOrder(live \ {n}, O, O2)
<1> DEFINE t == IF Child(tree, n, 1) # NULL /\ Child(tree, n, 2) # NULL
                THEN SwapNodes(tree, n, Lowest(tree, Child(tree, n, 1), 2)) ELSE tree
           p == Parent(t, n)
           c == IF Child(t, n, 1) # NULL THEN Child(t, n, 1) ELSE Child(t, n, 2)
           u == Adopt(Replace(t, p, n, c), p, c)
<1>1. tree' = u \/ tree' = Mark(u, c, Black)  BY DEF do_erase
<1>2. PICK r0 : Links(tree, live, r0)  BY DEF Whole
<1>3. /\ p = Parent(t, n)
      /\ t = (IF Child(tree, n, 1) # NULL /\ Child(tree, n, 2) # NULL
              THEN SwapNodes(tree, n, Lowest(tree, Child(tree, n, 1), 2)) ELSE tree)
      /\ c = (IF Child(t, n, 1) # NULL THEN Child(t, n, 1) ELSE Child(t, n, 2))
      /\ u = Adopt(Replace(t, p, n, c), p, c)
  OBVIOUS
<1> HIDE DEF t, p, c, u
<1>4. PICK O2 : Laid(u, live \ {n}, O2) /\ SameOrder(live \ {n}, O, O2)  BY <1>2, <1>3, UnlinkedOrdered
<1>5. CASE tree' = u  BY <1>4, <1>5
<1>6. CASE tree' = Mark(u, c, Black)
  <2>1. TreeType(u) /\ c \in Node
    <3>1. Prepared(tree, t, live, n, c, p, u)  BY <1>2, <1>3, Prepares
    <3>2. PICK r : \E f, ff \in Side : Unlinking(t, live, r, n, f, ff, c, p, u)  BY <3>1 DEF Prepared
    <3>3. PICK f \in Side, ff \in Side : Unlinking(t, live, r, n, f, ff, c, p, u)  BY <3>2
    <3>4. Remaining(t, live, r, n, c, p, u)  BY <3>3, UnlinkedFacts
    <3> QED BY <3>4 DEF Remaining
  <2>2. GetsExtra(u, tree', c, Black)
    <3>1. Black \in Int  BY DEF Black
    <3>2. GetsExtra(u, Mark(u, c, Black), c, Black)  BY <2>1, <3>1, Marked
    <3> QED BY <3>2, <1>6
  <2>3. Recoloured(u, tree')  BY <2>2 DEF GetsExtra, Recoloured
  <2>4. Turned(u, tree', live \ {n})  BY <2>3, RecolouredTurned
  <2> QED BY <2>4, <1>4 DEF Turned
<1> QED BY <1>1, <1>5, <1>6
==============================================================================
