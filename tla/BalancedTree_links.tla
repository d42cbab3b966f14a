------------------------- MODULE BalancedTree_links --------------------------
(***************************************************************************)
(* Trees, for any nodes: what the assignments, the rotations, the changes  *)
(* of colour and factor, the loops and the searches of bst_tree and its    *)
(* policies do to the links of a tree (Links), to the black heights of a   *)
(* red-black tree (RbtWhole, RbtGrowing, RbtLacking) and to the heights of *)
(* an AVL tree (AvlWhole, AvlGrowing, AvlShrunk), and to the order of the  *)
(* nodes from left to right (Spread, Turned).  These lemmas are about a    *)
(* tree, not about a state; BalancedTree_proofs puts them together.        *)
(***************************************************************************)
EXTENDS BalancedTree, TLAPS, FiniteSetTheorems, WellFoundedInduction

Node == Nodes \cup {NULL}
Side == {1, 2}
TreeType(t) ==
  t \in [root : Node, node : [Nodes -> [parent : Node, child : [Side -> Node], extra : Int]]]

(* What an assignment makes of a tree t: the tree u.                       *)
GetsRoot(t, u, x) ==
  /\ TreeType(u) /\ u.root = x
  /\ \A m \in Nodes : /\ Parent(u, m) = Parent(t, m) /\ Extra(u, m) = Extra(t, m)
                      /\ \A e \in Side : Child(u, m, e) = Child(t, m, e)

GetsParent(t, u, n, x) ==
  /\ TreeType(u) /\ u.root = t.root
  /\ \A m \in Nodes : /\ Parent(u, m) = IF m = n THEN x ELSE Parent(t, m)
                      /\ Extra(u, m) = Extra(t, m)
                      /\ \A e \in Side : Child(u, m, e) = Child(t, m, e)

GetsChild(t, u, n, d, x) ==
  /\ TreeType(u) /\ u.root = t.root
  /\ \A m \in Nodes : /\ Parent(u, m) = Parent(t, m) /\ Extra(u, m) = Extra(t, m)
                      /\ \A e \in Side : Child(u, m, e) = IF m = n /\ e = d THEN x ELSE Child(t, m, e)

GetsExtra(t, u, n, x) ==
  /\ TreeType(u) /\ u.root = t.root
  /\ \A m \in Nodes : /\ Parent(u, m) = Parent(t, m)
                      /\ Extra(u, m) = IF m = n THEN x ELSE Extra(t, m)
                      /\ \A e \in Side : Child(u, m, e) = Child(t, m, e)

(* Both ends of a link, and the upper end of the one to n.                 *)
Joined(t, u, p, d, c) ==
  /\ TreeType(u) /\ u.root = t.root
  /\ \A m \in Nodes : /\ Parent(u, m) = IF m = c THEN p ELSE Parent(t, m)
                      /\ Extra(u, m) = Extra(t, m)
                      /\ \A e \in Side : Child(u, m, e) = IF m = p /\ e = d THEN c ELSE Child(t, m, e)

Replaced(t, u, p, n, x) ==
  /\ TreeType(u) /\ u.root = IF p = NULL THEN x ELSE t.root
  /\ \A m \in Nodes :
       /\ Parent(u, m) = Parent(t, m) /\ Extra(u, m) = Extra(t, m)
       /\ \A e \in Side :
            Child(u, m, e) = IF m = p /\ e = SideOf(t, p, n) THEN x ELSE Child(t, m, e)

(* What the fields of a typed tree are.                                    *)
LEMMA TypedNodes ==
  ASSUME NEW t, TreeType(t)
  PROVE /\ t.root \in Node
        /\ \A m \in Nodes : /\ Parent(t, m) \in Node /\ Extra(t, m) \in Int
                            /\ \A e \in Side : Child(t, m, e) \in Node
BY DEF TreeType, Parent, Child, Extra, Node, Side

(* The assignments that the code makes of a tree, one lemma each: of       *)
(* m_pRoot,                                                                *)
LEMMA SetRoot ==
  ASSUME NEW t, TreeType(t), NEW x \in Node
  PROVE GetsRoot(t, [t EXCEPT !.root = x], x)
BY DEF GetsRoot, TreeType, Parent, Child, Extra, Node, Side

(* of the parent of a node,                                                *)
LEMMA SetParent ==
  ASSUME NEW t, TreeType(t), NEW n \in Nodes, NEW x \in Node
  PROVE GetsParent(t, [t EXCEPT !.node[n].parent = x], n, x)
BY DEF GetsParent, TreeType, Parent, Child, Extra, Node, Side

(* of a child,                                                             *)
LEMMA SetLink ==
  ASSUME NEW t, TreeType(t), NEW n \in Nodes, NEW d \in Side, NEW x \in Node
  PROVE GetsChild(t, [t EXCEPT !.node[n].child[d] = x], n, d, x)
BY DEF GetsChild, TreeType, Parent, Child, Extra, Node, Side

(* of the colour or the factor,                                            *)
LEMMA Marked ==
  ASSUME NEW t, TreeType(t), NEW n \in Node, NEW x \in Int
  PROVE GetsExtra(t, Mark(t, n, x), n, x)
<1>1. CASE n = NULL  BY <1>1, NodesAssumption DEF Mark, GetsExtra
<1>2. CASE n # NULL
  <2>1. n \in Nodes  BY <1>2 DEF Node
  <2> QED BY <2>1, <1>2 DEF Mark, GetsExtra, TreeType, Parent, Child, Extra, Node, Side
<1> QED BY <1>1, <1>2

(* of the parent of a child that may be missing,                           *)
LEMMA Adopted ==
  ASSUME NEW t, TreeType(t), NEW p \in Node, NEW c \in Node
  PROVE GetsParent(t, Adopt(t, p, c), c, p)
<1>1. CASE c = NULL  BY <1>1, NodesAssumption DEF Adopt, GetsParent
<1>2. CASE c # NULL
  <2> DEFINE u == [t EXCEPT !.node[c].parent = p]
  <2>1. c \in Nodes /\ Adopt(t, p, c) = u  BY <1>2 DEF Node, Adopt
  <2>2. GetsParent(t, u, c, p)  BY <2>1, SetParent, Zenon
  <2> HIDE DEF u
  <2> QED BY <2>1, <2>2
<1> QED BY <1>1, <1>2

(* and of both ends of a link (set_child1, set_child2).                    *)
LEMMA SetChildJoins ==
  ASSUME NEW t, TreeType(t), NEW p \in Nodes, NEW d \in Side, NEW c \in Node
  PROVE Joined(t, SetChild(t, p, d, c), p, d, c)
<1> DEFINE v == [t EXCEPT !.node[p].child[d] = c]
<1>1. GetsChild(t, v, p, d, c)  BY SetLink, Zenon
<1>2. SetChild(t, p, d, c) = Adopt(v, p, c)  BY DEF SetChild
<1>3. p \in Node  BY DEF Node
<1> HIDE DEF v
<1>4. TreeType(v)  BY <1>1 DEF GetsChild
<1>5. GetsParent(v, Adopt(v, p, c), c, p)  BY <1>3, <1>4, Adopted, Zenon
<1> QED BY <1>1, <1>2, <1>5 DEF GetsChild, GetsParent, Joined

(* The side on which n hangs.                                              *)
LEMMA SideOfIs == ASSUME NEW t, NEW p, NEW n
  PROVE /\ SideOf(t, p, n) \in Side
        /\ \/ Child(t, p, 1) = n /\ SideOf(t, p, n) = 1
           \/ Child(t, p, 1) # n /\ SideOf(t, p, n) = 2
BY DEF SideOf, Side

(* The link to n becomes a link to x, at the parent or at m_pRoot.         *)
LEMMA Replaces ==
  ASSUME NEW t, TreeType(t), NEW p \in Node, NEW n, NEW x \in Node
  PROVE Replaced(t, Replace(t, p, n, x), p, n, x)
<1>1. CASE p = NULL
  <2> DEFINE u == [t EXCEPT !.root = x]
  <2>1. Replace(t, p, n, x) = u  BY <1>1 DEF Replace
  <2>2. GetsRoot(t, u, x)  BY SetRoot, Zenon
  <2> HIDE DEF u
  <2> QED BY <1>1, <2>1, <2>2, NodesAssumption DEF GetsRoot, Replaced
<1>2. CASE p # NULL
  <2> DEFINE d == SideOf(t, p, n)
             u == [t EXCEPT !.node[p].child[d] = x]
  <2>1. p \in Nodes /\ d \in Side  BY <1>2, SideOfIs DEF Node
  <2>2. Replace(t, p, n, x) = u  BY <1>2 DEF Replace
  <2> HIDE DEF d
  <2>3. GetsChild(t, u, p, d, x)  BY <2>1, SetLink, Zenon
  <2> HIDE DEF u
  <2> QED BY <2>2, <2>3, <1>2 DEF d, GetsChild, Replaced
<1> QED BY <1>1, <1>2

(* The links of the nodes L of t; r counts down from the root.             *)
Links(t, L, r) ==
  /\ TreeType(t) /\ L \subseteq Nodes /\ r \in [Nodes -> Nat]
  /\ t.root \in L \/ (t.root = NULL /\ L = {})
  /\ \A m \in L : m = t.root => Parent(t, m) = NULL
  /\ \A m \in L : m # t.root =>
       /\ Parent(t, m) \in L /\ r[Parent(t, m)] < r[m]
       /\ \E e \in Side : Child(t, Parent(t, m), e) = m
  /\ \A m \in L : \A e \in Side : Child(t, m, e) # NULL =>
       /\ Child(t, m, e) \in L /\ Parent(t, Child(t, m, e)) = m
       /\ Child(t, m, 3 - e) # Child(t, m, e)

Rotated(t, u, L, n, d, y, x) ==
  /\ TreeType(u)
  /\ u.root = IF t.root = n THEN y ELSE t.root
  /\ \A m \in Nodes :
       /\ Extra(u, m) = Extra(t, m)
       /\ Parent(u, m) = IF m = n THEN y ELSE IF m = y THEN Parent(t, n)
                         ELSE IF m = x THEN n ELSE Parent(t, m)
  /\ \A e \in Side : /\ Child(u, n, e) = IF e = d THEN x ELSE Child(t, n, e)
                     /\ Child(u, y, e) = IF e = d THEN Child(t, y, e) ELSE n
                     /\ \A m \in Nodes \ (L \cup {n, y}) : Child(u, m, e) = Child(t, m, e)
                     /\ \A m \in L \ {n, y} : Child(u, m, e) = IF Child(t, m, e) = n THEN y ELSE Child(t, m, e)

(* What a rotation makes of the links: Rotated, the description by which   *)
(* the rest of the proof knows it.                                         *)
LEMMA RotateIs ==
  ASSUME NEW t, NEW L, NEW r, Links(t, L, r), NEW n \in L, NEW d \in Side, Child(t, n, d) # NULL
  PROVE Rotated(t, Rotate(t, n, d), L, n, d, Child(t, n, d), Child(t, Child(t, n, d), 3 - d))
<1> DEFINE y == Child(t, n, d)
           x == Child(t, y, 3 - d)
           p == Parent(t, n)
           u1 == SetChild(t, n, d, x)
           u2 == SetChild(u1, y, 3 - d, n)
           u3 == Replace(u2, p, n, y)
           u4 == [u3 EXCEPT !.node[y].parent = p]
<1>0. u4 = Rotate(t, n, d)  BY DEF Rotate
<1>1. /\ TreeType(t) /\ n \in Nodes /\ n \in Node /\ y \in L /\ y \in Nodes /\ y \in Node
      /\ x \in Node /\ p \in Node /\ 3 - d \in Side /\ d \in Side
  BY TypedNodes DEF Links, Side, Node
<1>2. /\ Parent(t, y) = n /\ y # n /\ x # n /\ x # y /\ p # n /\ p # y /\ d # 3 - d
      /\ p = NULL <=> n = t.root
      /\ p # NULL => p \in L /\ \E e \in Side : Child(t, p, e) = n
      /\ y # t.root /\ r[n] < r[y]
      /\ \A m \in L : \A e \in Side : Child(t, m, e) = n => p = m
      /\ \A e \in Side : Child(t, y, e) # n
      /\ y # NULL
  BY <1>1, TypedNodes, NodesAssumption DEF Links, Side, Node
<1> HIDE DEF y, x, p
<1>3. Joined(t, u1, n, d, x)  BY <1>1, SetChildJoins, Zenon
<1> HIDE DEF u1
<1>4. Joined(u1, u2, y, 3 - d, n)
  <2>1. TreeType(u1)  BY <1>3 DEF Joined
  <2>2. 3 - d \in Side  BY <1>1
  <2> DEFINE d3 == 3 - d
  <2> HIDE DEF d3
  <2> QED BY <1>1, <2>1, <2>2, SetChildJoins, Zenon DEF d3
<1> HIDE DEF u2
<1>5. Replaced(u2, u3, p, n, y)
  <2>1. TreeType(u2)  BY <1>4 DEF Joined
  <2> QED BY <1>1, <2>1, Replaces, Zenon
<1> HIDE DEF u3
<1>6. GetsParent(u3, u4, y, p)
  <2>1. TreeType(u3)  BY <1>5 DEF Replaced
  <2> QED BY <1>1, <2>1, SetParent, Zenon
<1> HIDE DEF u4
<1> USE DEF Joined, Replaced, GetsParent
<1>7. \A m \in L \ {n, y} : \A e \in Side : Child(u4, m, e) = IF Child(t, m, e) = n THEN y ELSE Child(t, m, e)
  <2> SUFFICES ASSUME NEW m \in L \ {n, y}, NEW e \in Side
               PROVE Child(u4, m, e) = IF Child(t, m, e) = n THEN y ELSE Child(t, m, e)
    OBVIOUS
  <2>1. m \in Nodes  BY DEF Links
  <2>2. Child(u2, m, e) = Child(t, m, e) /\ \A f \in Side : Child(u2, m, f) = Child(t, m, f)  BY <2>1, <1>3, <1>4
  <2>3. CASE m # p  BY <2>1, <2>2, <2>3, <1>2, <1>5, <1>6
  <2>4. CASE m = p
    <3>1. /\ SideOf(u2, p, n) \in Side
          /\ \/ Child(t, p, 1) = n /\ SideOf(u2, p, n) = 1
             \/ Child(t, p, 1) # n /\ SideOf(u2, p, n) = 2
      BY <2>2, <2>4, SideOfIs DEF Side
    <3>2. \E f \in Side : Child(t, p, f) = n  BY <2>1, <2>4, <1>2, NodesAssumption
    <3>3. \A f \in Side : Child(t, p, f) = n => Child(t, p, 3 - f) # n  BY <2>4, <1>1, NodesAssumption DEF Links
    <3>4. Child(t, p, e) = n <=> e = SideOf(u2, p, n)  BY <3>1, <3>2, <3>3 DEF Side
    <3> QED BY <2>1, <2>2, <2>4, <3>4, <1>5, <1>6
  <2> QED BY <2>3, <2>4
<1>8. \A m \in Nodes \ (L \cup {n, y}) : \A e \in Side : Child(u4, m, e) = Child(t, m, e)
  BY <1>1, <1>2, <1>3, <1>4, <1>5, <1>6, NodesAssumption
<1>9. \A e \in Side : Child(u4, n, e) = IF e = d THEN x ELSE Child(t, n, e)
  BY <1>1, <1>2, <1>3, <1>4, <1>5, <1>6
<1>10. \A e \in Side : Child(u4, y, e) = IF e = d THEN Child(t, y, e) ELSE n
  BY <1>1, <1>2, <1>3, <1>4, <1>5, <1>6 DEF Side
<1>11. \A m \in Nodes : /\ Extra(u4, m) = Extra(t, m)
                        /\ Parent(u4, m) = IF m = n THEN y ELSE IF m = y THEN p
                                           ELSE IF m = x THEN n ELSE Parent(t, m)
  BY <1>1, <1>2, <1>3, <1>4, <1>5, <1>6
<1>12. u4.root = IF t.root = n THEN y ELSE t.root
  BY <1>2, <1>3, <1>4, <1>5, <1>6
<1>13. Rotated(t, u4, L, n, d, y, x)
  BY <1>6, <1>7, <1>8, <1>9, <1>10, <1>11, <1>12 DEF Rotated, p
<1> QED BY <1>13, <1>0 DEF x, y

(* A rotation leaves a tree on the same nodes.                             *)
LEMMA RotatedLinks ==
  ASSUME NEW t, NEW L, NEW r, Links(t, L, r), NEW n \in L, NEW d \in Side, NEW y, NEW x, NEW u,
         y = Child(t, n, d), y # NULL, x = Child(t, y, 3 - d), Rotated(t, u, L, n, d, y, x)
  PROVE \E r2 : Links(u, L, r2)
<1> DEFINE r2 == [m \in Nodes |-> IF m = n THEN 2 * r[n] + 1 ELSE IF m = y THEN 2 * r[n] ELSE 2 * r[m]]
           p == Parent(t, n)
<1>1. /\ TreeType(t) /\ n \in Nodes /\ n \in Node /\ y \in L /\ y \in Nodes /\ y \in Node
      /\ x \in Node /\ p \in Node /\ 3 - d \in Side /\ d \in Side
  BY TypedNodes DEF Links, Side, Node
<1>2. /\ Parent(t, y) = n /\ y # n /\ x # n /\ x # y /\ p # n /\ p # y /\ d # 3 - d
      /\ p = NULL <=> n = t.root
      /\ p # NULL => p \in L /\ \E e \in Side : Child(t, p, e) = n
      /\ y # t.root /\ r[n] < r[y]
      /\ \A m \in L : \A e \in Side : Child(t, m, e) = n => p = m
      /\ \A e \in Side : Child(t, y, e) # n
      /\ y # NULL
  BY <1>1, TypedNodes, NodesAssumption DEF Links, Side, Node
<1>3. r2 \in [Nodes -> Nat]  BY <1>1 DEF Links
<1> HIDE DEF r2
<1>9. \A m \in L : /\ m \in Nodes /\ m # NULL /\ r[m] \in Nat
                   /\ r2[m] = IF m = n THEN 2 * r[n] + 1 ELSE IF m = y THEN 2 * r[n] ELSE 2 * r[m]
  BY NodesAssumption DEF r2, Links
<1>10. u.root = IF t.root = n THEN y ELSE t.root
  BY DEF Rotated
<1>11. /\ Parent(u, n) = y /\ Parent(u, y) = p
       /\ x # NULL => Parent(u, x) = n
       /\ \A m \in L \ {n, y, x} : Parent(u, m) = Parent(t, m)
  BY <1>1, <1>2, <1>9, TypedNodes DEF Rotated, Node
<1>12. /\ Child(u, n, d) = x /\ Child(u, n, 3 - d) = Child(t, n, 3 - d)
       /\ Child(u, y, d) = Child(t, y, d) /\ Child(u, y, 3 - d) = n
       /\ \A m \in L \ {n, y} : \A e \in Side : Child(u, m, e) = IF Child(t, m, e) = n THEN y ELSE Child(t, m, e)
       /\ \A e \in Side : e # d => e = 3 - d
       /\ 3 - (3 - d) = d
  BY <1>1, <1>2 DEF Rotated, Side
<1>13. /\ x # NULL => x \in L /\ Parent(t, x) = y /\ r[y] < r[x]
       /\ Child(t, n, d) = y /\ Child(t, y, 3 - d) = x
       /\ n \in L /\ Parent(t, n) = p
       /\ p # NULL => r[p] < r[n]
  BY <1>1, <1>2, <1>9 DEF Links
<1>4. \A m \in L : m = u.root => Parent(u, m) = NULL
  BY <1>1, <1>2, <1>9, <1>10, <1>11 DEF Links
<1>5. ASSUME NEW m \in L, m # u.root
      PROVE /\ Parent(u, m) \in L /\ r2[Parent(u, m)] < r2[m]
            /\ \E e \in Side : Child(u, Parent(u, m), e) = m
  <2>1. CASE m = n  BY <2>1, <1>1, <1>2, <1>9, <1>11, <1>12
  <2>2. CASE m = y
    <3>1. p \in L /\ p # n /\ p # y /\ n # t.root  BY <2>2, <1>5, <1>2, <1>10, <1>13, <1>9
    <3>2. PICK e \in Side : Child(t, p, e) = n  BY <3>1, <1>2, <1>9
    <3>3. Child(u, p, e) = y  BY <3>1, <3>2, <1>12
    <3>4. r2[p] < r2[y]  BY <3>1, <1>1, <1>2, <1>9, <1>13
    <3> QED BY <2>2, <3>1, <3>3, <3>4, <1>11
  <2>3. CASE m = x  BY <2>3, <1>1, <1>2, <1>9, <1>11, <1>12, <1>13
  <2>4. CASE m \notin {n, y, x}
    <3> DEFINE q == Parent(t, m)
    <3>1. m # t.root  BY <2>4, <1>5, <1>10
    <3>2. q \in L /\ r[q] < r[m] /\ Parent(u, m) = q  BY <3>1, <2>4, <1>11 DEF Links
    <3>3. PICK e \in Side : Child(t, q, e) = m  BY <3>1 DEF Links
    <3> HIDE DEF q
    <3>4. Child(u, q, e) = m
      <4>1. CASE q = n  BY <4>1, <3>3, <2>4, <1>12, <1>13
      <4>2. CASE q = y  BY <4>2, <3>3, <2>4, <1>12, <1>13
      <4>3. CASE q \notin {n, y}  BY <4>3, <3>2, <3>3, <2>4, <1>12
      <4> QED BY <4>1, <4>2, <4>3
    <3>5. r2[q] < r2[m]  BY <3>2, <2>4, <1>1, <1>2, <1>9
    <3> QED BY <3>2, <3>4, <3>5
  <2> QED BY <2>1, <2>2, <2>3, <2>4
<1>6. ASSUME NEW m \in L, NEW e \in Side, Child(u, m, e) # NULL
      PROVE /\ Child(u, m, e) \in L /\ Parent(u, Child(u, m, e)) = m
            /\ Child(u, m, 3 - e) # Child(u, m, e)
  <2>0. /\ 3 - e \in Side
        /\ \A q \in L : \A f \in Side : Child(t, q, f) # NULL =>
             /\ Child(t, q, f) \in L /\ Parent(t, Child(t, q, f)) = q
             /\ Child(t, q, 3 - f) # Child(t, q, f)
    BY DEF Links, Side
  <2>1. CASE m = n
    <3>1. CASE e = d  BY <3>1, <2>1, <2>0, <1>6, <1>1, <1>2, <1>9, <1>11, <1>12, <1>13
    <3>2. CASE e # d
      <4>1. e = 3 - d  BY <3>2, <1>12
      <4> DEFINE z == Child(t, n, e)
      <4>2. Child(u, m, e) = z /\ z # NULL  BY <4>1, <2>1, <1>12, <1>6
      <4>3. z \in L /\ Parent(t, z) = n  BY <4>2, <2>0
      <4>4. z # y  BY <2>0, <4>1, <1>1, <1>13, <1>2
      <4>5. z # n /\ z # x  BY <4>3, <1>2, <1>9, <1>13
      <4>6. Parent(u, z) = n  BY <4>3, <4>4, <4>5, <1>11
      <4>7. Child(u, m, 3 - e) = x  BY <4>1, <2>1, <1>12
      <4> QED BY <4>2, <4>3, <4>5, <4>6, <4>7, <2>1
    <3> QED BY <3>1, <3>2
  <2>2. CASE m = y
    <3>1. CASE e = d
      <4> DEFINE z == Child(t, y, d)
      <4>1. Child(u, m, e) = z /\ z # NULL /\ Child(u, m, 3 - e) = n  BY <3>1, <2>2, <1>12, <1>6
      <4>2. z \in L /\ Parent(t, z) = y /\ z # x  BY <4>1, <2>0, <1>1, <1>13
      <4>3. z # n /\ z # y  BY <4>2, <1>2, <1>9, <1>1
      <4> QED BY <4>1, <4>2, <4>3, <2>2, <1>11
    <3>2. CASE e # d
      <4>1. e = 3 - d /\ 3 - e = d BY <3>2, <1>12
      <4>2. Child(u, m, e) = n /\ Child(u, m, 3 - e) = Child(t, y, d)  BY <4>1, <2>2, <1>12
      <4> QED BY <4>2, <2>2, <1>1, <1>2, <1>11
    <3> QED BY <3>1, <3>2
  <2>3. CASE m \notin {n, y}
    <3> DEFINE z == Child(t, m, e)
               w == Child(t, m, 3 - e)
    <3>1. /\ Child(u, m, e) = IF z = n THEN y ELSE z
          /\ Child(u, m, 3 - e) = IF w = n THEN y ELSE w
          /\ z # NULL
      BY <2>0, <2>3, <1>12, <1>6, <1>1, <1>9
    <3>2. z \in L /\ Parent(t, z) = m /\ z # w /\ z # y  BY <2>0, <3>1, <2>3, <1>2
    <3>3. w # y  BY <2>0, <2>3, <1>2, <1>9
    <3>4. z # x /\ z # y BY <3>2, <1>13, <2>3, <1>9
    <3> HIDE DEF z, w
    <3>5. CASE z = n BY <3>1, <3>2, <3>3, <3>5, <1>1, <1>11, <1>13
    <3>6. CASE z # n BY <3>1, <3>2, <3>3, <3>4, <3>6, <1>11
    <3> QED BY <3>5, <3>6
  <2> QED BY <2>1, <2>2, <2>3
<1>7. u.root \in L  BY <1>1, <1>10 DEF Links
<1>8. TreeType(u) /\ L \subseteq Nodes  BY DEF Links, Rotated
<1>14. Links(u, L, r2)  BY <1>3, <1>4, <1>5, <1>6, <1>7, <1>8 DEF Links
<1> QED BY <1>14

(* Only factors and colours differ.                                        *)
Recoloured(t, v) ==
  /\ TreeType(v) /\ v.root = t.root
  /\ \A m \in Nodes : /\ Parent(v, m) = Parent(t, m)
                      /\ \A e \in Side : Child(v, m, e) = Child(t, m, e)

(* A change of colours or factors leaves the links.                        *)
LEMMA RecolouredLinks ==
  ASSUME NEW t, NEW L, NEW r, Links(t, L, r), NEW v, Recoloured(t, v)
  PROVE Links(v, L, r)
BY DEF Links, Recoloured, Side

(* What everyone uses of Links.                                            *)
LEMMA LinkFacts ==
  ASSUME NEW t, NEW L, NEW r, Links(t, L, r)
  PROVE /\ TreeType(t) /\ t.root \in L \cup {NULL} /\ t.root \in Node
        /\ \A m \in L : /\ m \in Nodes /\ m \in Node /\ m # NULL /\ r[m] \in Nat
                        /\ Extra(t, m) \in Int
                        /\ Parent(t, m) \in L \cup {NULL}
                        /\ m = t.root <=> Parent(t, m) = NULL
                        /\ Parent(t, m) # NULL => /\ r[Parent(t, m)] < r[m]
                                                  /\ \E e \in Side : Child(t, Parent(t, m), e) = m
        /\ \A m \in L : \A e \in Side :
             /\ Child(t, m, e) \in L \cup {NULL} /\ Child(t, m, e) \in Node
             /\ Child(t, m, e) # NULL =>
                  /\ Child(t, m, e) \in L /\ Parent(t, Child(t, m, e)) = m
                  /\ Child(t, m, 3 - e) # Child(t, m, e)
                  /\ r[m] < r[Child(t, m, e)] /\ Child(t, m, e) # m
                  /\ t.root # Child(t, m, e)
<1>1. /\ TreeType(t) /\ t.root \in L \cup {NULL} /\ t.root \in Node
      /\ \A m \in L : m \in Nodes /\ m \in Node /\ m # NULL /\ r[m] \in Nat /\ Extra(t, m) \in Int
                      /\ Parent(t, m) \in Node
  BY TypedNodes, NodesAssumption DEF Links, Node
<1>2. \A m \in L : /\ Parent(t, m) \in L \cup {NULL}
                   /\ m = t.root <=> Parent(t, m) = NULL
                   /\ Parent(t, m) # NULL => /\ r[Parent(t, m)] < r[m]
                                             /\ \E e \in Side : Child(t, Parent(t, m), e) = m
  BY <1>1 DEF Links
<1>3. ASSUME NEW m \in L, NEW e \in Side
      PROVE /\ Child(t, m, e) \in L \cup {NULL} /\ Child(t, m, e) \in Node
            /\ Child(t, m, e) # NULL =>
                  /\ Child(t, m, e) \in L /\ Parent(t, Child(t, m, e)) = m
                  /\ Child(t, m, 3 - e) # Child(t, m, e)
                  /\ r[m] < r[Child(t, m, e)] /\ Child(t, m, e) # m
                  /\ t.root # Child(t, m, e)
  <2>1. Child(t, m, e) \in Node  BY <1>1, TypedNodes
  <2>2. Child(t, m, e) # NULL =>
                  /\ Child(t, m, e) \in L /\ Parent(t, Child(t, m, e)) = m
                  /\ Child(t, m, 3 - e) # Child(t, m, e)
    BY DEF Links
  <2>3. Child(t, m, e) # NULL =>
                  /\ r[m] < r[Child(t, m, e)] /\ Child(t, m, e) # m
                  /\ t.root # Child(t, m, e)
    BY <2>2, <1>1, <1>2
  <2> QED BY <2>1, <2>2, <2>3
<1> QED BY <1>1, <1>2, <1>3

(* Where a rotation that lifts y above n does not reach.                   *)
LEMMA RotatedElsewhere ==
  ASSUME NEW t, NEW L, NEW r, Links(t, L, r), NEW n \in L, NEW d \in Side, NEW y, NEW x, NEW u,
         y = Child(t, n, d), y # NULL, x = Child(t, y, 3 - d), Rotated(t, u, L, n, d, y, x)
  PROVE /\ y \in L /\ y # n /\ x # n /\ x # y
        /\ Parent(u, n) = y /\ Parent(u, y) = Parent(t, n)
        /\ x # NULL => x \in L /\ Parent(t, x) = y /\ Parent(u, x) = n
        /\ \A m \in L \ {n, y, x} : Parent(u, m) = Parent(t, m)
        /\ \A m \in L : Extra(u, m) = Extra(t, m)
        /\ Child(u, n, d) = x /\ Child(u, n, 3 - d) = Child(t, n, 3 - d)
        /\ Child(u, y, 3 - d) = n /\ Child(u, y, d) = Child(t, y, d)
        /\ \A m \in L \ {n, y} : \A e \in Side :
             /\ Child(t, m, e) # y
             /\ Child(t, m, e) = n => Parent(t, n) = m /\ Child(u, m, e) = y
             /\ Child(t, m, e) # n => Child(u, m, e) = Child(t, m, e)
        /\ Child(t, n, 3 - d) \notin {n, y} /\ Child(t, y, d) \notin {n, y}
        /\ x # NULL => Child(t, n, 3 - d) # x /\ Child(t, y, d) # x
        /\ u.root = IF t.root = n THEN y ELSE t.root
<1>1. 3 - d \in Side /\ 3 - d # d /\ 3 - (3 - d) = d  BY DEF Side
<1>2. /\ y \in L /\ y # n /\ Parent(t, y) = n /\ n # NULL /\ r[n] < r[y] /\ n \in Nodes /\ y \in Nodes
      /\ r[n] \in Nat /\ r[y] \in Nat
  BY LinkFacts
<1>3. x # n /\ x # y /\ x \in L \cup {NULL} /\ (x # NULL => Parent(t, x) = y /\ r[y] < r[x] /\ r[x] \in Nat)
  BY <1>1, <1>2, LinkFacts
<1>4. \A m \in L : \A e \in Side : Child(t, m, e) # NULL => Parent(t, Child(t, m, e)) = m
  BY LinkFacts
<1>5. /\ Child(t, n, 3 - d) \notin {n, y} /\ Child(t, y, d) \notin {n, y}
      /\ x # NULL => Child(t, n, 3 - d) # x /\ Child(t, y, d) # x
  BY <1>1, <1>2, <1>3, <1>4, LinkFacts
<1>6. \A m \in L \ {n, y} : \A e \in Side :
             /\ Child(t, m, e) # y
             /\ Child(t, m, e) = n => Parent(t, n) = m /\ Child(u, m, e) = y
             /\ Child(t, m, e) # n => Child(u, m, e) = Child(t, m, e)
  BY <1>2, <1>4, LinkFacts DEF Rotated
<1>7. /\ Parent(u, n) = y /\ Parent(u, y) = Parent(t, n)
      /\ x # NULL => Parent(u, x) = n
      /\ \A m \in L \ {n, y, x} : Parent(u, m) = Parent(t, m)
      /\ \A m \in L : Extra(u, m) = Extra(t, m)
  BY <1>2, <1>3, LinkFacts DEF Rotated
<1>8. /\ Child(u, n, d) = x /\ Child(u, n, 3 - d) = Child(t, n, 3 - d)
      /\ Child(u, y, 3 - d) = n /\ Child(u, y, d) = Child(t, y, d)
  BY <1>1 DEF Rotated
<1>9. u.root = IF t.root = n THEN y ELSE t.root  BY DEF Rotated
<1> QED BY <1>2, <1>3, <1>5, <1>6, <1>7, <1>8, <1>9

------------------------------------------------------------------------------
(* The order of the nodes, from left to right, which rotations and colours *)
(* leave alone.                                                            *)

(* Where the nodes stand: O[2] counts from left to right, O[1] from right   *)
(* to left, so that O[d] grows to the side d.                              *)
Numbered(O) == O \in [Side -> [Nodes -> Int]] /\ \A m \in Nodes : O[1][m] = -O[2][m]

(* D[m] are the nodes from m down; what hangs on the side e of a node       *)
(* stands there.                                                           *)
Spans(t, L, O, D) ==
  /\ D \in [Node -> SUBSET L] /\ D[NULL] = {}
  /\ \A m \in L : \A z \in L : z \in D[m] <=> (z = m \/ \E e \in Side : z \in D[Child(t, m, e)])
  /\ \A m \in L : \A e \in Side : \A z \in D[Child(t, m, e)] : O[e][m] < O[e][z]

Spread(t, L, r, O, D) == Links(t, L, r) /\ Numbered(O) /\ Spans(t, L, O, D)

(* The first node of a tree before it becomes the root.                    *)
Lone(t, L) ==
  /\ TreeType(t) /\ t.root = NULL
  /\ \E n \in Nodes : L = {n} /\ Parent(t, n) = NULL /\ \A e \in Side : Child(t, n, e) = NULL

(* The nodes L of t stand as O says.                                       *)
Laid(t, L, O) == Numbered(O) /\ (Lone(t, L) \/ \E r, D : Spread(t, L, r, O, D))

(* They stand in u as they did in t.                                       *)
Turned(t, u, L) == \A O : Laid(t, L, O) => Laid(u, L, O)

(* What everyone uses of Spread.                                           *)
LEMMA SpreadFacts ==
  ASSUME NEW t, NEW L, NEW r, NEW O, NEW D, Spread(t, L, r, O, D)
  PROVE /\ Links(t, L, r) /\ r \in [Nodes -> Nat] /\ L \subseteq Nodes /\ NULL \notin L
        /\ \A m \in L : m \in Nodes /\ m \in Node /\ r[m] \in Nat /\ \A e \in Side : O[e][m] \in Int
        /\ \A m \in L : \A d, dd \in Side : d # dd => O[dd][m] = -O[d][m]
        /\ D[NULL] = {} /\ \A m \in Node : D[m] \subseteq L
        /\ \A m \in L : m \in D[m]
        /\ \A m \in L : \A e \in Side : /\ D[Child(t, m, e)] \subseteq D[m]
                                        /\ m \notin D[Child(t, m, e)]
                                        /\ \A z \in D[Child(t, m, e)] : O[e][m] < O[e][z]
        /\ \A m \in L : \A z \in D[m] : z = m \/ \E e \in Side : z \in D[Child(t, m, e)]
<1>1. /\ Links(t, L, r) /\ r \in [Nodes -> Nat] /\ L \subseteq Nodes /\ NULL \notin L
      /\ \A m \in L : m \in Nodes /\ m \in Node /\ r[m] \in Nat
      /\ \A m \in L : \A e \in Side : Child(t, m, e) \in Node
  <2>1. Links(t, L, r)  BY DEF Spread
  <2> QED BY ZenonT(40), <2>1, LinkFacts DEF Links
<1>2. \A m \in L : \A e \in Side : O[e][m] \in Int
  BY <1>1 DEF Spread, Numbered, Side
<1>3. \A m \in L : \A d, dd \in Side : d # dd => O[dd][m] = -O[d][m]
  BY <1>1, <1>2 DEF Spread, Numbered, Side
<1>4. D[NULL] = {} /\ \A m \in Node : D[m] \subseteq L  BY DEF Spread, Spans
<1>5. /\ \A m \in L : \A z \in L : z \in D[m] <=> (z = m \/ \E e \in Side : z \in D[Child(t, m, e)])
      /\ \A m \in L : \A e \in Side : \A z \in D[Child(t, m, e)] : O[e][m] < O[e][z]
  BY DEF Spread, Spans
<1>6. \A m \in L : m \in D[m]  BY <1>5
<1>7. \A m \in L : \A e \in Side : D[Child(t, m, e)] \subseteq D[m]  BY <1>1, <1>4, <1>5
<1>8. \A m \in L : \A e \in Side : m \notin D[Child(t, m, e)]
  <2> SUFFICES ASSUME NEW m \in L, NEW e \in Side, m \in D[Child(t, m, e)] PROVE FALSE  OBVIOUS
  <2>1. O[e][m] < O[e][m]  BY <1>5
  <2>2. O[e][m] \in Int  BY <1>2
  <2> QED BY <2>1, <2>2
<1>9. \A m \in L : \A z \in D[m] : z = m \/ \E e \in Side : z \in D[Child(t, m, e)]  BY <1>1, <1>4, <1>5
<1> QED BY <1>1, <1>2, <1>3, <1>4, <1>5, <1>6, <1>7, <1>8, <1>9

(* Turns in a row,                                                         *)
LEMMA TurnedTwice ==
  ASSUME NEW t, NEW u, NEW w, NEW L, Turned(t, u, L), Turned(u, w, L)
  PROVE Turned(t, w, L)
BY DEF Turned

LEMMA TurnedNot == ASSUME NEW t, NEW L PROVE Turned(t, t, L)
BY DEF Turned

(* a change of colours or factors,                                         *)
LEMMA RecolouredTurned ==
  ASSUME NEW t, NEW L, NEW v, Recoloured(t, v)
  PROVE Turned(t, v, L)
<1> SUFFICES ASSUME NEW O, Laid(t, L, O) PROVE Laid(v, L, O)  BY DEF Turned
<1>1. Numbered(O)  BY DEF Laid
<1>2. CASE Lone(t, L)
  <2>1. Lone(v, L)  BY <1>2 DEF Lone, Recoloured
  <2> QED BY <2>1, <1>1 DEF Laid
<1>3. CASE \E r, D : Spread(t, L, r, O, D)
  <2>1. PICK r, D : Spread(t, L, r, O, D)  BY <1>3
  <2>2. Links(t, L, r) /\ Spans(t, L, O, D)  BY <2>1 DEF Spread
  <2>3. Links(v, L, r)  BY <2>2, RecolouredLinks
  <2>4. \A m \in L : \A e \in Side : Child(v, m, e) = Child(t, m, e)
    <3>1. \A m \in L : m \in Nodes  BY <2>2, LinkFacts
    <3> QED BY <3>1 DEF Recoloured
  <2>5. Spans(v, L, O, D)  BY <2>2, <2>4 DEF Spans
  <2>6. Spread(v, L, r, O, D)  BY <2>3, <2>5, <1>1 DEF Spread
  <2> QED BY <2>6, <1>1 DEF Laid
<1> QED BY <1>2, <1>3 DEF Laid

(* and a rotation.                                                         *)
LEMMA RotatedTurned ==
  ASSUME NEW t, NEW L, NEW n \in L, NEW d \in Side, NEW y, NEW x, NEW u,
         y = Child(t, n, d), y # NULL, x = Child(t, y, 3 - d), Rotated(t, u, L, n, d, y, x)
  PROVE Turned(t, u, L)
<1> SUFFICES ASSUME NEW O, Laid(t, L, O) PROVE Laid(u, L, O)  BY DEF Turned
<1>1. Numbered(O)  BY DEF Laid
<1>2. ~Lone(t, L)  BY DEF Lone
<1>3. PICK r, D : Spread(t, L, r, O, D)  BY <1>2 DEF Laid
<1> DEFINE dd == 3 - d
           c == Child(t, y, d)
           z == Child(t, n, dd)
<1>4. /\ d \in Side /\ dd \in Side /\ d # dd /\ \A e \in Side : e = d \/ e = dd
      /\ y = Child(t, n, d) /\ x = Child(t, y, dd) /\ c = Child(t, y, d) /\ z = Child(t, n, dd)
  BY DEF Side
<1>5. /\ Links(t, L, r) /\ NULL \notin L
      /\ \A m \in L : m \in Nodes /\ m \in Node /\ \A e \in Side : O[e][m] \in Int
      /\ \A m \in L : O[dd][m] = -O[d][m]
      /\ D[NULL] = {} /\ \A m \in Node : D[m] \subseteq L
      /\ \A m \in L : m \in D[m]
      /\ \A m \in L : \A e \in Side : D[Child(t, m, e)] \subseteq D[m]
      /\ \A m \in L : \A e \in Side : \A w \in D[Child(t, m, e)] : O[e][m] < O[e][w]
      /\ \A m \in L : \A w \in D[m] : w = m \/ \E e \in Side : w \in D[Child(t, m, e)]
  BY <1>3, <1>4, SpreadFacts
<1>6. /\ y \in L /\ y # n /\ x # n /\ x # y
      /\ Child(u, n, d) = x /\ Child(u, n, dd) = z
      /\ Child(u, y, dd) = n /\ Child(u, y, d) = c
      /\ \A m \in L \ {n, y} : \A e \in Side :
             /\ Child(t, m, e) # y
             /\ Child(t, m, e) = n => Child(u, m, e) = y
             /\ Child(t, m, e) # n => Child(u, m, e) = Child(t, m, e)
      /\ z \notin {n, y} /\ c \notin {n, y}
  BY <1>5, RotatedElsewhere
<1>7. /\ {x, c, z, n, y} \subseteq Node
      /\ \A m \in L : \A e \in Side : Child(t, m, e) \in Node
  <2>1. \A m \in L : \A e \in Side : Child(t, m, e) \in Node  BY <1>5, LinkFacts
  <2> QED BY <2>1, <1>4, <1>5, <1>6
<1>8. PICK r2 : Links(u, L, r2)  BY <1>5, RotatedLinks
<1> HIDE DEF dd, c, z
<1> DEFINE E == [m \in Node |-> IF m = y THEN D[n] ELSE IF m = n THEN {n} \cup D[x] \cup D[z] ELSE D[m]]
<1>9. /\ E \in [Node -> SUBSET L]
      /\ E[y] = D[n] /\ E[n] = {n} \cup D[x] \cup D[z] /\ \A m \in Node \ {n, y} : E[m] = D[m]
  BY <1>5, <1>6, <1>7
<1> HIDE DEF E
<1>10. E[NULL] = {}
  <2>1. NULL \in Node \ {n, y}  BY <1>5, <1>6 DEF Node
  <2> QED BY <2>1, <1>5, <1>9
<1>11. E[x] = D[x] /\ E[c] = D[c] /\ E[z] = D[z]  BY <1>6, <1>7, <1>9
<1>12. \A m \in L \ {n, y} : \A e \in Side : E[Child(u, m, e)] = D[Child(t, m, e)]
  <2> SUFFICES ASSUME NEW m \in L \ {n, y}, NEW e \in Side PROVE E[Child(u, m, e)] = D[Child(t, m, e)]  OBVIOUS
  <2> DEFINE k == Child(t, m, e)
  <2>1. k \in Node /\ k # y /\ (k = n => Child(u, m, e) = y) /\ (k # n => Child(u, m, e) = k)
    BY <1>6, <1>7
  <2> HIDE DEF k
  <2> QED BY <2>1, <1>9 DEF k
<1>13. ASSUME NEW m \in L, NEW w \in L PROVE w \in E[m] <=> (w = m \/ \E e \in Side : w \in E[Child(u, m, e)])
  <2>1. CASE m = n  BY <2>1, <1>4, <1>6, <1>9, <1>11
  <2>2. CASE m = y
    <3>1. w \in D[n] <=> w = n \/ w \in D[y] \/ w \in D[z]  BY <1>4, <1>5
    <3>2. w \in D[y] <=> w = y \/ w \in D[c] \/ w \in D[x]  BY <1>4, <1>5, <1>6
    <3>3. w \in E[n] <=> w = n \/ w \in D[x] \/ w \in D[z]  BY <1>9
    <3> QED BY <2>2, <3>1, <3>2, <3>3, <1>4, <1>6, <1>9, <1>11
  <2>3. CASE m \notin {n, y}
    <3>1. E[m] = D[m] /\ \A e \in Side : E[Child(u, m, e)] = D[Child(t, m, e)]  BY <2>3, <1>5, <1>9, <1>12
    <3> QED BY <3>1, <1>5
  <2> QED BY <2>1, <2>2, <2>3
<1>14. ASSUME NEW m \in L, NEW e \in Side, NEW w \in E[Child(u, m, e)] PROVE O[e][m] < O[e][w]
  <2>1. CASE m = n
    <3>1. CASE e = d
      <4>1. w \in D[x] /\ D[x] \subseteq D[y]  BY <2>1, <3>1, <1>4, <1>5, <1>6, <1>11, <1>14
      <4> QED BY <2>1, <3>1, <4>1, <1>4, <1>5
    <3>2. CASE e = dd
      <4>1. w \in D[z]  BY <2>1, <3>2, <1>6, <1>11, <1>14
      <4> QED BY <2>1, <3>2, <4>1, <1>4, <1>5
    <3> QED BY <3>1, <3>2, <1>4
  <2>2. CASE m = y
    <3>1. CASE e = d
      <4>1. w \in D[c]  BY <2>2, <3>1, <1>6, <1>11, <1>14
      <4> QED BY <2>2, <3>1, <4>1, <1>4, <1>5, <1>6
    <3>2. CASE e = dd
      <4>1. w = n \/ w \in D[x] \/ w \in D[z]  BY <2>2, <3>2, <1>6, <1>9, <1>14
      <4>2. O[dd][y] < O[dd][n]
        <5>1. O[d][n] < O[d][y]  BY <1>4, <1>5, <1>6
        <5>2. O[dd][y] = -O[d][y] /\ O[dd][n] = -O[d][n]  BY <1>5, <1>6
        <5>3. O[d][y] \in Int /\ O[d][n] \in Int  BY <1>4, <1>5, <1>6
        <5> QED BY <5>1, <5>2, <5>3
      <4>3. w \in D[x] => O[dd][y] < O[dd][w]  BY <1>4, <1>5, <1>6
      <4>4. w \in D[z] => O[dd][y] < O[dd][w]
        <5> SUFFICES ASSUME w \in D[z] PROVE O[dd][y] < O[dd][w]  OBVIOUS
        <5>1. O[dd][n] < O[dd][w] /\ w \in L  BY <1>4, <1>5, <1>7
        <5>2. O[dd][y] \in Int /\ O[dd][n] \in Int /\ O[dd][w] \in Int  BY <5>1, <1>4, <1>5, <1>6
        <5> QED BY ONLY <4>2, <5>1, <5>2
      <4> QED BY <2>2, <3>2, <4>1, <4>2, <4>3, <4>4
    <3> QED BY <3>1, <3>2, <1>4
  <2>3. CASE m \notin {n, y}
    <3>1. w \in D[Child(t, m, e)]  BY <2>3, <1>12, <1>14
    <3> QED BY <3>1, <1>5
  <2> QED BY <2>1, <2>2, <2>3
<1>15. Spans(u, L, O, E)  BY <1>9, <1>10, <1>13, <1>14 DEF Spans
<1>16. Spread(u, L, r2, O, E)  BY <1>1, <1>8, <1>15 DEF Spread
<1> QED BY <1>1, <1>16 DEF Laid

------------------------------------------------------------------------------
(* The red-black tree: what every case of the rebalancing does to the      *)
(* colours and to the black heights h.                                     *)

Heights(h) == h \in [Node -> Nat] /\ h[NULL] = 0
Blacks(t, m) == IF Extra(t, m) = Red THEN 0 ELSE 1
Even(t, h, m) == \A e \in Side : h[m] = h[Child(t, m, e)] + Blacks(t, m)

RbtGrowing(t, L, h, n) ==
  /\ Heights(h) /\ n \in L /\ is_red(t, n)
  /\ \A m \in L : Even(t, h, m)
  /\ \A m \in L : \A e \in Side :
       is_red(t, m) /\ is_red(t, Child(t, m, e)) => Child(t, m, e) = n
  /\ is_black(t, t.root) \/ t.root = n

RbtWhole(t, L, h) ==
  /\ Heights(h)
  /\ \A m \in L : Even(t, h, m)
  /\ \A m \in L : \A e \in Side : is_red(t, m) => is_black(t, Child(t, m, e))
  /\ is_black(t, t.root)

RbtLacking(t, L, h, p, s) ==
  /\ Heights(h) /\ p \in L /\ s \in L /\ Parent(t, s) = p
  /\ \A m \in L \ {p} : Even(t, h, m)
  /\ \A m \in L : \A e \in Side : is_red(t, m) => is_black(t, Child(t, m, e))
  /\ is_black(t, t.root)
  /\ h[p] = h[s] + Blacks(t, p)
  /\ \A e \in Side : Child(t, p, e) = s =>
       h[Child(t, p, 3 - e)] + 1 = h[s] /\ is_black(t, Child(t, p, 3 - e))

(* Where heights are numbers.                                              *)
LEMMA HeightFacts ==
  ASSUME NEW t, NEW L, NEW r, Links(t, L, r), NEW h, Heights(h)
  PROVE /\ \A m \in L : h[m] \in Nat
        /\ \A m \in L : \A e \in Side : h[Child(t, m, e)] \in Nat
        /\ h[NULL] = 0
BY LinkFacts DEF Heights

(* A red parent is not the root, so there is a grandparent, and it is      *)
(* black (rbt_tree_policy.h:121, 138).                                     *)
LEMMA GrandparentIs ==
  ASSUME NEW t, NEW L, NEW r, Links(t, L, r), NEW h, NEW n, RbtGrowing(t, L, h, n),
         is_red(t, Parent(t, n))
  PROVE /\ Parent(t, n) \in L /\ Parent(t, Parent(t, n)) \in L
        /\ is_black(t, Parent(t, Parent(t, n)))
        /\ Parent(t, n) # n /\ Parent(t, Parent(t, n)) \notin {n, Parent(t, n)}
<1> DEFINE p == Parent(t, n)
           g == Parent(t, p)
<1>1. n \in L /\ p # NULL  BY DEF RbtGrowing, is_red
<1>2. p \in L /\ r[p] < r[n] /\ r[p] \in Nat /\ r[n] \in Nat /\ n # t.root /\ p # n  BY <1>1, LinkFacts
<1>3. p # t.root  BY <1>2 DEF RbtGrowing, is_black
<1>4. g \in L /\ r[g] < r[p] /\ r[g] \in Nat /\ g # p /\ g # n  BY <1>2, <1>3, LinkFacts
<1>5. PICK e \in Side : Child(t, g, e) = p  BY <1>2, <1>3, LinkFacts
<1> HIDE DEF p, g
<1>6. is_black(t, g)  BY <1>2, <1>4, <1>5 DEF RbtGrowing, is_black, p
<1> QED BY <1>2, <1>4, <1>6 DEF p, g

(* case3: a red uncle.                                                     *)
LEMMA InsertRecolours ==
  ASSUME NEW t, NEW L, NEW r, Links(t, L, r), NEW h, NEW n, RbtGrowing(t, L, h, n),
         NEW p, NEW g, p = Parent(t, n), g = Parent(t, p), is_red(t, p),
         \A e \in Side : is_red(t, Child(t, g, e)),
         NEW v, Recoloured(t, v),
         \A m \in L : Extra(v, m) = IF m = g THEN Red
                                    ELSE IF m = Child(t, g, 1) \/ m = Child(t, g, 2) THEN Black
                                    ELSE Extra(t, m)
  PROVE \E h2 : RbtGrowing(v, L, h2, g)
<1> DEFINE c1 == Child(t, g, 1)
           c2 == Child(t, g, 2)
           h2 == [m \in Node |-> IF m = c1 \/ m = c2 THEN h[m] + 1 ELSE h[m]]
<1>1. /\ p \in L /\ g \in L /\ is_black(t, g) /\ p # n /\ g # n /\ g # p /\ n \in L
  BY GrandparentIs DEF RbtGrowing
<1>2. /\ c1 \in L /\ c2 \in L /\ c1 # g /\ c2 # g /\ c1 # NULL /\ c2 # NULL
      /\ Parent(t, c1) = g /\ Parent(t, c2) = g
      /\ p = c1 \/ p = c2
      /\ is_red(t, c1) /\ is_red(t, c2)
      /\ n # t.root
  BY <1>1, LinkFacts DEF is_red, Side
<1>3. Heights(h2) /\ \A m \in Node : h2[m] = IF m = c1 \/ m = c2 THEN h[m] + 1 ELSE h[m]
  BY <1>2 DEF Heights, RbtGrowing, Node
<1> HIDE DEF c1, c2, h2
<1>4. /\ \A m \in L : m \in Node /\ m # NULL /\ h[m] \in Nat /\ m \in Nodes
      /\ \A m \in L : \A e \in Side : /\ Child(t, m, e) \in Node /\ h[Child(t, m, e)] \in Nat
                                      /\ Child(v, m, e) = Child(t, m, e)
                                      /\ Child(t, m, e) # NULL => Child(t, m, e) \in L /\ Parent(t, Child(t, m, e)) = m
      /\ v.root = t.root
      /\ Heights(h)
  BY LinkFacts, HeightFacts DEF Recoloured, RbtGrowing
<1>5. \A m \in L : Extra(v, m) = IF m = g THEN 0 ELSE IF m = c1 \/ m = c2 THEN 1 ELSE Extra(t, m)
  BY DEF c1, c2, Red, Black
<1>6. ASSUME NEW m \in L PROVE Even(v, h2, m)
  <2>1. CASE m = g
    <3>1. \A e \in Side : h[g] = h[Child(t, g, e)] + 1
      BY <1>1, <1>4 DEF RbtGrowing, Even, Blacks, is_black, is_red, Red
    <3>2. \A e \in Side : Child(t, g, e) = c1 \/ Child(t, g, e) = c2  BY DEF c1, c2, Side
    <3> QED BY <2>1, <3>1, <3>2, <1>2, <1>3, <1>4, <1>5 DEF Even, Blacks, Red
  <2>2. CASE m = c1 \/ m = c2
    <3>1. \A e \in Side : h[m] = h[Child(t, m, e)]
      BY <2>2, <1>2, <1>4 DEF RbtGrowing, Even, Blacks, is_red, Red
    <3>2. \A e \in Side : Child(t, m, e) # c1 /\ Child(t, m, e) # c2  BY <2>2, <1>2, <1>4
    <3> QED BY <2>2, <3>1, <3>2, <1>2, <1>3, <1>4, <1>5 DEF Even, Blacks, Red
  <2>3. CASE m \notin {g, c1, c2}
    <3>1. \A e \in Side : Child(t, m, e) # c1 /\ Child(t, m, e) # c2  BY <2>3, <1>2, <1>4
    <3> QED BY <2>3, <3>1, <1>3, <1>4, <1>5 DEF RbtGrowing, Even, Blacks
  <2> QED BY <2>1, <2>2, <2>3
<1>7. \A m \in L : \A e \in Side :
       is_red(v, m) /\ is_red(v, Child(v, m, e)) => Child(v, m, e) = g
  <2> SUFFICES ASSUME NEW m \in L, NEW e \in Side, is_red(v, m), is_red(v, Child(v, m, e)), Child(v, m, e) # g
               PROVE FALSE
    OBVIOUS
  <2>1. m \notin {c1, c2}  BY <1>2, <1>5 DEF is_red, Red
  <2>2. \A f \in Side : Child(t, g, f) = c1 \/ Child(t, g, f) = c2  BY DEF c1, c2, Side
  <2> DEFINE z == Child(t, m, e)
  <2>0. Child(v, m, e) = z  BY <1>4
  <2>3. z \in L /\ Parent(t, z) = m /\ is_red(v, z)  BY <1>4, <2>0 DEF is_red
  <2>4. z \notin {c1, c2}  BY <2>3, <1>2, <1>5 DEF is_red, Red
  <2>5. m # g /\ z # g  BY <2>0, <2>2, <2>4
  <2>6. is_red(t, m) /\ is_red(t, z)  BY <2>1, <2>3, <2>4, <2>5, <1>5 DEF is_red
  <2>7. z = n  BY <2>6 DEF RbtGrowing
  <2> QED BY <2>1, <2>3, <2>7, <1>2
<1>8. is_red(v, g)  BY <1>1, <1>4, <1>5 DEF is_red, Red
<1>9. is_black(v, v.root) \/ v.root = g
  <2>1. t.root \in L /\ is_black(t, t.root)  BY <1>1, <1>2 DEF RbtGrowing, Links
  <2> QED BY <2>1, <1>4, <1>5 DEF is_red, is_black, Red
<1> QED BY <1>1, <1>3, <1>6, <1>7, <1>8, <1>9 DEF RbtGrowing

(* case4: the inner n is turned into an outer one.                         *)
LEMMA InsertTurns ==
  ASSUME NEW t, NEW L, NEW r, Links(t, L, r), NEW h, NEW n, RbtGrowing(t, L, h, n),
         NEW p, NEW g, p = Parent(t, n), g = Parent(t, p), is_red(t, p),
         NEW d \in Side, Child(t, g, d) = p, Child(t, p, 3 - d) = n,
         NEW u, Rotated(t, u, L, p, 3 - d, n, Child(t, n, 3 - (3 - d)))
  PROVE /\ RbtGrowing(u, L, h, p)
        /\ Parent(u, p) = n /\ is_red(u, n) /\ Child(u, n, d) = p
        /\ Parent(u, n) = g /\ Child(u, g, d) = n
        /\ Child(u, g, 3 - d) = Child(t, g, 3 - d)
<1> DEFINE x == Child(t, n, 3 - (3 - d))
           dd == 3 - d
<1>1. /\ p \in L /\ g \in L /\ is_black(t, g) /\ p # n /\ g # n /\ g # p /\ n \in L
      /\ n # NULL /\ dd \in Side /\ 3 - dd = d /\ 3 - dd # dd
  BY GrandparentIs, LinkFacts DEF RbtGrowing, Side
<1>2. Rotated(t, u, L, p, dd, n, x)  OBVIOUS
<1>a. n = Child(t, p, dd) /\ x = Child(t, n, 3 - dd)  OBVIOUS
<1> HIDE DEF x, dd
<1>3. /\ Parent(u, p) = n /\ Parent(u, n) = g
      /\ x # NULL => x \in L /\ Parent(t, x) = n /\ Parent(u, x) = p
      /\ \A m \in L : Extra(u, m) = Extra(t, m)
      /\ Child(u, p, dd) = x /\ Child(u, p, d) = Child(t, p, d)
      /\ Child(u, n, d) = p /\ Child(u, n, dd) = Child(t, n, dd)
      /\ \A m \in L \ {p, n} : \A e \in Side :
             /\ Child(t, m, e) # n
             /\ Child(t, m, e) = p => g = m /\ Child(u, m, e) = n
             /\ Child(t, m, e) # p => Child(u, m, e) = Child(t, m, e)
      /\ Child(t, p, d) \notin {n, p} /\ Child(t, n, dd) \notin {n, p} /\ x # n /\ x # p
      /\ u.root = IF t.root = p THEN n ELSE t.root
  BY <1>1, <1>2, <1>a, RotatedElsewhere
<1>4. /\ \A m \in L : m \in Node /\ m # NULL /\ h[m] \in Nat /\ m \in Nodes
      /\ \A m \in L : \A e \in Side : /\ Child(t, m, e) \in Node /\ h[Child(t, m, e)] \in Nat
                                      /\ Child(t, m, e) # NULL => Child(t, m, e) \in L /\ Parent(t, Child(t, m, e)) = m
      /\ Heights(h) /\ d \in Side
      /\ Child(t, g, dd) # p
      /\ t.root # n /\ t.root # p /\ t.root \in L
      /\ \A e \in Side : e = d \/ e = dd
  <2>1. Heights(h) /\ \A e \in Side : e = d \/ e = dd  BY DEF RbtGrowing, dd, Side
  <2>2. t.root \in L /\ t.root # n
    <3>1. p # NULL  BY <1>1, LinkFacts
    <3> QED BY <3>1, <1>1 DEF Links
  <2>3. t.root # p  BY <2>2 DEF RbtGrowing, is_black
  <2>4. Child(t, g, dd) # p  BY <1>1, LinkFacts DEF dd
  <2> QED BY <2>1, <2>2, <2>3, <2>4, LinkFacts, HeightFacts
<1>b. Child(t, g, d) = p /\ is_red(t, n) /\ is_red(t, p) /\ Extra(t, n) = 0 /\ Extra(t, p) = 0
  BY DEF is_red, Red, RbtGrowing
<1>5. Child(u, g, d) = n /\ Child(u, g, dd) = Child(t, g, dd)  BY <1>1, <1>3, <1>4, <1>b
<1>6. ASSUME NEW m \in L PROVE Even(u, h, m)
  <2>1. /\ h[p] = h[n] /\ h[p] = h[Child(t, p, d)] /\ h[n] = h[x] /\ h[n] = h[Child(t, n, dd)]
    BY <1>1, <1>a, <1>b, <1>4 DEF RbtGrowing, Even, Blacks, Red
  <2>2. CASE m = p
    <3>1. Extra(u, m) = 0  BY <2>2, <1>1, <1>3, <1>b
    <3>2. h[m] = h[Child(u, m, d)] /\ h[m] = h[Child(u, m, dd)] /\ h[m] \in Nat  BY <2>1, <2>2, <1>1, <1>3, <1>4
    <3>3. \A e \in Side : h[m] = h[Child(u, m, e)]  BY <3>2, <1>4
    <3> QED BY <3>1, <3>2, <3>3 DEF Even, Blacks, Red
  <2>3. CASE m = n
    <3>1. Extra(u, m) = 0  BY <2>3, <1>1, <1>3, <1>b
    <3>2. h[m] = h[Child(u, m, d)] /\ h[m] = h[Child(u, m, dd)] /\ h[m] \in Nat  BY <2>1, <2>3, <1>1, <1>3, <1>4
    <3>3. \A e \in Side : h[m] = h[Child(u, m, e)]  BY <3>2, <1>4
    <3> QED BY <3>1, <3>2, <3>3 DEF Even, Blacks, Red
  <2>4. CASE m \notin {p, n}
    <3>1. \A e \in Side : h[Child(u, m, e)] = h[Child(t, m, e)]  BY <2>1, <2>4, <1>3
    <3>2. Even(t, h, m)  BY DEF RbtGrowing
    <3> QED BY <3>1, <3>2, <1>3 DEF Even, Blacks
  <2> QED BY <2>2, <2>3, <2>4
<1>7. ASSUME NEW m \in L, NEW e \in Side, is_red(u, m), is_red(u, Child(u, m, e)), Child(u, m, e) # p
      PROVE FALSE
  <2> DEFINE z == Child(u, m, e)
  <2>0. \A k \in L : \A f \in Side : is_red(t, k) /\ is_red(t, Child(t, k, f)) => Child(t, k, f) = n
    BY DEF RbtGrowing
  <2>1. is_red(t, m)  BY <1>3, <1>7 DEF is_red
  <2>2. z \in L \cup {NULL}
    <3>1. m = p => z \in {x, Child(t, p, d)}  BY <1>3, <1>4
    <3>2. m = n => z \in {p, Child(t, n, dd)}  BY <1>3, <1>4
    <3>3. m \notin {n, p} => z \in {n, Child(t, m, e)}  BY <1>3, <1>4
    <3> QED BY <3>1, <3>2, <3>3, <1>1, <1>3, <1>4
  <2>3. z \in L /\ is_red(t, z)  BY <2>2, <1>3, <1>7 DEF is_red
  <2>4. CASE m = p
    <3>1. CASE e = d
      <4>1. z = Child(t, p, d)  BY <2>4, <3>1, <1>3
      <4> QED BY <4>1, <2>0, <2>1, <2>3, <2>4, <1>3, <1>4
    <3>2. CASE e = dd
      <4>1. z = x  BY <2>4, <3>2, <1>3
      <4> QED BY <4>1, <2>0, <2>3, <1>1, <1>3, <1>a, <1>b
    <3> QED BY <3>1, <3>2, <1>4
  <2>5. CASE m = n
    <3>1. e = dd  BY <2>5, <1>3, <1>4, <1>7
    <3>2. z = Child(t, n, dd)  BY <2>5, <3>1, <1>3
    <3> QED BY <3>2, <2>0, <2>3, <1>1, <1>3, <1>b
  <2>6. CASE m \notin {p, n}
    <3>1. CASE Child(t, m, e) = p
      <4>1. m = g  BY <2>6, <3>1, <1>3
      <4> QED BY <4>1, <2>1, <1>1 DEF is_black
    <3>2. CASE Child(t, m, e) # p
      <4>1. z = Child(t, m, e) /\ z # n  BY <2>6, <3>2, <1>3
      <4> QED BY <4>1, <2>0, <2>1, <2>3
    <3> QED BY <3>1, <3>2
  <2> QED BY <2>4, <2>5, <2>6
<1>8. is_red(u, n) /\ is_red(u, p)  BY <1>1, <1>3, <1>4, <1>b DEF is_red, Red
<1>9. is_black(u, u.root)
  <2>1. u.root = t.root /\ is_black(t, t.root)  BY <1>3, <1>4 DEF RbtGrowing
  <2> QED BY <2>1, <1>3, <1>4 DEF is_black, is_red
<1>10. RbtGrowing(u, L, h, p)  BY <1>1, <1>4, <1>6, <1>7, <1>8, <1>9 DEF RbtGrowing
<1> QED BY <1>10, <1>3, <1>5, <1>8 DEF dd

(* case5: the parent of an outer n is lifted above the grandparent.        *)
LEMMA InsertLifts ==
  ASSUME NEW t, NEW L, NEW r, Links(t, L, r), NEW h, NEW n, RbtGrowing(t, L, h, n),
         NEW p, NEW g, p = Parent(t, n), g = Parent(t, p), is_red(t, p),
         NEW d \in Side, Child(t, g, d) = p, Child(t, p, d) = n, is_black(t, Child(t, g, 3 - d)),
         NEW v, Recoloured(t, v),
         \A m \in L : Extra(v, m) = IF m = p THEN Black ELSE IF m = g THEN Red ELSE Extra(t, m),
         NEW u, Rotated(v, u, L, g, d, p, Child(v, p, 3 - d))
  PROVE \E h2 : RbtWhole(u, L, h2)
<1> DEFINE x == Child(v, p, 3 - d)
           dd == 3 - d
           o == Child(t, g, dd)
           h2 == [m \in Node |-> IF m = g THEN h[p] ELSE IF m = p THEN h[g] ELSE h[m]]
<1>1. /\ p \in L /\ g \in L /\ is_black(t, g) /\ p # n /\ g # n /\ g # p /\ n \in L
      /\ p # NULL /\ dd \in Side /\ 3 - dd = d /\ 3 - dd # dd /\ d # dd
  BY GrandparentIs, LinkFacts DEF RbtGrowing, Side
<1>2. Rotated(v, u, L, g, d, p, x) /\ Links(v, L, r)  BY RecolouredLinks
<1>a. /\ v.root = t.root
      /\ \A m \in L : Parent(v, m) = Parent(t, m) /\ \A e \in Side : Child(v, m, e) = Child(t, m, e)
      /\ \A m \in L : Extra(v, m) = IF m = p THEN 1 ELSE IF m = g THEN 0 ELSE Extra(t, m)
  BY LinkFacts DEF Recoloured, Red, Black
<1>b. /\ p = Child(v, g, d) /\ x = Child(v, p, 3 - d) /\ x = Child(t, p, dd) /\ o = Child(v, g, dd)
      /\ g = Parent(v, p) /\ n = Child(v, p, d) /\ Parent(v, g) = Parent(t, g)
      /\ is_black(t, o) /\ is_red(t, n) /\ is_red(t, p) /\ Extra(t, n) = 0 /\ Extra(t, p) = 0
      /\ Child(t, p, d) = n /\ Child(t, g, d) = p
  BY <1>1, <1>a DEF is_red, Red, RbtGrowing
<1> HIDE DEF x, dd, o, h2
<1>3. /\ x # g /\ x # p /\ o \notin {g, p}
      /\ \A m \in L : Extra(u, m) = Extra(v, m)
      /\ Child(u, g, d) = x /\ Child(u, g, dd) = o
      /\ Child(u, p, dd) = g /\ Child(u, p, d) = n
      /\ \A m \in L \ {g, p} : \A e \in Side :
           /\ Child(v, m, e) # p
           /\ Child(v, m, e) = g => Child(u, m, e) = p
           /\ Child(v, m, e) # g => Child(u, m, e) = Child(v, m, e)
      /\ u.root = IF t.root = g THEN p ELSE t.root
  <2>1. Child(v, g, d) = p /\ p # NULL /\ Child(v, g, 3 - d) = o /\ Child(v, p, d) = n /\ 3 - d = dd
    BY <1>1, <1>b DEF dd
  <2> QED BY <2>1, <1>1, <1>2, <1>a, <1>b, RotatedElsewhere
<1>4. /\ \A m \in L : m \in Node /\ m # NULL /\ h[m] \in Nat /\ m \in Nodes
      /\ \A m \in L : \A e \in Side :
           /\ Child(t, m, e) \in L \cup {NULL} /\ h[Child(t, m, e)] \in Nat
           /\ Child(t, m, e) # NULL => Parent(t, Child(t, m, e)) = m
      /\ x # n /\ t.root # n /\ t.root # p /\ t.root \in L
      /\ \A e \in Side : e = d \/ e = dd
      /\ h[NULL] = 0 /\ h \in [Node -> Nat]
  <2>1. Heights(h) /\ \A e \in Side : e = d \/ e = dd  BY DEF RbtGrowing, dd, Side
  <2>2. t.root \in L /\ t.root # n
    <3>1. p # NULL  BY <1>1, LinkFacts
    <3> QED BY <3>1, <1>1 DEF Links
  <2>3. t.root # p  BY <2>2, <1>1, LinkFacts
  <2>4. x # n
    <3>0. n # NULL  BY <1>1, LinkFacts
    <3>1. Child(t, p, d) = n /\ n # NULL /\ Child(t, p, 3 - d) = x /\ p \in L
      BY <3>0, <1>1, <1>b DEF dd
    <3>2. Child(t, p, d) # NULL => Child(t, p, 3 - d) # Child(t, p, d)  BY <3>1, LinkFacts
    <3> QED BY <3>1, <3>2
  <2> QED BY <2>1, <2>2, <2>3, <2>4, LinkFacts, HeightFacts DEF Heights
<1>5. /\ h2 \in [Node -> Nat] /\ h2[NULL] = 0
      /\ h2[p] = h[g] /\ h2[g] = h[p]
      /\ \A m \in L \cup {NULL} : m \notin {p, g} => h2[m] = h[m]
  BY <1>1, <1>4 DEF h2, Node
<1>6. /\ h[p] = h[n] /\ h[p] = h[x] /\ h[g] = h[p] + 1 /\ h[o] = h[p]
  <2>1. Even(t, h, p) /\ Even(t, h, g)  BY <1>1 DEF RbtGrowing
  <2>2. Blacks(t, p) = 0 /\ Blacks(t, g) = 1  BY <1>1, <1>4, <1>b DEF Blacks, is_black, is_red, Red
  <2>3. /\ h[p] = h[Child(t, p, d)] + Blacks(t, p) /\ h[p] = h[Child(t, p, dd)] + Blacks(t, p)
        /\ h[g] = h[Child(t, g, d)] + Blacks(t, g) /\ h[g] = h[Child(t, g, dd)] + Blacks(t, g)
    BY <2>1, <1>1 DEF Even
  <2>4. h[p] = h[n] + 0 /\ h[p] = h[x] + 0 /\ h[g] = h[p] + 1 /\ h[g] = h[o] + 1
    BY <2>2, <2>3, <1>b DEF o
  <2>5. h[p] \in Nat /\ h[n] \in Nat /\ h[x] \in Nat /\ h[g] \in Nat /\ h[o] \in Nat
    BY <1>1, <1>4, <1>b DEF o
  <2> QED BY <2>4, <2>5
<1>7. ASSUME NEW m \in L PROVE Even(u, h2, m)
  <2>2. CASE m = g
    <3>1. Extra(u, m) = 0  BY <2>2, <1>1, <1>3, <1>a
    <3>2. h2[m] = h2[x] /\ h2[m] = h2[o] /\ h2[m] \in Nat
      BY <2>2, <1>1, <1>3, <1>4, <1>5, <1>6, <1>b DEF o
    <3>3. \A e \in Side : h2[m] = h2[Child(u, m, e)]  BY <2>2, <3>2, <1>3, <1>4
    <3> QED BY <3>1, <3>2, <3>3 DEF Even, Blacks, Red
  <2>3. CASE m = p
    <3>1. Extra(u, m) = 1  BY <2>3, <1>1, <1>3, <1>a
    <3>2. h2[m] = h2[g] + 1 /\ h2[m] = h2[n] + 1
      BY <2>3, <1>1, <1>3, <1>4, <1>5, <1>6
    <3>3. \A e \in Side : h2[m] = h2[Child(u, m, e)] + 1  BY <2>3, <3>2, <1>3, <1>4
    <3> QED BY <3>1, <3>3 DEF Even, Blacks, Red
  <2>4. CASE m \notin {g, p}
    <3>1. \A e \in Side : h2[Child(u, m, e)] = h[Child(t, m, e)]  BY <2>4, <1>3, <1>4, <1>5, <1>a
    <3>2. Even(t, h, m) /\ Extra(u, m) = Extra(t, m) /\ h2[m] = h[m]  BY <2>4, <1>3, <1>5, <1>a DEF RbtGrowing
    <3> QED BY <3>1, <3>2 DEF Even, Blacks
  <2> QED BY <2>2, <2>3, <2>4
<1>8. ASSUME NEW m \in L, NEW e \in Side, is_red(u, m), is_red(u, Child(u, m, e))
      PROVE FALSE
  <2> DEFINE z == Child(u, m, e)
  <2>0. \A k \in L : \A f \in Side : is_red(t, k) /\ is_red(t, Child(t, k, f)) => Child(t, k, f) = n
    BY DEF RbtGrowing
  <2>1. m # p  BY <1>8, <1>3, <1>a DEF is_red, Red
  <2>2. CASE m = g
    <3>1. z = x \/ z = o  BY <2>2, <1>3, <1>4
    <3>2. z \in L /\ z \notin {p, g}  BY ZenonT(40), <3>1, <1>1, <1>3, <1>4, <1>8, <1>b DEF is_red, o
    <3>3. is_red(t, z)  BY <3>2, <1>3, <1>8, <1>a DEF is_red
    <3>4. z = x  BY <3>1, <3>3, <1>b DEF is_black
    <3> QED BY ZenonT(40), <2>0, <3>3, <3>4, <1>1, <1>4, <1>b
  <2>3. CASE m # g
    <3>1. z # p  BY <1>1, <1>3, <1>8, <1>a DEF is_red, Red
    <3>2. z = Child(t, m, e) /\ z # g  BY <2>1, <2>3, <3>1, <1>3, <1>a
    <3>3. z \in L  BY <3>2, <1>4, <1>8 DEF is_red
    <3>4. is_red(t, z) /\ is_red(t, m)  BY <2>1, <2>3, <3>1, <3>2, <3>3, <1>3, <1>8, <1>a DEF is_red
    <3>5. z = n  BY <2>0, <3>2, <3>4
    <3>6. z # NULL /\ Parent(t, z) = m  BY <3>2, <3>3, <1>4
    <3> QED BY <2>1, <3>5, <3>6
  <2> QED BY <2>2, <2>3
<1>9. is_black(u, u.root)
  <2>1. is_black(t, t.root)  BY <1>4 DEF RbtGrowing
  <2> QED BY <2>1, <1>1, <1>3, <1>4, <1>a DEF is_black, is_red, Red
<1>10. \A m \in L : \A e \in Side : is_red(u, m) => is_black(u, Child(u, m, e))
  BY <1>8 DEF is_black
<1>11. RbtWhole(u, L, h2)  BY <1>5, <1>7, <1>9, <1>10 DEF RbtWhole, Heights
<1> QED BY <1>11

(* case2: a red sibling s is lifted above p, and p gets a black one.       *)
LEMMA DeleteTurnsSibling ==
  ASSUME NEW t, NEW L, NEW r, Links(t, L, r), NEW h, NEW p, NEW s, RbtLacking(t, L, h, p, s),
         is_red(t, s), NEW d \in Side, Child(t, p, d) = s,
         NEW v, Recoloured(t, v),
         \A m \in L : Extra(v, m) = IF m = p THEN Red ELSE IF m = s THEN Black ELSE Extra(t, m),
         NEW u, Rotated(v, u, L, p, d, s, Child(v, s, 3 - d))
  PROVE \E h2 : /\ RbtLacking(u, L, h2, p, Child(u, p, d)) /\ is_black(u, Child(u, p, d))
<1> DEFINE x == Child(v, s, 3 - d)
           dd == 3 - d
           o == Child(t, p, dd)
           q == Child(t, s, d)
           h2 == [m \in Node |-> IF m = p THEN h[s] ELSE IF m = s THEN h[p] ELSE h[m]]
<1>0. Links(v, L, r)  BY RecolouredLinks
<1>1. /\ p \in L /\ s \in L /\ s # p /\ s # NULL /\ p # NULL /\ Parent(t, s) = p /\ s # t.root
      /\ dd \in Side /\ 3 - dd = d /\ d # dd /\ d \in Side
      /\ \A e \in Side : e = d \/ e = dd
      /\ t.root \in L
  <2>1. p \in L /\ s \in L  BY DEF RbtLacking
  <2>2. dd \in Side /\ 3 - dd = d /\ d # dd /\ \A e \in Side : e = d \/ e = dd  BY DEF Side
  <2>3. t.root \in L  BY <2>1 DEF Links
  <2> QED BY <2>1, <2>2, <2>3, LinkFacts
<1>2. Rotated(v, u, L, p, d, s, x)  OBVIOUS
<1>a. /\ v.root = t.root
      /\ \A m \in L : Parent(v, m) = Parent(t, m) /\ \A e \in Side : Child(v, m, e) = Child(t, m, e)
      /\ \A m \in L : Extra(v, m) = IF m = p THEN 0 ELSE IF m = s THEN 1 ELSE Extra(t, m)
  BY LinkFacts DEF Recoloured, Red, Black
<1>b. /\ s = Child(v, p, d) /\ x = Child(v, s, 3 - d) /\ x = Child(t, s, dd)
      /\ Child(v, p, 3 - d) = o /\ Child(v, s, d) = q
      /\ Child(t, p, d) = s /\ Child(t, p, dd) = o /\ Child(t, s, d) = q /\ 3 - d = dd
      /\ Extra(t, s) = 0
  BY <1>1, <1>a DEF is_red, Red
<1> HIDE DEF x, dd, o, q, h2
<1>3. /\ x # p /\ x # s /\ o \notin {p, s} /\ q \notin {p, s}
      /\ x # NULL => Parent(u, x) = p /\ x # o
      /\ \A m \in L : Extra(u, m) = Extra(v, m)
      /\ Child(u, p, d) = x /\ Child(u, p, dd) = o
      /\ Child(u, s, dd) = p /\ Child(u, s, d) = q
      /\ \A m \in L \ {p, s} : \A e \in Side :
           /\ Child(v, m, e) # s
           /\ Child(v, m, e) = p => Child(u, m, e) = s
           /\ Child(v, m, e) # p => Child(u, m, e) = Child(v, m, e)
      /\ u.root = IF t.root = p THEN s ELSE t.root
  BY <1>0, <1>1, <1>2, <1>a, <1>b, RotatedElsewhere
<1>4. /\ \A m \in L : m \in Node /\ m # NULL /\ h[m] \in Nat /\ m \in Nodes
      /\ \A m \in L : \A e \in Side :
           /\ Child(t, m, e) \in L \cup {NULL} /\ h[Child(t, m, e)] \in Nat
           /\ Child(t, m, e) # NULL => Parent(t, Child(t, m, e)) = m
      /\ h[NULL] = 0 /\ h \in [Node -> Nat]
  <2>1. Heights(h)  BY DEF RbtLacking
  <2> QED BY <2>1, LinkFacts, HeightFacts DEF Heights
<1>5. /\ x \in L \cup {NULL} /\ o \in L \cup {NULL} /\ q \in L \cup {NULL}
      /\ h[x] \in Nat /\ h[o] \in Nat /\ h[q] \in Nat /\ h[p] \in Nat /\ h[s] \in Nat
  BY <1>1, <1>4, <1>b
<1>6. /\ Extra(t, p) # 0 /\ is_black(t, x) /\ is_black(t, q) /\ is_black(t, o)
      /\ h[p] = h[s] + 1 /\ h[s] = h[x] /\ h[s] = h[q] /\ h[o] + 1 = h[s]
  <2>1. \A m \in L : \A e \in Side : is_red(t, m) => is_black(t, Child(t, m, e))  BY DEF RbtLacking
  <2>2. Extra(t, p) # 0  BY <2>1, <1>1, <1>b DEF is_red, is_black, Red
  <2>3. is_black(t, x) /\ is_black(t, q)  BY <2>1, <1>1, <1>b
  <2>4. is_black(t, o) /\ h[o] + 1 = h[s]  BY <1>1, <1>b DEF RbtLacking
  <2>5. h[p] = h[s] + Blacks(t, p) /\ Even(t, h, s)  BY <1>1 DEF RbtLacking
  <2>6. Blacks(t, p) = 1 /\ Blacks(t, s) = 0  BY <2>2, <1>b DEF Blacks, Red
  <2>7. h[s] = h[x] + 0 /\ h[s] = h[q] + 0  BY <2>5, <2>6, <1>1, <1>b DEF Even
  <2> QED BY <2>2, <2>3, <2>4, <2>5, <2>6, <2>7, <1>5
<1>7. x # NULL /\ x \in L
  <2>1. h[x] # 0  BY <1>5, <1>6
  <2> QED BY <2>1, <1>4, <1>5
<1>8. /\ h2 \in [Node -> Nat] /\ h2[NULL] = 0
      /\ h2[p] = h[s] /\ h2[s] = h[p]
      /\ \A m \in L \cup {NULL} : m \notin {p, s} => h2[m] = h[m]
  BY <1>1, <1>4 DEF h2, Node
<1>9. ASSUME NEW m \in L \ {p} PROVE Even(u, h2, m)
  <2>1. CASE m = s
    <3>1. Extra(u, m) = 1  BY <2>1, <1>1, <1>3, <1>a
    <3>2. h2[m] = h2[p] + 1 /\ h2[m] = h2[q] + 1  BY <2>1, <1>1, <1>3, <1>5, <1>6, <1>8
    <3>3. \A e \in Side : h2[m] = h2[Child(u, m, e)] + 1  BY <2>1, <3>2, <1>1, <1>3
    <3> QED BY <3>1, <3>3 DEF Even, Blacks, Red
  <2>2. CASE m # s
    <3>1. \A e \in Side : h2[Child(u, m, e)] = h[Child(t, m, e)]  BY <2>2, <1>3, <1>4, <1>8, <1>a
    <3>2. Even(t, h, m) /\ Extra(u, m) = Extra(t, m) /\ h2[m] = h[m]  BY <2>2, <1>3, <1>8, <1>a DEF RbtLacking
    <3> QED BY <3>1, <3>2 DEF Even, Blacks
  <2> QED BY <2>1, <2>2
<1>10. \A m \in L : is_red(u, m) => m = p \/ (m # s /\ is_red(t, m))
  BY <1>3, <1>a DEF is_red, Red
<1>11. \A m \in (L \cup {NULL}) \ {p, s} : is_black(t, m) => is_black(u, m)
  BY <1>3, <1>a DEF is_red, is_black
<1>12. is_black(u, s)  BY <1>1, <1>3, <1>a DEF is_black, is_red, Red
<1>13. ASSUME NEW m \in L, NEW e \in Side, is_red(u, m) PROVE is_black(u, Child(u, m, e))
  <2>1. CASE m = p  BY <2>1, <1>1, <1>3, <1>5, <1>6, <1>11
  <2>2. CASE m # p
    <3>1. m # s /\ is_red(t, m)  BY <2>2, <1>10, <1>13
    <3>2. is_black(t, Child(t, m, e))  BY <3>1 DEF RbtLacking
    <3>3. Child(t, m, e) \in L \cup {NULL} /\ Child(t, m, e) # s  BY <1>3, <1>4, <1>a, <2>2, <3>1
    <3>4. CASE Child(t, m, e) = p  BY <3>1, <3>4, <2>2, <1>3, <1>12, <1>a
    <3>5. CASE Child(t, m, e) # p  BY <3>1, <3>2, <3>3, <3>5, <2>2, <1>3, <1>11, <1>a
    <3> QED BY <3>4, <3>5
  <2> QED BY <2>1, <2>2
<1>14. is_black(u, u.root)
  <2>1. is_black(t, t.root)  BY DEF RbtLacking
  <2> QED BY <2>1, <1>1, <1>3, <1>11, <1>12
<1>15. is_black(u, x) /\ is_black(u, o)  BY <1>3, <1>5, <1>6, <1>11
<1>16. h2[p] = h2[x] + Blacks(u, p)
  <2>1. Blacks(u, p) = 0  BY <1>1, <1>3, <1>a DEF Blacks, Red
  <2>2. h2[x] = h[s] /\ h2[p] = h[s] /\ h[s] \in Nat  BY <1>3, <1>5, <1>6, <1>8
  <2> QED BY <2>1, <2>2
<1>17. ASSUME NEW e \in Side, Child(u, p, e) = x
       PROVE h2[Child(u, p, 3 - e)] + 1 = h2[x] /\ is_black(u, Child(u, p, 3 - e))
  <2>1. e = d  BY <1>1, <1>3, <1>7, <1>17
  <2>2. Child(u, p, 3 - e) = o  BY <2>1, <1>3, <1>b
  <2> QED BY <2>2, <1>3, <1>5, <1>6, <1>8, <1>15
<1>18. RbtLacking(u, L, h2, p, x)
  BY <1>1, <1>3, <1>7, <1>8, <1>9, <1>13, <1>14, <1>16, <1>17 DEF RbtLacking, Heights
<1> QED BY <1>18, <1>15, <1>3

(* case3 and case1: no red nephew, the sibling becomes red.                *)
LEMMA DeleteSinks ==
  ASSUME NEW t, NEW L, NEW r, Links(t, L, r), NEW h, NEW p, NEW s, RbtLacking(t, L, h, p, s),
         is_black(t, s), \A e \in Side : is_black(t, Child(t, s, e)),
         NEW v, Recoloured(t, v),
         \A m \in L : Extra(v, m) = IF m = p THEN Black ELSE IF m = s THEN Red ELSE Extra(t, m)
  PROVE \E h2 :
          /\ is_red(t, p) \/ Parent(t, p) = NULL => RbtWhole(v, L, h2)
          /\ \A e \in Side : is_black(t, p) /\ Parent(t, p) # NULL /\ Child(t, Parent(t, p), e) = p
               => RbtLacking(v, L, h2, Parent(t, p), Child(t, Parent(t, p), 3 - e))
<1> DEFINE g == Parent(t, p)
           h2 == [m \in Node |-> IF m = p THEN h[s] ELSE IF m = s THEN h[s] - 1 ELSE h[m]]
<1>1. /\ p \in L /\ s \in L /\ s # p /\ s # NULL /\ p # NULL /\ Parent(t, s) = p /\ s # t.root
      /\ t.root \in L
      /\ \A m \in L : m \in Node /\ m # NULL /\ h[m] \in Nat /\ m \in Nodes
      /\ \A m \in L : \A e \in Side :
           /\ Child(t, m, e) \in L \cup {NULL} /\ h[Child(t, m, e)] \in Nat
           /\ Child(t, m, e) # NULL => Parent(t, Child(t, m, e)) = m
      /\ h[NULL] = 0 /\ h \in [Node -> Nat]
  <2>1. p \in L /\ s \in L /\ Heights(h) /\ Parent(t, s) = p  BY DEF RbtLacking
  <2>2. t.root \in L  BY <2>1 DEF Links
  <2> QED BY <2>1, <2>2, LinkFacts, HeightFacts DEF Heights
<1>2. /\ v.root = t.root
      /\ \A m \in L : Parent(v, m) = Parent(t, m) /\ \A e \in Side : Child(v, m, e) = Child(t, m, e)
      /\ \A m \in L : Extra(v, m) = IF m = p THEN 1 ELSE IF m = s THEN 0 ELSE Extra(t, m)
  BY LinkFacts DEF Recoloured, Red, Black
<1>3. PICK d \in Side : Child(t, p, d) = s
  BY <1>1, LinkFacts
<1> DEFINE dd == 3 - d
           o == Child(t, p, dd)
<1>4. dd \in Side /\ 3 - dd = d /\ \A e \in Side : e = d \/ e = dd  BY DEF Side
<1>5. o \in L \cup {NULL} /\ o # s /\ o # p  BY <1>1, <1>3, <1>4, LinkFacts
<1>6. h[o] + 1 = h[s] /\ is_black(t, o) /\ h[p] = h[s] + Blacks(t, p)  BY <1>3 DEF RbtLacking
<1> HIDE DEF dd, o, h2, g
<1>7. /\ h2[NULL] = 0 /\ h2[p] = h[s] /\ h2[s] = h[o] /\ h2 \in [Node -> Nat]
      /\ \A m \in L \cup {NULL} : m \notin {p, s} => h2[m] = h[m]
  <2>1. h[s] - 1 \in Nat /\ h[s] - 1 = h[o]  BY <1>1, <1>4, <1>6 DEF o
  <2> QED BY <2>1, <1>1, <1>4, <1>6 DEF h2, Node
<1>8. Even(v, h2, p)
  <2>1. Extra(v, p) = 1  BY <1>1, <1>2
  <2>2. h2[o] + 1 = h2[p] /\ h2[s] + 1 = h2[p]  BY <1>1, <1>5, <1>6, <1>7
  <2>3. \A e \in Side : h2[p] = h2[Child(v, p, e)] + 1  BY <2>2, <1>1, <1>2, <1>3, <1>4 DEF o
  <2> QED BY <2>1, <2>3 DEF Even, Blacks, Red
<1>9. Even(v, h2, s)
  <2>1. Extra(v, s) = 0  BY <1>1, <1>2
  <2>2. \A e \in Side : Child(t, s, e) \in L \cup {NULL} /\ Child(t, s, e) \notin {p, s}
    BY <1>1, LinkFacts
  <2>3. \A e \in Side : h2[Child(v, s, e)] = h[Child(t, s, e)]  BY <2>2, <1>1, <1>2, <1>7
  <2>4. Even(t, h, s) /\ Blacks(t, s) = 1  BY <1>1 DEF RbtLacking, Blacks, is_black, is_red
  <2>5. \A e \in Side : h[s] = h[Child(t, s, e)] + 1  BY <2>4 DEF Even
  <2>6. \A e \in Side : h[Child(t, s, e)] \in Nat /\ h[o] \in Nat /\ h[s] \in Nat  BY <1>1, <1>4 DEF o
  <2>7. \A e \in Side : h[o] = h[Child(t, s, e)]  BY <2>5, <2>6, <1>6
  <2>8. \A e \in Side : h2[s] = h2[Child(v, s, e)] /\ h2[s] \in Nat  BY <2>3, <2>6, <2>7, <1>7
  <2> QED BY <2>1, <2>8 DEF Even, Blacks, Red
<1>10. ASSUME NEW m \in L, m \notin {p, s}, m # g \/ is_red(t, p) PROVE Even(v, h2, m)
  <2>1. Even(t, h, m) /\ Extra(v, m) = Extra(t, m) /\ h2[m] = h[m]  BY <1>2, <1>7, <1>10 DEF RbtLacking
  <2>2. \A e \in Side : h2[Child(t, m, e)] = h[Child(t, m, e)]
    <3>1. ASSUME NEW e \in Side PROVE h2[Child(t, m, e)] = h[Child(t, m, e)]
      <4>1. Child(t, m, e) \in L \cup {NULL} /\ Child(t, m, e) # s  BY <1>1, <1>10
      <4>2. CASE Child(t, m, e) = p
        <5>1. is_red(t, p)  BY <4>2, <1>1, <1>10 DEF g
        <5>2. h[p] = h[s]  BY <5>1, <1>1, <1>6 DEF Blacks, is_red
        <5> QED BY <5>2, <4>2, <1>7
      <4> QED BY <4>1, <4>2, <1>7
    <3> QED BY <3>1
  <2> QED BY <2>1, <2>2, <1>2 DEF Even, Blacks
<1>11. ASSUME NEW m \in L, NEW e \in Side, is_red(v, m) PROVE is_black(v, Child(v, m, e))
  <2>1. m # p  BY <1>2, <1>11 DEF is_red, Red
  <2>2. Child(v, m, e) = Child(t, m, e) /\ Child(t, m, e) \in L \cup {NULL} /\ Child(t, m, e) # s
    BY <2>1, <1>1, <1>2
  <2>3. m = s \/ is_red(t, m)  BY <1>2, <1>11, <2>1 DEF is_red
  <2>4. is_black(t, Child(t, m, e))  BY <2>3 DEF RbtLacking
  <2> QED BY <2>2, <2>4, <1>2 DEF is_black, is_red, Red
<1>12. is_black(v, v.root)
  <2>1. is_black(t, t.root)  BY DEF RbtLacking
  <2> QED BY <2>1, <1>1, <1>2 DEF is_black, is_red, Red
<1>13. is_red(t, p) \/ g = NULL => RbtWhole(v, L, h2)
  <2> SUFFICES ASSUME is_red(t, p) \/ g = NULL PROVE RbtWhole(v, L, h2)
    OBVIOUS
  <2>1. \A m \in L : Even(v, h2, m)  BY <1>1, <1>8, <1>9, <1>10
  <2> QED BY <2>1, <1>7, <1>11, <1>12 DEF RbtWhole, Heights
<1>14. ASSUME NEW e \in Side, is_black(t, p), g # NULL, Child(t, g, e) = p
       PROVE RbtLacking(v, L, h2, g, Child(t, g, 3 - e))
  <2> DEFINE f == 3 - e
             b == Child(t, g, f)
  <2>1. g \in L /\ g # p /\ f \in Side /\ 3 - f = e /\ e # f /\ \A k \in Side : k = e \/ k = f
    BY <1>1, <1>14, LinkFacts DEF g, Side
  <2>2. b \in L \cup {NULL} /\ b # p  BY <2>1, <1>1, <1>14, LinkFacts
  <2>0. g # s  BY <1>1, LinkFacts DEF g
  <2>3. Even(t, h, g)  BY <2>1 DEF RbtLacking
  <2>4. h[g] = h[p] + Blacks(t, g) /\ h[g] = h[b] + Blacks(t, g)  BY <2>1, <2>3, <1>14 DEF Even
  <2>5. Blacks(t, p) = 1 /\ Blacks(t, g) \in Int  BY <1>14, <1>1 DEF Blacks, is_black, is_red
  <2>6. h[p] \in Nat /\ h[b] \in Nat /\ h[g] \in Nat /\ h[s] \in Nat  BY <1>1, <2>1
  <2>7. h[b] = h[p] /\ h[b] = h[s] + 1  BY <2>4, <2>5, <2>6, <1>6
  <2>a. h[b] # 0  BY <2>6, <2>7
  <2>8. b # NULL /\ b \in L  BY <2>2, <2>a, <1>1
  <2> HIDE DEF f
  <2>9. Parent(t, b) = g /\ b # s  BY <2>0, <2>1, <2>8, <1>1
  <2> HIDE DEF b
  <2>10. Parent(v, b) = g  BY <2>8, <2>9, <1>2
  <2>11. \A m \in L \ {g} : Even(v, h2, m)  BY <1>8, <1>9, <1>10
  <2>12. Blacks(v, g) = Blacks(t, g) /\ h2[g] = h[g] /\ h2[b] = h[b]
    BY <2>0, <2>1, <2>2, <2>8, <2>9, <1>2, <1>7 DEF Blacks
  <2>13. ASSUME NEW k \in Side, Child(v, g, k) = b
         PROVE h2[Child(v, g, 3 - k)] + 1 = h2[b] /\ is_black(v, Child(v, g, 3 - k))
    <3>1. k = f  BY <2>1, <2>2, <2>13, <1>2, <1>14
    <3>2. Child(v, g, 3 - k) = p  BY <3>1, <2>1, <1>2, <1>14
    <3> QED BY <3>2, <2>7, <2>12, <1>1, <1>2, <1>7 DEF is_black, is_red, Red
  <2>14. RbtLacking(v, L, h2, g, b)
    BY <2>1, <2>4, <2>8, <2>10, <2>11, <2>12, <2>13, <1>7, <1>11, <1>12 DEF RbtLacking, Heights
  <2> QED BY <2>14 DEF b, f
<1> QED BY <1>13, <1>14 DEF g

(* case5: an inner red nephew x is lifted above the sibling s.             *)
LEMMA DeleteTurnsNephew ==
  ASSUME NEW t, NEW L, NEW r, Links(t, L, r), NEW h, NEW p, NEW s, RbtLacking(t, L, h, p, s),
         is_black(t, s), NEW d \in Side, Child(t, p, d) = s, NEW x, x = Child(t, s, 3 - d),
         is_red(t, x), is_black(t, Child(t, s, d)),
         NEW v, Recoloured(t, v),
         \A m \in L : Extra(v, m) = IF m = s THEN Red ELSE IF m = x THEN Black ELSE Extra(t, m),
         NEW u, Rotated(v, u, L, s, 3 - d, x, Child(v, x, 3 - (3 - d)))
  PROVE \E h2 : /\ RbtLacking(u, L, h2, p, x) /\ is_black(u, x)
                /\ Child(u, p, d) = x /\ Child(u, x, d) = s /\ is_red(u, s)
<1> DEFINE dd == 3 - d
           w == Child(v, x, 3 - (3 - d))
           q == Child(t, s, d)
           z == Child(t, x, dd)
           o == Child(t, p, dd)
           h2 == [m \in Node |-> IF m = s THEN h[x] ELSE IF m = x THEN h[s] ELSE h[m]]
<1>0. Links(v, L, r)  BY RecolouredLinks
<1>1. /\ p \in L /\ s \in L /\ s # p /\ s # NULL /\ p # NULL /\ Parent(t, s) = p /\ s # t.root
      /\ dd \in Side /\ 3 - dd = d /\ d # dd /\ d \in Side
      /\ \A e \in Side : e = d \/ e = dd
      /\ t.root \in L
  <2>1. p \in L /\ s \in L  BY DEF RbtLacking
  <2>2. dd \in Side /\ 3 - dd = d /\ d # dd /\ \A e \in Side : e = d \/ e = dd  BY DEF Side
  <2>3. t.root \in L  BY <2>1 DEF Links
  <2> QED BY <2>1, <2>2, <2>3, LinkFacts
<1>2. Rotated(v, u, L, s, dd, x, w)  OBVIOUS
<1>a. /\ x \in L /\ x # NULL /\ x # s /\ x # p /\ x # t.root /\ Parent(t, x) = s
      /\ v.root = t.root
      /\ \A m \in L : Parent(v, m) = Parent(t, m) /\ \A e \in Side : Child(v, m, e) = Child(t, m, e)
      /\ \A m \in L : Extra(v, m) = IF m = s THEN 0 ELSE IF m = x THEN 1 ELSE Extra(t, m)
  <2>1. x # NULL  BY DEF is_red
  <2>2. x \in L /\ x # s /\ x # t.root /\ Parent(t, x) = s /\ r[s] < r[x]  BY <2>1, <1>1, LinkFacts
  <2>3. x # p  BY <2>2, <1>1, LinkFacts
  <2> QED BY <2>1, <2>2, <2>3, LinkFacts DEF Recoloured, Red, Black
<1>b. /\ x = Child(v, s, dd) /\ w = Child(v, x, 3 - dd) /\ w = Child(t, x, d) /\ w = Child(v, x, d)
      /\ Child(v, s, d) = q /\ Child(v, x, dd) = z
      /\ Child(t, p, d) = s /\ Child(t, p, dd) = o /\ Child(t, s, d) = q /\ 3 - d = dd /\ Child(t, s, dd) = x
      /\ Child(t, x, dd) = z
      /\ Extra(t, x) = 0 /\ Extra(t, s) # 0 /\ is_black(t, q)
  BY <1>1, <1>a DEF is_red, is_black, Red
<1> HIDE DEF w, dd, o, q, z, h2
<1>3. /\ w # s /\ w # x /\ q \notin {x, s} /\ z \notin {x, s}
      /\ \A m \in L : Extra(u, m) = Extra(v, m)
      /\ Child(u, s, dd) = w /\ Child(u, s, d) = q
      /\ Child(u, x, d) = s /\ Child(u, x, dd) = z
      /\ Parent(u, x) = p
      /\ \A m \in L \ {x, s} : \A e \in Side :
           /\ Child(v, m, e) # x
           /\ Child(v, m, e) = s => Child(u, m, e) = x
           /\ Child(v, m, e) # s => Child(u, m, e) = Child(v, m, e)
      /\ u.root = t.root
  <2>1. Child(v, s, 3 - dd) = q /\ Parent(v, s) = p  BY <1>1, <1>a, <1>b
  <2> QED BY <2>1, <1>0, <1>1, <1>2, <1>a, <1>b, RotatedElsewhere
<1>4. /\ \A m \in L : m \in Node /\ m # NULL /\ h[m] \in Nat /\ m \in Nodes
      /\ \A m \in L : \A e \in Side :
           /\ Child(t, m, e) \in L \cup {NULL} /\ h[Child(t, m, e)] \in Nat
           /\ Child(t, m, e) # NULL => Parent(t, Child(t, m, e)) = m
      /\ h[NULL] = 0 /\ h \in [Node -> Nat]
  <2>1. Heights(h)  BY DEF RbtLacking
  <2> QED BY <2>1, LinkFacts, HeightFacts DEF Heights
<1>5. /\ w \in L \cup {NULL} /\ o \in L \cup {NULL} /\ q \in L \cup {NULL} /\ z \in L \cup {NULL}
      /\ h[w] \in Nat /\ h[o] \in Nat /\ h[q] \in Nat /\ h[z] \in Nat
      /\ h[p] \in Nat /\ h[s] \in Nat /\ h[x] \in Nat
      /\ o # s /\ o # x
  <2>1. o # s  BY <1>1, <1>b, LinkFacts
  <2>2. o # x  BY <1>1, <1>4, <1>a, <1>b
  <2> QED BY <2>1, <2>2, <1>1, <1>4, <1>a, <1>b
<1>6. /\ is_black(t, w) /\ is_black(t, z) /\ is_black(t, o)
      /\ h[p] = h[s] + Blacks(t, p) /\ h[s] = h[x] + 1 /\ h[s] = h[q] + 1 /\ h[o] + 1 = h[s]
      /\ h[x] = h[w] /\ h[x] = h[z]
  <2>1. \A m \in L : \A e \in Side : is_red(t, m) => is_black(t, Child(t, m, e))  BY DEF RbtLacking
  <2>2. is_black(t, w) /\ is_black(t, z)  BY <2>1, <1>1, <1>a, <1>b
  <2>3. is_black(t, o) /\ h[o] + 1 = h[s]  BY <1>1, <1>b DEF RbtLacking
  <2>4. h[p] = h[s] + Blacks(t, p) /\ Even(t, h, s) /\ Even(t, h, x)  BY <1>1, <1>a DEF RbtLacking
  <2>5. Blacks(t, s) = 1 /\ Blacks(t, x) = 0  BY <1>b DEF Blacks, Red
  <2>6. h[s] = h[x] + 1 /\ h[s] = h[q] + 1 /\ h[x] = h[w] + 0 /\ h[x] = h[z] + 0
    BY <2>4, <2>5, <1>1, <1>b DEF Even
  <2> QED BY <2>2, <2>3, <2>4, <2>6, <1>5
<1>8. /\ h2 \in [Node -> Nat] /\ h2[NULL] = 0
      /\ h2[s] = h[x] /\ h2[x] = h[s]
      /\ \A m \in L \cup {NULL} : m \notin {x, s} => h2[m] = h[m]
  BY <1>1, <1>4, <1>a DEF h2, Node
<1>9. ASSUME NEW m \in L \ {p} PROVE Even(u, h2, m)
  <2>1. CASE m = s
    <3>1. Extra(u, m) = 0  BY <2>1, <1>1, <1>3, <1>a
    <3>2. h2[m] = h2[w] /\ h2[m] = h2[q] /\ h2[m] \in Nat
      <4>1. h[q] = h[x]  BY <1>5, <1>6
      <4>2. h2[w] = h[w]  BY <1>3, <1>5, <1>8
      <4>3. h2[q] = h[q]  BY <1>3, <1>5, <1>8
      <4> QED BY <4>1, <4>2, <4>3, <2>1, <1>5, <1>6, <1>8
    <3>3. \A e \in Side : h2[m] = h2[Child(u, m, e)]  BY <2>1, <3>2, <1>1, <1>3
    <3> QED BY <3>1, <3>2, <3>3 DEF Even, Blacks, Red
  <2>2. CASE m = x
    <3>1. Extra(u, m) = 1  BY <2>2, <1>1, <1>3, <1>a
    <3>2. h2[m] = h2[s] + 1 /\ h2[m] = h2[z] + 1  BY <2>2, <1>1, <1>3, <1>5, <1>6, <1>8
    <3>3. \A e \in Side : h2[m] = h2[Child(u, m, e)] + 1  BY <2>2, <3>2, <1>1, <1>3
    <3> QED BY <3>1, <3>3 DEF Even, Blacks, Red
  <2>3. CASE m \notin {s, x}
    <3>0. \A e \in Side : Child(t, m, e) # s  BY <1>1, <1>4
    <3>1. \A e \in Side : h2[Child(u, m, e)] = h[Child(t, m, e)]  BY <2>3, <3>0, <1>3, <1>4, <1>8, <1>a
    <3>2. Even(t, h, m) /\ Extra(u, m) = Extra(t, m) /\ h2[m] = h[m]  BY <2>3, <1>3, <1>8, <1>a DEF RbtLacking
    <3> QED BY <3>1, <3>2 DEF Even, Blacks
  <2> QED BY <2>1, <2>2, <2>3
<1>10. \A m \in L : is_red(u, m) => m = s \/ (m # x /\ is_red(t, m))
  BY <1>3, <1>a DEF is_red, Red
<1>11. \A m \in (L \cup {NULL}) \ {x, s} : is_black(t, m) => is_black(u, m)
  BY <1>3, <1>a DEF is_red, is_black
<1>12. is_black(u, x) /\ is_red(u, s)  BY <1>1, <1>3, <1>a DEF is_black, is_red, Red
<1>13. ASSUME NEW m \in L, NEW e \in Side, is_red(u, m) PROVE is_black(u, Child(u, m, e))
  <2>1. CASE m = s
    <3>1. is_black(u, w) /\ is_black(u, q)  BY <1>3, <1>5, <1>6, <1>11, <1>b
    <3> QED BY <2>1, <3>1, <1>1, <1>3
  <2>2. CASE m # s
    <3>1. m # x /\ is_red(t, m)  BY <2>2, <1>10, <1>13
    <3>2. is_black(t, Child(t, m, e))  BY <3>1 DEF RbtLacking
    <3>3. Child(t, m, e) \in L \cup {NULL} /\ Child(t, m, e) # x  BY <1>3, <1>4, <1>a, <2>2, <3>1
    <3>4. CASE Child(t, m, e) = s  BY <3>1, <3>4, <2>2, <1>3, <1>12, <1>a
    <3>5. CASE Child(t, m, e) # s  BY <3>1, <3>2, <3>3, <3>5, <2>2, <1>3, <1>11, <1>a
    <3> QED BY <3>4, <3>5
  <2> QED BY <2>1, <2>2
<1>14. is_black(u, u.root)
  <2>1. is_black(t, t.root)  BY DEF RbtLacking
  <2> QED BY <2>1, <1>1, <1>3, <1>11, <1>12, <1>a
<1>15. is_black(u, o) /\ Child(u, p, d) = x /\ Child(u, p, dd) = o
  <2>1. o \notin {x, s}  BY <1>5
  <2> QED BY <2>1, <1>1, <1>3, <1>5, <1>6, <1>11, <1>a, <1>b
<1>16. h2[p] = h2[x] + Blacks(u, p)
  <2>1. Blacks(u, p) = Blacks(t, p)  BY <1>1, <1>3, <1>a DEF Blacks
  <2>2. h2[p] = h[p] /\ h2[x] = h[s]  BY <1>1, <1>8, <1>a
  <2> QED BY <2>1, <2>2, <1>6
<1>17. ASSUME NEW e \in Side, Child(u, p, e) = x
       PROVE h2[Child(u, p, 3 - e)] + 1 = h2[x] /\ is_black(u, Child(u, p, 3 - e))
  <2>1. e = d  BY <1>1, <1>5, <1>15, <1>17
  <2>2. Child(u, p, 3 - e) = o  BY <2>1, <1>15, <1>b
  <2>3. h2[o] = h[o] /\ h2[x] = h[s]  BY <1>5, <1>8
  <2> QED BY <2>2, <2>3, <1>6, <1>15
<1>18. RbtLacking(u, L, h2, p, x)
  BY <1>1, <1>3, <1>8, <1>9, <1>13, <1>14, <1>16, <1>17, <1>a DEF RbtLacking, Heights
<1> QED BY <1>18, <1>12, <1>15, <1>3

(* case6: the sibling s is lifted above p, its outer child q becomes       *)
(* black.                                                                  *)
LEMMA DeleteLifts ==
  ASSUME NEW t, NEW L, NEW r, Links(t, L, r), NEW h, NEW p, NEW s, RbtLacking(t, L, h, p, s),
         is_black(t, s), NEW d \in Side, Child(t, p, d) = s, NEW q, q = Child(t, s, d), is_red(t, q),
         NEW v, Recoloured(t, v),
         \A m \in L : Extra(v, m) = IF m = q THEN Black ELSE IF m = p THEN Black
                                    ELSE IF m = s THEN Extra(t, p) ELSE Extra(t, m),
         NEW u, Rotated(v, u, L, p, d, s, Child(v, s, 3 - d))
  PROVE \E h2 : RbtWhole(u, L, h2)
<1> DEFINE x == Child(v, s, 3 - d)
           dd == 3 - d
           o == Child(t, p, dd)
           h2 == [m \in Node |-> IF m = p THEN h[s] ELSE IF m = s THEN h[p]
                                 ELSE IF m = q THEN h[q] + 1 ELSE h[m]]
<1>0. Links(v, L, r)  BY RecolouredLinks
<1>1. /\ p \in L /\ s \in L /\ s # p /\ s # NULL /\ p # NULL /\ Parent(t, s) = p /\ s # t.root
      /\ dd \in Side /\ 3 - dd = d /\ d # dd /\ d \in Side
      /\ \A e \in Side : e = d \/ e = dd
      /\ t.root \in L
  <2>1. p \in L /\ s \in L  BY DEF RbtLacking
  <2>2. dd \in Side /\ 3 - dd = d /\ d # dd /\ \A e \in Side : e = d \/ e = dd  BY DEF Side
  <2>3. t.root \in L  BY <2>1 DEF Links
  <2> QED BY <2>1, <2>2, <2>3, LinkFacts
<1>2. Rotated(v, u, L, p, d, s, x)  OBVIOUS
<1>a. /\ q \in L /\ q # NULL /\ q # s /\ q # p /\ q # t.root /\ Parent(t, q) = s
      /\ v.root = t.root
      /\ \A m \in L : Parent(v, m) = Parent(t, m) /\ \A e \in Side : Child(v, m, e) = Child(t, m, e)
      /\ \A m \in L : Extra(v, m) = IF m = q THEN 1 ELSE IF m = p THEN 1
                                    ELSE IF m = s THEN Extra(t, p) ELSE Extra(t, m)
  <2>1. q # NULL  BY DEF is_red
  <2>2. q \in L /\ q # s /\ q # t.root /\ Parent(t, q) = s /\ r[s] < r[q]  BY <2>1, <1>1, LinkFacts
  <2>3. q # p  BY <2>2, <1>1, LinkFacts
  <2> QED BY <2>1, <2>2, <2>3, LinkFacts DEF Recoloured, Black
<1>b. /\ s = Child(v, p, d) /\ x = Child(v, s, 3 - d) /\ x = Child(t, s, dd)
      /\ Child(v, p, 3 - d) = o /\ Child(v, s, d) = q
      /\ Child(t, p, d) = s /\ Child(t, p, dd) = o /\ Child(t, s, d) = q /\ 3 - d = dd
      /\ Extra(t, q) = 0 /\ Extra(t, s) # 0
  BY <1>1, <1>a DEF is_red, is_black, Red
<1> HIDE DEF x, dd, o, h2
<1>3. /\ x # p /\ x # s /\ o \notin {p, s}
      /\ \A m \in L : Extra(u, m) = Extra(v, m)
      /\ Child(u, p, d) = x /\ Child(u, p, dd) = o
      /\ Child(u, s, dd) = p /\ Child(u, s, d) = q
      /\ \A m \in L \ {p, s} : \A e \in Side :
           /\ Child(v, m, e) # s
           /\ Child(v, m, e) = p => Child(u, m, e) = s
           /\ Child(v, m, e) # p => Child(u, m, e) = Child(v, m, e)
      /\ u.root = IF t.root = p THEN s ELSE t.root
  BY <1>0, <1>1, <1>2, <1>a, <1>b, RotatedElsewhere
<1>4. /\ \A m \in L : m \in Node /\ m # NULL /\ h[m] \in Nat /\ m \in Nodes
      /\ \A m \in L : \A e \in Side :
           /\ Child(t, m, e) \in L \cup {NULL} /\ h[Child(t, m, e)] \in Nat
           /\ Child(t, m, e) # NULL => Parent(t, Child(t, m, e)) = m
      /\ h[NULL] = 0 /\ h \in [Node -> Nat]
  <2>1. Heights(h)  BY DEF RbtLacking
  <2> QED BY <2>1, LinkFacts, HeightFacts DEF Heights
<1>5. /\ x \in L \cup {NULL} /\ o \in L \cup {NULL} /\ x # q /\ o # q
      /\ h[x] \in Nat /\ h[o] \in Nat /\ h[q] \in Nat /\ h[p] \in Nat /\ h[s] \in Nat
  <2>1. x # q  BY <1>1, <1>a, <1>b, LinkFacts
  <2>2. o # q  BY <1>1, <1>4, <1>a, <1>b
  <2> QED BY <2>1, <2>2, <1>1, <1>4, <1>a, <1>b
<1>6. /\ is_black(t, o)
      /\ h[p] = h[s] + Blacks(t, p) /\ h[s] = h[x] + 1 /\ h[s] = h[q] + 1 /\ h[o] + 1 = h[s]
      /\ \A e \in Side : h[q] = h[Child(t, q, e)]
  <2>1. is_black(t, o) /\ h[o] + 1 = h[s]  BY <1>1, <1>b DEF RbtLacking
  <2>2. h[p] = h[s] + Blacks(t, p) /\ Even(t, h, s) /\ Even(t, h, q)  BY <1>1, <1>a DEF RbtLacking
  <2>3. Blacks(t, s) = 1 /\ Blacks(t, q) = 0  BY <1>b DEF Blacks, Red
  <2>4. h[s] = h[x] + 1 /\ h[s] = h[q] + 1  BY <2>2, <2>3, <1>1, <1>b DEF Even
  <2>5. \A e \in Side : h[q] = h[Child(t, q, e)] + 0 /\ h[Child(t, q, e)] \in Nat
    BY <2>2, <2>3, <1>4, <1>a DEF Even
  <2> QED BY <2>1, <2>2, <2>4, <2>5
<1>8. /\ h2 \in [Node -> Nat] /\ h2[NULL] = 0
      /\ h2[p] = h[s] /\ h2[s] = h[p] /\ h2[q] = h[q] + 1
      /\ \A m \in L \cup {NULL} : m \notin {p, s, q} => h2[m] = h[m]
  BY <1>1, <1>4, <1>a DEF h2, Node
<1>9. ASSUME NEW m \in L PROVE Even(u, h2, m)
  <2>1. CASE m = s
    <3>1. Blacks(u, m) = Blacks(t, p)  BY <2>1, <1>1, <1>3, <1>a DEF Blacks
    <3>2. h2[m] = h2[p] + Blacks(t, p) /\ h2[m] = h2[q] + Blacks(t, p)
      <4>1. h2[q] = h[s]  BY <1>5, <1>6, <1>8
      <4> QED BY <4>1, <2>1, <1>6, <1>8
    <3>3. \A e \in Side : h2[m] = h2[Child(u, m, e)] + Blacks(t, p)  BY <2>1, <3>2, <1>1, <1>3
    <3> QED BY <3>1, <3>3 DEF Even
  <2>2. CASE m = p
    <3>1. Extra(u, m) = 1  BY <2>2, <1>1, <1>3, <1>a
    <3>2. h2[m] = h2[x] + 1 /\ h2[m] = h2[o] + 1  BY <2>2, <1>1, <1>3, <1>5, <1>6, <1>8
    <3>3. \A e \in Side : h2[m] = h2[Child(u, m, e)] + 1  BY <2>2, <3>2, <1>1, <1>3
    <3> QED BY <3>1, <3>3 DEF Even, Blacks, Red
  <2>3. CASE m = q
    <3>1. Extra(u, m) = 1  BY <2>3, <1>1, <1>3, <1>a
    <3>2. \A e \in Side : Child(u, q, e) = Child(t, q, e) /\ Child(t, q, e) \in (L \cup {NULL}) \ {p, s, q}
      <4>1. \A e \in Side : Child(t, q, e) \in L \cup {NULL} /\ Child(t, q, e) # q  BY <1>a, LinkFacts
      <4>2. \A e \in Side : Child(t, q, e) # s  BY <1>1, <1>4, <1>a
      <4>3. \A e \in Side : Child(t, q, e) # p  BY <1>0, <1>1, <1>a, LinkFacts
      <4> QED BY <4>1, <4>2, <4>3, <1>3, <1>a
    <3>3. \A e \in Side : h2[Child(u, q, e)] = h[q] /\ h2[q] = h[q] + 1  BY <3>2, <1>6, <1>8
    <3> QED BY <2>3, <3>1, <3>3 DEF Even, Blacks, Red
  <2>4. CASE m \notin {s, p, q}
    <3>0. \A e \in Side : Child(t, m, e) \notin {s, q}  BY <2>4, <1>1, <1>4, <1>a
    <3>1. \A e \in Side : h2[Child(u, m, e)] = h[Child(t, m, e)]  BY <2>4, <3>0, <1>3, <1>4, <1>8, <1>a
    <3>2. Even(t, h, m) /\ Extra(u, m) = Extra(t, m) /\ h2[m] = h[m]
      BY <2>4, <1>3, <1>8, <1>a DEF RbtLacking
    <3> QED BY <3>1, <3>2 DEF Even, Blacks
  <2> QED BY <2>1, <2>2, <2>3, <2>4
<1>10. \A m \in L : is_red(u, m) => m \notin {p, q} /\ (m = s \/ is_red(t, m)) /\ (m = s => is_red(t, p))
  BY <1>1, <1>3, <1>a DEF is_red, Red
<1>11. \A m \in (L \cup {NULL}) \ {p, s, q} : is_black(t, m) => is_black(u, m)
  BY <1>3, <1>a DEF is_red, is_black
<1>12. is_black(u, p) /\ is_black(u, q) /\ (is_black(t, p) => is_black(u, s))
  BY <1>1, <1>3, <1>a DEF is_black, is_red, Red
<1>13. ASSUME NEW m \in L, NEW e \in Side, is_red(u, m) PROVE is_black(u, Child(u, m, e))
  <2>1. CASE m = s
    <3>1. Child(u, s, e) \in {p, q}  BY <1>1, <1>3
    <3> QED BY <2>1, <3>1, <1>12
  <2>2. CASE m # s
    <3>1. m \notin {p, q} /\ is_red(t, m)  BY <2>2, <1>10, <1>13
    <3>2. is_black(t, Child(t, m, e))  BY <3>1 DEF RbtLacking
    <3>3. Child(t, m, e) \in L \cup {NULL} /\ Child(t, m, e) # s /\ Child(t, m, e) # q
      BY <1>1, <1>4, <1>a, <2>2, <3>1
    <3>4. CASE Child(t, m, e) = p
      <4>1. Child(u, m, e) = s  BY <2>2, <3>1, <3>4, <1>3, <1>a
      <4> QED BY <4>1, <3>2, <3>4, <1>12
    <3>5. CASE Child(t, m, e) # p  BY <3>1, <3>2, <3>3, <3>5, <2>2, <1>3, <1>11, <1>a
    <3> QED BY <3>4, <3>5
  <2> QED BY <2>1, <2>2
<1>14. is_black(u, u.root)
  <2>1. is_black(t, t.root)  BY DEF RbtLacking
  <2> QED BY <2>1, <1>1, <1>3, <1>11, <1>12, <1>a
<1>15. RbtWhole(u, L, h2)  BY <1>8, <1>9, <1>13, <1>14 DEF RbtWhole, Heights
<1> QED BY <1>15

------------------------------------------------------------------------------
(* The AVL tree: what handle_unblance does to the factors and to the       *)
(* heights h, and the turns that call it.                                  *)

(* A node k deep with factor f above subtrees a and b deep.                *)
Fits(k, f, a, b) == f \in -1 .. 1 /\ f = a - b /\ k = 1 + IF a < b THEN b ELSE a
Tilt(t, m, d) == Sign(d) * Extra(t, m)
Tall(t, h, m) == \A d \in Side : Fits(h[m], Tilt(t, m, d), h[Child(t, m, d)], h[Child(t, m, 3 - d)])

AvlWhole(t, L, h) == Heights(h) /\ \A m \in L : Tall(t, h, m)

AvlGrowing(t, L, h, n) ==
  /\ Heights(h) /\ n \in L
  /\ Extra(t, n) # 0 \/ h[n] = 1
  /\ \A m \in L : m # Parent(t, n) => Tall(t, h, m)
  /\ Parent(t, n) # NULL => \A d \in Side : Child(t, Parent(t, n), d) = n =>
       Fits(h[Parent(t, n)], Tilt(t, Parent(t, n), d), h[n] - 1, h[Child(t, Parent(t, n), 3 - d)])

AvlShrunk(t, L, h, n, d) ==
  /\ Heights(h) /\ n \in L /\ d \in Side
  /\ \A m \in L \ {n} : Tall(t, h, m)
  /\ Fits(h[n], Tilt(t, n, d), h[Child(t, n, d)] + 1, h[Child(t, n, 3 - d)])

(* Right and left in the definition of a factor.                           *)
LEMMA FitsTurned ==
  ASSUME NEW k \in Int, NEW f \in Int, NEW a \in Int, NEW b \in Int, Fits(k, f, a, b)
  PROVE Fits(k, -f, b, a)
BY DEF Fits

(* Arithmetic of a factor seen from side d.                                *)
LEMMA SignFacts ==
  ASSUME NEW d \in Side, NEW f \in Int
  PROVE /\ Sign(d) \in Int /\ Sign(d) * f \in Int
        /\ Sign(3 - d) * f = -(Sign(d) * f)
        /\ Sign(d) * (f - Sign(d)) = Sign(d) * f - 1
        /\ Sign(d) * (f + Sign(d)) = Sign(d) * f + 1
        /\ Sign(d) * (Sign(d) - f) = 1 - Sign(d) * f
        /\ Sign(d) * (-f) = -(Sign(d) * f)
        /\ Sign(d) * Sign(d) = 1
        /\ f = Sign(d) * (Sign(d) * f)
<1>1. CASE d = 1  BY <1>1 DEF Sign
<1>2. CASE d = 2  BY <1>2 DEF Sign
<1> QED BY <1>1, <1>2 DEF Side

(* Tall, from the side of the deeper child.                                *)
LEMMA TallOnSide ==
  ASSUME NEW t, NEW m, NEW d \in Side, Extra(t, m) \in Int, NEW h, h[m] \in Int,
         h[Child(t, m, d)] \in Int, h[Child(t, m, 3 - d)] \in Int,
         Fits(h[m], Tilt(t, m, d), h[Child(t, m, d)], h[Child(t, m, 3 - d)])
  PROVE Tall(t, h, m)
<1> DEFINE dd == 3 - d
<1>1. dd \in Side /\ 3 - dd = d /\ \A e \in Side : e = d \/ e = dd  BY DEF Side
<1>2. Tilt(t, m, d) \in Int /\ Tilt(t, m, dd) = -Tilt(t, m, d)  BY SignFacts DEF Tilt
<1>3. Fits(h[m], -Tilt(t, m, d), h[Child(t, m, dd)], h[Child(t, m, d)])  BY <1>2, FitsTurned
<1>4. Fits(h[m], Tilt(t, m, dd), h[Child(t, m, dd)], h[Child(t, m, 3 - dd)])  BY <1>1, <1>2, <1>3
<1> QED BY <1>1, <1>4 DEF Tall

(* The subtree of p, now that of top, has been rebuilt into a balanced     *)
(* one.                                                                    *)
Rebuilt(t, u, L, h, h2, p, top) ==
  LET P == Parent(t, p) IN
  /\ Heights(h2) /\ top \in L /\ Parent(u, top) = P
  /\ \A m \in L : m # P => Tall(u, h2, m)
  /\ P # NULL => /\ h2[P] = h[P] /\ Extra(u, P) = Extra(t, P)
                 /\ \A e \in Side :
                      /\ Child(t, P, e) = p => Child(u, P, e) = top
                      /\ Child(t, P, e) # p => /\ Child(u, P, e) = Child(t, P, e)
                                               /\ h2[Child(t, P, e)] = h[Child(t, P, e)]

(* handle_unblance_gt and _lt with one rotation restore the factors        *)
(* (avl_tree_policy.h:97-112, 142-157).                                    *)
LEMMA UnblanceOnce ==
  ASSUME NEW t, NEW L, NEW r, Links(t, L, r), NEW h, Heights(h), NEW p \in L, NEW d \in Side,
         NEW n, n = Child(t, p, d),
         \A m \in L : m # p /\ m # Parent(t, p) => Tall(t, h, m),
         h[n] = h[Child(t, p, 3 - d)] + 2,
         Tilt(t, n, d) >= 0,
         NEW v, Rotated(t, v, L, p, d, n, Child(t, n, 3 - d)),
         NEW u, Recoloured(v, u), \A m \in L \ {p, n} : Extra(u, m) = Extra(v, m),
         Tilt(u, n, d) = Tilt(t, n, d) - 1, Tilt(u, p, d) = 1 - Tilt(t, n, d)
  PROVE \E h2 : /\ Rebuilt(t, u, L, h, h2, p, n)
                /\ h2[n] = h[n] + 1 - Tilt(t, n, d)
<1> DEFINE dd == 3 - d
           x == Child(t, n, dd)
           o == Child(t, p, dd)
           c == Child(t, n, d)
           f == Tilt(t, n, d)
           P == Parent(t, p)
           h2 == [m \in Node |-> IF m = p THEN h[n] - f ELSE IF m = n THEN h[n] + 1 - f ELSE h[m]]
<1>1. /\ dd \in Side /\ 3 - dd = d /\ d # dd /\ \A e \in Side : e = d \/ e = dd
      /\ h[NULL] = 0 /\ h \in [Node -> Nat]
      /\ \A m \in L : m \in Node /\ m # NULL /\ h[m] \in Nat /\ m \in Nodes /\ Extra(t, m) \in Int
      /\ \A m \in L : \A e \in Side :
           /\ Child(t, m, e) \in L \cup {NULL} /\ h[Child(t, m, e)] \in Nat
           /\ Child(t, m, e) # NULL => Parent(t, Child(t, m, e)) = m
  BY LinkFacts, HeightFacts DEF Heights, Side
<1>2. n \in L \cup {NULL} /\ h[n] \in Nat /\ h[o] \in Nat /\ h[n] = h[o] + 2  BY <1>1
<1>2a. h[n] # 0  BY <1>2
<1>3. n \in L /\ n # NULL  BY <1>1, <1>2, <1>2a
<1>4. /\ n # p /\ P # n /\ P # p /\ P \in L \cup {NULL} /\ Parent(t, n) = p
      /\ Extra(t, n) \in Int
  BY <1>1, <1>3, LinkFacts
<1>5. Rotated(t, v, L, p, d, n, x)  OBVIOUS
<1>b. /\ Child(t, p, d) = n /\ Child(t, n, 3 - d) = x /\ Child(t, p, dd) = o /\ Child(t, n, d) = c
      /\ 3 - d = dd /\ Parent(t, p) = P
  OBVIOUS
<1>6. /\ f \in 0 .. 1 /\ f = h[c] - h[x] /\ h[n] = 1 + h[c] /\ h[c] \in Nat /\ h[x] \in Nat
      /\ c \in L \cup {NULL} /\ x \in L \cup {NULL}
  <2>1. Tall(t, h, n)  BY <1>3, <1>4
  <2>2. Fits(h[n], f, h[c], h[x])  BY <2>1, <1>b DEF Tall
  <2>3. h[c] \in Nat /\ h[x] \in Nat /\ c \in L \cup {NULL} /\ x \in L \cup {NULL}  BY <1>1, <1>3
  <2> QED BY <2>2, <2>3 DEF Fits
<1>g. Tilt(u, n, d) = f - 1 /\ Tilt(u, p, d) = 1 - f  OBVIOUS
<1> HIDE DEF dd, x, o, c, f, P, h2
<1>7. /\ x # p /\ x # n /\ o \notin {p, n} /\ c \notin {p, n}
      /\ \A m \in L : Extra(v, m) = Extra(t, m)
      /\ Child(v, p, d) = x /\ Child(v, p, dd) = o
      /\ Child(v, n, dd) = p /\ Child(v, n, d) = c
      /\ Parent(v, n) = P
      /\ \A m \in L \ {p, n} : \A e \in Side :
           /\ Child(t, m, e) # n
           /\ Child(t, m, e) = p => P = m /\ Child(v, m, e) = n
           /\ Child(t, m, e) # p => Child(v, m, e) = Child(t, m, e)
  BY <1>1, <1>3, <1>5, <1>b, RotatedElsewhere
<1>8. /\ \A m \in L : Parent(u, m) = Parent(v, m) /\ \A e \in Side : Child(u, m, e) = Child(v, m, e)
      /\ \A m \in L : Extra(u, m) \in Int
      /\ \A m \in L \ {p, n} : Extra(u, m) = Extra(v, m)
  BY <1>1, TypedNodes DEF Recoloured
<1>9. /\ h2 \in [Node -> Nat] /\ h2[NULL] = 0
      /\ h2[p] = h[n] - f /\ h2[n] = h[n] + 1 - f
      /\ \A m \in L \cup {NULL} : m \notin {p, n} => h2[m] = h[m]
  <2>1. h[n] - f \in Nat /\ h[n] + 1 - f \in Nat  BY <1>2, <1>6
  <2> QED BY <2>1, <1>1, <1>3, <1>4 DEF h2, Node
<1>10. h2[x] = h[x] /\ h2[o] = h[o] /\ h2[c] = h[c]
  <2>1. o \in L \cup {NULL}  BY <1>1 DEF o
  <2> QED BY <2>1, <1>6, <1>7, <1>9
<1>11. Tall(u, h2, n)
  <2>1. Child(u, n, d) = c /\ Child(u, n, 3 - d) = p  BY <1>3, <1>7, <1>8, <1>b, <1>1
  <2>2. Fits(h2[n], f - 1, h2[c], h2[p])  BY <1>6, <1>9, <1>10 DEF Fits
  <2>3. h2[n] \in Int /\ h2[c] \in Int /\ h2[p] \in Int /\ Extra(u, n) \in Int  BY <1>1, <1>2, <1>3, <1>6, <1>8, <1>9, <1>10
  <2> QED BY <2>1, <2>2, <2>3, <1>g, TallOnSide
<1>12. Tall(u, h2, p)
  <2>1. Child(u, p, d) = x /\ Child(u, p, 3 - d) = o  BY <1>7, <1>8, <1>b, <1>1
  <2>2. Fits(h2[p], 1 - f, h2[x], h2[o])
    <3>a. h[n] = h[o] + 2 /\ h[n] = 1 + h[c] /\ f = h[c] - h[x] /\ f \in Int /\ h[o] \in Nat /\ h[c] \in Nat /\ h[x] \in Nat
      BY <1>2, <1>6
    <3>b. h[o] = h[c] - 1 /\ h[x] = h[c] - f  BY <3>a
    <3>1. h2[x] = h[c] - f /\ h2[o] = h[c] - 1 /\ h2[p] = 1 + h[c] - f  
      <4>1. h2[p] = h[n] - f  BY <1>9
      <4> QED BY <4>1, <3>a, <3>b, <1>10
    <3>2. CASE f = 0  BY <3>1, <3>2, <1>6 DEF Fits
    <3>3. CASE f = 1  BY <3>1, <3>3, <1>6 DEF Fits
    <3> QED BY <3>2, <3>3, <1>6
  <2>3. h2[p] \in Int /\ h2[x] \in Int /\ h2[o] \in Int /\ Extra(u, p) \in Int  BY <1>2, <1>6, <1>8, <1>9, <1>10
  <2> QED BY <2>1, <2>2, <2>3, <1>g, TallOnSide
<1>13. ASSUME NEW m \in L \ {p, n}, m # P PROVE Tall(u, h2, m)
  <2>1. Tall(t, h, m)  BY <1>13 DEF P
  <2>2. \A e \in Side : Child(u, m, e) = Child(t, m, e) /\ h2[Child(t, m, e)] = h[Child(t, m, e)]
    BY <1>1, <1>7, <1>8, <1>9, <1>13
  <2>3. h2[m] = h[m] /\ Extra(u, m) = Extra(t, m)  BY <1>7, <1>8, <1>9
  <2>4. \A e \in Side : 3 - e \in Side  BY DEF Side
  <2> QED BY <2>1, <2>2, <2>3, <2>4 DEF Tall, Tilt
<1>14. ASSUME P # NULL
       PROVE /\ h2[P] = h[P] /\ Extra(u, P) = Extra(t, P)
             /\ \A e \in Side :
                  /\ Child(t, P, e) = p => Child(u, P, e) = n
                  /\ Child(t, P, e) # p => /\ Child(u, P, e) = Child(t, P, e)
                                           /\ h2[Child(t, P, e)] = h[Child(t, P, e)]
  <2>1. P \in L \ {p, n}  BY <1>4, <1>14
  <2> QED BY <2>1, <1>1, <1>7, <1>8, <1>9
<1>15. Rebuilt(t, u, L, h, h2, p, n)
  <2>1. \A m \in L : m # P => Tall(u, h2, m)  BY <1>11, <1>12, <1>13
  <2>2. Parent(u, n) = P  BY <1>3, <1>7, <1>8
  <2> QED BY <2>1, <2>2, <1>3, <1>9, <1>14 DEF Rebuilt, Heights, P
<1> QED BY <1>15, <1>9 DEF f

(* What two rotations that lift x, the inner child of n, above n and above *)
(* its parent p make of t, by way of t1.                                   *)
LiftedTwice(t, t1, t2, L, p, d, dd, n, x) ==
  /\ (\E r2 : Links(t2, L, r2)) /\ Turned(t, t2, L)
  /\ Child(t1, p, d) = x /\ Parent(t1, p) = Parent(t, p)
  /\ Parent(t2, x) = Parent(t, p)
  /\ n # p /\ x # n /\ x # p /\ Parent(t, p) \notin {n, p, x}
  /\ \A m \in L : Extra(t2, m) = Extra(t, m)
  /\ Child(t2, x, d) = n /\ Child(t2, x, dd) = p
  /\ Child(t2, n, d) = Child(t, n, d) /\ Child(t2, n, dd) = Child(t, x, d)
  /\ Child(t2, p, d) = Child(t, x, dd) /\ Child(t2, p, dd) = Child(t, p, dd)
  /\ Child(t, n, d) \notin {n, p, x} /\ Child(t, x, d) \notin {n, p, x}
  /\ Child(t, x, dd) \notin {n, p, x} /\ Child(t, p, dd) \notin {n, p, x}
  /\ \A m \in L \ {n, p, x} : \A e \in Side :
       /\ Child(t, m, e) \notin {n, x}
       /\ Child(t, m, e) = p => Parent(t, p) = m /\ Child(t2, m, e) = x
       /\ Child(t, m, e) # p => Child(t2, m, e) = Child(t, m, e)

(* The links after the two rotations of handle_unblance.                   *)
LEMMA TwiceShape ==
  ASSUME NEW t, NEW L, NEW r, Links(t, L, r), NEW p \in L, NEW d \in Side, NEW dd \in Side,
         dd = 3 - d, 3 - dd = d, d # dd,
         NEW n \in L, n = Child(t, p, d), NEW x \in L, x = Child(t, n, dd),
         NEW t1, Rotated(t, t1, L, n, dd, x, Child(t, x, d)),
         NEW t2, Rotated(t1, t2, L, p, d, x, Child(t1, x, dd))
  PROVE LiftedTwice(t, t1, t2, L, p, d, dd, n, x)
<1> DEFINE xd == Child(t, x, d)
           xe == Child(t, x, dd)
           c == Child(t, n, d)
           o == Child(t, p, dd)
           P == Parent(t, p)
<1>1. /\ n # NULL /\ x # NULL /\ Child(t, p, d) = n /\ Child(t, n, dd) = x
      /\ Parent(t, n) = p /\ Parent(t, x) = n
      /\ r[p] \in Nat /\ r[n] \in Nat /\ r[x] \in Nat /\ r[p] < r[n] /\ r[n] < r[x]
  BY LinkFacts
<1>2. n # p /\ x # n /\ x # p  BY <1>1
<1>3. P \in L \cup {NULL} /\ P \notin {n, p, x}
  <2>1. P \in L \cup {NULL} /\ (P # NULL => r[P] < r[p])  BY LinkFacts
  <2>2. P # NULL => r[P] \in Nat  BY <2>1, LinkFacts
  <2>3. p # NULL  BY LinkFacts
  <2> HIDE DEF P
  <2>4. CASE P = NULL  BY <2>4, <2>1, <2>3, <1>1
  <2>5. CASE P # NULL  BY <2>5, <2>1, <2>2, <1>1
  <2> QED BY <2>4, <2>5
<1>4. \A m \in L : \A e \in Side : Child(t, m, e) # NULL => Parent(t, Child(t, m, e)) = m /\ Child(t, m, e) # m
  BY LinkFacts
<1>5. \A m \in L \ {n, p, x} : \A e \in Side : Child(t, m, e) \notin {n, x}
  BY <1>1, <1>4
<1>6. c \notin {n, p, x} /\ xd \notin {n, p, x} /\ xe \notin {n, p, x} /\ o \notin {n, p, x}
  <2>1. \A m \in L : p = Child(t, m, d) \/ p = Child(t, m, dd) => P = m  BY <1>4, LinkFacts
  <2>2. Child(t, n, 3 - d) # c \/ c = NULL  BY LinkFacts
  <2>3. Child(t, p, 3 - d) # n  BY <1>1, LinkFacts
  <2>4. c \notin {n, p}  BY <1>1, <1>2, <1>3, <1>4, <2>1
  <2>5. c # x  BY <1>1, <2>2
  <2>6. xd \notin {n, p, x} /\ xe \notin {n, p, x}  BY <1>1, <1>2, <1>3, <1>4, <2>1
  <2>7. o \notin {n, p, x}  BY <1>1, <1>2, <1>3, <1>4, <2>1, <2>3
  <2> QED BY <2>4, <2>5, <2>6, <2>7
<1>7. /\ Parent(t1, n) = x /\ Parent(t1, x) = p
      /\ \A m \in L : Extra(t1, m) = Extra(t, m)
      /\ Child(t1, n, dd) = xd /\ Child(t1, n, d) = c
      /\ Child(t1, x, d) = n /\ Child(t1, x, dd) = xe
      /\ \A m \in L \ {n, x} : \A e \in Side :
           /\ Child(t, m, e) = n => Child(t1, m, e) = x
           /\ Child(t, m, e) # n => Child(t1, m, e) = Child(t, m, e)
      /\ Parent(t1, p) = P
  <2>1. x = Child(t, n, dd) /\ xd = Child(t, x, 3 - dd) /\ Rotated(t, t1, L, n, dd, x, xd)  OBVIOUS
  <2> HIDE DEF xd, xe, c, o, P
  <2>2. /\ Parent(t1, n) = x /\ Parent(t1, x) = Parent(t, n)
        /\ \A m \in L \ {n, x, xd} : Parent(t1, m) = Parent(t, m)
        /\ \A m \in L : Extra(t1, m) = Extra(t, m)
        /\ Child(t1, n, dd) = xd /\ Child(t1, n, 3 - dd) = Child(t, n, 3 - dd)
        /\ Child(t1, x, 3 - dd) = n /\ Child(t1, x, dd) = Child(t, x, dd)
        /\ \A m \in L \ {n, x} : \A e \in Side :
             /\ Child(t, m, e) = n => Child(t1, m, e) = x
             /\ Child(t, m, e) # n => Child(t1, m, e) = Child(t, m, e)
    BY <2>1, <1>1, RotatedElsewhere
  <2> QED BY <2>2, <1>1, <1>2, <1>6 DEF xd, xe, c, P
<1>8. PICK r1 : Links(t1, L, r1)
  <2>1. x = Child(t, n, dd) /\ xd = Child(t, x, 3 - dd) /\ Rotated(t, t1, L, n, dd, x, xd)  OBVIOUS
  <2> HIDE DEF xd, xe, c, o, P
  <2> QED BY <2>1, <1>1, RotatedLinks
<1>9. Child(t1, p, d) = x /\ Child(t1, p, dd) = o
  <2>1. o # n  BY <1>6
  <2> QED BY <2>1, <1>1, <1>2, <1>7
<1>10. xe = Child(t1, x, 3 - d) /\ Rotated(t1, t2, L, p, d, x, xe) /\ x = Child(t1, p, d)
  BY <1>7, <1>9
<1> HIDE DEF xd, xe, c, o, P
<1>11. /\ Parent(t2, x) = P
       /\ \A m \in L : Extra(t2, m) = Extra(t1, m)
       /\ Child(t2, p, d) = xe /\ Child(t2, p, dd) = o
       /\ Child(t2, x, dd) = p /\ Child(t2, x, d) = n
       /\ \A m \in L \ {p, x} : \A e \in Side :
             /\ Child(t1, m, e) = p => Parent(t1, p) = m /\ Child(t2, m, e) = x
             /\ Child(t1, m, e) # p => Child(t2, m, e) = Child(t1, m, e)
  <2>1. /\ Parent(t2, x) = Parent(t1, p)
        /\ \A m \in L : Extra(t2, m) = Extra(t1, m)
        /\ Child(t2, p, d) = xe /\ Child(t2, p, 3 - d) = Child(t1, p, 3 - d)
        /\ Child(t2, x, 3 - d) = p /\ Child(t2, x, d) = Child(t1, x, d)
        /\ \A m \in L \ {p, x} : \A e \in Side :
              /\ Child(t1, m, e) = p => Parent(t1, p) = m /\ Child(t2, m, e) = x
              /\ Child(t1, m, e) # p => Child(t2, m, e) = Child(t1, m, e)
    BY <1>1, <1>8, <1>10, RotatedElsewhere
  <2> QED BY <2>1, <1>7, <1>9
<1>12. \E r2 : Links(t2, L, r2)  BY <1>1, <1>8, <1>10, RotatedLinks
<1>16. Turned(t, t2, L)
  <2>1. x = Child(t, n, dd) /\ xd = Child(t, x, 3 - dd) /\ Rotated(t, t1, L, n, dd, x, xd)  BY DEF xd
  <2>2. Turned(t, t1, L)  BY <2>1, <1>1, RotatedTurned
  <2>3. Turned(t1, t2, L)  BY <1>1, <1>10, RotatedTurned
  <2> QED BY <2>2, <2>3, TurnedTwice
<1>13. Child(t2, n, d) = c /\ Child(t2, n, dd) = xd
  BY <1>2, <1>6, <1>7, <1>11
<1>14. ASSUME NEW m \in L \ {n, p, x}, NEW e \in Side
       PROVE /\ Child(t, m, e) \notin {n, x}
             /\ Child(t, m, e) = p => P = m /\ Child(t2, m, e) = x
             /\ Child(t, m, e) # p => Child(t2, m, e) = Child(t, m, e)
  <2>1. Child(t, m, e) \notin {n, x} /\ Child(t1, m, e) = Child(t, m, e)  BY <1>5, <1>7
  <2> QED BY <2>1, <1>7, <1>11
<1>15. \A m \in L : Extra(t2, m) = Extra(t, m)  BY <1>7, <1>11
<1> QED BY <1>2, <1>3, <1>6, <1>7, <1>9, <1>11, <1>12, <1>13, <1>14, <1>15, <1>16 DEF xd, xe, c, o, P, LiftedTwice

(* handle_unblance_gt and _lt with two rotations restore the factors       *)
(* (avl_tree_policy.h:113-127, 158-172).                                   *)
LEMMA UnblanceTwice ==
  ASSUME NEW t, NEW L, NEW r, Links(t, L, r), NEW h, Heights(h), NEW p \in L, NEW d \in Side, NEW dd \in Side,
         dd = 3 - d, 3 - dd = d, d # dd,
         NEW n \in L, n = Child(t, p, d), NEW x \in L, x = Child(t, n, dd),
         \A m \in L : m # p /\ m # Parent(t, p) => Tall(t, h, m),
         h[n] = h[Child(t, p, dd)] + 2,
         Tilt(t, n, d) = -1,
         NEW t1, Rotated(t, t1, L, n, dd, x, Child(t, x, d)),
         NEW t2, Rotated(t1, t2, L, p, d, x, Child(t1, x, dd)),
         NEW u, Recoloured(t2, u), \A m \in L \ {p, n, x} : Extra(u, m) = Extra(t2, m),
         Tilt(u, x, d) = 0,
         \/ Tilt(t, x, d) >= 0 /\ Tilt(u, n, d) = 0 /\ Tilt(u, p, d) = -Tilt(t, x, d)
         \/ Tilt(t, x, d) < 0 /\ Tilt(u, n, d) = -Tilt(t, x, d) /\ Tilt(u, p, d) = 0
  PROVE \E h2 : Rebuilt(t, u, L, h, h2, p, x) /\ h2[x] = h[n]
<1> DEFINE xd == Child(t, x, d)
           xe == Child(t, x, dd)
           c == Child(t, n, d)
           o == Child(t, p, dd)
           P == Parent(t, p)
           a == h[n]
           h2 == [m \in Node |-> IF m = p \/ m = n THEN a - 1 ELSE IF m = x THEN a ELSE h[m]]
<1>1. /\ \A e \in Side : e = d \/ e = dd
      /\ h[NULL] = 0 /\ h \in [Node -> Nat]
      /\ \A m \in L : m \in Node /\ m # NULL /\ h[m] \in Nat /\ m \in Nodes /\ Extra(t, m) \in Int
      /\ \A m \in L : \A e \in Side : Child(t, m, e) \in L \cup {NULL} /\ h[Child(t, m, e)] \in Nat
      /\ P \in L \cup {NULL}
  BY LinkFacts, HeightFacts DEF Heights, Side
<1>2. /\ Parent(t2, x) = P
      /\ n # p /\ x # n /\ x # p /\ P \notin {n, p, x}
      /\ \A m \in L : Extra(t2, m) = Extra(t, m)
      /\ Child(t2, x, d) = n /\ Child(t2, x, dd) = p
      /\ Child(t2, n, d) = c /\ Child(t2, n, dd) = xd
      /\ Child(t2, p, d) = xe /\ Child(t2, p, dd) = o
      /\ c \notin {n, p, x} /\ xd \notin {n, p, x} /\ xe \notin {n, p, x} /\ o \notin {n, p, x}
      /\ \A m \in L \ {n, p, x} : \A e \in Side :
             /\ Child(t, m, e) \notin {n, x}
             /\ Child(t, m, e) = p => P = m /\ Child(t2, m, e) = x
             /\ Child(t, m, e) # p => Child(t2, m, e) = Child(t, m, e)
  <2> HIDE DEF xd, xe, c, o, P
  <2>1. Links(t, L, r) /\ n = Child(t, p, d) /\ x = Child(t, n, dd) /\ dd = 3 - d /\ 3 - dd = d /\ d # dd
        /\ Rotated(t, t1, L, n, dd, x, Child(t, x, d)) /\ Rotated(t1, t2, L, p, d, x, Child(t1, x, dd))
    OBVIOUS
  <2>2. LiftedTwice(t, t1, t2, L, p, d, dd, n, x)  BY <2>1, TwiceShape, Zenon
  <2> QED BY <2>2 DEF xd, xe, c, o, P, LiftedTwice
<1>3. /\ h[o] \in Nat /\ h[c] \in Nat /\ h[xd] \in Nat /\ h[xe] \in Nat /\ a \in Nat /\ h[x] \in Nat
      /\ {o, c, xd, xe} \subseteq L \cup {NULL}
  BY <1>1
<1>4. Tall(t, h, n) /\ Tall(t, h, x)  BY <1>2
<1>5. Fits(h[n], Tilt(t, n, d), h[c], h[x]) /\ Fits(h[x], Tilt(t, x, d), h[xd], h[xe])
  BY <1>4 DEF Tall
<1>6. a = h[o] + 2  OBVIOUS
<1> HIDE DEF a
<1>7. /\ h[c] = a - 2 /\ h[x] = a - 1 /\ h[o] = a - 2
      /\ Tilt(t, x, d) \in -1 .. 1 /\ Tilt(t, x, d) = h[xd] - h[xe]
      /\ h[x] = 1 + IF h[xd] < h[xe] THEN h[xe] ELSE h[xd]
  BY <1>3, <1>5, <1>6 DEF Fits, a
<1>8. /\ h2 \in [Node -> Nat] /\ h2[NULL] = 0
      /\ h2[p] = a - 1 /\ h2[n] = a - 1 /\ h2[x] = a
      /\ \A m \in L \cup {NULL} : m \notin {p, n, x} => h2[m] = h[m]
  <2>1. a - 1 \in Nat  BY <1>3, <1>6
  <2> QED BY <2>1, <1>1, <1>2, <1>3 DEF Node
<1> HIDE DEF h2
<1>9. h2[c] = a - 2 /\ h2[o] = a - 2 /\ h2[xd] = h[xd] /\ h2[xe] = h[xe]
  BY <1>2, <1>3, <1>7, <1>8
<1>10. /\ \A m \in L : Parent(u, m) = Parent(t2, m) /\ \A e \in Side : Child(u, m, e) = Child(t2, m, e)
       /\ \A m \in L : Extra(u, m) \in Int
       /\ \A m \in L \ {p, n, x} : Extra(u, m) = Extra(t2, m)
  BY <1>1, TypedNodes DEF Recoloured
<1> DEFINE f == Tilt(t, x, d)
<1>11. \/ f = 0 /\ Tilt(u, n, d) = 0 /\ Tilt(u, p, d) = 0 /\ h[xd] = a - 2 /\ h[xe] = a - 2
       \/ f = 1 /\ Tilt(u, n, d) = 0 /\ Tilt(u, p, d) = -1 /\ h[xd] = a - 2 /\ h[xe] = a - 3
       \/ f = -1 /\ Tilt(u, n, d) = 1 /\ Tilt(u, p, d) = 0 /\ h[xd] = a - 3 /\ h[xe] = a - 2
  <2>1. f \in {-1, 0, 1} /\ f = h[xd] - h[xe] /\ a - 1 = 1 + IF h[xd] < h[xe] THEN h[xe] ELSE h[xd]
    BY <1>7
  <2>2. \/ f >= 0 /\ Tilt(u, n, d) = 0 /\ Tilt(u, p, d) = -f
        \/ f < 0 /\ Tilt(u, n, d) = -f /\ Tilt(u, p, d) = 0
    OBVIOUS
  <2> HIDE DEF f, xd, xe
  <2>3. CASE f = -1  BY <2>1, <2>2, <2>3, <1>3
  <2>4. CASE f = 0  BY <2>1, <2>2, <2>4, <1>3
  <2>5. CASE f = 1  BY <2>1, <2>2, <2>5, <1>3
  <2> QED BY <2>1, <2>3, <2>4, <2>5
<1> HIDE DEF f, xd, xe, c, o, P
<1>12. /\ Fits(h2[n], Tilt(u, n, d), h2[c], h2[xd])
       /\ Fits(h2[p], Tilt(u, p, d), h2[xe], h2[o])
  <2>1. CASE f = 0
    <3>1. /\ Tilt(u, n, d) = 0 /\ Tilt(u, p, d) = 0 /\ h2[xd] = a - 2 /\ h2[xe] = a - 2
      BY <2>1, <1>9, <1>11
    <3> QED BY <3>1, <1>3, <1>8, <1>9 DEF Fits
  <2>2. CASE f = 1
    <3>1. /\ Tilt(u, n, d) = 0 /\ Tilt(u, p, d) = -1 /\ h2[xd] = a - 2 /\ h2[xe] = a - 3
      BY <2>2, <1>9, <1>11
    <3> QED BY <3>1, <1>3, <1>8, <1>9 DEF Fits
  <2>3. CASE f = -1
    <3>1. /\ Tilt(u, n, d) = 1 /\ Tilt(u, p, d) = 0 /\ h2[xd] = a - 3 /\ h2[xe] = a - 2
      BY <2>3, <1>3, <1>9, <1>11
    <3> QED BY <3>1, <1>3, <1>8, <1>9 DEF Fits
  <2> QED BY <2>1, <2>2, <2>3, <1>11
<1>13. Fits(h2[x], Tilt(u, x, d), h2[n], h2[p])
  <2>1. Tilt(u, x, d) = 0  OBVIOUS
  <2> QED BY <2>1, <1>3, <1>8 DEF Fits
<1>14. /\ Child(u, n, d) = c /\ Child(u, n, 3 - d) = xd
       /\ Child(u, p, d) = xe /\ Child(u, p, 3 - d) = o
       /\ Child(u, x, d) = n /\ Child(u, x, 3 - d) = p
  BY <1>2, <1>10
<1>15. /\ h2[n] \in Int /\ h2[p] \in Int /\ h2[x] \in Int
       /\ h2[c] \in Int /\ h2[o] \in Int /\ h2[xd] \in Int /\ h2[xe] \in Int
       /\ Extra(u, n) \in Int /\ Extra(u, p) \in Int /\ Extra(u, x) \in Int
  BY <1>3, <1>8, <1>9, <1>10
<1>16. Tall(u, h2, n) /\ Tall(u, h2, p) /\ Tall(u, h2, x)
  <2>1. Tall(u, h2, n)  BY <1>12, <1>14, <1>15, TallOnSide
  <2>2. Tall(u, h2, p)  BY <1>12, <1>14, <1>15, TallOnSide
  <2>3. Tall(u, h2, x)  BY <1>13, <1>14, <1>15, TallOnSide
  <2> QED BY <2>1, <2>2, <2>3
<1>17. ASSUME NEW m \in L \ {p, n, x}, m # P PROVE Tall(u, h2, m)
  <2>1. Tall(t, h, m)  BY <1>17 DEF P
  <2>2. \A e \in Side : Child(u, m, e) = Child(t, m, e) /\ h2[Child(t, m, e)] = h[Child(t, m, e)]
    BY <1>1, <1>2, <1>8, <1>10, <1>17
  <2>3. h2[m] = h[m] /\ Extra(u, m) = Extra(t, m)  BY <1>2, <1>8, <1>10
  <2>4. \A e \in Side : 3 - e \in Side  BY DEF Side
  <2> QED BY <2>1, <2>2, <2>3, <2>4 DEF Tall, Tilt
<1>18. ASSUME P # NULL
       PROVE /\ h2[P] = h[P] /\ Extra(u, P) = Extra(t, P)
             /\ \A e \in Side :
                  /\ Child(t, P, e) = p => Child(u, P, e) = x
                  /\ Child(t, P, e) # p => /\ Child(u, P, e) = Child(t, P, e)
                                           /\ h2[Child(t, P, e)] = h[Child(t, P, e)]
  <2>1. P \in L \ {p, n, x}  BY <1>1, <1>2, <1>18 DEF P
  <2> QED BY <2>1, <1>1, <1>2, <1>8, <1>10
<1>19. Rebuilt(t, u, L, h, h2, p, x)
  <2>1. \A m \in L : m # P => Tall(u, h2, m)  BY <1>16, <1>17
  <2>2. Parent(u, x) = P  BY <1>2, <1>10
  <2> QED BY <2>1, <2>2, <1>8, <1>18 DEF Rebuilt, Heights, P
<1> QED BY <1>19, <1>8 DEF a

(* Two marks in a row,                                                     *)
LEMMA TwoMarks ==
  ASSUME NEW v, TreeType(v), NEW a \in Nodes, NEW b \in Nodes, a # b, NEW i \in Int, NEW j \in Int,
         NEW u, u = Mark(Mark(v, a, i), b, j)
  PROVE /\ Recoloured(v, u)
        /\ Extra(u, a) = i /\ Extra(u, b) = j
        /\ \A m \in Nodes \ {a, b} : Extra(u, m) = Extra(v, m)
<1> DEFINE v1 == Mark(v, a, i)
           v2 == Mark(v1, b, j)
<1>0. u = v2  OBVIOUS
<1>1. a \in Node /\ b \in Node  BY DEF Node
<1>2. GetsExtra(v, v1, a, i)  BY <1>1, Marked, Zenon
<1> HIDE DEF v1
<1>3. GetsExtra(v1, v2, b, j)
  <2>1. TreeType(v1)  BY <1>2 DEF GetsExtra
  <2> QED BY <1>1, <2>1, Marked, Zenon
<1> HIDE DEF v2
<1>4. Recoloured(v, v2) /\ Extra(v2, a) = i /\ Extra(v2, b) = j
      /\ \A m \in Nodes \ {a, b} : Extra(v2, m) = Extra(v, m)
  BY <1>2, <1>3 DEF GetsExtra, Recoloured
<1> QED BY <1>0, <1>4

(* and three.                                                              *)
LEMMA ThreeMarks ==
  ASSUME NEW v, TreeType(v), NEW a \in Nodes, NEW b \in Nodes, NEW c \in Nodes, a # b, a # c, b # c,
         NEW i \in Int, NEW j \in Int, NEW k \in Int, NEW u, u = Mark(Mark(Mark(v, a, i), b, j), c, k)
  PROVE /\ Recoloured(v, u)
        /\ Extra(u, a) = i /\ Extra(u, b) = j /\ Extra(u, c) = k
        /\ \A m \in Nodes \ {a, b, c} : Extra(u, m) = Extra(v, m)
<1> DEFINE v2 == Mark(Mark(v, a, i), b, j)
<1>0. u = Mark(v2, c, k) /\ v2 = Mark(Mark(v, a, i), b, j)  OBVIOUS
<1> HIDE DEF v2
<1>1. /\ Recoloured(v, v2) /\ Extra(v2, a) = i /\ Extra(v2, b) = j
      /\ \A m \in Nodes \ {a, b} : Extra(v2, m) = Extra(v, m)
  BY <1>0, TwoMarks
<1>2. TreeType(v2) /\ c \in Node  BY <1>1 DEF Recoloured, Node
<1>3. GetsExtra(v2, u, c, k)  BY <1>0, <1>2, Marked, Zenon
<1> QED BY <1>1, <1>3 DEF GetsExtra, Recoloured

Unblanced(t, w, L, h, p, n) ==
  /\ n \in L /\ Turned(t, w.tree, L)
  /\ \E r2 : Links(w.tree, L, r2)
  /\ \E h2 : /\ Rebuilt(t, w.tree, L, h, h2, p, w.top)
             /\ w.low => h2[w.top] = h[n]
             /\ ~w.low => h2[w.top] = h[n] + 1
  /\ Extra(t, n) # 0 => w.low

(* handle_unblance_gt and _lt: the subtree of top is balanced and as deep  *)
(* as the deeper child was, or one deeper.                                 *)
LEMMA Unblances ==
  ASSUME NEW t, NEW L, NEW r, Links(t, L, r), NEW h, Heights(h), NEW p \in L, NEW d \in Side,
         NEW n, n = Child(t, p, d),
         \A m \in L : m # p /\ m # Parent(t, p) => Tall(t, h, m),
         h[n] = h[Child(t, p, 3 - d)] + 2,
         NEW w, w = Unblance(t, p, d)
  PROVE Unblanced(t, w, L, h, p, n)
<1> DEFINE dd == 3 - d
           x == Child(t, n, dd)
           o == Child(t, p, dd)
           c == Child(t, n, d)
           f1 == Extra(t, n)
           fx == Extra(t, x)
           s == Sign(d)
           once == Rotate(t, p, d)
           twice == Rotate(Rotate(t, n, dd), p, d)
<1>1. /\ dd \in Side /\ 3 - dd = d /\ d # dd
      /\ \A m \in L : m \in Nodes /\ m # NULL /\ h[m] \in Nat /\ Extra(t, m) \in Int
      /\ \A m \in L : \A e \in Side : Child(t, m, e) \in L \cup {NULL} /\ h[Child(t, m, e)] \in Nat
      /\ h[NULL] = 0
  BY LinkFacts, HeightFacts DEF Side
<1>2. n \in L
  <2>1. h[n] # 0 /\ n \in L \cup {NULL}  BY <1>1
  <2> QED BY <2>1, <1>1
<1>3. n # p /\ Parent(t, n) = p /\ Parent(t, p) # n /\ n # NULL
  BY <1>1, <1>2, LinkFacts
<1>4. Tall(t, h, n)  BY <1>2, <1>3
<1>5. /\ Fits(h[n], Tilt(t, n, d), h[c], h[x]) /\ h[c] \in Nat /\ h[x] \in Nat
      /\ x \in L \cup {NULL}
  BY <1>1, <1>2, <1>4 DEF Tall
<1>6. /\ f1 \in Int /\ s \in Int /\ s * f1 = Tilt(t, n, d)
      /\ s * (f1 - s) = Tilt(t, n, d) - 1 /\ s * (s - f1) = 1 - Tilt(t, n, d)
      /\ f1 = s * (s * f1) /\ s * s = 1
      /\ f1 - s \in Int /\ s - f1 \in Int
  <2>1. f1 \in Int  BY <1>1, <1>2
  <2>2. /\ s \in Int
        /\ s * (f1 - s) = s * f1 - 1 /\ s * (s - f1) = 1 - s * f1
        /\ f1 = s * (s * f1) /\ s * s = 1
    BY <2>1, SignFacts
  <2> QED BY <2>1, <2>2 DEF Tilt
<1>7. Tilt(t, n, d) \in -1 .. 1  BY <1>5 DEF Fits
<1>8. CASE Tilt(t, n, d) >= 0
  <2> DEFINE u == Mark(Mark(once, n, f1 - s), p, s - f1)
  <2>1. w = [tree |-> u, top |-> n, low |-> f1 = s]
    BY <1>6, <1>8 DEF Unblance
  <2>2. Rotated(t, once, L, p, d, Child(t, p, d), Child(t, Child(t, p, d), 3 - d))
    BY <1>3, RotateIs
  <2>3. Rotated(t, once, L, p, d, n, Child(t, n, 3 - d))  BY <2>2
  <2> HIDE DEF once, f1, s
  <2>4. TreeType(once)  BY <2>3 DEF Rotated
  <2>5. /\ Recoloured(once, u) /\ Extra(u, n) = f1 - s /\ Extra(u, p) = s - f1
        /\ \A m \in Nodes \ {n, p} : Extra(u, m) = Extra(once, m)
    BY <2>4, <1>1, <1>2, <1>3, <1>6, TwoMarks
  <2> HIDE DEF u
  <2>6. Tilt(u, n, d) = Tilt(t, n, d) - 1 /\ Tilt(u, p, d) = 1 - Tilt(t, n, d)
    BY <2>5, <1>6 DEF Tilt, s
  <2>7. \A m \in L \ {p, n} : Extra(u, m) = Extra(once, m)  BY <2>5, <1>1
  <2>8. \E h2 : Rebuilt(t, u, L, h, h2, p, n) /\ h2[n] = h[n] + 1 - Tilt(t, n, d)
    BY <1>8, <2>3, <2>5, <2>6, <2>7, UnblanceOnce
  <2>9. \E r2 : Links(once, L, r2)  BY <2>3, <1>3, RotatedLinks
  <2>10. \E r2 : Links(u, L, r2)  BY <2>9, <2>5, RecolouredLinks
  <2>11. PICK h2 : Rebuilt(t, u, L, h, h2, p, n) /\ h2[n] = h[n] + 1 - Tilt(t, n, d)  BY <2>8
  <2>12. h[n] \in Nat  BY <1>1, <1>2
  <2>13. (f1 = s => Tilt(t, n, d) = 1) /\ (f1 # s => Tilt(t, n, d) # 1)
    <3>1. Tilt(t, n, d) = 1 => f1 = s  BY <1>6
    <3>2. f1 = s => Tilt(t, n, d) = 1  BY <1>6
    <3> QED BY <3>1, <3>2
  <2>14. (f1 = s => h2[n] = h[n]) /\ (f1 # s => h2[n] = h[n] + 1)
    <3>1. Tilt(t, n, d) = 1 => h2[n] = h[n]  BY <2>11, <2>12
    <3>2. Tilt(t, n, d) = 0 => h2[n] = h[n] + 1  BY <2>11, <2>12
    <3>3. Tilt(t, n, d) = 0 \/ Tilt(t, n, d) = 1  BY <1>7, <1>8
    <3> QED BY <3>1, <3>2, <3>3, <2>13
  <2>15. f1 # 0 => f1 = s
    <3>1. Tilt(t, n, d) = 0 \/ Tilt(t, n, d) = 1  BY <1>7, <1>8
    <3>2. Tilt(t, n, d) = 0 => f1 = 0  BY <1>6
    <3> QED BY <3>1, <3>2, <1>6
  <2>16. w.tree = u /\ w.top = n /\ w.low = (f1 = s)  BY <2>1
  <2>17. Turned(t, u, L)
    <3>1. Turned(once, u, L)  BY <2>5, RecolouredTurned
    <3>2. Turned(t, once, L)  BY <2>3, <1>3, RotatedTurned
    <3> QED BY <3>1, <3>2, TurnedTwice
  <2> QED BY <2>17, <2>10, <2>11, <2>14, <2>15, <2>16, <1>2 DEF f1, Unblanced
<1>9. CASE Tilt(t, n, d) = -1
  <2>1. h[x] = h[c] + 1 /\ h[x] # 0  BY <1>5, <1>9 DEF Fits
  <2>2. x \in L /\ x # NULL  BY <2>1, <1>1, <1>5
  <2>3. fx \in Int /\ s * fx = Tilt(t, x, d) /\ s * (-fx) = -Tilt(t, x, d) /\ s * 0 = 0 /\ -fx \in Int
    <3>1. fx \in Int  BY <2>2, <1>1
    <3>2. s * (-fx) = -(s * fx)  BY <3>1, SignFacts
    <3> QED BY <3>1, <3>2, <1>6 DEF Tilt
  <2> DEFINE t1 == Rotate(t, n, dd)
  <2>4. Rotated(t, t1, L, n, dd, Child(t, n, dd), Child(t, Child(t, n, dd), 3 - dd))
    <3> HIDE DEF dd
    <3> QED BY <1>1, <1>2, <2>2, RotateIs DEF x
  <2>5. Rotated(t, t1, L, n, dd, x, Child(t, x, d)) /\ Rotated(t, t1, L, n, dd, x, Child(t, x, 3 - dd))
        /\ x = Child(t, n, dd)
    BY <2>4, <1>1
  <2> HIDE DEF t1
  <2>6. PICK r1 : Links(t1, L, r1)
    <3> HIDE DEF dd, x
    <3> QED BY <2>5, <2>2, <1>1, <1>2, RotatedLinks
  <2>7. Child(t1, p, d) = x
    <3>0. Parent(t, x) = n  BY <2>2, <1>1, <1>2, LinkFacts
    <3>1. p # x  BY <3>0, <1>3
    <3>2. p \in L \ {n, x} /\ Child(t, p, d) = n  BY <3>1, <1>3
    <3> QED BY <3>2, <2>5 DEF Rotated
  <2> DEFINE t2 == Rotate(t1, p, d)
  <2>8. Rotated(t1, t2, L, p, d, Child(t1, p, d), Child(t1, Child(t1, p, d), 3 - d))
    BY <2>6, <2>7, <2>2, RotateIs
  <2>9. Rotated(t1, t2, L, p, d, x, Child(t1, x, dd))  BY <2>7, <2>8
  <2>0. t2 = twice  BY DEF t1
  <2> HIDE DEF t2
  <2>10. dd = 3 - d  OBVIOUS
  <2> HIDE DEF dd, x
  <2>11. LiftedTwice(t, t1, t2, L, p, d, dd, n, x)
    BY <1>1, <1>2, <2>2, <2>5, <2>9, <2>10, TwiceShape
  <2>12. (\E r2 : Links(t2, L, r2)) /\ x # n /\ x # p  BY <2>11 DEF LiftedTwice
  <2>13. TreeType(t2)  BY <2>12 DEF Links
  <2> DEFINE u == IF s * fx >= 0
                  THEN Mark(Mark(Mark(t2, n, 0), p, -fx), x, 0)
                  ELSE Mark(Mark(Mark(t2, n, -fx), p, 0), x, 0)
  <2>14. w = [tree |-> u, top |-> x, low |-> TRUE]
    BY <1>6, <1>9, <2>0 DEF Unblance, x, dd
  <2> HIDE DEF fx, s
  <2>15. /\ Recoloured(t2, u) /\ \A m \in L \ {p, n, x} : Extra(u, m) = Extra(t2, m)
         /\ Tilt(u, x, d) = 0
         /\ \/ Tilt(t, x, d) >= 0 /\ Tilt(u, n, d) = 0 /\ Tilt(u, p, d) = -Tilt(t, x, d)
            \/ Tilt(t, x, d) < 0 /\ Tilt(u, n, d) = -Tilt(t, x, d) /\ Tilt(u, p, d) = 0
    <3>0. p \in Nodes /\ n \in Nodes /\ x \in Nodes /\ L \subseteq Nodes  BY <1>1, <1>2, <2>2
    <3>1. CASE s * fx >= 0
      <4>1. u = Mark(Mark(Mark(t2, n, 0), p, -fx), x, 0)  BY <3>1
      <4> HIDE DEF u
      <4> DEFINE z == 0
                 k == -fx
      <4>2. z \in Int /\ k \in Int /\ u = Mark(Mark(Mark(t2, n, z), p, k), x, z)  BY <4>1, <2>3
      <4> HIDE DEF z, k
      <4>3. /\ Recoloured(t2, u) /\ Extra(u, n) = z /\ Extra(u, p) = k /\ Extra(u, x) = z
            /\ \A m \in Nodes \ {n, p, x} : Extra(u, m) = Extra(t2, m)
        BY <4>2, <3>0, <2>12, <2>13, <1>3, ThreeMarks
      <4> QED BY <4>3, <3>0, <3>1, <2>3 DEF Tilt, s, z, k
    <3>2. CASE ~(s * fx >= 0)
      <4>1. u = Mark(Mark(Mark(t2, n, -fx), p, 0), x, 0)  BY <3>2
      <4> HIDE DEF u
      <4> DEFINE z == 0
                 k == -fx
      <4>2. z \in Int /\ k \in Int /\ u = Mark(Mark(Mark(t2, n, k), p, z), x, z)  BY <4>1, <2>3
      <4> HIDE DEF z, k
      <4>3. /\ Recoloured(t2, u) /\ Extra(u, n) = k /\ Extra(u, p) = z /\ Extra(u, x) = z
            /\ \A m \in Nodes \ {n, p, x} : Extra(u, m) = Extra(t2, m)
        BY <4>2, <3>0, <2>12, <2>13, <1>3, ThreeMarks
      <4>4. Tilt(t, x, d) < 0
        <5>1. Tilt(t, x, d) \in Int  BY <2>3, <1>6
        <5> QED BY <5>1, <3>2, <2>3
      <4> QED BY <4>3, <4>4, <3>0, <2>3 DEF Tilt, s, z, k
    <3> QED BY <3>1, <3>2
  <2> HIDE DEF u
  <2>16. \E h2 : Rebuilt(t, u, L, h, h2, p, x) /\ h2[x] = h[n]
    <3>1. h[n] = h[Child(t, p, dd)] + 2  BY DEF dd
    <3>2. dd \in Side /\ 3 - dd = d /\ d # dd  BY <1>1
    <3> QED BY <3>2, <1>2, <1>9, <2>2, <2>5, <2>9, <2>10, <2>15, <3>1, UnblanceTwice
  <2>17. \E r2 : Links(u, L, r2)  BY <2>12, <2>15, RecolouredLinks
  <2>18. w.tree = u /\ w.top = x /\ w.low = TRUE  BY <2>14
  <2>19. Turned(t, u, L)
    <3>1. Turned(t2, u, L)  BY <2>15, RecolouredTurned
    <3>2. Turned(t, t2, L)  BY <2>11 DEF LiftedTwice
    <3> QED BY <3>1, <3>2, TurnedTwice
  <2> QED BY <2>19, <2>16, <2>17, <2>18, <1>2 DEF Unblanced
<1>10. Tilt(t, n, d) >= 0 \/ Tilt(t, n, d) = -1  BY <1>7
<1> QED BY <1>8, <1>9, <1>10

(* A node that has a parent hangs on one side of it.                       *)
LEMMA SideFacts ==
  ASSUME NEW t, NEW L, NEW r, Links(t, L, r), NEW n \in L, NEW p, p = Parent(t, n), p # NULL
  PROVE /\ p \in L /\ SideOf(t, p, n) \in Side /\ Child(t, p, SideOf(t, p, n)) = n
        /\ \A e \in Side : Child(t, p, e) = n => e = SideOf(t, p, n)
<1>1. p \in L /\ n # NULL /\ \E e \in Side : Child(t, p, e) = n  BY LinkFacts
<1>2. \A e \in Side : Child(t, p, e) # NULL => Child(t, p, 3 - e) # Child(t, p, e)  BY <1>1, LinkFacts
<1>3. PICK f \in Side : Child(t, p, f) = n  BY <1>1
<1>4. CASE f = 1
  <2>1. Child(t, p, 2) # n  BY <1>1, <1>2, <1>3, <1>4
  <2> QED BY <2>1, <1>1, <1>3, <1>4 DEF SideOf, Side
<1>5. CASE f = 2
  <2>1. Child(t, p, 1) # n  BY <1>1, <1>2, <1>3, <1>5
  <2> QED BY <2>1, <1>1, <1>3, <1>5 DEF SideOf, Side
<1> QED BY <1>4, <1>5 DEF Side

(* After handle_unblance the whole tree is balanced, if its subtree is as  *)
(* deep as before or is all of it;                                         *)
LEMMA RebuiltWhole ==
  ASSUME NEW t, NEW L, NEW u, NEW h, NEW h2, NEW p, NEW top, Rebuilt(t, u, L, h, h2, p, top),
         \/ Parent(t, p) = NULL /\ NULL \notin L
         \/ Parent(t, p) # NULL /\ Tall(t, h, Parent(t, p)) /\ h2[top] = h[p]
  PROVE AvlWhole(u, L, h2)
<1> DEFINE P == Parent(t, p)
<1>1. Heights(h2) /\ \A m \in L : m # P => Tall(u, h2, m)  BY DEF Rebuilt
<1>2. CASE P = NULL /\ NULL \notin L  BY <1>1, <1>2 DEF AvlWhole
<1>3. CASE P # NULL /\ Tall(t, h, P) /\ h2[top] = h[p]
  <2>1. /\ h2[P] = h[P] /\ Extra(u, P) = Extra(t, P)
        /\ \A e \in Side :
             /\ Child(t, P, e) = p => Child(u, P, e) = top
             /\ Child(t, P, e) # p => Child(u, P, e) = Child(t, P, e) /\ h2[Child(t, P, e)] = h[Child(t, P, e)]
    BY <1>3 DEF Rebuilt
  <2>2. \A e \in Side : h2[Child(u, P, e)] = h[Child(t, P, e)]  BY <2>1, <1>3
  <2>3. \A e \in Side : 3 - e \in Side  BY DEF Side
  <2> HIDE DEF P
  <2>4. Tall(u, h2, P)  BY <2>1, <2>2, <2>3, <1>3 DEF Tall, Tilt
  <2> QED BY <2>4, <1>1 DEF AvlWhole
<1> QED BY <1>2, <1>3

(* and if it is less deep, the parent is to be looked at next.             *)
LEMMA RebuiltShrunk ==
  ASSUME NEW t, NEW L, NEW r, Links(t, L, r), NEW u, NEW r2, Links(u, L, r2),
         NEW h, Heights(h), NEW h2, NEW p \in L, NEW top,
         Rebuilt(t, u, L, h, h2, p, top), NEW P, P = Parent(t, p), P # NULL, Tall(t, h, P),
         h2[top] = h[p] - 1
  PROVE /\ Parent(u, top) = P /\ P \in L
        /\ AvlShrunk(u, L, h2, P, SideOf(u, P, top))
<1> DEFINE d == SideOf(u, P, top)
           dd == 3 - d
<1>1. /\ Heights(h2) /\ top \in L /\ Parent(u, top) = P
      /\ \A m \in L : m # P => Tall(u, h2, m)
      /\ h2[P] = h[P] /\ Extra(u, P) = Extra(t, P)
      /\ \A e \in Side :
           /\ Child(t, P, e) = p => Child(u, P, e) = top
           /\ Child(t, P, e) # p => Child(u, P, e) = Child(t, P, e) /\ h2[Child(t, P, e)] = h[Child(t, P, e)]
  BY DEF Rebuilt
<1>2. P \in L /\ \E e \in Side : Child(t, P, e) = p  BY LinkFacts
<1>3. d \in Side /\ Child(u, P, d) = top /\ \A e \in Side : Child(u, P, e) = top => e = d
  BY <1>1, SideFacts
<1> HIDE DEF d
<1>4. dd \in Side /\ dd # d /\ 3 - dd = d  BY <1>3 DEF Side
<1>5. Child(t, P, d) = p  BY <1>1, <1>2, <1>3
<1>6. Child(t, P, dd) # p
  <2>1. p # NULL  BY LinkFacts
  <2> QED BY <2>1, <1>2, <1>3, <1>5, LinkFacts
<1>7. Child(u, P, dd) = Child(t, P, dd) /\ h2[Child(t, P, dd)] = h[Child(t, P, dd)]
  BY <1>1, <1>4, <1>6
<1>8. Fits(h[P], Tilt(t, P, d), h[p], h[Child(t, P, dd)])  BY <1>3, <1>5 DEF Tall
<1>9. Tilt(t, P, d) = Tilt(u, P, d)  BY <1>1 DEF Tilt
<1>10. h[p] \in Nat /\ h2[top] + 1 = h[p]
  <2>1. h[p] \in Nat  BY HeightFacts
  <2> QED BY <2>1
<1>11. Fits(h2[P], Tilt(u, P, d), h2[top] + 1, h2[Child(u, P, dd)])  BY <1>1, <1>7, <1>8, <1>9, <1>10
<1>12. AvlShrunk(u, L, h2, P, d)  BY <1>1, <1>2, <1>3, <1>11 DEF AvlShrunk
<1> QED BY <1>1, <1>2, <1>12 DEF d

(* A mark at p.                                                            *)
LEMMA MarkedLinks ==
  ASSUME NEW t, NEW L, NEW r, Links(t, L, r), NEW p \in L, NEW i \in Int, NEW u, u = Mark(t, p, i)
  PROVE /\ Recoloured(t, u) /\ Links(u, L, r) /\ Extra(u, p) = i
        /\ \A m \in L \ {p} : Extra(u, m) = Extra(t, m)
        /\ \A m \in L : Parent(u, m) = Parent(t, m) /\ \A e \in Side : Child(u, m, e) = Child(t, m, e)
<1>1. TreeType(t) /\ p \in Node /\ \A m \in L : m \in Nodes  BY LinkFacts
<1>2. GetsExtra(t, u, p, i)  BY <1>1, Marked
<1>3. Recoloured(t, u) /\ Extra(u, p) = i /\ \A m \in L \ {p} : Extra(u, m) = Extra(t, m)
  BY <1>1, <1>2 DEF GetsExtra, Recoloured
<1> QED BY <1>1, <1>3, RecolouredLinks DEF Recoloured

(* A factor stays right where neither it nor a depth below changes.        *)
LEMMA TallElsewhere ==
  ASSUME NEW t, NEW u, NEW h, NEW h2, NEW m, Tall(t, h, m),
         Extra(u, m) = Extra(t, m), h2[m] = h[m],
         \A e \in Side : Child(u, m, e) = Child(t, m, e) /\ h2[Child(t, m, e)] = h[Child(t, m, e)]
  PROVE Tall(u, h2, m)
<1>1. \A e \in Side : 3 - e \in Side  BY DEF Side
<1> QED BY <1>1 DEF Tall, Tilt

(* The subtree of n became deeper and p evens it out.                      *)
LEMMA GrowLevels ==
  ASSUME NEW t, NEW L, NEW r, Links(t, L, r), NEW h, NEW n, AvlGrowing(t, L, h, n),
         NEW p, p = Parent(t, n), p # NULL, NEW d, d = SideOf(t, p, n),
         Extra(t, p) + Sign(d) = 0, NEW u, u = Mark(t, p, 0)
  PROVE Links(u, L, r) /\ AvlWhole(u, L, h)
<1> DEFINE dd == 3 - d
           o == Child(t, p, dd)
<1>0. Heights(h) /\ n \in L  BY DEF AvlGrowing
<1>1. p \in L /\ d \in Side /\ Child(t, p, d) = n  BY <1>0, SideFacts
<1>2. dd \in Side  BY <1>1 DEF Side
<1>3. h[n] \in Nat /\ h[o] \in Nat /\ h[p] \in Nat /\ Extra(t, p) \in Int
  BY <1>0, <1>1, <1>2, LinkFacts, HeightFacts
<1>4. Fits(h[p], Tilt(t, p, d), h[n] - 1, h[o])  BY <1>1 DEF AvlGrowing
<1>5. Tilt(t, p, d) = -1
  <2>1. Sign(d) * (Extra(t, p) + Sign(d)) = Sign(d) * Extra(t, p) + 1 /\ Sign(d) \in Int /\ Sign(d) * Extra(t, p) \in Int
    BY <1>1, <1>3, SignFacts
  <2>2. Sign(d) * 0 = 0  BY <2>1
  <2> DEFINE k == Sign(d) * Extra(t, p)
  <2>3. k \in Int /\ k + 1 = 0  BY <2>1, <2>2
  <2> HIDE DEF k
  <2>4. k = -1  BY <2>3
  <2> QED BY <2>4 DEF Tilt, k
<1>6. /\ Links(u, L, r) /\ Extra(u, p) = 0
      /\ \A m \in L \ {p} : Extra(u, m) = Extra(t, m)
      /\ \A m \in L : \A e \in Side : Child(u, m, e) = Child(t, m, e)
  BY <1>1, MarkedLinks
<1>7. Tilt(u, p, d) = 0
  <2>1. Sign(d) \in Int  BY <1>1, <1>3, SignFacts
  <2> QED BY <2>1, <1>6 DEF Tilt
<1> HIDE DEF dd, o
<1>8. Fits(h[p], 0, h[n], h[o])
  <2>1. -1 = (h[n] - 1) - h[o] /\ h[p] = 1 + IF h[n] - 1 < h[o] THEN h[o] ELSE h[n] - 1
    BY <1>4, <1>5 DEF Fits
  <2>2. h[n] = h[o]  BY <2>1, <1>3
  <2> QED BY <2>1, <2>2, <1>3 DEF Fits
<1>9. Tall(u, h, p)
  <2>1. Child(u, p, d) = n /\ Child(u, p, 3 - d) = o  BY <1>1, <1>2, <1>6 DEF o, dd
  <2> QED BY <2>1, <1>1, <1>3, <1>6, <1>7, <1>8, TallOnSide
<1>10. \A m \in L \ {p} : Tall(u, h, m)
  <2>1. \A m \in L \ {p} : Tall(t, h, m)  BY DEF AvlGrowing
  <2> QED BY <2>1, <1>6, TallElsewhere
<1> QED BY <1>0, <1>6, <1>9, <1>10 DEF AvlWhole

(* ... or p tilts, and its own subtree became deeper.                      *)
LEMMA GrowTilts ==
  ASSUME NEW t, NEW L, NEW r, Links(t, L, r), NEW h, NEW n, AvlGrowing(t, L, h, n),
         NEW p, p = Parent(t, n), p # NULL, NEW d, d = SideOf(t, p, n),
         NEW i, i = Extra(t, p) + Sign(d), i = Sign(d), NEW u, u = Mark(t, p, i)
  PROVE Links(u, L, r) /\ \E h2 : AvlGrowing(u, L, h2, p)
<1> DEFINE dd == 3 - d
           o == Child(t, p, dd)
           P == Parent(t, p)
           h2 == [m \in Node |-> IF m = p THEN h[p] + 1 ELSE h[m]]
<1>0. Heights(h) /\ n \in L  BY DEF AvlGrowing
<1>1. p \in L /\ d \in Side /\ Child(t, p, d) = n  BY <1>0, SideFacts
<1>2. dd \in Side /\ 3 - dd = d /\ \A e \in Side : e = d \/ e = dd  BY <1>1 DEF Side
<1>3. /\ h[n] \in Nat /\ h[o] \in Nat /\ h[p] \in Nat /\ Extra(t, p) \in Int /\ Sign(d) \in Int
      /\ p \in Node /\ p # NULL /\ P # p /\ n # p /\ o # p
      /\ P \in L \cup {NULL}
  <2>1. Sign(d) \in Int  BY <1>1 DEF Sign
  <2>2. n # p /\ P # p /\ P \in L \cup {NULL} /\ p \in Node  BY <1>0, <1>1, LinkFacts
  <2>3. o # p  BY <1>1, <1>2, LinkFacts
  <2> QED BY <2>1, <2>2, <2>3, <1>0, <1>1, <1>2, LinkFacts, HeightFacts
<1>4. Fits(h[p], Tilt(t, p, d), h[n] - 1, h[o])  BY <1>1 DEF AvlGrowing
<1>5. Tilt(t, p, d) = 0
  <2>1. Extra(t, p) = 0  BY <1>3
  <2> QED BY <2>1, <1>3 DEF Tilt
<1>6. /\ Links(u, L, r) /\ Extra(u, p) = i
      /\ \A m \in L \ {p} : Extra(u, m) = Extra(t, m)
      /\ \A m \in L : Parent(u, m) = Parent(t, m) /\ \A e \in Side : Child(u, m, e) = Child(t, m, e)
  <2>1. i \in Int  BY <1>3
  <2> QED BY <2>1, <1>1, MarkedLinks
<1>7. Tilt(u, p, d) = 1 /\ Extra(u, p) # 0 /\ Extra(u, p) \in Int
  BY <1>1, <1>3, <1>6 DEF Tilt, Sign, Side
<1>a. \A m \in L : m \in Node /\ \A e \in Side : Child(t, m, e) \in Node /\ h[Child(t, m, e)] \in Nat /\ h[m] \in Nat
                   /\ (Child(t, m, e) = p => P = m)
  BY <1>0, <1>3, LinkFacts, HeightFacts
<1>8. /\ Heights(h2) /\ h2[p] = h[p] + 1
      /\ \A m \in Node : m # p => h2[m] = h[m]
  <2>1. h[p] + 1 \in Nat /\ h \in [Node -> Nat] /\ h[NULL] = 0 /\ NULL \in Node
    BY <1>0, <1>3 DEF Heights, Node
  <2> QED BY <2>1, <1>3 DEF Heights
<1>b. h2[n] = h[n] /\ h2[o] = h[o]
  <2>1. n \in Node /\ o \in Node  BY <1>0, <1>1, <1>2, <1>a
  <2> QED BY <2>1, <1>3, <1>8
<1> HIDE DEF dd, o, h2
<1>9. Fits(h2[p], 1, h2[n], h2[o])
  <2>1. 0 = (h[n] - 1) - h[o] /\ h[p] = 1 + IF h[n] - 1 < h[o] THEN h[o] ELSE h[n] - 1
    BY <1>4, <1>5 DEF Fits
  <2>2. h[n] = h[o] + 1 /\ h[p] = h[n]  BY <2>1, <1>3
  <2> QED BY <2>2, <1>3, <1>8, <1>b DEF Fits
<1>10. Tall(u, h2, p)
  <2>1. Child(u, p, d) = n /\ Child(u, p, 3 - d) = o  BY <1>1, <1>2, <1>6 DEF o, dd
  <2>2. h2[p] \in Int /\ h2[n] \in Int /\ h2[o] \in Int  BY <1>3, <1>8, <1>b
  <2> QED BY <2>1, <2>2, <1>1, <1>7, <1>9, TallOnSide
<1>11. \A m \in L : m # p => Tall(t, h, m)  BY DEF AvlGrowing
<1>12. ASSUME NEW m \in L, m # p, m # P PROVE Tall(u, h2, m)
  <2>1. \A e \in Side : Child(u, m, e) = Child(t, m, e) /\ h2[Child(t, m, e)] = h[Child(t, m, e)]
    BY <1>6, <1>8, <1>12, <1>a
  <2>2. Extra(u, m) = Extra(t, m) /\ h2[m] = h[m]  BY <1>6, <1>8, <1>12, <1>a
  <2>3. Tall(t, h, m)  BY <1>11, <1>12
  <2> QED BY <2>1, <2>2, <2>3, TallElsewhere
<1>13. ASSUME P # NULL, NEW e \in Side, Child(u, P, e) = p
       PROVE Fits(h2[P], Tilt(u, P, e), h2[p] - 1, h2[Child(u, P, 3 - e)])
  <2> DEFINE z == Child(t, P, 3 - e)
  <2>1. P \in L /\ 3 - e \in Side  BY <1>3, <1>13 DEF Side
  <2>2. Child(t, P, e) = p /\ Child(u, P, 3 - e) = z  BY <2>1, <1>6, <1>13
  <2>3. z # p  BY <2>1, <2>2, <1>3, LinkFacts
  <2>4. h2[z] = h[z] /\ h2[P] = h[P] /\ Extra(u, P) = Extra(t, P)
    BY <2>1, <2>3, <1>3, <1>6, <1>8, <1>a
  <2>5. Fits(h[P], Tilt(t, P, e), h[p], h[z])  BY <2>1, <2>2, <1>3, <1>11 DEF Tall
  <2>6. h2[p] - 1 = h[p]  BY <1>3, <1>8
  <2> QED BY <2>2, <2>4, <2>5, <2>6 DEF Tilt
<1>14. Parent(u, p) = P  BY <1>1, <1>6
<1> HIDE DEF P
<1>15. AvlGrowing(u, L, h2, p)
  <2>1. \A m \in L : m # P => Tall(u, h2, m)  BY <1>10, <1>12
  <2> QED BY <2>1, <1>1, <1>7, <1>8, <1>13, <1>14 DEF AvlGrowing
<1> QED BY <1>6, <1>15

(* ... or p is rebuilt.                                                    *)
LEMMA GrowRebuilds ==
  ASSUME NEW t, NEW L, NEW r, Links(t, L, r), NEW h, NEW n, AvlGrowing(t, L, h, n),
         NEW p, p = Parent(t, n), p # NULL, NEW d, d = SideOf(t, p, n),
         NEW i, i = Extra(t, p) + Sign(d), i = 2 * Sign(d), NEW w, w = Unblance(Mark(t, p, i), p, d)
  PROVE (\E r2 : Links(w.tree, L, r2)) /\ Turned(t, w.tree, L) /\ \E h2 : AvlWhole(w.tree, L, h2)
<1> DEFINE dd == 3 - d
           o == Child(t, p, dd)
           P == Parent(t, p)
           u == Mark(t, p, i)
<1>0. Heights(h) /\ n \in L  BY DEF AvlGrowing
<1>1. p \in L /\ d \in Side /\ Child(t, p, d) = n  BY <1>0, SideFacts
<1>2. dd \in Side /\ 3 - dd = d  BY <1>1 DEF Side
<1>3. /\ h[n] \in Nat /\ h[o] \in Nat /\ h[p] \in Nat /\ Extra(t, p) \in Int /\ Sign(d) \in Int
      /\ P # p /\ n # p
      /\ P \in L \cup {NULL} /\ NULL \notin L
  <2>1. Sign(d) \in Int  BY <1>1 DEF Sign
  <2>2. n # p /\ P # p /\ P \in L \cup {NULL} /\ NULL \notin L  BY <1>0, <1>1, LinkFacts
  <2> QED BY <2>1, <2>2, <1>0, <1>1, <1>2, LinkFacts, HeightFacts
<1>4. Fits(h[p], Tilt(t, p, d), h[n] - 1, h[o])  BY <1>1 DEF AvlGrowing
<1>5. Tilt(t, p, d) = 1
  <2>1. Extra(t, p) = Sign(d)  BY <1>3
  <2> QED BY <2>1, <1>1 DEF Tilt, Sign, Side
<1> HIDE DEF dd, o
<1>6. h[n] = h[o] + 2 /\ h[p] = h[n]
  <2>1. 1 = (h[n] - 1) - h[o] /\ h[p] = 1 + IF h[n] - 1 < h[o] THEN h[o] ELSE h[n] - 1
    BY <1>4, <1>5 DEF Fits
  <2> QED BY <2>1, <1>3
<1>7. Extra(t, n) # 0
  <2>1. h[n] # 1  BY <1>3, <1>6
  <2> QED BY <2>1 DEF AvlGrowing
<1>u. i \in Int /\ u = Mark(t, p, i) /\ w = Unblance(u, p, d)  BY <1>3
<1> HIDE DEF u, P
<1>8. /\ Links(u, L, r) /\ Recoloured(t, u)
      /\ \A m \in L \ {p} : Extra(u, m) = Extra(t, m)
      /\ \A m \in L : Parent(u, m) = Parent(t, m) /\ \A e \in Side : Child(u, m, e) = Child(t, m, e)
  BY <1>1, <1>u, MarkedLinks
<1>9. \A m \in L : m # p => Tall(t, h, m)  BY DEF AvlGrowing
<1>10. \A m \in L : m # p => Tall(u, h, m)  BY <1>8, <1>9, TallElsewhere
<1>11. n = Child(u, p, d) /\ h[n] = h[Child(u, p, 3 - d)] + 2 /\ Parent(u, p) = P /\ Extra(u, n) # 0
  BY <1>0, <1>1, <1>2, <1>3, <1>6, <1>7, <1>8 DEF o, dd, P
<1>12. Unblanced(u, w, L, h, p, n)
  <2>1. \A m \in L : m # p /\ m # Parent(u, p) => Tall(u, h, m)  BY <1>10
  <2> QED BY <2>1, <1>0, <1>1, <1>8, <1>11, <1>u, Unblances
<1>16. /\ \E r2 : Links(w.tree, L, r2)
       /\ Turned(u, w.tree, L)
       /\ \E h2 : /\ Rebuilt(u, w.tree, L, h, h2, p, w.top)
                  /\ w.low => h2[w.top] = h[n]
                  /\ ~w.low => h2[w.top] = h[n] + 1
       /\ Extra(u, n) # 0 => w.low
  BY <1>12 DEF Unblanced
<1>13. PICK h2 : Rebuilt(u, w.tree, L, h, h2, p, w.top) /\ h2[w.top] = h[p]
  BY <1>6, <1>11, <1>16
<1>14. \/ Parent(u, p) = NULL /\ NULL \notin L
       \/ Parent(u, p) # NULL /\ Tall(u, h, Parent(u, p)) /\ h2[w.top] = h[p]
  BY <1>3, <1>10, <1>11, <1>13 DEF P
<1>15. AvlWhole(w.tree, L, h2)  BY <1>13, <1>14, RebuiltWhole
<1>17. Turned(t, w.tree, L)
  <2>1. Turned(t, u, L)  BY <1>8, RecolouredTurned
  <2> QED BY <2>1, <1>16, TurnedTwice
<1> QED BY <1>16, <1>15, <1>17

(* The subtree of top became one less deep.                                *)
Passed(u, L, top) ==
  /\ Parent(u, top) = NULL => \E h2 : AvlWhole(u, L, h2)
  /\ Parent(u, top) # NULL =>
       \E h2 : AvlShrunk(u, L, h2, Parent(u, top), SideOf(u, Parent(u, top), top))

(* handle_unblance, then blance_parent: the next node to be looked at, or  *)
(* none.                                                                   *)
LEMMA RebuiltPasses ==
  ASSUME NEW t, NEW L, NEW r, Links(t, L, r), NEW u, NEW r2, Links(u, L, r2),
         NEW h, Heights(h), NEW h2, NEW p \in L, NEW top,
         Rebuilt(t, u, L, h, h2, p, top), Parent(t, p) # NULL => Tall(t, h, Parent(t, p)),
         h2[top] = h[p] - 1
  PROVE Passed(u, L, top)
<1>1. Parent(u, top) = Parent(t, p) /\ NULL \notin L
  <2>1. NULL \notin L  BY LinkFacts
  <2> QED BY <2>1 DEF Rebuilt
<1>2. CASE Parent(t, p) = NULL
  <2>1. AvlWhole(u, L, h2)
    <3>1. Parent(t, p) = NULL /\ NULL \notin L  BY <1>1, <1>2
    <3> QED BY <3>1, RebuiltWhole
  <2> QED BY <2>1, <1>1, <1>2 DEF Passed
<1>3. CASE Parent(t, p) # NULL
  <2> DEFINE P == Parent(t, p)
  <2>1. P = Parent(t, p) /\ P # NULL /\ Tall(t, h, P)  BY <1>3
  <2> HIDE DEF P
  <2>2. Parent(u, top) = P /\ P \in L /\ AvlShrunk(u, L, h2, P, SideOf(u, P, top))
    BY <2>1, RebuiltShrunk
  <2> QED BY <2>1, <2>2, <1>1 DEF Passed
<1> QED BY <1>2, <1>3

(* The depths at the node whose child d became less deep: its factor is    *)
(* one or zero and tells the depth of the other child.                     *)
LEMMA ShrunkFacts ==
  ASSUME NEW t, NEW L, NEW r, Links(t, L, r), NEW h, NEW n, NEW d, AvlShrunk(t, L, h, n, d),
         NEW dd, dd = 3 - d
  PROVE /\ Heights(h) /\ n \in L /\ d \in Side /\ dd \in Side /\ 3 - dd = d /\ d # dd
        /\ \A m \in L : m # n => Tall(t, h, m)
        /\ h[n] \in Nat /\ h[Child(t, n, d)] \in Nat /\ h[Child(t, n, dd)] \in Nat
        /\ Extra(t, n) \in Int /\ Sign(d) \in Int /\ NULL \notin L
        /\ \/ Extra(t, n) = Sign(d) /\ h[Child(t, n, d)] = h[Child(t, n, dd)] /\ h[n] = h[Child(t, n, d)] + 2
           \/ Extra(t, n) = 0 /\ h[Child(t, n, dd)] = h[Child(t, n, d)] + 1 /\ h[n] = h[Child(t, n, d)] + 2
           \/ Extra(t, n) = -Sign(d) /\ h[Child(t, n, dd)] = h[Child(t, n, d)] + 2 /\ h[n] = h[Child(t, n, d)] + 3
<1> DEFINE a == h[Child(t, n, d)]
           b == h[Child(t, n, dd)]
           f == Tilt(t, n, d)
<1>1. /\ Heights(h) /\ n \in L /\ d \in Side
      /\ \A m \in L : m # n => Tall(t, h, m)
      /\ Fits(h[n], f, a + 1, b)
  BY DEF AvlShrunk
<1>2. dd \in Side /\ 3 - dd = d /\ d # dd  BY <1>1 DEF Side
<1>3. h[n] \in Nat /\ a \in Nat /\ b \in Nat /\ Extra(t, n) \in Int /\ NULL \notin L
  BY <1>1, <1>2, LinkFacts, HeightFacts
<1>4. Sign(d) \in Int  BY <1>1 DEF Sign
<1>5. Extra(t, n) = Sign(d) * f  BY <1>1, <1>3, SignFacts DEF Tilt
<1> HIDE DEF a, b, f
<1>6. f \in -1 .. 1 /\ f = a + 1 - b /\ h[n] = 1 + IF a + 1 < b THEN b ELSE a + 1
  BY <1>1, <1>3 DEF Fits
<1>7. CASE f = 1
  <2>1. a = b /\ h[n] = a + 2  BY <1>3, <1>6, <1>7
  <2>2. Extra(t, n) = Sign(d)  BY <1>4, <1>5, <1>7
  <2> QED BY <2>1, <2>2, <1>1, <1>2, <1>3, <1>4 DEF a, b
<1>8. CASE f = 0
  <2>1. b = a + 1 /\ h[n] = a + 2  BY <1>3, <1>6, <1>8
  <2>2. Extra(t, n) = 0  BY <1>4, <1>5, <1>8
  <2> QED BY <2>1, <2>2, <1>1, <1>2, <1>3, <1>4 DEF a, b
<1>9. CASE f = -1
  <2>1. b = a + 2 /\ h[n] = a + 3  BY <1>3, <1>6, <1>9
  <2>2. Extra(t, n) = -Sign(d)  BY <1>4, <1>5, <1>9
  <2> QED BY <2>1, <2>2, <1>1, <1>2, <1>3, <1>4 DEF a, b
<1> QED BY <1>6, <1>7, <1>8, <1>9

(* blance_child: n tilts and is as deep as before ...                      *)
LEMMA ShrinkStays ==
  ASSUME NEW t, NEW L, NEW r, Links(t, L, r), NEW h, NEW n, NEW d, AvlShrunk(t, L, h, n, d),
         NEW i, i = Extra(t, n) - Sign(d), i = -Sign(d), NEW u, u = Mark(t, n, i)
  PROVE Links(u, L, r) /\ AvlWhole(u, L, h)
<1> DEFINE dd == 3 - d
           a == h[Child(t, n, d)]
           b == h[Child(t, n, dd)]
<1>1. /\ Heights(h) /\ n \in L /\ d \in Side /\ dd \in Side /\ 3 - dd = d /\ d # dd
      /\ \A m \in L : m # n => Tall(t, h, m)
      /\ h[n] \in Nat /\ a \in Nat /\ b \in Nat
      /\ Extra(t, n) \in Int /\ Sign(d) \in Int
      /\ \/ Extra(t, n) = Sign(d)
         \/ Extra(t, n) = 0 /\ b = a + 1 /\ h[n] = a + 2
         \/ Extra(t, n) = -Sign(d)
  BY ShrunkFacts
<1> HIDE DEF a, b, dd
<1>2. b = a + 1 /\ h[n] = a + 2
  <2>1. Sign(d) # 0  BY <1>1 DEF Sign
  <2> QED BY <2>1, <1>1
<1>3. /\ Links(u, L, r) /\ Extra(u, n) = i
      /\ \A m \in L \ {n} : Extra(u, m) = Extra(t, m)
      /\ \A m \in L : \A e \in Side : Child(u, m, e) = Child(t, m, e)
  <2>1. i \in Int  BY <1>1
  <2> QED BY <2>1, <1>1, MarkedLinks
<1>4. Tilt(u, n, d) = -1
  <2>1. Sign(d) = 1 \/ Sign(d) = -1  BY <1>1 DEF Sign
  <2>2. Extra(u, n) = -Sign(d)  BY <1>3
  <2> QED BY <2>1, <2>2 DEF Tilt
<1>5. Tall(u, h, n)
  <2>1. h[Child(u, n, d)] = a /\ h[Child(u, n, 3 - d)] = b  BY <1>1, <1>3 DEF a, b, dd
  <2>2. Fits(h[n], -1, a, b)  BY <1>1, <1>2 DEF Fits
  <2>3. Extra(u, n) \in Int  BY <1>1, <1>3
  <2> QED BY <2>1, <2>2, <2>3, <1>1, <1>4, TallOnSide
<1>6. \A m \in L : m # n => Tall(u, h, m)  BY <1>1, <1>3, TallElsewhere
<1> QED BY <1>1, <1>3, <1>5, <1>6 DEF AvlWhole

(* ... or is even, and less deep ...                                       *)
LEMMA ShrinkLevels ==
  ASSUME NEW t, NEW L, NEW r, Links(t, L, r), NEW h, NEW n, NEW d, AvlShrunk(t, L, h, n, d),
         NEW i, i = Extra(t, n) - Sign(d), i = 0, NEW u, u = Mark(t, n, i)
  PROVE Links(u, L, r) /\ Passed(u, L, n)
<1> DEFINE dd == 3 - d
           a == h[Child(t, n, d)]
           b == h[Child(t, n, dd)]
           P == Parent(t, n)
           h2 == [m \in Node |-> IF m = n THEN h[n] - 1 ELSE h[m]]
<1>1. /\ Heights(h) /\ n \in L /\ d \in Side /\ dd \in Side /\ 3 - dd = d /\ d # dd
      /\ \A m \in L : m # n => Tall(t, h, m)
      /\ h[n] \in Nat /\ a \in Nat /\ b \in Nat
      /\ Extra(t, n) \in Int /\ Sign(d) \in Int /\ NULL \notin L
      /\ \/ Extra(t, n) = Sign(d) /\ a = b /\ h[n] = a + 2
         \/ Extra(t, n) = 0
         \/ Extra(t, n) = -Sign(d)
  BY ShrunkFacts
<1>a. /\ n \in Node /\ n # NULL /\ P # n /\ P \in L \cup {NULL}
      /\ \A m \in L : m \in Node /\ \A e \in Side : /\ Child(t, m, e) \in Node /\ Child(t, m, e) # m
                                                    /\ (Child(t, m, e) = n => P = m)
  BY <1>1, LinkFacts
<1>2. a = b /\ h[n] = a + 2
  <2>1. Sign(d) # 0 /\ Sign(d) # -Sign(d)  BY <1>1 DEF Sign
  <2> QED BY <2>1, <1>1
<1>3. /\ Links(u, L, r) /\ Extra(u, n) = 0
      /\ \A m \in L \ {n} : Extra(u, m) = Extra(t, m)
      /\ \A m \in L : Parent(u, m) = Parent(t, m) /\ \A e \in Side : Child(u, m, e) = Child(t, m, e)
  <2>1. i \in Int  BY <1>1
  <2> QED BY <2>1, <1>1, MarkedLinks
<1>4. Tilt(u, n, d) = 0  BY <1>1, <1>3 DEF Tilt
<1>5. /\ Heights(h2) /\ h2[n] = h[n] - 1
      /\ \A m \in Node : m # n => h2[m] = h[m]
  <2>1. h[n] - 1 \in Nat /\ h \in [Node -> Nat] /\ h[NULL] = 0 /\ NULL \in Node
    BY <1>1, <1>2 DEF Heights, Node
  <2> QED BY <2>1, <1>a DEF Heights
<1> HIDE DEF h2, P
<1>6. h2[Child(t, n, d)] = a /\ h2[Child(t, n, dd)] = b  BY <1>1, <1>5, <1>a
<1> HIDE DEF a, b
<1>7. Tall(u, h2, n)
  <2>1. h2[Child(u, n, d)] = a /\ h2[Child(u, n, 3 - d)] = b  BY <1>1, <1>3, <1>6
  <2>2. Fits(h2[n], 0, a, b)
    <3>1. h2[n] = a + 1 /\ a - b = 0 BY <1>1, <1>2, <1>5
    <3> QED BY <3>1, <1>1, <1>2 DEF Fits
  <2>3. Extra(u, n) \in Int /\ h2[n] \in Int  BY <1>1, <1>3, <1>5
  <2> QED BY <2>1, <2>2, <2>3, <1>1, <1>4, TallOnSide
<1> HIDE DEF dd
<1>8. ASSUME NEW m \in L, m # n, m # P PROVE Tall(u, h2, m)
  <2>1. \A e \in Side : Child(u, m, e) = Child(t, m, e) /\ h2[Child(t, m, e)] = h[Child(t, m, e)]
    BY <1>3, <1>5, <1>8, <1>a
  <2>2. Extra(u, m) = Extra(t, m) /\ h2[m] = h[m]  BY <1>3, <1>5, <1>8, <1>a
  <2>3. Tall(t, h, m)  BY <1>1, <1>8
  <2> QED BY <2>1, <2>2, <2>3, TallElsewhere
<1>9. P # NULL => /\ h2[P] = h[P] /\ Extra(u, P) = Extra(t, P)
                  /\ \A e \in Side :
                       /\ Child(t, P, e) = n => Child(u, P, e) = n
                       /\ Child(t, P, e) # n => /\ Child(u, P, e) = Child(t, P, e)
                                                /\ h2[Child(t, P, e)] = h[Child(t, P, e)]
  BY <1>3, <1>5, <1>a
<1>10. Parent(u, n) = P  BY <1>1, <1>3 DEF P
<1>11. Rebuilt(t, u, L, h, h2, n, n)
  <2>1. \A m \in L : m # P => Tall(u, h2, m)  BY <1>7, <1>8
  <2> QED BY <2>1, <1>1, <1>5, <1>9, <1>10 DEF Rebuilt, P
<1>12. Parent(t, n) # NULL => Tall(t, h, Parent(t, n))  BY <1>1, <1>a DEF P
<1>13. Passed(u, L, n)
  BY <1>1, <1>3, <1>5, <1>11, <1>12, RebuiltPasses
<1> QED BY <1>3, <1>13

(* ... or is rebuilt.                                                      *)
LEMMA ShrinkRebuilds ==
  ASSUME NEW t, NEW L, NEW r, Links(t, L, r), NEW h, NEW n, NEW d, AvlShrunk(t, L, h, n, d),
         NEW i, i = Extra(t, n) - Sign(d), i = -2 * Sign(d), NEW w, w = Unblance(Mark(t, n, i), n, 3 - d)
  PROVE /\ \E r2 : Links(w.tree, L, r2)
        /\ Turned(t, w.tree, L)
        /\ w.low => Passed(w.tree, L, w.top)
        /\ ~w.low => \E h2 : AvlWhole(w.tree, L, h2)
<1> DEFINE dd == 3 - d
           a == h[Child(t, n, d)]
           c == Child(t, n, dd)
           P == Parent(t, n)
           u == Mark(t, n, i)
<1>1. /\ Heights(h) /\ n \in L /\ d \in Side /\ dd \in Side /\ 3 - dd = d /\ d # dd
      /\ \A m \in L : m # n => Tall(t, h, m)
      /\ h[n] \in Nat /\ a \in Nat /\ h[c] \in Nat
      /\ Extra(t, n) \in Int /\ Sign(d) \in Int /\ NULL \notin L
      /\ \/ Extra(t, n) = Sign(d)
         \/ Extra(t, n) = 0
         \/ Extra(t, n) = -Sign(d) /\ h[c] = a + 2 /\ h[n] = a + 3
  BY ShrunkFacts
<1>2. h[c] = a + 2 /\ h[n] = h[c] + 1
  <2>1. Extra(t, n) = -Sign(d)  BY <1>1
  <2>2. Sign(d) # 0 /\ -Sign(d) # Sign(d)  BY <1>1 DEF Sign
  <2>3. h[c] = a + 2 /\ h[n] = a + 3  BY <2>1, <2>2, <1>1
  <2> QED BY <2>3, <1>1
<1>3. i \in Int /\ u = Mark(t, n, i) /\ w = Unblance(u, n, dd)  BY <1>1
<1> HIDE DEF u, P
<1>4. /\ Links(u, L, r) /\ Recoloured(t, u)
      /\ \A m \in L \ {n} : Extra(u, m) = Extra(t, m)
      /\ \A m \in L : Parent(u, m) = Parent(t, m) /\ \A e \in Side : Child(u, m, e) = Child(t, m, e)
  BY <1>1, <1>3, MarkedLinks
<1>5. \A m \in L : m # n => Tall(u, h, m)  BY <1>1, <1>4, TallElsewhere
<1>6. c = Child(u, n, dd) /\ h[c] = h[Child(u, n, 3 - dd)] + 2 /\ Parent(u, n) = P
  BY <1>1, <1>2, <1>4 DEF P
<1> HIDE DEF c, dd, a
<1>7. Unblanced(u, w, L, h, n, c)
  <2>1. \A m \in L : m # n /\ m # Parent(u, n) => Tall(u, h, m)  BY <1>5
  <2> QED BY <2>1, <1>1, <1>3, <1>4, <1>6, Unblances
<1>8. PICK r2 : Links(w.tree, L, r2)  BY <1>7 DEF Unblanced
<1>9. PICK h2 : /\ Rebuilt(u, w.tree, L, h, h2, n, w.top)
                /\ w.low => h2[w.top] = h[c]
                /\ ~w.low => h2[w.top] = h[c] + 1
  BY <1>7 DEF Unblanced
<1>10. P # n /\ P \in L \cup {NULL}  BY <1>1, LinkFacts DEF P
<1>11. Parent(u, n) # NULL => Tall(u, h, Parent(u, n))  BY <1>5, <1>6, <1>10
<1>12. ASSUME w.low PROVE Passed(w.tree, L, w.top)
  <2>1. h2[w.top] = h[n] - 1  BY <1>1, <1>2, <1>9, <1>12
  <2>2. Rebuilt(u, w.tree, L, h, h2, n, w.top)  BY <1>9
  <2> QED BY <2>1, <2>2, <1>1, <1>4, <1>8, <1>11, RebuiltPasses
<1>13. ASSUME ~w.low PROVE AvlWhole(w.tree, L, h2)
  <2>1. h2[w.top] = h[n]  BY <1>2, <1>9, <1>13
  <2>2. \/ Parent(u, n) = NULL /\ NULL \notin L
        \/ Parent(u, n) # NULL /\ Tall(u, h, Parent(u, n)) /\ h2[w.top] = h[n]
    BY <2>1, <1>1, <1>11
  <2> QED BY <2>2, <1>9, RebuiltWhole
<1>14. Turned(t, w.tree, L)
  <2>1. Turned(t, u, L)  BY <1>4, RecolouredTurned
  <2>2. Turned(u, w.tree, L)  BY <1>7 DEF Unblanced
  <2> QED BY <2>1, <2>2, TurnedTwice
<1> QED BY <1>8, <1>12, <1>13, <1>14

------------------------------------------------------------------------------
(* Loops that go down or up a tree, and the searches made of them.         *)

(* Induction over a set of numbers.                                        *)
LEMMA AllNumbers ==
  ASSUME NEW T, T \subseteq Nat, 0 \in T, \A k \in T : k + 1 \in T
  PROVE T = Nat
<1> SUFFICES ASSUME Nat \ T # {} PROVE FALSE  OBVIOUS
<1> DEFINE R == OpToRel(<, Nat)
<1>1. IsWellFoundedOn(R, Nat)  BY NatLessThanWellFounded
<1>2. \A y \in Nat : \A x \in Nat : y < x => <<y, x>> \in R  BY DEF OpToRel
<1> HIDE DEF R
<1>3. Nat \ T \subseteq Nat  OBVIOUS
<1>4. PICK x \in Nat \ T : \A y \in Nat \ T : ~(<<y, x>> \in R)
  <2> DEFINE U == Nat \ T
  <2>1. U \subseteq Nat /\ U # {}  OBVIOUS
  <2> HIDE DEF U
  <2>2. \E x \in U : \A y \in U : ~(<<y, x>> \in R)  BY <1>1, <2>1, WFMin
  <2> QED BY <2>2 DEF U
<1>5. x \in Nat /\ x # 0  BY <1>4
<1>6. x - 1 \in Nat /\ x - 1 < x /\ (x - 1) + 1 = x  BY <1>5
<1>7. <<x - 1, x>> \in R  BY <1>2, <1>5, <1>6
<1>8. x - 1 \in T  BY <1>4, <1>6, <1>7
<1> QED BY <1>4, <1>6, <1>8

(* N steps of f from b.                                                    *)
Chain(g, X, b, f, N) == g \in [0 .. N -> X] /\ g[0] = b /\ \A i \in 1 .. N : g[i] = f[g[i - 1]]

(* Any number of applications of a function.                               *)
LEMMA Iterates ==
  ASSUME NEW X, NEW b \in X, NEW f \in [X -> X], NEW N \in Nat
  PROVE \E g : Chain(g, X, b, f, N)
<1> DEFINE Runs(k) == \E g \in [0 .. k -> X] : g[0] = b /\ \A i \in 1 .. k : g[i] = f[g[i - 1]]
           T == {k \in Nat : Runs(k)}
<1>1. Runs(0)
  <2> DEFINE g == [i \in 0 .. 0 |-> b]
  <2>1. g \in [0 .. 0 -> X] /\ g[0] = b /\ 1 .. 0 = {}  OBVIOUS
  <2> HIDE DEF g
  <2> QED BY <2>1
<1>2. ASSUME NEW k \in Nat, Runs(k) PROVE Runs(k + 1)
  <2>1. PICK g \in [0 .. k -> X] : g[0] = b /\ \A i \in 1 .. k : g[i] = f[g[i - 1]]  BY <1>2
  <2> DEFINE g2 == [i \in 0 .. k + 1 |-> IF i = k + 1 THEN f[g[k]] ELSE g[i]]
  <2>2. g[k] \in X /\ f[g[k]] \in X  BY <2>1
  <2>3. g2 \in [0 .. k + 1 -> X]
    <3>1. \A i \in 0 .. k + 1 : i # k + 1 => i \in 0 .. k  OBVIOUS
    <3> QED BY <2>1, <2>2, <3>1
  <2>4. g2[0] = b
    <3>1. 0 \in 0 .. k + 1 /\ 0 # k + 1  OBVIOUS
    <3> QED BY <3>1, <2>1
  <2>5. ASSUME NEW i \in 1 .. k + 1 PROVE g2[i] = f[g2[i - 1]]
    <3>1. i \in 0 .. k + 1 /\ i - 1 \in 0 .. k + 1 /\ i - 1 # k + 1  OBVIOUS
    <3>2. g2[i - 1] = g[i - 1]  BY <3>1
    <3>3. CASE i = k + 1
      <4>1. i - 1 = k /\ g2[i] = f[g[k]]  BY <3>1, <3>3
      <4> QED BY <4>1, <3>2
    <3>4. CASE i # k + 1
      <4>1. i \in 1 .. k /\ g2[i] = g[i]  BY <3>1, <3>4
      <4> QED BY <4>1, <3>2, <2>1
    <3> QED BY <3>3, <3>4
  <2> HIDE DEF g2
  <2> QED BY <2>3, <2>4, <2>5
<1> HIDE DEF Runs
<1>3. T = Nat
  <2>1. T \subseteq Nat /\ 0 \in T /\ \A k \in T : k + 1 \in T  BY <1>1, <1>2
  <2> HIDE DEF T
  <2> QED BY <2>1, AllNumbers
<1>4. Runs(N)  BY <1>3
<1> QED BY <1>4 DEF Runs, Chain

(* The cardinality below an element.                                       *)
LEMMA FewerBelow ==
  ASSUME NEW Q, Q \subseteq Nodes, NEW q \in [Nodes -> Int], NEW a \in Q, NEW b \in Q, q[b] < q[a]
  PROVE Cardinality({m \in Q : q[m] < q[b]}) < Cardinality({m \in Q : q[m] < q[a]})
<1> DEFINE A == {m \in Q : q[m] < q[a]}
           B == {m \in Q : q[m] < q[b]}
<1>1. IsFiniteSet(A) /\ Cardinality(A) \in Nat
  <2>1. A \in SUBSET Nodes  OBVIOUS
  <2> HIDE DEF A
  <2>2. IsFiniteSet(A)  BY <2>1, NodesAssumption, FS_Subset
  <2> QED BY <2>2, FS_CardinalityType
<1>2. B \in SUBSET A /\ b \in A /\ b \notin B
  <2>1. \A m \in Q : q[m] \in Int  OBVIOUS
  <2> QED BY <2>1
<1> HIDE DEF A, B
<1>3. IsFiniteSet(B) /\ Cardinality(B) <= Cardinality(A) /\ (Cardinality(A) = Cardinality(B) => A = B)
  BY <1>1, <1>2, FS_Subset
<1>4. Cardinality(B) \in Nat  BY <1>3, FS_CardinalityType
<1>5. Cardinality(B) < Cardinality(A)  BY <1>1, <1>2, <1>3, <1>4
<1> QED BY <1>5 DEF A, B

(* A set of nodes counts at most as many as there are.                     *)
LEMMA AtMostAll ==
  ASSUME NEW Q, Q \subseteq Nodes
  PROVE Cardinality(Nodes) \in Nat /\ Cardinality(Q) \in Nat /\ Cardinality(Q) <= Cardinality(Nodes)
<1>1. IsFiniteSet(Q) /\ Cardinality(Q) <= Cardinality(Nodes)  BY NodesAssumption, FS_Subset
<1> QED BY <1>1, NodesAssumption, FS_CardinalityType

(* A way that stays in Q and loses height at every node ends in Q.         *)
LEMMA WayEnds ==
  ASSUME NEW next \in [Nodes -> Node], NEW Q, Q \subseteq Nodes, NEW q \in [Nodes -> Int],
         \A m \in Q : next[m] # NULL => next[m] \in Q /\ q[next[m]] < q[m],
         NEW n \in Q
  PROVE /\ LastOn(next, n) \in Q /\ next[LastOn(next, n)] = NULL
        /\ q[LastOn(next, n)] <= q[n]
<1> DEFINE N == Cardinality(Nodes)
           X == [Nodes -> Nodes]
           b == [m \in Nodes |-> m]
           f == [F \in X |-> [m \in Nodes |-> IF next[m] = NULL THEN m ELSE F[next[m]]]]
           body(g) == [i \in 0 .. N |-> [m \in Nodes |-> IF i = 0 \/ next[m] = NULL THEN m ELSE g[i - 1][next[m]]]]
           G == CHOOSE g : g = body(g)
<1>1. LastOn(next, n) = G[N][n]  BY DEF LastOn
<1>2. N \in Nat  BY AtMostAll
<1>3. \E g : g = body(g)
  <2>1. b \in X  OBVIOUS
  <2>2. f \in [X -> X]
    <3>1. \A m \in Nodes : next[m] # NULL => next[m] \in Nodes  BY DEF Node
    <3> QED BY <3>1
  <2>3. \E g : Chain(g, X, b, f, N)
    <3> HIDE DEF N, X, b, f
    <3> QED BY <2>1, <2>2, <1>2, Iterates, Zenon
  <2>4. PICK g \in [0 .. N -> X] : g[0] = b /\ \A i \in 1 .. N : g[i] = f[g[i - 1]]
    BY <2>3 DEF Chain
  <2>5. ASSUME NEW i \in 0 .. N
        PROVE g[i] = [m \in Nodes |-> IF i = 0 \/ next[m] = NULL THEN m ELSE g[i - 1][next[m]]]
    <3>1. CASE i = 0
      <4>1. g[i] = b  BY <3>1, <2>4
      <4>2. b = [m \in Nodes |-> IF i = 0 \/ next[m] = NULL THEN m ELSE g[i - 1][next[m]]]  BY <3>1
      <4> QED BY <4>1, <4>2
    <3>2. CASE i # 0
      <4>1. i \in 1 .. N /\ i - 1 \in 0 .. N  BY <3>2, <1>2
      <4>2. g[i - 1] \in X  BY <4>1
      <4>3. g[i] = f[g[i - 1]]  BY <4>1, <2>4
      <4>4. f[g[i - 1]] = [m \in Nodes |-> IF next[m] = NULL THEN m ELSE g[i - 1][next[m]]]  BY <4>2
      <4> QED BY <4>3, <4>4, <3>2
    <3> QED BY <3>1, <3>2
  <2>6. g = body(g)
    <3>1. g = [i \in 0 .. N |-> g[i]]  BY <2>4
    <3> HIDE DEF X, N
    <3> QED BY <3>1, <2>5
  <2> QED BY <2>6
<1>4. G = body(G)  BY <1>3
<1> HIDE DEF G, body, f, b, X
<1>5. \A i \in 0 .. N : \A m \in Nodes : G[i][m] = IF i = 0 \/ next[m] = NULL THEN m ELSE G[i - 1][next[m]]
  <2> DEFINE row(i) == [m \in Nodes |-> IF i = 0 \/ next[m] = NULL THEN m ELSE G[i - 1][next[m]]]
  <2>1. body(G) = [i \in 0 .. N |-> row(i)]  BY DEF body
  <2> HIDE DEF row
  <2>2. \A i \in 0 .. N : G[i] = row(i)  BY <2>1, <1>4
  <2>3. \A i \in 0 .. N : \A m \in Nodes : row(i)[m] = IF i = 0 \/ next[m] = NULL THEN m ELSE G[i - 1][next[m]]
    BY DEF row
  <2>4. \A i \in 0 .. N : \A m \in Nodes : G[i][m] = row(i)[m]  BY <2>2
  <2> QED BY <2>3, <2>4
<1> DEFINE Below(m) == {k \in Q : q[k] < q[m]}
           Good(i, m) == G[i][m] \in Q /\ next[G[i][m]] = NULL /\ q[G[i][m]] <= q[m]
           T == {i \in Nat : i <= N => \A m \in Q : Cardinality(Below(m)) <= i => Good(i, m)}
<1>6. \A m \in Q : Cardinality(Below(m)) \in Nat /\ Cardinality(Below(m)) <= N /\ q[m] \in Int /\ m \in Nodes
  <2> SUFFICES ASSUME NEW m \in Q PROVE Cardinality(Below(m)) \in Nat /\ Cardinality(Below(m)) <= N
    OBVIOUS
  <2>1. Below(m) \subseteq Nodes  OBVIOUS
  <2> HIDE DEF Below
  <2> QED BY <2>1, AtMostAll
<1>7. ASSUME NEW m \in Q, next[m] # NULL
      PROVE next[m] \in Q /\ Cardinality(Below(next[m])) < Cardinality(Below(m)) /\ q[next[m]] < q[m]
  <2> DEFINE k == next[m]
  <2>1. k \in Q /\ q[k] < q[m]  BY <1>7
  <2> HIDE DEF k
  <2>2. Cardinality({j \in Q : q[j] < q[k]}) < Cardinality({j \in Q : q[j] < q[m]})
    BY <2>1, FewerBelow, ZenonT(30)
  <2>3. Below(k) = {j \in Q : q[j] < q[k]} /\ Below(m) = {j \in Q : q[j] < q[m]}  OBVIOUS
  <2> HIDE DEF Below
  <2> QED BY <2>1, <2>2, <2>3 DEF k
<1> HIDE DEF Below
<1>8. ASSUME NEW i \in 0 .. N, NEW m \in Q, next[m] = NULL PROVE Good(i, m)
  <2>1. G[i][m] = m  BY <1>5, <1>6, <1>8
  <2> QED BY <2>1, <1>6, <1>8
<1>9. 0 \in T
  <2>1. \A m \in Q : Cardinality(Below(m)) <= 0 => next[m] = NULL  BY <1>6, <1>7
  <2>2. 0 \in 0 .. N  BY <1>2
  <2> QED BY <2>1, <2>2, <1>8
<1>10. ASSUME NEW i \in T PROVE i + 1 \in T
  <2> SUFFICES ASSUME i + 1 <= N, NEW m \in Q, Cardinality(Below(m)) <= i + 1
               PROVE Good(i + 1, m)
    OBVIOUS
  <2>1. i \in Nat /\ i <= N /\ i + 1 \in 0 .. N /\ i + 1 # 0 /\ (i + 1) - 1 = i  BY <1>2
  <2>2. CASE next[m] = NULL  BY <2>1, <2>2, <1>8
  <2>3. CASE next[m] # NULL
    <3>1. next[m] \in Q /\ Cardinality(Below(next[m])) < Cardinality(Below(m)) /\ q[next[m]] < q[m]
      BY <2>3, <1>7
    <3>2. Cardinality(Below(next[m])) <= i  BY <3>1, <1>6, <2>1
    <3>3. Good(i, next[m])  BY <2>1, <3>1, <3>2
    <3>4. G[i + 1][m] = G[i][next[m]]  BY <1>5, <1>6, <2>1, <2>3
    <3>5. q[G[i][next[m]]] <= q[m]  BY <3>1, <3>3, <1>6
    <3> QED BY <3>3, <3>4, <3>5
  <2> QED BY <2>2, <2>3
<1> HIDE DEF Good
<1>11. T = Nat
  <2>1. T \subseteq Nat /\ 0 \in T /\ \A k \in T : k + 1 \in T  BY <1>9, <1>10
  <2> HIDE DEF T
  <2> QED BY <2>1, AllNumbers
<1>12. N \in T  BY <1>2, <1>11
<1>13. Good(N, n)  BY <1>2, <1>6, <1>12
<1> HIDE DEF N
<1> QED BY <1>1, <1>13 DEF Good

(* A descent stays among nodes that are closed under children.             *)
LEMMA FollowEnds ==
  ASSUME NEW t, NEW L, NEW r, Links(t, L, r), NEW Q, Q \subseteq L,
         \A m \in Q : \A d \in Side : Child(t, m, d) # NULL => Child(t, m, d) \in Q,
         NEW n \in Q, NEW dir \in [Nodes -> 0 .. 2], NEW e, e = Follow(t, n, dir)
  PROVE e \in Q /\ (dir[e] = 0 \/ (dir[e] \in Side /\ Child(t, e, dir[e]) = NULL))
<1> DEFINE next == [m \in Nodes |-> IF dir[m] = 0 THEN NULL ELSE Child(t, m, dir[m])]
           q == [m \in Nodes |-> -r[m]]
<1>1. e = LastOn(next, n)  BY DEF Follow
<1>2. \A m \in Nodes : dir[m] = 0 \/ dir[m] \in Side  BY DEF Side
<1>3. TreeType(t) /\ Q \subseteq Nodes /\ r \in [Nodes -> Nat]  BY DEF Links
<1>4. next \in [Nodes -> Node]
  <2>1. \A m \in Nodes : dir[m] # 0 => Child(t, m, dir[m]) \in Node  BY <1>2, <1>3, TypedNodes
  <2> QED BY <2>1 DEF Node
<1>5. q \in [Nodes -> Int] /\ \A m \in Nodes : q[m] = -r[m]  BY <1>3
<1>6. \A m \in Nodes : next[m] = IF dir[m] = 0 THEN NULL ELSE Child(t, m, dir[m])  OBVIOUS
<1> HIDE DEF next, q
<1>7. ASSUME NEW m \in Q, next[m] # NULL PROVE next[m] \in Q /\ q[next[m]] < q[m]
  <2>1. dir[m] \in Side /\ next[m] = Child(t, m, dir[m])  BY <1>2, <1>3, <1>6, <1>7
  <2>2. next[m] \in Q /\ r[m] < r[next[m]]  BY <2>1, <1>7, LinkFacts
  <2>3. r[m] \in Nat /\ r[next[m]] \in Nat /\ q[m] = -r[m] /\ q[next[m]] = -r[next[m]]  BY <2>2, <1>3, <1>5
  <2> QED BY <2>2, <2>3
<1>8. LastOn(next, n) \in Q /\ next[LastOn(next, n)] = NULL
  BY <1>3, <1>4, <1>5, <1>7, WayEnds
<1>9. e \in Q /\ e \in Nodes /\ next[e] = NULL  BY <1>1, <1>3, <1>8
<1> QED BY <1>2, <1>6, <1>9

(* The last node of the inner side below child d of n.                     *)
LEMMA LowestIs ==
  ASSUME NEW t, NEW L, NEW r, Links(t, L, r), NEW n \in L, NEW d \in Side, NEW dd \in Side, dd # d,
         NEW c, c = Child(t, n, d), c # NULL, NEW x, x = Lowest(t, c, dd)
  PROVE /\ x \in L /\ x # n /\ x # Parent(t, n) /\ Child(t, x, dd) = NULL
        /\ x # Child(t, n, dd) /\ Parent(t, x) \in L
        /\ x # c => Parent(t, x) # n /\ Parent(t, x) # Parent(t, n) /\ Parent(t, n) # x
<1> DEFINE Q == {m \in L : m = c \/ (Parent(t, m) \in L /\ r[c] <= r[Parent(t, m)])}
           dir == [m \in Nodes |-> dd]
<1>1. /\ \A m \in L : m \in Nodes /\ m # NULL /\ r[m] \in Nat
      /\ c \in L /\ Parent(t, c) = n /\ r[n] < r[c]
      /\ Parent(t, n) # NULL => Parent(t, n) \in L /\ r[Parent(t, n)] < r[n]
      /\ Parent(t, n) \in L \cup {NULL}
  BY LinkFacts
<1>2. ASSUME NEW m \in Q, NEW e \in Side, Child(t, m, e) # NULL PROVE Child(t, m, e) \in Q
  <2>1. m \in L /\ Child(t, m, e) \in L /\ Parent(t, Child(t, m, e)) = m  BY <1>2, LinkFacts
  <2>2. r[c] <= r[m]
    <3>1. CASE m = c  BY <3>1, <1>1
    <3>2. CASE m # c
      <4>1. Parent(t, m) \in L /\ r[c] <= r[Parent(t, m)]  BY <3>2
      <4>2. r[Parent(t, m)] < r[m]  BY <4>1, <2>1, <1>1, LinkFacts
      <4> QED BY <4>1, <4>2, <2>1, <1>1
    <3> QED BY <3>1, <3>2
  <2> QED BY <2>1, <2>2
<1>3. Q \subseteq L /\ c \in Q  BY <1>1
<1>4. dir \in [Nodes -> 0 .. 2] /\ \A m \in Nodes : dir[m] = dd  BY DEF Side
<1>5. x = Follow(t, c, dir)  BY DEF Lowest
<1> HIDE DEF dir
<1>6. x \in Q /\ (dir[x] = 0 \/ (dir[x] \in Side /\ Child(t, x, dir[x]) = NULL))
  <2> HIDE DEF Q
  <2> QED BY <1>2, <1>3, <1>4, <1>5, FollowEnds
<1>7. dir[x] = dd /\ dd # 0 /\ x \in L  BY <1>1, <1>4, <1>6 DEF Side
<1>8. Child(t, x, dd) = NULL  BY <1>6, <1>7
<1>9. x # n /\ x # Parent(t, n)
  <2>1. r[c] <= r[x]
    <3>1. CASE x = c  BY <3>1, <1>1
    <3>2. CASE x # c
      <4>1. Parent(t, x) \in L /\ r[c] <= r[Parent(t, x)]  BY <3>2, <1>6
      <4>2. r[Parent(t, x)] < r[x]  BY <4>1, <1>7, <1>1, LinkFacts
      <4> QED BY <4>1, <4>2, <1>7, <1>1
    <3> QED BY <3>1, <3>2
  <2>2. CASE Parent(t, n) = NULL  BY <2>1, <2>2, <1>1, <1>7
  <2>3. CASE Parent(t, n) # NULL
    <3>1. Parent(t, n) \in L /\ r[Parent(t, n)] < r[n] /\ r[n] < r[c] /\ r[c] <= r[x]  BY <2>1, <2>3, <1>1
    <3>2. r[Parent(t, n)] \in Nat /\ r[n] \in Nat /\ r[c] \in Nat /\ r[x] \in Nat  BY <3>1, <1>1, <1>7
    <3> QED BY <3>1, <3>2
  <2> QED BY <2>2, <2>3
<1>10. ASSUME x # c
       PROVE Parent(t, x) \in L /\ Parent(t, x) # n /\ Parent(t, x) # Parent(t, n)
  <2>1. Parent(t, x) \in L /\ r[c] <= r[Parent(t, x)]  BY <1>6, <1>10
  <2>2. r[Parent(t, x)] \in Nat /\ r[n] \in Nat /\ r[c] \in Nat  BY <2>1, <1>1
  <2>3. CASE Parent(t, n) = NULL  BY <2>1, <2>2, <2>3, <1>1
  <2>4. CASE Parent(t, n) # NULL
    <3>1. r[Parent(t, n)] \in Nat /\ r[Parent(t, n)] < r[n]  BY <2>4, <1>1
    <3> QED BY <2>1, <2>2, <3>1, <1>1
  <2> QED BY <2>3, <2>4
<1>11. x # Child(t, n, dd)
  <2>1. CASE x = c
    <3>1. dd = 3 - d  BY DEF Side
    <3> QED BY <2>1, <3>1, LinkFacts
  <2>2. CASE x # c
    <3>1. Child(t, n, dd) # NULL => Parent(t, Child(t, n, dd)) = n  BY LinkFacts
    <3> QED BY <2>2, <3>1, <1>1, <1>7, <1>10
  <2> QED BY <2>1, <2>2
<1> QED BY <1>1, <1>7, <1>8, <1>9, <1>10, <1>11

(* An iterator goes to another node of the tree, or to the end.            *)
LEMMA StepIs ==
  ASSUME NEW t, NEW L, NEW r, Links(t, L, r), NEW n \in L, NEW d \in Side
  PROVE Step(t, n, d) \in L \cup {NULL} /\ Step(t, n, d) # n
<1> DEFINE dd == 3 - d
           next == [m \in Nodes |-> LET p == Parent(t, m) IN
            IF p # NULL THEN IF Child(t, p, dd) # m THEN p ELSE NULL ELSE NULL]
           x == Highest(t, n, d)
<1>1. dd \in Side /\ dd # d  BY DEF Side
<1>2. CASE Child(t, n, d) # NULL
  <2> DEFINE c == Child(t, n, d)
             y == Lowest(t, c, dd)
  <2>1. Step(t, n, d) = y  BY <1>2 DEF Step
  <2>2. c = Child(t, n, d) /\ c # NULL /\ y = Lowest(t, c, dd)  BY <1>2
  <2> HIDE DEF c, y, dd
  <2>3. y \in L /\ y # n  BY <1>1, <2>2, LowestIs
  <2> QED BY <2>1, <2>3
<1>3. CASE Child(t, n, d) = NULL
  <2>1. Step(t, n, d) = Parent(t, x)  BY <1>3 DEF Step
  <2>2. x = LastOn(next, n)  BY DEF Highest
  <2>3. TreeType(t) /\ L \subseteq Nodes /\ r \in [Nodes -> Nat]  BY DEF Links
  <2>4. next \in [Nodes -> Node] /\ \A m \in Nodes : next[m] # NULL => next[m] = Parent(t, m)
    <3>1. \A m \in Nodes : Parent(t, m) \in Node  BY <2>3, TypedNodes
    <3> QED BY <3>1 DEF Node
  <2> HIDE DEF next, x
  <2>5. ASSUME NEW m \in L, next[m] # NULL PROVE next[m] \in L /\ r[next[m]] < r[m]
    BY <2>3, <2>4, <2>5, LinkFacts
  <2>6. LastOn(next, n) \in L /\ r[LastOn(next, n)] <= r[n]
    <3>1. r \in [Nodes -> Int]  BY <2>3
    <3> QED BY <2>3, <2>4, <2>5, <3>1, WayEnds
  <2>7. x \in L /\ r[x] <= r[n] /\ r[x] \in Nat /\ r[n] \in Nat  BY <2>2, <2>3, <2>6
  <2>8. Parent(t, x) \in L \cup {NULL} /\ (Parent(t, x) # NULL => r[Parent(t, x)] < r[x])
    BY <2>7, LinkFacts
  <2>9. Parent(t, x) # n
    <3>1. CASE Parent(t, x) = NULL  BY <3>1, LinkFacts
    <3>2. CASE Parent(t, x) # NULL
      <4>1. r[Parent(t, x)] < r[x]  BY <2>8, <3>2
      <4>2. Parent(t, x) = n => FALSE  BY <4>1, <2>7
      <4> QED BY <4>2
    <3> QED BY <3>1, <3>2
  <2> QED BY <2>1, <2>8, <2>9
<1> QED BY <1>2, <1>3

(* A search ends at a node with room on the side where the key belongs.    *)
LEMMA LocateIs ==
  ASSUME NEW t, NEW L, NEW r, Links(t, L, r), t.root # NULL, NEW k \in Nat, NEW deep \in BOOLEAN,
         NEW p, p = Locate(t, k, deep)
  PROVE /\ p \in L
        /\ k < Key[p] => Child(t, p, 1) = NULL
        /\ Key[p] < k => Child(t, p, 2) = NULL
        /\ deep /\ ~(k < Key[p]) => Child(t, p, 2) = NULL
<1> DEFINE dir == [m \in Nodes |-> IF k < Key[m] THEN 1
                                  ELSE IF Key[m] < k \/ deep THEN 2 ELSE 0]
<1>1. p = Follow(t, t.root, dir)  BY DEF Locate
<1>2. dir \in [Nodes -> 0 .. 2]
  <2>1. 0 \in 0 .. 2 /\ 1 \in 0 .. 2 /\ 2 \in 0 .. 2  OBVIOUS
  <2> HIDE DEF dir
  <2>2. dir = [m \in Nodes |-> IF k < Key[m] THEN 1 ELSE IF Key[m] < k \/ deep THEN 2 ELSE 0]  BY DEF dir
  <2> QED BY <2>1, <2>2
<1>3. t.root \in L  BY DEF Links
<1>4. \A m \in L : \A d \in Side : Child(t, m, d) # NULL => Child(t, m, d) \in L  BY LinkFacts
<1>d. \A m \in Nodes : dir[m] = IF k < Key[m] THEN 1 ELSE IF Key[m] < k \/ deep THEN 2 ELSE 0  OBVIOUS
<1> HIDE DEF dir
<1>5. p \in L /\ (dir[p] = 0 \/ (dir[p] \in Side /\ Child(t, p, dir[p]) = NULL))
  BY <1>1, <1>2, <1>3, <1>4, FollowEnds
<1>6. p \in Nodes /\ Key[p] \in Nat  BY <1>5, KeyAssumption DEF Links
<1>7. k < Key[p] => dir[p] = 1  BY <1>6, <1>d
<1>8. Key[p] < k => dir[p] = 2
  <2>1. Key[p] < k => ~(k < Key[p])  BY <1>6
  <2> QED BY <2>1, <1>6, <1>d
<1>9. deep /\ ~(k < Key[p]) => dir[p] = 2  BY <1>6, <1>d
<1> QED BY <1>5, <1>7, <1>8, <1>9

(* A search ends at an equal node of the tree, or at none.                 *)
LEMMA FindIs ==
  ASSUME NEW t, NEW L, NEW r, Links(t, L, r), NEW k \in Nat
  PROVE /\ Find(t, k) \in L \cup {NULL}
        /\ t.root # NULL /\ Find(t, k) = NULL => Key[Locate(t, k, FALSE)] # k
<1>1. CASE t.root = NULL  BY <1>1 DEF Find
<1>2. CASE t.root # NULL
  <2>1. Locate(t, k, FALSE) \in L
    <3> DEFINE deep == FALSE
    <3>1. deep \in BOOLEAN  OBVIOUS
    <3> HIDE DEF deep
    <3>2. Locate(t, k, deep) \in L  BY <3>1, <1>2, LocateIs
    <3> QED BY <3>2 DEF deep
  <2>2. Locate(t, k, FALSE) # NULL  BY <2>1, LinkFacts
  <2> QED BY <1>2, <2>1, <2>2 DEF Find
<1> QED BY <1>1, <1>2

------------------------------------------------------------------------------
(* Two nodes change places (do_erase_swap_node), and one is unlinked       *)
(* (do_erase).                                                             *)

(* Two nodes change places.                                                *)
Swap(n, x, m) == IF m = n THEN x ELSE IF m = x THEN n ELSE m

(* The shape of w is that of t with n and x in each other's place.         *)
Reshaped(t, w, L, n, x) ==
  /\ TreeType(w) /\ w.root = Swap(n, x, t.root)
  /\ \A m \in L : /\ Parent(w, m) = Swap(n, x, Parent(t, Swap(n, x, m)))
                  /\ \A e \in Side : Child(w, m, e) = Swap(n, x, Child(t, Swap(n, x, m), e))

Swapped(t, w, L, n, x) ==
  /\ Reshaped(t, w, L, n, x)
  /\ \A m \in L : Extra(w, m) = Extra(t, Swap(n, x, m))

(* A replaced link, seen from any node.                                    *)
LEMMA ReplacedAnywhere ==
  ASSUME NEW t, NEW L, NEW r, Links(t, L, r), NEW n \in L, NEW p, p = Parent(t, n), NEW x, NEW u,
         Replaced(t, u, p, n, x)
  PROVE \A m \in L : \A e \in Side : Child(u, m, e) = IF Child(t, m, e) = n THEN x ELSE Child(t, m, e)
<1> SUFFICES ASSUME NEW m \in L, NEW e \in Side
             PROVE Child(u, m, e) = IF Child(t, m, e) = n THEN x ELSE Child(t, m, e)
  OBVIOUS
<1>1. m \in Nodes /\ m # NULL /\ n # NULL  BY LinkFacts
<1>2. Child(u, m, e) = IF m = p /\ e = SideOf(t, p, n) THEN x ELSE Child(t, m, e)
  BY <1>1 DEF Replaced
<1>3. CASE m = p
  <2>1. Child(t, p, SideOf(t, p, n)) = n /\ \A f \in Side : Child(t, p, f) = n => f = SideOf(t, p, n)
    BY <1>1, <1>3, SideFacts
  <2> QED BY <2>1, <1>2, <1>3
<1>4. CASE m # p
  <2>1. Child(t, m, e) # n  BY <1>1, <1>4, LinkFacts
  <2> QED BY <2>1, <1>2, <1>4
<1> QED BY <1>3, <1>4

Exchanged(w, z, n, x, p, q, cn, cx) ==
  /\ TreeType(z) /\ z.root = w.root
  /\ \A m \in Nodes : /\ Parent(z, m) = IF m = n THEN q ELSE IF m = x THEN p ELSE Parent(w, m)
                      /\ Extra(z, m) = Extra(w, m)
                      /\ \A e \in Side : Child(z, m, e) = IF m = n THEN cx[e] ELSE IF m = x THEN cn[e]
                                                          ELSE Child(w, m, e)

(* The four assignments of do_erase_swap_node0 exchange what hangs above   *)
(* and below two nodes.                                                    *)
LEMMA Exchanges ==
  ASSUME NEW w, TreeType(w), NEW n \in Nodes, NEW x \in Nodes, n # x, NEW p \in Node, NEW q \in Node,
         NEW cn \in [Side -> Node], NEW cx \in [Side -> Node],
         NEW z, z = [w EXCEPT !.node[n].parent = q, !.node[n].child = cx,
                              !.node[x].parent = p, !.node[x].child = cn]
  PROVE Exchanged(w, z, n, x, p, q, cn, cx)
<1> DEFINE a == [w EXCEPT !.node[n].parent = q]
           b == [a EXCEPT !.node[n].child = cx]
           c == [b EXCEPT !.node[x].parent = p]
<1>1. z = [c EXCEPT !.node[x].child = cn]  OBVIOUS
<1>2. GetsParent(w, a, n, q)  BY SetParent, Zenon
<1> HIDE DEF a
<1>3. TreeType(a)  BY <1>2 DEF GetsParent
<1>4. /\ TreeType(b) /\ b.root = a.root
      /\ \A m \in Nodes : /\ Parent(b, m) = Parent(a, m) /\ Extra(b, m) = Extra(a, m)
                          /\ \A e \in Side : Child(b, m, e) = IF m = n THEN cx[e] ELSE Child(a, m, e)
  BY <1>3 DEF TreeType, Parent, Child, Extra, Node, Side
<1> HIDE DEF b
<1>5. GetsParent(b, c, x, p)  BY <1>4, SetParent, Zenon
<1> HIDE DEF c
<1>6. TreeType(c)  BY <1>5 DEF GetsParent
<1>7. /\ TreeType(z) /\ z.root = c.root
      /\ \A m \in Nodes : /\ Parent(z, m) = Parent(c, m) /\ Extra(z, m) = Extra(c, m)
                          /\ \A e \in Side : Child(z, m, e) = IF m = x THEN cn[e] ELSE Child(c, m, e)
  <2> DEFINE d == [c EXCEPT !.node[x].child = cn]
  <2>1. /\ TreeType(d) /\ d.root = c.root
        /\ \A m \in Nodes : /\ Parent(d, m) = Parent(c, m) /\ Extra(d, m) = Extra(c, m)
                            /\ \A e \in Side : Child(d, m, e) = IF m = x THEN cn[e] ELSE Child(c, m, e)
    BY <1>6 DEF TreeType, Parent, Child, Extra, Node, Side
  <2>2. z = d  BY <1>1
  <2> HIDE DEF d
  <2> QED BY <2>1, <2>2
<1>8. \A m \in Nodes : Parent(z, m) = IF m = n THEN q ELSE IF m = x THEN p ELSE Parent(w, m)
  BY <1>2, <1>4, <1>5, <1>7 DEF GetsParent
<1>9. \A m \in Nodes : \A e \in Side : Child(z, m, e) = IF m = n THEN cx[e] ELSE IF m = x THEN cn[e]
                                                                ELSE Child(w, m, e)
  <2> SUFFICES ASSUME NEW m \in Nodes, NEW e \in Side
               PROVE Child(z, m, e) = IF m = n THEN cx[e] ELSE IF m = x THEN cn[e] ELSE Child(w, m, e)
    OBVIOUS
  <2>1. Child(z, m, e) = IF m = x THEN cn[e] ELSE Child(c, m, e)  BY <1>7
  <2>2. Child(c, m, e) = Child(b, m, e)  BY <1>5 DEF GetsParent
  <2>3. Child(b, m, e) = IF m = n THEN cx[e] ELSE Child(a, m, e)  BY <1>4
  <2>4. Child(a, m, e) = Child(w, m, e)  BY <1>2 DEF GetsParent
  <2> QED BY <2>1, <2>2, <2>3, <2>4
<1>10. z.root = w.root  BY <1>2, <1>4, <1>5, <1>7 DEF GetsParent
<1>11. \A m \in Nodes : Extra(z, m) = Extra(w, m)
  BY <1>2, <1>4, <1>5, <1>7 DEF GetsParent
<1> QED BY <1>7, <1>8, <1>9, <1>10, <1>11 DEF Exchanged

(* do_erase_swap_node0.                                                    *)
LEMMA SwapOtherIs ==
  ASSUME NEW t, NEW L, NEW r, Links(t, L, r), NEW n \in L, NEW x \in L, n # x,
         Parent(t, x) \in L, Parent(t, x) # n, Parent(t, x) # Parent(t, n), Parent(t, n) # x
  PROVE /\ Reshaped(t, SwapWithOther(t, n, x), L, n, x)
        /\ \A m \in L : Extra(SwapWithOther(t, n, x), m) = Extra(t, m)
<1> DEFINE p == Parent(t, n)
           q == Parent(t, x)
           n1 == Child(t, n, 1)
           n2 == Child(t, n, 2)
           x1 == Child(t, x, 1)
           x2 == Child(t, x, 2)
           u1 == Replace(t, p, n, x)
           u2 == Replace(u1, q, x, n)
           v1 == Adopt(u2, x, n1)
           v2 == Adopt(v1, x, n2)
           w1 == Adopt(v2, n, x1)
           w2 == Adopt(w1, n, x2)
           cn == t.node[n].child
           cx == t.node[x].child
           z == [w2 EXCEPT !.node[n].parent = q, !.node[n].child = cx,
                           !.node[x].parent = p, !.node[x].child = cn]
<1>0. z = SwapWithOther(t, n, x)  BY DEF SwapWithOther
<1>1. /\ TreeType(t) /\ n \in Nodes /\ x \in Nodes /\ p \in Node /\ q \in Node /\ n \in Node /\ x \in Node
      /\ n1 \in Node /\ n2 \in Node /\ x1 \in Node /\ x2 \in Node
      /\ 1 \in Side /\ 2 \in Side /\ \A e \in Side : e = 1 \/ e = 2
  BY LinkFacts DEF Node, Side
<1>2. cn \in [Side -> Node] /\ cx \in [Side -> Node]
      /\ \A e \in Side : cn[e] = Child(t, n, e) /\ cx[e] = Child(t, x, e)
  BY <1>1 DEF TreeType, Child
<1>3. q \in L /\ q # n /\ q # p /\ p # x /\ q # x /\ p # n /\ q # NULL
  BY LinkFacts
<1> HIDE DEF p, q, n1, n2, x1, x2, cn, cx
<1>4. Replaced(t, u1, p, n, x)  BY <1>1, Replaces, Zenon
<1> HIDE DEF u1
<1>5. Replaced(u1, u2, q, x, n)
  <2>1. TreeType(u1)  BY <1>4 DEF Replaced
  <2> QED BY <2>1, <1>1, Replaces, Zenon
<1> HIDE DEF u2
<1>6. GetsParent(u2, v1, n1, x)
  <2>1. TreeType(u2)  BY <1>5 DEF Replaced
  <2> QED BY <2>1, <1>1, Adopted, Zenon
<1> HIDE DEF v1
<1>7. GetsParent(v1, v2, n2, x)
  <2>1. TreeType(v1)  BY <1>6 DEF GetsParent
  <2> QED BY <2>1, <1>1, Adopted, Zenon
<1> HIDE DEF v2
<1>8. GetsParent(v2, w1, x1, n)
  <2>1. TreeType(v2)  BY <1>7 DEF GetsParent
  <2> QED BY <2>1, <1>1, Adopted, Zenon
<1> HIDE DEF w1
<1>9. GetsParent(w1, w2, x2, n)
  <2>1. TreeType(w1)  BY <1>8 DEF GetsParent
  <2> QED BY <2>1, <1>1, Adopted, Zenon
<1> HIDE DEF w2
<1>10. /\ TreeType(z) /\ z.root = w2.root
       /\ \A m \in Nodes : /\ Parent(z, m) = IF m = n THEN q ELSE IF m = x THEN p ELSE Parent(w2, m)
                           /\ Extra(z, m) = Extra(w2, m)
                           /\ \A e \in Side : Child(z, m, e) = IF m = n THEN cx[e] ELSE IF m = x THEN cn[e]
                                                               ELSE Child(w2, m, e)
  <2>1. TreeType(w2)  BY <1>9 DEF GetsParent
  <2>2. z = [w2 EXCEPT !.node[n].parent = q, !.node[n].child = cx,
                       !.node[x].parent = p, !.node[x].child = cn]  OBVIOUS
  <2> HIDE DEF z
  <2>3. Exchanged(w2, z, n, x, p, q, cn, cx)  BY <2>1, <2>2, <1>1, <1>2, Exchanges, Zenon
  <2> QED BY <2>3 DEF Exchanged
<1> HIDE DEF z
<1>11. \A m \in Nodes : Parent(w2, m) = IF m = x2 \/ m = x1 THEN n
                                        ELSE IF m = n2 \/ m = n1 THEN x ELSE Parent(t, m)
  BY <1>4, <1>5, <1>6, <1>7, <1>8, <1>9 DEF Replaced, GetsParent
<1>12. \A m \in L : \A e \in Side : Child(u1, m, e) = IF Child(t, m, e) = n THEN x ELSE Child(t, m, e)
  BY <1>4, ReplacedAnywhere DEF p
<1>13. \A m \in L : m \in Nodes /\ m # NULL /\ Swap(n, x, m) \in L /\ Swap(n, x, NULL) = NULL
  BY LinkFacts DEF Swap
<1>14. ASSUME NEW m \in L, NEW e \in Side
       PROVE Child(w2, m, e) = IF Child(t, m, e) = n THEN x ELSE IF Child(t, m, e) = x THEN n ELSE Child(t, m, e)
  <2>1. Child(w2, m, e) = Child(u2, m, e)  BY <1>13, <1>6, <1>7, <1>8, <1>9 DEF GetsParent
  <2>2. Child(u2, m, e) = IF m = q /\ e = SideOf(u1, q, x) THEN n ELSE Child(u1, m, e)
    BY <1>13, <1>5 DEF Replaced
  <2>3. Child(u1, q, 1) = Child(t, q, 1)
    <3>1. Child(t, q, 1) # n  BY <1>1, <1>3, LinkFacts DEF p
    <3> QED BY <3>1, <1>1, <1>3, <1>12
  <2>4. SideOf(u1, q, x) = SideOf(t, q, x)  BY <2>3 DEF SideOf
  <2>5. /\ Child(t, q, SideOf(t, q, x)) = x
        /\ \A f \in Side : Child(t, q, f) = x => f = SideOf(t, q, x)
    BY <1>3, SideFacts DEF q
  <2>6. Child(t, m, e) = x => m = q  BY <1>13, LinkFacts DEF q
  <2>7. Child(t, m, e) = n => m = p  BY <1>13, LinkFacts DEF p
  <2> QED BY <2>1, <2>2, <2>4, <2>5, <2>6, <2>7, <1>3, <1>12
<1>15. ASSUME NEW m \in L, NEW e \in Side
       PROVE Child(z, m, e) = Swap(n, x, Child(t, Swap(n, x, m), e))
  <2>1. CASE m = n
    <3>1. Child(z, m, e) = Child(t, x, e)  BY <2>1, <1>1, <1>2, <1>10
    <3>2. Child(t, x, e) # n /\ Child(t, x, e) # x  BY <1>3, <1>13, LinkFacts DEF p
    <3> QED BY <2>1, <3>1, <3>2 DEF Swap
  <2>2. CASE m = x
    <3>1. Child(z, m, e) = Child(t, n, e)  BY <2>2, <1>1, <1>2, <1>10
    <3>2. Child(t, n, e) # n /\ Child(t, n, e) # x  BY <1>3, <1>13, LinkFacts DEF q
    <3> QED BY <2>2, <3>1, <3>2 DEF Swap
  <2>3. CASE m # n /\ m # x
    <3>1. Child(z, m, e) = Child(w2, m, e)  BY <2>3, <1>10, <1>13
    <3> QED BY <2>3, <3>1, <1>14 DEF Swap
  <2> QED BY <2>1, <2>2, <2>3
<1>16. ASSUME NEW m \in L
       PROVE Parent(z, m) = Swap(n, x, Parent(t, Swap(n, x, m)))
  <2>1. CASE m = n
    <3>1. Parent(z, m) = q  BY <2>1, <1>1, <1>10
    <3> QED BY <2>1, <3>1, <1>3 DEF Swap, q
  <2>2. CASE m = x
    <3>1. Parent(z, m) = p  BY <2>2, <1>1, <1>10
    <3> QED BY <2>2, <3>1, <1>3 DEF Swap, p
  <2>3. CASE m # n /\ m # x
    <3>1. Parent(z, m) = Parent(w2, m)  BY <2>3, <1>10, <1>13
    <3>2. m = x1 \/ m = x2 <=> Parent(t, m) = x
      <4>1. m = x1 \/ m = x2 => Parent(t, m) = x  BY <1>1, <1>13, LinkFacts DEF x1, x2
      <4>2. Parent(t, m) = x => \E e \in Side : Child(t, x, e) = m  BY <1>13, LinkFacts
      <4> QED BY <4>1, <4>2, <1>1 DEF x1, x2
    <3>3. m = n1 \/ m = n2 <=> Parent(t, m) = n
      <4>1. m = n1 \/ m = n2 => Parent(t, m) = n  BY <1>1, <1>13, LinkFacts DEF n1, n2
      <4>2. Parent(t, m) = n => \E e \in Side : Child(t, n, e) = m  BY <1>13, LinkFacts
      <4> QED BY <4>1, <4>2, <1>1 DEF n1, n2
    <3> QED BY <2>3, <3>1, <3>2, <3>3, <1>11, <1>13 DEF Swap
  <2> QED BY <2>1, <2>2, <2>3
<1>17. z.root = Swap(n, x, t.root)
  <2>1. z.root = IF p = NULL THEN x ELSE t.root
    BY <1>3, <1>4, <1>5, <1>6, <1>7, <1>8, <1>9, <1>10 DEF Replaced, GetsParent
  <2>2. (t.root = n <=> p = NULL) /\ t.root # x  BY <1>3, LinkFacts DEF p, q
  <2> QED BY <2>1, <2>2 DEF Swap
<1>18. Reshaped(t, z, L, n, x)  BY <1>10, <1>15, <1>16, <1>17 DEF Reshaped
<1>19. \A m \in L : Extra(z, m) = Extra(t, m)
  BY <1>4, <1>5, <1>6, <1>7, <1>8, <1>9, <1>10, <1>13 DEF Replaced, GetsParent
<1> QED BY <1>0, <1>18, <1>19

(* do_erase_swap_node1 and 2.                                              *)
LEMMA SwapChildIs ==
  ASSUME NEW t, NEW L, NEW r, Links(t, L, r), NEW n \in L, NEW d \in Side, NEW dd \in Side, dd = 3 - d, dd # d,
         NEW x \in L, x = Child(t, n, d), Child(t, x, dd) = NULL
  PROVE /\ Reshaped(t, SwapWithChild(t, n, x, d), L, n, x)
        /\ \A m \in L : Extra(SwapWithChild(t, n, x, d), m) = Extra(t, m)
<1> DEFINE p == Parent(t, n)
           o == Child(t, n, dd)
           c == Child(t, x, d)
           u1 == Replace(t, p, n, x)
           u2 == Adopt(u1, p, x)
           v1 == SetChild(u2, x, dd, o)
           v2 == SetChild(v1, n, dd, NULL)
           w1 == SetChild(v2, n, d, c)
           z == SetChild(w1, x, d, n)
<1>0. z = SwapWithChild(t, n, x, d)  BY DEF SwapWithChild
<1>1. /\ TreeType(t) /\ n \in Nodes /\ x \in Nodes /\ p \in Node /\ n \in Node /\ x \in Node
      /\ o \in Node /\ c \in Node /\ NULL \in Node
      /\ \A e \in Side : e = d \/ e = dd
  BY LinkFacts DEF Node, Side
<1>2. /\ Parent(t, x) = n /\ x # n /\ x # NULL /\ n # NULL /\ t.root # x /\ (t.root = n <=> p = NULL)
      /\ p # x /\ p # n
      /\ o # x /\ o # n /\ c # n /\ c # x
      /\ o # NULL => Parent(t, o) = n
      /\ c # NULL => Parent(t, c) = x
      /\ \A m \in L : m \in Nodes /\ m # NULL
  <2>1. Parent(t, x) = n /\ x # n /\ x # NULL /\ n # NULL /\ t.root # x /\ (t.root = n <=> p = NULL) /\ p # n
    BY LinkFacts
  <2>2. p # x
    <3>1. p # NULL => r[p] < r[n] /\ r[n] < r[x] /\ r[p] \in Nat /\ r[n] \in Nat /\ r[x] \in Nat  BY <2>1, LinkFacts
    <3> QED BY <3>1, <2>1
  <2>3. o # x /\ o # n /\ c # n /\ c # x
    <3>1. o # x /\ o # n  BY <2>1, LinkFacts
    <3>2. c # x /\ (c # NULL => Parent(t, c) = x)  BY LinkFacts
    <3> QED BY <3>1, <3>2, <2>1, <2>2
  <2> QED BY <2>1, <2>2, <2>3, LinkFacts
<1>x. x = Child(t, n, d) /\ Child(t, x, dd) = NULL /\ Child(t, n, dd) = o /\ Child(t, x, d) = c
  OBVIOUS
<1> HIDE DEF p, o, c
<1>3. Replaced(t, u1, p, n, x)  BY <1>1, Replaces, Zenon
<1> HIDE DEF u1
<1>4. GetsParent(u1, u2, x, p)
  <2>1. TreeType(u1)  BY <1>3 DEF Replaced
  <2> QED BY <2>1, <1>1, Adopted, Zenon
<1> HIDE DEF u2
<1>5. Joined(u2, v1, x, dd, o)
  <2>1. TreeType(u2)  BY <1>4 DEF GetsParent
  <2> QED BY <2>1, <1>1, SetChildJoins, Zenon
<1> HIDE DEF v1
<1>6. Joined(v1, v2, n, dd, NULL)
  <2>1. TreeType(v1)  BY <1>5 DEF Joined
  <2> QED BY <2>1, <1>1, SetChildJoins, Zenon
<1> HIDE DEF v2
<1>7. Joined(v2, w1, n, d, c)
  <2>1. TreeType(v2)  BY <1>6 DEF Joined
  <2> QED BY <2>1, <1>1, SetChildJoins, Zenon
<1> HIDE DEF w1
<1>8. Joined(w1, z, x, d, n)
  <2>1. TreeType(w1)  BY <1>7 DEF Joined
  <2> QED BY <2>1, <1>1, SetChildJoins, Zenon
<1> HIDE DEF z
<1>9. \A m \in L : \A e \in Side : Child(u1, m, e) = IF Child(t, m, e) = n THEN x ELSE Child(t, m, e)
  BY <1>3, ReplacedAnywhere DEF p
<1>10. \A m \in L : Parent(z, m) = IF m = n THEN x ELSE IF m = c THEN n ELSE IF m = o THEN x
                                   ELSE IF m = x THEN p ELSE Parent(t, m)
  BY <1>2, <1>3, <1>4, <1>5, <1>6, <1>7, <1>8 DEF Replaced, GetsParent, Joined
<1>11. \A m \in L : \A e \in Side :
         Child(z, m, e) = IF m = x THEN IF e = d THEN n ELSE o
                          ELSE IF m = n THEN IF e = d THEN c ELSE NULL
                          ELSE Child(u1, m, e)
  <2> SUFFICES ASSUME NEW m \in L, NEW e \in Side
               PROVE Child(z, m, e) = IF m = x THEN IF e = d THEN n ELSE o
                          ELSE IF m = n THEN IF e = d THEN c ELSE NULL
                          ELSE Child(u1, m, e)
    OBVIOUS
  <2>1. m \in Nodes /\ (e = d \/ e = dd)  BY <1>1, <1>2
  <2>2. Child(u2, m, e) = Child(u1, m, e)  BY <2>1, <1>4 DEF GetsParent
  <2>3. Child(v1, m, e) = IF m = x /\ e = dd THEN o ELSE Child(u2, m, e)  BY <2>1, <1>5 DEF Joined
  <2>4. Child(v2, m, e) = IF m = n /\ e = dd THEN NULL ELSE Child(v1, m, e)  BY <2>1, <1>6 DEF Joined
  <2>5. Child(w1, m, e) = IF m = n /\ e = d THEN c ELSE Child(v2, m, e)  BY <2>1, <1>7 DEF Joined
  <2>6. Child(z, m, e) = IF m = x /\ e = d THEN n ELSE Child(w1, m, e)  BY <2>1, <1>8 DEF Joined
  <2> QED BY <2>1, <2>2, <2>3, <2>4, <2>5, <2>6, <1>2
<1>12. ASSUME NEW m \in L, NEW e \in Side
       PROVE Child(z, m, e) = Swap(n, x, Child(t, Swap(n, x, m), e))
  <2>1. CASE m = n  BY <2>1, <1>1, <1>2, <1>x, <1>11, NodesAssumption DEF Swap
  <2>2. CASE m = x  BY <2>2, <1>1, <1>2, <1>x, <1>11, NodesAssumption DEF Swap
  <2>3. CASE m # n /\ m # x
    <3>1. Child(z, m, e) = IF Child(t, m, e) = n THEN x ELSE Child(t, m, e)  BY <2>3, <1>9, <1>11
    <3>2. Child(t, m, e) # x  BY <2>3, <1>2, LinkFacts
    <3> QED BY <2>3, <3>1, <3>2 DEF Swap
  <2> QED BY <2>1, <2>2, <2>3
<1>13. ASSUME NEW m \in L
       PROVE Parent(z, m) = Swap(n, x, Parent(t, Swap(n, x, m)))
  <2>1. CASE m = n  BY <2>1, <1>2, <1>10 DEF Swap, p
  <2>2. CASE m = x  BY <2>2, <1>2, <1>10 DEF Swap, p
  <2>3. CASE m # n /\ m # x
    <3>1. m = c <=> Parent(t, m) = x
      <4>1. Parent(t, m) = x => \E e \in Side : Child(t, x, e) = m  BY <1>2, LinkFacts
      <4> QED BY <4>1, <1>1, <1>2, <1>x
    <3>2. m = o <=> Parent(t, m) = n
      <4>1. Parent(t, m) = n => \E e \in Side : Child(t, n, e) = m  BY <1>2, LinkFacts
      <4> QED BY <4>1, <2>3, <1>1, <1>2, <1>x
    <3> QED BY <2>3, <3>1, <3>2, <1>2, <1>10 DEF Swap
  <2> QED BY <2>1, <2>2, <2>3
<1>14. z.root = Swap(n, x, t.root)
  <2>1. z.root = IF p = NULL THEN x ELSE t.root
    BY <1>3, <1>4, <1>5, <1>6, <1>7, <1>8 DEF Replaced, GetsParent, Joined
  <2> QED BY <2>1, <1>2 DEF Swap
<1>15. TreeType(z)  BY <1>8 DEF Joined
<1>16. Reshaped(t, z, L, n, x)  BY <1>12, <1>13, <1>14, <1>15 DEF Reshaped
<1>17. \A m \in L : Extra(z, m) = Extra(t, m)
  BY <1>2, <1>3, <1>4, <1>5, <1>6, <1>7, <1>8 DEF Replaced, GetsParent, Joined
<1> QED BY <1>0, <1>16, <1>17

(* The exchange of two nodes, as a renaming, is its own inverse.           *)
LEMMA SwapFacts ==
  ASSUME NEW L, NULL \notin L, NEW n \in L, NEW x \in L
  PROVE /\ \A m \in L : Swap(n, x, m) \in L
        /\ \A m : (m \in L \cup {NULL}) => Swap(n, x, m) \in L \cup {NULL}
        /\ \A m : Swap(n, x, Swap(n, x, m)) = m
        /\ \A m : Swap(n, x, m) = NULL <=> m = NULL
        /\ \A m, k : Swap(n, x, m) = Swap(n, x, k) => m = k
BY DEF Swap

(* The links agree in the new places as they did in the old.               *)
LEMMA SwappedLinks ==
  ASSUME NEW t, NEW L, NEW r, Links(t, L, r), NEW n \in L, NEW x \in L, NEW w, Reshaped(t, w, L, n, x)
  PROVE \E r2 : Links(w, L, r2)
<1> DEFINE s(m) == Swap(n, x, m)
           r2 == [m \in Nodes |-> r[s(m)]]
<1>1. TreeType(t) /\ L \subseteq Nodes /\ r \in [Nodes -> Nat] /\ NULL \notin L  BY LinkFacts DEF Links
<1>2. /\ \A m \in L : s(m) \in L
      /\ \A m : (m \in L \cup {NULL}) => s(m) \in L \cup {NULL}
      /\ \A m : s(s(m)) = m
      /\ \A m : s(m) = NULL <=> m = NULL
      /\ \A m, k : s(m) = s(k) => m = k
  BY <1>1, SwapFacts
<1>3. r2 \in [Nodes -> Nat] /\ \A m \in Nodes : r2[m] = r[s(m)]
  <2>1. \A m \in Nodes : s(m) \in Nodes  BY <1>1 DEF Swap
  <2> QED BY <2>1, <1>1
<1>4. /\ TreeType(w) /\ w.root = s(t.root)
      /\ \A m \in L : /\ Parent(w, m) = s(Parent(t, s(m)))
                      /\ \A e \in Side : Child(w, m, e) = s(Child(t, s(m), e))
  BY DEF Reshaped
<1> HIDE DEF s, r2
<1>5. w.root \in L \/ (w.root = NULL /\ L = {})  BY <1>2, <1>4 DEF Links
<1>6. \A m \in L : m = w.root => Parent(w, m) = NULL
  <2> SUFFICES ASSUME NEW m \in L, m = w.root PROVE Parent(w, m) = NULL  OBVIOUS
  <2>1. s(m) = t.root /\ s(m) \in L  BY <1>2, <1>4
  <2>2. Parent(t, s(m)) = NULL  BY <2>1 DEF Links
  <2> QED BY <2>2, <1>2, <1>4
<1>7. ASSUME NEW m \in L, m # w.root
      PROVE /\ Parent(w, m) \in L /\ r2[Parent(w, m)] < r2[m]
            /\ \E e \in Side : Child(w, Parent(w, m), e) = m
  <2> DEFINE k == s(m)
             q == Parent(t, k)
  <2>1. k \in L /\ k # t.root  BY <1>2, <1>4, <1>7
  <2>2. q \in L /\ r[q] < r[k] /\ \E e \in Side : Child(t, q, e) = k  BY <2>1 DEF Links
  <2>3. Parent(w, m) = s(q) /\ s(q) \in L /\ s(s(q)) = q  BY <2>2, <1>2, <1>4
  <2>4. r2[m] = r[k] /\ r2[s(q)] = r[q]  BY <2>3, <1>1, <1>3
  <2>5. PICK e \in Side : Child(t, q, e) = k  BY <2>2
  <2>6. Child(w, s(q), e) = s(k) /\ s(k) = m  BY <2>3, <2>5, <1>2, <1>4
  <2> QED BY <2>2, <2>3, <2>4, <2>6
<1>8. ASSUME NEW m \in L, NEW e \in Side, Child(w, m, e) # NULL
      PROVE /\ Child(w, m, e) \in L /\ Parent(w, Child(w, m, e)) = m
            /\ Child(w, m, 3 - e) # Child(w, m, e)
  <2> DEFINE k == s(m)
             c == Child(t, k, e)
             o == Child(t, k, 3 - e)
  <2>1. k \in L /\ 3 - e \in Side  BY <1>2 DEF Side
  <2>2. Child(w, m, e) = s(c) /\ Child(w, m, 3 - e) = s(o)  BY <2>1, <1>4
  <2>3. c # NULL  BY <2>2, <1>2, <1>8
  <2>4. c \in L /\ Parent(t, c) = k /\ o # c  BY <2>1, <2>3 DEF Links
  <2>5. s(c) \in L /\ s(s(c)) = c /\ s(o) # s(c) /\ s(k) = m  BY <2>4, <1>2
  <2>6. Parent(w, s(c)) = m  BY <2>4, <2>5, <1>4
  <2> QED BY <2>2, <2>5, <2>6
<1>9. Links(w, L, r2)  BY <1>1, <1>3, <1>4, <1>5, <1>6, <1>7, <1>8 DEF Links
<1> QED BY <1>9

(* And so do the heights.                                                  *)
LEMMA SwappedHeights ==
  ASSUME NEW L, L \subseteq Nodes, NEW n \in L, NEW x \in L, NEW h, Heights(h),
         NEW h2, h2 = [m \in Node |-> h[Swap(n, x, m)]]
  PROVE Heights(h2) /\ \A m \in Node : h2[Swap(n, x, m)] = h[m] /\ h2[m] = h[Swap(n, x, m)]
<1>1. \A m \in Node : Swap(n, x, m) \in Node /\ Swap(n, x, Swap(n, x, m)) = m  BY DEF Swap, Node
<1>2. Swap(n, x, NULL) = NULL /\ NULL \in Node  BY NodesAssumption DEF Swap, Node
<1> QED BY <1>1, <1>2 DEF Heights

(* Two nodes that change places and colours leave a red-black tree,        *)
LEMMA SwappedRbt ==
  ASSUME NEW t, NEW L, NEW r, Links(t, L, r), NEW n \in L, NEW x \in L, NEW w, Swapped(t, w, L, n, x),
         NEW h, RbtWhole(t, L, h)
  PROVE \E h2 : RbtWhole(w, L, h2)
<1> DEFINE s(m) == Swap(n, x, m)
           h2 == [m \in Node |-> h[s(m)]]
<1>1. L \subseteq Nodes /\ NULL \notin L  BY LinkFacts DEF Links
<1>2. /\ \A m \in L : s(m) \in L
      /\ \A m : (m \in L \cup {NULL}) => s(m) \in L \cup {NULL}
      /\ \A m : s(s(m)) = m
      /\ \A m : s(m) = NULL <=> m = NULL
  BY <1>1, SwapFacts
<1>3. /\ w.root = s(t.root)
      /\ \A m \in L : /\ Extra(w, m) = Extra(t, s(m))
                      /\ \A e \in Side : Child(w, m, e) = s(Child(t, s(m), e))
  BY DEF Swapped, Reshaped
<1>4. Heights(h2) /\ \A m \in Node : h2[s(m)] = h[m] /\ h2[m] = h[s(m)]
  <2>1. h2 = [m \in Node |-> h[Swap(n, x, m)]]  OBVIOUS
  <2> HIDE DEF h2
  <2> QED BY <2>1, <1>1, SwappedHeights DEF RbtWhole
<1> HIDE DEF s, h2
<1>5. ASSUME NEW m \in L \cup {NULL} PROVE is_red(w, m) <=> is_red(t, s(m))
  BY <1>1, <1>2, <1>3 DEF is_red
<1>6. ASSUME NEW m \in L PROVE Even(w, h2, m)
  <2>1. s(m) \in L /\ m \in Node  BY <1>1, <1>2 DEF Node
  <2>2. Even(t, h, s(m))  BY <2>1 DEF RbtWhole
  <2>3. \A e \in Side : Child(t, s(m), e) \in Node  BY <2>1, LinkFacts
  <2>4. \A e \in Side : h2[Child(w, m, e)] = h[Child(t, s(m), e)]  BY <2>3, <1>3, <1>4
  <2>5. Blacks(w, m) = Blacks(t, s(m))  BY <1>3 DEF Blacks
  <2>6. h2[m] = h[s(m)]  BY <2>1, <1>4
  <2> QED BY <2>2, <2>4, <2>5, <2>6 DEF Even
<1>7. ASSUME NEW m \in L, NEW e \in Side, is_red(w, m) PROVE is_black(w, Child(w, m, e))
  <2>1. s(m) \in L /\ is_red(t, s(m))  BY <1>2, <1>5, <1>7
  <2>2. is_black(t, Child(t, s(m), e)) /\ Child(t, s(m), e) \in L \cup {NULL}
    BY <2>1, LinkFacts DEF RbtWhole
  <2>3. Child(w, m, e) \in L \cup {NULL} /\ s(Child(w, m, e)) = Child(t, s(m), e)  BY <2>2, <1>2, <1>3
  <2> QED BY <2>2, <2>3, <1>5 DEF is_black
<1>8. is_black(w, w.root)
  <2>1. is_black(t, t.root) /\ t.root \in L \cup {NULL}  BY LinkFacts DEF RbtWhole
  <2>2. w.root \in L \cup {NULL} /\ s(w.root) = t.root  BY <2>1, <1>2, <1>3
  <2> QED BY <2>1, <2>2, <1>5 DEF is_black
<1>9. RbtWhole(w, L, h2)  BY <1>4, <1>6, <1>7, <1>8 DEF RbtWhole
<1> QED BY <1>9

(* and an AVL tree.                                                        *)
LEMMA SwappedAvl ==
  ASSUME NEW t, NEW L, NEW r, Links(t, L, r), NEW n \in L, NEW x \in L, NEW w, Swapped(t, w, L, n, x),
         NEW h, AvlWhole(t, L, h)
  PROVE \E h2 : AvlWhole(w, L, h2)
<1> DEFINE s(m) == Swap(n, x, m)
           h2 == [m \in Node |-> h[s(m)]]
<1>1. L \subseteq Nodes /\ NULL \notin L  BY LinkFacts DEF Links
<1>2. \A m \in L : s(m) \in L  BY <1>1, SwapFacts
<1>3. \A m \in L : /\ Extra(w, m) = Extra(t, s(m))
                   /\ \A e \in Side : Child(w, m, e) = s(Child(t, s(m), e))
  BY DEF Swapped, Reshaped
<1>4. Heights(h2) /\ \A m \in Node : h2[s(m)] = h[m] /\ h2[m] = h[s(m)]
  <2>1. h2 = [m \in Node |-> h[Swap(n, x, m)]]  OBVIOUS
  <2> HIDE DEF h2
  <2> QED BY <2>1, <1>1, SwappedHeights DEF AvlWhole
<1> HIDE DEF s, h2
<1>6. ASSUME NEW m \in L PROVE Tall(w, h2, m)
  <2>1. s(m) \in L /\ m \in Node  BY <1>1, <1>2 DEF Node
  <2>2. Tall(t, h, s(m))  BY <2>1 DEF AvlWhole
  <2>3. \A e \in Side : Child(t, s(m), e) \in Node /\ 3 - e \in Side  BY <2>1, LinkFacts DEF Side
  <2>4. \A e \in Side : h2[Child(w, m, e)] = h[Child(t, s(m), e)]  BY <2>3, <1>3, <1>4
  <2>6. h2[m] = h[s(m)] /\ Extra(w, m) = Extra(t, s(m))  BY <2>1, <1>3, <1>4
  <2> QED BY <2>2, <2>3, <2>4, <2>6 DEF Tall, Tilt
<1>9. AvlWhole(w, L, h2)  BY <1>4, <1>6 DEF AvlWhole
<1> QED BY <1>9

(* do_erase_swap_node: n changes places with the node before it.           *)
LEMMA SwapNodesIs ==
  ASSUME NEW t, NEW L, NEW r, Links(t, L, r), NEW n \in L, Child(t, n, 1) # NULL, Child(t, n, 2) # NULL,
         NEW x, x = Lowest(t, Child(t, n, 1), 2), NEW w, w = SwapNodes(t, n, x)
  PROVE /\ x \in L /\ Swapped(t, w, L, n, x) /\ Child(w, n, 2) = NULL
<1> DEFINE c == Child(t, n, 1)
           i == Extra(t, x)
           j == Extra(t, n)
           u == Mark(Mark(t, n, i), x, j)
           d == 1
           dd == 2
<1>1. d \in Side /\ dd \in Side /\ dd = 3 - d /\ dd # d /\ c = Child(t, n, d) /\ c # NULL /\ x = Lowest(t, c, dd)
  BY DEF Side
<1> HIDE DEF c, d, dd
<1>2. /\ x \in L /\ x # n /\ x # Parent(t, n) /\ Child(t, x, dd) = NULL
      /\ x # Child(t, n, dd) /\ Parent(t, x) \in L
      /\ x # c => Parent(t, x) # n /\ Parent(t, x) # Parent(t, n)
  BY <1>1, LowestIs
<1>3. TreeType(t) /\ L \subseteq Nodes /\ NULL \notin L /\ i \in Int /\ j \in Int
  <2>1. TreeType(t) /\ NULL \notin L /\ i \in Int /\ j \in Int  BY <1>2, LinkFacts
  <2> QED BY <2>1 DEF Links
<1>4. /\ Recoloured(t, u) /\ Extra(u, n) = i /\ Extra(u, x) = j
      /\ \A m \in Nodes \ {n, x} : Extra(u, m) = Extra(t, m)
  <2>1. u = Mark(Mark(t, n, i), x, j) /\ n \in Nodes /\ x \in Nodes /\ n # x  BY <1>2, <1>3
  <2> HIDE DEF u, i, j
  <2> QED BY <2>1, <1>3, TwoMarks
<1>0. w = IF c = x THEN SwapWithChild(u, n, x, d)
          ELSE IF Child(t, n, dd) = x THEN SwapWithChild(u, n, x, dd)
          ELSE SwapWithOther(u, n, x)
  BY DEF SwapNodes, c, d, dd
<1> HIDE DEF u
<1>5. Links(u, L, r)  BY <1>4, RecolouredLinks
<1>6. \A m \in L : Parent(u, m) = Parent(t, m) /\ \A e \in Side : Child(u, m, e) = Child(t, m, e)
  BY <1>3, <1>4 DEF Recoloured
<1>7. Reshaped(u, w, L, n, x) /\ \A m \in L : Extra(w, m) = Extra(u, m)
  <2>1. CASE c = x
    <3>1. w = SwapWithChild(u, n, x, d)  BY <2>1, <1>0
    <3>2. x = Child(u, n, d) /\ Child(u, x, dd) = NULL  BY <2>1, <1>1, <1>2, <1>6
    <3>3. /\ Links(u, L, r) /\ n \in L /\ d \in Side /\ dd \in Side /\ dd = 3 - d /\ dd # d /\ x \in L
          /\ x = Child(u, n, d) /\ Child(u, x, dd) = NULL
      BY <3>2, <1>1, <1>2, <1>5
    <3>4. Reshaped(u, SwapWithChild(u, n, x, d), L, n, x)  BY <3>3, SwapChildIs
    <3>5. \A m \in L : Extra(SwapWithChild(u, n, x, d), m) = Extra(u, m)  BY <3>3, SwapChildIs
    <3> QED BY <3>1, <3>4, <3>5
  <2>2. CASE c # x
    <3>1. w = SwapWithOther(u, n, x)  BY <2>2, <1>0, <1>2
    <3>2. Parent(u, x) \in L /\ Parent(u, x) # n /\ Parent(u, x) # Parent(u, n) /\ Parent(u, n) # x /\ n # x
      BY <2>2, <1>2, <1>6
    <3> QED BY <3>1, <3>2, <1>2, <1>5, SwapOtherIs
  <2> QED BY <2>1, <2>2
<1>8. \A m \in L : Swap(n, x, m) \in L /\ m \in Nodes  BY <1>2, <1>3, SwapFacts
<1>9. Reshaped(t, w, L, n, x)
  <2>1. u.root = t.root  BY <1>4 DEF Recoloured
  <2> QED BY <2>1, <1>6, <1>7, <1>8 DEF Reshaped
<1>10. \A m \in L : Extra(w, m) = Extra(t, Swap(n, x, m))
  <2> SUFFICES ASSUME NEW m \in L PROVE Extra(w, m) = Extra(t, Swap(n, x, m))  OBVIOUS
  <2>1. Extra(w, m) = Extra(u, m)  BY <1>7
  <2> QED BY <2>1, <1>2, <1>4, <1>8 DEF Swap, i, j
<1>11. Child(w, n, dd) = NULL
  <2>1. Swap(n, x, n) = x  BY DEF Swap
  <2>2. Child(w, n, dd) = Swap(n, x, NULL)  BY <2>1, <1>1, <1>2, <1>9 DEF Reshaped
  <2> QED BY <2>2, <1>2, <1>3 DEF Swap
<1> QED BY <1>2, <1>9, <1>10, <1>11 DEF Swapped, dd

(* The node n is unlinked, its only child c takes its place.               *)
Bypassed(t, u, L, n, c) ==
  /\ TreeType(u) /\ u.root = IF t.root = n THEN c ELSE t.root
  /\ \A m \in L \ {n} : /\ Parent(u, m) = IF m = c THEN Parent(t, n) ELSE Parent(t, m)
                        /\ Extra(u, m) = Extra(t, m)
                        /\ \A e \in Side : Child(u, m, e) = IF Child(t, m, e) = n THEN c ELSE Child(t, m, e)

(* The node that do_erase unlinks has at most one child, which takes its   *)
(* place.                                                                  *)
LEMMA BypassIs ==
  ASSUME NEW t, NEW L, NEW r, Links(t, L, r), NEW n \in L, NEW p, p = Parent(t, n), NEW c \in L \cup {NULL}, c # n,
         NEW u, u = Adopt(Replace(t, p, n, c), p, c)
  PROVE Bypassed(t, u, L, n, c)
<1> DEFINE v == Replace(t, p, n, c)
<1>1. TreeType(t) /\ p \in Node /\ c \in Node /\ (t.root = n <=> p = NULL) /\ \A m \in L : m \in Nodes
  BY LinkFacts DEF Node
<1>2. Replaced(t, v, p, n, c)  BY <1>1, Replaces, Zenon
<1>3. u = Adopt(v, p, c)  OBVIOUS
<1> HIDE DEF v
<1>4. GetsParent(v, u, c, p)
  <2>1. TreeType(v)  BY <1>2 DEF Replaced
  <2> QED BY <2>1, <1>1, <1>3, Adopted
<1>5. \A m \in L : \A e \in Side : Child(v, m, e) = IF Child(t, m, e) = n THEN c ELSE Child(t, m, e)
  BY <1>2, ReplacedAnywhere
<1>6. TreeType(u) /\ u.root = IF t.root = n THEN c ELSE t.root
  BY <1>1, <1>2, <1>4 DEF GetsParent, Replaced
<1>7. \A m \in L : /\ Parent(u, m) = IF m = c THEN p ELSE Parent(t, m)
                   /\ Extra(u, m) = Extra(t, m)
                   /\ \A e \in Side : Child(u, m, e) = Child(v, m, e)
  BY <1>1, <1>2, <1>4 DEF GetsParent, Replaced
<1> QED BY <1>5, <1>6, <1>7 DEF Bypassed

(* A tree with a root that has no child has no other node.                 *)
LEMMA OnlyRoot ==
  ASSUME NEW t, NEW L, NEW r, Links(t, L, r), NEW n \in L, Parent(t, n) = NULL,
         \A e \in Side : Child(t, n, e) = NULL
  PROVE L = {n}
<1> SUFFICES ASSUME L \ {n} # {} PROVE FALSE  OBVIOUS
<1> DEFINE R == OpToRel(<, Nat)
           T == {r[m] : m \in L \ {n}}
<1>1. IsWellFoundedOn(R, Nat) /\ \A y \in Nat : \A x \in Nat : y < x => <<y, x>> \in R
  BY NatLessThanWellFounded DEF OpToRel
<1> HIDE DEF R
<1>2. T \subseteq Nat /\ T # {}  BY LinkFacts
<1>3. \E x \in T : \A y \in T : ~(<<y, x>> \in R)
  <2> HIDE DEF T
  <2> QED BY <1>1, <1>2, WFMin
<1>4. PICK m \in L \ {n} : \A k \in L \ {n} : ~(<<r[k], r[m]>> \in R)  BY <1>3
<1> DEFINE q == Parent(t, m)
<1>5. m # t.root /\ t.root = n  BY LinkFacts
<1>6. q \in L /\ r[q] < r[m] /\ r[q] \in Nat /\ r[m] \in Nat /\ \E e \in Side : Child(t, q, e) = m /\ m # NULL
  BY <1>5, LinkFacts
<1>7. q = n  BY <1>1, <1>4, <1>6
<1> QED BY <1>6, <1>7

(* What is left is a tree on the other nodes.                              *)
LEMMA BypassedLinks ==
  ASSUME NEW t, NEW L, NEW r, Links(t, L, r), NEW n \in L, NEW c, NEW d \in Side, NEW dd \in Side, dd # d,
         Child(t, n, d) = c, Child(t, n, dd) = NULL, NEW u, Bypassed(t, u, L, n, c)
  PROVE Links(u, L \ {n}, r)
<1> DEFINE p == Parent(t, n)
           M == L \ {n}
<1>1. \A e \in Side : e = d \/ e = dd  BY DEF Side
<1>2. /\ n \in Nodes /\ n # NULL /\ r[n] \in Nat /\ p \in L \cup {NULL} /\ (t.root = n <=> p = NULL)
      /\ p # NULL => r[p] < r[n] /\ \E e \in Side : Child(t, p, e) = n
      /\ c \in L \cup {NULL} /\ (c # NULL => Parent(t, c) = n /\ r[n] < r[c] /\ c # t.root /\ c # n)
  BY LinkFacts
<1>3. /\ TreeType(u) /\ u.root = IF t.root = n THEN c ELSE t.root
      /\ \A m \in M : Parent(u, m) = IF m = c THEN p ELSE Parent(t, m)
      /\ \A m \in M : \A e \in Side : Child(u, m, e) = IF Child(t, m, e) = n THEN c ELSE Child(t, m, e)
  BY DEF Bypassed
<1>c. Child(t, n, d) = c /\ Child(t, n, dd) = NULL  OBVIOUS
<1>4. \A m \in L : m \in Nodes /\ m # NULL /\ r[m] \in Nat  BY LinkFacts
<1> HIDE DEF p
<1>5. u.root \in M \/ (u.root = NULL /\ M = {})
  <2>1. CASE t.root = n /\ c = NULL
    <3>1. \A e \in Side : Child(t, n, e) = NULL  BY <1>1, <1>c, <2>1
    <3>2. L = {n}  BY <2>1, <3>1, <1>2, OnlyRoot DEF p
    <3> QED BY <2>1, <3>2, <1>3
  <2>2. CASE t.root = n /\ c # NULL  BY <2>2, <1>2, <1>3
  <2>3. CASE t.root # n  BY <2>3, <1>3 DEF Links
  <2> QED BY <2>1, <2>2, <2>3
<1>6. ASSUME NEW m \in M, m = u.root PROVE Parent(u, m) = NULL
  <2>1. CASE t.root = n  BY <2>1, <1>2, <1>3, <1>6
  <2>2. CASE t.root # n
    <3>1. m = t.root /\ m # c /\ Parent(t, m) = NULL  BY <2>2, <1>2, <1>3, <1>4, <1>6, LinkFacts
    <3> QED BY <3>1, <1>3
  <2> QED BY <2>1, <2>2
<1>7. ASSUME NEW m \in M, m # u.root
      PROVE /\ Parent(u, m) \in M /\ r[Parent(u, m)] < r[m]
            /\ \E e \in Side : Child(u, Parent(u, m), e) = m
  <2>1. CASE m = c
    <3>1. p \in M /\ r[p] < r[n] /\ r[n] < r[m] /\ r[p] \in Nat /\ r[m] \in Nat /\ Parent(u, m) = p
      BY <2>1, <1>2, <1>3, <1>4, <1>7
    <3>2. PICK e \in Side : Child(t, p, e) = n  BY <3>1, <1>2, <1>4
    <3>3. Child(u, p, e) = m  BY <2>1, <3>1, <3>2, <1>3
    <3> QED BY <3>1, <3>3, <1>2
  <2>2. CASE m # c
    <3> DEFINE q == Parent(t, m)
    <3>1. m # t.root  BY <1>3, <1>7
    <3>2. q \in L /\ r[q] < r[m] /\ \E e \in Side : Child(t, q, e) = m  BY <3>1, LinkFacts
    <3>3. q # n  BY <2>2, <3>2, <1>1, <1>c, <1>4
    <3>4. Parent(u, m) = q  BY <2>2, <1>3
    <3>5. \E e \in Side : Child(u, q, e) = m  BY <3>2, <3>3, <1>3
    <3> QED BY <3>2, <3>3, <3>4, <3>5
  <2> QED BY <2>1, <2>2
<1>8. ASSUME NEW m \in M, NEW e \in Side, Child(u, m, e) # NULL
      PROVE /\ Child(u, m, e) \in M /\ Parent(u, Child(u, m, e)) = m
            /\ Child(u, m, 3 - e) # Child(u, m, e)
  <2> DEFINE f == 3 - e
  <2>0. f \in Side /\ f = 3 - e  BY DEF Side
  <2> HIDE DEF f
  <2>1. \A g \in Side : Child(t, m, g) # NULL => Child(t, m, g) \in L /\ Parent(t, Child(t, m, g)) = m
    BY LinkFacts
  <2>2. \A g \in Side : Child(t, m, g) # NULL => Child(t, m, g) # c  BY <2>1, <1>2
  <2>3. Child(t, m, e) # NULL => Child(t, m, f) # Child(t, m, e)  BY <2>0, LinkFacts
  <2>4. CASE Child(t, m, e) = n
    <3>1. Child(u, m, e) = c /\ c \in M /\ c # NULL /\ p = m  BY <2>1, <2>4, <1>2, <1>3, <1>8 DEF p
    <3>2. Child(u, m, f) = Child(t, m, f)  BY <2>0, <2>3, <2>4, <1>2, <1>3
    <3>3. Child(u, m, f) # c  BY <2>0, <2>2, <3>1, <3>2
    <3> QED BY <2>0, <3>1, <3>3, <1>3
  <2>5. CASE Child(t, m, e) # n
    <3> DEFINE k == Child(t, m, e)
    <3>1. Child(u, m, e) = k /\ k # NULL  BY <2>5, <1>3, <1>8
    <3>2. k \in M /\ Parent(t, k) = m /\ k # c  BY <2>1, <2>2, <2>5, <3>1
    <3>3. Parent(u, k) = m  BY <3>2, <1>3
    <3>4. Child(u, m, f) = IF Child(t, m, f) = n THEN c ELSE Child(t, m, f)  BY <2>0, <1>3
    <3>5. Child(u, m, f) # k  BY <3>1, <3>2, <3>4, <2>3
    <3> QED BY <2>0, <3>1, <3>2, <3>3, <3>5
  <2> QED BY <2>4, <2>5
<1>9. M \subseteq Nodes /\ r \in [Nodes -> Nat]  BY DEF Links
<1> QED BY <1>3, <1>5, <1>6, <1>7, <1>8, <1>9 DEF Links

(* The node n that is unlinked has one child at most, and p above it.      *)
Unlinking(t, L, r, n, d, dd, c, p, u) ==
  /\ Links(t, L, r) /\ n \in L /\ d \in Side /\ dd \in Side /\ dd # d
  /\ Child(t, n, d) = c /\ Child(t, n, dd) = NULL /\ p = Parent(t, n)
  /\ Bypassed(t, u, L, n, c)

(* What remains without it.                                                *)
Remaining(t, L, r, n, c, p, u) ==
  /\ Links(u, L \ {n}, r) /\ TreeType(u)
  /\ \A m \in L : m \in Nodes /\ m \in Node /\ m # NULL
  /\ \A m \in L : \A e \in Side : Child(t, m, e) \in Node /\ Child(t, m, e) \in L \cup {NULL}
  /\ n \in L /\ c \in L \cup {NULL} /\ c # n
  /\ c \in Node /\ p # n /\ (t.root = n <=> p = NULL) /\ p \in L \cup {NULL}
  /\ u.root = IF t.root = n THEN c ELSE t.root
  /\ c # NULL => c \in L \ {n} /\ Parent(t, c) = n /\ t.root # c /\ c # p
  /\ \A m \in L \ {n} : Extra(u, m) = Extra(t, m)
  /\ \A m \in L \ {n} : \A e \in Side :
       /\ Child(t, m, e) # NULL => Child(t, m, e) # c
       /\ Child(t, m, e) = n => m = p /\ Child(u, m, e) = c
       /\ Child(t, m, e) # n => Child(u, m, e) = Child(t, m, e)
  /\ p # NULL => /\ p \in L \ {n} /\ SideOf(t, p, n) \in Side
                 /\ \A e \in Side : Child(t, p, e) = n <=> e = SideOf(t, p, n)

(* The links that remain, seen from the parent and the child of the node   *)
(* unlinked.                                                               *)
LEMMA UnlinkedFacts ==
  ASSUME NEW t, NEW L, NEW r, NEW n, NEW d, NEW dd, NEW c, NEW p, NEW u, Unlinking(t, L, r, n, d, dd, c, p, u)
  PROVE Remaining(t, L, r, n, c, p, u)
<1>1. Links(t, L, r) /\ n \in L /\ d \in Side /\ dd \in Side /\ dd # d /\ Child(t, n, d) = c
      /\ Child(t, n, dd) = NULL /\ p = Parent(t, n) /\ Bypassed(t, u, L, n, c)
  BY DEF Unlinking
<1>2. Links(u, L \ {n}, r)  BY <1>1, BypassedLinks
<1>3. /\ \A m \in L : m \in Nodes /\ m \in Node /\ m # NULL
      /\ \A m \in L : \A e \in Side : Child(t, m, e) \in Node /\ Child(t, m, e) \in L \cup {NULL}
  BY <1>1, LinkFacts
<1>4. /\ c \in L \cup {NULL} /\ c \in Node /\ c # n
      /\ c # NULL => Parent(t, c) = n /\ r[n] < r[c] /\ t.root # c /\ r[c] \in Nat /\ r[n] \in Nat
  BY <1>1, LinkFacts
<1>5. /\ p \in L \cup {NULL} /\ p # n /\ (t.root = n <=> p = NULL)
      /\ p # NULL => r[p] < r[n] /\ r[p] \in Nat /\ r[n] \in Nat
  BY <1>1, LinkFacts
<1>6. c # NULL => c # p  BY <1>4, <1>5
<1>7. ASSUME NEW m \in L \ {n}, NEW e \in Side
      PROVE /\ Child(t, m, e) # NULL => Child(t, m, e) # c
            /\ Child(t, m, e) = n => m = p /\ Child(u, m, e) = c
            /\ Child(t, m, e) # n => Child(u, m, e) = Child(t, m, e)
  <2>1. Child(t, m, e) # NULL => Parent(t, Child(t, m, e)) = m  BY <1>1, LinkFacts
  <2>2. Child(u, m, e) = IF Child(t, m, e) = n THEN c ELSE Child(t, m, e)  BY <1>1 DEF Bypassed
  <2> QED BY <2>1, <2>2, <1>1, <1>3, <1>4
<1>8. p # NULL => /\ p \in L \ {n} /\ SideOf(t, p, n) \in Side
                  /\ \A e \in Side : Child(t, p, e) = n <=> e = SideOf(t, p, n)
  <2> SUFFICES ASSUME p # NULL
               PROVE /\ p \in L \ {n} /\ SideOf(t, p, n) \in Side
                     /\ \A e \in Side : Child(t, p, e) = n <=> e = SideOf(t, p, n)
    OBVIOUS
  <2>1. SideOf(t, p, n) \in Side /\ Child(t, p, SideOf(t, p, n)) = n
        /\ \A e \in Side : Child(t, p, e) = n => e = SideOf(t, p, n)
    BY <1>1, SideFacts
  <2> QED BY <2>1, <1>5
<1>9. TreeType(u) /\ u.root = (IF t.root = n THEN c ELSE t.root) /\ \A m \in L \ {n} : Extra(u, m) = Extra(t, m)
  BY <1>1 DEF Bypassed
<1> QED BY <1>1, <1>2, <1>3, <1>4, <1>5, <1>6, <1>7, <1>8, <1>9 DEF Remaining

(* An only child in a red-black tree is red, its parent black.             *)
LEMMA OnlyChild ==
  ASSUME NEW t, NEW L, NEW r, NEW n, NEW d, NEW dd, NEW c, NEW p, NEW u, Unlinking(t, L, r, n, d, dd, c, p, u),
         NEW h, RbtWhole(t, L, h)
  PROVE /\ h[n] = Blacks(t, n) /\ h[c] = 0 /\ h[n] \in Nat
        /\ is_red(t, n) <=> h[n] = 0
        /\ is_black(t, n) <=> h[n] = 1
        /\ c # NULL => is_red(t, c) /\ is_black(t, n)
        /\ p = NULL => is_black(t, n)
<1>1. Links(t, L, r) /\ n \in L /\ d \in Side /\ dd \in Side /\ Child(t, n, d) = c
      /\ Child(t, n, dd) = NULL /\ p = Parent(t, n)
  BY DEF Unlinking
<1>2. Heights(h) /\ n # NULL /\ (p = NULL => t.root = n) /\ h[n] \in Nat /\ h[c] \in Nat /\ h[NULL] = 0
  BY <1>1, LinkFacts, HeightFacts DEF RbtWhole
<1>3. h[n] = h[c] + Blacks(t, n) /\ h[n] = h[NULL] + Blacks(t, n)  BY <1>1 DEF RbtWhole, Even
<1>4. h[n] = Blacks(t, n) /\ h[c] = 0
  <2>1. Blacks(t, n) \in Nat  BY DEF Blacks
  <2> QED BY <2>1, <1>2, <1>3
<1>5. (is_red(t, n) <=> h[n] = 0) /\ (is_black(t, n) <=> h[n] = 1)
  BY <1>2, <1>4 DEF Blacks, is_red, is_black
<1>6. ASSUME c # NULL PROVE is_red(t, c) /\ is_black(t, n)
  <2>1. c \in L  BY <1>1, <1>6, LinkFacts
  <2>2. h[c] = h[Child(t, c, d)] + Blacks(t, c) /\ h[Child(t, c, d)] \in Nat
    BY <1>1, <1>2, <2>1, HeightFacts DEF RbtWhole, Even
  <2>3. Blacks(t, c) = 0
    <3>1. Blacks(t, c) \in Nat  BY DEF Blacks
    <3> QED BY <2>2, <3>1, <1>4
  <2>4. is_red(t, c)  BY <2>3, <1>6 DEF Blacks, is_red
  <2> QED BY <2>4, <1>1 DEF RbtWhole, is_black
<1>7. p = NULL => is_black(t, n)  BY <1>2 DEF RbtWhole
<1> QED BY <1>2, <1>4, <1>5, <1>6, <1>7

(* A red node, or one with a child, or the last one: nothing is missing.   *)
LEMMA UnlinkWhole ==
  ASSUME NEW t, NEW L, NEW r, NEW n, NEW d, NEW dd, NEW c, NEW p, NEW u, Unlinking(t, L, r, n, d, dd, c, p, u),
         NEW h, RbtWhole(t, L, h), is_red(t, n) \/ c # NULL \/ p = NULL, NEW v, v = Mark(u, c, Black)
  PROVE Links(v, L \ {n}, r) /\ \E h2 : RbtWhole(v, L \ {n}, h2)
<1> DEFINE M == L \ {n}
           h2 == [m \in Node |-> IF m = c /\ c # NULL THEN 1 ELSE h[m]]
<1>1. /\ Links(u, M, r) /\ TreeType(u)
      /\ \A m \in L : m \in Nodes /\ m \in Node /\ m # NULL
      /\ \A m \in L : \A e \in Side : Child(t, m, e) \in Node /\ Child(t, m, e) \in L \cup {NULL}
      /\ c \in L \cup {NULL} /\ c # n /\ c \in Node
      /\ u.root = IF t.root = n THEN c ELSE t.root
      /\ c # NULL => c \in M /\ t.root # c /\ Parent(t, c) = n /\ c # p
      /\ \A m \in M : Extra(u, m) = Extra(t, m)
      /\ \A m \in M : \A e \in Side :
             /\ Child(t, m, e) # NULL => Child(t, m, e) # c
             /\ Child(t, m, e) = n => m = p /\ Child(u, m, e) = c
             /\ Child(t, m, e) # n => Child(u, m, e) = Child(t, m, e)
  <2>1. Remaining(t, L, r, n, c, p, u)  BY UnlinkedFacts
  <2> QED BY <2>1 DEF Remaining
<1>2. /\ h[c] = 0 /\ h[n] \in Nat /\ (is_red(t, n) <=> h[n] = 0) /\ (is_black(t, n) <=> h[n] = 1)
      /\ c # NULL => is_red(t, c) /\ is_black(t, n)
      /\ Heights(h) /\ h[NULL] = 0
  BY OnlyChild DEF RbtWhole, Heights
<1>3. GetsExtra(u, v, c, Black)
  <2>1. Black \in Int  BY DEF Black
  <2> QED BY <1>1, <2>1, Marked
<1>4. /\ TreeType(v) /\ v.root = u.root
      /\ \A m \in M : Extra(v, m) = IF m = c THEN Black ELSE Extra(t, m)
      /\ \A m \in M : \A e \in Side : Child(v, m, e) = Child(u, m, e)
  BY <1>1, <1>3 DEF GetsExtra
<1>5. Links(v, M, r)
  <2>1. Recoloured(u, v)  BY <1>3 DEF GetsExtra, Recoloured
  <2> QED BY <1>1, <2>1, RecolouredLinks
<1>6. Heights(h2) /\ \A m \in Node : h2[m] = IF m = c /\ c # NULL THEN 1 ELSE h[m]
  BY <1>2 DEF Heights, Node
<1> HIDE DEF h2
<1>7. ASSUME NEW m \in M PROVE Even(v, h2, m)
  <2>1. \A e \in Side : h[m] = h[Child(t, m, e)] + Blacks(t, m)  BY DEF RbtWhole, Even
  <2>2. CASE m = c
    <3>1. Blacks(t, m) = 0 /\ Blacks(v, m) = 1 /\ h[m] = 0
      BY <2>2, <1>1, <1>2, <1>4 DEF Blacks, is_red, Black, Red
    <3>2. \A e \in Side : Child(v, m, e) = Child(t, m, e) /\ h2[Child(t, m, e)] = h[Child(t, m, e)]
      BY <2>2, <1>1, <1>4, <1>6
    <3>3. h2[m] = 1  BY <2>2, <1>1, <1>6
    <3>4. \A e \in Side : h[Child(t, m, e)] \in Nat  BY <1>1, <1>2 DEF Heights
    <3> QED BY <2>1, <3>1, <3>2, <3>3, <3>4 DEF Even
  <2>3. CASE m # c
    <3>1. Blacks(v, m) = Blacks(t, m) /\ h2[m] = h[m]  BY <2>3, <1>1, <1>4, <1>6 DEF Blacks
    <3>2. ASSUME NEW e \in Side PROVE h2[Child(v, m, e)] = h[Child(t, m, e)]
      <4>1. CASE Child(t, m, e) = n
        <5>1. Child(v, m, e) = c /\ m = p /\ p # NULL  BY <4>1, <1>1, <1>4
        <5>2. CASE c # NULL
          <6>1. h2[c] = 1 /\ h[n] = 1  BY <5>2, <1>1, <1>2, <1>6
          <6> QED BY <4>1, <5>1, <6>1
        <5>3. CASE c = NULL
          <6>1. h2[c] = 0  BY <5>3, <1>6 DEF Heights
          <6>2. h[n] = 0  BY <5>1, <5>3, <1>2
          <6> QED BY <4>1, <5>1, <6>1, <6>2
        <5> QED BY <5>2, <5>3
      <4>2. CASE Child(t, m, e) # n
        <5>1. Child(v, m, e) = Child(t, m, e)  BY <4>2, <1>1, <1>4
        <5>2. Child(t, m, e) \in Node /\ ~(Child(t, m, e) = c /\ c # NULL)  BY <1>1
        <5> QED BY <5>1, <5>2, <1>6
      <4> QED BY <4>1, <4>2
    <3> QED BY <2>1, <3>1, <3>2 DEF Even
  <2> QED BY <2>2, <2>3
<1>8. is_black(v, c)  BY <1>1, <1>4 DEF is_black, is_red, Red, Black
<1>9. ASSUME NEW m \in M, NEW e \in Side, is_red(v, m) PROVE is_black(v, Child(v, m, e))
  <2>1. CASE Child(t, m, e) = n  BY <2>1, <1>1, <1>4, <1>8
  <2>2. CASE Child(t, m, e) # n
    <3>1. m # c /\ is_red(t, m)  BY <1>4, <1>8, <1>9 DEF is_red, is_black
    <3>2. is_black(t, Child(t, m, e))  BY <3>1 DEF RbtWhole
    <3>3. Child(v, m, e) = Child(t, m, e) /\ (Child(t, m, e) # NULL => Child(t, m, e) \in M)
      BY <2>2, <1>1, <1>4
    <3> QED BY <3>2, <3>3, <1>1, <1>4 DEF is_black, is_red
  <2> QED BY <2>1, <2>2
<1>10. is_black(v, v.root)
  <2>1. CASE t.root = n  BY <2>1, <1>1, <1>4, <1>8
  <2>2. CASE t.root # n
    <3>1. is_black(t, t.root) /\ v.root = t.root /\ (t.root # NULL => t.root \in M)
      BY <2>2, <1>1, <1>4 DEF RbtWhole, Unlinking, Links
    <3> QED BY <3>1, <1>1, <1>4 DEF is_black, is_red
  <2> QED BY <2>1, <2>2
<1>11. RbtWhole(v, M, h2)  BY <1>6, <1>7, <1>9, <1>10 DEF RbtWhole
<1> QED BY <1>5, <1>11

(* A black node that is not the last and has no red child: a black is      *)
(* missing.                                                                *)
LEMMA UnlinkLacks ==
  ASSUME NEW t, NEW L, NEW r, NEW n, NEW d, NEW dd, NEW c, NEW p, NEW u, Unlinking(t, L, r, n, d, dd, c, p, u),
         NEW h, RbtWhole(t, L, h), is_black(t, n), is_black(t, c), p # NULL
  PROVE c = NULL /\ RbtLacking(u, L \ {n}, h, p, Child(u, p, 3 - SideOf(t, p, n)))
<1> DEFINE M == L \ {n}
           f == SideOf(t, p, n)
           s == Child(u, p, 3 - f)
<1>1. /\ Links(u, M, r) /\ TreeType(u)
      /\ \A m \in L : m \in Nodes /\ m \in Node /\ m # NULL
      /\ \A m \in L : \A e \in Side : Child(t, m, e) \in Node /\ Child(t, m, e) \in L \cup {NULL}
      /\ u.root = (IF t.root = n THEN c ELSE t.root) /\ (t.root = n <=> p = NULL)
      /\ \A m \in M : Extra(u, m) = Extra(t, m)
      /\ \A m \in M : \A e \in Side :
             /\ Child(t, m, e) = n => m = p /\ Child(u, m, e) = c
             /\ Child(t, m, e) # n => Child(u, m, e) = Child(t, m, e)
      /\ p \in M /\ f \in Side /\ \A e \in Side : Child(t, p, e) = n <=> e = f
  <2>1. Remaining(t, L, r, n, c, p, u)  BY UnlinkedFacts
  <2> QED BY <2>1 DEF Remaining
<1>2. /\ h[n] = 1 /\ c = NULL /\ Heights(h) /\ h[NULL] = 0
      /\ \A m \in L : \A e \in Side : h[Child(t, m, e)] \in Nat
  BY <1>1, OnlyChild DEF RbtWhole, Heights, is_black
<1>3. 3 - f \in Side /\ 3 - f # f /\ 3 - (3 - f) = f /\ \A e \in Side : e = f \/ e = 3 - f  BY <1>1 DEF Side
<1>4. s = Child(t, p, 3 - f) /\ Child(u, p, f) = NULL /\ Child(t, p, f) = n  BY <1>1, <1>2, <1>3
<1> HIDE DEF f, s
<1>5. h[p] = h[s] + Blacks(t, p) /\ h[p] = h[n] + Blacks(t, p)
  BY <1>1, <1>3, <1>4 DEF RbtWhole, Even
<1>6. h[s] = 1
  <2>1. Blacks(t, p) \in Nat /\ h[s] \in Nat  BY <1>1, <1>2, <1>3, <1>4 DEF Blacks
  <2> QED BY <2>1, <1>2, <1>5
<1>7. s # NULL /\ s \in M /\ Parent(u, s) = p
  <2>1. s # NULL  BY <1>2, <1>6
  <2>2. s = Child(u, p, 3 - f)  BY DEF s
  <2> QED BY <2>1, <2>2, <1>1, <1>3, LinkFacts
<1>8. ASSUME NEW m \in M \ {p} PROVE Even(u, h, m)
  <2>1. \A e \in Side : h[m] = h[Child(t, m, e)] + Blacks(t, m)  BY DEF RbtWhole, Even
  <2>2. \A e \in Side : Child(u, m, e) = Child(t, m, e)  BY <1>1
  <2>3. Blacks(u, m) = Blacks(t, m)  BY <1>1 DEF Blacks
  <2> QED BY <2>1, <2>2, <2>3 DEF Even
<1>9. ASSUME NEW m \in M, NEW e \in Side, is_red(u, m) PROVE is_black(u, Child(u, m, e))
  <2>1. CASE Child(t, m, e) = n  BY <2>1, <1>1, <1>2 DEF is_black, is_red
  <2>2. CASE Child(t, m, e) # n
    <3>1. is_red(t, m)  BY <1>1, <1>9 DEF is_red
    <3>2. is_black(t, Child(t, m, e))  BY <3>1 DEF RbtWhole
    <3>3. Child(u, m, e) = Child(t, m, e) /\ (Child(t, m, e) # NULL => Child(t, m, e) \in M)
      BY <2>2, <1>1
    <3> QED BY <3>2, <3>3, <1>1 DEF is_black, is_red
  <2> QED BY <2>1, <2>2
<1>10. is_black(u, u.root)
  <2>1. is_black(t, t.root) /\ u.root = t.root /\ (t.root # NULL => t.root \in M)
    BY <1>1 DEF RbtWhole, Unlinking, Links
  <2> QED BY <2>1, <1>1 DEF is_black, is_red
<1>11. h[p] = h[s] + Blacks(u, p)  BY <1>1, <1>5 DEF Blacks
<1>12. \A e \in Side : Child(u, p, e) = s =>
         h[Child(u, p, 3 - e)] + 1 = h[s] /\ is_black(u, Child(u, p, 3 - e))
  <2> SUFFICES ASSUME NEW e \in Side, Child(u, p, e) = s
               PROVE h[Child(u, p, 3 - e)] + 1 = h[s] /\ is_black(u, Child(u, p, 3 - e))
    OBVIOUS
  <2>1. e = 3 - f  BY <1>3, <1>4, <1>7
  <2>2. Child(u, p, 3 - e) = NULL  BY <2>1, <1>3, <1>4
  <2> QED BY <2>2, <1>2, <1>6 DEF is_black, is_red
<1>13. RbtLacking(u, M, h, p, s)  BY <1>1, <1>2, <1>7, <1>8, <1>9, <1>10, <1>11, <1>12 DEF RbtLacking
<1> QED BY <1>2, <1>13 DEF s, f

(* In an AVL tree the place of n becomes less deep by one.                 *)
LEMMA UnlinkAvl ==
  ASSUME NEW t, NEW L, NEW r, NEW n, NEW d, NEW dd, NEW c, NEW p, NEW u, Unlinking(t, L, r, n, d, dd, c, p, u),
         NEW h, AvlWhole(t, L, h)
  PROVE /\ p = NULL => AvlWhole(u, L \ {n}, h)
        /\ p # NULL => AvlShrunk(u, L \ {n}, h, p, SideOf(t, p, n))
<1> DEFINE M == L \ {n}
           f == SideOf(t, p, n)
<1>1. /\ n \in L /\ c \in Node
      /\ \A m \in L : m \in Node /\ m # NULL
      /\ \A m \in L : \A e \in Side : Child(t, m, e) \in Node
      /\ \A m \in M : Extra(u, m) = Extra(t, m)
      /\ \A m \in M : \A e \in Side :
             /\ Child(t, m, e) = n => m = p /\ Child(u, m, e) = c
             /\ Child(t, m, e) # n => Child(u, m, e) = Child(t, m, e)
      /\ p # NULL => p \in M /\ f \in Side /\ \A e \in Side : Child(t, p, e) = n <=> e = f
  <2>1. Remaining(t, L, r, n, c, p, u)  BY UnlinkedFacts
  <2> QED BY <2>1 DEF Remaining
<1>2. Heights(h) /\ h[NULL] = 0 /\ \A m \in L : Tall(t, h, m)  BY DEF AvlWhole, Heights
<1>3. d \in Side /\ dd \in Side /\ Child(t, n, d) = c /\ Child(t, n, 3 - d) = NULL
  BY DEF Unlinking, Side
<1>4. h[n] = h[c] + 1
  <2>1. h[n] \in Nat /\ h[c] \in Nat  BY <1>1, <1>2 DEF Heights
  <2>2. Fits(h[n], Tilt(t, n, d), h[c], 0)  BY <1>1, <1>2, <1>3 DEF Tall
  <2> QED BY <2>1, <2>2 DEF Fits
<1>5. ASSUME NEW m \in M, m # p PROVE Tall(u, h, m)
  <2>1. Tall(t, h, m) /\ Extra(u, m) = Extra(t, m)  BY <1>1, <1>2
  <2>2. \A e \in Side : Child(u, m, e) = Child(t, m, e)  BY <1>1, <1>5
  <2> QED BY <2>1, <2>2, TallElsewhere
<1>6. ASSUME p = NULL PROVE AvlWhole(u, M, h)
  BY <1>1, <1>2, <1>5, <1>6 DEF AvlWhole
<1>7. ASSUME p # NULL PROVE AvlShrunk(u, M, h, p, f)
  <2>1. p \in M /\ f \in Side /\ 3 - f \in Side /\ 3 - f # f  BY <1>1, <1>7 DEF Side
  <2>2. Child(t, p, f) = n /\ Child(u, p, f) = c /\ Child(u, p, 3 - f) = Child(t, p, 3 - f)  BY <2>1, <1>1, <1>7
  <2>3. Fits(h[p], Tilt(t, p, f), h[Child(t, p, f)], h[Child(t, p, 3 - f)])  BY <2>1, <1>2 DEF Tall
  <2>4. Tilt(u, p, f) = Tilt(t, p, f)  BY <2>1, <1>1 DEF Tilt
  <2>5. Fits(h[p], Tilt(u, p, f), h[Child(u, p, f)] + 1, h[Child(u, p, 3 - f)])
    BY <2>2, <2>3, <2>4, <1>4
  <2> HIDE DEF f
  <2> QED BY <2>1, <2>5, <1>2, <1>5 DEF AvlShrunk
<1> QED BY <1>6, <1>7

(* do_erase before it unlinks n: the node before n may have taken its      *)
(* place.                                                                  *)
Prepared(t, v, L, n, c, p, u) ==
  /\ \E r : \E d, dd \in Side : Unlinking(v, L, r, n, d, dd, c, p, u)
  /\ \A h : RbtWhole(t, L, h) => \E h2 : RbtWhole(v, L, h2)
  /\ \A h : AvlWhole(t, L, h) => \E h2 : AvlWhole(v, L, h2)

(* do_erase up to the unlinking, in the order of the code: a node with two *)
(* children changes places with its predecessor, and has one child at most *)
(* then.                                                                   *)
LEMMA Prepares ==
  ASSUME NEW t, NEW L, NEW r, Links(t, L, r), NEW n \in L,
         NEW v, v = IF Child(t, n, 1) # NULL /\ Child(t, n, 2) # NULL
                    THEN SwapNodes(t, n, Lowest(t, Child(t, n, 1), 2)) ELSE t,
         NEW p, p = Parent(v, n),
         NEW c, c = IF Child(v, n, 1) # NULL THEN Child(v, n, 1) ELSE Child(v, n, 2),
         NEW u, u = Adopt(Replace(v, p, n, c), p, c)
  PROVE Prepared(t, v, L, n, c, p, u)
<1>1. /\ \E r2 : Links(v, L, r2)
      /\ Child(v, n, 1) = NULL \/ Child(v, n, 2) = NULL
      /\ \A h : RbtWhole(t, L, h) => \E h2 : RbtWhole(v, L, h2)
      /\ \A h : AvlWhole(t, L, h) => \E h2 : AvlWhole(v, L, h2)
  <2>1. CASE Child(t, n, 1) # NULL /\ Child(t, n, 2) # NULL
    <3> DEFINE x == Lowest(t, Child(t, n, 1), 2)
    <3>1. v = SwapNodes(t, n, x) /\ x = Lowest(t, Child(t, n, 1), 2)  BY <2>1
    <3> HIDE DEF x
    <3>2. x \in L /\ Swapped(t, v, L, n, x) /\ Child(v, n, 2) = NULL  BY <2>1, <3>1, SwapNodesIs
    <3>3. \E r2 : Links(v, L, r2)  BY <3>2, SwappedLinks DEF Swapped
    <3>4. \A h : RbtWhole(t, L, h) => \E h2 : RbtWhole(v, L, h2)  BY <3>2, SwappedRbt
    <3>5. \A h : AvlWhole(t, L, h) => \E h2 : AvlWhole(v, L, h2)  BY <3>2, SwappedAvl
    <3> QED BY <3>2, <3>3, <3>4, <3>5
  <2>2. CASE ~(Child(t, n, 1) # NULL /\ Child(t, n, 2) # NULL)
    <3>1. v = t  BY <2>2
    <3> QED BY <2>2, <3>1
  <2> QED BY <2>1, <2>2
<1>2. PICK r2 : Links(v, L, r2)  BY <1>1
<1>3. \E d, dd \in Side : dd # d /\ Child(v, n, d) = c /\ Child(v, n, dd) = NULL
  BY <1>1 DEF Side
<1>4. PICK d \in Side, dd \in Side : dd # d /\ Child(v, n, d) = c /\ Child(v, n, dd) = NULL  BY <1>3
<1>5. c \in L \cup {NULL} /\ c # n  BY <1>2, <1>4, LinkFacts
<1>6. Bypassed(v, u, L, n, c)  BY <1>2, <1>5, BypassIs
<1>7. Unlinking(v, L, r2, n, d, dd, c, p, u)  BY <1>2, <1>4, <1>6 DEF Unlinking
<1> QED BY <1>1, <1>7 DEF Prepared

(* The tree of the nodes L is as the policy P demands.                     *)
Whole(P, t, L) ==
  /\ \E r : Links(t, L, r)
  /\ P = "rbt" => \E h : RbtWhole(t, L, h)
  /\ P = "avl" => \E h : AvlWhole(t, L, h)

(* A node has been unlinked, and q is where the policy goes on.            *)
Lacks(t, L, q) ==
  \E h, p, s : /\ RbtLacking(t, L, h, p, s)
               /\ \/ q = [at |-> "rbt_case2", p |-> p, s |-> s]
                  \/ q = [at |-> "rbt_case3", p |-> p, s |-> s] /\ is_black(t, s)

Shrinks(t, L, q) ==
  \E h, n, d : AvlShrunk(t, L, h, n, d) /\ q = [at |-> "avl_shrunk", n |-> n, d |-> d]

Settling(P, t, L, q) ==
  /\ \E r : Links(t, L, r)
  /\ \/ q = [at |-> "erased"] /\ Whole(P, t, L)
     \/ P = "rbt" /\ Lacks(t, L, q)
     \/ P = "avl" /\ Shrinks(t, L, q)

(* do_erase leaves a tree on the other nodes, and the rebalancing at its   *)
(* first turn.                                                             *)
LEMMA ErasesNode ==
  ASSUME policy \in {"rbt", "avl"}, Whole(policy, tree, live), NEW n \in live, NEW o, do_erase(n, o)
  PROVE /\ Settling(policy, tree', live \ {n}, pc')
        /\ call' = [o EXCEPT !.gone = n]
        /\ UNCHANGED <<policy, multi, m_nSize, live>>
<1> DEFINE t == IF Child(tree, n, 1) # NULL /\ Child(tree, n, 2) # NULL
                THEN SwapNodes(tree, n, Lowest(tree, Child(tree, n, 1), 2)) ELSE tree
           p == Parent(t, n)
           d == IF p = NULL THEN 0 ELSE SideOf(t, p, n)
           c == IF Child(t, n, 1) # NULL THEN Child(t, n, 1) ELSE Child(t, n, 2)
           u == Adopt(Replace(t, p, n, c), p, c)
           light == p # NULL /\ is_black(t, n) /\ is_black(t, c)
           M == live \ {n}
<1>1. /\ call' = [o EXCEPT !.gone = n]
      /\ policy = "avl" => /\ tree' = u
                           /\ pc' = IF p = NULL THEN [at |-> "erased"] ELSE [at |-> "avl_shrunk", n |-> p, d |-> d]
      /\ policy # "avl" =>
           /\ tree' = IF p = NULL \/ is_black(t, n) THEN Mark(u, c, Black) ELSE u
           /\ pc' = IF light THEN [at |-> "rbt_case2", p |-> p, s |-> Child(u, p, 3 - d)]
                    ELSE [at |-> "erased"]
      /\ UNCHANGED <<policy, multi, m_nSize, live>>
  BY DEF do_erase
<1>2. PICK r0 : Links(tree, live, r0)  BY DEF Whole
<1>3. p = Parent(t, n) /\ t = (IF Child(tree, n, 1) # NULL /\ Child(tree, n, 2) # NULL
                THEN SwapNodes(tree, n, Lowest(tree, Child(tree, n, 1), 2)) ELSE tree)
      /\ c = (IF Child(t, n, 1) # NULL THEN Child(t, n, 1) ELSE Child(t, n, 2))
      /\ u = Adopt(Replace(t, p, n, c), p, c)
      /\ d = (IF p = NULL THEN 0 ELSE SideOf(t, p, n))
  OBVIOUS
<1> HIDE DEF t, p, d, c, u
<1>4. Prepared(tree, t, live, n, c, p, u)  BY <1>2, <1>3, Prepares
<1>0. PICK r : \E f, ff \in Side : Unlinking(t, live, r, n, f, ff, c, p, u)  BY <1>4 DEF Prepared
<1>5. PICK f \in Side, ff \in Side : Unlinking(t, live, r, n, f, ff, c, p, u)  BY <1>0
<1>6. Links(u, M, r)
  <2>1. Remaining(t, live, r, n, c, p, u)  BY <1>5, UnlinkedFacts
  <2> QED BY <2>1 DEF Remaining
<1>7. CASE policy = "avl"
  <2>1. PICK h : AvlWhole(t, live, h)
    <3>1. \E h : AvlWhole(tree, live, h)  BY <1>7 DEF Whole
    <3> QED BY <3>1, <1>4 DEF Prepared
  <2>2. /\ p = NULL => AvlWhole(u, M, h)
        /\ p # NULL => AvlShrunk(u, M, h, p, SideOf(t, p, n))
    BY <1>5, <2>1, UnlinkAvl
  <2>3. CASE p = NULL
    <3>1. Whole(policy, u, M)  BY <1>6, <1>7, <2>2, <2>3 DEF Whole
    <3>2. tree' = u /\ pc' = [at |-> "erased"]  BY <1>1, <1>7, <2>3
    <3> QED BY <3>1, <3>2, <1>1, <1>6 DEF Settling
  <2>4. CASE p # NULL
    <3>1. tree' = u /\ pc' = [at |-> "avl_shrunk", n |-> p, d |-> d]  BY <1>1, <1>7, <2>4
    <3>2. AvlShrunk(u, M, h, p, d)  BY <1>3, <2>2, <2>4
    <3>3. Shrinks(u, M, pc')  BY <3>1, <3>2 DEF Shrinks
    <3> QED BY <3>1, <3>3, <1>1, <1>6, <1>7 DEF Settling
  <2> QED BY <2>3, <2>4
<1>8. CASE policy = "rbt"
  <2>1. PICK h : RbtWhole(t, live, h)
    <3>1. \E h : RbtWhole(tree, live, h)  BY <1>8 DEF Whole
    <3> QED BY <3>1, <1>4 DEF Prepared
  <2>2. /\ c # NULL => is_red(t, c) /\ is_black(t, n)
        /\ p = NULL => is_black(t, n)
    BY <1>5, <2>1, OnlyChild
  <2>3. policy # "avl"  BY <1>8
  <2>4. CASE light
    <3>1. c = NULL /\ RbtLacking(u, M, h, p, Child(u, p, 3 - SideOf(t, p, n)))
      BY <1>5, <2>1, <2>4, UnlinkLacks
    <3>2. tree' = u  BY <1>1, <2>3, <3>1 DEF Mark
    <3> DEFINE s == Child(u, p, 3 - d)
    <3>3. pc' = [at |-> "rbt_case2", p |-> p, s |-> s] /\ RbtLacking(u, M, h, p, s)
      BY <1>1, <1>3, <2>3, <2>4, <3>1
    <3> HIDE DEF s
    <3>4. Lacks(u, M, pc')  BY <3>3 DEF Lacks
    <3> QED BY <3>2, <3>4, <1>1, <1>6, <1>8 DEF Settling
  <2>5. CASE ~light
    <3> DEFINE v == Mark(u, c, Black)
    <3>1. is_red(t, n) \/ c # NULL \/ p = NULL  BY <2>2, <2>5 DEF is_black, is_red
    <3>2. Links(v, M, r) /\ \E h2 : RbtWhole(v, M, h2)  BY <1>5, <2>1, <3>1, UnlinkWhole
    <3>3. tree' = v
      <4>1. CASE p = NULL \/ is_black(t, n)  BY <4>1, <1>1, <2>3
      <4>2. CASE ~(p = NULL \/ is_black(t, n))
        <5>1. c = NULL  BY <4>2, <2>2
        <5> QED BY <4>2, <5>1, <1>1, <2>3 DEF Mark
      <4> QED BY <4>1, <4>2
    <3>4. pc' = [at |-> "erased"]  BY <1>1, <2>3, <2>5
    <3> HIDE DEF v
    <3>5. Whole(policy, v, M)  BY <1>8, <3>2 DEF Whole
    <3> QED BY <3>2, <3>3, <3>4, <3>5, <1>1 DEF Settling
  <2> QED BY <2>4, <2>5
<1> QED BY <1>1, <1>7, <1>8
==============================================================================
