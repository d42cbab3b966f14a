----------------------------- MODULE BalancedTree -----------------------------
(* bst_tree with its two policies, the red-black tree and the AVL tree, on      *)
(* which the ordered containers (bst_set, bst_map, ...) are built.              *)
(*                                                                             *)
(* The policies recurse up the tree; every turn is a step here. Left and right *)
(* are written twice in the code and once here: d is 1 or 2 for child1 and      *)
(* child2, 3 - d the other one. An iterator is the node it points to.           *)
EXTENDS Integers, Sequences, FiniteSets

CONSTANTS Nodes,   \* what the allocator can give
          Key,     \* Nodes -> Nat, the key a node is constructed with
          NULL

ASSUME NodesAssumption == IsFiniteSet(Nodes) /\ NULL \notin Nodes
ASSUME KeyAssumption == Key \in [Nodes -> Nat]

VARIABLES policy,    \* the template parameters: "rbt" or "avl",
          multi,     \* and whether equal keys are kept (handle_multi)
          tree,      \* [root, node]: m_pRoot and the links and extra of each node
          m_nSize,
          live,      \* the nodes that are constructed
          call,      \* the call in progress, or the result of the last one
          pc         \* where the call is

vars == <<policy, multi, tree, m_nSize, live, call, pc>>

Red == 0
Black == 1
Fresh == [parent |-> NULL, child |-> [d \in {1, 2} |-> NULL], extra |-> 0]
Idle == [at |-> "idle"]
NoCall == [op |-> "none"]

Init ==
  /\ policy \in {"rbt", "avl"} /\ multi \in BOOLEAN
  /\ tree = [root |-> NULL, node |-> [n \in Nodes |-> Fresh]]
  /\ m_nSize = 0 /\ live = {} /\ call = NoCall /\ pc = Idle

-----------------------------------------------------------------------------
(* Nodes and links of a tree t.                                                *)

Parent(t, n) == t.node[n].parent
Child(t, n, d) == t.node[n].child[d]
Extra(t, n) == t.node[n].extra
is_red(t, n) == n # NULL /\ Extra(t, n) = Red
is_black(t, n) == ~is_red(t, n)
Mark(t, n, x) == IF n = NULL THEN t ELSE [t EXCEPT !.node[n].extra = x]
SideOf(t, p, n) == IF Child(t, p, 1) = n THEN 1 ELSE 2
Sibling(t, p, n) == Child(t, p, 3 - SideOf(t, p, n))

Adopt(t, p, c) == IF c = NULL THEN t ELSE [t EXCEPT !.node[c].parent = p]
SetChild(t, p, d, c) == Adopt([t EXCEPT !.node[p].child[d] = c], p, c)

(* The link to n, from p or from m_pRoot, becomes a link to x.                 *)
Replace(t, p, n, x) ==
  IF p = NULL THEN [t EXCEPT !.root = x]
  ELSE [t EXCEPT !.node[p].child[SideOf(t, p, n)] = x]

(* Fault: the node that was rotated up keeps its old parent.                   *)
RotateFault(t, n, d) ==
  LET newr == Child(t, n, d)
      u == SetChild(SetChild(t, n, d, Child(t, newr, 3 - d)), newr, 3 - d, n)
  IN Replace(u, Parent(t, n), n, newr)

(* rotate_right lifts child1 of n, rotate_left child2.                         *)
Rotate(t, n, d) ==
  LET newr == Child(t, n, d)
      u == SetChild(SetChild(t, n, d, Child(t, newr, 3 - d)), newr, 3 - d, n)
  IN [Replace(u, Parent(t, n), n, newr) EXCEPT !.node[newr].parent = Parent(t, n)]

(* The last node of the way on which next[m], if it is not NULL, follows m: a   *)
(* loop in the code. Bounded, a tree has no longer way.                         *)
LastOn(next, n) ==
  LET go[i \in 0 .. Cardinality(Nodes)] ==
        [m \in Nodes |-> IF i = 0 \/ next[m] = NULL THEN m ELSE go[i - 1][next[m]]]
  IN go[Cardinality(Nodes)][n]

(* From n down, to the side dir[m] (0 ends it), as long as there is a child.    *)
Follow(t, n, dir) == LastOn([m \in Nodes |-> IF dir[m] = 0 THEN NULL ELSE Child(t, m, dir[m])], n)

Lowest(t, n, d) == Follow(t, n, [m \in Nodes |-> d])

(* The last node on the way up that is no child 3 - d.                         *)
Highest(t, n, d) ==
  LastOn([m \in Nodes |-> LET p == Parent(t, m) IN
            IF p # NULL THEN IF Child(t, p, 3 - d) # m THEN p ELSE NULL ELSE NULL], n)

(* nd_inc (d = 2) and nd_dec (d = 1).                                          *)
Step(t, n, d) ==
  IF Child(t, n, d) # NULL THEN Lowest(t, Child(t, n, d), 3 - d) ELSE Parent(t, Highest(t, n, d))

(* Where the descent for key k ends; deep: beyond equal keys, to their right.  *)
Locate(t, k, deep) ==
  Follow(t, t.root, [m \in Nodes |-> IF k < Key[m] THEN 1
                                     ELSE IF Key[m] < k \/ deep THEN 2 ELSE 0])

(* The equal node that a search meets, or NULL.                                *)
Find(t, k) ==
  IF t.root = NULL THEN NULL
  ELSE LET m == Locate(t, k, FALSE) IN IF Key[m] = k THEN m ELSE NULL

(* Fault: among equal keys the search goes right, as upper_bound does.         *)
lower_boundFault(t, k) ==
  IF t.root = NULL THEN NULL
  ELSE LET m == Locate(t, k, TRUE) IN
       IF Key[m] < k THEN Step(t, m, 2) ELSE m

lower_bound(t, k) ==
  IF t.root = NULL THEN NULL
  ELSE LET n == Locate(t, k, FALSE)
           m == IF Key[n] = k /\ multi
                THEN Follow(t, n, [x \in Nodes |-> IF Key[x] < k THEN 2 ELSE 1]) ELSE n
       IN IF Key[m] < k THEN Step(t, m, 2) ELSE m

upper_bound(t, k) ==
  IF t.root = NULL THEN NULL
  ELSE LET n == Locate(t, k, FALSE)
           m == IF Key[n] = k /\ multi
                THEN Follow(t, n, [x \in Nodes |-> IF k < Key[x] THEN 1 ELSE 2]) ELSE n
       IN IF k < Key[m] THEN m ELSE Step(t, m, 2)

(* The nodes below the root in order: what iterators meet.                     *)
InOrder(t) ==
  LET walk[i \in 0 .. Cardinality(Nodes)] ==
        [n \in Nodes \cup {NULL} |->
          IF i = 0 \/ n = NULL THEN <<>>
          ELSE walk[i - 1][Child(t, n, 1)] \o <<n>> \o walk[i - 1][Child(t, n, 2)]]
  IN walk[Cardinality(Nodes)][t.root]

-----------------------------------------------------------------------------
(* Calls. A call that returns leaves its result, which its caller takes.        *)

Ready == call = NoCall
Was == InOrder(tree)
Return(r) == call' = [op |-> "returned", ret |-> r] /\ pc' = Idle

take ==
  /\ call.op = "returned" /\ call' = NoCall
  /\ UNCHANGED <<policy, multi, tree, m_nSize, live, pc>>

clear ==
  /\ Ready
  /\ tree' = [root |-> NULL, node |-> [n \in Nodes |-> Fresh]]
  /\ m_nSize' = 0 /\ live' = {}
  /\ Return(<<NULL>>) /\ UNCHANGED <<policy, multi>>

(* bst_construct, the link to the node where the search ended, ++m_nSize. The   *)
(* allocator's choice does not matter: the least free node that has the key.   *)
insert(n) ==
  /\ Ready /\ n \notin live
  /\ \A m \in Nodes \ live : Key[m] = Key[n] => n <= m
  /\ LET k == Key[n]
         p == Locate(tree, k, multi)
     IN IF tree.root # NULL /\ ~multi /\ Find(tree, k) # NULL
        THEN Return(<<Find(tree, k), FALSE>>) /\ UNCHANGED <<tree, m_nSize, live>>
        ELSE /\ call' = [op |-> "insert", n |-> n, was |-> Was]
             /\ LET t == [tree EXCEPT !.node[n] = Fresh] IN
                tree' = IF t.root = NULL THEN t ELSE SetChild(t, p, IF k < Key[p] THEN 1 ELSE 2, n)
             /\ m_nSize' = m_nSize + 1 /\ live' = live \cup {n}
             /\ pc' = [at |-> IF policy = "rbt" THEN "rbt_insert" ELSE "avl_insert", n |-> n]
  /\ UNCHANGED <<policy, multi>>

Inserted == Return(<<call.n, TRUE>>)

-----------------------------------------------------------------------------
(* The red-black policy: insertion. n is red and may have a red parent.        *)

rbt_n == pc.n
rbt_p == Parent(tree, pc.n)
rbt_g == Parent(tree, rbt_p)
AtRbtInsert == pc.at = "rbt_insert" /\ UNCHANGED <<policy, multi, m_nSize, live>>

adjust_insert_case1 ==
  /\ AtRbtInsert /\ rbt_p = NULL
  /\ tree' = Mark([tree EXCEPT !.root = rbt_n], rbt_n, Black)
  /\ Inserted

adjust_insert_case2 ==
  /\ AtRbtInsert /\ rbt_p # NULL /\ is_black(tree, rbt_p)
  /\ Inserted /\ UNCHANGED tree

adjust_insert_case3 ==
  /\ AtRbtInsert /\ is_red(tree, rbt_p) /\ is_red(tree, Sibling(tree, rbt_g, rbt_p))
  /\ tree' = Mark(Mark(Mark(tree, Child(tree, rbt_g, 1), Black),
                       Child(tree, rbt_g, 2), Black), rbt_g, Red)
  /\ pc' = [pc EXCEPT !.n = rbt_g] /\ UNCHANGED call

(* case4 turns an inner n into an outer one, case5 lifts its parent.           *)
adjust_insert_case5 ==
  /\ AtRbtInsert /\ is_red(tree, rbt_p) /\ is_black(tree, Sibling(tree, rbt_g, rbt_p))
  /\ LET d == SideOf(tree, rbt_g, rbt_p)
         inner == SideOf(tree, rbt_p, rbt_n) # d
         t == IF inner THEN Rotate(tree, rbt_p, 3 - d) ELSE tree
         p == IF inner THEN rbt_n ELSE rbt_p
     IN tree' = Rotate(Mark(Mark(t, p, Black), rbt_g, Red), rbt_g, d)
  /\ Inserted

-----------------------------------------------------------------------------
(* The AVL policy: insertion. extra is the depth of child1 less that of child2. *)

Sign(d) == IF d = 1 THEN 1 ELSE -1

(* handle_unblance_gt (d = 1) and _lt (d = 2) of node p, whose child d is two   *)
(* deeper. top is the node now in the place of p, low says that it is less deep. *)
Unblance(t, p, d) ==
  LET n == Child(t, p, d)
      f1 == Extra(t, n)
      x == Child(t, n, 3 - d)
      fx == Extra(t, x)
      twice == Rotate(Rotate(t, n, 3 - d), p, d)
  IN IF Sign(d) * f1 >= 0
     THEN [tree |-> Mark(Mark(Rotate(t, p, d), n, f1 - Sign(d)), p, Sign(d) - f1),
           top |-> n, low |-> f1 = Sign(d)]
     ELSE [tree |-> IF Sign(d) * fx >= 0
                    THEN Mark(Mark(Mark(twice, n, 0), p, -fx), x, 0)
                    ELSE Mark(Mark(Mark(twice, n, -fx), p, 0), x, 0),
           top |-> x, low |-> TRUE]

AtAvlInsert == pc.at = "avl_insert" /\ UNCHANGED <<policy, multi, m_nSize, live>>

AvlRoot ==
  /\ AtAvlInsert /\ Parent(tree, pc.n) = NULL
  /\ tree' = IF tree.root = NULL THEN [tree EXCEPT !.root = pc.n] ELSE tree
  /\ Inserted

(* The subtree of n became deeper.                                             *)
AvlGrow ==
  /\ AtAvlInsert /\ Parent(tree, pc.n) # NULL
  /\ LET p == Parent(tree, pc.n)
         d == SideOf(tree, p, pc.n)
         f1 == Extra(tree, p) + Sign(d)
         t == Mark(tree, p, f1)
     IN \/ f1 = 0 /\ tree' = t /\ Inserted
        \/ f1 = 2 * Sign(d) /\ tree' = Unblance(t, p, d).tree /\ Inserted
        \/ f1 = Sign(d) /\ tree' = t /\ pc' = [pc EXCEPT !.n = p] /\ UNCHANGED call

-----------------------------------------------------------------------------
(* Erasing a node. The node itself is unlinked, never the value of another one *)
(* moved into it: iterators to other nodes stay valid.                         *)

(* do_erase_swap_node1 and 2: x is child d of n.                               *)
SwapWithChild(t, n, x, d) ==
  LET p == Parent(t, n)
      u == Adopt(Replace(t, p, n, x), p, x)
      v == SetChild(SetChild(u, x, 3 - d, Child(t, n, 3 - d)), n, 3 - d, NULL)
  IN SetChild(SetChild(v, n, d, Child(t, x, d)), x, d, n)

(* do_erase_swap_node0.                                                        *)
SwapWithOther(t, n, x) ==
  LET u == Replace(Replace(t, Parent(t, n), n, x), Parent(t, x), x, n)
      v == Adopt(Adopt(u, x, Child(t, n, 1)), x, Child(t, n, 2))
      w == Adopt(Adopt(v, n, Child(t, x, 1)), n, Child(t, x, 2))
  IN [w EXCEPT !.node[n].parent = Parent(t, x), !.node[n].child = t.node[x].child,
               !.node[x].parent = Parent(t, n), !.node[x].child = t.node[n].child]

(* do_erase_swap_node: colour or factor belong to the place.                   *)
SwapNodes(t, n, x) ==
  LET u == Mark(Mark(t, n, Extra(t, x)), x, Extra(t, n)) IN
  IF Child(t, n, 1) = x THEN SwapWithChild(u, n, x, 1)
  ELSE IF Child(t, n, 2) = x THEN SwapWithChild(u, n, x, 2)
  ELSE SwapWithOther(u, n, x)

(* do_erase up to the first call of a rebalancing function; c is the call that  *)
(* goes on afterwards.                                                         *)
do_erase(n, c) ==
  LET t == IF Child(tree, n, 1) # NULL /\ Child(tree, n, 2) # NULL
           THEN SwapNodes(tree, n, Lowest(tree, Child(tree, n, 1), 2)) ELSE tree
      p == Parent(t, n)
      d == IF p = NULL THEN 0 ELSE SideOf(t, p, n)
      c1 == IF Child(t, n, 1) # NULL THEN Child(t, n, 1) ELSE Child(t, n, 2)
      u == Adopt(Replace(t, p, n, c1), p, c1)
  IN /\ call' = [c EXCEPT !.gone = n]
     /\ IF policy = "avl"
        THEN /\ tree' = u
             /\ pc' = IF p = NULL THEN [at |-> "erased"] ELSE [at |-> "avl_shrunk", n |-> p, d |-> d]
        ELSE LET light == p # NULL /\ is_black(t, n) /\ is_black(t, c1) IN
             /\ tree' = IF p = NULL \/ is_black(t, n) THEN Mark(u, c1, Black) ELSE u
             /\ pc' = IF light THEN [at |-> "rbt_case2", p |-> p, s |-> Child(u, p, 3 - d)]
                      ELSE [at |-> "erased"]
     /\ UNCHANGED <<policy, multi, m_nSize, live>>

(* bst_destroy and --m_nSize.                                                  *)
Erased ==
  /\ pc.at = "erased"
  /\ tree' = [tree EXCEPT !.node[call.gone] = Fresh]
  /\ live' = live \ {call.gone} /\ m_nSize' = m_nSize - 1
  /\ pc' = [at |-> "erase"] /\ UNCHANGED <<policy, multi, call>>

-----------------------------------------------------------------------------
(* The red-black policy: the paths through s, child of p, have one black node   *)
(* more than those through its sibling.                                        *)

AtRbtDelete(case) == pc.at = case /\ UNCHANGED <<policy, multi, m_nSize, live, call>>

adjust_delete_case2 ==
  /\ AtRbtDelete("rbt_case2")
  /\ LET d == SideOf(tree, pc.p, pc.s)
         t == Rotate(Mark(Mark(tree, pc.s, Black), pc.p, Red), pc.p, d)
     IN IF is_red(tree, pc.s)
        THEN tree' = t /\ pc' = [pc EXCEPT !.at = "rbt_case3", !.s = Child(t, pc.p, d)]
        ELSE pc' = [pc EXCEPT !.at = "rbt_case3"] /\ UNCHANGED tree

BlackNephews == is_black(tree, Child(tree, pc.s, 1)) /\ is_black(tree, Child(tree, pc.s, 2))

(* adjust_delete_case3 and, from a black parent, adjust_delete_case1.          *)
adjust_delete_case3 ==
  /\ AtRbtDelete("rbt_case3") /\ BlackNephews
  /\ tree' = Mark(Mark(tree, pc.s, Red), pc.p, Black)
  /\ LET g == Parent(tree, pc.p) IN
     pc' = IF is_red(tree, pc.p) \/ g = NULL THEN [at |-> "erased"]
           ELSE [at |-> "rbt_case2", p |-> g, s |-> Sibling(tree, g, pc.p)]

(* Fault: the sibling takes the colour of the parent after the parent's own      *)
(* has been overwritten.                                                       *)
adjust_delete_case6Fault(t, s) ==
  LET d == SideOf(t, pc.p, s) IN
  tree' = Rotate(Mark(Mark(Mark(t, s, Black), pc.p, Black), Child(t, s, d), Black), pc.p, d)

adjust_delete_case6(t, s) ==
  LET d == SideOf(t, pc.p, s) IN
  tree' = Rotate(Mark(Mark(Mark(t, s, Extra(t, pc.p)), pc.p, Black), Child(t, s, d), Black), pc.p, d)

(* case5 turns an inner red nephew into an outer one.                          *)
adjust_delete_case5 ==
  /\ AtRbtDelete("rbt_case3") /\ ~BlackNephews
  /\ LET d == SideOf(tree, pc.p, pc.s)
         x == Child(tree, pc.s, 3 - d)
     IN IF is_red(tree, Child(tree, pc.s, d)) THEN adjust_delete_case6(tree, pc.s)
        ELSE adjust_delete_case6(Rotate(Mark(Mark(tree, pc.s, Red), x, Black), pc.s, 3 - d), x)
  /\ pc' = [at |-> "erased"]

-----------------------------------------------------------------------------
(* The AVL policy: child d of n became less deep (blance_child1, _child2).      *)

AtAvlDelete == pc.at = "avl_shrunk" /\ UNCHANGED <<policy, multi, m_nSize, live, call>>

blance_parent(t, n) ==
  LET p == Parent(t, n) IN
  /\ tree' = t
  /\ pc' = IF p = NULL THEN [at |-> "erased"]
           ELSE [at |-> "avl_shrunk", n |-> p, d |-> SideOf(t, p, n)]

blance_child ==
  /\ AtAvlDelete
  /\ LET f1 == Extra(tree, pc.n) - Sign(pc.d)
         t == Mark(tree, pc.n, f1)
         r == Unblance(t, pc.n, 3 - pc.d)
     IN \/ f1 = 0 /\ blance_parent(t, pc.n)
        \/ f1 = -Sign(pc.d) /\ tree' = t /\ pc' = [at |-> "erased"]
        \/ /\ f1 = -2 * Sign(pc.d)
           /\ IF r.low THEN blance_parent(r.tree, r.top)
              ELSE tree' = r.tree /\ pc' = [at |-> "erased"]

-----------------------------------------------------------------------------
(* The calls that erase.                                                       *)

AtErase(op) == pc.at = "erase" /\ call.op = op

(* fp_erase: one node, or all nodes that are equal to it.                      *)
erase_key(k) ==
  /\ Ready
  /\ LET n == Find(tree, k) IN
     IF n = NULL THEN Return(<<0>>)
     ELSE /\ call' = [op |-> IF multi THEN "erase_equal" ELSE "erase_one",
                     n |-> n, num |-> 1, gone |-> NULL, was |-> Was]
          /\ pc' = [at |-> "erase"]
  /\ UNCHANGED <<policy, multi, tree, m_nSize, live>>

Equal(x) == x # NULL /\ Key[x] = Key[call.n]

EraseEqual ==
  /\ AtErase("erase_equal")
  /\ LET after == Step(tree, call.n, 2)
         before == Step(tree, call.n, 1)
         more == [call EXCEPT !.num = @ + 1]
     IN IF Equal(after) THEN do_erase(after, more)
        ELSE IF Equal(before) THEN do_erase(before, more)
        ELSE do_erase(call.n, [call EXCEPT !.op = "erase_last"])

EraseOne == AtErase("erase_one") /\ do_erase(call.n, [call EXCEPT !.op = "erase_last"])

EraseReturns ==
  /\ AtErase("erase_last") /\ Return(<<call.num>>)
  /\ UNCHANGED <<policy, multi, tree, m_nSize, live>>

(* erase(p1, p2), and erase(position), which returns the next one.             *)
erase_range(p1, p2) ==
  /\ Ready /\ call' = [op |-> "range", p1 |-> p1, p2 |-> p2, gone |-> NULL, was |-> Was]
  /\ pc' = [at |-> "erase"] /\ UNCHANGED <<policy, multi, tree, m_nSize, live>>

(* Fault: the iterator is advanced after its node has been erased.             *)
EraseNextFault ==
  /\ AtErase("range") /\ call.p1 # call.p2
  /\ do_erase(call.p1, [call EXCEPT !.p1 =
       LET x == Child(tree, call.p1, 2) IN IF x = NULL THEN call.p2 ELSE x])

EraseNext ==
  /\ AtErase("range") /\ call.p1 # call.p2
  /\ do_erase(call.p1, [call EXCEPT !.p1 = Step(tree, call.p1, 2)])

EraseRangeReturns ==
  /\ AtErase("range") /\ call.p1 = call.p2 /\ Return(<<call.p2>>)
  /\ UNCHANGED <<policy, multi, tree, m_nSize, live>>

Work ==
  \/ adjust_insert_case1 \/ adjust_insert_case2 \/ adjust_insert_case3
  \/ adjust_insert_case5 \/ AvlRoot \/ AvlGrow
  \/ adjust_delete_case2 \/ adjust_delete_case3 \/ adjust_delete_case5
  \/ blance_child \/ Erased
  \/ EraseEqual \/ EraseOne \/ EraseReturns \/ EraseNext \/ EraseRangeReturns

Next ==
  \/ Work \/ take \/ clear
  \/ \E n \in Nodes : insert(n) \/ erase_key(Key[n])
  \/ \E p1 \in live : \E p2 \in {Step(tree, p1, 2), NULL} : erase_range(p1, p2)

Spec == Init /\ [][Next]_vars

-----------------------------------------------------------------------------
(* The depth of a tree: nodes on the longest path.                             *)
Depth(t) ==
  LET dep[i \in 0 .. Cardinality(Nodes)] ==
        [n \in Nodes \cup {NULL} |->
          IF i = 0 \/ n = NULL THEN 0
          ELSE LET a == dep[i - 1][Child(t, n, 1)]
                   b == dep[i - 1][Child(t, n, 2)]
               IN 1 + IF a < b THEN b ELSE a]
  IN dep[Cardinality(Nodes)]

(* The number of black nodes on the leftmost path from n down.                 *)
BlackDepth(t) ==
  LET dep[i \in 0 .. Cardinality(Nodes)] ==
        [n \in Nodes \cup {NULL} |->
          IF i = 0 \/ n = NULL THEN 0
          ELSE dep[i - 1][Child(t, n, 1)] + IF is_black(t, n) THEN 1 ELSE 0]
  IN dep[Cardinality(Nodes)]

(* The node that do_erase has unlinked and not yet destroyed.                  *)
Unlinked == IF "gone" \in DOMAIN call THEN call.gone ELSE NULL

(* Between two calls the tree is balanced as its policy demands. Red-black: the *)
(* root is black, no red node has a red child, and all paths down from a node    *)
(* have the same number of black nodes. AVL: the depths of two siblings differ  *)
(* by at most one, and extra is that difference. The nodes that are linked are   *)
(* those that were constructed, and they are counted. (rbt_depth_real at        *)
(* rbt_tree_policy.h:84 and avl_depth_real at avl_tree_policy.h:55 look for     *)
(* this, after the fact and in the tests only.)                                *)
Balanced ==
  call = NoCall =>
    /\ LET s == InOrder(tree) IN live = {s[i] : i \in DOMAIN s} /\ m_nSize = Len(s)
    /\ IF policy = "rbt"
       THEN LET bd == BlackDepth(tree) IN
            /\ is_black(tree, tree.root)
            /\ \A n \in live :
                 /\ bd[Child(tree, n, 1)] = bd[Child(tree, n, 2)]
                 /\ is_red(tree, n) => \A d \in {1, 2} : is_black(tree, Child(tree, n, d))
       ELSE LET dep == Depth(tree) IN
            \A n \in live :
              /\ Extra(tree, n) = dep[Child(tree, n, 1)] - dep[Child(tree, n, 2)]
              /\ Extra(tree, n) \in -1 .. 1

(* The links agree at every moment of a rebalancing: the children of a node    *)
(* have it as their parent (check_node, bst_tree.h:1135), the root has none;    *)
(* where the code asserts a colour, or follows a sibling or a grandparent       *)
(* without looking, it is there (rbt_tree_policy.h:121, 237, 269, 271,          *)
(* avl_tree_policy.h:198, 237).                                                *)
WellLinked ==
  /\ tree.root # NULL => Parent(tree, tree.root) = NULL
  /\ \A n \in live : \A d \in {1, 2} :
       Child(tree, n, d) # NULL /\ n # Unlinked => Parent(tree, Child(tree, n, d)) = n
  /\ pc.at = "rbt_insert" /\ is_red(tree, rbt_p) => rbt_g # NULL
  /\ pc.at \in {"rbt_case2", "rbt_case3"} => pc.s # NULL
  /\ pc.at = "rbt_case3" => is_black(tree, pc.s)
  /\ pc.at = "avl_shrunk" => Extra(tree, pc.n) \in -1 .. 1

(* lower_bound and upper_bound, and with them equal_range, give the first node  *)
(* whose key is not less than k, and the first whose key is greater, also when  *)
(* there are several equal nodes on both sides of the one that is found first   *)
(* (bst_tree.h:569-665).                                                       *)
BoundsFound ==
  call = NoCall =>
    LET s == InOrder(tree)
        First(P(_)) == IF \E i \in DOMAIN s : P(s[i])
                       THEN s[CHOOSE i \in DOMAIN s : P(s[i]) /\ \A j \in 1 .. (i - 1) : ~P(s[j])]
                       ELSE NULL
    IN \A k \in {Key[n] : n \in Nodes} :
         /\ lower_bound(tree, k) = First(LAMBDA n : Key[n] >= k)
         /\ upper_bound(tree, k) = First(LAMBDA n : Key[n] > k)

(* The tree implements a sorted sequence: a call changes it as SortedSequence   *)
(* says and returns what it says, whatever rotations it makes; size() is the    *)
(* number of nodes.                                                            *)
Elements == IF "was" \in DOMAIN call THEN call.was ELSE InOrder(tree)
S == INSTANCE SortedSequence WITH seq <- Elements,
       ret <- IF call.op = "returned" THEN call.ret ELSE NULL
Implements == S!Spec
=============================================================================
