-------------------------------- MODULE Treap --------------------------------
(***************************************************************************)
(* my::treap (some_trees/treap.hpp): a search tree by key that is a heap   *)
(* by the random priorities drawn when an element is inserted.  Equal keys *)
(* are allowed.  A node is the pair of its key and its priority: two       *)
(* elements with the same key never draw the same 64-bit number here, two  *)
(* elements with different keys may.                                       *)
(***************************************************************************)
EXTENDS TreeCopies, TLC

CONSTANT Object     \* Node is a set of pairs of a key and a priority

VARIABLE forest

Key(n)      == n[1]
Priority(n) == n[2]

Empty == EmptyTree @@ [size |-> 0]
Init == forest = [o \in Object |-> Empty]

\* A link after which the piece below n keeps the parent it had.
LinkDown(t, n, d, c) == SetChild(t, n, d, c)

\* `node->left = c; if (node->left) node->left->parent = node`
Hang(t, n, d, c) == Adopt(SetChild(t, n, d, c), c, n)

\* split: the nodes under n with keys up to k, and those with greater keys.
RECURSIVE Split(_, _, _)
Split(t, n, k) ==
  IF n = NULL THEN [tree |-> t, left |-> NULL, right |-> NULL]
  ELSE IF k < Key(n)
       THEN LET s == Split(t, Left(t, n), k)
            IN  [s EXCEPT !.tree = Hang(@, n, "L", s.right), !.right = n]
       ELSE LET s == Split(t, Right(t, n), k)
            IN  [s EXCEPT !.tree = Hang(@, n, "R", s.left), !.left = n]

\* Which of two roots becomes the root of the merged tree.
LowerWins(a, b)  == Priority(a) < Priority(b)
HigherWins(a, b) == Priority(a) > Priority(b)

\* merge: the keys under a come before those under b.
RECURSIVE Merge(_, _, _)
Merge(t, a, b) ==
  IF a = NULL THEN [tree |-> t, node |-> b]
  ELSE IF b = NULL THEN [tree |-> t, node |-> a]
  ELSE IF HigherWins(a, b)
       THEN LET m == Merge(t, Right(t, a), b)
            IN  [tree |-> Hang(m.tree, a, "R", m.node), node |-> a]
       ELSE LET m == Merge(t, a, Left(t, b))
            IN  [tree |-> Hang(m.tree, b, "L", m.node), node |-> b]

\* insert_node: the new node takes the place of the first node with no higher
\* priority, which is split into its subtrees.
RECURSIVE InsertNode(_, _, _)
InsertNode(t, at, n) ==
  LET d     == IF Key(n) < Key(at) THEN "L" ELSE "R"
      below == InsertNode(t, t.child[d][at], n)
      s     == Split(t, at, Key(n))
      split == Hang(Hang(s.tree, n, "L", s.left), n, "R", s.right)
  IN  IF at = NULL THEN [tree |-> t, node |-> n]
      ELSE IF Priority(n) > Priority(at)
           THEN [tree |-> SetParent(split, n, split.parent[at]), node |-> n]
      ELSE [tree |-> Hang(below.tree, at, d, below.node), node |-> at]

\* erase_node: the first node with the key is replaced by its merged subtrees.
RECURSIVE EraseNode(_, _, _)
EraseNode(t, at, k) ==
  LET d      == IF k < Key(at) THEN "L" ELSE "R"
      below  == EraseNode(t, t.child[d][at], k)
      merged == Merge(t, Left(t, at), Right(t, at))
      joined == Adopt(merged.tree, merged.node, t.parent[at])
      freed  == SetParent(SetChild(SetChild(joined, at, "L", NULL), at, "R", NULL), at, NULL)
  IN  IF at = NULL THEN [tree |-> t, node |-> NULL]
      ELSE IF k = Key(at) THEN [tree |-> [freed EXCEPT !.size = @ - 1], node |-> merged.node]
      ELSE [tree |-> SetChild(below.tree, at, d, below.node), node |-> at]

\* find_node, contains
RECURSIVE FindNode(_, _, _)
FindNode(t, n, k) ==
  IF n = NULL \/ Key(n) = k THEN n
  ELSE FindNode(t, t.child[IF k < Key(n) THEN "L" ELSE "R"][n], k)

Inserted(t, n) ==
  LET r == InsertNode(t, t.root, n)
  IN  [SetParent(SetRoot(r.tree, r.node), r.node, NULL) EXCEPT !.size = @ + 1]

Erased(t, k) == LET r == EraseNode(t, t.root, k) IN SetRoot(r.tree, r.node)

Linked(o) == {Nodes(forest[o])[i] : i \in DOMAIN Nodes(forest[o])}

Insert(o, n) == /\ n \notin Linked(o)
                /\ forest' = [forest EXCEPT ![o] = Inserted(@, n)]
Erase(o, k)  == forest' = [forest EXCEPT ![o] = Erased(@, k)]
Clear(o)     == forest' = [forest EXCEPT ![o] = Empty]

Copy(o, p) ==
  forest' = [forest EXCEPT ![o] = SafeCopy(forest[p]) @@ [size |-> forest[p].size]]
Move(o, p) == forest' = [forest EXCEPT ![o] = forest[p], ![p] = Empty]
Swap(o, p) == forest' = [forest EXCEPT ![o] = forest[p], ![p] = forest[o]]

\* No node has a higher priority than its parent.
HeapOrder(o) ==
  \A n \in Linked(o), d \in Side :
    forest[o].child[d][n] # NULL => Priority(n) >= Priority(forest[o].child[d][n])
=============================================================================
