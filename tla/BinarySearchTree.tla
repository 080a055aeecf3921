--------------------------- MODULE BinarySearchTree ---------------------------
(***************************************************************************)
(* my::binary_search_tree (some_trees/bst.hpp), which offers every         *)
(* operation twice, recursive and iterative.  The keys of a tree are       *)
(* distinct and no key ever moves to another node, so a node is named by   *)
(* its key; the mapped value, which insert overwrites, is left out.        *)
(***************************************************************************)
EXTENDS TreeCopies

CONSTANT Object     \* Node is the set of keys

VARIABLE forest

Init == forest = [o \in Object |-> EmptyTree]

SideFor(k, n) == IF k < n THEN "L" ELSE "R"

NewNode(t, k) == SetParent(SetChild(SetChild(t, k, "L", NULL), k, "R", NULL), k, NULL)

\* `node->left = r; if (node->left) node->left->parent = node`
Hang(t, n, d, r) == Adopt(SetChild(t, n, d, r), r, n)

\* insert_recursive: the tree and the root of the subtree that is returned.
RECURSIVE InsertRecursive(_, _, _)
InsertRecursive(t, n, k) ==
  LET below == InsertRecursive(t, t.child[SideFor(k, n)][n], k)
  IN  IF n = NULL THEN [tree |-> NewNode(t, k), node |-> k]
      ELSE IF k = n THEN [tree |-> t, node |-> n]
      ELSE [tree |-> Hang(below.tree, n, SideFor(k, n), below.node), node |-> n]

\* The loops of search_iterative, insert_iterative and delete_iterative: the node
\* with the key or NULL, and the last node before it.
RECURSIVE Descend(_, _, _, _)
Descend(t, parent, n, k) ==
  IF n = NULL \/ n = k THEN [parent |-> parent, node |-> n]
  ELSE Descend(t, n, t.child[SideFor(k, n)][n], k)

InsertIterative(t, k) ==
  LET at == Descend(t, NULL, t.root, k)
  IN  IF at.node # NULL THEN t
      ELSE IF t.root = NULL THEN SetRoot(NewNode(t, k), k)
      ELSE Hang(NewNode(t, k), at.parent, SideFor(k, at.parent), k)

RECURSIVE SearchRecursive(_, _, _)
SearchRecursive(t, n, k) ==
  IF n = NULL \/ n = k THEN n ELSE SearchRecursive(t, t.child[SideFor(k, n)][n], k)

SearchIterative(t, k) == Descend(t, NULL, t.root, k).node

\* The deleted node's links are gone with it.
Deleted(t, n) == NewNode(t, n)

\* The successor takes over the subtrees, but leaves its own right one nowhere.
PromotedAlone(t, n) ==
  LET s  == Dive(t, Right(t, n), "L")
      t1 == IF t.parent[s] = n THEN t
            ELSE Hang(SetChild(t, t.parent[s], "L", NULL), s, "R", Right(t, n))
  IN  [tree |-> Hang(t1, s, "L", Left(t, n)), node |-> s]

\* The successor s of n, a node with two children, gets the subtrees of n.
Promoted(t, n) ==
  LET s  == Dive(t, Right(t, n), "L")
      t1 == IF t.parent[s] = n THEN t
            ELSE Hang(Hang(t, t.parent[s], "L", Right(t, s)), s, "R", Right(t, n))
  IN  [tree |-> Hang(t1, s, "L", Left(t, n)), node |-> s]

\* What takes the place of n: its only child, or its successor.
Replacement(t, n) ==
  IF Left(t, n) # NULL /\ Right(t, n) # NULL THEN Promoted(t, n)
  ELSE [tree |-> t, node |-> IF Left(t, n) = NULL THEN Right(t, n) ELSE Left(t, n)]

\* delete_recursive
RECURSIVE EraseRecursive(_, _, _)
EraseRecursive(t, n, k) ==
  LET below == EraseRecursive(t, t.child[SideFor(k, n)][n], k)
  IN  IF n = NULL THEN [tree |-> t, node |-> NULL]
      ELSE IF k = n
           THEN LET r == Replacement(t, n)
                IN  [r EXCEPT !.tree = Deleted(Adopt(@, r.node, t.parent[n]), n)]
      ELSE [tree |-> Hang(below.tree, n, SideFor(k, n), below.node), node |-> n]

\* The replacement keeps the parent it had.
ReplacedOnly(t, n, parent) == Replacement(t, n)

\* delete_iterative gives it the parent that the search found.
ReplacedUnder(t, n, parent) ==
  LET r == Replacement(t, n) IN [r EXCEPT !.tree = Adopt(@, r.node, parent)]

EraseIterative(t, k) ==
  LET at == Descend(t, NULL, t.root, k)
      r  == ReplacedUnder(t, at.node, at.parent)
  IN  IF at.node = NULL THEN t
      ELSE IF at.parent = NULL THEN Deleted(SetRoot(r.tree, r.node), at.node)
      ELSE LET d == IF Left(r.tree, at.parent) = at.node THEN "L" ELSE "R"
           IN  Deleted(SetChild(r.tree, at.parent, d, r.node), at.node)

\* insert and erase: `root = ..._recursive(root, ...)`
Inserted(t, k) == LET r == InsertRecursive(t, t.root, k) IN SetRoot(r.tree, r.node)
Erased(t, k)   == LET r == EraseRecursive(t, t.root, k) IN SetRoot(r.tree, r.node)

Insert(o, k)  == forest' = [forest EXCEPT ![o] = Inserted(@, k)]
InsertI(o, k) == forest' = [forest EXCEPT ![o] = InsertIterative(@, k)]
Erase(o, k)   == forest' = [forest EXCEPT ![o] = Erased(@, k)]
EraseI(o, k)  == forest' = [forest EXCEPT ![o] = EraseIterative(@, k)]

Copy(o, p) == forest' = [forest EXCEPT ![o] = SafeCopy(forest[p])]
Move(o, p) == forest' = [forest EXCEPT ![o] = forest[p], ![p] = EmptyTree]
Swap(o, p) == forest' = [forest EXCEPT ![o] = forest[p], ![p] = forest[o]]

\* -- from end() goes to the last element.
Retreat(t, n) == IF n = NULL THEN Final(t) ELSE Advance(t, n, "L")
=============================================================================
