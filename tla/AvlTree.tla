------------------------------- MODULE AvlTree -------------------------------
(***************************************************************************)
(* my::avl_tree (some_trees/avl_tree.hpp).  The parent pointers it sets    *)
(* are never read, so a subtree is NULL or a record of its key, its two    *)
(* subtrees and the height stored with it.                                 *)
(***************************************************************************)
EXTENDS Integers, Sequences, FiniteSetsExt

CONSTANTS Object, NULL

VARIABLE forest

Init == forest = [o \in Object |-> NULL]

NewNode(k) == [key |-> k, left |-> NULL, right |-> NULL, height |-> 1]

Height(n) == IF n = NULL THEN 0 ELSE n.height
BalanceFactor(n) == Height(n.right) - Height(n.left)
UpdateHeight(n) == [n EXCEPT !.height = Max({Height(n.left), Height(n.right)}) + 1]

RotateRight(y) ==
  UpdateHeight([y.left EXCEPT !.right = UpdateHeight([y EXCEPT !.left = y.left.right])])

RotateLeft(y) ==
  UpdateHeight([y.right EXCEPT !.left = UpdateHeight([y EXCEPT !.right = y.right.left])])

RotateLeftRight(y) == RotateRight([y EXCEPT !.left = RotateLeft(@)])
RotateRightLeft(y) == RotateLeft([y EXCEPT !.right = RotateRight(@)])

\* A test that takes a left-right case for a left-left one.
AlwaysLeftLeft(n) == TRUE
LeftLeft(n) == BalanceFactor(n.left) <= 0

\* Heavy on the right, with a right child that is in balance, is no case: the
\* node keeps its balance factor of 2.
Rebalance(node) ==
  LET n  == UpdateHeight(node)
      bf == BalanceFactor(n)
  IN  CASE bf < -1 /\ LeftLeft(n)                     -> RotateRight(n)
        [] bf < -1 /\ ~LeftLeft(n)                    -> RotateLeftRight(n)
        [] bf > 1 /\ BalanceFactor(n.right) >= 1      -> RotateLeft(n)
        [] bf > 1 /\ BalanceFactor(n.right) < 0       -> RotateRightLeft(n)
        [] OTHER                                      -> n

RECURSIVE InsertKey(_, _)
InsertKey(n, k) ==
  IF n = NULL THEN NewNode(k)
  ELSE IF k < n.key THEN Rebalance([n EXCEPT !.left = InsertKey(@, k)])
  ELSE IF k > n.key THEN Rebalance([n EXCEPT !.right = InsertKey(@, k)])
  ELSE n

RECURSIVE SearchMin(_)
SearchMin(n) == IF n.left = NULL THEN n ELSE SearchMin(n.left)

\* With two subtrees the data of the successor is copied into the node, and the
\* successor's own node is erased from the right subtree.
RECURSIVE EraseKey(_, _)
EraseKey(n, k) ==
  IF n = NULL THEN NULL
  ELSE IF k < n.key THEN Rebalance([n EXCEPT !.left = EraseKey(@, k)])
  ELSE IF k > n.key THEN Rebalance([n EXCEPT !.right = EraseKey(@, k)])
  ELSE IF n.left = NULL THEN n.right
  ELSE IF n.right = NULL THEN n.left
  ELSE LET s == SearchMin(n.right).key
       IN  Rebalance([n EXCEPT !.key = s, !.right = EraseKey(@, s)])

RECURSIVE Contains(_, _)
Contains(n, k) ==
  n # NULL /\ IF k < n.key THEN Contains(n.left, k)
              ELSE IF k > n.key THEN Contains(n.right, k) ELSE TRUE

Insert(o, k) == forest' = [forest EXCEPT ![o] = InsertKey(@, k)]
Erase(o, k)  == forest' = [forest EXCEPT ![o] = EraseKey(@, k)]
Clear(o)     == forest' = [forest EXCEPT ![o] = NULL]

RECURSIVE InorderKeys(_)
InorderKeys(n) == IF n = NULL THEN << >>
                  ELSE InorderKeys(n.left) \o <<n.key>> \o InorderKeys(n.right)

\* Every stored height is that of its subtree.
RECURSIVE HeightsTrue(_)
HeightsTrue(n) ==
  n # NULL => /\ n.height = Max({Height(n.left), Height(n.right)}) + 1
              /\ HeightsTrue(n.left) /\ HeightsTrue(n.right)

RECURSIVE Balanced(_)
Balanced(n) ==
  n # NULL => BalanceFactor(n) \in -1..1 /\ Balanced(n.left) /\ Balanced(n.right)
=============================================================================
