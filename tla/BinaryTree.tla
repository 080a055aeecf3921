------------------------------ MODULE BinaryTree ------------------------------
(***************************************************************************)
(* my::binary_tree (some_trees/binary_tree.hpp): a search tree without     *)
(* parent pointers, equal values to the right.  A subtree is NULL or a     *)
(* record of its value and its two subtrees.                               *)
(***************************************************************************)
EXTENDS Integers, Sequences

CONSTANTS Object, NULL

Seqs == INSTANCE SequencesExt

VARIABLE forest

Init == forest = [o \in Object |-> NULL]

NewNode(v) == [value |-> v, left |-> NULL, right |-> NULL]

\* insert_rimpl
RECURSIVE InsertValue(_, _)
InsertValue(n, v) ==
  IF n = NULL THEN NewNode(v)
  ELSE IF v < n.value THEN [n EXCEPT !.left = InsertValue(@, v)]
  ELSE [n EXCEPT !.right = InsertValue(@, v)]

\* find_rimpl
RECURSIVE FindValue(_, _)
FindValue(n, v) ==
  IF n = NULL \/ n.value = v THEN n
  ELSE FindValue(IF v < n.value THEN n.left ELSE n.right, v)

\* `if` for `while`: the least of the first two on the left.
FindMinOnce(n) == IF n = NULL \/ n.left = NULL THEN n ELSE n.left

\* findmin_rimpl
RECURSIVE FindMin(_)
FindMin(n) == IF n = NULL \/ n.left = NULL THEN n ELSE FindMin(n.left)

RECURSIVE FindMax(_)
FindMax(n) == IF n.right = NULL THEN n ELSE FindMax(n.right)

\* A node with two subtrees that takes its value from the left one.
RECURSIVE RemoveByPredecessor(_, _)
RemoveByPredecessor(n, v) ==
  IF n = NULL THEN NULL
  ELSE IF v < n.value THEN [n EXCEPT !.left = RemoveByPredecessor(@, v)]
  ELSE IF v > n.value THEN [n EXCEPT !.right = RemoveByPredecessor(@, v)]
  ELSE IF n.left = NULL THEN n.right
  ELSE IF n.right = NULL THEN n.left
  ELSE LET m == FindMax(n.left).value
       IN  [n EXCEPT !.value = m, !.left = RemoveByPredecessor(@, m)]

\* remove_rimpl
RECURSIVE RemoveValue(_, _)
RemoveValue(n, v) ==
  IF n = NULL THEN NULL
  ELSE IF v < n.value THEN [n EXCEPT !.left = RemoveValue(@, v)]
  ELSE IF v > n.value THEN [n EXCEPT !.right = RemoveValue(@, v)]
  ELSE IF n.left = NULL THEN n.right
  ELSE IF n.right = NULL THEN n.left
  ELSE LET m == FindMin(n.right).value
       IN  [n EXCEPT !.value = m, !.right = RemoveValue(@, m)]

\* traversal
RECURSIVE InorderValues(_), PreorderValues(_), PostorderValues(_)
InorderValues(n) == IF n = NULL THEN << >>
                    ELSE InorderValues(n.left) \o <<n.value>> \o InorderValues(n.right)
PreorderValues(n) == IF n = NULL THEN << >>
                     ELSE <<n.value>> \o PreorderValues(n.left) \o PreorderValues(n.right)
PostorderValues(n) == IF n = NULL THEN << >>
                      ELSE PostorderValues(n.left) \o PostorderValues(n.right) \o <<n.value>>

\* Callers do not call clear(), which keeps the root of the deleted nodes.
Insert(o, v) == forest' = [forest EXCEPT ![o] = InsertValue(@, v)]
Remove(o, v) == forest' = [forest EXCEPT ![o] = RemoveValue(@, v)]

\* safe_copy makes a node for every node of the other tree.
RECURSIVE CopyOf(_)
CopyOf(n) == IF n = NULL THEN NULL
             ELSE [NewNode(n.value) EXCEPT !.left = CopyOf(n.left), !.right = CopyOf(n.right)]
Copy(o, p) == forest' = [forest EXCEPT ![o] = CopyOf(forest[p])]
Move(o, p) == forest' = [forest EXCEPT ![o] = forest[p], ![p] = NULL]
Swap(o, p) == forest' = [forest EXCEPT ![o] = forest[p], ![p] = forest[o]]

\* Inserting the values of a tree in preorder, or those of the postorder from the
\* last to the first, builds the same tree again.
Rebuilt(values) == Seqs!FoldLeft(InsertValue, NULL, values)
RebuildsItself(n) == /\ Rebuilt(PreorderValues(n)) = n
                     /\ Rebuilt(Seqs!Reverse(PostorderValues(n))) = n
=============================================================================
