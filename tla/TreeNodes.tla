------------------------------ MODULE TreeNodes ------------------------------
(***************************************************************************)
(* What the trees with parent pointers (rb_tree, binary_search_tree,       *)
(* treap) have in common beyond the links of RbLinks: walks along the      *)
(* links, and the iterators that are one node pointer.                     *)
(***************************************************************************)
EXTENDS RbLinks, Integers, FiniteSets, Sequences

\* inorder: the nodes under n from left to right.
Inorder(t, n) ==
  LET walk[m \in NodeOrNull] ==
        IF m = NULL THEN << >> ELSE walk[Left(t, m)] \o <<m>> \o walk[Right(t, m)]
  IN  walk[n]

Nodes(t) == Inorder(t, t.root)

\* `while (node->left) node = node->left`, and the same for the right.
Dive(t, n, d) ==
  LET dive[m \in NodeOrNull] ==
        IF m = NULL \/ t.child[d][m] = NULL THEN m ELSE dive[t.child[d][m]]
  IN  dive[n]

First(t) == Dive(t, t.root, "L")
Final(t) == Dive(t, t.root, "R")

\* A climb that stops at the first parent.
ClimbOnce(t, n, p, d) == FALSE

\* The climb goes on while it comes from the side it looks for.
ClimbOn(t, n, p, d) == p # NULL /\ n = t.child[d][p]

Climb(t, n, d) ==
  LET climb[m \in Node] ==
        IF ClimbOn(t, m, t.parent[m], d) THEN climb[t.parent[m]] ELSE t.parent[m]
  IN  climb[n]

\* next (d = "R") or prev (d = "L") of the traversal policy
Advance(t, n, d) ==
  IF t.child[d][n] # NULL THEN Dive(t, t.child[d][n], Opp(d)) ELSE Climb(t, n, d)
-----------------------------------------------------------------------------
\* begin() is the first node, and from every node ++ and -- lead to its neighbour
\* in order or to the end, whatever calls the iterator has been held across.
IteratorsInOrder(t) ==
  LET seq == Nodes(t)
  IN  /\ First(t) = IF seq = << >> THEN NULL ELSE seq[1]
      /\ \A i \in DOMAIN seq :
           /\ Advance(t, seq[i], "R") = IF i = Len(seq) THEN NULL ELSE seq[i + 1]
           /\ Advance(t, seq[i], "L") = IF i = 1 THEN NULL ELSE seq[i - 1]
=============================================================================
