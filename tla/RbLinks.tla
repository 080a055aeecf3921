------------------------------ MODULE RbLinks ------------------------------
(***************************************************************************)
(* The pointer structure of my::rb_tree (some_trees/rb_tree.hpp) and the   *)
(* four routines that rewire it.  A tree is a record                       *)
(*                                                                         *)
(*   root    the root pointer                                              *)
(*   child   child["L"][n] is n->left, child["R"][n] is n->right           *)
(*   parent  parent[n] is n->parent                                        *)
(*                                                                         *)
(* The code writes every rotation and every rebalancing case twice, once   *)
(* for each side; here the side is a parameter.                            *)
(***************************************************************************)
CONSTANTS Node,      \* the nodes the allocator may hand out
          NULL       \* nullptr

ASSUME NullAssumption == NULL \notin Node

Side == {"L", "R"}
Opp(d) == IF d = "L" THEN "R" ELSE "L"
NodeOrNull == Node \cup {NULL}

Tree == [root : NodeOrNull, child : [Side -> [Node -> NodeOrNull]],
         parent : [Node -> NodeOrNull]]

EmptyTree == [root |-> NULL,
              child |-> [d \in Side |-> [n \in Node |-> NULL]],
              parent |-> [n \in Node |-> NULL]]

Left(t, n)  == t.child["L"][n]
Right(t, n) == t.child["R"][n]

\* The three assignments the routines below are made of.
SetRoot(t, v)        == [t EXCEPT !.root = v]
SetChild(t, n, d, v) == [t EXCEPT !.child[d][n] = v]
SetParent(t, n, v)   == [t EXCEPT !.parent[n] = v]

\* `if (c) c->parent = p`
Adopt(t, c, p) == IF c = NULL THEN t ELSE SetParent(t, c, p)

\* The side of its parent u hangs on: the code compares with parent->left and
\* takes the right side for granted otherwise.
SideOf(t, u) == IF Left(t, t.parent[u]) = u THEN "L" ELSE "R"

\* The slot that points to u (a field of its parent, or root) now points to v.
ReplaceChild(t, u, v) ==
  IF t.parent[u] = NULL THEN SetRoot(t, v)
                        ELSE SetChild(t, t.parent[u], SideOf(t, u), v)

Transplant(t, u, v) == Adopt(ReplaceChild(t, u, v), v, t.parent[u])

\* What a rotation of n towards d returns: the root of the rotated subtree.
Pivot(t, n, d) == IF t.child[Opp(d)][n] = NULL THEN n ELSE t.child[Opp(d)][n]

\* A rotation that leaves the parent of the inner subtree unchanged.
RotateKeepInnerParent(t, n, d) ==
  LET pivot == t.child[Opp(d)][n]
      inner == t.child[d][pivot]
  IN  IF pivot = NULL THEN t
      ELSE LET t1 == SetChild(Transplant(t, n, pivot), n, Opp(d), inner)
           IN  SetParent(SetChild(t1, pivot, d, n), n, pivot)

\* rotate_left is Rotate(t, n, "L"), rotate_right is Rotate(t, n, "R").
Rotate(t, n, d) ==
  LET pivot == t.child[Opp(d)][n]
      inner == t.child[d][pivot]
  IN  IF pivot = NULL THEN t
      ELSE LET t1 == Adopt(SetChild(Transplant(t, n, pivot), n, Opp(d), inner),
                           inner, n)
           IN  SetParent(SetChild(t1, pivot, d, n), n, pivot)

\* The fresh node n becomes the d-child of the leaf p, or the root.
AttachLeaf(t, n, p, d) ==
  LET fresh == SetParent(SetChild(SetChild(t, n, "L", NULL), n, "R", NULL), n, p)
  IN  IF p = NULL THEN SetRoot(fresh, n) ELSE SetChild(fresh, p, d, n)
=============================================================================
