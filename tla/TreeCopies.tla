----------------------------- MODULE TreeCopies -----------------------------
(***************************************************************************)
(* safe_copy of binary_search_tree and treap, which restore the parents    *)
(* of the copy.  The loop is a recursion over its stack, so the module is  *)
(* for model checking only.                                                *)
(***************************************************************************)
EXTENDS TreeNodes

\* The loop of safe_copy: `made` holds copies of all nodes above the stack and
\* on it.  A copy has the name of its original: it is another tree's node.
RECURSIVE CopyFrom(_, _, _)
CopyFrom(t, made, stack) ==
  LET n        == stack[Len(stack)]
      Kids     == SelectSeq(<<Right(t, n), Left(t, n)>>, LAMBDA c : c # NULL)
      Add(m, d) == Adopt(SetChild(m, n, d, t.child[d][n]), t.child[d][n], n)
  IN  IF stack = << >> THEN made
      ELSE CopyFrom(t, Add(Add(made, "R"), "L"), SubSeq(stack, 1, Len(stack) - 1) \o Kids)

SafeCopy(t) == IF t.root = NULL THEN EmptyTree
               ELSE CopyFrom(t, SetRoot(EmptyTree, t.root), <<t.root>>)
=============================================================================
