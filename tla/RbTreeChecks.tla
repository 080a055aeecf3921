---------------------------- MODULE RbTreeChecks ----------------------------
(***************************************************************************)
(* What a caller can observe of an rb_tree, and the checks the class       *)
(* offers its tests, as functions of the links; and the properties of      *)
(* RbTree stated with them.                                                *)
(***************************************************************************)
EXTENDS RbTree, TreeNodes

Sequence == Nodes(tree)

VerifyBinaryTree(t, n) ==
  LET verify[x \in NodeOrNull] ==
        x # NULL =>
          /\ \A d \in Side : t.child[d][x] # NULL => t.parent[t.child[d][x]] = x
          /\ t.parent[x] # NULL => \E d \in Side : t.child[d][t.parent[x]] = x
          /\ \A d \in Side : verify[t.child[d][x]]
  IN  verify[n]

IsBinaryTree == VerifyBinaryTree(tree, tree.root)

\* rb_and_black_height: the black height of x, -1 if x roots no red-black
\* tree.  The child in `slot`, a pair of a node and a side, may be red under a
\* red parent, and is taken to be `short` blacks higher than it is.
BlackHeight(c, n, slot, short) ==
  LET Extra(x, d)  == IF slot = <<x, d>> THEN short ELSE 0
      RedRed(x, d) == /\ slot # <<x, d>>
                      /\ ~Black(c, x)
                      /\ ~Black(c, tree.child[d][x])
      height[x \in NodeOrNull] ==
        LET side_height(d) == height[tree.child[d][x]] + Extra(x, d)
        IN  IF x = NULL THEN 1
            ELSE IF \/ side_height("L") # side_height("R")
                    \/ \E d \in Side : side_height(d) < 1 \/ RedRed(x, d)
            THEN -1
            ELSE side_height("L") + (IF Black(c, x) THEN 1 ELSE 0)
  IN  height[n]

NoSlot == <<NULL, "L">>

\* is_rb_tree, with the colours c, up to the defect in `slot`.
RedBlackBut(c, slot, short) == /\ Black(c, tree.root)
                               /\ BlackHeight(c, tree.root, slot, short) # -1

IsRbTree == RedBlackBut(color, NoSlot, 0)

\* A count that trusts the note on duplicates and looks right only.
CountRight(n, k) ==
  LET count[x \in NodeOrNull] ==
        IF x = NULL THEN 0
        ELSE IF k < KeyOf[x] THEN count[Left(tree, x)]
        ELSE count[Right(tree, x)] + (IF KeyOf[x] = k THEN 1 ELSE 0)
  IN  count[n]

\* count_node
CountNode(n, k) ==
  LET count[x \in NodeOrNull] ==
        IF x = NULL THEN 0
        ELSE IF k < KeyOf[x] THEN count[Left(tree, x)]
        ELSE IF KeyOf[x] < k THEN count[Right(tree, x)]
        ELSE 1 + count[Left(tree, x)] + count[Right(tree, x)]
  IN  count[n]

FindNode(n, k) ==
  LET find[x \in NodeOrNull] ==
        IF x = NULL \/ KeyOf[x] = k THEN x
        ELSE find[tree.child[IF k < KeyOf[x] THEN "L" ELSE "R"][x]]
  IN  find[n]

ContainsKey(k) == FindNode(tree.root, k) # NULL
-----------------------------------------------------------------------------
(***************************************************************************)
(* Properties                                                              *)
(***************************************************************************)

\* Nothing is lost and nothing is reached twice: at every step of every call,
\* between two rotations too, the walk from the root meets each linked node
\* exactly once.
NothingLost == /\ Len(Sequence) = Cardinality(Linked)
               /\ {Sequence[i] : i \in DOMAIN Sequence} = Linked

\* When no call runs the tree passes the class's own is_rb_tree check, and
\* size() is the number of elements an iteration would meet.
RedBlackWhenIdle == pc = "idle" => IsRbTree /\ size_ = Len(Sequence)

\* The argument behind the two rebalancing loops (insert_rebalance,
\* erase_rebalance): before every iteration the tree has one defect, and it is
\* at cur.  Inserting, cur is red and would be the root or under a red parent.
\* Erasing, either cur is red and painting it black repairs the tree, or the
\* place of cur is one black short.
OneDefect ==
  /\ pc = "insert_rebalance" =>
       /\ ~Black(color, cur)
       /\ IF cur = tree.root THEN RedBlackBut(Blacken(color, cur), NoSlot, 0)
          ELSE RedBlackBut(color, <<tree.parent[cur], SideOf(tree, cur)>>, 0)
  /\ pc = "erase_rebalance" =>
       IF BlackShort THEN RedBlackBut(color, <<par, ShortSide>>, 1)
                     ELSE RedBlackBut(Blacken(color, cur), NoSlot, 0)

\* erase_rebalance tests some pointers for null and not others: parent, the
\* grandnephew s->right of the mirrored case 3.  Whenever the loop body runs the
\* parent is a node of the tree, x has a sibling, and where the code recolours
\* the near nephew there is one.
NoNullDereference ==
  pc = "erase_rebalance" /\ BlackShort =>
    /\ par \in Linked
    /\ Sibling # NULL
    /\ ~NephewsBlack /\ FarIsBlack => Tree1.child[ShortSide][Sibling] # NULL

\* contains(k), find(k) and count(k) tell the truth about every key when no
\* call runs, though rotations spread equal keys over both subtrees.
LookupsAgree ==
  pc = "idle" =>
    \A k \in Keys : LET same == {n \in live : KeyOf[n] = k}
                    IN  /\ CountNode(tree.root, k) = Cardinality(same)
                        /\ ContainsKey(k) <=> same # {}

\* An iterator is one node pointer, and a caller may hold it while other calls
\* rotate and recolour the tree: whatever they did, begin() is the first element
\* and from every element ++ and -- lead to its neighbour in order, or to end().
AdvanceIsNeighbour == pc = "idle" => IteratorsInOrder(tree)

\* The tree is a sorted sequence to its callers: a new element appears behind
\* its equals when it is linked, an erased one disappears when it is unlinked,
\* and no rotation or recolouring changes the sequence.
Ordered == INSTANCE OrderedElements WITH Element <- Node, seq <- Sequence
OrderedSpec == Ordered!Spec

\* Every call returns, whatever the tree it finds: the descents end and the
\* rebalancing loops reach the root or stop.
CallsReturn == pc # "idle" ~> pc = "idle"

\* Between two calls the tree passes the class's own is_binary_tree check, as
\* the tests assert after every insert.
BinaryTreeWhenIdle == pc = "idle" => IsBinaryTree
=============================================================================
