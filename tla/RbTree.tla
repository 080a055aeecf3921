------------------------------- MODULE RbTree -------------------------------
(***************************************************************************)
(* my::rb_tree (some_trees/rb_tree.hpp), the tree under my::map, my::set,  *)
(* my::multimap and my::multiset: insert, erase and clear of one tree.     *)
(*                                                                         *)
(* A call is a sequence of steps: one step per iteration of each loop of   *)
(* the code (the descent, the search, the walk to the successor, the two   *)
(* rebalancing loops) and one per straight piece of code between them.     *)
(* A node carries one value from its construction to its deletion, so the  *)
(* key of the value a node is allocated for is a constant function of the  *)
(* node, and a free node stands for a value a caller may insert.           *)
(***************************************************************************)
EXTENDS RbLinks, Integers

CONSTANTS KeyOf,     \* KeyOf[n]: key_of_value(n->value)
          RhsFirst   \* does `g->parent->left = rotate(g)` evaluate the
                     \* rotation before g->parent?

ASSUME KeyAssumption == KeyOf \in [Node -> Int]
ASSUME OrderAssumption == RhsFirst \in BOOLEAN

VARIABLES tree,    \* the links of all nodes, and root
          color,   \* node->color
          live,    \* the nodes allocated and not deleted
          size_,
          pc,      \* the loop or piece of code the running call is in
          key,     \* the argument of the call
          z,       \* the node the call inserts or erases
          cur,     \* current, node, or the x of erase
          par,     \* parent
          side     \* insert_left

vars == <<tree, color, live, size_, pc, key, z, cur, par, side>>

Keys == {KeyOf[n] : n \in Node}
Color == {"RED", "BLACK"}
PC == {"idle", "descend", "insert_rebalance", "find", "successor",
       "erase_rebalance", "delete"}

\* The nodes that hang in the tree: an erased node is unlinked before the
\* rebalancing and deleted after it.
Linked == IF pc \in {"erase_rebalance", "delete"} THEN live \ {z} ELSE live

Init ==
  /\ tree = EmptyTree
  /\ color = [n \in Node |-> "RED"]
  /\ live = {}
  /\ size_ = 0
  /\ pc = "idle"
  /\ key = 0 /\ z = NULL /\ cur = NULL /\ par = NULL /\ side = "L"

\* The call returns: its locals are gone.
Return == /\ pc' = "idle"
          /\ key' = 0 /\ z' = NULL /\ cur' = NULL /\ par' = NULL /\ side' = "L"

Black(c, n) == n # NULL => c[n] = "BLACK"
Blacken(c, n) == IF n = NULL THEN c ELSE [c EXCEPT ![n] = "BLACK"]
Paint(c, n, hue) == [c EXCEPT ![n] = hue]
-----------------------------------------------------------------------------
(***************************************************************************)
(* insert                                                                  *)
(***************************************************************************)
InsertCall(n) ==
  /\ pc = "idle"
  /\ n \in Node \ live
  /\ pc' = "descend"
  /\ key' = KeyOf[n] /\ z' = n /\ cur' = tree.root /\ par' = NULL /\ side' = "L"
  /\ UNCHANGED <<tree, color, live, size_>>

\* An equal key goes left.
DescendSideEqualLeft(n) == IF key <= KeyOf[n] THEN "L" ELSE "R"

\* A smaller key goes left, an equal or a greater one right.
DescendSide(n) == IF key < KeyOf[n] THEN "L" ELSE "R"

Descend ==
  /\ pc = "descend"
  /\ cur # NULL
  /\ par' = cur
  /\ side' = DescendSide(cur)
  /\ cur' = tree.child[DescendSide(cur)][cur]
  /\ UNCHANGED <<tree, color, live, size_, pc, key, z>>

NewColor(p) == IF p = NULL THEN "BLACK" ELSE "RED"

Attach ==
  /\ pc = "descend"
  /\ cur = NULL
  /\ live' = live \cup {z}
  /\ size_' = size_ + 1
  /\ tree' = AttachLeaf(tree, z, par, side)
  /\ color' = Paint(color, z, NewColor(par))
  /\ IF par = NULL THEN Return
     ELSE /\ pc' = "insert_rebalance"
          /\ cur' = z
          /\ UNCHANGED <<key, z, par, side>>

\* `new Node(value)` throws before anything is written.
AttachFails ==
  /\ pc = "descend"
  /\ cur = NULL
  /\ Return
  /\ UNCHANGED <<tree, color, live, size_>>
Grandparent(t, n) == IF t.parent[n] = NULL THEN NULL ELSE t.parent[t.parent[n]]

Uncle(t, n) ==
  LET g == Grandparent(t, n)
  IN  IF g = NULL THEN NULL
      ELSE t.child[Opp(IF t.parent[n] = Left(t, g) THEN "L" ELSE "R")][g]

\* The loop condition of insert_rebalance, with the `if (!g) break` in it.
RedParent == /\ cur # tree.root
             /\ ~Black(color, tree.parent[cur])
             /\ Grandparent(tree, cur) # NULL

\* The uncle is red: recolour, and go on from the grandparent.
InsertRecolor ==
  /\ pc = "insert_rebalance"
  /\ RedParent
  /\ ~Black(color, Uncle(tree, cur))
  /\ LET g == Grandparent(tree, cur)
     IN  /\ color' = Paint(Blacken(Blacken(color, tree.parent[cur]),
                                   Uncle(tree, cur)), g, "RED")
         /\ cur' = g
  /\ UNCHANGED <<tree, live, size_, pc, key, z, par, side>>

\* A triangle left as it is: the new red node stays the inner grandchild.
KeepTriangle(t, n) == [t |-> t, node |-> n]

\* If n is an inner grandchild its parent is rotated, so that the three
\* nodes form a line; the old parent is then the lower node.
Straighten(t, n) ==
  LET p == t.parent[n]
      d == SideOf(t, p)
      r == Rotate(t, p, d)
  IN  IF n = t.child[Opp(d)][p] THEN [t |-> r, node |-> p]
                                ELSE [t |-> t, node |-> n]

\* The store as it is if the rotation always comes first.
RotateThenStore(t, g, d) ==
  LET r == Rotate(t, g, d)
  IN  IF t.parent[g] = NULL THEN SetRoot(r, Pivot(t, g, d))
      ELSE SetChild(r, r.parent[g], SideOf(t, g), Pivot(t, g, d))

\* `g->parent->left = rotate(g)` and its three siblings: the node rotated up
\* is stored once more in the slot the rotation has already written.  If the
\* rotation is evaluated first, g->parent is the node rotated up itself.
RotateAndStore(t, g, d) ==
  LET r     == Rotate(t, g, d)
      owner == IF RhsFirst THEN r.parent[g] ELSE t.parent[g]
  IN  IF t.parent[g] = NULL THEN SetRoot(r, Pivot(t, g, d))
      ELSE SetChild(r, owner, SideOf(t, g), Pivot(t, g, d))

\* The uncle is black: at most two rotations, after which the parent is
\* black and the loop ends.
InsertRotate ==
  /\ pc = "insert_rebalance"
  /\ RedParent
  /\ Black(color, Uncle(tree, cur))
  /\ LET g    == Grandparent(tree, cur)
         line == Straighten(tree, cur)
         p    == line.t.parent[line.node]
         d    == SideOf(line.t, p)
         c    == Paint(Blacken(color, p), g, "RED")
         up   == RotateAndStore(line.t, g, Opp(d))
     IN  /\ tree' = IF line.node = line.t.child[d][p] THEN up ELSE line.t
         /\ color' = Blacken(c, tree'.root)
         /\ cur' = line.node
  /\ UNCHANGED <<live, size_, pc, key, z, par, side>>

InsertDone ==
  /\ pc = "insert_rebalance"
  /\ ~RedParent
  /\ color' = Blacken(color, tree.root)
  /\ Return
  /\ UNCHANGED <<tree, live, size_>>
-----------------------------------------------------------------------------
(***************************************************************************)
(* erase                                                                   *)
(***************************************************************************)
EraseCall(k) ==
  /\ pc = "idle"
  /\ k \in Keys
  /\ pc' = "find"
  /\ key' = k /\ cur' = tree.root
  /\ UNCHANGED <<tree, color, live, size_, z, par, side>>

Find ==
  /\ pc = "find"
  /\ cur # NULL
  /\ key # KeyOf[cur]
  /\ cur' = tree.child[DescendSide(cur)][cur]
  /\ UNCHANGED <<tree, color, live, size_, pc, key, z, par, side>>

\* An erase that counts an element it did not find.
CountMissing == size_ - 1

NotFoundSize == size_

NotFound ==
  /\ pc = "find"
  /\ cur = NULL
  /\ size_' = NotFoundSize
  /\ Return
  /\ UNCHANGED <<tree, color, live>>

\* A black node left its place: x, which took it, is one black short.
Unlinked(hue, x, p) ==
  /\ pc' = IF hue = "BLACK" THEN "erase_rebalance" ELSE "delete"
  /\ cur' = x
  /\ par' = p

\* z has at most one child, which takes its place.
SpliceOut ==
  /\ pc = "find"
  /\ cur # NULL
  /\ key = KeyOf[cur]
  /\ Left(tree, cur) = NULL \/ Right(tree, cur) = NULL
  /\ LET x == IF Left(tree, cur) = NULL THEN Right(tree, cur) ELSE Left(tree, cur)
     IN  /\ tree' = Transplant(tree, cur, x)
         /\ Unlinked(color[cur], x, tree.parent[cur])
  /\ z' = cur
  /\ UNCHANGED <<color, live, size_, key, side>>

\* z has two children: look for the first node of the right subtree.
SeekSuccessor ==
  /\ pc = "find"
  /\ cur # NULL
  /\ key = KeyOf[cur]
  /\ Left(tree, cur) # NULL
  /\ Right(tree, cur) # NULL
  /\ pc' = "successor"
  /\ z' = cur
  /\ cur' = Right(tree, cur)
  /\ UNCHANGED <<tree, color, live, size_, key, par, side>>

GoLeft ==
  /\ pc = "successor"
  /\ Left(tree, cur) # NULL
  /\ cur' = Left(tree, cur)
  /\ UNCHANGED <<tree, color, live, size_, pc, key, z, par, side>>

\* y takes the d-subtree of z.
Inherit(t, y, d) ==
  LET t1 == SetChild(t, y, d, t.child[d][z])
  IN  Adopt(t1, t1.child[d][y], y)

\* A successor that leaves its place below z empty and loses its right subtree.
LeaveEmpty(t, y) == Inherit(Transplant(t, y, NULL), y, "R")

\* The successor leaves the place it had below z and takes the right subtree
\* of z.
Detach(t, y) == Inherit(Transplant(t, y, Right(t, y)), y, "R")

\* The colour z had, which the node put in its place must take over.
KeepOwnColor(c, y) == c
TakeColor(c, y) == Paint(c, y, c[z])

ReplaceBySuccessor ==
  /\ pc = "successor"
  /\ Left(tree, cur) = NULL
  /\ LET y    == cur
         x    == Right(tree, y)
         near == tree.parent[y] = z
         t1   == IF near THEN tree ELSE Detach(tree, y)
     IN  /\ tree' = Inherit(Transplant(t1, z, y), y, "L")
         /\ Unlinked(color[y], x, IF near THEN y ELSE t1.parent[y])
         /\ color' = TakeColor(color, y)
  /\ UNCHANGED <<live, size_, key, z, side>>

\* The loop condition of erase_rebalance.
BlackShort == cur # tree.root /\ Black(color, cur)

\* Both branches of the loop body, with d the side of the parent x is on.
ShortSide == IF Left(tree, par) = cur THEN "L" ELSE "R"

\* Case 1: a red sibling is rotated up, and its inner child is the sibling.
SiblingIsRed == ~Black(color, tree.child[Opp(ShortSide)][par])
Tree1  == IF SiblingIsRed THEN Rotate(tree, par, ShortSide) ELSE tree
Color1 == IF SiblingIsRed
          THEN Paint(Blacken(color, tree.child[Opp(ShortSide)][par]), par, "RED")
          ELSE color
Sibling == Tree1.child[Opp(ShortSide)][par]

NephewsBlack == /\ Sibling # NULL
                /\ \A d \in Side : Black(Color1, Tree1.child[d][Sibling])

\* Case 2: the sibling turns red and the shortage moves up to the parent.
EraseRecolor ==
  /\ pc = "erase_rebalance"
  /\ BlackShort
  /\ NephewsBlack
  /\ tree' = Tree1
  /\ color' = Paint(Color1, Sibling, "RED")
  /\ cur' = par
  /\ par' = IF par = Tree1.root THEN par ELSE Tree1.parent[par]
  /\ UNCHANGED <<live, size_, pc, key, z, side>>

\* Case 3: if the far nephew is black the near one is rotated up.
FarIsBlack == Sibling # NULL /\ Black(Color1, Tree1.child[Opp(ShortSide)][Sibling])
Tree3  == IF FarIsBlack THEN Rotate(Tree1, Sibling, Opp(ShortSide)) ELSE Tree1
Color3 == IF FarIsBlack
          THEN Paint(Blacken(Color1, Tree1.child[ShortSide][Sibling]), Sibling, "RED")
          ELSE Color1

\* Case 4 without the black that the far nephew needs.
ForgetFarNephew(t, c, s) == Blacken(Paint(c, s, c[par]), par)

RepaintCase4(t, c, s) ==
  Blacken(Blacken(Paint(c, s, c[par]), par), t.child[Opp(ShortSide)][s])

\* Case 4: the parent is rotated down on the short side, and the loop ends.
EraseRotate ==
  /\ pc = "erase_rebalance"
  /\ BlackShort
  /\ ~NephewsBlack
  /\ LET s == Tree3.child[Opp(ShortSide)][par]
         c == IF s = NULL THEN Color3 ELSE RepaintCase4(Tree3, Color3, s)
     IN  color' = Blacken(c, cur)
  /\ tree' = Rotate(Tree3, par, ShortSide)
  /\ pc' = "delete"
  /\ UNCHANGED <<live, size_, key, z, cur, par, side>>

EraseDone ==
  /\ pc = "erase_rebalance"
  /\ ~BlackShort
  /\ color' = Blacken(color, cur)
  /\ pc' = "delete"
  /\ UNCHANGED <<tree, live, size_, key, z, cur, par, side>>

\* What a deleted node holds is never read: it is made the same for all.
Scrub(t, S) ==
  [t EXCEPT !.child  = [d \in Side |-> [n \in Node |-> IF n \in S THEN NULL ELSE @[d][n]]],
            !.parent = [n \in Node |-> IF n \in S THEN NULL ELSE @[n]]]
ScrubColor(c, S) == [n \in Node |-> IF n \in S THEN "RED" ELSE c[n]]

\* `delete z`, `--size_`
Delete ==
  /\ pc = "delete"
  /\ live' = live \ {z}
  /\ size_' = size_ - 1
  /\ tree' = Scrub(tree, {z})
  /\ color' = ScrubColor(color, {z})
  /\ Return
-----------------------------------------------------------------------------
\* clear_nodes deletes every node below the root.
Clear ==
  /\ pc = "idle"
  /\ tree' = SetRoot(Scrub(tree, live), NULL)
  /\ color' = ScrubColor(color, live)
  /\ live' = {}
  /\ size_' = 0
  /\ UNCHANGED <<pc, key, z, cur, par, side>>

\* The steps of a running call, which the caller waits for.
Step == \/ Descend \/ Attach \/ AttachFails
        \/ InsertRecolor \/ InsertRotate \/ InsertDone
        \/ Find \/ NotFound \/ SpliceOut \/ SeekSuccessor
        \/ GoLeft \/ ReplaceBySuccessor
        \/ EraseRecolor \/ EraseRotate \/ EraseDone \/ Delete

Next == \/ \E n \in Node : InsertCall(n)
        \/ \E k \in Keys : EraseCall(k)
        \/ Clear
        \/ Step

Spec == Init /\ [][Next]_vars /\ WF_vars(Step)
-----------------------------------------------------------------------------
(***************************************************************************)
(* Properties                                                              *)
(***************************************************************************)
TypeOK ==
  /\ tree \in Tree
  /\ color \in [Node -> Color]
  /\ live \subseteq Node
  /\ size_ \in Nat
  /\ pc \in PC
  /\ key \in Int
  /\ z \in NodeOrNull /\ cur \in NodeOrNull /\ par \in NodeOrNull
  /\ side \in Side

\* The links of the nodes in S form one tree under root, seen from each node:
\* a child points back to its parent, the two children differ, and every node
\* but the root is a child of its parent.
WellLinked(t, S) ==
  /\ IF t.root = NULL THEN S = {} ELSE t.root \in S /\ t.parent[t.root] = NULL
  /\ \A n \in S, d \in Side :
       t.child[d][n] # NULL => /\ t.child[d][n] \in S
                               /\ t.parent[t.child[d][n]] = n
                               /\ t.child[d][n] # t.child[Opp(d)][n]
  /\ \A n \in S \ {t.root} :
       t.parent[n] \in S /\ \E d \in Side : t.child[d][t.parent[n]] = n

\* What verify_binary_tree checks holds at every step, not only between two
\* calls; and no linked node points to a deleted one.
LinksOK == WellLinked(tree, Linked)
=============================================================================
