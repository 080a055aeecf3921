--------------------------- MODULE RbBalance_proof ---------------------------
(***************************************************************************)
(* The colours of the red-black tree: what the two rebalancing loops rely  *)
(* on and what they restore, for any nodes and any keys.                   *)
(*                                                                         *)
(* The black height of a node is carried as a labelling h of the nodes     *)
(* that agrees with the children of every node, so that each rotation and  *)
(* each recolouring is checked where it happens.                           *)
(***************************************************************************)
EXTENDS RbTreeChecks, RbTree_proof

-----------------------------------------------------------------------------
(***************************************************************************)
(* What a rotation does, seen from the nodes of the tree.                  *)
(***************************************************************************)

\* pivot, the child of n on the other side, came up, and n went down to side d.
Turned(r, t, S, n, d, pivot) ==
  /\ pivot \in S
  /\ pivot # n
  /\ t.child[Opp(d)][n] = pivot
  /\ r.root = (IF t.root = n THEN pivot ELSE t.root)
  /\ \A m \in S, e \in Side :
       r.child[e][m] = IF m = pivot /\ e = d THEN n
                       ELSE IF m = n /\ e = Opp(d) THEN t.child[d][pivot]
                       ELSE IF t.child[e][m] = n THEN pivot
                       ELSE t.child[e][m]
  /\ \A m \in S :
       r.parent[m] = IF m = n THEN pivot
                     ELSE IF m = t.child[d][pivot] THEN n
                     ELSE IF m = pivot THEN t.parent[n]
                     ELSE t.parent[m]

\* The child of a node is another node, and so is a grandchild.
LEMMA NoLoops ==
  ASSUME NEW t, NEW S \in SUBSET Node, GoodTree(t, S), NEW n \in S, NEW e \in Side,
         t.child[e][n] # NULL
  PROVE  /\ t.child[e][n] \in S
         /\ t.child[e][n] # n
         /\ \A f \in Side : t.child[f][t.child[e][n]] # n
<1>1. PICK f \in [Node -> Nat] : LayeredBy(t, S, f)
  BY DEF GoodTree
<1>2. t.child[e][n] \in S
  BY Neighbours
<1>3. f[t.child[e][n]] > f[n] /\ f[n] \in Nat /\ f[t.child[e][n]] \in Nat
  BY <1>1, <1>2 DEF LayeredBy
<1>4. ASSUME NEW g \in Side, t.child[g][t.child[e][n]] = n
      PROVE  FALSE
  <2>1. n # NULL
    BY NullAssumption
  <2>2. f[n] > f[t.child[e][n]]
    BY <2>1, <1>1, <1>2, <1>4 DEF LayeredBy
  <2> QED BY <2>2, <1>3
<1> QED BY <1>2, <1>3, <1>4

\* The slot of a node that hangs below g is the only one that holds it.
LEMMA SlotOf ==
  ASSUME NEW t, NEW S \in SUBSET Node, GoodTree(t, S), NEW n \in S,
         NEW m \in S, NEW e \in Side
  PROVE  /\ t.child[e][m] = n <=> m = t.parent[n] /\ e = SideOf(t, n)
         /\ t.root = n <=> t.parent[n] = NULL
<1>1. n # NULL /\ m # NULL
  BY NullAssumption
<1>2. t.child[e][m] = n => m = t.parent[n]
  BY <1>1, Neighbours
<1>3. t.parent[n] # NULL =>
        /\ t.parent[n] \in S
        /\ SideOf(t, n) \in Side
        /\ t.child[SideOf(t, n)][t.parent[n]] = n
        /\ n # t.root
  BY SlotFacts
<1>4. t.child[e][m] = n => e = SideOf(t, n)
  BY <1>1, <1>2, <1>3, UniqueSlot
<1>5. m = t.parent[n] /\ e = SideOf(t, n) => t.child[e][m] = n
  BY <1>1, <1>3
<1> QED BY <1>2, <1>3, <1>4, <1>5, Neighbours

\* rotate_left and rotate_right, seen from the nodes of the tree.
LEMMA TurnFacts ==
  ASSUME NEW t, NEW S \in SUBSET Node, GoodTree(t, S), NEW n \in S, NEW d \in Side,
         t.child[Opp(d)][n] # NULL
  PROVE  Turned(Rotate(t, n, d), t, S, n, d, t.child[Opp(d)][n])
<1>1. t \in Tree
  BY DEF GoodTree
<1>2. PICK o \in Side : o = Opp(d)
  BY SideFacts
<1>3. PICK pivot \in S : pivot = t.child[o][n]
  BY <1>2, Neighbours
<1>4. PICK inner \in NodeOrNull : inner = t.child[d][pivot]
  BY <1>3, Neighbours
<1>5. PICK g \in NodeOrNull : g = t.parent[n]
  BY Neighbours
<1>6. PICK s \in Side : s = SideOf(t, n)
  BY SlotFacts
<1>7. PICK r : r = Rotate(t, n, d)
  OBVIOUS
<1>8. Rotated(r, t, n, d, o, s, pivot, inner, g)
  BY <1>1, <1>2, <1>3, <1>4, <1>5, <1>6, <1>7, RotateFacts
<1>9. pivot # n /\ pivot # NULL
  BY <1>2, <1>3, NoLoops, NullAssumption
<1>10. \A m \in S, e \in Side : t.child[e][m] = n <=> m = g /\ e = s
  BY <1>5, <1>6, SlotOf
<1>11. t.root = n <=> g = NULL
  BY <1>2, <1>5, SlotOf
<1>12. r.root = (IF t.root = n THEN pivot ELSE t.root)
  BY <1>8, <1>11 DEF Rotated
<1>13. ASSUME NEW m \in S, NEW e \in Side
       PROVE  r.child[e][m] = IF m = pivot /\ e = d THEN n
                              ELSE IF m = n /\ e = o THEN inner
                              ELSE IF t.child[e][m] = n THEN pivot
                              ELSE t.child[e][m]
  <2>1. r.child[e][m] = IF m = pivot /\ e = d THEN n
                        ELSE IF m = n /\ e = o THEN inner
                        ELSE IF m = g /\ e = s THEN pivot
                        ELSE t.child[e][m]
    BY <1>8 DEF Rotated
  <2> QED BY <2>1, <1>10
<1>14. \A m \in S :
         r.parent[m] = IF m = n THEN pivot ELSE IF m = inner THEN n
                       ELSE IF m = pivot THEN g ELSE t.parent[m]
  BY <1>8 DEF Rotated
<1> QED BY <1>2, <1>3, <1>4, <1>5, <1>7, <1>9, <1>12, <1>13, <1>14 DEF Turned

\* `g->parent->left = rotate(g)` repeats a write of the rotation.
LEMMA StoreTurnFacts ==
  ASSUME NEW t, NEW S \in SUBSET Node, GoodTree(t, S), NEW n \in S, NEW d \in Side,
         t.child[Opp(d)][n] # NULL, ~RhsFirst
  PROVE  Turned(RotateAndStore(t, n, d), t, S, n, d, t.child[Opp(d)][n])
<1>1. PICK pivot : pivot = t.child[Opp(d)][n]
  OBVIOUS
<1>2. PICK r : r = Rotate(t, n, d)
  OBVIOUS
<1>3. Turned(r, t, S, n, d, pivot)
  BY <1>1, <1>2, TurnFacts
<1>4. r \in Tree
  BY <1>2, RotateGood DEF GoodTree
<1>5. PICK g \in NodeOrNull : g = t.parent[n]
  BY Neighbours
<1>6. PICK s \in Side : s = SideOf(t, n)
  BY SlotFacts
<1>7. Pivot(t, n, d) = pivot /\ pivot \in NodeOrNull
  BY <1>1, <1>3 DEF Pivot, Turned, NodeOrNull
<1>8. CASE g = NULL
  <2>1. PICK q : q = SetRoot(r, pivot)
    OBVIOUS
  <2>2. RotateAndStore(t, n, d) = q
    BY <2>1, <1>2, <1>5, <1>7, <1>8 DEF RotateAndStore
  <2>3. RootSet(q, r, pivot)
    BY <2>1, <1>4, <1>7, SetRootFacts
  <2>4. t.root = n
    BY ZenonT(40), <1>5, <1>8, Neighbours
  <2> QED BY <2>2, <2>3, <2>4, <1>1, <1>3 DEF RootSet, Turned
<1>9. CASE g # NULL
  <2>1. g \in S /\ t.child[s][g] = n
    BY <1>5, <1>6, <1>9, SlotFacts
  <2>2. PICK q : q = SetChild(r, g, s, pivot)
    OBVIOUS
  <2>3. RotateAndStore(t, n, d) = q
    BY <2>2, <1>2, <1>5, <1>6, <1>7, <1>9 DEF RotateAndStore
  <2>4. ChildSet(q, r, g, s, pivot)
    BY <2>1, <2>2, <1>4, <1>7, SetChildFacts
  <2>5. r.child[s][g] = pivot
    <3>1. g # pivot
      <4>1. t.child[Opp(d)][n] = pivot /\ Opp(d) \in Side
        BY <1>1, SideFacts
      <4> QED BY <4>1, <2>1, NoLoops
    <3>2. g # n
      BY <2>1, NoLoops, NullAssumption
    <3> QED BY <3>1, <3>2, <2>1, <1>3 DEF Turned
  <2>6. \A m \in S, e \in Side : q.child[e][m] = r.child[e][m]
    BY <2>4, <2>5 DEF ChildSet
  <2>7. q.root = r.root /\ q.parent = r.parent
    BY <2>4 DEF ChildSet
  <2> QED BY <2>3, <2>6, <2>7, <1>1, <1>3 DEF Turned
<1> QED BY <1>8, <1>9
-----------------------------------------------------------------------------
(***************************************************************************)
(* Balance.  h[n] is the number of black nodes on every path down from n,  *)
(* the null pointer included.  The child in slot (a, e) may be red under a *)
(* red parent, and counts as `short` blacks more than it has.              *)
(***************************************************************************)
Blacks(c, n) == IF c[n] = "BLACK" THEN 1 ELSE 0

HeightOf(h, x) == IF x = NULL THEN 1 ELSE h[x]

BalancedBy(t, c, S, a, e, short, h) ==
  \A n \in S, d \in Side :
    /\ h[n] >= 1
    /\ h[n] = HeightOf(h, t.child[d][n])
              + (IF n = a /\ d = e THEN short ELSE 0) + Blacks(c, n)
    /\ c[n] = "BLACK" \/ Black(c, t.child[d][n]) \/ (n = a /\ d = e)

Balanced(t, c, S, a, e, short) ==
  \E h \in [Node -> Nat] : BalancedBy(t, c, S, a, e, short, h)

\* The defect is gone when nothing is in the slot, or when nothing is missing
\* there and one of the two nodes is black.
LEMMA DropSlot ==
  ASSUME NEW t, NEW c, NEW S \in SUBSET Node, NEW a, NEW e, NEW short \in Nat,
         Balanced(t, c, S, a, e, short),
         \/ a \notin S
         \/ short = 0 /\ (c[a] = "BLACK" \/ Black(c, t.child[e][a]))
  PROVE  Balanced(t, c, S, NULL, "L", 0)
<1>1. PICK h \in [Node -> Nat] : BalancedBy(t, c, S, a, e, short, h)
  BY DEF Balanced
<1>2. ASSUME NEW n \in S, NEW d \in Side
      PROVE  /\ h[n] >= 1
             /\ h[n] = HeightOf(h, t.child[d][n]) + 0 + Blacks(c, n)
             /\ c[n] = "BLACK" \/ Black(c, t.child[d][n])
  BY <1>1 DEF BalancedBy
<1>3. \A n \in S : n # NULL
  BY NullAssumption
<1> QED BY <1>2, <1>3 DEF Balanced, BalancedBy

\* Painting the root black adds one to the height of the whole tree.
LEMMA RootBlacken ==
  ASSUME NEW t, NEW S \in SUBSET Node, GoodTree(t, S), NEW c \in [Node -> Color],
         NEW a, NEW e, NEW short \in Nat, Balanced(t, c, S, a, e, short)
  PROVE  /\ Balanced(t, Blacken(c, t.root), S, a, e, short)
         /\ Black(Blacken(c, t.root), t.root)
<1>1. PICK h \in [Node -> Nat] : BalancedBy(t, c, S, a, e, short, h)
  BY DEF Balanced
<1>2. CASE t.root = NULL
  BY <1>2, <1>1 DEF Blacken, Black, Balanced
<1>3. CASE t.root # NULL
  <2>1. PICK u \in S : u = t.root
    BY <1>3 DEF GoodTree, WellLinked
  <2>2. PICK c2 \in [Node -> Color] : c2 = Blacken(c, u)
    BY PaintFacts DEF NodeOrNull
  <2>3. \A m \in Node : c2[m] = IF m = u THEN "BLACK" ELSE c[m]
    BY <2>2, NullAssumption DEF Blacken
  <2>4. \A m \in S, d \in Side : t.child[d][m] # u
    BY <2>1, SlotOf, Neighbours, NullAssumption DEF GoodTree, WellLinked
  <2> DEFINE k == [m \in Node |-> IF m = u /\ c[u] # "BLACK" THEN h[u] + 1 ELSE h[m]]
  <2>5. k \in [Node -> Nat]
    OBVIOUS
  <2>6. ASSUME NEW m \in S, NEW d \in Side
        PROVE  /\ k[m] >= 1
               /\ k[m] = HeightOf(k, t.child[d][m])
                         + (IF m = a /\ d = e THEN short ELSE 0) + Blacks(c2, m)
               /\ c2[m] = "BLACK" \/ Black(c2, t.child[d][m]) \/ (m = a /\ d = e)
    <3>1. PICK x \in NodeOrNull : x = t.child[d][m]
      BY Neighbours
    <3>2. x # u
      BY <2>4, <3>1
    <3>3. HeightOf(k, x) = HeightOf(h, x)
      BY <3>1, <3>2 DEF HeightOf, NodeOrNull
    <3>4. Black(c2, x) <=> Black(c, x)
      BY <3>1, <3>2, <2>3 DEF Black, NodeOrNull
    <3>5. /\ h[m] >= 1
          /\ h[m] = HeightOf(h, x) + (IF m = a /\ d = e THEN short ELSE 0) + Blacks(c, m)
          /\ c[m] = "BLACK" \/ Black(c, x) \/ (m = a /\ d = e)
      BY <1>1, <3>1 DEF BalancedBy
    <3>6. CASE m # u
      BY <3>1, <3>3, <3>4, <3>5, <3>6, <2>3 DEF Blacks
    <3>7. CASE m = u
      <4>1. c2[m] = "BLACK" /\ Blacks(c2, m) = 1
        BY <3>7, <2>3 DEF Blacks
      <4>2. k[m] = IF c[m] # "BLACK" THEN h[m] + 1 ELSE h[m]
        BY <3>7
      <4>3. CASE c[m] = "BLACK"
        <5>1. Blacks(c, m) = 1 /\ k[m] = h[m]
          BY <4>2, <4>3 DEF Blacks
        <5> QED BY <5>1, <4>1, <3>1, <3>3, <3>5
      <4>4. CASE c[m] # "BLACK"
        <5>1. Blacks(c, m) = 0 /\ k[m] = h[m] + 1
          BY <4>2, <4>4 DEF Blacks
        <5>2. h[m] \in Nat /\ HeightOf(h, x) \in Nat
          BY <3>1, <1>1 DEF HeightOf, NodeOrNull
        <5>3. h[m] = HeightOf(h, x) + (IF m = a /\ d = e THEN short ELSE 0) + 0
          BY <5>1, <3>5
        <5> QED BY <5>1, <5>2, <5>3, <4>1, <3>1, <3>3, <3>5
      <4> QED BY <4>3, <4>4
    <3> QED BY <3>6, <3>7
  <2>7. BalancedBy(t, c2, S, a, e, short, k)
    <3> HIDE DEF k
    <3> QED BY <2>6 DEF BalancedBy
  <2> QED BY <2>1, <2>2, <2>3, <2>5, <2>7, NullAssumption DEF Balanced, Black
<1> QED BY <1>2, <1>3

\* The nodes a rotation moves apart: n, the node that comes up, and the three
\* subtrees below them.
LEMMA TurnParts ==
  ASSUME NEW t, NEW S \in SUBSET Node, GoodTree(t, S), NEW n \in S, NEW d \in Side,
         NEW r, NEW pivot, Turned(r, t, S, n, d, pivot)
  PROVE  /\ pivot \in S /\ pivot # n
         /\ t.child[Opp(d)][n] = pivot
         /\ t.child[d][n] \in (S \cup {NULL}) \ {n, pivot}
         /\ \A e \in Side : t.child[e][pivot] \in (S \cup {NULL}) \ {n, pivot}
         /\ r.child[d][pivot] = n
         /\ r.child[Opp(d)][pivot] = t.child[Opp(d)][pivot]
         /\ r.child[d][n] = t.child[d][n]
         /\ r.child[Opp(d)][n] = t.child[d][pivot]
         /\ \A m \in S \ {n, pivot}, e \in Side :
              /\ t.child[e][m] \in (S \cup {NULL}) \ {pivot}
              /\ r.child[e][m] = IF t.child[e][m] = n THEN pivot ELSE t.child[e][m]
<1>1. PICK o \in Side : o = Opp(d) /\ o # d /\ Opp(o) = d
  BY SideFacts
<1>2. pivot \in S /\ pivot # n /\ t.child[o][n] = pivot /\ pivot # NULL /\ n # NULL
  BY <1>1, NullAssumption DEF Turned
<1>3. \A m \in S, e \in Side : t.child[e][m] \in S \cup {NULL} /\ t.child[e][m] # m
  BY Neighbours, NoLoops, NullAssumption
<1>4. t.child[d][n] # pivot
  BY <1>1, <1>2, UniqueSlot
<1>5. \A e \in Side : t.child[e][pivot] # n
  BY <1>1, <1>2, NoLoops
<1>6. \A m \in S \ {n, pivot}, e \in Side : t.child[e][m] # pivot
  BY <1>1, <1>2, UniqueSlot
<1>7. \A m \in S, e \in Side :
        r.child[e][m] = IF m = pivot /\ e = d THEN n
                        ELSE IF m = n /\ e = o THEN t.child[d][pivot]
                        ELSE IF t.child[e][m] = n THEN pivot
                        ELSE t.child[e][m]
  BY <1>1 DEF Turned
<1>8. /\ r.child[d][pivot] = n
      /\ r.child[o][pivot] = t.child[o][pivot]
      /\ r.child[d][n] = t.child[d][n]
      /\ r.child[o][n] = t.child[d][pivot]
  BY <1>1, <1>2, <1>3, <1>5, <1>7
<1>9. \A m \in S \ {n, pivot}, e \in Side :
        r.child[e][m] = IF t.child[e][m] = n THEN pivot ELSE t.child[e][m]
  BY <1>7
<1> QED BY <1>1, <1>2, <1>3, <1>4, <1>5, <1>6, <1>8, <1>9

\* A red node comes up and exchanges its colour with the black node that goes
\* down: the heights stay, and the red node below has black children.
LEMMA SwapBalance ==
  ASSUME NEW t, NEW S \in SUBSET Node, GoodTree(t, S), NEW n \in S, NEW d \in Side,
         NEW r, NEW pivot, Turned(r, t, S, n, d, pivot),
         NEW c, NEW c2, NEW a, NEW e, NEW short \in Nat,
         Balanced(t, c, S, a, e, short),
         c[n] = "BLACK", c[pivot] = "RED",
         Black(c, t.child[d][n]) \/ (n = a /\ d = e),
         ~(n = a /\ Opp(d) = e), ~(pivot = a /\ d = e),
         \A m \in S : c2[m] = IF m = n THEN "RED" ELSE IF m = pivot THEN "BLACK" ELSE c[m]
  PROVE  Balanced(r, c2, S, a, e, short)
<1>1. PICK h \in [Node -> Nat] : BalancedBy(t, c, S, a, e, short, h)
  BY DEF Balanced
<1>2. PICK o \in Side : o = Opp(d) /\ o # d /\ \A f \in Side : f = d \/ f = o
  BY SideFacts
<1> DEFINE k == [m \in Node |-> IF m = n THEN h[pivot] ELSE IF m = pivot THEN h[n] ELSE h[m]]
<1>3. /\ pivot \in S /\ pivot # n
      /\ t.child[o][n] = pivot
      /\ r.child[d][pivot] = n
      /\ r.child[o][pivot] = t.child[o][pivot]
      /\ r.child[d][n] = t.child[d][n]
      /\ r.child[o][n] = t.child[d][pivot]
  BY <1>2, TurnParts
<1>4. k \in [Node -> Nat] /\ k[n] = h[pivot] /\ k[pivot] = h[n]
  BY <1>3
<1>5. \A x \in (S \cup {NULL}) \ {n, pivot} :
        /\ HeightOf(k, x) = HeightOf(h, x)
        /\ HeightOf(h, x) \in Nat
        /\ Black(c2, x) <=> Black(c, x)
  BY NullAssumption DEF HeightOf, Black
<1>6. /\ t.child[d][n] \in (S \cup {NULL}) \ {n, pivot}
      /\ t.child[d][pivot] \in (S \cup {NULL}) \ {n, pivot}
      /\ t.child[o][pivot] \in (S \cup {NULL}) \ {n, pivot}
  BY <1>2, TurnParts
<1>7. Blacks(c, n) = 1 /\ Blacks(c, pivot) = 0 /\ Blacks(c2, n) = 0 /\ Blacks(c2, pivot) = 1
      /\ c2[n] = "RED" /\ c2[pivot] = "BLACK"
  BY <1>3 DEF Blacks
<1>8. /\ h[n] = HeightOf(h, t.child[d][n]) + (IF n = a /\ d = e THEN short ELSE 0) + 1
      /\ h[n] = h[pivot] + 1
      /\ h[pivot] >= 1 /\ h[n] \in Nat /\ h[pivot] \in Nat
  <2>1. h[n] = HeightOf(h, t.child[o][n]) + (IF n = a /\ o = e THEN short ELSE 0) + Blacks(c, n)
    BY <1>1, <1>2 DEF BalancedBy
  <2>2. ~(n = a /\ o = e)
    BY <1>2
  <2>3. HeightOf(h, pivot) = h[pivot]
    BY <1>3, NullAssumption DEF HeightOf
  <2>4. h[n] = HeightOf(h, t.child[d][n]) + (IF n = a /\ d = e THEN short ELSE 0) + Blacks(c, n)
        /\ h[pivot] >= 1
    BY <1>1, <1>3 DEF BalancedBy
  <2> QED BY <2>1, <2>2, <2>3, <2>4, <1>3, <1>7
<1>9. /\ h[pivot] = HeightOf(h, t.child[d][pivot])
      /\ h[pivot] = HeightOf(h, t.child[o][pivot])
                    + (IF pivot = a /\ o = e THEN short ELSE 0)
      /\ Black(c, t.child[d][pivot])
      /\ Black(c, t.child[o][pivot]) \/ (pivot = a /\ o = e)
  <2>1. /\ h[pivot] = HeightOf(h, t.child[d][pivot]) + 0 + Blacks(c, pivot)
        /\ c[pivot] = "BLACK" \/ Black(c, t.child[d][pivot])
    BY <1>1, <1>3 DEF BalancedBy
  <2>2. /\ h[pivot] = HeightOf(h, t.child[o][pivot])
                      + (IF pivot = a /\ o = e THEN short ELSE 0) + Blacks(c, pivot)
        /\ c[pivot] = "BLACK" \/ Black(c, t.child[o][pivot]) \/ (pivot = a /\ o = e)
    BY <1>1, <1>2, <1>3 DEF BalancedBy
  <2>3. HeightOf(h, t.child[d][pivot]) \in Nat /\ HeightOf(h, t.child[o][pivot]) \in Nat
    BY <1>5, <1>6
  <2> QED BY <2>1, <2>2, <2>3, <1>7
<1>10. ASSUME NEW m \in S, NEW f \in Side
       PROVE  /\ k[m] >= 1
              /\ k[m] = HeightOf(k, r.child[f][m])
                        + (IF m = a /\ f = e THEN short ELSE 0) + Blacks(c2, m)
              /\ c2[m] = "BLACK" \/ Black(c2, r.child[f][m]) \/ (m = a /\ f = e)
  <2>1. CASE m = pivot /\ f = d
    <3>1. HeightOf(k, n) = h[pivot]
      BY <1>4, NullAssumption DEF HeightOf
    <3>2. ~(m = a /\ f = e)
      BY <2>1
    <3>3. h[n] = h[pivot] + 0 + 1
      BY <1>8
    <3> QED BY <2>1, <3>1, <3>2, <3>3, <1>3, <1>4, <1>7, <1>8
  <2>2. CASE m = pivot /\ f = o
    <3>1. HeightOf(k, t.child[o][pivot]) = HeightOf(h, t.child[o][pivot])
          /\ HeightOf(h, t.child[o][pivot]) \in Nat
      BY <1>5, <1>6
    <3>2. h[n] = HeightOf(h, t.child[o][pivot])
                 + (IF pivot = a /\ o = e THEN short ELSE 0) + 1
      BY <3>1, <1>8, <1>9
    <3> QED BY <2>2, <3>1, <3>2, <1>3, <1>4, <1>7, <1>8
  <2>3. CASE m = n /\ f = d
    <3>1. /\ HeightOf(k, t.child[d][n]) = HeightOf(h, t.child[d][n])
          /\ HeightOf(h, t.child[d][n]) \in Nat
          /\ Black(c2, t.child[d][n]) <=> Black(c, t.child[d][n])
      BY <1>5, <1>6
    <3>2. h[pivot] = HeightOf(h, t.child[d][n]) + (IF n = a /\ d = e THEN short ELSE 0) + 0
      BY <3>1, <1>8
    <3> QED BY <2>3, <3>1, <3>2, <1>3, <1>4, <1>7, <1>8
  <2>4. CASE m = n /\ f = o
    <3>1. /\ HeightOf(k, t.child[d][pivot]) = HeightOf(h, t.child[d][pivot])
          /\ HeightOf(h, t.child[d][pivot]) \in Nat
          /\ Black(c2, t.child[d][pivot])
      BY <1>5, <1>6, <1>9
    <3>2. ~(m = a /\ f = e)
      BY <2>4, <1>2
    <3>3. h[pivot] = HeightOf(h, t.child[d][pivot]) + 0 + 0
      BY <3>1, <1>8, <1>9
    <3> QED BY <2>4, <3>1, <3>2, <3>3, <1>3, <1>4, <1>7, <1>8
  <2>5. CASE m \notin {n, pivot}
    <3>1. /\ h[m] >= 1
          /\ h[m] = HeightOf(h, t.child[f][m])
                    + (IF m = a /\ f = e THEN short ELSE 0) + Blacks(c, m)
          /\ c[m] = "BLACK" \/ Black(c, t.child[f][m]) \/ (m = a /\ f = e)
      BY <1>1 DEF BalancedBy
    <3>2. k[m] = h[m] /\ c2[m] = c[m] /\ Blacks(c2, m) = Blacks(c, m)
      BY <2>5 DEF Blacks
    <3>3. /\ HeightOf(k, r.child[f][m]) = HeightOf(h, t.child[f][m])
          /\ Black(c, t.child[f][m]) => Black(c2, r.child[f][m])
      <4>1. /\ t.child[f][m] \in (S \cup {NULL}) \ {pivot}
            /\ r.child[f][m] = IF t.child[f][m] = n THEN pivot ELSE t.child[f][m]
        BY <2>5, TurnParts
      <4>2. CASE t.child[f][m] = n
        BY <4>1, <4>2, <1>3, <1>4, <1>7, NullAssumption DEF HeightOf, Black
      <4>3. CASE t.child[f][m] # n
        BY <4>1, <4>3, <1>5
      <4> QED BY <4>2, <4>3
    <3> QED BY <3>1, <3>2, <3>3
  <2> QED BY <2>1, <2>2, <2>3, <2>4, <2>5, <1>2
<1>11. BalancedBy(r, c2, S, a, e, short, k)
  <2> HIDE DEF k
  <2> QED BY <1>10 DEF BalancedBy
<1> QED BY <1>4, <1>11 DEF Balanced

\* Two red nodes, one below the other, change places: they are still the only
\* red pair, and no height changes.
LEMMA TriangleBalance ==
  ASSUME NEW t, NEW S \in SUBSET Node, GoodTree(t, S), NEW n \in S, NEW d \in Side,
         NEW r, NEW pivot, Turned(r, t, S, n, d, pivot),
         NEW c, Balanced(t, c, S, n, Opp(d), 0),
         c[n] = "RED", c[pivot] = "RED"
  PROVE  Balanced(r, c, S, pivot, d, 0)
<1>1. PICK h \in [Node -> Nat] : BalancedBy(t, c, S, n, Opp(d), 0, h)
  BY DEF Balanced
<1>2. PICK o \in Side : o = Opp(d) /\ o # d /\ \A f \in Side : f = d \/ f = o
  BY SideFacts
<1>3. /\ pivot \in S /\ pivot # n
      /\ t.child[o][n] = pivot
      /\ r.child[d][pivot] = n
      /\ r.child[o][pivot] = t.child[o][pivot]
      /\ r.child[d][n] = t.child[d][n]
      /\ r.child[o][n] = t.child[d][pivot]
  BY <1>2, TurnParts
<1>4. \A m \in S, f \in Side :
        /\ h[m] >= 1
        /\ h[m] = HeightOf(h, t.child[f][m]) + 0 + Blacks(c, m)
        /\ c[m] = "BLACK" \/ Black(c, t.child[f][m]) \/ (m = n /\ f = o)
  BY <1>1, <1>2 DEF BalancedBy
<1>5. Blacks(c, n) = 0 /\ Blacks(c, pivot) = 0
  BY <1>3 DEF Blacks
<1>6. HeightOf(h, pivot) = h[pivot] /\ HeightOf(h, n) = h[n]
  BY <1>3, NullAssumption DEF HeightOf
<1>7. h[n] = h[pivot]
  BY <1>2, <1>3, <1>4, <1>5, <1>6
<1>8. ASSUME NEW m \in S, NEW f \in Side
      PROVE  /\ h[m] >= 1
             /\ h[m] = HeightOf(h, r.child[f][m]) + 0 + Blacks(c, m)
             /\ c[m] = "BLACK" \/ Black(c, r.child[f][m]) \/ (m = pivot /\ f = d)
  <2>1. CASE m = pivot /\ f = d
    BY <2>1, <1>3, <1>4, <1>5, <1>6, <1>7
  <2>2. CASE m = pivot /\ f = o
    BY <2>2, <1>3, <1>4, <1>5, <1>7
  <2>3. CASE m = n /\ f = d
    BY <2>3, <1>2, <1>3, <1>4, <1>5
  <2>4. CASE m = n /\ f = o
    <3>1. h[n] = HeightOf(h, t.child[d][pivot]) + 0 + 0 /\ Black(c, t.child[d][pivot])
      BY <1>3, <1>4, <1>5, <1>7
    <3> QED BY <3>1, <2>4, <1>3, <1>4, <1>5
  <2>5. CASE m \notin {n, pivot}
    <3>1. /\ t.child[f][m] \in (S \cup {NULL}) \ {pivot}
          /\ r.child[f][m] = IF t.child[f][m] = n THEN pivot ELSE t.child[f][m]
      BY <2>5, TurnParts
    <3>2. CASE t.child[f][m] = n
      <4>1. ~Black(c, n)
        BY NullAssumption DEF Black
      <4>2. c[m] = "BLACK"
        BY <4>1, <3>2, <2>5, <1>4
      <4>3. HeightOf(h, r.child[f][m]) = HeightOf(h, t.child[f][m])
        BY <3>1, <3>2, <1>6, <1>7
      <4> QED BY <4>2, <4>3, <1>4
    <3>3. CASE t.child[f][m] # n
      BY <3>1, <3>3, <2>5, <1>4
    <3> QED BY <3>2, <3>3
  <2> QED BY <2>1, <2>2, <2>3, <2>4, <2>5, <1>2
<1>9. BalancedBy(r, c, S, pivot, d, 0, h)
  BY <1>8 DEF BalancedBy
<1> QED BY <1>9 DEF Balanced

\* The last rotation of erase_rebalance: the black sibling comes up with the
\* colour of n, and its red far child turns black; nothing is short any more.
LEMMA LastTurnBalance ==
  ASSUME NEW t, NEW S \in SUBSET Node, GoodTree(t, S), NEW n \in S, NEW d \in Side,
         NEW r, NEW pivot, Turned(r, t, S, n, d, pivot),
         NEW c, NEW c2, Balanced(t, c, S, n, d, 1),
         NEW far \in S, far = t.child[Opp(d)][pivot],
         c[pivot] = "BLACK", c[far] = "RED",
         \A m \in S : c2[m] = IF m \in {n, far} THEN "BLACK"
                              ELSE IF m = pivot THEN c[n] ELSE c[m]
  PROVE  Balanced(r, c2, S, NULL, "L", 0)
<1>1. PICK h \in [Node -> Nat] : BalancedBy(t, c, S, n, d, 1, h)
  BY DEF Balanced
<1>2. PICK o \in Side : o = Opp(d) /\ o # d /\ \A f \in Side : f = d \/ f = o
  BY SideFacts
<1>3. /\ pivot \in S /\ pivot # n /\ far \notin {n, pivot}
      /\ t.child[o][n] = pivot
      /\ t.child[o][pivot] = far
      /\ r.child[d][pivot] = n
      /\ r.child[o][pivot] = far
      /\ r.child[d][n] = t.child[d][n]
      /\ r.child[o][n] = t.child[d][pivot]
  BY <1>2, TurnParts
<1> DEFINE k == [m \in Node |-> IF m = n THEN h[pivot] ELSE IF m = pivot THEN h[n]
                                ELSE IF m = far THEN h[far] + 1 ELSE h[m]]
<1>4. /\ k \in [Node -> Nat]
      /\ k[n] = h[pivot] /\ k[pivot] = h[n] /\ k[far] = h[far] + 1
      /\ \A m \in S \ {n, pivot, far} : k[m] = h[m]
  <2>1. far \in Node /\ pivot \in Node /\ h[far] + 1 \in Nat
    BY <1>3
  <2>2. k \in [Node -> Nat]
    BY <2>1
  <2>3. k[n] = h[pivot] /\ k[pivot] = h[n] /\ k[far] = h[far] + 1
    BY <2>1, <1>3
  <2>4. \A m \in S \ {n, pivot, far} : k[m] = h[m]
    OBVIOUS
  <2> QED BY <2>2, <2>3, <2>4
<1> HIDE DEF k
<1>5. \A m \in S, f \in Side :
        /\ h[m] >= 1
        /\ h[m] = HeightOf(h, t.child[f][m]) + (IF m = n /\ f = d THEN 1 ELSE 0) + Blacks(c, m)
        /\ c[m] = "BLACK" \/ Black(c, t.child[f][m]) \/ (m = n /\ f = d)
  BY <1>1 DEF BalancedBy
<1>6. \A x \in (S \cup {NULL}) \ {n, pivot, far} :
        /\ HeightOf(k, x) = HeightOf(h, x)
        /\ HeightOf(h, x) \in Nat
        /\ Black(c2, x) <=> Black(c, x)
  BY <1>4, NullAssumption DEF HeightOf, Black
<1>7. /\ t.child[d][n] \in (S \cup {NULL}) \ {n, pivot, far}
      /\ t.child[d][pivot] \in (S \cup {NULL}) \ {n, pivot, far}
      /\ \A f \in Side : t.child[f][far] \in (S \cup {NULL}) \ {n, pivot, far}
      /\ \A m \in S \ {pivot}, f \in Side : t.child[f][m] # far
  <2>1. \A m \in S, f \in Side : t.child[f][m] = far => m = pivot /\ f = o
    BY <1>2, <1>3, UniqueSlot, NullAssumption
  <2>2. \A f \in Side : t.child[f][far] \in S \cup {NULL} /\ t.child[f][far] # far
                        /\ t.child[f][far] # pivot
    BY <1>2, <1>3, NoLoops, Neighbours, NullAssumption
  <2>3. \A f \in Side : t.child[f][far] # n
    <3>1. ASSUME NEW f \in Side, t.child[f][far] = n PROVE FALSE
      <4>1. PICK g \in [Node -> Nat] : LayeredBy(t, S, g)
        BY DEF GoodTree
      <4>2. g[pivot] > g[n] /\ g[far] > g[pivot] /\ g[n] > g[far]
        BY <3>1, <4>1, <1>2, <1>3, NullAssumption DEF LayeredBy
      <4>3. g[pivot] \in Nat /\ g[far] \in Nat /\ g[n] \in Nat
        BY <1>3
      <4> QED BY <4>2, <4>3
    <3> QED BY <3>1
  <2>4. /\ t.child[d][n] \in (S \cup {NULL}) \ {n, pivot}
        /\ t.child[d][pivot] \in (S \cup {NULL}) \ {n, pivot}
    BY TurnParts
  <2> QED BY <2>1, <2>2, <2>3, <2>4, <1>2, <1>3
<1>8. /\ HeightOf(h, pivot) = h[pivot] /\ HeightOf(h, far) = h[far]
      /\ HeightOf(k, n) = h[pivot] /\ HeightOf(k, pivot) = h[n] /\ HeightOf(k, far) = h[far] + 1
  BY <1>3, <1>4, NullAssumption DEF HeightOf
<1>9. /\ Blacks(c, pivot) = 1 /\ Blacks(c, far) = 0
      /\ c2[n] = "BLACK" /\ c2[far] = "BLACK" /\ Black(c2, n) /\ Black(c2, far)
      /\ Blacks(c2, n) = 1 /\ Blacks(c2, far) = 1 /\ Blacks(c2, pivot) = Blacks(c, n)
      /\ c2[pivot] = c[n]
      /\ Blacks(c, n) \in Nat
  BY <1>3 DEF Blacks, Black
<1>10. /\ h[n] \in Nat /\ h[pivot] \in Nat /\ h[far] \in Nat
       /\ h[n] >= 1 /\ h[pivot] >= 1 /\ h[far] >= 1
       /\ h[n] = h[pivot] + Blacks(c, n)
       /\ h[n] = HeightOf(h, t.child[d][n]) + 1 + Blacks(c, n)
       /\ h[pivot] = h[far] + 1
       /\ h[pivot] = HeightOf(h, t.child[d][pivot]) + 1
       /\ \A f \in Side : h[far] = HeightOf(h, t.child[f][far])
  <2>1. h[n] = HeightOf(h, t.child[o][n]) + 0 + Blacks(c, n) /\ h[n] >= 1
    BY <1>2, <1>5
  <2>2. h[n] = HeightOf(h, t.child[d][n]) + 1 + Blacks(c, n)
    BY <1>5
  <2>3. /\ h[pivot] = HeightOf(h, t.child[o][pivot]) + 0 + Blacks(c, pivot)
        /\ h[pivot] = HeightOf(h, t.child[d][pivot]) + 0 + Blacks(c, pivot)
        /\ h[pivot] >= 1
    BY <1>2, <1>3, <1>5
  <2>4. h[far] >= 1 /\ \A f \in Side : h[far] = HeightOf(h, t.child[f][far]) + 0 + Blacks(c, far)
    BY <1>3, <1>5
  <2>5. \A f \in Side : HeightOf(h, t.child[f][far]) \in Nat
    BY <1>6, <1>7
  <2>6. HeightOf(h, t.child[d][n]) \in Nat /\ HeightOf(h, t.child[d][pivot]) \in Nat
        /\ h[n] \in Nat /\ h[pivot] \in Nat /\ h[far] \in Nat
    BY <1>3, <1>6, <1>7
  <2>7. h[n] = h[pivot] + Blacks(c, n)
    BY <2>1, <2>6, <1>3, <1>8, <1>9
  <2>8. h[pivot] = h[far] + 1 /\ h[pivot] = HeightOf(h, t.child[d][pivot]) + 1
    BY <2>3, <2>6, <1>3, <1>8, <1>9
  <2>9. \A f \in Side : h[far] = HeightOf(h, t.child[f][far])
    BY <2>4, <2>5, <1>9
  <2> QED BY <2>1, <2>2, <2>3, <2>4, <2>6, <2>7, <2>8, <2>9
<1>11. ASSUME NEW m \in S, NEW f \in Side
       PROVE  /\ k[m] >= 1
              /\ k[m] = HeightOf(k, r.child[f][m]) + 0 + Blacks(c2, m)
              /\ c2[m] = "BLACK" \/ Black(c2, r.child[f][m])
  <2>1. CASE m = pivot
    <3>1. h[n] = h[pivot] + 0 + Blacks(c, n) /\ h[n] = (h[far] + 1) + 0 + Blacks(c, n)
      BY <1>9, <1>10
    <3>2. k[m] = h[n] /\ k[m] >= 1 /\ Blacks(c2, m) = Blacks(c, n)
      BY <2>1, <1>4, <1>9, <1>10
    <3>3. CASE f = d
      BY <2>1, <3>1, <3>2, <3>3, <1>3, <1>8, <1>9
    <3>4. CASE f = o
      BY <2>1, <3>1, <3>2, <3>4, <1>3, <1>8, <1>9
    <3> QED BY <3>3, <3>4, <1>2
  <2>2. CASE m = n
    <3>1. k[m] = h[pivot] /\ k[m] >= 1 /\ Blacks(c2, m) = 1 /\ c2[m] = "BLACK"
      BY <2>2, <1>4, <1>9, <1>10
    <3>2. CASE f = d
      <4>1. HeightOf(k, t.child[d][n]) = HeightOf(h, t.child[d][n])
            /\ HeightOf(h, t.child[d][n]) \in Nat
        BY <1>6, <1>7
      <4>2. h[pivot] = HeightOf(h, t.child[d][n]) + 0 + 1
        BY <4>1, <1>9, <1>10
      <4> QED BY <4>1, <4>2, <2>2, <3>1, <3>2, <1>3
    <3>3. CASE f = o
      <4>1. HeightOf(k, t.child[d][pivot]) = HeightOf(h, t.child[d][pivot])
            /\ HeightOf(h, t.child[d][pivot]) \in Nat
        BY <1>6, <1>7
      <4>2. h[pivot] = HeightOf(h, t.child[d][pivot]) + 0 + 1
        BY <4>1, <1>10
      <4> QED BY <4>1, <4>2, <2>2, <3>1, <3>3, <1>3
    <3> QED BY <3>2, <3>3, <1>2
  <2>3. CASE m = far
    <3>1. r.child[f][far] = t.child[f][far]
      BY <1>3, <1>7, TurnParts
    <3>2. HeightOf(k, t.child[f][far]) = HeightOf(h, t.child[f][far])
          /\ HeightOf(h, t.child[f][far]) \in Nat
      BY <1>6, <1>7
    <3>3. h[far] + 1 = HeightOf(h, t.child[f][far]) + 0 + 1
      <4>1. h[far] = HeightOf(h, t.child[f][far])
        BY <1>10
      <4> QED BY <4>1, <3>2
    <3> QED BY ZenonT(40), <2>3, <3>1, <3>2, <3>3, <1>4, <1>9, <1>10
  <2>4. CASE m \notin {n, pivot, far}
    <3>1. /\ h[m] >= 1
          /\ h[m] = HeightOf(h, t.child[f][m]) + 0 + Blacks(c, m)
          /\ c[m] = "BLACK" \/ Black(c, t.child[f][m])
      BY <2>4, <1>5
    <3>2. k[m] = h[m] /\ c2[m] = c[m] /\ Blacks(c2, m) = Blacks(c, m)
      <4>1. k[m] = h[m]
        BY <2>4, <1>4
      <4>2. c2[m] = c[m]
        BY <2>4
      <4> QED BY <4>1, <4>2 DEF Blacks
    <3>3. /\ HeightOf(k, r.child[f][m]) = HeightOf(h, t.child[f][m])
          /\ Black(c, t.child[f][m]) => Black(c2, r.child[f][m])
      <4>1. /\ t.child[f][m] \in (S \cup {NULL}) \ {pivot, far}
            /\ r.child[f][m] = IF t.child[f][m] = n THEN pivot ELSE t.child[f][m]
        BY <2>4, <1>7, TurnParts
      <4>2. CASE t.child[f][m] = n
        <5>1. HeightOf(h, n) = h[n]
          BY NullAssumption DEF HeightOf
        <5>2. Black(c, n) => Black(c2, pivot)
          BY <1>3, <1>9, NullAssumption DEF Black
        <5> QED BY <4>1, <4>2, <5>1, <5>2, <1>8
      <4>3. CASE t.child[f][m] # n
        BY <4>1, <4>3, <1>6
      <4> QED BY <4>2, <4>3
    <3> QED BY <3>1, <3>2, <3>3
  <2> QED BY <2>1, <2>2, <2>3, <2>4
<1>12. BalancedBy(r, c2, S, NULL, "L", 0, k)
  <2> HIDE DEF k
  <2>1. \A m \in S : m # NULL
    BY NullAssumption
  <2> QED BY <2>1, <1>11 DEF BalancedBy
<1> QED BY <1>4, <1>12 DEF Balanced

\* The recolouring step of insert_rebalance: the black of g moves down to its
\* two red children, and g may now be a red node under a red parent.
LEMMA BlackDownBalance ==
  ASSUME NEW t, NEW S \in SUBSET Node, GoodTree(t, S), NEW g \in S, NEW d \in Side,
         NEW p \in S, p = t.child[d][g], NEW u \in S, u = t.child[Opp(d)][g],
         NEW c, NEW c2, NEW e, Balanced(t, c, S, p, e, 0),
         c[p] = "RED", c[u] = "RED",
         \A m \in S : c2[m] = IF m \in {p, u} THEN "BLACK" ELSE IF m = g THEN "RED" ELSE c[m]
  PROVE  Balanced(t, c2, S, t.parent[g], SideOf(t, g), 0)
<1>1. PICK h \in [Node -> Nat] : BalancedBy(t, c, S, p, e, 0, h)
  BY DEF Balanced
<1>2. PICK o \in Side : o = Opp(d) /\ o # d /\ \A f \in Side : f = d \/ f = o
  BY SideFacts
<1>3. /\ t.child[d][g] = p /\ t.child[o][g] = u
      /\ p # g /\ u # g /\ p # u
      /\ \A f \in Side : t.child[f][p] # g /\ t.child[f][u] # g
  BY <1>2, NoLoops, UniqueSlot, NullAssumption
<1>4. \A m \in S, f \in Side :
        /\ h[m] >= 1
        /\ h[m] = HeightOf(h, t.child[f][m]) + 0 + Blacks(c, m)
        /\ c[m] = "BLACK" \/ Black(c, t.child[f][m]) \/ (m = p /\ f = e)
  BY <1>1 DEF BalancedBy
<1>5. c[g] = "BLACK"
  <2>1. ~Black(c, p)
    BY NullAssumption DEF Black
  <2> QED BY <2>1, <1>3, <1>4
<1> DEFINE k == [m \in Node |-> IF m \in {p, u} THEN h[m] + 1 ELSE h[m]]
<1>6. k \in [Node -> Nat] /\ \A m \in S : k[m] = IF m \in {p, u} THEN h[m] + 1 ELSE h[m]
  <2>1. \A m \in Node : h[m] + 1 \in Nat
    OBVIOUS
  <2>2. k \in [Node -> Nat]
    BY <2>1
  <2>3. \A m \in S : k[m] = IF m \in {p, u} THEN h[m] + 1 ELSE h[m]
    OBVIOUS
  <2> QED BY <2>2, <2>3
<1> HIDE DEF k
<1>7. \A x \in (S \cup {NULL}) \ {p, u} :
        /\ HeightOf(k, x) = HeightOf(h, x)
        /\ HeightOf(h, x) \in Nat
        /\ x # g => Black(c2, x) <=> Black(c, x)
  BY <1>6, NullAssumption DEF HeightOf, Black
<1>8. \A m \in S \ {g}, f \in Side : t.child[f][m] \in (S \cup {NULL}) \ {p, u}
  BY <1>2, <1>3, UniqueSlot, Neighbours, NullAssumption
<1>9. ASSUME NEW m \in S, NEW f \in Side
      PROVE  /\ k[m] >= 1
             /\ k[m] = HeightOf(k, t.child[f][m]) + 0 + Blacks(c2, m)
             /\ \/ c2[m] = "BLACK"
                \/ Black(c2, t.child[f][m])
                \/ m = t.parent[g] /\ f = SideOf(t, g)
  <2>1. CASE m = g
    <3>1. PICK x \in {p, u} : x = t.child[f][g]
      BY <1>2, <1>3
    <3>2. h[g] = HeightOf(h, x) + 0 + Blacks(c, g) /\ h[g] >= 1
      BY <3>1, <1>4
    <3>3. HeightOf(h, x) = h[x] /\ HeightOf(k, x) = h[x] + 1 /\ h[x] \in Nat
      BY <3>1, <1>6, NullAssumption DEF HeightOf
    <3>4. Blacks(c, g) = 1 /\ Blacks(c2, g) = 0 /\ Black(c2, x)
      BY <3>1, <1>3, <1>5 DEF Blacks, Black
    <3>5. k[g] = h[g]
      BY <1>3, <1>6
    <3>6. h[g] = (h[x] + 1) + 0 + 0
      BY <3>2, <3>3, <3>4
    <3> QED BY <2>1, <3>1, <3>2, <3>3, <3>4, <3>5, <3>6
  <2>2. CASE m \in {p, u}
    <3>1. PICK x \in (S \cup {NULL}) \ {p, u} : x = t.child[f][m]
      BY <2>2, <1>3, <1>8
    <3>2. h[m] = HeightOf(h, x) + 0 + Blacks(c, m) /\ h[m] >= 1
      BY <3>1, <1>4
    <3>3. Blacks(c, m) = 0 /\ Blacks(c2, m) = 1 /\ c2[m] = "BLACK"
      BY <2>2 DEF Blacks
    <3>4. k[m] = h[m] + 1 /\ h[m] \in Nat
      BY <2>2, <1>6
    <3>5. HeightOf(k, x) = HeightOf(h, x) /\ HeightOf(h, x) \in Nat
      BY <1>7
    <3>6. k[m] = HeightOf(h, x) + 0 + 1 /\ k[m] >= 1
      BY <3>2, <3>3, <3>4, <3>5
    <3> QED BY <3>1, <3>3, <3>5, <3>6
  <2>3. CASE m \notin {g, p, u}
    <3>1. PICK x \in (S \cup {NULL}) \ {p, u} : x = t.child[f][m]
      BY <2>3, <1>8
    <3>2. /\ h[m] >= 1
          /\ h[m] = HeightOf(h, x) + 0 + Blacks(c, m)
          /\ c[m] = "BLACK" \/ Black(c, x)
      BY <2>3, <3>1, <1>4
    <3>3. k[m] = h[m] /\ c2[m] = c[m]
      BY <2>3, <1>6
    <3>4. Blacks(c2, m) = Blacks(c, m)
      BY <3>3 DEF Blacks
    <3>5. x = g => m = t.parent[g] /\ f = SideOf(t, g)
      <4>1. t.child[f][m] = g <=> m = t.parent[g] /\ f = SideOf(t, g)
        BY SlotOf
      <4> QED BY <3>1, <4>1
    <3> QED BY <3>1, <3>2, <3>3, <3>4, <3>5, <1>7
  <2> QED BY <2>1, <2>2, <2>3
<1>10. BalancedBy(t, c2, S, t.parent[g], SideOf(t, g), 0, k)
  BY <1>9 DEF BalancedBy
<1> QED BY <1>6, <1>10 DEF Balanced

\* The recolouring step of erase_rebalance: the sibling s turns red, so that
\* both sides of n are short, and n is; a red n turns black and ends it.
LEMMA ShortUpBalance ==
  ASSUME NEW t, NEW S \in SUBSET Node, GoodTree(t, S), NEW n \in S, NEW d \in Side,
         NEW s \in S, s = t.child[Opp(d)][n],
         NEW c, Balanced(t, c, S, n, d, 1),
         c[s] = "BLACK", \A f \in Side : Black(c, t.child[f][s]),
         NEW c2, \A m \in S : c2[m] = IF m = s THEN "RED" ELSE c[m],
         NEW c3, \A m \in S : c3[m] = IF m = s THEN "RED" ELSE IF m = n THEN "BLACK" ELSE c[m]
  PROVE  /\ c[n] = "BLACK" => Balanced(t, c2, S, t.parent[n], SideOf(t, n), 1)
         /\ c[n] = "RED" => Balanced(t, c3, S, NULL, "L", 0)
<1>1. PICK h \in [Node -> Nat] : BalancedBy(t, c, S, n, d, 1, h)
  BY DEF Balanced
<1>2. PICK o \in Side : o = Opp(d) /\ o # d /\ \A f \in Side : f = d \/ f = o
  BY SideFacts
<1>3. /\ t.child[o][n] = s /\ s # n
      /\ \A f \in Side : t.child[f][s] \in (S \cup {NULL}) \ {n, s}
      /\ \A m \in S \ {n}, f \in Side : t.child[f][m] \in (S \cup {NULL}) \ {s}
      /\ t.child[d][n] \in (S \cup {NULL}) \ {n, s}
  BY <1>2, NoLoops, UniqueSlot, Neighbours, NullAssumption
<1>4. \A m \in S, f \in Side :
        /\ h[m] >= 1
        /\ h[m] = HeightOf(h, t.child[f][m]) + (IF m = n /\ f = d THEN 1 ELSE 0) + Blacks(c, m)
        /\ c[m] = "BLACK" \/ Black(c, t.child[f][m]) \/ (m = n /\ f = d)
  BY <1>1 DEF BalancedBy
<1>5. \A x \in S \cup {NULL} : HeightOf(h, x) \in Nat
  BY DEF HeightOf
<1>6. \A x \in S \cup {NULL} : HeightOf(h, x) >= 1
  BY <1>4, <1>2 DEF HeightOf
<1>7. /\ h[s] \in Nat /\ h[n] \in Nat /\ h[s] - 1 \in Nat
      /\ h[s] - 1 >= 1
      /\ \A f \in Side : h[s] - 1 = HeightOf(h, t.child[f][s])
  <2>1. Blacks(c, s) = 1 /\ h[s] \in Nat /\ h[n] \in Nat
    BY DEF Blacks
  <2>2. \A f \in Side : h[s] = HeightOf(h, t.child[f][s]) + 0 + 1
    BY <2>1, <1>3, <1>4
  <2>3. \A f \in Side : HeightOf(h, t.child[f][s]) \in Nat /\ HeightOf(h, t.child[f][s]) >= 1
    BY <1>3, <1>5, <1>6
  <2> QED BY <2>1, <2>2, <2>3, <1>2
<1>8. /\ h[n] = h[s] + Blacks(c, n)
      /\ h[n] = HeightOf(h, t.child[d][n]) + 1 + Blacks(c, n)
      /\ HeightOf(h, t.child[d][n]) \in Nat /\ HeightOf(h, t.child[d][n]) >= 1
  <2>1. h[n] = HeightOf(h, t.child[o][n]) + 0 + Blacks(c, n)
    BY <1>2, <1>4
  <2>2. h[n] = HeightOf(h, t.child[d][n]) + 1 + Blacks(c, n)
    BY <1>4
  <2>3. HeightOf(h, s) = h[s]
    BY NullAssumption DEF HeightOf
  <2>4. Blacks(c, n) \in Nat
    BY DEF Blacks
  <2> QED BY SMTT(30), <2>1, <2>2, <2>3, <2>4, <1>3, <1>5, <1>6, <1>7
<1>9. ASSUME c[n] = "BLACK"
      PROVE  Balanced(t, c2, S, t.parent[n], SideOf(t, n), 1)
  <2> DEFINE k == [m \in Node |-> IF m \in {s, n} THEN h[m] - 1 ELSE h[m]]
  <2>1. Blacks(c, n) = 1 /\ Blacks(c2, n) = 1 /\ Blacks(c2, s) = 0 /\ c2[n] = "BLACK"
    BY <1>3, <1>9 DEF Blacks
  <2>2. h[n] - 1 = h[s] /\ h[n] - 1 = HeightOf(h, t.child[d][n]) + 1
    BY <2>1, <1>7, <1>8
  <2>3. k \in [Node -> Nat] /\ \A m \in S : k[m] = IF m \in {s, n} THEN h[m] - 1 ELSE h[m]
    BY <2>2, <1>7
  <2> HIDE DEF k
  <2>4. \A x \in (S \cup {NULL}) \ {s, n} :
          /\ HeightOf(k, x) = HeightOf(h, x)
          /\ Black(c2, x) <=> Black(c, x)
    BY <2>3, NullAssumption DEF HeightOf, Black
  <2>5. ASSUME NEW m \in S, NEW f \in Side
        PROVE  /\ k[m] >= 1
               /\ k[m] = HeightOf(k, t.child[f][m])
                         + (IF m = t.parent[n] /\ f = SideOf(t, n) THEN 1 ELSE 0) + Blacks(c2, m)
               /\ \/ c2[m] = "BLACK" \/ Black(c2, t.child[f][m])
                  \/ m = t.parent[n] /\ f = SideOf(t, n)
    <3>1. t.child[f][m] = n <=> m = t.parent[n] /\ f = SideOf(t, n)
      BY SlotOf
    <3>2. CASE m = s
      <4>1. t.child[f][m] \in (S \cup {NULL}) \ {s, n} /\ Black(c, t.child[f][m])
        BY <3>2, <1>3
      <4>2. k[m] = HeightOf(h, t.child[f][m]) + 0 + 0 /\ k[m] >= 1
        BY <3>2, <2>3, <1>3, <1>5, <1>7
      <4> QED BY <4>1, <4>2, <3>1, <3>2, <2>1, <2>4
    <3>3. CASE m = n /\ f = o
      <4>1. HeightOf(k, s) = h[s] - 1
        BY <2>3, NullAssumption DEF HeightOf
      <4>2. k[m] = (h[s] - 1) + 0 + 1 /\ k[m] >= 1
        BY <3>3, <2>2, <2>3, <1>7
      <4> QED BY <4>1, <4>2, <3>1, <3>3, <2>1, <1>3
    <3>4. CASE m = n /\ f = d
      <4>1. k[m] = HeightOf(h, t.child[d][n]) + 0 + 1 /\ k[m] >= 1
        BY <3>4, <2>2, <2>3, <1>8
      <4> QED BY <4>1, <3>1, <3>4, <2>1, <2>4, <1>3
    <3>5. CASE m \notin {n, s}
      <4>1. /\ h[m] >= 1
            /\ h[m] = HeightOf(h, t.child[f][m]) + 0 + Blacks(c, m)
            /\ c[m] = "BLACK" \/ Black(c, t.child[f][m])
        BY <3>5, <1>4
      <4>2. k[m] = h[m] /\ c2[m] = c[m]
        BY <3>5, <2>3
      <4>3. Blacks(c2, m) = Blacks(c, m)
        BY <4>2 DEF Blacks
      <4>4. CASE t.child[f][m] = n
        <5>1. HeightOf(h, n) = h[n] /\ HeightOf(k, n) = h[n] - 1
          BY <2>3, NullAssumption DEF HeightOf
        <5>2. Blacks(c, m) \in Nat /\ h[n] \in Nat
          BY DEF Blacks
        <5>3. h[m] = (h[n] - 1) + 1 + Blacks(c, m)
          BY <4>1, <4>4, <5>1, <5>2
        <5> QED BY <4>1, <4>2, <4>3, <4>4, <5>1, <5>3, <3>1
      <4>5. CASE t.child[f][m] # n
        <5>1. t.child[f][m] \in (S \cup {NULL}) \ {s, n}
          BY <4>5, <3>5, <1>3
        <5> QED BY <4>1, <4>2, <4>3, <4>5, <5>1, <3>1, <2>4
      <4> QED BY <4>4, <4>5
    <3> QED BY <3>2, <3>3, <3>4, <3>5, <1>2
  <2>6. BalancedBy(t, c2, S, t.parent[n], SideOf(t, n), 1, k)
    BY <2>5 DEF BalancedBy
  <2> QED BY <2>3, <2>6 DEF Balanced
<1>10. ASSUME c[n] = "RED"
       PROVE  Balanced(t, c3, S, NULL, "L", 0)
  <2> DEFINE k == [m \in Node |-> IF m = s THEN h[m] - 1 ELSE h[m]]
  <2>1. /\ Blacks(c, n) = 0 /\ Blacks(c3, n) = 1 /\ Blacks(c3, s) = 0
        /\ c3[n] = "BLACK" /\ Black(c3, n)
    BY <1>3, <1>10 DEF Blacks, Black
  <2>2. h[n] = h[s] /\ h[n] = HeightOf(h, t.child[d][n]) + 1
    BY <2>1, <1>7, <1>8
  <2>3. k \in [Node -> Nat] /\ \A m \in S : k[m] = IF m = s THEN h[m] - 1 ELSE h[m]
    BY <1>7
  <2> HIDE DEF k
  <2>4. \A x \in (S \cup {NULL}) \ {s} :
          /\ HeightOf(k, x) = HeightOf(h, x)
          /\ Black(c, x) => Black(c3, x)
    BY <2>3, NullAssumption DEF HeightOf, Black
  <2>5. ASSUME NEW m \in S, NEW f \in Side
        PROVE  /\ k[m] >= 1
               /\ k[m] = HeightOf(k, t.child[f][m]) + 0 + Blacks(c3, m)
               /\ c3[m] = "BLACK" \/ Black(c3, t.child[f][m])
    <3>1. CASE m = s
      <4>1. t.child[f][m] \in (S \cup {NULL}) \ {s} /\ Black(c, t.child[f][m])
        BY <3>1, <1>3
      <4>2. k[m] = HeightOf(h, t.child[f][m]) + 0 + 0 /\ k[m] >= 1
        BY <3>1, <2>3, <1>3, <1>5, <1>7
      <4> QED BY <4>1, <4>2, <3>1, <2>1, <2>4
    <3>2. CASE m = n /\ f = o
      <4>1. HeightOf(k, s) = h[s] - 1
        BY <2>3, NullAssumption DEF HeightOf
      <4>2. k[m] = (h[s] - 1) + 0 + 1 /\ k[m] >= 1
        BY <3>2, <2>2, <2>3, <1>3, <1>7
      <4> QED BY <4>1, <4>2, <3>2, <2>1, <1>3
    <3>3. CASE m = n /\ f = d
      <4>1. k[m] = HeightOf(h, t.child[d][n]) + 0 + 1 /\ k[m] >= 1
        BY <3>3, <2>2, <2>3, <1>3, <1>8
      <4> QED BY <4>1, <3>3, <2>1, <2>4, <1>3
    <3>4. CASE m \notin {n, s}
      <4>1. /\ h[m] >= 1
            /\ h[m] = HeightOf(h, t.child[f][m]) + 0 + Blacks(c, m)
            /\ c[m] = "BLACK" \/ Black(c, t.child[f][m])
        BY <3>4, <1>4
      <4>2. k[m] = h[m] /\ c3[m] = c[m]
        BY <3>4, <2>3
      <4>3. Blacks(c3, m) = Blacks(c, m)
        BY <4>2 DEF Blacks
      <4>4. t.child[f][m] \in (S \cup {NULL}) \ {s}
        BY <3>4, <1>3
      <4> QED BY <4>1, <4>2, <4>3, <4>4, <2>4
    <3> QED BY <3>1, <3>2, <3>3, <3>4, <1>2
  <2>6. BalancedBy(t, c3, S, NULL, "L", 0, k)
    <3>1. \A m \in S : m # NULL
      BY NullAssumption
    <3> QED BY <3>1, <2>5 DEF BalancedBy
  <2> QED BY <2>3, <2>6 DEF Balanced
<1> QED BY <1>9, <1>10

\* A red node in the short place turns black, and nothing is short any more.
LEMMA RedAbsorbs ==
  ASSUME NEW t, NEW S \in SUBSET Node, GoodTree(t, S), NEW a \in S, NEW e \in Side,
         NEW x \in S, x = t.child[e][a],
         NEW c, Balanced(t, c, S, a, e, 1), c[x] = "RED",
         NEW c2, \A m \in S : c2[m] = IF m = x THEN "BLACK" ELSE c[m]
  PROVE  Balanced(t, c2, S, NULL, "L", 0)
<1>1. PICK h \in [Node -> Nat] : BalancedBy(t, c, S, a, e, 1, h)
  BY DEF Balanced
<1>2. /\ x # a
      /\ \A f \in Side : t.child[f][x] \in (S \cup {NULL}) \ {x}
      /\ \A m \in S, f \in Side : t.child[f][m] = x => m = a /\ f = e
  BY NoLoops, UniqueSlot, Neighbours, NullAssumption
<1> DEFINE k == [m \in Node |-> IF m = x THEN h[m] + 1 ELSE h[m]]
<1>3. k \in [Node -> Nat] /\ \A m \in S : k[m] = IF m = x THEN h[m] + 1 ELSE h[m]
  <2>1. h[x] + 1 \in Nat
    OBVIOUS
  <2>2. k \in [Node -> Nat]
    BY <2>1
  <2>3. \A m \in S : k[m] = IF m = x THEN h[m] + 1 ELSE h[m]
    OBVIOUS
  <2> QED BY <2>2, <2>3
<1> HIDE DEF k
<1>4. \A y \in (S \cup {NULL}) \ {x} :
        /\ HeightOf(k, y) = HeightOf(h, y)
        /\ HeightOf(h, y) \in Nat
        /\ Black(c2, y) <=> Black(c, y)
  BY <1>3, NullAssumption DEF HeightOf, Black
<1>5. /\ Blacks(c, x) = 0 /\ Blacks(c2, x) = 1 /\ c2[x] = "BLACK" /\ Black(c2, x)
      /\ HeightOf(h, x) = h[x] /\ HeightOf(k, x) = h[x] + 1 /\ h[x] \in Nat
  BY <1>3, NullAssumption DEF Blacks, Black, HeightOf
<1>6. ASSUME NEW m \in S, NEW f \in Side
      PROVE  /\ k[m] >= 1
             /\ k[m] = HeightOf(k, t.child[f][m]) + 0 + Blacks(c2, m)
             /\ c2[m] = "BLACK" \/ Black(c2, t.child[f][m])
  <2>1. /\ h[m] >= 1
        /\ h[m] = HeightOf(h, t.child[f][m]) + (IF m = a /\ f = e THEN 1 ELSE 0) + Blacks(c, m)
        /\ c[m] = "BLACK" \/ Black(c, t.child[f][m]) \/ (m = a /\ f = e)
    BY <1>1 DEF BalancedBy
  <2>2. CASE m = x
    <3>1. PICK y \in (S \cup {NULL}) \ {x} : y = t.child[f][m]
      BY <2>2, <1>2
    <3>2. h[x] = HeightOf(h, y) + 0 + 0 /\ h[x] >= 1
      BY <3>1, <2>1, <2>2, <1>2, <1>5
    <3>3. k[x] = h[x] + 1
      BY <1>3
    <3>4. k[x] = HeightOf(h, y) + 0 + 1 /\ k[x] >= 1
      BY <3>2, <3>3, <1>4, <1>5
    <3> QED BY <3>1, <3>4, <2>2, <1>4, <1>5
  <2>3. CASE m = a /\ f = e
    <3>1. k[m] = h[m] /\ c2[m] = c[m] /\ Blacks(c, m) \in Nat
      BY <2>3, <1>2, <1>3 DEF Blacks
    <3>2. Blacks(c2, m) = Blacks(c, m)
      BY <3>1 DEF Blacks
    <3>3. h[m] = h[x] + 1 + Blacks(c, m)
      BY <2>1, <2>3, <1>5
    <3>4. h[m] = (h[x] + 1) + 0 + Blacks(c, m)
      BY <3>1, <3>3, <1>5
    <3> QED BY <3>1, <3>2, <3>4, <2>1, <2>3, <1>5
  <2>4. CASE m # x /\ ~(m = a /\ f = e)
    <3>1. k[m] = h[m] /\ c2[m] = c[m]
      BY <2>4, <1>3
    <3>2. Blacks(c2, m) = Blacks(c, m)
      BY <3>1 DEF Blacks
    <3>3. t.child[f][m] \in (S \cup {NULL}) \ {x}
      BY <2>4, <1>2, Neighbours
    <3>4. /\ HeightOf(k, t.child[f][m]) = HeightOf(h, t.child[f][m])
          /\ Black(c2, t.child[f][m]) <=> Black(c, t.child[f][m])
      BY <3>3, <1>4
    <3> QED BY <3>1, <3>2, <3>4, <2>1, <2>4
  <2> QED BY <2>2, <2>3, <2>4
<1>7. BalancedBy(t, c2, S, NULL, "L", 0, k)
  <2>1. \A m \in S : m # NULL
    BY NullAssumption
  <2> QED BY <2>1, <1>6 DEF BalancedBy
<1> QED BY <1>3, <1>7 DEF Balanced

\* The slot of u, a node with at most one child, is taken by that child.
Spliced(r, t, S, u, x) ==
  /\ \A m \in S \ {u}, f \in Side :
       r.child[f][m] = IF t.child[f][m] = u THEN x ELSE t.child[f][m]
  /\ r.root = (IF t.root = u THEN x ELSE t.root)
  /\ \A m \in S \ {u} : r.parent[m] = IF m = x THEN t.parent[u] ELSE t.parent[m]

\* transplant of a child to the place of its parent, seen from the nodes that stay.
LEMMA SpliceFacts ==
  ASSUME NEW t, NEW S \in SUBSET Node, GoodTree(t, S), NEW u \in S,
         NEW x \in NodeOrNull
  PROVE  Spliced(Transplant(t, u, x), t, S, u, x)
<1>1. PICK r : r = Transplant(t, u, x)
  OBVIOUS
<1>2. Transplanted(r, t, u, x)
  BY <1>1, TransplantFacts DEF GoodTree
<1>3. \A m \in S, f \in Side : t.child[f][m] = u <=> m = t.parent[u] /\ f = SideOf(t, u)
  BY SlotOf
<1>4. t.root = u <=> t.parent[u] = NULL
  <2>1. "L" \in Side
    BY DEF Side
  <2> QED BY <2>1, SlotOf
<1>5. ASSUME NEW m \in S \ {u}, NEW f \in Side
      PROVE  r.child[f][m] = IF t.child[f][m] = u THEN x ELSE t.child[f][m]
  <2>1. r.child[f][m] = IF m = t.parent[u] /\ f = SideOf(t, u) THEN x ELSE t.child[f][m]
    BY <1>2 DEF Transplanted
  <2> QED BY <2>1, <1>3
<1>6. r.root = (IF t.root = u THEN x ELSE t.root)
  BY <1>2, <1>4 DEF Transplanted
<1>7. \A m \in S \ {u} : r.parent[m] = IF m = x THEN t.parent[u] ELSE t.parent[m]
  BY <1>2 DEF Transplanted
<1> QED BY <1>1, <1>5, <1>6, <1>7 DEF Spliced

\* A node that leaves takes its own black with it.
LEMMA SpliceBalance ==
  ASSUME NEW t, NEW S \in SUBSET Node, GoodTree(t, S), NEW u \in S, NEW d \in Side,
         NEW x, x = t.child[d][u], NEW r, Spliced(r, t, S, u, x),
         NEW c, Balanced(t, c, S, NULL, "L", 0)
  PROVE  Balanced(r, c, S \ {u}, t.parent[u], SideOf(t, u), Blacks(c, u))
<1>1. PICK h \in [Node -> Nat] : BalancedBy(t, c, S, NULL, "L", 0, h)
  BY DEF Balanced
<1>2. \A m \in S, f \in Side :
        /\ h[m] >= 1
        /\ h[m] = HeightOf(h, t.child[f][m]) + 0 + Blacks(c, m)
        /\ c[m] = "BLACK" \/ Black(c, t.child[f][m])
  <2>1. \A m \in S : m # NULL
    BY NullAssumption
  <2> QED BY <2>1, <1>1 DEF BalancedBy
<1>3. \A m \in S, f \in Side : t.child[f][m] = u <=> m = t.parent[u] /\ f = SideOf(t, u)
  BY SlotOf
<1>4. Blacks(c, u) \in Nat /\ x \in S \cup {NULL}
  BY Neighbours DEF Blacks
<1>5. HeightOf(h, x) \in Nat /\ h[u] = HeightOf(h, x) + 0 + Blacks(c, u) /\ HeightOf(h, u) = h[u]
  BY <1>2, <1>4, NullAssumption DEF HeightOf
<1>6. ASSUME NEW m \in S \ {u}, NEW f \in Side
      PROVE  /\ h[m] >= 1
             /\ h[m] = HeightOf(h, r.child[f][m])
                       + (IF m = t.parent[u] /\ f = SideOf(t, u) THEN Blacks(c, u) ELSE 0)
                       + Blacks(c, m)
             /\ \/ c[m] = "BLACK" \/ Black(c, r.child[f][m])
                \/ m = t.parent[u] /\ f = SideOf(t, u)
  <2>1. r.child[f][m] = IF t.child[f][m] = u THEN x ELSE t.child[f][m]
    BY DEF Spliced
  <2>2. Blacks(c, m) \in Nat
    BY DEF Blacks
  <2>3. CASE t.child[f][m] = u
    <3>1. h[m] = (HeightOf(h, x) + 0 + Blacks(c, u)) + 0 + Blacks(c, m)
      BY <2>3, <1>2, <1>5
    <3>2. h[m] = HeightOf(h, x) + Blacks(c, u) + Blacks(c, m)
      BY <3>1, <2>2, <1>4, <1>5
    <3> QED BY <3>2, <2>1, <2>3, <1>2, <1>3
  <2>4. CASE t.child[f][m] # u
    BY <2>1, <2>4, <1>2, <1>3
  <2> QED BY <2>3, <2>4
<1>7. BalancedBy(r, c, S \ {u}, t.parent[u], SideOf(t, u), Blacks(c, u), h)
  BY <1>6 DEF BalancedBy
<1> QED BY <1>7 DEF Balanced

\* A node that takes the place and the colour of another one takes its height.
LEMMA RenameBalance ==
  ASSUME NEW q, NEW S \in SUBSET Node, GoodTree(q, S), NEW u \in S,
         NEW y \in Node \ S, NEW r, Renamed(r, q, u, y, S),
         NEW a, a # y, NEW e, NEW short,
         NEW c, Balanced(q, c, S, a, e, short),
         NEW c2, c2[y] = c[u], \A m \in S \ {u} : c2[m] = c[m]
  PROVE  Balanced(r, c2, (S \ {u}) \cup {y}, IF a = u THEN y ELSE a, e, short)
<1>1. PICK h \in [Node -> Nat] : BalancedBy(q, c, S, a, e, short, h)
  BY DEF Balanced
<1> DEFINE k == [m \in Node |-> IF m = y THEN h[u] ELSE h[m]]
           T == (S \ {u}) \cup {y}
           b == IF a = u THEN y ELSE a
<1>2. k \in [Node -> Nat] /\ k[y] = h[u] /\ \A m \in S : k[m] = h[m]
  OBVIOUS
<1> HIDE DEF k
<1>3. /\ \A x \in S \cup {NULL} :
           LET x2 == IF x = u THEN y ELSE x
           IN  /\ HeightOf(k, x2) = HeightOf(h, x)
               /\ Black(c2, x2) <=> Black(c, x)
      /\ y # NULL /\ u # NULL
  BY <1>2, NullAssumption DEF HeightOf, Black
<1>4. ASSUME NEW m \in T, NEW f \in Side
      PROVE  /\ k[m] >= 1
             /\ k[m] = HeightOf(k, r.child[f][m])
                       + (IF m = b /\ f = e THEN short ELSE 0) + Blacks(c2, m)
             /\ c2[m] = "BLACK" \/ Black(c2, r.child[f][m]) \/ (m = b /\ f = e)
  <2>1. PICK n \in S : m = (IF n = u THEN y ELSE n)
    BY DEF T
  <2>2. PICK x \in S \cup {NULL} : x = q.child[f][n]
    BY Neighbours
  <2>3. /\ h[n] >= 1
        /\ h[n] = HeightOf(h, x) + (IF n = a /\ f = e THEN short ELSE 0) + Blacks(c, n)
        /\ c[n] = "BLACK" \/ Black(c, x) \/ (n = a /\ f = e)
    BY <2>2, <1>1 DEF BalancedBy
  <2>4. r.child[f][m] = IF x = u THEN y ELSE x
    <3>1. CASE n = u
      <4>1. x # u
        BY <3>1, <2>2, <1>3, NoLoops
      <4> QED BY <4>1, <3>1, <2>1, <2>2 DEF Renamed
    <3>2. CASE n # u
      BY <3>2, <2>1, <2>2 DEF Renamed
    <3> QED BY <3>1, <3>2
  <2>5. k[m] = h[n] /\ c2[m] = c[n]
    BY <2>1, <1>2
  <2>6. Blacks(c2, m) = Blacks(c, n)
    BY <2>5 DEF Blacks
  <2>7. m = b <=> n = a
    BY <2>1
  <2> QED BY <2>2, <2>3, <2>4, <2>5, <2>6, <2>7, <1>3
<1>5. BalancedBy(r, c2, T, b, e, short, k)
  BY <1>4 DEF BalancedBy
<1> QED BY <1>2, <1>5 DEF Balanced

\* A red leaf has the height of the null pointer it replaces.
LEMMA AttachBalance ==
  ASSUME NEW t, NEW S \in SUBSET Node, GoodTree(t, S), NEW n \in Node \ S,
         NEW p \in S, NEW d \in Side, t.child[d][p] = NULL,
         NEW r, Attached(r, t, n, p, d),
         NEW c, Balanced(t, c, S, NULL, "L", 0),
         NEW c2, c2[n] = "RED", \A m \in S : c2[m] = c[m]
  PROVE  Balanced(r, c2, S \cup {n}, p, d, 0)
<1>1. PICK h \in [Node -> Nat] : BalancedBy(t, c, S, NULL, "L", 0, h)
  BY DEF Balanced
<1>2. \A m \in S, f \in Side :
        /\ h[m] >= 1
        /\ h[m] = HeightOf(h, t.child[f][m]) + 0 + Blacks(c, m)
        /\ c[m] = "BLACK" \/ Black(c, t.child[f][m])
  <2>1. \A m \in S : m # NULL
    BY NullAssumption
  <2> QED BY <2>1, <1>1 DEF BalancedBy
<1> DEFINE k == [m \in Node |-> IF m = n THEN 1 ELSE h[m]]
<1>3. k \in [Node -> Nat] /\ k[n] = 1 /\ \A m \in S : k[m] = h[m]
  OBVIOUS
<1> HIDE DEF k
<1>4. /\ \A x \in S \cup {NULL} : HeightOf(k, x) = HeightOf(h, x)
                                  /\ (Black(c2, x) <=> Black(c, x))
      /\ HeightOf(k, NULL) = 1 /\ HeightOf(h, NULL) = 1 /\ HeightOf(k, n) = 1
      /\ Blacks(c2, n) = 0 /\ Black(c2, NULL)
  BY <1>3, NullAssumption DEF HeightOf, Black, Blacks
<1>5. ASSUME NEW m \in S \cup {n}, NEW f \in Side
      PROVE  /\ k[m] >= 1
             /\ k[m] = HeightOf(k, r.child[f][m]) + 0 + Blacks(c2, m)
             /\ c2[m] = "BLACK" \/ Black(c2, r.child[f][m]) \/ (m = p /\ f = d)
  <2>1. r.child[f][m] = IF m = n THEN NULL
                        ELSE IF m = p /\ f = d THEN n ELSE t.child[f][m]
    BY DEF Attached
  <2>2. CASE m = n
    BY <2>1, <2>2, <1>3, <1>4
  <2>3. CASE m # n
    <3>1. k[m] = h[m] /\ c2[m] = c[m] /\ m \in S
      BY <2>3, <1>3
    <3>2. Blacks(c2, m) = Blacks(c, m)
      BY <3>1 DEF Blacks
    <3>3. t.child[f][m] \in S \cup {NULL}
      BY <3>1, Neighbours
    <3>4. CASE m = p /\ f = d
      BY <3>1, <3>2, <3>4, <2>1, <2>3, <1>2, <1>4
    <3>5. CASE ~(m = p /\ f = d)
      BY <3>1, <3>2, <3>3, <3>5, <2>1, <2>3, <1>2, <1>4
    <3> QED BY <3>4, <3>5
  <2> QED BY <2>2, <2>3
<1>6. BalancedBy(r, c2, S \cup {n}, p, d, 0, k)
  BY <1>5 DEF BalancedBy
<1> QED BY <1>3, <1>6 DEF Balanced

\* Balance depends on the children and the colours of the nodes of the tree.
LEMMA SameBalance ==
  ASSUME NEW t, NEW S \in SUBSET Node, GoodTree(t, S),
         NEW r, \A f \in Side, m \in S : r.child[f][m] = t.child[f][m],
         NEW c, NEW c2, \A m \in S : c2[m] = c[m],
         NEW a, NEW e, NEW short, Balanced(t, c, S, a, e, short)
  PROVE  Balanced(r, c2, S, a, e, short)
<1>1. PICK h \in [Node -> Nat] : BalancedBy(t, c, S, a, e, short, h)
  BY DEF Balanced
<1>2. ASSUME NEW m \in S, NEW f \in Side
      PROVE  /\ h[m] >= 1
             /\ h[m] = HeightOf(h, r.child[f][m])
                       + (IF m = a /\ f = e THEN short ELSE 0) + Blacks(c2, m)
             /\ c2[m] = "BLACK" \/ Black(c2, r.child[f][m]) \/ (m = a /\ f = e)
  <2>1. /\ h[m] >= 1
        /\ h[m] = HeightOf(h, t.child[f][m])
                  + (IF m = a /\ f = e THEN short ELSE 0) + Blacks(c, m)
        /\ c[m] = "BLACK" \/ Black(c, t.child[f][m]) \/ (m = a /\ f = e)
    BY <1>1 DEF BalancedBy
  <2>2. t.child[f][m] \in S \cup {NULL}
    BY Neighbours
  <2>3. Blacks(c2, m) = Blacks(c, m)
    BY DEF Blacks
  <2>4. Black(c2, t.child[f][m]) <=> Black(c, t.child[f][m])
    BY <2>2 DEF Black
  <2> QED BY <2>1, <2>3, <2>4
<1>3. BalancedBy(r, c2, S, a, e, short, h)
  BY <1>2 DEF BalancedBy
<1> QED BY <1>3 DEF Balanced

\* A slot where nothing is missing may be anywhere.
LEMMA AnySlot ==
  ASSUME NEW t, NEW c, NEW S \in SUBSET Node, Balanced(t, c, S, NULL, "L", 0),
         NEW a, NEW e
  PROVE  Balanced(t, c, S, a, e, 0)
<1>1. PICK h \in [Node -> Nat] : BalancedBy(t, c, S, NULL, "L", 0, h)
  BY DEF Balanced
<1>2. \A n \in S : n # NULL
  BY NullAssumption
<1>3. BalancedBy(t, c, S, a, e, 0, h)
  BY <1>1, <1>2 DEF BalancedBy
<1> QED BY <1>3 DEF Balanced

\* Above a short place there is a sibling, and only one side is short.
LEMMA SiblingExists ==
  ASSUME NEW t, NEW S \in SUBSET Node, GoodTree(t, S), NEW n \in S, NEW d \in Side,
         NEW c, Balanced(t, c, S, n, d, 1)
  PROVE  /\ t.child[Opp(d)][n] # NULL
         /\ t.child[Opp(d)][n] \in S
         /\ d = IF Left(t, n) = t.child[d][n] THEN "L" ELSE "R"
<1>1. PICK h \in [Node -> Nat] : BalancedBy(t, c, S, n, d, 1, h)
  BY DEF Balanced
<1>2. PICK o \in Side : o = Opp(d) /\ o # d /\ \A f \in Side : f = d \/ f = o
  BY SideFacts
<1>3. PICK x \in S \cup {NULL} : x = t.child[d][n]
  BY Neighbours
<1>4. PICK w \in S \cup {NULL} : w = t.child[o][n]
  BY Neighbours
<1>5. HeightOf(h, x) \in Nat /\ HeightOf(h, x) >= 1
  BY <1>1, <1>3 DEF HeightOf, BalancedBy
<1>6. /\ h[n] = HeightOf(h, x) + 1 + Blacks(c, n)
      /\ h[n] = HeightOf(h, w) + 0 + Blacks(c, n)
  BY <1>1, <1>2, <1>3, <1>4 DEF BalancedBy
<1>7. HeightOf(h, w) \in Nat /\ Blacks(c, n) \in Nat
  BY DEF HeightOf, Blacks
<1>8. HeightOf(h, w) >= 2
  BY <1>5, <1>6, <1>7
<1>9. w # NULL
  BY <1>8 DEF HeightOf
<1>10. x # w
  BY <1>3, <1>4, <1>9, UniqueSlot, <1>2
<1> QED BY <1>2, <1>3, <1>4, <1>9, <1>10 DEF Left, Side

\* The place of an unlinked black node: its parent is above it, a red node in
\* it would repair the tree, and it is on the side the code takes it to be.
LEMMA ShortPlace ==
  ASSUME NEW t, NEW S \in SUBSET Node, GoodTree(t, S), NEW p \in S, NEW s \in Side,
         NEW x, x = t.child[s][p],
         NEW c \in [Node -> Color], Balanced(t, c, S, p, s, 1), Black(c, t.root)
  PROVE  /\ x # t.root
         /\ s = IF Left(t, p) = x THEN "L" ELSE "R"
         /\ ~Black(c, x) => /\ Balanced(t, Blacken(c, x), S, NULL, "L", 0)
                            /\ Black(Blacken(c, x), t.root)
<1>1. x \in S \cup {NULL} /\ x \in NodeOrNull
  BY Neighbours
<1>2. t.root \in S /\ t.root # NULL
  BY Neighbours, NullAssumption
<1>3. x # t.root
  <2>1. x # NULL => t.parent[x] = p
    BY Neighbours
  <2>2. t.parent[t.root] = NULL
    BY <1>2 DEF GoodTree, WellLinked
  <2> QED BY <2>1, <2>2, <1>2, NullAssumption
<1>4. ASSUME ~Black(c, x)
      PROVE  Balanced(t, Blacken(c, x), S, NULL, "L", 0) /\ Black(Blacken(c, x), t.root)
  <2>1. x \in S /\ c[x] = "RED"
    BY <1>1, <1>4 DEF Black, Color
  <2>2. PICK c2 : c2 = Blacken(c, x)
    OBVIOUS
  <2>3. \A m \in S : c2[m] = IF m = x THEN "BLACK" ELSE c[m]
    BY <2>1, <2>2, NullAssumption DEF Blacken
  <2>4. Balanced(t, c2, S, NULL, "L", 0)
    BY <2>1, <2>3, RedAbsorbs
  <2> QED BY <2>2, <2>3, <2>4, <1>2, <1>3 DEF Black
<1> QED BY <1>3, <1>4, SiblingExists
-----------------------------------------------------------------------------
(***************************************************************************)
(* The inductive invariant on the colours, one part per loop.              *)
(***************************************************************************)

\* cur is red, and may be the root or be under a red parent.
InsertBalance ==
  pc = "insert_rebalance" =>
    /\ color[cur] = "RED"
    /\ Balanced(tree, color, live, tree.parent[cur], SideOf(tree, cur), 0)
    /\ cur # tree.root => Black(color, tree.root)

\* The place of cur is one black short, or painting cur black repairs the tree.
EraseBalance ==
  pc = "erase_rebalance" =>
    IF BlackShort
    THEN /\ tree.child[ShortSide][par] = cur
         /\ Balanced(tree, color, Linked, par, ShortSide, 1)
         /\ Black(color, tree.root)
    ELSE /\ Balanced(tree, Blacken(color, cur), Linked, NULL, "L", 0)
         /\ Black(Blacken(color, cur), tree.root)

RestBalance ==
  pc \notin {"insert_rebalance", "erase_rebalance"} =>
    Balanced(tree, color, Linked, NULL, "L", 0) /\ Black(color, tree.root)

BalanceInv == InsertBalance /\ EraseBalance /\ RestBalance

\* No nodes, no defect.
LEMMA NoNodesBalance ==
  ASSUME NEW t, NEW c, t.root = NULL
  PROVE  Balanced(t, c, {}, NULL, "L", 0) /\ Black(c, t.root)
<1>1. [n \in Node |-> 1] \in [Node -> Nat]
  OBVIOUS
<1> QED BY <1>1 DEF Balanced, BalancedBy, Black

\* Steps that touch neither a link of the tree nor a colour.
LEMMA SearchStep ==
  ASSUME BalanceInv, UNCHANGED <<tree, color>>, Linked' = Linked,
         pc \notin {"insert_rebalance", "erase_rebalance"},
         pc' \notin {"insert_rebalance", "erase_rebalance"}
  PROVE  BalanceInv'
<1>1. RestBalance'
  BY DEF BalanceInv, RestBalance
<1>2. InsertBalance' /\ EraseBalance'
  BY DEF InsertBalance, EraseBalance
<1> QED BY <1>1, <1>2 DEF BalanceInv

\* The new leaf of insert is red under its parent, or is a black root.
LEMMA AttachBalanceStep ==
  ASSUME IInv, BalanceInv, Attach
  PROVE  BalanceInv'
<1>1. /\ pc = "descend" /\ Linked = live /\ live \in SUBSET Node /\ GoodTree(tree, live)
      /\ tree \in Tree /\ side \in Side /\ color \in [Node -> Color]
      /\ z \in Node \ live
      /\ par \in live \cup {NULL}
      /\ IF par = NULL THEN tree.root = NULL ELSE tree.child[side][par] = NULL
      /\ live' = live \cup {z}
      /\ tree' = AttachLeaf(tree, z, par, side)
      /\ color' = Paint(color, z, NewColor(par))
  BY DEF IInv, InsertPointers, Attach, Linked, TypeOK
<1>2. Balanced(tree, color, live, NULL, "L", 0) /\ Black(color, tree.root)
  BY <1>1 DEF BalanceInv, RestBalance
<1>3. Attached(tree', tree, z, par, side)
  <2>1. par \in NodeOrNull /\ par # z
    BY <1>1, NullAssumption DEF NodeOrNull
  <2> QED BY <2>1, <1>1, AttachFacts
<1>4. /\ color'[z] = NewColor(par)
      /\ \A m \in live : color'[m] = color[m]
  BY <1>1 DEF Paint
<1>5. CASE par = NULL
  <2>1. live = {}
    BY <1>1, <1>5 DEF GoodTree, WellLinked
  <2>2. pc' = "idle" /\ Linked' = {z}
    BY <2>1, <1>1, <1>5 DEF Attach, Return, Linked
  <2>3. Balanced(tree', color', {z}, NULL, "L", 0)
    <3> DEFINE h == [n \in Node |-> 2]
    <3>1. \A d \in Side : tree'.child[d][z] = NULL
      BY <1>1, <1>3 DEF Attached
    <3>2. color'[z] = "BLACK"
      BY <1>4, <1>5 DEF NewColor
    <3>3. h \in [Node -> Nat] /\ h[z] = 2
      BY <1>1
    <3> HIDE DEF h
    <3>4. BalancedBy(tree', color', {z}, NULL, "L", 0, h)
      BY <3>1, <3>2, <3>3 DEF BalancedBy, HeightOf, Blacks
    <3> QED BY <3>3, <3>4 DEF Balanced
  <2>4. tree'.root = z /\ Black(color', tree'.root)
    BY <1>3, <1>4, <1>5 DEF Attached, Black, NewColor
  <2> QED BY <2>2, <2>3, <2>4 DEF BalanceInv, InsertBalance, EraseBalance, RestBalance
<1>6. CASE par # NULL
  <2>1. /\ pc' = "insert_rebalance" /\ cur' = z
    BY <1>6 DEF Attach
  <2>2. par \in live /\ tree.child[side][par] = NULL /\ color'[z] = "RED"
    BY <1>1, <1>4, <1>6 DEF NewColor
  <2>3. Balanced(tree', color', live \cup {z}, par, side, 0)
    BY <2>2, <1>1, <1>2, <1>3, <1>4, AttachBalance
  <2>4. tree'.parent[z] = par
    BY <1>1, <1>3 DEF Attached
  <2>5. SideOf(tree', z) = side
    <3>1. tree'.child["L"][par] = (IF side = "L" THEN z ELSE tree.child["L"][par])
      BY <2>2, <1>1, <1>3 DEF Attached, Side
    <3>2. tree.child["L"][par] # z
      BY <2>2, <1>1, Neighbours, NullAssumption DEF Side
    <3> QED BY <3>1, <3>2, <2>4, <1>1 DEF SideOf, Left, Side
  <2>6. tree'.root = tree.root /\ tree.root \in live
    BY <2>2, <1>1, <1>3, <1>6, Neighbours DEF Attached
  <2>7. Black(color', tree'.root)
    BY <2>6, <1>2, <1>4 DEF Black
  <2> QED BY <2>1, <2>2, <2>3, <2>4, <2>5, <2>7, <1>1
          DEF BalanceInv, InsertBalance, EraseBalance, RestBalance
<1> QED BY <1>5, <1>6

\* The loop of insert_rebalance goes on: cur and its parent are red.
LEMMA RedPairFacts ==
  ASSUME IInv, BalanceInv, pc = "insert_rebalance", RedParent,
         NEW p, p = tree.parent[cur], NEW g, g = tree.parent[p],
         NEW d, d = SideOf(tree, p)
  PROVE  /\ Linked = live /\ live \in SUBSET Node /\ GoodTree(tree, live)
         /\ color \in [Node -> Color]
         /\ cur \in live /\ p \in live /\ g \in live /\ d \in Side
         /\ p = tree.child[d][g] /\ p # tree.root /\ p # g
         /\ Uncle(tree, cur) = tree.child[Opp(d)][g]
         /\ Grandparent(tree, cur) = g
         /\ color[cur] = "RED" /\ color[p] = "RED" /\ color[g] = "BLACK"
         /\ Balanced(tree, color, live, p, SideOf(tree, cur), 0)
         /\ Black(color, tree.root)
<1>1. /\ Linked = live /\ live \in SUBSET Node /\ GoodTree(tree, live)
      /\ cur \in live /\ p \in live /\ g \in live
      /\ Grandparent(tree, cur) = g
      /\ color \in [Node -> Color]
  BY RedParentFacts DEF IInv, TypeOK
<1>2. /\ color[cur] = "RED"
      /\ Balanced(tree, color, live, p, SideOf(tree, cur), 0)
      /\ Black(color, tree.root)
  BY DEF BalanceInv, InsertBalance, RedParent
<1>3. color[p] = "RED"
  BY <1>1 DEF RedParent, Black, Color
<1>4. g # NULL
  BY <1>1, NullAssumption
<1>5. d \in Side /\ p = tree.child[d][g] /\ p # tree.root /\ p # g
  BY <1>1, <1>4, SlotFacts
<1>6. color[g] = "BLACK"
  <2>1. PICK h \in [Node -> Nat] :
          BalancedBy(tree, color, live, p, SideOf(tree, cur), 0, h)
    BY <1>2 DEF Balanced
  <2>2. ~Black(color, p)
    BY <1>1, <1>3, NullAssumption DEF Black
  <2> QED BY <2>1, <2>2, <1>1, <1>5 DEF BalancedBy
<1>7. Uncle(tree, cur) = tree.child[Opp(d)][g]
  <2>1. d = IF p = Left(tree, g) THEN "L" ELSE "R"
    BY DEF SideOf
  <2> QED BY <2>1, <1>1, <1>4 DEF Uncle
<1> QED BY <1>1, <1>2, <1>3, <1>5, <1>6, <1>7

\* The red uncle: the defect moves up two levels (rb_tree.hpp:233-242).
LEMMA InsertRecolorBalance ==
  ASSUME IInv, BalanceInv, InsertRecolor
  PROVE  BalanceInv'
<1>1. PICK p : p = tree.parent[cur]
  OBVIOUS
<1>2. PICK g : g = tree.parent[p]
  OBVIOUS
<1>3. PICK d : d = SideOf(tree, p)
  OBVIOUS
<1>4. PICK u : u = tree.child[Opp(d)][g]
  OBVIOUS
<1>5. /\ Linked = live /\ live \in SUBSET Node /\ GoodTree(tree, live)
      /\ color \in [Node -> Color]
      /\ cur \in live /\ p \in live /\ g \in live /\ d \in Side
      /\ p = tree.child[d][g] /\ p # tree.root /\ p # g
      /\ Uncle(tree, cur) = u
      /\ Grandparent(tree, cur) = g
      /\ color[cur] = "RED" /\ color[p] = "RED" /\ color[g] = "BLACK"
      /\ Balanced(tree, color, live, p, SideOf(tree, cur), 0)
      /\ Black(color, tree.root)
  BY <1>1, <1>2, <1>3, <1>4, RedPairFacts DEF InsertRecolor
<1>6. Opp(d) \in Side
  BY <1>5, SideFacts
<1>7. u \in live /\ color[u] = "RED" /\ u # tree.root /\ u # g
  <2>1. ~Black(color, u)
    BY <1>5 DEF InsertRecolor
  <2>2. u \in live /\ color[u] = "RED"
    BY <2>1, <1>4, <1>5, <1>6, Neighbours DEF Black, Color
  <2>3. u # NULL
    BY <2>2, <1>5, NullAssumption
  <2>4. tree.parent[u] = g /\ g # NULL
    BY <2>2, <2>3, <1>4, <1>5, <1>6, Neighbours, NullAssumption
  <2> QED BY <2>2, <2>4, <1>5, SlotFacts
<1>8. /\ UNCHANGED <<tree, live, pc>>
      /\ cur' = g
      /\ color' = Paint(Blacken(Blacken(color, p), u), g, "RED")
      /\ pc = "insert_rebalance"
  BY <1>1, <1>5 DEF InsertRecolor
<1>9. \A m \in live : color'[m] = IF m \in {p, u} THEN "BLACK"
                                  ELSE IF m = g THEN "RED" ELSE color[m]
  BY <1>5, <1>7, <1>8, NullAssumption DEF Paint, Blacken
<1>10. Balanced(tree, color', live, tree.parent[g], SideOf(tree, g), 0)
  BY <1>4, <1>5, <1>7, <1>9, BlackDownBalance
<1>11. g # tree.root => Black(color', tree.root)
  <2>1. tree.root \in live
    BY <1>5, Neighbours
  <2> QED BY <2>1, <1>5, <1>7, <1>9, NullAssumption DEF Black
<1>12. color'[g] = "RED"
  BY <1>5, <1>7, <1>9
<1> QED BY <1>8, <1>10, <1>11, <1>12 DEF BalanceInv, InsertBalance, EraseBalance, RestBalance

\* The red pair after Straighten: both nodes hang on the side of g that the
\* parent hung on, and are still the only red pair (rb_tree.hpp:247-253, 264-270).
LEMMA StraightenBalance ==
  ASSUME IInv, BalanceInv, pc = "insert_rebalance", RedParent,
         NEW g, g = Grandparent(tree, cur),
         NEW d, d = SideOf(tree, tree.parent[cur]),
         NEW t1, t1 = Straighten(tree, cur).t,
         NEW n, n = Straighten(tree, cur).node,
         NEW p, p = t1.parent[n]
  PROVE  /\ live \in SUBSET Node /\ GoodTree(t1, live)
         /\ g \in live /\ p \in live /\ n \in live /\ d \in Side
         /\ t1.child[d][g] = p /\ t1.child[d][p] = n /\ t1.parent[p] = g
         /\ t1.child[Opp(d)][g] = Uncle(tree, cur)
         /\ SideOf(t1, p) = d
         /\ t1.root = tree.root
         /\ color \in [Node -> Color]
         /\ color[n] = "RED" /\ color[p] = "RED" /\ color[g] = "BLACK"
         /\ Balanced(t1, color, live, p, d, 0)
         /\ Black(color, tree.root)
<1>1. PICK p0 : p0 = tree.parent[cur]
  OBVIOUS
<1>2. g = tree.parent[p0]
  BY <1>1, NullAssumption DEF Grandparent, RedParent
<1>3. /\ live \in SUBSET Node /\ GoodTree(tree, live)
      /\ color \in [Node -> Color]
      /\ cur \in live /\ p0 \in live /\ g \in live /\ d \in Side
      /\ p0 = tree.child[d][g] /\ p0 # tree.root /\ p0 # g
      /\ Uncle(tree, cur) = tree.child[Opp(d)][g]
      /\ color[cur] = "RED" /\ color[p0] = "RED" /\ color[g] = "BLACK"
      /\ Balanced(tree, color, live, p0, SideOf(tree, cur), 0)
      /\ Black(color, tree.root)
  BY <1>1, <1>2, RedPairFacts
<1>4. PICK o \in Side : o = Opp(d) /\ o # d /\ \A f \in Side : f = d \/ f = o
  BY <1>3, SideFacts
<1>5. p0 # NULL /\ g # NULL /\ cur # NULL
  BY <1>3, NullAssumption
<1>6. SideOf(tree, cur) \in Side /\ tree.child[SideOf(tree, cur)][p0] = cur
  <2>1. tree.parent[cur] # NULL
    BY <1>1, <1>5
  <2>2. GoodTree(tree, live) /\ cur \in live /\ live \in SUBSET Node
    BY <1>3
  <2>3. SideOf(tree, cur) \in Side /\ tree.child[SideOf(tree, cur)][tree.parent[cur]] = cur
    BY <2>1, <2>2, SlotFacts
  <2> QED BY <2>3, <1>1
<1>7. tree.parent[p0] = g
  BY <1>2
<1>8. PICK r : r = Rotate(tree, p0, d)
  OBVIOUS
<1>9. /\ t1 = IF cur = tree.child[o][p0] THEN r ELSE tree
      /\ n = IF cur = tree.child[o][p0] THEN p0 ELSE cur
  BY <1>1, <1>4, <1>8 DEF Straighten
<1>10. CASE cur # tree.child[o][p0]
  <2>1. t1 = tree /\ n = cur /\ p = p0
    BY <1>1, <1>9, <1>10
  <2>2. SideOf(tree, cur) = d
    BY <1>4, <1>6, <1>10
  <2> QED BY <2>1, <2>2, <1>1, <1>3, <1>6, <1>7
<1>11. CASE cur = tree.child[o][p0]
  <2>1. t1 = r /\ n = p0
    BY <1>9, <1>11
  <2>2. Turned(r, tree, live, p0, d, cur)
    BY <1>3, <1>4, <1>5, <1>8, <1>11, TurnFacts
  <2>3. GoodTree(r, live)
    BY <1>3, <1>8, RotateGood
  <2>4. SideOf(tree, cur) = o
    <3>1. PICK e \in Side : e = SideOf(tree, cur)
      BY <1>6
    <3>2. tree.child[e][p0] = tree.child[o][p0] /\ tree.child[e][p0] # NULL
      BY <3>1, <1>5, <1>6, <1>11
    <3>3. live \in SUBSET Node /\ GoodTree(tree, live) /\ p0 \in live
      BY <1>3
    <3>4. e = o
      BY <3>2, <3>3, UniqueSlot
    <3> QED BY <3>1, <3>4
  <2>5. Balanced(r, color, live, cur, d, 0)
    <3>1. Balanced(tree, color, live, p0, Opp(d), 0)
      BY <2>4, <1>3, <1>4
    <3>2. live \in SUBSET Node /\ GoodTree(tree, live) /\ p0 \in live /\ d \in Side
      BY <1>3
    <3>3. color[p0] = "RED" /\ color[cur] = "RED"
      BY <1>3
    <3> QED BY <3>1, <3>2, <3>3, <2>2, TriangleBalance
  <2>6. p = cur
    BY ZenonT(40), <2>1, <2>2, <1>3 DEF Turned
  <2>7. g # cur
    BY <1>3, <1>4, <1>5, <1>11, NoLoops
  <2>8. tree.child[o][g] # p0
    <3>1. GoodTree(tree, live) /\ live \in SUBSET Node /\ g \in live /\ d \in Side
      BY <1>3
    <3>2. tree.child[o][g] = tree.child[d][g] => o = d
      BY <3>1, <1>3, <1>5, UniqueSlot
    <3> QED BY <3>2, <1>3, <1>4
  <2>9. /\ r.child[d][cur] = p0
        /\ r.child[d][g] = cur
        /\ r.child[o][g] = tree.child[o][g]
    BY <2>2, <2>7, <2>8, <1>3, <1>4 DEF Turned
  <2>10. r.root = tree.root
    BY <2>2, <1>3 DEF Turned
  <2>11. r.parent[cur] = g /\ SideOf(r, cur) = d
    <3>1. live \in SUBSET Node /\ cur \in live /\ g \in live /\ d \in Side
      BY <1>3
    <3> QED BY <3>1, <2>3, <2>9, SlotOf
  <2> QED BY <2>1, <2>3, <2>5, <2>6, <2>9, <2>10, <2>11, <1>3, <1>4
<1> QED BY <1>10, <1>11

\* The black uncle: the parent comes up and takes the black of g, and no red
\* node is left under a red one (rb_tree.hpp:244-281).
LEMMA InsertRotateBalance ==
  ASSUME IInv, BalanceInv, InsertRotate, ~RhsFirst
  PROVE  BalanceInv'
<1>1. PICK g : g = Grandparent(tree, cur)
  OBVIOUS
<1>2. PICK d : d = SideOf(tree, tree.parent[cur])
  OBVIOUS
<1>3. PICK t1 : t1 = Straighten(tree, cur).t
  OBVIOUS
<1>4. PICK n : n = Straighten(tree, cur).node
  OBVIOUS
<1>5. PICK p : p = t1.parent[n]
  OBVIOUS
<1>6. /\ live \in SUBSET Node /\ GoodTree(t1, live)
      /\ g \in live /\ p \in live /\ n \in live /\ d \in Side
      /\ t1.child[d][g] = p /\ t1.child[d][p] = n /\ t1.parent[p] = g
      /\ t1.child[Opp(d)][g] = Uncle(tree, cur)
      /\ SideOf(t1, p) = d
      /\ t1.root = tree.root
      /\ color \in [Node -> Color]
      /\ color[n] = "RED" /\ color[p] = "RED" /\ color[g] = "BLACK"
      /\ Balanced(t1, color, live, p, d, 0)
      /\ Black(color, tree.root)
  <2>1. pc = "insert_rebalance" /\ RedParent
    BY DEF InsertRotate
  <2> QED BY <2>1, <1>1, <1>2, <1>3, <1>4, <1>5, StraightenBalance
<1>7. PICK o \in Side : o = Opp(d) /\ o # d /\ Opp(o) = d
  BY <1>6, SideFacts
<1>8. PICK r : r = RotateAndStore(t1, g, o)
  OBVIOUS
<1>9. PICK c : c = Paint(Blacken(color, p), g, "RED")
  OBVIOUS
<1>10. /\ UNCHANGED <<live, size_, pc, key, z, par, side>>
       /\ tree' = r
       /\ color' = Blacken(c, r.root)
       /\ cur' = n
       /\ Black(color, Uncle(tree, cur))
       /\ pc = "insert_rebalance"
  BY <1>1, <1>3, <1>4, <1>5, <1>6, <1>7, <1>8, <1>9 DEF InsertRotate
<1>11. p # NULL /\ g # NULL /\ p # g /\ n # NULL
  BY <1>6, NullAssumption, NoLoops
<1>12. Turned(r, t1, live, g, o, p)
  BY <1>6, <1>7, <1>8, <1>11, StoreTurnFacts
<1>13. GoodTree(r, live)
  BY <1>6, <1>7, <1>8, StoreGood
<1>14. c \in [Node -> Color]
  <2>1. Blacken(color, p) \in [Node -> Color]
    BY <1>6, PaintFacts DEF NodeOrNull
  <2> QED BY <2>1, <1>9 DEF Paint, Color
<1>15. \A m \in live : c[m] = IF m = g THEN "RED" ELSE IF m = p THEN "BLACK" ELSE color[m]
  BY <1>6, <1>9, <1>11 DEF Paint, Blacken
<1>16. Balanced(r, c, live, p, d, 0)
  BY <1>6, <1>7, <1>10, <1>11, <1>12, <1>15, SwapBalance
<1>17. Balanced(r, c, live, NULL, "L", 0)
  BY <1>6, <1>11, <1>15, <1>16, DropSlot
<1>18. Balanced(r, color', live, NULL, "L", 0) /\ Black(color', r.root)
  BY <1>10, <1>13, <1>14, <1>17, <1>6, RootBlacken
<1>19. Balanced(r, color', live, r.parent[n], SideOf(r, n), 0)
  BY <1>18, <1>6, AnySlot
<1>20. r.root # n
  <2>1. t1.root # n
    BY <1>6, <1>11, SlotFacts, Neighbours
  <2> QED BY <2>1, <1>6, <1>11, <1>12, NoLoops DEF Turned
<1>21. color'[n] = "RED"
  <2>1. n # p /\ n # g
    BY <1>6, <1>11, NoLoops
  <2>2. c[n] = "RED"
    BY <2>1, <1>6, <1>15
  <2>3. r.root \in NodeOrNull
    BY <1>13, <1>6, Neighbours
  <2> QED BY <2>2, <2>3, <1>10, <1>14, <1>20, <1>6 DEF Blacken
<1> QED BY <1>10, <1>18, <1>19, <1>21 DEF BalanceInv, InsertBalance, EraseBalance, RestBalance

\* The end of insert_rebalance: the red node is the root, or its parent is black.
LEMMA InsertDoneBalance ==
  ASSUME IInv, BalanceInv, InsertDone
  PROVE  BalanceInv'
<1>1. /\ Linked = live /\ live \in SUBSET Node /\ GoodTree(tree, live) /\ cur \in live
      /\ color \in [Node -> Color]
      /\ Balanced(tree, color, live, tree.parent[cur], SideOf(tree, cur), 0)
      /\ cur # tree.root => Black(color, tree.root)
  BY DEF InsertDone, IInv, TypeOK, InsertPointers, Linked, BalanceInv, InsertBalance
<1>2. /\ UNCHANGED <<tree, live>> /\ pc' = "idle" /\ Linked' = live
      /\ color' = Blacken(color, tree.root)
  BY DEF InsertDone, Return, Linked
<1>3. PICK p : p = tree.parent[cur]
  OBVIOUS
<1>4. p \notin live \/ color[p] = "BLACK"
  <2>1. NULL \notin live
    BY <1>1, NullAssumption
  <2>2. CASE cur = tree.root
    BY <2>1, <2>2, <1>1, <1>3 DEF GoodTree, WellLinked
  <2>3. CASE p = NULL
    BY <2>1, <2>3
  <2>4. CASE p # NULL /\ Black(color, p)
    BY <2>4 DEF Black
  <2>5. CASE p # NULL /\ Grandparent(tree, cur) = NULL /\ cur # tree.root
    <3>1. p \in live /\ tree.parent[p] = NULL
      BY <2>5, <1>1, <1>3, Neighbours DEF Grandparent
    <3>2. p = tree.root
      BY <3>1, <1>1, Neighbours
    <3> QED BY <3>2, <2>5, <1>1 DEF Black
  <2> QED BY <2>2, <2>3, <2>4, <2>5, <1>3 DEF InsertDone, RedParent
<1>5. Balanced(tree, color, live, NULL, "L", 0)
  BY <1>1, <1>3, <1>4, DropSlot
<1>6. Balanced(tree, color', live, NULL, "L", 0) /\ Black(color', tree.root)
  BY <1>1, <1>2, <1>5, RootBlacken
<1> QED BY <1>2, <1>6 DEF BalanceInv, InsertBalance, EraseBalance, RestBalance

\* What erase leaves when a node has left its place to its child x below p: a
\* black one leaves the place short, a red one leaves the tree balanced.
LEMMA UnlinkBalance ==
  ASSUME NEW S \in SUBSET Node, GoodTree(tree', S), Linked' = S,
         color' \in [Node -> Color],
         NEW hue \in Color, NEW x, NEW p, Unlinked(hue, x, p),
         NEW s \in Side,
         IF p = NULL THEN x = tree'.root
                     ELSE /\ p \in S /\ tree'.child[s][p] = x
                          /\ Black(color', tree'.root),
         Balanced(tree', color', S, p, s, IF hue = "BLACK" THEN 1 ELSE 0),
         hue = "RED" => Black(color', x)
  PROVE  BalanceInv'
<1>1. cur' = x /\ par' = p /\ pc' = IF hue = "BLACK" THEN "erase_rebalance" ELSE "delete"
  BY DEF Unlinked
<1>2. PICK short \in Nat : short = IF hue = "BLACK" THEN 1 ELSE 0
  OBVIOUS
<1>3. Balanced(tree', color', S, p, s, short)
  BY <1>2
<1>4. NULL \notin S
  BY NullAssumption
<1>5. CASE hue = "RED"
  <2>1. pc' = "delete" /\ short = 0 /\ Black(color', x)
    BY <1>1, <1>2, <1>5
  <2>2. Balanced(tree', color', S, NULL, "L", 0)
    <3>1. p = NULL => p \notin S
      BY <1>4
    <3>2. p # NULL => Black(color', tree'.child[s][p])
      BY <2>1
    <3> QED BY <2>1, <3>1, <3>2, <1>3, DropSlot
  <2>3. Black(color', tree'.root)
    BY <2>1
  <2> QED BY <2>1, <2>2, <2>3 DEF BalanceInv, InsertBalance, EraseBalance, RestBalance
<1>6. CASE hue = "BLACK" /\ p = NULL
  <2>1. pc' = "erase_rebalance" /\ cur' = tree'.root
    BY <1>1, <1>6
  <2>2. Balanced(tree', color', S, NULL, "L", 0)
    BY <1>3, <1>4, <1>6, DropSlot
  <2>3. /\ Balanced(tree', Blacken(color', tree'.root), S, NULL, "L", 0)
        /\ Black(Blacken(color', tree'.root), tree'.root)
    BY <2>2, RootBlacken
  <2>4. ~BlackShort'
    BY <2>1 DEF BlackShort
  <2> QED BY <2>1, <2>3, <2>4 DEF BalanceInv, InsertBalance, EraseBalance, RestBalance
<1>7. CASE hue = "BLACK" /\ p # NULL
  <2>1. pc' = "erase_rebalance" /\ short = 1 /\ p \in S /\ x = tree'.child[s][p]
        /\ Black(color', tree'.root)
    BY <1>1, <1>2, <1>7
  <2>2. /\ x # tree'.root
        /\ s = IF Left(tree', p) = x THEN "L" ELSE "R"
        /\ ~Black(color', x) => /\ Balanced(tree', Blacken(color', x), S, NULL, "L", 0)
                                /\ Black(Blacken(color', x), tree'.root)
    BY <2>1, <1>3, ShortPlace
  <2>3. ShortSide' = s
    BY <2>2, <1>1 DEF ShortSide
  <2>4. BlackShort' <=> Black(color', x)
    BY <2>2, <1>1 DEF BlackShort
  <2> QED BY <2>1, <2>2, <2>3, <2>4, <1>1, <1>3
          DEF BalanceInv, InsertBalance, EraseBalance, RestBalance
<1> QED BY <1>5, <1>6, <1>7 DEF Color

\* erase of a node with at most one child (rb_tree.hpp:506-513).
LEMMA SpliceOutBalance ==
  ASSUME IInv, BalanceInv, SpliceOut
  PROVE  BalanceInv'
<1>1. cur \in live /\ Linked = live /\ GoodTree(tree, live) /\ live \in SUBSET Node
      /\ color \in [Node -> Color]
      /\ Balanced(tree, color, live, NULL, "L", 0) /\ Black(color, tree.root)
  BY DEF IInv, SearchPointers, SpliceOut, Linked, TypeOK, BalanceInv, RestBalance
<1>2. PICK d \in Side : d = IF Left(tree, cur) = NULL THEN "R" ELSE "L"
  BY DEF Side
<1>3. PICK x \in NodeOrNull : x = tree.child[d][cur]
  BY <1>1, Neighbours
<1>4. tree.child[Opp(d)][cur] = NULL
  BY <1>2 DEF SpliceOut, Opp, Left, Right
<1>5. PICK p : p = tree.parent[cur]
  OBVIOUS
<1>6. PICK s \in Side : s = SideOf(tree, cur)
  BY <1>1, SlotFacts
<1>7. PICK hue \in Color : hue = color[cur]
  BY <1>1
<1>8. /\ tree' = Transplant(tree, cur, x)
      /\ Unlinked(hue, x, p)
      /\ z' = cur
      /\ UNCHANGED <<color, live, size_, key, side>>
  BY <1>2, <1>3, <1>5, <1>7 DEF SpliceOut, Left, Right
<1>9. Linked' = live \ {cur}
  BY <1>8 DEF Linked, Unlinked
<1>10. GoodTree(tree', live \ {cur})
  BY <1>1, <1>3, <1>4, <1>8, SpliceGood
<1>11. Spliced(tree', tree, live, cur, x)
  BY <1>1, <1>8, SpliceFacts
<1>12. Balanced(tree', color, live \ {cur}, p, s, Blacks(color, cur))
  BY <1>1, <1>3, <1>5, <1>6, <1>11, SpliceBalance
<1>13. Blacks(color, cur) = IF hue = "BLACK" THEN 1 ELSE 0
  BY <1>7 DEF Blacks
<1>14. hue = "RED" => Black(color, x)
  <2>1. PICK h \in [Node -> Nat] : BalancedBy(tree, color, live, NULL, "L", 0, h)
    BY <1>1 DEF Balanced
  <2>2. cur # NULL
    BY <1>1, NullAssumption
  <2> QED BY <2>1, <2>2, <1>1, <1>3, <1>7 DEF BalancedBy
<1>15. IF p = NULL THEN x = tree'.root
       ELSE /\ p \in live \ {cur} /\ tree'.child[s][p] = x
            /\ Black(color', tree'.root)
  <2>1. CASE p = NULL
    <3>1. tree.root = cur
      BY <2>1, <1>1, <1>5, Neighbours
    <3> QED BY <2>1, <3>1, <1>11 DEF Spliced
  <2>2. CASE p # NULL
    <3>1. p \in live /\ tree.child[s][p] = cur /\ cur # tree.root /\ p # cur
      BY <2>2, <1>1, <1>5, <1>6, SlotFacts
    <3>2. tree'.root = tree.root /\ tree'.child[s][p] = x
      BY <3>1, <1>11 DEF Spliced
    <3> QED BY <2>2, <3>1, <3>2, <1>1, <1>8
  <2> QED BY <2>1, <2>2
<1>16. /\ (live \ {cur}) \in SUBSET Node
       /\ color' \in [Node -> Color]
       /\ Balanced(tree', color', live \ {cur}, p, s, IF hue = "BLACK" THEN 1 ELSE 0)
       /\ hue = "RED" => Black(color', x)
  BY <1>1, <1>8, <1>12, <1>13, <1>14
<1> QED BY <1>8, <1>9, <1>10, <1>15, <1>16, UnlinkBalance

\* The successor takes the place and the colour of the erased node, and its own
\* place goes to its right child (rb_tree.hpp:514-535).
LEMMA ReplaceBySuccessorBalance ==
  ASSUME IInv, BalanceInv, ReplaceBySuccessor
  PROVE  BalanceInv'
<1>1. PICK y : y = cur
  OBVIOUS
<1>2. PICK t1 : t1 = IF tree.parent[y] = z THEN tree ELSE Detach(tree, y)
  OBVIOUS
<1>3. PICK x : x = Right(tree, y)
  OBVIOUS
<1>4. /\ Linked = live /\ GoodTree(tree, live) /\ live \in SUBSET Node
      /\ y \in live /\ z \in live
      /\ Below(tree, live, y, z)
      /\ tree.parent[y] \in live
      /\ tree.parent[y] = z => y = Right(tree, z)
      /\ color \in [Node -> Color]
      /\ Balanced(tree, color, live, NULL, "L", 0) /\ Black(color, tree.root)
  BY <1>1 DEF IInv, SearchPointers, ReplaceBySuccessor, Linked, TypeOK, BalanceInv, RestBalance
<1>5. PICK p \in live : p = tree.parent[y]
  BY <1>4
<1>6. PICK hue \in Color : hue = color[y]
  BY <1>4
<1>7. y # z
  BY <1>4, BelowIsOther
<1>8. x \in live \cup {NULL} /\ x # z /\ x # y
  <2>1. "R" \in Side /\ x = tree.child["R"][y]
    BY <1>3 DEF Side, Right
  <2>2. ASSUME x # NULL PROVE x \in live /\ Below(tree, live, x, z) /\ x # y
    BY <2>1, <2>2, <1>4, Neighbours, ChildIsBelow, NoLoops
  <2> QED BY <2>2, <1>4, BelowIsOther, NullAssumption
<1>9. /\ UNCHANGED <<live, size_, key, z, side>>
      /\ Left(tree, y) = NULL
      /\ tree' = Inherit(Transplant(t1, z, y), y, "L")
      /\ color' = TakeColor(color, y)
      /\ Unlinked(hue, x, IF p = z THEN y ELSE t1.parent[y])
  BY <1>1, <1>2, <1>3, <1>5, <1>6 DEF ReplaceBySuccessor
<1>10. PICK q : q = Transplant(tree, y, x)
  OBVIOUS
<1>11. /\ GoodTree(tree', live \ {z})
       /\ t1.parent[y] = p
       /\ GoodTree(q, live \ {y})
       /\ Renamed(tree', q, z, y, live \ {y})
  BY <1>2, <1>3, <1>4, <1>5, <1>7, <1>8, <1>9, <1>10, SuccessorGood
<1>12. PICK s \in Side : s = SideOf(tree, y)
  BY <1>4, SlotFacts
<1>13. p # NULL /\ y # NULL /\ z # NULL
  BY <1>4, NullAssumption
<1>14. tree.child[s][p] = y /\ p # y /\ y # tree.root
  BY <1>4, <1>5, <1>12, <1>13, SlotFacts
<1>15. Spliced(q, tree, live, y, x)
  BY <1>4, <1>8, <1>10, SpliceFacts DEF NodeOrNull
<1>16. Balanced(q, color, live \ {y}, p, s, Blacks(color, y))
  <2>1. x = tree.child["R"][y] /\ "R" \in Side
    BY <1>3 DEF Right, Side
  <2> QED BY <2>1, <1>4, <1>5, <1>12, <1>15, SpliceBalance
<1>17. q.child[s][p] = x /\ q.root = tree.root
  BY <1>14, <1>15 DEF Spliced
<1>18. \A m \in live : color'[m] = IF m = y THEN color[z] ELSE color[m]
  BY <1>4, <1>9 DEF TakeColor, Paint
<1>19. PICK p2 : p2 = IF p = z THEN y ELSE p
  OBVIOUS
<1>20. Balanced(tree', color', live \ {z}, p2, s, Blacks(color, y))
  <2>1. ((live \ {y}) \ {z}) \cup {y} = live \ {z}
    BY <1>4, <1>7
  <2>2. live \ {y} \in SUBSET Node /\ z \in live \ {y} /\ y \in Node \ (live \ {y})
    BY <1>4, <1>7
  <2>3. color'[y] = color[z] /\ \A m \in (live \ {y}) \ {z} : color'[m] = color[m]
    BY <1>4, <1>18
  <2>4. /\ GoodTree(q, live \ {y}) /\ Renamed(tree', q, z, y, live \ {y})
        /\ p # y /\ Balanced(q, color, live \ {y}, p, s, Blacks(color, y))
    BY <1>11, <1>14, <1>16
  <2>5. Balanced(tree', color', ((live \ {y}) \ {z}) \cup {y}, IF p = z THEN y ELSE p,
                 s, Blacks(color, y))
    BY <2>2, <2>3, <2>4, RenameBalance
  <2> QED BY <2>1, <2>5, <1>19
<1>21. tree'.child[s][p2] = x
  BY <1>8, <1>11, <1>14, <1>17, <1>19 DEF Renamed
<1>22. Black(color', tree'.root)
  <2>1. tree.root \in live /\ tree'.root = IF tree.root = z THEN y ELSE tree.root
    BY <1>4, <1>11, <1>17, Neighbours DEF Renamed
  <2> QED BY <2>1, <1>4, <1>14, <1>18, NullAssumption DEF Black
<1>23. hue = "RED" => Black(color', x)
  <2>1. PICK h \in [Node -> Nat] : BalancedBy(tree, color, live, NULL, "L", 0, h)
    BY <1>4 DEF Balanced
  <2>2. x = tree.child["R"][y] /\ "R" \in Side
    BY <1>3 DEF Right, Side
  <2>3. hue = "RED" => Black(color, x)
    BY <2>1, <2>2, <1>4, <1>6, <1>13 DEF BalancedBy
  <2> QED BY <2>3, <1>8, <1>18 DEF Black
<1>24. /\ Unlinked(hue, x, p2)
       /\ p2 # NULL /\ p2 \in live \ {z}
       /\ Linked' = live \ {z}
       /\ live \ {z} \in SUBSET Node
  BY <1>4, <1>7, <1>9, <1>11, <1>13, <1>19 DEF Linked, Unlinked
<1>25. color' \in [Node -> Color]
  BY <1>4, <1>9 DEF TakeColor, Paint
<1>26. Balanced(tree', color', live \ {z}, p2, s, IF hue = "BLACK" THEN 1 ELSE 0)
  BY <1>6, <1>20 DEF Blacks
<1> QED BY <1>11, <1>21, <1>22, <1>23, <1>24, <1>25, <1>26, UnlinkBalance

\* What case 1 of erase_rebalance leaves: the place of cur is as short as it
\* was, and has a black sibling (rb_tree.hpp:292-298, 328-334).
LEMMA ShortBalance ==
  ASSUME IInv, BalanceInv, pc = "erase_rebalance", BlackShort
  PROVE  /\ Linked \in SUBSET Node /\ GoodTree(Tree1, Linked)
         /\ par \in Linked /\ ShortSide \in Side
         /\ Color1 \in [Node -> Color]
         /\ Tree1.child[ShortSide][par] = cur
         /\ Balanced(Tree1, Color1, Linked, par, ShortSide, 1)
         /\ Sibling \in Linked /\ Color1[Sibling] = "BLACK"
         /\ Black(Color1, Tree1.root)
         /\ Black(Color1, cur)
<1>1. /\ Linked \in SUBSET Node /\ par \in Linked
      /\ GoodTree(Tree1, Linked)
      /\ Color1 \in [Node -> Color]
  BY ShortFacts
<1>2. PICK s \in Side : s = ShortSide
  BY DEF ShortSide, Side
<1>3. PICK o \in Side : o = Opp(s) /\ o # s /\ Opp(o) = s
  BY SideFacts
<1>4. /\ GoodTree(tree, Linked)
      /\ color \in [Node -> Color]
      /\ tree.child[s][par] = cur
      /\ Balanced(tree, color, Linked, par, s, 1)
      /\ Black(color, tree.root) /\ Black(color, cur)
  BY <1>2 DEF IInv, TypeOK, BalanceInv, EraseBalance, BlackShort
<1>5. PICK w \in Linked : w = tree.child[o][par]
  BY <1>1, <1>3, <1>4, SiblingExists
<1>6. w # NULL /\ par # NULL /\ w # par
  BY <1>1, <1>3, <1>4, <1>5, NoLoops, NullAssumption
<1>7. SiblingIsRed <=> color[w] = "RED"
  BY <1>1, <1>2, <1>3, <1>4, <1>5, <1>6 DEF SiblingIsRed, Black, Color
<1>8. CASE color[w] # "RED"
  <2>1. Tree1 = tree /\ Color1 = color
    BY <1>7, <1>8 DEF Tree1, Color1
  <2>2. Sibling = w /\ color[w] = "BLACK"
    BY <2>1, <1>1, <1>2, <1>3, <1>4, <1>5, <1>8 DEF Sibling, Color
  <2> QED BY <2>1, <2>2, <1>1, <1>2, <1>4
<1>9. CASE color[w] = "RED"
  <2>1. Tree1 = Rotate(tree, par, s) /\ Color1 = Paint(Blacken(color, w), par, "RED")
    BY <1>2, <1>3, <1>5, <1>7, <1>9 DEF Tree1, Color1
  <2>2. Turned(Tree1, tree, Linked, par, s, w)
    BY <2>1, <1>1, <1>3, <1>4, <1>5, <1>6, TurnFacts
  <2>3. \A m \in Linked : Color1[m] = IF m = par THEN "RED"
                                      ELSE IF m = w THEN "BLACK" ELSE color[m]
    BY <2>1, <1>1, <1>4, <1>6 DEF Paint, Blacken
  <2>4. PICK h \in [Node -> Nat] : BalancedBy(tree, color, Linked, par, s, 1, h)
    BY <1>4 DEF Balanced
  <2>5. ~Black(color, w)
    BY <1>6, <1>9 DEF Black
  <2>6. color[par] = "BLACK"
    BY <2>4, <2>5, <1>1, <1>3, <1>5 DEF BalancedBy
  <2>7. Balanced(Tree1, Color1, Linked, par, s, 1)
    BY <2>2, <2>3, <2>6, <1>1, <1>3, <1>4, <1>6, <1>9, SwapBalance
  <2>8. PICK w2 \in Linked : w2 = Tree1.child[o][par]
    BY <2>7, <1>1, <1>3, SiblingExists
  <2>9. Tree1.child[o][par] = tree.child[s][w] /\ Tree1.child[s][par] = cur
    BY <2>2, <1>1, <1>3, <1>4, TurnParts
  <2>10. Black(color, w2)
    BY <2>4, <2>8, <2>9, <1>3, <1>6, <1>9 DEF BalancedBy
  <2>11. w2 # par /\ w2 # w
    BY <2>2, <2>8, <2>9, <1>1, <1>3, <1>4, NullAssumption, TurnParts
  <2>12. w2 # NULL
    BY <1>1, NullAssumption
  <2>13. Color1[w2] = "BLACK" /\ Sibling = w2
    BY <2>3, <2>8, <2>10, <2>11, <2>12, <1>2, <1>3 DEF Sibling, Black
  <2>14. Black(Color1, Tree1.root)
    <3>1. tree.root \in Linked /\ Tree1.root = IF tree.root = par THEN w ELSE tree.root
      BY <2>2, <1>1, <1>4, Neighbours DEF Turned
    <3> QED BY <3>1, <2>3, <1>4, <1>5, <1>6, NullAssumption DEF Black
  <2>15. Black(Color1, cur)
    <3>1. cur \in Linked \cup {NULL} /\ cur # par
      BY <1>1, <1>4, <1>6, Neighbours, NoLoops
    <3> QED BY <3>1, <2>3, <1>4 DEF Black
  <2> QED BY <2>7, <2>9, <2>13, <2>14, <2>15, <1>1, <1>2
<1> QED BY <1>8, <1>9

\* Case 2: the shortage moves up to the parent, or ends there
\* (rb_tree.hpp:299-307, 335-343).
LEMMA EraseRecolorBalance ==
  ASSUME IInv, BalanceInv, EraseRecolor
  PROVE  BalanceInv'
<1>1. PICK t : t = Tree1
  OBVIOUS
<1>2. PICK c : c = Color1
  OBVIOUS
<1>3. PICK w : w = Sibling
  OBVIOUS
<1>4. PICK s \in Side : s = ShortSide
  BY DEF ShortSide, Side
<1>5. /\ pc = "erase_rebalance" /\ BlackShort /\ NephewsBlack
      /\ tree' = t
      /\ color' = Paint(c, w, "RED")
      /\ cur' = par
      /\ par' = IF par = t.root THEN par ELSE t.parent[par]
      /\ UNCHANGED <<live, size_, pc, key, z, side>>
  BY <1>1, <1>2, <1>3 DEF EraseRecolor
<1>6. /\ Linked \in SUBSET Node /\ GoodTree(t, Linked)
      /\ par \in Linked /\ c \in [Node -> Color]
      /\ t.child[s][par] = cur
      /\ Balanced(t, c, Linked, par, s, 1)
      /\ w \in Linked /\ c[w] = "BLACK"
      /\ Black(c, t.root)
  BY <1>1, <1>2, <1>3, <1>4, <1>5, ShortBalance
<1>7. PICK o \in Side : o = Opp(s)
  BY SideFacts
<1>8. w = t.child[o][par] /\ \A f \in Side : Black(c, t.child[f][w])
  BY <1>1, <1>2, <1>3, <1>4, <1>5, <1>7 DEF Sibling, NephewsBlack
<1>9. Linked' = Linked
  BY <1>5 DEF Linked
<1>10. w # NULL /\ par # NULL /\ w # par /\ w # t.root
  <2>1. w # NULL /\ par # NULL
    BY <1>6, NullAssumption
  <2>2. w # par /\ t.parent[w] = par
    BY SMTT(30), <2>1, <1>6, <1>8, NoLoops, Neighbours
  <2> QED BY <2>1, <2>2, <1>6 DEF GoodTree, WellLinked
<1>11. \A m \in Node : color'[m] = IF m = w THEN "RED" ELSE c[m]
  BY <1>5, <1>6 DEF Paint
<1>12. color' \in [Node -> Color]
  BY <1>5, <1>6 DEF Paint, Color
<1>13. PICK c3 : c3 = Blacken(color', par)
  OBVIOUS
<1>14. \A m \in Linked : c3[m] = IF m = w THEN "RED" ELSE IF m = par THEN "BLACK" ELSE c[m]
  BY <1>6, <1>10, <1>11, <1>12, <1>13 DEF Blacken
<1>15. t.root \in Linked
  BY <1>6, Neighbours
<1>16. CASE c[par] = "RED"
  <2>1. Balanced(t, c3, Linked, NULL, "L", 0)
    BY <1>6, <1>7, <1>8, <1>11, <1>14, <1>16, ShortUpBalance
  <2>2. Black(c3, t.root)
    BY <1>6, <1>10, <1>14, <1>15 DEF Black
  <2>3. ~BlackShort'
    BY <1>5, <1>6, <1>10, <1>11, <1>16 DEF BlackShort, Black
  <2> QED BY <2>1, <2>2, <2>3, <1>5, <1>9, <1>13
          DEF BalanceInv, InsertBalance, EraseBalance, RestBalance
<1>17. CASE c[par] = "BLACK"
  <2>1. Balanced(t, color', Linked, t.parent[par], SideOf(t, par), 1)
    BY <1>6, <1>7, <1>8, <1>11, <1>14, <1>17, ShortUpBalance
  <2>2. CASE par = t.root
    <3>1. t.parent[par] \notin Linked
      BY <2>2, <1>6, <1>10, NullAssumption DEF GoodTree, WellLinked
    <3>2. Balanced(t, color', Linked, NULL, "L", 0)
      BY <2>1, <3>1, <1>6, DropSlot
    <3>3. Balanced(t, c3, Linked, NULL, "L", 0) /\ Black(c3, t.root)
      BY <2>2, <3>2, <1>6, <1>12, <1>13, RootBlacken
    <3>4. ~BlackShort'
      BY <2>2, <1>5 DEF BlackShort
    <3> QED BY <3>3, <3>4, <1>5, <1>9, <1>13
            DEF BalanceInv, InsertBalance, EraseBalance, RestBalance
  <2>3. CASE par # t.root
    <3>1. PICK p2 \in Linked : p2 = t.parent[par]
      BY <2>3, <1>6, Neighbours
    <3>2. p2 # NULL
      BY <3>1, <1>6, NullAssumption
    <3>3. PICK s2 \in Side : s2 = SideOf(t, par)
      BY <1>6, SlotFacts
    <3>4. par = t.child[s2][p2]
      BY <3>1, <3>2, <3>3, <1>6, SlotFacts
    <3>5. Black(color', t.root) /\ Black(color', par)
      BY <1>6, <1>10, <1>11, <1>15, <1>17 DEF Black
    <3>6. Balanced(t, color', Linked, p2, s2, 1)
      BY <2>1, <3>1, <3>3
    <3>7. s2 = IF Left(t, p2) = par THEN "L" ELSE "R"
      BY <3>4, <3>5, <3>6, <1>6, <1>12, ShortPlace
    <3>8. ShortSide' = s2 /\ BlackShort' /\ par' = p2
      BY <2>3, <3>1, <3>5, <3>7, <1>5 DEF ShortSide, BlackShort
    <3> QED BY <3>4, <3>5, <3>6, <3>8, <1>5, <1>9
            DEF BalanceInv, InsertBalance, EraseBalance, RestBalance
  <2> QED BY <2>2, <2>3
<1> QED BY <1>6, <1>16, <1>17 DEF Color

\* What case 3 of erase_rebalance leaves: a black sibling with a red child on
\* the far side (rb_tree.hpp:309-317, 345-352).
LEMMA FarNephewBalance ==
  ASSUME IInv, BalanceInv, EraseRotate,
         NEW s, s = ShortSide, NEW o, o = Opp(s),
         NEW w, w = Tree3.child[o][par], NEW far, far = Tree3.child[o][w]
  PROVE  /\ Linked \in SUBSET Node /\ GoodTree(Tree3, Linked)
         /\ par \in Linked /\ s \in Side
         /\ Color3 \in [Node -> Color]
         /\ Tree3.child[s][par] = cur
         /\ Balanced(Tree3, Color3, Linked, par, s, 1)
         /\ w \in Linked /\ Color3[w] = "BLACK"
         /\ far \in Linked /\ Color3[far] = "RED"
         /\ Black(Color3, Tree3.root) /\ Black(Color3, cur)
<1>1. PICK t : t = Tree1
  OBVIOUS
<1>2. PICK c : c = Color1
  OBVIOUS
<1>3. PICK v : v = Sibling
  OBVIOUS
<1>4. pc = "erase_rebalance" /\ BlackShort /\ ~NephewsBlack
  BY DEF EraseRotate
<1>5. /\ Linked \in SUBSET Node /\ GoodTree(t, Linked)
      /\ par \in Linked /\ s \in Side
      /\ c \in [Node -> Color]
      /\ t.child[s][par] = cur
      /\ Balanced(t, c, Linked, par, s, 1)
      /\ v \in Linked /\ c[v] = "BLACK"
      /\ Black(c, t.root) /\ Black(c, cur)
  BY <1>1, <1>2, <1>3, <1>4, ShortBalance
<1>6. o \in Side /\ o # s /\ Opp(o) = s /\ \A f \in Side : f = s \/ f = o
  BY <1>5, SideFacts
<1>7. v = t.child[o][par] /\ v # NULL /\ par # NULL /\ v # par
  BY <1>1, <1>3, <1>5, <1>6, NoLoops, NullAssumption DEF Sibling
<1>8. ~(\A f \in Side : Black(c, t.child[f][v]))
  BY <1>1, <1>2, <1>3, <1>4, <1>7 DEF NephewsBlack
<1>9. FarIsBlack <=> Black(c, t.child[o][v])
  BY <1>1, <1>2, <1>3, <1>7 DEF FarIsBlack
<1>10. \A f \in Side : ~Black(c, t.child[f][v]) =>
         t.child[f][v] \in Linked /\ c[t.child[f][v]] = "RED"
  BY <1>5, Neighbours DEF Black, Color
<1>11. CASE ~FarIsBlack
  <2>1. Tree3 = t /\ Color3 = c
    BY <1>1, <1>2, <1>11 DEF Tree3, Color3
  <2>2. w = v /\ far = t.child[o][v]
    BY <2>1, <1>7
  <2> QED BY <2>1, <2>2, <1>5, <1>6, <1>9, <1>10, <1>11
<1>12. CASE FarIsBlack
  <2>1. PICK near \in Linked : near = t.child[s][v] /\ c[near] = "RED"
    BY <1>5, <1>6, <1>8, <1>9, <1>10, <1>12
  <2>2. near # NULL
    BY <2>1, <1>5, NullAssumption
  <2>3. Tree3 = Rotate(t, v, o) /\ Color3 = Paint(Blacken(c, near), v, "RED")
    BY <2>1, <1>1, <1>2, <1>3, <1>12 DEF Tree3, Color3
  <2>4. GoodTree(Tree3, Linked)
    BY <2>3, <1>5, <1>6, RotateGood
  <2>5. Turned(Tree3, t, Linked, v, o, near)
    BY <2>1, <2>2, <2>3, <1>5, <1>6, TurnFacts
  <2>6. Color3 \in [Node -> Color]
    <3>1. Blacken(c, near) \in [Node -> Color]
      BY <2>1, <1>5, PaintFacts DEF NodeOrNull
    <3> QED BY <3>1, <2>3 DEF Paint, Color
  <2>7. \A m \in Linked : Color3[m] = IF m = v THEN "RED"
                                      ELSE IF m = near THEN "BLACK" ELSE c[m]
    BY <2>1, <2>2, <2>3, <1>5 DEF Paint, Blacken
  <2>8. near # v /\ near # par
    BY <2>1, <2>2, <1>5, <1>6, <1>7, NoLoops
  <2>9. Balanced(Tree3, Color3, Linked, par, s, 1)
    <3>1. /\ Linked \in SUBSET Node /\ GoodTree(t, Linked) /\ v \in Linked /\ o \in Side
          /\ Balanced(t, c, Linked, par, s, 1) /\ 1 \in Nat
      BY <1>5, <1>6, <1>7
    <3>2. /\ c[v] = "BLACK"
          /\ c[near] = "RED"
          /\ Black(c, t.child[o][v])
      <4>1. c[v] = "BLACK"
        BY <1>5, <1>6
      <4>2. Black(c, t.child[o][v])
        BY <1>9, <1>12
      <4> QED BY <4>1, <4>2, <2>1
    <3>3. v # par /\ near # par
      BY <2>8, <1>7
    <3> QED BY <3>1, <3>2, <3>3, <2>5, <2>7, SwapBalance
  <2>10. /\ Tree3.child[o][near] = v
         /\ Tree3.child[o][par] = near
         /\ t.child[s][par] # near
         /\ Tree3.child[s][par] = IF t.child[s][par] = v THEN near ELSE t.child[s][par]
    BY SMTT(30), <2>5, <2>8, <1>5, <1>6, <1>7, TurnParts
  <2>11. t.child[s][par] # v
    BY <1>5, <1>6, <1>7, UniqueSlot
  <2>12. w = near /\ far = v
    BY <2>10
  <2>13. Tree3.root = t.root /\ t.root \in Linked /\ t.root # v
    <3>1. t.parent[v] = par
      <4>1. t.child[o][par] = v /\ t.child[o][par] # NULL
        BY <1>7
      <4>2. t.parent[t.child[o][par]] = par
        BY <4>1, <1>5, <1>6, Neighbours
      <4> QED BY <4>1, <4>2
    <3>2. t.root # v /\ t.root \in Linked
      BY <3>1, <1>5, <1>7, Neighbours DEF GoodTree, WellLinked
    <3> QED BY <3>2, <2>5 DEF Turned
  <2>14. Black(Color3, Tree3.root)
    BY <2>7, <2>13, <1>5 DEF Black
  <2>15. Black(Color3, cur)
    <3>1. cur \in Linked \cup {NULL}
      BY <1>5, Neighbours
    <3> QED BY <3>1, <2>7, <2>10, <2>11, <1>5 DEF Black
  <2> QED BY <2>1, <2>4, <2>6, <2>7, <2>8, <2>9, <2>10, <2>11, <2>12, <2>14, <2>15,
             <1>5, <1>7
<1> QED BY <1>11, <1>12

\* Case 4: nothing is short any more (rb_tree.hpp:318-325, 353-360).
LEMMA EraseRotateBalance ==
  ASSUME IInv, BalanceInv, EraseRotate
  PROVE  BalanceInv'
<1>1. PICK t : t = Tree3
  OBVIOUS
<1>2. PICK c : c = Color3
  OBVIOUS
<1>3. PICK s : s = ShortSide
  OBVIOUS
<1>4. PICK o : o = Opp(s)
  OBVIOUS
<1>5. PICK w : w = t.child[o][par]
  OBVIOUS
<1>6. PICK far : far = t.child[o][w]
  OBVIOUS
<1>7. /\ Linked \in SUBSET Node /\ GoodTree(t, Linked)
      /\ par \in Linked /\ s \in Side
      /\ c \in [Node -> Color]
      /\ t.child[s][par] = cur
      /\ Balanced(t, c, Linked, par, s, 1)
      /\ w \in Linked /\ c[w] = "BLACK"
      /\ far \in Linked /\ c[far] = "RED"
      /\ Black(c, t.root) /\ Black(c, cur)
  BY <1>1, <1>2, <1>3, <1>4, <1>5, <1>6, FarNephewBalance
<1>8. o \in Side /\ o # s
  BY <1>4, <1>7, SideFacts
<1>9. w # NULL /\ par # NULL /\ far # NULL /\ w # par /\ far # w /\ far # par
  BY <1>5, <1>6, <1>7, <1>8, NullAssumption, NoLoops
<1>10. PICK c2 : c2 = Blacken(Blacken(Paint(c, w, c[par]), par), far)
  OBVIOUS
<1>11. /\ tree' = Rotate(t, par, s)
       /\ color' = Blacken(c2, cur)
       /\ pc' = "delete"
       /\ UNCHANGED <<live, size_, key, z, cur, par, side>>
       /\ pc = "erase_rebalance"
  <2>1. w # NULL
    BY <1>9
  <2> QED BY <2>1, <1>1, <1>2, <1>3, <1>4, <1>5, <1>6, <1>10 DEF EraseRotate, RepaintCase4
<1>12. Linked' = Linked
  BY <1>11 DEF Linked
<1>13. GoodTree(tree', Linked)
  BY <1>7, <1>11, RotateGood
<1>14. Turned(tree', t, Linked, par, s, w)
  BY <1>4, <1>5, <1>7, <1>9, <1>11, TurnFacts
<1>15. c2 \in [Node -> Color]
       /\ \A m \in Linked : c2[m] = IF m \in {par, far} THEN "BLACK"
                                    ELSE IF m = w THEN c[par] ELSE c[m]
  <2>1. PICK c1 : c1 = Paint(c, w, c[par])
    OBVIOUS
  <2>2. c1 \in [Node -> Color] /\ \A m \in Linked : c1[m] = IF m = w THEN c[par] ELSE c[m]
    BY <2>1, <1>7 DEF Paint
  <2>3. PICK c0 : c0 = Blacken(c1, par)
    OBVIOUS
  <2>4. c0 \in [Node -> Color] /\ \A m \in Linked : c0[m] = IF m = par THEN "BLACK" ELSE c1[m]
    BY <2>2, <2>3, <1>7, <1>9 DEF Blacken, Color
  <2>5. c2 = Blacken(c0, far)
    BY <2>1, <2>3, <1>10
  <2>6. c2 \in [Node -> Color] /\ \A m \in Linked : c2[m] = IF m = far THEN "BLACK" ELSE c0[m]
    BY <2>4, <2>5, <1>7, <1>9 DEF Blacken, Color
  <2> QED BY <2>2, <2>4, <2>6
<1>16. cur \in Linked \cup {NULL} /\ cur # w /\ cur # par
  BY <1>5, <1>7, <1>8, <1>9, Neighbours, NoLoops, UniqueSlot
<1>17. \A m \in Linked : color'[m] = IF m \in {par, far} THEN "BLACK"
                                     ELSE IF m = w THEN c[par] ELSE c[m]
  <2>1. cur # NULL => c2[cur] = "BLACK"
    BY <1>7, <1>15, <1>16 DEF Black
  <2>2. \A m \in Linked : color'[m] = c2[m]
    BY <2>1, <1>7, <1>11, <1>15, <1>16 DEF Blacken
  <2> QED BY <2>2, <1>15
<1>18. Balanced(tree', color', Linked, NULL, "L", 0)
  BY <1>4, <1>6, <1>7, <1>14, <1>17, LastTurnBalance
<1>19. Black(color', tree'.root)
  <2>1. tree'.root = (IF t.root = par THEN w ELSE t.root) /\ t.root \in Linked
    BY <1>7, <1>14, Neighbours DEF Turned
  <2>2. t.root # w
    <3>1. t.parent[w] = par
      <4>1. t.child[o][par] = w /\ w # NULL
        BY <1>5, <1>9
      <4> QED BY <4>1, <1>7, <1>8, Neighbours
    <3> QED BY <3>1, <1>7, <1>9 DEF GoodTree, WellLinked
  <2> QED BY <2>1, <2>2, <1>7, <1>9, <1>17, NullAssumption DEF Black
<1> QED BY <1>11, <1>12, <1>18, <1>19 DEF BalanceInv, InsertBalance, EraseBalance, RestBalance

\* The end of erase_rebalance (rb_tree.hpp:363).
LEMMA EraseDoneBalance ==
  ASSUME IInv, BalanceInv, EraseDone
  PROVE  BalanceInv'
<1>1. /\ UNCHANGED <<tree, live, z>> /\ pc = "erase_rebalance" /\ pc' = "delete"
      /\ color' = Blacken(color, cur)
      /\ ~BlackShort
  BY DEF EraseDone
<1>2. Linked' = Linked
  BY <1>1 DEF Linked
<1>3. Balanced(tree, Blacken(color, cur), Linked, NULL, "L", 0)
      /\ Black(Blacken(color, cur), tree.root)
  BY <1>1 DEF BalanceInv, EraseBalance
<1> QED BY <1>1, <1>2, <1>3 DEF BalanceInv, InsertBalance, EraseBalance, RestBalance

\* The erased node is deleted; it hung in the tree no more (rb_tree.hpp:537-538).
LEMMA DeleteBalance ==
  ASSUME IInv, BalanceInv, Delete
  PROVE  BalanceInv'
<1>1. PICK S : S = Linked
  OBVIOUS
<1>2. /\ pc = "delete" /\ pc' = "idle" /\ live' = live \ {z}
      /\ tree' = Scrub(tree, {z})
      /\ color' = ScrubColor(color, {z})
  BY DEF Delete, Return
<1>3. /\ S = live \ {z} /\ S \in SUBSET Node /\ {z} \in SUBSET Node /\ Linked' = S
      /\ tree \in Tree
      /\ GoodTree(tree, S)
      /\ Balanced(tree, color, S, NULL, "L", 0) /\ Black(color, tree.root)
  BY <1>1, <1>2 DEF IInv, TypeOK, UnlinkPointers, Linked, BalanceInv, RestBalance
<1>4. Scrubbed(tree', tree, {z})
  BY <1>2, <1>3, ScrubFacts
<1>5. \A m \in S : color'[m] = color[m]
  BY <1>2, <1>3 DEF ScrubColor
<1>6. \A f \in Side, m \in S : tree'.child[f][m] = tree.child[f][m]
  BY <1>3, <1>4 DEF Scrubbed
<1>7. Balanced(tree', color', S, NULL, "L", 0)
  BY <1>3, <1>5, <1>6, SameBalance
<1>8. tree'.root = tree.root /\ tree.root \in S \cup {NULL}
  <2>1. tree'.root = tree.root
    BY <1>4 DEF Scrubbed
  <2>2. tree.root \in S \cup {NULL}
    BY <1>3 DEF GoodTree, WellLinked
  <2> QED BY <2>1, <2>2
<1>9. Black(color', tree'.root)
  BY <1>3, <1>5, <1>8 DEF Black
<1> QED BY <1>2, <1>3, <1>7, <1>9 DEF BalanceInv, InsertBalance, EraseBalance, RestBalance

\* clear leaves no node (rb_tree.hpp:441-445).
LEMMA ClearBalance ==
  ASSUME IInv, BalanceInv, Clear
  PROVE  BalanceInv'
<1>1. /\ pc = "idle" /\ pc' = "idle" /\ live' = {}
      /\ tree' = SetRoot(Scrub(tree, live), NULL)
  BY DEF Clear
<1>2. tree'.root = NULL /\ Linked' = {}
  <2>1. tree \in Tree /\ live \in SUBSET Node
    BY DEF IInv, TypeOK
  <2>2. Scrub(tree, live) \in Tree /\ NULL \in NodeOrNull
    BY <2>1, ScrubFacts DEF Scrubbed, NodeOrNull
  <2>3. RootSet(tree', Scrub(tree, live), NULL)
    BY <2>2, <1>1, SetRootFacts
  <2> QED BY <2>3, <1>1 DEF RootSet, Linked
<1>3. Balanced(tree', color', {}, NULL, "L", 0) /\ Black(color', tree'.root)
  BY <1>2, NoNodesBalance
<1> QED BY <1>1, <1>2, <1>3 DEF BalanceInv, InsertBalance, EraseBalance, RestBalance

\* A default constructed tree has no node.
LEMMA InitBalance == Init => BalanceInv
<1> SUFFICES ASSUME Init PROVE BalanceInv
  OBVIOUS
<1>1. tree.root = NULL /\ Linked = {} /\ pc = "idle"
  BY DEF Init, Linked, EmptyTree
<1>2. Balanced(tree, color, {}, NULL, "L", 0) /\ Black(color, tree.root)
  BY <1>1, NoNodesBalance
<1> QED BY <1>1, <1>2 DEF BalanceInv, InsertBalance, EraseBalance, RestBalance

\* A step that changes no variable.
LEMMA StutterBalance ==
  ASSUME BalanceInv, UNCHANGED vars
  PROVE  BalanceInv'
<1>1. Linked' = Linked
  BY DEF vars, Linked
<1>2. BlackShort' = BlackShort /\ ShortSide' = ShortSide
  BY DEF vars, BlackShort, ShortSide
<1>3. InsertBalance'
  BY DEF vars, BalanceInv, InsertBalance
<1>4. EraseBalance'
  BY <1>1, <1>2 DEF vars, BalanceInv, EraseBalance
<1>5. RestBalance'
  BY <1>1 DEF vars, BalanceInv, RestBalance
<1> QED BY <1>3, <1>4, <1>5 DEF BalanceInv

\* Every step of the tree preserves the balance of its colours.
LEMMA NextBalance ==
  ASSUME IInv, BalanceInv, [Next]_vars, ~RhsFirst
  PROVE  BalanceInv'
<1>1. CASE \E n \in Node : InsertCall(n)
  BY <1>1, SearchStep DEF InsertCall, Linked
<1>2. CASE \E k \in Keys : EraseCall(k)
  BY <1>2, SearchStep DEF EraseCall, Linked
<1>3. CASE Clear
  BY <1>3, ClearBalance
<1>4. CASE Descend
  BY <1>4, SearchStep DEF Descend, Linked
<1>5. CASE Attach
  BY <1>5, AttachBalanceStep
<1>6. CASE AttachFails
  BY <1>6, SearchStep DEF AttachFails, Return, Linked
<1>7. CASE InsertRecolor \/ InsertRotate \/ InsertDone
  BY <1>7, InsertRecolorBalance, InsertRotateBalance, InsertDoneBalance
<1>8. CASE Find
  BY <1>8, SearchStep DEF Find, Linked
<1>9. CASE NotFound
  BY <1>9, SearchStep DEF NotFound, Return, Linked
<1>10. CASE SeekSuccessor
  BY <1>10, SearchStep DEF SeekSuccessor, Linked
<1>11. CASE GoLeft
  BY <1>11, SearchStep DEF GoLeft, Linked
<1>12. CASE SpliceOut \/ ReplaceBySuccessor
  BY <1>12, SpliceOutBalance, ReplaceBySuccessorBalance
<1>13. CASE EraseRecolor \/ EraseRotate \/ EraseDone \/ Delete
  BY <1>13, EraseRecolorBalance, EraseRotateBalance, EraseDoneBalance, DeleteBalance
<1>14. CASE UNCHANGED vars
  BY <1>14, StutterBalance
<1> QED BY <1>1, <1>2, <1>3, <1>4, <1>5, <1>6, <1>7, <1>8, <1>9, <1>10, <1>11,
           <1>12, <1>13, <1>14 DEF Next, Step

\* At every step of every call the colours have at most the one defect its loop
\* is about to repair.
THEOREM BalanceInvariance == ASSUME ~RhsFirst PROVE Spec => [](IInv /\ BalanceInv)
<1>1. Init => IInv /\ BalanceInv
  BY InitIInv, InitBalance
<1>2. IInv /\ BalanceInv /\ [Next]_vars => (IInv /\ BalanceInv)'
  BY NextStep, NextBalance
<1> QED BY <1>1, <1>2, PTL DEF Spec

\* erase_rebalance dereferences no null pointer: whenever its body runs, x has a
\* parent and a sibling, and where the near nephew is recoloured there is one.
THEOREM NoNullDereferenced == ASSUME ~RhsFirst PROVE Spec => []NoNullDereference
<1>1. ASSUME IInv, BalanceInv PROVE NoNullDereference
  <2> SUFFICES ASSUME pc = "erase_rebalance", BlackShort
               PROVE  /\ par \in Linked
                      /\ Sibling # NULL
                      /\ ~NephewsBlack /\ FarIsBlack => Tree1.child[ShortSide][Sibling] # NULL
    BY DEF NoNullDereference
  <2>1. Linked \in SUBSET Node /\ par \in Linked /\ Sibling \in Linked /\ ShortSide \in Side
    BY <1>1, ShortBalance
  <2>2. Sibling # NULL
    BY <2>1, NullAssumption
  <2>3. \A d \in Side : d = ShortSide \/ d = Opp(ShortSide)
    BY <2>1, SideFacts
  <2>4. ASSUME ~NephewsBlack, FarIsBlack
        PROVE  Tree1.child[ShortSide][Sibling] # NULL
    <3>1. PICK d \in Side : ~Black(Color1, Tree1.child[d][Sibling])
      BY <2>2, <2>4 DEF NephewsBlack
    <3>2. d = ShortSide
      BY <2>3, <2>4, <3>1 DEF FarIsBlack
    <3> QED BY <3>1, <3>2 DEF Black
  <2> QED BY <2>1, <2>2, <2>4
<1> QED BY <1>1, BalanceInvariance, PTL
-----------------------------------------------------------------------------
(***************************************************************************)
(* The nodes outside the tree.  A node that is not allocated holds null    *)
(* pointers, and the erased node, until it is deleted, the children it had *)
(* or what took their places.                                              *)
(***************************************************************************)
LooseLinks ==
  /\ \A n \in Node \ live, e \in Side : tree.child[e][n] = NULL
  /\ pc \in {"erase_rebalance", "delete"} =>
       \A e \in Side : tree.child[e][z] \in Linked \cup {NULL}

\* A rotation writes to nodes of the tree only.
LEMMA RotateFrame ==
  ASSUME NEW t, NEW S \in SUBSET Node, GoodTree(t, S), NEW n \in S, NEW d \in Side
  PROVE  \A m \in Node \ S, e \in Side : Rotate(t, n, d).child[e][m] = t.child[e][m]
<1>1. PICK o \in Side : o = Opp(d)
  BY SideFacts
<1>2. CASE t.child[o][n] = NULL
  BY <1>1, <1>2 DEF Rotate
<1>3. CASE t.child[o][n] # NULL
  <2>1. PICK pivot \in S : pivot = t.child[o][n]
    BY <1>1, <1>3, Neighbours
  <2>2. PICK inner \in NodeOrNull : inner = t.child[d][pivot]
    BY <2>1, Neighbours
  <2>3. PICK g \in S \cup {NULL} : g = t.parent[n]
    BY Neighbours
  <2>4. PICK s \in Side : s = SideOf(t, n)
    BY SlotFacts
  <2>5. t \in Tree /\ g \in NodeOrNull
    BY <2>3 DEF GoodTree, NodeOrNull
  <2>6. Rotated(Rotate(t, n, d), t, n, d, o, s, pivot, inner, g)
    BY <2>1, <2>2, <2>3, <2>4, <2>5, <1>1, RotateFacts
  <2> QED BY <2>1, <2>3, <2>6, NullAssumption DEF Rotated
<1> QED BY <1>2, <1>3

\* Nor does the store after it.
LEMMA StoreFrame ==
  ASSUME NEW t, NEW S \in SUBSET Node, GoodTree(t, S), NEW n \in S, NEW d \in Side, ~RhsFirst
  PROVE  \A m \in Node \ S, e \in Side :
           RotateAndStore(t, n, d).child[e][m] = t.child[e][m]
<1>1. PICK r : r = Rotate(t, n, d)
  OBVIOUS
<1>2. r \in Tree
  BY <1>1, RotateGood DEF GoodTree
<1>3. \A m \in Node \ S, e \in Side : r.child[e][m] = t.child[e][m]
  BY <1>1, RotateFrame
<1>4. PICK v \in NodeOrNull : v = Pivot(t, n, d)
  <2>1. Opp(d) \in Side
    BY SideFacts
  <2> QED BY <2>1, Neighbours DEF Pivot, NodeOrNull
<1>5. CASE t.parent[n] = NULL
  <2>1. RotateAndStore(t, n, d) = SetRoot(r, v)
    BY <1>1, <1>4, <1>5 DEF RotateAndStore
  <2> QED BY <2>1, <1>2, <1>3, <1>4, SetRootFacts DEF RootSet
<1>6. CASE t.parent[n] # NULL
  <2>1. PICK g \in S : g = t.parent[n]
    BY <1>6, Neighbours
  <2>2. PICK s \in Side : s = SideOf(t, n)
    BY SlotFacts
  <2>3. RotateAndStore(t, n, d) = SetChild(r, g, s, v)
    BY <2>1, <2>2, <1>1, <1>4, <1>6 DEF RotateAndStore
  <2>4. ChildSet(SetChild(r, g, s, v), r, g, s, v)
    BY <2>1, <1>2, <1>4, SetChildFacts
  <2> QED BY <2>1, <2>3, <2>4, <1>3 DEF ChildSet
<1> QED BY <1>5, <1>6

\* The links outside the tree after each step of insert.
LEMMA InsertLoose ==
  ASSUME IInv, LooseLinks, ~RhsFirst,
         Attach \/ InsertRecolor \/ InsertRotate \/ InsertDone
  PROVE  LooseLinks'
<1>1. CASE Attach
  <2>1. /\ live' = live \cup {z} /\ tree' = AttachLeaf(tree, z, par, side)
        /\ tree \in Tree /\ z \in Node \ live /\ par \in live \cup {NULL} /\ side \in Side
        /\ par \in NodeOrNull /\ par # z /\ live \in SUBSET Node
    BY <1>1, NullAssumption DEF Attach, IInv, TypeOK, InsertPointers
  <2>2. Attached(tree', tree, z, par, side)
    BY <2>1, AttachFacts
  <2>3. \A m \in Node \ live', e \in Side : tree'.child[e][m] = NULL
    BY <2>1, <2>2, NullAssumption DEF Attached, LooseLinks
  <2>4. pc' \in {"idle", "insert_rebalance"}
    BY <1>1 DEF Attach, Return
  <2> QED BY <2>3, <2>4 DEF LooseLinks
<1>2. CASE InsertRecolor \/ InsertDone
  <2>1. UNCHANGED <<tree, live>> /\ pc' \in {"idle", "insert_rebalance"}
    BY <1>2 DEF InsertRecolor, InsertDone, Return
  <2> QED BY <2>1 DEF LooseLinks
<1>3. CASE InsertRotate
  <2>1. PICK t1 : t1 = Straighten(tree, cur).t
    OBVIOUS
  <2>2. PICK g : g = Grandparent(tree, cur)
    OBVIOUS
  <2>3. PICK p : p = t1.parent[Straighten(tree, cur).node]
    OBVIOUS
  <2>4. PICK d : d = SideOf(t1, p)
    OBVIOUS
  <2>5. /\ tree' = t1 \/ tree' = RotateAndStore(t1, g, Opp(d))
        /\ UNCHANGED <<live, pc>> /\ pc = "insert_rebalance" /\ RedParent
    BY <2>1, <2>2, <2>3, <2>4, <1>3 DEF InsertRotate
  <2>6. /\ live \in SUBSET Node /\ GoodTree(tree, live)
        /\ tree.parent[cur] \in live /\ g \in live
    BY <2>2, <2>5, RedParentFacts
  <2>7. d \in Side /\ Opp(d) \in Side
    BY <2>4 DEF SideOf, Side, Opp
  <2>8. PICK d0 \in Side : d0 = SideOf(tree, tree.parent[cur])
    BY DEF SideOf, Side
  <2>9. t1 = tree \/ t1 = Rotate(tree, tree.parent[cur], d0)
    BY <2>1, <2>8 DEF Straighten
  <2>10. GoodTree(t1, live)
    BY <2>6, <2>8, <2>9, RotateGood
  <2>11. \A m \in Node \ live, e \in Side : t1.child[e][m] = tree.child[e][m]
    BY <2>6, <2>8, <2>9, RotateFrame
  <2>12. \A m \in Node \ live, e \in Side : tree'.child[e][m] = t1.child[e][m]
    BY <2>5, <2>6, <2>7, <2>10, StoreFrame
  <2> QED BY <2>5, <2>11, <2>12 DEF LooseLinks
<1> QED BY <1>1, <1>2, <1>3

\* The links outside the tree after a node is unlinked.
LEMMA UnlinkLoose ==
  ASSUME IInv, LooseLinks, SpliceOut \/ ReplaceBySuccessor
  PROVE  LooseLinks'
<1>1. CASE SpliceOut
  <2>1. /\ cur \in live /\ GoodTree(tree, live) /\ live \in SUBSET Node /\ tree \in Tree
        /\ UNCHANGED live /\ pc' \in {"erase_rebalance", "delete"} /\ z' = cur
    BY <1>1 DEF IInv, SearchPointers, SpliceOut, Linked, TypeOK, Unlinked
  <2>2. PICK x \in NodeOrNull : tree' = Transplant(tree, cur, x)
    <3>1. Left(tree, cur) \in NodeOrNull /\ Right(tree, cur) \in NodeOrNull
      BY <2>1, Neighbours DEF Left, Right, Side
    <3> QED BY <3>1, <1>1 DEF SpliceOut
  <2>3. Transplanted(tree', tree, cur, x)
    BY <2>1, <2>2, TransplantFacts
  <2>4. tree.parent[cur] \in live \cup {NULL} /\ tree.parent[cur] # cur
    BY <2>1, Neighbours, SlotFacts, NullAssumption
  <2>5. \A m \in Node \ live, e \in Side : tree'.child[e][m] = NULL
    BY <2>1, <2>3, <2>4, NullAssumption DEF Transplanted, LooseLinks
  <2>6. \A e \in Side : tree.child[e][cur] \in (live \ {cur}) \cup {NULL}
    BY <2>1, Neighbours, NoLoops
  <2>7. \A e \in Side : tree'.child[e][cur] = tree.child[e][cur]
    BY <2>1, <2>3, <2>4 DEF Transplanted
  <2>8. Linked' = live \ {cur}
    BY <2>1 DEF Linked
  <2> QED BY <2>1, <2>5, <2>6, <2>7, <2>8 DEF LooseLinks
<1>2. CASE ReplaceBySuccessor
  <2>1. PICK y : y = cur
    OBVIOUS
  <2>2. PICK t1 : t1 = IF tree.parent[y] = z THEN tree ELSE Detach(tree, y)
    OBVIOUS
  <2>3. /\ Linked = live /\ GoodTree(tree, live) /\ live \in SUBSET Node
        /\ y \in live /\ z \in live
        /\ Below(tree, live, y, z)
        /\ tree.parent[y] \in live
        /\ tree.parent[y] = z => y = Right(tree, z)
        /\ Left(tree, y) = NULL
        /\ UNCHANGED <<live, z>>
        /\ tree' = Inherit(Transplant(t1, z, y), y, "L")
        /\ pc' \in {"erase_rebalance", "delete"}
    BY <1>2, <2>1, <2>2
       DEF IInv, SearchPointers, ReplaceBySuccessor, Linked, TypeOK, Unlinked
  <2>4. y # z
    BY <2>3, BelowIsOther
  <2>5. Right(tree, y) # z
    <3>1. "R" \in Side /\ Right(tree, y) = tree.child["R"][y]
      BY DEF Side, Right
    <3>2. ASSUME Right(tree, y) # NULL PROVE Below(tree, live, Right(tree, y), z)
                                             /\ Right(tree, y) \in Node
      BY <3>1, <3>2, <2>3, Neighbours, ChildIsBelow
    <3> QED BY <3>2, <2>3, BelowIsOther, NullAssumption
  <2>6. /\ live \in SUBSET Node /\ GoodTree(tree, live) /\ z \in live
        /\ y \in live /\ y # z /\ Left(tree, y) = NULL /\ Right(tree, y) # z
        /\ tree.parent[y] \in live
        /\ tree.parent[y] = z => y = Right(tree, z)
    BY <2>3, <2>4, <2>5
  <2>7. LET r == Inherit(Transplant(IF tree.parent[y] = z THEN tree ELSE Detach(tree, y),
                                    z, y), y, "L")
        IN  /\ \A e \in Side : r.child[e][z] \in (live \ {z}) \cup {NULL}
            /\ \A e \in Side, m \in Node \ live : r.child[e][m] = tree.child[e][m]
    BY <2>6, SuccessorGood
  <2>8. /\ \A e \in Side : tree'.child[e][z] \in (live \ {z}) \cup {NULL}
        /\ \A e \in Side, m \in Node \ live : tree'.child[e][m] = tree.child[e][m]
    BY <2>2, <2>3, <2>7
  <2>9. Linked' = live \ {z}
    BY <2>3 DEF Linked
  <2> QED BY <2>3, <2>8, <2>9 DEF LooseLinks
<1> QED BY <1>1, <1>2

\* The links outside the tree after each step that follows the unlinking.
LEMMA EraseLoose ==
  ASSUME IInv, BalanceInv, LooseLinks,
         EraseRecolor \/ EraseRotate \/ EraseDone \/ Delete
  PROVE  LooseLinks'
<1>1. CASE EraseRecolor \/ EraseRotate
  <2>1. pc = "erase_rebalance" /\ BlackShort /\ UNCHANGED <<live, z>>
        /\ pc' \in {"erase_rebalance", "delete"}
    BY <1>1 DEF EraseRecolor, EraseRotate
  <2>2. /\ Linked \in SUBSET Node /\ par \in Linked /\ GoodTree(tree, Linked)
        /\ GoodTree(Tree1, Linked) /\ Sibling \in Linked
        /\ Linked = live \ {z} /\ z \in live /\ live \in SUBSET Node
    BY <2>1, ShortBalance DEF IInv, TypeOK, UnlinkPointers, Linked
  <2>3. ShortSide \in Side /\ Opp(ShortSide) \in Side
    BY DEF ShortSide, Side, Opp
  <2>4. \A m \in Node \ Linked, e \in Side : Tree1.child[e][m] = tree.child[e][m]
    BY <2>2, <2>3, RotateFrame DEF Tree1
  <2>5. Tree3 = Tree1 \/ Tree3 = Rotate(Tree1, Sibling, Opp(ShortSide))
    BY DEF Tree3
  <2>6. GoodTree(Tree3, Linked)
    BY <2>2, <2>3, <2>5, RotateGood
  <2>7. \A m \in Node \ Linked, e \in Side : Tree3.child[e][m] = Tree1.child[e][m]
    BY <2>2, <2>3, <2>5, RotateFrame
  <2>8. tree' = Tree1 \/ tree' = Rotate(Tree3, par, ShortSide)
    BY <1>1 DEF EraseRecolor, EraseRotate
  <2>9. \A m \in Node \ Linked, e \in Side :
          Rotate(Tree3, par, ShortSide).child[e][m] = Tree3.child[e][m]
    BY <2>2, <2>3, <2>6, RotateFrame
  <2>10. \A m \in Node \ Linked, e \in Side : tree'.child[e][m] = tree.child[e][m]
    BY <2>4, <2>7, <2>8, <2>9
  <2>11. Linked' = Linked
    BY <2>1 DEF Linked
  <2> QED BY <2>1, <2>2, <2>10, <2>11 DEF LooseLinks
<1>2. CASE EraseDone
  <2>1. UNCHANGED <<tree, live, z>> /\ pc = "erase_rebalance" /\ pc' = "delete"
    BY <1>2 DEF EraseDone
  <2>2. Linked' = Linked
    BY <2>1 DEF Linked
  <2> QED BY <2>1, <2>2 DEF LooseLinks
<1>3. CASE Delete
  <2>1. /\ pc' = "idle" /\ live' = live \ {z} /\ tree' = Scrub(tree, {z})
        /\ tree \in Tree /\ {z} \in SUBSET Node /\ live \in SUBSET Node
    BY <1>3 DEF Delete, Return, IInv, TypeOK, UnlinkPointers
  <2>2. Scrubbed(tree', tree, {z})
    BY <2>1, ScrubFacts
  <2>3. ASSUME NEW m \in Node \ live', NEW e \in Side
        PROVE  tree'.child[e][m] = NULL
    <3>1. tree'.child[e][m] = IF m = z THEN NULL ELSE tree.child[e][m]
      BY <2>2 DEF Scrubbed
    <3>2. m = z \/ m \in Node \ live
      BY <2>1
    <3> QED BY <3>1, <3>2 DEF LooseLinks
  <2> QED BY <2>1, <2>3 DEF LooseLinks
<1> QED BY <1>1, <1>2, <1>3

\* Every step keeps the links outside the tree.
LEMMA NextLoose ==
  ASSUME IInv, BalanceInv, LooseLinks, [Next]_vars, ~RhsFirst
  PROVE  LooseLinks'
<1>1. CASE Attach \/ InsertRecolor \/ InsertRotate \/ InsertDone
  BY <1>1, InsertLoose
<1>2. CASE SpliceOut \/ ReplaceBySuccessor
  BY <1>2, UnlinkLoose
<1>3. CASE EraseRecolor \/ EraseRotate \/ EraseDone \/ Delete
  BY <1>3, EraseLoose
<1>4. CASE Clear
  <2>1. /\ pc = "idle" /\ UNCHANGED pc /\ live' = {}
        /\ tree' = SetRoot(Scrub(tree, live), NULL)
        /\ tree \in Tree /\ live \in SUBSET Node
    BY <1>4 DEF Clear, IInv, TypeOK
  <2>2. Scrubbed(Scrub(tree, live), tree, live)
    BY <2>1, ScrubFacts
  <2>3. RootSet(tree', Scrub(tree, live), NULL)
    BY <2>1, <2>2, SetRootFacts DEF Scrubbed, NodeOrNull
  <2> QED BY <2>1, <2>2, <2>3 DEF Scrubbed, RootSet, LooseLinks
<1>5. CASE \/ \E n \in Node : InsertCall(n)
           \/ \E k \in Keys : EraseCall(k)
           \/ Descend \/ AttachFails \/ Find \/ NotFound \/ SeekSuccessor \/ GoLeft
  <2>1. UNCHANGED <<tree, live>> /\ pc' \notin {"erase_rebalance", "delete"}
    BY <1>5 DEF InsertCall, EraseCall, Descend, AttachFails, Find, NotFound, SeekSuccessor,
                GoLeft, Return
  <2> QED BY <2>1 DEF LooseLinks
<1>6. CASE UNCHANGED vars
  <2>1. Linked' = Linked
    BY <1>6 DEF vars, Linked
  <2> QED BY <2>1, <1>6 DEF vars, LooseLinks
<1> QED BY <1>1, <1>2, <1>3, <1>4, <1>5, <1>6 DEF Next, Step

\* The inductive invariant of links and colours.
TreeInv == IInv /\ BalanceInv /\ LooseLinks

\* Every state of every history satisfies it.
THEOREM TreeInvariance == ASSUME ~RhsFirst PROVE Spec => []TreeInv
<1>1. Init => TreeInv
  <2>1. Init => LooseLinks
    BY DEF Init, LooseLinks, EmptyTree
  <2> QED BY <2>1, InitIInv, InitBalance DEF TreeInv
<1>2. TreeInv /\ [Next]_vars => TreeInv'
  BY NextStep, NextBalance, NextLoose DEF TreeInv
<1> QED BY <1>1, <1>2, PTL DEF Spec
-----------------------------------------------------------------------------
(***************************************************************************)
(* rb_and_black_height, the check the class offers its tests, accepts a    *)
(* balanced tree.                                                          *)
(***************************************************************************)

\* One level of rb_and_black_height, with f for the levels below.
HeightBody(c, slot, short, f, x) ==
  LET extra(d)  == IF slot = <<x, d>> THEN short ELSE 0
      redred(d) == /\ slot # <<x, d>>
                   /\ ~Black(c, x)
                   /\ ~Black(c, tree.child[d][x])
      height(d) == f[tree.child[d][x]] + extra(d)
  IN  IF x = NULL THEN 1
      ELSE IF height("L") # height("R") \/ \E d \in Side : height(d) < 1 \/ redred(d)
      THEN -1
      ELSE height("L") + (IF Black(c, x) THEN 1 ELSE 0)

HeightMap(c, slot, short) ==
  CHOOSE f : f = [x \in NodeOrNull |-> HeightBody(c, slot, short, f, x)]

SolvesHeights(c, slot, short, f) ==
  \A x \in NodeOrNull : f[x] = HeightBody(c, slot, short, f, x)

\* rb_and_black_height is the function that satisfies its own recursion.
LEMMA BlackHeightIs ==
  ASSUME NEW c, NEW n, NEW slot, NEW short
  PROVE  BlackHeight(c, n, slot, short) = HeightMap(c, slot, short)[n]
BY DEF BlackHeight, HeightMap, HeightBody

\* If any function satisfies the recursion, the chosen one does.
LEMMA HeightMapExists ==
  ASSUME NEW c, NEW slot, NEW short, NEW g,
         g = [x \in NodeOrNull |-> HeightBody(c, slot, short, g, x)]
  PROVE  HeightMap(c, slot, short) =
           [x \in NodeOrNull |-> HeightBody(c, slot, short, HeightMap(c, slot, short), x)]
BY DEF HeightMap

\* One level gives the label of a balanced node if the levels below do.
LEMMA BodyIsLabel ==
  ASSUME NEW S \in SUBSET Node, GoodTree(tree, S), NEW c, NEW a, NEW e, NEW short \in Nat,
         NEW h \in [Node -> Nat], BalancedBy(tree, c, S, a, e, short, h),
         NEW x \in S, NEW f,
         \A d \in Side : f[tree.child[d][x]] = HeightOf(h, tree.child[d][x])
  PROVE  HeightBody(c, <<a, e>>, short, f, x) = h[x]
<1>1. \A d \in Side : <<a, e>> = <<x, d>> <=> x = a /\ d = e
  OBVIOUS
<1>2. x # NULL
  BY NullAssumption
<1> DEFINE slot == <<a, e>>
           extra(d)  == IF slot = <<x, d>> THEN short ELSE 0
           redred(d) == /\ slot # <<x, d>>
                        /\ ~Black(c, x)
                        /\ ~Black(c, tree.child[d][x])
           height(d) == f[tree.child[d][x]] + extra(d)
<1>3. ASSUME NEW d \in Side
      PROVE  /\ height(d) = h[x] - Blacks(c, x)
             /\ height(d) >= 1 /\ height(d) \in Nat
             /\ ~redred(d)
  <2>1. PICK y : y = tree.child[d][x]
    OBVIOUS
  <2>2. y \in S \cup {NULL}
    BY <2>1, Neighbours
  <2>3. /\ h[x] = HeightOf(h, y) + (IF x = a /\ d = e THEN short ELSE 0) + Blacks(c, x)
        /\ c[x] = "BLACK" \/ Black(c, y) \/ (x = a /\ d = e)
    BY <2>1 DEF BalancedBy
  <2>4. HeightOf(h, y) \in Nat /\ HeightOf(h, y) >= 1
    <3>1. \A n \in S : h[n] >= 1 /\ h[n] \in Nat
      BY DEF BalancedBy, Side
    <3> QED BY <3>1, <2>2 DEF HeightOf
  <2>5. extra(d) = (IF x = a /\ d = e THEN short ELSE 0) /\ extra(d) \in Nat
    BY <1>1
  <2>6. height(d) = HeightOf(h, y) + extra(d)
    BY <2>1
  <2>7. Blacks(c, x) \in Nat /\ h[x] \in Nat
    BY DEF Blacks
  <2>8. ~redred(d)
    BY <2>1, <2>3, <1>1 DEF Black
  <2> HIDE DEF extra, height, redred
  <2> QED BY <2>3, <2>4, <2>5, <2>6, <2>7, <2>8
<1>4. HeightBody(c, slot, short, f, x) =
        IF height("L") # height("R") \/ \E d \in Side : height(d) < 1 \/ redred(d)
        THEN -1 ELSE height("L") + Blacks(c, x)
  BY <1>2 DEF HeightBody, Black, Blacks
<1> HIDE DEF extra, height, redred
<1>5. "L" \in Side /\ "R" \in Side
  BY DEF Side
<1>6. height("L") = height("R") /\ ~\E d \in Side : height(d) < 1 \/ redred(d)
  BY <1>3, <1>5
<1>7. HeightBody(c, slot, short, f, x) = height("L") + Blacks(c, x)
  BY <1>4, <1>6
<1>8. height("L") + Blacks(c, x) = h[x]
  <2>1. Blacks(c, x) \in Nat /\ h[x] \in Nat
    BY DEF Blacks
  <2> QED BY <2>1, <1>3, <1>5
<1> QED BY <1>7, <1>8

\* The recursion has a solution, since the nodes outside the tree hold no
\* pointer but into it.
LEMMA HeightMapIsMap ==
  ASSUME NEW S \in SUBSET Node, GoodTree(tree, S),
         \A n \in Node \ S, d \in Side : tree.child[d][n] \in S \cup {NULL},
         NEW c, NEW a, NEW e, NEW short \in Nat,
         NEW h \in [Node -> Nat], BalancedBy(tree, c, S, a, e, short, h)
  PROVE  SolvesHeights(c, <<a, e>>, short, HeightMap(c, <<a, e>>, short))
<1> DEFINE slot == <<a, e>>
           g0 == [x \in NodeOrNull |-> HeightOf(h, x)]
           g  == [x \in NodeOrNull |-> IF x \in S \cup {NULL} THEN HeightOf(h, x)
                                       ELSE HeightBody(c, slot, short, g0, x)]
<1>1. \A n \in NodeOrNull, d \in Side : n # NULL => tree.child[d][n] \in S \cup {NULL}
  BY Neighbours DEF NodeOrNull
<1>2. \A x \in S \cup {NULL} : x \in NodeOrNull /\ g[x] = HeightOf(h, x) /\ g0[x] = g[x]
  BY DEF NodeOrNull
<1>3. ASSUME NEW x \in NodeOrNull
      PROVE  g[x] = HeightBody(c, slot, short, g, x)
  <2>1. CASE x = NULL
    <3>1. g[x] = 1
      BY <2>1, <1>2 DEF HeightOf
    <3> QED BY <3>1, <2>1 DEF HeightBody
  <2>2. CASE x \in S
    <3>1. \A d \in Side : g[tree.child[d][x]] = HeightOf(h, tree.child[d][x])
      <4>1. \A d \in Side : tree.child[d][x] \in S \cup {NULL}
        BY <2>2, Neighbours
      <4> HIDE DEF g
      <4> QED BY <4>1, <1>2
    <3>2. HeightBody(c, slot, short, g, x) = h[x]
      <4> HIDE DEF g
      <4> QED BY <2>2, <3>1, BodyIsLabel
    <3>3. g[x] = h[x]
      <4>1. x # NULL
        BY <2>2, NullAssumption
      <4> HIDE DEF g
      <4> QED BY <4>1, <2>2, <1>2 DEF HeightOf
    <3> QED BY <3>2, <3>3
  <2>3. CASE x \notin S \cup {NULL}
    <3>1. \A d \in Side : g[tree.child[d][x]] = g0[tree.child[d][x]]
      BY <2>3, <1>1, <1>2
    <3>2. g[x] = HeightBody(c, slot, short, g0, x)
      BY <2>3
    <3>3. HeightBody(c, slot, short, g0, x) = HeightBody(c, slot, short, g, x)
      <4> HIDE DEF g, g0, slot
      <4> QED BY <3>1, <2>3 DEF HeightBody, Side
    <3> QED BY <3>2, <3>3
  <2> QED BY <2>1, <2>2, <2>3
<1>4. g = [x \in NodeOrNull |-> g[x]]
  OBVIOUS
<1>5. g = [x \in NodeOrNull |-> HeightBody(c, slot, short, g, x)]
  <2> HIDE DEF g, slot
  <2> QED BY <1>3, <1>4
<1>6. HeightMap(c, slot, short) =
        [x \in NodeOrNull |-> HeightBody(c, slot, short, HeightMap(c, slot, short), x)]
  <2> HIDE DEF g, slot
  <2> QED BY <1>5, HeightMapExists
<1>7. SolvesHeights(c, slot, short, HeightMap(c, slot, short))
  <2> HIDE DEF slot
  <2>1. PICK m : m = HeightMap(c, slot, short)
    OBVIOUS
  <2>2. m = [x \in NodeOrNull |-> HeightBody(c, slot, short, m, x)]
    BY <2>1, <1>6
  <2>3. SolvesHeights(c, slot, short, m)
    BY <2>2 DEF SolvesHeights
  <2> QED BY <2>1, <2>3
<1> QED BY <1>7

\* On the nodes of the tree the solution is the labelling: a node of least rank
\* where they differ would have children where they agree.
LEMMA HeightIsLabel ==
  ASSUME NEW S \in SUBSET Node, GoodTree(tree, S),
         \A n \in Node \ S, d \in Side : tree.child[d][n] \in S \cup {NULL},
         NEW c \in [Node -> Color], NEW a, NEW e, NEW short \in Nat,
         NEW h \in [Node -> Nat], BalancedBy(tree, c, S, a, e, short, h),
         NEW n \in S \cup {NULL}
  PROVE  BlackHeight(c, n, <<a, e>>, short) = HeightOf(h, n)
<1>1. PICK f : f = HeightMap(c, <<a, e>>, short)
  OBVIOUS
<1>2. \A x \in NodeOrNull : f[x] = HeightBody(c, <<a, e>>, short, f, x)
  <2>1. SolvesHeights(c, <<a, e>>, short, HeightMap(c, <<a, e>>, short))
    BY HeightMapIsMap
  <2> QED BY <2>1, <1>1 DEF SolvesHeights
<1>3. f[NULL] = 1
  BY <1>2 DEF HeightBody, NodeOrNull
<1> DEFINE rank == [x \in Node |-> 3 * h[x] + (IF c[x] = "RED" THEN 1 ELSE 0)
                                   + (IF c[x] = "RED" /\ x = a THEN 1 ELSE 0)]
           T == {x \in S : f[x] # h[x]}
<1>4. rank \in [Node -> Nat]
  OBVIOUS
<1>5. ASSUME NEW x \in S, NEW d \in Side, NEW y \in S, y = tree.child[d][x]
      PROVE  rank[y] < rank[x]
  <2>1. y # NULL /\ y # x
    BY <1>5, NullAssumption, NoLoops
  <2>2. /\ h[x] = h[y] + (IF x = a /\ d = e THEN short ELSE 0) + Blacks(c, x)
        /\ c[x] = "BLACK" \/ c[y] = "BLACK" \/ (x = a /\ d = e)
    BY <2>1, <1>5 DEF BalancedBy, HeightOf, Black
  <2>3. h[x] \in Nat /\ h[y] \in Nat /\ c[x] \in Color /\ c[y] \in Color
    OBVIOUS
  <2>4. PICK more \in Nat : more = IF x = a /\ d = e THEN short ELSE 0
    OBVIOUS
  <2>5. /\ rank[x] = 3 * h[x] + (IF c[x] = "RED" THEN 1 ELSE 0)
                     + (IF c[x] = "RED" /\ x = a THEN 1 ELSE 0)
        /\ rank[y] = 3 * h[y] + (IF c[y] = "RED" THEN 1 ELSE 0)
                     + (IF c[y] = "RED" /\ y = a THEN 1 ELSE 0)
    OBVIOUS
  <2> HIDE DEF rank
  <2>6. CASE c[x] = "BLACK"
    <3>1. h[x] = h[y] + more + 1 /\ rank[x] = 3 * h[x] /\ rank[y] <= 3 * h[y] + 2
      BY <2>2, <2>3, <2>4, <2>5, <2>6 DEF Blacks
    <3> QED BY <3>1, <2>3, <2>4, <2>5
  <2>7. CASE c[x] = "RED"
    <3>1. h[x] = h[y] + more
      BY <2>2, <2>3, <2>4, <2>7 DEF Blacks
    <3>2. CASE c[y] = "BLACK"
      <4>1. rank[x] >= 3 * h[x] + 1 /\ rank[y] = 3 * h[y]
        BY <2>3, <2>5, <2>7, <3>2
      <4> QED BY <4>1, <3>1, <2>3, <2>4, <2>5
    <3>3. CASE c[y] = "RED"
      <4>1. x = a
        BY <2>2, <2>7, <3>3
      <4>2. y # a
        BY <4>1, <2>1
      <4>3. rank[x] = 3 * h[x] + 2 /\ rank[y] = 3 * h[y] + 1
        BY <4>1, <4>2, <2>3, <2>5, <2>7, <3>3
      <4> QED BY <4>3, <3>1, <2>3, <2>4
    <3> QED BY <3>2, <3>3, <2>3 DEF Color
  <2> QED BY <2>3, <2>6, <2>7 DEF Color
<1>6. T = {}
  <2> SUFFICES ASSUME T # {} PROVE FALSE
    OBVIOUS
  <2>1. PICK x \in T : \A y \in T : rank[y] >= rank[x]
    <3> HIDE DEF rank
    <3> QED BY <1>4, HighestNode
  <2>2. x \in S /\ f[x] # h[x] /\ x \in NodeOrNull
    BY DEF NodeOrNull
  <2>3. ASSUME NEW d \in Side
        PROVE  f[tree.child[d][x]] = HeightOf(h, tree.child[d][x])
    <3>1. PICK y \in S \cup {NULL} : y = tree.child[d][x]
      BY <2>2, Neighbours
    <3>2. CASE y = NULL
      BY <3>1, <3>2, <1>3 DEF HeightOf
    <3>3. CASE y \in S
      <4>1. rank[y] < rank[x]
        BY <3>1, <3>3, <2>2, <1>5
      <4>2. y \notin T
        <5>1. rank[x] \in Nat /\ rank[y] \in Nat
          BY <3>3, <2>2, <1>4
        <5> HIDE DEF rank
        <5> QED BY <4>1, <5>1, <2>1
      <4> QED BY <3>1, <3>3, <4>2, NullAssumption DEF HeightOf
    <3> QED BY <3>2, <3>3
  <2>4. HeightBody(c, <<a, e>>, short, f, x) = h[x]
    BY <2>2, <2>3, BodyIsLabel
  <2> QED BY <2>2, <2>4, <1>2
<1>7. f[n] = HeightOf(h, n)
  BY <1>3, <1>6, NullAssumption DEF HeightOf
<1> QED BY <1>1, <1>7, BlackHeightIs

\* A balanced tree with a black root passes the check, up to the same defect.
LEMMA BalancedPasses ==
  ASSUME NEW S \in SUBSET Node, GoodTree(tree, S),
         \A n \in Node \ S, d \in Side : tree.child[d][n] \in S \cup {NULL},
         NEW c \in [Node -> Color], NEW a, NEW e, NEW short \in Nat,
         Balanced(tree, c, S, a, e, short), Black(c, tree.root)
  PROVE  RedBlackBut(c, <<a, e>>, short)
<1>1. PICK h \in [Node -> Nat] : BalancedBy(tree, c, S, a, e, short, h)
  BY DEF Balanced
<1>2. tree.root \in S \cup {NULL}
  BY DEF GoodTree, WellLinked
<1>3. BlackHeight(c, tree.root, <<a, e>>, short) = HeightOf(h, tree.root)
  BY <1>1, <1>2, HeightIsLabel
<1>4. HeightOf(h, tree.root) \in Nat
  BY <1>2 DEF HeightOf
<1> QED BY <1>3, <1>4 DEF RedBlackBut

\* Every node that hangs not in the tree points into it or nowhere.
LEMMA OutsidePoints ==
  ASSUME TreeInv
  PROVE  /\ Linked \in SUBSET Node /\ GoodTree(tree, Linked)
         /\ color \in [Node -> Color]
         /\ \A n \in Node \ Linked, d \in Side : tree.child[d][n] \in Linked \cup {NULL}
<1>1. live \in SUBSET Node /\ GoodTree(tree, Linked) /\ color \in [Node -> Color]
  BY DEF TreeInv, IInv, TypeOK
<1>2. Linked \in SUBSET Node
  BY <1>1 DEF Linked
<1>3. ASSUME NEW n \in Node \ Linked, NEW d \in Side
      PROVE  tree.child[d][n] \in Linked \cup {NULL}
  <2>1. CASE n \notin live
    BY <2>1 DEF TreeInv, LooseLinks
  <2>2. CASE n \in live
    <3>1. pc \in {"erase_rebalance", "delete"} /\ n = z
      BY <2>2 DEF Linked
    <3> QED BY <3>1 DEF TreeInv, LooseLinks
  <2> QED BY <2>1, <2>2
<1> QED BY <1>1, <1>2, <1>3

\* Between two calls the tree passes is_rb_tree.
LEMMA RestPasses ==
  ASSUME TreeInv, pc = "idle"
  PROVE  IsRbTree
<1>1. Balanced(tree, color, Linked, NULL, "L", 0) /\ Black(color, tree.root)
  BY DEF TreeInv, BalanceInv, RestBalance
<1>2. RedBlackBut(color, <<NULL, "L">>, 0)
  BY <1>1, OutsidePoints, BalancedPasses
<1> QED BY <1>2 DEF IsRbTree, NoSlot

\* The argument behind the two rebalancing loops: before every iteration there
\* is one defect, and it is at cur.
THEOREM OneDefectHolds == ASSUME ~RhsFirst PROVE Spec => []OneDefect
<1>1. ASSUME TreeInv PROVE OneDefect
  <2>1. /\ Linked \in SUBSET Node /\ GoodTree(tree, Linked)
        /\ color \in [Node -> Color]
        /\ \A n \in Node \ Linked, d \in Side : tree.child[d][n] \in Linked \cup {NULL}
    BY <1>1, OutsidePoints
  <2>2. ASSUME pc = "insert_rebalance"
        PROVE  /\ ~Black(color, cur)
               /\ IF cur = tree.root THEN RedBlackBut(Blacken(color, cur), NoSlot, 0)
                  ELSE RedBlackBut(color, <<tree.parent[cur], SideOf(tree, cur)>>, 0)
    <3>1. /\ Linked = live /\ cur \in live /\ color[cur] = "RED"
          /\ Balanced(tree, color, Linked, tree.parent[cur], SideOf(tree, cur), 0)
          /\ cur # tree.root => Black(color, tree.root)
      BY <1>1, <2>2 DEF TreeInv, IInv, InsertPointers, BalanceInv, InsertBalance, Linked
    <3>2. ~Black(color, cur)
      BY <2>1, <3>1, NullAssumption DEF Black
    <3>3. CASE cur = tree.root
      <4>1. tree.parent[cur] \notin Linked
        BY <2>1, <3>1, <3>3, NullAssumption DEF GoodTree, WellLinked
      <4>2. Balanced(tree, color, Linked, NULL, "L", 0)
        BY <2>1, <3>1, <4>1, DropSlot
      <4>3. PICK c \in [Node -> Color] : c = Blacken(color, tree.root)
        BY <2>1, <3>1, <3>3, PaintFacts DEF NodeOrNull
      <4>4. Balanced(tree, c, Linked, NULL, "L", 0) /\ Black(c, tree.root)
        BY <2>1, <4>2, <4>3, RootBlacken
      <4>5. RedBlackBut(c, <<NULL, "L">>, 0)
        BY <2>1, <4>4, BalancedPasses
      <4> QED BY <3>2, <3>3, <4>3, <4>5 DEF NoSlot
    <3>4. CASE cur # tree.root
      <4>1. RedBlackBut(color, <<tree.parent[cur], SideOf(tree, cur)>>, 0)
        BY <2>1, <3>1, <3>4, BalancedPasses
      <4> QED BY <3>2, <3>4, <4>1
    <3> QED BY <3>3, <3>4
  <2>3. ASSUME pc = "erase_rebalance"
        PROVE  IF BlackShort THEN RedBlackBut(color, <<par, ShortSide>>, 1)
                             ELSE RedBlackBut(Blacken(color, cur), NoSlot, 0)
    <3>1. CASE BlackShort
      <4>1. Balanced(tree, color, Linked, par, ShortSide, 1) /\ Black(color, tree.root)
        BY <1>1, <2>3, <3>1 DEF TreeInv, BalanceInv, EraseBalance
      <4>2. RedBlackBut(color, <<par, ShortSide>>, 1)
        BY <2>1, <4>1, BalancedPasses
      <4> QED BY <3>1, <4>2
    <3>2. CASE ~BlackShort
      <4>1. PICK c \in [Node -> Color] : c = Blacken(color, cur)
        BY <1>1, <2>1, PaintFacts DEF TreeInv, IInv, TypeOK
      <4>2. Balanced(tree, c, Linked, NULL, "L", 0) /\ Black(c, tree.root)
        BY <1>1, <2>3, <3>2, <4>1 DEF TreeInv, BalanceInv, EraseBalance
      <4>3. RedBlackBut(c, <<NULL, "L">>, 0)
        BY <2>1, <4>2, BalancedPasses
      <4> QED BY <3>2, <4>1, <4>3 DEF NoSlot
    <3> QED BY <3>1, <3>2
  <2> QED BY <2>2, <2>3 DEF OneDefect
<1> QED BY <1>1, TreeInvariance, PTL
=============================================================================
