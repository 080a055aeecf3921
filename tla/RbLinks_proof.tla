---------------------------- MODULE RbLinks_proof ----------------------------
(***************************************************************************)
(* What the link operations of rb_tree preserve, for every set of nodes:   *)
(* applied to a tree they give a tree.                                     *)
(*                                                                         *)
(* The first half describes the result of every operation field by field   *)
(* (RootSet, ChildSet, ... state what an assignment changes and what it    *)
(* leaves).  The second half shows that the result is well linked.         *)
(***************************************************************************)
EXTENDS RbTree, WellFoundedInduction, TLAPS

RootSet(r, t, v) ==
  /\ r \in Tree
  /\ r.root = v
  /\ r.child = t.child
  /\ r.parent = t.parent

ChildSet(r, t, n, d, v) ==
  /\ r \in Tree
  /\ r.root = t.root
  /\ r.parent = t.parent
  /\ \A e \in Side, m \in Node :
       r.child[e][m] = IF e = d /\ m = n THEN v ELSE t.child[e][m]

ParentSet(r, t, n, v) ==
  /\ r \in Tree
  /\ r.root = t.root
  /\ r.child = t.child
  /\ \A m \in Node : r.parent[m] = IF m = n THEN v ELSE t.parent[m]

Replaced(r, t, u, v) ==
  /\ r \in Tree
  /\ r.parent = t.parent
  /\ r.root = (IF t.parent[u] = NULL THEN v ELSE t.root)
  /\ \A e \in Side, m \in Node :
       r.child[e][m] = IF m = t.parent[u] /\ e = SideOf(t, u) THEN v
                       ELSE t.child[e][m]

Transplanted(r, t, u, v) ==
  /\ r \in Tree
  /\ r.root = (IF t.parent[u] = NULL THEN v ELSE t.root)
  /\ \A e \in Side, m \in Node :
       r.child[e][m] = IF m = t.parent[u] /\ e = SideOf(t, u) THEN v
                       ELSE t.child[e][m]
  /\ \A m \in Node : r.parent[m] = IF m = v THEN t.parent[u] ELSE t.parent[m]

Rotated(r, t, n, d, o, s, pivot, inner, g) ==
  /\ r \in Tree
  /\ r.root = (IF g = NULL THEN pivot ELSE t.root)
  /\ \A e \in Side, m \in Node : r.child[e][m] =
         IF m = pivot /\ e = d THEN n
         ELSE IF m = n /\ e = o THEN inner
         ELSE IF m = g /\ e = s THEN pivot
         ELSE t.child[e][m]
  /\ \A m \in Node : r.parent[m] =
         IF m = n THEN pivot ELSE IF m = inner THEN n
         ELSE IF m = pivot THEN g ELSE t.parent[m]

\* The two sides and how Opp exchanges them.
LEMMA SideFacts ==
  \A d \in Side : /\ Opp(d) \in Side
                  /\ Opp(d) # d
                  /\ Opp(Opp(d)) = d
                  /\ \A e \in Side : e = d \/ e = Opp(d)
BY DEF Side, Opp

\* root = v writes the root only.
LEMMA SetRootFacts ==
  ASSUME NEW t \in Tree, NEW v \in NodeOrNull
  PROVE  RootSet(SetRoot(t, v), t, v)
BY DEF SetRoot, Tree, RootSet

\* n->left = v and n->right = v write one child field.
LEMMA SetChildFacts ==
  ASSUME NEW t \in Tree, NEW v \in NodeOrNull, NEW n \in Node, NEW d \in Side
  PROVE  ChildSet(SetChild(t, n, d, v), t, n, d, v)
BY DEF SetChild, Tree, ChildSet

\* n->parent = v writes one parent field.
LEMMA SetParentFacts ==
  ASSUME NEW t \in Tree, NEW v \in NodeOrNull, NEW n \in Node
  PROVE  ParentSet(SetParent(t, n, v), t, n, v)
BY DEF SetParent, Tree, ParentSet

\* `if (c) c->parent = p`: nullptr is no node, so nothing is written to it.
LEMMA AdoptFacts ==
  ASSUME NEW t \in Tree, NEW p \in NodeOrNull, NEW c \in NodeOrNull
  PROVE  ParentSet(Adopt(t, c, p), t, c, p)
<1>1. CASE c = NULL
  BY <1>1, NullAssumption DEF Adopt, ParentSet
<1>2. CASE c # NULL
  BY <1>2, SetParentFacts DEF Adopt, NodeOrNull
<1> QED BY <1>1, <1>2

\* The slot of u holds v afterwards.
LEMMA ReplaceChildFacts ==
  ASSUME NEW t \in Tree, NEW u \in Node, NEW v \in NodeOrNull
  PROVE  Replaced(ReplaceChild(t, u, v), t, u, v)
<1>1. PICK g \in NodeOrNull : g = t.parent[u]
  BY DEF Tree
<1>2. PICK s \in Side : s = SideOf(t, u)
  BY DEF SideOf, Side
<1>3. CASE g = NULL
  <2>1. RootSet(ReplaceChild(t, u, v), t, v)
    BY <1>1, <1>3, SetRootFacts DEF ReplaceChild
  <2> QED BY <2>1, <1>1, <1>3, NullAssumption DEF RootSet, Replaced
<1>4. CASE g # NULL
  <2>1. g \in Node
    BY <1>4 DEF NodeOrNull
  <2>2. ChildSet(SetChild(t, g, s, v), t, g, s, v)
    BY <2>1, SetChildFacts
  <2>3. ReplaceChild(t, u, v) = SetChild(t, g, s, v)
    BY <1>1, <1>2, <1>4 DEF ReplaceChild
  <2>4. ChildSet(ReplaceChild(t, u, v), t, g, s, v)
    BY <2>2, <2>3
  <2> QED BY <2>4, <1>1, <1>2, <1>4 DEF ChildSet, Replaced
<1> QED BY <1>3, <1>4

\* transplant: the slot of u holds v, and v points to the parent of u.
LEMMA TransplantFacts ==
  ASSUME NEW t \in Tree, NEW u \in Node, NEW v \in NodeOrNull
  PROVE  Transplanted(Transplant(t, u, v), t, u, v)
<1>1. PICK g \in NodeOrNull : g = t.parent[u]
  BY DEF Tree
<1>2. PICK r : r = ReplaceChild(t, u, v)
  OBVIOUS
<1>3. Replaced(r, t, u, v)
  BY <1>2, ReplaceChildFacts
<1>4. ParentSet(Transplant(t, u, v), r, v, g)
  <2>1. r \in Tree
    BY <1>3 DEF Replaced
  <2> QED BY <2>1, <1>1, <1>2, AdoptFacts DEF Transplant
<1> QED BY <1>1, <1>3, <1>4 DEF Replaced, ParentSet, Transplanted

\* rotate_left and rotate_right: six fields change.
LEMMA RotateFacts ==
  ASSUME NEW t \in Tree, NEW n \in Node, NEW d \in Side,
         NEW o \in Side, o = Opp(d), NEW s \in Side, s = SideOf(t, n),
         NEW pivot \in Node, pivot = t.child[o][n],
         NEW inner \in NodeOrNull, inner = t.child[d][pivot],
         NEW g \in NodeOrNull, g = t.parent[n]
  PROVE  Rotated(Rotate(t, n, d), t, n, d, o, s, pivot, inner, g)
<1>0. /\ pivot \in NodeOrNull
      /\ n \in NodeOrNull
      /\ pivot # NULL
  BY NullAssumption DEF NodeOrNull
<1> DEFINE t1 == Transplant(t, n, pivot)
           t2 == SetChild(t1, n, o, inner)
           t3 == Adopt(t2, inner, n)
           t4 == SetChild(t3, pivot, d, n)
           t5 == SetParent(t4, n, pivot)
<1>1. Transplanted(t1, t, n, pivot)
  BY <1>0, TransplantFacts
<1>2. ChildSet(t2, t1, n, o, inner)
  <2>1. t1 \in Tree
    BY <1>1 DEF Transplanted
  <2> QED BY <2>1, SetChildFacts
<1>3. ParentSet(t3, t2, inner, n)
  <2>1. t2 \in Tree
    BY <1>2 DEF ChildSet
  <2> QED BY <2>1, <1>0, AdoptFacts
<1>4. ChildSet(t4, t3, pivot, d, n)
  <2>1. t3 \in Tree
    BY <1>3 DEF ParentSet
  <2> QED BY <2>1, <1>0, SetChildFacts
<1>5. ParentSet(t5, t4, n, pivot)
  <2>1. t4 \in Tree
    BY <1>4 DEF ChildSet
  <2> QED BY <2>1, <1>0, SetParentFacts
<1>6. Rotate(t, n, d) = t5
  BY <1>0 DEF Rotate
<1> HIDE DEF t1, t2, t3, t4, t5
<1>7. Rotated(t5, t, n, d, o, s, pivot, inner, g)
  BY <1>1, <1>2, <1>3, <1>4, <1>5 DEF Transplanted, ChildSet, ParentSet, Rotated
<1> QED BY <1>6, <1>7
-----------------------------------------------------------------------------
\* f numbers the nodes downwards: every child has a greater number than its
\* parent, so the links have no cycle.
LayeredBy(t, S, f) ==
  \A n \in S, d \in Side : t.child[d][n] # NULL => f[t.child[d][n]] > f[n]

GoodTree(t, S) == /\ t \in Tree
                  /\ WellLinked(t, S)
                  /\ \E f \in [Node -> Nat] : LayeredBy(t, S, f)

\* The neighbours of a node of a tree are nodes of the tree.
LEMMA Neighbours ==
  ASSUME NEW t, NEW S \in SUBSET Node, GoodTree(t, S), NEW n \in S
  PROVE  /\ t.parent[n] \in NodeOrNull
         /\ t.parent[n] # NULL => t.parent[n] \in S
         /\ n # t.root => t.parent[n] \in S
         /\ t.parent[n] = NULL => n = t.root
         /\ \A d \in Side : /\ t.child[d][n] \in NodeOrNull
                            /\ t.child[d][n] # NULL =>
                                 t.child[d][n] \in S /\ t.parent[t.child[d][n]] = n
         /\ t.root \in NodeOrNull
         /\ t.root \in S
BY NullAssumption DEF GoodTree, WellLinked, Tree, NodeOrNull

\* A node of the tree hangs in one slot.
LEMMA UniqueSlot ==
  ASSUME NEW t, NEW S \in SUBSET Node, GoodTree(t, S),
         NEW m \in S, NEW e \in Side, NEW n \in S, NEW d \in Side,
         t.child[e][m] = t.child[d][n], t.child[e][m] # NULL
  PROVE  m = n /\ e = d
<1>1. m = n
  BY Neighbours
<1>2. t.child[e][m] # t.child[Opp(e)][m]
  BY DEF GoodTree, WellLinked
<1> QED BY <1>1, <1>2, SideFacts

\* Trees with equal fields, for the nodes of S, are equally good.
LEMMA SameFields ==
  ASSUME NEW t, NEW S \in SUBSET Node, GoodTree(t, S), NEW r \in Tree,
         r.root = t.root,
         \A d \in Side, n \in S : r.child[d][n] = t.child[d][n],
         \A n \in S : r.parent[n] = t.parent[n]
  PROVE  GoodTree(r, S)
<1>1. PICK f \in [Node -> Nat] : LayeredBy(t, S, f)
  BY DEF GoodTree
<1>2. WellLinked(t, S)
  BY DEF GoodTree
<1>3. WellLinked(r, S)
  <2>1. IF r.root = NULL THEN S = {} ELSE r.root \in S /\ r.parent[r.root] = NULL
    BY <1>2 DEF WellLinked
  <2>2. ASSUME NEW n \in S, NEW d \in Side, r.child[d][n] # NULL
        PROVE  /\ r.child[d][n] \in S
               /\ r.parent[r.child[d][n]] = n
               /\ r.child[d][n] # r.child[Opp(d)][n]
    BY <1>2, <2>2, SideFacts DEF WellLinked
  <2>3. ASSUME NEW n \in S \ {r.root}
        PROVE  /\ r.parent[n] \in S
               /\ \E d \in Side : r.child[d][r.parent[n]] = n
    BY <1>2, <2>3 DEF WellLinked
  <2> QED BY <2>1, <2>2, <2>3 DEF WellLinked
<1>4. LayeredBy(r, S, f)
  BY <1>1 DEF LayeredBy
<1> QED BY <1>3, <1>4 DEF GoodTree

\* The slot a node hangs in: the root, or the field SideOf names of its parent.
LEMMA SlotFacts ==
  ASSUME NEW t, NEW S \in SUBSET Node, GoodTree(t, S), NEW n \in S
  PROVE  /\ SideOf(t, n) \in Side
         /\ t.parent[n] # NULL =>
              /\ t.parent[n] \in S
              /\ t.child[SideOf(t, n)][t.parent[n]] = n
              /\ n # t.root
              /\ t.parent[n] # n
<1>1. SideOf(t, n) \in Side
  BY DEF SideOf, Side
<1>2. ASSUME t.parent[n] # NULL
      PROVE  /\ t.parent[n] \in S
             /\ t.child[SideOf(t, n)][t.parent[n]] = n
             /\ n # t.root
             /\ t.parent[n] # n
  <2>1. t.parent[n] \in S
    BY <1>2, Neighbours
  <2>2. n # t.root
    BY <1>2, NullAssumption DEF GoodTree, WellLinked
  <2>3. PICK e \in Side : t.child[e][t.parent[n]] = n
    BY <2>2 DEF GoodTree, WellLinked
  <2>4. t.parent[n] # n
    <3>1. PICK f \in [Node -> Nat] : LayeredBy(t, S, f)
      BY DEF GoodTree
    <3>2. n # NULL /\ f[n] \in Nat
      BY NullAssumption
    <3> QED BY <2>1, <2>3, <3>1, <3>2 DEF LayeredBy
  <2> QED BY <2>1, <2>2, <2>3, <2>4 DEF SideOf, Side, Left
<1> QED BY <1>1, <1>2

\* A rotation, about a node of the tree and to either side, gives a tree.
LEMMA RotateGood ==
  ASSUME NEW t, NEW S \in SUBSET Node, GoodTree(t, S), NEW n \in S, NEW d \in Side
  PROVE  GoodTree(Rotate(t, n, d), S)
<1>1. t \in Tree /\ WellLinked(t, S)
  BY DEF GoodTree
<1>2. PICK f \in [Node -> Nat] : LayeredBy(t, S, f)
  BY DEF GoodTree
<1>3. PICK o \in Side : o = Opp(d)
  BY SideFacts
<1>4. CASE t.child[o][n] = NULL
  BY <1>3, <1>4 DEF Rotate
<1>5. CASE t.child[o][n] # NULL
  <2>1. PICK pivot \in S : pivot = t.child[o][n]
    BY <1>5, Neighbours
  <2>2. PICK inner \in NodeOrNull : inner = t.child[d][pivot]
    BY <2>1, Neighbours
  <2>3. PICK g \in NodeOrNull : g = t.parent[n]
    BY Neighbours
  <2>4. PICK s \in Side : s = SideOf(t, n)
    BY DEF SideOf, Side
  <2>5. PICK r : r = Rotate(t, n, d)
    OBVIOUS
  <2>6. Rotated(r, t, n, d, o, s, pivot, inner, g)
    BY <1>1, <1>3, <2>1, <2>2, <2>3, <2>4, <2>5, RotateFacts
  <2>7. /\ t.parent[pivot] = n
        /\ inner # NULL => inner \in S /\ t.parent[inner] = pivot
        /\ g # NULL => g \in S /\ t.child[s][g] = n
    <3>1. t.parent[pivot] = n
      BY <2>1, <1>5, Neighbours
    <3>2. inner # NULL => inner \in S /\ t.parent[inner] = pivot
      BY <2>2, Neighbours
    <3>3. ASSUME g # NULL PROVE g \in S /\ t.child[s][g] = n
      <4>1. g \in S
        BY <2>3, <3>3, Neighbours
      <4>2. n # t.root
        BY <1>1, <2>3, <3>3, NullAssumption DEF WellLinked
      <4>3. PICK e \in Side : t.child[e][g] = n
        BY <1>1, <2>3, <4>2 DEF WellLinked
      <4> QED BY <2>3, <2>4, <4>1, <4>3 DEF SideOf, Side, Left
    <3> QED BY <3>1, <3>2, <3>3
  <2>8. /\ f[n] \in Nat /\ f[pivot] \in Nat /\ f[pivot] > f[n]
        /\ inner # NULL => f[inner] \in Nat /\ f[inner] > f[pivot]
        /\ g # NULL => f[g] \in Nat /\ f[g] < f[n]
    BY <1>2, <1>5, <2>1, <2>2, <2>7, <1>3, NullAssumption DEF LayeredBy
  <2>9. g # n /\ g # pivot /\ n # pivot /\ inner # n /\ inner # pivot /\ (inner # NULL => inner # g)
    BY <2>8, <2>1, NullAssumption
  <2>10. WellLinked(r, S)
    <3>1. IF r.root = NULL THEN S = {} ELSE r.root \in S /\ r.parent[r.root] = NULL
      BY <1>1, <2>1, <2>3, <2>6, <2>7, <2>9, NullAssumption DEF WellLinked, Rotated
    <3>2. ASSUME NEW m \in S, NEW e \in Side, r.child[e][m] # NULL
          PROVE  /\ r.child[e][m] \in S
                 /\ r.parent[r.child[e][m]] = m
                 /\ r.child[e][m] # r.child[Opp(e)][m]
      <4> DEFINE c == r.child[e][m]
                 c2 == r.child[Opp(e)][m]
      <4>1. Opp(e) \in Side /\ Opp(e) # e /\ Opp(Opp(e)) = e /\ Opp(d) = o /\ Opp(o) = d /\ o # d
        BY <1>3, SideFacts
      <4>2. CASE m = pivot /\ e = d
        <5>1. c = n /\ c2 = t.child[o][pivot]
          BY <4>1, <4>2, <2>6, <2>9 DEF Rotated
        <5>2. c2 # n
          BY <5>1, <2>3, <2>9, Neighbours, NullAssumption
        <5> QED BY <5>1, <5>2, <4>2, <2>6, <2>9 DEF Rotated
      <4>3. CASE m = n /\ e = o
        <5>1. c = inner /\ c2 = t.child[d][n]
          BY <4>1, <4>3, <2>6, <2>9, <2>7, NullAssumption DEF Rotated
        <5>2. inner \in S
          BY <5>1, <3>2, <2>7
        <5>3. t.child[d][n] # NULL => t.parent[t.child[d][n]] = n
          BY Neighbours
        <5>4. c2 # inner
          BY <5>1, <5>2, <5>3, <2>7, <2>9, NullAssumption
        <5> QED BY <5>1, <5>2, <5>4, <4>3, <2>6, <2>9 DEF Rotated
      <4>4. CASE m = g /\ e = s
        <5>1. c = pivot /\ c2 = t.child[Opp(s)][g] /\ g \in S
          BY <4>1, <4>4, <2>6, <2>9 DEF Rotated
        <5>2. Opp(s) \in Side
          BY SideFacts
        <5>3. t.child[Opp(s)][g] # NULL => t.parent[t.child[Opp(s)][g]] = g
          BY <5>1, <5>2, Neighbours
        <5>4. c2 # pivot
          BY <5>1, <5>3, <2>7, <2>9, NullAssumption
        <5> QED BY <5>1, <5>4, <4>4, <2>6, <2>9 DEF Rotated
      <4>5. CASE ~(m = pivot /\ e = d) /\ ~(m = n /\ e = o) /\ ~(m = g /\ e = s)
        <5>1. c = t.child[e][m]
          BY <4>5, <2>6 DEF Rotated
        <5>2. c \in S /\ t.parent[c] = m /\ c # t.child[Opp(e)][m]
          BY <5>1, <3>2, <1>1 DEF WellLinked
        <5>3. c # n
          <6> SUFFICES ASSUME c = n PROVE FALSE
            OBVIOUS
          <6>1. g = m /\ g # NULL
            BY <5>2, <2>3, NullAssumption
          <6> QED BY <5>1, <6>1, <4>5, <2>7, <3>2, UniqueSlot
        <5>4. c # pivot
          BY <5>1, <5>2, <4>5, <2>1, <2>7, <3>2, UniqueSlot
        <5>5. c # inner
          BY <5>1, <5>2, <4>5, <2>1, <2>2, <2>7, <3>2, UniqueSlot
        <5>6. r.parent[c] = m
          BY <5>2, <5>3, <5>4, <5>5, <2>6 DEF Rotated
        <5>7. c2 \in {n, inner, pivot, t.child[Opp(e)][m]}
          BY <4>1, <2>6 DEF Rotated
        <5> QED BY <5>2, <5>3, <5>4, <5>5, <5>6, <5>7
      <4> QED BY <4>2, <4>3, <4>4, <4>5
    <3>3. ASSUME NEW m \in S \ {r.root}
          PROVE  /\ r.parent[m] \in S
                 /\ \E e \in Side : r.child[e][r.parent[m]] = m
      <4>1. /\ t.root # NULL /\ t.root \in S /\ t.parent[t.root] = NULL
            /\ g = NULL <=> n = t.root
            /\ d \in Side /\ o \in Side /\ o # d /\ n # NULL /\ pivot # NULL
        BY <1>1, <1>3, <2>3, <2>7, NullAssumption, SideFacts DEF WellLinked
      <4>2. CASE m = n
        <5>1. r.parent[m] = pivot /\ r.child[d][pivot] = n
          BY <4>1, <4>2, <2>1, <2>6 DEF Rotated
        <5> QED BY <5>1, <4>1, <4>2, <2>1
      <4>3. CASE m = pivot
        <5>1. g # NULL
          BY <4>3, <3>3, <2>6 DEF Rotated
        <5>2. r.parent[m] = g /\ r.child[s][g] = pivot
          BY <5>1, <4>1, <4>3, <2>1, <2>3, <2>4, <2>6, <2>7, <2>9 DEF Rotated
        <5> QED BY <5>1, <5>2, <4>3, <2>4, <2>7
      <4>4. CASE m = inner /\ m # n /\ m # pivot
        <5>1. r.parent[m] = n /\ r.child[o][n] = inner
          BY <4>1, <4>4, <2>1, <2>6, <2>9 DEF Rotated
        <5> QED BY <5>1, <4>1, <4>4
      <4>5. CASE m \notin {n, pivot, inner}
        <5>1. m # t.root
          BY <4>1, <4>5, <3>3, <2>6 DEF Rotated
        <5>2. PICK q \in S : q = t.parent[m]
          BY <5>1, <1>1, <3>3 DEF WellLinked
        <5>3. PICK e \in Side : t.child[e][q] = m
          BY <5>1, <5>2, <1>1, <3>3 DEF WellLinked
        <5>4. r.parent[m] = q
          BY <5>2, <4>5, <2>6 DEF Rotated
        <5>5. ~(q = pivot /\ e = d) /\ ~(q = n /\ e = o) /\ ~(q = g /\ e = s)
          BY <5>3, <4>5, <1>3, <2>1, <2>2, <2>7, NullAssumption
        <5>6. r.child[e][q] = m
          BY <5>3, <5>5, <2>6 DEF Rotated
        <5> QED BY <5>2, <5>4, <5>6
      <4> QED BY <4>2, <4>3, <4>4, <4>5
    <3> QED BY <3>1, <3>2, <3>3 DEF WellLinked
  <2>11. \E h \in [Node -> Nat] : LayeredBy(r, S, h)
    <3> DEFINE h == [m \in Node |-> IF m = n THEN 3 * f[n] + 1
                                    ELSE IF m = pivot THEN 3 * f[n] ELSE 3 * f[m]]
    <3>1. h \in [Node -> Nat]
      BY <2>8
    <3>2. ASSUME NEW m \in S, NEW e \in Side, r.child[e][m] # NULL
          PROVE  h[r.child[e][m]] > h[m]
      <4>1. PICK c \in S : c = r.child[e][m]
        BY <2>10, <3>2 DEF WellLinked
      <4>2. CASE m = pivot /\ e = d
        BY <4>1, <4>2, <2>6, <2>8, <2>9 DEF Rotated
      <4>3. CASE m = n /\ e = o
        <5>1. c = inner
          BY <4>1, <4>3, <2>6, <2>9 DEF Rotated
        <5> QED BY <5>1, <4>1, <4>3, <3>2, <2>8, <2>9
      <4>4. CASE m = g /\ e = s
        <5>1. c = pivot /\ g \in S
          BY <4>1, <4>4, <2>6, <2>9 DEF Rotated
        <5> QED BY <5>1, <4>1, <4>4, <2>8, <2>9, NullAssumption
      <4>5. CASE ~(m = pivot /\ e = d) /\ ~(m = n /\ e = o) /\ ~(m = g /\ e = s)
        <5>1. c = t.child[e][m] /\ t.child[e][m] # NULL
          BY <4>1, <4>5, <2>6, <3>2 DEF Rotated
        <5>2. f[c] \in Nat /\ f[m] \in Nat /\ f[c] > f[m]
          BY <5>1, <1>2 DEF LayeredBy
        <5>3. c # n
          <6> SUFFICES ASSUME c = n PROVE FALSE
            OBVIOUS
          <6>1. t.parent[c] = m
            BY SMTT(30), <5>1, Neighbours
          <6>2. g = m /\ g # NULL
            BY <6>1, <2>3, NullAssumption
          <6> QED BY <5>1, <6>2, <4>5, <2>7, UniqueSlot
        <5>4. c # pivot
          BY <5>1, <4>5, <2>1, UniqueSlot
        <5> QED BY <5>2, <5>3, <5>4, <4>1, <2>8, <2>9
      <4> QED BY <4>2, <4>3, <4>4, <4>5
    <3> QED BY <3>1, <3>2 DEF LayeredBy
  <2> QED BY <2>5, <2>6, <2>10, <2>11 DEF GoodTree, Rotated
<1> QED BY <1>4, <1>5
-----------------------------------------------------------------------------
\* Any set of nodes has one that no other is above.
LEMMA HighestNode ==
  ASSUME NEW f \in [Node -> Nat], NEW T \in SUBSET Node, T # {}
  PROVE  \E n \in T : \A m \in T : f[m] >= f[n]
<1> DEFINE V == {f[n] : n \in T}
<1>1. V \subseteq Nat /\ V # {}
  OBVIOUS
<1>2. \E v \in V : \A w \in V : ~(<<w, v>> \in OpToRel(<, Nat))
  <2> HIDE DEF V
  <2> QED BY <1>1, NatLessThanWellFounded, WFMin
<1>3. PICK n \in T : \A m \in T : ~(<<f[m], f[n]>> \in OpToRel(<, Nat))
  BY <1>2
<1>4. \A m \in T : ~(f[m] < f[n])
  BY <1>3 DEF OpToRel
<1>5. \A m \in T : f[m] \in Nat /\ f[n] \in Nat
  OBVIOUS
<1> QED BY <1>4, <1>5

\* Nodes of a tree without its root hang below a node that is not among them.
LEMMA TopOfSubset ==
  ASSUME NEW t, NEW S \in SUBSET Node, GoodTree(t, S),
         NEW T \in SUBSET S, T # {}, t.root \notin T
  PROVE  \E n \in T : t.parent[n] \in S \ T
<1>1. PICK f \in [Node -> Nat] : LayeredBy(t, S, f)
  BY DEF GoodTree
<1>2. PICK n \in T : \A m \in T : f[m] >= f[n]
  BY <1>1, HighestNode
<1>3. t.parent[n] \in S /\ t.parent[n] # NULL
  BY Neighbours, NullAssumption
<1>4. t.child[SideOf(t, n)][t.parent[n]] = n /\ SideOf(t, n) \in Side
  BY <1>3, SlotFacts
<1>5. f[n] > f[t.parent[n]] /\ f[n] \in Nat /\ f[t.parent[n]] \in Nat
  BY <1>1, <1>3, <1>4, NullAssumption DEF LayeredBy
<1>6. t.parent[n] \notin T
  BY <1>2, <1>5
<1> QED BY <1>3, <1>6

\* Unlinking a node that has at most one child: the child takes its place.
LEMMA SpliceGood ==
  ASSUME NEW t, NEW S \in SUBSET Node, GoodTree(t, S), NEW u \in S,
         NEW d \in Side, t.child[Opp(d)][u] = NULL
  PROVE  /\ GoodTree(Transplant(t, u, t.child[d][u]), S \ {u})
         /\ t.parent[u] = NULL =>
              Transplant(t, u, t.child[d][u]).root = t.child[d][u]
<1>1. t \in Tree /\ WellLinked(t, S)
  BY DEF GoodTree
<1>2. PICK f \in [Node -> Nat] : LayeredBy(t, S, f)
  BY DEF GoodTree
<1>3. PICK x \in NodeOrNull : x = t.child[d][u]
  BY Neighbours
<1>4. PICK g \in NodeOrNull : g = t.parent[u]
  BY Neighbours
<1>5. PICK s \in Side : s = SideOf(t, u)
  BY SlotFacts
<1>6. PICK r : r = Transplant(t, u, x)
  OBVIOUS
<1>7. /\ r \in Tree
      /\ r.root = (IF g = NULL THEN x ELSE t.root)
      /\ \A e \in Side, m \in Node :
           r.child[e][m] = IF m = g /\ e = s THEN x ELSE t.child[e][m]
      /\ \A m \in Node : r.parent[m] = IF m = x THEN g ELSE t.parent[m]
  <2>1. Transplanted(r, t, u, x)
    BY <1>1, <1>3, <1>6, TransplantFacts
  <2> QED BY <2>1, <1>4, <1>5 DEF Transplanted
<1>8. g # NULL => g \in S /\ t.child[s][g] = u /\ u # t.root /\ g # u
  BY <1>4, <1>5, SlotFacts
<1>9. /\ x # NULL => x \in S /\ t.parent[x] = u /\ x # u
      /\ \A e \in Side : t.child[e][u] # NULL => t.child[e][u] = x
  <2>1. x # NULL => x \in S /\ t.parent[x] = u
    BY <1>3, Neighbours
  <2>2. x # NULL => x # u
    BY <2>1, SlotFacts, NullAssumption
  <2>3. \A e \in Side : e = d \/ e = Opp(d)
    BY SideFacts
  <2> QED BY <2>1, <2>2, <2>3, <1>3
<1>10. \A m \in S \ {u} : t.parent[m] = u => m = x
  <2>1. ASSUME NEW m \in S \ {u}, t.parent[m] = u PROVE m = x
    <3>1. m # NULL /\ t.parent[m] # NULL
      BY <2>1, NullAssumption
    <3>2. t.child[SideOf(t, m)][u] = m /\ SideOf(t, m) \in Side
      BY <2>1, <3>1, SlotFacts
    <3> QED BY <3>1, <3>2, <1>9
  <2> QED BY <2>1
<1>11. WellLinked(r, S \ {u})
  <2>1. IF r.root = NULL THEN S \ {u} = {}
        ELSE r.root \in S \ {u} /\ r.parent[r.root] = NULL
    <3>1. CASE g # NULL
      <4>1. r.root = t.root /\ t.root \in S \ {u} /\ t.parent[t.root] = NULL
        BY <3>1, <1>1, <1>7, <1>8, NullAssumption DEF WellLinked
      <4>2. t.root # x
        BY <4>1, <1>9, NullAssumption
      <4> QED BY <4>1, <4>2, <1>7, NullAssumption
    <3>2. CASE g = NULL
      <4>1. u = t.root
        BY <3>2, <1>4, Neighbours
      <4>2. CASE x # NULL
        BY <4>2, <3>2, <1>7, <1>9
      <4>3. CASE x = NULL
        <5>1. \A m \in S \ {u} : t.parent[m] # u
          BY <4>3, <1>10, NullAssumption
        <5>2. S \ {u} = {}
          <6> SUFFICES ASSUME S \ {u} # {} PROVE FALSE
            OBVIOUS
          <6>1. PICK T \in SUBSET S : T = S \ {u}
            OBVIOUS
          <6>2. \E m \in T : t.parent[m] \in S \ T
            BY <6>1, <4>1, TopOfSubset
          <6> QED BY <6>1, <6>2, <5>1
        <5> QED BY <5>2, <4>3, <3>2, <1>7
      <4> QED BY <4>2, <4>3
    <3> QED BY <3>1, <3>2
  <2>2. ASSUME NEW m \in S \ {u}, NEW e \in Side, r.child[e][m] # NULL
        PROVE  /\ r.child[e][m] \in S \ {u}
               /\ r.parent[r.child[e][m]] = m
               /\ r.child[e][m] # r.child[Opp(e)][m]
    <3> DEFINE c2 == r.child[Opp(e)][m]
    <3>1. PICK c : c = r.child[e][m]
      OBVIOUS
    <3>2. Opp(e) \in Side /\ Opp(e) # e
      BY SideFacts
    <3>3. CASE m = g /\ e = s
      <4>1. c = x /\ x # NULL /\ x \in S \ {u} /\ r.parent[c] = m
        BY <2>2, <3>1, <3>3, <1>7, <1>9
      <4>2. c2 = t.child[Opp(e)][m]
        BY <3>2, <3>3, <1>7
      <4>3. c2 # NULL => t.parent[c2] = g
        BY <4>2, <3>2, <3>3, Neighbours
      <4>4. c2 # x
        BY <4>1, <4>3, <1>8, <1>9, <3>3, NullAssumption
      <4> QED BY <3>1, <4>1, <4>4
    <3>4. CASE ~(m = g /\ e = s)
      <4>1. c = t.child[e][m] /\ c # NULL
        BY <2>2, <3>1, <3>4, <1>7
      <4>2. c \in S /\ t.parent[c] = m /\ c # t.child[Opp(e)][m]
        BY <4>1, <1>1 DEF WellLinked
      <4>3. c # u
        <5> SUFFICES ASSUME c = u PROVE FALSE
          OBVIOUS
        <5>1. g = m /\ g # NULL
          BY <4>2, <1>4, NullAssumption
        <5> QED BY <5>1, <4>1, <3>4, <1>8, UniqueSlot
      <4>4. c # x
        BY <4>1, <4>2, <1>9
      <4>5. c2 \in {x, t.child[Opp(e)][m]}
        BY <3>2, <1>7
      <4> QED BY <3>1, <4>2, <4>3, <4>4, <4>5, <1>7
    <3> QED BY <3>3, <3>4
  <2>3. ASSUME NEW m \in S \ {u}, m # r.root
        PROVE  /\ r.parent[m] \in S \ {u}
               /\ \E e \in Side : r.child[e][r.parent[m]] = m
    <3>1. CASE m = x
      <4>1. g # NULL
        BY <2>3, <3>1, <1>7
      <4> QED BY <4>1, <3>1, <1>7, <1>8
    <3>2. CASE m # x
      <4>1. m # t.root
        <5>1. CASE g = NULL
          BY <5>1, <1>4, Neighbours
        <5>2. CASE g # NULL
          BY <5>2, <2>3, <1>7
        <5> QED BY <5>1, <5>2
      <4>2. PICK e \in Side : t.child[e][t.parent[m]] = m
        BY <4>1, <1>1 DEF WellLinked
      <4>3. t.parent[m] \in S \ {u}
        BY <4>1, <3>2, <1>10, Neighbours
      <4>4. ~(t.parent[m] = g /\ e = s)
        BY <4>2, <1>8, <4>3, NullAssumption
      <4> QED BY <4>2, <4>3, <4>4, <3>2, <1>7
    <3> QED BY <3>1, <3>2
  <2> QED BY <2>1, <2>2, <2>3 DEF WellLinked
<1>12. LayeredBy(r, S \ {u}, f)
  <2>1. ASSUME NEW m \in S \ {u}, NEW e \in Side, r.child[e][m] # NULL
        PROVE  f[r.child[e][m]] > f[m]
    <3>1. CASE m = g /\ e = s
      <4>1. r.child[e][m] = x /\ x # NULL
        BY <2>1, <3>1, <1>7
      <4>2. f[x] > f[u]
        BY <4>1, <1>2, <1>3 DEF LayeredBy
      <4>3. f[u] > f[m]
        BY <3>1, <1>2, <1>8, NullAssumption DEF LayeredBy
      <4>4. f[x] \in Nat /\ f[u] \in Nat /\ f[m] \in Nat
        BY <4>1, <1>2, <1>9
      <4> QED BY <4>1, <4>2, <4>3, <4>4
    <3>2. CASE ~(m = g /\ e = s)
      BY <2>1, <3>2, <1>2, <1>7 DEF LayeredBy
    <3> QED BY <3>1, <3>2
  <2> QED BY <2>1 DEF LayeredBy
<1> QED BY <1>2, <1>3, <1>4, <1>6, <1>7, <1>11, <1>12 DEF GoodTree

\* `g->parent->left = rotate(g)` and its siblings, when the assigned field is
\* evaluated first: the store repeats what the rotation has written.
LEMMA StoreGood ==
  ASSUME NEW t, NEW S \in SUBSET Node, GoodTree(t, S), NEW n \in S,
         NEW d \in Side, ~RhsFirst
  PROVE  GoodTree(RotateAndStore(t, n, d), S)
<1>1. t \in Tree
  BY DEF GoodTree
<1>2. PICK o \in Side : o = Opp(d)
  BY SideFacts
<1>3. PICK g \in NodeOrNull : g = t.parent[n]
  BY Neighbours
<1>4. PICK s \in Side : s = SideOf(t, n)
  BY SlotFacts
<1>5. g # NULL => g \in S /\ t.child[s][g] = n /\ g # n
  BY <1>3, <1>4, SlotFacts
<1>6. PICK r : r = Rotate(t, n, d)
  OBVIOUS
<1>7. GoodTree(r, S) /\ r \in Tree
  BY <1>6, RotateGood DEF GoodTree
<1>8. PICK p : p = Pivot(t, n, d)
  OBVIOUS
<1>9. /\ p \in Node
      /\ g = NULL => r.root = p
      /\ g # NULL => r.child[s][g] = p
  <2>1. CASE t.child[o][n] = NULL
    <3>1. p = n /\ r = t
      BY <2>1, <1>2, <1>6, <1>8 DEF Pivot, Rotate
    <3> QED BY <3>1, <1>3, <1>5, Neighbours
  <2>2. CASE t.child[o][n] # NULL
    <3>1. p = t.child[o][n] /\ p \in S
      BY <2>2, <1>2, <1>8, Neighbours DEF Pivot
    <3>2. PICK inner \in NodeOrNull : inner = t.child[d][p]
      BY <3>1, Neighbours
    <3>3. Rotated(r, t, n, d, o, s, p, inner, g)
      BY <1>1, <1>2, <1>3, <1>4, <1>6, <3>1, <3>2, RotateFacts
    <3>4. g # p
      <4> SUFFICES ASSUME g = p PROVE FALSE
        OBVIOUS
      <4>1. t.parent[g] = n /\ g # NULL
        BY SMTT(30), <3>1, <2>2, Neighbours
      <4>2. PICK f \in [Node -> Nat] : LayeredBy(t, S, f)
        BY DEF GoodTree
      <4>3. f[n] > f[g]
        BY <4>1, <4>2, <1>5, NullAssumption DEF LayeredBy
      <4>4. f[g] > f[n]
        BY <4>2, <3>1, <2>2 DEF LayeredBy
      <4> QED BY <4>2, <4>3, <4>4, <3>1
    <3> QED BY <3>1, <3>3, <3>4, <1>5 DEF Rotated
  <2> QED BY <2>1, <2>2
<1>10. p \in NodeOrNull
  BY <1>9 DEF NodeOrNull
<1>11. CASE g = NULL
  <2>1. PICK q : q = SetRoot(r, p)
    OBVIOUS
  <2>2. RootSet(q, r, p)
    BY <2>1, <1>7, <1>10, SetRootFacts
  <2>3. GoodTree(q, S)
    BY <2>2, <1>7, <1>9, <1>11, SameFields DEF RootSet
  <2>4. RotateAndStore(t, n, d) = q
    BY <2>1, <1>3, <1>6, <1>8, <1>11 DEF RotateAndStore
  <2> QED BY <2>3, <2>4
<1>12. CASE g # NULL
  <2>1. PICK q : q = SetChild(r, g, s, p)
    OBVIOUS
  <2>2. ChildSet(q, r, g, s, p)
    BY <2>1, <1>5, <1>7, <1>10, <1>12, SetChildFacts
  <2>3. GoodTree(q, S)
    <3>1. q \in Tree /\ q.root = r.root /\ q.parent = r.parent
      BY <2>2 DEF ChildSet
    <3>2. \A e \in Side, m \in S : q.child[e][m] = r.child[e][m]
      BY <2>2, <1>9, <1>12 DEF ChildSet
    <3> QED BY <3>1, <3>2, <1>7, SameFields
  <2>4. RotateAndStore(t, n, d) = q
    BY <2>1, <1>3, <1>4, <1>6, <1>8, <1>12 DEF RotateAndStore
  <2> QED BY <2>3, <2>4
<1> QED BY <1>11, <1>12

\* The pieces of AttachLeaf, field by field.
Attached(r, t, n, p, d) ==
  /\ r \in Tree
  /\ r.root = (IF p = NULL THEN n ELSE t.root)
  /\ \A e \in Side, m \in Node :
       r.child[e][m] = IF m = n THEN NULL
                       ELSE IF m = p /\ e = d THEN n ELSE t.child[e][m]
  /\ \A m \in Node : r.parent[m] = IF m = n THEN p ELSE t.parent[m]

\* What the tail of insert (rb_tree.hpp:475-491) writes, link by link.
LEMMA AttachFacts ==
  ASSUME NEW t \in Tree, NEW n \in Node, NEW p \in NodeOrNull, p # n, NEW d \in Side
  PROVE  Attached(AttachLeaf(t, n, p, d), t, n, p, d)
<1> DEFINE t1 == SetChild(t, n, "L", NULL)
           t2 == SetChild(t1, n, "R", NULL)
           t3 == SetParent(t2, n, p)
<1>0. NULL \in NodeOrNull /\ n \in NodeOrNull /\ "L" \in Side /\ "R" \in Side
  BY DEF NodeOrNull, Side
<1>1. ChildSet(t1, t, n, "L", NULL)
  BY <1>0, SetChildFacts
<1>2. ChildSet(t2, t1, n, "R", NULL)
  <2>1. t1 \in Tree
    BY <1>1 DEF ChildSet
  <2> QED BY <2>1, <1>0, SetChildFacts
<1>3. ParentSet(t3, t2, n, p)
  <2>1. t2 \in Tree
    BY <1>2 DEF ChildSet
  <2> QED BY <2>1, SetParentFacts
<1>4. CASE p = NULL
  <2>1. RootSet(SetRoot(t3, n), t3, n)
    BY <1>0, <1>3, SetRootFacts DEF ParentSet
  <2>2. AttachLeaf(t, n, p, d) = SetRoot(t3, n)
    BY <1>4 DEF AttachLeaf
  <2> HIDE DEF t1, t2, t3
  <2> QED BY <2>1, <2>2, <1>1, <1>2, <1>3, <1>4, NullAssumption
          DEF RootSet, ChildSet, ParentSet, Attached, Side
<1>5. CASE p # NULL
  <2>1. ChildSet(SetChild(t3, p, d, n), t3, p, d, n)
    <3>1. p \in Node /\ t3 \in Tree
      BY <1>3, <1>5 DEF ParentSet, NodeOrNull
    <3> QED BY <3>1, <1>0, SetChildFacts
  <2>2. AttachLeaf(t, n, p, d) = SetChild(t3, p, d, n)
    BY <1>5 DEF AttachLeaf
  <2> HIDE DEF t1, t2, t3
  <2> QED BY <2>1, <2>2, <1>1, <1>2, <1>3, <1>5 DEF ChildSet, ParentSet, Attached, Side
<1> QED BY <1>4, <1>5

\* A fresh node in an empty slot (the root of an empty tree, or an empty
\* child field of a node of the tree) gives a tree.
LEMMA AttachGood ==
  ASSUME NEW t, NEW S \in SUBSET Node, GoodTree(t, S), NEW n \in Node \ S,
         NEW p \in S \cup {NULL}, NEW d \in Side,
         IF p = NULL THEN t.root = NULL ELSE t.child[d][p] = NULL
  PROVE  GoodTree(AttachLeaf(t, n, p, d), S \cup {n})
<1>1. t \in Tree /\ WellLinked(t, S)
  BY DEF GoodTree
<1>2. PICK f \in [Node -> Nat] : LayeredBy(t, S, f)
  BY DEF GoodTree
<1>3. PICK r : r = AttachLeaf(t, n, p, d)
  OBVIOUS
<1>4. Attached(r, t, n, p, d)
  <2>1. p \in NodeOrNull /\ p # n
    BY NullAssumption DEF NodeOrNull
  <2> QED BY <2>1, <1>1, <1>3, AttachFacts
<1>5. n # NULL /\ n \notin S /\ p # n
  BY NullAssumption
<1>6. p = NULL => S = {}
  BY <1>1 DEF WellLinked
<1>7. WellLinked(r, S \cup {n})
  <2>1. IF r.root = NULL THEN S \cup {n} = {}
        ELSE r.root \in S \cup {n} /\ r.parent[r.root] = NULL
    BY <1>1, <1>4, <1>5, <1>6 DEF Attached, WellLinked
  <2>2. ASSUME NEW m \in S \cup {n}, NEW e \in Side, r.child[e][m] # NULL
        PROVE  /\ r.child[e][m] \in S \cup {n}
               /\ r.parent[r.child[e][m]] = m
               /\ r.child[e][m] # r.child[Opp(e)][m]
    <3>1. m # n
      BY <2>2, <1>4 DEF Attached
    <3>2. Opp(e) \in Side /\ Opp(e) # e
      BY SideFacts
    <3>3. CASE m = p /\ e = d
      <4>1. r.child[e][m] = n /\ r.child[Opp(e)][m] = t.child[Opp(e)][m]
        BY <3>1, <3>2, <3>3, <1>4 DEF Attached
      <4>2. t.child[Opp(e)][m] # n
        BY <3>1, <3>2, <1>1, <1>5 DEF WellLinked
      <4> QED BY <4>1, <4>2, <3>3, <1>4 DEF Attached
    <3>4. CASE ~(m = p /\ e = d)
      <4>1. r.child[e][m] = t.child[e][m]
        BY <3>1, <3>4, <1>4 DEF Attached
      <4>2. t.child[e][m] \in S /\ t.parent[t.child[e][m]] = m
            /\ t.child[e][m] # t.child[Opp(e)][m]
        BY <4>1, <3>1, <2>2, <1>1 DEF WellLinked
      <4>3. r.child[Opp(e)][m] \in {n, t.child[Opp(e)][m]}
        BY <3>1, <3>2, <1>4 DEF Attached
      <4> QED BY <4>1, <4>2, <4>3, <1>4, <1>5 DEF Attached
    <3> QED BY <3>3, <3>4
  <2>3. ASSUME NEW m \in (S \cup {n}) \ {r.root}
        PROVE  /\ r.parent[m] \in S \cup {n}
               /\ \E e \in Side : r.child[e][r.parent[m]] = m
    <3>1. p # NULL /\ r.root = t.root
      BY <2>3, <1>4, <1>6 DEF Attached
    <3>2. CASE m = n
      BY <3>1, <3>2, <1>4, <1>5 DEF Attached
    <3>3. CASE m # n
      <4>1. m \in S \ {t.root}
        BY <3>1, <3>3, <2>3
      <4>2. PICK e \in Side : t.child[e][t.parent[m]] = m /\ t.parent[m] \in S
        BY <4>1, <1>1 DEF WellLinked
      <4>3. ~(t.parent[m] = p /\ e = d)
        BY <4>1, <4>2, <3>1, NullAssumption
      <4> QED BY <4>1, <4>2, <4>3, <1>4, <1>5 DEF Attached
    <3> QED BY <3>2, <3>3
  <2> QED BY <2>1, <2>2, <2>3 DEF WellLinked
<1>8. \E h \in [Node -> Nat] : LayeredBy(r, S \cup {n}, h)
  <2> DEFINE h == [m \in Node |-> IF m = n /\ p # NULL THEN f[p] + 1 ELSE f[m]]
  <2>1. h \in [Node -> Nat]
    BY NullAssumption
  <2>2. ASSUME NEW m \in S \cup {n}, NEW e \in Side, r.child[e][m] # NULL
        PROVE  h[r.child[e][m]] > h[m]
    <3>1. m # n
      BY <2>2, <1>4 DEF Attached
    <3>2. CASE m = p /\ e = d
      BY <3>1, <3>2, <1>4, NullAssumption DEF Attached
    <3>3. CASE ~(m = p /\ e = d)
      <4>1. r.child[e][m] = t.child[e][m]
        BY <3>1, <3>3, <1>4 DEF Attached
      <4>2. t.child[e][m] \in S
        BY <4>1, <3>1, <2>2, <1>1 DEF WellLinked
      <4> QED BY <4>1, <4>2, <3>1, <2>2, <1>2 DEF LayeredBy
    <3> QED BY <3>2, <3>3
  <2> QED BY <2>1, <2>2 DEF LayeredBy
<1> QED BY <1>3, <1>4, <1>7, <1>8 DEF GoodTree, Attached

\* y has the place u has in q, and u is gone.
Renamed(r, q, u, y, S) ==
  /\ r \in Tree
  /\ r.root = (IF q.root = u THEN y ELSE q.root)
  /\ \A e \in Side : r.child[e][y] = q.child[e][u]
  /\ \A e \in Side, m \in S \ {u} :
       r.child[e][m] = IF q.child[e][m] = u THEN y ELSE q.child[e][m]
  /\ r.parent[y] = q.parent[u]
  /\ \A m \in S \ {u} : r.parent[m] = IF q.parent[m] = u THEN y ELSE q.parent[m]

\* A node put in the place of another one gives a tree.
LEMMA RenameGood ==
  ASSUME NEW q, NEW S \in SUBSET Node, GoodTree(q, S), NEW u \in S,
         NEW y \in Node \ S, NEW r, Renamed(r, q, u, y, S)
  PROVE  GoodTree(r, (S \ {u}) \cup {y})
<1> DEFINE T == (S \ {u}) \cup {y}
<1>1. q \in Tree /\ WellLinked(q, S)
  BY DEF GoodTree
<1>2. PICK f \in [Node -> Nat] : LayeredBy(q, S, f)
  BY DEF GoodTree
<1>3. \A e \in Side : q.child[e][u] # NULL =>
                       q.child[e][u] \in S /\ q.child[e][u] # u
  BY <1>2, Neighbours, NullAssumption DEF LayeredBy
<1>4. y # NULL /\ y # u /\ y \notin S /\ u # NULL
  BY NullAssumption
<1>5. WellLinked(r, T)
  <2>1. IF r.root = NULL THEN T = {} ELSE r.root \in T /\ r.parent[r.root] = NULL
    <3>1. q.root \in S /\ q.parent[q.root] = NULL /\ q.root # NULL
      BY <1>1, Neighbours, NullAssumption DEF WellLinked
    <3>2. CASE q.root = u
      BY <3>1, <3>2, <1>4 DEF Renamed
    <3>3. CASE q.root # u
      BY <3>1, <3>3, <1>4 DEF Renamed
    <3> QED BY <3>2, <3>3
  <2>2. ASSUME NEW m \in T, NEW e \in Side, r.child[e][m] # NULL
        PROVE  /\ r.child[e][m] \in T
               /\ r.parent[r.child[e][m]] = m
               /\ r.child[e][m] # r.child[Opp(e)][m]
    <3>1. Opp(e) \in Side
      BY SideFacts
    <3>2. CASE m = y
      <4>1. r.child[e][m] = q.child[e][u] /\ r.child[Opp(e)][m] = q.child[Opp(e)][u]
        BY <3>1, <3>2 DEF Renamed
      <4>2. q.child[e][u] \in S \ {u} /\ q.parent[q.child[e][u]] = u
            /\ q.child[e][u] # q.child[Opp(e)][u]
        BY <4>1, <2>2, <1>1, <1>3 DEF WellLinked
      <4> QED BY <4>1, <4>2, <3>2 DEF Renamed
    <3>3. CASE m # y
      <4>1. m \in S \ {u}
        BY <3>3
      <4>2. /\ r.child[e][m] = IF q.child[e][m] = u THEN y ELSE q.child[e][m]
            /\ r.child[Opp(e)][m] = IF q.child[Opp(e)][m] = u THEN y ELSE q.child[Opp(e)][m]
        BY <4>1, <3>1 DEF Renamed
      <4>3. q.child[e][m] # NULL
        BY <4>2, <2>2, <1>4
      <4>4. q.child[e][m] \in S /\ q.parent[q.child[e][m]] = m
            /\ q.child[e][m] # q.child[Opp(e)][m]
        BY <4>1, <4>3, <1>1 DEF WellLinked
      <4>5. q.child[Opp(e)][m] # y
        BY <4>1, <3>1, <1>1, <1>4 DEF WellLinked
      <4>6. CASE q.child[e][m] = u
        BY <4>1, <4>2, <4>4, <4>5, <4>6, <1>4 DEF Renamed
      <4>7. CASE q.child[e][m] # u
        BY <4>1, <4>2, <4>4, <4>5, <4>7, <1>4 DEF Renamed
      <4> QED BY <4>6, <4>7
    <3> QED BY <3>2, <3>3
  <2>3. ASSUME NEW m \in T \ {r.root}
        PROVE  /\ r.parent[m] \in T
               /\ \E e \in Side : r.child[e][r.parent[m]] = m
    <3>1. CASE m = y
      <4>1. u # q.root /\ r.parent[m] = q.parent[u]
        BY <3>1, <2>3 DEF Renamed
      <4>2. PICK e \in Side : q.child[e][q.parent[u]] = u /\ q.parent[u] \in S
        BY <4>1, <1>1 DEF WellLinked
      <4>3. q.parent[u] # u
        BY <4>2, <1>3, <1>4
      <4> QED BY <4>1, <4>2, <4>3, <3>1 DEF Renamed
    <3>2. CASE m # y
      <4>1. m \in S \ {q.root} /\ m # u
        BY <3>2, <2>3 DEF Renamed
      <4>2. PICK e \in Side : q.child[e][q.parent[m]] = m /\ q.parent[m] \in S
        BY <4>1, <1>1 DEF WellLinked
      <4>3. CASE q.parent[m] = u
        BY <4>1, <4>2, <4>3 DEF Renamed
      <4>4. CASE q.parent[m] # u
        BY <4>1, <4>2, <4>4 DEF Renamed
      <4> QED BY <4>3, <4>4
    <3> QED BY <3>1, <3>2
  <2> QED BY <2>1, <2>2, <2>3 DEF WellLinked
<1>6. \E h \in [Node -> Nat] : LayeredBy(r, T, h)
  <2> DEFINE h == [m \in Node |-> IF m = y THEN f[u] ELSE f[m]]
  <2>1. h \in [Node -> Nat]
    OBVIOUS
  <2>2. ASSUME NEW m \in T, NEW e \in Side, r.child[e][m] # NULL
        PROVE  h[r.child[e][m]] > h[m]
    <3>1. CASE m = y
      <4>1. r.child[e][m] = q.child[e][u]
        BY <3>1 DEF Renamed
      <4>2. q.child[e][u] \in S
        BY <4>1, <2>2, <1>3
      <4> QED BY <4>1, <4>2, <3>1, <2>2, <1>2, <1>4 DEF LayeredBy
    <3>2. CASE m # y
      <4>1. m \in S \ {u}
        BY <3>2
      <4>2. r.child[e][m] = IF q.child[e][m] = u THEN y ELSE q.child[e][m]
        BY <4>1 DEF Renamed
      <4>3. q.child[e][m] # NULL
        BY <4>2, <2>2, <1>4
      <4>4. q.child[e][m] \in S
        BY <4>1, <4>3, <1>1 DEF WellLinked
      <4>5. f[q.child[e][m]] > f[m]
        BY <4>1, <4>3, <1>2 DEF LayeredBy
      <4>6. CASE q.child[e][m] = u
        BY <4>1, <4>2, <4>5, <4>6, <1>4
      <4>7. CASE q.child[e][m] # u
        BY <4>1, <4>2, <4>4, <4>5, <4>7, <1>4
      <4> QED BY <4>6, <4>7
    <3> QED BY <3>1, <3>2
  <2> QED BY <2>1, <2>2 DEF LayeredBy
<1> QED BY <1>5, <1>6 DEF GoodTree, Renamed

Scrubbed(r, t, D) ==
  /\ r \in Tree
  /\ r.root = t.root
  /\ \A e \in Side, m \in Node : r.child[e][m] = IF m \in D THEN NULL ELSE t.child[e][m]
  /\ \A m \in Node : r.parent[m] = IF m \in D THEN NULL ELSE t.parent[m]

\* Deleting the nodes of D makes their fields null and writes no other field.
LEMMA ScrubFacts ==
  ASSUME NEW t \in Tree, NEW D \in SUBSET Node
  PROVE  Scrubbed(Scrub(t, D), t, D)
<1> DEFINE c == [e \in Side |-> [m \in Node |-> IF m \in D THEN NULL ELSE t.child[e][m]]]
           p == [m \in Node |-> IF m \in D THEN NULL ELSE t.parent[m]]
<1>1. PICK r : r = Scrub(t, D)
  OBVIOUS
<1>2. c \in [Side -> [Node -> NodeOrNull]] /\ p \in [Node -> NodeOrNull]
  BY DEF Tree, NodeOrNull
<1>3. r = [t EXCEPT !.child = c, !.parent = p]
  BY <1>1 DEF Scrub
<1>4. r \in Tree /\ r.root = t.root /\ r.child = c /\ r.parent = p
  <2> HIDE DEF c, p
  <2> QED BY <1>2, <1>3 DEF Tree
<1> QED BY <1>1, <1>4 DEF Scrubbed

\* What a deleted node holds is no part of the tree.
LEMMA ScrubGood ==
  ASSUME NEW t, NEW S \in SUBSET Node, GoodTree(t, S), NEW D \in SUBSET Node,
         D \cap S = {}
  PROVE  GoodTree(Scrub(t, D), S)
<1>1. Scrubbed(Scrub(t, D), t, D)
  BY ScrubFacts DEF GoodTree
<1>2. PICK r : r = Scrub(t, D)
  OBVIOUS
<1>3. /\ r \in Tree
      /\ r.root = t.root
      /\ \A e \in Side, m \in S : r.child[e][m] = t.child[e][m]
      /\ \A m \in S : r.parent[m] = t.parent[m]
  BY <1>1, <1>2 DEF Scrubbed
<1> QED BY <1>2, <1>3, SameFields

\* A null root is the tree of no nodes.
LEMMA NoNodesGood ==
  ASSUME NEW t \in Tree, t.root = NULL
  PROVE  GoodTree(t, {})
<1>1. [n \in Node |-> 0] \in [Node -> Nat]
  OBVIOUS
<1> QED BY <1>1 DEF GoodTree, WellLinked, LayeredBy
=============================================================================
