----------------------------- MODULE RbTree_proof -----------------------------
(***************************************************************************)
(* Theorems about RbTree: with the parent pointer evaluated first, every   *)
(* step of insert, erase and clear keeps the links of the tree consistent, *)
(* for any nodes and any keys.                                             *)
(***************************************************************************)
EXTENDS RbLinks_proof, FiniteSets, FiniteSetTheorems

Inherited(r, t, y, d, c) ==
  /\ r \in Tree
  /\ r.root = t.root
  /\ \A e \in Side, m \in Node :
       r.child[e][m] = IF m = y /\ e = d THEN c ELSE t.child[e][m]
  /\ \A m \in Node : r.parent[m] = IF m = c THEN y ELSE t.parent[m]

\* y->right = z->right; y->right->parent = y, and its mirror.
LEMMA InheritFacts ==
  ASSUME NEW t \in Tree, NEW y \in Node, NEW d \in Side, z \in Node
  PROVE  Inherited(Inherit(t, y, d), t, y, d, t.child[d][z])
<1>1. PICK c \in NodeOrNull : c = t.child[d][z]
  BY DEF Tree
<1>2. PICK t1 : t1 = SetChild(t, y, d, c)
  OBVIOUS
<1>3. ChildSet(t1, t, y, d, c)
  BY <1>1, <1>2, SetChildFacts
<1>4. t1.child[d][y] = c /\ t1 \in Tree
  BY <1>3 DEF ChildSet
<1>5. ParentSet(Adopt(t1, c, y), t1, c, y)
  BY <1>1, <1>4, AdoptFacts DEF NodeOrNull
<1>6. Inherit(t, y, d) = Adopt(t1, c, y)
  BY <1>1, <1>2, <1>4 DEF Inherit
<1> QED BY <1>1, <1>3, <1>5, <1>6 DEF ChildSet, ParentSet, Inherited

\* q is the tree without y.  If t1 is q but for y, which holds the right
\* subtree of z, then what erase does to t1 puts y in the place of z in q.
LEMMA PutInPlace ==
  ASSUME NEW q, NEW S \in SUBSET Node, GoodTree(q, S), z \in S,
         NEW y \in Node \ S, NEW t1 \in Tree, t1.root = q.root,
         NEW w, w = q.child["R"][z],
         \A e \in Side, m \in S \ {z} : t1.child[e][m] = q.child[e][m],
         t1.child["R"][y] = w,
         t1.child["L"][z] = q.child["L"][z],
         \A m \in S : t1.parent[m] = IF m = w THEN y ELSE q.parent[m]
  PROVE  /\ GoodTree(Inherit(Transplant(t1, z, y), y, "L"), (S \ {z}) \cup {y})
         /\ Renamed(Inherit(Transplant(t1, z, y), y, "L"), q, z, y, S)
         /\ \A e \in Side : Inherit(Transplant(t1, z, y), y, "L").child[e][z] = t1.child[e][z]
<1>0. "L" \in Side /\ "R" \in Side /\ z \in Node /\ y \in NodeOrNull /\ y # NULL
      /\ NULL \notin S /\ Side = {"L", "R"} /\ "L" # "R"
  BY NullAssumption DEF Side, NodeOrNull
<1>1. PICK g \in NodeOrNull : g = q.parent[z]
  BY Neighbours
<1>2. PICK s \in Side : s = SideOf(q, z)
  BY SlotFacts
<1>3. /\ g # NULL => g \in S /\ g # z /\ q.child[s][g] = z /\ z # q.root
      /\ g = NULL => z = q.root
  BY <1>1, <1>2, SlotFacts, Neighbours
<1>4. PICK v \in NodeOrNull : v = q.child["L"][z]
  BY <1>0, Neighbours
<1>5. /\ v # NULL => v \in S /\ q.parent[v] = z
      /\ w # NULL => w \in S /\ q.parent[w] = z
  BY <1>0, <1>4, Neighbours
<1>6. v # z /\ w # z
  BY <1>0, <1>5, <1>3, <1>1, NullAssumption
<1>7. t1.parent[z] = g
  BY <1>1, <1>6
<1>8. g # NULL => SideOf(t1, z) = s
  BY <1>0, <1>2, <1>1, <1>3, <1>7 DEF SideOf, Left
<1>9. PICK r2 : r2 = Transplant(t1, z, y)
  OBVIOUS
<1>10. Transplanted(r2, t1, z, y)
  BY <1>0, <1>9, TransplantFacts
<1>11. /\ r2 \in Tree
       /\ r2.root = (IF g = NULL THEN y ELSE q.root)
       /\ \A e \in Side, m \in Node :
            r2.child[e][m] = IF m = g /\ e = s THEN y ELSE t1.child[e][m]
       /\ \A m \in Node : r2.parent[m] = IF m = y THEN g ELSE t1.parent[m]
  BY <1>7, <1>8, <1>10, NullAssumption DEF Transplanted
<1>12. r2.child["L"][z] = v
  BY <1>0, <1>3, <1>4, <1>11, NullAssumption
<1>13. PICK r : r = Inherit(r2, y, "L")
  OBVIOUS
<1>14. Inherited(r, r2, y, "L", v)
  BY <1>0, <1>11, <1>12, <1>13, InheritFacts
<1>15. \A m \in S, e \in Side : q.child[e][m] = z <=> m = g /\ e = s
  <2>1. ASSUME NEW m \in S, NEW e \in Side, q.child[e][m] = z
        PROVE  m = g /\ e = s
    <3>1. g = m
      BY <2>1, <1>0, <1>1, Neighbours
    <3>2. q.child[s][g] = z /\ g \in S
      BY <3>1, <1>0, <1>3
    <3> QED BY <3>1, <3>2, <2>1, <1>0, UniqueSlot
  <2> QED BY <2>1, <1>0, <1>3
<1>16. \A m \in S : q.parent[m] = z <=> m = v \/ m = w
  <2>1. ASSUME NEW m \in S, q.parent[m] = z PROVE m = v \/ m = w
    <3>1. q.child[SideOf(q, m)][z] = m /\ SideOf(q, m) \in Side
      BY <2>1, <1>0, SlotFacts
    <3> QED BY <3>1, <1>0, <1>4
  <2> QED BY <2>1, <1>0, <1>5
<1>17. Renamed(r, q, z, y, S)
  <2>1. r.root = (IF q.root = z THEN y ELSE q.root)
    BY <1>3, <1>11, <1>14 DEF Inherited
  <2>2. \A e \in Side : r.child[e][y] = q.child[e][z]
    BY <1>0, <1>3, <1>4, <1>11, <1>14 DEF Inherited
  <2>3. \A e \in Side, m \in S \ {z} :
          r.child[e][m] = IF q.child[e][m] = z THEN y ELSE q.child[e][m]
    <3>1. ASSUME NEW e \in Side, NEW m \in S \ {z}
          PROVE  r.child[e][m] = IF q.child[e][m] = z THEN y ELSE q.child[e][m]
      <4>1. r.child[e][m] = r2.child[e][m]
        BY <1>14 DEF Inherited
      <4>2. r.child[e][m] = IF m = g /\ e = s THEN y ELSE q.child[e][m]
        BY <4>1, <1>11
      <4> QED BY <4>2, <1>15
    <3> QED BY <3>1
  <2>4. r.parent[y] = q.parent[z]
    BY <1>0, <1>1, <1>5, <1>11, <1>14 DEF Inherited
  <2>5. \A m \in S \ {z} :
          r.parent[m] = IF q.parent[m] = z THEN y ELSE q.parent[m]
    <3>1. ASSUME NEW m \in S \ {z}
          PROVE  r.parent[m] = IF q.parent[m] = z THEN y ELSE q.parent[m]
      <4>1. m \in Node /\ m # y /\ m # NULL
        BY <1>0, NullAssumption
      <4>2. r2.parent[m] = t1.parent[m]
        BY <4>1, <1>11
      <4>3. r.parent[m] = IF m = v THEN y ELSE r2.parent[m]
        BY <4>1, <1>14 DEF Inherited
      <4>4. t1.parent[m] = IF m = w THEN y ELSE q.parent[m]
        BY <4>1, <1>1
      <4>5. q.parent[m] = z <=> m = v \/ m = w
        BY <1>16
      <4> QED BY <4>2, <4>3, <4>4, <4>5
    <3> QED BY <3>1
  <2> QED BY <2>1, <2>2, <2>3, <2>4, <2>5, <1>14 DEF Renamed, Inherited
<1>18. \A e \in Side : r.child[e][z] = t1.child[e][z]
  BY <1>0, <1>3, <1>11, <1>14, NullAssumption DEF Inherited
<1> QED BY <1>9, <1>13, <1>17, <1>18, RenameGood

\* Both ways erase moves the successor y into the place of z.
LEMMA SuccessorGood ==
  ASSUME NEW S \in SUBSET Node, GoodTree(tree, S), z \in S,
         NEW y \in S, y # z, Left(tree, y) = NULL, Right(tree, y) # z,
         tree.parent[y] \in S,
         tree.parent[y] = z => y = Right(tree, z)
  PROVE  LET t1 == IF tree.parent[y] = z THEN tree ELSE Detach(tree, y)
             q  == Transplant(tree, y, Right(tree, y))
             r  == Inherit(Transplant(t1, z, y), y, "L")
         IN  /\ GoodTree(r, S \ {z})
             /\ t1.parent[y] = tree.parent[y]
             /\ GoodTree(q, S \ {y})
             /\ Renamed(r, q, z, y, S \ {y})
             /\ \A e \in Side : r.child[e][z] \in (S \ {z}) \cup {NULL}
             /\ \A e \in Side, m \in Node \ S : r.child[e][m] = tree.child[e][m]
<1>0. "L" \in Side /\ "R" \in Side /\ z \in Node /\ y \in NodeOrNull /\ y # NULL
      /\ NULL \notin S /\ Side = {"L", "R"} /\ "L" # "R" /\ tree \in Tree
      /\ Opp("R") = "L"
  BY NullAssumption DEF Side, NodeOrNull, GoodTree, Opp
<1>1. PICK t : t = tree
  OBVIOUS
<1>2. PICK x \in NodeOrNull : x = t.child["R"][y]
  BY <1>0, <1>1, Neighbours
<1>3. PICK p \in S : p = t.parent[y]
  BY <1>1
<1>4. PICK sy \in Side : sy = SideOf(t, y)
  BY <1>1, SlotFacts
<1>5. t.child[sy][p] = y /\ p # y /\ p # NULL /\ y # t.root
  BY <1>0, <1>1, <1>3, <1>4, SlotFacts
<1>6. x # NULL => x \in S /\ t.parent[x] = y /\ x # y /\ x # z
  <2>1. x # NULL => x \in S /\ t.parent[x] = y
    BY <1>0, <1>1, <1>2, Neighbours
  <2> QED BY <2>1, <1>0, <1>1, <1>2, <1>3, <1>5 DEF Right
<1>7. PICK q : q = Transplant(t, y, x)
  OBVIOUS
<1>8. GoodTree(q, S \ {y})
  BY <1>0, <1>1, <1>2, <1>7, SpliceGood DEF Left
<1>9. /\ q \in Tree
      /\ q.root = t.root
      /\ \A e \in Side, m \in Node :
           q.child[e][m] = IF m = p /\ e = sy THEN x ELSE t.child[e][m]
      /\ \A m \in Node : q.parent[m] = IF m = x THEN p ELSE t.parent[m]
  <2>1. Transplanted(q, t, y, x)
    BY <1>0, <1>1, <1>2, <1>7, TransplantFacts
  <2> QED BY <2>1, <1>3, <1>4, <1>5 DEF Transplanted
<1>10. PICK w \in NodeOrNull : w = q.child["R"][z]
  BY <1>0, <1>8, Neighbours
<1>11. PICK t1 : t1 = IF t.parent[y] = z THEN t ELSE Detach(t, y)
  OBVIOUS
<1>12. /\ t1 \in Tree
       /\ t1.root = q.root
       /\ \A e \in Side, m \in (S \ {y}) \ {z} : t1.child[e][m] = q.child[e][m]
       /\ t1.child["R"][y] = w
       /\ t1.child["L"][z] = q.child["L"][z]
       /\ \A m \in S \ {y} : t1.parent[m] = IF m = w THEN y ELSE q.parent[m]
  <2>1. CASE p = z
    <3>1. t1 = t
      BY <2>1, <1>3, <1>11
    <3>2. t.child["R"][z] = y /\ sy = "R"
      <4>1. t.child["R"][z] = y
        BY <2>1, <1>1, <1>3 DEF Right
      <4> QED BY <4>1, <2>1, <1>0, <1>1, <1>5, UniqueSlot
    <3>3. w = x
      BY <3>2, <2>1, <1>0, <1>9, <1>10
    <3>4. \A m \in S \ {y} : m = x => t.parent[m] = y
      BY <1>0, <1>6
    <3> QED BY <3>1, <3>2, <3>3, <3>4, <2>1, <1>0, <1>1, <1>2, <1>9
  <2>2. CASE p # z
    <3>1. t1 = Inherit(q, y, "R")
      BY <2>2, <1>2, <1>3, <1>7, <1>11 DEF Detach, Right
    <3>2. Inherited(t1, q, y, "R", w)
      BY <3>1, <1>0, <1>9, <1>10, InheritFacts
    <3> QED BY <3>2, <1>0 DEF Inherited
  <2> QED BY <2>1, <2>2
<1>13. /\ GoodTree(Inherit(Transplant(t1, z, y), y, "L"), ((S \ {y}) \ {z}) \cup {y})
       /\ Renamed(Inherit(Transplant(t1, z, y), y, "L"), q, z, y, S \ {y})
       /\ \A e \in Side : Inherit(Transplant(t1, z, y), y, "L").child[e][z] = t1.child[e][z]
  <2>1. z \in S \ {y} /\ y \in Node \ (S \ {y}) /\ (S \ {y}) \in SUBSET Node
    BY <1>0
  <2> QED BY SMTT(30), <2>1, <1>8, <1>10, <1>12, PutInPlace
<1>14. ((S \ {y}) \ {z}) \cup {y} = S \ {z}
  OBVIOUS
<1>15. t1.parent[y] = t.parent[y]
  <2>1. CASE p = z
    BY <2>1, <1>3, <1>11
  <2>2. CASE p # z
    <3>1. t1 = Inherit(q, y, "R")
      BY <2>2, <1>2, <1>3, <1>7, <1>11 DEF Detach, Right
    <3>2. Inherited(t1, q, y, "R", w)
      BY <3>1, <1>0, <1>9, <1>10, InheritFacts
    <3>3. w # y
      BY <1>0, <1>8, <1>10, Neighbours
    <3>4. y # x
      BY <1>0, <1>6
    <3> QED BY <3>2, <3>3, <3>4, <1>9 DEF Inherited
  <2> QED BY <2>1, <2>2
<1>16. \A e \in Side : t1.child[e][z] \in (S \ {z}) \cup {NULL}
  <2>1. \A e \in Side : t.child[e][z] \in (S \ {z}) \cup {NULL}
    BY <1>0, <1>1, Neighbours, SlotFacts
  <2>2. CASE p = z
    BY <2>1, <2>2, <1>3, <1>11
  <2>3. CASE p # z
    <3>1. t1 = Inherit(q, y, "R")
      BY <2>3, <1>2, <1>3, <1>7, <1>11 DEF Detach, Right
    <3>2. Inherited(t1, q, y, "R", w)
      BY <3>1, <1>0, <1>9, <1>10, InheritFacts
    <3>3. \A e \in Side : t1.child[e][z] = t.child[e][z]
      BY <3>2, <2>3, <1>0, <1>9 DEF Inherited
    <3> QED BY <3>3, <2>1
  <2> QED BY <2>2, <2>3
<1>17. q = Transplant(tree, y, Right(tree, y))
  BY <1>1, <1>2, <1>7 DEF Right
<1>18. ASSUME NEW e \in Side, NEW m \in Node \ S
       PROVE  Inherit(Transplant(t1, z, y), y, "L").child[e][m] = t.child[e][m]
  <2>1. t1.child[e][m] = t.child[e][m]
    <3>1. CASE p = z
      BY <3>1, <1>3, <1>11
    <3>2. CASE p # z
      <4>1. t1 = Inherit(q, y, "R")
        BY <3>2, <1>2, <1>3, <1>7, <1>11 DEF Detach, Right
      <4>2. Inherited(t1, q, y, "R", w)
        BY <4>1, <1>0, <1>9, <1>10, InheritFacts
      <4> QED BY <4>2, <1>3, <1>9 DEF Inherited
    <3> QED BY <3>1, <3>2
  <2>2. t1.parent[z] # m
    <3>1. z \in S \ {y} /\ (S \ {y}) \in SUBSET Node
      BY <1>0
    <3>2. q.parent[z] \in S \cup {NULL}
      BY <3>1, <1>8, Neighbours
    <3>3. t1.parent[z] = y \/ t1.parent[z] = q.parent[z]
      BY <3>1, <1>12
    <3> QED BY <3>2, <3>3, NullAssumption
  <2>3. PICK r2 : r2 = Transplant(t1, z, y)
    OBVIOUS
  <2>4. Transplanted(r2, t1, z, y)
    BY <2>3, <1>0, <1>12, TransplantFacts
  <2>5. r2 \in Tree /\ r2.child[e][m] = t1.child[e][m]
    BY <2>2, <2>4 DEF Transplanted
  <2>6. Inherited(Inherit(r2, y, "L"), r2, y, "L", r2.child["L"][z])
    BY <2>5, <1>0, InheritFacts
  <2> QED BY <2>1, <2>3, <2>5, <2>6 DEF Inherited
<1> QED BY ZenonT(40), <1>1, <1>8, <1>11, <1>13, <1>14, <1>15, <1>16, <1>17, <1>18
-----------------------------------------------------------------------------
(***************************************************************************)
(* The inductive invariant.  LinksOK alone is not inductive: a rotation    *)
(* keeps a tree only if there is no cycle (GoodTree), and each piece of    *)
(* code relies on where its local pointers point.                          *)
(***************************************************************************)

\* size_ counts the allocated nodes.
SizeOK == IsFiniteSet(live) /\ size_ = Cardinality(live)

\* u is deeper than v, whatever the numbering.
Below(t, S, u, v) == \A f \in [Node -> Nat] : LayeredBy(t, S, f) => f[u] > f[v]

\* The descent of insert stands at the slot (par, side), or at the root.
InsertPointers ==
  /\ pc = "descend" =>
       /\ z \in Node \ live
       /\ cur \in live \cup {NULL}
       /\ par \in live \cup {NULL}
       /\ IF par = NULL THEN cur = tree.root ELSE tree.child[side][par] = cur
  /\ pc = "insert_rebalance" => cur \in live

SearchPointers ==
  /\ pc = "find" => cur \in live \cup {NULL}
  /\ pc = "successor" =>
       /\ z \in live
       /\ cur \in live
       /\ tree.parent[cur] \in live
       /\ Below(tree, live, cur, z)
       /\ tree.parent[cur] = z => cur = Right(tree, z)

UnlinkPointers ==
  /\ pc \in {"erase_rebalance", "delete"} =>
       z \in live /\ cur \in Linked \cup {NULL}
  /\ pc = "erase_rebalance" /\ cur # tree.root => par \in Linked

IInv == /\ TypeOK
        /\ SizeOK
        /\ GoodTree(tree, Linked)
        /\ InsertPointers
        /\ SearchPointers
        /\ UnlinkPointers

\* A node of a tree is not below itself, so the successor is not z.
LEMMA BelowIsOther ==
  ASSUME NEW t, NEW S \in SUBSET Node, GoodTree(t, S), NEW u \in Node,
         NEW v \in Node, Below(t, S, u, v)
  PROVE  u # v
<1>1. PICK f \in [Node -> Nat] : LayeredBy(t, S, f)
  BY DEF GoodTree
<1>2. f[u] > f[v] /\ f[u] \in Nat /\ f[v] \in Nat
  BY <1>1 DEF Below
<1> QED BY <1>2

\* A child is below its parent and below everything that one is below.
LEMMA ChildIsBelow ==
  ASSUME NEW t, NEW S \in SUBSET Node, GoodTree(t, S), NEW n \in S, NEW d \in Side,
         t.child[d][n] # NULL
  PROVE  /\ Below(t, S, t.child[d][n], n)
         /\ \A v \in Node : Below(t, S, n, v) => Below(t, S, t.child[d][n], v)
<1>1. t.child[d][n] \in Node
  BY Neighbours
<1>2. \A f \in [Node -> Nat] : LayeredBy(t, S, f) => f[t.child[d][n]] > f[n]
  BY DEF LayeredBy
<1>3. ASSUME NEW v \in Node, Below(t, S, n, v)
      PROVE  Below(t, S, t.child[d][n], v)
  <2>1. ASSUME NEW f \in [Node -> Nat], LayeredBy(t, S, f)
        PROVE  f[t.child[d][n]] > f[v]
    <3>1. f[t.child[d][n]] > f[n] /\ f[n] > f[v]
      BY <2>1, <1>2, <1>3 DEF Below
    <3>2. f[t.child[d][n]] \in Nat /\ f[n] \in Nat /\ f[v] \in Nat
      BY <1>1
    <3> QED BY <3>1, <3>2
  <2> QED BY <2>1 DEF Below
<1> QED BY <1>2, <1>3 DEF Below

\* The empty tree is a tree.
LEMMA EmptyGood == GoodTree(EmptyTree, {})
<1>1. EmptyTree \in Tree /\ EmptyTree.root = NULL
  BY DEF EmptyTree, Tree, NodeOrNull
<1> QED BY <1>1, NoNodesGood

\* A default constructed tree satisfies the invariant.
LEMMA InitIInv == Init => IInv
<1> SUFFICES ASSUME Init PROVE IInv
  OBVIOUS
<1>1. Linked = {}
  BY DEF Init, Linked
<1>2. GoodTree(tree, Linked)
  BY <1>1, EmptyGood DEF Init
<1>3. TypeOK
  BY EmptyGood DEF Init, TypeOK, GoodTree, Color, PC, NodeOrNull, Side
<1>4. SizeOK
  BY FS_EmptySet DEF Init, SizeOK
<1>5. InsertPointers /\ SearchPointers /\ UnlinkPointers
  BY DEF Init, InsertPointers, SearchPointers, UnlinkPointers
<1> QED BY <1>2, <1>3, <1>4, <1>5 DEF IInv

\* Between two calls no local pointer matters.
LEMMA IdlePointers ==
  ASSUME pc' = "idle"
  PROVE  InsertPointers' /\ SearchPointers' /\ UnlinkPointers' /\ Linked' = live'
BY DEF InsertPointers, SearchPointers, UnlinkPointers, Linked

\* The steps of insert.
LEMMA InsertCallStep ==
  ASSUME IInv, NEW n \in Node, InsertCall(n)
  PROVE  IInv'
<1>1. TypeOK' /\ SizeOK' /\ Linked' = live /\ Linked = live
  BY KeyAssumption DEF IInv, TypeOK, SizeOK, InsertCall, Linked, PC, NodeOrNull, Tree, Side
<1>2. GoodTree(tree, Linked)'
  BY <1>1 DEF IInv, InsertCall
<1>3. tree.root \in live \cup {NULL}
  BY <1>1, NullAssumption DEF IInv, GoodTree, WellLinked
<1>4. InsertPointers' /\ SearchPointers' /\ UnlinkPointers'
  BY <1>3 DEF InsertCall, InsertPointers, SearchPointers, UnlinkPointers
<1> QED BY <1>1, <1>2, <1>4 DEF IInv

\* One level of the descent of insert (rb_tree.hpp:460-473).
LEMMA DescendStep ==
  ASSUME IInv, Descend
  PROVE  IInv'
<1>1. cur \in live /\ Linked = live /\ Linked' = live
  BY DEF IInv, InsertPointers, Descend, Linked
<1>2. PICK d \in Side : d = DescendSide(cur)
  BY DEF DescendSide, Side
<1>3. GoodTree(tree, live) /\ live \in SUBSET Node
  BY <1>1 DEF IInv, TypeOK
<1>4. tree.child[d][cur] \in live \cup {NULL} /\ tree.child[d][cur] \in NodeOrNull
  BY <1>1, <1>3, Neighbours
<1>5. TypeOK'
  BY <1>2, <1>4 DEF IInv, TypeOK, Descend
<1>6. SizeOK'
  BY DEF IInv, SizeOK, Descend
<1>7. GoodTree(tree, Linked)'
  BY <1>1, <1>3 DEF Descend
<1>8. InsertPointers' /\ SearchPointers' /\ UnlinkPointers'
  BY <1>1, <1>2, <1>3, <1>4, NullAssumption
     DEF IInv, Descend, InsertPointers, SearchPointers, UnlinkPointers
<1> QED BY <1>5, <1>6, <1>7, <1>8 DEF IInv

\* The new leaf of insert (rb_tree.hpp:475-494).
LEMMA AttachStep ==
  ASSUME IInv, Attach
  PROVE  IInv'
<1>1. Linked = live /\ Linked' = live \cup {z} /\ live' = live \cup {z}
      /\ size_' = size_ + 1
  BY DEF Attach, Linked, Return
<1>2. /\ z \in Node \ live
      /\ par \in live \cup {NULL}
      /\ IF par = NULL THEN tree.root = NULL ELSE tree.child[side][par] = NULL
  BY DEF IInv, InsertPointers, Attach
<1>3. GoodTree(tree, live) /\ live \in SUBSET Node /\ side \in Side
  BY <1>1 DEF IInv, TypeOK
<1>4. GoodTree(AttachLeaf(tree, z, par, side), live \cup {z})
  BY <1>2, <1>3, AttachGood
<1>5. GoodTree(tree, Linked)'
  BY <1>1, <1>4 DEF Attach
<1>6. tree' \in Tree
  BY <1>5 DEF GoodTree
<1>7. SizeOK'
  BY <1>1, <1>2, FS_AddElement DEF IInv, SizeOK
<1>8. color' \in [Node -> Color]
  BY <1>2 DEF IInv, TypeOK, Attach, Paint, NewColor, Color
<1>9. TypeOK'
  <2>1. live' \subseteq Node /\ size_' \in Nat
    BY <1>1, <1>2, <1>3 DEF IInv, TypeOK
  <2>2. /\ pc' \in PC
        /\ key' \in Int
        /\ z' \in NodeOrNull /\ cur' \in NodeOrNull /\ par' \in NodeOrNull
        /\ side' \in Side
    BY DEF IInv, TypeOK, Attach, Return, NodeOrNull, Side, PC
  <2> QED BY <2>1, <2>2, <1>6, <1>8 DEF TypeOK
<1>10. InsertPointers' /\ SearchPointers' /\ UnlinkPointers'
  BY DEF Attach, Return, InsertPointers, SearchPointers, UnlinkPointers
<1> QED BY <1>5, <1>7, <1>9, <1>10 DEF IInv

\* insert whose allocation throws (rb_tree.hpp:475).
LEMMA AttachFailsStep ==
  ASSUME IInv, AttachFails
  PROVE  IInv'
<1>1. Linked = live /\ Linked' = live
  BY DEF AttachFails, Linked, Return
<1>2. TypeOK' /\ SizeOK'
  BY DEF IInv, TypeOK, SizeOK, AttachFails, Return, NodeOrNull, Side, PC
<1>3. GoodTree(tree, Linked)'
  BY <1>1 DEF IInv, AttachFails
<1>4. InsertPointers' /\ SearchPointers' /\ UnlinkPointers'
  BY IdlePointers DEF AttachFails, Return
<1> QED BY <1>2, <1>3, <1>4 DEF IInv

\* The parent and the grandparent the loop of insert_rebalance works on.
LEMMA RedParentFacts ==
  ASSUME IInv, pc = "insert_rebalance", RedParent
  PROVE  /\ Linked = live /\ live \in SUBSET Node /\ GoodTree(tree, live)
         /\ cur \in live
         /\ tree.parent[cur] \in live
         /\ Grandparent(tree, cur) \in live
         /\ Grandparent(tree, cur) = tree.parent[tree.parent[cur]]
<1>1. Linked = live /\ live \in SUBSET Node /\ GoodTree(tree, live) /\ cur \in live
  BY DEF IInv, Linked, TypeOK, InsertPointers
<1>2. tree.parent[cur] \in live
  BY <1>1, Neighbours DEF RedParent
<1>3. tree.parent[tree.parent[cur]] \in live
  BY <1>1, <1>2, Neighbours, NullAssumption DEF RedParent, Grandparent
<1> QED BY <1>1, <1>2, <1>3, NullAssumption DEF Grandparent

\* Painting gives colours.
LEMMA PaintFacts ==
  ASSUME NEW c \in [Node -> Color], NEW n \in NodeOrNull
  PROVE  /\ Blacken(c, n) \in [Node -> Color]
         /\ n \in Node => \A hue \in Color : Paint(c, n, hue) \in [Node -> Color]
BY DEF Blacken, Paint, Color, NodeOrNull

\* insert_rebalance with a red uncle (rb_tree.hpp:233-242).
LEMMA InsertRecolorStep ==
  ASSUME IInv, InsertRecolor
  PROVE  IInv'
<1> DEFINE g == Grandparent(tree, cur)
<1>1. Linked = live /\ GoodTree(tree, live) /\ g \in live
      /\ tree.parent[cur] \in live /\ live \in SUBSET Node
  BY RedParentFacts DEF InsertRecolor
<1>2. /\ UNCHANGED <<tree, live, size_, pc, key, z, par, side>>
      /\ cur' = g
      /\ color' = Paint(Blacken(Blacken(color, tree.parent[cur]), Uncle(tree, cur)), g, "RED")
      /\ pc = "insert_rebalance"
  BY DEF InsertRecolor
<1>3. Linked' = live
  BY <1>2 DEF Linked
<1>4. Uncle(tree, cur) \in NodeOrNull
  <2> DEFINE e == Opp(IF tree.parent[cur] = Left(tree, g) THEN "L" ELSE "R")
  <2>1. e \in Side
    BY DEF Opp, Side
  <2>2. tree.child[e][g] \in NodeOrNull
    BY <2>1, <1>1, Neighbours
  <2> QED BY <2>2 DEF Uncle, NodeOrNull
<1>5. color' \in [Node -> Color]
  <2>1. Blacken(color, tree.parent[cur]) \in [Node -> Color]
    BY <1>1, PaintFacts DEF IInv, TypeOK, NodeOrNull
  <2>2. Blacken(Blacken(color, tree.parent[cur]), Uncle(tree, cur)) \in [Node -> Color]
    BY <2>1, <1>4, PaintFacts
  <2> HIDE DEF g
  <2> QED BY <2>2, <1>1, <1>2, PaintFacts DEF NodeOrNull, Color
<1> HIDE DEF g
<1>6. TypeOK'
  BY <1>1, <1>2, <1>5 DEF IInv, TypeOK, NodeOrNull
<1>7. SizeOK'
  BY <1>2 DEF IInv, SizeOK
<1>8. GoodTree(tree, Linked)'
  BY <1>1, <1>2, <1>3
<1>9. InsertPointers' /\ SearchPointers' /\ UnlinkPointers'
  BY <1>1, <1>2 DEF InsertPointers, SearchPointers, UnlinkPointers
<1> QED BY <1>6, <1>7, <1>8, <1>9 DEF IInv

\* insert_rebalance with a black uncle (rb_tree.hpp:244-281).
LEMMA InsertRotateStep ==
  ASSUME IInv, InsertRotate, ~RhsFirst
  PROVE  IInv'
<1> DEFINE g    == Grandparent(tree, cur)
           line == Straighten(tree, cur)
           p    == line.t.parent[line.node]
           d    == SideOf(line.t, p)
           c    == Paint(Blacken(color, p), g, "RED")
           up   == RotateAndStore(line.t, g, Opp(d))
<1>1. Linked = live /\ GoodTree(tree, live) /\ g \in live /\ cur \in live
      /\ tree.parent[cur] \in live /\ live \in SUBSET Node
  BY RedParentFacts DEF InsertRotate
<1>2. /\ UNCHANGED <<live, size_, pc, key, z, par, side>>
      /\ tree' = IF line.node = line.t.child[d][p] THEN up ELSE line.t
      /\ color' = Blacken(c, tree'.root)
      /\ cur' = line.node
      /\ pc = "insert_rebalance"
  BY DEF InsertRotate
<1>3. Linked' = live
  BY <1>2 DEF Linked
<1>4. GoodTree(line.t, live) /\ line.node \in live
  <2>1. SideOf(tree, tree.parent[cur]) \in Side
    BY DEF SideOf, Side
  <2>2. GoodTree(Rotate(tree, tree.parent[cur], SideOf(tree, tree.parent[cur])), live)
    BY <2>1, <1>1, RotateGood
  <2> QED BY <2>2, <1>1 DEF Straighten
<1>5. p \in NodeOrNull /\ d \in Side /\ Opp(d) \in Side
  <2>1. p \in NodeOrNull
    BY <1>1, <1>4, Neighbours
  <2>2. d \in Side
    BY DEF SideOf, Side
  <2> QED BY <2>1, <2>2, SideFacts
<1>6. GoodTree(up, live)
  <2> HIDE DEF g, line, d
  <2> QED BY <1>1, <1>4, <1>5, StoreGood
<1> HIDE DEF g, line, p, d, c, up
<1>7. GoodTree(tree', live)
  BY <1>2, <1>4, <1>6
<1>8. tree' \in Tree /\ tree'.root \in NodeOrNull
  BY <1>7 DEF GoodTree, Tree
<1>9. color' \in [Node -> Color]
  <2>1. Blacken(color, p) \in [Node -> Color]
    BY <1>5, PaintFacts DEF IInv, TypeOK
  <2>2. c \in [Node -> Color]
    BY <2>1, <1>1, PaintFacts DEF c, NodeOrNull, Color
  <2> QED BY <2>2, <1>2, <1>8, PaintFacts
<1>10. TypeOK'
  BY <1>1, <1>2, <1>4, <1>8, <1>9 DEF IInv, TypeOK, NodeOrNull
<1>11. SizeOK'
  BY <1>2 DEF IInv, SizeOK
<1>12. GoodTree(tree, Linked)'
  BY <1>3, <1>7
<1>13. InsertPointers' /\ SearchPointers' /\ UnlinkPointers'
  BY <1>2, <1>4 DEF InsertPointers, SearchPointers, UnlinkPointers
<1> QED BY <1>10, <1>11, <1>12, <1>13 DEF IInv

\* The end of insert_rebalance (rb_tree.hpp:283).
LEMMA InsertDoneStep ==
  ASSUME IInv, InsertDone
  PROVE  IInv'
<1>1. Linked = live /\ Linked' = live
  BY DEF InsertDone, Linked, Return
<1>2. color' \in [Node -> Color]
  BY PaintFacts DEF IInv, TypeOK, InsertDone, Tree
<1>3. TypeOK' /\ SizeOK'
  BY <1>2 DEF IInv, TypeOK, SizeOK, InsertDone, Return, NodeOrNull, Side, PC
<1>4. GoodTree(tree, Linked)'
  BY <1>1 DEF IInv, InsertDone
<1>5. InsertPointers' /\ SearchPointers' /\ UnlinkPointers'
  BY IdlePointers DEF InsertDone, Return
<1> QED BY <1>3, <1>4, <1>5 DEF IInv

\* The steps of erase.
LEMMA EraseCallStep ==
  ASSUME IInv, NEW k \in Keys, EraseCall(k)
  PROVE  IInv'
<1>1. Linked = live /\ Linked' = live
  BY DEF EraseCall, Linked
<1>2. k \in Int
  BY KeyAssumption DEF Keys
<1>3. tree.root \in live \cup {NULL} /\ tree.root \in NodeOrNull
  BY <1>1, NullAssumption DEF IInv, GoodTree, WellLinked, Tree
<1>4. TypeOK' /\ SizeOK'
  BY <1>2, <1>3 DEF IInv, TypeOK, SizeOK, EraseCall, PC
<1>5. GoodTree(tree, Linked)'
  BY <1>1 DEF IInv, EraseCall
<1>6. InsertPointers' /\ SearchPointers' /\ UnlinkPointers'
  BY <1>3 DEF EraseCall, InsertPointers, SearchPointers, UnlinkPointers
<1> QED BY <1>4, <1>5, <1>6 DEF IInv

\* One level of the search of erase (rb_tree.hpp:68-82).
LEMMA FindStep ==
  ASSUME IInv, Find
  PROVE  IInv'
<1>1. cur \in live /\ Linked = live /\ Linked' = live
  BY DEF IInv, SearchPointers, Find, Linked
<1>2. PICK d \in Side : d = DescendSide(cur)
  BY DEF DescendSide, Side
<1>3. tree.child[d][cur] \in live \cup {NULL} /\ tree.child[d][cur] \in NodeOrNull
  BY <1>1, Neighbours DEF IInv, TypeOK
<1>4. TypeOK' /\ SizeOK'
  BY <1>2, <1>3 DEF IInv, TypeOK, SizeOK, Find
<1>5. GoodTree(tree, Linked)'
  BY <1>1 DEF IInv, Find
<1>6. InsertPointers' /\ SearchPointers' /\ UnlinkPointers'
  BY <1>2, <1>3 DEF Find, InsertPointers, SearchPointers, UnlinkPointers
<1> QED BY <1>4, <1>5, <1>6 DEF IInv

\* erase of an absent key (rb_tree.hpp:498-499).
LEMMA NotFoundStep ==
  ASSUME IInv, NotFound
  PROVE  IInv'
<1>1. Linked = live /\ Linked' = live
  BY DEF NotFound, Linked, Return
<1>2. TypeOK' /\ SizeOK'
  BY DEF IInv, TypeOK, SizeOK, NotFound, NotFoundSize, Return, NodeOrNull, Side, PC
<1>3. GoodTree(tree, Linked)'
  BY <1>1 DEF IInv, NotFound
<1>4. InsertPointers' /\ SearchPointers' /\ UnlinkPointers'
  BY IdlePointers DEF NotFound, Return
<1> QED BY <1>2, <1>3, <1>4 DEF IInv

\* erase of a node with at most one child (rb_tree.hpp:506-513).
LEMMA SpliceOutStep ==
  ASSUME IInv, SpliceOut
  PROVE  IInv'
<1>1. cur \in live /\ Linked = live /\ GoodTree(tree, live) /\ live \in SUBSET Node
  BY DEF IInv, SearchPointers, SpliceOut, Linked, TypeOK
<1>2. PICK d \in Side : d = IF Left(tree, cur) = NULL THEN "R" ELSE "L"
  BY DEF Side
<1>3. PICK x \in NodeOrNull : x = tree.child[d][cur]
  BY <1>1, Neighbours
<1>4. tree.child[Opp(d)][cur] = NULL
  BY <1>2 DEF SpliceOut, Opp, Left, Right
<1>5. /\ tree' = Transplant(tree, cur, x)
      /\ pc' \in {"erase_rebalance", "delete"}
      /\ cur' = x
      /\ par' = tree.parent[cur]
      /\ z' = cur
      /\ UNCHANGED <<color, live, size_, key, side>>
  BY <1>2, <1>3 DEF SpliceOut, Unlinked, Left, Right
<1>6. Linked' = live \ {cur}
  BY <1>5 DEF Linked
<1>7. /\ GoodTree(tree', live \ {cur})
      /\ tree.parent[cur] = NULL => tree'.root = x
  BY <1>1, <1>3, <1>4, <1>5, SpliceGood
<1>8. x # NULL => x \in live /\ x # cur
  <2>1. x # NULL => x \in live /\ tree.parent[x] = cur
    BY <1>1, <1>3, Neighbours
  <2> QED BY <2>1, <1>1, SlotFacts, NullAssumption
<1>9. tree.parent[cur] \in NodeOrNull
      /\ (tree.parent[cur] # NULL => tree.parent[cur] \in live \ {cur})
  BY <1>1, Neighbours, SlotFacts
<1>10. TypeOK'
  BY <1>1, <1>5, <1>7, <1>9 DEF IInv, TypeOK, GoodTree, PC, NodeOrNull
<1>11. SizeOK'
  BY <1>5 DEF IInv, SizeOK
<1>12. GoodTree(tree, Linked)'
  BY <1>6, <1>7
<1>13. UnlinkPointers'
  BY <1>1, <1>5, <1>6, <1>7, <1>8, <1>9 DEF UnlinkPointers
<1>14. InsertPointers' /\ SearchPointers'
  BY <1>5 DEF InsertPointers, SearchPointers
<1> QED BY <1>10, <1>11, <1>12, <1>13, <1>14 DEF IInv

\* erase of a node with two children: the walk to its successor starts.
LEMMA SeekSuccessorStep ==
  ASSUME IInv, SeekSuccessor
  PROVE  IInv'
<1>1. cur \in live /\ Linked = live /\ GoodTree(tree, live) /\ live \in SUBSET Node
  BY DEF IInv, SearchPointers, SeekSuccessor, Linked, TypeOK
<1>2. /\ UNCHANGED <<tree, color, live, size_, key, par, side>>
      /\ pc' = "successor"
      /\ z' = cur
      /\ cur' = Right(tree, cur)
      /\ Right(tree, cur) # NULL
  BY DEF SeekSuccessor
<1>3. /\ cur' \in live
      /\ tree.parent[cur'] = cur
      /\ Below(tree, live, cur', cur)
  <2>1. "R" \in Side
    BY DEF Side
  <2> QED BY <2>1, <1>1, <1>2, Neighbours, ChildIsBelow DEF Right
<1>4. TypeOK' /\ SizeOK' /\ Linked' = live
  BY <1>1, <1>2, <1>3 DEF IInv, TypeOK, SizeOK, PC, NodeOrNull, Linked
<1>5. GoodTree(tree, Linked)'
  BY <1>1, <1>2, <1>4
<1>6. SearchPointers'
  BY <1>1, <1>2, <1>3 DEF SearchPointers, Right
<1>7. InsertPointers' /\ UnlinkPointers'
  BY <1>2 DEF InsertPointers, UnlinkPointers
<1> QED BY <1>4, <1>5, <1>6, <1>7 DEF IInv

\* One iteration of search_min (rb_tree.hpp:96-100).
LEMMA GoLeftStep ==
  ASSUME IInv, GoLeft
  PROVE  IInv'
<1>1. /\ Linked = live /\ GoodTree(tree, live) /\ live \in SUBSET Node
      /\ cur \in live /\ z \in live
      /\ Below(tree, live, cur, z)
  BY DEF IInv, SearchPointers, GoLeft, Linked, TypeOK
<1>2. /\ UNCHANGED <<tree, color, live, size_, pc, key, z, par, side>>
      /\ cur' = Left(tree, cur)
      /\ pc = "successor"
      /\ Left(tree, cur) # NULL
  BY DEF GoLeft
<1>3. /\ cur' \in live
      /\ tree.parent[cur'] = cur
      /\ Below(tree, live, cur', z)
  <2>1. "L" \in Side
    BY DEF Side
  <2> QED BY <2>1, <1>1, <1>2, Neighbours, ChildIsBelow DEF Left
<1>4. cur # z
  BY <1>1, BelowIsOther
<1>5. TypeOK' /\ SizeOK' /\ Linked' = live
  BY <1>1, <1>2, <1>3 DEF IInv, TypeOK, SizeOK, NodeOrNull, Linked
<1>6. GoodTree(tree, Linked)'
  BY <1>1, <1>2, <1>5
<1>7. SearchPointers'
  BY <1>1, <1>2, <1>3, <1>4 DEF SearchPointers
<1>8. InsertPointers' /\ UnlinkPointers'
  BY <1>2 DEF InsertPointers, UnlinkPointers
<1> QED BY <1>5, <1>6, <1>7, <1>8 DEF IInv

\* The successor takes the place of the erased node (rb_tree.hpp:514-535).
LEMMA ReplaceBySuccessorStep ==
  ASSUME IInv, ReplaceBySuccessor
  PROVE  IInv'
<1> DEFINE y    == cur
           near == tree.parent[y] = z
           t1   == IF near THEN tree ELSE Detach(tree, y)
<1>1. /\ Linked = live /\ GoodTree(tree, live) /\ live \in SUBSET Node
      /\ y \in live /\ z \in live
      /\ Below(tree, live, y, z)
      /\ tree.parent[y] \in live
      /\ near => y = Right(tree, z)
  BY DEF IInv, SearchPointers, ReplaceBySuccessor, Linked, TypeOK
<1>2. /\ UNCHANGED <<live, size_, key, z, side>>
      /\ Left(tree, y) = NULL
      /\ tree' = Inherit(Transplant(t1, z, y), y, "L")
      /\ pc' \in {"erase_rebalance", "delete"}
      /\ cur' = Right(tree, y)
      /\ par' = IF near THEN y ELSE t1.parent[y]
      /\ color' = TakeColor(color, y)
  BY DEF ReplaceBySuccessor, Unlinked
<1>3. y # z
  BY <1>1, BelowIsOther
<1>4. PICK x \in NodeOrNull : x = Right(tree, y)
  BY <1>1, Neighbours DEF Right, Side
<1>5. x # NULL => x \in live /\ x # z
  <2>1. ASSUME x # NULL PROVE x \in live /\ Below(tree, live, x, z)
    BY <2>1, <1>1, <1>4, Neighbours, ChildIsBelow DEF Right, Side
  <2> QED BY <2>1, <1>1, BelowIsOther
<1>6. Right(tree, y) # z
  BY <1>1, <1>4, <1>5, NullAssumption
<1>7. GoodTree(tree', live \ {z}) /\ t1.parent[y] = tree.parent[y]
  BY <1>1, <1>2, <1>3, <1>6, SuccessorGood
<1>8. Linked' = live \ {z}
  BY <1>2 DEF Linked
<1>9. cur' \in (live \ {z}) \cup {NULL}
  BY <1>2, <1>4, <1>5
<1>10. par' \in live \ {z}
  BY <1>1, <1>2, <1>3, <1>7
<1> HIDE DEF near, t1
<1>11. color' \in [Node -> Color]
  BY <1>1, <1>2 DEF IInv, TypeOK, TakeColor, Paint, Color
<1>12. TypeOK'
  BY <1>1, <1>2, <1>7, <1>9, <1>10, <1>11 DEF IInv, TypeOK, GoodTree, PC, NodeOrNull
<1>13. SizeOK'
  BY <1>2 DEF IInv, SizeOK
<1>14. GoodTree(tree, Linked)'
  BY <1>7, <1>8
<1>15. UnlinkPointers'
  BY <1>1, <1>2, <1>8, <1>9, <1>10 DEF UnlinkPointers
<1>16. InsertPointers' /\ SearchPointers'
  BY <1>2 DEF InsertPointers, SearchPointers
<1> QED BY <1>12, <1>13, <1>14, <1>15, <1>16 DEF IInv

\* What case 1 of erase_rebalance leaves: a tree, whose sibling is a node of it.
LEMMA ShortFacts ==
  ASSUME IInv, pc = "erase_rebalance", BlackShort
  PROVE  /\ Linked = live \ {z} /\ Linked \in SUBSET Node
         /\ par \in Linked
         /\ ShortSide \in Side /\ Opp(ShortSide) \in Side
         /\ GoodTree(Tree1, Linked)
         /\ Color1 \in [Node -> Color]
         /\ Sibling \in Linked \cup {NULL}
<1>1. Linked = live \ {z} /\ Linked \in SUBSET Node /\ par \in Linked
      /\ GoodTree(tree, Linked) /\ color \in [Node -> Color]
  BY DEF IInv, TypeOK, Linked, UnlinkPointers, BlackShort
<1>2. ShortSide \in Side /\ Opp(ShortSide) \in Side
  BY SideFacts DEF ShortSide, Side
<1>3. GoodTree(Tree1, Linked)
  BY <1>1, <1>2, RotateGood DEF Tree1
<1>4. Color1 \in [Node -> Color]
  <2>1. PICK s \in NodeOrNull : s = tree.child[Opp(ShortSide)][par]
    BY <1>1, <1>2, Neighbours
  <2>2. Blacken(color, s) \in [Node -> Color]
    BY <1>1, PaintFacts
  <2>3. Paint(Blacken(color, s), par, "RED") \in [Node -> Color]
    BY <2>2, <1>1, PaintFacts DEF Color, NodeOrNull
  <2> QED BY <2>1, <2>3, <1>1 DEF Color1
<1>5. Sibling \in Linked \cup {NULL}
  BY <1>1, <1>2, <1>3, Neighbours DEF Sibling
<1> QED BY <1>1, <1>2, <1>3, <1>4, <1>5

\* erase_rebalance, cases 1 and 2 (rb_tree.hpp:289-307, 327-343).
LEMMA EraseRecolorStep ==
  ASSUME IInv, EraseRecolor
  PROVE  IInv'
<1>1. /\ Linked = live \ {z} /\ Linked \in SUBSET Node
      /\ par \in Linked
      /\ GoodTree(Tree1, Linked)
      /\ Color1 \in [Node -> Color]
      /\ Sibling \in Linked \cup {NULL}
  BY ShortFacts DEF EraseRecolor
<1>2. /\ UNCHANGED <<live, size_, pc, key, z, side>>
      /\ Sibling # NULL
      /\ tree' = Tree1
      /\ color' = Paint(Color1, Sibling, "RED")
      /\ cur' = par
      /\ par' = IF par = Tree1.root THEN par ELSE Tree1.parent[par]
      /\ pc = "erase_rebalance"
  BY DEF EraseRecolor, NephewsBlack
<1>3. Linked' = Linked
  BY <1>2 DEF Linked
<1>4. par' \in Linked
  BY <1>1, <1>2, Neighbours
<1>5. color' \in [Node -> Color]
  BY <1>1, <1>2, PaintFacts DEF NodeOrNull, Color
<1>6. TypeOK'
  BY <1>1, <1>2, <1>4, <1>5 DEF IInv, TypeOK, GoodTree, NodeOrNull
<1>7. SizeOK'
  BY <1>2 DEF IInv, SizeOK
<1>8. GoodTree(tree, Linked)'
  BY <1>1, <1>2, <1>3
<1>9. UnlinkPointers'
  BY <1>1, <1>2, <1>3, <1>4 DEF IInv, UnlinkPointers
<1>10. InsertPointers' /\ SearchPointers'
  BY <1>2 DEF InsertPointers, SearchPointers
<1> QED BY <1>6, <1>7, <1>8, <1>9, <1>10 DEF IInv

\* erase_rebalance, cases 1, 3 and 4 (rb_tree.hpp:308-361).
LEMMA EraseRotateStep ==
  ASSUME IInv, EraseRotate
  PROVE  IInv'
<1> DEFINE s == Tree3.child[Opp(ShortSide)][par]
           c == IF s = NULL THEN Color3 ELSE RepaintCase4(Tree3, Color3, s)
<1>1. /\ Linked = live \ {z} /\ Linked \in SUBSET Node
      /\ par \in Linked
      /\ ShortSide \in Side /\ Opp(ShortSide) \in Side
      /\ GoodTree(Tree1, Linked)
      /\ Color1 \in [Node -> Color]
      /\ Sibling \in Linked \cup {NULL}
  BY ShortFacts DEF EraseRotate
<1>2. /\ UNCHANGED <<live, size_, key, z, cur, par, side>>
      /\ tree' = Rotate(Tree3, par, ShortSide)
      /\ color' = Blacken(c, cur)
      /\ pc' = "delete"
      /\ pc = "erase_rebalance"
  BY DEF EraseRotate
<1>3. Linked' = Linked
  BY <1>2 DEF Linked
<1>4. GoodTree(Tree3, Linked)
  <2>1. CASE FarIsBlack
    <3>1. Sibling \in Linked
      BY <2>1, <1>1 DEF FarIsBlack
    <3> QED BY <2>1, <3>1, <1>1, RotateGood DEF Tree3
  <2>2. CASE ~FarIsBlack
    BY <2>2, <1>1 DEF Tree3
  <2> QED BY <2>1, <2>2
<1>5. GoodTree(tree', Linked)
  BY <1>1, <1>2, <1>4, RotateGood
<1>6. Color3 \in [Node -> Color]
  <2>1. CASE FarIsBlack
    <3>1. Sibling \in Linked
      BY <2>1, <1>1 DEF FarIsBlack
    <3>2. PICK m \in NodeOrNull : m = Tree1.child[ShortSide][Sibling]
      BY <3>1, <1>1, Neighbours
    <3>3. Blacken(Color1, m) \in [Node -> Color]
      BY <1>1, PaintFacts
    <3> QED BY <2>1, <3>1, <3>2, <3>3, <1>1, PaintFacts DEF Color3, NodeOrNull, Color
  <2>2. CASE ~FarIsBlack
    BY <2>2, <1>1 DEF Color3
  <2> QED BY <2>1, <2>2
<1>7. c \in [Node -> Color]
  <2>1. CASE s = NULL
    BY <2>1, <1>6
  <2>2. CASE s # NULL
    <3>1. s \in Linked
      BY <2>2, <1>1, <1>4, Neighbours
    <3>2. PICK m \in NodeOrNull : m = Tree3.child[Opp(ShortSide)][s]
      BY <3>1, <1>1, <1>4, Neighbours
    <3>3. Color3[par] \in Color
      BY <1>1, <1>6
    <3> HIDE DEF s
    <3>4. Paint(Color3, s, Color3[par]) \in [Node -> Color]
      BY <3>1, <3>3, <1>1, <1>6, PaintFacts DEF NodeOrNull
    <3>5. Blacken(Paint(Color3, s, Color3[par]), par) \in [Node -> Color]
      BY <3>4, <1>1, PaintFacts DEF NodeOrNull
    <3>6. RepaintCase4(Tree3, Color3, s) \in [Node -> Color]
      BY <3>2, <3>5, PaintFacts DEF RepaintCase4
    <3> QED BY <2>2, <3>6
  <2> QED BY <2>1, <2>2
<1> HIDE DEF s, c
<1>8. color' \in [Node -> Color]
  BY <1>2, <1>7, PaintFacts DEF IInv, TypeOK
<1>9. TypeOK'
  BY <1>2, <1>5, <1>8 DEF IInv, TypeOK, GoodTree, PC
<1>10. SizeOK'
  BY <1>2 DEF IInv, SizeOK
<1>11. GoodTree(tree, Linked)'
  BY <1>3, <1>5
<1>12. UnlinkPointers'
  BY <1>2, <1>3 DEF IInv, UnlinkPointers
<1>13. InsertPointers' /\ SearchPointers'
  BY <1>2 DEF InsertPointers, SearchPointers
<1> QED BY <1>9, <1>10, <1>11, <1>12, <1>13 DEF IInv

\* The end of erase_rebalance (rb_tree.hpp:363).
LEMMA EraseDoneStep ==
  ASSUME IInv, EraseDone
  PROVE  IInv'
<1>1. /\ UNCHANGED <<tree, live, size_, key, z, cur, par, side>>
      /\ color' = Blacken(color, cur)
      /\ pc' = "delete"
      /\ pc = "erase_rebalance"
  BY DEF EraseDone
<1>2. Linked' = Linked
  BY <1>1 DEF Linked
<1>3. color' \in [Node -> Color]
  BY <1>1, PaintFacts DEF IInv, TypeOK
<1>4. TypeOK' /\ SizeOK'
  BY <1>1, <1>3 DEF IInv, TypeOK, SizeOK, PC
<1>5. GoodTree(tree, Linked)'
  BY <1>1, <1>2 DEF IInv
<1>6. InsertPointers' /\ SearchPointers' /\ UnlinkPointers'
  BY <1>1, <1>2 DEF IInv, InsertPointers, SearchPointers, UnlinkPointers
<1> QED BY <1>4, <1>5, <1>6 DEF IInv

\* The erased node is deleted (rb_tree.hpp:537-538).
LEMMA DeleteStep ==
  ASSUME IInv, Delete
  PROVE  IInv'
<1>1. /\ pc = "delete"
      /\ live' = live \ {z}
      /\ size_' = size_ - 1
      /\ tree' = Scrub(tree, {z})
      /\ color' = ScrubColor(color, {z})
      /\ Return
  BY DEF Delete
<1>2. Linked = live \ {z} /\ Linked' = live \ {z} /\ z \in live /\ live \in SUBSET Node
  BY <1>1 DEF IInv, TypeOK, UnlinkPointers, Linked, Return
<1>3. GoodTree(tree, Linked)'
  BY <1>1, <1>2, ScrubGood DEF IInv
<1>4. SizeOK'
  BY <1>1, <1>2, FS_RemoveElement DEF IInv, SizeOK
<1>5. size_' \in Nat
  BY <1>4, FS_CardinalityType DEF SizeOK
<1>6. color' \in [Node -> Color]
  BY <1>1 DEF IInv, TypeOK, ScrubColor, Color
<1>7. tree' \in Tree
  BY <1>3 DEF GoodTree
<1>8. TypeOK'
  <2>1. live' \subseteq Node
    BY <1>1, <1>2
  <2>2. /\ pc' \in PC
        /\ key' \in Int
        /\ z' \in NodeOrNull /\ cur' \in NodeOrNull /\ par' \in NodeOrNull
        /\ side' \in Side
    BY <1>1 DEF Return, NodeOrNull, Side, PC
  <2> QED BY <2>1, <2>2, <1>5, <1>6, <1>7 DEF TypeOK
<1>9. InsertPointers' /\ SearchPointers' /\ UnlinkPointers'
  BY <1>1, IdlePointers DEF Return
<1> QED BY <1>3, <1>4, <1>8, <1>9 DEF IInv
-----------------------------------------------------------------------------
\* clear deletes every node (rb_tree.hpp:441-445).
LEMMA ClearStep ==
  ASSUME IInv, Clear
  PROVE  IInv'
<1>1. /\ pc = "idle"
      /\ tree' = SetRoot(Scrub(tree, live), NULL)
      /\ color' = ScrubColor(color, live)
      /\ live' = {}
      /\ size_' = 0
      /\ UNCHANGED <<pc, key, z, cur, par, side>>
  BY DEF Clear
<1>2. Linked' = {}
  BY <1>1 DEF Linked
<1>3. GoodTree(tree, Linked)'
  <2>1. PICK r : r = Scrub(tree, live)
    OBVIOUS
  <2>2. r \in Tree
    BY <2>1, ScrubFacts DEF IInv, TypeOK, Scrubbed
  <2>3. RootSet(tree', r, NULL)
    BY <2>1, <2>2, <1>1, SetRootFacts DEF NodeOrNull
  <2> QED BY <2>3, <1>2, NoNodesGood DEF RootSet
<1>4. color' \in [Node -> Color]
  BY <1>1 DEF IInv, TypeOK, ScrubColor, Color
<1>5. tree' \in Tree
  BY <1>3 DEF GoodTree
<1>6. TypeOK'
  BY <1>1, <1>4, <1>5 DEF IInv, TypeOK
<1>7. SizeOK'
  BY <1>1, FS_EmptySet DEF SizeOK
<1>8. InsertPointers' /\ SearchPointers' /\ UnlinkPointers'
  BY <1>1, IdlePointers
<1> QED BY <1>3, <1>6, <1>7, <1>8 DEF IInv

\* A step that changes no variable.
LEMMA StutterStep ==
  ASSUME IInv, UNCHANGED vars
  PROVE  IInv'
<1>1. TypeOK' /\ SizeOK'
  BY DEF IInv, TypeOK, SizeOK, vars
<1>2. GoodTree(tree, Linked)' /\ Linked' = Linked
  BY DEF IInv, vars, Linked
<1>3. InsertPointers' /\ SearchPointers' /\ UnlinkPointers'
  BY <1>2 DEF IInv, vars, InsertPointers, SearchPointers, UnlinkPointers
<1> QED BY <1>1, <1>2, <1>3 DEF IInv

\* Every step of the tree preserves the invariant.
LEMMA NextStep ==
  ASSUME IInv, [Next]_vars, ~RhsFirst
  PROVE  IInv'
<1>1. CASE \E n \in Node : InsertCall(n)
  BY <1>1, InsertCallStep
<1>2. CASE \E k \in Keys : EraseCall(k)
  BY <1>2, EraseCallStep
<1>3. CASE Clear
  BY <1>3, ClearStep
<1>4. CASE Descend \/ Attach \/ AttachFails
  BY <1>4, DescendStep, AttachStep, AttachFailsStep
<1>5. CASE InsertRecolor \/ InsertRotate \/ InsertDone
  BY <1>5, InsertRecolorStep, InsertRotateStep, InsertDoneStep
<1>6. CASE Find \/ NotFound \/ SpliceOut \/ SeekSuccessor
  BY <1>6, FindStep, NotFoundStep, SpliceOutStep, SeekSuccessorStep
<1>7. CASE GoLeft \/ ReplaceBySuccessor
  BY <1>7, GoLeftStep, ReplaceBySuccessorStep
<1>8. CASE EraseRecolor \/ EraseRotate \/ EraseDone \/ Delete
  BY <1>8, EraseRecolorStep, EraseRotateStep, EraseDoneStep, DeleteStep
<1>9. CASE UNCHANGED vars
  BY <1>9, StutterStep
<1> QED BY <1>1, <1>2, <1>3, <1>4, <1>5, <1>6, <1>7, <1>8, <1>9 DEF Next, Step

\* Every state of every history of insert, erase and clear satisfies the
\* inductive invariant.
THEOREM Invariance == ASSUME ~RhsFirst PROVE Spec => []IInv
<1>1. Init => IInv
  BY InitIInv
<1>2. IInv /\ [Next]_vars => IInv'
  BY NextStep
<1> QED BY <1>1, <1>2, PTL DEF Spec

\* Every variable keeps its type: no link leads outside the nodes, and size_
\* never wraps below zero.
THEOREM TypeCorrect == ASSUME ~RhsFirst PROVE Spec => []TypeOK
<1>1. IInv => TypeOK
  BY DEF IInv
<1> QED BY <1>1, Invariance, PTL

\* What verify_binary_tree checks holds at every step of insert, erase and
\* clear, between two rotations too, and no linked node points to a deleted one.
THEOREM LinksCorrect == ASSUME ~RhsFirst PROVE Spec => []LinksOK
<1>1. IInv => LinksOK
  BY DEF IInv, GoodTree, LinksOK
<1> QED BY <1>1, Invariance, PTL

\* size_ is the number of nodes allocated and not deleted, at every step.
THEOREM SizeCorrect == ASSUME ~RhsFirst PROVE Spec => []SizeOK
<1>1. IInv => SizeOK
  BY DEF IInv
<1> QED BY <1>1, Invariance, PTL
=============================================================================
