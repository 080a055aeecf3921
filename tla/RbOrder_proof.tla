---------------------------- MODULE RbOrder_proof ----------------------------
(***************************************************************************)
(* Theorems about the order of the elements in RbTree: the nodes of the    *)
(* tree form one sequence in key order, which rotations and recolourings   *)
(* leave as it is and which insert, erase and clear change as the abstract *)
(* specification OrderedElements says.                                     *)
(*                                                                         *)
(* The sequence is kept beside the tree, with the position of every node   *)
(* in it and the positions that bound the subtree of every node.           *)
(***************************************************************************)
EXTENDS RbBalance_proof, SequenceTheorems

\* s lists the nodes of S, each once; at[n] is the position of n.
Lists(s, at, S) ==
  /\ s \in Seq(S)
  /\ at \in [Node -> Int]
  /\ \A n \in S : at[n] \in 1 .. Len(s) /\ s[at[n]] = n
  /\ \A i \in 1 .. Len(s) : at[s[i]] = i

\* The position next to i on side d.
Beside(i, d) == IF d = "L" THEN i - 1 ELSE i + 1

\* The subtree of n takes the positions between b["L"][n] and b["R"][n].
Spans(t, S, s, at, b) ==
  /\ b \in [Side -> [Node -> Int]]
  /\ t.root # NULL => b["L"][t.root] = 0 /\ b["R"][t.root] = Len(s) + 1
  /\ \A n \in S : /\ 0 <= b["L"][n] /\ b["L"][n] < at[n]
                  /\ at[n] < b["R"][n] /\ b["R"][n] <= Len(s) + 1
  /\ \A n \in S, d \in Side :
       IF t.child[d][n] = NULL THEN b[d][n] = Beside(at[n], d)
       ELSE /\ b[d][t.child[d][n]] = b[d][n]
            /\ b[Opp(d)][t.child[d][n]] = at[n]

\* What the proofs use of the positions: they are numbers, and each side of a
\* node says where its span ends.
Measured(t, S, s, at, b) ==
  /\ Len(s) \in Nat
  /\ \A m \in Node : at[m] \in Int
  /\ \A e \in Side, m \in Node : b[e][m] \in Int
  /\ \A m \in S, e \in Side :
       IF t.child[e][m] = NULL THEN b[e][m] = Beside(at[m], e)
       ELSE /\ b[e][t.child[e][m]] = b[e][m]
            /\ b[Opp(e)][t.child[e][m]] = at[m]

\* The functions of Lists and Spans, as far as their values go.
LEMMA SpanFacts ==
  ASSUME NEW t, NEW S \in SUBSET Node, NEW s, NEW at, NEW b,
         Lists(s, at, S), Spans(t, S, s, at, b)
  PROVE  Measured(t, S, s, at, b)
<1>1. at \in [Node -> Int] /\ b \in [Side -> [Node -> Int]] /\ Len(s) \in Nat
  BY LenProperties DEF Lists, Spans
<1>2. \A e \in Side : b[e] \in [Node -> Int]
  BY <1>1
<1> QED BY <1>1, <1>2 DEF Spans, Measured

\* A position that bounds a subtree is that of a node with a child on the side
\* the subtree is on.
LEMMA BoundHasChild ==
  ASSUME NEW t, NEW S \in SUBSET Node, GoodTree(t, S),
         NEW s, NEW at, NEW b, Lists(s, at, S), Spans(t, S, s, at, b),
         NEW n \in S, NEW d \in Side, b[d][n] \in 1 .. Len(s)
  PROVE  t.child[Opp(d)][s[b[d][n]]] # NULL
<1>1. PICK f \in [Node -> Nat] : LayeredBy(t, S, f)
  BY DEF GoodTree
<1> DEFINE T == {m \in S : b[d][m] \in 1 .. Len(s) /\ t.child[Opp(d)][s[b[d][m]]] = NULL}
<1>2. SUFFICES ASSUME n \in T PROVE FALSE
  OBVIOUS
<1>3. PICK m \in T : \A k \in T : f[k] >= f[m]
  BY <1>2, HighestNode
<1>4. m \in S /\ b[d][m] \in 1 .. Len(s) /\ t.child[Opp(d)][s[b[d][m]]] = NULL
  OBVIOUS
<1>5. m # t.root
  <2>1. m # NULL /\ Len(s) \in Nat
    BY <1>4, NullAssumption, LenProperties DEF Lists
  <2>2. m = t.root => b[d][m] = 0 \/ b[d][m] = Len(s) + 1
    BY <2>1 DEF Spans, Side
  <2> QED BY <2>1, <2>2, <1>4
<1>6. PICK p \in S : p = t.parent[m]
  BY <1>4, <1>5, Neighbours
<1>7. PICK e \in Side : e = SideOf(t, m)
  BY <1>4, SlotFacts
<1>8. t.child[e][p] = m /\ p # NULL /\ m # NULL
  BY <1>4, <1>6, <1>7, SlotFacts, NullAssumption
<1>9. b[e][m] = b[e][p] /\ b[Opp(e)][m] = at[p]
  BY <1>8 DEF Spans
<1>10. CASE e = d
  <2>1. p \in T
    BY <1>4, <1>9, <1>10
  <2>2. f[m] > f[p] /\ f[m] \in Nat /\ f[p] \in Nat
    BY <1>1, <1>4, <1>8 DEF LayeredBy
  <2> QED BY <2>1, <2>2, <1>3
<1>11. CASE e = Opp(d)
  <2>1. Opp(e) = d
    BY <1>11, SideFacts
  <2>2. s[b[d][m]] = p
    BY <2>1, <1>9 DEF Lists
  <2> QED BY <2>2, <1>4, <1>8, <1>11
<1> QED BY <1>10, <1>11, SideFacts

\* A rotation moves no node to another position.
LEMMA TurnSpans ==
  ASSUME NEW t, NEW S \in SUBSET Node, GoodTree(t, S), NEW n \in S, NEW d \in Side,
         NEW r, NEW pivot, Turned(r, t, S, n, d, pivot),
         NEW s, NEW at, NEW b, Lists(s, at, S), Spans(t, S, s, at, b)
  PROVE  \E b2 : Spans(r, S, s, at, b2)
<1>1. PICK o \in Side : o = Opp(d) /\ o # d /\ Opp(o) = d /\ \A e \in Side : e = d \/ e = o
  BY SideFacts
<1>2. /\ pivot \in S /\ pivot # n /\ t.child[o][n] = pivot /\ pivot # NULL
      /\ t.child[d][n] \in (S \cup {NULL}) \ {n, pivot}
      /\ \A e \in Side : t.child[e][pivot] \in (S \cup {NULL}) \ {n, pivot}
      /\ r.child[d][pivot] = n
      /\ r.child[o][pivot] = t.child[o][pivot]
      /\ r.child[d][n] = t.child[d][n]
      /\ r.child[o][n] = t.child[d][pivot]
      /\ \A m \in S \ {n, pivot}, e \in Side :
           /\ t.child[e][m] \in (S \cup {NULL}) \ {pivot}
           /\ r.child[e][m] = IF t.child[e][m] = n THEN pivot ELSE t.child[e][m]
  BY <1>1, TurnParts, NullAssumption
<1> DEFINE b2 == [e \in Side |-> [m \in Node |->
                    IF m = pivot /\ e = d THEN b[d][n]
                    ELSE IF m = n /\ e = o THEN at[pivot] ELSE b[e][m]]]
<1>3. /\ \A m \in Node : at[m] \in Int
      /\ \A e \in Side, m \in Node : b[e][m] \in Int
      /\ \A m \in S, e \in Side :
           IF t.child[e][m] = NULL THEN b[e][m] = Beside(at[m], e)
           ELSE /\ b[e][t.child[e][m]] = b[e][m]
                /\ b[Opp(e)][t.child[e][m]] = at[m]
  <2>1. Measured(t, S, s, at, b)
    BY SpanFacts
  <2> QED BY <2>1 DEF Measured
<1>4. b2 \in [Side -> [Node -> Int]]
  <2>1. n \in Node /\ pivot \in Node
    BY <1>2
  <2>2. at[pivot] \in Int /\ b[d][n] \in Int
    BY <2>1, <1>3
  <2>3. \A e \in Side, m \in Node :
          (IF m = pivot /\ e = d THEN b[d][n]
           ELSE IF m = n /\ e = o THEN at[pivot] ELSE b[e][m]) \in Int
    BY <2>2, <1>3
  <2> QED BY <2>3
<1>5. /\ b2[d][pivot] = b[d][n] /\ b2[o][pivot] = b[o][pivot]
      /\ b2[d][n] = b[d][n] /\ b2[o][n] = at[pivot]
      /\ \A m \in S \ {n, pivot}, e \in Side : b2[e][m] = b[e][m]
  BY <1>1, <1>2
<1> HIDE DEF b2
<1>6. b[o][pivot] = b[o][n] /\ b[d][pivot] = at[n]
  BY <1>1, <1>2 DEF Spans
<1>7. \A e \in Side : b2[e][pivot] = b[e][n]
  BY <1>1, <1>5, <1>6
<1>8. r.root # NULL => b2["L"][r.root] = 0 /\ b2["R"][r.root] = Len(s) + 1
  <2>1. "L" \in Side /\ "R" \in Side
    BY DEF Side
  <2>2. r.root = (IF t.root = n THEN pivot ELSE t.root)
    BY DEF Turned
  <2>3. CASE t.root = n
    BY <2>1, <2>2, <2>3, <1>7, NullAssumption DEF Spans
  <2>4. CASE t.root # n
    <3>1. t.root # pivot
      BY <1>1, <1>2, SlotOf, Neighbours, NullAssumption
    <3>2. t.root \in S
      BY Neighbours
    <3> QED BY <2>1, <2>2, <2>4, <3>1, <3>2, <1>5 DEF Spans
  <2> QED BY <2>3, <2>4
<1>9. ASSUME NEW m \in S
      PROVE  /\ 0 <= b2["L"][m] /\ b2["L"][m] < at[m]
             /\ at[m] < b2["R"][m] /\ b2["R"][m] <= Len(s) + 1
  <2>1. /\ 0 <= b["L"][m] /\ b["L"][m] < at[m]
        /\ at[m] < b["R"][m] /\ b["R"][m] <= Len(s) + 1
        /\ 0 <= b["L"][n] /\ b["L"][n] < at[n]
        /\ at[n] < b["R"][n] /\ b["R"][n] <= Len(s) + 1
        /\ 0 <= b["L"][pivot] /\ b["L"][pivot] < at[pivot]
        /\ at[pivot] < b["R"][pivot] /\ b["R"][pivot] <= Len(s) + 1
        /\ Len(s) \in Nat
        /\ at[pivot] \in Int /\ at[n] \in Int /\ at[m] \in Int
        /\ "L" \in Side /\ "R" \in Side
    BY <1>2, <1>3, LenProperties DEF Spans, Lists, Side
  <2>2. /\ b["L"][n] \in Int /\ b["R"][n] \in Int
        /\ b["L"][pivot] \in Int /\ b["R"][pivot] \in Int
    BY <2>1, <1>2, <1>3
  <2>3. CASE m = pivot
    <3>1. b2["L"][m] = b["L"][n] /\ b2["R"][m] = b["R"][n]
      BY <2>1, <2>3, <1>7
    <3>2. CASE d = "L"
      BY <2>1, <2>2, <2>3, <3>1, <3>2, <1>1, <1>6 DEF Side
    <3>3. CASE d = "R"
      BY <2>1, <2>2, <2>3, <3>1, <3>3, <1>1, <1>6 DEF Side
    <3> QED BY <3>2, <3>3 DEF Side
  <2>4. CASE m = n
    <3>1. CASE d = "L"
      BY <2>1, <2>2, <2>4, <3>1, <1>1, <1>5, <1>6 DEF Side
    <3>2. CASE d = "R"
      BY <2>1, <2>2, <2>4, <3>2, <1>1, <1>5, <1>6 DEF Side
    <3> QED BY <3>1, <3>2 DEF Side
  <2>5. CASE m # pivot /\ m # n
    BY <2>1, <2>5, <1>5
  <2> QED BY <2>3, <2>4, <2>5
<1>10. ASSUME NEW m \in S, NEW e \in Side
       PROVE  IF r.child[e][m] = NULL THEN b2[e][m] = Beside(at[m], e)
              ELSE /\ b2[e][r.child[e][m]] = b2[e][m]
                   /\ b2[Opp(e)][r.child[e][m]] = at[m]
  <2>1. /\ IF t.child[e][m] = NULL THEN b[e][m] = Beside(at[m], e)
           ELSE /\ b[e][t.child[e][m]] = b[e][m]
                /\ b[Opp(e)][t.child[e][m]] = at[m]
        /\ IF t.child[e][n] = NULL THEN b[e][n] = Beside(at[n], e)
           ELSE /\ b[e][t.child[e][n]] = b[e][n]
                /\ b[Opp(e)][t.child[e][n]] = at[n]
        /\ IF t.child[e][pivot] = NULL THEN b[e][pivot] = Beside(at[pivot], e)
           ELSE /\ b[e][t.child[e][pivot]] = b[e][pivot]
                /\ b[Opp(e)][t.child[e][pivot]] = at[pivot]
        /\ Opp(e) \in Side
    BY <1>2, <1>3, SideFacts
  <2>2. CASE m = pivot /\ e = d
    BY <2>2, <1>1, <1>2, <1>5, NullAssumption
  <2>3. CASE m = pivot /\ e = o
    BY <2>1, <2>3, <1>1, <1>2, <1>5
  <2>4. CASE m = n /\ e = d
    BY <2>1, <2>4, <1>1, <1>2, <1>5
  <2>5. CASE m = n /\ e = o
    <3>1. PICK x \in (S \cup {NULL}) \ {n, pivot} : x = t.child[d][pivot]
      BY <1>2
    <3>2. IF x = NULL THEN b[d][pivot] = Beside(at[pivot], d)
          ELSE b[d][x] = b[d][pivot] /\ b[o][x] = at[pivot]
      BY <3>1, <1>1, <1>2, <1>3
    <3>3. CASE x = NULL
      <4>1. at[n] = Beside(at[pivot], d)
        BY <3>2, <3>3, <1>6
      <4>2. at[pivot] = Beside(at[n], o)
        BY <4>1, <1>1, <1>2, <1>3 DEF Beside, Side
      <4> QED BY <4>2, <3>1, <3>3, <2>5, <1>2, <1>5
    <3>4. CASE x # NULL
      <4>1. b2[d][x] = at[n] /\ b2[o][x] = at[pivot]
        BY <3>1, <3>2, <3>4, <1>1, <1>5, <1>6
      <4> QED BY <4>1, <3>1, <3>4, <2>5, <1>1, <1>2, <1>5
    <3> QED BY <3>3, <3>4
  <2>6. CASE m # pivot /\ m # n
    <3>1. PICK c \in S \cup {NULL} : c = t.child[e][m]
      BY Neighbours
    <3>0. r.child[e][m] = IF c = n THEN pivot ELSE c
      BY <3>1, <2>6, <1>2
    <3>4. c # pivot
      BY <3>1, <2>6, <1>2
    <3>2. CASE c = n
      <4>1. r.child[e][m] = pivot
        BY <3>0, <3>2
      <4>2. b[e][n] = b[e][m] /\ b[Opp(e)][n] = at[m]
        BY <3>1, <3>2, <2>1, NullAssumption
      <4> QED BY <4>1, <4>2, <2>1, <2>6, <1>2, <1>5, <1>7
    <3>3. CASE c # n
      <4>1. r.child[e][m] = c
        BY <3>0, <3>3
      <4>2. c # NULL => \A f \in Side : b2[f][c] = b[f][c]
        BY <3>3, <3>4, <1>5
      <4> QED BY <4>1, <4>2, <3>1, <2>1, <2>6, <1>5
    <3> QED BY <3>2, <3>3
  <2> QED BY <2>2, <2>3, <2>4, <2>5, <2>6, <1>1
<1>11. Spans(r, S, s, at, b2)
  BY <1>4, <1>8, <1>9, <1>10 DEF Spans
<1> QED BY <1>11
-----------------------------------------------------------------------------
(***************************************************************************)
(* One element more, and one element less.                                 *)
(***************************************************************************)
Inserted(s, k, n) == SubSeq(s, 1, k - 1) \o <<n>> \o SubSeq(s, k, Len(s))

Removed(s, k) == SubSeq(s, 1, k - 1) \o SubSeq(s, k + 1, Len(s))

\* The elements of a part of a sequence.
LEMMA PartFacts ==
  ASSUME NEW S, NEW s \in Seq(S), NEW i \in 1 .. Len(s) + 1, NEW j \in i - 1 .. Len(s)
  PROVE  /\ SubSeq(s, i, j) \in Seq(S)
         /\ Len(SubSeq(s, i, j)) = j - i + 1
         /\ \A m \in 1 .. j - i + 1 : SubSeq(s, i, j)[m] = s[i + m - 1]
<1>1. Len(s) \in Nat /\ i \in Int /\ j \in Int
  BY LenProperties
<1>2. \A m \in i .. j : s[m] \in S
  <2>1. ASSUME NEW m \in i .. j PROVE s[m] \in S
    <3>1. m \in 1 .. Len(s)
      BY <1>1
    <3> QED BY <3>1, ElementOfSeq
  <2> QED BY <2>1
<1>3. /\ SubSeq(s, i, j) \in Seq(S)
      /\ Len(SubSeq(s, i, j)) = IF i <= j THEN j - i + 1 ELSE 0
      /\ \A m \in 1 .. j - i + 1 : SubSeq(s, i, j)[m] = s[i + m - 1]
  BY <1>1, <1>2, SubSeqProperties
<1> QED BY <1>1, <1>3

\* The elements behind the place of the new one move up by one.
LEMMA InsertedFacts ==
  ASSUME NEW S, NEW s \in Seq(S), NEW k \in 1 .. Len(s) + 1, NEW n \in S
  PROVE  /\ Inserted(s, k, n) \in Seq(S)
         /\ Len(Inserted(s, k, n)) = Len(s) + 1
         /\ \A i \in 1 .. Len(s) + 1 :
              Inserted(s, k, n)[i] = IF i < k THEN s[i] ELSE IF i = k THEN n ELSE s[i - 1]
<1>1. PICK l \in Nat : l = Len(s)
  BY LenProperties
<1>2. k \in 1 .. l + 1 /\ k \in Int
  BY <1>1
<1>3. PICK a \in Seq(S) : a = SubSeq(s, 1, k - 1) /\ Len(a) = k - 1
                          /\ \A m \in 1 .. k - 1 : a[m] = s[m]
  <2>1. PICK i \in Int, j \in Int : i = 1 /\ j = k - 1
    BY <1>2
  <2>2. i \in 1 .. Len(s) + 1 /\ j \in i - 1 .. Len(s) /\ j - i + 1 = k - 1
    BY <2>1, <1>1, <1>2
  <2>3. PICK a : a = SubSeq(s, i, j)
    OBVIOUS
  <2>4. a \in Seq(S) /\ Len(a) = k - 1 /\ \A m \in 1 .. k - 1 : a[m] = s[i + m - 1]
    BY <2>2, <2>3, PartFacts
  <2>5. \A m \in 1 .. k - 1 : i + m - 1 = m
    BY <2>1, <1>2
  <2> QED BY <2>1, <2>3, <2>4, <2>5
<1>4. PICK c \in Seq(S) : c = SubSeq(s, k, Len(s)) /\ Len(c) = l - k + 1
                          /\ \A m \in 1 .. l - k + 1 : c[m] = s[k + m - 1]
  <2>1. Len(s) \in k - 1 .. Len(s)
    BY <1>1, <1>2
  <2>2. PICK c : c = SubSeq(s, k, Len(s))
    OBVIOUS
  <2>3. c \in Seq(S) /\ Len(c) = l - k + 1 /\ \A m \in 1 .. l - k + 1 : c[m] = s[k + m - 1]
    BY <2>1, <2>2, <1>1, PartFacts
  <2> QED BY <2>2, <2>3
<1>5. <<n>> \in Seq(S) /\ Len(<<n>>) = 1 /\ <<n>>[1] = n
  OBVIOUS
<1>6. PICK e : e = a \o <<n>>
  OBVIOUS
<1>7. e \in Seq(S) /\ Len(e) = k /\ \A i \in 1 .. k : e[i] = IF i < k THEN a[i] ELSE n
  <2>1. /\ e \in Seq(S) /\ Len(e) = Len(a) + 1
        /\ \A i \in 1 .. Len(a) + 1 :
             e[i] = IF i <= Len(a) THEN a[i] ELSE <<n>>[i - Len(a)]
    BY <1>5, <1>6, ConcatProperties
  <2>2. Len(a) + 1 = k /\ Len(a) = k - 1
    BY <1>2, <1>3
  <2>3. ASSUME NEW i \in 1 .. k PROVE e[i] = IF i < k THEN a[i] ELSE n
    <3>1. i \in 1 .. Len(a) + 1
      BY <2>2
    <3>2. CASE i < k
      <4>1. i <= Len(a)
        BY <3>2, <2>2, <1>2
      <4> QED BY <4>1, <3>1, <3>2, <2>1
    <3>3. CASE ~(i < k)
      <4>1. ~(i <= Len(a)) /\ i - Len(a) = 1
        BY <3>3, <2>2, <1>2
      <4> QED BY <4>1, <3>1, <3>3, <2>1, <1>5
    <3> QED BY <3>2, <3>3
  <2> QED BY <2>1, <2>2, <2>3
<1>8. Inserted(s, k, n) = e \o c
  BY <1>3, <1>4, <1>6 DEF Inserted
<1>9. /\ e \o c \in Seq(S) /\ Len(e \o c) = Len(e) + Len(c)
      /\ \A i \in 1 .. Len(e) + Len(c) :
           (e \o c)[i] = IF i <= Len(e) THEN e[i] ELSE c[i - Len(e)]
  BY SMTT(30), <1>4, <1>7, ConcatProperties
<1>10. Len(e) + Len(c) = l + 1
  BY <1>2, <1>4, <1>7
<1>11. ASSUME NEW i \in 1 .. l + 1
       PROVE  (e \o c)[i] = IF i < k THEN s[i] ELSE IF i = k THEN n ELSE s[i - 1]
  <2>1. (e \o c)[i] = IF i <= k THEN e[i] ELSE c[i - k]
    BY <1>7, <1>9, <1>10
  <2>2. CASE i <= k
    <3>1. i \in 1 .. k
      BY <2>2, <1>2
    <3>2. e[i] = IF i < k THEN a[i] ELSE n
      BY <3>1, <1>7
    <3>3. i < k => a[i] = s[i]
      BY <3>1, <1>2, <1>3
    <3> QED BY <2>1, <2>2, <3>2, <3>3, <3>1, <1>2
  <2>3. CASE ~(i <= k)
    <3>1. i - k \in 1 .. l - k + 1 /\ k + (i - k) - 1 = i - 1 /\ ~(i < k) /\ i # k
      BY <2>3, <1>2
    <3>2. c[i - k] = s[k + (i - k) - 1]
      BY <3>1, <1>4
    <3> QED BY <3>1, <3>2, <2>1, <2>3
  <2> QED BY <2>2, <2>3
<1> QED BY <1>1, <1>8, <1>9, <1>10, <1>11

\* The elements behind the removed one move down by one.
LEMMA RemovedFacts ==
  ASSUME NEW S, NEW s \in Seq(S), NEW k \in 1 .. Len(s)
  PROVE  /\ Removed(s, k) \in Seq(S)
         /\ Len(Removed(s, k)) = Len(s) - 1
         /\ \A i \in 1 .. Len(s) - 1 :
              Removed(s, k)[i] = IF i < k THEN s[i] ELSE s[i + 1]
<1>1. PICK l \in Nat : l = Len(s)
  BY LenProperties
<1>2. k \in 1 .. l /\ k \in Int
  BY <1>1
<1>3. PICK a \in Seq(S) : a = SubSeq(s, 1, k - 1) /\ Len(a) = k - 1
                          /\ \A m \in 1 .. k - 1 : a[m] = s[m]
  <2>1. PICK i \in Int, j \in Int : i = 1 /\ j = k - 1
    BY <1>2
  <2>2. i \in 1 .. Len(s) + 1 /\ j \in i - 1 .. Len(s) /\ j - i + 1 = k - 1
    BY <2>1, <1>1, <1>2
  <2>3. PICK a : a = SubSeq(s, i, j)
    OBVIOUS
  <2>4. a \in Seq(S) /\ Len(a) = k - 1 /\ \A m \in 1 .. k - 1 : a[m] = s[i + m - 1]
    BY <2>2, <2>3, PartFacts
  <2>5. \A m \in 1 .. k - 1 : i + m - 1 = m
    BY <2>1, <1>2
  <2> QED BY <2>1, <2>3, <2>4, <2>5
<1>4. PICK c \in Seq(S) : c = SubSeq(s, k + 1, Len(s)) /\ Len(c) = l - k
                          /\ \A m \in 1 .. l - k : c[m] = s[k + m]
  <2>1. PICK i \in Int : i = k + 1
    BY <1>2
  <2>2. i \in 1 .. Len(s) + 1 /\ Len(s) \in i - 1 .. Len(s) /\ l - i + 1 = l - k
    BY <2>1, <1>1, <1>2
  <2>3. PICK c : c = SubSeq(s, i, Len(s))
    OBVIOUS
  <2>4. c \in Seq(S) /\ Len(c) = l - k /\ \A m \in 1 .. l - k : c[m] = s[i + m - 1]
    <3>1. i \in 1 .. Len(s) + 1 /\ l \in i - 1 .. Len(s)
      BY <2>2, <1>1
    <3>2. SubSeq(s, i, l) \in Seq(S) /\ Len(SubSeq(s, i, l)) = l - i + 1
      BY <3>1, PartFacts
    <3>3. \A m \in 1 .. l - i + 1 : SubSeq(s, i, l)[m] = s[i + m - 1]
      BY <3>1, PartFacts
    <3> QED BY <3>2, <3>3, <2>2, <2>3, <1>1
  <2>5. ASSUME NEW m \in 1 .. l - k PROVE c[m] = s[k + m]
    <3>1. i + m - 1 = k + m
      BY <2>1, <1>1, <1>2
    <3> QED BY <3>1, <2>4
  <2> QED BY <2>1, <2>3, <2>4, <2>5
<1>5. Removed(s, k) = a \o c
  BY <1>3, <1>4 DEF Removed
<1>6. /\ a \o c \in Seq(S) /\ Len(a \o c) = Len(a) + Len(c)
      /\ \A i \in 1 .. Len(a) + Len(c) :
           (a \o c)[i] = IF i <= Len(a) THEN a[i] ELSE c[i - Len(a)]
  BY ConcatProperties
<1>7. Len(a) + Len(c) = l - 1
  <2>1. Len(a) = k - 1 /\ Len(c) = l - k
    BY <1>3, <1>4
  <2>2. (k - 1) + (l - k) = l - 1
    BY <1>2
  <2> QED BY <2>1, <2>2
<1>8. ASSUME NEW i \in 1 .. l - 1
      PROVE  (a \o c)[i] = IF i < k THEN s[i] ELSE s[i + 1]
  <2>1. (a \o c)[i] = IF i <= k - 1 THEN a[i] ELSE c[i - (k - 1)]
    BY <1>3, <1>6, <1>7
  <2>2. CASE i < k
    <3>1. i \in 1 .. k - 1 /\ i <= k - 1
      BY <2>2, <1>2
    <3> QED BY <3>1, <2>1, <2>2, <1>3
  <2>3. CASE ~(i < k)
    <3>1. i - (k - 1) \in 1 .. l - k /\ k + (i - (k - 1)) = i + 1 /\ ~(i <= k - 1)
      BY <2>3, <1>2
    <3>2. c[i - (k - 1)] = s[k + (i - (k - 1))]
      BY <3>1, <1>4
    <3> QED BY <3>1, <3>2, <2>1, <2>3
  <2> QED BY <2>2, <2>3
<1> QED BY <1>1, <1>5, <1>6, <1>7, <1>8

\* The position of a new leaf on side d of p.
SlotAt(at, p, d) == IF d = "L" THEN at[p] ELSE at[p] + 1

\* A new leaf in the empty slot of p takes the position next to p on that side,
\* and everything behind it moves up.
LEMMA AttachSpans ==
  ASSUME NEW t, NEW S \in SUBSET Node, GoodTree(t, S), NEW n \in Node \ S,
         NEW p \in S, NEW d \in Side, t.child[d][p] = NULL,
         NEW r, Attached(r, t, n, p, d),
         NEW s, NEW at, NEW b, Lists(s, at, S), Spans(t, S, s, at, b),
         NEW k \in Int, k = SlotAt(at, p, d)
  PROVE  /\ k \in 1 .. Len(s) + 1
         /\ \E at2, b2 : /\ Lists(Inserted(s, k, n), at2, S \cup {n})
                         /\ Spans(r, S \cup {n}, Inserted(s, k, n), at2, b2)
<1>1. PICK l \in Nat : l = Len(s)
  BY LenProperties DEF Lists
<1>2. /\ \A m \in Node : at[m] \in Int
      /\ \A e \in Side, m \in Node : b[e][m] \in Int
      /\ \A m \in S, e \in Side :
           IF t.child[e][m] = NULL THEN b[e][m] = Beside(at[m], e)
           ELSE /\ b[e][t.child[e][m]] = b[e][m]
                /\ b[Opp(e)][t.child[e][m]] = at[m]
  <2>1. Measured(t, S, s, at, b)
    BY SpanFacts
  <2> QED BY <2>1 DEF Measured
<1>3. \A m \in S : at[m] \in 1 .. l /\ s[at[m]] = m
  BY <1>1 DEF Lists
<1>4. k \in 1 .. l + 1 /\ k \in Int /\ p \in Node /\ n # p /\ n # NULL /\ p # NULL
  BY <1>2, <1>3, NullAssumption DEF SlotAt
<1>5. PICK s2 : s2 = Inserted(s, k, n)
  OBVIOUS
<1>6. /\ s2 \in Seq(S \cup {n})
      /\ Len(s2) = l + 1
      /\ \A i \in 1 .. l + 1 :
           s2[i] = IF i < k THEN s[i] ELSE IF i = k THEN n ELSE s[i - 1]
  <2>1. PICK T : T = S \cup {n}
    OBVIOUS
  <2>2. s \in Seq(T)
    <3>1. s \in Seq(S) /\ S \subseteq T
      BY <2>1 DEF Lists
    <3> QED BY <3>1, SeqMonotonic
  <2>3. k \in 1 .. Len(s) + 1 /\ n \in T
    BY <2>1, <1>1, <1>4
  <2>4. Inserted(s, k, n) \in Seq(T) /\ Len(Inserted(s, k, n)) = Len(s) + 1
    BY <2>2, <2>3, InsertedFacts
  <2>5. ASSUME NEW i \in 1 .. Len(s) + 1
        PROVE  Inserted(s, k, n)[i] =
                 IF i < k THEN s[i] ELSE IF i = k THEN n ELSE s[i - 1]
    BY <2>2, <2>3, InsertedFacts
  <2> QED BY <2>1, <2>4, <2>5, <1>1, <1>5
<1> DEFINE up(v) == IF v >= k THEN v + 1 ELSE v
           at2 == [m \in Node |-> IF m = n THEN k ELSE up(at[m])]
           b2  == [e \in Side |-> [m \in Node |->
                     IF m = n THEN (IF e = d THEN up(b[d][p]) ELSE up(at[p]))
                              ELSE up(b[e][m])]]
<1>7. \A v \in Int : up(v) \in Int
  BY <1>4
<1>8. at2 \in [Node -> Int] /\ b2 \in [Side -> [Node -> Int]]
  <2>1. at[p] \in Int /\ b[d][p] \in Int
    BY <1>2, <1>4
  <2> HIDE DEF up
  <2>2. \A m \in Node : (IF m = n THEN k ELSE up(at[m])) \in Int
    BY <1>2, <1>4, <1>7
  <2>3. \A e \in Side, m \in Node :
          (IF m = n THEN (IF e = d THEN up(b[d][p]) ELSE up(at[p]))
                    ELSE up(b[e][m])) \in Int
    BY <2>1, <1>2, <1>7
  <2> QED BY <2>2, <2>3
<1>9. /\ at2[n] = k
      /\ \A m \in S : at2[m] = up(at[m])
      /\ b2[d][n] = up(b[d][p])
      /\ \A e \in Side : e # d => b2[e][n] = up(at[p])
      /\ \A e \in Side, m \in S : b2[e][m] = up(b[e][m])
  OBVIOUS
<1> HIDE DEF at2, b2
<1>10. Lists(s2, at2, S \cup {n})
  <2>1. ASSUME NEW m \in S \cup {n}
        PROVE  at2[m] \in 1 .. Len(s2) /\ s2[at2[m]] = m
    <3>1. CASE m = n
      BY <3>1, <1>4, <1>6, <1>9
    <3>2. CASE m # n
      <4>1. m \in S /\ at[m] \in 1 .. l /\ s[at[m]] = m
        BY <3>2, <1>3
      <4>2. CASE at[m] >= k
        <5>1. at2[m] = at[m] + 1 /\ at[m] + 1 \in 1 .. l + 1
              /\ ~(at[m] + 1 < k) /\ at[m] + 1 # k /\ (at[m] + 1) - 1 = at[m]
          BY <4>1, <4>2, <1>4, <1>9
        <5> QED BY <4>1, <5>1, <1>6
      <4>3. CASE ~(at[m] >= k)
        <5>1. at2[m] = at[m] /\ at[m] \in 1 .. l + 1 /\ at[m] < k
          BY <4>1, <4>3, <1>4, <1>9
        <5> QED BY <4>1, <5>1, <1>6
      <4> QED BY <4>2, <4>3
    <3> QED BY <3>1, <3>2
  <2>2. ASSUME NEW i \in 1 .. Len(s2)
        PROVE  at2[s2[i]] = i
    <3>1. i \in 1 .. l + 1 /\ s2[i] = IF i < k THEN s[i] ELSE IF i = k THEN n ELSE s[i - 1]
      BY <1>6
    <3>2. \A j \in 1 .. l : s[j] \in S /\ at[s[j]] = j
      BY <1>1, ElementOfSeq DEF Lists
    <3>3. CASE i < k
      <4>1. i \in 1 .. l /\ ~(i >= k)
        BY <3>1, <3>3, <1>4
      <4> QED BY <4>1, <3>1, <3>2, <3>3, <1>9
    <3>4. CASE i = k
      BY <3>1, <3>4, <1>4, <1>9
    <3>5. CASE i > k
      <4>1. i - 1 \in 1 .. l /\ i - 1 >= k /\ (i - 1) + 1 = i /\ ~(i < k) /\ i # k
        BY <3>1, <3>5, <1>4
      <4>2. s2[i] = s[i - 1] /\ s[i - 1] \in S /\ at[s[i - 1]] = i - 1
        BY <4>1, <3>1, <3>2
      <4> QED BY <4>1, <4>2, <1>9
    <3>6. i < k \/ i = k \/ i > k
      BY <3>1, <1>4
    <3> QED BY <3>3, <3>4, <3>5, <3>6
  <2> QED BY <2>1, <2>2, <1>6, <1>8 DEF Lists
<1>11. b[d][p] = Beside(at[p], d)
  BY <1>2
<1>12. d = "L" \/ d = "R"
  BY DEF Side
<1>13. /\ \A e \in Side, m \in Node :
            r.child[e][m] = IF m = n THEN NULL
                            ELSE IF m = p /\ e = d THEN n ELSE t.child[e][m]
       /\ r.root = t.root
  BY <1>4 DEF Attached
<1>14. ASSUME NEW m \in S, NEW e \in Side, t.child[e][m] = NULL, ~(m = p /\ e = d)
       PROVE  b2[e][m] = Beside(at2[m], e)
  <2>1. b[e][m] = Beside(at[m], e) /\ at[m] \in 1 .. l
    BY <1>2, <1>3, <1>14
  <2>2. CASE e = "L"
    <3>1. ASSUME at[m] = k PROVE FALSE
      <4>1. CASE d = "L"
        BY <4>1, <3>1, <2>2, <1>3, <1>14 DEF SlotAt
      <4>2. CASE d = "R"
        <5>1. b["L"][m] = at[p]
          BY <4>2, <3>1, <2>1, <2>2, <1>2, <1>4 DEF Beside, SlotAt
        <5>2. t.child[Opp("L")][s[b["L"][m]]] # NULL
          BY <5>1, <2>2, <1>1, <1>3, BoundHasChild
        <5> QED BY <5>1, <5>2, <4>2, <1>3 DEF Opp
      <4> QED BY <4>1, <4>2, <1>12
    <3> QED BY <3>1, <2>1, <2>2, <1>4, <1>9 DEF Beside
  <2>3. CASE e = "R"
    <3>1. ASSUME at[m] + 1 = k PROVE FALSE
      <4>1. CASE d = "R"
        <5>1. at[m] = at[p]
          BY <4>1, <3>1, <2>1, <1>2, <1>4 DEF SlotAt
        <5> QED BY <5>1, <4>1, <2>3, <1>3, <1>14
      <4>2. CASE d = "L"
        <5>1. b["R"][m] = at[p]
          BY <4>2, <3>1, <2>1, <2>3, <1>2, <1>4 DEF Beside, SlotAt
        <5>2. t.child[Opp("R")][s[b["R"][m]]] # NULL
          BY <5>1, <2>3, <1>1, <1>3, BoundHasChild
        <5> QED BY <5>1, <5>2, <4>2, <1>3 DEF Opp
      <4> QED BY <4>1, <4>2, <1>12
    <3> QED BY <3>1, <2>1, <2>3, <1>4, <1>9 DEF Beside
  <2> QED BY <2>2, <2>3 DEF Side
<1>15. ASSUME NEW m \in S \cup {n}, NEW e \in Side
       PROVE  IF r.child[e][m] = NULL THEN b2[e][m] = Beside(at2[m], e)
              ELSE /\ b2[e][r.child[e][m]] = b2[e][m]
                   /\ b2[Opp(e)][r.child[e][m]] = at2[m]
  <2>1. CASE m = n
    <3>1. r.child[e][m] = NULL
      BY <2>1, <1>13
    <3>2. b2[e][n] = Beside(k, e)
      <4>1. at[p] \in Int /\ b[d][p] \in Int
        BY <1>2, <1>4
      <4>2. CASE e = d
        BY <4>1, <4>2, <1>4, <1>9, <1>11, <1>12 DEF Beside, SlotAt
      <4>3. CASE e # d
        BY <4>1, <4>3, <1>4, <1>9, <1>12 DEF Beside, Side, SlotAt
      <4> QED BY <4>2, <4>3
    <3> QED BY <3>1, <3>2, <2>1, <1>9
  <2>2. CASE m = p /\ e = d
    <3>1. r.child[e][m] = n
      BY <2>2, <1>4, <1>13
    <3>2. Opp(e) # d /\ Opp(e) \in Side
      BY <2>2, SideFacts
    <3> QED BY <3>1, <3>2, <2>2, <1>4, <1>9
  <2>3. CASE m \in S /\ ~(m = p /\ e = d)
    <3>1. PICK c \in S \cup {NULL} : c = t.child[e][m]
      BY <2>3, Neighbours
    <3>2. r.child[e][m] = c
      BY <3>1, <2>3, <1>13
    <3>3. CASE c = NULL
      BY <3>1, <3>2, <3>3, <2>3, <1>14
    <3>4. CASE c # NULL
      <4>1. c \in S /\ Opp(e) \in Side /\ b[e][c] = b[e][m] /\ b[Opp(e)][c] = at[m]
        BY <3>1, <3>4, <2>3, <1>2, SideFacts
      <4>2. b2[e][c] = b2[e][m] /\ b2[Opp(e)][c] = at2[m]
        BY <4>1, <2>3, <1>9
      <4> QED BY <4>2, <3>2, <3>4
    <3> QED BY <3>3, <3>4
  <2> QED BY <2>1, <2>2, <2>3
<1>16. ASSUME NEW m \in S \cup {n}
       PROVE  /\ 0 <= b2["L"][m] /\ b2["L"][m] < at2[m]
              /\ at2[m] < b2["R"][m] /\ b2["R"][m] <= Len(s2) + 1
  <2>1. "L" \in Side /\ "R" \in Side
    BY DEF Side
  <2>2. CASE m = n
    <3>1. r.child["L"][m] = NULL /\ r.child["R"][m] = NULL
      BY <2>1, <2>2, <1>13
    <3>2. b2["L"][m] = k - 1 /\ b2["R"][m] = k + 1 /\ at2[m] = k
      BY <3>1, <2>1, <2>2, <1>9, <1>15 DEF Beside
    <3> QED BY <3>2, <1>4, <1>6
  <2>3. CASE m # n
    <3>1. /\ 0 <= b["L"][m] /\ b["L"][m] < at[m]
          /\ at[m] < b["R"][m] /\ b["R"][m] <= l + 1
          /\ at[m] \in Int /\ b["L"][m] \in Int /\ b["R"][m] \in Int
      BY <2>1, <2>3, <1>1, <1>2 DEF Spans
    <3>2. b2["L"][m] = up(b["L"][m]) /\ b2["R"][m] = up(b["R"][m]) /\ at2[m] = up(at[m])
      BY <2>1, <2>3, <1>9
    <3>3. /\ 0 <= up(b["L"][m]) /\ up(b["L"][m]) < up(at[m])
          /\ up(at[m]) < up(b["R"][m]) /\ up(b["R"][m]) <= l + 2
      BY <3>1, <1>4
    <3> HIDE DEF up
    <3> QED BY <3>2, <3>3, <1>6
  <2> QED BY <2>2, <2>3
<1>17. r.root # NULL => b2["L"][r.root] = 0 /\ b2["R"][r.root] = Len(s2) + 1
  <2>1. "L" \in Side /\ "R" \in Side /\ t.root \in S
    BY Neighbours DEF Side
  <2>2. b["L"][t.root] = 0 /\ b["R"][t.root] = l + 1
    BY <2>1, <1>1, NullAssumption DEF Spans
  <2>3. b2["L"][t.root] = up(0) /\ b2["R"][t.root] = up(l + 1)
    BY <2>1, <2>2, <1>9
  <2> QED BY <2>3, <1>4, <1>6, <1>13
<1>18. Spans(r, S \cup {n}, s2, at2, b2)
  BY <1>8, <1>15, <1>16, <1>17 DEF Spans
<1> QED BY <1>1, <1>4, <1>5, <1>10, <1>18

\* The positions behind k move down by one.
MovedDown(at2, at, k, T) ==
  \A m \in T : at2[m] = IF at[m] > k THEN at[m] - 1 ELSE at[m]

\* A node with at most one child leaves, its child takes its slot, and
\* everything behind it moves down.
LEMMA SpliceSpans ==
  ASSUME NEW t, NEW S \in SUBSET Node, GoodTree(t, S), NEW u \in S, NEW d \in Side,
         t.child[Opp(d)][u] = NULL, NEW x, x = t.child[d][u],
         NEW r, Spliced(r, t, S, u, x),
         NEW s, NEW at, NEW b, Lists(s, at, S), Spans(t, S, s, at, b),
         NEW k \in Int, k = at[u]
  PROVE  /\ k \in 1 .. Len(s)
         /\ \E at2, b2 : /\ Lists(Removed(s, k), at2, S \ {u})
                         /\ Spans(r, S \ {u}, Removed(s, k), at2, b2)
                         /\ MovedDown(at2, at, k, S \ {u})
<1>1. PICK l \in Nat : l = Len(s)
  BY LenProperties DEF Lists
<1>2. /\ \A m \in Node : at[m] \in Int
      /\ \A e \in Side, m \in Node : b[e][m] \in Int
      /\ \A m \in S, e \in Side :
           IF t.child[e][m] = NULL THEN b[e][m] = Beside(at[m], e)
           ELSE /\ b[e][t.child[e][m]] = b[e][m]
                /\ b[Opp(e)][t.child[e][m]] = at[m]
  <2>1. Measured(t, S, s, at, b)
    BY SpanFacts
  <2> QED BY <2>1 DEF Measured
<1>3. \A m \in S : at[m] \in 1 .. l /\ s[at[m]] = m
  BY <1>1 DEF Lists
<1>4. k \in 1 .. l /\ u # NULL /\ u \in Node /\ x \in (S \ {u}) \cup {NULL}
  <2>1. x \in S \cup {NULL}
    BY Neighbours
  <2>2. x # u
    BY NoLoops, NullAssumption
  <2> QED BY <2>1, <2>2, <1>3, NullAssumption
<1>5. \A m \in S \ {u} : at[m] # k
  BY <1>3
<1>6. PICK s2 : s2 = Removed(s, k)
  OBVIOUS
<1>7. /\ Len(s2) = l - 1
      /\ \A i \in 1 .. l - 1 : s2[i] = IF i < k THEN s[i] ELSE s[i + 1]
  <2>1. s \in Seq(S) /\ k \in 1 .. Len(s)
    BY <1>1, <1>4 DEF Lists
  <2>2. Len(Removed(s, k)) = Len(s) - 1
    BY <2>1, RemovedFacts
  <2>3. ASSUME NEW i \in 1 .. Len(s) - 1
        PROVE  Removed(s, k)[i] = IF i < k THEN s[i] ELSE s[i + 1]
    BY <2>1, RemovedFacts
  <2> QED BY <2>2, <2>3, <1>1, <1>6
<1>8. \A j \in 1 .. l : s[j] \in S /\ at[s[j]] = j
  BY <1>1, ElementOfSeq DEF Lists
<1>9. s2 \in Seq(S \ {u})
  <2>1. s2 \in Seq(S)
    <3>1. s \in Seq(S) /\ k \in 1 .. Len(s)
      BY <1>1, <1>4 DEF Lists
    <3> QED BY <3>1, <1>6, RemovedFacts
  <2>2. ASSUME NEW i \in 1 .. l - 1 PROVE s2[i] \in S \ {u}
    <3>1. CASE i < k
      <4>1. i \in 1 .. l /\ i # k
        BY <3>1, <1>4
      <4> QED BY <4>1, <3>1, <1>7, <1>8
    <3>2. CASE ~(i < k)
      <4>1. i + 1 \in 1 .. l /\ i + 1 # k
        BY <3>2, <1>4
      <4> QED BY <4>1, <3>2, <1>7, <1>8
    <3> QED BY <3>1, <3>2
  <2>3. s2 \in [1 .. l - 1 -> S]
    BY <2>1, <1>7, LenProperties
  <2>4. s2 \in [1 .. l - 1 -> S \ {u}]
    BY <2>2, <2>3
  <2>5. l - 1 \in Nat
    BY <1>4
  <2>6. PICK n \in Nat : n = l - 1
    BY <2>5
  <2>7. s2 \in [1 .. n -> S \ {u}]
    BY <2>4, <2>6
  <2> QED BY <2>7, SeqDef
<1> DEFINE down(v)    == IF v > k THEN v - 1 ELSE v
           downL(v)   == IF v >= k THEN v - 1 ELSE v
           at2 == [m \in Node |-> down(at[m])]
           b2  == [e \in Side |-> [m \in Node |->
                     IF e = "L" THEN downL(b[e][m]) ELSE down(b[e][m])]]
<1>10. at2 \in [Node -> Int] /\ b2 \in [Side -> [Node -> Int]]
  <2>1. \A v \in Int : down(v) \in Int /\ downL(v) \in Int
    OBVIOUS
  <2> HIDE DEF down, downL
  <2>2. \A m \in Node : down(at[m]) \in Int
    BY <2>1, <1>2
  <2>3. \A e \in Side, m \in Node :
          (IF e = "L" THEN downL(b[e][m]) ELSE down(b[e][m])) \in Int
    BY <2>1, <1>2
  <2> QED BY <2>2, <2>3
<1>11. /\ \A m \in Node : at2[m] = down(at[m])
       /\ \A m \in Node : b2["L"][m] = downL(b["L"][m])
       /\ \A m \in Node : b2["R"][m] = down(b["R"][m])
  BY DEF Side
<1>12. \A e \in Side, m \in Node, v \in Node : b[e][m] = b[e][v] => b2[e][m] = b2[e][v]
  BY <1>11 DEF Side
<1> HIDE DEF at2, b2
<1>13. Lists(s2, at2, S \ {u})
  <2>1. ASSUME NEW m \in S \ {u}
        PROVE  at2[m] \in 1 .. Len(s2) /\ s2[at2[m]] = m
    <3>1. at[m] \in 1 .. l /\ s[at[m]] = m /\ at[m] # k
      BY <1>3, <1>5
    <3>2. CASE at[m] > k
      <4>1. at2[m] = at[m] - 1 /\ at[m] - 1 \in 1 .. l - 1
            /\ ~(at[m] - 1 < k) /\ (at[m] - 1) + 1 = at[m]
        BY <3>1, <3>2, <1>4, <1>11
      <4> QED BY <4>1, <3>1, <1>7
    <3>3. CASE ~(at[m] > k)
      <4>1. at2[m] = at[m] /\ at[m] \in 1 .. l - 1 /\ at[m] < k
        BY <3>1, <3>3, <1>4, <1>11
      <4> QED BY <4>1, <3>1, <1>7
    <3> QED BY <3>2, <3>3
  <2>2. ASSUME NEW i \in 1 .. Len(s2)
        PROVE  at2[s2[i]] = i
    <3>1. i \in 1 .. l - 1 /\ s2[i] = IF i < k THEN s[i] ELSE s[i + 1]
      BY <1>7
    <3>2. CASE i < k
      <4>1. i \in 1 .. l /\ ~(i > k)
        BY <3>1, <3>2, <1>4
      <4>2. s2[i] = s[i] /\ s[i] \in Node /\ at[s[i]] = i
        BY <4>1, <3>1, <3>2, <1>8
      <4> QED BY <4>1, <4>2, <1>11
    <3>3. CASE ~(i < k)
      <4>1. i + 1 \in 1 .. l /\ i + 1 > k /\ (i + 1) - 1 = i
        BY <3>1, <3>3, <1>4
      <4>2. s2[i] = s[i + 1] /\ s[i + 1] \in Node /\ at[s[i + 1]] = i + 1
        BY <4>1, <3>1, <3>3, <1>8
      <4> QED BY <4>1, <4>2, <1>11
    <3> QED BY <3>2, <3>3
  <2> QED BY <2>1, <2>2, <1>9, <1>10 DEF Lists
<1>14. x # NULL => \A e \in Side : b2[e][x] = b2[e][u]
  <2>1. ASSUME x # NULL PROVE \A e \in Side : b2[e][x] = b2[e][u]
    <3>1. x \in Node /\ Opp(d) \in Side
      BY <2>1, <1>4, SideFacts
    <3>2. b[d][x] = b[d][u] /\ b[Opp(d)][x] = at[u] /\ b[Opp(d)][u] = Beside(at[u], Opp(d))
      BY <2>1, <3>1, <1>2
    <3>3. b2[d][x] = b2[d][u]
      BY <3>1, <3>2, <1>4, <1>12
    <3>4. b2[Opp(d)][x] = b2[Opp(d)][u]
      <4>1. CASE d = "L"
        BY <4>1, <3>1, <3>2, <1>4, <1>11 DEF Beside, Opp
      <4>2. CASE d = "R"
        BY <4>2, <3>1, <3>2, <1>4, <1>11 DEF Beside, Opp
      <4> QED BY <4>1, <4>2 DEF Side
    <3> QED BY <3>3, <3>4, SideFacts
  <2> QED BY <2>1
<1>15. /\ \A m \in S \ {u}, f \in Side :
            r.child[f][m] = IF t.child[f][m] = u THEN x ELSE t.child[f][m]
       /\ r.root = (IF t.root = u THEN x ELSE t.root)
  BY DEF Spliced
<1>16. \A m \in Node, e \in Side, v \in Int :
         b[e][m] = v /\ v # k => b2[e][m] = down(v)
  BY <1>11 DEF Side
<1>17. ASSUME NEW m \in S \ {u}, NEW e \in Side, b[e][m] = Beside(at[m], e)
       PROVE  b2[e][m] = Beside(at2[m], e)
  <2>1. at[m] \in Int /\ at[m] # k /\ at2[m] = down(at[m])
    BY <1>2, <1>5, <1>11
  <2>2. CASE e = "L"
    BY <2>1, <2>2, <1>11, <1>17 DEF Beside
  <2>3. CASE e = "R"
    BY <2>1, <2>3, <1>11, <1>17 DEF Beside
  <2> QED BY <2>2, <2>3 DEF Side
<1>18. ASSUME NEW m \in S \ {u}, NEW e \in Side
       PROVE  IF r.child[e][m] = NULL THEN b2[e][m] = Beside(at2[m], e)
              ELSE /\ b2[e][r.child[e][m]] = b2[e][m]
                   /\ b2[Opp(e)][r.child[e][m]] = at2[m]
  <2>1. PICK c \in S \cup {NULL} : c = t.child[e][m]
    BY Neighbours
  <2>2. Opp(e) \in Side /\ at[m] \in Int /\ at[m] # k /\ m \in Node
    BY <1>2, <1>5, SideFacts
  <2>3. IF c = NULL THEN b[e][m] = Beside(at[m], e)
        ELSE b[e][c] = b[e][m] /\ b[Opp(e)][c] = at[m]
    BY <2>1, <1>2
  <2>4. r.child[e][m] = IF c = u THEN x ELSE c
    BY <2>1, <1>15
  <2>5. CASE c = NULL
    BY <2>3, <2>4, <2>5, <1>4, <1>17
  <2>6. c # NULL => b2[e][c] = b2[e][m] /\ b2[Opp(e)][c] = at2[m]
    <3>1. ASSUME c # NULL PROVE b2[e][c] = b2[e][m] /\ b2[Opp(e)][c] = at2[m]
      <4>1. c \in Node
        BY <3>1
      <4>2. b2[e][c] = b2[e][m]
        BY <4>1, <3>1, <2>2, <2>3, <1>12
      <4>3. b2[Opp(e)][c] = down(at[m])
        BY <4>1, <3>1, <2>2, <2>3, <1>16
      <4> QED BY <4>2, <4>3, <2>2, <1>11
    <3> QED BY <3>1
  <2>7. CASE c # NULL /\ c # u
    BY <2>4, <2>6, <2>7
  <2>8. CASE c = u /\ x # NULL
    BY <2>2, <2>4, <2>6, <2>8, <1>4, <1>14
  <2>9. CASE c = u /\ x = NULL
    <3>1. ASSUME NEW f \in Side PROVE b[f][u] = Beside(at[u], f)
      <4>1. f = d \/ f = Opp(d)
        BY SideFacts
      <4>2. t.child[f][u] = NULL
        BY <4>1, <2>9
      <4> QED BY <4>2, <1>2
    <3>2. b[e][m] = Beside(k, e) /\ at[m] = Beside(k, Opp(e))
      <4>1. b[e][u] = b[e][m] /\ b[Opp(e)][u] = at[m]
        BY <2>3, <2>9, <1>4
      <4> QED BY <4>1, <3>1, <2>2
    <3>3. m \in Node /\ at2[m] = down(at[m])
      BY <1>11
    <3>4. b2[e][m] = Beside(at2[m], e)
      <4>1. CASE e = "L"
        BY <4>1, <3>2, <3>3, <1>11 DEF Beside, Opp
      <4>2. CASE e = "R"
        BY <4>2, <3>2, <3>3, <1>11 DEF Beside, Opp
      <4> QED BY <4>1, <4>2 DEF Side
    <3> QED BY <3>4, <2>4, <2>9
  <2> QED BY <2>5, <2>7, <2>8, <2>9
<1>19. ASSUME NEW m \in S \ {u}
       PROVE  /\ 0 <= b2["L"][m] /\ b2["L"][m] < at2[m]
              /\ at2[m] < b2["R"][m] /\ b2["R"][m] <= Len(s2) + 1
  <2>1. /\ 0 <= b["L"][m] /\ b["L"][m] < at[m]
        /\ at[m] < b["R"][m] /\ b["R"][m] <= l + 1
        /\ at[m] \in Int /\ b["L"][m] \in Int /\ b["R"][m] \in Int
        /\ at[m] # k
    BY <1>1, <1>2, <1>5 DEF Spans, Side
  <2>2. /\ 0 <= downL(b["L"][m]) /\ downL(b["L"][m]) < down(at[m])
        /\ down(at[m]) < down(b["R"][m]) /\ down(b["R"][m]) <= l
    BY <2>1, <1>4
  <2>3. Len(s2) + 1 = l
    BY <1>4, <1>7
  <2>4. m \in Node
    OBVIOUS
  <2> HIDE DEF down, downL
  <2> QED BY <2>2, <2>3, <2>4, <1>11
<1>20. r.root # NULL => b2["L"][r.root] = 0 /\ b2["R"][r.root] = Len(s2) + 1
  <2>1. "L" \in Side /\ "R" \in Side /\ t.root \in S
    BY Neighbours DEF Side
  <2>2. b["L"][t.root] = 0 /\ b["R"][t.root] = l + 1
    BY <2>1, <1>1, NullAssumption DEF Spans
  <2>3. b2["L"][t.root] = 0 /\ b2["R"][t.root] = Len(s2) + 1
    <3>1. downL(0) = 0 /\ down(l + 1) = l /\ Len(s2) + 1 = l
      BY <1>4, <1>7
    <3>2. t.root \in Node
      BY <2>1
    <3> QED BY <3>1, <3>2, <2>2, <1>11
  <2> QED BY <2>1, <2>3, <1>14, <1>15
<1>21. Spans(r, S \ {u}, s2, at2, b2)
  BY <1>10, <1>18, <1>19, <1>20 DEF Spans
<1>22. \A m \in S \ {u} : at2[m] = IF at[m] > k THEN at[m] - 1 ELSE at[m]
  BY <1>11
<1> QED BY <1>1, <1>4, <1>6, <1>13, <1>21, <1>22 DEF MovedDown

\* A node that takes the place of another one takes its position.
LEMMA RenameSpans ==
  ASSUME NEW q, NEW S \in SUBSET Node, GoodTree(q, S), NEW u \in S,
         NEW y \in Node \ S, NEW r, Renamed(r, q, u, y, S),
         NEW s, NEW at, NEW b, Lists(s, at, S), Spans(q, S, s, at, b)
  PROVE  \E at2, b2 : /\ Lists([s EXCEPT ![at[u]] = y], at2, (S \ {u}) \cup {y})
                      /\ Spans(r, (S \ {u}) \cup {y}, [s EXCEPT ![at[u]] = y], at2, b2)
<1>1. PICK l \in Nat : l = Len(s)
  BY LenProperties DEF Lists
<1>2. /\ \A m \in Node : at[m] \in Int
      /\ \A e \in Side, m \in Node : b[e][m] \in Int
      /\ \A m \in S, e \in Side :
           IF q.child[e][m] = NULL THEN b[e][m] = Beside(at[m], e)
           ELSE /\ b[e][q.child[e][m]] = b[e][m]
                /\ b[Opp(e)][q.child[e][m]] = at[m]
  <2>1. Measured(q, S, s, at, b)
    BY SpanFacts
  <2> QED BY <2>1 DEF Measured
<1>3. \A m \in S : at[m] \in 1 .. l /\ s[at[m]] = m
  BY <1>1 DEF Lists
<1>4. PICK k \in 1 .. l : k = at[u]
  BY <1>3
<1>5. y # u /\ y # NULL /\ u # NULL /\ \A m \in S : m # y
  BY NullAssumption
<1>6. PICK T : T = (S \ {u}) \cup {y}
  OBVIOUS
<1>7. PICK s2 : s2 = [s EXCEPT ![k] = y]
  OBVIOUS
<1>8. \A j \in 1 .. l : s[j] \in S /\ at[s[j]] = j
  BY <1>1, ElementOfSeq DEF Lists
<1>9. s2 \in Seq(T) /\ Len(s2) = l /\ \A i \in 1 .. l : s2[i] = IF i = k THEN y ELSE s[i]
  <2>1. s \in [1 .. l -> S]
    BY <1>1, LenProperties DEF Lists
  <2>2. s2 \in [1 .. l -> T]
    <3>1. ASSUME NEW i \in 1 .. l, i # k PROVE s[i] \in T
      <4>1. s[i] \in S /\ at[s[i]] = i
        BY <1>8
      <4> QED BY <4>1, <3>1, <1>4, <1>6
    <3>2. y \in T
      BY <1>6
    <3> QED BY <3>1, <3>2, <2>1, <1>7
  <2>3. s2 \in Seq(T)
    BY <2>2, SeqDef
  <2>4. Len(s2) = l
    <3>1. DOMAIN s2 = 1 .. l /\ DOMAIN s2 = 1 .. Len(s2) /\ Len(s2) \in Nat
      BY <2>2, <2>3, LenProperties
    <3> QED BY <3>1
  <2> QED BY <2>1, <2>3, <2>4, <1>7
<1> DEFINE at2 == [m \in Node |-> IF m = y THEN at[u] ELSE at[m]]
           b2  == [e \in Side |-> [m \in Node |-> IF m = y THEN b[e][u] ELSE b[e][m]]]
<1>10. at2 \in [Node -> Int] /\ b2 \in [Side -> [Node -> Int]]
  BY <1>2
<1>11. /\ at2[y] = at[u] /\ \A m \in S : at2[m] = at[m]
       /\ \A e \in Side : b2[e][y] = b[e][u] /\ \A m \in S : b2[e][m] = b[e][m]
  BY <1>5
<1> HIDE DEF at2, b2
<1>12. Lists(s2, at2, T)
  <2>1. ASSUME NEW m \in T PROVE at2[m] \in 1 .. Len(s2) /\ s2[at2[m]] = m
    <3>1. CASE m = y
      BY <3>1, <1>4, <1>9, <1>11
    <3>2. CASE m # y
      <4>1. m \in S /\ m # u
        BY <3>2, <1>6
      <4>2. at[m] \in 1 .. l /\ s[at[m]] = m /\ at[m] # k
        BY <4>1, <1>3, <1>4
      <4> QED BY <4>1, <4>2, <1>9, <1>11
    <3> QED BY <3>1, <3>2
  <2>2. ASSUME NEW i \in 1 .. Len(s2) PROVE at2[s2[i]] = i
    <3>1. i \in 1 .. l
      BY <1>9
    <3> QED BY <3>1, <1>4, <1>8, <1>9, <1>11
  <2> QED BY <2>1, <2>2, <1>9, <1>10 DEF Lists
<1>13. ASSUME NEW m \in T
       PROVE  \E n \in S : /\ m = (IF n = u THEN y ELSE n)
                           /\ at2[m] = at[n]
                           /\ \A e \in Side : b2[e][m] = b[e][n]
  BY <1>6, <1>11
<1>14. ASSUME NEW m \in T, NEW e \in Side
       PROVE  IF r.child[e][m] = NULL THEN b2[e][m] = Beside(at2[m], e)
              ELSE /\ b2[e][r.child[e][m]] = b2[e][m]
                   /\ b2[Opp(e)][r.child[e][m]] = at2[m]
  <2>1. PICK n \in S : /\ m = (IF n = u THEN y ELSE n)
                       /\ at2[m] = at[n]
                       /\ \A f \in Side : b2[f][m] = b[f][n]
    BY <1>13
  <2>2. PICK c \in S \cup {NULL} : c = q.child[e][n]
    BY Neighbours
  <2>3. r.child[e][m] = IF c = u THEN y ELSE c
    <3>1. CASE n = u
      <4>1. c # u
        BY <3>1, <2>2, <1>5, NoLoops
      <4> QED BY <4>1, <3>1, <2>1, <2>2 DEF Renamed
    <3>2. CASE n # u
      BY <3>2, <2>1, <2>2 DEF Renamed
    <3> QED BY <3>1, <3>2
  <2>4. IF c = NULL THEN b[e][n] = Beside(at[n], e)
        ELSE b[e][c] = b[e][n] /\ b[Opp(e)][c] = at[n]
    BY <2>2, <1>2
  <2>5. Opp(e) \in Side
    BY SideFacts
  <2>6. CASE c = NULL
    BY <2>1, <2>3, <2>4, <2>6, <1>5
  <2>7. CASE c = u
    BY <2>1, <2>3, <2>4, <2>5, <2>7, <1>5, <1>11
  <2>8. CASE c # NULL /\ c # u
    BY <2>1, <2>3, <2>4, <2>5, <2>8, <1>11
  <2> QED BY <2>6, <2>7, <2>8
<1>15. \A n \in S : /\ 0 <= b["L"][n] /\ b["L"][n] < at[n]
                    /\ at[n] < b["R"][n] /\ b["R"][n] <= l + 1
  BY <1>1 DEF Spans
<1>16. \A m \in T : /\ 0 <= b2["L"][m] /\ b2["L"][m] < at2[m]
                    /\ at2[m] < b2["R"][m] /\ b2["R"][m] <= Len(s2) + 1
  <2>1. "L" \in Side /\ "R" \in Side
    BY DEF Side
  <2>2. ASSUME NEW m \in T
        PROVE  /\ 0 <= b2["L"][m] /\ b2["L"][m] < at2[m]
               /\ at2[m] < b2["R"][m] /\ b2["R"][m] <= Len(s2) + 1
    <3>1. PICK n \in S : at2[m] = at[n] /\ b2["L"][m] = b["L"][n] /\ b2["R"][m] = b["R"][n]
      BY <2>1, <1>13
    <3> QED BY <3>1, <1>9, <1>15
  <2> QED BY <2>2
<1>17. r.root # NULL => b2["L"][r.root] = 0 /\ b2["R"][r.root] = Len(s2) + 1
  <2>1. "L" \in Side /\ "R" \in Side /\ q.root \in S
    BY Neighbours DEF Side
  <2>2. b["L"][q.root] = 0 /\ b["R"][q.root] = l + 1
    BY <2>1, <1>1, <1>5, NullAssumption DEF Spans
  <2>3. r.root = (IF q.root = u THEN y ELSE q.root)
    BY DEF Renamed
  <2> QED BY <2>1, <2>2, <2>3, <1>9, <1>11
<1>18. Spans(r, T, s2, at2, b2)
  BY <1>10, <1>14, <1>16, <1>17 DEF Spans
<1> QED BY <1>4, <1>6, <1>7, <1>12, <1>18
-----------------------------------------------------------------------------
(***************************************************************************)
(* The order invariant.  insert and erase find their place by comparing    *)
(* keys: what they have passed by tells where the place is.                *)
(***************************************************************************)
Sorted(s) == \A i, j \in 1 .. Len(s) : i <= j => KeyOf[s[i]] <= KeyOf[s[j]]

\* The tree t of the nodes of S shows the sorted sequence s.
Shows(t, S, s) ==
  Sorted(s) /\ \E at, b : Lists(s, at, S) /\ Spans(t, S, s, at, b)

\* The new element with key k belongs between the positions lo and hi.
Parted(s, k, lo, hi) ==
  \A i \in 1 .. Len(s) : /\ i <= lo => KeyOf[s[i]] <= k
                         /\ i >= hi => KeyOf[s[i]] > k

DescendOrder(s, at, b) ==
  pc = "descend" =>
    /\ key = KeyOf[z]
    /\ cur # NULL => Parted(s, key, b["L"][cur], b["R"][cur])
    /\ cur = NULL /\ par # NULL =>
         Parted(s, key, SlotAt(at, par, side) - 1, SlotAt(at, par, side))

\* The walk to the successor never leaves the nodes right behind z.
SuccessorOrder(at, b) ==
  pc = "successor" => b["L"][cur] = at[z]

Ordering(s, at, b) == /\ Lists(s, at, Linked)
                      /\ Spans(tree, Linked, s, at, b)
                      /\ DescendOrder(s, at, b)
                      /\ SuccessorOrder(at, b)

Orders(s) == Sorted(s) /\ \E at, b : Ordering(s, at, b)

OrderInv == \E s : Orders(s)

\* What a call may do to the sequence.
PutIn(s, s2) ==
  \E n \in Node, k \in 1 .. Len(s) + 1 :
    /\ \A i \in 1 .. Len(s) : s[i] # n
    /\ Parted(s, KeyOf[n], k - 1, k)
    /\ s2 = Inserted(s, k, n)

TakeOut(s, s2) == \E k \in 1 .. Len(s) : s2 = Removed(s, k)

Moves(s, s2) == s2 = s \/ PutIn(s, s2) \/ TakeOut(s, s2) \/ s2 = << >>

\* While no place is looked for, the tree itself is all there is to say.
LEMMA Settled ==
  ASSUME NEW s, Shows(tree', Linked', s), pc' \notin {"descend", "successor"}
  PROVE  Orders(s)'
<1>1. PICK at, b : Lists(s, at, Linked') /\ Spans(tree', Linked', s, at, b)
  BY DEF Shows
<1>2. Ordering(s, at, b)'
  BY <1>1 DEF Ordering, DescendOrder, SuccessorOrder
<1> QED BY <1>2 DEF Orders, Shows

\* What the invariant says of the tree alone.
LEMMA OrdersShows ==
  ASSUME NEW s, Orders(s)
  PROVE  Shows(tree, Linked, s)
BY DEF Orders, Ordering, Shows

\* The sequence depends on the root and the children of the nodes only.
LEMMA SameShows ==
  ASSUME NEW t, NEW r, NEW S \in SUBSET Node, NEW s, Shows(t, S, s),
         r.root = t.root, \A n \in S, d \in Side : r.child[d][n] = t.child[d][n]
  PROVE  Shows(r, S, s)
<1>1. PICK at, b : Lists(s, at, S) /\ Spans(t, S, s, at, b)
  BY DEF Shows
<1>2. ASSUME NEW n \in S, NEW d \in Side
      PROVE  IF r.child[d][n] = NULL THEN b[d][n] = Beside(at[n], d)
             ELSE /\ b[d][r.child[d][n]] = b[d][n]
                  /\ b[Opp(d)][r.child[d][n]] = at[n]
  <2>1. Measured(t, S, s, at, b)
    BY <1>1, SpanFacts
  <2>2. PICK c : c = t.child[d][n] /\ c = r.child[d][n]
    OBVIOUS
  <2>3. IF c = NULL THEN b[d][n] = Beside(at[n], d)
        ELSE b[d][c] = b[d][n] /\ b[Opp(d)][c] = at[n]
    BY <2>1, <2>2 DEF Measured
  <2> QED BY <2>2, <2>3
<1>3. Spans(r, S, s, at, b)
  BY <1>1, <1>2, Zenon DEF Spans
<1> QED BY <1>1, <1>3 DEF Shows

\* rotate_left and rotate_right leave the sequence as it is.
LEMMA TurnShows ==
  ASSUME NEW t, NEW S \in SUBSET Node, GoodTree(t, S), NEW n \in S, NEW d \in Side,
         NEW r, NEW pivot, Turned(r, t, S, n, d, pivot), NEW s, Shows(t, S, s)
  PROVE  Shows(r, S, s)
<1>1. PICK at, b : Lists(s, at, S) /\ Spans(t, S, s, at, b)
  BY DEF Shows
<1>2. \E b2 : Spans(r, S, s, at, b2)
  BY <1>1, TurnSpans
<1> QED BY <1>1, <1>2 DEF Shows

\* The same, also where there is nothing to rotate.
LEMMA RotateShows ==
  ASSUME NEW t, NEW S \in SUBSET Node, GoodTree(t, S), NEW n \in S, NEW d \in Side,
         NEW s, Shows(t, S, s)
  PROVE  Shows(Rotate(t, n, d), S, s)
<1>1. CASE t.child[Opp(d)][n] = NULL
  BY <1>1 DEF Rotate
<1>2. CASE t.child[Opp(d)][n] # NULL
  BY <1>2, TurnFacts, TurnShows
<1> QED BY <1>1, <1>2
-----------------------------------------------------------------------------
(***************************************************************************)
(* Each step of a call keeps the sequence or changes it as Moves says.     *)
(***************************************************************************)

\* Steps that leave the tree alone and look for no place after it.
LEMMA RestOrder ==
  ASSUME NEW s, Orders(s), UNCHANGED tree, Linked' = Linked,
         pc' \notin {"descend", "successor"}
  PROVE  Orders(s)'
<1>1. Shows(tree', Linked', s)
  BY OrdersShows
<1> QED BY <1>1, Settled

\* The descent of insert starts at the root: the place may be anywhere.
LEMMA InsertCallOrder ==
  ASSUME IInv, NEW s, Orders(s), NEW n \in Node, InsertCall(n)
  PROVE  Orders(s)'
<1>1. PICK at, b : Ordering(s, at, b)
  BY DEF Orders
<1>2. /\ tree' = tree /\ live' = live /\ pc = "idle" /\ pc' = "descend"
      /\ key' = KeyOf[n] /\ z' = n /\ cur' = tree.root /\ par' = NULL
  BY DEF InsertCall
<1>3. Linked' = live /\ Linked = live
  BY <1>2 DEF Linked
<1>4. Lists(s, at, live) /\ Spans(tree, live, s, at, b)
  BY <1>1, <1>3 DEF Ordering
<1>5. Len(s) \in Nat
  BY <1>4 DEF Lists
<1>6. tree.root # NULL => Parted(s, KeyOf[n], b["L"][tree.root], b["R"][tree.root])
  <2>1. tree.root # NULL => b["L"][tree.root] = 0 /\ b["R"][tree.root] = Len(s) + 1
    BY <1>4 DEF Spans
  <2> QED BY <2>1, <1>5 DEF Parted
<1>7. DescendOrder(s, at, b)'
  BY <1>2, <1>6 DEF DescendOrder
<1>8. SuccessorOrder(at, b)'
  BY <1>2 DEF SuccessorOrder
<1>9. Ordering(s, at, b)'
  BY <1>2, <1>3, <1>4, <1>7, <1>8 DEF Ordering
<1> QED BY <1>9 DEF Orders

\* Every node the descent passes has the place on the side it takes.
LEMMA DescendOrderStep ==
  ASSUME IInv, NEW s, Orders(s), Descend
  PROVE  Orders(s)'
<1>1. PICK at, b : Ordering(s, at, b)
  BY DEF Orders
<1>2. PICK n : n = cur
  OBVIOUS
<1>3. PICK d \in Side : d = DescendSide(n)
  BY DEF DescendSide, Side
<1>4. /\ tree' = tree /\ live' = live /\ pc = "descend" /\ pc' = "descend"
      /\ key' = key /\ z' = z /\ cur' = tree.child[d][n] /\ par' = n /\ side' = d
      /\ n # NULL
  BY <1>2, <1>3 DEF Descend
<1>5. /\ Linked' = live /\ Linked = live /\ n \in live
      /\ live \in SUBSET Node /\ GoodTree(tree, live) /\ key \in Int
  BY <1>2, <1>4 DEF Linked, IInv, InsertPointers, TypeOK
<1>6. /\ Lists(s, at, live) /\ Spans(tree, live, s, at, b) /\ Sorted(s)
      /\ key = KeyOf[z] /\ Parted(s, key, b["L"][n], b["R"][n])
  BY <1>1, <1>2, <1>4, <1>5 DEF Ordering, Orders, DescendOrder
<1>7. Measured(tree, live, s, at, b)
  BY <1>5, <1>6, SpanFacts
<1>8. /\ "L" \in Side /\ "R" \in Side /\ Len(s) \in Nat
      /\ at[n] \in 1 .. Len(s) /\ s[at[n]] = n
      /\ KeyOf[n] \in Int /\ \A i \in 1 .. Len(s) : KeyOf[s[i]] \in Int
  <2>1. \A i \in 1 .. Len(s) : s[i] \in Node
    BY <1>5, <1>6 DEF Lists
  <2>2. KeyOf[n] \in Int /\ \A i \in 1 .. Len(s) : KeyOf[s[i]] \in Int
    BY <2>1, <1>5, KeyAssumption
  <2>3. Len(s) \in Nat /\ at[n] \in 1 .. Len(s) /\ s[at[n]] = n
    BY <1>5, <1>6 DEF Lists
  <2> QED BY <2>2, <2>3 DEF Side
<1>9. PICK a \in Int : a = at[n]
  BY <1>8
<1>10. PICK lo \in Int : lo = b["L"][n]
  BY <1>5, <1>7, <1>8 DEF Measured
<1>11. PICK hi \in Int : hi = b["R"][n]
  BY <1>5, <1>7, <1>8 DEF Measured
<1>12. Parted(s, key, lo, hi) /\ lo < a /\ a < hi
  <2>1. b["L"][n] < at[n] /\ at[n] < b["R"][n]
    BY <1>5, <1>6 DEF Spans
  <2> QED BY <2>1, <1>6, <1>9, <1>10, <1>11
<1>13. \A i \in 1 .. Len(s) : /\ i <= a => KeyOf[s[i]] <= KeyOf[n]
                              /\ i >= a => KeyOf[n] <= KeyOf[s[i]]
  BY <1>6, <1>8, <1>9 DEF Sorted
<1>14. CASE d = "L"
  <2>1. key < KeyOf[n]
    BY <1>3, <1>14 DEF DescendSide
  <2>2. ASSUME NEW i \in 1 .. Len(s), i >= a
        PROVE  KeyOf[s[i]] > key
    <3>1. KeyOf[s[i]] \in Int /\ KeyOf[n] \in Int /\ key \in Int
      BY <1>5, <1>8
    <3>2. KeyOf[n] <= KeyOf[s[i]]
      BY <2>2, <1>13
    <3> QED BY <3>1, <3>2, <2>1
  <2>3. Parted(s, key, lo, a)
    BY <2>2, <1>12 DEF Parted
  <2>4. CASE tree.child[d][n] # NULL
    <3>1. b["L"][tree.child[d][n]] = lo /\ b["R"][tree.child[d][n]] = a
      BY <2>4, <1>5, <1>7, <1>8, <1>9, <1>10, <1>14 DEF Measured, Opp
    <3>2. DescendOrder(s, at, b)'
      BY <3>1, <2>3, <2>4, <1>4, <1>6 DEF DescendOrder
    <3> QED BY <3>2, <1>4, <1>5, <1>6 DEF Ordering, Orders, SuccessorOrder
  <2>5. CASE tree.child[d][n] = NULL
    <3>1. lo = a - 1
      BY <2>5, <1>5, <1>7, <1>8, <1>9, <1>10, <1>14 DEF Measured, Beside
    <3>2. SlotAt(at, n, d) = a
      BY <1>9, <1>14 DEF SlotAt
    <3>3. Parted(s, key, SlotAt(at, n, d) - 1, SlotAt(at, n, d))
      BY <3>1, <3>2, <2>3
    <3>4. DescendOrder(s, at, b)'
      BY <3>3, <2>5, <1>4, <1>6 DEF DescendOrder
    <3> QED BY <3>4, <1>4, <1>5, <1>6 DEF Ordering, Orders, SuccessorOrder
  <2> QED BY <2>4, <2>5
<1>15. CASE d = "R"
  <2>1. ~(key < KeyOf[n])
    BY <1>3, <1>15 DEF DescendSide
  <2>2. ASSUME NEW i \in 1 .. Len(s), i <= a
        PROVE  KeyOf[s[i]] <= key
    <3>1. KeyOf[s[i]] \in Int /\ KeyOf[n] \in Int /\ key \in Int
      BY <1>5, <1>8
    <3>2. KeyOf[s[i]] <= KeyOf[n]
      BY <2>2, <1>13
    <3> QED BY <3>1, <3>2, <2>1
  <2>3. Parted(s, key, a, hi)
    BY <2>2, <1>12 DEF Parted
  <2>4. CASE tree.child[d][n] # NULL
    <3>1. b["R"][tree.child[d][n]] = hi /\ b["L"][tree.child[d][n]] = a
      BY <2>4, <1>5, <1>7, <1>8, <1>9, <1>11, <1>15 DEF Measured, Opp
    <3>2. DescendOrder(s, at, b)'
      BY <3>1, <2>3, <2>4, <1>4, <1>6 DEF DescendOrder
    <3> QED BY <3>2, <1>4, <1>5, <1>6 DEF Ordering, Orders, SuccessorOrder
  <2>5. CASE tree.child[d][n] = NULL
    <3>1. hi = a + 1
      BY <2>5, <1>5, <1>7, <1>8, <1>9, <1>11, <1>15 DEF Measured, Beside
    <3>2. SlotAt(at, n, d) = a + 1 /\ a + 1 - 1 = a
      BY <1>9, <1>15 DEF SlotAt
    <3>3. Parted(s, key, SlotAt(at, n, d) - 1, SlotAt(at, n, d))
      BY <3>1, <3>2, <2>3
    <3>4. DescendOrder(s, at, b)'
      BY <3>3, <2>5, <1>4, <1>6 DEF DescendOrder
    <3> QED BY <3>4, <1>4, <1>5, <1>6 DEF Ordering, Orders, SuccessorOrder
  <2> QED BY <2>4, <2>5
<1> QED BY <1>14, <1>15 DEF Side

\* The right subtree of z begins right behind z, and so does all the walk sees.
LEMMA SuccessorWalkOrder ==
  ASSUME IInv, NEW s, Orders(s), SeekSuccessor \/ GoLeft
  PROVE  Orders(s)'
<1>1. PICK at, b : Ordering(s, at, b)
  BY DEF Orders
<1>2. /\ tree' = tree /\ live' = live /\ pc' = "successor"
      /\ Linked = live /\ Linked' = live
      /\ live \in SUBSET Node /\ GoodTree(tree, live)
  BY DEF SeekSuccessor, GoLeft, Linked, IInv, TypeOK
<1>3. /\ Lists(s, at, live) /\ Spans(tree, live, s, at, b) /\ Sorted(s)
      /\ Measured(tree, live, s, at, b)
      /\ "L" \in Side /\ "R" \in Side /\ Opp("R") = "L"
  BY <1>1, <1>2, SpanFacts DEF Ordering, Orders, Side, Opp
<1>4. SuccessorOrder(at, b)'
  <2>1. CASE SeekSuccessor
    <3>1. /\ z' = cur /\ cur' = tree.child["R"][cur] /\ tree.child["R"][cur] # NULL
          /\ cur \in live
      BY <2>1 DEF SeekSuccessor, IInv, SearchPointers, Right
    <3>2. b["L"][tree.child["R"][cur]] = at[cur]
      BY <3>1, <1>3 DEF Measured
    <3> QED BY <3>1, <3>2 DEF SuccessorOrder
  <2>2. CASE GoLeft
    <3>1. /\ z' = z /\ cur' = tree.child["L"][cur] /\ tree.child["L"][cur] # NULL
          /\ cur \in live /\ pc = "successor"
      BY <2>2 DEF GoLeft, IInv, SearchPointers, Left
    <3>2. b["L"][tree.child["L"][cur]] = b["L"][cur]
      BY <3>1, <1>3 DEF Measured
    <3>3. b["L"][cur] = at[z]
      BY <3>1, <1>1 DEF Ordering, SuccessorOrder
    <3> QED BY <3>1, <3>2, <3>3 DEF SuccessorOrder
  <2> QED BY <2>1, <2>2
<1>5. Ordering(s, at, b)'
  BY <1>2, <1>3, <1>4 DEF Ordering, DescendOrder
<1> QED BY <1>3, <1>5 DEF Orders

\* Where each element is after one is put in.
LEMMA InsertedAt ==
  ASSUME NEW S, NEW s \in Seq(S), NEW k \in 1 .. Len(s) + 1, NEW n \in S,
         NEW i \in 1 .. Len(s) + 1
  PROVE  /\ i < k => Inserted(s, k, n)[i] = s[i]
         /\ i = k => Inserted(s, k, n)[i] = n
         /\ i > k => Inserted(s, k, n)[i] = s[i - 1]
<1>1. Inserted(s, k, n)[i] = IF i < k THEN s[i] ELSE IF i = k THEN n ELSE s[i - 1]
  BY SMTT(30), InsertedFacts
<1>2. i \in Int /\ k \in Int
  OBVIOUS
<1> QED BY <1>1, <1>2

\* An element put in behind its equals leaves the sequence sorted.
LEMMA InsertedSorted ==
  ASSUME NEW s \in Seq(Node), Sorted(s), NEW k \in 1 .. Len(s) + 1, NEW n \in Node,
         Parted(s, KeyOf[n], k - 1, k)
  PROVE  Sorted(Inserted(s, k, n))
<1>1. PICK l \in Nat : l = Len(s)
  OBVIOUS
<1>2. PICK s2 : s2 = Inserted(s, k, n)
  OBVIOUS
<1>3. PICK v \in Int : v = KeyOf[n]
  BY KeyAssumption
<1>4. \A i \in 1 .. l : KeyOf[s[i]] \in Int
  BY <1>1, KeyAssumption
<1>5. k \in 1 .. l + 1 /\ k \in Int
  BY <1>1
<1>6. \A i \in 1 .. l : /\ i < k => KeyOf[s[i]] <= v
                        /\ i >= k => KeyOf[s[i]] > v
  BY <1>1, <1>3, <1>5 DEF Parted
<1>7. /\ Len(s2) = l + 1
      /\ \A i \in 1 .. l + 1 : s2[i] = IF i < k THEN s[i] ELSE IF i = k THEN n ELSE s[i - 1]
  <2>1. Len(Inserted(s, k, n)) = Len(s) + 1
    BY InsertedFacts
  <2>2. s \in Seq(Node) /\ k \in 1 .. Len(s) + 1 /\ n \in Node
    OBVIOUS
  <2>3. ASSUME NEW i \in 1 .. Len(s) + 1
        PROVE  Inserted(s, k, n)[i] =
                 IF i < k THEN s[i] ELSE IF i = k THEN n ELSE s[i - 1]
    BY <2>2, InsertedAt
  <2> QED BY <2>1, <2>3, <1>1, <1>2
<1>8. ASSUME NEW i \in 1 .. l + 1, NEW j \in 1 .. l + 1, i <= j
      PROVE  KeyOf[s2[i]] <= KeyOf[s2[j]]
  <2>1. \A g, h \in 1 .. l : g <= h => KeyOf[s[g]] <= KeyOf[s[h]]
    BY <1>1 DEF Sorted
  <2>2. CASE j < k
    <3>1. s2[i] = s[i] /\ s2[j] = s[j] /\ i \in 1 .. l /\ j \in 1 .. l
      BY <2>2, <1>5, <1>7, <1>8
    <3> QED BY <3>1, <2>1, <1>8
  <2>3. CASE j = k
    <3>1. CASE i = k
      BY <3>1, <2>3, <1>3, <1>7
    <3>2. CASE i # k
      <4>1. i < k /\ i \in 1 .. l
        BY <3>2, <2>3, <1>5, <1>8
      <4>2. s2[i] = s[i] /\ s2[j] = n
        BY <4>1, <2>3, <1>7
      <4> QED BY <4>1, <4>2, <1>3, <1>6
    <3> QED BY <3>1, <3>2
  <2>4. CASE j > k
    <3>1. s2[j] = s[j - 1] /\ j - 1 \in 1 .. l /\ j - 1 >= k
      BY <2>4, <1>5, <1>7
    <3>2. CASE i < k
      <4>1. s2[i] = s[i] /\ i \in 1 .. l /\ i <= j - 1
        BY <3>2, <2>4, <1>5, <1>7
      <4> QED BY <4>1, <3>1, <2>1
    <3>3. CASE i = k
      <4>1. s2[i] = n /\ KeyOf[s[j - 1]] > v /\ KeyOf[s[j - 1]] \in Int
        BY <3>1, <3>3, <1>4, <1>6, <1>7
      <4> QED BY <4>1, <3>1, <1>3
    <3>4. CASE i > k
      <4>1. s2[i] = s[i - 1] /\ i - 1 \in 1 .. l /\ i - 1 <= j - 1
        BY <3>4, <1>5, <1>7, <1>8
      <4> QED BY <4>1, <3>1, <2>1
    <3> QED BY <3>2, <3>3, <3>4, <1>5
  <2> QED BY <2>2, <2>3, <2>4, <1>5
<1> QED BY <1>2, <1>7, <1>8 DEF Sorted

\* So does taking one out.
LEMMA RemovedSorted ==
  ASSUME NEW s \in Seq(Node), Sorted(s), NEW k \in 1 .. Len(s)
  PROVE  Sorted(Removed(s, k))
<1>1. PICK l \in Nat : l = Len(s)
  OBVIOUS
<1>2. PICK s2 : s2 = Removed(s, k)
  OBVIOUS
<1>3. k \in 1 .. l /\ k \in Int
  BY <1>1
<1>4. /\ Len(s2) = l - 1
      /\ \A i \in 1 .. l - 1 : s2[i] = IF i < k THEN s[i] ELSE s[i + 1]
  BY <1>1, <1>2, RemovedFacts
<1>5. ASSUME NEW i \in 1 .. l - 1, NEW j \in 1 .. l - 1, i <= j
      PROVE  KeyOf[s2[i]] <= KeyOf[s2[j]]
  <2>1. PICK g \in 1 .. l : g = IF i < k THEN i ELSE i + 1
    BY <1>3
  <2>2. PICK h \in 1 .. l : h = IF j < k THEN j ELSE j + 1
    BY <1>3
  <2>3. g <= h /\ s2[i] = s[g] /\ s2[j] = s[h]
    BY <2>1, <2>2, <1>3, <1>4, <1>5
  <2> QED BY <2>3, <1>1 DEF Sorted
<1> QED BY <1>2, <1>4, <1>5 DEF Sorted

\* The first element: the leaf is the root.
LEMMA FirstLeafShows ==
  ASSUME NEW t, NEW n \in Node, NEW r, NEW d, Attached(r, t, n, NULL, d)
  PROVE  Shows(r, {n}, Inserted(<< >>, 1, n))
<1>1. PICK s2 : s2 = Inserted(<< >>, 1, n)
  OBVIOUS
<1>2. PICK S \in SUBSET Node : S = {n}
  OBVIOUS
<1>3. s2 \in Seq(S) /\ Len(s2) = 1 /\ s2[1] = n
  <2>1. PICK e : e = << >>
    OBVIOUS
  <2>2. e \in Seq(S) /\ Len(e) = 0 /\ n \in S
    BY <2>1, <1>2
  <2>3. PICK k \in 1 .. Len(e) + 1 : k = 1
    BY <2>2
  <2>4. e \in Seq(S) /\ k \in 1 .. Len(e) + 1 /\ n \in S
    BY <2>2, <2>3
  <2>5. Inserted(e, k, n) \in Seq(S) /\ Len(Inserted(e, k, n)) = Len(e) + 1
    BY <2>4, InsertedFacts
  <2>6. ASSUME NEW i \in 1 .. Len(e) + 1
        PROVE  Inserted(e, k, n)[i] =
                 IF i < k THEN e[i] ELSE IF i = k THEN n ELSE e[i - 1]
    BY <2>4, InsertedFacts
  <2>7. Inserted(e, k, n)[k] = n
    BY <2>2, <2>3, <2>6
  <2> QED BY <2>1, <2>2, <2>3, <2>5, <2>7, <1>1
<1>4. PICK at \in [Node -> Int] : \A m \in Node : at[m] = 1
  <2>1. [m \in Node |-> 1] \in [Node -> Int]
    OBVIOUS
  <2> QED BY <2>1
<1>5. PICK b \in [Side -> [Node -> Int]] :
        \A e \in Side, m \in Node : b[e][m] = IF e = "L" THEN 0 ELSE 2
  <2>1. [e \in Side |-> [m \in Node |-> IF e = "L" THEN 0 ELSE 2]]
          \in [Side -> [Node -> Int]]
    OBVIOUS
  <2> QED BY <2>1
<1>6. Sorted(s2)
  <2>1. KeyOf[n] \in Int
    BY KeyAssumption
  <2> QED BY <2>1, <1>3 DEF Sorted
<1>7. Lists(s2, at, S)
  BY <1>2, <1>3, <1>4 DEF Lists
<1>8. r.root = n /\ \A e \in Side : r.child[e][n] = NULL
  BY DEF Attached
<1>9. b["L"][n] = 0 /\ b["R"][n] = 2 /\ at[n] = 1
  BY <1>4, <1>5 DEF Side
<1>10. \A e \in Side : b[e][n] = Beside(at[n], e)
  BY <1>9 DEF Side, Beside
<1>11. Spans(r, S, s2, at, b)
  BY <1>2, <1>3, <1>5, <1>8, <1>9, <1>10 DEF Spans
<1> QED BY <1>1, <1>2, <1>6, <1>7, <1>11 DEF Shows

\* The new leaf comes behind its equals and before the greater elements.
LEMMA AttachOrder ==
  ASSUME IInv, NEW s, Orders(s), Attach
  PROVE  \E s2 : Moves(s, s2) /\ Orders(s2)'
<1>1. PICK at, b : Ordering(s, at, b)
  BY DEF Orders
<1>2. /\ pc = "descend" /\ cur = NULL /\ Linked = live /\ live \in SUBSET Node
      /\ GoodTree(tree, live) /\ tree \in Tree /\ side \in Side /\ key \in Int
      /\ z \in Node \ live
      /\ par \in live \cup {NULL}
      /\ IF par = NULL THEN tree.root = NULL ELSE tree.child[side][par] = NULL
      /\ live' = live \cup {z}
      /\ tree' = AttachLeaf(tree, z, par, side)
  BY DEF IInv, InsertPointers, Attach, Linked, TypeOK
<1>3. pc' \in {"idle", "insert_rebalance"} /\ Linked' = live \cup {z}
  BY <1>2 DEF Attach, Return, Linked
<1>4. Attached(tree', tree, z, par, side)
  BY <1>2, NullAssumption, AttachFacts DEF NodeOrNull
<1>5. Lists(s, at, live) /\ Spans(tree, live, s, at, b) /\ Sorted(s)
  BY <1>1, <1>2 DEF Ordering, Orders
<1>6. s \in Seq(live) /\ s \in Seq(Node) /\ \A i \in 1 .. Len(s) : s[i] # z
  <2>1. s \in Seq(live) /\ live \subseteq Node
    BY <1>2, <1>5 DEF Lists
  <2>2. s \in Seq(Node)
    BY <2>1, SeqMonotonic
  <2> QED BY <2>1, <2>2, <1>2
<1>7. SUFFICES ASSUME NEW k \in 1 .. Len(s) + 1, Parted(s, KeyOf[z], k - 1, k),
                      Shows(tree', live \cup {z}, Inserted(s, k, z))
               PROVE  \E s2 : Moves(s, s2) /\ Orders(s2)'
  <2>1. CASE par = NULL
    <3>1. live = {}
      BY <2>1, <1>2 DEF GoodTree, WellLinked
    <3>2. s = << >> /\ Len(s) = 0
      <4>1. s \in Seq({})
        BY <3>1, <1>6
      <4>2. Len(s) \in Nat /\ \A i \in 1 .. Len(s) : s[i] \in {}
        BY <4>1, ElementOfSeq
      <4>3. Len(s) = 0
        BY <4>2
      <4> QED BY <4>1, <4>3, EmptySeq
    <3>3. Shows(tree', {z}, Inserted(<< >>, 1, z))
      BY <2>1, <1>2, <1>4, FirstLeafShows
    <3>4. Shows(tree', live \cup {z}, Inserted(s, 1, z))
      BY <3>1, <3>2, <3>3
    <3>5. 1 \in 1 .. Len(s) + 1 /\ Parted(s, KeyOf[z], 1 - 1, 1)
      BY <3>2 DEF Parted
    <3> QED BY <3>4, <3>5
  <2>2. CASE par # NULL
    <3>1. par \in live /\ tree.child[side][par] = NULL
      BY <2>2, <1>2
    <3>2. at[par] \in Int
      BY <3>1, <1>2, <1>5 DEF Lists
    <3>3. PICK k \in Int : k = SlotAt(at, par, side)
      BY <3>2 DEF SlotAt
    <3>4. /\ k \in 1 .. Len(s) + 1
          /\ \E at2, b2 : /\ Lists(Inserted(s, k, z), at2, live \cup {z})
                          /\ Spans(tree', live \cup {z}, Inserted(s, k, z), at2, b2)
      BY <3>1, <3>3, <1>2, <1>4, <1>5, AttachSpans
    <3>5. key = KeyOf[z] /\ Parted(s, key, k - 1, k)
      BY <2>2, <3>3, <1>1, <1>2 DEF Ordering, DescendOrder
    <3>6. Sorted(Inserted(s, k, z))
      BY <3>4, <3>5, <1>2, <1>5, <1>6, InsertedSorted
    <3>7. Shows(tree', live \cup {z}, Inserted(s, k, z))
      BY <3>4, <3>6 DEF Shows
    <3> QED BY <3>4, <3>5, <3>7
  <2> QED BY <2>1, <2>2
<1>8. PICK s2 : s2 = Inserted(s, k, z)
  OBVIOUS
<1>9. PutIn(s, s2)
  BY <1>2, <1>6, <1>7, <1>8 DEF PutIn
<1>10. Shows(tree', Linked', s2)
  BY <1>3, <1>7, <1>8
<1>11. Orders(s2)'
  BY <1>3, <1>10, Settled
<1> QED BY <1>9, <1>11 DEF Moves

\* The rotations of insert_rebalance leave the sequence as it is.
LEMMA InsertRotateOrder ==
  ASSUME IInv, BalanceInv, ~RhsFirst, NEW s, Orders(s), InsertRotate
  PROVE  Orders(s)'
<1>1. PICK g : g = Grandparent(tree, cur)
  OBVIOUS
<1>2. PICK d : d = SideOf(tree, tree.parent[cur])
  OBVIOUS
<1>3. PICK t1 : t1 = Straighten(tree, cur).t
  OBVIOUS
<1>4. PICK n : n = Straighten(tree, cur).node
  OBVIOUS
<1>5. PICK p : p = t1.parent[n]
  OBVIOUS
<1>6. /\ live \in SUBSET Node /\ GoodTree(t1, live)
      /\ g \in live /\ p \in live /\ d \in Side
      /\ t1.child[d][g] = p
      /\ SideOf(t1, p) = d
  <2>1. pc = "insert_rebalance" /\ RedParent
    BY DEF InsertRotate
  <2> QED BY <2>1, <1>1, <1>2, <1>3, <1>4, <1>5, StraightenBalance
<1>7. PICK o \in Side : o = Opp(d) /\ Opp(o) = d
  BY <1>6, SideFacts
<1>8. /\ tree' = t1 \/ tree' = RotateAndStore(t1, g, o)
      /\ live' = live /\ pc' = pc /\ pc = "insert_rebalance" /\ RedParent
  BY <1>1, <1>3, <1>4, <1>5, <1>6, <1>7 DEF InsertRotate
<1>9. /\ GoodTree(tree, live) /\ tree.parent[cur] \in live
      /\ Linked = live /\ Linked' = live
  BY <1>8, RedParentFacts DEF Linked
<1>10. Shows(tree, live, s)
  BY <1>9, OrdersShows
<1>11. Shows(t1, live, s)
  <2>1. t1 = tree \/ t1 = Rotate(tree, tree.parent[cur], d)
    BY <1>2, <1>3 DEF Straighten
  <2> QED BY <2>1, <1>6, <1>9, <1>10, RotateShows
<1>12. Shows(RotateAndStore(t1, g, o), live, s)
  <2>1. p # NULL
    BY <1>6, NullAssumption
  <2>2. Turned(RotateAndStore(t1, g, o), t1, live, g, o, p)
    BY <2>1, <1>6, <1>7, StoreTurnFacts
  <2> QED BY <2>2, <1>6, <1>7, <1>11, TurnShows
<1>13. Shows(tree', Linked', s)
  BY <1>8, <1>9, <1>11, <1>12
<1> QED BY <1>8, <1>13, Settled

\* Taking out an element and writing it over the one before it is taking out
\* the one before it.
LEMMA RemovedSwap ==
  ASSUME NEW S, NEW s \in Seq(S), NEW k \in 1 .. Len(s), NEW j \in 1 .. Len(s), k = j + 1,
         NEW y, y = s[k]
  PROVE  [Removed(s, k) EXCEPT ![j] = y] = Removed(s, j)
<1>1. PICK l \in Nat : l = Len(s)
  OBVIOUS
<1>2. k \in 1 .. l /\ j \in 1 .. l - 1 /\ k \in Int /\ j \in Int /\ k = j + 1 /\ y \in S
  BY <1>1
<1>3. PICK p : p = Removed(s, k)
  OBVIOUS
<1>4. PICK q : q = Removed(s, j)
  OBVIOUS
<1>5. p \in Seq(S) /\ Len(p) = l - 1
  BY <1>1, <1>3, RemovedFacts
<1>6. ASSUME NEW i \in 1 .. l - 1
      PROVE  p[i] = IF i < k THEN s[i] ELSE s[i + 1]
  <2>1. s \in Seq(S) /\ k \in 1 .. Len(s) /\ i \in 1 .. Len(s) - 1
    BY <1>1
  <2> QED BY <2>1, <1>3, RemovedFacts
<1>7. q \in Seq(S) /\ Len(q) = l - 1
  BY <1>1, <1>4, RemovedFacts
<1>8. ASSUME NEW i \in 1 .. l - 1
      PROVE  q[i] = IF i < j THEN s[i] ELSE s[i + 1]
  <2>1. s \in Seq(S) /\ j \in 1 .. Len(s) /\ i \in 1 .. Len(s) - 1
    BY <1>1
  <2> QED BY <2>1, <1>4, RemovedFacts
<1>9. PICK r : r = [p EXCEPT ![j] = y]
  OBVIOUS
<1>10. /\ r \in Seq(S) /\ Len(r) = l - 1
       /\ \A i \in 1 .. l - 1 : r[i] = IF i = j THEN y ELSE p[i]
  BY <1>2, <1>5, <1>9
<1>11. \A i \in 1 .. l - 1 : r[i] = q[i]
  BY <1>2, <1>6, <1>8, <1>10
<1>12. r = q
  BY <1>7, <1>10, <1>11, SeqEqual
<1> QED BY <1>3, <1>4, <1>9, <1>12

\* The rotations of erase_rebalance leave the sequence as it is.
LEMMA EraseRotateOrder ==
  ASSUME IInv, BalanceInv, NEW s, Orders(s), EraseRecolor \/ EraseRotate
  PROVE  Orders(s)'
<1>1. /\ pc = "erase_rebalance" /\ BlackShort /\ UNCHANGED <<live, z>>
      /\ pc' \in {"erase_rebalance", "delete"}
  BY DEF EraseRecolor, EraseRotate
<1>2. /\ Linked \in SUBSET Node /\ par \in Linked /\ GoodTree(tree, Linked)
      /\ GoodTree(Tree1, Linked) /\ Sibling \in Linked
      /\ ShortSide \in Side /\ Opp(ShortSide) \in Side
  BY <1>1, ShortBalance, SideFacts DEF IInv
<1>3. Linked' = Linked
  BY <1>1 DEF Linked
<1>4. Shows(tree, Linked, s)
  BY OrdersShows
<1>5. Shows(Tree1, Linked, s)
  BY <1>2, <1>4, RotateShows DEF Tree1
<1>6. Tree3 = Tree1 \/ Tree3 = Rotate(Tree1, Sibling, Opp(ShortSide))
  BY DEF Tree3
<1>7. GoodTree(Tree3, Linked) /\ Shows(Tree3, Linked, s)
  BY <1>2, <1>5, <1>6, RotateGood, RotateShows
<1>8. Shows(Rotate(Tree3, par, ShortSide), Linked, s)
  BY <1>2, <1>7, RotateShows
<1>9. tree' = Tree1 \/ tree' = Rotate(Tree3, par, ShortSide)
  BY DEF EraseRecolor, EraseRotate
<1>10. Shows(tree', Linked', s)
  BY <1>3, <1>5, <1>8, <1>9
<1> QED BY <1>1, <1>10, Settled

\* A node with at most one child is taken out of the tree.
LEMMA SpliceOutOrder ==
  ASSUME IInv, NEW s, Orders(s), SpliceOut
  PROVE  \E s2 : Moves(s, s2) /\ Orders(s2)'
<1>1. PICK u : u = cur
  OBVIOUS
<1>2. /\ u \in live /\ GoodTree(tree, live) /\ live \in SUBSET Node
      /\ Linked = live /\ Linked' = live \ {u}
      /\ pc' \in {"erase_rebalance", "delete"}
      /\ Left(tree, u) = NULL \/ Right(tree, u) = NULL
      /\ tree' = Transplant(tree, u, IF Left(tree, u) = NULL THEN Right(tree, u)
                                     ELSE Left(tree, u))
  BY <1>1 DEF IInv, SearchPointers, SpliceOut, Linked, TypeOK, Unlinked
<1>3. PICK d \in Side : /\ tree.child[Opp(d)][u] = NULL
                        /\ tree' = Transplant(tree, u, tree.child[d][u])
  <2>1. CASE Left(tree, u) = NULL
    <3>1. "R" \in Side /\ Opp("R") = "L"
      BY DEF Side, Opp
    <3> QED BY <3>1, <2>1, <1>2 DEF Left, Right
  <2>2. CASE Left(tree, u) # NULL
    <3>1. "L" \in Side /\ Opp("L") = "R"
      BY DEF Side, Opp
    <3> QED BY <3>1, <2>2, <1>2 DEF Left, Right
  <2> QED BY <2>1, <2>2
<1>4. PICK x \in NodeOrNull : x = tree.child[d][u]
  BY <1>2, Neighbours
<1>5. Spliced(tree', tree, live, u, x)
  BY <1>2, <1>3, <1>4, SpliceFacts
<1>6. PICK at, b : Lists(s, at, live) /\ Spans(tree, live, s, at, b)
  BY <1>2 DEF Orders, Ordering
<1>7. PICK k \in Int : k = at[u]
  BY <1>2, <1>6 DEF Lists
<1>8. /\ k \in 1 .. Len(s)
      /\ \E at2, b2 : /\ Lists(Removed(s, k), at2, live \ {u})
                      /\ Spans(tree', live \ {u}, Removed(s, k), at2, b2)
  BY <1>2, <1>3, <1>4, <1>5, <1>6, <1>7, SpliceSpans
<1>9. Sorted(Removed(s, k))
  <2>1. s \in Seq(Node)
    BY <1>2, <1>6, SeqMonotonic DEF Lists
  <2> QED BY <2>1, <1>8, RemovedSorted DEF Orders
<1>10. PICK s2 : s2 = Removed(s, k)
  OBVIOUS
<1>11. Shows(tree', Linked', s2)
  BY <1>2, <1>8, <1>9, <1>10 DEF Shows
<1>12. Orders(s2)'
  BY <1>2, <1>11, Settled
<1> QED BY <1>8, <1>10, <1>12 DEF Moves, TakeOut

\* The successor of z takes its place: what leaves the sequence is z.
LEMMA ReplaceOrder ==
  ASSUME IInv, NEW s, Orders(s), ReplaceBySuccessor
  PROVE  \E s2 : Moves(s, s2) /\ Orders(s2)'
<1>1. PICK y : y = cur
  OBVIOUS
<1>2. PICK t1 : t1 = IF tree.parent[y] = z THEN tree ELSE Detach(tree, y)
  OBVIOUS
<1>3. PICK x : x = Right(tree, y)
  OBVIOUS
<1>4. /\ Linked = live /\ GoodTree(tree, live) /\ live \in SUBSET Node
      /\ y \in live /\ z \in live
      /\ Below(tree, live, y, z)
      /\ tree.parent[y] \in live
      /\ tree.parent[y] = z => y = Right(tree, z)
      /\ Left(tree, y) = NULL
      /\ tree' = Inherit(Transplant(t1, z, y), y, "L")
      /\ pc = "successor" /\ pc' \in {"erase_rebalance", "delete"}
      /\ Linked' = live \ {z}
  BY <1>1, <1>2 DEF IInv, SearchPointers, ReplaceBySuccessor, Linked, TypeOK, Unlinked
<1>5. y # z
  BY <1>4, BelowIsOther
<1>6. "L" \in Side /\ "R" \in Side /\ Opp("R") = "L"
  BY DEF Side, Opp
<1>7. x \in live \cup {NULL} /\ x # z /\ x # y /\ x = tree.child["R"][y]
  <2>1. x = tree.child["R"][y]
    BY <1>3 DEF Right
  <2>2. ASSUME x # NULL PROVE x \in live /\ Below(tree, live, x, z) /\ x # y
    BY <2>1, <2>2, <1>4, <1>6, Neighbours, ChildIsBelow, NoLoops
  <2> QED BY <2>1, <2>2, <1>4, BelowIsOther, NullAssumption
<1>8. PICK q : q = Transplant(tree, y, x)
  OBVIOUS
<1>9. GoodTree(q, live \ {y}) /\ Renamed(tree', q, z, y, live \ {y})
  BY <1>2, <1>3, <1>4, <1>5, <1>7, <1>8, SuccessorGood
<1>10. Spliced(q, tree, live, y, x)
  BY <1>4, <1>7, <1>8, SpliceFacts DEF NodeOrNull
<1>11. PICK at, b : /\ Lists(s, at, live) /\ Spans(tree, live, s, at, b)
                    /\ b["L"][y] = at[z]
  BY <1>1, <1>4 DEF Orders, Ordering, SuccessorOrder
<1>12. PICK k \in Int : k = at[y]
  BY <1>4, <1>11 DEF Lists
<1>13. PICK j \in Int : j = at[z]
  BY <1>4, <1>11 DEF Lists
<1>14. k = j + 1
  <2>1. Measured(tree, live, s, at, b)
    BY <1>4, <1>11, SpanFacts
  <2>2. b["L"][y] = Beside(at[y], "L")
    BY <2>1, <1>4, <1>6 DEF Measured, Left
  <2> QED BY <2>2, <1>11, <1>12, <1>13 DEF Beside
<1>15. PICK s1 : s1 = Removed(s, k)
  OBVIOUS
<1>16. /\ k \in 1 .. Len(s)
       /\ \E at2, b2 : /\ Lists(s1, at2, live \ {y})
                       /\ Spans(q, live \ {y}, s1, at2, b2)
                       /\ MovedDown(at2, at, k, live \ {y})
  <2>1. PICK d \in Side : d = "R" /\ Opp(d) = "L"
    BY <1>6
  <2>2. /\ live \in SUBSET Node /\ GoodTree(tree, live) /\ y \in live
        /\ tree.child[Opp(d)][y] = NULL /\ x = tree.child[d][y]
        /\ Spliced(q, tree, live, y, x)
        /\ Lists(s, at, live) /\ Spans(tree, live, s, at, b) /\ k = at[y]
    BY <2>1, <1>4, <1>7, <1>10, <1>11, <1>12 DEF Left
  <2>3. /\ k \in 1 .. Len(s)
        /\ \E at2, b2 : /\ Lists(Removed(s, k), at2, live \ {y})
                        /\ Spans(q, live \ {y}, Removed(s, k), at2, b2)
                        /\ MovedDown(at2, at, k, live \ {y})
    BY <2>1, <2>2, <1>12, SpliceSpans
  <2> QED BY <2>3, <1>15
<1>17. PICK at2, b2 : /\ Lists(s1, at2, live \ {y})
                      /\ Spans(q, live \ {y}, s1, at2, b2)
                      /\ at2[z] = IF at[z] > k THEN at[z] - 1 ELSE at[z]
  BY <1>4, <1>5, <1>16 DEF MovedDown
<1>18. at2[z] = j
  BY <1>13, <1>14, <1>17
<1>19. PICK s2 : s2 = [s1 EXCEPT ![j] = y]
  OBVIOUS
<1>20. \E at3, b3 : /\ Lists(s2, at3, live \ {z})
                    /\ Spans(tree', live \ {z}, s2, at3, b3)
  <2>1. ((live \ {y}) \ {z}) \cup {y} = live \ {z}
    BY <1>4, <1>5
  <2>2. live \ {y} \in SUBSET Node /\ z \in live \ {y} /\ y \in Node \ (live \ {y})
    BY <1>4, <1>5
  <2>3. \E at3, b3 : /\ Lists([s1 EXCEPT ![at2[z]] = y], at3, ((live \ {y}) \ {z}) \cup {y})
                     /\ Spans(tree', ((live \ {y}) \ {z}) \cup {y},
                              [s1 EXCEPT ![at2[z]] = y], at3, b3)
    BY <2>2, <1>9, <1>17, RenameSpans
  <2> QED BY <2>1, <2>3, <1>18, <1>19
<1>21. s \in Seq(live) /\ s[at[y]] = y /\ at[z] \in 1 .. Len(s)
  BY <1>4, <1>11 DEF Lists
<1>22. s2 = Removed(s, j) /\ j \in 1 .. Len(s)
  BY SMTT(30), <1>12, <1>13, <1>14, <1>15, <1>16, <1>19, <1>21, RemovedSwap
<1>23. Sorted(s2)
  <2>1. s \in Seq(Node)
    BY <1>4, <1>21, SeqMonotonic
  <2> QED BY <2>1, <1>22, RemovedSorted DEF Orders
<1>24. Shows(tree', Linked', s2)
  BY <1>4, <1>20, <1>23 DEF Shows
<1>25. Orders(s2)'
  BY <1>4, <1>24, Settled
<1> QED BY <1>22, <1>25 DEF Moves, TakeOut

\* `delete z` writes to no node of the tree.
LEMMA DeleteOrder ==
  ASSUME IInv, NEW s, Orders(s), Delete
  PROVE  Orders(s)'
<1>1. /\ pc = "delete" /\ pc' = "idle" /\ tree' = Scrub(tree, {z}) /\ tree \in Tree
      /\ Linked = live \ {z} /\ Linked' = live \ {z}
      /\ {z} \in SUBSET Node /\ Linked \in SUBSET Node
  BY DEF Delete, Return, IInv, TypeOK, UnlinkPointers, Linked
<1>2. Scrubbed(tree', tree, {z})
  BY <1>1, ScrubFacts
<1>3. \A n \in Linked, d \in Side : tree'.child[d][n] = tree.child[d][n]
  BY <1>1, <1>2 DEF Scrubbed
<1>4. Shows(tree, Linked, s)
  BY OrdersShows
<1>5. tree'.root = tree.root
  BY <1>2 DEF Scrubbed
<1>6. Shows(tree', Linked, s)
  <2>1. PICK r : r = tree'
    OBVIOUS
  <2>2. PICK S \in SUBSET Node : S = Linked
    BY <1>1
  <2>3. r.root = tree.root /\ \A n \in S, d \in Side : r.child[d][n] = tree.child[d][n]
    BY <2>1, <2>2, <1>3, <1>5
  <2>4. Shows(r, S, s)
    BY <2>2, <2>3, <1>4, SameShows
  <2> QED BY <2>1, <2>2, <2>4
<1> QED BY <1>1, <1>6, Settled

\* A tree of no nodes shows the empty sequence.
LEMMA EmptyShows ==
  ASSUME NEW t, t.root = NULL
  PROVE  Shows(t, {}, << >>)
<1>1. PICK at : at \in [Node -> Int]
  <2>1. [n \in Node |-> 0] \in [Node -> Int]
    OBVIOUS
  <2> QED BY <2>1
<1>2. PICK b : b \in [Side -> [Node -> Int]]
  <2>1. [d \in Side |-> at] \in [Side -> [Node -> Int]]
    BY <1>1
  <2> QED BY <2>1
<1>3. Lists(<< >>, at, {})
  BY <1>1, EmptySeq DEF Lists
<1>4. Spans(t, {}, << >>, at, b)
  BY <1>2 DEF Spans
<1>5. Sorted(<< >>)
  BY DEF Sorted
<1> QED BY <1>3, <1>4, <1>5 DEF Shows

\* clear() leaves nothing.
LEMMA ClearOrder ==
  ASSUME IInv, Clear
  PROVE  Orders(<< >>)'
<1>1. /\ pc' = "idle" /\ live' = {} /\ Linked' = {}
      /\ tree' = SetRoot(Scrub(tree, live), NULL)
      /\ tree \in Tree /\ live \in SUBSET Node
  BY DEF Clear, IInv, TypeOK, Linked
<1>2. Scrubbed(Scrub(tree, live), tree, live)
  BY <1>1, ScrubFacts
<1>3. RootSet(tree', Scrub(tree, live), NULL)
  BY <1>1, <1>2, SetRootFacts DEF Scrubbed, NodeOrNull
<1>4. Shows(tree', {}, << >>)
  BY <1>3, EmptyShows DEF RootSet
<1> QED BY <1>1, <1>4, Settled

\* A new tree shows the empty sequence.
LEMMA InitOrder ==
  ASSUME Init
  PROVE  Orders(<< >>)
<1>1. tree.root = NULL /\ Linked = {} /\ pc = "idle"
  BY DEF Init, EmptyTree, Linked
<1>2. Shows(tree, Linked, << >>)
  BY <1>1, EmptyShows
<1>3. PICK at, b : Lists(<< >>, at, Linked) /\ Spans(tree, Linked, << >>, at, b)
  BY <1>2 DEF Shows
<1>4. Ordering(<< >>, at, b)
  BY <1>1, <1>3 DEF Ordering, DescendOrder, SuccessorOrder
<1> QED BY <1>2, <1>4 DEF Shows, Orders

\* Every step keeps the sequence, or puts one element in, takes one out, or
\* empties it.
LEMMA NextOrder ==
  ASSUME IInv, BalanceInv, ~RhsFirst, NEW s, Orders(s), [Next]_vars
  PROVE  \E s2 : Moves(s, s2) /\ Orders(s2)'
<1>1. SUFFICES ASSUME ~ \E s2 : Moves(s, s2) /\ Orders(s2)'
               PROVE  FALSE
  OBVIOUS
<1>2. ~ Orders(s)'
  BY <1>1 DEF Moves
<1>3. ASSUME UNCHANGED <<tree, live>>, Linked' = Linked,
             pc' \notin {"descend", "successor"}
      PROVE  FALSE
  BY <1>2, <1>3, RestOrder
<1>4. CASE \E n \in Node : InsertCall(n)
  BY <1>2, <1>4, InsertCallOrder
<1>5. CASE \E k \in Keys : EraseCall(k)
  <2>1. UNCHANGED <<tree, live>> /\ pc' = "find" /\ pc = "idle"
    BY <1>5 DEF EraseCall
  <2> QED BY <2>1, <1>3 DEF Linked
<1>6. CASE Clear
  <2>1. PICK s2 : s2 = << >>
    OBVIOUS
  <2>2. Orders(s2)'
    BY <2>1, <1>6, ClearOrder
  <2> QED BY <2>1, <2>2, <1>1 DEF Moves
<1>7. CASE Descend
  BY <1>2, <1>7, DescendOrderStep
<1>8. CASE Attach
  BY <1>1, <1>8, AttachOrder
<1>9. CASE AttachFails \/ NotFound
  <2>1. UNCHANGED <<tree, live>> /\ pc' = "idle" /\ pc \in {"descend", "find"}
    BY <1>9 DEF AttachFails, NotFound, Return
  <2> QED BY <2>1, <1>3 DEF Linked
<1>10. CASE InsertRecolor \/ InsertDone
  <2>1. /\ UNCHANGED <<tree, live>> /\ pc' \in {"idle", "insert_rebalance"}
        /\ pc = "insert_rebalance"
    BY <1>10 DEF InsertRecolor, InsertDone, Return
  <2> QED BY <2>1, <1>3 DEF Linked
<1>11. CASE InsertRotate
  BY <1>2, <1>11, InsertRotateOrder
<1>12. CASE Find
  <2>1. UNCHANGED <<tree, live>> /\ pc' = "find" /\ pc = "find"
    BY <1>12 DEF Find
  <2> QED BY <2>1, <1>3 DEF Linked
<1>13. CASE SpliceOut
  BY <1>1, <1>13, SpliceOutOrder
<1>14. CASE SeekSuccessor \/ GoLeft
  BY <1>2, <1>14, SuccessorWalkOrder
<1>15. CASE ReplaceBySuccessor
  BY <1>1, <1>15, ReplaceOrder
<1>16. CASE EraseRecolor \/ EraseRotate
  BY <1>2, <1>16, EraseRotateOrder
<1>17. CASE EraseDone
  <2>1. UNCHANGED <<tree, live, z>> /\ pc' = "delete" /\ pc = "erase_rebalance"
    BY <1>17 DEF EraseDone
  <2> QED BY <2>1, <1>3 DEF Linked
<1>18. CASE Delete
  BY <1>2, <1>18, DeleteOrder
<1>19. CASE UNCHANGED vars
  <2>1. PICK at, b : Sorted(s) /\ Ordering(s, at, b)
    BY DEF Orders
  <2>2. Ordering(s, at, b)'
    BY <2>1, <1>19
       DEF vars, Ordering, DescendOrder, SuccessorOrder, Linked
  <2> QED BY <2>1, <2>2, <1>2 DEF Orders
<1> QED BY <1>4, <1>5, <1>6, <1>7, <1>8, <1>9, <1>10, <1>11, <1>12, <1>13, <1>14, <1>15,
           <1>16, <1>17, <1>18, <1>19 DEF Next, Step

\* The tree shows a sorted sequence at every step of every call, and the calls
\* look for their place where the order puts it.
THEOREM OrderInvariance == ASSUME ~RhsFirst PROVE Spec => [](TreeInv /\ OrderInv)
<1>1. Init => OrderInv
  BY InitOrder DEF OrderInv
<1>2. TreeInv /\ OrderInv /\ [Next]_vars => OrderInv'
  <2> SUFFICES ASSUME TreeInv, OrderInv, [Next]_vars PROVE OrderInv'
    OBVIOUS
  <2>1. PICK s : Orders(s)
    BY DEF OrderInv
  <2>2. \E s2 : Moves(s, s2) /\ Orders(s2)'
    BY <2>1, NextOrder DEF TreeInv
  <2> QED BY <2>2 DEF OrderInv
<1>3. Spec => []OrderInv
  BY <1>1, <1>2, TreeInvariance, PTL DEF Spec
<1> QED BY <1>3, TreeInvariance, PTL
-----------------------------------------------------------------------------
(***************************************************************************)
(* The walk from the root (inorder, in the tests and in begin() .. end())  *)
(* meets the nodes in the order of the sequence.                           *)
(***************************************************************************)

\* One level of inorder, with f for the levels below.
WalkBody(t, f, m) ==
  IF m = NULL THEN << >> ELSE f[Left(t, m)] \o <<m>> \o f[Right(t, m)]

WalkMap(t) == CHOOSE f : f = [m \in NodeOrNull |-> WalkBody(t, f, m)]

SolvesWalk(t, f) == \A m \in NodeOrNull : f[m] = WalkBody(t, f, m)

\* The part of the sequence that the subtree of m takes.
PartOf(s, b, m) == IF m = NULL THEN << >> ELSE SubSeq(s, b["L"][m] + 1, b["R"][m] - 1)

\* inorder is the function that satisfies its own recursion.
LEMMA InorderIs ==
  ASSUME NEW t, NEW n
  PROVE  Inorder(t, n) = WalkMap(t)[n]
BY DEF Inorder, WalkMap, WalkBody

\* If any function satisfies the recursion, the chosen one does.
LEMMA WalkMapExists ==
  ASSUME NEW t, NEW g, g = [m \in NodeOrNull |-> WalkBody(t, g, m)]
  PROVE  WalkMap(t) = [m \in NodeOrNull |-> WalkBody(t, WalkMap(t), m)]
BY DEF WalkMap

\* The elements between two positions.
LEMMA BetweenFacts ==
  ASSUME NEW S, NEW s \in Seq(S), NEW lo \in 0 .. Len(s), NEW hi \in lo + 1 .. Len(s) + 1
  PROVE  /\ SubSeq(s, lo + 1, hi - 1) \in Seq(S)
         /\ Len(SubSeq(s, lo + 1, hi - 1)) = hi - lo - 1
         /\ \A i \in 1 .. hi - lo - 1 : SubSeq(s, lo + 1, hi - 1)[i] = s[lo + i]
<1>1. Len(s) \in Nat /\ lo \in Int /\ hi \in Int
  OBVIOUS
<1>2. PICK i1 \in 1 .. Len(s) + 1 : i1 = lo + 1
  BY <1>1
<1>3. PICK j1 \in i1 - 1 .. Len(s) : j1 = hi - 1
  BY <1>1, <1>2
<1>4. SubSeq(s, i1, j1) \in Seq(S) /\ Len(SubSeq(s, i1, j1)) = j1 - i1 + 1
  BY <1>2, <1>3, PartFacts
<1>5. ASSUME NEW i \in 1 .. j1 - i1 + 1
      PROVE  SubSeq(s, i1, j1)[i] = s[i1 + i - 1]
  BY <1>2, <1>3, PartFacts
<1>6. j1 - i1 + 1 = hi - lo - 1
  BY <1>1, <1>2, <1>3
<1>7. SubSeq(s, lo + 1, hi - 1) = SubSeq(s, i1, j1)
  BY <1>2, <1>3
<1>8. ASSUME NEW i \in 1 .. hi - lo - 1
      PROVE  SubSeq(s, lo + 1, hi - 1)[i] = s[lo + i]
  <2>1. i \in 1 .. j1 - i1 + 1
    BY <1>6
  <2>2. i1 + i - 1 = lo + i
    BY <1>1, <1>2
  <2> QED BY <2>1, <2>2, <1>5, <1>7
<1> QED BY <1>4, <1>6, <1>7, <1>8

\* A part of a sequence around one of its elements.
LEMMA SplitPart ==
  ASSUME NEW S, NEW s \in Seq(S), NEW a \in 1 .. Len(s),
         NEW lo \in 0 .. a - 1, NEW hi \in a + 1 .. Len(s) + 1, NEW n, n = s[a]
  PROVE  SubSeq(s, lo + 1, a - 1) \o <<n>> \o SubSeq(s, a + 1, hi - 1)
           = SubSeq(s, lo + 1, hi - 1)
<1>1. PICK l \in Nat : l = Len(s)
  OBVIOUS
<1>2. /\ a \in 1 .. l /\ lo \in 0 .. a - 1 /\ hi \in a + 1 .. l + 1
      /\ a \in Int /\ lo \in Int /\ hi \in Int /\ n \in S
  BY <1>1
<1>3. PICK p : p = SubSeq(s, lo + 1, a - 1)
  OBVIOUS
<1>4. PICK q : q = SubSeq(s, a + 1, hi - 1)
  OBVIOUS
<1>5. PICK r : r = SubSeq(s, lo + 1, hi - 1)
  OBVIOUS
<1>6. /\ p \in Seq(S) /\ Len(p) = a - 1 - lo
      /\ \A i \in 1 .. a - 1 - lo : p[i] = s[lo + i]
  <2>1. lo \in 0 .. Len(s) /\ a \in lo + 1 .. Len(s) + 1
    BY <1>1, <1>2
  <2>2. p \in Seq(S) /\ Len(p) = a - lo - 1
    BY <2>1, <1>3, BetweenFacts
  <2>3. ASSUME NEW i \in 1 .. a - lo - 1
        PROVE  p[i] = s[lo + i]
    BY <2>1, <1>3, BetweenFacts
  <2> QED BY <2>2, <2>3, <1>2
<1>7. /\ q \in Seq(S) /\ Len(q) = hi - a - 1
      /\ \A i \in 1 .. hi - a - 1 : q[i] = s[a + i]
  <2>1. a \in 0 .. Len(s) /\ hi \in a + 1 .. Len(s) + 1
    BY <1>1, <1>2
  <2>2. q \in Seq(S) /\ Len(q) = hi - a - 1
    BY <2>1, <1>4, BetweenFacts
  <2>3. ASSUME NEW i \in 1 .. hi - a - 1
        PROVE  q[i] = s[a + i]
    BY <2>1, <1>4, BetweenFacts
  <2> QED BY <2>2, <2>3, <1>2
<1>8. /\ r \in Seq(S) /\ Len(r) = hi - lo - 1
      /\ \A i \in 1 .. hi - lo - 1 : r[i] = s[lo + i]
  <2>1. lo \in 0 .. Len(s) /\ hi \in lo + 1 .. Len(s) + 1
    BY <1>1, <1>2
  <2>2. r \in Seq(S) /\ Len(r) = hi - lo - 1
    BY <2>1, <1>5, BetweenFacts
  <2>3. ASSUME NEW i \in 1 .. hi - lo - 1
        PROVE  r[i] = s[lo + i]
    BY <2>1, <1>5, BetweenFacts
  <2> QED BY <2>2, <2>3, <1>2
<1>9. <<n>> \in Seq(S) /\ Len(<<n>>) = 1 /\ <<n>>[1] = n
  BY <1>2
<1>10. PICK m : m = p \o <<n>>
  OBVIOUS
<1>11. /\ m \in Seq(S) /\ Len(m) = a - lo
       /\ \A i \in 1 .. a - lo : m[i] = s[lo + i]
  <2>1. m \in Seq(S) /\ Len(m) = Len(p) + Len(<<n>>)
    BY <1>6, <1>9, <1>10, ConcatProperties
  <2>2. ASSUME NEW i \in 1 .. Len(p) + Len(<<n>>)
        PROVE  m[i] = IF i <= Len(p) THEN p[i] ELSE <<n>>[i - Len(p)]
    BY <1>6, <1>9, <1>10, ConcatProperties
  <2>3. ASSUME NEW i \in 1 .. a - lo
        PROVE  m[i] = s[lo + i]
    <3>1. m[i] = IF i <= a - 1 - lo THEN p[i] ELSE <<n>>[i - (a - 1 - lo)]
      BY <2>2, <1>2, <1>6, <1>9
    <3>2. CASE i <= a - 1 - lo
      BY <3>1, <3>2, <1>2, <1>6
    <3>3. CASE i = a - lo
      <4>1. i - (a - 1 - lo) = 1 /\ lo + i = a /\ ~(i <= a - 1 - lo)
        BY <3>3, <1>2
      <4> QED BY <4>1, <3>1, <1>9
    <3> QED BY <3>2, <3>3, <1>2
  <2> QED BY <2>1, <2>3, <1>2, <1>6, <1>9
<1>12. /\ m \o q \in Seq(S) /\ Len(m \o q) = hi - lo - 1
       /\ \A i \in 1 .. hi - lo - 1 : (m \o q)[i] = s[lo + i]
  <2>1. m \o q \in Seq(S) /\ Len(m \o q) = Len(m) + Len(q)
    BY <1>7, <1>11, ConcatProperties
  <2>2. ASSUME NEW i \in 1 .. Len(m) + Len(q)
        PROVE  (m \o q)[i] = IF i <= Len(m) THEN m[i] ELSE q[i - Len(m)]
    BY <1>7, <1>11, ConcatProperties
  <2>3. ASSUME NEW i \in 1 .. hi - lo - 1
        PROVE  (m \o q)[i] = s[lo + i]
    <3>1. (m \o q)[i] = IF i <= a - lo THEN m[i] ELSE q[i - (a - lo)]
      BY <2>2, <1>2, <1>7, <1>11
    <3>2. CASE i <= a - lo
      BY <3>1, <3>2, <1>2, <1>11
    <3>3. CASE ~(i <= a - lo)
      <4>1. i - (a - lo) \in 1 .. hi - a - 1 /\ a + (i - (a - lo)) = lo + i
        BY <3>3, <1>2
      <4> QED BY <4>1, <3>1, <3>3, <1>7
    <3> QED BY <3>2, <3>3
  <2> QED BY <2>1, <2>3, <1>2, <1>7, <1>11
<1>13. m \o q = r
  BY <1>8, <1>12, SeqEqual
<1> QED BY <1>3, <1>4, <1>5, <1>10, <1>13

\* One level gives the part of a node if the levels below give theirs.
LEMMA WalkBodyIsPart ==
  ASSUME NEW t, NEW S \in SUBSET Node, GoodTree(t, S), NEW s, NEW at, NEW b,
         Lists(s, at, S), Spans(t, S, s, at, b), NEW n \in S, NEW f,
         \A d \in Side : f[t.child[d][n]] = PartOf(s, b, t.child[d][n])
  PROVE  WalkBody(t, f, n) = PartOf(s, b, n)
<1>1. Measured(t, S, s, at, b)
  BY SpanFacts
<1>2. "L" \in Side /\ "R" \in Side /\ Opp("L") = "R" /\ Opp("R") = "L"
  BY DEF Side, Opp
<1>3. s \in Seq(S) /\ Len(s) \in Nat /\ at[n] \in 1 .. Len(s) /\ s[at[n]] = n
  BY DEF Lists
<1>4. PICK a \in 1 .. Len(s) : a = at[n]
  BY <1>3
<1>5. PICK lo \in Int : lo = b["L"][n]
  BY <1>1, <1>2 DEF Measured
<1>6. PICK hi \in Int : hi = b["R"][n]
  BY <1>1, <1>2 DEF Measured
<1>7. lo \in 0 .. a - 1 /\ hi \in a + 1 .. Len(s) + 1
  <2>1. 0 <= lo /\ lo < a /\ a < hi /\ hi <= Len(s) + 1
    BY <1>4, <1>5, <1>6 DEF Spans
  <2> QED BY <2>1, <1>3, <1>4, <1>5, <1>6
<1>8. f[Left(t, n)] = SubSeq(s, lo + 1, a - 1)
  <2>1. PICK c : c = t.child["L"][n]
    OBVIOUS
  <2>2. IF c = NULL THEN b["L"][n] = Beside(at[n], "L")
        ELSE b["L"][c] = b["L"][n] /\ b["R"][c] = at[n]
    BY <2>1, <1>1, <1>2 DEF Measured
  <2>3. f[c] = PartOf(s, b, c) /\ Left(t, n) = c
    BY <2>1, <1>2 DEF Left
  <2>4. CASE c = NULL
    <3>1. lo = a - 1
      BY <2>2, <2>4, <1>4, <1>5 DEF Beside
    <3>2. lo \in 0 .. Len(s) /\ a \in lo + 1 .. Len(s) + 1
      BY <1>3, <1>4, <1>7
    <3>3. SubSeq(s, lo + 1, a - 1) \in Seq(S) /\ Len(SubSeq(s, lo + 1, a - 1)) = a - lo - 1
      BY <3>2, <1>3, BetweenFacts
    <3>4. SubSeq(s, lo + 1, a - 1) = << >>
      BY SMTT(30), <3>1, <3>3, <1>4, EmptySeq
    <3> QED BY <3>4, <2>3, <2>4 DEF PartOf
  <2>5. CASE c # NULL
    BY <2>2, <2>3, <2>5, <1>4, <1>5 DEF PartOf
  <2> QED BY <2>4, <2>5
<1>9. f[Right(t, n)] = SubSeq(s, a + 1, hi - 1)
  <2>1. PICK c : c = t.child["R"][n]
    OBVIOUS
  <2>2. IF c = NULL THEN b["R"][n] = Beside(at[n], "R")
        ELSE b["R"][c] = b["R"][n] /\ b["L"][c] = at[n]
    BY <2>1, <1>1, <1>2 DEF Measured
  <2>3. f[c] = PartOf(s, b, c) /\ Right(t, n) = c
    BY <2>1, <1>2 DEF Right
  <2>4. CASE c = NULL
    <3>1. hi = a + 1
      BY <2>2, <2>4, <1>4, <1>6 DEF Beside
    <3>2. a \in 0 .. Len(s) /\ hi \in a + 1 .. Len(s) + 1
      BY <1>3, <1>4, <1>7
    <3>3. SubSeq(s, a + 1, hi - 1) \in Seq(S) /\ Len(SubSeq(s, a + 1, hi - 1)) = hi - a - 1
      BY <3>2, <1>3, BetweenFacts
    <3>4. SubSeq(s, a + 1, hi - 1) = << >>
      BY <3>1, <3>3, <1>4, EmptySeq
    <3> QED BY <3>4, <2>3, <2>4 DEF PartOf
  <2>5. CASE c # NULL
    BY <2>2, <2>3, <2>5, <1>4, <1>6 DEF PartOf
  <2> QED BY <2>4, <2>5
<1>10. PartOf(s, b, n) = SubSeq(s, lo + 1, hi - 1)
  BY <1>5, <1>6, NullAssumption DEF PartOf
<1>11. WalkBody(t, f, n) = f[Left(t, n)] \o <<n>> \o f[Right(t, n)]
  BY NullAssumption DEF WalkBody
<1>12. SubSeq(s, lo + 1, a - 1) \o <<n>> \o SubSeq(s, a + 1, hi - 1)
         = SubSeq(s, lo + 1, hi - 1)
  BY <1>3, <1>4, <1>7, SplitPart
<1> QED BY <1>8, <1>9, <1>10, <1>11, <1>12

\* The recursion has a solution.
LEMMA WalkMapIsMap ==
  ASSUME NEW t, NEW S \in SUBSET Node, GoodTree(t, S),
         \A n \in Node \ S, d \in Side : t.child[d][n] \in S \cup {NULL},
         NEW s, NEW at, NEW b, Lists(s, at, S), Spans(t, S, s, at, b)
  PROVE  SolvesWalk(t, WalkMap(t))
<1> DEFINE g0 == [x \in NodeOrNull |-> PartOf(s, b, x)]
           g  == [x \in NodeOrNull |-> IF x \in S \cup {NULL} THEN PartOf(s, b, x)
                                       ELSE WalkBody(t, g0, x)]
<1>1. \A n \in NodeOrNull, d \in Side : n # NULL => t.child[d][n] \in S \cup {NULL}
  BY Neighbours DEF NodeOrNull
<1>2. \A x \in S \cup {NULL} : x \in NodeOrNull /\ g[x] = PartOf(s, b, x) /\ g0[x] = g[x]
  BY DEF NodeOrNull
<1>3. \A x \in NodeOrNull : x \notin S \cup {NULL} => g[x] = WalkBody(t, g0, x)
  OBVIOUS
<1>4. g = [x \in NodeOrNull |-> g[x]]
  OBVIOUS
<1> HIDE DEF g, g0
<1>5. ASSUME NEW x \in NodeOrNull
      PROVE  g[x] = WalkBody(t, g, x)
  <2>1. CASE x = NULL
    BY <2>1, <1>2 DEF WalkBody, PartOf
  <2>2. CASE x \in S
    <3>1. \A d \in Side : g[t.child[d][x]] = PartOf(s, b, t.child[d][x])
      <4>1. \A d \in Side : t.child[d][x] \in S \cup {NULL}
        BY <2>2, Neighbours
      <4> QED BY <4>1, <1>2
    <3>2. WalkBody(t, g, x) = PartOf(s, b, x)
      BY <2>2, <3>1, WalkBodyIsPart
    <3> QED BY <3>2, <2>2, <1>2
  <2>3. CASE x \notin S \cup {NULL}
    <3>1. \A d \in Side : g[t.child[d][x]] = g0[t.child[d][x]]
      BY <2>3, <1>1, <1>2
    <3>2. WalkBody(t, g0, x) = WalkBody(t, g, x)
      BY <3>1 DEF WalkBody, Left, Right, Side
    <3> QED BY <3>2, <2>3, <1>3
  <2> QED BY <2>1, <2>2, <2>3
<1>6. g = [x \in NodeOrNull |-> WalkBody(t, g, x)]
  BY <1>4, <1>5
<1>7. PICK m : m = WalkMap(t)
  OBVIOUS
<1>8. m = [x \in NodeOrNull |-> WalkBody(t, m, x)]
  BY <1>6, <1>7, WalkMapExists
<1>9. SolvesWalk(t, m)
  BY <1>8 DEF SolvesWalk
<1> QED BY <1>7, <1>9

\* Among any nodes of the tree there is one whose children are not among them:
\* one whose subtree takes the fewest positions.
LEMMA LowestNode ==
  ASSUME NEW t, NEW S \in SUBSET Node, GoodTree(t, S),
         NEW s, NEW at, NEW b, Lists(s, at, S), Spans(t, S, s, at, b),
         NEW T \in SUBSET S, T # {}
  PROVE  \E x \in T : \A d \in Side : t.child[d][x] \notin T
<1>1. Measured(t, S, s, at, b) /\ "L" \in Side /\ "R" \in Side /\ Opp("L") = "R" /\ Opp("R") = "L"
  BY SpanFacts DEF Side, Opp
<1>2. ASSUME NEW n \in S
      PROVE  b["L"][n] \in Int /\ b["R"][n] \in Int /\ at[n] \in Int
             /\ b["L"][n] < at[n] /\ at[n] < b["R"][n]
  <2>1. b["L"][n] \in Int /\ b["R"][n] \in Int /\ at[n] \in Int
    BY <1>1 DEF Measured
  <2> QED BY <2>1 DEF Spans
<1> DEFINE rank == [n \in Node |-> IF n \in S THEN b["R"][n] - b["L"][n] ELSE 0]
<1>3. rank \in [Node -> Nat] /\ \A n \in S : rank[n] = b["R"][n] - b["L"][n]
  <2>1. ASSUME NEW n \in S PROVE b["R"][n] - b["L"][n] \in Nat
    <3>1. PICK lo \in Int : lo = b["L"][n]
      BY <1>2
    <3>2. PICK hi \in Int : hi = b["R"][n]
      BY <1>2
    <3>3. PICK a \in Int : a = at[n]
      BY <1>2
    <3>4. lo < a /\ a < hi
      BY <3>1, <3>2, <3>3, <1>2
    <3> QED BY <3>1, <3>2, <3>3, <3>4
  <2> QED BY <2>1
<1> HIDE DEF rank
<1>4. ASSUME NEW x \in S, NEW d \in Side, NEW y \in S, y = t.child[d][x]
      PROVE  rank[y] < rank[x]
  <2>1. y # NULL
    BY NullAssumption
  <2>2. b[d][y] = b[d][x] /\ b[Opp(d)][y] = at[x]
    BY <2>1, <1>1, <1>4 DEF Measured
  <2>3. CASE d = "L"
    <3>1. b["L"][y] = b["L"][x] /\ b["R"][y] = at[x]
      BY <2>2, <2>3, <1>1
    <3> QED BY <3>1, <1>2, <1>3
  <2>4. CASE d = "R"
    <3>1. b["R"][y] = b["R"][x] /\ b["L"][y] = at[x]
      BY <2>2, <2>4, <1>1
    <3> QED BY <3>1, <1>2, <1>3
  <2> QED BY <2>3, <2>4 DEF Side
<1>5. PICK x \in T : \A y \in T : rank[y] >= rank[x]
  BY <1>3, HighestNode
<1>6. ASSUME NEW d \in Side, t.child[d][x] \in T
      PROVE  FALSE
  <2>1. PICK y \in T : y = t.child[d][x]
    BY <1>6
  <2>2. rank[y] < rank[x]
    BY <2>1, <1>4
  <2>3. rank[y] \in Nat /\ rank[x] \in Nat
    BY <1>3
  <2> QED BY <2>1, <2>2, <2>3, <1>5
<1> QED BY <1>6

\* The walk from the root is the sequence: the lowest of the nodes where the
\* walk is not their part would have children where it is.
LEMMA WalkIsSequence ==
  ASSUME NEW t, NEW S \in SUBSET Node, GoodTree(t, S),
         \A n \in Node \ S, d \in Side : t.child[d][n] \in S \cup {NULL},
         NEW s, NEW at, NEW b, Lists(s, at, S), Spans(t, S, s, at, b)
  PROVE  Nodes(t) = s
<1>1. PICK f : f = WalkMap(t)
  OBVIOUS
<1>2. \A x \in NodeOrNull : f[x] = WalkBody(t, f, x)
  BY <1>1, WalkMapIsMap DEF SolvesWalk
<1>3. f[NULL] = << >>
  BY <1>2 DEF WalkBody, NodeOrNull
<1> DEFINE T == {n \in S : f[n] # PartOf(s, b, n)}
<1>4. T = {}
  <2> SUFFICES ASSUME T # {} PROVE FALSE
    OBVIOUS
  <2>1. PICK x \in T : \A d \in Side : t.child[d][x] \notin T
    BY LowestNode
  <2>2. x \in S /\ f[x] # PartOf(s, b, x) /\ x \in NodeOrNull
    BY DEF NodeOrNull
  <2>3. ASSUME NEW d \in Side
        PROVE  f[t.child[d][x]] = PartOf(s, b, t.child[d][x])
    <3>1. t.child[d][x] \in S \cup {NULL}
      BY <2>2, Neighbours
    <3>2. CASE t.child[d][x] = NULL
      BY <3>2, <1>3 DEF PartOf
    <3>3. CASE t.child[d][x] \in S
      BY <3>3, <2>1
    <3> QED BY <3>1, <3>2, <3>3
  <2>4. WalkBody(t, f, x) = PartOf(s, b, x)
    BY <2>2, <2>3, WalkBodyIsPart
  <2> QED BY <2>2, <2>4, <1>2
<1>5. f[t.root] = s
  <2>1. CASE t.root = NULL
    <3>1. S = {} /\ s \in Seq(S)
      BY <2>1 DEF GoodTree, WellLinked, Lists
    <3>2. s = << >>
      <4>1. Len(s) \in Nat /\ \A i \in 1 .. Len(s) : s[i] \in {}
        BY <3>1, ElementOfSeq
      <4>2. Len(s) = 0
        BY <4>1
      <4> QED BY <3>1, <4>2, EmptySeq
    <3> QED BY <2>1, <3>2, <1>3
  <2>2. CASE t.root # NULL
    <3>1. t.root \in S /\ f[t.root] = PartOf(s, b, t.root)
      BY <2>2, <1>4 DEF GoodTree, WellLinked
    <3>2. b["L"][t.root] = 0 /\ b["R"][t.root] = Len(s) + 1
      BY <2>2 DEF Spans
    <3>3. PartOf(s, b, t.root) = SubSeq(s, 0 + 1, Len(s) + 1 - 1)
      BY <2>2, <3>2 DEF PartOf
    <3>4. s \in Seq(S) /\ Len(s) \in Nat
      BY DEF Lists
    <3>5. PICK r : r = SubSeq(s, 0 + 1, Len(s) + 1 - 1)
      OBVIOUS
    <3>6. 0 \in 0 .. Len(s) /\ Len(s) + 1 \in 0 + 1 .. Len(s) + 1
      BY <3>4
    <3>7. r \in Seq(S) /\ Len(r) = Len(s) + 1 - 0 - 1
      BY <3>4, <3>5, <3>6, BetweenFacts
    <3>8. ASSUME NEW i \in 1 .. Len(s) + 1 - 0 - 1
          PROVE  r[i] = s[0 + i]
      BY <3>4, <3>5, <3>6, BetweenFacts
    <3>9. Len(r) = Len(s) /\ \A i \in 1 .. Len(s) : r[i] = s[i]
      BY <3>4, <3>7, <3>8
    <3>10. r = s
      BY <3>4, <3>7, <3>9, SeqEqual
    <3> QED BY <3>1, <3>3, <3>5, <3>10
  <2> QED BY <2>1, <2>2
<1> QED BY <1>1, <1>5, InorderIs DEF Nodes

\* A sequence that lists a set is as long as the set is large.
LEMMA ListCardinality ==
  ASSUME NEW S \in SUBSET Node, NEW s, NEW at, Lists(s, at, S)
  PROVE  Len(s) = Cardinality(S) /\ {s[i] : i \in DOMAIN s} = S
<1>1. s \in [1 .. Len(s) -> S] /\ Len(s) \in Nat /\ DOMAIN s = 1 .. Len(s)
  BY LenProperties DEF Lists
<1>2. \A i, j \in 1 .. Len(s) : s[i] = s[j] => i = j
  BY DEF Lists
<1>3. \A n \in S : \E i \in 1 .. Len(s) : s[i] = n
  BY DEF Lists
<1>4. s \in Injection(1 .. Len(s), S)
  BY <1>1, <1>2 DEF Injection, IsInjective
<1>5. s \in Surjection(1 .. Len(s), S)
  BY <1>1, <1>3 DEF Surjection
<1>6. ExistsBijection(1 .. Len(s), S)
  BY <1>4, <1>5 DEF ExistsBijection, Bijection
<1>7. Cardinality(S) = Len(s)
  BY <1>1, <1>6, FS_CountingElements
<1>8. {s[i] : i \in DOMAIN s} = S
  BY <1>1, <1>3
<1> QED BY <1>7, <1>8

\* The sequence of the invariant is the one an iteration meets.
LEMMA SequenceIs ==
  ASSUME TreeInv, NEW s, Orders(s)
  PROVE  Sequence = s
<1>1. PICK at, b : Lists(s, at, Linked) /\ Spans(tree, Linked, s, at, b)
  BY DEF Orders, Ordering
<1>2. /\ Linked \in SUBSET Node /\ GoodTree(tree, Linked)
      /\ \A n \in Node \ Linked, d \in Side : tree.child[d][n] \in Linked \cup {NULL}
  BY OutsidePoints
<1>3. Nodes(tree) = s
  BY <1>1, <1>2, WalkIsSequence
<1> QED BY <1>3 DEF Sequence

\* At every step of every call the walk from the root meets each linked node
\* exactly once.
LEMMA AllMet ==
  ASSUME TreeInv, OrderInv
  PROVE  NothingLost
<1>1. PICK s : Orders(s)
  BY DEF OrderInv
<1>2. PICK at, b : Lists(s, at, Linked) /\ Spans(tree, Linked, s, at, b)
  BY <1>1 DEF Orders, Ordering
<1>3. Linked \in SUBSET Node
  BY OutsidePoints
<1>4. Len(s) = Cardinality(Linked) /\ {s[i] : i \in DOMAIN s} = Linked
  BY <1>2, <1>3, ListCardinality
<1> QED BY <1>1, <1>4, SequenceIs DEF NothingLost

\* Nothing is lost and nothing is reached twice, whatever the keys.
THEOREM NothingIsLost == ASSUME ~RhsFirst PROVE Spec => []NothingLost
BY OrderInvariance, AllMet, PTL

\* When no call runs the tree passes is_rb_tree, and size() is the number of
\* elements an iteration meets.
THEOREM RedBlackRests == ASSUME ~RhsFirst PROVE Spec => []RedBlackWhenIdle
<1>1. ASSUME TreeInv, OrderInv, pc = "idle" PROVE IsRbTree /\ size_ = Len(Sequence)
  <2>1. Linked = live /\ size_ = Cardinality(live)
    BY <1>1 DEF Linked, TreeInv, IInv, SizeOK
  <2>2. Len(Sequence) = Cardinality(live)
    BY <2>1, <1>1, AllMet DEF NothingLost
  <2> QED BY <2>1, <2>2, <1>1, RestPasses
<1>2. TreeInv /\ OrderInv => RedBlackWhenIdle
  BY <1>1 DEF RedBlackWhenIdle
<1> QED BY <1>2, OrderInvariance, PTL

SequenceShown == \A s : Orders(s) => Sequence = s

\* A step of a call is a step of the ordered container, or leaves it alone.
LEMMA OrderedStep ==
  ASSUME TreeInv, OrderInv, [Next]_vars, SequenceShown', ~RhsFirst
  PROVE  [Ordered!Next]_Sequence
<1>1. PICK s : Orders(s)
  BY DEF OrderInv
<1>2. PICK s2 : Moves(s, s2) /\ Orders(s2)'
  BY <1>1, NextOrder DEF TreeInv
<1>3. Sequence = s
  BY <1>1, SequenceIs
<1>4. Sequence' = s2
  BY <1>2 DEF SequenceShown
<1>5. s \in Seq(Node) /\ DOMAIN s = 1 .. Len(s)
  <2>1. PICK at : Lists(s, at, Linked)
    BY <1>1 DEF Orders, Ordering
  <2>2. s \in Seq(Linked) /\ Linked \in SUBSET Node
    BY <2>1, OutsidePoints DEF Lists
  <2>3. s \in Seq(Node)
    BY <2>2, SeqMonotonic
  <2> QED BY <2>3, LenProperties
<1>6. CASE s2 = s
  BY <1>3, <1>4, <1>6
<1>7. CASE PutIn(s, s2)
  <2>1. PICK n \in Node, k \in 1 .. Len(s) + 1 :
          /\ \A i \in 1 .. Len(s) : s[i] # n
          /\ Parted(s, KeyOf[n], k - 1, k)
          /\ s2 = Inserted(s, k, n)
    BY <1>7 DEF PutIn
  <2>2. Ordered!Insert(n)
    <3>1. n \notin Ordered!Elements
      BY <2>1, <1>3, <1>5 DEF Ordered!Elements
    <3>2. \A j \in 1 .. k - 1 : KeyOf[s[j]] <= KeyOf[n]
      BY <2>1, <1>5 DEF Parted
    <3>3. \A j \in k .. Len(s) : KeyOf[s[j]] > KeyOf[n]
      BY <2>1, <1>5 DEF Parted
    <3> QED BY <3>1, <3>2, <3>3, <2>1, <1>3, <1>4 DEF Ordered!Insert, Inserted
  <2> QED BY <2>2 DEF Ordered!Next
<1>8. CASE TakeOut(s, s2)
  <2>1. PICK k \in 1 .. Len(s) : s2 = Removed(s, k)
    BY <1>8 DEF TakeOut
  <2>2. Ordered!Erase(KeyOf[s[k]])
    BY <2>1, <1>3, <1>4, <1>5 DEF Ordered!Erase, Removed
  <2>3. s[k] \in Node
    BY <1>5
  <2> QED BY <2>2, <2>3 DEF Ordered!Next
<1>9. CASE s2 = << >>
  BY <1>4, <1>9 DEF Ordered!Next, Ordered!Clear
<1> QED BY <1>2, <1>6, <1>7, <1>8, <1>9 DEF Moves

\* The red-black tree implements an ordered sequence: insert puts an element
\* behind its equals, erase takes one out, and nothing else changes it.
THEOREM OrderedCorrect == ASSUME ~RhsFirst PROVE Spec => OrderedSpec
<1>1. Init => Ordered!Init
  <2> SUFFICES ASSUME Init PROVE Ordered!Init
    OBVIOUS
  <2>1. TreeInv
    <3>1. LooseLinks
      BY DEF Init, LooseLinks, EmptyTree
    <3> QED BY <3>1, InitIInv, InitBalance DEF TreeInv
  <2>2. Sequence = << >>
    BY <2>1, InitOrder, SequenceIs
  <2> QED BY <2>2 DEF Ordered!Init
<1>2. TreeInv => SequenceShown
  BY SequenceIs DEF SequenceShown
<1>3. TreeInv /\ OrderInv /\ [Next]_vars /\ SequenceShown' => [Ordered!Next]_Sequence
  BY OrderedStep
<1> QED BY <1>1, <1>2, <1>3, OrderInvariance, PTL DEF Spec, OrderedSpec, Ordered!Spec
-----------------------------------------------------------------------------
(***************************************************************************)
(* find and count.  Rotations spread equal keys over both subtrees, but    *)
(* the positions of a key in the span of a node stay where the recursions  *)
(* look.                                                                   *)
(***************************************************************************)

\* The positions between lo and hi with the key k.
Keyed(s, k, lo, hi) == {i \in 1 .. Len(s) : lo < i /\ i < hi /\ KeyOf[s[i]] = k}

\* The positions with the key k in the subtree of n.
KeyedIn(s, b, k, n) == IF n = NULL THEN {} ELSE Keyed(s, k, b["L"][n], b["R"][n])

\* The positions of a key around a node: an unequal key is on one side only.
LEMMA KeyedSplit ==
  ASSUME NEW S \in SUBSET Node, NEW s \in Seq(S), Sorted(s), NEW k \in Int,
         NEW a \in 1 .. Len(s), NEW lo \in Int, NEW hi \in Int, lo < a, a < hi
  PROVE  /\ k < KeyOf[s[a]] => Keyed(s, k, lo, hi) = Keyed(s, k, lo, a)
         /\ KeyOf[s[a]] < k => Keyed(s, k, lo, hi) = Keyed(s, k, a, hi)
         /\ KeyOf[s[a]] = k =>
              Keyed(s, k, lo, hi) = (Keyed(s, k, lo, a) \cup Keyed(s, k, a, hi)) \cup {a}
<1>1. \A i \in 1 .. Len(s) : i \in Int /\ KeyOf[s[i]] \in Int
  <2>1. Len(s) \in Nat /\ \A i \in 1 .. Len(s) : s[i] \in Node
    BY ElementOfSeq, LenProperties
  <2> QED BY <2>1, KeyAssumption
<1>2. \A i, j \in 1 .. Len(s) : i <= j => KeyOf[s[i]] <= KeyOf[s[j]]
  BY DEF Sorted
<1>3. ASSUME k < KeyOf[s[a]]
      PROVE  Keyed(s, k, lo, hi) = Keyed(s, k, lo, a)
  <2>1. \A i \in 1 .. Len(s) : a <= i => KeyOf[s[i]] # k
    BY <1>1, <1>2, <1>3
  <2> QED BY <2>1, <1>1 DEF Keyed
<1>4. ASSUME KeyOf[s[a]] < k
      PROVE  Keyed(s, k, lo, hi) = Keyed(s, k, a, hi)
  <2>1. \A i \in 1 .. Len(s) : i <= a => KeyOf[s[i]] # k
    BY <1>1, <1>2, <1>4
  <2> QED BY <2>1, <1>1 DEF Keyed
<1>5. ASSUME KeyOf[s[a]] = k
      PROVE  Keyed(s, k, lo, hi) = (Keyed(s, k, lo, a) \cup Keyed(s, k, a, hi)) \cup {a}
  BY <1>1, <1>5 DEF Keyed
<1> QED BY <1>3, <1>4, <1>5

\* Positions are finitely many, and those on the two sides of one are disjoint.
LEMMA KeyedCount ==
  ASSUME NEW S, NEW s \in Seq(S), NEW k, NEW a \in 1 .. Len(s),
         NEW lo \in Int, NEW hi \in Int, lo < a, a < hi
  PROVE  /\ Cardinality(Keyed(s, k, lo, a)) \in Nat
         /\ Cardinality(Keyed(s, k, a, hi)) \in Nat
         /\ Cardinality((Keyed(s, k, lo, a) \cup Keyed(s, k, a, hi)) \cup {a}) =
              1 + Cardinality(Keyed(s, k, lo, a)) + Cardinality(Keyed(s, k, a, hi))
<1>1. PICK p : p = Keyed(s, k, lo, a)
  OBVIOUS
<1>2. PICK q : q = Keyed(s, k, a, hi)
  OBVIOUS
<1>3. PICK l \in Nat : l = Len(s)
  BY LenProperties
<1>4. p \in SUBSET (1 .. l) /\ q \in SUBSET (1 .. l) /\ p \cap q = {} /\ a \notin p \cup q
  BY <1>1, <1>2, <1>3 DEF Keyed
<1>5. IsFiniteSet(1 .. l)
  BY <1>3, FS_Interval
<1>6. IsFiniteSet(p) /\ IsFiniteSet(q)
  BY <1>4, <1>5, FS_Subset
<1>7. Cardinality(p) \in Nat /\ Cardinality(q) \in Nat
  BY <1>6, FS_CardinalityType
<1>8. IsFiniteSet(p \cup q) /\ Cardinality(p \cup q) = Cardinality(p) + Cardinality(q)
  <2>1. Cardinality(p \cap q) = 0
    BY <1>4, FS_EmptySet
  <2>2. IsFiniteSet(p \cup q)
    BY <1>6, FS_Union
  <2>3. Cardinality(p \cup q) = Cardinality(p) + Cardinality(q) - Cardinality(p \cap q)
    BY <1>6, FS_Union
  <2> QED BY <2>1, <2>2, <2>3, <1>7
<1>9. Cardinality((p \cup q) \cup {a}) = Cardinality(p \cup q) + 1
  BY <1>4, <1>8, FS_AddElement
<1> QED BY <1>1, <1>2, <1>7, <1>8, <1>9

\* The positions in the subtrees of the children are those beside the node.
LEMMA KeyedSides ==
  ASSUME NEW t, NEW S \in SUBSET Node, GoodTree(t, S), NEW s, NEW at, NEW b,
         Lists(s, at, S), Spans(t, S, s, at, b), NEW n \in S, NEW k
  PROVE  /\ KeyedIn(s, b, k, Left(t, n)) = Keyed(s, k, b["L"][n], at[n])
         /\ KeyedIn(s, b, k, Right(t, n)) = Keyed(s, k, at[n], b["R"][n])
<1>1. Measured(t, S, s, at, b) /\ "L" \in Side /\ "R" \in Side /\ Opp("L") = "R" /\ Opp("R") = "L"
  BY SpanFacts DEF Side, Opp
<1>2. at[n] \in Int /\ \A i \in 1 .. Len(s) : i \in Int
  BY <1>1 DEF Measured
<1>3. KeyedIn(s, b, k, t.child["L"][n]) = Keyed(s, k, b["L"][n], at[n])
  <2>1. CASE t.child["L"][n] = NULL
    <3>1. b["L"][n] = at[n] - 1
      BY <2>1, <1>1 DEF Measured, Beside
    <3>2. Keyed(s, k, b["L"][n], at[n]) = {}
      BY <3>1, <1>2 DEF Keyed
    <3> QED BY <3>2, <2>1 DEF KeyedIn
  <2>2. CASE t.child["L"][n] # NULL
    BY <2>2, <1>1 DEF Measured, KeyedIn
  <2> QED BY <2>1, <2>2
<1>4. KeyedIn(s, b, k, t.child["R"][n]) = Keyed(s, k, at[n], b["R"][n])
  <2>1. CASE t.child["R"][n] = NULL
    <3>1. b["R"][n] = at[n] + 1
      BY <2>1, <1>1 DEF Measured, Beside
    <3>2. Keyed(s, k, at[n], b["R"][n]) = {}
      BY <3>1, <1>2 DEF Keyed
    <3> QED BY <3>2, <2>1 DEF KeyedIn
  <2>2. CASE t.child["R"][n] # NULL
    BY <2>2, <1>1 DEF Measured, KeyedIn
  <2> QED BY <2>1, <2>2
<1> QED BY <1>3, <1>4 DEF Left, Right

\* The positions of a key in the subtree of a node and in those of its children.
LEMMA KeyedBelow ==
  ASSUME NEW t, NEW S \in SUBSET Node, GoodTree(t, S), NEW s, NEW at, NEW b, Sorted(s),
         Lists(s, at, S), Spans(t, S, s, at, b), NEW n \in S, NEW k \in Int
  PROVE  /\ KeyOf[n] \in Int
         /\ k < KeyOf[n] => KeyedIn(s, b, k, n) = KeyedIn(s, b, k, Left(t, n))
         /\ KeyOf[n] < k => KeyedIn(s, b, k, n) = KeyedIn(s, b, k, Right(t, n))
         /\ KeyOf[n] = k =>
              /\ at[n] \in KeyedIn(s, b, k, n)
              /\ Cardinality(KeyedIn(s, b, k, n)) =
                   1 + Cardinality(KeyedIn(s, b, k, Left(t, n)))
                     + Cardinality(KeyedIn(s, b, k, Right(t, n)))
<1>1. Measured(t, S, s, at, b) /\ "L" \in Side /\ "R" \in Side
  BY SpanFacts DEF Side
<1>2. s \in Seq(S) /\ at[n] \in 1 .. Len(s) /\ s[at[n]] = n
  BY DEF Lists
<1>3. PICK a \in 1 .. Len(s) : a = at[n]
  BY <1>2
<1>4. PICK lo \in Int : lo = b["L"][n]
  BY <1>1 DEF Measured
<1>5. PICK hi \in Int : hi = b["R"][n]
  BY <1>1 DEF Measured
<1>6. lo < a /\ a < hi /\ s[a] = n
  BY <1>2, <1>3, <1>4, <1>5 DEF Spans
<1>7. /\ k < KeyOf[n] => Keyed(s, k, lo, hi) = Keyed(s, k, lo, a)
      /\ KeyOf[n] < k => Keyed(s, k, lo, hi) = Keyed(s, k, a, hi)
      /\ KeyOf[n] = k =>
           Keyed(s, k, lo, hi) = (Keyed(s, k, lo, a) \cup Keyed(s, k, a, hi)) \cup {a}
  <2>1. /\ k < KeyOf[s[a]] => Keyed(s, k, lo, hi) = Keyed(s, k, lo, a)
        /\ KeyOf[s[a]] < k => Keyed(s, k, lo, hi) = Keyed(s, k, a, hi)
        /\ KeyOf[s[a]] = k =>
             Keyed(s, k, lo, hi) = (Keyed(s, k, lo, a) \cup Keyed(s, k, a, hi)) \cup {a}
    BY <1>2, <1>6, KeyedSplit
  <2> QED BY <2>1, <1>6
<1>8. KeyedIn(s, b, k, n) = Keyed(s, k, lo, hi)
  BY <1>4, <1>5, NullAssumption DEF KeyedIn
<1>9. /\ KeyedIn(s, b, k, Left(t, n)) = Keyed(s, k, lo, a)
      /\ KeyedIn(s, b, k, Right(t, n)) = Keyed(s, k, a, hi)
  <2>1. /\ KeyedIn(s, b, k, Left(t, n)) = Keyed(s, k, b["L"][n], at[n])
        /\ KeyedIn(s, b, k, Right(t, n)) = Keyed(s, k, at[n], b["R"][n])
    BY KeyedSides
  <2> QED BY <2>1, <1>3, <1>4, <1>5
<1>10. Cardinality((Keyed(s, k, lo, a) \cup Keyed(s, k, a, hi)) \cup {a}) =
         1 + Cardinality(Keyed(s, k, lo, a)) + Cardinality(Keyed(s, k, a, hi))
  BY <1>2, <1>6, KeyedCount
<1>11. KeyOf[n] \in Int
  BY KeyAssumption
<1> QED BY <1>3, <1>7, <1>8, <1>9, <1>10, <1>11

\* One level of count_node, with f for the levels below.
CountBody(f, k, x) ==
  IF x = NULL THEN 0
  ELSE IF k < KeyOf[x] THEN f[Left(tree, x)]
  ELSE IF KeyOf[x] < k THEN f[Right(tree, x)]
  ELSE 1 + f[Left(tree, x)] + f[Right(tree, x)]

CountMap(k) == CHOOSE f : f = [x \in NodeOrNull |-> CountBody(f, k, x)]

SolvesCount(k, f) == \A x \in NodeOrNull : f[x] = CountBody(f, k, x)

\* count_node is the function that satisfies its own recursion.
LEMMA CountNodeIs ==
  ASSUME NEW k, NEW n
  PROVE  CountNode(n, k) = CountMap(k)[n]
BY DEF CountNode, CountMap, CountBody

\* If any function satisfies the recursion, the chosen one does.
LEMMA CountMapExists ==
  ASSUME NEW k, NEW g, g = [x \in NodeOrNull |-> CountBody(g, k, x)]
  PROVE  CountMap(k) = [x \in NodeOrNull |-> CountBody(CountMap(k), k, x)]
BY DEF CountMap

\* One level counts the key below a node if the levels below count it below
\* its children.
LEMMA CountBodyIs ==
  ASSUME NEW S \in SUBSET Node, GoodTree(tree, S), NEW s, NEW at, NEW b, Sorted(s),
         Lists(s, at, S), Spans(tree, S, s, at, b), NEW n \in S, NEW k \in Int, NEW f,
         \A d \in Side :
           f[tree.child[d][n]] = Cardinality(KeyedIn(s, b, k, tree.child[d][n]))
  PROVE  CountBody(f, k, n) = Cardinality(KeyedIn(s, b, k, n))
<1>1. KeyOf[n] \in Int
  BY KeyAssumption
<1>2. /\ f[Left(tree, n)] = Cardinality(KeyedIn(s, b, k, Left(tree, n)))
      /\ f[Right(tree, n)] = Cardinality(KeyedIn(s, b, k, Right(tree, n)))
  BY DEF Left, Right, Side
<1>3. n # NULL
  BY NullAssumption
<1>4. CASE k < KeyOf[n]
  <2>1. KeyedIn(s, b, k, n) = KeyedIn(s, b, k, Left(tree, n))
    BY <1>4, KeyedBelow
  <2> QED BY <2>1, <1>2, <1>3, <1>4 DEF CountBody
<1>5. CASE KeyOf[n] < k
  <2>1. KeyedIn(s, b, k, n) = KeyedIn(s, b, k, Right(tree, n))
    BY <1>5, KeyedBelow
  <2>2. ~(k < KeyOf[n])
    BY <1>1, <1>5
  <2> QED BY <2>1, <2>2, <1>2, <1>3, <1>5 DEF CountBody
<1>6. CASE KeyOf[n] = k
  <2>1. Cardinality(KeyedIn(s, b, k, n)) =
          1 + Cardinality(KeyedIn(s, b, k, Left(tree, n)))
            + Cardinality(KeyedIn(s, b, k, Right(tree, n)))
    BY <1>6, KeyedBelow
  <2>2. ~(k < KeyOf[n]) /\ ~(KeyOf[n] < k)
    BY <1>1, <1>6
  <2>3. CountBody(f, k, n) = 1 + f[Left(tree, n)] + f[Right(tree, n)]
    BY <2>2, <1>3 DEF CountBody
  <2> QED BY <2>1, <2>3, <1>2
<1> QED BY <1>1, <1>4, <1>5, <1>6

\* The recursion of count_node has a solution.
LEMMA CountMapIsMap ==
  ASSUME NEW S \in SUBSET Node, GoodTree(tree, S),
         \A n \in Node \ S, d \in Side : tree.child[d][n] \in S \cup {NULL},
         NEW s, NEW at, NEW b, Sorted(s), Lists(s, at, S), Spans(tree, S, s, at, b),
         NEW k \in Int
  PROVE  SolvesCount(k, CountMap(k))
<1> DEFINE g0 == [x \in NodeOrNull |-> Cardinality(KeyedIn(s, b, k, x))]
           g  == [x \in NodeOrNull |-> IF x \in S \cup {NULL}
                                       THEN Cardinality(KeyedIn(s, b, k, x))
                                       ELSE CountBody(g0, k, x)]
<1>1. \A n \in NodeOrNull, d \in Side : n # NULL => tree.child[d][n] \in S \cup {NULL}
  BY Neighbours DEF NodeOrNull
<1>2. \A x \in S \cup {NULL} :
        x \in NodeOrNull /\ g[x] = Cardinality(KeyedIn(s, b, k, x)) /\ g0[x] = g[x]
  BY DEF NodeOrNull
<1>3. \A x \in NodeOrNull : x \notin S \cup {NULL} => g[x] = CountBody(g0, k, x)
  OBVIOUS
<1>4. g = [x \in NodeOrNull |-> g[x]]
  OBVIOUS
<1> HIDE DEF g, g0
<1>5. ASSUME NEW x \in NodeOrNull
      PROVE  g[x] = CountBody(g, k, x)
  <2>1. CASE x = NULL
    <3>1. g[x] = Cardinality({})
      BY <2>1, <1>2 DEF KeyedIn
    <3> QED BY <3>1, <2>1, FS_EmptySet DEF CountBody
  <2>2. CASE x \in S
    <3>1. \A d \in Side :
            g[tree.child[d][x]] = Cardinality(KeyedIn(s, b, k, tree.child[d][x]))
      <4>1. \A d \in Side : tree.child[d][x] \in S \cup {NULL}
        BY <2>2, Neighbours
      <4> QED BY <4>1, <1>2
    <3>2. CountBody(g, k, x) = Cardinality(KeyedIn(s, b, k, x))
      BY <2>2, <3>1, CountBodyIs
    <3> QED BY <3>2, <2>2, <1>2
  <2>3. CASE x \notin S \cup {NULL}
    <3>1. \A d \in Side : g[tree.child[d][x]] = g0[tree.child[d][x]]
      BY <2>3, <1>1, <1>2
    <3>2. CountBody(g0, k, x) = CountBody(g, k, x)
      BY <3>1 DEF CountBody, Left, Right, Side
    <3> QED BY <3>2, <2>3, <1>3
  <2> QED BY <2>1, <2>2, <2>3
<1>6. g = [x \in NodeOrNull |-> CountBody(g, k, x)]
  BY <1>4, <1>5
<1>7. PICK m : m = CountMap(k)
  OBVIOUS
<1>8. m = [x \in NodeOrNull |-> CountBody(m, k, x)]
  BY <1>6, <1>7, CountMapExists
<1>9. SolvesCount(k, m)
  BY <1>8 DEF SolvesCount
<1> QED BY <1>7, <1>9

\* count_node counts the positions of the key below a node.
LEMMA CountIsCount ==
  ASSUME NEW S \in SUBSET Node, GoodTree(tree, S),
         \A n \in Node \ S, d \in Side : tree.child[d][n] \in S \cup {NULL},
         NEW s, NEW at, NEW b, Sorted(s), Lists(s, at, S), Spans(tree, S, s, at, b),
         NEW k \in Int, NEW n \in S \cup {NULL}
  PROVE  CountNode(n, k) = Cardinality(KeyedIn(s, b, k, n))
<1>1. PICK f : f = CountMap(k)
  OBVIOUS
<1>2. \A x \in NodeOrNull : f[x] = CountBody(f, k, x)
  BY <1>1, CountMapIsMap DEF SolvesCount
<1>3. f[NULL] = Cardinality(KeyedIn(s, b, k, NULL))
  <2>1. f[NULL] = 0
    BY <1>2 DEF CountBody, NodeOrNull
  <2> QED BY <2>1, FS_EmptySet DEF KeyedIn
<1> DEFINE T == {x \in S : f[x] # Cardinality(KeyedIn(s, b, k, x))}
<1>4. T = {}
  <2> SUFFICES ASSUME T # {} PROVE FALSE
    OBVIOUS
  <2>1. PICK x \in T : \A d \in Side : tree.child[d][x] \notin T
    BY LowestNode
  <2>2. x \in S /\ f[x] # Cardinality(KeyedIn(s, b, k, x)) /\ x \in NodeOrNull
    BY DEF NodeOrNull
  <2>3. ASSUME NEW d \in Side
        PROVE  f[tree.child[d][x]] = Cardinality(KeyedIn(s, b, k, tree.child[d][x]))
    <3>1. tree.child[d][x] \in S \cup {NULL}
      BY <2>2, Neighbours
    <3>2. CASE tree.child[d][x] = NULL
      BY <3>2, <1>3
    <3>3. CASE tree.child[d][x] \in S
      BY <3>3, <2>1
    <3> QED BY <3>1, <3>2, <3>3
  <2>4. CountBody(f, k, x) = Cardinality(KeyedIn(s, b, k, x))
    BY <2>2, <2>3, CountBodyIs
  <2> QED BY <2>2, <2>4, <1>2
<1>5. f[n] = Cardinality(KeyedIn(s, b, k, n))
  BY <1>3, <1>4
<1> QED BY <1>1, <1>5, CountNodeIs

\* The nodes with the key k.
WithKey(S, k) == {n \in S : KeyOf[n] = k}

\* The positions of a key in the whole tree correspond to the nodes with it.
LEMMA KeyedInRoot ==
  ASSUME NEW t, NEW S \in SUBSET Node, GoodTree(t, S), NEW s, NEW at, NEW b,
         Lists(s, at, S), Spans(t, S, s, at, b), NEW k,
         NEW p, p = KeyedIn(s, b, k, t.root)
  PROVE  Cardinality(p) = Cardinality(WithKey(S, k)) /\ (p = {} <=> WithKey(S, k) = {})
<1>1. p = KeyedIn(s, b, k, t.root)
  OBVIOUS
<1>2. PICK q : q = WithKey(S, k) /\ q = {n \in S : KeyOf[n] = k}
  BY DEF WithKey
<1>3. s \in [1 .. Len(s) -> S] /\ Len(s) \in Nat /\ DOMAIN s = 1 .. Len(s)
  BY LenProperties DEF Lists
<1>4. p = {i \in 1 .. Len(s) : KeyOf[s[i]] = k}
  <2>1. CASE t.root = NULL
    <3>1. S = {}
      BY <2>1 DEF GoodTree, WellLinked
    <3> QED BY <3>1, <2>1, <1>1, <1>3 DEF KeyedIn
  <2>2. CASE t.root # NULL
    <3>1. b["L"][t.root] = 0 /\ b["R"][t.root] = Len(s) + 1
      BY <2>2 DEF Spans
    <3>2. p = Keyed(s, k, 0, Len(s) + 1)
      BY <3>1, <2>2, <1>1 DEF KeyedIn
    <3> QED BY <3>2, <1>3 DEF Keyed
  <2> QED BY <2>1, <2>2
<1>5. \A n \in S : at[n] \in 1 .. Len(s) /\ s[at[n]] = n
  BY DEF Lists
<1>6. \A i \in 1 .. Len(s) : at[s[i]] = i /\ s[i] \in S
  BY <1>3 DEF Lists
<1> DEFINE m == [i \in p |-> s[i]]
<1>7. m \in Bijection(p, q)
  <2>1. m \in [p -> q]
    BY <1>2, <1>4, <1>6
  <2>2. \A i, j \in p : m[i] = m[j] => i = j
    BY <1>4, <1>6
  <2>3. \A n \in q : \E i \in p : m[i] = n
    <3> SUFFICES ASSUME NEW n \in q PROVE at[n] \in p /\ m[at[n]] = n
      OBVIOUS
    <3> QED BY <1>2, <1>4, <1>5
  <2> HIDE DEF m
  <2>4. m \in Injection(p, q)
    BY <2>1, <2>2 DEF Injection, IsInjective
  <2>5. m \in Surjection(p, q)
    BY <2>1, <2>3 DEF Surjection
  <2> QED BY <2>4, <2>5 DEF Bijection
<1>8. IsFiniteSet(p)
  <2>1. IsFiniteSet(1 .. Len(s)) /\ p \in SUBSET (1 .. Len(s))
    BY <1>3, <1>4, FS_Interval
  <2> QED BY <2>1, FS_Subset
<1>9. ExistsBijection(p, q)
  <2> HIDE DEF m
  <2> QED BY <1>7 DEF ExistsBijection
<1>10. Cardinality(q) = Cardinality(p)
  BY <1>8, <1>9, FS_Bijection
<1>11. p = {} <=> q = {}
  BY <1>2, <1>4, <1>5, <1>6
<1> QED BY <1>1, <1>2, <1>10, <1>11

\* A node whose position lies in the span of another is on a deeper layer.
LEMMA SpanIsBelow ==
  ASSUME NEW t, NEW S \in SUBSET Node, GoodTree(t, S), NEW f \in [Node -> Nat],
         LayeredBy(t, S, f), NEW s, NEW at, NEW b, Lists(s, at, S), Spans(t, S, s, at, b),
         NEW n \in S, NEW p \in S, p # n, b["L"][p] < at[n], at[n] < b["R"][p]
  PROVE  f[n] > f[p]
<1> DEFINE T == {m \in S : m # n /\ b["L"][m] < at[n] /\ at[n] < b["R"][m] /\ ~(f[n] > f[m])}
<1>1. SUFFICES ASSUME p \in T PROVE FALSE
  OBVIOUS
<1>2. PICK m \in T : \A d \in Side : t.child[d][m] \notin T
  BY <1>1, LowestNode
<1>3. m \in S /\ m # n /\ b["L"][m] < at[n] /\ at[n] < b["R"][m] /\ ~(f[n] > f[m])
  OBVIOUS
<1>4. /\ Measured(t, S, s, at, b) /\ "L" \in Side /\ "R" \in Side
      /\ Opp("L") = "R" /\ Opp("R") = "L"
  BY SpanFacts DEF Side, Opp
<1>5. at[m] # at[n] /\ at[m] \in Int /\ at[n] \in Int
  <2>1. s[at[m]] = m /\ s[at[n]] = n
    BY <1>3 DEF Lists
  <2>2. at[m] \in Int /\ at[n] \in Int
    BY <1>3, <1>4 DEF Measured
  <2> QED BY <2>1, <2>2, <1>3
<1>6. ASSUME NEW c \in S, NEW d \in Side, c = t.child[d][m],
             b["L"][c] < at[n], at[n] < b["R"][c]
      PROVE  FALSE
  <2>1. c # NULL
    BY NullAssumption
  <2>2. f[c] > f[m]
    BY <2>1, <1>3, <1>6 DEF LayeredBy
  <2>3. c = n \/ f[n] > f[c]
    BY <1>2, <1>6
  <2>4. f[c] \in Nat /\ f[m] \in Nat /\ f[n] \in Nat
    BY <1>3
  <2> QED BY <2>2, <2>3, <2>4, <1>3
<1>7. CASE at[n] < at[m]
  <2>1. PICK c \in S \cup {NULL} : c = t.child["L"][m]
    BY <1>3, <1>4, Neighbours
  <2>2. CASE c = NULL
    <3>1. b["L"][m] = at[m] - 1
      BY <2>1, <2>2, <1>3, <1>4 DEF Measured, Beside
    <3> QED BY <3>1, <1>3, <1>5, <1>7
  <2>3. CASE c # NULL
    <3>1. b["L"][c] = b["L"][m] /\ b["R"][c] = at[m]
      BY <2>1, <2>3, <1>3, <1>4 DEF Measured
    <3> QED BY <3>1, <2>1, <2>3, <1>3, <1>4, <1>6, <1>7
  <2> QED BY <2>2, <2>3
<1>8. CASE at[m] < at[n]
  <2>1. PICK c \in S \cup {NULL} : c = t.child["R"][m]
    BY <1>3, <1>4, Neighbours
  <2>2. CASE c = NULL
    <3>1. b["R"][m] = at[m] + 1
      BY <2>1, <2>2, <1>3, <1>4 DEF Measured, Beside
    <3> QED BY <3>1, <1>3, <1>5, <1>8
  <2>3. CASE c # NULL
    <3>1. b["R"][c] = b["R"][m] /\ b["L"][c] = at[m]
      BY <2>1, <2>3, <1>3, <1>4 DEF Measured
    <3> QED BY <3>1, <2>1, <2>3, <1>3, <1>4, <1>6, <1>8
  <2> QED BY <2>2, <2>3
<1> QED BY <1>5, <1>7, <1>8

\* One level of find, with f for the levels below.
FindBody(f, k, x) ==
  IF x = NULL \/ KeyOf[x] = k THEN x
  ELSE f[tree.child[IF k < KeyOf[x] THEN "L" ELSE "R"][x]]

FindMap(k) == CHOOSE f : f = [x \in NodeOrNull |-> FindBody(f, k, x)]

SolvesFind(k, f) == \A x \in NodeOrNull : f[x] = FindBody(f, k, x)

\* m has the key k, and all positions in P that have it are below m.
Tops(s, b, k, P, m) == KeyOf[m] = k /\ KeyedIn(s, b, k, m) = P

TopOf(S, s, b, k, P) ==
  IF \E m \in S : Tops(s, b, k, P, m) THEN CHOOSE m \in S : Tops(s, b, k, P, m) ELSE NULL

\* find is the function that satisfies its own recursion.
LEMMA FindNodeIs ==
  ASSUME NEW k, NEW n
  PROVE  FindNode(n, k) = FindMap(k)[n]
BY DEF FindNode, FindMap, FindBody

\* If any function satisfies the recursion, the chosen one does.
LEMMA FindMapExists ==
  ASSUME NEW k, NEW g, g = [x \in NodeOrNull |-> FindBody(g, k, x)]
  PROVE  FindMap(k) = [x \in NodeOrNull |-> FindBody(FindMap(k), k, x)]
BY DEF FindMap

\* A node with the key is the only one that all positions below it are below:
\* of two such nodes each would be below the other.
LEMMA OneTop ==
  ASSUME NEW S \in SUBSET Node, GoodTree(tree, S), NEW s, NEW at, NEW b, Sorted(s),
         Lists(s, at, S), Spans(tree, S, s, at, b), NEW n \in S, NEW k \in Int,
         KeyOf[n] = k
  PROVE  TopOf(S, s, b, k, KeyedIn(s, b, k, n)) = n
<1>1. Tops(s, b, k, KeyedIn(s, b, k, n), n)
  BY DEF Tops
<1>2. ASSUME NEW m \in S, Tops(s, b, k, KeyedIn(s, b, k, n), m)
      PROVE  m = n
  <2> SUFFICES ASSUME m # n PROVE FALSE
    OBVIOUS
  <2>1. at[n] \in KeyedIn(s, b, k, n)
    BY KeyedBelow
  <2>2. KeyOf[m] = k /\ KeyedIn(s, b, k, m) = KeyedIn(s, b, k, n)
    BY <1>2 DEF Tops
  <2>3. at[m] \in KeyedIn(s, b, k, m)
    BY <2>2, KeyedBelow
  <2>4. /\ b["L"][m] < at[n] /\ at[n] < b["R"][m]
        /\ b["L"][n] < at[m] /\ at[m] < b["R"][n]
    <3>1. at[n] \in Keyed(s, k, b["L"][m], b["R"][m])
      BY <2>1, <2>2, NullAssumption DEF KeyedIn
    <3>2. at[m] \in Keyed(s, k, b["L"][n], b["R"][n])
      BY <2>2, <2>3, NullAssumption DEF KeyedIn
    <3> QED BY <3>1, <3>2 DEF Keyed
  <2>5. PICK f \in [Node -> Nat] : LayeredBy(tree, S, f)
    BY DEF GoodTree
  <2>6. f[n] > f[m]
    BY <2>4, <2>5, SpanIsBelow
  <2>7. f[m] > f[n]
    BY <2>4, <2>5, SpanIsBelow
  <2>8. f[m] \in Nat /\ f[n] \in Nat
    OBVIOUS
  <2> QED BY <2>6, <2>7, <2>8
<1> QED BY <1>1, <1>2 DEF TopOf

\* Where the key is not, nothing is on top of it.
LEMMA NoTop ==
  ASSUME NEW S \in SUBSET Node, GoodTree(tree, S), NEW s, NEW at, NEW b, Sorted(s),
         Lists(s, at, S), Spans(tree, S, s, at, b), NEW k \in Int
  PROVE  TopOf(S, s, b, k, {}) = NULL
<1>1. ASSUME NEW m \in S, Tops(s, b, k, {}, m)
      PROVE  FALSE
  <2>1. at[m] \in KeyedIn(s, b, k, m)
    BY <1>1, KeyedBelow DEF Tops
  <2> QED BY <2>1, <1>1 DEF Tops
<1> QED BY <1>1 DEF TopOf

\* One level finds the top node with the key if the levels below do.
LEMMA FindBodyIs ==
  ASSUME NEW S \in SUBSET Node, GoodTree(tree, S), NEW s, NEW at, NEW b, Sorted(s),
         Lists(s, at, S), Spans(tree, S, s, at, b), NEW n \in S, NEW k \in Int, NEW f,
         \A d \in Side :
           f[tree.child[d][n]] = TopOf(S, s, b, k, KeyedIn(s, b, k, tree.child[d][n]))
  PROVE  FindBody(f, k, n) = TopOf(S, s, b, k, KeyedIn(s, b, k, n))
<1>1. KeyOf[n] \in Int /\ n # NULL /\ "L" \in Side /\ "R" \in Side
  BY KeyAssumption, NullAssumption DEF Side
<1>2. CASE KeyOf[n] = k
  <2>1. FindBody(f, k, n) = n
    BY <1>2 DEF FindBody
  <2> QED BY <2>1, <1>2, OneTop
<1>3. CASE k < KeyOf[n]
  <2>1. KeyedIn(s, b, k, n) = KeyedIn(s, b, k, tree.child["L"][n])
    BY <1>3, KeyedBelow DEF Left
  <2>2. FindBody(f, k, n) = f[tree.child["L"][n]]
    BY <1>1, <1>3 DEF FindBody
  <2> QED BY <2>1, <2>2, <1>1
<1>4. CASE KeyOf[n] < k
  <2>1. KeyedIn(s, b, k, n) = KeyedIn(s, b, k, tree.child["R"][n])
    BY <1>4, KeyedBelow DEF Right
  <2>2. ~(k < KeyOf[n]) /\ KeyOf[n] # k
    BY <1>1, <1>4
  <2>3. FindBody(f, k, n) = f[tree.child["R"][n]]
    BY <2>2, <1>1 DEF FindBody
  <2> QED BY <2>1, <2>3, <1>1
<1> QED BY <1>1, <1>2, <1>3, <1>4

\* The recursion of find has a solution.
LEMMA FindMapIsMap ==
  ASSUME NEW S \in SUBSET Node, GoodTree(tree, S),
         \A n \in Node \ S, d \in Side : tree.child[d][n] \in S \cup {NULL},
         NEW s, NEW at, NEW b, Sorted(s), Lists(s, at, S), Spans(tree, S, s, at, b),
         NEW k \in Int
  PROVE  SolvesFind(k, FindMap(k))
<1> DEFINE g0 == [x \in NodeOrNull |-> TopOf(S, s, b, k, KeyedIn(s, b, k, x))]
           g  == [x \in NodeOrNull |-> IF x \in S \cup {NULL}
                                       THEN TopOf(S, s, b, k, KeyedIn(s, b, k, x))
                                       ELSE FindBody(g0, k, x)]
<1>1. \A n \in NodeOrNull, d \in Side : n # NULL => tree.child[d][n] \in S \cup {NULL}
  BY Neighbours DEF NodeOrNull
<1>2. \A x \in S \cup {NULL} :
        x \in NodeOrNull /\ g[x] = TopOf(S, s, b, k, KeyedIn(s, b, k, x)) /\ g0[x] = g[x]
  BY DEF NodeOrNull
<1>3. \A x \in NodeOrNull : x \notin S \cup {NULL} => g[x] = FindBody(g0, k, x)
  OBVIOUS
<1>4. g = [x \in NodeOrNull |-> g[x]]
  OBVIOUS
<1> HIDE DEF g, g0
<1>5. ASSUME NEW x \in NodeOrNull
      PROVE  g[x] = FindBody(g, k, x)
  <2>1. CASE x = NULL
    <3>1. g[x] = TopOf(S, s, b, k, {})
      BY <2>1, <1>2 DEF KeyedIn
    <3> QED BY <3>1, <2>1, NoTop DEF FindBody
  <2>2. CASE x \in S
    <3>1. \A d \in Side :
            g[tree.child[d][x]] = TopOf(S, s, b, k, KeyedIn(s, b, k, tree.child[d][x]))
      <4>1. \A d \in Side : tree.child[d][x] \in S \cup {NULL}
        BY <2>2, Neighbours
      <4> QED BY <4>1, <1>2
    <3>2. FindBody(g, k, x) = TopOf(S, s, b, k, KeyedIn(s, b, k, x))
      BY <2>2, <3>1, FindBodyIs
    <3> QED BY <3>2, <2>2, <1>2
  <2>3. CASE x \notin S \cup {NULL}
    <3>1. \A d \in Side : g[tree.child[d][x]] = g0[tree.child[d][x]]
      BY <2>3, <1>1, <1>2
    <3>2. FindBody(g0, k, x) = FindBody(g, k, x)
      <4>1. (IF k < KeyOf[x] THEN "L" ELSE "R") \in Side
        BY DEF Side
      <4> QED BY <3>1, <4>1 DEF FindBody
    <3> QED BY <3>2, <2>3, <1>3
  <2> QED BY <2>1, <2>2, <2>3
<1>6. g = [x \in NodeOrNull |-> FindBody(g, k, x)]
  BY <1>4, <1>5
<1>7. PICK m : m = FindMap(k)
  OBVIOUS
<1>8. m = [x \in NodeOrNull |-> FindBody(m, k, x)]
  BY <1>6, <1>7, FindMapExists
<1>9. SolvesFind(k, m)
  BY <1>8 DEF SolvesFind
<1> QED BY <1>7, <1>9

\* find returns the top node with the key below the node it starts at.
LEMMA FindIsTop ==
  ASSUME NEW S \in SUBSET Node, GoodTree(tree, S),
         \A n \in Node \ S, d \in Side : tree.child[d][n] \in S \cup {NULL},
         NEW s, NEW at, NEW b, Sorted(s), Lists(s, at, S), Spans(tree, S, s, at, b),
         NEW k \in Int, NEW n \in S \cup {NULL}
  PROVE  FindNode(n, k) = TopOf(S, s, b, k, KeyedIn(s, b, k, n))
<1>1. PICK f : f = FindMap(k)
  OBVIOUS
<1>2. \A x \in NodeOrNull : f[x] = FindBody(f, k, x)
  BY <1>1, FindMapIsMap DEF SolvesFind
<1>3. f[NULL] = TopOf(S, s, b, k, KeyedIn(s, b, k, NULL))
  <2>1. f[NULL] = NULL
    BY <1>2 DEF FindBody, NodeOrNull
  <2>2. KeyedIn(s, b, k, NULL) = {}
    BY DEF KeyedIn
  <2> QED BY <2>1, <2>2, NoTop
<1> DEFINE T == {x \in S : f[x] # TopOf(S, s, b, k, KeyedIn(s, b, k, x))}
<1>4. T = {}
  <2> SUFFICES ASSUME T # {} PROVE FALSE
    OBVIOUS
  <2>1. PICK x \in T : \A d \in Side : tree.child[d][x] \notin T
    BY LowestNode
  <2>2. x \in S /\ f[x] # TopOf(S, s, b, k, KeyedIn(s, b, k, x)) /\ x \in NodeOrNull
    BY DEF NodeOrNull
  <2>3. ASSUME NEW d \in Side
        PROVE  f[tree.child[d][x]] = TopOf(S, s, b, k, KeyedIn(s, b, k, tree.child[d][x]))
    <3>1. tree.child[d][x] \in S \cup {NULL}
      BY <2>2, Neighbours
    <3>2. CASE tree.child[d][x] = NULL
      BY <3>2, <1>3
    <3>3. CASE tree.child[d][x] \in S
      BY <3>3, <2>1
    <3> QED BY <3>1, <3>2, <3>3
  <2>4. FindBody(f, k, x) = TopOf(S, s, b, k, KeyedIn(s, b, k, x))
    BY <2>2, <2>3, FindBodyIs
  <2> QED BY <2>2, <2>4, <1>2
<1>5. f[n] = TopOf(S, s, b, k, KeyedIn(s, b, k, n))
  BY <1>3, <1>4
<1> QED BY <1>1, <1>5, FindNodeIs

\* Where the key is, some node with it is on top.
LEMMA SomeTop ==
  ASSUME NEW S \in SUBSET Node, GoodTree(tree, S), NEW s, NEW at, NEW b, Sorted(s),
         Lists(s, at, S), Spans(tree, S, s, at, b), NEW k \in Int, NEW n \in S,
         KeyedIn(s, b, k, n) # {}
  PROVE  TopOf(S, s, b, k, KeyedIn(s, b, k, n)) \in S
<1> DEFINE T == {x \in S : /\ KeyedIn(s, b, k, x) # {}
                           /\ ~\E m \in S : Tops(s, b, k, KeyedIn(s, b, k, x), m)}
<1>1. T = {}
  <2> SUFFICES ASSUME T # {} PROVE FALSE
    OBVIOUS
  <2>1. PICK x \in T : \A d \in Side : tree.child[d][x] \notin T
    BY LowestNode
  <2>2. /\ x \in S /\ KeyedIn(s, b, k, x) # {}
        /\ ~\E m \in S : Tops(s, b, k, KeyedIn(s, b, k, x), m)
    OBVIOUS
  <2>3. KeyOf[x] # k
    BY <2>2 DEF Tops
  <2>4. PICK d \in Side : KeyedIn(s, b, k, x) = KeyedIn(s, b, k, tree.child[d][x])
    <3>1. KeyOf[x] \in Int /\ "L" \in Side /\ "R" \in Side
      BY KeyAssumption DEF Side
    <3>2. k < KeyOf[x] => KeyedIn(s, b, k, x) = KeyedIn(s, b, k, tree.child["L"][x])
      BY <2>2, KeyedBelow DEF Left
    <3>3. KeyOf[x] < k => KeyedIn(s, b, k, x) = KeyedIn(s, b, k, tree.child["R"][x])
      BY <2>2, KeyedBelow DEF Right
    <3> QED BY <3>1, <3>2, <3>3, <2>3
  <2>5. tree.child[d][x] \in S
    <3>1. tree.child[d][x] \in S \cup {NULL}
      BY <2>2, Neighbours
    <3> QED BY <3>1, <2>2, <2>4 DEF KeyedIn
  <2> QED BY <2>1, <2>2, <2>4, <2>5
<1>2. \E m \in S : Tops(s, b, k, KeyedIn(s, b, k, n), m)
  BY <1>1
<1> QED BY <1>2 DEF TopOf

\* find and count answer for the sequence, and so for the nodes of the tree.
LEMMA LookupsRight ==
  ASSUME TreeInv, OrderInv, NEW k \in Int
  PROVE  /\ CountNode(tree.root, k) = Cardinality({n \in Linked : KeyOf[n] = k})
         /\ ContainsKey(k) <=> {n \in Linked : KeyOf[n] = k} # {}
<1>1. PICK s : Orders(s)
  BY DEF OrderInv
<1>2. PICK at, b : Lists(s, at, Linked) /\ Spans(tree, Linked, s, at, b)
  BY <1>1 DEF Orders, Ordering
<1>3. Sorted(s)
  BY <1>1 DEF Orders
<1>4. PICK S \in SUBSET Node : S = Linked
  BY OutsidePoints
<1>5. /\ GoodTree(tree, S)
      /\ \A n \in Node \ S, d \in Side : tree.child[d][n] \in S \cup {NULL}
  BY <1>4, OutsidePoints
<1>6. Lists(s, at, S) /\ Spans(tree, S, s, at, b)
  BY <1>2, <1>4
<1>7. PICK n \in S \cup {NULL} : n = tree.root
  BY <1>5 DEF GoodTree, WellLinked
<1>8. PICK P : P = KeyedIn(s, b, k, n)
  OBVIOUS
<1>9. Cardinality(P) = Cardinality(WithKey(S, k)) /\ (P = {} <=> WithKey(S, k) = {})
  <2>1. P = KeyedIn(s, b, k, tree.root)
    BY <1>7, <1>8
  <2> QED BY <2>1, <1>5, <1>6, KeyedInRoot
<1>10. CountNode(n, k) = Cardinality(P)
  BY <1>3, <1>5, <1>6, <1>8, CountIsCount
<1>11. FindNode(n, k) = TopOf(S, s, b, k, P)
  BY <1>3, <1>5, <1>6, <1>8, FindIsTop
<1>12. TopOf(S, s, b, k, P) # NULL <=> P # {}
  <2>1. CASE P = {}
    BY <2>1, <1>3, <1>5, <1>6, NoTop
  <2>2. CASE P # {}
    <3>1. n \in S
      BY <2>2, <1>8 DEF KeyedIn
    <3>2. TopOf(S, s, b, k, P) \in S
      BY <3>1, <2>2, <1>3, <1>5, <1>6, <1>8, SomeTop
    <3> QED BY <3>2, <2>2, NullAssumption
  <2> QED BY <2>1, <2>2
<1> QED BY <1>4, <1>7, <1>9, <1>10, <1>11, <1>12 DEF ContainsKey, WithKey

\* contains(k), find(k) and count(k) tell the truth about every key when no call
\* runs, though rotations spread equal keys over both subtrees.
THEOREM LookupsCorrect == ASSUME ~RhsFirst PROVE Spec => []LookupsAgree
<1>1. TreeInv /\ OrderInv => LookupsAgree
  <2> SUFFICES ASSUME TreeInv, OrderInv, pc = "idle", NEW k \in Keys
               PROVE  /\ CountNode(tree.root, k) = Cardinality({n \in live : KeyOf[n] = k})
                      /\ ContainsKey(k) <=> {n \in live : KeyOf[n] = k} # {}
    BY DEF LookupsAgree
  <2>1. k \in Int
    BY KeyAssumption DEF Keys
  <2>2. Linked = live
    BY DEF Linked
  <2> QED BY <2>1, <2>2, LookupsRight
<1> QED BY <1>1, OrderInvariance, PTL
-----------------------------------------------------------------------------
(***************************************************************************)
(* The iterators: a dive ends at the end of a span, a climb leaves it.     *)
(***************************************************************************)

\* One level of the dive, with f for the levels below.
DiveBody(t, d, f, m) == IF m = NULL \/ t.child[d][m] = NULL THEN m ELSE f[t.child[d][m]]

DiveMap(t, d) == CHOOSE f : f = [m \in NodeOrNull |-> DiveBody(t, d, f, m)]

SolvesDive(t, d, f) == \A m \in NodeOrNull : f[m] = DiveBody(t, d, f, m)

\* The element at the end d of the span of m.
EndOf(s, b, d, m) == IF m = NULL THEN NULL ELSE s[Beside(b[d][m], Opp(d))]

\* The dive is the function that satisfies its own recursion.
LEMMA DiveIs ==
  ASSUME NEW t, NEW n, NEW d
  PROVE  Dive(t, n, d) = DiveMap(t, d)[n]
BY DEF Dive, DiveMap, DiveBody

\* If any function satisfies the recursion, the chosen one does.
LEMMA DiveMapExists ==
  ASSUME NEW t, NEW d, NEW g, g = [m \in NodeOrNull |-> DiveBody(t, d, g, m)]
  PROVE  DiveMap(t, d) = [m \in NodeOrNull |-> DiveBody(t, d, DiveMap(t, d), m)]
BY DEF DiveMap

\* One level ends at the end of the span if the levels below do.
LEMMA DiveBodyIs ==
  ASSUME NEW t, NEW S \in SUBSET Node, GoodTree(t, S), NEW s, NEW at, NEW b,
         Lists(s, at, S), Spans(t, S, s, at, b), NEW n \in S, NEW d \in Side, NEW f,
         f[t.child[d][n]] = EndOf(s, b, d, t.child[d][n])
  PROVE  DiveBody(t, d, f, n) = EndOf(s, b, d, n)
<1>1. Measured(t, S, s, at, b) /\ Opp("L") = "R" /\ Opp("R") = "L" /\ "L" # "R"
  BY SpanFacts DEF Opp
<1>2. n # NULL /\ EndOf(s, b, d, n) = s[Beside(b[d][n], Opp(d))]
  BY NullAssumption DEF EndOf
<1>3. CASE t.child[d][n] = NULL
  <2>1. b[d][n] = Beside(at[n], d) /\ at[n] \in Int
    BY <1>1, <1>3 DEF Measured
  <2>2. Beside(b[d][n], Opp(d)) = at[n]
    BY <2>1, <1>1 DEF Beside, Side
  <2>3. s[at[n]] = n
    BY DEF Lists
  <2> QED BY <2>2, <2>3, <1>2, <1>3 DEF DiveBody
<1>4. CASE t.child[d][n] # NULL
  <2>1. b[d][t.child[d][n]] = b[d][n]
    BY <1>1, <1>4 DEF Measured
  <2>2. DiveBody(t, d, f, n) = f[t.child[d][n]]
    BY <1>2, <1>4 DEF DiveBody
  <2> QED BY <2>1, <2>2, <1>2, <1>4 DEF EndOf
<1> QED BY <1>3, <1>4

\* The recursion of the dive has a solution.
LEMMA DiveMapIsMap ==
  ASSUME NEW t, NEW S \in SUBSET Node, GoodTree(t, S),
         \A n \in Node \ S, d \in Side : t.child[d][n] \in S \cup {NULL},
         NEW s, NEW at, NEW b, Lists(s, at, S), Spans(t, S, s, at, b), NEW d \in Side
  PROVE  SolvesDive(t, d, DiveMap(t, d))
<1> DEFINE g0 == [x \in NodeOrNull |-> EndOf(s, b, d, x)]
           g  == [x \in NodeOrNull |-> IF x \in S \cup {NULL} THEN EndOf(s, b, d, x)
                                       ELSE DiveBody(t, d, g0, x)]
<1>1. \A n \in NodeOrNull : n # NULL => t.child[d][n] \in S \cup {NULL}
  BY Neighbours DEF NodeOrNull
<1>2. \A x \in S \cup {NULL} : x \in NodeOrNull /\ g[x] = EndOf(s, b, d, x) /\ g0[x] = g[x]
  BY DEF NodeOrNull
<1>3. \A x \in NodeOrNull : x \notin S \cup {NULL} => g[x] = DiveBody(t, d, g0, x)
  OBVIOUS
<1>4. g = [x \in NodeOrNull |-> g[x]]
  OBVIOUS
<1> HIDE DEF g, g0
<1>5. ASSUME NEW x \in NodeOrNull
      PROVE  g[x] = DiveBody(t, d, g, x)
  <2>1. CASE x = NULL
    BY <2>1, <1>2 DEF DiveBody, EndOf
  <2>2. CASE x \in S
    <3>1. g[t.child[d][x]] = EndOf(s, b, d, t.child[d][x])
      <4>1. t.child[d][x] \in S \cup {NULL}
        BY <2>2, Neighbours
      <4> QED BY <4>1, <1>2
    <3>2. DiveBody(t, d, g, x) = EndOf(s, b, d, x)
      BY <2>2, <3>1, DiveBodyIs
    <3> QED BY <3>2, <2>2, <1>2
  <2>3. CASE x \notin S \cup {NULL}
    <3>1. g[t.child[d][x]] = g0[t.child[d][x]]
      BY <2>3, <1>1, <1>2
    <3>2. DiveBody(t, d, g0, x) = DiveBody(t, d, g, x)
      BY <3>1 DEF DiveBody
    <3> QED BY <3>2, <2>3, <1>3
  <2> QED BY <2>1, <2>2, <2>3
<1>6. g = [x \in NodeOrNull |-> DiveBody(t, d, g, x)]
  BY <1>4, <1>5
<1>7. PICK m : m = DiveMap(t, d)
  OBVIOUS
<1>8. m = [x \in NodeOrNull |-> DiveBody(t, d, m, x)]
  BY <1>6, <1>7, DiveMapExists
<1>9. SolvesDive(t, d, m)
  BY <1>8 DEF SolvesDive
<1> QED BY <1>7, <1>9

\* A dive from a node ends at the end of its span.
LEMMA DiveIsEnd ==
  ASSUME NEW t, NEW S \in SUBSET Node, GoodTree(t, S),
         \A n \in Node \ S, d \in Side : t.child[d][n] \in S \cup {NULL},
         NEW s, NEW at, NEW b, Lists(s, at, S), Spans(t, S, s, at, b), NEW d \in Side,
         NEW n \in S \cup {NULL}
  PROVE  Dive(t, n, d) = EndOf(s, b, d, n)
<1>1. PICK f : f = DiveMap(t, d)
  OBVIOUS
<1>2. \A x \in NodeOrNull : f[x] = DiveBody(t, d, f, x)
  BY <1>1, DiveMapIsMap DEF SolvesDive
<1>3. f[NULL] = NULL
  BY <1>2 DEF DiveBody, NodeOrNull
<1> DEFINE T == {x \in S : f[x] # EndOf(s, b, d, x)}
<1>4. T = {}
  <2> SUFFICES ASSUME T # {} PROVE FALSE
    OBVIOUS
  <2>1. PICK x \in T : \A e \in Side : t.child[e][x] \notin T
    BY LowestNode
  <2>2. x \in S /\ f[x] # EndOf(s, b, d, x) /\ x \in NodeOrNull
    BY DEF NodeOrNull
  <2>3. f[t.child[d][x]] = EndOf(s, b, d, t.child[d][x])
    <3>1. t.child[d][x] \in S \cup {NULL}
      BY <2>2, Neighbours
    <3>2. CASE t.child[d][x] = NULL
      BY <3>2, <1>3 DEF EndOf
    <3>3. CASE t.child[d][x] \in S
      BY <3>3, <2>1
    <3> QED BY <3>1, <3>2, <3>3
  <2>4. DiveBody(t, d, f, x) = EndOf(s, b, d, x)
    BY <2>2, <2>3, DiveBodyIs
  <2> QED BY <2>2, <2>4, <1>2
<1>5. f[n] = EndOf(s, b, d, n)
  BY <1>3, <1>4 DEF EndOf
<1> QED BY <1>1, <1>5, DiveIs

\* One level of the climb, with f for the levels above.
ClimbBody(t, d, f, m) == IF ClimbOn(t, m, t.parent[m], d) THEN f[t.parent[m]] ELSE t.parent[m]

ClimbMap(t, d) == CHOOSE f : f = [m \in Node |-> ClimbBody(t, d, f, m)]

SolvesClimb(t, d, f) == \A m \in Node : f[m] = ClimbBody(t, d, f, m)

\* The element at a position, or the end.
ElementAt(s, i) == IF i \in 1 .. Len(s) THEN s[i] ELSE NULL

\* The climb is the function that satisfies its own recursion.
LEMMA ClimbIs ==
  ASSUME NEW t, NEW n, NEW d
  PROVE  Climb(t, n, d) = ClimbMap(t, d)[n]
BY DEF Climb, ClimbMap, ClimbBody

\* If any function satisfies the recursion, the chosen one does.
LEMMA ClimbMapExists ==
  ASSUME NEW t, NEW d, NEW g, g = [m \in Node |-> ClimbBody(t, d, g, m)]
  PROVE  ClimbMap(t, d) = [m \in Node |-> ClimbBody(t, d, ClimbMap(t, d), m)]
BY DEF ClimbMap

\* One level leaves the span of a node if the level above leaves that of its
\* parent.
LEMMA ClimbBodyIs ==
  ASSUME NEW t, NEW S \in SUBSET Node, GoodTree(t, S), NEW s, NEW at, NEW b,
         Lists(s, at, S), Spans(t, S, s, at, b), NEW n \in S, NEW d \in Side, NEW f,
         t.parent[n] # NULL => f[t.parent[n]] = ElementAt(s, b[d][t.parent[n]])
  PROVE  ClimbBody(t, d, f, n) = ElementAt(s, b[d][n])
<1>1. Measured(t, S, s, at, b) /\ Opp("L") = "R" /\ Opp("R") = "L" /\ "L" # "R"
  BY SpanFacts DEF Opp
<1>2. n # NULL
  BY NullAssumption
<1>3. PICK e \in Side : e = SideOf(t, n)
  BY SlotFacts
<1>4. CASE t.parent[n] = NULL
  <2>1. t.root = n
    BY <1>4, Neighbours
  <2>2. b["L"][n] = 0 /\ b["R"][n] = Len(s) + 1 /\ Len(s) \in Nat
    BY <2>1, <1>1, <1>2 DEF Spans, Measured
  <2>3. b[d][n] \notin 1 .. Len(s)
    BY <2>2 DEF Side
  <2>4. ClimbBody(t, d, f, n) = NULL
    BY <1>4 DEF ClimbBody, ClimbOn
  <2> QED BY <2>3, <2>4 DEF ElementAt
<1>5. CASE t.parent[n] # NULL
  <2>1. PICK p \in S : p = t.parent[n]
    BY <1>5, Neighbours
  <2>2. t.child[e][p] = n /\ p # NULL
    BY <2>1, <1>3, <1>5, SlotFacts
  <2>3. b[e][n] = b[e][p] /\ b[Opp(e)][n] = at[p]
    BY <2>2, <1>1, <1>2 DEF Measured
  <2>4. CASE e = d
    <3>1. ClimbBody(t, d, f, n) = f[p]
      BY <2>1, <2>2, <2>4 DEF ClimbBody, ClimbOn
    <3> QED BY <3>1, <2>1, <2>3, <2>4, <1>5
  <2>5. CASE e # d
    <3>1. Opp(e) = d
      BY <2>5, <1>1 DEF Side
    <3>2. t.child[d][p] # n
      BY <2>1, <2>2, <2>5, <1>3, SlotOf
    <3>3. ClimbBody(t, d, f, n) = p
      BY <3>2, <2>1 DEF ClimbBody, ClimbOn
    <3>4. at[p] \in 1 .. Len(s) /\ s[at[p]] = p
      BY DEF Lists
    <3> QED BY <3>1, <3>3, <3>4, <2>3 DEF ElementAt
  <2> QED BY <2>4, <2>5
<1> QED BY <1>4, <1>5

\* The recursion of the climb has a solution: no node outside the tree is the
\* child of one.
LEMMA ClimbMapIsMap ==
  ASSUME NEW t, NEW S \in SUBSET Node, GoodTree(t, S),
         \A n \in Node \ S, d \in Side : t.child[d][n] \in S \cup {NULL},
         NEW s, NEW at, NEW b, Lists(s, at, S), Spans(t, S, s, at, b), NEW d \in Side
  PROVE  SolvesClimb(t, d, ClimbMap(t, d))
<1> DEFINE g == [x \in Node |-> IF x \in S THEN ElementAt(s, b[d][x]) ELSE t.parent[x]]
<1>1. \A n \in NodeOrNull : n # NULL => t.child[d][n] \in S \cup {NULL}
  BY Neighbours DEF NodeOrNull
<1>2. \A x \in S : g[x] = ElementAt(s, b[d][x])
  OBVIOUS
<1>3. \A x \in Node \ S : g[x] = t.parent[x]
  OBVIOUS
<1>4. g = [x \in Node |-> g[x]]
  OBVIOUS
<1> HIDE DEF g
<1>5. ASSUME NEW x \in Node
      PROVE  g[x] = ClimbBody(t, d, g, x)
  <2>1. CASE x \in S
    <3>1. t.parent[x] # NULL => g[t.parent[x]] = ElementAt(s, b[d][t.parent[x]])
      <4>1. t.parent[x] \in S \cup {NULL}
        BY <2>1, Neighbours
      <4> QED BY <4>1, <1>2
    <3>2. ClimbBody(t, d, g, x) = ElementAt(s, b[d][x])
      BY <2>1, <3>1, ClimbBodyIs
    <3> QED BY <3>2, <2>1, <1>2
  <2>2. CASE x \notin S
    <3>1. t.parent[x] \in NodeOrNull /\ x # NULL
      BY NullAssumption DEF GoodTree, Tree
    <3>2. ~ClimbOn(t, x, t.parent[x], d)
      BY <3>1, <2>2, <1>1 DEF ClimbOn
    <3> QED BY <3>2, <2>2, <1>3 DEF ClimbBody
  <2> QED BY <2>1, <2>2
<1>6. g = [x \in Node |-> ClimbBody(t, d, g, x)]
  BY <1>4, <1>5
<1>7. PICK m : m = ClimbMap(t, d)
  OBVIOUS
<1>8. m = [x \in Node |-> ClimbBody(t, d, m, x)]
  BY <1>6, <1>7, ClimbMapExists
<1>9. SolvesClimb(t, d, m)
  BY <1>8 DEF SolvesClimb
<1> QED BY <1>7, <1>9

\* A climb from a node ends at the element next to its span.
LEMMA ClimbLeaves ==
  ASSUME NEW t, NEW S \in SUBSET Node, GoodTree(t, S),
         \A n \in Node \ S, d \in Side : t.child[d][n] \in S \cup {NULL},
         NEW s, NEW at, NEW b, Lists(s, at, S), Spans(t, S, s, at, b), NEW d \in Side,
         NEW n \in S
  PROVE  Climb(t, n, d) = ElementAt(s, b[d][n])
<1>1. PICK f : f = ClimbMap(t, d)
  OBVIOUS
<1>2. \A x \in Node : f[x] = ClimbBody(t, d, f, x)
  BY <1>1, ClimbMapIsMap DEF SolvesClimb
<1>3. PICK l \in [Node -> Nat] : LayeredBy(t, S, l)
  BY DEF GoodTree
<1> DEFINE T == {x \in S : f[x] # ElementAt(s, b[d][x])}
<1>4. T = {}
  <2> SUFFICES ASSUME T # {} PROVE FALSE
    OBVIOUS
  <2>1. PICK x \in T : \A y \in T : l[y] >= l[x]
    BY HighestNode
  <2>2. x \in S /\ f[x] # ElementAt(s, b[d][x])
    OBVIOUS
  <2>3. ASSUME t.parent[x] # NULL
        PROVE  f[t.parent[x]] = ElementAt(s, b[d][t.parent[x]])
    <3>1. PICK p \in S : p = t.parent[x]
      BY <2>2, <2>3, Neighbours
    <3>2. PICK e \in Side : e = SideOf(t, x)
      BY SlotFacts
    <3>3. t.child[e][p] = x /\ x # NULL
      BY <3>1, <3>2, <2>2, <2>3, SlotFacts, NullAssumption
    <3>4. l[x] > l[p] /\ l[x] \in Nat /\ l[p] \in Nat
      BY <3>3, <1>3, <2>2 DEF LayeredBy
    <3>5. p \notin T
      BY <3>4, <2>1
    <3> QED BY <3>1, <3>5
  <2>4. ClimbBody(t, d, f, x) = ElementAt(s, b[d][x])
    BY <2>2, <2>3, ClimbBodyIs
  <2> QED BY <2>2, <2>4, <1>2
<1> QED BY <1>1, <1>4, ClimbIs

\* From every node ++ and -- lead to the element beside it.
LEMMA AdvanceIsBeside ==
  ASSUME NEW t, NEW S \in SUBSET Node, GoodTree(t, S),
         \A n \in Node \ S, d \in Side : t.child[d][n] \in S \cup {NULL},
         NEW s, NEW at, NEW b, Lists(s, at, S), Spans(t, S, s, at, b), NEW d \in Side,
         NEW n \in S
  PROVE  Advance(t, n, d) = ElementAt(s, Beside(at[n], d))
<1>1. Measured(t, S, s, at, b) /\ Opp("L") = "R" /\ Opp("R") = "L" /\ "L" # "R"
      /\ "L" \in Side /\ "R" \in Side
  BY SpanFacts DEF Opp, Side
<1>2. CASE t.child[d][n] = NULL
  <2>1. b[d][n] = Beside(at[n], d)
    BY <1>1, <1>2 DEF Measured
  <2>2. Climb(t, n, d) = ElementAt(s, b[d][n])
    BY ClimbLeaves
  <2> QED BY <2>1, <2>2, <1>2 DEF Advance
<1>3. CASE t.child[d][n] # NULL
  <2>1. PICK c \in S : c = t.child[d][n]
    BY <1>3, Neighbours
  <2>2. PICK o \in Side : o = Opp(d)
    BY <1>1 DEF Side
  <2>3. b[o][c] = at[n] /\ c # NULL
    BY <2>1, <2>2, <1>1, <1>3 DEF Measured
  <2>4. Dive(t, c, o) = EndOf(s, b, o, c)
    BY DiveIsEnd
  <2>5. EndOf(s, b, o, c) = s[Beside(at[n], d)]
    BY <2>2, <2>3, <1>1 DEF EndOf, Side
  <2>6. Beside(at[n], d) \in 1 .. Len(s)
    <3>1. /\ b["L"][c] < at[c] /\ at[c] < b["R"][c]
          /\ at[c] \in 1 .. Len(s) /\ at[n] \in 1 .. Len(s)
      BY DEF Spans, Lists
    <3>2. CASE d = "L"
      BY <3>1, <3>2, <2>2, <2>3, <1>1 DEF Beside
    <3>3. CASE d = "R"
      BY <3>1, <3>3, <2>2, <2>3, <1>1 DEF Beside
    <3> QED BY <3>2, <3>3 DEF Side
  <2> QED BY <2>1, <2>2, <2>4, <2>5, <2>6, <1>3 DEF Advance, ElementAt
<1> QED BY <1>2, <1>3

\* begin() is the first element, and the iterators step through the sequence.
LEMMA IteratorsFollow ==
  ASSUME NEW t, NEW S \in SUBSET Node, GoodTree(t, S),
         \A n \in Node \ S, d \in Side : t.child[d][n] \in S \cup {NULL},
         NEW s, NEW at, NEW b, Lists(s, at, S), Spans(t, S, s, at, b)
  PROVE  IteratorsInOrder(t)
<1>1. Nodes(t) = s
  BY WalkIsSequence
<1>2. s \in Seq(S) /\ Len(s) \in Nat /\ DOMAIN s = 1 .. Len(s) /\ "L" \in Side /\ "R" \in Side
  BY LenProperties DEF Lists, Side
<1>3. First(t) = IF s = << >> THEN NULL ELSE s[1]
  <2>1. PICK r \in S \cup {NULL} : r = t.root
    BY DEF GoodTree, WellLinked
  <2>2. First(t) = EndOf(s, b, "L", r)
    BY <2>1, <1>2, DiveIsEnd DEF First
  <2>3. CASE r = NULL
    <3>1. S = {}
      BY <2>1, <2>3 DEF GoodTree, WellLinked
    <3>2. s = << >>
      <4>1. \A i \in 1 .. Len(s) : s[i] \in {}
        BY <3>1, <1>2, ElementOfSeq
      <4>2. Len(s) = 0
        BY <4>1, <1>2
      <4> QED BY <4>2, <1>2, EmptySeq
    <3> QED BY <3>2, <2>2, <2>3 DEF EndOf
  <2>4. CASE r # NULL
    <3>1. r \in S /\ b["L"][r] = 0
      BY <2>1, <2>4 DEF Spans
    <3>2. Beside(b["L"][r], Opp("L")) = 1
      BY <3>1 DEF Beside, Opp
    <3>3. s # << >>
      <4>1. at[r] \in 1 .. Len(s)
        BY <3>1 DEF Lists
      <4>2. Len(s) # 0
        BY <4>1, <1>2
      <4> QED BY <4>2, <1>2, EmptySeq
    <3> QED BY <3>2, <3>3, <2>2, <2>4 DEF EndOf
  <2> QED BY <2>3, <2>4
<1>4. ASSUME NEW i \in DOMAIN s
      PROVE  /\ Advance(t, s[i], "R") = IF i = Len(s) THEN NULL ELSE s[i + 1]
             /\ Advance(t, s[i], "L") = IF i = 1 THEN NULL ELSE s[i - 1]
  <2>1. PICK n \in S : n = s[i]
    BY <1>2, ElementOfSeq
  <2>2. at[n] = i /\ i \in 1 .. Len(s)
    BY <2>1, <1>2 DEF Lists
  <2>3. Advance(t, n, "R") = ElementAt(s, i + 1)
    <3>1. Beside(at[n], "R") = i + 1
      BY <2>2 DEF Beside
    <3>2. Advance(t, n, "R") = ElementAt(s, Beside(at[n], "R"))
      BY <1>2, AdvanceIsBeside
    <3> QED BY <3>1, <3>2
  <2>4. Advance(t, n, "L") = ElementAt(s, i - 1)
    <3>1. Beside(at[n], "L") = i - 1
      BY <2>2 DEF Beside
    <3>2. Advance(t, n, "L") = ElementAt(s, Beside(at[n], "L"))
      BY <1>2, AdvanceIsBeside
    <3> QED BY <3>1, <3>2
  <2>5. ElementAt(s, i + 1) = IF i = Len(s) THEN NULL ELSE s[i + 1]
    BY <2>2, <1>2 DEF ElementAt
  <2>6. ElementAt(s, i - 1) = IF i = 1 THEN NULL ELSE s[i - 1]
    BY <2>2, <1>2 DEF ElementAt
  <2> QED BY <2>1, <2>3, <2>4, <2>5, <2>6
<1> QED BY <1>1, <1>3, <1>4 DEF IteratorsInOrder

\* Whatever calls an iterator was held across, begin() is the first element and
\* ++ and -- lead to the neighbours of the element it points to, or to end().
THEOREM IteratorsCorrect == ASSUME ~RhsFirst PROVE Spec => []AdvanceIsNeighbour
<1>1. TreeInv /\ OrderInv => IteratorsInOrder(tree)
  <2> SUFFICES ASSUME TreeInv, OrderInv PROVE IteratorsInOrder(tree)
    OBVIOUS
  <2>1. PICK s : Orders(s)
    BY DEF OrderInv
  <2>2. PICK at, b : Lists(s, at, Linked) /\ Spans(tree, Linked, s, at, b)
    BY <2>1 DEF Orders, Ordering
  <2>3. /\ Linked \in SUBSET Node /\ GoodTree(tree, Linked)
        /\ \A n \in Node \ Linked, d \in Side : tree.child[d][n] \in Linked \cup {NULL}
    BY OutsidePoints
  <2> QED BY <2>2, <2>3, IteratorsFollow
<1>2. TreeInv /\ OrderInv => AdvanceIsNeighbour
  BY <1>1 DEF AdvanceIsNeighbour
<1> QED BY <1>2, OrderInvariance, PTL
-----------------------------------------------------------------------------
(***************************************************************************)
(* is_binary_tree, the other check the class offers its tests.             *)
(***************************************************************************)

\* One level of is_binary_tree, with f for the levels below.
VerifyBody(t, f, x) ==
  x # NULL =>
    /\ \A d \in Side : t.child[d][x] # NULL => t.parent[t.child[d][x]] = x
    /\ t.parent[x] # NULL => \E d \in Side : t.child[d][t.parent[x]] = x
    /\ \A d \in Side : f[t.child[d][x]]

VerifyMap(t) == CHOOSE f : f = [x \in NodeOrNull |-> VerifyBody(t, f, x)]

SolvesVerify(t, f) == \A x \in NodeOrNull : f[x] = VerifyBody(t, f, x)

\* is_binary_tree is the function that satisfies its own recursion.
LEMMA VerifyIs ==
  ASSUME NEW t, NEW n
  PROVE  VerifyBinaryTree(t, n) = VerifyMap(t)[n]
BY DEF VerifyBinaryTree, VerifyMap, VerifyBody

\* If any function satisfies the recursion, the chosen one does.
LEMMA VerifyMapExists ==
  ASSUME NEW t, NEW g, g = [x \in NodeOrNull |-> VerifyBody(t, g, x)]
  PROVE  VerifyMap(t) = [x \in NodeOrNull |-> VerifyBody(t, VerifyMap(t), x)]
BY DEF VerifyMap

\* One level accepts a node of the tree if the levels below accept.
LEMMA VerifyBodyHolds ==
  ASSUME NEW t, NEW S \in SUBSET Node, GoodTree(t, S), NEW n \in S, NEW f,
         \A d \in Side : f[t.child[d][n]] = TRUE
  PROVE  VerifyBody(t, f, n) = TRUE
<1>1. ASSUME NEW d \in Side, t.child[d][n] # NULL
      PROVE  t.parent[t.child[d][n]] = n
  BY <1>1 DEF GoodTree, WellLinked
<1>2. ASSUME t.parent[n] # NULL
      PROVE  \E d \in Side : t.child[d][t.parent[n]] = n
  <2>1. SideOf(t, n) \in Side /\ t.child[SideOf(t, n)][t.parent[n]] = n
    BY <1>2, SlotFacts
  <2> QED BY <2>1
<1>3. \A d \in Side : f[t.child[d][n]]
  OBVIOUS
<1> QED BY <1>1, <1>2, <1>3 DEF VerifyBody

\* The recursion of is_binary_tree has a solution, and it accepts the tree.
LEMMA VerifyHolds ==
  ASSUME NEW t, NEW S \in SUBSET Node, GoodTree(t, S),
         \A n \in Node \ S, d \in Side : t.child[d][n] \in S \cup {NULL},
         NEW s, NEW at, NEW b, Lists(s, at, S), Spans(t, S, s, at, b),
         NEW n \in S \cup {NULL}
  PROVE  VerifyBinaryTree(t, n)
<1> DEFINE g0 == [x \in NodeOrNull |-> TRUE]
           g  == [x \in NodeOrNull |-> IF x \in S \cup {NULL} THEN TRUE
                                       ELSE VerifyBody(t, g0, x)]
<1>1. \A m \in NodeOrNull, d \in Side : m # NULL => t.child[d][m] \in S \cup {NULL}
  BY Neighbours DEF NodeOrNull
<1>2. \A x \in S \cup {NULL} : x \in NodeOrNull /\ g[x] = TRUE /\ g0[x] = g[x]
  BY DEF NodeOrNull
<1>3. \A x \in NodeOrNull : x \notin S \cup {NULL} => g[x] = VerifyBody(t, g0, x)
  OBVIOUS
<1>4. g = [x \in NodeOrNull |-> g[x]]
  OBVIOUS
<1> HIDE DEF g, g0
<1>5. ASSUME NEW x \in NodeOrNull
      PROVE  g[x] = VerifyBody(t, g, x)
  <2>1. CASE x = NULL
    BY <2>1, <1>2 DEF VerifyBody
  <2>2. CASE x \in S
    <3>1. \A d \in Side : g[t.child[d][x]] = TRUE
      <4>1. \A d \in Side : t.child[d][x] \in S \cup {NULL}
        BY <2>2, Neighbours
      <4> QED BY <4>1, <1>2
    <3>2. VerifyBody(t, g, x) = TRUE
      BY <2>2, <3>1, VerifyBodyHolds
    <3> QED BY <3>2, <2>2, <1>2
  <2>3. CASE x \notin S \cup {NULL}
    <3>1. \A d \in Side : g[t.child[d][x]] = g0[t.child[d][x]]
      BY <2>3, <1>1, <1>2
    <3>2. VerifyBody(t, g0, x) = VerifyBody(t, g, x)
      BY <3>1 DEF VerifyBody
    <3> QED BY <3>2, <2>3, <1>3
  <2> QED BY <2>1, <2>2, <2>3
<1>6. g = [x \in NodeOrNull |-> VerifyBody(t, g, x)]
  BY <1>4, <1>5
<1>7. PICK f : f = VerifyMap(t)
  OBVIOUS
<1>8. f = [x \in NodeOrNull |-> VerifyBody(t, f, x)]
  BY <1>6, <1>7, VerifyMapExists
<1>9. \A x \in NodeOrNull : f[x] = VerifyBody(t, f, x)
  BY <1>8
<1>10. f[NULL] = TRUE
  BY <1>9 DEF VerifyBody, NodeOrNull
<1> DEFINE T == {x \in S : f[x] # TRUE}
<1>11. T = {}
  <2> SUFFICES ASSUME T # {} PROVE FALSE
    OBVIOUS
  <2>1. PICK x \in T : \A d \in Side : t.child[d][x] \notin T
    BY LowestNode
  <2>2. x \in S /\ f[x] # TRUE /\ x \in NodeOrNull
    BY DEF NodeOrNull
  <2>3. ASSUME NEW d \in Side
        PROVE  f[t.child[d][x]] = TRUE
    <3>1. t.child[d][x] \in S \cup {NULL}
      BY <2>2, Neighbours
    <3>2. CASE t.child[d][x] = NULL
      BY <3>2, <1>10
    <3>3. CASE t.child[d][x] \in S
      BY <3>3, <2>1
    <3> QED BY <3>1, <3>2, <3>3
  <2>4. VerifyBody(t, f, x) = TRUE
    BY <2>2, <2>3, VerifyBodyHolds
  <2> QED BY <2>2, <2>4, <1>9
<1>12. f[n] = TRUE
  BY <1>10, <1>11
<1>13. VerifyBinaryTree(t, n) = f[n]
  BY <1>7, VerifyIs
<1> QED BY <1>12, <1>13

\* If insert_rebalance reads g->parent before it rotates, as its author meant it
\* to, the tree passes is_binary_tree between two calls, as the tests assert.
THEOREM BinaryTreeRests == ASSUME ~RhsFirst PROVE Spec => []BinaryTreeWhenIdle
<1>1. TreeInv /\ OrderInv => IsBinaryTree
  <2> SUFFICES ASSUME TreeInv, OrderInv PROVE IsBinaryTree
    OBVIOUS
  <2>1. PICK s : Orders(s)
    BY DEF OrderInv
  <2>2. PICK at, b : Lists(s, at, Linked) /\ Spans(tree, Linked, s, at, b)
    BY <2>1 DEF Orders, Ordering
  <2>3. /\ Linked \in SUBSET Node /\ GoodTree(tree, Linked)
        /\ \A n \in Node \ Linked, d \in Side : tree.child[d][n] \in Linked \cup {NULL}
    BY OutsidePoints
  <2>4. tree.root \in Linked \cup {NULL}
    BY <2>3 DEF GoodTree, WellLinked
  <2> QED BY <2>2, <2>3, <2>4, VerifyHolds DEF IsBinaryTree
<1>2. TreeInv /\ OrderInv => BinaryTreeWhenIdle
  BY <1>1 DEF BinaryTreeWhenIdle
<1> QED BY <1>2, OrderInvariance, PTL
=============================================================================
