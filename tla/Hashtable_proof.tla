--------------------------- MODULE Hashtable_proof ---------------------------
(***************************************************************************)
(* Theorems about Hashtable, for any nodes, hashes, policy and number of   *)
(* objects: a node is always where a search looks for it, size_ counts the *)
(* nodes, the load factor stays bounded, every object behaves as a set of  *)
(* elements at each step of a rehash or a copy, and lookups and iterators  *)
(* agree with that set.                                                    *)
(***************************************************************************)
EXTENDS HashtableLookups, TLAPS, SequenceTheorems, FiniteSetTheorems, FunctionTheorems,
        WellFoundedInduction

\* No node twice in a chain.
Injective(chain) == \A i, j \in DOMAIN chain : chain[i] = chain[j] => i = j

\* Chains of distinct nodes, each node in the chain of its hash.
Good(buckets) == /\ BucketsOK(buckets)
                 /\ Placed(buckets)
                 /\ \A i \in DOMAIN buckets : Injective(buckets[i])
-----------------------------------------------------------------------------
(***************************************************************************)
(* Chains                                                                  *)
(***************************************************************************)

\* A chain with a new node at its head, as insert and rehash leave it.
LEMMA HeadAdded ==
  ASSUME NEW c \in Seq(Node), Injective(c), NEW n \in Node, n \notin ToSet(c)
  PROVE  /\ <<n>> \o c \in Seq(Node)
         /\ Injective(<<n>> \o c)
         /\ ToSet(<<n>> \o c) = ToSet(c) \cup {n}
         /\ Len(<<n>> \o c) = Len(c) + 1
<1>1. PICK s : s = <<n>> \o c
  OBVIOUS
<1>2. <<n>> \in Seq(Node) /\ Len(<<n>>) = 1 /\ <<n>>[1] = n
  OBVIOUS
<1>3. /\ s \in Seq(Node) /\ Len(s) = 1 + Len(c)
      /\ \A i \in 1 .. 1 + Len(c) : s[i] = IF i <= 1 THEN <<n>>[i] ELSE c[i - 1]
  BY <1>1, <1>2, ConcatProperties
<1>4. Len(c) \in Nat /\ DOMAIN c = 1 .. Len(c) /\ DOMAIN s = 1 .. Len(c) + 1
  BY <1>3, LenProperties
<1>5. s[1] = n /\ \A i \in 2 .. Len(c) + 1 : s[i] = c[i - 1]
  BY <1>2, <1>3, <1>4
<1>6. \A j \in DOMAIN c : s[j + 1] = c[j] /\ j + 1 \in DOMAIN s
  BY <1>4, <1>5
<1>7. ToSet(s) = ToSet(c) \cup {n}
  <2>1. \A i \in DOMAIN s : s[i] \in ToSet(c) \cup {n}
    <3>1. SUFFICES ASSUME NEW i \in DOMAIN s, i # 1
                   PROVE  s[i] \in ToSet(c)
      BY <1>5
    <3>2. i - 1 \in DOMAIN c /\ s[i] = c[i - 1]
      BY <1>4, <1>5, <3>1
    <3> QED BY <3>2 DEF ToSet
  <2>2. n \in ToSet(s)
    BY <1>4, <1>5 DEF ToSet
  <2>3. \A x \in ToSet(c) : x \in ToSet(s)
    BY <1>6 DEF ToSet
  <2>4. \A x \in ToSet(s) : x \in ToSet(c) \cup {n}
    BY <2>1 DEF ToSet
  <2> QED BY <2>2, <2>3, <2>4
<1>8. Injective(s)
  <2>1. \A i \in DOMAIN s : i # 1 => i - 1 \in DOMAIN c /\ s[i] = c[i - 1] /\ s[i] # n
    <3>1. SUFFICES ASSUME NEW i \in DOMAIN s, i # 1
                   PROVE  i - 1 \in DOMAIN c /\ s[i] = c[i - 1] /\ s[i] # n
      OBVIOUS
    <3>2. i - 1 \in DOMAIN c /\ s[i] = c[i - 1]
      BY <1>4, <1>5, <3>1
    <3> QED BY <3>2 DEF ToSet
  <2>2. SUFFICES ASSUME NEW i \in DOMAIN s, NEW j \in DOMAIN s, s[i] = s[j]
                 PROVE  i = j
    BY DEF Injective
  <2>3. CASE i = 1 \/ j = 1
    BY <1>5, <2>1, <2>2, <2>3
  <2>4. CASE i # 1 /\ j # 1
    <3>1. i - 1 = j - 1
      BY <2>1, <2>2, <2>4 DEF Injective
    <3> QED BY <1>4, <3>1
  <2> QED BY <2>3, <2>4
<1> QED BY <1>1, <1>3, <1>4, <1>7, <1>8

\* A chain with a new node at its end, as the copy constructor leaves it.
LEMMA EndAdded ==
  ASSUME NEW c \in Seq(Node), Injective(c), NEW n \in Node, n \notin ToSet(c)
  PROVE  /\ Append(c, n) \in Seq(Node)
         /\ Injective(Append(c, n))
         /\ ToSet(Append(c, n)) = ToSet(c) \cup {n}
<1>1. PICK s : s = Append(c, n)
  OBVIOUS
<1>2. /\ s \in Seq(Node) /\ Len(s) = Len(c) + 1 /\ s[Len(c) + 1] = n
      /\ \A i \in 1 .. Len(c) : s[i] = c[i]
  BY <1>1, AppendProperties
<1>3. Len(c) \in Nat /\ DOMAIN c = 1 .. Len(c) /\ DOMAIN s = 1 .. Len(c) + 1
  BY <1>2, LenProperties
<1>4. \A i \in DOMAIN s : i = Len(c) + 1 \/ (i \in DOMAIN c /\ s[i] = c[i] /\ s[i] # n)
  <2>1. \A i \in DOMAIN c : c[i] # n
    BY DEF ToSet
  <2> QED BY <1>2, <1>3, <2>1
<1>5. ToSet(s) = ToSet(c) \cup {n}
  <2>1. \A i \in DOMAIN c : c[i] \in ToSet(s)
    BY <1>2, <1>3 DEF ToSet
  <2>2. n \in ToSet(s)
    BY <1>2, <1>3 DEF ToSet
  <2>3. \A i \in DOMAIN s : s[i] \in ToSet(c) \cup {n}
    BY <1>2, <1>4 DEF ToSet
  <2> QED BY <2>1, <2>2, <2>3 DEF ToSet
<1>6. Injective(s)
  BY <1>2, <1>4 DEF Injective
<1> QED BY <1>1, <1>2, <1>5, <1>6

\* A chain without the node at one place, as erase leaves it.
LEMMA PlaceRemoved ==
  ASSUME NEW c \in Seq(Node), Injective(c), NEW j \in DOMAIN c
  PROVE  /\ RemoveAt(c, j) \in Seq(Node)
         /\ Injective(RemoveAt(c, j))
         /\ ToSet(RemoveAt(c, j)) = ToSet(c) \ {c[j]}
<1>1. PICK n \in Nat : n = Len(c) /\ DOMAIN c = 1 .. n
  BY LenProperties
<1>2. \A i \in 1 .. n : c[i] \in Node
  BY <1>1, ElementOfSeq
<1>3. PICK a : a = SubSeq(c, 1, j - 1)
  OBVIOUS
<1>4. a \in Seq(Node) /\ Len(a) = j - 1 /\ \A i \in 1 .. j - 1 : a[i] = c[i]
  <2>1. \A i \in 1 .. j - 1 : c[i] \in Node
    BY <1>1, <1>2
  <2>2. /\ a \in Seq(Node) /\ Len(a) = IF 1 <= j - 1 THEN (j - 1) - 1 + 1 ELSE 0
        /\ \A i \in 1 .. (j - 1) - 1 + 1 : a[i] = c[1 + i - 1]
    BY <1>1, <1>3, <2>1, SubSeqProperties
  <2>3. (j - 1) - 1 + 1 = j - 1 /\ \A i \in 1 .. j - 1 : 1 + i - 1 = i
    BY <1>1
  <2> QED BY <1>1, <2>2, <2>3
<1>5. PICK b : b = SubSeq(c, j + 1, n)
  OBVIOUS
<1>6. b \in Seq(Node) /\ Len(b) = n - j /\ \A i \in 1 .. n - j : b[i] = c[j + i]
  <2>1. \A i \in j + 1 .. n : c[i] \in Node
    BY <1>1, <1>2
  <2>2. /\ b \in Seq(Node) /\ Len(b) = IF j + 1 <= n THEN n - (j + 1) + 1 ELSE 0
        /\ \A i \in 1 .. n - (j + 1) + 1 : b[i] = c[j + 1 + i - 1]
    BY <1>1, <1>5, <2>1, SubSeqProperties
  <2>3. n - (j + 1) + 1 = n - j /\ \A i \in 1 .. n - j : j + 1 + i - 1 = j + i
    BY <1>1
  <2> QED BY <1>1, <2>2, <2>3
<1>7. PICK r : r = RemoveAt(c, j)
  OBVIOUS
<1>8. r = a \o b
  BY <1>1, <1>3, <1>5, <1>7 DEF RemoveAt
<1>9. /\ r \in Seq(Node) /\ Len(r) = (j - 1) + (n - j)
      /\ \A i \in 1 .. (j - 1) + (n - j) : r[i] = IF i <= j - 1 THEN a[i] ELSE b[i - (j - 1)]
  BY <1>4, <1>6, <1>8, ConcatProperties
<1>10. DOMAIN r = 1 .. n - 1 /\ \A i \in 1 .. n - 1 : r[i] = IF i < j THEN c[i] ELSE c[i + 1]
  <2>1. (j - 1) + (n - j) = n - 1
    BY <1>1
  <2>2. DOMAIN r = 1 .. n - 1
    BY <1>9, <2>1, LenProperties
  <2>3. SUFFICES ASSUME NEW i \in 1 .. n - 1
                 PROVE  r[i] = IF i < j THEN c[i] ELSE c[i + 1]
    BY <2>2
  <2>4. CASE i < j
    <3>1. i \in 1 .. j - 1 /\ i <= j - 1
      BY <1>1, <2>4
    <3> QED BY <1>4, <1>9, <2>1, <2>4, <3>1
  <2>5. CASE ~(i < j)
    <3>1. i - (j - 1) \in 1 .. n - j /\ ~(i <= j - 1) /\ j + (i - (j - 1)) = i + 1
      BY <1>1, <2>5
    <3>2. b[i - (j - 1)] = c[j + (i - (j - 1))]
      BY <1>6, <3>1
    <3> QED BY <1>9, <2>1, <2>5, <3>1, <3>2
  <2> QED BY <2>4, <2>5
<1>11. Injective(r)
  <2>1. SUFFICES ASSUME NEW i \in 1 .. n - 1, NEW k \in 1 .. n - 1, r[i] = r[k]
                 PROVE  i = k
    BY <1>10 DEF Injective
  <2>2. PICK x \in 1 .. n, y \in 1 .. n : /\ x = IF i < j THEN i ELSE i + 1
                                          /\ y = IF k < j THEN k ELSE k + 1
    BY <1>1
  <2>3. c[x] = c[y]
    BY <1>10, <2>1, <2>2
  <2>4. x = y
    BY <1>1, <2>3 DEF Injective
  <2> QED BY <1>1, <2>2, <2>4
<1>12. ToSet(r) = ToSet(c) \ {c[j]}
  <2>1. \A i \in 1 .. n - 1 : r[i] \in ToSet(c) \ {c[j]}
    <3>1. SUFFICES ASSUME NEW i \in 1 .. n - 1
                   PROVE  r[i] \in ToSet(c) \ {c[j]}
      OBVIOUS
    <3>2. PICK x \in 1 .. n : x = (IF i < j THEN i ELSE i + 1) /\ x # j
      BY <1>1
    <3>3. r[i] = c[x]
      BY <1>10, <3>2
    <3>4. c[x] # c[j]
      BY <1>1, <3>2 DEF Injective
    <3> QED BY <1>1, <3>3, <3>4 DEF ToSet
  <2>2. ASSUME NEW x \in 1 .. n, x # j
        PROVE  c[x] \in ToSet(r)
    <3>1. PICK i \in 1 .. n - 1 : i = IF x < j THEN x ELSE x - 1
      BY <1>1, <2>2
    <3>2. r[i] = c[x]
      <4>1. CASE x < j
        BY <1>10, <3>1, <4>1
      <4>2. CASE ~(x < j)
        <5>1. ~(i < j) /\ i + 1 = x
          BY <1>1, <2>2, <3>1, <4>2
        <5> QED BY <1>10, <5>1
      <4> QED BY <4>1, <4>2
    <3> QED BY <1>10, <3>2 DEF ToSet
  <2> QED BY <1>1, <1>10, <2>1, <2>2 DEF ToSet
<1> QED BY <1>7, <1>9, <1>11, <1>12

\* A chain without its head, as rehash leaves it behind.
LEMMA HeadRemoved ==
  ASSUME NEW c \in Seq(Node), Injective(c), c # << >>
  PROVE  /\ Head(c) \in ToSet(c)
         /\ Head(c) \in Node
         /\ Tail(c) \in Seq(Node)
         /\ Injective(Tail(c))
         /\ ToSet(Tail(c)) = ToSet(c) \ {Head(c)}
<1>1. Len(c) \in Nat /\ Len(c) > 0 /\ DOMAIN c = 1 .. Len(c)
  BY EmptySeq, LenProperties
<1>2. 1 \in DOMAIN c /\ Head(c) = c[1] /\ Head(c) \in Node
  BY <1>1, HeadTailProperties
<1>3. RemoveAt(c, 1) = Tail(c)
  <2>1. SubSeq(c, 1, 1 - 1) = << >>
    BY SubSeqEmpty
  <2>2. 1 + 1 = 2 /\ Tail(c) = SubSeq(c, 2, Len(c)) /\ Tail(c) \in Seq(Node)
    BY HeadTailProperties, TailIsSubSeq
  <2>3. << >> \o Tail(c) = Tail(c)
    BY <2>2, ConcatEmptySeq
  <2> QED BY <2>1, <2>2, <2>3 DEF RemoveAt
<1>4. Head(c) \in ToSet(c)
  BY <1>2 DEF ToSet
<1>5. /\ RemoveAt(c, 1) \in Seq(Node) /\ Injective(RemoveAt(c, 1))
      /\ ToSet(RemoveAt(c, 1)) = ToSet(c) \ {c[1]}
  BY <1>2, PlaceRemoved
<1> QED BY <1>2, <1>3, <1>4, <1>5

\* A search finds the first node with the key, if there is one.
LEMMA FirstWithFacts ==
  ASSUME NEW c \in Seq(Node), NEW k, \E n \in ToSet(c) : KeyOf[n] = k
  PROVE  FirstWith(c, k) \in DOMAIN c /\ KeyOf[c[FirstWith(c, k)]] = k
<1>1. DOMAIN c = 1 .. Len(c) /\ Len(c) \in Nat
  BY LenProperties
<1>2. PICK T : T = {j \in DOMAIN c : KeyOf[c[j]] = k}
  OBVIOUS
<1>3. T \subseteq Nat /\ T # {}
  BY <1>1, <1>2 DEF ToSet
<1>4. PICK j \in T : \A i \in T : ~(<<i, j>> \in OpToRel(<, Nat))
  BY <1>3, NatLessThanWellFounded, WFMin
<1>5. \A i \in T : ~(i < j)
  BY <1>3, <1>4 DEF OpToRel
<1>6. \A i \in 1 .. j - 1 : KeyOf[c[i]] # k
  BY <1>1, <1>2, <1>5
<1>7. j \in DOMAIN c /\ KeyOf[c[j]] = k
  BY <1>2
<1> QED BY <1>6, <1>7 DEF FirstWith
-----------------------------------------------------------------------------
(***************************************************************************)
(* Buckets                                                                 *)
(***************************************************************************)

\* The nodes of a table are those of its chains.
LEMMA NodesInChains ==
  ASSUME NEW b, NEW n
  PROVE  n \in NodesIn(b) <=> \E i \in DOMAIN b : n \in ToSet(b[i])
BY DEF NodesIn

\* h % buckets.size() is the number of a bucket, if there is one.
LEMMA SlotFacts ==
  ASSUME NEW b, BucketsOK(b), b # << >>, NEW n \in Node
  PROVE  /\ Slot(b, KeyOf[n]) \in DOMAIN b
         /\ Chain(b, KeyOf[n]) \in Seq(Node)
<1>1. PICK m \in Nat \ {0} : m = Len(b) /\ DOMAIN b = 1 .. m
  BY EmptySeq, LenProperties DEF BucketsOK
<1>2. PICK h \in Nat : h = HashOf[KeyOf[n]]
  BY KeyAssumption
<1>3. h % m \in 0 .. m - 1
  BY SMT
<1>4. Slot(b, KeyOf[n]) = (h % m) + 1
  BY <1>1, <1>2 DEF Slot
<1>5. Slot(b, KeyOf[n]) \in DOMAIN b
  BY <1>1, <1>3, <1>4
<1>6. b[Slot(b, KeyOf[n])] \in Seq(Node)
  BY <1>1, <1>5, ElementOfSeq DEF BucketsOK
<1> QED BY <1>5, <1>6 DEF Chain

\* Each node of a table is in the chain a search for its key looks at.
LEMMA FoundInChain ==
  ASSUME NEW b, Good(b), NEW n \in NodesIn(b)
  PROVE  /\ n \in Node
         /\ Slot(b, KeyOf[n]) \in DOMAIN b
         /\ n \in ToSet(Chain(b, KeyOf[n]))
<1>1. PICK i \in DOMAIN b : n \in ToSet(b[i])
  BY NodesInChains
<1>2. i = Slot(b, KeyOf[n])
  BY <1>1 DEF Good, Placed
<1>3. b[i] \in Seq(Node)
  BY LenProperties, ElementOfSeq DEF Good, BucketsOK
<1>4. n \in Node
  <2>1. DOMAIN b[i] = 1 .. Len(b[i])
    BY <1>3, LenProperties
  <2> QED BY <1>1, <1>3, <2>1, ElementOfSeq DEF ToSet
<1> QED BY <1>1, <1>2, <1>4 DEF Chain

\* A table in which one chain is replaced by another for the same hashes.
LEMMA ChainReplaced ==
  ASSUME NEW b, Good(b), NEW i \in DOMAIN b, NEW c \in Seq(Node), Injective(c),
         \A n \in ToSet(c) : i = Slot(b, KeyOf[n])
  PROVE  /\ Good([b EXCEPT ![i] = c])
         /\ Len([b EXCEPT ![i] = c]) = Len(b)
         /\ DOMAIN [b EXCEPT ![i] = c] = DOMAIN b
         /\ NodesIn([b EXCEPT ![i] = c]) = (NodesIn(b) \ ToSet(b[i])) \cup ToSet(c)
<1>1. PICK e : e = [b EXCEPT ![i] = c]
  OBVIOUS
<1>2. b \in Seq(Seq(Node)) /\ DOMAIN b = 1 .. Len(b) /\ i \in 1 .. Len(b)
  BY LenProperties DEF Good, BucketsOK
<1>3. e \in Seq(Seq(Node)) /\ Len(e) = Len(b) /\ DOMAIN e = DOMAIN b
  <2>1. e \in Seq(Seq(Node)) /\ Len(e) = Len(b)
    BY <1>1, <1>2, ExceptSeq
  <2> QED BY <1>1, <2>1
<1>4. \A j \in DOMAIN b : e[j] = IF j = i THEN c ELSE b[j]
  BY <1>1
<1>5. \A k : Slot(e, k) = Slot(b, k)
  BY <1>3 DEF Slot
<1>6. Placed(e)
  BY <1>3, <1>4, <1>5 DEF Placed, Good
<1>7. \A j \in DOMAIN e : Injective(e[j])
  BY <1>3, <1>4 DEF Good
<1>8. ASSUME NEW n
      PROVE  n \in NodesIn(e) <=> n \in (NodesIn(b) \ ToSet(b[i])) \cup ToSet(c)
  <2>1. \A j \in DOMAIN b : n \in ToSet(b[j]) /\ n \in ToSet(b[i]) => j = i
    BY DEF Good, Placed
  <2>2. n \in NodesIn(e) <=> \E j \in DOMAIN b : n \in ToSet(e[j])
    BY <1>3, NodesInChains
  <2>3. n \in NodesIn(b) <=> \E j \in DOMAIN b : n \in ToSet(b[j])
    BY NodesInChains
  <2> QED BY <1>4, <2>1, <2>2, <2>3
<1> QED BY <1>1, <1>3, <1>6, <1>7, <1>8 DEF Good, BucketsOK

\* A new node at the head of the chain of its hash.
LEMMA PutFacts ==
  ASSUME NEW b, Good(b), b # << >>, NEW n \in Node, n \notin NodesIn(b)
  PROVE  /\ Good(Put(b, n))
         /\ Len(Put(b, n)) = Len(b)
         /\ NodesIn(Put(b, n)) = NodesIn(b) \cup {n}
<1>1. PICK i : i = Slot(b, KeyOf[n]) /\ i \in DOMAIN b /\ b[i] \in Seq(Node)
  BY SlotFacts DEF Good, Chain
<1>2. n \notin ToSet(b[i]) /\ Injective(b[i]) /\ ToSet(b[i]) \subseteq NodesIn(b)
  BY <1>1, NodesInChains DEF Good
<1>3. PICK c : c = <<n>> \o b[i]
  OBVIOUS
<1>4. c \in Seq(Node) /\ Injective(c) /\ ToSet(c) = ToSet(b[i]) \cup {n}
  BY <1>1, <1>2, <1>3, HeadAdded
<1>5. \A m \in ToSet(c) : i = Slot(b, KeyOf[m])
  BY <1>1, <1>4 DEF Good, Placed
<1>6. PICK e : e = [b EXCEPT ![i] = c]
  OBVIOUS
<1>7. Put(b, n) = e
  BY <1>1, <1>3, <1>6 DEF Put
<1>8. Good(b) /\ i \in DOMAIN b
  BY <1>1
<1>9. Good(e) /\ Len(e) = Len(b) /\ NodesIn(e) = (NodesIn(b) \ ToSet(b[i])) \cup ToSet(c)
  BY ZenonT(40), <1>4, <1>5, <1>6, <1>8, ChainReplaced
<1>10. NodesIn(e) = NodesIn(b) \cup {n}
  BY <1>2, <1>4, <1>9
<1> QED BY <1>7, <1>9, <1>10

\* The chain a rehash takes a node from.
LEMMA HeadTakenFacts ==
  ASSUME NEW b, Good(b), NEW i \in DOMAIN b, b[i] # << >>
  PROVE  /\ Head(b[i]) \in NodesIn(b) /\ Head(b[i]) \in Node
         /\ Good([b EXCEPT ![i] = Tail(@)])
         /\ NodesIn([b EXCEPT ![i] = Tail(@)]) = NodesIn(b) \ {Head(b[i])}
<1>1. b[i] \in Seq(Node) /\ Injective(b[i]) /\ ToSet(b[i]) \subseteq NodesIn(b)
  BY LenProperties, ElementOfSeq, NodesInChains DEF Good, BucketsOK
<1>2. /\ Head(b[i]) \in ToSet(b[i]) /\ Head(b[i]) \in Node
      /\ Tail(b[i]) \in Seq(Node) /\ Injective(Tail(b[i]))
      /\ ToSet(Tail(b[i])) = ToSet(b[i]) \ {Head(b[i])}
  BY <1>1, HeadRemoved
<1>3. \A m \in ToSet(Tail(b[i])) : i = Slot(b, KeyOf[m])
  BY <1>2 DEF Good, Placed
<1>4. [b EXCEPT ![i] = Tail(@)] = [b EXCEPT ![i] = Tail(b[i])]
  OBVIOUS
<1>5. /\ Good([b EXCEPT ![i] = Tail(b[i])])
      /\ NodesIn([b EXCEPT ![i] = Tail(b[i])]) = (NodesIn(b) \ ToSet(b[i])) \cup ToSet(Tail(b[i]))
  BY ZenonT(40), <1>2, <1>3, ChainReplaced
<1> QED BY <1>1, <1>2, <1>4, <1>5

\* The removal of the node that a search for a key finds.
LEMMA ErasedFacts ==
  ASSUME NEW d, Good(d.buckets), d.buckets # << >>, NEW x \in Node,
         Present(d.buckets, KeyOf[x])
  PROVE  \E n \in NodesIn(d.buckets) :
           /\ KeyOf[n] = KeyOf[x]
           /\ Good(Erased(d, KeyOf[x]).buckets)
           /\ Len(Erased(d, KeyOf[x]).buckets) = Len(d.buckets)
           /\ NodesIn(Erased(d, KeyOf[x]).buckets) = NodesIn(d.buckets) \ {n}
<1>1. PICK b, k : b = d.buckets /\ k = KeyOf[x]
  OBVIOUS
<1>2. PICK i : i = Slot(b, k) /\ i \in DOMAIN b /\ b[i] \in Seq(Node) /\ b[i] = Chain(b, k)
  BY <1>1, SlotFacts DEF Good, Chain
<1>3. Injective(b[i]) /\ ToSet(b[i]) \subseteq NodesIn(b)
  BY <1>1, <1>2, NodesInChains DEF Good
<1>4. PICK j : j = FirstWith(b[i], k) /\ j \in DOMAIN b[i] /\ KeyOf[b[i][j]] = k
  BY <1>1, <1>2, FirstWithFacts DEF Present
<1>5. PICK c : c = RemoveAt(b[i], j)
  OBVIOUS
<1>6. c \in Seq(Node) /\ Injective(c) /\ ToSet(c) = ToSet(b[i]) \ {b[i][j]}
  BY <1>2, <1>3, <1>4, <1>5, PlaceRemoved
<1>7. \A m \in ToSet(c) : i = Slot(b, KeyOf[m])
  BY <1>1, <1>2, <1>6 DEF Good, Placed
<1>8. Erased(d, k).buckets = [b EXCEPT ![i] = c]
  BY <1>1, <1>2, <1>4, <1>5 DEF Erased, Unchain
<1>9. b[i][j] \in ToSet(b[i]) /\ b[i][j] \in NodesIn(b)
  BY <1>3, <1>4 DEF ToSet
<1>10. PICK e : e = [b EXCEPT ![i] = c]
  OBVIOUS
<1>11. Good(b) /\ i \in DOMAIN b
  BY <1>1, <1>2
<1>12. Good(e) /\ Len(e) = Len(b) /\ NodesIn(e) = (NodesIn(b) \ ToSet(b[i])) \cup ToSet(c)
  BY ZenonT(40), <1>6, <1>7, <1>10, <1>11, ChainReplaced
<1>13. NodesIn(e) = NodesIn(b) \ {b[i][j]}
  BY <1>3, <1>6, <1>9, <1>12
<1> QED BY <1>1, <1>4, <1>8, <1>9, <1>10, <1>12, <1>13

\* A table's nodes are finitely many.
LEMMA NodesFinite ==
  ASSUME NEW b, Good(b)
  PROVE  /\ NodesIn(b) \subseteq Node
         /\ IsFiniteSet(NodesIn(b))
         /\ Cardinality(NodesIn(b)) \in Nat
<1>1. NodesIn(b) \subseteq Node
  BY FoundInChain
<1>2. NodesIn(b) \in SUBSET Node
  BY <1>1
<1>3. IsFiniteSet(NodesIn(b))
  BY <1>2, NodeAssumption, FS_Subset
<1> QED BY <1>1, <1>3, FS_CardinalityType

\* Buckets without nodes: those of a new table, and the vector that is empty.
LEMMA NoBucketsFacts ==
  ASSUME NEW count \in Nat
  PROVE  /\ Good(NoBuckets(count))
         /\ NodesIn(NoBuckets(count)) = {}
         /\ Len(NoBuckets(count)) = count
         /\ DOMAIN NoBuckets(count) = 1 .. count
         /\ \A i \in 1 .. count : NoBuckets(count)[i] = << >>
<1>1. PICK b : b = NoBuckets(count)
  OBVIOUS
<1>2. << >> \in Seq(Node) /\ Len(<< >>) = 0
  BY EmptySeq
<1>3. \A i \in DOMAIN b : b[i] = << >>
  BY <1>1 DEF NoBuckets
<1>4. b \in Seq(Seq(Node)) /\ Len(b) = count /\ DOMAIN b = 1 .. count
  <2>1. \A i \in 1 .. count : << >> \in Seq(Node)
    BY <1>2
  <2> QED BY <1>1, <2>1, IsASeq, LenProperties DEF NoBuckets
<1>5. ToSet(<< >>) = {} /\ Injective(<< >>)
  BY <1>2 DEF ToSet, Injective
<1>6. Placed(b) /\ NodesIn(b) = {} /\ \A i \in DOMAIN b : Injective(b[i])
  BY <1>3, <1>5 DEF Placed, NodesIn
<1> QED BY <1>1, <1>3, <1>4, <1>6 DEF Good, BucketsOK

LEMMA NoneMade == Good(<< >>) /\ NodesIn(<< >>) = {} /\ Len(<< >>) = 0
<1>1. NoBuckets(0) = << >>
  BY NoBucketsFacts, EmptySeq DEF Good, BucketsOK
<1> QED BY <1>1, NoBucketsFacts
-----------------------------------------------------------------------------
(***************************************************************************)
(* The invariant                                                           *)
(***************************************************************************)

\* No node is in two chains, of one object, of two, or of an object and of the
\* buckets in the making.
Held(t, b) ==
  /\ t = [o \in Obj |-> t[o]]
  /\ \A o \in Obj : /\ t[o] = [buckets |-> t[o].buckets, size |-> t[o].size]
                    /\ t[o].size \in Nat
                    /\ Good(t[o].buckets)
  /\ Good(b)
  /\ \A o, p \in Obj : o # p => NodesIn(t[o].buckets) \cap NodesIn(t[p].buckets) = {}
  /\ \A o \in Obj : NodesIn(t[o].buckets) \cap NodesIn(b) = {}

\* size_ is the number of elements, in the middle of a rehash too.
Counted == \A o \in Obj : table[o].size = Cardinality(Elems(o))

\* The chains made so far have the keys of the beginnings of their sources.
Twins(b, c) ==
  /\ Len(c) = Len(b)
  /\ \A i \in DOMAIN b : /\ Len(c[i]) <= Len(b[i])
                         /\ \A j \in DOMAIN c[i] : KeyOf[c[i][j]] = KeyOf[b[i][j]]

\* What the loop that runs has made.
LoopOK ==
  /\ pc \in {"idle", "rehash", "copy"} /\ self \in Obj /\ from \in Obj
  /\ pc = "idle" => made = << >>
  /\ pc = "rehash" => made # << >>
  /\ pc = "copy" => from # self /\ Twins(table[from].buckets, made)

IInv == Held(table, made) /\ Counted /\ LoopOK

Shown == [o \in Obj |-> Elems(o)]
-----------------------------------------------------------------------------
\* One object gets another table.
LEMMA HeldOne ==
  ASSUME NEW t, NEW b, Held(t, b), NEW o \in Obj, NEW d, NEW c,
         d = [buckets |-> d.buckets, size |-> d.size], d.size \in Nat,
         Good(d.buckets), Good(c),
         NodesIn(d.buckets) \cap NodesIn(c) = {},
         \A p \in Obj \ {o} : /\ NodesIn(d.buckets) \cap NodesIn(t[p].buckets) = {}
                              /\ NodesIn(c) \cap NodesIn(t[p].buckets) = {}
  PROVE  Held([t EXCEPT ![o] = d], c)
<1>1. PICK u : u = [t EXCEPT ![o] = d]
  OBVIOUS
<1>2. DOMAIN t = Obj
  BY DEF Held
<1>3. u = [p \in Obj |-> u[p]] /\ \A p \in Obj : u[p] = IF p = o THEN d ELSE t[p]
  BY <1>1, <1>2
<1>4. \A p \in Obj : /\ u[p] = [buckets |-> u[p].buckets, size |-> u[p].size]
                     /\ u[p].size \in Nat
                     /\ Good(u[p].buckets)
  BY <1>3 DEF Held
<1>5. ASSUME NEW p \in Obj, NEW q \in Obj, p # q
      PROVE  NodesIn(u[p].buckets) \cap NodesIn(u[q].buckets) = {}
  <2>1. CASE p = o
    BY <1>3, <1>5, <2>1
  <2>2. CASE q = o
    BY <1>3, <1>5, <2>2
  <2>3. CASE p # o /\ q # o
    BY <1>3, <1>5, <2>3 DEF Held
  <2> QED BY <2>1, <2>2, <2>3
<1>6. \A p \in Obj : NodesIn(u[p].buckets) \cap NodesIn(c) = {}
  BY <1>3
<1>7. Held(u, c)
  BY <1>3, <1>4, <1>5, <1>6, Zenon DEF Held
<1> QED BY <1>1, <1>7

\* Two objects get each other's nodes, or one of them none.
LEMMA HeldTwo ==
  ASSUME NEW t, NEW b, Held(t, b), NEW o \in Obj, NEW p \in Obj \ {o}, NEW d, NEW e,
         d = [buckets |-> d.buckets, size |-> d.size], d.size \in Nat, Good(d.buckets),
         e = [buckets |-> e.buckets, size |-> e.size], e.size \in Nat, Good(e.buckets),
         NodesIn(d.buckets) \subseteq NodesIn(t[p].buckets),
         NodesIn(e.buckets) \subseteq NodesIn(t[o].buckets)
  PROVE  Held([t EXCEPT ![o] = d, ![p] = e], b)
<1>1. PICK u : u = [t EXCEPT ![o] = d, ![p] = e]
  OBVIOUS
<1>2. DOMAIN t = Obj
  BY DEF Held
<1>3. /\ u = [q \in Obj |-> u[q]]
      /\ \A q \in Obj : u[q] = IF q = p THEN e ELSE IF q = o THEN d ELSE t[q]
  BY <1>1, <1>2
<1>4. \A q \in Obj : /\ u[q] = [buckets |-> u[q].buckets, size |-> u[q].size]
                     /\ u[q].size \in Nat
                     /\ Good(u[q].buckets)
  BY <1>3 DEF Held
<1>5. PICK h : h = [q \in Obj |-> IF q = o THEN p ELSE IF q = p THEN o ELSE q]
  OBVIOUS
<1>6. \A q \in Obj : h[q] \in Obj /\ NodesIn(u[q].buckets) \subseteq NodesIn(t[h[q]].buckets)
  BY <1>3, <1>5
<1>7. \A q, r \in Obj : q # r => h[q] # h[r]
  BY <1>5
<1>8. ASSUME NEW q \in Obj, NEW r \in Obj, q # r
      PROVE  NodesIn(u[q].buckets) \cap NodesIn(u[r].buckets) = {}
  <2>1. h[q] \in Obj /\ h[r] \in Obj /\ h[q] # h[r]
    BY <1>6, <1>7, <1>8
  <2>2. NodesIn(t[h[q]].buckets) \cap NodesIn(t[h[r]].buckets) = {}
    BY <2>1 DEF Held
  <2>3. /\ NodesIn(u[q].buckets) \subseteq NodesIn(t[h[q]].buckets)
        /\ NodesIn(u[r].buckets) \subseteq NodesIn(t[h[r]].buckets)
    BY <1>6
  <2> QED BY <2>2, <2>3
<1>9. \A q \in Obj : NodesIn(u[q].buckets) \cap NodesIn(b) = {}
  BY <1>6 DEF Held
<1>10. Good(b)
  BY DEF Held
<1>11. Held(u, b)
  BY <1>3, <1>4, <1>8, <1>9, <1>10, Zenon DEF Held
<1> QED BY <1>1, <1>11
-----------------------------------------------------------------------------
(***************************************************************************)
(* The calls                                                               *)
(***************************************************************************)

\* Between two calls.
LEMMA AtRest ==
  ASSUME IInv, Idle
  PROVE  /\ made = << >>
         /\ Held(table, << >>)
         /\ \A o \in Obj : /\ Elems(o) = NodesIn(table[o].buckets)
                           /\ Shown[o] = NodesIn(table[o].buckets)
                           /\ table[o].size = Cardinality(NodesIn(table[o].buckets))
                           /\ table[o].size \in Nat
                           /\ Good(table[o].buckets)
                           /\ table[o] = [buckets |-> table[o].buckets, size |-> table[o].size]
<1>1. pc # "rehash"
  BY DEF Idle
<1>2. made = << >> /\ Held(table, made)
  BY DEF IInv, LoopOK, Idle
<1>3. \A o \in Obj : Elems(o) = NodesIn(table[o].buckets)
  BY <1>1 DEF Elems
<1>4. \A o \in Obj : /\ table[o].size \in Nat
                     /\ Good(table[o].buckets)
                     /\ table[o] = [buckets |-> table[o].buckets, size |-> table[o].size]
  BY <1>2 DEF Held
<1> QED BY <1>2, <1>3, <1>4, Zenon DEF IInv, Counted, Shown

\* A call that ends, or begins a loop.
LEMMA Settled ==
  ASSUME Held(table', made'), NodesIn(made') = {}, LoopOK',
         \A o \in Obj : table'[o].size = Cardinality(NodesIn(table'[o].buckets))
  PROVE  /\ IInv'
         /\ \A o \in Obj : Shown'[o] = NodesIn(table'[o].buckets)
         /\ Shown' = [o \in Obj |-> NodesIn(table'[o].buckets)]
<1>1. \A o \in Obj : Elems(o)' = NodesIn(table'[o].buckets)
  BY DEF Elems
<1>2. Counted'
  BY <1>1 DEF Counted
<1>3. IInv'
  BY <1>2 DEF IInv
<1> QED BY <1>1, <1>3 DEF Shown

\* An object with a number of buckets and no node.
LEMMA EmptyFacts ==
  ASSUME NEW count \in Nat, NEW d, d = EmptyTable(count)
  PROVE  /\ d = [buckets |-> d.buckets, size |-> d.size] /\ d.size = 0
         /\ Good(d.buckets) /\ NodesIn(d.buckets) = {} /\ Len(d.buckets) = count
         /\ d.size = Cardinality(NodesIn(d.buckets))
BY NoBucketsFacts, FS_EmptySet DEF EmptyTable

\* The node an insert gets, and the keys it may have.
LEMMA AllocatedFacts ==
  ASSUME IInv, NEW k, FreeFor(k) # {}
  PROVE  /\ Allocated(k) \in Node /\ KeyOf[Allocated(k)] = k
         /\ Allocated(k) \notin NodesIn(made)
         /\ \A o \in Obj : /\ Allocated(k) \notin NodesIn(table[o].buckets)
                           /\ Allocated(k) \notin Shown[o]
<1>1. Allocated(k) \in FreeFor(k)
  BY DEF Allocated
<1>2. Allocated(k) \in Node /\ KeyOf[Allocated(k)] = k /\ Allocated(k) \notin InUse
  BY <1>1 DEF FreeFor
<1>3. /\ Allocated(k) \notin NodesIn(made)
      /\ \A o \in Obj : Allocated(k) \notin NodesIn(table[o].buckets)
  BY <1>2 DEF InUse
<1>4. \A o \in Obj : Allocated(k) \notin Shown[o]
  BY <1>3 DEF Shown, Elems
<1> QED BY <1>2, <1>3, <1>4

\* Without a node, a key is in no chain of the bucket it has.
LEMMA PresentFacts ==
  ASSUME NEW b, Good(b), b # << >>, NEW x \in Node
  PROVE  Present(b, KeyOf[x]) <=> \E n \in NodesIn(b) : KeyOf[n] = KeyOf[x]
<1>1. Slot(b, KeyOf[x]) \in DOMAIN b
  BY SlotFacts DEF Good
<1>2. \A n \in NodesIn(b) : KeyOf[n] = KeyOf[x] => n \in ToSet(Chain(b, KeyOf[x]))
  BY FoundInChain
<1>3. \A n \in ToSet(Chain(b, KeyOf[x])) : n \in NodesIn(b)
  BY <1>1, NodesInChains DEF Chain
<1> QED BY <1>2, <1>3 DEF Present

\* insert adds one new element, and does with unique keys only if there is none.
LEMMA InsertStep ==
  ASSUME IInv, NEW o \in Obj, NEW k \in Keys, Insert(o, k)
  PROVE  IInv' /\ \E e \in Node : Abstract!Insert(o, e)
<1>1. PICK x : x = Allocated(k)
  OBVIOUS
<1>2. /\ x \in Node /\ KeyOf[x] = k /\ x \notin NodesIn(made)
      /\ \A p \in Obj : x \notin NodesIn(table[p].buckets) /\ x \notin Shown[p]
  BY <1>1, AllocatedFacts DEF Insert
<1>3. PICK b, d : /\ b = table[o].buckets
                  /\ d = [buckets |-> Put(b, x), size |-> table[o].size + 1]
  OBVIOUS
<1>4. /\ Idle /\ b # << >> /\ (Unique => ~Present(b, k))
      /\ table' = [table EXCEPT ![o] = d]
      /\ IF TooFull(d) THEN Loop("rehash", o, o, 2 * Len(d.buckets)) ELSE Stay
  BY <1>1, <1>3 DEF Insert
<1>5. /\ Held(table, << >>) /\ made = << >>
      /\ \A p \in Obj : /\ Shown[p] = NodesIn(table[p].buckets)
                        /\ table[p].size = Cardinality(NodesIn(table[p].buckets))
                        /\ table[p].size \in Nat
                        /\ Good(table[p].buckets)
  BY <1>4, AtRest
<1>6. Good(b) /\ x \notin NodesIn(b)
  BY <1>2, <1>3, <1>5
<1>7. PICK c : c = Put(b, x)
  OBVIOUS
<1>8. Good(c) /\ NodesIn(c) = NodesIn(b) \cup {x} /\ Len(c) = Len(b)
  BY <1>2, <1>4, <1>6, <1>7, PutFacts
<1>9. d = [buckets |-> d.buckets, size |-> d.size] /\ d.buckets = c /\ d.size = table[o].size + 1
  BY <1>3, <1>7
<1>10. d.size \in Nat /\ d.size = Cardinality(NodesIn(d.buckets))
  <2>1. IsFiniteSet(NodesIn(b)) /\ table[o].size = Cardinality(NodesIn(b))
    BY <1>3, <1>5, <1>6, NodesFinite
  <2>2. Cardinality(NodesIn(c)) = Cardinality(NodesIn(b)) + 1
    BY <1>6, <1>8, <2>1, FS_AddElement
  <2> QED BY <1>5, <1>9, <2>1, <2>2
<1>11. Len(c) \in Nat \ {0}
  BY <1>4, <1>6, <1>8, EmptySeq, LenProperties DEF Good, BucketsOK
<1>12. Good(made') /\ NodesIn(made') = {} /\ LoopOK'
  <2>1. CASE TooFull(d)
    <3>1. /\ pc' = "rehash" /\ self' = o /\ from' = o
          /\ made' = NoBuckets(2 * Len(c))
      BY <1>4, <1>9, <2>1 DEF Loop
    <3>2. 2 * Len(c) \in Nat /\ 2 * Len(c) # 0
      BY <1>11
    <3>3. Good(made') /\ NodesIn(made') = {} /\ made' # << >>
      BY <3>1, <3>2, NoBucketsFacts, EmptySeq
    <3> QED BY <3>1, <3>3 DEF LoopOK
  <2>2. CASE ~TooFull(d)
    <3>1. pc' = pc /\ self' = self /\ from' = from /\ made' = << >>
      BY <1>4, <1>5, <2>2 DEF Stay
    <3>2. pc = "idle" /\ self \in Obj /\ from \in Obj
      BY <1>4 DEF Idle, IInv, LoopOK
    <3> QED BY <3>1, <3>2, NoneMade DEF LoopOK
  <2> QED BY <2>1, <2>2
<1>13. DOMAIN table = Obj
  BY <1>5 DEF Held
<1>14. \A p \in Obj : table'[p] = IF p = o THEN d ELSE table[p]
  BY <1>4, <1>13
<1>15. Held(table', made')
  <2>1. \A p \in Obj \ {o} : NodesIn(d.buckets) \cap NodesIn(table[p].buckets) = {}
    <3>1. SUFFICES ASSUME NEW p \in Obj \ {o}
                   PROVE  NodesIn(d.buckets) \cap NodesIn(table[p].buckets) = {}
      OBVIOUS
    <3>2. NodesIn(b) \cap NodesIn(table[p].buckets) = {}
      BY <1>3, <1>5 DEF Held
    <3> QED BY <1>2, <1>8, <1>9, <3>2
  <2>2. \A p \in Obj \ {o} : NodesIn(made') \cap NodesIn(table[p].buckets) = {}
    BY <1>12
  <2>3. Good(d.buckets) /\ NodesIn(d.buckets) \cap NodesIn(made') = {}
    BY <1>8, <1>9, <1>12
  <2>4. Held([table EXCEPT ![o] = d], made')
    BY <1>5, <1>9, <1>10, <1>12, <2>1, <2>2, <2>3, HeldOne
  <2> QED BY <1>4, <2>4
<1>16. \A p \in Obj : table'[p].size = Cardinality(NodesIn(table'[p].buckets))
  BY <1>5, <1>10, <1>14
<1>17. IInv' /\ Shown' = [p \in Obj |-> NodesIn(table'[p].buckets)]
  BY <1>12, <1>15, <1>16, Settled
<1>18. Shown' = [Shown EXCEPT ![o] = Shown[o] \cup {x}]
  <2>1. \A p \in Obj : NodesIn(table'[p].buckets) =
                         IF p = o THEN Shown[o] \cup {x} ELSE Shown[p]
    BY <1>3, <1>5, <1>8, <1>9, <1>14
  <2> QED BY <1>17, <2>1 DEF Shown
<1>19. x \in Node \ UNION {Shown[p] : p \in Obj}
  BY <1>2
<1>20. Unique => {e \in Shown[o] : KeyOf[e] = KeyOf[x]} = {}
  BY <1>2, <1>3, <1>4, <1>5, <1>6, PresentFacts
<1>21. Abstract!Insert(o, x)
  BY <1>18, <1>19, <1>20 DEF Abstract!Insert, Abstract!Free, Abstract!With, Shown
<1> QED BY <1>2, <1>17, <1>21

\* rehash begins with all nodes in the old buckets.
LEMMA RehashStep ==
  ASSUME IInv, NEW o \in Obj, NEW count \in Rehashes, Rehash(o, count)
  PROVE  IInv' /\ Shown' = Shown
<1>1. /\ Held(table, << >>)
      /\ \A p \in Obj : /\ Shown[p] = NodesIn(table[p].buckets)
                        /\ table[p].size = Cardinality(NodesIn(table[p].buckets))
  BY AtRest DEF Rehash
<1>2. /\ pc' = "rehash" /\ self' = o /\ from' = o /\ made' = NoBuckets(count)
      /\ table' = table /\ count \in Nat /\ count # 0
  BY CountAssumption DEF Rehash, Loop
<1>3. Good(made') /\ NodesIn(made') = {} /\ made' # << >>
  BY <1>2, NoBucketsFacts, EmptySeq
<1>4. LoopOK'
  BY <1>2, <1>3 DEF LoopOK
<1>5. Held(table', made')
  BY <1>1, <1>2, <1>3 DEF Held
<1>6. IInv' /\ Shown' = [p \in Obj |-> NodesIn(table'[p].buckets)]
  BY <1>1, <1>2, <1>3, <1>4, <1>5, Settled
<1>7. Shown' = Shown
  BY <1>1, <1>2, <1>6 DEF Shown
<1> QED BY <1>6, <1>7

\* One node goes from the old buckets to the new ones.
LEMMA RehashNodeStep ==
  ASSUME IInv, RehashNode
  PROVE  IInv' /\ Shown' = Shown
<1>1. PICK b : b = table[self].buckets
  OBVIOUS
<1>2. /\ pc = "rehash" /\ self \in Obj /\ from \in Obj /\ made # << >>
      /\ Held(table, made) /\ Good(made) /\ Good(b) /\ NodesIn(b) \cap NodesIn(made) = {}
      /\ pc' = pc /\ self' = self /\ from' = from
  BY <1>1 DEF RehashNode, IInv, LoopOK, Held
<1>3. PICK i \in DOMAIN b : /\ b[i] # << >>
                            /\ made' = Put(made, Head(b[i]))
                            /\ table' = [table EXCEPT ![self] = WithoutHead(@, i)]
  BY <1>1 DEF RehashNode, PutInNew
<1>4. PICK n : n = Head(b[i])
  OBVIOUS
<1>5. PICK e : e = [b EXCEPT ![i] = Tail(@)]
  OBVIOUS
<1>6. n \in NodesIn(b) /\ n \in Node /\ Good(e) /\ NodesIn(e) = NodesIn(b) \ {n}
  BY <1>2, <1>3, <1>4, <1>5, HeadTakenFacts
<1>7. /\ Good(made') /\ Len(made') = Len(made)
      /\ NodesIn(made') = NodesIn(made) \cup {n}
  <2>1. made' = Put(made, n) /\ n \notin NodesIn(made)
    BY <1>2, <1>3, <1>4, <1>6
  <2> QED BY <1>2, <1>6, <2>1, PutFacts
<1>8. PICK d : d = [buckets |-> e, size |-> table[self].size]
  OBVIOUS
<1>9. /\ d = [buckets |-> d.buckets, size |-> d.size] /\ d.buckets = e
      /\ d.size = table[self].size /\ d.size \in Nat
  BY <1>2, <1>8 DEF Held
<1>10. /\ DOMAIN table = Obj /\ self \in DOMAIN table
       /\ table[self] = [buckets |-> table[self].buckets, size |-> table[self].size]
  BY <1>1, <1>2 DEF Held
<1>11. table' = [table EXCEPT ![self] = d]
  BY <1>1, <1>2, <1>3, <1>5, <1>8, <1>10 DEF WithoutHead
<1>12. \A p \in Obj : table'[p] = IF p = self THEN d ELSE table[p]
  BY <1>10, <1>11
<1>13. Held(table', made')
  <2>1. ASSUME NEW p \in Obj \ {self}
        PROVE  /\ NodesIn(d.buckets) \cap NodesIn(table[p].buckets) = {}
               /\ NodesIn(made') \cap NodesIn(table[p].buckets) = {}
    <3>1. /\ NodesIn(b) \cap NodesIn(table[p].buckets) = {}
          /\ NodesIn(made) \cap NodesIn(table[p].buckets) = {}
      BY <1>1, <1>2 DEF Held
    <3> QED BY <1>6, <1>7, <1>9, <3>1
  <2>2. Good(d.buckets) /\ NodesIn(d.buckets) \cap NodesIn(made') = {}
    BY <1>2, <1>6, <1>7, <1>9
  <2>3. Held([table EXCEPT ![self] = d], made')
    BY <1>2, <1>7, <1>9, <2>1, <2>2, HeldOne
  <2> QED BY <1>11, <2>3
<1>14. \A p \in Obj : Elems(p)' = Elems(p)
  <2>1. ASSUME NEW p \in Obj, p = self
        PROVE  Elems(p)' = Elems(p)
    <3>1. Elems(p) = NodesIn(b) \cup NodesIn(made)
      BY <1>1, <1>2, <2>1 DEF Elems
    <3>2. Elems(p)' = NodesIn(e) \cup NodesIn(made')
      BY <1>2, <1>9, <1>12, <2>1 DEF Elems
    <3> QED BY <1>6, <1>7, <3>1, <3>2
  <2>2. ASSUME NEW p \in Obj, p # self
        PROVE  Elems(p)' = Elems(p)
    BY <1>2, <1>12, <2>2 DEF Elems
  <2> QED BY <2>1, <2>2
<1>15. Counted'
  <2>1. \A p \in Obj : table'[p].size = table[p].size
    BY <1>9, <1>12
  <2> QED BY <1>14, <2>1 DEF IInv, Counted
<1>16. LoopOK'
  <2>1. made' # << >>
    BY <1>2, <1>7, EmptySeq DEF Good, BucketsOK
  <2> QED BY <1>2, <2>1 DEF LoopOK
<1>17. Shown' = Shown
  BY <1>14 DEF Shown
<1> QED BY <1>13, <1>15, <1>16, <1>17 DEF IInv

\* rehash ends when no node is left in the old buckets.
LEMMA RehashDoneStep ==
  ASSUME IInv, RehashDone
  PROVE  IInv' /\ Shown' = Shown
<1>1. /\ pc = "rehash" /\ self \in Obj /\ Held(table, made) /\ Good(made)
      /\ NodesIn(table[self].buckets) = {}
      /\ table' = [table EXCEPT ![self] = [buckets |-> made, size |-> @.size]]
      /\ pc' = "idle" /\ self' = Caller /\ from' = Caller /\ made' = << >>
  BY DEF RehashDone, Return, IInv, LoopOK, Held
<1>2. PICK d : d = [buckets |-> made, size |-> table[self].size]
  OBVIOUS
<1>3. /\ d = [buckets |-> d.buckets, size |-> d.size] /\ d.buckets = made
      /\ d.size = table[self].size /\ d.size \in Nat
  BY <1>1, <1>2 DEF Held
<1>4. /\ DOMAIN table = Obj /\ self \in DOMAIN table
      /\ table[self] = [buckets |-> table[self].buckets, size |-> table[self].size]
  BY <1>1 DEF Held
<1>5. table' = [table EXCEPT ![self] = d]
  BY <1>1, <1>2, <1>4
<1>6. \A p \in Obj : table'[p] = IF p = self THEN d ELSE table[p]
  BY <1>4, <1>5
<1>7. Held(table', made')
  <2>1. \A p \in Obj \ {self} : /\ NodesIn(d.buckets) \cap NodesIn(table[p].buckets) = {}
                                /\ NodesIn(<< >>) \cap NodesIn(table[p].buckets) = {}
    BY <1>1, <1>3, NoneMade DEF Held
  <2>2. Held([table EXCEPT ![self] = d], << >>)
    BY <1>1, <1>3, <2>1, NoneMade, HeldOne
  <2> QED BY <1>1, <1>5, <2>2
<1>8. \A p \in Obj : Elems(p) = NodesIn(table'[p].buckets)
  BY <1>1, <1>3, <1>6 DEF Elems
<1>9. \A p \in Obj : table'[p].size = Cardinality(NodesIn(table'[p].buckets))
  <2>1. \A p \in Obj : table'[p].size = table[p].size
    BY <1>3, <1>6
  <2> QED BY <1>8, <2>1 DEF IInv, Counted
<1>10. LoopOK'
  <2>1. Caller \in Obj
    BY <1>1 DEF Caller
  <2> QED BY <1>1, <2>1 DEF LoopOK
<1>11. IInv' /\ Shown' = [p \in Obj |-> NodesIn(table'[p].buckets)]
  BY <1>1, <1>7, <1>9, <1>10, NoneMade, Settled
<1> QED BY <1>8, <1>11 DEF Shown

\* A loop that is left by an exception takes nothing with it.
LEMMA LoopLeft ==
  ASSUME IInv, NodesIn(made) = {} \/ pc # "rehash", Return, UNCHANGED table
  PROVE  IInv' /\ Shown' = Shown
<1>1. /\ Held(table, made) /\ pc' = "idle" /\ made' = << >> /\ table' = table
      /\ self' = Caller /\ from' = Caller /\ self \in Obj
  BY DEF IInv, LoopOK, Return
<1>2. \A p \in Obj : Elems(p) = NodesIn(table[p].buckets)
  BY DEF Elems
<1>3. Held(table', made')
  BY <1>1, NoneMade DEF Held
<1>4. LoopOK'
  <2>1. Caller \in Obj
    BY <1>1 DEF Caller
  <2> QED BY <1>1, <2>1 DEF LoopOK
<1>5. \A p \in Obj : table'[p].size = Cardinality(NodesIn(table'[p].buckets))
  BY <1>1, <1>2 DEF IInv, Counted
<1>6. IInv' /\ Shown' = [p \in Obj |-> NodesIn(table'[p].buckets)]
  BY <1>1, <1>3, <1>4, <1>5, NoneMade, Settled
<1> QED BY <1>1, <1>2, <1>6 DEF Shown

\* An object whose nodes become fewer between two calls.
LEMMA Shrinks ==
  ASSUME IInv, Idle, NEW o \in Obj, NEW d,
         d = [buckets |-> d.buckets, size |-> d.size], Good(d.buckets),
         d.size = Cardinality(NodesIn(d.buckets)),
         NodesIn(d.buckets) \subseteq NodesIn(table[o].buckets),
         table' = [table EXCEPT ![o] = d], Stay
  PROVE  IInv' /\ Shown' = [Shown EXCEPT ![o] = NodesIn(d.buckets)]
<1>1. /\ made = << >> /\ Held(table, << >>)
      /\ \A p \in Obj : /\ Shown[p] = NodesIn(table[p].buckets)
                        /\ table[p].size = Cardinality(NodesIn(table[p].buckets))
  BY AtRest
<1>2. /\ pc' = "idle" /\ self' = self /\ from' = from /\ made' = << >>
      /\ self \in Obj /\ from \in Obj
  BY <1>1 DEF Stay, Idle, IInv, LoopOK
<1>3. DOMAIN table = Obj
  BY <1>1 DEF Held
<1>4. \A p \in Obj : table'[p] = IF p = o THEN d ELSE table[p]
  BY <1>3
<1>5. d.size \in Nat
  BY NodesFinite
<1>6. Held(table', made')
  <2>1. ASSUME NEW p \in Obj \ {o}
        PROVE  /\ NodesIn(d.buckets) \cap NodesIn(table[p].buckets) = {}
               /\ NodesIn(<< >>) \cap NodesIn(table[p].buckets) = {}
    <3>1. NodesIn(table[o].buckets) \cap NodesIn(table[p].buckets) = {}
      BY <1>1 DEF Held
    <3> QED BY <3>1, NoneMade
  <2>2. Good(<< >>) /\ NodesIn(d.buckets) \cap NodesIn(<< >>) = {}
    BY NoneMade
  <2>3. Held([table EXCEPT ![o] = d], << >>)
    BY <1>1, <1>5, <2>1, <2>2, HeldOne
  <2> QED BY <1>2, <2>3
<1>7. \A p \in Obj : table'[p].size = Cardinality(NodesIn(table'[p].buckets))
  BY <1>1, <1>4
<1>8. LoopOK'
  BY <1>2 DEF LoopOK
<1>9. IInv' /\ Shown' = [p \in Obj |-> NodesIn(table'[p].buckets)]
  BY <1>2, <1>6, <1>7, <1>8, NoneMade, Settled
<1>10. \A p \in Obj : NodesIn(table'[p].buckets) = IF p = o THEN NodesIn(d.buckets) ELSE Shown[p]
  BY <1>1, <1>4
<1> QED BY <1>9, <1>10 DEF Shown

\* A function with other values at two places.
Both(f, o, p, x, y) == [f EXCEPT ![o] = x, ![p] = y]

\* Two objects of which one gets the other's nodes between two calls.
LEMMA Exchanged ==
  ASSUME IInv, Idle, NEW o \in Obj, NEW p \in Obj \ {o}, NEW d, NEW e,
         d = [buckets |-> d.buckets, size |-> d.size], Good(d.buckets),
         d.size = Cardinality(NodesIn(d.buckets)),
         e = [buckets |-> e.buckets, size |-> e.size], Good(e.buckets),
         e.size = Cardinality(NodesIn(e.buckets)),
         NodesIn(d.buckets) \subseteq NodesIn(table[p].buckets),
         NodesIn(e.buckets) \subseteq NodesIn(table[o].buckets),
         table' = Both(table, o, p, d, e), Stay
  PROVE  IInv' /\ Shown' = Both(Shown, o, p, NodesIn(d.buckets), NodesIn(e.buckets))
<1>1. /\ made = << >> /\ Held(table, << >>)
      /\ \A q \in Obj : /\ Shown[q] = NodesIn(table[q].buckets)
                        /\ table[q].size = Cardinality(NodesIn(table[q].buckets))
  BY AtRest
<1>2. /\ pc' = "idle" /\ self' = self /\ from' = from /\ made' = << >>
      /\ self \in Obj /\ from \in Obj
  BY <1>1 DEF Stay, Idle, IInv, LoopOK
<1>3. DOMAIN table = Obj
  BY <1>1 DEF Held
<1>4. \A q \in Obj : table'[q] = IF q = p THEN e ELSE IF q = o THEN d ELSE table[q]
  BY <1>3 DEF Both
<1>5. d.size \in Nat /\ e.size \in Nat
  BY NodesFinite
<1>6. Held(table', made')
  <2>1. Held([table EXCEPT ![o] = d, ![p] = e], << >>)
    BY <1>1, <1>5, HeldTwo
  <2> QED BY <1>2, <2>1 DEF Both
<1>7. \A q \in Obj : table'[q].size = Cardinality(NodesIn(table'[q].buckets))
  BY <1>1, <1>4
<1>8. LoopOK'
  BY <1>2 DEF LoopOK
<1>9. IInv' /\ Shown' = [q \in Obj |-> NodesIn(table'[q].buckets)]
  BY <1>2, <1>6, <1>7, <1>8, NoneMade, Settled
<1>10. /\ NodesIn(table'[p].buckets) = NodesIn(e.buckets)
       /\ NodesIn(table'[o].buckets) = NodesIn(d.buckets)
       /\ \A q \in Obj \ {o, p} : NodesIn(table'[q].buckets) = Shown[q]
  BY <1>1, <1>4
<1>11. DOMAIN Shown = Obj
  BY DEF Shown
<1> QED BY <1>9, <1>10, <1>11 DEF Both

\* erase removes one element with the key, where there is one.
LEMMA EraseStep ==
  ASSUME IInv, NEW o \in Obj, NEW k \in Keys, Erase(o, k)
  PROVE  IInv' /\ Abstract!Erase(o, k)
<1>1. PICK x \in Node : KeyOf[x] = k
  BY DEF Keys
<1>2. PICK d, e : d = table[o] /\ e = Erased(d, k)
  OBVIOUS
<1>3. /\ Idle /\ Stay /\ d.buckets # << >> /\ Present(d.buckets, KeyOf[x])
      /\ table' = [table EXCEPT ![o] = e]
  BY <1>1, <1>2 DEF Erase
<1>4. /\ Shown[o] = NodesIn(d.buckets) /\ Good(d.buckets)
      /\ d.size = Cardinality(NodesIn(d.buckets))
  BY <1>2, <1>3, AtRest
<1>5. PICK n \in NodesIn(d.buckets) : /\ KeyOf[n] = k
                                      /\ Good(e.buckets)
                                      /\ NodesIn(e.buckets) = NodesIn(d.buckets) \ {n}
  BY ZenonT(40), <1>1, <1>2, <1>3, <1>4, ErasedFacts
<1>6. e = [buckets |-> e.buckets, size |-> e.size] /\ e.size = d.size - 1
  BY <1>2 DEF Erased
<1>7. e.size = Cardinality(NodesIn(e.buckets))
  <2>1. IsFiniteSet(NodesIn(d.buckets)) /\ Cardinality(NodesIn(d.buckets)) \in Nat
    BY <1>4, NodesFinite
  <2>2. Cardinality(NodesIn(e.buckets)) = Cardinality(NodesIn(d.buckets)) - 1
    BY ZenonT(40), <1>5, <2>1, FS_RemoveElement
  <2> QED BY <1>4, <1>6, <2>1, <2>2
<1>8. NodesIn(e.buckets) \subseteq NodesIn(table[o].buckets)
  BY <1>2, <1>5
<1>9. IInv' /\ Shown' = [Shown EXCEPT ![o] = NodesIn(e.buckets)]
  BY <1>3, <1>5, <1>6, <1>7, <1>8, Shrinks
<1>10. Shown' = [Shown EXCEPT ![o] = Shown[o] \ {n}] /\ n \in {m \in Shown[o] : KeyOf[m] = k}
  BY <1>4, <1>5, <1>9
<1> QED BY <1>9, <1>10 DEF Abstract!Erase, Abstract!With, Shown

\* clear keeps the buckets and none of the nodes.
LEMMA ClearStep ==
  ASSUME IInv, NEW o \in Obj, Clear(o)
  PROVE  IInv' /\ Abstract!Clear(o)
<1>1. PICK e : e = EmptyTable(Len(table[o].buckets))
  OBVIOUS
<1>2. Idle /\ Stay /\ table' = [table EXCEPT ![o] = e]
  BY <1>1 DEF Clear, Emptied
<1>3. Len(table[o].buckets) \in Nat
  BY <1>2, AtRest, LenProperties DEF Good, BucketsOK
<1>4. /\ e = [buckets |-> e.buckets, size |-> e.size] /\ Good(e.buckets)
      /\ NodesIn(e.buckets) = {} /\ e.size = Cardinality(NodesIn(e.buckets))
  BY <1>1, <1>3, EmptyFacts
<1>5. NodesIn(e.buckets) \subseteq NodesIn(table[o].buckets)
  BY <1>4
<1>6. IInv' /\ Shown' = [Shown EXCEPT ![o] = NodesIn(e.buckets)]
  BY <1>2, <1>4, <1>5, Shrinks
<1> QED BY <1>4, <1>6 DEF Abstract!Clear, Shown

\* A move leaves an empty table behind, whatever number of buckets it has.
LEMMA MovedStep ==
  ASSUME IInv, Idle, NEW o \in Obj, NEW p \in Obj \ {o}, NEW count \in Nat,
         table' = [table EXCEPT ![o] = table[p], ![p] = EmptyTable(count)], Stay
  PROVE  IInv' /\ Abstract!Move(o, p)
<1>1. PICK d, e : d = table[p] /\ e = EmptyTable(count)
  OBVIOUS
<1>2. /\ d = [buckets |-> d.buckets, size |-> d.size] /\ Good(d.buckets)
      /\ d.size = Cardinality(NodesIn(d.buckets)) /\ Shown[p] = NodesIn(d.buckets)
  BY <1>1, AtRest
<1>3. /\ e = [buckets |-> e.buckets, size |-> e.size] /\ Good(e.buckets)
      /\ NodesIn(e.buckets) = {} /\ e.size = Cardinality(NodesIn(e.buckets))
  BY <1>1, EmptyFacts
<1>4. /\ NodesIn(d.buckets) \subseteq NodesIn(table[p].buckets)
      /\ NodesIn(e.buckets) \subseteq NodesIn(table[o].buckets)
  BY <1>1, <1>3
<1>5. table' = Both(table, o, p, d, e)
  BY <1>1 DEF Both
<1>6. IInv' /\ Shown' = Both(Shown, o, p, NodesIn(d.buckets), NodesIn(e.buckets))
  BY <1>2, <1>3, <1>4, <1>5, Exchanged
<1>7. Shown' = [Shown EXCEPT ![o] = Shown[p], ![p] = {}]
  BY <1>2, <1>3, <1>6 DEF Both
<1> QED BY <1>6, <1>7 DEF Abstract!Move, Shown

\* swap exchanges the nodes with their buckets.
LEMMA SwapStep ==
  ASSUME IInv, NEW o \in Obj, NEW p \in Obj \ {o}, Swap(o, p)
  PROVE  IInv' /\ Abstract!Swap(o, p)
<1>1. PICK d, e : d = table[p] /\ e = table[o]
  OBVIOUS
<1>2. Idle /\ Stay /\ table' = [table EXCEPT ![o] = d, ![p] = e]
  BY <1>1 DEF Swap
<1>3. /\ d = [buckets |-> d.buckets, size |-> d.size] /\ Good(d.buckets)
      /\ d.size = Cardinality(NodesIn(d.buckets)) /\ Shown[p] = NodesIn(d.buckets)
      /\ e = [buckets |-> e.buckets, size |-> e.size] /\ Good(e.buckets)
      /\ e.size = Cardinality(NodesIn(e.buckets)) /\ Shown[o] = NodesIn(e.buckets)
  BY <1>1, <1>2, AtRest
<1>4. /\ NodesIn(d.buckets) \subseteq NodesIn(table[p].buckets)
      /\ NodesIn(e.buckets) \subseteq NodesIn(table[o].buckets)
  BY <1>1
<1>5. table' = Both(table, o, p, d, e)
  BY <1>2 DEF Both
<1>6. IInv' /\ Shown' = Both(Shown, o, p, NodesIn(d.buckets), NodesIn(e.buckets))
  BY <1>2, <1>3, <1>4, <1>5, Exchanged
<1>7. Shown' = [Shown EXCEPT ![o] = Shown[p], ![p] = Shown[o]]
  BY <1>3, <1>6 DEF Both
<1> QED BY <1>6, <1>7 DEF Abstract!Swap, Shown
-----------------------------------------------------------------------------
(***************************************************************************)
(* Copies                                                                  *)
(***************************************************************************)

\* The nodes of chains of the same lengths and keys go together in pairs.
LEMMA TwinMap ==
  ASSUME NEW b, Good(b), NEW c, Good(c), Twins(b, c),
         \A i \in DOMAIN c : Len(c[i]) = Len(b[i])
  PROVE  \E f \in Bijection(NodesIn(b), NodesIn(c)) :
           \A n \in NodesIn(b) : KeyOf[f[n]] = KeyOf[n]
<1>1. PICK S : S = NodesIn(b)
  OBVIOUS
<1>2. PICK T : T = NodesIn(c)
  OBVIOUS
<1>3. DOMAIN c = DOMAIN b
  BY LenProperties DEF Twins, Good, BucketsOK
<1>4. \A i \in DOMAIN b : /\ b[i] \in Seq(Node) /\ c[i] \in Seq(Node)
                          /\ DOMAIN c[i] = DOMAIN b[i]
                          /\ Injective(b[i]) /\ Injective(c[i])
  <2>1. \A i \in DOMAIN b : b[i] \in Seq(Node) /\ c[i] \in Seq(Node)
    BY <1>3, LenProperties, ElementOfSeq DEF Good, BucketsOK
  <2> QED BY <1>3, <2>1, LenProperties DEF Good
<1>5. \A i \in DOMAIN b : \A j \in DOMAIN b[i] :
        /\ i = Slot(b, KeyOf[b[i][j]]) /\ i = Slot(c, KeyOf[c[i][j]])
        /\ b[i][j] \in NodesIn(b) /\ c[i][j] \in NodesIn(c)
        /\ KeyOf[c[i][j]] = KeyOf[b[i][j]]
  <2>1. SUFFICES ASSUME NEW i \in DOMAIN b, NEW j \in DOMAIN b[i]
                 PROVE  /\ i = Slot(b, KeyOf[b[i][j]]) /\ i = Slot(c, KeyOf[c[i][j]])
                        /\ b[i][j] \in NodesIn(b) /\ c[i][j] \in NodesIn(c)
                        /\ KeyOf[c[i][j]] = KeyOf[b[i][j]]
    OBVIOUS
  <2>2. b[i][j] \in ToSet(b[i]) /\ c[i][j] \in ToSet(c[i])
    BY <1>4 DEF ToSet
  <2>3. b[i][j] \in NodesIn(b) /\ c[i][j] \in NodesIn(c)
    BY <1>3, <2>2, NodesInChains
  <2>4. i = Slot(b, KeyOf[b[i][j]]) /\ i = Slot(c, KeyOf[c[i][j]])
    BY <1>3, <2>2 DEF Good, Placed
  <2>5. KeyOf[c[i][j]] = KeyOf[b[i][j]]
    BY <1>4 DEF Twins
  <2> QED BY <2>3, <2>4, <2>5
<1>6. \A n \in NodesIn(b) : \E i \in DOMAIN b : \E j \in DOMAIN b[i] : b[i][j] = n
  BY NodesInChains DEF ToSet
<1>7. \A n \in NodesIn(c) : \E i \in DOMAIN b : \E j \in DOMAIN b[i] : c[i][j] = n
  BY <1>3, <1>4, NodesInChains DEF ToSet
<1>8. PICK f : f = [n \in S |-> CHOOSE m \in T : \E i \in DOMAIN b : \E j \in DOMAIN b[i] :
                                                   b[i][j] = n /\ c[i][j] = m]
  OBVIOUS
<1>9. \A n \in S : f[n] \in T /\ \E i \in DOMAIN b : \E j \in DOMAIN b[i] :
                                   b[i][j] = n /\ c[i][j] = f[n]
  <2>1. SUFFICES ASSUME NEW n \in S
                 PROVE  \E m \in T : \E i \in DOMAIN b : \E j \in DOMAIN b[i] :
                          b[i][j] = n /\ c[i][j] = m
    BY <1>8
  <2>2. PICK i \in DOMAIN b : \E j \in DOMAIN b[i] : b[i][j] = n
    BY <1>1, <1>6
  <2>3. PICK j \in DOMAIN b[i] : b[i][j] = n
    BY <2>2
  <2>4. c[i][j] \in T
    BY <1>1, <1>2, <1>5, <2>3
  <2> QED BY <2>3, <2>4
<1>10. f \in [S -> T]
  BY <1>8, <1>9
<1>11. \A n, m \in S : f[n] = f[m] => n = m
  <2>1. SUFFICES ASSUME NEW n \in S, NEW m \in S, f[n] = f[m]
                 PROVE  n = m
    OBVIOUS
  <2>2. PICK i \in DOMAIN b : \E j \in DOMAIN b[i] : b[i][j] = n /\ c[i][j] = f[n]
    BY <1>9
  <2>3. PICK j \in DOMAIN b[i] : b[i][j] = n /\ c[i][j] = f[n]
    BY <2>2
  <2>4. PICK h \in DOMAIN b : \E l \in DOMAIN b[h] : b[h][l] = m /\ c[h][l] = f[m]
    BY <1>9
  <2>5. PICK l \in DOMAIN b[h] : b[h][l] = m /\ c[h][l] = f[m]
    BY <2>4
  <2>6. h = i
    <3>1. h = Slot(c, KeyOf[c[h][l]]) /\ i = Slot(c, KeyOf[c[i][j]])
      BY <1>5
    <3> QED BY <2>1, <2>3, <2>5, <3>1
  <2>7. l = j
    BY <1>4, <2>1, <2>3, <2>5, <2>6 DEF Injective
  <2> QED BY <2>3, <2>5, <2>6, <2>7
<1>12. \A m \in T : \E n \in S : f[n] = m
  <2>1. SUFFICES ASSUME NEW m \in T
                 PROVE  \E n \in S : f[n] = m
    OBVIOUS
  <2>2. PICK i \in DOMAIN b : \E j \in DOMAIN b[i] : c[i][j] = m
    BY <1>2, <1>7
  <2>3. PICK j \in DOMAIN b[i] : c[i][j] = m
    BY <2>2
  <2>4. PICK n : n = b[i][j]
    OBVIOUS
  <2>5. n \in S
    BY <1>1, <1>2, <1>5, <2>3, <2>4
  <2>6. PICK h \in DOMAIN b : \E l \in DOMAIN b[h] : b[h][l] = n /\ c[h][l] = f[n]
    BY <1>9, <2>5
  <2>7. PICK l \in DOMAIN b[h] : b[h][l] = n /\ c[h][l] = f[n]
    BY <2>6
  <2>8. h = i
    <3>1. h = Slot(b, KeyOf[b[h][l]]) /\ i = Slot(b, KeyOf[b[i][j]])
      BY <1>5
    <3> QED BY <2>4, <2>7, <3>1
  <2>9. l = j
    BY <1>4, <2>4, <2>7, <2>8 DEF Injective
  <2> QED BY <2>3, <2>5, <2>7, <2>8, <2>9
<1>13. f \in Bijection(S, T)
  BY <1>10, <1>11, <1>12, Fun_IsBij
<1>14. \A n \in S : KeyOf[f[n]] = KeyOf[n]
  BY <1>5, <1>9
<1> QED BY <1>1, <1>2, <1>13, <1>14

\* A copy begins with buckets of the source's number.
LEMMA CopyCallStep ==
  ASSUME IInv, NEW o \in Obj, NEW p \in Obj \ {o}, CopyCall(o, p)
  PROVE  IInv' /\ Shown' = Shown
<1>1. PICK b : b = table[p].buckets
  OBVIOUS
<1>2. /\ Held(table, << >>) /\ Good(b)
      /\ \A q \in Obj : /\ Shown[q] = NodesIn(table[q].buckets)
                        /\ table[q].size = Cardinality(NodesIn(table[q].buckets))
  BY <1>1, AtRest DEF CopyCall
<1>3. DOMAIN b = 1 .. Len(b) /\ Len(b) \in Nat /\ \A i \in DOMAIN b : Len(b[i]) \in Nat
  BY <1>2, LenProperties, ElementOfSeq DEF Good, BucketsOK
<1>4. PICK c : c = NoBuckets(Len(b))
  OBVIOUS
<1>5. /\ pc' = "copy" /\ self' = o /\ from' = p /\ made' = c /\ table' = table
  BY <1>1, <1>4 DEF CopyCall, Loop
<1>6. /\ Good(c) /\ NodesIn(c) = {} /\ Len(c) = Len(b) /\ DOMAIN c = DOMAIN b
      /\ \A i \in DOMAIN b : c[i] = << >>
  BY <1>3, <1>4, NoBucketsFacts
<1>7. Twins(b, c)
  <2>1. Len(<< >>) = 0 /\ DOMAIN << >> = {}
    BY EmptySeq
  <2> QED BY <1>3, <1>6, <2>1 DEF Twins
<1>8. LoopOK'
  BY <1>1, <1>5, <1>7 DEF LoopOK
<1>9. Held(table', made')
  BY <1>2, <1>5, <1>6 DEF Held
<1>10. IInv' /\ Shown' = [q \in Obj |-> NodesIn(table'[q].buckets)]
  BY <1>2, <1>5, <1>6, <1>8, <1>9, Settled
<1>11. Shown' = Shown
  BY <1>2, <1>5, <1>10 DEF Shown
<1> QED BY <1>10, <1>11

\* A node with the key of the next node of the source joins the copy of its chain.
LEMMA CopyNodeStep ==
  ASSUME IInv, CopyNode
  PROVE  IInv' /\ Shown' = Shown
<1>1. PICK b, g : b = table[from].buckets /\ g = made
  OBVIOUS
<1>2. /\ pc = "copy" /\ self \in Obj /\ from \in Obj /\ from # self /\ Twins(b, made)
      /\ Held(table, made) /\ Good(made) /\ Good(b)
      /\ table' = table /\ pc' = pc /\ self' = self /\ from' = from
  BY <1>1 DEF CopyNode, IInv, LoopOK, Held
<1>3. PICK i \in DOMAIN made :
        /\ Len(made[i]) < Len(b[i])
        /\ FreeFor(KeyOf[b[i][Len(made[i]) + 1]]) # {}
        /\ made' = [made EXCEPT ![i] = Append(@, Allocated(KeyOf[b[i][Len(made[i]) + 1]]))]
  BY <1>1 DEF CopyNode, AllToCopy
<1>4. PICK l, s : l = Len(made[i]) + 1 /\ s = b[i][l]
  OBVIOUS
<1>5. PICK x : x = Allocated(KeyOf[s])
  OBVIOUS
<1>6. /\ x \in Node /\ KeyOf[x] = KeyOf[s] /\ x \notin NodesIn(made)
      /\ \A o \in Obj : x \notin NodesIn(table[o].buckets)
  BY <1>3, <1>4, <1>5, AllocatedFacts
<1>7. DOMAIN made = DOMAIN b /\ i \in DOMAIN b
  BY <1>2, LenProperties DEF Twins, Good, BucketsOK
<1>8. /\ made[i] \in Seq(Node) /\ b[i] \in Seq(Node) /\ Injective(made[i])
      /\ Len(made[i]) \in Nat /\ Len(b[i]) \in Nat
      /\ DOMAIN made[i] = 1 .. Len(made[i]) /\ DOMAIN b[i] = 1 .. Len(b[i])
  <2>1. made[i] \in Seq(Node) /\ b[i] \in Seq(Node)
    BY <1>2, <1>7, LenProperties, ElementOfSeq DEF Good, BucketsOK
  <2> QED BY <1>2, <2>1, LenProperties DEF Good
<1>9. i = Slot(b, KeyOf[s])
  <2>1. l \in DOMAIN b[i]
    BY <1>3, <1>4, <1>8
  <2>2. s \in ToSet(b[i])
    BY <1>4, <2>1 DEF ToSet
  <2> QED BY <1>2, <1>7, <2>2 DEF Good, Placed
<1>10. PICK c : c = Append(made[i], x)
  OBVIOUS
<1>11. c \in Seq(Node) /\ Injective(c) /\ ToSet(c) = ToSet(made[i]) \cup {x}
  <2>1. x \notin ToSet(made[i])
    BY <1>6, NodesInChains
  <2> QED BY <1>6, <1>8, <1>10, <2>1, EndAdded
<1>12. \A n \in ToSet(c) : i = Slot(made, KeyOf[n])
  <2>1. \A n \in ToSet(made[i]) : i = Slot(made, KeyOf[n])
    BY <1>2 DEF Good, Placed
  <2>2. i = Slot(made, KeyOf[x])
    BY <1>2, <1>6, <1>9 DEF Slot, Twins
  <2> QED BY <1>11, <2>1, <2>2
<1>13. made' = [made EXCEPT ![i] = c]
  BY <1>3, <1>4, <1>5, <1>10
<1>14. PICK e : e = [made EXCEPT ![i] = c]
  OBVIOUS
<1>15. /\ Good(e) /\ Len(e) = Len(made) /\ made' = e
       /\ NodesIn(e) = (NodesIn(made) \ ToSet(made[i])) \cup ToSet(c)
  <2>1. Good(g) /\ i \in DOMAIN g /\ e = [g EXCEPT ![i] = c]
    BY <1>1, <1>2, <1>14
  <2>2. \A n \in ToSet(c) : i = Slot(g, KeyOf[n])
    BY <1>1, <1>12
  <2>3. /\ Good(e) /\ Len(e) = Len(g)
        /\ NodesIn(e) = (NodesIn(g) \ ToSet(g[i])) \cup ToSet(c)
    BY ZenonT(40), <1>11, <2>1, <2>2, ChainReplaced
  <2> QED BY <1>1, <1>13, <1>14, <2>3
<1>16. NodesIn(e) = NodesIn(made) \cup {x}
  <2>1. ToSet(made[i]) \subseteq NodesIn(made)
    BY NodesInChains
  <2> QED BY <1>11, <1>15, <2>1
<1>17. Twins(b, e)
  <2>1. /\ Len(c) = l /\ c[l] = x /\ DOMAIN c = 1 .. l
        /\ \A j \in DOMAIN made[i] : c[j] = made[i][j]
    BY <1>4, <1>6, <1>8, <1>10, <1>11, AppendProperties, LenProperties
  <2>2. Len(c) <= Len(b[i])
    BY <1>3, <1>4, <1>8, <2>1
  <2>3. \A j \in DOMAIN c : KeyOf[c[j]] = KeyOf[b[i][j]]
    <3>1. SUFFICES ASSUME NEW j \in DOMAIN c
                   PROVE  KeyOf[c[j]] = KeyOf[b[i][j]]
      OBVIOUS
    <3>2. CASE j = l
      BY <1>4, <1>6, <2>1, <3>2
    <3>3. CASE j # l
      <4>1. j \in DOMAIN made[i]
        BY <1>4, <1>8, <2>1, <3>3
      <4> QED BY <1>2, <1>7, <2>1, <4>1 DEF Twins
    <3> QED BY <3>2, <3>3
  <2>4. \A h \in DOMAIN b : e[h] = IF h = i THEN c ELSE made[h]
    BY <1>7, <1>14
  <2> QED BY <1>2, <1>15, <2>2, <2>3, <2>4 DEF Twins
<1>18. Held(table', made')
  <2>1. \A o \in Obj : NodesIn(table[o].buckets) \cap NodesIn(e) = {}
    <3>1. \A o \in Obj : NodesIn(table[o].buckets) \cap NodesIn(made) = {}
      BY <1>2 DEF Held
    <3> QED BY <1>6, <1>16, <3>1
  <2>2. Held(table, e)
    BY <1>2, <1>15, <2>1 DEF Held
  <2> QED BY <1>2, <1>15, <2>2
<1>19. \A o \in Obj : Elems(o)' = Elems(o)
  BY <1>2 DEF Elems
<1>20. Counted' /\ Shown' = Shown
  BY <1>2, <1>19 DEF IInv, Counted, Shown
<1>21. LoopOK'
  BY <1>1, <1>2, <1>15, <1>17 DEF LoopOK
<1> QED BY <1>18, <1>20, <1>21 DEF IInv

\* A finished copy has as many nodes of every key as its source; the nodes the
\* object had before are free.
LEMMA CopyDoneStep ==
  ASSUME IInv, CopyDone
  PROVE  /\ IInv'
         /\ Abstract!Copy(self, from)
         /\ table' = [table EXCEPT ![self] = [buckets |-> made, size |-> table[from].size]]
         /\ Len(made) = Len(table[from].buckets)
<1>1. PICK b : b = table[from].buckets
  OBVIOUS
<1>2. /\ pc = "copy" /\ self \in Obj /\ from \in Obj /\ from # self /\ Twins(b, made)
      /\ Held(table, made) /\ Good(made) /\ Good(b)
      /\ \A i \in DOMAIN made : Len(made[i]) = Len(b[i])
      /\ pc' = "idle" /\ self' = Caller /\ from' = Caller /\ made' = << >>
  BY <1>1 DEF CopyDone, AllToCopy, Return, IInv, LoopOK, Held
<1>3. PICK d : d = [buckets |-> made, size |-> Cardinality(NodesIn(made))]
  OBVIOUS
<1>4. /\ d = [buckets |-> d.buckets, size |-> d.size] /\ d.buckets = made
      /\ d.size = Cardinality(NodesIn(d.buckets)) /\ d.size \in Nat
      /\ table' = [table EXCEPT ![self] = d]
  BY <1>2, <1>3, NodesFinite DEF CopyDone
<1>5. DOMAIN table = Obj
  BY <1>2 DEF Held
<1>6. \A p \in Obj : table'[p] = IF p = self THEN d ELSE table[p]
  BY <1>4, <1>5
<1>7. Held(table', made')
  <2>1. \A p \in Obj \ {self} : /\ NodesIn(d.buckets) \cap NodesIn(table[p].buckets) = {}
                                /\ NodesIn(<< >>) \cap NodesIn(table[p].buckets) = {}
    BY <1>2, <1>4, NoneMade DEF Held
  <2>2. Good(<< >>) /\ NodesIn(d.buckets) \cap NodesIn(<< >>) = {} /\ Good(d.buckets)
    BY <1>2, <1>4, NoneMade
  <2>3. Held([table EXCEPT ![self] = d], << >>)
    BY <1>2, <1>4, <2>1, <2>2, HeldOne
  <2> QED BY <1>2, <1>4, <2>3
<1>8. \A p \in Obj : Elems(p) = NodesIn(table[p].buckets) /\ Shown[p] = Elems(p)
  BY <1>2 DEF Elems, Shown
<1>9. \A p \in Obj : table'[p].size = Cardinality(NodesIn(table'[p].buckets))
  <2>1. \A p \in Obj : table[p].size = Cardinality(NodesIn(table[p].buckets))
    BY <1>8 DEF IInv, Counted
  <2> QED BY <1>4, <1>6, <2>1
<1>10. LoopOK'
  <2>1. Caller \in Obj
    BY <1>2 DEF Caller
  <2> QED BY <1>2, <2>1 DEF LoopOK
<1>11. IInv' /\ Shown' = [p \in Obj |-> NodesIn(table'[p].buckets)]
  BY <1>2, <1>7, <1>9, <1>10, NoneMade, Settled
<1>12. PICK S : S = NodesIn(made)
  OBVIOUS
<1>13. Shown' = [Shown EXCEPT ![self] = S]
  <2>1. /\ NodesIn(table'[self].buckets) = S
        /\ \A p \in Obj \ {self} : NodesIn(table'[p].buckets) = Shown[p]
    BY <1>2, <1>4, <1>6, <1>8, <1>12
  <2> QED BY <1>11, <2>1 DEF Shown
<1>14. S \in SUBSET (Node \ UNION {Shown[p] : p \in Obj})
  <2>1. S \subseteq Node
    BY <1>2, <1>12, NodesFinite
  <2>2. \A p \in Obj : S \cap Shown[p] = {}
    BY <1>2, <1>8, <1>12 DEF Held
  <2> QED BY <2>1, <2>2
<1>15. PICK f \in Bijection(NodesIn(b), S) : \A n \in NodesIn(b) : KeyOf[f[n]] = KeyOf[n]
  BY <1>2, <1>12, TwinMap
<1>16. Abstract!Copy(self, from)
  <2>1. NodesIn(b) = Shown[from]
    BY <1>1, <1>2, <1>8
  <2>2. /\ f \in [Shown[from] -> S]
        /\ \A n, m \in Shown[from] : f[n] = f[m] => n = m
        /\ \A m \in S : \E n \in Shown[from] : f[n] = m
    BY <2>1, Fun_BijectionProperties
  <2>3. f \in [Shown[from] -> Abstract!Free]
    BY <1>14, <2>2 DEF Abstract!Free, Shown
  <2>4. S = {f[n] : n \in Shown[from]}
    BY <2>2
  <2>5. Shown' = [Shown EXCEPT ![self] = {f[n] : n \in Shown[from]}]
    BY <1>13, <2>4
  <2>6. \A n \in Shown[from] : KeyOf[f[n]] = KeyOf[n]
    BY <1>15, <2>1
  <2> QED BY <2>2, <2>3, <2>5, <2>6 DEF Abstract!Copy, Shown
<1>17. d.size = table[from].size
  <2>1. ExistsBijection(NodesIn(b), S)
    BY <1>15 DEF ExistsBijection
  <2>2. Cardinality(S) = Cardinality(NodesIn(b))
    BY <1>2, <2>1, NodesFinite, FS_Bijection
  <2> QED BY <1>1, <1>2, <1>4, <1>8, <1>12, <2>2 DEF IInv, Counted
<1>18. Len(made) = Len(table[from].buckets)
  BY <1>1, <1>2 DEF Twins
<1> QED BY <1>3, <1>4, <1>11, <1>16, <1>17, <1>18
-----------------------------------------------------------------------------
(***************************************************************************)
(* The theorems                                                            *)
(***************************************************************************)

\* Every object begins with empty buckets.
LEMMA InitialStep == Init => IInv /\ Abstract!Init
<1> SUFFICES ASSUME Init
             PROVE  IInv /\ Abstract!Init
  OBVIOUS
<1>1. PICK d : d = EmptyTable(BucketCount)
  OBVIOUS
<1>2. /\ d = [buckets |-> d.buckets, size |-> d.size] /\ d.size = 0
      /\ Good(d.buckets) /\ NodesIn(d.buckets) = {}
      /\ d.size = Cardinality(NodesIn(d.buckets))
  BY <1>1, CountAssumption, EmptyFacts
<1>3. /\ table = [o \in Obj |-> d] /\ pc = "idle" /\ made = << >>
      /\ self = Caller /\ from = Caller /\ Caller \in Obj
  BY <1>1, ObjAssumption DEF Init, Caller
<1>4. Held(table, made)
  BY <1>2, <1>3, NoneMade DEF Held
<1>5. \A o \in Obj : Elems(o) = {} /\ table[o].size = Cardinality(Elems(o))
  BY <1>2, <1>3 DEF Elems
<1>6. Counted /\ LoopOK
  BY <1>3, <1>5 DEF Counted, LoopOK
<1>7. Abstract!Init
  BY <1>5 DEF Abstract!Init
<1> QED BY <1>4, <1>6, <1>7 DEF IInv

\* Each step of the table keeps the invariant, and is a step of
\* UnorderedElements or changes nothing a caller is to see.
LEMMA NextStep == IInv /\ [Next]_vars => IInv' /\ [Abstract!Next]_Shown
<1> SUFFICES ASSUME IInv, [Next]_vars
             PROVE  IInv' /\ [Abstract!Next]_Shown
  OBVIOUS
<1>1. ASSUME NEW o \in Obj, NEW k \in Keys, Insert(o, k)
      PROVE  IInv' /\ Abstract!Next
  BY <1>1, InsertStep DEF Abstract!Next
<1>2. ASSUME NEW o \in Obj, NEW k \in Keys, Erase(o, k)
      PROVE  IInv' /\ Abstract!Next
  <2>1. PICK e \in Node : KeyOf[e] = k
    BY DEF Keys
  <2>2. IInv' /\ Abstract!Erase(o, KeyOf[e])
    BY <1>2, <2>1, EraseStep
  <2> QED BY <2>2 DEF Abstract!Next
<1>3. ASSUME NEW o \in Obj, NEW count \in Rehashes, Rehash(o, count)
      PROVE  IInv' /\ Shown' = Shown
  BY <1>3, RehashStep
<1>4. ASSUME NEW o \in Obj, Clear(o)
      PROVE  IInv' /\ Abstract!Next
  BY <1>4, ClearStep DEF Abstract!Next
<1>5. ASSUME NEW o \in Obj, NEW p \in Obj \ {o}, CopyCall(o, p)
      PROVE  IInv' /\ Shown' = Shown
  BY <1>5, CopyCallStep
<1>6. ASSUME NEW o \in Obj, NEW p \in Obj \ {o}, MoveConstruct(o, p)
      PROVE  IInv' /\ Abstract!Next
  <2>1. /\ Idle /\ Stay
        /\ table' = [table EXCEPT ![o] = table[p], ![p] = EmptyTable(0)]
    BY <1>6 DEF MoveConstruct
  <2>2. IInv' /\ Abstract!Move(o, p)
    BY <2>1, MovedStep
  <2> QED BY <2>2 DEF Abstract!Next
<1>7. ASSUME NEW o \in Obj, NEW p \in Obj \ {o}, MoveAssign(o, p)
      PROVE  IInv' /\ Abstract!Next
  <2>1. PICK count : count = Len(table[o].buckets)
    OBVIOUS
  <2>2. /\ Idle /\ Stay
        /\ table' = [table EXCEPT ![o] = table[p], ![p] = EmptyTable(count)]
    BY <1>7, <2>1 DEF MoveAssign, Emptied
  <2>3. count \in Nat
    BY <2>1, <2>2, AtRest, LenProperties DEF Good, BucketsOK
  <2>4. IInv' /\ Abstract!Move(o, p)
    BY <2>2, <2>3, MovedStep
  <2> QED BY <2>4 DEF Abstract!Next
<1>8. ASSUME NEW o \in Obj, NEW p \in Obj \ {o}, Swap(o, p)
      PROVE  IInv' /\ Abstract!Next
  BY <1>8, SwapStep DEF Abstract!Next
<1>9. CASE RehashNode
  BY <1>9, RehashNodeStep
<1>10. CASE RehashDone
  BY <1>10, RehashDoneStep
<1>11. CASE RehashThrows
  BY <1>11, LoopLeft DEF RehashThrows
<1>12. CASE CopyNode
  BY <1>12, CopyNodeStep
<1>13. CASE CopyThrows
  BY <1>13, LoopLeft DEF CopyThrows
<1>14. CASE CopyDone
  <2>1. self \in Obj /\ from \in Obj \ {self}
    BY <1>14 DEF CopyDone, IInv, LoopOK
  <2>2. IInv' /\ Abstract!Copy(self, from)
    BY <1>14, CopyDoneStep
  <2> QED BY <2>1, <2>2 DEF Abstract!Next
<1>15. CASE UNCHANGED vars
  <2>1. /\ table' = table /\ pc' = pc /\ self' = self /\ from' = from /\ made' = made
    BY <1>15 DEF vars
  <2>2. IInv' /\ Shown' = Shown
    BY <2>1 DEF IInv, Counted, LoopOK, Shown, Elems
  <2> QED BY <2>2
<1>16. CASE Next
  BY <1>1, <1>2, <1>3, <1>4, <1>5, <1>6, <1>7, <1>8, <1>9, <1>10, <1>11, <1>12, <1>13, <1>14,
     <1>16, Zenon DEF Next
<1> QED BY <1>15, <1>16

\* The buckets are sequences of chains of nodes, at each step of a loop.
LEMMA Typed == IInv => TypeOK
<1> SUFFICES ASSUME IInv
             PROVE  TypeOK
  OBVIOUS
<1>1. Held(table, made) /\ LoopOK
  BY DEF IInv
<1>2. \A o \in Obj : BucketsOK(table[o].buckets)
  BY <1>1 DEF Held, Good
<1>3. BucketsOK(made)
  BY <1>1 DEF Held, Good
<1> QED BY <1>1, <1>2, <1>3, Zenon DEF TypeOK, Held, LoopOK

\* The buckets hold chains of nodes, whatever is inserted, erased, copied,
\* moved and rehashed, and wherever an allocation throws.
THEOREM TypeCorrect == Spec => []TypeOK
<1>1. IInv /\ [Next]_vars => IInv'
  BY NextStep
<1>2. Init => IInv
  BY InitialStep
<1> QED BY <1>1, <1>2, Typed, PTL DEF Spec

\* A search looks for a key in one bucket only: a node with that key is never in
\* another, before, during and after a rehash or a copy.
THEOREM PlacedAlways == Spec => []EveryNodePlaced
<1>1. IInv => EveryNodePlaced
  BY DEF IInv, Held, Good, EveryNodePlaced
<1>2. IInv /\ [Next]_vars => IInv'
  BY NextStep
<1>3. Init => IInv
  BY InitialStep
<1> QED BY <1>1, <1>2, <1>3, PTL DEF Spec

\* The table implements a set of elements per object, unique by key if declared.
THEOREM UnorderedCorrect == Spec => UnorderedSpec
<1>1. IInv /\ [Next]_vars => IInv' /\ [Abstract!Next]_Shown
  BY NextStep
<1>2. Init => IInv /\ Abstract!Init
  BY InitialStep
<1> QED BY <1>1, <1>2, PTL DEF Spec, UnorderedSpec, Abstract!Spec, Shown
-----------------------------------------------------------------------------
(***************************************************************************)
(* The load factor                                                         *)
(***************************************************************************)

\* The number of buckets an object has, or is to have when rehash is over.
Count(o) == IF pc = "rehash" /\ o = self THEN Len(made) ELSE Len(table[o].buckets)

LoadInv == \A o \in Obj : 4 * table[o].size <= 3 * Count(o)

\* The numbers the bound is about.
LEMMA CountTypes ==
  ASSUME IInv
  PROVE  /\ Len(made) \in Nat
         /\ \A o \in Obj : Len(table[o].buckets) \in Nat /\ table[o].size \in Nat
         /\ DOMAIN table = Obj
<1>1. Good(made) /\ \A o \in Obj : Good(table[o].buckets) /\ table[o].size \in Nat
  BY DEF IInv, Held
<1>2. DOMAIN table = Obj
  BY DEF IInv, Held
<1> QED BY <1>1, <1>2, LenProperties DEF Good, BucketsOK

\* A call on one object after which its table is not too full.
LEMMA OneLoaded ==
  ASSUME IInv, LoadInv, Idle, NEW o \in Obj, NEW d,
         table' = [table EXCEPT ![o] = d], pc' = "idle",
         4 * d.size <= 3 * Len(d.buckets)
  PROVE  LoadInv'
<1>1. \A p \in Obj : table'[p] = IF p = o THEN d ELSE table[p]
  BY CountTypes
<1>2. \A p \in Obj : 4 * table[p].size <= 3 * Len(table[p].buckets)
  BY DEF LoadInv, Count, Idle
<1>3. \A p \in Obj : 4 * table'[p].size <= 3 * Len(table'[p].buckets)
  BY <1>1, <1>2
<1> QED BY <1>3 DEF LoadInv, Count

\* A call on two objects after which neither table is too full.
LEMMA TwoLoaded ==
  ASSUME IInv, LoadInv, Idle, NEW o \in Obj, NEW p \in Obj \ {o}, NEW d, NEW e,
         table' = Both(table, o, p, d, e), pc' = "idle",
         4 * d.size <= 3 * Len(d.buckets), 4 * e.size <= 3 * Len(e.buckets)
  PROVE  LoadInv'
<1>1. \A q \in Obj : table'[q] = IF q = p THEN e ELSE IF q = o THEN d ELSE table[q]
  BY CountTypes DEF Both
<1>2. \A q \in Obj : 4 * table[q].size <= 3 * Len(table[q].buckets)
  BY DEF LoadInv, Count, Idle
<1>3. \A q \in Obj : 4 * table'[q].size <= 3 * Len(table'[q].buckets)
  BY <1>1, <1>2
<1> QED BY <1>3 DEF LoadInv, Count

\* insert doubles the buckets of a table that the new node made too full.
LEMMA InsertLoaded ==
  ASSUME IInv, LoadInv, NEW o \in Obj, NEW k \in Keys, Insert(o, k)
  PROVE  LoadInv'
<1>1. PICK b, d : /\ b = table[o].buckets
                  /\ d = [buckets |-> Put(b, Allocated(k)), size |-> table[o].size + 1]
  OBVIOUS
<1>2. /\ Idle /\ b # << >> /\ FreeFor(k) # {}
      /\ table' = [table EXCEPT ![o] = d]
      /\ IF TooFull(d) THEN Loop("rehash", o, o, 2 * Len(d.buckets)) ELSE Stay
  BY <1>1 DEF Insert
<1>3. PICK n : n = Len(b) /\ n \in Nat \ {0} /\ 4 * table[o].size <= 3 * n /\ Good(b)
  <2>1. Good(b) /\ Len(b) \in Nat
    BY <1>1, CountTypes DEF IInv, Held
  <2>2. Len(b) # 0
    BY <1>2, <2>1, EmptySeq DEF Good, BucketsOK
  <2>3. 4 * table[o].size <= 3 * Len(b)
    BY <1>1, <1>2 DEF LoadInv, Count, Idle
  <2> QED BY <2>1, <2>2, <2>3
<1>4. Len(d.buckets) = n /\ d.size = table[o].size + 1 /\ table[o].size \in Nat
  <2>1. PICK x : x = Allocated(k)
    OBVIOUS
  <2>2. x \in Node /\ x \notin NodesIn(b)
    BY <1>1, <1>2, <2>1, AllocatedFacts
  <2>3. Len(Put(b, x)) = Len(b)
    BY <1>2, <1>3, <2>2, PutFacts
  <2> QED BY <1>1, <1>3, <2>1, <2>3, CountTypes
<1>5. CASE TooFull(d)
  <2>1. pc' = "rehash" /\ self' = o /\ made' = NoBuckets(2 * n)
    BY <1>2, <1>4, <1>5 DEF Loop
  <2>2. Len(made') = 2 * n
    <3>1. 2 * n \in Nat
      BY <1>3
    <3> QED BY <2>1, <3>1, NoBucketsFacts
  <2>3. 4 * d.size <= 3 * (2 * n)
    BY <1>3, <1>4
  <2>4. \A p \in Obj : table'[p] = IF p = o THEN d ELSE table[p]
    BY <1>2, CountTypes
  <2>5. \A p \in Obj : 4 * table[p].size <= 3 * Len(table[p].buckets)
    BY <1>2 DEF LoadInv, Count, Idle
  <2>6. ASSUME NEW p \in Obj
        PROVE  4 * table'[p].size <= 3 * Count(p)'
    <3>1. CASE p = o
      BY <2>1, <2>2, <2>3, <2>4, <3>1 DEF Count
    <3>2. CASE p # o
      BY <2>1, <2>4, <2>5, <3>2 DEF Count
    <3> QED BY <3>1, <3>2
  <2> QED BY <2>6 DEF LoadInv
<1>6. CASE ~TooFull(d)
  <2>1. pc' = "idle"
    BY <1>2, <1>6 DEF Stay, Idle
  <2>2. 4 * d.size <= 3 * Len(d.buckets)
    BY <1>3, <1>4, <1>6 DEF TooFull
  <2> QED BY <1>2, <2>1, <2>2, OneLoaded
<1> QED BY <1>5, <1>6

\* Nothing but an explicit rehash, or one that fails, makes a table too full.
LEMMA LoadStep ==
  ASSUME Rehashes = {}, AllocFails = FALSE, IInv, LoadInv, [Next]_vars
  PROVE  LoadInv'
<1>1. ASSUME NEW o \in Obj, NEW k \in Keys, Insert(o, k)
      PROVE  LoadInv'
  BY <1>1, InsertLoaded
<1>2. ASSUME NEW o \in Obj, NEW k \in Keys, Erase(o, k)
      PROVE  LoadInv'
  <2>1. PICK x \in Node : KeyOf[x] = k
    BY DEF Keys
  <2>2. PICK d, e : d = table[o] /\ e = Erased(d, k)
    OBVIOUS
  <2>3. /\ Idle /\ pc' = "idle" /\ d.buckets # << >> /\ Present(d.buckets, KeyOf[x])
        /\ table' = [table EXCEPT ![o] = e]
    BY <1>2, <2>1, <2>2 DEF Erase, Stay, Idle
  <2>4. Good(d.buckets) /\ d.size \in Nat /\ Len(d.buckets) \in Nat
    BY <2>2, <2>3, AtRest, CountTypes
  <2>5. Len(e.buckets) = Len(d.buckets) /\ e.size = d.size - 1
    BY <2>1, <2>2, <2>3, <2>4, ErasedFacts DEF Erased
  <2>6. 4 * d.size <= 3 * Len(d.buckets)
    BY <2>2, <2>3 DEF LoadInv, Count, Idle
  <2>7. 4 * e.size <= 3 * Len(e.buckets)
    BY <2>4, <2>5, <2>6
  <2> QED BY <2>3, <2>7, OneLoaded
<1>3. ASSUME NEW o \in Obj, NEW count \in Nat, Idle, pc' = "idle",
             table' = [table EXCEPT ![o] = EmptyTable(count)]
      PROVE  LoadInv'
  <2>1. PICK e : e = EmptyTable(count)
    OBVIOUS
  <2>2. e.size = 0 /\ Len(e.buckets) = count
    BY <2>1, EmptyFacts
  <2>3. 4 * e.size <= 3 * Len(e.buckets)
    BY <2>2
  <2> QED BY <1>3, <2>1, <2>3, OneLoaded
<1>4. ASSUME NEW o \in Obj, Clear(o)
      PROVE  LoadInv'
  <2>1. Len(table[o].buckets) \in Nat
    BY CountTypes
  <2>2. /\ Idle /\ pc' = "idle"
        /\ table' = [table EXCEPT ![o] = EmptyTable(Len(table[o].buckets))]
    BY <1>4 DEF Clear, Emptied, Stay, Idle
  <2> QED BY <1>3, <2>1, <2>2
<1>5. ASSUME NEW o \in Obj, NEW p \in Obj \ {o}, NEW e, Idle, pc' = "idle",
             table' = [table EXCEPT ![o] = table[p], ![p] = e],
             4 * e.size <= 3 * Len(e.buckets)
      PROVE  LoadInv'
  <2>1. PICK d : d = table[p]
    OBVIOUS
  <2>2. 4 * d.size <= 3 * Len(d.buckets)
    BY <1>5, <2>1 DEF LoadInv, Count, Idle
  <2>3. table' = Both(table, o, p, d, e)
    BY <1>5, <2>1 DEF Both
  <2> QED BY <1>5, <2>2, <2>3, TwoLoaded
<1>6. ASSUME NEW o \in Obj, NEW p \in Obj \ {o}, MoveConstruct(o, p) \/ MoveAssign(o, p)
      PROVE  LoadInv'
  <2>1. PICK count \in Nat : table' = [table EXCEPT ![o] = table[p], ![p] = EmptyTable(count)]
    BY <1>6, CountTypes DEF MoveConstruct, MoveAssign, Emptied
  <2>2. PICK e : e = EmptyTable(count)
    OBVIOUS
  <2>3. e.size = 0 /\ Len(e.buckets) = count
    BY <2>2, EmptyFacts
  <2>4. 4 * e.size <= 3 * Len(e.buckets)
    BY <2>3
  <2>5. Idle /\ pc' = "idle"
    BY <1>6 DEF MoveConstruct, MoveAssign, Stay, Idle
  <2> QED BY <1>5, <2>1, <2>2, <2>4, <2>5
<1>7. ASSUME NEW o \in Obj, NEW p \in Obj \ {o}, Swap(o, p)
      PROVE  LoadInv'
  <2>1. PICK e : e = table[o]
    OBVIOUS
  <2>2. Idle /\ pc' = "idle" /\ table' = [table EXCEPT ![o] = table[p], ![p] = e]
    BY <1>7, <2>1 DEF Swap, Stay, Idle
  <2>3. 4 * e.size <= 3 * Len(e.buckets)
    BY <2>1, <2>2 DEF LoadInv, Count, Idle
  <2> QED BY <1>5, <2>2, <2>3
<1>8. ASSUME NEW o \in Obj, NEW p \in Obj \ {o}, CopyCall(o, p)
      PROVE  LoadInv'
  BY <1>8 DEF CopyCall, Loop, Idle, LoadInv, Count
<1>9. CASE RehashNode
  <2>1. PICK b : b = table[self].buckets
    OBVIOUS
  <2>2. /\ pc = "rehash" /\ pc' = pc /\ self' = self /\ self \in Obj
        /\ Good(b) /\ Good(made) /\ made # << >> /\ NodesIn(b) \cap NodesIn(made) = {}
    BY <1>9, <2>1 DEF RehashNode, IInv, Held, LoopOK
  <2>3. PICK i \in DOMAIN b : /\ b[i] # << >>
                              /\ made' = Put(made, Head(b[i]))
                              /\ table' = [table EXCEPT ![self] = WithoutHead(@, i)]
    BY <1>9, <2>1 DEF RehashNode, PutInNew
  <2>4. PICK n : n = Head(b[i])
    OBVIOUS
  <2>5. n \in Node /\ n \in NodesIn(b)
    BY <2>2, <2>3, <2>4, HeadTakenFacts
  <2>6. Len(made') = Len(made)
    <3>1. n \notin NodesIn(made) /\ made' = Put(made, n)
      BY <2>2, <2>3, <2>4, <2>5
    <3> QED BY <2>2, <2>5, <3>1, PutFacts
  <2>7. /\ table'[self].size = table[self].size
        /\ \A p \in Obj \ {self} : table'[p] = table[p]
    BY <2>2, <2>3, CountTypes DEF WithoutHead
  <2>8. \A p \in Obj : Count(p)' = Count(p) /\ table'[p].size = table[p].size
    BY <2>2, <2>6, <2>7 DEF Count
  <2> QED BY <2>8 DEF LoadInv
<1>10. CASE RehashDone
  <2>1. /\ pc = "rehash" /\ pc' = "idle" /\ self \in Obj
        /\ table' = [table EXCEPT ![self] = [buckets |-> made, size |-> @.size]]
    BY <1>10 DEF RehashDone, Return, IInv, LoopOK
  <2>2. /\ table'[self].size = table[self].size /\ table'[self].buckets = made
        /\ \A p \in Obj \ {self} : table'[p] = table[p]
    BY <2>1, CountTypes
  <2>3. \A p \in Obj : Count(p)' = Count(p) /\ table'[p].size = table[p].size
    BY <2>1, <2>2 DEF Count
  <2> QED BY <2>3 DEF LoadInv
<1>11. CASE CopyNode \/ CopyThrows
  <2>1. pc = "copy" /\ pc' # "rehash" /\ table' = table
    BY <1>11 DEF CopyNode, CopyThrows, Return
  <2> QED BY <2>1 DEF LoadInv, Count
<1>12. CASE CopyDone
  <2>1. /\ pc = "copy" /\ pc' = "idle" /\ self \in Obj /\ from \in Obj
        /\ table' = [table EXCEPT ![self] = [buckets |-> made, size |-> table[from].size]]
        /\ Len(made) = Len(table[from].buckets)
    BY <1>12, CopyDoneStep DEF CopyDone, Return, IInv, LoopOK
  <2>2. /\ table'[self].size = table[from].size /\ table'[self].buckets = made
        /\ \A p \in Obj \ {self} : table'[p] = table[p]
    BY <2>1, CountTypes
  <2>3. \A p \in Obj : 4 * table[p].size <= 3 * Len(table[p].buckets)
    BY <2>1 DEF LoadInv, Count
  <2>4. \A p \in Obj : 4 * table'[p].size <= 3 * Len(table'[p].buckets)
    BY <2>1, <2>2, <2>3
  <2> QED BY <2>1, <2>4 DEF LoadInv, Count
<1>13. CASE UNCHANGED vars
  BY <1>13 DEF vars, LoadInv, Count
<1>14. CASE Next
  BY <1>1, <1>2, <1>4, <1>6, <1>7, <1>8, <1>9, <1>10, <1>11, <1>12, <1>14
     DEF Next, RehashThrows
<1> QED BY <1>13, <1>14

\* If callers leave rehash to the table and no allocation fails, the table is
\* never fuller than max_load_factor between two calls: chains stay short.
THEOREM LoadAlways ==
  ASSUME Rehashes = {}, AllocFails = FALSE
  PROVE  Spec => []LoadBounded
<1>1. IInv /\ LoadInv /\ [Next]_vars => LoadInv'
  BY LoadStep
<1>2. IInv /\ [Next]_vars => IInv'
  BY NextStep
<1>3. Init => IInv /\ LoadInv
  <2>1. Init => LoadInv
    <3>1. SUFFICES ASSUME Init
                   PROVE  LoadInv
      OBVIOUS
    <3>2. PICK d : d = EmptyTable(BucketCount)
      OBVIOUS
    <3>3. d.size = 0 /\ Len(d.buckets) = BucketCount
      BY <3>2, CountAssumption, EmptyFacts
    <3>4. pc = "idle" /\ \A o \in Obj : table[o] = d
      BY <3>1, <3>2 DEF Init
    <3>5. \A o \in Obj : 4 * table[o].size <= 3 * Len(table[o].buckets)
      BY <3>3, <3>4, CountAssumption
    <3> QED BY <3>4, <3>5 DEF LoadInv, Count
  <2> QED BY <2>1, InitialStep
<1>4. LoadInv => LoadBounded
  BY DEF LoadInv, LoadBounded, Count, Idle
<1> QED BY <1>1, <1>2, <1>3, <1>4, PTL DEF Spec
-----------------------------------------------------------------------------
(***************************************************************************)
(* Lookups                                                                 *)
(***************************************************************************)

\* The positions count looks at are as many as the elements with the key.
LEMMA CountFacts ==
  ASSUME NEW b, Good(b), b # << >>, NEW x \in Node, NEW S,
         S = {m \in NodesIn(b) : KeyOf[m] = KeyOf[x]}
  PROVE  CountOf(b, KeyOf[x]) = Cardinality(S)
<1>1. PICK K : K = KeyOf[x]
  OBVIOUS
<1>2. PICK c : c = Chain(b, K)
  OBVIOUS
<1>3. Slot(b, K) \in DOMAIN b /\ c \in Seq(Node)
  BY <1>1, <1>2, SlotFacts DEF Good
<1>4. Injective(c)
  BY <1>2, <1>3 DEF Good, Chain
<1>5. PICK J : J = {j \in DOMAIN c : KeyOf[c[j]] = K}
  OBVIOUS
<1>6. CountOf(b, K) = Cardinality(J)
  BY <1>2, <1>5 DEF CountOf
<1>7. \A j \in J : c[j] \in S
  <2>1. \A j \in DOMAIN c : c[j] \in ToSet(c)
    BY DEF ToSet
  <2>2. \A n \in ToSet(c) : n \in NodesIn(b)
    BY <1>2, <1>3, NodesInChains DEF Chain
  <2> QED BY <1>1, <1>5, <2>1, <2>2
<1>8. \A n \in S : \E j \in J : c[j] = n
  <2>1. \A n \in S : n \in ToSet(c)
    BY <1>1, <1>2, FoundInChain
  <2> QED BY <1>1, <1>5, <2>1 DEF ToSet
<1>9. IsFiniteSet(J)
  <2>1. DOMAIN c = 1 .. Len(c) /\ Len(c) \in Nat
    BY <1>3, LenProperties
  <2>2. IsFiniteSet(DOMAIN c)
    BY <2>1, FS_Interval
  <2> QED BY <1>5, <2>2, FS_Subset
<1>10. ExistsBijection(J, S)
  <2>1. PICK f : f = [j \in J |-> c[j]]
    OBVIOUS
  <2>2. f \in [J -> S]
    BY <1>7, <2>1
  <2>3. \A i, j \in J : f[i] = f[j] => i = j
    BY <1>4, <1>5, <2>1 DEF Injective
  <2>4. \A n \in S : \E j \in J : f[j] = n
    BY <1>8, <2>1
  <2>5. f \in Bijection(J, S)
    BY <2>2, <2>3, <2>4, Fun_IsBij
  <2> QED BY <2>5 DEF ExistsBijection
<1> QED BY <1>1, <1>6, <1>9, <1>10, FS_Bijection

\* find returns an element with the key if there is one, and end() if not.
LEMMA FindFacts ==
  ASSUME NEW b, Good(b), b # << >>, NEW x \in Node, NEW S,
         S = {m \in NodesIn(b) : KeyOf[m] = KeyOf[x]}
  PROVE  IF S = {} THEN Find(b, KeyOf[x]) = End(b) ELSE Find(b, KeyOf[x]).node \in S
<1>1. Present(b, KeyOf[x]) <=> S # {}
  BY PresentFacts
<1>2. CASE S = {}
  BY <1>1, <1>2 DEF Find
<1>3. CASE S # {}
  <2>1. PICK c : c = Chain(b, KeyOf[x])
    OBVIOUS
  <2>2. Slot(b, KeyOf[x]) \in DOMAIN b /\ c \in Seq(Node)
    BY <2>1, SlotFacts DEF Good
  <2>3. \E n \in ToSet(c) : KeyOf[n] = KeyOf[x]
    BY <1>1, <1>3, <2>1 DEF Present
  <2>4. PICK j : j = FirstWith(c, KeyOf[x])
    OBVIOUS
  <2>5. j \in DOMAIN c /\ KeyOf[c[j]] = KeyOf[x]
    BY <2>2, <2>3, <2>4, FirstWithFacts
  <2>6. c[j] \in NodesIn(b)
    <3>1. c[j] \in ToSet(b[Slot(b, KeyOf[x])])
      BY <2>1, <2>5 DEF ToSet, Chain
    <3> QED BY <2>2, <3>1, NodesInChains
  <2>7. Find(b, KeyOf[x]).node = c[j]
    BY <1>1, <1>3, <2>1, <2>4 DEF Find
  <2> QED BY <1>3, <2>5, <2>6, <2>7
<1> QED BY <1>2, <1>3

\* size, count and find tell the truth between two calls, for any hashes and
\* after any rehashing: a node is where a search for its key looks.
THEOREM LookupsCorrect == Spec => []LookupsAgree
<1>1. IInv => LookupsAgree
  <2>1. SUFFICES ASSUME IInv, Idle, NEW o \in Obj
                 PROVE  /\ table[o].size = Cardinality(Elems(o))
                        /\ HasBuckets(o) => \A n \in Node :
                             LET k == KeyOf[n]
                                 same == {m \in Elems(o) : KeyOf[m] = k}
                             IN  /\ CountOf(table[o].buckets, k) = Cardinality(same)
                                 /\ IF same = {} THEN Find(table[o].buckets, k) = End(table[o].buckets)
                                                 ELSE Find(table[o].buckets, k).node \in same
    BY DEF LookupsAgree
  <2>2. PICK b : b = table[o].buckets
    OBVIOUS
  <2>3. Good(b) /\ Elems(o) = NodesIn(b) /\ table[o].size = Cardinality(Elems(o))
    BY <2>1, <2>2, AtRest
  <2>4. ASSUME b # << >>, NEW n \in Node, NEW S, S = {m \in Elems(o) : KeyOf[m] = KeyOf[n]}
        PROVE  /\ CountOf(b, KeyOf[n]) = Cardinality(S)
               /\ IF S = {} THEN Find(b, KeyOf[n]) = End(b) ELSE Find(b, KeyOf[n]).node \in S
    BY <2>3, <2>4, CountFacts, FindFacts
  <2> QED BY <2>2, <2>3, <2>4, Zenon DEF HasBuckets
<1>2. IInv /\ [Next]_vars => IInv'
  BY NextStep
<1>3. Init => IInv
  BY InitialStep
<1> QED BY <1>1, <1>2, <1>3, PTL DEF Spec
-----------------------------------------------------------------------------
(***************************************************************************)
(* Iterators                                                               *)
(***************************************************************************)

\* Nodes in different places are different nodes.
LEMMA OnePlace ==
  ASSUME NEW b, Good(b), NEW i \in DOMAIN b, NEW j \in DOMAIN b[i],
         NEW l \in DOMAIN b, NEW k \in DOMAIN b[l], b[i][j] = b[l][k]
  PROVE  i = l /\ j = k
<1>1. b[i][j] \in ToSet(b[i]) /\ b[l][k] \in ToSet(b[l])
  BY DEF ToSet
<1>2. i = Slot(b, KeyOf[b[i][j]]) /\ l = Slot(b, KeyOf[b[l][k]])
  BY <1>1 DEF Good, Placed
<1>3. i = l
  BY <1>2
<1> QED BY <1>3 DEF Good, Injective

\* The chains are sequences of nodes, numbered by integers.
LEMMA ChainTypes ==
  ASSUME NEW b, Good(b)
  PROVE  /\ Len(b) \in Nat /\ DOMAIN b = 1 .. Len(b)
         /\ \A i \in DOMAIN b : /\ b[i] \in Seq(Node)
                                /\ Len(b[i]) \in Nat /\ DOMAIN b[i] = 1 .. Len(b[i])
                                /\ \A j \in DOMAIN b[i] : b[i][j] \in Node
<1>1. b \in Seq(Seq(Node))
  BY DEF Good, BucketsOK
<1>2. Len(b) \in Nat /\ DOMAIN b = 1 .. Len(b)
  BY <1>1, LenProperties
<1>3. \A i \in DOMAIN b : b[i] \in Seq(Node)
  BY <1>1, <1>2, ElementOfSeq
<1>4. \A c \in Seq(Node) : /\ Len(c) \in Nat /\ DOMAIN c = 1 .. Len(c)
                           /\ \A j \in DOMAIN c : c[j] \in Node
  BY LenProperties, ElementOfSeq
<1> QED BY <1>2, <1>3, <1>4

\* Of two nodes of a table the one in the bucket before, or before in the chain.
LEMMA PrecedesFacts ==
  ASSUME NEW b, Good(b), NEW i \in DOMAIN b, NEW j \in DOMAIN b[i],
         NEW l \in DOMAIN b, NEW k \in DOMAIN b[l]
  PROVE  Precedes(b, b[i][j], b[l][k]) <=> (i < l \/ (i = l /\ j < k))
<1>1. ASSUME i < l \/ (i = l /\ j < k)
      PROVE  Precedes(b, b[i][j], b[l][k])
  BY <1>1 DEF Precedes
<1>2. ASSUME NEW p \in DOMAIN b, NEW q \in DOMAIN b, NEW r \in DOMAIN b[p], NEW s \in DOMAIN b[q],
             b[p][r] = b[i][j], b[q][s] = b[l][k], p < q \/ (p = q /\ r < s)
      PROVE  i < l \/ (i = l /\ j < k)
  <2>1. p = i /\ r = j
    BY <1>2, OnePlace
  <2>2. q = l /\ s = k
    BY <1>2, OnePlace
  <2> QED BY <1>2, <2>1, <2>2
<1> QED BY <1>1, <1>2, Zenon DEF Precedes

\* The iterator at a node has the number of its bucket, and the node behind it in
\* the chain is next.
LEMMA NextFacts ==
  ASSUME NEW b, Good(b), NEW i \in DOMAIN b, NEW j \in DOMAIN b[i]
  PROVE  /\ At(b, b[i][j]) = [node |-> b[i][j], idx |-> i - 1]
         /\ NextInChain(b, At(b, b[i][j])) = IF j < Len(b[i]) THEN b[i][j + 1] ELSE NULL
<1>1. PICK n : n = b[i][j]
  OBVIOUS
<1>2. i = Slot(b, KeyOf[n])
  BY <1>1 DEF Good, Placed, ToSet
<1>3. At(b, n) = [node |-> n, idx |-> i - 1]
  BY <1>2 DEF At
<1>4. Chain(b, KeyOf[n]) = b[i]
  BY <1>2 DEF Chain
<1>5. Injective(b[i])
  BY DEF Good
<1>6. PlaceIn(b[i], n) = j
  BY <1>1, <1>5 DEF Injective, PlaceIn
<1>7. PICK it : it = At(b, n)
  OBVIOUS
<1>8. it.node = n
  BY <1>3, <1>7
<1>9. NextInChain(b, it) = IF j < Len(b[i]) THEN b[i][j + 1] ELSE NULL
  BY <1>4, <1>6, <1>8 DEF NextInChain
<1> QED BY <1>1, <1>3, <1>7, <1>9

\* The least of some numbers.
LEMMA MinFacts ==
  ASSUME NEW S, S \subseteq Nat, S # {}
  PROVE  Min(S) \in S /\ \A y \in S : Min(S) <= y
<1>1. PICK x \in S : \A y \in S : ~(<<y, x>> \in OpToRel(<, Nat))
  BY NatLessThanWellFounded, WFMin
<1>2. \A y \in S : ~(y < x)
  BY <1>1 DEF OpToRel
<1>3. \A y \in S : x <= y
  BY <1>2
<1> QED BY <1>3 DEF Min

\* operator++ in the middle of a chain.
LEMMA AdvanceInChain ==
  ASSUME NEW b, Good(b), NEW i \in DOMAIN b, NEW j \in DOMAIN b[i], j < Len(b[i]),
         NEW m, m = b[i][j + 1]
  PROVE  /\ m \in NodesIn(b) /\ Precedes(b, b[i][j], m)
         /\ Advance(b, At(b, b[i][j])) = At(b, m)
         /\ \A l \in NodesIn(b) : Precedes(b, b[i][j], l) /\ l # m => Precedes(b, m, l)
<1>1. /\ i \in Nat /\ j \in Nat /\ DOMAIN b[i] = 1 .. Len(b[i]) /\ Len(b[i]) \in Nat
      /\ DOMAIN b = 1 .. Len(b) /\ Len(b) \in Nat
  BY ChainTypes
<1>2. j + 1 \in DOMAIN b[i]
  BY <1>1
<1>3. m \in Node /\ m \in NodesIn(b)
  <2>1. m \in ToSet(b[i])
    BY <1>2 DEF ToSet
  <2> QED BY <1>2, <2>1, ChainTypes, NodesInChains
<1>4. Precedes(b, b[i][j], m)
  BY <1>1, <1>2, PrecedesFacts
<1>5. Advance(b, At(b, b[i][j])) = At(b, m)
  <2>1. NextInChain(b, At(b, b[i][j])) = m /\ m # NULL
    BY <1>3, NextFacts, NullAssumption
  <2>2. At(b, b[i][j]) = [node |-> b[i][j], idx |-> i - 1]
    BY NextFacts
  <2>3. At(b, m) = [node |-> m, idx |-> i - 1]
    BY <1>2, NextFacts
  <2> QED BY <2>1, <2>2, <2>3 DEF Advance
<1>6. ASSUME NEW l \in NodesIn(b), Precedes(b, b[i][j], l), l # m
      PROVE  Precedes(b, m, l)
  <2>1. PICK p \in DOMAIN b : \E q \in DOMAIN b[p] : l = b[p][q]
    BY NodesInChains DEF ToSet
  <2>2. PICK q \in DOMAIN b[p] : l = b[p][q]
    BY <2>1
  <2>3. p \in Nat /\ q \in Nat
    BY ChainTypes
  <2>4. i < p \/ (i = p /\ j < q)
    BY <1>6, <2>2, PrecedesFacts
  <2>5. ~(i = p /\ q = j + 1)
    BY <1>6, <2>2
  <2>6. i < p \/ (i = p /\ j + 1 < q)
    BY <1>1, <2>3, <2>4, <2>5
  <2> QED BY <1>2, <2>2, <2>6, PrecedesFacts
<1> QED BY <1>3, <1>4, <1>5, <1>6

\* operator++ at the end of a chain: what is behind is in the later buckets.
LEMMA AdvanceOverBuckets ==
  ASSUME NEW b, Good(b), NEW i \in DOMAIN b, NEW j \in DOMAIN b[i], j = Len(b[i]),
         NEW B, B = LaterBuckets(b, i - 1)
  PROVE  /\ Advance(b, At(b, b[i][j])) = ToEnd(b, SkipEmpty(b, i - 1))
         /\ B \subseteq Nat /\ \A x \in B : x + 1 \in DOMAIN b /\ i < x + 1 /\ 1 \in DOMAIN b[x + 1]
         /\ \A p \in DOMAIN b : \A q \in DOMAIN b[p] :
              Precedes(b, b[i][j], b[p][q]) => p - 1 \in B
<1>1. /\ i \in Nat /\ j \in Nat /\ i >= 1 /\ DOMAIN b[i] = 1 .. Len(b[i]) /\ Len(b[i]) \in Nat
      /\ DOMAIN b = 1 .. Len(b) /\ Len(b) \in Nat
  BY ChainTypes
<1>2. Advance(b, At(b, b[i][j])) = ToEnd(b, SkipEmpty(b, i - 1))
  <2>1. NextInChain(b, At(b, b[i][j])) = NULL
    BY <1>1, NextFacts
  <2>2. At(b, b[i][j]).idx = i - 1
    BY NextFacts
  <2> QED BY <2>1, <2>2 DEF Advance
<1>3. B = {x \in (i - 1) + 1 .. Len(b) - 1 : b[x + 1] # << >>}
  BY DEF LaterBuckets
<1>4. B \subseteq Nat /\ \A x \in B : x + 1 \in DOMAIN b /\ i < x + 1 /\ b[x + 1] # << >>
  BY <1>1, <1>3
<1>5. \A x \in B : 1 \in DOMAIN b[x + 1]
  <2>1. \A c \in Seq(Node) : c # << >> => 1 \in DOMAIN c
    BY EmptySeq, LenProperties
  <2> QED BY <1>4, <2>1, ChainTypes
<1>6. ASSUME NEW p \in DOMAIN b, NEW q \in DOMAIN b[p], Precedes(b, b[i][j], b[p][q])
      PROVE  p - 1 \in B
  <2>1. i < p \/ (i = p /\ j < q)
    BY <1>6, PrecedesFacts
  <2>2. i < p
    BY <1>1, <2>1
  <2>3. b[p] # << >>
    BY EmptySeq
  <2>4. p - 1 \in (i - 1) + 1 .. Len(b) - 1 /\ (p - 1) + 1 = p
    BY <1>1, <2>2
  <2> QED BY <1>3, <2>3, <2>4
<1> QED BY <1>2, <1>4, <1>5, <1>6

\* operator++ goes to the next element, and from the last to end().
LEMMA AdvanceFacts ==
  ASSUME NEW b, Good(b), NEW n \in NodesIn(b), NEW L,
         L = {m \in NodesIn(b) : Precedes(b, n, m)}
  PROVE  IF L = {} THEN Advance(b, At(b, n)) = End(b)
         ELSE \E m \in L : /\ Advance(b, At(b, n)) = At(b, m)
                           /\ \A l \in L : l # m => Precedes(b, m, l)
<1>1. PICK i \in DOMAIN b : \E j \in DOMAIN b[i] : n = b[i][j]
  BY NodesInChains DEF ToSet
<1>2. PICK j \in DOMAIN b[i] : n = b[i][j]
  BY <1>1
<1>3. /\ i \in Nat /\ j \in Nat /\ Len(b[i]) \in Nat /\ DOMAIN b[i] = 1 .. Len(b[i])
      /\ Len(b) \in Nat /\ DOMAIN b = 1 .. Len(b)
  BY ChainTypes
<1>4. CASE j < Len(b[i])
  <2>1. PICK m : m = b[i][j + 1]
    OBVIOUS
  <2>2. /\ m \in NodesIn(b) /\ Precedes(b, n, m) /\ Advance(b, At(b, n)) = At(b, m)
        /\ \A l \in NodesIn(b) : Precedes(b, n, l) /\ l # m => Precedes(b, m, l)
    BY <1>2, <1>4, <2>1, AdvanceInChain
  <2> QED BY <2>2
<1>5. CASE j = Len(b[i])
  <2>1. PICK B : B = LaterBuckets(b, i - 1)
    OBVIOUS
  <2>2. /\ Advance(b, At(b, n)) = ToEnd(b, SkipEmpty(b, i - 1))
        /\ B \subseteq Nat /\ \A x \in B : x + 1 \in DOMAIN b /\ i < x + 1 /\ 1 \in DOMAIN b[x + 1]
        /\ \A p \in DOMAIN b : \A q \in DOMAIN b[p] : Precedes(b, n, b[p][q]) => p - 1 \in B
    BY <1>2, <1>5, <2>1, AdvanceOverBuckets
  <2>3. CASE B = {}
    <3>1. L = {}
      <4>1. \A m \in NodesIn(b) : \E p \in DOMAIN b : \E q \in DOMAIN b[p] : m = b[p][q]
        BY NodesInChains DEF ToSet
      <4> QED BY <2>2, <2>3, <4>1
    <3>2. SkipEmpty(b, i - 1).node = NULL
      BY <2>1, <2>3 DEF SkipEmpty
    <3> QED BY <2>2, <3>1, <3>2 DEF ToEnd
  <2>4. CASE B # {}
    <3>1. PICK x : x = Min(B)
      OBVIOUS
    <3>2. x \in B /\ x \in Nat /\ \A y \in B : x <= y
      BY <2>2, <2>4, <3>1, MinFacts
    <3>3. x + 1 \in DOMAIN b /\ i < x + 1 /\ 1 \in DOMAIN b[x + 1]
      BY <2>2, <3>2
    <3>4. PICK m : m = b[x + 1][1]
      OBVIOUS
    <3>5. m \in Node /\ m \in NodesIn(b)
      <4>1. m \in ToSet(b[x + 1])
        BY <3>3, <3>4 DEF ToSet
      <4> QED BY <3>3, <3>4, <4>1, ChainTypes, NodesInChains
    <3>6. SkipEmpty(b, i - 1) = [node |-> m, idx |-> x]
      BY <2>1, <2>4, <3>1, <3>4 DEF SkipEmpty
    <3>7. At(b, m) = [node |-> m, idx |-> (x + 1) - 1]
      BY <3>3, <3>4, NextFacts
    <3>8. Advance(b, At(b, n)) = At(b, m)
      <4>1. (x + 1) - 1 = x
        BY <3>2
      <4>2. m # NULL
        BY <3>5, NullAssumption
      <4> QED BY <2>2, <3>6, <3>7, <4>1, <4>2 DEF ToEnd
    <3>9. Precedes(b, n, m)
      BY <1>2, <3>3, <3>4, PrecedesFacts
    <3>10. ASSUME NEW l \in L, l # m
           PROVE  Precedes(b, m, l)
      <4>1. PICK p \in DOMAIN b : \E q \in DOMAIN b[p] : l = b[p][q]
        BY NodesInChains DEF ToSet
      <4>2. PICK q \in DOMAIN b[p] : l = b[p][q]
        BY <4>1
      <4>3. p - 1 \in B
        BY <2>2, <4>2
      <4>4. p \in Nat /\ q \in Nat /\ q >= 1
        BY ChainTypes
      <4>5. x + 1 <= p
        <5>1. x <= p - 1
          BY <3>2, <4>3
        <5> QED BY <3>2, <4>4, <5>1
      <4>6. ~(p = x + 1 /\ q = 1)
        BY <3>4, <3>10, <4>2
      <4>7. x + 1 < p \/ (x + 1 = p /\ 1 < q)
        BY <3>2, <4>4, <4>5, <4>6
      <4> QED BY <3>3, <3>4, <4>2, <4>7, PrecedesFacts
    <3> QED BY <3>5, <3>8, <3>9, <3>10
  <2> QED BY <2>3, <2>4
<1> QED BY <1>3, <1>4, <1>5

\* A loop over a table leaves out no bucket with elements and meets no element
\* twice: each ++ goes to the next one, the last to end().
THEOREM IteratorsCorrect == Spec => []AdvanceIsNext
<1>1. IInv => AdvanceIsNext
  <2>1. SUFFICES ASSUME IInv, Idle, NEW o \in Obj, NEW n \in Elems(o)
                 PROVE  LET b     == table[o].buckets
                            later == {m \in Elems(o) : Precedes(b, n, m)}
                        IN  IF later = {} THEN Advance(b, At(b, n)) = End(b)
                            ELSE \E m \in later :
                                   /\ Advance(b, At(b, n)) = At(b, m)
                                   /\ \A l \in later : l # m => Precedes(b, m, l)
    BY DEF AdvanceIsNext
  <2>2. PICK b : b = table[o].buckets
    OBVIOUS
  <2>3. Good(b) /\ Elems(o) = NodesIn(b)
    BY <2>1, <2>2, AtRest
  <2>4. PICK L : L = {m \in Elems(o) : Precedes(b, n, m)}
    OBVIOUS
  <2>5. IF L = {} THEN Advance(b, At(b, n)) = End(b)
        ELSE \E m \in L : /\ Advance(b, At(b, n)) = At(b, m)
                          /\ \A l \in L : l # m => Precedes(b, m, l)
    BY <2>1, <2>3, <2>4, AdvanceFacts
  <2> QED BY <2>2, <2>4, <2>5, Zenon
<1>2. IInv /\ [Next]_vars => IInv'
  BY NextStep
<1>3. Init => IInv
  BY InitialStep
<1> QED BY <1>1, <1>2, <1>3, PTL DEF Spec
=============================================================================
