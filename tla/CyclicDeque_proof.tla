-------------------------- MODULE CyclicDeque_proof --------------------------
(***************************************************************************)
(* Theorems about CyclicDeque, for any initial capacity, any number of     *)
(* objects and deques of any length: the indices stay inside the buffer    *)
(* and every object behaves as a sequence.                                 *)
(***************************************************************************)
EXTENDS CyclicDeque, SequenceEnds

\* An offset of at most one lap wraps at most once.
LEMMA WrapOnce ==
  ASSUME NEW c \in Nat \ {0}, NEW x \in Nat, x < 2 * c
  PROVE  x % c = IF x < c THEN x ELSE x - c
<1>1. CASE x < c
  BY <1>1, SMT
<1>2. CASE x >= c
  BY <1>2, SMT
<1> QED BY <1>1, <1>2

\* index(offset) for an offset of at most one lap.
LEMMA IndexFacts ==
  ASSUME NEW d, DequeOK(d), d.capacity # 0, NEW k \in 0 .. d.capacity
  PROVE  /\ Index(d, k) = IF d.head + k < d.capacity THEN d.head + k
                          ELSE d.head + k - d.capacity
         /\ Index(d, k) \in 0 .. d.capacity - 1
<1>1. PICK c \in Nat \ {0}, h \in Nat : c = d.capacity /\ h = d.head /\ h < c
  BY DEF DequeOK
<1>2. k \in Nat /\ h + k \in Nat /\ h + k < 2 * c
  BY <1>1
<1>3. PICK x \in Nat : x = h + k /\ x < 2 * c
  BY <1>2
<1>4. x % c = IF x < c THEN x ELSE x - c
  BY <1>3, WrapOnce
<1> QED BY <1>1, <1>2, <1>3, <1>4 DEF Index

\* A reallocation doubles the buffer and keeps every element.
LEMMA ReallocateFacts ==
  ASSUME NEW d, DequeOK(d), d.size = d.capacity
  PROVE  /\ DequeOK(Reallocate(d))
         /\ Reallocate(d).size = d.size
         /\ d.size < Reallocate(d).capacity
         /\ \A i \in 0 .. d.size - 1 : Element(Reallocate(d), i) = Element(d, i)
<1>1. PICK c : c = IF d.capacity # 0 THEN d.capacity * 2 ELSE InitialCapacity
  OBVIOUS
<1>2. c \in Nat /\ d.size \in Nat /\ d.size < c
  BY <1>1, CapacityAssumption DEF DequeOK
<1>3. PICK b : b = [k \in 0 .. c - 1 |-> IF k < d.size THEN MovedCell(d, k) ELSE Junk]
  OBVIOUS
<1>4. Reallocate(d) = [buffer |-> b, capacity |-> c, size |-> d.size, head |-> 0]
  BY <1>1, <1>3 DEF Reallocate
<1>5. PICK e : e = Reallocate(d)
  OBVIOUS
<1>6. e.buffer = b /\ e.capacity = c /\ e.size = d.size /\ e.head = 0
  BY <1>4, <1>5
<1>7. \A i \in 0 .. d.size - 1 : b[i] = Element(d, i) /\ b[i] \in Value
  BY <1>2, <1>3 DEF MovedCell, DequeOK
<1>8. b \in [0 .. c - 1 -> Cell]
  <2>1. \A k \in 0 .. c - 1 : (IF k < d.size THEN MovedCell(d, k) ELSE Junk) \in Cell
    BY <1>2 DEF MovedCell, DequeOK, Cell
  <2> QED BY <1>3, <2>1
<1>9. \A i \in 0 .. d.size - 1 : Element(e, i) = Element(d, i) /\ Element(e, i) \in Value
  <2>1. SUFFICES ASSUME NEW i \in 0 .. d.size - 1
                 PROVE  Element(e, i) = b[i]
    BY <1>7
  <2>2. i % c = i
    BY <1>2, WrapOnce
  <2> QED BY <1>2, <1>6, <2>2 DEF Element, Index
<1>10. DequeOK(e)
  BY <1>2, <1>4, <1>5, <1>6, <1>8, <1>9 DEF DequeOK
<1> QED BY <1>2, <1>5, <1>6, <1>9, <1>10
\* `if (size_ == capacity_) reallocate()` leaves room for one element.
LEMMA RoomyFacts ==
  ASSUME NEW d, DequeOK(d)
  PROVE  /\ DequeOK(Roomy(d))
         /\ Roomy(d).size = d.size
         /\ d.size < Roomy(d).capacity
         /\ \A i \in 0 .. d.size - 1 : Element(Roomy(d), i) = Element(d, i)
<1>1. CASE d.size = d.capacity
  BY <1>1, ReallocateFacts DEF Roomy
<1>2. CASE d.size # d.capacity
  BY <1>2 DEF Roomy, DequeOK
<1> QED BY <1>1, <1>2

\* The element stored behind the last one, no other is touched.
LEMMA StoreBackFacts ==
  ASSUME NEW d, DequeOK(d), d.size < d.capacity, NEW v \in Value
  PROVE  /\ DequeOK(StoreBack(d, v))
         /\ StoreBack(d, v).size = d.size + 1
         /\ Element(StoreBack(d, v), d.size) = v
         /\ \A i \in 0 .. d.size - 1 : Element(StoreBack(d, v), i) = Element(d, i)
<1>1. PICK c, h, n, b :
        /\ c \in Nat \ {0} /\ h \in Nat /\ n \in Nat /\ b \in [0 .. c - 1 -> Cell]
        /\ d = [buffer |-> b, capacity |-> c, size |-> n, head |-> h]
        /\ h < c /\ n < c
        /\ d.buffer = b /\ d.capacity = c /\ d.size = n /\ d.head = h
  BY DEF DequeOK
<1>2. PICK x : x = Index(d, n)
  OBVIOUS
<1>3. x \in 0 .. c - 1 /\ x = IF h + n < c THEN h + n ELSE h + n - c
  BY <1>1, <1>2, IndexFacts
<1>4. PICK e : e = StoreBack(d, v)
  OBVIOUS
<1>5. e = [buffer |-> [b EXCEPT ![x] = v], capacity |-> c, size |-> n + 1, head |-> h]
  BY <1>1, <1>2, <1>4 DEF StoreBack
<1>6. e.buffer = [b EXCEPT ![x] = v] /\ e.capacity = c /\ e.size = n + 1 /\ e.head = h
  BY <1>5
<1>7. \A k : Index(e, k) = Index(d, k)
  BY <1>1, <1>6 DEF Index
<1>8. Element(e, n) = v
  BY <1>1, <1>2, <1>3, <1>6, <1>7 DEF Element
<1>9. \A i \in 0 .. n - 1 : Element(e, i) = Element(d, i) /\ Element(d, i) \in Value
  <2>1. SUFFICES ASSUME NEW i \in 0 .. n - 1
                 PROVE  Element(e, i) = Element(d, i) /\ Element(d, i) \in Value
    OBVIOUS
  <2>2. /\ Index(d, i) \in 0 .. c - 1
        /\ Index(d, i) = IF h + i < c THEN h + i ELSE h + i - c
    BY <1>1, IndexFacts
  <2>3. Index(d, i) # x
    BY <1>1, <1>3, <2>2
  <2>4. Element(d, i) \in Value
    BY <1>1 DEF DequeOK
  <2> QED BY <1>1, <1>6, <1>7, <2>2, <2>3, <2>4 DEF Element
<1>10. DequeOK(e)
  <2>1. e.buffer \in [0 .. c - 1 -> Cell]
    BY <1>1, <1>3, <1>6 DEF Cell
  <2>2. \A i \in 0 .. n : Element(e, i) \in Value
    BY <1>1, <1>8, <1>9
  <2>3. e = [buffer |-> e.buffer, capacity |-> e.capacity, size |-> e.size, head |-> e.head]
    BY <1>5, <1>6
  <2>4. n + 1 \in Nat /\ n + 1 <= c /\ (n + 1) - 1 = n
    BY <1>1
  <2> QED BY <1>1, <1>6, <2>1, <2>2, <2>3, <2>4 DEF DequeOK
<1> QED BY <1>1, <1>4, <1>6, <1>8, <1>9, <1>10

\* The element stored in front of the first one, the others one place behind.
LEMMA StoreFrontFacts ==
  ASSUME NEW d, DequeOK(d), d.size < d.capacity, NEW v \in Value
  PROVE  /\ DequeOK(StoreFront(d, v))
         /\ StoreFront(d, v).size = d.size + 1
         /\ Element(StoreFront(d, v), 0) = v
         /\ \A i \in 0 .. d.size - 1 : Element(StoreFront(d, v), i + 1) = Element(d, i)
<1>1. PICK c, h, n, b :
        /\ c \in Nat \ {0} /\ h \in Nat /\ n \in Nat /\ b \in [0 .. c - 1 -> Cell]
        /\ d = [buffer |-> b, capacity |-> c, size |-> n, head |-> h]
        /\ h < c /\ n < c
        /\ d.buffer = b /\ d.capacity = c /\ d.size = n /\ d.head = h
  BY DEF DequeOK
<1>2. PICK x : x = BeforeHead(d)
  OBVIOUS
<1>3. x \in 0 .. c - 1 /\ x = IF h = 0 THEN c - 1 ELSE h - 1
  BY <1>1, <1>2 DEF BeforeHead
<1>4. PICK e : e = StoreFront(d, v)
  OBVIOUS
<1>5. e = [buffer |-> [b EXCEPT ![x] = v], capacity |-> c, size |-> n + 1, head |-> x]
  BY <1>1, <1>2, <1>4 DEF StoreFront, BeforeHead
<1>6. e.buffer = [b EXCEPT ![x] = v] /\ e.capacity = c /\ e.size = n + 1 /\ e.head = x
  BY <1>5
<1>7. Element(e, 0) = v
  <2>1. x + 0 = x /\ x % c = x
    BY SMTT(30), <1>1, <1>3, WrapOnce
  <2> QED BY ZenonT(40), <1>1, <1>3, <1>6, <2>1 DEF Element, Index
<1>8. \A i \in 0 .. n - 1 : Element(e, i + 1) = Element(d, i) /\ Element(d, i) \in Value
  <2>1. SUFFICES ASSUME NEW i \in 0 .. n - 1
                 PROVE  Element(e, i + 1) = Element(d, i) /\ Element(d, i) \in Value
    OBVIOUS
  <2>2. /\ Index(d, i) \in 0 .. c - 1
        /\ Index(d, i) = IF h + i < c THEN h + i ELSE h + i - c
    BY <1>1, IndexFacts
  <2>3. x + (i + 1) \in Nat /\ x + (i + 1) < 2 * c
    BY <1>1, <1>3
  <2>4. PICK y \in Nat : y = x + (i + 1) /\ y < 2 * c
    BY <2>3
  <2>5. y % c = Index(d, i) /\ Index(d, i) # x
    <3>1. y % c = IF y < c THEN y ELSE y - c
      BY <1>1, <2>4, WrapOnce
    <3> QED BY SMTT(30), <1>1, <1>3, <2>2, <2>4, <3>1
  <2>6. Element(d, i) \in Value
    BY <1>1 DEF DequeOK
  <2>7. Index(e, i + 1) = Index(d, i)
    BY <1>6, <2>4, <2>5 DEF Index
  <2> QED BY <1>1, <1>6, <2>2, <2>5, <2>6, <2>7 DEF Element
<1>9. DequeOK(e)
  <2>1. e.buffer \in [0 .. c - 1 -> Cell]
    BY <1>1, <1>3, <1>6 DEF Cell
  <2>2. \A i \in 0 .. n : Element(e, i) \in Value
    <3>1. SUFFICES ASSUME NEW i \in 0 .. n, i # 0
                   PROVE  Element(e, i) \in Value
      BY <1>7
    <3>2. i - 1 \in 0 .. n - 1 /\ (i - 1) + 1 = i
      BY <3>1, <1>1
    <3> QED BY <1>8, <3>2
  <2>3. e = [buffer |-> e.buffer, capacity |-> e.capacity, size |-> e.size, head |-> e.head]
    BY <1>5, <1>6
  <2>4. n + 1 \in Nat /\ n + 1 <= c /\ (n + 1) - 1 = n /\ x \in Nat /\ x < c
    BY <1>1, <1>3
  <2> QED BY <1>1, <1>6, <2>1, <2>2, <2>3, <2>4 DEF DequeOK
<1> QED BY <1>1, <1>4, <1>6, <1>7, <1>8, <1>9

\* pop_back takes the last element away, the others are found as before.
LEMMA DropBackFacts ==
  ASSUME NEW d, DequeOK(d), d.size # 0
  PROVE  /\ DequeOK(DropBack(d))
         /\ DropBack(d).size = d.size - 1
         /\ \A i \in 0 .. d.size - 2 : Element(DropBack(d), i) = Element(d, i)
<1>1. PICK c, h, n, b :
        /\ c \in Nat \ {0} /\ h \in Nat /\ n \in Nat \ {0} /\ b \in [0 .. c - 1 -> Cell]
        /\ d = [buffer |-> b, capacity |-> c, size |-> n, head |-> h]
        /\ h < c /\ n <= c
        /\ d.buffer = b /\ d.capacity = c /\ d.size = n /\ d.head = h
  BY DEF DequeOK
<1>2. PICK x : x = Index(d, n - 1)
  OBVIOUS
<1>3. n - 1 \in Nat /\ n - 1 \in 0 .. c /\ (n - 1) - 1 = n - 2 /\ n - 1 <= c
  BY <1>1
<1>4. x \in 0 .. c - 1 /\ x = IF h + (n - 1) < c THEN h + (n - 1) ELSE h + (n - 1) - c
  BY <1>1, <1>2, <1>3, IndexFacts
<1>5. PICK e : e = DropBack(d)
  OBVIOUS
<1>6. e = [buffer |-> [b EXCEPT ![x] = Junk], capacity |-> c, size |-> n - 1, head |-> h]
  BY <1>1, <1>2, <1>5 DEF DropBack, Scrub
<1>7. /\ e.buffer = [b EXCEPT ![x] = Junk]
      /\ e.capacity = c /\ e.size = n - 1 /\ e.head = h
  BY <1>6
<1>8. \A i \in 0 .. n - 2 : Element(e, i) = Element(d, i) /\ Element(d, i) \in Value
  <2>1. SUFFICES ASSUME NEW i \in 0 .. n - 2
                 PROVE  Element(e, i) = Element(d, i) /\ Element(d, i) \in Value
    OBVIOUS
  <2>2. /\ Index(d, i) \in 0 .. c - 1
        /\ Index(d, i) = IF h + i < c THEN h + i ELSE h + i - c
    BY <1>1, IndexFacts
  <2>3. Index(d, i) # x
    BY <1>1, <1>4, <2>2
  <2>4. Element(d, i) \in Value
    BY <1>1 DEF DequeOK
  <2>5. Index(e, i) = Index(d, i)
    BY <1>1, <1>7 DEF Index
  <2> QED BY <1>1, <1>7, <2>2, <2>3, <2>4, <2>5 DEF Element
<1>9. DequeOK(e)
  <2>1. e.buffer \in [0 .. c - 1 -> Cell]
    BY <1>1, <1>4, <1>7 DEF Cell
  <2>2. e = [buffer |-> e.buffer, capacity |-> e.capacity, size |-> e.size, head |-> e.head]
    BY <1>6, <1>7
  <2>3. \A i \in 0 .. (n - 1) - 1 : Element(e, i) \in Value
    BY <1>3, <1>8
  <2> QED BY <1>1, <1>3, <1>7, <2>1, <2>2, <2>3 DEF DequeOK
<1> QED BY <1>1, <1>5, <1>7, <1>8, <1>9

\* The head moves on by one cell and the elements behind it are found as before.
LEMMA DropFrontFacts ==
  ASSUME NEW d, DequeOK(d), d.size # 0
  PROVE  /\ DequeOK(DropFront(d))
         /\ DropFront(d).size = d.size - 1
         /\ \A i \in 0 .. d.size - 2 : Element(DropFront(d), i) = Element(d, i + 1)
<1>1. PICK c, h, n, b :
        /\ c \in Nat \ {0} /\ h \in Nat /\ n \in Nat \ {0} /\ b \in [0 .. c - 1 -> Cell]
        /\ d = [buffer |-> b, capacity |-> c, size |-> n, head |-> h]
        /\ h < c /\ n <= c
        /\ d.buffer = b /\ d.capacity = c /\ d.size = n /\ d.head = h
  BY DEF DequeOK
<1>2. PICK x : x = NextHead(d)
  OBVIOUS
<1>3. x \in 0 .. c - 1 /\ x = IF h + 1 < c THEN h + 1 ELSE 0
  <2>1. PICK y \in Nat : y = h + 1 /\ y < 2 * c
    BY <1>1
  <2>2. y % c = IF y < c THEN y ELSE y - c
    BY <1>1, <2>1, WrapOnce
  <2>3. x = y % c
    BY <1>1, <1>2, <2>1 DEF NextHead
  <2> QED BY <1>1, <2>1, <2>2, <2>3
<1>4. n - 1 \in Nat /\ (n - 1) - 1 = n - 2 /\ n - 1 <= c
  BY <1>1
<1>5. PICK e : e = DropFront(d)
  OBVIOUS
<1>6. e = [buffer |-> [b EXCEPT ![h] = Junk], capacity |-> c, size |-> n - 1, head |-> x]
  BY <1>1, <1>2, <1>5 DEF DropFront, Scrub, NextHead
<1>7. /\ e.buffer = [b EXCEPT ![h] = Junk]
      /\ e.capacity = c /\ e.size = n - 1 /\ e.head = x
  BY <1>6
<1>8. \A i \in 0 .. n - 2 : Element(e, i) = Element(d, i + 1) /\ Element(e, i) \in Value
  <2>1. SUFFICES ASSUME NEW i \in 0 .. n - 2
                 PROVE  Element(e, i) = Element(d, i + 1) /\ Element(e, i) \in Value
    OBVIOUS
  <2>2. PICK j : j = i + 1 /\ j \in 0 .. c /\ j \in 0 .. n - 1
    BY <1>1
  <2>3. /\ Index(d, j) \in 0 .. c - 1
        /\ Index(d, j) = IF h + j < c THEN h + j ELSE h + j - c
    BY <1>1, <2>2, IndexFacts
  <2>4. Index(d, j) # h
    BY <1>1, <2>2, <2>3
  <2>5. PICK y \in Nat : y = x + i /\ y < 2 * c
    BY <1>1, <1>3
  <2>6. y % c = IF y < c THEN y ELSE y - c
    BY <1>1, <2>5, WrapOnce
  <2>7. y % c = Index(d, j)
    BY <1>1, <1>3, <2>2, <2>3, <2>5, <2>6
  <2>8. Index(e, i) = Index(d, j)
    BY <1>7, <2>5, <2>7 DEF Index
  <2>9. Element(d, j) \in Value
    BY <1>1, <2>2 DEF DequeOK
  <2>10. Element(e, i) = Element(d, j)
    BY <1>1, <1>7, <2>3, <2>4, <2>8 DEF Element
  <2> QED BY <2>2, <2>9, <2>10
<1>9. DequeOK(e)
  <2>1. e.buffer \in [0 .. c - 1 -> Cell]
    BY <1>1, <1>7 DEF Cell
  <2>2. e = [buffer |-> e.buffer, capacity |-> e.capacity, size |-> e.size, head |-> e.head]
    BY <1>6, <1>7
  <2>3. \A i \in 0 .. (n - 1) - 1 : Element(e, i) \in Value
    BY <1>4, <1>8
  <2>4. x \in Nat /\ x < c
    BY <1>1, <1>3
  <2> QED BY <1>1, <1>4, <1>7, <2>1, <2>2, <2>3, <2>4 DEF DequeOK
<1> QED BY <1>1, <1>5, <1>7, <1>8, <1>9

\* An object without a buffer, as the default constructor and clear leave it.
LEMMA EmptyFacts == DequeOK(Empty) /\ Empty.size = 0
<1>1. << >> \in [0 .. -1 -> Cell]
  BY 0 .. -1 = {} /\ 1 .. 0 = {}
<1> QED BY <1>1 DEF DequeOK, Empty

\* A copy has its own buffer with the same elements in the same cells.
LEMMA CopyFacts ==
  ASSUME NEW d, DequeOK(d)
  PROVE  /\ DequeOK(CopyOf(d))
         /\ CopyOf(d).size = d.size
         /\ \A i \in 0 .. d.size - 1 : Element(CopyOf(d), i) = Element(d, i)
<1>1. PICK c, h, n, b :
        /\ c \in Nat /\ h \in Nat /\ n \in Nat /\ b \in [0 .. c - 1 -> Cell]
        /\ d = [buffer |-> b, capacity |-> c, size |-> n, head |-> h]
        /\ n <= c
        /\ d.buffer = b /\ d.capacity = c /\ d.size = n /\ d.head = h
  BY DEF DequeOK
<1>2. PICK g : g = [k \in 0 .. c - 1 |->
                     IF \E i \in 0 .. n - 1 : Index(d, i) = k THEN b[k] ELSE Junk]
  OBVIOUS
<1>3. PICK e : e = CopyOf(d)
  OBVIOUS
<1>4. e = [buffer |-> g, capacity |-> c, size |-> n, head |-> h]
  BY <1>1, <1>2, <1>3 DEF CopyOf
<1>5. e.buffer = g /\ e.capacity = c /\ e.size = n /\ e.head = h
  BY <1>4
<1>6. g \in [0 .. c - 1 -> Cell]
  BY <1>1, <1>2 DEF Cell
<1>7. \A i \in 0 .. n - 1 : Element(e, i) = Element(d, i)
  <2>1. SUFFICES ASSUME NEW i \in 0 .. n - 1
                 PROVE  Element(e, i) = Element(d, i)
    OBVIOUS
  <2>2. Index(d, i) \in 0 .. c - 1
    BY <1>1, IndexFacts
  <2>3. Index(e, i) = Index(d, i)
    BY <1>1, <1>5 DEF Index
  <2> QED BY <1>1, <1>2, <1>5, <2>2, <2>3 DEF Element
<1>8. DequeOK(e)
  <2>1. e = [buffer |-> e.buffer, capacity |-> e.capacity, size |-> e.size, head |-> e.head]
    BY <1>4, <1>5
  <2>2. \A i \in 0 .. n - 1 : Element(e, i) \in Value
    BY <1>1, <1>7 DEF DequeOK
  <2>3. IF c = 0 THEN h = 0 ELSE h < c
    BY <1>1 DEF DequeOK
  <2> QED BY <1>1, <1>5, <1>6, <2>1, <2>2, <2>3 DEF DequeOK
<1> QED BY <1>1, <1>3, <1>5, <1>7, <1>8

\* What deque(count, v) makes.
Constructed(count, v, c) ==
  [buffer |-> [k \in 0 .. c - 1 |-> IF k < count THEN v ELSE Junk],
   capacity |-> c, size |-> count, head |-> 0]

\* The new buffer holds the value in its first cells and the head is the first.
LEMMA ConstructFacts ==
  ASSUME NEW count \in Nat, NEW v \in Value, NEW c \in Nat, count <= c
  PROVE  /\ DequeOK(Constructed(count, v, c))
         /\ Constructed(count, v, c).size = count
         /\ \A i \in 0 .. count - 1 : Element(Constructed(count, v, c), i) = v
<1>1. PICK g : g = [k \in 0 .. c - 1 |-> IF k < count THEN v ELSE Junk]
  OBVIOUS
<1>2. PICK e : e = Constructed(count, v, c)
  OBVIOUS
<1>3. e = [buffer |-> g, capacity |-> c, size |-> count, head |-> 0]
  BY <1>1, <1>2 DEF Constructed
<1>4. e.buffer = g /\ e.capacity = c /\ e.size = count /\ e.head = 0
  BY <1>3
<1>5. g \in [0 .. c - 1 -> Cell]
  BY <1>1 DEF Cell
<1>6. \A i \in 0 .. count - 1 : Element(e, i) = v
  <2>1. SUFFICES ASSUME NEW i \in 0 .. count - 1
                 PROVE  Element(e, i) = v
    OBVIOUS
  <2>2. 0 + i = i /\ i % c = i /\ i \in 0 .. c - 1
    BY WrapOnce
  <2> QED BY <1>1, <1>4, <2>2 DEF Element, Index
<1>7. DequeOK(e)
  <2>1. e = [buffer |-> e.buffer, capacity |-> e.capacity, size |-> e.size, head |-> e.head]
    BY <1>3, <1>4
  <2> QED BY <1>4, <1>5, <1>6, <2>1 DEF DequeOK
<1> QED BY <1>2, <1>4, <1>6, <1>7
-----------------------------------------------------------------------------
(***************************************************************************)
(* What each member function does to the sequence its caller sees.         *)
(***************************************************************************)
\* The sequence an iteration reads has one value per element.
LEMMA ContentsFacts ==
  ASSUME NEW d, DequeOK(d)
  PROVE  /\ Contents(d) \in Seq(Value)
         /\ Len(Contents(d)) = d.size
         /\ \A i \in 1 .. d.size : Contents(d)[i] = Element(d, i - 1)
<1>1. PICK n \in Nat : n = d.size
  BY DEF DequeOK
<1>2. \A i \in 1 .. n : Element(d, i - 1) \in Value
  <2>1. \A i \in 0 .. n - 1 : Element(d, i) \in Value
    BY <1>1 DEF DequeOK
  <2>2. \A i \in 1 .. n : i - 1 \in 0 .. n - 1
    OBVIOUS
  <2> QED BY <2>1, <2>2
<1>3. Contents(d) = [i \in 1 .. n |-> Element(d, i - 1)]
  BY <1>1 DEF Contents
<1>4. PICK q \in [1 .. n -> Value] : q = Contents(d)
  BY <1>2, <1>3
<1>5. q \in Seq(Value)
  BY <1>4
<1>6. Len(q) = n
  BY <1>4, <1>5, LenProperties
<1>7. \A i \in 1 .. n : q[i] = Element(d, i - 1)
  BY <1>3, <1>4
<1> QED BY <1>1, <1>4, <1>5, <1>6, <1>7

\* Two deques with the same elements show the same sequence.
LEMMA SameContents ==
  ASSUME NEW d, DequeOK(d), NEW e, DequeOK(e), e.size = d.size,
         \A i \in 0 .. d.size - 1 : Element(e, i) = Element(d, i)
  PROVE  Contents(e) = Contents(d)
<1>1. PICK n \in Nat : n = d.size
  BY DEF DequeOK
<1>2. \A i \in 1 .. n : i - 1 \in 0 .. n - 1
  OBVIOUS
<1>3. \A i \in 1 .. n : Contents(e)[i] = Contents(d)[i]
  BY <1>1, <1>2, ContentsFacts
<1> QED BY <1>1, <1>3, ContentsFacts, SeqEqual

\* push_back appends to the sequence, with or without a reallocation.
LEMMA PushBackContents ==
  ASSUME NEW d, DequeOK(d), NEW v \in Value
  PROVE  /\ DequeOK(StoreBack(Roomy(d), v))
         /\ Contents(StoreBack(Roomy(d), v)) = Append(Contents(d), v)
<1>1. PICK r : r = Roomy(d)
  OBVIOUS
<1>2. /\ DequeOK(r) /\ r.size = d.size /\ r.size < r.capacity
      /\ \A i \in 0 .. d.size - 1 : Element(r, i) = Element(d, i)
  BY <1>1, RoomyFacts
<1>3. PICK e : e = StoreBack(r, v)
  OBVIOUS
<1>4. PICK n \in Nat : n = d.size
  BY DEF DequeOK
<1>5. /\ DequeOK(e) /\ e.size = n + 1 /\ Element(e, n) = v
      /\ \A i \in 0 .. n - 1 : Element(e, i) = Element(d, i)
  BY <1>2, <1>3, <1>4, StoreBackFacts
<1>6. \A i \in 1 .. n : i - 1 \in 0 .. n - 1 /\ i \in 1 .. n + 1
  OBVIOUS
<1>7. \A i \in 1 .. n : Contents(e)[i] = Contents(d)[i]
  BY <1>4, <1>5, <1>6, ContentsFacts
<1>8. Contents(e)[n + 1] = v
  BY <1>5, ContentsFacts
<1>9. Contents(e) = Append(Contents(d), v)
  BY <1>4, <1>5, <1>7, <1>8, ContentsFacts, IsAppend
<1> QED BY <1>1, <1>3, <1>5, <1>9

\* push_front puts its value in front of the sequence.
LEMMA PushFrontContents ==
  ASSUME NEW d, DequeOK(d), NEW v \in Value
  PROVE  /\ DequeOK(StoreFront(Roomy(d), v))
         /\ Contents(StoreFront(Roomy(d), v)) = <<v>> \o Contents(d)
<1>1. PICK r : r = Roomy(d)
  OBVIOUS
<1>2. /\ DequeOK(r) /\ r.size = d.size /\ r.size < r.capacity
      /\ \A i \in 0 .. d.size - 1 : Element(r, i) = Element(d, i)
  BY <1>1, RoomyFacts
<1>3. PICK e : e = StoreFront(r, v)
  OBVIOUS
<1>4. PICK n \in Nat : n = d.size
  BY DEF DequeOK
<1>5. /\ DequeOK(e) /\ e.size = n + 1 /\ Element(e, 0) = v
      /\ \A i \in 0 .. n - 1 : Element(e, i + 1) = Element(d, i)
  BY <1>2, <1>3, <1>4, StoreFrontFacts
<1>6. \A i \in 1 .. n : /\ i - 1 \in 0 .. n - 1 /\ (i - 1) + 1 = i /\ (i + 1) - 1 = i
                        /\ i + 1 \in 1 .. n + 1
  OBVIOUS
<1>7. \A i \in 1 .. n : Contents(e)[i + 1] = Contents(d)[i]
  <2>1. SUFFICES ASSUME NEW i \in 1 .. n
                 PROVE  Contents(e)[i + 1] = Contents(d)[i]
    OBVIOUS
  <2>2. Contents(e)[i + 1] = Element(e, i)
    BY <1>5, <1>6, ContentsFacts
  <2>3. Contents(d)[i] = Element(d, i - 1)
    BY <1>4, ContentsFacts
  <2>4. Element(e, i) = Element(d, i - 1)
    BY <1>5, <1>6
  <2> QED BY <2>2, <2>3, <2>4
<1>8. Contents(e)[1] = v
  BY <1>5, ContentsFacts
<1>9. Contents(e) = <<v>> \o Contents(d)
  BY <1>4, <1>5, <1>7, <1>8, ContentsFacts, IsPrepend
<1> QED BY <1>1, <1>3, <1>5, <1>9

\* pop_back removes the last value of the sequence and no other.
LEMMA PopBackContents ==
  ASSUME NEW d, DequeOK(d), d.size # 0
  PROVE  /\ DequeOK(DropBack(d)) /\ Contents(d) # << >>
         /\ Contents(DropBack(d)) = SubSeq(Contents(d), 1, Len(Contents(d)) - 1)
<1>1. PICK n \in Nat \ {0} : n = d.size
  BY DEF DequeOK
<1>2. PICK e : e = DropBack(d)
  OBVIOUS
<1>3. /\ DequeOK(e) /\ e.size = n - 1
      /\ \A i \in 0 .. n - 2 : Element(e, i) = Element(d, i)
  BY <1>1, <1>2, DropBackFacts
<1>4. \A i \in 1 .. n - 1 : i - 1 \in 0 .. n - 2 /\ i \in 1 .. n
  OBVIOUS
<1>5. \A i \in 1 .. n - 1 : Contents(e)[i] = Contents(d)[i]
  BY <1>1, <1>3, <1>4, ContentsFacts
<1>6. Contents(e) = SubSeq(Contents(d), 1, Len(Contents(d)) - 1)
  BY <1>1, <1>3, <1>5, ContentsFacts, IsFront
<1> QED BY <1>1, <1>2, <1>3, <1>6, ContentsFacts

\* pop_front removes the first value of the sequence and no other.
LEMMA PopFrontContents ==
  ASSUME NEW d, DequeOK(d), d.size # 0
  PROVE  /\ DequeOK(DropFront(d)) /\ Contents(d) # << >>
         /\ Contents(DropFront(d)) = Tail(Contents(d))
<1>1. PICK n \in Nat \ {0} : n = d.size
  BY DEF DequeOK
<1>2. PICK e : e = DropFront(d)
  OBVIOUS
<1>3. /\ DequeOK(e) /\ e.size = n - 1
      /\ \A i \in 0 .. n - 2 : Element(e, i) = Element(d, i + 1)
  BY <1>1, <1>2, DropFrontFacts
<1>4. \A i \in 1 .. n - 1 : /\ i - 1 \in 0 .. n - 2 /\ i + 1 \in 1 .. n
                            /\ (i - 1) + 1 = i /\ (i + 1) - 1 = i
  OBVIOUS
<1>5. \A i \in 1 .. n - 1 : Contents(e)[i] = Contents(d)[i + 1]
  <2>1. SUFFICES ASSUME NEW i \in 1 .. n - 1
                 PROVE  Contents(e)[i] = Contents(d)[i + 1]
    OBVIOUS
  <2>2. Contents(e)[i] = Element(e, i - 1)
    BY <1>3, ContentsFacts
  <2>3. Contents(d)[i + 1] = Element(d, i)
    BY <1>1, <1>4, ContentsFacts
  <2>4. Element(e, i - 1) = Element(d, i)
    BY <1>3, <1>4
  <2> QED BY <2>2, <2>3, <2>4
<1>6. Contents(e) = Tail(Contents(d))
  BY <1>1, <1>3, <1>5, ContentsFacts, IsTail
<1> QED BY <1>1, <1>2, <1>3, <1>6, ContentsFacts

\* An object without a buffer shows no value.
LEMMA EmptyContents == DequeOK(Empty) /\ Contents(Empty) = << >>
<1>1. Contents(Empty) \in Seq(Value) /\ Len(Contents(Empty)) = 0
  BY EmptyFacts, ContentsFacts
<1> QED BY <1>1, EmptyFacts

\* A copy shows what its source shows.
LEMMA CopyContents ==
  ASSUME NEW d, DequeOK(d)
  PROVE  DequeOK(CopyOf(d)) /\ Contents(CopyOf(d)) = Contents(d)
BY CopyFacts, SameContents

\* A constructed deque shows the value count times.
LEMMA ConstructContents ==
  ASSUME NEW count \in Nat, NEW v \in Value, NEW c \in Nat, count <= c
  PROVE  /\ DequeOK(Constructed(count, v, c))
         /\ Contents(Constructed(count, v, c)) = [i \in 1 .. count |-> v]
<1>1. PICK e : e = Constructed(count, v, c)
  OBVIOUS
<1>2. /\ DequeOK(e) /\ e.size = count
      /\ \A i \in 0 .. count - 1 : Element(e, i) = v
  BY <1>1, ConstructFacts
<1>3. \A i \in 1 .. count : i - 1 \in 0 .. count - 1
  OBVIOUS
<1>4. Contents(e) = [i \in 1 .. count |-> v]
  BY <1>2, <1>3 DEF Contents
<1> QED BY <1>1, <1>2, <1>4
-----------------------------------------------------------------------------
(***************************************************************************)
(* The theorems                                                            *)
(***************************************************************************)
Shown == [o \in Obj |-> Contents(deque[o])]

\* A call that changes one object changes its sequence and no other.
LEMMA OneChanges ==
  ASSUME TypeOK, NEW o \in Obj, NEW e, DequeOK(e),
         deque' = [deque EXCEPT ![o] = e]
  PROVE  TypeOK' /\ Shown' = [Shown EXCEPT ![o] = Contents(e)]
<1>1. deque' = [q \in Obj |-> IF q = o THEN e ELSE deque[q]]
  BY DEF TypeOK
<1>2. TypeOK'
  BY <1>1 DEF TypeOK
<1>3. Shown' = [q \in Obj |-> IF q = o THEN Contents(e) ELSE Shown[q]]
  BY <1>1 DEF Shown
<1> QED BY <1>2, <1>3 DEF Shown

\* The same of a call that changes two objects.
LEMMA TwoChange ==
  ASSUME TypeOK, NEW o \in Obj, NEW p \in Obj \ {o},
         NEW e, DequeOK(e), NEW f, DequeOK(f),
         deque' = [q \in Obj |-> IF q = p THEN f ELSE IF q = o THEN e ELSE deque[q]]
  PROVE  /\ TypeOK'
         /\ Shown' = [q \in Obj |-> IF q = p THEN Contents(f)
                                    ELSE IF q = o THEN Contents(e) ELSE Shown[q]]
<1>1. TypeOK'
  BY DEF TypeOK
<1>2. Shown' = [q \in Obj |-> IF q = p THEN Contents(f)
                              ELSE IF q = o THEN Contents(e) ELSE Shown[q]]
  BY DEF Shown
<1> QED BY <1>1, <1>2

\* The first state: every object empty, as SequenceDeque begins.
LEMMA InitialStep == Init => TypeOK /\ Abstract!Init
<1> SUFFICES ASSUME Init
             PROVE  TypeOK /\ Abstract!Init
  OBVIOUS
<1>1. TypeOK
  BY EmptyContents DEF Init, TypeOK
<1>2. [o \in Obj |-> Contents(deque[o])] = [o \in Obj |-> << >>]
  BY EmptyContents DEF Init
<1> QED BY <1>1, <1>2 DEF Abstract!Init

\* Each call keeps the indices right and is the call of SequenceDeque.
LEMMA NextStep == TypeOK /\ [Next]_deque => TypeOK' /\ [Abstract!Next]_Shown
<1> SUFFICES ASSUME TypeOK, [Next]_deque
             PROVE  TypeOK' /\ [Abstract!Next]_Shown
  OBVIOUS
<1>0. /\ \A o \in Obj : DequeOK(deque[o])
      /\ \A o \in Obj : Shown[o] = Contents(deque[o])
  BY DEF TypeOK, Shown
<1>1. ASSUME NEW o \in Obj, NEW v \in Value, PushBack(o, v)
      PROVE  TypeOK' /\ Abstract!PushBack(o, v)
  <2>1. PICK e : e = StoreBack(Roomy(deque[o]), v)
    OBVIOUS
  <2>2. deque' = [deque EXCEPT ![o] = e]
    BY <1>1, <2>1 DEF PushBack
  <2>3. DequeOK(e) /\ Contents(e) = Append(Shown[o], v)
    BY <1>0, <2>1, PushBackContents
  <2> QED BY <2>2, <2>3, OneChanges DEF Abstract!PushBack, Shown
<1>2. ASSUME NEW o \in Obj, NEW v \in Value, PushFront(o, v)
      PROVE  TypeOK' /\ Abstract!PushFront(o, v)
  <2>1. PICK e : e = StoreFront(Roomy(deque[o]), v)
    OBVIOUS
  <2>2. deque' = [deque EXCEPT ![o] = e]
    BY <1>2, <2>1 DEF PushFront
  <2>3. DequeOK(e) /\ Contents(e) = <<v>> \o Shown[o]
    BY <1>0, <2>1, PushFrontContents
  <2> QED BY <2>2, <2>3, OneChanges DEF Abstract!PushFront, Shown
<1>3. ASSUME NEW o \in Obj, PopBack(o)
      PROVE  TypeOK' /\ Abstract!PopBack(o)
  <2>1. PICK e : e = DropBack(deque[o])
    OBVIOUS
  <2>2. deque' = [deque EXCEPT ![o] = e] /\ deque[o].size # 0
    BY <1>3, <2>1 DEF PopBack
  <2>3. /\ DequeOK(e) /\ Shown[o] # << >>
        /\ Contents(e) = SubSeq(Shown[o], 1, Len(Shown[o]) - 1)
    BY <1>0, <2>1, <2>2, PopBackContents
  <2>4. TypeOK' /\ Shown' = [Shown EXCEPT ![o] = SubSeq(Shown[o], 1, Len(Shown[o]) - 1)]
    BY <2>2, <2>3, OneChanges
  <2> QED BY <2>3, <2>4 DEF Abstract!PopBack, Shown
<1>4. ASSUME NEW o \in Obj, PopFront(o)
      PROVE  TypeOK' /\ Abstract!PopFront(o)
  <2>1. PICK e : e = DropFront(deque[o])
    OBVIOUS
  <2>2. deque' = [deque EXCEPT ![o] = e] /\ deque[o].size # 0
    BY <1>4, <2>1 DEF PopFront
  <2>3. DequeOK(e) /\ Shown[o] # << >> /\ Contents(e) = Tail(Shown[o])
    BY <1>0, <2>1, <2>2, PopFrontContents
  <2> QED BY <2>2, <2>3, OneChanges DEF Abstract!PopFront, Shown
<1>5. ASSUME NEW o \in Obj, Clear(o)
      PROVE  TypeOK' /\ Abstract!Clear(o)
  <2>1. PICK e : e = Empty
    OBVIOUS
  <2>2. deque' = [deque EXCEPT ![o] = e]
    BY <1>5, <2>1 DEF Clear
  <2> QED BY <2>1, <2>2, EmptyContents, OneChanges DEF Abstract!Clear, Shown
<1>6. ASSUME NEW o \in Obj, NEW count \in 0 .. MaxSize, NEW v \in Value,
             Construct(o, count, v)
      PROVE  TypeOK' /\ \E s \in FilledLists : Abstract!Construct(o, s)
  <2>1. PICK c : c = IF count > InitialCapacity THEN count ELSE InitialCapacity
    OBVIOUS
  <2>2. c \in Nat /\ count \in Nat /\ count <= c
    BY <2>1, CapacityAssumption, SizeAssumption
  <2>3. PICK e : e = Constructed(count, v, c)
    OBVIOUS
  <2>4. deque' = [deque EXCEPT ![o] = e]
    BY <1>6, <2>1, <2>3 DEF Construct, Constructed
  <2>5. PICK s : s = [i \in 1 .. count |-> v]
    OBVIOUS
  <2>6. DequeOK(e) /\ Contents(e) = s
    BY <2>2, <2>3, <2>5, ConstructContents
  <2>7. s \in FilledLists
    BY <2>5 DEF FilledLists
  <2>8. TypeOK' /\ Abstract!Construct(o, s)
    BY <2>4, <2>6, OneChanges DEF Abstract!Construct, Shown
  <2> QED BY <2>7, <2>8
<1>7. ASSUME NEW o \in Obj, NEW p \in Obj \ {o}, CopyAssign(o, p)
      PROVE  TypeOK' /\ Abstract!Copy(o, p)
  <2>1. PICK e : e = CopyOf(deque[p])
    OBVIOUS
  <2>2. deque' = [deque EXCEPT ![o] = e]
    BY <1>7, <2>1 DEF CopyAssign
  <2>3. DequeOK(e) /\ Contents(e) = Shown[p]
    BY <1>0, <2>1, CopyContents
  <2>4. TypeOK' /\ Shown' = [Shown EXCEPT ![o] = Shown[p]]
    BY <2>2, <2>3, OneChanges
  <2> QED BY <2>4 DEF Abstract!Copy, Shown
<1>8. ASSUME NEW o \in Obj, NEW p \in Obj \ {o}, MoveAssign(o, p)
      PROVE  TypeOK' /\ Abstract!Move(o, p)
  <2>1. PICK e, f : e = deque[p] /\ f = Empty
    OBVIOUS
  <2>2. deque' = [q \in Obj |-> IF q = p THEN f ELSE IF q = o THEN e ELSE deque[q]]
    BY <1>8, <2>1 DEF MoveAssign, TypeOK
  <2>3. DequeOK(e) /\ Contents(e) = Shown[p] /\ DequeOK(f) /\ Contents(f) = << >>
    BY <1>0, <2>1, EmptyContents
  <2>4. TypeOK' /\ Shown' = [Shown EXCEPT ![o] = Shown[p], ![p] = << >>]
    <3>1. /\ TypeOK'
          /\ Shown' = [q \in Obj |-> IF q = p THEN Contents(f)
                                     ELSE IF q = o THEN Contents(e) ELSE Shown[q]]
      BY <2>2, <2>3, TwoChange
    <3> QED BY <2>3, <3>1 DEF Shown
  <2> QED BY <2>4 DEF Abstract!Move, Shown
<1>9. ASSUME NEW o \in Obj, NEW p \in Obj \ {o}, Swap(o, p)
      PROVE  TypeOK' /\ Abstract!Swap(o, p)
  <2>1. PICK e, f : e = deque[p] /\ f = deque[o]
    OBVIOUS
  <2>2. deque' = [q \in Obj |-> IF q = p THEN f ELSE IF q = o THEN e ELSE deque[q]]
    BY <1>9, <2>1 DEF Swap, TypeOK
  <2>3. DequeOK(e) /\ Contents(e) = Shown[p] /\ DequeOK(f) /\ Contents(f) = Shown[o]
    BY <1>0, <2>1
  <2>4. TypeOK' /\ Shown' = [Shown EXCEPT ![o] = Shown[p], ![p] = Shown[o]]
    <3>1. /\ TypeOK'
          /\ Shown' = [q \in Obj |-> IF q = p THEN Contents(f)
                                     ELSE IF q = o THEN Contents(e) ELSE Shown[q]]
      BY <2>2, <2>3, TwoChange
    <3> QED BY <2>3, <3>1 DEF Shown
  <2> QED BY <2>4 DEF Abstract!Swap, Shown
<1>10. CASE UNCHANGED deque
  BY <1>10 DEF TypeOK, Shown
<1>11. CASE Next
  BY <1>1, <1>2, <1>3, <1>4, <1>5, <1>6, <1>7, <1>8, <1>9, <1>11, Zenon
     DEF Next, Abstract!Next
<1> QED BY <1>10, <1>11

\* The indices of every object stay inside its buffer and its elements are
\* values that were pushed, for any initial capacity and deques of any length.
THEOREM TypeCorrect == Spec => []TypeOK
<1>1. TypeOK /\ [Next]_deque => TypeOK'
  BY NextStep
<1> QED BY <1>1, InitialStep, PTL DEF Spec

\* The deque on a cyclic buffer implements a sequence per object.
THEOREM SequenceCorrect == Spec => SequenceSpec
<1>1. TypeOK /\ [Next]_deque => [Abstract!Next]_Shown
  BY NextStep
<1> QED BY <1>1, InitialStep, TypeCorrect, PTL DEF Spec, SequenceSpec, Abstract!Spec, Shown
=============================================================================
