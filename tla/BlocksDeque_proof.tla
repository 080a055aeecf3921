-------------------------- MODULE BlocksDeque_proof --------------------------
(***************************************************************************)
(* Theorems about BlocksDeque, for blocks of any size and deques of any    *)
(* length: when no caller pushes into a deque that lost its blocks, the    *)
(* two indices, the number of blocks and the size always agree, and every  *)
(* object behaves as a sequence.                                           *)
(***************************************************************************)
EXTENDS BlocksDeque, SequenceEnds

Blocks == Seq([0 .. BlockCapacity - 1 -> Cell])

\* A deque of these four members, with at least one block, whose size they say.
\* The indices may be as they are inside a push.
Filled(d, b, h, t) ==
  /\ b \in Blocks /\ b # << >>
  /\ h \in 0 .. BlockCapacity /\ t \in 0 .. BlockCapacity
  /\ d = [blocks |-> b, head_index |-> h, tail_index |-> t, size |-> d.size]
  /\ d.blocks = b /\ d.head_index = h /\ d.tail_index = t
  /\ d.size \in Nat
  /\ d.size = (Len(b) - 1) * BlockCapacity + t - h

Good(d) == DequeOK(d) /\ Consistent(d)

\* The two readings of a deque with blocks.
LEMMA FilledIsGood ==
  ASSUME NEW d, NEW b, NEW h \in 0 .. BlockCapacity - 1, NEW t \in 1 .. BlockCapacity,
         Filled(d, b, h, t)
  PROVE  Good(d)
BY CapacityAssumption DEF Filled, Good, DequeOK, Consistent, Blocks

\* Read the other way, for a deque that has blocks.
LEMMA GoodIsFilled ==
  ASSUME NEW d, Good(d), d.blocks # << >>
  PROVE  /\ Filled(d, d.blocks, d.head_index, d.tail_index)
         /\ d.head_index \in 0 .. BlockCapacity - 1
         /\ d.tail_index \in 1 .. BlockCapacity
BY CapacityAssumption DEF Filled, Good, DequeOK, Consistent, Blocks

\* A new block is a block whose cells nobody has written.
LEMMA BlockIsBlock == Block \in [0 .. BlockCapacity - 1 -> Cell]
BY DEF Block, Cell

\* One block more or less is BlockCapacity cells more or less.
LEMMA OneBlockMore ==
  ASSUME NEW k \in Int
  PROVE  (k + 1) * BlockCapacity = k * BlockCapacity + BlockCapacity
BY CapacityAssumption

-----------------------------------------------------------------------------
(***************************************************************************)
(* Cells by their distance from the first cell of the first block          *)
(***************************************************************************)
\* The cell that element_access finds x cells behind the first cell of all.
At(b, x) ==
  LET k == x \div BlockCapacity + 1
  IN  IF k \in DOMAIN b THEN b[k][x % BlockCapacity] ELSE Junk

\* An element is found from where the first block is entered.
LEMMA ElementIsAt ==
  ASSUME NEW d, NEW i
  PROVE  Element(d, i) = At(d.blocks, i + d.head_index)
BY DEF Element, At

\* A block further on is at least BlockCapacity cells further on.
LEMMA BlocksApart ==
  ASSUME NEW p \in Nat, NEW q \in Nat, p < q
  PROVE  p * BlockCapacity + BlockCapacity <= q * BlockCapacity
<1>1. PICK e \in Nat : q = (p + 1) + e
  <2>1. q - (p + 1) \in Nat /\ q = (p + 1) + (q - (p + 1))
    OBVIOUS
  <2> QED BY <2>1
<1>2. q * BlockCapacity = (p + 1) * BlockCapacity + e * BlockCapacity
  BY <1>1, CapacityAssumption
<1>3. e * BlockCapacity >= 0 /\ e * BlockCapacity \in Int
  BY CapacityAssumption
<1>4. (p + 1) * BlockCapacity = p * BlockCapacity + BlockCapacity
  BY OneBlockMore
<1>5. p * BlockCapacity \in Int /\ BlockCapacity \in Int
  BY CapacityAssumption
<1> QED BY <1>2, <1>3, <1>4, <1>5

\* A distance is one block and one cell in it.
LEMMA Place ==
  ASSUME NEW x \in Nat
  PROVE  \E q \in Nat, r \in 0 .. BlockCapacity - 1 : x = q * BlockCapacity + r
<1>1. PICK q, r : q = x \div BlockCapacity /\ r = x % BlockCapacity
  OBVIOUS
<1>2. q \in Nat /\ r \in 0 .. BlockCapacity - 1 /\ x = q * BlockCapacity + r
  BY <1>1, CapacityAssumption
<1> QED BY <1>2

\* There is no other block and cell at that distance.
LEMMA SamePlace ==
  ASSUME NEW p \in Nat, NEW q \in Nat,
         NEW s \in 0 .. BlockCapacity - 1, NEW r \in 0 .. BlockCapacity - 1,
         p * BlockCapacity + s = q * BlockCapacity + r
  PROVE  p = q /\ s = r
<1>1. PICK m \in Int, n \in Int : m = p * BlockCapacity /\ n = q * BlockCapacity
  BY CapacityAssumption
<1>2. m + s = n + r
  BY <1>1
<1>3. ~(p < q)
  <2>1. p < q => m + BlockCapacity <= n
    BY <1>1, BlocksApart
  <2> QED BY <1>2, <2>1, CapacityAssumption
<1>4. ~(q < p)
  <2>1. q < p => n + BlockCapacity <= m
    BY <1>1, BlocksApart
  <2> QED BY <1>2, <2>1, CapacityAssumption
<1>5. p = q
  BY <1>3, <1>4
<1> QED BY <1>1, <1>2, <1>5

\* What is read at that block and cell.
LEMMA AtPlace ==
  ASSUME NEW b \in Blocks, NEW q \in Nat, NEW r \in 0 .. BlockCapacity - 1,
         NEW x, x = q * BlockCapacity + r
  PROVE  At(b, x) = IF q < Len(b) THEN b[q + 1][r] ELSE Junk
<1>1. x \in Nat
  <2>1. PICK m \in Nat : m = q * BlockCapacity
    BY CapacityAssumption
  <2> QED BY <2>1, CapacityAssumption
<1>2. PICK p \in Nat, s \in 0 .. BlockCapacity - 1 :
        p = x \div BlockCapacity /\ s = x % BlockCapacity /\ x = p * BlockCapacity + s
  <2>1. PICK p, s : p = x \div BlockCapacity /\ s = x % BlockCapacity
    OBVIOUS
  <2>2. p \in Nat /\ s \in 0 .. BlockCapacity - 1 /\ x = p * BlockCapacity + s
    BY <1>1, <2>1, CapacityAssumption
  <2> QED BY <2>1, <2>2
<1>3. p = q /\ s = r
  BY <1>2, SamePlace
<1>4. At(b, x) = IF q + 1 \in DOMAIN b THEN b[q + 1][r] ELSE Junk
  BY <1>2, <1>3 DEF At
<1>5. q + 1 \in DOMAIN b <=> q < Len(b)
  <2>1. DOMAIN b = 1 .. Len(b) /\ Len(b) \in Nat
    BY DEF Blocks
  <2> QED BY <2>1
<1> QED BY <1>4, <1>5

\* A distance in front of the end of k blocks is in one of the k blocks.
LEMMA InBlocks ==
  ASSUME NEW k \in Nat, NEW q \in Nat, NEW r \in 0 .. BlockCapacity - 1,
         q * BlockCapacity + r < k * BlockCapacity
  PROVE  q < k
<1>1. PICK m \in Int, n \in Int : m = q * BlockCapacity /\ n = k * BlockCapacity
  BY CapacityAssumption
<1>2. k < q => n + BlockCapacity <= m
  BY <1>1, BlocksApart
<1>3. k = q => m = n
  BY <1>1
<1>4. m + r < n /\ r >= 0 /\ BlockCapacity >= 0
  BY <1>1, CapacityAssumption
<1>5. ~(k < q)
  BY <1>1, <1>2, <1>4, CapacityAssumption
<1>6. k # q
  BY <1>1, <1>3, <1>4
<1> QED BY <1>5, <1>6

\* A block more at the back leaves the cells in front of it.
LEMMA AtAppend ==
  ASSUME NEW b \in Blocks, NEW e \in [0 .. BlockCapacity - 1 -> Cell], NEW x \in Nat,
         x < Len(b) * BlockCapacity
  PROVE  At(Append(b, e), x) = At(b, x)
<1>1. PICK q \in Nat, r \in 0 .. BlockCapacity - 1 : x = q * BlockCapacity + r
  BY Place
<1>2. PICK c : c = Append(b, e)
  OBVIOUS
<1>3. /\ c \in Blocks /\ Len(c) = Len(b) + 1 /\ Len(b) \in Nat
      /\ \A k \in 1 .. Len(b) : c[k] = b[k]
  BY <1>2 DEF Blocks
<1>4. q < Len(b)
  BY <1>1, <1>3, InBlocks
<1>5. q + 1 \in 1 .. Len(b) /\ q < Len(c)
  BY <1>3, <1>4
<1>6. At(c, x) = IF q < Len(c) THEN c[q + 1][r] ELSE Junk
  BY <1>1, <1>3, AtPlace
<1>7. At(b, x) = IF q < Len(b) THEN b[q + 1][r] ELSE Junk
  BY <1>1, AtPlace
<1> QED BY <1>2, <1>3, <1>4, <1>5, <1>6, <1>7

\* The block at the back takes only its own cells away.
LEMMA AtFront ==
  ASSUME NEW b \in Blocks, b # << >>, NEW x \in Nat,
         x < (Len(b) - 1) * BlockCapacity
  PROVE  At(SubSeq(b, 1, Len(b) - 1), x) = At(b, x)
<1>1. PICK q \in Nat, r \in 0 .. BlockCapacity - 1 : x = q * BlockCapacity + r
  BY Place
<1>2. PICK n \in Nat : n = Len(b) - 1 /\ Len(b) = n + 1
  BY DEF Blocks
<1>3. PICK c : c = SubSeq(b, 1, n)
  OBVIOUS
<1>4. c \in Blocks /\ Len(c) = n /\ \A k \in 1 .. n : c[k] = b[k]
  BY <1>2, <1>3 DEF Blocks
<1>5. q < n
  BY <1>1, <1>2, InBlocks
<1>6. q + 1 \in 1 .. n /\ q < Len(c) /\ q < Len(b)
  BY <1>2, <1>4, <1>5
<1>7. At(c, x) = IF q < Len(c) THEN c[q + 1][r] ELSE Junk
  BY <1>1, <1>4, AtPlace
<1>8. At(b, x) = IF q < Len(b) THEN b[q + 1][r] ELSE Junk
  BY <1>1, AtPlace
<1> QED BY <1>2, <1>3, <1>4, <1>6, <1>7, <1>8

\* The blocks b behind a first one.
OneInFront(c, b) == /\ c \in Blocks /\ Len(c) = Len(b) + 1
                    /\ \A k \in 1 .. Len(b) : c[k + 1] = b[k]

\* A block more in front puts every cell one block further on.
LEMMA AtPrepend ==
  ASSUME NEW b \in Blocks, NEW c, OneInFront(c, b), NEW x \in Nat, NEW y, y = x + BlockCapacity
  PROVE  At(c, y) = At(b, x)
<1>1. PICK q \in Nat, r \in 0 .. BlockCapacity - 1 : x = q * BlockCapacity + r
  BY Place
<1>2. PICK p \in Nat : p = q + 1
  OBVIOUS
<1>3. y = p * BlockCapacity + r
  <2>1. p * BlockCapacity = q * BlockCapacity + BlockCapacity
    BY <1>2, OneBlockMore
  <2>2. q * BlockCapacity \in Int /\ p * BlockCapacity \in Int
    BY <1>2, CapacityAssumption
  <2> QED BY <1>1, <2>1, <2>2, CapacityAssumption
<1>4. Len(b) \in Nat /\ c \in Blocks /\ Len(c) = Len(b) + 1
  BY DEF Blocks, OneInFront
<1>5. At(c, y) = IF p < Len(c) THEN c[p + 1][r] ELSE Junk
  BY <1>3, <1>4, AtPlace
<1>6. At(b, x) = IF q < Len(b) THEN b[q + 1][r] ELSE Junk
  BY <1>1, AtPlace
<1>7. p < Len(c) <=> q < Len(b)
  BY <1>2, <1>4
<1>8. q < Len(b) => c[p + 1] = b[p]
  <2>1. q < Len(b) => p \in 1 .. Len(b)
    BY <1>2, <1>4
  <2> QED BY <2>1 DEF OneInFront
<1> QED BY <1>2, <1>5, <1>6, <1>7, <1>8

\* What data[s] = v does to the blocks, if it is the k-th of them.
Stored(b, k, s, v) == [b EXCEPT ![k][s] = v]

\* Writing a cell changes what is read there and nowhere else.
LEMMA AtStore ==
  ASSUME NEW b \in Blocks, NEW k \in 1 .. Len(b), NEW s \in 0 .. BlockCapacity - 1,
         NEW v \in Cell, NEW a, a = Stored(b, k, s, v),
         NEW y, y = (k - 1) * BlockCapacity + s, NEW x \in Nat
  PROVE  At(a, x) = IF x = y THEN v ELSE At(b, x)
<1>1. PICK q \in Nat, r \in 0 .. BlockCapacity - 1 : x = q * BlockCapacity + r
  BY Place
<1>2. Len(b) \in Nat /\ k \in Nat /\ k - 1 \in Nat /\ b[k] \in [0 .. BlockCapacity - 1 -> Cell]
  BY DEF Blocks
<1>3. PICK w \in [0 .. BlockCapacity - 1 -> Cell] : w = [b[k] EXCEPT ![s] = v]
  BY <1>2
<1>4. a = [b EXCEPT ![k] = w]
  BY <1>3 DEF Stored
<1>5. /\ a \in Blocks /\ Len(a) = Len(b)
      /\ \A m \in 1 .. Len(b) : a[m] = IF m = k THEN w ELSE b[m]
  BY <1>3, <1>4, ExceptSeq DEF Blocks
<1>6. At(a, x) = IF q < Len(b) THEN a[q + 1][r] ELSE Junk
  BY <1>1, <1>5, AtPlace
<1>7. At(b, x) = IF q < Len(b) THEN b[q + 1][r] ELSE Junk
  BY <1>1, AtPlace
<1>8. x = y <=> q + 1 = k /\ r = s
  <2>1. PICK p \in Nat : p = k - 1
    BY <1>2
  <2>2. p * BlockCapacity + s = q * BlockCapacity + r => p = q /\ s = r
    BY SamePlace
  <2>3. q + 1 = k <=> p = q
    BY <1>2, <2>1
  <2> QED BY <1>1, <2>1, <2>2, <2>3
<1>9. CASE q + 1 = k
  <2>1. q < Len(b) /\ a[q + 1] = w /\ b[q + 1] = b[k]
    BY <1>2, <1>5, <1>9
  <2>2. w[r] = IF r = s THEN v ELSE b[k][r]
    BY <1>2, <1>3
  <2> QED BY <1>6, <1>7, <1>8, <1>9, <2>1, <2>2
<1>10. CASE q + 1 # k
  <2>1. q < Len(b) => a[q + 1] = b[q + 1]
    BY <1>2, <1>5, <1>10
  <2> QED BY <1>6, <1>7, <1>8, <1>10, <2>1
<1> QED BY <1>9, <1>10

-----------------------------------------------------------------------------
(***************************************************************************)
(* What each member function does to a deque                               *)
(***************************************************************************)
\* Where a deque without blocks will enter its first block.
Enters(d, cells) == d.blocks = << >> => /\ d.head_index = d.tail_index
                                        /\ d.head_index \in cells

\* The first push makes the block both indices point into.
LEMMA FirstBlockFacts ==
  ASSUME NEW d, Good(d), Enters(d, 0 .. BlockCapacity - 1)
  PROVE  LET e == FirstBlock(d)
         IN  /\ Filled(e, e.blocks, e.head_index, e.tail_index)
             /\ e.head_index \in 0 .. BlockCapacity - 1
             /\ e.size = d.size
             /\ d.blocks # << >> \/ d.tail_index # 0 => e.tail_index # 0
<1>1. CASE d.blocks # << >>
  BY <1>1, GoodIsFilled, CapacityAssumption DEF FirstBlock
<1>2. CASE d.blocks = << >>
  <2>1. PICK e, h : e = FirstBlock(d) /\ h = d.head_index
    OBVIOUS
  <2>0. h \in 0 .. BlockCapacity - 1 /\ d.tail_index = h
    BY <1>2, <2>1 DEF Enters
  <2>2. PICK b : b = <<Block>>
    OBVIOUS
  <2>3. b \in Blocks /\ b # << >> /\ Len(b) = 1
    BY <2>2, BlockIsBlock DEF Blocks
  <2>4. d = [blocks |-> << >>, head_index |-> h, tail_index |-> h, size |-> 0]
    BY <1>2, <2>0, <2>1 DEF Good, DequeOK, Consistent
  <2>5. e = [blocks |-> b, head_index |-> h, tail_index |-> h, size |-> 0]
    BY <1>2, <2>1, <2>2, <2>4 DEF FirstBlock
  <2>6. e.blocks = b /\ e.head_index = h /\ e.tail_index = h /\ e.size = 0 /\ d.size = 0
    BY <2>4, <2>5
  <2>7. (Len(b) - 1) * BlockCapacity + h - h = 0
    BY <2>0, <2>3, CapacityAssumption
  <2>8. h \in 0 .. BlockCapacity
    BY <2>0, CapacityAssumption
  <2>9. Filled(e, b, h, h)
    BY <2>3, <2>5, <2>6, <2>7, <2>8 DEF Filled
  <2> QED BY <1>2, <2>0, <2>1, <2>6, <2>9
<1> QED BY <1>1, <1>2

\* push_back: the element goes behind the last one, into a new block if the
\* last is full.
LEMMA PushedBackFacts ==
  ASSUME NEW d, Good(d), NEW v \in Cell, Enters(d, 0 .. BlockCapacity - 1)
  PROVE  Good(PushedBack(d, v)) /\ PushedBack(d, v).blocks # << >>
         /\ PushedBack(d, v).size = d.size + 1
         /\ Element(PushedBack(d, v), d.size) = v
         /\ \A i \in 0 .. d.size - 1 : Element(PushedBack(d, v), i) = Element(d, i)
<1>1. PICK e, b, g, t : e = FirstBlock(d) /\ b = e.blocks /\ g = e.head_index /\ t = e.tail_index
  OBVIOUS
<1>2. Filled(e, b, g, t) /\ g \in 0 .. BlockCapacity - 1 /\ e.size = d.size
  BY <1>1, FirstBlockFacts
<1>3. PICK f : f = RoomAtBack(e)
  OBVIOUS
<1>4. PICK c, u : /\ Filled(f, c, g, u) /\ u \in 0 .. BlockCapacity - 1 /\ f.size = e.size
                  /\ \A x \in Nat : x < g + e.size => At(c, x) = At(b, x)
  <2>1. CASE t # BlockCapacity
    <3>1. f = e
      BY <1>2, <1>3, <2>1 DEF Filled, RoomAtBack
    <3>2. t \in 0 .. BlockCapacity - 1
      BY <1>2, <2>1, CapacityAssumption DEF Filled
    <3> QED BY <1>2, <3>1, <3>2
  <2>2. CASE t = BlockCapacity
    <3>1. PICK c : c = Append(b, Block)
      OBVIOUS
    <3>2. c \in Blocks /\ c # << >> /\ Len(c) = Len(b) + 1 /\ Len(b) \in Nat
      BY <1>2, <3>1, BlockIsBlock DEF Filled, Blocks
    <3>3. f = [blocks |-> c, head_index |-> g, tail_index |-> 0, size |-> e.size]
      BY <1>2, <1>3, <2>2, <3>1 DEF Filled, RoomAtBack
    <3>4. f.blocks = c /\ f.head_index = g /\ f.tail_index = 0 /\ f.size = e.size
      BY <3>3
    <3>5. ((Len(b) - 1) + 1) * BlockCapacity = (Len(b) - 1) * BlockCapacity + BlockCapacity
      BY <3>2, OneBlockMore
    <3>6. e.size = (Len(c) - 1) * BlockCapacity + 0 - g
      <4>1. (Len(b) - 1) + 1 = Len(c) - 1
        BY <3>2
      <4>2. e.size = (Len(b) - 1) * BlockCapacity + BlockCapacity - g
        BY <1>2, <2>2 DEF Filled
      <4>3. (Len(b) - 1) * BlockCapacity \in Int /\ g \in Int
        BY <1>2, <3>2, CapacityAssumption
      <4> QED BY <3>5, <4>1, <4>2, <4>3, CapacityAssumption
    <3>7. Filled(f, c, g, 0)
      BY <1>2, <3>2, <3>3, <3>4, <3>6, CapacityAssumption DEF Filled
    <3>8. g + e.size = Len(b) * BlockCapacity
      <4>1. PICK k \in Int : k = (Len(b) - 1) * BlockCapacity
        BY <3>2, CapacityAssumption
      <4>2. (Len(b) - 1) + 1 = Len(b)
        BY <3>2
      <4>3. e.size = k + BlockCapacity - g
        BY <1>2, <2>2, <4>1 DEF Filled
      <4>4. Len(b) * BlockCapacity = k + BlockCapacity
        BY <3>5, <4>1, <4>2
      <4> QED BY <1>2, <4>3, <4>4, CapacityAssumption
    <3>9. \A x \in Nat : x < g + e.size => At(c, x) = At(b, x)
      BY <1>2, <3>1, <3>8, AtAppend, BlockIsBlock DEF Filled
    <3> QED BY <3>4, <3>7, <3>9, CapacityAssumption
  <2> QED BY <2>1, <2>2
<1>5. PICK r : r = StoreBack(f, v)
  OBVIOUS
<1>6. PICK a : a = [c EXCEPT ![Len(c)][u] = v]
  OBVIOUS
<1>7. a \in Blocks /\ a # << >> /\ Len(a) = Len(c) /\ Len(c) \in Nat
  <2>1. Len(c) \in 1 .. Len(c) /\ c[Len(c)] \in [0 .. BlockCapacity - 1 -> Cell]
    BY <1>4 DEF Filled, Blocks
  <2>2. PICK q \in [0 .. BlockCapacity - 1 -> Cell] : q = [c[Len(c)] EXCEPT ![u] = v]
    BY <1>4, <2>1
  <2>3. a = [c EXCEPT ![Len(c)] = q]
    BY <1>6, <2>2
  <2> QED BY <1>4, <2>1, <2>3, ExceptSeq DEF Filled, Blocks
<1>8. r = [blocks |-> a, head_index |-> g, tail_index |-> u + 1, size |-> f.size + 1]
  BY <1>4, <1>5, <1>6 DEF Filled, StoreBack
<1>9. r.blocks = a /\ r.head_index = g /\ r.tail_index = u + 1 /\ r.size = f.size + 1
  BY <1>8
<1>10. f.size + 1 = (Len(a) - 1) * BlockCapacity + (u + 1) - g
  <2>1. PICK k \in Int : k = (Len(c) - 1) * BlockCapacity
    BY <1>7, CapacityAssumption
  <2>2. f.size = k + u - g
    BY <1>4, <2>1 DEF Filled
  <2> QED BY <1>2, <1>4, <1>7, <2>1, <2>2
<1>11. u + 1 \in 1 .. BlockCapacity /\ f.size + 1 \in Nat
  BY <1>4, CapacityAssumption DEF Filled
<1>12. Filled(r, a, g, u + 1)
  BY <1>2, <1>7, <1>8, <1>9, <1>10, <1>11, CapacityAssumption DEF Filled
<1>13. Good(r)
  BY <1>2, <1>11, <1>12, FilledIsGood
<1>14. r = PushedBack(d, v)
  BY <1>1, <1>3, <1>5 DEF PushedBack
<1>15. PICK n \in Nat : n = d.size /\ n = e.size /\ n = f.size
  BY <1>2, <1>4 DEF Filled
<1>16. \A x \in Nat : At(a, x) = IF x = n + g THEN v ELSE At(c, x)
  <2>1. n + g = (Len(c) - 1) * BlockCapacity + u
    <3>1. PICK k \in Int : k = (Len(c) - 1) * BlockCapacity
      BY <1>7, CapacityAssumption
    <3>2. n = k + u - g
      BY <1>4, <1>15, <3>1 DEF Filled
    <3> QED BY <1>2, <1>4, <3>1, <3>2
  <2>2. c \in Blocks /\ Len(c) \in 1 .. Len(c)
    BY <1>4 DEF Filled, Blocks
  <2>3. v \in Cell /\ a = Stored(c, Len(c), u, v)
    BY <1>6 DEF Stored
  <2> QED BY <1>4, <2>1, <2>2, <2>3, AtStore
<1>17. Element(r, n) = v
  BY <1>2, <1>9, <1>15, <1>16, ElementIsAt
<1>18. ASSUME NEW i \in 0 .. n - 1 PROVE Element(r, i) = Element(d, i)
  <2>1. i + g \in Nat /\ i + g < g + n /\ i + g # n + g
    BY <1>2, <1>15
  <2>2. Element(r, i) = At(b, i + g)
    BY <1>4, <1>9, <1>15, <1>16, <2>1, ElementIsAt
  <2>3. Element(e, i) = At(b, i + g)
    BY <1>1, ElementIsAt
  <2>4. e = d
    BY <1>1, <1>15 DEF FirstBlock, Good, Consistent
  <2> QED BY <2>2, <2>3, <2>4
<1>19. /\ Good(PushedBack(d, v)) /\ PushedBack(d, v).blocks # << >>
       /\ PushedBack(d, v).size = d.size + 1
  BY <1>2, <1>4, <1>7, <1>9, <1>13, <1>14
<1> QED BY <1>14, <1>15, <1>17, <1>18, <1>19

\* push_front: the element goes in front of the first one, into a new block if
\* the first is full.  It must find at least one cell in front of tail_index.
LEMMA PushedFrontFacts ==
  ASSUME NEW d, Good(d), NEW v \in Cell, Enters(d, 1 .. BlockCapacity - 1)
  PROVE  Good(PushedFront(d, v)) /\ PushedFront(d, v).blocks # << >>
         /\ PushedFront(d, v).size = d.size + 1
         /\ Element(PushedFront(d, v), 0) = v
         /\ \A i \in 0 .. d.size - 1 : Element(PushedFront(d, v), i + 1) = Element(d, i)
<1>1. PICK e, b, g, t : e = FirstBlock(d) /\ b = e.blocks /\ g = e.head_index /\ t = e.tail_index
  OBVIOUS
<1>2. /\ Filled(e, b, g, t) /\ g \in 0 .. BlockCapacity - 1 /\ e.size = d.size
      /\ t \in 1 .. BlockCapacity
  <2>1. Enters(d, 0 .. BlockCapacity - 1) /\ (d.blocks # << >> \/ d.tail_index # 0)
    BY CapacityAssumption DEF Enters
  <2>2. /\ Filled(e, b, g, t) /\ g \in 0 .. BlockCapacity - 1 /\ e.size = d.size
        /\ t # 0
    BY <1>1, <2>1, FirstBlockFacts
  <2> QED BY <2>2, CapacityAssumption DEF Filled
<1>3. PICK f : f = RoomInFront(e)
  OBVIOUS
<1>4. PICK c, u : /\ Filled(f, c, u, t) /\ u \in 1 .. BlockCapacity /\ f.size = e.size
                  /\ \A i \in Nat : At(c, i + u) = At(b, i + g)
  <2>1. CASE g # 0
    <3>1. f = e
      BY <1>2, <1>3, <2>1 DEF Filled, RoomInFront
    <3>2. g \in 1 .. BlockCapacity
      BY <1>2, <2>1, CapacityAssumption
    <3> QED BY <1>2, <3>1, <3>2
  <2>2. CASE g = 0
    <3>1. PICK c : c = <<Block>> \o b
      OBVIOUS
    <3>2. /\ c \in Blocks /\ c # << >> /\ Len(c) = Len(b) + 1 /\ Len(b) \in Nat
          /\ \A k \in 1 .. Len(b) : c[k + 1] = b[k]
      <4>1. b \in Blocks /\ <<Block>> \in Blocks /\ Len(<<Block>>) = 1
        BY <1>2, BlockIsBlock DEF Filled, Blocks
      <4>2. c \in Blocks /\ Len(c) = 1 + Len(b)
        BY <3>1, <4>1, ConcatProperties DEF Blocks
      <4>3. \A k \in 1 .. 1 + Len(b) : c[k] = IF k <= 1 THEN <<Block>>[k] ELSE b[k - 1]
        BY <3>1, <4>1, ConcatProperties DEF Blocks
      <4>4. Len(b) \in Nat
        BY <4>1 DEF Blocks
      <4>5. ASSUME NEW k \in 1 .. Len(b) PROVE c[k + 1] = b[k]
        <5>1. k + 1 \in 1 .. 1 + Len(b) /\ ~(k + 1 <= 1) /\ (k + 1) - 1 = k
          BY <4>4
        <5> QED BY <4>3, <5>1
      <4> QED BY <4>1, <4>2, <4>4, <4>5
    <3>3. f = [blocks |-> c, head_index |-> BlockCapacity, tail_index |-> t, size |-> e.size]
      BY <1>2, <1>3, <2>2, <3>1 DEF Filled, RoomInFront
    <3>4. f.blocks = c /\ f.head_index = BlockCapacity /\ f.tail_index = t /\ f.size = e.size
      BY <3>3
    <3>5. ((Len(b) - 1) + 1) * BlockCapacity = (Len(b) - 1) * BlockCapacity + BlockCapacity
      BY <3>2, OneBlockMore
    <3>6. e.size = (Len(c) - 1) * BlockCapacity + t - BlockCapacity
      <4>1. (Len(b) - 1) + 1 = Len(c) - 1
        BY <3>2
      <4>2. PICK k \in Int : k = (Len(b) - 1) * BlockCapacity
        BY <3>2, CapacityAssumption
      <4>3. e.size = k + t
        BY <1>2, <2>2, <4>2, CapacityAssumption DEF Filled
      <4>4. (Len(c) - 1) * BlockCapacity = k + BlockCapacity
        BY <3>5, <4>1, <4>2
      <4> QED BY <1>2, <4>3, <4>4, CapacityAssumption
    <3>7. Filled(f, c, BlockCapacity, t)
      BY <1>2, <3>2, <3>3, <3>4, <3>6, CapacityAssumption DEF Filled
    <3>8. ASSUME NEW i \in Nat PROVE At(c, i + BlockCapacity) = At(b, i + g)
      <4>1. b \in Blocks /\ i + g = i
        BY <1>2, <2>2 DEF Filled
      <4>2. OneInFront(c, b)
        BY <3>2 DEF OneInFront
      <4>3. At(c, i + BlockCapacity) = At(b, i)
        BY <4>1, <4>2, AtPrepend
      <4> QED BY <4>1, <4>3
    <3>9. BlockCapacity \in 1 .. BlockCapacity /\ f.size = e.size
      BY <3>4, CapacityAssumption
    <3> QED BY <3>7, <3>8, <3>9, Zenon
  <2> QED BY <2>1, <2>2
<1>5. PICK r : r = StoreFront(f, v)
  OBVIOUS
<1>6. PICK a : a = [c EXCEPT ![1][u - 1] = v]
  OBVIOUS
<1>7. a \in Blocks /\ a # << >> /\ Len(a) = Len(c) /\ Len(c) \in Nat
  <2>1. 1 \in 1 .. Len(c) /\ c[1] \in [0 .. BlockCapacity - 1 -> Cell]
    BY <1>4 DEF Filled, Blocks
  <2>2. PICK q \in [0 .. BlockCapacity - 1 -> Cell] : q = [c[1] EXCEPT ![u - 1] = v]
    BY <1>4, <2>1
  <2>3. a = [c EXCEPT ![1] = q]
    BY <1>6, <2>2
  <2> QED BY <1>4, <2>1, <2>3, ExceptSeq DEF Filled, Blocks
<1>8. r = [blocks |-> a, head_index |-> u - 1, tail_index |-> t, size |-> f.size + 1]
  BY <1>4, <1>5, <1>6 DEF Filled, StoreFront
<1>9. r.blocks = a /\ r.head_index = u - 1 /\ r.tail_index = t /\ r.size = f.size + 1
  BY <1>8
<1>10. f.size + 1 = (Len(a) - 1) * BlockCapacity + t - (u - 1)
  <2>1. PICK k \in Int : k = (Len(c) - 1) * BlockCapacity
    BY <1>7, CapacityAssumption
  <2>2. f.size = k + t - u
    BY <1>4, <2>1 DEF Filled
  <2> QED BY <1>2, <1>4, <1>7, <2>1, <2>2
<1>11. u - 1 \in 0 .. BlockCapacity - 1 /\ f.size + 1 \in Nat
  BY SMTT(30), <1>4, CapacityAssumption DEF Filled
<1>12. Filled(r, a, u - 1, t)
  BY <1>2, <1>7, <1>8, <1>9, <1>10, <1>11, CapacityAssumption DEF Filled
<1>13. Good(r)
  BY <1>2, <1>11, <1>12, FilledIsGood
<1>14. r = PushedFront(d, v)
  BY <1>1, <1>3, <1>5 DEF PushedFront
<1>15. PICK n \in Nat : n = d.size
  BY DEF Good, DequeOK
<1>16. \A x \in Nat : At(a, x) = IF x = u - 1 THEN v ELSE At(c, x)
  <2>1. u - 1 \in 0 .. BlockCapacity - 1
    BY <1>4, CapacityAssumption
  <2>2. (1 - 1) * BlockCapacity + (u - 1) = u - 1
    BY <2>1, CapacityAssumption
  <2>3. c \in Blocks /\ 1 \in 1 .. Len(c)
    BY <1>4 DEF Filled, Blocks
  <2>4. v \in Cell /\ a = Stored(c, 1, u - 1, v)
    BY <1>6 DEF Stored
  <2> QED BY <2>1, <2>2, <2>3, <2>4, AtStore
<1>17. Element(r, 0) = v
  <2>1. 0 + (u - 1) = u - 1 /\ u - 1 \in Nat
    BY <1>4
  <2> QED BY <1>9, <1>16, <2>1, ElementIsAt
<1>18. ASSUME NEW i \in 0 .. n - 1 PROVE Element(r, i + 1) = Element(d, i)
  <2>1. (i + 1) + (u - 1) = i + u /\ i + u \in Nat /\ i + u # u - 1
    BY <1>4
  <2>2. Element(r, i + 1) = At(b, i + g)
    <3>1. Element(r, i + 1) = At(a, i + u)
      BY <1>9, <2>1, ElementIsAt
    <3>2. At(a, i + u) = At(c, i + u)
      BY <1>16, <2>1
    <3>3. At(c, i + u) = At(b, i + g)
      BY <1>4
    <3> QED BY <3>1, <3>2, <3>3
  <2>3. Element(e, i) = At(b, i + g)
    BY <1>1, ElementIsAt
  <2>4. e = d
    BY <1>1, <1>15 DEF FirstBlock, Good, Consistent
  <2> QED BY <2>2, <2>3, <2>4
<1>19. /\ Good(PushedFront(d, v)) /\ PushedFront(d, v).blocks # << >>
       /\ PushedFront(d, v).size = d.size + 1
  BY <1>2, <1>4, <1>7, <1>9, <1>13, <1>14
<1> QED BY <1>14, <1>15, <1>17, <1>18, <1>19

\* Where the first and the last block have an element, in a deque that has one:
\* with one block only the two indices are apart.
LEMMA OneBlock ==
  ASSUME NEW d, NEW b, NEW h, NEW t, Filled(d, b, h, t), Len(b) = 1
  PROVE  d.size = t - h
BY CapacityAssumption DEF Filled

\* pop_front: the element's cell is left, and its block with the last cell.
LEMMA PoppedFrontFacts ==
  ASSUME NEW d, Good(d), d.size > 0
  PROVE  /\ Good(PoppedFront(d)) /\ PoppedFront(d).size = d.size - 1
         /\ \A i \in 0 .. d.size - 2 : Element(PoppedFront(d), i) = Element(d, i + 1)
<1>0. d.blocks # << >>
  BY DEF Good, Consistent
<1>1. PICK b, h, t : Filled(d, b, h, t) /\ h \in 0 .. BlockCapacity - 1
                     /\ t \in 1 .. BlockCapacity
  BY <1>0, GoodIsFilled
<1>2. PICK a : a = [b EXCEPT ![1][h] = Junk]
  OBVIOUS
<1>3. a \in Blocks /\ a # << >> /\ Len(a) = Len(b) /\ Len(b) \in Nat \ {0}
  <2>1. 1 \in 1 .. Len(b) /\ b[1] \in [0 .. BlockCapacity - 1 -> Cell]
    BY <1>1 DEF Filled, Blocks
  <2>2. PICK q \in [0 .. BlockCapacity - 1 -> Cell] : q = [b[1] EXCEPT ![h] = Junk]
    BY <1>1, <2>1 DEF Cell
  <2>3. a = [b EXCEPT ![1] = q]
    BY <1>2, <2>2
  <2> QED BY <1>1, <2>1, <2>3, ExceptSeq DEF Filled, Blocks
<1>4. PICK e : e = [blocks |-> a, head_index |-> h + 1, tail_index |-> t, size |-> d.size - 1]
  OBVIOUS
<1>5. e.blocks = a /\ e.head_index = h + 1 /\ e.tail_index = t /\ e.size = d.size - 1
  BY <1>4
<1>6. e = [Scrub(d, 1, d.head_index) EXCEPT !.head_index = @ + 1, !.size = @ - 1]
  <2>1. PICK s : s = Scrub(d, 1, d.head_index)
    OBVIOUS
  <2>2. d = [blocks |-> b, head_index |-> h, tail_index |-> t, size |-> d.size]
        /\ d.blocks = b /\ d.head_index = h /\ d.tail_index = t
    BY <1>1 DEF Filled
  <2>3. s = [d EXCEPT !.blocks[1][h] = Junk]
    BY <2>1, <2>2 DEF Scrub
  <2>4. s = [blocks |-> a, head_index |-> h, tail_index |-> t, size |-> d.size]
    BY <1>2, <2>2, <2>3
  <2>5. s.blocks = a /\ s.head_index = h /\ s.tail_index = t /\ s.size = d.size
    BY <2>4
  <2>6. e = [s EXCEPT !.head_index = @ + 1, !.size = @ - 1]
    <3>1. PICK x, y : x = h + 1 /\ y = d.size - 1
      OBVIOUS
    <3>2. e = [blocks |-> a, head_index |-> x, tail_index |-> t, size |-> y]
      BY <1>4, <3>1
    <3>3. [s EXCEPT !.head_index = x, !.size = y]
            = [blocks |-> a, head_index |-> x, tail_index |-> t, size |-> y]
      <4>1. PICK g : g = [s EXCEPT !.head_index = x]
        OBVIOUS
      <4>2. g = [blocks |-> a, head_index |-> x, tail_index |-> t, size |-> d.size]
        BY <2>4, <4>1
      <4>3. [s EXCEPT !.head_index = x, !.size = y] = [g EXCEPT !.size = y]
        BY <4>1
      <4>4. [g EXCEPT !.size = y]
              = [blocks |-> a, head_index |-> x, tail_index |-> t, size |-> y]
        BY <4>2
      <4> QED BY <4>3, <4>4
    <3>4. s.head_index + 1 = x /\ s.size - 1 = y
      BY <2>5, <3>1
    <3> QED BY <3>2, <3>3, <3>4
  <2> QED BY <2>1, <2>6
<1>7. PICK k \in Int : k = (Len(b) - 1) * BlockCapacity
  BY <1>3, CapacityAssumption
<1>8. d.size = k + t - h /\ d.size \in Nat \ {0}
  BY <1>1, <1>7 DEF Filled
<1>9. ASSUME NEW i \in 0 .. d.size - 2 PROVE At(a, i + (h + 1)) = Element(d, i + 1)
  <2>1. (1 - 1) * BlockCapacity + h = h
    BY <1>1, CapacityAssumption
  <2>2. b \in Blocks /\ 1 \in 1 .. Len(b) /\ d.blocks = b /\ d.head_index = h
    BY <1>1 DEF Filled, Blocks
  <2>3. i + (h + 1) \in Nat /\ i + (h + 1) # h /\ (i + 1) + h = i + (h + 1)
    BY <1>1
  <2>4. Junk \in Cell /\ a = Stored(b, 1, h, Junk)
    BY <1>2 DEF Stored, Cell
  <2>5. At(a, i + (h + 1)) = At(b, i + (h + 1))
    BY <1>1, <2>1, <2>2, <2>3, <2>4, AtStore
  <2> QED BY <2>2, <2>3, <2>5, ElementIsAt
<1>10. CASE h + 1 # BlockCapacity
  <2>1. PoppedFront(d) = e
    BY <1>5, <1>6, <1>10 DEF PoppedFront
  <2>2. h + 1 \in 0 .. BlockCapacity - 1 /\ d.size - 1 \in Nat
    BY <1>1, <1>8, <1>10, CapacityAssumption
  <2>3. d.size - 1 = k + t - (h + 1)
    BY <1>1, <1>8
  <2>4. Filled(e, a, h + 1, t)
    BY <1>1, <1>3, <1>4, <1>5, <1>7, <2>2, <2>3, CapacityAssumption DEF Filled
  <2>5. \A i \in 0 .. d.size - 2 : Element(e, i) = Element(d, i + 1)
    BY <1>5, <1>9, ElementIsAt
  <2>6. Good(e)
    BY <1>1, <2>2, <2>4, FilledIsGood
  <2> QED BY <1>5, <2>1, <2>5, <2>6
<1>11. CASE h + 1 = BlockCapacity
  <2>1. PICK r : r = PoppedFront(d)
    OBVIOUS
  <2>2. PICK c : c = Tail(a)
    OBVIOUS
  <2>3. c \in Blocks /\ Len(c) = Len(a) - 1
    BY <1>3, <2>2 DEF Blocks
  <2>4. r = [blocks |-> c, head_index |-> 0, tail_index |-> t, size |-> d.size - 1]
    BY <1>4, <1>5, <1>6, <1>11, <2>1, <2>2 DEF PoppedFront
  <2>5. r.blocks = c /\ r.head_index = 0 /\ r.tail_index = t /\ r.size = d.size - 1
    BY <2>4
  <2>6. d.size - 1 \in Nat /\ 0 \in 0 .. BlockCapacity - 1
    BY <1>8, CapacityAssumption
  <2>7. \A i \in 0 .. d.size - 2 : Element(r, i) = Element(d, i + 1)
    <3>1. ASSUME NEW i \in 0 .. d.size - 2 PROVE Element(r, i) = Element(d, i + 1)
      <4>1. Element(r, i) = At(c, i) /\ i \in Nat
        BY <2>5, ElementIsAt
      <4>2. OneInFront(a, c)
        <5>1. /\ a \in Blocks /\ c \in Blocks /\ Len(a) = Len(c) + 1
              /\ \A m \in 1 .. Len(c) : a[m + 1] = c[m]
          BY <1>3, <2>2, <2>3 DEF Blocks
        <5> QED BY <5>1 DEF OneInFront
      <4>3. At(a, i + BlockCapacity) = At(c, i)
        BY <2>3, <4>1, <4>2, AtPrepend
      <4> QED BY <1>11, <1>9, <4>1, <4>3
    <3> QED BY <3>1
  <2>8. CASE c = << >>
    <3>1. Len(b) = 1
      <4>1. Len(c) = 0
        BY <2>8
      <4>2. PICK m \in Nat : m = Len(b)
        BY <1>3
      <4>3. m - 1 = 0
        BY <1>3, <2>3, <4>1, <4>2
      <4> QED BY <4>2, <4>3
    <3>2. d.size = t - h
      BY <1>1, <3>1, OneBlock
    <3>3. d.size - 1 = 0
      BY <1>1, <1>8, <1>11, <3>2, CapacityAssumption
    <3>4. Good(r)
      BY <1>1, <2>3, <2>4, <2>5, <2>6, <2>8, <3>3, CapacityAssumption
         DEF Good, DequeOK, Consistent, Blocks
    <3> QED BY <2>1, <2>5, <2>7, <3>4
  <2>9. CASE c # << >>
    <3>1. ((Len(c) - 1) + 1) * BlockCapacity = (Len(c) - 1) * BlockCapacity + BlockCapacity
      BY <2>3, OneBlockMore DEF Blocks
    <3>2. (Len(c) - 1) + 1 = Len(b) - 1 /\ (Len(c) - 1) * BlockCapacity \in Int
      BY <1>3, <2>3, CapacityAssumption
    <3>3. k = (Len(c) - 1) * BlockCapacity + BlockCapacity
      BY <1>7, <3>1, <3>2
    <3>4. d.size - 1 = (Len(c) - 1) * BlockCapacity + t - 0
      BY <1>1, <1>8, <1>11, <3>2, <3>3, CapacityAssumption
    <3>5. Filled(r, c, 0, t)
      BY <1>1, <2>3, <2>4, <2>5, <2>6, <2>9, <3>4, CapacityAssumption DEF Filled
    <3>6. Good(r)
      BY <1>1, <2>6, <3>5, FilledIsGood
    <3> QED BY <2>1, <2>5, <2>7, <3>6
  <2> QED BY <2>8, <2>9
<1> QED BY <1>10, <1>11

\* pop_back: the element's cell is left, and its block with the first cell.
LEMMA PoppedBackFacts ==
  ASSUME NEW d, Good(d), d.size > 0
  PROVE  /\ Good(PoppedBack(d)) /\ PoppedBack(d).size = d.size - 1
         /\ \A i \in 0 .. d.size - 2 : Element(PoppedBack(d), i) = Element(d, i)
<1>0. d.blocks # << >>
  BY DEF Good, Consistent
<1>1. PICK b, h, t : Filled(d, b, h, t) /\ h \in 0 .. BlockCapacity - 1
                     /\ t \in 1 .. BlockCapacity
  BY <1>0, GoodIsFilled
<1>2. PICK a : a = [b EXCEPT ![Len(b)][t - 1] = Junk]
  OBVIOUS
<1>3. a \in Blocks /\ a # << >> /\ Len(a) = Len(b) /\ Len(b) \in Nat \ {0}
  <2>1. Len(b) \in 1 .. Len(b) /\ b[Len(b)] \in [0 .. BlockCapacity - 1 -> Cell]
    BY <1>1 DEF Filled, Blocks
  <2>2. PICK q \in [0 .. BlockCapacity - 1 -> Cell] : q = [b[Len(b)] EXCEPT ![t - 1] = Junk]
    BY <1>1, <2>1 DEF Cell
  <2>3. a = [b EXCEPT ![Len(b)] = q]
    BY <1>2, <2>2
  <2> QED BY <1>1, <2>1, <2>3, ExceptSeq DEF Filled, Blocks
<1>4. PICK e : e = [blocks |-> a, head_index |-> h, tail_index |-> t - 1, size |-> d.size - 1]
  OBVIOUS
<1>5. e.blocks = a /\ e.head_index = h /\ e.tail_index = t - 1 /\ e.size = d.size - 1
  BY <1>4
<1>6. e = [Scrub(d, Len(d.blocks), d.tail_index - 1) EXCEPT !.tail_index = @ - 1, !.size = @ - 1]
  <2>1. PICK s : s = Scrub(d, Len(d.blocks), d.tail_index - 1)
    OBVIOUS
  <2>2. d = [blocks |-> b, head_index |-> h, tail_index |-> t, size |-> d.size]
        /\ d.blocks = b /\ d.head_index = h /\ d.tail_index = t
    BY <1>1 DEF Filled
  <2>3. s = [d EXCEPT !.blocks[Len(b)][t - 1] = Junk]
    BY <2>1, <2>2 DEF Scrub
  <2>4. s = [blocks |-> a, head_index |-> h, tail_index |-> t, size |-> d.size]
    BY <1>2, <2>2, <2>3
  <2>5. s.blocks = a /\ s.head_index = h /\ s.tail_index = t /\ s.size = d.size
    BY <2>4
  <2>6. e = [s EXCEPT !.tail_index = @ - 1, !.size = @ - 1]
    <3>1. PICK x, y : x = t - 1 /\ y = d.size - 1
      OBVIOUS
    <3>2. e = [blocks |-> a, head_index |-> h, tail_index |-> x, size |-> y]
      BY <1>4, <3>1
    <3>3. [s EXCEPT !.tail_index = x, !.size = y]
            = [blocks |-> a, head_index |-> h, tail_index |-> x, size |-> y]
      <4>1. PICK g : g = [s EXCEPT !.tail_index = x]
        OBVIOUS
      <4>2. g = [blocks |-> a, head_index |-> h, tail_index |-> x, size |-> d.size]
        BY <2>4, <4>1
      <4>3. [s EXCEPT !.tail_index = x, !.size = y] = [g EXCEPT !.size = y]
        BY <4>1
      <4>4. [g EXCEPT !.size = y]
              = [blocks |-> a, head_index |-> h, tail_index |-> x, size |-> y]
        BY <4>2
      <4> QED BY <4>3, <4>4
    <3>4. s.tail_index - 1 = x /\ s.size - 1 = y
      BY <2>5, <3>1
    <3> QED BY <3>2, <3>3, <3>4
  <2> QED BY <2>1, <2>6
<1>7. PICK k \in Int : k = (Len(b) - 1) * BlockCapacity
  BY <1>3, CapacityAssumption
<1>8. d.size = k + t - h /\ d.size \in Nat \ {0}
  BY <1>1, <1>7 DEF Filled
<1>9. ASSUME NEW i \in 0 .. d.size - 2
      PROVE  /\ i + h \in Nat /\ i + h < k + t - 1
             /\ At(a, i + h) = Element(d, i)
  <2>1. i + h \in Nat /\ i + h < k + (t - 1) /\ i + h < k + t - 1 /\ i + h # k + (t - 1)
    BY <1>1, <1>8
  <2>2. b \in Blocks /\ Len(b) \in 1 .. Len(b) /\ d.blocks = b /\ d.head_index = h
    BY <1>1 DEF Filled, Blocks
  <2>3. t - 1 \in 0 .. BlockCapacity - 1
    BY <1>1, CapacityAssumption
  <2>4. Junk \in Cell /\ a = Stored(b, Len(b), t - 1, Junk)
    BY <1>2 DEF Stored, Cell
  <2>5. At(a, i + h) = At(b, i + h)
    BY <1>7, <2>1, <2>2, <2>3, <2>4, AtStore
  <2> QED BY <2>1, <2>2, <2>5, ElementIsAt
<1>10. CASE t - 1 # 0
  <2>1. PoppedBack(d) = e
    BY <1>5, <1>6, <1>10 DEF PoppedBack
  <2>2. t - 1 \in 1 .. BlockCapacity /\ d.size - 1 \in Nat
    BY <1>1, <1>8, <1>10, CapacityAssumption
  <2>3. d.size - 1 = k + (t - 1) - h
    BY <1>1, <1>8
  <2>4. Filled(e, a, h, t - 1)
    BY <1>1, <1>3, <1>4, <1>5, <1>7, <2>2, <2>3, CapacityAssumption DEF Filled
  <2>5. \A i \in 0 .. d.size - 2 : Element(e, i) = Element(d, i)
    BY <1>5, <1>9, ElementIsAt
  <2>6. Good(e)
    BY <1>1, <2>2, <2>4, FilledIsGood
  <2> QED BY <1>5, <2>1, <2>5, <2>6
<1>11. CASE t - 1 = 0
  <2>1. PICK r : r = PoppedBack(d)
    OBVIOUS
  <2>2. PICK c : c = SubSeq(a, 1, Len(a) - 1)
    OBVIOUS
  <2>3. c \in Blocks /\ Len(c) = Len(a) - 1
    BY <1>3, <2>2 DEF Blocks
  <2>4. r = [blocks |-> c, head_index |-> h, tail_index |-> BlockCapacity, size |-> d.size - 1]
    BY <1>4, <1>5, <1>6, <1>11, <2>1, <2>2 DEF PoppedBack
  <2>5. r.blocks = c /\ r.head_index = h /\ r.tail_index = BlockCapacity /\ r.size = d.size - 1
    BY <2>4
  <2>6. d.size - 1 \in Nat /\ BlockCapacity \in 1 .. BlockCapacity
    BY <1>8, CapacityAssumption
  <2>7. \A i \in 0 .. d.size - 2 : Element(r, i) = Element(d, i)
    <3>1. ASSUME NEW i \in 0 .. d.size - 2 PROVE Element(r, i) = Element(d, i)
      <4>1. Element(r, i) = At(c, i + h)
        BY <2>5, ElementIsAt
      <4>2. i + h \in Nat /\ i + h < (Len(a) - 1) * BlockCapacity
        <5>1. i + h < k + t - 1 /\ i + h \in Nat
          BY <1>9
        <5>2. k + t - 1 = k
          BY <1>1, <1>11
        <5> QED BY <5>1, <5>2, <1>3, <1>7
      <4>3. At(c, i + h) = At(a, i + h)
        BY <1>3, <2>2, <4>2, AtFront
      <4> QED BY <1>9, <4>1, <4>3
    <3> QED BY <3>1
  <2>8. CASE c = << >>
    <3>1. Len(b) = 1
      <4>1. Len(c) = 0
        BY <2>8
      <4>2. PICK m \in Nat : m = Len(b)
        BY <1>3
      <4>3. m - 1 = 0
        BY <1>3, <2>3, <4>1, <4>2
      <4> QED BY <4>2, <4>3
    <3>2. d.size = t - h
      BY <1>1, <3>1, OneBlock
    <3>3. d.size - 1 = 0
      BY <1>1, <1>8, <1>11, <3>2, CapacityAssumption
    <3>4. Good(r)
      BY <1>1, <2>3, <2>4, <2>5, <2>6, <2>8, <3>3, CapacityAssumption
         DEF Good, DequeOK, Consistent, Blocks
    <3> QED BY <2>1, <2>5, <2>7, <3>4
  <2>9. CASE c # << >>
    <3>1. ((Len(c) - 1) + 1) * BlockCapacity = (Len(c) - 1) * BlockCapacity + BlockCapacity
      BY <2>3, OneBlockMore DEF Blocks
    <3>2. (Len(c) - 1) + 1 = Len(b) - 1 /\ (Len(c) - 1) * BlockCapacity \in Int
      BY <1>3, <2>3, CapacityAssumption
    <3>3. k = (Len(c) - 1) * BlockCapacity + BlockCapacity
      BY <1>7, <3>1, <3>2
    <3>4. d.size - 1 = (Len(c) - 1) * BlockCapacity + BlockCapacity - h
      BY <1>1, <1>8, <1>11, <3>2, <3>3, CapacityAssumption
    <3>5. Filled(r, c, h, BlockCapacity)
      BY <1>1, <2>3, <2>4, <2>5, <2>6, <2>9, <3>4, CapacityAssumption DEF Filled
    <3>6. Good(r)
      BY <1>1, <2>6, <3>5, FilledIsGood
    <3> QED BY <2>1, <2>5, <2>7, <3>6
  <2> QED BY <2>8, <2>9
<1> QED BY <1>10, <1>11

\* The other values an object can be given are deques without blocks.
LEMMA EmptiedFacts ==
  /\ Good(Fresh) /\ Good(MovedFrom)
  /\ \A d : Good(d) => Good(Cleared(d))
  /\ Enters(Fresh, 0 .. BlockCapacity - 1)
<1>1. PICK h \in 0 .. BlockCapacity : h = BlockCapacity \div 2 /\ h < BlockCapacity
  BY CapacityAssumption
<1>2. << >> \in Blocks
  BY DEF Blocks
<1>3. Good(Fresh)
  BY <1>1, <1>2 DEF Fresh, Good, DequeOK, Consistent, Blocks
<1>4. Good(MovedFrom)
  BY <1>2, CapacityAssumption DEF MovedFrom, Good, DequeOK, Consistent, Blocks
<1>5. ASSUME NEW d, Good(d)
      PROVE  Good(Cleared(d))
  <2>1. PICK hd, t, b, n : d = [blocks |-> b, head_index |-> hd, tail_index |-> t, size |-> n]
                          /\ hd \in 0 .. BlockCapacity /\ t \in 0 .. BlockCapacity
    BY <1>5 DEF Good, DequeOK
  <2>2. PICK e : e = [d EXCEPT !.blocks = << >>]
    OBVIOUS
  <2>3. e = [blocks |-> << >>, head_index |-> hd, tail_index |-> t, size |-> n]
    BY <2>1, <2>2
  <2>4. Cleared(d) = [e EXCEPT !.size = 0]
    BY <2>2 DEF Cleared
  <2>5. Cleared(d) = [blocks |-> << >>, head_index |-> hd, tail_index |-> t, size |-> 0]
    BY <2>3, <2>4
  <2>6. PICK g : g = Cleared(d)
    OBVIOUS
  <2>7. /\ g = [blocks |-> << >>, head_index |-> hd, tail_index |-> t, size |-> 0]
        /\ g.blocks = << >> /\ g.head_index = hd /\ g.tail_index = t /\ g.size = 0
    BY <2>5, <2>6
  <2>8. Good(g)
    BY <1>2, <2>1, <2>7, CapacityAssumption DEF Good, DequeOK, Consistent, Blocks
  <2> QED BY <2>6, <2>8
<1>6. Enters(Fresh, 0 .. BlockCapacity - 1)
  BY <1>1, CapacityAssumption DEF Enters, Fresh
<1> QED BY <1>3, <1>4, <1>5, <1>6

\* The sequence an iteration reads has one cell per element.
LEMMA ContentsFacts ==
  ASSUME NEW d, Good(d)
  PROVE  /\ Contents(d) \in Seq(Cell)
         /\ Len(Contents(d)) = d.size
         /\ \A i \in 1 .. d.size : Contents(d)[i] = Element(d, i - 1)
<1>1. PICK n \in Nat : n = d.size
  BY DEF Good, DequeOK
<1>2. ASSUME NEW i \in 1 .. n
      PROVE  Element(d, i - 1) \in Cell
  <2>1. PICK x \in Nat : x = (i - 1) + d.head_index
    BY DEF Good, DequeOK
  <2>2. PICK k, r : k = x \div BlockCapacity + 1 /\ r = x % BlockCapacity
    OBVIOUS
  <2>3. r \in 0 .. BlockCapacity - 1
    BY <2>1, <2>2, CapacityAssumption
  <2>4. Element(d, i - 1) = IF k \in DOMAIN d.blocks THEN d.blocks[k][r] ELSE Junk
    BY <2>1, <2>2 DEF Element
  <2>5. k \in DOMAIN d.blocks => d.blocks[k] \in [0 .. BlockCapacity - 1 -> Cell]
    BY DEF Good, DequeOK
  <2> QED BY <2>3, <2>4, <2>5 DEF Cell
<1>3. PICK q \in [1 .. n -> Cell] : q = Contents(d)
  BY <1>1, <1>2 DEF Contents
<1>4. q \in Seq(Cell)
  BY <1>3
<1>5. Len(q) = n
  BY <1>3, <1>4, LenProperties
<1>6. \A i \in 1 .. n : q[i] = Element(d, i - 1)
  BY <1>1, <1>3 DEF Contents
<1> QED BY <1>1, <1>3, <1>4, <1>5, <1>6

\* A deque that counts no elements shows none.
LEMMA NoContents ==
  ASSUME NEW d, Good(d), d.size = 0
  PROVE  Contents(d) = << >>
<1>1. Contents(d) \in Seq(Cell) /\ Len(Contents(d)) = 0
  BY ContentsFacts
<1> QED BY <1>1

\* push_back appends to the sequence, with or without a new block.
LEMMA PushBackContents ==
  ASSUME NEW d, Good(d), NEW v \in Cell, Enters(d, 0 .. BlockCapacity - 1)
  PROVE  Contents(PushedBack(d, v)) = Append(Contents(d), v)
<1>1. PICK e : e = PushedBack(d, v)
  OBVIOUS
<1>2. PICK n \in Nat : n = d.size
  BY DEF Good, DequeOK
<1>3. /\ Good(e) /\ e.size = n + 1 /\ Element(e, n) = v
      /\ \A i \in 0 .. n - 1 : Element(e, i) = Element(d, i)
  BY <1>1, <1>2, PushedBackFacts
<1>4. \A i \in 1 .. n : i - 1 \in 0 .. n - 1 /\ i \in 1 .. n + 1
  OBVIOUS
<1>5. \A i \in 1 .. n : Contents(e)[i] = Contents(d)[i]
  BY <1>2, <1>3, <1>4, ContentsFacts
<1>6. Contents(e)[n + 1] = v
  <2>1. n + 1 \in 1 .. n + 1 /\ (n + 1) - 1 = n
    OBVIOUS
  <2> QED BY <1>3, <2>1, ContentsFacts
<1>7. /\ Contents(e) \in Seq(Cell) /\ Len(Contents(e)) = n + 1
      /\ Contents(d) \in Seq(Cell) /\ Len(Contents(d)) = n
  BY <1>2, <1>3, ContentsFacts
<1> QED BY <1>1, <1>5, <1>6, <1>7, IsAppend

\* push_front puts its value in front of the sequence.
LEMMA PushFrontContents ==
  ASSUME NEW d, Good(d), NEW v \in Cell, Enters(d, 1 .. BlockCapacity - 1)
  PROVE  Contents(PushedFront(d, v)) = <<v>> \o Contents(d)
<1>1. PICK e : e = PushedFront(d, v)
  OBVIOUS
<1>2. PICK n \in Nat : n = d.size
  BY DEF Good, DequeOK
<1>3. /\ Good(e) /\ e.size = n + 1 /\ Element(e, 0) = v
      /\ \A i \in 0 .. n - 1 : Element(e, i + 1) = Element(d, i)
  BY <1>1, <1>2, PushedFrontFacts
<1>4. ASSUME NEW i \in 1 .. n
      PROVE  Contents(e)[i + 1] = Contents(d)[i]
  <2>1. /\ i - 1 \in 0 .. n - 1 /\ (i - 1) + 1 = i /\ (i + 1) - 1 = i
        /\ i + 1 \in 1 .. n + 1
    OBVIOUS
  <2>2. Contents(e)[i + 1] = Element(e, i)
    BY <1>3, <2>1, ContentsFacts
  <2>3. Contents(d)[i] = Element(d, i - 1)
    BY <1>2, ContentsFacts
  <2>4. Element(e, i) = Element(d, i - 1)
    BY <1>3, <2>1
  <2> QED BY <2>2, <2>3, <2>4
<1>5. Contents(e)[1] = v
  <2>1. 1 \in 1 .. n + 1 /\ 1 - 1 = 0
    OBVIOUS
  <2> QED BY <1>3, <2>1, ContentsFacts
<1>6. /\ Contents(e) \in Seq(Cell) /\ Len(Contents(e)) = n + 1
      /\ Contents(d) \in Seq(Cell) /\ Len(Contents(d)) = n
  BY <1>2, <1>3, ContentsFacts
<1>7. /\ Len(Contents(e)) = Len(Contents(d)) + 1
      /\ \A i \in 1 .. Len(Contents(d)) : Contents(e)[i + 1] = Contents(d)[i]
  BY <1>4, <1>6
<1> QED BY <1>1, <1>5, <1>6, <1>7, IsPrepend

\* pop_front removes the first value of the sequence and no other.
LEMMA PopFrontContents ==
  ASSUME NEW d, Good(d), d.size > 0
  PROVE  Contents(d) # << >> /\ Contents(PoppedFront(d)) = Tail(Contents(d))
<1>1. PICK n \in Nat \ {0} : n = d.size
  BY DEF Good, DequeOK
<1>2. PICK e : e = PoppedFront(d)
  OBVIOUS
<1>3. /\ Good(e) /\ e.size = n - 1
      /\ \A i \in 0 .. n - 2 : Element(e, i) = Element(d, i + 1)
  BY <1>1, <1>2, PoppedFrontFacts
<1>4. ASSUME NEW i \in 1 .. n - 1
      PROVE  Contents(e)[i] = Contents(d)[i + 1]
  <2>1. /\ i - 1 \in 0 .. n - 2 /\ i + 1 \in 1 .. n
        /\ (i - 1) + 1 = i /\ (i + 1) - 1 = i
    OBVIOUS
  <2>2. Contents(e)[i] = Element(e, i - 1)
    BY <1>3, ContentsFacts
  <2>3. Contents(d)[i + 1] = Element(d, i)
    BY <1>1, <2>1, ContentsFacts
  <2>4. Element(e, i - 1) = Element(d, i)
    BY <1>3, <2>1
  <2> QED BY <2>2, <2>3, <2>4
<1>5. /\ Contents(e) \in Seq(Cell) /\ Len(Contents(e)) = n - 1
      /\ Contents(d) \in Seq(Cell) /\ Len(Contents(d)) = n
  BY <1>1, <1>3, ContentsFacts
<1> QED BY <1>2, <1>4, <1>5, IsTail

\* pop_back removes the last value of the sequence and no other.
LEMMA PopBackContents ==
  ASSUME NEW d, Good(d), d.size > 0
  PROVE  /\ Contents(d) # << >>
         /\ Contents(PoppedBack(d)) = SubSeq(Contents(d), 1, Len(Contents(d)) - 1)
<1>1. PICK n \in Nat \ {0} : n = d.size
  BY DEF Good, DequeOK
<1>2. PICK e : e = PoppedBack(d)
  OBVIOUS
<1>3. /\ Good(e) /\ e.size = n - 1
      /\ \A i \in 0 .. n - 2 : Element(e, i) = Element(d, i)
  BY <1>1, <1>2, PoppedBackFacts
<1>4. \A i \in 1 .. n - 1 : i - 1 \in 0 .. n - 2 /\ i \in 1 .. n
  OBVIOUS
<1>5. \A i \in 1 .. n - 1 : Contents(e)[i] = Contents(d)[i]
  BY <1>1, <1>3, <1>4, ContentsFacts
<1>6. /\ Contents(e) \in Seq(Cell) /\ Len(Contents(e)) = n - 1
      /\ Contents(d) \in Seq(Cell) /\ Len(Contents(d)) = n
  BY <1>1, <1>3, ContentsFacts
<1> QED BY <1>2, <1>5, <1>6, IsFront
-----------------------------------------------------------------------------
(***************************************************************************)
(* The theorems                                                            *)
(***************************************************************************)
\* Every object agrees with itself, and so does the copy in the making, which
\* enters its first block where a new object does.
IInv ==
  /\ deque = [o \in Obj |-> deque[o]]
  /\ \A o \in Obj : Good(deque[o])
  /\ Good(tmp) /\ Enters(tmp, 0 .. BlockCapacity - 1)
  /\ target \in Obj \cup {None}
  /\ source \in Seq(Cell)

\* A call that gives one object a new value, and one that changes two.
LEMMA OneChanges ==
  ASSUME IInv, NEW o \in Obj, NEW e, Good(e), deque' = [deque EXCEPT ![o] = e]
  PROVE  /\ deque' = [q \in Obj |-> deque'[q]]
         /\ \A q \in Obj : Good(deque'[q])
<1>1. deque' = [q \in Obj |-> IF q = o THEN e ELSE deque[q]]
  BY DEF IInv
<1>2. \A q \in Obj : Good(IF q = o THEN e ELSE deque[q])
  BY DEF IInv
<1> QED BY <1>1, <1>2

\* The two deques of a move or a swap both have to stay good.
LEMMA TwoChange ==
  ASSUME IInv, NEW o \in Obj, NEW p \in Obj, NEW e, Good(e), NEW f, Good(f),
         deque' = [deque EXCEPT ![o] = e, ![p] = f]
  PROVE  /\ deque' = [q \in Obj |-> deque'[q]]
         /\ \A q \in Obj : Good(deque'[q])
<1>1. deque' = [q \in Obj |-> IF q = p THEN f ELSE IF q = o THEN e ELSE deque[q]]
  BY DEF IInv
<1>2. \A q \in Obj : Good(IF q = p THEN f ELSE IF q = o THEN e ELSE deque[q])
  BY DEF IInv
<1> QED BY <1>1, <1>2

\* Every object starts as a deque without blocks.
LEMMA InitIInv == Init => IInv
<1> SUFFICES ASSUME Init
             PROVE  IInv
  OBVIOUS
<1>1. << >> \in Seq(Cell)
  OBVIOUS
<1> QED BY <1>1, EmptiedFacts DEF Init, IInv

\* Each step keeps the indices, the blocks and the size of every object in
\* agreement, if callers leave a deque alone that lost its blocks.
LEMMA NextStep ==
  ASSUME ~ReuseEmptied
  PROVE  IInv /\ [Next]_vars => IInv'
<1> SUFFICES ASSUME IInv, [Next]_vars
             PROVE  IInv'
  OBVIOUS
<1>0. \A o \in Obj : Good(deque[o])
  BY DEF IInv
<1>1. ASSUME NEW o \in Obj, NEW v \in Value, PushFront(o, v)
      PROVE  IInv'
  <2>1. PICK e : e = PushedFront(deque[o], v)
    OBVIOUS
  <2>2. deque' = [deque EXCEPT ![o] = e] /\ UNCHANGED <<target, source, tmp>>
    BY <1>1, <2>1 DEF PushFront
  <2>3. Enters(deque[o], 1 .. BlockCapacity - 1)
    BY <1>1 DEF PushFront, Usable, Enters
  <2>4. Good(e)
    BY <1>0, <2>1, <2>3, PushedFrontFacts DEF Cell
  <2> QED BY <2>2, <2>4, OneChanges DEF IInv
<1>2. ASSUME NEW o \in Obj, NEW v \in Value, PushBack(o, v)
      PROVE  IInv'
  <2>1. PICK e : e = PushedBack(deque[o], v)
    OBVIOUS
  <2>2. deque' = [deque EXCEPT ![o] = e] /\ UNCHANGED <<target, source, tmp>>
    BY <1>2, <2>1 DEF PushBack
  <2>3. Enters(deque[o], 0 .. BlockCapacity - 1)
    BY <1>2, CapacityAssumption DEF PushBack, Usable, Enters
  <2>4. Good(e)
    BY <1>0, <2>1, <2>3, PushedBackFacts DEF Cell
  <2> QED BY <2>2, <2>4, OneChanges DEF IInv
<1>3. ASSUME NEW o \in Obj, PopFront(o)
      PROVE  IInv'
  <2>1. PICK e : e = PoppedFront(deque[o])
    OBVIOUS
  <2>2. /\ deque' = [deque EXCEPT ![o] = e] /\ UNCHANGED <<target, source, tmp>>
        /\ deque[o].size > 0
    BY <1>3, <2>1 DEF PopFront
  <2>3. Good(e)
    BY <1>0, <2>1, <2>2, PoppedFrontFacts
  <2> QED BY <2>2, <2>3, OneChanges DEF IInv
<1>4. ASSUME NEW o \in Obj, PopBack(o)
      PROVE  IInv'
  <2>1. PICK e : e = PoppedBack(deque[o])
    OBVIOUS
  <2>2. /\ deque' = [deque EXCEPT ![o] = e] /\ UNCHANGED <<target, source, tmp>>
        /\ deque[o].size > 0
    BY <1>4, <2>1 DEF PopBack
  <2>3. Good(e)
    BY <1>0, <2>1, <2>2, PoppedBackFacts
  <2> QED BY <2>2, <2>3, OneChanges DEF IInv
<1>5. ASSUME NEW o \in Obj, Clear(o)
      PROVE  IInv'
  <2>1. PICK e : e = Cleared(deque[o])
    OBVIOUS
  <2>2. deque' = [deque EXCEPT ![o] = e] /\ UNCHANGED <<target, source, tmp>>
    BY <1>5, <2>1 DEF Clear
  <2>3. Good(e)
    BY <1>0, <2>1, EmptiedFacts
  <2> QED BY <2>2, <2>3, OneChanges DEF IInv
<1>6. ASSUME NEW o \in Obj, NEW list \in Lists, ConstructCall(o, list)
      PROVE  IInv'
  <2>1. list \in Seq(Cell)
    BY ListsAssumption DEF Cell
  <2> QED BY <1>6, <2>1 DEF ConstructCall, IInv
<1>7. ASSUME NEW o \in Obj, NEW p \in Obj \ {o}, CopyCall(o, p)
      PROVE  IInv'
  <2>1. PICK e : e = Cleared(deque[o])
    OBVIOUS
  <2>2. deque' = [deque EXCEPT ![o] = e] /\ Good(e)
    BY <1>0, <1>7, <2>1, EmptiedFacts DEF CopyCall
  <2>3. source' = Contents(deque[p]) /\ source' \in Seq(Cell)
    BY <1>0, <1>7, ContentsFacts DEF CopyCall
  <2> QED BY <1>7, <2>2, <2>3, OneChanges DEF CopyCall, IInv
<1>8. ASSUME PushNext
      PROVE  IInv'
  <2>1. PICK v : v = source[tmp.size + 1]
    OBVIOUS
  <2>2. v \in Cell
    <3>1. tmp.size \in Nat /\ tmp.size < Len(source) /\ source \in Seq(Cell)
      BY <1>8 DEF PushNext, IInv, Good, DequeOK
    <3>2. tmp.size + 1 \in 1 .. Len(source)
      BY <3>1
    <3> QED BY <2>1, <3>1, <3>2, ElementOfSeq
  <2>3. PICK e : e = PushedBack(tmp, v)
    OBVIOUS
  <2>4. tmp' = e /\ UNCHANGED <<deque, target, source>>
    BY <1>8, <2>1, <2>3 DEF PushNext
  <2>5. Good(e) /\ e.blocks # << >>
    BY <2>2, <2>3, PushedBackFacts DEF IInv
  <2> QED BY <2>4, <2>5 DEF IInv, Enters
<1>9. ASSUME Finish, deque' = deque
      PROVE  IInv'
  <2>1. << >> \in Seq(Cell)
    OBVIOUS
  <2> QED BY <1>9, <2>1, EmptiedFacts DEF Finish, IInv
<1>10. ASSUME ConstructDone
       PROVE  IInv'
  <2>1. target \in Obj /\ deque' = [deque EXCEPT ![target] = tmp] /\ Good(tmp)
    BY <1>10 DEF ConstructDone, Idle, IInv
  <2>2. /\ deque' = [q \in Obj |-> deque'[q]]
        /\ \A q \in Obj : Good(deque'[q])
    BY <2>1, OneChanges
  <2>3. << >> \in Seq(Cell)
    OBVIOUS
  <2> QED BY <1>10, <2>2, <2>3, EmptiedFacts DEF ConstructDone, Finish, IInv
<1>11. ASSUME NEW o \in Obj, NEW p \in Obj \ {o}, MoveAssign(o, p)
       PROVE  IInv'
  <2>1. PICK e, f : e = deque[p] /\ f = MovedFrom
    OBVIOUS
  <2>2. deque' = [deque EXCEPT ![o] = e, ![p] = f] /\ UNCHANGED <<target, source, tmp>>
    BY <1>11, <2>1 DEF MoveAssign
  <2>3. Good(e) /\ Good(f)
    BY <1>0, <2>1, EmptiedFacts
  <2>4. /\ deque' = [q \in Obj |-> deque'[q]]
        /\ \A q \in Obj : Good(deque'[q])
    BY <2>2, <2>3, TwoChange
  <2> QED BY <2>2, <2>4 DEF IInv
<1>12. ASSUME NEW o \in Obj, NEW p \in Obj \ {o}, Swap(o, p)
       PROVE  IInv'
  <2>1. PICK e, f : e = deque[p] /\ f = deque[o]
    OBVIOUS
  <2>2. deque' = [deque EXCEPT ![o] = e, ![p] = f] /\ UNCHANGED <<target, source, tmp>>
    BY <1>12, <2>1 DEF Swap
  <2>3. Good(e) /\ Good(f)
    BY <1>0, <2>1
  <2>4. /\ deque' = [q \in Obj |-> deque'[q]]
        /\ \A q \in Obj : Good(deque'[q])
    BY <2>2, <2>3, TwoChange
  <2> QED BY <2>2, <2>4 DEF IInv
<1>13. CASE UNCHANGED vars
  BY <1>13 DEF vars, IInv
<1>14. CASE PushNextThrows
  BY <1>9, <1>14 DEF PushNextThrows
<1>15. CASE Next
  BY <1>1, <1>2, <1>3, <1>4, <1>5, <1>6, <1>7, <1>8, <1>10, <1>11, <1>12, <1>14, <1>15, Zenon
     DEF Next
<1> QED BY <1>13, <1>15

\* The invariant the two theorems follow from.
THEOREM Invariance == ASSUME ~ReuseEmptied PROVE Spec => []IInv
<1>1. IInv /\ [Next]_vars => IInv'
  BY NextStep
<1> QED BY <1>1, InitIInv, PTL DEF Spec

\* The indices stay in their blocks, and the blocks hold cells, for blocks of any
\* size and deques of any length.
THEOREM TypeCorrect == ASSUME ~ReuseEmptied PROVE Spec => []TypeOK
<1>1. IInv => TypeOK
  BY DEF IInv, Good, TypeOK
<1> QED BY <1>1, Invariance, PTL

\* The two indices, the number of blocks and size() agree in every object, whichever
\* end was pushed or popped, and in a copy that is made push by push.
THEOREM ConsistentAlways == ASSUME ~ReuseEmptied PROVE Spec => []EveryDequeConsistent
<1>1. IInv => EveryDequeConsistent
  BY DEF IInv, Good, EveryDequeConsistent
<1> QED BY <1>1, Invariance, PTL
-----------------------------------------------------------------------------
(***************************************************************************)
(* The deque implements a sequence per object                              *)
(***************************************************************************)
Shown == [o \in Obj |-> Contents(deque[o])]

\* What a constructor has pushed so far is the beginning of its source, and what
\* it copies is still there when it is done, as nobody else has run.
Underway ==
  /\ tmp.size <= Len(source)
  /\ \A i \in 1 .. tmp.size : Element(tmp, i - 1) = source[i]
  /\ Idle => tmp = Fresh /\ source = << >>
  /\ ~Idle => \/ source \in Lists
              \/ \E p \in Obj \ {target} : source = Contents(deque[p])

\* A call that gives one object a new value changes its sequence and no other.
LEMMA OneShown ==
  ASSUME IInv, NEW o \in Obj, NEW e, deque' = [deque EXCEPT ![o] = e]
  PROVE  /\ Shown' = [Shown EXCEPT ![o] = Contents(e)]
         /\ \A p \in Obj \ {o} : deque'[p] = deque[p]
<1>1. deque' = [q \in Obj |-> IF q = o THEN e ELSE deque[q]]
  BY DEF IInv
<1>2. Shown' = [q \in Obj |-> IF q = o THEN Contents(e) ELSE Shown[q]]
  BY <1>1 DEF Shown
<1> QED BY <1>1, <1>2 DEF Shown

\* The two objects of a move or a swap both show a new sequence.
LEMMA TwoShown ==
  ASSUME IInv, NEW o \in Obj, NEW p \in Obj \ {o}, NEW e, NEW f,
         deque' = [q \in Obj |-> IF q = p THEN f ELSE IF q = o THEN e ELSE deque[q]]
  PROVE  Shown' = [q \in Obj |-> IF q = p THEN Contents(f)
                                 ELSE IF q = o THEN Contents(e) ELSE Shown[q]]
BY DEF Shown

\* A call that runs while no constructor does leaves none running.
LEMMA StillIdle ==
  ASSUME Underway, Idle, UNCHANGED <<target, source, tmp>>
  PROVE  Underway'
<1>1. tmp = Fresh /\ source = << >>
  BY DEF Underway
<1>2. tmp'.size = 0 /\ Len(source') = 0 /\ Idle'
  BY <1>1 DEF Fresh, Idle
<1> QED BY <1>1, <1>2 DEF Underway

\* A constructor that ends, well or not, leaves nothing behind.
LEMMA Finished == Finish => Underway'
<1> SUFFICES ASSUME Finish
             PROVE  Underway'
  OBVIOUS
<1>1. tmp' = Fresh /\ source' = << >> /\ Idle'
  BY DEF Finish, Idle
<1>2. tmp'.size = 0 /\ Len(source') = 0
  BY <1>1 DEF Fresh
<1> QED BY <1>1, <1>2 DEF Underway

\* Nothing is under way at first, and every object shows the empty sequence.
LEMMA InitialStep == Init => Underway /\ Abstract!Init
<1> SUFFICES ASSUME Init
             PROVE  Underway /\ Abstract!Init
  OBVIOUS
<1>1. tmp.size = 0 /\ Len(source) = 0 /\ Idle
  BY DEF Init, Fresh, Idle
<1>2. Contents(Fresh) = << >>
  BY EmptiedFacts, NoContents DEF Fresh
<1>3. [o \in Obj |-> Contents(deque[o])] = [o \in Obj |-> << >>]
  BY <1>2 DEF Init
<1> QED BY <1>1, <1>3 DEF Init, Underway, Abstract!Init

\* Each call is the call of SequenceDeque; a constructor does its work when it
\* ends, and an assignment empties its target when it begins.
LEMMA SequenceStep ==
  ASSUME ~ReuseEmptied
  PROVE  IInv /\ Underway /\ [Next]_vars => Underway' /\ [Abstract!Next]_Shown
<1> SUFFICES ASSUME IInv, Underway, [Next]_vars
             PROVE  Underway' /\ [Abstract!Next]_Shown
  OBVIOUS
<1>0. /\ \A o \in Obj : Good(deque[o])
      /\ \A o \in Obj : Shown[o] = Contents(deque[o])
  BY DEF IInv, Shown
<1>1. ASSUME NEW o \in Obj, NEW v \in Value, PushFront(o, v)
      PROVE  Underway' /\ Abstract!PushFront(o, v)
  <2>1. PICK e : e = PushedFront(deque[o], v)
    OBVIOUS
  <2>2. deque' = [deque EXCEPT ![o] = e] /\ Idle /\ UNCHANGED <<target, source, tmp>>
    BY <1>1, <2>1 DEF PushFront
  <2>3. Enters(deque[o], 1 .. BlockCapacity - 1)
    BY <1>1 DEF PushFront, Usable, Enters
  <2>4. Contents(e) = <<v>> \o Shown[o]
    BY <1>0, <2>1, <2>3, PushFrontContents DEF Cell
  <2>5. Shown' = [Shown EXCEPT ![o] = <<v>> \o Shown[o]]
    BY <2>2, <2>4, OneShown
  <2> QED BY <2>2, <2>5, StillIdle DEF Abstract!PushFront, Shown
<1>2. ASSUME NEW o \in Obj, NEW v \in Value, PushBack(o, v)
      PROVE  Underway' /\ Abstract!PushBack(o, v)
  <2>1. PICK e : e = PushedBack(deque[o], v)
    OBVIOUS
  <2>2. deque' = [deque EXCEPT ![o] = e] /\ Idle /\ UNCHANGED <<target, source, tmp>>
    BY <1>2, <2>1 DEF PushBack
  <2>3. Enters(deque[o], 0 .. BlockCapacity - 1)
    BY <1>2, CapacityAssumption DEF PushBack, Usable, Enters
  <2>4. Contents(e) = Append(Shown[o], v)
    BY <1>0, <2>1, <2>3, PushBackContents DEF Cell
  <2>5. Shown' = [Shown EXCEPT ![o] = Append(Shown[o], v)]
    BY <2>2, <2>4, OneShown
  <2> QED BY <2>2, <2>5, StillIdle DEF Abstract!PushBack, Shown
<1>3. ASSUME NEW o \in Obj, PopFront(o)
      PROVE  Underway' /\ Abstract!PopFront(o)
  <2>1. PICK e : e = PoppedFront(deque[o])
    OBVIOUS
  <2>2. /\ deque' = [deque EXCEPT ![o] = e] /\ Idle /\ UNCHANGED <<target, source, tmp>>
        /\ deque[o].size > 0
    BY <1>3, <2>1 DEF PopFront
  <2>3. Shown[o] # << >> /\ Contents(e) = Tail(Shown[o])
    BY <1>0, <2>1, <2>2, PopFrontContents
  <2>4. Shown' = [Shown EXCEPT ![o] = Tail(Shown[o])]
    <3>1. Shown' = [Shown EXCEPT ![o] = Contents(e)]
      BY <2>2, OneShown
    <3> QED BY <2>3, <3>1
  <2>5. Abstract!PopFront(o)
    BY <2>3, <2>4 DEF Abstract!PopFront, Shown
  <2> QED BY <2>2, <2>5, StillIdle
<1>4. ASSUME NEW o \in Obj, PopBack(o)
      PROVE  Underway' /\ Abstract!PopBack(o)
  <2>1. PICK e : e = PoppedBack(deque[o])
    OBVIOUS
  <2>2. /\ deque' = [deque EXCEPT ![o] = e] /\ Idle /\ UNCHANGED <<target, source, tmp>>
        /\ deque[o].size > 0
    BY <1>4, <2>1 DEF PopBack
  <2>3. Shown[o] # << >> /\ Contents(e) = SubSeq(Shown[o], 1, Len(Shown[o]) - 1)
    BY <1>0, <2>1, <2>2, PopBackContents
  <2>4. Shown' = [Shown EXCEPT ![o] = SubSeq(Shown[o], 1, Len(Shown[o]) - 1)]
    <3>1. Shown' = [Shown EXCEPT ![o] = Contents(e)]
      BY <2>2, OneShown
    <3> QED BY <2>3, <3>1
  <2>5. Abstract!PopBack(o)
    BY <2>3, <2>4 DEF Abstract!PopBack, Shown
  <2> QED BY <2>2, <2>5, StillIdle
<1>5. ASSUME NEW o \in Obj, deque' = [deque EXCEPT ![o] = Cleared(@)]
      PROVE  Abstract!Clear(o) /\ \A p \in Obj \ {o} : deque'[p] = deque[p]
  <2>1. PICK e : e = Cleared(deque[o])
    OBVIOUS
  <2>2. deque' = [deque EXCEPT ![o] = e]
    BY <1>5, <2>1
  <2>3. Good(e) /\ e.size = 0
    <3>1. Good(e)
      BY <1>0, <2>1, EmptiedFacts
    <3>2. deque[o] = [blocks |-> deque[o].blocks, head_index |-> deque[o].head_index,
                      tail_index |-> deque[o].tail_index, size |-> deque[o].size]
      BY <1>0 DEF Good, DequeOK
    <3>3. e.size = 0
      BY <2>1, <3>2 DEF Cleared
    <3> QED BY <3>1, <3>3
  <2>4. Contents(e) = << >>
    BY <2>3, NoContents
  <2>5. Shown' = [Shown EXCEPT ![o] = << >>] /\ \A p \in Obj \ {o} : deque'[p] = deque[p]
    BY <2>2, <2>4, OneShown
  <2> QED BY <2>5 DEF Abstract!Clear, Shown
<1>6. ASSUME NEW o \in Obj, Clear(o)
      PROVE  Underway' /\ Abstract!Clear(o)
  BY <1>5, <1>6, StillIdle DEF Clear
<1>7. ASSUME NEW o \in Obj, NEW list \in Lists, ConstructCall(o, list)
      PROVE  Underway' /\ UNCHANGED Shown
  <2>1. tmp.size = 0 /\ o # None /\ Len(list) \in Nat
    BY <1>7, JunkAssumption, ListsAssumption DEF ConstructCall, Underway, Fresh
  <2>2. deque' = deque /\ tmp' = tmp /\ target' = o /\ source' = list
    BY <1>7 DEF ConstructCall
  <2> QED BY <2>1, <2>2 DEF Underway, Idle, Shown
<1>8. ASSUME NEW o \in Obj, NEW p \in Obj \ {o}, CopyCall(o, p)
      PROVE  Underway' /\ Abstract!Clear(o)
  <2>1. Abstract!Clear(o) /\ deque'[p] = deque[p]
    BY <1>5, <1>8 DEF CopyCall
  <2>2. tmp.size = 0 /\ o # None
    BY <1>8, JunkAssumption DEF CopyCall, Underway, Fresh
  <2>3. tmp' = tmp /\ target' = o /\ source' = Contents(deque'[p])
    BY <1>8, <2>1 DEF CopyCall
  <2>4. Len(source') \in Nat
    <3>1. source' \in Seq(Cell)
      BY <1>0, <2>1, <2>3, ContentsFacts
    <3> QED BY <3>1
  <2> QED BY <2>1, <2>2, <2>3, <2>4 DEF Underway, Idle
<1>9. ASSUME PushNext
      PROVE  Underway' /\ UNCHANGED Shown
  <2>1. PICK n \in Nat : n = tmp.size
    BY DEF IInv, Good, DequeOK
  <2>2. PICK v : v = source[n + 1]
    OBVIOUS
  <2>3. /\ n < Len(source) /\ source \in Seq(Cell) /\ Len(source) \in Nat /\ ~Idle
        /\ tmp' = PushedBack(tmp, v) /\ UNCHANGED <<deque, target, source>>
    BY <1>9, <2>1, <2>2 DEF PushNext, IInv
  <2>4. v \in Cell
    <3>1. n + 1 \in 1 .. Len(source)
      BY <2>3
    <3> QED BY <2>2, <2>3, <3>1, ElementOfSeq
  <2>5. /\ tmp'.size = n + 1 /\ Element(tmp', n) = v
        /\ \A i \in 0 .. n - 1 : Element(tmp', i) = Element(tmp, i)
    BY <2>1, <2>3, <2>4, PushedBackFacts DEF IInv
  <2>6. ASSUME NEW i \in 1 .. n + 1
        PROVE  Element(tmp', i - 1) = source[i]
    <3>1. CASE i = n + 1
      <4>1. i - 1 = n
        BY <3>1
      <4> QED BY <2>2, <2>5, <3>1, <4>1
    <3>2. CASE i # n + 1
      <4>1. i \in 1 .. n /\ i - 1 \in 0 .. n - 1
        BY <3>2
      <4> QED BY <2>1, <2>5, <4>1 DEF Underway
    <3> QED BY <3>1, <3>2
  <2> QED BY <2>3, <2>5, <2>6 DEF Underway, Idle, Shown
<1>10. ASSUME PushNextThrows
       PROVE  Underway' /\ UNCHANGED Shown
  BY <1>10, Finished DEF PushNextThrows, Shown
<1>11. ASSUME ConstructDone
       PROVE  Underway' /\ Abstract!Next
  <2>1. PICK o \in Obj : o = target
    BY <1>11 DEF ConstructDone, Idle, IInv
  <2>2. deque' = [deque EXCEPT ![o] = tmp] /\ Finish /\ ~Idle /\ tmp.size = Len(source)
    BY <1>11, <2>1 DEF ConstructDone
  <2>3. Contents(tmp) = source
    <3>1. /\ Contents(tmp) \in Seq(Cell) /\ Len(Contents(tmp)) = tmp.size
          /\ \A i \in 1 .. tmp.size : Contents(tmp)[i] = Element(tmp, i - 1)
      BY ContentsFacts DEF IInv
    <3>2. source \in Seq(Cell) /\ Len(source) = Len(Contents(tmp))
      BY <2>2, <3>1 DEF IInv
    <3>3. \A i \in 1 .. Len(source) : Contents(tmp)[i] = source[i]
      BY <2>2, <3>1 DEF Underway
    <3> QED BY <3>1, <3>2, <3>3, SeqEqual
  <2>4. Shown' = [Shown EXCEPT ![o] = source]
    BY <2>2, <2>3, OneShown
  <2>5. CASE source \in Lists
    <3>1. Abstract!Construct(o, source)
      BY <2>4 DEF Abstract!Construct, Shown
    <3> QED BY <2>2, <2>5, <3>1, Finished DEF Abstract!Next
  <2>6. CASE \E p \in Obj \ {o} : source = Contents(deque[p])
    <3>1. PICK p \in Obj \ {o} : source = Shown[p]
      BY <1>0, <2>6
    <3>2. Abstract!Copy(o, p)
      BY <2>4, <3>1 DEF Abstract!Copy, Shown
    <3> QED BY <2>2, <3>2, Finished DEF Abstract!Next
  <2> QED BY <2>1, <2>2, <2>5, <2>6 DEF Underway
<1>12. ASSUME NEW o \in Obj, NEW p \in Obj \ {o}, MoveAssign(o, p)
       PROVE  Underway' /\ Abstract!Move(o, p)
  <2>1. PICK e, f : e = deque[p] /\ f = MovedFrom
    OBVIOUS
  <2>2. /\ deque' = [q \in Obj |-> IF q = p THEN f ELSE IF q = o THEN e ELSE deque[q]]
        /\ Idle /\ UNCHANGED <<target, source, tmp>>
    BY <1>12, <2>1 DEF MoveAssign, IInv
  <2>3. Contents(e) = Shown[p] /\ Contents(f) = << >>
    BY <1>0, <2>1, EmptiedFacts, NoContents DEF MovedFrom
  <2>4. Shown' = [Shown EXCEPT ![o] = Shown[p], ![p] = << >>]
    <3>1. Shown' = [q \in Obj |-> IF q = p THEN Contents(f)
                                   ELSE IF q = o THEN Contents(e) ELSE Shown[q]]
      BY <2>2, TwoShown
    <3> QED BY <2>3, <3>1 DEF Shown
  <2>5. Abstract!Move(o, p)
    BY <2>4 DEF Abstract!Move, Shown
  <2> QED BY <2>2, <2>5, StillIdle
<1>13. ASSUME NEW o \in Obj, NEW p \in Obj \ {o}, Swap(o, p)
       PROVE  Underway' /\ Abstract!Swap(o, p)
  <2>1. PICK e, f : e = deque[p] /\ f = deque[o]
    OBVIOUS
  <2>2. /\ deque' = [q \in Obj |-> IF q = p THEN f ELSE IF q = o THEN e ELSE deque[q]]
        /\ Idle /\ UNCHANGED <<target, source, tmp>>
    BY <1>13, <2>1 DEF Swap, IInv
  <2>3. Contents(e) = Shown[p] /\ Contents(f) = Shown[o]
    BY <1>0, <2>1
  <2>4. Shown' = [Shown EXCEPT ![o] = Shown[p], ![p] = Shown[o]]
    <3>1. Shown' = [q \in Obj |-> IF q = p THEN Contents(f)
                                   ELSE IF q = o THEN Contents(e) ELSE Shown[q]]
      BY <2>2, TwoShown
    <3> QED BY <2>3, <3>1 DEF Shown
  <2>5. Abstract!Swap(o, p)
    BY <2>4 DEF Abstract!Swap, Shown
  <2> QED BY <2>2, <2>5, StillIdle
<1>14. CASE UNCHANGED vars
  BY <1>14 DEF vars, Underway, Idle, Shown
<1>15. CASE Next
  <2>1. ASSUME NEW o \in Obj, NEW v \in Value, PushFront(o, v) \/ PushBack(o, v)
        PROVE  Underway' /\ Abstract!Next
    BY <1>1, <1>2, <2>1, Zenon DEF Abstract!Next
  <2>2. ASSUME NEW o \in Obj, PopFront(o) \/ PopBack(o) \/ Clear(o)
        PROVE  Underway' /\ Abstract!Next
    BY <1>3, <1>4, <1>6, <2>2, Zenon DEF Abstract!Next
  <2>3. ASSUME NEW o \in Obj, NEW p \in Obj \ {o},
               CopyCall(o, p) \/ MoveAssign(o, p) \/ Swap(o, p)
        PROVE  Underway' /\ Abstract!Next
    BY <1>8, <1>12, <1>13, <2>3, Zenon DEF Abstract!Next
  <2> QED BY <1>7, <1>9, <1>10, <1>11, <1>15, <2>1, <2>2, <2>3, Zenon DEF Next
<1> QED BY <1>14, <1>15

\* The deque on blocks implements a sequence per object, whichever blocks come and
\* go at either end; a copy that fails leaves its target empty.
THEOREM SequenceCorrect == ASSUME ~ReuseEmptied PROVE Spec => SequenceSpec
<1>1. IInv /\ Underway /\ [Next]_vars => Underway' /\ [Abstract!Next]_Shown
  BY SequenceStep
<1>2. Spec => []IInv
  BY Invariance
<1> QED BY <1>1, <1>2, InitialStep, PTL DEF Spec, SequenceSpec, Abstract!Spec, Shown
=============================================================================
