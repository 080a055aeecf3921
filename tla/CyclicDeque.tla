---------------------------- MODULE CyclicDeque ----------------------------
(***************************************************************************)
(* my::cyclicbufferbased::deque (deque_cyclicbuffer_based.hpp): a deque in *)
(* a buffer whose cells are used in a circle and that doubles when it is   *)
(* full.  A few objects of one caller; a member function is one action.    *)
(*                                                                         *)
(* pop_back and pop_front of an empty deque throw before they change       *)
(* anything, and so does an allocation that fails.                         *)
(***************************************************************************)
EXTENDS Sequences, Integers

CONSTANTS Obj, Value,
          Junk,               \* what a cell holds that nobody has written
          InitialCapacity,    \* INITIAL_CAPACITY, the template argument
          MaxSize             \* bound: no deque grows beyond it

ASSUME JunkAssumption == Junk \notin Value
ASSUME CapacityAssumption == InitialCapacity \in Nat \ {0}
ASSUME SizeAssumption == MaxSize \in Nat

VARIABLE deque    \* the four members of each object

Empty == [buffer |-> << >>, capacity |-> 0, size |-> 0, head |-> 0]

Init == deque = [o \in Obj |-> Empty]

\* The cell of the element at an offset from the head.
Index(d, offset) == (d.head + offset) % d.capacity

Element(d, pos) == d.buffer[Index(d, pos)]

\* A reallocation that copies the cells in the order of the buffer.
CopyCells(d, k) == d.buffer[k]

\* The k-th cell of the new buffer.
MovedCell(d, k) == Element(d, k)

Reallocate(d) ==
  LET c == IF d.capacity # 0 THEN d.capacity * 2 ELSE InitialCapacity
  IN  [buffer   |-> [k \in 0 .. c - 1 |-> IF k < d.size THEN MovedCell(d, k) ELSE Junk],
       capacity |-> c, size |-> d.size, head |-> 0]

\* `if (size_ == capacity_) reallocate()`
Roomy(d) == IF d.size = d.capacity THEN Reallocate(d) ELSE d

StoreBack(d, v) == [d EXCEPT !.buffer[Index(d, d.size)] = v, !.size = @ + 1]

PushBack(o, v) ==
  /\ deque[o].size < MaxSize
  /\ deque' = [deque EXCEPT ![o] = StoreBack(Roomy(@), v)]

\* The cell in front of the head.
BeforeHead(d) == IF d.head = 0 THEN d.capacity - 1 ELSE d.head - 1

StoreFront(d, v) ==
  [d EXCEPT !.buffer[BeforeHead(d)] = v, !.head = BeforeHead(d), !.size = @ + 1]

PushFront(o, v) ==
  /\ deque[o].size < MaxSize
  /\ deque' = [deque EXCEPT ![o] = StoreFront(Roomy(@), v)]

\* What a cell out of use holds is never read: it is made the same for all.
Scrub(d, k) == [d EXCEPT !.buffer[k] = Junk]

DropBack(d) == [Scrub(d, Index(d, d.size - 1)) EXCEPT !.size = @ - 1]

PopBack(o) ==
  /\ deque[o].size # 0
  /\ deque' = [deque EXCEPT ![o] = DropBack(@)]

\* A head that leaves the buffer at its end.
UnwrappedHead(d) == d.head + 1

NextHead(d) == (d.head + 1) % d.capacity

DropFront(d) == [Scrub(d, d.head) EXCEPT !.size = @ - 1, !.head = NextHead(d)]

PopFront(o) ==
  /\ deque[o].size # 0
  /\ deque' = [deque EXCEPT ![o] = DropFront(@)]

\* o = deque(count, v)
Construct(o, count, v) ==
  LET c == IF count > InitialCapacity THEN count ELSE InitialCapacity
  IN  deque' = [deque EXCEPT ![o] =
        [buffer   |-> [k \in 0 .. c - 1 |-> IF k < count THEN v ELSE Junk],
         capacity |-> c, size |-> count, head |-> 0]]

\* The copy keeps the capacity, the head and the cells in use.
CopyOf(d) ==
  [d EXCEPT !.buffer = [k \in 0 .. d.capacity - 1 |->
     IF \E i \in 0 .. d.size - 1 : Index(d, i) = k THEN d.buffer[k] ELSE Junk]]

CopyAssign(o, p) == deque' = [deque EXCEPT ![o] = CopyOf(deque[p])]

MoveAssign(o, p) == deque' = [deque EXCEPT ![o] = deque[p], ![p] = Empty]

Swap(o, p) == deque' = [deque EXCEPT ![o] = deque[p], ![p] = deque[o]]

Clear(o) == deque' = [deque EXCEPT ![o] = Empty]

Next == \E o \in Obj :
          \/ \E v \in Value : PushBack(o, v) \/ PushFront(o, v)
          \/ PopBack(o) \/ PopFront(o) \/ Clear(o)
          \/ \E count \in 0 .. MaxSize, v \in Value : Construct(o, count, v)
          \/ \E p \in Obj \ {o} : CopyAssign(o, p) \/ MoveAssign(o, p) \/ Swap(o, p)

Spec == Init /\ [][Next]_deque
-----------------------------------------------------------------------------
(***************************************************************************)
(* Properties                                                              *)
(***************************************************************************)
Cell == Value \cup {Junk}

\* The indices stay inside the buffer, and every element is a value that was
\* pushed, never a cell the buffer was allocated with.
DequeOK(d) ==
  /\ d = [buffer |-> d.buffer, capacity |-> d.capacity, size |-> d.size, head |-> d.head]
  /\ d.capacity \in Nat /\ d.size \in Nat /\ d.head \in Nat
  /\ d.buffer \in [0 .. d.capacity - 1 -> Cell]
  /\ d.size <= d.capacity
  /\ IF d.capacity = 0 THEN d.head = 0 ELSE d.head < d.capacity
  /\ \A i \in 0 .. d.size - 1 : Element(d, i) \in Value

TypeOK == deque = [o \in Obj |-> deque[o]] /\ \A o \in Obj : DequeOK(deque[o])

\* What operator[] and an iteration from begin() to end() read.
Contents(d) == [i \in 1 .. d.size |-> Element(d, i - 1)]

\* However often the elements have wrapped around the buffer, and whatever was
\* copied, moved or swapped, each object behaves as a sequence: a push or a pop
\* at one end changes that end only, a reallocation nothing at all.
FilledLists == {[i \in 1 .. n |-> v] : n \in 0 .. MaxSize, v \in Value}
Abstract == INSTANCE SequenceDeque
              WITH items <- [o \in Obj |-> Contents(deque[o])], Lists <- FilledLists
SequenceSpec == Abstract!Spec
=============================================================================
