---------------------------- MODULE BlocksDeque ----------------------------
(***************************************************************************)
(* my::blocksbased::deque (deque_blocks_based.hpp): a deque in a doubly    *)
(* linked list of fixed blocks, of which the first is entered at           *)
(* head_index and the last left at tail_index.  The list is the sequence   *)
(* of its blocks; without blocks head_ and tail_ are nullptr.              *)
(*                                                                         *)
(* A member function is one action, but for the two constructors that push *)
(* element after element into a new object, and may fail in between.       *)
(* Popping from an empty deque is undefined, so callers do not do it.      *)
(***************************************************************************)
EXTENDS Sequences, Integers

CONSTANTS Obj, Value,
          Junk,             \* what a cell holds that nobody has written
          None,             \* no object
          BlockCapacity,
          MaxSize,          \* bound: no deque grows beyond it
          Lists,            \* the initializer lists of the callers
          ReuseEmptied      \* do callers push into a deque that lost its blocks?

ASSUME JunkAssumption == Junk \notin Value /\ None \notin Obj
ASSUME CapacityAssumption == BlockCapacity \in Nat \ {0}
ASSUME SizeAssumption == MaxSize \in Nat
ASSUME ListsAssumption == \A s \in Lists : s \in Seq(Value) /\ Len(s) <= MaxSize
ASSUME ReuseAssumption == ReuseEmptied \in BOOLEAN

VARIABLES deque,    \* the members of each object
          target,   \* the object the running constructor is for, or None
          source,   \* the values it pushes
          tmp       \* the object it builds

vars == <<deque, target, source, tmp>>

Fresh == [blocks |-> << >>, head_index |-> BlockCapacity \div 2,
          tail_index |-> BlockCapacity \div 2, size |-> 0]

Init == /\ deque = [o \in Obj |-> Fresh]
        /\ target = None /\ source = << >> /\ tmp = Fresh

Block == [r \in 0 .. BlockCapacity - 1 |-> Junk]

\* `if (!head_) head_ = tail_ = make_block()`
FirstBlock(d) == IF d.blocks = << >> THEN [d EXCEPT !.blocks = <<Block>>] ELSE d

\* The block in front of the first one, when that is full.
RoomInFront(d) ==
  IF d.head_index = 0
  THEN [d EXCEPT !.blocks = <<Block>> \o @, !.head_index = BlockCapacity]
  ELSE d

StoreFront(d, v) ==
  [d EXCEPT !.blocks[1][d.head_index - 1] = v, !.head_index = @ - 1, !.size = @ + 1]

PushedFront(d, v) == StoreFront(RoomInFront(FirstBlock(d)), v)

\* The block behind the last one, when that is full: one element too late, with
\* the index of the old block, and as it is.
RoomTooLate(d) ==
  IF d.tail_index > BlockCapacity
  THEN [d EXCEPT !.blocks = Append(@, Block), !.tail_index = 0]
  ELSE d

RoomKeepsIndex(d) ==
  IF d.tail_index = BlockCapacity
  THEN [d EXCEPT !.blocks = Append(@, Block), !.tail_index = BlockCapacity - 1]
  ELSE d

RoomAtBack(d) ==
  IF d.tail_index = BlockCapacity
  THEN [d EXCEPT !.blocks = Append(@, Block), !.tail_index = 0]
  ELSE d

StoreBack(d, v) ==
  [d EXCEPT !.blocks[Len(d.blocks)][d.tail_index] = v, !.tail_index = @ + 1,
            !.size = @ + 1]

PushedBack(d, v) == StoreBack(RoomAtBack(FirstBlock(d)), v)

\* What a cell out of use holds is never read: it is made the same for all.
Scrub(d, block, room) == [d EXCEPT !.blocks[block][room] = Junk]

\* The first block is deleted when its last cell is popped.
PoppedFront(d) ==
  LET e == [Scrub(d, 1, d.head_index) EXCEPT !.head_index = @ + 1, !.size = @ - 1]
  IN  IF e.head_index = BlockCapacity
      THEN [e EXCEPT !.blocks = Tail(@), !.head_index = 0] ELSE e

\* A last block that goes while it still has an element.
PoppedEarly(d) ==
  LET e == [Scrub(d, Len(d.blocks), d.tail_index - 1)
              EXCEPT !.tail_index = @ - 1, !.size = @ - 1]
  IN  IF e.tail_index = 1 /\ Len(e.blocks) > 1
      THEN [e EXCEPT !.blocks = SubSeq(@, 1, Len(@) - 1),
                     !.tail_index = BlockCapacity] ELSE e

\* The last block is deleted when its first cell is popped.
PoppedBack(d) ==
  LET e == [Scrub(d, Len(d.blocks), d.tail_index - 1)
              EXCEPT !.tail_index = @ - 1, !.size = @ - 1]
  IN  IF e.tail_index = 0
      THEN [e EXCEPT !.blocks = SubSeq(@, 1, Len(@) - 1),
                     !.tail_index = BlockCapacity] ELSE e

\* clear() does not touch the two indices.
Cleared(d) == [d EXCEPT !.blocks = << >>, !.size = 0]

\* What a move leaves behind.
MovedFrom == [blocks |-> << >>, head_index |-> 0, tail_index |-> 0, size |-> 0]
-----------------------------------------------------------------------------
\* Both indices of a deque without blocks must say where its first block is
\* entered.  clear(), a move and a pop that deletes the last block do not
\* restore that.
Usable(d) == \/ d.blocks # << >>
             \/ /\ d.head_index = d.tail_index
                /\ d.head_index \in 1 .. BlockCapacity - 1
             \/ ReuseEmptied

Idle == target = None

PushFront(o, v) ==
  /\ Idle /\ Usable(deque[o]) /\ deque[o].size < MaxSize
  /\ deque' = [deque EXCEPT ![o] = PushedFront(@, v)]
  /\ UNCHANGED <<target, source, tmp>>

PushBack(o, v) ==
  /\ Idle /\ Usable(deque[o]) /\ deque[o].size < MaxSize
  /\ deque' = [deque EXCEPT ![o] = PushedBack(@, v)]
  /\ UNCHANGED <<target, source, tmp>>

PopFront(o) ==
  /\ Idle /\ deque[o].size > 0
  /\ deque' = [deque EXCEPT ![o] = PoppedFront(@)]
  /\ UNCHANGED <<target, source, tmp>>

PopBack(o) ==
  /\ Idle /\ deque[o].size > 0
  /\ deque' = [deque EXCEPT ![o] = PoppedBack(@)]
  /\ UNCHANGED <<target, source, tmp>>

Clear(o) ==
  /\ Idle
  /\ deque' = [deque EXCEPT ![o] = Cleared(@)]
  /\ UNCHANGED <<target, source, tmp>>

\* element_access, where a walk past the last block finds nothing to read.
Element(d, pos) ==
  LET block == (pos + d.head_index) \div BlockCapacity + 1
      room  == (pos + d.head_index) % BlockCapacity
  IN  IF block \in DOMAIN d.blocks THEN d.blocks[block][room] ELSE Junk

Contents(d) == [i \in 1 .. d.size |-> Element(d, i - 1)]

\* o = deque{list}
ConstructCall(o, list) ==
  /\ Idle
  /\ target' = o /\ source' = list
  /\ UNCHANGED <<deque, tmp>>

\* o = p: the object is cleared before the copy is made.
CopyCall(o, p) ==
  /\ Idle
  /\ deque' = [deque EXCEPT ![o] = Cleared(@)]
  /\ target' = o /\ source' = Contents(deque[p])
  /\ UNCHANGED tmp

Finish == target' = None /\ source' = << >> /\ tmp' = Fresh

\* One iteration of the constructor.
PushNext ==
  /\ ~Idle /\ tmp.size < Len(source)
  /\ tmp' = PushedBack(tmp, source[tmp.size + 1])
  /\ UNCHANGED <<deque, target, source>>

\* make_block throws: the constructor is left, the object stays as it is.
PushNextThrows ==
  /\ ~Idle /\ tmp.size < Len(source)
  /\ Finish
  /\ UNCHANGED deque

\* The new object is swapped in, and what it replaces is deleted.
ConstructDone ==
  /\ ~Idle /\ tmp.size = Len(source)
  /\ deque' = [deque EXCEPT ![target] = tmp]
  /\ Finish

MoveAssign(o, p) ==
  /\ Idle
  /\ deque' = [deque EXCEPT ![o] = deque[p], ![p] = MovedFrom]
  /\ UNCHANGED <<target, source, tmp>>

Swap(o, p) ==
  /\ Idle
  /\ deque' = [deque EXCEPT ![o] = deque[p], ![p] = deque[o]]
  /\ UNCHANGED <<target, source, tmp>>

Next ==
  \/ \E o \in Obj, v \in Value : PushFront(o, v) \/ PushBack(o, v)
  \/ \E o \in Obj : PopFront(o) \/ PopBack(o) \/ Clear(o)
  \/ \E o \in Obj, list \in Lists : ConstructCall(o, list)
  \/ \E o \in Obj : \E p \in Obj \ {o} : CopyCall(o, p) \/ MoveAssign(o, p) \/ Swap(o, p)
  \/ PushNext \/ PushNextThrows \/ ConstructDone

Spec == Init /\ [][Next]_vars
-----------------------------------------------------------------------------
(***************************************************************************)
(* Properties                                                              *)
(***************************************************************************)
Cell == Value \cup {Junk}

\* The two indices, the number of blocks and size() agree: the cells from
\* head_index of the first block to tail_index of the last are the elements.
\* back() reads data[tail_index - 1], so tail_index is never 0.
Consistent(d) ==
  IF d.blocks = << >> THEN d.size = 0
  ELSE /\ d.head_index < BlockCapacity
       /\ d.tail_index \in 1 .. BlockCapacity
       /\ d.size = (Len(d.blocks) - 1) * BlockCapacity + d.tail_index - d.head_index

DequeOK(d) ==
  /\ d = [blocks |-> d.blocks, head_index |-> d.head_index,
          tail_index |-> d.tail_index, size |-> d.size]
  /\ d.blocks \in Seq([0 .. BlockCapacity - 1 -> Cell])
  /\ d.head_index \in 0 .. BlockCapacity
  /\ d.tail_index \in 0 .. BlockCapacity
  /\ d.size \in Nat

TypeOK == /\ deque = [o \in Obj |-> deque[o]]
          /\ \A o \in Obj : DequeOK(deque[o])
          /\ DequeOK(tmp)
          /\ target \in Obj \cup {None}
          /\ source \in Seq(Cell)

\* At every moment, also while a copy is under way or after it has failed,
\* front(), back() and at() of each object find the elements size() counts.
EveryDequeConsistent == /\ \A o \in Obj : Consistent(deque[o])
                        /\ Consistent(tmp)

\* front() and at(0) of a deque with elements read an element, not a cell that
\* was never written: the test of push_back expects its first value in front.
FrontWasPushed == \A o \in Obj : deque[o].size > 0 => Element(deque[o], 0) \in Value

\* Each object behaves as a sequence, whichever blocks were added and deleted
\* at either end; a copy that fails leaves its target empty.
Abstract == INSTANCE SequenceDeque WITH items <- [o \in Obj |-> Contents(deque[o])]
SequenceSpec == Abstract!Spec
=============================================================================
