--------------------------- MODULE SequenceDeque ---------------------------
(***************************************************************************)
(* What the two deques of the library promise: each object is a sequence   *)
(* that grows and shrinks at both ends, and a copy, a move or a swap       *)
(* carries whole sequences from object to object.                          *)
(***************************************************************************)
EXTENDS Sequences, Integers

CONSTANTS Obj,      \* the objects of a caller
          Value,    \* the values stored
          Lists     \* the sequences a caller constructs a deque from

VARIABLE items      \* items[o] is the sequence o holds

Init == items = [o \in Obj |-> << >>]

PushBack(o, v)  == items' = [items EXCEPT ![o] = Append(@, v)]
PushFront(o, v) == items' = [items EXCEPT ![o] = <<v>> \o @]

PopBack(o)  == /\ items[o] # << >>
               /\ items' = [items EXCEPT ![o] = SubSeq(@, 1, Len(@) - 1)]
PopFront(o) == /\ items[o] # << >>
               /\ items' = [items EXCEPT ![o] = Tail(@)]

Construct(o, s) == items' = [items EXCEPT ![o] = s]
Clear(o)        == items' = [items EXCEPT ![o] = << >>]
Copy(o, p)      == items' = [items EXCEPT ![o] = items[p]]
Move(o, p)      == items' = [items EXCEPT ![o] = items[p], ![p] = << >>]
Swap(o, p)      == items' = [items EXCEPT ![o] = items[p], ![p] = items[o]]

Next == \E o \in Obj :
          \/ \E v \in Value : PushBack(o, v) \/ PushFront(o, v)
          \/ PopBack(o) \/ PopFront(o) \/ Clear(o)
          \/ \E s \in Lists : Construct(o, s)
          \/ \E p \in Obj \ {o} : Copy(o, p) \/ Move(o, p) \/ Swap(o, p)

Spec == Init /\ [][Next]_items
=============================================================================
