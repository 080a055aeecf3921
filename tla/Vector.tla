------------------------------- MODULE Vector -------------------------------
(***************************************************************************)
(* my::vector (vector.hpp): `cells` are the elements [0, size_) of a       *)
(* buffer of capacity_ cells.  No caller pushes into a vector of capacity  *)
(* 0 (one that was moved from, or made from an empty list): 0 times the    *)
(* factor is 0, so it would write behind its buffer.                       *)
(***************************************************************************)
EXTENDS Integers, Sequences

CONSTANTS Object, Value,
          InitialCapacity,   \* the template parameter Capacity
          MaxCapacity        \* bound: no push makes a larger buffer

VARIABLE list

Factor == 2   \* REALLOCATION_FACTOR

Init == list = [o \in Object |-> [cells |-> << >>, capacity |-> InitialCapacity]]

\* `v = {...}`: a buffer of just the size of the list.
FromList(o, values) ==
  list' = [list EXCEPT ![o] = [cells |-> values, capacity |-> Len(values)]]

Reallocate(l, capacity) == [l EXCEPT !.capacity = capacity]

Full(l) == l.capacity < Len(l.cells) + 1

Roomy(l) == IF Full(l) THEN Reallocate(l, l.capacity * Factor) ELSE l

PushBack(o, v) ==
  /\ list[o].capacity > 0
  /\ Roomy(list[o]).capacity <= MaxCapacity
  /\ list' = [list EXCEPT ![o] = [Roomy(@) EXCEPT !.cells = Append(@, v)]]

\* --size_ without a test: callers do not pop from an empty vector.
PopBack(o) ==
  /\ list[o].cells # << >>
  /\ list' = [list EXCEPT ![o].cells = SubSeq(@, 1, Len(@) - 1)]

Copy(o, p) == list' = [list EXCEPT ![o] = list[p]]

Moved == [cells |-> << >>, capacity |-> 0]
Move(o, p) == list' = [list EXCEPT ![o] = list[p], ![p] = Moved]

Swap(o, p) == list' = [list EXCEPT ![o] = list[p], ![p] = list[o]]

Values(o) == list[o].cells

\* Every element was stored inside the buffer.
InBounds(o) == Len(list[o].cells) <= list[o].capacity
=============================================================================
