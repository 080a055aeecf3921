------------------------------ MODULE FixedList ------------------------------
(***************************************************************************)
(* my::arraybased::list (list_fixed_array.hpp): a doubly linked list whose *)
(* nodes are the cells of an array.  Cells that hold no element form a     *)
(* free list through `next`; npos, the number behind the last cell, ends   *)
(* both lists.  The prev of a free cell is never read and kept at npos.    *)
(***************************************************************************)
EXTENDS ListWalks

CONSTANTS Object,     \* the lists
          Capacity,
          Default     \* value_type{}, also the 0 that erase stores

VARIABLE list

npos == Capacity
Cell == 0..Capacity - 1

\* `moved`: the list was moved from or to, and not made afresh since.  Its
\* free list then starts with a cell in use, and no caller inserts or erases.
Fresh == [data |-> [c \in Cell |-> Default], prev |-> [c \in Cell |-> npos],
          next |-> [c \in Cell |-> c + 1],
          head |-> npos, tail |-> npos, free |-> 0, size |-> 0, moved |-> FALSE]

Init == list = [o \in Object |-> Fresh]

\* `if (c != npos) storage_[c].next = v`, and the same for prev.
SetNext(l, c, v) == IF c = npos THEN l ELSE [l EXCEPT !.next[c] = v]
SetPrev(l, c, v) == IF c = npos THEN l ELSE [l EXCEPT !.prev[c] = v]

\* The first free cell takes the value.
Taken(l, v) == [l EXCEPT !.free = l.next[l.free], !.data[l.free] = v, !.size = @ + 1]

AtHead(l, c) ==
  [SetPrev(l, l.head, c) EXCEPT !.prev[c] = npos, !.next[c] = l.head, !.head = c,
                                !.tail = IF @ = npos THEN c ELSE @]

AtTail(l, c) ==
  [SetNext(l, l.tail, c) EXCEPT !.prev[c] = l.tail, !.next[c] = npos, !.tail = c,
                                !.head = IF @ = npos THEN c ELSE @]

Before(l, n, c) ==
  LET p == l.prev[n]
  IN  [SetPrev(SetNext(l, p, c), n, c) EXCEPT !.prev[c] = p, !.next[c] = n]

Inserted(l, pos, v) == IF pos = l.head THEN AtHead(Taken(l, v), l.free)
                       ELSE IF pos = npos THEN AtTail(Taken(l, v), l.free)
                       ELSE Before(Taken(l, v), pos, l.free)

\* insert, push_front, push_back; a full list throws before it changes.
Insert(o, pos, v) ==
  /\ ~list[o].moved
  /\ list' = [list EXCEPT ![o] = IF @.free = npos THEN @ ELSE Inserted(@, pos, v)]

\* Cell c leaves the list of elements.
Unlinked(l, c) ==
  [SetPrev(SetNext(l, l.prev[c], l.next[c]), l.next[c], l.prev[c])
     EXCEPT !.head = IF c = @ THEN l.next[c] ELSE @,
            !.tail = IF c = @ THEN l.prev[c] ELSE @]

\* The cell is not returned to the free list.
Dropped(l, c) ==
  [l EXCEPT !.data[c] = Default, !.prev[c] = npos, !.size = @ - 1]

Freed(l, c) ==
  [l EXCEPT !.data[c] = Default, !.prev[c] = npos,
            !.next[c] = l.free, !.free = c, !.size = @ - 1]

\* --end() reads `prev` behind the array.  The members that follow the array are
\* head_, tail_, head_free_: with elements of at most eight bytes, as in every
\* use of the class, the bytes at the place of `prev` are those of tail_.
BeforeEnd(l) == l.tail

\* erase, pop_front, pop_back.
Erase(o, pos) ==
  /\ ~list[o].moved
  /\ LET c == IF pos = npos THEN BeforeEnd(list[o]) ELSE pos
     IN  list' = [list EXCEPT ![o] = Freed(Unlinked(@, c), c)]

Clear(o) == list' = [list EXCEPT ![o] = Fresh]

Copy(o, p) == list' = [list EXCEPT ![o] = list[p]]

\* list tmp(std::move(other)); swap(tmp): the cells, head_, tail_ and size_ are
\* taken over, head_free_ is that of a new list.
Move(o, p) ==
  list' = [list EXCEPT
    ![o] = [list[p] EXCEPT !.free = 0, !.moved = TRUE],
    ![p] = [list[p] EXCEPT !.head = npos, !.tail = npos, !.size = 0, !.moved = TRUE]]

Swap(o, p) == list' = [list EXCEPT ![o] = list[p], ![p] = list[o]]

Forward(o)  == Walk(list[o].next, list[o].head, npos, Capacity)
Backward(o) == Walk(list[o].prev, list[o].tail, npos, Capacity)
FreeWalk(o) == Walk(list[o].next, list[o].free, npos, Capacity)
Values(o)   == [i \in DOMAIN Forward(o) |-> list[o].data[Forward(o)[i]]]

\* Cells in use and free cells make up the array, each cell in one place.
CellsAccounted(o) == Partition(Forward(o), FreeWalk(o), Cell)
=============================================================================
