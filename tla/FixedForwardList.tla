--------------------------- MODULE FixedForwardList ---------------------------
(***************************************************************************)
(* my::arraybased::forward_list (forward_list_fixed_array.hpp): a singly   *)
(* linked list in the cells of an array, with a free list through the same *)
(* `next`.  Elements come and go at the front, or leave by cell number.    *)
(***************************************************************************)
EXTENDS ListWalks, FiniteSetsExt

CONSTANTS Object, Capacity, Default

VARIABLE list

Cell == 0..Capacity - 1

\* `moved`: the list was moved from and not assigned since.  Its free list
\* follows the links of the elements it had, and no caller inserts.
Fresh == [data |-> [c \in Cell |-> Default], next |-> [c \in Cell |-> c + 1],
          head |-> Capacity, free |-> 0, size |-> 0, moved |-> FALSE]

Init == list = [o \in Object |-> Fresh]

\* push_front, emplace_front; a full list throws.
Pushed(l, v) ==
  [l EXCEPT !.free = l.next[l.free], !.data[l.free] = v, !.next[l.free] = l.head,
            !.head = l.free, !.size = @ + 1]

PushFront(o, v) ==
  /\ ~list[o].moved
  /\ list' = [list EXCEPT ![o] = IF @.size >= Capacity THEN @ ELSE Pushed(@, v)]

\* The freed cell keeps its value in the code; it is never read again.
Popped(l) ==
  [l EXCEPT !.head = l.next[l.head], !.next[l.head] = l.free, !.free = l.head,
            !.data[l.head] = Default, !.size = @ - 1]

PopFront(o) == list' = [list EXCEPT ![o] = IF @.size = 0 THEN @ ELSE Popped(@)]

\* Cells that link to c, in the list of elements or in the free list.
Pointing(l, c) == {i \in Cell : l.next[i] = c}

\* The predecessor is linked past the erased cell only after that cell went to
\* the free list.
FreedFirst(l, c) ==
  LET i == Min(Pointing(l, c))
  IN  [l EXCEPT !.next[c] = l.free, !.next[i] = l.free, !.free = c,
                !.data[c] = Default, !.size = @ - 1]

CutOut(l, c) ==
  LET i == Min(Pointing(l, c))
  IN  [l EXCEPT !.next[i] = l.next[c], !.next[c] = l.free, !.free = c,
                !.data[c] = Default, !.size = @ - 1]

\* erase(index): the first cell that links to it is searched in the whole array.
Erase(o, c) ==
  list' = [list EXCEPT ![o] = IF @.size = 0 \/ c >= Capacity THEN @
                              ELSE IF c = @.head THEN Popped(@)
                              ELSE IF Pointing(@, c) = {} THEN @
                              ELSE CutOut(@, c)]

Copy(o, p) == list' = [list EXCEPT ![o] = list[p]]

Move(o, p) ==
  list' = [list EXCEPT ![o] = list[p],
             ![p] = [@ EXCEPT !.head = Capacity, !.free = 0, !.size = 0, !.moved = TRUE]]

Swap(o, p) == list' = [list EXCEPT ![o] = list[p], ![p] = list[o]]

Forward(o)  == Walk(list[o].next, list[o].head, Capacity, Capacity)
FreeWalk(o) == Walk(list[o].next, list[o].free, Capacity, Capacity)
Values(o)   == [i \in DOMAIN Forward(o) |-> list[o].data[Forward(o)[i]]]

\* Cells in use and free cells make up the array, each cell in one place.
CellsAccounted(o) == Partition(Forward(o), FreeWalk(o), Cell)
=============================================================================
