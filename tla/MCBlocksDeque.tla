--------------------------- MODULE MCBlocksDeque ---------------------------
(***************************************************************************)
(* BlocksDeque for TLC, with blocks of two cells.                          *)
(***************************************************************************)
EXTENDS BlocksDeque

OneObject == {"d"}
TwoObjects == {"d", "e"}
TwoValues == {"x", "y"}
NoLists == {}
ShortList == {<<"x", "y", "x">>}

\* A caller that uses the deque as a queue.
QueueSpec == Init /\ [][\E o \in Obj, v \in Value : PushBack(o, v) \/ PopFront(o)]_vars
=============================================================================
