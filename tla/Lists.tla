-------------------------------- MODULE Lists --------------------------------
(***************************************************************************)
(* Two containers of one of five sequential kinds, or two adapters on a    *)
(* deque, side by side with the sequences their callers put into them:     *)
(* every call is made on the container and, with the same arguments, on    *)
(* the sequence.                                                           *)
(***************************************************************************)
EXTENDS ListWalks, Objects, SequencesExt

CONSTANTS Value, Default,
          Capacity,          \* of an array, a new vector, a block and a new buffer
          MaxCapacity,       \* bound on the buffer of a vector
          Node,              \* the heap
          MaxElements        \* bound on the elements of all objects

VARIABLES listKind,   \* the kind, the same for all objects
          list,       \* the objects (and the heap) of that kind
          values      \* what the callers expect each object to hold

listVars == <<listKind, list, values>>

ArrayList    == INSTANCE FixedList
ArrayForward == INSTANCE FixedForwardList
NodeList     == INSTANCE HeapList
NodeForward  == INSTANCE HeapForwardList
Vec          == INSTANCE Vector WITH InitialCapacity <- Capacity
Stack        == INSTANCE StackAdapter
                  WITH Obj <- Object, deque <- list, Junk <- NULL, BlockCapacity <- Capacity,
                       MaxSize <- MaxElements, ReuseEmptied <- TRUE, Lists <- {},
                       None <- {}, target <- {}, source <- {}, tmp <- {}
Queue        == INSTANCE QueueAdapter
                  WITH Obj <- Object, deque <- list, Junk <- NULL,
                       InitialCapacity <- Capacity, MaxSize <- MaxElements

ListInit ==
  /\ values = [o \in Object |-> << >>]
  /\ \/ listKind = "array list"         /\ ArrayList!Init
     \/ listKind = "array forward list" /\ ArrayForward!Init
     \/ listKind = "heap list"          /\ NodeList!Init
     \/ listKind = "heap forward list"  /\ NodeForward!Init
     \/ listKind = "vector"             /\ Vec!Init
     \/ listKind = "stack"              /\ Stack!InitStacks
     \/ listKind = "queue"              /\ Queue!Init

FewElements == Within(values, MaxElements)
SameKind == UNCHANGED listKind

\* begin() incremented i - 1 times.
ArrayAt(o, i)        == Advanced(ArrayList!Forward(o), i, Capacity)
ArrayForwardAt(o, i) == Advanced(ArrayForward!Forward(o), i, Capacity)
NodeAt(o, i)         == Advanced(NodeList!Forward(o), i, NULL)
NodeForwardAt(o, i)  == Advanced(NodeForward!Forward(o), i, NULL)

\* Insertion throws and changes nothing: the array is full, or the heap is.
NoRoom(o) ==
  CASE listKind \in {"array list", "array forward list"} -> Len(values[o]) = Capacity
    [] listKind \in {"heap list", "heap forward list"}   -> list.live = Node
    [] OTHER                                             -> FALSE

InsertElement(o, i, v) ==
  /\ \/ listKind = "array list" /\ ArrayList!Insert(o, ArrayAt(o, i), v)
     \/ listKind = "heap list" /\ NodeList!Insert(o, NodeAt(o, i), v)
     \/ i = 1 /\ listKind = "array forward list" /\ ArrayForward!PushFront(o, v)
     \/ i = 1 /\ listKind = "heap forward list" /\ NodeForward!PushFront(o, v)
     \/ /\ i = Len(values[o]) + 1
        /\ \/ listKind = "vector" /\ Vec!PushBack(o, v)
           \/ listKind = "stack" /\ Stack!Push(o, v)
           \/ listKind = "queue" /\ Queue!Enqueue(o, v)
  /\ values' = [values EXCEPT ![o] = IF NoRoom(o) THEN @ ELSE InsertAt(@, i, v)]
  /\ SameKind /\ FewElements'

\* i is the position of an element, or end(): the list in an array takes end()
\* for the last element, the others refuse it.
EraseElement(o, i) ==
  LET end == Len(values[o]) + 1
  IN  /\ \/ /\ listKind = "array list" /\ values[o] # << >>
            /\ ArrayList!Erase(o, ArrayAt(o, i))
         \/ listKind = "heap list" /\ NodeList!Erase(o, NodeAt(o, i))
         \/ listKind = "array forward list" /\ ArrayForward!Erase(o, ArrayForwardAt(o, i))
         \/ listKind = "heap forward list" /\ NodeForward!Erase(o, NodeForwardAt(o, i))
      /\ values' = [values EXCEPT ![o] = IF i < end THEN RemoveAt(@, i)
                                         ELSE IF listKind = "array list" THEN Front(@)
                                         ELSE @]
      /\ SameKind

PopFirst(o) ==
  /\ \/ listKind = "heap list" /\ NodeList!PopFront(o)
     \/ listKind = "array forward list" /\ ArrayForward!PopFront(o)
     \/ listKind = "heap forward list" /\ NodeForward!PopFront(o)
     \/ listKind = "queue" /\ Queue!Dequeue(o)
  /\ values' = [values EXCEPT ![o] = IF @ = << >> THEN @ ELSE Tail(@)]
  /\ SameKind

PopLast(o) ==
  /\ \/ listKind = "heap list" /\ NodeList!PopBack(o)
     \/ listKind = "vector" /\ Vec!PopBack(o)
     \/ listKind = "stack" /\ Stack!Pop(o)
  /\ values' = [values EXCEPT ![o] = IF @ = << >> THEN @ ELSE Front(@)]
  /\ SameKind

FromList(o, s) == /\ listKind = "vector" /\ Vec!FromList(o, s)
                  /\ values' = [values EXCEPT ![o] = s]
                  /\ SameKind /\ FewElements'

ReverseElements(o) == /\ listKind = "heap forward list" /\ NodeForward!ReverseList(o)
                      /\ values' = [values EXCEPT ![o] = Reverse(@)]
                      /\ SameKind

ClearElements(o) ==
  /\ \/ listKind = "array list" /\ ArrayList!Clear(o)
     \/ listKind = "heap list" /\ NodeList!Clear(o)
     \/ listKind = "heap forward list" /\ NodeForward!Clear(o)
  /\ values' = [values EXCEPT ![o] = << >>]
  /\ SameKind

\* A copy that cannot be allocated changes neither object.  Stacks are not copied:
\* the copy constructor of their deque reads from the other end.
CopyElements(o, p) ==
  LET fails == /\ listKind \in {"heap list", "heap forward list"}
               /\ Cardinality(Node \ list.live) < Len(values[p])
  IN  /\ \/ listKind = "array list" /\ ArrayList!Copy(o, p)
         \/ listKind = "array forward list" /\ ArrayForward!Copy(o, p)
         \/ listKind = "heap list" /\ NodeList!Copy(o, p)
         \/ listKind = "heap forward list" /\ NodeForward!Copy(o, p)
         \/ listKind = "vector" /\ Vec!Copy(o, p)
         \/ listKind = "queue" /\ Queue!CopyAssign(o, p)
      /\ values' = [values EXCEPT ![o] = IF fails THEN @ ELSE values[p]]
      /\ SameKind /\ FewElements'

MoveElements(o, p) ==
  /\ \/ listKind = "array list" /\ ArrayList!Move(o, p)
     \/ listKind = "array forward list" /\ ArrayForward!Move(o, p)
     \/ listKind = "heap list" /\ NodeList!Move(o, p)
     \/ listKind = "heap forward list" /\ NodeForward!Move(o, p)
     \/ listKind = "vector" /\ Vec!Move(o, p)
     \/ listKind = "stack" /\ Stack!MoveAssign(o, p)
     \/ listKind = "queue" /\ Queue!MoveAssign(o, p)
  /\ values' = [values EXCEPT ![o] = values[p], ![p] = << >>]
  /\ SameKind

SwapElements(o, p) ==
  /\ \/ listKind = "array list" /\ ArrayList!Swap(o, p)
     \/ listKind = "array forward list" /\ ArrayForward!Swap(o, p)
     \/ listKind = "heap list" /\ NodeList!Swap(o, p)
     \/ listKind = "heap forward list" /\ NodeForward!Swap(o, p)
     \/ listKind = "vector" /\ Vec!Swap(o, p)
     \/ listKind = "stack" /\ Stack!Swap(o, p)
     \/ listKind = "queue" /\ Queue!Swap(o, p)
  /\ values' = [values EXCEPT ![o] = values[p], ![p] = values[o]]
  /\ SameKind

ListNext ==
  \E o \in Object :
    \/ \E i \in 1..Len(values[o]) + 1, v \in Value : InsertElement(o, i, v)
    \/ \E i \in 1..Len(values[o]) + 1 : EraseElement(o, i)
    \/ PopFirst(o) \/ PopLast(o) \/ ReverseElements(o) \/ ClearElements(o)
    \/ \E s \in BoundedSeq(Value, 1) : FromList(o, s)
    \/ \E p \in Object \ {o} : CopyElements(o, p) \/ MoveElements(o, p) \/ SwapElements(o, p)
-----------------------------------------------------------------------------
(***************************************************************************)
(* Properties                                                              *)
(***************************************************************************)

\* Whatever was inserted, erased, reversed, copied, moved and swapped, in any
\* order and with calls that throw in between, a loop from begin() to end() meets
\* the elements its callers put there, in their order, and size() counts them.
HoldsWhatWasPut ==
  \A o \in Object :
    CASE listKind = "array list" ->
           ArrayList!Values(o) = values[o] /\ list[o].size = Len(values[o])
      [] listKind = "array forward list" ->
           ArrayForward!Values(o) = values[o] /\ list[o].size = Len(values[o])
      [] listKind = "heap list" ->
           NodeList!Values(o) = values[o] /\ list.size[o] = Len(values[o])
      [] listKind = "heap forward list" -> NodeForward!Values(o) = values[o]
      [] listKind = "vector" -> Vec!Values(o) = values[o]
      [] OTHER -> TRUE

\* A stack gives back what was pushed, last in first out, and a queue first in
\* first out, however often they were empty in between: a stack even on the deque
\* on blocks, which a queue must not be built on.
AdaptersKeepOrder ==
  \A o \in Object :
    /\ listKind = "stack" => Stack!Stacked(list[o]) = values[o]
    /\ listKind = "queue" => Queue!Queued(list[o]) = values[o]

\* A loop backwards from the last element (back(), --) meets the elements of a
\* doubly linked list in the opposite order, and ends in front of the first.
BackwardMirrorsForward ==
  \A o \in Object :
    CASE listKind = "array list" -> Mirrored(ArrayList!Forward(o), ArrayList!Backward(o))
      [] listKind = "heap list"  -> Mirrored(NodeList!Forward(o), NodeList!Backward(o))
      [] OTHER                   -> TRUE

\* No cell and no node is lost or in two places: the cells of an array are in the
\* list or in the free list, every heap node has one owner, and the elements of
\* a vector fit its buffer.  Lists in arrays that were moved are excepted, and
\* so are the nodes of a copy that threw.
StorageAccounted ==
  CASE listKind = "array list" ->
         \A o \in Object : list[o].moved \/ ArrayList!CellsAccounted(o)
    [] listKind = "array forward list" ->
         \A o \in Object : list[o].moved \/ ArrayForward!CellsAccounted(o)
    [] listKind = "heap list" -> NodeList!OwnedOnce
    [] listKind = "heap forward list" -> NodeForward!OwnedOnce
    [] listKind = "vector" -> \A o \in Object : Vec!InBounds(o)
    [] OTHER -> TRUE
=============================================================================
