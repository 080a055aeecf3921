------------------------------- MODULE HeapList -------------------------------
(***************************************************************************)
(* my::heapbased::list (list_linked_nodes.hpp): a doubly linked list of    *)
(* nodes from the heap.  All lists share one heap; the allocator hands out *)
(* any free node, here the least, and throws when there is none.           *)
(***************************************************************************)
EXTENDS ListWalks, SequencesExt

CONSTANTS Object, Node, NULL, Default

VARIABLE list

Tmp == "tmp"               \* the list that copy assignment builds
Header == Object \cup {Tmp}

\* live: allocated nodes; leaked: allocated ones that no list points to.
Init == list = [data   |-> [n \in Node |-> Default],
                prev   |-> [n \in Node |-> NULL],
                next   |-> [n \in Node |-> NULL],
                live   |-> {}, leaked |-> {},
                head   |-> [o \in Header |-> NULL],
                tail   |-> [o \in Header |-> NULL],
                size   |-> [o \in Header |-> 0]]

Free(l) == Node \ l.live
NewNode(l) == Min(Free(l))

\* `if (n) n->next = v`, and the same for prev.
SetNext(l, n, v) == IF n = NULL THEN l ELSE [l EXCEPT !.next[n] = v]
SetPrev(l, n, v) == IF n = NULL THEN l ELSE [l EXCEPT !.prev[n] = v]
SetHead(l, o, v) == [l EXCEPT !.head[o] = v]
SetTail(l, o, v) == [l EXCEPT !.tail[o] = v]

Allocated(l, o, n, v) == [l EXCEPT !.live = @ \cup {n}, !.data[n] = v, !.size[o] = @ + 1]

\* insert at end()
Appended(l, o, n) ==
  LET t  == l.tail[o]
      l1 == SetTail(SetNext([l EXCEPT !.prev[n] = t], t, n), o, n)
  IN  IF l.head[o] = NULL THEN SetHead(l1, o, n) ELSE l1

\* insert in front of the node curr
Before(l, o, curr, n) ==
  LET p  == l.prev[curr]
      l1 == [l EXCEPT !.next[n] = curr, !.prev[n] = p]
  IN  SetPrev(IF p # NULL THEN SetNext(l1, p, n) ELSE SetHead(l1, o, n), curr, n)

Inserted(l, o, curr, v) ==
  LET n  == NewNode(l)
      l1 == Allocated(l, o, n, v)
  IN  IF curr = NULL THEN Appended(l1, o, n) ELSE Before(l1, o, curr, n)

\* insert, push_front, push_back; `new Node` throws before anything changes.
Insert(o, curr, v) ==
  list' = IF Free(list) = {} THEN list ELSE Inserted(list, o, curr, v)

\* delete; nothing reads the node afterwards.
Deleted(l, nodes) ==
  [l EXCEPT !.live = @ \ nodes,
            !.data = [n \in Node |-> IF n \in nodes THEN Default ELSE @[n]],
            !.prev = [n \in Node |-> IF n \in nodes THEN NULL ELSE @[n]],
            !.next = [n \in Node |-> IF n \in nodes THEN NULL ELSE @[n]]]

\* The next node keeps its prev.
BypassedOneWay(l, o, p, n) ==
  LET l1 == IF p # NULL THEN SetNext(l, p, n) ELSE SetHead(l, o, n)
  IN  IF n # NULL THEN l1 ELSE SetTail(l1, o, p)

Bypassed(l, o, p, n) ==
  LET l1 == IF p # NULL THEN SetNext(l, p, n) ELSE SetHead(l, o, n)
  IN  IF n # NULL THEN SetPrev(l1, n, p) ELSE SetTail(l1, o, p)

\* erase; end() throws.
Erased(l, o, n) ==
  [Deleted(Bypassed(l, o, l.prev[n], l.next[n]), {n}) EXCEPT !.size[o] = @ - 1]

Erase(o, n) == list' = IF n = NULL THEN list ELSE Erased(list, o, n)

PopFront(o) == list' = IF list.size[o] = 0 THEN list ELSE Erased(list, o, list.head[o])
PopBack(o)  == list' = IF list.size[o] = 0 THEN list ELSE Erased(list, o, list.tail[o])

NodesOf(l, o) == LET walk == Walk(l.next, l.head[o], NULL, Cardinality(Node))
                 IN  {walk[i] : i \in DOMAIN walk}

Unheaded(l, o) == [l EXCEPT !.head[o] = NULL, !.tail[o] = NULL, !.size[o] = 0]

\* clear, free_nodes: the walk from head_ deletes every node it meets.
Cleared(l, o) == Unheaded(Deleted(l, NodesOf(l, o)), o)
Clear(o) == list' = Cleared(list, o)

SwapFields(f, o, p) == [f EXCEPT ![o] = f[p], ![p] = f[o]]
Swapped(l, o, p) == [l EXCEPT !.head = SwapFields(@, o, p),
                              !.tail = SwapFields(@, o, p),
                              !.size = SwapFields(@, o, p)]
Swap(o, p) == list' = Swapped(list, o, p)

Forward(o)  == Walk(list.next, list.head[o], NULL, Cardinality(Node))
Backward(o) == Walk(list.prev, list.tail[o], NULL, Cardinality(Node))
Values(o)   == [i \in DOMAIN Forward(o) |-> list.data[Forward(o)[i]]]

\* list tmp(other); swap(tmp); the destructor of tmp.  The copy constructor
\* pushes element by element; when a push throws no destructor runs for the
\* unfinished list and its nodes are lost.
Pushed(l, v) == Inserted(l, Tmp, NULL, v)

Copy(o, p) ==
  list' = IF Cardinality(Free(list)) < Len(Values(p))
          THEN [list EXCEPT !.live = Node, !.leaked = @ \cup Free(list)]
          ELSE Cleared(Swapped(FoldLeft(Pushed, list, Values(p)), o, Tmp), Tmp)

\* clear(), then three std::exchange.
Move(o, p) == list' = Unheaded(Swapped(Cleared(list, o), o, p), p)

\* Every allocated node is in one list, in one place, or leaked.
OwnedOnce ==
  LET total == FoldSet(LAMBDA o, n : n + Len(Forward(o)), 0, Object)
  IN  /\ UNION {NodesOf(list, o) : o \in Object} = list.live \ list.leaked
      /\ total = Cardinality(list.live \ list.leaked)
=============================================================================
