--------------------------- MODULE HeapForwardList ---------------------------
(***************************************************************************)
(* my::heapbased::forward_list (forward_list_linked_nodes.hpp): a singly   *)
(* linked list of nodes from the heap that all lists share.                *)
(***************************************************************************)
EXTENDS ListWalks, SequencesExt

CONSTANTS Object, Node, NULL, Default

VARIABLE list

\* live: allocated nodes; leaked: allocated ones that no list points to.
Init == list = [data |-> [n \in Node |-> Default], next |-> [n \in Node |-> NULL],
                live |-> {}, leaked |-> {}, head |-> [o \in Object |-> NULL]]

Free(l) == Node \ l.live

\* new Node(v, next), which throws when there is no free node
NodeBefore(l, n, v, next) ==
  [l EXCEPT !.live = @ \cup {n}, !.data[n] = v, !.next[n] = next]

PushFront(o, v) ==
  IF Free(list) = {} THEN UNCHANGED list
  ELSE LET n == Min(Free(list))
       IN  list' = [NodeBefore(list, n, v, list.head[o]) EXCEPT !.head[o] = n]

Deleted(l, nodes) ==
  [l EXCEPT !.live = @ \ nodes,
            !.data = [n \in Node |-> IF n \in nodes THEN Default ELSE @[n]],
            !.next = [n \in Node |-> IF n \in nodes THEN NULL ELSE @[n]]]

Popped(l, o) ==
  Deleted([l EXCEPT !.head[o] = l.next[l.head[o]]], {l.head[o]})

PopFront(o) == list' = IF list.head[o] = NULL THEN list ELSE Popped(list, o)

WalkOf(l, o)  == Walk(l.next, l.head[o], NULL, Cardinality(Node))
NodesOf(l, o) == {WalkOf(l, o)[i] : i \in DOMAIN WalkOf(l, o)}
Forward(o)    == WalkOf(list, o)
Values(o)     == [i \in DOMAIN Forward(o) |-> list.data[Forward(o)[i]]]

\* erase(it): the predecessor is found by a walk from begin().
Erase(o, n) ==
  LET before == {m \in NodesOf(list, o) : list.next[m] = n}
  IN  list' = IF n = NULL \/ (before = {} /\ n # list.head[o]) THEN list
              ELSE IF n = list.head[o] THEN Popped(list, o)
              ELSE Deleted([list EXCEPT !.next[CHOOSE m \in before : TRUE] = list.next[n]],
                           {n})

\* reverse: `prev` and `curr` move on while the link between them is turned.
RECURSIVE Reversed(_, _, _)
Reversed(next, prev, curr) ==
  IF curr = NULL THEN [next |-> next, head |-> prev]
  ELSE Reversed([next EXCEPT ![curr] = prev], curr, next[curr])

ReverseList(o) ==
  LET turned == Reversed(list.next, NULL, list.head[o])
  IN  list' = [list EXCEPT !.next = turned.next, !.head[o] = turned.head]

Cleared(l, o) == [Deleted(l, NodesOf(l, o)) EXCEPT !.head[o] = NULL]
Clear(o) == list' = Cleared(list, o)

\* forward_list tmp(other); swap(tmp); the destructor of tmp.  A node that cannot
\* be allocated leaves those before it allocated and without an owner.
Copy(o, p) ==
  LET k     == Len(Forward(p))
      new   == SubSeq(SetToSortSeq(Free(list), <), 1, k)
      Link(l, i) == NodeBefore(l, new[i], Values(p)[i], IF i = k THEN NULL ELSE new[i + 1])
  IN  list' = IF Cardinality(Free(list)) < k
              THEN [list EXCEPT !.live = Node, !.leaked = @ \cup Free(list)]
              ELSE LET chained == FoldLeft(Link, Cleared(list, o), [i \in 1..k |-> i])
                   IN  [chained EXCEPT !.head[o] = IF k = 0 THEN NULL ELSE new[1]]

Move(o, p) ==
  list' = [Cleared(list, o) EXCEPT !.head[o] = list.head[p], !.head[p] = NULL]

Swap(o, p) == list' = [list EXCEPT !.head[o] = list.head[p], !.head[p] = list.head[o]]

\* Every allocated node is in one list, in one place, or leaked.
OwnedOnce ==
  LET total == FoldSet(LAMBDA o, n : n + Len(Forward(o)), 0, Object)
  IN  /\ UNION {NodesOf(list, o) : o \in Object} = list.live \ list.leaked
      /\ total = Cardinality(list.live \ list.leaked)
=============================================================================
