-------------------------- MODULE UnorderedElements --------------------------
(***************************************************************************)
(* What an unordered container promises, without any buckets: each object  *)
(* holds a set of elements, with one element per key if keys are unique.   *)
(* erase(k) removes one element with key k, which one is not said; a copy  *)
(* holds new elements with the keys of its source.                         *)
(***************************************************************************)
CONSTANTS Obj, Element, KeyOf, Unique

VARIABLE elems      \* elems[o]: the elements o holds

With(S, k) == {e \in S : KeyOf[e] = k}
Free == Element \ UNION {elems[o] : o \in Obj}

Init == elems = [o \in Obj |-> {}]

Insert(o, e) == /\ e \in Free
                /\ Unique => With(elems[o], KeyOf[e]) = {}
                /\ elems' = [elems EXCEPT ![o] = @ \cup {e}]

Erase(o, k) == \E e \in With(elems[o], k) : elems' = [elems EXCEPT ![o] = @ \ {e}]

Clear(o) == elems' = [elems EXCEPT ![o] = {}]

Copy(o, p) ==
  \E twin \in [elems[p] -> Free] :
    /\ \A e, f \in elems[p] : twin[e] = twin[f] => e = f
    /\ \A e \in elems[p] : KeyOf[twin[e]] = KeyOf[e]
    /\ elems' = [elems EXCEPT ![o] = {twin[e] : e \in elems[p]}]

Move(o, p) == elems' = [elems EXCEPT ![o] = elems[p], ![p] = {}]
Swap(o, p) == elems' = [elems EXCEPT ![o] = elems[p], ![p] = elems[o]]

Next == \E o \in Obj :
          \/ \E e \in Element : Insert(o, e) \/ Erase(o, KeyOf[e])
          \/ Clear(o)
          \/ \E p \in Obj \ {o} : Copy(o, p) \/ Move(o, p) \/ Swap(o, p)

Spec == Init /\ [][Next]_elems
=============================================================================
