-------------------------- MODULE HashtableLookups --------------------------
(***************************************************************************)
(* What a caller of my::hashtable observes: lookups, and one step of its   *)
(* iterators, as functions of the buckets.  An iterator is a node and a    *)
(* bucket number, counted from 0 as in the code.                           *)
(***************************************************************************)
EXTENDS Hashtable

CONSTANT NULL    \* nullptr
ASSUME NullAssumption == NULL \notin Node

\* The buckets skip_empty finds a node in, behind its bucket: without the last
\* bucket, and as it is.
StopBeforeLast(buckets, idx) == {i \in idx + 1 .. Len(buckets) - 2 : buckets[i + 1] # << >>}
LaterBuckets(buckets, idx) == {i \in idx + 1 .. Len(buckets) - 1 : buckets[i + 1] # << >>}

\* skip_empty, for an iterator without a node.
SkipEmpty(buckets, idx) ==
  LET later == LaterBuckets(buckets, idx)
  IN  IF later # {} THEN [node |-> buckets[Min(later) + 1][1], idx |-> Min(later)]
      ELSE [node |-> NULL, idx |-> Max({idx, Len(buckets) - 1})]

Begin(buckets) == SkipEmpty(buckets, 0)
End(buckets)   == [node |-> NULL, idx |-> Len(buckets)]

\* node->next
PlaceIn(chain, n) == CHOOSE j \in DOMAIN chain : chain[j] = n

NextInChain(buckets, it) ==
  LET chain == Chain(buckets, KeyOf[it.node])
      j     == PlaceIn(chain, it.node)
  IN  IF j < Len(chain) THEN chain[j + 1] ELSE NULL

\* operator++ that leaves its bucket behind, without and with the end position.
StopAtLastBucket(buckets, it) == it
ToEnd(buckets, it) == IF it.node = NULL THEN End(buckets) ELSE it

Advance(buckets, it) ==
  IF NextInChain(buckets, it) # NULL THEN [it EXCEPT !.node = NextInChain(buckets, it)]
  ELSE ToEnd(buckets, SkipEmpty(buckets, it.idx))

\* count and find.
CountOf(buckets, k) ==
  LET chain == Chain(buckets, k)
  IN  Cardinality({j \in DOMAIN chain : KeyOf[chain[j]] = k})

Find(buckets, k) ==
  IF Present(buckets, k)
  THEN [node |-> Chain(buckets, k)[FirstWith(Chain(buckets, k), k)],
        idx |-> Slot(buckets, k) - 1]
  ELSE End(buckets)
-----------------------------------------------------------------------------
(***************************************************************************)
(* Properties                                                              *)
(***************************************************************************)
HasBuckets(o) == table[o].buckets # << >>

\* size(), count(k) and find(k) tell the truth about every key, though a node
\* is searched for in one bucket only and that bucket changes with every rehash.
LookupsAgree ==
  Idle => \A o \in Obj :
    /\ table[o].size = Cardinality(Elems(o))
    /\ HasBuckets(o) =>
         \A n \in Node :
           LET k == KeyOf[n]
               same == {m \in Elems(o) : KeyOf[m] = k}
           IN  /\ CountOf(table[o].buckets, k) = Cardinality(same)
               /\ IF same = {} THEN Find(table[o].buckets, k) = End(table[o].buckets)
                               ELSE Find(table[o].buckets, k).node \in same

\* The order of the iterators: by bucket, and in a bucket along the chain.
Precedes(buckets, n, m) ==
  \E i, l \in DOMAIN buckets : \E j \in DOMAIN buckets[i], k \in DOMAIN buckets[l] :
    /\ buckets[i][j] = n /\ buckets[l][k] = m
    /\ i < l \/ (i = l /\ j < k)

\* The iterator at a node.
At(buckets, n) == [node |-> n, idx |-> Slot(buckets, KeyOf[n]) - 1]

\* operator++ at any element goes to the next one in that order, leaving out no
\* bucket that is not empty, and to end() from the last, wherever inserts,
\* erases and rehashes have put the nodes.
AdvanceIsNext ==
  Idle => \A o \in Obj : \A n \in Elems(o) :
    LET b     == table[o].buckets
        later == {m \in Elems(o) : Precedes(b, n, m)}
    IN  IF later = {} THEN Advance(b, At(b, n)) = End(b)
        ELSE \E m \in later :
               /\ Advance(b, At(b, n)) = At(b, m)
               /\ \A l \in later : l # m => Precedes(b, m, l)
=============================================================================
