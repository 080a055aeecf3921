-------------------------- MODULE HashtableChecks --------------------------
(***************************************************************************)
(* The loops a caller of my::hashtable writes with its iterators: the walk *)
(* from find, from begin and from what erase returns.  The walks are       *)
(* recursive, so the module is for model checking only.                    *)
(***************************************************************************)
EXTENDS HashtableLookups

\* The nodes a loop `for (; it != end(); ++it)` meets; it would follow nullptr
\* where the sequence ends with NULL.
RECURSIVE Walk(_, _, _)
Walk(buckets, it, fuel) ==
  IF it = End(buckets) THEN << >>
  ELSE IF it.node = NULL \/ fuel = 0 THEN <<NULL>>
  ELSE <<it.node>> \o Walk(buckets, Advance(buckets, it), fuel - 1)

WalkFrom(buckets, it) == Walk(buckets, it, Cardinality(Node) + 1)

\* What erase returns.
EraseReturns(d, k) ==
  LET it   == Find(d.buckets, k)
      next == NextInChain(d.buckets, it)
  IN  IF next # NULL THEN [it EXCEPT !.node = next]
      ELSE SkipEmpty(Erased(d, k).buckets, it.idx)
-----------------------------------------------------------------------------
(***************************************************************************)
(* Properties                                                              *)
(***************************************************************************)
Order(buckets) == FlattenSeq(buckets)
After(buckets, n) == LET j == CHOOSE j \in DOMAIN Order(buckets) : Order(buckets)[j] = n
                     IN  SubSeq(Order(buckets), j + 1, Len(Order(buckets)))

\* A loop from find(k) to end() meets every element behind the one found once,
\* in the order of the buckets, and ends.
WalkFromFind ==
  Idle => \A o \in Obj : HasBuckets(o) =>
    \A n \in Elems(o) :
      LET it == Find(table[o].buckets, KeyOf[n])
      IN  WalkFrom(table[o].buckets, it) = <<it.node>> \o After(table[o].buckets, it.node)

\* `for (auto& v : uset)` over a set that is not empty meets every element.
RangeForMeetsAll ==
  Idle => \A o \in Obj : Elems(o) # {} =>
    WalkFrom(table[o].buckets, Begin(table[o].buckets)) = Order(table[o].buckets)

\* The note of erase, "@return iterator to after removed element": a loop from
\* that iterator meets the elements behind the removed one and ends.
EraseReturnsNext ==
  Idle => \A o \in Obj : HasBuckets(o) =>
    \A n \in Elems(o) :
      LET d  == table[o]
          it == Find(d.buckets, KeyOf[n])
      IN  WalkFrom(Erased(d, KeyOf[n]).buckets, EraseReturns(d, KeyOf[n]))
            = After(d.buckets, it.node)
=============================================================================
