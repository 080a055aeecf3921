----------------------------- MODULE Hashtable -----------------------------
(***************************************************************************)
(* my::hashtable (hashtable.hpp), the table under unordered_map,           *)
(* unordered_set and their multi variants.  A bucket is the sequence of    *)
(* the nodes in its chain; bucket i of the code is buckets[i + 1] here.    *)
(*                                                                         *)
(* rehash and the copy constructor run node by node; the other member      *)
(* functions look at one chain and are one action.  A node carries one     *)
(* value, so a node in no chain stands for a value that may be inserted.   *)
(* An insert of a key that is there already, with unique keys, and an      *)
(* erase of a key that is not there change nothing.                        *)
(***************************************************************************)
EXTENDS Integers, SequencesExt

CONSTANTS Obj, Node,
          KeyOf,          \* the key of the value a node carries
          HashOf,         \* the hash of a key
          Unique,         \* Policy == InsertPolicy::UniqueKeys
          BucketCount,    \* the argument of the constructor
          Rehashes,       \* the counts callers call rehash with
          AllocFails      \* can an allocation throw?

ASSUME ObjAssumption == Obj # {}
ASSUME NodeAssumption == IsFiniteSet(Node)
ASSUME KeyAssumption == \A n \in Node : HashOf[KeyOf[n]] \in Nat
ASSUME PolicyAssumption == Unique \in BOOLEAN /\ AllocFails \in BOOLEAN
ASSUME CountAssumption == BucketCount \in Nat \ {0} /\ Rehashes \subseteq Nat \ {0}

VARIABLES table,    \* buckets and size_ of each object
          pc,       \* "idle", or the loop that runs
          self,     \* the object that loop is for
          from,     \* the object it reads
          made      \* new_buckets of rehash, the buckets of a copy in the making

vars == <<table, pc, self, from, made>>

NoBuckets(count) == [i \in 1 .. count |-> << >>]
EmptyTable(count) == [buckets |-> NoBuckets(count), size |-> 0]

Keys == {KeyOf[n] : n \in Node}

NodesIn(buckets) == UNION {ToSet(buckets[i]) : i \in DOMAIN buckets}
InUse == NodesIn(made) \cup UNION {NodesIn(table[o].buckets) : o \in Obj}

\* The free nodes for a key do not differ: an allocation returns one of them.
FreeFor(k)   == {n \in Node \ InUse : KeyOf[n] = k}
Allocated(k) == CHOOSE n \in FreeFor(k) : TRUE

Idle == pc = "idle"
Caller == CHOOSE o \in Obj : TRUE

Init == /\ table = [o \in Obj |-> EmptyTable(BucketCount)]
        /\ pc = "idle" /\ self = Caller /\ from = Caller /\ made = << >>

Return == pc' = "idle" /\ self' = Caller /\ from' = Caller /\ made' = << >>

Loop(loop, o, p, count) ==
  pc' = loop /\ self' = o /\ from' = p /\ made' = NoBuckets(count)

Stay == UNCHANGED <<pc, self, from, made>>
-----------------------------------------------------------------------------
\* h % buckets.size(), undefined without buckets.
Slot(buckets, k) == (HashOf[k] % Len(buckets)) + 1
Chain(buckets, k) == buckets[Slot(buckets, k)]

Put(buckets, n) == [buckets EXCEPT ![Slot(buckets, KeyOf[n])] = <<n>> \o @]

\* The new place of a node under its old index.
PutAtOldSlot(old, buckets, n) == [buckets EXCEPT ![Slot(old, KeyOf[n])] = <<n>> \o @]
PutInNew(old, buckets, n) == Put(buckets, n)

\* A search that looks at the first node of the chain only.
AtFront(buckets, k) == LET c == Chain(buckets, k)
                       IN  c # << >> /\ KeyOf[c[1]] = k

Present(buckets, k) == \E n \in ToSet(Chain(buckets, k)) : KeyOf[n] = k

\* load_factor() > max_load_factor, one element too late and as it is.
PastFull(d)  == 4 * (d.size - 1) > 3 * Len(d.buckets)
TooFull(d)   == 4 * d.size > 3 * Len(d.buckets)

\* insert, up to the rehashing it may end with.
Insert(o, k) ==
  LET d == [buckets |-> Put(table[o].buckets, Allocated(k)), size |-> table[o].size + 1]
  IN  /\ Idle
      /\ FreeFor(k) # {}
      /\ table[o].buckets # << >>
      /\ Unique => ~Present(table[o].buckets, k)
      /\ table' = [table EXCEPT ![o] = d]
      /\ IF TooFull(d) THEN Loop("rehash", o, o, 2 * Len(d.buckets)) ELSE Stay

Rehash(o, count) ==
  /\ Idle
  /\ Loop("rehash", o, o, count)
  /\ UNCHANGED table

WithoutHead(d, i) == [buckets |-> [d.buckets EXCEPT ![i] = Tail(@)], size |-> d.size]

\* One iteration: the first node not yet moved goes to the head of its chain.
RehashNode ==
  /\ pc = "rehash"
  /\ \E i \in DOMAIN table[self].buckets :
       /\ table[self].buckets[i] # << >>
       /\ \A j \in 1 .. i - 1 : table[self].buckets[j] = << >>
       /\ made' = PutInNew(table[self].buckets, made, Head(table[self].buckets[i]))
       /\ table' = [table EXCEPT ![self] = WithoutHead(@, i)]
  /\ UNCHANGED <<pc, self, from>>

RehashDone ==
  /\ pc = "rehash"
  /\ NodesIn(table[self].buckets) = {}
  /\ table' = [table EXCEPT ![self] = [buckets |-> made, size |-> @.size]]
  /\ Return

\* The vector of the new buckets is not allocated: the node stays inserted.
RehashThrows ==
  /\ AllocFails
  /\ pc = "rehash" /\ NodesIn(made) = {}
  /\ Return
  /\ UNCHANGED table

\* The place of the node a search meets first.
FirstWith(chain, k) ==
  CHOOSE j \in DOMAIN chain : /\ KeyOf[chain[j]] = k
                             /\ \A i \in 1 .. j - 1 : KeyOf[chain[i]] # k

\* A removal that cuts the chain off, and one that closes the gap.
CutAt(chain, j)   == SubSeq(chain, 1, j - 1)
Unchain(chain, j) == RemoveAt(chain, j)

Erased(d, k) ==
  [buckets |-> [d.buckets EXCEPT ![Slot(d.buckets, k)] = Unchain(@, FirstWith(@, k))],
   size |-> d.size - 1]

Erase(o, k) ==
  /\ Idle
  /\ table[o].buckets # << >>
  /\ Present(table[o].buckets, k)
  /\ table' = [table EXCEPT ![o] = Erased(@, k)]
  /\ Stay

\* clear without and with `buckets.assign`; the number of buckets stays.
SizeReset(d) == [d EXCEPT !.size = 0]
Emptied(d)   == EmptyTable(Len(d.buckets))

Clear(o) ==
  /\ Idle
  /\ table' = [table EXCEPT ![o] = Emptied(@)]
  /\ Stay
-----------------------------------------------------------------------------
\* o = p, or o made anew as a copy of p.
CopyCall(o, p) ==
  /\ Idle
  /\ Loop("copy", o, p, Len(table[p].buckets))
  /\ UNCHANGED table

\* The buckets the copy loop is for.
AllToCopy == DOMAIN made

\* One iteration: the next node of the first chain not yet copied.
CopyNode ==
  /\ pc = "copy"
  /\ \E i \in AllToCopy :
       LET source == table[from].buckets[i]
           key    == KeyOf[source[Len(made[i]) + 1]]
       IN  /\ Len(made[i]) < Len(source)
           /\ \A j \in 1 .. i - 1 : Len(made[j]) = Len(table[from].buckets[j])
           /\ FreeFor(key) # {}
           /\ made' = [made EXCEPT ![i] = Append(@, Allocated(key))]
  /\ UNCHANGED <<table, pc, self, from>>

\* An allocation throws, as it must when the nodes of this model are used up.
CopyThrows ==
  /\ pc = "copy"
  /\ \E i \in AllToCopy : Len(made[i]) < Len(table[from].buckets[i])
  /\ Return
  /\ UNCHANGED table

CopyDone ==
  /\ pc = "copy"
  /\ \A i \in AllToCopy : Len(made[i]) = Len(table[from].buckets[i])
  /\ table' = [table EXCEPT ![self] = [buckets |-> made, size |-> Cardinality(NodesIn(made))]]
  /\ Return

\* o made anew from p: the buckets of the new object were an empty vector.
MoveConstruct(o, p) ==
  /\ Idle
  /\ table' = [table EXCEPT ![o] = table[p], ![p] = EmptyTable(0)]
  /\ Stay

MoveAssign(o, p) ==
  /\ Idle
  /\ table' = [table EXCEPT ![o] = table[p], ![p] = Emptied(table[o])]
  /\ Stay

Swap(o, p) ==
  /\ Idle
  /\ table' = [table EXCEPT ![o] = table[p], ![p] = table[o]]
  /\ Stay

Next ==
  \/ \E o \in Obj, k \in Keys : Insert(o, k) \/ Erase(o, k)
  \/ \E o \in Obj, count \in Rehashes : Rehash(o, count)
  \/ \E o \in Obj : Clear(o)
  \/ \E o \in Obj : \E p \in Obj \ {o} :
       CopyCall(o, p) \/ MoveConstruct(o, p) \/ MoveAssign(o, p) \/ Swap(o, p)
  \/ RehashNode \/ RehashDone \/ RehashThrows
  \/ CopyNode \/ CopyThrows \/ CopyDone

Spec == Init /\ [][Next]_vars
-----------------------------------------------------------------------------
(***************************************************************************)
(* Properties                                                              *)
(***************************************************************************)
BucketsOK(buckets) == buckets \in Seq(Seq(Node))

TypeOK ==
  /\ table = [o \in Obj |-> table[o]]
  /\ \A o \in Obj :
       /\ table[o] = [buckets |-> table[o].buckets, size |-> table[o].size]
       /\ BucketsOK(table[o].buckets)
       /\ table[o].size \in Nat
  /\ pc \in {"idle", "rehash", "copy"}
  /\ self \in Obj /\ from \in Obj
  /\ BucketsOK(made)

\* A node is never in a chain a search for its key does not look at: in the old
\* buckets and in the new ones while rehash runs, in a copy while it is made.
Placed(buckets) ==
  \A i \in DOMAIN buckets : \A n \in ToSet(buckets[i]) : i = Slot(buckets, KeyOf[n])

EveryNodePlaced == Placed(made) /\ \A o \in Obj : Placed(table[o].buckets)

\* The bound behind the constant time of a lookup: once an insert is over the
\* table is not fuller than max_load_factor, so that the chains stay short.
LoadBounded == Idle => \A o \in Obj : 4 * table[o].size <= 3 * Len(table[o].buckets)

\* What the object is to its callers: every chain, and for the object rehash
\* works on the chains already moved.
Elems(o) == NodesIn(table[o].buckets)
              \cup (IF pc = "rehash" /\ o = self THEN NodesIn(made) ELSE {})

\* Each object holds a set of elements, with unique keys if so declared: an
\* insert adds one element, an erase removes one, rehash none at any moment,
\* and copy, move and swap carry whole sets.
Abstract == INSTANCE UnorderedElements
              WITH Element <- Node, elems <- [o \in Obj |-> Elems(o)]
UnorderedSpec == Abstract!Spec
=============================================================================
