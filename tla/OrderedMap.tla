----------------------------- MODULE OrderedMap -----------------------------
(***************************************************************************)
(* my::map, my::set, my::multimap and my::multiset (map_base.hpp,          *)
(* set_base.hpp): two containers that each hold one rb_tree.  The tree     *)
(* itself takes any element; a container without equal keys searches the   *)
(* tree before it inserts.  Mapped values are left out.                    *)
(***************************************************************************)
EXTENDS RbTreeObjects

VARIABLE unique     \* the template parameter Unique, of both containers

\* An insertion that leaves equal keys to the tree.
AnyKey(k) == TRUE

\* `!tree.contains(key)` in insert, and `find(key) == tree.end()` in operator[],
\* which then looks the new element up again.
Admits(k) == unique => ~ContainsKey(k)

MapInit == ObjInit /\ unique \in BOOLEAN

\* insert, operator[], erase and clear; an insertion that is not admitted and an
\* at() or operator[] that finds its key change nothing.
Modify ==
  /\ ThisStep
  /\ pc = "idle" /\ pc' = "descend" => Admits(key')

\* The copy constructor copies the tree into `tmp` and swaps; copy assignment
\* does the same one level up.
CopyStep == CopyCall \/ CopyNode \/ CopyThrows \/ CopyDone

\* std::exchange(other.tree, Tree{}): the tree moves out, an empty one moves in.
MoveMap == MoveAssign

\* std::swap of the trees is three moves with the effect of rb_tree::swap.
SwapMaps == Swap

MapNext == (Modify \/ CopyStep \/ MoveMap \/ SwapMaps) /\ UNCHANGED unique

MapSpec == MapInit /\ [][MapNext]_<<vars, oVars, cVars, unique>>
-----------------------------------------------------------------------------
Once(s) == \A i, j \in DOMAIN s : s[i] = s[j] => i = j

\* A map or a set never holds a key twice, whatever was inserted, erased, copied,
\* moved and swapped: the search that admits a key finds it wherever the descents
\* and rotations of earlier calls have put it.  (A copy is not inserted into here:
\* a copied tree has lost the colours the rotations go by.)
UniqueKeys ==
  unique /\ pc = "idle" => Once(KeysFrom(tree.root)) /\ Once(KeysFrom(oroot))
=============================================================================
