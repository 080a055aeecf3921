----------------------------- MODULE Containers -----------------------------
(***************************************************************************)
(* Either two lists or two search trees: the containers of the library     *)
(* that are neither an rb_tree, a deque nor a hashtable.                   *)
(***************************************************************************)
EXTENDS Lists, SearchTrees

vars == <<listVars, treeVars>>

NoLists == /\ listKind = "none" /\ list = NULL
           /\ values = [o \in Object |-> << >>]

NoTrees == /\ treeKind = "none" /\ forest = NULL
           /\ keys = [o \in Object |-> << >>]

Init == \/ ListInit /\ NoTrees
        \/ TreeInit /\ NoLists

ListCall == listKind # "none" /\ ListNext /\ UNCHANGED treeVars
TreeCall == treeKind # "none" /\ TreeNext /\ UNCHANGED listVars

Next == ListCall \/ TreeCall

Spec == Init /\ [][Next]_vars
=============================================================================
