---------------------------- MODULE MCContainers ----------------------------
(***************************************************************************)
(* Containers for TLC: lists that fill an array of three cells or a heap   *)
(* of four nodes, and trees deep enough for every case of erase, split,    *)
(* merge and rebalance.                                                    *)
(***************************************************************************)
EXTENDS Containers, TLC

MCValue == {1, 2}
MCNode == 1..4
MCKeysOf == [bst |-> 1..5, avl |-> 1..7, treap |-> 1..3, binary_tree |-> 1..3]
MCMaxKeys == [bst |-> 6, avl |-> 7, treap |-> 5, binary_tree |-> 6]
MCPriorities == 1..3

AnyObject == Permutations(Object)
=============================================================================
