------------------------------ MODULE MCRbTree ------------------------------
(***************************************************************************)
(* RbTree for TLC: enough nodes for every rebalancing case, with distinct  *)
(* keys (map, set) and with a key that three of them share (multimap,      *)
(* multiset).                                                              *)
(***************************************************************************)
EXTENDS RbTreeChecks

MCNode == 1..8
SomeEqualKeys == <<1, 2, 3, 3, 3, 4, 5, 6>>

FewNodes == 1..6
FewDistinctKeys == [n \in FewNodes |-> n]
=============================================================================
