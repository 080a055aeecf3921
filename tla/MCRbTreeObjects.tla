-------------------------- MODULE MCRbTreeObjects --------------------------
(***************************************************************************)
(* RbTreeObjects with two nodes for each of four keys: a copy of four      *)
(* elements fits, and equal keys in the source make an allocation fail.    *)
(***************************************************************************)
EXTENDS RbTreeObjects

TwinNodes == 1..8
TwinKeys == <<1, 1, 2, 2, 3, 3, 4, 4>>
=============================================================================
