---------------------------- MODULE MCOrderedMap ----------------------------
(***************************************************************************)
(* OrderedMap with the nodes of MCRbTreeObjects.                           *)
(***************************************************************************)
EXTENDS OrderedMap, MCRbTreeObjects
=============================================================================
