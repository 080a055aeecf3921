--------------------------- MODULE MCCyclicDeque ---------------------------
(***************************************************************************)
(* CyclicDeque for TLC: two objects, whose buffers of two cells, or of as  *)
(* many as they are constructed with, double when they are full.           *)
(***************************************************************************)
EXTENDS CyclicDeque

TwoObjects == {"d", "e"}
TwoValues == {"x", "y"}
=============================================================================
