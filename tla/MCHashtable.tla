---------------------------- MODULE MCHashtable ----------------------------
(***************************************************************************)
(* HashtableChecks for TLC: a set that grows, and two multisets.  The      *)
(* hashes collide in small tables and part in larger ones; the first and   *)
(* the last bucket are in use.                                             *)
(***************************************************************************)
EXTENDS HashtableChecks

OneObject == {"s"}
TwoObjects == {"s", "t"}

SetNodes == 1..7
SetKeys == <<1, 2, 3, 4, 5, 6, 7>>
SetHashes == <<0, 2, 4, 1, 8, 8, 7>>

MultiNodes == 1..5
MultiKeys == <<1, 1, 1, 2, 2>>
MultiHashes == <<0, 2>>

NoRehashes == {}
SomeRehashes == {1}
=============================================================================
