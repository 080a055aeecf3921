------------------------------- MODULE Objects -------------------------------
(***************************************************************************)
(* The container objects that callers copy, move and swap.                 *)
(***************************************************************************)
EXTENDS Integers, Sequences, FiniteSetsExt

CONSTANTS Object, NULL

\* Bound: all objects together hold at most `most` elements.
Within(contents, most) == FoldSet(LAMBDA o, n : n + Len(contents[o]), 0, Object) <= most
=============================================================================
