------------------------------ MODULE ListWalks ------------------------------
(***************************************************************************)
(* What a loop over a list meets: the iterators of the list classes are a  *)
(* cell number or a node pointer, and ++ and -- follow one link.           *)
(***************************************************************************)
EXTENDS Integers, FiniteSets, Sequences

\* The nodes a loop `for (n = first; n != end; n = link[n])` visits, at most
\* `most` of them should the links run in a circle.
Walk(link, first, end, most) ==
  LET at[i \in 0..most] ==
        IF i = 0 \/ at[i - 1] = end THEN (IF i = 0 THEN first ELSE end)
                                    ELSE link[at[i - 1]]
  IN  [i \in 1..Cardinality({j \in 0..most - 1 : at[j] # end}) |-> at[i - 1]]

\* The iterator that begin() becomes after i - 1 increments.
Advanced(walk, i, end) == IF i \in DOMAIN walk THEN walk[i] ELSE end

\* Walking back from the last node by the other link meets the same nodes.
Mirrored(walk, back) == back = [i \in DOMAIN walk |-> walk[Len(walk) + 1 - i]]

\* Two walks meet every cell, and each cell once.
Partition(used, free, cells) ==
  /\ {used[i] : i \in DOMAIN used} \cup {free[i] : i \in DOMAIN free} = cells
  /\ Len(used) + Len(free) = Cardinality(cells)
=============================================================================
