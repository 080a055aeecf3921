--------------------------- MODULE OrderedElements ---------------------------
(***************************************************************************)
(* What an ordered container promises, without any tree: a sequence of     *)
(* elements in key order.  A new element goes behind the elements with an  *)
(* equal key; erase(k) removes one element with key k, which one is not    *)
(* said; any call may also leave the sequence as it is (the allocation     *)
(* failed, the key is absent).                                             *)
(***************************************************************************)
EXTENDS Sequences, Integers

CONSTANTS Element,   \* the elements
          KeyOf      \* the key of an element

VARIABLE seq

Elements == {seq[i] : i \in DOMAIN seq}

Init == seq = << >>

Insert(e) ==
  /\ e \notin Elements
  /\ \E i \in 1 .. Len(seq) + 1 :
       /\ \A j \in 1 .. i - 1        : KeyOf[seq[j]] <= KeyOf[e]
       /\ \A j \in i .. Len(seq)     : KeyOf[seq[j]] > KeyOf[e]
       /\ seq' = SubSeq(seq, 1, i - 1) \o <<e>> \o SubSeq(seq, i, Len(seq))

Erase(k) ==
  \E i \in DOMAIN seq :
    /\ KeyOf[seq[i]] = k
    /\ seq' = SubSeq(seq, 1, i - 1) \o SubSeq(seq, i + 1, Len(seq))

Clear == seq' = << >>

Next == \/ \E e \in Element : Insert(e)
        \/ \E k \in {KeyOf[e] : e \in Element} : Erase(k)
        \/ Clear

Spec == Init /\ [][Next]_seq
=============================================================================
