----------------------------- MODULE SearchTrees -----------------------------
(***************************************************************************)
(* Two trees of one of the four kinds below some_trees/ that no other      *)
(* container is built on, side by side with the sorted keys their callers  *)
(* put into them: every call is made on the tree and on the keys.          *)
(***************************************************************************)
EXTENDS Objects

CONSTANTS KeysOf,        \* per kind, the keys that are used
          MaxKeys,       \* per kind, bound on the elements of all objects
          Priorities     \* what a treap may draw

VARIABLES treeKind,   \* the kind, the same for all objects
          forest,     \* the objects of that kind
          keys        \* the keys each object should hold, in order

treeVars == <<treeKind, forest, keys>>

TreapNode == KeysOf["treap"] \X Priorities

Bst == INSTANCE BinarySearchTree WITH Node <- KeysOf["bst"]
Avl == INSTANCE AvlTree
Trp == INSTANCE Treap WITH Node <- TreapNode
Bin == INSTANCE BinaryTree

TreeInit ==
  /\ keys = [o \in Object |-> << >>]
  /\ \/ treeKind = "bst"         /\ Bst!Init
     \/ treeKind = "avl"         /\ Avl!Init
     \/ treeKind = "treap"       /\ Trp!Init
     \/ treeKind = "binary_tree" /\ Bin!Init

Elements(s) == {s[i] : i \in DOMAIN s}

With(s, k) == SelectSeq(s, LAMBDA x : x <= k) \o <<k>> \o SelectSeq(s, LAMBDA x : x > k)

Without(s, k) ==
  IF k \notin Elements(s) THEN s
  ELSE LET i == CHOOSE i \in DOMAIN s : s[i] = k
       IN  SubSeq(s, 1, i - 1) \o SubSeq(s, i + 1, Len(s))

\* The kinds in which a second element with the same key changes nothing.
Unique == treeKind \in {"bst", "avl"}

FewKeys == Within(keys, MaxKeys[treeKind])
SameTreeKind == UNCHANGED treeKind

\* An avl_tree cannot be copied, moved or swapped: one of them holds keys at a time.
InPlay == {o \in Object : treeKind = "avl" => \A p \in Object \ {o} : keys[p] = << >>}

InsertKey(o, k) ==
  /\ \/ treeKind = "bst" /\ (Bst!Insert(o, k) \/ Bst!InsertI(o, k))
     \/ treeKind = "avl" /\ Avl!Insert(o, k)
     \/ treeKind = "treap" /\ \E p \in Priorities : Trp!Insert(o, <<k, p>>)
     \/ treeKind = "binary_tree" /\ Bin!Insert(o, k)
  /\ keys' = [keys EXCEPT ![o] = IF Unique /\ k \in Elements(@) THEN @ ELSE With(@, k)]
  /\ SameTreeKind /\ FewKeys'

EraseKey(o, k) ==
  /\ \/ treeKind = "bst" /\ (Bst!Erase(o, k) \/ Bst!EraseI(o, k))
     \/ treeKind = "avl" /\ Avl!Erase(o, k)
     \/ treeKind = "treap" /\ Trp!Erase(o, k)
     \/ treeKind = "binary_tree" /\ Bin!Remove(o, k)
  /\ keys' = [keys EXCEPT ![o] = Without(@, k)]
  /\ SameTreeKind

ClearKeys(o) ==
  /\ \/ treeKind = "avl" /\ Avl!Clear(o)
     \/ treeKind = "treap" /\ Trp!Clear(o)
  /\ keys' = [keys EXCEPT ![o] = << >>]
  /\ SameTreeKind

CopyKeys(o, p) ==
  /\ \/ treeKind = "bst" /\ Bst!Copy(o, p)
     \/ treeKind = "treap" /\ Trp!Copy(o, p)
     \/ treeKind = "binary_tree" /\ Bin!Copy(o, p)
  /\ keys' = [keys EXCEPT ![o] = keys[p]]
  /\ SameTreeKind /\ FewKeys'

MoveKeys(o, p) ==
  /\ \/ treeKind = "bst" /\ Bst!Move(o, p)
     \/ treeKind = "treap" /\ Trp!Move(o, p)
     \/ treeKind = "binary_tree" /\ Bin!Move(o, p)
  /\ keys' = [keys EXCEPT ![o] = keys[p], ![p] = << >>]
  /\ SameTreeKind

SwapKeys(o, p) ==
  /\ \/ treeKind = "bst" /\ Bst!Swap(o, p)
     \/ treeKind = "treap" /\ Trp!Swap(o, p)
     \/ treeKind = "binary_tree" /\ Bin!Swap(o, p)
  /\ keys' = [keys EXCEPT ![o] = keys[p], ![p] = keys[o]]
  /\ SameTreeKind

TreeNext ==
  \E o \in InPlay :
    \/ \E k \in KeysOf[treeKind] : InsertKey(o, k) \/ EraseKey(o, k)
    \/ ClearKeys(o)
    \/ \E p \in InPlay \ {o} : CopyKeys(o, p) \/ MoveKeys(o, p) \/ SwapKeys(o, p)
-----------------------------------------------------------------------------
(***************************************************************************)
(* Properties                                                              *)
(***************************************************************************)
BstKeys(o)   == Bst!Nodes(forest[o])
TreapKeys(o) == [i \in DOMAIN Trp!Nodes(forest[o]) |-> Trp!Key(Trp!Nodes(forest[o])[i])]

\* After any calls an inorder walk meets exactly the keys that were put in and not
\* erased, in order, equal keys as often as they were put in.
KeysInOrder ==
  \A o \in Object :
    CASE treeKind = "bst"         -> BstKeys(o) = keys[o]
      [] treeKind = "avl"         -> Avl!InorderKeys(forest[o]) = keys[o]
      [] treeKind = "treap"       -> TreapKeys(o) = keys[o] /\ forest[o].size = Len(keys[o])
      [] treeKind = "binary_tree" -> Bin!InorderValues(forest[o]) = keys[o]
      [] OTHER                    -> TRUE

\* The parent pointers that erase, split, merge and safe_copy leave are those the
\* iterators need: begin(), ++ and -- walk all elements in order.
IteratorsWork ==
  \A o \in Object :
    CASE treeKind = "bst" -> /\ Bst!IteratorsInOrder(forest[o])
                             /\ keys[o] # << >> =>
                                  Bst!Retreat(forest[o], NULL) = keys[o][Len(keys[o])]
      [] treeKind = "treap" -> Trp!IteratorsInOrder(forest[o])
      [] OTHER -> TRUE

\* The recursive and the iterative functions of binary_search_tree do the same to
\* every tree: the same links, the same parent pointers, the same answer.
BothWaysAgree ==
  treeKind = "bst" =>
    \A o \in Object, k \in KeysOf["bst"] :
      LET t == forest[o]
      IN  /\ Bst!Inserted(t, k) = Bst!InsertIterative(t, k)
          /\ Bst!Erased(t, k) = Bst!EraseIterative(t, k)
          /\ Bst!SearchRecursive(t, t.root, k) = Bst!SearchIterative(t, k)

\* A treap stays a heap by its priorities, whatever is split and merged.
TreapIsHeap == treeKind = "treap" => \A o \in Object : Trp!HeapOrder(o)

\* An insertion into a balanced avl_tree leaves it balanced, and after any call
\* the heights its decisions rest on are true.  (An erase may leave it out of
\* balance: rebalance has no case for a right child that is in balance.)
AvlInsertKeepsBalance ==
  [][treeKind = "avl" => \A o \in Object :
       /\ Avl!HeightsTrue(forest'[o])
       /\ Avl!Balanced(forest[o]) /\ Len(keys'[o]) > Len(keys[o])
            => Avl!Balanced(forest'[o])]_treeVars

\* contains, find and search tell the truth about every key, and findmin about
\* the least.
TreeLookupsAgree ==
  treeKind # "none" => \A o \in Object, k \in KeysOf[treeKind] :
    LET here == k \in Elements(keys[o])
    IN  CASE treeKind = "bst" -> (Bst!SearchIterative(forest[o], k) # NULL) = here
          [] treeKind = "avl" -> Avl!Contains(forest[o], k) = here
          [] treeKind = "treap" -> (Trp!FindNode(forest[o], forest[o].root, k) # NULL) = here
          [] treeKind = "binary_tree" ->
               /\ (Bin!FindValue(forest[o], k) # NULL) = here
               /\ keys[o] # << >> => Bin!FindMin(forest[o]).value = keys[o][1]

\* The shape of a binary_tree is that of an insertion history: its preorder and
\* postorder traversals rebuild it, after removals too.
TraversalsRebuild ==
  treeKind = "binary_tree" => \A o \in Object : Bin!RebuildsItself(forest[o])
=============================================================================
