# mystd: a verification project for the containers of pets-tech/mystd

`mystd` re-implements containers of the C++ standard library as a header-only,
single-threaded library (`src/include/mystd/*.hpp`): arrays and vectors, linked lists, deques, a
hash table with four adapters, and five search trees with the ordered maps and sets on top of the
red-black one. There are no threads, no messages and no persistence. What makes this code hard is
something else:

* data structures whose correctness is a relation between many pointers, rewritten a few fields at a
  time by rotations, splices and rehashes, and right only after long legal histories of calls;
* loops that end only because the pointers are right;
* objects that share a heap: copy, move and swap must leave every node with one owner, also when an
  allocation throws half way;
* iterators and indices kept by a caller while the container changes under them;
* off-by-one, wrap-around and empty/full boundaries of index arithmetic.

This directory holds TLA+ models of that code, TLC configurations that check them on small
instances, and theorems that TLAPS proves for every value of the constants. `PROJECT.json` lists
the components, runs, mutants (a plausible bug for each property), the source lines behind each
definition, the hazards and the theorems.

## Inventory

| Component (`src/include/mystd/`) | State | Operations that change it | What must hold |
|---|---|---|---|
| `some_trees/rb_tree.hpp` | `root`, `size_`; per node `value`, `color`, `left`, `right`, `parent` | `insert`, `erase`, `clear`, copy, move, `swap` | links agree, one tree, red-black, `size_` exact, sorted sequence of elements; loops end; nodes owned once |
| `iterator/iterator.hpp` | one node pointer | `++`, `--`, `+=` (array policy) | steps to the neighbour in key order, also after rebalancing; walks end |
| `map_base.hpp`, `set_base.hpp`, `map/set/multimap/multiset.hpp` | an `rb_tree` | `insert`, `operator[]`, `erase`, copy, move | unique keys where promised; one element per inserted pair |
| `hashtable.hpp` | `buckets` (chains), `size_`; per node `value`, `hash`, `next` | `insert`, `erase`, `clear`, `rehash`, copy, move, `swap`, iterator `++` | each node in the bucket of its hash, load bound, unique keys, iteration meets every element |
| `unordered_map_base.hpp`, `unordered_set_base.hpp`, `unordered_{map,set,multimap,multiset}.hpp` | a `hashtable` | forwarders | as the table's |
| `deque_cyclicbuffer_based.hpp` | `buffer_`, `capacity_`, `size_`, `head_` | push/pop at both ends, copy, move, `swap`, `clear` | a sequence; cells wrap around without overwriting |
| `deque_blocks_based.hpp` | list of blocks `head_`, `tail_`, `head_index_`, `tail_index_`, `size_` | push/pop at both ends, copy, move, `swap`, `clear` | a sequence; indices consistent with `size_` and the blocks |
| `list_fixed_array.hpp`, `forward_list_fixed_array.hpp` | an array of cells threaded into a used list and a free list | insert, erase, push/pop, `clear`, copy, move | used and free cells partition the array; both lists end |
| `list_linked_nodes.hpp`, `forward_list_linked_nodes.hpp` | heap nodes | insert, erase, push/pop, `reverse`, copy, move | links agree, size exact |
| `vector.hpp`, `array.hpp` | buffer, `size_`, `capacity_` | push/pop, `resize`, copy, move | contents survive a reallocation |
| `some_trees/bst.hpp`, `avl_tree.hpp`, `treap.hpp`, `binary_tree.hpp` | nodes and root | insert, erase, rotations, split/merge | search order, balance, links |
| `some_trees/trie.hpp` | nodes | insert, search | a header that no test includes and that does not compile alone |
| `stack_adapter.hpp`, `queue_adapter.hpp` | the underlying container | forwarders | LIFO, FIFO |

Interactions: `map_base`/`set_base` own an `rb_tree` and hand out `iterator<..., TreeTraversalPolicy>`
over its nodes; `unordered_*_base` own a `hashtable`; the adapters own a deque, list or vector. All
calls are synchronous. The only "concurrent" actor is a caller that keeps an iterator while it makes
other calls, or two objects that exchange their state.

## The models

The modules follow the code one loop at a time: **one action per loop iteration** (a descent, a
search, a climb, a rebalancing loop) and one per straight piece of code between two loops, so that
invariants can be stated *inside* a call, where the code itself relies on them. Where the code has no
loop an action is a whole member function, and so it is for the lists and the trees that no other
container is built on: their loops are walks that change nothing, or recursive functions.

Common abstractions:

* A node is an element of the constant `Node`, a freed node is outside `live`. A node carries one value
  from `new` to `delete`, so `KeyOf[n]`, the key of the value a free node *would* be built with, is a
  constant; choosing a free node to insert is choosing the value.
* What a freed node holds is never read by the code, so deletion resets it (`Scrub`): that only merges
  states that no later step tells apart.
* A call of the one thread cannot be preempted, but a model step of a call in progress and the next
  call never overlap either: every `...Call` action is guarded by `pc = "idle"`.
* `new` may throw where the code has something to undo or to leave alone (`AttachFails`, `CopyThrows`).

### The red-black tree

| Module | Models |
|---|---|
| `RbLinks` | the pointer structure and the routines that rewire it: `transplant`, `rotate_left/right`, attaching a leaf. Pure operators on a record `[root, child, parent]`; the code's mirrored copies are one operator with a side parameter |
| `RbTree` | `insert` + `insert_rebalance`, `erase` + `erase_rebalance`, `clear`, as a state machine; the type invariant and `LinksOK` |
| `TreeNodes` | what `rb_tree`, `binary_search_tree` and `treap` share above the links: the in-order walk, the iterators of `TreeTraversalPolicy` (one node pointer; `begin`, `++`, `--` with their climbs and dives). Recursive functions, so that theorems can be stated with them |
| `RbTreeChecks` | what a caller observes: `find`, `count`, `contains`, the class's self checks `is_binary_tree` and `is_rb_tree`; the properties stated with them, also of iterators held across calls |
| `OrderedElements` | the abstract container: a sorted sequence. `RbTreeChecks!OrderedSpec` says that `RbTree` implements it under the in-order walk |
| `RbTreeObjects` | two trees on one heap: the copy loop of `safe_copy` with its explicit stack and its `catch`, copy assignment, move, swap |
| `OrderedMap` | `map`, `set`, `multimap` and `multiset`: `RbTreeObjects` with the search that `insert` and `operator[]` of `map_base`/`set_base` make first when keys are unique (`unique`, chosen in the initial state) |
| `RbLinks_proof`, `RbTree_proof`, `RbBalance_proof`, `RbOrder_proof` | the TLAPS proofs: links, colours, order |

`RhsFirst` is the order of evaluation of `g->parent->left = rotate_right(g)` (rb_tree.hpp:262-274).
C++17 sequences the right operand first, and then `g->parent` already is the rotated node, which
becomes its own child: run `rb_rotate_first` shows it (finding). A compiler that reads `g->parent` first
gives `RhsFirst = FALSE`, which all other runs and the proofs assume: they show what holds of the
algorithm once that statement means what its author meant.

`MutateCopies`: `safe_copy` copies "nodes data only" (rb_tree.hpp:374), so a copy is all red and has no
parents; run `rb_copy_erase` shows what an erase on a copy does (finding). With `MutateCopies = FALSE`
callers only read, move, swap, copy or clear a copy, and run `rb_tree_objects` shows that ownership and
contents are right.

An iterator of the library *is* a node pointer, so `AdvanceIsNeighbour` quantifies over all of them: in every
state between two calls, an iterator to any element steps to the neighbour of that element in order. Holding
it across an insert or an erase is then nothing more than looking at a later state.

### The two deques

| Module | Models |
|---|---|
| `SequenceDeque` | the abstract container, shared by both: each object is a sequence; push, pop, construct, clear, copy, move, swap |
| `CyclicDeque` | the deque on a cyclic buffer: `buffer_`, `capacity_`, `size_`, `head_` of two objects, one action per member function, the reallocation a part of the push that needs it |
| `BlocksDeque` | the deque on blocks: the list of blocks, both indices and `size_` of two objects. The initializer-list and the copy constructor push element after element and may be left by an exception at any of them, so they are a call (`ConstructCall`, `CopyCall`), one `PushNext` per element and an end (`ConstructDone` or `PushNextThrows`) |

Both say `SequenceSpec == Abstract!Spec` under the mapping `Contents`, which reads an object through
`operator[]` as a caller would: each push and pop changes one end only, whichever way the elements lie
over the cells. In both, a cell that goes out of use is set to `Junk` (`Scrub`); the code leaves the old
value there and never reads it, so this merges states and turns a read of such a cell into a visible
error.

`ReuseEmptied` in `BlocksDeque`: `clear()`, a move, and a pop that deletes the last block leave the two
indices where they happen to be, and the next push starts from them. With `FALSE` callers do not push into
such a deque unless its indices still fit (`Usable`), and everything holds; with `TRUE` run
`blocks_deque_queue` reads a cell nobody wrote (finding).

### The hash table

| Module | Models |
|---|---|
| `UnorderedElements` | the abstract container: a set of elements per object, one per key if keys are unique |
| `Hashtable` | buckets and `size_` of each object; `insert`, `erase`, `clear` as one action each; `rehash` and the copy constructor node by node, with the allocations that may fail |
| `HashtableLookups` | what a caller observes: `count`, `find`, and one step of the iterator with `skip_empty` |
| `HashtableChecks` | the loops a caller writes with the iterator (recursive, for TLC only) |

`Rehash` is what a caller may do; the rehashing that ends an insert is the same loop. `Elems(o)` maps a
table in the middle of a rehash to the nodes of both bucket arrays, so `UnorderedSpec` says that no step
of the loop loses or doubles a node. `Unique` is the insert policy of the four adapters' aliases,
`AllocFails` lets the bucket vector of `rehash` and the nodes of a copy fail.

Without buckets (after the move constructor took them) `h % buckets.size()` is undefined: `Insert` and
`Erase` are not called on such an object, and the properties about lookups leave it out.

### Lists, vector and the other trees

| Module | Models |
|---|---|
| `FixedList`, `FixedForwardList` | the lists in an array: cell numbers as links, the list of elements and the free list through the same `next` |
| `HeapList`, `HeapForwardList` | the lists of heap nodes; all objects share one heap of `Node`, and an insertion or a copy fails when none is free |
| `Vector` | `size_` elements of a buffer of `capacity_` cells |
| `BinarySearchTree` | `bst.hpp`: every operation twice, recursive and iterative, with parent pointers |
| `AvlTree` | `avl_tree.hpp`: recursive insert and erase with the rebalancing on the way back |
| `Treap` | `treap.hpp`: split, merge, insert and erase with parent pointers; a node is the pair of a key and a priority, which is chosen freely |
| `BinaryTree` | `binary_tree.hpp`: equal values allowed, removal, and rebuilding a tree from its traversals |
| `TreeCopies` | the loop of `safe_copy` that `bst.hpp` and `treap.hpp` share: a recursion over its stack, for model checking only |
| `ListWalks`, `Objects` | what a loop over a list visits; the objects of a caller |
| `StackAdapter`, `QueueAdapter` | `stack` on the deque on blocks and `queue` on the cyclic buffer, as the unit tests build them (test_stack_adapter.cpp:128, test_queue_adapter.cpp:106): the operations of the deque under the names of the adapter |
| `Lists`, `SearchTrees` | two objects of one kind, each beside what its callers expect: the sequence `values` or the sorted keys `keys`. Every call is made on both |
| `Containers` | chooses a kind of list or of tree in the initial state |

So `HoldsWhatWasPut` and `KeysInOrder` are refinements written as invariants: an object may differ from
its sequence in nothing a loop over it can see. These containers are one action per call. The adapters have
no iterators: `AdaptersKeepOrder` compares what `top()` and `pop()`, or `front()` and `dequeue()`, give until
nothing is left with the values that were put in. Stacks go on being used after they ran empty, which a deque on
blocks used as a queue does not survive (`ReuseEmptied`). Copies of adapters are the copies of their deques,
which `BlocksDeque` and `CyclicDeque` check.

What is taken out, and what the code does there:

* `moved` (lists in arrays). The move constructor of `list_fixed_array.hpp:116-121` takes the cells but not
  `head_free_`, and that of the forward list does not reset the links of the other object. No caller
  of the models inserts into such a list; it is still read, copied, moved, swapped and cleared.
* `BeforeEnd` (`FixedList`). `pop_back` decrements `end()` and so reads `prev` of the cell behind the array.
  Elements of at most eight bytes put `tail_` at that place, the value the author counts on.
* Trees without parent pointers that are read (`AvlTree`, `BinaryTree`) are nested records.
* `safe_copy` of `bst.hpp` and `treap.hpp` has the text of the red-black tree's, whose failing allocations
  `RbTreeObjects` models; here it succeeds.
* `leaked` (heap lists). The nodes of a copy that throws are not deleted by the code; they are counted there
  instead of in a list.
* A vector of capacity 0 is not pushed into, a `binary_tree` is not cleared, a forward list in an array is
  not asked to erase a free cell: see the disagreements below.

## What is checked

Runs that pass, and why their bounds are enough for the question they ask:

| Run | Shows | Instance |
|---|---|---|
| `rb_tree` | `TypeOK`, `LinksOK`: links agree at every step. `NothingLost`: between two loops the walk from the root meets every element but the one being inserted or erased. `RedBlackWhenIdle`, `OneDefect`: the rebalancing loops start from one defect and keep it to one. `NoNullDereference`: the fields the erase cases write without a test exist. `LookupsAgree`: `find`, `count`, `contains` against the elements. `AdvanceIsNeighbour`: `begin()`, `++` and `--` from every element reach its neighbour, whatever calls the iterator was kept across. `OrderedSpec`: the calls implement a sorted sequence. `CallsReturn`: every call ends | 8 nodes, keys `1 2 3 3 3 4 5 6`: all four erase cases on both sides, a recolouring that climbs two levels, and three equal keys that rotations separate |
| `rb_tree_objects` | `OwnedOnce`: each node is in one tree, the copy in the making or free, whatever throws; `CopyIsEqual`; `UniqueKeys`: a map or a set never holds a key twice | both values of `unique`, two objects and 8 nodes, two for each of four keys: a tree of four elements has a grandchild of the root and can be copied once; a source with equal keys makes an allocation of the copy fail |
| `cyclic_deque` | `TypeOK`: indices inside the buffer, every element a pushed value; `SequenceSpec` | capacity 2 doubling to 4, up to 3 elements: every head position with wrapped and unwrapped contents, full and empty |
| `blocks_deque` | `TypeOK`, `EveryDequeConsistent`, `SequenceSpec` | blocks of 2 cells, up to 4 elements: blocks added and deleted at both ends |
| `hashtable` | `TypeOK`; `EveryNodePlaced`: a node is always where a search looks, in both arrays during a rehash; `LoadBounded`: `max_load_factor` holds after each insert; `AdvanceIsNext`: `++` from any element reaches the next one by bucket and chain, and `end()` from the last; `WalkFromFind`: a loop from `find(k)` to `end()` meets what is behind, and ends | 7 unique keys with colliding hashes (`0 2 4 1 8 8 7`: the first and the last bucket are in use), 1 to 16 buckets by doubling |
| `hashtable_objects` | `LookupsAgree`: `size`, `count` and `find` against the elements; `UnorderedSpec` | 5 nodes with keys `1 1 1 2 2`, two tables, `rehash(1)` by callers, allocations that fail at any point |
| `containers` | lists and vector: `HoldsWhatWasPut` (a loop meets what was put in), `BackwardMirrorsForward`, `StorageAccounted` (cells and nodes have one place). Trees: `KeysInOrder`, `IteratorsWork` (parent pointers), `BothWaysAgree` (recursive and iterative functions do the same), `TreapIsHeap`, `AvlInsertKeepsBalance`, `TreeLookupsAgree`, `TraversalsRebuild`. Adapters: `AdaptersKeepOrder` (a stack is last in, first out, also after it ran empty, and a queue first in, first out) | two objects up to symmetry; lists of up to 4 elements over both, an array of 3 cells (so it gets full) and a heap of 4 nodes (so copies fail), vectors growing 3 to 6; `bst` keys 1 to 5, 6 elements (all shapes of three levels, a successor that is not the right child); `avl` 7 keys (four levels: every rotation after insert and erase, two in one call); treaps of 5 elements over 3 keys and 3 priorities (equal keys, equal priorities); binary trees of 6 elements with equal values |

Runs that end in a counterexample, each a disagreement between the code and what it says of itself
(`findings` in `PROJECT.json` quotes both sides):

| Run | Shows |
|---|---|
| `rb_rotate_first` | with C++17's order of evaluation `insert_rebalance` makes a node its own child |
| `rb_copy_erase` | an erase on a copied tree follows the missing parents and drops other elements |
| `blocks_deque_queue` | a deque used as a queue returns a cell nobody wrote, once it was emptied at the edge of a block |
| `hashtable_begin` | `begin()` never looks into bucket 0, so a range-for misses its elements |
| `hashtable_erase` | erasing the last element in iteration order returns an iterator that is not `end()` and has no node |

Other disagreements met while modelling, described here without a run of their own:

* `rb_tree.hpp:36` says that equal keys are kept in the right subtree. The descent goes right on an equal
  key, but rotations move equal keys to the left; `LookupsAgree` shows that lookups do not depend on it.
* A copied tree is not red-black (all red, rb_tree.hpp:374), which `is_rb_tree` on a copy would say.
* A `clear()` of the deque on blocks keeps both indices (deque_blocks_based.hpp:305-313), so after `push_back`, `clear()`,
  `push_back` in blocks of three cells the front is a cell nobody wrote. The test that clears
  (test_deque_blocks_based.cpp:17) goes on with `push_front` and `at()`, which do not use the stale `tail_index_`.
  A copy assignment that fails leaves its target empty and with the same stale indices.
* With `BlockCapacity = 1` (instantiated by the tests with `push_back` only) a `push_front` into a new
  deque leaves an empty last block: both indices start at `1 / 2 = 0` (deque_blocks_based.hpp:33).
* The comment in the hash table's move constructor (hashtable.hpp:151-153) speaks of a consistent empty
  object made by the default constructor. What it leaves behind has no buckets at all, and every lookup on it
  divides by zero.
* The iterator `insert` of the hash table returns carries the bucket number of before the rehash.
* `rbegin()` of the tree wraps the last element in `std::reverse_iterator`, which steps back once before it
  reads (rb_tree.hpp:567-568; a TODO in the code says so).
* An `avl_tree` is not always balanced. `rebalance` asks for a right child with balance `>= 1`
  (avl_tree.hpp:143) where a right child in balance needs the same rotation; such a child occurs after an erase on
  the left, and the node keeps its balance factor of 2. The README of the repository speaks of a balanced
  tree (README.md:37-39); the assertion in the tests is commented out (test_avl_tree.cpp:72-74).
* `list_fixed_array`: `erase` returns the cell that heads the free list, since it reads `next` of the freed
  cell (line 223); a push after a move overwrites a cell in use (117).
* `forward_list_fixed_array`: `erase` of the number of a free cell unlinks it from the free list and
  decrements `size_` (156).
* `list_linked_nodes`: `insert(const_iterator, ...)` does not compile (219). The copy constructors of both
  heap lists leak the nodes they made when a later allocation throws.
* `vector`: copy assignment deletes its buffer before it allocates the new one (72); a capacity of 0 stays 0
  and the next push writes behind the buffer (139); `operator==` compares elements without the sizes and
  `operator<` is not lexicographic (168-186).
* `binary_tree`: `clear()` keeps the pointer to the deleted root (178), which the destructor deletes again.
* `random_access_iterator::operator<` is inverted (iterator.hpp:206-212); no container uses the class.

### Fairness

One condition is used: weak fairness of `Step`, the next piece of a call in progress, in `RbTree`.
The library has no threads and no waiting: once a call is made its thread runs it. Nothing
is assumed of callers, who may stop calling at any time, nor that any particular call is ever made. The
other models state no liveness, and their specifications no fairness.

### Bounds

`Node` bounds the number of elements alive at a time, `MaxSize` a deque, `MaxElements` and `MaxKeys` the
elements of all lists or trees together, `MaxCapacity` the buffer of a vector. No other quantity of the
code is cut: indices, sizes, capacities and bucket counts follow the code from there. `size_t` is wide
enough for every number a bounded instance reaches, and going below zero shows as a violation of
`TypeOK`, whose `Nat` no decrement of 0 satisfies. Where a bound forbids an operation (no node free)
the model simply does not offer it; a copy that runs out of nodes fails as a failed allocation does.

### Not modelled

* Element types whose copy or assignment throws, and arguments that are references into the container itself
  (`d.push_back(d[0])`); values are model values.
* `lower_bound_node` of the treap, which is private and called by nothing.
* Leaks, but for the copies of heap lists: memory that is never reached again is not observable otherwise.
* Mapped values: they ride along with their key, and a map is seen as the set of its keys.
* Hash, equality and comparison functions that are not functions of the key.
* `print`, streams, `reserve`-like calls without effect on contents, `std::reverse_iterator`.
* `array` (no state beyond its elements), `trie` (does not compile), the comparison operators of `vector`.

## What is proved

### The red-black tree: links (`RbLinks_proof`, `RbTree_proof`)

These theorems, and those of the next two sections, are about `RbTree!Spec` for any set `Node`, any `NULL` outside it and any
`KeyOf \in [Node -> Int]`, assuming `~RhsFirst` (with `RhsFirst` they are false, see above).

* `LinksCorrect`: `Spec => []LinksOK`. The links form one tree under `root`: children point back to
  their parents, the two children of a node differ, every linked node but the root is a child of its
  parent, and nothing points to a deleted node, at every step of every call.
* `TypeCorrect`: `Spec => []TypeOK`; `SizeCorrect`: `size_` is the number of allocated nodes, so the
  unsigned counter never wraps.

`LinksOK` is not inductive. It admits a tree plus a separate *cycle* of nodes that all point to each
other properly; a rotation or a splice at the wrong node could then break it. And the code's rebalancing
and successor steps rely on facts about `cur`, `par` and `z` that were established loops earlier.
The inductive invariant `IInv` therefore has

* `GoodTree(tree, Linked)`: `WellLinked` and *there is a numbering of the nodes under which every child
  has a larger number than its parent* (`LayeredBy`). That rules out cycles without recursion, and each of
  the four rewiring routines is shown to preserve it by giving the new numbering (lemmas `RotateGood`,
  `SpliceGood`, `AttachGood`, `RenameGood` in `RbLinks_proof`);
* `InsertPointers`, `SearchPointers`, `UnlinkPointers`: what the local pointers of a running call point
  to in each loop (the descent stands at the slot it will fill; the successor is strictly below `z`, in
  its right subtree; the short place is the child of `par` the code takes it for);
* `TypeOK` and `SizeOK`.

`RbTree_proof` has one lemma per action and combines them in `NextStep`.

### The red-black tree: colours (`RbBalance_proof`)

* `NoNullDereferenced`: `Spec => []NoNullDereference`.
* `OneDefectHolds`: `Spec => []OneDefect`; `RedBlackRests` (in `RbOrder_proof`): `Spec => []RedBlackWhenIdle`.

The black height is a recursion over the tree, which an inductive invariant cannot step through. The
invariant carries the result instead: *there is a labelling `h` of the nodes with numbers* such that at every node
both children, with the node's own colour added, give its label, and no red node has a red child
(`BalancedBy`). One slot, a node and a side, may be excepted: a red child under a red parent there, or a
subtree `short` blacks lower. `InsertBalance` and `EraseBalance` say which slot that is in each loop, and that
is the argument behind both loops: a recolouring moves the slot up and changes the labels of three nodes, a
rotation closes it and gives the turned nodes the labels of the places they came to. That a sibling and a near nephew
exist follows from labels: a subtree that should have one black more than another is not empty.

`TreeInvariance` combines this with `LooseLinks`, what nodes outside the tree point to. It is needed for
one reason: `rb_and_black_height` is a recursive function on all nodes, and TLA+ takes such a function to be *some*
function that satisfies its equation if there is one. `HeightMapIsMap` gives a solution: the
labels on the tree, and one level of the recursion for the nodes outside, whose pointers lead into it.
`HeightIsLabel` shows that every solution has the labels on the tree: among the nodes where it
differs, one with the least label would have children where it agrees.

### The red-black tree: order (`RbOrder_proof`)

* `NothingIsLost`: `Spec => []NothingLost`, at every step of every call.
* `OrderedCorrect`: `Spec => OrderedSpec`, the refinement of `OrderedElements`.
* `LookupsCorrect`: `Spec => []LookupsAgree`; `IteratorsCorrect`: `Spec => []AdvanceIsNeighbour`;
  `BinaryTreeRests`: `Spec => []BinaryTreeWhenIdle`, the check that fails with `RhsFirst`.

The invariant `OrderInv` says that *there is a sequence `s`*, sorted by key, a position `at[n]` of every linked node in
it, and for every node the two positions that bound its subtree (`Spans`): those of a left child are its parent's
left bound and its parent's position. A rotation changes the bounds of two nodes and no
position (`TurnSpans`), which is why it keeps the order; a leaf is attached where its span has no room but for one
element (`AttachSpans`); an unlinked node takes its position out (`SpliceSpans`), and a successor takes that
of the node it replaces (`RenameSpans`). While a call looks for its place, `DescendOrder` says
that everything before the span of `cur` has a key that is at most the new one and everything behind it a greater
one; that is where an equal key goes right. `SuccessorOrder` says that the walk to the successor never leaves
the elements right behind `z`.

The walks are recursive functions too, and the positions solve each of their equations: inorder gives the stretch
between the bounds (`WalkIsSequence`), count the number of positions of the key there (`CountIsCount`), find
the one node with the key that all those positions are below (`FindIsTop`), a dive the element at the end of
the span, a climb the one next to it (`DiveIsEnd`, `ClimbLeaves`). Each comes in three steps: one level is
right if the levels below are, so the recursion has a solution, and every solution is right on the tree, by
`LowestNode`, or by `HighestNode` for the climb.

### The deque on a cyclic buffer (`SequenceEnds`, `CyclicDeque_proof`)

For any `InitialCapacity` above 0, any values and objects, and deques of any length (`MaxSize` is any
number):

* `TypeCorrect`: `Spec => []TypeOK`, the indices stay inside the buffer and each element in reach is a
  value that was pushed. `TypeOK` is inductive as it stands: that the elements are values, and not cells the
  buffer was allocated with, is the part of it a wrong wrap-around would break.
* `SequenceCorrect`: `Spec => SequenceSpec`, the refinement. One lemma per member function says which
  elements it leaves where (`StoreBackFacts`, `DropFrontFacts`, ...), all of them from one fact about
  `index()`: an offset of at most one lap wraps at most once (`WrapOnce`, `IndexFacts`), so that two offsets
  below `size_` never meet in one cell. A second lemma per function turns that into the sequence operation
  of `SequenceDeque` with the lemmas of `SequenceEnds`, and `NextStep` maps each call to the call of the
  abstract deque.

### The deque on blocks (`BlocksDeque_proof`)

For blocks of any size above 0, any values and objects, and deques of any length, assuming `~ReuseEmptied`
(with `ReuseEmptied` the theorems are false: run `blocks_deque_queue`). With blocks of one cell
the assumption admits no push into a new object, and the theorems then speak of copies only.

* `ConsistentAlways`: `Spec => []EveryDequeConsistent`. In every object with blocks,
  `size_ = (blocks - 1) * BlockCapacity + tail_index - head_index`, `head_index` is a cell of the first block
  and `tail_index` is behind a cell of the last one; an object without blocks has no elements.
* `TypeCorrect`: `Spec => []TypeOK`.
* `SequenceCorrect`: `Spec => SequenceSpec`, the refinement: every object behaves as a sequence, whichever
  blocks come and go, and a copy that fails leaves its target empty.

The inductive invariant `IInv` says of each object that it is typed and consistent together (`Good`),
since the arithmetic of one needs the ranges of the other, and says the same of the copy a constructor is building.
For that copy it adds where it enters its first block (`Enters`): a constructor pushes into an object that
has no block yet without asking `Usable`, and is safe only because that object is new. The
lemmas follow one push or pop each (`PushedBackFacts`, ..., `PoppedBackFacts`). A push first makes room and
then stores, and in between the indices may stand at the far edge of a block: `Filled` is consistency
with these edges allowed. Both pops split on whether the block they delete was the last one.

For the refinement a cell is found by its distance from the first cell of the first block (`At`), as
`element_access` finds it: a distance is one block and one cell in it (`Place`, `SamePlace`), a new or deleted block at
the back leaves the distances of the others alone, and one in front moves them by `BlockCapacity`. So
each push and pop leaves the elements it does not touch where a caller finds them, and the lemmas of
`SequenceEnds` make that the operation of `SequenceDeque`. A second invariant, `Underway`, says of a constructor that it has pushed the
beginning of its source, and that the object it copies still shows that source. `SequenceStep` maps
`ConstructDone` to `Construct` or `Copy`, `CopyCall` to the `Clear` the assignment begins with, and the pushes in between to no step.

### The hash table (`Hashtable_proof`)

For any nonempty `Obj` (`ObjAssumption`), any finite `Node` (`NodeAssumption`), any natural numbers as hashes
(`KeyAssumption`), bucket counts above 0 (`CountAssumption`), both insert policies, any `rehash` of callers,
and allocations that may fail:

* `TypeCorrect`: `Spec => []TypeOK`.
* `PlacedAlways`: `Spec => []EveryNodePlaced`. A search looks into one bucket; no node is ever in another one.
* `UnorderedCorrect`: `Spec => UnorderedSpec`, the refinement: whatever a call or a step of one does, each object
  holds the elements the abstract set holds.
* `LoadAlways`: `Spec => []LoadBounded`, if callers do not rehash and no allocation fails
  (`Rehashes = {}`, `AllocFails = FALSE`); otherwise it is false, since `rehash(1)` may overfill a table.
* `LookupsCorrect`: `Spec => []LookupsAgree`. The positions `count` counts are in bijection with the elements that
  have the key, and `find` returns one of them, or `end()` if there is none.
* `IteratorsCorrect`: `Spec => []AdvanceIsNext`, for any `NULL` outside `Node` (`NullAssumption`). Every node has
  one place (`OnePlace`), so the iterators are ordered by bucket and place in the chain, and `++` goes to the least
  one behind, or to `end()`. That a loop with `++` meets every element once is the induction over this step; TLC
  checks it as `WalkFromFind`.

None of them is inductive alone. A node in two chains would be placed well as long as nothing moves, and erasing
it from one would leave it in the other: the set of elements would differ from what the counter says. `IInv`
therefore has

* `Held`: the chains of all objects and of the buckets in the making are `Good` (no node twice, each in the chain
  of its hash) and disjoint;
* `Counted`: `size_` is the number of nodes in the chains, in both bucket arrays together during a rehash;
* `LoopOK`: what a rehash or a copy has done so far. For a copy, each new chain has the keys of the beginning
  of the source's chain (`Twins`); at its end `TwinMap` is the bijection from nodes to their copies that the
  abstract `Copy` asks for.

There is one lemma per action; `NextStep` combines them with the step of `UnorderedElements` each maps to.
`LoadInv` carries the load through a rehash by looking at the number of the new buckets.

### Only model-checked

Liveness (`CallsReturn`), since TLAPS has no support for fairness and ENABLED here. The copies of trees and the
maps on top of them (`OwnedOnce`, `CopyIsEqual`, `UniqueKeys`), and
`WalkFromFind` of the hash table, whose loop is recursive. All properties of the lists, the adapters and the other trees: their
models are built on recursive operators, which the prover does not take, and what a recursion computes for
every input needs an induction over data it does not have. For the red-black tree the recursions could be
dealt with because an invariant of the program carries what they compute.

## Plan

The order is by how much of the library rests on a component and how hard it is to test. Modelled: the red-black
tree with its iterators and copies and the ordered containers on it; the two deques with their adapters; the hash table; the
lists, the vector and the other search trees.

Next, in this order:

1. Vectors whose copy fails, and element types whose assignment throws, in the deques and the vector.
2. The unordered maps' `operator[]` with the element it returns, over `Hashtable`.
3. The parent pointers of the AVL tree, once code reads them.

Proofs left, in this order:

1. `RbTreeObjects`: one owner per node, and from it that a map or a set holds a key once.
2. `HeapList`: each node in one list, by the numbering that `RbTree_proof` uses against cycles.
