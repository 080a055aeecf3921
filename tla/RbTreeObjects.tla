---------------------------- MODULE RbTreeObjects ----------------------------
(***************************************************************************)
(* Two rb_tree objects on one heap: RbTree is `this`, and the variables    *)
(* here are the `other` object it is copied from, moved from or swapped    *)
(* with.  The copy runs the loop of safe_copy step by step; an allocation  *)
(* in it may throw, and what was built is deleted again.                   *)
(***************************************************************************)
EXTENDS RbTreeChecks, SequencesExt

CONSTANT MutateCopies    \* do callers insert into and erase from a copy?
ASSUME MutateAssumption == MutateCopies \in BOOLEAN

VARIABLES oroot,    \* other.root
          osize,    \* other.size_
          olive,    \* the nodes of the other object
          copied,   \* was `this` made by safe_copy?
          ocopied,  \* was the other object?
          copying,  \* does safe_copy run?
          croot,    \* new_root
          made,     \* the nodes safe_copy has allocated
          stack     \* the pairs of an old and a new node still to be visited

oVars == <<oroot, osize, olive, copied, ocopied>>
cVars == <<copying, croot, made, stack>>

ObjInit ==
  /\ Init
  /\ oroot = NULL /\ osize = 0 /\ olive = {}
  /\ copied = FALSE /\ ocopied = FALSE
  /\ copying = FALSE /\ croot = NULL /\ made = {} /\ stack = << >>

Used == live \cup olive \cup made
Resting == pc = "idle" /\ ~copying

\* The node `new Node(n->value)` returns, NULL if it throws.
Twin(n, used) ==
  LET free == {m \in Node \ used : KeyOf[m] = KeyOf[n]}
  IN  IF n = NULL \/ free = {} THEN NULL ELSE CHOOSE m \in free : TRUE

\* insert, erase and clear of `this`.  Free nodes for the same value do not
\* differ: insert takes the one the allocator returns.
ThisStep ==
  /\ ~copying
  /\ Next
  /\ pc = "idle" /\ pc' = "descend" => z' = Twin(z', Used) /\ (copied => MutateCopies)
  /\ pc' = "find" => (copied => MutateCopies)
  /\ copied' = (copied /\ live' # {})
  /\ UNCHANGED <<oroot, osize, olive, ocopied, cVars>>

-----------------------------------------------------------------------------
EndCopy == copying' = FALSE /\ croot' = NULL /\ made' = {} /\ stack' = << >>

\* *this = other: rb_tree tmp(other) starts with the root.
CopyCall ==
  /\ Resting
  /\ copying' = TRUE
  /\ croot' = Twin(oroot, Used)
  /\ croot' = NULL => oroot = NULL
  /\ made' = {croot'} \ {NULL}
  /\ stack' = IF oroot = NULL THEN << >> ELSE << <<oroot, croot'>> >>
  /\ UNCHANGED <<vars, oVars>>

\* The pairs an iteration pushes, the left one on top.
PushRight(right, left) == SelectSeq(<<right>>, LAMBDA p : p[1] # NULL)
PushChildren(right, left) == SelectSeq(<<right, left>>, LAMBDA p : p[1] # NULL)

\* One iteration: the value of each child of the popped node is copied.  The
\* new nodes keep the colour and the parent their constructor gave them.
CopyNode ==
  /\ copying
  /\ stack # << >>
  /\ LET old   == Last(stack)[1]
         new   == Last(stack)[2]
         right == Twin(Right(tree, old), Used)
         left  == Twin(Left(tree, old), Used \cup {right})
     IN  /\ right = NULL => Right(tree, old) = NULL
         /\ left = NULL => Left(tree, old) = NULL
         /\ tree' = SetChild(SetChild(tree, new, "R", right), new, "L", left)
         /\ made' = made \cup ({left, right} \ {NULL})
         /\ stack' = Front(stack) \o
              PushChildren(<<Right(tree, old), right>>, <<Left(tree, old), left>>)
  /\ UNCHANGED <<color, live, size_, pc, key, z, cur, par, side, oVars, copying, croot>>

\* An allocation throws: clear_nodes(new_root), and no object has changed.
CopyThrows ==
  /\ copying
  /\ stack # << >>
  /\ tree' = Scrub(tree, made)
  /\ EndCopy
  /\ UNCHANGED <<color, live, size_, pc, key, z, cur, par, side, oVars>>

\* size_ = other.size_; swap(tmp); the destructor of tmp deletes what `this` held.
CopyDone ==
  /\ copying
  /\ stack = << >>
  /\ tree' = SetRoot(Scrub(tree, live), croot)
  /\ color' = ScrubColor(color, live)
  /\ live' = made
  /\ size_' = osize
  /\ copied' = (made # {})
  /\ EndCopy
  /\ UNCHANGED <<pc, key, z, cur, par, side, oroot, osize, olive, ocopied>>

\* The root a move leaves behind, without and with std::exchange.
KeepMoved(r) == r
ExchangeMoved(r) == NULL

\* *this = std::move(other)
MoveAssign ==
  /\ Resting
  /\ tree' = SetRoot(Scrub(tree, live), oroot)
  /\ color' = ScrubColor(color, live)
  /\ live' = olive /\ size_' = osize /\ copied' = ocopied
  /\ oroot' = ExchangeMoved(oroot)
  /\ osize' = 0 /\ olive' = {} /\ ocopied' = FALSE
  /\ UNCHANGED <<pc, key, z, cur, par, side, cVars>>

Swap ==
  /\ Resting
  /\ tree' = SetRoot(tree, oroot) /\ oroot' = tree.root
  /\ size_' = osize /\ osize' = size_
  /\ live' = olive /\ olive' = live
  /\ copied' = ocopied /\ ocopied' = copied
  /\ UNCHANGED <<color, pc, key, z, cur, par, side, cVars>>

ObjNext == ThisStep \/ CopyCall \/ CopyNode \/ CopyThrows \/ CopyDone
           \/ MoveAssign \/ Swap

ObjSpec == ObjInit /\ [][ObjNext]_<<vars, oVars, cVars>>
-----------------------------------------------------------------------------
(***************************************************************************)
(* Properties                                                              *)
(***************************************************************************)
InorderFrom(r) == Inorder(tree, r)
NodesFrom(r) == {InorderFrom(r)[i] : i \in DOMAIN InorderFrom(r)}
KeysFrom(r) == [i \in DOMAIN InorderFrom(r) |-> KeyOf[InorderFrom(r)[i]]]

\* Whatever is copied, moved and swapped, and wherever a copy throws, every
\* allocated node belongs to one object only, in one place: no destructor
\* deletes a node twice and none is leaked.
OwnedOnce ==
  pc = "idle" =>
    /\ NodesFrom(tree.root) = live /\ Len(InorderFrom(tree.root)) = size_
    /\ NodesFrom(oroot) = olive    /\ Len(InorderFrom(oroot)) = osize
    /\ NodesFrom(tree.root) \cap NodesFrom(oroot) = {}
    /\ NodesFrom(croot) = made
    /\ made \cap (live \cup olive) = {}

\* A copy has the elements of its source in the same order, and the source
\* keeps them: the copy assignment that completes makes the two equal.
CopyIsEqual ==
  [][copying /\ ~copying' /\ stack = << >> =>
       /\ KeysFrom(croot) = KeysFrom(oroot)
       /\ tree'.root = croot /\ size_' = osize]_<<vars, oVars, cVars>>

\* After an erase the elements with other keys are still there, as many as
\* size() says.
EraseKeepsTheRest == pc = "idle" => Len(InorderFrom(tree.root)) = size_
=============================================================================
