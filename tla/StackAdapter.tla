----------------------------- MODULE StackAdapter -----------------------------
(***************************************************************************)
(* my::stack (stack_adapter.hpp) on a deque on blocks, whose last element  *)
(* is the top.  Callers empty a stack and go on with it, so the deque is   *)
(* pushed into whatever its indices are then.                              *)
(***************************************************************************)
EXTENDS BlocksDeque

InitStacks == deque = [o \in Obj |-> Fresh]

Push(o, v) == PushBack(o, v)

\* pop() asserts that the stack is not empty.
Pop(o) == PopBack(o)

\* top() is back().
Top(d) == d.blocks[Len(d.blocks)][d.tail_index - 1]

\* What top() and pop() give until the stack is empty, the first pushed first.
RECURSIVE Stacked(_)
Stacked(d) == IF d.size = 0 THEN << >> ELSE Append(Stacked(PoppedBack(d)), Top(d))
=============================================================================
