----------------------------- MODULE QueueAdapter -----------------------------
(***************************************************************************)
(* my::queue (queue_adapter.hpp) on a deque on a cyclic buffer: enqueue at *)
(* the back, dequeue at the front.                                         *)
(***************************************************************************)
EXTENDS CyclicDeque

Enqueue(o, v) == PushBack(o, v)
Dequeue(o)    == PopFront(o)
FrontOf(d)    == Element(d, 0)

\* What front() and dequeue() give until the queue is empty.
RECURSIVE Queued(_)
Queued(d) == IF d.size = 0 THEN << >> ELSE <<FrontOf(d)>> \o Queued(DropFront(d))
=============================================================================
