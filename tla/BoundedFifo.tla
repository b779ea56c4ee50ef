---------------------------- MODULE BoundedFifo ----------------------------
(***************************************************************************)
(* What osi/fixed_queue.h promises of a fixed queue: a first-in first-out  *)
(* list of at most Capacity elements, each operation taking effect at one  *)
(* instant.  FixedQueue implements it with two counting semaphores, a      *)
(* mutex and a linked list.                                                *)
(***************************************************************************)
EXTENDS Naturals, Sequences

CONSTANTS Data,      \* the elements a caller may add
          Capacity   \* the |capacity| given to fixed_queue_new

VARIABLE queue       \* the elements, oldest first

Init == queue = << >>

\* An element is added behind all the others.
Enqueue(d) == /\ Len(queue) < Capacity
              /\ queue' = Append(queue, d)

\* The oldest element is taken.
Dequeue == /\ queue # << >>
           /\ queue' = Tail(queue)

\* An element is taken from anywhere; the others keep their order.
RemoveAt(i) == queue' = SubSeq(queue, 1, i - 1) \o SubSeq(queue, i + 1, Len(queue))

Next == \/ \E d \in Data : Enqueue(d)
        \/ Dequeue
        \/ \E i \in 1..Len(queue) : RemoveAt(i)

Spec == Init /\ [][Next]_queue
=============================================================================
