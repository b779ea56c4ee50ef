---------------------------- MODULE MCOsiThread -----------------------------
(***************************************************************************)
(* Instances of OsiThread for TLC: two tasks that post to a thread with    *)
(* two queues, and the thread itself.                                      *)
(***************************************************************************)
EXTENDS OsiThread, TLC

CONSTANTS p1, p2, w1, w2, e1, e2

\* The A2DP decoder thread's layout: one event alone in a queue, work in the other.
EventAlone == [i \in Items |-> IF i \in Events THEN 2 ELSE 1]
OnePlaceEach == [q \in Queues |-> 1]

\* A queue that work and events share, and which a post can find full.
AllInFirst == [i \in Items |-> 1]

\* The events have priority over the work.
EventsFirst == [i \in Items |-> IF i \in Events THEN 1 ELSE 2]
TwoPlacesFirst == [q \in Queues |-> IF q = 1 THEN 2 ELSE 1]
=============================================================================
