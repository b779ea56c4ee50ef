---------------------------- MODULE MCFixedQueue ----------------------------
(***************************************************************************)
(* Instance of FixedQueue for TLC: a producer, a consumer, a task that     *)
(* removes from the middle, and one that does all three (the BTU task both *)
(* adds to and drops from the A2DP queue), on a queue of three places.       *)
(* p2 gives up waiting; the others wait for as long as it takes.           *)
(***************************************************************************)
EXTENDS FixedQueue

CONSTANTS p1, p2, c1, c2, d1, d2, d3, d4
=============================================================================
