----------------------------- MODULE WorkThread -----------------------------
(***************************************************************************)
(* What osi/thread.h promises of a worker thread: items posted to its      *)
(* queues are run one at a time by one task, each queue in order of        *)
(* posting; an idle thread with work runs some of it.  A thread that was   *)
(* about to take an item when it is told to stop may still run that one;   *)
(* it takes no other, and those left are dropped.  OsiThread implements it *)
(* with binary semaphores and FreeRTOS queues.                             *)
(***************************************************************************)
EXTENDS Naturals, Sequences

CONSTANTS Items,      \* what may be posted
          NoItem,     \* runs when the thread is idle
          Queues,     \* the work queues
          QueueOf,    \* the queue each item is posted to
          Capacity    \* how many items a queue holds

VARIABLES queues,     \* the items waiting, per queue
          running,    \* the item being run
          stopped,    \* has the thread been told to stop?
          last        \* may it run one more item nevertheless?

vars == << queues, running, stopped, last >>

Init == /\ queues = [q \in Queues |-> << >>]
        /\ running = NoItem
        /\ stopped = FALSE
        /\ last = FALSE

Post(i) == /\ Len(queues[QueueOf[i]]) < Capacity[QueueOf[i]]
           /\ queues' = [queues EXCEPT ![QueueOf[i]] = Append(@, i)]
           /\ UNCHANGED << running, stopped, last >>

Run(q) == /\ running = NoItem
          /\ ~stopped \/ last
          /\ queues[q] # << >>
          /\ running' = Head(queues[q])
          /\ queues' = [queues EXCEPT ![q] = Tail(@)]
          /\ last' = FALSE
          /\ UNCHANGED stopped

Finish == /\ running # NoItem
          /\ running' = NoItem
          /\ UNCHANGED << queues, stopped, last >>

\* Only a thread that runs nothing can be about to take an item.
Stop == /\ ~stopped
        /\ stopped' = TRUE
        /\ last' \in {FALSE, running = NoItem}
        /\ UNCHANGED << queues, running >>

\* There was no item where the thread looked.
GiveUp == /\ last
          /\ last' = FALSE
          /\ UNCHANGED << queues, running, stopped >>

\* The thread is freed, with the items it had still to run.
Drop == /\ stopped
        /\ ~last
        /\ queues' = [q \in Queues |-> << >>]
        /\ UNCHANGED << running, stopped, last >>

RunSome == \E q \in Queues : Run(q)

Next == (\E i \in Items : Post(i)) \/ RunSome \/ Finish \/ Stop \/ GiveUp \/ Drop

Spec == Init /\ [][Next]_vars /\ WF_vars(RunSome)
=============================================================================
