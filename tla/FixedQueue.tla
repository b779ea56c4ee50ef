----------------------------- MODULE FixedQueue -----------------------------
(***************************************************************************)
(* components/bt/common/osi/fixed_queue.c: a bounded queue shared by       *)
(* FreeRTOS tasks.  enqueue_sem counts the free places, dequeue_sem the    *)
(* elements a consumer may claim; the list itself is only touched with     *)
(* queue->lock held, so each "lock; list operation; unlock" is one step,   *)
(* while the semaphore operations around it are steps of their own.        *)
(***************************************************************************)
EXTENDS Naturals, Sequences, FiniteSets

CONSTANTS
    Producers,    \* the tasks that enqueue
    Consumers,    \* the tasks that dequeue (a task may do both)
    Removers,     \* the tasks that take a given element out of the middle
    Patient,      \* those that pass FIXED_QUEUE_MAX_TIMEOUT and never give up
    Data,         \* the pointers a caller may enqueue
    NoData,       \* held by a task that holds no pointer
    Capacity,     \* queue->capacity
    ListMayFail   \* can osi_calloc of a list node fail in list_append?

Tasks == Producers \cup Consumers \cup Removers

ASSUME TasksAssumption == IsFiniteSet(Tasks)
ASSUME CapacityAssumption == Capacity \in Nat \ {0}
ASSUME DataAssumption == NoData \notin Data /\ ListMayFail \in BOOLEAN

VARIABLES
    list,         \* queue->list, oldest element first
    enqueue_sem,  \* count of queue->enqueue_sem
    dequeue_sem,  \* count of queue->dequeue_sem
    pc,           \* where each task is in a queue operation
    held,         \* the pointer a task is about to append or has just removed
    lost          \* how many appends have failed (history: no variable of the code)

vars == << list, enqueue_sem, dequeue_sem, pc, held, lost >>

Places == {"idle", "enqueue", "append", "giveDequeue",
           "dequeue", "remove", "giveEnqueue"}

Elements(s) == {s[i] : i \in DOMAIN s}

\* The tasks at a place, and how many they are.
At(place) == {t \in Tasks : pc[t] = place}
Count(place) == Cardinality(At(place))

Goto(t, place) == pc' = [pc EXCEPT ![t] = place]

\* osi_sem_give on a counting semaphore created with max_count = Capacity:
\* xSemaphoreGive fails, and changes nothing, when the count is at its maximum.
Give(sem) == IF sem < Capacity THEN sem + 1 ELSE sem

Init == /\ list = << >>
        /\ enqueue_sem = Capacity
        /\ dequeue_sem = 0
        /\ pc = [t \in Tasks |-> "idle"]
        /\ held = [t \in Tasks |-> NoData]
        /\ lost = 0

-----------------------------------------------------------------------------
(* Mutants: what some steps below would be with a plausible bug.  They are  *)
(* in no behaviour of Spec; each is there to break a property when it takes *)
(* the place of the step it varies.                                         *)

\* dequeue_sem is given before the list operation.
EnqueueTakeGivesEarly(t) ==
    /\ pc[t] = "enqueue"
    /\ enqueue_sem > 0
    /\ enqueue_sem' = enqueue_sem - 1
    /\ dequeue_sem' = Give(dequeue_sem)
    /\ Goto(t, "append")
    /\ UNCHANGED << list, held, lost >>

\* A failed append gives enqueue_sem back and lets its caller retry with the
\* place it no longer has.
EnqueueAppendFailsRetries(t) ==
    /\ pc[t] = "append"
    /\ ListMayFail
    /\ enqueue_sem' = Give(enqueue_sem)
    /\ UNCHANGED << list, dequeue_sem, pc, held, lost >>

\* The new element goes in front of the others (list_prepend).
EnqueueAppendInFront(t) ==
    /\ pc[t] = "append"
    /\ list' = << held[t] >> \o list
    /\ held' = [held EXCEPT ![t] = NoData]
    /\ Goto(t, "giveDequeue")
    /\ UNCHANGED << enqueue_sem, dequeue_sem, lost >>

\* The consumer is not told of the new element.
EnqueueGiveForgotten(t) ==
    /\ pc[t] = "giveDequeue"
    /\ Goto(t, "idle")
    /\ UNCHANGED << list, enqueue_sem, dequeue_sem, held, lost >>

\* The place of a removed element is not given back.
GiveEnqueueForgotten(t) ==
    /\ pc[t] = "giveEnqueue"
    /\ held' = [held EXCEPT ![t] = NoData]
    /\ Goto(t, "idle")
    /\ UNCHANGED << list, enqueue_sem, dequeue_sem, lost >>

\* An element is removed from the middle without claiming it first.
TryRemoveUnclaimed(t, i) ==
    /\ pc[t] = "idle"
    /\ held' = [held EXCEPT ![t] = list[i]]
    /\ list' = SubSeq(list, 1, i - 1) \o SubSeq(list, i + 1, Len(list))
    /\ Goto(t, "giveEnqueue")
    /\ UNCHANGED << enqueue_sem, dequeue_sem, lost >>
-----------------------------------------------------------------------------
(* fixed_queue_enqueue *)

\* The caller owns the pointer: it is in no queue and no other task holds it.
EnqueueCall(t, d) ==
    /\ pc[t] = "idle"
    /\ d \notin Elements(list) \cup {held[u] : u \in Tasks}
    /\ held' = [held EXCEPT ![t] = d]
    /\ Goto(t, "enqueue")
    /\ UNCHANGED << list, enqueue_sem, dequeue_sem, lost >>

EnqueueTake(t) ==
    /\ pc[t] = "enqueue"
    /\ enqueue_sem > 0
    /\ enqueue_sem' = enqueue_sem - 1
    /\ Goto(t, "append")
    /\ UNCHANGED << list, dequeue_sem, held, lost >>

\* osi_sem_take timed out: the call returns false and the caller frees the data.
EnqueueTimeout(t) ==
    /\ pc[t] = "enqueue"
    /\ t \notin Patient
    /\ enqueue_sem = 0
    /\ held' = [held EXCEPT ![t] = NoData]
    /\ Goto(t, "idle")
    /\ UNCHANGED << list, enqueue_sem, dequeue_sem, lost >>

EnqueueAppend(t) ==
    /\ pc[t] = "append"
    /\ list' = Append(list, held[t])
    /\ held' = [held EXCEPT ![t] = NoData]
    /\ Goto(t, "giveDequeue")
    /\ UNCHANGED << enqueue_sem, dequeue_sem, lost >>

\* list_append returned false: the call returns false.  The code gives back
\* neither semaphore.
EnqueueAppendFails(t) ==
    /\ pc[t] = "append"
    /\ ListMayFail
    /\ held' = [held EXCEPT ![t] = NoData]
    /\ Goto(t, "idle")
    /\ lost' = lost + 1
    /\ UNCHANGED << list, enqueue_sem, dequeue_sem >>

EnqueueGive(t) ==
    /\ pc[t] = "giveDequeue"
    /\ dequeue_sem' = Give(dequeue_sem)
    /\ Goto(t, "idle")
    /\ UNCHANGED << list, enqueue_sem, held, lost >>

-----------------------------------------------------------------------------
(* fixed_queue_dequeue *)

DequeueCall(t) ==
    /\ pc[t] = "idle"
    /\ Goto(t, "dequeue")
    /\ UNCHANGED << list, enqueue_sem, dequeue_sem, held, lost >>

DequeueTake(t) ==
    /\ pc[t] = "dequeue"
    /\ dequeue_sem > 0
    /\ dequeue_sem' = dequeue_sem - 1
    /\ Goto(t, "remove")
    /\ UNCHANGED << list, enqueue_sem, held, lost >>

DequeueTimeout(t) ==
    /\ pc[t] = "dequeue"
    /\ t \notin Patient
    /\ dequeue_sem = 0
    /\ Goto(t, "idle")
    /\ UNCHANGED << list, enqueue_sem, dequeue_sem, held, lost >>

DequeueRemove(t) ==
    /\ pc[t] = "remove"
    /\ list # << >>
    /\ held' = [held EXCEPT ![t] = Head(list)]
    /\ list' = Tail(list)
    /\ Goto(t, "giveEnqueue")
    /\ UNCHANGED << enqueue_sem, dequeue_sem, lost >>

\* The last step of fixed_queue_dequeue and of a successful
\* fixed_queue_try_remove_from_queue: the caller gets the pointer and frees it.
GiveEnqueue(t) ==
    /\ pc[t] = "giveEnqueue"
    /\ enqueue_sem' = Give(enqueue_sem)
    /\ held' = [held EXCEPT ![t] = NoData]
    /\ Goto(t, "idle")
    /\ UNCHANGED << list, dequeue_sem, lost >>

-----------------------------------------------------------------------------
(* fixed_queue_try_remove_from_queue *)

\* Under the lock: the element is in the list and a dequeue credit is free.
TryRemove(t, i) ==
    /\ pc[t] = "idle"
    /\ dequeue_sem > 0
    /\ dequeue_sem' = dequeue_sem - 1
    /\ held' = [held EXCEPT ![t] = list[i]]
    /\ list' = SubSeq(list, 1, i - 1) \o SubSeq(list, i + 1, Len(list))
    /\ Goto(t, "giveEnqueue")
    /\ UNCHANGED << enqueue_sem, lost >>

-----------------------------------------------------------------------------

Step(t) ==
    \/ EnqueueTake(t)
    \/ EnqueueTimeout(t)
    \/ EnqueueAppend(t)
    \/ EnqueueAppendFails(t)
    \/ EnqueueGive(t)
    \/ DequeueTake(t)
    \/ DequeueTimeout(t)
    \/ DequeueRemove(t)
    \/ GiveEnqueue(t)

Call(t) ==
    \/ t \in Producers /\ \E d \in Data : EnqueueCall(t, d)
    \/ t \in Consumers /\ DequeueCall(t)
    \/ t \in Removers /\ \E i \in 1..Len(list) : TryRemove(t, i)

Next == \E t \in Tasks : Step(t) \/ Call(t)

Spec == Init /\ [][Next]_vars

\* A task inside a queue operation is scheduled again; a consumer keeps asking
\* for elements (every such queue has a task that loops on it); and a task that
\* waits on a semaphore for as long as it takes is not overtaken forever
\* (FreeRTOS wakes the longest-waiting task of the highest waiting priority).
Fairness == /\ \A t \in Tasks : WF_vars(Step(t))
            /\ \A t \in Consumers : WF_vars(DequeueCall(t))
            /\ \A t \in Patient : SF_vars(EnqueueTake(t)) /\ SF_vars(DequeueTake(t))

FairSpec == Spec /\ Fairness

-----------------------------------------------------------------------------
(* Properties *)

TypeOK == /\ list \in Seq(Data)
          /\ enqueue_sem \in 0..Capacity
          /\ dequeue_sem \in 0..Capacity
          /\ pc \in [Tasks -> Places]
          /\ held \in [Tasks -> Data \cup {NoData}]
          /\ lost \in 0..Capacity

\* Every element of the list is either claimable through dequeue_sem, claimed
\* by a consumer that is about to remove it, or announced by a producer that
\* is about to give dequeue_sem (fixed_queue.c:148-153 and :164-171).
DequeueBalance ==
    dequeue_sem + Count("remove") + Count("giveDequeue") = Len(list)

\* A place in the queue is free, reserved, used, on its way back, or lost to an
\* append that failed; none is counted twice, and none goes missing in any
\* other way (fixed_queue.c:144, :149-155, :173).
EnqueueBalance ==
    enqueue_sem + Count("append") + Len(list) + Count("giveEnqueue") + lost = Capacity

\* list_front asserts that the list is not empty (list.c:95): a consumer that
\* obtained dequeue_sem finds an element whatever the other tasks, including
\* those that remove from the middle, did since.
FrontNeverOnEmpty == \A t \in At("remove") : list # << >>

\* The semaphores, the mutex and the list together behave as the atomic
\* bounded queue of fixed_queue.h.
Fifo == INSTANCE BoundedFifo WITH queue <- list
ImplementsFifo == Fifo!Spec

\* An element that was added is taken: no wake-up of dequeue_sem is lost.
EveryElementTaken == \A d \in Data : d \in Elements(list) ~> d \notin Elements(list)

\* A producer that waits for a place gets one, as long as the failed appends
\* have not used up the whole queue.
ProducerProceeds == \A t \in Tasks : pc[t] = "enqueue" ~> pc[t] # "enqueue" \/ lost = Capacity
=============================================================================
