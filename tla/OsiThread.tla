----------------------------- MODULE OsiThread ------------------------------
(***************************************************************************)
(* components/bt/common/osi/thread.c: a FreeRTOS task that runs the work   *)
(* items other tasks post to its prioritised queues, and the osi_event     *)
(* layer that keeps at most one instance of an event in a queue.           *)
(*                                                                         *)
(* One step is one operation on something another task can see: a FreeRTOS *)
(* queue or semaphore operation, a critical section of event->lock, or a   *)
(* read or write of thread->stop, thread->thread_handle or                 *)
(* event->is_queued outside it.  Queue indexes start at 1 here and at 0 in *)
(* the code; the first queue has the highest priority in both.             *)
(***************************************************************************)
EXTENDS Naturals, Sequences, FiniteSets

CONSTANTS
    Posters,         \* the tasks that post to the thread
    Worker,          \* the thread's own task, which may post to itself
    Works,           \* plain items, given to osi_thread_post
    Events,          \* osi_events, given to osi_thread_post_event
    NoItem,          \* held by a task that holds no item
    NumQueues,       \* thread->work_queue_num
    Capacity,        \* capacity of each queue
    QueueOf,         \* the queue each item is posted to
    Impatient,       \* tasks whose posts have a finite timeout
    JoinMayTimeout   \* can the worker take longer than osi_thread_join's 1000 ms?

Tasks == Posters \cup {Worker}
Items == Works \cup Events
Queues == 1..NumQueues

ASSUME ItemsAssumption == NoItem \notin Items /\ Works \cap Events = {}
ASSUME QueuesAssumption == /\ NumQueues \in Nat \ {0}
                           /\ Capacity \in [Queues -> Nat \ {0}]
                           /\ QueueOf \in [Items -> Queues]
ASSUME TasksAssumption == Worker \notin Posters /\ IsFiniteSet(Posters)

VARIABLES
    queues,          \* thread->work_queues
    work_sem,        \* binary: there may be work, or a stop
    stop_sem,        \* binary: the worker has left its loop
    stop,            \* thread->stop
    thread_handle,   \* is thread->thread_handle not NULL?
    is_queued,       \* event->is_queued of each event
    worker,          \* where the worker is in osi_thread_run
    idx,             \* the queue the worker looks at next
    item,            \* the item the worker took
    pc,              \* where each task is in a post
    job,             \* the item it posts
    owner,           \* where osi_thread_free is
    unseen,          \* history: posted events whose handler has not begun since
    arrived          \* history: items put in each queue since the scan began

threadVars == << queues, work_sem, stop_sem, stop, thread_handle >>
workerVars == << worker, idx, item >>
postVars == << pc, job >>
history == << unseen, arrived >>
vars == << threadVars, is_queued, workerVars, postVars, owner, history >>

Init == /\ queues = [q \in Queues |-> << >>]
        /\ work_sem = 0
        /\ stop_sem = 0
        /\ stop = FALSE
        /\ thread_handle = TRUE
        /\ is_queued = [e \in Events |-> 0]
        /\ worker = "take"
        /\ idx = 1
        /\ item = NoItem
        /\ pc = [t \in Tasks |-> "idle"]
        /\ job = [t \in Tasks |-> NoItem]
        /\ owner = "idle"
        /\ unseen = [e \in Events |-> FALSE]
        /\ arrived = [q \in Queues |-> 0]

-----------------------------------------------------------------------------
\* A task may call the thread when it is not in a call already; the worker does
\* so from the item it runs, the others as long as nobody frees the thread.
MayCall(t) == /\ pc[t] = "idle"
              /\ IF t = Worker THEN worker = "run" ELSE owner = "idle"

(* Mutants: each is one operation with a plausible mistake; its name ends   *)
(* in the mistake.                                                          *)

\* The post that did not make is_queued 1 posts the handler too.
AcquireEventAlways(t) ==
    /\ pc[t] = "acquire"
    /\ is_queued' = [is_queued EXCEPT ![job[t]] = @ + 1]
    /\ pc' = [pc EXCEPT ![t] = "put"]
    /\ UNCHANGED << threadVars, workerVars, job, owner, history >>

\* work_sem is given before the item is in the queue.
PutAfterGive(t) ==
    LET q == QueueOf[job[t]] IN
    /\ pc[t] = "put"
    /\ Len(queues[q]) < Capacity[q]
    /\ \/ /\ work_sem = 0
          /\ work_sem' = 1
          /\ UNCHANGED << queues, arrived, pc, job >>
       \/ /\ queues' = [queues EXCEPT ![q] = Append(@, job[t])]
          /\ arrived' = [arrived EXCEPT ![q] = @ + 1]
          /\ pc' = [pc EXCEPT ![t] = "idle"]
          /\ job' = [job EXCEPT ![t] = NoItem]
          /\ UNCHANGED work_sem
    /\ UNCHANGED << stop_sem, stop, thread_handle, is_queued, workerVars, owner, unseen >>

\* The item overtakes those already in the queue (xQueueSendToFront).
PutInFront(t) ==
    LET q == QueueOf[job[t]] IN
    /\ pc[t] = "put"
    /\ Len(queues[q]) < Capacity[q]
    /\ queues' = [queues EXCEPT ![q] = << job[t] >> \o @]
    /\ arrived' = [arrived EXCEPT ![q] = @ + 1]
    /\ pc' = [pc EXCEPT ![t] = "give"]
    /\ job' = [job EXCEPT ![t] = NoItem]
    /\ UNCHANGED << work_sem, stop_sem, stop, thread_handle, is_queued, workerVars, owner, unseen >>

\* The worker runs one item per semaphore it takes.
WorkerFinishRests ==
    /\ worker = "run"
    /\ pc[Worker] = "idle"
    /\ worker' = "take"
    /\ item' = NoItem
    /\ arrived' = [q \in Queues |-> 0]
    /\ UNCHANGED << threadVars, is_queued, idx, postVars, owner, unseen >>

\* The scan goes on where it was (no "idx = 0").
WorkerFinishGoesOn ==
    /\ worker = "run"
    /\ pc[Worker] = "idle"
    /\ worker' = "scan"
    /\ item' = NoItem
    /\ arrived' = [q \in Queues |-> 0]
    /\ UNCHANGED << threadVars, is_queued, idx, postVars, owner, unseen >>

\* is_queued is cleared after func was called, which a post may precede.
HandlerClearLate ==
    /\ worker = "handler"
    /\ unseen' = [unseen EXCEPT ![item] = FALSE]
    /\ worker' = "run"
    /\ UNCHANGED << threadVars, is_queued, idx, item, postVars, owner, arrived >>

\* The worker is not woken to see that it must stop.
OwnerGiveWorkForgotten ==
    /\ owner = "giveWork"
    /\ owner' = "join"
    /\ UNCHANGED << threadVars, is_queued, workerVars, postVars, history >>

\* A worker that did not end in time is left to itself.
JoinTimeoutLeavesTask ==
    /\ owner = "join"
    /\ JoinMayTimeout
    /\ stop_sem = 0
    /\ owner' = "stopped"
    /\ UNCHANGED << threadVars, is_queued, workerVars, postVars, history >>

-----------------------------------------------------------------------------
(* Posting *)

\* osi_thread_post, up to xQueueSend.
Post(t, w) ==
    /\ MayCall(t)
    /\ pc' = [pc EXCEPT ![t] = "put"]
    /\ job' = [job EXCEPT ![t] = w]
    /\ UNCHANGED << threadVars, is_queued, workerVars, owner, history >>

\* osi_thread_post_event: the test of is_queued that takes no lock.
PostEvent(t, e) ==
    /\ MayCall(t)
    /\ unseen' = [unseen EXCEPT ![e] = TRUE]
    /\ IF is_queued[e] = 0
       THEN /\ pc' = [pc EXCEPT ![t] = "acquire"]
            /\ job' = [job EXCEPT ![t] = e]
       ELSE UNCHANGED postVars
    /\ UNCHANGED << threadVars, is_queued, workerVars, owner, arrived >>

\* The increment under the lock: the task that made it 1 posts the handler.
AcquireEvent(t) ==
    /\ pc[t] = "acquire"
    /\ is_queued' = [is_queued EXCEPT ![job[t]] = @ + 1]
    /\ IF is_queued[job[t]] = 0
       THEN pc' = [pc EXCEPT ![t] = "put"] /\ UNCHANGED job
       ELSE pc' = [pc EXCEPT ![t] = "idle"] /\ job' = [job EXCEPT ![t] = NoItem]
    /\ UNCHANGED << threadVars, workerVars, owner, history >>

\* xQueueSend finds room.
Put(t) ==
    LET q == QueueOf[job[t]] IN
    /\ pc[t] = "put"
    /\ Len(queues[q]) < Capacity[q]
    /\ queues' = [queues EXCEPT ![q] = Append(@, job[t])]
    /\ arrived' = [arrived EXCEPT ![q] = @ + 1]
    /\ pc' = [pc EXCEPT ![t] = "give"]
    /\ job' = [job EXCEPT ![t] = NoItem]
    /\ UNCHANGED << work_sem, stop_sem, stop, thread_handle, is_queued, workerVars, owner, unseen >>

\* xQueueSend times out.
PutTimeout(t) ==
    /\ pc[t] = "put"
    /\ t \in Impatient
    /\ Len(queues[QueueOf[job[t]]]) = Capacity[QueueOf[job[t]]]
    /\ IF job[t] \in Events
       THEN pc' = [pc EXCEPT ![t] = "clear"] /\ UNCHANGED job
       ELSE pc' = [pc EXCEPT ![t] = "idle"] /\ job' = [job EXCEPT ![t] = NoItem]
    /\ UNCHANGED << threadVars, is_queued, workerVars, owner, history >>

\* The post failed: is_queued is cleared to let others post the event.
ClearEvent(t) ==
    /\ pc[t] = "clear"
    /\ is_queued' = [is_queued EXCEPT ![job[t]] = 0]
    /\ pc' = [pc EXCEPT ![t] = "idle"]
    /\ job' = [job EXCEPT ![t] = NoItem]
    /\ UNCHANGED << threadVars, workerVars, owner, history >>

\* osi_sem_give of the binary work_sem.
GiveWork(t) ==
    /\ pc[t] = "give"
    /\ work_sem' = 1
    /\ pc' = [pc EXCEPT ![t] = "idle"]
    /\ UNCHANGED << queues, stop_sem, stop, thread_handle, is_queued, workerVars, job, owner, history >>

-----------------------------------------------------------------------------
(* osi_thread_run *)

WorkerTake ==
    /\ worker = "take"
    /\ work_sem = 1
    /\ work_sem' = 0
    /\ worker' = "check"
    /\ UNCHANGED << queues, stop_sem, stop, thread_handle, is_queued, idx, item, postVars, owner, history >>

\* A new scan starts at the first queue; or the loop ends.
WorkerCheck ==
    /\ worker = "check"
    /\ IF stop THEN worker' = "exit" ELSE worker' = "scan"
    /\ idx' = 1
    /\ arrived' = [q \in Queues |-> 0]
    /\ UNCHANGED << threadVars, is_queued, item, postVars, owner, unseen >>

\* The condition of the inner loop holds: one more queue is looked at, also when
\* the thread is told to stop before it is.
WorkerTest ==
    /\ worker = "scan"
    /\ ~stop
    /\ idx \in Queues
    /\ worker' = "get"
    /\ UNCHANGED << threadVars, is_queued, idx, item, postVars, owner, history >>

\* xQueueReceive finds an item in that queue.
WorkerGet ==
    /\ worker = "get"
    /\ queues[idx] # << >>
    /\ item' = Head(queues[idx])
    /\ queues' = [queues EXCEPT ![idx] = Tail(@)]
    /\ worker' = IF item' \in Events THEN "handler" ELSE "run"
    /\ UNCHANGED << work_sem, stop_sem, stop, thread_handle, is_queued, idx, postVars, owner, history >>

\* It finds none: the next queue is next.
WorkerMiss ==
    /\ worker = "get"
    /\ queues[idx] = << >>
    /\ worker' = "scan"
    /\ idx' = idx + 1
    /\ UNCHANGED << threadVars, is_queued, item, postVars, owner, history >>

\* The inner loop ends: all queues were found empty, or the thread is stopping.
WorkerRest ==
    /\ worker = "scan"
    /\ stop \/ idx > NumQueues
    /\ worker' = "take"
    /\ UNCHANGED << threadVars, is_queued, idx, item, postVars, owner, history >>

\* osi_thread_generic_event_handler: is_queued is cleared before func is called.
HandlerClear ==
    /\ worker = "handler"
    /\ is_queued' = [is_queued EXCEPT ![item] = 0]
    /\ unseen' = [unseen EXCEPT ![item] = FALSE]
    /\ worker' = "run"
    /\ UNCHANGED << threadVars, idx, item, postVars, owner, arrived >>

\* The item's function returns; the scan starts again at the first queue.
WorkerFinish ==
    /\ worker = "run"
    /\ pc[Worker] = "idle"
    /\ worker' = "scan"
    /\ idx' = 1
    /\ item' = NoItem
    /\ arrived' = [q \in Queues |-> 0]
    /\ UNCHANGED << threadVars, is_queued, postVars, owner, unseen >>

WorkerForgetHandle ==
    /\ worker = "exit"
    /\ thread_handle' = FALSE
    /\ worker' = "giveStop"
    /\ UNCHANGED << queues, work_sem, stop_sem, stop, is_queued, idx, item, postVars, owner, history >>

WorkerGiveStop ==
    /\ worker = "giveStop"
    /\ stop_sem' = 1
    /\ worker' = "left"
    /\ UNCHANGED << queues, work_sem, stop, thread_handle, is_queued, idx, item, postVars, owner, history >>

\* vTaskDelete(NULL)
WorkerDelete ==
    /\ worker = "left"
    /\ worker' = "deleted"
    /\ UNCHANGED << threadVars, is_queued, idx, item, postVars, owner, history >>

-----------------------------------------------------------------------------
(* osi_thread_free and osi_thread_stop *)

\* The owner frees the thread when no other task is posting to it.
Free ==
    /\ owner = "idle"
    /\ \A t \in Posters : pc[t] = "idle"
    /\ stop' = TRUE
    /\ owner' = "giveWork"
    /\ UNCHANGED << queues, work_sem, stop_sem, thread_handle, is_queued, workerVars, postVars, history >>

OwnerGiveWork ==
    /\ owner = "giveWork"
    /\ work_sem' = 1
    /\ owner' = "join"
    /\ UNCHANGED << queues, stop_sem, stop, thread_handle, is_queued, workerVars, postVars, history >>

Join ==
    /\ owner = "join"
    /\ stop_sem = 1
    /\ stop_sem' = 0
    /\ owner' = "stopped"
    /\ UNCHANGED << queues, work_sem, stop, thread_handle, is_queued, workerVars, postVars, history >>

JoinTimeout ==
    /\ owner = "join"
    /\ JoinMayTimeout
    /\ stop_sem = 0
    /\ owner' = IF thread_handle THEN "delete" ELSE "stopped"
    /\ UNCHANGED << threadVars, is_queued, workerVars, postVars, history >>

\* vTaskDelete of the handle the test above read, wherever its task is by then;
\* a task that has deleted itself cannot be deleted again.
OwnerDelete ==
    /\ owner = "delete"
    /\ worker' = "deleted"
    /\ pc' = [pc EXCEPT ![Worker] = "idle"]
    /\ job' = [job EXCEPT ![Worker] = NoItem]
    /\ owner' = IF worker = "deleted" THEN "misdeleted" ELSE "stopped"
    /\ UNCHANGED << threadVars, is_queued, idx, item, history >>

\* The queues, semaphores and the thread itself are freed, items and all.
Release ==
    /\ owner = "stopped"
    /\ queues' = [q \in Queues |-> << >>]
    /\ owner' = "freed"
    /\ UNCHANGED << work_sem, stop_sem, stop, thread_handle, is_queued, workerVars, postVars, history >>

-----------------------------------------------------------------------------
PostStep(t) == \/ AcquireEvent(t)
               \/ Put(t)
               \/ PutTimeout(t)
               \/ ClearEvent(t)
               \/ GiveWork(t)

WorkerStep == \/ WorkerTake
              \/ WorkerCheck
              \/ WorkerTest
              \/ WorkerGet
              \/ WorkerMiss
              \/ WorkerRest
              \/ HandlerClear
              \/ WorkerForgetHandle
              \/ WorkerGiveStop
              \/ WorkerDelete

OwnerStep == \/ OwnerGiveWork
             \/ Join
             \/ JoinTimeout
             \/ OwnerDelete
             \/ Release

Next == \/ \E t \in Tasks : \/ \E w \in Works : Post(t, w)
                            \/ \E e \in Events : PostEvent(t, e)
                            \/ PostStep(t)
        \/ WorkerStep
        \/ WorkerFinish
        \/ Free
        \/ OwnerStep

Spec == Init /\ [][Next]_vars

\* Every task that can run is scheduled in the end, and every item's function
\* returns, whatever it posts before it does.  Nobody has to post or to free.
Fairness == /\ \A t \in Tasks : WF_vars(PostStep(t))
            /\ WF_vars(WorkerStep)
            /\ SF_vars(WorkerFinish)
            /\ WF_vars(OwnerStep)

FairSpec == Spec /\ Fairness

-----------------------------------------------------------------------------
WorkerPlaces == {"take", "check", "scan", "get", "handler", "run",
                 "exit", "giveStop", "left", "deleted"}
PostPlaces == {"idle", "acquire", "put", "clear", "give"}
OwnerPlaces == {"idle", "giveWork", "join", "delete", "stopped", "misdeleted", "freed"}

\* The type invariant.  The queues never hold more than their capacity, the
\* semaphores are binary, and no more posts than there are tasks have counted on
\* the same event.
TypeOK == /\ queues \in [Queues -> Seq(Items)]
          /\ \A q \in Queues : Len(queues[q]) <= Capacity[q]
          /\ work_sem \in {0, 1}
          /\ stop_sem \in {0, 1}
          /\ stop \in BOOLEAN
          /\ thread_handle \in BOOLEAN
          /\ is_queued \in [Events -> Nat]
          /\ worker \in WorkerPlaces
          /\ idx \in 1..(NumQueues + 1)
          /\ item \in Items \cup {NoItem}
          /\ pc \in [Tasks -> PostPlaces]
          /\ job \in [Tasks -> Items \cup {NoItem}]
          /\ owner \in OwnerPlaces
          /\ unseen \in [Events -> BOOLEAN]
          /\ arrived \in [Queues -> Nat]

\* Somebody will wake the worker, or has done so.
WakeupComing == work_sem = 1 \/ \E t \in Tasks : pc[t] = "give"

\* No wakeup is lost although work_sem is binary and the worker empties all queues
\* for one take of it: whenever the worker waits in osi_sem_take, or is past a
\* queue in its scan, that queue is empty or work_sem is given once more
\* (osi_thread_run takes the semaphore before it looks at the queues, and
\* osi_thread_post gives it after xQueueSend).
NoLostWakeup ==
    /\ worker = "take" /\ ~stop =>
          \A q \in Queues : queues[q] # << >> => WakeupComing
    /\ worker \in {"scan", "get"} =>
          \A q \in Queues : q < idx /\ queues[q] # << >> => WakeupComing
    /\ worker = "take" /\ stop => work_sem = 1 \/ owner = "giveWork"

\* The tasks that have won event e and not yet put it, or not undone the failure.
Winners(e) == {t \in Tasks : pc[t] \in {"put", "clear"} /\ job[t] = e}

\* The places of event e in its queue.
Places(e) == {i \in 1..Len(queues[QueueOf[e]]) : queues[QueueOf[e]][i] = e}

\* Is the generic handler about to clear is_queued of e?
Handling(e) == worker = "handler" /\ item = e

\* "At most one instance" of an event (osi_event_create): of the tasks about to
\* put it, its places in the queue and the handler about to clear is_queued there
\* is at most one, and none while is_queued is 0, whatever posts, failed posts and
\* handlers overlap.
EventOnce ==
    \A e \in Events :
       /\ \A t, u \in Winners(e) : t = u
       /\ \A i, j \in Places(e) : i = j
       /\ Winners(e) # {} => Places(e) = {} /\ ~Handling(e)
       /\ Places(e) # {} => ~Handling(e)
       /\ is_queued[e] = 0 => Winners(e) = {} /\ Places(e) = {} /\ ~Handling(e)

\* The worker looks at a queue only when every queue of higher priority was
\* empty after the last item it ran: what they hold was put there since.
PriorityRespected ==
    worker \in {"scan", "get"} => \A q \in Queues : q < idx => Len(queues[q]) <= arrived[q]

\* Once osi_thread_stop has returned, no item runs and no queue is looked at, so
\* that osi_thread_free can delete the queues (thread.c:311): also when the join
\* timed out, over an item that runs too long, and the task is deleted wherever it
\* is, or is found to have cleared its handle and left alone.
StopEndsWork ==
    owner \in {"stopped", "misdeleted", "freed"} =>
        worker \in {"giveStop", "left", "deleted"} /\ pc[Worker] = "idle"

\* When osi_thread_stop returns, the worker is past its last use of the thread,
\* which osi_thread_free frees next, and nobody has deleted a task twice
\* ("if join failed, delete the task here").
StopLeavesNoWorker ==
    /\ owner \in {"stopped", "freed"} => worker \in {"left", "deleted"}
    /\ owner # "misdeleted"

\* The abstract worker thread: what runs is the item in the worker's hands, and
\* one that has tested stop and not yet received may take one more.
Abstract == INSTANCE WorkThread WITH
               running <- IF worker \in {"handler", "run"} THEN item ELSE NoItem,
               stopped <- stop,
               last <- stop /\ worker = "get"

\* A thread of osi/thread.c is a worker thread: it runs the items of each queue in
\* the order they were posted, one at a time, takes at most one more once it is
\* told to stop, and (under FairSpec) never rests while there is work.
ImplementsWorkThread == Abstract!Spec

\* The same without the liveness part.
ImplementsWorkThreadSafely == Abstract!Init /\ [][Abstract!Next]_Abstract!vars

\* Every event posted to the first queue is handled, or the thread is stopped.
EveryEventHandled ==
    \A e \in Events : unseen[e] ~> (~unseen[e] \/ stop)

\* A call of osi_thread_free ends, by itself when no item runs for longer than the
\* join waits, and the worker has ended then.
FreeEnds == stop ~> owner = "freed" /\ worker = "deleted"
=============================================================================
