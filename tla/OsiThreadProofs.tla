-------------------------- MODULE OsiThreadProofs ---------------------------
(***************************************************************************)
(* Proofs about OsiThread for any number of posting tasks, any items and   *)
(* any queues.  The inductive invariant adds to the type invariant what    *)
(* each task holds at each place, that an item is only in the queue it is  *)
(* bound to, and that a worker that has still to see stop will be woken.   *)
(***************************************************************************)
EXTENDS OsiThread, SequenceTheorems, TLAPS

\* A task that posts holds the item, and only events are acquired and undone.
JobOK == \A t \in Tasks : /\ pc[t] \in {"acquire", "clear"} => job[t] \in Events
                          /\ pc[t] = "put" => job[t] \in Items

\* The worker runs an item, and the generic handler an event.
ItemOK == /\ worker = "handler" => item \in Events
          /\ worker = "run" => item \in Items

\* The queue whose turn it was when the loop's condition was tested.
IdxOK == worker = "get" => idx \in Queues

\* Every item is in its own queue.
QueuesOK == \A q \in Queues : \A i \in 1..Len(queues[q]) : QueueOf[queues[q][i]] = q

\* A worker that is in its loop when the thread is stopped will take work_sem again.
StopOK == /\ stop <=> owner # "idle"
          /\ stop /\ worker \in {"take", "scan", "get", "handler", "run"} =>
                work_sem = 1 \/ owner = "giveWork"

IInv == /\ TypeOK
        /\ JobOK
        /\ ItemOK
        /\ IdxOK
        /\ QueuesOK
        /\ StopOK
        /\ NoLostWakeup
        /\ EventOnce
        /\ PriorityRespected

-----------------------------------------------------------------------------
(* Facts the steps rest on *)

LEMMA ConstantFacts ==
  /\ Works \subseteq Items /\ Events \subseteq Items /\ NoItem \notin Items
  /\ Posters \subseteq Tasks /\ Worker \in Tasks
  /\ NumQueues \in Nat /\ NumQueues >= 1 /\ Queues = 1..NumQueues
  /\ \A i \in Items : QueueOf[i] \in Queues
  /\ \A q \in Queues : Capacity[q] \in Nat /\ Capacity[q] >= 1
BY ItemsAssumption, QueuesAssumption, TasksAssumption DEF Items, Tasks, Queues

\* What taking the first element does to a sequence of items.
LEMMA HeadTailFacts ==
  ASSUME NEW s \in Seq(Items), s # << >>
  PROVE  /\ Head(s) \in Items /\ Head(s) = s[1]
         /\ Tail(s) \in Seq(Items)
         /\ Len(s) \in Nat /\ Len(s) >= 1 /\ Len(Tail(s)) = Len(s) - 1
         /\ \A i \in 1..Len(Tail(s)) : i + 1 \in 1..Len(s) /\ Tail(s)[i] = s[i + 1]
BY HeadTailProperties, EmptySeq, LenProperties

\* What a put does to a sequence of items.
LEMMA AppendFacts ==
  ASSUME NEW s \in Seq(Items), NEW e \in Items
  PROVE  /\ Append(s, e) \in Seq(Items)
         /\ Len(s) \in Nat /\ Len(Append(s, e)) = Len(s) + 1
         /\ \A i \in 1..Len(s) : Append(s, e)[i] = s[i]
         /\ Append(s, e)[Len(s) + 1] = e
BY AppendProperties, LenProperties

-----------------------------------------------------------------------------
(* The inductive invariant *)

LEMMA InitInv == Init => IInv
<1> SUFFICES ASSUME Init PROVE IInv
  OBVIOUS
<1> USE ConstantFacts DEF Init
<1>1. \A q \in Queues : queues[q] = << >> /\ Len(queues[q]) = 0 /\ queues[q] \in Seq(Items)
  BY EmptySeq
<1>2. TypeOK
  <2>1. queues \in [Queues -> Seq(Items)] /\ \A q \in Queues : Len(queues[q]) <= Capacity[q]
    BY <1>1
  <2>2. unseen \in [Events -> BOOLEAN]
    OBVIOUS
  <2>3. /\ is_queued \in [Events -> Nat]
        /\ pc \in [Tasks -> PostPlaces]
        /\ job \in [Tasks -> Items \cup {NoItem}]
        /\ arrived \in [Queues -> Nat]
    BY DEF PostPlaces
  <2>4. /\ stop \in BOOLEAN /\ thread_handle \in BOOLEAN
        /\ worker \in WorkerPlaces /\ owner \in OwnerPlaces
    BY DEF WorkerPlaces, OwnerPlaces
  <2>5. /\ work_sem \in {0, 1} /\ stop_sem \in {0, 1}
        /\ idx \in 1..(NumQueues + 1)
        /\ item \in Items \cup {NoItem}
    OBVIOUS
  <2> HIDE DEF Init
  <2> QED
    BY <2>1, <2>2, <2>3, <2>4, <2>5 DEF TypeOK
<1>3. JobOK /\ ItemOK /\ IdxOK /\ QueuesOK /\ StopOK
  BY <1>1 DEF JobOK, ItemOK, IdxOK, QueuesOK, StopOK
<1>4. NoLostWakeup /\ PriorityRespected
  BY <1>1 DEF NoLostWakeup, PriorityRespected
<1>5. EventOnce
  <2>1. \A e \in Events : Places(e) = {} /\ Winners(e) = {} /\ ~Handling(e)
    BY <1>1 DEF Places, Winners, Handling
  <2> QED
    BY <2>1 DEF EventOnce
<1> QED
  BY <1>2, <1>3, <1>4, <1>5 DEF IInv

LEMMA TypeStep == IInv /\ [Next]_vars => TypeOK'
<1> SUFFICES ASSUME IInv, [Next]_vars PROVE TypeOK'
  OBVIOUS
<1> USE ConstantFacts DEF IInv, TypeOK, IdxOK, WorkerPlaces, PostPlaces, OwnerPlaces,
        threadVars, workerVars, postVars, history
<1>1. ASSUME NEW t \in Tasks, NEW w \in Works, Post(t, w) PROVE TypeOK'
  BY <1>1 DEF Post
<1>2. ASSUME NEW t \in Tasks, NEW e \in Events, PostEvent(t, e) PROVE TypeOK'
  <2>1. unseen' \in [Events -> BOOLEAN]
    BY <1>2 DEF PostEvent
  <2>2. pc' \in [Tasks -> PostPlaces] /\ job' \in [Tasks -> Items \cup {NoItem}]
    BY <1>2, ZenonT(40) DEF PostEvent
  <2> QED
    BY <1>2, <2>1, <2>2 DEF PostEvent
<1>3. ASSUME NEW t \in Tasks, AcquireEvent(t) PROVE TypeOK'
  <2>1. is_queued' \in [Events -> Nat]
    BY <1>3 DEF AcquireEvent, JobOK
  <2>2. pc' \in [Tasks -> PostPlaces] /\ job' \in [Tasks -> Items \cup {NoItem}]
    BY <1>3 DEF AcquireEvent
  <2> QED
    BY <1>3, <2>1, <2>2 DEF AcquireEvent
<1>4. ASSUME NEW t \in Tasks, Put(t) PROVE TypeOK'
  <2> DEFINE q == QueueOf[job[t]]
  <2>1. job[t] \in Items /\ q \in Queues /\ queues[q] \in Seq(Items)
    BY <1>4 DEF Put, JobOK
  <2>2. /\ Append(queues[q], job[t]) \in Seq(Items)
        /\ Len(Append(queues[q], job[t])) = Len(queues[q]) + 1
        /\ Len(queues[q]) \in Nat
    BY <2>1, AppendFacts
  <2>3. /\ queues' = [queues EXCEPT ![q] = Append(queues[q], job[t])]
        /\ Len(queues[q]) < Capacity[q]
    BY <1>4 DEF Put
  <2> HIDE DEF q
  <2>4. queues' \in [Queues -> Seq(Items)]
    BY <2>1, <2>2, <2>3
  <2>5. \A r \in Queues : Len(queues'[r]) <= Capacity[r]
    BY <2>1, <2>2, <2>3
  <2>6. arrived' \in [Queues -> Nat]
    BY <1>4, <2>1 DEF Put, q
  <2> QED
    BY <1>4, <2>4, <2>5, <2>6, SMTT(30) DEF Put
<1>5. ASSUME NEW t \in Tasks, PutTimeout(t) PROVE TypeOK'
  BY <1>5, ZenonT(40) DEF PutTimeout
<1>6. ASSUME NEW t \in Tasks, ClearEvent(t) PROVE TypeOK'
  BY <1>6, ZenonT(40) DEF ClearEvent
<1>7. ASSUME NEW t \in Tasks, GiveWork(t) PROVE TypeOK'
  BY <1>7 DEF GiveWork
<1>8. CASE WorkerTake \/ WorkerTest
  BY <1>8 DEF WorkerTake, WorkerTest
<1>9. CASE WorkerCheck
  BY <1>9 DEF WorkerCheck
<1>10. CASE WorkerGet
  <2>1. /\ item' \in Items
        /\ Tail(queues[idx]) \in Seq(Items)
        /\ Len(Tail(queues[idx])) <= Capacity[idx]
    BY <1>10, HeadTailFacts DEF WorkerGet
  <2>2. queues' \in [Queues -> Seq(Items)] /\ \A r \in Queues : Len(queues'[r]) <= Capacity[r]
    BY <1>10, <2>1 DEF WorkerGet
  <2> QED
    BY <1>10, <2>1, <2>2 DEF WorkerGet
<1>11. CASE WorkerMiss
  BY <1>11, SMTT(30) DEF WorkerMiss
<1>12. CASE WorkerRest
  BY <1>12 DEF WorkerRest
<1>13. CASE HandlerClear
  BY <1>13 DEF HandlerClear
<1>14. CASE WorkerFinish
  BY <1>14 DEF WorkerFinish
<1>15. CASE WorkerForgetHandle \/ WorkerGiveStop \/ WorkerDelete
  BY <1>15 DEF WorkerForgetHandle, WorkerGiveStop, WorkerDelete
<1>16. CASE Free \/ OwnerGiveWork \/ Join \/ JoinTimeout
  BY <1>16 DEF Free, OwnerGiveWork, Join, JoinTimeout
<1>17. CASE OwnerDelete
  BY <1>17 DEF OwnerDelete
<1>18. CASE Release
  <2>1. \A q \in Queues : queues'[q] \in Seq(Items) /\ Len(queues'[q]) = 0
    BY <1>18, EmptySeq DEF Release
  <2> QED
    BY <1>18, <2>1 DEF Release
<1>19. CASE UNCHANGED vars
  BY <1>19 DEF vars
<1> QED
  BY <1>1, <1>2, <1>3, <1>4, <1>5, <1>6, <1>7, <1>8, <1>9, <1>10, <1>11, <1>12, <1>13, <1>14,
     <1>15, <1>16, <1>17, <1>18, <1>19 DEF Next, PostStep, WorkerStep, OwnerStep

\* What tasks and the worker hold, and where items are.
LEMMA HoldStep == IInv /\ [Next]_vars => (JobOK /\ ItemOK /\ IdxOK /\ QueuesOK)'
<1> SUFFICES ASSUME IInv, [Next]_vars PROVE (JobOK /\ ItemOK /\ IdxOK /\ QueuesOK)'
  OBVIOUS
<1> USE ConstantFacts DEF IInv, TypeOK, JobOK, ItemOK, IdxOK, QueuesOK, threadVars, workerVars, postVars
<1>1. ASSUME NEW t \in Tasks, NEW w \in Works, Post(t, w) PROVE (JobOK /\ ItemOK /\ IdxOK /\ QueuesOK)'
  BY <1>1 DEF Post
<1>2. ASSUME NEW t \in Tasks, NEW e \in Events, PostEvent(t, e)
      PROVE (JobOK /\ ItemOK /\ IdxOK /\ QueuesOK)'
  BY <1>2 DEF PostEvent
<1>3. ASSUME NEW t \in Tasks, AcquireEvent(t) PROVE (JobOK /\ ItemOK /\ IdxOK /\ QueuesOK)'
  BY <1>3 DEF AcquireEvent
<1>4. ASSUME NEW t \in Tasks, Put(t) PROVE (JobOK /\ ItemOK /\ IdxOK /\ QueuesOK)'
  <2>1. (JobOK /\ ItemOK /\ IdxOK)'
    BY <1>4 DEF Put
  <2>2. ASSUME NEW q \in Queues, NEW i \in 1..Len(queues'[q]) PROVE QueueOf[queues'[q][i]] = q
    <3>1. CASE q = QueueOf[job[t]]
      <4>1. queues'[q] = Append(queues[q], job[t]) /\ job[t] \in Items /\ queues[q] \in Seq(Items)
        BY <1>4, <3>1 DEF Put
      <4>2. i \in 1..Len(queues[q]) \/ i = Len(queues[q]) + 1
        BY <4>1, AppendFacts
      <4> QED
        BY <3>1, <4>1, <4>2, AppendFacts
    <3>2. CASE q # QueueOf[job[t]]
      BY <1>4, <3>2 DEF Put
    <3> QED
      BY <3>1, <3>2
  <2> QED
    BY <2>1, <2>2
<1>5. ASSUME NEW t \in Tasks, PutTimeout(t) \/ ClearEvent(t) \/ GiveWork(t)
      PROVE (JobOK /\ ItemOK /\ IdxOK /\ QueuesOK)'
  BY <1>5 DEF PutTimeout, ClearEvent, GiveWork
<1>6. CASE WorkerGet
  <2>1. queues[idx] \in Seq(Items) /\ queues[idx] # << >> /\ item' = Head(queues[idx])
    BY <1>6 DEF WorkerGet
  <2>2. (JobOK /\ ItemOK /\ IdxOK)'
    BY <1>6, <2>1, HeadTailFacts DEF WorkerGet
  <2>3. ASSUME NEW q \in Queues, NEW i \in 1..Len(queues'[q]) PROVE QueueOf[queues'[q][i]] = q
    <3>1. CASE q = idx
      <4>1. queues'[q] = Tail(queues[q])
        BY <1>6, <3>1 DEF WorkerGet
      <4>2. i + 1 \in 1..Len(queues[q]) /\ queues'[q][i] = queues[q][i + 1]
        BY <2>1, <3>1, <4>1, HeadTailFacts
      <4> QED
        BY <4>2 DEF QueuesOK
    <3>2. CASE q # idx
      BY <1>6, <3>2 DEF WorkerGet
    <3> QED
      BY <3>1, <3>2
  <2> QED
    BY <2>2, <2>3
<1>7. CASE WorkerTake \/ WorkerCheck \/ WorkerTest \/ WorkerMiss \/ WorkerRest \/ HandlerClear
        \/ WorkerFinish
  BY <1>7 DEF WorkerTake, WorkerCheck, WorkerTest, WorkerMiss, WorkerRest, HandlerClear, WorkerFinish
<1>8. CASE WorkerForgetHandle \/ WorkerGiveStop \/ WorkerDelete
  BY <1>8 DEF WorkerForgetHandle, WorkerGiveStop, WorkerDelete
<1>9. CASE Free \/ OwnerGiveWork \/ Join \/ JoinTimeout \/ OwnerDelete
  BY <1>9 DEF Free, OwnerGiveWork, Join, JoinTimeout, OwnerDelete
<1>10. CASE Release
  <2>1. \A q \in Queues : Len(queues'[q]) = 0
    BY <1>10, EmptySeq DEF Release
  <2> QED
    BY <1>10, <2>1 DEF Release
<1>11. CASE UNCHANGED vars
  BY <1>11 DEF vars
<1> QED
  BY <1>1, <1>2, <1>3, <1>4, <1>5, <1>6, <1>7, <1>8, <1>9, <1>10, <1>11
     DEF Next, PostStep, WorkerStep, OwnerStep

\* The wakeups: NoLostWakeup, and its form once the thread is stopped.
LEMMA WakeupStep == IInv /\ [Next]_vars => (StopOK /\ NoLostWakeup)'
<1> SUFFICES ASSUME IInv, [Next]_vars PROVE (StopOK /\ NoLostWakeup)'
  OBVIOUS
<1> USE ConstantFacts DEF IInv, TypeOK, IdxOK, StopOK, NoLostWakeup, WakeupComing,
        threadVars, workerVars, postVars
<1>1. ASSUME NEW t \in Tasks, NEW w \in Works, Post(t, w) PROVE (StopOK /\ NoLostWakeup)'
  BY <1>1 DEF Post, MayCall
<1>2. ASSUME NEW t \in Tasks, NEW e \in Events, PostEvent(t, e) PROVE (StopOK /\ NoLostWakeup)'
  BY <1>2 DEF PostEvent, MayCall
<1>3. ASSUME NEW t \in Tasks, AcquireEvent(t) PROVE (StopOK /\ NoLostWakeup)'
  BY <1>3 DEF AcquireEvent
<1>4. ASSUME NEW t \in Tasks, Put(t) PROVE (StopOK /\ NoLostWakeup)'
  <2>1. WakeupComing'
    BY <1>4 DEF Put
  <2> QED
    BY <1>4, <2>1 DEF Put
<1>5. ASSUME NEW t \in Tasks, PutTimeout(t) \/ ClearEvent(t) PROVE (StopOK /\ NoLostWakeup)'
  BY <1>5, SMTT(30) DEF PutTimeout, ClearEvent
<1>6. ASSUME NEW t \in Tasks, GiveWork(t) PROVE (StopOK /\ NoLostWakeup)'
  BY <1>6 DEF GiveWork
<1>7. CASE WorkerTake \/ WorkerCheck \/ WorkerTest
  BY <1>7 DEF WorkerTake, WorkerCheck, WorkerTest
<1>8. CASE WorkerGet
  BY <1>8 DEF WorkerGet
<1>9. CASE WorkerMiss
  <2>1. ASSUME NEW q \in Queues, q < idx + 1, queues[q] # << >> PROVE WakeupComing
    <3>1. q \in Nat /\ idx \in Nat /\ q # idx
      BY <1>9, <2>1 DEF WorkerMiss
    <3>2. q < idx
      BY <2>1, <3>1
    <3> QED
      BY <1>9, <2>1, <3>2 DEF WorkerMiss
  <2>2. WakeupComing' <=> WakeupComing
    BY <1>9 DEF WorkerMiss
  <2>3. NoLostWakeup'
    BY <1>9, <2>1, <2>2 DEF WorkerMiss
  <2> QED
    BY <1>9, <2>3 DEF WorkerMiss
<1>10. CASE WorkerRest
  BY <1>10, SMTT(30) DEF WorkerRest
<1>11. CASE HandlerClear \/ WorkerFinish
  BY <1>11 DEF HandlerClear, WorkerFinish
<1>12. CASE WorkerForgetHandle \/ WorkerGiveStop \/ WorkerDelete
  BY <1>12 DEF WorkerForgetHandle, WorkerGiveStop, WorkerDelete
<1>13. CASE Free \/ OwnerGiveWork \/ Join \/ JoinTimeout
  BY <1>13 DEF Free, OwnerGiveWork, Join, JoinTimeout
<1>14. CASE OwnerDelete
  BY <1>14 DEF OwnerDelete
<1>15. CASE Release
  BY <1>15 DEF Release
<1>16. CASE UNCHANGED vars
  BY <1>16 DEF vars
<1> QED
  BY <1>1, <1>2, <1>3, <1>4, <1>5, <1>6, <1>7, <1>8, <1>9, <1>10, <1>11, <1>12, <1>13, <1>14,
     <1>15, <1>16 DEF Next, PostStep, WorkerStep, OwnerStep

-----------------------------------------------------------------------------
(* One instance of an event *)

\* EventOnce of one event.
Once(e) == /\ \A t, u \in Winners(e) : t = u
           /\ \A i, j \in Places(e) : i = j
           /\ Winners(e) # {} => Places(e) = {} /\ ~Handling(e)
           /\ Places(e) # {} => ~Handling(e)
           /\ is_queued[e] = 0 => Winners(e) = {} /\ Places(e) = {} /\ ~Handling(e)

\* A step that changes nothing EventOnce is about.
LEMMA OnceStay ==
  ASSUME NEW e \in Events, Once(e),
         Winners(e)' \subseteq Winners(e), Places(e)' \subseteq Places(e),
         Handling(e)' => Handling(e),
         is_queued'[e] = 0 => is_queued[e] = 0 \/ ~(Winners(e) # {} \/ Places(e) # {} \/ Handling(e))
  PROVE  Once(e)'
BY DEF Once

\* A put of an event that another task won, or of an item that is no such event.
LEMMA OncePut ==
  ASSUME IInv, NEW t \in Tasks, Put(t), NEW e \in Events, Once(e)
  PROVE  Once(e)'
<1> USE ConstantFacts DEF IInv, TypeOK, JobOK
<1> DEFINE q == QueueOf[job[t]]
           s == queues[QueueOf[e]]
<1>1. /\ job[t] \in Items /\ q \in Queues /\ s \in Seq(Items) /\ Len(s) \in Nat
      /\ queues' = [queues EXCEPT ![q] = Append(queues[q], job[t])]
      /\ pc' = [pc EXCEPT ![t] = "give"] /\ pc[t] = "put"
      /\ job' = [job EXCEPT ![t] = NoItem]
      /\ UNCHANGED << is_queued, worker, item >>
  BY LenProperties DEF Put, workerVars
<1> HIDE DEF q
<1>2. Handling(e)' <=> Handling(e)
  BY <1>1 DEF Handling
<1>3. CASE job[t] = e
  <2>1. t \in Winners(e) /\ Places(e) = {} /\ ~Handling(e) /\ is_queued[e] # 0
    BY <1>1, <1>3 DEF Winners, Once
  <2>2. Winners(e)' = {}
    BY <1>1, <1>3, <2>1 DEF Winners, Once
  <2>3. queues'[QueueOf[e]] = Append(s, e)
    BY <1>1, <1>3 DEF q
  <2>4. Places(e)' \subseteq {Len(s) + 1}
    <3>1. Len(Append(s, e)) = Len(s) + 1 /\ \A i \in 1..Len(s) : Append(s, e)[i] = s[i]
      BY <1>1, AppendFacts
    <3>2. \A i \in 1..Len(s) : s[i] # e
      BY <2>1 DEF Places
    <3>3. Places(e)' = {i \in 1..(Len(s) + 1) : Append(s, e)[i] = e}
      BY <2>3, <3>1 DEF Places
    <3> HIDE DEF s
    <3>4. ASSUME NEW i \in 1..(Len(s) + 1), Append(s, e)[i] = e PROVE i = Len(s) + 1
      BY <1>1, <3>1, <3>2, <3>4
    <3> QED
      BY <3>3, <3>4
  <2> QED
    BY <1>1, <1>2, <2>1, <2>2, <2>4 DEF Once
<1>4. CASE job[t] # e
  <2>1. Winners(e)' \subseteq Winners(e)
    BY <1>1, <1>4 DEF Winners
  <2>2. Places(e)' \subseteq Places(e)
    <3>1. CASE q = QueueOf[e]
      <4>1. queues'[QueueOf[e]] = Append(s, job[t])
        BY <1>1, <3>1
      <4>2. /\ Len(Append(s, job[t])) = Len(s) + 1
            /\ \A i \in 1..Len(s) : Append(s, job[t])[i] = s[i]
            /\ Append(s, job[t])[Len(s) + 1] # e
        BY <1>1, <1>4, AppendFacts
      <4>3. /\ Places(e)' = {i \in 1..(Len(s) + 1) : Append(s, job[t])[i] = e}
            /\ Places(e) = {i \in 1..Len(s) : s[i] = e}
        BY <4>1, <4>2 DEF Places
      <4> HIDE DEF s
      <4>4. ASSUME NEW i \in 1..(Len(s) + 1), Append(s, job[t])[i] = e
            PROVE  i \in 1..Len(s) /\ s[i] = e
        BY <1>1, <4>2, <4>4
      <4> QED
        BY <4>3, <4>4
    <3>2. CASE q # QueueOf[e]
      BY <1>1, <3>2 DEF Places
    <3> QED
      BY <3>1, <3>2
  <2> QED
    BY <1>1, <1>2, <2>1, <2>2, OnceStay
<1> QED
  BY <1>3, <1>4

\* The worker takes the event from the queue, or another item.
LEMMA OnceGet ==
  ASSUME IInv, WorkerGet, NEW e \in Events, Once(e)
  PROVE  Once(e)'
<1> USE ConstantFacts DEF IInv, TypeOK
<1> DEFINE s == queues[QueueOf[e]]
<1>1. /\ worker = "get" /\ idx \in Queues /\ queues[idx] # << >>
      /\ item' = Head(queues[idx])
      /\ queues' = [queues EXCEPT ![idx] = Tail(queues[idx])]
      /\ UNCHANGED << is_queued, pc, job >>
  BY DEF WorkerGet, IdxOK, postVars
<1>2. Winners(e)' = Winners(e) /\ ~Handling(e)
  BY <1>1 DEF Winners, Handling
<1>3. CASE idx = QueueOf[e]
  <2>1. s \in Seq(Items) /\ s # << >> /\ queues'[QueueOf[e]] = Tail(s) /\ item' = s[1]
    BY <1>1, <1>3, HeadTailFacts
  <2>2. \A i \in Places(e)' : i + 1 \in Places(e) /\ i \in Nat /\ i >= 1
    BY <2>1, HeadTailFacts DEF Places
  <2>3. Handling(e)' => 1 \in Places(e)
    <3>1. 1 \in 1..Len(s)
      BY <2>1, HeadTailFacts
    <3> QED
      BY <2>1, <3>1 DEF Handling, Places
  <2>4. \A i, j \in Places(e)' : i = j
    BY <2>2 DEF Once
  <2>5. Places(e)' # {} => Places(e) # {} /\ ~Handling(e)'
    BY <2>2, <2>3 DEF Once
  <2> QED
    BY <1>1, <1>2, <2>3, <2>4, <2>5 DEF Once
<1>4. CASE idx # QueueOf[e]
  <2>1. Places(e)' = Places(e)
    BY <1>1, <1>4 DEF Places
  <2>2. ~Handling(e)'
    <3>1. queues[idx] \in Seq(Items) /\ queues[idx][1] = item' /\ 1 \in 1..Len(queues[idx])
      BY <1>1, HeadTailFacts
    <3>2. QueueOf[item'] = idx
      BY <1>1, <3>1 DEF QueuesOK
    <3> QED
      BY <1>4, <3>2 DEF Handling
  <2> QED
    BY <1>1, <1>2, <2>1, <2>2 DEF Once
<1> QED
  BY <1>3, <1>4

LEMMA OnceStep == IInv /\ [Next]_vars => EventOnce'
<1> SUFFICES ASSUME IInv, [Next]_vars, NEW e \in Events PROVE Once(e)'
  BY DEF EventOnce, Once
<1>0. Once(e)
  BY DEF IInv, EventOnce, Once
<1> USE ConstantFacts, <1>0 DEF IInv, TypeOK, JobOK, threadVars, workerVars, postVars
<1>1. ASSUME NEW t \in Tasks, NEW w \in Works, Post(t, w) PROVE Once(e)'
  <2>1. Winners(e)' \subseteq Winners(e)
    BY <1>1, ItemsAssumption DEF Post, Winners
  <2> QED
    BY <1>1, <2>1, OnceStay DEF Post, Places, Handling
<1>2. ASSUME NEW t \in Tasks, NEW d \in Events, PostEvent(t, d) PROVE Once(e)'
  <2>1. Winners(e)' \subseteq Winners(e)
    BY <1>2 DEF PostEvent, MayCall, Winners
  <2> QED
    BY <1>2, <2>1, OnceStay DEF PostEvent, Places, Handling
<1>3. ASSUME NEW t \in Tasks, AcquireEvent(t) PROVE Once(e)'
  <2>1. Places(e)' = Places(e) /\ (Handling(e)' <=> Handling(e))
    BY <1>3 DEF AcquireEvent, Places, Handling
  <2>2. CASE job[t] = e /\ is_queued[e] = 0
    <3>1. Winners(e)' \subseteq {t} /\ is_queued'[e] = 1
      BY <1>3, <2>2 DEF AcquireEvent, Winners, Once
    <3> QED
      BY <2>1, <2>2, <3>1 DEF Once
  <2>3. CASE ~(job[t] = e /\ is_queued[e] = 0)
    <3>1. Winners(e)' \subseteq Winners(e)
      BY <1>3, <2>3 DEF AcquireEvent, Winners
    <3>2. is_queued'[e] = 0 => is_queued[e] = 0
      BY <1>3, <2>3 DEF AcquireEvent
    <3> QED
      BY <2>1, <3>1, <3>2, OnceStay
  <2> QED
    BY <2>2, <2>3
<1>4. ASSUME NEW t \in Tasks, Put(t) PROVE Once(e)'
  BY <1>4, OncePut
<1>5. ASSUME NEW t \in Tasks, PutTimeout(t) PROVE Once(e)'
  <2>1. Winners(e)' \subseteq Winners(e)
    BY <1>5 DEF PutTimeout, Winners
  <2> QED
    BY <1>5, <2>1, OnceStay DEF PutTimeout, Places, Handling
<1>6. ASSUME NEW t \in Tasks, ClearEvent(t) PROVE Once(e)'
  <2>1. Places(e)' = Places(e) /\ (Handling(e)' <=> Handling(e))
    BY <1>6 DEF ClearEvent, Places, Handling
  <2>2. CASE job[t] = e
    <3>1. t \in Winners(e)
      BY <1>6, <2>2 DEF ClearEvent, Winners
    <3>2. Winners(e)' = {}
      BY <1>6, <2>2, <3>1 DEF ClearEvent, Winners, Once
    <3> QED
      BY <2>1, <3>1, <3>2 DEF Once
  <2>3. CASE job[t] # e
    <3>1. Winners(e)' \subseteq Winners(e)
      BY <1>6, <2>3 DEF ClearEvent, Winners
    <3> QED
      BY <1>6, <2>1, <2>3, <3>1, OnceStay DEF ClearEvent
  <2> QED
    BY <2>2, <2>3
<1>7. ASSUME NEW t \in Tasks, GiveWork(t) PROVE Once(e)'
  <2>1. Winners(e)' \subseteq Winners(e)
    BY <1>7 DEF GiveWork, Winners
  <2> QED
    BY <1>7, <2>1, OnceStay DEF GiveWork, Places, Handling
<1>8. CASE WorkerTake \/ WorkerCheck \/ WorkerTest \/ WorkerMiss \/ WorkerRest \/ WorkerFinish
  BY <1>8, OnceStay
     DEF WorkerTake, WorkerCheck, WorkerTest, WorkerMiss, WorkerRest, WorkerFinish, Winners, Places, Handling
<1>9. CASE WorkerGet
  BY <1>9, OnceGet
<1>10. CASE HandlerClear
  <2>1. Winners(e)' = Winners(e) /\ Places(e)' = Places(e) /\ ~Handling(e)'
    BY <1>10 DEF HandlerClear, Winners, Places, Handling
  <2>2. CASE item = e
    BY <1>10, <2>1, <2>2 DEF HandlerClear, Handling, Once
  <2>3. CASE item # e
    BY <1>10, <2>1, <2>3, OnceStay DEF HandlerClear
  <2> QED
    BY <2>2, <2>3
<1>11. CASE WorkerForgetHandle \/ WorkerGiveStop \/ WorkerDelete
  BY <1>11, OnceStay DEF WorkerForgetHandle, WorkerGiveStop, WorkerDelete, Winners, Places, Handling
<1>12. CASE Free \/ OwnerGiveWork \/ Join \/ JoinTimeout
  BY <1>12, OnceStay DEF Free, OwnerGiveWork, Join, JoinTimeout, Winners, Places, Handling
<1>13. CASE OwnerDelete
  BY <1>13, OnceStay DEF OwnerDelete, Winners, Places, Handling
<1>14. CASE Release
  <2>1. Places(e)' = {}
    BY <1>14, EmptySeq DEF Release, Places
  <2> QED
    BY <1>14, <2>1, OnceStay DEF Release, Winners, Handling
<1>15. CASE UNCHANGED vars
  BY <1>15, OnceStay DEF vars, Winners, Places, Handling
<1> QED
  BY <1>1, <1>2, <1>3, <1>4, <1>5, <1>6, <1>7, <1>8, <1>9, <1>10, <1>11, <1>12, <1>13, <1>14,
     <1>15 DEF Next, PostStep, WorkerStep, OwnerStep

-----------------------------------------------------------------------------
(* The order of the scan *)

LEMMA PriorityStep == IInv /\ [Next]_vars => PriorityRespected'
<1> SUFFICES ASSUME IInv, [Next]_vars PROVE PriorityRespected'
  OBVIOUS
<1> USE ConstantFacts DEF IInv, TypeOK, IdxOK, PriorityRespected, threadVars, workerVars, history
<1>0. \A q \in Queues : Len(queues[q]) \in Nat /\ arrived[q] \in Nat
  BY LenProperties
<1>1. ASSUME NEW t \in Tasks, NEW w \in Works, Post(t, w) PROVE PriorityRespected'
  BY <1>1 DEF Post
<1>2. ASSUME NEW t \in Tasks, NEW e \in Events, PostEvent(t, e) PROVE PriorityRespected'
  BY <1>2 DEF PostEvent
<1>3. ASSUME NEW t \in Tasks, AcquireEvent(t) PROVE PriorityRespected'
  BY <1>3 DEF AcquireEvent
<1>4. ASSUME NEW t \in Tasks, Put(t) PROVE PriorityRespected'
  <2> DEFINE q == QueueOf[job[t]]
  <2>1. /\ q \in Queues
        /\ Len(Append(queues[q], job[t])) = Len(queues[q]) + 1
    BY <1>4, AppendFacts DEF Put, JobOK
  <2>2. /\ queues' = [queues EXCEPT ![q] = Append(queues[q], job[t])]
        /\ arrived' = [arrived EXCEPT ![q] = arrived[q] + 1]
        /\ UNCHANGED << worker, idx >>
    BY <1>4 DEF Put
  <2> HIDE DEF q
  <2>3. ASSUME worker \in {"scan", "get"}, NEW r \in Queues, r < idx PROVE Len(queues'[r]) <= arrived'[r]
    <3>1. Len(queues[r]) <= arrived[r]
      BY <2>3
    <3>2. CASE r = q
      <4>1. Len(queues'[r]) = Len(queues[r]) + 1 /\ arrived'[r] = arrived[r] + 1
        BY <2>1, <2>2, <3>2
      <4> QED
        BY <1>0, <3>1, <4>1
    <3>3. CASE r # q
      BY <2>2, <3>1, <3>3
    <3> QED
      BY <3>2, <3>3
  <2> QED
    BY <2>2, <2>3
<1>5. ASSUME NEW t \in Tasks, PutTimeout(t) \/ ClearEvent(t) \/ GiveWork(t) PROVE PriorityRespected'
  BY <1>5 DEF PutTimeout, ClearEvent, GiveWork
<1>6. CASE WorkerTake \/ WorkerTest \/ WorkerGet \/ WorkerRest \/ HandlerClear
  BY <1>6 DEF WorkerTake, WorkerTest, WorkerGet, WorkerRest, HandlerClear
<1>7. CASE WorkerCheck \/ WorkerFinish
  BY <1>7 DEF WorkerCheck, WorkerFinish
<1>8. CASE WorkerMiss
  <2> SUFFICES ASSUME NEW r \in Queues, r < idx + 1 PROVE Len(queues[r]) <= arrived[r]
    BY <1>8 DEF WorkerMiss
  <2>1. r \in Nat /\ idx \in Nat
    OBVIOUS
  <2>2. CASE r = idx
    BY <1>0, <1>8, <2>2, EmptySeq DEF WorkerMiss
  <2>3. CASE r # idx
    <3>1. r < idx
      BY <2>1, <2>3
    <3> QED
      BY <1>8, <3>1 DEF WorkerMiss
  <2> QED
    BY <2>2, <2>3
<1>9. CASE WorkerForgetHandle \/ WorkerGiveStop \/ WorkerDelete
  BY <1>9 DEF WorkerForgetHandle, WorkerGiveStop, WorkerDelete
<1>10. CASE Free \/ OwnerGiveWork \/ Join \/ JoinTimeout \/ OwnerDelete
  BY <1>10 DEF Free, OwnerGiveWork, Join, JoinTimeout, OwnerDelete
<1>11. CASE Release
  BY <1>0, <1>11, EmptySeq DEF Release
<1>12. CASE UNCHANGED vars
  BY <1>12 DEF vars
<1> QED
  BY <1>1, <1>2, <1>3, <1>4, <1>5, <1>6, <1>7, <1>8, <1>9, <1>10, <1>11, <1>12
     DEF Next, PostStep, WorkerStep, OwnerStep

-----------------------------------------------------------------------------
(* The theorems *)

\* The inductive invariant holds.
THEOREM Invariance == Spec => []IInv
<1>1. IInv /\ [Next]_vars => IInv'
  BY TypeStep, HoldStep, WakeupStep, OnceStep, PriorityStep DEF IInv
<1> QED
  BY InitInv, <1>1, PTL DEF Spec

\* The type invariant, for any number of tasks, items and queues.
THEOREM TypeCorrect == Spec => []TypeOK
<1>1. IInv => TypeOK
  BY DEF IInv
<1> QED
  BY Invariance, <1>1, PTL

\* osi_thread_run never sleeps on a queue that was put to, however many tasks post
\* while it scans, and never misses the stop.
THEOREM WakeupIsKept == Spec => []NoLostWakeup
<1>1. IInv => NoLostWakeup
  BY DEF IInv
<1> QED
  BY Invariance, <1>1, PTL

\* An event has at most one instance, with posts that time out and any number of
\* tasks racing on is_queued.
THEOREM OneInstance == Spec => []EventOnce
<1>1. IInv => EventOnce
  BY DEF IInv
<1> QED
  BY Invariance, <1>1, PTL

\* A queue is looked at only when those of higher priority were found empty.
THEOREM PriorityIsRespected == Spec => []PriorityRespected
<1>1. IInv => PriorityRespected
  BY DEF IInv
<1> QED
  BY Invariance, <1>1, PTL

\* What the owner finds, and what it leaves: a worker that has cleared its handle
\* or given stop_sem is out of its loop, and only an item makes posts.
Ended == {"giveStop", "left", "deleted"}

StopInv == /\ stop_sem = 1 => worker \in Ended
           /\ ~thread_handle => worker \in Ended
           /\ owner \in {"stopped", "misdeleted", "freed"} => worker \in Ended
           /\ pc[Worker] # "idle" => worker = "run"

LEMMA StopInvariance == Spec => []StopInv
<1>1. Init => StopInv
  BY ConstantFacts DEF Init, StopInv
<1>2. IInv /\ StopInv /\ [Next]_vars => StopInv'
  <2> SUFFICES ASSUME IInv, StopInv, [Next]_vars PROVE StopInv'
    OBVIOUS
  <2> USE ConstantFacts DEF IInv, TypeOK, StopInv, Ended, threadVars, workerVars, postVars
  <2>1. ASSUME NEW t \in Tasks, AcquireEvent(t) \/ Put(t) PROVE StopInv'
    BY <2>1 DEF AcquireEvent, Put
  <2>2. ASSUME NEW t \in Tasks, PutTimeout(t) \/ ClearEvent(t) \/ GiveWork(t) PROVE StopInv'
    BY <2>2 DEF PutTimeout, ClearEvent, GiveWork
  <2>3. ASSUME NEW t \in Tasks, NEW i \in Items, Post(t, i) \/ PostEvent(t, i) PROVE StopInv'
    BY <2>3 DEF Post, PostEvent, MayCall
  <2>4. CASE WorkerTake \/ WorkerCheck \/ WorkerTest \/ WorkerGet \/ WorkerMiss \/ WorkerRest
    BY <2>4 DEF WorkerTake, WorkerCheck, WorkerTest, WorkerGet, WorkerMiss, WorkerRest
  <2>5. CASE HandlerClear \/ WorkerFinish
    BY <2>5 DEF HandlerClear, WorkerFinish
  <2>6. CASE WorkerForgetHandle \/ WorkerGiveStop \/ WorkerDelete
    BY <2>6 DEF WorkerForgetHandle, WorkerGiveStop, WorkerDelete
  <2>7. CASE Free \/ OwnerGiveWork \/ Join \/ JoinTimeout \/ OwnerDelete \/ Release
    BY <2>7 DEF Free, OwnerGiveWork, Join, JoinTimeout, OwnerDelete, Release
  <2>8. CASE UNCHANGED vars
    BY <2>8 DEF vars
  <2> QED
    BY <2>1, <2>2, <2>3, <2>4, <2>5, <2>6, <2>7, <2>8
       DEF Next, PostStep, WorkerStep, OwnerStep, Items
<1> QED
  BY <1>1, <1>2, Invariance, PTL DEF Spec

\* When osi_thread_stop returns, no item runs and no queue is looked at, whether
\* the worker was joined, deleted after the timeout or left alone because its
\* handle was cleared: osi_thread_free may delete the queues.
THEOREM StopIsClean == Spec => []StopEndsWork
<1>1. StopInv => StopEndsWork
  BY DEF StopInv, Ended, StopEndsWork
<1> QED
  BY StopInvariance, <1>1, PTL

\* A thread of osi/thread.c is a worker thread (its safety part): items are run in
\* the order of their queue, one at a time, and after the stop at most the one the
\* worker was about to receive.
THEOREM Refinement == Spec => ImplementsWorkThreadSafely
<1> DEFINE Running == IF worker \in {"handler", "run"} THEN item ELSE NoItem
       Last == stop /\ worker = "get"
<1> USE ConstantFacts DEF threadVars, workerVars, postVars
<1>1. Init => Abstract!Init
  BY DEF Init, Abstract!Init
<1>2. IInv /\ StopInv /\ [Next]_vars => [Abstract!Next]_Abstract!vars
  <2> SUFFICES ASSUME IInv, StopInv, [Next]_vars
               PROVE  Abstract!Next \/ UNCHANGED << queues, Running, stop, Last >>
    BY DEF Abstract!vars
  <2>1. ASSUME NEW t \in Tasks, Put(t) PROVE Abstract!Post(job[t]) /\ job[t] \in Items
    BY <2>1 DEF Put, IInv, JobOK, Abstract!Post
  <2>2. CASE WorkerGet
    <3>1. /\ Abstract!Run(idx)
          /\ idx \in Queues
      BY <2>2 DEF WorkerGet, IInv, IdxOK, Abstract!Run
    <3> QED
      BY <3>1 DEF Abstract!Next, Abstract!RunSome
  <2>3. CASE WorkerMiss
    <3>1. ~Last' /\ UNCHANGED << queues, Running, stop >>
      BY <2>3 DEF WorkerMiss
    <3> QED
      BY <3>1 DEF Abstract!Next, Abstract!GiveUp
  <2>4. CASE WorkerFinish
    <3>1. Running # NoItem /\ Running' = NoItem /\ UNCHANGED << queues, stop, Last >>
      BY <2>4 DEF WorkerFinish, IInv, ItemOK
    <3> QED
      BY <3>1 DEF Abstract!Next, Abstract!Finish
  <2>5. CASE OwnerDelete
    <3>1. Running' = NoItem /\ ~Last' /\ UNCHANGED << queues, stop >>
      BY <2>5 DEF OwnerDelete
    <3>2. Last => Running = NoItem
      OBVIOUS
    <3> QED
      BY <3>1, <3>2 DEF Abstract!Next, Abstract!Finish, Abstract!GiveUp
  <2>6. CASE Free
    <3>1. ~stop /\ stop' /\ UNCHANGED << queues, Running >> /\ Last' \in {FALSE, Running = NoItem}
      BY <2>6 DEF Free, IInv, StopOK, TypeOK
    <3> QED
      BY <3>1, <2>6 DEF Free, Abstract!Next, Abstract!Stop
  <2>14. CASE Release
    BY <2>14 DEF Release, IInv, StopOK, StopInv, Ended, Abstract!Next, Abstract!Drop
  <2>7. ASSUME NEW t \in Tasks, NEW i \in Items, Post(t, i) \/ PostEvent(t, i)
        PROVE  UNCHANGED << queues, Running, stop, Last >>
    BY <2>7 DEF Post, PostEvent
  <2>8. ASSUME NEW t \in Tasks, AcquireEvent(t) \/ PutTimeout(t) \/ ClearEvent(t) \/ GiveWork(t)
        PROVE  UNCHANGED << queues, Running, stop, Last >>
    BY <2>8 DEF AcquireEvent, PutTimeout, ClearEvent, GiveWork
  <2>9. CASE WorkerTake \/ WorkerCheck \/ WorkerTest \/ WorkerRest \/ HandlerClear
    BY <2>9 DEF WorkerTake, WorkerCheck, WorkerTest, IInv, StopOK, WorkerRest, HandlerClear
  <2>10. CASE WorkerForgetHandle \/ WorkerGiveStop \/ WorkerDelete
    BY <2>10 DEF WorkerForgetHandle, WorkerGiveStop, WorkerDelete
  <2>11. CASE OwnerGiveWork \/ Join \/ JoinTimeout
    BY <2>11 DEF OwnerGiveWork, Join, JoinTimeout
  <2>12. CASE UNCHANGED vars
    BY <2>12 DEF vars
  <2>13. (\E t \in Tasks : Put(t)) => Abstract!Next
    BY <2>1 DEF Abstract!Next
  <2> QED
    BY <2>13, <2>14, <2>2, <2>3, <2>4, <2>5, <2>6, <2>7, <2>8, <2>9, <2>10, <2>11, <2>12
       DEF Next, PostStep, WorkerStep, OwnerStep, Items
<1> QED
  BY <1>1, <1>2, Invariance, StopInvariance, PTL DEF Spec, ImplementsWorkThreadSafely
=============================================================================
