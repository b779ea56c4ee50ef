-------------------------- MODULE FixedQueueProofs --------------------------
(***************************************************************************)
(* Proofs about FixedQueue for any finite set of tasks, any capacity and   *)
(* any data.  The inductive invariant is the type invariant, with the fact *)
(* that a producer holds a pointer, and the two balances of the semaphore  *)
(* counts; a step moves one task from one place to another, so the proof   *)
(* rests on how such a move changes the number of tasks at each place.     *)
(***************************************************************************)
EXTENDS FixedQueue, FiniteSetTheorems, SequenceTheorems, TLAPS

\* A producer that has called fixed_queue_enqueue holds the pointer it adds.
ProducerHoldsData == \A t \in Tasks : pc[t] \in {"enqueue", "append"} => held[t] \in Data

IInv == TypeOK /\ ProducerHoldsData /\ DequeueBalance /\ EnqueueBalance

-----------------------------------------------------------------------------
(* Counting the tasks at a place *)

LEMMA CountType == \A p : Count(p) \in Nat
<1> TAKE p
<1>1. At(p) \in SUBSET Tasks
  BY DEF At
<1>2. IsFiniteSet(At(p))
  BY <1>1, TasksAssumption, FS_Subset
<1> QED
  BY <1>2, FS_CardinalityType DEF Count

\* A place where a task is has at least one task.
LEMMA CountPositive ==
  ASSUME NEW t \in Tasks
  PROVE  Count(pc[t]) >= 1
<1>1. At(pc[t]) \in SUBSET Tasks /\ t \in At(pc[t])
  BY DEF At
<1>2. IsFiniteSet(At(pc[t]))
  BY <1>1, TasksAssumption, FS_Subset
<1>3. Cardinality(At(pc[t])) # 0
  BY <1>1, <1>2, FS_EmptySet
<1> QED
  BY <1>3, CountType DEF Count

\* A task that moves is counted at its new place and no longer at its old one.
LEMMA CountMove ==
  ASSUME pc \in [Tasks -> Places],
         NEW t \in Tasks, NEW a \in Places, NEW b \in Places,
         pc[t] = a, a # b, Goto(t, b)
  PROVE  /\ Count(a)' = Count(a) - 1
         /\ Count(b)' = Count(b) + 1
         /\ \A p \in Places \ {a, b} : Count(p)' = Count(p)
<1>1. \A u \in Tasks : pc'[u] = IF u = t THEN b ELSE pc[u]
  BY DEF Goto
<1>2. \A p : At(p) \in SUBSET Tasks /\ IsFiniteSet(At(p))
  BY TasksAssumption, FS_Subset DEF At
<1>3. Count(a)' = Count(a) - 1
  <2>1. At(a)' = At(a) \ {t} /\ t \in At(a)
    BY <1>1 DEF At
  <2> QED
    BY <2>1, <1>2, FS_RemoveElement, ZenonT(40) DEF Count
<1>4. Count(b)' = Count(b) + 1
  <2>1. At(b)' = At(b) \cup {t} /\ t \notin At(b)
    BY <1>1 DEF At
  <2> QED
    BY <2>1, <1>2, FS_AddElement DEF Count
<1>5. \A p \in Places \ {a, b} : Count(p)' = Count(p)
  BY <1>1 DEF At, Count
<1> QED
  BY <1>3, <1>4, <1>5

\* An operation that finds and leaves every task where it is counts the same.
LEMMA CountStay == UNCHANGED pc => \A p : Count(p)' = Count(p)
BY DEF Count, At

-----------------------------------------------------------------------------
(* The two halves of the list that TryRemove keeps *)

LEMMA RemoveAtType ==
  ASSUME NEW s \in Seq(Data), NEW i \in 1..Len(s)
  PROVE  LET r == SubSeq(s, 1, i - 1) \o SubSeq(s, i + 1, Len(s))
         IN  r \in Seq(Data) /\ Len(r) = Len(s) - 1
<1> DEFINE u == SubSeq(s, 1, i - 1)
           v == SubSeq(s, i + 1, Len(s))
<1>1. Len(s) \in Nat /\ \A k \in 1..Len(s) : s[k] \in Data
  BY LenProperties, ElementOfSeq
<1>2. u \in Seq(Data) /\ Len(u) = i - 1
  <2>1. \A k \in 1..(i - 1) : s[k] \in Data
    BY <1>1
  <2> QED
    BY <1>1, <2>1, SubSeqProperties
<1>3. v \in Seq(Data) /\ Len(v) = Len(s) - i
  <2>1. \A k \in (i + 1)..Len(s) : s[k] \in Data
    BY <1>1
  <2> QED
    BY <1>1, <2>1, SubSeqProperties
<1>4. u \o v \in Seq(Data) /\ Len(u \o v) = Len(u) + Len(v)
  BY <1>2, <1>3, ConcatProperties
<1> HIDE DEF u, v
<1>5. i \in Nat /\ 1 <= i /\ i <= Len(s)
  BY <1>1
<1>6. Len(u \o v) = Len(s) - 1
  BY <1>1, <1>2, <1>3, <1>4, <1>5
<1> QED
  BY <1>4, <1>6 DEF u, v

-----------------------------------------------------------------------------
(* The inductive invariant *)

LEMMA InitInv == Init => IInv
<1> SUFFICES ASSUME Init PROVE IInv
  OBVIOUS
<1>1. TypeOK /\ ProducerHoldsData
  BY CapacityAssumption, EmptySeq DEF Init, TypeOK, ProducerHoldsData, Places
<1>2. \A p \in Places \ {"idle"} : Count(p) = 0
  <2>1. \A p \in Places \ {"idle"} : At(p) = {}
    BY DEF Init, At
  <2> QED
    BY <2>1, FS_EmptySet DEF Count
<1>3. DequeueBalance /\ EnqueueBalance
  BY <1>2, CapacityAssumption DEF Init, DequeueBalance, EnqueueBalance, Places
<1> QED
  BY <1>1, <1>3 DEF IInv

\* Facts that hold in every state that satisfies the invariant.
LEMMA InvFacts ==
  ASSUME IInv
  PROVE  /\ Capacity \in Nat \ {0}
         /\ Len(list) \in Nat
         /\ pc \in [Tasks -> Places]
         /\ Count("append") \in Nat /\ Count("giveDequeue") \in Nat
         /\ Count("remove") \in Nat /\ Count("giveEnqueue") \in Nat
         /\ enqueue_sem \in Nat
         /\ dequeue_sem \in Nat
         /\ lost \in Nat
         /\ Len(list) <= Capacity
         /\ DequeueBalance /\ EnqueueBalance
<1>1. Capacity \in Nat \ {0} /\ Len(list) \in Nat /\ pc \in [Tasks -> Places]
  BY CapacityAssumption, LenProperties DEF IInv, TypeOK
<1>2. enqueue_sem \in Nat /\ dequeue_sem \in Nat /\ lost \in Nat
  BY <1>1 DEF IInv, TypeOK
<1> QED
  BY <1>1, <1>2, CountType DEF IInv, EnqueueBalance

LEMMA NextInv == IInv /\ [Next]_vars => IInv'
<1> SUFFICES ASSUME IInv, [Next]_vars PROVE IInv'
  OBVIOUS
<1> USE DEF Places
<1>1. ASSUME NEW t \in Tasks, EnqueueTake(t) PROVE IInv'
  <2>1. pc[t] = "enqueue" /\ Goto(t, "append")
    BY <1>1 DEF EnqueueTake
  <2>2. /\ Count("append")' = Count("append") + 1
        /\ Count("giveDequeue")' = Count("giveDequeue")
        /\ Count("remove")' = Count("remove")
        /\ Count("giveEnqueue")' = Count("giveEnqueue")
        /\ Count("enqueue") >= 1
    BY <2>1, InvFacts, CountMove, CountPositive
  <2>3. list' = list
    BY <1>1 DEF EnqueueTake
  <2>4. enqueue_sem' = enqueue_sem - 1 /\ dequeue_sem' = dequeue_sem /\ lost' = lost
    BY <1>1 DEF EnqueueTake
  <2>5. (TypeOK /\ ProducerHoldsData)'
    BY <1>1, <2>1, <2>3, InvFacts DEF EnqueueTake, Goto, IInv, TypeOK, ProducerHoldsData
  <2>6. DequeueBalance'
    BY <2>2, <2>3, <2>4, InvFacts DEF DequeueBalance
  <2>7. EnqueueBalance'
    BY <2>2, <2>3, <2>4, InvFacts DEF EnqueueBalance
  <2> QED
    BY <2>5, <2>6, <2>7 DEF IInv
<1>2. ASSUME NEW t \in Tasks, EnqueueTimeout(t) PROVE IInv'
  <2>1. pc[t] = "enqueue" /\ Goto(t, "idle")
    BY <1>2 DEF EnqueueTimeout
  <2>2. /\ Count("append")' = Count("append")
        /\ Count("giveDequeue")' = Count("giveDequeue")
        /\ Count("remove")' = Count("remove")
        /\ Count("giveEnqueue")' = Count("giveEnqueue")
        /\ Count("enqueue") >= 1
    BY <2>1, InvFacts, CountMove, CountPositive
  <2>3. list' = list
    BY <1>2 DEF EnqueueTimeout
  <2>4. enqueue_sem' = enqueue_sem /\ dequeue_sem' = dequeue_sem /\ lost' = lost
    BY <1>2 DEF EnqueueTimeout
  <2>5. (TypeOK /\ ProducerHoldsData)'
    BY <1>2, <2>1, <2>3, InvFacts DEF EnqueueTimeout, Goto, IInv, TypeOK, ProducerHoldsData
  <2>6. DequeueBalance'
    BY <2>2, <2>3, <2>4, InvFacts DEF DequeueBalance
  <2>7. EnqueueBalance'
    BY <2>2, <2>3, <2>4, InvFacts DEF EnqueueBalance
  <2> QED
    BY <2>5, <2>6, <2>7 DEF IInv
<1>3. ASSUME NEW t \in Tasks, EnqueueAppend(t) PROVE IInv'
  <2>1. pc[t] = "append" /\ Goto(t, "giveDequeue")
    BY <1>3 DEF EnqueueAppend
  <2>2. /\ Count("append")' = Count("append") - 1
        /\ Count("giveDequeue")' = Count("giveDequeue") + 1
        /\ Count("remove")' = Count("remove")
        /\ Count("giveEnqueue")' = Count("giveEnqueue")
        /\ Count("append") >= 1
    BY <2>1, InvFacts, CountMove, CountPositive
  <2>3. held[t] \in Data /\ list' \in Seq(Data) /\ Len(list') = Len(list) + 1
    BY <1>3, <2>1, AppendProperties DEF EnqueueAppend, IInv, TypeOK, ProducerHoldsData
  <2>4. enqueue_sem' = enqueue_sem /\ dequeue_sem' = dequeue_sem /\ lost' = lost
    BY <1>3 DEF EnqueueAppend
  <2>5. held' = [held EXCEPT ![t] = NoData]
    BY <1>3 DEF EnqueueAppend
  <2>6. (TypeOK /\ ProducerHoldsData)'
    BY <2>1, <2>3, <2>4, <2>5, InvFacts DEF Goto, IInv, TypeOK, ProducerHoldsData
  <2>7. Len(list') = Len(list) + 1
    BY <2>3
  <2>8. DequeueBalance'
    BY <2>2, <2>4, <2>7, InvFacts DEF DequeueBalance
  <2>9. EnqueueBalance'
    <3>1. enqueue_sem + Count("append") + Len(list) + Count("giveEnqueue") + lost = Capacity
      BY InvFacts DEF EnqueueBalance
    <3>2. enqueue_sem + (Count("append") - 1) + (Len(list) + 1) + Count("giveEnqueue") + lost = Capacity
      BY <3>1, InvFacts
    <3> QED
      BY <2>2, <2>4, <2>7, <3>2 DEF EnqueueBalance
  <2> QED
    BY <2>6, <2>8, <2>9 DEF IInv
<1>4. ASSUME NEW t \in Tasks, EnqueueAppendFails(t) PROVE IInv'
  <2>1. pc[t] = "append" /\ Goto(t, "idle")
    BY <1>4 DEF EnqueueAppendFails
  <2>2. /\ Count("append")' = Count("append") - 1
        /\ Count("giveDequeue")' = Count("giveDequeue")
        /\ Count("remove")' = Count("remove")
        /\ Count("giveEnqueue")' = Count("giveEnqueue")
        /\ Count("append") >= 1
    BY <2>1, InvFacts, CountMove, CountPositive
  <2>3. list' = list
    BY <1>4 DEF EnqueueAppendFails
  <2>4. enqueue_sem' = enqueue_sem /\ dequeue_sem' = dequeue_sem /\ lost' = lost + 1
    BY <1>4 DEF EnqueueAppendFails
  <2>5. lost + 1 \in 0..Capacity
    BY <2>2, InvFacts DEF EnqueueBalance
  <2>6. (TypeOK /\ ProducerHoldsData)'
    BY <1>4, <2>1, <2>3, <2>4, <2>5, InvFacts DEF EnqueueAppendFails, Goto, IInv, TypeOK, ProducerHoldsData
  <2>7. DequeueBalance'
    BY <2>2, <2>3, <2>4, InvFacts DEF DequeueBalance
  <2>8. EnqueueBalance'
    <3>1. enqueue_sem + Count("append") + Len(list) + Count("giveEnqueue") + lost = Capacity
      BY InvFacts DEF EnqueueBalance
    <3>2. enqueue_sem + (Count("append") - 1) + Len(list) + Count("giveEnqueue") + (lost + 1) = Capacity
      BY <3>1, InvFacts
    <3> QED
      BY <2>2, <2>3, <2>4, <3>2 DEF EnqueueBalance
  <2> QED
    BY <2>6, <2>7, <2>8 DEF IInv
<1>5. ASSUME NEW t \in Tasks, EnqueueGive(t) PROVE IInv'
  <2>1. pc[t] = "giveDequeue" /\ Goto(t, "idle")
    BY <1>5 DEF EnqueueGive
  <2>2. /\ Count("append")' = Count("append")
        /\ Count("giveDequeue")' = Count("giveDequeue") - 1
        /\ Count("remove")' = Count("remove")
        /\ Count("giveEnqueue")' = Count("giveEnqueue")
        /\ Count("giveDequeue") >= 1
    BY <2>1, InvFacts, CountMove, CountPositive
  <2>3. list' = list
    BY <1>5 DEF EnqueueGive
  <2>4. enqueue_sem' = enqueue_sem /\ dequeue_sem' = dequeue_sem + 1 /\ lost' = lost
    <3>1. dequeue_sem < Capacity
      BY <2>2, InvFacts DEF DequeueBalance, EnqueueBalance
    <3> QED
      BY <1>5, <3>1 DEF EnqueueGive, Give
  <2>5. (TypeOK /\ ProducerHoldsData)'
    BY <1>5, <2>1, <2>3, InvFacts DEF EnqueueGive, Goto, Give, IInv, TypeOK, ProducerHoldsData
  <2>6. DequeueBalance'
    BY <2>2, <2>3, <2>4, InvFacts DEF DequeueBalance
  <2>7. EnqueueBalance'
    BY <2>2, <2>3, <2>4, InvFacts DEF EnqueueBalance
  <2> QED
    BY <2>5, <2>6, <2>7 DEF IInv
<1>6. ASSUME NEW t \in Tasks, DequeueTake(t) PROVE IInv'
  <2>1. pc[t] = "dequeue" /\ Goto(t, "remove")
    BY <1>6 DEF DequeueTake
  <2>2. /\ Count("append")' = Count("append")
        /\ Count("giveDequeue")' = Count("giveDequeue")
        /\ Count("remove")' = Count("remove") + 1
        /\ Count("giveEnqueue")' = Count("giveEnqueue")
        /\ Count("dequeue") >= 1
    BY <2>1, InvFacts, CountMove, CountPositive
  <2>3. list' = list
    BY <1>6 DEF DequeueTake
  <2>4. enqueue_sem' = enqueue_sem /\ dequeue_sem' = dequeue_sem - 1 /\ lost' = lost
    BY <1>6 DEF DequeueTake
  <2>5. (TypeOK /\ ProducerHoldsData)'
    BY <1>6, <2>1, <2>3, InvFacts DEF DequeueTake, Goto, IInv, TypeOK, ProducerHoldsData
  <2>6. DequeueBalance'
    BY <2>2, <2>3, <2>4, InvFacts DEF DequeueBalance
  <2>7. EnqueueBalance'
    BY <2>2, <2>3, <2>4, InvFacts DEF EnqueueBalance
  <2> QED
    BY <2>5, <2>6, <2>7 DEF IInv
<1>7. ASSUME NEW t \in Tasks, DequeueTimeout(t) PROVE IInv'
  <2>1. pc[t] = "dequeue" /\ Goto(t, "idle")
    BY <1>7 DEF DequeueTimeout
  <2>2. /\ Count("append")' = Count("append")
        /\ Count("giveDequeue")' = Count("giveDequeue")
        /\ Count("remove")' = Count("remove")
        /\ Count("giveEnqueue")' = Count("giveEnqueue")
        /\ Count("dequeue") >= 1
    BY <2>1, InvFacts, CountMove, CountPositive
  <2>3. list' = list
    BY <1>7 DEF DequeueTimeout
  <2>4. enqueue_sem' = enqueue_sem /\ dequeue_sem' = dequeue_sem /\ lost' = lost
    BY <1>7 DEF DequeueTimeout
  <2>5. (TypeOK /\ ProducerHoldsData)'
    BY <1>7, <2>1, <2>3, InvFacts DEF DequeueTimeout, Goto, IInv, TypeOK, ProducerHoldsData
  <2>6. DequeueBalance'
    BY <2>2, <2>3, <2>4, InvFacts DEF DequeueBalance
  <2>7. EnqueueBalance'
    BY <2>2, <2>3, <2>4, InvFacts DEF EnqueueBalance
  <2> QED
    BY <2>5, <2>6, <2>7 DEF IInv
<1>8. ASSUME NEW t \in Tasks, DequeueRemove(t) PROVE IInv'
  <2>1. pc[t] = "remove" /\ Goto(t, "giveEnqueue")
    BY <1>8 DEF DequeueRemove
  <2>2. /\ Count("append")' = Count("append")
        /\ Count("giveDequeue")' = Count("giveDequeue")
        /\ Count("remove")' = Count("remove") - 1
        /\ Count("giveEnqueue")' = Count("giveEnqueue") + 1
        /\ Count("remove") >= 1
    BY <2>1, InvFacts, CountMove, CountPositive
  <2>3. Head(list) \in Data /\ list' \in Seq(Data) /\ Len(list') = Len(list) - 1
    BY <1>8, HeadTailProperties DEF DequeueRemove, IInv, TypeOK
  <2>4. enqueue_sem' = enqueue_sem /\ dequeue_sem' = dequeue_sem /\ lost' = lost
    BY <1>8 DEF DequeueRemove
  <2>5. held' = [held EXCEPT ![t] = Head(list)]
    BY <1>8 DEF DequeueRemove
  <2>6. (TypeOK /\ ProducerHoldsData)'
    BY <2>1, <2>3, <2>4, <2>5, InvFacts DEF Goto, IInv, TypeOK, ProducerHoldsData
  <2>7. Len(list') = Len(list) - 1
    BY <2>3
  <2>8. DequeueBalance'
    BY <2>2, <2>4, <2>7, InvFacts, SMTT(30) DEF DequeueBalance
  <2>9. EnqueueBalance'
    BY <2>2, <2>4, <2>7, InvFacts DEF EnqueueBalance
  <2> QED
    BY <2>6, <2>8, <2>9 DEF IInv
<1>9. ASSUME NEW t \in Tasks, GiveEnqueue(t) PROVE IInv'
  <2>1. pc[t] = "giveEnqueue" /\ Goto(t, "idle")
    BY <1>9 DEF GiveEnqueue
  <2>2. /\ Count("append")' = Count("append")
        /\ Count("giveDequeue")' = Count("giveDequeue")
        /\ Count("remove")' = Count("remove")
        /\ Count("giveEnqueue")' = Count("giveEnqueue") - 1
        /\ Count("giveEnqueue") >= 1
    BY <2>1, InvFacts, CountMove, CountPositive
  <2>3. list' = list
    BY <1>9 DEF GiveEnqueue
  <2>4. enqueue_sem' = enqueue_sem + 1 /\ dequeue_sem' = dequeue_sem /\ lost' = lost
    <3>1. enqueue_sem < Capacity
      BY <2>2, InvFacts DEF EnqueueBalance
    <3> QED
      BY <1>9, <3>1 DEF GiveEnqueue, Give
  <2>5. (TypeOK /\ ProducerHoldsData)'
    BY <1>9, <2>1, <2>3, InvFacts DEF GiveEnqueue, Goto, Give, IInv, TypeOK, ProducerHoldsData
  <2>6. DequeueBalance'
    BY <2>2, <2>3, <2>4, InvFacts DEF DequeueBalance
  <2>7. EnqueueBalance'
    BY <2>2, <2>3, <2>4, InvFacts DEF EnqueueBalance
  <2> QED
    BY <2>5, <2>6, <2>7 DEF IInv
<1>10. ASSUME NEW t \in Tasks, NEW d \in Data, EnqueueCall(t, d) PROVE IInv'
  <2>1. pc[t] = "idle" /\ Goto(t, "enqueue")
    BY <1>10 DEF EnqueueCall
  <2>2. /\ Count("append")' = Count("append")
        /\ Count("giveDequeue")' = Count("giveDequeue")
        /\ Count("remove")' = Count("remove")
        /\ Count("giveEnqueue")' = Count("giveEnqueue")
        /\ Count("idle") >= 1
    BY <2>1, InvFacts, CountMove, CountPositive
  <2>3. list' = list
    BY <1>10 DEF EnqueueCall
  <2>4. enqueue_sem' = enqueue_sem /\ dequeue_sem' = dequeue_sem /\ lost' = lost
    BY <1>10 DEF EnqueueCall
  <2>5. (TypeOK /\ ProducerHoldsData)'
    BY <1>10, <2>1, <2>3, InvFacts DEF EnqueueCall, Goto, IInv, TypeOK, ProducerHoldsData
  <2>6. DequeueBalance'
    BY <2>2, <2>3, <2>4, InvFacts DEF DequeueBalance
  <2>7. EnqueueBalance'
    BY <2>2, <2>3, <2>4, InvFacts DEF EnqueueBalance
  <2> QED
    BY <2>5, <2>6, <2>7 DEF IInv
<1>11. ASSUME NEW t \in Tasks, DequeueCall(t) PROVE IInv'
  <2>1. pc[t] = "idle" /\ Goto(t, "dequeue")
    BY <1>11 DEF DequeueCall
  <2>2. /\ Count("append")' = Count("append")
        /\ Count("giveDequeue")' = Count("giveDequeue")
        /\ Count("remove")' = Count("remove")
        /\ Count("giveEnqueue")' = Count("giveEnqueue")
        /\ Count("idle") >= 1
    BY <2>1, InvFacts, CountMove, CountPositive
  <2>3. list' = list
    BY <1>11 DEF DequeueCall
  <2>4. enqueue_sem' = enqueue_sem /\ dequeue_sem' = dequeue_sem /\ lost' = lost
    BY <1>11 DEF DequeueCall
  <2>5. (TypeOK /\ ProducerHoldsData)'
    BY <1>11, <2>1, <2>3, InvFacts DEF DequeueCall, Goto, IInv, TypeOK, ProducerHoldsData
  <2>6. DequeueBalance'
    BY <2>2, <2>3, <2>4, InvFacts DEF DequeueBalance
  <2>7. EnqueueBalance'
    BY <2>2, <2>3, <2>4, InvFacts DEF EnqueueBalance
  <2> QED
    BY <2>5, <2>6, <2>7 DEF IInv
<1>12. ASSUME NEW t \in Tasks, NEW i \in 1..Len(list), TryRemove(t, i) PROVE IInv'
  <2>1. pc[t] = "idle" /\ Goto(t, "giveEnqueue")
    BY <1>12 DEF TryRemove
  <2>2. /\ Count("append")' = Count("append")
        /\ Count("giveDequeue")' = Count("giveDequeue")
        /\ Count("remove")' = Count("remove")
        /\ Count("giveEnqueue")' = Count("giveEnqueue") + 1
        /\ Count("idle") >= 1
    BY <2>1, InvFacts, CountMove, CountPositive
  <2>3. list[i] \in Data /\ list' \in Seq(Data) /\ Len(list') = Len(list) - 1
    BY <1>12, RemoveAtType, ElementOfSeq DEF TryRemove, IInv, TypeOK
  <2>4. enqueue_sem' = enqueue_sem /\ dequeue_sem' = dequeue_sem - 1 /\ lost' = lost
    BY <1>12 DEF TryRemove
  <2>5. held' = [held EXCEPT ![t] = list[i]] /\ dequeue_sem > 0
    BY <1>12 DEF TryRemove
  <2>6. (TypeOK /\ ProducerHoldsData)'
    BY <2>1, <2>3, <2>4, <2>5, InvFacts DEF Goto, IInv, TypeOK, ProducerHoldsData
  <2>7. Len(list') = Len(list) - 1
    BY <2>3
  <2>8. DequeueBalance'
    <3>1. dequeue_sem + Count("remove") + Count("giveDequeue") = Len(list)
      BY InvFacts DEF DequeueBalance
    <3>2. (dequeue_sem - 1) + Count("remove") + Count("giveDequeue") = Len(list) - 1
      BY <3>1, InvFacts, SMTT(30)
    <3> QED
      BY <2>2, <2>4, <2>7, <3>2 DEF DequeueBalance
  <2>9. EnqueueBalance'
    BY <2>2, <2>4, <2>7, InvFacts DEF EnqueueBalance
  <2> QED
    BY <2>6, <2>8, <2>9 DEF IInv
<1>13. CASE UNCHANGED vars
  BY <1>13, CountStay DEF vars, IInv, TypeOK, ProducerHoldsData, DequeueBalance, EnqueueBalance
<1> QED
  BY <1>1, <1>2, <1>3, <1>4, <1>5, <1>6, <1>7, <1>8, <1>9, <1>10, <1>11, <1>12, <1>13 DEF Next, Step, Call

-----------------------------------------------------------------------------
(* Theorems *)

THEOREM Invariance == Spec => []IInv
BY InitInv, NextInv, PTL DEF Spec

\* The types of fixed_queue_t's fields, and the bounds of its semaphores.
THEOREM TypeCorrect == Spec => []TypeOK
BY Invariance, PTL DEF IInv

\* fixed_queue_dequeue: a consumer that got dequeue_sem finds an element, so
\* the assertion of list_front cannot fail (list.c:95, fixed_queue.c:169).
THEOREM FrontIsSafe == Spec => []FrontNeverOnEmpty
<1>1. IInv => FrontNeverOnEmpty
  <2> SUFFICES ASSUME IInv, NEW t \in At("remove") PROVE list # << >>
    BY DEF FrontNeverOnEmpty
  <2>1. Count("remove") >= 1
    BY CountPositive DEF At
  <2>2. Len(list) >= 1
    BY <2>1, InvFacts DEF IInv, TypeOK, DequeueBalance
  <2> QED
    BY <2>2, EmptySeq
<1> QED
  BY <1>1, Invariance, PTL

\* dequeue_sem and the consumers that passed it account for every element of
\* the list: it never promises more of them (fixed_queue.c:152, :163-173).
THEOREM ElementsBalance == Spec => []DequeueBalance
BY Invariance, PTL DEF IInv

\* enqueue_sem, the elements and the tasks between the two account for every
\* place of the queue but those a failed append has lost (fixed_queue.c:141-157).
THEOREM PlacesBalance == Spec => []EnqueueBalance
BY Invariance, PTL DEF IInv

-----------------------------------------------------------------------------
(* FixedQueue implements BoundedFifo *)

\* Every step of the detailed queue is a step of the atomic one or leaves the
\* list alone: an element is only appended to a list with room for it.
THEOREM Refinement == Spec => ImplementsFifo
<1> USE DEF Places
<1>1. Init => Fifo!Init
  BY DEF Init, Fifo!Init
<1>2. IInv /\ [Next]_vars => [Fifo!Next]_list
  <2> SUFFICES ASSUME IInv, [Next]_vars PROVE Fifo!Next \/ UNCHANGED list
    OBVIOUS
  <2>1. ASSUME NEW t \in Tasks, EnqueueAppend(t) PROVE Fifo!Next
    <3>1. pc[t] = "append" /\ held[t] \in Data /\ list' = Append(list, held[t])
      BY <2>1 DEF EnqueueAppend, IInv, ProducerHoldsData
    <3>2. Len(list) < Capacity
      BY <3>1, InvFacts, CountPositive DEF IInv, TypeOK, EnqueueBalance
    <3> QED
      BY <3>1, <3>2 DEF Fifo!Next, Fifo!Enqueue
  <2>2. ASSUME NEW t \in Tasks, DequeueRemove(t) PROVE Fifo!Next
    BY <2>2 DEF DequeueRemove, Fifo!Next, Fifo!Dequeue
  <2>3. ASSUME NEW t \in Tasks, NEW i \in 1..Len(list), TryRemove(t, i) PROVE Fifo!Next
    BY <2>3 DEF TryRemove, Fifo!Next, Fifo!RemoveAt
  <2> QED
    BY <2>1, <2>2, <2>3 DEF Next, Step, Call, vars, EnqueueCall, EnqueueTake, EnqueueTimeout,
       EnqueueAppendFails, EnqueueGive, DequeueCall, DequeueTake, DequeueTimeout, GiveEnqueue
<1> QED
  BY <1>1, <1>2, Invariance, PTL DEF Spec, ImplementsFifo, Fifo!Spec
=============================================================================
