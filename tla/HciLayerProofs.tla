--------------------------- MODULE HciLayerProofs ---------------------------
(***************************************************************************)
(* Proofs about HciLayer for any commands, controllers and bounds.         *)
(*                                                                         *)
(* Base is inductive by itself: the types, what HCI holds at each place,   *)
(* and the buffers of the controller, which are given back once for each   *)
(* ACL packet.  Upon it stand the four theorems that hold whatever is      *)
(* dropped, and upon those the two that need every answer to arrive        *)
(* (NoAnswerLost).  Queues are counted with Times, first of all below.     *)
(***************************************************************************)
EXTENDS HciLayer, FiniteSetTheorems, SequenceTheorems, TLAPS

-----------------------------------------------------------------------------
(* How often the elements of a sequence lie in a set, and how that number  *)
(* changes when an element is appended or taken out.                       *)

Hits(s, P) == {i \in DOMAIN s : s[i] \in P}
Times(s, P) == Cardinality(Hits(s, P))

\* The sequence without its i-th element, as the list operations of the code
\* leave it.
Without(s, i) == SubSeq(s, 1, i - 1) \o SubSeq(s, i + 1, Len(s))

One(b) == IF b THEN 1 ELSE 0

-----------------------------------------------------------------------------

LEMMA HitsFinite ==
  ASSUME NEW S, NEW s \in Seq(S), NEW P
  PROVE  /\ Hits(s, P) \in SUBSET (1..Len(s))
         /\ IsFiniteSet(Hits(s, P))
         /\ Times(s, P) \in Nat
<1>1. Len(s) \in Nat /\ DOMAIN s = 1..Len(s)
  BY LenProperties
<1>2. Hits(s, P) \in SUBSET (1..Len(s))
  BY <1>1 DEF Hits
<1>3. IsFiniteSet(1..Len(s))
  BY <1>1, FS_Interval
<1>4. IsFiniteSet(Hits(s, P))
  BY <1>2, <1>3, FS_Subset
<1> QED
  BY <1>2, <1>4, FS_CardinalityType DEF Times

LEMMA TimesEmpty == \A P : Times(<< >>, P) = 0
<1> TAKE P
<1>1. Hits(<< >>, P) = {}
  BY DEF Hits
<1> QED
  BY <1>1, FS_EmptySet DEF Times

\* An element that is counted is somewhere in the sequence, and conversely.
LEMMA TimesPositive ==
  ASSUME NEW S, NEW s \in Seq(S), NEW P
  PROVE  Times(s, P) = 0 <=> \A i \in 1..Len(s) : s[i] \notin P
<1>1. IsFiniteSet(Hits(s, P)) /\ DOMAIN s = 1..Len(s)
  BY HitsFinite, LenProperties
<1>2. Times(s, P) = 0 <=> Hits(s, P) = {}
  BY <1>1, FS_EmptySet DEF Times
<1> QED
  BY <1>1, <1>2 DEF Hits

LEMMA TimesAppend ==
  ASSUME NEW S, NEW s \in Seq(S), NEW e \in S, NEW P
  PROVE  Times(Append(s, e), P) = Times(s, P) + One(e \in P)
<1> DEFINE t == Append(s, e)
           n == Len(s) + 1
<1>1. Len(s) \in Nat /\ DOMAIN s = 1..Len(s)
  BY LenProperties
<1>2. /\ DOMAIN t = 1..n
      /\ t[n] = e
      /\ \A i \in 1..Len(s) : t[i] = s[i]
  <2>1. t \in Seq(S) /\ Len(t) = n /\ t[n] = e /\ \A i \in 1..Len(s) : t[i] = s[i]
    BY AppendProperties
  <2> QED
    BY <2>1, LenProperties
<1>3. Hits(s, P) \in SUBSET (1..Len(s)) /\ IsFiniteSet(Hits(s, P)) /\ Times(s, P) \in Nat
  BY HitsFinite
<1> HIDE DEF t
<1>4. CASE e \in P
  <2>1. Hits(t, P) = Hits(s, P) \cup {n}
    BY <1>1, <1>2, <1>4 DEF Hits
  <2>2. n \notin Hits(s, P)
    BY <1>1, <1>3
  <2>3. Times(t, P) = Times(s, P) + 1
    BY <2>1, <2>2, <1>3, FS_AddElement DEF Times
  <2> QED
    BY <2>3, <1>4 DEF One, t
<1>5. CASE e \notin P
  <2>1. Hits(t, P) = Hits(s, P)
    BY <1>1, <1>2, <1>5 DEF Hits
  <2> QED
    BY <2>1, <1>3, <1>5 DEF One, Times, t
<1> QED
  BY <1>4, <1>5

LEMMA WithoutProperties ==
  ASSUME NEW S, NEW s \in Seq(S), NEW i \in 1..Len(s)
  PROVE  /\ Without(s, i) \in Seq(S)
         /\ Len(Without(s, i)) = Len(s) - 1
         /\ \A j \in 1..(Len(s) - 1) :
               Without(s, i)[j] = IF j < i THEN s[j] ELSE s[j + 1]
<1> DEFINE u == SubSeq(s, 1, i - 1)
           v == SubSeq(s, i + 1, Len(s))
<1>1. Len(s) \in Nat /\ i \in Nat /\ 1 <= i /\ i <= Len(s) /\ \A k \in 1..Len(s) : s[k] \in S
  BY LenProperties, ElementOfSeq
<1>2. u \in Seq(S) /\ Len(u) = i - 1 /\ \A j \in 1..(i - 1) : u[j] = s[j]
  <2>1. \A k \in 1..(i - 1) : s[k] \in S
    BY <1>1
  <2>2. /\ SubSeq(s, 1, i - 1) \in Seq(S)
        /\ Len(SubSeq(s, 1, i - 1)) = IF 1 <= i - 1 THEN (i - 1) - 1 + 1 ELSE 0
        /\ \A j \in 1..((i - 1) - 1 + 1) : SubSeq(s, 1, i - 1)[j] = s[1 + j - 1]
    BY <1>1, <2>1, SubSeqProperties, i - 1 \in Int, 1 \in Int
  <2> QED
    BY <1>1, <2>2
<1>3. v \in Seq(S) /\ Len(v) = Len(s) - i /\ \A j \in 1..(Len(s) - i) : v[j] = s[i + j]
  <2>1. \A k \in (i + 1)..Len(s) : s[k] \in S
    BY <1>1
  <2>2. /\ SubSeq(s, i + 1, Len(s)) \in Seq(S)
        /\ Len(SubSeq(s, i + 1, Len(s))) =
              IF i + 1 <= Len(s) THEN Len(s) - (i + 1) + 1 ELSE 0
        /\ \A j \in 1..(Len(s) - (i + 1) + 1) : SubSeq(s, i + 1, Len(s))[j] = s[(i + 1) + j - 1]
    BY <1>1, <2>1, SubSeqProperties, i + 1 \in Int, Len(s) \in Int
  <2> QED
    BY <1>1, <2>2
<1>4. /\ u \o v \in Seq(S) /\ Len(u \o v) = Len(u) + Len(v)
      /\ \A j \in 1..(Len(u) + Len(v)) :
            (u \o v)[j] = IF j <= Len(u) THEN u[j] ELSE v[j - Len(u)]
  BY <1>2, <1>3, ConcatProperties
<1>5. Without(s, i) = u \o v
  BY DEF Without
<1> HIDE DEF u, v
<1>6. Len(Without(s, i)) = Len(s) - 1
  <2>1. (i - 1) + (Len(s) - i) = Len(s) - 1
    BY <1>1
  <2>2. Len(u) = i - 1 /\ Len(v) = Len(s) - i /\ Len(u \o v) = Len(u) + Len(v)
    BY <1>2, <1>3, <1>4
  <2> QED
    BY <2>1, <2>2, <1>5
<1>7. \A j \in 1..(Len(s) - 1) : Without(s, i)[j] = IF j < i THEN s[j] ELSE s[j + 1]
  <2> TAKE j \in 1..(Len(s) - 1)
  <2>1. CASE j < i
    BY <1>1, <1>2, <1>3, <1>4, <1>5, <2>1
  <2>2. CASE ~(j < i)
    <3>1. j - (i - 1) \in 1..(Len(s) - i) /\ i + (j - (i - 1)) = j + 1
      BY <1>1, <2>2
    <3>2. (u \o v)[j] = v[j - (i - 1)]
      BY <1>1, <1>2, <1>3, <1>4, <2>2
    <3> QED
      BY <3>1, <3>2, <1>3, <1>5, <2>2
  <2> QED
    BY <2>1, <2>2
<1> QED
  BY <1>4, <1>5, <1>6, <1>7

\* The index set shrinks by one index and the rest moves down.
LEMMA TimesWithout ==
  ASSUME NEW S, NEW s \in Seq(S), NEW i \in 1..Len(s), NEW P
  PROVE  Times(s, P) = Times(Without(s, i), P) + One(s[i] \in P)
<1> DEFINE t == Without(s, i)
           A == Hits(s, P) \ {i}
           B == Hits(t, P)
           f == [j \in A |-> IF j < i THEN j ELSE j - 1]
<1>1. Len(s) \in Nat /\ DOMAIN s = 1..Len(s) /\ i \in Nat /\ 1 <= i /\ i <= Len(s)
  BY LenProperties
<1>2. /\ DOMAIN t = 1..(Len(s) - 1)
      /\ t \in Seq(S)
      /\ \A j \in 1..(Len(s) - 1) : t[j] = IF j < i THEN s[j] ELSE s[j + 1]
  <2>1. t \in Seq(S) /\ Len(t) = Len(s) - 1
        /\ \A j \in 1..(Len(s) - 1) : t[j] = IF j < i THEN s[j] ELSE s[j + 1]
    BY WithoutProperties
  <2> QED
    BY <2>1, LenProperties
<1>3. /\ Hits(s, P) \in SUBSET (1..Len(s)) /\ IsFiniteSet(Hits(s, P)) /\ Times(s, P) \in Nat
      /\ IsFiniteSet(B) /\ Times(t, P) \in Nat
  BY <1>2, HitsFinite
<1> HIDE DEF t
<1>4. IsFiniteSet(A)
      /\ Cardinality(A) = IF i \in Hits(s, P) THEN Cardinality(Hits(s, P)) - 1
                          ELSE Cardinality(Hits(s, P))
  BY <1>3, FS_RemoveElement
<1>5. f \in Bijection(A, B)
  <2>1. \A j \in A : /\ j \in 1..Len(s) /\ j # i /\ s[j] \in P
                     /\ f[j] \in 1..(Len(s) - 1)
                     /\ t[f[j]] = s[j]
    BY <1>1, <1>2 DEF Hits
  <2>2. f \in [A -> B]
    BY <2>1, <1>2 DEF Hits
  <2>3. \A j, k \in A : f[j] = f[k] => j = k
    BY <2>1, <1>1
  <2>4. \A k \in B : \E j \in A : f[j] = k
    <3> TAKE k \in B
    <3>1. k \in 1..(Len(s) - 1) /\ t[k] \in P
      BY <1>2 DEF Hits
    <3>2. CASE k < i
      <4>1. k \in A /\ f[k] = k
        BY <1>1, <1>2, <3>1, <3>2 DEF Hits
      <4> QED
        BY <4>1
    <3>3. CASE ~(k < i)
      <4>1. k + 1 \in A /\ f[k + 1] = k
        BY <1>1, <1>2, <3>1, <3>3 DEF Hits
      <4> QED
        BY <4>1
    <3> QED
      BY <3>2, <3>3
  <2> QED
    BY <2>2, <2>3, <2>4 DEF Bijection, Injection, Surjection, IsInjective
<1>6. Cardinality(B) = Cardinality(A)
  <2>1. ExistsBijection(A, B)
    BY <1>5 DEF ExistsBijection
  <2> HIDE DEF A, B
  <2> QED
    BY <2>1, <1>4, FS_Bijection
<1>7. i \in Hits(s, P) <=> s[i] \in P
  BY <1>1 DEF Hits
<1>8. Times(t, P) = Cardinality(A)
  BY <1>6 DEF Times
<1>9. Cardinality(Hits(s, P)) = Times(s, P)
  BY DEF Times
<1> HIDE DEF A, B, f
<1>10. CASE s[i] \in P
  BY <1>3, <1>4, <1>7, <1>8, <1>9, <1>10 DEF One, t
<1>11. CASE s[i] \notin P
  BY <1>3, <1>4, <1>7, <1>8, <1>9, <1>11 DEF One, t
<1> QED
  BY <1>10, <1>11

LEMMA TailIsWithout ==
  ASSUME NEW S, NEW s \in Seq(S), s # << >>
  PROVE  /\ 1 \in 1..Len(s)
         /\ Head(s) = s[1]
         /\ Tail(s) = Without(s, 1)
<1>1. Len(s) \in Nat /\ Len(s) # 0
  BY EmptySeq, LenProperties
<1>2. Tail(s) \in Seq(S) /\ Len(Tail(s)) = Len(s) - 1
      /\ \A j \in 1..Len(Tail(s)) : Tail(s)[j] = s[j + 1]
  BY HeadTailProperties
<1>3. Without(s, 1) \in Seq(S) /\ Len(Without(s, 1)) = Len(s) - 1
      /\ \A j \in 1..(Len(s) - 1) : Without(s, 1)[j] = s[j + 1]
  BY <1>1, WithoutProperties
<1>4. Tail(s) = Without(s, 1)
  BY <1>2, <1>3, SeqEqual
<1> QED
  BY <1>1, <1>4

LEMMA TimesTail ==
  ASSUME NEW S, NEW s \in Seq(S), s # << >>, NEW P
  PROVE  Times(s, P) = Times(Tail(s), P) + One(Head(s) \in P)
BY TailIsWithout, TimesWithout

-----------------------------------------------------------------------------
(* The invariants.                                                         *)

NoAnswerLost == MayDrop \cap {"complete", "status"} = {}

Acls == {e \in EventRecords : e.type = "acl"}
AnswersOf(o) == {e \in EventRecords : e.opcode = o}
StatusOf(c) == {[type |-> "status", cmd |-> c]}
CommandsOf(o) == {c \in Cmds : Opcode[c] = o}

\* The values of TypeOK.
HciRecords == [at : {"idle", "down", "up", "post"}, n : Nat,
               packet : EventRecords, entry : Cmds \cup {None}]
BtuqRecords == [type : EventTypes, cmd : Cmds \cup {None}]
BtuRecords == [at : {"idle", "wait", "await", "read"}, cmd : Cmds \cup {None}]
SyncRecords == [sem : BOOLEAN, opcode : Opcodes \cup {None}, status : Cmds \cup {None}]
TimerRecords == [set : BOOLEAN, armed : BOOLEAN, msgs : 0..MaxAlarms]
CtlRecords == [slots : SlotChoices, held : [Opcodes -> Nat], paused : BOOLEAN,
               buffers : 0..HostBuffers, ready : BOOLEAN]

\* HCI holds the entry of an answer only from its callback to the end of the
\* post, counts no more packets than there are, and only answers have an opcode.
InHand ==
    /\ hci.entry # None => hci.at = "post" /\ hci.packet.type \in {"complete", "status"}
    /\ hci.at \in {"up", "post"} => hci.n <= Len(rx_q)
    /\ \A i \in 1..Len(rx_q) :
          rx_q[i].type \in {"acl", "event"} => rx_q[i].opcode = None /\ rx_q[i].credits = 0

\* A buffer of the controller is free, or in a packet on its way to HCI, or in an
\* acknowledgement on its way back.
BuffersBounded ==
    ctl.buffers + Times(rx_q, Acls) + Times(command_queue, {Ack}) <= HostBuffers

Base == TypeOK /\ InHand /\ BuffersBounded

\* With room for one command there is one permission to send: it is HCI's
\* credit, or with a command the controller holds, or in an event on its way, or
\* withheld by the controller.
Idle == \A o \in Opcodes : ctl.held[o] = 0
NothingOffered == \A i \in 1..Len(rx_q) : rx_q[i].credits = 0
OneCommand ==
    ctl.slots = 1 =>
        /\ command_credits <= 1
        /\ command_credits = 1 => Idle /\ NothingOffered /\ ~ctl.paused
        /\ \A o \in Opcodes : /\ ctl.held[o] <= 1
                              /\ ctl.held[o] = 1 => NothingOffered /\ ~ctl.paused
        /\ \A o, p \in Opcodes : ctl.held[o] = 1 /\ ctl.held[p] = 1 => o = p
        /\ ctl.paused => NothingOffered
        /\ \A i \in 1..Len(rx_q) : rx_q[i].credits <= 1
        /\ \A i, j \in 1..Len(rx_q) :
              rx_q[i].credits = 1 /\ rx_q[j].credits = 1 => i = j

\* Answers are such as the controller may give.
AnswersAllowed ==
    /\ \A i \in 1..Len(rx_q) :
          rx_q[i].opcode # None => MayAnswer(rx_q[i].opcode, rx_q[i].type, rx_q[i].ok)
    /\ hci.entry # None =>
          /\ hci.packet.opcode = Opcode[hci.entry]
          /\ MayAnswer(hci.packet.opcode, hci.packet.type, hci.packet.ok)

\* With room for one command, one waits for its answer, and no permission to
\* send another is met before that answer.
AnswerFirst ==
    /\ Len(pending) <= 1
    /\ pending # << >> =>
          /\ command_credits = 0
          /\ \A i \in 1..Len(rx_q) :
                rx_q[i].credits = 1 => \E j \in 1..i : rx_q[j].opcode # None
          /\ ctl.paused => \E j \in 1..Len(rx_q) : rx_q[j].opcode # None

\* A command for whose answer BTU waits is unanswered only while it waits.
UnansweredCmds == (Elements(command_queue) \cap Cmds) \cup Elements(pending)
CallerWaits ==
    /\ \A c \in UnansweredCmds :
          /\ Kind[Opcode[c]] = "sync" => btu.at = "wait" /\ ~sync.sem /\ btu.cmd = c
          /\ Kind[Opcode[c]] = "future" => btu.at = "await" /\ btu.cmd = c
    /\ hci.entry # None =>
          /\ Kind[Opcode[hci.entry]] = "sync" =>
                btu.at = "wait" /\ ~sync.sem /\ btu.cmd = hci.entry
          /\ Kind[Opcode[hci.entry]] # "future"

\* Nothing that BTU sent is behind k in the queue.
OnlyAcksAfter(k) == \A j \in 1..Len(command_queue) : j > k => command_queue[j] = Ack

\* The synchronous command of BTU waits to be sent, for its answer, for the end of
\* its callback; then its status is kept, for nothing else can be answered.
Unsent == \E k \in 1..Len(command_queue) : command_queue[k] = btu.cmd /\ OnlyAcksAfter(k)
Sent == pending = << btu.cmd >> /\ OnlyAcksAfter(0)
Kept == pending = << >> /\ OnlyAcksAfter(0) /\ sync.status = btu.cmd
SyncPhases ==
    /\ btu.at \in {"idle", "await"} => ~sync.sem /\ sync.opcode = None
    /\ btu.at = "wait" => btu.cmd \in Cmds /\ Kind[Opcode[btu.cmd]] = "sync"
    /\ btu.at = "wait" /\ ~sync.sem =>
          /\ sync.opcode = Opcode[btu.cmd]
          /\ Unsent \/ Sent \/ (Kept /\ hci.entry = btu.cmd)
    /\ btu.at = "wait" /\ sync.sem => Kept /\ hci.entry = None /\ sync.opcode = None
    /\ btu.at = "read" => Kept /\ hci.entry = None /\ ~sync.sem /\ sync.opcode = None

OwnStatus == /\ AnswersAllowed
             /\ ctl.slots = 1 => AnswerFirst /\ CallerWaits /\ SyncPhases

\* All that the last theorem rests on.
Matched == Base /\ EveryCommandHasOneHolder /\ AnswersMatch
Strong == Matched /\ OneCommand /\ OwnStatus

-----------------------------------------------------------------------------
(* Base *)

LEMMA Constants ==
  /\ None \notin Cmds /\ None \notin Opcodes /\ Ack \notin Cmds /\ Ack # None
  /\ Kind \in [Opcodes -> CmdKinds]
  /\ \A c \in Cmds : Opcode[c] \in Opcodes
  /\ SlotChoices \subseteq Nat \ {0} /\ HostBuffers \in Nat /\ BtuQueueLen \in Nat \ {0}
  /\ MaxPackets \in Nat /\ MaxAlarms \in Nat
BY CmdsAssumption, BoundsAssumption DEF Opcodes

\* The answers of all opcodes together are finitely many, so that Held is a number.
LEMMA HeldNat ==
  ASSUME ctl.held \in [Opcodes -> Nat]
  PROVE  IsFiniteSet(Holding) /\ Held \in Nat
<1> DEFINE f == [c \in Cmds |-> Opcode[c]]
           g == [o \in Opcodes |-> {o} \X (1..ctl.held[o])]
           T == {{o} \X (1..ctl.held[o]) : o \in Opcodes}
<1>1. f \in Surjection(Cmds, Opcodes)
  BY DEF Surjection, Opcodes
<1>2. IsFiniteSet(Opcodes)
  <2> HIDE DEF f
  <2> QED
    BY <1>1, CmdsAssumption, FS_Surjection
<1>3. g \in Surjection(Opcodes, T)
  BY DEF Surjection
<1>4. IsFiniteSet(T)
  <2> HIDE DEF g, T
  <2> QED
    BY <1>2, <1>3, FS_Surjection
<1>5. \A t \in T : IsFiniteSet(t)
  <2> TAKE t \in T
  <2>1. PICK o \in Opcodes : t = {o} \X (1..ctl.held[o])
    OBVIOUS
  <2>2. IsFiniteSet({o}) /\ IsFiniteSet(1..ctl.held[o])
    <3>1. ctl.held[o] \in Int /\ 1 \in Int
      OBVIOUS
    <3> QED
      BY <3>1, FS_Singleton, FS_Interval
  <2> QED
    BY <2>1, <2>2, FS_Product
<1>6. IsFiniteSet(UNION T)
  <2> HIDE DEF T
  <2> QED
    BY <1>4, <1>5, FS_UNION
<1> QED
  BY <1>6, FS_CardinalityType DEF Held, Holding

LEMMA RoomNat ==
  ASSUME ctl.slots \in Nat, NEW n \in Int
  PROVE  Room(n) \in Nat
BY DEF Room

LEMMA RoomsNat ==
  ASSUME ctl.slots \in SlotChoices, ctl.held \in [Opcodes -> Nat]
  PROVE  Held \in Nat /\ Room(Held) \in Nat /\ Room(Held - 1) \in Nat
<1>1. ctl.slots \in Nat
  BY Constants
<1>2. Held \in Nat
  BY HeldNat
<1>3. Held \in Int /\ Held - 1 \in Int
  BY <1>2
<1> QED
  BY <1>1, <1>2, <1>3, RoomNat

\* What a non-empty queue has at its head and leaves behind it.
LEMMA QueueStep ==
  ASSUME NEW S, NEW q \in Seq(S)
  PROVE  /\ Len(q) \in Nat /\ DOMAIN q = 1..Len(q)
         /\ \A i \in 1..Len(q) : q[i] \in S
         /\ q # << >> <=> Len(q) > 0
         /\ q # << >> => /\ Head(q) = q[1] /\ Head(q) \in S
                         /\ Tail(q) \in Seq(S) /\ Len(Tail(q)) = Len(q) - 1
                         /\ \A i \in 1..(Len(q) - 1) : Tail(q)[i] = q[i + 1]
<1>1. Len(q) \in Nat /\ DOMAIN q = 1..Len(q) /\ (q # << >> <=> Len(q) > 0)
  BY LenProperties, EmptySeq
<1>2. \A i \in 1..Len(q) : q[i] \in S
  BY ElementOfSeq
<1>3. q # << >> => /\ Head(q) \in S /\ Tail(q) \in Seq(S) /\ Len(Tail(q)) = Len(q) - 1
                   /\ \A i \in 1..Len(Tail(q)) : Tail(q)[i] = q[i + 1]
  BY HeadTailProperties
<1>4. q # << >> => Head(q) = q[1]
  BY TailIsWithout
<1> QED
  BY <1>1, <1>2, <1>3, <1>4

\* The entry that get_waiting_command finds, and the list without it.
LEMMA WaitingFound ==
  ASSUME pending \in Seq(Cmds), NEW o
  PROVE  /\ Waiting(o) \in Nat
         /\ Waiting(o) = 0 <=> \A i \in 1..Len(pending) : Opcode[pending[i]] # o
         /\ Waiting(o) # 0 => /\ Waiting(o) \in 1..Len(pending)
                              /\ pending[Waiting(o)] \in Cmds
                              /\ Opcode[pending[Waiting(o)]] = o
                              /\ Remove(pending, Waiting(o)) \in Seq(Cmds)
                              /\ Len(Remove(pending, Waiting(o))) = Len(pending) - 1
<1>1. Len(pending) \in Nat /\ DOMAIN pending = 1..Len(pending)
      /\ \A i \in 1..Len(pending) : pending[i] \in Cmds
  BY QueueStep
<1>2. Matches(o) \subseteq 1..Len(pending)
  BY <1>1 DEF Matches
<1>3. CASE Matches(o) = {}
  BY <1>1, <1>3 DEF Waiting, Matches
<1>4. CASE Matches(o) # {}
  <2>1. \E i \in Matches(o) : \A j \in Matches(o) : i <= j
    <3> DEFINE R == OpToRel(<, Nat)
    <3>1. \A m, n \in Nat : m < n => << m, n >> \in R
      BY DEF OpToRel
    <3>2. IsWellFoundedOn(R, Nat)
      BY NatLessThanWellFounded
    <3>3. Matches(o) \subseteq Nat
      BY <1>1, <1>2
    <3> HIDE DEF R
    <3>4. PICK i \in Matches(o) : \A j \in Matches(o) : ~ (<< j, i >> \in R)
      BY <3>2, <3>3, <1>4, WFMin
    <3>5. ASSUME NEW j \in Matches(o) PROVE i <= j
      <4>1. i \in Nat /\ j \in Nat /\ ~(j < i)
        BY <3>1, <3>3, <3>4
      <4> QED
        BY <4>1
    <3> QED
      BY <3>5
  <2>2. Waiting(o) \in Matches(o)
    BY <2>1, <1>4 DEF Waiting
  <2>3. Waiting(o) \in 1..Len(pending) /\ Opcode[pending[Waiting(o)]] = o
    BY <2>2, <1>2, <1>1 DEF Matches
  <2>4. /\ Remove(pending, Waiting(o)) \in Seq(Cmds)
        /\ Len(Remove(pending, Waiting(o))) = Len(pending) - 1
    BY <2>3, WithoutProperties DEF Remove, Without
  <2> QED
    BY <2>3, <2>4, <1>1
<1> QED
  BY <1>3, <1>4

\* Operations that leave alone what a part of Base is about.
LEMMA InHandKept == InHand /\ UNCHANGED << hci, rx_q >> => InHand'
BY DEF InHand

LEMMA BuffersKept == BuffersBounded /\ UNCHANGED << ctl, rx_q, command_queue >> => BuffersBounded'
BY DEF BuffersBounded

\* The buffers that are free or on their way are counted in natural numbers.
LEMMA BuffersNat ==
  ASSUME TypeOK
  PROVE  /\ Times(rx_q, Acls) \in Nat /\ Times(command_queue, {Ack}) \in Nat
         /\ ctl.buffers \in Nat
BY HitsFinite, Constants DEF TypeOK

LEMMA InitBase == Init => Base
<1> USE DEF HciRecords, BtuqRecords, BtuRecords, SyncRecords, TimerRecords, CtlRecords
<1> SUFFICES ASSUME Init PROVE Base
  OBVIOUS
<1>1. TypeOK
  <2>1. Plain("event") \in EventRecords
    BY DEF Plain, Event, EventRecords, EventTypes
  <2>2. hci \in HciRecords
    BY <2>1 DEF Init
  <2>3. ctl \in CtlRecords
    BY Constants DEF Init
  <2>4. timer \in TimerRecords
    BY Constants DEF Init
  <2>5. /\ << >> \in Seq(Cmds \cup {Ack}) /\ << >> \in Seq(Cmds) /\ << >> \in Seq(EventRecords)
        /\ << >> \in Seq(BtuqRecords) /\ Len(<< >>) = 0
    BY EmptySeq
  <2>6. /\ packet_queue \in 0..MaxPackets /\ command_credits \in Nat /\ allocated \subseteq Cmds
        /\ btu \in BtuRecords
        /\ sync \in SyncRecords
        /\ 0 <= BtuQueueLen
    BY Constants DEF Init
  <2>7. downstream \in BOOLEAN /\ upstream \in BOOLEAN
    BY DEF Init
  <2>8. /\ command_queue = << >> /\ pending = << >> /\ rx_q = << >> /\ btuq = << >>
    BY DEF Init
  <2> QED
    BY <2>2, <2>3, <2>4, <2>5, <2>6, <2>7, <2>8 DEF TypeOK
<1>2. InHand
  BY DEF Init, InHand
<1>3. BuffersBounded
  BY TimesEmpty, Constants DEF Init, BuffersBounded
<1> QED
  BY <1>1, <1>2, <1>3 DEF Base

LEMMA SendBase ==
  ASSUME Base, NEW c \in Cmds, Send(c)
  PROVE  Base'
<1> USE DEF sending, receiving, above,
            HciRecords, BtuqRecords, BtuRecords, SyncRecords, TimerRecords, CtlRecords
<1>1. /\ command_queue' = Append(command_queue, c)
      /\ command_queue \in Seq(Cmds \cup {Ack})
      /\ command_queue' \in Seq(Cmds \cup {Ack})
  BY AppendProperties DEF Send, Base, TypeOK
<1>2. btu' \in BtuRecords
  <2>1. Opcode[c] \in Opcodes /\ Kind[Opcode[c]] \in CmdKinds
    BY Constants
  <2> QED
    BY <2>1 DEF Send, Base, TypeOK, CmdKinds
<1>3. sync' \in SyncRecords
  BY Constants DEF Send, Base, TypeOK
<1>4. TypeOK'
  BY <1>1, <1>2, <1>3 DEF Send, Base, TypeOK
<1>5. InHand'
  BY InHandKept DEF Send, Base
<1>6. BuffersBounded'
  <2>1. Times(command_queue', {Ack}) = Times(command_queue, {Ack}) + One(c \in {Ack})
    BY <1>1, TimesAppend
  <2>2. c \notin {Ack}
    BY Constants
  <2>3. UNCHANGED << ctl, rx_q >> /\ BuffersBounded
    BY DEF Send, Base
  <2> QED
    BY <2>1, <2>2, <2>3, BuffersNat DEF Base, BuffersBounded, One
<1> QED
  BY <1>4, <1>5, <1>6 DEF Base

LEMMA BtuBase ==
  ASSUME Base, Btu
  PROVE  Base'
<1> USE DEF sending, receiving, above,
            HciRecords, BtuqRecords, BtuRecords, SyncRecords, TimerRecords, CtlRecords
<1>1. CASE \E c \in Cmds : Send(c)
  BY <1>1, SendBase
<1>2. CASE SendPacket
  <2>1. packet_queue' \in 0..MaxPackets
    BY <1>2, Constants DEF SendPacket, Base, TypeOK
  <2>2. TypeOK'
    BY <1>2, <2>1 DEF SendPacket, Base, TypeOK
  <2> QED
    BY <1>2, <2>2, InHandKept, BuffersKept DEF SendPacket, Base
<1>3. CASE SyncTake
  <2>1. TypeOK'
    BY <1>3 DEF SyncTake, Base, TypeOK
  <2> QED
    BY <1>3, <2>1, InHandKept, BuffersKept DEF SyncTake, Base
<1>4. CASE SyncRead
  <2>1. TypeOK'
    BY <1>4 DEF SyncRead, Base, TypeOK
  <2> QED
    BY <1>4, <2>1, InHandKept, BuffersKept DEF SyncRead, Base
<1>5. CASE Handle
  <2>1. btuq' \in Seq(BtuqRecords) /\ Len(btuq') <= BtuQueueLen
    BY <1>5, QueueStep, Constants DEF Handle, Base, TypeOK
  <2>2. allocated' \subseteq Cmds
    BY <1>5 DEF Handle, Base, TypeOK
  <2>3. TypeOK'
    BY <1>5, <2>1, <2>2 DEF Handle, Base, TypeOK
  <2> QED
    BY <1>5, <2>3, InHandKept, BuffersKept DEF Handle, Base
<1> QED
  BY <1>1, <1>2, <1>3, <1>4, <1>5 DEF Btu

LEMMA DownBase ==
  ASSUME Base, HciDown
  PROVE  Base'
<1> USE DEF sending, receiving, above,
            HciRecords, BtuqRecords, BtuRecords, SyncRecords, TimerRecords, CtlRecords
<1> DEFINE S == Cmds \cup {Ack}
<1>1. command_queue \in Seq(S) /\ rx_q \in Seq(EventRecords) /\ ctl.buffers \in Nat
  BY BuffersNat DEF Base, TypeOK
<1>2. CASE DownBegin
  <2>1. hci' = [hci EXCEPT !.at = "down"] /\ UNCHANGED rx_q /\ downstream' \in BOOLEAN
    BY <1>2 DEF DownBegin
  <2>2. TypeOK'
    <3>1. hci' \in HciRecords
      BY <2>1 DEF Base, TypeOK
    <3>2. UNCHANGED << sending, pending, receiving, above, timer, allocated, ctl >>
      BY <1>2 DEF DownBegin
    <3> QED
      BY <2>1, <3>1, <3>2 DEF Base, TypeOK
  <2>3. InHand'
    BY <1>2 DEF DownBegin, Base, TypeOK, InHand
  <2> QED
    BY <1>2, <2>2, <2>3, BuffersKept DEF DownBegin, Base
<1>3. CASE SendCommand
  <2>1. command_queue # << >> /\ Head(command_queue) # Ack
    BY <1>3 DEF SendCommand, CommandReady
  <2>2. /\ Tail(command_queue) \in Seq(S) /\ Head(command_queue) \in Cmds
    BY <1>1, <2>1, QueueStep
  <2>3. pending' \in Seq(Cmds)
    BY <1>3, <2>2, AppendProperties DEF SendCommand, Base, TypeOK
  <2>4. command_credits' \in Nat
    BY <1>3 DEF SendCommand, CommandReady, Base, TypeOK
  <2>5. timer' \in TimerRecords
    BY <1>3 DEF SendCommand, RestartTimer, Base, TypeOK
  <2>6. /\ ctl' \in CtlRecords
        /\ ctl'.buffers = ctl.buffers
    <3>1. PICK ready \in BOOLEAN :
             ctl' = [ctl EXCEPT !.held[Opcode[Head(command_queue)]] = @ + 1, !.ready = ready]
      BY <1>3 DEF SendCommand
    <3>2. Opcode[Head(command_queue)] \in Opcodes
      BY <2>2, Constants
    <3>3. [ctl.held EXCEPT ![Opcode[Head(command_queue)]] = @ + 1] \in [Opcodes -> Nat]
      BY <3>2 DEF Base, TypeOK
    <3>4. ctl' = [ctl EXCEPT !.held = [ctl.held EXCEPT ![Opcode[Head(command_queue)]] = @ + 1],
                             !.ready = ready]
      BY <3>1 DEF Base, TypeOK
    <3> QED
      BY <3>3, <3>4 DEF Base, TypeOK
  <2>7. TypeOK'
    BY <1>3, <2>2, <2>3, <2>4, <2>5, <2>6 DEF SendCommand, Base, TypeOK
  <2>8. InHand'
    BY <1>3, InHandKept DEF SendCommand, Base
  <2>9. BuffersBounded'
    <3>1. Times(command_queue, {Ack}) = Times(command_queue', {Ack}) + One(Head(command_queue) \in {Ack})
      BY <1>1, <1>3, <2>1, TimesTail DEF SendCommand
    <3>2. Times(command_queue', {Ack}) = Times(command_queue, {Ack})
      BY <3>1, <2>1, <2>7, BuffersNat, HitsFinite DEF One, Base, TypeOK
    <3> QED
      BY <3>2, <1>3, <2>6 DEF SendCommand, Base, BuffersBounded
  <2> QED
    BY <2>7, <2>8, <2>9 DEF Base
<1>4. CASE SendAck
  <2>1. command_queue # << >> /\ Head(command_queue) = Ack
    BY <1>4 DEF SendAck, CommandReady
  <2>2. command_queue' = Tail(command_queue) /\ Tail(command_queue) \in Seq(S) /\ UNCHANGED rx_q
    BY <1>1, <1>4, <2>1, QueueStep DEF SendAck
  <2>3. Times(command_queue, {Ack}) = Times(command_queue', {Ack}) + 1
    BY <1>1, <2>1, <2>2, TimesTail DEF One
  <2>4. Times(command_queue', {Ack}) \in Nat /\ Times(rx_q, Acls) \in Nat
    BY <1>1, <2>2, HitsFinite
  <2>5. ctl'.buffers = ctl.buffers + 1
    BY <1>4 DEF SendAck, Base, TypeOK
  <2>6. BuffersBounded'
    BY <2>2, <2>3, <2>4, <2>5, <1>1, Constants DEF Base, BuffersBounded
  <2>7. ctl.buffers + 1 \in 0..HostBuffers
    BY <2>3, <2>4, <1>1, Constants DEF Base, BuffersBounded
  <2>8. ctl' \in CtlRecords
    BY <1>4, <2>7 DEF SendAck, Base, TypeOK
  <2>9. TypeOK'
    BY <1>4, <2>2, <2>8 DEF SendAck, Base, TypeOK
  <2> QED
    BY <1>4, <2>6, <2>9, InHandKept DEF SendAck, Base
<1>5. CASE SendData
  <2>1. ctl' \in CtlRecords /\ ctl'.buffers = ctl.buffers
    BY <1>5 DEF SendData, Base, TypeOK
  <2>2. packet_queue' \in 0..MaxPackets
    BY <1>5, Constants DEF SendData, Base, TypeOK
  <2>3. TypeOK'
    <3>1. UNCHANGED << command_queue, command_credits, pending, downstream, receiving, hci,
                       above, timer, allocated >>
      BY <1>5 DEF SendData
    <3> QED
      BY <2>1, <2>2, <3>1 DEF Base, TypeOK
  <2>4. BuffersBounded'
    BY <1>5, <2>1 DEF SendData, Base, BuffersBounded
  <2> QED
    BY <1>5, <2>3, <2>4, InHandKept DEF SendData, Base
<1>6. CASE DownEnd
  <2>1. TypeOK'
    <3>1. /\ UNCHANGED << sending, pending, downstream, receiving, above, timer, allocated, ctl >>
          /\ hci' = [hci EXCEPT !.at = "idle"]
      BY <1>6 DEF DownEnd
    <3>2. hci' \in HciRecords
      BY <3>1 DEF Base, TypeOK
    <3> QED
      BY <3>1, <3>2 DEF Base, TypeOK
  <2>2. InHand'
    BY <1>6 DEF DownEnd, Base, TypeOK, InHand
  <2> QED
    BY <1>6, <2>1, <2>2, BuffersKept DEF DownEnd, Base
<1> QED
  BY <1>2, <1>3, <1>4, <1>5, <1>6 DEF HciDown

\* The next packet of rx_q, while HCI still has packets to handle.
LEMMA NextPacket ==
  ASSUME Base, hci.at = "up", hci.n > 0
  PROVE  /\ rx_q \in Seq(EventRecords) /\ rx_q # << >>
         /\ Head(rx_q) \in EventRecords /\ Head(rx_q) = rx_q[1]
         /\ Tail(rx_q) \in Seq(EventRecords)
         /\ Len(rx_q) \in Nat \ {0} /\ Len(Tail(rx_q)) = Len(rx_q) - 1
         /\ \A i \in 1..(Len(rx_q) - 1) : Tail(rx_q)[i] = rx_q[i + 1]
         /\ hci.n \in Nat /\ hci.n - 1 \in Nat /\ hci.n - 1 <= Len(rx_q) - 1
         /\ hci.entry = None
<1>1. rx_q \in Seq(EventRecords) /\ hci.n \in Nat /\ hci.n <= Len(rx_q) /\ hci.entry = None
  BY DEF Base, TypeOK, InHand
<1>2. Len(rx_q) \in Nat /\ Len(rx_q) > 0
  BY <1>1, QueueStep
<1>3. rx_q # << >>
  BY <1>1, <1>2, QueueStep
<1> QED
  BY <1>1, <1>2, <1>3, QueueStep

\* A packet that HCI takes out leaves the others as they were.
LEMMA TakenFacts ==
  ASSUME Base, hci.at = "up", hci.n > 0, rx_q' = Tail(rx_q)
  PROVE  /\ rx_q' \in Seq(EventRecords)
         /\ hci.n - 1 \in Nat /\ hci.n - 1 <= Len(rx_q')
         /\ Len(rx_q') = Len(rx_q) - 1
         /\ \A i \in 1..Len(rx_q') : rx_q'[i] = rx_q[i + 1] /\ i + 1 \in 1..Len(rx_q)
         /\ \A i \in 1..Len(rx_q') : rx_q'[i].type \in {"acl", "event"} =>
               rx_q'[i].opcode = None /\ rx_q'[i].credits = 0
         /\ Times(rx_q, Acls) = Times(rx_q', Acls) + One(Head(rx_q).type = "acl")
         /\ Times(rx_q', Acls) \in Nat
<1>1. /\ rx_q' \in Seq(EventRecords)
      /\ hci.n - 1 \in Nat /\ hci.n - 1 <= Len(rx_q')
      /\ Len(rx_q') = Len(rx_q) - 1 /\ Len(rx_q) \in Nat
      /\ \A i \in 1..Len(rx_q') : rx_q'[i] = rx_q[i + 1]
  BY NextPacket
<1>2. \A i \in 1..Len(rx_q') : i + 1 \in 1..Len(rx_q)
  BY <1>1
<1>3. \A i \in 1..Len(rx_q') : rx_q'[i].type \in {"acl", "event"} =>
         rx_q'[i].opcode = None /\ rx_q'[i].credits = 0
  BY <1>1, <1>2 DEF Base, InHand
<1>4. Times(rx_q, Acls) = Times(rx_q', Acls) + One(Head(rx_q) \in Acls)
  BY NextPacket, TimesTail
<1>5. Head(rx_q) \in Acls <=> Head(rx_q).type = "acl"
  BY NextPacket DEF Acls
<1>6. Times(rx_q', Acls) \in Nat
  BY <1>1, HitsFinite
<1> QED
  BY <1>1, <1>2, <1>3, <1>4, <1>5, <1>6 DEF One

LEMMA UpBeginBase ==
  ASSUME Base, UpBegin
  PROVE  Base'
<1> USE DEF sending, receiving, above
<1>1. Len(rx_q) \in Nat
  BY QueueStep DEF Base, TypeOK
<1>2. /\ hci' = [hci EXCEPT !.at = "up", !.n = Len(rx_q)]
      /\ upstream' \in BOOLEAN
      /\ UNCHANGED << sending, pending, downstream, rx_q, above, timer, allocated, ctl >>
  BY DEF UpBegin
<1>3. hci' \in HciRecords
  BY <1>1, <1>2 DEF Base, TypeOK, HciRecords
<1>4. TypeOK'
  BY <1>2, <1>3 DEF Base, TypeOK, HciRecords
<1>5. InHand'
  BY <1>1, <1>2 DEF UpBegin, Base, TypeOK, InHand
<1> QED
  BY <1>2, <1>4, <1>5, BuffersKept DEF Base

LEMMA UpEndBase ==
  ASSUME Base, UpEnd
  PROVE  Base'
<1> USE DEF sending, receiving, above
<1>1. /\ hci' = [hci EXCEPT !.at = "idle"] /\ hci.at = "up"
      /\ upstream' \in BOOLEAN
      /\ UNCHANGED << sending, pending, downstream, rx_q, above, timer, allocated, ctl >>
  BY DEF UpEnd, Base, TypeOK
<1>2. hci' \in HciRecords
  BY <1>1 DEF Base, TypeOK, HciRecords
<1>3. TypeOK'
  BY <1>1, <1>2 DEF Base, TypeOK, HciRecords
<1>4. InHand'
  BY <1>1 DEF Base, TypeOK, InHand
<1> QED
  BY <1>1, <1>3, <1>4, BuffersKept DEF Base

LEMMA ReceiveDataBase ==
  ASSUME Base, ReceiveData
  PROVE  Base'
<1> USE DEF sending, receiving, above
<1> DEFINE e == Head(rx_q)
           S == Cmds \cup {Ack}
<1>1. /\ hci.at = "up" /\ hci.n > 0 /\ rx_q' = Tail(rx_q)
      /\ hci' = [at |-> "post", n |-> hci.n - 1, packet |-> e, entry |-> None]
      /\ UNCHANGED << packet_queue, command_credits, pending, upstream, above, timer,
                      allocated, ctl >>
  BY DEF ReceiveData
<1>2. e \in EventRecords
  BY <1>1, NextPacket
<1>3. hci' \in HciRecords
  BY <1>1, <1>2, TakenFacts DEF HciRecords
<1>4. command_queue \in Seq(S)
  BY DEF Base, TypeOK
<1>5. /\ downstream' \in BOOLEAN
      /\ command_queue' = IF e.type = "acl" THEN Append(command_queue, Ack) ELSE command_queue
  BY DEF ReceiveData, Base, TypeOK
<1>6. command_queue' \in Seq(S)
  BY <1>4, <1>5, AppendProperties
<1>7. rx_q' \in Seq(EventRecords)
  BY <1>1, TakenFacts
<1>8. TypeOK'
  BY <1>1, <1>3, <1>5, <1>6, <1>7 DEF Base, TypeOK, HciRecords
<1>9. InHand'
  <2>1. hci'.entry = None /\ hci'.n = hci.n - 1
    BY <1>1
  <2>2. hci'.n <= Len(rx_q')
    BY <1>1, <2>1, TakenFacts
  <2>3. \A i \in 1..Len(rx_q') : rx_q'[i].type \in {"acl", "event"} =>
          rx_q'[i].opcode = None /\ rx_q'[i].credits = 0
    BY <1>1, TakenFacts
  <2> QED
    BY <2>1, <2>2, <2>3 DEF InHand
<1>10. BuffersBounded'
  <2>1. Times(command_queue', {Ack}) = Times(command_queue, {Ack}) + One(e.type = "acl")
    <3>1. CASE e.type = "acl"
      <4>1. Times(command_queue', {Ack}) = Times(command_queue, {Ack}) + One(Ack \in {Ack})
        BY <1>4, <1>5, <3>1, TimesAppend
      <4> QED
        BY <4>1, <3>1 DEF One
    <3>2. CASE e.type # "acl"
      BY <1>5, <3>2, BuffersNat DEF One, Base
    <3> QED
      BY <3>1, <3>2
  <2>2. Times(rx_q, Acls) = Times(rx_q', Acls) + One(e.type = "acl") /\ Times(rx_q', Acls) \in Nat
    BY <1>1, TakenFacts
  <2>3. One(e.type = "acl") \in Nat
    BY DEF One
  <2>4. UNCHANGED ctl /\ BuffersBounded
    BY <1>1 DEF Base
  <2> HIDE DEF e
  <2> QED
    BY <2>1, <2>2, <2>3, <2>4, BuffersNat, Constants DEF Base, BuffersBounded
<1> QED
  BY <1>8, <1>9, <1>10 DEF Base

\* An answer that HCI takes out and that is no ACL packet: what is left of Base.
LEMMA AnswerTaken ==
  ASSUME Base, hci.at = "up", hci.n > 0, rx_q' = Tail(rx_q),
         Head(rx_q).type \in {"complete", "status"}, UNCHANGED << command_queue, ctl >>,
         hci'.n = hci.n - 1,
         hci'.entry # None => hci'.at = "post" /\ hci'.packet.type \in {"complete", "status"}
  PROVE  InHand' /\ BuffersBounded' /\ rx_q' \in Seq(EventRecords)
<1>1. InHand'
  <2>1. hci'.n <= Len(rx_q')
    BY TakenFacts
  <2>2. \A i \in 1..Len(rx_q') : rx_q'[i].type \in {"acl", "event"} =>
          rx_q'[i].opcode = None /\ rx_q'[i].credits = 0
    BY TakenFacts
  <2> QED
    BY <2>1, <2>2 DEF InHand
<1>2. BuffersBounded'
  <2>1. Times(rx_q, Acls) = Times(rx_q', Acls) /\ Times(rx_q', Acls) \in Nat
    BY TakenFacts DEF One
  <2> QED
    BY <2>1 DEF Base, BuffersBounded
<1> QED
  BY <1>1, <1>2, TakenFacts

LEMMA ReceiveAnswerBase ==
  ASSUME Base, ReceiveAnswer
  PROVE  Base'
<1> USE DEF sending, receiving, above
<1> DEFINE e == Head(rx_q)
           i == Waiting(e.opcode)
<1>1. /\ hci.at = "up" /\ hci.n > 0 /\ rx_q' = Tail(rx_q)
      /\ e.type \in {"complete", "status"} /\ i # 0
      /\ command_credits' = e.credits /\ pending' = Remove(pending, i)
      /\ sync' = IF e.type = "complete" \/ ~e.ok
                 THEN [sync EXCEPT !.status = IF btu.at \in {"wait", "read"}
                                              THEN pending[i] ELSE None]
                 ELSE sync
      /\ hci' = [at |-> "post", n |-> hci.n - 1,
                 packet |-> [e EXCEPT !.credits = 0], entry |-> pending[i]]
      /\ UNCHANGED << command_queue, packet_queue, downstream, upstream, btuq, btu, timer,
                      allocated, ctl >>
  BY DEF ReceiveAnswer
<1>2. e \in EventRecords /\ hci.n - 1 \in Nat
  BY <1>1, NextPacket
<1>3. pending[i] \in Cmds /\ pending' \in Seq(Cmds)
  BY <1>1, WaitingFound DEF Base, TypeOK
<1> HIDE DEF i
<1>4. [e EXCEPT !.credits = 0] \in EventRecords /\ [e EXCEPT !.credits = 0].type = e.type
  BY <1>2 DEF EventRecords
<1>5. hci' \in HciRecords
  BY <1>1, <1>2, <1>3, <1>4 DEF HciRecords
<1>6. sync' \in SyncRecords
  BY <1>1, <1>3 DEF Base, TypeOK, SyncRecords
<1>7. command_credits' \in Nat
  BY <1>1, <1>2 DEF EventRecords
<1>8. InHand' /\ BuffersBounded' /\ rx_q' \in Seq(EventRecords)
  BY <1>1, <1>4, AnswerTaken
<1> HIDE DEF e
<1>9. TypeOK'
  BY <1>1, <1>3, <1>5, <1>6, <1>7, <1>8 DEF Base, TypeOK, HciRecords, SyncRecords
<1> QED
  BY <1>8, <1>9 DEF Base

\* The timer restarted and the event posted keep their types.
LEMMA InterceptedTypes ==
  ASSUME TypeOK, NEW n, Intercepted(n)
  PROVE  /\ timer' \in TimerRecords /\ downstream' \in BOOLEAN
<1>1. timer' \in TimerRecords
  BY DEF Intercepted, RestartTimer, TypeOK, TimerRecords
<1>2. downstream' \in BOOLEAN
  BY DEF Intercepted, TypeOK
<1> QED
  BY <1>1, <1>2

LEMMA ReceiveFutureAnswerBase ==
  ASSUME Base, ReceiveFutureAnswer
  PROVE  Base'
<1> USE DEF sending, receiving, above
<1> DEFINE e == Head(rx_q)
           i == Waiting(e.opcode)
<1>1. /\ hci.at = "up" /\ hci.n > 0 /\ rx_q' = Tail(rx_q)
      /\ e.type \in {"complete", "status"} /\ i # 0
      /\ command_credits' = e.credits /\ pending' = Remove(pending, i)
      /\ btu' = IF e.type = "complete" THEN [at |-> "idle", cmd |-> None] ELSE btu
      /\ allocated' = allocated \ {pending[i]}
      /\ Intercepted(e.credits)
      /\ hci' = [hci EXCEPT !.n = @ - 1]
      /\ UNCHANGED << command_queue, packet_queue, upstream, btuq, sync, ctl >>
  BY DEF ReceiveFutureAnswer
<1>2. e \in EventRecords /\ hci.n - 1 \in Nat /\ hci.entry = None
  BY <1>1, NextPacket
<1>3. pending' \in Seq(Cmds)
  BY <1>1, WaitingFound DEF Base, TypeOK
<1> HIDE DEF i
<1>4. hci' \in HciRecords /\ hci'.n = hci.n - 1 /\ hci'.entry = None
  BY <1>1, <1>2 DEF Base, TypeOK, HciRecords
<1>5. btu' \in BtuRecords /\ allocated' \subseteq Cmds
  BY <1>1 DEF Base, TypeOK, BtuRecords
<1>6. timer' \in TimerRecords /\ downstream' \in BOOLEAN
  BY <1>1, InterceptedTypes DEF Base
<1>7. command_credits' \in Nat
  BY <1>1, <1>2 DEF EventRecords
<1>8. InHand' /\ BuffersBounded' /\ rx_q' \in Seq(EventRecords)
  BY <1>1, <1>4, AnswerTaken
<1> HIDE DEF e
<1>9. TypeOK'
  <2>1. UNCHANGED << command_queue, packet_queue, upstream, btuq, sync, ctl >>
    BY <1>1
  <2> QED
    BY <2>1, <1>3, <1>4, <1>5, <1>6, <1>7, <1>8
       DEF Base, TypeOK, HciRecords, BtuRecords, TimerRecords
<1> QED
  BY <1>8, <1>9 DEF Base

LEMMA ReceiveUnmatchedBase ==
  ASSUME Base, ReceiveUnmatched
  PROVE  Base'
<1> USE DEF sending, receiving, above
<1> DEFINE e == Head(rx_q)
<1>1. /\ hci.at = "up" /\ hci.n > 0 /\ rx_q' = Tail(rx_q)
      /\ e.type \in {"complete", "status"}
      /\ command_credits' = e.credits
      /\ Intercepted(e.credits)
      /\ hci' = [hci EXCEPT !.n = @ - 1]
      /\ UNCHANGED << command_queue, packet_queue, upstream, above, allocated, ctl, pending >>
  BY DEF ReceiveUnmatched
<1>2. e \in EventRecords /\ hci.n - 1 \in Nat /\ hci.entry = None
  BY <1>1, NextPacket
<1>3. hci' \in HciRecords /\ hci'.n = hci.n - 1 /\ hci'.entry = None
  BY <1>1, <1>2 DEF Base, TypeOK, HciRecords
<1>4. timer' \in TimerRecords /\ downstream' \in BOOLEAN
  BY <1>1, InterceptedTypes DEF Base
<1>5. command_credits' \in Nat
  BY <1>1, <1>2 DEF EventRecords
<1>6. InHand' /\ BuffersBounded' /\ rx_q' \in Seq(EventRecords)
  BY <1>1, <1>3, AnswerTaken
<1> HIDE DEF e
<1>7. TypeOK'
  <2>1. UNCHANGED << command_queue, packet_queue, upstream, above, allocated, ctl, pending >>
    BY <1>1
  <2> QED
    BY <2>1, <1>3, <1>4, <1>5, <1>6 DEF Base, TypeOK, HciRecords, TimerRecords
<1> QED
  BY <1>6, <1>7 DEF Base

LEMMA PostBase ==
  ASSUME Base, Post
  PROVE  Base'
<1> USE DEF sending, receiving, above
<1>1. /\ hci.at = "post" /\ Len(btuq) < BtuQueueLen
      /\ btuq' = Append(btuq, [type |-> hci.packet.type, cmd |-> hci.entry])
      /\ hci' = [hci EXCEPT !.at = "up", !.packet = Plain("event"), !.entry = None]
      /\ UNCHANGED << pending, sending, receiving, btu, ctl >>
  BY DEF Post
<1>2. /\ [type |-> hci.packet.type, cmd |-> hci.entry] \in BtuqRecords
      /\ btuq \in Seq(BtuqRecords)
  BY DEF Base, TypeOK, EventRecords, BtuqRecords
<1>3. btuq' \in Seq(BtuqRecords) /\ Len(btuq') <= BtuQueueLen
  <2>1. btuq' \in Seq(BtuqRecords) /\ Len(btuq') = Len(btuq) + 1 /\ Len(btuq) \in Nat
    BY <1>1, <1>2, AppendProperties, LenProperties
  <2> QED
    BY <2>1, <1>1, Constants
<1>4. Plain("event") \in EventRecords
  BY DEF Plain, Event, EventRecords, EventTypes
<1>5. hci' \in HciRecords /\ hci'.n = hci.n /\ hci'.entry = None
  BY <1>1, <1>4 DEF Base, TypeOK, HciRecords
<1>6. /\ timer' \in TimerRecords /\ downstream' \in BOOLEAN
      /\ sync' \in SyncRecords /\ allocated' \subseteq Cmds
  <2>1. CASE hci.entry = None
    <3>1. UNCHANGED << sync, timer, downstream, allocated >>
      BY <2>1 DEF Post
    <3> QED
      BY <3>1 DEF Base, TypeOK, SyncRecords, TimerRecords
  <2>2. CASE hci.entry # None
    <3>1. Intercepted(command_credits)
      BY <2>2 DEF Post
    <3>2. sync' \in SyncRecords
      BY <2>2 DEF Post, Base, TypeOK, SyncRecords
    <3>3. allocated' \subseteq Cmds
      BY <2>2 DEF Post, Base, TypeOK
    <3> QED
      BY <3>1, <3>2, <3>3, InterceptedTypes DEF Base
  <2> QED
    BY <2>1, <2>2
<1>7. TypeOK'
  <2>1. UNCHANGED << pending, sending, receiving, btu, ctl >>
    BY <1>1
  <2> QED
    BY <2>1, <1>3, <1>5, <1>6 DEF Base, TypeOK, HciRecords, BtuqRecords, SyncRecords, TimerRecords
<1>8. InHand'
  BY <1>1, <1>5 DEF Base, InHand
<1> QED
  BY <1>1, <1>7, <1>8, BuffersKept DEF Base

LEMMA UpBase ==
  ASSUME Base, HciUp
  PROVE  Base'
BY UpBeginBase, UpEndBase, ReceiveDataBase, ReceiveAnswerBase, ReceiveFutureAnswerBase,
   ReceiveUnmatchedBase, PostBase DEF HciUp

\* A packet that the controller delivers, or that is dropped.
LEMMA DeliverBase ==
  ASSUME Base, NEW e \in EventRecords, Deliver(e)
  PROVE  /\ rx_q' \in Seq(EventRecords) /\ upstream' \in BOOLEAN
         /\ Len(rx_q') >= Len(rx_q)
         /\ \A i \in 1..Len(rx_q') : \/ i \in 1..Len(rx_q) /\ rx_q'[i] = rx_q[i]
                                     \/ i = Len(rx_q) + 1 /\ rx_q'[i] = e
         /\ Times(rx_q', Acls) \in Nat
         /\ Times(rx_q', Acls) <= Times(rx_q, Acls) + One(e.type = "acl")
<1> USE DEF receiving
<1>1. rx_q \in Seq(EventRecords) /\ Len(rx_q) \in Nat
      /\ upstream \in BOOLEAN /\ Times(rx_q, Acls) \in Nat
  BY BuffersNat, LenProperties DEF Base, TypeOK
<1>2. One(e.type = "acl") \in Nat /\ One(e \in Acls) = One(e.type = "acl")
  BY DEF One, Acls
<1> DEFINE extra == One(e.type = "acl")
<1>3. CASE rx_q' = Append(rx_q, e) /\ upstream' = TRUE
  <2>1. /\ rx_q' \in Seq(EventRecords) /\ Len(rx_q') = Len(rx_q) + 1
        /\ \A i \in 1..Len(rx_q) : rx_q'[i] = rx_q[i]
        /\ rx_q'[Len(rx_q) + 1] = e
    BY <1>1, <1>3, AppendProperties
  <2>2. Times(rx_q', Acls) = Times(rx_q, Acls) + One(e \in Acls)
    BY <1>1, <1>3, TimesAppend
  <2>3. Times(rx_q', Acls) \in Nat
    BY <2>1, HitsFinite
  <2>4. \A i \in 1..Len(rx_q') : \/ i \in 1..Len(rx_q) /\ rx_q'[i] = rx_q[i]
                                 \/ i = Len(rx_q) + 1 /\ rx_q'[i] = e
    <3> TAKE i \in 1..Len(rx_q')
    <3>1. i \in 1..Len(rx_q) \/ i = Len(rx_q) + 1
      BY <2>1, <1>1
    <3> QED
      BY <2>1, <3>1
  <2>5. Len(rx_q') >= Len(rx_q)
    BY <2>1, <1>1
  <2>6. Times(rx_q', Acls) = Times(rx_q, Acls) + extra /\ extra \in Nat
    BY <2>2, <1>2
  <2> HIDE DEF extra
  <2>7. Times(rx_q', Acls) <= Times(rx_q, Acls) + extra
    BY <2>3, <2>6, <1>1
  <2> QED
    BY <1>3, <2>1, <2>3, <2>4, <2>5, <2>7 DEF extra
<1>4. CASE UNCHANGED receiving
  <2>1. rx_q' = rx_q /\ upstream' = upstream
    BY <1>4
  <2>2. Times(rx_q', Acls) = Times(rx_q, Acls) /\ extra \in Nat
    BY <2>1, <1>2
  <2> HIDE DEF extra
  <2>3. Times(rx_q', Acls) <= Times(rx_q, Acls) + extra /\ Times(rx_q', Acls) \in Nat
    BY <2>2, <1>1
  <2>4. Len(rx_q') >= Len(rx_q) /\ \A i \in 1..Len(rx_q') : i \in 1..Len(rx_q) /\ rx_q'[i] = rx_q[i]
    BY <2>1, <1>1
  <2>5. rx_q' \in Seq(EventRecords) /\ upstream' \in BOOLEAN
    BY <2>1, <1>1
  <2> QED
    BY <2>3, <2>4, <2>5 DEF extra
<1> QED
  BY <1>3, <1>4 DEF Deliver

\* The controller: what it delivers is an event, and its own state has its type.
LEMMA ControllerBase ==
  ASSUME Base, Controller
  PROVE  Base'
<1> USE DEF sending, above
<1>1. ctl \in CtlRecords /\ rx_q \in Seq(EventRecords) /\ Len(rx_q) \in Nat
  BY LenProperties DEF Base, TypeOK, CtlRecords
<1>2. /\ ctl.held \in [Opcodes -> Nat] /\ ctl.buffers \in Nat
      /\ Room(Held) \in Nat /\ Room(Held - 1) \in Nat
  <2>1. /\ ctl.slots \in SlotChoices /\ ctl.held \in [Opcodes -> Nat]
        /\ ctl.buffers \in 0..HostBuffers
    BY <1>1 DEF CtlRecords
  <2>3. ctl.buffers \in Nat
    BY <2>1, Constants
  <2>4. Room(Held) \in Nat /\ Room(Held - 1) \in Nat
    BY <2>1, RoomsNat
  <2> QED
    BY <2>1, <2>3, <2>4
<1>3. ASSUME NEW e \in EventRecords, Deliver(e),
             UNCHANGED << sending, pending, downstream, hci, above, timer, allocated >>,
             ctl' \in CtlRecords,
             ctl'.buffers + One(e.type = "acl") = ctl.buffers,
             e.type \in {"acl", "event"} => e.opcode = None /\ e.credits = 0
      PROVE  Base'
  <2>1. TypeOK'
    BY <1>3, DeliverBase DEF Base, TypeOK, CtlRecords
  <2>2. InHand'
    <3>1. hci'.at \in {"up", "post"} => hci'.n <= Len(rx_q')
      <4>1. Len(rx_q') >= Len(rx_q) /\ Len(rx_q') \in Nat
        BY <1>3, DeliverBase, LenProperties
      <4> QED
        BY <4>1, <1>1, <1>3 DEF Base, InHand, TypeOK
    <3>2. \A i \in 1..Len(rx_q') : rx_q'[i].type \in {"acl", "event"} =>
            rx_q'[i].opcode = None /\ rx_q'[i].credits = 0
      BY <1>3, DeliverBase DEF Base, InHand
    <3> QED
      BY <3>1, <3>2, <1>3 DEF Base, InHand
  <2>3. BuffersBounded'
    <3> DEFINE extra == One(e.type = "acl")
    <3>1. /\ Times(rx_q', Acls) <= Times(rx_q, Acls) + extra
          /\ Times(rx_q', Acls) \in Nat /\ extra \in Nat
          /\ ctl'.buffers + extra = ctl.buffers
      BY <1>3, DeliverBase DEF One
    <3>2. ctl'.buffers \in Nat
      BY <1>3 DEF CtlRecords
    <3> HIDE DEF extra
    <3> QED
      BY <3>1, <3>2, <1>3, BuffersNat, Constants DEF Base, BuffersBounded
  <2> QED
    BY <2>1, <2>2, <2>3 DEF Base
<1>4. ASSUME NEW o \in Opcodes, NEW type \in {"complete", "status"}, NEW ok \in BOOLEAN,
             Answer(o, type, ok)
      PROVE  Base'
  <2>1. PICK paused \in BOOLEAN :
           /\ ctl' = [ctl EXCEPT !.held[o] = @ - 1, !.paused = paused]
           /\ Deliver(Event(type, o, ok, IF paused THEN 0 ELSE Room(Held - 1)))
    BY <1>4 DEF Answer
  <2> DEFINE e == Event(type, o, ok, IF paused THEN 0 ELSE Room(Held - 1))
  <2>3. e \in EventRecords /\ e.type \notin {"acl", "event"}
    BY <1>2 DEF Event, EventRecords, EventTypes
  <2>4. ctl.held[o] - 1 \in Nat
    BY <1>2, <1>4 DEF Answer
  <2>5. [ctl.held EXCEPT ![o] = @ - 1] \in [Opcodes -> Nat]
    BY <2>4, <1>2
  <2>6. ctl' = [ctl EXCEPT !.held = [ctl.held EXCEPT ![o] = @ - 1], !.paused = paused]
    BY <2>1, <1>1 DEF CtlRecords
  <2>7. ctl' \in CtlRecords /\ ctl'.buffers = ctl.buffers
    BY <2>5, <2>6, <1>1 DEF CtlRecords
  <2>8. ctl'.buffers + One(e.type = "acl") = ctl.buffers
    BY <2>3, <2>7, <1>2 DEF One
  <2>9. UNCHANGED << sending, pending, downstream, hci, above, timer, allocated >> /\ Deliver(e)
    BY <1>4, <2>1 DEF Answer
  <2> HIDE DEF e
  <2> QED
    BY <1>3, <2>3, <2>7, <2>8, <2>9
<1>5. CASE AnswerNone
  <2> DEFINE e == Event("complete", None, TRUE, Room(Held))
  <2>2. e \in EventRecords /\ e.type \notin {"acl", "event"}
    BY <1>2 DEF Event, EventRecords, EventTypes
  <2>3. ctl' \in CtlRecords /\ ctl'.buffers = ctl.buffers
    BY <1>1, <1>5 DEF AnswerNone, CtlRecords
  <2> HIDE DEF e
  <2>4. ctl'.buffers + One(e.type = "acl") = ctl.buffers
    <3>1. One(e.type = "acl") = 0
      BY <2>2 DEF One
    <3> QED
      BY <3>1, <2>3, <1>2
  <2> USE DEF e
  <2>5. UNCHANGED << sending, pending, downstream, hci, above, timer, allocated >> /\ Deliver(e)
    BY <1>5 DEF AnswerNone
  <2> HIDE DEF e
  <2> QED
    BY <1>3, <2>2, <2>3, <2>4, <2>5
<1>6. CASE SendAcl
  <2> DEFINE e == Plain("acl")
  <2>1. e \in EventRecords /\ e.type = "acl" /\ e.opcode = None /\ e.credits = 0
    BY DEF Plain, Event, EventRecords, EventTypes
  <2>2. ctl' \in CtlRecords /\ ctl'.buffers = ctl.buffers - 1
    <3>1. ctl' = [ctl EXCEPT !.buffers = ctl.buffers - 1]
      BY <1>6 DEF SendAcl
    <3>2. ctl.buffers - 1 \in 0..HostBuffers
      <4>1. ctl.buffers > 0 /\ ctl.buffers \in 0..HostBuffers
        BY <1>1, <1>6 DEF SendAcl, CtlRecords
      <4> QED
        BY <4>1, Constants
    <3> QED
      BY <3>1, <3>2, <1>1 DEF CtlRecords
  <2>3. ctl'.buffers + One(e.type = "acl") = ctl.buffers
    BY <2>1, <2>2, <1>2 DEF One
  <2>4. UNCHANGED << sending, pending, downstream, hci, above, timer, allocated >> /\ Deliver(e)
    BY <1>6 DEF SendAcl
  <2> HIDE DEF e
  <2> QED
    BY <1>3, <2>1, <2>2, <2>3, <2>4
<1>7. CASE SendEvent
  <2> DEFINE e == Plain("event")
  <2>1. e \in EventRecords /\ e.type = "event" /\ e.opcode = None /\ e.credits = 0
    BY DEF Plain, Event, EventRecords, EventTypes
  <2>2. ctl' = ctl /\ ctl.buffers + One(e.type = "acl") = ctl.buffers
    BY <1>2, <1>7, <2>1 DEF SendEvent, One
  <2>3. UNCHANGED << sending, pending, downstream, hci, above, timer, allocated >> /\ Deliver(e)
    BY <1>7 DEF SendEvent
  <2> HIDE DEF e
  <2> QED
    BY <1>1, <1>3, <2>1, <2>2, <2>3
<1>8. CASE Available
  <2>1. /\ UNCHANGED << sending, pending, receiving, hci, above, timer, allocated >>
        /\ ctl' = [ctl EXCEPT !.ready = TRUE] /\ downstream' = TRUE
    BY <1>8 DEF Available
  <2>2. ctl' \in CtlRecords /\ ctl'.buffers = ctl.buffers
    BY <1>1, <2>1 DEF CtlRecords
  <2>3. TypeOK'
    <3>1. downstream' \in BOOLEAN
      BY <2>1
    <3>2. UNCHANGED << sending, pending, receiving, hci, above, timer, allocated >>
      BY <2>1
    <3> QED
      BY <3>1, <3>2, <2>2 DEF Base, TypeOK, CtlRecords, receiving
  <2>4. BuffersBounded'
    BY <2>1, <2>2 DEF Base, BuffersBounded, receiving
  <2>5. InHand'
    BY <2>1, InHandKept DEF Base, receiving
  <2> QED
    BY <2>3, <2>4, <2>5 DEF Base
<1> QED
  BY <1>4, <1>5, <1>6, <1>7, <1>8 DEF Controller

LEMMA TimerBase ==
  ASSUME Base, Timer
  PROVE  Base'
<1> USE DEF sending, receiving, above
<1>1. UNCHANGED << sending, pending, downstream, receiving, hci, above, allocated, ctl >>
  BY DEF Timer, AlarmFires, TimedOut
<1>2. timer' \in TimerRecords
  <2>1. timer \in TimerRecords /\ timer.msgs \in 0..MaxAlarms
    BY DEF Base, TypeOK, TimerRecords
  <2>2. CASE AlarmFires
    <3>1. timer.msgs < MaxAlarms /\ timer' = [timer EXCEPT !.armed = FALSE, !.msgs = timer.msgs + 1]
      BY <2>2 DEF AlarmFires
    <3>2. timer.msgs + 1 \in 0..MaxAlarms
      BY <2>1, <3>1, Constants
    <3> QED
      BY <2>1, <3>1, <3>2 DEF TimerRecords
  <2>3. CASE TimedOut
    <3>1. timer.msgs > 0 /\ timer' = [timer EXCEPT !.msgs = timer.msgs - 1]
      BY <2>3 DEF TimedOut
    <3>2. timer.msgs - 1 \in 0..MaxAlarms
      BY <2>1, <3>1, Constants
    <3> QED
      BY <2>1, <3>1, <3>2 DEF TimerRecords
  <2> QED
    BY <2>2, <2>3 DEF Timer
<1>3. TypeOK'
  BY <1>1, <1>2 DEF Base, TypeOK, TimerRecords
<1> QED
  BY <1>1, <1>3, InHandKept, BuffersKept DEF Base

LEMMA NextBase == Base /\ [Next]_vars => Base'
<1> SUFFICES ASSUME Base, [Next]_vars PROVE Base'
  OBVIOUS
<1>1. CASE Btu
  BY <1>1, BtuBase
<1>2. CASE Hci
  BY <1>2, DownBase, UpBase DEF Hci
<1>3. CASE Controller
  BY <1>3, ControllerBase
<1>4. CASE Timer
  BY <1>4, TimerBase
<1>5. CASE UNCHANGED vars
  <2>1. UNCHANGED << command_queue, packet_queue, command_credits, pending, downstream,
                     upstream, rx_q, hci, btuq, btu, sync, timer, allocated, ctl >>
    BY <1>5 DEF vars
  <2>2. TypeOK'
    BY <2>1 DEF Base, TypeOK
  <2> QED
    BY <2>1, <2>2, InHandKept, BuffersKept DEF Base
<1> QED
  BY <1>1, <1>2, <1>3, <1>4, <1>5 DEF Next

LEMMA BaseHolds == Spec => []Base
BY InitBase, NextBase, PTL DEF Spec

\* The state has its types for any commands, any controller and any bounds: no
\* credit, count of packets or buffer goes below zero or above its limit.
THEOREM TypeCorrect == Spec => []TypeOK
<1>1. Base => TypeOK
  BY DEF Base
<1> QED
  BY <1>1, BaseHolds, PTL

-----------------------------------------------------------------------------
(* The command timer *)

\* An alarm that may fire is known to be set, also while HCI is in a callback:
\* what restarts the timer then relies on it.
TimerInv == TimerCoversPending /\ (timer.armed => timer.set)

LEMMA TimerKept == TimerInv /\ UNCHANGED << timer, pending, hci >> => TimerInv'
BY DEF TimerInv, TimerCoversPending

\* restart_command_waiting_response_timer makes the timer agree with the list.
LEMMA RestartCovers ==
  ASSUME TypeOK, TimerInv, RestartTimer(pending')
  PROVE  TimerInv'
<1>1. timer' = [timer EXCEPT !.set = pending' # << >>,
                             !.armed = IF pending' # << >> THEN TRUE ELSE @ /\ ~timer.set]
  BY DEF RestartTimer
<1>2. timer \in TimerRecords
  BY DEF TypeOK, TimerRecords
<1>3. timer'.set = (pending' # << >>)
  BY <1>1, <1>2 DEF TimerRecords
<1>4. timer'.armed = IF pending' # << >> THEN TRUE ELSE timer.armed /\ ~timer.set
  BY <1>1, <1>2 DEF TimerRecords
<1>5. timer.armed => timer.set
  BY DEF TimerInv
<1>6. timer'.armed => timer'.set
  BY <1>3, <1>4, <1>5
<1> QED
  BY <1>3, <1>6 DEF TimerInv, TimerCoversPending

LEMMA TimerNext == Base /\ TimerInv /\ [Next]_vars => TimerInv'
<1> SUFFICES ASSUME Base, TimerInv, [Next]_vars PROVE TimerInv'
  OBVIOUS
<1> USE DEF sending, receiving, above
<1>1. TypeOK
  BY DEF Base
<1>2. CASE Btu
  BY <1>2, TimerKept DEF Btu, Send, SendPacket, SyncTake, SyncRead, Handle
<1>3. CASE HciDown
  <2>1. CASE SendCommand
    BY <2>1, <1>1, RestartCovers DEF SendCommand
  <2>2. CASE DownBegin
    <3>1. UNCHANGED << timer, pending >> /\ hci'.entry = hci.entry
      BY <2>2, <1>1 DEF DownBegin, TypeOK
    <3> QED
      BY <3>1 DEF TimerInv, TimerCoversPending
  <2>3. CASE DownEnd
    <3>1. UNCHANGED << timer, pending >> /\ hci'.entry = hci.entry
      BY <2>3, <1>1 DEF DownEnd, TypeOK
    <3> QED
      BY <3>1 DEF TimerInv, TimerCoversPending
  <2>4. CASE SendAck \/ SendData
    BY <2>4, TimerKept DEF SendAck, SendData
  <2> QED
    BY <1>3, <2>1, <2>2, <2>3, <2>4 DEF HciDown
<1>4. CASE HciUp
  <2>1. CASE UpBegin \/ UpEnd
    <3>1. UNCHANGED << timer, pending >> /\ hci'.entry = hci.entry
      BY <2>1, <1>1 DEF UpBegin, UpEnd, TypeOK
    <3> QED
      BY <3>1 DEF TimerInv, TimerCoversPending
  <2>2. CASE ReceiveData
    <3>1. UNCHANGED << timer, pending >> /\ hci'.entry = None /\ hci.entry = None
      BY <2>2, NextPacket DEF ReceiveData
    <3> QED
      BY <3>1 DEF TimerInv, TimerCoversPending
  <2>3. CASE ReceiveAnswer
    <3> DEFINE i == Waiting(Head(rx_q).opcode)
    <3>1. hci'.entry = pending[i] /\ i # 0 /\ UNCHANGED timer
      BY <2>3 DEF ReceiveAnswer
    <3>2. hci'.entry # None
      BY <3>1, <1>1, WaitingFound, Constants DEF TypeOK
    <3> QED
      BY <3>1, <3>2 DEF TimerInv, TimerCoversPending
  <2>4. CASE ReceiveFutureAnswer \/ ReceiveUnmatched
    <3>1. RestartTimer(pending')
      BY <2>4 DEF ReceiveFutureAnswer, ReceiveUnmatched, Intercepted
    <3> QED
      BY <3>1, <1>1, RestartCovers
  <2>5. CASE Post
    <3>1. CASE hci.entry = None
      <4>1. UNCHANGED << timer, pending >>
        BY <2>5, <3>1 DEF Post
      <4> QED
        BY <4>1, <3>1 DEF TimerInv, TimerCoversPending
    <3>2. CASE hci.entry # None
      <4>1. RestartTimer(pending')
        BY <2>5, <3>2 DEF Post, Intercepted
      <4> QED
        BY <4>1, <1>1, RestartCovers
    <3> QED
      BY <3>1, <3>2
  <2> QED
    BY <1>4, <2>1, <2>2, <2>3, <2>4, <2>5 DEF HciUp
<1>5. CASE Controller
  BY <1>5, TimerKept DEF Controller, Answer, AnswerNone, SendAcl, SendEvent, Available
<1>6. CASE AlarmFires
  <2>1. ~timer'.armed /\ timer'.set = timer.set /\ UNCHANGED << pending, hci >>
    BY <1>6, <1>1 DEF AlarmFires, TypeOK
  <2> QED
    BY <2>1 DEF TimerInv, TimerCoversPending
<1>7. CASE TimedOut
  <2>1. timer'.armed = timer.armed /\ timer'.set = timer.set /\ UNCHANGED << pending, hci >>
    BY <1>7, <1>1 DEF TimedOut, TypeOK
  <2> QED
    BY <2>1 DEF TimerInv, TimerCoversPending
<1>8. CASE UNCHANGED vars
  BY <1>8, TimerKept DEF vars
<1> QED
  BY <1>2, <1>3, <1>4, <1>5, <1>6, <1>7, <1>8 DEF Next, Hci, Timer

\* While commands wait for an answer the alarm is set, and it is armed only then,
\* whatever answers come and whatever is dropped (hci_layer.c:392-404).
THEOREM TimerCovers == Spec => []TimerCoversPending
<1>1. Init => TimerInv
  <2> SUFFICES ASSUME Init PROVE TimerInv
    OBVIOUS
  <2>1. timer.set = FALSE /\ timer.armed = FALSE /\ pending = << >>
    BY DEF Init
  <2> QED
    BY <2>1 DEF TimerInv, TimerCoversPending
<1>2. TimerInv => TimerCoversPending
  BY DEF TimerInv
<1> QED
  BY <1>1, <1>2, TimerNext, BaseHolds, PTL DEF Spec

-----------------------------------------------------------------------------
(* Every command has one holder *)

\* How often a command is with each of those who may hold it, as Holders counts.
InQueue(c) == Times(command_queue, {c})
InPending(c) == Times(pending, {c})
InHands(c) == One(hci.entry = c)
InStatus(c) == Times(btuq, StatusOf(c))

CountedHolders ==
    \A c \in Cmds :
        /\ Holders(c) = InQueue(c) + InPending(c) + InHands(c) + InStatus(c)
        /\ InQueue(c) \in Nat /\ InPending(c) \in Nat /\ InHands(c) \in Nat /\ InStatus(c) \in Nat

LEMMA HoldersCounted == TypeOK => CountedHolders
<1> SUFFICES ASSUME TypeOK, NEW c \in Cmds
             PROVE  /\ Holders(c) = InQueue(c) + InPending(c) + InHands(c) + InStatus(c)
                    /\ InQueue(c) \in Nat /\ InPending(c) \in Nat
                    /\ InHands(c) \in Nat /\ InStatus(c) \in Nat
  BY DEF CountedHolders
<1>1. \A s : {i \in DOMAIN s : s[i] = c} = Hits(s, {c})
  BY DEF Hits
<1>2. btuq \in Seq(BtuqRecords)
  BY DEF TypeOK, BtuqRecords
<1>3. {i \in DOMAIN btuq : btuq[i].type = "status" /\ btuq[i].cmd = c} = Hits(btuq, StatusOf(c))
  <2>1. \A i \in DOMAIN btuq : btuq[i] \in BtuqRecords
    BY <1>2, QueueStep
  <2>2. \A i \in DOMAIN btuq :
          (btuq[i].type = "status" /\ btuq[i].cmd = c) <=> btuq[i] \in StatusOf(c)
    BY <2>1 DEF BtuqRecords, StatusOf
  <2> QED
    BY <2>2 DEF Hits
<1>4. InQueue(c) \in Nat /\ InPending(c) \in Nat /\ InStatus(c) \in Nat
  BY <1>2, HitsFinite DEF TypeOK, InQueue, InPending, InStatus
<1>5. InHands(c) \in Nat /\ InHands(c) = IF hci.entry = c THEN 1 ELSE 0
  BY DEF InHands, One
<1>6. Holders(c) = InQueue(c) + InPending(c) + InHands(c) + InStatus(c)
  BY <1>1, <1>3, <1>5 DEF Holders, InQueue, InPending, InStatus, Times
<1> QED
  BY <1>4, <1>5, <1>6


LEMMA HoldersCountedNext == TypeOK' => CountedHolders'
BY HoldersCounted, PTL

\* The four counts of a command, and whether it is allocated, before and after a
\* step: this is all that the invariant depends on.
LEMMA HolderStep ==
  ASSUME TypeOK, TypeOK', EveryCommandHasOneHolder, NEW c \in Cmds
  PROVE  /\ InQueue(c) \in Nat /\ InPending(c) \in Nat /\ InHands(c) \in Nat /\ InStatus(c) \in Nat
         /\ InQueue(c)' \in Nat /\ InPending(c)' \in Nat /\ InHands(c)' \in Nat /\ InStatus(c)' \in Nat
         /\ InQueue(c) + InPending(c) + InHands(c) + InStatus(c) = IF c \in allocated THEN 1 ELSE 0
         /\ Holders(c)' = InQueue(c)' + InPending(c)' + InHands(c)' + InStatus(c)'
BY HoldersCounted, HoldersCountedNext DEF CountedHolders, EveryCommandHasOneHolder

LEMMA HolderKept ==
  ASSUME TypeOK, TypeOK', EveryCommandHasOneHolder,
         UNCHANGED << command_queue, pending, btuq, allocated >>, hci'.entry = hci.entry
  PROVE  EveryCommandHasOneHolder'
<1> SUFFICES ASSUME NEW c \in Cmds
             PROVE  Holders(c)' = IF c \in allocated' THEN 1 ELSE 0
  BY DEF EveryCommandHasOneHolder
<1>1. /\ InQueue(c)' = InQueue(c) /\ InPending(c)' = InPending(c)
      /\ InHands(c)' = InHands(c) /\ InStatus(c)' = InStatus(c)
  BY DEF InQueue, InPending, InHands, InStatus
<1> QED
  BY <1>1, HolderStep

LEMMA SendHolder ==
  ASSUME TypeOK, TypeOK', EveryCommandHasOneHolder, NEW d \in Cmds, Send(d)
  PROVE  EveryCommandHasOneHolder'
<1> SUFFICES ASSUME NEW c \in Cmds
             PROVE  Holders(c)' = IF c \in allocated' THEN 1 ELSE 0
  BY DEF EveryCommandHasOneHolder
<1>1. /\ command_queue' = Append(command_queue, d) /\ command_queue \in Seq(Cmds \cup {Ack})
      /\ allocated' = allocated \cup {d} /\ d \notin allocated
      /\ UNCHANGED << pending, hci, btuq >>
  BY DEF Send, TypeOK
<1>2. InQueue(c)' = InQueue(c) + One(d \in {c})
  BY <1>1, TimesAppend DEF InQueue
<1>3. InPending(c)' = InPending(c) /\ InHands(c)' = InHands(c) /\ InStatus(c)' = InStatus(c)
  BY <1>1 DEF InPending, InHands, InStatus
<1>4. CASE d = c
  BY <1>1, <1>2, <1>3, <1>4, HolderStep DEF One
<1>5. CASE d # c
  <2>1. InQueue(c)' = InQueue(c)
    BY <1>2, <1>5, HolderStep DEF One
  <2>2. c \in allocated' <=> c \in allocated
    BY <1>1, <1>5
  <2> QED
    BY <1>3, <2>1, <2>2, HolderStep
<1> QED
  BY <1>4, <1>5

LEMMA HandleHolder ==
  ASSUME TypeOK, TypeOK', EveryCommandHasOneHolder, Handle
  PROVE  EveryCommandHasOneHolder'
<1> USE DEF sending, receiving
<1> SUFFICES ASSUME NEW c \in Cmds
             PROVE  Holders(c)' = IF c \in allocated' THEN 1 ELSE 0
  BY DEF EveryCommandHasOneHolder
<1> DEFINE h == Head(btuq)
<1>1. /\ btuq # << >> /\ btuq' = Tail(btuq) /\ btuq \in Seq(BtuqRecords)
      /\ allocated' = IF h.type = "status" THEN allocated \ {h.cmd} ELSE allocated
      /\ UNCHANGED << command_queue, pending, hci >>
  BY DEF Handle, TypeOK, BtuqRecords
<1>2. h \in BtuqRecords
  BY <1>1, QueueStep
<1>3. InStatus(c) = InStatus(c)' + One(h \in StatusOf(c))
  BY <1>1, TimesTail DEF InStatus, StatusOf
<1>4. InQueue(c)' = InQueue(c) /\ InPending(c)' = InPending(c) /\ InHands(c)' = InHands(c)
  BY <1>1 DEF InQueue, InPending, InHands
<1>5. h \in StatusOf(c) <=> h.type = "status" /\ h.cmd = c
  BY <1>2 DEF BtuqRecords, StatusOf
<1> HIDE DEF h
<1>6. CASE h \in StatusOf(c)
  <2>1. c \notin allocated'
    BY <1>1, <1>5, <1>6
  <2>2. InStatus(c) = InStatus(c)' + 1
    BY <1>3, <1>6 DEF One
  <2> QED
    BY <1>4, <2>1, <2>2, HolderStep
<1>7. CASE h \notin StatusOf(c)
  <2>1. c \in allocated' <=> c \in allocated
    BY <1>1, <1>5, <1>7
  <2>2. InStatus(c) = InStatus(c)'
    BY <1>3, <1>7, HolderStep DEF One
  <2> QED
    BY <1>4, <2>1, <2>2, HolderStep
<1> QED
  BY <1>6, <1>7

LEMMA SendCommandHolder ==
  ASSUME TypeOK, TypeOK', EveryCommandHasOneHolder, SendCommand
  PROVE  EveryCommandHasOneHolder'
<1> SUFFICES ASSUME NEW c \in Cmds
             PROVE  Holders(c)' = IF c \in allocated' THEN 1 ELSE 0
  BY DEF EveryCommandHasOneHolder
<1> DEFINE d == Head(command_queue)
<1>1. /\ command_queue # << >> /\ d # Ack
      /\ command_queue' = Tail(command_queue) /\ command_queue \in Seq(Cmds \cup {Ack})
      /\ pending' = Append(pending, d) /\ pending \in Seq(Cmds)
      /\ UNCHANGED << allocated, hci, btuq >>
  BY DEF SendCommand, CommandReady, TypeOK, above
<1>2. d \in Cmds
  BY <1>1, QueueStep
<1>3. InQueue(c) = InQueue(c)' + One(d \in {c})
  BY <1>1, TimesTail DEF InQueue
<1>4. InPending(c)' = InPending(c) + One(d \in {c})
  BY <1>1, <1>2, TimesAppend DEF InPending
<1>5. InHands(c)' = InHands(c) /\ InStatus(c)' = InStatus(c)
  BY <1>1 DEF InHands, InStatus
<1> DEFINE x == One(d \in {c})
<1>6. x \in Nat
  BY DEF One
<1> HIDE DEF d, x
<1>7. InQueue(c) = InQueue(c)' + x /\ InPending(c)' = InPending(c) + x
  BY <1>3, <1>4 DEF x
<1>8. Holders(c)' = InQueue(c) + InPending(c) + InHands(c) + InStatus(c)
  BY <1>5, <1>6, <1>7, HolderStep
<1> QED
  BY <1>1, <1>8, HolderStep

\* An acknowledgement is nobody's command.
LEMMA AckHolder ==
  ASSUME TypeOK, TypeOK', EveryCommandHasOneHolder, SendAck \/ ReceiveData,
         hci'.entry = hci.entry
  PROVE  EveryCommandHasOneHolder'
<1> SUFFICES ASSUME NEW c \in Cmds
             PROVE  Holders(c)' = IF c \in allocated' THEN 1 ELSE 0
  BY DEF EveryCommandHasOneHolder
<1>1. UNCHANGED << pending, btuq, allocated >> /\ command_queue \in Seq(Cmds \cup {Ack})
  BY DEF SendAck, ReceiveData, above, TypeOK
<1>2. Ack \notin {c} /\ InQueue(c) \in Nat /\ InQueue(c)' \in Nat
  BY HolderStep, Constants
<1>3. InQueue(c)' = InQueue(c)
  <2>1. CASE SendAck
    <3>1. /\ command_queue # << >> /\ Head(command_queue) = Ack
          /\ command_queue' = Tail(command_queue)
      BY <2>1 DEF SendAck, CommandReady
    <3>2. InQueue(c) = InQueue(c)' + One(Ack \in {c})
      BY <1>1, <3>1, TimesTail DEF InQueue
    <3> QED
      BY <3>2, <1>2 DEF One
  <2>2. CASE ReceiveData
    <3>1. command_queue' = Append(command_queue, Ack) \/ command_queue' = command_queue
      BY <2>2 DEF ReceiveData
    <3>2. CASE command_queue' = Append(command_queue, Ack)
      <4>1. InQueue(c)' = InQueue(c) + One(Ack \in {c})
        BY <1>1, <3>2, TimesAppend DEF InQueue
      <4> QED
        BY <4>1, <1>2 DEF One
    <3>3. CASE command_queue' = command_queue
      BY <3>3 DEF InQueue
    <3> QED
      BY <3>1, <3>2, <3>3
  <2> QED
    BY <2>1, <2>2
<1>4. InPending(c)' = InPending(c) /\ InHands(c)' = InHands(c) /\ InStatus(c)' = InStatus(c)
  BY <1>1 DEF InPending, InHands, InStatus
<1> QED
  BY <1>1, <1>3, <1>4, HolderStep

\* The entry taken out of the list is counted there once less.
LEMMA PendingTaken ==
  ASSUME TypeOK, NEW o, Waiting(o) # 0, pending' = Remove(pending, Waiting(o)), NEW P
  PROVE  Times(pending, P) = Times(pending', P) + One(pending[Waiting(o)] \in P)
<1>1. pending \in Seq(Cmds) /\ Waiting(o) \in 1..Len(pending)
  BY WaitingFound DEF TypeOK
<1> QED
  BY <1>1, TimesWithout DEF Remove, Without

LEMMA ReceiveAnswerHolder ==
  ASSUME Base, TypeOK', EveryCommandHasOneHolder, ReceiveAnswer
  PROVE  EveryCommandHasOneHolder'
<1> SUFFICES ASSUME NEW c \in Cmds
             PROVE  Holders(c)' = IF c \in allocated' THEN 1 ELSE 0
  BY DEF EveryCommandHasOneHolder
<1> DEFINE o == Head(rx_q).opcode
           d == pending[Waiting(o)]
<1>1. /\ Waiting(o) # 0 /\ pending' = Remove(pending, Waiting(o))
      /\ hci'.entry = d /\ hci.at = "up" /\ hci.n > 0
      /\ UNCHANGED << command_queue, btuq, allocated >>
  BY DEF ReceiveAnswer
<1>2. TypeOK /\ hci.entry = None /\ None # c
  BY <1>1, NextPacket, Constants DEF Base
<1>3. InPending(c) = InPending(c)' + One(d \in {c})
  BY <1>1, <1>2, PendingTaken DEF InPending
<1>4. InQueue(c)' = InQueue(c) /\ InStatus(c)' = InStatus(c)
  BY <1>1 DEF InQueue, InStatus
<1>5. InHands(c) = 0 /\ InHands(c)' = One(d = c)
  BY <1>1, <1>2 DEF InHands, One
<1>6. One(d \in {c}) = One(d = c) /\ One(d = c) \in Nat
  BY DEF One
<1> HIDE DEF d
<1> QED
  BY <1>1, <1>2, <1>3, <1>4, <1>5, <1>6, HolderStep

LEMMA ReceiveFutureAnswerHolder ==
  ASSUME Base, TypeOK', EveryCommandHasOneHolder, ReceiveFutureAnswer
  PROVE  EveryCommandHasOneHolder'
<1> SUFFICES ASSUME NEW c \in Cmds
             PROVE  Holders(c)' = IF c \in allocated' THEN 1 ELSE 0
  BY DEF EveryCommandHasOneHolder
<1> DEFINE o == Head(rx_q).opcode
           d == pending[Waiting(o)]
<1>1. /\ Waiting(o) # 0 /\ pending' = Remove(pending, Waiting(o))
      /\ hci' = [hci EXCEPT !.n = @ - 1]
      /\ allocated' = allocated \ {d}
      /\ UNCHANGED << command_queue, btuq >>
  BY DEF ReceiveFutureAnswer
<1>2. TypeOK
  BY DEF Base
<1>3. InPending(c) = InPending(c)' + One(d \in {c})
  BY <1>1, <1>2, PendingTaken DEF InPending
<1>4. InQueue(c)' = InQueue(c) /\ InStatus(c)' = InStatus(c) /\ InHands(c)' = InHands(c)
  BY <1>1, <1>2 DEF InQueue, InStatus, InHands, TypeOK
<1> HIDE DEF d
<1>5. CASE d = c
  <2>1. InPending(c) = InPending(c)' + 1 /\ c \notin allocated'
    BY <1>1, <1>3, <1>5 DEF One
  <2> QED
    BY <1>2, <1>4, <2>1, HolderStep
<1>6. CASE d # c
  <2>1. InPending(c) = InPending(c)' /\ (c \in allocated' <=> c \in allocated)
    BY <1>1, <1>2, <1>3, <1>6, HolderStep DEF One
  <2> QED
    BY <1>2, <1>4, <2>1, HolderStep
<1> QED
  BY <1>5, <1>6

LEMMA PostHolder ==
  ASSUME Base, TypeOK', EveryCommandHasOneHolder, Post
  PROVE  EveryCommandHasOneHolder'
<1> SUFFICES ASSUME NEW c \in Cmds
             PROVE  Holders(c)' = IF c \in allocated' THEN 1 ELSE 0
  BY DEF EveryCommandHasOneHolder
<1> DEFINE r == [type |-> hci.packet.type, cmd |-> hci.entry]
<1>1. /\ btuq' = Append(btuq, r) /\ btuq \in Seq(BtuqRecords) /\ r \in BtuqRecords
      /\ hci'.entry = None /\ None # c /\ TypeOK
      /\ UNCHANGED << command_queue, pending >>
  BY Constants DEF Post, sending, Base, TypeOK, EventRecords, BtuqRecords
<1>2. InStatus(c)' = InStatus(c) + One(r \in StatusOf(c))
  BY <1>1, TimesAppend DEF InStatus
<1>3. InQueue(c)' = InQueue(c) /\ InPending(c)' = InPending(c)
  BY <1>1 DEF InQueue, InPending
<1>4. InHands(c)' = 0 /\ InHands(c) = One(hci.entry = c)
  BY <1>1 DEF InHands, One
<1>5. r \in StatusOf(c) <=> hci.packet.type = "status" /\ hci.entry = c
  BY DEF StatusOf
<1> HIDE DEF r
<1>6. CASE hci.entry # c
  <2>1. InStatus(c)' = InStatus(c) /\ InHands(c) = 0
    BY <1>1, <1>2, <1>4, <1>5, <1>6, HolderStep DEF One
  <2>2. c \in allocated' <=> c \in allocated
    BY <1>6 DEF Post
  <2> QED
    BY <1>1, <1>3, <1>4, <2>1, <2>2, HolderStep
<1>7. CASE hci.entry = c
  <2>1. InHands(c) = 1 /\ hci.entry # None /\ hci.packet.type \in {"complete", "status"}
    BY <1>1, <1>4, <1>7 DEF One, Base, InHand
  <2>2. CASE hci.packet.type = "complete"
    <3>1. InStatus(c)' = InStatus(c) /\ c \notin allocated'
      BY <1>1, <1>2, <1>5, <1>7, <2>1, <2>2, HolderStep DEF One, Post
    <3> QED
      BY <1>1, <1>3, <1>4, <2>1, <3>1, HolderStep
  <2>3. CASE hci.packet.type = "status"
    <3>1. InStatus(c)' = InStatus(c) + 1 /\ UNCHANGED allocated
      BY <1>2, <1>5, <1>7, <2>1, <2>3 DEF One, Post
    <3> QED
      BY <1>1, <1>3, <1>4, <2>1, <3>1, HolderStep
  <2> QED
    BY <2>1, <2>2, <2>3
<1> QED
  BY <1>6, <1>7

LEMMA HolderNext ==
  Base /\ TypeOK' /\ EveryCommandHasOneHolder /\ [Next]_vars => EveryCommandHasOneHolder'
<1> SUFFICES ASSUME Base, TypeOK', EveryCommandHasOneHolder, [Next]_vars
             PROVE  EveryCommandHasOneHolder'
  OBVIOUS
<1> USE DEF sending, receiving, above
<1>1. TypeOK
  BY DEF Base
<1>2. CASE Btu
  <2>1. CASE SendPacket \/ SyncTake \/ SyncRead
    BY <2>1, <1>1, HolderKept DEF SendPacket, SyncTake, SyncRead
  <2> QED
    BY <1>1, <1>2, <2>1, SendHolder, HandleHolder DEF Btu
<1>3. CASE HciDown
  <2>1. CASE DownBegin \/ DownEnd
    <3>1. UNCHANGED << command_queue, pending, btuq, allocated >> /\ hci'.entry = hci.entry
      BY <2>1, <1>1 DEF DownBegin, DownEnd, TypeOK
    <3> QED
      BY <1>1, <3>1, HolderKept
  <2>2. CASE SendAck
    BY <2>2, <1>1, AckHolder DEF SendAck
  <2>3. CASE SendData
    BY <2>3, <1>1, HolderKept DEF SendData
  <2> QED
    BY <1>1, <1>3, <2>1, <2>2, <2>3, SendCommandHolder DEF HciDown
<1>4. CASE HciUp
  <2>1. CASE UpBegin \/ UpEnd
    <3>1. UNCHANGED << command_queue, pending, btuq, allocated >> /\ hci'.entry = hci.entry
      BY <2>1, <1>1 DEF UpBegin, UpEnd, TypeOK
    <3> QED
      BY <1>1, <3>1, HolderKept
  <2>2. CASE ReceiveData
    <3>1. hci'.entry = None /\ hci.entry = None
      BY <2>2, NextPacket DEF ReceiveData
    <3> QED
      BY <2>2, <1>1, <3>1, AckHolder
  <2>3. CASE ReceiveUnmatched
    <3>1. UNCHANGED << command_queue, pending, btuq, allocated >> /\ hci'.entry = hci.entry
      BY <2>3, <1>1 DEF ReceiveUnmatched, TypeOK
    <3> QED
      BY <1>1, <3>1, HolderKept
  <2> QED
    BY <1>4, <2>1, <2>2, <2>3, ReceiveAnswerHolder, ReceiveFutureAnswerHolder, PostHolder DEF HciUp
<1>5. CASE Controller
  BY <1>5, <1>1, HolderKept DEF Controller, Answer, AnswerNone, SendAcl, SendEvent, Available
<1>6. CASE Timer
  BY <1>6, <1>1, HolderKept DEF Timer, AlarmFires, TimedOut
<1>7. CASE UNCHANGED vars
  BY <1>7, <1>1, HolderKept DEF vars
<1> QED
  BY <1>2, <1>3, <1>4, <1>5, <1>6, <1>7 DEF Next, Hci

\* A command has one holder from transmit_command until it is freed, whatever is
\* answered, refused or dropped, in whatever order: no command leaks and none is freed
\* while it is in use (hci_layer.c:550-565, btu_hcif.c:1964).
THEOREM OneHolder == Spec => []EveryCommandHasOneHolder
<1>1. Init => EveryCommandHasOneHolder
  <2> SUFFICES ASSUME Init, NEW c \in Cmds PROVE Holders(c) = 0 /\ c \notin allocated
    BY DEF EveryCommandHasOneHolder
  <2>1. /\ command_queue = << >> /\ pending = << >> /\ btuq = << >>
        /\ hci.entry = None /\ None # c /\ c \notin allocated
    BY Constants DEF Init
  <2>2. /\ {i \in DOMAIN command_queue : command_queue[i] = c} = {}
        /\ {i \in DOMAIN pending : pending[i] = c} = {}
        /\ {i \in DOMAIN btuq : btuq[i].type = "status" /\ btuq[i].cmd = c} = {}
    BY <2>1
  <2>3. Cardinality({}) = 0
    BY FS_EmptySet
  <2> QED
    BY <2>1, <2>2, <2>3 DEF Holders
<1>2. Base /\ Base' /\ EveryCommandHasOneHolder /\ [Next]_vars => EveryCommandHasOneHolder'
  BY HolderNext DEF Base
<1> QED
  BY <1>1, <1>2, BaseHolds, PTL DEF Spec

-----------------------------------------------------------------------------
(* Answers and commands match *)

InFlight(o) == Times(rx_q, AnswersOf(o))
Awaited(o) == Times(pending, CommandsOf(o))

CountedAnswers ==
    \A o \in Opcodes :
        /\ ctl.held[o] \in Nat /\ InFlight(o) \in Nat /\ Awaited(o) \in Nat
        /\ Cardinality({i \in DOMAIN rx_q : rx_q[i].opcode = o}) = InFlight(o)
        /\ Cardinality(Matches(o)) = Awaited(o)

LEMMA AnswersCounted == TypeOK => CountedAnswers
<1> SUFFICES ASSUME TypeOK, NEW o \in Opcodes
             PROVE  /\ ctl.held[o] \in Nat /\ InFlight(o) \in Nat /\ Awaited(o) \in Nat
                    /\ Cardinality({i \in DOMAIN rx_q : rx_q[i].opcode = o}) = InFlight(o)
                    /\ Cardinality(Matches(o)) = Awaited(o)
  BY DEF CountedAnswers
<1>1. /\ rx_q \in Seq(EventRecords) /\ pending \in Seq(Cmds) /\ ctl.held[o] \in Nat
  BY DEF TypeOK
<1>2. /\ \A i \in DOMAIN rx_q : rx_q[i] \in EventRecords
      /\ \A i \in DOMAIN pending : pending[i] \in Cmds
  BY <1>1, QueueStep
<1>3. {i \in DOMAIN rx_q : rx_q[i].opcode = o} = Hits(rx_q, AnswersOf(o))
  BY <1>2 DEF Hits, AnswersOf
<1>4. Matches(o) = Hits(pending, CommandsOf(o))
  BY <1>2 DEF Matches, Hits, CommandsOf
<1>5. InFlight(o) \in Nat /\ Awaited(o) \in Nat
  BY <1>1, HitsFinite DEF InFlight, Awaited
<1> QED
  BY <1>1, <1>3, <1>4, <1>5 DEF InFlight, Awaited, Times

LEMMA AnswersCountedNext == TypeOK' => CountedAnswers'
BY AnswersCounted, PTL

\* A step keeps the match if it changes the two sides alike.
LEMMA MatchStep ==
  ASSUME TypeOK, TypeOK', AnswersMatch,
         \A o \in Opcodes : ctl'.held[o] + InFlight(o)' + Awaited(o)
                            = ctl.held[o] + InFlight(o) + Awaited(o)'
  PROVE  AnswersMatch'
<1> SUFFICES ASSUME NEW o \in Opcodes
             PROVE  ctl'.held[o] + Cardinality({i \in DOMAIN rx_q' : rx_q'[i].opcode = o})
                    = Cardinality(Matches(o)')
  BY DEF AnswersMatch
<1>1. /\ ctl.held[o] \in Nat /\ InFlight(o) \in Nat /\ Awaited(o) \in Nat
      /\ ctl.held[o] + InFlight(o) = Awaited(o)
  BY AnswersCounted DEF CountedAnswers, AnswersMatch
<1>2. /\ ctl'.held[o] \in Nat /\ InFlight(o)' \in Nat /\ Awaited(o)' \in Nat
      /\ Cardinality({i \in DOMAIN rx_q' : rx_q'[i].opcode = o}) = InFlight(o)'
      /\ Cardinality(Matches(o)') = Awaited(o)'
  BY AnswersCountedNext DEF CountedAnswers
<1>3. ctl'.held[o] + InFlight(o)' = Awaited(o)'
  BY <1>1, <1>2
<1> QED
  BY <1>2, <1>3

LEMMA MatchKept ==
  ASSUME TypeOK, TypeOK', AnswersMatch, UNCHANGED << rx_q, pending >>, ctl'.held = ctl.held
  PROVE  AnswersMatch'
<1>1. \A o \in Opcodes : InFlight(o)' = InFlight(o) /\ Awaited(o)' = Awaited(o)
  BY DEF InFlight, Awaited
<1> QED
  BY <1>1, MatchStep

LEMMA SendCommandMatch ==
  ASSUME TypeOK, TypeOK', AnswersMatch, SendCommand
  PROVE  AnswersMatch'
<1> DEFINE d == Head(command_queue)
<1> SUFFICES ASSUME NEW o \in Opcodes
             PROVE  ctl'.held[o] + InFlight(o)' + Awaited(o)
                    = ctl.held[o] + InFlight(o) + Awaited(o)'
  BY MatchStep
<1>1. /\ command_queue # << >> /\ d # Ack /\ command_queue \in Seq(Cmds \cup {Ack})
      /\ pending' = Append(pending, d) /\ pending \in Seq(Cmds) /\ rx_q' = rx_q
  BY DEF SendCommand, CommandReady, TypeOK, receiving
<1>2. d \in Cmds /\ Opcode[d] \in Opcodes
  BY <1>1, QueueStep, Constants
<1>3. Awaited(o)' = Awaited(o) + One(d \in CommandsOf(o))
  BY <1>1, <1>2, TimesAppend DEF Awaited
<1>4. d \in CommandsOf(o) <=> Opcode[d] = o
  BY <1>2 DEF CommandsOf
<1>5. PICK ready \in BOOLEAN : ctl' = [ctl EXCEPT !.held[Opcode[d]] = @ + 1, !.ready = ready]
  BY DEF SendCommand
<1>6. ctl'.held[o] = IF Opcode[d] = o THEN ctl.held[o] + 1 ELSE ctl.held[o]
  BY <1>2, <1>5 DEF TypeOK
<1>7. InFlight(o)' = InFlight(o) /\ InFlight(o) \in Nat /\ Awaited(o) \in Nat /\ ctl.held[o] \in Nat
  BY <1>1, AnswersCounted DEF InFlight, CountedAnswers
<1> HIDE DEF d
<1>8. CASE Opcode[d] = o
  BY <1>3, <1>4, <1>6, <1>7, <1>8 DEF One
<1>9. CASE Opcode[d] # o
  BY <1>3, <1>4, <1>6, <1>7, <1>9 DEF One
<1> QED
  BY <1>8, <1>9

\* Taking a packet out of rx_q.
LEMMA InFlightTaken ==
  ASSUME Base, hci.at = "up", hci.n > 0, rx_q' = Tail(rx_q), NEW o
  PROVE  InFlight(o) = InFlight(o)' + (IF Head(rx_q).opcode = o THEN 1 ELSE 0)
<1>1. rx_q \in Seq(EventRecords) /\ rx_q # << >> /\ Head(rx_q) \in EventRecords
  BY NextPacket
<1>2. InFlight(o) = InFlight(o)' + One(Head(rx_q) \in AnswersOf(o))
  BY <1>1, TimesTail DEF InFlight
<1>3. Head(rx_q) \in AnswersOf(o) <=> Head(rx_q).opcode = o
  BY <1>1 DEF AnswersOf
<1> QED
  BY <1>2, <1>3 DEF One

LEMMA ReceiveDataMatch ==
  ASSUME Base, TypeOK', AnswersMatch, ReceiveData
  PROVE  AnswersMatch'
<1> SUFFICES ASSUME NEW o \in Opcodes
             PROVE  ctl'.held[o] + InFlight(o)' + Awaited(o)
                    = ctl.held[o] + InFlight(o) + Awaited(o)'
  BY MatchStep DEF Base
<1>1. /\ hci.at = "up" /\ hci.n > 0 /\ rx_q' = Tail(rx_q)
      /\ Head(rx_q).type \in {"acl", "event"} /\ UNCHANGED << ctl, pending >>
  BY DEF ReceiveData
<1>2. Head(rx_q).opcode = None
  <2>1. Head(rx_q) = rx_q[1] /\ 1 \in 1..Len(rx_q)
    BY <1>1, NextPacket
  <2> QED
    BY <1>1, <2>1 DEF Base, InHand
<1>3. InFlight(o) = InFlight(o)' + 0
  BY <1>1, <1>2, InFlightTaken, Constants
<1>4. InFlight(o)' \in Nat
  BY AnswersCountedNext DEF CountedAnswers
<1>5. Awaited(o)' = Awaited(o)
  BY <1>1 DEF Awaited
<1> QED
  BY <1>1, <1>3, <1>4, <1>5

\* An answer that is matched takes one command out of the list, of its opcode.
LEMMA TakenMatch ==
  ASSUME Base, TypeOK', AnswersMatch, ReceiveAnswer \/ ReceiveFutureAnswer
  PROVE  AnswersMatch'
<1> DEFINE e == Head(rx_q)
           d == pending[Waiting(e.opcode)]
<1> SUFFICES ASSUME NEW o \in Opcodes
             PROVE  ctl'.held[o] + InFlight(o)' + Awaited(o)
                    = ctl.held[o] + InFlight(o) + Awaited(o)'
  BY MatchStep DEF Base
<1>1. /\ hci.at = "up" /\ hci.n > 0 /\ rx_q' = Tail(rx_q) /\ UNCHANGED ctl
      /\ Waiting(e.opcode) # 0 /\ pending' = Remove(pending, Waiting(e.opcode))
  BY DEF ReceiveAnswer, ReceiveFutureAnswer
<1>2. TypeOK /\ d \in Cmds /\ Opcode[d] = e.opcode
  BY <1>1, WaitingFound DEF Base, TypeOK
<1>3. InFlight(o) = InFlight(o)' + (IF e.opcode = o THEN 1 ELSE 0)
  BY <1>1, InFlightTaken
<1>4. Awaited(o) = Awaited(o)' + One(d \in CommandsOf(o))
  BY <1>1, <1>2, PendingTaken DEF Awaited
<1>5. d \in CommandsOf(o) <=> e.opcode = o
  BY <1>2 DEF CommandsOf
<1>6. /\ InFlight(o)' \in Nat /\ Awaited(o)' \in Nat /\ ctl.held[o] \in Nat
  BY <1>2, AnswersCounted, AnswersCountedNext DEF CountedAnswers
<1> HIDE DEF d, e
<1>7. CASE e.opcode = o
  BY <1>1, <1>3, <1>4, <1>5, <1>6, <1>7 DEF One
<1>8. CASE e.opcode # o
  BY <1>1, <1>3, <1>4, <1>5, <1>6, <1>8 DEF One
<1> QED
  BY <1>7, <1>8

\* An answer with an opcode is always matched.
LEMMA AnswerIsMatched ==
  ASSUME Base, AnswersMatch, NEW i \in 1..Len(rx_q), rx_q[i].opcode # None
  PROVE  Waiting(rx_q[i].opcode) # 0
<1> DEFINE o == rx_q[i].opcode
<1>1. TypeOK /\ rx_q \in Seq(EventRecords) /\ rx_q[i] \in EventRecords /\ pending \in Seq(Cmds)
  BY QueueStep DEF Base, TypeOK
<1>2. o \in Opcodes /\ rx_q[i] \in AnswersOf(o)
  BY <1>1 DEF EventRecords, AnswersOf
<1>3. InFlight(o) # 0
  BY <1>1, <1>2, TimesPositive DEF InFlight
<1>4. ctl.held[o] + InFlight(o) = Awaited(o) /\ ctl.held[o] \in Nat /\ InFlight(o) \in Nat
  BY <1>1, <1>2, AnswersCounted DEF CountedAnswers, AnswersMatch
<1>5. Awaited(o) # 0
  BY <1>3, <1>4
<1>6. ~ \A j \in 1..Len(pending) : pending[j] \notin CommandsOf(o)
  BY <1>1, <1>5, TimesPositive DEF Awaited
<1>7. PICK j \in 1..Len(pending) : pending[j] \in CommandsOf(o)
  BY <1>6
<1>8. Opcode[pending[j]] = o
  BY <1>7 DEF CommandsOf
<1> HIDE DEF o
<1>9. Waiting(o) # 0
  BY <1>1, <1>8, WaitingFound
<1> QED
  BY <1>9 DEF o

LEMMA UnmatchedMatch ==
  ASSUME Base, TypeOK', AnswersMatch, ReceiveUnmatched
  PROVE  AnswersMatch'
<1> SUFFICES ASSUME NEW o \in Opcodes
             PROVE  ctl'.held[o] + InFlight(o)' + Awaited(o)
                    = ctl.held[o] + InFlight(o) + Awaited(o)'
  BY MatchStep DEF Base
<1>1. /\ hci.at = "up" /\ hci.n > 0 /\ rx_q' = Tail(rx_q) /\ UNCHANGED << ctl, pending >>
      /\ Waiting(Head(rx_q).opcode) = 0
  BY DEF ReceiveUnmatched
<1>2. Head(rx_q).opcode = None
  <2>1. Head(rx_q) = rx_q[1] /\ 1 \in 1..Len(rx_q)
    BY <1>1, NextPacket
  <2> QED
    BY <1>1, <2>1, AnswerIsMatched
<1>3. InFlight(o) = InFlight(o)' + 0
  BY <1>1, <1>2, InFlightTaken, Constants
<1>4. InFlight(o)' \in Nat
  BY AnswersCountedNext DEF CountedAnswers
<1>5. Awaited(o)' = Awaited(o)
  BY <1>1 DEF Awaited
<1> QED
  BY <1>1, <1>3, <1>4, <1>5

\* What the controller delivers is counted if it has the opcode.
LEMMA InFlightDelivered ==
  ASSUME TypeOK, NEW e \in EventRecords, rx_q' = Append(rx_q, e), NEW o
  PROVE  InFlight(o)' = InFlight(o) + (IF e.opcode = o THEN 1 ELSE 0)
<1>1. InFlight(o)' = InFlight(o) + One(e \in AnswersOf(o))
  BY TimesAppend DEF InFlight, TypeOK
<1>2. e \in AnswersOf(o) <=> e.opcode = o
  BY DEF AnswersOf
<1> QED
  BY <1>1, <1>2 DEF One

LEMMA ControllerMatch ==
  ASSUME NoAnswerLost, Base, TypeOK', AnswersMatch, Controller
  PROVE  AnswersMatch'
<1>1. TypeOK
  BY DEF Base
<1>2. ASSUME NEW p \in Opcodes, NEW type \in {"complete", "status"}, NEW ok \in BOOLEAN,
             Answer(p, type, ok)
      PROVE  AnswersMatch'
  <2>1. PICK paused \in BOOLEAN :
           /\ ctl' = [ctl EXCEPT !.held[p] = @ - 1, !.paused = paused]
           /\ Deliver(Event(type, p, ok, IF paused THEN 0 ELSE Room(Held - 1)))
    BY <1>2 DEF Answer
  <2> DEFINE e == Event(type, p, ok, IF paused THEN 0 ELSE Room(Held - 1))
  <2>2. e \in EventRecords /\ e.opcode = p /\ e.type = type
    <3>1. Room(Held - 1) \in Nat
      BY <1>1, RoomsNat DEF TypeOK
    <3> QED
      BY <3>1 DEF Event, EventRecords, EventTypes
  <2>3. rx_q' = Append(rx_q, e) /\ pending' = pending
    <3>1. Deliver(e) /\ e.type \notin MayDrop
      BY <2>1, <2>2 DEF NoAnswerLost
    <3>2. rx_q' = Append(rx_q, e)
      BY <3>1 DEF Deliver
    <3> QED
      BY <3>2, <1>2 DEF Answer
  <2> HIDE DEF e
  <2> SUFFICES ASSUME NEW o \in Opcodes
               PROVE  ctl'.held[o] + InFlight(o)' + Awaited(o)
                      = ctl.held[o] + InFlight(o) + Awaited(o)'
    BY <1>1, MatchStep
  <2>4. InFlight(o)' = InFlight(o) + (IF p = o THEN 1 ELSE 0)
    BY <1>1, <2>2, <2>3, InFlightDelivered
  <2>5. ctl'.held[o] = IF p = o THEN ctl.held[o] - 1 ELSE ctl.held[o]
    BY <1>1, <2>1 DEF TypeOK
  <2>6. Awaited(o)' = Awaited(o) /\ Awaited(o) \in Nat /\ InFlight(o) \in Nat /\ ctl.held[o] \in Nat
    BY <1>1, <2>3, AnswersCounted DEF Awaited, CountedAnswers
  <2> QED
    BY <2>4, <2>5, <2>6
<1>3. ASSUME NEW e \in EventRecords, e.opcode = None, Deliver(e), UNCHANGED pending,
             ctl'.held = ctl.held
      PROVE  AnswersMatch'
  <2>1. CASE rx_q' = Append(rx_q, e)
    <3> SUFFICES ASSUME NEW o \in Opcodes
                 PROVE  ctl'.held[o] + InFlight(o)' + Awaited(o)
                        = ctl.held[o] + InFlight(o) + Awaited(o)'
      BY <1>1, MatchStep
    <3>1. InFlight(o)' = InFlight(o) + 0 /\ Awaited(o)' = Awaited(o)
      BY <1>1, <1>3, <2>1, InFlightDelivered, Constants DEF Awaited
    <3>2. InFlight(o) \in Nat
      BY <1>1, AnswersCounted DEF CountedAnswers
    <3> QED
      BY <3>1, <3>2, <1>3
  <2>2. CASE rx_q' = rx_q
    BY <1>1, <1>3, <2>2, MatchKept
  <2> QED
    BY <1>3, <2>1, <2>2 DEF Deliver, receiving
<1>4. CASE AnswerNone
  <2>1. Room(Held) \in Nat
    BY <1>1, RoomsNat DEF TypeOK
  <2>2. Event("complete", None, TRUE, Room(Held)) \in EventRecords
    BY <2>1 DEF Event, EventRecords, EventTypes
  <2>3. Event("complete", None, TRUE, Room(Held)).opcode = None
    BY DEF Event
  <2>4. ctl'.held = ctl.held
    BY <1>1, <1>4 DEF AnswerNone, TypeOK
  <2> QED
    BY <1>3, <1>4, <2>2, <2>3, <2>4 DEF AnswerNone
<1>5. CASE SendAcl \/ SendEvent
  <2>1. /\ Plain("acl") \in EventRecords /\ Plain("event") \in EventRecords
        /\ Plain("acl").opcode = None /\ Plain("event").opcode = None
    BY DEF Plain, Event, EventRecords, EventTypes
  <2>2. ctl'.held = ctl.held /\ UNCHANGED pending
    BY <1>1, <1>5 DEF SendAcl, SendEvent, TypeOK
  <2> QED
    BY <1>3, <1>5, <2>1, <2>2 DEF SendAcl, SendEvent
<1>6. CASE Available
  <2>1. ctl'.held = ctl.held /\ UNCHANGED << pending, rx_q >>
    BY <1>1, <1>6 DEF Available, receiving, TypeOK
  <2> QED
    BY <1>1, <2>1, MatchKept
<1> QED
  BY <1>2, <1>4, <1>5, <1>6 DEF Controller

LEMMA MatchNext ==
  ASSUME NoAnswerLost
  PROVE  Base /\ TypeOK' /\ AnswersMatch /\ [Next]_vars => AnswersMatch'
<1> SUFFICES ASSUME Base, TypeOK', AnswersMatch, [Next]_vars PROVE AnswersMatch'
  OBVIOUS
<1> USE DEF sending, receiving, above
<1>1. TypeOK
  BY DEF Base
<1>2. CASE Btu
  BY <1>1, <1>2, MatchKept DEF Btu, Send, SendPacket, SyncTake, SyncRead, Handle
<1>3. CASE HciDown
  <2>1. CASE DownBegin \/ DownEnd
    BY <1>1, <2>1, MatchKept DEF DownBegin, DownEnd
  <2>2. CASE SendAck \/ SendData
    <3>1. ctl'.held = ctl.held /\ UNCHANGED << rx_q, pending >>
      BY <1>1, <2>2 DEF SendAck, SendData, TypeOK
    <3> QED
      BY <1>1, <3>1, MatchKept
  <2> QED
    BY <1>1, <1>3, <2>1, <2>2, SendCommandMatch DEF HciDown
<1>4. CASE HciUp
  <2>1. CASE UpBegin \/ UpEnd \/ Post
    BY <1>1, <2>1, MatchKept DEF UpBegin, UpEnd, Post
  <2> QED
    BY <1>4, <2>1, ReceiveDataMatch, TakenMatch, UnmatchedMatch DEF HciUp
<1>5. CASE Controller
  BY <1>5, ControllerMatch
<1>6. CASE Timer
  BY <1>1, <1>6, MatchKept DEF Timer, AlarmFires, TimedOut
<1>7. CASE UNCHANGED vars
  BY <1>1, <1>7, MatchKept DEF vars
<1> QED
  BY <1>2, <1>3, <1>4, <1>5, <1>6, <1>7 DEF Next, Hci

\* While no answer is dropped, the commands that wait for one are, opcode by opcode,
\* those the controller holds and those whose answer is on its way: matching by
\* opcode alone loses and confuses none (hci_layer.c:610-631).
THEOREM AnswersAreMatched ==
  ASSUME NoAnswerLost
  PROVE  Spec => []AnswersMatch
<1>1. Init => AnswersMatch
  <2> SUFFICES ASSUME Init, NEW o \in Opcodes
               PROVE  /\ ctl.held[o] = 0
                      /\ Cardinality({i \in DOMAIN rx_q : rx_q[i].opcode = o}) = 0
                      /\ Cardinality(Matches(o)) = 0
    BY DEF AnswersMatch
  <2>1. rx_q = << >> /\ pending = << >> /\ ctl.held[o] = 0
    BY DEF Init
  <2>2. {i \in DOMAIN rx_q : rx_q[i].opcode = o} = {} /\ Matches(o) = {}
    BY <2>1 DEF Matches
  <2> QED
    BY <2>1, <2>2, FS_EmptySet
<1>2. Base /\ Base' /\ AnswersMatch /\ [Next]_vars => AnswersMatch'
  BY MatchNext DEF Base
<1> QED
  BY <1>1, <1>2, BaseHolds, PTL DEF Spec

-----------------------------------------------------------------------------
(* A controller with room for one command *)

\* What Held is when the controller holds no command, or one.
LEMMA HeldSmall ==
  ASSUME ctl.held \in [Opcodes -> Nat]
  PROVE  /\ Idle => Held = 0
         /\ \A o \in Opcodes :
               ctl.held[o] = 1 /\ (\A p \in Opcodes \ {o} : ctl.held[p] = 0) => Held = 1
<1>1. ASSUME Idle PROVE Held = 0
  <2>1. \A o \in Opcodes : 1..ctl.held[o] = {}
    BY <1>1 DEF Idle
  <2>2. Holding = {}
    BY <2>1 DEF Holding
  <2> QED
    BY <2>2, FS_EmptySet DEF Held
<1>2. ASSUME NEW o \in Opcodes, ctl.held[o] = 1, \A p \in Opcodes \ {o} : ctl.held[p] = 0
      PROVE  Held = 1
  <2>1. 1..ctl.held[o] = {1} /\ \A p \in Opcodes \ {o} : 1..ctl.held[p] = {}
    BY <1>2
  <2>2. Holding = {<< o, 1 >>}
    BY <2>1 DEF Holding
  <2> QED
    BY <2>2, FS_Singleton DEF Held
<1> QED
  BY <1>1, <1>2

LEMMA OneCommandKept ==
  ASSUME OneCommand, UNCHANGED << command_credits, rx_q >>,
         ctl'.slots = ctl.slots, ctl'.held = ctl.held, ctl'.paused = ctl.paused
  PROVE  OneCommand'
BY DEF OneCommand, Idle, NothingOffered

\* The facts about a queue that a controller with room for one command relies on.
LEMMA OneCommandTaken ==
  ASSUME Base, OneCommand, hci.at = "up", hci.n > 0, rx_q' = Tail(rx_q), UNCHANGED ctl,
         command_credits' \in {command_credits, Head(rx_q).credits}
  PROVE  OneCommand'
<1> SUFFICES ASSUME ctl.slots = 1 PROVE OneCommand'
  BY DEF OneCommand
<1>1. /\ Head(rx_q) = rx_q[1] /\ 1 \in 1..Len(rx_q) /\ rx_q[1].credits \in Nat
      /\ \A i \in 1..Len(rx_q') : /\ rx_q'[i] = rx_q[i + 1] /\ i + 1 \in 1..Len(rx_q)
                                  /\ rx_q[i + 1].credits \in Nat
  <2>1. /\ Head(rx_q) = rx_q[1] /\ 1 \in 1..Len(rx_q) /\ rx_q \in Seq(EventRecords)
    BY NextPacket
  <2>2. \A i \in 1..Len(rx_q') : rx_q'[i] = rx_q[i + 1] /\ i + 1 \in 1..Len(rx_q)
    BY TakenFacts
  <2>3. \A i \in 1..Len(rx_q) : rx_q[i].credits \in Nat
    <3>1. \A i \in 1..Len(rx_q) : rx_q[i] \in EventRecords
      BY <2>1, QueueStep
    <3> QED
      BY <3>1 DEF EventRecords
  <2> QED
    BY <2>1, <2>2, <2>3
<1>2. ctl.held \in [Opcodes -> Nat] /\ command_credits \in Nat
  BY DEF Base, TypeOK
<1>3. /\ \A i \in 1..Len(rx_q') : rx_q'[i].credits <= 1
      /\ \A i, j \in 1..Len(rx_q') : rx_q'[i].credits = 1 /\ rx_q'[j].credits = 1 => i = j
  <2>1. \A i \in 1..Len(rx_q') : rx_q'[i].credits <= 1
    BY <1>1 DEF OneCommand
  <2>2. ASSUME NEW i \in 1..Len(rx_q'), NEW j \in 1..Len(rx_q'),
               rx_q'[i].credits = 1, rx_q'[j].credits = 1
        PROVE  i = j
    <3>1. i + 1 = j + 1
      BY <1>1, <2>2 DEF OneCommand
    <3>2. i \in Int /\ j \in Int
      OBVIOUS
    <3> QED
      BY <3>1, <3>2
  <2> QED
    BY <2>1, <2>2
<1>4. NothingOffered => NothingOffered'
  BY <1>1 DEF NothingOffered
<1>5. command_credits' <= 1
  BY <1>1 DEF OneCommand
<1>6. ASSUME command_credits' = 1 PROVE Idle /\ NothingOffered' /\ ~ctl.paused
  <2>1. CASE command_credits = 1
    BY <2>1, <1>4 DEF OneCommand
  <2>2. CASE rx_q[1].credits = 1
    <3>1. ~NothingOffered
      BY <2>2, <1>1 DEF NothingOffered
    <3>2. Idle /\ ~ctl.paused
      BY <3>1, <1>2 DEF OneCommand, Idle
    <3>3. ASSUME NEW i \in 1..Len(rx_q') PROVE rx_q'[i].credits = 0
      <4>1. i + 1 # 1 /\ i + 1 \in 1..Len(rx_q) /\ rx_q'[i] = rx_q[i + 1]
        BY <1>1
      <4>2. rx_q[i + 1].credits # 1 /\ rx_q[i + 1].credits <= 1 /\ rx_q[i + 1].credits \in Nat
        BY <4>1, <1>1, <2>2 DEF OneCommand
      <4> QED
        BY <4>1, <4>2
    <3> QED
      BY <3>2, <3>3 DEF NothingOffered
  <2> QED
    BY <1>1, <1>6, <2>1, <2>2
<1>7. Idle' <=> Idle
  BY DEF Idle
<1> QED
  BY <1>3, <1>4, <1>5, <1>6, <1>7 DEF OneCommand

LEMMA SendCommandOne ==
  ASSUME Base, OneCommand, SendCommand
  PROVE  OneCommand'
<1> DEFINE d == Head(command_queue)
<1>1. PICK ready \in BOOLEAN : ctl' = [ctl EXCEPT !.held[Opcode[d]] = @ + 1, !.ready = ready]
  BY DEF SendCommand
<1>2. Opcode[d] \in Opcodes
  <2>1. command_queue # << >> /\ d # Ack /\ command_queue \in Seq(Cmds \cup {Ack})
    BY DEF SendCommand, CommandReady, Base, TypeOK
  <2> QED
    BY <2>1, QueueStep, Constants
<1>3. ctl \in CtlRecords
  BY DEF Base, TypeOK, CtlRecords
<1>4. /\ ctl'.slots = ctl.slots /\ ctl'.paused = ctl.paused
      /\ \A o \in Opcodes : ctl'.held[o] = IF o = Opcode[d] THEN ctl.held[o] + 1 ELSE ctl.held[o]
  BY <1>1, <1>2, <1>3 DEF CtlRecords
<1> HIDE DEF d
<1> SUFFICES ASSUME ctl.slots = 1 PROVE OneCommand'
  BY <1>4 DEF OneCommand
<1>5. command_credits = 1 /\ command_credits' = 0 /\ rx_q' = rx_q
  BY DEF SendCommand, CommandReady, receiving, Base, TypeOK, OneCommand
<1>6. Idle /\ NothingOffered /\ ~ctl.paused
  BY <1>5 DEF OneCommand
<1>7. NothingOffered' /\ ~ctl'.paused
  BY <1>4, <1>5, <1>6 DEF NothingOffered
<1>8. \A o \in Opcodes : ctl'.held[o] = IF o = Opcode[d] THEN 1 ELSE 0
  BY <1>4, <1>6 DEF Idle
<1>9. \A i \in 1..Len(rx_q') : rx_q'[i].credits = 0
  BY <1>7 DEF NothingOffered
<1> QED
  BY <1>5, <1>7, <1>8, <1>9 DEF OneCommand

\* An event that the controller delivers to a queue without any offer.
LEMMA OfferDelivered ==
  ASSUME Base, NothingOffered, NEW e \in EventRecords, Deliver(e), e.credits \in {0, 1}
  PROVE  /\ \A i \in 1..Len(rx_q') : rx_q'[i].credits <= 1
         /\ \A i, j \in 1..Len(rx_q') : rx_q'[i].credits = 1 /\ rx_q'[j].credits = 1 => i = j
         /\ e.credits = 0 => NothingOffered'
<1>1. \A i \in 1..Len(rx_q') : \/ i \in 1..Len(rx_q) /\ rx_q'[i] = rx_q[i]
                               \/ i = Len(rx_q) + 1 /\ rx_q'[i] = e
  BY DeliverBase
<1>2. \A i \in 1..Len(rx_q') : rx_q'[i].credits = 0 \/ (i = Len(rx_q) + 1 /\ rx_q'[i] = e)
  BY <1>1 DEF NothingOffered
<1>3. \A i \in 1..Len(rx_q') : rx_q'[i].credits <= 1
  BY <1>2
<1>4. \A i, j \in 1..Len(rx_q') : rx_q'[i].credits = 1 /\ rx_q'[j].credits = 1 => i = j
  BY <1>2
<1>5. e.credits = 0 => NothingOffered'
  BY <1>2 DEF NothingOffered
<1> QED
  BY <1>3, <1>4, <1>5

LEMMA AnswerOne ==
  ASSUME Base, OneCommand,
         NEW o \in Opcodes, NEW type \in {"complete", "status"}, NEW ok \in BOOLEAN,
         Answer(o, type, ok)
  PROVE  OneCommand'
<1>1. PICK paused \in BOOLEAN :
         /\ ctl' = [ctl EXCEPT !.held[o] = @ - 1, !.paused = paused]
         /\ Deliver(Event(type, o, ok, IF paused THEN 0 ELSE Room(Held - 1)))
  BY DEF Answer
<1> DEFINE e == Event(type, o, ok, IF paused THEN 0 ELSE Room(Held - 1))
<1>2. ctl \in CtlRecords
  BY DEF Base, TypeOK, CtlRecords
<1>3. /\ ctl'.slots = ctl.slots /\ ctl'.paused = paused
      /\ \A p \in Opcodes : ctl'.held[p] = IF p = o THEN ctl.held[p] - 1 ELSE ctl.held[p]
  BY <1>1, <1>2 DEF CtlRecords
<1> SUFFICES ASSUME ctl.slots = 1 PROVE OneCommand'
  BY <1>3 DEF OneCommand
<1>4. ctl.held \in [Opcodes -> Nat] /\ command_credits \in Nat
  BY DEF Base, TypeOK
<1>5. ctl.held[o] = 1
  BY <1>4 DEF Answer, OneCommand
<1>6. \A p \in Opcodes \ {o} : ctl.held[p] = 0
  BY <1>4, <1>5 DEF OneCommand
<1>7. Held = 1
  BY <1>4, <1>5, <1>6, HeldSmall
<1>8. Room(Held - 1) = 1
  BY <1>7 DEF Room
<1>9. e \in EventRecords /\ e.credits = IF paused THEN 0 ELSE 1
  BY <1>8 DEF Event, EventRecords, EventTypes
<1>10. NothingOffered /\ command_credits = 0 /\ command_credits' = command_credits
  BY <1>4, <1>5 DEF OneCommand, Idle, Answer, sending
<1>11. Deliver(e)
  BY <1>1
<1> HIDE DEF e
<1>12. /\ \A i \in 1..Len(rx_q') : rx_q'[i].credits <= 1
       /\ \A i, j \in 1..Len(rx_q') : rx_q'[i].credits = 1 /\ rx_q'[j].credits = 1 => i = j
       /\ paused => NothingOffered'
  BY <1>9, <1>10, <1>11, OfferDelivered
<1>13. \A p \in Opcodes : ctl'.held[p] = 0
  BY <1>3, <1>5, <1>6
<1> QED
  BY <1>3, <1>10, <1>12, <1>13 DEF OneCommand

LEMMA AnswerNoneOne ==
  ASSUME Base, OneCommand, AnswerNone
  PROVE  OneCommand'
<1> DEFINE e == Event("complete", None, TRUE, Room(Held))
<1>1. ctl \in CtlRecords /\ ctl' = [ctl EXCEPT !.paused = FALSE] /\ ctl.paused /\ Deliver(e)
      /\ command_credits' = command_credits
  BY DEF Base, TypeOK, CtlRecords, AnswerNone, sending
<1>2. ctl'.slots = ctl.slots /\ ctl'.paused = FALSE /\ ctl'.held = ctl.held
  BY <1>1 DEF CtlRecords
<1> SUFFICES ASSUME ctl.slots = 1 PROVE OneCommand'
  BY <1>2 DEF OneCommand
<1>3. ctl.held \in [Opcodes -> Nat] /\ command_credits \in Nat
  BY DEF Base, TypeOK
<1>4. /\ \A o \in Opcodes : ctl.held[o] = 0
      /\ NothingOffered /\ command_credits = 0
  BY <1>1, <1>3 DEF OneCommand
<1>5. Held = 0
  BY <1>3, <1>4, HeldSmall DEF Idle
<1>6. Room(Held) = 1
  BY <1>5 DEF Room
<1>7. e \in EventRecords /\ e.credits = 1
  BY <1>6 DEF Event, EventRecords, EventTypes
<1> HIDE DEF e
<1>8. /\ \A i \in 1..Len(rx_q') : rx_q'[i].credits <= 1
      /\ \A i, j \in 1..Len(rx_q') : rx_q'[i].credits = 1 /\ rx_q'[j].credits = 1 => i = j
  BY <1>1, <1>4, <1>7, OfferDelivered
<1> QED
  BY <1>1, <1>2, <1>4, <1>8 DEF OneCommand

\* An event without credits, whatever has been offered before.
LEMMA PlainOne ==
  ASSUME Base, OneCommand, SendAcl \/ SendEvent
  PROVE  OneCommand'
<1>1. PICK e \in EventRecords : e.credits = 0 /\ Deliver(e)
  BY DEF SendAcl, SendEvent, Plain, Event, EventRecords, EventTypes
<1>2. /\ ctl'.slots = ctl.slots /\ ctl'.held = ctl.held /\ ctl'.paused = ctl.paused
      /\ command_credits' = command_credits
  BY DEF SendAcl, SendEvent, sending, Base, TypeOK
<1>3. \A i \in 1..Len(rx_q') : \/ i \in 1..Len(rx_q) /\ rx_q'[i] = rx_q[i]
                               \/ i = Len(rx_q) + 1 /\ rx_q'[i] = e
  BY <1>1, DeliverBase
<1>4. NothingOffered => NothingOffered'
  BY <1>1, <1>3 DEF NothingOffered
<1> SUFFICES ASSUME ctl.slots = 1 PROVE OneCommand'
  BY <1>2 DEF OneCommand
<1>5. \A i \in 1..Len(rx_q') : rx_q'[i].credits <= 1
  BY <1>1, <1>3 DEF OneCommand
<1>6. \A i, j \in 1..Len(rx_q') : rx_q'[i].credits = 1 /\ rx_q'[j].credits = 1 => i = j
  BY <1>1, <1>3 DEF OneCommand
<1> QED
  BY <1>2, <1>4, <1>5, <1>6 DEF OneCommand, Idle

LEMMA OneCommandNext == Base /\ OneCommand /\ [Next]_vars => OneCommand'
<1> SUFFICES ASSUME Base, OneCommand, [Next]_vars PROVE OneCommand'
  OBVIOUS
<1> USE DEF sending, receiving, above
<1>1. ctl \in CtlRecords
  BY DEF Base, TypeOK, CtlRecords
<1>2. CASE Btu
  BY <1>2, OneCommandKept DEF Btu, Send, SendPacket, SyncTake, SyncRead, Handle
<1>3. CASE HciDown
  <2>1. CASE DownBegin \/ DownEnd
    BY <2>1, OneCommandKept DEF DownBegin, DownEnd
  <2>2. CASE SendAck \/ SendData
    <3>1. /\ UNCHANGED << command_credits, rx_q >>
          /\ ctl'.slots = ctl.slots /\ ctl'.held = ctl.held /\ ctl'.paused = ctl.paused
      BY <2>2, <1>1 DEF SendAck, SendData, CtlRecords
    <3> QED
      BY <3>1, OneCommandKept
  <2> QED
    BY <1>3, <2>1, <2>2, SendCommandOne DEF HciDown
<1>4. CASE HciUp
  <2>1. CASE UpBegin \/ UpEnd \/ Post
    BY <2>1, OneCommandKept DEF UpBegin, UpEnd, Post
  <2>2. CASE ReceiveData
    BY <2>2, OneCommandTaken DEF ReceiveData
  <2>3. CASE ReceiveAnswer \/ ReceiveFutureAnswer \/ ReceiveUnmatched
    BY <2>3, OneCommandTaken DEF ReceiveAnswer, ReceiveFutureAnswer, ReceiveUnmatched
  <2> QED
    BY <1>4, <2>1, <2>2, <2>3 DEF HciUp
<1>5. CASE Controller
  <2>1. CASE Available
    <3>1. /\ UNCHANGED << command_credits, rx_q >>
          /\ ctl'.slots = ctl.slots /\ ctl'.held = ctl.held /\ ctl'.paused = ctl.paused
      BY <2>1, <1>1 DEF Available, CtlRecords
    <3> QED
      BY <3>1, OneCommandKept
  <2> QED
    BY <1>5, <2>1, AnswerOne, AnswerNoneOne, PlainOne DEF Controller
<1>6. CASE Timer
  BY <1>6, OneCommandKept DEF Timer, AlarmFires, TimedOut
<1>7. CASE UNCHANGED vars
  BY <1>7, OneCommandKept DEF vars
<1> QED
  BY <1>2, <1>3, <1>4, <1>5, <1>6, <1>7 DEF Next, Hci

LEMMA OneCommandHolds == Spec => []OneCommand
<1>1. Init => OneCommand
  BY DEF Init, OneCommand, Idle, NothingOffered
<1> QED
  BY <1>1, OneCommandNext, BaseHolds, PTL DEF Spec

\* A controller with room for one command is never sent a second one, although each
\* answer overwrites the credits with a number that is computed when it is sent and
\* read when it is handled, and whatever is dropped (hci_layer.c:476, :510).
THEOREM NeverOverruns == Spec => []NeverOverrunsController
<1>1. Base /\ OneCommand => NeverOverrunsController
  <2> SUFFICES ASSUME Base, OneCommand, ctl.slots = 1 PROVE Held <= 1
    BY DEF NeverOverrunsController
  <2>1. ctl.held \in [Opcodes -> Nat]
    BY DEF Base, TypeOK
  <2>2. CASE Idle
    BY <2>1, <2>2, HeldSmall
  <2>3. CASE ~Idle
    <3>1. PICK o \in Opcodes : ctl.held[o] = 1
      BY <2>1, <2>3 DEF Idle, OneCommand
    <3>2. \A p \in Opcodes \ {o} : ctl.held[p] = 0
      BY <2>1, <3>1 DEF OneCommand
    <3> QED
      BY <2>1, <3>1, <3>2, HeldSmall
  <2> QED
    BY <2>2, <2>3
<1> QED
  BY <1>1, BaseHolds, OneCommandHolds, PTL


-----------------------------------------------------------------------------
(* The status of a synchronous command *)

LEMMA SlotsKept ==
  ASSUME Base, [Next]_vars
  PROVE  ctl'.slots = ctl.slots
<1> USE DEF sending, receiving, above
<1>1. ctl \in CtlRecords
  BY DEF Base, TypeOK, CtlRecords
<1>2. CASE Btu
  BY <1>2 DEF Btu, Send, SendPacket, SyncTake, SyncRead, Handle
<1>3. CASE HciDown
  BY <1>1, <1>3 DEF HciDown, DownBegin, SendCommand, SendAck, SendData, DownEnd, CtlRecords
<1>4. CASE HciUp
  BY <1>4 DEF HciUp, UpBegin, ReceiveData, ReceiveAnswer, ReceiveFutureAnswer,
              ReceiveUnmatched, Post, UpEnd
<1>5. CASE Controller
  BY <1>1, <1>5 DEF Controller, Answer, AnswerNone, SendAcl, SendEvent, Available, CtlRecords
<1>6. CASE Timer \/ UNCHANGED vars
  BY <1>6 DEF Timer, AlarmFires, TimedOut, vars
<1> QED
  BY <1>2, <1>3, <1>4, <1>5, <1>6 DEF Next, Hci

\* A queue or list that counts c not at all does not hold it.
LEMMA NotCounted ==
  ASSUME NEW S, NEW s \in Seq(S), NEW c
  PROVE  Times(s, {c}) = 0 <=> c \notin Elements(s)
<1>1. DOMAIN s = 1..Len(s) /\ (Times(s, {c}) = 0 <=> \A i \in 1..Len(s) : s[i] \notin {c})
  BY TimesPositive, LenProperties
<1> QED
  BY <1>1 DEF Elements

\* A command is in one place at a time.
LEMMA OnePlace ==
  ASSUME TypeOK, EveryCommandHasOneHolder, NEW c \in Cmds
  PROVE  /\ c \in Elements(pending) => c \notin Elements(command_queue)
         /\ hci.entry = c => c \notin Elements(command_queue) /\ c \notin Elements(pending)
<1>1. /\ InQueue(c) \in Nat /\ InPending(c) \in Nat /\ InHands(c) \in Nat /\ InStatus(c) \in Nat
      /\ InQueue(c) + InPending(c) + InHands(c) + InStatus(c) <= 1
  BY HoldersCounted DEF CountedHolders, EveryCommandHasOneHolder
<1>2. InQueue(c) = 0 <=> c \notin Elements(command_queue)
  BY NotCounted DEF InQueue, TypeOK
<1>3. InPending(c) = 0 <=> c \notin Elements(pending)
  BY NotCounted DEF InPending, TypeOK
<1>4. hci.entry = c => InHands(c) = 1
  BY DEF InHands, One
<1> QED
  BY <1>1, <1>2, <1>3, <1>4

\* The list has at most one entry: the answer that is matched empties it.
LEMMA OneTaken ==
  ASSUME Base, AnswerFirst, NEW o, Waiting(o) # 0
  PROVE  /\ Waiting(o) = 1 /\ pending # << >>
         /\ pending[1] \in Cmds /\ Opcode[pending[1]] = o /\ o \in Opcodes /\ o # None
         /\ pending[1] \in Elements(pending)
         /\ Remove(pending, Waiting(o)) = << >>
<1>1. pending \in Seq(Cmds)
  BY DEF Base, TypeOK
<1>2. Len(pending) \in Nat /\ DOMAIN pending = 1..Len(pending) /\ Len(pending) <= 1
  BY <1>1, LenProperties DEF AnswerFirst
<1>3. /\ Waiting(o) \in 1..Len(pending) /\ pending[Waiting(o)] \in Cmds
      /\ Opcode[pending[Waiting(o)]] = o
      /\ Remove(pending, Waiting(o)) \in Seq(Cmds)
      /\ Len(Remove(pending, Waiting(o))) = Len(pending) - 1
  BY <1>1, WaitingFound
<1>4. Waiting(o) = 1 /\ Len(pending) = 1
  BY <1>2, <1>3
<1>5. pending # << >> /\ Remove(pending, Waiting(o)) = << >>
  <2> DEFINE r == Remove(pending, Waiting(o))
  <2>1. r \in Seq(Cmds) /\ Len(r) = 0
    BY <1>3, <1>4
  <2> HIDE DEF r
  <2>2. r = << >> /\ pending # << >>
    BY <1>1, <1>4, <2>1, QueueStep
  <2> QED
    BY <2>2 DEF r
<1> QED
  BY <1>2, <1>3, <1>4, <1>5, Constants DEF Elements

-----------------------------------------------------------------------------

LEMMA AllowedKept ==
  ASSUME AnswersAllowed, UNCHANGED rx_q, hci'.entry = hci.entry, hci'.packet = hci.packet
  PROVE  AnswersAllowed'
BY DEF AnswersAllowed, MayAnswer

LEMMA AllowedTaken ==
  ASSUME Base, AnswersAllowed, hci.at = "up", hci.n > 0, rx_q' = Tail(rx_q), hci'.entry = None
  PROVE  AnswersAllowed'
<1>1. \A i \in 1..Len(rx_q') : rx_q'[i] = rx_q[i + 1] /\ i + 1 \in 1..Len(rx_q)
  BY TakenFacts
<1> QED
  BY <1>1 DEF AnswersAllowed, MayAnswer

LEMMA AllowedDelivered ==
  ASSUME Base, AnswersAllowed, NEW e \in EventRecords, Deliver(e), UNCHANGED hci,
         e.opcode # None => MayAnswer(e.opcode, e.type, e.ok)
  PROVE  AnswersAllowed'
<1>1. \A i \in 1..Len(rx_q') : \/ i \in 1..Len(rx_q) /\ rx_q'[i] = rx_q[i]
                               \/ i = Len(rx_q) + 1 /\ rx_q'[i] = e
  BY DeliverBase
<1>2. hci' = hci
  OBVIOUS
<1>3. \A i \in 1..Len(rx_q') :
         rx_q'[i].opcode # None => MayAnswer(rx_q'[i].opcode, rx_q'[i].type, rx_q'[i].ok)
  BY <1>1 DEF AnswersAllowed
<1> QED
  BY <1>2, <1>3 DEF AnswersAllowed, MayAnswer

\* What the controller may deliver: an answer to a command it holds, the event that
\* ends a pause, or a packet without opcode and credits.
LEMMA Delivered ==
  ASSUME NoAnswerLost, Base, Controller
  PROVE  \/ \E e \in EventRecords :
               /\ rx_q' = Append(rx_q, e) /\ Deliver(e)
               /\ e.opcode # None /\ MayAnswer(e.opcode, e.type, e.ok)
         \/ \E e \in EventRecords :
               /\ rx_q' = Append(rx_q, e) /\ Deliver(e)
               /\ e.opcode = None /\ ctl.paused /\ ctl'.paused = FALSE
         \/ \E e \in EventRecords :
               Deliver(e) /\ e.opcode = None /\ e.credits = 0 /\ ctl'.paused = ctl.paused
         \/ UNCHANGED rx_q /\ ctl'.paused = ctl.paused
<1>1. ctl \in CtlRecords /\ Room(Held) \in Nat /\ Room(Held - 1) \in Nat
  BY RoomsNat DEF Base, TypeOK, CtlRecords
<1>2. ASSUME NEW o \in Opcodes, NEW type \in {"complete", "status"}, NEW ok \in BOOLEAN,
             Answer(o, type, ok)
      PROVE  \E e \in EventRecords : /\ rx_q' = Append(rx_q, e) /\ Deliver(e)
                                     /\ e.opcode # None /\ MayAnswer(e.opcode, e.type, e.ok)
  <2>1. PICK paused \in BOOLEAN :
           Deliver(Event(type, o, ok, IF paused THEN 0 ELSE Room(Held - 1)))
    BY <1>2 DEF Answer
  <2> DEFINE e == Event(type, o, ok, IF paused THEN 0 ELSE Room(Held - 1))
  <2>2. e \in EventRecords /\ e.opcode = o /\ e.type = type /\ e.ok = ok
    BY <1>1 DEF Event, EventRecords, EventTypes
  <2>3. MayAnswer(o, type, ok) /\ o # None
    BY <1>2, Constants DEF Answer
  <2>4. Deliver(e)
    BY <2>1
  <2> HIDE DEF e
  <2>5. rx_q' = Append(rx_q, e)
    BY <2>2, <2>4 DEF Deliver, NoAnswerLost
  <2> QED
    BY <2>2, <2>3, <2>4, <2>5
<1>3. CASE AnswerNone
  <2> DEFINE e == Event("complete", None, TRUE, Room(Held))
  <2>1. e \in EventRecords /\ e.opcode = None /\ e.type = "complete"
    BY <1>1 DEF Event, EventRecords, EventTypes
  <2>2. Deliver(e) /\ ctl.paused /\ ctl'.paused = FALSE
    BY <1>1, <1>3 DEF AnswerNone, CtlRecords
  <2> HIDE DEF e
  <2>3. rx_q' = Append(rx_q, e)
    BY <2>1, <2>2 DEF Deliver, NoAnswerLost
  <2> QED
    BY <2>1, <2>2, <2>3
<1>4. CASE SendAcl \/ SendEvent
  <2>1. ctl'.paused = ctl.paused
    BY <1>1, <1>4 DEF SendAcl, SendEvent, CtlRecords
  <2>2. \A type \in {"acl", "event"} : /\ Plain(type) \in EventRecords
                                       /\ Plain(type).opcode = None /\ Plain(type).credits = 0
    BY DEF Plain, Event, EventRecords, EventTypes
  <2>3. Deliver(Plain("acl")) \/ Deliver(Plain("event"))
    BY <1>4 DEF SendAcl, SendEvent
  <2> QED
    BY <2>1, <2>2, <2>3
<1>5. CASE Available
  BY <1>1, <1>5 DEF Available, receiving, CtlRecords
<1> QED
  BY <1>2, <1>3, <1>4, <1>5 DEF Controller

LEMMA AllowedNext ==
  ASSUME NoAnswerLost
  PROVE  Base /\ AnswersAllowed /\ [Next]_vars => AnswersAllowed'
<1> SUFFICES ASSUME Base, AnswersAllowed, [Next]_vars PROVE AnswersAllowed'
  OBVIOUS
<1> USE DEF sending, receiving, above
<1>1. CASE Btu
  BY <1>1, AllowedKept DEF Btu, Send, SendPacket, SyncTake, SyncRead, Handle
<1>2. CASE HciDown
  <2>1. UNCHANGED rx_q /\ hci'.entry = hci.entry /\ hci'.packet = hci.packet
    BY <1>2 DEF HciDown, DownBegin, SendCommand, SendAck, SendData, DownEnd, Base, TypeOK
  <2> QED
    BY <2>1, AllowedKept
<1>3. CASE UpBegin \/ UpEnd
  <2>1. UNCHANGED rx_q /\ hci'.entry = hci.entry /\ hci'.packet = hci.packet
    BY <1>3 DEF UpBegin, UpEnd, Base, TypeOK
  <2> QED
    BY <2>1, AllowedKept
<1>4. CASE ReceiveData
  BY <1>4, AllowedTaken DEF ReceiveData
<1>5. CASE ReceiveFutureAnswer \/ ReceiveUnmatched
  <2>1. /\ hci.at = "up" /\ hci.n > 0 /\ rx_q' = Tail(rx_q)
        /\ hci' = [hci EXCEPT !.n = @ - 1]
    BY <1>5 DEF ReceiveFutureAnswer, ReceiveUnmatched
  <2>2. hci'.entry = None
    BY <2>1, NextPacket DEF Base, TypeOK
  <2> QED
    BY <2>1, <2>2, AllowedTaken
<1>6. CASE ReceiveAnswer
  <2> DEFINE e == Head(rx_q)
             i == Waiting(e.opcode)
  <2>1. /\ hci.at = "up" /\ hci.n > 0 /\ rx_q' = Tail(rx_q) /\ i # 0
        /\ hci' = [at |-> "post", n |-> hci.n - 1,
                   packet |-> [e EXCEPT !.credits = 0], entry |-> pending[i]]
    BY <1>6 DEF ReceiveAnswer
  <2>2. e = rx_q[1] /\ 1 \in 1..Len(rx_q) /\ e \in EventRecords
    BY <2>1, NextPacket
  <2>3. Opcode[pending[i]] = e.opcode /\ pending[i] \in Cmds
    BY <2>1, WaitingFound DEF Base, TypeOK
  <2>4. e.opcode # None
    BY <2>3, Constants
  <2> HIDE DEF i
  <2>5. /\ hci'.entry = pending[i] /\ hci'.packet.opcode = e.opcode
        /\ hci'.packet.type = e.type /\ hci'.packet.ok = e.ok
    BY <2>1, <2>2 DEF EventRecords
  <2>6. MayAnswer(e.opcode, e.type, e.ok)
    BY <2>2, <2>4 DEF AnswersAllowed
  <2> HIDE DEF e
  <2>7. hci'.packet.opcode = Opcode[hci'.entry]
        /\ MayAnswer(hci'.packet.opcode, hci'.packet.type, hci'.packet.ok)
    BY <2>3, <2>5, <2>6
  <2>8. \A j \in 1..Len(rx_q') : rx_q'[j] = rx_q[j + 1] /\ j + 1 \in 1..Len(rx_q)
    BY <2>1, TakenFacts
  <2>9. \A j \in 1..Len(rx_q') :
           rx_q'[j].opcode # None => MayAnswer(rx_q'[j].opcode, rx_q'[j].type, rx_q'[j].ok)
    BY <2>8 DEF AnswersAllowed
  <2> QED
    BY <2>7, <2>9 DEF AnswersAllowed, MayAnswer
<1>7. CASE Post
  <2>1. UNCHANGED rx_q /\ hci'.entry = None
    BY <1>7 DEF Post, Base, TypeOK
  <2> QED
    BY <2>1 DEF AnswersAllowed, MayAnswer
<1>8. CASE Controller
  <2>1. UNCHANGED hci
    BY <1>8 DEF Controller, Answer, AnswerNone, SendAcl, SendEvent, Available
  <2> QED
    BY <1>8, <2>1, Delivered, AllowedDelivered, AllowedKept
<1>9. CASE Timer \/ UNCHANGED vars
  BY <1>9, AllowedKept DEF Timer, AlarmFires, TimedOut, vars
<1> QED
  BY <1>1, <1>2, <1>3, <1>4, <1>5, <1>6, <1>7, <1>8, <1>9 DEF Next, Hci, HciUp

-----------------------------------------------------------------------------

LEMMA FirstKept ==
  ASSUME AnswerFirst, UNCHANGED << pending, command_credits, rx_q >>, ctl'.paused = ctl.paused
  PROVE  AnswerFirst'
BY DEF AnswerFirst

\* HCI handles a packet that is no answer to a command.
LEMMA FirstTaken ==
  ASSUME Base, OneCommand, ctl.slots = 1, AnswerFirst, hci.at = "up", hci.n > 0,
         rx_q' = Tail(rx_q), Head(rx_q).opcode = None, UNCHANGED << pending, ctl >>,
         command_credits' \in {command_credits, Head(rx_q).credits}
  PROVE  AnswerFirst'
<1> SUFFICES ASSUME pending # << >> PROVE AnswerFirst'
  BY DEF AnswerFirst
<1>1. /\ Head(rx_q) = rx_q[1] /\ 1 \in 1..Len(rx_q) /\ rx_q[1] \in EventRecords
      /\ Len(rx_q) \in Nat /\ Len(rx_q') = Len(rx_q) - 1
  BY NextPacket
<1>2. \A i \in 1..Len(rx_q') : rx_q'[i] = rx_q[i + 1] /\ i + 1 \in 1..Len(rx_q)
  BY TakenFacts
<1>3. \A j \in 1..Len(rx_q) :
         rx_q[j].opcode # None => /\ j # 1 /\ j - 1 \in 1..Len(rx_q')
                                  /\ rx_q'[j - 1] = rx_q[j]
  <2> SUFFICES ASSUME NEW j \in 1..Len(rx_q), rx_q[j].opcode # None
               PROVE  j # 1 /\ j - 1 \in 1..Len(rx_q') /\ rx_q'[j - 1] = rx_q[j]
    OBVIOUS
  <2>1. j # 1
    BY <1>1
  <2>2. j - 1 \in 1..Len(rx_q') /\ (j - 1) + 1 = j
    BY <2>1, <1>1
  <2> QED
    BY <2>1, <2>2, <1>2
<1>4. command_credits' = 0
  <2>1. rx_q[1].credits # 1
    <3> SUFFICES ASSUME rx_q[1].credits = 1 PROVE FALSE
      OBVIOUS
    <3>1. PICK j \in 1..1 : rx_q[j].opcode # None
      BY <1>1 DEF AnswerFirst
    <3>2. j = 1
      OBVIOUS
    <3> QED
      BY <3>1, <3>2, <1>1
  <2>2. rx_q[1].credits \in Nat /\ rx_q[1].credits <= 1
    BY <1>1 DEF EventRecords, OneCommand
  <2> QED
    BY <1>1, <2>1, <2>2 DEF AnswerFirst
<1>5. ASSUME NEW i \in 1..Len(rx_q'), rx_q'[i].credits = 1
      PROVE  \E j \in 1..i : rx_q'[j].opcode # None
  <2>1. i + 1 \in 1..Len(rx_q) /\ rx_q[i + 1].credits = 1
    BY <1>2, <1>5
  <2>2. PICK j \in 1..(i + 1) : rx_q[j].opcode # None
    BY <2>1 DEF AnswerFirst
  <2>3. j \in 1..Len(rx_q)
    BY <2>1, <1>1
  <2>4. j # 1 /\ rx_q'[j - 1].opcode # None
    BY <1>3, <2>2, <2>3
  <2>5. j - 1 \in 1..i
    BY <2>4
  <2> QED
    BY <2>4, <2>5
<1>6. ASSUME ctl'.paused PROVE \E j \in 1..Len(rx_q') : rx_q'[j].opcode # None
  <2>1. PICK j \in 1..Len(rx_q) : rx_q[j].opcode # None
    BY <1>6 DEF AnswerFirst
  <2>2. j - 1 \in 1..Len(rx_q') /\ rx_q'[j - 1].opcode # None
    BY <1>3, <2>1
  <2> QED
    BY <2>2
<1> QED
  BY <1>4, <1>5, <1>6 DEF AnswerFirst

LEMMA FirstController ==
  ASSUME NoAnswerLost, Base, AnswerFirst, Controller
  PROVE  AnswerFirst'
<1>1. UNCHANGED << pending, command_credits >>
  BY DEF Controller, Answer, AnswerNone, SendAcl, SendEvent, Available, sending
<1> SUFFICES ASSUME pending # << >> PROVE AnswerFirst'
  BY <1>1 DEF AnswerFirst
<1>2. Len(rx_q) \in Nat /\ rx_q \in Seq(EventRecords)
  BY LenProperties DEF Base, TypeOK
\* What was in the queue stays where it was.
<1>3. ASSUME NEW e \in EventRecords, Deliver(e)
      PROVE  /\ Len(rx_q') \in Nat /\ Len(rx_q) <= Len(rx_q')
             /\ \A i \in 1..Len(rx_q) : i \in 1..Len(rx_q') /\ rx_q'[i] = rx_q[i]
             /\ \A i \in 1..Len(rx_q') : i \in 1..Len(rx_q) \/ (i = Len(rx_q) + 1 /\ rx_q'[i] = e)
  <2>1. /\ rx_q' \in Seq(EventRecords) /\ Len(rx_q') >= Len(rx_q)
        /\ \A i \in 1..Len(rx_q') : \/ i \in 1..Len(rx_q) /\ rx_q'[i] = rx_q[i]
                                    \/ i = Len(rx_q) + 1 /\ rx_q'[i] = e
    BY <1>3, DeliverBase
  <2>2. Len(rx_q') \in Nat
    BY <2>1, LenProperties
  <2>3. \A i \in 1..Len(rx_q) : i \in 1..Len(rx_q') /\ i # Len(rx_q) + 1
    BY <1>2, <2>1, <2>2
  <2> QED
    BY <2>1, <2>2, <2>3
\* A permission that was in the queue still has its answer before it.
<1>4. ASSUME NEW e \in EventRecords, Deliver(e), NEW i \in 1..Len(rx_q), rx_q'[i].credits = 1
      PROVE  \E j \in 1..i : rx_q'[j].opcode # None
  <2>1. rx_q[i].credits = 1
    BY <1>3, <1>4
  <2>2. PICK j \in 1..i : rx_q[j].opcode # None
    BY <2>1 DEF AnswerFirst
  <2>3. j \in 1..Len(rx_q)
    BY <1>2
  <2> QED
    BY <1>3, <1>4, <2>2, <2>3
<1>5. CASE \E e \in EventRecords : /\ rx_q' = Append(rx_q, e) /\ Deliver(e)
                                   /\ e.opcode # None
  <2>1. PICK e \in EventRecords : rx_q' = Append(rx_q, e) /\ Deliver(e) /\ e.opcode # None
    BY <1>5
  <2>2. /\ Len(rx_q') = Len(rx_q) + 1 /\ Len(rx_q') \in 1..Len(rx_q')
        /\ rx_q'[Len(rx_q')].opcode # None
    BY <1>2, <2>1, AppendProperties
  <2>3. \A i \in 1..Len(rx_q') : rx_q'[i].credits = 1 => \E j \in 1..i : rx_q'[j].opcode # None
    <3> SUFFICES ASSUME NEW i \in 1..Len(rx_q'), rx_q'[i].credits = 1
                 PROVE  \E j \in 1..i : rx_q'[j].opcode # None
      OBVIOUS
    <3>1. CASE i \in 1..Len(rx_q)
      BY <2>1, <3>1, <1>4
    <3>2. CASE i = Len(rx_q')
      BY <2>2, <3>2
    <3> QED
      BY <1>3, <2>1, <2>2, <3>1, <3>2
  <2> QED
    BY <1>1, <2>2, <2>3 DEF AnswerFirst
<1>6. CASE \E e \in EventRecords : /\ rx_q' = Append(rx_q, e) /\ Deliver(e)
                                   /\ e.opcode = None /\ ctl.paused /\ ctl'.paused = FALSE
  <2>1. PICK e \in EventRecords : /\ rx_q' = Append(rx_q, e) /\ Deliver(e)
                                  /\ ctl.paused /\ ctl'.paused = FALSE
    BY <1>6
  <2>2. PICK j \in 1..Len(rx_q) : rx_q[j].opcode # None
    BY <2>1 DEF AnswerFirst
  <2>3. rx_q'[j].opcode # None
    BY <1>3, <2>1, <2>2
  <2>4. \A i \in 1..Len(rx_q') : rx_q'[i].credits = 1 => \E k \in 1..i : rx_q'[k].opcode # None
    <3> SUFFICES ASSUME NEW i \in 1..Len(rx_q'), rx_q'[i].credits = 1
                 PROVE  \E k \in 1..i : rx_q'[k].opcode # None
      OBVIOUS
    <3>1. CASE i \in 1..Len(rx_q)
      BY <2>1, <3>1, <1>4
    <3>2. CASE i = Len(rx_q) + 1
      BY <1>2, <2>3, <3>2
    <3> QED
      BY <1>3, <2>1, <3>1, <3>2
  <2> QED
    BY <1>1, <2>1, <2>4 DEF AnswerFirst
<1>7. CASE \E e \in EventRecords : /\ Deliver(e) /\ e.opcode = None /\ e.credits = 0
                                   /\ ctl'.paused = ctl.paused
  <2>1. PICK e \in EventRecords : Deliver(e) /\ e.credits = 0 /\ ctl'.paused = ctl.paused
    BY <1>7
  <2>2. \A i \in 1..Len(rx_q') : rx_q'[i].credits = 1 => \E j \in 1..i : rx_q'[j].opcode # None
    BY <1>3, <1>4, <2>1
  <2>3. ctl'.paused => \E j \in 1..Len(rx_q') : rx_q'[j].opcode # None
    BY <1>3, <2>1 DEF AnswerFirst
  <2> QED
    BY <1>1, <2>2, <2>3 DEF AnswerFirst
<1>8. CASE UNCHANGED rx_q /\ ctl'.paused = ctl.paused
  BY <1>1, <1>8, FirstKept
<1> QED
  BY <1>5, <1>6, <1>7, <1>8, Delivered

LEMMA FirstNext ==
  ASSUME NoAnswerLost, Matched, OneCommand, ctl.slots = 1, AnswerFirst, [Next]_vars
  PROVE  AnswerFirst'
<1> USE DEF sending, receiving, above
<1>1. Base /\ ctl \in CtlRecords
  BY DEF Matched, Base, TypeOK, CtlRecords
<1>2. CASE Btu
  BY <1>2, FirstKept DEF Btu, Send, SendPacket, SyncTake, SyncRead, Handle
<1>3. CASE SendCommand
  <2>1. command_credits = 1
    BY <1>1, <1>3 DEF SendCommand, CommandReady, Base, TypeOK, OneCommand
  <2>2. pending = << >> /\ NothingOffered /\ ~ctl.paused
    BY <2>1 DEF AnswerFirst, OneCommand
  <2>3. /\ pending' = Append(pending, Head(command_queue))
        /\ command_credits' = 0 /\ rx_q' = rx_q /\ ctl'.paused = ctl.paused
    BY <1>1, <1>3, <2>1 DEF SendCommand, CtlRecords
  <2>4. Len(pending') = 1
    BY <2>2, <2>3
  <2> QED
    BY <2>2, <2>3, <2>4 DEF AnswerFirst, NothingOffered
<1>4. CASE DownBegin \/ SendAck \/ SendData \/ DownEnd
  <2>1. UNCHANGED << pending, command_credits, rx_q >> /\ ctl'.paused = ctl.paused
    BY <1>1, <1>4 DEF DownBegin, SendAck, SendData, DownEnd, CtlRecords
  <2> QED
    BY <2>1, FirstKept
<1>5. CASE UpBegin \/ Post \/ UpEnd
  BY <1>5, FirstKept DEF UpBegin, Post, UpEnd
<1>6. CASE ReceiveData
  <2>1. /\ hci.at = "up" /\ hci.n > 0 /\ rx_q' = Tail(rx_q)
        /\ Head(rx_q).type \in {"acl", "event"} /\ UNCHANGED << pending, ctl, command_credits >>
    BY <1>6 DEF ReceiveData
  <2>2. Head(rx_q) = rx_q[1] /\ 1 \in 1..Len(rx_q)
    BY <1>1, <2>1, NextPacket
  <2>3. Head(rx_q).opcode = None
    BY <1>1, <2>1, <2>2 DEF Base, InHand
  <2> QED
    BY <1>1, <2>1, <2>3, FirstTaken
<1>7. CASE ReceiveUnmatched
  <2>1. /\ hci.at = "up" /\ hci.n > 0 /\ rx_q' = Tail(rx_q) /\ UNCHANGED << pending, ctl >>
        /\ Waiting(Head(rx_q).opcode) = 0 /\ command_credits' = Head(rx_q).credits
    BY <1>7 DEF ReceiveUnmatched
  <2>2. Head(rx_q) = rx_q[1] /\ 1 \in 1..Len(rx_q)
    BY <1>1, <2>1, NextPacket
  <2>3. Head(rx_q).opcode = None
    BY <1>1, <2>1, <2>2, AnswerIsMatched DEF Matched
  <2> QED
    BY <1>1, <2>1, <2>3, FirstTaken
<1>8. CASE ReceiveAnswer \/ ReceiveFutureAnswer
  <2>1. Waiting(Head(rx_q).opcode) # 0 /\ pending' = Remove(pending, Waiting(Head(rx_q).opcode))
    BY <1>8 DEF ReceiveAnswer, ReceiveFutureAnswer
  <2>2. pending' = << >>
    BY <1>1, <2>1, OneTaken
  <2>3. Len(pending') <= 1
    BY <2>2
  <2> QED
    BY <2>2, <2>3 DEF AnswerFirst
<1>9. CASE Controller
  BY <1>1, <1>9, FirstController
<1>10. CASE Timer \/ UNCHANGED vars
  BY <1>10, FirstKept DEF Timer, AlarmFires, TimedOut, vars
<1> QED
  BY <1>2, <1>3, <1>4, <1>5, <1>6, <1>7, <1>8, <1>9, <1>10 DEF Next, Hci, HciUp, HciDown

-----------------------------------------------------------------------------

\* What is in the queue after it has been appended to, or its head taken.
LEMMA QueueElements ==
  ASSUME NEW S, NEW q \in Seq(S)
  PROVE  /\ \A x \in S : Elements(Append(q, x)) = Elements(q) \cup {x}
         /\ q # << >> => Elements(q) = Elements(Tail(q)) \cup {Head(q)}
<1>1. ASSUME NEW x \in S PROVE Elements(Append(q, x)) = Elements(q) \cup {x}
  <2> DEFINE r == Append(q, x)
  <2>1. /\ r \in Seq(S) /\ Len(q) \in Nat /\ Len(r) = Len(q) + 1
        /\ DOMAIN q = 1..Len(q) /\ DOMAIN r = 1..Len(r)
        /\ \A i \in 1..Len(q) : r[i] = q[i]
        /\ r[Len(q) + 1] = x
    BY AppendProperties, LenProperties
  <2> HIDE DEF r
  <2>2. DOMAIN r = DOMAIN q \cup {Len(q) + 1}
    BY <2>1
  <2> QED
    BY <2>1, <2>2 DEF Elements, r
<1>2. ASSUME q # << >> PROVE Elements(q) = Elements(Tail(q)) \cup {Head(q)}
  <2> DEFINE t == Tail(q)
  <2>1. /\ Len(q) \in Nat /\ Len(q) > 0 /\ Head(q) = q[1]
        /\ DOMAIN q = 1..Len(q) /\ DOMAIN t = 1..(Len(q) - 1)
        /\ \A i \in 1..(Len(q) - 1) : t[i] = q[i + 1]
    <3>1. t \in Seq(S) /\ Len(t) = Len(q) - 1
      BY <1>2, QueueStep
    <3> QED
      BY <1>2, <3>1, QueueStep
  <2> HIDE DEF t
  <2>2. ASSUME NEW y \in Elements(q) PROVE y \in Elements(t) \cup {q[1]}
    <3>1. PICK i \in 1..Len(q) : y = q[i]
      BY <2>1, <2>2 DEF Elements
    <3>2. CASE i = 1
      BY <3>1, <3>2
    <3>3. CASE i # 1
      <4>1. i - 1 \in DOMAIN t /\ t[i - 1] = q[i]
        BY <2>1, <3>3
      <4> QED
        BY <3>1, <4>1 DEF Elements
    <3> QED
      BY <3>2, <3>3
  <2>3. ASSUME NEW y \in Elements(t) PROVE y \in Elements(q)
    <3>1. PICK i \in 1..(Len(q) - 1) : y = t[i]
      BY <2>1, <2>3 DEF Elements
    <3>2. i + 1 \in DOMAIN q /\ q[i + 1] = y
      BY <2>1, <3>1
    <3> QED
      BY <3>2 DEF Elements
  <2>4. q[1] \in Elements(q)
    BY <2>1 DEF Elements
  <2> QED
    BY <2>1, <2>2, <2>3, <2>4 DEF t
<1> QED
  BY <1>1, <1>2

\* Nothing is unanswered that was not, and BTU waits as before.
LEMMA WaitsKept ==
  ASSUME CallerWaits, UnansweredCmds' \subseteq UnansweredCmds,
         hci'.entry \in {None, hci.entry},
         UNCHANGED btu, sync'.sem = sync.sem
  PROVE  CallerWaits'
BY DEF CallerWaits

LEMMA WaitsKeptAll ==
  ASSUME CallerWaits, UNCHANGED << command_queue, pending, btu >>,
         hci'.entry \in {None, hci.entry}, sync'.sem = sync.sem
  PROVE  CallerWaits'
<1>1. UnansweredCmds' = UnansweredCmds
  BY DEF UnansweredCmds, Elements
<1> QED
  BY <1>1, WaitsKept

\* BTU waits for no command: only such are left as it does not wait for.
LEMMA NooneWaits ==
  ASSUME CallerWaits, btu.at \notin {"wait", "await"} \/ (btu.at = "wait" /\ sync.sem)
  PROVE  /\ \A c \in UnansweredCmds : Kind[Opcode[c]] \notin {"sync", "future"}
         /\ hci.entry # None => Kind[Opcode[hci.entry]] \notin {"sync", "future"}
BY DEF CallerWaits

LEMMA SendWaits ==
  ASSUME Base, CallerWaits, SyncPhases, NEW d \in Cmds, Send(d)
  PROVE  CallerWaits'
<1>1. /\ command_queue' = Append(command_queue, d) /\ command_queue \in Seq(Cmds \cup {Ack})
      /\ btu.at = "idle" /\ UNCHANGED << pending, hci >>
      /\ Kind[Opcode[d]] = "sync" => btu' = [at |-> "wait", cmd |-> d]
      /\ Kind[Opcode[d]] = "future" => btu' = [at |-> "await", cmd |-> d]
      /\ sync'.sem = sync.sem
  BY DEF Send, Base, TypeOK
<1>2. UnansweredCmds' = UnansweredCmds \cup {d}
  <2>1. Elements(command_queue') = Elements(command_queue) \cup {d}
    BY <1>1, QueueElements
  <2>2. Elements(pending') = Elements(pending)
    BY <1>1
  <2> QED
    BY <2>1, <2>2 DEF UnansweredCmds, Elements
<1>3. ~sync'.sem
  BY <1>1 DEF SyncPhases
<1>4. /\ \A c \in UnansweredCmds : Kind[Opcode[c]] \notin {"sync", "future"}
      /\ hci.entry # None => Kind[Opcode[hci.entry]] \notin {"sync", "future"}
  BY <1>1, NooneWaits
<1>5. ASSUME NEW c \in UnansweredCmds'
      PROVE  /\ Kind[Opcode[c]] = "sync" => btu'.at = "wait" /\ ~sync'.sem /\ btu'.cmd = c
             /\ Kind[Opcode[c]] = "future" => btu'.at = "await" /\ btu'.cmd = c
  <2>1. CASE c = d
    BY <1>1, <1>3, <2>1
  <2>2. CASE c \in UnansweredCmds
    BY <1>4, <2>2
  <2> QED
    BY <1>2, <2>1, <2>2
<1>6. hci' = hci
  BY <1>1
<1> QED
  BY <1>4, <1>5, <1>6 DEF CallerWaits

LEMMA SendCommandWaits ==
  ASSUME Base, CallerWaits, SendCommand
  PROVE  CallerWaits'
<1> DEFINE d == Head(command_queue)
<1>1. /\ command_queue # << >> /\ command_queue' = Tail(command_queue)
      /\ command_queue \in Seq(Cmds \cup {Ack}) /\ d # Ack
      /\ pending' = Append(pending, d) /\ pending \in Seq(Cmds)
      /\ UNCHANGED << hci, btu, sync >>
  BY DEF SendCommand, CommandReady, Base, TypeOK, above
<1>2. d \in Cmds
  BY <1>1, QueueStep
<1>3. Elements(command_queue) = Elements(command_queue') \cup {d}
  BY <1>1, QueueElements
<1>4. Elements(pending') = Elements(pending) \cup {d}
  BY <1>1, <1>2, QueueElements
<1>5. UnansweredCmds' = UnansweredCmds
  BY <1>2, <1>3, <1>4 DEF UnansweredCmds, Elements
<1> QED
  BY <1>1, <1>5, WaitsKept

\* Acknowledgements are not commands.
LEMMA AckWaits ==
  ASSUME Base, CallerWaits, SendAck \/ ReceiveData
  PROVE  CallerWaits'
<1>1. UNCHANGED << pending, btu, sync >> /\ hci'.entry \in {None, hci.entry}
  <2>1. CASE SendAck
    BY <2>1 DEF SendAck, above
  <2>2. CASE ReceiveData
    BY <2>2 DEF ReceiveData, above
  <2> QED
    BY <2>1, <2>2
<1>2. command_queue \in Seq(Cmds \cup {Ack}) /\ Ack \notin Cmds
  BY Constants DEF Base, TypeOK
<1>3. Elements(command_queue') \subseteq Elements(command_queue) \cup {Ack}
  <2>1. CASE command_queue # << >> /\ command_queue' = Tail(command_queue)
    BY <1>2, <2>1, QueueElements
  <2>2. CASE command_queue' = Append(command_queue, Ack)
    BY <1>2, <2>2, QueueElements
  <2>3. CASE command_queue' = command_queue
    BY <2>3
  <2> QED
    BY <2>1, <2>2, <2>3 DEF SendAck, ReceiveData, CommandReady
<1>4. UnansweredCmds' \subseteq UnansweredCmds
  BY <1>1, <1>2, <1>3 DEF UnansweredCmds, Elements
<1> QED
  BY <1>1, <1>4, WaitsKept

LEMMA ReceiveAnswerWaits ==
  ASSUME Base, AnswerFirst, CallerWaits, ReceiveAnswer
  PROVE  CallerWaits'
<1> DEFINE o == Head(rx_q).opcode
<1>1. /\ Waiting(o) # 0 /\ pending' = Remove(pending, Waiting(o)) /\ Kind[o] # "future"
      /\ hci'.entry = pending[Waiting(o)]
      /\ UNCHANGED << command_queue, btu >>
  BY DEF ReceiveAnswer
<1>2. sync'.sem = sync.sem
  BY DEF ReceiveAnswer, Base, TypeOK
<1>3. /\ pending' = << >> /\ hci'.entry \in Elements(pending) /\ Opcode[hci'.entry] = o
  BY <1>1, OneTaken
<1> HIDE DEF o
<1>4. UnansweredCmds' \subseteq UnansweredCmds
  BY <1>1, <1>3 DEF UnansweredCmds, Elements
<1>5. hci'.entry \in UnansweredCmds
  BY <1>3 DEF UnansweredCmds
<1> QED
  BY <1>1, <1>2, <1>3, <1>4, <1>5 DEF CallerWaits

\* Command Complete is the one answer to a command with a future: BTU is released,
\* and no other command was its own.
LEMMA ReceiveFutureAnswerWaits ==
  ASSUME Base, EveryCommandHasOneHolder, AnswersAllowed, AnswerFirst, CallerWaits,
         ReceiveFutureAnswer
  PROVE  /\ CallerWaits'
         /\ btu.at = "await" /\ btu' = [at |-> "idle", cmd |-> None]
<1> DEFINE e == Head(rx_q)
           o == e.opcode
<1>1. /\ Waiting(o) # 0 /\ pending' = Remove(pending, Waiting(o)) /\ Kind[o] = "future"
      /\ btu' = IF e.type = "complete" THEN [at |-> "idle", cmd |-> None] ELSE btu
      /\ hci' = [hci EXCEPT !.n = @ - 1] /\ hci.at = "up" /\ hci.n > 0
      /\ UNCHANGED << command_queue, sync >>
  BY DEF ReceiveFutureAnswer
<1>2. hci.entry = None /\ hci'.entry = None /\ e = rx_q[1] /\ 1 \in 1..Len(rx_q)
  BY <1>1, NextPacket DEF Base, TypeOK
<1> DEFINE d == pending[1]
<1>3. /\ Waiting(o) = 1 /\ pending' = << >> /\ d \in Elements(pending) /\ d \in Cmds
      /\ Opcode[d] = o /\ o # None
  BY <1>1, OneTaken
<1>4. e.type = "complete"
  BY <1>1, <1>2, <1>3 DEF AnswersAllowed, MayAnswer
<1>5. btu.at = "await" /\ btu.cmd = d
  <2>1. d \in UnansweredCmds
    BY <1>3 DEF UnansweredCmds
  <2> QED
    BY <1>1, <1>3, <2>1 DEF CallerWaits
<1> HIDE DEF d
<1>6. d \notin Elements(command_queue)
  BY <1>3, OnePlace DEF Base
<1>7. UnansweredCmds' \subseteq UnansweredCmds \ {d}
  BY <1>1, <1>3, <1>6 DEF UnansweredCmds, Elements
<1>8. \A c \in UnansweredCmds' : Kind[Opcode[c]] \notin {"sync", "future"}
  BY <1>5, <1>7 DEF CallerWaits
<1> QED
  BY <1>1, <1>2, <1>4, <1>5, <1>8 DEF CallerWaits

\* Only the answer to BTU's own command gives sync_sem.
LEMMA ReleaseIsOwn ==
  ASSUME Base, AnswersAllowed, CallerWaits, SyncPhases, hci.entry # None, Releases(hci.packet)
  PROVE  /\ btu.at = "wait" /\ ~sync.sem /\ btu.cmd = hci.entry /\ hci.entry \in Cmds
<1>1. hci.packet.opcode = Opcode[hci.entry] /\ hci.entry \in Cmds
  BY DEF AnswersAllowed, Base, TypeOK
<1>2. sync.opcode # None /\ sync.opcode = Opcode[hci.entry]
  BY <1>1 DEF Releases
<1>3. btu.at \in {"idle", "wait", "await", "read"} /\ sync.sem \in BOOLEAN
  BY DEF Base, TypeOK
<1>4. btu.at = "wait" /\ ~sync.sem
  BY <1>2, <1>3 DEF SyncPhases
<1>5. Kind[Opcode[hci.entry]] = "sync"
  BY <1>2, <1>4 DEF SyncPhases
<1> QED
  BY <1>1, <1>4, <1>5 DEF CallerWaits

LEMMA PostWaits ==
  ASSUME Base, EveryCommandHasOneHolder, AnswersAllowed, CallerWaits, SyncPhases, Post
  PROVE  CallerWaits'
<1>1. hci'.entry = None /\ UNCHANGED << command_queue, pending, btu >>
  BY DEF Post, sending, Base, TypeOK
<1>2. CASE hci.entry # None /\ Releases(hci.packet)
  <2>1. btu.at = "wait" /\ btu.cmd = hci.entry /\ hci.entry \in Cmds
    BY <1>2, ReleaseIsOwn
  <2>2. hci.entry \notin UnansweredCmds
    BY <2>1, OnePlace DEF UnansweredCmds, Base
  <2>3. UnansweredCmds' = UnansweredCmds
    BY <1>1 DEF UnansweredCmds, Elements
  <2>4. \A c \in UnansweredCmds : Kind[Opcode[c]] \notin {"sync", "future"}
    BY <2>1, <2>2 DEF CallerWaits
  <2> QED
    BY <1>1, <2>3, <2>4 DEF CallerWaits
<1>3. CASE ~(hci.entry # None /\ Releases(hci.packet))
  <2>1. UNCHANGED sync
    BY <1>3 DEF Post
  <2> QED
    BY <1>1, <2>1, WaitsKeptAll
<1> QED
  BY <1>2, <1>3

LEMMA WaitsNext ==
  ASSUME Matched, AnswersAllowed, AnswerFirst, CallerWaits, SyncPhases, [Next]_vars
  PROVE  CallerWaits'
<1> USE DEF sending, receiving, above
<1>1. Base /\ EveryCommandHasOneHolder
  BY DEF Matched
<1>2. CASE Btu
  <2>1. CASE SendPacket \/ Handle
    BY <2>1, WaitsKeptAll DEF SendPacket, Handle
  <2>2. CASE SyncTake \/ SyncRead
    <3>1. /\ \A c \in UnansweredCmds : Kind[Opcode[c]] \notin {"sync", "future"}
          /\ hci.entry # None => Kind[Opcode[hci.entry]] \notin {"sync", "future"}
      BY <2>2, NooneWaits DEF SyncTake, SyncRead
    <3>2. UNCHANGED << command_queue, pending, hci >>
      BY <2>2 DEF SyncTake, SyncRead
    <3>3. UnansweredCmds' = UnansweredCmds /\ hci'.entry = hci.entry
      BY <3>2 DEF UnansweredCmds, Elements
    <3> QED
      BY <3>1, <3>3 DEF CallerWaits
  <2> QED
    BY <1>1, <1>2, <2>1, <2>2, SendWaits DEF Btu
<1>3. CASE HciDown
  <2>1. CASE DownBegin \/ SendData \/ DownEnd
    <3>1. UNCHANGED << command_queue, pending, btu, sync >> /\ hci'.entry = hci.entry
      BY <1>1, <2>1 DEF DownBegin, SendData, DownEnd, Base, TypeOK
    <3> QED
      BY <3>1, WaitsKeptAll
  <2> QED
    BY <1>1, <1>3, <2>1, SendCommandWaits, AckWaits DEF HciDown
<1>4. CASE HciUp
  <2>1. CASE UpBegin \/ UpEnd \/ ReceiveUnmatched
    <3>1. UNCHANGED << command_queue, pending, btu, sync >> /\ hci'.entry = hci.entry
      BY <1>1, <2>1 DEF UpBegin, UpEnd, ReceiveUnmatched, Base, TypeOK
    <3> QED
      BY <3>1, WaitsKeptAll
  <2> QED
    BY <1>1, <1>4, <2>1, AckWaits, ReceiveAnswerWaits, ReceiveFutureAnswerWaits, PostWaits
       DEF HciUp
<1>5. CASE Controller
  BY <1>5, WaitsKeptAll DEF Controller, Answer, AnswerNone, SendAcl, SendEvent, Available
<1>6. CASE Timer \/ UNCHANGED vars
  BY <1>6, WaitsKeptAll DEF Timer, AlarmFires, TimedOut, vars
<1> QED
  BY <1>2, <1>3, <1>4, <1>5, <1>6 DEF Next, Hci

-----------------------------------------------------------------------------

LEMMA PhasesKept ==
  ASSUME SyncPhases, UNCHANGED << command_queue, pending, btu, sync >>, hci'.entry = hci.entry
  PROVE  SyncPhases'
<1>1. Unsent' = Unsent /\ Sent' = Sent /\ Kept' = Kept
  BY DEF Unsent, Sent, Kept, OnlyAcksAfter
<1> QED
  BY <1>1 DEF SyncPhases

LEMMA QueueAppended ==
  ASSUME Base, NEW x \in Cmds \cup {Ack}, command_queue' = Append(command_queue, x)
  PROVE  /\ Len(command_queue) \in Nat /\ Len(command_queue') = Len(command_queue) + 1
         /\ \A i \in 1..Len(command_queue) : command_queue'[i] = command_queue[i]
         /\ command_queue'[Len(command_queue) + 1] = x
BY AppendProperties, LenProperties DEF Base, TypeOK

LEMMA QueueTaken ==
  ASSUME Base, command_queue # << >>, command_queue' = Tail(command_queue)
  PROVE  /\ Len(command_queue) \in Nat \ {0} /\ Len(command_queue') = Len(command_queue) - 1
         /\ \A i \in 1..Len(command_queue') : command_queue'[i] = command_queue[i + 1]
         /\ Head(command_queue) = command_queue[1] /\ 1 \in 1..Len(command_queue)
<1>1. command_queue \in Seq(Cmds \cup {Ack})
  BY DEF Base, TypeOK
<1>2. /\ Len(command_queue) \in Nat /\ Len(command_queue) > 0
      /\ Head(command_queue) = command_queue[1]
      /\ Len(command_queue') = Len(command_queue) - 1
      /\ \A i \in 1..(Len(command_queue) - 1) : command_queue'[i] = command_queue[i + 1]
  BY <1>1, QueueStep
<1> QED
  BY <1>2

\* What is said of the commands behind k, after the head has been taken.
LEMMA AcksTaken ==
  ASSUME Base, command_queue # << >>, command_queue' = Tail(command_queue)
  PROVE  /\ OnlyAcksAfter(0) => OnlyAcksAfter(0)'
         /\ OnlyAcksAfter(1) => OnlyAcksAfter(0)'
         /\ Unsent /\ UNCHANGED btu /\ Head(command_queue) # btu.cmd => Unsent'
<1>1. /\ Len(command_queue) \in Nat \ {0} /\ Len(command_queue') = Len(command_queue) - 1
      /\ \A i \in 1..Len(command_queue') : command_queue'[i] = command_queue[i + 1]
      /\ Head(command_queue) = command_queue[1] /\ 1 \in 1..Len(command_queue)
  BY QueueTaken
<1>2. ASSUME NEW k \in Nat, OnlyAcksAfter(k), NEW m \in Nat, k <= m + 1 PROVE OnlyAcksAfter(m)'
  <2> SUFFICES ASSUME NEW j \in 1..Len(command_queue'), j > m PROVE command_queue'[j] = Ack
    BY DEF OnlyAcksAfter
  <2>1. j + 1 \in 1..Len(command_queue) /\ j + 1 > k /\ command_queue'[j] = command_queue[j + 1]
    BY <1>1, <1>2
  <2> QED
    BY <2>1, <1>2 DEF OnlyAcksAfter
<1>3. OnlyAcksAfter(0) => OnlyAcksAfter(0)'
  BY <1>2
<1>4. OnlyAcksAfter(1) => OnlyAcksAfter(0)'
  BY <1>2
<1>5. ASSUME Unsent, UNCHANGED btu, Head(command_queue) # btu.cmd PROVE Unsent'
  <2>1. PICK k \in 1..Len(command_queue) : command_queue[k] = btu.cmd /\ OnlyAcksAfter(k)
    BY <1>5 DEF Unsent
  <2>2. k # 1
    BY <2>1, <1>1, <1>5
  <2> DEFINE m == k - 1
  <2>3. m \in Nat /\ m \in 1..Len(command_queue') /\ m + 1 = k /\ k \in Nat /\ k <= m + 1
    BY <2>2, <1>1
  <2> HIDE DEF m
  <2>4. command_queue'[m] = btu'.cmd
    BY <2>1, <2>3, <1>1, <1>5
  <2>5. OnlyAcksAfter(m)'
    BY <2>1, <2>3, <1>2
  <2> QED
    BY <2>3, <2>4, <2>5 DEF Unsent
<1> QED
  BY <1>3, <1>4, <1>5

\* Acknowledgements come and go without a change to what BTU has sent.
LEMMA AckPhases ==
  ASSUME Base, SyncPhases, SendAck \/ ReceiveData
  PROVE  SyncPhases'
<1>1. UNCHANGED << pending, btu, sync >> /\ hci'.entry = hci.entry
  <2>1. CASE SendAck
    BY <2>1 DEF SendAck, above
  <2>2. CASE ReceiveData
    <3>1. hci.entry = None
      BY <2>2, NextPacket DEF ReceiveData
    <3> QED
      BY <2>2, <3>1 DEF ReceiveData, above
  <2> QED
    BY <2>1, <2>2
<1>2. ASSUME btu.cmd \in Cmds, Unsent PROVE Unsent'
  <2>1. CASE command_queue' = Append(command_queue, Ack)
    <3>1. /\ Len(command_queue) \in Nat /\ Len(command_queue') = Len(command_queue) + 1
          /\ \A i \in 1..Len(command_queue) : command_queue'[i] = command_queue[i]
          /\ command_queue'[Len(command_queue) + 1] = Ack
      BY <2>1, QueueAppended
    <3>2. PICK k \in 1..Len(command_queue) : command_queue[k] = btu.cmd /\ OnlyAcksAfter(k)
      BY <1>2 DEF Unsent
    <3>3. k \in 1..Len(command_queue') /\ command_queue'[k] = btu'.cmd
      BY <3>1, <3>2, <1>1
    <3>4. OnlyAcksAfter(k)'
      BY <3>1, <3>2 DEF OnlyAcksAfter
    <3> QED
      BY <3>3, <3>4 DEF Unsent
  <2>2. CASE /\ command_queue # << >> /\ Head(command_queue) = Ack
             /\ command_queue' = Tail(command_queue)
    BY <2>2, <1>1, <1>2, AcksTaken, Constants
  <2>3. CASE command_queue' = command_queue
    BY <2>3, <1>1, <1>2 DEF Unsent, OnlyAcksAfter
  <2> QED
    BY <2>1, <2>2, <2>3 DEF SendAck, ReceiveData, CommandReady
<1>3. ASSUME OnlyAcksAfter(0) PROVE OnlyAcksAfter(0)'
  <2>1. CASE command_queue' = Append(command_queue, Ack)
    <3>1. /\ Len(command_queue) \in Nat /\ Len(command_queue') = Len(command_queue) + 1
          /\ \A i \in 1..Len(command_queue) : command_queue'[i] = command_queue[i]
          /\ command_queue'[Len(command_queue) + 1] = Ack
      BY <2>1, QueueAppended
    <3> QED
      BY <3>1, <1>3 DEF OnlyAcksAfter
  <2>2. CASE command_queue # << >> /\ command_queue' = Tail(command_queue)
    BY <2>2, <1>3, AcksTaken
  <2>3. CASE command_queue' = command_queue
    BY <2>3, <1>3 DEF OnlyAcksAfter
  <2> QED
    BY <2>1, <2>2, <2>3 DEF SendAck, ReceiveData, CommandReady
<1>4. (Sent => Sent') /\ (Kept => Kept')
  BY <1>1, <1>3 DEF Sent, Kept
<1> QED
  BY <1>1, <1>2, <1>4 DEF SyncPhases

LEMMA SendPhases ==
  ASSUME Base, SyncPhases, NEW d \in Cmds, Send(d)
  PROVE  SyncPhases'
<1>1. /\ btu.at = "idle" /\ ~sync.sem /\ sync.opcode = None
      /\ command_queue' = Append(command_queue, d)
  BY DEF Send, SyncPhases
<1>2. Kind[Opcode[d]] \in CmdKinds
  BY Constants
<1>3. CASE Kind[Opcode[d]] = "sync"
  <2>1. btu' = [at |-> "wait", cmd |-> d] /\ sync'.sem = sync.sem /\ sync'.opcode = Opcode[d]
    BY <1>3 DEF Send, Base, TypeOK
  <2>2. /\ Len(command_queue) \in Nat /\ Len(command_queue') = Len(command_queue) + 1
        /\ command_queue'[Len(command_queue) + 1] = d
    BY <1>1, QueueAppended
  <2>3. PICK k \in 1..Len(command_queue') :
           k = Len(command_queue') /\ command_queue'[k] = btu'.cmd
    BY <2>1, <2>2
  <2>4. OnlyAcksAfter(k)'
    BY <2>2, <2>3 DEF OnlyAcksAfter
  <2>5. Unsent'
    BY <2>3, <2>4 DEF Unsent
  <2> QED
    BY <1>1, <1>3, <2>1, <2>5 DEF SyncPhases
<1>4. CASE Kind[Opcode[d]] = "future"
  <2>1. btu'.at = "await" /\ sync' = sync
    BY <1>4 DEF Send
  <2> QED
    BY <1>1, <2>1 DEF SyncPhases
<1>5. CASE Kind[Opcode[d]] = "async"
  <2>1. btu' = btu /\ sync' = sync
    BY <1>5 DEF Send
  <2> QED
    BY <1>1, <2>1 DEF SyncPhases
<1> QED
  BY <1>2, <1>3, <1>4, <1>5 DEF CmdKinds

\* The end of the wait, and the reading of the status.
LEMMA TakePhases ==
  ASSUME Base, SyncPhases, SyncTake \/ SyncRead
  PROVE  SyncPhases'
<1>1. CASE SyncTake
  <2>1. /\ btu.at = "wait" /\ sync.sem /\ UNCHANGED << command_queue, pending, hci >>
        /\ sync' = [sync EXCEPT !.sem = FALSE] /\ btu' = [btu EXCEPT !.at = "read"]
    BY <1>1 DEF SyncTake, sending
  <2>2. Kept /\ hci.entry = None /\ sync.opcode = None
    BY <2>1 DEF SyncPhases
  <2>3. /\ sync'.sem = FALSE /\ sync'.opcode = sync.opcode /\ sync'.status = sync.status
        /\ btu'.at = "read" /\ btu'.cmd = btu.cmd
    BY <2>1 DEF Base, TypeOK
  <2>4. Kept'
    BY <2>1, <2>2, <2>3 DEF Kept, OnlyAcksAfter
  <2> QED
    BY <2>1, <2>2, <2>3, <2>4 DEF SyncPhases
<1>2. CASE SyncRead
  <2>1. ~sync.sem /\ sync.opcode = None
    BY <1>2 DEF SyncRead, SyncPhases
  <2>2. btu'.at = "idle" /\ sync'.sem = sync.sem /\ sync'.opcode = sync.opcode
    BY <1>2 DEF SyncRead, Base, TypeOK
  <2> QED
    BY <2>1, <2>2 DEF SyncPhases
<1> QED
  BY <1>1, <1>2

\* A command is sent only if none waits: it is BTU's, or BTU waits for none.
LEMMA SendCommandPhases ==
  ASSUME Base, EveryCommandHasOneHolder, AnswerFirst, SyncPhases, SendCommand
  PROVE  SyncPhases'
<1> DEFINE d == Head(command_queue)
<1>1. /\ command_queue # << >> /\ command_queue' = Tail(command_queue) /\ d # Ack
      /\ pending' = Append(pending, d) /\ UNCHANGED << hci, btu, sync >>
  BY DEF SendCommand, CommandReady, above
<1>2. command_credits # 0
  BY DEF SendCommand, CommandReady, Base, TypeOK
<1>3. pending = << >> /\ pending' = << d >>
  <2>1. pending = << >>
    BY <1>2 DEF AnswerFirst
  <2> HIDE DEF d
  <2> QED
    BY <1>1, <2>1
<1>4. d = command_queue[1] /\ 1 \in 1..Len(command_queue)
  BY <1>1, QueueTaken
<1>5. ~OnlyAcksAfter(0)
  BY <1>1, <1>4 DEF OnlyAcksAfter
<1>6. ~Sent /\ ~Kept
  BY <1>5 DEF Sent, Kept
<1>7. CASE btu.at = "wait" /\ ~sync.sem
  <2>1. Unsent
    BY <1>6, <1>7 DEF SyncPhases
  <2>2. CASE d = btu.cmd
    <3>1. PICK k \in 1..Len(command_queue) : command_queue[k] = btu.cmd /\ OnlyAcksAfter(k)
      BY <2>1 DEF Unsent
    <3>2. k = 1
      <4> SUFFICES ASSUME k # 1 PROVE FALSE
        OBVIOUS
      <4>1. command_queue' \in Seq(Cmds \cup {Ack}) /\ btu.cmd \in Cmds
            /\ command_queue \in Seq(Cmds \cup {Ack})
        BY <1>1, <1>7, QueueStep DEF Base, TypeOK, SyncPhases
      <4>2. InQueue(btu.cmd) = Times(command_queue', {btu.cmd}) + 1
        BY <1>1, <2>2, <4>1, TimesTail DEF InQueue, One
      <4>3. InQueue(btu.cmd) <= 1
        BY <4>1, HoldersCounted DEF Base, CountedHolders, EveryCommandHasOneHolder
      <4>4. Times(command_queue', {btu.cmd}) = 0
        BY <4>1, <4>2, <4>3, HitsFinite
      <4>5. k - 1 \in 1..Len(command_queue') /\ command_queue'[k - 1] = btu.cmd
        BY <1>1, <3>1, QueueTaken
      <4> QED
        BY <4>1, <4>4, <4>5, TimesPositive
    <3>3. OnlyAcksAfter(0)'
      BY <1>1, <3>1, <3>2, AcksTaken
    <3>4. Sent'
      BY <1>1, <1>3, <2>2, <3>3 DEF Sent
    <3> QED
      BY <1>1, <1>7, <3>4 DEF SyncPhases
  <2>3. CASE d # btu.cmd
    <3>1. Unsent'
      BY <1>1, <2>1, <2>3, AcksTaken
    <3> QED
      BY <1>1, <1>7, <3>1 DEF SyncPhases
  <2> QED
    BY <2>2, <2>3
<1>8. CASE btu.at \in {"idle", "await"}
  BY <1>1, <1>8 DEF SyncPhases
<1>9. btu.at \in {"idle", "await", "wait", "read"}
  BY DEF Base, TypeOK
<1> QED
  BY <1>6, <1>7, <1>8, <1>9 DEF SyncPhases

\* The answer to BTU's command is the last that writes the status.
LEMMA ReceiveAnswerPhases ==
  ASSUME Base, AnswersAllowed, AnswerFirst, CallerWaits, SyncPhases, ReceiveAnswer
  PROVE  SyncPhases'
<1> DEFINE e == Head(rx_q)
           o == e.opcode
           d == pending[1]
<1>1. /\ Waiting(o) # 0 /\ pending' = Remove(pending, Waiting(o))
      /\ hci.at = "up" /\ hci.n > 0 /\ hci'.entry = pending[Waiting(o)]
      /\ UNCHANGED << command_queue, btu >>
      /\ sync' = IF e.type = "complete" \/ ~e.ok
                 THEN [sync EXCEPT !.status = IF btu.at \in {"wait", "read"}
                                              THEN pending[Waiting(o)] ELSE None]
                 ELSE sync
  BY DEF ReceiveAnswer
<1>2. /\ hci.entry = None /\ e = rx_q[1] /\ 1 \in 1..Len(rx_q)
  BY <1>1, NextPacket
<1>3. /\ Waiting(o) = 1 /\ pending' = << >> /\ pending # << >>
      /\ d \in Cmds /\ Opcode[d] = o /\ o # None
  BY <1>1, OneTaken
<1>4. MayAnswer(o, e.type, e.ok)
  BY <1>2, <1>3 DEF AnswersAllowed
<1>5. hci'.entry = d
  BY <1>1, <1>3
<1>6. sync'.sem = sync.sem /\ sync'.opcode = sync.opcode
  BY <1>1 DEF Base, TypeOK
<1>7. ~Kept
  BY <1>3 DEF Kept
<1>8. Unsent' = Unsent /\ OnlyAcksAfter(0)' = OnlyAcksAfter(0)
  BY <1>1 DEF Unsent, OnlyAcksAfter
<1>9. CASE btu.at = "wait" /\ ~sync.sem
  <2>1. CASE Unsent
    BY <1>1, <1>6, <1>8, <1>9, <2>1 DEF SyncPhases
  <2>2. CASE Sent
    <3>1. d = btu.cmd
      BY <2>2 DEF Sent
    <3>2. Kind[o] = "sync"
      BY <1>3, <1>9, <3>1 DEF SyncPhases
    <3>3. e.type = "complete" \/ ~e.ok
      BY <1>4, <3>2 DEF MayAnswer
    <3>4. sync'.status = d
      BY <1>1, <1>3, <1>9, <3>3 DEF Base, TypeOK
    <3>5. Kept'
      BY <1>1, <1>3, <1>8, <2>2, <3>1, <3>4 DEF Sent, Kept
    <3> QED
      BY <1>1, <1>5, <1>6, <1>9, <3>1, <3>5 DEF SyncPhases
  <2> QED
    BY <1>7, <1>9, <2>1, <2>2 DEF SyncPhases
<1>10. CASE btu.at \in {"idle", "await"}
  BY <1>1, <1>6, <1>10 DEF SyncPhases
<1>11. btu.at \in {"idle", "await", "wait", "read"}
  BY DEF Base, TypeOK
<1> QED
  BY <1>7, <1>9, <1>10, <1>11 DEF SyncPhases

\* The end of the post gives sync_sem to the caller whose command was answered.
LEMMA PostPhases ==
  ASSUME Base, EveryCommandHasOneHolder, AnswersAllowed, CallerWaits, SyncPhases, Post
  PROVE  SyncPhases'
<1>1. /\ hci'.entry = None /\ UNCHANGED << command_queue, pending, btu >>
  BY DEF Post, sending, Base, TypeOK
<1>2. /\ Unsent' = Unsent /\ Sent' = Sent /\ OnlyAcksAfter(0)' = OnlyAcksAfter(0)
  BY <1>1 DEF Unsent, Sent, OnlyAcksAfter
<1>3. CASE hci.entry # None /\ Releases(hci.packet)
  <2>1. btu.at = "wait" /\ ~sync.sem /\ btu.cmd = hci.entry /\ hci.entry \in Cmds
    BY <1>3, ReleaseIsOwn
  <2>2. sync'.sem = TRUE /\ sync'.opcode = None /\ sync'.status = sync.status
    BY <1>3 DEF Post, Base, TypeOK
  <2>3. btu.cmd \notin Elements(command_queue) /\ btu.cmd \notin Elements(pending)
    BY <2>1, OnePlace DEF Base
  <2>4. ~Unsent
    <3>1. DOMAIN command_queue = 1..Len(command_queue)
      BY LenProperties DEF Base, TypeOK
    <3> QED
      BY <2>3, <3>1 DEF Unsent, Elements
  <2>5. ~Sent
    <3> SUFFICES ASSUME pending = << btu.cmd >> PROVE FALSE
      BY DEF Sent
    <3>1. 1 \in DOMAIN pending /\ pending[1] = btu.cmd
      OBVIOUS
    <3> QED
      BY <2>3, <3>1 DEF Elements
  <2>6. Kept
    BY <2>1, <2>4, <2>5 DEF SyncPhases
  <2>7. Kept'
    BY <1>1, <1>2, <2>2, <2>6 DEF Kept
  <2> QED
    BY <1>1, <2>1, <2>2, <2>7 DEF SyncPhases
<1>4. CASE ~(hci.entry # None /\ Releases(hci.packet))
  <2>1. UNCHANGED sync
    BY <1>4 DEF Post
  <2>2. Kept' = Kept
    BY <1>1, <1>2, <2>1 DEF Kept
  <2>3. ASSUME btu.at = "wait", ~sync.sem PROVE ~(Kept /\ hci.entry = btu.cmd)
    <3> SUFFICES ASSUME hci.entry = btu.cmd PROVE FALSE
      OBVIOUS
    <3>1. btu.cmd \in Cmds /\ Kind[Opcode[btu.cmd]] = "sync" /\ sync.opcode = Opcode[btu.cmd]
      BY <2>3 DEF SyncPhases
    <3>2. hci.entry # None /\ Opcode[btu.cmd] # None
      BY <3>1, Constants
    <3>3. hci.packet.opcode = sync.opcode
          /\ MayAnswer(hci.packet.opcode, hci.packet.type, hci.packet.ok)
      BY <3>1, <3>2 DEF AnswersAllowed
    <3>4. hci.packet.type = "complete" \/ ~hci.packet.ok
      BY <3>1, <3>3 DEF MayAnswer
    <3>5. Releases(hci.packet)
      BY <3>1, <3>2, <3>3, <3>4 DEF Releases
    <3> QED
      BY <1>4, <3>2, <3>5
  <2> QED
    BY <1>1, <1>2, <2>1, <2>2, <2>3 DEF SyncPhases
<1> QED
  BY <1>3, <1>4

LEMMA PhasesNext ==
  ASSUME Matched, AnswersAllowed, AnswerFirst, CallerWaits, SyncPhases, [Next]_vars
  PROVE  SyncPhases'
<1> USE DEF sending, receiving, above
<1>1. Base /\ EveryCommandHasOneHolder
  BY DEF Matched
<1>2. CASE Btu
  <2>1. CASE SendPacket \/ Handle
    BY <2>1, PhasesKept DEF SendPacket, Handle
  <2> QED
    BY <1>1, <1>2, <2>1, SendPhases, TakePhases DEF Btu
<1>3. CASE HciDown
  <2>1. CASE DownBegin \/ SendData \/ DownEnd
    <3>1. UNCHANGED << command_queue, pending, btu, sync >> /\ hci'.entry = hci.entry
      BY <1>1, <2>1 DEF DownBegin, SendData, DownEnd, Base, TypeOK
    <3> QED
      BY <3>1, PhasesKept
  <2> QED
    BY <1>1, <1>3, <2>1, SendCommandPhases, AckPhases DEF HciDown
<1>4. CASE HciUp
  <2>1. CASE UpBegin \/ UpEnd \/ ReceiveUnmatched
    <3>1. UNCHANGED << command_queue, pending, btu, sync >> /\ hci'.entry = hci.entry
      BY <1>1, <2>1 DEF UpBegin, UpEnd, ReceiveUnmatched, Base, TypeOK
    <3> QED
      BY <3>1, PhasesKept
  <2>2. CASE ReceiveFutureAnswer
    <3>1. btu.at = "await" /\ btu' = [at |-> "idle", cmd |-> None] /\ UNCHANGED sync
      BY <1>1, <2>2, ReceiveFutureAnswerWaits DEF ReceiveFutureAnswer
    <3> QED
      BY <3>1 DEF SyncPhases
  <2> QED
    BY <1>1, <1>4, <2>1, <2>2, AckPhases, ReceiveAnswerPhases, PostPhases DEF HciUp
<1>5. CASE Controller
  BY <1>5, PhasesKept DEF Controller, Answer, AnswerNone, SendAcl, SendEvent, Available
<1>6. CASE Timer \/ UNCHANGED vars
  BY <1>6, PhasesKept DEF Timer, AlarmFires, TimedOut, vars
<1> QED
  BY <1>2, <1>3, <1>4, <1>5, <1>6 DEF Next, Hci

-----------------------------------------------------------------------------

LEMMA OwnStatusNext ==
  ASSUME NoAnswerLost
  PROVE  Strong /\ [Next]_vars => OwnStatus'
<1> SUFFICES ASSUME Strong, [Next]_vars PROVE OwnStatus'
  OBVIOUS
<1>1. Matched /\ OneCommand /\ AnswersAllowed /\ Base
  BY DEF Strong, OwnStatus, Matched
<1>2. AnswersAllowed'
  BY <1>1, AllowedNext
<1>3. ASSUME ctl'.slots = 1 PROVE (AnswerFirst /\ CallerWaits /\ SyncPhases)'
  <2>1. ctl.slots = 1
    BY <1>1, <1>3, SlotsKept
  <2>2. AnswerFirst /\ CallerWaits /\ SyncPhases
    BY <2>1 DEF Strong, OwnStatus
  <2> QED
    BY <1>1, <2>1, <2>2, FirstNext, WaitsNext, PhasesNext
<1> QED
  BY <1>2, <1>3 DEF OwnStatus

\* With room for one command and no answer dropped, a caller of
\* btu_hcif_send_cmd_sync reads the status of its own command, although the status is
\* kept in one place, written by every answer, and given to whoever waits for the
\* opcode (btu_hcif.c:804, :1639).
THEOREM StatusIsOwn ==
  ASSUME NoAnswerLost
  PROVE  Spec => []SyncStatusIsOwn
<1>1. Init => OwnStatus
  <2> SUFFICES ASSUME Init PROVE OwnStatus
    OBVIOUS
  <2>1. /\ command_queue = << >> /\ pending = << >> /\ rx_q = << >> /\ hci.entry = None
        /\ btu.at = "idle" /\ sync.sem = FALSE /\ sync.opcode = None
    BY DEF Init
  <2>2. AnswersAllowed
    BY <2>1 DEF AnswersAllowed
  <2>3. AnswerFirst
    BY <2>1 DEF AnswerFirst
  <2>4. CallerWaits
    BY <2>1 DEF CallerWaits, UnansweredCmds, Elements
  <2>5. SyncPhases
    BY <2>1 DEF SyncPhases
  <2> QED
    BY <2>2, <2>3, <2>4, <2>5 DEF OwnStatus
<1>2. Matched /\ OneCommand /\ OwnStatus /\ [Next]_vars => OwnStatus'
  BY OwnStatusNext DEF Strong
<1>3. Spec => []Matched
  <2>1. Base /\ EveryCommandHasOneHolder /\ AnswersMatch => Matched
    BY DEF Matched
  <2>2. Spec => []AnswersMatch
    BY AnswersAreMatched
  <2> QED
    BY <2>1, <2>2, BaseHolds, OneHolder, PTL
<1>4. OwnStatus => SyncStatusIsOwn
  BY DEF OwnStatus, SyncPhases, Kept, SyncStatusIsOwn
<1> QED
  BY <1>1, <1>2, <1>3, <1>4, OneCommandHolds, PTL DEF Spec
=============================================================================
