---------------------------- MODULE A2dpSinkProofs ----------------------------
(***************************************************************************)
(* Proofs about A2dpSink for any number of pressers, any number of         *)
(* configurations and any limits.  The inductive invariant IInv adds to    *)
(* the type invariant when the queue exists, what the numbers held at each *)
(* place bound, and in which order the configurations are: those of the    *)
(* decoder, of the packets and of the stream.  Two more rest on it: Alive, *)
(* that without a deinitialisation everything outlives its users, and      *)
(* PInv, what the script of BTC, the reset of the decoder and the flushes  *)
(* do to each other, from which a started stream is heard.                 *)
(***************************************************************************)
EXTENDS A2dpSink, SequenceTheorems, TLAPS

\* BTU has looked at the state of the sink and is about to add a packet.
Accepted == {"room", "drop", "append"}

\* The queue exists from thread_init to thread_cleanup, and only one thread_init
\* is run by a thread.
Life == /\ thread = "none" => worker = "gone"
        /\ (ctrl # << >> /\ ctrl[1].op = "init") => worker \in {"idle", "gone"} /\ queue_ptr # "made"
        /\ worker \in {"init", "init2", "cleanup3"} => queue_ptr # "made"
        /\ worker = "init2" => sink_state # "off"
        /\ queue_ptr = "made" => sink_state # "off" \/ worker = "cleanup2"
        /\ queue_ptr # "made" => RxSbcQ = << >> /\ credits = 0

\* What BTU and the worker count is there; dequeue_sem has no more than the
\* packets that are in the queue and not being added.
Counts == /\ btu = "drop" => to_drop > 0
          /\ worker \in {"judge", "media", "decode"} => nb > 0
          /\ failed = "none" => credits + (IF btu = "give" THEN 1 ELSE 0) <= Len(RxSbcQ)

\* The messages q name no configuration newer than c; the packets q are of none
\* older than c.
Announced(q, c) == \A i \in 1..Len(q) : q[i].config <= c
NotOlder(q, c) == \A i \in 1..Len(q) : q[i] >= c

\* The configurations on their way to the decoder are not newer than that of
\* the stream, nor than that of a packet the decoder may be given.
Fresh == /\ btu # "idle" \/ peer # "closed" => config # NoConfig
         /\ decoder <= config /\ cfg <= config
         /\ Announced(ctrl, config)
         /\ NotOlder(RxSbcQ, decoder)
         /\ worker = "resetDecoder" => NotOlder(RxSbcQ, cfg)
         /\ worker \in {"judge", "media", "decode"} => frame >= decoder
         /\ worker = "decode" => decoder # NoConfig

\* A packet BTU has accepted fits, and so does one it accepted before the
\* decoder was made unready and the queue flushed, whatever the new limit is.
Bounded == /\ Len(RxSbcQ) <= Limit[codec_index]
           /\ btu \in {"drop", "append"} => Len(RxSbcQ) < Limit[codec_index]
           /\ worker \in {"resetFlush", "resetDecoder", "resetReady"} => ~decoder_ready
           /\ worker \in {"resetDecoder", "resetReady"} =>
                Len(RxSbcQ) + (IF btu \in Accepted THEN 1 ELSE 0) <= 1

IInv == TypeOK /\ Life /\ Counts /\ Fresh /\ Bounded

-----------------------------------------------------------------------------
USE DEF sinkVars, queueVars, threadVars, btuVars, btcVars, workerVars, NoConfig, Configs, BtuPlaces, MsgOps, Messages,
        WorkerPlaces, PressPlaces, Calls, Events, Accepted

(* Facts the steps rest on *)

\* Every limit lets one packet in.
LEMMA LimitFacts ==
  /\ MaxConfigs \in Nat /\ Floor \in Nat
  /\ \A c \in 0..MaxConfigs : Limit[c] \in Nat /\ Limit[c] >= 1
BY BoundsAssumption

LEMMA SizeFacts ==
  ASSUME TypeOK
  PROVE  /\ Len(RxSbcQ) \in Nat /\ Len(ctrl) \in Nat
         /\ Limit[codec_index] \in Nat /\ Limit[codec_index] >= 1
BY LimitFacts, LenProperties DEF TypeOK, SequencesOK, ConfigsOK

LEMMA NatFacts ==
  ASSUME TypeOK
  PROVE  {decoder, codec_index, config, cfg, frame} \subseteq Nat
BY LimitFacts DEF TypeOK, ConfigsOK

\* What a prime does to the relations between queues and configurations.
LEMMA PrimeFacts ==
  /\ Announced(ctrl, config)' <=> Announced(ctrl', config')
  /\ NotOlder(RxSbcQ, decoder)' <=> NotOlder(RxSbcQ', decoder')
  /\ NotOlder(RxSbcQ, cfg)' <=> NotOlder(RxSbcQ', cfg')
BY DEF Announced, NotOlder

LEMMA LenFacts ==
  ASSUME NEW S, NEW q \in Seq(S), q # << >>
  PROVE  Len(q) >= 1
<1>1. Len(q) \in Nat \ {0}
  BY EmptySeq
<1> QED
  BY <1>1

LEMMA EmptyFacts ==
  /\ << >> \in Seq(Configs) /\ << >> \in Seq(Messages) /\ Len(<< >>) = 0
  /\ \A c : Announced(<< >>, c) /\ NotOlder(<< >>, c)
  /\ \A q \in Seq(Configs) : Len(q) = 0 => \A c : NotOlder(q, c)
BY DEF Announced, NotOlder

\* Packets are older than no decoder, and a newer configuration is announced too.
LEMMA OrderFacts ==
  /\ \A q \in Seq(Configs) : NotOlder(q, 0)
  /\ \A q \in Seq(Messages), c, d \in Nat : Announced(q, c) /\ c <= d => Announced(q, d)
<1>1. ASSUME NEW q \in Seq(Configs)
      PROVE  NotOlder(q, 0)
  <2>1. \A i \in 1..Len(q) : q[i] \in Configs
    BY ElementOfSeq
  <2> QED
    BY <2>1, LimitFacts DEF NotOlder
<1>2. ASSUME NEW q \in Seq(Messages), NEW c \in Nat, NEW d \in Nat, Announced(q, c), c <= d
      PROVE  Announced(q, d)
  <2>1. \A i \in 1..Len(q) : q[i] \in Messages
    BY ElementOfSeq
  <2>2. \A i \in 1..Len(q) : q[i].config \in Nat
    BY <2>1, LimitFacts
  <2> QED
    BY <2>2, <1>2 DEF Announced
<1> QED
  BY <1>1, <1>2

\* A packet is taken out, or nothing is: the others stay.
Removed == /\ RxSbcQ' \in Seq(Configs) /\ credits' \in Nat
           /\ Len(RxSbcQ') \in Nat /\ Len(RxSbcQ') <= Len(RxSbcQ)
           /\ Len(RxSbcQ) - Len(RxSbcQ') = credits - credits'
           /\ \A c \in Nat : NotOlder(RxSbcQ, c) => NotOlder(RxSbcQ', c)
           /\ queue_ptr' = queue_ptr
           /\ queue_ptr # "made" => RxSbcQ' = RxSbcQ /\ credits' = credits

LEMMA DequeueFacts ==
  ASSUME IInv, failed = "none", Dequeue
  PROVE  /\ Removed
         /\ Head(RxSbcQ) \in Configs
         /\ \A c \in Nat : NotOlder(RxSbcQ, c) => Head(RxSbcQ) >= c
<1>1. Len(RxSbcQ) \in Nat /\ Len(RxSbcQ) >= 1 /\ credits \in Nat /\ credits >= 1
  BY SizeFacts DEF IInv, TypeOK, Counts, Dequeue, MayDequeue
<1>2. RxSbcQ # << >> /\ RxSbcQ \in Seq(Configs)
  BY <1>1, EmptySeq DEF IInv, TypeOK, SequencesOK
<1>3. /\ Head(RxSbcQ) = RxSbcQ[1]
      /\ Tail(RxSbcQ) \in Seq(Configs)
      /\ Len(Tail(RxSbcQ)) = Len(RxSbcQ) - 1
      /\ \A i \in 1..Len(Tail(RxSbcQ)) : Tail(RxSbcQ)[i] = RxSbcQ[i + 1]
  BY <1>2, HeadTailProperties
<1>4. \A c \in Nat : NotOlder(RxSbcQ, c) => NotOlder(Tail(RxSbcQ), c) /\ Head(RxSbcQ) >= c
  BY <1>1, <1>3 DEF NotOlder
<1>5. Head(RxSbcQ) \in Configs
  BY <1>2, HeadTailProperties
<1> QED
  BY <1>1, <1>3, <1>4, <1>5 DEF Dequeue, MayDequeue, Removed

LEMMA RemovalFacts ==
  ASSUME IInv, failed = "none", DropOne \/ Dequeue \/ UNCHANGED queueVars
  PROVE  Removed
<1>1. CASE Dequeue
  BY <1>1, DequeueFacts
<1>2. CASE UNCHANGED queueVars
  BY <1>2, SizeFacts DEF IInv, TypeOK, SequencesOK, Removed
<1> QED
  BY <1>1, <1>2 DEF DropOne

\* The rest of what BTC has to do, and its next message.
LEMMA TodoFacts ==
  ASSUME TypeOK, todo # << >>
  PROVE  /\ Head(todo) \in Calls /\ Tail(todo) \in Seq(Calls)
         /\ << "postFlush" >> \o Tail(todo) \in Seq(Calls)
<1>1. Head(todo) \in Calls /\ Tail(todo) \in Seq(Calls)
  BY HeadTailProperties DEF TypeOK, SequencesOK
<1>2. << "postFlush" >> \in Seq(Calls)
  OBVIOUS
<1> QED
  BY <1>1, <1>2, ConcatProperties

LEMMA BtcqFacts ==
  ASSUME TypeOK, btcq # << >>
  PROVE  /\ Head(btcq) \in Events /\ Tail(btcq) \in Seq(Events)
         /\ Len(Tail(btcq)) <= MaxMsgs
<1>1. /\ Head(btcq) \in Events /\ Tail(btcq) \in Seq(Events)
      /\ Len(Tail(btcq)) = Len(btcq) - 1 /\ Len(btcq) \in Nat
  BY HeadTailProperties, LenProperties DEF TypeOK, SequencesOK
<1> QED
  BY <1>1, BoundsAssumption DEF TypeOK, SequencesOK

LEMMA ScriptFacts ==
  /\ OnSuspended \in Seq(Calls) /\ OnStopped \in Seq(Calls) /\ OnIdle \in Seq(Calls)
  /\ Shutdown \in Seq(Calls) /\ << >> \in Seq(Calls)
  /\ OnIdle \o << "enable" >> \in Seq(Calls)
<1>1. /\ OnSuspended \in Seq(Calls) /\ OnStopped \in Seq(Calls) /\ OnIdle \in Seq(Calls)
      /\ Shutdown \in Seq(Calls) /\ << >> \in Seq(Calls) /\ << "enable" >> \in Seq(Calls)
  BY DEF OnSuspended, OnStopped, OnIdle, Shutdown
<1> QED
  BY <1>1, ConcatProperties

LEMMA HandlerFacts ==
  ASSUME NEW e \in Events
  PROVE  Handler(e) \in Seq(Calls)
<1>1. /\ << "opened" >> \in Seq(Calls) /\ << "rxFlushOff", "openChannel", "started" >> \in Seq(Calls)
      /\ << "idle" >> \in Seq(Calls)
  OBVIOUS
<1>2. /\ OnSuspended \o << "opened" >> \in Seq(Calls) /\ OnStopped \o << "opened" >> \in Seq(Calls)
  BY <1>1, ScriptFacts, ConcatProperties
<1>3. OnStopped \o << "idle" >> \o OnIdle \o (IF deinit THEN Shutdown ELSE << >>) \in Seq(Calls)
  <2>1. (IF deinit THEN Shutdown ELSE << >>) \in Seq(Calls)
    BY ScriptFacts
  <2>2. OnStopped \o << "idle" >> \o OnIdle \in Seq(Calls)
    BY <1>1, ScriptFacts, ConcatProperties
  <2> QED
    BY <2>1, <2>2, ConcatProperties
<1> QED
  BY <1>1, <1>2, <1>3, ScriptFacts DEF Handler

\* The message the worker takes is the only one.
LEMMA CtrlFacts ==
  ASSUME TypeOK, ctrl # << >>
  PROVE  /\ Head(ctrl) \in Messages /\ Head(ctrl) = ctrl[1]
         /\ Tail(ctrl) = << >> /\ << >> \in Seq(Messages)
         /\ \A c : Announced(ctrl, c) => Head(ctrl).config <= c
<1>0. Len(ctrl) \in Nat /\ Len(ctrl) <= 1
  BY LenProperties DEF TypeOK, SequencesOK
<1>1. ctrl \in Seq(Messages)
  BY DEF TypeOK, SequencesOK
<1>2. Head(ctrl) = ctrl[1] /\ Tail(ctrl) \in Seq(Messages) /\ Len(Tail(ctrl)) = Len(ctrl) - 1
  BY <1>1, HeadTailProperties
<1>3. Len(ctrl) = 1
  <2>1. Len(ctrl) >= 1
    BY <1>1, LenFacts, Zenon
  <2> QED
    BY <2>1, <1>0
<1>4. Head(ctrl) \in Messages
  BY <1>1, HeadTailProperties
<1>5. Tail(ctrl) = << >>
  <2>1. Len(Tail(ctrl)) = 0
    BY <1>2, <1>3, <1>0
  <2> QED
    BY <2>1, <1>2, EmptySeq
<1> QED
  BY <1>2, <1>3, <1>4, <1>5, EmptyFacts DEF Announced

\* The queue of the worker after a message was posted to it.
LEMMA PostFacts ==
  ASSUME NEW op \in MsgOps, NEW c \in 0..MaxConfigs
  PROVE  /\ << Message(op, c) >> \in Seq(Messages) /\ Len(<< Message(op, c) >>) = 1
         /\ << Message(op, c) >> # << >> /\ << Message(op, c) >>[1].op = op
         /\ \A d \in Nat : c <= d => Announced(<< Message(op, c) >>, d)
BY DEF Announced, Message

LEMMA PeerFacts ==
  ASSUME TypeOK, Len(btcq) < MaxMsgs, NEW e \in Events
  PROVE  Append(btcq, e) \in Seq(Events) /\ Len(Append(btcq, e)) <= MaxMsgs
<1>1. /\ Append(btcq, e) \in Seq(Events) /\ Len(Append(btcq, e)) = Len(btcq) + 1
      /\ Len(btcq) \in Nat
  BY AppendProperties, LenProperties DEF TypeOK, SequencesOK
<1> QED
  BY <1>1, BoundsAssumption

\* A packet of the present configuration comes in.
LEMMA AppendFacts ==
  ASSUME TypeOK, config # NoConfig
  PROVE  /\ Append(RxSbcQ, config) \in Seq(Configs)
         /\ Len(Append(RxSbcQ, config)) = Len(RxSbcQ) + 1
         /\ \A c \in Nat : NotOlder(RxSbcQ, c) /\ c <= config => NotOlder(Append(RxSbcQ, config), c)
<1>1. RxSbcQ \in Seq(Configs) /\ config \in Configs /\ Len(RxSbcQ) \in Nat
  BY LimitFacts, LenProperties DEF TypeOK, SequencesOK, ConfigsOK
<1>2. /\ Append(RxSbcQ, config) \in Seq(Configs)
      /\ Len(Append(RxSbcQ, config)) = Len(RxSbcQ) + 1
      /\ \A i \in 1..Len(RxSbcQ) : Append(RxSbcQ, config)[i] = RxSbcQ[i]
      /\ Append(RxSbcQ, config)[Len(RxSbcQ) + 1] = config
  BY <1>1, AppendProperties
<1>3. ASSUME NEW c \in Nat, NotOlder(RxSbcQ, c), c <= config
      PROVE  NotOlder(Append(RxSbcQ, config), c)
  <2>1. ASSUME NEW i \in 1..(Len(RxSbcQ) + 1)
        PROVE  Append(RxSbcQ, config)[i] >= c
    <3>1. CASE i = Len(RxSbcQ) + 1
      BY <3>1, <1>1, <1>2, <1>3
    <3>2. CASE i # Len(RxSbcQ) + 1
      <4>1. i \in 1..Len(RxSbcQ)
        BY <3>2, <1>1
      <4> QED
        BY <4>1, <1>2, <1>3 DEF NotOlder
    <3> QED
      BY <3>1, <3>2
  <2> QED
    BY <2>1, <1>2 DEF NotOlder
<1> QED
  BY <1>2, <1>3

-----------------------------------------------------------------------------
(* Every step preserves the inductive invariant: a lemma for each action.   *)
(* The steps that only move a task from one place to the next, or write one *)
(* variable that few conjuncts read, are a single leaf.                     *)

LEMMA MediaDataStep ==
  ASSUME IInv, failed = "none", MediaData
  PROVE  IInv'
BY LimitFacts, SizeFacts, PrimeFacts, NatFacts DEF IInv, TypeOK, FlagsOK, ConfigsOK, SequencesOK,
   PlacesOK, Life, Counts, Fresh, Bounded, MediaData

LEMMA MediaIgnoredStep ==
  ASSUME IInv, failed = "none", MediaIgnored
  PROVE  IInv'
BY LimitFacts, SizeFacts, PrimeFacts, NatFacts DEF IInv, TypeOK, FlagsOK, ConfigsOK, SequencesOK,
   PlacesOK, Life, Counts, Fresh, Bounded, MediaIgnored

LEMMA EnqCheckStep ==
  ASSUME IInv, failed = "none", EnqCheck
  PROVE  IInv'
BY LimitFacts, SizeFacts, PrimeFacts, NatFacts DEF IInv, TypeOK, FlagsOK, ConfigsOK, SequencesOK,
   PlacesOK, Life, Counts, Fresh, Bounded, EnqCheck

LEMMA EnqReadyStep ==
  ASSUME IInv, failed = "none", EnqReady
  PROVE  IInv'
<1>1. TypeOK'
  BY DEF IInv, TypeOK, FlagsOK, ConfigsOK, SequencesOK, PlacesOK, EnqReady
<1>2. Counts'
  BY SizeFacts DEF IInv, TypeOK, Counts, EnqReady
<1>3. Fresh'
  BY PrimeFacts, NatFacts DEF IInv, Fresh, EnqReady
<1>4. Bounded'
  BY SizeFacts DEF IInv, Bounded, EnqReady
<1>5. Life'
  BY DEF IInv, Life, EnqReady
<1> QED
  BY <1>1, <1>2, <1>3, <1>4, <1>5 DEF IInv

LEMMA EnqRoomStep ==
  ASSUME IInv, failed = "none", EnqRoom
  PROVE  IInv'
<1>1. TypeOK'
  BY SizeFacts, LimitFacts, SMTT(30) DEF IInv, TypeOK, FlagsOK, ConfigsOK, SequencesOK, PlacesOK,
     EnqRoom, QueueLen
<1>2. Counts'
  BY SizeFacts, LimitFacts DEF IInv, TypeOK, Counts, EnqRoom, QueueLen
<1>3. Fresh'
  BY PrimeFacts, NatFacts DEF IInv, Fresh, EnqRoom, QueueLen
<1>4. Bounded'
  BY SizeFacts DEF IInv, Bounded, EnqRoom, QueueLen
<1>5. Life'
  BY DEF IInv, Life, EnqRoom, QueueLen
<1> QED
  BY <1>1, <1>2, <1>3, <1>4, <1>5 DEF IInv

LEMMA EnqDropStep ==
  ASSUME IInv, failed = "none", EnqDrop
  PROVE  IInv'
<1>0. Removed
  BY RemovalFacts DEF EnqDrop, QueueLen
<1>1. TypeOK'
  <2>1. SequencesOK'
    BY <1>0 DEF IInv, TypeOK, ConfigsOK, SequencesOK, Fresh, Removed, EnqDrop
  <2>2. PlacesOK'
    BY <1>0 DEF IInv, TypeOK, PlacesOK, Removed, EnqDrop
  <2>3. {credits, to_drop, nb}' \subseteq Nat
    BY <1>0 DEF IInv, TypeOK, SequencesOK, Counts, Removed, EnqDrop
  <2>4. (FlagsOK /\ ConfigsOK)'
    BY DEF IInv, TypeOK, FlagsOK, ConfigsOK, EnqDrop
  <2> QED
    BY <2>1, <2>2, <2>3, <2>4 DEF TypeOK
<1>2. Life'
  BY <1>0 DEF IInv, TypeOK, SequencesOK, PlacesOK, Life, Removed, EnqDrop
<1>3. Counts'
  BY <1>0, SizeFacts, SMTT(30) DEF IInv, TypeOK, Counts, Removed, EnqDrop
<1>4. Fresh'
  BY <1>0, PrimeFacts, NatFacts DEF IInv, Fresh, Removed, EnqDrop
<1>5. Bounded'
  BY <1>0, SizeFacts DEF IInv, Bounded, Removed, EnqDrop
<1> QED
  BY <1>1, <1>2, <1>3, <1>4, <1>5 DEF IInv

LEMMA EnqAppendStep ==
  ASSUME IInv, failed = "none", EnqAppend
  PROVE  IInv'
<1>1. TypeOK'
  <2>1. SequencesOK'
    BY AppendFacts DEF IInv, TypeOK, ConfigsOK, SequencesOK, Fresh, EnqAppend
  <2>2. PlacesOK'
    BY AppendFacts DEF IInv, TypeOK, PlacesOK, EnqAppend
  <2>3. (FlagsOK /\ ConfigsOK)' /\ {credits, to_drop, nb}' \subseteq Nat
    BY DEF IInv, TypeOK, FlagsOK, ConfigsOK, EnqAppend
  <2> QED
    BY <2>1, <2>2, <2>3 DEF TypeOK
<1>2. Life'
  BY AppendFacts DEF IInv, TypeOK, SequencesOK, PlacesOK, Life, EnqAppend
<1>3. Counts'
  BY AppendFacts, SizeFacts DEF IInv, TypeOK, Counts, EnqAppend
<1>4. Fresh'
  BY AppendFacts, PrimeFacts, NatFacts DEF IInv, Fresh, EnqAppend
<1>5. Bounded'
  BY AppendFacts, SizeFacts DEF IInv, Bounded, EnqAppend
<1> QED
  BY <1>1, <1>2, <1>3, <1>4, <1>5 DEF IInv

LEMMA EnqAppendFailsStep ==
  ASSUME IInv, failed = "none", EnqAppendFails
  PROVE  IInv'
BY LimitFacts, SizeFacts, PrimeFacts, NatFacts DEF IInv, TypeOK, FlagsOK, ConfigsOK, SequencesOK,
   PlacesOK, Life, Counts, Fresh, Bounded, EnqAppendFails

LEMMA EnqGiveStep ==
  ASSUME IInv, failed = "none", EnqGive
  PROVE  IInv'
<1>1. TypeOK'
  BY DEF IInv, TypeOK, FlagsOK, ConfigsOK, SequencesOK, PlacesOK, EnqGive
<1>2. Life'
  BY DEF IInv, TypeOK, SequencesOK, PlacesOK, Life, EnqGive
<1>3. Counts'
  BY SizeFacts DEF IInv, TypeOK, Counts, EnqGive
<1>4. Fresh'
  BY PrimeFacts, NatFacts DEF IInv, Fresh, EnqGive
<1>5. Bounded'
  BY SizeFacts DEF IInv, Bounded, EnqGive
<1> QED
  BY <1>1, <1>2, <1>3, <1>4, <1>5 DEF IInv

LEMMA EnqPostStep ==
  ASSUME IInv, failed = "none", EnqPost
  PROVE  IInv'
BY LimitFacts, SizeFacts, PrimeFacts, NatFacts DEF IInv, TypeOK, FlagsOK, ConfigsOK, SequencesOK,
   PlacesOK, Life, Counts, Fresh, Bounded, EnqPost

LEMMA SinkCfgStep ==
  ASSUME IInv, failed = "none", SinkCfg
  PROVE  IInv'
<1>1. TypeOK'
  <2>1. ConfigsOK'
    BY LimitFacts DEF IInv, TypeOK, ConfigsOK, SequencesOK, SinkCfg
  <2>2. PlacesOK'
    BY DEF IInv, TypeOK, PlacesOK, SinkCfg
  <2>3. (FlagsOK /\ SequencesOK)' /\ {credits, to_drop, nb}' \subseteq Nat
    BY DEF IInv, TypeOK, FlagsOK, SequencesOK, SinkCfg
  <2> QED
    BY <2>1, <2>2, <2>3 DEF TypeOK
<1>2. Counts'
  BY SizeFacts DEF IInv, TypeOK, Counts, SinkCfg
<1>3. Fresh'
  <2>1. ctrl \in Seq(Messages) /\ config \in Nat /\ config + 1 \in Nat /\ config <= config + 1
    BY NatFacts DEF IInv, TypeOK, SequencesOK
  <2>2. Announced(ctrl, config + 1)
    BY <2>1, OrderFacts, Zenon DEF IInv, Fresh
  <2> QED
    BY <2>2, PrimeFacts, NatFacts DEF IInv, Fresh, SinkCfg
<1>4. Bounded'
  BY SizeFacts DEF IInv, Bounded, SinkCfg
<1>5. Life'
  BY DEF IInv, Life, SinkCfg
<1> QED
  BY <1>1, <1>2, <1>3, <1>4, <1>5 DEF IInv

LEMMA PostCfgStep ==
  ASSUME IInv, failed = "none", PostCfg
  PROVE  IInv'
BY PostFacts, LimitFacts, SizeFacts, PrimeFacts, NatFacts DEF IInv, TypeOK, FlagsOK, ConfigsOK,
   SequencesOK, PlacesOK, Life, Counts, Fresh, Bounded, PostCfg, PostCtrl

LEMMA PeerOpenStep ==
  ASSUME IInv, failed = "none", PeerOpen
  PROVE  IInv'
BY PeerFacts, LimitFacts, SizeFacts, PrimeFacts, NatFacts DEF IInv, TypeOK, FlagsOK, ConfigsOK,
   SequencesOK, PlacesOK, Life, Counts, Fresh, Bounded, PeerOpen, PeerEvent

LEMMA PeerStartStep ==
  ASSUME IInv, failed = "none", PeerStart
  PROVE  IInv'
BY PeerFacts, LimitFacts, SizeFacts, PrimeFacts, NatFacts DEF IInv, TypeOK, FlagsOK, ConfigsOK,
   SequencesOK, PlacesOK, Life, Counts, Fresh, Bounded, PeerStart, PeerEvent

LEMMA PeerSuspendStep ==
  ASSUME IInv, failed = "none", PeerSuspend
  PROVE  IInv'
BY PeerFacts, LimitFacts, SizeFacts, PrimeFacts, NatFacts DEF IInv, TypeOK, FlagsOK, ConfigsOK,
   SequencesOK, PlacesOK, Life, Counts, Fresh, Bounded, PeerSuspend, PeerEvent

LEMMA PeerStopStep ==
  ASSUME IInv, failed = "none", PeerStop
  PROVE  IInv'
BY PeerFacts, LimitFacts, SizeFacts, PrimeFacts, NatFacts DEF IInv, TypeOK, FlagsOK, ConfigsOK,
   SequencesOK, PlacesOK, Life, Counts, Fresh, Bounded, PeerStop, PeerEvent

LEMMA PeerCloseStep ==
  ASSUME IInv, failed = "none", PeerClose
  PROVE  IInv'
BY PeerFacts, LimitFacts, SizeFacts, PrimeFacts, NatFacts DEF IInv, TypeOK, FlagsOK, ConfigsOK,
   SequencesOK, PlacesOK, Life, Counts, Fresh, Bounded, PeerClose, PeerEvent

LEMMA BtuDisableStep ==
  ASSUME IInv, failed = "none", BtuDisable
  PROVE  IInv'
BY LimitFacts, SizeFacts, PrimeFacts, NatFacts DEF IInv, TypeOK, FlagsOK, ConfigsOK, SequencesOK,
   PlacesOK, Life, Counts, Fresh, Bounded, BtuDisable

LEMMA BtcEventStep ==
  ASSUME IInv, failed = "none", BtcEvent
  PROVE  IInv'
<1>1. TypeOK'
  <2>1. SequencesOK'
    BY BtcqFacts, HandlerFacts DEF IInv, TypeOK, ConfigsOK, SequencesOK, Fresh, BtcEvent
  <2>2. (FlagsOK /\ ConfigsOK /\ PlacesOK)' /\ {credits, to_drop, nb}' \subseteq Nat
    BY DEF IInv, TypeOK, FlagsOK, ConfigsOK, PlacesOK, BtcEvent
  <2> QED
    BY <2>1, <2>2 DEF TypeOK
<1>2. (Life /\ Counts /\ Fresh /\ Bounded)'
  BY PrimeFacts DEF IInv, Life, Counts, Fresh, Bounded, BtcEvent
<1> QED
  BY <1>1, <1>2 DEF IInv

LEMMA AppInitStep ==
  ASSUME IInv, failed = "none", AppInit
  PROVE  IInv'
<1>1. TypeOK'
  <2>1. FlagsOK'
    BY Zenon DEF IInv, TypeOK, FlagsOK, AppInit
  <2>2. SequencesOK'
    BY ScriptFacts, PostFacts, LimitFacts DEF IInv, TypeOK, SequencesOK, AppInit
  <2>3. (ConfigsOK /\ PlacesOK)' /\ {credits, to_drop, nb}' \subseteq Nat
    BY DEF IInv, TypeOK, ConfigsOK, PlacesOK, AppInit
  <2> QED
    BY <2>1, <2>2, <2>3 DEF TypeOK
<1>2. Life'
  BY PostFacts, LimitFacts DEF IInv, TypeOK, SequencesOK, PlacesOK, Life, AppInit, OnIdle
<1>3. Fresh'
  BY PostFacts, PrimeFacts, NatFacts, LimitFacts DEF IInv, TypeOK, Fresh, AppInit
<1>4. (Counts /\ Bounded)'
  BY DEF IInv, Counts, Bounded, AppInit
<1> QED
  BY <1>1, <1>2, <1>3, <1>4 DEF IInv

LEMMA AppDeinitStep ==
  ASSUME IInv, failed = "none", AppDeinit
  PROVE  IInv'
BY ScriptFacts, LimitFacts, SizeFacts, PrimeFacts, NatFacts DEF IInv, TypeOK, FlagsOK, ConfigsOK,
   SequencesOK, PlacesOK, Life, Counts, Fresh, Bounded, AppDeinit

LEMMA SetRxFlushStep ==
  ASSUME IInv, failed = "none", SetRxFlush
  PROVE  IInv'
<1>1. TypeOK'
  <2>1. FlagsOK'
    BY Zenon DEF IInv, TypeOK, FlagsOK, SetRxFlush, Call
  <2>2. SequencesOK'
    BY TodoFacts DEF IInv, TypeOK, ConfigsOK, SequencesOK, Fresh, SetRxFlush, Call
  <2>3. (ConfigsOK /\ PlacesOK)' /\ {credits, to_drop, nb}' \subseteq Nat
    BY DEF IInv, TypeOK, ConfigsOK, PlacesOK, SetRxFlush, Call
  <2> QED
    BY <2>1, <2>2, <2>3 DEF TypeOK
<1>2. (Life /\ Counts /\ Fresh /\ Bounded)'
  BY PrimeFacts DEF IInv, Life, Counts, Fresh, Bounded, SetRxFlush, Call
<1> QED
  BY <1>1, <1>2 DEF IInv

LEMMA SetChannelStep ==
  ASSUME IInv, failed = "none", SetChannel
  PROVE  IInv'
<1>1. TypeOK'
  <2>1. FlagsOK'
    BY Zenon DEF IInv, TypeOK, FlagsOK, SetChannel, Call
  <2>2. SequencesOK'
    BY TodoFacts DEF IInv, TypeOK, ConfigsOK, SequencesOK, Fresh, SetChannel, Call
  <2>3. (ConfigsOK /\ PlacesOK)' /\ {credits, to_drop, nb}' \subseteq Nat
    BY DEF IInv, TypeOK, ConfigsOK, PlacesOK, SetChannel, Call
  <2> QED
    BY <2>1, <2>2, <2>3 DEF TypeOK
<1>2. (Life /\ Counts /\ Fresh /\ Bounded)'
  BY PrimeFacts DEF IInv, Life, Counts, Fresh, Bounded, SetChannel, Call
<1> QED
  BY <1>1, <1>2 DEF IInv

LEMMA SetStateStep ==
  ASSUME IInv, failed = "none", SetState
  PROVE  IInv'
<1>1. TypeOK'
  <2>1. SequencesOK'
    BY TodoFacts DEF IInv, TypeOK, ConfigsOK, SequencesOK, Fresh, SetState, Call
  <2>2. PlacesOK'
    BY DEF IInv, TypeOK, PlacesOK, SetState, Call
  <2>3. (FlagsOK /\ ConfigsOK)' /\ {credits, to_drop, nb}' \subseteq Nat
    BY DEF IInv, TypeOK, FlagsOK, ConfigsOK, SetState, Call
  <2> QED
    BY <2>1, <2>2, <2>3 DEF TypeOK
<1>2. (Life /\ Counts /\ Fresh /\ Bounded)'
  BY PrimeFacts DEF IInv, Life, Counts, Fresh, Bounded, SetState, Call
<1> QED
  BY <1>1, <1>2 DEF IInv

LEMMA RxFlushReqStep ==
  ASSUME IInv, failed = "none", RxFlushReq
  PROVE  IInv'
<1>1. TypeOK'
  <2>1. SequencesOK'
    BY TodoFacts DEF IInv, TypeOK, ConfigsOK, SequencesOK, Fresh, RxFlushReq, QueueLen
  <2>2. (FlagsOK /\ ConfigsOK /\ PlacesOK)' /\ {credits, to_drop, nb}' \subseteq Nat
    BY DEF IInv, TypeOK, FlagsOK, ConfigsOK, PlacesOK, RxFlushReq, QueueLen
  <2> QED
    BY <2>1, <2>2 DEF TypeOK
<1>2. (Life /\ Counts /\ Fresh /\ Bounded)'
  BY PrimeFacts DEF IInv, Life, Counts, Fresh, Bounded, RxFlushReq, QueueLen
<1> QED
  BY <1>1, <1>2 DEF IInv

LEMMA PostStep ==
  ASSUME IInv, failed = "none", Post
  PROVE  IInv'
<1>1. TypeOK'
  <2>1. SequencesOK'
    <3>1. {"flush", "clear", "cleanup"} \subseteq MsgOps /\ NoConfig \in 0..MaxConfigs
      BY LimitFacts
    <3>2. \A op \in {"flush", "clear", "cleanup"} :
             << Message(op, NoConfig) >> \in Seq(Messages) /\ Len(<< Message(op, NoConfig) >>) = 1
      BY <3>1, PostFacts, Zenon
    <3>3. ctrl' = ctrl \/ \E op \in {"flush", "clear", "cleanup"} : ctrl' = << Message(op, NoConfig) >>
      BY DEF Post, PostCtrl
    <3>4. ctrl' \in Seq(Messages) /\ Len(ctrl') <= 1
      <4>1. CASE ctrl' = ctrl
        BY <4>1 DEF IInv, TypeOK, SequencesOK
      <4>2. CASE \E op \in {"flush", "clear", "cleanup"} : ctrl' = << Message(op, NoConfig) >>
        <5>1. ctrl' \in Seq(Messages) /\ Len(ctrl') = 1
          BY <3>2, <4>2, Zenon
        <5> QED
          BY <5>1
      <4> QED
        BY <3>3, <4>1, <4>2
    <3>5. todo' = Tail(todo) /\ todo # << >> /\ UNCHANGED << RxSbcQ, btcq >>
      BY DEF Post, Call
    <3> QED
      BY <3>4, <3>5, TodoFacts DEF IInv, TypeOK, SequencesOK
  <2>2. FlagsOK'
    BY Zenon DEF IInv, TypeOK, FlagsOK, Post, Call
  <2>3. (ConfigsOK /\ PlacesOK)' /\ {credits, to_drop, nb}' \subseteq Nat
    BY DEF IInv, TypeOK, ConfigsOK, PlacesOK, Post, Call, PostCtrl
  <2> QED
    BY <2>1, <2>2, <2>3 DEF TypeOK
<1>2. Life'
  BY PostFacts DEF IInv, Message, TypeOK, SequencesOK, PlacesOK, Life, Post, Call, PostCtrl
<1>3. Fresh'
  BY PostFacts, PrimeFacts, NatFacts, LimitFacts DEF IInv, TypeOK, Fresh, Post, Call, PostCtrl
<1>4. (Counts /\ Bounded)'
  BY DEF IInv, Counts, Bounded, Post, Call, PostCtrl
<1> QED
  BY <1>1, <1>2, <1>3, <1>4 DEF IInv

LEMMA EnableServiceStep ==
  ASSUME IInv, failed = "none", EnableService
  PROVE  IInv'
BY TodoFacts, LimitFacts, SizeFacts, PrimeFacts, NatFacts DEF IInv, TypeOK, FlagsOK, ConfigsOK,
   SequencesOK, PlacesOK, Life, Counts, Fresh, Bounded, EnableService, Call

LEMMA ShuttingDownStep ==
  ASSUME IInv, failed = "none", ShuttingDown
  PROVE  IInv'
BY TodoFacts, LimitFacts, SizeFacts, PrimeFacts, NatFacts DEF IInv, TypeOK, FlagsOK, ConfigsOK,
   SequencesOK, PlacesOK, Life, Counts, Fresh, Bounded, ShuttingDown, Call

LEMMA StopStep ==
  ASSUME IInv, failed = "none", Stop
  PROVE  IInv'
BY TodoFacts, LimitFacts, SizeFacts, PrimeFacts, NatFacts DEF IInv, TypeOK, FlagsOK, ConfigsOK,
   SequencesOK, PlacesOK, Life, Counts, Fresh, Bounded, Stop, Call

LEMMA JoinStep ==
  ASSUME IInv, failed = "none", Join
  PROVE  IInv'
<1>1. TypeOK'
  <2>1. SequencesOK'
    BY TodoFacts, EmptyFacts DEF IInv, TypeOK, ConfigsOK, SequencesOK, Fresh, Join, Call
  <2>2. PlacesOK'
    BY EmptyFacts DEF IInv, TypeOK, PlacesOK, Join, Call
  <2>3. (FlagsOK /\ ConfigsOK)' /\ {credits, to_drop, nb}' \subseteq Nat
    BY DEF IInv, TypeOK, FlagsOK, ConfigsOK, Join, Call
  <2> QED
    BY <2>1, <2>2, <2>3 DEF TypeOK
<1>2. Life'
  BY EmptyFacts DEF IInv, TypeOK, SequencesOK, PlacesOK, Life, Join, Call
<1>3. Fresh'
  BY EmptyFacts, PrimeFacts, NatFacts DEF IInv, Fresh, Join, Call
<1>4. (Counts /\ Bounded)'
  BY DEF IInv, Counts, Bounded, Join, Call
<1> QED
  BY <1>1, <1>2, <1>3, <1>4 DEF IInv

LEMMA DisableServiceStep ==
  ASSUME IInv, failed = "none", DisableService
  PROVE  IInv'
<1>1. TypeOK'
  <2>1. FlagsOK'
    BY Zenon DEF IInv, TypeOK, FlagsOK, DisableService
  <2>2. SequencesOK'
    BY TodoFacts DEF IInv, TypeOK, ConfigsOK, SequencesOK, Fresh, DisableService
  <2>3. PlacesOK'
    BY DEF IInv, TypeOK, PlacesOK, DisableService
  <2>4. ConfigsOK' /\ {credits, to_drop, nb}' \subseteq Nat
    BY DEF IInv, TypeOK, ConfigsOK, DisableService
  <2> QED
    BY <2>1, <2>2, <2>3, <2>4 DEF TypeOK
<1>2. (Life /\ Counts /\ Fresh /\ Bounded)'
  BY PrimeFacts DEF IInv, Life, Counts, Fresh, Bounded, DisableService
<1> QED
  BY <1>1, <1>2 DEF IInv

LEMMA WorkerTakeStep ==
  ASSUME IInv, failed = "none", WorkerTake
  PROVE  IInv'
<1>1. TypeOK'
  <2>1. ConfigsOK'
    BY CtrlFacts, LimitFacts DEF IInv, TypeOK, ConfigsOK, SequencesOK, WorkerTake
  <2>2. SequencesOK'
    BY CtrlFacts DEF IInv, TypeOK, ConfigsOK, SequencesOK, Fresh, WorkerTake
  <2>3. PlacesOK'
    BY CtrlFacts DEF IInv, TypeOK, PlacesOK, WorkerTake
  <2>4. FlagsOK' /\ {credits, to_drop, nb}' \subseteq Nat
    BY DEF IInv, TypeOK, FlagsOK, WorkerTake
  <2> QED
    BY <2>1, <2>2, <2>3, <2>4 DEF TypeOK
<1>2. Life'
  BY CtrlFacts DEF IInv, TypeOK, SequencesOK, PlacesOK, Life, WorkerTake
<1>3. Counts'
  BY CtrlFacts, SizeFacts DEF IInv, TypeOK, Counts, WorkerTake
<1>4. Fresh'
  BY CtrlFacts, PrimeFacts, NatFacts, EmptyFacts DEF IInv, Fresh, WorkerTake
<1>5. Bounded'
  BY CtrlFacts, SizeFacts DEF IInv, Bounded, WorkerTake
<1> QED
  BY <1>1, <1>2, <1>3, <1>4, <1>5 DEF IInv

LEMMA WorkerExitStep ==
  ASSUME IInv, failed = "none", WorkerExit
  PROVE  IInv'
BY LimitFacts, SizeFacts, PrimeFacts, NatFacts DEF IInv, TypeOK, FlagsOK, ConfigsOK, SequencesOK,
   PlacesOK, Life, Counts, Fresh, Bounded, WorkerExit

LEMMA WorkerInitStep ==
  ASSUME IInv, failed = "none", WorkerInit
  PROVE  IInv'
<1>1. TypeOK'
  <2>1. FlagsOK'
    BY Zenon DEF IInv, TypeOK, FlagsOK, WorkerInit
  <2>2. ConfigsOK'
    BY LimitFacts DEF IInv, TypeOK, ConfigsOK, SequencesOK, WorkerInit
  <2>3. PlacesOK'
    BY DEF IInv, TypeOK, PlacesOK, WorkerInit
  <2>4. SequencesOK' /\ {credits, to_drop, nb}' \subseteq Nat
    BY DEF IInv, TypeOK, SequencesOK, WorkerInit
  <2> QED
    BY <2>1, <2>2, <2>3, <2>4 DEF TypeOK
<1>2. Life'
  BY DEF IInv, TypeOK, SequencesOK, PlacesOK, Life, WorkerInit
<1>3. Counts'
  BY SizeFacts DEF IInv, TypeOK, Counts, WorkerInit
<1>4. Fresh'
  BY PrimeFacts, NatFacts DEF IInv, Fresh, WorkerInit
<1>5. Bounded'
  BY SizeFacts, LimitFacts, EmptyFacts DEF IInv, Life, Bounded, WorkerInit
<1> QED
  BY <1>1, <1>2, <1>3, <1>4, <1>5 DEF IInv

LEMMA WorkerInitQueueStep ==
  ASSUME IInv, failed = "none", WorkerInitQueue
  PROVE  IInv'
<1>1. TypeOK'
  <2>1. FlagsOK'
    BY Zenon DEF IInv, TypeOK, FlagsOK, WorkerInitQueue
  <2>2. SequencesOK'
    BY EmptyFacts DEF IInv, TypeOK, ConfigsOK, SequencesOK, Fresh, WorkerInitQueue
  <2>3. PlacesOK'
    BY EmptyFacts DEF IInv, TypeOK, PlacesOK, WorkerInitQueue
  <2>4. {credits, to_drop, nb}' \subseteq Nat
    BY EmptyFacts DEF IInv, TypeOK, SequencesOK, Counts, WorkerInitQueue
  <2>5. ConfigsOK'
    BY DEF IInv, TypeOK, ConfigsOK, WorkerInitQueue
  <2> QED
    BY <2>1, <2>2, <2>3, <2>4, <2>5 DEF TypeOK
<1>2. Life'
  BY EmptyFacts DEF IInv, TypeOK, SequencesOK, PlacesOK, Life, WorkerInitQueue
<1>3. Counts'
  BY EmptyFacts, SizeFacts DEF IInv, Life, TypeOK, Counts, WorkerInitQueue
<1>4. Fresh'
  BY EmptyFacts, PrimeFacts, NatFacts DEF IInv, Fresh, WorkerInitQueue
<1>5. Bounded'
  BY EmptyFacts, SizeFacts DEF IInv, Bounded, WorkerInitQueue
<1> QED
  BY <1>1, <1>2, <1>3, <1>4, <1>5 DEF IInv

LEMMA WorkerCleanUpStep ==
  ASSUME IInv, failed = "none", WorkerCleanUp
  PROVE  IInv'
<1>1. TypeOK'
  <2>1. FlagsOK'
    BY Zenon DEF IInv, TypeOK, FlagsOK, WorkerCleanUp
  <2>2. ConfigsOK'
    BY LimitFacts DEF IInv, TypeOK, ConfigsOK, SequencesOK, WorkerCleanUp
  <2>3. PlacesOK'
    BY DEF IInv, TypeOK, PlacesOK, WorkerCleanUp
  <2>4. SequencesOK' /\ {credits, to_drop, nb}' \subseteq Nat
    BY DEF IInv, TypeOK, SequencesOK, WorkerCleanUp
  <2> QED
    BY <2>1, <2>2, <2>3, <2>4 DEF TypeOK
<1>2. Life'
  BY DEF IInv, TypeOK, SequencesOK, PlacesOK, Life, WorkerCleanUp
<1>3. Counts'
  BY SizeFacts DEF IInv, TypeOK, Counts, WorkerCleanUp
<1>4. Fresh'
  BY PrimeFacts, NatFacts, OrderFacts DEF IInv, TypeOK, SequencesOK, Fresh, WorkerCleanUp
<1>5. Bounded'
  BY SizeFacts DEF IInv, Bounded, WorkerCleanUp
<1> QED
  BY <1>1, <1>2, <1>3, <1>4, <1>5 DEF IInv

LEMMA WorkerFreeQueueStep ==
  ASSUME IInv, failed = "none", WorkerFreeQueue
  PROVE  IInv'
<1>1. TypeOK'
  BY EmptyFacts DEF IInv, TypeOK, FlagsOK, ConfigsOK, SequencesOK, PlacesOK, WorkerFreeQueue
<1>2. Life'
  BY EmptyFacts DEF IInv, TypeOK, SequencesOK, PlacesOK, Life, WorkerFreeQueue
<1>3. Counts'
  BY EmptyFacts, SizeFacts DEF IInv, TypeOK, Counts, WorkerFreeQueue
<1>4. Fresh'
  BY EmptyFacts, PrimeFacts, NatFacts DEF IInv, Fresh, WorkerFreeQueue
<1>5. Bounded'
  BY EmptyFacts, SizeFacts DEF IInv, Bounded, WorkerFreeQueue
<1> QED
  BY <1>1, <1>2, <1>3, <1>4, <1>5 DEF IInv

LEMMA WorkerForgetQueueStep ==
  ASSUME IInv, failed = "none", WorkerForgetQueue
  PROVE  IInv'
BY LimitFacts, SizeFacts, PrimeFacts, NatFacts DEF IInv, TypeOK, FlagsOK, ConfigsOK, SequencesOK,
   PlacesOK, Life, Counts, Fresh, Bounded, WorkerForgetQueue

LEMMA WorkerFlushStep ==
  ASSUME IInv, failed = "none", WorkerFlush
  PROVE  IInv'
<1>0. Removed
  BY RemovalFacts DEF WorkerFlush, QueueLen
<1>1. TypeOK'
  <2>1. SequencesOK'
    BY <1>0 DEF IInv, TypeOK, ConfigsOK, SequencesOK, Fresh, Removed, WorkerFlush, QueueLen
  <2>2. PlacesOK'
    BY <1>0 DEF IInv, TypeOK, PlacesOK, Removed, WorkerFlush, QueueLen
  <2>3. {credits, to_drop, nb}' \subseteq Nat
    BY <1>0 DEF IInv, TypeOK, SequencesOK, Counts, Removed, WorkerFlush, QueueLen
  <2>4. (FlagsOK /\ ConfigsOK)'
    BY DEF IInv, TypeOK, FlagsOK, ConfigsOK, WorkerFlush, QueueLen
  <2> QED
    BY <2>1, <2>2, <2>3, <2>4 DEF TypeOK
<1>2. Life'
  BY <1>0 DEF IInv, TypeOK, SequencesOK, PlacesOK, Life, Removed, WorkerFlush, QueueLen
<1>3. Counts'
  <2>1. /\ Len(RxSbcQ') \in Nat /\ credits' \in Nat /\ credits \in Nat /\ Len(RxSbcQ) \in Nat
        /\ Len(RxSbcQ) - Len(RxSbcQ') = credits - credits'
    BY <1>0, SizeFacts DEF IInv, TypeOK, Removed
  <2>2. worker' \in {worker, "idle", "resetDecoder"} /\ UNCHANGED << btu, to_drop, nb, failed >>
    BY DEF WorkerFlush, QueueLen
  <2> QED
    BY <2>1, <2>2 DEF IInv, Counts
<1>4. Fresh'
  BY <1>0, PrimeFacts, NatFacts DEF IInv, Fresh, Removed, WorkerFlush, QueueLen
<1>5. Bounded'
  BY <1>0, SizeFacts DEF IInv, Bounded, Removed, WorkerFlush, QueueLen
<1> QED
  BY <1>1, <1>2, <1>3, <1>4, <1>5 DEF IInv

LEMMA WorkerResetStep ==
  ASSUME IInv, failed = "none", WorkerReset
  PROVE  IInv'
<1>1. TypeOK'
  <2>1. FlagsOK'
    BY Zenon DEF IInv, TypeOK, FlagsOK, WorkerReset
  <2>2. ConfigsOK'
    BY LimitFacts DEF IInv, TypeOK, ConfigsOK, SequencesOK, WorkerReset
  <2>3. PlacesOK'
    BY DEF IInv, TypeOK, PlacesOK, WorkerReset
  <2>4. SequencesOK' /\ {credits, to_drop, nb}' \subseteq Nat
    BY DEF IInv, TypeOK, SequencesOK, WorkerReset
  <2> QED
    BY <2>1, <2>2, <2>3, <2>4 DEF TypeOK
<1>2. Life'
  BY DEF IInv, TypeOK, SequencesOK, PlacesOK, Life, WorkerReset
<1>3. Counts'
  BY SizeFacts DEF IInv, TypeOK, Counts, WorkerReset
<1>4. Fresh'
  BY PrimeFacts, NatFacts DEF IInv, Fresh, WorkerReset
<1>5. Bounded'
  BY SizeFacts DEF IInv, Bounded, WorkerReset
<1> QED
  BY <1>1, <1>2, <1>3, <1>4, <1>5 DEF IInv

LEMMA WorkerResetFlushStep ==
  ASSUME IInv, failed = "none", WorkerResetFlush
  PROVE  IInv'
<1>0. Removed
  BY RemovalFacts DEF WorkerResetFlush, QueueLen
<1>1. TypeOK'
  <2>1. SequencesOK'
    BY <1>0 DEF IInv, TypeOK, ConfigsOK, SequencesOK, Fresh, Removed, WorkerResetFlush, QueueLen
  <2>2. PlacesOK'
    BY <1>0 DEF IInv, TypeOK, PlacesOK, Removed, WorkerResetFlush, QueueLen
  <2>3. {credits, to_drop, nb}' \subseteq Nat
    BY <1>0 DEF IInv, TypeOK, SequencesOK, Counts, Removed, WorkerResetFlush, QueueLen
  <2>4. (FlagsOK /\ ConfigsOK)'
    BY DEF IInv, TypeOK, FlagsOK, ConfigsOK, WorkerResetFlush, QueueLen
  <2> QED
    BY <2>1, <2>2, <2>3, <2>4 DEF TypeOK
<1>2. Life'
  BY <1>0 DEF IInv, TypeOK, SequencesOK, PlacesOK, Life, Removed, WorkerResetFlush, QueueLen
<1>3. Counts'
  <2>1. /\ Len(RxSbcQ') \in Nat /\ credits' \in Nat /\ credits \in Nat /\ Len(RxSbcQ) \in Nat
        /\ Len(RxSbcQ) - Len(RxSbcQ') = credits - credits'
    BY <1>0, SizeFacts DEF IInv, TypeOK, Removed
  <2>2. worker' \in {worker, "idle", "resetDecoder"} /\ UNCHANGED << btu, to_drop, nb, failed >>
    BY DEF WorkerResetFlush, QueueLen
  <2> QED
    BY <2>1, <2>2 DEF IInv, Counts
<1>4. Fresh'
  BY <1>0, PrimeFacts, NatFacts, EmptyFacts DEF IInv, TypeOK, SequencesOK, Fresh, Removed,
     WorkerResetFlush, QueueLen
<1>5. Bounded'
  BY <1>0, SizeFacts DEF IInv, Bounded, Removed, WorkerResetFlush, QueueLen
<1> QED
  BY <1>1, <1>2, <1>3, <1>4, <1>5 DEF IInv

LEMMA WorkerResetDecoderStep ==
  ASSUME IInv, failed = "none", WorkerResetDecoder
  PROVE  IInv'
<1>1. TypeOK'
  <2>1. FlagsOK'
    BY Zenon DEF IInv, TypeOK, FlagsOK, WorkerResetDecoder
  <2>2. ConfigsOK'
    BY LimitFacts DEF IInv, TypeOK, ConfigsOK, SequencesOK, WorkerResetDecoder
  <2>3. PlacesOK'
    BY DEF IInv, TypeOK, PlacesOK, WorkerResetDecoder
  <2>4. SequencesOK' /\ {credits, to_drop, nb}' \subseteq Nat
    BY DEF IInv, TypeOK, SequencesOK, WorkerResetDecoder
  <2> QED
    BY <2>1, <2>2, <2>3, <2>4 DEF TypeOK
<1>2. Life'
  BY DEF IInv, TypeOK, SequencesOK, PlacesOK, Life, WorkerResetDecoder
<1>3. Counts'
  BY SizeFacts DEF IInv, TypeOK, Counts, WorkerResetDecoder
<1>4. Fresh'
  BY PrimeFacts, NatFacts, OrderFacts DEF IInv, TypeOK, SequencesOK, Fresh, WorkerResetDecoder
<1>5. Bounded'
  BY SizeFacts DEF IInv, Bounded, WorkerResetDecoder
<1> QED
  BY <1>1, <1>2, <1>3, <1>4, <1>5 DEF IInv

LEMMA WorkerResetReadyStep ==
  ASSUME IInv, failed = "none", WorkerResetReady
  PROVE  IInv'
<1>1. TypeOK'
  <2>1. FlagsOK'
    BY Zenon DEF IInv, TypeOK, FlagsOK, WorkerResetReady
  <2>2. ConfigsOK'
    BY LimitFacts DEF IInv, TypeOK, ConfigsOK, SequencesOK, WorkerResetReady
  <2>3. PlacesOK'
    BY DEF IInv, TypeOK, PlacesOK, WorkerResetReady
  <2>4. SequencesOK' /\ {credits, to_drop, nb}' \subseteq Nat
    BY DEF IInv, TypeOK, SequencesOK, WorkerResetReady
  <2> QED
    BY <2>1, <2>2, <2>3, <2>4 DEF TypeOK
<1>2. Life'
  BY DEF IInv, TypeOK, SequencesOK, PlacesOK, Life, WorkerResetReady
<1>3. Counts'
  BY SizeFacts DEF IInv, TypeOK, Counts, WorkerResetReady
<1>4. Fresh'
  BY PrimeFacts, NatFacts DEF IInv, Fresh, WorkerResetReady
<1>5. Bounded'
  BY SizeFacts, LimitFacts DEF IInv, TypeOK, ConfigsOK, Bounded, WorkerResetReady
<1> QED
  BY <1>1, <1>2, <1>3, <1>4, <1>5 DEF IInv

LEMMA WorkerResetUnflushStep ==
  ASSUME IInv, failed = "none", WorkerResetUnflush
  PROVE  IInv'
<1>1. TypeOK'
  <2>1. FlagsOK'
    BY Zenon DEF IInv, TypeOK, FlagsOK, WorkerResetUnflush
  <2>2. ConfigsOK'
    BY LimitFacts DEF IInv, TypeOK, ConfigsOK, SequencesOK, WorkerResetUnflush
  <2>3. PlacesOK'
    BY DEF IInv, TypeOK, PlacesOK, WorkerResetUnflush
  <2>4. SequencesOK' /\ {credits, to_drop, nb}' \subseteq Nat
    BY DEF IInv, TypeOK, SequencesOK, WorkerResetUnflush
  <2> QED
    BY <2>1, <2>2, <2>3, <2>4 DEF TypeOK
<1>2. Life'
  BY DEF IInv, TypeOK, SequencesOK, PlacesOK, Life, WorkerResetUnflush
<1>3. Counts'
  BY SizeFacts DEF IInv, TypeOK, Counts, WorkerResetUnflush
<1>4. Fresh'
  BY PrimeFacts, NatFacts DEF IInv, Fresh, WorkerResetUnflush
<1>5. Bounded'
  BY SizeFacts DEF IInv, Bounded, WorkerResetUnflush
<1> QED
  BY <1>1, <1>2, <1>3, <1>4, <1>5 DEF IInv

LEMMA WorkerDataStep ==
  ASSUME IInv, failed = "none", WorkerData
  PROVE  IInv'
BY LimitFacts, SizeFacts, PrimeFacts, NatFacts DEF IInv, TypeOK, FlagsOK, ConfigsOK, SequencesOK,
   PlacesOK, Life, Counts, Fresh, Bounded, WorkerData

LEMMA WorkerCountStep ==
  ASSUME IInv, failed = "none", WorkerCount
  PROVE  IInv'
BY LimitFacts, SizeFacts, PrimeFacts, NatFacts DEF IInv, TypeOK, FlagsOK, ConfigsOK, SequencesOK,
   PlacesOK, Life, Counts, Fresh, Bounded, WorkerCount, QueueLen

LEMMA WorkerDrainStep ==
  ASSUME IInv, failed = "none", WorkerDrain
  PROVE  IInv'
<1>0. Removed
  BY RemovalFacts DEF WorkerDrain, QueueLen
<1>1. TypeOK'
  <2>1. ConfigsOK'
    <3>1. frame' = frame \/ (Dequeue /\ frame' = Head(RxSbcQ))
      BY DEF WorkerDrain
    <3>2. frame' \in 0..MaxConfigs
      <4>1. CASE frame' = frame
        BY <4>1 DEF IInv, TypeOK, ConfigsOK
      <4>2. CASE Dequeue /\ frame' = Head(RxSbcQ)
        <5>1. Head(RxSbcQ) \in Configs
          BY <4>2, DequeueFacts
        <5> QED
          BY <5>1, <4>2, LimitFacts
      <4> QED
        BY <3>1, <4>1, <4>2
    <3> QED
      BY <3>2 DEF IInv, TypeOK, ConfigsOK, WorkerDrain
  <2>2. SequencesOK'
    BY <1>0 DEF IInv, TypeOK, ConfigsOK, SequencesOK, Fresh, Removed, WorkerDrain
  <2>3. PlacesOK'
    BY <1>0 DEF IInv, TypeOK, PlacesOK, Removed, WorkerDrain
  <2>4. {credits, to_drop, nb}' \subseteq Nat
    BY <1>0 DEF IInv, TypeOK, SequencesOK, Counts, Removed, WorkerDrain
  <2>5. FlagsOK'
    BY DEF IInv, TypeOK, FlagsOK, WorkerDrain
  <2> QED
    BY <2>1, <2>2, <2>3, <2>4, <2>5 DEF TypeOK
<1>2. Life'
  BY <1>0 DEF IInv, TypeOK, SequencesOK, PlacesOK, Life, Removed, WorkerDrain
<1>3. Counts'
  BY <1>0, SizeFacts DEF IInv, MayDequeue, Dequeue, TypeOK, Counts, Removed, WorkerDrain
<1>4. Fresh'
  BY <1>0, PrimeFacts, NatFacts, DequeueFacts DEF IInv, Fresh, Removed, WorkerDrain
<1>5. Bounded'
  BY <1>0, SizeFacts DEF IInv, Bounded, Removed, WorkerDrain
<1> QED
  BY <1>1, <1>2, <1>3, <1>4, <1>5 DEF IInv

LEMMA WorkerJudgeStep ==
  ASSUME IInv, failed = "none", WorkerJudge
  PROVE  IInv'
<1>1. TypeOK'
  <2>1. ConfigsOK'
    BY LimitFacts DEF IInv, TypeOK, ConfigsOK, SequencesOK, WorkerJudge
  <2>2. PlacesOK'
    BY DEF IInv, TypeOK, PlacesOK, WorkerJudge
  <2>3. {credits, to_drop, nb}' \subseteq Nat
    BY DEF IInv, TypeOK, SequencesOK, Counts, WorkerJudge
  <2>4. (FlagsOK /\ SequencesOK)'
    BY DEF IInv, TypeOK, FlagsOK, SequencesOK, WorkerJudge
  <2> QED
    BY <2>1, <2>2, <2>3, <2>4 DEF TypeOK
<1>2. Life'
  BY DEF IInv, TypeOK, SequencesOK, PlacesOK, Life, WorkerJudge
<1>3. Counts'
  BY SizeFacts DEF IInv, TypeOK, Counts, WorkerJudge
<1>4. Fresh'
  BY PrimeFacts, NatFacts DEF IInv, Fresh, WorkerJudge
<1>5. Bounded'
  BY SizeFacts DEF IInv, Bounded, WorkerJudge
<1> QED
  BY <1>1, <1>2, <1>3, <1>4, <1>5 DEF IInv

LEMMA WorkerMediaStep ==
  ASSUME IInv, failed = "none", WorkerMedia
  PROVE  IInv'
<1>1. TypeOK'
  <2>1. ConfigsOK'
    BY LimitFacts DEF IInv, TypeOK, ConfigsOK, SequencesOK, WorkerMedia
  <2>2. PlacesOK'
    BY DEF IInv, TypeOK, PlacesOK, WorkerMedia
  <2>3. {credits, to_drop, nb}' \subseteq Nat
    BY DEF IInv, TypeOK, SequencesOK, Counts, WorkerMedia
  <2>4. (FlagsOK /\ SequencesOK)'
    BY DEF IInv, TypeOK, FlagsOK, SequencesOK, WorkerMedia
  <2> QED
    BY <2>1, <2>2, <2>3, <2>4 DEF TypeOK
<1>2. Life'
  BY DEF IInv, TypeOK, SequencesOK, PlacesOK, Life, WorkerMedia
<1>3. Counts'
  BY SizeFacts DEF IInv, TypeOK, Counts, WorkerMedia
<1>4. Fresh'
  BY PrimeFacts, NatFacts DEF IInv, Fresh, WorkerMedia
<1>5. Bounded'
  BY SizeFacts DEF IInv, Bounded, WorkerMedia
<1> QED
  BY <1>1, <1>2, <1>3, <1>4, <1>5 DEF IInv

LEMMA WorkerDecodeStep ==
  ASSUME IInv, failed = "none", WorkerDecode
  PROVE  IInv'
<1>1. TypeOK'
  <2>1. ConfigsOK'
    BY LimitFacts DEF IInv, TypeOK, ConfigsOK, SequencesOK, WorkerDecode
  <2>2. PlacesOK'
    BY DEF IInv, TypeOK, PlacesOK, WorkerDecode
  <2>3. {credits, to_drop, nb}' \subseteq Nat
    BY DEF IInv, TypeOK, SequencesOK, Counts, WorkerDecode
  <2>4. (FlagsOK /\ SequencesOK)'
    BY DEF IInv, TypeOK, FlagsOK, SequencesOK, WorkerDecode
  <2> QED
    BY <2>1, <2>2, <2>3, <2>4 DEF TypeOK
<1>2. Life'
  BY DEF IInv, TypeOK, SequencesOK, PlacesOK, Life, WorkerDecode
<1>3. Counts'
  BY SizeFacts DEF IInv, TypeOK, Counts, WorkerDecode
<1>4. Fresh'
  BY PrimeFacts, NatFacts DEF IInv, Fresh, WorkerDecode
<1>5. Bounded'
  BY SizeFacts DEF IInv, Bounded, WorkerDecode
<1> QED
  BY <1>1, <1>2, <1>3, <1>4, <1>5 DEF IInv

LEMMA WorkerRestStep ==
  ASSUME IInv, failed = "none", WorkerRest
  PROVE  IInv'
BY LimitFacts, SizeFacts, PrimeFacts, NatFacts DEF IInv, TypeOK, FlagsOK, ConfigsOK, SequencesOK,
   PlacesOK, Life, Counts, Fresh, Bounded, WorkerRest, QueueLen

LEMMA PressCallStep ==
  ASSUME IInv, failed = "none", NEW p \in Pressers, PressCall(p)
  PROVE  IInv'
BY LimitFacts, SizeFacts, PrimeFacts, NatFacts DEF IInv, TypeOK, FlagsOK, ConfigsOK, SequencesOK,
   PlacesOK, Life, Counts, Fresh, Bounded, PressCall, Goes

LEMMA PressFlushOnStep ==
  ASSUME IInv, failed = "none", NEW p \in Pressers, PressFlushOn(p)
  PROVE  IInv'
BY LimitFacts, SizeFacts, PrimeFacts, NatFacts DEF IInv, TypeOK, FlagsOK, ConfigsOK, SequencesOK,
   PlacesOK, Life, Counts, Fresh, Bounded, PressFlushOn, Goes

LEMMA PressEmptyStep ==
  ASSUME IInv, failed = "none", NEW p \in Pressers, PressEmpty(p)
  PROVE  IInv'
BY LimitFacts, SizeFacts, PrimeFacts, NatFacts DEF IInv, TypeOK, FlagsOK, ConfigsOK, SequencesOK,
   PlacesOK, Life, Counts, Fresh, Bounded, PressEmpty, Goes, QueueLen

LEMMA PressTakeStep ==
  ASSUME IInv, failed = "none", NEW p \in Pressers, PressTake(p)
  PROVE  IInv'
<1>0. Removed
  BY RemovalFacts DEF PressTake, QueueLen
<1>1. TypeOK'
  <2>1. SequencesOK'
    BY <1>0 DEF IInv, TypeOK, ConfigsOK, SequencesOK, Fresh, Removed, PressTake, Goes
  <2>2. PlacesOK'
    BY <1>0 DEF IInv, TypeOK, PlacesOK, Removed, PressTake, Goes
  <2>3. {credits, to_drop, nb}' \subseteq Nat
    BY <1>0 DEF IInv, TypeOK, SequencesOK, Counts, Removed, PressTake, Goes
  <2>4. (FlagsOK /\ ConfigsOK)'
    BY DEF IInv, TypeOK, FlagsOK, ConfigsOK, PressTake, Goes
  <2> QED
    BY <2>1, <2>2, <2>3, <2>4 DEF TypeOK
<1>2. Life'
  BY <1>0 DEF IInv, TypeOK, SequencesOK, PlacesOK, Life, Removed, PressTake, Goes
<1>3. Counts'
  <2>1. /\ Len(RxSbcQ') \in Nat /\ credits' \in Nat /\ credits \in Nat /\ Len(RxSbcQ) \in Nat
        /\ Len(RxSbcQ) - Len(RxSbcQ') = credits - credits'
    BY <1>0, SizeFacts DEF IInv, TypeOK, Removed
  <2>2. worker' \in {worker, "idle", "resetDecoder"} /\ UNCHANGED << btu, to_drop, nb, failed >>
    BY DEF PressTake, Goes
  <2> QED
    BY <2>1, <2>2 DEF IInv, Counts
<1>4. Fresh'
  BY <1>0, PrimeFacts, NatFacts DEF IInv, Fresh, Removed, PressTake, Goes
<1>5. Bounded'
  BY <1>0, SizeFacts DEF IInv, Bounded, Removed, PressTake, Goes
<1> QED
  BY <1>1, <1>2, <1>3, <1>4, <1>5 DEF IInv

LEMMA PressReadyStep ==
  ASSUME IInv, failed = "none", NEW p \in Pressers, PressReady(p)
  PROVE  IInv'
BY LimitFacts, SizeFacts, PrimeFacts, NatFacts DEF IInv, TypeOK, FlagsOK, ConfigsOK, SequencesOK,
   PlacesOK, Life, Counts, Fresh, Bounded, PressReady, Goes

LEMMA PressFlushOffStep ==
  ASSUME IInv, failed = "none", NEW p \in Pressers, PressFlushOff(p)
  PROVE  IInv'
<1>1. TypeOK'
  <2>1. FlagsOK'
    BY Zenon DEF IInv, TypeOK, FlagsOK, PressFlushOff, Goes
  <2>2. PlacesOK'
    BY DEF IInv, TypeOK, PlacesOK, PressFlushOff, Goes
  <2>3. (ConfigsOK /\ SequencesOK)' /\ {credits, to_drop, nb}' \subseteq Nat
    BY DEF IInv, TypeOK, ConfigsOK, SequencesOK, PressFlushOff, Goes
  <2> QED
    BY <2>1, <2>2, <2>3 DEF TypeOK
<1>2. (Life /\ Counts /\ Fresh /\ Bounded)'
  BY PrimeFacts DEF IInv, Life, Counts, Fresh, Bounded, PressFlushOff, Goes
<1> QED
  BY <1>1, <1>2 DEF IInv

LEMMA FailStep ==
  ASSUME IInv, failed = "none", Fail
  PROVE  IInv'
BY LimitFacts, SizeFacts, PrimeFacts, NatFacts DEF IInv, TypeOK, FlagsOK, ConfigsOK, SequencesOK,
   PlacesOK, Life, Counts, Fresh, Bounded, Fail, UsesQueue, UsesThread
-----------------------------------------------------------------------------
(* The theorems *)

LEMMA InitLemma ==
  ASSUME Init
  PROVE  IInv
<1>1. /\ << >> \in Seq(Configs) /\ << >> \in Seq(Messages) /\ << >> \in Seq(Events) /\ << >> \in Seq(Calls)
      /\ Len(<< >>) = 0
  OBVIOUS
<1>2. TypeOK
  <2>1. FlagsOK
    BY DEF Init, FlagsOK
  <2>2. PlacesOK
    BY DEF Init, PlacesOK
  <2>3. ConfigsOK /\ {credits, to_drop, nb} \subseteq Nat
    BY LimitFacts DEF Init, ConfigsOK
  <2>4. SequencesOK
    BY <1>1, BoundsAssumption DEF Init, SequencesOK
  <2> QED
    BY <2>1, <2>2, <2>3, <2>4 DEF TypeOK
<1>3. Life /\ Counts
  BY <1>1 DEF Init, Life, Counts
<1>4. Fresh
  BY <1>1, EmptyFacts DEF Init, Fresh
<1>5. Bounded
  BY <1>1, LimitFacts DEF Init, Bounded
<1> QED
  BY <1>2, <1>3, <1>4, <1>5 DEF IInv

\* The inductive invariant is kept by every step.
LEMMA NextLemma ==
  ASSUME IInv, [Next]_vars
  PROVE  IInv'

<1>1. CASE failed = "none" /\ BtuCall
  BY <1>1, MediaIgnoredStep, EnqCheckStep, EnqReadyStep, EnqRoomStep, EnqDropStep, EnqAppendStep,
     EnqAppendFailsStep, EnqGiveStep, EnqPostStep, PostCfgStep DEF BtuCall
<1>2. CASE failed = "none" /\ PeerStep
  BY <1>2, MediaDataStep, SinkCfgStep, PeerOpenStep, PeerStartStep, PeerSuspendStep, PeerStopStep,
     PeerCloseStep, BtuDisableStep DEF PeerStep
<1>3. CASE failed = "none" /\ BtcStep
  BY <1>3, BtcEventStep, SetRxFlushStep, SetChannelStep, SetStateStep, RxFlushReqStep, PostStep,
     EnableServiceStep, ShuttingDownStep, StopStep, JoinStep, DisableServiceStep DEF BtcStep
<1>4. CASE failed = "none" /\ AppStep
  BY <1>4, AppInitStep, AppDeinitStep DEF AppStep
<1>5. CASE failed = "none" /\ WorkerStep
  BY <1>5, WorkerTakeStep, WorkerExitStep, WorkerInitStep, WorkerInitQueueStep, WorkerCleanUpStep,
     WorkerFreeQueueStep, WorkerForgetQueueStep, WorkerFlushStep, WorkerResetStep, WorkerResetFlushStep,
     WorkerResetDecoderStep, WorkerResetReadyStep, WorkerResetUnflushStep, WorkerDataStep, WorkerCountStep,
     WorkerDrainStep, WorkerJudgeStep, WorkerMediaStep, WorkerDecodeStep, WorkerRestStep DEF WorkerStep
<1>6. CASE failed = "none" /\ \E p \in Pressers : PressCall(p) \/ PressStep(p)
  BY <1>6, PressCallStep, PressFlushOnStep, PressEmptyStep, PressTakeStep, PressReadyStep,
     PressFlushOffStep DEF PressStep
<1>7. CASE failed = "none" /\ Fail
  BY <1>7, FailStep
<1>8. CASE UNCHANGED vars
  <2>1. UNCHANGED << sinkVars, queueVars, threadVars, btuVars, btcVars, workerVars, pressure, failed, lost >>
    BY <1>8 DEF vars
  <2> QED
    BY <2>1 DEF IInv, TypeOK, FlagsOK, ConfigsOK, SequencesOK, PlacesOK, Life, Counts, Fresh, Announced,
       NotOlder, Bounded
<1> QED
  BY <1>1, <1>2, <1>3, <1>4, <1>5, <1>6, <1>7, <1>8 DEF Next

\* What holds whenever a task looks: the queue exists where it is used, nothing
\* is counted that is not there, the configurations are in order, packets fit.
THEOREM Invariance == Spec => []IInv
<1>1. Init => IInv
  BY InitLemma
<1>2. IInv /\ [Next]_vars => IInv'
  BY NextLemma
<1> QED
  BY <1>1, <1>2, PTL DEF Spec

\* Every variable of the sink has a value the code can give it, whatever is
\* interleaved, lost for want of memory, or shut down in between.
THEOREM TypeCorrect == Spec => []TypeOK
<1>1. IInv => TypeOK
  BY DEF IInv
<1> QED
  BY <1>1, Invariance, PTL

\* btc_a2dp_sink.c:629 and btc_a2dp_sink_handle_decoder_reset: no decoder is given
\* a packet that was sent before its configuration was set.
THEOREM FramesAreFresh == Spec => []FramesNotStale
<1>1. IInv => FramesNotStale
  BY DEF IInv, Fresh, FramesNotStale
<1> QED
  BY <1>1, Invariance, PTL

\* btc_a2dp_sink_enque_buf: the queue never holds more than the limit in force,
\* also when the worker changes the limit between the check and the enqueue.
THEOREM QueueIsBounded == Spec => []QueueBounded
<1>1. IInv => QueueBounded
  BY DEF IInv, Bounded, QueueBounded, QueueLen
<1> QED
  BY <1>1, Invariance, PTL

-----------------------------------------------------------------------------
(* Without a deinitialisation nothing fails: the queue, its event and the   *)
(* thread outlive everybody who uses them.                                  *)

\* The calls that end the decoder thread and the service.
EndCalls == {"shuttingDown", "postCleanUp", "stop", "join", "disable"}

Due(op) == ctrl # << >> /\ ctrl[1].op = op
CleanPending == worker \in {"cleanup", "cleanup2", "cleanup3"} \/ Due("cleanup")

\* Once started, the thread runs for ever and the service stays enabled.
Lasting == /\ ~deinit /\ todo \in Seq(Calls \ EndCalls) /\ registered # "disabling"
           /\ ~CleanPending /\ thread # "stopping"
           /\ thread = "none" => av = "off" /\ todo = << >> /\ registered = "no" /\ btu # "cfg"

\* Whoever has seen the queue or its event finds it.
Reached == /\ queue_ptr # "freed"
           /\ event # "null" <=> queue_ptr = "made"
           /\ btu \in {"ready", "room", "drop", "append", "give", "post"} => queue_ptr = "made"
           /\ \A p \in Pressers : pressure[p] = "take" => queue_ptr = "made"

Alive == Lasting /\ Reached /\ failed = "none"

\* What is left of a script that ends nothing, and what begins one.
LEMMA LastingScripts ==
  /\ \A t \in Seq(Calls \ EndCalls) : t # << >> =>
        /\ Head(t) \notin EndCalls /\ Tail(t) \in Seq(Calls \ EndCalls)
        /\ << "postFlush" >> \o Tail(t) \in Seq(Calls \ EndCalls)
  /\ OnIdle \o << "enable" >> \in Seq(Calls \ EndCalls)
  /\ \A e \in Events : ~deinit => Handler(e) \in Seq(Calls \ EndCalls)
  /\ << >> \in Seq(Calls \ EndCalls)
<1>1. ASSUME NEW t \in Seq(Calls \ EndCalls), t # << >>
      PROVE  /\ Head(t) \notin EndCalls /\ Tail(t) \in Seq(Calls \ EndCalls)
             /\ << "postFlush" >> \o Tail(t) \in Seq(Calls \ EndCalls)
  <2>1. Head(t) \in Calls \ EndCalls /\ Tail(t) \in Seq(Calls \ EndCalls)
    BY <1>1, HeadTailProperties
  <2>2. << "postFlush" >> \in Seq(Calls \ EndCalls)
    BY DEF EndCalls
  <2> QED
    BY <2>1, <2>2, ConcatProperties
<1>2. /\ OnSuspended \in Seq(Calls \ EndCalls) /\ OnStopped \in Seq(Calls \ EndCalls)
      /\ OnIdle \in Seq(Calls \ EndCalls)
  BY DEF EndCalls, OnSuspended, OnStopped, OnIdle
<1>3. /\ << >> \in Seq(Calls \ EndCalls) /\ << "enable" >> \in Seq(Calls \ EndCalls)
      /\ << "opened" >> \in Seq(Calls \ EndCalls) /\ << "idle" >> \in Seq(Calls \ EndCalls)
      /\ << "rxFlushOff", "openChannel", "started" >> \in Seq(Calls \ EndCalls)
  BY DEF EndCalls
<1>4. /\ OnSuspended \o << "opened" >> \in Seq(Calls \ EndCalls)
      /\ OnStopped \o << "opened" >> \in Seq(Calls \ EndCalls)
      /\ OnStopped \o << "idle" >> \in Seq(Calls \ EndCalls)
      /\ OnIdle \o << "enable" >> \in Seq(Calls \ EndCalls)
  BY <1>2, <1>3, ConcatProperties
<1>5. OnStopped \o << "idle" >> \o OnIdle \in Seq(Calls \ EndCalls)
  BY <1>2, <1>4, ConcatProperties
<1>6. OnStopped \o << "idle" >> \o OnIdle \o << >> \in Seq(Calls \ EndCalls)
  BY <1>3, <1>5, ConcatProperties
<1>7. ASSUME NEW e \in Events, ~deinit
      PROVE  Handler(e) \in Seq(Calls \ EndCalls)
  BY <1>3, <1>4, <1>6, <1>7 DEF Handler
<1> QED
  BY <1>1, <1>3, <1>4, <1>7

\* What the thread holds: RxSbcQ is empty where the queue does not exist.
LEMMA QueueThere ==
  ASSUME IInv, QueueLen # 0
  PROVE  queue_ptr = "made"
BY EmptyFacts DEF IInv, Life, QueueLen

(* No step ends the thread, the service, or what they use.                   *)

LEMMA BtuLasts ==
  ASSUME IInv, Alive, ~MayDeinit, BtuCall
  PROVE  Lasting'
<1>1. ASSUME MediaIgnored PROVE Lasting'
  BY <1>1 DEF IInv, TypeOK, Alive, Lasting, CleanPending, Due, Life, MediaIgnored
<1>2. ASSUME EnqCheck PROVE Lasting'
  BY <1>2 DEF IInv, TypeOK, Alive, Lasting, CleanPending, Due, Life, EnqCheck
<1>3. ASSUME EnqReady PROVE Lasting'
  BY <1>3 DEF IInv, TypeOK, Alive, Lasting, CleanPending, Due, Life, EnqReady
<1>4. ASSUME EnqRoom PROVE Lasting'
  BY <1>4 DEF IInv, TypeOK, Alive, Lasting, CleanPending, Due, Life, EnqRoom
<1>5. ASSUME EnqDrop PROVE Lasting'
  BY <1>5 DEF IInv, TypeOK, Alive, Lasting, CleanPending, Due, Life, EnqDrop, DropOne, Dequeue
<1>6. ASSUME EnqAppend PROVE Lasting'
  BY <1>6 DEF IInv, TypeOK, Alive, Lasting, CleanPending, Due, Life, EnqAppend
<1>7. ASSUME EnqAppendFails PROVE Lasting'
  BY <1>7 DEF IInv, TypeOK, Alive, Lasting, CleanPending, Due, Life, EnqAppendFails
<1>8. ASSUME EnqGive PROVE Lasting'
  BY <1>8 DEF IInv, TypeOK, Alive, Lasting, CleanPending, Due, Life, EnqGive
<1>9. ASSUME EnqPost PROVE Lasting'
  BY <1>9 DEF IInv, TypeOK, Alive, Lasting, CleanPending, Due, Life, EnqPost
<1>10. ASSUME PostCfg PROVE Lasting'
  BY <1>10 DEF IInv, TypeOK, Alive, Lasting, CleanPending, Due, Life, PostCfg, PostCtrl, Message
<1> QED
  BY <1>1, <1>2, <1>3, <1>4, <1>5, <1>6, <1>7, <1>8, <1>9, <1>10 DEF BtuCall

LEMMA PeerLasts ==
  ASSUME IInv, Alive, ~MayDeinit, PeerStep
  PROVE  Lasting'
<1>1. ASSUME MediaData PROVE Lasting'
  BY <1>1 DEF IInv, TypeOK, Alive, Lasting, CleanPending, Due, Life, MediaData
<1>2. ASSUME SinkCfg PROVE Lasting'
  BY <1>2 DEF IInv, TypeOK, Alive, Lasting, CleanPending, Due, Life, SinkCfg
<1>3. ASSUME PeerOpen PROVE Lasting'
  BY <1>3 DEF IInv, TypeOK, Alive, Lasting, CleanPending, Due, Life, PeerOpen, PeerEvent
<1>4. ASSUME PeerStart PROVE Lasting'
  BY <1>4 DEF IInv, TypeOK, Alive, Lasting, CleanPending, Due, Life, PeerStart, PeerEvent
<1>5. ASSUME PeerSuspend PROVE Lasting'
  BY <1>5 DEF IInv, TypeOK, Alive, Lasting, CleanPending, Due, Life, PeerSuspend, PeerEvent
<1>6. ASSUME PeerStop PROVE Lasting'
  BY <1>6 DEF IInv, TypeOK, Alive, Lasting, CleanPending, Due, Life, PeerStop, PeerEvent
<1>7. ASSUME PeerClose PROVE Lasting'
  BY <1>7 DEF IInv, TypeOK, Alive, Lasting, CleanPending, Due, Life, PeerClose, PeerEvent
<1>8. ASSUME BtuDisable PROVE Lasting'
  BY <1>8 DEF IInv, TypeOK, Alive, Lasting, CleanPending, Due, Life, BtuDisable
<1> QED
  BY <1>1, <1>2, <1>3, <1>4, <1>5, <1>6, <1>7, <1>8 DEF PeerStep

LEMMA BtcLasts ==
  ASSUME IInv, Alive, ~MayDeinit, BtcStep
  PROVE  Lasting'
<1>1. todo # << >> => /\ Head(todo) \notin EndCalls /\ Tail(todo) \in Seq(Calls \ EndCalls)
                      /\ << "postFlush" >> \o Tail(todo) \in Seq(Calls \ EndCalls)
  BY LastingScripts DEF Alive, Lasting
<1>2. ASSUME BtcEvent PROVE Lasting'
  <2>1. todo' \in Seq(Calls \ EndCalls)
    BY <1>2, LastingScripts, BtcqFacts DEF IInv, Alive, Lasting, BtcEvent
  <2>2. thread = "none" => todo' = << >>
    BY <1>2 DEF Alive, Lasting, BtcEvent, Handler
  <2> QED
    BY <1>2, <2>1, <2>2 DEF Alive, Lasting, CleanPending, Due, BtcEvent
<1>3. ASSUME SetRxFlush PROVE Lasting'
  <2>1. /\ todo # << >> /\ todo' = Tail(todo)
        /\ UNCHANGED << threadVars, btuVars, av, deinit, registered, workerVars >>
    BY <1>3 DEF SetRxFlush, Call
  <2> QED
    BY <1>1, <2>1 DEF Alive, Lasting, CleanPending, Due
<1>4. ASSUME SetChannel PROVE Lasting'
  <2>1. /\ todo # << >> /\ todo' = Tail(todo)
        /\ UNCHANGED << threadVars, btuVars, av, deinit, registered, workerVars >>
    BY <1>4 DEF SetChannel, Call
  <2> QED
    BY <1>1, <2>1 DEF Alive, Lasting, CleanPending, Due
<1>5. ASSUME SetState PROVE Lasting'
  BY <1>1, <1>5 DEF Alive, Lasting, CleanPending, Due, SetState, Call
<1>6. ASSUME RxFlushReq PROVE Lasting'
  BY <1>1, <1>6 DEF Alive, Lasting, CleanPending, Due, RxFlushReq
<1>7. ASSUME Post PROVE Lasting'
  <2>1. /\ todo # << >> /\ todo' = Tail(todo) /\ Head(todo) \in {"postFlush", "clearTrack", "postCleanUp"}
        /\ UNCHANGED << thread, btuVars, av, deinit, registered, workerVars >>
    BY <1>7 DEF Post, Call, PostCtrl
  <2>2. UNCHANGED ctrl \/ ctrl' \in {<< Message("flush", NoConfig) >>, << Message("clear", NoConfig) >>}
    BY <1>1, <1>7 DEF Post, Call, PostCtrl, EndCalls
  <2>3. ~CleanPending'
    BY <2>1, <2>2 DEF Alive, Lasting, CleanPending, Due, Message
  <2> QED
    BY <1>1, <2>1, <2>3 DEF Alive, Lasting
<1>8. ASSUME EnableService PROVE Lasting'
  BY <1>1, <1>8 DEF Alive, Lasting, CleanPending, Due, EnableService, Call
<1>9. ASSUME ShuttingDown PROVE Lasting'
  BY <1>1, <1>9 DEF EndCalls, ShuttingDown, Call
<1>10. ASSUME Stop PROVE Lasting'
  BY <1>1, <1>10 DEF EndCalls, Stop, Call
<1>11. ASSUME Join PROVE Lasting'
  BY <1>1, <1>11 DEF EndCalls, Join, Call
<1>12. ASSUME DisableService PROVE Lasting'
  BY <1>1, <1>12 DEF EndCalls, DisableService
<1> QED
  BY <1>2, <1>3, <1>4, <1>5, <1>6, <1>7, <1>8, <1>9, <1>10, <1>11, <1>12 DEF BtcStep

LEMMA AppLasts ==
  ASSUME IInv, Alive, ~MayDeinit, AppStep
  PROVE  Lasting'
<1>1. ASSUME AppInit PROVE Lasting'
  BY <1>1, LastingScripts DEF IInv, TypeOK, Alive, Lasting, CleanPending, Due, Life, AppInit, Message
<1>2. ASSUME AppDeinit PROVE Lasting'
  BY <1>2 DEF IInv, TypeOK, Alive, Lasting, CleanPending, Due, Life, AppDeinit
<1> QED
  BY <1>1, <1>2 DEF AppStep

LEMMA WorkerLasts ==
  ASSUME IInv, Alive, ~MayDeinit, WorkerStep
  PROVE  Lasting'
<1>1. ASSUME WorkerTake PROVE Lasting'
  BY <1>1, CtrlFacts DEF IInv, TypeOK, Alive, Lasting, CleanPending, Due, Life, WorkerTake
<1>2. ASSUME WorkerExit PROVE Lasting'
  BY <1>2 DEF IInv, TypeOK, Alive, Lasting, CleanPending, Due, Life, WorkerExit
<1>3. ASSUME WorkerInit PROVE Lasting'
  BY <1>3 DEF IInv, TypeOK, Alive, Lasting, CleanPending, Due, Life, WorkerInit
<1>4. ASSUME WorkerInitQueue PROVE Lasting'
  BY <1>4 DEF IInv, TypeOK, Alive, Lasting, CleanPending, Due, Life, WorkerInitQueue
<1>5. ASSUME WorkerCleanUp PROVE Lasting'
  BY <1>5 DEF IInv, TypeOK, Alive, Lasting, CleanPending, Due, Life, WorkerCleanUp
<1>6. ASSUME WorkerFreeQueue PROVE Lasting'
  BY <1>6 DEF IInv, TypeOK, Alive, Lasting, CleanPending, Due, Life, WorkerFreeQueue
<1>7. ASSUME WorkerForgetQueue PROVE Lasting'
  BY <1>7 DEF IInv, TypeOK, Alive, Lasting, CleanPending, Due, Life, WorkerForgetQueue
<1>8. ASSUME WorkerFlush PROVE Lasting'
  BY <1>8 DEF IInv, TypeOK, Alive, Lasting, CleanPending, Due, Life, WorkerFlush, DropOne, Dequeue
<1>9. ASSUME WorkerReset PROVE Lasting'
  BY <1>9 DEF IInv, TypeOK, Alive, Lasting, CleanPending, Due, Life, WorkerReset
<1>10. ASSUME WorkerResetFlush PROVE Lasting'
  BY <1>10 DEF IInv, TypeOK, Alive, Lasting, CleanPending, Due, Life, WorkerResetFlush, DropOne, Dequeue
<1>11. ASSUME WorkerResetDecoder PROVE Lasting'
  BY <1>11 DEF IInv, TypeOK, Alive, Lasting, CleanPending, Due, Life, WorkerResetDecoder
<1>12. ASSUME WorkerResetReady PROVE Lasting'
  BY <1>12 DEF IInv, TypeOK, Alive, Lasting, CleanPending, Due, Life, WorkerResetReady
<1>13. ASSUME WorkerResetUnflush PROVE Lasting'
  BY <1>13 DEF IInv, TypeOK, Alive, Lasting, CleanPending, Due, Life, WorkerResetUnflush
<1>14. ASSUME WorkerData PROVE Lasting'
  BY <1>14 DEF IInv, TypeOK, Alive, Lasting, CleanPending, Due, Life, WorkerData
<1>15. ASSUME WorkerCount PROVE Lasting'
  BY <1>15 DEF IInv, TypeOK, Alive, Lasting, CleanPending, Due, Life, WorkerCount
<1>16. ASSUME WorkerDrain PROVE Lasting'
  BY <1>16 DEF IInv, TypeOK, Alive, Lasting, CleanPending, Due, Life, WorkerDrain, Dequeue
<1>17. ASSUME WorkerJudge PROVE Lasting'
  BY <1>17 DEF IInv, TypeOK, Alive, Lasting, CleanPending, Due, Life, WorkerJudge
<1>18. ASSUME WorkerMedia PROVE Lasting'
  BY <1>18 DEF IInv, TypeOK, Alive, Lasting, CleanPending, Due, Life, WorkerMedia
<1>19. ASSUME WorkerDecode PROVE Lasting'
  BY <1>19 DEF IInv, TypeOK, Alive, Lasting, CleanPending, Due, Life, WorkerDecode
<1>20. ASSUME WorkerRest PROVE Lasting'
  BY <1>20 DEF IInv, TypeOK, Alive, Lasting, CleanPending, Due, Life, WorkerRest
<1> QED
  BY <1>1, <1>2, <1>3, <1>4, <1>5, <1>6, <1>7, <1>8, <1>9, <1>10, <1>11, <1>12, <1>13, <1>14, <1>15, <1>16,
     <1>17, <1>18, <1>19, <1>20 DEF WorkerStep

LEMMA PressLasts ==
  ASSUME IInv, Alive, ~MayDeinit, NEW p \in Pressers, PressCall(p) \/ PressStep(p)
  PROVE  Lasting'
<1>1. ASSUME PressCall(p) PROVE Lasting'
  BY <1>1 DEF IInv, TypeOK, Alive, Lasting, CleanPending, Due, Life, PressCall, Goes
<1>2. ASSUME PressFlushOn(p) PROVE Lasting'
  BY <1>2 DEF IInv, TypeOK, Alive, Lasting, CleanPending, Due, Life, PressFlushOn, Goes
<1>3. ASSUME PressEmpty(p) PROVE Lasting'
  BY <1>3 DEF IInv, TypeOK, Alive, Lasting, CleanPending, Due, Life, PressEmpty, Goes
<1>4. ASSUME PressTake(p) PROVE Lasting'
  BY <1>4 DEF IInv, TypeOK, Alive, Lasting, CleanPending, Due, Life, PressTake, DropOne, Dequeue, Goes
<1>5. ASSUME PressReady(p) PROVE Lasting'
  BY <1>5 DEF IInv, TypeOK, Alive, Lasting, CleanPending, Due, Life, PressReady, Goes
<1>6. ASSUME PressFlushOff(p) PROVE Lasting'
  BY <1>6 DEF IInv, TypeOK, Alive, Lasting, CleanPending, Due, Life, PressFlushOff, Goes
<1> QED
  BY <1>1, <1>2, <1>3, <1>4, <1>5, <1>6 DEF PressStep

(* The queue and its event are there for whoever has seen them.             *)

LEMMA BtuReached ==
  ASSUME IInv, Alive, ~MayDeinit, BtuCall
  PROVE  Reached' /\ failed' = "none"
<1>1. ASSUME MediaIgnored PROVE Reached' /\ failed' = "none"
  BY <1>1 DEF Alive, Reached, MediaIgnored
<1>2. ASSUME EnqCheck PROVE Reached' /\ failed' = "none"
  BY <1>2 DEF Alive, Reached, EnqCheck
<1>3. ASSUME EnqReady PROVE Reached' /\ failed' = "none"
  BY <1>3 DEF Alive, Reached, EnqReady
<1>4. ASSUME EnqRoom PROVE Reached' /\ failed' = "none"
  BY <1>4 DEF Alive, Reached, EnqRoom
<1>5. ASSUME EnqDrop PROVE Reached' /\ failed' = "none"
  BY <1>5 DEF Alive, Reached, EnqDrop, DropOne, Dequeue
<1>6. ASSUME EnqAppend PROVE Reached' /\ failed' = "none"
  BY <1>6 DEF Alive, Reached, EnqAppend
<1>7. ASSUME EnqAppendFails PROVE Reached' /\ failed' = "none"
  BY <1>7 DEF Alive, Reached, EnqAppendFails
<1>8. ASSUME EnqGive PROVE Reached' /\ failed' = "none"
  BY <1>8 DEF Alive, Reached, EnqGive
<1>9. ASSUME EnqPost PROVE Reached' /\ failed' = "none"
  BY <1>9 DEF Alive, Reached, EnqPost
<1>10. ASSUME PostCfg PROVE Reached' /\ failed' = "none"
  BY <1>10 DEF Alive, Reached, PostCfg, PostCtrl, Message
<1> QED
  BY <1>1, <1>2, <1>3, <1>4, <1>5, <1>6, <1>7, <1>8, <1>9, <1>10 DEF BtuCall

LEMMA PeerReached ==
  ASSUME IInv, Alive, ~MayDeinit, PeerStep
  PROVE  Reached' /\ failed' = "none"
<1>1. ASSUME MediaData PROVE Reached' /\ failed' = "none"
  BY <1>1 DEF Alive, Reached, MediaData
<1>2. ASSUME SinkCfg PROVE Reached' /\ failed' = "none"
  BY <1>2 DEF Alive, Reached, SinkCfg
<1>3. ASSUME PeerOpen PROVE Reached' /\ failed' = "none"
  BY <1>3 DEF Alive, Reached, PeerOpen, PeerEvent
<1>4. ASSUME PeerStart PROVE Reached' /\ failed' = "none"
  BY <1>4 DEF Alive, Reached, PeerStart, PeerEvent
<1>5. ASSUME PeerSuspend PROVE Reached' /\ failed' = "none"
  BY <1>5 DEF Alive, Reached, PeerSuspend, PeerEvent
<1>6. ASSUME PeerStop PROVE Reached' /\ failed' = "none"
  BY <1>6 DEF Alive, Reached, PeerStop, PeerEvent
<1>7. ASSUME PeerClose PROVE Reached' /\ failed' = "none"
  BY <1>7 DEF Alive, Reached, PeerClose, PeerEvent
<1>8. ASSUME BtuDisable PROVE Reached' /\ failed' = "none"
  BY <1>8 DEF Alive, Reached, BtuDisable
<1> QED
  BY <1>1, <1>2, <1>3, <1>4, <1>5, <1>6, <1>7, <1>8 DEF PeerStep

LEMMA BtcReached ==
  ASSUME IInv, Alive, ~MayDeinit, BtcStep
  PROVE  Reached' /\ failed' = "none"
<1>1. ASSUME BtcEvent PROVE Reached' /\ failed' = "none"
  BY <1>1 DEF Alive, Reached, BtcEvent
<1>2. ASSUME SetRxFlush PROVE Reached' /\ failed' = "none"
  BY <1>2 DEF Alive, Reached, SetRxFlush, Call
<1>3. ASSUME SetChannel PROVE Reached' /\ failed' = "none"
  BY <1>3 DEF Alive, Reached, SetChannel, Call
<1>4. ASSUME SetState PROVE Reached' /\ failed' = "none"
  BY <1>4 DEF Alive, Reached, SetState, Call
<1>5. ASSUME RxFlushReq PROVE Reached' /\ failed' = "none"
  BY <1>5 DEF Alive, Reached, RxFlushReq
<1>6. ASSUME Post PROVE Reached' /\ failed' = "none"
  BY <1>6 DEF Alive, Reached, Post, Call, PostCtrl, Message
<1>7. ASSUME EnableService PROVE Reached' /\ failed' = "none"
  BY <1>7 DEF Alive, Reached, EnableService, Call
<1>8. ASSUME ShuttingDown PROVE Reached' /\ failed' = "none"
  BY <1>8 DEF Alive, Reached, Lasting, CleanPending, ShuttingDown, Call
<1>9. ASSUME Stop PROVE Reached' /\ failed' = "none"
  BY <1>9 DEF Alive, Reached, Lasting, CleanPending, Stop, Call
<1>10. ASSUME Join PROVE Reached' /\ failed' = "none"
  BY <1>10 DEF Alive, Reached, Lasting, CleanPending, Join, Call
<1>11. ASSUME DisableService PROVE Reached' /\ failed' = "none"
  BY <1>11 DEF Alive, Reached, Lasting, CleanPending, DisableService
<1> QED
  BY <1>1, <1>2, <1>3, <1>4, <1>5, <1>6, <1>7, <1>8, <1>9, <1>10, <1>11 DEF BtcStep

LEMMA AppReached ==
  ASSUME IInv, Alive, ~MayDeinit, AppStep
  PROVE  Reached' /\ failed' = "none"
<1>1. ASSUME AppInit PROVE Reached' /\ failed' = "none"
  BY <1>1 DEF Alive, Reached, AppInit, Message
<1>2. ASSUME AppDeinit PROVE Reached' /\ failed' = "none"
  BY <1>2 DEF Alive, Reached, AppDeinit
<1> QED
  BY <1>1, <1>2 DEF AppStep

LEMMA WorkerReached ==
  ASSUME IInv, Alive, ~MayDeinit, WorkerStep
  PROVE  Reached' /\ failed' = "none"
<1>1. ASSUME WorkerTake PROVE Reached' /\ failed' = "none"
  BY <1>1 DEF Alive, Reached, WorkerTake
<1>2. ASSUME WorkerExit PROVE Reached' /\ failed' = "none"
  BY <1>2 DEF Alive, Reached, WorkerExit
<1>3. ASSUME WorkerInit PROVE Reached' /\ failed' = "none"
  BY <1>3 DEF IInv, Life, Alive, Reached, WorkerInit
<1>4. ASSUME WorkerInitQueue PROVE Reached' /\ failed' = "none"
  BY <1>4 DEF IInv, Life, Alive, Reached, WorkerInitQueue
<1>5. ASSUME WorkerCleanUp PROVE Reached' /\ failed' = "none"
  BY <1>5 DEF Alive, Reached, Lasting, CleanPending, WorkerCleanUp
<1>6. ASSUME WorkerFreeQueue PROVE Reached' /\ failed' = "none"
  BY <1>6 DEF Alive, Reached, Lasting, CleanPending, WorkerFreeQueue
<1>7. ASSUME WorkerForgetQueue PROVE Reached' /\ failed' = "none"
  BY <1>7 DEF Alive, Reached, Lasting, CleanPending, WorkerForgetQueue
<1>8. ASSUME WorkerFlush PROVE Reached' /\ failed' = "none"
  BY <1>8 DEF Alive, Reached, WorkerFlush, DropOne, Dequeue
<1>9. ASSUME WorkerReset PROVE Reached' /\ failed' = "none"
  BY <1>9 DEF Alive, Reached, WorkerReset
<1>10. ASSUME WorkerResetFlush PROVE Reached' /\ failed' = "none"
  BY <1>10 DEF Alive, Reached, WorkerResetFlush, DropOne, Dequeue
<1>11. ASSUME WorkerResetDecoder PROVE Reached' /\ failed' = "none"
  BY <1>11 DEF Alive, Reached, WorkerResetDecoder
<1>12. ASSUME WorkerResetReady PROVE Reached' /\ failed' = "none"
  BY <1>12 DEF Alive, Reached, WorkerResetReady
<1>13. ASSUME WorkerResetUnflush PROVE Reached' /\ failed' = "none"
  BY <1>13 DEF Alive, Reached, WorkerResetUnflush
<1>14. ASSUME WorkerData PROVE Reached' /\ failed' = "none"
  BY <1>14 DEF Alive, Reached, WorkerData
<1>15. ASSUME WorkerCount PROVE Reached' /\ failed' = "none"
  BY <1>15 DEF Alive, Reached, WorkerCount
<1>16. ASSUME WorkerDrain PROVE Reached' /\ failed' = "none"
  BY <1>16 DEF Alive, Reached, WorkerDrain, Dequeue
<1>17. ASSUME WorkerJudge PROVE Reached' /\ failed' = "none"
  BY <1>17 DEF Alive, Reached, WorkerJudge
<1>18. ASSUME WorkerMedia PROVE Reached' /\ failed' = "none"
  BY <1>18 DEF Alive, Reached, WorkerMedia
<1>19. ASSUME WorkerDecode PROVE Reached' /\ failed' = "none"
  BY <1>19 DEF Alive, Reached, WorkerDecode
<1>20. ASSUME WorkerRest PROVE Reached' /\ failed' = "none"
  BY <1>20, QueueThere DEF Alive, Reached, WorkerRest
<1> QED
  BY <1>1, <1>2, <1>3, <1>4, <1>5, <1>6, <1>7, <1>8, <1>9, <1>10, <1>11, <1>12, <1>13, <1>14, <1>15, <1>16,
     <1>17, <1>18, <1>19, <1>20 DEF WorkerStep

LEMMA PressReached ==
  ASSUME IInv, Alive, ~MayDeinit, NEW p \in Pressers, PressCall(p) \/ PressStep(p)
  PROVE  Reached' /\ failed' = "none"
<1>1. ASSUME PressCall(p) PROVE Reached' /\ failed' = "none"
  BY <1>1 DEF IInv, TypeOK, PlacesOK, Alive, Reached, PressCall, Goes
<1>2. ASSUME PressFlushOn(p) PROVE Reached' /\ failed' = "none"
  BY <1>2 DEF IInv, TypeOK, PlacesOK, Alive, Reached, PressFlushOn, Goes
<1>3. ASSUME PressEmpty(p) PROVE Reached' /\ failed' = "none"
  BY <1>3, QueueThere DEF IInv, TypeOK, PlacesOK, Alive, Reached, PressEmpty, Goes
<1>4. ASSUME PressTake(p) PROVE Reached' /\ failed' = "none"
  BY <1>4 DEF IInv, TypeOK, PlacesOK, Alive, Reached, PressTake, DropOne, Dequeue, Goes
<1>5. ASSUME PressReady(p) PROVE Reached' /\ failed' = "none"
  BY <1>5 DEF IInv, TypeOK, PlacesOK, Alive, Reached, PressReady, Goes
<1>6. ASSUME PressFlushOff(p) PROVE Reached' /\ failed' = "none"
  BY <1>6 DEF IInv, TypeOK, PlacesOK, Alive, Reached, PressFlushOff, Goes
<1> QED
  BY <1>1, <1>2, <1>3, <1>4, <1>5, <1>6 DEF PressStep

LEMMA NoFail ==
  ASSUME IInv, Alive
  PROVE  ~Fail
<1>1. ~UsesQueue
  BY DEF Alive, Reached, UsesQueue
<1>2. ~UsesThread
  BY DEF Alive, Lasting, UsesThread
<1> QED
  BY <1>1, <1>2 DEF Fail

LEMMA AliveKept ==
  ASSUME ~MayDeinit, IInv, Alive, [Next]_vars
  PROVE  Alive'
<1>1. CASE BtuCall
  BY <1>1, BtuLasts, BtuReached DEF Alive
<1>2. CASE PeerStep
  BY <1>2, PeerLasts, PeerReached DEF Alive
<1>3. CASE BtcStep
  BY <1>3, BtcLasts, BtcReached DEF Alive
<1>4. CASE AppStep
  BY <1>4, AppLasts, AppReached DEF Alive
<1>5. CASE WorkerStep
  BY <1>5, WorkerLasts, WorkerReached DEF Alive
<1>6. ASSUME NEW p \in Pressers, PressCall(p) \/ PressStep(p)
      PROVE  Alive'
  BY <1>6, PressLasts, PressReached DEF Alive
<1>7. CASE UNCHANGED vars
  <2>1. UNCHANGED << queueVars, threadVars, btuVars, btcVars, workerVars, pressure, failed >>
    BY <1>7 DEF vars
  <2> QED
    BY <2>1 DEF Alive, Lasting, CleanPending, Due, Reached
<1> QED
  BY <1>1, <1>2, <1>3, <1>4, <1>5, <1>6, <1>7, NoFail DEF Next

\* fixed_queue.c and thread.c: no assertion on a queue, an event or a thread
\* fails and no freed queue is used, by any task in any interleaving and with
\* any failing allocation, as long as the profile is not deinitialised.
THEOREM NothingEverFails ==
  ASSUME ~MayDeinit
  PROVE  Spec => []NothingFails
<1>1. Init => Alive
  BY LastingScripts DEF Init, Alive, Lasting, CleanPending, Due, Reached
<1>2. IInv /\ Alive /\ [Next]_vars => Alive'
  BY AliveKept
<1>3. Alive => NothingFails
  BY DEF Alive, NothingFails
<1> QED
  BY <1>1, <1>2, <1>3, Invariance, PTL DEF Spec

-----------------------------------------------------------------------------
(* A started stream whose decoder was set up is heard.                      *)

\* What BTC has left to do: the call c is in it; there is nothing but the end.
Has(t, c) == \E i \in 1..Len(t) : t[i] = c
Ends(t) == \A i \in 1..Len(t) : t[i] \in EndCalls

\* The two last calls of << "rxFlushOff", "openChannel", "started" >>.
Unflushed == {<< "openChannel", "started" >>, << "started" >>}

\* The scripts t of BTC while the state machine is in a: a stream starts with
\* open ears; what follows the state STARTED leaves it; the shutdown is the last
\* part of a script, comes after the end of the connection, ends with "disable"
\* alone, and joins the thread after the CLEAN_UP was posted.
ScriptOK(a, t) ==
    /\ Has(t, "started") => t \in {<< "rxFlushOff", "openChannel", "started" >>} \cup Unflushed
    /\ a = "started" /\ t # << >> => Has(t, "opened") \/ Has(t, "idle")
    /\ \A i \in 1..Len(t) : t[i] \in EndCalls =>
          /\ ~Has(t, "opened") /\ ~Has(t, "started")
          /\ \A j \in i..Len(t) : t[j] \in EndCalls
          /\ a = "idle" \/ Has(t, "idle")
          /\ i = Len(t) <=> t[i] = "disable"
    /\ \A i \in 1..Len(t) : t[i] \in {"postCleanUp", "stop"} => \E j \in i..Len(t) : t[j] = "join"

LEMMA TailFacts ==
  ASSUME NEW t \in Seq(Calls), t # << >>
  PROVE  /\ Len(t) \in Nat /\ Len(t) >= 1 /\ Len(Tail(t)) = Len(t) - 1
         /\ Head(t) = t[1] /\ Head(t) \in Calls /\ Tail(t) \in Seq(Calls)
         /\ \A i \in 1..Len(Tail(t)) : Tail(t)[i] = t[i + 1] /\ i + 1 \in 1..Len(t)
         /\ \A i \in 2..Len(t) : i - 1 \in 1..Len(Tail(t)) /\ t[i] = Tail(t)[i - 1]
         /\ Tail(t) = << >> <=> Len(t) = 1
<1>1. Len(t) \in Nat /\ Len(t) >= 1
  BY EmptySeq, LenProperties
<1>2. /\ Head(t) = t[1] /\ Head(t) \in Calls /\ Tail(t) \in Seq(Calls)
      /\ Len(Tail(t)) = Len(t) - 1
      /\ \A i \in 1..Len(Tail(t)) : Tail(t)[i] = t[i + 1]
  BY HeadTailProperties
<1>3. Tail(t) = << >> <=> Len(Tail(t)) = 0
  BY <1>2, EmptySeq
<1> QED
  BY <1>1, <1>2, <1>3

\* What a script has is its head or in its tail.
LEMMA HasFacts ==
  ASSUME NEW t \in Seq(Calls), t # << >>, NEW c
  PROVE  Has(t, c) <=> Head(t) = c \/ Has(Tail(t), c)
<1>1. Has(Tail(t), c) => Has(t, c)
  BY TailFacts DEF Has
<1>2. Head(t) = c => Has(t, c)
  BY TailFacts DEF Has
<1>3. ASSUME Has(t, c), Head(t) # c
      PROVE  Has(Tail(t), c)
  <2>1. PICK i \in 1..Len(t) : t[i] = c
    BY <1>3 DEF Has
  <2>2. i \in 2..Len(t)
    BY <2>1, <1>3, TailFacts
  <2> QED
    BY <2>1, <2>2, TailFacts DEF Has
<1> QED
  BY <1>1, <1>2, <1>3

LEMMA HasNothing ==
  /\ \A c : ~Has(<< >>, c)
  /\ Ends(<< >>)
  /\ \A a : ScriptOK(a, << >>)
BY DEF Has, Ends, ScriptOK

\* The calls of a script that is about to end are its rest.
LEMMA EndFacts ==
  ASSUME NEW t \in Seq(Calls), t # << >>, NEW a, ScriptOK(a, t)
  PROVE  /\ Head(t) \in EndCalls => Ends(t) /\ (a = "idle" \/ Has(t, "idle"))
         /\ Head(t) \in EndCalls \ {"disable"} => Tail(t) # << >>
         /\ Head(t) = "disable" => Tail(t) = << >>
         /\ Head(t) \in {"postCleanUp", "stop"} => Has(Tail(t), "join")
         /\ Ends(t) => Head(t) \in EndCalls /\ Ends(Tail(t))
         /\ Ends(t) => \A c \in Calls \ EndCalls : ~Has(t, c)
<1>1. Head(t) = t[1] /\ 1 \in 1..Len(t) /\ Len(t) \in Nat /\ (Tail(t) = << >> <=> Len(t) = 1)
  BY TailFacts
<1>2. Head(t) \in EndCalls => Ends(t) /\ (a = "idle" \/ Has(t, "idle")) /\ (1 = Len(t) <=> Head(t) = "disable")
  BY <1>1 DEF ScriptOK, Ends
<1>3. ASSUME Head(t) \in {"postCleanUp", "stop"}
      PROVE  Has(Tail(t), "join")
  <2>1. Has(t, "join")
    BY <1>1, <1>3 DEF ScriptOK, Has
  <2> QED
    BY <2>1, <1>3, HasFacts
<1>4. Ends(t) => Head(t) \in EndCalls /\ Ends(Tail(t))
  BY <1>1, TailFacts DEF Ends
<1>5. Ends(t) => \A c \in Calls \ EndCalls : ~Has(t, c)
  BY DEF Ends, Has
<1>6. Head(t) \in EndCalls \ {"disable"} => Tail(t) # << >>
  BY <1>1, <1>2
<1>7. Head(t) = "disable" => Tail(t) = << >>
  BY <1>1, <1>2 DEF EndCalls
<1> QED
  BY <1>2, <1>3, <1>4, <1>5, <1>6, <1>7

\* A script without its head is one of the state the head leads to.
LEMMA ScriptTail ==
  ASSUME NEW t \in Seq(Calls), t # << >>, NEW a, ScriptOK(a, t)
  PROVE  /\ Head(t) \notin {"idle", "opened", "started"} => ScriptOK(a, Tail(t))
         /\ Head(t) \in {"idle", "opened", "started"} => ScriptOK(Head(t), Tail(t))
         /\ Head(t) = "started" => t = << "started" >>
         /\ a = "started" /\ Head(t) \notin {"idle", "opened"} => Tail(t) # << >>
         /\ Tail(t) \in Unflushed => Head(t) = "rxFlushOff" \/ (Head(t) = "openChannel" /\ t \in Unflushed)
         /\ Tail(t) = << "started" >> => Head(t) = "openChannel"
         /\ Tail(t) = << >> /\ Has(t, "started") => t = << "started" >>
<1> DEFINE r == Tail(t)
<1>1. /\ Len(t) \in Nat /\ Len(t) >= 1 /\ Len(r) = Len(t) - 1
      /\ \A i \in 1..Len(r) : r[i] = t[i + 1] /\ i + 1 \in 1..Len(t)
      /\ \A i \in 2..Len(t) : i - 1 \in 1..Len(r) /\ t[i] = r[i - 1]
      /\ Head(t) = t[1] /\ (r = << >> <=> Len(t) = 1)
  BY TailFacts
<1>2. \A c : Has(t, c) <=> Head(t) = c \/ Has(r, c)
  BY HasFacts
<1>3. /\ Head(<< "rxFlushOff", "openChannel", "started" >>) = "rxFlushOff"
      /\ Tail(<< "rxFlushOff", "openChannel", "started" >>) = << "openChannel", "started" >>
      /\ Head(<< "openChannel", "started" >>) = "openChannel"
      /\ Tail(<< "openChannel", "started" >>) = << "started" >>
      /\ Head(<< "started" >>) = "started" /\ Tail(<< "started" >>) = << >>
  OBVIOUS
<1>4. Has(<< "openChannel", "started" >>, "started") /\ Has(<< "started" >>, "started")
  BY DEF Has
<1>5. ~Has(<< >>, "started")
  BY HasNothing
<1>6. Has(r, "started") => Has(t, "started") /\ r \in Unflushed /\ Head(t) \in {"rxFlushOff", "openChannel"}
  BY <1>2, <1>3, <1>5 DEF ScriptOK, Unflushed
<1>7. Head(t) = "started" => t = << "started" >> /\ r = << >>
  BY <1>2, <1>3 DEF ScriptOK, Unflushed
<1>8. a = "started" /\ Head(t) \notin {"idle", "opened"} => r # << >> /\ (Has(r, "opened") \/ Has(r, "idle"))
  <2>1. a = "started" => Has(t, "opened") \/ Has(t, "idle")
    BY DEF ScriptOK
  <2>2. ~Has(<< >>, "opened") /\ ~Has(<< >>, "idle")
    BY HasNothing
  <2>3. a = "started" /\ Head(t) \notin {"idle", "opened"} => Has(r, "opened") \/ Has(r, "idle")
    BY <1>2, <2>1
  <2> QED
    BY <2>2, <2>3
<1>9. \A i \in 1..Len(r) : r[i] \in {"postCleanUp", "stop"} => \E j \in i..Len(r) : r[j] = "join"
  <2>1. ASSUME NEW i \in 1..Len(r), r[i] \in {"postCleanUp", "stop"}
        PROVE  \E j \in i..Len(r) : r[j] = "join"
    <3>1. PICK j \in (i + 1)..Len(t) : t[j] = "join"
      BY <2>1, <1>1 DEF ScriptOK
    <3>2. j \in 2..Len(t) /\ j - 1 \in i..Len(r)
      BY <3>1, <2>1, <1>1
    <3> QED
      BY <3>1, <3>2, <1>1
  <2> QED
    BY <2>1
<1>10. \A i \in 1..Len(r) : r[i] \in EndCalls =>
          /\ ~Has(r, "opened") /\ ~Has(r, "started")
          /\ \A j \in i..Len(r) : r[j] \in EndCalls
          /\ i = Len(r) <=> r[i] = "disable"
          /\ a = "idle" \/ Has(t, "idle")
          /\ Head(t) \notin {"opened", "started"}
  <2>1. ASSUME NEW i \in 1..Len(r), r[i] \in EndCalls
        PROVE  /\ ~Has(r, "opened") /\ ~Has(r, "started")
               /\ \A j \in i..Len(r) : r[j] \in EndCalls
               /\ i = Len(r) <=> r[i] = "disable"
               /\ a = "idle" \/ Has(t, "idle")
               /\ Head(t) \notin {"opened", "started"}
    <3>1. i + 1 \in 1..Len(t) /\ t[i + 1] = r[i]
      BY <1>1
    <3>2. /\ ~Has(t, "opened") /\ ~Has(t, "started")
          /\ \A j \in (i + 1)..Len(t) : t[j] \in EndCalls
          /\ a = "idle" \/ Has(t, "idle")
          /\ i + 1 = Len(t) <=> t[i + 1] = "disable"
      BY <3>1, <2>1 DEF ScriptOK
    <3>3. \A j \in i..Len(r) : j \in 1..Len(r) /\ j + 1 \in (i + 1)..Len(t)
      BY <1>1
    <3>4. \A j \in i..Len(r) : r[j] \in EndCalls
      BY <3>2, <3>3, <1>1
    <3>5. i = Len(r) <=> r[i] = "disable"
      <4>1. i = Len(r) <=> i + 1 = Len(t)
        BY <1>1
      <4> QED
        BY <3>1, <3>2, <4>1
    <3>6. /\ ~Has(r, "opened") /\ ~Has(r, "started")
          /\ Head(t) # "opened" /\ Head(t) # "started"
      BY <3>2, <1>2
    <3> QED
      BY <3>2, <3>4, <3>5, <3>6
  <2> QED
    BY <2>1
<1>11. Head(t) \notin {"idle", "opened", "started"} => ScriptOK(a, r)
  BY <1>2, <1>6, <1>8, <1>9, <1>10, Zenon DEF ScriptOK
<1>12. Head(t) = "idle" => ScriptOK("idle", r)
  BY <1>6, <1>9, <1>10 DEF ScriptOK
<1>13. Head(t) = "opened" => ScriptOK("opened", r)
  BY <1>6, <1>9, <1>10 DEF ScriptOK
<1>14. Head(t) = "started" => ScriptOK("started", r)
  BY <1>7, HasNothing
<1>15. r \in Unflushed => Head(t) = "rxFlushOff" \/ (Head(t) = "openChannel" /\ t \in Unflushed)
  <2>1. r \in Unflushed => Has(r, "started")
    BY <1>4 DEF Unflushed
  <2>2. Has(t, "started") => Head(t) = "rxFlushOff" \/ t \in Unflushed
    BY <1>3 DEF ScriptOK
  <2> QED
    BY <2>1, <2>2, <1>6
<1>16. r = << "started" >> => Head(t) = "openChannel"
  <2>1. ASSUME r = << "started" >>
        PROVE  Head(t) = "openChannel"
    <3>1. t \in {<< "rxFlushOff", "openChannel", "started" >>} \cup Unflushed
      BY <2>1, <1>2, <1>4 DEF ScriptOK
    <3>2. Len(t) = 2
      BY <2>1, <1>1
    <3> QED
      BY <3>1, <3>2 DEF Unflushed
  <2> QED
    BY <2>1
<1>17. r = << >> /\ Has(t, "started") => t = << "started" >>
  BY <1>2, <1>5, <1>7
<1> QED
  BY <1>7, <1>8, <1>11, <1>12, <1>13, <1>14, <1>15, <1>16, <1>17

\* A flush request that is posted takes the place of the call that makes it.
LEMMA ScriptPosted ==
  ASSUME NEW t \in Seq(Calls), t # << >>, NEW a, ScriptOK(a, t), Head(t) = "rxFlushReq"
  PROVE  /\ ScriptOK(a, << "postFlush" >> \o Tail(t))
         /\ << "postFlush" >> \o Tail(t) # << >> /\ ~Has(t, "started")
         /\ \A c : c # "postFlush" /\ c # "rxFlushReq" => (Has(<< "postFlush" >> \o Tail(t), c) <=> Has(t, c))
<1> DEFINE s == << "postFlush" >> \o Tail(t)
<1>1. /\ Len(t) \in Nat /\ Len(t) >= 1 /\ Len(Tail(t)) = Len(t) - 1
      /\ Tail(t) \in Seq(Calls) /\ t[1] = "rxFlushReq"
      /\ \A i \in 2..Len(t) : i - 1 \in 1..Len(Tail(t)) /\ t[i] = Tail(t)[i - 1]
  BY TailFacts
<1>2. << "postFlush" >> \in Seq(Calls) /\ Len(<< "postFlush" >>) = 1 /\ << "postFlush" >>[1] = "postFlush"
  OBVIOUS
<1>3. /\ Len(s) = 1 + Len(Tail(t))
      /\ \A i \in 1..Len(s) : s[i] = IF i <= 1 THEN << "postFlush" >>[i] ELSE Tail(t)[i - 1]
  BY <1>1, <1>2, ConcatProperties
<1>4. Len(s) = Len(t) /\ s[1] = "postFlush" /\ \A i \in 2..Len(t) : s[i] = t[i]
  BY <1>1, <1>2, <1>3
<1> HIDE DEF s
<1>5. \A c : c # "postFlush" /\ c # "rxFlushReq" => (Has(s, c) <=> Has(t, c))
  <2>1. \A i \in 1..Len(t) : i = 1 \/ s[i] = t[i]
    BY <1>1, <1>4
  <2> QED
    BY <2>1, <1>1, <1>4 DEF Has
<1>6. ~Has(t, "started")
  <2>1. Head(t) = "rxFlushReq" /\ Head(t) \notin {"rxFlushOff", "openChannel", "started"}
    OBVIOUS
  <2>2. /\ Head(<< "rxFlushOff", "openChannel", "started" >>) = "rxFlushOff"
        /\ Head(<< "openChannel", "started" >>) = "openChannel" /\ Head(<< "started" >>) = "started"
    OBVIOUS
  <2> QED
    BY <2>1, <2>2 DEF ScriptOK, Unflushed
<1>7. \A i \in 1..Len(t) : s[i] \in EndCalls \/ t[i] \in EndCalls => i \in 2..Len(t) /\ s[i] = t[i]
  <2>1. \A i \in 1..Len(t) : i = 1 \/ i \in 2..Len(t)
    BY <1>1
  <2> QED
    BY <2>1, <1>1, <1>4 DEF EndCalls
<1>8. \A i \in 1..Len(s) : s[i] \in EndCalls =>
          /\ ~Has(s, "opened") /\ ~Has(s, "started")
          /\ \A j \in i..Len(s) : s[j] \in EndCalls
          /\ a = "idle" \/ Has(s, "idle")
          /\ i = Len(s) <=> s[i] = "disable"
  <2>1. \A i \in 1..Len(t) : \A j \in i..Len(t) : j \in 1..Len(t)
    BY <1>1
  <2> QED
    BY <2>1, <1>4, <1>5, <1>7 DEF ScriptOK
<1>9. \A i \in 1..Len(s) : s[i] \in {"postCleanUp", "stop"} => \E j \in i..Len(s) : s[j] = "join"
  <2>1. ASSUME NEW i \in 1..Len(s), s[i] \in {"postCleanUp", "stop"}
        PROVE  \E j \in i..Len(s) : s[j] = "join"
    <3>1. i \in 2..Len(t) /\ t[i] \in {"postCleanUp", "stop"}
      BY <2>1, <1>4, <1>7 DEF EndCalls
    <3>0. i \in 1..Len(t)
      BY <3>1, <1>1
    <3>2. PICK j \in i..Len(t) : t[j] = "join"
      BY <3>0, <3>1 DEF ScriptOK
    <3>3. j \in 2..Len(t)
      BY <3>1, <3>2
    <3> QED
      BY <3>2, <3>3, <1>4
  <2> QED
    BY <2>1
<1>10. s # << >> /\ Len(s) >= 1
  BY <1>1, <1>4
<1>11. ScriptOK(a, s)
  BY <1>5, <1>6, <1>8, <1>9 DEF ScriptOK
<1> QED
  BY <1>5, <1>6, <1>10, <1>11 DEF s

\* A script that ends nothing and does not start the stream is in order.
LEMMA PlainScript ==
  ASSUME NEW t \in Seq(Calls \ EndCalls), NEW a, ~Has(t, "started"),
         a = "started" /\ t # << >> => Has(t, "opened") \/ Has(t, "idle")
  PROVE  ScriptOK(a, t) /\ ~Has(t, "disable")
<1>1. \A i \in 1..Len(t) : t[i] \in Calls \ EndCalls
  BY ElementOfSeq
<1>2. {"postCleanUp", "stop", "disable"} \subseteq EndCalls
  BY DEF EndCalls
<1> QED
  BY <1>1, <1>2 DEF ScriptOK, Has

LEMMA ConcatFacts ==
  ASSUME NEW s \in Seq(Calls), NEW t \in Seq(Calls)
  PROVE  /\ Len(s) \in Nat /\ Len(t) \in Nat /\ Len(s \o t) = Len(s) + Len(t)
         /\ \A i \in 1..Len(s \o t) : (s \o t)[i] = IF i <= Len(s) THEN s[i] ELSE t[i - Len(s)]
BY ConcatProperties, LenProperties

LEMMA ConcatHas ==
  ASSUME NEW s \in Seq(Calls), NEW t \in Seq(Calls), NEW c
  PROVE  Has(s \o t, c) <=> Has(s, c) \/ Has(t, c)
<1>1. /\ Len(s) \in Nat /\ Len(t) \in Nat /\ Len(s \o t) = Len(s) + Len(t)
      /\ \A i \in 1..Len(s \o t) : (s \o t)[i] = IF i <= Len(s) THEN s[i] ELSE t[i - Len(s)]
  BY ConcatFacts
<1>2. ASSUME NEW i \in 1..Len(s), s[i] = c
      PROVE  Has(s \o t, c)
  BY <1>1, <1>2 DEF Has
<1>3. ASSUME NEW i \in 1..Len(t), t[i] = c
      PROVE  Has(s \o t, c)
  <2>1. i + Len(s) \in 1..Len(s \o t) /\ ~(i + Len(s) <= Len(s)) /\ (i + Len(s)) - Len(s) = i
    BY <1>1
  <2>2. (s \o t)[i + Len(s)] = c
    BY <1>1, <1>3, <2>1
  <2> QED
    BY <2>1, <2>2 DEF Has
<1>4. ASSUME Has(s \o t, c)
      PROVE  Has(s, c) \/ Has(t, c)
  <2>1. PICK i \in 1..Len(s \o t) : (s \o t)[i] = c
    BY <1>4 DEF Has
  <2>2. CASE i <= Len(s)
    BY <2>1, <2>2, <1>1 DEF Has
  <2>3. CASE ~(i <= Len(s))
    <3>1. i - Len(s) \in 1..Len(t) /\ t[i - Len(s)] = c
      BY <2>1, <2>3, <1>1
    <3> QED
      BY <3>1 DEF Has
  <2> QED
    BY <2>2, <2>3
<1> QED
  BY <1>2, <1>3, <1>4 DEF Has

\* What the parts of the scripts have.
LEMMA PartFacts ==
  /\ \A c : Has(OnSuspended, c) <=> c \in {"rxFlushOn", "rxFlushReq"}
  /\ \A c : Has(OnStopped, c) <=> c \in {"rxFlushOn", "rxFlushReq", "closeChannel"}
  /\ \A c : Has(OnIdle, c) <=> c \in {"rxFlushOn", "rxFlushReq", "clearTrack"}
  /\ \A c : Has(<< "opened" >>, c) <=> c = "opened"
  /\ \A c : Has(<< "idle" >>, c) <=> c = "idle"
  /\ \A c : Has(<< "enable" >>, c) <=> c = "enable"
  /\ \A c : Has(Shutdown, c) <=> c \in EndCalls
<1>1. 1..1 = {1} /\ 1..2 = {1, 2} /\ 1..3 = {1, 2, 3} /\ 1..5 = {1, 2, 3, 4, 5}
  OBVIOUS
<1>2. \A c : Has(OnSuspended, c) <=> c \in {"rxFlushOn", "rxFlushReq"}
  BY <1>1 DEF Has, OnSuspended
<1>3. \A c : Has(OnStopped, c) <=> c \in {"rxFlushOn", "rxFlushReq", "closeChannel"}
  BY <1>1 DEF Has, OnStopped
<1>4. \A c : Has(OnIdle, c) <=> c \in {"rxFlushOn", "rxFlushReq", "clearTrack"}
  BY <1>1 DEF Has, OnIdle
<1>5. \A c : Has(Shutdown, c) <=> c \in EndCalls
  BY <1>1 DEF Has, Shutdown, EndCalls
<1>6. /\ \A c : Has(<< "opened" >>, c) <=> c = "opened"
      /\ \A c : Has(<< "idle" >>, c) <=> c = "idle"
      /\ \A c : Has(<< "enable" >>, c) <=> c = "enable"
  BY <1>1 DEF Has
<1> QED
  BY <1>2, <1>3, <1>4, <1>5, <1>6

\* The shutdown may be the last part of a script that ends the connection.
LEMMA ShutdownScript ==
  ASSUME NEW s \in Seq(Calls \ EndCalls), NEW a, a = "idle" \/ Has(s, "idle"),
         ~Has(s, "opened"), ~Has(s, "started")
  PROVE  ScriptOK(a, s \o Shutdown) /\ Has(s \o Shutdown, "join") /\ ~Has(s \o Shutdown, "started")
<1> DEFINE t == s \o Shutdown
<1>1. s \in Seq(Calls) /\ Shutdown \in Seq(Calls) /\ Len(Shutdown) = 5
  BY ScriptFacts DEF Shutdown
<1>2. \A c : Has(t, c) <=> Has(s, c) \/ c \in EndCalls
  BY <1>1, ConcatHas, PartFacts
<1>3. \A i \in 1..Len(s) : s[i] \notin EndCalls
  BY ElementOfSeq
<1>4. /\ Len(s) \in Nat /\ Len(t) = Len(s) + 5
      /\ \A i \in 1..Len(t) : t[i] = IF i <= Len(s) THEN s[i] ELSE Shutdown[i - Len(s)]
  <2>1. /\ Len(s) \in Nat /\ Len(t) = Len(s) + Len(Shutdown)
        /\ \A i \in 1..Len(t) : t[i] = IF i <= Len(s) THEN s[i] ELSE Shutdown[i - Len(s)]
    BY <1>1, ConcatFacts
  <2> QED
    BY <2>1, <1>1
<1>5. \A k \in 1..5 : Shutdown[k] \in EndCalls /\ (k = 5 <=> Shutdown[k] = "disable")
  BY DEF Shutdown, EndCalls
<1>6. Shutdown[4] = "join" /\ \A k \in 1..5 : Shutdown[k] \in {"postCleanUp", "stop"} => k \in 2..3
  BY DEF Shutdown
<1>7. \A i \in 1..Len(t) :
         /\ i <= Len(s) => t[i] \notin EndCalls
         /\ ~(i <= Len(s)) => i - Len(s) \in 1..5 /\ t[i] = Shutdown[i - Len(s)]
  BY <1>3, <1>4
<1> HIDE DEF t
<1>8. "join" \in EndCalls /\ {"postCleanUp", "stop"} \subseteq EndCalls /\ {"opened", "started"} \cap EndCalls = {}
  BY DEF EndCalls
<1>9. ~Has(t, "opened") /\ ~Has(t, "started") /\ (a = "idle" \/ Has(t, "idle")) /\ Has(t, "join")
  BY <1>2, <1>8
<1>10. a = "started" => Has(t, "idle")
  BY <1>9
<1>11. \A i \in 1..Len(t) : t[i] \in EndCalls =>
          /\ \A j \in i..Len(t) : t[j] \in EndCalls
          /\ i = Len(t) <=> t[i] = "disable"
  <2>1. ASSUME NEW i \in 1..Len(t), t[i] \in EndCalls
        PROVE  /\ \A j \in i..Len(t) : t[j] \in EndCalls
               /\ i = Len(t) <=> t[i] = "disable"
    <3>1. ~(i <= Len(s))
      BY <2>1, <1>7
    <3>2. i - Len(s) \in 1..5 /\ t[i] = Shutdown[i - Len(s)] /\ (i = Len(t) <=> i - Len(s) = 5)
      BY <3>1, <1>4, <1>7
    <3>3. \A j \in i..Len(t) : j \in 1..Len(t) /\ ~(j <= Len(s))
      BY <3>1, <1>4
    <3>4. \A j \in i..Len(t) : t[j] \in EndCalls
      BY <3>3, <1>5, <1>7
    <3> QED
      BY <3>2, <3>4, <1>5
  <2> QED
    BY <2>1
<1>12. \A i \in 1..Len(t) : t[i] \in {"postCleanUp", "stop"} => \E j \in i..Len(t) : t[j] = "join"
  <2>1. ASSUME NEW i \in 1..Len(t), t[i] \in {"postCleanUp", "stop"}
        PROVE  \E j \in i..Len(t) : t[j] = "join"
    <3>1. i - Len(s) \in 2..3
      <4>1. ~(i <= Len(s))
        BY <2>1, <1>7, <1>8
      <4> QED
        BY <4>1, <2>1, <1>6, <1>7
    <3>2. Len(s) + 4 \in i..Len(t) /\ Len(s) + 4 \in 1..Len(t) /\ ~(Len(s) + 4 <= Len(s)) /\ (Len(s) + 4) - Len(s) = 4
      BY <3>1, <1>4
    <3>3. t[Len(s) + 4] = "join"
      BY <3>2, <1>6, <1>7
    <3> QED
      BY <3>2, <3>3
  <2> QED
    BY <2>1
<1>13. ScriptOK(a, t)
  BY <1>9, <1>10, <1>11, <1>12 DEF ScriptOK
<1> QED
  BY <1>9, <1>13 DEF t

\* Every script of a handler is in order where it begins.
LEMMA HandlerScripts ==
  ASSUME NEW e \in Events
  PROVE  /\ ScriptOK(av, Handler(e))
         /\ Has(Handler(e), "disable") => Has(Handler(e), "join")
         /\ Handler(e) \notin Unflushed
         /\ av = "off" => Handler(e) = << >>
<1> DEFINE S == Seq(Calls \ EndCalls)
<1>0. {"opened", "idle", "enable", "rxFlushOff", "openChannel", "started"} \subseteq Calls \ EndCalls
  BY DEF EndCalls
<1>1. /\ << >> \in S /\ << "opened" >> \in S /\ << "idle" >> \in S
      /\ OnSuspended \in S /\ OnStopped \in S /\ OnIdle \in S
      /\ << "rxFlushOff", "openChannel", "started" >> \in S
  BY DEF EndCalls, OnSuspended, OnStopped, OnIdle
<1>2. \A s \in S : s \in Seq(Calls)
  OBVIOUS
<1>3. \A s, t \in S : s \o t \in S /\ \A c : Has(s \o t, c) <=> Has(s, c) \/ Has(t, c)
  BY <1>2, ConcatHas, ConcatProperties
<1>4. \A t \in S : ~Has(t, "started") => t \notin Unflushed
  BY DEF Has, Unflushed
<1>5. CASE av = "opened" /\ e = "start"
  <2>1. Handler(e) = << "rxFlushOff", "openChannel", "started" >>
    BY <1>5 DEF Handler
  <2>2. << "rxFlushOff", "openChannel", "started" >> \notin Unflushed
    BY DEF Unflushed
  <2>3. ScriptOK(av, << "rxFlushOff", "openChannel", "started" >>)
        /\ ~Has(<< "rxFlushOff", "openChannel", "started" >>, "disable")
    BY <1>5 DEF ScriptOK, Has, EndCalls
  <2> QED
    BY <1>5, <2>1, <2>2, <2>3
<1>6. CASE av = "idle" /\ e = "open"
  <2>1. Handler(e) = << "opened" >>
    BY <1>6 DEF Handler
  <2> QED
    BY <2>1, <1>6, <1>1, <1>4, PlainScript, PartFacts
<1>7. CASE av = "started" /\ e \in {"suspend", "stop"}
  <2>1. Handler(e) \in {OnSuspended \o << "opened" >>, OnStopped \o << "opened" >>}
    BY <1>7 DEF Handler
  <2>2. ASSUME NEW s \in {OnSuspended, OnStopped}
        PROVE  s \o << "opened" >> \in S /\ Has(s \o << "opened" >>, "opened") /\ ~Has(s \o << "opened" >>, "started")
    <3>1. s \in S /\ ~Has(s, "started")
      BY <1>1, PartFacts
    <3>2. Has(<< "opened" >>, "opened") /\ ~Has(<< "opened" >>, "started")
      BY PartFacts
    <3>3. s \o << "opened" >> \in S /\ \A c : Has(s \o << "opened" >>, c) <=> Has(s, c) \/ Has(<< "opened" >>, c)
      BY <1>1, <1>3, <3>1
    <3> QED
      BY <3>1, <3>2, <3>3
  <2>3. Handler(e) \in S /\ Has(Handler(e), "opened") /\ ~Has(Handler(e), "started")
    BY <2>1, <2>2
  <2> QED
    BY <2>3, <1>4, <1>7, PlainScript
<1>8. CASE av \in {"opened", "started"} /\ e = "close"
  <2> DEFINE s == OnStopped \o << "idle" >> \o OnIdle
  <2>1. Handler(e) = s \o (IF deinit THEN Shutdown ELSE << >>)
    BY <1>8 DEF Handler
  <2>2. s \in S /\ Has(s, "idle") /\ ~Has(s, "opened") /\ ~Has(s, "started")
    <3> DEFINE q == OnStopped \o << "idle" >>
    <3>1. q \in S /\ \A c : Has(q, c) <=> Has(OnStopped, c) \/ Has(<< "idle" >>, c)
      BY <1>1, <1>3
    <3> HIDE DEF q
    <3>2. q \o OnIdle \in S /\ \A c : Has(q \o OnIdle, c) <=> Has(q, c) \/ Has(OnIdle, c)
      BY <1>1, <1>3, <3>1
    <3>3. q \o OnIdle \in S /\ Has(q \o OnIdle, "idle") /\ ~Has(q \o OnIdle, "opened") /\ ~Has(q \o OnIdle, "started")
      BY <3>1, <3>2, PartFacts
    <3> QED
      BY <3>3 DEF q
  <2> HIDE DEF s
  <2>3. CASE deinit
    <3>1. ScriptOK(av, s \o Shutdown) /\ Has(s \o Shutdown, "join") /\ ~Has(s \o Shutdown, "started")
      BY <2>2, ShutdownScript
    <3>2. \A t : ~Has(t, "started") => t \notin Unflushed
      BY DEF Has, Unflushed
    <3> QED
      BY <2>1, <2>3, <3>1, <3>2, <1>8
  <2>4. CASE ~deinit
    <3>1. s \o << >> \in S /\ Has(s \o << >>, "idle") /\ ~Has(s \o << >>, "started")
      BY <1>1, <1>3, <2>2, HasNothing
    <3>2. ScriptOK(av, s \o << >>) /\ ~Has(s \o << >>, "disable")
      BY <3>1, PlainScript
    <3> QED
      BY <2>1, <2>4, <3>1, <3>2, <1>4, <1>8
  <2> QED
    BY <2>3, <2>4
<1>9. CASE Handler(e) = << >>
  BY <1>9, <1>4, <1>1, HasNothing
<1> QED
  BY <1>5, <1>6, <1>7, <1>8, <1>9 DEF Handler

\* So are the two scripts the application begins.
LEMMA AppScripts ==
  /\ ScriptOK("idle", Shutdown) /\ Has(Shutdown, "join")
  /\ ~Has(Shutdown, "opened") /\ ~Has(Shutdown, "started") /\ Shutdown # << >>
  /\ OnIdle \o << "enable" >> = << "rxFlushOn", "rxFlushReq", "clearTrack", "enable" >>
  /\ ScriptOK("idle", OnIdle \o << "enable" >>)
  /\ \A c \in EndCalls \cup {"opened", "started", "join", "disable"} : ~Has(OnIdle \o << "enable" >>, c)
<1>1. ScriptOK("idle", Shutdown)
  <2>1. << >> \o Shutdown = Shutdown
    BY ScriptFacts, ConcatEmptySeq
  <2>2. << >> \in Seq(Calls \ EndCalls)
    OBVIOUS
  <2> QED
    BY <2>1, <2>2, ShutdownScript, HasNothing
<1>2. Has(Shutdown, "join") /\ ~Has(Shutdown, "opened") /\ ~Has(Shutdown, "started") /\ Shutdown # << >>
  <2>1. "join" \in EndCalls /\ "opened" \notin EndCalls /\ "started" \notin EndCalls
    BY DEF EndCalls
  <2> QED
    BY <2>1, PartFacts, HasNothing
<1>3. OnIdle \o << "enable" >> = << "rxFlushOn", "rxFlushReq", "clearTrack", "enable" >>
  <2> DEFINE s == OnIdle \o << "enable" >>
             t == << "rxFlushOn", "rxFlushReq", "clearTrack", "enable" >>
  <2>1. /\ OnIdle \in Seq(Calls) /\ << "enable" >> \in Seq(Calls) /\ Len(OnIdle) = 3 /\ Len(<< "enable" >>) = 1
        /\ t \in Seq(Calls) /\ Len(t) = 4
    BY DEF OnIdle
  <2>2. /\ s \in Seq(Calls) /\ Len(s) = 4
        /\ \A i \in 1..4 : s[i] = IF i <= 3 THEN OnIdle[i] ELSE << "enable" >>[i - 3]
    <3>1. /\ s \in Seq(Calls) /\ Len(s) = Len(OnIdle) + Len(<< "enable" >>)
          /\ \A i \in 1..Len(s) : s[i] = IF i <= Len(OnIdle) THEN OnIdle[i] ELSE << "enable" >>[i - Len(OnIdle)]
      BY <2>1, ConcatProperties
    <3>2. Len(s) = 4
      BY <3>1, <2>1
    <3> QED
      BY <3>1, <3>2, <2>1
  <2>3. \A i \in 1..4 : s[i] = t[i]
    <3>1. s[1] = t[1] /\ s[2] = t[2] /\ s[3] = t[3] /\ s[4] = t[4]
      BY <2>2 DEF OnIdle
    <3> QED
      BY <3>1
  <2> HIDE DEF s, t
  <2>4. s = t
    BY <2>1, <2>2, <2>3, SeqEqual
  <2> QED
    BY <2>4 DEF s, t
<1>4. \A c : Has(OnIdle \o << "enable" >>, c) => c \in {"rxFlushOn", "rxFlushReq", "clearTrack", "enable"}
  <2>1. OnIdle \in Seq(Calls) /\ << "enable" >> \in Seq(Calls)
    BY DEF OnIdle
  <2> QED
    BY <2>1, ConcatHas, PartFacts
<1>5. \A c \in EndCalls \cup {"opened", "started", "join", "disable"} : ~Has(OnIdle \o << "enable" >>, c)
  BY <1>4 DEF EndCalls
<1>6. ScriptOK("idle", OnIdle \o << "enable" >>)
  BY <1>5, LastingScripts, PlainScript
<1> QED
  BY <1>1, <1>2, <1>3, <1>5, <1>6

\* The thread stops, and the sink is cleaned up, only in the shutdown.
Stops == /\ thread # "running" => av \in {"off", "idle"} /\ Ends(todo) /\ (av = "idle" => todo # << >>)
         /\ CleanPending => Has(todo, "join") /\ Ends(todo) /\ av = "idle"
         /\ Has(todo, "disable") => Has(todo, "join") \/ thread = "none"

\* BTC is not yet past the message to the thread that follows the INIT.
EarlyScripts == { << "rxFlushOn", "rxFlushReq", "clearTrack", "enable" >>, << "rxFlushReq", "clearTrack", "enable" >>,
                  << "postFlush", "clearTrack", "enable" >>, << "clearTrack", "enable" >> }
Early == registered = "no" /\ todo \in EarlyScripts

\* No stream starts before the thread has run its INIT, unless a message of BTC
\* was lost: that message is the first that waits for the INIT to be taken.
InitPending == worker \in {"init", "init2"} \/ Due("init")
Starts == /\ registered = "no" => btu = "idle" /\ peer = "closed"
          /\ InitPending => ~reset_ok
          /\ InitPending /\ ~lost =>
                /\ av = "idle" /\ btcq = << >>
                /\ ~Has(todo, "opened") /\ ~Has(todo, "started")
                /\ peer \in {"closed", "configured"} /\ (peer = "configured" => btu = "cfg")
                /\ Early \/ (ctrl # << >> /\ ctrl[1].op # "init")

\* The decoder is that of the last configuration, or the next one is on its way;
\* it is ready from the end of its reset to the shutdown.
Resets == {"resetFlush", "resetDecoder", "resetReady", "resetUnflush"}
Newer == btu = "cfg" \/ Due("cfg")
Ongoing == thread = "running" /\ ~Has(todo, "join")
Setup == /\ worker \in Resets => ~reset_ok
         /\ worker \in {"resetReady", "resetUnflush"} => decoder = cfg
         /\ worker = "resetUnflush" => decoder_ready
         /\ Ongoing /\ reset_ok => decoder_ready
Latest == ~lost => /\ Due("cfg") => ctrl[1].config = config \/ btu = "cfg"
                   /\ worker \in Resets \cup {"cfg"} => cfg = config \/ Newer
                   /\ Ongoing /\ reset_ok => decoder = config \/ Newer \/ worker = "cfg"

\* From the start of the stream on, a flush is on only as long as a presser is
\* inside its call; the application listens.
Playing == av = "started" /\ todo = << >>
Heard == /\ (Playing \/ todo \in Unflushed) /\ reset_ok /\ rx_flush
                => \E p \in Pressers : pressure[p] \in {"empty", "take", "ready", "flushOff"}
         /\ (Playing \/ todo = << "started" >>) /\ ~lost => data_channel_open

PInv == ScriptOK(av, todo) /\ Stops /\ Starts /\ Setup /\ Latest /\ Heard

LEMMA ScriptPrime ==
  /\ ScriptOK(av, todo)' <=> ScriptOK(av', todo')
  /\ Ends(todo)' <=> Ends(todo')
  /\ \A c : Has(todo, c)' <=> Has(todo', c)
BY DEF ScriptOK, Ends, Has

\* A stream that is about to start is not about to end.
LEMMA UnflushedFacts ==
  /\ << "started" >> \in Unflushed
  /\ \A t \in Unflushed : Has(t, "started") /\ ~Ends(t) /\ ~Has(t, "join") /\ t # << >>
BY DEF Unflushed, Has, Ends, EndCalls

LEMMA TakeFacts ==
  ASSUME IInv, WorkerTake
  PROVE  /\ worker = "idle" /\ thread = "running" /\ ctrl # << >> /\ ctrl' = << >>
         /\ worker' = ctrl[1].op /\ cfg' = ctrl[1].config /\ worker' \in MsgOps
         /\ UNCHANGED << sinkVars, queueVars, thread, event, btuVars, btcVars, nb, frame, reset_ok, pressure, failed, lost >>
<1>1. ctrl # << >>
  BY DEF WorkerTake
<1>2. Head(ctrl) \in Messages /\ Head(ctrl) = ctrl[1] /\ Tail(ctrl) = << >>
  BY <1>1, CtrlFacts DEF IInv
<1> QED
  BY <1>1, <1>2 DEF WorkerTake

(* The steps of BTU inside the media callback.                              *)

LEMMA BtuScript ==
  ASSUME IInv, PInv, BtuCall
  PROVE  ScriptOK(av, todo)'
<1>1. UNCHANGED << av, todo >>
  BY DEF BtuCall, MediaIgnored, EnqCheck, EnqReady, EnqRoom, EnqDrop, EnqAppend, EnqAppendFails, EnqGive,
     EnqPost, PostCfg, PostCtrl, Message
<1> QED
  BY <1>1, ScriptPrime DEF PInv

LEMMA BtuStops ==
  ASSUME IInv, PInv, BtuCall
  PROVE  Stops'
<1>1. ASSUME MediaIgnored PROVE Stops'
  BY <1>1, ScriptPrime DEF PInv, Stops, CleanPending, Due, MediaIgnored
<1>2. ASSUME EnqCheck PROVE Stops'
  BY <1>2, ScriptPrime DEF PInv, Stops, CleanPending, Due, EnqCheck
<1>3. ASSUME EnqReady PROVE Stops'
  BY <1>3, ScriptPrime DEF PInv, Stops, CleanPending, Due, EnqReady
<1>4. ASSUME EnqRoom PROVE Stops'
  BY <1>4, ScriptPrime DEF PInv, Stops, CleanPending, Due, EnqRoom
<1>5. ASSUME EnqDrop PROVE Stops'
  BY <1>5, ScriptPrime DEF PInv, Stops, CleanPending, Due, EnqDrop, DropOne, Dequeue
<1>6. ASSUME EnqAppend PROVE Stops'
  BY <1>6, ScriptPrime DEF PInv, Stops, CleanPending, Due, EnqAppend
<1>7. ASSUME EnqAppendFails PROVE Stops'
  BY <1>7, ScriptPrime DEF PInv, Stops, CleanPending, Due, EnqAppendFails
<1>8. ASSUME EnqGive PROVE Stops'
  BY <1>8, ScriptPrime DEF PInv, Stops, CleanPending, Due, EnqGive
<1>9. ASSUME EnqPost PROVE Stops'
  BY <1>9, ScriptPrime DEF PInv, Stops, CleanPending, Due, EnqPost
<1>10. ASSUME PostCfg PROVE Stops'
  BY <1>10, ScriptPrime DEF PInv, Stops, CleanPending, Due, PostCfg, PostCtrl, Message
<1> QED
  BY <1>1, <1>2, <1>3, <1>4, <1>5, <1>6, <1>7, <1>8, <1>9, <1>10 DEF BtuCall

LEMMA BtuStarts ==
  ASSUME IInv, PInv, BtuCall
  PROVE  Starts'
<1>1. ASSUME MediaIgnored PROVE Starts'
  BY <1>1, ScriptPrime DEF PInv, Starts, InitPending, Early, Due, MediaIgnored
<1>2. ASSUME EnqCheck PROVE Starts'
  BY <1>2, ScriptPrime DEF PInv, Starts, InitPending, Early, Due, EnqCheck
<1>3. ASSUME EnqReady PROVE Starts'
  BY <1>3, ScriptPrime DEF PInv, Starts, InitPending, Early, Due, EnqReady
<1>4. ASSUME EnqRoom PROVE Starts'
  BY <1>4, ScriptPrime DEF PInv, Starts, InitPending, Early, Due, EnqRoom
<1>5. ASSUME EnqDrop PROVE Starts'
  BY <1>5, ScriptPrime DEF PInv, Starts, InitPending, Early, Due, EnqDrop, DropOne, Dequeue
<1>6. ASSUME EnqAppend PROVE Starts'
  BY <1>6, ScriptPrime DEF PInv, Starts, InitPending, Early, Due, EnqAppend
<1>7. ASSUME EnqAppendFails PROVE Starts'
  BY <1>7, ScriptPrime DEF PInv, Starts, InitPending, Early, Due, EnqAppendFails
<1>8. ASSUME EnqGive PROVE Starts'
  BY <1>8, ScriptPrime DEF PInv, Starts, InitPending, Early, Due, EnqGive
<1>9. ASSUME EnqPost PROVE Starts'
  BY <1>9, ScriptPrime DEF PInv, Starts, InitPending, Early, Due, EnqPost
<1>10. ASSUME PostCfg PROVE Starts'
  BY <1>10, ScriptPrime DEF PInv, Starts, InitPending, Early, Due, PostCfg, PostCtrl, Message
<1> QED
  BY <1>1, <1>2, <1>3, <1>4, <1>5, <1>6, <1>7, <1>8, <1>9, <1>10 DEF BtuCall

LEMMA BtuSetup ==
  ASSUME IInv, PInv, BtuCall
  PROVE  Setup'
<1>1. ASSUME MediaIgnored PROVE Setup'
  BY <1>1, ScriptPrime DEF PInv, Setup, Ongoing, Resets, MediaIgnored
<1>2. ASSUME EnqCheck PROVE Setup'
  BY <1>2, ScriptPrime DEF PInv, Setup, Ongoing, Resets, EnqCheck
<1>3. ASSUME EnqReady PROVE Setup'
  BY <1>3, ScriptPrime DEF PInv, Setup, Ongoing, Resets, EnqReady
<1>4. ASSUME EnqRoom PROVE Setup'
  BY <1>4, ScriptPrime DEF PInv, Setup, Ongoing, Resets, EnqRoom
<1>5. ASSUME EnqDrop PROVE Setup'
  BY <1>5, ScriptPrime DEF PInv, Setup, Ongoing, Resets, EnqDrop, DropOne, Dequeue
<1>6. ASSUME EnqAppend PROVE Setup'
  BY <1>6, ScriptPrime DEF PInv, Setup, Ongoing, Resets, EnqAppend
<1>7. ASSUME EnqAppendFails PROVE Setup'
  BY <1>7, ScriptPrime DEF PInv, Setup, Ongoing, Resets, EnqAppendFails
<1>8. ASSUME EnqGive PROVE Setup'
  BY <1>8, ScriptPrime DEF PInv, Setup, Ongoing, Resets, EnqGive
<1>9. ASSUME EnqPost PROVE Setup'
  BY <1>9, ScriptPrime DEF PInv, Setup, Ongoing, Resets, EnqPost
<1>10. ASSUME PostCfg PROVE Setup'
  BY <1>10, ScriptPrime DEF PInv, Setup, Ongoing, Resets, PostCfg, PostCtrl, Message
<1> QED
  BY <1>1, <1>2, <1>3, <1>4, <1>5, <1>6, <1>7, <1>8, <1>9, <1>10 DEF BtuCall

LEMMA BtuLatest ==
  ASSUME IInv, PInv, BtuCall
  PROVE  Latest'
<1>1. ASSUME MediaIgnored PROVE Latest'
  BY <1>1, ScriptPrime DEF PInv, Latest, Ongoing, Resets, Newer, Due, MediaIgnored
<1>2. ASSUME EnqCheck PROVE Latest'
  BY <1>2, ScriptPrime DEF PInv, Latest, Ongoing, Resets, Newer, Due, EnqCheck
<1>3. ASSUME EnqReady PROVE Latest'
  BY <1>3, ScriptPrime DEF PInv, Latest, Ongoing, Resets, Newer, Due, EnqReady
<1>4. ASSUME EnqRoom PROVE Latest'
  BY <1>4, ScriptPrime DEF PInv, Latest, Ongoing, Resets, Newer, Due, EnqRoom
<1>5. ASSUME EnqDrop PROVE Latest'
  BY <1>5, ScriptPrime DEF PInv, Latest, Ongoing, Resets, Newer, Due, EnqDrop, DropOne, Dequeue
<1>6. ASSUME EnqAppend PROVE Latest'
  BY <1>6, ScriptPrime DEF PInv, Latest, Ongoing, Resets, Newer, Due, EnqAppend
<1>7. ASSUME EnqAppendFails PROVE Latest'
  BY <1>7, ScriptPrime DEF PInv, Latest, Ongoing, Resets, Newer, Due, EnqAppendFails
<1>8. ASSUME EnqGive PROVE Latest'
  BY <1>8, ScriptPrime DEF PInv, Latest, Ongoing, Resets, Newer, Due, EnqGive
<1>9. ASSUME EnqPost PROVE Latest'
  BY <1>9, ScriptPrime DEF PInv, Latest, Ongoing, Resets, Newer, Due, EnqPost
<1>10. ASSUME PostCfg PROVE Latest'
  BY <1>10, ScriptPrime DEF PInv, Latest, Ongoing, Resets, Newer, Due, PostCfg, PostCtrl, Message
<1> QED
  BY <1>1, <1>2, <1>3, <1>4, <1>5, <1>6, <1>7, <1>8, <1>9, <1>10 DEF BtuCall

LEMMA BtuHeard ==
  ASSUME IInv, PInv, BtuCall
  PROVE  Heard'
<1>1. ASSUME MediaIgnored PROVE Heard'
  BY <1>1, ScriptPrime DEF PInv, Heard, Playing, MediaIgnored
<1>2. ASSUME EnqCheck PROVE Heard'
  BY <1>2, ScriptPrime DEF PInv, Heard, Playing, EnqCheck
<1>3. ASSUME EnqReady PROVE Heard'
  BY <1>3, ScriptPrime DEF PInv, Heard, Playing, EnqReady
<1>4. ASSUME EnqRoom PROVE Heard'
  BY <1>4, ScriptPrime DEF PInv, Heard, Playing, EnqRoom
<1>5. ASSUME EnqDrop PROVE Heard'
  BY <1>5, ScriptPrime DEF PInv, Heard, Playing, EnqDrop, DropOne, Dequeue
<1>6. ASSUME EnqAppend PROVE Heard'
  BY <1>6, ScriptPrime DEF PInv, Heard, Playing, EnqAppend
<1>7. ASSUME EnqAppendFails PROVE Heard'
  BY <1>7, ScriptPrime DEF PInv, Heard, Playing, EnqAppendFails
<1>8. ASSUME EnqGive PROVE Heard'
  BY <1>8, ScriptPrime DEF PInv, Heard, Playing, EnqGive
<1>9. ASSUME EnqPost PROVE Heard'
  BY <1>9, ScriptPrime DEF PInv, Heard, Playing, EnqPost
<1>10. ASSUME PostCfg PROVE Heard'
  BY <1>10, ScriptPrime DEF PInv, Heard, Playing, PostCfg, PostCtrl, Message
<1> QED
  BY <1>1, <1>2, <1>3, <1>4, <1>5, <1>6, <1>7, <1>8, <1>9, <1>10 DEF BtuCall

(* What the peer and BTA do.                                                *)

LEMMA PeerScript ==
  ASSUME IInv, PInv, PeerStep
  PROVE  ScriptOK(av, todo)'
<1>1. UNCHANGED << av, todo >>
  BY DEF PeerStep, MediaData, SinkCfg, PeerOpen, PeerEvent, PeerStart, PeerEvent, PeerSuspend, PeerEvent,
     PeerStop, PeerEvent, PeerClose, PeerEvent, BtuDisable
<1> QED
  BY <1>1, ScriptPrime DEF PInv

LEMMA PeerStops ==
  ASSUME IInv, PInv, PeerStep
  PROVE  Stops'
<1>1. ASSUME MediaData PROVE Stops'
  BY <1>1, ScriptPrime DEF PInv, Stops, CleanPending, Due, MediaData
<1>2. ASSUME SinkCfg PROVE Stops'
  BY <1>2, ScriptPrime DEF PInv, Stops, CleanPending, Due, SinkCfg
<1>3. ASSUME PeerOpen PROVE Stops'
  BY <1>3, ScriptPrime DEF PInv, Stops, CleanPending, Due, PeerOpen, PeerEvent
<1>4. ASSUME PeerStart PROVE Stops'
  BY <1>4, ScriptPrime DEF PInv, Stops, CleanPending, Due, PeerStart, PeerEvent
<1>5. ASSUME PeerSuspend PROVE Stops'
  BY <1>5, ScriptPrime DEF PInv, Stops, CleanPending, Due, PeerSuspend, PeerEvent
<1>6. ASSUME PeerStop PROVE Stops'
  BY <1>6, ScriptPrime DEF PInv, Stops, CleanPending, Due, PeerStop, PeerEvent
<1>7. ASSUME PeerClose PROVE Stops'
  BY <1>7, ScriptPrime DEF PInv, Stops, CleanPending, Due, PeerClose, PeerEvent
<1>8. ASSUME BtuDisable PROVE Stops'
  BY <1>8, ScriptPrime DEF PInv, Stops, CleanPending, Due, BtuDisable
<1> QED
  BY <1>1, <1>2, <1>3, <1>4, <1>5, <1>6, <1>7, <1>8 DEF PeerStep

LEMMA PeerStarts ==
  ASSUME IInv, PInv, PeerStep
  PROVE  Starts'
<1>1. ASSUME MediaData PROVE Starts'
  BY <1>1, ScriptPrime DEF PInv, Starts, InitPending, Early, Due, MediaData
<1>2. ASSUME SinkCfg PROVE Starts'
  BY <1>2, ScriptPrime DEF PInv, Starts, InitPending, Early, Due, SinkCfg
<1>3. ASSUME PeerOpen PROVE Starts'
  BY <1>3, ScriptPrime DEF PInv, Starts, InitPending, Early, Due, PeerOpen, PeerEvent
<1>4. ASSUME PeerStart PROVE Starts'
  BY <1>4, ScriptPrime DEF PInv, Starts, InitPending, Early, Due, PeerStart, PeerEvent
<1>5. ASSUME PeerSuspend PROVE Starts'
  BY <1>5, ScriptPrime DEF PInv, Starts, InitPending, Early, Due, PeerSuspend, PeerEvent
<1>6. ASSUME PeerStop PROVE Starts'
  BY <1>6, ScriptPrime DEF PInv, Starts, InitPending, Early, Due, PeerStop, PeerEvent
<1>7. ASSUME PeerClose PROVE Starts'
  BY <1>7, ScriptPrime DEF PInv, Starts, InitPending, Early, Due, PeerClose, PeerEvent
<1>8. ASSUME BtuDisable PROVE Starts'
  BY <1>8, ScriptPrime DEF PInv, Starts, InitPending, Early, Due, BtuDisable
<1> QED
  BY <1>1, <1>2, <1>3, <1>4, <1>5, <1>6, <1>7, <1>8 DEF PeerStep

LEMMA PeerSetup ==
  ASSUME IInv, PInv, PeerStep
  PROVE  Setup'
<1>1. ASSUME MediaData PROVE Setup'
  BY <1>1, ScriptPrime DEF PInv, Setup, Ongoing, Resets, MediaData
<1>2. ASSUME SinkCfg PROVE Setup'
  BY <1>2, ScriptPrime DEF PInv, Setup, Ongoing, Resets, SinkCfg
<1>3. ASSUME PeerOpen PROVE Setup'
  BY <1>3, ScriptPrime DEF PInv, Setup, Ongoing, Resets, PeerOpen, PeerEvent
<1>4. ASSUME PeerStart PROVE Setup'
  BY <1>4, ScriptPrime DEF PInv, Setup, Ongoing, Resets, PeerStart, PeerEvent
<1>5. ASSUME PeerSuspend PROVE Setup'
  BY <1>5, ScriptPrime DEF PInv, Setup, Ongoing, Resets, PeerSuspend, PeerEvent
<1>6. ASSUME PeerStop PROVE Setup'
  BY <1>6, ScriptPrime DEF PInv, Setup, Ongoing, Resets, PeerStop, PeerEvent
<1>7. ASSUME PeerClose PROVE Setup'
  BY <1>7, ScriptPrime DEF PInv, Setup, Ongoing, Resets, PeerClose, PeerEvent
<1>8. ASSUME BtuDisable PROVE Setup'
  BY <1>8, ScriptPrime DEF PInv, Setup, Ongoing, Resets, BtuDisable
<1> QED
  BY <1>1, <1>2, <1>3, <1>4, <1>5, <1>6, <1>7, <1>8 DEF PeerStep

LEMMA PeerLatest ==
  ASSUME IInv, PInv, PeerStep
  PROVE  Latest'
<1>1. ASSUME MediaData PROVE Latest'
  BY <1>1, ScriptPrime DEF PInv, Latest, Ongoing, Resets, Newer, Due, MediaData
<1>2. ASSUME SinkCfg PROVE Latest'
  BY <1>2, ScriptPrime DEF PInv, Latest, Ongoing, Resets, Newer, Due, SinkCfg
<1>3. ASSUME PeerOpen PROVE Latest'
  BY <1>3, ScriptPrime DEF PInv, Latest, Ongoing, Resets, Newer, Due, PeerOpen, PeerEvent
<1>4. ASSUME PeerStart PROVE Latest'
  BY <1>4, ScriptPrime DEF PInv, Latest, Ongoing, Resets, Newer, Due, PeerStart, PeerEvent
<1>5. ASSUME PeerSuspend PROVE Latest'
  BY <1>5, ScriptPrime DEF PInv, Latest, Ongoing, Resets, Newer, Due, PeerSuspend, PeerEvent
<1>6. ASSUME PeerStop PROVE Latest'
  BY <1>6, ScriptPrime DEF PInv, Latest, Ongoing, Resets, Newer, Due, PeerStop, PeerEvent
<1>7. ASSUME PeerClose PROVE Latest'
  BY <1>7, ScriptPrime DEF PInv, Latest, Ongoing, Resets, Newer, Due, PeerClose, PeerEvent
<1>8. ASSUME BtuDisable PROVE Latest'
  BY <1>8, ScriptPrime DEF PInv, Latest, Ongoing, Resets, Newer, Due, BtuDisable
<1> QED
  BY <1>1, <1>2, <1>3, <1>4, <1>5, <1>6, <1>7, <1>8 DEF PeerStep

LEMMA PeerHeard ==
  ASSUME IInv, PInv, PeerStep
  PROVE  Heard'
<1>1. ASSUME MediaData PROVE Heard'
  BY <1>1, ScriptPrime DEF PInv, Heard, Playing, MediaData
<1>2. ASSUME SinkCfg PROVE Heard'
  BY <1>2, ScriptPrime DEF PInv, Heard, Playing, SinkCfg
<1>3. ASSUME PeerOpen PROVE Heard'
  BY <1>3, ScriptPrime DEF PInv, Heard, Playing, PeerOpen, PeerEvent
<1>4. ASSUME PeerStart PROVE Heard'
  BY <1>4, ScriptPrime DEF PInv, Heard, Playing, PeerStart, PeerEvent
<1>5. ASSUME PeerSuspend PROVE Heard'
  BY <1>5, ScriptPrime DEF PInv, Heard, Playing, PeerSuspend, PeerEvent
<1>6. ASSUME PeerStop PROVE Heard'
  BY <1>6, ScriptPrime DEF PInv, Heard, Playing, PeerStop, PeerEvent
<1>7. ASSUME PeerClose PROVE Heard'
  BY <1>7, ScriptPrime DEF PInv, Heard, Playing, PeerClose, PeerEvent
<1>8. ASSUME BtuDisable PROVE Heard'
  BY <1>8, ScriptPrime DEF PInv, Heard, Playing, BtuDisable
<1> QED
  BY <1>1, <1>2, <1>3, <1>4, <1>5, <1>6, <1>7, <1>8 DEF PeerStep

(* The steps of the decoder thread.                                         *)

LEMMA WorkerScript ==
  ASSUME IInv, PInv, WorkerStep
  PROVE  ScriptOK(av, todo)'
<1>1. UNCHANGED << av, todo >>
  BY DEF WorkerStep, WorkerTake, WorkerExit, WorkerInit, WorkerInitQueue, WorkerCleanUp, WorkerFreeQueue,
     WorkerForgetQueue, WorkerFlush, WorkerReset, WorkerResetFlush, WorkerResetDecoder, WorkerResetReady,
     WorkerResetUnflush, WorkerData, WorkerCount, WorkerDrain, WorkerJudge, WorkerMedia, WorkerDecode, WorkerRest
<1> QED
  BY <1>1, ScriptPrime DEF PInv

LEMMA WorkerStops ==
  ASSUME IInv, PInv, WorkerStep
  PROVE  Stops'
<1>1. ASSUME WorkerTake PROVE Stops'
  BY <1>1, ScriptPrime, TakeFacts DEF PInv, Stops, CleanPending, Due
<1>2. ASSUME WorkerExit PROVE Stops'
  BY <1>2, ScriptPrime DEF PInv, Stops, CleanPending, Due, WorkerExit
<1>3. ASSUME WorkerInit PROVE Stops'
  BY <1>3, ScriptPrime DEF PInv, Stops, CleanPending, Due, WorkerInit
<1>4. ASSUME WorkerInitQueue PROVE Stops'
  BY <1>4, ScriptPrime DEF PInv, Stops, CleanPending, Due, WorkerInitQueue
<1>5. ASSUME WorkerCleanUp PROVE Stops'
  BY <1>5, ScriptPrime DEF PInv, Stops, CleanPending, Due, WorkerCleanUp
<1>6. ASSUME WorkerFreeQueue PROVE Stops'
  BY <1>6, ScriptPrime DEF PInv, Stops, CleanPending, Due, WorkerFreeQueue
<1>7. ASSUME WorkerForgetQueue PROVE Stops'
  BY <1>7, ScriptPrime DEF PInv, Stops, CleanPending, Due, WorkerForgetQueue
<1>8. ASSUME WorkerFlush PROVE Stops'
  BY <1>8, ScriptPrime DEF PInv, Stops, CleanPending, Due, WorkerFlush, DropOne, Dequeue
<1>9. ASSUME WorkerReset PROVE Stops'
  BY <1>9, ScriptPrime DEF PInv, Stops, CleanPending, Due, WorkerReset
<1>10. ASSUME WorkerResetFlush PROVE Stops'
  BY <1>10, ScriptPrime DEF PInv, Stops, CleanPending, Due, WorkerResetFlush, DropOne, Dequeue
<1>11. ASSUME WorkerResetDecoder PROVE Stops'
  BY <1>11, ScriptPrime DEF PInv, Stops, CleanPending, Due, WorkerResetDecoder
<1>12. ASSUME WorkerResetReady PROVE Stops'
  BY <1>12, ScriptPrime DEF PInv, Stops, CleanPending, Due, WorkerResetReady
<1>13. ASSUME WorkerResetUnflush PROVE Stops'
  BY <1>13, ScriptPrime DEF PInv, Stops, CleanPending, Due, WorkerResetUnflush
<1>14. ASSUME WorkerData PROVE Stops'
  BY <1>14, ScriptPrime DEF PInv, Stops, CleanPending, Due, WorkerData
<1>15. ASSUME WorkerCount PROVE Stops'
  BY <1>15, ScriptPrime DEF PInv, Stops, CleanPending, Due, WorkerCount
<1>16. ASSUME WorkerDrain PROVE Stops'
  BY <1>16, ScriptPrime DEF PInv, Stops, CleanPending, Due, WorkerDrain, Dequeue
<1>17. ASSUME WorkerJudge PROVE Stops'
  BY <1>17, ScriptPrime DEF PInv, Stops, CleanPending, Due, WorkerJudge
<1>18. ASSUME WorkerMedia PROVE Stops'
  BY <1>18, ScriptPrime DEF PInv, Stops, CleanPending, Due, WorkerMedia
<1>19. ASSUME WorkerDecode PROVE Stops'
  BY <1>19, ScriptPrime DEF PInv, Stops, CleanPending, Due, WorkerDecode
<1>20. ASSUME WorkerRest PROVE Stops'
  BY <1>20, ScriptPrime DEF PInv, Stops, CleanPending, Due, WorkerRest
<1> QED
  BY <1>1, <1>2, <1>3, <1>4, <1>5, <1>6, <1>7, <1>8, <1>9, <1>10, <1>11, <1>12, <1>13, <1>14, <1>15, <1>16,
     <1>17, <1>18, <1>19, <1>20 DEF WorkerStep

LEMMA WorkerStarts ==
  ASSUME IInv, PInv, WorkerStep
  PROVE  Starts'
<1>1. ASSUME WorkerTake PROVE Starts'
  BY <1>1, ScriptPrime, TakeFacts DEF PInv, Starts, InitPending, Early, Due
<1>2. ASSUME WorkerExit PROVE Starts'
  BY <1>2, ScriptPrime DEF PInv, Starts, InitPending, Early, Due, WorkerExit
<1>3. ASSUME WorkerInit PROVE Starts'
  BY <1>3, ScriptPrime DEF PInv, Starts, InitPending, Early, Due, WorkerInit
<1>4. ASSUME WorkerInitQueue PROVE Starts'
  BY <1>4, ScriptPrime DEF PInv, Starts, InitPending, Early, Due, WorkerInitQueue
<1>5. ASSUME WorkerCleanUp PROVE Starts'
  BY <1>5, ScriptPrime DEF PInv, Starts, InitPending, Early, Due, WorkerCleanUp
<1>6. ASSUME WorkerFreeQueue PROVE Starts'
  BY <1>6, ScriptPrime DEF PInv, Starts, InitPending, Early, Due, WorkerFreeQueue
<1>7. ASSUME WorkerForgetQueue PROVE Starts'
  BY <1>7, ScriptPrime DEF PInv, Starts, InitPending, Early, Due, WorkerForgetQueue
<1>8. ASSUME WorkerFlush PROVE Starts'
  BY <1>8, ScriptPrime DEF PInv, Starts, InitPending, Early, Due, WorkerFlush, DropOne, Dequeue
<1>9. ASSUME WorkerReset PROVE Starts'
  BY <1>9, ScriptPrime DEF PInv, Starts, InitPending, Early, Due, WorkerReset
<1>10. ASSUME WorkerResetFlush PROVE Starts'
  BY <1>10, ScriptPrime DEF PInv, Starts, InitPending, Early, Due, WorkerResetFlush, DropOne, Dequeue
<1>11. ASSUME WorkerResetDecoder PROVE Starts'
  BY <1>11, ScriptPrime DEF PInv, Starts, InitPending, Early, Due, WorkerResetDecoder
<1>12. ASSUME WorkerResetReady PROVE Starts'
  BY <1>12, ScriptPrime DEF PInv, Starts, InitPending, Early, Due, WorkerResetReady
<1>13. ASSUME WorkerResetUnflush PROVE Starts'
  BY <1>13, ScriptPrime DEF PInv, Starts, InitPending, Early, Due, IInv, Life, WorkerResetUnflush
<1>14. ASSUME WorkerData PROVE Starts'
  BY <1>14, ScriptPrime DEF PInv, Starts, InitPending, Early, Due, WorkerData
<1>15. ASSUME WorkerCount PROVE Starts'
  BY <1>15, ScriptPrime DEF PInv, Starts, InitPending, Early, Due, WorkerCount
<1>16. ASSUME WorkerDrain PROVE Starts'
  BY <1>16, ScriptPrime DEF PInv, Starts, InitPending, Early, Due, WorkerDrain, Dequeue
<1>17. ASSUME WorkerJudge PROVE Starts'
  BY <1>17, ScriptPrime DEF PInv, Starts, InitPending, Early, Due, WorkerJudge
<1>18. ASSUME WorkerMedia PROVE Starts'
  BY <1>18, ScriptPrime DEF PInv, Starts, InitPending, Early, Due, WorkerMedia
<1>19. ASSUME WorkerDecode PROVE Starts'
  BY <1>19, ScriptPrime DEF PInv, Starts, InitPending, Early, Due, WorkerDecode
<1>20. ASSUME WorkerRest PROVE Starts'
  BY <1>20, ScriptPrime DEF PInv, Starts, InitPending, Early, Due, WorkerRest
<1> QED
  BY <1>1, <1>2, <1>3, <1>4, <1>5, <1>6, <1>7, <1>8, <1>9, <1>10, <1>11, <1>12, <1>13, <1>14, <1>15, <1>16,
     <1>17, <1>18, <1>19, <1>20 DEF WorkerStep

LEMMA WorkerSetup ==
  ASSUME IInv, PInv, WorkerStep
  PROVE  Setup'
<1>1. ASSUME WorkerTake PROVE Setup'
  BY <1>1, ScriptPrime, TakeFacts DEF PInv, Setup, Ongoing, Resets
<1>2. ASSUME WorkerExit PROVE Setup'
  BY <1>2, ScriptPrime DEF PInv, Setup, Ongoing, Resets, WorkerExit
<1>3. ASSUME WorkerInit PROVE Setup'
  BY <1>3, ScriptPrime DEF PInv, Setup, Ongoing, Resets, Starts, InitPending, WorkerInit
<1>4. ASSUME WorkerInitQueue PROVE Setup'
  BY <1>4, ScriptPrime DEF PInv, Setup, Ongoing, Resets, WorkerInitQueue
<1>5. ASSUME WorkerCleanUp PROVE Setup'
  BY <1>5, ScriptPrime DEF PInv, Setup, Ongoing, Resets, Stops, CleanPending, WorkerCleanUp
<1>6. ASSUME WorkerFreeQueue PROVE Setup'
  BY <1>6, ScriptPrime DEF PInv, Setup, Ongoing, Resets, WorkerFreeQueue
<1>7. ASSUME WorkerForgetQueue PROVE Setup'
  BY <1>7, ScriptPrime DEF PInv, Setup, Ongoing, Resets, WorkerForgetQueue
<1>8. ASSUME WorkerFlush PROVE Setup'
  BY <1>8, ScriptPrime DEF PInv, Setup, Ongoing, Resets, WorkerFlush, DropOne, Dequeue
<1>9. ASSUME WorkerReset PROVE Setup'
  BY <1>9, ScriptPrime DEF PInv, Setup, Ongoing, Resets, WorkerReset
<1>10. ASSUME WorkerResetFlush PROVE Setup'
  BY <1>10, ScriptPrime DEF PInv, Setup, Ongoing, Resets, WorkerResetFlush, DropOne, Dequeue
<1>11. ASSUME WorkerResetDecoder PROVE Setup'
  BY <1>11, ScriptPrime DEF PInv, Setup, Ongoing, Resets, WorkerResetDecoder
<1>12. ASSUME WorkerResetReady PROVE Setup'
  BY <1>12, ScriptPrime DEF PInv, Setup, Ongoing, Resets, WorkerResetReady
<1>13. ASSUME WorkerResetUnflush PROVE Setup'
  BY <1>13, ScriptPrime DEF PInv, Setup, Ongoing, Resets, WorkerResetUnflush
<1>14. ASSUME WorkerData PROVE Setup'
  BY <1>14, ScriptPrime DEF PInv, Setup, Ongoing, Resets, WorkerData
<1>15. ASSUME WorkerCount PROVE Setup'
  BY <1>15, ScriptPrime DEF PInv, Setup, Ongoing, Resets, WorkerCount
<1>16. ASSUME WorkerDrain PROVE Setup'
  BY <1>16, ScriptPrime DEF PInv, Setup, Ongoing, Resets, WorkerDrain, Dequeue
<1>17. ASSUME WorkerJudge PROVE Setup'
  BY <1>17, ScriptPrime DEF PInv, Setup, Ongoing, Resets, WorkerJudge
<1>18. ASSUME WorkerMedia PROVE Setup'
  BY <1>18, ScriptPrime DEF PInv, Setup, Ongoing, Resets, WorkerMedia
<1>19. ASSUME WorkerDecode PROVE Setup'
  BY <1>19, ScriptPrime DEF PInv, Setup, Ongoing, Resets, WorkerDecode
<1>20. ASSUME WorkerRest PROVE Setup'
  BY <1>20, ScriptPrime DEF PInv, Setup, Ongoing, Resets, WorkerRest
<1> QED
  BY <1>1, <1>2, <1>3, <1>4, <1>5, <1>6, <1>7, <1>8, <1>9, <1>10, <1>11, <1>12, <1>13, <1>14, <1>15, <1>16,
     <1>17, <1>18, <1>19, <1>20 DEF WorkerStep

LEMMA WorkerLatest ==
  ASSUME IInv, PInv, WorkerStep
  PROVE  Latest'
<1>1. ASSUME WorkerTake PROVE Latest'
  BY <1>1, ScriptPrime, TakeFacts DEF PInv, Latest, Ongoing, Resets, Newer, Due
<1>2. ASSUME WorkerExit PROVE Latest'
  BY <1>2, ScriptPrime DEF PInv, Latest, Ongoing, Resets, Newer, Due, WorkerExit
<1>3. ASSUME WorkerInit PROVE Latest'
  BY <1>3, ScriptPrime DEF PInv, Latest, Ongoing, Resets, Newer, Due, WorkerInit
<1>4. ASSUME WorkerInitQueue PROVE Latest'
  BY <1>4, ScriptPrime DEF PInv, Latest, Ongoing, Resets, Newer, Due, WorkerInitQueue
<1>5. ASSUME WorkerCleanUp PROVE Latest'
  BY <1>5, ScriptPrime DEF PInv, Latest, Ongoing, Resets, Newer, Due, Stops, CleanPending, WorkerCleanUp
<1>6. ASSUME WorkerFreeQueue PROVE Latest'
  BY <1>6, ScriptPrime DEF PInv, Latest, Ongoing, Resets, Newer, Due, WorkerFreeQueue
<1>7. ASSUME WorkerForgetQueue PROVE Latest'
  BY <1>7, ScriptPrime DEF PInv, Latest, Ongoing, Resets, Newer, Due, WorkerForgetQueue
<1>8. ASSUME WorkerFlush PROVE Latest'
  BY <1>8, ScriptPrime DEF PInv, Latest, Ongoing, Resets, Newer, Due, WorkerFlush, DropOne, Dequeue
<1>9. ASSUME WorkerReset PROVE Latest'
  BY <1>9, ScriptPrime DEF PInv, Latest, Ongoing, Resets, Newer, Due, WorkerReset
<1>10. ASSUME WorkerResetFlush PROVE Latest'
  BY <1>10, ScriptPrime DEF PInv, Latest, Ongoing, Resets, Newer, Due, WorkerResetFlush, DropOne, Dequeue
<1>11. ASSUME WorkerResetDecoder PROVE Latest'
  BY <1>11, ScriptPrime DEF PInv, Latest, Ongoing, Resets, Newer, Due, Setup, WorkerResetDecoder
<1>12. ASSUME WorkerResetReady PROVE Latest'
  BY <1>12, ScriptPrime DEF PInv, Latest, Ongoing, Resets, Newer, Due, WorkerResetReady
<1>13. ASSUME WorkerResetUnflush PROVE Latest'
  BY <1>13, ScriptPrime DEF PInv, Latest, Ongoing, Resets, Newer, Due, Setup, WorkerResetUnflush
<1>14. ASSUME WorkerData PROVE Latest'
  BY <1>14, ScriptPrime DEF PInv, Latest, Ongoing, Resets, Newer, Due, WorkerData
<1>15. ASSUME WorkerCount PROVE Latest'
  BY <1>15, ScriptPrime DEF PInv, Latest, Ongoing, Resets, Newer, Due, WorkerCount
<1>16. ASSUME WorkerDrain PROVE Latest'
  BY <1>16, ScriptPrime DEF PInv, Latest, Ongoing, Resets, Newer, Due, WorkerDrain, Dequeue
<1>17. ASSUME WorkerJudge PROVE Latest'
  BY <1>17, ScriptPrime DEF PInv, Latest, Ongoing, Resets, Newer, Due, WorkerJudge
<1>18. ASSUME WorkerMedia PROVE Latest'
  BY <1>18, ScriptPrime DEF PInv, Latest, Ongoing, Resets, Newer, Due, WorkerMedia
<1>19. ASSUME WorkerDecode PROVE Latest'
  BY <1>19, ScriptPrime DEF PInv, Latest, Ongoing, Resets, Newer, Due, WorkerDecode
<1>20. ASSUME WorkerRest PROVE Latest'
  BY <1>20, ScriptPrime DEF PInv, Latest, Ongoing, Resets, Newer, Due, WorkerRest
<1> QED
  BY <1>1, <1>2, <1>3, <1>4, <1>5, <1>6, <1>7, <1>8, <1>9, <1>10, <1>11, <1>12, <1>13, <1>14, <1>15, <1>16,
     <1>17, <1>18, <1>19, <1>20 DEF WorkerStep

LEMMA WorkerHeard ==
  ASSUME IInv, PInv, WorkerStep
  PROVE  Heard'
<1>1. ASSUME WorkerTake PROVE Heard'
  BY <1>1, ScriptPrime DEF PInv, Heard, Playing, WorkerTake
<1>2. ASSUME WorkerExit PROVE Heard'
  BY <1>2, ScriptPrime DEF PInv, Heard, Playing, WorkerExit
<1>3. ASSUME WorkerInit PROVE Heard'
  BY <1>3, ScriptPrime DEF PInv, Heard, Playing, WorkerInit
<1>4. ASSUME WorkerInitQueue PROVE Heard'
  BY <1>4, ScriptPrime, UnflushedFacts DEF PInv, Heard, Playing, Starts, InitPending, Unflushed, WorkerInitQueue
<1>5. ASSUME WorkerCleanUp PROVE Heard'
  BY <1>5, ScriptPrime, UnflushedFacts DEF PInv, Heard, Playing, Stops, CleanPending, Unflushed, WorkerCleanUp
<1>6. ASSUME WorkerFreeQueue PROVE Heard'
  BY <1>6, ScriptPrime DEF PInv, Heard, Playing, WorkerFreeQueue
<1>7. ASSUME WorkerForgetQueue PROVE Heard'
  BY <1>7, ScriptPrime DEF PInv, Heard, Playing, WorkerForgetQueue
<1>8. ASSUME WorkerFlush PROVE Heard'
  BY <1>8, ScriptPrime DEF PInv, Heard, Playing, WorkerFlush, DropOne, Dequeue
<1>9. ASSUME WorkerReset PROVE Heard'
  BY <1>9, ScriptPrime DEF PInv, Heard, Playing, WorkerReset
<1>10. ASSUME WorkerResetFlush PROVE Heard'
  BY <1>10, ScriptPrime DEF PInv, Heard, Playing, WorkerResetFlush, DropOne, Dequeue
<1>11. ASSUME WorkerResetDecoder PROVE Heard'
  BY <1>11, ScriptPrime DEF PInv, Heard, Playing, Setup, Resets, WorkerResetDecoder
<1>12. ASSUME WorkerResetReady PROVE Heard'
  BY <1>12, ScriptPrime DEF PInv, Heard, Playing, WorkerResetReady
<1>13. ASSUME WorkerResetUnflush PROVE Heard'
  BY <1>13, ScriptPrime DEF PInv, Heard, Playing, WorkerResetUnflush
<1>14. ASSUME WorkerData PROVE Heard'
  BY <1>14, ScriptPrime DEF PInv, Heard, Playing, WorkerData
<1>15. ASSUME WorkerCount PROVE Heard'
  BY <1>15, ScriptPrime DEF PInv, Heard, Playing, WorkerCount
<1>16. ASSUME WorkerDrain PROVE Heard'
  BY <1>16, ScriptPrime DEF PInv, Heard, Playing, WorkerDrain, Dequeue
<1>17. ASSUME WorkerJudge PROVE Heard'
  BY <1>17, ScriptPrime DEF PInv, Heard, Playing, WorkerJudge
<1>18. ASSUME WorkerMedia PROVE Heard'
  BY <1>18, ScriptPrime DEF PInv, Heard, Playing, WorkerMedia
<1>19. ASSUME WorkerDecode PROVE Heard'
  BY <1>19, ScriptPrime DEF PInv, Heard, Playing, WorkerDecode
<1>20. ASSUME WorkerRest PROVE Heard'
  BY <1>20, ScriptPrime DEF PInv, Heard, Playing, WorkerRest
<1> QED
  BY <1>1, <1>2, <1>3, <1>4, <1>5, <1>6, <1>7, <1>8, <1>9, <1>10, <1>11, <1>12, <1>13, <1>14, <1>15, <1>16,
     <1>17, <1>18, <1>19, <1>20 DEF WorkerStep

(* The steps of a presser.                                                  *)

LEMMA PressScript ==
  ASSUME IInv, PInv, NEW p \in Pressers, PressCall(p) \/ PressStep(p)
  PROVE  ScriptOK(av, todo)'
<1>1. UNCHANGED << av, todo >>
  BY DEF PressCall, PressStep, PressFlushOn, Goes, PressEmpty, Goes, PressTake, Goes, PressReady, Goes,
     PressFlushOff, Goes
<1> QED
  BY <1>1, ScriptPrime DEF PInv

LEMMA PressStops ==
  ASSUME IInv, PInv, NEW p \in Pressers, PressCall(p) \/ PressStep(p)
  PROVE  Stops'
<1>1. ASSUME PressCall(p) PROVE Stops'
  BY <1>1, ScriptPrime DEF PInv, Stops, CleanPending, Due, PressCall, Goes
<1>2. ASSUME PressFlushOn(p) PROVE Stops'
  BY <1>2, ScriptPrime DEF PInv, Stops, CleanPending, Due, PressFlushOn, Goes
<1>3. ASSUME PressEmpty(p) PROVE Stops'
  BY <1>3, ScriptPrime DEF PInv, Stops, CleanPending, Due, PressEmpty, Goes
<1>4. ASSUME PressTake(p) PROVE Stops'
  BY <1>4, ScriptPrime DEF PInv, Stops, CleanPending, Due, PressTake, DropOne, Dequeue, Goes
<1>5. ASSUME PressReady(p) PROVE Stops'
  BY <1>5, ScriptPrime DEF PInv, Stops, CleanPending, Due, PressReady, Goes
<1>6. ASSUME PressFlushOff(p) PROVE Stops'
  BY <1>6, ScriptPrime DEF PInv, Stops, CleanPending, Due, PressFlushOff, Goes
<1> QED
  BY <1>1, <1>2, <1>3, <1>4, <1>5, <1>6 DEF PressStep

LEMMA PressStarts ==
  ASSUME IInv, PInv, NEW p \in Pressers, PressCall(p) \/ PressStep(p)
  PROVE  Starts'
<1>1. ASSUME PressCall(p) PROVE Starts'
  BY <1>1, ScriptPrime DEF PInv, Starts, InitPending, Early, Due, PressCall, Goes
<1>2. ASSUME PressFlushOn(p) PROVE Starts'
  BY <1>2, ScriptPrime DEF PInv, Starts, InitPending, Early, Due, PressFlushOn, Goes
<1>3. ASSUME PressEmpty(p) PROVE Starts'
  BY <1>3, ScriptPrime DEF PInv, Starts, InitPending, Early, Due, PressEmpty, Goes
<1>4. ASSUME PressTake(p) PROVE Starts'
  BY <1>4, ScriptPrime DEF PInv, Starts, InitPending, Early, Due, PressTake, DropOne, Dequeue, Goes
<1>5. ASSUME PressReady(p) PROVE Starts'
  BY <1>5, ScriptPrime DEF PInv, Starts, InitPending, Early, Due, PressReady, Goes
<1>6. ASSUME PressFlushOff(p) PROVE Starts'
  BY <1>6, ScriptPrime DEF PInv, Starts, InitPending, Early, Due, PressFlushOff, Goes
<1> QED
  BY <1>1, <1>2, <1>3, <1>4, <1>5, <1>6 DEF PressStep

LEMMA PressSetup ==
  ASSUME IInv, PInv, NEW p \in Pressers, PressCall(p) \/ PressStep(p)
  PROVE  Setup'
<1>1. ASSUME PressCall(p) PROVE Setup'
  BY <1>1, ScriptPrime DEF PInv, Setup, Ongoing, Resets, PressCall, Goes
<1>2. ASSUME PressFlushOn(p) PROVE Setup'
  BY <1>2, ScriptPrime DEF PInv, Setup, Ongoing, Resets, PressFlushOn, Goes
<1>3. ASSUME PressEmpty(p) PROVE Setup'
  BY <1>3, ScriptPrime DEF PInv, Setup, Ongoing, Resets, PressEmpty, Goes
<1>4. ASSUME PressTake(p) PROVE Setup'
  BY <1>4, ScriptPrime DEF PInv, Setup, Ongoing, Resets, PressTake, DropOne, Dequeue, Goes
<1>5. ASSUME PressReady(p) PROVE Setup'
  BY <1>5, ScriptPrime DEF PInv, Setup, Ongoing, Resets, PressReady, Goes
<1>6. ASSUME PressFlushOff(p) PROVE Setup'
  BY <1>6, ScriptPrime DEF PInv, Setup, Ongoing, Resets, PressFlushOff, Goes
<1> QED
  BY <1>1, <1>2, <1>3, <1>4, <1>5, <1>6 DEF PressStep

LEMMA PressLatest ==
  ASSUME IInv, PInv, NEW p \in Pressers, PressCall(p) \/ PressStep(p)
  PROVE  Latest'
<1>1. ASSUME PressCall(p) PROVE Latest'
  BY <1>1, ScriptPrime DEF PInv, Latest, Ongoing, Resets, Newer, Due, PressCall, Goes
<1>2. ASSUME PressFlushOn(p) PROVE Latest'
  BY <1>2, ScriptPrime DEF PInv, Latest, Ongoing, Resets, Newer, Due, PressFlushOn, Goes
<1>3. ASSUME PressEmpty(p) PROVE Latest'
  BY <1>3, ScriptPrime DEF PInv, Latest, Ongoing, Resets, Newer, Due, PressEmpty, Goes
<1>4. ASSUME PressTake(p) PROVE Latest'
  BY <1>4, ScriptPrime DEF PInv, Latest, Ongoing, Resets, Newer, Due, PressTake, DropOne, Dequeue, Goes
<1>5. ASSUME PressReady(p) PROVE Latest'
  BY <1>5, ScriptPrime DEF PInv, Latest, Ongoing, Resets, Newer, Due, PressReady, Goes
<1>6. ASSUME PressFlushOff(p) PROVE Latest'
  BY <1>6, ScriptPrime DEF PInv, Latest, Ongoing, Resets, Newer, Due, PressFlushOff, Goes
<1> QED
  BY <1>1, <1>2, <1>3, <1>4, <1>5, <1>6 DEF PressStep

LEMMA PressHeard ==
  ASSUME IInv, PInv, NEW p \in Pressers, PressCall(p) \/ PressStep(p)
  PROVE  Heard'
<1>1. ASSUME PressCall(p) PROVE Heard'
  BY <1>1, ScriptPrime DEF PInv, Heard, Playing, PressCall, Goes
<1>2. ASSUME PressFlushOn(p) PROVE Heard'
  BY <1>2, ScriptPrime DEF PInv, Heard, Playing, IInv, TypeOK, PlacesOK, PressFlushOn, Goes
<1>3. ASSUME PressEmpty(p) PROVE Heard'
  BY <1>3, ScriptPrime DEF PInv, Heard, Playing, PressEmpty, Goes
<1>4. ASSUME PressTake(p) PROVE Heard'
  BY <1>4, ScriptPrime DEF PInv, Heard, Playing, PressTake, DropOne, Dequeue, Goes
<1>5. ASSUME PressReady(p) PROVE Heard'
  <2>1. /\ pressure[p] = "ready" /\ pressure' = [pressure EXCEPT ![p] = IF decoder_ready THEN "flushOff" ELSE "idle"]
        /\ UNCHANGED << av, todo, reset_ok, rx_flush, lost, data_channel_open >>
    BY <1>5 DEF PressReady, Goes
  <2>2. ASSUME Playing \/ todo \in Unflushed, reset_ok
        PROVE  decoder_ready
    <3>1. ~Has(todo, "join") /\ (av = "started" \/ ~Ends(todo))
      BY <2>2, UnflushedFacts, HasNothing DEF Playing
    <3>2. thread = "running"
      BY <3>1 DEF PInv, Stops
    <3> QED
      BY <2>2, <3>1, <3>2 DEF PInv, Setup, Ongoing
  <2>3. decoder_ready => pressure'[p] = "flushOff"
    BY <2>1 DEF IInv, TypeOK, PlacesOK
  <2> QED
    BY <2>1, <2>2, <2>3 DEF PInv, Heard, Playing
<1>6. ASSUME PressFlushOff(p) PROVE Heard'
  BY <1>6, ScriptPrime DEF PInv, Heard, Playing, PressFlushOff, Goes
<1> QED
  BY <1>1, <1>2, <1>3, <1>4, <1>5, <1>6 DEF PressStep

\* What BTC may do next: each of the facts above, of the script it is in.
LEMMA CallFacts ==
  ASSUME IInv, PInv, todo # << >>
  PROVE  /\ Head(todo) \in Calls
         /\ \A c : Has(todo, c) <=> Head(todo) = c \/ Has(Tail(todo), c)
         /\ Head(todo) \in EndCalls => Ends(todo) /\ av = "idle"
         /\ Head(todo) \in EndCalls \ {"disable"} => Tail(todo) # << >>
         /\ Head(todo) = "disable" => Tail(todo) = << >>
         /\ Head(todo) \in {"postCleanUp", "stop"} => Has(Tail(todo), "join")
         /\ Ends(todo) => Head(todo) \in EndCalls /\ Ends(Tail(todo))
         /\ Head(todo) \notin {"idle", "opened", "started"} => ScriptOK(av, Tail(todo))
         /\ Head(todo) \in {"idle", "opened", "started"} => ScriptOK(Head(todo), Tail(todo))
         /\ Head(todo) = "started" => todo = << "started" >>
         /\ av = "started" /\ Head(todo) \notin {"idle", "opened"} => Tail(todo) # << >>
         /\ Tail(todo) \in Unflushed => Head(todo) = "rxFlushOff" \/ (Head(todo) = "openChannel" /\ todo \in Unflushed)
         /\ Tail(todo) = << "started" >> => Head(todo) = "openChannel"
<1>1. todo \in Seq(Calls) /\ ScriptOK(av, todo)
  BY DEF IInv, TypeOK, SequencesOK, PInv
<1>2. Head(todo) \in Calls
  BY <1>1, TailFacts
<1>3. \A c : Has(todo, c) <=> Head(todo) = c \/ Has(Tail(todo), c)
  BY <1>1, HasFacts
<1>4. /\ Head(todo) \in EndCalls => Ends(todo) /\ (av = "idle" \/ Has(todo, "idle"))
      /\ Head(todo) \in EndCalls \ {"disable"} => Tail(todo) # << >>
      /\ Head(todo) = "disable" => Tail(todo) = << >>
      /\ Head(todo) \in {"postCleanUp", "stop"} => Has(Tail(todo), "join")
      /\ Ends(todo) => Head(todo) \in EndCalls /\ Ends(Tail(todo))
  BY <1>1, EndFacts
<1>5. Ends(todo) => ~Has(todo, "idle")
  BY DEF Ends, Has, EndCalls
<1>6. /\ Head(todo) \notin {"idle", "opened", "started"} => ScriptOK(av, Tail(todo))
      /\ Head(todo) \in {"idle", "opened", "started"} => ScriptOK(Head(todo), Tail(todo))
      /\ Head(todo) = "started" => todo = << "started" >>
      /\ av = "started" /\ Head(todo) \notin {"idle", "opened"} => Tail(todo) # << >>
      /\ Tail(todo) \in Unflushed => Head(todo) = "rxFlushOff" \/ (Head(todo) = "openChannel" /\ todo \in Unflushed)
      /\ Tail(todo) = << "started" >> => Head(todo) = "openChannel"
  BY <1>1, ScriptTail
<1> QED
  BY <1>2, <1>3, <1>4, <1>5, <1>6

LEMMA EarlyFacts ==
  ASSUME todo \in EarlyScripts
  PROVE  /\ Head(todo) \in {"rxFlushOn", "rxFlushReq", "postFlush", "clearTrack"}
         /\ Head(todo) # "clearTrack" => Tail(todo) \in EarlyScripts
         /\ Head(todo) = "rxFlushReq" => << "postFlush" >> \o Tail(todo) \in EarlyScripts
         /\ todo # << >>
<1>1. CASE todo = << "rxFlushReq", "clearTrack", "enable" >>
  <2> DEFINE s == << "postFlush" >> \o << "clearTrack", "enable" >>
             t == << "postFlush", "clearTrack", "enable" >>
  <2>1. Tail(todo) = << "clearTrack", "enable" >> /\ Head(todo) = "rxFlushReq" /\ todo # << >>
    BY <1>1
  <2>2. /\ << "postFlush" >> \in Seq(Calls) /\ << "clearTrack", "enable" >> \in Seq(Calls) /\ t \in Seq(Calls)
        /\ Len(<< "postFlush" >>) = 1 /\ Len(<< "clearTrack", "enable" >>) = 2 /\ Len(t) = 3
    OBVIOUS
  <2>3. /\ s \in Seq(Calls) /\ Len(s) = Len(<< "postFlush" >>) + Len(<< "clearTrack", "enable" >>)
        /\ \A i \in 1..Len(s) : s[i] = IF i <= Len(<< "postFlush" >>) THEN << "postFlush" >>[i]
                                       ELSE << "clearTrack", "enable" >>[i - Len(<< "postFlush" >>)]
    BY <2>2, ConcatProperties
  <2>4. Len(s) = 3
    BY <2>2, <2>3
  <2>5. s[1] = t[1] /\ s[2] = t[2] /\ s[3] = t[3]
    BY <2>2, <2>3, <2>4
  <2>6. \A i \in 1..3 : s[i] = t[i]
    BY <2>5
  <2> HIDE DEF s, t
  <2>7. s = t
    BY <2>2, <2>3, <2>4, <2>6, SeqEqual
  <2> QED
    BY <2>1, <2>7 DEF s, t, EarlyScripts
<1>2. CASE todo = << "rxFlushOn", "rxFlushReq", "clearTrack", "enable" >>
  <2>1. Tail(todo) = << "rxFlushReq", "clearTrack", "enable" >> /\ Head(todo) = "rxFlushOn" /\ todo # << >>
    BY <1>2
  <2> QED
    BY <2>1 DEF EarlyScripts
<1>3. CASE todo = << "postFlush", "clearTrack", "enable" >>
  <2>1. Tail(todo) = << "clearTrack", "enable" >> /\ Head(todo) = "postFlush" /\ todo # << >>
    BY <1>3
  <2> QED
    BY <2>1 DEF EarlyScripts
<1>4. CASE todo = << "clearTrack", "enable" >>
  BY <1>4
<1> QED
  BY <1>1, <1>2, <1>3, <1>4 DEF EarlyScripts

\* The call a flush request turns into leads to where the request leads.
LEMMA PostedFacts ==
  ASSUME IInv, PInv, todo # << >>, Head(todo) = "rxFlushReq"
  PROVE  /\ ScriptOK(av, << "postFlush" >> \o Tail(todo))
         /\ << "postFlush" >> \o Tail(todo) # << >> /\ << "postFlush" >> \o Tail(todo) \notin Unflushed
         /\ \A c \in {"opened", "started", "join", "disable"} :
               Has(<< "postFlush" >> \o Tail(todo), c) <=> Has(todo, c)
         /\ ~Ends(todo)
<1>1. todo \in Seq(Calls) /\ ScriptOK(av, todo)
  BY DEF IInv, TypeOK, SequencesOK, PInv
<1>2. /\ ScriptOK(av, << "postFlush" >> \o Tail(todo))
      /\ << "postFlush" >> \o Tail(todo) # << >> /\ ~Has(todo, "started")
      /\ \A c : c # "postFlush" /\ c # "rxFlushReq" => (Has(<< "postFlush" >> \o Tail(todo), c) <=> Has(todo, c))
  BY <1>1, ScriptPosted
<1>3. << "postFlush" >> \o Tail(todo) \notin Unflushed
  BY <1>2, UnflushedFacts
<1>4. ~Ends(todo)
  BY CallFacts DEF EndCalls
<1> QED
  BY <1>2, <1>3, <1>4

\* What BTC posts, or does not for want of memory.
LEMMA BtcPosts ==
  ASSUME IInv, PInv, Post
  PROVE  /\ todo # << >> /\ todo' = Tail(todo) /\ Head(todo) \in {"postFlush", "clearTrack", "postCleanUp"}
         /\ UNCHANGED << sinkVars, queueVars, btuVars, btcq, av, deinit, registered, workerVars, pressure, failed, thread >>
         /\ \/ /\ thread # "none" /\ ctrl = << >> /\ lost' = lost
               /\ ctrl' # << >> /\ ctrl'[1].op \in {"flush", "clear", "cleanup"}
               /\ ctrl'[1].op = "cleanup" => Head(todo) = "postCleanUp"
            \/ Head(todo) # "postFlush" /\ lost' = TRUE /\ ctrl' = ctrl
<1>1. \A m : << m >> # << >> /\ << m >>[1] = m
  OBVIOUS
<1>2. Message("flush", NoConfig).op = "flush" /\ Message("clear", NoConfig).op = "clear"
      /\ Message("cleanup", NoConfig).op = "cleanup"
  BY DEF Message
<1> QED
  BY <1>1, <1>2 DEF Post, Call, PostCtrl

(* The steps of BTC: the first call of its script, or the next event.       *)

LEMMA BtcScript ==
  ASSUME IInv, PInv, BtcStep
  PROVE  ScriptOK(av, todo)'
<1>1. ASSUME BtcEvent PROVE ScriptOK(av, todo)'
  BY <1>1, ScriptPrime, HandlerScripts, BtcqFacts, HasNothing DEF PInv, IInv, BtcEvent
<1>2. ASSUME SetRxFlush PROVE ScriptOK(av, todo)'
  BY <1>2, ScriptPrime, CallFacts DEF PInv, SetRxFlush, Call
<1>3. ASSUME SetChannel PROVE ScriptOK(av, todo)'
  BY <1>3, ScriptPrime, CallFacts DEF PInv, SetChannel, Call
<1>4. ASSUME SetState PROVE ScriptOK(av, todo)'
  BY <1>4, ScriptPrime, CallFacts DEF PInv, SetState, Call
<1>5. ASSUME RxFlushReq PROVE ScriptOK(av, todo)'
  BY <1>5, ScriptPrime, CallFacts, PostedFacts DEF PInv, RxFlushReq
<1>6. ASSUME Post PROVE ScriptOK(av, todo)'
  BY <1>6, ScriptPrime, BtcPosts, CallFacts DEF PInv
<1>7. ASSUME EnableService PROVE ScriptOK(av, todo)'
  BY <1>7, ScriptPrime, CallFacts DEF PInv, EnableService, Call
<1>8. ASSUME ShuttingDown PROVE ScriptOK(av, todo)'
  BY <1>8, ScriptPrime, CallFacts DEF PInv, ShuttingDown, Call
<1>9. ASSUME Stop PROVE ScriptOK(av, todo)'
  BY <1>9, ScriptPrime, CallFacts DEF PInv, Stop, Call
<1>10. ASSUME Join PROVE ScriptOK(av, todo)'
  BY <1>10, ScriptPrime, CallFacts DEF PInv, Join, Call
<1>11. ASSUME DisableService PROVE ScriptOK(av, todo)'
  BY <1>11, ScriptPrime, CallFacts, HasNothing DEF PInv, DisableService
<1> QED
  BY <1>1, <1>2, <1>3, <1>4, <1>5, <1>6, <1>7, <1>8, <1>9, <1>10, <1>11 DEF BtcStep

LEMMA BtcStops ==
  ASSUME IInv, PInv, BtcStep
  PROVE  Stops'
<1>1. ASSUME BtcEvent PROVE Stops'
  BY <1>1, ScriptPrime, HandlerScripts, BtcqFacts, HasNothing DEF PInv, Stops, CleanPending, Due, EndCalls,
     IInv, BtcEvent
<1>2. ASSUME SetRxFlush PROVE Stops'
  BY <1>2, ScriptPrime, CallFacts DEF PInv, Stops, CleanPending, Due, EndCalls, SetRxFlush, Call
<1>3. ASSUME SetChannel PROVE Stops'
  BY <1>3, ScriptPrime, CallFacts DEF PInv, Stops, CleanPending, Due, EndCalls, SetChannel, Call
<1>4. ASSUME SetState PROVE Stops'
  BY <1>4, ScriptPrime, CallFacts DEF PInv, Stops, CleanPending, Due, EndCalls, SetState, Call
<1>5. ASSUME RxFlushReq PROVE Stops'
  BY <1>5, ScriptPrime, CallFacts, PostedFacts DEF PInv, Stops, CleanPending, Due, EndCalls, RxFlushReq
<1>6. ASSUME Post PROVE Stops'
  BY <1>6, ScriptPrime, BtcPosts, CallFacts DEF PInv, Stops, CleanPending, Due, EndCalls
<1>7. ASSUME EnableService PROVE Stops'
  BY <1>7, ScriptPrime, CallFacts DEF PInv, Stops, CleanPending, Due, EndCalls, EnableService, Call
<1>8. ASSUME ShuttingDown PROVE Stops'
  BY <1>8, ScriptPrime, CallFacts DEF PInv, Stops, CleanPending, Due, EndCalls, ShuttingDown, Call
<1>9. ASSUME Stop PROVE Stops'
  BY <1>9, ScriptPrime, CallFacts DEF PInv, Stops, CleanPending, Due, EndCalls, Stop, Call
<1>10. ASSUME Join PROVE Stops'
  BY <1>10, ScriptPrime, CallFacts DEF PInv, Stops, CleanPending, Due, EndCalls, Join, Call
<1>11. ASSUME DisableService PROVE Stops'
  BY <1>11, ScriptPrime, CallFacts, HasNothing DEF PInv, Stops, CleanPending, Due, EndCalls, DisableService
<1> QED
  BY <1>1, <1>2, <1>3, <1>4, <1>5, <1>6, <1>7, <1>8, <1>9, <1>10, <1>11 DEF BtcStep

LEMMA BtcStarts ==
  ASSUME IInv, PInv, BtcStep
  PROVE  Starts'
<1>1. ASSUME BtcEvent PROVE Starts'
  BY <1>1, ScriptPrime, HandlerScripts, BtcqFacts, HasNothing DEF PInv, Starts, InitPending, Early, Due, IInv,
     BtcEvent
<1>2. ASSUME SetRxFlush PROVE Starts'
  BY <1>2, ScriptPrime, CallFacts, EarlyFacts DEF PInv, Starts, InitPending, Early, Due, SetRxFlush, Call
<1>3. ASSUME SetChannel PROVE Starts'
  BY <1>3, ScriptPrime, CallFacts, EarlyFacts DEF PInv, Starts, InitPending, Early, Due, SetChannel, Call
<1>4. ASSUME SetState PROVE Starts'
  BY <1>4, ScriptPrime, CallFacts, EarlyFacts DEF PInv, Starts, InitPending, Early, Due, SetState, Call
<1>5. ASSUME RxFlushReq PROVE Starts'
  BY <1>5, ScriptPrime, CallFacts, PostedFacts, EarlyFacts DEF PInv, Starts, InitPending, Early, Due, RxFlushReq
<1>6. ASSUME Post PROVE Starts'
  <2>1. InitPending' => InitPending
    BY <1>6, BtcPosts DEF InitPending, Due
  <2>2. ~lost' => ~lost /\ ctrl' # << >> /\ ctrl'[1].op # "init"
    BY <1>6, BtcPosts
  <2>3. \A c : Has(todo', c) => Has(todo, c)
    BY <1>6, BtcPosts, CallFacts
  <2>4. UNCHANGED << registered, btu, peer, reset_ok, av, btcq >>
    BY <1>6, BtcPosts
  <2> QED
    BY <2>1, <2>2, <2>3, <2>4, ScriptPrime DEF PInv, Starts
<1>7. ASSUME EnableService PROVE Starts'
  BY <1>7, ScriptPrime, CallFacts, EarlyFacts DEF PInv, Starts, InitPending, Early, Due, EnableService, Call
<1>8. ASSUME ShuttingDown PROVE Starts'
  BY <1>8, ScriptPrime, CallFacts, EarlyFacts DEF PInv, Starts, InitPending, Early, Due, ShuttingDown, Call
<1>9. ASSUME Stop PROVE Starts'
  BY <1>9, ScriptPrime, CallFacts, EarlyFacts DEF PInv, Starts, InitPending, Early, Due, Stop, Call
<1>10. ASSUME Join PROVE Starts'
  BY <1>10, ScriptPrime, CallFacts, EarlyFacts DEF PInv, Starts, InitPending, Early, Due, Join, Call
<1>11. ASSUME DisableService PROVE Starts'
  <2>1. todo # << >> /\ Head(todo) = "disable" /\ Tail(todo) = << >> /\ todo' = Tail(todo) /\ registered' = "disabling"
    BY <1>11, CallFacts DEF DisableService
  <2>2. Has(todo, "disable") /\ ~Has(todo, "join")
    BY <2>1, CallFacts, HasNothing
  <2>3. worker = "gone"
    BY <2>2 DEF PInv, Stops, IInv, Life
  <2>4. ~Early
    BY <2>1, EarlyFacts DEF Early
  <2>5. InitPending => lost
    BY <2>3, <2>4 DEF PInv, Starts, InitPending, Due
  <2>6. InitPending' = InitPending /\ UNCHANGED << reset_ok, lost >>
    BY <1>11 DEF DisableService, InitPending, Due
  <2> QED
    BY <2>1, <2>5, <2>6 DEF PInv, Starts
<1> QED
  BY <1>1, <1>2, <1>3, <1>4, <1>5, <1>6, <1>7, <1>8, <1>9, <1>10, <1>11 DEF BtcStep

LEMMA BtcSetup ==
  ASSUME IInv, PInv, BtcStep
  PROVE  Setup'
<1>1. ASSUME BtcEvent PROVE Setup'
  BY <1>1, ScriptPrime, HandlerScripts, BtcqFacts, HasNothing DEF PInv, Setup, Ongoing, Resets, IInv, BtcEvent
<1>2. ASSUME SetRxFlush PROVE Setup'
  BY <1>2, ScriptPrime, CallFacts DEF PInv, Setup, Ongoing, Resets, SetRxFlush, Call
<1>3. ASSUME SetChannel PROVE Setup'
  BY <1>3, ScriptPrime, CallFacts DEF PInv, Setup, Ongoing, Resets, SetChannel, Call
<1>4. ASSUME SetState PROVE Setup'
  BY <1>4, ScriptPrime, CallFacts DEF PInv, Setup, Ongoing, Resets, SetState, Call
<1>5. ASSUME RxFlushReq PROVE Setup'
  BY <1>5, ScriptPrime, CallFacts, PostedFacts DEF PInv, Setup, Ongoing, Resets, RxFlushReq
<1>6. ASSUME Post PROVE Setup'
  <2>1. Has(todo', "join") <=> Has(todo, "join")
    BY <1>6, BtcPosts, CallFacts
  <2>2. UNCHANGED << worker, cfg, reset_ok, decoder, decoder_ready, thread >>
    BY <1>6, BtcPosts
  <2> QED
    BY <2>1, <2>2, ScriptPrime DEF PInv, Setup, Ongoing
<1>7. ASSUME EnableService PROVE Setup'
  BY <1>7, ScriptPrime, CallFacts DEF PInv, Setup, Ongoing, Resets, EnableService, Call
<1>8. ASSUME ShuttingDown PROVE Setup'
  BY <1>8, ScriptPrime, CallFacts DEF PInv, Setup, Ongoing, Resets, ShuttingDown, Call
<1>9. ASSUME Stop PROVE Setup'
  BY <1>9, ScriptPrime, CallFacts DEF PInv, Setup, Ongoing, Resets, Stop, Call
<1>10. ASSUME Join PROVE Setup'
  BY <1>10, ScriptPrime, CallFacts DEF PInv, Setup, Ongoing, Resets, Join, Call
<1>11. ASSUME DisableService PROVE Setup'
  BY <1>11, ScriptPrime, CallFacts, HasNothing DEF PInv, Setup, Ongoing, Resets, DisableService
<1> QED
  BY <1>1, <1>2, <1>3, <1>4, <1>5, <1>6, <1>7, <1>8, <1>9, <1>10, <1>11 DEF BtcStep

LEMMA BtcLatest ==
  ASSUME IInv, PInv, BtcStep
  PROVE  Latest'
<1>1. ASSUME BtcEvent PROVE Latest'
  BY <1>1, ScriptPrime, HandlerScripts, BtcqFacts, HasNothing DEF PInv, Latest, Ongoing, Newer, Due, Resets,
     IInv, BtcEvent
<1>2. ASSUME SetRxFlush PROVE Latest'
  BY <1>2, ScriptPrime, CallFacts DEF PInv, Latest, Ongoing, Newer, Due, Resets, SetRxFlush, Call
<1>3. ASSUME SetChannel PROVE Latest'
  BY <1>3, ScriptPrime, CallFacts DEF PInv, Latest, Ongoing, Newer, Due, Resets, SetChannel, Call
<1>4. ASSUME SetState PROVE Latest'
  BY <1>4, ScriptPrime, CallFacts DEF PInv, Latest, Ongoing, Newer, Due, Resets, SetState, Call
<1>5. ASSUME RxFlushReq PROVE Latest'
  BY <1>5, ScriptPrime, CallFacts, PostedFacts DEF PInv, Latest, Ongoing, Newer, Due, Resets, RxFlushReq
<1>6. ASSUME Post PROVE Latest'
  BY <1>6, ScriptPrime, BtcPosts, CallFacts DEF PInv, Latest, Ongoing, Newer, Due, Resets
<1>7. ASSUME EnableService PROVE Latest'
  BY <1>7, ScriptPrime, CallFacts DEF PInv, Latest, Ongoing, Newer, Due, Resets, EnableService, Call
<1>8. ASSUME ShuttingDown PROVE Latest'
  BY <1>8, ScriptPrime, CallFacts DEF PInv, Latest, Ongoing, Newer, Due, Resets, ShuttingDown, Call
<1>9. ASSUME Stop PROVE Latest'
  BY <1>9, ScriptPrime, CallFacts DEF PInv, Latest, Ongoing, Newer, Due, Resets, Stop, Call
<1>10. ASSUME Join PROVE Latest'
  BY <1>10, ScriptPrime, CallFacts DEF PInv, Latest, Ongoing, Newer, Due, Resets, Join, Call
<1>11. ASSUME DisableService PROVE Latest'
  BY <1>11, ScriptPrime, CallFacts, HasNothing DEF PInv, Latest, Ongoing, Newer, Due, Resets, DisableService
<1> QED
  BY <1>1, <1>2, <1>3, <1>4, <1>5, <1>6, <1>7, <1>8, <1>9, <1>10, <1>11 DEF BtcStep

LEMMA BtcHeard ==
  ASSUME IInv, PInv, BtcStep
  PROVE  Heard'
<1>1. ASSUME BtcEvent PROVE Heard'
  <2>1. todo = << >> /\ Head(btcq) \in Events /\ todo' = Handler(Head(btcq))
        /\ UNCHANGED << av, reset_ok, rx_flush, pressure, lost, data_channel_open >>
    BY <1>1, BtcqFacts DEF BtcEvent, IInv
  <2>2. todo' \notin Unflushed /\ todo' # << "started" >>
    BY <2>1, HandlerScripts, UnflushedFacts
  <2> QED
    BY <2>1, <2>2 DEF PInv, Heard, Playing
<1>2. ASSUME SetRxFlush PROVE Heard'
  BY <1>2, ScriptPrime, CallFacts, UnflushedFacts DEF PInv, Heard, Playing, SetRxFlush, Call
<1>3. ASSUME SetChannel PROVE Heard'
  BY <1>3, ScriptPrime, CallFacts, UnflushedFacts DEF PInv, Heard, Playing, SetChannel, Call
<1>4. ASSUME SetState PROVE Heard'
  BY <1>4, ScriptPrime, CallFacts, UnflushedFacts, HasNothing DEF PInv, Heard, Playing, Unflushed, SetState, Call
<1>5. ASSUME RxFlushReq PROVE Heard'
  <2>1. todo # << >> /\ Head(todo) = "rxFlushReq" /\ todo' \in {Tail(todo), << "postFlush" >> \o Tail(todo)} /\ av' = av
    BY <1>5 DEF RxFlushReq
  <2>2. ~Playing'
    BY <2>1, CallFacts, PostedFacts DEF Playing
  <2>3. todo' \notin Unflushed /\ todo' # << "started" >>
    BY <2>1, CallFacts, PostedFacts, UnflushedFacts
  <2> QED
    BY <2>2, <2>3 DEF Heard
<1>6. ASSUME Post PROVE Heard'
  BY <1>6, ScriptPrime, BtcPosts, CallFacts, UnflushedFacts DEF PInv, Heard, Playing
<1>7. ASSUME EnableService PROVE Heard'
  BY <1>7, ScriptPrime, CallFacts, UnflushedFacts DEF PInv, Heard, Playing, EnableService, Call
<1>8. ASSUME ShuttingDown PROVE Heard'
  BY <1>8, ScriptPrime, CallFacts, UnflushedFacts DEF PInv, Heard, Playing, ShuttingDown, Call
<1>9. ASSUME Stop PROVE Heard'
  BY <1>9, ScriptPrime, CallFacts, UnflushedFacts DEF PInv, Heard, Playing, Stop, Call
<1>10. ASSUME Join PROVE Heard'
  BY <1>10, ScriptPrime, CallFacts, UnflushedFacts DEF PInv, Heard, Playing, Join, Call
<1>11. ASSUME DisableService PROVE Heard'
  BY <1>11, ScriptPrime, CallFacts, HasNothing, UnflushedFacts DEF PInv, Heard, Playing, DisableService
<1> QED
  BY <1>1, <1>2, <1>3, <1>4, <1>5, <1>6, <1>7, <1>8, <1>9, <1>10, <1>11 DEF BtcStep

(* The application starts the profile, or ends it.                          *)

LEMMA AppScript ==
  ASSUME IInv, PInv, AppStep
  PROVE  ScriptOK(av, todo)'
<1>1. ASSUME AppInit PROVE ScriptOK(av, todo)'
  BY <1>1, ScriptPrime, AppScripts, HasNothing DEF PInv, AppInit, Message
<1>2. ASSUME AppDeinit PROVE ScriptOK(av, todo)'
  BY <1>2, ScriptPrime, AppScripts, HasNothing DEF PInv, AppDeinit
<1> QED
  BY <1>1, <1>2 DEF AppStep

LEMMA AppStops ==
  ASSUME IInv, PInv, AppStep
  PROVE  Stops'
<1>1. ASSUME AppInit PROVE Stops'
  BY <1>1, ScriptPrime, AppScripts, HasNothing DEF PInv, Stops, CleanPending, Due, EndCalls, AppInit, Message
<1>2. ASSUME AppDeinit PROVE Stops'
  BY <1>2, ScriptPrime, AppScripts, HasNothing DEF PInv, Stops, CleanPending, Due, EndCalls, AppDeinit
<1> QED
  BY <1>1, <1>2 DEF AppStep

LEMMA AppStarts ==
  ASSUME IInv, PInv, AppStep
  PROVE  Starts'
<1>1. ASSUME AppInit PROVE Starts'
  BY <1>1, ScriptPrime, AppScripts, HasNothing DEF PInv, Starts, InitPending, Early, Due, EarlyScripts, AppInit,
     Message
<1>2. ASSUME AppDeinit PROVE Starts'
  BY <1>2, ScriptPrime, AppScripts, HasNothing, EarlyFacts DEF PInv, Starts, InitPending, Early, Due, AppDeinit
<1> QED
  BY <1>1, <1>2 DEF AppStep

LEMMA AppSetup ==
  ASSUME IInv, PInv, AppStep
  PROVE  Setup'
<1>1. ASSUME AppInit PROVE Setup'
  BY <1>1, ScriptPrime, AppScripts, HasNothing DEF PInv, Setup, Ongoing, Resets, AppInit, Message
<1>2. ASSUME AppDeinit PROVE Setup'
  BY <1>2, ScriptPrime, AppScripts, HasNothing DEF PInv, Setup, Ongoing, Resets, AppDeinit
<1> QED
  BY <1>1, <1>2 DEF AppStep

LEMMA AppLatest ==
  ASSUME IInv, PInv, AppStep
  PROVE  Latest'
<1>1. ASSUME AppInit PROVE Latest'
  BY <1>1, ScriptPrime, AppScripts, HasNothing DEF PInv, Latest, Ongoing, Newer, Due, Resets, AppInit, Message
<1>2. ASSUME AppDeinit PROVE Latest'
  BY <1>2, ScriptPrime, AppScripts, HasNothing DEF PInv, Latest, Ongoing, Newer, Due, Resets, AppDeinit
<1> QED
  BY <1>1, <1>2 DEF AppStep

LEMMA AppHeard ==
  ASSUME IInv, PInv, AppStep
  PROVE  Heard'
<1>1. ASSUME AppInit PROVE Heard'
  BY <1>1, ScriptPrime, AppScripts, HasNothing DEF PInv, Heard, Playing, Unflushed, AppInit, Message
<1>2. ASSUME AppDeinit PROVE Heard'
  BY <1>2, ScriptPrime, AppScripts, HasNothing, UnflushedFacts DEF PInv, Heard, Playing, AppDeinit
<1> QED
  BY <1>1, <1>2 DEF AppStep

LEMMA FailHeard ==
  ASSUME PInv, Fail
  PROVE  PInv'
<1>1. UNCHANGED << sinkVars, queueVars, threadVars, btuVars, btcVars, workerVars, pressure, lost >>
  BY DEF Fail
<1> QED
  BY <1>1 DEF PInv, ScriptOK, Stops, Starts, Setup, Latest, Heard, Has, Ends, Due, CleanPending, InitPending, Early,
     Newer, Ongoing, Playing

LEMMA HeardKept ==
  ASSUME IInv, PInv, [Next]_vars
  PROVE  PInv'
<1>1. CASE BtuCall
  BY <1>1, BtuScript, BtuStops, BtuStarts, BtuSetup, BtuLatest, BtuHeard DEF PInv
<1>2. CASE PeerStep
  BY <1>2, PeerScript, PeerStops, PeerStarts, PeerSetup, PeerLatest, PeerHeard DEF PInv
<1>3. CASE BtcStep
  BY <1>3, BtcScript, BtcStops, BtcStarts, BtcSetup, BtcLatest, BtcHeard DEF PInv
<1>4. CASE AppStep
  BY <1>4, AppScript, AppStops, AppStarts, AppSetup, AppLatest, AppHeard DEF PInv
<1>5. CASE WorkerStep
  BY <1>5, WorkerScript, WorkerStops, WorkerStarts, WorkerSetup, WorkerLatest, WorkerHeard DEF PInv
<1>6. ASSUME NEW p \in Pressers, PressCall(p) \/ PressStep(p)
      PROVE  PInv'
  BY <1>6, PressScript, PressStops, PressStarts, PressSetup, PressLatest, PressHeard DEF PInv
<1>7. CASE UNCHANGED vars
  <2>1. UNCHANGED << sinkVars, queueVars, threadVars, btuVars, btcVars, workerVars, pressure, lost >>
    BY <1>7 DEF vars
  <2> QED
    BY <2>1 DEF PInv, ScriptOK, Stops, Starts, Setup, Latest, Heard, Has, Ends, Due, CleanPending, InitPending, Early,
       Newer, Ongoing, Playing
<1> QED
  BY <1>1, <1>2, <1>3, <1>4, <1>5, <1>6, <1>7, FailHeard DEF Next

\* btc_a2dp_sink.c:961: once all is quiet, a started stream whose decoder was set
\* up is heard, in any interleaving of the resets, the AV events, the flushes
\* under memory pressure and the deinitialisation; and unless a message was lost
\* for want of memory somebody listens and the decoder is that of the last
\* configuration.
THEOREM StreamIsHeard == Spec => []PlaysAfterReset
<1>1. Init => PInv
  <2>1. ASSUME Init PROVE PInv
    <3>1. /\ todo = << >> /\ av = "off" /\ thread = "none" /\ worker = "gone" /\ ctrl = << >> /\ ~reset_ok
          /\ btu = "idle" /\ peer = "closed"
      BY <2>1 DEF Init
    <3>2. ScriptOK(av, todo) /\ Ends(todo) /\ ~Has(todo, "disable")
      BY <3>1, HasNothing
    <3>3. todo \notin Unflushed /\ todo # << "started" >>
      BY <3>1, UnflushedFacts
    <3> QED
      BY <3>1, <3>2, <3>3 DEF PInv, Stops, Starts, Setup, Latest, Heard, CleanPending, InitPending, Due, Newer, Ongoing,
         Playing, Resets
  <2> QED
    BY <2>1
<1>2. IInv /\ PInv /\ [Next]_vars => PInv'
  BY HeardKept
<1>3. IInv /\ PInv => PlaysAfterReset
  <2>1. ASSUME PInv, Quiet, av = "started", reset_ok
        PROVE  decoder_ready /\ ~rx_flush /\ (lost \/ (data_channel_open /\ decoder = config))
    <3>1. Playing /\ ~Has(todo, "join") /\ ctrl = << >> /\ btu = "idle" /\ worker = "idle"
      BY <2>1, HasNothing DEF Quiet, Playing
    <3>2. Ongoing
      BY <2>1, <3>1 DEF PInv, Stops, Ongoing
    <3>3. \A p \in Pressers : pressure[p] = "idle"
      BY <2>1 DEF Quiet
    <3>4. decoder_ready
      BY <2>1, <3>2 DEF PInv, Setup
    <3>5. ~rx_flush
      BY <2>1, <3>1, <3>3 DEF PInv, Heard
    <3>6. lost \/ data_channel_open
      BY <2>1, <3>1 DEF PInv, Heard
    <3>7. lost \/ decoder = config
      BY <2>1, <3>1, <3>2 DEF PInv, Latest, Newer, Due
    <3> QED
      BY <3>4, <3>5, <3>6, <3>7
  <2> QED
    BY <2>1 DEF PlaysAfterReset
<1> QED
  BY <1>1, <1>2, <1>3, Invariance, PTL DEF Spec

=============================================================================
