------------------------ MODULE CodecNegotiationProofs ------------------------
(***************************************************************************)
(* Proofs about CodecNegotiation: the decoder is configured for the codec  *)
(* of the open stream.  That is a fact of the last message only if the     *)
(* ones before it have left the record as they should, so the invariant    *)
(* Settled says what the waiting messages may still do:                    *)
(*   OneQuestion   in a search one answer waits or is awaited, not both,   *)
(*                 and one only,                                           *)
(*   OneConfig     one configuration by the device waits, for the endpoint *)
(*                 that holds it, and no answer is in front of it,         *)
(*   Requested     a stream that is asked for has an endpoint,             *)
(*   Configured    past the indication, the decoder has the codec of the   *)
(*                 endpoint, and no answer of the search is left that      *)
(*                 could configure it anew,                                *)
(*   Indicated     the codec that will be accepted is the one indicated,   *)
(*   Asked         the SEP asked for is in the list.                       *)
(* Each handler has a lemma that it keeps them, and the type of the record *)
(* with them.                                                              *)
(***************************************************************************)
EXTENDS CodecNegotiation, SequenceTheorems, FiniteSetTheorems, TLAPS

\* The type of the record.
States == {"init", "opening", "incoming", "open", "closing"}
Commands == {"none", "discover", "getcap", "open"}
Configs == Codecs \cup {"unsup"}
Entries == [idx : Nat \ {0}, codec : Codecs]
Settings == Configs \cup {"none", "unset"}
CoRecords == [as : {"none", "source", "sink"}, n : Nat, rx : Nat, srcs : Seq(Entries)]
EpRecords == [st : {"idle", "requested", "indicated", "conf", "opening", "open"},
              codec : Settings]
Messages == [ev : {"DISC_OK"}, arg : Offers] \cup [ev : {"GETCAP_OK"}, arg : Kinds]
            \cup [ev : {"CONFIG_IND"}, arg : Configs]
            \cup [ev : {"DISC_FAIL", "GETCAP_FAIL", "OPEN_OK", "OPEN_FAIL", "CI_OK", "CI_FAIL",
                        "CLOSE", "CLOSED", "DISCONNECT", "SIG_DOWN"}, arg : {"none"}]
Records == [state : States, failed : BOOLEAN, seps : Seq(Kinds), idx : Nat \ {0},
            cfg : Settings, pcap : BOOLEAN, co : CoRecords, op : Commands, up : BOOLEAN,
            own : BOOLEAN, conn : BOOLEAN, ep : EpRecords, dec : Settings,
            q : Seq(Messages), stale : BOOLEAN, tries : Nat]

\* The SEP that is asked for is in the list.
Asked(v) == v.state = "opening" /\ v.op = "getcap" =>
                v.idx \in DOMAIN v.seps /\ v.seps[v.idx] # "other"

IsAnswer(m) == m.ev \in {"DISC_OK", "GETCAP_OK"}
IsConfig(m) == m.ev = "CONFIG_IND"

\* Of the discovery and the capabilities of a search one answer waits, or a command does.
OneQuestion(v) ==
    v.state = "opening" =>
       /\ \A i, j \in 1..Len(v.q) : IsAnswer(v.q[i]) /\ IsAnswer(v.q[j]) => i = j
       /\ v.op # "none" => \A i \in 1..Len(v.q) : ~IsAnswer(v.q[i])

\* A configuration that waits is the only one, and no answer is before it.  An
\* endpoint whose channel went down meanwhile is idle.
OneConfig(v) ==
    /\ \A i, j \in 1..Len(v.q) : IsConfig(v.q[i]) /\ IsConfig(v.q[j]) => i = j
    /\ \A i \in 1..Len(v.q) :
         IsConfig(v.q[i]) =>
            /\ v.state # "incoming"
            /\ v.ep.st = "idle" \/ (v.ep.st = "indicated" /\ v.ep.codec = v.q[i].arg)
            /\ v.state = "opening" => /\ v.up => v.ep.st = "indicated"
                                      /\ \A j \in 1..i : ~IsAnswer(v.q[j])

\* AVDT_OpenReq sets the endpoint with the command.
Requested(v) == v.op = "open" => v.ep.st = "requested"

\* The decoder has the codec of the endpoint, for good.
Configured(v) ==
    v.ep.st \notin {"idle", "indicated"} =>
       /\ v.dec = v.ep.codec
       /\ v.state = "opening" => /\ v.op \notin {"discover", "getcap"}
                                 /\ \A i \in 1..Len(v.q) : ~IsAnswer(v.q[i])

\* What bta_av_setconfig_rsp will give the decoder.
Indicated(v) == v.state = "incoming" /\ v.ep.st # "idle" => v.ep.codec = v.cfg

Settled(v) == /\ Asked(v) /\ OneQuestion(v) /\ OneConfig(v)
              /\ Requested(v) /\ Configured(v) /\ Indicated(v)

-----------------------------------------------------------------------------
(* Queues and messages *)

\* What a non-empty queue has at its head and leaves behind it.
LEMMA QueueStep ==
  ASSUME NEW S, NEW q \in Seq(S)
  PROVE  /\ Len(q) \in Nat /\ DOMAIN q = 1..Len(q)
         /\ \A i \in 1..Len(q) : q[i] \in S
         /\ q # << >> => /\ 1 \in 1..Len(q) /\ Head(q) = q[1] /\ Head(q) \in S
                         /\ Tail(q) \in Seq(S) /\ Len(Tail(q)) = Len(q) - 1
                         /\ \A i \in 1..Len(Tail(q)) :
                               Tail(q)[i] = q[i + 1] /\ i + 1 \in 1..Len(q)
<1>1. Len(q) \in Nat /\ DOMAIN q = 1..Len(q) /\ (q # << >> => Len(q) > 0)
  BY LenProperties, EmptySeq
<1>2. \A i \in 1..Len(q) : q[i] \in S
  BY ElementOfSeq
<1>3. ASSUME q # << >>
      PROVE  /\ 1 \in 1..Len(q) /\ Head(q) = q[1] /\ Head(q) \in S
             /\ Tail(q) \in Seq(S) /\ Len(Tail(q)) = Len(q) - 1
             /\ \A i \in 1..Len(Tail(q)) : Tail(q)[i] = q[i + 1] /\ i + 1 \in 1..Len(q)
  <2>1. /\ Head(q) \in S /\ Tail(q) \in Seq(S) /\ Len(Tail(q)) = Len(q) - 1
        /\ \A i \in 1..Len(Tail(q)) : Tail(q)[i] = q[i + 1]
    BY <1>3, HeadTailProperties
  <2>2. 1 \in 1..Len(q) /\ \A i \in 1..Len(Tail(q)) : i + 1 \in 1..Len(q)
    BY <1>1, <1>3, <2>1
  <2>3. Head(q) = q[1]
    BY <1>3
  <2> QED
    BY <2>1, <2>2, <2>3
<1> QED
  BY <1>1, <1>2, <1>3

LEMMA QueueAppend ==
  ASSUME NEW S, NEW q \in Seq(S), NEW x \in S, NEW r, r = Append(q, x)
  PROVE  /\ r \in Seq(S) /\ Len(r) = Len(q) + 1 /\ Len(q) \in Nat
         /\ \A i \in 1..Len(r) : \/ i \in 1..Len(q) /\ r[i] = q[i]
                                 \/ i = Len(q) + 1 /\ r[i] = x
         /\ \A i \in 1..Len(q) : i \in 1..Len(r) /\ r[i] = q[i]
<1>1. /\ r \in Seq(S) /\ Len(r) = Len(q) + 1 /\ Len(q) \in Nat
      /\ \A i \in 1..Len(q) : r[i] = q[i]
      /\ r[Len(q) + 1] = x
  BY AppendProperties, LenProperties
<1>2. ASSUME NEW i \in 1..Len(r)
      PROVE  \/ i \in 1..Len(q) /\ r[i] = q[i]
             \/ i = Len(q) + 1 /\ r[i] = x
  <2>1. i \in 1..Len(q) \/ i = Len(q) + 1
    BY <1>1
  <2> QED
    BY <1>1, <2>1
<1>3. \A i \in 1..Len(q) : i \in 1..Len(r)
  BY <1>1
<1> QED
  BY <1>1, <1>2, <1>3

PlainEvents == {"DISC_FAIL", "GETCAP_FAIL", "OPEN_OK", "OPEN_FAIL", "CI_OK", "CI_FAIL",
                "CLOSE", "CLOSED", "DISCONNECT", "SIG_DOWN"}

\* What the handlers of the stream are given: a message, or nothing.
Reports == Messages \cup {Msg("none", "none")}

LEMMA MessageArgs ==
  ASSUME NEW m \in Reports
  PROVE  /\ m.ev = "DISC_OK" => m.arg \in Offers
         /\ m.ev = "GETCAP_OK" => m.arg \in Kinds
         /\ m.ev = "CONFIG_IND" => m.arg \in Configs
         /\ \/ m.ev \in PlainEvents \/ m.ev = "none" \/ IsAnswer(m) \/ IsConfig(m)
BY DEF Messages, Reports, Msg, PlainEvents, IsAnswer, IsConfig

LEMMA PlainMessage ==
  ASSUME NEW ev \in PlainEvents
  PROVE  /\ Msg(ev, "none") \in Messages
         /\ ~IsAnswer(Msg(ev, "none")) /\ ~IsConfig(Msg(ev, "none"))
BY DEF PlainEvents, Messages, Msg, IsAnswer, IsConfig

\* Of what is behind a queue, nothing is an answer or a configuration.
PlainAdded(q, r) ==
    /\ Len(q) \in Nat /\ Len(r) \in Nat /\ Len(q) <= Len(r)
    /\ \A i \in 1..Len(r) : \/ i \in 1..Len(q) /\ r[i] = q[i]
                            \/ ~IsAnswer(r[i]) /\ ~IsConfig(r[i])

LEMMA PlainAppend ==
  ASSUME NEW q \in Seq(Messages), NEW m \in Messages, ~IsAnswer(m), ~IsConfig(m)
  PROVE  PlainAdded(q, Append(q, m))
<1> DEFINE r == Append(q, m)
<1>1. /\ Len(r) = Len(q) + 1 /\ Len(q) \in Nat
      /\ \A i \in 1..Len(r) : \/ i \in 1..Len(q) /\ r[i] = q[i]
                              \/ i = Len(q) + 1 /\ r[i] = m
  BY QueueAppend
<1> HIDE DEF r
<1>2. Len(r) \in Nat /\ Len(q) <= Len(r)
  BY <1>1
<1>3. PlainAdded(q, r)
  BY <1>1, <1>2 DEF PlainAdded
<1> QED
  BY <1>3 DEF r

LEMMA PlainConcat ==
  ASSUME NEW q \in Seq(Messages), NEW t \in Seq({Msg(ev, "none") : ev \in PlainEvents})
  PROVE  q \o t \in Seq(Messages) /\ PlainAdded(q, q \o t)
<1> DEFINE P == {Msg(ev, "none") : ev \in PlainEvents}
           r == q \o t
<1>1. \A m \in P : m \in Messages /\ ~IsAnswer(m) /\ ~IsConfig(m)
  BY PlainMessage
<1> HIDE DEF P
<1>2. /\ Len(q) \in Nat /\ Len(t) \in Nat
      /\ \A i \in 1..Len(t) : t[i] \in P
  BY LenProperties, ElementOfSeq DEF P
<1>3. t \in Seq(Messages)
  <2>1. t \in [1..Len(t) -> Messages]
    BY <1>1, <1>2, LenProperties DEF P
  <2> QED
    BY <1>2, <2>1, SeqDef
<1>4. /\ r \in Seq(Messages) /\ Len(r) = Len(q) + Len(t)
      /\ \A i \in 1..Len(q) + Len(t) : r[i] = IF i <= Len(q) THEN q[i] ELSE t[i - Len(q)]
  BY <1>3, ConcatProperties
<1> HIDE DEF r
<1>5. ASSUME NEW i \in 1..Len(r)
      PROVE  \/ i \in 1..Len(q) /\ r[i] = q[i]
             \/ ~IsAnswer(r[i]) /\ ~IsConfig(r[i])
  <2>1. CASE i <= Len(q)
    BY <1>2, <1>4, <2>1
  <2>2. CASE ~(i <= Len(q))
    <3>1. i \in 1..Len(q) + Len(t) /\ r[i] = t[i - Len(q)]
      BY <1>4, <2>2
    <3>2. i - Len(q) \in 1..Len(t)
      BY <1>2, <2>2, <3>1
    <3> QED
      BY <1>1, <1>2, <3>1, <3>2
  <2> QED
    BY <2>1, <2>2
<1>6. Len(r) \in Nat /\ Len(q) <= Len(r)
  BY <1>2, <1>4
<1>7. PlainAdded(q, r)
  BY <1>2, <1>5, <1>6 DEF PlainAdded
<1> QED
  BY <1>4, <1>7 DEF r

LEMMA Posted ==
  ASSUME NEW v \in Records, NEW ev, NEW arg, Msg(ev, arg) \in Messages
  PROVE  /\ Post(v, ev, arg) \in Records
         /\ Post(v, ev, arg).q = Append(v.q, Msg(ev, arg))
         /\ \A f \in {"state", "seps", "idx", "cfg", "op", "up", "ep", "dec", "co", "stale"} :
               Post(v, ev, arg)[f] = v[f]
<1>1. Append(v.q, Msg(ev, arg)) \in Seq(Messages)
  BY AppendProperties DEF Records
<1> QED
  BY <1>1 DEF Post, Records

\* Settled after a plain message has been posted.
LEMMA PlainPosted ==
  ASSUME NEW v \in Records, NEW w \in Records, Settled(v), NEW m \in Messages,
         ~IsAnswer(m), ~IsConfig(m), w.q = Append(v.q, m),
         w.state = v.state, w.seps = v.seps, w.idx = v.idx, w.cfg = v.cfg, w.op = v.op,
         w.up = v.up, w.ep = v.ep, w.dec = v.dec
  PROVE  Settled(w)
<1>1. v.q \in Seq(Messages)
  BY DEF Records
<1>2. \A i \in 1..Len(w.q) : \/ i \in 1..Len(v.q) /\ w.q[i] = v.q[i]
                             \/ i = Len(v.q) + 1 /\ w.q[i] = m
  BY <1>1, QueueAppend
<1>3. \A i \in 1..Len(w.q) : /\ IsAnswer(w.q[i]) => i \in 1..Len(v.q) /\ w.q[i] = v.q[i]
                             /\ IsConfig(w.q[i]) => i \in 1..Len(v.q) /\ w.q[i] = v.q[i]
  BY <1>2
<1>4. Len(v.q) \in Nat /\ Len(w.q) = Len(v.q) + 1
  BY <1>1, QueueAppend
<1>5. \A i \in 1..Len(v.q) : \A j \in 1..i : j \in 1..Len(w.q) /\ (IsAnswer(w.q[j]) => IsAnswer(v.q[j]))
  BY <1>2, <1>3, <1>4
<1>6. Asked(w) /\ Requested(w) /\ Indicated(w)
  BY DEF Settled, Asked, Requested, Indicated
<1>7. OneQuestion(w)
  BY <1>3 DEF Settled, OneQuestion
<1>8. OneConfig(w)
  BY <1>3, <1>5 DEF Settled, OneConfig
<1>9. Configured(w)
  BY <1>3 DEF Settled, Configured
<1> QED
  BY <1>6, <1>7, <1>8, <1>9 DEF Settled

-----------------------------------------------------------------------------
(* Steps of the record *)

\* The stream leaves off: no state is entered that promises anything.
LEMMA LeftOff ==
  ASSUME NEW v \in Records, NEW w \in Records, Settled(v),
         w.q = v.q, w.op = v.op, w.up = v.up, w.ep = v.ep, w.dec = v.dec, w.cfg = v.cfg,
         w.state \in {v.state, "init", "open", "closing"},
         w.state = "opening" => w.seps = v.seps /\ w.idx = v.idx
  PROVE  Settled(w)
<1>1. Asked(w) /\ Requested(w) /\ Indicated(w)
  BY DEF Settled, Asked, Requested, Indicated
<1>2. OneQuestion(w)
  BY DEF Settled, OneQuestion
<1>3. OneConfig(w)
  BY DEF Settled, OneConfig
<1>4. Configured(w)
  BY DEF Settled, Configured
<1> QED
  BY <1>1, <1>2, <1>3, <1>4 DEF Settled

\* Outside a search a question may be asked, and the list and the index may move.
LEMMA AskedOutside ==
  ASSUME NEW v \in Records, NEW w \in Records, Settled(v), v.state # "opening",
         w.q = v.q, w.ep = v.ep, w.dec = v.dec, w.cfg = v.cfg, w.state = v.state,
         w.op = v.op \/ w.op \in {"discover", "getcap"}
  PROVE  Settled(w)
<1>1. Asked(w) /\ Requested(w) /\ Indicated(w) /\ Configured(w)
  BY DEF Settled, Asked, Requested, Indicated, Configured
<1>2. OneQuestion(w) /\ OneConfig(w)
  BY DEF Settled, OneQuestion, OneConfig
<1> QED
  BY <1>1, <1>2 DEF Settled

\* A configuration that the device asked for is refused.
LEMMA Refused ==
  ASSUME NEW v \in Records, NEW w \in Records, Settled(v),
         w.q = v.q, w.op = v.op, w.dec = v.dec, w.cfg = v.cfg,
         v.ep.st = "indicated", w.ep = EpIdle, w.state \notin {"opening", "incoming"}
  PROVE  Settled(w)
<1>1. Asked(w) /\ Requested(w) /\ Indicated(w)
  BY DEF Settled, Asked, Requested, Indicated
<1>2. OneQuestion(w)
  BY DEF Settled, OneQuestion
<1>3. OneConfig(w)
  BY DEF Settled, OneConfig, EpIdle
<1>4. Configured(w)
  BY DEF Configured, EpIdle
<1> QED
  BY <1>1, <1>2, <1>3, <1>4 DEF Settled

\* The handler of an answer asks for the capabilities of the next SEP.
LEMMA NextAsked ==
  ASSUME NEW v \in Records, NEW w \in Records, Settled(v),
         \A i \in 1..Len(v.q) : ~IsAnswer(v.q[i]) /\ ~IsConfig(v.q[i]),
         v.op = "none", v.ep.st \in {"idle", "indicated"},
         w.q = v.q, w.op = "getcap", w.ep = v.ep, w.state = "opening",
         w.idx \in DOMAIN w.seps, w.seps[w.idx] # "other"
  PROVE  Settled(w)
<1>1. Asked(w) /\ Requested(w) /\ Indicated(w) /\ Configured(w)
  BY DEF Settled, Asked, Requested, Indicated, Configured
<1>2. OneQuestion(w) /\ OneConfig(w)
  BY DEF OneQuestion, OneConfig
<1> QED
  BY <1>1, <1>2 DEF Settled

\* ... or asks for the stream with the codec it has just configured the decoder for.
LEMMA OpenAsked ==
  ASSUME NEW v \in Records, NEW w \in Records, Settled(v),
         \A i \in 1..Len(v.q) : ~IsAnswer(v.q[i]) /\ ~IsConfig(v.q[i]),
         w.q = v.q, w.op = "open", w.ep = [st |-> "requested", codec |-> w.dec],
         w.state = "opening"
  PROVE  Settled(w)
BY DEF Settled, Asked, Requested, Indicated, Configured, OneQuestion, OneConfig

\* The decoder is configured, but no stream is asked for.
LEMMA DecoderOnly ==
  ASSUME NEW v \in Records, NEW w \in Records, Settled(v),
         v.op = "none", v.ep.st \in {"idle", "indicated"}, v.state = "opening",
         w.q = v.q, w.op = v.op, w.up = v.up, w.ep = v.ep, w.state = v.state
  PROVE  Settled(w)
<1>1. Asked(w) /\ Requested(w) /\ Indicated(w) /\ Configured(w)
  BY DEF Settled, Asked, Requested, Indicated, Configured
<1>2. OneQuestion(w)
  BY DEF Settled, OneQuestion
<1>3. OneConfig(w)
  BY DEF Settled, OneConfig
<1> QED
  BY <1>1, <1>2, <1>3 DEF Settled

\* A configuration by the device is taken up.
LEMMA TakenUp ==
  ASSUME NEW v \in Records, NEW w \in Records, Settled(v), NEW c,
         \A i \in 1..Len(v.q) : ~IsConfig(v.q[i]),
         v.ep.st = "idle" \/ (v.ep.st = "indicated" /\ v.ep.codec = c),
         w.q = v.q, w.op = v.op, w.ep = v.ep, w.dec = v.dec, w.cfg = c, w.state = "incoming"
  PROVE  Settled(w)
<1>1. Asked(w) /\ Requested(w) /\ Indicated(w) /\ Configured(w)
  BY DEF Settled, Asked, Requested, Indicated, Configured
<1>2. OneQuestion(w)
  BY DEF Settled, OneQuestion
<1>3. OneConfig(w)
  BY DEF OneConfig
<1> QED
  BY <1>1, <1>2, <1>3 DEF Settled

\* ... and accepted: the decoder is configured for it.
LEMMA Accepted ==
  ASSUME NEW v \in Records, NEW w \in Records, Settled(v), v.state = "incoming",
         w.q = v.q, w.op = v.op, w.cfg = v.cfg, w.dec = v.cfg, w.state = v.state,
         w.ep = IF v.ep.st = "indicated" THEN [st |-> "conf", codec |-> v.ep.codec] ELSE v.ep
  PROVE  Settled(w)
<1>1. \A i \in 1..Len(v.q) : ~IsConfig(v.q[i])
  BY DEF Settled, OneConfig
<1>2. Asked(w) /\ OneConfig(w)
  BY <1>1 DEF Asked, OneConfig
<1>3. OneQuestion(w)
  BY DEF Settled, OneQuestion
<1>4. CASE v.ep.st = "indicated"
  <2>1. w.ep.st = "conf" /\ w.ep.codec = v.ep.codec
    BY <1>4
  <2> QED
    BY <1>2, <1>3, <1>4, <2>1 DEF Settled, Requested, Indicated, Configured
<1>5. CASE v.ep.st # "indicated"
  BY <1>2, <1>3, <1>5 DEF Settled, Requested, Indicated, Configured
<1> QED
  BY <1>4, <1>5

-----------------------------------------------------------------------------
(* The operations of the stream *)

\* The fields that Settled is about, but for the state.
Same(v, w) == /\ w.q = v.q /\ w.op = v.op /\ w.up = v.up /\ w.ep = v.ep /\ w.dec = v.dec
              /\ w.cfg = v.cfg /\ w.seps = v.seps /\ w.idx = v.idx

LEMMA CleaningUp ==
  ASSUME NEW v \in Records
  PROVE  /\ \A s \in States : Go(v, s) \in Records /\ Same(v, Go(v, s)) /\ Go(v, s).state = s
         /\ Cleanup(v) \in Records /\ Same(v, Cleanup(v)) /\ Cleanup(v).state = v.state
         /\ CcoClose(v) \in Records /\ Same(v, CcoClose(v)) /\ CcoClose(v).state = v.state
         /\ [v EXCEPT !.failed = TRUE] \in Records /\ Same(v, [v EXCEPT !.failed = TRUE])
         /\ [v EXCEPT !.failed = TRUE].state = v.state
         /\ StrOpened(v) \in Records /\ Same(v, StrOpened(v)) /\ StrOpened(v).state = v.state
         /\ DisconnectReq(v) \in Records /\ Same(v, DisconnectReq(v))
         /\ DisconnectReq(v).state = v.state
<1>1. \A s \in States : Go(v, s) \in Records /\ Same(v, Go(v, s)) /\ Go(v, s).state = s
  BY DEF Go, Records, Same
<1>2. Cleanup(v) \in Records /\ Same(v, Cleanup(v)) /\ Cleanup(v).state = v.state
  BY DEF Cleanup, Records, Same
<1>3. NoCo \in CoRecords
  <2>1. << >> \in Seq(Entries)
    OBVIOUS
  <2> QED
    BY <2>1 DEF NoCo, CoRecords
<1>4. CcoClose(v) \in Records /\ Same(v, CcoClose(v)) /\ CcoClose(v).state = v.state
  BY <1>3 DEF CcoClose, Records, Same
<1>5. /\ [v EXCEPT !.failed = TRUE] \in Records /\ Same(v, [v EXCEPT !.failed = TRUE])
      /\ [v EXCEPT !.failed = TRUE].state = v.state
  BY DEF Records, Same
<1>6. StrOpened(v) \in Records /\ Same(v, StrOpened(v)) /\ StrOpened(v).state = v.state
  BY DEF StrOpened, Records, Same
<1>7. /\ DisconnectReq(v) \in Records /\ Same(v, DisconnectReq(v))
      /\ DisconnectReq(v).state = v.state
  BY DEF DisconnectReq, Records, Same
<1> QED
  BY <1>1, <1>2, <1>4, <1>5, <1>6, <1>7

LEMMA Failing ==
  ASSUME NEW v \in Records
  PROVE  /\ StrClosed(v) \in Records /\ Same(v, StrClosed(v)) /\ StrClosed(v).state = v.state
         /\ ConnFailed(v) \in Records /\ Same(v, ConnFailed(v)) /\ ConnFailed(v).state = v.state
         /\ OpenFailed(v) \in Records /\ Same(v, OpenFailed(v)) /\ OpenFailed(v).state = v.state
<1>1. ASSUME NEW x \in Records
      PROVE  StrClosed(x) \in Records /\ Same(x, StrClosed(x)) /\ StrClosed(x).state = x.state
  <2>1. CASE x.failed
    BY <2>1, CleaningUp DEF StrClosed
  <2>2. CASE ~x.failed
    <3>1. /\ CcoClose(x) \in Records /\ Same(x, CcoClose(x)) /\ CcoClose(x).state = x.state
          /\ StrClosed(x) = Cleanup(CcoClose(x))
      BY <2>2, CleaningUp DEF StrClosed
    <3>2. /\ Cleanup(CcoClose(x)) \in Records /\ Same(CcoClose(x), Cleanup(CcoClose(x)))
          /\ Cleanup(CcoClose(x)).state = CcoClose(x).state
      BY <3>1, CleaningUp
    <3> QED
      BY <3>1, <3>2 DEF Same
  <2> QED
    BY <2>1, <2>2
<1> DEFINE y == [v EXCEPT !.failed = TRUE]
<1>2. y \in Records /\ Same(v, y) /\ y.state = v.state
  BY CleaningUp
<1>3. ConnFailed(v) = StrClosed(y) /\ OpenFailed(v) = DisconnectReq(CcoClose(y))
  BY DEF ConnFailed, OpenFailed
<1> HIDE DEF y
<1>4. /\ StrClosed(y) \in Records /\ Same(y, StrClosed(y)) /\ StrClosed(y).state = y.state
      /\ CcoClose(y) \in Records /\ Same(y, CcoClose(y)) /\ CcoClose(y).state = y.state
  BY <1>1, <1>2, CleaningUp
<1>5. LET d == DisconnectReq(CcoClose(y))
      IN  d \in Records /\ Same(CcoClose(y), d) /\ d.state = CcoClose(y).state
  BY <1>4, CleaningUp
<1> QED
  BY <1>1, <1>2, <1>3, <1>4, <1>5 DEF Same

\* In the opening state, the only one in which it is called for.
LEMMA SearchFailing ==
  ASSUME NEW v \in Records, v.state = "opening"
  PROVE  SearchFails(v) \in Records /\ Same(v, SearchFails(v)) /\ SearchFails(v).state = "closing"
<1>1. "closing" \in States
  BY DEF States
<1>2. Go(v, "closing") \in Records /\ Same(v, Go(v, "closing")) /\ Go(v, "closing").state = "closing"
  BY <1>1, CleaningUp
<1>3. SearchFails(v) = OpenFailed(Go(v, "closing"))
  BY DEF SearchFails
<1> QED
  BY <1>2, <1>3, Failing DEF Same

LEMMA Disconnecting ==
  ASSUME NEW v \in Records
  PROVE  /\ Disconnect(v) \in Records /\ Same(v, Disconnect(v))
         /\ Disconnect(v).state \in {v.state, "init"}
<1> DEFINE g == Go(v, "init")
<1>1. "init" \in States
  BY DEF States
<1>2. g \in Records /\ Same(v, g) /\ g.state = "init"
  BY <1>1, CleaningUp
<1>3. Disconnect(v) \in {DisconnectReq(v), StrClosed(g)}
  BY DEF Disconnect
<1> HIDE DEF g
<1>4. StrClosed(g) \in Records /\ Same(g, StrClosed(g)) /\ StrClosed(g).state = g.state
  BY <1>2, Failing
<1>5. /\ DisconnectReq(v) \in Records /\ Same(v, DisconnectReq(v))
      /\ DisconnectReq(v).state = v.state
  BY CleaningUp
<1> QED
  BY <1>2, <1>3, <1>4, <1>5 DEF Same

\* What a question changes.
LEMMA Questioning ==
  ASSUME NEW v \in Records, NEW op \in {"discover", "getcap"}
  PROVE  LET w == Ask(v, op)
         IN  /\ w \in Records /\ w.state = v.state /\ w.q = v.q /\ w.ep = v.ep
             /\ w.dec = v.dec /\ w.cfg = v.cfg /\ w.seps = v.seps /\ w.idx = v.idx
             /\ w.co = v.co /\ w.stale = v.stale
             /\ w.op = IF v.op = "none" THEN op ELSE v.op
<1>1. CASE v.op # "none"
  BY <1>1 DEF Ask
<1>2. CASE v.op = "none"
  <2> DEFINE w == [v EXCEPT !.op = op, !.up = TRUE, !.own = @ /\ v.up]
  <2>1. Ask(v, op) = w
    BY <1>2 DEF Ask
  <2>2. (v.own /\ v.up) \in BOOLEAN /\ op \in Commands
    BY DEF Commands
  <2>3. /\ w \in Records /\ w.state = v.state /\ w.q = v.q /\ w.ep = v.ep
        /\ w.dec = v.dec /\ w.cfg = v.cfg /\ w.seps = v.seps /\ w.idx = v.idx
        /\ w.co = v.co /\ w.stale = v.stale /\ w.op = op
    BY <2>2 DEF Records
  <2> HIDE DEF w
  <2> QED
    BY <1>2, <2>1, <2>3
<1> QED
  BY <1>1, <1>2

\* The first SEP to be asked for is one, if there is any.
LEMMA FirstCandidate ==
  ASSUME NEW v \in Records, Candidates(v) # {}
  PROVE  /\ Min(Candidates(v)) \in Candidates(v) /\ Min(Candidates(v)) \in Nat
         /\ \A i \in Candidates(v) : Min(Candidates(v)) <= i
<1> DEFINE R == OpToRel(<, Nat)
           C == Candidates(v)
<1>1. v.idx \in Nat /\ v.seps \in Seq(Kinds)
  BY DEF Records
<1>2. C \subseteq Nat
  <2>1. \A i \in C : i \in v.idx..Len(v.seps)
    BY DEF Candidates
  <2> QED
    BY <2>1, <1>1
<1>3. \A m, n \in Nat : m < n => << m, n >> \in R
  BY DEF OpToRel
<1>4. IsWellFoundedOn(R, Nat)
  BY NatLessThanWellFounded
<1> HIDE DEF R, C
<1>5. PICK i \in C : \A j \in C : ~ (<< j, i >> \in R)
  BY <1>2, <1>4, WFMin DEF C
<1>6. ASSUME NEW j \in C PROVE i <= j
  <2>1. i \in Nat /\ j \in Nat /\ ~(j < i)
    BY <1>2, <1>3, <1>5
  <2> QED
    BY <2>1
<1>7. Min(C) \in C /\ \A j \in C : Min(C) <= j
  BY <1>6 DEF Min
<1> QED
  BY <1>2, <1>7 DEF C

LEMMA FirstInList ==
  ASSUME NEW v \in Records, Candidates(v) # {}
  PROVE  LET i == Min(Candidates(v))
         IN  i \in DOMAIN v.seps /\ v.seps[i] # "other" /\ i \in Nat \ {0}
<1> DEFINE i == Min(Candidates(v))
<1>1. i \in Candidates(v) /\ i \in Nat
  BY FirstCandidate
<1>2. v.idx \in Nat \ {0} /\ Len(v.seps) \in Nat /\ DOMAIN v.seps = 1..Len(v.seps)
  BY QueueStep DEF Records
<1>3. i \in v.idx..Len(v.seps) /\ v.seps[i] # "other"
  BY <1>1 DEF Candidates
<1> HIDE DEF i
<1>4. i \in DOMAIN v.seps /\ v.seps[i] # "other" /\ i \in Nat \ {0}
  BY <1>1, <1>2, <1>3
<1> QED
  BY <1>4 DEF i

\* It asks, or the search, if there is one, has failed.
LEMMA NextGetcapStep ==
  ASSUME NEW v \in Records, NEW r
  PROVE  LET w == NextGetcap(v, r)
         IN  /\ w \in Records
             /\ w.q = v.q /\ w.ep = v.ep /\ w.dec = v.dec /\ w.cfg = v.cfg /\ w.seps = v.seps
             /\ \/ /\ w.state = IF v.state = "opening" THEN "closing" ELSE v.state
                   /\ w.op = v.op /\ w.up = v.up
                   /\ w.idx = IF Candidates(v) = {} THEN v.idx ELSE Min(Candidates(v))
                \/ /\ w.state = v.state /\ w.op = IF v.op = "none" THEN "getcap" ELSE v.op
                   /\ Candidates(v) # {} /\ w.idx = Min(Candidates(v))
<1> DEFINE i == IF Candidates(v) = {} THEN v.idx ELSE Min(Candidates(v))
           x == [v EXCEPT !.idx = i]
           y == [x EXCEPT !.pcap = TRUE]
<1>1. i \in Nat \ {0}
  BY FirstInList DEF Records
<1>2. NextGetcap(v, r) = IF Sends(v, r) THEN Ask(y, "getcap") ELSE SearchFails(x)
  BY DEF NextGetcap, Records
<1>3. Sends(v, r) => Candidates(v) # {}
  BY DEF Sends
<1> HIDE DEF i
<1>4. /\ x \in Records /\ x.state = v.state /\ x.q = v.q /\ x.ep = v.ep /\ x.dec = v.dec
      /\ x.cfg = v.cfg /\ x.op = v.op /\ x.up = v.up /\ x.seps = v.seps /\ x.idx = i
  BY <1>1 DEF Records
<1> HIDE DEF x
<1>5. /\ y \in Records /\ y.state = v.state /\ y.q = v.q /\ y.ep = v.ep /\ y.dec = v.dec
      /\ y.cfg = v.cfg /\ y.op = v.op /\ y.up = v.up /\ y.seps = v.seps /\ y.idx = i
  BY <1>4 DEF Records
<1> HIDE DEF y
<1>6. CASE Sends(v, r)
  <2> DEFINE w == Ask(y, "getcap")
  <2>1. /\ w \in Records /\ w.state = y.state /\ w.q = y.q /\ w.ep = y.ep
        /\ w.dec = y.dec /\ w.cfg = y.cfg /\ w.seps = y.seps /\ w.idx = y.idx
        /\ w.op = IF y.op = "none" THEN "getcap" ELSE y.op
    BY <1>5, Questioning
  <2> HIDE DEF w
  <2>2. NextGetcap(v, r) = w
    BY <1>2, <1>6 DEF w
  <2>3. w.idx = Min(Candidates(v))
    BY <1>3, <1>5, <1>6, <2>1 DEF i
  <2> QED
    BY <1>3, <1>5, <1>6, <2>1, <2>2, <2>3
<1>7. CASE ~Sends(v, r)
  <2> DEFINE w == SearchFails(x)
  <2>1. NextGetcap(v, r) = w
    BY <1>2, <1>7
  <2>2. CASE v.state = "opening"
    <3>1. w \in Records /\ Same(x, w) /\ w.state = "closing"
      BY <1>4, <2>2, SearchFailing
    <3> HIDE DEF w
    <3> QED
      BY <1>4, <2>1, <2>2, <3>1 DEF Same, i
  <2>3. CASE v.state # "opening"
    <3>1. w = x
      BY <1>4, <2>3 DEF SearchFails
    <3> HIDE DEF w
    <3> QED
      BY <1>4, <2>1, <2>3, <3>1 DEF i
  <2> QED
    BY <2>2, <2>3
<1> QED
  BY <1>6, <1>7

LEMMA SavedSrc ==
  ASSUME NEW co \in CoRecords, NEW k, NEW i \in Nat \ {0}
  PROVE  /\ SaveSrc(co, k, i) \in CoRecords
         /\ Takes(SaveSrc(co, k, i)) => FindPeerSrc(SaveSrc(co, k, i)) \in Entries
<1> DEFINE c == SaveSrc(co, k, i)
           e == [idx |-> i, codec |-> k]
<1>1. co.srcs \in Seq(Entries) /\ co.rx + 1 \in Nat
  BY DEF CoRecords
<1>2. k \in Codecs => Append(co.srcs, e) \in Seq(Entries)
  <2>1. k \in Codecs => e \in Entries
    BY DEF Entries
  <2> QED
    BY <1>1, <2>1, AppendProperties
<1>3. c \in CoRecords
  BY <1>1, <1>2 DEF SaveSrc, CoRecords
<1> HIDE DEF c
<1>4. ASSUME Takes(c) PROVE FindPeerSrc(c) \in Entries
  <2>1. c.srcs \in Seq(Entries) /\ c.srcs # << >>
    BY <1>3, <1>4 DEF CoRecords, Takes
  <2>2. Len(c.srcs) \in 1..Len(c.srcs)
    BY <2>1, EmptySeq, LenProperties
  <2> QED
    BY <2>1, <2>2, ElementOfSeq DEF FindPeerSrc, Last
<1> QED
  BY <1>3, <1>4 DEF c

\* What the handler of a message knows of the message and of the queue behind it.
Headed(v, m) ==
    /\ IsAnswer(m) /\ v.state = "opening" =>
          /\ v.op = "none" /\ v.ep.st \in {"idle", "indicated"}
          /\ \A i \in 1..Len(v.q) : ~IsAnswer(v.q[i]) /\ ~IsConfig(v.q[i])
    /\ IsConfig(m) =>
          /\ \A i \in 1..Len(v.q) : ~IsConfig(v.q[i])
          /\ v.ep.st = "idle" \/ (v.ep.st = "indicated" /\ v.ep.codec = m.arg)

LEMMA TakeMessage ==
  ASSUME u \in Records, Settled(u), u.q # << >>
  PROVE  LET v == [u EXCEPT !.q = Tail(@)]
             m == Head(u.q)
         IN  v \in Records /\ v.state = u.state /\ m \in Messages /\ Settled(v) /\ Headed(v, m)
<1> DEFINE v == [u EXCEPT !.q = Tail(@)]
           m == Head(u.q)
<1>1. u.q \in Seq(Messages)
  BY DEF Records
<1>2. /\ Len(u.q) \in Nat /\ 1 \in 1..Len(u.q) /\ m = u.q[1] /\ m \in Messages
      /\ Tail(u.q) \in Seq(Messages) /\ Len(Tail(u.q)) = Len(u.q) - 1
      /\ \A i \in 1..Len(Tail(u.q)) : Tail(u.q)[i] = u.q[i + 1] /\ i + 1 \in 1..Len(u.q)
  BY <1>1, QueueStep
<1>3. v \in Records /\ v.q = Tail(u.q) /\ Same([u EXCEPT !.q = v.q], v) /\ v.state = u.state
  BY <1>2 DEF Records, Same
<1>4. /\ v.state = u.state /\ v.op = u.op /\ v.up = u.up /\ v.ep = u.ep /\ v.dec = u.dec
      /\ v.cfg = u.cfg /\ v.seps = u.seps /\ v.idx = u.idx
  BY <1>2 DEF Records
<1> HIDE DEF v, m
<1>5. /\ Len(v.q) = Len(u.q) - 1
      /\ \A i \in 1..Len(v.q) : v.q[i] = u.q[i + 1] /\ i + 1 \in 1..Len(u.q) /\ i + 1 # 1
  <2>1. \A i \in 1..Len(v.q) : i + 1 # 1
    OBVIOUS
  <2> QED
    BY <1>2, <1>3, <2>1
<1>6. OneQuestion(v)
  <2>1. ASSUME NEW i \in 1..Len(v.q), NEW j \in 1..Len(v.q), v.state = "opening",
               IsAnswer(v.q[i]), IsAnswer(v.q[j])
        PROVE  i = j
    <3>1. i + 1 = j + 1
      BY <1>4, <1>5, <2>1 DEF Settled, OneQuestion
    <3> QED
      BY <3>1
  <2> QED
    BY <1>4, <1>5, <2>1 DEF Settled, OneQuestion
<1>7. OneConfig(v)
  <2>1. ASSUME NEW i \in 1..Len(v.q), NEW j \in 1..Len(v.q), IsConfig(v.q[i]), IsConfig(v.q[j])
        PROVE  i = j
    <3>1. i + 1 = j + 1
      BY <1>5, <2>1 DEF Settled, OneConfig
    <3> QED
      BY <3>1
  <2>2. ASSUME NEW i \in 1..Len(v.q), IsConfig(v.q[i])
        PROVE  /\ v.state # "incoming"
               /\ v.ep.st = "idle" \/ (v.ep.st = "indicated" /\ v.ep.codec = v.q[i].arg)
               /\ v.state = "opening" => /\ v.up => v.ep.st = "indicated"
                                         /\ \A j \in 1..i : ~IsAnswer(v.q[j])
    <3>1. i + 1 \in 1..Len(u.q) /\ IsConfig(u.q[i + 1]) /\ v.q[i] = u.q[i + 1]
      BY <1>5, <2>2
    <3>2. ASSUME u.state = "opening", NEW j \in 1..i PROVE ~IsAnswer(v.q[j])
      <4>1. j + 1 \in 1..(i + 1) /\ j \in 1..Len(v.q)
        BY <1>2, <1>5
      <4>2. ~IsAnswer(u.q[j + 1])
        BY <3>1, <3>2, <4>1 DEF Settled, OneConfig
      <4> QED
        BY <1>5, <4>1, <4>2
    <3> QED
      BY <1>4, <3>1, <3>2 DEF Settled, OneConfig
  <2> QED
    BY <2>1, <2>2 DEF OneConfig
<1>8. Asked(v) /\ Requested(v) /\ Configured(v) /\ Indicated(v)
  BY <1>4, <1>5 DEF Settled, Asked, Requested, Configured, Indicated
<1>9. IsAnswer(m) /\ v.state = "opening" =>
          /\ v.op = "none" /\ v.ep.st \in {"idle", "indicated"}
          /\ \A i \in 1..Len(v.q) : ~IsAnswer(v.q[i]) /\ ~IsConfig(v.q[i])
  <2> SUFFICES ASSUME IsAnswer(m), v.state = "opening"
               PROVE  /\ v.op = "none" /\ v.ep.st \in {"idle", "indicated"}
                      /\ \A i \in 1..Len(v.q) : ~IsAnswer(v.q[i]) /\ ~IsConfig(v.q[i])
    OBVIOUS
  <2>1. IsAnswer(u.q[1]) /\ 1 \in 1..Len(u.q)
    BY <1>2
  <2>2. v.op = "none" /\ \A i \in 1..Len(v.q) : ~IsAnswer(v.q[i])
    BY <1>4, <1>5, <2>1 DEF Settled, OneQuestion
  <2>3. ASSUME NEW i \in 1..Len(v.q) PROVE ~IsConfig(v.q[i])
    <3>1. 1 \in 1..(i + 1)
      OBVIOUS
    <3> QED
      BY <1>4, <1>5, <2>1, <2>3, <3>1 DEF Settled, OneConfig
  <2>4. v.ep.st \in {"idle", "indicated"}
    BY <1>4, <2>1 DEF Settled, Configured
  <2> QED
    BY <2>2, <2>3, <2>4
<1>10. IsConfig(m) =>
          /\ \A i \in 1..Len(v.q) : ~IsConfig(v.q[i])
          /\ v.ep.st = "idle" \/ (v.ep.st = "indicated" /\ v.ep.codec = m.arg)
  BY <1>2, <1>4, <1>5 DEF Settled, OneConfig
<1> QED
  BY <1>2, <1>3, <1>6, <1>7, <1>8, <1>9, <1>10 DEF Settled, Headed, v, m

\* The stream is told what is in the message, or of the end of the channel, or nothing.
LEMMA ToldReport ==
  ASSUME NEW m \in Messages, NEW m1, m1 = Told(u, m), NEW v
  PROVE  /\ m1 \in Reports /\ (m1 = m \/ (~IsAnswer(m1) /\ ~IsConfig(m1)))
         /\ Headed(v, m) => Headed(v, m1)
<1>1. CASE m.ev # "SIG_DOWN"
  <2>1. m1 = m
    BY <1>1 DEF Told
  <2> QED
    BY <2>1 DEF Reports
<1>2. CASE m.ev = "SIG_DOWN"
  <2>1. m1 = Msg("DISCONNECT", "none") \/ m1 = Msg("none", "none")
    BY <1>2 DEF Told
  <2>2. m1 \in Reports
    BY <2>1, PlainMessage DEF Reports, PlainEvents
  <2>3. ~IsAnswer(m1) /\ ~IsConfig(m1)
    BY <2>1 DEF Msg, IsAnswer, IsConfig
  <2> QED
    BY <2>2, <2>3 DEF Headed
<1> QED
  BY <1>1, <1>2

-----------------------------------------------------------------------------
(* The handlers of the messages *)

LEMMA OpenReqStep ==
  ASSUME NEW v \in Records, Settled(v), v.state = "opening", v.op = "none", v.dec = v.cfg,
         v.ep.st \in {"idle", "indicated"},
         \A i \in 1..Len(v.q) : ~IsAnswer(v.q[i]) /\ ~IsConfig(v.q[i])
  PROVE  OpenReq(v) \in Records /\ Settled(OpenReq(v))
<1>1. CASE ~v.up
  BY <1>1 DEF OpenReq
<1>2. CASE v.up /\ v.ep.st = "idle"
  <2> DEFINE w == [v EXCEPT !.op = "open", !.ep = [st |-> "requested", codec |-> v.cfg]]
  <2>1. [st |-> "requested", codec |-> v.cfg] \in EpRecords
    BY DEF Records, EpRecords
  <2>2. /\ w \in Records /\ w.q = v.q /\ w.op = "open" /\ w.state = "opening"
        /\ w.ep = [st |-> "requested", codec |-> w.dec]
    BY <2>1 DEF Records, Commands
  <2>3. OpenReq(v) = w
    BY <1>2 DEF OpenReq
  <2> HIDE DEF w
  <2> QED
    BY <2>2, <2>3, OpenAsked
<1>3. CASE v.up /\ v.ep.st # "idle"
  <2> DEFINE w == Post(v, "OPEN_FAIL", "none")
             m == Msg("OPEN_FAIL", "none")
  <2>1. m \in Messages /\ ~IsAnswer(m) /\ ~IsConfig(m)
    BY PlainMessage DEF PlainEvents
  <2>2. w \in Records /\ w.q = Append(v.q, m)
        /\ \A f \in {"state", "seps", "idx", "cfg", "op", "up", "ep", "dec", "co", "stale"} :
              w[f] = v[f]
    BY <2>1, Posted
  <2>3. OpenReq(v) = w
    BY <1>3 DEF OpenReq
  <2> HIDE DEF w, m
  <2>4. /\ w.state = v.state /\ w.seps = v.seps /\ w.idx = v.idx /\ w.cfg = v.cfg
        /\ w.op = v.op /\ w.up = v.up /\ w.ep = v.ep /\ w.dec = v.dec
    BY <2>2
  <2> QED
    BY <2>1, <2>2, <2>3, <2>4, PlainPosted
<1> QED
  BY <1>1, <1>2, <1>3

\* What the next question leaves: the list and the index of x need not be those of v.
LEMMA Searching ==
  ASSUME NEW v \in Records, NEW x \in Records, Settled(v), v.state = "opening", v.op = "none",
         v.ep.st \in {"idle", "indicated"},
         \A i \in 1..Len(v.q) : ~IsAnswer(v.q[i]) /\ ~IsConfig(v.q[i]),
         x.state = v.state, x.q = v.q, x.op = v.op, x.up = v.up, x.ep = v.ep, x.dec = v.dec,
         x.cfg = v.cfg, NEW r
  PROVE  NextGetcap(x, r) \in Records /\ Settled(NextGetcap(x, r))
<1> DEFINE w == NextGetcap(x, r)
           i == Min(Candidates(x))
<1>1. /\ w \in Records
      /\ w.q = x.q /\ w.ep = x.ep /\ w.dec = x.dec /\ w.cfg = x.cfg /\ w.seps = x.seps
      /\ \/ w.state = "closing" /\ w.op = x.op /\ w.up = x.up
         \/ w.state = x.state /\ w.op = "getcap" /\ Candidates(x) # {} /\ w.idx = i
  BY NextGetcapStep
<1>2. Candidates(x) # {} => i \in DOMAIN x.seps /\ x.seps[i] # "other"
  BY FirstInList
<1> HIDE DEF w, i
<1>3. CASE w.state = "closing" /\ w.op = x.op /\ w.up = x.up
  BY <1>1, <1>3, LeftOff DEF w
<1>4. CASE w.state = x.state /\ w.op = "getcap" /\ Candidates(x) # {} /\ w.idx = i
  BY <1>1, <1>2, <1>4, NextAsked DEF w
<1> QED
  BY <1>1, <1>3, <1>4

\* ... and outside a search.
LEMMA AskingOn ==
  ASSUME NEW v \in Records, NEW x \in Records, Settled(v), v.state # "opening",
         x.state = v.state, x.q = v.q, x.op = v.op, x.ep = v.ep, x.dec = v.dec,
         x.cfg = v.cfg, NEW r
  PROVE  NextGetcap(x, r) \in Records /\ Settled(NextGetcap(x, r))
<1> DEFINE w == NextGetcap(x, r)
<1>1. /\ w \in Records
      /\ w.q = x.q /\ w.ep = x.ep /\ w.dec = x.dec /\ w.cfg = x.cfg
      /\ w.state = x.state /\ (w.op = x.op \/ w.op = "getcap")
  BY NextGetcapStep
<1> HIDE DEF w
<1>2. Settled(w)
  BY <1>1, AskedOutside
<1> QED
  BY <1>1, <1>2 DEF w

\* A new list in the record.
WithList(v, offer, role, n) ==
    [v EXCEPT !.seps = offer, !.idx = IF offer = << >> THEN v.idx ELSE 1,
              !.co = DiscRes(v.co, role, n)]

LEMMA Listed ==
  ASSUME NEW v \in Records, NEW offer \in Offers, NEW role \in {"source", "sink"}, NEW n \in Nat
  PROVE  LET w == WithList(v, offer, role, n)
         IN  /\ w \in Records /\ w.state = v.state /\ w.q = v.q /\ w.op = v.op /\ w.up = v.up
             /\ w.ep = v.ep /\ w.dec = v.dec /\ w.cfg = v.cfg /\ w.stale = v.stale
             /\ w.seps = offer /\ (offer # << >> => w.idx = 1)
             /\ w.co.n = n /\ w.co.rx = 0 /\ w.co.srcs = v.co.srcs
<1> DEFINE i == IF offer = << >> THEN v.idx ELSE 1
           co == DiscRes(v.co, role, n)
           w == [v EXCEPT !.seps = offer, !.idx = i, !.co = co]
<1>1. offer \in Seq(Kinds) /\ v.co \in CoRecords
  BY OffersAssumption DEF Records
<1>2. co \in CoRecords /\ co.n = n /\ co.rx = 0 /\ co.srcs = v.co.srcs
  BY <1>1 DEF DiscRes, CoRecords
<1>3. i \in Nat \ {0} /\ (offer # << >> => i = 1)
  BY DEF Records
<1>4. w = WithList(v, offer, role, n)
  BY DEF WithList
<1> HIDE DEF co, i
<1>5. /\ w \in Records /\ w.state = v.state /\ w.q = v.q /\ w.op = v.op /\ w.up = v.up
      /\ w.ep = v.ep /\ w.dec = v.dec /\ w.cfg = v.cfg /\ w.stale = v.stale
      /\ w.seps = offer /\ w.idx = i /\ w.co = co
  BY <1>1, <1>2, <1>3 DEF Records
<1> HIDE DEF w
<1> QED
  BY <1>2, <1>3, <1>4, <1>5

\* In a search and outside one.
LEMMA DiscoveredStep ==
  ASSUME NEW v \in Records, Settled(v), NEW offer \in Offers, NEW role \in {"source", "sink"},
         NEW n \in Nat, NEW r,
         v.state = "opening" =>
            /\ v.op = "none" /\ v.ep.st \in {"idle", "indicated"}
            /\ \A i \in 1..Len(v.q) : ~IsAnswer(v.q[i]) /\ ~IsConfig(v.q[i])
  PROVE  Discovered(v, offer, role, n, r) \in Records /\ Settled(Discovered(v, offer, role, n, r))
<1> DEFINE x == WithList(v, offer, role, n)
<1>1. Discovered(v, offer, role, n, r) = IF offer = << >> THEN SearchFails(x) ELSE NextGetcap(x, r)
  BY DEF Discovered, WithList, Records
<1>2. x \in Records /\ x.state = v.state /\ x.q = v.q /\ x.op = v.op /\ x.up = v.up
  BY Listed
<1>3. x.ep = v.ep /\ x.dec = v.dec /\ x.cfg = v.cfg
  BY Listed
<1> HIDE DEF x
<1>4. NextGetcap(x, r) \in Records /\ Settled(NextGetcap(x, r))
  BY <1>2, <1>3, Searching, AskingOn
<1>5. SearchFails(x) \in Records /\ Settled(SearchFails(x))
  <2>1. CASE x.state = "opening"
    BY <1>2, <1>3, <2>1, SearchFailing, LeftOff DEF Same
  <2>2. CASE x.state # "opening"
    BY <1>2, <1>3, <2>2, AskedOutside DEF SearchFails
  <2> QED
    BY <2>1, <2>2
<1> QED
  BY <1>1, <1>4, <1>5

LEMMA SepsCount ==
  ASSUME NEW offer \in Offers
  PROVE  Cardinality({i \in DOMAIN offer : offer[i] # "other"}) \in Nat
<1>1. offer \in Seq(Kinds)
  BY OffersAssumption
<1>2. DOMAIN offer = 1..Len(offer) /\ Len(offer) \in Nat
  BY <1>1, QueueStep
<1>3. IsFiniteSet(1..Len(offer))
  BY <1>2, FS_Interval
<1>4. IsFiniteSet({i \in DOMAIN offer : offer[i] # "other"})
  BY <1>2, <1>3, FS_Subset
<1> QED
  BY <1>4, FS_CardinalityType

\* The history is noted first.
LEMMA Noted ==
  ASSUME NEW v \in Records
  PROVE  LET w == [v EXCEPT !.stale = v.co.srcs # << >>]
         IN  /\ w \in Records /\ Same(v, w) /\ w.state = v.state /\ w.co = v.co
             /\ w.stale = (v.co.srcs # << >>)
<1> DEFINE b == (v.co.srcs # << >>)
<1>1. b \in BOOLEAN
  OBVIOUS
<1> HIDE DEF b
<1>2. LET w == [v EXCEPT !.stale = b]
      IN  /\ w \in Records /\ Same(v, w) /\ w.state = v.state /\ w.co = v.co /\ w.stale = b
  BY <1>1 DEF Records, Same
<1> QED
  BY <1>2 DEF b

LEMMA DiscResultsStep ==
  ASSUME NEW v \in Records, Settled(v), v.state = "opening", v.op = "none",
         v.ep.st \in {"idle", "indicated"},
         \A i \in 1..Len(v.q) : ~IsAnswer(v.q[i]) /\ ~IsConfig(v.q[i]),
         NEW offer \in Offers, NEW r
  PROVE  DiscResults(v, offer, r) \in Records /\ Settled(DiscResults(v, offer, r))
<1> DEFINE n == Cardinality({i \in DOMAIN offer : offer[i] # "other"})
           x == [v EXCEPT !.stale = v.co.srcs # << >>]
<1>1. n \in Nat
  BY SepsCount
<1>2. x \in Records /\ Same(v, x) /\ x.state = v.state
  BY Noted
<1>3. DiscResults(v, offer, r) = Discovered(x, offer, "source", n, r)
  BY DEF DiscResults
<1> HIDE DEF n, x
<1>4. Settled(x)
  BY <1>2, LeftOff DEF Same
<1> QED
  BY <1>1, <1>2, <1>3, <1>4, DiscoveredStep DEF Same

LEMMA DiscResAsAcpStep ==
  ASSUME NEW v \in Records, Settled(v), v.state # "opening", NEW offer \in Offers, NEW r
  PROVE  DiscResAsAcp(v, offer, r) \in Records /\ Settled(DiscResAsAcp(v, offer, r))
<1>1. 0 \in Nat
  OBVIOUS
<1> QED
  BY <1>1, DiscoveredStep DEF DiscResAsAcp

LEMMA GetcapResultsStep ==
  ASSUME NEW v \in Records, Settled(v), v.state = "opening", v.op = "none",
         v.ep.st \in {"idle", "indicated"},
         \A i \in 1..Len(v.q) : ~IsAnswer(v.q[i]) /\ ~IsConfig(v.q[i]),
         NEW k, NEW r
  PROVE  GetcapResults(v, k, r) \in Records /\ Settled(GetcapResults(v, k, r))
<1> DEFINE co == SaveSrc(v.co, k, v.idx)
           src == FindPeerSrc(co)
           cfg == IF r.built THEN src.codec ELSE "unset"
           w == IF k = "nocodec" THEN v ELSE [v EXCEPT !.co = co]
           o == [w EXCEPT !.idx = src.idx, !.cfg = cfg, !.dec = cfg, !.pcap = FALSE]
           n == [w EXCEPT !.idx = @ + 1]
<1>1. v.co \in CoRecords /\ v.idx \in Nat \ {0}
  BY DEF Records
<1>2. co \in CoRecords /\ (Takes(co) => src \in Entries)
  BY <1>1, SavedSrc
<1>3. GetcapResults(v, k, r) = IF k # "nocodec" /\ Takes(co) THEN OpenReq(o)
                               ELSE NextGetcap(n, r)
  BY DEF GetcapResults
<1> HIDE DEF co, src
<1>4. /\ w \in Records /\ w.state = v.state /\ w.q = v.q /\ w.op = v.op /\ w.up = v.up
      /\ w.ep = v.ep /\ w.dec = v.dec /\ w.cfg = v.cfg /\ w.seps = v.seps
  BY <1>2 DEF Records
<1> HIDE DEF w
<1>5. /\ n \in Records /\ n.state = v.state /\ n.q = v.q /\ n.op = v.op /\ n.up = v.up
      /\ n.ep = v.ep /\ n.dec = v.dec /\ n.cfg = v.cfg
  <2>1. w.idx + 1 \in Nat \ {0}
    BY <1>4 DEF Records
  <2> QED
    BY <1>4, <2>1 DEF Records
<1> HIDE DEF n
<1>6. NextGetcap(n, r) \in Records /\ Settled(NextGetcap(n, r))
  BY <1>5, Searching
<1>7. ASSUME Takes(co)
      PROVE  OpenReq(o) \in Records /\ Settled(OpenReq(o))
  <2>1. src.idx \in Nat \ {0} /\ cfg \in Settings
    BY <1>2, <1>7 DEF Entries, Configs, Settings
  <2> HIDE DEF cfg
  <2>2. /\ o \in Records /\ o.state = v.state /\ o.q = v.q /\ o.op = v.op /\ o.up = v.up
        /\ o.ep = v.ep /\ o.dec = o.cfg
    BY <1>4, <2>1 DEF Records
  <2> HIDE DEF o
  <2>3. Settled(o)
    BY <2>2, DecoderOnly
  <2> QED
    BY <2>2, <2>3, OpenReqStep
<1> QED
  BY <1>3, <1>6, <1>7

\* What the call-out keeps is no business of the stream.
LEMMA Collecting ==
  ASSUME NEW v \in Records, NEW k, NEW r, r.at \in Nat \ {0}
  PROVE  LET w == Collect(v, k, r)
         IN  /\ w \in Records /\ w.state = v.state /\ w.q = v.q /\ w.op = v.op /\ w.up = v.up
             /\ w.ep = v.ep /\ w.dec = v.dec /\ w.cfg = v.cfg /\ w.seps = v.seps
<1> DEFINE co == SaveSrc(v.co, k, v.idx)
           i == IF Takes(co) THEN FindPeerSrc(co).idx ELSE v.idx
<1>1. v.co \in CoRecords /\ v.idx \in Nat \ {0}
  BY DEF Records
<1>2. co \in CoRecords /\ (Takes(co) => FindPeerSrc(co) \in Entries)
  BY <1>1, SavedSrc
<1>3. i \in Nat \ {0}
  BY <1>1, <1>2 DEF Entries
<1>4. Collect(v, k, r) = IF v.co.as = "source" THEN [v EXCEPT !.co = co, !.idx = i]
                         ELSE [v EXCEPT !.idx = r.at]
  BY DEF Collect, Records
<1> HIDE DEF co, i
<1> QED
  BY <1>2, <1>3, <1>4 DEF Records

LEMMA SaveCapsStep ==
  ASSUME NEW v \in Records, Settled(v), v.state \in {"incoming", "open"}, NEW k, NEW r,
         r.at \in Nat \ {0}
  PROVE  SaveCaps(v, k, r) \in Records /\ Settled(SaveCaps(v, k, r))
<1> DEFINE c == IF v.pcap /\ k # "nocodec" THEN k ELSE r.raw
           p == [v EXCEPT !.pcap = TRUE]
           w == Collect(p, c, r)
           x == [w EXCEPT !.idx = @ + 1]
           z == [w EXCEPT !.idx = 1]
<1>1. SaveCaps(v, k, r) \in {v, NextGetcap(x, r), z}
  BY DEF SaveCaps
<1>2. p \in Records /\ p.state = v.state /\ Same(v, p)
  BY DEF Records, Same
<1> HIDE DEF p, c
<1>3. /\ w \in Records /\ w.state = v.state /\ w.q = v.q /\ w.op = v.op /\ w.up = v.up
      /\ w.ep = v.ep /\ w.dec = v.dec /\ w.cfg = v.cfg
  BY <1>2, Collecting DEF Same
<1> HIDE DEF w
<1>4. /\ x \in Records /\ x.state = v.state /\ x.q = v.q /\ x.op = v.op
      /\ x.ep = v.ep /\ x.dec = v.dec /\ x.cfg = v.cfg
  <2>1. w.idx + 1 \in Nat \ {0}
    BY <1>3 DEF Records
  <2> QED
    BY <1>3, <2>1 DEF Records
<1>5. /\ z \in Records /\ z.state = v.state /\ z.q = v.q /\ z.op = v.op
      /\ z.ep = v.ep /\ z.dec = v.dec /\ z.cfg = v.cfg
  <2>1. 1 \in Nat \ {0}
    OBVIOUS
  <2> QED
    BY <1>3, <2>1 DEF Records
<1> HIDE DEF x, z
<1>6. NextGetcap(x, r) \in Records /\ Settled(NextGetcap(x, r))
  BY <1>4, AskingOn
<1>7. Settled(z)
  BY <1>5, AskedOutside
<1> QED
  BY <1>1, <1>5, <1>6, <1>7

LEMMA ConfigIndStep ==
  ASSUME NEW v \in Records, Settled(v), NEW c \in Configs,
         \A i \in 1..Len(v.q) : ~IsConfig(v.q[i]),
         v.ep.st = "idle" \/ (v.ep.st = "indicated" /\ v.ep.codec = c)
  PROVE  ConfigInd(v, c) \in Records /\ Settled(ConfigInd(v, c))
<1> DEFINE w == [v EXCEPT !.state = "incoming", !.cfg = c, !.seps = <<c>>, !.idx = 1]
           ev == IF c \in Codecs THEN "CI_OK" ELSE "CI_FAIL"
           m == Msg(ev, "none")
           x == Post(w, ev, "none")
<1>1. ConfigInd(v, c) = x
  BY DEF ConfigInd
<1>2. <<c>> \in Seq(Kinds) /\ 1 \in Nat \ {0} /\ c \in Settings /\ "incoming" \in States
  BY DEF Configs, Settings, Kinds, States
<1>3. /\ w \in Records /\ w.state = "incoming" /\ w.q = v.q /\ w.op = v.op /\ w.ep = v.ep
      /\ w.dec = v.dec /\ w.cfg = c
  BY <1>2 DEF Records
<1>4. ev \in PlainEvents
  BY DEF PlainEvents
<1> HIDE DEF w, ev
<1>5. m \in Messages /\ ~IsAnswer(m) /\ ~IsConfig(m)
  BY <1>4, PlainMessage
<1>6. Settled(w)
  BY <1>3, TakenUp
<1>7. x \in Records /\ x.q = Append(w.q, m)
      /\ \A f \in {"state", "seps", "idx", "cfg", "op", "up", "ep", "dec", "co", "stale"} :
            x[f] = w[f]
  BY <1>3, <1>5, Posted
<1> HIDE DEF x, m
<1>8. /\ x.state = w.state /\ x.seps = w.seps /\ x.idx = w.idx /\ x.cfg = w.cfg
      /\ x.op = w.op /\ x.up = w.up /\ x.ep = w.ep /\ x.dec = w.dec
  BY <1>7
<1> QED
  BY <1>1, <1>3, <1>5, <1>6, <1>7, <1>8, PlainPosted

LEMMA SetconfigRspStep ==
  ASSUME NEW v \in Records, Settled(v), v.state = "incoming"
  PROVE  SetconfigRsp(v) \in Records /\ Settled(SetconfigRsp(v))
<1> DEFINE st == IF v.ep.st = "indicated" THEN "conf" ELSE v.ep.st
           ep == [v.ep EXCEPT !.st = st]
           w == [v EXCEPT !.dec = v.cfg, !.ep = ep]
           x == Ask(w, "discover")
<1>1. SetconfigRsp(v) \in {w, x}
  BY DEF SetconfigRsp, Records
<1>2. v.ep \in EpRecords
  BY DEF Records
<1>3. ep \in EpRecords
  BY <1>2 DEF EpRecords
<1>4. ep = IF v.ep.st = "indicated" THEN [st |-> "conf", codec |-> v.ep.codec] ELSE v.ep
  BY <1>2 DEF EpRecords
<1> HIDE DEF ep
<1>5. /\ w \in Records /\ w.q = v.q /\ w.op = v.op /\ w.cfg = v.cfg /\ w.dec = v.cfg
      /\ w.state = v.state /\ w.ep = ep
  BY <1>3 DEF Records
<1> HIDE DEF w
<1>6. Settled(w)
  BY <1>4, <1>5, Accepted
<1>7. /\ x \in Records /\ x.state = w.state /\ x.q = w.q /\ x.ep = w.ep
      /\ x.dec = w.dec /\ x.cfg = w.cfg /\ (x.op = w.op \/ x.op = "discover")
  BY <1>5, Questioning
<1> HIDE DEF x
<1>8. Settled(x)
  BY <1>5, <1>6, <1>7, AskedOutside
<1> QED
  BY <1>1, <1>5, <1>6, <1>7, <1>8

LEMMA SetconfigRejStep ==
  ASSUME NEW v \in Records, Settled(v), v.state \in {"init", "open", "closing"}
  PROVE  SetconfigRej(v) \in Records /\ Settled(SetconfigRej(v))
<1>1. CASE v.ep.st = "indicated"
  <2> DEFINE w == [v EXCEPT !.ep = EpIdle]
  <2>1. EpIdle \in EpRecords
    BY DEF EpIdle, EpRecords, Settings
  <2>2. /\ w \in Records /\ w.q = v.q /\ w.op = v.op /\ w.dec = v.dec /\ w.cfg = v.cfg
        /\ w.ep = EpIdle /\ w.state = v.state
    BY <2>1 DEF Records
  <2>3. SetconfigRej(v) = w
    BY <1>1 DEF SetconfigRej
  <2> HIDE DEF w
  <2> QED
    BY <1>1, <2>2, <2>3, Refused
<1>2. CASE v.ep.st # "indicated"
  <2>1. SetconfigRej(v) = v
    BY <1>2 DEF SetconfigRej, Records
  <2> QED
    BY <2>1
<1> QED
  BY <1>1, <1>2

-----------------------------------------------------------------------------
(* bta_av_ssm_execute *)

\* A state is entered in which nothing is promised, with or without clearing up.
LEMMA LeavesOff ==
  ASSUME NEW v \in Records, Settled(v), NEW s \in {"init", "open", "closing"}
  PROVE  /\ Go(v, s) \in Records /\ Settled(Go(v, s)) /\ Go(v, s).state = s
         /\ OpenFailed(Go(v, s)) \in Records /\ Settled(OpenFailed(Go(v, s)))
         /\ ConnFailed(Go(v, s)) \in Records /\ Settled(ConnFailed(Go(v, s)))
         /\ StrClosed(Go(v, s)) \in Records /\ Settled(StrClosed(Go(v, s)))
         /\ CcoClose(Go(v, s)) \in Records /\ Settled(CcoClose(Go(v, s)))
         /\ Cleanup(CcoClose(Go(v, s))) \in Records /\ Settled(Cleanup(CcoClose(Go(v, s))))
         /\ StrOpened(Go(v, s)) \in Records /\ Settled(StrOpened(Go(v, s)))
         /\ Disconnect(CcoClose(Go(v, s))) \in Records
         /\ Settled(Disconnect(CcoClose(Go(v, s))))
<1> DEFINE g == Go(v, s)
           c == CcoClose(g)
           d == Disconnect(c)
<1>1. s \in States
  BY DEF States
<1>2. g \in Records /\ Same(v, g) /\ g.state = s
  BY <1>1, CleaningUp
<1> HIDE DEF g
<1>3. ASSUME NEW w \in Records, Same(g, w), w.state = g.state PROVE Settled(w)
  BY <1>2, <1>3, LeftOff DEF Same
<1>4. Settled(g)
  BY <1>2, LeftOff DEF Same
<1>5. /\ OpenFailed(g) \in Records /\ Settled(OpenFailed(g))
      /\ ConnFailed(g) \in Records /\ Settled(ConnFailed(g))
      /\ StrClosed(g) \in Records /\ Settled(StrClosed(g))
  BY <1>2, <1>3, Failing
<1>6. CcoClose(g) \in Records /\ Same(g, CcoClose(g)) /\ CcoClose(g).state = g.state
  BY <1>2, CleaningUp
<1>7. /\ Cleanup(CcoClose(g)) \in Records /\ Same(CcoClose(g), Cleanup(CcoClose(g)))
      /\ Cleanup(CcoClose(g)).state = CcoClose(g).state
  BY <1>6, CleaningUp
<1>8. Settled(CcoClose(g))
  BY <1>3, <1>6
<1>9. Settled(Cleanup(CcoClose(g)))
  BY <1>3, <1>6, <1>7 DEF Same
<1>10. StrOpened(g) \in Records /\ Settled(StrOpened(g))
  BY <1>2, <1>3, CleaningUp
<1>11. d \in Records /\ Same(c, d) /\ d.state \in {c.state, "init"}
  BY <1>6, Disconnecting
<1> HIDE DEF c, d
<1>12. Settled(d)
  BY <1>6, <1>8, <1>11, LeftOff DEF Same, c
<1> QED
  BY <1>2, <1>4, <1>5, <1>6, <1>7, <1>8, <1>9, <1>10, <1>11, <1>12 DEF g, c, d

\* AVDT_DisconnectReq, or the stream is at its end at once.
LEMMA DisconnectStep ==
  ASSUME NEW v \in Records, Settled(v)
  PROVE  Disconnect(v) \in Records /\ Settled(Disconnect(v))
<1> DEFINE w == Disconnect(v)
<1>1. w \in Records /\ Same(v, w) /\ w.state \in {v.state, "init"}
  BY Disconnecting
<1> HIDE DEF w
<1>2. Settled(w)
  BY <1>1, LeftOff DEF Same
<1> QED
  BY <1>1, <1>2 DEF w

LEMMA OpeningStep ==
  ASSUME NEW v \in Records, v.state = "opening", NEW m \in Reports, Settled(v), Headed(v, m),
         NEW r
  PROVE  OpeningSst(v, m, r) \in Records /\ Settled(OpeningSst(v, m, r))
<1>1. CASE m.ev = "DISC_OK"
  <2>1. /\ m.arg \in Offers /\ v.op = "none" /\ v.ep.st \in {"idle", "indicated"}
        /\ \A i \in 1..Len(v.q) : ~IsAnswer(v.q[i]) /\ ~IsConfig(v.q[i])
    BY <1>1, MessageArgs DEF Headed, IsAnswer
  <2>2. OpeningSst(v, m, r) = DiscResults(v, m.arg, r)
    BY <1>1 DEF OpeningSst
  <2> QED
    BY <2>1, <2>2, DiscResultsStep
<1>2. CASE m.ev = "GETCAP_OK"
  <2>1. /\ v.op = "none" /\ v.ep.st \in {"idle", "indicated"}
        /\ \A i \in 1..Len(v.q) : ~IsAnswer(v.q[i]) /\ ~IsConfig(v.q[i])
    BY <1>2 DEF Headed, IsAnswer
  <2>2. OpeningSst(v, m, r) = GetcapResults(v, m.arg, r)
    BY <1>2 DEF OpeningSst
  <2> QED
    BY <2>1, <2>2, GetcapResultsStep
<1>3. CASE m.ev = "CONFIG_IND"
  <2>1. /\ m.arg \in Configs /\ \A i \in 1..Len(v.q) : ~IsConfig(v.q[i])
        /\ v.ep.st = "idle" \/ (v.ep.st = "indicated" /\ v.ep.codec = m.arg)
    BY <1>3, MessageArgs DEF Headed, IsConfig
  <2>2. OpeningSst(v, m, r) = ConfigInd(v, m.arg)
    BY <1>3 DEF OpeningSst
  <2> QED
    BY <2>1, <2>2, ConfigIndStep
<1>4. CASE m.ev \notin {"DISC_OK", "GETCAP_OK", "CONFIG_IND"}
  <2>1. OpeningSst(v, m, r) \in {v, OpenFailed(Go(v, "closing")), StrOpened(Go(v, "open")),
                                 Go(v, "closing"), ConnFailed(Go(v, "init"))}
    BY <1>4 DEF OpeningSst
  <2> QED
    BY <2>1, LeavesOff
<1> QED
  BY <1>1, <1>2, <1>3, <1>4

LEMMA IncomingStep ==
  ASSUME NEW v \in Records, v.state = "incoming", NEW m \in Reports, Settled(v), Headed(v, m),
         NEW r, r.at \in Nat \ {0}
  PROVE  IncomingSst(v, m, r) \in Records /\ Settled(IncomingSst(v, m, r))
<1>1. CASE m.ev = "DISC_OK"
  <2>1. m.arg \in Offers /\ IncomingSst(v, m, r) = DiscResAsAcp(v, m.arg, r)
    BY <1>1, MessageArgs DEF IncomingSst
  <2> QED
    BY <2>1, DiscResAsAcpStep
<1>2. CASE m.ev = "GETCAP_OK"
  <2>1. IncomingSst(v, m, r) = SaveCaps(v, m.arg, r)
    BY <1>2 DEF IncomingSst
  <2> QED
    BY <2>1, SaveCapsStep
<1>3. CASE m.ev = "CONFIG_IND"
  <2>1. /\ m.arg \in Configs /\ \A i \in 1..Len(v.q) : ~IsConfig(v.q[i])
        /\ v.ep.st = "idle" \/ (v.ep.st = "indicated" /\ v.ep.codec = m.arg)
    BY <1>3, MessageArgs DEF Headed, IsConfig
  <2>2. IncomingSst(v, m, r) = ConfigInd(v, m.arg)
    BY <1>3 DEF IncomingSst
  <2> QED
    BY <2>1, <2>2, ConfigIndStep
<1>4. CASE m.ev = "CI_OK"
  <2>1. IncomingSst(v, m, r) = SetconfigRsp(v)
    BY <1>4 DEF IncomingSst
  <2> QED
    BY <2>1, SetconfigRspStep
<1>5. CASE m.ev = "CI_FAIL"
  <2> DEFINE g == Go(v, "init")
             w == SetconfigRej(g)
  <2>1. IncomingSst(v, m, r) = Cleanup(w)
    BY <1>5 DEF IncomingSst
  <2>2. g \in Records /\ Settled(g) /\ g.state = "init"
    BY LeavesOff
  <2> HIDE DEF g
  <2>3. w \in Records /\ Settled(w)
    BY <2>2, SetconfigRejStep
  <2>4. w.state = "init"
    BY <2>2 DEF SetconfigRej, Records
  <2> HIDE DEF w
  <2>5. Cleanup(w) \in Records /\ Same(w, Cleanup(w)) /\ Cleanup(w).state = w.state
    BY <2>3, CleaningUp
  <2> QED
    BY <2>1, <2>3, <2>4, <2>5, LeftOff DEF Same
<1>6. CASE m.ev \notin {"DISC_OK", "GETCAP_OK", "CONFIG_IND", "CI_OK", "CI_FAIL"}
  <2>1. IncomingSst(v, m, r) \in {v, StrOpened(Go(v, "open")),
                                  Disconnect(CcoClose(Go(v, "closing"))),
                                  Cleanup(CcoClose(Go(v, "init")))}
    BY <1>6 DEF IncomingSst
  <2> QED
    BY <2>1, LeavesOff
<1> QED
  BY <1>1, <1>2, <1>3, <1>4, <1>5, <1>6

LEMMA OtherSteps ==
  ASSUME NEW v \in Records, NEW m \in Reports, Settled(v), Headed(v, m), NEW r,
         r.at \in Nat \ {0}
  PROVE  /\ v.state = "open" => OpenSst(v, m, r) \in Records /\ Settled(OpenSst(v, m, r))
         /\ v.state = "closing" => ClosingSst(v, m) \in Records /\ Settled(ClosingSst(v, m))
         /\ v.state = "init" => InitSst(v, m) \in Records /\ Settled(InitSst(v, m))
<1>1. /\ Go(v, "closing") \in Records /\ Settled(Go(v, "closing"))
      /\ StrClosed(Go(v, "init")) \in Records /\ Settled(StrClosed(Go(v, "init")))
      /\ Disconnect(v) \in Records /\ Settled(Disconnect(v))
  BY LeavesOff, DisconnectStep
<1>2. v.state \in {"open", "closing"} => SetconfigRej(v) \in Records /\ Settled(SetconfigRej(v))
  BY SetconfigRejStep
<1>3. ASSUME v.state = "open"
      PROVE  OpenSst(v, m, r) \in Records /\ Settled(OpenSst(v, m, r))
  <2>1. ASSUME NEW k PROVE SaveCaps(v, k, r) \in Records /\ Settled(SaveCaps(v, k, r))
    BY <1>3, SaveCapsStep
  <2> QED
    BY <1>1, <1>2, <1>3, <2>1 DEF OpenSst
<1>4. ASSUME v.state = "closing"
      PROVE  ClosingSst(v, m) \in Records /\ Settled(ClosingSst(v, m))
  BY <1>1, <1>2, <1>4 DEF ClosingSst
<1>5. ASSUME v.state = "init"
      PROVE  InitSst(v, m) \in Records /\ Settled(InitSst(v, m))
  <2>1. ASSUME m.ev = "CONFIG_IND"
        PROVE  ConfigInd(v, m.arg) \in Records /\ Settled(ConfigInd(v, m.arg))
    <3>1. /\ m.arg \in Configs /\ \A i \in 1..Len(v.q) : ~IsConfig(v.q[i])
          /\ v.ep.st = "idle" \/ (v.ep.st = "indicated" /\ v.ep.codec = m.arg)
      BY <2>1, MessageArgs DEF Headed, IsConfig
    <3> QED
      BY <3>1, ConfigIndStep
  <2>2. Cleanup(v) \in Records /\ Settled(Cleanup(v))
    BY <1>5, CleaningUp, LeftOff DEF Same
  <2> QED
    BY <2>1, <2>2 DEF InitSst
<1> QED
  BY <1>3, <1>4, <1>5

\* The invariant: the record of the type, and what the messages in it promise.
Inv == u \in Records /\ Settled(u)

LEMMA Unknown ==
  ASSUME u \in Records, NEW r \in Unknowns(u)
  PROVE  r.at \in Nat \ {0}
<1>1. u.seps \in Seq(Kinds) /\ u.idx \in Nat \ {0}
  BY DEF Records
<1>2. Len(u.seps) \in Nat
  BY <1>1, LenProperties
<1>3. CASE u.state = "opening"
  <2>1. r.at \in {u.idx}
    BY <1>3 DEF Unknowns
  <2> QED
    BY <1>1, <2>1
<1>4. CASE u.state # "opening"
  <2>1. r.at \in {u.idx, Len(u.seps) + 1}
    BY <1>4 DEF Unknowns
  <2> QED
    BY <1>1, <1>2, <2>1
<1> QED
  BY <1>3, <1>4

LEMMA HandleKeeps == Inv /\ Handle => Inv'
<1> SUFFICES ASSUME Inv, Handle
             PROVE  Inv'
  OBVIOUS
<1> DEFINE v == [u EXCEPT !.q = Tail(@)]
           m0 == Head(u.q)
           m == Told(u, m0)
<1>1. v \in Records /\ v.state = u.state /\ m0 \in Messages /\ Settled(v) /\ Headed(v, m0)
  BY TakeMessage DEF Inv, Handle
<1>2. PICK r \in Unknowns(u) :
         u' = CASE u.state = "init" -> InitSst(v, m)
                [] u.state = "opening" -> OpeningSst(v, m, r)
                [] u.state = "incoming" -> IncomingSst(v, m, r)
                [] u.state = "open" -> OpenSst(v, m, r)
                [] u.state = "closing" -> ClosingSst(v, m)
  BY DEF Handle
<1> HIDE DEF v, m0
<1>3. m \in Reports /\ Headed(v, m)
  BY <1>1, ToldReport
<1>4. u.state \in States /\ r.at \in Nat \ {0}
  BY Unknown DEF Inv, Records
<1> HIDE DEF m
<1>5. CASE u.state = "opening"
  <2>1. u' = OpeningSst(v, m, r)
    BY <1>2, <1>5
  <2>2. u' \in Records /\ Settled(u')
    BY <1>1, <1>3, <1>5, <2>1, OpeningStep
  <2> QED
    BY <2>2 DEF Inv, Settled, Asked, OneQuestion, OneConfig, Requested, Configured, Indicated
<1>6. CASE u.state = "incoming"
  <2>1. u' = IncomingSst(v, m, r)
    BY <1>2, <1>6
  <2>2. u' \in Records /\ Settled(u')
    BY <1>1, <1>3, <1>4, <1>6, <2>1, IncomingStep
  <2> QED
    BY <2>2 DEF Inv, Settled, Asked, OneQuestion, OneConfig, Requested, Configured, Indicated
<1>7. CASE u.state \in {"init", "open", "closing"}
  <2>1. u' \in Records /\ Settled(u')
    BY <1>1, <1>2, <1>3, <1>4, <1>7, OtherSteps
  <2> QED
    BY <2>1 DEF Inv, Settled, Asked, OneQuestion, OneConfig, Requested, Configured, Indicated
<1> QED
  BY <1>4, <1>5, <1>6, <1>7 DEF States

-----------------------------------------------------------------------------
(* The application and the device *)

\* A command is answered, or fails, and its answer waits.
LEMMA Answered ==
  ASSUME NEW v \in Records, NEW w \in Records, Settled(v), NEW m \in Messages,
         v.op # "none", IsAnswer(m) => v.op \in {"discover", "getcap"}, ~IsConfig(m),
         w.q = Append(v.q, m), w.op = "none", w.state = v.state, w.cfg = v.cfg,
         w.up = v.up, w.ep = v.ep, w.dec = v.dec
  PROVE  Settled(w)
<1>1. v.q \in Seq(Messages)
  BY DEF Records
<1>2. /\ Len(v.q) \in Nat
      /\ \A i \in 1..Len(w.q) : \/ i \in 1..Len(v.q) /\ w.q[i] = v.q[i]
                                \/ i = Len(v.q) + 1 /\ w.q[i] = m
  BY <1>1, QueueAppend
<1>3. v.state = "opening" => \A i \in 1..Len(v.q) : ~IsAnswer(v.q[i])
  BY DEF Settled, OneQuestion
<1>4. /\ \A i \in 1..Len(w.q) : IsConfig(w.q[i]) => i \in 1..Len(v.q) /\ w.q[i] = v.q[i]
      /\ v.state = "opening" =>
            \A i \in 1..Len(w.q) : IsAnswer(w.q[i]) => i = Len(v.q) + 1 /\ IsAnswer(m)
  BY <1>2, <1>3
<1>5. v.state = "opening" =>
         \A i \in 1..Len(v.q) : \A j \in 1..i :
            j # Len(v.q) + 1 /\ (j \in 1..Len(w.q) => ~IsAnswer(w.q[j]))
  BY <1>2, <1>4
<1>6. Asked(w) /\ Requested(w) /\ Indicated(w)
  BY DEF Settled, Asked, Requested, Indicated
<1>7. OneQuestion(w)
  BY <1>4 DEF OneQuestion
<1>8. Len(w.q) = Len(v.q) + 1
  BY <1>1, QueueAppend
<1>9. OneConfig(w)
  <2>1. v.state = "opening" => \A i \in 1..Len(v.q) : \A j \in 1..i : ~IsAnswer(w.q[j])
    BY <1>2, <1>5, <1>8
  <2> QED
    BY <1>4, <2>1 DEF Settled, OneConfig
<1>10. Configured(w)
  BY <1>4 DEF Settled, Configured
<1> QED
  BY <1>6, <1>7, <1>9, <1>10 DEF Settled

\* The stream endpoint becomes idle: the open was refused or the channel is gone.
LEMMA Dropped ==
  ASSUME NEW v \in Records, NEW w \in Records, Settled(v), PlainAdded(v.q, w.q),
         ~w.up \/ v.ep.st = "requested", w.op = "none", w.state = v.state, w.ep = EpIdle
  PROVE  Settled(w)
<1>2. Len(v.q) \in Nat /\ Len(w.q) \in Nat /\ Len(v.q) <= Len(w.q)
  BY DEF PlainAdded
<1>3. \A i \in 1..Len(w.q) : /\ IsAnswer(w.q[i]) => i \in 1..Len(v.q) /\ w.q[i] = v.q[i]
                             /\ IsConfig(w.q[i]) => i \in 1..Len(v.q) /\ w.q[i] = v.q[i]
  BY DEF PlainAdded
<1>4. \A i \in 1..Len(v.q) : \A j \in 1..i : j \in 1..Len(w.q) /\ (IsAnswer(w.q[j]) => IsAnswer(v.q[j]))
  BY <1>2, <1>3
<1>5. Asked(w) /\ Requested(w) /\ Indicated(w) /\ Configured(w)
  BY DEF Asked, Requested, Indicated, Configured, EpIdle
<1>6. OneQuestion(w)
  BY <1>2, <1>3 DEF Settled, OneQuestion
<1>7. OneConfig(w)
  <2>1. w.ep.st = "idle" /\ w.state = v.state
    BY DEF EpIdle
  <2>2. CASE ~w.up
    BY <1>3, <1>4, <2>1, <2>2 DEF Settled, OneConfig
  <2>3. CASE v.ep.st = "requested"
    <3>1. \A i \in 1..Len(w.q) : ~IsConfig(w.q[i])
      BY <1>3, <2>3 DEF Settled, OneConfig
    <3> QED
      BY <3>1 DEF OneConfig
  <2> QED
    BY <2>2, <2>3
<1> QED
  BY <1>5, <1>6, <1>7 DEF Settled

\* The device configures our endpoint: no other configuration is under way.
LEMMA Configuring ==
  ASSUME NEW v \in Records, NEW w \in Records, Settled(v), NEW m \in Messages, IsConfig(m),
         v.ep.st = "idle",
         \/ v.state = "init" /\ v.op = "none" /\ v.q = << >>
         \/ v.state = "opening" /\ v.op \in {"discover", "getcap"} /\ v.up,
         w.q = Append(v.q, m), w.op = v.op, w.state = v.state, w.seps = v.seps,
         w.idx = v.idx, w.ep = [st |-> "indicated", codec |-> m.arg]
  PROVE  Settled(w)
<1>1. v.q \in Seq(Messages)
  BY DEF Records
<1>2. /\ Len(v.q) \in Nat /\ Len(w.q) = Len(v.q) + 1
      /\ \A i \in 1..Len(w.q) : \/ i \in 1..Len(v.q) /\ w.q[i] = v.q[i]
                                \/ i = Len(v.q) + 1 /\ w.q[i] = m
  BY <1>1, QueueAppend
<1>3. \A i \in 1..Len(v.q) : ~IsConfig(v.q[i])
  <2>1. CASE v.q = << >>
    <3>1. Len(v.q) = 0
      BY <2>1
    <3> QED
      BY <3>1
  <2>2. CASE v.state = "opening" /\ v.up
    BY <2>2 DEF Settled, OneConfig
  <2> QED
    BY <2>1, <2>2
<1>4. ~IsAnswer(m)
  BY DEF IsAnswer, IsConfig
<1>5. \A i \in 1..Len(w.q) : /\ IsAnswer(w.q[i]) => i \in 1..Len(v.q) /\ w.q[i] = v.q[i]
                             /\ IsConfig(w.q[i]) => i = Len(v.q) + 1 /\ w.q[i] = m
  BY <1>2, <1>3, <1>4
<1>6. Asked(w) /\ Requested(w) /\ Indicated(w) /\ Configured(w)
  BY DEF Settled, Asked, Requested, Indicated, Configured
<1>7. OneQuestion(w)
  BY <1>5 DEF Settled, OneQuestion
<1>8. w.state = "opening" => \A j \in 1..Len(w.q) : ~IsAnswer(w.q[j])
  BY <1>5 DEF Settled, OneQuestion
<1>9. OneConfig(w)
  <2>1. \A i \in 1..Len(w.q) : \A j \in 1..i : j \in 1..Len(w.q)
    BY <1>2
  <2> QED
    BY <1>5, <1>8, <2>1 DEF OneConfig
<1> QED
  BY <1>6, <1>7, <1>9 DEF Settled

\* The endpoint goes on: what is configured stays so.
LEMMA GoesOn ==
  ASSUME NEW v \in Records, NEW w \in Records, Settled(v), v.ep.st \in {"requested", "opening", "conf"},
         w.q = v.q, w.op = "none" \/ (w.op = v.op /\ v.ep.st # "requested"), w.state = v.state,
         w.seps = v.seps, w.idx = v.idx, w.cfg = v.cfg, w.dec = v.dec,
         w.ep.st \in {"opening", "open"}, w.ep.codec = v.ep.codec
  PROVE  Settled(w)
<1>1. \A i \in 1..Len(v.q) : ~IsConfig(v.q[i])
  BY DEF Settled, OneConfig
<1>2. Asked(w) /\ Requested(w) /\ Indicated(w) /\ Configured(w)
  BY DEF Settled, Asked, Requested, Indicated, Configured
<1>3. OneQuestion(w)
  BY DEF Settled, OneQuestion
<1>4. OneConfig(w)
  BY <1>1 DEF OneConfig
<1> QED
  BY <1>2, <1>3, <1>4 DEF Settled

\* A plain message is posted.
LEMMA PostPlain ==
  ASSUME NEW v \in Records, Settled(v), NEW ev \in PlainEvents
  PROVE  /\ Post(v, ev, "none") \in Records /\ Settled(Post(v, ev, "none"))
         /\ \A f \in {"state", "seps", "idx", "cfg", "op", "up", "ep", "dec", "co", "stale"} :
               Post(v, ev, "none")[f] = v[f]
<1> DEFINE m == Msg(ev, "none")
           w == Post(v, ev, "none")
<1>1. m \in Messages /\ ~IsAnswer(m) /\ ~IsConfig(m)
  BY PlainMessage
<1>2. /\ w \in Records /\ w.q = Append(v.q, m)
      /\ \A f \in {"state", "seps", "idx", "cfg", "op", "up", "ep", "dec", "co", "stale"} :
            w[f] = v[f]
  BY <1>1, Posted
<1> HIDE DEF w, m
<1>3. /\ w.state = v.state /\ w.seps = v.seps /\ w.idx = v.idx /\ w.cfg = v.cfg
      /\ w.op = v.op /\ w.up = v.up /\ w.ep = v.ep /\ w.dec = v.dec
  BY <1>2
<1>4. Settled(w)
  BY <1>1, <1>2, <1>3, PlainPosted
<1> QED
  BY <1>2, <1>4 DEF w

\* The answer to a command, or its failure, is posted.
LEMMA PostAnswer ==
  ASSUME NEW v \in Records, Settled(v), NEW ev, NEW arg, Msg(ev, arg) \in Messages,
         v.op \in {"discover", "getcap"}, ev # "CONFIG_IND"
  PROVE  LET w == Post([v EXCEPT !.op = "none"], ev, arg)
         IN  w \in Records /\ Settled(w)
<1> DEFINE x == [v EXCEPT !.op = "none"]
           w == Post(x, ev, arg)
           m == Msg(ev, arg)
<1>1. m \in Messages /\ ~IsConfig(m)
  BY DEF Msg, IsConfig
<1>2. /\ x \in Records /\ x.q = v.q /\ x.op = "none" /\ x.state = v.state /\ x.cfg = v.cfg
      /\ x.up = v.up /\ x.ep = v.ep /\ x.dec = v.dec
  BY DEF Records, Commands
<1> HIDE DEF x
<1>3. /\ w \in Records /\ w.q = Append(x.q, m)
      /\ \A f \in {"state", "seps", "idx", "cfg", "op", "up", "ep", "dec", "co", "stale"} :
            w[f] = x[f]
  BY <1>2, Posted
<1> HIDE DEF w, m
<1>4. /\ w.op = "none" /\ w.state = v.state /\ w.cfg = v.cfg /\ w.up = v.up /\ w.ep = v.ep
      /\ w.dec = v.dec
  BY <1>2, <1>3
<1>5. Settled(w)
  BY <1>1, <1>2, <1>3, <1>4, Answered
<1> QED
  BY <1>3, <1>5 DEF w, x

LEMMA OpenKeeps == Inv /\ Open => u' \in Records /\ Settled(u')
<1> SUFFICES ASSUME Inv, Open PROVE u' \in Records /\ Settled(u')
  OBVIOUS
<1>1. u.tries + 1 \in Nat /\ "opening" \in States /\ "discover" \in Commands
  BY DEF Inv, Records, States, Commands
<1>2. /\ u' \in Records /\ u'.q = << >> /\ u'.op = "discover" /\ u'.state = "opening"
      /\ u'.ep.st = "idle"
  <2>1. PICK own \in BOOLEAN :
           u' = [u EXCEPT !.state = "opening", !.op = "discover", !.up = TRUE, !.own = own,
                          !.tries = @ + 1]
    BY DEF Open
  <2> QED
    BY <1>1, <2>1 DEF Inv, Open, Records
<1>3. Len(u'.q) = 0
  BY <1>2
<1>4. Asked(u') /\ Requested(u') /\ Indicated(u') /\ Configured(u')
  BY <1>2 DEF Asked, Requested, Indicated, Configured
<1>5. OneQuestion(u') /\ OneConfig(u')
  BY <1>3 DEF OneQuestion, OneConfig
<1> QED
  BY <1>2, <1>4, <1>5 DEF Settled

LEMMA AnswerKeeps == Inv /\ Answer => u' \in Records /\ Settled(u')
<1> SUFFICES ASSUME Inv, Answer PROVE u' \in Records /\ Settled(u')
  OBVIOUS
<1> USE DEF Inv
<1>1. CASE AnswerDiscover
  <2>1. u.op = "discover"
    BY <1>1 DEF AnswerDiscover
  <2>2. PICK o \in Offers : u' = Post([u EXCEPT !.op = "none"], "DISC_OK", o)
    BY <1>1 DEF AnswerDiscover
  <2>3. Msg("DISC_OK", o) \in Messages
    BY DEF Msg, Messages
  <2> QED
    BY <2>1, <2>2, <2>3, PostAnswer
<1>2. CASE AnswerGetcap
  <2>1. u.op = "getcap"
    BY <1>2 DEF AnswerGetcap
  <2>2. PICK k \in Capabilities : u' = Post([u EXCEPT !.op = "none"], "GETCAP_OK", k)
    BY <1>2 DEF AnswerGetcap
  <2>3. k \in Kinds
    <3>1. u.seps \in Seq(Kinds)
      BY DEF Records
    <3>2. u.state = "opening" => u.seps[u.idx] \in Kinds
      BY <2>1, <3>1, QueueStep DEF Settled, Asked
    <3> QED
      BY <3>2 DEF Capabilities, Kinds
  <2>4. Msg("GETCAP_OK", k) \in Messages
    BY <2>3 DEF Msg, Messages
  <2> QED
    BY <2>1, <2>2, <2>4, PostAnswer
<1>3. CASE AcceptConfig
  <2> DEFINE ep == [u.ep EXCEPT !.st = "opening"]
             w == [u EXCEPT !.op = "none", !.ep = ep]
  <2>1. u.op = "open" /\ u.ep.st = "requested"
    BY <1>3 DEF AcceptConfig, Settled, Requested
  <2>2. ep \in EpRecords /\ ep.st = "opening" /\ ep.codec = u.ep.codec
    BY DEF Records, EpRecords
  <2>3. u' = w
    BY <1>3 DEF AcceptConfig, Records
  <2> HIDE DEF ep
  <2>4. /\ w \in Records /\ w.q = u.q /\ w.op = "none" /\ w.state = u.state
        /\ w.seps = u.seps /\ w.idx = u.idx /\ w.cfg = u.cfg /\ w.dec = u.dec /\ w.ep = ep
    BY <2>2 DEF Records, Commands
  <2> HIDE DEF w
  <2> QED
    BY <2>1, <2>2, <2>3, <2>4, GoesOn
<1>4. CASE Reject
  <2>1. CASE \/ u.op = "discover" /\ u' = Post([u EXCEPT !.op = "none"], "DISC_FAIL", "none")
             \/ u.op = "getcap" /\ u' = Post([u EXCEPT !.op = "none"], "GETCAP_FAIL", "none")
    <3>1. Msg("DISC_FAIL", "none") \in Messages /\ Msg("GETCAP_FAIL", "none") \in Messages
      BY PlainMessage DEF PlainEvents
    <3> QED
      BY <2>1, <3>1, PostAnswer
  <2>2. CASE u.op = "open" /\ u' = Post([u EXCEPT !.op = "none", !.ep = EpIdle], "OPEN_FAIL", "none")
    <3> DEFINE x == [u EXCEPT !.op = "none", !.ep = EpIdle]
               w == Post(x, "OPEN_FAIL", "none")
               m == Msg("OPEN_FAIL", "none")
    <3>1. m \in Messages /\ ~IsAnswer(m) /\ ~IsConfig(m)
      BY PlainMessage DEF PlainEvents
    <3>2. EpIdle \in EpRecords
      BY DEF EpIdle, EpRecords, Settings
    <3>3. x \in Records /\ x.q = u.q /\ x.op = "none" /\ x.state = u.state /\ x.ep = EpIdle
      BY <3>2 DEF Records, Commands
    <3>4. u' = w
      BY <2>2
    <3> HIDE DEF x
    <3>5. /\ w \in Records /\ w.q = Append(x.q, m)
          /\ \A f \in {"state", "seps", "idx", "cfg", "op", "up", "ep", "dec", "co", "stale"} :
                w[f] = x[f]
      BY <3>1, <3>3, Posted
    <3> HIDE DEF w, m
    <3>6. w.q = Append(u.q, m) /\ w.op = "none" /\ w.state = u.state /\ w.ep = EpIdle
      BY <3>3, <3>5
    <3>7. u.ep.st = "requested" /\ u.q \in Seq(Messages)
      BY <2>2 DEF Settled, Requested, Records
    <3>8. PlainAdded(u.q, w.q)
      BY <3>1, <3>6, <3>7, PlainAppend
    <3> QED
      BY <3>4, <3>5, <3>6, <3>7, <3>8, Dropped
  <2> QED
    BY <1>4, <2>1, <2>2 DEF Reject
<1> QED
  BY <1>1, <1>2, <1>3, <1>4 DEF Answer

LEMMA ConfigureKeeps == Inv /\ Configure => u' \in Records /\ Settled(u')
<1> SUFFICES ASSUME Inv, Configure PROVE u' \in Records /\ Settled(u')
  OBVIOUS
<1>1. /\ u.ep.st = "idle"
      /\ \/ u.state = "init" /\ u.op = "none" /\ u.q = << >>
         \/ u.state = "opening" /\ u.op \in {"discover", "getcap"} /\ u.up
  BY DEF Configure
<1>2. PICK c \in Codecs \cup {"unsup"} :
          u' = Post([u EXCEPT !.up = TRUE, !.own = @ /\ u.up,
                              !.ep = [st |-> "indicated", codec |-> c],
                              !.tries = IF u.state = "init" THEN @ + 1 ELSE @],
                    "CONFIG_IND", c)
  BY DEF Configure
<1> DEFINE n == IF u.state = "init" THEN u.tries + 1 ELSE u.tries
           ep == [st |-> "indicated", codec |-> c]
           b == (u.own /\ u.up)
           x == [u EXCEPT !.up = TRUE, !.own = b, !.ep = ep, !.tries = n]
           w == Post(x, "CONFIG_IND", c)
           m == Msg("CONFIG_IND", c)
<1>3. m \in Messages /\ IsConfig(m) /\ m.arg = c
  BY DEF Msg, Messages, Configs, IsConfig
<1>4. n \in Nat /\ ep \in EpRecords /\ b \in BOOLEAN
  BY DEF Inv, Records, EpRecords, Configs, Settings
<1>5. u' = w
  BY <1>2 DEF Inv, Records
<1> HIDE DEF n, m, b
<1>6. /\ x \in Records /\ x.q = u.q /\ x.op = u.op /\ x.state = u.state /\ x.seps = u.seps
      /\ x.idx = u.idx /\ x.ep = ep
  BY <1>4 DEF Inv, Records
<1> HIDE DEF x
<1>7. /\ w \in Records /\ w.q = Append(x.q, m)
      /\ \A f \in {"state", "seps", "idx", "cfg", "op", "up", "ep", "dec", "co", "stale"} :
            w[f] = x[f]
  BY <1>3, <1>6, Posted DEF m
<1> HIDE DEF w
<1>8. /\ w.q = Append(u.q, m) /\ w.op = u.op /\ w.state = u.state /\ w.seps = u.seps
      /\ w.idx = u.idx /\ w.ep = [st |-> "indicated", codec |-> m.arg]
  BY <1>3, <1>6, <1>7
<1>9. u \in Records /\ Settled(u)
  BY DEF Inv
<1> HIDE DEF ep
<1>10. Settled(w)
  BY <1>1, <1>3, <1>7, <1>8, <1>9, Configuring
<1> QED
  BY <1>5, <1>7, <1>10

LEMMA MediaUpKeeps == Inv /\ MediaUp => u' \in Records /\ Settled(u')
<1> SUFFICES ASSUME Inv, MediaUp PROVE u' \in Records /\ Settled(u')
  OBVIOUS
<1> USE DEF Inv
<1> DEFINE ep == [u.ep EXCEPT !.st = "open"]
           w == [u EXCEPT !.ep = ep]
<1>1. u.ep.st \in {"opening", "conf"}
  BY DEF MediaUp
<1>2. ep \in EpRecords /\ ep.st = "open" /\ ep.codec = u.ep.codec
  BY DEF Records, EpRecords
<1>3. u' = Post(w, "OPEN_OK", "none")
  BY DEF MediaUp, Records
<1> HIDE DEF ep
<1>4. /\ w \in Records /\ w.q = u.q /\ w.op = u.op /\ w.state = u.state /\ w.seps = u.seps
      /\ w.idx = u.idx /\ w.cfg = u.cfg /\ w.dec = u.dec /\ w.ep = ep
  BY <1>2 DEF Records
<1> HIDE DEF w
<1>5. Settled(w)
  BY <1>1, <1>2, <1>4, GoesOn
<1>6. "OPEN_OK" \in PlainEvents
  BY DEF PlainEvents
<1> QED
  BY <1>3, <1>4, <1>5, <1>6, PostPlain

\* AVDTP reports neither answers nor configurations of a channel that goes.
LEMMA PlainReports ==
  ASSUME u \in Records
  PROVE  LinkReports \in Seq({Msg(ev, "none") : ev \in PlainEvents})
<1> DEFINE P == {Msg(ev, "none") : ev \in PlainEvents}
           failed == IF u.op = "none" THEN << >> ELSE <<Msg(FailOf(u.op), "none")>>
           closed(sts) == IF u.ep.st \in sts THEN <<Msg("CLOSED", "none")>> ELSE << >>
           own == <<Msg("DISCONNECT", "none")>>
           down == <<Msg("SIG_DOWN", "none")>>
           before == closed({"conf"})
           after == closed({"opening", "open"})
<1>1. /\ u.op # "none" => FailOf(u.op) \in PlainEvents
      /\ "CLOSED" \in PlainEvents /\ "DISCONNECT" \in PlainEvents /\ "SIG_DOWN" \in PlainEvents
  BY DEF Records, Commands, FailOf, PlainEvents
<1>2. failed \in Seq(P) /\ before \in Seq(P) /\ after \in Seq(P) /\ own \in Seq(P) /\ down \in Seq(P)
  <2>1. /\ u.op # "none" => Msg(FailOf(u.op), "none") \in P
        /\ Msg("CLOSED", "none") \in P /\ Msg("DISCONNECT", "none") \in P
        /\ Msg("SIG_DOWN", "none") \in P
    BY <1>1
  <2> HIDE DEF P
  <2> QED
    BY <2>1
<1>3. LinkReports = failed \o (IF u.own THEN own ELSE before \o down \o after)
  BY DEF LinkReports
<1> HIDE DEF P, failed, own, down, before, after
<1>4. before \o down \in Seq(P)
  BY <1>2, ConcatProperties
<1>5. before \o down \o after \in Seq(P)
  BY <1>2, <1>4, ConcatProperties
<1>6. failed \o own \in Seq(P) /\ failed \o (before \o down \o after) \in Seq(P)
  BY <1>2, <1>5, ConcatProperties
<1> QED
  BY <1>3, <1>6 DEF P

LEMMA LinkDownKeeps == Inv /\ LinkDown => u' \in Records /\ Settled(u')
<1> SUFFICES ASSUME Inv, LinkDown PROVE u' \in Records /\ Settled(u')
  OBVIOUS
<1> USE DEF Inv
<1> DEFINE q == u.q \o LinkReports
           w == [u EXCEPT !.op = "none", !.up = FALSE, !.ep = EpIdle, !.q = q]
<1>1. u' = w
  BY DEF LinkDown, Records
<1>2. u.q \in Seq(Messages)
  BY DEF Records
<1>3. q \in Seq(Messages) /\ PlainAdded(u.q, q)
  BY <1>2, PlainReports, PlainConcat
<1>4. EpIdle \in EpRecords
  BY DEF EpIdle, EpRecords, Settings
<1> HIDE DEF q
<1>5. w \in Records /\ w.q = q /\ w.op = "none" /\ w.state = u.state /\ ~w.up /\ w.ep = EpIdle
  BY <1>3, <1>4 DEF Records, Commands
<1> HIDE DEF w
<1> QED
  BY <1>1, <1>3, <1>5, Dropped

-----------------------------------------------------------------------------
(* The invariant holds *)

LEMMA InitInv == Init => Inv
<1> SUFFICES ASSUME Init PROVE Inv
  OBVIOUS
<1>1. << >> \in Seq(Entries) /\ << >> \in Seq(Kinds) /\ << >> \in Seq(Messages) /\ 1 \in Nat \ {0}
  OBVIOUS
<1>2. NoCo \in CoRecords /\ EpIdle \in EpRecords /\ EpIdle.st = "idle"
  BY <1>1 DEF NoCo, CoRecords, EpIdle, EpRecords, Settings
<1>3. "init" \in States /\ "none" \in Commands /\ "none" \in Settings
  BY DEF States, Commands, Settings
<1>4. u \in Records /\ u.state = "init" /\ u.op = "none" /\ u.ep = EpIdle /\ u.q = << >>
  BY <1>1, <1>2, <1>3 DEF Init, Records
<1>5. Len(u.q) = 0
  BY <1>4
<1>6. Asked(u) /\ Requested(u) /\ Indicated(u) /\ Configured(u)
  BY <1>2, <1>4 DEF Asked, Requested, Indicated, Configured
<1>7. OneQuestion(u) /\ OneConfig(u)
  BY <1>5 DEF OneQuestion, OneConfig
<1> QED
  BY <1>4, <1>6, <1>7 DEF Inv, Settled

LEMMA NextInv == Inv /\ [Next]_vars => Inv'
<1> SUFFICES ASSUME Inv, [Next]_vars PROVE Inv'
  OBVIOUS
<1>1. CASE Handle
  BY <1>1, HandleKeeps
<1>2. CASE Open \/ Answer \/ Configure \/ MediaUp \/ LinkDown
  <2>1. u' \in Records /\ Settled(u')
    BY <1>2, OpenKeeps, AnswerKeeps, ConfigureKeeps, MediaUpKeeps, LinkDownKeeps
  <2> QED
    BY <2>1 DEF Inv, Settled, Asked, OneQuestion, OneConfig, Requested, Configured, Indicated
<1>3. CASE Close
  <2>1. u' \in Records /\ Settled(u')
    BY <1>3, PostPlain DEF Close, Inv, PlainEvents
  <2> QED
    BY <2>1 DEF Inv, Settled, Asked, OneQuestion, OneConfig, Requested, Configured, Indicated
<1>4. CASE UNCHANGED u
  BY <1>4 DEF Inv, Settled, Asked, OneQuestion, OneConfig, Requested, Configured, Indicated
<1> QED
  BY <1>1, <1>2, <1>3, <1>4 DEF Next, Done, vars

LEMMA Invariant == Spec => []Inv
  BY InitInv, NextInv, PTL DEF Spec

\* Once a stream has a configuration, the decoder has it (DecoderMatchesStream, proved of
\* every list of endpoints and every number of codecs): whether the device configured the
\* stream (bta_av_aact.c:1255) or we asked for it after a search (:1880), and whatever
\* answers to the search come in afterwards (:1712).
THEOREM DecoderMatches == Spec => []DecoderMatchesStream
<1>1. Inv => DecoderMatchesStream
  BY DEF Inv, Settled, Configured, DecoderMatchesStream
<1> QED
  BY <1>1, Invariant, PTL
=============================================================================
