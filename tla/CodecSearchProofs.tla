--------------------------- MODULE CodecSearchProofs ---------------------------
(***************************************************************************)
(* Proofs about the search of CodecNegotiation: what is asked for is what  *)
(* the list of the device calls for.  The call-out keeps no index, only    *)
(* counts and entries, and bta_av_next_getcap keeps only an index; the     *)
(* invariant Found ties them:                                              *)
(*   Seeks   while the capabilities of a SEP are awaited or wait, the      *)
(*           call-out's counts are those of the list before its index      *)
(*           (Progress), and the answer is about that SEP,                 *)
(*   Taken   while the stream is asked for, the index is one that the list *)
(*           calls for, and no message is left that moves it,              *)
(*   Ended   a list without a candidate left calls for nothing.            *)
(* As the property does, it claims nothing of a search that began with the *)
(* entries of an earlier attempt (stale).                                  *)
(***************************************************************************)
EXTENDS CodecNegotiationProofs

\* The SEPs asked for their capabilities, those that answer with a codec, and
\* the part of a set of indices before one.

Usable(s) == {j \in DOMAIN s : s[j] # "other"}
Looked(s) == {j \in DOMAIN s : s[j] \notin {"other", "nocodec"}}
Below(S, i) == {j \in S : j < i}

\* The call-out has been told of the SEPs before i.
Progress(s, i, co) ==
    /\ co.n = Cardinality(Usable(s)) /\ co.rx = Cardinality(Below(Looked(s), i))
    /\ Len(co.srcs) = Cardinality(Below(Supported(s), i))
    /\ co.srcs # << >> =>
          LET l == FindPeerSrc(co)
          IN  /\ l.idx \in Below(Supported(s), i) /\ l.codec = s[l.idx]
              /\ \A j \in Below(Supported(s), i) : j <= l.idx

\* A question about capabilities is not done with.
Pending(v) == v.op = "getcap" \/ \E i \in 1..Len(v.q) : v.q[i].ev = "GETCAP_OK"

Seeks(v) ==
    v.state = "opening" /\ Pending(v) =>
       /\ v.idx \in Usable(v.seps)
       /\ ~v.stale => Progress(v.seps, v.idx, v.co) /\ Len(v.co.srcs) < Capacity
       /\ \A i \in 1..Len(v.q) : v.q[i].ev = "GETCAP_OK" => v.q[i].arg = v.seps[v.idx]

\* The endpoint of a stream that we ask for.
Asking == {"requested", "opening"}

Taken(v) ==
    v.ep.st \in Asking =>
       /\ v.state # "incoming" /\ v.op \notin {"discover", "getcap"}
       /\ \A i \in 1..Len(v.q) : v.q[i].ev \notin {"DISC_OK", "GETCAP_OK", "CONFIG_IND"}
       /\ ~v.stale => v.idx \in Wanted(v.seps) /\ v.ep.codec \in {v.seps[v.idx], "unset"}

Ended(v) == ~v.stale /\ Exhausted(v) => Wanted(v.seps) = {}

\* Everything of the search.
Found(v) == Seeks(v) /\ Taken(v) /\ Ended(v)

-----------------------------------------------------------------------------
(* Lists of endpoints and the call-out's entries *)

LEMMA Parts ==
  ASSUME NEW s \in Seq(Kinds)
  PROVE  /\ DOMAIN s = 1..Len(s) /\ Len(s) \in Nat
         /\ Supported(s) \subseteq Looked(s) /\ Looked(s) \subseteq Usable(s)
         /\ Usable(s) \subseteq DOMAIN s
         /\ \A T \in SUBSET DOMAIN s : IsFiniteSet(T) /\ Cardinality(T) \in Nat
<1>1. DOMAIN s = 1..Len(s) /\ Len(s) \in Nat
  BY QueueStep
<1>2. IsFiniteSet(DOMAIN s)
  BY <1>1, FS_Interval
<1>3. \A T \in SUBSET DOMAIN s : IsFiniteSet(T) /\ Cardinality(T) \in Nat
  BY <1>2, FS_Subset, FS_CardinalityType
<1>4. Supported(s) \subseteq Looked(s)
  BY CodecsAssumption DEF Supported, Looked
<1> QED
  BY <1>1, <1>3, <1>4 DEF Looked, Usable

LEMMA BelowNext ==
  ASSUME NEW s \in Seq(Kinds), NEW S \in SUBSET DOMAIN s, NEW i \in Nat
  PROVE  /\ i \in S => Cardinality(Below(S, i + 1)) = Cardinality(Below(S, i)) + 1
         /\ i \notin S => Below(S, i + 1) = Below(S, i)
<1>1. S \subseteq Nat
  BY Parts
<1>2. Below(S, i) \in SUBSET DOMAIN s
  BY DEF Below
<1>3. IsFiniteSet(Below(S, i))
  BY <1>2, Parts
<1>4. i \notin Below(S, i)
  BY DEF Below
<1>5. \A j \in S : j < i + 1 <=> j < i \/ j = i
  BY <1>1
<1>6. i \in S => Below(S, i + 1) = Below(S, i) \cup {i}
  BY <1>5 DEF Below
<1>7. i \notin S => Below(S, i + 1) = Below(S, i)
  BY <1>5 DEF Below
<1>8. Cardinality(Below(S, i) \cup {i}) = Cardinality(Below(S, i)) + 1
  BY <1>3, <1>4, FS_AddElement
<1> QED
  BY <1>6, <1>7, <1>8

\* The endpoints between two that are asked for count for nothing.
LEMMA Moved ==
  ASSUME NEW s \in Seq(Kinds), NEW i \in Nat, NEW j \in Nat, i <= j, NEW co,
         Progress(s, i, co), \A k \in Usable(s) : k < j => k < i
  PROVE  Progress(s, j, co)
<1>1. ASSUME NEW S \in SUBSET Usable(s) PROVE Below(S, j) = Below(S, i)
  <2>1. \A k \in S : k < j <=> k < i
    BY Parts
  <2> QED
    BY <2>1 DEF Below
<1>2. Below(Looked(s), j) = Below(Looked(s), i) /\ Below(Supported(s), j) = Below(Supported(s), i)
  BY <1>1, Parts
<1> QED
  BY <1>2 DEF Progress

\* The entry of the endpoint asked for is kept, if its codec is one of ours.
LEMMA Saved ==
  ASSUME NEW s \in Seq(Kinds), NEW i \in Usable(s), NEW co \in CoRecords,
         Progress(s, i, co), Len(co.srcs) < Capacity, NEW c,
         c = IF s[i] = "nocodec" THEN co ELSE SaveSrc(co, s[i], i)
  PROVE  Progress(s, i + 1, c) /\ Len(c.srcs) <= Capacity /\ c \in CoRecords
<1>1. i \in Nat \ {0} /\ co.srcs \in Seq(Entries) /\ Len(co.srcs) \in Nat /\ Capacity \in Nat
  BY Parts, LenProperties, CapacityAssumption DEF CoRecords
<1>2. c \in CoRecords
  BY <1>1, SavedSrc
<1>3. /\ Supported(s) \in SUBSET DOMAIN s /\ Looked(s) \in SUBSET DOMAIN s
      /\ Below(Supported(s), i) \in SUBSET DOMAIN s
  BY Parts DEF Below
<1>4. i \in Looked(s) <=> s[i] # "nocodec"
  BY DEF Looked, Usable
<1>5. i \in Supported(s) <=> s[i] \in Codecs
  BY DEF Supported, Usable
<1>6. \A S \in SUBSET DOMAIN s :
         /\ i \in S => Cardinality(Below(S, i + 1)) = Cardinality(Below(S, i)) + 1
         /\ i \notin S => Below(S, i + 1) = Below(S, i)
  BY <1>1, BelowNext
<1>7. CASE s[i] = "nocodec"
  <2>1. c = co /\ i \notin Looked(s) /\ i \notin Supported(s)
    BY <1>4, <1>7, Parts
  <2> QED
    BY <1>1, <1>2, <1>3, <1>6, <2>1 DEF Progress
<1>8. CASE s[i] # "nocodec" /\ s[i] \notin Codecs
  <2>1. c = [co EXCEPT !.rx = @ + 1]
    BY <1>8 DEF SaveSrc, CoRecords
  <2>2. c.rx = co.rx + 1 /\ c.srcs = co.srcs /\ c.n = co.n
    BY <2>1 DEF CoRecords
  <2>3. FindPeerSrc(c) = FindPeerSrc(co)
    BY <2>2 DEF FindPeerSrc
  <2> QED
    BY <1>1, <1>2, <1>3, <1>4, <1>5, <1>6, <1>8, <2>2, <2>3 DEF Progress
<1>9. CASE s[i] # "nocodec" /\ s[i] \in Codecs
  <2> DEFINE e == [idx |-> i, codec |-> s[i]]
  <2>1. c = [co EXCEPT !.rx = @ + 1, !.srcs = Append(@, e)]
    BY <1>9 DEF SaveSrc
  <2>2. c.rx = co.rx + 1 /\ c.srcs = Append(co.srcs, e) /\ c.n = co.n
    BY <2>1 DEF CoRecords
  <2>3. e \in Entries /\ e.idx = i /\ e.codec = s[i]
    BY <1>1, <1>9 DEF Entries
  <2> HIDE DEF e
  <2>4. Len(c.srcs) = Len(co.srcs) + 1 /\ c.srcs[Len(co.srcs) + 1] = e
    BY <1>1, <2>2, <2>3, AppendProperties
  <2>5. FindPeerSrc(c) = e
    BY <2>4 DEF FindPeerSrc, Last
  <2>6. i \in Below(Supported(s), i + 1) /\ \A j \in Below(Supported(s), i + 1) : j <= i
    <3>1. i \in Supported(s) /\ i < i + 1
      BY <1>1, <1>5, <1>9
    <3>2. \A j \in Supported(s) : j < i + 1 => j <= i
      BY <1>1, Parts
    <3> QED
      BY <3>1, <3>2 DEF Below
  <2>7. /\ Cardinality(Below(Looked(s), i + 1)) = Cardinality(Below(Looked(s), i)) + 1
        /\ Cardinality(Below(Supported(s), i + 1)) = Cardinality(Below(Supported(s), i)) + 1
    BY <1>3, <1>4, <1>5, <1>6, <1>9
  <2> QED
    BY <1>1, <1>2, <2>2, <2>3, <2>4, <2>5, <2>6, <2>7 DEF Progress
<1> QED
  BY <1>7, <1>8, <1>9

\* Nothing is looked at that is not there: when as many were looked at as there are, the
\* list has no SEP without a codec, and none is left.
LEMMA AllLooked ==
  ASSUME NEW s \in Seq(Kinds), NEW i \in Nat, NEW co, Progress(s, i, co), co.rx = co.n
  PROVE  /\ \A j \in DOMAIN s : s[j] # "nocodec"
         /\ \A j \in Usable(s) : j < i
<1>1. Below(Looked(s), i) \in SUBSET Usable(s) /\ IsFiniteSet(Usable(s))
  BY Parts DEF Below
<1>2. Below(Looked(s), i) = Usable(s)
  BY <1>1, FS_Subset DEF Progress
<1> QED
  BY <1>2 DEF Below, Looked, Usable

\* The entry that is taken is the one the list asks for.
LEMMA TakenIsWanted ==
  ASSUME NEW s \in Seq(Kinds), NEW i \in Nat, NEW c \in CoRecords,
         Progress(s, i, c), Len(c.srcs) <= Capacity, Takes(c)
  PROVE  /\ FindPeerSrc(c).idx \in Wanted(s) /\ FindPeerSrc(c).idx \in Supported(s)
         /\ FindPeerSrc(c).codec = s[FindPeerSrc(c).idx]
<1> DEFINE l == FindPeerSrc(c).idx
           S == Supported(s)
           B == Below(S, i)
<1>1. /\ S \in SUBSET DOMAIN s /\ B \in SUBSET S /\ IsFiniteSet(S) /\ IsFiniteSet(B)
      /\ Cardinality(S) \in Nat /\ Cardinality(B) \in Nat /\ Cardinality(B) <= Cardinality(S)
  <2>1. S \in SUBSET DOMAIN s /\ B \in SUBSET S
    BY Parts DEF Below
  <2>2. B \in SUBSET DOMAIN s
    BY <2>1
  <2> HIDE DEF S, B
  <2> QED
    BY <2>1, <2>2, Parts, FS_Subset
<1>2. /\ l \in B /\ FindPeerSrc(c).codec = s[l] /\ \A j \in B : j <= l
      /\ Len(c.srcs) = Cardinality(B)
  BY DEF Takes, Progress
<1>3. S \subseteq Nat /\ l \in Nat /\ l \in S /\ l < i
  BY <1>1, <1>2, Parts DEF Below
<1>4. B = {j \in S : j <= l}
  <2>1. \A j \in S : j < i <=> j <= l
    <3>1. \A j \in S : j <= l => j < i
      BY <1>3
    <3>2. \A j \in S : j < i => j <= l
      BY <1>2 DEF Below
    <3> QED
      BY <3>1, <3>2
  <2> QED
    BY <2>1 DEF Below
<1> HIDE DEF S, B, l
<1>5. Capacity \in Nat
  BY CapacityAssumption
<1>6. CASE Len(c.srcs) = Capacity
  <2>1. Cardinality(S) >= Capacity /\ Cardinality({j \in S : j <= l}) = Capacity
    BY <1>1, <1>2, <1>4, <1>5, <1>6
  <2>2. ~(Cardinality(S) < Capacity)
    BY <1>1, <1>5, <2>1
  <2>3. Wanted(s) = {k \in S : Cardinality({j \in S : j <= k}) = Capacity}
    BY <2>1, <2>2 DEF Wanted, S
  <2> QED
    BY <1>2, <1>3, <2>1, <2>3 DEF l, S
<1>7. CASE Len(c.srcs) # Capacity
  <2>1. c.rx = c.n
    BY <1>7 DEF Takes
  <2>2. /\ \A j \in DOMAIN s : s[j] # "nocodec"
        /\ \A j \in Usable(s) : j < i
    BY <2>1, AllLooked
  <2>3. B = S
    BY <2>2, Parts DEF B, S, Below
  <2>4. Cardinality(S) < Capacity
    BY <1>1, <1>2, <1>5, <1>7, <2>3
  <2>5. ~(Cardinality(S) >= Capacity)
    BY <1>1, <1>5, <2>4
  <2>6. Wanted(s) = {k \in S : \A j \in S : j <= k}
    BY <2>2, <2>4, <2>5 DEF Wanted, S
  <2> QED
    BY <1>2, <1>3, <2>3, <2>6 DEF l, S
<1> QED
  BY <1>6, <1>7

\* A list that comes to its end without an entry taken asks for none.
LEMMA NothingWanted ==
  ASSUME NEW s \in Seq(Kinds), NEW i \in Nat, NEW c \in CoRecords,
         Progress(s, i, c), Len(c.srcs) < Capacity, \A j \in Usable(s) : j < i,
         ~Takes(c) \/ \E j \in DOMAIN s : s[j] = "nocodec"
  PROVE  Wanted(s) = {}
<1> DEFINE S == Supported(s)
<1>1. Below(S, i) = S
  BY Parts DEF Below
<1>2. IsFiniteSet(S) /\ Cardinality(S) \in Nat /\ Len(c.srcs) = Cardinality(S)
  <2>1. Len(c.srcs) = Cardinality(S)
    BY <1>1 DEF Progress
  <2> QED
    BY <2>1, Parts
<1>3. Capacity \in Nat
  BY CapacityAssumption
<1>4. Cardinality(S) < Capacity /\ ~(Cardinality(S) >= Capacity)
  BY <1>2, <1>3
<1>5. CASE \E j \in DOMAIN s : s[j] = "nocodec"
  BY <1>4, <1>5 DEF Wanted
<1>6. CASE \A j \in DOMAIN s : s[j] # "nocodec"
  <2>1. Looked(s) = Usable(s)
    BY <1>6 DEF Looked, Usable
  <2>2. Below(Looked(s), i) = Usable(s)
    BY <2>1 DEF Below
  <2>3. c.rx = c.n
    BY <2>2 DEF Progress
  <2>4. c.srcs = << >>
    BY <1>6, <2>3 DEF Takes
  <2>5. S = {}
    BY <1>2, <2>4, FS_EmptySet
  <2>6. Wanted(s) = {k \in S : \A j \in S : j <= k}
    BY <1>4, <1>6 DEF Wanted
  <2> QED
    BY <2>5, <2>6
<1> QED
  BY <1>5, <1>6

-----------------------------------------------------------------------------
(* Steps that leave the list and the index alone *)

LEMMA Kept ==
  ASSUME NEW v \in Records, NEW w \in Records, Found(v), NEW evs, "GETCAP_OK" \notin evs,
         \A i \in 1..Len(w.q) : w.q[i].ev \in evs \/ \E j \in 1..Len(v.q) : w.q[i] = v.q[j],
         w.state = "incoming" => v.state = "incoming", w.seps = v.seps, w.idx = v.idx, w.stale = v.stale,
         w.op = "getcap" => v.op = "getcap",
         w.state = "opening" /\ Pending(w) => v.state = "opening" /\ w.co = v.co,
         w.ep.st \in Asking => /\ v.ep.st \in Asking /\ w.ep.codec = v.ep.codec
                               /\ w.op \in {v.op, "none"}
                               /\ "DISC_OK" \notin evs /\ "CONFIG_IND" \notin evs
  PROVE  Found(w)
<1>1. \A i \in 1..Len(w.q) :
         w.q[i].ev = "GETCAP_OK" => \E j \in 1..Len(v.q) : w.q[i] = v.q[j] /\ v.q[j].ev = "GETCAP_OK"
  OBVIOUS
<1>2. Pending(w) => Pending(v)
  BY <1>1 DEF Pending
<1>3. Seeks(w)
  BY <1>1, <1>2 DEF Found, Seeks
<1>4. Taken(w)
  <2> SUFFICES ASSUME w.ep.st \in Asking PROVE Taken(w)
    BY DEF Taken
  <2>1. v.ep.st \in Asking /\ w.ep.codec = v.ep.codec /\ w.op \in {v.op, "none"}
    OBVIOUS
  <2>2. \A i \in 1..Len(w.q) : w.q[i].ev \notin {"DISC_OK", "GETCAP_OK", "CONFIG_IND"}
    BY <2>1 DEF Found, Taken
  <2>3. w.op \notin {"discover", "getcap"}
    BY <2>1 DEF Found, Taken
  <2>4. ~w.stale => w.idx \in Wanted(w.seps) /\ w.ep.codec \in {w.seps[w.idx], "unset"}
    BY <2>1 DEF Found, Taken
  <2>5. w.state # "incoming"
    BY <2>1 DEF Found, Taken
  <2> QED
    BY <2>2, <2>3, <2>4, <2>5 DEF Taken
<1>5. Ended(w)
  BY DEF Found, Ended, Exhausted, Candidates
<1> QED
  BY <1>3, <1>4, <1>5 DEF Found

\* ... while no message is posted.
LEMMA QueueKept ==
  ASSUME NEW v \in Records, NEW w \in Records, Found(v), w.q = v.q,
         w.seps = v.seps, w.idx = v.idx, w.stale = v.stale, w.op \in {v.op, "none"},
         w.state = "opening" => v.state = "opening" /\ w.co = v.co,
         w.state = "incoming" => v.state = "incoming",
         w.ep.st \in Asking => v.ep.st \in Asking /\ w.ep.codec = v.ep.codec
  PROVE  Found(w)
<1> DEFINE evs == {}
<1>1. "GETCAP_OK" \notin evs /\ "DISC_OK" \notin evs /\ "CONFIG_IND" \notin evs
  OBVIOUS
<1>2. \A i \in 1..Len(w.q) : w.q[i].ev \in evs \/ \E j \in 1..Len(v.q) : w.q[i] = v.q[j]
  OBVIOUS
<1> HIDE DEF evs
<1> QED
  BY <1>1, <1>2, Kept

\* ... or one at the end of the queue.
LEMMA Appended ==
  ASSUME NEW v \in Records, NEW w \in Records, NEW m \in Messages, w.q = Append(v.q, m)
  PROVE  \A i \in 1..Len(w.q) : w.q[i].ev \in {m.ev} \/ \E j \in 1..Len(v.q) : w.q[i] = v.q[j]
<1>1. v.q \in Seq(Messages)
  BY DEF Records
<1> QED
  BY <1>1, QueueAppend

LEMMA PlainKept ==
  ASSUME NEW v \in Records, Found(v), NEW ev \in PlainEvents
  PROVE  Found(Post(v, ev, "none"))
<1> DEFINE m == Msg(ev, "none")
           w == Post(v, ev, "none")
<1>1. m \in Messages /\ m.ev \notin {"DISC_OK", "GETCAP_OK", "CONFIG_IND"}
  BY PlainMessage DEF Msg, PlainEvents
<1>2. /\ w \in Records /\ w.q = Append(v.q, m)
      /\ \A f \in {"state", "seps", "idx", "cfg", "op", "up", "ep", "dec", "co", "stale"} :
            w[f] = v[f]
  BY <1>1, Posted
<1> HIDE DEF w, m
<1>3. /\ w.state = v.state /\ w.seps = v.seps /\ w.idx = v.idx /\ w.stale = v.stale
      /\ w.op = v.op /\ w.ep = v.ep /\ w.co = v.co
  BY <1>2
<1>4. \A i \in 1..Len(w.q) : w.q[i].ev \in {m.ev} \/ \E j \in 1..Len(v.q) : w.q[i] = v.q[j]
  BY <1>1, <1>2, Appended
<1>5. "GETCAP_OK" \notin {m.ev} /\ "DISC_OK" \notin {m.ev} /\ "CONFIG_IND" \notin {m.ev}
  BY <1>1
<1>6. Found(w)
  BY <1>2, <1>3, <1>4, <1>5, Kept
<1> QED
  BY <1>6 DEF w

LEMMA HistoryKept ==
  ASSUME NEW v \in Records
  PROVE  /\ \A s \in States : Go(v, s).stale = v.stale /\ Go(v, s).co = v.co
         /\ Cleanup(v).stale = v.stale /\ CcoClose(v).stale = v.stale
         /\ StrClosed(v).stale = v.stale /\ ConnFailed(v).stale = v.stale
         /\ OpenFailed(v).stale = v.stale /\ StrOpened(v).stale = v.stale
         /\ Disconnect(v).stale = v.stale
<1>1. \A s \in States : Go(v, s).stale = v.stale /\ Go(v, s).co = v.co
  BY DEF Go, Records
<1>2. ASSUME NEW x \in Records
      PROVE  /\ Cleanup(x).stale = x.stale /\ CcoClose(x).stale = x.stale
             /\ StrOpened(x).stale = x.stale /\ DisconnectReq(x).stale = x.stale
  BY DEF Cleanup, CcoClose, StrOpened, DisconnectReq, Records
<1>3. ASSUME NEW x \in Records PROVE StrClosed(x).stale = x.stale
  <2>1. CcoClose(x) \in Records
    BY CleaningUp
  <2> QED
    BY <1>2, <2>1 DEF StrClosed
<1> DEFINE y == [v EXCEPT !.failed = TRUE]
<1>4. y \in Records /\ y.stale = v.stale
  BY DEF Records
<1>5. ConnFailed(v) = StrClosed(y) /\ OpenFailed(v) = DisconnectReq(CcoClose(y))
  BY DEF ConnFailed, OpenFailed
<1> HIDE DEF y
<1>6. CcoClose(y) \in Records
  BY <1>4, CleaningUp
<1>7. Disconnect(v).stale = v.stale
  <2> DEFINE g == Go(v, "init")
  <2>1. "init" \in States
    BY DEF States
  <2>2. g \in Records /\ g.stale = v.stale
    BY <1>1, <2>1, CleaningUp
  <2>3. Disconnect(v) = DisconnectReq(v) \/ Disconnect(v) = StrClosed(g)
    BY DEF Disconnect
  <2> HIDE DEF g
  <2> QED
    BY <1>2, <1>3, <2>2, <2>3
<1> QED
  BY <1>1, <1>2, <1>3, <1>4, <1>5, <1>6, <1>7

LEMMA LeavingKept ==
  ASSUME NEW v \in Records, Found(v), NEW s \in {"init", "open", "closing"}
  PROVE  /\ Found(Go(v, s)) /\ Found(OpenFailed(Go(v, s))) /\ Found(ConnFailed(Go(v, s)))
         /\ Found(StrClosed(Go(v, s))) /\ Found(CcoClose(Go(v, s)))
         /\ Found(Cleanup(CcoClose(Go(v, s)))) /\ Found(StrOpened(Go(v, s)))
         /\ Found(Disconnect(CcoClose(Go(v, s))))
<1> DEFINE g == Go(v, s)
           c == CcoClose(g)
           d == Disconnect(c)
<1>1. s \in States
  BY DEF States
<1>2. g \in Records /\ Same(v, g) /\ g.state = s /\ g.stale = v.stale
  BY <1>1, CleaningUp, HistoryKept
<1> HIDE DEF g
<1>3. ASSUME NEW w \in Records, Same(g, w), w.state = g.state, w.stale = g.stale PROVE Found(w)
  BY <1>2, <1>3, QueueKept DEF Same
<1>4. Found(g)
  BY <1>2, QueueKept DEF Same
<1>5. Found(OpenFailed(g)) /\ Found(ConnFailed(g)) /\ Found(StrClosed(g))
  BY <1>2, <1>3, Failing, HistoryKept
<1>6. /\ CcoClose(g) \in Records /\ Same(g, CcoClose(g)) /\ CcoClose(g).state = g.state
      /\ CcoClose(g).stale = g.stale
  BY <1>2, CleaningUp, HistoryKept
<1>7. /\ Cleanup(CcoClose(g)) \in Records /\ Same(CcoClose(g), Cleanup(CcoClose(g)))
      /\ Cleanup(CcoClose(g)).state = CcoClose(g).state
      /\ Cleanup(CcoClose(g)).stale = CcoClose(g).stale
  BY <1>6, CleaningUp, HistoryKept
<1>8. Found(CcoClose(g))
  BY <1>3, <1>6
<1>9. Found(Cleanup(CcoClose(g)))
  BY <1>3, <1>6, <1>7 DEF Same
<1>10. Found(StrOpened(g))
  BY <1>2, <1>3, CleaningUp, HistoryKept
<1>11. /\ d \in Records /\ Same(c, d) /\ d.state \in {c.state, "init"} /\ d.stale = c.stale
  BY <1>6, Disconnecting, HistoryKept
<1> HIDE DEF c, d
<1>12. Found(d)
  BY <1>2, <1>6, <1>8, <1>11, QueueKept DEF Same, c
<1> QED
  BY <1>4, <1>5, <1>8, <1>9, <1>10, <1>12 DEF g, c, d

\* AVDT_DisconnectReq, or the end at once, where no search is.
LEMMA DisconnectKept ==
  ASSUME NEW v \in Records, Found(v), v.state = "closing"
  PROVE  Found(Disconnect(v))
<1> DEFINE w == Disconnect(v)
<1>1. w \in Records /\ Same(v, w) /\ w.state \in {v.state, "init"} /\ w.stale = v.stale
  BY Disconnecting, HistoryKept
<1> HIDE DEF w
<1>2. Found(w)
  BY <1>1, QueueKept DEF Same
<1> QED
  BY <1>2 DEF w

\* Outside a search only a list at its end is spoken of.
LEMMA OutsideFound ==
  ASSUME NEW w \in Records, w.state # "opening", w.ep.st \notin Asking,
         w.idx = 1 \/ ~Exhausted(w)
  PROVE  Found(w)
<1>1. Seeks(w) /\ Taken(w)
  BY DEF Seeks, Taken
<1>2. Ended(w)
  <2>1. w.seps \in Seq(Kinds) /\ DOMAIN w.seps = 1..Len(w.seps)
    BY QueueStep DEF Records
  <2>2. CASE w.idx = 1
    <3>1. Exhausted(w) => \A j \in DOMAIN w.seps : w.seps[j] = "other"
      BY <2>1, <2>2 DEF Exhausted, Candidates
    <3>2. (\A j \in DOMAIN w.seps : w.seps[j] = "other") => Supported(w.seps) = {}
      BY CodecsAssumption DEF Supported
    <3>3. Supported(w.seps) = {} => Wanted(w.seps) = {}
      BY DEF Wanted
    <3> QED
      BY <3>1, <3>2, <3>3 DEF Ended
  <2>3. CASE ~Exhausted(w)
    BY <2>3 DEF Ended
  <2> QED
    BY <2>2, <2>3
<1> QED
  BY <1>1, <1>2 DEF Found

\* An index at the first of the candidates is not at the end.
LEMMA NotExhausted ==
  ASSUME NEW x \in Records, NEW w \in Records, Candidates(x) # {},
         w.seps = x.seps, w.idx = Min(Candidates(x))
  PROVE  ~Exhausted(w)
<1> DEFINE i == Min(Candidates(x))
<1>1. i \in DOMAIN x.seps /\ x.seps[i] # "other" /\ i \in Nat \ {0}
  BY FirstInList
<1>2. DOMAIN x.seps = 1..Len(x.seps) /\ Len(x.seps) \in Nat
  BY QueueStep DEF Records
<1> HIDE DEF i
<1>3. i \in i..Len(x.seps)
  BY <1>1, <1>2
<1> QED
  BY <1>1, <1>3 DEF Exhausted, Candidates, i

\* The questions asked outside a search.
LEMMA AskedOn ==
  ASSUME NEW x \in Records, x.state # "opening", x.ep.st \notin Asking, NEW r,
         x.idx = 1 \/ Candidates(x) # {}
  PROVE  Found(NextGetcap(x, r))
<1> DEFINE w == NextGetcap(x, r)
<1>1. /\ w \in Records /\ w.state = x.state /\ w.ep = x.ep /\ w.seps = x.seps
      /\ w.idx = IF Candidates(x) = {} THEN x.idx ELSE Min(Candidates(x))
  BY NextGetcapStep
<1> HIDE DEF w
<1>2. CASE Candidates(x) = {}
  BY <1>1, <1>2, OutsideFound DEF w
<1>3. CASE Candidates(x) # {}
  BY <1>1, <1>3, NotExhausted, OutsideFound DEF w
<1> QED
  BY <1>2, <1>3

-----------------------------------------------------------------------------
(* The search *)

LEMMA NextGetcapHistory ==
  ASSUME NEW x \in Records, NEW r
  PROVE  LET w == NextGetcap(x, r)
         IN  w.stale = x.stale /\ (w.state = "opening" => w.co = x.co)
<1> DEFINE i == IF Candidates(x) = {} THEN x.idx ELSE Min(Candidates(x))
           y == [x EXCEPT !.idx = i]
           z == [y EXCEPT !.pcap = TRUE]
<1>1. i \in Nat \ {0}
  BY FirstInList DEF Records
<1>2. NextGetcap(x, r) = Ask(z, "getcap") \/ NextGetcap(x, r) = SearchFails(y)
  BY DEF NextGetcap, Records
<1> HIDE DEF i
<1>3. y \in Records /\ y.stale = x.stale /\ y.co = x.co
  BY <1>1 DEF Records
<1> HIDE DEF y
<1>4. z \in Records /\ z.stale = x.stale /\ z.co = x.co
  BY <1>3 DEF Records
<1> HIDE DEF z
<1>5. Ask(z, "getcap").stale = x.stale /\ Ask(z, "getcap").co = x.co
  BY <1>4, Questioning
<1>6. LET f == SearchFails(y)
      IN  f.stale = x.stale /\ (f.state = "opening" => f.co = x.co)
  <2>1. CASE y.state # "opening"
    BY <1>3, <2>1 DEF SearchFails
  <2>2. CASE y.state = "opening"
    <3> DEFINE g == Go(y, "closing")
    <3>1. "closing" \in States
      BY DEF States
    <3>2. g \in Records /\ g.stale = x.stale
      BY <1>3, <3>1, CleaningUp, HistoryKept
    <3>3. SearchFails(y) = OpenFailed(g)
      BY <2>2 DEF SearchFails
    <3> HIDE DEF g
    <3>4. OpenFailed(g).stale = x.stale
      BY <3>2, HistoryKept
    <3>5. SearchFails(y).state = "closing"
      BY <1>3, <2>2, SearchFailing
    <3> QED
      BY <3>3, <3>4, <3>5
  <2> QED
    BY <2>1, <2>2
<1> QED
  BY <1>2, <1>5, <1>6

\* What the next question or the end of the search leaves.
LEMMA NextGetcapFinds ==
  ASSUME NEW x \in Records, x.state = "opening", NEW r, x.ep.st \notin Asking, x.op = "none",
         \A i \in 1..Len(x.q) : x.q[i].ev # "GETCAP_OK",
         ~x.stale => /\ Candidates(x) = {} /\ x.seps # << >> => Wanted(x.seps) = {}
                     /\ Progress(x.seps, x.idx, x.co)
                     /\ Candidates(x) # {} => Len(x.co.srcs) < Capacity
  PROVE  Found(NextGetcap(x, r))
<1> DEFINE w == NextGetcap(x, r)
           i == Min(Candidates(x))
<1>1. /\ w \in Records /\ w.q = x.q /\ w.ep = x.ep /\ w.seps = x.seps
      /\ \/ w.state = "closing" /\ w.idx = IF Candidates(x) = {} THEN x.idx ELSE i
         \/ w.state = "opening" /\ w.op = "getcap" /\ Candidates(x) # {} /\ w.idx = i
  BY NextGetcapStep
<1>2. w.stale = x.stale /\ (w.state = "opening" => w.co = x.co)
  BY NextGetcapHistory
<1>3. Candidates(x) # {} => ~Exhausted(w) \/ w.idx # i
  BY <1>1, NotExhausted
<1> HIDE DEF w
<1>4. Taken(w)
  BY <1>1 DEF Taken
<1>5. Ended(w)
  <2>1. CASE Candidates(x) # {}
    BY <1>1, <1>3, <2>1 DEF Ended
  <2>2. CASE Candidates(x) = {}
    BY <1>1, <1>2, <2>2 DEF Ended, Exhausted
  <2> QED
    BY <2>1, <2>2
<1>6. CASE w.state = "closing"
  BY <1>4, <1>5, <1>6 DEF Found, Seeks, w
<1>7. CASE w.state = "opening"
  <2>0. Candidates(x) # {} /\ w.idx = i
    BY <1>1, <1>7
  <2>1. i \in Candidates(x) /\ i \in Nat /\ \A j \in Candidates(x) : i <= j
    BY <2>0, FirstCandidate
  <2>2. /\ x.idx \in Nat \ {0} /\ x.seps \in Seq(Kinds) /\ Len(x.seps) \in Nat
        /\ DOMAIN x.seps = 1..Len(x.seps)
    BY QueueStep DEF Records
  <2>3. i \in x.idx..Len(x.seps) /\ x.seps[i] # "other"
    BY <2>1 DEF Candidates
  <2> HIDE DEF i
  <2>4. i \in Usable(x.seps) /\ i \in Nat \ {0} /\ x.idx <= i
    BY <2>1, <2>2, <2>3 DEF Usable
  <2>5. \A k \in Usable(x.seps) : k < i => k < x.idx
    <3> SUFFICES ASSUME NEW k \in Usable(x.seps), k < i, ~(k < x.idx) PROVE FALSE
      OBVIOUS
    <3>1. k \in x.idx..Len(x.seps) /\ x.seps[k] # "other" /\ k \in Nat
      BY <2>2 DEF Usable
    <3>2. i <= k
      BY <2>1, <3>1 DEF Candidates
    <3> QED
      BY <2>1, <3>1, <3>2
  <2>6. ~x.stale => Progress(x.seps, i, x.co) /\ Len(x.co.srcs) < Capacity
    BY <2>0, <2>2, <2>4, <2>5, Moved
  <2>7. Seeks(w)
    BY <1>1, <1>2, <1>7, <2>0, <2>4, <2>6 DEF Seeks
  <2> QED
    BY <1>4, <1>5, <2>7 DEF Found, w
<1> QED
  BY <1>1, <1>6, <1>7

LEMMA OpenReqFinds ==
  ASSUME NEW v \in Records, v.ep.st \notin Asking, v.state = "opening", v.op = "none",
         \A i \in 1..Len(v.q) : v.q[i].ev \notin {"DISC_OK", "GETCAP_OK", "CONFIG_IND"},
         ~v.stale => /\ v.idx \in Wanted(v.seps) /\ v.idx \in Supported(v.seps)
                     /\ v.cfg \in {v.seps[v.idx], "unset"}
  PROVE  Found(OpenReq(v))
<1>1. Seeks(v) /\ Taken(v)
  BY DEF Seeks, Taken, Pending
<1>2. ~v.stale => ~Exhausted(v)
  <2> SUFFICES ASSUME ~v.stale PROVE v.idx \in Candidates(v)
    BY DEF Exhausted
  <2>1. v.idx \in DOMAIN v.seps /\ v.seps[v.idx] # "other"
    BY CodecsAssumption DEF Supported
  <2>2. DOMAIN v.seps = 1..Len(v.seps) /\ Len(v.seps) \in Nat
    BY QueueStep DEF Records
  <2>3. v.idx \in v.idx..Len(v.seps)
    BY <2>1, <2>2
  <2> QED
    BY <2>1, <2>3 DEF Candidates
<1>3. Found(v)
  BY <1>1, <1>2 DEF Found, Ended
<1>4. CASE ~v.up
  BY <1>3, <1>4 DEF OpenReq
<1>5. CASE v.up /\ v.ep.st = "idle"
  <2> DEFINE w == [v EXCEPT !.op = "open", !.ep = [st |-> "requested", codec |-> v.cfg]]
  <2>1. /\ w.q = v.q /\ w.op = "open" /\ w.state = "opening" /\ w.seps = v.seps
        /\ w.idx = v.idx /\ w.stale = v.stale /\ w.ep.codec = v.cfg
    BY DEF Records
  <2>2. OpenReq(v) = w
    BY <1>5 DEF OpenReq
  <2> HIDE DEF w
  <2>3. Seeks(w) /\ Taken(w)
    BY <2>1 DEF Seeks, Taken, Pending
  <2>4. Ended(w)
    BY <1>2, <2>1 DEF Ended, Exhausted, Candidates
  <2> QED
    BY <2>2, <2>3, <2>4 DEF Found
<1>6. CASE v.up /\ v.ep.st # "idle"
  <2>1. OpenReq(v) = Post(v, "OPEN_FAIL", "none") /\ "OPEN_FAIL" \in PlainEvents
    BY <1>6 DEF OpenReq, PlainEvents
  <2> QED
    BY <1>3, <2>1, PlainKept
<1> QED
  BY <1>4, <1>5, <1>6

\* A new list: nothing of it has been looked at.
LEMMA DiscResultsFinds ==
  ASSUME NEW v \in Records, v.state = "opening", v.ep.st \notin Asking, v.op = "none",
         \A i \in 1..Len(v.q) : v.q[i].ev # "GETCAP_OK",
         NEW offer \in Offers, NEW r
  PROVE  Found(DiscResults(v, offer, r))
<1> DEFINE num == Cardinality(Usable(offer))
           b == (v.co.srcs # << >>)
           y == [v EXCEPT !.stale = v.co.srcs # << >>]
           x == WithList(y, offer, "source", num)
<1>1. offer \in Seq(Kinds)
  BY OffersAssumption
<1>2. num \in Nat /\ DOMAIN offer = 1..Len(offer) /\ Len(offer) \in Nat
  BY <1>1, Parts
<1>3. y \in Records /\ Same(v, y) /\ y.state = "opening" /\ y.co = v.co /\ y.stale = b
  BY Noted
<1>4. DiscResults(v, offer, r) = IF offer = << >> THEN SearchFails(x) ELSE NextGetcap(x, r)
  <2> HIDE DEF y
  <2> QED
    BY <1>3 DEF DiscResults, Discovered, WithList, Usable, Records, y
<1> HIDE DEF y, num
<1>5. /\ x \in Records /\ x.state = y.state /\ x.q = y.q /\ x.op = y.op
      /\ x.ep = y.ep /\ x.stale = y.stale /\ x.seps = offer
  BY <1>2, <1>3, Listed
<1>6. /\ offer # << >> => x.idx = 1
      /\ x.co.n = num /\ x.co.rx = 0 /\ x.co.srcs = y.co.srcs
  <2> HIDE DEF b
  <2>1. y \in Records
    BY <1>3
  <2>2. offer # << >> => x.idx = 1
    BY <1>2, <2>1, Listed
  <2>3. x.co = DiscRes(y.co, "source", num) /\ y.co \in CoRecords
    BY <2>1 DEF WithList, Records
  <2> QED
    BY <2>2, <2>3 DEF DiscRes, CoRecords
<1> HIDE DEF x
<1>7. CASE offer = << >>
  <2> DEFINE f == SearchFails(x)
  <2>1. f \in Records /\ Same(x, f) /\ f.state = "closing"
    BY <1>3, <1>5, SearchFailing
  <2> HIDE DEF f
  <2>2. Found(f)
    BY <1>3, <1>5, <1>7, <2>1 DEF Same, Found, Seeks, Taken, Ended, Exhausted
  <2> QED
    BY <1>4, <1>7, <2>2 DEF f
<1>8. CASE offer # << >>
  <2> SUFFICES Found(NextGetcap(x, r))
    BY <1>4, <1>8
  <2>1. \A T \in SUBSET DOMAIN offer : Below(T, 1) = {}
    BY <1>2 DEF Below
  <2>2. Below(Looked(offer), 1) = {} /\ Below(Supported(offer), 1) = {}
    BY <1>1, <2>1, Parts
  <2>3. ~b => Progress(offer, 1, x.co) /\ Len(x.co.srcs) < Capacity
    <3>1. ~b => x.co.srcs = << >> /\ Len(x.co.srcs) = 0
      BY <1>3, <1>6
    <3>2. Cardinality(Below(Looked(offer), 1)) = 0 /\ Cardinality(Below(Supported(offer), 1)) = 0
      BY <2>2, FS_EmptySet
    <3>3. 0 < Capacity
      BY CapacityAssumption
    <3> HIDE DEF b
    <3>4. ~b => Progress(offer, 1, x.co)
      BY <1>6, <3>1, <3>2 DEF Progress, num
    <3> QED
      BY <3>1, <3>3, <3>4
  <2>4. ASSUME Candidates(x) = {} PROVE Wanted(offer) = {}
    <3>1. Supported(offer) = {}
      <4> SUFFICES ASSUME NEW k \in Supported(offer) PROVE FALSE
        OBVIOUS
      <4>1. k \in 1..Len(offer) /\ offer[k] # "other"
        BY <1>1, Parts DEF Usable
      <4> QED
        BY <1>5, <1>6, <1>8, <2>4, <4>1 DEF Candidates
    <3> QED
      BY <3>1 DEF Wanted
  <2> HIDE DEF b
  <2> QED
    BY <1>3, <1>5, <1>6, <1>8, <2>3, <2>4, NextGetcapFinds DEF Same
<1> QED
  BY <1>7, <1>8

\* The discovery of an acceptor.
LEMMA AcpFinds ==
  ASSUME NEW v \in Records, v.state # "opening", v.ep.st \notin Asking, NEW offer \in Offers, NEW r
  PROVE  Found(DiscResAsAcp(v, offer, r))
<1> DEFINE x == WithList(v, offer, "sink", 0)
<1>1. DiscResAsAcp(v, offer, r) = IF offer = << >> THEN SearchFails(x) ELSE NextGetcap(x, r)
  BY DEF DiscResAsAcp, Discovered, WithList, Records
<1>2. x \in Records /\ x.state = v.state /\ x.ep = v.ep /\ x.seps = offer
  BY Listed
<1>3. offer # << >> => x.idx = 1
  BY Listed
<1> HIDE DEF x
<1>4. CASE offer = << >>
  <2>1. ~Exhausted(x)
    BY <1>2, <1>4 DEF Exhausted
  <2>2. SearchFails(x) = x
    BY <1>2 DEF SearchFails
  <2> QED
    BY <1>1, <1>2, <1>4, <2>1, <2>2, OutsideFound
<1>5. CASE offer # << >>
  BY <1>1, <1>2, <1>3, <1>5, AskedOn
<1> QED
  BY <1>4, <1>5

LEMMA GetcapResultsFinds ==
  ASSUME NEW v \in Records, v.state = "opening", v.op = "none", v.ep.st \notin Asking,
         \A i \in 1..Len(v.q) : v.q[i].ev \notin {"DISC_OK", "GETCAP_OK", "CONFIG_IND"},
         v.idx \in Usable(v.seps), NEW k, k = v.seps[v.idx],
         ~v.stale => Progress(v.seps, v.idx, v.co) /\ Len(v.co.srcs) < Capacity,
         NEW r
  PROVE  Found(GetcapResults(v, k, r))
<1> DEFINE co == SaveSrc(v.co, k, v.idx)
           c == IF k = "nocodec" THEN v.co ELSE co
           src == FindPeerSrc(co)
           cfg == IF r.built THEN src.codec ELSE "unset"
           w == IF k = "nocodec" THEN v ELSE [v EXCEPT !.co = co]
           o == [w EXCEPT !.idx = src.idx, !.cfg = cfg, !.dec = cfg, !.pcap = FALSE]
           n == [w EXCEPT !.idx = @ + 1]
<1>1. v.co \in CoRecords /\ v.idx \in Nat \ {0} /\ v.seps \in Seq(Kinds)
  BY DEF Records
<1>2. co \in CoRecords /\ (Takes(co) => src \in Entries)
  BY <1>1, SavedSrc
<1>3. GetcapResults(v, k, r) = IF k # "nocodec" /\ Takes(co) THEN OpenReq(o)
                                 ELSE NextGetcap(n, r)
  BY DEF GetcapResults
<1>4. c = IF v.seps[v.idx] = "nocodec" THEN v.co ELSE SaveSrc(v.co, v.seps[v.idx], v.idx)
  OBVIOUS
<1>5. k # "nocodec" => c = co
  OBVIOUS
<1>6. /\ w \in Records /\ w.state = v.state /\ w.q = v.q /\ w.op = v.op /\ w.ep = v.ep
      /\ w.seps = v.seps /\ w.idx = v.idx /\ w.stale = v.stale /\ w.co = c
  <2> HIDE DEF co
  <2> QED
    BY <1>2 DEF Records
<1> HIDE DEF co, c, w
<1>7. ~v.stale => /\ Progress(v.seps, v.idx + 1, c) /\ Len(c.srcs) <= Capacity
                  /\ c \in CoRecords
  BY <1>1, <1>4, Saved
<1>8. v.idx + 1 \in Nat \ {0}
  BY <1>1
<1>9. CASE k # "nocodec" /\ Takes(co)
  <2>1. src.idx \in Nat \ {0} /\ cfg \in Settings /\ cfg \in {src.codec, "unset"}
    BY <1>2, <1>9 DEF Entries, Configs, Settings
  <2>2. ~v.stale => /\ src.idx \in Wanted(v.seps) /\ src.idx \in Supported(v.seps)
                    /\ src.codec = v.seps[src.idx]
    BY <1>1, <1>5, <1>7, <1>8, <1>9, TakenIsWanted
  <2> HIDE DEF src, cfg
  <2>3. /\ o \in Records /\ o.state = v.state /\ o.q = v.q /\ o.op = v.op /\ o.ep = v.ep
        /\ o.seps = v.seps /\ o.idx = src.idx /\ o.stale = v.stale /\ o.cfg = cfg
    BY <1>6, <2>1 DEF Records
  <2> HIDE DEF o
  <2>4. Found(OpenReq(o))
    BY <2>1, <2>2, <2>3, OpenReqFinds
  <2> QED
    BY <1>3, <1>9, <2>4
<1>10. CASE ~(k # "nocodec" /\ Takes(co))
  <2>1. ASSUME ~v.stale PROVE Len(c.srcs) < Capacity
    <3>1. CASE k = "nocodec"
      BY <2>1, <3>1 DEF c
    <3>2. CASE ~Takes(c)
      <4>1. c.srcs \in Seq(Entries) /\ Len(c.srcs) \in Nat /\ Capacity \in Nat \ {0}
        BY <1>7, <2>1, LenProperties, CapacityAssumption DEF CoRecords
      <4>2. c.srcs = << >> \/ Len(c.srcs) # Capacity
        BY <3>2 DEF Takes
      <4>3. c.srcs = << >> => Len(c.srcs) = 0
        OBVIOUS
      <4> QED
        BY <1>7, <2>1, <4>1, <4>2, <4>3
    <3> QED
      BY <1>5, <1>10, <3>1, <3>2
  <2>2. /\ n \in Records /\ n.state = v.state /\ n.q = v.q /\ n.op = v.op /\ n.ep = v.ep
        /\ n.seps = v.seps /\ n.idx = v.idx + 1 /\ n.stale = v.stale /\ n.co = c
    BY <1>6, <1>8 DEF Records
  <2> HIDE DEF n
  <2>3. ASSUME ~v.stale, Candidates(n) = {} PROVE Wanted(v.seps) = {}
    <3>1. \A j \in Usable(v.seps) : j < v.idx + 1
      <4> SUFFICES ASSUME NEW j \in Usable(v.seps), ~(j < v.idx + 1) PROVE FALSE
        OBVIOUS
      <4>1. Len(v.seps) \in Nat /\ j \in 1..Len(v.seps) /\ v.seps[j] # "other"
        BY <1>1, Parts DEF Usable
      <4>2. j \in (v.idx + 1)..Len(v.seps)
        BY <1>8, <4>1
      <4> QED
        BY <2>2, <2>3, <4>1, <4>2 DEF Candidates
    <3>2. ~Takes(c) \/ \E j \in DOMAIN v.seps : v.seps[j] = "nocodec"
      BY <1>5, <1>10 DEF Usable
    <3> QED
      BY <1>1, <1>7, <1>8, <2>1, <2>3, <3>1, <3>2, NothingWanted
  <2>4. Found(NextGetcap(n, r))
    BY <1>7, <2>1, <2>2, <2>3, NextGetcapFinds
  <2> QED
    BY <1>3, <1>10, <2>4
<1> QED
  BY <1>9, <1>10

LEMMA SaveCapsFinds ==
  ASSUME NEW v \in Records, Found(v), v.state # "opening", v.ep.st \notin Asking, NEW k, NEW r,
         r.at \in Nat \ {0}
  PROVE  Found(SaveCaps(v, k, r))
<1> DEFINE c == IF v.pcap /\ k # "nocodec" THEN k ELSE r.raw
           p == [v EXCEPT !.pcap = TRUE]
           w == Collect(p, c, r)
           x == [w EXCEPT !.idx = @ + 1]
           z == [w EXCEPT !.idx = 1]
<1>1. \/ SaveCaps(v, k, r) \in {v, z}
      \/ SaveCaps(v, k, r) = NextGetcap(x, r) /\ Sends(x, r)
  BY DEF SaveCaps
<1>2. Sends(x, r) => Candidates(x) # {}
  BY DEF Sends
<1>3. p \in Records /\ p.state = v.state /\ p.ep = v.ep
  BY DEF Records
<1> HIDE DEF p, c
<1>4. w \in Records /\ w.state = v.state /\ w.ep = v.ep
  BY <1>3, Collecting
<1> HIDE DEF w
<1>5. x \in Records /\ x.state = v.state /\ x.ep = v.ep
  <2>1. w.idx + 1 \in Nat \ {0}
    BY <1>4 DEF Records
  <2> QED
    BY <1>4, <2>1 DEF Records
<1>6. z \in Records /\ z.state = v.state /\ z.ep = v.ep /\ z.idx = 1
  <2>1. 1 \in Nat \ {0}
    OBVIOUS
  <2> QED
    BY <1>4, <2>1 DEF Records
<1> HIDE DEF x, z
<1>7. Candidates(x) # {} => Found(NextGetcap(x, r))
  BY <1>5, AskedOn
<1>8. Found(z)
  BY <1>6, OutsideFound
<1> QED
  BY <1>1, <1>2, <1>7, <1>8

LEMMA ConfigIndFinds ==
  ASSUME NEW v \in Records, v.ep.st \notin Asking, NEW c \in Configs
  PROVE  Found(ConfigInd(v, c))
<1> DEFINE w == [v EXCEPT !.state = "incoming", !.cfg = c, !.seps = <<c>>, !.idx = 1]
           ev == IF c \in Codecs THEN "CI_OK" ELSE "CI_FAIL"
<1>1. ConfigInd(v, c) = Post(w, ev, "none")
  BY DEF ConfigInd
<1>2. <<c>> \in Seq(Kinds) /\ 1 \in Nat \ {0} /\ c \in Settings /\ "incoming" \in States
  BY DEF Configs, Settings, Kinds, States
<1>3. w \in Records /\ w.state = "incoming" /\ w.ep = v.ep /\ w.seps = <<c>> /\ w.idx = 1
  BY <1>2 DEF Records
<1>4. ev \in PlainEvents
  BY DEF PlainEvents
<1> HIDE DEF w, ev
<1>5. c # "other"
  BY CodecsAssumption DEF Configs
<1>6. ~Exhausted(w)
  <2>1. Len(<<c>>) = 1 /\ <<c>>[1] = c /\ 1 \in 1..1
    OBVIOUS
  <2>2. 1 \in Candidates(w)
    BY <1>3, <1>5, <2>1 DEF Candidates
  <2> QED
    BY <2>2 DEF Exhausted
<1>7. Found(w)
  BY <1>3, <1>6 DEF Found, Seeks, Taken, Ended
<1> QED
  BY <1>1, <1>3, <1>4, <1>7, PlainKept

LEMMA SetconfigKept ==
  ASSUME NEW v \in Records, Found(v)
  PROVE  /\ v.state = "incoming" => Found(SetconfigRsp(v))
         /\ Found(SetconfigRej(v))
<1>1. ASSUME v.state = "incoming" PROVE Found(SetconfigRsp(v))
  <2> DEFINE st == IF v.ep.st = "indicated" THEN "conf" ELSE v.ep.st
             ep == [v.ep EXCEPT !.st = st]
             w == [v EXCEPT !.dec = v.cfg, !.ep = ep]
             x == Ask(w, "discover")
  <2>1. SetconfigRsp(v) \in {w, x}
    BY DEF SetconfigRsp, Records
  <2>2. v.ep \in EpRecords
    BY DEF Records
  <2>3. ep \in EpRecords /\ ep.codec = v.ep.codec /\ ep.st \notin Asking
    BY <1>1, <2>2 DEF EpRecords, Asking, Found, Taken
  <2> HIDE DEF ep
  <2>4. /\ w \in Records /\ w.q = v.q /\ w.op = v.op /\ w.seps = v.seps /\ w.idx = v.idx
        /\ w.stale = v.stale /\ w.state = v.state /\ w.co = v.co /\ w.ep = ep
    BY <2>3 DEF Records
  <2> HIDE DEF w
  <2>5. Found(w)
    BY <2>3, <2>4, QueueKept
  <2>6. /\ x \in Records /\ x.state = w.state /\ x.ep = w.ep
        /\ x.seps = w.seps /\ x.idx = w.idx /\ x.stale = w.stale
    BY <2>4, Questioning
  <2> HIDE DEF x
  <2>7. Found(x)
    BY <1>1, <2>3, <2>4, <2>5, <2>6 DEF Found, Seeks, Taken, Ended, Exhausted, Candidates
  <2> QED
    BY <2>1, <2>5, <2>7
<1>2. Found(SetconfigRej(v))
  <2>1. CASE v.ep.st = "indicated"
    <3> DEFINE w == [v EXCEPT !.ep = EpIdle]
    <3>1. EpIdle \in EpRecords /\ EpIdle.st \notin Asking
      BY DEF EpIdle, EpRecords, Settings, Asking
    <3>2. /\ w \in Records /\ w.q = v.q /\ w.op = v.op /\ w.seps = v.seps /\ w.idx = v.idx
          /\ w.stale = v.stale /\ w.state = v.state /\ w.co = v.co /\ w.ep = EpIdle
      BY <3>1 DEF Records
    <3>3. SetconfigRej(v) = w
      BY <2>1 DEF SetconfigRej
    <3> HIDE DEF w
    <3> QED
      BY <3>1, <3>2, <3>3, QueueKept
  <2>2. CASE v.ep.st # "indicated"
    <3>1. SetconfigRej(v) = v
      BY <2>2 DEF SetconfigRej, Records
    <3> QED
      BY <3>1
  <2> QED
    BY <2>1, <2>2
<1> QED
  BY <1>1, <1>2

-----------------------------------------------------------------------------
(* bta_av_ssm_execute *)

\* What the handler of a message knows of the search.
Heard(v, m) ==
    /\ IsAnswer(m) \/ IsConfig(m) => v.ep.st \notin Asking
    /\ m.ev = "GETCAP_OK" /\ v.state = "opening" =>
          /\ v.idx \in Usable(v.seps) /\ m.arg = v.seps[v.idx]
          /\ ~v.stale => Progress(v.seps, v.idx, v.co) /\ Len(v.co.srcs) < Capacity

LEMMA OpeningFinds ==
  ASSUME NEW v \in Records, v.state = "opening", NEW m \in Reports,
         Headed(v, m), Found(v), Heard(v, m), NEW r
  PROVE  Found(OpeningSst(v, m, r))
<1>1. ASSUME IsAnswer(m)
      PROVE  /\ v.op = "none" /\ v.ep.st \notin Asking
             /\ \A i \in 1..Len(v.q) : v.q[i].ev \notin {"DISC_OK", "GETCAP_OK", "CONFIG_IND"}
  <2>1. /\ v.op = "none" /\ v.ep.st \notin Asking
        /\ \A i \in 1..Len(v.q) : ~IsAnswer(v.q[i]) /\ ~IsConfig(v.q[i])
    BY <1>1 DEF Headed, Heard
  <2> QED
    BY <2>1 DEF IsAnswer, IsConfig
<1>2. CASE m.ev = "DISC_OK"
  <2>1. m.arg \in Offers /\ IsAnswer(m) /\ OpeningSst(v, m, r) = DiscResults(v, m.arg, r)
    BY <1>2, MessageArgs DEF IsAnswer, OpeningSst
  <2> QED
    BY <1>1, <2>1, DiscResultsFinds
<1>3. CASE m.ev = "GETCAP_OK"
  <2>1. IsAnswer(m) /\ OpeningSst(v, m, r) = GetcapResults(v, m.arg, r)
    BY <1>3 DEF IsAnswer, OpeningSst
  <2>2. /\ v.idx \in Usable(v.seps) /\ m.arg = v.seps[v.idx]
        /\ ~v.stale => Progress(v.seps, v.idx, v.co) /\ Len(v.co.srcs) < Capacity
    BY <1>3 DEF Heard
  <2> QED
    BY <1>1, <2>1, <2>2, GetcapResultsFinds
<1>4. CASE m.ev = "CONFIG_IND"
  <2>1. m.arg \in Configs /\ v.ep.st \notin Asking /\ OpeningSst(v, m, r) = ConfigInd(v, m.arg)
    BY <1>4, MessageArgs DEF IsConfig, Heard, OpeningSst
  <2> QED
    BY <2>1, ConfigIndFinds
<1>5. CASE m.ev \notin {"DISC_OK", "GETCAP_OK", "CONFIG_IND"}
  <2>1. OpeningSst(v, m, r) \in {v, OpenFailed(Go(v, "closing")), StrOpened(Go(v, "open")),
                                 Go(v, "closing"), ConnFailed(Go(v, "init"))}
    BY <1>5 DEF OpeningSst
  <2> QED
    BY <2>1, LeavingKept
<1> QED
  BY <1>2, <1>3, <1>4, <1>5

LEMMA IncomingFinds ==
  ASSUME NEW v \in Records, v.state = "incoming", NEW m \in Reports,
         Found(v), Heard(v, m), NEW r, r.at \in Nat \ {0}
  PROVE  Found(IncomingSst(v, m, r))
<1>1. CASE m.ev = "DISC_OK"
  <2>1. m.arg \in Offers /\ v.ep.st \notin Asking /\ IncomingSst(v, m, r) = DiscResAsAcp(v, m.arg, r)
    BY <1>1, MessageArgs DEF IsAnswer, Heard, IncomingSst
  <2> QED
    BY <2>1, AcpFinds
<1>2. CASE m.ev = "GETCAP_OK"
  <2>1. IncomingSst(v, m, r) = SaveCaps(v, m.arg, r)
    BY <1>2 DEF IncomingSst
  <2>2. v.ep.st \notin Asking
    BY <1>2 DEF Heard, IsAnswer
  <2> QED
    BY <2>1, <2>2, SaveCapsFinds
<1>3. CASE m.ev = "CONFIG_IND"
  <2>1. m.arg \in Configs /\ v.ep.st \notin Asking /\ IncomingSst(v, m, r) = ConfigInd(v, m.arg)
    BY <1>3, MessageArgs DEF IsConfig, Heard, IncomingSst
  <2> QED
    BY <2>1, ConfigIndFinds
<1>4. CASE m.ev = "CI_OK"
  <2>1. IncomingSst(v, m, r) = SetconfigRsp(v)
    BY <1>4 DEF IncomingSst
  <2> QED
    BY <2>1, SetconfigKept
<1>5. CASE m.ev = "CI_FAIL"
  <2> DEFINE g == Go(v, "init")
             w == SetconfigRej(g)
  <2>1. IncomingSst(v, m, r) = Cleanup(w)
    BY <1>5 DEF IncomingSst
  <2>2. g \in Records /\ Found(g) /\ g.state = "init"
    BY LeavingKept, CleaningUp DEF States
  <2> HIDE DEF g
  <2>3. w \in Records /\ w.state = "init"
    <3>1. EpIdle \in EpRecords
      BY DEF EpIdle, EpRecords, Settings
    <3> QED
      BY <2>2, <3>1 DEF SetconfigRej, Records
  <2>4. Found(w)
    BY <2>2, SetconfigKept
  <2> HIDE DEF w
  <2>5. /\ Cleanup(w) \in Records /\ Same(w, Cleanup(w)) /\ Cleanup(w).state = w.state
        /\ Cleanup(w).stale = w.stale
    BY <2>3, CleaningUp, HistoryKept
  <2> QED
    BY <2>1, <2>3, <2>4, <2>5, QueueKept DEF Same
<1>6. CASE m.ev \notin {"DISC_OK", "GETCAP_OK", "CONFIG_IND", "CI_OK", "CI_FAIL"}
  <2>1. IncomingSst(v, m, r) \in {v, StrOpened(Go(v, "open")),
                                  Disconnect(CcoClose(Go(v, "closing"))),
                                  Cleanup(CcoClose(Go(v, "init")))}
    BY <1>6 DEF IncomingSst
  <2> QED
    BY <2>1, LeavingKept
<1> QED
  BY <1>1, <1>2, <1>3, <1>4, <1>5, <1>6

LEMMA OthersFind ==
  ASSUME NEW v \in Records, NEW m \in Reports, Found(v), Heard(v, m), NEW r, r.at \in Nat \ {0}
  PROVE  /\ v.state = "open" => Found(OpenSst(v, m, r))
         /\ v.state = "closing" => Found(ClosingSst(v, m))
         /\ v.state = "init" => Found(InitSst(v, m))
<1>1. Found(Go(v, "closing")) /\ Found(StrClosed(Go(v, "init"))) /\ Found(SetconfigRej(v))
  BY LeavingKept, SetconfigKept
<1>2. ASSUME v.state = "open" PROVE Found(OpenSst(v, m, r))
  <2>1. ASSUME m.ev = "GETCAP_OK", NEW k PROVE Found(SaveCaps(v, k, r))
    BY <1>2, <2>1, SaveCapsFinds DEF Heard, IsAnswer
  <2> QED
    BY <1>1, <2>1 DEF OpenSst
<1>3. ASSUME v.state = "closing" PROVE Found(ClosingSst(v, m))
  BY <1>1, <1>3, DisconnectKept DEF ClosingSst
<1>4. ASSUME v.state = "init" PROVE Found(InitSst(v, m))
  <2>1. ASSUME m.ev = "CONFIG_IND" PROVE Found(ConfigInd(v, m.arg))
    BY <2>1, MessageArgs, ConfigIndFinds DEF Heard, IsConfig
  <2>2. Found(Cleanup(v))
    BY <1>4, CleaningUp, HistoryKept, QueueKept DEF Same
  <2> QED
    BY <2>1, <2>2 DEF InitSst
<1> QED
  BY <1>2, <1>3, <1>4

FoundInv == Inv /\ Found(u)

LEMMA HandleFinds == FoundInv /\ Handle => Found(u')
<1> SUFFICES ASSUME FoundInv, Handle PROVE Found(u')
  OBVIOUS
<1> DEFINE v == [u EXCEPT !.q = Tail(@)]
           m0 == Head(u.q)
           m == Told(u, m0)
<1>1. v \in Records /\ v.state = u.state /\ m0 \in Messages /\ Settled(v) /\ Headed(v, m0)
  BY TakeMessage DEF FoundInv, Inv, Handle
<1>2. PICK r \in Unknowns(u) :
         u' = CASE u.state = "init" -> InitSst(v, m)
                [] u.state = "opening" -> OpeningSst(v, m, r)
                [] u.state = "incoming" -> IncomingSst(v, m, r)
                [] u.state = "open" -> OpenSst(v, m, r)
                [] u.state = "closing" -> ClosingSst(v, m)
  BY DEF Handle
<1>3. u \in Records /\ u.q # << >> /\ u.q \in Seq(Messages)
  BY DEF FoundInv, Inv, Records, Handle
<1>4. /\ v.q = Tail(u.q) /\ v.op = u.op /\ v.seps = u.seps /\ v.idx = u.idx
      /\ v.stale = u.stale /\ v.co = u.co /\ v.ep = u.ep
  BY <1>3 DEF Records
<1>5. /\ 1 \in 1..Len(u.q) /\ m0 = u.q[1]
      /\ \A i \in 1..Len(Tail(u.q)) : Tail(u.q)[i] = u.q[i + 1] /\ i + 1 \in 1..Len(u.q)
  BY <1>3, QueueStep
<1> HIDE DEF v, m0
<1>0. /\ m \in Reports /\ Headed(v, m) /\ r.at \in Nat \ {0}
      /\ m = m0 \/ (~IsAnswer(m) /\ ~IsConfig(m))
  BY <1>1, <1>3, ToldReport, Unknown
<1> HIDE DEF m
<1>6. \A i \in 1..Len(v.q) : \E j \in 1..Len(u.q) : v.q[i] = u.q[j]
  BY <1>4, <1>5
<1>7. Found(v)
  <2> DEFINE evs == {}
  <2>1. "GETCAP_OK" \notin evs /\ "DISC_OK" \notin evs /\ "CONFIG_IND" \notin evs
    OBVIOUS
  <2>2. Found(u)
    BY DEF FoundInv
  <2>3. \A i \in 1..Len(v.q) : v.q[i].ev \in evs \/ \E j \in 1..Len(u.q) : v.q[i] = u.q[j]
    BY <1>6
  <2> HIDE DEF evs
  <2> QED
    BY <1>1, <1>3, <1>4, <2>1, <2>2, <2>3, Kept
<1>8. Heard(v, m)
  <2>1. IsAnswer(m) \/ IsConfig(m) => v.ep.st \notin Asking
    BY <1>0, <1>4, <1>5 DEF IsAnswer, IsConfig, FoundInv, Found, Taken
  <2>2. m.ev = "GETCAP_OK" => m = m0 /\ Pending(u)
    BY <1>0, <1>5 DEF Pending, IsAnswer
  <2>3. m.ev = "GETCAP_OK" /\ v.state = "opening" =>
          /\ v.idx \in Usable(v.seps) /\ m.arg = v.seps[v.idx]
          /\ ~v.stale => Progress(v.seps, v.idx, v.co) /\ Len(v.co.srcs) < Capacity
    BY <1>1, <1>4, <1>5, <2>2 DEF FoundInv, Found, Seeks
  <2> QED
    BY <2>1, <2>3 DEF Heard
<1>9. u.state \in States
  BY <1>3 DEF Records
<1>10. CASE u.state = "opening"
  <2>1. u' = OpeningSst(v, m, r)
    BY <1>2, <1>10
  <2> QED
    BY <1>0, <1>1, <1>7, <1>8, <1>10, <2>1, OpeningFinds
<1>11. CASE u.state = "incoming"
  <2>1. u' = IncomingSst(v, m, r)
    BY <1>2, <1>11
  <2> QED
    BY <1>0, <1>1, <1>7, <1>8, <1>11, <2>1, IncomingFinds
<1>12. CASE u.state \in {"init", "open", "closing"}
  BY <1>0, <1>1, <1>2, <1>7, <1>8, <1>12, OthersFind
<1> QED
  BY <1>9, <1>10, <1>11, <1>12 DEF States

-----------------------------------------------------------------------------
(* The application and the device *)

LEMMA PostKept ==
  ASSUME NEW v \in Records, NEW x \in Records, Found(v), NEW ev, NEW arg,
         Msg(ev, arg) \in Messages, ev # "GETCAP_OK",
         x.q = v.q, x.state = v.state, x.seps = v.seps, x.idx = v.idx, x.stale = v.stale,
         x.co = v.co, x.op \in {v.op, "none"},
         x.ep.st \in Asking => /\ v.ep.st \in Asking /\ x.ep.codec = v.ep.codec
                               /\ ev \notin {"DISC_OK", "CONFIG_IND"}
  PROVE  Found(Post(x, ev, arg))
<1> DEFINE m == Msg(ev, arg)
           w == Post(x, ev, arg)
<1>1. m.ev = ev
  BY DEF Msg
<1>2. /\ w \in Records /\ w.q = Append(x.q, m)
      /\ \A f \in {"state", "seps", "idx", "cfg", "op", "up", "ep", "dec", "co", "stale"} :
            w[f] = x[f]
  BY Posted
<1> HIDE DEF w, m
<1>3. /\ w.state = v.state /\ w.seps = v.seps /\ w.idx = v.idx /\ w.stale = v.stale
      /\ w.op = x.op /\ w.ep = x.ep /\ w.co = v.co /\ w.q = Append(v.q, m)
  BY <1>2
<1>4. \A i \in 1..Len(w.q) : w.q[i].ev \in {ev} \/ \E j \in 1..Len(v.q) : w.q[i] = v.q[j]
  BY <1>1, <1>2, <1>3, Appended DEF m
<1> DEFINE evs == {ev}
<1>5. /\ "GETCAP_OK" \notin evs
      /\ x.ep.st \in Asking => "DISC_OK" \notin evs /\ "CONFIG_IND" \notin evs
  OBVIOUS
<1>6. \A i \in 1..Len(w.q) : w.q[i].ev \in evs \/ \E j \in 1..Len(v.q) : w.q[i] = v.q[j]
  BY <1>4
<1> HIDE DEF evs
<1>7. Found(w)
  BY <1>2, <1>3, <1>5, <1>6, Kept
<1> QED
  BY <1>7 DEF w

LEMMA OpenFinds == FoundInv /\ Open => Found(u')
<1> SUFFICES ASSUME FoundInv, Open PROVE Found(u')
  OBVIOUS
<1>1. u \in Records /\ Found(u) /\ u' \in Records /\ u.ep.st = "idle"
  BY OpenKeeps DEF FoundInv, Inv, Open
<1>2. /\ u'.q = << >> /\ u'.op = "discover" /\ u'.ep = u.ep /\ u'.seps = u.seps
      /\ u'.idx = u.idx /\ u'.stale = u.stale /\ u'.state = "opening"
  <2>1. PICK own \in BOOLEAN :
           u' = [u EXCEPT !.state = "opening", !.op = "discover", !.up = TRUE, !.own = own,
                          !.tries = @ + 1]
    BY DEF Open
  <2> QED
    BY <1>1, <2>1 DEF Open, Records
<1>3. Len(u'.q) = 0
  BY <1>2
<1>4. ~Pending(u') /\ u'.ep.st \notin Asking
  BY <1>1, <1>2, <1>3 DEF Pending, Asking
<1> DEFINE evs == {}
<1>5. \A i \in 1..Len(u'.q) : u'.q[i].ev \in evs \/ \E j \in 1..Len(u.q) : u'.q[i] = u.q[j]
  BY <1>3
<1>6. "GETCAP_OK" \notin evs /\ "DISC_OK" \notin evs /\ "CONFIG_IND" \notin evs
  OBVIOUS
<1> HIDE DEF evs
<1> QED
  BY <1>1, <1>2, <1>4, <1>5, <1>6, Kept

LEMMA AnswerGetcapFinds == FoundInv /\ AnswerGetcap => Found(u')
<1> SUFFICES ASSUME FoundInv, AnswerGetcap PROVE Found(u')
  OBVIOUS
<1>1. u \in Records /\ Found(u) /\ u.op = "getcap" /\ u.q \in Seq(Messages) /\ OneQuestion(u)
      /\ u.op # "none"
  BY DEF FoundInv, Inv, Settled, Records, AnswerGetcap
<1>2. PICK k \in Capabilities : u' = Post([u EXCEPT !.op = "none"], "GETCAP_OK", k)
  BY DEF AnswerGetcap
<1> DEFINE x == [u EXCEPT !.op = "none"]
           m == Msg("GETCAP_OK", k)
           w == Post(x, "GETCAP_OK", k)
<1>0. u' = w /\ (u.state = "opening" => k = u.seps[u.idx])
  BY <1>2 DEF Capabilities
<1>3. /\ x \in Records /\ x.q = u.q /\ x.op = "none" /\ x.state = u.state /\ x.seps = u.seps
      /\ x.idx = u.idx /\ x.stale = u.stale /\ x.co = u.co /\ x.ep = u.ep
  BY <1>1 DEF Records, Commands
<1>4. Pending(u) /\ u.ep.st \notin Asking
  BY <1>1 DEF Pending, Found, Taken
<1>5. m \in Messages /\ m.arg = k
  <2>1. u.seps \in Seq(Kinds)
    BY <1>1 DEF Records
  <2>2. u.state = "opening" => u.seps[u.idx] \in Kinds
    BY <1>1, <1>4, <2>1, QueueStep DEF Found, Seeks, Usable
  <2>3. k \in Kinds
    BY <2>2 DEF Capabilities, Kinds
  <2> QED
    BY <2>3 DEF Msg, Messages
<1> HIDE DEF x
<1>6. /\ w \in Records /\ w.q = Append(x.q, m)
      /\ \A f \in {"state", "seps", "idx", "cfg", "op", "up", "ep", "dec", "co", "stale"} :
            w[f] = x[f]
  BY <1>3, <1>5, Posted
<1> HIDE DEF w, m
<1>7. /\ w.state = u.state /\ w.seps = u.seps /\ w.idx = u.idx /\ w.stale = u.stale
      /\ w.op = "none" /\ w.ep = u.ep /\ w.co = u.co /\ w.q = Append(u.q, m)
  BY <1>3, <1>6
<1>8. \A i \in 1..Len(w.q) : w.q[i] = m \/ \E j \in 1..Len(u.q) : w.q[i] = u.q[j]
  BY <1>1, <1>5, <1>7, QueueAppend
<1>9. u.state = "opening" => \A i \in 1..Len(w.q) : w.q[i].ev = "GETCAP_OK" => w.q[i] = m
  BY <1>1, <1>8 DEF OneQuestion, IsAnswer
<1>10. Seeks(w)
  BY <1>0, <1>1, <1>4, <1>5, <1>7, <1>9 DEF Found, Seeks
<1>11. Taken(w) /\ Ended(w)
  BY <1>1, <1>4, <1>7 DEF Found, Taken, Ended, Exhausted, Candidates
<1> QED
  BY <1>0, <1>10, <1>11 DEF Found

LEMMA AnswerFinds == FoundInv /\ Answer => Found(u')
<1> SUFFICES ASSUME FoundInv, Answer PROVE Found(u')
  OBVIOUS
<1>0. u \in Records /\ Found(u) /\ Settled(u)
  BY DEF FoundInv, Inv
<1>1. CASE AnswerDiscover
  <2> DEFINE x == [u EXCEPT !.op = "none"]
  <2>1. u.op = "discover"
    BY <1>1 DEF AnswerDiscover
  <2>2. PICK o \in Offers : u' = Post(x, "DISC_OK", o)
    BY <1>1 DEF AnswerDiscover
  <2>3. Msg("DISC_OK", o) \in Messages
    BY DEF Msg, Messages
  <2>4. u.ep.st \notin Asking
    BY <1>0, <2>1 DEF Found, Taken
  <2>5. /\ x \in Records /\ x.q = u.q /\ x.op = "none" /\ x.state = u.state /\ x.seps = u.seps
        /\ x.idx = u.idx /\ x.stale = u.stale /\ x.co = u.co /\ x.ep = u.ep
    BY <1>0 DEF Records, Commands
  <2> HIDE DEF x
  <2> QED
    BY <1>0, <2>2, <2>3, <2>4, <2>5, PostKept
<1>2. CASE AnswerGetcap
  BY <1>2, AnswerGetcapFinds
<1>3. CASE AcceptConfig
  <2>1. u.op = "open" /\ u.ep.st = "requested" /\ u.ep \in EpRecords /\ u' \in Records
    BY <1>0, <1>3, AnswerKeeps DEF AcceptConfig, Settled, Requested, Records, FoundInv
  <2>2. u' = [u EXCEPT !.op = "none", !.ep = [u.ep EXCEPT !.st = "opening"]]
    BY <1>0, <1>3 DEF AcceptConfig, Records
  <2>3. /\ u'.q = u.q /\ u'.op = "none" /\ u'.state = u.state /\ u'.seps = u.seps
        /\ u'.idx = u.idx /\ u'.stale = u.stale /\ u'.co = u.co
        /\ u'.ep = [u.ep EXCEPT !.st = "opening"]
    BY <1>0, <2>2 DEF Records
  <2>4. u'.ep.codec = u.ep.codec /\ u.ep.st \in Asking
    BY <2>1, <2>3 DEF EpRecords, Asking
  <2> QED
    BY <1>0, <2>1, <2>3, <2>4, QueueKept
<1>4. CASE Reject
  <2> DEFINE x == [u EXCEPT !.op = "none"]
             y == [u EXCEPT !.op = "none", !.ep = EpIdle]
  <2>1. \A ev \in {"DISC_FAIL", "GETCAP_FAIL", "OPEN_FAIL"} : Msg(ev, "none") \in Messages
    BY PlainMessage DEF PlainEvents
  <2>2. EpIdle \in EpRecords /\ EpIdle.st \notin Asking
    BY DEF EpIdle, EpRecords, Settings, Asking
  <2>3. \/ u' = Post(x, "DISC_FAIL", "none") \/ u' = Post(x, "GETCAP_FAIL", "none")
        \/ u' = Post(y, "OPEN_FAIL", "none")
    BY <1>4 DEF Reject
  <2>4. /\ x \in Records /\ x.q = u.q /\ x.op = "none" /\ x.state = u.state /\ x.seps = u.seps
        /\ x.idx = u.idx /\ x.stale = u.stale /\ x.co = u.co /\ x.ep = u.ep
    BY <1>0 DEF Records, Commands
  <2>5. /\ y \in Records /\ y.q = u.q /\ y.op = "none" /\ y.state = u.state /\ y.seps = u.seps
        /\ y.idx = u.idx /\ y.stale = u.stale /\ y.co = u.co /\ y.ep = EpIdle
    BY <1>0, <2>2 DEF Records, Commands
  <2> HIDE DEF x, y
  <2>6. Found(Post(x, "DISC_FAIL", "none")) /\ Found(Post(x, "GETCAP_FAIL", "none"))
    BY <1>0, <2>1, <2>4, PostKept
  <2>7. Found(Post(y, "OPEN_FAIL", "none"))
    BY <1>0, <2>1, <2>2, <2>5, PostKept
  <2> QED
    BY <2>3, <2>6, <2>7
<1> QED
  BY <1>1, <1>2, <1>3, <1>4 DEF Answer

LEMMA ConfigureFinds == FoundInv /\ Configure => Found(u')
<1> SUFFICES ASSUME FoundInv, Configure PROVE Found(u')
  OBVIOUS
<1>1. u \in Records /\ Found(u)
  BY DEF FoundInv, Inv
<1>2. PICK c \in Codecs \cup {"unsup"} :
          u' = Post([u EXCEPT !.up = TRUE, !.own = @ /\ u.up, !.ep = [st |-> "indicated", codec |-> c],
                              !.tries = IF u.state = "init" THEN @ + 1 ELSE @],
                    "CONFIG_IND", c)
  BY DEF Configure
<1> DEFINE n == IF u.state = "init" THEN u.tries + 1 ELSE u.tries
           ep == [st |-> "indicated", codec |-> c]
           b == (u.own /\ u.up)
           x == [u EXCEPT !.up = TRUE, !.own = b, !.ep = ep, !.tries = n]
<1>3. Msg("CONFIG_IND", c) \in Messages
  BY DEF Msg, Messages, Configs
<1>4. n \in Nat /\ b \in BOOLEAN /\ ep \in EpRecords /\ ep.st \notin Asking
  BY <1>1 DEF Records, EpRecords, Configs, Settings, Asking
<1>5. u' = Post(x, "CONFIG_IND", c)
  BY <1>1, <1>2 DEF Records
<1> HIDE DEF n, b, ep
<1>6. /\ x \in Records /\ x.q = u.q /\ x.op = u.op /\ x.state = u.state /\ x.seps = u.seps
      /\ x.idx = u.idx /\ x.stale = u.stale /\ x.co = u.co /\ x.ep = ep
  BY <1>1, <1>4 DEF Records
<1> HIDE DEF x
<1> QED
  BY <1>1, <1>3, <1>4, <1>5, <1>6, PostKept

LEMMA MediaUpFinds == FoundInv /\ MediaUp => Found(u')
<1> SUFFICES ASSUME FoundInv, MediaUp PROVE Found(u')
  OBVIOUS
<1> DEFINE ep == [u.ep EXCEPT !.st = "open"]
           x == [u EXCEPT !.ep = ep]
<1>1. u \in Records /\ Found(u)
  BY DEF FoundInv, Inv
<1>2. ep \in EpRecords /\ ep.st \notin Asking
  BY <1>1 DEF Records, EpRecords, Asking
<1>3. u' = Post(x, "OPEN_OK", "none")
  BY <1>1 DEF MediaUp, Records
<1> HIDE DEF ep
<1>4. /\ x \in Records /\ x.q = u.q /\ x.op = u.op /\ x.state = u.state /\ x.seps = u.seps
      /\ x.idx = u.idx /\ x.stale = u.stale /\ x.co = u.co /\ x.ep = ep
  BY <1>1, <1>2 DEF Records
<1> HIDE DEF x
<1>5. Msg("OPEN_OK", "none") \in Messages
  BY PlainMessage DEF PlainEvents
<1> QED
  BY <1>1, <1>2, <1>3, <1>4, <1>5, PostKept

LEMMA LinkDownFinds == FoundInv /\ LinkDown => Found(u')
<1> SUFFICES ASSUME FoundInv, LinkDown PROVE Found(u')
  OBVIOUS
<1> DEFINE P == {Msg(ev, "none") : ev \in PlainEvents}
           t == LinkReports
           q == u.q \o t
           w == [u EXCEPT !.op = "none", !.up = FALSE, !.ep = EpIdle, !.q = q]
<1>1. u \in Records /\ Found(u) /\ u.q \in Seq(Messages)
  BY DEF FoundInv, Inv, Records
<1>2. u' = w
  BY <1>1 DEF LinkDown, Records
<1>3. t \in Seq(P)
  BY <1>1, PlainReports
<1>4. \A m \in P : m.ev \in PlainEvents
  BY DEF Msg
<1> HIDE DEF P, t
<1>5. /\ Len(u.q) \in Nat /\ Len(t) \in Nat /\ t \in Seq(P \cup Messages) /\ u.q \in Seq(P \cup Messages)
      /\ \A i \in 1..Len(t) : t[i] \in P
  BY <1>1, <1>3, LenProperties, ElementOfSeq, SeqMonotonic
<1>6. /\ Len(q) = Len(u.q) + Len(t)
      /\ \A i \in 1..Len(u.q) + Len(t) : q[i] = IF i <= Len(u.q) THEN u.q[i] ELSE t[i - Len(u.q)]
  BY <1>5, ConcatProperties
<1>7. q \in Seq(Messages)
  BY <1>1, <1>3, PlainConcat DEF P
<1> HIDE DEF q
<1>8. ASSUME NEW i \in 1..Len(q)
      PROVE  q[i].ev \in PlainEvents \/ \E j \in 1..Len(u.q) : q[i] = u.q[j]
  <2>1. CASE i <= Len(u.q)
    BY <1>5, <1>6, <2>1
  <2>2. CASE ~(i <= Len(u.q))
    <3>1. i \in 1..Len(u.q) + Len(t) /\ q[i] = t[i - Len(u.q)]
      BY <1>6, <2>2
    <3>2. i - Len(u.q) \in 1..Len(t)
      BY <1>5, <2>2, <3>1
    <3> QED
      BY <1>4, <1>5, <3>1, <3>2
  <2> QED
    BY <2>1, <2>2
<1>9. EpIdle \in EpRecords /\ EpIdle.st \notin Asking
  BY DEF EpIdle, EpRecords, Settings, Asking
<1>10. /\ w \in Records /\ w.q = q /\ w.op = "none" /\ w.state = u.state /\ w.seps = u.seps
       /\ w.idx = u.idx /\ w.stale = u.stale /\ w.co = u.co /\ w.ep = EpIdle
  BY <1>1, <1>7, <1>9 DEF Records, Commands
<1> HIDE DEF w
<1>11. "GETCAP_OK" \notin PlainEvents
  BY DEF PlainEvents
<1> QED
  BY <1>1, <1>2, <1>8, <1>9, <1>10, <1>11, Kept

-----------------------------------------------------------------------------
(* The theorem *)

LEMMA InitFound == Init => FoundInv
<1> SUFFICES ASSUME Init PROVE FoundInv
  OBVIOUS
<1>1. u.state = "init" /\ u.ep.st = "idle" /\ u.seps = << >>
  BY DEF Init, EpIdle
<1> QED
  BY <1>1, InitInv DEF FoundInv, Found, Seeks, Taken, Asking, Ended, Exhausted

LEMMA FoundNext == FoundInv /\ Inv' /\ [Next]_vars => FoundInv'
<1> SUFFICES ASSUME FoundInv, Inv', [Next]_vars PROVE FoundInv'
  OBVIOUS
<1>1. Found(u')
  <2>1. u \in Records /\ Found(u)
    BY DEF FoundInv, Inv
  <2>2. CASE Next
    <3>1. CASE Close
      BY <2>1, <3>1, PlainKept DEF Close, PlainEvents
    <3>2. CASE Done
      BY <2>1, <3>2 DEF Done
    <3> QED
      BY <2>2, <3>1, <3>2, HandleFinds, OpenFinds, AnswerFinds, ConfigureFinds, MediaUpFinds,
         LinkDownFinds DEF Next
  <2>3. CASE UNCHANGED vars
    BY <2>1, <2>3 DEF vars
  <2> QED
    BY <2>2, <2>3
<1> QED
  BY <1>1 DEF FoundInv, Found, Seeks, Taken, Ended, Pending, Exhausted, Candidates

LEMMA FoundInvariant == Spec => []FoundInv
  BY InitFound, FoundNext, Invariant, PTL DEF Spec

\* The stream that is asked for is the one the list of the device calls for, and a search
\* that comes to the end of the list has found nothing to ask for (WantedIsOpened, for
\* every list, every number of codecs and of places in the call-out): the counts of the
\* call-out (bta_av_co.c:247-291) stay in step with the index of bta_av_next_getcap.
THEOREM WantedOpened == Spec => []WantedIsOpened
<1>1. FoundInv => WantedIsOpened
  BY DEF FoundInv, Found, Taken, Asking, Ended, WantedIsOpened
<1> QED
  BY <1>1, FoundInvariant, PTL
=============================================================================
